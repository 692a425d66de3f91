---------------------------- MODULE MCLaneBackoff ----------------------------
(***************************************************************************)
(* Small instances, for TLC, of what waits on a timer for a wall-clock       *)
(* instant: the back-off of a lane (LaneBackoff) and the weekly report       *)
(* (WeeklyReport).  One run checks both, each from its own initial states    *)
(* with the other frozen.                                                    *)
(*                                                                         *)
(* A millisecond has two units, the longest back-off is one millisecond and  *)
(* the Retry-After exceeds it.  A week has two days of three units, and the  *)
(* zone may gain or lose one unit at any time of a day of the second week.            *)
(***************************************************************************)
EXTENDS LaneBackoff, WeeklyReport

MCOffsets == {0, 1}
MCChanges == 7 .. 9
MCClockSteps == {-4, 4}

VARIABLE part
mcVars == <<part, vars, reportVars>>

\* The part a behaviour is not about stays in one initial state.
MCInit ==
    /\ part \in {"backoff", "report"}
    /\ Init /\ ReportInit
    /\ part = "backoff" =>
         /\ clock = 0 /\ schedule = [weekday |-> 0, hour |-> 0]
         /\ zone = [change |-> Min(Changes), before |-> 0, after |-> 0, picks |-> 0]

MCNext ==
    /\ part' = part
    /\ \/ part = "backoff" /\ Next /\ UNCHANGED reportVars
       \/ part = "report" /\ ReportNext /\ UNCHANGED vars

MCSpec == MCInit /\ [][MCNext]_mcVars
=============================================================================
