------------------------------ MODULE MCClocks ------------------------------
(***************************************************************************)
(* The clocks that sign and the window that verifies, side by side.  They  *)
(* share no state in the gateway; part says which of them this behaviour   *)
(* is about, so the states explored are the sum and not the product.       *)
(***************************************************************************)
EXTENDS SigningClock, ReplayWindow, EvidenceClock, TLC

CONSTANTS e1, e2, e3

\* Two envelopes of one time, and one before it.
MCSignedAt == e1 :> 2 @@ e2 :> 3 @@ e3 :> 3

VARIABLE part

vars == <<part, clockVars, windowVars, evidenceClockVars>>

\* The parts a behaviour is not about stay in one initial state.
MCInit ==
    /\ part \in {"clock", "window", "evidence"}
    /\ ClockInit /\ WindowInit /\ EvidenceClockInit
    /\ part # "clock" => wall = 0
    /\ part # "window" => t = 0
    /\ part # "evidence" => now = 0

MCNext ==
    \/ part = "clock" /\ ClockNext /\ UNCHANGED <<part, windowVars, evidenceClockVars>>
    \/ part = "window" /\ WindowNext /\ UNCHANGED <<part, clockVars, evidenceClockVars>>
    \/ part = "evidence" /\ EvidenceClockNext /\ UNCHANGED <<part, clockVars, windowVars>>

MCSpec == MCInit /\ [][MCNext]_vars /\ ClockFairness
=============================================================================
