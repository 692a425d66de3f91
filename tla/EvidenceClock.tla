--------------------------- MODULE EvidenceClock ----------------------------
(***************************************************************************)
(* The clock of one family of messages the gateway signs from its durable  *)
(* evidence state: acknowledgements of carriages, or deliveries of         *)
(* returns.  Each value is persisted before it is issued, so there is no   *)
(* reservation and no episode; a value that cannot be persisted is         *)
(* refused.                                                                *)
(***************************************************************************)
EXTENDS Integers

CONSTANTS
    MaxNow,         \* bound on the wall clock
    MaxValue,       \* bound on the values issued
    ClockResults    \* outcomes of persist

ASSUME EvidenceClockAssumption ==
    /\ MaxNow \in Nat /\ MaxValue \in Nat
    /\ ClockResults \subseteq {"ok", "failed", "unsynced"}

VARIABLES
    now,            \* the wall clock
    opened,         \* whether the process runs
    last,           \* Clock.last
    file,           \* the mark in the directory
    possibleFiles,  \* what a power loss may leave of it
    greatest        \* history: the greatest value ever issued, -1 before one

evidenceClockVars == <<now, opened, last, file, possibleFiles, greatest>>

EvidenceClockTypeOK ==
    /\ now \in Nat /\ opened \in BOOLEAN /\ last \in Nat /\ file \in Nat
    /\ possibleFiles \subseteq Nat /\ greatest \in Nat \cup {-1}

\* No file reads as zero: openSigningClock leaves last at its zero value.
EvidenceClockInit ==
    /\ now \in 0..MaxNow /\ opened = FALSE
    /\ last = 0 /\ file = 0 /\ possibleFiles = {0} /\ greatest = -1

OpenClock ==
    /\ ~opened /\ opened' = TRUE
    /\ last' = file
    /\ UNCHANGED <<now, file, possibleFiles, greatest>>

SigningTime == IF now <= last THEN last + 1 ELSE now

\* Mutant: a failure to persist is logged and the time used.
IssuesAnyway(r) == TRUE

\* A time is issued only once its mark is durable.
Issues(r) == r = "ok"

\* Next and persist, whole under the clock's lock.
NextSigned(r) ==
    /\ opened /\ SigningTime <= MaxValue
    /\ file' = IF r = "failed" THEN file ELSE SigningTime
    /\ possibleFiles' = CASE r = "ok" -> {SigningTime}
                          [] r = "unsynced" -> possibleFiles \cup {SigningTime}
                          [] r = "failed" -> possibleFiles
    /\ last' = IF Issues(r) THEN SigningTime ELSE last
    /\ greatest' = IF Issues(r) THEN SigningTime ELSE greatest
    /\ UNCHANGED <<now, opened>>

\* The process ends; a persist under way is left undone or done.
EndProcess ==
    /\ opened /\ opened' = FALSE /\ last' = 0
    /\ file' \in {file, SigningTime} /\ file' <= MaxValue
    /\ possibleFiles' = possibleFiles \cup {file'}
    /\ UNCHANGED <<now, greatest>>

LoseFiles ==
    /\ ~opened
    /\ file' \in possibleFiles /\ possibleFiles' = {file'}
    /\ UNCHANGED <<now, opened, last, greatest>>

MoveNow ==
    /\ now' \in 0..MaxNow /\ now' # now
    /\ UNCHANGED <<opened, last, file, possibleFiles, greatest>>

EvidenceClockNext ==
    \/ OpenClock \/ EndProcess \/ LoseFiles \/ MoveNow
    \/ \E r \in ClockResults: NextSigned(r)

EvidenceClockSpec == EvidenceClockInit /\ [][EvidenceClockNext]_evidenceClockVars

-----------------------------------------------------------------------------
(* Every value issued is later than every value issued before it, across    *)
(* restarts, power losses and clock steps: a durable entry emitted again is *)
(* never signed with the time it was signed with before (Next).             *)
EachValueIsLater ==
    [][opened /\ opened' /\ last' # last => last' > greatest]_evidenceClockVars

(* The mark in any directory a power loss may leave is at or past every     *)
(* value issued.                                                            *)
IssuedIsPersisted == \A m \in possibleFiles \cup {file}: greatest <= m
=============================================================================
