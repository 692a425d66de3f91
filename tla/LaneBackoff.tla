----------------------------- MODULE LaneBackoff -----------------------------
(***************************************************************************)
(* The deadlines of a back-off (internal/evidence/courier/worker.go): one    *)
(* lane, one undelivered head, a wall clock that may be stepped in either    *)
(* direction, a monotonic clock, process restarts and failed writes.         *)
(*                                                                         *)
(* A back-off is persisted as a wall-clock instant in whole milliseconds and *)
(* held on both clocks; time is counted in fractions of a millisecond, Milli *)
(* of them, so that the rounding of ceilMilli is visible.                    *)
(*                                                                         *)
(* Definitions marked Mutant are wrong on purpose: each stands in for the    *)
(* definition after it to show that a property notices.                     *)
(***************************************************************************)
EXTENDS Integers, FiniteSetsExt

CONSTANTS
    Milli,          \* time units in a millisecond
    Base,           \* backoffBase
    MaxBackoff,     \* maxBackoff
    Retry,          \* the delivery interval
    Floors,         \* the Retry-After values an answer may carry; 0 is none
    MaxAttempts,    \* maxBackoffAttempts
    MaxTime,        \* bound on elapsed time, for TLC only
    MaxWall,        \* bound on the wall clock, for TLC only
    MaxSteps,       \* bound on clock steps, for TLC only
    MaxRestarts     \* bound on restarts, for TLC only

ASSUME BackoffAssumption ==
    /\ Milli \in Nat \ {0} /\ Retry \in Nat \ {0} /\ 0 \in Floors /\ Floors \subseteq Nat
    /\ Base \in Nat /\ Retry <= Base /\ MaxBackoff \in Nat /\ Base <= MaxBackoff
    /\ MaxAttempts \in Nat \ {0}
    /\ \A n \in {MaxTime, MaxWall, MaxSteps, MaxRestarts} : n \in Nat

VARIABLES
    wall,       \* clock.wall
    mono,       \* clock.mono, counted on across restarts: elapsed time
    up,         \* whether a process runs
    waiting,    \* whether the lane waits; otherwise its head is being sent
    notBefore,  \* l.notBefore
    monoDue,    \* l.monoDue
    retryAfter, \* l.retryAfter
    attempts,   \* l.attempts
    attempted,  \* whether l.attempted names the head
    timer,      \* when the lane's timer fires
    record,     \* the persisted back-off, or NoRecord
    steps, restarts,
    earliest,   \* history: when the wait that was scheduled is over
    written,    \* history: every write since then succeeded
    forward,    \* history: the wall clock stepped forward since then
    back,       \* history: backward steps of the wall clock since then
    resumed,    \* history: the process restarted since then
    waited      \* history: how long processes have waited since then

deadlines == <<notBefore, monoDue, retryAfter, attempts, attempted>>
scheduled == <<earliest, written, forward, back, resumed, waited>>
vars == <<wall, mono, up, waiting, timer, record, steps, restarts, deadlines, scheduled>>

NoRecord == [nb |-> 0, after |-> 0, count |-> 0]

\* backoffDelay: the base doubling to the bound, never shorter than the delivery
\* interval or the Retry-After.
Doubled[n \in Nat] ==
    IF n <= 1 THEN Base
    ELSE IF Doubled[n - 1] < MaxBackoff THEN 2 * Doubled[n - 1] ELSE Doubled[n - 1]

BackoffDelay(n, floor) ==
    Max({IF Doubled[n] > MaxBackoff THEN MaxBackoff ELSE Doubled[n], Retry, floor})

WaitBound(after) == Max({MaxBackoff, Retry, after})

CeilMilli(t) == IF t % Milli = 0 THEN t ELSE t + Milli - (t % Milli)

NextCount == IF attempts < MaxAttempts THEN attempts + 1 ELSE attempts

\* The deadline a reading of the wall clock leaves of nb.
Clamped(nb, after) == nb - wall > WaitBound(after)
Clamp(nb, after) == IF Clamped(nb, after) THEN CeilMilli(wall + WaitBound(after)) ELSE nb

UntilDueWallOnly(nb, after, due) == Clamp(nb, after) - wall  \* Mutant.

\* untilDue: both deadlines must pass.
UntilDue(nb, after, due) == Max({Clamp(nb, after) - wall, due - mono})

\* SetBackoff: the record is replaced, or the write fails and leaves it.
Persist(nb, after, count, ok) ==
    record' = IF ok THEN [nb |-> nb, after |-> after, count |-> count] ELSE record

PersistClampNever(nb, after, count, ok) == UNCHANGED <<record, written>>  \* Mutant.

\* A clamped deadline replaces the one on disk.
PersistClamp(nb, after, count, ok) ==
    Persist(nb, after, count, ok) /\ written' = (written /\ ok)

-----------------------------------------------------------------------------
(* Time.                                                                   *)

\* A timer that is due fires before more time passes.
Tick ==
    /\ mono < MaxTime /\ wall < MaxWall
    /\ ~(up /\ waiting /\ timer <= mono)
    /\ mono' = mono + 1 /\ wall' = wall + 1
    /\ waited' = IF up /\ waiting THEN waited + 1 ELSE waited
    /\ UNCHANGED <<up, waiting, timer, record, steps, restarts, deadlines, earliest, written, forward, back, resumed>>

\* The wall clock is set, by an operator or a time service.
StepClock(w) ==
    /\ steps < MaxSteps /\ w # wall
    /\ wall' = w /\ steps' = steps + 1
    /\ forward' = (forward \/ w > wall)
    /\ back' = IF w < wall THEN back + 1 ELSE back
    /\ UNCHANGED <<mono, up, waiting, timer, record, restarts, deadlines, earliest, written, resumed, waited>>

-----------------------------------------------------------------------------
(* The lane.                                                               *)

\* deliverHead ended without an acceptance: scheduleBackoff.
ScheduleBackoff(floor, ok) ==
    /\ up /\ ~waiting
    /\ LET n == NextCount
           delay == BackoffDelay(n, floor)
           nb == CeilMilli(wall + delay)
       IN  /\ attempts' = n
           /\ notBefore' = Clamp(nb, floor) /\ monoDue' = mono + delay /\ retryAfter' = floor
           /\ Persist(Clamp(nb, floor), floor, n, ok)
           /\ timer' = mono + UntilDue(nb, floor, mono + delay)
           /\ earliest' = mono + delay
    /\ waiting' = TRUE
    /\ written' = ok /\ forward' = FALSE /\ back' = 0 /\ resumed' = FALSE /\ waited' = 0
    /\ UNCHANGED <<wall, mono, up, attempted, steps, restarts>>

\* A wake, or the timer: untilDue is read, a clamp it makes is persisted, and
\* the head is sent when nothing is left to wait.  Only the timer is reset.
Check(fired, ok) ==
    /\ up /\ waiting /\ (fired => timer <= mono)
    /\ LET wait == UntilDue(notBefore, retryAfter, monoDue)
           clamps == Clamped(notBefore, retryAfter)
           nb == Clamp(notBefore, retryAfter)
       IN  /\ IF clamps
              THEN PersistClamp(nb, retryAfter, attempts, ok)
              ELSE UNCHANGED <<record, written>>
           /\ IF wait > 0
              THEN /\ notBefore' = nb
                   /\ timer' = IF fired THEN mono + wait ELSE timer
                   /\ UNCHANGED <<waiting, monoDue, retryAfter, attempts, attempted>>
              ELSE /\ waiting' = FALSE
                   /\ attempted' = TRUE
                   /\ attempts' = IF attempted THEN attempts ELSE 0
                   /\ notBefore' = 0 /\ monoDue' = 0 /\ retryAfter' = 0
                   /\ UNCHANGED timer
    /\ UNCHANGED <<wall, mono, up, steps, restarts, earliest, forward, back, resumed, waited>>

-----------------------------------------------------------------------------
(* Restarts.                                                               *)

Die ==
    /\ up /\ restarts < MaxRestarts
    /\ up' = FALSE /\ waiting' = FALSE
    /\ notBefore' = 0 /\ monoDue' = 0 /\ retryAfter' = 0 /\ attempts' = 0 /\ attempted' = FALSE
    /\ timer' = 0
    /\ restarts' = restarts + 1 /\ resumed' = TRUE
    /\ UNCHANGED <<wall, mono, record, steps, earliest, written, forward, back, waited>>

\* restore: the rest of the persisted wait, bounded, is held on both clocks.
\* The timer starts at once when nothing was persisted.
Restore(ok) ==
    /\ ~up
    /\ up' = TRUE /\ waiting' = TRUE
    /\ IF record = NoRecord
       THEN timer' = mono /\ UNCHANGED <<deadlines, record, written>>
       ELSE LET nb == Clamp(record.nb, record.after)
                rest == Max({nb - wall, 0})
            IN  /\ notBefore' = nb /\ retryAfter' = record.after /\ attempts' = record.count
                /\ monoDue' = mono + rest
                /\ timer' = mono + rest
                /\ IF Clamped(record.nb, record.after)
                   THEN PersistClamp(nb, record.after, record.count, ok)
                   ELSE UNCHANGED <<record, written>>
                /\ UNCHANGED attempted
    /\ UNCHANGED <<wall, mono, steps, restarts, earliest, forward, back, resumed, waited>>

-----------------------------------------------------------------------------
Init ==
    /\ wall \in {w \in 1..MaxWall : 2 * w \in {MaxWall - 1, MaxWall}} /\ mono = 0
    /\ up = TRUE /\ waiting = FALSE /\ timer = 0 /\ record = NoRecord
    /\ notBefore = 0 /\ monoDue = 0 /\ retryAfter = 0 /\ attempts = 0 /\ attempted = TRUE
    /\ steps = 0 /\ restarts = 0
    /\ earliest = 0 /\ written = TRUE /\ forward = FALSE /\ back = 0 /\ resumed = FALSE /\ waited = 0

Next ==
    \/ Tick
    \/ \E w \in 1..MaxWall : StepClock(w)
    \/ \E ok \in BOOLEAN :
         \/ \E floor \in Floors : ScheduleBackoff(floor, ok)
         \/ \E fired \in BOOLEAN : Check(fired, ok)
         \/ Restore(ok)
    \/ Die

Spec == Init /\ [][Next]_vars

-----------------------------------------------------------------------------
(* Properties.                                                             *)

\* A backed-off head is not sent before the wait that was scheduled is over:
\* whatever the wall clock does within one process, and across restarts as long
\* as the back-off was written and the wall clock, the only record of the time
\* no process ran, was not set forward (scheduleBackoff, untilDue, restore).
NotSentEarly ==
    (up /\ ~waiting /\ (~resumed \/ (written /\ ~forward))) => mono >= earliest

\* Each backward step of the wall clock costs at most one more bound of waiting,
\* to the millisecond, however often the process restarts, as long as the
\* clamped deadlines were written (untilDue, persistClamp, restore).
BackStepCostsOneBound ==
    (up /\ waiting /\ written) => waited <= (1 + back) * (WaitBound(retryAfter) + Milli - 1)
=============================================================================
