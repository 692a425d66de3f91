---------------------------- MODULE SigningClock ----------------------------
(***************************************************************************)
(* The clock the gateway signs its messages from, its mark in the state    *)
(* directory, and the hold on that directory from start to stop.           *)
(*                                                                         *)
(* A value is issued at once while a completed mark covers it.  A value    *)
(* past the coverage waits for a write, which runs off the lock.  A write  *)
(* that fails or outlasts its bound opens an episode: until a write covers *)
(* every value issued, none waits and they are issued uncovered.           *)
(*                                                                         *)
(* state is the directory the process sees and possibleStates what a power *)
(* loss may leave, as in DurableQueue.  The wall clock steps either way.   *)
(* Timers fire at any time once armed: the bounds are on the monotonic     *)
(* clock, which is not the wall clock.                                     *)
(***************************************************************************)
EXTENDS Integers

CONSTANTS
    Signers,        \* goroutines that sign
    MaxWall,        \* bound on the wall clock
    Reservation,    \* signingReservation
    Ceiling,        \* SigningCeiling
    MaxRuns,        \* bound on the number of starts
    MarkResults     \* outcomes of a write: a subset of {"ok","failed","unsynced"}

ASSUME ClockAssumption ==
    /\ MaxWall \in Nat /\ Reservation \in Nat \ {0} /\ Ceiling \in Nat \ {0}
    /\ MaxRuns \in Nat
    /\ MarkResults \subseteq {"ok", "failed", "unsynced"}

NoMark == -1

VARIABLES
    wall,           \* now().UnixMilli()
    proc,           \* how far runGateway has come with the state directory
    run,            \* how many starts there have been
    clk,            \* SigningClock and Mark of the running process
    signer,         \* where each caller of Next is
    valueTimer,     \* whether its bound is still to fire
    inflight,       \* writes of a mark under way
    state,          \* the state directory
    possibleStates, \* what a power loss may leave of it
    bare,           \* history: values issued in this run that no completed mark covers
    kept            \* history: values issued in any run that a completed mark of it covers

clockVars == <<wall, proc, run, clk, signer, valueTimer, inflight,
               state, possibleStates, bare, kept>>

Later(a, b) == IF a >= b THEN a ELSE b
Earlier(a, b) == IF a <= b THEN a ELSE b

Files == {"marker", "markerStaged", "lock", "markStaged"}
NoClock == [last |-> 0, covered |-> 0, written |-> 0, persisted |-> NoMark,
            episode |-> FALSE, closed |-> FALSE, retry |-> FALSE, write |-> FALSE]

ClockTypeOK ==
    /\ wall \in 0..MaxWall
    /\ proc \in {"off", "adopting", "locking", "starting", "refusing", "up", "stopping"}
    /\ run \in 0..MaxRuns
    /\ clk \in [last: Nat, covered: Nat, written: Nat, persisted: Nat \cup {NoMark},
                episode: BOOLEAN, closed: BOOLEAN, retry: BOOLEAN, write: BOOLEAN]
    /\ signer \in [Signers -> {"idle", "waiting", "woken"}]
    /\ valueTimer \in [Signers -> BOOLEAN]
    /\ inflight \subseteq [run: Nat, mark: Nat]
    /\ state \in [files: SUBSET Files, mark: Nat \cup {NoMark}]
    /\ possibleStates \subseteq [files: SUBSET Files, mark: Nat \cup {NoMark}]
    /\ bare \subseteq Nat /\ kept \subseteq Nat

ClockInit ==
    /\ wall \in 0..MaxWall
    /\ proc = "off" /\ run = 0 /\ clk = NoClock
    /\ signer = [s \in Signers |-> "idle"]
    /\ valueTimer = [s \in Signers |-> FALSE]
    /\ inflight = {}
    /\ state = [files |-> {}, mark |-> NoMark]
    /\ possibleStates = {state}
    /\ bare = {} /\ kept = {}

-----------------------------------------------------------------------------
(* The state directory.                                                     *)

\* The directory becomes d.  It is what the process sees; a power loss may
\* leave it or anything since the last fsync.
Leaves(d, synced) ==
    /\ state' = d
    /\ possibleStates' = IF synced THEN {d} ELSE possibleStates \cup {d}

WithMarker(d) == [d EXCEPT !.files = (@ \ {"markerStaged"}) \cup {"marker"}]
WithMark(d, m) == [d EXCEPT !.mark = m]

\* Mutant: a staged marker is not known for a leftover.
LeftoversLockOnly == {"lock"}

\* What an interrupted adoption may leave.
Leftovers == {"lock", "markerStaged"}

\* What ensureMarker accepts: a marker, or nothing but leftovers.
Adoptable(d) ==
    \/ "marker" \in d.files
    \/ d.files \subseteq Leftovers /\ d.mark = NoMark

Processless == /\ signer' = [s \in Signers |-> "idle"]
               /\ valueTimer' = [s \in Signers |-> FALSE]
               /\ clk' = NoClock
               /\ bare' = {}

\* Open: a directory with its marker goes on to the lock; an empty one is
\* adopted, its marker staged first.
Acquire ==
    /\ proc = "off" /\ run < MaxRuns
    /\ Adoptable(state)
    /\ IF "marker" \in state.files
         THEN proc' = "locking" /\ UNCHANGED <<state, possibleStates>>
         ELSE /\ proc' = "adopting"
              /\ Leaves([state EXCEPT !.files = @ \cup {"markerStaged"}], FALSE)
    /\ UNCHANGED <<wall, run, clk, signer, valueTimer, inflight, bare, kept>>

\* The marker is renamed into place and the directory synced; any error refuses
\* the start.
WriteMarker(r) ==
    /\ proc = "adopting"
    /\ CASE r = "ok" -> Leaves(WithMarker(state), TRUE) /\ proc' = "locking"
         [] r = "unsynced" -> Leaves(WithMarker(state), FALSE) /\ proc' = "off"
         [] r = "failed" -> /\ Leaves([state EXCEPT !.files = @ \ {"markerStaged"}], FALSE)
                            /\ proc' = "off"
    /\ UNCHANGED <<wall, run, clk, signer, valueTimer, inflight, bare, kept>>

-----------------------------------------------------------------------------
(* The clock's steps on its own fields, each under its mutex.               *)

ReservationFor(now, at) == Earlier(Later(now + Reservation, at), Ceiling - 1)

ScheduleRetry(c) == IF c.retry \/ c.closed \/ c.write THEN c ELSE [c EXCEPT !.retry = TRUE]

OpenEpisode(c) == IF c.episode THEN c ELSE ScheduleRetry([c EXCEPT !.episode = TRUE])

StartWrite(c, mark) == [c EXCEPT !.written = Later(@, mark), !.write = TRUE]

\* Mutant: a rename whose directory sync failed counts as durable.
CompletedUnsynced(r) == r # "failed"

\* writeAtomically succeeds only once the rename is durable.
Completed(r) == r = "ok"

\* Persist has ended: coverage grows to a mark that is durable.
Outcome(c, mark, r) ==
    [c EXCEPT !.write = FALSE,
              !.covered = IF Completed(r) THEN Later(@, mark) ELSE @,
              !.persisted = IF Completed(r) THEN Later(@, mark) ELSE @]

\* Mutant: the first completed write ends the episode, whatever it covers.
SettleAny(c, r) == IF ~Completed(r) THEN OpenEpisode(c) ELSE [c EXCEPT !.episode = FALSE]

\* A failure opens an episode, and one ends only when every value is covered.
Settle(c, r) ==
    IF ~Completed(r) THEN OpenEpisode(c) ELSE [c EXCEPT !.episode = @ /\ c.covered < c.last]

\* Mutant: an open episode whose write failed is not retried.
TakeOutcomeNoRetry(c, mark, r) == Settle(Outcome(c, mark, r), r)

\* The outcome of a write, taken once; an open episode retries.
TakeOutcome(c, mark, r) ==
    LET settled == Settle(Outcome(c, mark, r), r)
    IN  IF settled.episode THEN ScheduleRetry(settled) ELSE settled

\* Every caller waiting for coverage runs again.
Broadcast == signer' = [s \in Signers |-> IF signer[s] = "waiting" THEN "woken" ELSE signer[s]]

\* The mark written before the clock is handed out.
StartMark(found) == Earlier(Later(wall + Reservation, found), Ceiling - 1)

\* Mutant: the clock resumes from the wall clock alone.
ResumeAtZero(found) == 0

\* Where the clock resumes: past the mark found.
Resume(found) == Later(found, 0)

\* The lock is taken, the mark read, and the first write started.  A first
\* value that would reach the ceiling refuses the start and releases the lock.
Start ==
    /\ proc = "locking"
    /\ LET found == state.mark
           first == IF found = NoMark THEN wall ELSE Later(wall, found + 1)
           start == StartMark(found)
       IN  IF first >= Ceiling
             THEN /\ proc' = "off"
                  /\ UNCHANGED <<run, clk, inflight>>
             ELSE /\ proc' = "starting"
                  /\ run' = run + 1
                  /\ clk' = [NoClock EXCEPT !.last = Resume(found), !.covered = Later(found, 0),
                                            !.written = start, !.write = TRUE]
                  /\ inflight' = inflight \cup {[run |-> run + 1, mark |-> start]}
    /\ Leaves([state EXCEPT !.files = @ \cup {"lock"}], FALSE)
    /\ UNCHANGED <<wall, signer, valueTimer, bare, kept>>

\* The start's write has not completed within the bound: the start is refused,
\* and the directory stays held until the write ends.
StartBound ==
    /\ proc = "starting" /\ proc' = "refusing"
    /\ UNCHANGED <<wall, run, clk, signer, valueTimer, inflight, state,
                   possibleStates, bare, kept>>

\* Persist: a mark at or below one this run has written is not written again.
\* Its outcome is taken by the process that started it, if it still runs.
PersistEnds(w, r) ==
    LET own == w.run = run /\ proc \in {"starting", "refusing", "up", "stopping"}
        new == w.mark > clk.persisted
    IN
    /\ w \in inflight
    /\ inflight' = inflight \ {w}
    /\ IF r = "failed" \/ ~new THEN UNCHANGED <<state, possibleStates>>
       ELSE Leaves(WithMark(state, w.mark), r = "ok")
    /\ CASE ~own -> UNCHANGED <<proc, clk, signer, valueTimer, bare, kept>>
         [] own /\ proc = "starting" /\ r = "ok" ->
              /\ proc' = "up"
              /\ clk' = [clk EXCEPT !.covered = Later(@, w.mark), !.persisted = w.mark, !.write = FALSE]
              /\ UNCHANGED <<signer, valueTimer, bare, kept>>
         [] own /\ (proc = "refusing" \/ (proc = "starting" /\ r # "ok")) ->
              proc' = "off" /\ Processless /\ UNCHANGED kept
         [] own /\ proc \in {"up", "stopping"} ->
              /\ clk' = TakeOutcome(clk, w.mark, r)
              /\ Broadcast
              /\ bare' = IF Completed(r) THEN {v \in bare: v > w.mark} ELSE bare
              /\ kept' = kept \cup (bare \ bare')
              /\ UNCHANGED <<proc, valueTimer>>
    /\ UNCHANGED <<wall, run>>

\* Whether a value is issued without waiting.
Covered(at) == at <= clk.covered \/ clk.episode

\* One pass of Next's loop for a caller: refused at the ceiling or after the
\* stop, made to wait for coverage, or issued a value, the next reservation
\* being started once half of the last is used.
Next(s) ==
    LET at     == Later(wall, clk.last + 1)
        mark   == ReservationFor(wall, at)
        extend == /\ ~clk.episode /\ ~clk.write
                  /\ clk.covered - at < Reservation \div 2
                  /\ mark > clk.covered
        writes(start) ==
            IF start THEN inflight' = inflight \cup {[run |-> run, mark |-> Later(clk.written, mark)]}
            ELSE UNCHANGED inflight
    IN
    /\ proc \in {"up", "stopping"} /\ signer[s] \in {"idle", "woken"}
    /\ \/ /\ at >= Ceiling \/ clk.closed
          /\ signer' = [signer EXCEPT ![s] = "idle"]
          /\ valueTimer' = [valueTimer EXCEPT ![s] = FALSE]
          /\ UNCHANGED <<clk, inflight, bare, kept>>
       \/ /\ at < Ceiling /\ ~clk.closed /\ ~Covered(at)
          /\ clk' = IF clk.write THEN clk ELSE StartWrite(clk, mark)
          /\ writes(~clk.write)
          /\ signer' = [signer EXCEPT ![s] = "waiting"]
          /\ valueTimer' = [valueTimer EXCEPT ![s] = @ \/ signer[s] = "idle"]
          /\ UNCHANGED <<bare, kept>>
       \/ /\ at < Ceiling /\ ~clk.closed /\ Covered(at)
          /\ clk' = [(IF extend THEN StartWrite(clk, mark) ELSE clk) EXCEPT !.last = at]
          /\ writes(extend)
          /\ signer' = [signer EXCEPT ![s] = "idle"]
          /\ valueTimer' = [valueTimer EXCEPT ![s] = FALSE]
          /\ IF at > clk.covered THEN bare' = bare \cup {at} /\ UNCHANGED kept
             ELSE kept' = kept \cup {at} /\ UNCHANGED bare
    /\ UNCHANGED <<wall, proc, run, state, possibleStates>>

\* A value has waited for the whole bound.
ValueBound(s) ==
    /\ valueTimer[s]
    /\ valueTimer' = [valueTimer EXCEPT ![s] = FALSE]
    /\ clk' = OpenEpisode(clk)
    /\ IF clk.episode THEN UNCHANGED signer ELSE Broadcast
    /\ UNCHANGED <<wall, proc, run, inflight, state, possibleStates, bare, kept>>

\* Mutant: the callers waiting are not woken.
WriteBoundSilent ==
    /\ proc \in {"up", "stopping"} /\ clk.write /\ ~clk.episode
    /\ clk' = OpenEpisode(clk)
    /\ UNCHANGED <<wall, proc, run, signer, valueTimer, inflight, state, possibleStates, bare, kept>>

\* A write is still outstanding past the bound.
WriteBound ==
    /\ proc \in {"up", "stopping"} /\ clk.write /\ ~clk.episode
    /\ clk' = OpenEpisode(clk)
    /\ Broadcast
    /\ UNCHANGED <<wall, proc, run, valueTimer, inflight, state, possibleStates, bare, kept>>

\* The paced retry of an episode.
RetryWrite ==
    LET mark == ReservationFor(wall, clk.last)
        runs == ~clk.closed /\ clk.episode /\ ~clk.write
    IN
    /\ clk.retry
    /\ clk' = [(IF runs THEN StartWrite(clk, mark) ELSE clk) EXCEPT !.retry = FALSE]
    /\ inflight' = IF runs THEN inflight \cup {[run |-> run, mark |-> Later(clk.written, mark)]}
                   ELSE inflight
    /\ UNCHANGED <<wall, proc, run, signer, valueTimer, state, possibleStates, bare, kept>>

\* stopSigning: no value is issued and no write starts any more.
StopSigning ==
    /\ proc = "up" /\ proc' = "stopping"
    /\ clk' = [clk EXCEPT !.closed = TRUE, !.retry = FALSE]
    /\ Broadcast
    /\ UNCHANGED <<wall, run, valueTimer, inflight, state, possibleStates, bare, kept>>

\* Mutant: the directory is released without waiting for the write.
QuiescentAlways == TRUE

Quiescent == ~clk.write

\* The write has ended, and owner.Close releases the directory.
Release ==
    /\ proc = "stopping" /\ Quiescent
    /\ proc' = "off" /\ Processless
    /\ UNCHANGED <<wall, run, inflight, state, possibleStates, kept>>

\* The process ends, its lock with it.  A write under way is left undone, staged
\* or done.
ProcessEnds ==
    /\ \E d \in {state} \cup {WithMark(state, w.mark): w \in inflight}
                \cup (IF inflight = {} THEN {}
                      ELSE {[state EXCEPT !.files = @ \cup {"markStaged"}]}): Leaves(d, FALSE)
    /\ proc' = "off" /\ Processless
    /\ inflight' = {}
    /\ UNCHANGED <<wall, run, kept>>

\* abandonStateDirectory: the quiescence bound passes with the write still
\* outstanding, and the process ends without releasing the directory.
Abandon == proc \in {"stopping", "refusing"} /\ clk.write /\ ProcessEnds

Die == proc # "off" /\ ProcessEnds

LosePower ==
    /\ proc = "off"
    /\ \E d \in possibleStates: state' = d /\ possibleStates' = {d}
    /\ UNCHANGED <<wall, proc, run, clk, signer, valueTimer, inflight, bare, kept>>

StepWall ==
    /\ wall' \in 0..MaxWall /\ wall' # wall
    /\ UNCHANGED <<proc, run, clk, signer, valueTimer, inflight, state, possibleStates, bare, kept>>

ClockNext ==
    \/ Acquire \/ Start \/ StartBound \/ WriteBound \/ RetryWrite
    \/ StopSigning \/ Release \/ Abandon \/ Die \/ LosePower \/ StepWall
    \/ \E r \in MarkResults: WriteMarker(r)
    \/ \E w \in inflight, r \in MarkResults: PersistEnds(w, r)
    \/ \E s \in Signers: Next(s) \/ ValueBound(s)

ClockSpec == ClockInit /\ [][ClockNext]_clockVars

\* A goroutine that can run does; timers fire.  The disk owes nothing.
ClockFairness ==
    /\ \A s \in Signers: /\ WF_clockVars(signer[s] = "woken" /\ Next(s))
                         /\ WF_clockVars(ValueBound(s))
    /\ WF_clockVars(WriteBound) /\ WF_clockVars(RetryWrite)
    /\ WF_clockVars(StartBound)
    /\ WF_clockVars(Release) /\ WF_clockVars(Abandon)

ClockFairSpec == ClockSpec /\ ClockFairness

-----------------------------------------------------------------------------
(* Every value issued that a completed mark covers is at or below the mark  *)
(* in every directory a power loss may leave: the mark is synced before the *)
(* value is covered, and never falls (Next, Persist).                       *)
CoverageIsDurable ==
    \A v \in kept: \A d \in possibleStates \cup {state}: v <= d.mark

(* No value is issued again, in this run or a later one, that was covered   *)
(* when it was issued or has been covered since.                            *)
SigningTimesNeverRepeat ==
    [][proc = "up" /\ proc' = "up" /\ clk'.last # clk.last
         => clk'.last \notin kept]_clockVars

(* While Degraded reports no episode, every value issued is covered.        *)
DegradedUnlessCovered ==
    proc = "up" /\ ~clk.episode => clk.last <= clk.covered

(* Whatever a start or a stop left, the next start may open the directory.  *)
AlwaysAdoptable == \A d \in possibleStates \cup {state}: Adoptable(d)

(* Only the process that holds the directory writes to it: no write of an   *)
(* earlier run can land under a later one (rule 13).                        *)
NoWriteOutlivesItsHold == \A w \in inflight: w.run = run /\ proc # "off"

(* A caller of Next is answered, whatever the disk does.                    *)
NoValueWaitsForever == \A s \in Signers: signer[s] # "idle" ~> signer[s] = "idle"

(* If a write asked for again and again succeeds once, every episode ends,  *)
(* or its run does: an open one always has a write under way or a retry     *)
(* scheduled (persist, scheduleRetryLocked).                                *)
EpisodeEnds ==
    SF_clockVars(proc = "up" /\ \E w \in inflight: PersistEnds(w, "ok"))
        => (clk.episode ~> ~clk.episode)

=============================================================================
