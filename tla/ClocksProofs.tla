---------------------------- MODULE ClocksProofs ----------------------------
(***************************************************************************)
(* What is proved of the two persisted clocks and of the replay window:    *)
(* a signing time covered by a completed mark survives every crash and     *)
(* power loss and is never issued again, no write outlives the hold on the *)
(* directory, and every directory left can be opened, for any number of    *)
(* callers and any reservation, ceiling and clock; a value of the evidence *)
(* clock is later than every value before it; no envelope is applied twice *)
(* in a run, for every skew, retention, number of keys and clock.          *)
(***************************************************************************)
EXTENDS SigningClock, EvidenceClock, ReplayWindow, TLAPS

(* The signing clock.                                                       *)

Clocks == [last: Nat, covered: Nat, written: Nat, persisted: Nat \cup {NoMark},
           episode: BOOLEAN, closed: BOOLEAN, retry: BOOLEAN, write: BOOLEAN]
Directories == [files: SUBSET Files, mark: Nat \cup {NoMark}]

\* Two clocks that agree on every mark and on whether a write is under way.
SameMarks(a, b) ==
    /\ a.last = b.last /\ a.covered = b.covered /\ a.written = b.written
    /\ a.persisted = b.persisted /\ a.write = b.write

\* A retry changes no mark (scheduleRetryLocked).
LEMMA ScheduleRetryKeeps ==
    ASSUME NEW c \in Clocks
    PROVE  /\ ScheduleRetry(c) \in Clocks /\ SameMarks(ScheduleRetry(c), c)
           /\ ScheduleRetry(c).episode = c.episode
  BY Zenon DEF Clocks, ScheduleRetry, SameMarks

\* Opening an episode changes no mark (openEpisodeLocked).
LEMMA OpenEpisodeKeeps ==
    ASSUME NEW c \in Clocks
    PROVE  /\ OpenEpisode(c) \in Clocks /\ SameMarks(OpenEpisode(c), c)
           /\ OpenEpisode(c).episode
<1>1. [c EXCEPT !.episode = TRUE] \in Clocks
  BY Zenon DEF Clocks
<1>2. SameMarks([c EXCEPT !.episode = TRUE], c) /\ [c EXCEPT !.episode = TRUE].episode = TRUE
  BY DEF Clocks, SameMarks
<1>3. CASE c.episode
  BY <1>3 DEF OpenEpisode, SameMarks
<1>4. CASE ~c.episode
  <2> DEFINE o == [c EXCEPT !.episode = TRUE]
  <2>1. OpenEpisode(c) = ScheduleRetry(o)
    BY <1>4 DEF OpenEpisode
  <2>2. ScheduleRetry(o) \in Clocks /\ SameMarks(ScheduleRetry(o), o)
        /\ ScheduleRetry(o).episode = o.episode
    BY <1>1, ScheduleRetryKeeps, Zenon
  <2>3. OpenEpisode(c) \in Clocks /\ OpenEpisode(c).episode
    BY <2>1, <2>2, <1>2, Zenon
  <2>4. SameMarks(OpenEpisode(c), c)
    BY <2>1, <2>2, <1>2 DEF SameMarks
  <2> QED
    BY <2>3, <2>4
<1> QED
  BY <1>3, <1>4

\* A write that starts raises only what was asked to be written.
LEMMA StartWriteKeeps ==
    ASSUME NEW c \in Clocks, NEW m \in Nat
    PROVE  LET d == StartWrite(c, m)
           IN  /\ d \in Clocks /\ d.write
               /\ d.last = c.last /\ d.covered = c.covered /\ d.persisted = c.persisted
               /\ d.episode = c.episode /\ d.retry = c.retry
               /\ d.written = Later(c.written, m)
  BY Zenon DEF Clocks, StartWrite, Later

\* A completed write grows what is covered and what is persisted alike.
LEMMA OutcomeKeeps ==
    ASSUME NEW c \in Clocks, NEW m \in Nat, NEW r \in {"ok", "failed", "unsynced"}
    PROVE  LET d == Outcome(c, m, r)
           IN  /\ d \in Clocks /\ ~d.write
               /\ d.last = c.last /\ d.written = c.written /\ d.episode = c.episode
               /\ d.covered = IF r = "ok" THEN Later(c.covered, m) ELSE c.covered
               /\ d.persisted = IF r = "ok" THEN Later(c.persisted, m) ELSE c.persisted
  BY Zenon DEF Clocks, Outcome, Completed, Later, NoMark

\* An episode is over only when everything issued is covered (persist).
LEMMA TakeOutcomeKeeps ==
    ASSUME NEW c \in Clocks, NEW m \in Nat, NEW r \in {"ok", "failed", "unsynced"}
    PROVE  LET d == TakeOutcome(c, m, r)
           IN  /\ d \in Clocks /\ ~d.write
               /\ d.last = c.last /\ d.written = c.written
               /\ d.covered = IF r = "ok" THEN Later(c.covered, m) ELSE c.covered
               /\ d.persisted = IF r = "ok" THEN Later(c.persisted, m) ELSE c.persisted
               /\ ~d.episode => ~c.episode \/ d.last <= d.covered
<1> DEFINE o == Outcome(c, m, r)
           e == Settle(o, r)
<1>1. /\ o \in Clocks /\ ~o.write
      /\ o.last = c.last /\ o.written = c.written /\ o.episode = c.episode
      /\ o.covered = IF r = "ok" THEN Later(c.covered, m) ELSE c.covered
      /\ o.persisted = IF r = "ok" THEN Later(c.persisted, m) ELSE c.persisted
  BY OutcomeKeeps, Zenon
<1>2. /\ e \in Clocks /\ SameMarks(e, o)
      /\ ~e.episode => ~o.episode \/ o.last <= o.covered
  <2> HIDE DEF o
  <2>1. CASE r = "ok"
    <3>1. e = [o EXCEPT !.episode = o.episode /\ o.covered < o.last]
      BY <2>1 DEF Settle, Completed
    <3>2. (o.episode /\ o.covered < o.last) \in BOOLEAN
      BY <1>1 DEF Clocks
    <3>3. e \in Clocks /\ SameMarks(e, o)
      BY <3>1, <3>2, <1>1 DEF Clocks, SameMarks
    <3>4. e.episode = (o.episode /\ o.covered < o.last)
      BY <3>1, <1>1 DEF Clocks
    <3>5. o.covered \in Nat /\ o.last \in Nat
      BY <1>1 DEF Clocks
    <3>6. ~(o.covered < o.last) => o.last <= o.covered
      BY <3>5
    <3>7. ~e.episode => ~o.episode \/ o.last <= o.covered
      BY <3>4, <3>6, Zenon
    <3> QED
      BY <3>3, <3>7
  <2>2. CASE r # "ok"
    <3>1. e = OpenEpisode(o)
      BY <2>2 DEF Settle, Completed
    <3> QED
      BY <3>1, <1>1, OpenEpisodeKeeps
  <2> QED
    BY <2>1, <2>2
<1>3. LET d == TakeOutcome(c, m, r)
      IN  d \in Clocks /\ SameMarks(d, e) /\ d.episode = e.episode
  <2> HIDE DEF o, e
  <2>1. TakeOutcome(c, m, r) = IF e.episode THEN ScheduleRetry(e) ELSE e
    BY DEF TakeOutcome, e, o
  <2> QED
    BY <2>1, <1>2, ScheduleRetryKeeps DEF SameMarks
<1> HIDE DEF o, e
<1>4. SameMarks(TakeOutcome(c, m, r), o)
  BY <1>2, <1>3 DEF SameMarks
<1> QED
  BY <1>1, <1>2, <1>3, <1>4 DEF SameMarks

-----------------------------------------------------------------------------
\* The process holds the directory's lock.
Holds == proc \in {"starting", "refusing", "up", "stopping"}
\* The clock has been handed out.
Serves == proc \in {"up", "stopping"}

\* The one write under way is of the highest mark asked for.
OneWrite == \A w \in inflight: Holds /\ clk.write /\ w = [run |-> run, mark |-> clk.written]

\* A process that does not hold the directory has no clock, and one that has not
\* handed it out has no timer running.
NothingHeld ==
    /\ ~Holds => clk = NoClock /\ inflight = {} /\ bare = {}
    /\ ~Serves => /\ \A s \in Signers: ~valueTimer[s]
                  /\ ~clk.retry /\ ~clk.episode /\ clk.persisted = NoMark
    /\ proc \in {"adopting", "locking"} => run < MaxRuns

\* How the marks of the running clock lie to each other and to what was issued.
MarksInOrder ==
    Holds => /\ clk.covered <= clk.written
             /\ \A v \in kept: v <= clk.covered
             /\ \A v \in kept \cup bare: v <= clk.last
             /\ ~clk.episode => clk.last <= clk.covered

\* Once it is handed out, what it takes for covered is durable.
CoveredIsWritten ==
    Serves => /\ clk.persisted = clk.covered
              /\ \A d \in possibleStates \cup {state}: clk.covered <= d.mark

\* The marker is in place before the lock is taken.
MarkerFirst == proc = "locking" \/ Holds => "marker" \in state.files

ClockInv ==
    /\ ClockTypeOK /\ OneWrite /\ NothingHeld /\ MarksInOrder
    /\ CoveredIsWritten /\ MarkerFirst
    /\ CoverageIsDurable /\ AlwaysAdoptable

\* A directory nothing was written to satisfies it.
LEMMA ClockStarts == ClockInit => ClockInv
<1> SUFFICES ASSUME ClockInit PROVE ClockInv
  OBVIOUS
<1>1. ClockTypeOK
  <2>1. NoClock \in Clocks
    BY DEF NoClock, Clocks, NoMark
  <2>2. [files |-> {}, mark |-> NoMark] \in Directories
    BY DEF Directories
  <2>3. signer \in [Signers -> {"idle", "waiting", "woken"}] /\ valueTimer \in [Signers -> BOOLEAN]
    BY DEF ClockInit
  <2>4. run \in 0..MaxRuns
    BY ClockAssumption DEF ClockInit
  <2> QED
    BY <2>1, <2>2, <2>3, <2>4 DEF ClockInit, ClockTypeOK, Clocks, Directories
<1>2. ~Holds /\ ~Serves /\ proc = "off"
  BY DEF ClockInit, Holds, Serves
<1>3. ~NoClock.retry /\ ~NoClock.episode /\ NoClock.persisted = NoMark
  BY DEF NoClock
<1>4. OneWrite /\ NothingHeld /\ MarksInOrder /\ CoveredIsWritten /\ MarkerFirst
  BY <1>2, <1>3 DEF ClockInit, OneWrite, NothingHeld, MarksInOrder, CoveredIsWritten, MarkerFirst
<1>5. CoverageIsDurable /\ AlwaysAdoptable
  BY DEF ClockInit, CoverageIsDurable, AlwaysAdoptable, Adoptable
<1> QED
  BY <1>1, <1>4, <1>5 DEF ClockInv

-----------------------------------------------------------------------------
\* The directory was left alone or became one more that a power loss may leave.
DirectoryStep ==
    /\ state' \in Directories
    /\ \A d \in possibleStates' \cup {state'}: d = state' \/ d \in possibleStates

\* Leaves is such a step.
LEMMA LeavesIsAStep ==
    ASSUME NEW d \in Directories, NEW synced \in BOOLEAN, Leaves(d, synced)
    PROVE  DirectoryStep /\ state' = d
  BY DEF Leaves, DirectoryStep

\* So is leaving it alone.
LEMMA UntouchedIsAStep ==
    ASSUME ClockTypeOK, UNCHANGED <<state, possibleStates>>
    PROVE  DirectoryStep
  BY DEF DirectoryStep, ClockTypeOK, Directories

\* What every directory has, every directory has after a step to one that has it.
LEMMA DirectoriesKeep ==
    ASSUME ClockInv, DirectoryStep, Adoptable(state'),
           kept' = kept, \A v \in kept: v <= state'.mark
    PROVE  /\ AlwaysAdoptable' /\ CoverageIsDurable'
           /\ possibleStates' \subseteq Directories
<1>1. \A d \in possibleStates: d \in Directories /\ Adoptable(d) /\ \A v \in kept: v <= d.mark
  BY DEF ClockInv, ClockTypeOK, Directories, AlwaysAdoptable, CoverageIsDurable
<1>2. \A d \in possibleStates' \cup {state'}: Adoptable(d) /\ \A v \in kept': v <= d.mark
  BY <1>1 DEF DirectoryStep
<1> QED
  BY <1>1, <1>2 DEF DirectoryStep, AlwaysAdoptable, CoverageIsDurable

\* The types of the state, by name.
LEMMA Typed ==
    ASSUME ClockInv
    PROVE  /\ wall \in Nat /\ run \in Nat /\ clk \in Clocks
           /\ state \in Directories /\ possibleStates \subseteq Directories
           /\ bare \subseteq Nat /\ kept \subseteq Nat /\ Reservation \in Nat /\ Ceiling \in Nat \ {0}
           /\ Adoptable(state) /\ \A v \in kept: v <= state.mark
  BY ClockAssumption
  DEF ClockInv, ClockTypeOK, Clocks, Directories, AlwaysAdoptable, CoverageIsDurable

\* Adopting a directory: its marker is staged, and its mark is not touched.
LEMMA AcquireKeeps == ASSUME ClockInv, Acquire PROVE ClockInv'
<1>1. /\ proc = "off" /\ proc' \in {"locking", "adopting"} /\ run < MaxRuns
      /\ UNCHANGED <<wall, run, clk, signer, valueTimer, inflight, bare, kept>>
  BY Zenon DEF Acquire
<1>2. /\ DirectoryStep /\ state'.mark = state.mark /\ Adoptable(state')
      /\ proc' = "locking" => "marker" \in state'.files
  <2>1. CASE "marker" \in state.files
    BY <2>1, Typed, UntouchedIsAStep DEF Acquire, ClockInv
  <2>2. CASE "marker" \notin state.files
    <3> DEFINE d == [state EXCEPT !.files = @ \cup {"markerStaged"}]
    <3>1. /\ d \in Directories /\ d.mark = state.mark /\ d.files = state.files \cup {"markerStaged"}
      BY Typed DEF Directories, Files
    <3>2. state.files \subseteq Leftovers /\ state.mark = NoMark
      BY <2>2, Typed DEF Adoptable
    <3>3. Adoptable(d)
      BY <3>1, <3>2 DEF Adoptable, Leftovers
    <3>4. Leaves(d, FALSE) /\ proc' = "adopting"
      BY <2>2, Zenon DEF Acquire
    <3> HIDE DEF d
    <3>5. DirectoryStep /\ state' = d
      BY <3>1, <3>4, LeavesIsAStep, Zenon
    <3> QED
      BY <3>1, <3>3, <3>4, <3>5
  <2> QED
    BY <2>1, <2>2
<1>3. AlwaysAdoptable' /\ CoverageIsDurable' /\ possibleStates' \subseteq Directories
  BY <1>1, <1>2, Typed, DirectoriesKeep
<1>4. ClockTypeOK'
  BY <1>1, <1>2, <1>3 DEF ClockInv, ClockTypeOK, DirectoryStep, Directories
<1>5. ~Holds /\ ~Holds' /\ ~Serves /\ ~Serves'
  BY <1>1 DEF Holds, Serves
<1>6. OneWrite' /\ NothingHeld' /\ MarksInOrder' /\ CoveredIsWritten' /\ MarkerFirst'
  BY <1>1, <1>2, <1>5
  DEF ClockInv, OneWrite, NothingHeld, MarksInOrder, CoveredIsWritten, MarkerFirst
<1> QED
  BY <1>3, <1>4, <1>6 DEF ClockInv

\* The marker is renamed into place, or the start is refused.
LEMMA WriteMarkerKeeps == ASSUME ClockInv, NEW r \in MarkResults, WriteMarker(r) PROVE ClockInv'
<1>r. r \in {"ok", "failed", "unsynced"}
  BY ClockAssumption
<1>1. /\ proc = "adopting" /\ proc' \in {"locking", "off"} /\ (proc' = "locking" => r = "ok")
      /\ UNCHANGED <<wall, run, clk, signer, valueTimer, inflight, bare, kept>>
  BY <1>r, Zenon DEF WriteMarker
<1> DEFINE d == WithMarker(state)
           u == [state EXCEPT !.files = @ \ {"markerStaged"}]
<1>2. /\ d \in Directories /\ d.mark = state.mark /\ "marker" \in d.files
      /\ u \in Directories /\ u.mark = state.mark /\ u.files = state.files \ {"markerStaged"}
  BY Typed DEF Directories, Files, WithMarker
<1>3. Adoptable(d) /\ Adoptable(u)
  BY <1>2, Typed DEF Adoptable
<1>4. \E x \in {d, u}, synced \in BOOLEAN: Leaves(x, synced) /\ (r = "ok" => x = d)
  <2>1. CASE r = "ok"
    BY <2>1, Zenon DEF WriteMarker
  <2>2. CASE r = "unsynced"
    BY <2>2, Zenon DEF WriteMarker
  <2>3. CASE r = "failed"
    BY <2>3, Zenon DEF WriteMarker
  <2> QED
    BY <1>r, <2>1, <2>2, <2>3
<1> HIDE DEF d, u
<1>5. /\ DirectoryStep /\ state'.mark = state.mark /\ Adoptable(state')
      /\ r = "ok" => "marker" \in state'.files
  BY <1>2, <1>3, <1>4, LeavesIsAStep
<1>6. AlwaysAdoptable' /\ CoverageIsDurable' /\ possibleStates' \subseteq Directories
  BY <1>1, <1>5, Typed, DirectoriesKeep
<1>7. ClockTypeOK'
  BY <1>1, <1>5, <1>6 DEF ClockInv, ClockTypeOK, DirectoryStep, Directories
<1>8. ~Holds /\ ~Holds' /\ ~Serves /\ ~Serves'
  BY <1>1 DEF Holds, Serves
<1>9. OneWrite' /\ NothingHeld' /\ MarksInOrder' /\ CoveredIsWritten' /\ MarkerFirst'
  BY <1>1, <1>5, <1>8
  DEF ClockInv, OneWrite, NothingHeld, MarksInOrder, CoveredIsWritten, MarkerFirst
<1> QED
  BY <1>6, <1>7, <1>9 DEF ClockInv

\* The lock is taken and the first write started: the clock resumes from the mark
\* found, which is past every value kept, and asks for no less.
LEMMA StartKeeps == ASSUME ClockInv, Start PROVE ClockInv'
<1> DEFINE found == state.mark
           d == [state EXCEPT !.files = @ \cup {"lock"}]
<1>0. proc = "locking" /\ ~Holds /\ ~Serves /\ run < MaxRuns /\ "marker" \in state.files
  BY DEF Start, Holds, Serves, ClockInv, NothingHeld, MarkerFirst
<1>1. /\ UNCHANGED <<wall, signer, valueTimer, bare, kept>>
      /\ clk = NoClock /\ inflight = {} /\ bare = {}
  BY <1>0 DEF Start, ClockInv, NothingHeld
<1>2. /\ d \in Directories /\ d.mark = state.mark /\ "marker" \in d.files
      /\ found \in Nat \cup {-1}
  BY <1>0, Typed DEF Directories, Files, NoMark
<1>3. DirectoryStep /\ state' = d
  <2>1. Leaves(d, FALSE)
    BY Zenon DEF Start
  <2> QED
    BY <2>1, <1>2, LeavesIsAStep, Zenon
<1>4. Adoptable(state') /\ "marker" \in state'.files /\ state'.mark = found
  BY <1>2, <1>3 DEF Adoptable
<1>5. AlwaysAdoptable' /\ CoverageIsDurable' /\ possibleStates' \subseteq Directories
  BY <1>1, <1>3, <1>4, Typed, DirectoriesKeep
<1>6. CASE proc' = "off" /\ UNCHANGED <<run, clk, inflight>>
  <2>1. ~Holds' /\ ~Serves'
    BY <1>6 DEF Holds, Serves
  <2>2. ClockTypeOK'
    BY <1>1, <1>3, <1>5, <1>6 DEF ClockInv, ClockTypeOK, DirectoryStep, Directories
  <2>3. OneWrite' /\ NothingHeld' /\ MarksInOrder' /\ CoveredIsWritten' /\ MarkerFirst'
    BY <1>0, <1>1, <1>6, <2>1
    DEF ClockInv, OneWrite, NothingHeld, MarksInOrder, CoveredIsWritten, MarkerFirst
  <2> QED
    BY <1>5, <2>2, <2>3 DEF ClockInv
<1>7. ASSUME (IF found = NoMark THEN wall ELSE Later(wall, found + 1)) < Ceiling,
             proc' = "starting", run' = run + 1,
             clk' = [NoClock EXCEPT !.last = Resume(found), !.covered = Later(found, 0),
                                    !.written = StartMark(found), !.write = TRUE],
             inflight' = inflight \cup {[run |-> run + 1, mark |-> StartMark(found)]}
      PROVE  ClockInv'
  <2>1. /\ StartMark(found) \in Nat /\ Later(found, 0) \in Nat
        /\ Later(found, 0) <= StartMark(found) /\ found <= Later(found, 0)
    <3>1. wall < Ceiling /\ found < Ceiling
      BY <1>2, <1>7, Typed DEF Later, NoMark
    <3> QED
      BY <1>2, <3>1, Typed DEF StartMark, Later, Earlier
  <2>2. /\ clk' \in Clocks /\ clk'.last = Later(found, 0) /\ clk'.covered = Later(found, 0)
        /\ clk'.written = StartMark(found) /\ clk'.write /\ ~clk'.retry /\ ~clk'.episode
        /\ clk'.persisted = NoMark
    <3> HIDE DEF found
    <3> QED
      BY <1>7, <2>1, Zenon DEF Resume, NoClock, Clocks, NoMark
  <2>3. Holds' /\ ~Serves'
    BY <1>7 DEF Holds, Serves
  <2>4. \A v \in kept: v \in Nat /\ v <= Later(found, 0)
    BY Typed, <1>2, <2>1
  <2>5. ClockTypeOK'
    <3>1. run' \in 0..MaxRuns /\ run' \in Nat
      BY <1>0, <1>7, Typed, ClockAssumption
    <3>2. inflight' \subseteq [run: Nat, mark: Nat]
      BY <1>1, <1>7, <2>1, <3>1
    <3> QED
      BY <1>1, <1>3, <1>5, <1>7, <2>2, <3>1, <3>2
      DEF ClockInv, ClockTypeOK, DirectoryStep, Directories, Clocks
  <2>6. OneWrite'
    BY <1>1, <1>7, <2>2, <2>3 DEF OneWrite
  <2>7. NothingHeld'
    BY <1>0, <1>1, <1>7, <2>2, <2>3 DEF ClockInv, NothingHeld
  <2>8. MarksInOrder'
    BY <1>1, <2>1, <2>2, <2>4 DEF MarksInOrder
  <2>9. CoveredIsWritten' /\ MarkerFirst'
    BY <1>4, <2>3 DEF CoveredIsWritten, MarkerFirst
  <2> QED
    BY <1>5, <2>5, <2>6, <2>7, <2>8, <2>9 DEF ClockInv
<1>8. (IF found = NoMark THEN wall ELSE Later(wall, found + 1)) \in Int
  BY <1>2, Typed DEF Later, NoMark
<1> QED
  BY <1>6, <1>7, <1>8, Typed DEF Start

\* A step of a clock that serves and does not touch the directory: at most one
\* write starts, coverage stays, and what is issued lies above what was.
LEMMA ServingStep ==
    ASSUME ClockInv, Serves, Serves', UNCHANGED <<wall, run, state, possibleStates>>,
           signer' \in [Signers -> {"idle", "waiting", "woken"}],
           valueTimer' \in [Signers -> BOOLEAN],
           bare' \subseteq Nat, kept' \subseteq Nat,
           clk' \in Clocks,
           clk'.covered = clk.covered, clk'.persisted = clk.persisted,
           clk'.last >= clk.last, clk'.written >= clk.written,
           ~clk'.episode => clk'.last <= clk'.covered,
           \/ inflight' = inflight /\ clk'.write = clk.write /\ clk'.written = clk.written
           \/ /\ ~clk.write /\ clk'.write
              /\ inflight' = inflight \cup {[run |-> run, mark |-> clk'.written]},
           \A v \in kept': v \in kept \/ v <= clk.covered,
           \A v \in kept' \cup bare': v \in kept \cup bare \/ v <= clk'.last
    PROVE  ClockInv'
<1>1. Holds /\ Holds'
  BY DEF Serves, Holds
<1>2. /\ clk \in Clocks /\ clk.covered \in Nat /\ clk.last \in Nat /\ clk.written \in Nat
      /\ clk'.last \in Nat /\ clk'.written \in Nat
  BY Typed DEF Clocks
<1>3. inflight' \subseteq [run: Nat, mark: Nat]
  BY <1>2, Typed DEF ClockInv, ClockTypeOK
<1>4. ClockTypeOK'
  BY <1>3 DEF ClockInv, ClockTypeOK, Clocks, Serves
<1>5. OneWrite'
  BY <1>1 DEF ClockInv, OneWrite
<1>6. NothingHeld'
  BY <1>1 DEF NothingHeld, Serves
<1>7. MarksInOrder'
  <2>1. clk'.covered <= clk'.written
    BY <1>1, <1>2 DEF ClockInv, MarksInOrder
  <2>2. \A v \in kept': v <= clk'.covered
    BY <1>1, Zenon DEF ClockInv, MarksInOrder
  <2>3. \A v \in kept \cup bare: v \in Nat /\ v <= clk'.last
    BY <1>1, <1>2, Typed DEF ClockInv, MarksInOrder
  <2> QED
    BY <2>1, <2>2, <2>3, Zenon DEF MarksInOrder
<1>8. CoveredIsWritten' /\ MarkerFirst' /\ AlwaysAdoptable'
  BY <1>1 DEF ClockInv, CoveredIsWritten, MarkerFirst, AlwaysAdoptable
<1>9. CoverageIsDurable'
  <2>1. \A d \in possibleStates \cup {state}: clk.covered <= d.mark /\ d.mark \in Int
    BY Typed DEF ClockInv, CoveredIsWritten, Directories, NoMark
  <2>2. \A v \in kept': v <= clk.covered /\ v \in Nat
    BY <1>1 DEF ClockInv, MarksInOrder
  <2>3. \A v \in kept', d \in possibleStates \cup {state}: v <= d.mark
    BY <1>2, <2>1, <2>2
  <2> QED
    BY <2>3 DEF CoverageIsDurable
<1> QED
  BY <1>4, <1>5, <1>6, <1>7, <1>8, <1>9 DEF ClockInv

\* A reservation is at least the value it is for, short of the ceiling.
LEMMA ReservationIsAMark ==
    ASSUME ClockInv, NEW at \in Nat
    PROVE  /\ ReservationFor(wall, at) \in Nat
           /\ at < Ceiling => at <= ReservationFor(wall, at)
  BY Typed DEF ReservationFor, Later, Earlier

\* Waking the callers keeps their types.
LEMMA BroadcastTyped ==
    ASSUME ClockInv, Broadcast
    PROVE  signer' \in [Signers -> {"idle", "waiting", "woken"}]
  BY DEF ClockInv, ClockTypeOK, Broadcast

\* The two bounds open an episode and nothing else.
LEMMA EpisodeKeeps ==
    ASSUME ClockInv, Serves, clk' = OpenEpisode(clk),
           signer' \in [Signers -> {"idle", "waiting", "woken"}],
           valueTimer' \in [Signers -> BOOLEAN],
           UNCHANGED <<wall, proc, run, inflight, state, possibleStates, bare, kept>>
    PROVE  ClockInv'
<1>1. clk' \in Clocks /\ SameMarks(clk', clk) /\ clk'.episode
  BY Typed, OpenEpisodeKeeps
<1>2. clk \in Clocks /\ clk.last \in Nat /\ clk.written \in Nat
  BY Typed DEF Clocks
<1>3. Serves'
  BY DEF Serves
<1>4. bare' \subseteq Nat /\ kept' \subseteq Nat
  BY Typed
<1> QED
  BY <1>1, <1>2, <1>3, <1>4, ServingStep DEF SameMarks

\* A value has waited for the whole bound.
LEMMA ValueBoundKeeps == ASSUME ClockInv, NEW s \in Signers, ValueBound(s) PROVE ClockInv'
<1>1. Serves
  BY DEF ClockInv, NothingHeld, ValueBound
<1>2. valueTimer' \in [Signers -> BOOLEAN]
  BY DEF ValueBound, ClockInv, ClockTypeOK
<1>3. signer' \in [Signers -> {"idle", "waiting", "woken"}]
  BY BroadcastTyped DEF ValueBound, ClockInv, ClockTypeOK
<1> QED
  BY <1>1, <1>2, <1>3, EpisodeKeeps DEF ValueBound

\* A write has outlasted its bound.
LEMMA WriteBoundKeeps == ASSUME ClockInv, WriteBound PROVE ClockInv'
<1>1. Serves
  BY DEF WriteBound, Serves
<1>2. valueTimer' \in [Signers -> BOOLEAN]
  BY DEF WriteBound, ClockInv, ClockTypeOK
<1>3. signer' \in [Signers -> {"idle", "waiting", "woken"}]
  BY BroadcastTyped DEF WriteBound
<1> QED
  BY <1>1, <1>2, <1>3, EpisodeKeeps DEF WriteBound

\* The stop closes the clock; its marks stay.
LEMMA StopSigningKeeps == ASSUME ClockInv, StopSigning PROVE ClockInv'
<1>1. Serves /\ Serves' /\ Holds
  BY DEF StopSigning, Serves, Holds
<1>2. signer' \in [Signers -> {"idle", "waiting", "woken"}] /\ valueTimer' \in [Signers -> BOOLEAN]
  BY BroadcastTyped DEF StopSigning, ClockInv, ClockTypeOK
<1>3. clk \in Clocks /\ clk.last \in Nat /\ clk.written \in Nat
  BY Typed DEF Clocks
<1>4. clk' \in Clocks /\ SameMarks(clk', clk) /\ clk'.episode = clk.episode
  BY <1>3, Zenon DEF StopSigning, Clocks, SameMarks
<1>5. ~clk.episode => clk.last <= clk.covered
  BY <1>1 DEF ClockInv, MarksInOrder
<1>6. /\ UNCHANGED <<wall, run, state, possibleStates, inflight, bare, kept>>
      /\ bare' \subseteq Nat /\ kept' \subseteq Nat
  BY Typed DEF StopSigning
<1> QED
  BY <1>1, <1>2, <1>3, <1>4, <1>5, <1>6, ServingStep DEF SameMarks

\* The paced retry starts a write only when none is under way.
LEMMA RetryWriteKeeps == ASSUME ClockInv, RetryWrite PROVE ClockInv'
<1> DEFINE mark == ReservationFor(wall, clk.last)
           runs == ~clk.closed /\ clk.episode /\ ~clk.write
           c == IF runs THEN StartWrite(clk, mark) ELSE clk
<1>1. Serves
  BY DEF RetryWrite, ClockInv, NothingHeld
<1>2. Serves' /\ Holds
  BY <1>1 DEF RetryWrite, Serves, Holds
<1>3. clk \in Clocks /\ clk.last \in Nat /\ clk.written \in Nat
  BY Typed DEF Clocks
<1>4. mark \in Nat
  BY <1>3, ReservationIsAMark
<1>5. /\ clk' = [c EXCEPT !.retry = FALSE]
      /\ inflight' = IF runs THEN inflight \cup {[run |-> run, mark |-> Later(clk.written, mark)]}
                     ELSE inflight
      /\ UNCHANGED <<wall, proc, run, signer, valueTimer, state, possibleStates, bare, kept>>
  BY DEF RetryWrite
<1> HIDE DEF mark
<1>6. /\ c \in Clocks /\ c.last = clk.last /\ c.covered = clk.covered
      /\ c.persisted = clk.persisted /\ c.episode = clk.episode
      /\ runs => c.write /\ c.written = Later(clk.written, mark)
      /\ ~runs => c.write = clk.write /\ c.written = clk.written
  BY <1>3, <1>4, StartWriteKeeps
<1> HIDE DEF c
<1>7. /\ clk' \in Clocks /\ SameMarks(clk', c) /\ clk'.episode = c.episode
  BY <1>5, <1>6, Zenon DEF Clocks, SameMarks
<1>8. ~clk'.episode => clk'.last <= clk'.covered
  BY <1>2, <1>6, <1>7 DEF ClockInv, MarksInOrder, SameMarks
<1>9. clk'.written >= clk.written
  BY <1>3, <1>4, <1>6, <1>7 DEF SameMarks, Later
<1>10. \/ inflight' = inflight /\ clk'.write = clk.write /\ clk'.written = clk.written
       \/ /\ ~clk.write /\ clk'.write
          /\ inflight' = inflight \cup {[run |-> run, mark |-> clk'.written]}
  BY <1>5, <1>6, <1>7 DEF SameMarks
<1>11. /\ bare' \subseteq Nat /\ kept' \subseteq Nat
       /\ signer' \in [Signers -> {"idle", "waiting", "woken"}] /\ valueTimer' \in [Signers -> BOOLEAN]
  BY <1>5, Typed DEF ClockInv, ClockTypeOK
<1>12. /\ clk'.covered = clk.covered /\ clk'.persisted = clk.persisted /\ clk'.last >= clk.last
  BY <1>3, <1>6, <1>7 DEF SameMarks
<1> QED
  BY <1>1, <1>2, <1>5, <1>7, <1>8, <1>9, <1>10, <1>11, <1>12, ServingStep

\* A pass of Next refuses, waits with a write under way, or issues a value past
\* the last one: covered, or in an episode.
LEMMA NextKeeps == ASSUME ClockInv, NEW s \in Signers, Next(s) PROVE ClockInv'
<1> DEFINE at == Later(wall, clk.last + 1)
           mark == ReservationFor(wall, at)
           extend == /\ ~clk.episode /\ ~clk.write
                     /\ clk.covered - at < Reservation \div 2
                     /\ mark > clk.covered
<1>1. Serves /\ Serves' /\ Holds
  BY DEF Next, Serves, Holds
<1>2. /\ clk \in Clocks /\ clk.last \in Nat /\ clk.written \in Nat /\ clk.covered \in Nat
      /\ ~clk.episode => clk.last <= clk.covered
  BY <1>1, Typed DEF Clocks, ClockInv, MarksInOrder
<1>3. at \in Nat /\ at > clk.last /\ mark \in Nat
  <2>1. at \in Nat /\ at > clk.last
    BY <1>2, Typed DEF Later
  <2> QED
    BY <2>1, ReservationIsAMark
<1>4. /\ UNCHANGED <<wall, proc, run, state, possibleStates>>
      /\ signer' \in [Signers -> {"idle", "waiting", "woken"}]
      /\ valueTimer' \in [Signers -> BOOLEAN]
  <2>1. UNCHANGED <<wall, proc, run, state, possibleStates>>
    BY DEF Next
  <2>2. signer \in [Signers -> {"idle", "waiting", "woken"}] /\ valueTimer \in [Signers -> BOOLEAN]
    BY DEF ClockInv, ClockTypeOK
  <2>3. \/ signer' = [signer EXCEPT ![s] = "idle"] /\ valueTimer' = [valueTimer EXCEPT ![s] = FALSE]
        \/ /\ signer' = [signer EXCEPT ![s] = "waiting"]
           /\ valueTimer' = [valueTimer EXCEPT ![s] = @ \/ signer[s] = "idle"]
    BY DEF Next
  <2>4. (valueTimer[s] \/ signer[s] = "idle") \in BOOLEAN
    BY <2>2
  <2> QED
    BY <2>1, <2>2, <2>3, <2>4, Zenon
<1>5. CASE UNCHANGED <<clk, inflight, bare, kept>>
  BY <1>1, <1>2, <1>4, <1>5, Typed, ServingStep
<1>6. ASSUME clk' = (IF clk.write THEN clk ELSE StartWrite(clk, mark)),
             inflight' = (IF ~clk.write
                          THEN inflight \cup {[run |-> run, mark |-> Later(clk.written, mark)]}
                          ELSE inflight),
             UNCHANGED <<bare, kept>>
      PROVE  ClockInv'
  <2> HIDE DEF mark
  <2>1. CASE clk.write
    <3>1. clk' = clk /\ inflight' = inflight
      BY <1>6, <2>1
    <3> QED
      BY <1>5, <1>6, <3>1
  <2>2. CASE ~clk.write
    <3>1. /\ clk' \in Clocks /\ clk'.write
          /\ clk'.last = clk.last /\ clk'.covered = clk.covered /\ clk'.persisted = clk.persisted
          /\ clk'.episode = clk.episode /\ clk'.written = Later(clk.written, mark)
      BY <1>2, <1>3, <1>6, <2>2, StartWriteKeeps, Zenon
    <3>2. clk'.written >= clk.written
      BY <1>2, <1>3, <3>1 DEF Later
    <3>3. inflight' = inflight \cup {[run |-> run, mark |-> clk'.written]}
      BY <1>6, <2>2, <3>1
    <3>4. bare' \subseteq Nat /\ kept' \subseteq Nat
      BY <1>6, Typed
    <3> QED
      BY <1>1, <1>2, <1>4, <1>6, <2>2, <3>1, <3>2, <3>3, <3>4, ServingStep
  <2> QED
    BY <2>1, <2>2
<1>7. ASSUME Covered(at),
             clk' = [(IF extend THEN StartWrite(clk, mark) ELSE clk) EXCEPT !.last = at],
             inflight' = (IF extend
                          THEN inflight \cup {[run |-> run, mark |-> Later(clk.written, mark)]}
                          ELSE inflight),
             IF at > clk.covered THEN bare' = bare \cup {at} /\ UNCHANGED kept
             ELSE kept' = kept \cup {at} /\ UNCHANGED bare
      PROVE  ClockInv'
  <2>1. extend => ~clk.write
    OBVIOUS
  <2> DEFINE c == IF extend THEN StartWrite(clk, mark) ELSE clk
  <2> HIDE DEF extend, mark
  <2>2. /\ c \in Clocks /\ c.covered = clk.covered
        /\ c.persisted = clk.persisted /\ c.episode = clk.episode
        /\ extend => c.write /\ c.written = Later(clk.written, mark)
        /\ ~extend => c.write = clk.write /\ c.written = clk.written
    BY <1>2, <1>3, StartWriteKeeps, Zenon
  <2>3. clk' = [c EXCEPT !.last = at]
    BY <1>7
  <2> HIDE DEF c
  <2>4. /\ clk' \in Clocks /\ clk'.last = at /\ clk'.covered = clk.covered
        /\ clk'.persisted = clk.persisted /\ clk'.episode = clk.episode
        /\ clk'.write = c.write /\ clk'.written = c.written
    BY <1>3, <2>2, <2>3 DEF Clocks
  <2>5. ~clk'.episode => clk'.last <= clk'.covered
    BY <1>7, <2>4 DEF Covered
  <2>6. clk'.written >= clk.written /\ clk'.last >= clk.last
    BY <1>2, <1>3, <2>2, <2>4 DEF Later
  <2>7. \/ inflight' = inflight /\ clk'.write = clk.write /\ clk'.written = clk.written
        \/ /\ ~clk.write /\ clk'.write
           /\ inflight' = inflight \cup {[run |-> run, mark |-> clk'.written]}
    BY <1>7, <2>1, <2>2, <2>4
  <2>8. /\ bare' \subseteq Nat /\ kept' \subseteq Nat
        /\ \A v \in kept': v \in kept \/ v <= clk.covered
        /\ \A v \in kept' \cup bare': v \in kept \cup bare \/ v <= clk'.last
    <3>1. bare \subseteq Nat /\ kept \subseteq Nat /\ at <= clk'.last
      BY <1>3, <2>4, Typed
    <3> HIDE DEF at
    <3>2. CASE at > clk.covered
      BY <1>3, <1>7, <3>1, <3>2
    <3>3. CASE ~(at > clk.covered)
      <4>1. at <= clk.covered
        BY <1>2, <1>3, <3>3
      <4> QED
        BY <1>3, <1>7, <3>1, <3>3, <4>1
    <3> QED
      BY <3>2, <3>3
  <2> QED
    BY <1>1, <1>4, <2>4, <2>5, <2>6, <2>7, <2>8, ServingStep
<1> QED
  BY <1>5, <1>6, <1>7 DEF Next

\* The start is refused and its write left to end.
LEMMA StartBoundKeeps == ASSUME ClockInv, StartBound PROVE ClockInv'
<1>1. proc = "starting" /\ proc' = "refusing"
      /\ UNCHANGED <<wall, run, clk, signer, valueTimer, inflight, state, possibleStates, bare, kept>>
  BY DEF StartBound
<1>2. Holds /\ Holds' /\ ~Serves /\ ~Serves'
  BY <1>1 DEF Holds, Serves
<1> QED
  BY <1>1, <1>2
  DEF ClockInv, ClockTypeOK, OneWrite, NothingHeld, MarksInOrder, CoveredIsWritten, MarkerFirst,
      CoverageIsDurable, AlwaysAdoptable, Adoptable

\* A process that is gone leaves nothing of its clock; the directory is one that
\* a power loss may leave.
LEMMA GoneKeeps ==
    ASSUME ClockInv, DirectoryStep, Adoptable(state'), \A v \in kept: v <= state'.mark,
           proc' = "off", Processless, inflight' = {}, UNCHANGED <<wall, run, kept>>
    PROVE  ClockInv'
<1>1. ~Holds' /\ ~Serves'
  BY DEF Holds, Serves
<1>2. AlwaysAdoptable' /\ CoverageIsDurable' /\ possibleStates' \subseteq Directories
  BY DirectoriesKeep
<1>3. NoClock \in Clocks /\ ~NoClock.retry /\ ~NoClock.episode /\ NoClock.persisted = NoMark
  BY DEF NoClock, Clocks, NoMark
<1>4. /\ clk' = NoClock /\ bare' = {}
      /\ signer' \in [Signers -> {"idle", "waiting", "woken"}]
      /\ valueTimer' \in [Signers -> BOOLEAN] /\ \A s \in Signers: ~valueTimer'[s]
  BY DEF Processless
<1>5. ClockTypeOK'
  BY <1>2, <1>3, <1>4 DEF ClockInv, ClockTypeOK, DirectoryStep, Directories, Clocks
<1>6. OneWrite' /\ NothingHeld' /\ MarksInOrder' /\ CoveredIsWritten' /\ MarkerFirst'
  BY <1>1, <1>3, <1>4, Zenon DEF OneWrite, NothingHeld, MarksInOrder, CoveredIsWritten, MarkerFirst
<1> QED
  BY <1>2, <1>5, <1>6 DEF ClockInv

\* The directory is released once its write has ended.
LEMMA ReleaseKeeps == ASSUME ClockInv, Release PROVE ClockInv'
<1>1. inflight = {}
  BY DEF ClockInv, OneWrite, Release, Quiescent
<1>2. DirectoryStep /\ state' = state
  BY UntouchedIsAStep DEF ClockInv, Release
<1> QED
  BY <1>1, <1>2, Typed, GoneKeeps DEF Release

\* A mark that is written lies past every value kept.
LEMMA WrittenIsPast ==
    ASSUME ClockInv, NEW w \in inflight
    PROVE  /\ w = [run |-> run, mark |-> clk.written] /\ w.run = run /\ w.mark = clk.written
           /\ Holds /\ clk.write /\ w.mark \in Nat
           /\ clk.covered \in Nat /\ clk.covered <= w.mark /\ \A v \in kept: v \in Nat /\ v <= w.mark
           /\ WithMark(state, w.mark) \in Directories
           /\ WithMark(state, w.mark).mark = w.mark
           /\ WithMark(state, w.mark).files = state.files
           /\ "marker" \in state.files /\ Adoptable(WithMark(state, w.mark))
<1>1. Holds /\ clk.write /\ w = [run |-> run, mark |-> clk.written] /\ "marker" \in state.files
  BY DEF ClockInv, OneWrite, MarkerFirst
<1>2. clk \in Clocks /\ clk.covered \in Nat /\ clk.written \in Nat
  BY Typed DEF Clocks
<1>3. w.run = run /\ w.mark = clk.written /\ w.mark \in Nat
  BY <1>1, <1>2
<1>4. clk.covered <= w.mark /\ \A v \in kept: v \in Nat /\ v <= w.mark
  BY <1>1, <1>2, <1>3, Typed DEF ClockInv, MarksInOrder
<1>5. /\ WithMark(state, w.mark) \in Directories
      /\ WithMark(state, w.mark).mark = w.mark /\ WithMark(state, w.mark).files = state.files
  BY <1>3, Typed DEF WithMark, Directories
<1> QED
  BY <1>1, <1>2, <1>3, <1>4, <1>5 DEF Adoptable

\* The process ends with its write undone, staged or done.
LEMMA ProcessEndsKeeps == ASSUME ClockInv, ProcessEnds PROVE ClockInv'
<1> DEFINE staged == [state EXCEPT !.files = @ \cup {"markStaged"}]
<1>1. PICK d \in {state} \cup {WithMark(state, w.mark): w \in inflight}
                 \cup (IF inflight = {} THEN {} ELSE {staged}): Leaves(d, FALSE)
  BY Zenon DEF ProcessEnds
<1>2. d \in Directories /\ Adoptable(d) /\ \A v \in kept: v <= d.mark
  <2>1. CASE d = state
    BY <2>1, Typed
  <2>2. ASSUME NEW w \in inflight, d = WithMark(state, w.mark)
        PROVE  d \in Directories /\ Adoptable(d) /\ \A v \in kept: v <= d.mark
    BY <2>2, WrittenIsPast
  <2>3. CASE inflight # {} /\ d = staged
    <3>1. "marker" \in state.files
      BY <2>3, WrittenIsPast
    <3>2. d \in Directories /\ d.mark = state.mark /\ "marker" \in d.files
      BY <2>3, <3>1, Typed DEF Directories, Files
    <3> QED
      BY <3>2, Typed DEF Adoptable
  <2> QED
    BY <1>1, <2>1, <2>2, <2>3
<1>3. DirectoryStep /\ state' = d
  BY <1>1, <1>2, LeavesIsAStep, Zenon
<1> QED
  BY <1>2, <1>3, GoneKeeps DEF ProcessEnds

\* A power loss picks a directory that it may leave.
LEMMA LosePowerKeeps == ASSUME ClockInv, LosePower PROVE ClockInv'
<1>1. PICK d \in possibleStates: state' = d /\ possibleStates' = {d}
  BY DEF LosePower
<1>2. d \in Directories /\ Adoptable(d) /\ \A v \in kept: v <= d.mark
  BY Typed DEF ClockInv, AlwaysAdoptable, CoverageIsDurable
<1>3. proc = "off" /\ UNCHANGED <<wall, proc, run, clk, signer, valueTimer, inflight, bare, kept>>
  BY DEF LosePower
<1>4. ~Holds /\ ~Serves /\ ~Holds' /\ ~Serves'
  BY <1>3 DEF Holds, Serves
<1>5. ClockTypeOK' /\ CoverageIsDurable' /\ AlwaysAdoptable'
  BY <1>1, <1>2, <1>3
  DEF ClockInv, ClockTypeOK, Directories, CoverageIsDurable, AlwaysAdoptable
<1>6. OneWrite' /\ NothingHeld' /\ MarksInOrder' /\ CoveredIsWritten' /\ MarkerFirst'
  BY <1>3, <1>4
  DEF ClockInv, OneWrite, NothingHeld, MarksInOrder, CoveredIsWritten, MarkerFirst
<1> QED
  BY <1>5, <1>6 DEF ClockInv

\* A write ends.  The start's own hands the clock out or refuses the start; a
\* later one grows coverage when it is durable, to a mark every directory has.
LEMMA PersistEndsKeeps ==
    ASSUME ClockInv, NEW w \in inflight, NEW r \in MarkResults, PersistEnds(w, r)
    PROVE  ClockInv'
<1> DEFINE d == WithMark(state, w.mark)
           new == w.mark > clk.persisted
<1>r. r \in {"ok", "failed", "unsynced"}
  BY ClockAssumption
<1>1. /\ w.run = run /\ w.mark = clk.written /\ Holds /\ clk.write /\ w.mark \in Nat
      /\ clk.covered \in Nat /\ clk.covered <= w.mark /\ \A v \in kept: v \in Nat /\ v <= w.mark
      /\ d \in Directories /\ d.mark = w.mark /\ d.files = state.files
      /\ "marker" \in state.files /\ Adoptable(d)
  BY WrittenIsPast
<1>2. inflight' = {}
  <2>1. \A x \in inflight: x = w
    BY WrittenIsPast
  <2> QED
    BY <2>1 DEF PersistEnds
<1>3. UNCHANGED <<wall, run>>
  BY DEF PersistEnds
<1>4. IF r = "failed" \/ ~new THEN UNCHANGED <<state, possibleStates>> ELSE Leaves(d, r = "ok")
  BY DEF PersistEnds
<1> HIDE DEF d
<1>5. /\ DirectoryStep /\ Adoptable(state') /\ "marker" \in state'.files
      /\ state' = state \/ state' = d
      /\ \A v \in kept: v <= state'.mark
  <2>1. CASE r = "failed" \/ ~new
    BY <1>1, <1>4, <2>1, Typed, UntouchedIsAStep DEF ClockInv
  <2>2. CASE ~(r = "failed" \/ ~new)
    <3>1. Leaves(d, r = "ok") /\ (r = "ok") \in BOOLEAN
      BY <1>4, <2>2
    <3>2. DirectoryStep /\ state' = d
      BY <1>1, <3>1, LeavesIsAStep, Zenon
    <3> QED
      BY <1>1, <3>2
  <2> QED
    BY <2>1, <2>2
<1>6. \/ /\ proc = "starting" /\ r = "ok" /\ proc' = "up"
         /\ clk' = [clk EXCEPT !.covered = Later(@, w.mark), !.persisted = w.mark, !.write = FALSE]
         /\ UNCHANGED <<signer, valueTimer, bare, kept>>
      \/ proc' = "off" /\ Processless /\ UNCHANGED kept
      \/ /\ Serves /\ proc' = proc /\ clk' = TakeOutcome(clk, w.mark, r)
         /\ Broadcast /\ UNCHANGED valueTimer
         /\ bare' = IF r = "ok" THEN {v \in bare: v > w.mark} ELSE bare
         /\ kept' = kept \cup (bare \ bare')
  BY <1>1, Zenon DEF PersistEnds, Holds, Serves, Completed
<1>7. CASE proc' = "off" /\ Processless /\ UNCHANGED kept
  BY <1>2, <1>3, <1>5, <1>7, GoneKeeps
<1>8. CASE /\ proc = "starting" /\ r = "ok" /\ proc' = "up"
           /\ clk' = [clk EXCEPT !.covered = Later(@, w.mark), !.persisted = w.mark, !.write = FALSE]
           /\ UNCHANGED <<signer, valueTimer, bare, kept>>
  <2>1. Holds /\ ~Serves /\ Holds' /\ Serves' /\ clk.persisted = NoMark /\ ~clk.episode
    BY <1>8 DEF Holds, Serves, ClockInv, NothingHeld
  <2>2. /\ clk \in Clocks /\ clk.last \in Nat /\ clk.written \in Nat
        /\ clk.last <= clk.covered /\ \A v \in kept \cup bare: v <= clk.last
    BY <2>1, Typed DEF Clocks, ClockInv, MarksInOrder
  <2>3. Later(clk.covered, w.mark) = w.mark
    BY <1>1 DEF Later
  <2>4. /\ clk' \in Clocks /\ clk'.covered = w.mark /\ clk'.persisted = w.mark
        /\ clk'.last = clk.last /\ clk'.written = clk.written /\ clk'.episode = clk.episode
    BY <1>1, <1>8, <2>2, <2>3, Zenon DEF Clocks
  <2>5. new
    BY <1>1, <2>1 DEF NoMark
  <2>6. state' = d /\ possibleStates' = {d}
    BY <1>4, <1>8, <2>5 DEF Leaves
  <2>7. AlwaysAdoptable' /\ CoverageIsDurable' /\ possibleStates' \subseteq Directories
    BY <1>5, <1>8, DirectoriesKeep
  <2>8. ClockTypeOK'
    BY <1>1, <1>2, <1>3, <1>8, <2>4, <2>6, <2>7 DEF ClockInv, ClockTypeOK, Clocks, Directories
  <2>9. OneWrite' /\ NothingHeld' /\ MarkerFirst'
    BY <1>2, <1>5, <1>8, <2>1 DEF OneWrite, NothingHeld, MarkerFirst
  <2>10. MarksInOrder'
    <3>1. clk'.last <= clk'.covered /\ clk'.covered <= clk'.written
      BY <1>1, <2>2, <2>4
    <3> QED
      BY <1>1, <1>8, <2>2, <2>4, <3>1 DEF MarksInOrder
  <2>11. CoveredIsWritten'
    BY <1>1, <2>4, <2>6 DEF CoveredIsWritten
  <2> QED
    BY <2>7, <2>8, <2>9, <2>10, <2>11 DEF ClockInv
<1>9. CASE /\ Serves /\ proc' = proc /\ clk' = TakeOutcome(clk, w.mark, r)
           /\ Broadcast /\ UNCHANGED valueTimer
           /\ bare' = IF r = "ok" THEN {v \in bare: v > w.mark} ELSE bare
           /\ kept' = kept \cup (bare \ bare')
  <2>1. Holds /\ Holds' /\ Serves /\ Serves'
    BY <1>1, <1>9 DEF Serves, Holds
  <2>2. /\ clk \in Clocks /\ clk.last \in Nat /\ clk.written \in Nat
        /\ clk.persisted = clk.covered
        /\ \A v \in kept: v <= clk.covered
        /\ \A v \in kept \cup bare: v \in Nat /\ v <= clk.last
        /\ ~clk.episode => clk.last <= clk.covered
        /\ \A x \in possibleStates \cup {state}: x \in Directories /\ clk.covered <= x.mark
    BY <2>1, Typed DEF Clocks, ClockInv, MarksInOrder, CoveredIsWritten
  <2>3. /\ clk' \in Clocks /\ ~clk'.write
        /\ clk'.last = clk.last /\ clk'.written = clk.written
        /\ clk'.covered = IF r = "ok" THEN Later(clk.covered, w.mark) ELSE clk.covered
        /\ clk'.persisted = IF r = "ok" THEN Later(clk.persisted, w.mark) ELSE clk.persisted
        /\ ~clk'.episode => ~clk.episode \/ clk'.last <= clk'.covered
    <3>1. clk' = TakeOutcome(clk, w.mark, r) /\ clk \in Clocks /\ w.mark \in Nat
      BY <1>1, <1>9, <2>2, Zenon
    <3> QED
      BY <3>1, <1>r, TakeOutcomeKeeps, Zenon
  <2>4. /\ clk'.covered = IF r = "ok" THEN w.mark ELSE clk.covered
        /\ clk'.persisted = clk'.covered /\ clk'.covered \in Nat
        /\ clk.covered <= clk'.covered /\ clk'.covered <= clk'.written
    BY <1>1, <2>2, <2>3, SMTT(30) DEF Later
  <2>5. \A x \in possibleStates' \cup {state'}: x \in Directories /\ clk'.covered <= x.mark
    <3>1. CASE r = "ok" /\ new
      <4>1. state' = d /\ possibleStates' = {d}
        BY <1>4, <3>1 DEF Leaves
      <4> QED
        BY <1>1, <2>4, <3>1, <4>1
    <3>2. CASE r = "ok" /\ ~new
      <4>1. w.mark <= clk.covered
        BY <1>1, <2>2, <3>2
      <4>2. clk'.covered = clk.covered
        BY <1>1, <2>4, <3>2, <4>1
      <4> QED
        BY <1>4, <2>2, <3>2, <4>2
    <3>3. CASE r # "ok"
      <4>1. clk'.covered = clk.covered /\ d \in Directories /\ clk.covered <= d.mark
        BY <1>1, <2>4, <3>3
      <4> QED
        BY <1>5, <2>2, <4>1 DEF DirectoryStep
    <3> QED
      BY <3>1, <3>2, <3>3
  <2>6. /\ bare' \subseteq bare /\ kept' \subseteq kept \cup bare
        /\ \A v \in kept': v \in Nat /\ v <= clk'.covered
    <3>1. CASE r = "ok"
      BY <1>1, <1>9, <2>2, <2>4, <3>1
    <3>2. CASE r # "ok"
      BY <1>9, <2>2, <2>4, <3>2
    <3> QED
      BY <3>1, <3>2
  <2>7. MarksInOrder'
    <3>1. clk.last <= clk.covered => clk'.last <= clk'.covered
      BY <1>1, <2>2, <2>3, <2>4, SMTT(30)
    <3>2. ~clk'.episode => clk'.last <= clk'.covered
      BY <2>2, <2>3, <3>1, Zenon
    <3> QED
      BY <2>2, <2>3, <2>4, <2>6, <3>2 DEF MarksInOrder
  <2>8. CoverageIsDurable'
    <3>1. \A v \in kept', x \in possibleStates' \cup {state'}: v <= x.mark
      <4>1. \A x \in possibleStates' \cup {state'}: x.mark \in Int
        BY <2>5 DEF Directories, NoMark
      <4> QED
        BY <2>4, <2>5, <2>6, <4>1
    <3> QED
      BY <3>1 DEF CoverageIsDurable
  <2>9. AlwaysAdoptable'
    BY <1>5 DEF ClockInv, AlwaysAdoptable, DirectoryStep
  <2>10. ClockTypeOK'
    <3>1. signer' \in [Signers -> {"idle", "waiting", "woken"}]
      BY <1>9, BroadcastTyped
    <3> QED
      BY <1>2, <1>3, <1>9, <2>2, <2>3, <2>5, <2>6, <3>1, Typed, Zenon
      DEF ClockInv, ClockTypeOK, Clocks, Directories
  <2>11. OneWrite' /\ NothingHeld' /\ MarkerFirst' /\ CoveredIsWritten'
    BY <1>2, <1>5, <2>1, <2>4, <2>5 DEF OneWrite, NothingHeld, MarkerFirst, CoveredIsWritten, Serves
  <2> QED
    BY <2>7, <2>8, <2>9, <2>10, <2>11 DEF ClockInv
<1> QED
  BY <1>6, <1>7, <1>8, <1>9

\* Every step keeps the invariant.
LEMMA ClockStep == ClockInv /\ [ClockNext]_clockVars => ClockInv'
<1> SUFFICES ASSUME ClockInv, [ClockNext]_clockVars PROVE ClockInv'
  OBVIOUS
<1>1. CASE Abandon \/ Die
  BY <1>1, ProcessEndsKeeps DEF Abandon, Die
<1>2. CASE StepWall \/ UNCHANGED clockVars
  <2>1. /\ wall' \in 0..MaxWall
        /\ UNCHANGED <<proc, run, clk, signer, valueTimer, inflight, state, possibleStates, bare, kept>>
    BY <1>2 DEF StepWall, clockVars, ClockInv, ClockTypeOK
  <2> QED
    BY <2>1
    DEF ClockInv, ClockTypeOK, OneWrite, NothingHeld, MarksInOrder, CoveredIsWritten, MarkerFirst,
        CoverageIsDurable, AlwaysAdoptable, Adoptable, Holds, Serves
<1>3. CASE \E r \in MarkResults: WriteMarker(r)
  BY <1>3, WriteMarkerKeeps
<1>4. CASE \E w \in inflight, r \in MarkResults: PersistEnds(w, r)
  BY <1>4, PersistEndsKeeps
<1>5. CASE \E s \in Signers: Next(s) \/ ValueBound(s)
  BY <1>5, NextKeeps, ValueBoundKeeps
<1>6. CASE Acquire \/ Start \/ StartBound \/ WriteBound \/ RetryWrite \/ StopSigning \/ Release \/ LosePower
  BY <1>6, AcquireKeeps, StartKeeps, StartBoundKeeps, WriteBoundKeeps, RetryWriteKeeps,
     StopSigningKeeps, ReleaseKeeps, LosePowerKeeps
<1> QED
  BY <1>1, <1>2, <1>3, <1>4, <1>5, <1>6 DEF ClockNext

\* The invariant holds throughout.
LEMMA ClockInvariant == ClockSpec => []ClockInv
  BY ClockStarts, ClockStep, PTL DEF ClockSpec

\* A covered value is at or below the mark of every directory that any crash,
\* failed write or power loss may leave (Next, Persist).
THEOREM CoverageDurable == ClockSpec => []CoverageIsDurable
<1>1. ClockInv => CoverageIsDurable
  BY DEF ClockInv
<1> QED
  BY ClockInvariant, <1>1, PTL

\* While no episode is open every value issued is covered (Degraded).
THEOREM DegradedIsReported == ClockSpec => []DegradedUnlessCovered
<1>1. ClockInv => DegradedUnlessCovered
  BY DEF ClockInv, MarksInOrder, Holds, DegradedUnlessCovered
<1> QED
  BY ClockInvariant, <1>1, PTL

\* Whatever a start, a stop, a crash or a power loss left of it, the next start
\* accepts the directory (ensureMarker).
THEOREM DirectoryAdoptable == ClockSpec => []AlwaysAdoptable
<1>1. ClockInv => AlwaysAdoptable
  BY DEF ClockInv
<1> QED
  BY ClockInvariant, <1>1, PTL

\* No write of one run is under way once the directory is free for the next
\* (QuiesceSigning before owner.Close).
THEOREM HoldOutlivesWrites == ClockSpec => []NoWriteOutlivesItsHold
<1>1. ClockInv => NoWriteOutlivesItsHold
  BY DEF ClockInv, OneWrite, Holds, NoWriteOutlivesItsHold
<1> QED
  BY ClockInvariant, <1>1, PTL

\* A value issued while the clock serves is past every value kept.
LEMMA IssuesPast ==
    ASSUME ClockInv, ClockNext, proc = "up", proc' = "up", clk'.last # clk.last
    PROVE  clk'.last \notin kept
<1>1. Holds /\ clk \in Clocks /\ clk.last \in Nat
  BY Typed DEF Holds, Clocks
<1>2. \A v \in kept: v \in Nat /\ v <= clk.last
  BY <1>1, Typed DEF ClockInv, MarksInOrder
<1>3. ASSUME NEW s \in Signers, Next(s) PROVE clk'.last > clk.last
  <2> DEFINE at == Later(wall, clk.last + 1)
             mark == ReservationFor(wall, at)
  <2>1. at \in Nat /\ at > clk.last
    BY <1>1, Typed DEF Later
  <2>2. mark \in Nat
    BY <2>1, ReservationIsAMark
  <2>3. PICK c \in {clk, StartWrite(clk, mark)}: clk' = c \/ clk' = [c EXCEPT !.last = at]
    BY <1>3 DEF Next
  <2> HIDE DEF at, mark
  <2>4. c \in Clocks /\ c.last = clk.last
    BY <1>1, <2>2, <2>3, StartWriteKeeps
  <2>5. clk' = [c EXCEPT !.last = at]
    BY <2>3, <2>4
  <2> QED
    BY <2>1, <2>4, <2>5 DEF Clocks
<1>4. ASSUME NEW s \in Signers, ValueBound(s) PROVE FALSE
  BY <1>1, <1>4, OpenEpisodeKeeps DEF ValueBound, SameMarks
<1>5. ASSUME WriteBound PROVE FALSE
  BY <1>1, <1>5, OpenEpisodeKeeps DEF WriteBound, SameMarks
<1>6. ASSUME RetryWrite PROVE FALSE
  <2> DEFINE mark == ReservationFor(wall, clk.last)
  <2>1. mark \in Nat
    BY <1>1, ReservationIsAMark
  <2>2. PICK c \in {clk, StartWrite(clk, mark)}: clk' = [c EXCEPT !.retry = FALSE]
    BY <1>6, Zenon DEF RetryWrite
  <2> HIDE DEF mark
  <2>3. c \in Clocks /\ c.last = clk.last
    BY <1>1, <2>1, <2>2, StartWriteKeeps
  <2> QED
    BY <2>2, <2>3 DEF Clocks
<1>7. ASSUME NEW w \in inflight, NEW r \in MarkResults, PersistEnds(w, r) PROVE FALSE
  <2>1. w.mark \in Nat /\ w.run = run /\ r \in {"ok", "failed", "unsynced"}
    BY WrittenIsPast, ClockAssumption
  <2>2. clk' = TakeOutcome(clk, w.mark, r)
    BY <1>7, <2>1 DEF PersistEnds
  <2>3. clk'.last = clk.last
    BY <1>1, <2>1, <2>2, TakeOutcomeKeeps, Zenon
  <2> QED
    BY <2>3
<1>8. PICK s \in Signers: Next(s)
  BY <1>4, <1>5, <1>6, <1>7
  DEF ClockNext, Acquire, Start, StartBound, StopSigning, Release, Abandon, Die, ProcessEnds,
      LosePower, StepWall, WriteMarker
<1>9. clk'.last > clk.last /\ clk'.last \in Nat
  <2>1. ClockInv'
    BY <1>8, NextKeeps
  <2> QED
    BY <1>3, <1>8, <2>1 DEF ClockInv, ClockTypeOK
<1> QED
  BY <1>1, <1>2, <1>9

\* No value is issued again, in this run or any later one, that was covered when
\* it was issued or has been covered since (Next).
THEOREM NoTimeRepeats == ClockSpec => SigningTimesNeverRepeat
<1>1. ClockInv /\ [ClockNext]_clockVars
        => [proc = "up" /\ proc' = "up" /\ clk'.last # clk.last => clk'.last \notin kept]_clockVars
  BY IssuesPast DEF clockVars
<1> QED
  BY ClockInvariant, <1>1, PTL DEF ClockSpec, SigningTimesNeverRepeat

-----------------------------------------------------------------------------
(* The evidence clock.                                                      *)

\* The mark on disk is at or past every value issued, in whatever directory a
\* power loss may leave, and so is what a running clock resumed from.
IssuedInv ==
    /\ EvidenceClockTypeOK
    /\ IssuedIsPersisted
    /\ opened => greatest <= last

\* A fresh directory satisfies it.
LEMMA IssuedInit == EvidenceClockInit => IssuedInv
<1> SUFFICES ASSUME EvidenceClockInit PROVE IssuedInv
  OBVIOUS
<1>1. now \in Nat
  BY EvidenceClockAssumption DEF EvidenceClockInit
<1>2. opened \in BOOLEAN /\ ~opened
  BY Zenon DEF EvidenceClockInit
<1>3. last = 0 /\ file = 0 /\ possibleFiles = {0} /\ greatest = -1
  BY DEF EvidenceClockInit
<1> QED
  BY <1>1, <1>2, <1>3 DEF IssuedInv, EvidenceClockTypeOK, IssuedIsPersisted

\* The time signed with is later than the last one of this process.
LEMMA SigningTimeIsLater ==
    ASSUME EvidenceClockTypeOK
    PROVE  SigningTime \in Nat /\ SigningTime > last
  BY DEF EvidenceClockTypeOK, SigningTime

\* Every step keeps it.
LEMMA IssuedStep == IssuedInv /\ [EvidenceClockNext]_evidenceClockVars => IssuedInv'
<1> SUFFICES ASSUME IssuedInv, [EvidenceClockNext]_evidenceClockVars PROVE IssuedInv'
  OBVIOUS
<1> USE DEF IssuedInv, EvidenceClockTypeOK, IssuedIsPersisted
<1>t. SigningTime \in Nat /\ SigningTime > last
  BY SigningTimeIsLater
<1>1. CASE OpenClock
  BY <1>1 DEF OpenClock
<1>2. CASE EndProcess
  <2>1. opened' \in BOOLEAN /\ ~opened'
    BY <1>2, Zenon DEF EndProcess
  <2>2. opened /\ last' = 0 /\ now' = now /\ greatest' = greatest
        /\ file' \in {file, SigningTime} /\ possibleFiles' = possibleFiles \cup {file'}
    BY <1>2 DEF EndProcess
  <2> QED
    BY <2>1, <2>2, <1>t
<1>3. CASE LoseFiles
  BY <1>3 DEF LoseFiles
<1>4. CASE MoveNow
  BY <1>4, EvidenceClockAssumption DEF MoveNow
<1>5. ASSUME NEW r \in ClockResults, NextSigned(r) PROVE IssuedInv'
  <2>1. r \in {"ok", "failed", "unsynced"}
    BY EvidenceClockAssumption
  <2>2. CASE r = "ok"
    BY <1>5, <1>t, <2>2 DEF NextSigned, Issues
  <2>3. CASE r = "unsynced"
    BY <1>5, <1>t, <2>3 DEF NextSigned, Issues
  <2>4. CASE r = "failed"
    BY <1>5, <1>t, <2>4 DEF NextSigned, Issues
  <2> QED
    BY <2>1, <2>2, <2>3, <2>4
<1>6. CASE UNCHANGED evidenceClockVars
  BY <1>6 DEF evidenceClockVars
<1> QED
  BY <1>1, <1>2, <1>3, <1>4, <1>5, <1>6 DEF EvidenceClockNext

\* Whatever directory a crash or power loss leaves, its mark is at or past every
\* value issued (persist completes before Next returns).
THEOREM IssuedPersisted == EvidenceClockSpec => []IssuedIsPersisted
<1>1. IssuedInv => IssuedIsPersisted
  BY DEF IssuedInv
<1> QED
  BY IssuedInit, IssuedStep, <1>1, PTL DEF EvidenceClockSpec

\* A step that moves a running clock issues a value past every earlier one.
LEMMA MovesPast ==
    ASSUME IssuedInv, EvidenceClockNext, opened, opened', last' # last
    PROVE  last' > greatest
<1> USE DEF IssuedInv, EvidenceClockTypeOK
<1>1. PICK r \in ClockResults: NextSigned(r)
  BY DEF EvidenceClockNext, OpenClock, EndProcess, LoseFiles, MoveNow
<1>2. last' = SigningTime
  BY <1>1 DEF NextSigned
<1> QED
  BY <1>2, SigningTimeIsLater

\* Every value issued is later than every value issued before it, across
\* restarts, power losses, failed writes and clock steps (Next).
THEOREM EachIsLater == EvidenceClockSpec => EachValueIsLater
<1>1. IssuedInv /\ [EvidenceClockNext]_evidenceClockVars
        => [opened /\ opened' /\ last' # last => last' > greatest]_evidenceClockVars
  BY MovesPast DEF evidenceClockVars
<1> QED
  BY IssuedInit, IssuedStep, <1>1, PTL DEF EvidenceClockSpec, EachValueIsLater

-----------------------------------------------------------------------------
(* The replay window.                                                       *)

\* An envelope applied is held or below the floor, and none was applied twice.
WindowInv ==
    /\ WindowTypeOK
    /\ AppliedIsRemembered
    /\ AppliedOnce

\* A run starts with nothing applied.
LEMMA WindowStarts == WindowInit => WindowInv
  BY WindowAssumption
  DEF WindowInit, WindowInv, WindowTypeOK, AppliedIsRemembered, AppliedOnce

\* Dropping keys never lowers the floor and leaves it past each of them
\* (replayState.drop).
LEMMA RaisedIsPast ==
    ASSUME NEW f \in Nat, NEW D \in SUBSET Envelopes, NEW n \in RaisedPast(f, D)
    PROVE  n \in Nat /\ n >= f /\ \A e \in D: SignedAt[e] < n
<1>1. \A e \in Envelopes: SignedAt[e] \in Nat
  BY WindowAssumption
<1> QED
  BY <1>1 DEF RaisedPast

\* Verify keeps it: a key leaves the keys held only as the floor passes it, and
\* an envelope at or past the floor that is not held was never applied.
LEMMA VerifyKeeps ==
    ASSUME WindowInv, NEW e \in Envelopes, NEW applies \in BOOLEAN, Verify(e, applies)
    PROVE  WindowInv'
<1> DEFINE left == held \ Due
<1> USE DEF WindowInv, WindowTypeOK
<1>s. \A x \in Envelopes: SignedAt[x] \in Nat
  BY WindowAssumption
<1>d. Due \subseteq held /\ Due \in SUBSET Envelopes
  BY DEF Due
<1>1. PICK pruned \in RaisedPast(floor, Due):
        /\ latest' = Greater(latest, t)
        /\ \/ /\ Fresh(e) /\ SignedAt[e] >= pruned /\ e \notin left /\ applies
              /\ \E out \in Evictable(left):
                   /\ floor' \in RaisedPast(pruned, out)
                   /\ held' = (left \ out) \cup {e}
                   /\ evicted' = evicted \cup out
              /\ receivedAt' = [receivedAt EXCEPT ![e] = t]
              /\ applied' = [applied EXCEPT ![e] = @ + 1]
           \/ /\ floor' = pruned /\ held' = left
              /\ UNCHANGED <<receivedAt, applied, evicted>>
        /\ UNCHANGED <<t, started>>
  BY Zenon DEF Verify
<1>2. pruned \in Nat /\ pruned >= floor /\ \A x \in Due: SignedAt[x] < pruned
  BY <1>d, RaisedIsPast
<1>3. \A x \in Envelopes: applied[x] > 0 => x \in left \/ SignedAt[x] < pruned
  BY <1>s, <1>2 DEF AppliedIsRemembered
<1>l. latest' \in Nat /\ t' \in Nat /\ started' \in Nat
  BY <1>1 DEF Greater
<1>4. CASE /\ SignedAt[e] >= pruned /\ e \notin left
           /\ \E out \in Evictable(left):
                /\ floor' \in RaisedPast(pruned, out)
                /\ held' = (left \ out) \cup {e}
                /\ evicted' = evicted \cup out
           /\ receivedAt' = [receivedAt EXCEPT ![e] = t]
           /\ applied' = [applied EXCEPT ![e] = @ + 1]
  <2>1. PICK out \in Evictable(left):
          /\ floor' \in RaisedPast(pruned, out)
          /\ held' = (left \ out) \cup {e}
          /\ evicted' = evicted \cup out
    BY <1>4
  <2>2. out \in SUBSET Envelopes
    BY <2>1 DEF Evictable
  <2>3. floor' \in Nat /\ floor' >= pruned /\ \A x \in out: SignedAt[x] < floor'
    BY <2>1, <2>2, <1>2, RaisedIsPast
  <2>4. applied[e] = 0
    BY <1>3, <1>4, <1>2, <1>s
  <2>5. AppliedOnce'
    BY <1>4, <2>4 DEF AppliedOnce
  <2>6. AppliedIsRemembered'
    BY <1>3, <1>4, <1>s, <1>2, <2>1, <2>3 DEF AppliedIsRemembered
  <2>7. WindowTypeOK'
    BY <1>l, <1>4, <2>1, <2>2, <2>3
  <2> QED
    BY <2>5, <2>6, <2>7
<1>5. CASE floor' = pruned /\ held' = left /\ UNCHANGED <<receivedAt, applied, evicted>>
  <2>1. WindowTypeOK'
    BY <1>5, <1>l, <1>2
  <2>2. AppliedIsRemembered' /\ AppliedOnce'
    BY <1>5, <1>3, <1>2 DEF AppliedIsRemembered, AppliedOnce
  <2> QED
    BY <2>1, <2>2
<1> QED
  BY <1>1, <1>4, <1>5

\* Every step keeps it: a restart forgets what was applied with the floor and the
\* keys, and a clock step touches neither.
LEMMA WindowStep == WindowInv /\ [WindowNext]_windowVars => WindowInv'
<1> SUFFICES ASSUME WindowInv, [WindowNext]_windowVars PROVE WindowInv'
  OBVIOUS
<1>1. CASE \E e \in Envelopes, applies \in BOOLEAN: Verify(e, applies)
  BY <1>1, VerifyKeeps
<1>2. CASE Restart
  BY <1>2 DEF Restart, WindowInv, WindowTypeOK, AppliedIsRemembered, AppliedOnce
<1>3. CASE StepClock
  BY <1>3, WindowAssumption
  DEF StepClock, WindowInv, WindowTypeOK, AppliedIsRemembered, AppliedOnce
<1>4. CASE UNCHANGED windowVars
  BY <1>4 DEF windowVars, WindowInv, WindowTypeOK, AppliedIsRemembered, AppliedOnce
<1> QED
  BY <1>1, <1>2, <1>3, <1>4 DEF WindowNext

\* No envelope is applied twice in a run, however often it is delivered, whatever
\* was dropped and however the clock moved (checkFreshAndRecord).
THEOREM NeverAppliedTwice == WindowSpec => []AppliedOnce
<1>1. WindowInv => AppliedOnce
  BY DEF WindowInv
<1> QED
  BY WindowStarts, WindowStep, <1>1, PTL DEF WindowSpec

-----------------------------------------------------------------------------
\* The floor is where it was or one past a key dropped.
LEMMA RaisedTo ==
    ASSUME NEW f, NEW D, NEW n \in RaisedPast(f, D)
    PROVE  n = f \/ \E e \in D: n = SignedAt[e] + 1
  BY DEF RaisedPast

\* What a clock has passed, a later clock has.
LEMMA LaterIsFurther ==
    ASSUME NEW n \in Nat, NEW a \in Nat, NEW b \in Nat, NEW k \in Nat, n <= a - k, b >= a
    PROVE  n <= b - k
  OBVIOUS

\* Dropping the keys whose retention has ended raises the floor no further than
\* what is stale by now; making room raises it one past a key evicted.
LEMMA VerifyHasACause ==
    ASSUME WindowTypeOK, FloorHasACause,
           NEW e \in Envelopes, NEW applies \in BOOLEAN, Verify(e, applies)
    PROVE  FloorHasACause'
<1> DEFINE left == held \ Due
<1> USE DEF WindowTypeOK
<1>s. Skew \in Nat /\ ReplayTTL \in Nat /\ \A x \in Envelopes: SignedAt[x] \in Nat
  BY WindowAssumption
<1>1. PICK pruned \in RaisedPast(floor, Due):
        /\ latest' = Greater(latest, t)
        /\ \/ /\ \E out \in Evictable(left):
                   /\ floor' \in RaisedPast(pruned, out)
                   /\ evicted' = evicted \cup out
           \/ floor' = pruned /\ evicted' = evicted
        /\ started' = started
  BY Zenon DEF Verify
<1>2. latest' \in Nat /\ latest' >= latest /\ latest' >= t
  BY <1>1 DEF Greater
<1>d. Due \in SUBSET Envelopes
  BY DEF Due
<1>n. pruned \in Nat
  BY <1>d, RaisedIsPast
<1>3. \/ pruned <= started \/ pruned <= latest' - Skew
      \/ \E x \in evicted: pruned = SignedAt[x] + 1
  <2>1. CASE pruned = floor
    <3>1. floor <= latest - Skew => floor <= latest' - Skew
      BY <1>2, <1>s, LaterIsFurther, Zenon
    <3> QED
      BY <3>1, <2>1 DEF FloorHasACause
  <2>2. ASSUME NEW x \in Due, pruned = SignedAt[x] + 1 PROVE pruned <= latest' - Skew
    <3>1. /\ SignedAt[x] \in Nat /\ receivedAt[x] \in Nat
          /\ SignedAt[x] + Skew + 1 <= t
      BY <1>s, <1>d DEF Due, DropAt, Greater
    <3> QED
      BY <3>1, <2>2, <1>2, <1>s
  <2> QED
    BY <2>1, <2>2, RaisedTo
<1>4. CASE floor' = pruned /\ evicted' = evicted
  BY <1>1, <1>3, <1>4 DEF FloorHasACause
<1>5. ASSUME NEW out \in Evictable(left), floor' \in RaisedPast(pruned, out),
             evicted' = evicted \cup out
      PROVE  FloorHasACause'
  BY <1>1, <1>3, <1>5, RaisedTo DEF FloorHasACause
<1> QED
  BY <1>1, <1>4, <1>5, Zenon

\* Every step leaves the floor with a cause.
LEMMA CauseStep ==
    WindowInv /\ FloorHasACause /\ [WindowNext]_windowVars => FloorHasACause'
<1> SUFFICES ASSUME WindowInv, FloorHasACause, [WindowNext]_windowVars
             PROVE  FloorHasACause'
  OBVIOUS
<1>1. CASE \E e \in Envelopes, applies \in BOOLEAN: Verify(e, applies)
  BY <1>1, VerifyHasACause DEF WindowInv
<1>2. CASE Restart
  BY <1>2 DEF Restart, FloorHasACause, WindowInv, WindowTypeOK
<1>3. CASE StepClock
  BY <1>3 DEF StepClock, FloorHasACause
<1>4. CASE UNCHANGED windowVars
  BY <1>4 DEF windowVars, FloorHasACause
<1> QED
  BY <1>1, <1>2, <1>3, <1>4 DEF WindowNext

\* The floor refuses a fresh envelope only after a restart, a clock that stepped
\* back, or an eviction (floorAheadWarning).
THEOREM FloorIsExplained == WindowSpec => []FloorHasACause
<1>1. WindowInit => FloorHasACause
  BY WindowAssumption DEF WindowInit, FloorHasACause
<1> QED
  BY WindowStarts, WindowStep, <1>1, CauseStep, PTL DEF WindowSpec
=============================================================================
