---------------------------- MODULE DurableQueue ----------------------------
(***************************************************************************)
(* The durable artifact queue of the evidence courier                       *)
(* (internal/evidence/courier: queue.go, hold.go, probe.go).                *)
(*                                                                         *)
(* A queue is a private directory of independently atomic files: one        *)
(* record per artifact, and beside a record at most one hold and one        *)
(* back-off.  The process keeps an index of that directory in memory; a      *)
(* start rebuilds the index from the files and refuses a directory that      *)
(* does not add up.  The outbound queue and the return queue are two         *)
(* instances of the same code.                                              *)
(*                                                                         *)
(* Every change of a file is a rename or an unlink followed by a directory  *)
(* fsync.  `disk' is the directory as the running system sees it;           *)
(* `possible' is the set of directories a power loss may leave: the ones     *)
(* passed through since the last successful fsync.                          *)
(*                                                                         *)
(* Definitions marked Mutant are wrong on purpose: each stands in for the    *)
(* definition after it to show that a property notices.                     *)
(***************************************************************************)
EXTENDS Naturals, FiniteSets

CONSTANTS
    None,           \* no artifact
    Artifacts,      \* queue record ids: one id per artifact type and bytes
    Devices,        \* the configured devices (gateway.device_ids)
    DeviceOf,       \* the routing device_id of each artifact
    KindOf,         \* the carriage type of each artifact
    MaxItems,       \* evidence.max_items
    Reserved,       \* QueueOptions.ReserveDeviceShares
    MaxAttempts,    \* maxBackoffAttempts; bounds the persisted attempt count
    MaxSeq,         \* bound on queue_seq, for TLC only
    MaxPossible,    \* bound on the directories a power loss may leave, for TLC only
    Results         \* outcomes of a durable write that the filesystem may give

Kinds == {"anchor_registration", "delivery_envelope", "checkpoint"}
Lanes == {"registration", "evidence"}

\* A write is durable, fails with nothing changed, or changes the directory
\* and then fails in SyncDirectory.
WriteResults == {"ok", "failed", "unsynced"}

ASSUME ArtifactsAssumption ==
    /\ None \notin Artifacts
    /\ IsFiniteSet(Artifacts)
    /\ IsFiniteSet(Devices)
    /\ DeviceOf \in [Artifacts -> Devices]
    /\ KindOf \in [Artifacts -> Kinds]

ASSUME BoundsAssumption ==
    /\ MaxItems \in Nat \ {0}
    /\ Reserved \in BOOLEAN
    /\ MaxAttempts \in Nat \ {0}
    /\ MaxSeq \in Nat
    /\ MaxPossible \in Nat

ASSUME ResultsAssumption == Results \subseteq WriteResults /\ "ok" \in Results

VARIABLES
    open,       \* whether a process has the queue open
    entries,    \* q.entries and q.order: the queue_seq of each indexed record
    nextSeq,    \* q.nextSeq
    holds,      \* q.holds
    backoffs,   \* q.backoffs: the attempt count of each indexed back-off
    rm,         \* the retirement in progress under q.mu
    storeFault, \* store_unavailable of this store
    probe,      \* the outcome of a probe that has not been noted yet
    disk,       \* the directory
    possible,   \* the directories a power loss may leave
    slipped,    \* history: a change took effect and its directory sync failed
    custody     \* history: records whose Enqueue returned and whose Remove has not begun

memory == <<open, entries, nextSeq, holds, backoffs, rm, storeFault, probe>>
storage == <<disk, possible, slipped>>
queueVars == <<memory, storage, custody>>

NoSeq == 0
NoBackoff == 0
Nowhere == [a \in Artifacts |-> NoSeq]
NoBackoffs == [a \in Artifacts |-> NoBackoff]

Directories == [rec : [Artifacts -> 0..MaxSeq], hold : SUBSET Artifacts,
                back : [Artifacts -> 0..MaxAttempts]]

EmptyDirectory == [rec |-> Nowhere, hold |-> {}, back |-> NoBackoffs]

RemoveSteps == {"hold", "backoff", "record", "restore"}
NotRemoving == [step |-> "none", id |-> None]
Removals == {NotRemoving} \cup [step : RemoveSteps, id : Artifacts]

-----------------------------------------------------------------------------
(* The files of a directory.                                               *)

Recorded(d) == {a \in Artifacts : d.rec[a] # NoSeq}
BackedOff(d) == {a \in Artifacts : d.back[a] # NoBackoff}

WithRecord(d, a, seq) == [d EXCEPT !.rec[a] = seq]
WithHold(d, a) == [d EXCEPT !.hold = @ \cup {a}]
WithoutHold(d, a) == [d EXCEPT !.hold = @ \ {a}]
WithBackoff(d, a, n) == [d EXCEPT !.back[a] = n]

\* A file change that no fsync has committed yet.
Expose(d) ==
    /\ disk' = d /\ possible' = possible \cup {d}
    /\ Cardinality(possible') <= MaxPossible

\* Mutant: success is reported before the directory is synced.
WriteWithoutSync(d, res) ==
    /\ \/ res \in {"ok", "unsynced"} /\ Expose(d)
       \/ res = "failed" /\ UNCHANGED <<disk, possible>>
    /\ slipped' = (slipped \/ res = "unsynced")

\* One file change committed by SyncDirectory, or not.
Write(d, res) ==
    /\ \/ res = "ok" /\ disk' = d /\ possible' = {d}
       \/ res = "failed" /\ UNCHANGED <<disk, possible>>
       \/ res = "unsynced" /\ Expose(d)
    /\ slipped' = (slipped \/ res = "unsynced")

\* noteStore: a failure raises store_unavailable, a success leaves it alone.
NoteStore(res) == storeFault' = (storeFault \/ res # "ok")

-----------------------------------------------------------------------------
(* Lanes and capacity.                                                     *)

LaneOf(a) == IF KindOf[a] = "anchor_registration" THEN "registration" ELSE "evidence"
LaneKey(a) == <<DeviceOf[a], LaneOf(a)>>
LaneKeys == Devices \X Lanes

Queued == {a \in Artifacts : entries[a] # NoSeq}
LaneItems(k) == {a \in Queued : LaneKey(a) = k}
DeviceItems(d) == {a \in Queued : DeviceOf[a] = d}

ShareItems == IF Reserved THEN MaxItems \div Cardinality(Devices) ELSE MaxItems

\* OpenDurableQueue refuses to reserve shares without configured devices or below
\* MinDeviceShareItems, which is 2.
ASSUME ShareAssumption == Reserved => Devices # {} /\ ShareItems >= 2

\* Mutant: evidence may fill the whole share.
LaneShareWithoutReserve(a) == Cardinality(DeviceItems(DeviceOf[a])) >= ShareItems

LaneShareRefusal(a) ==
    \/ Cardinality(DeviceItems(DeviceOf[a])) >= ShareItems
    \/ /\ Reserved /\ LaneOf(a) # "registration"
       /\ Cardinality(LaneItems(LaneKey(a))) >= ShareItems - 1

Full(a) == Cardinality(Queued) >= MaxItems \/ LaneShareRefusal(a)

\* PeekLane: the oldest record of a lane.
IsHead(a, k) ==
    /\ a \in LaneItems(k)
    /\ \A b \in LaneItems(k) : entries[a] <= entries[b]

-----------------------------------------------------------------------------
(* Opening the queue.                                                      *)

\* What load accepts: distinct sequence numbers, the item bound, and no hold or
\* back-off without its record.
Loadable(d) ==
    /\ \A a, b \in Recorded(d) : d.rec[a] = d.rec[b] => a = b
    /\ Cardinality(Recorded(d)) <= MaxItems
    /\ d.hold \subseteq Recorded(d)
    /\ BackedOff(d) \subseteq Recorded(d)

\* Mutant: resumes after the number of records.
IsCountOfRecords(n, d) == n = Cardinality(Recorded(d)) + 1

IsNextSeq(n, d) ==
    /\ \A a \in Artifacts : d.rec[a] < n
    /\ n = 1 \/ \E a \in Artifacts : d.rec[a] = n - 1

\* load, then one Probe: the probe replaces its own file and syncs the directory.
Open(res) ==
    /\ ~open /\ Loadable(disk)
    /\ open' = TRUE
    /\ entries' = disk.rec /\ holds' = disk.hold /\ backoffs' = disk.back
    /\ \E n \in 1..(MaxSeq + 1) : IsNextSeq(n, disk) /\ nextSeq' = n
    /\ storeFault' = (res # "ok")
    /\ possible' = IF res = "ok" THEN {disk} ELSE possible
    /\ UNCHANGED <<disk, slipped, rm, probe, custody>>

-----------------------------------------------------------------------------
(* Operations, each under q.mu.                                            *)

Unlocked == open /\ rm = NotRemoving

CanInsert(a) == Unlocked /\ entries[a] = NoSeq /\ ~Full(a) /\ nextSeq <= MaxSeq

\* insertLocked; an id already queued or a full queue changes nothing.
Enqueue(a, res) ==
    /\ CanInsert(a)
    /\ Write(WithRecord(disk, a, nextSeq), res)
    /\ NoteStore(res)
    /\ IF res = "ok"
       THEN /\ entries' = [entries EXCEPT ![a] = nextSeq]
            /\ nextSeq' = nextSeq + 1
            /\ custody' = custody \cup {a}
       ELSE UNCHANGED <<entries, nextSeq, custody>>
    /\ UNCHANGED <<open, holds, backoffs, rm, probe>>

Hold(a, res) ==
    /\ Unlocked /\ a \in Queued
    /\ Write(WithHold(disk, a), res)
    /\ NoteStore(res)
    /\ holds' = IF res = "ok" THEN holds \cup {a} ELSE holds
    /\ UNCHANGED <<open, entries, nextSeq, backoffs, rm, probe, custody>>

SetBackoff(a, n, res) ==
    /\ Unlocked /\ a \in Queued
    /\ Write(WithBackoff(disk, a, n), res)
    /\ NoteStore(res)
    /\ backoffs' = IF res = "ok" THEN [backoffs EXCEPT ![a] = n] ELSE backoffs
    /\ UNCHANGED <<open, entries, nextSeq, holds, rm, probe, custody>>

\* A record without an indexed back-off is left alone.
ClearBackoff(a, res) ==
    /\ Unlocked /\ backoffs[a] # NoBackoff
    /\ Write(WithBackoff(disk, a, NoBackoff), res)
    /\ NoteStore(res)
    /\ backoffs' = IF res = "ok" THEN [backoffs EXCEPT ![a] = NoBackoff] ELSE backoffs
    /\ UNCHANGED <<open, entries, nextSeq, holds, rm, probe, custody>>

(***************************************************************************)
(* Remove: the hold, the back-off and the record go in this order, each     *)
(* synced before the next.  A sidecar the index does not know is skipped.   *)
(* A record whose unlink was not synced is written back.  The outcome is     *)
(* noted with the last step.                                                *)
(***************************************************************************)
RecordFirst(a) == "record"  \* Mutant: the record goes before its hold and back-off.

FirstRemoveStep(a) ==
    IF a \in holds THEN "hold" ELSE IF backoffs[a] # NoBackoff THEN "backoff" ELSE "record"

Remove(a) ==
    /\ Unlocked /\ a \in Queued
    /\ rm' = [step |-> FirstRemoveStep(a), id |-> a]
    /\ custody' = custody \ {a}
    /\ UNCHANGED <<open, entries, nextSeq, holds, backoffs, storeFault, probe, storage>>

RemoveHold(res) ==
    /\ open /\ rm.step = "hold"
    /\ Write(WithoutHold(disk, rm.id), res)
    /\ NoteStore(res)
    /\ IF res = "ok"
       THEN /\ holds' = holds \ {rm.id}
            /\ rm' = [rm EXCEPT !.step = IF backoffs[rm.id] # NoBackoff THEN "backoff" ELSE "record"]
       ELSE holds' = holds /\ rm' = NotRemoving
    /\ UNCHANGED <<open, entries, nextSeq, backoffs, probe, custody>>

RemoveBackoff(res) ==
    /\ open /\ rm.step = "backoff"
    /\ Write(WithBackoff(disk, rm.id, NoBackoff), res)
    /\ NoteStore(res)
    /\ IF res = "ok"
       THEN /\ backoffs' = [backoffs EXCEPT ![rm.id] = NoBackoff]
            /\ rm' = [rm EXCEPT !.step = "record"]
       ELSE backoffs' = backoffs /\ rm' = NotRemoving
    /\ UNCHANGED <<open, entries, nextSeq, holds, probe, custody>>

\* The unlink of a file already gone fails.
RemoveRecord(res) ==
    /\ open /\ rm.step = "record"
    /\ disk.rec[rm.id] = NoSeq => res = "failed"
    /\ Write(WithRecord(disk, rm.id, NoSeq), res)
    /\ storeFault' = (storeFault \/ res = "failed")
    /\ entries' = IF res = "ok" THEN [entries EXCEPT ![rm.id] = NoSeq] ELSE entries
    /\ rm' = IF res = "unsynced" THEN [rm EXCEPT !.step = "restore"] ELSE NotRemoving
    /\ UNCHANGED <<open, nextSeq, holds, backoffs, probe, custody>>

\* Remove returns an error whether or not the record could be written back.
RestoreRecord(res) ==
    /\ open /\ rm.step = "restore"
    /\ Write(WithRecord(disk, rm.id, entries[rm.id]), res)
    /\ storeFault' = TRUE
    /\ rm' = NotRemoving
    /\ UNCHANGED <<open, entries, nextSeq, holds, backoffs, probe, custody>>

RemoveStep(res) ==
    RemoveHold(res) \/ RemoveBackoff(res) \/ RemoveRecord(res) \/ RestoreRecord(res)

\* Probe writes under q.mu and notes the outcome after releasing it.
ProbeStore(res) ==
    /\ Unlocked /\ probe = "none"
    /\ probe' = res
    /\ possible' = IF res = "ok" THEN {disk} ELSE possible
    /\ UNCHANGED <<open, entries, nextSeq, holds, backoffs, rm, storeFault, disk, slipped, custody>>

ProbeNote ==
    /\ open /\ probe # "none"
    /\ storeFault' = (probe # "ok")
    /\ probe' = "none"
    /\ UNCHANGED <<open, entries, nextSeq, holds, backoffs, rm, storage, custody>>

-----------------------------------------------------------------------------
(* Crashes.                                                                *)

\* The directories an operation may have exposed when the process dies between
\* its rename or unlink and its fsync.
InsertInFlight == {WithRecord(disk, a, nextSeq) : a \in {b \in Artifacts : CanInsert(b)}}

RemoveInFlight ==
    CASE rm.step = "hold" -> {WithoutHold(disk, rm.id)}
      [] rm.step = "backoff" -> {WithBackoff(disk, rm.id, NoBackoff)}
      [] rm.step = "record" -> {WithRecord(disk, rm.id, NoSeq)}
      [] rm.step = "restore" -> {WithRecord(disk, rm.id, entries[rm.id])}
      [] OTHER -> {}

SidecarInFlight ==
    IF Unlocked
    THEN {WithHold(disk, a) : a \in Queued}
           \cup {WithBackoff(disk, a, n) : a \in Queued, n \in 0..MaxAttempts}
    ELSE {}

InFlight == {disk} \cup InsertInFlight \cup RemoveInFlight \cup SidecarInFlight

Crash(d) ==
    /\ open
    /\ open' = FALSE
    /\ entries' = Nowhere /\ nextSeq' = 1 /\ holds' = {} /\ backoffs' = NoBackoffs
    /\ rm' = NotRemoving /\ storeFault' = FALSE /\ probe' = "none"
    /\ Expose(d)
    /\ UNCHANGED <<slipped, custody>>

\* Directory changes that were not synced are lost from some point on.
PowerLoss ==
    /\ ~open
    /\ \E d \in possible : disk' = d /\ possible' = {d}
    /\ UNCHANGED <<memory, slipped, custody>>

-----------------------------------------------------------------------------
Init ==
    /\ open = FALSE /\ entries = Nowhere /\ nextSeq = 1 /\ holds = {} /\ backoffs = NoBackoffs
    /\ rm = NotRemoving /\ storeFault = FALSE /\ probe = "none"
    /\ disk = EmptyDirectory /\ possible = {EmptyDirectory} /\ slipped = FALSE /\ custody = {}

Next ==
    \/ \E res \in Results :
         \/ Open(res) \/ RemoveStep(res) \/ ProbeStore(res)
         \/ \E a \in Artifacts :
              \/ Enqueue(a, res) \/ Hold(a, res) \/ ClearBackoff(a, res)
              \/ \E n \in 1..MaxAttempts : SetBackoff(a, n, res)
    \/ \E a \in Artifacts : Remove(a)
    \/ ProbeNote
    \/ \E d \in InFlight : Crash(d)
    \/ PowerLoss

Spec == Init /\ [][Next]_queueVars

-----------------------------------------------------------------------------
(* Properties.                                                             *)

\* Every variable has its type; the visible directory is one a power loss may
\* leave.
TypeOK ==
    /\ open \in BOOLEAN
    /\ entries \in [Artifacts -> 0..MaxSeq]
    /\ nextSeq \in 1..(MaxSeq + 1)
    /\ holds \subseteq Artifacts
    /\ backoffs \in [Artifacts -> 0..MaxAttempts]
    /\ rm \in Removals
    /\ storeFault \in BOOLEAN
    /\ probe \in WriteResults \cup {"none"}
    /\ disk \in Directories
    /\ possible \subseteq Directories /\ disk \in possible
    /\ slipped \in BOOLEAN
    /\ custody \subseteq Artifacts

\* An artifact whose Enqueue returned without error is on disk in every
\* directory a crash or a power loss may leave, under one sequence number, until
\* its retirement begins, and an open queue has it indexed: the boundary after
\* which a custody acknowledgement may be issued (DurableQueue, Enqueue).
CustodyIsDurable ==
    \A a \in custody :
        /\ disk.rec[a] # NoSeq
        /\ \A d \in possible : d.rec[a] = disk.rec[a]
        /\ open => entries[a] = disk.rec[a]

\* No failure, crash or power loss leaves a directory that the next start
\* refuses: no duplicate sequence, no hold or back-off without its record, no
\* bound exceeded (load, loadHolds, loadBackoffs).
Reopenable == \A d \in possible : Loadable(d)

\* The same, short of a directory sync that failed after its rename or unlink
\* took effect: no clean failure, crash or power loss at any point of an
\* operation leaves a directory that load refuses.
ReopenableUnlessSlipped == ~slipped => Reopenable

\* A configured device without a queued registration can always admit one: its
\* evidence, and the other devices, never fill the slot reserved for it
\* (laneShareRefusalLocked).
RegistrationReserve ==
    \A a \in Artifacts :
        (/\ open /\ LaneOf(a) = "registration"
         /\ LaneItems(<<DeviceOf[a], "registration">>) = {}) => ~Full(a)

\* A newly admitted record sorts behind every record already in custody, and a
\* record in custody keeps its place, across failures, crashes and restarts
\* (insertLocked, load, sortOrder): lane order is admission order.
AdmissionOrder ==
    [][\A a \in custody \cap custody' :
          /\ disk'.rec[a] = disk.rec[a]
          /\ \A b \in custody' \ custody : disk.rec[a] < disk'.rec[b]]_queueVars

\* While neither a probe nor a retirement is between its write and its note, an
\* open queue whose last directory changes were not synced reports
\* store_unavailable (noteStore, Probe): a fault stays active until the boundary
\* next succeeds.
UnsyncedIsReported ==
    (Unlocked /\ probe = "none" /\ possible # {disk}) => storeFault
=============================================================================
