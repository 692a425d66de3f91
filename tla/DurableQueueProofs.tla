-------------------------- MODULE DurableQueueProofs --------------------------
(***************************************************************************)
(* Proofs about the durable queue, for every set of artifacts and devices,   *)
(* every bound and every failure the filesystem may give.                    *)
(***************************************************************************)
EXTENDS DurableQueue, FiniteSetTheorems, TLAPS

\* A changed file leaves a well-formed directory.
LEMMA DirectoryChanges ==
    ASSUME NEW d \in Directories, NEW a \in Artifacts
    PROVE  /\ WithHold(d, a) \in Directories
           /\ WithoutHold(d, a) \in Directories
           /\ \A n \in 0..MaxAttempts : WithBackoff(d, a, n) \in Directories
           /\ \A seq \in 0..MaxSeq : WithRecord(d, a, seq) \in Directories
BY DEF WithHold, WithoutHold, WithBackoff, WithRecord, Directories

\* What a write leaves of the storage, whatever its outcome.
LEMMA WriteKeepsStorageType ==
    ASSUME NEW d \in Directories, NEW res, Write(d, res),
           disk \in Directories, possible \subseteq Directories, disk \in possible
    PROVE  /\ disk' \in Directories /\ possible' \subseteq Directories /\ disk' \in possible'
           /\ slipped' \in BOOLEAN
BY DEF Write, Expose

\* A crash leaves only well-formed directories behind.
LEMMA InFlightType ==
    ASSUME TypeOK, NEW d \in InFlight
    PROVE  d \in Directories
<1>1. disk \in Directories
  BY DEF TypeOK
<1>2. CASE d \in InsertInFlight
  <2>1. PICK a \in Artifacts : CanInsert(a) /\ d = WithRecord(disk, a, nextSeq)
    BY <1>2 DEF InsertInFlight
  <2>2. nextSeq \in 0..MaxSeq
    BY <2>1, BoundsAssumption DEF CanInsert, TypeOK
  <2> QED
    BY <1>1, <2>1, <2>2, DirectoryChanges
<1>3. CASE d \in RemoveInFlight
  <2>1. rm \in Removals /\ entries \in [Artifacts -> 0..MaxSeq]
    BY DEF TypeOK
  <2>2. rm.step \in RemoveSteps => rm.id \in Artifacts
    BY <2>1 DEF Removals, NotRemoving, RemoveSteps
  <2>3. 0 \in 0..MaxSeq /\ 0 \in 0..MaxAttempts
    BY BoundsAssumption
  <2> QED
    BY <1>1, <1>3, <2>1, <2>2, <2>3, DirectoryChanges DEF RemoveInFlight, RemoveSteps, NoSeq, NoBackoff
<1>4. CASE d \in SidecarInFlight
  BY <1>1, <1>4, DirectoryChanges DEF SidecarInFlight, Queued
<1> QED
  BY <1>1, <1>2, <1>3, <1>4 DEF InFlight

-----------------------------------------------------------------------------
(* Type correctness.                                                       *)

LEMMA TypeInit == Init => TypeOK
<1> SUFFICES ASSUME Init PROVE TypeOK
  OBVIOUS
<1>1. Nowhere \in [Artifacts -> 0..MaxSeq] /\ NoBackoffs \in [Artifacts -> 0..MaxAttempts]
  BY BoundsAssumption DEF Nowhere, NoBackoffs, NoSeq, NoBackoff
<1>2. EmptyDirectory \in Directories
  BY <1>1 DEF EmptyDirectory, Directories
<1>3. NotRemoving \in Removals
  BY DEF Removals
<1>4. nextSeq \in 1..(MaxSeq + 1)
  BY BoundsAssumption DEF Init
<1> QED
  BY <1>1, <1>2, <1>3, <1>4, Zenon DEF Init, TypeOK

LEMMA TypeStep == TypeOK /\ [Next]_queueVars => TypeOK'
<1> SUFFICES ASSUME TypeOK, [Next]_queueVars PROVE TypeOK'
  OBVIOUS
<1> USE BoundsAssumption, ResultsAssumption
<1>a. /\ disk \in Directories /\ possible \subseteq Directories /\ disk \in possible
      /\ 0 \in 0..MaxSeq /\ 0 \in 0..MaxAttempts
      /\ disk.rec \in [Artifacts -> 0..MaxSeq] /\ disk.hold \subseteq Artifacts
      /\ disk.back \in [Artifacts -> 0..MaxAttempts]
  BY DEF TypeOK, Directories
<1>b. rm.step \in RemoveSteps => rm.id \in Artifacts
  BY DEF TypeOK, Removals, NotRemoving, RemoveSteps
<1>1. ASSUME NEW res \in Results, Open(res) PROVE TypeOK'
  BY <1>1, <1>a DEF Open, TypeOK
<1>2. ASSUME NEW res \in Results, NEW a \in Artifacts, Enqueue(a, res) PROVE TypeOK'
  <2>1. nextSeq \in 0..MaxSeq /\ nextSeq + 1 \in 1..(MaxSeq + 1)
    BY <1>2 DEF Enqueue, CanInsert, TypeOK
  <2>2. /\ disk' \in Directories /\ possible' \subseteq Directories /\ disk' \in possible'
        /\ slipped' \in BOOLEAN
    BY <1>2, <1>a, <2>1, DirectoryChanges, WriteKeepsStorageType DEF Enqueue
  <2> QED
    BY <1>2, <2>1, <2>2 DEF Enqueue, NoteStore, TypeOK
<1>3. ASSUME NEW res \in Results, NEW a \in Artifacts, Hold(a, res) PROVE TypeOK'
  <2>1. /\ disk' \in Directories /\ possible' \subseteq Directories /\ disk' \in possible'
        /\ slipped' \in BOOLEAN
    BY <1>3, <1>a, DirectoryChanges, WriteKeepsStorageType DEF Hold
  <2> QED
    BY <1>3, <2>1 DEF Hold, NoteStore, TypeOK
<1>4. ASSUME NEW res \in Results, NEW a \in Artifacts, NEW n \in 1..MaxAttempts, SetBackoff(a, n, res)
      PROVE TypeOK'
  <2>0. n \in 0..MaxAttempts
    OBVIOUS
  <2>1. /\ disk' \in Directories /\ possible' \subseteq Directories /\ disk' \in possible'
        /\ slipped' \in BOOLEAN
    BY <1>4, <1>a, <2>0, DirectoryChanges, WriteKeepsStorageType DEF SetBackoff
  <2> QED
    BY <1>4, <2>0, <2>1 DEF SetBackoff, NoteStore, TypeOK
<1>5. ASSUME NEW res \in Results, NEW a \in Artifacts, ClearBackoff(a, res) PROVE TypeOK'
  <2>1. /\ disk' \in Directories /\ possible' \subseteq Directories /\ disk' \in possible'
        /\ slipped' \in BOOLEAN
    BY <1>5, <1>a, DirectoryChanges, WriteKeepsStorageType DEF ClearBackoff, NoBackoff
  <2> QED
    BY <1>5, <1>a, <2>1 DEF ClearBackoff, NoteStore, TypeOK, NoBackoff
<1>6. ASSUME NEW a \in Artifacts, Remove(a) PROVE TypeOK'
  BY <1>6 DEF Remove, FirstRemoveStep, storage, TypeOK, Removals, RemoveSteps
<1>7. ASSUME NEW res \in Results, RemoveStep(res) PROVE TypeOK'
  <2>1. rm.id \in Artifacts
    BY <1>7, <1>b DEF RemoveStep, RemoveHold, RemoveBackoff, RemoveRecord, RestoreRecord, RemoveSteps
  <2>2. /\ disk' \in Directories /\ possible' \subseteq Directories /\ disk' \in possible'
        /\ slipped' \in BOOLEAN
    <3>1. entries[rm.id] \in 0..MaxSeq
      BY <2>1 DEF TypeOK
    <3> QED
      BY <1>7, <1>a, <2>1, <3>1, DirectoryChanges, WriteKeepsStorageType
         DEF RemoveStep, RemoveHold, RemoveBackoff, RemoveRecord, RestoreRecord, NoSeq, NoBackoff
  <2>3. /\ NotRemoving \in Removals
        /\ \A s \in RemoveSteps : rm.step \in RemoveSteps => [rm EXCEPT !.step = s] \in Removals
    <3>1. rm.step \in RemoveSteps => rm \in [step : RemoveSteps, id : Artifacts]
      BY DEF TypeOK, Removals, NotRemoving, RemoveSteps
    <3> QED
      BY <3>1 DEF Removals
  <2>4. rm' \in Removals
    BY <1>7, <2>3 DEF RemoveStep, RemoveHold, RemoveBackoff, RemoveRecord, RestoreRecord, RemoveSteps
  <2>5. /\ entries' \in [Artifacts -> 0..MaxSeq]
        /\ holds' \subseteq Artifacts
        /\ backoffs' \in [Artifacts -> 0..MaxAttempts]
    BY <1>7, <1>a, <2>1
       DEF RemoveStep, RemoveHold, RemoveBackoff, RemoveRecord, RestoreRecord, TypeOK, NoSeq, NoBackoff
  <2>6. UNCHANGED <<open, nextSeq, probe, custody>> /\ storeFault' \in BOOLEAN
    BY <1>7, Zenon DEF RemoveStep, RemoveHold, RemoveBackoff, RemoveRecord, RestoreRecord, NoteStore, TypeOK
  <2> QED
    BY <2>2, <2>4, <2>5, <2>6 DEF TypeOK
<1>8. ASSUME NEW res \in Results, ProbeStore(res) PROVE TypeOK'
  BY <1>8, <1>a DEF ProbeStore, TypeOK
<1>9. CASE ProbeNote
  BY <1>9 DEF ProbeNote, TypeOK, storage
<1>10. ASSUME NEW d \in InFlight, Crash(d) PROVE TypeOK'
  <2>1. d \in Directories
    BY InFlightType
  <2>2. Nowhere \in [Artifacts -> 0..MaxSeq] /\ NoBackoffs \in [Artifacts -> 0..MaxAttempts]
    BY <1>a DEF Nowhere, NoBackoffs, NoSeq, NoBackoff
  <2>3. NotRemoving \in Removals
    BY DEF Removals
  <2>4. disk' \in Directories /\ possible' \subseteq Directories /\ disk' \in possible'
    BY <1>10, <1>a, <2>1 DEF Crash, Expose
  <2>5. nextSeq' \in 1..(MaxSeq + 1)
    BY <1>10 DEF Crash
  <2>6. /\ entries' = Nowhere /\ holds' = {} /\ backoffs' = NoBackoffs /\ rm' = NotRemoving
        /\ open' = FALSE /\ storeFault' = FALSE /\ probe' = "none" /\ custody' = custody /\ slipped' = slipped
    BY <1>10 DEF Crash
  <2>7. custody' \subseteq Artifacts /\ holds' \subseteq Artifacts /\ slipped' \in BOOLEAN
    BY <2>6 DEF TypeOK
  <2> QED
    BY <2>2, <2>3, <2>4, <2>5, <2>6, <2>7, Zenon DEF TypeOK
<1>11. CASE PowerLoss
  BY <1>11, <1>a DEF PowerLoss, memory, TypeOK
<1>12. CASE UNCHANGED queueVars
  BY <1>12 DEF queueVars, memory, storage, TypeOK
<1> QED
  BY <1>1, <1>2, <1>3, <1>4, <1>5, <1>6, <1>7, <1>8, <1>9, <1>10, <1>11, <1>12 DEF Next

\* Every variable keeps its type, and the visible directory is always one a
\* power loss may leave, in every execution of the queue.
THEOREM TypeCorrect == Spec => []TypeOK
BY TypeInit, TypeStep, PTL DEF Spec
-----------------------------------------------------------------------------
(* Durable custody.                                                        *)

\* CustodyIsDurable is not inductive alone: a retirement in progress must be of
\* a record that already left custody, and the next sequence number must be
\* ahead of every indexed one.
QueueInv ==
    /\ TypeOK
    /\ CustodyIsDurable
    /\ rm # NotRemoving => rm.id \notin custody
    /\ open => \A a \in Artifacts : entries[a] < nextSeq

\* The record of one artifact changes and no other.
LEMMA RecordChanges ==
    ASSUME NEW d \in Directories, NEW a \in Artifacts
    PROVE  /\ WithHold(d, a).rec = d.rec
           /\ WithoutHold(d, a).rec = d.rec
           /\ \A n : WithBackoff(d, a, n).rec = d.rec
           /\ \A seq : WithRecord(d, a, seq).rec = [d.rec EXCEPT ![a] = seq]
BY DEF WithHold, WithoutHold, WithBackoff, WithRecord, Directories

\* A write that leaves the records in custody alone leaves them durable.
LEMMA WriteKeepsCustody ==
    ASSUME NEW d, NEW res, Write(d, res), NEW a, NEW seq,
           disk.rec[a] = seq, \A e \in possible : e.rec[a] = seq, d.rec[a] = seq
    PROVE  disk'.rec[a] = seq /\ \A e \in possible' : e.rec[a] = seq
BY DEF Write, Expose

\* An insertion in progress is never of a record in custody, and a retirement in
\* progress never is either, so no interrupted write touches one.
LEMMA InFlightKeepsCustody ==
    ASSUME QueueInv, open, NEW d \in InFlight, NEW a \in custody
    PROVE  d.rec[a] = disk.rec[a]
<1>1. a \in Artifacts /\ disk \in Directories /\ disk.rec \in [Artifacts -> 0..MaxSeq]
  BY DEF QueueInv, TypeOK, Directories
<1>2. CASE d \in InsertInFlight
  <2>1. PICK b \in Artifacts : CanInsert(b) /\ d = WithRecord(disk, b, nextSeq)
    BY <1>2 DEF InsertInFlight
  <2>2. b # a
    BY <2>1 DEF CanInsert, QueueInv, CustodyIsDurable
  <2>3. WithRecord(disk, b, nextSeq).rec = [disk.rec EXCEPT ![b] = nextSeq]
    BY <1>1, RecordChanges
  <2> QED
    BY <1>1, <2>1, <2>2, <2>3
<1>3. CASE d \in RemoveInFlight
  <2>1. rm # NotRemoving /\ rm.id # a /\ rm.id \in Artifacts
    BY <1>3 DEF RemoveInFlight, NotRemoving, QueueInv, TypeOK, Removals
  <2>2. /\ WithoutHold(disk, rm.id).rec = disk.rec
        /\ WithBackoff(disk, rm.id, NoBackoff).rec = disk.rec
        /\ WithRecord(disk, rm.id, NoSeq).rec = [disk.rec EXCEPT ![rm.id] = NoSeq]
        /\ WithRecord(disk, rm.id, entries[rm.id]).rec = [disk.rec EXCEPT ![rm.id] = entries[rm.id]]
    BY <1>1, <2>1, RecordChanges
  <2>3. d \in {WithoutHold(disk, rm.id), WithBackoff(disk, rm.id, NoBackoff),
               WithRecord(disk, rm.id, NoSeq), WithRecord(disk, rm.id, entries[rm.id])}
    BY <1>3 DEF RemoveInFlight
  <2> QED
    BY <1>1, <2>1, <2>2, <2>3
<1>4. CASE d \in SidecarInFlight
  BY <1>1, <1>4, RecordChanges DEF SidecarInFlight, Queued
<1> QED
  BY <1>2, <1>3, <1>4 DEF InFlight

LEMMA QueueInvInit == Init => QueueInv
BY TypeInit DEF Init, QueueInv, CustodyIsDurable

\* No step touches the record of an artifact in custody, in any directory a
\* crash or power loss may then leave.
LEMMA RecordsKept ==
    ASSUME QueueInv, [Next]_queueVars, NEW b \in custody
    PROVE  disk'.rec[b] = disk.rec[b] /\ \A d \in possible' : d.rec[b] = disk.rec[b]
<1> DEFINE Kept == disk'.rec[b] = disk.rec[b] /\ \A d \in possible' : d.rec[b] = disk.rec[b]
<1>a. /\ disk \in Directories /\ disk.rec \in [Artifacts -> 0..MaxSeq] /\ b \in Artifacts
      /\ \A d \in possible : d.rec[b] = disk.rec[b]
  BY DEF QueueInv, CustodyIsDurable, TypeOK, Directories
<1>b. ASSUME NEW d, NEW res, Write(d, res), d.rec[b] = disk.rec[b] PROVE Kept
  BY <1>a, <1>b, WriteKeepsCustody
<1>1. ASSUME NEW res \in Results, Open(res) PROVE Kept
  BY <1>1, <1>a DEF Open
<1>2. ASSUME NEW res \in Results, NEW a \in Artifacts, Enqueue(a, res) PROVE Kept
  <2>1. a # b
    BY <1>2 DEF Enqueue, CanInsert, Unlocked, QueueInv, CustodyIsDurable
  <2>2. WithRecord(disk, a, nextSeq).rec = [disk.rec EXCEPT ![a] = nextSeq]
    BY <1>a, RecordChanges
  <2> QED
    BY <1>2, <1>a, <1>b, <2>1, <2>2 DEF Enqueue
<1>3. ASSUME NEW res \in Results, NEW a \in Artifacts, Hold(a, res) PROVE Kept
  BY <1>3, <1>a, <1>b, RecordChanges DEF Hold
<1>4. ASSUME NEW res \in Results, NEW a \in Artifacts, NEW n \in 1..MaxAttempts, SetBackoff(a, n, res)
      PROVE Kept
  BY <1>4, <1>a, <1>b, RecordChanges DEF SetBackoff
<1>5. ASSUME NEW res \in Results, NEW a \in Artifacts, ClearBackoff(a, res) PROVE Kept
  BY <1>5, <1>a, <1>b, RecordChanges DEF ClearBackoff
<1>6. ASSUME NEW a \in Artifacts, Remove(a) PROVE Kept
  BY <1>6, <1>a DEF Remove, storage
<1>7. ASSUME NEW res \in Results, RemoveStep(res) PROVE Kept
  <2>1. rm.id \in Artifacts /\ rm.id # b
    BY <1>7 DEF RemoveStep, RemoveHold, RemoveBackoff, RemoveRecord, RestoreRecord,
                NotRemoving, QueueInv, TypeOK, Removals
  <2>2. /\ WithoutHold(disk, rm.id).rec = disk.rec
        /\ WithBackoff(disk, rm.id, NoBackoff).rec = disk.rec
        /\ WithRecord(disk, rm.id, NoSeq).rec = [disk.rec EXCEPT ![rm.id] = NoSeq]
        /\ WithRecord(disk, rm.id, entries[rm.id]).rec = [disk.rec EXCEPT ![rm.id] = entries[rm.id]]
    BY <1>a, <2>1, RecordChanges
  <2>3. PICK d \in {WithoutHold(disk, rm.id), WithBackoff(disk, rm.id, NoBackoff),
                    WithRecord(disk, rm.id, NoSeq), WithRecord(disk, rm.id, entries[rm.id])} :
          Write(d, res)
    BY <1>7 DEF RemoveStep, RemoveHold, RemoveBackoff, RemoveRecord, RestoreRecord
  <2>4. d.rec[b] = disk.rec[b]
    BY <1>a, <2>1, <2>2, <2>3
  <2> QED
    BY <1>b, <2>3, <2>4
<1>8. ASSUME NEW res \in Results, ProbeStore(res) PROVE Kept
  BY <1>8, <1>a DEF ProbeStore
<1>9. CASE ProbeNote
  BY <1>9, <1>a DEF ProbeNote, storage
<1>10. ASSUME NEW d \in InFlight, Crash(d) PROVE Kept
  BY <1>10, <1>a, InFlightKeepsCustody DEF Crash, Expose
<1>11. CASE PowerLoss
  BY <1>11, <1>a DEF PowerLoss
<1>12. CASE UNCHANGED queueVars
  BY <1>12, <1>a DEF queueVars, storage
<1> QED
  BY <1>1, <1>2, <1>3, <1>4, <1>5, <1>6, <1>7, <1>8, <1>9, <1>10, <1>11, <1>12 DEF Next

\* Custody grows by the artifact an Enqueue committed and by nothing else.
LEMMA CustodyGrows ==
    ASSUME QueueInv, [Next]_queueVars, NEW b \in custody' \ custody
    PROVE  /\ open /\ open' /\ b \in Artifacts
           /\ disk'.rec[b] = nextSeq /\ possible' = {disk'} /\ entries'[b] = nextSeq
<1>1. PICK res \in Results, a \in Artifacts : Enqueue(a, res)
  BY DEF Next, Open, RemoveStep, RemoveHold, RemoveBackoff, RemoveRecord, RestoreRecord, ProbeStore,
         Hold, ClearBackoff, SetBackoff, Remove, ProbeNote, Crash, PowerLoss, queueVars
<1>2. a = b /\ res = "ok" /\ open /\ open' = open
  BY <1>1 DEF Enqueue, CanInsert, Unlocked
<1>3. /\ WithRecord(disk, a, nextSeq).rec = [disk.rec EXCEPT ![a] = nextSeq]
      /\ disk.rec \in [Artifacts -> 0..MaxSeq] /\ entries \in [Artifacts -> 0..MaxSeq]
  BY RecordChanges DEF QueueInv, TypeOK, Directories
<1> QED
  BY <1>1, <1>2, <1>3 DEF Enqueue, Write

LEMMA QueueInvStep == QueueInv /\ [Next]_queueVars => QueueInv'
<1> SUFFICES ASSUME QueueInv, [Next]_queueVars PROVE QueueInv'
  OBVIOUS
<1> USE BoundsAssumption, ResultsAssumption
<1>t. TypeOK /\ TypeOK'
  BY TypeStep DEF QueueInv
<1>a. /\ custody \subseteq Artifacts /\ custody' \subseteq Artifacts
      /\ entries \in [Artifacts -> 0..MaxSeq] /\ nextSeq \in Nat \ {0}
  BY <1>t DEF TypeOK
<1>1. /\ rm' # NotRemoving => rm'.id \notin custody'
      /\ open' => \A a \in Artifacts : entries'[a] < nextSeq'
      /\ \A b \in custody \cap custody' : open' => (open /\ entries'[b] = entries[b]) \/ entries' = disk'.rec
  <2> DEFINE Goal == /\ rm' # NotRemoving => rm'.id \notin custody'
                     /\ open' => \A a \in Artifacts : entries'[a] < nextSeq'
                     /\ \A b \in custody \cap custody' :
                          open' => (open /\ entries'[b] = entries[b]) \/ entries' = disk'.rec
  <2>1. ASSUME NEW res \in Results, Open(res) PROVE Goal
    BY <2>1 DEF Open, QueueInv, IsNextSeq
  <2>2. ASSUME NEW res \in Results, NEW a \in Artifacts, Enqueue(a, res) PROVE Goal
    <3>1. open /\ rm' = NotRemoving /\ a \notin custody
      BY <2>2 DEF Enqueue, CanInsert, Unlocked, QueueInv, CustodyIsDurable
    <3>2. \/ entries' = entries /\ nextSeq' = nextSeq
          \/ entries' = [entries EXCEPT ![a] = nextSeq] /\ nextSeq' = nextSeq + 1
      BY <2>2 DEF Enqueue
    <3> QED
      BY <1>a, <3>1, <3>2 DEF QueueInv
  <2>3. ASSUME NEW res \in Results, NEW a \in Artifacts, Hold(a, res) PROVE Goal
    BY <2>3 DEF Hold, QueueInv, CustodyIsDurable
  <2>4. ASSUME NEW res \in Results, NEW a \in Artifacts, NEW n \in 1..MaxAttempts, SetBackoff(a, n, res)
        PROVE Goal
    BY <2>4 DEF SetBackoff, QueueInv, CustodyIsDurable
  <2>5. ASSUME NEW res \in Results, NEW a \in Artifacts, ClearBackoff(a, res) PROVE Goal
    BY <2>5 DEF ClearBackoff, QueueInv, CustodyIsDurable
  <2>6. ASSUME NEW a \in Artifacts, Remove(a) PROVE Goal
    BY <2>6 DEF Remove, Unlocked, QueueInv
  <2>7. ASSUME NEW res \in Results, RemoveStep(res) PROVE Goal
    <3>1. open /\ rm.id \in Artifacts /\ rm.id \notin custody
      BY <2>7, <1>t DEF RemoveStep, RemoveHold, RemoveBackoff, RemoveRecord, RestoreRecord,
                        NotRemoving, QueueInv, TypeOK, Removals
    <3>2. /\ UNCHANGED <<open, nextSeq, custody>>
          /\ entries' = entries \/ entries' = [entries EXCEPT ![rm.id] = NoSeq]
      BY <2>7 DEF RemoveStep, RemoveHold, RemoveBackoff, RemoveRecord, RestoreRecord
    <3>3. rm' # NotRemoving => rm'.id = rm.id
      BY <2>7, <1>t DEF RemoveStep, RemoveHold, RemoveBackoff, RemoveRecord, RestoreRecord,
                        TypeOK, Removals, NotRemoving
    <3> QED
      BY <1>a, <3>1, <3>2, <3>3 DEF QueueInv, NoSeq
  <2>8. ASSUME NEW res \in Results, ProbeStore(res) PROVE Goal
    BY <2>8 DEF ProbeStore, QueueInv
  <2>9. CASE ProbeNote
    BY <2>9 DEF ProbeNote, QueueInv
  <2>10. ASSUME NEW d \in InFlight, Crash(d) PROVE Goal
    BY <2>10 DEF Crash
  <2>11. CASE PowerLoss
    BY <2>11 DEF PowerLoss, memory, QueueInv
  <2>12. CASE UNCHANGED queueVars
    BY <2>12 DEF queueVars, memory, QueueInv
  <2> QED
    BY <2>1, <2>2, <2>3, <2>4, <2>5, <2>6, <2>7, <2>8, <2>9, <2>10, <2>11, <2>12, Zenon DEF Next
<1>2. CustodyIsDurable'
  <2> SUFFICES ASSUME NEW b \in custody'
               PROVE  /\ disk'.rec[b] # NoSeq
                      /\ \A d \in possible' : d.rec[b] = disk'.rec[b]
                      /\ open' => entries'[b] = disk'.rec[b]
    BY DEF CustodyIsDurable
  <2>1. CASE b \in custody
    BY <1>1, <2>1, RecordsKept DEF QueueInv, CustodyIsDurable
  <2>2. CASE b \notin custody
    BY <1>a, <2>2, CustodyGrows DEF NoSeq
  <2> QED
    BY <2>1, <2>2
<1> QED
  BY <1>t, <1>1, <1>2 DEF QueueInv

\* An artifact whose Enqueue returned without error is in every directory a
\* crash or power loss may leave, until its retirement begins, whatever writes
\* fail or are not synced: the promise behind a custody acknowledgement.
THEOREM CustodyDurable == Spec => []CustodyIsDurable
<1>1. QueueInv => CustodyIsDurable
  BY DEF QueueInv
<1> QED
  BY <1>1, QueueInvInit, QueueInvStep, PTL DEF Spec

\* Lane order is admission order for good: a record in custody keeps its
\* sequence number, and a record admitted later gets a larger one, across
\* failed writes, crashes, power loss and restarts.
THEOREM OrderOfAdmission == Spec => AdmissionOrder
<1>1. ASSUME QueueInv, [Next]_queueVars
      PROVE  \A a \in custody \cap custody' :
               /\ disk'.rec[a] = disk.rec[a]
               /\ \A b \in custody' \ custody : disk.rec[a] < disk'.rec[b]
  <2> TAKE a \in custody \cap custody'
  <2>1. disk'.rec[a] = disk.rec[a]
    BY <1>1, RecordsKept
  <2>2. ASSUME NEW b \in custody' \ custody PROVE disk.rec[a] < disk'.rec[b]
    BY <1>1, <2>2, CustodyGrows DEF QueueInv, CustodyIsDurable, TypeOK
  <2> QED
    BY <2>1, <2>2
<1> QED
  BY <1>1, QueueInvInit, QueueInvStep, PTL DEF Spec, AdmissionOrder
-----------------------------------------------------------------------------
(* Restarts, as long as no directory sync failed after its change.         *)

\* Until then the index of an open queue is its directory, and a retirement
\* reaches the record only when no hold or back-off is left beside it.
SyncedInv ==
    /\ QueueInv
    /\ Reopenable
    /\ open => entries = disk.rec /\ holds = disk.hold /\ backoffs = disk.back
    /\ rm # NotRemoving => open
    /\ rm.step # "restore"
    /\ rm.step \in {"backoff", "record"} => rm.id \notin holds
    /\ rm.step = "record" => backoffs[rm.id] = NoBackoff

\* A new record beside the ones of a loadable directory that has room for it.
LEMMA LoadableWithRecord ==
    ASSUME NEW d \in Directories, Loadable(d), NEW a \in Artifacts, NEW seq \in 1..MaxSeq,
           Cardinality(Recorded(d)) < MaxItems, \A b \in Artifacts : d.rec[b] < seq
    PROVE  Loadable(WithRecord(d, a, seq))
<1> DEFINE e == WithRecord(d, a, seq)
<1>1. /\ e.rec = [d.rec EXCEPT ![a] = seq] /\ e.hold = d.hold /\ e.back = d.back
      /\ d.rec \in [Artifacts -> 0..MaxSeq]
  BY DEF WithRecord, Directories
<1>2. Recorded(e) = Recorded(d) \cup {a} /\ BackedOff(e) = BackedOff(d)
  BY <1>1 DEF Recorded, BackedOff, NoSeq
<1>3. Cardinality(Recorded(e)) <= MaxItems
  <2>1. IsFiniteSet(Recorded(d))
    BY ArtifactsAssumption, FS_Subset DEF Recorded
  <2>2. Cardinality(Recorded(d)) \in Nat
    BY <2>1, FS_CardinalityType
  <2>3. Cardinality(Recorded(e))
          = IF a \in Recorded(d) THEN Cardinality(Recorded(d)) ELSE Cardinality(Recorded(d)) + 1
    BY <1>2, <2>1, FS_AddElement, Zenon
  <2> QED
    BY <2>2, <2>3, BoundsAssumption
<1>4. \A b, c \in Recorded(e) : e.rec[b] = e.rec[c] => b = c
  <2> SUFFICES ASSUME NEW b \in Recorded(e), NEW c \in Recorded(e), e.rec[b] = e.rec[c], b # c PROVE FALSE
    OBVIOUS
  <2>1. b \in Artifacts /\ c \in Artifacts /\ d.rec[b] \in Nat /\ d.rec[c] \in Nat
    BY <1>1 DEF Recorded
  <2>2. CASE b = a
    BY <1>1, <2>1, <2>2
  <2>3. CASE c = a
    BY <1>1, <2>1, <2>3
  <2>4. CASE b # a /\ c # a
    BY <1>1, <1>2, <2>1, <2>4 DEF Loadable
  <2> QED
    BY <2>2, <2>3, <2>4
<1> HIDE DEF e
<1>5. Loadable(e)
  BY <1>1, <1>2, <1>3, <1>4 DEF Loadable
<1> QED
  BY <1>5 DEF e

\* A record removed once nothing is beside it.
LEMMA LoadableWithoutRecord ==
    ASSUME NEW d \in Directories, Loadable(d), NEW a \in Artifacts, a \notin d.hold, d.back[a] = NoBackoff
    PROVE  Loadable(WithRecord(d, a, NoSeq))
<1> DEFINE e == WithRecord(d, a, NoSeq)
<1>1. /\ e.rec = [d.rec EXCEPT ![a] = NoSeq] /\ e.hold = d.hold /\ e.back = d.back
      /\ d.rec \in [Artifacts -> 0..MaxSeq]
  BY DEF WithRecord, Directories
<1>2. Recorded(e) = Recorded(d) \ {a} /\ BackedOff(e) = BackedOff(d)
  BY <1>1 DEF Recorded, BackedOff
<1>3. Cardinality(Recorded(e)) <= MaxItems
  <2>1. IsFiniteSet(Recorded(d))
    BY ArtifactsAssumption, FS_Subset DEF Recorded
  <2>2. IsFiniteSet(Recorded(e)) /\ Cardinality(Recorded(e)) <= Cardinality(Recorded(d))
    BY <1>2, <2>1, FS_Subset
  <2> QED
    BY <2>1, <2>2, FS_CardinalityType, BoundsAssumption DEF Loadable
<1>4. \A b, c \in Recorded(e) : e.rec[b] = e.rec[c] => b = c
  BY <1>1, <1>2 DEF Loadable, Recorded
<1> HIDE DEF e
<1>5. d.hold \subseteq Recorded(e) /\ BackedOff(d) \subseteq Recorded(e)
  BY <1>2 DEF Loadable, BackedOff
<1>6. Loadable(e)
  BY <1>1, <1>2, <1>3, <1>4, <1>5 DEF Loadable
<1> QED
  BY <1>6 DEF e

\* A hold or back-off written beside its record, or removed.
LEMMA LoadableSidecars ==
    ASSUME NEW d \in Directories, Loadable(d), NEW a \in Artifacts
    PROVE  /\ a \in Recorded(d) => Loadable(WithHold(d, a))
           /\ Loadable(WithoutHold(d, a))
           /\ a \in Recorded(d) => \A n \in 0..MaxAttempts : Loadable(WithBackoff(d, a, n))
           /\ Loadable(WithBackoff(d, a, NoBackoff))
<1>1. ASSUME NEW e \in Directories, e.rec = d.rec, e.hold \subseteq d.hold \cup ({a} \cap Recorded(d)),
             BackedOff(e) \subseteq BackedOff(d) \cup ({a} \cap Recorded(d))
      PROVE  Loadable(e)
  BY <1>1 DEF Loadable, Recorded
<1>2. /\ WithHold(d, a).rec = d.rec /\ WithHold(d, a).hold = d.hold \cup {a} /\ WithHold(d, a).back = d.back
      /\ WithoutHold(d, a).rec = d.rec /\ WithoutHold(d, a).hold = d.hold \ {a} /\ WithoutHold(d, a).back = d.back
  BY DEF WithHold, WithoutHold, Directories
<1>3. ASSUME NEW n \in 0..MaxAttempts
      PROVE  /\ WithBackoff(d, a, n).rec = d.rec /\ WithBackoff(d, a, n).hold = d.hold
             /\ BackedOff(WithBackoff(d, a, n)) \subseteq BackedOff(d) \cup {a}
             /\ n = NoBackoff => BackedOff(WithBackoff(d, a, n)) \subseteq BackedOff(d)
  BY DEF WithBackoff, Directories, BackedOff
<1>4. NoBackoff \in 0..MaxAttempts
  BY BoundsAssumption DEF NoBackoff
<1>5. a \in Recorded(d) => Loadable(WithHold(d, a))
  BY <1>1, <1>2, DirectoryChanges, Zenon DEF BackedOff
<1>6. Loadable(WithoutHold(d, a))
  BY <1>1, <1>2, DirectoryChanges, Zenon DEF BackedOff
<1>7. ASSUME a \in Recorded(d), NEW n \in 0..MaxAttempts PROVE Loadable(WithBackoff(d, a, n))
  BY <1>1, <1>3, <1>7, DirectoryChanges
<1>8. Loadable(WithBackoff(d, a, NoBackoff))
  BY <1>1, <1>3, <1>4, DirectoryChanges
<1> QED
  BY <1>5, <1>6, <1>7, <1>8

\* A write that is not left unsynced changes the directory or nothing.
LEMMA SyncedWrite ==
    ASSUME NEW res \in Results, NEW d, Write(d, res), ~slipped', Loadable(d), Reopenable
    PROVE  /\ Reopenable'
           /\ disk' = IF res = "ok" THEN d ELSE disk
<1>1. res # "unsynced"
  BY Zenon DEF Write
<1> QED
  BY <1>1, ResultsAssumption DEF Write, Reopenable, WriteResults

\* An operation interrupted by a crash leaves a directory the next start accepts.
LEMMA InFlightLoadable ==
    ASSUME SyncedInv, open, NEW d \in InFlight
    PROVE  Loadable(d)
<1>a. /\ disk \in Directories /\ Loadable(disk) /\ TypeOK
      /\ entries = disk.rec /\ holds = disk.hold /\ backoffs = disk.back
      /\ Queued = Recorded(disk)
  BY DEF SyncedInv, QueueInv, TypeOK, Reopenable, Queued, Recorded
<1>b. rm # NotRemoving => rm.id \in Artifacts
  BY <1>a DEF TypeOK, Removals
<1>1. CASE d \in InsertInFlight
  <2>1. PICK a \in Artifacts : CanInsert(a) /\ d = WithRecord(disk, a, nextSeq)
    BY <1>1 DEF InsertInFlight
  <2>2. nextSeq \in 1..MaxSeq
    BY <1>a, <2>1, BoundsAssumption DEF CanInsert, TypeOK
  <2>3. IsFiniteSet(Recorded(disk))
    BY ArtifactsAssumption, FS_Subset DEF Recorded
  <2>4. Cardinality(Recorded(disk)) < MaxItems
    BY <1>a, <2>1, <2>3, FS_CardinalityType, BoundsAssumption DEF CanInsert, Full
  <2>5. \A b \in Artifacts : disk.rec[b] < nextSeq
    BY <1>a DEF SyncedInv, QueueInv
  <2> QED
    BY <1>a, <2>1, <2>2, <2>4, <2>5, LoadableWithRecord
<1>2. CASE d \in RemoveInFlight
  <2>1. /\ rm.id \in Artifacts
        /\ \/ d = WithoutHold(disk, rm.id)
           \/ d = WithBackoff(disk, rm.id, NoBackoff)
           \/ rm.step = "record" /\ d = WithRecord(disk, rm.id, NoSeq)
    BY <1>2, <1>b DEF RemoveInFlight, NotRemoving, SyncedInv
  <2> QED
    BY <1>a, <2>1, LoadableSidecars, LoadableWithoutRecord DEF SyncedInv
<1>3. CASE d \in SidecarInFlight
  BY <1>a, <1>3, LoadableSidecars DEF SidecarInFlight, Queued
<1> QED
  BY <1>a, <1>1, <1>2, <1>3 DEF InFlight

LEMMA SyncedInvInit == Init => SyncedInv
<1> SUFFICES ASSUME Init PROVE SyncedInv
  OBVIOUS
<1>1. Recorded(EmptyDirectory) = {} /\ BackedOff(EmptyDirectory) = {} /\ EmptyDirectory.hold = {}
  BY DEF Recorded, BackedOff, EmptyDirectory, Nowhere, NoBackoffs
<1>2. Loadable(EmptyDirectory)
  BY <1>1, FS_EmptySet, BoundsAssumption DEF Loadable
<1> QED
  BY <1>2, QueueInvInit DEF Init, SyncedInv, Reopenable, NotRemoving

\* A slip is never forgotten.
LEMMA SlippedStays == [Next]_queueVars /\ ~slipped' => ~slipped
<1> SUFFICES ASSUME [Next]_queueVars, ~slipped' PROVE ~slipped
  OBVIOUS
<1>1. ASSUME NEW d, NEW res, Write(d, res) PROVE ~slipped
  BY <1>1, Zenon DEF Write
<1>2. ASSUME NEW res \in Results, Open(res) \/ ProbeStore(res) PROVE ~slipped
  BY <1>2 DEF Open, ProbeStore
<1>3. ASSUME NEW res \in Results, RemoveStep(res) PROVE ~slipped
  BY <1>1, <1>3 DEF RemoveStep, RemoveHold, RemoveBackoff, RemoveRecord, RestoreRecord
<1>4. ASSUME NEW res \in Results, NEW a \in Artifacts, Enqueue(a, res) \/ Hold(a, res) \/ ClearBackoff(a, res)
      PROVE ~slipped
  BY <1>1, <1>4 DEF Enqueue, Hold, ClearBackoff
<1>5. ASSUME NEW res \in Results, NEW a \in Artifacts, NEW n \in 1..MaxAttempts, SetBackoff(a, n, res)
      PROVE ~slipped
  BY <1>1, <1>5 DEF SetBackoff
<1>6. ASSUME NEW a \in Artifacts, Remove(a) PROVE ~slipped
  BY <1>6 DEF Remove, storage
<1>7. CASE ProbeNote
  BY <1>7 DEF ProbeNote, storage
<1>8. ASSUME NEW d \in InFlight, Crash(d) PROVE ~slipped
  BY <1>8 DEF Crash
<1>9. CASE PowerLoss
  BY <1>9 DEF PowerLoss
<1>10. CASE UNCHANGED queueVars
  BY <1>10 DEF queueVars, storage
<1> QED
  BY <1>2, <1>3, <1>4, <1>5, <1>6, <1>7, <1>8, <1>9, <1>10 DEF Next

LEMMA SyncedInvStep ==
    ASSUME SyncedInv, [Next]_queueVars, ~slipped'
    PROVE  SyncedInv'
<1> USE BoundsAssumption
<1>q. QueueInv /\ QueueInv' /\ Reopenable
  BY QueueInvStep DEF SyncedInv
<1>a. /\ disk \in Directories /\ Loadable(disk) /\ TypeOK
      /\ disk.rec \in [Artifacts -> 0..MaxSeq] /\ disk.hold \subseteq Artifacts
      /\ disk.back \in [Artifacts -> 0..MaxAttempts]
  BY <1>q DEF QueueInv, TypeOK, Reopenable, Directories
<1>b. open => /\ entries = disk.rec /\ holds = disk.hold /\ backoffs = disk.back
              /\ Queued = Recorded(disk)
  BY DEF SyncedInv, Queued, Recorded
<1>c. rm # NotRemoving => rm.id \in Artifacts
  BY <1>a DEF TypeOK, Removals
<1>1. ASSUME NEW res \in Results, Open(res) PROVE SyncedInv'
  BY <1>1, <1>q DEF Open, SyncedInv, Reopenable, NotRemoving
<1>2. ASSUME NEW res \in Results, NEW a \in Artifacts, Enqueue(a, res) PROVE SyncedInv'
  <2>1. open /\ rm = NotRemoving /\ CanInsert(a)
    BY <1>2 DEF Enqueue, CanInsert, Unlocked
  <2>2. WithRecord(disk, a, nextSeq) \in InFlight
    BY <2>1 DEF InFlight, InsertInFlight
  <2>3. Reopenable' /\ disk' = IF res = "ok" THEN WithRecord(disk, a, nextSeq) ELSE disk
    BY <1>2, <1>q, <2>1, <2>2, InFlightLoadable, SyncedWrite DEF Enqueue
  <2>4. /\ WithRecord(disk, a, nextSeq).rec = [disk.rec EXCEPT ![a] = nextSeq]
        /\ WithRecord(disk, a, nextSeq).hold = disk.hold /\ WithRecord(disk, a, nextSeq).back = disk.back
    BY <1>a DEF WithRecord, Directories
  <2> QED
    BY <1>2, <1>q, <1>b, <2>1, <2>3, <2>4 DEF Enqueue, SyncedInv, NotRemoving
<1>3. ASSUME NEW res \in Results, NEW a \in Artifacts, Hold(a, res) PROVE SyncedInv'
  <2>1. open /\ rm = NotRemoving /\ Loadable(WithHold(disk, a))
    BY <1>3, <1>a, <1>b, LoadableSidecars, Zenon DEF Hold, Unlocked
  <2>2. Reopenable' /\ disk' = IF res = "ok" THEN WithHold(disk, a) ELSE disk
    BY <1>3, <1>q, <2>1, SyncedWrite DEF Hold
  <2>3. /\ WithHold(disk, a).rec = disk.rec /\ WithHold(disk, a).hold = disk.hold \cup {a}
        /\ WithHold(disk, a).back = disk.back
    BY <1>a DEF WithHold, Directories
  <2> QED
    BY <1>3, <1>q, <1>b, <2>1, <2>2, <2>3 DEF Hold, SyncedInv, NotRemoving
<1>4. ASSUME NEW res \in Results, NEW a \in Artifacts, NEW n \in 0..MaxAttempts, Unlocked,
             Write(WithBackoff(disk, a, n), res), a \in Queued \/ n = NoBackoff,
             backoffs' = IF res = "ok" THEN [backoffs EXCEPT ![a] = n] ELSE backoffs,
             UNCHANGED <<open, entries, nextSeq, holds, rm, probe, custody>>
      PROVE SyncedInv'
  <2>1. open /\ rm = NotRemoving /\ Loadable(WithBackoff(disk, a, n))
    BY <1>4, <1>a, <1>b, LoadableSidecars, Zenon DEF Unlocked
  <2>2. Reopenable' /\ disk' = IF res = "ok" THEN WithBackoff(disk, a, n) ELSE disk
    BY <1>4, <1>q, <2>1, SyncedWrite
  <2>3. /\ WithBackoff(disk, a, n).rec = disk.rec /\ WithBackoff(disk, a, n).hold = disk.hold
        /\ WithBackoff(disk, a, n).back = [disk.back EXCEPT ![a] = n]
    BY <1>a DEF WithBackoff, Directories
  <2> QED
    BY <1>4, <1>q, <1>b, <2>1, <2>2, <2>3 DEF SyncedInv, NotRemoving
<1>5. ASSUME NEW res \in Results, NEW a \in Artifacts, NEW n \in 1..MaxAttempts, SetBackoff(a, n, res)
      PROVE SyncedInv'
  <2>1. n \in 0..MaxAttempts
    OBVIOUS
  <2> QED
    BY <1>4, <1>5, <2>1 DEF SetBackoff
<1>6. ASSUME NEW res \in Results, NEW a \in Artifacts, ClearBackoff(a, res) PROVE SyncedInv'
  <2>1. NoBackoff \in 0..MaxAttempts
    BY DEF NoBackoff
  <2> QED
    BY <1>4, <1>6, <2>1 DEF ClearBackoff
<1>7. ASSUME NEW a \in Artifacts, Remove(a) PROVE SyncedInv'
  BY <1>7, <1>q DEF Remove, Unlocked, FirstRemoveStep, storage, SyncedInv, Reopenable
<1>8. ASSUME NEW res \in Results, RemoveStep(res) PROVE SyncedInv'
  <2>0. res # "unsynced"
    <3>1. slipped' = (slipped \/ res = "unsynced")
      BY <1>8 DEF RemoveStep, RemoveHold, RemoveBackoff, RemoveRecord, RestoreRecord, Write
    <3> QED
      BY <3>1, Zenon
  <2>1. open /\ rm # NotRemoving /\ rm.id \in Artifacts /\ rm.step # "restore" /\ res # "unsynced"
    BY <1>8, <1>c, <2>0 DEF RemoveStep, RemoveHold, RemoveBackoff, RemoveRecord, RestoreRecord,
                            NotRemoving, SyncedInv
  <2>2. rm \in [step : RemoveSteps, id : Artifacts]
    BY <1>a, <2>1 DEF TypeOK, Removals
  <2>3. CASE RemoveHold(res)
    <3>1. Reopenable' /\ disk' = IF res = "ok" THEN WithoutHold(disk, rm.id) ELSE disk
      BY <1>a, <1>q, <2>1, <2>3, LoadableSidecars, SyncedWrite DEF RemoveHold
    <3>2. /\ WithoutHold(disk, rm.id).rec = disk.rec /\ WithoutHold(disk, rm.id).back = disk.back
          /\ WithoutHold(disk, rm.id).hold = disk.hold \ {rm.id}
      BY <1>a DEF WithoutHold, Directories
    <3>3. open' /\ entries' = disk'.rec /\ holds' = disk'.hold /\ backoffs' = disk'.back
      BY <1>b, <2>1, <2>3, <3>1, <3>2, Zenon DEF RemoveHold
    <3>4. /\ rm'.step # "restore"
          /\ rm'.step \in {"backoff", "record"} => rm'.id \notin holds'
          /\ rm'.step = "record" => backoffs'[rm'.id] = NoBackoff
      BY <2>2, <2>3 DEF RemoveHold, NotRemoving
    <3> QED
      BY <1>q, <3>1, <3>3, <3>4 DEF SyncedInv
  <2>4. CASE RemoveBackoff(res)
    <3>1. Reopenable' /\ disk' = IF res = "ok" THEN WithBackoff(disk, rm.id, NoBackoff) ELSE disk
      BY <1>a, <1>q, <2>1, <2>4, LoadableSidecars, SyncedWrite DEF RemoveBackoff
    <3>2. /\ WithBackoff(disk, rm.id, NoBackoff).rec = disk.rec /\ WithBackoff(disk, rm.id, NoBackoff).hold = disk.hold
          /\ WithBackoff(disk, rm.id, NoBackoff).back = [disk.back EXCEPT ![rm.id] = NoBackoff]
      BY <1>a DEF WithBackoff, Directories
    <3> QED
      BY <1>a, <1>q, <1>b, <2>1, <2>2, <2>4, <3>1, <3>2 DEF RemoveBackoff, SyncedInv, NotRemoving
  <2>5. CASE RemoveRecord(res)
    <3>1. Reopenable' /\ disk' = IF res = "ok" THEN WithRecord(disk, rm.id, NoSeq) ELSE disk
      <4>1. rm.id \notin disk.hold /\ disk.back[rm.id] = NoBackoff
        BY <1>b, <2>1, <2>5 DEF RemoveRecord, SyncedInv
      <4> QED
        BY <1>a, <1>q, <2>1, <2>5, <4>1, LoadableWithoutRecord, SyncedWrite DEF RemoveRecord
    <3>2. /\ WithRecord(disk, rm.id, NoSeq).rec = [disk.rec EXCEPT ![rm.id] = NoSeq]
          /\ WithRecord(disk, rm.id, NoSeq).hold = disk.hold /\ WithRecord(disk, rm.id, NoSeq).back = disk.back
      BY <1>a DEF WithRecord, Directories
    <3> QED
      BY <1>q, <1>b, <2>1, <2>5, <3>1, <3>2 DEF RemoveRecord, SyncedInv, NotRemoving
  <2> QED
    BY <1>8, <2>1, <2>3, <2>4, <2>5, Zenon DEF RemoveStep, RestoreRecord
<1>9. ASSUME NEW res \in Results, ProbeStore(res) PROVE SyncedInv'
  BY <1>9, <1>q, <1>a DEF ProbeStore, SyncedInv, Reopenable
<1>10. CASE ProbeNote
  BY <1>10, <1>q DEF ProbeNote, storage, SyncedInv, Reopenable
<1>11. ASSUME NEW d \in InFlight, Crash(d) PROVE SyncedInv'
  <2>1. Reopenable'
    BY <1>11, <1>q, InFlightLoadable DEF Crash, Expose, Reopenable
  <2> QED
    BY <1>11, <1>q, <2>1 DEF Crash, SyncedInv, NotRemoving
<1>12. CASE PowerLoss
  BY <1>12, <1>q DEF PowerLoss, memory, SyncedInv, Reopenable
<1>13. CASE UNCHANGED queueVars
  BY <1>13, <1>q DEF queueVars, memory, storage, SyncedInv, Reopenable
<1> QED
  BY <1>1, <1>2, <1>3, <1>5, <1>6, <1>7, <1>8, <1>9, <1>10, <1>11, <1>12, <1>13 DEF Next

\* As long as no directory sync has failed after its rename or unlink took
\* effect, no failed write, crash or power loss, at any point of any operation,
\* leaves a directory that the next start refuses.
THEOREM AlwaysReopenable == Spec => []ReopenableUnlessSlipped
<1> DEFINE Inv == ~slipped => SyncedInv
<1>1. Init => Inv
  BY SyncedInvInit
<1>2. Inv /\ [Next]_queueVars => Inv'
  BY SyncedInvStep, SlippedStays
<1>3. Inv => ReopenableUnlessSlipped
  BY DEF SyncedInv, ReopenableUnlessSlipped
<1> QED
  BY <1>1, <1>2, <1>3, PTL DEF Spec

-----------------------------------------------------------------------------
(* The index of an open queue, whatever was not synced.                    *)

\* No two indexed records share a sequence number, and the file of an indexed
\* record, when it is there, has the number of the index.
IndexInv ==
    open => /\ \A a, b \in Queued : entries[a] = entries[b] => a = b
            /\ \A a \in Queued : disk.rec[a] \in {NoSeq, entries[a]}

\* The index gains the record an Enqueue committed, loses the one a retirement
\* committed, and is otherwise left alone.
LEMMA IndexStep ==
    ASSUME TypeOK, [Next]_queueVars, open, open'
    PROVE  \/ entries' = entries
           \/ \E a \in Artifacts : entries[a] = NoSeq /\ entries' = [entries EXCEPT ![a] = nextSeq]
           \/ rm # NotRemoving /\ rm' = NotRemoving /\ entries' = [entries EXCEPT ![rm.id] = NoSeq]
<1>1. ASSUME NEW res \in Results, NEW a \in Artifacts, Enqueue(a, res)
      PROVE  \/ entries' = entries
             \/ entries[a] = NoSeq /\ entries' = [entries EXCEPT ![a] = nextSeq]
  BY <1>1 DEF Enqueue, CanInsert
<1>2. ASSUME NEW res \in Results, RemoveStep(res)
      PROVE  \/ entries' = entries
             \/ rm # NotRemoving /\ rm' = NotRemoving /\ entries' = [entries EXCEPT ![rm.id] = NoSeq]
  BY <1>2 DEF RemoveStep, RemoveHold, RemoveBackoff, RemoveRecord, RestoreRecord, NotRemoving
<1>3. CASE ~\E res \in Results : RemoveStep(res) \/ \E a \in Artifacts : Enqueue(a, res)
  BY <1>3, Zenon DEF Next, Open, ProbeStore, Hold, ClearBackoff, SetBackoff, Remove, ProbeNote, Crash, PowerLoss,
              queueVars, memory
<1> QED
  BY <1>1, <1>2, <1>3

\* An oldest record of its lane stays the oldest as long as it is queued: a new
\* record sorts behind it.
LEMMA HeadStays ==
    ASSUME QueueInv, [Next]_queueVars, open, open', NEW a, NEW k, IsHead(a, k), entries'[a] # NoSeq
    PROVE  IsHead(a, k)'
<1>1. /\ TypeOK /\ entries \in [Artifacts -> 0..MaxSeq] /\ nextSeq \in Nat
      /\ \A b \in Artifacts : entries[b] < nextSeq
  BY DEF QueueInv, TypeOK
<1>2. a \in Artifacts /\ LaneKey(a) = k /\ entries[a] # NoSeq
  BY DEF IsHead, LaneItems, Queued
<1>3. rm # NotRemoving => rm.id \in Artifacts
  BY <1>1 DEF TypeOK, Removals
<1>4. entries'[a] = entries[a]
  BY <1>1, <1>2, <1>3, IndexStep
<1>5. ASSUME NEW b \in Artifacts, entries'[b] # NoSeq, LaneKey(b) = k PROVE entries[a] <= entries'[b]
  <2>1. CASE entries[b] = NoSeq
    <3>1. entries'[b] = nextSeq
      BY <1>1, <1>3, <1>5, <2>1, IndexStep
    <3> QED
      BY <1>1, <1>2, <3>1
  <2>2. CASE entries[b] # NoSeq
    <3>1. entries'[b] = entries[b] /\ b \in LaneItems(k)
      BY <1>1, <1>3, <1>5, <2>2, IndexStep DEF LaneItems, Queued
    <3> QED
      BY <3>1 DEF IsHead
  <2> QED
    BY <2>1, <2>2
<1> QED
  BY <1>2, <1>4, <1>5 DEF IsHead, LaneItems, Queued

LEMMA IndexInvStep == QueueInv /\ IndexInv /\ [Next]_queueVars => IndexInv'
<1> SUFFICES ASSUME QueueInv, IndexInv, [Next]_queueVars, open' PROVE IndexInv'
  BY DEF IndexInv
<1>a. /\ TypeOK /\ entries \in [Artifacts -> 0..MaxSeq] /\ nextSeq \in Nat
      /\ disk \in Directories /\ disk.rec \in [Artifacts -> 0..MaxSeq]
  BY DEF QueueInv, TypeOK, Directories
<1>1. CASE ~open
  <2>1. \/ \E res \in Results : Open(res)
        \/ UNCHANGED queueVars
    BY <1>1, Zenon DEF Next, RemoveStep, RemoveHold, RemoveBackoff, RemoveRecord, RestoreRecord, Unlocked, CanInsert,
                ProbeStore, Enqueue, Hold, ClearBackoff, SetBackoff, Remove, ProbeNote, Crash, PowerLoss, memory
  <2> QED
    BY <1>1, <2>1, Zenon DEF Open, Loadable, Recorded, Queued, IndexInv, queueVars, memory
<1>2. CASE open
  <2>a. \A a \in Queued : disk.rec[a] \in {NoSeq, entries[a]}
    BY <1>2 DEF IndexInv
  <2>b. \A a \in Artifacts : entries[a] < nextSeq
    BY <1>2 DEF QueueInv
  <2>c. rm # NotRemoving => rm.id \in Artifacts
    BY <1>a DEF TypeOK, Removals
  <2>1. \A a, b \in Queued' : entries'[a] = entries'[b] => a = b
    BY <1>2, <1>a, <2>b, <2>c, IndexStep DEF IndexInv, Queued
  <2>2. \A a \in Queued' : disk'.rec[a] \in {NoSeq, entries'[a]}
    <3> DEFINE Goal == \A a \in Queued' : disk'.rec[a] \in {NoSeq, entries'[a]}
    <3>0. ASSUME NEW d, NEW res, Write(d, res), d.rec = disk.rec, entries' = entries PROVE Goal
      BY <2>a, <3>0 DEF Write, Expose, Queued
    <3>1. ASSUME NEW res \in Results, NEW a \in Artifacts, Enqueue(a, res) PROVE Goal
      <4>1. WithRecord(disk, a, nextSeq).rec = [disk.rec EXCEPT ![a] = nextSeq]
        BY <1>a, RecordChanges
      <4>2. disk'.rec = disk.rec \/ disk'.rec = [disk.rec EXCEPT ![a] = nextSeq]
        BY <3>1, <4>1 DEF Enqueue, Write, Expose
      <4>3. \/ entries' = entries /\ a \notin Queued
            \/ entries' = [entries EXCEPT ![a] = nextSeq] /\ disk'.rec = [disk.rec EXCEPT ![a] = nextSeq]
        BY <3>1, <4>1 DEF Enqueue, CanInsert, Queued, Write
      <4> QED
        BY <1>a, <2>a, <4>2, <4>3 DEF Queued
    <3>2. ASSUME NEW res \in Results, NEW a \in Artifacts, Hold(a, res) \/ ClearBackoff(a, res) PROVE Goal
      <4>1. entries' = entries /\ \E d : d.rec = disk.rec /\ Write(d, res)
        BY <1>a, <3>2, RecordChanges, Zenon DEF Hold, ClearBackoff
      <4> QED
        BY <3>0, <4>1
    <3>3. ASSUME NEW res \in Results, NEW a \in Artifacts, NEW n \in 1..MaxAttempts, SetBackoff(a, n, res)
          PROVE  Goal
      <4>1. entries' = entries /\ Write(WithBackoff(disk, a, n), res)
        BY <3>3, Zenon DEF SetBackoff
      <4>2. WithBackoff(disk, a, n).rec = disk.rec
        BY <1>a, RecordChanges
      <4> QED
        BY <3>0, <4>1, <4>2, Zenon
    <3>4. ASSUME NEW res \in Results, RemoveStep(res) PROVE Goal
      <4>0. rm.step \in RemoveSteps
        BY <3>4, Zenon DEF RemoveStep, RemoveHold, RemoveBackoff, RemoveRecord, RestoreRecord, RemoveSteps
      <4>1. rm.id \in Artifacts
        BY <2>c, <4>0 DEF RemoveSteps, NotRemoving
      <4>2. /\ WithoutHold(disk, rm.id).rec = disk.rec
            /\ WithBackoff(disk, rm.id, NoBackoff).rec = disk.rec
            /\ WithRecord(disk, rm.id, NoSeq).rec = [disk.rec EXCEPT ![rm.id] = NoSeq]
            /\ WithRecord(disk, rm.id, entries[rm.id]).rec = [disk.rec EXCEPT ![rm.id] = entries[rm.id]]
        BY <1>a, <4>1, RecordChanges
      <4>3. CASE RemoveHold(res) \/ RemoveBackoff(res)
        <5>1. entries' = entries /\ \E d : d.rec = disk.rec /\ Write(d, res)
          BY <4>2, <4>3, Zenon DEF RemoveHold, RemoveBackoff
        <5> QED
          BY <3>0, <5>1
      <4>4. CASE RemoveRecord(res)
        <5>1. disk'.rec = disk.rec \/ disk'.rec = [disk.rec EXCEPT ![rm.id] = NoSeq]
          BY <4>2, <4>4 DEF RemoveRecord, Write, Expose
        <5>2. entries' = entries \/ entries' = [entries EXCEPT ![rm.id] = NoSeq]
          BY <4>4 DEF RemoveRecord
        <5> QED
          BY <1>a, <2>a, <4>1, <5>1, <5>2 DEF Queued
      <4>5. CASE RestoreRecord(res)
        <5>1. disk'.rec = disk.rec \/ disk'.rec = [disk.rec EXCEPT ![rm.id] = entries[rm.id]]
          BY <4>2, <4>5 DEF RestoreRecord, Write, Expose
        <5>2. entries' = entries
          BY <4>5 DEF RestoreRecord
        <5> QED
          BY <1>a, <2>a, <4>1, <5>1, <5>2 DEF Queued
      <4> QED
        BY <3>4, <4>3, <4>4, <4>5 DEF RemoveStep
    <3>5. CASE \/ \E res \in Results : Open(res) \/ ProbeStore(res)
               \/ \E a \in Artifacts : Remove(a)
               \/ ProbeNote \/ PowerLoss \/ UNCHANGED queueVars \/ \E d \in InFlight : Crash(d)
      BY <1>2, <2>a, <3>5, Zenon DEF Open, ProbeStore, Remove, ProbeNote, PowerLoss, Crash,
                                     queueVars, memory, storage, Queued
    <3> QED
      BY <3>1, <3>2, <3>3, <3>4, <3>5 DEF Next
  <2> QED
    BY <2>1, <2>2 DEF IndexInv
<1> QED
  BY <1>1, <1>2

-----------------------------------------------------------------------------
(* The reserve of a device.                                                *)

\* The records of a directory that belong to a device, and to its evidence lane.
RecordsOf(v, d) == {a \in Recorded(d) : DeviceOf[a] = v}
EvidenceOf(v, d) == {a \in Recorded(d) : LaneKey(a) = <<v, "evidence">>}

\* No device has more records than its share, nor more evidence than leaves the
\* slot of its registration free.
FitsShares(d) ==
    \A v \in Devices : /\ Cardinality(RecordsOf(v, d)) <= ShareItems
                       /\ Cardinality(EvidenceOf(v, d)) <= ShareItems - 1

\* Every directory that a crash or a power loss may leave fits the shares.
ShareInv == \A d \in possible : FitsShares(d)

LEMMA ShareItemsType == Reserved => ShareItems \in Nat /\ ShareItems >= 2 /\ Cardinality(Devices) \in Nat \ {0}
<1> SUFFICES ASSUME Reserved PROVE ShareItems \in Nat /\ ShareItems >= 2 /\ Cardinality(Devices) \in Nat \ {0}
  OBVIOUS
<1>1. Cardinality(Devices) \in Nat /\ Cardinality(Devices) # 0
  BY ShareAssumption, ArtifactsAssumption, FS_CardinalityType, FS_EmptySet
<1>2. ShareItems \in Nat
  BY <1>1, BoundsAssumption DEF ShareItems
<1> QED
  BY <1>1, <1>2, ShareAssumption

\* Without a slip, every directory a step adds is one that the operation it
\* belongs to may leave when it is interrupted.
LEMMA StepExposes ==
    ASSUME SyncedInv, [Next]_queueVars, ~slipped'
    PROVE  possible' \subseteq possible \cup (IF open THEN InFlight ELSE {})
<1> DEFINE Goal == possible' \subseteq possible \cup (IF open THEN InFlight ELSE {})
<1>a. /\ TypeOK /\ Loadable(disk) /\ disk \in possible /\ disk \in InFlight
      /\ open => entries = disk.rec /\ backoffs = disk.back /\ Queued = Recorded(disk)
  BY DEF SyncedInv, QueueInv, TypeOK, Reopenable, Queued, Recorded, InFlight
<1>1. ASSUME NEW res \in Results, NEW d \in InFlight, open, Write(d, res) PROVE Goal
  BY <1>1 DEF Write, Expose
<1>2. ASSUME NEW res \in Results, Open(res) \/ ProbeStore(res) PROVE Goal
  BY <1>2, <1>a DEF Open, ProbeStore
<1>3. ASSUME NEW res \in Results, NEW a \in Artifacts, Enqueue(a, res) PROVE Goal
  <2>1. open /\ WithRecord(disk, a, nextSeq) \in InFlight
    BY <1>3 DEF Enqueue, CanInsert, Unlocked, InFlight, InsertInFlight
  <2> QED
    BY <1>1, <1>3, <2>1 DEF Enqueue
<1>4. ASSUME NEW res \in Results, NEW a \in Artifacts, Hold(a, res) PROVE Goal
  <2>1. open /\ WithHold(disk, a) \in InFlight
    BY <1>4 DEF Hold, Unlocked, InFlight, SidecarInFlight
  <2> QED
    BY <1>1, <1>4, <2>1 DEF Hold
<1>5. ASSUME NEW res \in Results, NEW a \in Queued, NEW n \in 0..MaxAttempts, Unlocked,
             Write(WithBackoff(disk, a, n), res)
      PROVE  Goal
  <2>1. open /\ WithBackoff(disk, a, n) \in InFlight
    BY <1>5 DEF Unlocked, InFlight, SidecarInFlight
  <2> QED
    BY <1>1, <1>5, <2>1
<1>6. ASSUME NEW res \in Results, NEW a \in Artifacts, NEW n \in 1..MaxAttempts, SetBackoff(a, n, res) PROVE Goal
  BY <1>5, <1>6, BoundsAssumption DEF SetBackoff
<1>7. ASSUME NEW res \in Results, NEW a \in Artifacts, ClearBackoff(a, res) PROVE Goal
  <2>1. a \in Queued /\ NoBackoff \in 0..MaxAttempts
    BY <1>7, <1>a, BoundsAssumption DEF ClearBackoff, Unlocked, Loadable, BackedOff, NoBackoff
  <2> QED
    BY <1>5, <1>7, <2>1 DEF ClearBackoff
<1>8. ASSUME NEW res \in Results, RemoveStep(res) PROVE Goal
  <2>1. open
    BY <1>8 DEF RemoveStep, RemoveHold, RemoveBackoff, RemoveRecord, RestoreRecord
  <2>2. \E d \in RemoveInFlight : Write(d, res)
    BY <1>8 DEF RemoveStep, RemoveHold, RemoveBackoff, RemoveRecord, RestoreRecord, RemoveInFlight
  <2> QED
    BY <1>1, <2>1, <2>2 DEF InFlight
<1>9. ASSUME NEW d \in InFlight, Crash(d) PROVE Goal
  BY <1>9 DEF Crash, Expose
<1>10. CASE PowerLoss
  BY <1>10 DEF PowerLoss
<1>11. CASE ProbeNote \/ (\E a \in Artifacts : Remove(a)) \/ UNCHANGED queueVars
  BY <1>11 DEF ProbeNote, Remove, queueVars, storage
<1> QED
  BY <1>2, <1>3, <1>4, <1>6, <1>7, <1>8, <1>9, <1>10, <1>11 DEF Next

\* An interrupted operation leaves the shares of a synced queue respected: only an
\* insertion adds a record, and only where laneShareRefusalLocked found room.
LEMMA InFlightFitsShares ==
    ASSUME Reserved, SyncedInv, ShareInv, open, NEW d \in InFlight
    PROVE  FitsShares(d)
<1>a. /\ disk \in Directories /\ FitsShares(disk) /\ TypeOK /\ entries = disk.rec
      /\ Queued = Recorded(disk) /\ disk.rec \in [Artifacts -> 0..MaxSeq]
  BY DEF SyncedInv, QueueInv, TypeOK, ShareInv, Queued, Recorded, Directories
<1>b. \A v : /\ IsFiniteSet(RecordsOf(v, disk)) /\ IsFiniteSet(EvidenceOf(v, disk))
             /\ Cardinality(RecordsOf(v, disk)) \in Nat /\ Cardinality(EvidenceOf(v, disk)) \in Nat
  BY ArtifactsAssumption, FS_Subset, FS_CardinalityType DEF RecordsOf, EvidenceOf, Recorded
<1>1. ASSUME Recorded(d) \subseteq Recorded(disk) PROVE FitsShares(d)
  <2> SUFFICES ASSUME NEW v \in Devices
               PROVE  /\ Cardinality(RecordsOf(v, d)) <= ShareItems
                      /\ Cardinality(EvidenceOf(v, d)) <= ShareItems - 1
    BY DEF FitsShares
  <2>1. RecordsOf(v, d) \subseteq RecordsOf(v, disk) /\ EvidenceOf(v, d) \subseteq EvidenceOf(v, disk)
    BY <1>1 DEF RecordsOf, EvidenceOf
  <2>2. /\ Cardinality(RecordsOf(v, d)) \in Nat /\ Cardinality(RecordsOf(v, d)) <= Cardinality(RecordsOf(v, disk))
        /\ Cardinality(EvidenceOf(v, d)) \in Nat /\ Cardinality(EvidenceOf(v, d)) <= Cardinality(EvidenceOf(v, disk))
    BY <1>b, <2>1, FS_Subset, FS_CardinalityType
  <2> QED
    <3>1. /\ Cardinality(RecordsOf(v, disk)) <= ShareItems /\ Cardinality(EvidenceOf(v, disk)) <= ShareItems - 1
          /\ Cardinality(RecordsOf(v, disk)) \in Nat /\ Cardinality(EvidenceOf(v, disk)) \in Nat
          /\ ShareItems \in Nat
      BY <1>a, <1>b, ShareItemsType, Zenon DEF FitsShares
    <3> QED
      BY <2>2, <3>1
<1>2. CASE d \in InsertInFlight
  <2>1. PICK a \in Artifacts : CanInsert(a) /\ d = WithRecord(disk, a, nextSeq)
    BY <1>2 DEF InsertInFlight
  <2>2. Recorded(d) = Recorded(disk) \cup {a} /\ a \notin Recorded(disk)
    <3>1. nextSeq # NoSeq
      BY <1>a, BoundsAssumption DEF TypeOK, NoSeq
    <3>2. d.rec = [disk.rec EXCEPT ![a] = nextSeq]
      BY <1>a, <2>1 DEF WithRecord, Directories
    <3> QED
      BY <1>a, <2>1, <3>1, <3>2 DEF Recorded, CanInsert
  <2>3. /\ ~LaneShareRefusal(a) /\ DeviceItems(DeviceOf[a]) = RecordsOf(DeviceOf[a], disk)
        /\ LaneOf(a) # "registration" => LaneItems(LaneKey(a)) = EvidenceOf(DeviceOf[a], disk)
    BY <1>a, <2>1 DEF CanInsert, Full, DeviceItems, RecordsOf, LaneItems, EvidenceOf, LaneKey, LaneOf
  <2> SUFFICES ASSUME NEW v \in Devices
               PROVE  /\ Cardinality(RecordsOf(v, d)) <= ShareItems
                      /\ Cardinality(EvidenceOf(v, d)) <= ShareItems - 1
    BY DEF FitsShares
  <2>4. Cardinality(RecordsOf(v, d)) <= ShareItems
    <3>1. CASE DeviceOf[a] = v
      <4>1. RecordsOf(v, d) = RecordsOf(v, disk) \cup {a} /\ a \notin RecordsOf(v, disk)
        BY <2>2, <3>1 DEF RecordsOf
      <4>2. Cardinality(RecordsOf(v, d)) = Cardinality(RecordsOf(v, disk)) + 1
        BY <1>b, <4>1, FS_AddElement, Zenon
      <4>3. Cardinality(RecordsOf(v, disk)) < ShareItems
        BY <1>b, <2>3, <3>1, ShareItemsType DEF LaneShareRefusal
      <4> QED
        BY <1>b, <4>2, <4>3, ShareItemsType
    <3>2. CASE DeviceOf[a] # v
      <4>1. RecordsOf(v, d) = RecordsOf(v, disk)
        BY <2>2, <3>2 DEF RecordsOf
      <4> QED
        BY <1>a, <4>1 DEF FitsShares
    <3> QED
      BY <3>1, <3>2
  <2>5. Cardinality(EvidenceOf(v, d)) <= ShareItems - 1
    <3>1. CASE LaneKey(a) = <<v, "evidence">>
      <4>1. EvidenceOf(v, d) = EvidenceOf(v, disk) \cup {a} /\ a \notin EvidenceOf(v, disk)
        BY <2>2, <3>1 DEF EvidenceOf
      <4>2. Cardinality(EvidenceOf(v, d)) = Cardinality(EvidenceOf(v, disk)) + 1
        BY <1>b, <4>1, FS_AddElement, Zenon
      <4>3. DeviceOf[a] = v /\ LaneOf(a) # "registration"
        BY <3>1 DEF LaneKey
      <4>4. Cardinality(EvidenceOf(v, disk)) < ShareItems - 1
        BY <1>b, <2>3, <4>3, ShareItemsType DEF LaneShareRefusal
      <4> QED
        BY <1>b, <4>2, <4>4, ShareItemsType
    <3>2. CASE LaneKey(a) # <<v, "evidence">>
      <4>1. EvidenceOf(v, d) = EvidenceOf(v, disk)
        BY <2>2, <3>2 DEF EvidenceOf
      <4> QED
        BY <1>a, <4>1 DEF FitsShares
    <3> QED
      BY <3>1, <3>2
  <2> QED
    BY <2>4, <2>5
<1>3. CASE d \in RemoveInFlight
  <2>1. rm.step \in RemoveSteps
    BY <1>3 DEF RemoveInFlight, RemoveSteps
  <2>2. rm.id \in Artifacts
    BY <1>a, <2>1 DEF TypeOK, Removals, NotRemoving, RemoveSteps
  <2>3. \/ d = WithoutHold(disk, rm.id)
        \/ d = WithBackoff(disk, rm.id, NoBackoff)
        \/ d = WithRecord(disk, rm.id, NoSeq)
    BY <1>3 DEF RemoveInFlight, SyncedInv
  <2> QED
    BY <1>1, <1>a, <2>2, <2>3 DEF WithoutHold, WithBackoff, WithRecord, Recorded, Directories
<1>4. CASE d \in SidecarInFlight
  BY <1>1, <1>4, <1>a DEF SidecarInFlight, WithHold, WithBackoff, Recorded, Directories
<1> QED
  BY <1>a, <1>2, <1>3, <1>4 DEF InFlight

LEMMA ShareInvStep ==
    ASSUME Reserved, SyncedInv, ShareInv, [Next]_queueVars, ~slipped'
    PROVE  ShareInv'
<1>1. ASSUME NEW d \in possible' PROVE FitsShares(d)
  BY <1>1, StepExposes, InFlightFitsShares DEF ShareInv
<1> QED
  BY <1>1 DEF ShareInv

\* A finite set of at most n elements can be numbered within 1..n.
LEMMA Numbering ==
    ASSUME NEW S, IsFiniteSet(S), NEW n \in Nat, Cardinality(S) <= n
    PROVE  \E f \in [S -> 1..n] : \A x, y \in S : f[x] = f[y] => x = y
<1> DEFINE c == Cardinality(S)
<1>1. c \in Nat /\ ExistsBijection(1..c, S)
  BY FS_CardinalityType
<1>2. PICK b \in [1..c -> S] : \A x \in S : \E i \in 1..c : b[i] = x
  BY <1>1 DEF ExistsBijection, Bijection, Injection, Surjection
<1> DEFINE f == [x \in S |-> CHOOSE i \in 1..c : b[i] = x]
<1>3. \A x \in S : f[x] \in 1..c /\ b[f[x]] = x
  BY <1>2
<1>4. f \in [S -> 1..c] /\ \A x, y \in S : f[x] = f[y] => x = y
  BY <1>3
<1>5. f \in [S -> 1..n]
  BY <1>1, <1>4
<1> QED
  BY <1>4, <1>5, Zenon

LEMMA SharesFit == ASSUME NEW m \in Nat, NEW n \in Nat \ {0} PROVE n * (m \div n) <= m
OBVIOUS

\* Shares that all fit, one of them not exhausted, leave the whole queue room.
LEMMA SharesLeaveRoom ==
    ASSUME Reserved, NEW d, FitsShares(d), NEW v \in Devices, Cardinality(RecordsOf(v, d)) <= ShareItems - 1
    PROVE  Cardinality(Recorded(d)) < MaxItems
<1> DEFINE Slots == Devices \X (1..ShareItems)
           Free == <<v, ShareItems>>
           Limit(u) == IF u = v THEN ShareItems - 1 ELSE ShareItems
           Numbers(u, f) == /\ f \in [RecordsOf(u, d) -> 1..Limit(u)]
                            /\ \A a, b \in RecordsOf(u, d) : f[a] = f[b] => a = b
           Num == [u \in Devices |-> CHOOSE f : Numbers(u, f)]
           Slot == [a \in Recorded(d) |-> <<DeviceOf[a], Num[DeviceOf[a]][a]>>]
<1>a. ShareItems \in Nat /\ ShareItems >= 2 /\ Cardinality(Devices) \in Nat \ {0}
  BY ShareItemsType
<1>1. ASSUME NEW u \in Devices PROVE Numbers(u, Num[u])
  <2>1. IsFiniteSet(RecordsOf(u, d)) /\ Limit(u) \in Nat
    BY <1>a, ArtifactsAssumption, FS_Subset DEF RecordsOf, Recorded
  <2>2. Cardinality(RecordsOf(u, d)) <= Limit(u)
    BY DEF FitsShares
  <2>3. \E f : Numbers(u, f)
    BY <2>1, <2>2, Numbering
  <2> QED
    BY <2>3
<1>2. ASSUME NEW a \in Recorded(d)
      PROVE  /\ DeviceOf[a] \in Devices /\ a \in RecordsOf(DeviceOf[a], d)
             /\ Num[DeviceOf[a]][a] \in 1..Limit(DeviceOf[a])
  <2>1. DeviceOf[a] \in Devices /\ a \in RecordsOf(DeviceOf[a], d)
    BY ArtifactsAssumption DEF RecordsOf, Recorded
  <2>2. Numbers(DeviceOf[a], Num[DeviceOf[a]])
    BY <1>1, <2>1, ZenonT(30)
  <2> HIDE DEF Num
  <2> QED
    BY <2>1, <2>2
<1> HIDE DEF Num
<1>3. Slot \in Injection(Recorded(d), Slots \ {Free})
  <2>1. Slot \in [Recorded(d) -> Slots \ {Free}]
    BY <1>a, <1>2
  <2>2. ASSUME NEW a \in Recorded(d), NEW b \in Recorded(d), Slot[a] = Slot[b] PROVE a = b
    <3>1. DeviceOf[a] = DeviceOf[b] /\ Num[DeviceOf[a]][a] = Num[DeviceOf[a]][b]
      BY <2>2, Zenon
    <3>2. a \in RecordsOf(DeviceOf[a], d) /\ b \in RecordsOf(DeviceOf[a], d) /\ Numbers(DeviceOf[a], Num[DeviceOf[a]])
      BY <1>1, <1>2, <3>1, Zenon
    <3> QED
      BY <3>1, <3>2
  <2> HIDE DEF Slot
  <2> QED
    BY <2>1, <2>2 DEF Injection, IsInjective
<1>4. IsFiniteSet(1..ShareItems) /\ Cardinality(1..ShareItems) = ShareItems
  BY <1>a, FS_Interval
<1>5. IsFiniteSet(Slots) /\ Cardinality(Slots) = Cardinality(Devices) * ShareItems
  BY <1>4, ArtifactsAssumption, FS_Product, Zenon
<1>6. Free \in Slots
  BY <1>a
<1>7. IsFiniteSet(Slots \ {Free}) /\ Cardinality(Slots \ {Free}) = Cardinality(Devices) * ShareItems - 1
  BY <1>5, <1>6, FS_RemoveElement, Zenon
<1>8. IsFiniteSet(Recorded(d)) /\ Cardinality(Recorded(d)) <= Cardinality(Slots \ {Free})
  BY <1>3, <1>7, FS_Injection
<1>9. Cardinality(Devices) * ShareItems <= MaxItems
  BY <1>a, BoundsAssumption, SharesFit DEF ShareItems
<1>10. Cardinality(Recorded(d)) \in Nat /\ Cardinality(Devices) * ShareItems \in Nat
  BY <1>a, <1>8, FS_CardinalityType
<1> QED
  BY <1>7, <1>8, <1>9, <1>10, BoundsAssumption

\* With reserved shares, and as long as no directory sync failed after its change
\* took effect, a device without a queued registration can always admit one,
\* whatever the evidence and the other devices queued and wherever processes
\* crashed and restarted.
THEOREM RegistrationsHaveRoom ==
    ASSUME Reserved
    PROVE  Spec => [](~slipped => RegistrationReserve)
<1> DEFINE Inv == ~slipped => SyncedInv /\ ShareInv
<1>1. Init => Inv
  <2> SUFFICES ASSUME Init PROVE SyncedInv /\ ShareInv
    OBVIOUS
  <2>1. Recorded(EmptyDirectory) = {}
    BY DEF Recorded, EmptyDirectory, Nowhere
  <2>2. \A v : RecordsOf(v, EmptyDirectory) = {} /\ EvidenceOf(v, EmptyDirectory) = {}
    BY <2>1 DEF RecordsOf, EvidenceOf
  <2>3. Cardinality({}) = 0
    BY FS_EmptySet
  <2>4. FitsShares(EmptyDirectory)
    BY <2>2, <2>3, ShareItemsType DEF FitsShares
  <2> QED
    BY <2>4, SyncedInvInit DEF Init, ShareInv
<1>2. Inv /\ [Next]_queueVars => Inv'
  BY SyncedInvStep, ShareInvStep, SlippedStays
<1>3. Inv => (~slipped => RegistrationReserve)
  <2> SUFFICES ASSUME SyncedInv, ShareInv, NEW a \in Artifacts, open, LaneOf(a) = "registration",
                      LaneItems(<<DeviceOf[a], "registration">>) = {}
               PROVE  ~Full(a)
    BY DEF RegistrationReserve
  <2> DEFINE v == DeviceOf[a]
  <2>1. v \in Devices /\ FitsShares(disk) /\ Queued = Recorded(disk)
    BY ArtifactsAssumption DEF SyncedInv, QueueInv, TypeOK, ShareInv, Queued, Recorded
  <2>2. DeviceItems(v) = RecordsOf(v, disk) /\ RecordsOf(v, disk) = EvidenceOf(v, disk)
    BY <2>1 DEF DeviceItems, RecordsOf, EvidenceOf, LaneItems, LaneKey, LaneOf
  <2>3. Cardinality(RecordsOf(v, disk)) <= ShareItems - 1
    BY <2>1, <2>2 DEF FitsShares
  <2>4. Cardinality(Queued) < MaxItems
    BY <2>1, <2>3, SharesLeaveRoom
  <2>5. IsFiniteSet(Queued) /\ IsFiniteSet(RecordsOf(v, disk))
    BY ArtifactsAssumption, FS_Subset DEF Queued, RecordsOf, Recorded
  <2>6. Cardinality(Queued) \in Nat /\ Cardinality(RecordsOf(v, disk)) \in Nat
    BY <2>5, FS_CardinalityType
  <2> QED
    BY <2>2, <2>3, <2>4, <2>6, ShareItemsType, BoundsAssumption DEF Full, LaneShareRefusal
<1> QED
  BY <1>1, <1>2, <1>3, PTL DEF Spec

-----------------------------------------------------------------------------
(* What the delivery worker relies on.                                     *)

\* A change the directory sync reported is all a power loss can leave.
LEMMA WriteOk == ASSUME NEW d, NEW e, Write(d, "ok"), e \in possible' PROVE e = d
BY DEF Write

\* A record that every crash and power loss leaves can stop being so only by the
\* retirement in progress.
LEMMA KeptUnlessRetired ==
    ASSUME TypeOK, [Next]_queueVars, NEW a \in Artifacts, \A d \in possible : d.rec[a] # NoSeq,
           NEW e \in possible', e.rec[a] = NoSeq
    PROVE  rm # NotRemoving /\ rm.id = a
<1>a. /\ disk \in possible /\ disk.rec[a] # NoSeq
      /\ disk \in Directories /\ disk.rec \in [Artifacts -> 0..MaxSeq]
  BY DEF TypeOK, Directories
<1>c. ASSUME NEW d, NEW res, Write(d, res) PROVE d.rec[a] = NoSeq
  BY <1>a, <1>c DEF Write, Expose
<1>d. possible' \subseteq possible => FALSE
  OBVIOUS
<1>e. \A b \in Artifacts : WithHold(disk, b).rec[a] # NoSeq /\ \A n : WithBackoff(disk, b, n).rec[a] # NoSeq
  BY <1>a, RecordChanges
<1>f. \A b \in Artifacts : WithRecord(disk, b, nextSeq).rec[a] # NoSeq
  <2> TAKE b \in Artifacts
  <2>1. WithRecord(disk, b, nextSeq).rec = [disk.rec EXCEPT ![b] = nextSeq]
    BY <1>a, RecordChanges
  <2>2. nextSeq # NoSeq
    BY DEF TypeOK, NoSeq
  <2> QED
    BY <1>a, <2>1, <2>2
<1>r. ASSUME NEW b \in Artifacts
      PROVE  /\ WithoutHold(disk, b).rec = disk.rec /\ \A n : WithBackoff(disk, b, n).rec = disk.rec
             /\ \A n : WithRecord(disk, b, n).rec = [disk.rec EXCEPT ![b] = n]
  BY <1>a, RecordChanges, Zenon
<1>s. ASSUME NEW b \in Artifacts, NEW n, NEW d, d.rec[a] = NoSeq,
             \/ d = WithoutHold(disk, b) \/ d = WithBackoff(disk, b, n) \/ d = WithRecord(disk, b, n)
      PROVE  b = a
  <2>1. CASE d = WithoutHold(disk, b) \/ d = WithBackoff(disk, b, n)
    <3>1. d.rec = disk.rec
      <4>1. WithoutHold(disk, b).rec = disk.rec
        BY <1>r, Zenon
      <4>2. WithBackoff(disk, b, n).rec = disk.rec
        BY <1>r, Zenon
      <4> QED
        BY <2>1, <4>1, <4>2, Zenon
    <3> QED
      BY <1>a, <1>s, <3>1, Zenon
  <2>2. CASE d = WithRecord(disk, b, n)
    <3>1. d.rec = [disk.rec EXCEPT ![b] = n]
      BY <1>r, <2>2, Zenon
    <3> QED
      BY <1>a, <1>s, <3>1
  <2> QED
    BY <1>s, <2>1, <2>2, Zenon
<1>g. ASSUME rm # NotRemoving, NEW d \in {WithoutHold(disk, rm.id), WithBackoff(disk, rm.id, NoBackoff),
                  WithRecord(disk, rm.id, NoSeq), WithRecord(disk, rm.id, entries[rm.id])},
             d.rec[a] = NoSeq
      PROVE  rm.id = a
  <2>1. rm.id \in Artifacts
    BY <1>g DEF TypeOK, Removals
  <2>2. \E n : d = WithoutHold(disk, rm.id) \/ d = WithBackoff(disk, rm.id, n) \/ d = WithRecord(disk, rm.id, n)
    BY <1>g, Zenon
  <2> QED
    BY <1>g, <1>s, <2>1, <2>2, Zenon
<1>1. ASSUME NEW res \in Results, Open(res) \/ ProbeStore(res) PROVE FALSE
  BY <1>1, <1>a, <1>d, Zenon DEF Open, ProbeStore
<1>2. ASSUME NEW res \in Results, NEW b \in Artifacts, Enqueue(b, res) PROVE FALSE
  BY <1>2, <1>c, <1>f, Zenon DEF Enqueue
<1>3. ASSUME NEW res \in Results, NEW b \in Artifacts, Hold(b, res) \/ ClearBackoff(b, res) PROVE FALSE
  BY <1>3, <1>c, <1>e, ZenonT(30) DEF Hold, ClearBackoff
<1>4. ASSUME NEW res \in Results, NEW b \in Artifacts, NEW n \in 1..MaxAttempts, SetBackoff(b, n, res) PROVE FALSE
  BY <1>4, <1>c, <1>e, Zenon DEF SetBackoff
<1>5. ASSUME NEW b \in Artifacts, Remove(b) PROVE FALSE
  BY <1>5, <1>d DEF Remove, storage
<1>6. ASSUME NEW res \in Results, RemoveStep(res) PROVE rm # NotRemoving /\ rm.id = a
  <2>1. rm # NotRemoving
    BY <1>6 DEF RemoveStep, RemoveHold, RemoveBackoff, RemoveRecord, RestoreRecord, NotRemoving
  <2>2. PICK d \in {WithoutHold(disk, rm.id), WithBackoff(disk, rm.id, NoBackoff),
                    WithRecord(disk, rm.id, NoSeq), WithRecord(disk, rm.id, entries[rm.id])} :
          Write(d, res)
    BY <1>6 DEF RemoveStep, RemoveHold, RemoveBackoff, RemoveRecord, RestoreRecord
  <2> QED
    BY <1>c, <1>g, <2>1, <2>2, Zenon
<1>7. CASE ProbeNote
  BY <1>7, <1>d DEF ProbeNote, storage
<1>8. ASSUME NEW d \in InFlight, Crash(d) PROVE rm # NotRemoving /\ rm.id = a
  <2>1. d.rec[a] = NoSeq
    BY <1>8, <1>a DEF Crash, Expose
  <2>2. d \in RemoveInFlight
    BY <1>a, <1>e, <1>f, <2>1 DEF InFlight, InsertInFlight, SidecarInFlight, Queued
  <2>3. rm # NotRemoving /\ d \in {WithoutHold(disk, rm.id), WithBackoff(disk, rm.id, NoBackoff),
                                   WithRecord(disk, rm.id, NoSeq), WithRecord(disk, rm.id, entries[rm.id])}
    BY <2>2 DEF RemoveInFlight, NotRemoving
  <2> QED
    BY <1>g, <2>1, <2>3
<1>9. CASE PowerLoss
  BY <1>9, <1>d DEF PowerLoss
<1>10. CASE UNCHANGED queueVars
  BY <1>10, <1>d DEF queueVars, storage
<1> QED
  BY <1>1, <1>2, <1>3, <1>4, <1>5, <1>6, <1>7, <1>8, <1>9, <1>10 DEF Next

\* A hold in every directory a power loss may leave stays there until its
\* record's retirement.
LEMMA HoldStays ==
    ASSUME TypeOK, [Next]_queueVars, NEW a \in Artifacts, rm # NotRemoving => rm.id # a,
           open => a \in holds, \A d \in possible : a \in d.hold
    PROVE  (open' => a \in holds') /\ \A d \in possible' : a \in d.hold
<1> DEFINE Goal == (open' => a \in holds') /\ \A d \in possible' : a \in d.hold
<1>a. disk \in possible /\ disk \in Directories /\ a \in disk.hold
  BY DEF TypeOK
<1>b. \A b \in Artifacts :
        /\ a \in WithHold(disk, b).hold
        /\ b # a => a \in WithoutHold(disk, b).hold
        /\ \A n : a \in WithBackoff(disk, b, n).hold /\ a \in WithRecord(disk, b, n).hold
  BY <1>a DEF WithHold, WithoutHold, WithBackoff, WithRecord, Directories
<1>c. ASSUME NEW d, NEW res, Write(d, res), a \in d.hold PROVE \A e \in possible' : a \in e.hold
  BY <1>c DEF Write, Expose
<1>d. rm # NotRemoving => rm.id \in Artifacts
  BY DEF TypeOK, Removals
<1>1. ASSUME NEW res \in Results, Open(res) \/ ProbeStore(res) PROVE Goal
  BY <1>1, <1>a DEF Open, ProbeStore, Unlocked
<1>2. ASSUME NEW res \in Results, NEW b \in Artifacts, Enqueue(b, res) PROVE Goal
  BY <1>2, <1>b, <1>c, Zenon DEF Enqueue, CanInsert, Unlocked
<1>3. ASSUME NEW res \in Results, NEW b \in Artifacts, Hold(b, res) \/ ClearBackoff(b, res) PROVE Goal
  BY <1>3, <1>b, <1>c DEF Hold, ClearBackoff, Unlocked
<1>4. ASSUME NEW res \in Results, NEW b \in Artifacts, NEW n \in 1..MaxAttempts, SetBackoff(b, n, res) PROVE Goal
  BY <1>4, <1>b, <1>c, Zenon DEF SetBackoff, Unlocked
<1>5. ASSUME NEW b \in Artifacts, Remove(b) PROVE Goal
  BY <1>5 DEF Remove, Unlocked, storage
<1>6. ASSUME NEW res \in Results, RemoveStep(res) PROVE Goal
  <2>1. rm.step \in RemoveSteps /\ open /\ open' = open
    BY <1>6 DEF RemoveStep, RemoveHold, RemoveBackoff, RemoveRecord, RestoreRecord, RemoveSteps
  <2>2. rm.id \in Artifacts /\ rm.id # a
    BY <1>d, <2>1 DEF RemoveSteps, NotRemoving
  <2>3. a \in holds'
    BY <1>6, <2>1, <2>2 DEF RemoveStep, RemoveHold, RemoveBackoff, RemoveRecord, RestoreRecord
  <2>4. PICK d \in {WithoutHold(disk, rm.id), WithBackoff(disk, rm.id, NoBackoff),
                    WithRecord(disk, rm.id, NoSeq), WithRecord(disk, rm.id, entries[rm.id])} :
          Write(d, res)
    BY <1>6 DEF RemoveStep, RemoveHold, RemoveBackoff, RemoveRecord, RestoreRecord
  <2>5. a \in d.hold
    BY <1>b, <2>2, <2>4, Zenon
  <2> QED
    BY <1>c, <2>3, <2>4, <2>5, Zenon
<1>7. CASE ProbeNote
  BY <1>7 DEF ProbeNote, storage
<1>8. ASSUME NEW d \in InFlight, Crash(d) PROVE Goal
  <2>1. a \in d.hold
    <3>1. CASE d \in RemoveInFlight
      <4>1. rm # NotRemoving /\ d \in {WithoutHold(disk, rm.id), WithBackoff(disk, rm.id, NoBackoff),
                                   WithRecord(disk, rm.id, NoSeq), WithRecord(disk, rm.id, entries[rm.id])}
        BY <3>1 DEF RemoveInFlight, NotRemoving
      <4> QED
        BY <1>b, <1>d, <4>1
    <3>2. CASE d \notin RemoveInFlight
      BY <1>a, <1>b, <3>2 DEF InFlight, InsertInFlight, SidecarInFlight, Queued
    <3> QED
      BY <3>1, <3>2
  <2> QED
    BY <1>8, <2>1 DEF Crash, Expose
<1>9. CASE PowerLoss
  BY <1>9 DEF PowerLoss, memory
<1>10. CASE UNCHANGED queueVars
  BY <1>10, Zenon DEF queueVars, memory, storage
<1> QED
  BY <1>1, <1>2, <1>3, <1>4, <1>5, <1>6, <1>7, <1>8, <1>9, <1>10, Zenon DEF Next

\* Whoever loads d finds a at the head of its lane with a back-off beside it.
LeadsLane(a, d) ==
    /\ d.rec[a] # NoSeq /\ d.back[a] # NoBackoff
    /\ \A b \in Recorded(d) : LaneKey(b) = LaneKey(a) => d.rec[a] <= d.rec[b]

\* The changes of a directory that leave a backed-off head where it is.
LEMMA LeadStays ==
    ASSUME NEW d \in Directories, NEW a \in Artifacts, LeadsLane(a, d), NEW b \in Artifacts
    PROVE  /\ LeadsLane(a, WithHold(d, b)) /\ LeadsLane(a, WithoutHold(d, b))
           /\ b # a => /\ \A n : LeadsLane(a, WithBackoff(d, b, n))
                       /\ LeadsLane(a, WithRecord(d, b, NoSeq))
                       /\ \A seq \in Nat : d.rec[a] < seq => LeadsLane(a, WithRecord(d, b, seq))
<1>1. d.rec \in [Artifacts -> 0..MaxSeq] /\ d.back \in [Artifacts -> 0..MaxAttempts]
  BY DEF Directories
<1>2. ASSUME NEW e, e.rec = d.rec, e.back = d.back \/ (b # a /\ \E n : e.back = [d.back EXCEPT ![b] = n])
      PROVE  LeadsLane(a, e)
  <2>1. e.back[a] = d.back[a] /\ Recorded(e) = Recorded(d)
    BY <1>1, <1>2, Zenon DEF Recorded
  <2> QED
    BY <1>2, <2>1 DEF LeadsLane
<1>3. ASSUME b # a, NEW e, NEW seq \in Nat, e.back = d.back, e.rec = [d.rec EXCEPT ![b] = seq],
             seq = NoSeq \/ d.rec[a] < seq
      PROVE  LeadsLane(a, e)
  <2>1. e.rec[a] = d.rec[a] /\ \A c \in Artifacts \ {b} : e.rec[c] = d.rec[c]
    BY <1>1, <1>3
  <2>2. e.rec[b] = seq /\ d.rec[a] \in Nat
    BY <1>1, <1>3
  <2>3. ASSUME NEW c \in Recorded(e), LaneKey(c) = LaneKey(a) PROVE d.rec[a] <= e.rec[c]
    BY <1>3, <2>1, <2>2, <2>3 DEF LeadsLane, Recorded
  <2> QED
    BY <1>3, <2>1, <2>3 DEF LeadsLane
<1>4. /\ WithHold(d, b).rec = d.rec /\ WithHold(d, b).back = d.back
      /\ WithoutHold(d, b).rec = d.rec /\ WithoutHold(d, b).back = d.back
      /\ \A n : WithBackoff(d, b, n).rec = d.rec /\ WithBackoff(d, b, n).back = [d.back EXCEPT ![b] = n]
      /\ \A n : WithRecord(d, b, n).back = d.back /\ WithRecord(d, b, n).rec = [d.rec EXCEPT ![b] = n]
  BY DEF WithHold, WithoutHold, WithBackoff, WithRecord, Directories
<1>5. LeadsLane(a, WithHold(d, b)) /\ LeadsLane(a, WithoutHold(d, b))
  BY <1>2, <1>4, Zenon
<1>6. ASSUME b # a, NEW n PROVE LeadsLane(a, WithBackoff(d, b, n))
  <2>1. b # a /\ WithBackoff(d, b, n).rec = d.rec /\ \E m : WithBackoff(d, b, n).back = [d.back EXCEPT ![b] = m]
    BY <1>4, <1>6, Zenon
  <2> QED
    BY <1>2, <2>1, ZenonT(30)
<1>7. ASSUME b # a, NEW seq \in Nat, seq = NoSeq \/ d.rec[a] < seq PROVE LeadsLane(a, WithRecord(d, b, seq))
  BY <1>3, <1>4, <1>7, ZenonT(30)
<1> QED
  BY <1>5, <1>6, <1>7 DEF NoSeq
=============================================================================
