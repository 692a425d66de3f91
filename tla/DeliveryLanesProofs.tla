------------------------- MODULE DeliveryLanesProofs -------------------------
(***************************************************************************)
(* Proofs about the delivery worker (DeliveryLanes): every use it makes of   *)
(* the outbound queue is an operation of the queue, so what is proved of      *)
(* DurableQueue holds under it; no admitted artifact is lost before it is      *)
(* delivered; a lane sends only its head, never one refused for good; a        *)
(* handoff is never lost nor imagined; a persisted back-off outlives the        *)
(* process; and the worker implements the contract of EvidenceCustody.          *)
(***************************************************************************)
EXTENDS DeliveryLanes, DurableQueueProofs, WellFoundedInduction

-----------------------------------------------------------------------------
(* Where the lanes are.                                                    *)

LaneType ==
    /\ phase \in [LaneKeys -> Phases]
    /\ attempted \in [LaneKeys -> Artifacts \cup {None}]
    /\ held \in [LaneKeys -> Artifacts \cup {None}]
    /\ stall \in [LaneKeys -> {"none", "backoff", "handoff"}]
    /\ attempts \in [LaneKeys -> 0..MaxAttempts]
    /\ wake \in [LaneKeys -> BOOLEAN] /\ backing \in [LaneKeys -> BOOLEAN] /\ owed \in [LaneKeys -> BOOLEAN]
    /\ accepted \subseteq Artifacts /\ staged \subseteq Artifacts /\ admitted \subseteq Artifacts
    /\ refused \subseteq Artifacts /\ heldDurably \subseteq Artifacts /\ promised \subseteq Artifacts

\* A lane past the reading of its head works on a record of its own that is
\* still queued, and the retirement that holds q.mu is the one of its lane.
LaneInv ==
    /\ LaneType
    /\ ~open => rm = NotRemoving /\ \A k \in LaneKeys : At(k, "idle") /\ stall[k] = "none"
    /\ \A k \in LaneKeys : ~At(k, "idle") => attempted[k] \in LaneItems(k)
    /\ rm # NotRemoving => At(LaneKey(rm.id), "retiring") /\ attempted[LaneKey(rm.id)] = rm.id

LEMMA LessThanWellFounded == IsWellFoundedOn({pair \in Nat \X Nat : pair[1] < pair[2]}, Nat)
BY NatLessThanWellFounded, Zenon DEF OpToRel

\* Something in a non-empty set has the least number.
LEMMA LeastExists ==
    ASSUME NEW S, S # {}, NEW f, \A x \in S : f[x] \in Nat
    PROVE  \E x \in S : \A y \in S : f[x] <= f[y]
<1> DEFINE T == {f[x] : x \in S}
           R == {pair \in Nat \X Nat : pair[1] < pair[2]}
<1>1. T \subseteq Nat /\ T # {}
  OBVIOUS
<1>2. IsWellFoundedOn(R, Nat)
  BY LessThanWellFounded
<1> HIDE DEF T, R
<1>3. PICK m \in T : \A n \in T : ~(<<n, m>> \in R)
  BY <1>1, <1>2, WFMin, Zenon
<1>4. ASSUME NEW n \in T PROVE m <= n
  <2>1. n \in Nat /\ m \in Nat
    BY <1>1
  <2>2. n < m => <<n, m>> \in R
    BY <2>1 DEF R
  <2> QED
    BY <1>3, <2>1, <2>2
<1> QED
  BY <1>4 DEF T

LEMMA LaneKeyType == \A a \in Artifacts : LaneKey(a) \in LaneKeys
BY ArtifactsAssumption DEF LaneKey, LaneKeys, LaneOf, Lanes

\* scheduleBackoff never persists a count of zero or one above the bound.
LEMMA NextAttemptsType ==
    ASSUME LaneType, NEW k \in LaneKeys
    PROVE  NextAttempts(k) \in 1..MaxAttempts
<1>1. attempts[k] \in 0..MaxAttempts
  BY DEF LaneType
<1> QED
  BY <1>1, BoundsAssumption DEF NextAttempts

\* What a lane may have exposed when the process dies is among what the queue
\* may have.
LEMMA LaneInFlightIsInFlight ==
    ASSUME LaneInv, NEW k \in LaneKeys
    PROVE  LaneInFlight(k) \subseteq InFlight
<1> SUFFICES ASSUME NEW d \in LaneInFlight(k) PROVE d \in InFlight
  OBVIOUS
<1>0. NoBackoff \in 0..MaxAttempts /\ NextAttempts(k) \in 0..MaxAttempts
  BY NextAttemptsType, BoundsAssumption DEF LaneInv, NoBackoff
<1>1. ~At(k, "idle") => attempted[k] \in Queued
  BY DEF LaneInv, LaneItems
<1>2. /\ Unlocked /\ ~At(k, "idle")
      /\ \/ d = WithHold(disk, attempted[k])
         \/ d = WithBackoff(disk, attempted[k], NextAttempts(k))
         \/ d = WithBackoff(disk, attempted[k], NoBackoff)
  BY DEF LaneInFlight, At
<1> QED
  BY <1>0, <1>1, <1>2 DEF InFlight, SidecarInFlight

\* Every step of the worker is one operation of the queue or leaves it alone.
LEMMA LanesUseTheQueue ==
    ASSUME LaneInv, [LanesNext]_vars
    PROVE  [Next]_queueVars
<1>a. \A k \in LaneKeys : ~At(k, "idle") => attempted[k] \in Artifacts
  BY DEF LaneInv, LaneItems, Queued
<1>1. ASSUME NEW res \in Results, Start(res) PROVE Next
  BY <1>1 DEF Start, Next
<1>2. ASSUME NEW res \in Results, NEW a \in Artifacts, Admit(a, res) PROVE Next
  BY <1>2 DEF Admit, Next
<1>3. ASSUME NEW a \in Artifacts, DueWhileDown(a) \/ RefuseFull(a) PROVE UNCHANGED queueVars
  BY <1>3 DEF DueWhileDown, RefuseFull
<1>4. ASSUME NEW d \in Devices, NotifyDevice(d) PROVE UNCHANGED queueVars
  BY <1>4 DEF NotifyDevice
<1>5. ASSUME NEW k \in LaneKeys, LaneStep(k) PROVE [Next]_queueVars
  <2>1. CASE \/ IgnoreWake(k) \/ DeliverHead(k) \/ Due(k) \/ Accept(k) \/ Unanswered(k)
             \/ RefuseUntilHandoff(k) \/ RefuseForGood(k)
    BY <2>1 DEF IgnoreWake, DeliverHead, Due, Accept, Unanswered, RefuseUntilHandoff, RefuseForGood
  <2>2. CASE BeginRetire(k)
    BY <1>a, <2>2 DEF BeginRetire, At, Next
  <2>3. ASSUME NEW res \in Results, PersistHold(k, res) PROVE Next
    BY <1>a, <2>3 DEF PersistHold, At, Next
  <2>4. ASSUME NEW res \in Results, DropBackoff(k, res) PROVE [Next]_queueVars
    BY <1>a, <2>4 DEF DropBackoff, At, Next
  <2>5. ASSUME NEW res \in Results, ScheduleBackoff(k, res) PROVE Next
    <3>1. NextAttempts(k) \in 1..MaxAttempts
      BY NextAttemptsType DEF LaneInv
    <3>2. attempted[k] \in Artifacts /\ SetBackoff(attempted[k], NextAttempts(k), res)
      BY <1>a, <2>5 DEF ScheduleBackoff, At
    <3> QED
      BY <3>1, <3>2 DEF Next
  <2>6. ASSUME NEW res \in Results, StoreReturn(k, res) PROVE UNCHANGED queueVars
    BY <2>6 DEF StoreReturn
  <2>7. ASSUME NEW res \in Results, Retire(k, res) PROVE Next
    BY <2>7 DEF Retire, Next
  <2> QED
    BY <1>5, <2>1, <2>2, <2>3, <2>4, <2>5, <2>6, <2>7 DEF LaneStep
<1>6. CASE ProbeStep
  BY <1>6 DEF ProbeStep, Next
<1>7. CASE Stop
  <2>1. PICK d \in {disk} \cup InsertInFlight \cup RemoveInFlight \cup UNION {LaneInFlight(k) : k \in LaneKeys} :
          Crash(d)
    BY <1>7 DEF Stop
  <2>2. d \in InFlight
    BY LaneInFlightIsInFlight DEF InFlight
  <2> QED
    BY <2>1, <2>2 DEF Next
<1>8. CASE LosePower
  BY <1>8 DEF LosePower, Next
<1>9. CASE UNCHANGED vars
  BY <1>9 DEF vars
<1> QED
  BY <1>1, <1>2, <1>3, <1>4, <1>5, <1>6, <1>7, <1>8, <1>9 DEF LanesNext

\* The head a lane finds in a directory is the oldest record of the lane.
LEMMA LaneHeadIsLeast ==
    ASSUME NEW e \in [Artifacts -> 0..MaxSeq], NEW k
    PROVE  LET items == {a \in Artifacts : e[a] # NoSeq /\ LaneKey(a) = k}
           IN  \/ items = {} /\ LaneHead(e, k) = None
               \/ LaneHead(e, k) \in items /\ \A b \in items : e[LaneHead(e, k)] <= e[b]
<1> DEFINE items == {a \in Artifacts : e[a] # NoSeq /\ LaneKey(a) = k}
<1>1. ASSUME items # {} PROVE \E a \in items : \A b \in items : e[a] <= e[b]
  <2>1. \A a \in items : e[a] \in Nat
    BY BoundsAssumption
  <2> HIDE DEF items
  <2> QED
    BY <1>1, <2>1, LeastExists
<1> QED
  BY <1>1 DEF LaneHead

LEMMA LaneTypeStep ==
    ASSUME LaneInv, TypeOK, [LanesNext]_vars
    PROVE  LaneType'
<1> USE DEF LaneType
<1>a. \A k \in LaneKeys : ~At(k, "idle") => attempted[k] \in Artifacts
  BY DEF LaneInv, LaneItems, Queued
<1>b. LaneType /\ 0 \in 0..MaxAttempts
  BY BoundsAssumption DEF LaneInv
<1>1. ASSUME NEW res \in Results, Start(res) PROVE LaneType'
  <2> DEFINE head == [k \in LaneKeys |-> LaneHead(disk.rec, k)]
  <2>1. /\ held' = [k \in LaneKeys |-> IF head[k] \in disk.hold THEN head[k] ELSE None]
        /\ attempts' = [k \in LaneKeys |-> IF RestoresBackoff(head[k]) THEN disk.back[head[k]] ELSE 0]
        /\ backing' = [k \in LaneKeys |-> RestoresBackoff(head[k])]
        /\ UNCHANGED <<phase, wake, attempted, stall, handing, authorityVars, history>>
    BY <1>1 DEF Start
  <2>2. /\ disk.hold \subseteq Artifacts /\ disk.back \in [Artifacts -> 0..MaxAttempts]
        /\ disk.rec \in [Artifacts -> 0..MaxSeq]
    BY DEF TypeOK, Directories
  <2>3. \A k \in LaneKeys : head[k] \in Artifacts \cup {None}
    BY <2>2, LaneHeadIsLeast
  <2> HIDE DEF head
  <2>4. /\ held' \in [LaneKeys -> Artifacts \cup {None}]
        /\ attempts' \in [LaneKeys -> 0..MaxAttempts]
        /\ backing' \in [LaneKeys -> BOOLEAN]
    BY <1>b, <2>1, <2>2, <2>3, ArtifactsAssumption DEF RestoresBackoff
  <2> QED
    BY <1>b, <2>1, <2>4 DEF authorityVars, history
<1>2. ASSUME NEW res \in Results, NEW a \in Artifacts, Admit(a, res) PROVE LaneType'
  BY <1>2, <1>b DEF Admit, authorityVars
<1>3. ASSUME NEW a \in Artifacts, DueWhileDown(a) \/ RefuseFull(a) PROVE LaneType'
  BY <1>3, <1>b DEF DueWhileDown, RefuseFull, laneVars, authorityVars, history
<1>4. ASSUME NEW d \in Devices, NotifyDevice(d) PROVE LaneType'
  <2>1. wake' \in [LaneKeys -> BOOLEAN] /\ owed' \in [LaneKeys -> BOOLEAN]
    BY <1>4, Zenon DEF NotifyDevice
  <2> QED
    BY <1>4, <1>b, <2>1 DEF NotifyDevice, authorityVars
<1>5. ASSUME NEW k \in LaneKeys, LaneStep(k) PROVE LaneType'
  <2> USE <1>a, <1>b DEF At, Goto, Phases, authorityVars, history
  <2>1. CASE IgnoreWake(k)
    BY <2>1 DEF IgnoreWake
  <2>2. CASE DeliverHead(k)
    BY <2>2 DEF DeliverHead, DrainWake, IsHead, LaneItems, Queued
  <2>3. CASE Due(k)
    BY <2>3 DEF Due
  <2>4. CASE Accept(k) \/ Unanswered(k)
    BY <2>4 DEF Accept, Unanswered
  <2>5. CASE RefuseUntilHandoff(k) \/ RefuseForGood(k)
    BY <2>5 DEF RefuseUntilHandoff, RefuseForGood
  <2>6. CASE BeginRetire(k)
    BY <2>6 DEF BeginRetire
  <2>7. ASSUME NEW res \in Results, PersistHold(k, res) \/ DropBackoff(k, res) PROVE LaneType'
    BY <2>7 DEF PersistHold, DropBackoff
  <2>8. ASSUME NEW res \in Results, ScheduleBackoff(k, res) PROVE LaneType'
    <3>1. NextAttempts(k) \in 0..MaxAttempts
      BY NextAttemptsType
    <3> QED
      BY <2>8, <3>1 DEF ScheduleBackoff
  <2>9. ASSUME NEW res \in Results, StoreReturn(k, res) PROVE LaneType'
    BY <2>9 DEF StoreReturn
  <2>10. ASSUME NEW res \in Results, Retire(k, res) PROVE LaneType'
    <3>1. wake' \in [LaneKeys -> BOOLEAN] /\ owed' \in [LaneKeys -> BOOLEAN]
      BY <2>10, Zenon DEF Retire, Retired
    <3>2. /\ phase' \in [LaneKeys -> Phases] /\ attempted' \in [LaneKeys -> Artifacts \cup {None}]
          /\ stall' \in [LaneKeys -> {"none", "backoff", "handoff"}] /\ attempts' \in [LaneKeys -> 0..MaxAttempts]
      BY <2>10 DEF Retire
    <3> QED
      BY <2>10, <3>1, <3>2 DEF Retire
  <2> QED
    BY <1>5, <2>1, <2>2, <2>3, <2>4, <2>5, <2>6, <2>7, <2>8, <2>9, <2>10 DEF LaneStep
<1>6. CASE ProbeStep
  BY <1>6, <1>b DEF ProbeStep, laneVars, authorityVars, history
<1>7. CASE Stop
  BY <1>7, <1>b DEF Stop, LanesReset, authorityVars, Phases
<1>8. CASE LosePower
  BY <1>8, <1>b DEF LosePower, laneVars, authorityVars, history
<1>9. CASE UNCHANGED vars
  BY <1>9, <1>b DEF vars, laneVars, authorityVars, history
<1> QED
  BY <1>1, <1>2, <1>3, <1>4, <1>5, <1>6, <1>7, <1>8, <1>9 DEF LanesNext

LEMMA LaneInvInit == LanesInit => LaneInv
<1> SUFFICES ASSUME LanesInit PROVE LaneInv
  OBVIOUS
<1>1. LaneType
  BY BoundsAssumption DEF LanesInit, LaneType, Phases
<1> QED
  BY <1>1 DEF LanesInit, Init, LaneInv, At

\* The steps that leave the queue alone, or change no entry and begin or end no
\* retirement, keep a lane on its own record.
LEMMA LaneInvStep ==
    ASSUME LaneInv, TypeOK, [LanesNext]_vars
    PROVE  LaneInv'
<1> DEFINE Down == ~open => rm = NotRemoving /\ \A k \in LaneKeys : At(k, "idle") /\ stall[k] = "none"
           Own == \A k \in LaneKeys : ~At(k, "idle") => attempted[k] \in LaneItems(k)
           Locked == rm # NotRemoving => At(LaneKey(rm.id), "retiring") /\ attempted[LaneKey(rm.id)] = rm.id
           Goal == Down' /\ Own' /\ Locked'
<1> SUFFICES Goal
  BY LaneTypeStep DEF LaneInv
<1>a. LaneType /\ Down /\ Own /\ Locked
  BY DEF LaneInv
<1>b. rm # NotRemoving => rm.id \in Artifacts /\ LaneKey(rm.id) \in LaneKeys
  BY LaneKeyType DEF TypeOK, Removals
<1>c. \A k \in LaneKeys : ~At(k, "idle") => attempted[k] \in Artifacts /\ LaneKey(attempted[k]) = k
  BY <1>a DEF LaneItems, Queued
<1>d. entries \in [Artifacts -> 0..MaxSeq]
  BY DEF TypeOK
<1>1. ASSUME NEW res \in Results, Start(res) PROVE Goal
  BY <1>1, <1>a, Zenon DEF Start, Open, At
<1>2. ASSUME NEW res \in Results, NEW a \in Artifacts, Admit(a, res) PROVE Goal
  <2>1. /\ open' = open /\ rm' = rm /\ UNCHANGED <<phase, attempted, stall>>
        /\ entries' = entries \/ entries' = [entries EXCEPT ![a] = nextSeq]
        /\ nextSeq # NoSeq /\ Queued \subseteq Queued'
    BY <1>2, <1>d DEF Admit, Enqueue, CanInsert, Queued, TypeOK, NoSeq
  <2> QED
    BY <1>a, <2>1 DEF At, LaneItems
<1>3. ASSUME NEW a \in Artifacts, DueWhileDown(a) \/ RefuseFull(a) PROVE Goal
  BY <1>3, <1>a, Zenon DEF DueWhileDown, RefuseFull, laneVars, queueVars, memory, At, LaneItems, Queued
<1>4. ASSUME NEW d \in Devices, NotifyDevice(d) PROVE Goal
  BY <1>4, <1>a, Zenon DEF NotifyDevice, queueVars, memory, At, LaneItems, Queued
<1>5. ASSUME NEW k \in LaneKeys, LaneStep(k) PROVE Goal
  <2>0. ~At(k, "idle") => open
    BY <1>a
  <2>1. CASE IgnoreWake(k) \/ Due(k)
    BY <2>1, <1>a, ZenonT(30) DEF IgnoreWake, Due, queueVars, memory, At, LaneItems, Queued
  <2>2. CASE DeliverHead(k)
    <3>1. open /\ rm = NotRemoving /\ UNCHANGED queueVars
      BY <2>2, Zenon DEF DeliverHead, Unlocked
    <3>2. \/ phase' = phase /\ attempted' = attempted
          \/ /\ phase' = [phase EXCEPT ![k] = "sending"]
             /\ \E a \in LaneItems(k) : attempted' = [attempted EXCEPT ![k] = a]
      BY <2>2, Zenon DEF DeliverHead, Goto, IsHead
    <3>3. \A j \in LaneKeys : phase'[j] # "idle" => attempted'[j] \in LaneItems(j)
      BY <1>a, <3>2 DEF At, LaneType
    <3> QED
      BY <3>1, <3>3 DEF queueVars, memory, At, LaneItems, Queued
  <2>3. CASE Accept(k) \/ Unanswered(k) \/ RefuseUntilHandoff(k) \/ RefuseForGood(k)
    <3>1. /\ open /\ At(k, "sending") /\ UNCHANGED queueVars /\ attempted' = attempted
          /\ phase' \in {[phase EXCEPT ![k] = p] : p \in Phases}
      BY <2>0, <2>3 DEF Accept, Unanswered, RefuseUntilHandoff, RefuseForGood, Goto, At, Phases
    <3> QED
      BY <1>a, <1>b, <1>c, <3>1 DEF queueVars, memory, At, LaneItems, Queued, LaneType
  <2>4. CASE BeginRetire(k)
    BY <2>0, <2>4, <1>a, <1>c DEF BeginRetire, Remove, At, Goto, LaneItems, Queued, LaneType
  <2>5. ASSUME NEW res \in Results,
               PersistHold(k, res) \/ DropBackoff(k, res) \/ ScheduleBackoff(k, res) \/ StoreReturn(k, res)
        PROVE  Goal
    <3>1. /\ open /\ UNCHANGED <<open, entries, rm, attempted>>
          /\ ~At(k, "idle") /\ ~At(k, "retiring")
          /\ phase' \in {[phase EXCEPT ![k] = p] : p \in Phases}
      BY <2>0, <2>5 DEF PersistHold, DropBackoff, ScheduleBackoff, StoreReturn, Hold, ClearBackoff, SetBackoff,
                        Goto, At, Phases, queueVars, memory
    <3> QED
      BY <1>a, <1>b, <1>c, <3>1 DEF At, LaneItems, Queued, LaneType
  <2>6. ASSUME NEW res \in Results, Retire(k, res) PROVE Goal
    <3>0. At(k, "retiring") /\ rm # NotRemoving /\ rm.id = attempted[k] /\ RemoveStep(res)
      BY <2>6 DEF Retire, NotRemoving
    <3>1. /\ At(k, "retiring") /\ open /\ open' = open
          /\ rm # NotRemoving /\ rm.id = attempted[k] /\ LaneKey(rm.id) = k
      BY <3>0, <1>c DEF RemoveStep, RemoveHold, RemoveBackoff, RemoveRecord, RestoreRecord, At
    <3>2. /\ rm' # NotRemoving => rm'.id = rm.id /\ entries' = entries
          /\ entries' = entries \/ entries' = [entries EXCEPT ![rm.id] = NoSeq]
      BY <3>0 DEF RemoveStep, RemoveHold, RemoveBackoff, RemoveRecord, RestoreRecord,
                  NotRemoving, TypeOK, Removals
    <3>3. \/ rm' # NotRemoving /\ phase' = phase /\ attempted' = attempted
          \/ rm' = NotRemoving /\ phase' = [phase EXCEPT ![k] = "idle"]
               /\ attempted' = [attempted EXCEPT ![k] = None]
          \/ rm' = NotRemoving /\ entries'[attempted[k]] # NoSeq /\ phase' = [phase EXCEPT ![k] = "failed"]
               /\ attempted' = attempted
      BY <2>6 DEF Retire, Goto
    <3> QED
      BY <1>a, <1>c, <1>d, <3>1, <3>2, <3>3 DEF At, LaneItems, Queued, LaneType
  <2> QED
    BY <1>5, <2>1, <2>2, <2>3, <2>4, <2>5, <2>6, Zenon DEF LaneStep
<1>6. CASE ProbeStep
  BY <1>6, <1>a DEF ProbeStep, ProbeNote, ProbeStore, laneVars, At, LaneItems, Queued
<1>7. CASE Stop
  BY <1>7 DEF Stop, Crash, LanesReset, At
<1>8. CASE LosePower
  BY <1>8, <1>a DEF LosePower, PowerLoss, memory, laneVars, At, LaneItems, Queued
<1>9. CASE UNCHANGED vars
  BY <1>9, <1>a DEF vars, queueVars, memory, laneVars, At, LaneItems, Queued
<1> QED
  BY <1>1, <1>2, <1>3, <1>4, <1>5, <1>6, <1>7, <1>8, <1>9, ZenonT(30) DEF LanesNext

LEMMA LanesInvStep ==
    ASSUME LaneInv, QueueInv, [LanesNext]_vars
    PROVE  LaneInv' /\ QueueInv' /\ [Next]_queueVars
<1>1. TypeOK
  BY DEF QueueInv
<1> QED
  BY <1>1, LaneInvStep, LanesUseTheQueue, QueueInvStep

LEMMA LanesInvInit == LanesInit => LaneInv /\ QueueInv
BY LaneInvInit, QueueInvInit DEF LanesInit

\* The worker uses the queue only through its operations: whatever the lanes,
\* the admissions, the probe and the crashes do in whatever order, the queue
\* under them behaves as DurableQueue says, and what is proved of it holds.
THEOREM QueueUnderLanes == LanesSpec => Spec
<1>1. LanesInit => Init
  BY DEF LanesInit
<1> QED
  BY <1>1, LanesInvInit, LanesInvStep, PTL DEF LanesSpec, Spec

-----------------------------------------------------------------------------
(* Nothing is lost.                                                        *)

\* An artifact leaves custody only for the retirement of a lane that has the
\* authority's acceptance and, for an envelope, its receipt.
DutyInv ==
    /\ \A k \in LaneKeys : At(k, "accepted") => attempted[k] \in accepted
    /\ \A k \in LaneKeys : phase[k] \in {"staged", "retiring"} => Delivered(attempted[k])
    /\ \A a \in admitted \ custody : Delivered(a)

\* What the authority has recorded and what is staged are never taken back.
LEMMA DeliveredStays ==
    ASSUME [LanesNext]_vars
    PROVE  /\ accepted \subseteq accepted' /\ staged \subseteq staged'
           /\ \A a : Delivered(a) => Delivered(a)'
<1>1. accepted \subseteq accepted' /\ staged \subseteq staged'
  <2>1. ASSUME NEW k \in LaneKeys, LaneStep(k) PROVE accepted \subseteq accepted' /\ staged \subseteq staged'
    <3>1. CASE \/ IgnoreWake(k) \/ DeliverHead(k) \/ Due(k) \/ RefuseUntilHandoff(k) \/ RefuseForGood(k)
               \/ BeginRetire(k)
      BY <3>1 DEF IgnoreWake, DeliverHead, Due, RefuseUntilHandoff, RefuseForGood, BeginRetire, authorityVars
    <3>2. CASE Accept(k) \/ Unanswered(k)
      BY <3>2 DEF Accept, Unanswered
    <3>3. ASSUME NEW res \in Results,
                 PersistHold(k, res) \/ DropBackoff(k, res) \/ ScheduleBackoff(k, res) \/ Retire(k, res)
          PROVE  accepted \subseteq accepted' /\ staged \subseteq staged'
      BY <3>3, ZenonT(30) DEF PersistHold, DropBackoff, ScheduleBackoff, Retire, authorityVars
    <3>4. ASSUME NEW res \in Results, StoreReturn(k, res)
          PROVE  accepted \subseteq accepted' /\ staged \subseteq staged'
      BY <3>4, ZenonT(30) DEF StoreReturn
    <3> QED
      BY <2>1, <3>1, <3>2, <3>3, <3>4 DEF LaneStep
  <2>2. CASE ~\E k \in LaneKeys : LaneStep(k)
    BY <2>2, ZenonT(30) DEF LanesNext, Start, Admit, DueWhileDown, RefuseFull, NotifyDevice, ProbeStep, Stop, LosePower,
                vars, authorityVars
  <2> QED
    BY <2>1, <2>2
<1> QED
  BY <1>1 DEF Delivered

LEMMA DutyInvStep ==
    ASSUME LaneInv, DutyInv, [LanesNext]_vars
    PROVE  DutyInv'
<1> DEFINE Taken == \A k \in LaneKeys : At(k, "accepted") => attempted[k] \in accepted
           Done == \A k \in LaneKeys : phase[k] \in {"staged", "retiring"} => Delivered(attempted[k])
           Duty == \A a \in admitted \ custody : Delivered(a)
           Goal == Taken' /\ Done' /\ Duty'
<1> SUFFICES Goal
  BY Zenon DEF DutyInv
<1>a. LaneType /\ Taken /\ Done /\ Duty
  BY Zenon DEF LaneInv, DutyInv
<1>b. accepted \subseteq accepted' /\ staged \subseteq staged' /\ \A a : Delivered(a) => Delivered(a)'
  BY DeliveredStays
<1>c. ASSUME UNCHANGED <<phase, attempted>> PROVE Taken' /\ Done'
  BY <1>a, <1>b, <1>c DEF At
<1>d. ASSUME UNCHANGED <<admitted, custody>> PROVE Duty'
  BY <1>a, <1>b, <1>d
<1>1. ASSUME NEW res \in Results, Start(res) PROVE Goal
  BY <1>1, <1>c, <1>d, Zenon DEF Start, Open, history
<1>2. ASSUME NEW res \in Results, NEW a \in Artifacts, Admit(a, res) PROVE Goal
  <2>1. Taken' /\ Done'
    BY <1>2, <1>c DEF Admit
  <2>2. Duty'
    BY <1>2, <1>a, <1>b DEF Admit, Enqueue
  <2> QED
    BY <2>1, <2>2
<1>3. ASSUME NEW a \in Artifacts, DueWhileDown(a) \/ RefuseFull(a) PROVE Goal
  BY <1>3, <1>c, <1>d, ZenonT(30) DEF DueWhileDown, RefuseFull, laneVars, history, queueVars
<1>4. ASSUME NEW d \in Devices, NotifyDevice(d) PROVE Goal
  BY <1>4, <1>c, <1>d, ZenonT(30) DEF NotifyDevice, queueVars
<1>5. ASSUME NEW k \in LaneKeys, LaneStep(k) PROVE Goal
  <2>0. ASSUME phase' = [phase EXCEPT ![k] = phase'[k]], attempted' = attempted,
               phase'[k] = "accepted" => attempted[k] \in accepted',
               phase'[k] \in {"staged", "retiring"} => Delivered(attempted[k])'
        PROVE  Taken' /\ Done'
    BY <1>a, <1>b, <2>0 DEF At, LaneType
  <2>1. CASE IgnoreWake(k) \/ Due(k)
    BY <2>1, <1>c, <1>d DEF IgnoreWake, Due, queueVars, history
  <2>2. CASE DeliverHead(k)
    <3>1. Taken' /\ Done'
      BY <2>2, <1>a, <1>b DEF DeliverHead, Goto, At, LaneType
    <3> QED
      BY <2>2, <3>1, <1>d DEF DeliverHead, queueVars
  <2>3. CASE Accept(k) \/ Unanswered(k) \/ RefuseUntilHandoff(k) \/ RefuseForGood(k)
    <3>1. Taken' /\ Done'
      BY <2>3, <2>0, <1>a DEF Accept, Unanswered, RefuseUntilHandoff, RefuseForGood, Goto, LaneType
    <3> QED
      BY <2>3, <3>1, <1>d, Zenon DEF Accept, Unanswered, RefuseUntilHandoff, RefuseForGood, queueVars, history
  <2>4. CASE BeginRetire(k)
    <3>1. Delivered(attempted[k]) /\ Delivered(attempted[k])'
      BY <2>4, <1>a, <1>b DEF BeginRetire, At
    <3>2. Taken' /\ Done'
      BY <2>4, <2>0, <3>1, <1>a DEF BeginRetire, Goto, LaneType
    <3>3. Duty'
      BY <2>4, <3>1, <1>a, <1>b, ZenonT(30) DEF BeginRetire, Remove, history
    <3> QED
      BY <3>2, <3>3
  <2>5. ASSUME NEW res \in Results, PersistHold(k, res) \/ DropBackoff(k, res) \/ ScheduleBackoff(k, res)
        PROVE  Goal
    <3>1. Taken' /\ Done'
      BY <2>5, <2>0, <1>a DEF PersistHold, DropBackoff, ScheduleBackoff, Goto, LaneType
    <3>2. UNCHANGED <<admitted, custody>>
      BY <2>5 DEF PersistHold, DropBackoff, ScheduleBackoff, Hold, ClearBackoff, SetBackoff, queueVars, history
    <3> QED
      BY <3>1, <3>2, <1>d
  <2>6. ASSUME NEW res \in Results, StoreReturn(k, res) PROVE Goal
    <3>1. attempted[k] \in accepted'
      BY <2>6, <1>a, <1>b, Zenon DEF StoreReturn, At
    <3>2. Taken' /\ Done'
      BY <2>6, <2>0, <3>1, <1>a DEF StoreReturn, Goto, LaneType, Delivered
    <3> QED
      BY <2>6, <3>2, <1>d, ZenonT(30) DEF StoreReturn, queueVars, history
  <2>7. ASSUME NEW res \in Results, Retire(k, res) PROVE Goal
    <3>1. Taken' /\ Done'
      BY <2>7, <1>a, <1>b, ZenonT(30) DEF Retire, Goto, At, LaneType
    <3>2. UNCHANGED <<admitted, custody>>
      BY <2>7 DEF Retire, RemoveStep, RemoveHold, RemoveBackoff, RemoveRecord, RestoreRecord
    <3> QED
      BY <3>1, <3>2, <1>d
  <2> QED
    BY <1>5, <2>1, <2>2, <2>3, <2>4, <2>5, <2>6, <2>7, Zenon DEF LaneStep
<1>6. CASE ProbeStep
  BY <1>6, <1>c, <1>d, Zenon DEF ProbeStep, ProbeNote, ProbeStore, laneVars, history
<1>7. CASE Stop
  <2>1. Taken' /\ Done'
    BY <1>7 DEF Stop, LanesReset, At
  <2> QED
    BY <1>7, <2>1, <1>d DEF Stop, Crash
<1>8. CASE LosePower
  BY <1>8, <1>c, <1>d DEF LosePower, PowerLoss, laneVars, history
<1>9. CASE UNCHANGED vars
  BY <1>9, <1>c, <1>d DEF vars, queueVars, laneVars, history
<1> QED
  BY <1>1, <1>2, <1>3, <1>4, <1>5, <1>6, <1>7, <1>8, <1>9, Zenon DEF LanesNext

\* No admitted artifact can be missing after any crash or power loss unless the
\* authority recorded it and, for an envelope, its receipt was staged durably
\* first, for any number of devices, artifacts, failures and crashes.
THEOREM NothingIsLost == LanesSpec => []NothingLost
<1>1. LanesInit => DutyInv
  BY DEF LanesInit, Init, DutyInv, At
<1>2. QueueInv /\ DutyInv => NothingLost
  BY DEF QueueInv, CustodyIsDurable, DutyInv, NothingLost
<1> QED
  BY <1>1, <1>2, LanesInvInit, LanesInvStep, DutyInvStep, PTL DEF LanesSpec

-----------------------------------------------------------------------------
(* The custody contract.                                                   *)

\* The authority and the return sink change only by a record of the artifact
\* being sent, or by a receipt for one the authority has recorded.
LEMMA AuthorityStep ==
    ASSUME LaneInv, DutyInv, [LanesNext]_vars, ~UNCHANGED <<accepted, staged>>
    PROVE  /\ UNCHANGED queueVars
           /\ \E a \in Artifacts :
                \/ accepted' = accepted \cup {a} /\ staged' = staged
                \/ a \in accepted /\ staged' = staged \cup {a} /\ accepted' = accepted
<1>1. PICK k \in LaneKeys : LaneStep(k)
  BY ZenonT(30) DEF LanesNext, Start, Admit, DueWhileDown, RefuseFull, NotifyDevice, ProbeStep, Stop, LosePower,
         vars, authorityVars
<1>2. \/ Accept(k) \/ Unanswered(k) \/ \E res \in Results : StoreReturn(k, res)
  BY <1>1, ZenonT(30) DEF LaneStep, IgnoreWake, DeliverHead, Due, RefuseUntilHandoff, RefuseForGood, BeginRetire,
              PersistHold, DropBackoff, ScheduleBackoff, Retire, authorityVars
<1>3. attempted[k] \in Artifacts
  BY <1>2, ZenonT(30) DEF Accept, Unanswered, StoreReturn, At, LaneInv, LaneItems, Queued
<1>4. CASE Accept(k) \/ Unanswered(k)
  BY <1>3, <1>4, Zenon DEF Accept, Unanswered
<1>5. ASSUME NEW res \in Results, StoreReturn(k, res)
      PROVE  /\ UNCHANGED queueVars
             /\ attempted[k] \in accepted /\ staged' = staged \cup {attempted[k]} /\ accepted' = accepted
  BY <1>5 DEF StoreReturn, DutyInv, At
<1> QED
  BY <1>2, <1>3, <1>4, <1>5

\* A step of the worker is a step of the contract, or is not visible there.
LEMMA CustodyStep ==
    ASSUME LaneInv, QueueInv, DutyInv, [LanesNext]_vars
    PROVE  [Custody!CustodyNext]_(Custody!custodyVars)
<1> USE DEF Custody!CustodyNext, Custody!custodyVars
<1>1. CASE ~UNCHANGED <<accepted, staged>>
  <2>1. DurablyKept' = DurablyKept
    BY <1>1, AuthorityStep DEF DurablyKept, queueVars, storage
  <2> QED
    BY <1>1, <2>1, AuthorityStep DEF Custody!Record, Custody!Receive
<1>2. CASE UNCHANGED <<accepted, staged>>
  <2>1. DurablyKept \in SUBSET Artifacts /\ DurablyKept' \in SUBSET Artifacts
    BY DEF DurablyKept
  <2>2. CASE DurablyKept \subseteq DurablyKept'
    <3>1. Custody!Keep(DurablyKept')
      BY <1>2, <2>2 DEF Custody!Keep
    <3> QED
      BY <2>1, <3>1
  <2>3. ASSUME NEW a \in DurablyKept, a \notin DurablyKept' PROVE Custody!CustodyNext
    <3>1. ASSUME NEW b \in DurablyKept, b \notin DurablyKept' PROVE rm # NotRemoving /\ rm.id = b
      BY <3>1, KeptUnlessRetired, LanesInvStep DEF QueueInv, DurablyKept
    <3>2. DurablyKept' = (DurablyKept \cup DurablyKept') \ {a}
      BY <2>3, <3>1
    <3>3. Delivered(a)
      <4>1. a \in Artifacts /\ LaneKey(a) \in LaneKeys
        BY <2>1, LaneKeyType
      <4> QED
        BY <2>3, <3>1, <4>1 DEF LaneInv, DutyInv, At
    <3>4. Custody!Discharged(a)
      BY <2>1, <3>3 DEF Custody!Discharged, Delivered
    <3>5. Custody!Release(a, DurablyKept')
      BY <1>2, <3>2, <3>4 DEF Custody!Release
    <3> QED
      BY <2>1, <3>5
  <2> QED
    BY <2>2, <2>3
<1> QED
  BY <1>1, <1>2

\* The worker implements the custody contract: whatever fails, crashes or loses
\* power, the artifacts durably on disk lose one only after the authority has it
\* and its receipt is staged.
THEOREM WorkerImplementsCustody == LanesSpec => ImplementsCustody
<1>1. LanesInit => DutyInv /\ Custody!CustodyInit
  BY DEF LanesInit, Init, DutyInv, At, Custody!CustodyInit, DurablyKept, EmptyDirectory, Nowhere
<1> QED
  BY <1>1, LanesInvInit, LanesInvStep, DutyInvStep, CustodyStep, PTL
     DEF LanesSpec, ImplementsCustody, Custody!CustodySpec

-----------------------------------------------------------------------------
(* Handoffs.                                                               *)

\* The wake token and the handoffs owed part only while a lane backs off, and a
\* lane in an attempt, or waiting for a handoff, does not.
HandoffInv ==
    \A k \in LaneKeys :
        /\ ~At(k, "idle") \/ stall[k] = "handoff" => wake[k] = owed[k] /\ ~backing[k]
        /\ At(k, "failed") => stall[k] = "backoff"

LEMMA HandoffInvStep ==
    ASSUME LaneInv, HandoffInv, [LanesNext]_vars
    PROVE  HandoffInv'
<1>a. LaneType
  BY DEF LaneInv
<1>b. ASSUME UNCHANGED <<phase, stall, wake, owed, backing>> PROVE HandoffInv'
  BY <1>b DEF HandoffInv, At
<1>1. ASSUME NEW res \in Results, Start(res) PROVE HandoffInv'
  BY <1>1, Zenon DEF Start, Open, LaneInv, HandoffInv, At
<1>2. ASSUME NEW res \in Results, NEW a \in Artifacts, Admit(a, res) PROVE HandoffInv'
  BY <1>2, <1>b DEF Admit
<1>3. ASSUME NEW a \in Artifacts, DueWhileDown(a) \/ RefuseFull(a) PROVE HandoffInv'
  BY <1>3, <1>b DEF DueWhileDown, RefuseFull, laneVars, history
<1>4. ASSUME NEW d \in Devices, NotifyDevice(d) PROVE HandoffInv'
  <2>1. \A k \in LaneKeys : wake[k] = owed[k] => wake'[k] = owed'[k]
    BY <1>4 DEF NotifyDevice
  <2> QED
    BY <1>4, <2>1, Zenon DEF NotifyDevice, HandoffInv, At
<1>5. ASSUME NEW k \in LaneKeys, LaneStep(k) PROVE HandoffInv'
  <2> USE <1>a DEF LaneType, At, Goto
  <2>1. CASE IgnoreWake(k)
    BY <2>1, Zenon DEF IgnoreWake, HandoffInv, history
  <2>2. CASE DeliverHead(k)
    <3>1. /\ ~backing[k] /\ backing' = backing
          /\ wake' = [wake EXCEPT ![k] = FALSE] /\ owed' = [owed EXCEPT ![k] = FALSE]
      BY <2>2 DEF DeliverHead, DrainWake, Woken, TimerFired
    <3>2. /\ phase' = phase \/ phase' = [phase EXCEPT ![k] = "sending"]
          /\ stall' = stall \/ stall' = [stall EXCEPT ![k] = "none"]
      BY <2>2 DEF DeliverHead
    <3>3. At(k, "idle")
      BY <2>2 DEF DeliverHead
    <3> QED
      BY <3>1, <3>2, <3>3, ZenonT(30) DEF HandoffInv
  <2>3. CASE Due(k)
    BY <2>3 DEF Due, HandoffInv
  <2>4. CASE Accept(k) \/ Unanswered(k) \/ RefuseUntilHandoff(k) \/ RefuseForGood(k)
    <3>1. CASE Accept(k) \/ RefuseForGood(k)
      BY <3>1 DEF Accept, RefuseForGood, history, HandoffInv
    <3>2. CASE Unanswered(k) \/ RefuseUntilHandoff(k)
      BY <3>2 DEF Unanswered, RefuseUntilHandoff, history, HandoffInv
    <3> QED
      BY <2>4, <3>1, <3>2, Zenon
  <2>5. CASE BeginRetire(k)
    BY <2>5 DEF BeginRetire, history, HandoffInv
  <2>6. ASSUME NEW res \in Results, PersistHold(k, res) \/ DropBackoff(k, res) PROVE HandoffInv'
    BY <2>6 DEF PersistHold, DropBackoff, history, HandoffInv
  <2>7. ASSUME NEW res \in Results, ScheduleBackoff(k, res) PROVE HandoffInv'
    BY <2>7 DEF ScheduleBackoff, HandoffInv
  <2>8. ASSUME NEW res \in Results, StoreReturn(k, res) PROVE HandoffInv'
    BY <2>8 DEF StoreReturn, history, HandoffInv
  <2>9. ASSUME NEW res \in Results, Retire(k, res) PROVE HandoffInv'
    <3>1. At(k, "retiring") /\ backing' = backing
      BY <2>9, Zenon DEF Retire
    <3>2. \A j \in LaneKeys : wake[j] = owed[j] => wake'[j] = owed'[j]
      <4>1. UNCHANGED <<wake, owed>> \/ Retired(k)
        BY <2>9, Zenon DEF Retire
      <4>2. ASSUME NEW e, wake' = [wake EXCEPT ![e] = TRUE], owed' = [owed EXCEPT ![e] = TRUE],
                   NEW j \in LaneKeys, wake[j] = owed[j]
            PROVE  wake'[j] = owed'[j]
        BY <4>2
      <4> QED
        BY <4>1, <4>2 DEF Retired
    <3>3. \/ UNCHANGED <<phase, stall>>
          \/ phase' = [phase EXCEPT ![k] = "idle"] /\ stall' = [stall EXCEPT ![k] = "none"]
          \/ phase' = [phase EXCEPT ![k] = "failed"] /\ stall' = [stall EXCEPT ![k] = "backoff"]
      BY <2>9, Zenon DEF Retire
    <3> QED
      BY <3>1, <3>2, <3>3, ZenonT(30) DEF HandoffInv
  <2> QED
    BY <1>5, <2>1, <2>2, <2>3, <2>4, <2>5, <2>6, <2>7, <2>8, <2>9 DEF LaneStep
<1>6. CASE ProbeStep
  BY <1>6, <1>b DEF ProbeStep, laneVars, history
<1>7. CASE Stop
  BY <1>7, Zenon DEF Stop, LanesReset, HandoffInv, At
<1>8. CASE LosePower
  BY <1>8, <1>b DEF LosePower, laneVars, history
<1>9. CASE UNCHANGED vars
  BY <1>9, <1>b DEF vars, laneVars, history
<1> QED
  BY <1>1, <1>2, <1>3, <1>4, <1>5, <1>6, <1>7, <1>8, <1>9 DEF LanesNext

\* A lane that waits for a handoff has a wake pending exactly when it was handed
\* off after the refused attempt read its head: no interleaving of handoffs,
\* retirements and attempts loses one or leaves a stale one.
THEOREM HandoffIsLater == LanesSpec => []WakeIsLaterHandoff
<1>1. LanesInit => HandoffInv
  BY DEF LanesInit, HandoffInv, At
<1>2. HandoffInv => WakeIsLaterHandoff
  BY DEF HandoffInv, WakeIsLaterHandoff
<1> QED
  BY <1>1, <1>2, LanesInvInit, LanesInvStep, HandoffInvStep, PTL DEF LanesSpec

-----------------------------------------------------------------------------
(* A lane sends its head, and nothing refused for good.                    *)

\* A lane in an attempt works on its head, and on nothing refused for good.
WorksOnHead == \A k \in LaneKeys : ~At(k, "idle") => IsHead(attempted[k], k)
Exposed == {"sending", "accepted", "staged", "retiring"}
WorksOnFree ==
    \A k \in LaneKeys : phase[k] \in Exposed => attempted[k] \notin refused \cup heldDurably

\* What this process saw refused is still the head of its lane and held there; a
\* hold that was written without error is in every directory a crash or power
\* loss may leave.
RefusedIsHeld == \A a \in refused : IsHead(a, LaneKey(a)) /\ held[LaneKey(a)] = a
HoldOnDisk(a) == (open => a \in holds) /\ \A d \in possible : a \in d.hold

HeadInv ==
    /\ ~open => refused = {}
    /\ WorksOnHead /\ WorksOnFree /\ RefusedIsHeld
    /\ \A a \in heldDurably : HoldOnDisk(a)

\* A lane has one head.
LEMMA OneHead ==
    ASSUME TypeOK, IndexInv, open, NEW k, NEW a, NEW b, IsHead(a, k), IsHead(b, k)
    PROVE  a = b
<1>1. a \in Queued /\ b \in Queued /\ entries[a] <= entries[b] /\ entries[b] <= entries[a]
  BY DEF IsHead, LaneItems
<1>2. entries[a] \in Nat /\ entries[b] \in Nat
  BY <1>1, BoundsAssumption DEF TypeOK, Queued
<1> QED
  BY <1>1, <1>2 DEF IndexInv

\* An unchanged queue has the same heads.
LEMMA SameHeads ==
    ASSUME entries' = entries, NEW a, NEW k, IsHead(a, k)
    PROVE  IsHead(a, k)'
BY DEF IsHead, LaneItems, Queued

\* A step of a lane moves no other lane, and the queue only with the lock free or
\* on with the retirement of its own head.
LEMMA LaneFrame ==
    ASSUME LaneInv, NEW k \in LaneKeys, LaneStep(k)
    PROVE  /\ open /\ open'
           /\ \A j \in LaneKeys \ {k} :
                phase'[j] = phase[j] /\ attempted'[j] = attempted[j] /\ held'[j] = held[j] /\ backing'[j] = backing[j]
           /\ \/ UNCHANGED queueVars
              \/ rm = NotRemoving
              \/ At(k, "retiring") /\ rm.id = attempted[k] /\ (phase'[k] # "idle" => entries'[attempted[k]] # NoSeq)
<1>t. /\ phase \in [LaneKeys -> Phases] /\ attempted \in [LaneKeys -> Artifacts \cup {None}]
      /\ held \in [LaneKeys -> Artifacts \cup {None}] /\ backing \in [LaneKeys -> BOOLEAN]
      /\ ~At(k, "idle") => open /\ entries[attempted[k]] # NoSeq
  BY ZenonT(30) DEF LaneInv, LaneType, LaneItems, Queued
<1>1. CASE IgnoreWake(k) \/ Due(k) \/ DeliverHead(k)
  BY <1>t, <1>1, ZenonT(30) DEF IgnoreWake, Due, DeliverHead, Goto, Unlocked, queueVars, memory
<1>2. CASE Accept(k) \/ Unanswered(k) \/ RefuseUntilHandoff(k) \/ RefuseForGood(k)
  BY <1>t, <1>2, ZenonT(30) DEF Accept, Unanswered, RefuseUntilHandoff, RefuseForGood, Goto, At, queueVars, memory
<1>3. CASE BeginRetire(k)
  BY <1>t, <1>3, ZenonT(30) DEF BeginRetire, Remove, Unlocked, Goto
<1>4. ASSUME NEW res \in Results, PersistHold(k, res) \/ DropBackoff(k, res) \/ ScheduleBackoff(k, res)
      PROVE  /\ open /\ open' /\ rm = NotRemoving /\ attempted' = attempted /\ held' = held
             /\ phase' \in {[phase EXCEPT ![k] = p] : p \in Phases}
             /\ backing' \in {backing, [backing EXCEPT ![k] = TRUE]}
  <2>1. open /\ open' = open /\ rm = NotRemoving
    BY <1>4, ZenonT(30) DEF PersistHold, DropBackoff, ScheduleBackoff, Hold, ClearBackoff, SetBackoff, Unlocked,
                            queueVars, memory
  <2>2. attempted' = attempted /\ held' = held /\ (backing' = backing \/ backing' = [backing EXCEPT ![k] = TRUE])
    BY <1>4, Zenon DEF PersistHold, DropBackoff, ScheduleBackoff
  <2>3. phase' = [phase EXCEPT ![k] = "clearing"] \/ phase' = [phase EXCEPT ![k] = "idle"]
    BY <1>4, Zenon DEF PersistHold, DropBackoff, ScheduleBackoff, Goto
  <2> QED
    BY <2>1, <2>2, <2>3 DEF Phases
<1>5. ASSUME NEW res \in Results, StoreReturn(k, res)
      PROVE  /\ open /\ open' /\ UNCHANGED queueVars /\ UNCHANGED <<attempted, held, backing>>
             /\ phase' \in {[phase EXCEPT ![k] = p] : p \in Phases}
  BY <1>t, <1>5, Zenon DEF StoreReturn, Goto, At, Phases, queueVars, memory
<1>6. ASSUME NEW res \in Results, Retire(k, res)
      PROVE  /\ open /\ open' /\ held' = held /\ backing' = backing
             /\ phase' \in {phase, [phase EXCEPT ![k] = "idle"], [phase EXCEPT ![k] = "failed"]}
             /\ attempted' \in {attempted, [attempted EXCEPT ![k] = None]}
             /\ At(k, "retiring") /\ rm.id = attempted[k] /\ (phase'[k] # "idle" => entries'[attempted[k]] # NoSeq)
  <2>r. RemoveStep(res)
    BY <1>6, Zenon DEF Retire
  <2>o. open /\ open'
    BY <2>r DEF RemoveStep, RemoveHold, RemoveBackoff, RemoveRecord, RestoreRecord
  <2>1. rm' # NotRemoving => entries' = entries
    BY <2>r DEF RemoveStep, RemoveHold, RemoveBackoff, RemoveRecord, RestoreRecord
  <2>2. \/ rm' # NotRemoving /\ phase' = phase /\ attempted' = attempted
        \/ phase' = [phase EXCEPT ![k] = "idle"] /\ attempted' = [attempted EXCEPT ![k] = None]
        \/ entries'[attempted[k]] # NoSeq /\ phase' = [phase EXCEPT ![k] = "failed"] /\ attempted' = attempted
    BY <1>6, ZenonT(30) DEF Retire, Goto
  <2>3. held' = held /\ backing' = backing /\ At(k, "retiring") /\ rm.id = attempted[k]
    BY <1>6, ZenonT(30) DEF Retire
  <2>4. phase'[k] # "idle" => entries'[attempted[k]] # NoSeq
    BY <1>t, <2>1, <2>2, <2>3, ZenonT(30) DEF At
  <2> QED
    BY <2>o, <2>2, <2>3, <2>4, ZenonT(30)
<1>7. ASSUME NEW res \in Results,
             PersistHold(k, res) \/ DropBackoff(k, res) \/ ScheduleBackoff(k, res) \/ StoreReturn(k, res) \/ Retire(k, res)
      PROVE  \A j \in LaneKeys \ {k} :
               phase'[j] = phase[j] /\ attempted'[j] = attempted[j] /\ held'[j] = held[j] /\ backing'[j] = backing[j]
  BY <1>t, <1>4, <1>5, <1>6, <1>7, ZenonT(30)
<1> QED
  BY <1>1, <1>2, <1>3, <1>4, <1>5, <1>6, <1>7, ZenonT(30) DEF LaneStep

\* It leaves every head where it is, but for the one it has retired.
LEMMA LaneKeepsHeads ==
    ASSUME LaneInv, QueueInv, [Next]_queueVars, NEW k \in LaneKeys, LaneStep(k), NEW a, NEW j, IsHead(a, j),
           a = attempted[k] /\ At(k, "retiring") => phase'[k] # "idle"
    PROVE  IsHead(a, j)'
<1>1. CASE UNCHANGED queueVars
  BY <1>1, SameHeads, Zenon DEF queueVars, memory
<1>2. CASE ~UNCHANGED queueVars
  <2>1. /\ open /\ open'
        /\ \/ rm = NotRemoving
           \/ At(k, "retiring") /\ rm.id = attempted[k] /\ (phase'[k] # "idle" => entries'[attempted[k]] # NoSeq)
    BY <1>2, LaneFrame, ZenonT(30)
  <2>2. /\ TypeOK /\ entries \in [Artifacts -> 0..MaxSeq] /\ a \in Artifacts /\ entries[a] # NoSeq /\ nextSeq # NoSeq
        /\ rm # NotRemoving => rm.id \in Artifacts
    <3>1. TypeOK /\ a \in Artifacts /\ entries[a] # NoSeq
      BY Zenon DEF QueueInv, IsHead, LaneItems, Queued
    <3>2. entries \in [Artifacts -> 0..MaxSeq] /\ nextSeq # NoSeq
      BY <3>1 DEF TypeOK, NoSeq
    <3>3. rm # NotRemoving => rm.id \in Artifacts
      BY <3>1 DEF TypeOK, Removals
    <3> QED
      BY <3>1, <3>2, <3>3, Zenon
  <2>3. \/ entries' = entries
        \/ \E b \in Artifacts : entries[b] = NoSeq /\ entries' = [entries EXCEPT ![b] = nextSeq]
        \/ rm # NotRemoving /\ entries' = [entries EXCEPT ![rm.id] = NoSeq]
    BY <2>1, <2>2, IndexStep, Zenon
  <2>4. entries'[a] # NoSeq
    BY <2>1, <2>2, <2>3, ZenonT(30)
  <2> QED
    BY <2>1, <2>4, HeadStays, ZenonT(30)
<1> QED
  BY <1>1, <1>2

\* Where a step takes the lane: to rest, to the sending of a head that is not
\* held, or on with the attempt it is making.
LEMMA LaneMoves ==
    ASSUME LaneInv, NEW k \in LaneKeys, LaneStep(k)
    PROVE  \/ phase'[k] = "idle"
           \/ IsHead(attempted'[k], k) /\ ~IsHeld(k, attempted'[k]) /\ UNCHANGED <<queueVars, refused, heldDurably>>
           \/ ~At(k, "idle") /\ attempted'[k] = attempted[k] /\ (phase'[k] \in Exposed => phase[k] \in Exposed)
<1>t. phase \in [LaneKeys -> Phases] /\ attempted \in [LaneKeys -> Artifacts \cup {None}]
  BY DEF LaneInv, LaneType
<1>1. CASE IgnoreWake(k) \/ Due(k)
  BY <1>1, ZenonT(30) DEF IgnoreWake, Due, At
<1>2. CASE DeliverHead(k)
  BY <1>t, <1>2 DEF DeliverHead, Goto, At
<1>3. CASE Accept(k) \/ Unanswered(k) \/ RefuseUntilHandoff(k) \/ RefuseForGood(k) \/ BeginRetire(k)
  BY <1>t, <1>3, ZenonT(30) DEF Accept, Unanswered, RefuseUntilHandoff, RefuseForGood, BeginRetire, Goto, At, Exposed
<1>4. ASSUME NEW res \in Results, PersistHold(k, res) \/ DropBackoff(k, res) \/ ScheduleBackoff(k, res)
      PROVE  phase'[k] = "idle" \/ (At(k, "holding") /\ attempted'[k] = attempted[k] /\ phase'[k] = "clearing")
  BY <1>t, <1>4 DEF PersistHold, DropBackoff, ScheduleBackoff, Goto
<1>5. ASSUME NEW res \in Results, StoreReturn(k, res) \/ Retire(k, res)
      PROVE  phase'[k] = "idle" \/ (phase[k] \in {"accepted", "retiring"} /\ attempted'[k] = attempted[k])
  BY <1>t, <1>5, ZenonT(30) DEF StoreReturn, Retire, Goto, At
<1> QED
  BY <1>1, <1>2, <1>3, <1>4, <1>5, Zenon DEF LaneStep, At, Exposed

\* Only a terminal refusal adds to what is refused, only its hold to what is held.
LEMMA RefusalsGrow ==
    ASSUME LaneInv, NEW k \in LaneKeys, LaneStep(k)
    PROVE  /\ refused' # refused => RefuseForGood(k)
           /\ heldDurably' # heldDurably => \E res \in Results : PersistHold(k, res)
           /\ refused' \cup heldDurably' \subseteq refused \cup heldDurably \cup {attempted[k]}
           /\ refused' \cup heldDurably' # refused \cup heldDurably => phase'[k] \notin Exposed
<1>t. phase \in [LaneKeys -> Phases]
  BY DEF LaneInv, LaneType
<1>1. CASE RefuseForGood(k)
  BY <1>t, <1>1 DEF RefuseForGood, Goto, Exposed
<1>2. ASSUME NEW res \in Results, PersistHold(k, res)
      PROVE  refused' = refused /\ phase'[k] = "clearing" /\ heldDurably' \in {heldDurably, heldDurably \cup {attempted[k]}}
  BY <1>t, <1>2 DEF PersistHold, Goto
<1>3. CASE ~RefuseForGood(k) /\ \A res \in Results : ~PersistHold(k, res)
  <2>1. refused' = refused /\ heldDurably' = heldDurably
    BY <1>3, ZenonT(30) DEF LaneStep, IgnoreWake, Due, DeliverHead, Accept, Unanswered, RefuseUntilHandoff,
                            BeginRetire, DropBackoff, ScheduleBackoff, StoreReturn, Retire, history
  <2> QED
    BY <2>1, ZenonT(30)
<1> QED
  BY <1>1, <1>2, <1>3, ZenonT(30) DEF Exposed

LEMMA WorksOnHeadStep ==
    ASSUME LaneInv, QueueInv, [Next]_queueVars, HeadInv, NEW k \in LaneKeys, LaneStep(k)
    PROVE  WorksOnHead'
<1> SUFFICES ASSUME NEW j \in LaneKeys, phase'[j] # "idle" PROVE IsHead(attempted[j], j)'
  BY Zenon DEF WorksOnHead, At
<1>1. \A i \in LaneKeys : ~At(i, "idle") => IsHead(attempted[i], i) /\ LaneKey(attempted[i]) = i
  BY ZenonT(30) DEF HeadInv, WorksOnHead, LaneInv, LaneItems
<1>2. CASE j # k
  <2>1. ~At(j, "idle") /\ attempted'[j] = attempted[j]
    BY <1>2, LaneFrame, ZenonT(30) DEF At
  <2>2. attempted[j] = attempted[k] => At(k, "idle")
    BY <1>1, <1>2, <2>1, ZenonT(30)
  <2> QED
    BY <1>1, <2>1, <2>2, LaneKeepsHeads, ZenonT(30) DEF At
<1>3. CASE j = k
  <2>1. CASE IsHead(attempted'[k], k) /\ UNCHANGED queueVars
    BY <1>3, <2>1, SameHeads, Zenon DEF queueVars, memory
  <2>2. CASE ~At(k, "idle") /\ attempted'[k] = attempted[k]
    BY <1>1, <1>3, <2>2, LaneKeepsHeads, ZenonT(30)
  <2> QED
    BY <1>3, <2>1, <2>2, LaneMoves, ZenonT(30)
<1> QED
  BY <1>2, <1>3, Zenon

LEMMA WorksOnFreeStep ==
    ASSUME LaneInv, HeadInv, NEW k \in LaneKeys, LaneStep(k)
    PROVE  WorksOnFree'
<1> SUFFICES ASSUME NEW j \in LaneKeys, phase'[j] \in Exposed PROVE attempted'[j] \notin refused' \cup heldDurably'
  BY DEF WorksOnFree
<1>1. \A i \in LaneKeys : phase[i] \in Exposed => LaneKey(attempted[i]) = i /\ attempted[i] \notin refused \cup heldDurably
  BY Zenon DEF HeadInv, WorksOnFree, LaneInv, LaneItems, At, Exposed
<1>2. CASE j # k
  <2>1. phase[j] \in Exposed /\ attempted'[j] = attempted[j]
    BY <1>2, LaneFrame, ZenonT(30)
  <2>2. attempted[j] = attempted[k] => refused' \cup heldDurably' = refused \cup heldDurably
    <3>1. refused' # refused \/ heldDurably' # heldDurably => phase[k] \in {"sending", "holding"}
      BY RefusalsGrow, Zenon DEF RefuseForGood, PersistHold, At
    <3>2. phase[k] \in {"sending", "holding"} => LaneKey(attempted[k]) = k
      BY Zenon DEF LaneInv, LaneItems, At
    <3> QED
      BY <1>1, <1>2, <2>1, <3>1, <3>2, Zenon
  <2> QED
    BY <1>1, <2>1, <2>2, RefusalsGrow, ZenonT(30)
<1>3. CASE j = k
  <2>1. refused' \cup heldDurably' = refused \cup heldDurably
    BY <1>3, RefusalsGrow, ZenonT(30)
  <2>2. CASE IsHead(attempted'[k], k) /\ ~IsHeld(k, attempted'[k])
    BY <1>3, <2>1, <2>2, LaneFrame, ZenonT(30) DEF HeadInv, RefusedIsHeld, HoldOnDisk, IsHeld, IsHead, LaneItems
  <2>3. CASE phase[k] \in Exposed /\ attempted'[k] = attempted[k]
    BY <1>1, <1>3, <2>1, <2>3, ZenonT(30)
  <2> QED
    BY <1>3, <2>2, <2>3, LaneMoves, Zenon DEF Exposed
<1> QED
  BY <1>2, <1>3

LEMMA RefusedIsHeldStep ==
    ASSUME LaneInv, QueueInv, IndexInv, [Next]_queueVars, HeadInv, NEW k \in LaneKeys, LaneStep(k)
    PROVE  RefusedIsHeld'
<1>t. /\ refused \subseteq Artifacts /\ held \in [LaneKeys -> Artifacts \cup {None}] /\ open /\ TypeOK
      /\ \A a \in Artifacts : LaneKey(a) \in LaneKeys
  BY LaneFrame, LaneKeyType, ZenonT(30) DEF LaneInv, LaneType, QueueInv
<1>1. ASSUME NEW a \in refused PROVE IsHead(a, LaneKey(a)) /\ IsHead(a, LaneKey(a))'
  <2>1. IsHead(a, LaneKey(a)) /\ ~(a = attempted[k] /\ At(k, "retiring"))
    BY Zenon DEF HeadInv, RefusedIsHeld, WorksOnFree, Exposed, At
  <2> QED
    BY <2>1, LaneKeepsHeads, ZenonT(30)
<1>2. ASSUME NEW a \in refused PROVE held'[LaneKey(a)] = a
  <2>1. held[LaneKey(a)] = a /\ LaneKey(a) \in LaneKeys
    BY <1>t DEF HeadInv, RefusedIsHeld
  <2>2. CASE LaneKey(a) # k
    BY <2>1, <2>2, LaneFrame, ZenonT(30)
  <2>3. CASE LaneKey(a) = k /\ DeliverHead(k)
    <3>1. LaneItems(k) # {} /\ \A b : IsHead(b, k) => b = a
      BY <1>t, <1>1, <2>3, OneHead, Zenon DEF IsHead
    <3> QED
      BY <1>t, <2>1, <2>3, <3>1, Zenon DEF DeliverHead, IsHeld
  <2>4. CASE LaneKey(a) = k /\ RefuseForGood(k)
    <3>1. IsHead(attempted[k], k)
      BY <2>4, Zenon DEF HeadInv, WorksOnHead, RefuseForGood, At
    <3>2. attempted[k] = a
      BY <1>t, <1>1, <2>4, <3>1, OneHead
    <3> QED
      BY <1>t, <2>4, <3>2 DEF RefuseForGood
  <2>5. CASE ~DeliverHead(k) /\ ~RefuseForGood(k)
    <3>1. held' = held
      BY <2>5, Zenon DEF LaneStep, IgnoreWake, Due, Accept, Unanswered, RefuseUntilHandoff, BeginRetire,
                         PersistHold, DropBackoff, ScheduleBackoff, StoreReturn, Retire
    <3> QED
      BY <2>1, <3>1
  <2> QED
    BY <2>2, <2>3, <2>4, <2>5
<1>3. CASE refused' = refused
  BY <1>1, <1>2, <1>3 DEF RefusedIsHeld
<1>4. CASE RefuseForGood(k)
  <2>1. IsHead(attempted[k], k) /\ LaneKey(attempted[k]) = k /\ UNCHANGED queueVars
    BY <1>4, ZenonT(30) DEF HeadInv, WorksOnHead, LaneInv, LaneItems, RefuseForGood, At
  <2>2. IsHead(attempted[k], k)'
    BY <2>1, LaneKeepsHeads, <1>4, Zenon DEF RefuseForGood, At
  <2>3. held'[k] = attempted[k] /\ refused' = refused \cup {attempted[k]} /\ attempted' = attempted
    BY <1>t, <1>4 DEF RefuseForGood
  <2> QED
    BY <1>1, <1>2, <2>1, <2>2, <2>3, ZenonT(30) DEF RefusedIsHeld
<1> QED
  BY <1>3, <1>4, RefusalsGrow, ZenonT(30)

\* Nothing is being delivered before the queue is opened.
LEMMA HeadInvInit == LanesInit => IndexInv /\ HeadInv
BY Zenon DEF LanesInit, Init, IndexInv, HeadInv, WorksOnHead, WorksOnFree, RefusedIsHeld, At, Exposed

\* Every step keeps the worker of each lane on the lane's head.
LEMMA HeadInvStep ==
    ASSUME LaneInv, QueueInv, IndexInv, HeadInv, [LanesNext]_vars
    PROVE  HeadInv'
<1>a. LaneType /\ TypeOK /\ [Next]_queueVars
  BY LanesInvStep, ZenonT(30) DEF LaneInv, QueueInv
<1>b. ASSUME NEW a \in heldDurably PROVE HoldOnDisk(a)'
  <2>1. a \in Artifacts /\ (rm # NotRemoving => rm.id # a)
    <3>1. a \in Artifacts
      BY <1>a DEF LaneType
    <3>2. rm # NotRemoving => LaneKey(rm.id) \in LaneKeys
      BY <1>a, LaneKeyType DEF TypeOK, Removals
    <3> QED
      BY <3>1, <3>2, Zenon DEF LaneInv, HeadInv, WorksOnFree, Exposed, At
  <2> QED
    BY <1>a, <1>b, <2>1, HoldStays, ZenonT(30) DEF HeadInv, HoldOnDisk
<1>c. ASSUME UNCHANGED <<open, phase, attempted, held, refused, heldDurably>>,
             entries' = entries \/ (open /\ rm = NotRemoving)
      PROVE  HeadInv'
  <2>1. ASSUME NEW a, NEW k, IsHead(a, k) PROVE IsHead(a, k)'
    <3>1. CASE entries' = entries
      BY <2>1, <3>1, SameHeads
    <3>2. CASE open /\ rm = NotRemoving
      <4>1. a \in Artifacts /\ entries[a] # NoSeq /\ entries \in [Artifacts -> 0..MaxSeq] /\ nextSeq # NoSeq
        BY <1>a, <2>1 DEF IsHead, LaneItems, Queued, TypeOK, QueueInv, NoSeq
      <4>2. entries'[a] # NoSeq
        BY <1>a, <1>c, <3>2, <4>1, IndexStep
      <4> QED
        BY <1>a, <1>c, <2>1, <3>2, <4>2, HeadStays
    <3> QED
      BY <1>c, <3>1, <3>2
  <2>2. WorksOnHead' /\ WorksOnFree'
    BY <1>c, <2>1, Zenon DEF HeadInv, WorksOnHead, WorksOnFree, At
  <2>3. RefusedIsHeld'
    BY <1>c, <2>1 DEF HeadInv, RefusedIsHeld
  <2> QED
    BY <1>b, <1>c, <2>2, <2>3 DEF HeadInv
<1>1. ASSUME NEW res \in Results, Start(res) PROVE HeadInv'
  <2>1. refused' = {} /\ heldDurably' = heldDurably /\ \A k \in LaneKeys : phase'[k] = "idle"
    BY <1>1, Zenon DEF Start, Open, history, LaneInv, HeadInv, At
  <2> QED
    BY <1>b, <2>1, ZenonT(30) DEF HeadInv, WorksOnHead, WorksOnFree, RefusedIsHeld, At, Exposed
<1>2. ASSUME NEW res \in Results, NEW a \in Artifacts, Admit(a, res) PROVE HeadInv'
  <2>1. UNCHANGED <<open, phase, attempted, held, refused, heldDurably>> /\ open /\ rm = NotRemoving
    BY <1>2 DEF Admit, Enqueue, CanInsert, Unlocked
  <2> QED
    BY <1>c, <2>1
<1>3. ASSUME (\E a \in Artifacts : DueWhileDown(a) \/ RefuseFull(a)) \/ \E d \in Devices : NotifyDevice(d) PROVE HeadInv'
  BY <1>3, <1>c, ZenonT(30) DEF DueWhileDown, RefuseFull, NotifyDevice, laneVars, queueVars, memory, history
<1>4. ASSUME NEW k \in LaneKeys, LaneStep(k) PROVE HeadInv'
  <2>1. open' /\ WorksOnHead' /\ WorksOnFree' /\ RefusedIsHeld'
    BY <1>a, <1>4, LaneFrame, WorksOnHeadStep, WorksOnFreeStep, RefusedIsHeldStep, Zenon
  <2>2. ASSUME NEW res \in Results, PersistHold(k, res), NEW a \in heldDurably', a \notin heldDurably PROVE HoldOnDisk(a)'
    <3>1. disk \in Directories /\ Hold(a, "ok")
      BY <1>a, <2>2 DEF PersistHold, TypeOK
    <3> QED
      BY <3>1 DEF Hold, Write, WithHold, Directories, HoldOnDisk
  <2> QED
    BY <1>4, <1>b, <2>1, <2>2, RefusalsGrow, ZenonT(30) DEF HeadInv
<1>5. CASE ProbeStep
  <2>1. UNCHANGED <<open, phase, attempted, held, refused, heldDurably, entries>>
    BY <1>5 DEF ProbeStep, ProbeNote, ProbeStore, laneVars, history
  <2> QED
    BY <1>c, <2>1
<1>6. CASE Stop
  <2>1. refused' = {} /\ heldDurably' = heldDurably /\ \A k \in LaneKeys : phase'[k] = "idle"
    BY <1>6 DEF Stop, LanesReset
  <2> QED
    BY <1>b, <2>1, Zenon DEF HeadInv, WorksOnHead, WorksOnFree, RefusedIsHeld, At, Exposed
<1>7. CASE LosePower
  <2>1. ~open /\ UNCHANGED <<open, phase, attempted, refused, heldDurably>>
    BY <1>7 DEF LosePower, PowerLoss, memory, laneVars, history
  <2>2. \A k \in LaneKeys : phase'[k] = "idle"
    BY <2>1 DEF LaneInv, At
  <2> QED
    BY <1>b, <2>1, <2>2, Zenon DEF HeadInv, WorksOnHead, WorksOnFree, RefusedIsHeld, At, Exposed
<1>8. CASE UNCHANGED vars
  BY <1>8, <1>c DEF vars, queueVars, memory, laneVars, history
<1> QED
  BY <1>1, <1>2, <1>3, <1>4, <1>5, <1>6, <1>7, <1>8 DEF LanesNext

\* A lane only ever sends the oldest record in custody of its lane, and never one
\* this process saw refused for good nor one whose hold was written without
\* error, by whatever process.
THEOREM SendsOnlyItsHead == LanesSpec => []SendsItsHead
<1>2. ASSUME LaneInv, QueueInv, IndexInv, HeadInv PROVE SendsItsHead
  <2> SUFFICES ASSUME NEW k \in LaneKeys, At(k, "sending")
               PROVE  /\ \A a \in custody : LaneKey(a) = k => disk.rec[attempted[k]] <= disk.rec[a]
                      /\ attempted[k] \notin refused \cup heldDurably
    BY DEF SendsItsHead
  <2>1. open /\ IsHead(attempted[k], k) /\ attempted[k] \in Queued
    BY <1>2, ZenonT(30) DEF LaneInv, HeadInv, WorksOnHead, At, LaneItems
  <2>2. ASSUME NEW a \in custody, LaneKey(a) = k PROVE disk.rec[attempted[k]] <= disk.rec[a]
    <3>1. a \in Artifacts /\ entries \in [Artifacts -> 0..MaxSeq] /\ attempted[k] \in Artifacts
      BY <1>2, <2>1, Zenon DEF QueueInv, TypeOK, Queued
    <3>2. entries[a] = disk.rec[a] /\ entries[a] # NoSeq
      BY <1>2, <2>1, Zenon DEF QueueInv, CustodyIsDurable
    <3>3. entries[attempted[k]] <= entries[a]
      BY <2>1, <2>2, <3>1, <3>2, Zenon DEF IsHead, LaneItems, Queued
    <3>4. disk.rec[attempted[k]] \in {NoSeq, entries[attempted[k]]}
      BY <1>2, <2>1, Zenon DEF IndexInv
    <3> QED
      BY <3>1, <3>2, <3>3, <3>4 DEF NoSeq
  <2>3. attempted[k] \notin refused \cup heldDurably
    BY <1>2 DEF HeadInv, WorksOnFree, At, Exposed
  <2> QED
    BY <2>2, <2>3
<1>3. ASSUME LaneInv, QueueInv, IndexInv, [LanesNext]_vars PROVE IndexInv'
  BY <1>3, LanesInvStep, IndexInvStep
<1> QED
  BY <1>2, <1>3, LanesInvInit, HeadInvInit, LanesInvStep, HeadInvStep, PTL DEF LanesSpec

-----------------------------------------------------------------------------
(* Back-offs across restarts.                                              *)

\* A persisted back-off that is not due leads its lane in every directory a
\* crash or power loss may leave, and in memory its lane waits.
PromiseInv ==
    \A a \in promised :
        /\ \A d \in possible : LeadsLane(a, d)
        /\ open => backing[LaneKey(a)] /\ At(LaneKey(a), "idle")

\* No step of the worker but the end of the wait disturbs a promised back-off.
LEMMA PromiseOnDisk ==
    ASSUME LaneInv, SyncedInv, PromiseInv, [LanesNext]_vars, NEW a \in promised
    PROVE  \A e \in possible' : LeadsLane(a, e)
<1> DEFINE Goal == \A e \in possible' : LeadsLane(a, e)
<1>a. /\ a \in Artifacts /\ LaneKey(a) \in LaneKeys /\ \A e \in possible : LeadsLane(a, e)
      /\ open => At(LaneKey(a), "idle")
  BY LaneKeyType DEF PromiseInv, LaneInv, LaneType
<1>b. TypeOK /\ disk \in possible /\ disk \in Directories /\ LeadsLane(a, disk)
  BY <1>a, Zenon DEF SyncedInv, QueueInv, TypeOK
<1>c. ASSUME NEW d, NEW res, Write(d, res), LeadsLane(a, d) PROVE Goal
  BY <1>a, <1>c DEF Write, Expose
<1>d. ASSUME NEW k \in LaneKeys, ~At(k, "idle")
      PROVE  open /\ attempted[k] \in Artifacts /\ attempted[k] # a
  BY <1>a, <1>d DEF LaneInv, LaneItems, Queued
<1>e. rm # NotRemoving => open /\ rm.id \in Artifacts /\ rm.id # a
  BY <1>a, <1>b, LaneKeyType, ZenonT(30) DEF SyncedInv, LaneInv, TypeOK, Removals, At
<1>f. ASSUME NEW b \in Artifacts, CanInsert(b) PROVE LeadsLane(a, WithRecord(disk, b, nextSeq))
  <2>1. open /\ entries = disk.rec /\ nextSeq \in Nat
    <3>1. open
      BY <1>f, Zenon DEF CanInsert, Unlocked
    <3>2. entries = disk.rec
      BY <3>1, Zenon DEF SyncedInv
    <3>3. nextSeq \in Nat
      BY <1>b DEF TypeOK
    <3> QED
      BY <3>1, <3>2, <3>3, Zenon
  <2>2. b # a /\ disk.rec[a] < nextSeq
    BY <1>a, <1>b, <1>f, <2>1, ZenonT(30) DEF CanInsert, LeadsLane, SyncedInv, QueueInv
  <2> QED
    BY <1>a, <1>b, <2>1, <2>2, LeadStays, ZenonT(30)
<1>g. rm # NotRemoving =>
        /\ LeadsLane(a, WithoutHold(disk, rm.id)) /\ LeadsLane(a, WithBackoff(disk, rm.id, NoBackoff))
        /\ LeadsLane(a, WithRecord(disk, rm.id, NoSeq))
  BY <1>a, <1>b, <1>e, LeadStays, ZenonT(30)
<1>h. rm.step # "restore"
  BY ZenonT(30) DEF SyncedInv
<1>1. ASSUME NEW res \in Results, Start(res) PROVE Goal
  BY <1>1, <1>a, <1>b, Zenon DEF Start, Open
<1>2. ASSUME NEW res \in Results, NEW b \in Artifacts, Admit(b, res) PROVE Goal
  BY <1>2, <1>c, <1>f DEF Admit, Enqueue
<1>3. ASSUME UNCHANGED queueVars PROVE Goal
  BY <1>3, <1>a DEF queueVars, storage
<1>4. ASSUME NEW k \in LaneKeys, LaneStep(k) PROVE Goal
  <2>1. CASE BeginRetire(k)
    BY <2>1, <1>a DEF BeginRetire, Remove, storage
  <2>2. ASSUME NEW res \in Results, PersistHold(k, res) PROVE Goal
    <3>1. attempted[k] \in Artifacts /\ Write(WithHold(disk, attempted[k]), res)
      BY <2>2, <1>d, ZenonT(30) DEF PersistHold, Hold, At
    <3> QED
      BY <1>a, <1>b, <1>c, <3>1, LeadStays, ZenonT(30)
  <2>3. ASSUME NEW res \in Results, DropBackoff(k, res) \/ ScheduleBackoff(k, res) PROVE Goal
    <3>1. attempted[k] \in Artifacts /\ attempted[k] # a
      BY <2>3, <1>d, ZenonT(30) DEF DropBackoff, ScheduleBackoff, At
    <3>2. UNCHANGED queueVars \/ \E n : Write(WithBackoff(disk, attempted[k], n), res)
      BY <2>3, Zenon DEF DropBackoff, ScheduleBackoff, ClearBackoff, SetBackoff
    <3> QED
      BY <1>3, <1>a, <1>b, <1>c, <3>1, <3>2, LeadStays, ZenonT(30)
  <2>4. ASSUME NEW res \in Results, Retire(k, res) PROVE Goal
    <3>1. RemoveStep(res) /\ rm # NotRemoving
      BY <2>4 DEF Retire, NotRemoving
    <3>2. PICK d \in {WithoutHold(disk, rm.id), WithBackoff(disk, rm.id, NoBackoff), WithRecord(disk, rm.id, NoSeq)} :
            Write(d, res)
      BY <1>h, <3>1 DEF RemoveStep, RemoveHold, RemoveBackoff, RemoveRecord, RestoreRecord
    <3> QED
      BY <1>c, <1>g, <3>1, <3>2
  <2>5. CASE UNCHANGED queueVars
    BY <1>3, <2>5
  <2> QED
    BY <1>4, <2>1, <2>2, <2>3, <2>4, <2>5, Zenon
       DEF LaneStep, IgnoreWake, DeliverHead, Due, Accept, Unanswered, RefuseUntilHandoff, RefuseForGood, StoreReturn
<1>5. CASE ProbeStep
  BY <1>5, <1>a, <1>b DEF ProbeStep, ProbeNote, ProbeStore, storage
<1>6. CASE Stop
  <2>1. PICK d \in {disk} \cup InsertInFlight \cup RemoveInFlight \cup UNION {LaneInFlight(k) : k \in LaneKeys} :
          Crash(d)
    BY <1>6 DEF Stop
  <2>2. LeadsLane(a, d)
    <3>1. CASE d \in InsertInFlight
      BY <1>f, <3>1 DEF InsertInFlight
    <3>2. CASE d \in RemoveInFlight
      <4>1. /\ rm # NotRemoving
            /\ d \in {WithoutHold(disk, rm.id), WithBackoff(disk, rm.id, NoBackoff), WithRecord(disk, rm.id, NoSeq)}
        BY <1>h, <3>2 DEF RemoveInFlight, NotRemoving
      <4> QED
        BY <1>g, <4>1
    <3>3. ASSUME NEW k \in LaneKeys, d \in LaneInFlight(k) PROVE LeadsLane(a, d)
      <4>1. /\ ~At(k, "idle")
            /\ d = WithHold(disk, attempted[k]) \/ \E n : d = WithBackoff(disk, attempted[k], n)
        BY <3>3 DEF LaneInFlight, At
      <4> QED
        BY <1>a, <1>b, <1>d, <4>1, LeadStays, Zenon
    <3> QED
      BY <1>b, <2>1, <3>1, <3>2, <3>3
  <2> QED
    BY <1>a, <2>1, <2>2 DEF Crash, Expose
<1>7. CASE LosePower
  BY <1>7, <1>a DEF LosePower, PowerLoss
<1> QED
  BY <1>1, <1>2, <1>3, <1>4, <1>5, <1>6, <1>7 DEF LanesNext, DueWhileDown, RefuseFull, NotifyDevice, vars

LEMMA PromiseInvStep ==
    ASSUME LaneInv, SyncedInv, IndexInv, HeadInv, PromiseInv, [LanesNext]_vars
    PROVE  PromiseInv'
<1> DEFINE Waits(a) == open => backing[LaneKey(a)] /\ At(LaneKey(a), "idle")
           Goal == \A a \in promised' : Waits(a)' /\ \A d \in possible' : LeadsLane(a, d)
<1> SUFFICES Goal
  BY ZenonT(30) DEF PromiseInv
<1>a. /\ LaneType /\ TypeOK /\ promised \subseteq Artifacts
      /\ \A a \in promised : Waits(a) /\ LaneKey(a) \in LaneKeys /\ LeadsLane(a, disk)
  BY LaneKeyType, Zenon DEF LaneInv, LaneType, SyncedInv, QueueInv, TypeOK, PromiseInv
<1>b. \A a \in promised : \A d \in possible' : LeadsLane(a, d)
  BY PromiseOnDisk
<1>c. ASSUME promised' \subseteq promised, UNCHANGED <<open, phase, backing>> PROVE Goal
  BY <1>a, <1>b, <1>c, ZenonT(30) DEF At
<1>1. ASSUME NEW res \in Results, Start(res) PROVE Goal
  <2>1. /\ promised' = promised /\ ~open /\ phase' = phase /\ Loadable(disk)
        /\ backing' = [k \in LaneKeys |-> RestoresBackoff(LaneHead(disk.rec, k))]
    BY <1>1, ZenonT(30) DEF Start, Open, history
  <2>2. ASSUME NEW a \in promised PROVE backing'[LaneKey(a)] /\ At(LaneKey(a), "idle")
    <3> DEFINE items == {b \in Artifacts : disk.rec[b] # NoSeq /\ LaneKey(b) = LaneKey(a)}
               head == LaneHead(disk.rec, LaneKey(a))
    <3>1. disk.rec \in [Artifacts -> 0..MaxSeq]
      BY <1>a DEF TypeOK, Directories
    <3>2. a \in items /\ items \subseteq Recorded(disk) /\ \A b \in items : disk.rec[a] <= disk.rec[b]
      BY <1>a DEF LeadsLane, Recorded
    <3>3. head \in items /\ \A b \in items : disk.rec[head] <= disk.rec[b]
      BY <3>1, <3>2, LaneHeadIsLeast, Zenon
    <3> HIDE DEF items, head
    <3>4. disk.rec[head] \in Nat /\ disk.rec[a] \in Nat /\ head \in Recorded(disk) /\ a \in Recorded(disk)
      BY <3>1, <3>2, <3>3, BoundsAssumption DEF Recorded
    <3>5. head = a
      <4>1. disk.rec[head] = disk.rec[a]
        BY <3>2, <3>3, <3>4
      <4> QED
        BY <2>1, <3>4, <4>1, Zenon DEF Loadable
    <3>6. RestoresBackoff(a)
      BY <1>a, ArtifactsAssumption, Zenon DEF RestoresBackoff, LeadsLane
    <3> QED
      BY <1>a, <2>1, <3>5, <3>6, Zenon DEF head, LaneInv
  <2> QED
    BY <1>b, <2>1, <2>2 DEF At
<1>2. ASSUME NEW res \in Results, NEW a \in Artifacts, Admit(a, res) PROVE Goal
  BY <1>2, <1>c DEF Admit, Enqueue
<1>3. ASSUME NEW a \in Artifacts, DueWhileDown(a) \/ RefuseFull(a) PROVE Goal
  BY <1>3, <1>c, ZenonT(30) DEF DueWhileDown, RefuseFull, laneVars, queueVars, memory, history
<1>4. ASSUME NEW d \in Devices, NotifyDevice(d) PROVE Goal
  BY <1>4, <1>c, ZenonT(30) DEF NotifyDevice, queueVars, memory
<1>5. ASSUME NEW k \in LaneKeys, LaneStep(k) PROVE Goal
  <2>0. ASSUME promised' \subseteq promised, open, open' = open,
               \A j \in LaneKeys : j # k => phase'[j] = phase[j] /\ backing'[j] = backing[j],
               \A a \in promised' : LaneKey(a) # k
        PROVE  Goal
    BY <1>a, <1>b, <2>0, Zenon DEF At
  <2>1. CASE IgnoreWake(k)
    BY <2>1, <1>c DEF IgnoreWake, queueVars, memory, history
  <2>2. CASE DeliverHead(k)
    <3>1. /\ open /\ open' = open /\ ~backing[k] /\ UNCHANGED <<promised, backing>>
      BY <2>2, Zenon DEF DeliverHead, Unlocked, Woken, TimerFired, queueVars, memory
    <3>2. phase' = phase \/ phase' = [phase EXCEPT ![k] = "sending"]
      BY <2>2 DEF DeliverHead, Goto
    <3>3. \A j \in LaneKeys : j # k => phase'[j] = phase[j]
      BY <1>a, <3>2 DEF LaneType
    <3> QED
      BY <1>a, <2>0, <3>1, <3>3, ZenonT(30)
  <2>3. CASE Due(k)
    <3>1. /\ open /\ open' = open /\ phase' = phase /\ backing' = [backing EXCEPT ![k] = FALSE]
          /\ promised' = promised \ {a \in Artifacts : IsHead(a, k)}
      BY <2>3 DEF Due, queueVars, memory
    <3>2. ASSUME NEW a \in promised, LaneKey(a) = k PROVE IsHead(a, k)
      BY <1>a, <3>1, <3>2, Zenon DEF SyncedInv, LeadsLane, IsHead, LaneItems, Queued, Recorded
    <3>3. \A a \in promised' : LaneKey(a) # k
      BY <1>a, <3>1, <3>2
    <3>4. \A j \in LaneKeys : j # k => backing'[j] = backing[j]
      BY <1>a, <3>1 DEF LaneType
    <3> QED
      BY <2>0, <3>1, <3>3, <3>4
  <2>4. CASE \/ Accept(k) \/ Unanswered(k) \/ RefuseUntilHandoff(k) \/ RefuseForGood(k) \/ BeginRetire(k)
             \/ \E res \in Results : PersistHold(k, res) \/ DropBackoff(k, res) \/ StoreReturn(k, res) \/ Retire(k, res)
    <3>1. /\ ~At(k, "idle") /\ UNCHANGED <<open, promised, backing>>
      BY <2>4, ZenonT(30) DEF Accept, Unanswered, RefuseUntilHandoff, RefuseForGood, BeginRetire, PersistHold, DropBackoff,
                  StoreReturn, Retire, RemoveStep, RemoveHold, RemoveBackoff, RemoveRecord, RestoreRecord,
                  Remove, Hold, ClearBackoff, At, queueVars, memory, history
    <3>2. phase' = phase \/ \E p \in Phases : phase' = [phase EXCEPT ![k] = p]
      BY <2>4, Zenon DEF Accept, Unanswered, RefuseUntilHandoff, RefuseForGood, BeginRetire, PersistHold, DropBackoff,
                  StoreReturn, Retire, Goto, Phases
    <3>3. \A j \in LaneKeys : j # k => phase'[j] = phase[j]
      BY <1>a, <3>2 DEF LaneType
    <3>4. open
      BY <3>1, ZenonT(30) DEF LaneInv
    <3> QED
      BY <1>a, <2>0, <3>1, <3>3, <3>4, ZenonT(30)
  <2>5. ASSUME NEW res \in Results, ScheduleBackoff(k, res) PROVE Goal
    <3>1. /\ open /\ open' = open /\ phase' = [phase EXCEPT ![k] = "idle"] /\ backing' = [backing EXCEPT ![k] = TRUE]
          /\ promised' = IF res = "ok" THEN promised \cup {attempted[k]} ELSE promised
          /\ Write(WithBackoff(disk, attempted[k], NextAttempts(k)), res) /\ At(k, "failed")
      BY <2>5 DEF ScheduleBackoff, SetBackoff, Unlocked, Goto
    <3>a. /\ IsHead(attempted[k], k) /\ entries = disk.rec /\ attempted[k] \in Artifacts
          /\ LaneKey(attempted[k]) = k /\ entries[attempted[k]] # NoSeq
      BY <3>1, ZenonT(30) DEF HeadInv, WorksOnHead, SyncedInv, At, IsHead, LaneItems, Queued
    <3>2. ASSUME NEW a \in promised' PROVE Waits(a)'
      <4>1. phase'[k] = "idle" /\ backing'[k]
        BY <1>a, <3>1 DEF LaneType
      <4>2. \A j \in LaneKeys : j # k => phase'[j] = phase[j] /\ backing'[j] = backing[j]
        BY <1>a, <3>1 DEF LaneType
      <4>3. CASE a = attempted[k]
        BY <3>a, <4>1, <4>3, Zenon DEF At
      <4>4. CASE a \in promised
        BY <1>a, <3>1, <4>1, <4>2, <4>4, Zenon DEF At
      <4> QED
        BY <3>1, <4>3, <4>4, Zenon
    <3>3. ASSUME res = "ok", NEW d \in possible' PROVE LeadsLane(attempted[k], d)
      <4>1. d = WithBackoff(disk, attempted[k], NextAttempts(k))
        BY <3>1, <3>3, WriteOk, Zenon
      <4>2. d.rec = disk.rec /\ d.back = [disk.back EXCEPT ![attempted[k]] = NextAttempts(k)]
            /\ disk.back \in [Artifacts -> 0..MaxAttempts]
        BY <1>a, <4>1 DEF WithBackoff, TypeOK, Directories
      <4>3. d.back[attempted[k]] # NoBackoff
        <5>1. d.back[attempted[k]] = NextAttempts(k)
          BY <3>a, <4>2, Zenon
        <5>2. NextAttempts(k) \in 1..MaxAttempts
          BY <1>a, NextAttemptsType, Zenon
        <5>3. \A n \in 1..MaxAttempts : n # NoBackoff
          BY DEF NoBackoff
        <5> QED
          BY <5>1, <5>2, <5>3, Zenon
      <4>4. \A b \in Recorded(d) : LaneKey(b) = k => d.rec[attempted[k]] <= d.rec[b]
        BY <3>a, <4>2, Zenon DEF IsHead, LaneItems, Queued, Recorded
      <4> QED
        BY <3>a, <4>2, <4>3, <4>4, Zenon DEF LeadsLane
    <3> QED
      BY <1>b, <3>1, <3>2, <3>3
  <2> QED
    BY <1>5, <2>1, <2>2, <2>3, <2>4, <2>5 DEF LaneStep
<1>6. CASE ProbeStep
  BY <1>6, <1>c DEF ProbeStep, ProbeNote, ProbeStore, laneVars, history
<1>7. CASE Stop
  BY <1>7, <1>b DEF Stop, Crash
<1>8. CASE LosePower
  BY <1>8, <1>c DEF LosePower, PowerLoss, memory, laneVars, history
<1>9. CASE UNCHANGED vars
  BY <1>9, <1>c, Zenon DEF vars, queueVars, memory, laneVars, history
<1> QED
  BY <1>1, <1>2, <1>3, <1>4, <1>5, <1>6, <1>7, <1>8, <1>9, Zenon DEF LanesNext

\* As long as no directory sync failed after its change took effect, a back-off
\* that was persisted without error is waited out by whatever process runs next:
\* no crash, power loss or restart resends a backed-off head early.
THEOREM BackoffIsWaitedOut == LanesSpec => []BackoffSurvivesUnlessSlipped
<1> DEFINE Kept == ~slipped => SyncedInv /\ PromiseInv
           Inv == LaneInv /\ QueueInv /\ IndexInv /\ HeadInv /\ Kept
<1>1. LanesInit => Inv
  <2>1. LanesInit => PromiseInv
    BY DEF LanesInit, PromiseInv
  <2> QED
    BY <2>1, LanesInvInit, HeadInvInit, SyncedInvInit, Zenon DEF LanesInit
<1>2. Inv /\ [LanesNext]_vars => Inv'
  <2> SUFFICES ASSUME Inv, [LanesNext]_vars PROVE Inv'
    OBVIOUS
  <2>1. LaneInv' /\ QueueInv' /\ IndexInv' /\ HeadInv' /\ [Next]_queueVars
    BY LanesInvStep, IndexInvStep, HeadInvStep
  <2>2. ~slipped' => SyncedInv' /\ PromiseInv'
    BY <2>1, SlippedStays, SyncedInvStep, PromiseInvStep
  <2> QED
    BY <2>1, <2>2
<1>3. Inv => BackoffSurvivesUnlessSlipped
  BY Zenon DEF BackoffSurvivesUnlessSlipped, BackoffSurvivesRestart, PromiseInv, LaneInv, LaneItems, At
<1> QED
  BY <1>1, <1>2, <1>3, PTL DEF LanesSpec

=============================================================================
