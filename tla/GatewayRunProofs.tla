-------------------------- MODULE GatewayRunProofs --------------------------
(***************************************************************************)
(* For any traffic, allowance and limits: the messages of one device are   *)
(* handled one at a time, the state directory is released when nothing     *)
(* that could sign or write is left, and an escalation is what a stop that *)
(* it decided reports.                                                     *)
(***************************************************************************)
EXTENDS GatewayRun, FiniteSetTheorems, SequenceTheorems, TLAPS

Places == Inside \cup {"out", "done"}

\* A drain goroutine has the message and is not yet done with it.
Drained == {"taken", "running", "ending", "releasing"}

PoolTypeOK ==
    /\ where \in [Traffic -> Places]
    /\ fifo \in [Senders -> Seq(Evidence)]
    /\ takers \in [Senders -> {0, 1}]
    /\ draining \subseteq Senders
    /\ \A m \in Evidence: where[m] \notin {"failing", "deciding", "decided"}

\* What is queued for a device is its own, waits, and is there once.
FifoIsQueued ==
    \A d \in Senders: \A i \in 1 .. Len(fifo[d]):
       SenderOf[fifo[d][i]] = d /\ where[fifo[d][i]] = "queued"

FifoOnce == \A d \in Senders: \A i, j \in 1 .. Len(fifo[d]): fifo[d][i] = fifo[d][j] => i = j

\* A drain about to take is the device's only one and has no message.
TakerIsAlone ==
    \A d \in Senders: takers[d] = 1 =>
       d \in draining /\ \A m \in Evidence: SenderOf[m] = d => where[m] \notin Drained

\* A drain has one message, and its device is marked as drained.
DrainHasOne ==
    \A m \in Evidence: where[m] \in Drained =>
       /\ SenderOf[m] \in draining
       /\ \A n \in Evidence: SenderOf[n] = SenderOf[m] /\ where[n] \in Drained => n = m

PoolInv == PoolTypeOK /\ FifoIsQueued /\ FifoOnce /\ TakerIsAlone /\ DrainHasOne

\* Messages and their devices.
LEMMA OfTraffic ==
    /\ Evidence \subseteq Traffic
    /\ \A m \in Traffic: SenderOf[m] \in Senders
    /\ \A m \in Evidence: m \notin Requests /\ m \notin Hooks
    /\ "main" \notin Traffic /\ "watch" \notin Traffic
  BY RunAssumption DEF Traffic, Pools, Senders

\* The pools start empty.
LEMMA PoolStarts == RunInit => PoolInv
<1> SUFFICES ASSUME RunInit PROVE PoolInv
  OBVIOUS
<1>1. /\ where = [m \in Traffic |-> "out"] /\ fifo = [d \in Senders |-> <<>>]
      /\ takers = [d \in Senders |-> 0] /\ draining = {}
  BY DEF RunInit
<1>2. \A m \in Evidence: where[m] = "out"
  BY <1>1, OfTraffic
<1>3. PoolTypeOK
  BY <1>1, <1>2 DEF PoolTypeOK, Places
<1>4. FifoIsQueued /\ FifoOnce
  BY <1>1 DEF FifoIsQueued, FifoOnce
<1>5. TakerIsAlone /\ DrainHasOne
  BY <1>1, <1>2 DEF TakerIsAlone, DrainHasOne, Drained
<1> QED
  BY <1>3, <1>4, <1>5 DEF PoolInv

\* A message that is not queued moves, and no drain gets one.
Moves(m, to) ==
    /\ where' = [where EXCEPT ![m] = to] /\ UNCHANGED <<fifo, draining, takers>>
    /\ to \in Places \ {"queued"} /\ where[m] # "queued"
    /\ m \in Evidence => /\ to \in Drained => where[m] \in Drained
                         /\ to \notin {"failing", "deciding", "decided"}

LEMMA MoveKeeps == ASSUME PoolInv, NEW m \in Traffic, NEW to, Moves(m, to) PROVE PoolInv'
<1>t. /\ where \in [Traffic -> Places] /\ fifo \in [Senders -> Seq(Evidence)]
      /\ \A x \in Evidence: where[x] \notin {"failing", "deciding", "decided"}
  BY DEF PoolInv, PoolTypeOK
<1>1. /\ where' \in [Traffic -> Places] /\ where'[m] = to
      /\ \A x \in Traffic \ {m}: where'[x] = where[x]
      /\ UNCHANGED <<fifo, draining, takers>>
  BY <1>t DEF Moves
<1>2. PoolTypeOK'
  BY <1>t, <1>1, OfTraffic DEF PoolInv, PoolTypeOK, Moves
<1>3. FifoIsQueued'
  <2> SUFFICES ASSUME NEW d \in Senders, NEW i \in 1 .. Len(fifo[d])
               PROVE  SenderOf[fifo[d][i]] = d /\ where'[fifo[d][i]] = "queued"
    BY <1>1 DEF FifoIsQueued
  <2>1. fifo[d][i] \in Evidence
    BY <1>t, ElementOfSeq
  <2>2. SenderOf[fifo[d][i]] = d /\ where[fifo[d][i]] = "queued"
    BY DEF PoolInv, FifoIsQueued
  <2> QED
    BY <1>1, <2>1, <2>2, OfTraffic DEF Moves
<1>4. FifoOnce'
  BY <1>1 DEF PoolInv, FifoOnce
<1>5. \A x \in Evidence: where'[x] \in Drained => where[x] \in Drained
  BY <1>1, OfTraffic DEF Moves
<1>6. TakerIsAlone' /\ DrainHasOne'
  BY <1>1, <1>5 DEF PoolInv, TakerIsAlone, DrainHasOne
<1> QED
  BY <1>2, <1>3, <1>4, <1>6 DEF PoolInv

\* A message of the ordered pool is queued, and starts a drain if there is none.
LEMMA QueueKeeps ==
    ASSUME PoolInv, NEW m \in Evidence, where[m] = "inside",
           where' = [where EXCEPT ![m] = "queued"],
           fifo' = [fifo EXCEPT ![SenderOf[m]] = Append(@, m)],
           takers' = IF SenderOf[m] \notin draining
                     THEN [takers EXCEPT ![SenderOf[m]] = @ + 1] ELSE takers,
           draining' = draining \cup {SenderOf[m]}
    PROVE  PoolInv'
<1> DEFINE d == SenderOf[m]
<1>t. /\ where \in [Traffic -> Places] /\ fifo \in [Senders -> Seq(Evidence)]
      /\ takers \in [Senders -> {0, 1}] /\ draining \subseteq Senders
      /\ \A x \in Evidence: where[x] \notin {"failing", "deciding", "decided"}
      /\ d \in Senders /\ m \in Traffic
  BY OfTraffic DEF PoolInv, PoolTypeOK
<1>1. /\ where' \in [Traffic -> Places] /\ where'[m] = "queued"
      /\ \A x \in Traffic \ {m}: where'[x] = where[x]
  BY <1>t DEF Places, Inside
<1>2. /\ fifo' \in [Senders -> Seq(Evidence)] /\ fifo'[d] = Append(fifo[d], m)
      /\ \A x \in Senders \ {d}: fifo'[x] = fifo[x]
  BY <1>t, AppendProperties
<1>3. \A x \in Senders: x \notin draining => takers[x] = 0
  BY <1>t DEF PoolInv, TakerIsAlone
<1>4. /\ takers' \in [Senders -> {0, 1}]
      /\ \A x \in Senders \ {d}: takers'[x] = takers[x]
      /\ d \in draining => takers'[d] = takers[d]
  BY <1>t, <1>3
<1>5. PoolTypeOK'
  BY <1>t, <1>1, <1>2, <1>4, OfTraffic DEF PoolTypeOK
<1>6. \A x \in Senders: \A i \in 1 .. Len(fifo[x]):
         /\ fifo[x][i] \in Evidence /\ fifo[x][i] # m /\ SenderOf[fifo[x][i]] = x
         /\ where'[fifo[x][i]] = "queued"
  BY <1>t, <1>1, ElementOfSeq, OfTraffic DEF PoolInv, FifoIsQueued
<1>7. /\ Len(fifo[d]) \in Nat /\ Len(fifo'[d]) = Len(fifo[d]) + 1
      /\ \A i \in 1 .. Len(fifo[d]): fifo'[d][i] = fifo[d][i]
      /\ fifo'[d][Len(fifo[d]) + 1] = m
  BY <1>t, <1>2, AppendProperties, LenProperties
<1>8. FifoIsQueued' /\ FifoOnce'
  <2>1. ASSUME NEW i \in 1 .. Len(fifo'[d])
        PROVE  i \in 1 .. Len(fifo[d]) \/ i = Len(fifo[d]) + 1
    BY <1>7, <2>1
  <2>2. FifoIsQueued'
    BY <1>1, <1>2, <1>6, <1>7, <2>1 DEF FifoIsQueued
  <2>3. ASSUME NEW x \in Senders, NEW i \in 1 .. Len(fifo'[x]), NEW j \in 1 .. Len(fifo'[x]),
               fifo'[x][i] = fifo'[x][j]
        PROVE  i = j
    <3>1. CASE x = d
      BY <1>6, <1>7, <2>1, <2>3, <3>1 DEF PoolInv, FifoOnce
    <3>2. CASE x # d
      BY <1>2, <2>3, <3>2 DEF PoolInv, FifoOnce
    <3> QED
      BY <3>1, <3>2
  <2> QED
    BY <2>2, <2>3 DEF FifoOnce
<1>9. \A x \in Evidence: where'[x] \in Drained <=> where[x] \in Drained
  BY <1>1, OfTraffic DEF Drained
<1>10. TakerIsAlone' /\ DrainHasOne'
  BY <1>3, <1>4, <1>9 DEF PoolInv, TakerIsAlone, DrainHasOne
<1> QED
  BY <1>5, <1>8, <1>10 DEF PoolInv

\* drain takes the head of its device's queue.
LEMMA TakeKeeps == ASSUME PoolInv, NEW d \in Senders, Take(d) PROVE PoolInv'
<1> DEFINE h == Head(fifo[d])
<1>t. /\ where \in [Traffic -> Places] /\ fifo \in [Senders -> Seq(Evidence)]
      /\ takers \in [Senders -> {0, 1}] /\ draining \subseteq Senders
      /\ \A x \in Evidence: where[x] \notin {"failing", "deciding", "decided"}
      /\ Evidence \subseteq Traffic
  BY OfTraffic DEF PoolInv, PoolTypeOK
<1>1. /\ takers[d] = 1 /\ fifo[d] # <<>> /\ takers' = [takers EXCEPT ![d] = takers[d] - 1]
      /\ where' = [where EXCEPT ![h] = "taken"] /\ fifo' = [fifo EXCEPT ![d] = Tail(fifo[d])]
      /\ draining' = draining
  BY <1>t DEF Take
<1>2. /\ fifo[d] \in Seq(Evidence) /\ Len(fifo[d]) \in Nat /\ Len(fifo[d]) >= 1
      /\ h = fifo[d][1] /\ h \in Evidence
      /\ Tail(fifo[d]) \in Seq(Evidence) /\ Len(Tail(fifo[d])) = Len(fifo[d]) - 1
      /\ \A i \in 1 .. Len(Tail(fifo[d])): Tail(fifo[d])[i] = fifo[d][i + 1]
  BY <1>t, <1>1, HeadTailProperties, LenProperties
<1>3. SenderOf[h] = d /\ where[h] = "queued"
  BY <1>2 DEF PoolInv, FifoIsQueued
<1> HIDE DEF h
<1>4. /\ where' \in [Traffic -> Places] /\ where'[h] = "taken"
      /\ \A x \in Traffic \ {h}: where'[x] = where[x]
  BY <1>t, <1>1, <1>2 DEF Places, Inside
<1>5. /\ fifo' \in [Senders -> Seq(Evidence)] /\ fifo'[d] = Tail(fifo[d])
      /\ \A x \in Senders \ {d}: fifo'[x] = fifo[x]
  BY <1>t, <1>1, <1>2
<1>6. /\ takers' \in [Senders -> {0, 1}] /\ takers'[d] = 0
      /\ \A x \in Senders \ {d}: takers'[x] = takers[x]
  BY <1>t, <1>1
<1>7. PoolTypeOK'
  BY <1>t, <1>1, <1>4, <1>5, <1>6 DEF PoolTypeOK
<1>8. \A x \in Senders: \A i \in 1 .. Len(fifo'[x]):
         \E j \in 1 .. Len(fifo[x]): fifo'[x][i] = fifo[x][j] /\ (x = d => j = i + 1)
  <2> SUFFICES ASSUME NEW x \in Senders, NEW i \in 1 .. Len(fifo'[x])
               PROVE  \E j \in 1 .. Len(fifo[x]): fifo'[x][i] = fifo[x][j] /\ (x = d => j = i + 1)
    OBVIOUS
  <2>1. CASE x = d
    <3>1. i + 1 \in 1 .. Len(fifo[d]) /\ fifo'[d][i] = fifo[d][i + 1]
      BY <1>2, <1>5, <2>1
    <3> QED
      BY <2>1, <3>1
  <2>2. CASE x # d
    BY <1>5, <2>2
  <2> QED
    BY <2>1, <2>2
<1>9. FifoIsQueued'
  <2> SUFFICES ASSUME NEW x \in Senders, NEW i \in 1 .. Len(fifo'[x])
               PROVE  SenderOf[fifo'[x][i]] = x /\ where'[fifo'[x][i]] = "queued"
    BY DEF FifoIsQueued
  <2>1. PICK j \in 1 .. Len(fifo[x]): fifo'[x][i] = fifo[x][j] /\ (x = d => j = i + 1)
    BY <1>8
  <2>2. fifo[x][j] \in Evidence /\ SenderOf[fifo[x][j]] = x /\ where[fifo[x][j]] = "queued"
    BY <1>t, ElementOfSeq DEF PoolInv, FifoIsQueued
  <2>3. fifo[x][j] # h
    <3>1. CASE x = d
      <4>1. i \in Nat /\ i >= 1 /\ j # 1 /\ 1 \in 1 .. Len(fifo[d])
        BY <1>2, <2>1, <3>1
      <4> QED
        BY <1>2, <3>1, <4>1 DEF PoolInv, FifoOnce
    <3>2. CASE x # d
      BY <1>3, <2>2, <3>2
    <3> QED
      BY <3>1, <3>2
  <2> QED
    BY <1>t, <1>4, <2>1, <2>2, <2>3
<1>10. FifoOnce'
  <2> SUFFICES ASSUME NEW x \in Senders, NEW i \in 1 .. Len(fifo'[x]), NEW j \in 1 .. Len(fifo'[x]),
                      fifo'[x][i] = fifo'[x][j]
               PROVE  i = j
    BY DEF FifoOnce
  <2>1. CASE x = d
    <3>1. /\ i + 1 \in 1 .. Len(fifo[d]) /\ fifo'[d][i] = fifo[d][i + 1]
          /\ j + 1 \in 1 .. Len(fifo[d]) /\ fifo'[d][j] = fifo[d][j + 1]
      BY <1>2, <1>5, <2>1
    <3>2. i + 1 = j + 1
      BY <2>1, <3>1 DEF PoolInv, FifoOnce
    <3> QED
      BY <3>2
  <2>2. CASE x # d
    BY <1>5, <2>2 DEF PoolInv, FifoOnce
  <2> QED
    BY <2>1, <2>2
<1>11. \A x \in Evidence: SenderOf[x] = d => where[x] \notin Drained
  BY <1>1 DEF PoolInv, TakerIsAlone
<1>12. \A x \in Evidence: where'[x] \in Drained => x = h \/ where[x] \in Drained
  BY <1>t, <1>4
<1>13. TakerIsAlone'
  BY <1>1, <1>3, <1>6, <1>12 DEF PoolInv, TakerIsAlone
<1>14. DrainHasOne'
  BY <1>1, <1>3, <1>11, <1>12 DEF PoolInv, TakerIsAlone, DrainHasOne
<1> QED
  BY <1>7, <1>9, <1>10, <1>13, <1>14 DEF PoolInv

\* A message handled is let go of, and the last one ends the drain.
LEMMA EndKeeps == ASSUME PoolInv, NEW m \in Traffic, End(m) PROVE PoolInv'
<1>t. /\ where \in [Traffic -> Places] /\ Evidence \subseteq Traffic
  BY OfTraffic DEF PoolInv, PoolTypeOK
<1>1. where[m] = "ending" /\ UNCHANGED <<fifo, takers>>
  BY DEF End
<1>2. CASE ~IsLast(m)
  <2>1. Moves(m, "releasing")
    BY <1>1, <1>2 DEF End, Moves, Places, Inside, Drained
  <2> QED
    BY <2>1, MoveKeeps
<1>3. CASE IsLast(m)
  <2>1. /\ m \in Evidence /\ where' = [where EXCEPT ![m] = "last"]
        /\ draining' = draining \ {SenderOf[m]}
    BY <1>3 DEF End, IsLast
  <2>2. /\ where' \in [Traffic -> Places] /\ where'[m] = "last"
        /\ \A x \in Traffic \ {m}: where'[x] = where[x]
    BY <1>t, <2>1 DEF Places, Inside
  <2>3. PoolTypeOK'
    BY <1>t, <1>1, <2>1, <2>2 DEF PoolInv, PoolTypeOK
  <2>4. FifoIsQueued'
    <3> SUFFICES ASSUME NEW d \in Senders, NEW i \in 1 .. Len(fifo[d])
                 PROVE  SenderOf[fifo[d][i]] = d /\ where'[fifo[d][i]] = "queued"
      BY <1>1 DEF FifoIsQueued
    <3>1. fifo[d][i] \in Evidence
      BY ElementOfSeq DEF PoolInv, PoolTypeOK
    <3>2. SenderOf[fifo[d][i]] = d /\ where[fifo[d][i]] = "queued"
      BY DEF PoolInv, FifoIsQueued
    <3> QED
      BY <1>t, <1>1, <2>2, <3>1, <3>2
  <2>5. FifoOnce'
    BY <1>1 DEF PoolInv, FifoOnce
  <2>6. \A x \in Evidence: where'[x] \in Drained => where[x] \in Drained /\ x # m
    BY <1>t, <2>2 DEF Drained
  <2>7. where[m] \in Drained
    BY <1>1 DEF Drained
  <2>8. \A x \in Evidence: SenderOf[x] = SenderOf[m] => where'[x] \notin Drained
    BY <2>1, <2>6, <2>7 DEF PoolInv, DrainHasOne
  <2>9. TakerIsAlone'
    <3>1. takers[SenderOf[m]] # 1
      BY <1>t, <2>1, <2>7, OfTraffic DEF PoolInv, TakerIsAlone
    <3> QED
      BY <1>1, <2>1, <2>6, <3>1 DEF PoolInv, TakerIsAlone
  <2>10. DrainHasOne'
    BY <1>1, <2>1, <2>6, <2>8 DEF PoolInv, DrainHasOne
  <2> QED
    BY <2>3, <2>4, <2>5, <2>9, <2>10 DEF PoolInv
<1> QED
  BY <1>2, <1>3

\* The admission is released, and drain goes on unless it has ended.
LEMMA ReleaseKeeps == ASSUME PoolInv, NEW m \in Traffic, Release(m) PROVE PoolInv'
<1>t. /\ where \in [Traffic -> Places] /\ takers \in [Senders -> {0, 1}]
      /\ Evidence \subseteq Traffic
  BY OfTraffic DEF PoolInv, PoolTypeOK
<1>1. /\ where[m] \in {"releasing", "last"} /\ where' = [where EXCEPT ![m] = "done"]
      /\ UNCHANGED <<fifo, draining>>
  BY DEF Release
<1>2. CASE ~(m \in Evidence /\ where[m] = "releasing")
  <2>1. Moves(m, "done")
    BY <1>1, <1>2 DEF Release, Moves, Places, Drained
  <2> QED
    BY <2>1, MoveKeeps
<1>3. CASE m \in Evidence /\ where[m] = "releasing"
  <2> DEFINE d == SenderOf[m]
  <2>1. d \in Senders /\ takers' = [takers EXCEPT ![d] = takers[d] + 1]
    BY <1>3, OfTraffic DEF Release
  <2>2. where[m] \in Drained
    BY <1>3 DEF Drained
  <2>3. takers[d] = 0 /\ d \in draining
    BY <1>t, <1>3, <2>1, <2>2 DEF PoolInv, TakerIsAlone, DrainHasOne
  <2>4. /\ takers' \in [Senders -> {0, 1}] /\ takers'[d] = 1
        /\ \A x \in Senders \ {d}: takers'[x] = takers[x]
    BY <1>t, <2>1, <2>3
  <2>5. /\ where' \in [Traffic -> Places] /\ where'[m] = "done"
        /\ \A x \in Traffic \ {m}: where'[x] = where[x]
    BY <1>t, <1>1 DEF Places
  <2>6. PoolTypeOK'
    BY <1>t, <1>1, <2>4, <2>5 DEF PoolInv, PoolTypeOK
  <2>7. FifoIsQueued'
    <3> SUFFICES ASSUME NEW x \in Senders, NEW i \in 1 .. Len(fifo[x])
                 PROVE  SenderOf[fifo[x][i]] = x /\ where'[fifo[x][i]] = "queued"
      BY <1>1 DEF FifoIsQueued
    <3>1. fifo[x][i] \in Evidence
      BY ElementOfSeq DEF PoolInv, PoolTypeOK
    <3>2. SenderOf[fifo[x][i]] = x /\ where[fifo[x][i]] = "queued"
      BY DEF PoolInv, FifoIsQueued
    <3> QED
      BY <1>t, <1>1, <2>5, <3>1, <3>2
  <2>8. FifoOnce'
    BY <1>1 DEF PoolInv, FifoOnce
  <2>9. \A x \in Evidence: where'[x] \in Drained => where[x] \in Drained /\ x # m
    BY <1>t, <2>5 DEF Drained
  <2>10. \A x \in Evidence: SenderOf[x] = d => where'[x] \notin Drained
    BY <1>3, <2>2, <2>9 DEF PoolInv, DrainHasOne
  <2>11. TakerIsAlone' /\ DrainHasOne'
    BY <1>1, <2>3, <2>4, <2>9, <2>10 DEF PoolInv, TakerIsAlone, DrainHasOne
  <2> QED
    BY <2>6, <2>7, <2>8, <2>11 DEF PoolInv
<1> QED
  BY <1>2, <1>3

\* What a callback does with one message, the pool's own steps aside.
MessageStep(m) ==
    \/ Arrive(m) \/ Run(m) \/ HandleEvidence(m) \/ HandleEnrichment(m) \/ HandleBeat(m) \/ Hook(m)
    \/ CountFailure(m) \/ ReturnFromDecision(m)
    \/ \E outcome \in {"delivered", "failed", "unsigned", "refused"}: HandleRequest(m, outcome)

LEMMA MessageKeeps == ASSUME PoolInv, NEW m \in Traffic, MessageStep(m) PROVE PoolInv'
<1>t. /\ where[m] \in Places
      /\ m \in Evidence => /\ where[m] \notin {"failing", "deciding", "decided"}
                           /\ m \notin Requests /\ m \notin Hooks
  BY OfTraffic DEF PoolInv, PoolTypeOK
<1> USE DEF Moves, Places, Inside, Drained
<1>1. CASE Arrive(m)
  <2>1. Moves(m, "done") \/ Moves(m, "inside")
    BY <1>1, Zenon DEF Arrive
  <2> QED
    BY <2>1, MoveKeeps
<1>2. CASE Run(m)
  <2>1. Moves(m, "ending") \/ Moves(m, "running")
    BY <1>2, Zenon DEF Run
  <2> QED
    BY <2>1, MoveKeeps
<1>3. CASE HandleEvidence(m) \/ HandleEnrichment(m)
  <2>1. Moves(m, "ending")
    BY <1>3 DEF HandleEvidence, HandleEnrichment
  <2> QED
    BY <2>1, MoveKeeps, Zenon
<1>4. CASE HandleBeat(m)
  <2>1. Moves(m, "done")
    BY <1>4 DEF HandleBeat
  <2> QED
    BY <2>1, MoveKeeps, Zenon
<1>5. CASE Hook(m)
  <2>1. Moves(m, "done") \/ Moves(m, "running")
    BY <1>t, <1>5, Zenon DEF Hook
  <2> QED
    BY <2>1, MoveKeeps
<1>6. CASE CountFailure(m)
  <2>1. Moves(m, "deciding") \/ Moves(m, "ending")
    BY <1>t, <1>6, Zenon DEF CountFailure
  <2> QED
    BY <2>1, MoveKeeps
<1>7. CASE ReturnFromDecision(m)
  <2>1. Moves(m, "ending")
    BY <1>t, <1>7 DEF ReturnFromDecision
  <2> QED
    BY <2>1, MoveKeeps, Zenon
<1>8. ASSUME NEW outcome, HandleRequest(m, outcome) PROVE PoolInv'
  <2>1. Moves(m, "failing") \/ Moves(m, "ending")
    BY <1>t, <1>8, Zenon DEF HandleRequest
  <2> QED
    BY <2>1, MoveKeeps
<1> QED
  BY <1>1, <1>2, <1>3, <1>4, <1>5, <1>6, <1>7, <1>8 DEF MessageStep

\* requestPool's handler.
LEMMA AcceptKeeps == ASSUME PoolInv, NEW m \in Traffic, Accept(m) PROVE PoolInv'
<1>1. CASE m \in Evidence /\ where' = [where EXCEPT ![m] = "queued"]
  <2>1. /\ where[m] = "inside" /\ fifo' = [fifo EXCEPT ![SenderOf[m]] = Append(@, m)]
        /\ takers' = IF SenderOf[m] \notin draining
                     THEN [takers EXCEPT ![SenderOf[m]] = @ + 1] ELSE takers
        /\ draining' = draining \cup {SenderOf[m]}
    <3>1. where \in [Traffic -> Places] /\ where'[m] = "queued"
      BY <1>1 DEF PoolInv, PoolTypeOK
    <3> QED
      BY <1>1, <3>1 DEF Accept, Starts
  <2> QED
    BY <1>1, <2>1, QueueKeeps, Zenon
<1>2. CASE ~(m \in Evidence /\ where' = [where EXCEPT ![m] = "queued"])
  <2>1. Moves(m, "done") \/ Moves(m, "taken")
    BY <1>2 DEF Accept, Moves, Places, Inside, Drained
  <2> QED
    BY <2>1, MoveKeeps
<1> QED
  BY <1>1, <1>2

-----------------------------------------------------------------------------
(* The stop.                                                                *)

Decided == {"posture", "runners", "cause", "closing", "quiescing", "released"}
RunnersEnded == {"cause", "closing", "quiescing", "released"}

\* runGateway's own decision has closed the gates it has stepped past.
GatesClosed ==
    /\ step["main"] > 1 => "callbacks" \in closed
    /\ step["main"] > 2 => "webhook" \in closed
    /\ step["main"] > 3 => "posture" \in closed
    /\ step["main"] > 4 => "signing" \in closed

StopInv ==
    /\ step \in [Deciders -> 0 .. 6] /\ GatesClosed
    /\ main \in Decided => step["main"] = 6
    /\ why = "runners" \/ main \in RunnersEnded => runners = {}
    /\ main \in {"quiescing", "released"} => Joined
    /\ main = "released" => ~writing

\* The run starts undecided.
LEMMA StopStarts == RunInit => StopInv
<1> SUFFICES ASSUME RunInit PROVE StopInv
  OBVIOUS
<1>1. main = "subscribing" /\ why = "" /\ step = [p \in Deciders |-> 0] /\ "main" \in Deciders
  BY DEF RunInit, Deciders
<1>2. step \in [Deciders -> 0 .. 6]
  <2>1. 0 \in 0 .. 6
    OBVIOUS
  <2>2. step = [p \in Deciders |-> 0]
    BY <1>1
  <2> QED
    BY <2>1, <2>2, Zenon
<1>3. step["main"] = 0
  BY <1>1
<1>4. GatesClosed
  BY <1>3 DEF GatesClosed
<1> QED
  BY <1>1, <1>2, <1>4 DEF StopInv, Decided, RunnersEnded

\* A step of the others: runGateway stays where it is or the process ends, and
\* what it has joined stays quiet.
Aside ==
    /\ main # "released" /\ main' \in {main, "exited", "abandoned"} /\ why' = why
    /\ step' \in [Deciders -> 0 .. 6] /\ step'["main"] = step["main"]
    /\ closed \subseteq closed' /\ runners' \subseteq runners
    /\ main' = "quiescing" => Joined'

LEMMA AsideKeeps == ASSUME StopInv, Aside PROVE StopInv'
<1>1. GatesClosed'
  BY DEF StopInv, Aside, GatesClosed
<1>2. main' \in Decided => main' = main
  BY DEF Aside, Decided
<1>3. why' = "runners" \/ main' \in RunnersEnded => runners' = {}
  BY DEF StopInv, Aside, RunnersEnded
<1> QED
  BY <1>1, <1>2, <1>3 DEF StopInv, Aside, Decided

\* While runGateway waits for the last write, no message comes in or moves, no
\* fetch starts and none is left.
LEMMA QuietStays ==
    ASSUME PoolInv, StopInv, main = "quiescing", NEW m \in Traffic,
           MessageStep(m) \/ Accept(m) \/ End(m) \/ Release(m)
    PROVE  Joined'
<1>1. /\ "callbacks" \in closed /\ "webhook" \in closed
      /\ \A x \in Traffic: where[x] \notin Inside
      /\ fetching = {} /\ where \in [Traffic -> Places]
  BY DEF StopInv, GatesClosed, Decided, Joined, PoolInv, PoolTypeOK
<1>2. where[m] \in {"out", "done"}
  BY <1>1 DEF Places
<1>3. where' = [where EXCEPT ![m] = "done"] /\ UNCHANGED fetching
  BY <1>1, <1>2 DEF MessageStep, Arrive, Run, HandleEvidence, HandleEnrichment, HandleBeat, Hook,
                    CountFailure, ReturnFromDecision, HandleRequest, Accept, End, Release
<1>4. \A x \in Traffic: where'[x] \notin Inside
  BY <1>1, <1>3 DEF Inside
<1> QED
  BY <1>1, <1>3, <1>4 DEF Joined

\* Steps on messages are aside.
LEMMA MessageAside ==
    ASSUME PoolInv, StopInv, NEW m \in Traffic, MessageStep(m) \/ Accept(m) \/ End(m) \/ Release(m)
    PROVE  Aside
<1>1. UNCHANGED <<main, why, closed, runners>> /\ main # "released"
  BY DEF MessageStep, Arrive, Run, HandleEvidence, HandleEnrichment, HandleBeat, Hook, CountFailure,
         ReturnFromDecision, HandleRequest, Accept, End, Release, Live, mainVars, runnerVars
<1>2. step' \in [Deciders -> 0 .. 6] /\ step'["main"] = step["main"]
  <2>1. UNCHANGED step \/ step' = [step EXCEPT ![m] = 1]
    BY DEF MessageStep, Arrive, Run, HandleEvidence, HandleEnrichment, HandleBeat, Hook, CountFailure,
           ReturnFromDecision, HandleRequest, Accept, End, Release
  <2>2. m # "main" /\ "main" \in Deciders
    BY OfTraffic DEF Deciders
  <2> QED
    BY <2>1, <2>2 DEF StopInv
<1>3. main = "quiescing" => Joined'
  BY QuietStays
<1> QED
  BY <1>1, <1>2, <1>3 DEF Aside

\* A drain, a fetch, a runner, the heartbeat and a write are aside.
LEMMA OthersAside ==
    ASSUME PoolInv, StopInv,
           \/ \E d \in Senders: Take(d) \/ EndFetch(d)
           \/ \E r \in Runners: EndRunner(r)
           \/ \E ok \in BOOLEAN: PublishBeat(ok)
           \/ BuildBeat \/ Write \/ Watch \/ Ask \/ Abandon
    PROVE  Aside
<1>1. /\ main # "released" /\ main' \in {main, "exited", "abandoned"} /\ why' = why
      /\ closed' = closed /\ runners' \subseteq runners
  <2>1. main # "released" /\ closed' = closed /\ why' = why
    BY Zenon DEF Take, EndFetch, EndRunner, PublishBeat, BuildBeat, Write, Watch, Ask, Abandon, Live,
           mainVars, Elsewhere
  <2>2. main' \in {main, "exited", "abandoned"}
    BY DEF Take, EndFetch, EndRunner, PublishBeat, BuildBeat, BeatFails, Write, Watch, Ask, Abandon,
           mainVars
  <2>3. runners' \subseteq runners
    BY Zenon DEF Take, EndFetch, EndRunner, PublishBeat, BuildBeat, Write, Watch, Ask, Abandon,
           runnerVars, Elsewhere
  <2> QED
    BY <2>1, <2>2, <2>3
<1>2. step' \in [Deciders -> 0 .. 6] /\ step'["main"] = step["main"]
  <2>1. UNCHANGED step \/ step' = [step EXCEPT !["watch"] = 1]
    BY Zenon DEF Take, EndFetch, EndRunner, PublishBeat, BuildBeat, Write, Watch, Ask, Abandon
  <2>2. "watch" # "main" /\ "main" \in Deciders
    BY DEF Deciders
  <2> QED
    BY <2>1, <2>2 DEF StopInv
<1>3. main' = "quiescing" => Joined'
  <2> SUFFICES ASSUME main' = "quiescing" PROVE Joined'
    OBVIOUS
  <2>1. main = "quiescing" /\ Joined
    BY <1>1 DEF StopInv
  <2>2. ASSUME NEW d \in Senders, Take(d) PROVE FALSE
    <3>1. fifo[d] \in Seq(Evidence) /\ fifo[d] # <<>>
      BY <2>2 DEF Take, PoolInv, PoolTypeOK
    <3>2. fifo[d][1] \in Evidence /\ 1 \in 1 .. Len(fifo[d])
      BY <3>1
    <3>3. where[fifo[d][1]] = "queued" /\ fifo[d][1] \in Traffic
      BY <3>2, OfTraffic, ZenonT(30) DEF PoolInv, FifoIsQueued
    <3> QED
      BY <2>1, <3>3 DEF Joined, Inside
  <2>3. where' = where /\ fetching' \subseteq fetching
    BY <2>2, Zenon DEF EndFetch, EndRunner, PublishBeat, BuildBeat, Write, Watch, Ask, Abandon, poolVars,
                Elsewhere
  <2> QED
    BY <2>1, <2>3 DEF Joined
<1> QED
  BY <1>1, <1>2, <1>3 DEF Aside

\* A step of the decision, runGateway's or another's.
LEMMA DecideKeeps == ASSUME StopInv, NEW p \in Deciders, Decide(p) PROVE StopInv'
<1>1. /\ step \in [Deciders -> 0 .. 6] /\ step[p] \in 1 .. 5 /\ "main" \in Deciders
      /\ step' = [step EXCEPT ![p] = step[p] + 1]
      /\ UNCHANGED <<main, why, runners, where, fetching, writing>> /\ main # "released"
  BY DEF StopInv, Decide, Deciders, Live, mainVars, poolVars, runnerVars
<1>2. step' \in [Deciders -> 0 .. 6]
  BY <1>1
<1>3. closed \subseteq closed'
  BY DEF Decide
<1>4. main = "quiescing" => Joined'
  BY <1>1 DEF StopInv, Joined
<1>5. CASE p # "main"
  <2>1. Aside
    BY <1>1, <1>2, <1>3, <1>4, <1>5 DEF Aside
  <2> QED
    BY <2>1, AsideKeeps
<1>6. CASE p = "main"
  <2>1. main \notin Decided
    BY <1>1, <1>6 DEF StopInv
  <2>2. step'["main"] = step["main"] + 1 /\ step["main"] \in 1 .. 5
    BY <1>1, <1>6
  <2>3. /\ step["main"] = 1 => "callbacks" \in closed'
        /\ step["main"] = 2 => "webhook" \in closed'
        /\ step["main"] = 3 => "posture" \in closed'
        /\ step["main"] = 4 => "signing" \in closed'
    BY <1>6 DEF Decide
  <2>4. GatesClosed'
    BY <1>3, <2>2, <2>3 DEF StopInv, GatesClosed
  <2> QED
    BY <1>1, <1>2, <2>1, <2>4 DEF StopInv, Decided, RunnersEnded
<1> QED
  BY <1>5, <1>6

\* runGateway itself.
LEMMA MainKeeps ==
    ASSUME StopInv, \/ \E ok \in BOOLEAN: Subscribe(ok)
                    \/ Select \/ JoinPosture \/ JoinRunners \/ Return \/ Close \/ ReleaseDirectory
    PROVE  StopInv'
<1>1. UNCHANGED <<closed, where, fetching, runners, writing>>
  BY DEF Subscribe, Select, JoinPosture, JoinRunners, Return, Close, ReleaseDirectory, Elsewhere,
         poolVars, runnerVars
<1>2. Joined' <=> Joined
  BY <1>1 DEF Joined
<1>t. step \in [Deciders -> 0 .. 6] /\ "main" \in Deciders
  BY DEF StopInv, Deciders
<1>3. ASSUME NEW cause, Leave(cause), cause = "runners" => runners = {} PROVE StopInv'
  <2>1. main' = "deciding" /\ why' = cause /\ step' = [step EXCEPT !["main"] = 1]
    BY <1>3 DEF Leave
  <2>2. step' \in [Deciders -> 0 .. 6] /\ step'["main"] = 1
    BY <1>t, <2>1
  <2>3. GatesClosed'
    BY <2>2 DEF GatesClosed
  <2> QED
    BY <1>1, <1>3, <2>1, <2>2, <2>3 DEF StopInv, Decided, RunnersEnded
<1>4. ASSUME UNCHANGED <<step, why>>, main' \in Decided => step["main"] = 6,
             main' \in RunnersEnded => runners = {},
             main' \in {"quiescing", "released"} => Joined, main' = "released" => ~writing
      PROVE  StopInv'
  <2>1. GatesClosed'
    BY <1>1, <1>4 DEF StopInv, GatesClosed
  <2> QED
    BY <1>1, <1>2, <1>4, <2>1 DEF StopInv
<1>5. ASSUME NEW ok \in BOOLEAN, Subscribe(ok) PROVE StopInv'
  <2>1. CASE ok
    BY <1>4, <1>5, <2>1 DEF Subscribe, Decided, RunnersEnded
  <2>2. CASE ~ok
    BY <1>3, <1>5, <2>2 DEF Subscribe
  <2> QED
    BY <2>1, <2>2
<1>6. CASE Select
  BY <1>3, <1>6 DEF Select
<1>7. CASE JoinPosture
  <2>1. UNCHANGED <<step, why>> /\ step["main"] = 6 /\ main' \in {"posture", "cause", "runners"}
    BY <1>7 DEF JoinPosture, StopInv, Decided
  <2>2. main' = "cause" => runners = {}
    BY <1>7 DEF JoinPosture, StopInv
  <2> QED
    BY <1>4, <2>1, <2>2 DEF RunnersEnded
<1>8. CASE JoinRunners
  BY <1>4, <1>8 DEF JoinRunners, StopInv, Decided
<1>9. CASE Return
  BY <1>4, <1>9 DEF Return, StopInv, Decided, RunnersEnded
<1>10. CASE Close
  BY <1>4, <1>10 DEF Close, StopInv, Decided, RunnersEnded
<1>11. CASE ReleaseDirectory
  BY <1>4, <1>11 DEF ReleaseDirectory, StopInv, Decided, RunnersEnded
<1> QED
  BY <1>5, <1>6, <1>7, <1>8, <1>9, <1>10, <1>11

RunInv == PoolInv /\ StopInv

\* Every step keeps the pools and the stop as they must be.
LEMMA RunKeeps == RunInv /\ [RunNext]_runVars => RunInv'
<1> SUFFICES ASSUME PoolInv, StopInv, [RunNext]_runVars PROVE PoolInv' /\ StopInv'
  BY DEF RunInv
<1>u. ASSUME UNCHANGED <<where, fifo, draining, takers>> PROVE PoolInv'
  BY <1>u DEF PoolInv, PoolTypeOK, FifoIsQueued, FifoOnce, TakerIsAlone, DrainHasOne
<1>1. ASSUME NEW m \in Traffic, MessageStep(m) \/ Accept(m) \/ End(m) \/ Release(m)
      PROVE  PoolInv' /\ StopInv'
  BY <1>1, MessageKeeps, AcceptKeeps, EndKeeps, ReleaseKeeps, MessageAside, AsideKeeps
<1>2. CASE \/ \E d \in Senders: Take(d) \/ EndFetch(d)
           \/ \E r \in Runners: EndRunner(r)
           \/ \E ok \in BOOLEAN: PublishBeat(ok)
           \/ BuildBeat \/ Write \/ Watch \/ Ask \/ Abandon
  <2>1. StopInv'
    BY <1>2, OthersAside, AsideKeeps
  <2>2. PoolInv'
    <3>1. CASE \E d \in Senders: Take(d)
      BY <3>1, TakeKeeps
    <3>2. CASE ~\E d \in Senders: Take(d)
      <4>1. UNCHANGED <<where, fifo, draining, takers>>
        BY <1>2, <3>2, Zenon DEF EndFetch, EndRunner, PublishBeat, BuildBeat, Write, Watch, Ask, Abandon,
                          poolVars, Elsewhere
      <4> QED
        BY <1>u, <4>1
    <3> QED
      BY <3>1, <3>2
  <2> QED
    BY <2>1, <2>2
<1>3. ASSUME NEW p \in Deciders, Decide(p) PROVE PoolInv' /\ StopInv'
  BY <1>u, <1>3, DecideKeeps, Zenon DEF Decide, poolVars
<1>4. CASE \/ \E ok \in BOOLEAN: Subscribe(ok)
           \/ Select \/ JoinPosture \/ JoinRunners \/ Return \/ Close \/ ReleaseDirectory
  <2>1. UNCHANGED <<where, fifo, draining, takers>>
    BY <1>4 DEF Subscribe, Select, JoinPosture, JoinRunners, Return, Close, ReleaseDirectory,
                Elsewhere, poolVars
  <2> QED
    BY <1>u, <1>4, <2>1, MainKeeps
<1>5. CASE UNCHANGED runVars
  <2>1. UNCHANGED <<main, why, closed, step, where, fifo, draining, takers, fetching, runners, writing>>
    BY <1>5 DEF runVars
  <2> QED
    BY <1>u, <2>1 DEF StopInv, GatesClosed, Joined
<1> QED
  BY <1>1, <1>2, <1>3, <1>4, <1>5 DEF RunNext, MessageStep

\* A device's carriages and acknowledgements are handled one at a time: the
\* handler of the ordered pool starts a drain only when its device has none, and
\* a drain looks at the queue and lets go of its device under one lock.
THEOREM HandledOneAtATime == RunSpec => []OneAtATime
<1>1. RunInv => OneAtATime
  BY DEF RunInv, PoolInv, DrainHasOne, OneAtATime, Drained
<1>2. RunInit => RunInv
  BY PoolStarts, StopStarts DEF RunInv
<1> QED
  BY <1>1, <1>2, RunKeeps, PTL DEF RunSpec

\* The state directory is released when nothing that could sign or write is
\* left: each join of runGateway comes after the gate that keeps it joined.
THEOREM ReleasedQuietly == RunSpec => []ReleasedIsQuiet
<1>1. RunInv => ReleasedIsQuiet
  BY DEF RunInv, StopInv, ReleasedIsQuiet, Joined, RunnersEnded
<1>2. RunInit => RunInv
  BY PoolStarts, StopStarts DEF RunInv
<1> QED
  BY <1>1, <1>2, RunKeeps, PTL DEF RunSpec

-----------------------------------------------------------------------------
(* What the stop reports.                                                   *)

Before == {"subscribing", "serving"}
Between == {"deciding", "posture", "runners", "cause"}
After == {"closing", "quiescing", "released"}

\* An escalation that decided the stop is recorded until runGateway takes it,
\* and is then the branch it left by or what it returns.
EscalationInv ==
    /\ main \in Before \cup Between \cup After \cup {"exited", "abandoned"}
    /\ main \in Before => why = "" /\ (escalated => recorded)
    /\ main \in Between /\ escalated => recorded \/ why = "escalation"
    /\ main \in After /\ escalated => result = "escalation"

\* The others leave the record to runGateway.
LEMMA OthersReport ==
    ASSUME EscalationInv, main' \in {main, "exited", "abandoned"}, UNCHANGED <<why, result>>,
           recorded => recorded', escalated' => escalated \/ (main \in Before /\ recorded')
    PROVE  EscalationInv'
  BY DEF EscalationInv, Before, Between, After

\* Every step keeps the escalation.
LEMMA EscalationKeeps == EscalationInv /\ [RunNext]_runVars => EscalationInv'
<1> SUFFICES ASSUME EscalationInv, [RunNext]_runVars PROVE EscalationInv'
  OBVIOUS
<1>1. ASSUME main' \in {main, "exited", "abandoned"}, UNCHANGED <<why, result, recorded, escalated>>
      PROVE  EscalationInv'
  BY <1>1, OthersReport
<1>2. ASSUME NEW m \in Traffic, CountFailure(m) PROVE EscalationInv'
  <2>1. UNCHANGED <<main, why, result>>
    BY <1>2 DEF CountFailure, mainVars
  <2>2. recorded => recorded'
    BY <1>2, Zenon DEF CountFailure
  <2>3. escalated' => escalated \/ (main \in Before /\ recorded')
    BY <1>2, ZenonT(30) DEF CountFailure, Records, Before
  <2> QED
    BY <2>1, <2>2, <2>3, OthersReport
<1>3. ASSUME NEW m \in Traffic, ReturnFromDecision(m) PROVE EscalationInv'
  <2>1. UNCHANGED <<main, why, result, escalated>> /\ (recorded => recorded')
    BY <1>3, Zenon DEF ReturnFromDecision, mainVars
  <2> QED
    BY <2>1, OthersReport
<1>4. ASSUME NEW m \in Traffic,
             \/ Arrive(m) \/ Accept(m) \/ Run(m) \/ End(m) \/ Release(m)
             \/ HandleEvidence(m) \/ HandleEnrichment(m) \/ HandleBeat(m) \/ Hook(m)
             \/ \E outcome \in {"delivered", "failed", "unsigned", "refused"}: HandleRequest(m, outcome)
      PROVE  EscalationInv'
  <2>1. UNCHANGED <<main, why, result, recorded, escalated>>
    BY <1>4 DEF Arrive, Accept, Run, End, Release, HandleEvidence, HandleEnrichment, HandleBeat, Hook,
                HandleRequest, mainVars, failVars
  <2> QED
    BY <1>1, <2>1
<1>5. CASE \/ \E p \in Deciders: Decide(p)
           \/ \E d \in Senders: Take(d) \/ EndFetch(d)
           \/ \E r \in Runners: EndRunner(r)
           \/ Write \/ Watch \/ Ask
  <2>1. UNCHANGED <<main, why, result, recorded, escalated>>
    BY <1>5 DEF Decide, Take, EndFetch, EndRunner, Write, Watch, Ask, mainVars, failVars
  <2> QED
    BY <1>1, <2>1
<1>6. CASE BuildBeat \/ \E ok \in BOOLEAN: PublishBeat(ok)
  <2>1. main' \in {main, "exited"} /\ UNCHANGED <<why, result, recorded, escalated>>
    BY <1>6 DEF BuildBeat, PublishBeat, BeatFails
  <2> QED
    BY <1>1, <2>1
<1>7. CASE Abandon
  BY <1>1, <1>7 DEF Abandon, Elsewhere
<1>8. ASSUME NEW ok \in BOOLEAN, Subscribe(ok) PROVE EscalationInv'
  <2>1. main = "subscribing" /\ main' \in {"serving", "deciding"} /\ UNCHANGED <<recorded, escalated>>
        /\ (main' = "serving" => why' = why)
    BY <1>8 DEF Subscribe, Leave, Elsewhere
  <2> QED
    BY <2>1 DEF EscalationInv, Before, Between, After
<1>9. CASE Select
  <2>1. /\ main = "serving" /\ main' = "deciding" /\ UNCHANGED escalated
        /\ recorded => recorded' \/ why' = "escalation"
    BY <1>9 DEF Select, Leave, Elsewhere
  <2> QED
    BY <2>1 DEF EscalationInv, Before, Between, After
<1>10. CASE JoinPosture \/ JoinRunners
  <2>1. main \in Between /\ main' \in Between /\ UNCHANGED <<why, recorded, escalated>>
    BY <1>10 DEF JoinPosture, JoinRunners, Elsewhere, Between
  <2> QED
    BY <2>1 DEF EscalationInv, Before, Between, After
<1>11. CASE Return
  <2>1. /\ main = "cause" /\ main' = "closing" /\ UNCHANGED escalated
        /\ why = "escalation" \/ recorded => result' = "escalation"
    BY <1>11 DEF Return, Elsewhere
  <2> QED
    BY <2>1 DEF EscalationInv, Before, Between, After
<1>12. CASE Close \/ ReleaseDirectory
  <2>1. main \in After /\ main' \in After /\ UNCHANGED <<result, escalated>>
    BY <1>12 DEF Close, ReleaseDirectory, Elsewhere, After
  <2> QED
    BY <2>1 DEF EscalationInv, Before, Between, After
<1>13. CASE UNCHANGED runVars
  BY <1>1, <1>13 DEF runVars
<1> QED
  BY <1>2, <1>3, <1>4, <1>5, <1>6, <1>7, <1>8, <1>9, <1>10, <1>11, <1>12, <1>13 DEF RunNext

\* A stop that a callback decided on its escalation is reported as that, by
\* whichever branch runGateway leaves: the record is made before the decision,
\* and stopCause looks at it last.
THEOREM EscalationReported == RunSpec => []EscalationIsReported
<1>1. RunInit => EscalationInv
  BY DEF RunInit, EscalationInv, Before, Between, After
<1>2. EscalationInv => EscalationIsReported
  BY DEF EscalationInv, EscalationIsReported, After
<1> QED
  BY <1>1, <1>2, EscalationKeeps, PTL DEF RunSpec

-----------------------------------------------------------------------------
(* What counts as a failure.                                                *)

Kinds == {"reply", "heartbeat"}
Failing == {m \in Traffic: where[m] = "failing"}

\* What has been counted, with the replies that are about to be, really failed
\* since the last success.
EarnedInv ==
    /\ failures \in [Kinds -> Nat] /\ undelivered \in [Kinds -> Nat]
    /\ IsFiniteSet(Failing)
    /\ failures["reply"] + Cardinality(Failing) <= undelivered["reply"]
    /\ failures["heartbeat"] <= undelivered["heartbeat"]

\* What EndIsEarned says of one step.
Earns ==
    /\ recorded' /\ ~recorded => undelivered'["reply"] >= FailureLimit
    /\ main' = "exited" /\ main # "exited" => undelivered'["heartbeat"] >= HeartbeatLimit

LEMMA NothingCounted ==
    ASSUME EarnedInv, UNCHANGED <<failures, undelivered>>, Failing' = Failing,
           recorded' => recorded, main' = "exited" => main = "exited"
    PROVE  EarnedInv' /\ Earns
<1>1. Earns
  BY DEF Earns
<1>2. EarnedInv'
  BY DEF EarnedInv
<1> QED
  BY <1>1, <1>2

\* A message that moves neither from nor to the place where it is counted.
LEMMA MovesUncounted ==
    ASSUME PoolTypeOK, NEW m \in Traffic, NEW to, where' = [where EXCEPT ![m] = to],
           where[m] # "failing", to # "failing"
    PROVE  Failing' = Failing
  BY DEF PoolTypeOK, Failing

\* A request answered, refused, or with a reply that could not be delivered.
LEMMA RequestEarned ==
    ASSUME PoolTypeOK, EarnedInv, NEW m \in Traffic,
           NEW outcome \in {"delivered", "failed", "unsigned", "refused"}, HandleRequest(m, outcome)
    PROVE  EarnedInv' /\ Earns
<1>1. /\ where[m] = "running" /\ UNCHANGED <<main, recorded>>
      /\ where' = [where EXCEPT ![m] = IF outcome \in {"failed", "unsigned"} /\ Counts(outcome)
                                       THEN "failing" ELSE "ending"]
      /\ failures' = IF outcome = "delivered" THEN [failures EXCEPT !["reply"] = 0] ELSE failures
  BY DEF HandleRequest, mainVars
<1>2. Earns
  BY <1>1 DEF Earns
<1>3. Cardinality(Failing) \in Nat
  BY FS_CardinalityType DEF EarnedInv
<1>4. CASE outcome = "delivered"
  <2>1. where' = [where EXCEPT ![m] = "ending"]
    BY <1>1, <1>4
  <2>2. Failing' = Failing
    BY <1>1, <2>1, MovesUncounted, Zenon
  <2>3. /\ failures' = [failures EXCEPT !["reply"] = 0]
        /\ undelivered' = [undelivered EXCEPT !["reply"] = Cardinality(Failing)]
    BY <1>1, <1>4 DEF HandleRequest, Failing
  <2> HIDE DEF Failing
  <2>4. EarnedInv'
    BY <1>3, <2>2, <2>3 DEF EarnedInv, Kinds
  <2> QED
    BY <1>2, <2>4
<1>5. CASE outcome = "failed"
  <2>1. UNCHANGED failures /\ undelivered' = [undelivered EXCEPT !["reply"] = @ + 1]
    BY <1>1, <1>5 DEF HandleRequest
  <2>2. IsFiniteSet(Failing') /\ Cardinality(Failing') \in {Cardinality(Failing), Cardinality(Failing) + 1}
    <3>1. CASE where' = [where EXCEPT ![m] = "failing"]
      <4>1. Failing' = Failing \cup {m} /\ m \notin Failing
        BY <1>1, <3>1 DEF Failing, PoolTypeOK
      <4> HIDE DEF Failing
      <4> QED
        BY <4>1, FS_AddElement DEF EarnedInv
    <3>2. CASE where' = [where EXCEPT ![m] = "ending"]
      <4>1. Failing' = Failing
        BY <1>1, <3>2, MovesUncounted, Zenon
      <4> QED
        BY <4>1 DEF EarnedInv
    <3> QED
      BY <1>1, <3>1, <3>2, Zenon
  <2> HIDE DEF Failing
  <2>3. EarnedInv'
    BY <1>3, <2>1, <2>2 DEF EarnedInv, Kinds
  <2> QED
    BY <1>2, <2>3
<1>6. CASE outcome \in {"unsigned", "refused"}
  <2>1. where' = [where EXCEPT ![m] = "ending"] /\ UNCHANGED failures
    BY <1>1, <1>6, Zenon DEF Counts
  <2>2. Failing' = Failing
    BY <1>1, <2>1, MovesUncounted, Zenon
  <2>3. UNCHANGED undelivered
    BY <1>6 DEF HandleRequest
  <2> QED
    BY <1>1, <2>1, <2>2, <2>3, NothingCounted
<1> QED
  BY <1>4, <1>5, <1>6

\* A failure counted, and the limit reached.
LEMMA CountEarned ==
    ASSUME PoolTypeOK, EarnedInv, NEW m \in Traffic, CountFailure(m)
    PROVE  EarnedInv' /\ Earns
<1>1. /\ where[m] = "failing" /\ UNCHANGED <<main, undelivered>>
      /\ failures' = [failures EXCEPT !["reply"] = @ + 1]
      /\ recorded' /\ ~recorded => failures["reply"] + 1 >= FailureLimit
  BY Zenon DEF CountFailure, mainVars
<1>2. where' = [where EXCEPT ![m] = "deciding"] \/ where' = [where EXCEPT ![m] = "ending"]
  BY Zenon DEF CountFailure
<1>3. Failing' = Failing \ {m} /\ m \in Failing
  BY <1>1, <1>2 DEF Failing, PoolTypeOK
<1> HIDE DEF Failing
<1>4. /\ Cardinality(Failing) \in Nat /\ Cardinality(Failing') = Cardinality(Failing) - 1
      /\ IsFiniteSet(Failing') /\ Cardinality(Failing') \in Nat
  BY <1>3, FS_CardinalityType, FS_RemoveElement DEF EarnedInv
<1>5. EarnedInv'
  BY <1>1, <1>4 DEF EarnedInv, Kinds
<1>6. failures["reply"] + 1 <= undelivered["reply"] /\ failures["reply"] \in Nat /\ undelivered["reply"] \in Nat
  BY <1>4 DEF EarnedInv, Kinds
<1>7. Earns
  BY <1>1, <1>6, RunAssumption DEF Earns
<1> QED
  BY <1>5, <1>7

\* A heartbeat refused by the closed clock does not count; one that could not be
\* published does.
LEMMA BeatEarned ==
    ASSUME EarnedInv, BuildBeat \/ \E ok \in BOOLEAN: PublishBeat(ok)
    PROVE  EarnedInv' /\ Earns
<1>1. Failing' = Failing /\ recorded' = recorded
  BY Zenon DEF BuildBeat, PublishBeat, poolVars, Failing
<1>2. CASE UNCHANGED <<main, failures, undelivered>>
  BY <1>1, <1>2, NothingCounted
<1>3. Cardinality(Failing) \in Nat
  BY FS_CardinalityType DEF EarnedInv
<1>4. CASE /\ failures' = [failures EXCEPT !["heartbeat"] = 0]
           /\ undelivered' = [undelivered EXCEPT !["heartbeat"] = 0] /\ UNCHANGED main
  <2> HIDE DEF Failing
  <2>1. EarnedInv'
    BY <1>1, <1>3, <1>4 DEF EarnedInv, Kinds
  <2> QED
    BY <1>1, <1>4, <2>1 DEF Earns
<1>5. CASE BeatFails(TRUE)
  <2> HIDE DEF Failing
  <2>1. /\ failures' = [failures EXCEPT !["heartbeat"] = @ + 1]
        /\ undelivered' = [undelivered EXCEPT !["heartbeat"] = @ + 1]
        /\ main' = "exited" /\ main # "exited" => failures["heartbeat"] + 1 >= HeartbeatLimit
    BY <1>5 DEF BeatFails
  <2>2. EarnedInv'
    BY <1>1, <1>3, <2>1 DEF EarnedInv, Kinds
  <2>3. undelivered'["heartbeat"] >= failures["heartbeat"] + 1
        /\ undelivered'["heartbeat"] \in Nat /\ failures["heartbeat"] \in Nat
    BY <2>1 DEF EarnedInv, Kinds
  <2>4. Earns
    BY <1>1, <2>1, <2>3, RunAssumption DEF Earns
  <2> QED
    BY <2>2, <2>4
<1> QED
  BY <1>2, <1>4, <1>5, Zenon DEF BuildBeat, PublishBeat, Counts

LEMMA EarnedKeeps ==
    ASSUME PoolInv, EarnedInv, [RunNext]_runVars
    PROVE  EarnedInv' /\ Earns
<1>t. PoolTypeOK
  BY DEF PoolInv
<1>1. ASSUME NEW m \in Traffic, NEW outcome \in {"delivered", "failed", "unsigned", "refused"},
             HandleRequest(m, outcome)
      PROVE  EarnedInv' /\ Earns
  BY <1>t, <1>1, RequestEarned
<1>2. ASSUME NEW m \in Traffic, CountFailure(m) PROVE EarnedInv' /\ Earns
  BY <1>t, <1>2, CountEarned
<1>3. ASSUME NEW m \in Traffic,
             \/ Arrive(m) \/ Accept(m) \/ Run(m) \/ End(m) \/ Release(m)
             \/ HandleEvidence(m) \/ HandleEnrichment(m) \/ HandleBeat(m) \/ Hook(m) \/ ReturnFromDecision(m)
      PROVE  EarnedInv' /\ Earns
  <2>1. UNCHANGED <<main, failures, undelivered>>
    BY <1>3, Zenon DEF Arrive, Accept, Run, End, Release, HandleEvidence, HandleEnrichment, HandleBeat, Hook,
                ReturnFromDecision, mainVars, failVars
  <2>r. recorded' => recorded
    <3>1. ~Records(6)
      BY DEF Records
    <3>2. CASE ReturnFromDecision(m)
      BY <3>1, <3>2, Zenon DEF ReturnFromDecision
    <3>3. CASE ~ReturnFromDecision(m)
      BY <1>3, <3>3, ZenonT(30) DEF Arrive, Accept, Run, End, Release, HandleEvidence, HandleEnrichment, HandleBeat, Hook,
                        failVars
    <3> QED
      BY <3>2, <3>3
  <2>2. where[m] # "failing" /\ \E to : to # "failing" /\ where' = [where EXCEPT ![m] = to]
    BY <1>3, Zenon DEF Arrive, Accept, Run, End, Release, HandleEvidence, HandleEnrichment, HandleBeat, Hook,
                ReturnFromDecision
  <2>3. Failing' = Failing
    BY <1>t, <2>2, MovesUncounted, ZenonT(30)
  <2> QED
    BY <2>1, <2>r, <2>3, NothingCounted
<1>4. ASSUME NEW d \in Senders, Take(d) PROVE EarnedInv' /\ Earns
  <2>1. UNCHANGED <<main, failures, undelivered, recorded>>
    BY <1>4 DEF Take, mainVars, failVars
  <2>2. fifo[d] \in Seq(Evidence) /\ fifo[d] # <<>>
    BY <1>t, <1>4 DEF Take, PoolTypeOK
  <2>3. Head(fifo[d]) = fifo[d][1] /\ 1 \in 1 .. Len(fifo[d]) /\ fifo[d][1] \in Evidence
    BY <2>2
  <2>4. Head(fifo[d]) \in Traffic /\ where[Head(fifo[d])] = "queued"
    <3>1. where[fifo[d][1]] = "queued"
      BY <2>3, Zenon DEF PoolInv, FifoIsQueued
    <3> QED
      BY <2>3, <3>1, OfTraffic, Zenon
  <2>5. Failing' = Failing
    BY <1>t, <1>4, <2>4, MovesUncounted, Zenon DEF Take
  <2> QED
    BY <2>1, <2>5, NothingCounted
<1>5. CASE BuildBeat \/ \E ok \in BOOLEAN: PublishBeat(ok)
  BY <1>5, BeatEarned
<1>6. CASE \/ \E p \in Deciders: Decide(p)
           \/ \E d \in Senders: EndFetch(d)
           \/ \E r \in Runners: EndRunner(r)
           \/ \E ok \in BOOLEAN: Subscribe(ok)
           \/ Watch \/ Ask \/ Write \/ Select \/ JoinPosture \/ JoinRunners \/ Return \/ Close
           \/ ReleaseDirectory \/ Abandon
  <2>1. UNCHANGED <<where, failures, undelivered>>
    BY <1>6 DEF Decide, EndFetch, EndRunner, Subscribe, Watch, Ask, Write, Select, JoinPosture, JoinRunners,
                Return, Close, ReleaseDirectory, Abandon, Elsewhere, poolVars, failVars
  <2>2. recorded' => recorded
    BY <1>6, Zenon DEF Decide, EndFetch, EndRunner, Subscribe, Watch, Ask, Write, Select, JoinPosture, JoinRunners,
                Return, Close, ReleaseDirectory, Abandon, failVars
  <2>3. main' = "exited" => main = "exited"
    BY <1>6 DEF Decide, EndFetch, EndRunner, Subscribe, Watch, Ask, Write, Select, JoinPosture, JoinRunners,
                Return, Close, ReleaseDirectory, Abandon, Leave, mainVars
  <2> QED
    BY <2>1, <2>2, <2>3, NothingCounted DEF Failing
<1>7. CASE UNCHANGED runVars
  BY <1>7, NothingCounted DEF runVars, Failing
<1> QED
  BY <1>1, <1>2, <1>3, <1>4, <1>5, <1>6, <1>7 DEF RunNext

\* Neither failing replies nor failing heartbeats end the gateway unless as many
\* really failed since the last success, for any number of requests handled at
\* once and any limits (the callback of runGateway, Publisher.recordFailure).
THEOREM EveryEndIsEarned == RunSpec => EndIsEarned
<1>1. RunInit => RunInv /\ EarnedInv
  <2> SUFFICES ASSUME RunInit PROVE RunInv /\ EarnedInv
    OBVIOUS
  <2>1. RunInv
    BY PoolStarts, StopStarts DEF RunInv
  <2>2. Failing = {}
    BY DEF RunInit, Failing
  <2>3. IsFiniteSet(Failing) /\ Cardinality(Failing) = 0
    BY <2>2, FS_EmptySet
  <2>4. failures = [k \in Kinds |-> 0] /\ undelivered = [k \in Kinds |-> 0]
    BY DEF RunInit, Kinds
  <2> HIDE DEF Failing
  <2>5. EarnedInv
    BY <2>3, <2>4 DEF EarnedInv, Kinds
  <2> QED
    BY <2>1, <2>5
<1>2. (RunInv /\ EarnedInv) /\ [RunNext]_runVars => (RunInv /\ EarnedInv)'
  BY RunKeeps, EarnedKeeps DEF RunInv
<1>3. (RunInv /\ EarnedInv) /\ [RunNext]_runVars =>
        [/\ recorded' /\ ~recorded => undelivered'["reply"] >= FailureLimit
         /\ main' = "exited" /\ main # "exited" => undelivered'["heartbeat"] >= HeartbeatLimit]_runVars
  BY EarnedKeeps DEF RunInv, Earns
<1> QED
  BY <1>1, <1>2, <1>3, PTL DEF RunSpec, EndIsEarned

=============================================================================
