----------------------------- MODULE ReturnPath -----------------------------
(***************************************************************************)
(* What goes back to the runtimes: RuntimeIngress admits carriages and     *)
(* stages custody acknowledgements, the delivery worker stages receipts,   *)
(* and ReturnPublisher carries the head of the return queue until its      *)
(* runtime decides it.                                                     *)
(*                                                                         *)
(* The two queues are the DurableQueue of that module, here a set and a    *)
(* sequence that survive a restart.  The session with a runtime repeats    *)
(* and loses deliveries.  What a runtime sends is handled in the order it  *)
(* arrived: carriages and acknowledgements share one queue per device.     *)
(***************************************************************************)
EXTENDS Integers, Sequences, Functions

CONSTANTS
    Devices,
    Artifacts,      \* what runtimes carry out
    Items,          \* what is carried back
    DeviceOf,       \* the device of each artifact and item
    CustodyOf,      \* delivery envelopes, and the custody acknowledgement of each
    Reasons,        \* reasons runtimes refuse with
    MaxReturns,     \* capacity of the return queue
    MaxUp,          \* bound on what waits from one runtime
    MaxCrashes

Nothing == "nothing"

ASSUME ReturnAssumption ==
    /\ DOMAIN CustodyOf \subseteq Artifacts
    /\ \A a \in DOMAIN CustodyOf: CustodyOf[a] \in Items /\ DeviceOf[CustodyOf[a]] = DeviceOf[a]
    /\ \A a, b \in DOMAIN CustodyOf: CustodyOf[a] = CustodyOf[b] => a = b
    /\ Nothing \notin Artifacts \cup Items
    /\ \A x \in Artifacts \cup Items: DeviceOf[x] \in Devices
    /\ MaxReturns \in Nat /\ MaxUp \in Nat /\ MaxCrashes \in Nat

VARIABLES
    outq,           \* artifacts in the outbound queue
    gone,           \* history: artifacts delivered and retired from it, and not back in it
    returnq,        \* the return queue, head first
    holds,          \* heldID, or Nothing; heldDevice is its device
    carrying,       \* the head publishHead has read and not yet published
    carried,        \* lastID, while the retry interval lasts
    handling,       \* where Handle is with each device's carriage
    down,           \* deliveries on their way to each runtime
    up,             \* what each runtime has sent and the gateway not handled
    ready,          \* runtimes that can take what they are sent
    unsent,         \* artifacts their runtime has not been told are queued
    decided,        \* items their runtime has applied or refused for good
    deaths

returnVars == <<outq, gone, returnq, holds, carrying, carried, handling, down, up, ready, unsent, decided, deaths>>

Stored == Range(returnq)
Head1 == IF returnq = <<>> THEN Nothing ELSE Head(returnq)
Idle == [step |-> "idle", art |-> Nothing, new |-> FALSE]

ReturnInit ==
    /\ outq = {} /\ gone = {} /\ returnq = <<>>
    /\ holds = Nothing /\ carrying = Nothing /\ carried = Nothing
    /\ handling = [d \in Devices |-> Idle]
    /\ down = [d \in Devices |-> {}] /\ up = [d \in Devices |-> <<>>]
    /\ ready = {} /\ unsent = Artifacts /\ decided = {}
    /\ deaths = 0

-----------------------------------------------------------------------------
(* The runtimes and the session with them.                                  *)

\* A runtime hands an artifact over, again as long as it is not acknowledged.
Carry(a) ==
    LET d == DeviceOf[a] IN
    /\ a \in unsent /\ Len(up[d]) < MaxUp
    /\ up' = [up EXCEPT ![d] = Append(@, [kind |-> "carriage", art |-> a])]
    /\ UNCHANGED <<outq, gone, returnq, holds, carrying, carried, handling, down, ready, unsent, decided, deaths>>

\* A runtime gets the key, version or sequence it lacked.
BecomeReady(d) ==
    /\ d \notin ready /\ ready' = ready \cup {d}
    /\ UNCHANGED <<outq, gone, returnq, holds, carrying, carried, handling, down, up, unsent, decided, deaths>>

\* The reasons that retire; every other reason holds, in the vocabulary or not.
InboundRefusalRetires == {"malformed", "bad_authenticator", "binding_mismatch",
                          "non_contiguous_range", "superseded", "restatement_conflict"}

\* A runtime takes a delivery and answers it: applied when it can, refused for
\* good or for now otherwise.  QoS 1 may deliver it again.
Answer(d, i, reason, again) ==
    /\ i \in down[d] /\ Len(up[d]) < MaxUp
    /\ reason = "" => d \in ready
    /\ reason \notin InboundRefusalRetires \cup {""} => d \notin ready
    /\ up' = [up EXCEPT ![d] = Append(@, [kind |-> "ack", item |-> i, reason |-> reason, fresh |-> TRUE])]
    /\ down' = IF again THEN down ELSE [down EXCEPT ![d] = @ \ {i}]
    /\ decided' = IF reason \in InboundRefusalRetires \cup {""} THEN decided \cup {i} ELSE decided
    /\ UNCHANGED <<outq, gone, returnq, holds, carrying, carried, handling, ready, unsent, deaths>>

LoseDelivery(d, i) ==
    /\ i \in down[d] /\ down' = [down EXCEPT ![d] = @ \ {i}]
    /\ UNCHANGED <<outq, gone, returnq, holds, carrying, carried, handling, up, ready, unsent, decided, deaths>>

-----------------------------------------------------------------------------
(* RuntimeIngress.                                                          *)

Handles(d, kind) == handling[d] = Idle /\ up[d] # <<>> /\ Head(up[d]).kind = kind
Handled(d) == up' = [up EXCEPT ![d] = Tail(@)]

\* Mutant: a state change of any device releases the hold.
ReleasesAny(d) == TRUE

\* ReceiverStateChanged releases a hold on an item for that device only.
Releases(d) == holds # Nothing /\ DeviceOf[holds] = d

\* Mutant: the handoff waits for the acknowledgement to be published.
HandsOffLate(step) == step = "acked"

\* A new entry is handed off as soon as it is queued, whatever fails later.
HandsOff(step) == step = "queued"

\* Mutant: a carriage that could not be stored is acknowledged all the same.
ProceedsRegardless(result) == result \in {"ok", "failed"}

\* What goes on to be acknowledged.
Proceeds(result) == result = "ok"

ReceiverStateChanged(d) == holds' = IF Releases(d) THEN Nothing ELSE holds

\* Courier.Admit and the handoff: the artifact is queued, refused by a full
\* share, or not stored; or queued while its custody cannot be constructed.
Admit(d, result) ==
    LET a   == Head(up[d]).art
        new == a \notin outq
    IN
    /\ Handles(d, "carriage") /\ Handled(d)
    /\ result = "full" => new
    /\ result = "unsigned" => a \in DOMAIN CustodyOf
    /\ outq' = IF result \in {"ok", "unsigned"} THEN outq \cup {a} ELSE outq
    /\ gone' = gone \ outq'
    /\ handling' = [handling EXCEPT ![d] = 
                      IF Proceeds(result) THEN [step |-> "queued", art |-> a, new |-> new] ELSE Idle]
    /\ IF result \in {"ok", "unsigned"} /\ new /\ HandsOff("queued")
         THEN ReceiverStateChanged(d) ELSE UNCHANGED holds
    /\ UNCHANGED <<returnq, carrying, carried, down, ready, unsent, decided, deaths>>

\* The "queued" acknowledgement is signed and published, or the carriage ends
\* there and the runtime carries it again.
PublishAck(d, ok) ==
    LET a == handling[d].art IN
    /\ handling[d].step = "queued"
    /\ unsent' = IF ok THEN unsent \ {a} ELSE unsent
    /\ handling' = [handling EXCEPT ![d] = IF ok /\ a \in DOMAIN CustodyOf
                                           THEN [handling[d] EXCEPT !.step = "acked"] ELSE Idle]
    /\ IF ok /\ handling[d].new /\ HandsOff("acked") THEN ReceiverStateChanged(d) ELSE UNCHANGED holds
    /\ UNCHANGED <<outq, gone, returnq, carrying, carried, down, up,
                   ready, decided, deaths>>

\* DurableAuthoritySink.Store: staging what is already staged changes nothing.
Staged(i) == returnq' = IF i \in Stored THEN returnq ELSE Append(returnq, i)
CanStage(i) == i \in Stored \/ Len(returnq) < MaxReturns

\* The custody acknowledgement is staged, or not; AdmissionFaults has the fault.
StageCustody(d, ok) ==
    LET i == CustodyOf[handling[d].art] IN
    /\ handling[d].step = "acked"
    /\ handling' = [handling EXCEPT ![d] = Idle]
    /\ IF ok /\ CanStage(i) THEN Staged(i) ELSE UNCHANGED returnq
    /\ UNCHANGED <<outq, gone, holds, carrying, carried, down, up, ready, unsent, decided, deaths>>

\* The delivery worker: an artifact of i's device is accepted, the receipt i
\* staged, and the artifact retired (DeliveryLanes).
Deliver(a, i) ==
    /\ a \in outq /\ i \in Items \ {CustodyOf[x] : x \in DOMAIN CustodyOf}
    /\ DeviceOf[i] = DeviceOf[a]
    /\ CanStage(i) /\ Staged(i)
    /\ outq' = outq \ {a} /\ gone' = gone \cup {a}
    /\ UNCHANGED <<holds, carrying, carried, handling, down, up, ready,
                   unsent, decided, deaths>>

-----------------------------------------------------------------------------
(* ReturnPublisher.                                                         *)

MayCarry(i) == i # Nothing /\ i # holds /\ i # carried

\* publishHead reads the head under the lock, and releases it.
ReadHead ==
    /\ carrying = Nothing /\ MayCarry(Head1)
    /\ carrying' = Head1
    /\ UNCHANGED <<outq, gone, returnq, holds, carried, handling, down, up,
                   ready, unsent, decided, deaths>>

\* It signs and publishes what it read, whatever became of the head since.
PublishHead(ok) ==
    /\ carrying # Nothing /\ carrying' = Nothing
    /\ IF ok
         THEN /\ down' = [down EXCEPT ![DeviceOf[carrying]] = @ \cup {carrying}]
              /\ carried' = carrying
         ELSE UNCHANGED <<down, carried>>
    /\ UNCHANGED <<outq, gone, returnq, holds, handling, up, ready, unsent,
                   decided, deaths>>

RetryElapses ==
    /\ carried # Nothing /\ carried' = Nothing
    /\ UNCHANGED <<outq, gone, returnq, holds, carrying, handling, down, up,
                   ready, unsent, decided, deaths>>

\* Mutant: any acknowledgement is taken for the head's.
NamesAny(m) == Head1 # Nothing

\* Whether an acknowledgement names the queued head.
Names(m) == m.item = Head1

\* HandleAck and decideAck, whole under both locks.  A replay of one that
\* decided the head is refused; one that names nothing held is not recorded.
HandleAck(d, removed, again) ==
    LET m       == Head(up[d])
        decides == m.fresh /\ Names(m)
        retires == m.reason = "" \/ m.reason \in InboundRefusalRetires
    IN
    /\ Handles(d, "ack")
    /\ IF again THEN up' = [up EXCEPT ![d] = <<[m EXCEPT !.fresh = @ /\ ~(decides /\ (removed \/ ~retires))]>> \o Tail(@)]
                ELSE Handled(d)
    /\ IF decides /\ retires /\ removed
         THEN /\ returnq' = Tail(returnq)
              /\ holds' = IF holds = Head1 THEN Nothing ELSE holds
         ELSE /\ UNCHANGED returnq
              /\ holds' = IF decides /\ ~retires THEN Head1 ELSE holds
    /\ UNCHANGED <<outq, gone, carrying, carried, handling, down, ready,
                   unsent, decided, deaths>>

\* The process ends and another starts.  The queues stay; the rest is gone, with
\* what was being handled.
Restart ==
    /\ deaths < MaxCrashes /\ deaths' = deaths + 1
    /\ holds' = Nothing /\ carrying' = Nothing /\ carried' = Nothing
    /\ handling' = [d \in Devices |-> Idle]
    /\ UNCHANGED <<outq, gone, returnq, down, up, ready, unsent, decided>>

ReturnNext ==
    \/ \E a \in Artifacts: Carry(a)
    \/ \E d \in Devices: BecomeReady(d)
    \/ \E d \in Devices, i \in Items:
         \/ LoseDelivery(d, i)
         \/ \E reason \in Reasons \cup {""}, again \in BOOLEAN: Answer(d, i, reason, again)
    \/ \E d \in Devices:
         \/ \E result \in {"ok", "full", "failed", "unsigned"}: Admit(d, result)
         \/ \E ok \in BOOLEAN: PublishAck(d, ok) \/ StageCustody(d, ok)
         \/ \E removed \in BOOLEAN, again \in BOOLEAN: HandleAck(d, removed, again)
    \/ \E a \in Artifacts, i \in Items: Deliver(a, i)
    \/ ReadHead \/ RetryElapses
    \/ \E ok \in BOOLEAN: PublishHead(ok)
    \/ Restart

ReturnSpec == ReturnInit /\ [][ReturnNext]_returnVars

\* A goroutine that can run does, and a timer fires.  What is tried again and
\* again succeeds once: a carriage, a publish, a write, a delivery.  A runtime
\* that is ready applies what it is sent.
ReturnFairness ==
    /\ WF_returnVars(ReadHead) /\ WF_returnVars(RetryElapses) /\ SF_returnVars(PublishHead(TRUE))
    /\ \A a \in Artifacts: SF_returnVars(Carry(a))
    /\ \A d \in Devices:
         /\ SF_returnVars(Admit(d, "ok")) /\ SF_returnVars(PublishAck(d, TRUE))
         /\ WF_returnVars(StageCustody(d, TRUE))
         /\ SF_returnVars(HandleAck(d, TRUE, FALSE))
         /\ \A i \in Items: SF_returnVars(d \in ready /\ Answer(d, i, "", FALSE))

-----------------------------------------------------------------------------
(* A return leaves the queue only once its own runtime has applied it or    *)
(* refused it for good, whichever acknowledgements are late or repeated.    *)
RetiredByItsDecision ==
    [][\A i \in Stored: i \notin Range(returnq') => i \in decided]_returnVars

(* A hold ends only with an admission for its device, the retirement of its *)
(* item, or the process: another device's traffic never releases it.        *)
HoldEndsForCause ==
    [][\A i \in Items: holds = i /\ holds' # i =>
         \/ \E a \in outq' \ outq: DeviceOf[a] = DeviceOf[i]
         \/ i \notin Range(returnq')
         \/ deaths' # deaths]_returnVars

(* What a runtime has been told is queued, or has custody of, is in the     *)
(* outbound queue or delivered.                                             *)
AcknowledgedIsKept ==
    /\ Artifacts \ unsent \subseteq outq \cup gone
    /\ \A a \in DOMAIN CustodyOf: CustodyOf[a] \in Stored \cup decided => a \in outq \cup gone

(* A head its runtime can now take is decided, held before or not, once that*)
(* runtime carries a new artifact: the handoff is made when the artifact is *)
(* queued, and no later failure loses it.                                   *)
HeadIsDecided ==
    \A i \in Items:
       /\ Head1 = i /\ DeviceOf[i] \in ready
       /\ \E a \in unsent \ outq: /\ DeviceOf[a] = DeviceOf[i] /\ handling[DeviceOf[a]].art # a
                                 /\ [kind |-> "carriage", art |-> a] \notin Range(up[DeviceOf[i]])
       ~> i \notin Stored
=============================================================================
