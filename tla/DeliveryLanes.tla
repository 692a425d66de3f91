---------------------------- MODULE DeliveryLanes ----------------------------
(***************************************************************************)
(* The evidence delivery worker (internal/evidence/courier/worker.go) over   *)
(* the outbound durable queue, composed with the admissions that feed it     *)
(* (courier.go, runtime_ingress.go), the evidence authority it sends to and  *)
(* the return sink that stages the authority's answers.                      *)
(*                                                                         *)
(* Every device has two lanes, each its own goroutine with its own retry     *)
(* state.  A lane reads its head, sends it, and on the answer retires it,    *)
(* holds it, waits for the next handoff, or backs off.  Admissions, the      *)
(* lanes, the store probe and crashes interleave; q.mu is held across one    *)
(* queue operation.                                                         *)
(*                                                                         *)
(* Time is abstract here: a back-off is in force until Due ends it.  The     *)
(* wall-clock and monotonic deadlines are the subject of LaneBackoff.        *)
(* Definitions marked Mutant are wrong on purpose: each stands in for the     *)
(* definition after it to show that a property notices.                      *)
(***************************************************************************)
EXTENDS DurableQueue

CONSTANTS
    Registered,     \* devices whose epoch the authority confirmed beforehand
    Answers,        \* answers of the authority other than an acceptance
    MaxCrashes      \* bound on process deaths, for TLC only

\* "lost": no usable answer, or one that backs off.  "hold": a terminal refusal.
\* "auth": 401 or 403.  "epoch": 422 unknown_key.  Both of the last are retried
\* on the next handoff only.
AnswerKinds == {"lost", "hold", "auth", "epoch"}

ASSUME LanesAssumption ==
    /\ Registered \subseteq Devices
    /\ Answers \subseteq AnswerKinds
    /\ MaxCrashes \in Nat

VARIABLES
    phase,      \* where each lane's goroutine is
    wake,       \* the wake token of each lane (a channel of capacity one)
    attempted,  \* l.attempted
    held,       \* l.held: the artifact the lane holds
    stall,      \* l.stall: why the head was not delivered
    attempts,   \* l.attempts
    backing,    \* whether a back-off still forbids an attempt
    handing,    \* devices whose handler has yet to call NotifyDevice
    accepted,   \* external: artifacts the authority has recorded
    confirmed,  \* external: devices whose epoch the authority has confirmed
    staged,     \* artifacts whose receipt the return sink has stored durably
    admitted,   \* history: artifacts whose Enqueue ever returned
    refused,    \* history: artifacts this process saw terminally refused
    heldDurably,\* history: artifacts whose Hold returned without error
    promised,   \* history: artifacts whose back-off was persisted and is not yet due
    owed,       \* history: lanes handed off since they last read their head
    crashes     \* process deaths so far

laneVars == <<phase, wake, attempted, held, stall, attempts, backing, handing>>
authorityVars == <<accepted, confirmed, staged>>
history == <<admitted, refused, heldDurably, promised, owed, crashes>>
vars == <<queueVars, laneVars, authorityVars, history>>

Phases == {"idle", "sending", "accepted", "staged", "retiring", "failed", "holding", "clearing"}

At(k, p) == phase[k] = p
Goto(k, p) == phase' = [phase EXCEPT ![k] = p]
Evidence(d) == <<d, "evidence">>

NextAttempts(k) == IF attempts[k] < MaxAttempts THEN attempts[k] + 1 ELSE attempts[k]

-----------------------------------------------------------------------------
(* Start and stop.                                                         *)

LaneHead(e, k) ==
    LET items == {a \in Artifacts : e[a] # NoSeq /\ LaneKey(a) = k}
    IN  IF items = {} THEN None
        ELSE CHOOSE a \in items : \A b \in items : e[a] <= e[b]

NothingRestored(a) == FALSE  \* Mutant.

\* The persisted back-off of a head, or none.
RestoresBackoff(a) == a # None /\ disk.back[a] # NoBackoff

\* NewDeliveryWorker restores the hold or back-off of each lane's head, then Run
\* starts every lane.
Start(res) ==
    /\ Open(res)
    /\ LET head == [k \in LaneKeys |-> LaneHead(disk.rec, k)]
       IN  /\ held' = [k \in LaneKeys |-> IF head[k] \in disk.hold THEN head[k] ELSE None]
           /\ attempts' = [k \in LaneKeys |-> IF RestoresBackoff(head[k]) THEN disk.back[head[k]] ELSE 0]
           /\ backing' = [k \in LaneKeys |-> RestoresBackoff(head[k])]
    /\ UNCHANGED <<phase, wake, attempted, stall, handing, authorityVars, history>>

LanesReset ==
    /\ phase' = [k \in LaneKeys |-> "idle"]
    /\ wake' = [k \in LaneKeys |-> FALSE]
    /\ attempted' = [k \in LaneKeys |-> None]
    /\ held' = [k \in LaneKeys |-> None]
    /\ stall' = [k \in LaneKeys |-> "none"]
    /\ attempts' = [k \in LaneKeys |-> 0]
    /\ backing' = [k \in LaneKeys |-> FALSE]
    /\ handing' = {}

\* The writes a crash may interrupt, by the lane that is making one.
LaneInFlight(k) ==
    CASE At(k, "holding") /\ Unlocked -> {WithHold(disk, attempted[k])}
      [] At(k, "failed") /\ Unlocked ->
           {WithBackoff(disk, attempted[k], NextAttempts(k))}
      [] At(k, "clearing") /\ Unlocked /\ backoffs[attempted[k]] # NoBackoff ->
           {WithBackoff(disk, attempted[k], NoBackoff)}
      [] OTHER -> {}

Stop ==
    /\ crashes < MaxCrashes
    /\ \E d \in {disk} \cup InsertInFlight \cup RemoveInFlight \cup UNION {LaneInFlight(k) : k \in LaneKeys} :
          Crash(d)
    /\ LanesReset
    /\ crashes' = crashes + 1 /\ refused' = {} /\ owed' = [k \in LaneKeys |-> FALSE]
    /\ UNCHANGED <<authorityVars, admitted, heldDurably, promised>>

\* A persisted back-off's deadline passes while no process runs.
DueWhileDown(a) ==
    /\ ~open /\ a \in promised
    /\ promised' = promised \ {a}
    /\ UNCHANGED <<queueVars, laneVars, authorityVars, admitted, refused, heldDurably, owed, crashes>>

LosePower == PowerLoss /\ UNCHANGED <<laneVars, authorityVars, history>>

-----------------------------------------------------------------------------
(* Admission: durable queueing or queue_full, then a handoff for both lanes. *)

Admit(a, res) ==
    /\ DeviceOf[a] \notin handing
    /\ Enqueue(a, res)
    /\ handing' = IF res = "ok" THEN handing \cup {DeviceOf[a]} ELSE handing
    /\ admitted' = IF res = "ok" THEN admitted \cup {a} ELSE admitted
    /\ UNCHANGED <<phase, wake, attempted, held, stall, attempts, backing, authorityVars,
                   refused, heldDurably, promised, owed, crashes>>

\* queue_full admits nothing and is a handoff for the device's lanes all the same.
RefuseFull(a) ==
    /\ Unlocked /\ a \notin Queued /\ Full(a) /\ DeviceOf[a] \notin handing
    /\ handing' = handing \cup {DeviceOf[a]}
    /\ UNCHANGED <<queueVars, phase, wake, attempted, held, stall, attempts, backing, authorityVars, history>>

NotifyDevice(d) ==
    /\ d \in handing
    /\ handing' = handing \ {d}
    /\ wake' = [k \in LaneKeys |-> wake[k] \/ k[1] = d]
    /\ owed' = [k \in LaneKeys |-> owed[k] \/ k[1] = d]
    /\ UNCHANGED <<queueVars, phase, attempted, held, stall, attempts, backing, authorityVars,
                   admitted, refused, heldDurably, promised, crashes>>

-----------------------------------------------------------------------------
(* One lane.                                                               *)

\* A wake during a back-off is consumed and brings nothing forward.
IgnoreWake(k) ==
    /\ open /\ At(k, "idle") /\ wake[k] /\ backing[k]
    /\ wake' = [wake EXCEPT ![k] = FALSE]
    /\ UNCHANGED <<queueVars, phase, attempted, held, stall, attempts, backing, handing, authorityVars, history>>

\* What lets run reach deliverHead: a wake, or the timer unless it only reminds.
Woken(k) == wake[k] /\ ~backing[k]
TimerFired(k) == held[k] = None /\ stall[k] # "handoff" /\ ~backing[k]

\* Mutant: a wake pending when the timer starts the attempt is left there.
WakeLeft(k) == wake' \in {wake, [wake EXCEPT ![k] = FALSE]}

DrainWake(k) == wake' = [wake EXCEPT ![k] = FALSE]

IsHeldOnDisk(k, a) == a \in holds  \* Mutant: only a hold that could be written counts.

\* adoptDurableHold, releaseHeldUnless: the head is held in memory or on disk.
IsHeld(k, a) == held[k] = a \/ a \in holds

\* deliverHead up to the send: the wake is drained, a durable hold is adopted, a
\* hold on another artifact is released, a new head starts its own attempts.
DeliverHead(k) ==
    /\ Unlocked /\ At(k, "idle") /\ (Woken(k) \/ TimerFired(k))
    /\ DrainWake(k)
    /\ \/ /\ LaneItems(k) = {}
          /\ held' = [held EXCEPT ![k] = None] /\ stall' = [stall EXCEPT ![k] = "none"]
          /\ UNCHANGED <<phase, attempted, attempts>>
       \/ \E a \in Artifacts :
            /\ IsHead(a, k)
            /\ IF IsHeld(k, a)
               THEN /\ held' = [held EXCEPT ![k] = a]
                    /\ stall' = IF held[k] = a THEN stall ELSE [stall EXCEPT ![k] = "none"]
                    /\ UNCHANGED <<phase, attempted, attempts>>
               ELSE /\ held' = [held EXCEPT ![k] = None]
                    /\ attempts' = IF attempted[k] = a THEN attempts ELSE [attempts EXCEPT ![k] = 0]
                    /\ attempted' = [attempted EXCEPT ![k] = a]
                    /\ Goto(k, "sending")
                    /\ UNCHANGED stall
    /\ owed' = [owed EXCEPT ![k] = FALSE]
    /\ UNCHANGED <<queueVars, backing, handing, authorityVars, admitted, refused, heldDurably, promised, crashes>>

\* External: the authority records the artifact and answers with a clean
\* acceptance.  Evidence is accepted only under a confirmed epoch.
Accept(k) ==
    /\ At(k, "sending")
    /\ k[2] = "registration" \/ k[1] \in confirmed
    /\ accepted' = accepted \cup {attempted[k]}
    /\ confirmed' = IF k[2] = "registration" THEN confirmed \cup {k[1]} ELSE confirmed
    /\ Goto(k, "accepted")
    /\ UNCHANGED <<queueVars, wake, attempted, held, stall, attempts, backing, handing, staged, history>>

\* No usable answer (unavailable, malformed, without its receipt) or a retriable
\* refusal.  The authority may have recorded the artifact all the same.
Unanswered(k) ==
    /\ "lost" \in Answers /\ At(k, "sending")
    /\ accepted' \in {accepted, accepted \cup {attempted[k]}}
    /\ Goto(k, "failed")
    /\ stall' = [stall EXCEPT ![k] = "backoff"]
    /\ UNCHANGED <<queueVars, wake, attempted, held, attempts, backing, handing, confirmed, staged, history>>

\* errChannelReceiverState: 401, 403, or evidence under an unknown epoch.
RefuseUntilHandoff(k) ==
    /\ At(k, "sending")
    /\ "auth" \in Answers \/ ("epoch" \in Answers /\ k[2] = "evidence" /\ k[1] \notin confirmed)
    /\ stall' = [stall EXCEPT ![k] = "handoff"]
    /\ attempts' = [attempts EXCEPT ![k] = 0]
    /\ Goto(k, "clearing")
    /\ UNCHANGED <<queueVars, wake, attempted, held, backing, handing, authorityVars, history>>

\* A terminal refusal: held in memory before the hold is written.
RefuseForGood(k) ==
    /\ "hold" \in Answers /\ At(k, "sending")
    /\ held' = [held EXCEPT ![k] = attempted[k]]
    /\ stall' = [stall EXCEPT ![k] = "none"]
    /\ refused' = refused \cup {attempted[k]}
    /\ Goto(k, "holding")
    /\ UNCHANGED <<queueVars, wake, attempted, attempts, backing, handing, authorityVars,
                   admitted, heldDurably, promised, owed, crashes>>

PersistHold(k, res) ==
    /\ At(k, "holding")
    /\ Hold(attempted[k], res)
    /\ heldDurably' = IF res = "ok" THEN heldDurably \cup {attempted[k]} ELSE heldDurably
    /\ attempts' = [attempts EXCEPT ![k] = 0]
    /\ Goto(k, "clearing")
    /\ UNCHANGED <<wake, attempted, held, stall, backing, handing, authorityVars,
                   admitted, refused, promised, owed, crashes>>

\* clearBackoff on disk: nothing to do unless the index has one.
DropBackoff(k, res) ==
    /\ At(k, "clearing") /\ Unlocked
    /\ IF backoffs[attempted[k]] # NoBackoff
       THEN ClearBackoff(attempted[k], res)
       ELSE UNCHANGED queueVars
    /\ Goto(k, "idle")
    /\ UNCHANGED <<wake, attempted, held, stall, attempts, backing, handing, authorityVars, history>>

\* scheduleBackoff: in force in memory whether or not it could be written.
ScheduleBackoff(k, res) ==
    /\ At(k, "failed")
    /\ attempts' = [attempts EXCEPT ![k] = NextAttempts(k)]
    /\ SetBackoff(attempted[k], NextAttempts(k), res)
    /\ backing' = [backing EXCEPT ![k] = TRUE]
    /\ promised' = IF res = "ok" THEN promised \cup {attempted[k]} ELSE promised
    /\ Goto(k, "idle")
    /\ UNCHANGED <<wake, attempted, held, stall, handing, authorityVars,
                   admitted, refused, heldDurably, owed, crashes>>

\* The deadlines of the lane's back-off have passed.
Due(k) ==
    /\ open /\ At(k, "idle") /\ backing[k]
    /\ backing' = [backing EXCEPT ![k] = FALSE]
    /\ promised' = promised \ {a \in Artifacts : IsHead(a, k)}
    /\ UNCHANGED <<queueVars, phase, wake, attempted, held, stall, attempts, handing, authorityVars,
                   admitted, refused, heldDurably, owed, crashes>>

\* Mutant: a sink that fails does not keep the head.
StoreReturnUnchecked(k, res) ==
    /\ At(k, "accepted")
    /\ staged' = IF res = "ok" THEN staged \cup {attempted[k]} ELSE staged
    /\ Goto(k, "staged")
    /\ UNCHANGED <<queueVars, wake, attempted, held, stall, attempts, backing, handing, accepted, confirmed, history>>

\* The returned artifacts are staged before the head is retired; an acceptance
\* of anything but an envelope may carry none.
StoreReturn(k, res) ==
    /\ At(k, "accepted")
    /\ \/ /\ res = "ok"
          /\ staged' = staged \cup {attempted[k]}
          /\ Goto(k, "staged") /\ UNCHANGED stall
       \/ /\ res # "ok"
          /\ Goto(k, "failed") /\ stall' = [stall EXCEPT ![k] = "backoff"]
          /\ UNCHANGED staged
       \/ /\ KindOf[attempted[k]] # "delivery_envelope" /\ res = "ok"
          /\ Goto(k, "staged") /\ UNCHANGED <<staged, stall>>
    /\ UNCHANGED <<queueVars, wake, attempted, held, attempts, backing, handing, accepted, confirmed, history>>

\* Mutant: the head is retired before its receipt is staged.
BeginRetireEarly(k) ==
    /\ phase[k] \in {"accepted", "staged"}
    /\ Remove(attempted[k])
    /\ Goto(k, "retiring")
    /\ UNCHANGED <<wake, attempted, held, stall, attempts, backing, handing, authorityVars, history>>

BeginRetire(k) ==
    /\ At(k, "staged")
    /\ Remove(attempted[k])
    /\ Goto(k, "retiring")
    /\ UNCHANGED <<wake, attempted, held, stall, attempts, backing, handing, authorityVars, history>>

RetiredSilently(k) == UNCHANGED <<wake, owed>>  \* Mutant.

\* retired: a retired registration is a handoff for its device's evidence lane.
Retired(k) ==
    IF k[2] = "registration"
    THEN /\ wake' = [wake EXCEPT ![Evidence(k[1])] = TRUE]
         /\ owed' = [owed EXCEPT ![Evidence(k[1])] = TRUE]
    ELSE UNCHANGED <<wake, owed>>

\* One step of Remove; on the last one deliverHead returns.
Retire(k, res) ==
    /\ At(k, "retiring") /\ rm.step # "none" /\ rm.id = attempted[k]
    /\ RemoveStep(res)
    /\ IF rm' # NotRemoving
       THEN UNCHANGED <<phase, wake, owed, attempted, stall, attempts>>
       ELSE IF entries'[attempted[k]] = NoSeq
       THEN /\ attempted' = [attempted EXCEPT ![k] = None]
            /\ attempts' = [attempts EXCEPT ![k] = 0]
            /\ stall' = [stall EXCEPT ![k] = "none"]
            /\ Retired(k)
            /\ Goto(k, "idle")
       ELSE /\ stall' = [stall EXCEPT ![k] = "backoff"]
            /\ Goto(k, "failed")
            /\ UNCHANGED <<wake, owed, attempted, attempts>>
    /\ UNCHANGED <<held, backing, handing, authorityVars, admitted, refused, heldDurably, promised, crashes>>

-----------------------------------------------------------------------------
ProbeStep ==
    /\ ProbeNote \/ \E res \in Results : ProbeStore(res)
    /\ UNCHANGED <<laneVars, authorityVars, history>>

LanesInit ==
    /\ Init
    /\ phase = [k \in LaneKeys |-> "idle"] /\ wake = [k \in LaneKeys |-> FALSE]
    /\ attempted = [k \in LaneKeys |-> None] /\ held = [k \in LaneKeys |-> None]
    /\ stall = [k \in LaneKeys |-> "none"] /\ attempts = [k \in LaneKeys |-> 0]
    /\ backing = [k \in LaneKeys |-> FALSE] /\ handing = {}
    /\ accepted = {} /\ confirmed = Registered /\ staged = {}
    /\ admitted = {} /\ refused = {} /\ heldDurably = {} /\ promised = {}
    /\ owed = [k \in LaneKeys |-> FALSE] /\ crashes = 0

LaneStep(k) ==
    \/ IgnoreWake(k) \/ DeliverHead(k) \/ Due(k)
    \/ Accept(k) \/ Unanswered(k) \/ RefuseUntilHandoff(k) \/ RefuseForGood(k)
    \/ BeginRetire(k)
    \/ \E res \in Results :
         PersistHold(k, res) \/ DropBackoff(k, res) \/ ScheduleBackoff(k, res)
           \/ StoreReturn(k, res) \/ Retire(k, res)

LanesNext ==
    \/ \E res \in Results : Start(res) \/ \E a \in Artifacts : Admit(a, res)
    \/ \E a \in Artifacts : DueWhileDown(a) \/ RefuseFull(a)
    \/ \E d \in Devices : NotifyDevice(d)
    \/ \E k \in LaneKeys : LaneStep(k)
    \/ ProbeStep \/ Stop \/ LosePower

LanesSpec == LanesInit /\ [][LanesNext]_vars

(***************************************************************************)
(* Fairness.  A goroutine that can run does, and is granted a mutex that is  *)
(* released again and again; its back-off timer expires; a request is        *)
(* answered or times out; an authority asked again and again accepts once,   *)
(* and a store asked again and again completes a write once.                 *)
(***************************************************************************)
LaneWork(k) ==
    \/ IgnoreWake(k) \/ DeliverHead(k) \/ BeginRetire(k)
    \/ PersistHold(k, "ok") \/ DropBackoff(k, "ok") \/ ScheduleBackoff(k, "ok")
    \/ StoreReturn(k, "ok") \/ Retire(k, "ok")

Answered(k) == Accept(k) \/ Unanswered(k) \/ RefuseUntilHandoff(k) \/ RefuseForGood(k)

LaneFairness(k) ==
    SF_vars(LaneWork(k)) /\ WF_vars(Due(k)) /\ WF_vars(Answered(k)) /\ SF_vars(Accept(k))

FairSpec ==
    /\ LanesSpec
    /\ WF_vars(Start("ok"))
    /\ \A d \in Devices : WF_vars(NotifyDevice(d))
    /\ \A k \in LaneKeys : LaneFairness(k)

-----------------------------------------------------------------------------
(* Properties.                                                             *)

Delivered(a) == a \in accepted /\ (KindOf[a] = "delivery_envelope" => a \in staged)

\* No admitted artifact can be missing after any crash or power loss unless the
\* authority recorded it and, for an envelope, its receipt was staged durably
\* first (deliverHead: sink.Store before queue.Remove).
NothingLost ==
    \A a \in admitted : (\E d \in possible : d.rec[a] = NoSeq) => Delivered(a)

\* A lane sends only its head.  Nothing in custody of the lane was admitted
\* before what it is sending (PeekLane), and that was not refused for good: not
\* by this process, and once a hold was written without error, not by an earlier
\* one either (hold, adoptDurableHold, restore).
SendsItsHead ==
    \A k \in LaneKeys : At(k, "sending") =>
        /\ \A a \in custody : LaneKey(a) = k => disk.rec[attempted[k]] <= disk.rec[a]
        /\ attempted[k] \notin refused \cup heldDurably

\* A back-off that was persisted without error is waited out by whatever process
\* runs next: a restart never resends a backed-off head early (restore).
BackoffSurvivesRestart ==
    \A k \in LaneKeys : At(k, "sending") => attempted[k] \notin promised

\* The same, short of a directory sync that failed after its change took effect,
\* which may put another record in front of the backed-off one (restore,
\* scheduleBackoff, insertLocked).
BackoffSurvivesUnlessSlipped == ~slipped => BackoffSurvivesRestart

\* A lane waiting for a handoff has a wake pending exactly when it was handed
\* off after the refused attempt read its head: no handoff is lost, and a wake
\* left from before the attempt is not taken for one (deliverHead drains the
\* wake under the lock it reads the head with).
WakeIsLaterHandoff ==
    \A k \in LaneKeys : (open /\ At(k, "idle") /\ stall[k] = "handoff") => wake[k] = owed[k]

\* The attempt count persisted for an undelivered head never falls: a restart
\* does not forget how far its back-off has grown (BackoffRecord).
BackoffKeepsGrowing ==
    [][\A a \in Artifacts :
          (backoffs[a] # NoBackoff /\ backoffs'[a] # NoBackoff) => backoffs'[a] >= backoffs[a]]_vars

RegistrationComing(d) ==
    d \in Registered \/ \E r \in admitted : LaneKey(r) = <<d, "registration">>

\* Every admitted artifact of a device whose epoch is confirmed, or whose
\* registration was admitted too, is delivered or is behind a hold of its own
\* lane: no other lane's hold, wait or back-off keeps it, and a registration's
\* retirement wakes the evidence that waits on it (retired, NotifyDevice).
EventuallyDelivered ==
    \A a \in Artifacts :
        (a \in admitted /\ RegistrationComing(DeviceOf[a]))
          ~> (Delivered(a) \/ held[LaneKey(a)] # None \/ held[<<DeviceOf[a], "registration">>] # None)
-----------------------------------------------------------------------------
(* The abstract specification this one implements.                         *)

\* The artifacts every crash and power loss leaves recorded.
DurablyKept == {a \in Artifacts : \A d \in possible : d.rec[a] # NoSeq}

Custody == INSTANCE EvidenceCustody
    WITH Items <- Artifacts, Envelopes <- {a \in Artifacts : KindOf[a] = "delivery_envelope"},
         kept <- DurablyKept, known <- accepted, receipts <- staged

\* Whatever fails, crashes or loses power, the set of artifacts durably on disk
\* loses one only after the authority has it and its receipt is staged: the
\* worker implements the custody contract.
ImplementsCustody == Custody!CustodySpec
=============================================================================
