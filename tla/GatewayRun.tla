----------------------------- MODULE GatewayRun -----------------------------
(***************************************************************************)
(* One run of the gateway from its first subscription to the release of    *)
(* its state directory: the callback gates, the request pools, posture     *)
(* fetches, supervised runners, the decision to stop and the joins behind  *)
(* it.  Broker callbacks, pool goroutines, runners and runGateway itself   *)
(* are processes; the decision is five steps that any of them may take.    *)
(***************************************************************************)
EXTENDS Integers, Sequences, FiniteSets

CONSTANTS
    Evidence,           \* messages of the ordered pool
    Requests,           \* reasoning requests, of an unordered pool
    Enrichments,        \* enrichment requests, of another
    Beats,              \* heartbeats of runtime nodes
    Hooks,              \* webhook requests
    SenderOf,           \* the device of each message
    Allowance,          \* a family's limit per device: its IngressRates burst
    FailureLimit,       \* defaultRequestFailureLimit
    HeartbeatLimit,     \* DefaultFailureLimit
    Loads               \* what may be happening in a run: messages that arrive,
                        \* "heartbeat" and "write"

Pools == {Evidence, Requests, Enrichments}
Traffic == UNION Pools \cup Beats \cup Hooks
Senders == {SenderOf[m] : m \in Traffic}
Deciders == {"main", "watch"} \cup Requests

ASSUME RunAssumption ==
    /\ Traffic \subseteq DOMAIN SenderOf
    /\ Evidence \cap (Requests \cup Hooks) = {} /\ Traffic \cap {"main", "watch"} = {}
    /\ Loads \subseteq SUBSET (Traffic \cup {"heartbeat", "write"})
    /\ Allowance \in Nat \ {0} /\ FailureLimit \in Nat \ {0} /\ HeartbeatLimit \in Nat \ {0}

VARIABLES
    load,           \* the load of this run
    main,           \* where runGateway is
    why,            \* the branch of its select, or the failed subscription
    result,         \* what it returns
    asked,          \* whether the caller's context has ended
    cancelled,      \* whether the run's context has
    closed,         \* what refuses: "callbacks", "webhook", "posture", "signing"
    step,           \* the step of decide each decider is about to take
    where,          \* where each message is
    fifo,           \* requestPool.queued of the ordered pool
    draining,       \* requestPool.draining
    takers,         \* drain goroutines about to take from a device's queue
    fetching,       \* postureDebouncer.inflight
    runners,        \* supervised runners still running
    groupFailed,    \* whether one of them has failed
    beat,           \* the heartbeat publisher: "waiting" or with a payload "built"
    writing,        \* whether a write of the signing mark is outstanding
    failures,       \* requestFailures, and the heartbeat's
    recorded,       \* whether requestErr holds the escalation
    undelivered,    \* history: what really failed since the last success, the
                    \* replies that were not counted yet when it came among them
    escalated       \* history: a callback decided to stop while the gateway served

runVars == <<load, main, why, result, asked, cancelled, closed, step, where, fifo, draining, takers, fetching,
             runners, groupFailed, beat, writing, failures, recorded, undelivered, escalated>>
mainVars == <<load, main, why, result, asked>>
poolVars == <<where, fifo, draining, takers, fetching>>
runnerVars == <<runners, groupFailed, beat, writing>>
failVars == <<failures, recorded, undelivered, escalated>>

Runners == {"heartbeat", "worker"}
Inside == {"inside", "queued", "taken", "running", "failing", "deciding", "decided", "ending", "releasing", "last"}

RunInit ==
    /\ load \in Loads
    /\ main = "subscribing" /\ why = "" /\ result = "" /\ asked = FALSE
    /\ cancelled = FALSE /\ closed = {} /\ step = [p \in Deciders |-> 0]
    /\ where = [m \in Traffic |-> "out"]
    /\ fifo = [d \in Senders |-> <<>>] /\ draining = {} /\ takers = [d \in Senders |-> 0]
    /\ fetching = {}
    /\ runners = Runners /\ groupFailed = FALSE /\ beat = "waiting" /\ writing = FALSE
    /\ failures = [k \in {"reply", "heartbeat"} |-> 0] /\ recorded = FALSE
    /\ undelivered = [k \in {"reply", "heartbeat"} |-> 0] /\ escalated = FALSE

\* The process is alive, and so are the brokers' clients until the last join.
Live == main \notin {"released", "abandoned", "exited"}
RunEnded == cancelled \/ asked
GroupEnded == RunEnded \/ groupFailed

-----------------------------------------------------------------------------
(* The decision to stop: stopDecision.decide.                               *)

\* Mutant: the gate of the callbacks is closed and not only refused, which waits
\* for the callbacks inside.
DecideJoining(p) ==
    /\ Live /\ step[p] \in 1..5
    /\ step[p] = 2 => \A m \in Traffic \ Hooks: where[m] \notin Inside
    /\ step' = [step EXCEPT ![p] = @ + 1]
    /\ closed' = closed \cup CASE step[p] = 1 -> {"callbacks"}
                               [] step[p] = 2 -> {"webhook"}
                               [] step[p] = 3 -> {"posture"}
                               [] step[p] = 4 -> {"signing"}
                               [] step[p] = 5 -> {}
    /\ cancelled' = (cancelled \/ step[p] = 5)
    /\ UNCHANGED <<mainVars, poolVars, runnerVars, failVars>>

Decide(p) ==
    /\ Live /\ step[p] \in 1..5
    /\ step' = [step EXCEPT ![p] = @ + 1]
    /\ closed' = closed \cup CASE step[p] = 1 -> {"callbacks"}
                               [] step[p] = 2 -> {"webhook"}
                               [] step[p] = 3 -> {"posture"}
                               [] step[p] = 4 -> {"signing"}
                               [] step[p] = 5 -> {}
    /\ cancelled' = (cancelled \/ step[p] = 5)
    /\ UNCHANGED <<mainVars, poolVars, runnerVars, failVars>>

\* context.AfterFunc on the runner group's context, unless the return stops it.
Watch ==
    /\ Live /\ GroupEnded /\ step["watch"] = 0 /\ main \notin {"closing", "quiescing"}
    /\ step' = [step EXCEPT !["watch"] = 1]
    /\ UNCHANGED <<mainVars, cancelled, closed, poolVars, runnerVars, failVars>>

-----------------------------------------------------------------------------
(* Callbacks and request pools.                                             *)

\* gatedBroker's handler enters the gate, or the message is dropped.
Arrive(m) ==
    /\ Live /\ m \in load \ Hooks /\ where[m] = "out"
    /\ where' = [where EXCEPT ![m] = IF "callbacks" \in closed THEN "done" ELSE "inside"]
    /\ UNCHANGED <<mainVars, cancelled, closed, step, fifo, draining, takers, fetching, runnerVars, failVars>>

HeldOf(m) == {n \in UNION {pool \in Pools: m \in pool}:
                SenderOf[n] = SenderOf[m]
                /\ where[n] \in {"queued", "taken", "running", "failing", "deciding", "decided", "ending"}}

\* Mutant: every message accepted starts a drain.
StartsAlways(d) == TRUE

\* A message starts a drain unless its device has one.
Starts(d) == d \notin draining

\* requestPool's handler, whole under the pool's lock: admitted again for the
\* time it is held, unless the gate now refuses or its allowance is used.
Accept(m) ==
    LET d == SenderOf[m] IN
    /\ Live /\ m \in UNION Pools /\ where[m] = "inside"
    /\ IF "callbacks" \in closed \/ Cardinality(HeldOf(m)) >= Allowance
         THEN where' = [where EXCEPT ![m] = "done"] /\ UNCHANGED <<fifo, draining, takers>>
       ELSE IF m \notin Evidence
         THEN where' = [where EXCEPT ![m] = "taken"] /\ UNCHANGED <<fifo, draining, takers>>
       ELSE /\ where' = [where EXCEPT ![m] = "queued"]
            /\ fifo' = [fifo EXCEPT ![d] = Append(@, m)]
            /\ takers' = IF Starts(d) THEN [takers EXCEPT ![d] = @ + 1] ELSE takers
            /\ draining' = draining \cup {d}
    /\ UNCHANGED <<mainVars, cancelled, closed, step, fetching, runnerVars, failVars>>

\* drain takes the first message queued.
Take(d) ==
    /\ Live /\ takers[d] > 0 /\ fifo[d] # <<>>
    /\ takers' = [takers EXCEPT ![d] = @ - 1]
    /\ where' = [where EXCEPT ![Head(fifo[d])] = "taken"]
    /\ fifo' = [fifo EXCEPT ![d] = Tail(@)]
    /\ UNCHANGED <<mainVars, cancelled, closed, step, draining, fetching, runnerVars, failVars>>

\* run: handled unless the stop has been decided.
Run(m) ==
    /\ Live /\ where[m] = "taken"
    /\ where' = [where EXCEPT ![m] = IF "callbacks" \in closed THEN "ending" ELSE "running"]
    /\ UNCHANGED <<mainVars, cancelled, closed, step, fifo, draining, takers, fetching, runnerVars, failVars>>

IsLast(m) == m \in Evidence /\ fifo[SenderOf[m]] = <<>>

\* run's deferred part: under the lock the message is no longer held, and the
\* last one queued ends the drain.
End(m) ==
    /\ Live /\ where[m] = "ending"
    /\ where' = [where EXCEPT ![m] = IF IsLast(m) THEN "last" ELSE "releasing"]
    /\ draining' = IF IsLast(m) THEN draining \ {SenderOf[m]} ELSE draining
    /\ UNCHANGED <<mainVars, cancelled, closed, step, fifo, takers, fetching, runnerVars, failVars>>

\* The admission is released; drain goes on unless that was the last.
Release(m) ==
    /\ Live /\ where[m] \in {"releasing", "last"}
    /\ where' = [where EXCEPT ![m] = "done"]
    /\ takers' = IF m \in Evidence /\ where[m] = "releasing"
                 THEN [takers EXCEPT ![SenderOf[m]] = @ + 1] ELSE takers
    /\ UNCHANGED <<mainVars, cancelled, closed, step, fifo, draining, fetching, runnerVars, failVars>>

\* A carriage or an acknowledgement is handled (ReturnPath).
HandleEvidence(m) ==
    /\ Live /\ m \in Evidence /\ where[m] = "running"
    /\ where' = [where EXCEPT ![m] = "ending"]
    /\ UNCHANGED <<mainVars, cancelled, closed, step, fifo, draining, takers, fetching, runnerVars, failVars>>

\* A node's heartbeat starts a posture fetch unless its device has one.
HandleBeat(m) ==
    /\ Live /\ m \in Beats /\ where[m] = "inside"
    /\ where' = [where EXCEPT ![m] = "done"]
    /\ fetching' = IF "posture" \in closed THEN fetching ELSE fetching \cup {SenderOf[m]}
    /\ UNCHANGED <<mainVars, cancelled, closed, step, fifo, draining, takers, runnerVars, failVars>>

EndFetch(d) ==
    /\ Live /\ d \in fetching /\ fetching' = fetching \ {d}
    /\ UNCHANGED <<mainVars, cancelled, closed, step, where, fifo, draining, takers, runnerVars, failVars>>

\* A webhook request, admitted through its own gate and ended.
Hook(m) ==
    /\ Live /\ m \in load \cap Hooks /\ where[m] \in {"out", "running"}
    /\ where' = [where EXCEPT ![m] = IF @ = "out" /\ "webhook" \notin closed THEN "running" ELSE "done"]
    /\ UNCHANGED <<mainVars, cancelled, closed, step, fifo, draining, takers, fetching, runnerVars, failVars>>

-----------------------------------------------------------------------------
(* Reasoning requests: Dispatcher.HandleRequest and what the callback makes *)
(* of its error.                                                            *)

\* Mutant: a reply refused by the closed clock counts.
CountsClosed(outcome) == ~RunEnded

\* A reply that could not be delivered counts, unless the run's own stop refused
\* it: by cancelling the run, or by closing the signing clock.
Counts(outcome) == ~RunEnded /\ outcome # "unsigned"

\* A reply is delivered; or not, its publish failed or its clock closed; or the
\* request is refused and answers nothing.
HandleRequest(m, outcome) ==
    /\ Live /\ m \in Requests /\ where[m] = "running"
    /\ outcome = "unsigned" <=> ("signing" \in closed /\ outcome # "refused")
    /\ where' = [where EXCEPT ![m] = IF outcome \in {"failed", "unsigned"} /\ Counts(outcome)
                                     THEN "failing" ELSE "ending"]
    /\ failures' = IF outcome = "delivered" THEN [failures EXCEPT !["reply"] = 0] ELSE failures
    /\ undelivered' = CASE outcome = "delivered" ->
                             [undelivered EXCEPT !["reply"] = Cardinality({n \in Traffic: where[n] = "failing"})]
                        [] outcome = "failed" -> [undelivered EXCEPT !["reply"] = @ + 1]
                        [] OTHER -> undelivered
    /\ UNCHANGED <<mainVars, cancelled, closed, step, fifo, draining, takers, fetching, runnerVars,
                   recorded, escalated>>

\* Mutant: the escalation is recorded once the stop is decided.
RecordsAt(s) == s = 6

\* The escalation is recorded before the stop is decided.
Records(s) == s = 0

\* The failure is counted; at the limit the callback decides the stop itself.
CountFailure(m) ==
    LET reached == failures["reply"] + 1 >= FailureLimit IN
    /\ Live /\ where[m] = "failing"
    /\ failures' = [failures EXCEPT !["reply"] = @ + 1]
    /\ where' = [where EXCEPT ![m] = IF reached THEN "deciding" ELSE "ending"]
    /\ step' = IF reached THEN [step EXCEPT ![m] = 1] ELSE step
    /\ recorded' = (recorded \/ (reached /\ Records(0)))
    /\ escalated' = (escalated \/ (reached /\ main \in {"subscribing", "serving"}))
    /\ UNCHANGED <<mainVars, cancelled, closed, fifo, draining, takers, fetching, runnerVars, undelivered>>

\* Deciding never waits, so the callback returns.
ReturnFromDecision(m) ==
    /\ Live /\ where[m] = "deciding" /\ step[m] = 6
    /\ where' = [where EXCEPT ![m] = "ending"]
    /\ recorded' = (recorded \/ Records(6))
    /\ UNCHANGED <<mainVars, cancelled, closed, step, fifo, draining, takers, fetching, runnerVars,
                   failures, undelivered, escalated>>

\* enrichment.Handler.HandleRequest answers, or not, and its error is logged.
HandleEnrichment(m) ==
    /\ Live /\ m \in Enrichments /\ where[m] = "running"
    /\ where' = [where EXCEPT ![m] = "ending"]
    /\ UNCHANGED <<mainVars, cancelled, closed, step, fifo, draining, takers, fetching, runnerVars, failVars>>

-----------------------------------------------------------------------------
(* Supervised runners, the heartbeat publisher among them.                  *)

\* A runner fails, which ends the group's context, or ends with it.
EndRunner(r) ==
    /\ Live /\ r \in runners /\ (GroupEnded \/ r # "heartbeat")
    /\ runners' = runners \ {r}
    /\ groupFailed' = (groupFailed \/ ~GroupEnded)
    /\ UNCHANGED <<mainVars, cancelled, closed, step, poolVars, beat, writing, failVars>>

\* A heartbeat that failed: recordFailure, which ends the process at the limit.
BeatFails(real) ==
    /\ failures' = [failures EXCEPT !["heartbeat"] = @ + 1]
    /\ undelivered' = IF real THEN [undelivered EXCEPT !["heartbeat"] = @ + 1] ELSE undelivered
    /\ main' = IF failures["heartbeat"] + 1 >= HeartbeatLimit THEN "exited" ELSE main

\* buildPayload: a clock the stop has closed refuses the heartbeat.
BuildBeat ==
    /\ Live /\ "heartbeat" \in runners \cap load /\ beat = "waiting" /\ ~GroupEnded
    /\ IF "signing" \notin closed
         THEN beat' = "built" /\ UNCHANGED <<main, failures, undelivered>>
         ELSE /\ UNCHANGED beat
              /\ IF Counts("unsigned") THEN BeatFails(FALSE) ELSE UNCHANGED <<main, failures, undelivered>>
    /\ UNCHANGED <<load, why, result, asked, cancelled, closed, step, poolVars, runners, groupFailed, writing,
                   recorded, escalated>>

\* publish: one the run's end interrupted is not a failure.
PublishBeat(ok) ==
    /\ Live /\ "heartbeat" \in runners /\ beat = "built" /\ beat' = "waiting"
    /\ IF ok THEN /\ failures' = [failures EXCEPT !["heartbeat"] = 0]
                  /\ undelivered' = [undelivered EXCEPT !["heartbeat"] = 0] /\ UNCHANGED main
       ELSE IF GroupEnded THEN UNCHANGED <<main, failures, undelivered>>
       ELSE BeatFails(TRUE)
    /\ UNCHANGED <<load, why, result, asked, cancelled, closed, step, poolVars, runners, groupFailed, writing,
                   recorded, escalated>>

\* Whoever signs may start a write of the mark, until signing stops; it ends.
Signs == runners # {} \/ fetching # {} \/ \E m \in Traffic \ Hooks: where[m] = "running"

Write ==
    /\ Live
    /\ \/ "write" \in load /\ ~writing /\ Signs /\ "signing" \notin closed /\ writing' = TRUE
       \/ writing /\ writing' = FALSE
    /\ UNCHANGED <<mainVars, cancelled, closed, step, poolVars, runners, groupFailed, beat, failVars>>

-----------------------------------------------------------------------------
(* runGateway.                                                              *)

Elsewhere == UNCHANGED <<load, asked, cancelled, closed, poolVars, runnerVars, failures, undelivered, escalated>>

\* The caller's context ends.
Ask ==
    /\ Live /\ ~asked /\ asked' = TRUE
    /\ UNCHANGED <<load, main, why, result, cancelled, closed, step, poolVars, runnerVars, failVars>>

Leave(cause) ==
    /\ why' = cause /\ main' = "deciding"
    /\ step' = [step EXCEPT !["main"] = 1]
    /\ UNCHANGED result

\* The subscriptions complete, or one fails.
Subscribe(ok) ==
    /\ main = "subscribing"
    /\ IF ok THEN main' = "serving" /\ UNCHANGED <<why, step, result>> ELSE Leave("subscribe")
    /\ UNCHANGED recorded /\ Elsewhere

\* The select of runGateway.
Select ==
    /\ main = "serving"
    /\ \/ asked /\ Leave("cancelled") /\ UNCHANGED recorded
       \/ runners = {} /\ Leave("runners") /\ UNCHANGED recorded
       \/ recorded /\ Leave("escalation") /\ recorded' = FALSE
    /\ Elsewhere

\* Posture fetches are joined; then the runners, which the second branch has
\* already seen end.
JoinPosture ==
    /\ \/ main = "deciding" /\ step["main"] = 6 /\ main' = "posture"
       \/ main = "posture" /\ fetching = {} /\ main' = IF why = "runners" THEN "cause" ELSE "runners"
    /\ UNCHANGED <<why, result, step, recorded>> /\ Elsewhere

JoinRunners ==
    /\ main = "runners" /\ runners = {} /\ main' = "cause"
    /\ UNCHANGED <<why, result, step, recorded>> /\ Elsewhere

\* stopCause: an escalation recorded is what is returned.
Return ==
    /\ main = "cause" /\ main' = "closing"
    /\ result' = IF why = "escalation" \/ recorded THEN "escalation"
                 ELSE IF why = "cancelled" \/ (why = "runners" /\ asked) THEN "stopped" ELSE "error"
    /\ recorded' = FALSE
    /\ UNCHANGED <<why, step>> /\ Elsewhere

\* Mutant: only the callbacks of the brokers are joined.
JoinedCallbacks == \A m \in Traffic \ Hooks: where[m] \notin Inside

\* The deferred joins: broker callbacks, webhook requests, posture fetches.
Joined == (\A m \in Traffic: where[m] \notin Inside) /\ fetching = {}

Close ==
    /\ main = "closing" /\ Joined /\ main' = "quiescing"
    /\ UNCHANGED <<why, result, step, recorded>> /\ Elsewhere

\* The last deferred step: the directory is released once no write of the mark
\* is outstanding.
ReleaseDirectory ==
    /\ main = "quiescing" /\ ~writing /\ main' = "released"
    /\ UNCHANGED <<why, result, step, recorded>> /\ Elsewhere

\* Past the bound, counted from the decision, with a write outstanding the
\* process ends at once, wherever runGateway is.
Abandon ==
    /\ Live /\ "signing" \in closed /\ writing /\ main' = "abandoned"
    /\ UNCHANGED <<why, result, step, recorded>> /\ Elsewhere

RunNext ==
    \/ \E p \in Deciders: Decide(p)
    \/ Watch \/ Ask
    \/ \E m \in Traffic:
         \/ Arrive(m) \/ Accept(m) \/ Run(m) \/ End(m) \/ Release(m)
         \/ HandleEvidence(m) \/ HandleEnrichment(m) \/ HandleBeat(m) \/ Hook(m)
         \/ CountFailure(m) \/ ReturnFromDecision(m)
         \/ \E outcome \in {"delivered", "failed", "unsigned", "refused"}:
               HandleRequest(m, outcome)
    \/ \E d \in Senders: Take(d) \/ EndFetch(d)
    \/ \E r \in Runners: EndRunner(r)
    \/ BuildBeat \/ Write
    \/ \E ok \in BOOLEAN: PublishBeat(ok) \/ Subscribe(ok)
    \/ Select \/ JoinPosture \/ JoinRunners \/ Return \/ Close \/ ReleaseDirectory \/ Abandon

RunSpec == RunInit /\ [][RunNext]_runVars

\* What is bound to end.  Goroutines run; handlers end, since a provider and a
\* publish have timeouts; a fetch and a runner end with the run's context; a
\* subscription has a timeout; the quiescence bound passes.
Progress ==
    \/ \E p \in Deciders: Decide(p)
    \/ Watch
    \/ \E m \in Traffic:
         \/ Accept(m) \/ Run(m) \/ End(m) \/ Release(m)
         \/ HandleEvidence(m) \/ HandleEnrichment(m) \/ HandleBeat(m)
         \/ where[m] = "running" /\ Hook(m)
         \/ CountFailure(m) \/ ReturnFromDecision(m)
         \/ \E outcome \in {"delivered", "failed", "unsigned", "refused"}:
               HandleRequest(m, outcome)
    \/ \E d \in Senders: Take(d) \/ (RunEnded /\ EndFetch(d))
    \/ \E r \in Runners: GroupEnded /\ EndRunner(r)
    \/ \E ok \in BOOLEAN: Subscribe(ok)
    \/ Select \/ JoinPosture \/ JoinRunners \/ Return \/ Close \/ ReleaseDirectory \/ Abandon

\* None of these steps can be taken forever, so that some one of them is taken
\* while any can be is all the fairness needed.
RunFairness == WF_runVars(Progress)

-----------------------------------------------------------------------------
(* The state directory is released only when nothing that could sign or     *)
(* write is left: no callback, request, webhook request, posture fetch or   *)
(* runner, and no write of the mark.                                        *)
ReleasedIsQuiet ==
    main = "released" =>
       /\ \A m \in Traffic: where[m] \notin Inside
       /\ fetching = {} /\ runners = {} /\ ~writing

(* A stop that a callback decided on its escalation, before anything else   *)
(* ended the run, is reported as that escalation, whichever branch of the   *)
(* select or failing subscription notices the stop first.                   *)
EscalationIsReported ==
    escalated /\ main \in {"closing", "quiescing", "released"} => result = "escalation"

(* Neither failing replies nor failing heartbeats end the gateway unless as *)
(* many really failed since the last success: what the stop itself refuses, *)
(* between closing the clock and cancelling the run, never counts, nor does *)
(* a request that is refused.  Replies that had failed and were not counted *)
(* when another was delivered still count, in whatever order the callbacks  *)
(* of the unordered pool take the lock.                                     *)
EndIsEarned ==
    [][/\ recorded' /\ ~recorded => undelivered'["reply"] >= FailureLimit
       /\ main' = "exited" /\ main # "exited" => undelivered'["heartbeat"] >= HeartbeatLimit]_runVars

(* A device's carriages and acknowledgements are handled one at a time.     *)
OneAtATime ==
    \A m, n \in Evidence: SenderOf[m] = SenderOf[n] /\ where[m] = "running" /\ where[n] = "running" => m = n

(* Asked to stop, the gateway stops: a callback that decides the stop does  *)
(* not wait for itself, and no message is left behind in a device's queue.  *)
StopEnds == asked ~> ~Live
=============================================================================
