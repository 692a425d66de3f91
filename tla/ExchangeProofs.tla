--------------------------- MODULE ExchangeProofs ---------------------------
(***************************************************************************)
(* What the broker session promises the gateway's callers, for any number of *)
(* topics, connections, callers, page tokens and pages: a subscription which *)
(* succeeded is served on every connection, a response whose replay key is *)
(* recorded is taken by its request, and a returned export is whole.       *)
(***************************************************************************)
EXTENDS BrokerClient, ExportExchange, SequenceTheorems, TLAPS

-----------------------------------------------------------------------------
(* Subscriptions                                                           *)

\* A topic whose call is under way or has succeeded is registered, and what was
\* granted once is granted now, refused now, or still to be subscribed again by
\* the handler of the current connection.
BrokerInv ==
    /\ connections \in 0..MaxConnections /\ (online => connections > 0)
    /\ call \in [Topics -> [at: {"idle", "registered", "sent", "granted", "done", "failed"}, on: Nat]]
    /\ subscriptions \subseteq Topics
    /\ notified \subseteq 1..connections
    /\ resubscribing \in [Connections -> SUBSET (Topics \cup {"snapshot"})]
    /\ \A t \in Topics:
         call[t].at \in {"registered", "sent", "granted", "done"} => t \in subscriptions
    /\ connections \in notified /\ resubscribing[connections] # {"snapshot"} =>
         \A t \in Topics: call[t].at \in {"granted", "done"} =>
            t \in granted \cup refused \cup resubscribing[connections]

\* Nothing is registered before the first connection.
LEMMA BrokerStarts == BrokerInit => BrokerInv
  BY BrokerAssumption DEF BrokerInit, BrokerInv, NoCall, Connections

\* A new connection has not been noted by its handler.
LEMMA ConnectionUpKeeps == ASSUME BrokerInv, ConnectionUp PROVE BrokerInv'
  BY BrokerAssumption DEF BrokerInv, ConnectionUp

\* The handler notes it, and is to copy the subscriptions.
LEMMA OnConnectKeeps == ASSUME BrokerInv, OnConnect PROVE BrokerInv'
<1>1. connections \in Connections
  BY BrokerAssumption DEF OnConnect, BrokerInv, Connections
<1>2. notified' \subseteq 1..connections
  BY <1>1 DEF BrokerInv, OnConnect, Connections
<1> QED
  BY <1>1, <1>2 DEF BrokerInv, OnConnect

\* The copy has every topic whose call may still succeed.
LEMMA ResubscribeAllKeeps ==
    ASSUME BrokerInv, NEW k \in Connections, ResubscribeAll(k) PROVE BrokerInv'
<1>1. resubscribing' \in [Connections -> SUBSET (Topics \cup {"snapshot"})]
  BY DEF BrokerInv, ResubscribeAll
<1>2. CASE k = connections
  BY <1>1, <1>2 DEF BrokerInv, ResubscribeAll
<1>3. CASE k # connections
  BY <1>1, <1>3 DEF BrokerInv, ResubscribeAll
<1> QED
  BY <1>2, <1>3

\* A topic leaves the copy of the current connection granted or refused.
LEMMA ResubscribeKeeps ==
    ASSUME BrokerInv, NEW k \in Connections, NEW t \in Topics, NEW ok \in BOOLEAN,
           Resubscribe(k, t, ok)
    PROVE  BrokerInv'
<1>1. resubscribing' \in [Connections -> SUBSET (Topics \cup {"snapshot"})]
  BY DEF BrokerInv, Resubscribe
<1>2. /\ resubscribing' = [resubscribing EXCEPT ![k] = @ \ {t}] /\ t \in resubscribing[k]
      /\ resubscribing[k] # {"snapshot"}
      /\ granted \subseteq granted' /\ refused \subseteq refused'
      /\ k = connections => t \in granted' \cup refused'
      /\ UNCHANGED <<online, connections, call, subscriptions, notified>>
  BY DEF Resubscribe
<1>3. CASE k = connections
  <2>1. resubscribing'[connections] = resubscribing[connections] \ {t}
    BY <1>2, <1>3 DEF BrokerInv
  <2> QED
    BY <1>1, <1>2, <1>3, <2>1 DEF BrokerInv
<1>4. CASE k # connections
  <2>1. connections \in notified => resubscribing'[connections] = resubscribing[connections]
    <3>1. connections \in notified => connections \in Connections
      BY BrokerAssumption DEF BrokerInv, Connections
    <3> QED
      BY <1>2, <1>4, <3>1 DEF BrokerInv
  <2> QED
    BY <1>1, <1>2, <2>1 DEF BrokerInv
<1> QED
  BY <1>3, <1>4

\* The steps of a call touch its own topic, which stays registered until the call
\* has failed.
LEMMA CallKeeps ==
    ASSUME BrokerInv, NEW t \in Topics,
           \/ SubscribeCalled(t) \/ SubscribeSent(t) \/ Granted(t)
           \/ \E ok \in BOOLEAN: SubscribeReturns(t, ok)
    PROVE  BrokerInv'
<1>c. connections \in Nat
  BY BrokerAssumption DEF BrokerInv
<1>1. CASE SubscribeCalled(t)
  BY <1>1 DEF BrokerInv, SubscribeCalled, Registered
<1>2. CASE SubscribeSent(t)
  BY <1>c, <1>2 DEF BrokerInv, SubscribeSent
<1>3. CASE Granted(t)
  BY <1>3 DEF BrokerInv, Granted
<1>4. ASSUME NEW ok \in BOOLEAN, SubscribeReturns(t, ok) PROVE BrokerInv'
  <2>1. CASE ok
    BY <1>4, <2>1 DEF BrokerInv, SubscribeReturns, Kept
  <2>2. CASE ~ok
    BY <1>4, <2>2 DEF BrokerInv, SubscribeReturns, Kept
  <2> QED
    BY <2>1, <2>2
<1> QED
  BY <1>1, <1>2, <1>3, <1>4

\* Every step keeps it.
LEMMA BrokerStep == BrokerInv /\ [BrokerNext]_brokerVars => BrokerInv'
<1> SUFFICES ASSUME BrokerInv, [BrokerNext]_brokerVars PROVE BrokerInv'
  OBVIOUS
<1>1. CASE ConnectReturns \/ ConnectionLost \/ Disconnect \/ UNCHANGED brokerVars
  <2>1. /\ online' => online
        /\ UNCHANGED <<connections, call, subscriptions, notified, resubscribing, granted, refused>>
    <3>1. CASE ConnectReturns
      BY <3>1 DEF ConnectReturns
    <3>2. CASE ConnectionLost
      BY <3>2 DEF ConnectionLost
    <3>3. CASE Disconnect
      BY <3>3 DEF Disconnect
    <3>4. CASE UNCHANGED brokerVars
      BY <3>4 DEF brokerVars
    <3> QED
      BY <1>1, <3>1, <3>2, <3>3, <3>4
  <2> QED
    BY <2>1 DEF BrokerInv
<1>2. CASE ConnectionUp \/ OnConnect
  BY <1>2, ConnectionUpKeeps, OnConnectKeeps
<1>3. CASE \E k \in Connections:
             ResubscribeAll(k) \/ \E t \in Topics, ok \in BOOLEAN: Resubscribe(k, t, ok)
  BY <1>3, ResubscribeAllKeeps, ResubscribeKeeps
<1>4. CASE \E t \in Topics: \/ SubscribeCalled(t) \/ SubscribeSent(t) \/ Granted(t)
                            \/ \E ok \in BOOLEAN: SubscribeReturns(t, ok)
  BY <1>4, CallKeeps
<1> QED
  BY <1>1, <1>2, <1>3, <1>4 DEF BrokerNext

\* Once the handler of the current connection is through, every topic whose
\* Subscribe succeeded is in the broker's session, unless subscribing it again
\* was refused on that connection (Subscribe registers before it sends).
THEOREM Served == BrokerSpec => []ServedUnlessRefused
<1>1. BrokerInv => ServedUnlessRefused
  BY DEF BrokerInv, ServedUnlessRefused
<1> QED
  BY BrokerStarts, BrokerStep, <1>1, PTL DEF BrokerSpec

-----------------------------------------------------------------------------
(* The export exchange                                                     *)

Asked == Tokens \cup {First}
Identities == Callers \X Nat
Responses == [to: Identities, token: Asked, next: Nexts]
Steps == {"idle", "subscribing", "pacing", "publishing", "waiting", "released", "answered",
          "whole", "failed"}

\* What the callback has looked up is nothing, or an answer and its request.
LookedUpOK ==
    lookedUp = <<>> \/ \E r \in Responses, q \in Identities: lookedUp = <<r, q>> /\ r.to = q

ExchangeTypeOK ==
    /\ step \in [Callers -> Steps]
    /\ asked \in [Callers -> Seq(Asked)]
    /\ \A c \in Callers: step[c] # "idle" => asked[c] # <<>>
    /\ all \in [Callers -> Seq(Responses)]
    /\ channel \in [Callers -> Seq(Responses)]
    /\ pending \subseteq Identities /\ recorded \subseteq Identities
    /\ answers \subseteq Responses
    /\ LookedUpOK

\* The steps in which a caller is bound to read its channel.
Bound == {"publishing", "waiting", "released"}

\* A pending request is its caller's current one, and not released.
PendingIsCurrent ==
    \A q \in pending: q = Request(q[1]) /\ step[q[1]] \in {"publishing", "waiting", "answered"}

\* What a channel holds is the answer to the caller's current request, recorded.
ChannelIsCurrent ==
    \A c \in Callers: channel[c] # <<>> =>
       /\ step[c] \in Bound /\ Len(channel[c]) = 1 /\ channel[c][1].to = Request(c)
       /\ Request(c) \in recorded

\* A request whose answer was taken has it recorded.
AnsweredIsRecorded == \A c \in Callers: step[c] = "answered" => Request(c) \in recorded

\* q is among what its caller accepted.
Accepted(q) == \E i \in 1 .. Len(all[q[1]]): all[q[1]][i].to = q

\* It is in the channel of a caller bound to read it.
AwaitsReading(q) ==
    /\ Request(q[1]) = q /\ step[q[1]] \in {"publishing", "waiting", "released"}
    /\ channel[q[1]] # <<>>

ExchangeInv ==
    /\ ExchangeTypeOK /\ PendingIsCurrent /\ ChannelIsCurrent /\ AnsweredIsRecorded
    /\ HandedOverIsTaken

\* The two ways of HandedOverIsTaken, by name.
LEMMA TakenOrAwaited ==
    HandedOverIsTaken <=> \A q \in recorded: Accepted(q) \/ AwaitsReading(q)
  BY DEF HandedOverIsTaken, Accepted, AwaitsReading

\* Nothing is asked at first.
LEMMA ExchangeStarts == ExchangeInit => ExchangeInv
<1> SUFFICES ASSUME ExchangeInit PROVE ExchangeInv
  OBVIOUS
<1>1. ExchangeTypeOK
  BY DEF ExchangeInit, ExchangeTypeOK, LookedUpOK, Steps
<1> QED
  BY <1>1 DEF ExchangeInit, ExchangeInv, PendingIsCurrent, ChannelIsCurrent,
              AnsweredIsRecorded, HandedOverIsTaken

\* A step of the callers alone: none begins or stops being bound to read, and
\* what each asks for and holds is as it was.
CallersOnly ==
    /\ step' \in [Callers -> Steps]
    /\ \A c \in Callers: step[c] \in {"publishing", "waiting", "released", "answered"}
          => step'[c] = step[c] \/ (step[c] = "publishing" /\ step'[c] = "waiting")
    /\ \A c \in Callers: step'[c] = "answered" => step[c] = "answered"
    /\ asked' \in [Callers -> Seq(Asked)]
    /\ \A c \in Callers: step'[c] # "idle" => asked'[c] # <<>>
    /\ \A c \in Callers: step[c] # "idle" => asked'[c] = asked[c]
    /\ answers' \subseteq Responses
    /\ LookedUpOK'
    /\ UNCHANGED <<all, pending, channel, recorded>>

LEMMA CallersMove == ExchangeInv /\ CallersOnly => ExchangeInv'
<1> SUFFICES ASSUME ExchangeInv, CallersOnly PROVE ExchangeInv'
  OBVIOUS
<1> USE DEF CallersOnly
<1>1. ExchangeTypeOK'
  BY DEF ExchangeInv, ExchangeTypeOK
<1>t. recorded \subseteq Identities /\ pending \subseteq Identities /\ step \in [Callers -> Steps]
  BY DEF ExchangeInv, ExchangeTypeOK
<1>2. \A c \in Callers: step[c] \in {"publishing", "waiting", "released", "answered"}
         => Request(c)' = Request(c)
  BY DEF Request
<1>3. PendingIsCurrent'
  BY <1>t, <1>2 DEF ExchangeInv, PendingIsCurrent, Identities
<1>4. ChannelIsCurrent'
  BY <1>t, <1>2 DEF ExchangeInv, ChannelIsCurrent, Bound
<1>5. AnsweredIsRecorded'
  BY <1>2 DEF ExchangeInv, AnsweredIsRecorded
<1>6. HandedOverIsTaken'
  <2> SUFFICES ASSUME NEW q \in recorded
               PROVE  Accepted(q)' \/ AwaitsReading(q)'
    BY DEF HandedOverIsTaken, Accepted, AwaitsReading
  <2>1. q[1] \in Callers
    BY <1>t DEF Identities
  <2>2. CASE Accepted(q)
    BY <2>2 DEF Accepted
  <2>3. CASE AwaitsReading(q)
    BY <1>2, <2>1, <2>3 DEF AwaitsReading
  <2> QED
    BY <2>2, <2>3, TakenOrAwaited DEF ExchangeInv
<1> QED
  BY <1>1, <1>3, <1>4, <1>5, <1>6 DEF ExchangeInv

\* The subscription and the start of a request.
LEMMA SubscriptionKeeps ==
    ASSUME ExchangeInv, NEW c \in Callers,
           \/ EnsureResponseSubscription(c) \/ SubscribeTimesOut(c) \/ NotSent(c) \/ Published(c)
    PROVE  ExchangeInv'
<1>1. CASE EnsureResponseSubscription(c)
  <2>1. /\ step' \in [Callers -> Steps] /\ asked' = [asked EXCEPT ![c] = <<First>>]
        /\ step[c] = "idle" /\ \A x \in Callers \ {c}: step'[x] = step[x]
        /\ step'[c] \in {"pacing", "subscribing"}
        /\ UNCHANGED <<all, pending, channel, wait, answers, lookedUp, recorded>>
    BY <1>1, Zenon DEF EnsureResponseSubscription, ExchangeInv, ExchangeTypeOK, Steps
  <2>2. <<First>> \in Seq(Asked) /\ <<First>> # <<>>
    BY DEF Asked
  <2>3. /\ asked' \in [Callers -> Seq(Asked)] /\ asked'[c] = <<First>>
        /\ \A x \in Callers \ {c}: asked'[x] = asked[x]
    BY <2>1, <2>2 DEF ExchangeInv, ExchangeTypeOK
  <2>4. \A x \in Callers: step'[x] # "idle" => asked'[x] # <<>>
    BY <2>1, <2>2, <2>3 DEF ExchangeInv, ExchangeTypeOK
  <2>5. answers' \subseteq Responses /\ LookedUpOK'
    BY <2>1 DEF ExchangeInv, ExchangeTypeOK, LookedUpOK
  <2>9. CallersOnly
    BY <2>1, <2>3, <2>4, <2>5 DEF CallersOnly
  <2> QED
    BY <2>9, CallersMove
<1>2. CASE SubscribeTimesOut(c) \/ NotSent(c) \/ Published(c)
  <2>1. /\ \/ step[c] \in {"subscribing", "pacing"} /\ step' = [step EXCEPT ![c] = "failed"]
           \/ step[c] = "publishing" /\ step' = [step EXCEPT ![c] = "waiting"]
        /\ UNCHANGED <<asked, all, pending, channel, answers, lookedUp, recorded>>
    BY <1>2 DEF SubscribeTimesOut, NotSent, Published
  <2>2. /\ step' \in [Callers -> Steps] /\ \A x \in Callers \ {c}: step'[x] = step[x]
        /\ \/ step[c] \in {"subscribing", "pacing"} /\ step'[c] = "failed"
           \/ step[c] = "publishing" /\ step'[c] = "waiting"
    BY <2>1, Zenon DEF ExchangeInv, ExchangeTypeOK, Steps
  <2>3. /\ asked' \in [Callers -> Seq(Asked)] /\ answers' \subseteq Responses
        /\ \A x \in Callers: step'[x] # "idle" => asked'[x] # <<>>
    BY <2>1, <2>2 DEF ExchangeInv, ExchangeTypeOK
  <2>4. LookedUpOK'
    BY <2>1 DEF ExchangeInv, ExchangeTypeOK, LookedUpOK
  <2>9. CallersOnly
    BY <2>1, <2>2, <2>3, <2>4 DEF CallersOnly
  <2> QED
    BY <2>9, CallersMove
<1> QED
  BY <1>1, <1>2

\* The attempt to subscribe ends for everyone who waits for it.
LEMMA SubscribeEndsKeeps ==
    ASSUME ExchangeInv, NEW ok \in BOOLEAN, SubscribeEnds(ok) PROVE ExchangeInv'
<1>1. /\ step' = [c \in Callers |-> IF step[c] # "subscribing" THEN step[c]
                                    ELSE IF ok THEN "pacing" ELSE "failed"]
      /\ UNCHANGED <<asked, all, pending, channel, wait, answers, lookedUp, recorded>>
  BY DEF SubscribeEnds
<1>2. step' \in [Callers -> Steps]
  BY <1>1 DEF ExchangeInv, ExchangeTypeOK, Steps
<1>3. \A c \in Callers: \/ step'[c] = step[c]
                        \/ step[c] = "subscribing" /\ step'[c] \in {"pacing", "failed"}
  BY <1>1
<1>4. /\ asked' \in [Callers -> Seq(Asked)] /\ answers' \subseteq Responses
      /\ \A x \in Callers: step'[x] # "idle" => asked'[x] # <<>>
  BY <1>1, <1>3 DEF ExchangeInv, ExchangeTypeOK
<1>5. LookedUpOK'
  BY <1>1 DEF ExchangeInv, ExchangeTypeOK, LookedUpOK
<1>9. CallersOnly
  BY <1>1, <1>2, <1>3, <1>4, <1>5 DEF CallersOnly
<1> QED
  BY <1>9, CallersMove

\* The runtime answers, and the callback looks a request up or drops an answer;
\* a wait passes its deadline or ends.
LEMMA SessionKeeps ==
    ASSUME ExchangeInv,
           \/ \E c \in Callers: DeadlinePasses(c) \/ WaitEnds(c)
           \/ \E c \in Callers, next \in Nexts: RuntimeAnswers(c, next)
           \/ \E r \in answers, q \in pending: LookUp(r, q)
           \/ Drop
    PROVE  ExchangeInv'
<1>t. /\ step \in [Callers -> Steps] /\ asked \in [Callers -> Seq(Asked)]
      /\ answers \subseteq Responses /\ pending \subseteq Identities
      /\ \A x \in Callers: step[x] # "idle" => asked[x] # <<>>
  BY DEF ExchangeInv, ExchangeTypeOK
<1>1. UNCHANGED <<step, asked, all, pending, channel, recorded>>
  BY DEF DeadlinePasses, WaitEnds, RuntimeAnswers, LookUp, Drop
<1>2. answers' \subseteq Responses
  <2>1. ASSUME NEW c \in Callers, NEW next \in Nexts, RuntimeAnswers(c, next)
        PROVE  answers' \subseteq Responses
    <3>1. asked[c] \in Seq(Asked) /\ asked[c] # <<>>
      BY <1>t, <2>1 DEF RuntimeAnswers
    <3>2. Len(asked[c]) \in Nat /\ asked[c][Len(asked[c])] \in Asked
      BY <3>1
    <3>3. Request(c) \in Identities
      BY <3>2 DEF Request, Identities
    <3>4. [to |-> Request(c), token |-> asked[c][Len(asked[c])], next |-> next] \in Responses
      BY <3>2, <3>3 DEF Responses
    <3> QED
      BY <1>t, <2>1, <3>4 DEF RuntimeAnswers
  <2> QED
    BY <1>t, <2>1 DEF DeadlinePasses, WaitEnds, LookUp, Drop
<1>3. LookedUpOK'
  <2>1. ASSUME NEW r \in answers, NEW q \in pending, LookUp(r, q)
        PROVE  LookedUpOK'
    <3>1. r \in Responses /\ q \in Identities /\ lookedUp' = <<r, q>> /\ r.to = q
      BY <1>t, <2>1 DEF LookUp, Correlates
    <3> QED
      BY <3>1 DEF LookedUpOK
  <2>2. CASE lookedUp' = lookedUp \/ lookedUp' = <<>>
    BY <2>2 DEF LookedUpOK, ExchangeInv, ExchangeTypeOK
  <2> QED
    BY <2>1, <2>2 DEF DeadlinePasses, WaitEnds, RuntimeAnswers, Drop
<1>9. CallersOnly
  BY <1>t, <1>1, <1>2, <1>3 DEF CallersOnly
<1> QED
  BY <1>9, CallersMove

\* A request is registered with an empty channel, and the one before is gone.
LEMMA RegisterKeeps == ASSUME ExchangeInv, NEW c \in Callers, Register(c) PROVE ExchangeInv'
<1>t. /\ step \in [Callers -> Steps] /\ asked \in [Callers -> Seq(Asked)]
      /\ channel \in [Callers -> Seq(Responses)]
      /\ pending \subseteq Identities /\ recorded \subseteq Identities
  BY DEF ExchangeInv, ExchangeTypeOK
<1>1. /\ step[c] = "pacing" /\ pending' = pending \cup {Request(c)}
      /\ step' = [step EXCEPT ![c] = "publishing"]
      /\ UNCHANGED <<asked, all, answers, lookedUp, recorded>>
  BY DEF Register
<1>2. channel[c] = <<>>
  BY <1>1 DEF ExchangeInv, ChannelIsCurrent, Bound
<1>3. channel' = channel
  BY <1>t, <1>2 DEF Register
<1>4. Request(c) \in Identities /\ Request(c)[1] = c
  BY <1>t DEF Request, Identities
<1>5. ExchangeTypeOK'
  <2>1. step' \in [Callers -> Steps] /\ pending' \subseteq Identities
    BY <1>t, <1>1, <1>4 DEF Steps
  <2>2. \A x \in Callers: step'[x] # "idle" => asked'[x] # <<>>
    BY <1>t, <1>1 DEF ExchangeInv, ExchangeTypeOK
  <2>3. LookedUpOK'
    BY <1>1 DEF ExchangeInv, ExchangeTypeOK, LookedUpOK
  <2> QED
    BY <1>1, <1>3, <2>1, <2>2, <2>3 DEF ExchangeInv, ExchangeTypeOK
<1>6. \A x \in Callers: /\ Request(x)' = Request(x)
                        /\ x # c => step'[x] = step[x]
                        /\ step'[c] = "publishing"
  BY <1>t, <1>1 DEF Request
<1>7. PendingIsCurrent'
  <2> SUFFICES ASSUME NEW q \in pending'
               PROVE  q = Request(q[1])' /\ step'[q[1]] \in {"publishing", "waiting", "answered"}
    BY DEF PendingIsCurrent
  <2>1. CASE q = Request(c)
    BY <1>4, <1>6, <2>1
  <2>2. CASE q \in pending
    <3>1. q[1] \in Callers /\ q = Request(q[1])
          /\ step[q[1]] \in {"publishing", "waiting", "answered"}
      BY <1>t, <2>2 DEF ExchangeInv, PendingIsCurrent, Identities
    <3> QED
      BY <1>1, <1>6, <3>1
  <2> QED
    BY <1>1, <2>1, <2>2
<1>8. ChannelIsCurrent' /\ AnsweredIsRecorded'
  BY <1>1, <1>2, <1>3, <1>6 DEF ExchangeInv, ChannelIsCurrent, AnsweredIsRecorded, Bound
<1>9. HandedOverIsTaken'
  <2> SUFFICES ASSUME NEW q \in recorded
               PROVE  Accepted(q)' \/ AwaitsReading(q)'
    BY <1>1 DEF HandedOverIsTaken, Accepted, AwaitsReading
  <2>1. q[1] \in Callers
    BY <1>t DEF Identities
  <2>2. CASE Accepted(q)
    BY <1>1, <2>2 DEF Accepted
  <2>3. CASE AwaitsReading(q)
    BY <1>1, <1>3, <1>6, <2>1, <2>3 DEF AwaitsReading
  <2> QED
    BY <2>2, <2>3, TakenOrAwaited DEF ExchangeInv
<1> QED
  BY <1>5, <1>7, <1>8, <1>9 DEF ExchangeInv

\* settle lets go of the request before it reads the channel.
LEMMA SettleKeeps == ASSUME ExchangeInv, NEW c \in Callers, Settle(c) PROVE ExchangeInv'
<1>t. /\ step \in [Callers -> Steps] /\ asked \in [Callers -> Seq(Asked)]
      /\ pending \subseteq Identities /\ recorded \subseteq Identities
  BY DEF ExchangeInv, ExchangeTypeOK
<1>1. /\ step[c] \in {"publishing", "waiting"} /\ pending' = pending \ {Request(c)}
      /\ step' = [step EXCEPT ![c] = "released"]
      /\ UNCHANGED <<asked, all, channel, answers, lookedUp, recorded>>
  BY DEF Settle, Remaining
<1>2. ExchangeTypeOK'
  <2>1. step' \in [Callers -> Steps] /\ pending' \subseteq Identities
    BY <1>t, <1>1 DEF Steps
  <2>2. \A x \in Callers: step'[x] # "idle" => asked'[x] # <<>>
    BY <1>t, <1>1 DEF ExchangeInv, ExchangeTypeOK
  <2>3. LookedUpOK'
    BY <1>1 DEF ExchangeInv, ExchangeTypeOK, LookedUpOK
  <2> QED
    BY <1>1, <2>1, <2>2, <2>3 DEF ExchangeInv, ExchangeTypeOK
<1>3. \A x \in Callers: /\ Request(x)' = Request(x)
                        /\ x # c => step'[x] = step[x]
                        /\ step'[c] = "released"
  BY <1>t, <1>1 DEF Request
<1>4. PendingIsCurrent'
  <2> SUFFICES ASSUME NEW q \in pending'
               PROVE  q = Request(q[1])' /\ step'[q[1]] \in {"publishing", "waiting", "answered"}
    BY DEF PendingIsCurrent
  <2>1. q[1] \in Callers /\ q = Request(q[1]) /\ q # Request(c)
        /\ step[q[1]] \in {"publishing", "waiting", "answered"}
    BY <1>t, <1>1 DEF ExchangeInv, PendingIsCurrent, Identities
  <2> QED
    BY <1>3, <2>1
<1>5. ChannelIsCurrent' /\ AnsweredIsRecorded'
  BY <1>1, <1>3 DEF ExchangeInv, ChannelIsCurrent, AnsweredIsRecorded, Bound
<1>6. HandedOverIsTaken'
  <2> SUFFICES ASSUME NEW q \in recorded
               PROVE  Accepted(q)' \/ AwaitsReading(q)'
    BY <1>1 DEF HandedOverIsTaken, Accepted, AwaitsReading
  <2>1. q[1] \in Callers
    BY <1>t DEF Identities
  <2>2. CASE Accepted(q)
    BY <1>1, <2>2 DEF Accepted
  <2>3. CASE AwaitsReading(q)
    BY <1>1, <1>3, <2>1, <2>3 DEF AwaitsReading
  <2> QED
    BY <2>2, <2>3, TakenOrAwaited DEF ExchangeInv
<1> QED
  BY <1>2, <1>4, <1>5, <1>6 DEF ExchangeInv

\* A sequence and one element more.
LEMMA OneMore ==
    ASSUME NEW S, NEW s \in Seq(S), NEW t \in Seq(S), Len(t) = 1
    PROVE  /\ Len(s \o t) = Len(s) + 1 /\ (s \o t)[Len(s) + 1] = t[1]
           /\ \A i \in 1 .. Len(s): (s \o t)[i] = s[i]
<1>a. Len(s) \in Nat
  BY LenProperties, Zenon
<1>b. Len(s \o t) = Len(s) + Len(t)
  BY ConcatProperties, Zenon
<1>1. Len(s) \in Nat /\ Len(s \o t) = Len(s) + 1
  BY <1>a, <1>b
<1>2. \A i \in 1 .. Len(s) + 1: (s \o t)[i] = IF i <= Len(s) THEN s[i] ELSE t[i - Len(s)]
  BY ConcatProperties
<1>3. (s \o t)[Len(s) + 1] = t[Len(s) + 1 - Len(s)]
  BY <1>1, <1>2
<1>4. Len(s) + 1 - Len(s) = 1
  BY <1>1
<1>5. \A i \in 1 .. Len(s): (s \o t)[i] = s[i]
  BY <1>1, <1>2
<1> QED
  BY <1>1, <1>3, <1>4, <1>5

\* A caller reads what its channel holds, by the select or by settle.
LEMMA ReadKeeps ==
    ASSUME ExchangeInv, NEW c \in Callers, channel[c] # <<>>, Take(c) \/ TakeSettled(c)
    PROVE  ExchangeInv'
<1>t. /\ step \in [Callers -> Steps] /\ asked \in [Callers -> Seq(Asked)]
      /\ channel \in [Callers -> Seq(Responses)] /\ all \in [Callers -> Seq(Responses)]
      /\ pending \subseteq Identities /\ recorded \subseteq Identities
  BY DEF ExchangeInv, ExchangeTypeOK
<1>1. /\ step[c] \in {"waiting", "released"} /\ step' = [step EXCEPT ![c] = "answered"]
      /\ all' = [all EXCEPT ![c] = all[c] \o channel[c]]
      /\ channel' = [channel EXCEPT ![c] = <<>>]
      /\ UNCHANGED <<asked, pending, answers, lookedUp, recorded>>
  BY Zenon DEF Take, TakeSettled
<1>2. /\ Len(channel[c]) = 1 /\ channel[c][1].to = Request(c) /\ Request(c) \in recorded
  BY DEF ExchangeInv, ChannelIsCurrent
<1>3. \A x \in Callers: /\ Request(x)' = Request(x)
                        /\ x # c => /\ step'[x] = step[x] /\ all'[x] = all[x]
                                    /\ channel'[x] = channel[x]
                        /\ step'[c] = "answered" /\ channel'[c] = <<>>
                        /\ all'[c] = all[c] \o channel[c]
  BY <1>t, <1>1 DEF Request
<1>4. ExchangeTypeOK'
  <2>1. step' \in [Callers -> Steps] /\ all' \in [Callers -> Seq(Responses)]
        /\ channel' \in [Callers -> Seq(Responses)]
    BY <1>t, <1>1 DEF Steps
  <2>2. \A x \in Callers: step'[x] # "idle" => asked'[x] # <<>>
    BY <1>t, <1>1, <1>3 DEF ExchangeInv, ExchangeTypeOK
  <2>3. LookedUpOK'
    BY <1>1 DEF ExchangeInv, ExchangeTypeOK, LookedUpOK
  <2> QED
    BY <1>1, <2>1, <2>2, <2>3 DEF ExchangeInv, ExchangeTypeOK
<1>5. PendingIsCurrent'
  <2> SUFFICES ASSUME NEW q \in pending
               PROVE  q = Request(q[1])' /\ step'[q[1]] \in {"publishing", "waiting", "answered"}
    BY <1>1 DEF PendingIsCurrent
  <2>1. q[1] \in Callers /\ q = Request(q[1])
        /\ step[q[1]] \in {"publishing", "waiting", "answered"}
    BY <1>t DEF ExchangeInv, PendingIsCurrent, Identities
  <2> QED
    BY <1>3, <2>1, Zenon
<1>6. ChannelIsCurrent' /\ AnsweredIsRecorded'
  <2>1. recorded' = recorded
    BY <1>1
  <2>2. ChannelIsCurrent'
    <3> SUFFICES ASSUME NEW x \in Callers, channel'[x] # <<>>
                 PROVE  /\ step'[x] \in Bound /\ Len(channel'[x]) = 1
                        /\ channel'[x][1].to = Request(x)' /\ Request(x)' \in recorded'
      BY DEF ChannelIsCurrent
    <3>1. /\ step'[x] = step[x] /\ channel'[x] = channel[x] /\ Request(x)' = Request(x)
      BY <1>3, Zenon
    <3> QED
      BY <2>1, <3>1 DEF ExchangeInv, ChannelIsCurrent
  <2>3. AnsweredIsRecorded'
    <3> SUFFICES ASSUME NEW x \in Callers, step'[x] = "answered" PROVE Request(x)' \in recorded'
      BY DEF AnsweredIsRecorded
    <3>1. Request(x)' = Request(x) /\ (x # c => step'[x] = step[x])
      BY <1>3, Zenon
    <3> QED
      BY <1>2, <2>1, <3>1 DEF ExchangeInv, AnsweredIsRecorded
  <2> QED
    BY <2>2, <2>3
<1>7. HandedOverIsTaken'
  <2> SUFFICES ASSUME NEW q \in recorded
               PROVE  Accepted(q)' \/ AwaitsReading(q)'
    BY <1>1, Zenon DEF HandedOverIsTaken, Accepted, AwaitsReading
  <2>1. q[1] \in Callers
    BY <1>t DEF Identities
  <2>c. /\ all[c] \in Seq(Responses) /\ channel[c] \in Seq(Responses) /\ Len(all[c]) \in Nat
        /\ Len(all'[c]) = Len(all[c]) + 1
        /\ all'[c][Len(all[c]) + 1] = channel[c][1]
        /\ \A i \in 1 .. Len(all[c]): all'[c][i] = all[c][i]
    <3>1. all[c] \in Seq(Responses) /\ channel[c] \in Seq(Responses)
      BY <1>t
    <3>2. all'[c] = all[c] \o channel[c]
      BY <1>3, Zenon
    <3>3. Len(all[c]) \in Nat
      BY <3>1, LenProperties
    <3>4. /\ Len(all[c] \o channel[c]) = Len(all[c]) + 1
          /\ (all[c] \o channel[c])[Len(all[c]) + 1] = channel[c][1]
          /\ \A i \in 1 .. Len(all[c]): (all[c] \o channel[c])[i] = all[c][i]
      BY <1>2, <3>1, OneMore, Zenon
    <3> QED
      BY <3>1, <3>2, <3>3, <3>4, Zenon
  <2>2. CASE q[1] # c
    <3>1. /\ step'[q[1]] = step[q[1]] /\ all'[q[1]] = all[q[1]]
          /\ channel'[q[1]] = channel[q[1]] /\ Request(q[1])' = Request(q[1])
      BY <1>3, <2>1, <2>2, Zenon
    <3> QED
      BY <3>1, TakenOrAwaited DEF ExchangeInv, Accepted, AwaitsReading
  <2>3. CASE q[1] = c /\ Accepted(q)
    <3>1. PICK i \in 1 .. Len(all[c]): all[c][i].to = q
      BY <2>3 DEF Accepted
    <3>2. i \in 1 .. Len(all'[c]) /\ all'[c][i].to = q
      BY <2>c, <3>1
    <3> QED
      BY <2>3, <3>2 DEF Accepted
  <2>4. CASE q[1] = c /\ AwaitsReading(q)
    <3>1. Len(all[c]) + 1 \in 1 .. Len(all'[c]) /\ all'[c][Len(all[c]) + 1].to = q
      BY <1>2, <2>c, <2>4 DEF AwaitsReading
    <3> QED
      BY <2>4, <3>1 DEF Accepted
  <2> QED
    BY <2>2, <2>3, <2>4, TakenOrAwaited DEF ExchangeInv
<1> QED
  BY <1>4, <1>5, <1>6, <1>7 DEF ExchangeInv

\* settle finds nothing: no answer of the request is recorded.
LEMMA SettledEmptyKeeps ==
    ASSUME ExchangeInv, NEW c \in Callers, channel[c] = <<>>, TakeSettled(c) PROVE ExchangeInv'
<1>t. /\ step \in [Callers -> Steps] /\ pending \subseteq Identities /\ recorded \subseteq Identities
  BY DEF ExchangeInv, ExchangeTypeOK
<1>1. /\ step[c] = "released" /\ step' = [step EXCEPT ![c] = "failed"]
      /\ UNCHANGED <<asked, all, channel, pending, answers, lookedUp, recorded>>
  BY DEF TakeSettled
<1>2. \A x \in Callers: /\ Request(x)' = Request(x)
                        /\ x # c => step'[x] = step[x]
                        /\ step'[c] = "failed"
  BY <1>t, <1>1 DEF Request
<1>3. ExchangeTypeOK'
  <2>1. step' \in [Callers -> Steps] /\ \A x \in Callers: step'[x] # "idle" => asked'[x] # <<>>
    BY <1>t, <1>1, <1>2 DEF ExchangeInv, ExchangeTypeOK, Steps
  <2>2. LookedUpOK'
    BY <1>1 DEF ExchangeInv, ExchangeTypeOK, LookedUpOK
  <2> QED
    BY <1>1, <2>1, <2>2 DEF ExchangeInv, ExchangeTypeOK
<1>4. PendingIsCurrent'
  <2> SUFFICES ASSUME NEW q \in pending
               PROVE  q = Request(q[1])' /\ step'[q[1]] \in {"publishing", "waiting", "answered"}
    BY <1>1 DEF PendingIsCurrent
  <2>1. q[1] \in Callers /\ q = Request(q[1])
        /\ step[q[1]] \in {"publishing", "waiting", "answered"}
    BY <1>t DEF ExchangeInv, PendingIsCurrent, Identities
  <2> QED
    BY <1>1, <1>2, <2>1
<1>5. ChannelIsCurrent' /\ AnsweredIsRecorded'
  BY <1>1, <1>2 DEF ExchangeInv, ChannelIsCurrent, AnsweredIsRecorded, Bound
<1>6. HandedOverIsTaken'
  <2> SUFFICES ASSUME NEW q \in recorded
               PROVE  Accepted(q)' \/ AwaitsReading(q)'
    BY <1>1 DEF HandedOverIsTaken, Accepted, AwaitsReading
  <2>1. q[1] \in Callers
    BY <1>t DEF Identities
  <2> QED
    BY <1>1, <1>2, <2>1, TakenOrAwaited DEF ExchangeInv, Accepted, AwaitsReading
<1> QED
  BY <1>3, <1>4, <1>5, <1>6 DEF ExchangeInv

\* The request returns and exportAll asks for the next page, or ends.
LEMMA AcceptKeeps == ASSUME ExchangeInv, NEW c \in Callers, Accept(c) PROVE ExchangeInv'
<1>t. /\ step \in [Callers -> Steps] /\ asked \in [Callers -> Seq(Asked)]
      /\ pending \subseteq Identities /\ recorded \subseteq Identities
  BY DEF ExchangeInv, ExchangeTypeOK
<1>1. /\ step[c] = "answered" /\ pending' = pending \ {Request(c)}
      /\ step' = [step EXCEPT ![c] = After(c)]
      /\ UNCHANGED <<all, channel, answers, lookedUp, recorded>>
  BY DEF Accept
<1>2. After(c) \in {"whole", "pacing", "failed"}
  BY DEF After
<1>3. /\ asked' \in [Callers -> Seq(Asked)] /\ asked'[c] # <<>>
      /\ \A x \in Callers \ {c}: asked'[x] = asked[x]
  <2>1. CASE After(c) = "pacing"
    <3> DEFINE next == all[c][Len(all[c])].next
    <3>1. next \in Asked
      BY <2>1 DEF After, Asked
    <3>2. asked' = [asked EXCEPT ![c] = Append(asked[c], next)]
      BY <2>1 DEF Accept
    <3> HIDE DEF next
    <3>3. Append(asked[c], next) \in Seq(Asked) /\ Append(asked[c], next) # <<>>
      BY <1>t, <3>1, AppendProperties
    <3> QED
      BY <1>t, <3>2, <3>3
  <2>2. CASE After(c) # "pacing"
    BY <1>t, <1>1, <2>2 DEF Accept, ExchangeInv, ExchangeTypeOK
  <2> QED
    BY <2>1, <2>2
<1>4. \A x \in Callers: /\ x # c => step'[x] = step[x] /\ Request(x)' = Request(x)
                        /\ step'[c] \in {"whole", "pacing", "failed"}
  BY <1>t, <1>1, <1>2, <1>3 DEF Request
<1>5. ExchangeTypeOK'
  <2>1. step' \in [Callers -> Steps] /\ pending' \subseteq Identities
    BY <1>t, <1>1, <1>2 DEF Steps
  <2>2. \A x \in Callers: step'[x] # "idle" => asked'[x] # <<>>
    BY <1>3, <1>4, Zenon DEF ExchangeInv, ExchangeTypeOK
  <2>3. LookedUpOK'
    BY <1>1 DEF ExchangeInv, ExchangeTypeOK, LookedUpOK
  <2> QED
    BY <1>1, <1>3, <2>1, <2>2, <2>3 DEF ExchangeInv, ExchangeTypeOK
<1>6. PendingIsCurrent'
  <2> SUFFICES ASSUME NEW q \in pending'
               PROVE  q = Request(q[1])' /\ step'[q[1]] \in {"publishing", "waiting", "answered"}
    BY DEF PendingIsCurrent
  <2>1. q[1] \in Callers /\ q = Request(q[1]) /\ q # Request(c)
        /\ step[q[1]] \in {"publishing", "waiting", "answered"}
    BY <1>t, <1>1 DEF ExchangeInv, PendingIsCurrent, Identities
  <2> QED
    BY <1>4, <2>1
<1>7. channel[c] = <<>>
  BY <1>1 DEF ExchangeInv, ChannelIsCurrent, Bound
<1>8. ChannelIsCurrent' /\ AnsweredIsRecorded'
  BY <1>1, <1>4, <1>7 DEF ExchangeInv, ChannelIsCurrent, AnsweredIsRecorded, Bound
<1>9. HandedOverIsTaken'
  <2> SUFFICES ASSUME NEW q \in recorded
               PROVE  Accepted(q)' \/ AwaitsReading(q)'
    BY <1>1 DEF HandedOverIsTaken, Accepted, AwaitsReading
  <2>1. q[1] \in Callers
    BY <1>t DEF Identities
  <2>2. CASE Accepted(q)
    BY <1>1, <2>2 DEF Accepted
  <2>3. CASE AwaitsReading(q)
    BY <1>1, <1>4, <1>7, <2>1, <2>3 DEF AwaitsReading
  <2> QED
    BY <2>2, <2>3, TakenOrAwaited DEF ExchangeInv
<1> QED
  BY <1>5, <1>6, <1>8, <1>9 DEF ExchangeInv

\* A response is recorded as its request, still pending and not yet answered,
\* has it in its channel.
LEMMA HandOverKeeps == ASSUME ExchangeInv, HandOver PROVE ExchangeInv'
<1>t. /\ step \in [Callers -> Steps] /\ channel \in [Callers -> Seq(Responses)]
      /\ pending \subseteq Identities /\ recorded \subseteq Identities /\ LookedUpOK
  BY DEF ExchangeInv, ExchangeTypeOK
<1>1. PICK r \in Responses, q \in Identities: lookedUp = <<r, q>> /\ r.to = q
  BY <1>t DEF HandOver, LookedUpOK
<1>2. lookedUp' = <<>> /\ UNCHANGED <<step, asked, all, pending, answers>>
  BY DEF HandOver
<1>3. CASE UNCHANGED <<channel, recorded>>
  <2>1. CallersOnly
    BY <1>t, <1>2, <1>3 DEF CallersOnly, ExchangeInv, ExchangeTypeOK, LookedUpOK
  <2> QED
    BY <2>1, CallersMove
<1>4. CASE q \notin recorded /\ Delivers(q) /\ recorded' = recorded \cup {q}
           /\ channel' = [channel EXCEPT ![q[1]] = <<r>>]
  <2> DEFINE c == q[1]
  <2>1. /\ c \in Callers /\ q = Request(c) /\ channel[c] = <<>>
        /\ step[c] \in {"publishing", "waiting", "answered"}
    BY <1>t, <1>4 DEF Delivers, ExchangeInv, PendingIsCurrent, Identities
  <2>2. step[c] # "answered"
    BY <1>4, <2>1 DEF ExchangeInv, AnsweredIsRecorded
  <2>3. /\ channel' \in [Callers -> Seq(Responses)] /\ channel'[c] = <<r>>
        /\ \A x \in Callers \ {c}: channel'[x] = channel[x]
    BY <1>t, <1>4, <2>1
  <2>4. \A x: Request(x)' = Request(x)
    BY <1>2 DEF Request
  <2>5. ExchangeTypeOK'
    <3>1. LookedUpOK'
      BY <1>2 DEF LookedUpOK
    <3>2. recorded' \subseteq Identities
      BY <1>t, <1>4
    <3> QED
      BY <1>2, <2>3, <3>1, <3>2 DEF ExchangeInv, ExchangeTypeOK
  <2>6. PendingIsCurrent' /\ AnsweredIsRecorded'
    BY <1>2, <1>4, <2>4 DEF ExchangeInv, PendingIsCurrent, AnsweredIsRecorded
  <2>7. ChannelIsCurrent'
    <3> SUFFICES ASSUME NEW x \in Callers, channel'[x] # <<>>
                 PROVE  /\ step[x] \in Bound /\ Len(channel'[x]) = 1
                        /\ channel'[x][1].to = Request(x) /\ Request(x) \in recorded'
      BY <1>2, <2>4 DEF ChannelIsCurrent
    <3>1. CASE x = c
      BY <1>1, <1>4, <2>1, <2>2, <2>3, <3>1 DEF Bound
    <3>2. CASE x # c
      BY <1>4, <2>3, <3>2 DEF ExchangeInv, ChannelIsCurrent
    <3> QED
      BY <3>1, <3>2
  <2>8. HandedOverIsTaken'
    <3> SUFFICES ASSUME NEW p \in recorded'
                 PROVE  Accepted(p)' \/ AwaitsReading(p)'
      BY DEF HandedOverIsTaken, Accepted, AwaitsReading
    <3>1. CASE p = q
      <4>1. channel'[q[1]] # <<>>
        BY <2>3
      <4>2. Request(q[1])' = q
        BY <2>1, <2>4
      <4>3. step'[q[1]] \in {"publishing", "waiting", "released"}
        BY <1>2, <2>1, <2>2
      <4> QED
        BY <3>1, <4>1, <4>2, <4>3 DEF AwaitsReading
    <3>2. CASE p \in recorded
      <4>1. p[1] \in Callers
        BY <1>t, <3>2 DEF Identities
      <4>2. CASE Accepted(p)
        BY <1>2, <4>2 DEF Accepted
      <4>3. CASE AwaitsReading(p)
        BY <1>2, <2>1, <2>3, <2>4, <4>1, <4>3 DEF AwaitsReading
      <4> QED
        BY <3>2, <4>2, <4>3, TakenOrAwaited DEF ExchangeInv
    <3> QED
      BY <1>4, <3>1, <3>2
  <2> QED
    BY <2>5, <2>6, <2>7, <2>8 DEF ExchangeInv
<1> QED
  BY <1>1, <1>3, <1>4 DEF HandOver

LEMMA ExchangeKeeps == ExchangeInv /\ [ExchangeNext]_exchangeVars => ExchangeInv'
<1> SUFFICES ASSUME ExchangeInv, [ExchangeNext]_exchangeVars PROVE ExchangeInv'
  OBVIOUS
<1>1. ASSUME NEW c \in Callers, TakeSettled(c) PROVE ExchangeInv'
  BY <1>1, ReadKeeps, SettledEmptyKeeps
<1>2. ASSUME NEW c \in Callers, Take(c) PROVE ExchangeInv'
  BY <1>2, ReadKeeps, Zenon DEF Take
<1>3. CASE UNCHANGED exchangeVars
  <2>1. UNCHANGED <<step, asked, all, pending, channel, answers, lookedUp, recorded>>
    BY <1>3 DEF exchangeVars
  <2>2. CallersOnly
    BY <2>1 DEF CallersOnly, ExchangeInv, ExchangeTypeOK, LookedUpOK
  <2> QED
    BY <2>2, CallersMove
<1>4. CASE ExchangeNext
  BY <1>1, <1>2, <1>4, SubscriptionKeeps, SubscribeEndsKeeps, SessionKeeps, RegisterKeeps,
     SettleKeeps, AcceptKeeps, HandOverKeeps DEF ExchangeNext
<1> QED
  BY <1>3, <1>4

\* A response whose replay key is recorded is taken by the request it answers,
\* or is in the channel of a caller bound to read it: deliver and settle never
\* lose it between them.
THEOREM RecordedIsTaken == ExchangeSpec => []HandedOverIsTaken
<1>1. ExchangeInv => HandedOverIsTaken
  BY DEF ExchangeInv
<1> QED
  BY <1>1, ExchangeStarts, ExchangeKeeps, PTL DEF ExchangeSpec

-----------------------------------------------------------------------------
(* That what exportAll returns is one export, whole.                        *)

\* r answers a request that was made, for the token that request asked for.
Genuine(r) ==
    /\ r.to[2] \in 1 .. Len(asked[r.to[1]])
    /\ r.token = asked[r.to[1]][r.to[2]]

GenuineInv ==
    /\ \A r \in answers: Genuine(r)
    /\ lookedUp # <<>> => Genuine(lookedUp[1])
    /\ \A c \in Callers: channel[c] # <<>> => Genuine(channel[c][1])

InFlight == {"subscribing", "pacing", "publishing", "waiting", "released"}

\* The n pages accepted are the answers to the m tokens asked for, in order, and
\* each token but the first is the one the page before it named.
Linked(ask, m, page, n) ==
    /\ n <= m /\ m <= n + 1 /\ m <= MaxExportPages
    /\ \A i \in 1 .. n: page[i].token = ask[i]
    /\ \A i \in 2 .. m: ask[i] = page[i - 1].next
    /\ \A i, j \in 1 .. m: ask[i] = ask[j] => i = j
    /\ m # 0 => ask[1] = First

\* A request in flight is for one page more.
Counted(s, m, n) ==
    /\ s = "idle" => m = 0
    /\ s \in InFlight => m = n + 1
    /\ s \in {"answered", "whole"} => m = n

Chain(c) ==
    /\ Linked(asked[c], Len(asked[c]), all[c], Len(all[c]))
    /\ Counted(step[c], Len(asked[c]), Len(all[c]))
    /\ step[c] = "whole" => all[c][Len(all[c])].next = "complete"

WholeInv == ExchangeInv /\ GenuineInv /\ \A c \in Callers: Chain(c)

\* What a caller has asked for stays asked for.
Grows ==
    /\ asked' \in [Callers -> Seq(Asked)]
    /\ \A c \in Callers: /\ Len(asked[c]) <= Len(asked'[c])
                         /\ \A i \in 1 .. Len(asked[c]): asked'[c][i] = asked[c][i]

LEMMA GenuineStays ==
    ASSUME ExchangeInv, Grows, NEW r \in Responses, Genuine(r)
    PROVE  Genuine(r)'
<1>1. r.to[1] \in Callers
  BY DEF Responses, Identities
<1>2. Len(asked[r.to[1]]) \in Nat /\ Len(asked'[r.to[1]]) \in Nat
  BY <1>1, LenProperties, Zenon DEF Grows, ExchangeInv, ExchangeTypeOK
<1> QED
  BY <1>1, <1>2 DEF Genuine, Grows

\* An answer stays genuine wherever it goes.
LEMMA GenuineKeeps ==
    ASSUME ExchangeInv, GenuineInv, Grows, \A r \in answers': r \in answers \/ Genuine(r)',
           lookedUp' = <<>> \/ lookedUp' = lookedUp \/ lookedUp'[1] \in answers,
           \A c \in Callers: \/ channel'[c] = <<>> \/ channel'[c] = channel[c]
                             \/ lookedUp # <<>> /\ channel'[c][1] = lookedUp[1]
    PROVE  GenuineInv'
<1>t. answers \subseteq Responses /\ channel \in [Callers -> Seq(Responses)] /\ LookedUpOK
  BY DEF ExchangeInv, ExchangeTypeOK
<1>1. \A r \in answers': Genuine(r)'
  BY <1>t, GenuineStays DEF GenuineInv
<1>l. lookedUp # <<>> => lookedUp[1] \in Responses /\ Genuine(lookedUp[1])
  BY <1>t DEF LookedUpOK, GenuineInv
<1>2. ASSUME NEW r \in Responses, Genuine(r) PROVE Genuine(r)'
  BY <1>2, GenuineStays
<1>3. lookedUp' # <<>> => Genuine(lookedUp[1])'
  <2> SUFFICES ASSUME lookedUp' # <<>> PROVE Genuine(lookedUp[1])'
    OBVIOUS
  <2>1. PICK r \in Responses : Genuine(r) /\ r = lookedUp'[1]
    BY <1>t, <1>l DEF GenuineInv
  <2> QED
    BY <1>2, <2>1 DEF Genuine
<1>4. ASSUME NEW c \in Callers, channel'[c] # <<>> PROVE Genuine(channel[c][1])'
  <2>1. channel[c] # <<>> => channel[c][1] \in Responses /\ Genuine(channel[c][1])
    BY <1>t DEF GenuineInv
  <2>2. PICK r \in Responses : Genuine(r) /\ r = channel'[c][1]
    BY <1>4, <1>l, <2>1
  <2> QED
    BY <1>2, <2>2, Zenon DEF Genuine
<1> QED
  BY <1>1, <1>3, <1>4 DEF GenuineInv

\* How the chain of pages starts and grows.
LEMMA LinkedStarts == \A ask, page: ask[1] = First => Linked(ask, 1, page, 0)
BY ExportAssumption DEF Linked

LEMMA LinkedReads ==
    ASSUME NEW ask, NEW page, NEW more, NEW n \in Nat, Linked(ask, n + 1, page, n),
           more[n + 1].token = ask[n + 1], \A i \in 1 .. n: more[i] = page[i]
    PROVE  Linked(ask, n + 1, more, n + 1)
<1>1. \A i \in 1 .. n + 1: i \in 1 .. n \/ i = n + 1
  OBVIOUS
<1>2. \A i \in 1 .. n + 1: more[i].token = ask[i]
  BY <1>1 DEF Linked
<1>3. \A i \in 2 .. n + 1: i - 1 \in 1 .. n
  OBVIOUS
<1>4. \A i \in 2 .. n + 1: ask[i] = more[i - 1].next
  BY <1>3 DEF Linked
<1> QED
  BY <1>2, <1>4 DEF Linked

LEMMA LinkedAsks ==
    ASSUME NEW ask, NEW more, NEW page, NEW n \in Nat \ {0}, Linked(ask, n, page, n), n < MaxExportPages,
           more[n + 1] = page[n].next, \A i \in 1 .. n: more[i] = ask[i] /\ ask[i] # more[n + 1]
    PROVE  Linked(more, n + 1, page, n)
<1>1. /\ \A i \in 1 .. n + 1: i \in 1 .. n \/ i = n + 1
      /\ \A i \in 2 .. n + 1: i \in 2 .. n \/ i = n + 1
  OBVIOUS
<1>2. \A i, j \in 1 .. n + 1: more[i] = more[j] => i = j
  BY <1>1 DEF Linked
<1>3. \A i \in 2 .. n: more[i] = page[i - 1].next
  BY DEF Linked
<1>4. \A i \in 2 .. n + 1: more[i] = page[i - 1].next
  BY <1>1, <1>3
<1>5. (\A i \in 1 .. n: page[i].token = more[i]) /\ more[1] = First
  BY DEF Linked
<1> QED
  BY <1>2, <1>4, <1>5, ExportAssumption DEF Linked

\* What a complete chain says of its pages alone.
LEMMA LinkedWhole ==
    ASSUME NEW ask, NEW page, NEW n \in Nat \ {0}, Linked(ask, n, page, n)
    PROVE  /\ n <= MaxExportPages /\ page[1].token = First
           /\ \A i \in 2 .. n: page[i].token = page[i - 1].next
           /\ \A i, j \in 1 .. n: page[i].token = page[j].token => i = j
<1>1. \A i \in 1 .. n: page[i].token = ask[i]
  BY DEF Linked
<1>2. \A i \in 2 .. n: i \in 1 .. n
  OBVIOUS
<1> QED
  BY <1>1, <1>2 DEF Linked

\* A caller whose request goes on, or that gives up.
LEMMA ChainGoesOn ==
    ASSUME NEW c \in Callers, Chain(c), asked'[c] = asked[c], all'[c] = all[c],
           step'[c] = step[c] \/ step'[c] = "failed" \/ (step[c] \in InFlight /\ step'[c] \in InFlight)
    PROVE  Chain(c)'
<1>1. Counted(step'[c], Len(asked[c]), Len(all[c])) /\ (step'[c] = "whole" => step[c] = "whole")
  BY DEF Chain, Counted, InFlight
<1>2. Linked(asked'[c], Len(asked'[c]), all'[c], Len(all'[c])) /\ Counted(step'[c], Len(asked'[c]), Len(all'[c]))
  BY <1>1, Zenon DEF Chain
<1> QED
  BY <1>1, <1>2 DEF Chain

\* The first page is asked for.
LEMMA ChainStarts ==
    ASSUME ExchangeInv, NEW c \in Callers, Chain(c), step[c] = "idle", asked'[c] = <<First>>,
           all'[c] = all[c], step'[c] \in {"pacing", "subscribing"}
    PROVE  Chain(c)'
<1>t. Len(asked[c]) \in Nat /\ Len(all[c]) \in Nat
  BY LenProperties DEF ExchangeInv, ExchangeTypeOK
<1>1. Len(all[c]) = 0
  BY <1>t DEF Chain, Linked, Counted
<1>2. Len(asked'[c]) = 1 /\ asked'[c][1] = First
  OBVIOUS
<1>3. Linked(asked'[c], 1, all'[c], 0)
  BY <1>2, LinkedStarts
<1>4. Counted(step'[c], 1, 0) /\ step'[c] # "whole"
  BY DEF Counted, InFlight
<1> QED
  BY <1>1, <1>2, <1>3, <1>4, Zenon DEF Chain

\* The answer to the request in flight is appended.
LEMMA ChainReads ==
    ASSUME ExchangeInv, GenuineInv, NEW c \in Callers, Chain(c), step[c] \in InFlight, channel[c] # <<>>,
           asked'[c] = asked[c], step'[c] = "answered", Len(all'[c]) = Len(all[c]) + 1,
           all'[c][Len(all[c]) + 1] = channel[c][1], \A i \in 1 .. Len(all[c]): all'[c][i] = all[c][i]
    PROVE  Chain(c)'
<1>t. Len(asked[c]) \in Nat /\ Len(all[c]) \in Nat
  BY LenProperties DEF ExchangeInv, ExchangeTypeOK
<1>1. channel[c][1].to = <<c, Len(asked[c])>>
  BY Zenon DEF ExchangeInv, ChannelIsCurrent, Request
<1>2. channel[c][1].token = asked[c][Len(asked[c])]
  <2>1. Genuine(channel[c][1])
    BY DEF GenuineInv
  <2> QED
    BY <1>1, <2>1 DEF Genuine
<1> DEFINE n == Len(all[c])
<1>3. Len(asked[c]) = n + 1 /\ Linked(asked[c], n + 1, all[c], n)
  BY DEF Chain, Counted
<1>4. all'[c][n + 1].token = asked[c][n + 1] /\ \A i \in 1 .. n: all'[c][i] = all[c][i]
  BY <1>2, <1>3
<1>5. Linked(asked[c], n + 1, all'[c], n + 1)
  <2> HIDE DEF n
  <2>1. n \in Nat
    BY <1>t DEF n
  <2> QED
    BY <1>3, <1>4, <2>1, LinkedReads, Zenon
<1>6. Counted("answered", n + 1, n + 1)
  BY DEF Counted, InFlight
<1>7. Len(asked'[c]) = n + 1 /\ Len(all'[c]) = n + 1 /\ step'[c] # "whole"
  BY <1>3
<1> HIDE DEF n
<1> QED
  BY <1>5, <1>6, <1>7, Zenon DEF Chain

\* exportAll asks for the page its last answer names, which it never asked for.
LEMMA ChainAccepts ==
    ASSUME ExchangeInv, NEW c \in Callers, Chain(c), Accept(c)
    PROVE  Chain(c)' /\ Grows
<1>a. asked \in [Callers -> Seq(Asked)] /\ step \in [Callers -> Steps]
  BY DEF ExchangeInv, ExchangeTypeOK
<1>l. \A x \in Callers: Len(asked[x]) \in Nat
  BY <1>a, LenProperties
<1>1. step[c] = "answered" /\ step'[c] = After(c) /\ all' = all
  BY <1>a DEF Accept
<1> DEFINE n == Len(asked[c])
           next == all[c][Len(all[c])].next
<1>2. Len(all[c]) = n /\ Linked(asked[c], n, all[c], n)
  BY <1>1 DEF Chain, Counted
<1>3. n \in Nat \ {0}
  <2>1. asked[c] # <<>> /\ asked[c] \in Seq(Asked)
    BY <1>a, <1>1 DEF ExchangeInv, ExchangeTypeOK
  <2> QED
    BY <2>1
<1>4. CASE After(c) = "pacing"
  <2>1. next \in Tokens /\ (\A i \in 1 .. n: asked[c][i] # next) /\ n < MaxExportPages
    BY <1>4 DEF After
  <2>2. asked' = [asked EXCEPT ![c] = Append(asked[c], next)]
    BY <1>4 DEF Accept
  <2>s. next = all[c][n].next
    BY <1>2
  <2> HIDE DEF next
  <2>3. /\ Append(asked[c], next) \in Seq(Asked) /\ Len(Append(asked[c], next)) = n + 1
        /\ \A i \in 1 .. n: Append(asked[c], next)[i] = asked[c][i]
        /\ Append(asked[c], next)[n + 1] = next
    <3>1. next \in Asked
      BY <2>1 DEF Asked
    <3> QED
      BY <1>a, <3>1, AppendProperties
  <2>4. asked'[c] = Append(asked[c], next) /\ \A x \in Callers \ {c}: asked'[x] = asked[x]
    BY <1>a, <2>2
  <2>5. Grows
    BY <1>a, <1>l, <2>2, <2>3, <2>4 DEF Grows
  <2> HIDE DEF n
  <2>6. /\ asked'[c][n + 1] = all[c][n].next
        /\ \A i \in 1 .. n: asked'[c][i] = asked[c][i] /\ asked[c][i] # asked'[c][n + 1]
    BY <2>1, <2>3, <2>4, <2>s, Zenon
  <2>7. Linked(asked'[c], n + 1, all[c], n)
    BY <1>2, <1>3, <2>1, <2>6, LinkedAsks
  <2>8. Len(asked'[c]) = n + 1 /\ Len(all'[c]) = n
    BY <1>1, <1>2, <2>3, <2>4
  <2>9. Counted("pacing", n + 1, n)
    BY DEF Counted, InFlight
  <2>10. Chain(c)'
    <3>1. step'[c] = "pacing" /\ step'[c] # "whole" /\ all'[c] = all[c]
      BY <1>1, <1>4
    <3> QED
      BY <2>7, <2>8, <2>9, <3>1, Zenon DEF Chain
  <2> QED
    BY <2>5, <2>10
<1>5. CASE After(c) # "pacing"
  <2>1. asked' = asked
    BY <1>5 DEF Accept
  <2>2. Grows
    BY <1>a, <1>l, <2>1 DEF Grows
  <2>3. After(c) \in {"failed", "whole"} /\ (After(c) = "whole" => next = "complete")
    BY <1>5, Zenon DEF After
  <2>4. Counted(step'[c], n, n) /\ (step'[c] = "whole" => all[c][n].next = "complete")
    BY <1>1, <1>2, <2>3 DEF Counted, InFlight
  <2> HIDE DEF n
  <2>5. Len(asked'[c]) = n /\ Len(all'[c]) = n /\ all'[c] = all[c] /\ asked'[c] = asked[c]
    BY <1>1, <1>2, <2>1 DEF n
  <2>6. Chain(c)'
    BY <1>2, <2>4, <2>5, Zenon DEF Chain
  <2> QED
    BY <2>2, <2>6
<1> QED
  BY <1>4, <1>5

\* A step that neither asks for a page nor accepts one.
LEMMA WholeGoesOn ==
    ASSUME WholeInv, UNCHANGED <<asked, all>>,
           \A c \in Callers: \/ step'[c] = step[c] \/ step'[c] = "failed"
                             \/ step[c] \in InFlight /\ step'[c] \in InFlight
    PROVE  (\A c \in Callers: Chain(c)') /\ Grows
<1>1. \A c \in Callers: Chain(c)'
  BY ChainGoesOn DEF WholeInv
<1>2. asked \in [Callers -> Seq(Asked)] /\ \A c \in Callers: Len(asked[c]) \in Nat
  BY LenProperties DEF WholeInv, ExchangeInv, ExchangeTypeOK
<1> QED
  BY <1>1, <1>2 DEF Grows

LEMMA WholeKeeps == WholeInv /\ [ExchangeNext]_exchangeVars => WholeInv'
<1> SUFFICES ASSUME WholeInv, [ExchangeNext]_exchangeVars PROVE WholeInv'
  OBVIOUS
<1>i. ExchangeInv /\ GenuineInv /\ ExchangeInv'
  BY ExchangeKeeps DEF WholeInv
<1>t. /\ step \in [Callers -> Steps] /\ asked \in [Callers -> Seq(Asked)] /\ all \in [Callers -> Seq(Responses)]
      /\ channel \in [Callers -> Seq(Responses)] /\ LookedUpOK
  BY <1>i DEF ExchangeInv, ExchangeTypeOK
<1>l. \A c \in Callers: Len(asked[c]) \in Nat
  BY <1>t, LenProperties
<1> SUFFICES GenuineInv' /\ \A c \in Callers: Chain(c)'
  BY <1>i DEF WholeInv
<1>1. ASSUME NEW c \in Callers, EnsureResponseSubscription(c) PROVE GenuineInv' /\ \A x \in Callers: Chain(x)'
  <2>1. /\ step[c] = "idle" /\ step'[c] \in {"pacing", "subscribing"} /\ asked' = [asked EXCEPT ![c] = <<First>>]
        /\ \A x \in Callers \ {c}: step'[x] = step[x]
        /\ UNCHANGED <<all, channel, answers, lookedUp>>
    BY <1>t, <1>1 DEF EnsureResponseSubscription
  <2>2. asked'[c] = <<First>> /\ \A x \in Callers \ {c}: asked'[x] = asked[x]
    BY <1>t, <2>1
  <2>3. Len(asked[c]) = 0
    BY <2>1 DEF WholeInv, Chain, Counted
  <2>4. Grows
    <3>1. asked' \in [Callers -> Seq(Asked)]
      BY <1>i DEF ExchangeInv, ExchangeTypeOK
    <3>2. Len(asked[c]) = 0 /\ Len(asked'[c]) = 1
      BY <2>2, <2>3
    <3> QED
      BY <1>l, <2>2, <3>1, <3>2 DEF Grows
  <2>5. GenuineInv'
    BY <1>i, <2>1, <2>4, GenuineKeeps
  <2>6. ASSUME NEW x \in Callers PROVE Chain(x)'
    <3>1. CASE x = c
      BY <1>i, <2>1, <2>2, <3>1, ChainStarts, Zenon DEF WholeInv
    <3>2. CASE x # c
      BY <2>1, <2>2, <3>2, ChainGoesOn DEF WholeInv
    <3> QED
      BY <3>1, <3>2
  <2> QED
    BY <2>5, <2>6
<1>2. ASSUME NEW c \in Callers, Accept(c) PROVE GenuineInv' /\ \A x \in Callers: Chain(x)'
  <2>1. Chain(c)' /\ Grows
    BY <1>i, <1>2, ChainAccepts DEF WholeInv
  <2>2. /\ \A x \in Callers \ {c}: step'[x] = step[x] /\ asked'[x] = asked[x]
        /\ UNCHANGED <<all, channel, answers, lookedUp>>
    BY <1>t, <1>2 DEF Accept
  <2>3. GenuineInv'
    BY <1>i, <2>1, <2>2, GenuineKeeps
  <2>4. \A x \in Callers \ {c}: Chain(x)'
    BY <2>2, ChainGoesOn DEF WholeInv
  <2> QED
    BY <2>1, <2>3, <2>4
<1>3. ASSUME NEW c \in Callers, channel[c] # <<>>, Take(c) \/ TakeSettled(c)
      PROVE  GenuineInv' /\ \A x \in Callers: Chain(x)'
  <2>1. /\ step[c] \in InFlight /\ step'[c] = "answered"
        /\ all' = [all EXCEPT ![c] = all[c] \o channel[c]]
        /\ channel' = [channel EXCEPT ![c] = <<>>]
        /\ \A x \in Callers \ {c}: step'[x] = step[x]
        /\ UNCHANGED <<asked, answers, lookedUp>>
    BY <1>t, <1>3 DEF Take, TakeSettled, InFlight
  <2>2. Len(channel[c]) = 1 /\ all[c] \in Seq(Responses) /\ channel[c] \in Seq(Responses)
    BY <1>t, <1>i, <1>3, Zenon DEF ExchangeInv, ChannelIsCurrent
  <2>3. /\ Len(all[c] \o channel[c]) = Len(all[c]) + 1
        /\ (all[c] \o channel[c])[Len(all[c]) + 1] = channel[c][1]
        /\ \A i \in 1 .. Len(all[c]): (all[c] \o channel[c])[i] = all[c][i]
    BY <2>2, OneMore, Zenon
  <2>4. all'[c] = all[c] \o channel[c] /\ \A x \in Callers \ {c}: all'[x] = all[x] /\ channel'[x] = channel[x]
    BY <1>t, <2>1
  <2>5. /\ Len(all'[c]) = Len(all[c]) + 1 /\ all'[c][Len(all[c]) + 1] = channel[c][1]
        /\ \A i \in 1 .. Len(all[c]): all'[c][i] = all[c][i]
    BY <2>3, <2>4, Zenon
  <2>6. Chain(c)'
    BY <1>i, <1>3, <2>1, <2>5, ChainReads, Zenon DEF WholeInv
  <2>7. \A x \in Callers \ {c}: Chain(x)'
    BY <2>1, <2>4, ChainGoesOn, Zenon DEF WholeInv
  <2>8. Grows
    BY <1>t, <1>l, <2>1 DEF Grows
  <2>9. \A x \in Callers: channel'[x] = <<>> \/ channel'[x] = channel[x]
    BY <1>t, <2>1
  <2>10. GenuineInv'
    BY <1>i, <2>1, <2>8, <2>9, GenuineKeeps
  <2> QED
    BY <2>6, <2>7, <2>10
<1>4. ASSUME NEW c \in Callers,
             \/ SubscribeTimesOut(c) \/ NotSent(c) \/ Published(c) \/ DeadlinePasses(c) \/ WaitEnds(c)
             \/ Register(c) \/ Settle(c) \/ (TakeSettled(c) /\ channel[c] = <<>>)
      PROVE  GenuineInv' /\ \A x \in Callers: Chain(x)'
  <2>1. /\ UNCHANGED <<asked, all, answers, lookedUp>>
        /\ channel' = channel \/ channel' = [channel EXCEPT ![c] = <<>>]
    BY <1>4, Zenon DEF SubscribeTimesOut, NotSent, Published, DeadlinePasses, WaitEnds, Register, Settle, TakeSettled
  <2>2. \A x \in Callers: \/ step'[x] = step[x] \/ step'[x] = "failed"
                          \/ step[x] \in InFlight /\ step'[x] \in InFlight
    BY <1>t, <1>4 DEF SubscribeTimesOut, NotSent, Published, DeadlinePasses, WaitEnds, Register, Settle, TakeSettled,
                      InFlight
  <2>3. (\A x \in Callers: Chain(x)') /\ Grows
    BY <2>1, <2>2, WholeGoesOn
  <2>4. \A x \in Callers: channel'[x] = <<>> \/ channel'[x] = channel[x]
    BY <1>t, <2>1
  <2> QED
    BY <1>i, <2>1, <2>3, <2>4, GenuineKeeps
<1>5. ASSUME NEW ok \in BOOLEAN, SubscribeEnds(ok) PROVE GenuineInv' /\ \A x \in Callers: Chain(x)'
  <2>1. /\ UNCHANGED <<asked, all, answers, lookedUp, channel>>
        /\ \A x \in Callers: \/ step'[x] = step[x] \/ step'[x] = "failed"
                             \/ step[x] \in InFlight /\ step'[x] \in InFlight
    BY <1>t, <1>5 DEF SubscribeEnds, InFlight
  <2>2. (\A x \in Callers: Chain(x)') /\ Grows
    BY <2>1, WholeGoesOn
  <2> QED
    BY <1>i, <2>1, <2>2, GenuineKeeps
<1>6. ASSUME NEW c \in Callers, NEW next \in Nexts, RuntimeAnswers(c, next)
      PROVE  GenuineInv' /\ \A x \in Callers: Chain(x)'
  <2> DEFINE r == [to |-> Request(c), token |-> asked[c][Len(asked[c])], next |-> next]
  <2>1. /\ UNCHANGED <<step, asked, all, lookedUp, channel>> /\ answers' = answers \cup {r}
        /\ step[c] \in InFlight
    BY <1>6 DEF RuntimeAnswers, InFlight
  <2>2. (\A x \in Callers: Chain(x)') /\ Grows
    BY <2>1, WholeGoesOn
  <2>3. Len(asked[c]) \in 1 .. Len(asked[c])
    <3>1. asked[c] # <<>> /\ asked[c] \in Seq(Asked)
      BY <1>t, <1>i, <2>1, ZenonT(30) DEF ExchangeInv, ExchangeTypeOK, InFlight
    <3> QED
      BY <3>1
  <2>4. \A x \in answers': x \in answers \/ Genuine(x)'
    <3> SUFFICES ASSUME NEW x \in answers', x \notin answers PROVE Genuine(x)'
      OBVIOUS
    <3>0. x = r
      BY <2>1, Zenon
    <3>1. x.to = <<c, Len(asked[c])>> /\ x.token = asked[c][Len(asked[c])]
      BY <3>0 DEF Request
    <3>2. x.to[1] = c /\ x.to[2] = Len(asked[c])
      BY <3>1
    <3> HIDE DEF r
    <3> QED
      BY <2>1, <2>3, <3>1, <3>2 DEF Genuine
  <2> QED
    BY <1>i, <2>1, <2>2, <2>4, GenuineKeeps
<1>7. CASE (\E r \in answers, q \in pending: LookUp(r, q)) \/ HandOver \/ Drop \/ UNCHANGED exchangeVars
  <2>1. UNCHANGED <<step, asked, all, answers>>
    BY <1>7 DEF LookUp, HandOver, Drop, exchangeVars
  <2>2. (\A x \in Callers: Chain(x)') /\ Grows
    BY <2>1, WholeGoesOn
  <2>3. lookedUp' = <<>> \/ lookedUp' = lookedUp \/ lookedUp'[1] \in answers
    BY <1>7 DEF LookUp, HandOver, Drop, exchangeVars
  <2>4. \A x \in Callers: \/ channel'[x] = <<>> \/ channel'[x] = channel[x]
                          \/ lookedUp # <<>> /\ channel'[x][1] = lookedUp[1]
    <3>1. CASE channel' = channel
      BY <3>1
    <3>2. CASE HandOver /\ channel' = [channel EXCEPT ![lookedUp[2][1]] = <<lookedUp[1]>>]
      <4>1. lookedUp # <<>>
        BY <3>2 DEF HandOver
      <4>2. <<lookedUp[1]>>[1] = lookedUp[1]
        OBVIOUS
      <4> QED
        BY <1>t, <3>2, <4>1, <4>2
    <3> QED
      BY <1>7, <3>1, <3>2 DEF LookUp, HandOver, Drop, exchangeVars
  <2> QED
    BY <1>i, <2>1, <2>2, <2>3, <2>4, GenuineKeeps, Zenon
<1> QED
  BY <1>1, <1>2, <1>3, <1>4, <1>5, <1>6, <1>7, Zenon DEF ExchangeNext, Take

\* What exportAll returns is one export, whole, for any number of callers over
\* the one subscription, any page tokens and any bound on the pages.
THEOREM ReturnedExportIsWhole == ExchangeSpec => []ReturnedIsWhole
<1>1. ExchangeInit => WholeInv
  <2> SUFFICES ASSUME ExchangeInit PROVE WholeInv
    OBVIOUS
  <2>1. GenuineInv /\ \A c \in Callers: Chain(c)
    BY ExportAssumption DEF ExchangeInit, GenuineInv, Chain, Linked, Counted, InFlight
  <2> QED
    BY <2>1, ExchangeStarts DEF WholeInv
<1>2. WholeInv => ReturnedIsWhole
  <2> SUFFICES ASSUME WholeInv, NEW c \in Callers, step[c] = "whole"
               PROVE  /\ Len(all[c]) = Len(asked[c]) /\ Len(all[c]) <= MaxExportPages
                      /\ all[c][1].token = First /\ all[c][Len(all[c])].next = "complete"
                      /\ \A i \in 2 .. Len(all[c]): all[c][i].token = all[c][i - 1].next
                      /\ \A i, j \in 1 .. Len(all[c]): all[c][i].token = all[c][j].token => i = j
    BY DEF ReturnedIsWhole
  <2> DEFINE n == Len(all[c])
  <2>1. Len(asked[c]) = n /\ Linked(asked[c], n, all[c], n) /\ all[c][n].next = "complete"
    BY DEF WholeInv, Chain, Counted
  <2>2. asked[c] \in Seq(Asked) /\ asked[c] # <<>>
    BY DEF WholeInv, ExchangeInv, ExchangeTypeOK
  <2>3. n \in Nat \ {0}
    BY <2>1, <2>2
  <2> HIDE DEF n
  <2>4. /\ n <= MaxExportPages /\ all[c][1].token = First
        /\ \A i \in 2 .. n: all[c][i].token = all[c][i - 1].next
        /\ \A i, j \in 1 .. n: all[c][i].token = all[c][j].token => i = j
    BY <2>1, <2>3, LinkedWhole
  <2> QED
    BY <2>1, <2>4, Zenon DEF n
<1> QED
  BY <1>1, <1>2, WholeKeeps, PTL DEF ExchangeSpec
=============================================================================
