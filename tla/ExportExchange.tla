--------------------------- MODULE ExportExchange ---------------------------
(***************************************************************************)
(* The export exchange of internal/runtimeclient/mqtt.go: callers that     *)
(* export from one device page by page, over one response subscription     *)
(* they share.  A request is a pair <<caller, page number>>, as fresh as   *)
(* the random request_id of the code.  Its pending entry, its channel of   *)
(* capacity one and its wait are what the caller and the broker's callback *)
(* race on.                                                                *)
(*                                                                         *)
(* The runtime (external) answers a request once, and the session may      *)
(* deliver that answer any number of times, late or never.                 *)
(***************************************************************************)
EXTENDS Naturals, Sequences

CONSTANTS Callers, Tokens, MaxExportPages

ASSUME ExportAssumption == MaxExportPages \in Nat \ {0}

VARIABLES
    subscription, \* "none", "subscribing" or "subscribed", for the device's topic
    step,         \* where each caller is in exportAll and requestPage
    asked,        \* the page tokens each caller has asked for, in order
    all,          \* the responses each caller has appended, in order
    pending,      \* c.pending: the requests a response may still answer
    channel,      \* each caller's responseCh: at most one response
    wait,         \* its waitCtx: "open", "past" its deadline, or "fired"
    answers,      \* the responses the session may deliver
    lookedUp,     \* the response the callback has looked up, or none
    recorded      \* the requests whose response has its replay key recorded

exchangeVars == <<subscription, step, asked, all, pending, channel, wait, answers, lookedUp, recorded>>

First == "first"    \* the empty page token of a first page
Nexts == Tokens \cup {"complete", "missing", "error"}
Request(c) == <<c, Len(asked[c])>>

ExchangeInit ==
    /\ subscription = "none"
    /\ step = [c \in Callers |-> "idle"]
    /\ asked = [c \in Callers |-> <<>>]
    /\ all = [c \in Callers |-> <<>>]
    /\ pending = {}
    /\ channel = [c \in Callers |-> <<>>]
    /\ wait = [c \in Callers |-> "open"]
    /\ answers = {}
    /\ lookedUp = <<>>
    /\ recorded = {}

-----------------------------------------------------------------------------
(* ensureResponseSubscription and subscribe                                *)

\* A caller finds the topic subscribed, joins the attempt in flight or starts
\* one.
EnsureResponseSubscription(c) ==
    /\ step[c] = "idle"
    /\ IF subscription = "subscribed"
       THEN step' = [step EXCEPT ![c] = "pacing"] /\ UNCHANGED subscription
       ELSE step' = [step EXCEPT ![c] = "subscribing"] /\ subscription' = "subscribing"
    /\ asked' = [asked EXCEPT ![c] = <<First>>]
    /\ UNCHANGED <<all, pending, channel, wait, answers, lookedUp, recorded>>

\* The attempt ends within the export wait and its outcome reaches everyone
\* who waits for it; after a failure the next caller starts another.
SubscribeEnds(ok) ==
    /\ subscription = "subscribing"
    /\ subscription' = IF ok THEN "subscribed" ELSE "none"
    /\ step' = [c \in Callers |-> IF step[c] # "subscribing" THEN step[c]
                                  ELSE IF ok THEN "pacing" ELSE "failed"]
    /\ UNCHANGED <<asked, all, pending, channel, wait, answers, lookedUp, recorded>>

\* A caller's own wait ends first; the attempt goes on without it.
SubscribeTimesOut(c) ==
    /\ step[c] = "subscribing"
    /\ step' = [step EXCEPT ![c] = "failed"]
    /\ UNCHANGED <<subscription, asked, all, pending, channel, wait, answers, lookedUp, recorded>>

-----------------------------------------------------------------------------
(* requestPage                                                             *)

\* exportPacer.acquire within the wait, then the request is registered with a
\* wait of its own, encoded and signed; the publish begins.
Register(c) ==
    /\ step[c] = "pacing"
    /\ pending' = pending \cup {Request(c)}
    /\ channel' = [channel EXCEPT ![c] = <<>>]
    /\ wait' = [wait EXCEPT ![c] = "open"]
    /\ step' = [step EXCEPT ![c] = "publishing"]
    /\ UNCHANGED <<subscription, asked, all, answers, lookedUp, recorded>>

\* Pacing outlasts its bound, or the request cannot be encoded or signed: its
\* pending entry, if any, is gone by the time the caller has the error.
NotSent(c) ==
    /\ step[c] = "pacing"
    /\ step' = [step EXCEPT ![c] = "failed"]
    /\ UNCHANGED <<subscription, asked, all, pending, channel, wait, answers, lookedUp, recorded>>

Published(c) ==
    /\ step[c] = "publishing"
    /\ step' = [step EXCEPT ![c] = "waiting"]
    /\ UNCHANGED <<subscription, asked, all, pending, channel, wait, answers, lookedUp, recorded>>

DeadlinePasses(c) ==
    /\ step[c] \in {"publishing", "waiting"} /\ wait[c] = "open"
    /\ wait' = [wait EXCEPT ![c] = "past"]
    /\ UNCHANGED <<subscription, step, asked, all, pending, channel, answers, lookedUp, recorded>>

\* The timer fires, or the caller's context ends before the deadline.
WaitEnds(c) ==
    /\ step[c] \in {"publishing", "waiting"} /\ wait[c] # "fired"
    /\ wait' = [wait EXCEPT ![c] = "fired"]
    /\ UNCHANGED <<subscription, step, asked, all, pending, channel, answers, lookedUp, recorded>>

\* Mutant: settle reads the channel without releasing the request first.
NotReleased(c) == pending
Remaining(c) == pending \ {Request(c)}

\* settle, first half: the publish failed, or the select saw the wait end.
Settle(c) ==
    /\ \/ step[c] = "publishing"
       \/ step[c] = "waiting" /\ wait[c] = "fired"
    /\ pending' = Remaining(c)
    /\ step' = [step EXCEPT ![c] = "released"]
    /\ UNCHANGED <<subscription, asked, all, channel, wait, answers, lookedUp, recorded>>

\* settle, second half: a response handed over in time completes the request,
\* and without one the request has failed.
TakeSettled(c) ==
    /\ step[c] = "released"
    /\ IF channel[c] = <<>>
       THEN step' = [step EXCEPT ![c] = "failed"] /\ UNCHANGED <<all, channel>>
       ELSE /\ step' = [step EXCEPT ![c] = "answered"]
            /\ all' = [all EXCEPT ![c] = @ \o channel[c]]
            /\ channel' = [channel EXCEPT ![c] = <<>>]
    /\ UNCHANGED <<subscription, asked, pending, wait, answers, lookedUp, recorded>>

\* The select took the response; the deferred removal has not run yet.
Take(c) ==
    /\ step[c] = "waiting" /\ channel[c] # <<>>
    /\ step' = [step EXCEPT ![c] = "answered"]
    /\ all' = [all EXCEPT ![c] = @ \o channel[c]]
    /\ channel' = [channel EXCEPT ![c] = <<>>]
    /\ UNCHANGED <<subscription, asked, pending, wait, answers, lookedUp, recorded>>

\* Mutant: the export ends at the last page allowed, complete or not.
AfterLastPage(c) ==
    LET next == all[c][Len(all[c])].next
    IN  IF next = "complete" \/ (next \in Tokens /\ Len(asked[c]) = MaxExportPages) THEN "whole"
        ELSE IF next \in Tokens /\ (\A i \in 1 .. Len(asked[c]): asked[c][i] # next)
        THEN "pacing" ELSE "failed"

\* What exportAll makes of an accepted page: done, a next page, or a failure
\* (the runtime's error, no token, a token seen before, too many pages).
After(c) ==
    LET next == all[c][Len(all[c])].next
    IN  IF next = "complete" THEN "whole"
        ELSE IF next \in Tokens /\ (\A i \in 1 .. Len(asked[c]): asked[c][i] # next)
                /\ Len(asked[c]) < MaxExportPages
        THEN "pacing" ELSE "failed"

\* The request returns, its pending entry is removed, and exportAll goes on.
Accept(c) ==
    /\ step[c] = "answered"
    /\ pending' = pending \ {Request(c)}
    /\ step' = [step EXCEPT ![c] = After(c)]
    /\ asked' = IF After(c) = "pacing"
                THEN [asked EXCEPT ![c] = Append(@, all[c][Len(all[c])].next)] ELSE asked
    /\ UNCHANGED <<subscription, all, channel, wait, answers, lookedUp, recorded>>

-----------------------------------------------------------------------------
(* handleResponseMessage and deliver                                       *)

\* The runtime answers a request it was sent, whatever the publish reports.
RuntimeAnswers(c, next) ==
    /\ step[c] \in {"publishing", "waiting"}
    /\ \A r \in answers: r.to # Request(c)
    /\ answers' = answers \cup {[to |-> Request(c), token |-> asked[c][Len(asked[c])], next |-> next]}
    /\ UNCHANGED <<subscription, step, asked, all, pending, channel, wait, lookedUp, recorded>>

\* The topic of a response names the device and the request it answers.
Correlates(r, q) == r.to = q

\* The callback looks the request up and lets go of the lock.
LookUp(r, q) ==
    /\ lookedUp = <<>>
    /\ r \in answers /\ q \in pending /\ Correlates(r, q)
    /\ lookedUp' = <<r, q>>
    /\ UNCHANGED <<subscription, step, asked, all, pending, channel, wait, answers, recorded>>

\* deliver's own check, under the lock again: the request is still pending, its
\* deadline has not passed and its channel has room.
Delivers(q) == q \in pending /\ wait[q[1]] = "open" /\ channel[q[1]] = <<>>

\* VerifyJSONThenDecide: a response already applied is refused; a verified one
\* is handed over if deliver says so, and only then is its replay key recorded.
HandOver ==
    /\ lookedUp # <<>>
    /\ LET r == lookedUp[1]  q == lookedUp[2]
       IN  IF r.to \notin recorded /\ Delivers(q)
           THEN /\ channel' = [channel EXCEPT ![q[1]] = <<r>>]
                /\ recorded' = recorded \cup {r.to}
           ELSE UNCHANGED <<channel, recorded>>
    /\ lookedUp' = <<>>
    /\ UNCHANGED <<subscription, step, asked, all, pending, wait, answers>>

\* Not verified, or refused by the member rule: dropped, and the request waits.
Drop ==
    /\ lookedUp # <<>>
    /\ lookedUp' = <<>>
    /\ UNCHANGED <<subscription, step, asked, all, pending, channel, wait, answers, recorded>>

ExchangeNext ==
    \/ \E c \in Callers:
         \/ EnsureResponseSubscription(c) \/ SubscribeTimesOut(c)
         \/ Register(c) \/ NotSent(c) \/ Published(c) \/ DeadlinePasses(c) \/ WaitEnds(c)
         \/ Settle(c) \/ TakeSettled(c) \/ Take(c) \/ Accept(c)
         \/ \E next \in Nexts: RuntimeAnswers(c, next)
    \/ \E ok \in BOOLEAN: SubscribeEnds(ok)
    \/ \E r \in answers, q \in pending: LookUp(r, q)
    \/ HandOver \/ Drop

ExchangeSpec == ExchangeInit /\ [][ExchangeNext]_exchangeVars

-----------------------------------------------------------------------------
(* A response whose replay key is recorded can never be delivered again, so *)
(* its request must take it: it is among what the caller accepted, or in    *)
(* the channel of a caller still bound to read it.  In particular no        *)
(* response is handed to a request that has timed out or given up.          *)
HandedOverIsTaken ==
    \A q \in recorded:
       \/ \E i \in 1 .. Len(all[q[1]]): all[q[1]][i].to = q
       \/ /\ Request(q[1]) = q
          /\ step[q[1]] \in {"publishing", "waiting", "released"}
          /\ channel[q[1]] # <<>>

(* What exportAll returns is one export, whole: page after page, each the   *)
(* answer to the request for the token before it, none twice, the last      *)
(* complete; whatever was late, repeated or answered for another caller.    *)
ReturnedIsWhole ==
    \A c \in Callers: step[c] = "whole" =>
       /\ Len(all[c]) = Len(asked[c]) /\ Len(all[c]) <= MaxExportPages
       /\ all[c][1].token = First /\ all[c][Len(all[c])].next = "complete"
       /\ \A i \in 2 .. Len(all[c]): all[c][i].token = all[c][i - 1].next
       /\ \A i, j \in 1 .. Len(all[c]): all[c][i].token = all[c][j].token => i = j
=============================================================================
