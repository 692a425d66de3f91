---------------------------- MODULE VolumeLimits ----------------------------
(***************************************************************************)
(* The three volume limits, each a set of token buckets:                   *)
(*   gate    the ingress gate of a wildcard subscription (broker/ingress): *)
(*           a bucket per configured device and one for everybody else, of *)
(*           messages and of payload bytes;                                *)
(*   bridge  the webhook limiter (webhookbridge/limit.go): a bucket per    *)
(*           sender for the MaxSenders most recent, and a ceiling;         *)
(*   pacer   the export pacer (runtimeclient/mqtt.go): a bucket per device *)
(*           that starts empty.                                            *)
(* Rates are whole tokens per tick.  MaxTime and MaxArrivals bound the     *)
(* run and model nothing.                                                  *)
(***************************************************************************)
EXTENDS Integers, Sequences, SequencesExt

CONSTANTS
    Configured, Others,             \* senders: devices, or numbers of the bridge
    Rate, Burst,                    \* of one bucket
    ByteRate, BurstBytes, Maximum,  \* the gate's byte budget and payload maximum
    GlobalRate, GlobalBurst,        \* the bridge's ceiling
    MaxSenders,
    MaxTime, MaxArrivals

ASSUME VolumeAssumption ==
    /\ {Rate, Burst, ByteRate, GlobalRate, GlobalBurst, MaxSenders, Maximum} \subseteq Nat \ {0}
    /\ BurstBytes \in Nat /\ BurstBytes >= Maximum

VARIABLES
    limit,      \* which of the three
    buckets,    \* by key: <<>>, or <<[tokens, bytes, last]>>
    order,      \* the bridge's senders, most recent first
    tick,
    admitted,   \* history: [key, at, length] of everything let through
    outcome,    \* history: the last arrival and what became of it
    evicted     \* history: senders whose bucket was evicted

volumeVars == <<limit, buckets, order, tick, admitted, outcome, evicted>>

Senders == Configured \cup Others
Keys == Senders \cup {"overflow", "global"}
AtMost(bound, n) == IF n > bound THEN bound ELSE n

Full(tokens, bytes) == <<[tokens |-> tokens, bytes |-> bytes, last |-> tick]>>

VolumeInit ==
    /\ limit \in {"gate", "bridge", "pacer"}
    /\ tick = 0
    /\ buckets = [k \in Keys |->
                    CASE limit = "gate" /\ k \in Configured \cup {"overflow"} -> Full(Burst, BurstBytes)
                      [] limit = "bridge" /\ k = "global" -> Full(GlobalBurst, 0)
                      [] OTHER -> <<>>]
    /\ order = <<>> /\ admitted = <<>> /\ evicted = {}
    /\ outcome = [key |-> "none", at |-> 0, length |-> 0, verdict |-> "none"]

Refilled(b, rate, burst) ==
    [tokens |-> AtMost(burst, b.tokens + (tick - b.last) * rate),
     bytes |-> AtMost(BurstBytes, b.bytes + (tick - b.last) * ByteRate), last |-> tick]

Taken(b, length) == [b EXCEPT !.tokens = @ - 1, !.bytes = @ - length]

Note(key, length, verdict) ==
    /\ outcome' = [key |-> key, at |-> tick, length |-> length, verdict |-> verdict]
    /\ admitted' = IF verdict = "admitted"
                   THEN Append(admitted, [key |-> key, at |-> tick, length |-> length]) ELSE admitted

-----------------------------------------------------------------------------
(* ingressGate.admitVolume                                                 *)

BucketOf(sender) == IF sender \in Configured THEN sender ELSE "overflow"

AdmitVolume(sender, length) ==
    /\ limit = "gate" /\ Len(admitted) < MaxArrivals
    /\ LET key == BucketOf(sender)
           b == Refilled(buckets[key][1], Rate, Burst)
       IN  IF length > Maximum
           THEN Note(key, length, "payload_too_large") /\ UNCHANGED buckets
           ELSE IF b.tokens >= 1 /\ b.bytes >= length
           THEN Note(key, length, "admitted") /\ buckets' = [buckets EXCEPT ![key] = <<Taken(b, length)>>]
           ELSE Note(key, length, "volume_dropped") /\ buckets' = [buckets EXCEPT ![key] = <<b>>]
    /\ UNCHANGED <<limit, order, tick, evicted>>

-----------------------------------------------------------------------------
(* limiter.admit, from ServeHTTP                                           *)

\* The sender moves to the front; a new one starts full, and evicts the least
\* recently seen when there is no room.
Oldest == IF Len(order) >= MaxSenders THEN {order[Len(order)]} ELSE {}
Known(sender) == \E i \in 1 .. Len(order): order[i] = sender
Without(gone) == SelectSeq(order, LAMBDA s: s \notin gone)

\* Mutant: the sender's token is not returned when the ceiling refuses.
NotRefunded(b) == b
\* bucket.refund
Refunded(b) == [b EXCEPT !.tokens = AtMost(Burst, @ + 1)]

AdmitRequest(sender) ==
    /\ limit = "bridge" /\ Len(admitted) < MaxArrivals
    /\ LET gone == IF Known(sender) THEN {} ELSE Oldest
           own == IF Known(sender) THEN Refilled(buckets[sender][1], Rate, Burst) ELSE Full(Burst, 0)[1]
           global == Refilled(buckets["global"][1], GlobalRate, GlobalBurst)
           After(b, g) == [k \in Keys |-> IF k = sender THEN <<b>> ELSE IF k = "global" THEN <<g>>
                                          ELSE IF k \in gone THEN <<>> ELSE buckets[k]]
       IN  /\ order' = <<sender>> \o Without(gone \cup {sender})
           /\ evicted' = evicted \cup gone
           /\ IF own.tokens < 1
              THEN Note(sender, 0, "refused_by_sender") /\ buckets' = After(own, buckets["global"][1])
              ELSE IF global.tokens < 1
              THEN Note(sender, 0, "refused_by_global") /\ buckets' = After(Refunded(Taken(own, 0)), global)
              ELSE Note(sender, 0, "admitted") /\ buckets' = After(Taken(own, 0), Taken(global, 0))
    /\ UNCHANGED <<limit, tick>>

\* A request that names no sender, such as a delivery report, draws on the
\* ceiling alone.
AdmitReport ==
    /\ limit = "bridge" /\ Len(admitted) < MaxArrivals
    /\ LET global == Refilled(buckets["global"][1], GlobalRate, GlobalBurst)
       IN  IF global.tokens < 1
           THEN Note("global", 0, "refused_by_global") /\ buckets' = [buckets EXCEPT !["global"] = <<global>>]
           ELSE Note("global", 0, "admitted") /\ buckets' = [buckets EXCEPT !["global"] = <<Taken(global, 0)>>]
    /\ UNCHANGED <<limit, order, tick, evicted>>

-----------------------------------------------------------------------------
(* exportPacer.acquire: one round of its loop                              *)

Acquire(device) ==
    /\ limit = "pacer" /\ Len(admitted) < MaxArrivals
    /\ LET b == IF buckets[device] = <<>> THEN Full(0, 0)[1] ELSE Refilled(buckets[device][1], Rate, Burst)
       IN  IF b.tokens >= 1
           THEN Note(device, 0, "admitted") /\ buckets' = [buckets EXCEPT ![device] = <<Taken(b, 0)>>]
           ELSE Note(device, 0, "waits") /\ buckets' = [buckets EXCEPT ![device] = <<b>>]
    /\ UNCHANGED <<limit, order, tick, evicted>>

Tick ==
    /\ tick < MaxTime
    /\ tick' = tick + 1
    /\ UNCHANGED <<limit, buckets, order, admitted, outcome, evicted>>

VolumeNext ==
    \/ \E s \in Senders:
         \/ \E length \in 1 .. Maximum + 1: AdmitVolume(s, length)
         \/ AdmitRequest(s)
    \/ AdmitReport
    \/ \E d \in Configured: Acquire(d)
    \/ Tick

VolumeSpec == VolumeInit /\ [][VolumeNext]_volumeVars

-----------------------------------------------------------------------------
(* What a limit allows, stated on what was let through and without buckets: *)
(* in no stretch of time more than the burst and the rate times its length. *)

Before == IF outcome.verdict = "admitted" THEN SubSeq(admitted, 1, Len(admitted) - 1) ELSE admitted
Own == SelectSeq(Before, LAMBDA e: e.key = outcome.key)

OneTooMany(let, rate, burst) ==
    \E i \in 1 .. Len(let): Len(let) - i + 2 > burst + (outcome.at - let[i].at) * rate

Bytes(let) == FoldLeft(LAMBDA n, e: n + e.length, 0, let)

BytesTooMany(let) ==
    \E i \in 1 .. Len(let): Bytes(SubSeq(let, i, Len(let))) + outcome.length
                              > BurstBytes + (outcome.at - let[i].at) * ByteRate

(* Every limit is exact.  A configured device, or a number at the bridge,   *)
(* is refused only for what it sent itself, never for what others did, what *)
(* the ceiling refused or how long it was idle; and nothing is let through  *)
(* over its limit, except that a sender the bridge has evicted starts full  *)
(* under the same ceiling.                                                  *)
LimitsAreExact ==
    LET v == outcome.verdict
    IN  CASE limit = "gate" ->
                v \in {"admitted", "volume_dropped"} =>
                  (v = "admitted" <=> ~OneTooMany(Own, Rate, Burst) /\ ~BytesTooMany(Own))
          [] limit = "bridge" ->
                /\ v = "refused_by_sender" => OneTooMany(Own, Rate, Burst)
                /\ v = "refused_by_global" => OneTooMany(Before, GlobalRate, GlobalBurst)
                /\ v = "admitted" =>
                     /\ ~OneTooMany(Before, GlobalRate, GlobalBurst)
                     /\ outcome.key = "global" \/ outcome.key \in evicted \/ ~OneTooMany(Own, Rate, Burst)
          [] limit = "pacer" ->
                v = "admitted" =>
                  /\ ~OneTooMany(Own, Rate, Burst)
                  /\ Len(Own) + 1 <= outcome.at * Rate
=============================================================================
