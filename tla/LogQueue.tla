------------------------------ MODULE LogQueue ------------------------------
(***************************************************************************)
(* How refusals reach the log.  A throttle counts the refusals of one      *)
(* limit into few lines, from the handlers that refuse and from a timer:   *)
(*   bridge   refusalLog of webhookbridge/bridge.go;                       *)
(*   ingress  IngressStats of broker/ingress.go, for one family and reason.*)
(* Its lines, and those of everybody else, go through the bounded queue of *)
(* internal/asynclog, whose one drainer writes them to a destination that  *)
(* may stop accepting writes.  A path about to end the process flushes it. *)
(* Two smaller queues work alike, with no throttle and no flush: noteLog   *)
(* of runtimeclient/notes.go and the notes of mqttauth/signingclock.go,    *)
(* whose drainer takes all there is at once.                               *)
(* MaxTick, MaxRefusals and MaxLines bound the run and model nothing.      *)
(***************************************************************************)
EXTENDS Integers, Sequences

CONSTANTS
    MaxQueued,      \* asynclog.MaxQueued
    Interval,       \* a second, in ticks
    MaxTick, MaxRefusals, MaxLines

ASSUME LogAssumption == MaxQueued \in Nat \ {0} /\ Interval \in Nat \ {0}

VARIABLES
    queue,      \* "asynclog", "noteLog" or "signing": which of the three this is
    throttle,   \* "bridge" or "ingress"
    now,
    last,       \* when the throttle last logged, as it remembers it
    unlogged,   \* refusals since
    flushing,
    timer,      \* <<>>, or <<when>> the flush timer is due
    emitting,   \* lines taken from the throttle, not yet given to the logger
    records,    \* Queue.records: the refusals each line counts
    draining,
    dropped,
    hand,       \* what the drainer has to write: lines, then a count of drops
    idle,       \* how often idle has been closed
    flush,      \* a call of Flush: where it is, and the idle it waits for
    seen        \* history: refusals, lines queued and written, and what became of them

throttleVars == <<throttle, last, unlogged, flushing, timer>>
queueVars == <<queue, records, draining, dropped, hand, idle>>
logVars == <<throttleVars, now, emitting, queueVars, flush, seen>>

LogInit ==
    /\ queue \in {"asynclog", "noteLog", "signing"} /\ throttle \in {"bridge", "ingress"}
    /\ now = 0 /\ last = -Interval /\ unlogged = 0 /\ flushing = FALSE /\ timer = <<>>
    /\ emitting = <<>>
    /\ records = <<>> /\ draining = FALSE /\ dropped = 0 /\ hand = <<>> /\ idle = 0
    /\ flush = [at |-> "none", idle |-> 0, before |-> 0]
    /\ seen = [refused |-> 0, logged |-> 0, lost |-> 0, lines |-> 0, queued |-> 0, written |-> 0,
               drops |-> 0, told |-> 0]

-----------------------------------------------------------------------------
(* The throttle                                                            *)

\* refusalLog.note and IngressStats.refuse, under their lock.  The bridge reads
\* the time before it has the lock, so at may be past.
NoteRefusal(at) ==
    LET wait == Interval - (at - last)
    IN  /\ queue = "asynclog" /\ seen.refused < MaxRefusals
        /\ at \in (IF throttle = "bridge" THEN {now - 1, now} ELSE {now})
        /\ seen' = [seen EXCEPT !.refused = @ + 1]
        /\ IF wait > 0 \/ (throttle = "ingress" /\ flushing)
           THEN /\ unlogged' = unlogged + 1
                /\ flushing' = TRUE
                /\ timer' = IF flushing THEN timer ELSE <<now + wait>>
                /\ UNCHANGED <<last, emitting>>
           ELSE /\ emitting' = Append(emitting, unlogged + 1)
                /\ unlogged' = 0 /\ last' = at
                /\ UNCHANGED <<flushing, timer>>
        /\ UNCHANGED <<throttle, now, queueVars, flush>>

\* refusalLog.flush and IngressStats.flush, when the timer fires or later.
Flush ==
    /\ timer # <<>> /\ now >= timer[1]
    /\ timer' = <<>> /\ flushing' = FALSE
    /\ unlogged' = 0
    /\ last' = IF throttle = "bridge" THEN last + Interval ELSE now
    /\ emitting' = IF unlogged > 0 THEN Append(emitting, unlogged) ELSE emitting
    /\ UNCHANGED <<throttle, now, queueVars, flush, seen>>

-----------------------------------------------------------------------------
(* asynclog                                                                *)

\* Queue.add: a line that counts this many refusals.
Add(line) ==
    /\ IF Len(records) >= MaxQueued
       THEN /\ dropped' = dropped + 1
            /\ seen' = [seen EXCEPT !.drops = @ + 1, !.lost = @ + line, !.lines = @ + 1]
            /\ UNCHANGED <<records, draining>>
       ELSE /\ records' = Append(records, line) /\ draining' = TRUE
            /\ seen' = [seen EXCEPT !.queued = @ + 1, !.lines = @ + 1]
            /\ UNCHANGED dropped
    /\ UNCHANGED <<throttleVars, now, queue, hand, idle, flush>>

\* A line the throttle has taken is logged, after the lock is released.
Emit(i) ==
    /\ emitting' = SubSeq(emitting, 1, i - 1) \o SubSeq(emitting, i + 1, Len(emitting))
    /\ Add(emitting[i])

\* Anybody else logs.
LogOther ==
    /\ queue = "asynclog"
    /\ seen.lines < MaxLines /\ UNCHANGED emitting
    /\ Add(0)

\* noteLog.queue and noteLocked, which refuse and start a drainer as add does.
LogNote ==
    /\ queue # "asynclog"
    /\ seen.lines < MaxLines /\ UNCHANGED emitting
    /\ Add(0)

\* Mutant: the drainer ends with records dropped behind it.
DoneWithRecords == records = <<>>
DrainIsDone == records = <<>> /\ dropped = 0

Drops == IF dropped > 0 THEN <<[kind |-> "drops", of |-> dropped]>> ELSE <<>>
Lines(rs) == [i \in 1 .. Len(rs) |-> [kind |-> "line", of |-> rs[i]]]

\* asynclog's and noteLog's drain take the next record, or the count of drops
\* once none is left.
TakeNext ==
    IF records # <<>>
    THEN hand' = Lines(<<Head(records)>>) /\ records' = Tail(records) /\ UNCHANGED dropped
    ELSE hand' = Drops /\ dropped' = 0 /\ UNCHANGED records

\* The signing clock's takes every record and the count together.
TakeAll == hand' = Lines(records) \o Drops /\ records' = <<>> /\ dropped' = 0

\* drain, under the lock: it takes something, or ends and wakes whoever flushes.
DrainTakes ==
    /\ draining /\ hand = <<>>
    /\ IF DrainIsDone
       THEN draining' = FALSE /\ idle' = idle + 1 /\ UNCHANGED <<records, dropped, hand>>
       ELSE (IF queue = "signing" THEN TakeAll ELSE TakeNext) /\ UNCHANGED <<draining, idle>>
    /\ UNCHANGED <<throttleVars, now, queue, emitting, flush, seen>>

\* The destination accepts the first of it.
DrainWrites ==
    /\ hand # <<>> /\ hand' = Tail(hand)
    /\ seen' = IF hand[1].kind = "line"
               THEN [seen EXCEPT !.written = @ + 1, !.logged = @ + hand[1].of]
               ELSE [seen EXCEPT !.told = @ + hand[1].of]
    /\ UNCHANGED <<throttleVars, now, queue, emitting, records, draining, dropped, idle, flush>>

\* Queue.Flush: it returns true if nothing is being drained, and waits for the
\* drainer to end otherwise.
FlushQueue ==
    /\ queue = "asynclog"
    /\ flush.at = "none" \/ (flush.at = "waiting" /\ idle > flush.idle)
    /\ flush' = [at |-> IF draining THEN "waiting" ELSE "true", idle |-> idle,
                 before |-> IF flush.at = "none" THEN seen.queued ELSE flush.before]
    /\ UNCHANGED <<throttleVars, now, emitting, queueVars, seen>>

FlushTimesOut ==
    /\ flush.at = "waiting"
    /\ flush' = [flush EXCEPT !.at = "false"]
    /\ UNCHANGED <<throttleVars, now, emitting, queueVars, seen>>

SecondPasses ==
    /\ now < MaxTick /\ now' = now + 1
    /\ UNCHANGED <<throttleVars, emitting, queueVars, flush, seen>>

LogNext ==
    \/ \E at \in {now - 1, now}: NoteRefusal(at)
    \/ Flush
    \/ \E i \in 1 .. Len(emitting): Emit(i)
    \/ LogOther \/ LogNote \/ DrainTakes \/ DrainWrites \/ FlushQueue \/ FlushTimesOut \/ SecondPasses

LogSpec == LogInit /\ [][LogNext]_logVars

-----------------------------------------------------------------------------
Total(lines) ==
    LET sum[n \in 0 .. Len(lines)] == IF n = 0 THEN 0 ELSE sum[n - 1] + lines[n]
    IN  sum[Len(lines)]
InHand(kind) == Total([i \in 1 .. Len(hand) |-> IF hand[i].kind = kind THEN hand[i].of ELSE 0])

(* No refusal goes unlogged.  Each is in a line written or on its way, is   *)
(* pending with a timer to come, or was in a line dropped behind a blocked  *)
(* destination; every dropped line is counted, and someone is bound to      *)
(* write what is queued or counted.  A Flush that returns true is right:    *)
(* all that was queued before it has been written.                          *)
NoneGoesUnlogged ==
    /\ seen.refused = seen.logged + InHand("line") + Total(records) + Total(emitting) + unlogged + seen.lost
    /\ unlogged > 0 => timer # <<>>
    /\ seen.drops = seen.told + InHand("drops") + dropped
    /\ records # <<>> \/ dropped > 0 \/ hand # <<>> => draining
    /\ flush.at = "true" => seen.written >= flush.before
=============================================================================
