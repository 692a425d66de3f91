----------------------------- MODULE SiteHealth -----------------------------
(***************************************************************************)
(* What the gateway knows of its runtime nodes and how severe it says they *)
(* are: internal/site (the registry, the heartbeat handler, the chain-head *)
(* memory, the projection) with the severity internal/runtimeclient reads  *)
(* from a health export and the posture fetches of cmd/ori-gateway.        *)
(*                                                                         *)
(* Times on the registry's monotonic clock are kept as ages, which stop    *)
(* counting once past NodeTTL: only "longer than the TTL" is ever asked.   *)
(* A reason token is a number, its byte order the order of the numbers.    *)
(***************************************************************************)
EXTENDS Naturals, Sequences, FiniteSets, Functions

CONSTANTS
    Nodes,              \* the configured devices
    NodeTTL,
    MaxSeen,            \* last_seen_ms is 1 .. MaxSeen
    Heads,              \* chain heads, other than the empty one
    HeadHistorySize,    \* evidenceHeadHistorySize
    Beats,              \* the heartbeats a runtime may send
    HealthItems         \* the items a health export may hold

ASSUME SiteAssumption ==
    /\ NodeTTL \in Nat /\ MaxSeen \in Nat \ {0} /\ HeadHistorySize \in Nat \ {0}
    /\ Beats \subseteq [status: {"healthy", "degraded", "critical", "other"}, reasons: Seq(1 .. 5),
                        seen: 1 .. MaxSeen, head: Heads \cup {"empty", "omitted"}, available: BOOLEAN]
    /\ HealthItems \subseteq [marker: {"absent", "remote", "other"},
                        status: {"absent", "ok", "degraded", "critical", "other"},
                        critical: {"absent", "true", "false", "mistyped"},
                        shape: {"listed", "lacking", "extended"},
                        projectionMember: BOOLEAN, reasons: BOOLEAN]

VARIABLES
    nodes,          \* registry.nodes: <<>>, or <<record>> for an observed node
    track,          \* registry.evidence: <<>>, or <<memory of chain heads>>
    exportSeverity, \* registry.exportSeverity
    silentCritical, \* registry.silentCritical
    latched,        \* healthReader.latched
    fetching,       \* postureDebouncer: devices with a fetch in flight
    claim           \* history: the worst the device stands by, see NeverUnderstated

siteVars == <<nodes, track, exportSeverity, silentCritical, latched, fetching, claim>>

Severity == [healthy |-> 0, degraded |-> 1, critical |-> 2]
Worse(a, b) == IF a >= b THEN a ELSE b

SiteInit ==
    /\ nodes = [d \in Nodes |-> <<>>]
    /\ track = [d \in Nodes |-> <<>>]
    /\ exportSeverity = [d \in Nodes |-> "none"]
    /\ silentCritical = {} /\ latched = {} /\ fetching = {}
    /\ claim = [d \in Nodes |-> [beat |-> 0, export |-> 0, suspect |-> FALSE]]

-----------------------------------------------------------------------------
(* Reading a heartbeat                                                     *)

\* Tokens of each severity, the fallback token, and one outside the vocabulary.
Light == 1
Mild == 2
Grave == 3
SnapshotInvalid == 4
Vocabulary == {Light, Mild, Grave, SnapshotInvalid}
ReasonSeverity == [t \in Vocabulary |-> IF t = Light THEN 0 ELSE IF t = Mild THEN 1 ELSE 2]

\* validateRuntimeStatus, then validateDegradationReasons in the order of its
\* checks; no tokens stands for an omitted field.
Verdict(tokens, status) ==
    IF status \notin DOMAIN Severity THEN "status_invalid"
    ELSE IF tokens = <<>> THEN "accepted"
    ELSE IF ~IsInjective(tokens) THEN "not_unique"
    ELSE IF \E i \in 2 .. Len(tokens): tokens[i - 1] > tokens[i] THEN "not_ordered"
    ELSE IF \E i \in 1 .. Len(tokens): tokens[i] \notin Vocabulary THEN "unknown"
    ELSE IF /\ \E i \in 1 .. Len(tokens): tokens[i] = SnapshotInvalid
            /\ Len(tokens) # 1 \/ status # "critical" THEN "not_alone"
    ELSE IF status \notin {"degraded", "critical"} THEN "status_mismatch"
    ELSE IF \E i \in 1 .. Len(tokens): ReasonSeverity[tokens[i]] > Severity[status] THEN "understated"
    ELSE "accepted"

-----------------------------------------------------------------------------
(* The chain-head memory                                                   *)

NoTrack == [heads |-> <<>>, truncated |-> FALSE, regressed |-> FALSE]
CurrentHead(t) == IF t.heads = <<>> THEN "empty" ELSE t.heads[Len(t.heads)]
SawBeforeCurrent(t, head) == \E i \in 1 .. Len(t.heads) - 1: t.heads[i] = head

RecordHead(heads, head) ==
    LET longer == Append(heads, head)
    IN  IF Len(longer) > HeadHistorySize THEN Tail(longer) ELSE longer

\* evidenceTrack.observe
Observe(t, head) ==
    CASE head = "empty" -> [t EXCEPT !.truncated = @ \/ CurrentHead(t) # "empty"]
      [] head \notin {"empty", CurrentHead(t)} ->
           [t EXCEPT !.regressed = @ \/ SawBeforeCurrent(t, head), !.heads = RecordHead(@, head)]
      [] OTHER -> t

\* What Upsert leaves in registry.evidence, and in the node's record: a device
\* that has reported evidence and omits it is kept, as unavailable.
TrackAfter(d, b) ==
    IF b.head = "omitted" THEN track[d]
    ELSE <<Observe(IF track[d] = <<>> THEN NoTrack ELSE track[d][1], b.head)>>

EvidenceSound(t, available) ==
    t = <<>> \/ (available /\ ~t[1].truncated /\ ~t[1].regressed)

-----------------------------------------------------------------------------
(* RuntimeHeartbeatHandler.Handle and Registry.Upsert                      *)

\* The age of the report: it moves when last_seen_ms passes the previous
\* heartbeat's.
AdvancedAfter(d, b) ==
    IF nodes[d] # <<>> /\ b.seen <= nodes[d][1].seen THEN nodes[d][1].advanced ELSE 0

\* A heartbeat that is verified and valid replaces the node's record, but not
\* the severity of its export; the handler then starts a posture fetch unless
\* one is in flight.
HandleHeartbeat(d, b) ==
    /\ Verdict(b.reasons, b.status) = "accepted"
    /\ track' = [track EXCEPT ![d] = TrackAfter(d, b)]
    /\ nodes' = [nodes EXCEPT ![d] = <<[status |-> b.status, seen |-> b.seen,
                     received |-> 0, advanced |-> AdvancedAfter(d, b),
                     sound |-> EvidenceSound(TrackAfter(d, b), b.head # "omitted" /\ b.available),
                     severity |-> exportSeverity[d]]>>]
    /\ silentCritical' = silentCritical \ {d}
    /\ fetching' = fetching \cup {d}
    /\ claim' = [claim EXCEPT
         ![d].beat = Worse(Severity[b.status],
                       IF \E i \in 1 .. Len(b.reasons): b.reasons[i] \in {Grave, SnapshotInvalid} THEN 2 ELSE 0),
         ![d].suspect = @ \/ (b.head # "omitted" /\ track[d] # <<>>
                              /\ LET heads == track[d][1].heads
                                 IN  IF b.head = "empty" THEN heads # <<>>
                                     ELSE heads # <<>> /\ \E i \in 1 .. Len(heads) - 1:
                                            heads[i] = b.head /\ heads[Len(heads)] # b.head)]
    /\ UNCHANGED <<exportSeverity, latched>>

-----------------------------------------------------------------------------
(* Reading a health export                                                 *)

\* readHealthItem, and what of snapshotFault the reading depends on: the item
\* is listed member by member for its encoding, lacks or mistypes one, or has
\* one the closed v2.5.0 set does not list.
SnapshotFault(i) ==
    \/ i.shape = "lacking" \/ i.critical = "mistyped"
    \/ i.shape = "extended" /\ i.critical = "absent"

SaysCritical(i) == i.critical = "true" \/ i.status = "critical"

ReadHealthItem(i, known) ==
    IF SaysCritical(i) THEN "critical"
    ELSE IF i.marker = "remote" THEN IF i.status \in {"ok", "degraded"} THEN i.status ELSE "unknown"
    ELSE IF known \/ i.marker = "other" \/ i.projectionMember \/ SnapshotFault(i) THEN "unknown"
    ELSE IF i.status = "degraded" THEN "degraded"
    ELSE IF i.reasons /\ i.status \in {"absent", "ok"} THEN "unknown"
    ELSE IF i.status = "absent" \/ (i.status = "ok" /\ i.critical # "absent") THEN "ok"
    ELSE "unknown"

\* exportSeverityFloor of siteExportSeverity: anything else is never ok.
ExportSeverityFloor(severity) ==
    CASE severity \in {"none", "ok"} -> 0 [] severity = "critical" -> 2 [] OTHER -> 1

\* What an item vouches for by itself, stated apart from how the reading finds
\* it: critical if it says so anywhere, well only where it says so in a form
\* the device may still use.
Vouched(i, known) ==
    IF SaysCritical(i) THEN 2
    ELSE IF \/ i.marker = "remote" /\ i.status = "ok"
            \/ /\ ~known /\ i.marker = "absent" /\ ~i.projectionMember
               /\ i.shape # "lacking" /\ (i.shape = "extended" => i.critical = "false")
               /\ i.critical \in {"absent", "false"} /\ ~i.reasons
               /\ i.status = "absent" \/ (i.status = "ok" /\ i.critical = "false")
    THEN 0 ELSE 1

Latch(d, marker) == latched' = IF marker = "remote" THEN latched \cup {d} ELSE latched

\* fetchAndUpsertPosture: Health reads the export and sets the latch, then
\* UpsertPosture records the severity, for an evicted node too.
FetchPosture(d, i) ==
    /\ d \in fetching
    /\ Latch(d, i.marker)
    /\ LET severity == ReadHealthItem(i, d \in latched)
       IN  /\ exportSeverity' = [exportSeverity EXCEPT ![d] = severity]
           /\ nodes' = IF nodes[d] = <<>> THEN nodes ELSE [nodes EXCEPT ![d][1].severity = severity]
    /\ fetching' = fetching \ {d}
    /\ claim' = [claim EXCEPT ![d].export = Vouched(i, d \in latched)]
    /\ UNCHANGED <<track, silentCritical>>

FetchFails(d) ==
    /\ d \in fetching
    /\ fetching' = fetching \ {d}
    /\ UNCHANGED <<nodes, track, exportSeverity, silentCritical, latched, claim>>

\* The weekly report reads a health export too, and only the latch keeps it.
Markers == {i.marker: i \in HealthItems}

ReportReads(d, marker) ==
    /\ Latch(d, marker)
    /\ UNCHANGED <<nodes, track, exportSeverity, silentCritical, fetching, claim>>

-----------------------------------------------------------------------------
(* Silence                                                                 *)

Older(age) == IF age > NodeTTL THEN age ELSE age + 1

TimePasses ==
    /\ nodes' = [d \in Nodes |->
                   IF nodes[d] = <<>> THEN <<>>
                   ELSE <<[nodes[d][1] EXCEPT !.received = Older(@), !.advanced = Older(@)]>>]
    /\ UNCHANGED <<track, exportSeverity, silentCritical, latched, fetching, claim>>

Silent(d) == nodes[d] # <<>> /\ nodes[d][1].received > NodeTTL

\* Mutant: a silent node is evicted, whatever it last said.
RetainsNone(d) == FALSE
Retains(d) == nodes[d][1].status = "critical" \/ nodes[d][1].severity = "critical"

\* EvictStaleRetainingCritical
EvictStale ==
    LET evicted == {d \in Nodes: Silent(d) /\ ~Retains(d)}
    IN  /\ nodes' = [d \in Nodes |-> IF d \in evicted THEN <<>> ELSE nodes[d]]
        /\ track' = [d \in Nodes |-> IF d \in evicted THEN <<>> ELSE track[d]]
        /\ silentCritical' = silentCritical \cup {d \in Nodes: Silent(d) /\ Retains(d)}
        /\ claim' = [d \in Nodes |-> IF d \in evicted THEN [claim[d] EXCEPT !.suspect = FALSE] ELSE claim[d]]
        /\ UNCHANGED <<exportSeverity, latched, fetching>>

-----------------------------------------------------------------------------
(* Projector.Project                                                       *)

Projected(d) ==
    IF nodes[d] = <<>>
    THEN Worse(1, ExportSeverityFloor(exportSeverity[d]))
    ELSE LET n == nodes[d][1]
             stale == n.advanced > NodeTTL
         IN  Worse(Worse(Severity[n.status], ExportSeverityFloor(n.severity)),
                   IF stale \/ ~n.sound THEN 1 ELSE 0)

SiteNext ==
    \/ \E d \in Nodes:
         \/ \E b \in Beats: HandleHeartbeat(d, b)
         \/ FetchFails(d)
         \/ d \in fetching /\ \E i \in HealthItems: FetchPosture(d, i)
         \/ \E marker \in Markers: ReportReads(d, marker)
    \/ TimePasses \/ EvictStale

SiteSpec == SiteInit /\ [][SiteNext]_siteVars

-----------------------------------------------------------------------------
(* The projection never shows a node as less severe than it stands by: its  *)
(* last accepted heartbeat and every reason in it, its last health export,  *)
(* a chain head that went back or vanished since the node was last evicted, *)
(* and a report that has stopped moving.  Heartbeats, fetches and eviction  *)
(* may come in any order.                                                   *)
NeverUnderstated ==
    \A d \in Nodes:
       /\ Projected(d) >= claim[d].beat
       /\ Projected(d) >= claim[d].export
       /\ claim[d].suspect => Projected(d) >= 1
       /\ nodes[d] = <<>> \/ nodes[d][1].advanced > NodeTTL => Projected(d) >= 1
=============================================================================
