----------------------------- MODULE SiteProofs -----------------------------
(***************************************************************************)
(* What the gateway concludes about the devices of its site, for any devices, *)
(* artifacts, returns, reports and capacity: the severity of a node is not *)
(* understated, a return leaves the queue by its own runtime's decision, a *)
(* hold ends for a cause of its own device, and what a runtime was told is *)
(* queued is kept.                                                         *)
(***************************************************************************)
EXTENDS SiteHealth, ReturnPath, SequenceTheorems, TLAPS

-----------------------------------------------------------------------------
(* The severity of a node                                                  *)

Statuses == {"healthy", "degraded", "critical"}
Severities == {"none", "ok", "degraded", "critical", "unknown"}
NodeRecords == [status : Statuses, seen : Nat, received : Nat, advanced : Nat,
                sound : BOOLEAN, severity : Severities]
Tracks == [heads : Seq(Heads \ {"empty"}), truncated : BOOLEAN, regressed : BOOLEAN]
Claims == [beat : 0 .. 2, export : 0 .. 2, suspect : BOOLEAN]

SiteTypeOK ==
    /\ nodes \in [Nodes -> Seq(NodeRecords)] /\ track \in [Nodes -> Seq(Tracks)]
    /\ exportSeverity \in [Nodes -> Severities] /\ claim \in [Nodes -> Claims]

\* What a record n, a memory of heads t and an export severity x hold of what a
\* device stands by, c.
Stands(n, t, x, c) ==
    /\ c.export <= ExportSeverityFloor(x)
    /\ n = <<>> => c.beat <= 1
    /\ n # <<>> => /\ n[1].severity = x /\ c.beat <= Severity[n[1].status]
                   /\ c.suspect => ~n[1].sound
    /\ c.suspect => t # <<>> /\ (t[1].truncated \/ t[1].regressed)

SiteInv == SiteTypeOK /\ \A d \in Nodes : Stands(nodes[d], track[d], exportSeverity[d], claim[d])

LEMMA SeverityIs ==
    /\ DOMAIN Severity = Statuses
    /\ Severity["healthy"] = 0 /\ Severity["degraded"] = 1 /\ Severity["critical"] = 2
  BY DEF Severity, Statuses

LEMMA FloorIs ==
    /\ ExportSeverityFloor("none") = 0 /\ ExportSeverityFloor("ok") = 0
    /\ ExportSeverityFloor("degraded") = 1 /\ ExportSeverityFloor("unknown") = 1
    /\ ExportSeverityFloor("critical") = 2
  BY DEF ExportSeverityFloor

\* A heartbeat that is accepted never carries a reason graver than its status.
LEMMA AcceptedIsNotUnderstated ==
    ASSUME NEW b \in Beats, Verdict(b.reasons, b.status) = "accepted"
    PROVE  /\ b.status \in Statuses
           /\ (\E i \in 1 .. Len(b.reasons) : b.reasons[i] \in {Grave, SnapshotInvalid}) => b.status = "critical"
<1>1. b.status \in Statuses
  BY SeverityIs DEF Verdict
<1>2. ASSUME NEW i \in 1 .. Len(b.reasons), b.reasons[i] \in {Grave, SnapshotInvalid}
      PROVE  b.status = "critical"
  <2>1. b.reasons # <<>>
    BY <1>2
  <2>2. ~\E j \in 1 .. Len(b.reasons) : ReasonSeverity[b.reasons[j]] > Severity[b.status]
    BY <2>1, Zenon DEF Verdict
  <2>3. ReasonSeverity[b.reasons[i]] = 2
    BY <1>2 DEF ReasonSeverity, Vocabulary, Light, Mild, Grave, SnapshotInvalid
  <2>4. ~(2 > Severity[b.status])
    BY <1>2, <2>2, <2>3, Zenon
  <2> QED
    BY <1>1, <2>4, SeverityIs DEF Statuses
<1> QED
  BY <1>1, <1>2

\* What the gateway reads from a health export is at least what it vouches for.
LEMMA ReadIsAtLeastVouched ==
    ASSUME NEW i \in HealthItems, NEW known \in BOOLEAN
    PROVE  /\ ReadHealthItem(i, known) \in Severities /\ Vouched(i, known) \in 0 .. 2
           /\ Vouched(i, known) <= ExportSeverityFloor(ReadHealthItem(i, known))
<1>1. /\ i.marker \in {"absent", "remote", "other"} /\ i.status \in {"absent", "ok", "degraded", "critical", "other"}
      /\ i.critical \in {"absent", "true", "false", "mistyped"} /\ i.shape \in {"listed", "lacking", "extended"}
  BY SiteAssumption
<1>2. ReadHealthItem(i, known) \in Severities
  BY DEF ReadHealthItem, Severities
<1>3. Vouched(i, known) \in 0 .. 2
  BY DEF Vouched
<1>4. CASE SaysCritical(i)
  <2>1. ReadHealthItem(i, known) = "critical" /\ Vouched(i, known) = 2
    BY <1>4 DEF ReadHealthItem, Vouched
  <2> QED
    BY <1>2, <1>3, <2>1, FloorIs
<1>5. CASE ~SaysCritical(i) /\ ReadHealthItem(i, known) # "ok"
  <2>1. Vouched(i, known) <= 1
    BY <1>5 DEF Vouched
  <2>2. ReadHealthItem(i, known) # "none"
    BY <1>1, <1>5 DEF ReadHealthItem
  <2> QED
    BY <1>2, <1>3, <1>5, <2>1, <2>2, FloorIs DEF Severities
<1>6. CASE ~SaysCritical(i) /\ ReadHealthItem(i, known) = "ok"
  <2>1. CASE i.marker = "remote"
    <3>1. Vouched(i, known) = 0
      BY <1>6, <2>1 DEF ReadHealthItem, Vouched
    <3> QED
      BY <1>2, <1>3, <1>6, <3>1, FloorIs
  <2>2. CASE i.marker # "remote"
    <3>1. /\ ~known /\ i.marker # "other" /\ ~i.projectionMember /\ ~SnapshotFault(i)
          /\ ~(i.reasons /\ i.status \in {"absent", "ok"})
          /\ i.status = "absent" \/ (i.status = "ok" /\ i.critical # "absent")
      BY <1>6, <2>2, Zenon DEF ReadHealthItem
    <3>2. /\ i.shape # "lacking" /\ i.critical \in {"absent", "false"}
          /\ i.shape = "extended" => i.critical = "false"
      BY <1>1, <1>6, <3>1 DEF SnapshotFault, SaysCritical
    <3>3. Vouched(i, known) = 0
      BY <1>1, <1>6, <2>2, <3>1, <3>2 DEF Vouched
    <3> QED
      BY <1>2, <1>3, <1>6, <3>3, FloorIs
  <2> QED
    BY <2>1, <2>2
<1> QED
  BY <1>2, <1>3, <1>4, <1>5, <1>6

\* A memory of heads that is suspect stays so, and becomes so when a head goes
\* back or vanishes.
LEMMA ObserveKeeps ==
    ASSUME NEW t \in Tracks, NEW head \in Heads \cup {"empty"}
    PROVE  /\ Observe(t, head) \in Tracks
           /\ (t.truncated \/ t.regressed) => Observe(t, head).truncated \/ Observe(t, head).regressed
           /\ (head = "empty" /\ t.heads # <<>>) => Observe(t, head).truncated
           /\ (/\ head # "empty" /\ t.heads # <<>> /\ t.heads[Len(t.heads)] # head
               /\ \E i \in 1 .. Len(t.heads) - 1 : t.heads[i] = head) => Observe(t, head).regressed
<1>1. /\ t.heads \in Seq(Heads \ {"empty"}) /\ t.truncated \in BOOLEAN /\ t.regressed \in BOOLEAN
      /\ t = [heads |-> t.heads, truncated |-> t.truncated, regressed |-> t.regressed]
  BY DEF Tracks
<1>2. t.heads # <<>> => CurrentHead(t) = t.heads[Len(t.heads)] /\ CurrentHead(t) # "empty"
  BY <1>1 DEF CurrentHead
<1>3. CASE head = "empty"
  <2>1. Observe(t, head) = [t EXCEPT !.truncated = @ \/ CurrentHead(t) # "empty"]
    BY <1>3 DEF Observe
  <2> DEFINE flag == t.truncated \/ CurrentHead(t) # "empty"
  <2>2. Observe(t, head) = [heads |-> t.heads, truncated |-> flag, regressed |-> t.regressed]
    BY <1>1, <2>1
  <2>3. flag \in BOOLEAN /\ (t.truncated => flag) /\ (t.heads # <<>> => flag)
    BY <1>2
  <2> HIDE DEF flag
  <2> QED
    BY <1>1, <1>3, <2>2, <2>3 DEF Tracks
<1>4. CASE head # "empty" /\ head # CurrentHead(t)
  <2>1. Observe(t, head) = [t EXCEPT !.regressed = @ \/ SawBeforeCurrent(t, head), !.heads = RecordHead(@, head)]
    BY <1>4 DEF Observe
  <2> DEFINE flag == t.regressed \/ SawBeforeCurrent(t, head)
             heads == RecordHead(t.heads, head)
  <2>2. Observe(t, head) = [heads |-> heads, truncated |-> t.truncated, regressed |-> flag]
    BY <1>1, <2>1, Zenon
  <2>3. flag \in BOOLEAN /\ (t.regressed => flag) /\ (SawBeforeCurrent(t, head) => flag)
    OBVIOUS
  <2>4. heads \in Seq(Heads \ {"empty"})
    BY <1>1, <1>4 DEF RecordHead
  <2> HIDE DEF flag, heads
  <2>5. Observe(t, head) \in Tracks
    BY <1>1, <2>2, <2>3, <2>4 DEF Tracks
  <2>6. /\ Observe(t, head).truncated = t.truncated /\ Observe(t, head).regressed = flag
    BY <2>2
  <2> QED
    BY <1>4, <2>3, <2>5, <2>6 DEF SawBeforeCurrent
<1>5. CASE head # "empty" /\ head = CurrentHead(t)
  <2>1. Observe(t, head) = t
    BY <1>5 DEF Observe
  <2> QED
    BY <1>2, <1>5, <2>1
<1> QED
  BY <1>3, <1>4, <1>5

\* A heartbeat leaves a record, a memory and a claim that stand together.
LEMMA HeartbeatStands ==
    ASSUME SiteInv, NEW d \in Nodes, NEW b \in Beats, HandleHeartbeat(d, b)
    PROVE  /\ nodes'[d] \in Seq(NodeRecords) /\ track'[d] \in Seq(Tracks) /\ claim'[d] \in Claims
           /\ Stands(nodes'[d], track'[d], exportSeverity[d], claim'[d])
<1> DEFINE grave == IF \E i \in 1 .. Len(b.reasons): b.reasons[i] \in {Grave, SnapshotInvalid} THEN 2 ELSE 0
           beat == Worse(Severity[b.status], grave)
           moved == /\ b.head # "omitted" /\ track[d] # <<>>
                    /\ LET heads == track[d][1].heads
                       IN  IF b.head = "empty" THEN heads # <<>>
                           ELSE heads # <<>> /\ \E i \in 1 .. Len(heads) - 1:
                                  heads[i] = b.head /\ heads[Len(heads)] # b.head
           sound == EvidenceSound(TrackAfter(d, b), b.head # "omitted" /\ b.available)
           rec == [status |-> b.status, seen |-> b.seen, received |-> 0, advanced |-> AdvancedAfter(d, b),
                   sound |-> sound, severity |-> exportSeverity[d]]
           c == claim[d]
           t == TrackAfter(d, b)
<1>1. /\ nodes \in [Nodes -> Seq(NodeRecords)] /\ track \in [Nodes -> Seq(Tracks)]
      /\ exportSeverity \in [Nodes -> Severities] /\ claim \in [Nodes -> Claims]
      /\ Stands(nodes[d], track[d], exportSeverity[d], c)
  BY DEF SiteInv, SiteTypeOK
<1>2. /\ nodes' = [nodes EXCEPT ![d] = <<rec>>] /\ track' = [track EXCEPT ![d] = t]
      /\ claim' = [claim EXCEPT ![d].beat = beat, ![d].suspect = @ \/ moved]
  BY DEF HandleHeartbeat
<1>3. nodes'[d] = <<rec>> /\ track'[d] = t
  BY <1>1, <1>2
<1>4. claim'[d] = [c EXCEPT !.beat = beat, !.suspect = @ \/ moved]
  BY <1>1, <1>2
<1>5. c.export \in 0 .. 2 /\ c.suspect \in BOOLEAN /\ c = [beat |-> c.beat, export |-> c.export, suspect |-> c.suspect]
  BY <1>1 DEF Claims
<1>6. claim'[d] = [beat |-> beat, export |-> c.export, suspect |-> c.suspect \/ moved]
  BY <1>4, <1>5, Zenon
<1>7. b.status \in Statuses /\ beat \in 0 .. 2 /\ beat = Severity[b.status]
  BY AcceptedIsNotUnderstated, SeverityIs DEF HandleHeartbeat, Worse, Statuses
<1>8. /\ b.seen \in Nat /\ b.available \in BOOLEAN /\ b.head \in Heads \cup {"empty", "omitted"}
  <2>1. b \in [status: {"healthy", "degraded", "critical", "other"}, reasons: Seq(1 .. 5),
               seen: 1 .. MaxSeen, head: Heads \cup {"empty", "omitted"}, available: BOOLEAN]
    BY SiteAssumption
  <2>2. b.seen \in 1 .. MaxSeen /\ b.available \in BOOLEAN /\ b.head \in Heads \cup {"empty", "omitted"}
    BY <2>1
  <2> QED
    BY <2>2, SiteAssumption
<1>9. AdvancedAfter(d, b) \in Nat
  <2>1. nodes[d] # <<>> => nodes[d][1] \in NodeRecords
    BY <1>1
  <2>2. nodes[d] # <<>> => nodes[d][1].advanced \in Nat
    BY <2>1 DEF NodeRecords
  <2> QED
    BY <2>2 DEF AdvancedAfter
<1>10. sound \in BOOLEAN
  BY DEF EvidenceSound
<1> HIDE DEF beat, grave, sound
<1>11. rec \in NodeRecords /\ rec.severity = exportSeverity[d] /\ rec.status = b.status /\ rec.sound = sound
  BY <1>1, <1>7, <1>8, <1>9, <1>10 DEF NodeRecords
<1>12. /\ t \in Seq(Tracks)
       /\ (c.suspect \/ moved) => t # <<>> /\ (t[1].truncated \/ t[1].regressed)
  <2>1. c.suspect => track[d] # <<>> /\ (track[d][1].truncated \/ track[d][1].regressed)
    BY <1>1 DEF Stands
  <2>2. CASE b.head = "omitted"
    BY <1>1, <2>1, <2>2 DEF TrackAfter
  <2>3. CASE b.head # "omitted"
    <3> DEFINE old == IF track[d] = <<>> THEN NoTrack ELSE track[d][1]
    <3>1. t = <<Observe(old, b.head)>>
      BY <2>3 DEF TrackAfter
    <3>2. old \in Tracks /\ b.head \in Heads \cup {"empty"}
      <4>1. <<>> \in Seq(Heads \ {"empty"})
        OBVIOUS
      <4>2. NoTrack \in Tracks
        BY <4>1 DEF NoTrack, Tracks
      <4>3. track[d] # <<>> => track[d][1] \in Tracks
        BY <1>1
      <4> QED
        BY <1>8, <2>3, <4>2, <4>3
    <3>3. track[d] # <<>> => old = track[d][1]
      OBVIOUS
    <3> HIDE DEF old, t
    <3>4. /\ Observe(old, b.head) \in Tracks
          /\ (old.truncated \/ old.regressed) => Observe(old, b.head).truncated \/ Observe(old, b.head).regressed
          /\ (b.head = "empty" /\ old.heads # <<>>) => Observe(old, b.head).truncated
          /\ (/\ b.head # "empty" /\ old.heads # <<>> /\ old.heads[Len(old.heads)] # b.head
              /\ \E i \in 1 .. Len(old.heads) - 1 : old.heads[i] = b.head) => Observe(old, b.head).regressed
      BY <3>2, ObserveKeeps
    <3>5. moved => Observe(old, b.head).truncated \/ Observe(old, b.head).regressed
      BY <3>3, <3>4
    <3>6. c.suspect => Observe(old, b.head).truncated \/ Observe(old, b.head).regressed
      BY <2>1, <3>3, <3>4
    <3>7. t \in Seq(Tracks) /\ t # <<>> /\ t[1] = Observe(old, b.head)
      BY <3>1, <3>4
    <3> QED
      BY <3>5, <3>6, <3>7
  <2> QED
    BY <2>2, <2>3
<1>13. (c.suspect \/ moved) => ~sound
  BY <1>12 DEF sound, EvidenceSound
<1> DEFINE flag == c.suspect \/ moved
<1>14. flag \in BOOLEAN /\ claim'[d] = [beat |-> beat, export |-> c.export, suspect |-> flag]
  BY <1>6
<1>15. (flag => t # <<>> /\ (t[1].truncated \/ t[1].regressed)) /\ (flag => ~sound)
  BY <1>12, <1>13
<1>16. c.export <= ExportSeverityFloor(exportSeverity[d])
  BY <1>1 DEF Stands
<1> HIDE DEF t, rec, moved, c, flag
<1>17. claim'[d] \in Claims /\ claim'[d].beat = beat /\ claim'[d].export = c.export /\ claim'[d].suspect = flag
  BY <1>5, <1>7, <1>14 DEF Claims
<1>18. nodes'[d] \in Seq(NodeRecords) /\ nodes'[d] # <<>> /\ nodes'[d][1] = rec
  BY <1>3, <1>11
<1>19. Severity[b.status] <= Severity[b.status]
  BY <1>7, SeverityIs DEF Statuses
<1> QED
  BY <1>3, <1>7, <1>11, <1>12, <1>15, <1>16, <1>17, <1>18, <1>19 DEF Stands

\* A fetched export, recorded with the node or without one.
LEMMA FetchStands ==
    ASSUME SiteInv, NEW d \in Nodes, NEW i \in HealthItems, FetchPosture(d, i)
    PROVE  /\ nodes' \in [Nodes -> Seq(NodeRecords)] /\ exportSeverity'[d] \in Severities /\ claim'[d] \in Claims
           /\ \A e \in Nodes \ {d} : nodes'[e] = nodes[e]
           /\ Stands(nodes'[d], track[d], exportSeverity'[d], claim'[d])
<1> DEFINE severity == ReadHealthItem(i, d \in latched)
           vouched == Vouched(i, d \in latched)
           n == nodes[d]
           c == claim[d]
           rec == [n[1] EXCEPT !.severity = severity]
<1>1. /\ nodes \in [Nodes -> Seq(NodeRecords)] /\ exportSeverity \in [Nodes -> Severities]
      /\ claim \in [Nodes -> Claims] /\ Stands(n, track[d], exportSeverity[d], c)
  BY DEF SiteInv, SiteTypeOK
<1>2. severity \in Severities /\ vouched \in 0 .. 2 /\ vouched <= ExportSeverityFloor(severity)
  <2>1. (d \in latched) \in BOOLEAN
    OBVIOUS
  <2> QED
    BY <2>1, ReadIsAtLeastVouched, Zenon
<1>3. /\ exportSeverity' = [exportSeverity EXCEPT ![d] = severity]
      /\ nodes' = IF n = <<>> THEN nodes ELSE [nodes EXCEPT ![d] = [n EXCEPT ![1] = rec]]
      /\ claim' = [claim EXCEPT ![d] = [c EXCEPT !.export = vouched]]
  BY DEF FetchPosture
<1> HIDE DEF severity, vouched
<1>4. exportSeverity'[d] = severity /\ claim'[d] = [c EXCEPT !.export = vouched]
  BY <1>1, <1>3
<1>5. /\ claim'[d] \in Claims /\ claim'[d].beat = c.beat /\ claim'[d].export = vouched
      /\ claim'[d].suspect = c.suspect
  BY <1>1, <1>2, <1>4 DEF Claims
<1>6. CASE n = <<>>
  BY <1>1, <1>2, <1>3, <1>4, <1>5, <1>6 DEF Stands
<1>7. CASE n # <<>>
  <2>1. n \in Seq(NodeRecords) /\ 1 \in 1 .. Len(n) /\ n[1] \in NodeRecords
    BY <1>1, <1>7
  <2>2. /\ rec \in NodeRecords /\ rec.severity = severity /\ rec.status = n[1].status /\ rec.sound = n[1].sound
    BY <1>2, <2>1, Zenon DEF NodeRecords
  <2> HIDE DEF n, rec
  <2>3. [n EXCEPT ![1] = rec] \in Seq(NodeRecords) /\ [n EXCEPT ![1] = rec][1] = rec
        /\ Len([n EXCEPT ![1] = rec]) = Len(n)
    BY <2>1, <2>2, ExceptSeq
  <2> DEFINE new == [n EXCEPT ![1] = rec]
  <2> HIDE DEF new
  <2>4. new \in Seq(NodeRecords) /\ new # <<>> /\ new[1] = rec
    BY <2>1, <2>3 DEF new
  <2>5. nodes' = [nodes EXCEPT ![d] = new]
    BY <1>3, <1>7 DEF new
  <2>6. nodes' \in [Nodes -> Seq(NodeRecords)] /\ nodes'[d] = new /\ \A e \in Nodes \ {d} : nodes'[e] = nodes[e]
    BY <1>1, <2>4, <2>5
  <2> QED
    BY <1>1, <1>2, <1>4, <1>5, <1>7, <2>2, <2>4, <2>6 DEF Stands
<1> QED
  BY <1>6, <1>7

LEMMA SiteInvStep ==
    ASSUME SiteInv, [SiteNext]_siteVars
    PROVE  SiteInv'
<1>a. /\ nodes \in [Nodes -> Seq(NodeRecords)] /\ track \in [Nodes -> Seq(Tracks)]
      /\ exportSeverity \in [Nodes -> Severities] /\ claim \in [Nodes -> Claims]
      /\ \A e \in Nodes : Stands(nodes[e], track[e], exportSeverity[e], claim[e])
  BY DEF SiteInv, SiteTypeOK
<1>b. SUFFICES /\ SiteTypeOK'
               /\ \A e \in Nodes : Stands(nodes'[e], track'[e], exportSeverity'[e], claim'[e])
  BY DEF SiteInv, Stands, ExportSeverityFloor, Severity
<1>1. ASSUME NEW d \in Nodes, NEW b \in Beats, HandleHeartbeat(d, b)
      PROVE  /\ SiteTypeOK'
             /\ \A e \in Nodes : Stands(nodes'[e], track'[e], exportSeverity'[e], claim'[e])
  <2>1. /\ nodes'[d] \in Seq(NodeRecords) /\ track'[d] \in Seq(Tracks) /\ claim'[d] \in Claims
        /\ Stands(nodes'[d], track'[d], exportSeverity[d], claim'[d])
    BY <1>1, HeartbeatStands
  <2>2. /\ \E r : nodes' = [nodes EXCEPT ![d] = r]
        /\ \E t : track' = [track EXCEPT ![d] = t]
        /\ \E c : claim' = [claim EXCEPT ![d] = c]
        /\ exportSeverity' = exportSeverity
    BY <1>1, Zenon DEF HandleHeartbeat
  <2>3. \A e \in Nodes \ {d} : nodes'[e] = nodes[e] /\ track'[e] = track[e] /\ claim'[e] = claim[e]
    BY <1>a, <2>2
  <2>4. SiteTypeOK'
    BY <1>a, <2>1, <2>2 DEF SiteTypeOK
  <2> QED
    BY <1>a, <2>1, <2>2, <2>3, <2>4
<1>2. ASSUME NEW d \in Nodes, NEW i \in HealthItems, FetchPosture(d, i)
      PROVE  /\ SiteTypeOK'
             /\ \A e \in Nodes : Stands(nodes'[e], track'[e], exportSeverity'[e], claim'[e])
  <2>1. /\ nodes' \in [Nodes -> Seq(NodeRecords)] /\ exportSeverity'[d] \in Severities /\ claim'[d] \in Claims
        /\ \A e \in Nodes \ {d} : nodes'[e] = nodes[e]
        /\ Stands(nodes'[d], track[d], exportSeverity'[d], claim'[d])
    BY <1>2, FetchStands
  <2>2. /\ \E x : exportSeverity' = [exportSeverity EXCEPT ![d] = x]
        /\ \E c : claim' = [claim EXCEPT ![d] = c]
        /\ track' = track
    BY <1>2, Zenon DEF FetchPosture
  <2>3. \A e \in Nodes \ {d} : exportSeverity'[e] = exportSeverity[e] /\ claim'[e] = claim[e]
    BY <1>a, <2>2
  <2>4. SiteTypeOK'
    BY <1>a, <2>1, <2>2 DEF SiteTypeOK
  <2> QED
    BY <1>a, <2>1, <2>2, <2>3, <2>4
<1>3. ASSUME UNCHANGED <<nodes, track, exportSeverity, claim>>
      PROVE  /\ SiteTypeOK'
             /\ \A e \in Nodes : Stands(nodes'[e], track'[e], exportSeverity'[e], claim'[e])
  BY <1>a, <1>3 DEF SiteTypeOK
<1>4. ASSUME NEW d \in Nodes, FetchFails(d) \/ \E marker \in Markers : ReportReads(d, marker)
      PROVE  UNCHANGED <<nodes, track, exportSeverity, claim>>
  BY <1>4 DEF FetchFails, ReportReads
<1>5. ASSUME TimePasses
      PROVE  /\ SiteTypeOK'
             /\ \A e \in Nodes : Stands(nodes'[e], track'[e], exportSeverity'[e], claim'[e])
  <2>1. UNCHANGED <<track, exportSeverity, claim>>
    BY <1>5, ZenonT(30) DEF TimePasses
  <2> DEFINE Aged(n) == [n EXCEPT !.received = Older(@), !.advanced = Older(@)]
  <2>2. nodes' = [e \in Nodes |-> IF nodes[e] = <<>> THEN <<>> ELSE <<Aged(nodes[e][1])>>]
    BY <1>5, Zenon DEF TimePasses
  <2>3. ASSUME NEW n \in NodeRecords
        PROVE  /\ Aged(n) \in NodeRecords /\ Aged(n).status = n.status
               /\ Aged(n).sound = n.sound /\ Aged(n).severity = n.severity
    <3>1. Older(n.received) \in Nat /\ Older(n.advanced) \in Nat
      BY SiteAssumption DEF Older, NodeRecords
    <3> QED
      BY <3>1, Zenon DEF NodeRecords
  <2> HIDE DEF Aged
  <2>4. ASSUME NEW e \in Nodes
        PROVE  nodes'[e] \in Seq(NodeRecords) /\ Stands(nodes'[e], track[e], exportSeverity[e], claim[e])
    <3>1. CASE nodes[e] = <<>>
      BY <1>a, <2>2, <3>1
    <3>2. CASE nodes[e] # <<>>
      <4>1. nodes[e][1] \in NodeRecords
        BY <1>a, <3>2
      <4>2. nodes'[e] = <<Aged(nodes[e][1])>>
        BY <2>2, <3>2
      <4>3. nodes'[e] \in Seq(NodeRecords) /\ nodes'[e] # <<>> /\ nodes'[e][1] = Aged(nodes[e][1])
        BY <2>3, <4>1, <4>2
      <4> QED
        BY <1>a, <2>3, <3>2, <4>1, <4>3, Zenon DEF Stands
    <3> QED
      BY <3>1, <3>2
  <2>5. SiteTypeOK'
    BY <1>a, <2>1, <2>2, <2>4 DEF SiteTypeOK
  <2> QED
    BY <2>1, <2>4, <2>5
<1>6. ASSUME EvictStale
      PROVE  /\ SiteTypeOK'
             /\ \A e \in Nodes : Stands(nodes'[e], track'[e], exportSeverity'[e], claim'[e])
  <2> DEFINE evicted == {d \in Nodes: Silent(d) /\ ~Retains(d)}
  <2>1. /\ nodes' = [d \in Nodes |-> IF d \in evicted THEN <<>> ELSE nodes[d]]
        /\ track' = [d \in Nodes |-> IF d \in evicted THEN <<>> ELSE track[d]]
        /\ claim' = [d \in Nodes |-> IF d \in evicted THEN [claim[d] EXCEPT !.suspect = FALSE] ELSE claim[d]]
        /\ exportSeverity' = exportSeverity
    BY <1>6 DEF EvictStale
  <2>2. ASSUME NEW e \in Nodes, e \in evicted
        PROVE  /\ claim'[e] \in Claims /\ Stands(nodes'[e], track'[e], exportSeverity[e], claim'[e])
    <3>1. nodes[e] # <<>> /\ nodes[e][1].status # "critical"
      BY <2>2 DEF Silent, Retains
    <3>2. nodes[e][1] \in NodeRecords
      BY <1>a, <3>1
    <3>3. Severity[nodes[e][1].status] <= 1
      BY <3>1, <3>2, SeverityIs DEF NodeRecords, Statuses
    <3>4. /\ claim[e].beat \in 0 .. 2 /\ claim[e].beat <= Severity[nodes[e][1].status]
          /\ claim[e].export <= ExportSeverityFloor(exportSeverity[e])
      BY <1>a, <3>1 DEF Stands, Claims
    <3>5. claim[e].beat <= 1
      BY <3>1, <3>2, <3>3, <3>4, SeverityIs DEF NodeRecords, Statuses
    <3>6. claim'[e] = [claim[e] EXCEPT !.suspect = FALSE] /\ nodes'[e] = <<>>
      BY <2>1, <2>2
    <3>7. /\ claim'[e] \in Claims /\ claim'[e].beat = claim[e].beat /\ claim'[e].export = claim[e].export
          /\ claim'[e].suspect = FALSE
      BY <1>a, <3>6, Zenon DEF Claims
    <3> QED
      BY <3>4, <3>5, <3>6, <3>7 DEF Stands
  <2>3. ASSUME NEW e \in Nodes, e \notin evicted
        PROVE  nodes'[e] = nodes[e] /\ track'[e] = track[e] /\ claim'[e] = claim[e]
    BY <2>1, <2>3
  <2> HIDE DEF evicted
  <2>4. SiteTypeOK'
    <3>1. \A S : <<>> \in Seq(S)
      OBVIOUS
    <3>2. nodes' \in [Nodes -> Seq(NodeRecords)] /\ track' \in [Nodes -> Seq(Tracks)]
      BY <1>a, <2>1, <3>1
    <3>3. claim' \in [Nodes -> Claims]
      BY <1>a, <2>1, <2>2, <2>3, Zenon
    <3> QED
      BY <1>a, <2>1, <3>2, <3>3 DEF SiteTypeOK
  <2> QED
    BY <1>a, <2>1, <2>2, <2>3, <2>4
<1>7. CASE UNCHANGED siteVars
  BY <1>3, <1>7 DEF siteVars
<1> QED
  BY <1>1, <1>2, <1>3, <1>4, <1>5, <1>6, <1>7 DEF SiteNext

\* The projection never shows a node as less severe than it stands by, whatever
\* the order of heartbeats, posture fetches and eviction (Registry.Upsert,
\* UpsertPosture, EvictStaleRetainingCritical, Projector.Project).
THEOREM SeverityIsNeverUnderstated == SiteSpec => []NeverUnderstated
<1>1. SiteInit => SiteInv
  <2> SUFFICES ASSUME SiteInit PROVE SiteInv
    OBVIOUS
  <2>1. SiteTypeOK
    BY DEF SiteInit, SiteTypeOK, Severities, Claims
  <2>2. ASSUME NEW d \in Nodes PROVE Stands(nodes[d], track[d], exportSeverity[d], claim[d])
    BY FloorIs DEF SiteInit, Stands
  <2> QED
    BY <2>1, <2>2 DEF SiteInv
<1>2. SiteInv /\ [SiteNext]_siteVars => SiteInv'
  BY SiteInvStep
<1>3. SiteInv => NeverUnderstated
  <2> SUFFICES ASSUME SiteInv, NEW d \in Nodes
               PROVE  /\ Projected(d) >= claim[d].beat
                      /\ Projected(d) >= claim[d].export
                      /\ claim[d].suspect => Projected(d) >= 1
                      /\ nodes[d] = <<>> \/ nodes[d][1].advanced > NodeTTL => Projected(d) >= 1
    BY DEF NeverUnderstated
  <2>1. /\ nodes[d] \in Seq(NodeRecords) /\ exportSeverity[d] \in Severities /\ claim[d] \in Claims
        /\ Stands(nodes[d], track[d], exportSeverity[d], claim[d])
    BY DEF SiteInv, SiteTypeOK
  <2>2. claim[d].beat \in 0 .. 2 /\ claim[d].export \in 0 .. 2
    BY <2>1 DEF Claims
  <2> DEFINE floor == ExportSeverityFloor(exportSeverity[d])
  <2>3. floor \in 0 .. 2
    BY <2>1, FloorIs DEF Severities
  <2> HIDE DEF floor
  <2>4. CASE nodes[d] = <<>>
    <3>1. Projected(d) = Worse(1, floor)
      BY <2>4 DEF Projected, floor
    <3>2. claim[d].beat <= 1 /\ claim[d].export <= floor
      BY <2>1, <2>4 DEF Stands, floor
    <3> QED
      BY <2>2, <2>3, <3>1, <3>2 DEF Worse
  <2>5. CASE nodes[d] # <<>>
    <3> DEFINE n == nodes[d][1]
               late == IF n.advanced > NodeTTL \/ ~n.sound THEN 1 ELSE 0
               own == Severity[n.status]
    <3>1. n \in NodeRecords
      BY <2>1, <2>5
    <3>2. own \in 0 .. 2
      BY <3>1, SeverityIs DEF NodeRecords, Statuses
    <3>3. n.severity = exportSeverity[d] /\ claim[d].beat <= own /\ (claim[d].suspect => ~n.sound)
          /\ claim[d].export <= floor
      BY <2>1, <2>5 DEF Stands, floor
    <3>4. Projected(d) = Worse(Worse(own, floor), late)
      BY <2>5, <3>3 DEF Projected, floor
    <3>5. late \in 0 .. 1 /\ (n.advanced > NodeTTL => late = 1) /\ (~n.sound => late = 1)
      OBVIOUS
    <3> HIDE DEF own, late
    <3>6. Projected(d) >= own /\ Projected(d) >= floor /\ Projected(d) >= late /\ Projected(d) \in Nat
      BY <2>3, <3>2, <3>4, <3>5 DEF Worse
    <3> QED
      BY <2>2, <2>3, <2>5, <3>2, <3>3, <3>5, <3>6
  <2> QED
    BY <2>4, <2>5
<1> QED
  BY <1>1, <1>2, <1>3, PTL DEF SiteSpec

-----------------------------------------------------------------------------
(* The return path                                                         *)

Retiring == InboundRefusalRetires \cup {""}
Carriages == [kind: {"carriage"}, art: Artifacts]
Acks == [kind: {"ack"}, item: Items, reason: Reasons \cup {""}, fresh: BOOLEAN]
Handlings == [step: {"idle", "queued", "acked"}, art: Artifacts \cup {Nothing}, new: BOOLEAN]
Kept == outq \cup gone

ReturnTypeOK ==
    /\ outq \subseteq Artifacts /\ returnq \in Seq(Items)
    /\ carrying \in Items \cup {Nothing}
    /\ handling \in [Devices -> Handlings]
    /\ down \in [Devices -> SUBSET Items]
    /\ up \in [Devices -> Seq(Carriages \cup Acks)]
    /\ deaths \in Nat

\* What waits from a runtime is an artifact of its own, or an acknowledgement;
\* one that retires names an item that runtime has decided.
SentIsTrue ==
    \A d \in Devices: \A k \in 1 .. Len(up[d]):
       /\ up[d][k].kind = "carriage" => DeviceOf[up[d][k].art] = d
       /\ up[d][k].kind = "ack" /\ up[d][k].reason \in Retiring => up[d][k].item \in decided

\* No item is queued twice, and a hold is on the head.
QueuedOnce == \A j, k \in 1 .. Len(returnq): returnq[j] = returnq[k] => j = k
HoldIsOnHead == holds = Nothing \/ (returnq # <<>> /\ holds = returnq[1])

\* What is being acknowledged is kept.
HandledIsKept ==
    \A d \in Devices:
       /\ handling[d].step # "idle" => handling[d].art \in Artifacts \cap Kept
       /\ handling[d].step = "acked" => handling[d].art \in DOMAIN CustodyOf

ToldIsKept == Artifacts \ unsent \subseteq Kept

\* A custody acknowledgement anywhere on its way is of an artifact that is kept.
OnItsWay(i) == i \in Stored \cup decided \/ i = carrying \/ \E d \in Devices: i \in down[d]
CustodyIsKept == \A a \in DOMAIN CustodyOf: OnItsWay(CustodyOf[a]) => a \in Kept

ReturnInv ==
    /\ ReturnTypeOK /\ SentIsTrue /\ QueuedOnce /\ HoldIsOnHead
    /\ HandledIsKept /\ ToldIsKept /\ CustodyIsKept

\* The elements of a sequence that grows or loses its head.
LEMMA RangeAppended ==
    ASSUME NEW S, NEW s \in Seq(S), NEW x \in S
    PROVE  Range(Append(s, x)) = Range(s) \cup {x}
<1>1. /\ Append(s, x) \in Seq(S) /\ Len(Append(s, x)) = Len(s) + 1 /\ Len(s) \in Nat
      /\ DOMAIN s = 1 .. Len(s) /\ DOMAIN Append(s, x) = 1 .. Len(s) + 1
      /\ \A k \in 1 .. Len(s): Append(s, x)[k] = s[k]
      /\ Append(s, x)[Len(s) + 1] = x
  BY AppendProperties, LenProperties
<1>2. ASSUME NEW y \in Range(Append(s, x)) PROVE y \in Range(s) \cup {x}
  <2>1. PICK k \in 1 .. Len(s) + 1: y = Append(s, x)[k]
    BY <1>1, <1>2 DEF Range
  <2>2. k \in 1 .. Len(s) \/ k = Len(s) + 1
    BY <1>1
  <2> QED
    BY <1>1, <2>1, <2>2 DEF Range
<1>3. ASSUME NEW y \in Range(s) \cup {x} PROVE y \in Range(Append(s, x))
  <2>1. CASE y \in Range(s)
    <3>1. PICK k \in 1 .. Len(s): y = s[k]
      BY <1>1, <2>1 DEF Range
    <3>2. k \in 1 .. Len(s) + 1 /\ y = Append(s, x)[k]
      BY <1>1, <3>1
    <3> QED
      BY <1>1, <3>2 DEF Range
  <2>2. CASE y = x
    <3>1. Len(s) + 1 \in 1 .. Len(s) + 1
      BY <1>1
    <3> QED
      BY <1>1, <2>2, <3>1 DEF Range
  <2> QED
    BY <1>3, <2>1, <2>2
<1> QED
  BY <1>2, <1>3

LEMMA RangeOfTail ==
    ASSUME NEW S, NEW s \in Seq(S), s # <<>>
    PROVE  /\ Range(s) = {s[1]} \cup Range(Tail(s)) /\ Head(s) = s[1]
           /\ (\A j, k \in 1 .. Len(s): s[j] = s[k] => j = k) => s[1] \notin Range(Tail(s))
<1>1. /\ Tail(s) \in Seq(S) /\ Len(s) \in Nat /\ Len(s) >= 1 /\ Len(Tail(s)) = Len(s) - 1
      /\ DOMAIN s = 1 .. Len(s) /\ DOMAIN Tail(s) = 1 .. Len(s) - 1
      /\ \A k \in 1 .. Len(s) - 1: Tail(s)[k] = s[k + 1]
      /\ Head(s) = s[1]
  BY HeadTailProperties, LenProperties
<1>2. ASSUME NEW y \in Range(s) PROVE y \in {s[1]} \cup Range(Tail(s))
  <2>1. PICK k \in 1 .. Len(s): y = s[k]
    BY <1>1, <1>2 DEF Range
  <2>2. CASE k # 1
    <3>1. k - 1 \in 1 .. Len(s) - 1 /\ (k - 1) + 1 = k
      BY <1>1, <2>2
    <3>2. Tail(s)[k - 1] = y
      BY <1>1, <2>1, <3>1
    <3> QED
      BY <1>1, <3>1, <3>2, Zenon DEF Range
  <2> QED
    BY <2>1, <2>2
<1>3. ASSUME NEW y \in Range(Tail(s)) PROVE \E k \in 2 .. Len(s): y = s[k]
  <2>1. PICK k \in 1 .. Len(s) - 1: y = Tail(s)[k]
    BY <1>1, <1>3 DEF Range
  <2>2. k + 1 \in 2 .. Len(s) /\ y = s[k + 1]
    BY <1>1, <2>1
  <2> QED
    BY <2>2
<1>4. \A k \in 2 .. Len(s): k \in 1 .. Len(s) /\ k # 1
  BY <1>1
<1>5. 1 \in 1 .. Len(s)
  BY <1>1
<1> QED
  BY <1>1, <1>2, <1>3, <1>4, <1>5 DEF Range

\* Nothing is queued, sent or told at first.
LEMMA ReturnStarts == ReturnInit => ReturnInv
<1> SUFFICES ASSUME ReturnInit PROVE ReturnInv
  OBVIOUS
<1>1. \A d \in Devices: handling[d] = Idle /\ down[d] = {} /\ up[d] = <<>>
  BY DEF ReturnInit
<1>2. Idle \in Handlings /\ Idle.step = "idle"
  BY DEF Idle, Handlings
<1>3. ReturnTypeOK
  BY <1>2 DEF ReturnInit, ReturnTypeOK
<1>4. SentIsTrue /\ HandledIsKept
  BY <1>1, <1>2 DEF SentIsTrue, HandledIsKept
<1>5. QueuedOnce /\ HoldIsOnHead /\ ToldIsKept
  BY DEF ReturnInit, QueuedOnce, HoldIsOnHead, ToldIsKept
<1>6. Stored = {} /\ decided = {} /\ carrying = Nothing
  BY DEF ReturnInit, Stored, Range
<1>7. CustodyIsKept
  BY <1>1, <1>6, ReturnAssumption DEF CustodyIsKept, OnItsWay
<1> QED
  BY <1>3, <1>4, <1>5, <1>7 DEF ReturnInv

\* A runtime sends a message of its own.
Sends(d, m) ==
    /\ m \in Carriages \cup Acks
    /\ up' = [up EXCEPT ![d] = Append(up[d], m)]
    /\ m.kind = "carriage" => DeviceOf[m.art] = d
    /\ m.kind = "ack" /\ m.reason \in Retiring => m.item \in decided'
    /\ decided \subseteq decided'

LEMMA SendKeeps ==
    ASSUME ReturnInv, NEW d \in Devices, NEW m, Sends(d, m)
    PROVE  up' \in [Devices -> Seq(Carriages \cup Acks)] /\ SentIsTrue'
<1>t. up \in [Devices -> Seq(Carriages \cup Acks)]
  BY DEF ReturnInv, ReturnTypeOK
<1>1. /\ Append(up[d], m) \in Seq(Carriages \cup Acks) /\ Len(up[d]) \in Nat
      /\ Len(Append(up[d], m)) = Len(up[d]) + 1
      /\ \A k \in 1 .. Len(up[d]): Append(up[d], m)[k] = up[d][k]
      /\ Append(up[d], m)[Len(up[d]) + 1] = m
  BY <1>t, AppendProperties, LenProperties DEF Sends
<1>2. /\ up' \in [Devices -> Seq(Carriages \cup Acks)] /\ up'[d] = Append(up[d], m)
      /\ \A x \in Devices \ {d}: up'[x] = up[x]
  BY <1>t, <1>1 DEF Sends
<1>3. ASSUME NEW x \in Devices, NEW k \in 1 .. Len(up'[x])
      PROVE  /\ up'[x][k].kind = "carriage" => DeviceOf[up'[x][k].art] = x
             /\ up'[x][k].kind = "ack" /\ up'[x][k].reason \in Retiring
                  => up'[x][k].item \in decided'
  <2>1. CASE x # d
    BY <1>2, <2>1 DEF ReturnInv, SentIsTrue, Sends
  <2>2. CASE x = d /\ k \in 1 .. Len(up[d])
    BY <1>1, <1>2, <2>2 DEF ReturnInv, SentIsTrue, Sends
  <2>3. CASE x = d /\ k = Len(up[d]) + 1
    BY <1>1, <1>2, <2>3 DEF Sends
  <2>4. x = d => k \in 1 .. Len(up[d]) \/ k = Len(up[d]) + 1
    BY <1>1, <1>2
  <2> QED
    BY <2>1, <2>2, <2>3, <2>4
<1> QED
  BY <1>2, <1>3 DEF SentIsTrue

\* The gateway has handled the first message of a runtime.
LEMMA HandledKeeps ==
    ASSUME ReturnInv, NEW d \in Devices, up[d] # <<>>, Handled(d), decided' = decided
    PROVE  up' \in [Devices -> Seq(Carriages \cup Acks)] /\ SentIsTrue'
<1>t. up \in [Devices -> Seq(Carriages \cup Acks)]
  BY DEF ReturnInv, ReturnTypeOK
<1>1. /\ Tail(up[d]) \in Seq(Carriages \cup Acks) /\ Len(up[d]) \in Nat
      /\ Len(Tail(up[d])) = Len(up[d]) - 1
      /\ \A k \in 1 .. Len(Tail(up[d])): Tail(up[d])[k] = up[d][k + 1]
  BY <1>t, HeadTailProperties, LenProperties
<1>2. /\ up' \in [Devices -> Seq(Carriages \cup Acks)] /\ up'[d] = Tail(up[d])
      /\ \A x \in Devices \ {d}: up'[x] = up[x]
  BY <1>t, <1>1 DEF Handled
<1>3. ASSUME NEW x \in Devices, NEW k \in 1 .. Len(up'[x])
      PROVE  \E j \in 1 .. Len(up[x]): up'[x][k] = up[x][j]
  <2>1. CASE x # d
    BY <1>2, <2>1
  <2>2. CASE x = d
    <3>1. k + 1 \in 1 .. Len(up[d]) /\ up'[d][k] = up[d][k + 1]
      BY <1>1, <1>2, <2>2
    <3> QED
      BY <2>2, <3>1
  <2> QED
    BY <2>1, <2>2
<1>4. SentIsTrue'
  BY <1>3 DEF ReturnInv, SentIsTrue
<1> QED
  BY <1>2, <1>4

\* A step that keeps the return queue and what is being handled, and puts on its
\* way only what already was.
Carries ==
    /\ ReturnTypeOK' /\ SentIsTrue' /\ UNCHANGED <<outq, gone, returnq, unsent>>
    /\ holds' \in {holds, Nothing}
    /\ \A d \in Devices: handling'[d] \in {handling[d], Idle}
    /\ \A i \in Items: OnItsWay(i)' => OnItsWay(i)

LEMMA CarryKeeps == ASSUME ReturnInv, Carries PROVE ReturnInv'
<1>1. QueuedOnce' /\ HoldIsOnHead' /\ ToldIsKept'
  BY DEF ReturnInv, Carries, QueuedOnce, HoldIsOnHead, ToldIsKept, Kept
<1>2. Idle.step = "idle"
  BY DEF Idle
<1>3. HandledIsKept'
  BY <1>2 DEF ReturnInv, Carries, HandledIsKept, Kept
<1>4. CustodyIsKept'
  BY ReturnAssumption DEF ReturnInv, Carries, CustodyIsKept, Kept
<1> QED
  BY <1>1, <1>3, <1>4 DEF ReturnInv, Carries

\* What is queued for return or decided is an item on its way, and so is what is
\* sent to a runtime.
LEMMA RuntimeKeeps ==
    ASSUME ReturnInv,
           \/ \E a \in Artifacts: Carry(a)
           \/ \E d \in Devices: BecomeReady(d)
           \/ \E d \in Devices, i \in Items: LoseDelivery(d, i)
           \/ \E d \in Devices, i \in Items, reason \in Reasons \cup {""}, again \in BOOLEAN:
                 Answer(d, i, reason, again)
    PROVE  ReturnInv'
<1>t. /\ down \in [Devices -> SUBSET Items] /\ SentIsTrue
      /\ up \in [Devices -> Seq(Carriages \cup Acks)]
  BY DEF ReturnInv, ReturnTypeOK
<1>u. UNCHANGED <<outq, gone, returnq, unsent, holds, handling, carrying, deaths>>
  BY DEF Carry, BecomeReady, LoseDelivery, Answer
<1>d. /\ down' \in [Devices -> SUBSET Items]
      /\ \A d \in Devices: down'[d] \subseteq down[d]
  <2>1. down' = down \/ \E d \in Devices, i \in Items: down' = [down EXCEPT ![d] = down[d] \ {i}]
    BY DEF Carry, BecomeReady, LoseDelivery, Answer
  <2>2. ASSUME NEW d \in Devices, NEW i \in Items, down' = [down EXCEPT ![d] = down[d] \ {i}]
        PROVE  /\ down' \in [Devices -> SUBSET Items]
               /\ \A x \in Devices: down'[x] \subseteq down[x]
    BY <1>t, <2>2
  <2> QED
    BY <1>t, <2>1, <2>2
<1>1. ASSUME up' \in [Devices -> Seq(Carriages \cup Acks)], SentIsTrue',
             \A i \in decided': i \in decided \/ \E d \in Devices: i \in down[d]
      PROVE  ReturnInv'
  <2>1. ReturnTypeOK'
    BY <1>u, <1>d, <1>1 DEF ReturnInv, ReturnTypeOK
  <2>2. Stored' = Stored
    BY <1>u DEF Stored
  <2>3. \A i \in Items: OnItsWay(i)' => OnItsWay(i)
    BY <1>u, <1>d, <1>1, <2>2 DEF OnItsWay
  <2>4. Carries
    BY <1>u, <1>1, <2>1, <2>3, Zenon DEF Carries
  <2> QED
    BY <2>4, CarryKeeps
<1>2. ASSUME NEW a \in Artifacts, Carry(a) PROVE ReturnInv'
  <2> DEFINE m == [kind |-> "carriage", art |-> a]
  <2>1. m \in Carriages /\ m.kind = "carriage" /\ m.art = a /\ DeviceOf[a] \in Devices
    BY ReturnAssumption DEF Carriages
  <2>2. up' = [up EXCEPT ![DeviceOf[a]] = Append(up[DeviceOf[a]], m)] /\ decided' = decided
    BY <1>2 DEF Carry
  <2> HIDE DEF m
  <2>3. Sends(DeviceOf[a], m)
    BY <2>1, <2>2 DEF Sends
  <2> QED
    BY <1>1, <2>1, <2>2, <2>3, SendKeeps
<1>3. ASSUME UNCHANGED <<up, decided>> PROVE ReturnInv'
  BY <1>t, <1>1, <1>3 DEF SentIsTrue
<1>4. ASSUME NEW d \in Devices, NEW i \in Items, NEW reason \in Reasons \cup {""},
             NEW again \in BOOLEAN, Answer(d, i, reason, again)
      PROVE  ReturnInv'
  <2> DEFINE m == [kind |-> "ack", item |-> i, reason |-> reason, fresh |-> TRUE]
  <2>1. m \in Acks /\ m.kind = "ack" /\ m.item = i /\ m.reason = reason
    BY DEF Acks
  <2>2. /\ up' = [up EXCEPT ![d] = Append(up[d], m)] /\ i \in down[d]
        /\ decided' = IF reason \in Retiring THEN decided \cup {i} ELSE decided
    BY <1>4 DEF Answer, Retiring
  <2> HIDE DEF m
  <2>3. Sends(d, m)
    BY <2>1, <2>2 DEF Sends
  <2>4. \A x \in decided': x \in decided \/ \E y \in Devices: x \in down[y]
    BY <2>2
  <2> QED
    BY <1>1, <2>3, <2>4, SendKeeps
<1> QED
  BY <1>2, <1>3, <1>4 DEF BecomeReady, LoseDelivery

\* publishHead, the retry timer and a restart.
LEMMA PublisherKeeps ==
    ASSUME ReturnInv, ReadHead \/ RetryElapses \/ Restart \/ \E ok \in BOOLEAN: PublishHead(ok)
    PROVE  ReturnInv'
<1>t. /\ down \in [Devices -> SUBSET Items] /\ SentIsTrue /\ returnq \in Seq(Items)
      /\ carrying \in Items \cup {Nothing} /\ handling \in [Devices -> Handlings] /\ deaths \in Nat
  BY DEF ReturnInv, ReturnTypeOK
<1>u. UNCHANGED <<outq, gone, returnq, unsent, up, decided>> /\ holds' \in {holds, Nothing}
  BY DEF ReadHead, RetryElapses, Restart, PublishHead
<1>1. /\ handling' \in [Devices -> Handlings]
      /\ \A d \in Devices: handling'[d] \in {handling[d], Idle}
  <2>1. Idle \in Handlings
    BY DEF Idle, Handlings
  <2>2. handling' = handling \/ handling' = [d \in Devices |-> Idle]
    BY DEF ReadHead, RetryElapses, Restart, PublishHead
  <2> QED
    BY <1>t, <2>1, <2>2
<1>2. Head1 \in Stored \cup {Nothing} /\ Head1 \in Items \cup {Nothing}
  <2>1. CASE returnq = <<>>
    BY <2>1 DEF Head1
  <2>2. CASE returnq # <<>>
    BY <1>t, <2>2, RangeOfTail, HeadTailProperties DEF Head1, Stored
  <2> QED
    BY <2>1, <2>2
<1>3. /\ carrying' \in Items \cup {Nothing}
      /\ carrying' \in Stored \cup {Nothing, carrying}
      /\ deaths' \in Nat
  BY <1>t, <1>2, SMTT(30) DEF ReadHead, RetryElapses, Restart, PublishHead
<1>4. /\ down' \in [Devices -> SUBSET Items]
      /\ \A d \in Devices: down'[d] \subseteq down[d] \cup ({carrying} \ {Nothing})
  <2>1. CASE down' = down
    BY <1>t, <2>1
  <2>2. CASE down' # down
    <3>1. carrying \in Items /\ down' = [down EXCEPT ![DeviceOf[carrying]] = @ \cup {carrying}]
      BY <1>t, <2>2 DEF ReadHead, RetryElapses, Restart, PublishHead
    <3>2. carrying # Nothing
      BY <3>1, ReturnAssumption
    <3> QED
      BY <1>t, <3>1, <3>2, Zenon
  <2> QED
    BY <2>1, <2>2
<1>5. ReturnTypeOK' /\ SentIsTrue'
  BY <1>u, <1>1, <1>3, <1>4 DEF ReturnInv, ReturnTypeOK, SentIsTrue
<1>6. \A i \in Items: OnItsWay(i)' => OnItsWay(i)
  <2>1. Stored' = Stored /\ decided' = decided
    BY <1>u DEF Stored
  <2>2. Nothing \notin Items
    BY ReturnAssumption
  <2> QED
    BY <1>3, <1>4, <2>1, <2>2 DEF OnItsWay
<1>7. Carries
  BY <1>u, <1>1, <1>5, <1>6 DEF Carries
<1> QED
  BY <1>7, CarryKeeps

\* The artifact of a carriage is its device's, and is kept once queued.
LEMMA AdmitKeeps ==
    ASSUME ReturnInv, NEW d \in Devices, NEW r \in {"ok", "full", "failed", "unsigned"}, Admit(d, r)
    PROVE  /\ ReturnInv'
           /\ holds' # holds => \E a \in outq' \ outq: DeviceOf[a] = d /\ DeviceOf[holds] = d
<1> DEFINE a == Head(up[d]).art
<1>t. /\ outq \subseteq Artifacts /\ handling \in [Devices -> Handlings]
      /\ up[d] \in Seq(Carriages \cup Acks) /\ up[d] # <<>> /\ Head(up[d]).kind = "carriage"
  BY DEF ReturnInv, ReturnTypeOK, Admit, Handles
<1>1. a \in Artifacts /\ DeviceOf[a] = d
  <2>1. Head(up[d]) \in Carriages \cup Acks /\ Head(up[d]) = up[d][1] /\ 1 \in 1 .. Len(up[d])
    BY <1>t, HeadTailProperties, LenProperties
  <2>2. Head(up[d]) \in Carriages
    BY <1>t, <2>1 DEF Acks
  <2> QED
    BY <1>t, <2>1, <2>2 DEF Carriages, ReturnInv, SentIsTrue
<1>2. /\ Handled(d) /\ gone' = gone \ outq'
      /\ outq' = IF r \in {"ok", "unsigned"} THEN outq \cup {a} ELSE outq
      /\ UNCHANGED <<returnq, carrying, down, unsent, decided, deaths>>
  BY DEF Admit
<1>3. holds' # holds =>
         holds' = Nothing /\ a \in outq' \ outq /\ DeviceOf[holds] = d
  BY <1>2 DEF Admit, ReceiverStateChanged, Releases
<1>4. handling' = [handling EXCEPT ![d] = IF r = "ok" THEN [step |-> "queued", art |-> a, new |-> a \notin outq]
                                          ELSE Idle]
  BY DEF Admit, Proceeds
<1> HIDE DEF a
<1>5. outq' \subseteq Artifacts /\ Kept \subseteq Kept' /\ (r = "ok" => a \in Kept')
  BY <1>t, <1>1, <1>2 DEF Kept
<1>6. /\ handling' \in [Devices -> Handlings]
      /\ \A x \in Devices \ {d}: handling'[x] = handling[x]
      /\ handling'[d].step \in {"idle", "queued"}
      /\ handling'[d].step = "queued" => r = "ok" /\ handling'[d].art = a
  <2>1. Idle \in Handlings /\ Idle.step = "idle"
    BY DEF Idle, Handlings
  <2>2. (a \notin outq) \in BOOLEAN
    OBVIOUS
  <2>3. [step |-> "queued", art |-> a, new |-> a \notin outq] \in Handlings
    BY <1>1, <2>2 DEF Handlings
  <2> QED
    BY <1>t, <1>4, <2>1, <2>3
<1>7. up' \in [Devices -> Seq(Carriages \cup Acks)] /\ SentIsTrue'
  BY <1>t, <1>2, HandledKeeps
<1>8. ReturnTypeOK'
  BY <1>2, <1>5, <1>6, <1>7 DEF ReturnInv, ReturnTypeOK
<1>9. QueuedOnce' /\ HoldIsOnHead' /\ ToldIsKept'
  BY <1>2, <1>3, <1>5 DEF ReturnInv, QueuedOnce, HoldIsOnHead, ToldIsKept
<1>10. HandledIsKept'
  BY <1>1, <1>5, <1>6, SMTT(30) DEF ReturnInv, HandledIsKept
<1>11. \A i: OnItsWay(i)' => OnItsWay(i)
  BY <1>2, Zenon DEF OnItsWay, Stored
<1>12. CustodyIsKept'
  BY <1>5, <1>11 DEF ReturnInv, CustodyIsKept
<1> QED
  BY <1>1, <1>3, <1>7, <1>8, <1>9, <1>10, <1>12 DEF ReturnInv

\* A runtime is told of what is kept.
LEMMA PublishAckKeeps ==
    ASSUME ReturnInv, NEW d \in Devices, NEW ok \in BOOLEAN, PublishAck(d, ok)
    PROVE  ReturnInv' /\ holds' = holds
<1> DEFINE a == handling[d].art
<1>t. /\ handling \in [Devices -> Handlings] /\ handling[d].step = "queued"
      /\ a \in Artifacts \cap Kept
  BY DEF ReturnInv, ReturnTypeOK, HandledIsKept, PublishAck
<1>1. /\ UNCHANGED <<outq, gone, returnq, carrying, down, up, decided, deaths, holds>>
      /\ unsent' \in {unsent, unsent \ {a}}
  BY DEF PublishAck, HandsOff
<1>2. handling' = [handling EXCEPT ![d] = IF ok /\ a \in DOMAIN CustodyOf
                                          THEN [handling[d] EXCEPT !.step = "acked"] ELSE Idle]
  BY DEF PublishAck
<1>3. /\ [handling[d] EXCEPT !.step = "acked"] \in Handlings
      /\ [handling[d] EXCEPT !.step = "acked"].step = "acked"
      /\ [handling[d] EXCEPT !.step = "acked"].art = a
      /\ Idle \in Handlings /\ Idle.step = "idle"
  BY <1>t DEF Handlings, Idle
<1> HIDE DEF a
<1>4. /\ handling' \in [Devices -> Handlings]
      /\ \A x \in Devices \ {d}: handling'[x] = handling[x]
      /\ \/ handling'[d].step = "idle"
         \/ handling'[d].step = "acked" /\ handling'[d].art = a /\ a \in DOMAIN CustodyOf
  BY <1>t, <1>2, <1>3
<1>5. ReturnTypeOK' /\ SentIsTrue'
  BY <1>1, <1>4 DEF ReturnInv, ReturnTypeOK, SentIsTrue
<1>6. QueuedOnce' /\ HoldIsOnHead' /\ ToldIsKept'
  BY <1>t, <1>1 DEF ReturnInv, QueuedOnce, HoldIsOnHead, ToldIsKept, Kept
<1>7. HandledIsKept'
  BY <1>t, <1>1, <1>4 DEF ReturnInv, HandledIsKept, Kept
<1>8. CustodyIsKept'
  BY <1>1 DEF ReturnInv, CustodyIsKept, OnItsWay, Stored, Kept
<1> QED
  BY <1>1, <1>5, <1>6, <1>7, <1>8 DEF ReturnInv

\* An item is staged at the end of the queue, once.
LEMMA StagedKeeps ==
    ASSUME ReturnInv, NEW i \in Items, Staged(i), holds' = holds
    PROVE  /\ returnq' \in Seq(Items) /\ QueuedOnce' /\ HoldIsOnHead'
           /\ Stored' = Stored \cup {i}
<1>t. returnq \in Seq(Items) /\ Len(returnq) \in Nat /\ QueuedOnce /\ HoldIsOnHead
  BY LenProperties DEF ReturnInv, ReturnTypeOK
<1>1. CASE i \in Stored
  <2>1. returnq' = returnq
    BY <1>1 DEF Staged
  <2> QED
    BY <1>t, <1>1, <2>1 DEF QueuedOnce, HoldIsOnHead, Stored
<1>2. CASE i \notin Stored
  <2>1. returnq' = Append(returnq, i)
    BY <1>2 DEF Staged
  <2>2. /\ returnq' \in Seq(Items) /\ Len(returnq') = Len(returnq) + 1 /\ returnq' # <<>>
        /\ \A k \in 1 .. Len(returnq): returnq'[k] = returnq[k] /\ returnq[k] # i
        /\ returnq'[Len(returnq) + 1] = i
    <3>1. \A k \in 1 .. Len(returnq): returnq[k] # i
      BY <1>t, <1>2, LenProperties DEF Stored, Range
    <3> QED
      BY <1>t, <2>1, <3>1, AppendProperties
  <2>3. QueuedOnce'
    <3> SUFFICES ASSUME NEW j \in 1 .. Len(returnq'), NEW k \in 1 .. Len(returnq'),
                        returnq'[j] = returnq'[k]
                 PROVE  j = k
      BY DEF QueuedOnce
    <3>1. /\ j \in 1 .. Len(returnq) \/ j = Len(returnq) + 1
          /\ k \in 1 .. Len(returnq) \/ k = Len(returnq) + 1
      BY <1>t, <2>2
    <3> QED
      BY <1>t, <2>2, <3>1 DEF QueuedOnce
  <2>4. HoldIsOnHead'
    <3>1. returnq # <<>> => 1 \in 1 .. Len(returnq)
      BY <1>t
    <3> QED
      BY <1>t, <2>2, <3>1 DEF HoldIsOnHead
  <2>5. Stored' = Stored \cup {i}
    BY <1>t, <2>1, RangeAppended DEF Stored
  <2> QED
    BY <2>2, <2>3, <2>4, <2>5
<1> QED
  BY <1>1, <1>2

\* The custody acknowledgement staged is of the artifact just acknowledged, and
\* of no other.
LEMMA StageCustodyKeeps ==
    ASSUME ReturnInv, NEW d \in Devices, NEW ok \in BOOLEAN, StageCustody(d, ok)
    PROVE  ReturnInv' /\ holds' = holds /\ Stored \subseteq Stored'
<1> DEFINE a == handling[d].art  i == CustodyOf[a]
<1>t. /\ handling \in [Devices -> Handlings] /\ handling[d].step = "acked" /\ returnq \in Seq(Items)
      /\ a \in Artifacts \cap Kept /\ a \in DOMAIN CustodyOf /\ i \in Items
  BY ReturnAssumption, Zenon DEF ReturnInv, ReturnTypeOK, HandledIsKept, StageCustody
<1>1. /\ UNCHANGED <<outq, gone, holds, carrying, down, up, unsent, decided, deaths>>
      /\ handling' = [handling EXCEPT ![d] = Idle]
      /\ Staged(i) \/ returnq' = returnq
  BY Zenon DEF StageCustody
<1>2. Idle \in Handlings /\ Idle.step = "idle"
  BY DEF Handlings, Idle
<1> HIDE DEF a, i
<1>3. /\ returnq' \in Seq(Items) /\ QueuedOnce' /\ HoldIsOnHead'
      /\ Stored \subseteq Stored' /\ Stored' \subseteq Stored \cup {i}
  <2>1. CASE Staged(i)
    BY <1>t, <1>1, <2>1, StagedKeeps
  <2>2. CASE returnq' = returnq
    BY <1>t, <1>1, <2>2 DEF ReturnInv, QueuedOnce, HoldIsOnHead, Stored
  <2> QED
    BY <1>1, <2>1, <2>2
<1>4. /\ handling' \in [Devices -> Handlings] /\ handling'[d].step = "idle"
      /\ \A x \in Devices \ {d}: handling'[x] = handling[x]
  BY <1>t, <1>1, <1>2
<1>5. ReturnTypeOK' /\ SentIsTrue' /\ ToldIsKept'
  BY <1>1, <1>3, <1>4 DEF ReturnInv, ReturnTypeOK, SentIsTrue, ToldIsKept, Kept
<1>6. HandledIsKept'
  BY <1>1, <1>4, Zenon DEF ReturnInv, HandledIsKept, Kept
<1>7. CustodyIsKept'
  <2> SUFFICES ASSUME NEW b \in DOMAIN CustodyOf, OnItsWay(CustodyOf[b])' PROVE b \in Kept
    BY <1>1 DEF CustodyIsKept, Kept
  <2>1. OnItsWay(CustodyOf[b]) \/ CustodyOf[b] = i
    BY <1>1, <1>3 DEF OnItsWay
  <2>2. CustodyOf[b] = i => b = a
    BY <1>t, ReturnAssumption DEF i
  <2> QED
    BY <1>t, <2>1, <2>2 DEF ReturnInv, CustodyIsKept
<1> QED
  BY <1>1, <1>3, <1>5, <1>6, <1>7 DEF ReturnInv

\* A receipt is staged and its artifact goes from the queue to what was delivered.
LEMMA DeliverKeeps ==
    ASSUME ReturnInv, NEW a \in Artifacts, NEW i \in Items, Deliver(a, i)
    PROVE  ReturnInv' /\ holds' = holds /\ Stored \subseteq Stored'
<1>1. /\ UNCHANGED <<holds, carrying, handling, down, up, unsent, decided, deaths>>
      /\ Staged(i) /\ outq' = outq \ {a} /\ gone' = gone \cup {a} /\ a \in outq
      /\ \A x \in DOMAIN CustodyOf: CustodyOf[x] # i
  BY Zenon DEF Deliver
<1>2. Kept' = Kept
  BY <1>1 DEF Kept
<1>3. /\ returnq' \in Seq(Items) /\ QueuedOnce' /\ HoldIsOnHead'
      /\ Stored' = Stored \cup {i}
  BY <1>1, StagedKeeps
<1>4. ReturnTypeOK' /\ SentIsTrue' /\ ToldIsKept' /\ HandledIsKept'
  BY <1>1, <1>2, <1>3, ZenonT(30) DEF ReturnInv, ReturnTypeOK, SentIsTrue, ToldIsKept, HandledIsKept
<1>5. CustodyIsKept'
  BY <1>1, <1>2, <1>3, Zenon DEF ReturnInv, CustodyIsKept, OnItsWay
<1> QED
  BY <1>1, <1>3, <1>4, <1>5 DEF ReturnInv

\* An acknowledgement answered is gone, or may come again with its replay noted.
LEMMA AckSeen ==
    ASSUME ReturnInv, NEW d \in Devices, NEW removed \in BOOLEAN, NEW again \in BOOLEAN,
           HandleAck(d, removed, again)
    PROVE  up' \in [Devices -> Seq(Carriages \cup Acks)] /\ SentIsTrue'
<1> DEFINE m == Head(up[d])
<1>t. /\ up \in [Devices -> Seq(Carriages \cup Acks)]
      /\ up[d] \in Seq(Carriages \cup Acks) /\ up[d] # <<>> /\ m.kind = "ack" /\ decided' = decided
  BY Zenon DEF ReturnInv, ReturnTypeOK, HandleAck, Handles
<1>1. CASE ~again
  BY <1>t, <1>1, HandledKeeps, Zenon DEF HandleAck
<1>2. CASE again
  <2>1. PICK b \in BOOLEAN: up' = [up EXCEPT ![d] = <<[m EXCEPT !.fresh = b]>> \o Tail(up[d])]
    <3> DEFINE b == m.fresh /\ ~(m.fresh /\ Names(m)
                      /\ (removed \/ ~(m.reason = "" \/ m.reason \in InboundRefusalRetires)))
    <3>1. up' = [up EXCEPT ![d] = <<[m EXCEPT !.fresh = b]>> \o Tail(up[d])]
      BY <1>2 DEF HandleAck
    <3>2. b \in BOOLEAN
      OBVIOUS
    <3> QED
      BY <3>1, <3>2
  <2>2. m \in Acks /\ m = up[d][1] /\ 1 \in 1 .. Len(up[d])
    BY <1>t, HeadTailProperties, LenProperties DEF Carriages
  <2> DEFINE n == [m EXCEPT !.fresh = b]
  <2>3. n \in Acks /\ n.kind = "ack" /\ n.item = m.item /\ n.reason = m.reason
    BY <1>t, <2>2 DEF Acks
  <2>4. m.reason \in Retiring => m.item \in decided
    BY <1>t, <2>2 DEF ReturnInv, SentIsTrue
  <2> HIDE DEF m, n
  <2> DEFINE s == <<n>> \o Tail(up[d])
  <2>5. /\ s \in Seq(Carriages \cup Acks) /\ Len(s) = Len(up[d]) /\ s[1] = n
        /\ \A k \in 2 .. Len(up[d]): s[k] = up[d][k]
    <3>1. /\ Tail(up[d]) \in Seq(Carriages \cup Acks) /\ Len(Tail(up[d])) = Len(up[d]) - 1
          /\ \A k \in 1 .. Len(Tail(up[d])): Tail(up[d])[k] = up[d][k + 1]
          /\ Len(up[d]) \in Nat /\ Len(up[d]) >= 1
      BY <1>t, HeadTailProperties, LenProperties
    <3>2. <<n>> \in Seq(Carriages \cup Acks) /\ Len(<<n>>) = 1 /\ <<n>>[1] = n
      BY <2>3
    <3>3. /\ s \in Seq(Carriages \cup Acks) /\ Len(s) = 1 + Len(Tail(up[d]))
          /\ \A k \in 1 .. 1 + Len(Tail(up[d])): s[k] = IF k <= 1 THEN <<n>>[k] ELSE Tail(up[d])[k - 1]
      BY <3>1, <3>2, ConcatProperties
    <3> HIDE DEF s
    <3>4. Len(s) = Len(up[d]) /\ s[1] = n
      BY <3>1, <3>2, <3>3
    <3>5. ASSUME NEW k \in 2 .. Len(up[d]) PROVE s[k] = up[d][k]
      <4>1. k - 1 \in 1 .. Len(Tail(up[d])) /\ (k - 1) + 1 = k /\ k \in 1 .. 1 + Len(Tail(up[d])) /\ ~(k <= 1)
        BY <3>1, <3>5
      <4> QED
        BY <3>1, <3>3, <4>1
    <3> QED
      BY <3>3, <3>4, <3>5
  <2>6. up' = [up EXCEPT ![d] = s]
    BY <2>1 DEF n, s
  <2> HIDE DEF s
  <2>7. /\ up' \in [Devices -> Seq(Carriages \cup Acks)] /\ up'[d] = s
        /\ \A x \in Devices \ {d}: up'[x] = up[x]
    BY <1>t, <2>5, <2>6
  <2>8. ASSUME NEW x \in Devices, NEW k \in 1 .. Len(up'[x])
        PROVE  /\ up'[x][k].kind = "carriage" => DeviceOf[up'[x][k].art] = x
               /\ up'[x][k].kind = "ack" /\ up'[x][k].reason \in Retiring
                    => up'[x][k].item \in decided
    <3>1. CASE x # d
      BY <2>7, <3>1 DEF ReturnInv, SentIsTrue
    <3>2. CASE x = d /\ k = 1
      BY <2>3, <2>4, <2>5, <2>7, <3>2
    <3>3. CASE x = d /\ k # 1
      <4>1. k \in 2 .. Len(up[d]) /\ k \in 1 .. Len(up[d])
        BY <1>t, <2>5, <2>7, <3>3, LenProperties
      <4> QED
        BY <2>5, <2>7, <3>3, <4>1, SMTT(30) DEF ReturnInv, SentIsTrue
    <3> QED
      BY <3>1, <3>2, <3>3
  <2> QED
    BY <1>t, <2>7, <2>8 DEF SentIsTrue
<1> QED
  BY <1>1, <1>2

\* HandleAck retires the head its runtime has decided, and only that; a hold
\* taken or lost is the head's.
LEMMA HandleAckKeeps ==
    ASSUME ReturnInv, NEW d \in Devices, NEW removed \in BOOLEAN, NEW again \in BOOLEAN,
           HandleAck(d, removed, again)
    PROVE  /\ ReturnInv'
           /\ \A i \in Stored: i \notin Stored' => i \in decided
           /\ \A i \in Items: holds = i /\ holds' # i => i \notin Stored'
<1> DEFINE m == Head(up[d])
           decides == m.fresh /\ Names(m)
           retires == m.reason = "" \/ m.reason \in InboundRefusalRetires
<1>t. /\ returnq \in Seq(Items) /\ QueuedOnce /\ HoldIsOnHead /\ Nothing \notin Items
      /\ up[d] \in Seq(Carriages \cup Acks) /\ up[d] # <<>> /\ m.kind = "ack"
  BY ReturnAssumption DEF ReturnInv, ReturnTypeOK, HandleAck, Handles
<1>u. UNCHANGED <<outq, gone, carrying, handling, down, unsent, decided, deaths>>
  BY DEF HandleAck
<1>1. m \in Acks /\ (m.reason \in Retiring => m.item \in decided)
  <2>1. m \in Carriages \cup Acks /\ m = up[d][1] /\ 1 \in 1 .. Len(up[d])
    BY <1>t, HeadTailProperties, LenProperties
  <2> QED
    BY <1>t, <2>1 DEF Carriages, ReturnInv, SentIsTrue
<1>2. Names(m) => returnq # <<>> /\ Head1 = returnq[1] /\ m.item = returnq[1]
  <2>1. m.item \in Items /\ m.item # Nothing
    BY <1>t, <1>1 DEF Acks
  <2>2. returnq # <<>> => Head(returnq) = returnq[1]
    BY <1>t, RangeOfTail
  <2> QED
    BY <2>1, <2>2 DEF Names, Head1
<1>3. \/ /\ decides /\ retires /\ returnq' = Tail(returnq)
         /\ holds' = IF holds = Head1 THEN Nothing ELSE holds
      \/ /\ returnq' = returnq
         /\ holds' = holds \/ (decides /\ holds' = Head1)
  BY DEF HandleAck
<1>4. /\ returnq' \in Seq(Items) /\ QueuedOnce' /\ HoldIsOnHead' /\ Stored' \subseteq Stored
      /\ \A i \in Stored: i \notin Stored' => i \in decided
      /\ \A i \in Items: holds = i /\ holds' # i => i \notin Stored'
  <2>1. CASE /\ decides /\ retires /\ returnq' = Tail(returnq)
             /\ holds' = IF holds = Head1 THEN Nothing ELSE holds
    <3>1. /\ returnq # <<>> /\ Head1 = returnq[1] /\ returnq[1] \in decided
      BY <1>1, <1>2, <2>1 DEF Retiring
    <3>2. holds' = Nothing /\ (holds = Nothing \/ holds = returnq[1])
      BY <1>t, <2>1, <3>1 DEF HoldIsOnHead
    <3>3. Stored = {returnq[1]} \cup Stored' /\ returnq[1] \notin Stored'
      BY <1>t, <2>1, <3>1, RangeOfTail DEF Stored, QueuedOnce
    <3>4. returnq' \in Seq(Items) /\ QueuedOnce'
      <4>1. /\ Tail(returnq) \in Seq(Items) /\ Len(Tail(returnq)) = Len(returnq) - 1
            /\ Len(returnq) \in Nat
            /\ \A k \in 1 .. Len(Tail(returnq)): Tail(returnq)[k] = returnq[k + 1]
        BY <1>t, <3>1, HeadTailProperties, LenProperties
      <4>2. ASSUME NEW j \in 1 .. Len(Tail(returnq)), NEW k \in 1 .. Len(Tail(returnq)),
                   Tail(returnq)[j] = Tail(returnq)[k]
            PROVE  j = k
        <5>1. j + 1 \in 1 .. Len(returnq) /\ k + 1 \in 1 .. Len(returnq)
          BY <4>1
        <5>2. j + 1 = k + 1
          BY <1>t, <4>1, <4>2, <5>1 DEF QueuedOnce
        <5> QED
          BY <5>2
      <4> QED
        BY <2>1, <4>1, <4>2 DEF QueuedOnce
    <3> QED
      BY <1>t, <3>1, <3>2, <3>3, <3>4 DEF HoldIsOnHead
  <2>2. CASE returnq' = returnq /\ (holds' = holds \/ (decides /\ holds' = Head1))
    <3>1. holds' = holds \/ (returnq # <<>> /\ holds' = returnq[1])
      BY <1>2, <2>2
    <3>2. Stored' = Stored /\ QueuedOnce' /\ HoldIsOnHead'
      BY <1>t, <2>2, <3>1 DEF Stored, QueuedOnce, HoldIsOnHead
    <3>3. \A i \in Items: holds = i => holds' = i
      BY <1>t, <3>1 DEF HoldIsOnHead
    <3> QED
      BY <1>t, <2>2, <3>2, <3>3
  <2> QED
    BY <1>3, <2>1, <2>2
<1>5. up' \in [Devices -> Seq(Carriages \cup Acks)] /\ SentIsTrue'
  BY AckSeen
<1>6. ReturnTypeOK' /\ ToldIsKept' /\ HandledIsKept'
  BY <1>u, <1>4, <1>5, ZenonT(30) DEF ReturnInv, ReturnTypeOK, ToldIsKept, HandledIsKept, Kept
<1>7. CustodyIsKept'
  BY <1>u, <1>4, Zenon DEF ReturnInv, CustodyIsKept, OnItsWay, Kept
<1> QED
  BY <1>4, <1>5, <1>6, <1>7 DEF ReturnInv

\* The three promises of one step.
RetireStep == \A i \in Stored: i \notin Stored' => i \in decided
HoldStep ==
    \A i \in Items: holds = i /\ holds' # i =>
       \/ \E a \in outq' \ outq: DeviceOf[a] = DeviceOf[i]
       \/ i \notin Stored'
       \/ deaths' # deaths

\* Every step keeps the invariant, retires what is decided and ends a hold for a
\* cause.
LEMMA ReturnStep == ReturnInv /\ [ReturnNext]_returnVars => ReturnInv' /\ RetireStep /\ HoldStep
<1> SUFFICES ASSUME ReturnInv, [ReturnNext]_returnVars PROVE ReturnInv' /\ RetireStep /\ HoldStep
  OBVIOUS
<1>q. ASSUME holds' = holds, Stored \subseteq Stored' PROVE RetireStep /\ HoldStep
  BY <1>q DEF RetireStep, HoldStep
<1>s. (returnq' = returnq) => (Stored' = Stored)
  BY DEF Stored
<1>1. CASE \/ \E a \in Artifacts: Carry(a)
           \/ \E d \in Devices: BecomeReady(d)
           \/ \E d \in Devices, i \in Items: LoseDelivery(d, i)
           \/ \E d \in Devices, i \in Items, reason \in Reasons \cup {""}, again \in BOOLEAN:
                 Answer(d, i, reason, again)
  <2>1. holds' = holds /\ returnq' = returnq
    BY <1>1, Zenon DEF Carry, BecomeReady, LoseDelivery, Answer
  <2> QED
    BY <1>q, <1>s, <1>1, <2>1, RuntimeKeeps
<1>2. CASE ReadHead \/ RetryElapses \/ \E ok \in BOOLEAN: PublishHead(ok)
  <2>1. holds' = holds /\ returnq' = returnq
    BY <1>2 DEF ReadHead, RetryElapses, PublishHead
  <2> QED
    BY <1>q, <1>s, <1>2, <2>1, PublisherKeeps
<1>3. CASE Restart
  <2>1. returnq' = returnq /\ deaths' # deaths
    BY <1>3 DEF Restart, ReturnInv, ReturnTypeOK
  <2> QED
    BY <1>s, <1>3, <2>1, PublisherKeeps DEF RetireStep, HoldStep
<1>4. ASSUME NEW d \in Devices, NEW r \in {"ok", "full", "failed", "unsigned"}, Admit(d, r)
      PROVE  ReturnInv' /\ RetireStep /\ HoldStep
  <2>1. returnq' = returnq
    BY <1>4 DEF Admit
  <2> QED
    BY <1>s, <1>4, <2>1, AdmitKeeps DEF RetireStep, HoldStep
<1>5. ASSUME NEW d \in Devices, NEW ok \in BOOLEAN, PublishAck(d, ok)
      PROVE  ReturnInv' /\ RetireStep /\ HoldStep
  <2>1. returnq' = returnq
    BY <1>5 DEF PublishAck
  <2> QED
    BY <1>q, <1>s, <1>5, <2>1, PublishAckKeeps
<1>6. ASSUME NEW d \in Devices, NEW ok \in BOOLEAN, StageCustody(d, ok)
      PROVE  ReturnInv' /\ RetireStep /\ HoldStep
  BY <1>q, <1>6, StageCustodyKeeps
<1>7. ASSUME NEW a \in Artifacts, NEW i \in Items, Deliver(a, i)
      PROVE  ReturnInv' /\ RetireStep /\ HoldStep
  BY <1>q, <1>7, DeliverKeeps
<1>8. ASSUME NEW d \in Devices, NEW removed \in BOOLEAN, NEW again \in BOOLEAN,
             HandleAck(d, removed, again)
      PROVE  ReturnInv' /\ RetireStep /\ HoldStep
  BY <1>8, HandleAckKeeps DEF RetireStep, HoldStep
<1>9. CASE UNCHANGED returnVars
  <2>1. UNCHANGED <<outq, gone, returnq, holds, carrying, handling, down, up, unsent, decided, deaths>>
    BY <1>9 DEF returnVars
  <2>2. ReturnInv'
    BY <2>1, Zenon DEF ReturnInv, ReturnTypeOK, SentIsTrue, QueuedOnce, HoldIsOnHead, HandledIsKept,
                ToldIsKept, CustodyIsKept, OnItsWay, Stored, Kept
  <2> QED
    BY <1>q, <1>s, <2>1, <2>2
<1> QED
  BY <1>1, <1>2, <1>3, <1>4, <1>5, <1>6, <1>7, <1>8, <1>9 DEF ReturnNext

\* A return leaves the queue only once its own runtime has decided it, whichever
\* acknowledgements are lost, late or repeated.
THEOREM RetiredWhenDecided == ReturnSpec => RetiredByItsDecision
<1>1. ReturnInv /\ [ReturnNext]_returnVars
        => [\A i \in Stored: i \notin Range(returnq') => i \in decided]_returnVars
  BY ReturnStep DEF RetireStep, Stored
<1>2. ReturnInv /\ [ReturnNext]_returnVars => ReturnInv'
  BY ReturnStep
<1> QED
  BY <1>1, <1>2, ReturnStarts, PTL DEF ReturnSpec, RetiredByItsDecision

\* A hold ends with an admission for its device, the retirement of its item or
\* the process.
THEOREM HeldUntilCause == ReturnSpec => HoldEndsForCause
<1>1. ReturnInv /\ [ReturnNext]_returnVars
        => [\A i \in Items: holds = i /\ holds' # i =>
              \/ \E a \in outq' \ outq: DeviceOf[a] = DeviceOf[i]
              \/ i \notin Range(returnq')
              \/ deaths' # deaths]_returnVars
  BY ReturnStep DEF HoldStep, Stored
<1>2. ReturnInv /\ [ReturnNext]_returnVars => ReturnInv'
  BY ReturnStep
<1> QED
  BY <1>1, <1>2, ReturnStarts, PTL DEF ReturnSpec, HoldEndsForCause

\* What a runtime was told is queued, and what custody was acknowledged of, is in
\* the outbound queue or delivered.
THEOREM ToldIsTrue == ReturnSpec => []AcknowledgedIsKept
<1>1. ReturnInv => AcknowledgedIsKept
  BY DEF ReturnInv, ToldIsKept, CustodyIsKept, OnItsWay, AcknowledgedIsKept, Kept
<1>2. ReturnInv /\ [ReturnNext]_returnVars => ReturnInv'
  BY ReturnStep
<1> QED
  BY <1>1, <1>2, ReturnStarts, PTL DEF ReturnSpec
=============================================================================
