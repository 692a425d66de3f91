--------------------------- MODULE RefusalProofs ----------------------------
(***************************************************************************)
(* What becomes of a refusal, for any devices, bounds and lines: it is in a *)
(* line of the log or counted by one, and a device refused at admission stays *)
(* reported.                                                               *)
(***************************************************************************)
EXTENDS LogQueue, AdmissionFaults, SequenceTheorems, WellFoundedInduction, TLAPS

-----------------------------------------------------------------------------
(* The faults of admission                                                 *)

Records == [devices : SUBSET Routable, overflow : BOOLEAN]

FaultsTypeOK ==
    /\ unconfigured \subseteq Routable /\ overflow \in BOOLEAN /\ recordFailed \in BOOLEAN
    /\ record \in Records /\ possibleRecords \subseteq Records

\* A refused device is noted by name or in the overflow, and either keeps the
\* fault; until a write fails the record is what memory holds, and a power loss
\* leaves nothing else.
NotedInv ==
    /\ \A d \in refused : d \in unconfigured \/ overflow
    /\ (unconfigured # {} \/ overflow) => "devices" \in raised
    /\ ~recordFailed => /\ record = [devices |-> unconfigured, overflow |-> overflow]
                        /\ possibleRecords = {record}

\* A write leaves the record and what a power loss may leave of it of their type,
\* and equal to memory if no write has failed.
LEMMA WriteIsWhole ==
    ASSUME FaultsTypeOK, NEW r \in RecordResults, WriteUnconfigured(r),
           unconfigured' \subseteq Routable, overflow' \in BOOLEAN
    PROVE  /\ record' \in Records /\ possibleRecords' \subseteq Records /\ recordFailed' \in BOOLEAN
           /\ ~recordFailed' => /\ record' = [devices |-> unconfigured', overflow |-> overflow']
                                /\ possibleRecords' = {record'}
<1> DEFINE new == [devices |-> unconfigured', overflow |-> overflow']
<1>1. new \in Records
  BY DEF Records
<1>2. recordFailed' = (recordFailed \/ r # "ok")
  BY DEF WriteUnconfigured
<1>3. record' = IF r = "failed" THEN record ELSE new
  BY DEF WriteUnconfigured
<1>4. r \in {"ok", "failed", "unsynced"}
  BY FaultsAssumption
<1>5. /\ r = "ok" => possibleRecords' = {new}
      /\ r = "unsynced" => possibleRecords' = possibleRecords \cup {new}
      /\ r = "failed" => possibleRecords' = possibleRecords
  BY DEF WriteUnconfigured
<1> HIDE DEF new
<1>6. record' \in Records
  BY <1>1, <1>3 DEF FaultsTypeOK
<1>7. possibleRecords' \subseteq Records
  BY <1>1, <1>4, <1>5 DEF FaultsTypeOK
<1>8. recordFailed' \in BOOLEAN /\ (~recordFailed' => r = "ok")
  BY <1>2, Zenon
<1> QED
  BY <1>3, <1>5, <1>6, <1>7, <1>8 DEF new

LEMMA NotedInvStep ==
    ASSUME FaultsTypeOK, NotedInv, [FaultsNext]_faultVars
    PROVE  FaultsTypeOK' /\ NotedInv'
<1>1. ASSUME NEW d \in Sites, NEW r \in RecordResults, Refuse(d, r)
      PROVE  FaultsTypeOK' /\ NotedInv'
  <2> DEFINE fits == Cardinality(unconfigured) < MaxUnconfigured /\ d \in Routable
  <2>1. /\ raised' = raised \cup {"devices"} /\ refused' = refused \cup {d}
        /\ unconfigured' = (IF fits THEN unconfigured \cup {d} ELSE unconfigured)
        /\ overflow' = (overflow \/ (d \notin unconfigured /\ ~fits))
        /\ IF unconfigured' = unconfigured /\ overflow' = overflow THEN NoWrite ELSE WriteUnconfigured(r)
    BY <1>1 DEF Refuse
  <2>2. fits => d \in Routable
    OBVIOUS
  <2> HIDE DEF fits
  <2>3. unconfigured' \subseteq Routable /\ overflow' \in BOOLEAN
    BY <2>1, <2>2, Zenon DEF FaultsTypeOK
  <2>4. \A e \in refused' : e \in unconfigured' \/ overflow'
    BY <2>1, Zenon DEF NotedInv
  <2>5. CASE NoWrite /\ unconfigured' = unconfigured /\ overflow' = overflow
    <3>1. UNCHANGED <<record, possibleRecords, recordFailed>>
      BY <2>5 DEF NoWrite
    <3> QED
      BY <2>1, <2>4, <2>5, <3>1 DEF FaultsTypeOK, NotedInv
  <2>6. CASE WriteUnconfigured(r)
    BY <2>1, <2>3, <2>4, <2>6, WriteIsWhole DEF FaultsTypeOK, NotedInv
  <2> QED
    BY <2>1, <2>5, <2>6
<1>2. ASSUME NEW d \in Sites, NEW envelope \in BOOLEAN, NEW outcome \in Outcomes, NEW r \in RecordResults,
             Handle(d, envelope, outcome, r)
      PROVE  FaultsTypeOK' /\ NotedInv'
  <2>1. PICK sources \in {raised, raised \cup {"queue"}, raised \ {"queue"},
                          (raised \ {"queue"}) \cup {"custody"}, raised \ {"queue", "custody"}} :
           /\ IF outcome = "done" THEN NoteAdmitted(d, r, sources)
              ELSE raised' = sources /\ NoWrite /\ UNCHANGED <<unconfigured, overflow>>
           /\ refused' = IF outcome = "done" THEN refused \ {d} ELSE refused
    BY <1>2 DEF Handle, Outcomes
  <2>2. "devices" \in sources <=> "devices" \in raised
    BY <2>1
  <2>3. CASE /\ raised' = sources /\ NoWrite /\ UNCHANGED <<unconfigured, overflow>>
             /\ refused' \subseteq refused
    BY <2>2, <2>3 DEF NoWrite, FaultsTypeOK, NotedInv
  <2>4. CASE outcome = "done" /\ d \in unconfigured
    <3>1. /\ unconfigured' = unconfigured \ {d} /\ overflow' = overflow /\ WriteUnconfigured(r)
          /\ raised' = IF r = "ok" /\ Clears(unconfigured', overflow) THEN sources \ {"devices"} ELSE sources
          /\ refused' = refused \ {d}
      BY <2>1, <2>4 DEF NoteAdmitted
    <3>2. unconfigured' \subseteq Routable /\ overflow' \in BOOLEAN
      BY <3>1 DEF FaultsTypeOK
    <3>3. \A e \in refused' : e \in unconfigured' \/ overflow'
      BY <3>1 DEF NotedInv
    <3>4. (unconfigured' # {} \/ overflow') => "devices" \in raised'
      BY <2>2, <2>4, <3>1 DEF NotedInv, Clears
    <3> QED
      BY <3>1, <3>2, <3>3, <3>4, WriteIsWhole DEF FaultsTypeOK, NotedInv
  <2> QED
    BY <2>1, <2>3, <2>4 DEF NoteAdmitted
<1>3. CASE StartAgain
  <2>1. PICK rec \in {record} \cup possibleRecords :
           /\ record' = rec /\ possibleRecords' = {rec}
           /\ unconfigured' = rec.devices /\ overflow' = rec.overflow
           /\ raised' = RaisedOnLoad(rec)
           /\ refused' = IF recordFailed THEN refused \cap rec.devices ELSE refused
           /\ recordFailed' = FALSE
    BY <1>3 DEF StartAgain
  <2>2. rec \in Records
    BY DEF FaultsTypeOK
  <2>3. /\ rec.devices \subseteq Routable /\ rec.overflow \in BOOLEAN
        /\ rec = [devices |-> rec.devices, overflow |-> rec.overflow]
    BY <2>2 DEF Records
  <2>4. ~recordFailed => rec.devices = unconfigured /\ rec.overflow = overflow
    BY DEF NotedInv
  <2>5. \A e \in refused' : e \in unconfigured' \/ overflow'
    BY <2>1, <2>4 DEF NotedInv
  <2>6. (unconfigured' # {} \/ overflow') => "devices" \in raised'
    BY <2>1 DEF RaisedOnLoad, Empty
  <2> QED
    BY <2>1, <2>2, <2>3, <2>5, <2>6, Zenon DEF FaultsTypeOK, NotedInv
<1>4. CASE UNCHANGED faultVars
  BY <1>4 DEF faultVars, FaultsTypeOK, NotedInv
<1> QED
  BY <1>1, <1>2, <1>3, <1>4 DEF FaultsNext

\* device_unconfigured is active while any device that was refused has not been
\* admitted since, through failed writes, restarts, power losses and changes of
\* the configuration (NoteUnconfiguredDevice, NoteAdmittedDevice,
\* loadUnconfigured).
THEOREM RefusedStaysReported == FaultsSpec => []RefusedIsReported
<1>1. FaultsInit => FaultsTypeOK /\ NotedInv
  <2> SUFFICES ASSUME FaultsInit PROVE FaultsTypeOK /\ NotedInv
    OBVIOUS
  <2>1. Empty \in Records /\ Empty = [devices |-> {}, overflow |-> FALSE]
    BY DEF Records, Empty
  <2>2. FaultsTypeOK
    BY <2>1, Zenon DEF FaultsInit, FaultsTypeOK
  <2>3. NotedInv
    BY <2>1, Zenon DEF FaultsInit, NotedInv
  <2> QED
    BY <2>2, <2>3
<1>2. (FaultsTypeOK /\ NotedInv) /\ [FaultsNext]_faultVars => (FaultsTypeOK /\ NotedInv)'
  BY NotedInvStep
<1>3. NotedInv => RefusedIsReported
  BY DEF NotedInv, RefusedIsReported
<1> QED
  BY <1>1, <1>2, <1>3, PTL DEF FaultsSpec

-----------------------------------------------------------------------------
(* The log queue                                                           *)

\* A non-empty set of natural numbers has a least one.
LEMMA LessThanWellFounded == IsWellFoundedOn({pair \in Nat \X Nat : pair[1] < pair[2]}, Nat)
BY NatLessThanWellFounded, Zenon DEF OpToRel

LEMMA LeastNumber ==
    ASSUME NEW T, T \subseteq Nat, T # {}
    PROVE  \E m \in T : \A n \in T : m <= n
<1> DEFINE R == {pair \in Nat \X Nat : pair[1] < pair[2]}
<1>1. IsWellFoundedOn(R, Nat)
  BY LessThanWellFounded
<1> HIDE DEF R
<1>2. PICK m \in T : \A n \in T : ~(<<n, m>> \in R)
  BY <1>1, WFMin, Zenon
<1>3. ASSUME NEW n \in T PROVE m <= n
  <2>1. n < m => <<n, m>> \in R
    BY DEF R
  <2> QED
    BY <1>2, <2>1
<1> QED
  BY <1>3

-----------------------------------------------------------------------------
(* Sums of sequences of numbers                                             *)

\* g is the running sum of the first n numbers of s.
Running(s, n, g) ==
    /\ g \in [0 .. n -> Nat]
    /\ \A m \in 0 .. n: g[m] = IF m = 0 THEN 0 ELSE g[m - 1] + s[m]

LEMMA RunningExists ==
    ASSUME NEW z \in Nat, NEW s \in [1 .. z -> Nat], NEW k \in 0 .. z
    PROVE  \E g: Running(s, k, g)
<1> DEFINE T == {n \in 0 .. z: ~\E g: Running(s, n, g)}
<1> SUFFICES ASSUME T # {} PROVE FALSE
  BY Zenon
<1>1. PICK n \in T: \A m \in T: n <= m
  <2>1. T \subseteq Nat
    OBVIOUS
  <2> QED
    BY <2>1, LeastNumber, Zenon
<1>2. CASE n = 0
  <2>1. Running(s, 0, [m \in 0 .. 0 |-> 0])
    BY DEF Running
  <2> QED
    BY <1>2, <2>1
<1>3. CASE n # 0
  <2>1. n - 1 \in 0 .. z /\ n - 1 \notin T /\ n \in 1 .. z
    BY <1>1, <1>3
  <2>2. PICK g: Running(s, n - 1, g)
    BY <2>1
  <2> DEFINE h == [m \in 0 .. n |-> IF m = n THEN g[n - 1] + s[n] ELSE g[m]]
  <2>3. s[n] \in Nat /\ g \in [0 .. n - 1 -> Nat] /\ g[n - 1] \in Nat
    BY <2>1, <2>2 DEF Running
  <2>4. h \in [0 .. n -> Nat]
    BY <2>1, <2>3
  <2>5. ASSUME NEW m \in 0 .. n PROVE h[m] = IF m = 0 THEN 0 ELSE h[m - 1] + s[m]
    <3>1. CASE m = n
      BY <2>1, <3>1
    <3>2. CASE m # n
      <4>1. m \in 0 .. n - 1 /\ h[m] = g[m] /\ (m # 0 => h[m - 1] = g[m - 1])
        BY <2>1, <3>2
      <4> QED
        BY <2>2, <4>1, Zenon DEF Running
    <3> QED
      BY <3>1, <3>2
  <2>6. Running(s, n, h)
    BY <2>4, <2>5 DEF Running
  <2> QED
    BY <2>6
<1> QED
  BY <1>2, <1>3

\* Total is the running sum at the end of the sequence.
LEMMA TotalIs ==
    ASSUME NEW s \in Seq(Nat), NEW g, Running(s, Len(s), g)
    PROVE  Total(s) = g[Len(s)] /\ Total(s) \in Nat
<1>l. Len(s) \in Nat
  BY LenProperties
<1> DEFINE Is(f) == f = [n \in 0 .. Len(s) |-> IF n = 0 THEN 0 ELSE f[n - 1] + s[n]]
           sum == CHOOSE f: Is(f)
<1>1. Is(g)
  BY <1>l DEF Running
<1>2. Is(sum)
  BY <1>1, Zenon
<1>3. Total(s) = sum[Len(s)]
  BY DEF Total
<1> HIDE DEF sum
<1>4. \A n \in 0 .. Len(s): sum[n] = IF n = 0 THEN 0 ELSE sum[n - 1] + s[n]
  BY <1>2, Zenon
<1> DEFINE T == {n \in 0 .. Len(s): sum[n] # g[n]}
<1>5. T = {}
  <2> SUFFICES ASSUME T # {} PROVE FALSE
    OBVIOUS
  <2>n. T \subseteq Nat
    BY <1>l
  <2>1. PICK n \in T: \A m \in T: n <= m
    BY <2>n, LeastNumber, Zenon
  <2>2. n # 0 => sum[n - 1] = g[n - 1]
    BY <1>l, <2>1
  <2>3. sum[n] = g[n]
    BY <1>l, <1>4, <2>2 DEF Running
  <2> QED
    BY <2>3
<1>6. sum[Len(s)] = g[Len(s)] /\ g[Len(s)] \in Nat
  BY <1>l, <1>5 DEF Running
<1> QED
  BY <1>3, <1>6

\* The first z elements of t are those of s without the one at i.
Omits(s, i, t, z) ==
    /\ \A k \in 1 .. i - 1: t[k] = s[k]
    /\ \A k \in i .. z: t[k] = s[k + 1]
Lacks(s, i, t) == Len(s) = Len(t) + 1 /\ Omits(s, i, t, Len(t))

LEMMA RunningWithout ==
    ASSUME NEW z \in Nat, NEW s \in [1 .. z + 1 -> Nat], NEW t \in [1 .. z -> Nat],
           NEW i \in 1 .. z + 1, Omits(s, i, t, z),
           NEW g, Running(s, z + 1, g), NEW h, Running(t, z, h)
    PROVE  g[z + 1] = h[z] + s[i]
<1> DEFINE Matches(n) == g[n] = IF n < i THEN h[n] ELSE h[n - 1] + s[i]
           T == {n \in 0 .. z + 1: ~Matches(n)}
<1>g. /\ g \in [0 .. z + 1 -> Nat]
      /\ \A m \in 0 .. z + 1: g[m] = IF m = 0 THEN 0 ELSE g[m - 1] + s[m]
  BY DEF Running
<1>h. /\ h \in [0 .. z -> Nat]
      /\ \A m \in 0 .. z: h[m] = IF m = 0 THEN 0 ELSE h[m - 1] + t[m]
  BY DEF Running
<1>3. T = {}
  <2> SUFFICES ASSUME T # {} PROVE FALSE
    OBVIOUS
  <2>1. PICK n \in T: \A m \in T: n <= m
    <3>1. T \subseteq Nat
      OBVIOUS
    <3> QED
      BY <3>1, LeastNumber, Zenon
  <2>2. n \in 0 .. z + 1 /\ ~Matches(n)
    OBVIOUS
  <2>p. n # 0 => Matches(n - 1)
    BY <2>1, <2>2
  <2> HIDE DEF Matches, T
  <2>3. CASE n < i
    <3>1. CASE n = 0
      BY <1>g, <1>h, <2>2, <2>3, <3>1 DEF Matches
    <3>2. CASE n # 0
      <4>1. n \in 1 .. z /\ n \in 1 .. i - 1 /\ n - 1 < i /\ n \in 0 .. z + 1 /\ n \in 0 .. z
        BY <2>2, <2>3, <3>2
      <4>2. g[n] = g[n - 1] + s[n] /\ h[n] = h[n - 1] + t[n] /\ t[n] = s[n]
        BY <1>g, <1>h, <3>2, <4>1, Zenon DEF Omits
      <4>3. g[n - 1] = h[n - 1]
        BY <2>p, <3>2, <4>1 DEF Matches
      <4> QED
        BY <2>2, <2>3, <4>2, <4>3, Zenon DEF Matches
    <3> QED
      BY <3>1, <3>2
  <2>4. CASE n = i
    <3>1. g[n] = g[n - 1] + s[n] /\ n # 0 /\ n - 1 < i /\ ~(n < i)
      BY <1>g, <2>4
    <3>2. g[n - 1] = h[n - 1]
      BY <2>p, <3>1 DEF Matches
    <3> QED
      BY <2>2, <2>4, <3>1, <3>2, Zenon DEF Matches
  <2>5. CASE n > i
    <3>1. /\ n - 1 \in i .. z /\ n - 1 \in 0 .. z /\ n - 1 # 0 /\ n - 2 \in 0 .. z /\ (n - 1) - 1 = n - 2
          /\ (n - 1) + 1 = n /\ n # 0 /\ ~(n - 1 < i) /\ ~(n < i) /\ n \in 1 .. z + 1
      BY <2>2, <2>5
    <3>2. g[n] = g[n - 1] + s[n]
      BY <1>g, <2>2, <3>1, Zenon
    <3>3. g[n - 1] = h[n - 2] + s[i]
      BY <2>p, <3>1, Zenon DEF Matches
    <3>4. h[n - 1] = h[n - 2] + t[n - 1] /\ t[n - 1] = s[n]
      <4>1. t[n - 1] = s[(n - 1) + 1]
        BY <3>1, Zenon DEF Omits
      <4>2. h[n - 1] = h[(n - 1) - 1] + t[n - 1]
        BY <1>h, <3>1, Zenon
      <4> QED
        BY <3>1, <4>1, <4>2, Zenon
    <3>5. h[n - 2] \in Nat /\ s[n] \in Nat /\ s[i] \in Nat
      BY <1>h, <3>1, Zenon
    <3>6. g[n] = h[n - 1] + s[i]
      BY <3>2, <3>3, <3>4, <3>5
    <3> QED
      BY <2>2, <3>1, <3>6, Zenon DEF Matches
  <2> QED
    BY <2>2, <2>3, <2>4, <2>5
<1>4. Matches(z + 1) /\ ~(z + 1 < i) /\ (z + 1) - 1 = z
  BY <1>3, SMTT(30)
<1> QED
  BY <1>4, Zenon

LEMMA TotalWithout ==
    ASSUME NEW s \in Seq(Nat), NEW t \in Seq(Nat), NEW i \in 1 .. Len(s), Lacks(s, i, t)
    PROVE  Total(s) = Total(t) + s[i] /\ Total(t) \in Nat /\ s[i] \in Nat
<1> DEFINE z == Len(t)
<1>1. /\ z \in Nat /\ Len(s) = z + 1 /\ i \in 1 .. z + 1
      /\ s \in [1 .. z + 1 -> Nat] /\ t \in [1 .. z -> Nat]
  BY LenProperties DEF Lacks
<1>2. Omits(s, i, t, z)
  BY DEF Lacks
<1>4. PICK g: Running(s, Len(s), g)
  <2>1. z + 1 \in Nat /\ z + 1 \in 0 .. z + 1
    BY <1>1
  <2> QED
    BY <1>1, <2>1, RunningExists, Zenon
<1>5. PICK h: Running(t, z, h)
  <2>1. z \in 0 .. z
    BY <1>1
  <2> QED
    BY <1>1, <2>1, RunningExists, Zenon
<1>6. Total(s) = g[Len(s)] /\ Total(t) = h[z] /\ Total(t) \in Nat
  BY <1>4, <1>5, TotalIs
<1> HIDE DEF z
<1>7. g[z + 1] = h[z] + s[i]
  <2>1. Running(s, z + 1, g)
    BY <1>1, <1>4
  <2> QED
    BY <1>1, <1>2, <1>5, <2>1, RunningWithout, ZenonT(60)
<1>8. s[i] \in Nat
  BY <1>1, Zenon
<1> QED
  BY <1>1, <1>6, <1>7, <1>8, Zenon

LEMMA TotalType == ASSUME NEW s \in Seq(Nat) PROVE Total(s) \in Nat
<1>1. Len(s) \in 0 .. Len(s)
  BY LenProperties
<1> QED
  BY <1>1, RunningExists, TotalIs

\* The sum of nothing, and of noughts, is nought.
LEMMA TotalOfNoughts ==
    ASSUME NEW s \in Seq(Nat), \A k \in 1 .. Len(s): s[k] = 0
    PROVE  Total(s) = 0
<1>1. Len(s) \in Nat
  BY LenProperties
<1>2. Running(s, Len(s), [m \in 0 .. Len(s) |-> 0])
  BY <1>1 DEF Running
<1> QED
  BY <1>1, <1>2, TotalIs

LEMMA TotalAppend ==
    ASSUME NEW s \in Seq(Nat), NEW x \in Nat
    PROVE  Total(Append(s, x)) = Total(s) + x
<1>1. /\ Len(s) \in Nat /\ Append(s, x) \in Seq(Nat) /\ Len(Append(s, x)) = Len(s) + 1
      /\ Append(s, x)[Len(s) + 1] = x /\ \A k \in 1 .. Len(s): Append(s, x)[k] = s[k]
  BY LenProperties, AppendProperties
<1>2. Lacks(Append(s, x), Len(s) + 1, s) /\ Len(s) + 1 \in 1 .. Len(Append(s, x))
  BY <1>1 DEF Lacks, Omits
<1> QED
  BY <1>1, <1>2, TotalWithout, Zenon

LEMMA TotalTail ==
    ASSUME NEW s \in Seq(Nat), s # <<>>
    PROVE  Total(s) = Total(Tail(s)) + Head(s) /\ Head(s) \in Nat /\ Total(Tail(s)) \in Nat
<1>1. /\ Len(s) \in Nat /\ 1 \in 1 .. Len(s) /\ Head(s) = s[1] /\ Tail(s) \in Seq(Nat)
      /\ Len(Tail(s)) = Len(s) - 1 /\ \A k \in 1 .. Len(s) - 1: Tail(s)[k] = s[k + 1]
  BY LenProperties, HeadTailProperties
<1>2. Lacks(s, 1, Tail(s))
  BY <1>1 DEF Lacks, Omits
<1> QED
  BY <1>1, <1>2, TotalWithout, Zenon

\* The sequence without its element i is less by that element.
LEMMA TotalOfTheRest ==
    ASSUME NEW s \in Seq(Nat), NEW i \in 1 .. Len(s),
           NEW r, r = SubSeq(s, 1, i - 1) \o SubSeq(s, i + 1, Len(s))
    PROVE  r \in Seq(Nat) /\ Total(s) = Total(r) + s[i] /\ Total(r) \in Nat /\ s[i] \in Nat
<1> DEFINE a == SubSeq(s, 1, i - 1)
           b == SubSeq(s, i + 1, Len(s))
<1>l. Len(s) \in Nat
  BY LenProperties
<1>e. \A k \in 1 .. Len(s): s[k] \in Nat
  BY ElementOfSeq, Zenon
<1>1. /\ a \in Seq(Nat) /\ Len(a) = i - 1 /\ \A k \in 1 .. i - 1: a[k] = s[k]
  <2>1. 1 \in Int /\ i - 1 \in Int /\ \A k \in 1 .. i - 1: k \in 1 .. Len(s)
    BY <1>l
  <2>2. /\ a \in Seq(Nat)
        /\ Len(a) = IF 1 <= i - 1 THEN (i - 1) - 1 + 1 ELSE 0
        /\ \A k \in 1 .. (i - 1) - 1 + 1: a[k] = s[1 + k - 1]
    BY <1>e, <2>1, SubSeqProperties
  <2> HIDE DEF a
  <2>3. Len(a) = i - 1
    BY <1>l, <2>2
  <2>4. ASSUME NEW k \in 1 .. i - 1 PROVE a[k] = s[k]
    <3>1. k \in 1 .. (i - 1) - 1 + 1 /\ 1 + k - 1 = k
      BY <1>l
    <3> QED
      BY <2>2, <3>1, Zenon
  <2> QED
    BY <2>2, <2>3, <2>4, Zenon
<1>2. /\ b \in Seq(Nat) /\ Len(b) = Len(s) - i /\ \A k \in 1 .. Len(s) - i: b[k] = s[i + k]
  <2>1. i + 1 \in Int /\ Len(s) \in Int /\ \A k \in i + 1 .. Len(s): k \in 1 .. Len(s)
    BY <1>l
  <2>2. /\ b \in Seq(Nat)
        /\ Len(b) = IF i + 1 <= Len(s) THEN Len(s) - (i + 1) + 1 ELSE 0
        /\ \A k \in 1 .. Len(s) - (i + 1) + 1: b[k] = s[(i + 1) + k - 1]
    BY <1>e, <2>1, SubSeqProperties
  <2> HIDE DEF b
  <2>3. Len(b) = Len(s) - i
    BY <1>l, <2>2
  <2>4. ASSUME NEW k \in 1 .. Len(s) - i PROVE b[k] = s[i + k]
    <3>1. k \in 1 .. Len(s) - (i + 1) + 1 /\ (i + 1) + k - 1 = i + k
      BY <1>l
    <3> QED
      BY <2>2, <3>1, Zenon
  <2> QED
    BY <2>2, <2>3, <2>4, Zenon
<1> HIDE DEF a, b
<1>3. /\ a \o b \in Seq(Nat) /\ Len(a \o b) = Len(a) + Len(b)
      /\ \A k \in 1 .. Len(a) + Len(b): (a \o b)[k] = IF k <= Len(a) THEN a[k] ELSE b[k - Len(a)]
  BY <1>1, <1>2, ConcatProperties, Zenon
<1>4. Lacks(s, i, a \o b)
  <2>1. Len(s) = Len(a \o b) + 1
    BY <1>l, <1>1, <1>2, <1>3
  <2>2. ASSUME NEW k \in 1 .. i - 1 PROVE (a \o b)[k] = s[k]
    BY <1>l, <1>1, <1>2, <1>3
  <2>3. ASSUME NEW k \in i .. Len(a \o b) PROVE (a \o b)[k] = s[k + 1]
    <3>1. k - Len(a) \in 1 .. Len(s) - i /\ i + (k - Len(a)) = k + 1 /\ ~(k <= Len(a))
          /\ k \in 1 .. Len(a) + Len(b)
      <4>1. Len(a) = i - 1 /\ Len(b) = Len(s) - i /\ Len(a \o b) = Len(a) + Len(b)
        BY <1>1, <1>2, <1>3, Zenon
      <4> QED
        BY <1>l, <4>1
    <3> QED
      BY <1>2, <1>3, <3>1, Zenon
  <2> QED
    BY <2>1, <2>2, <2>3, Zenon DEF Lacks, Omits
<1>5. r = a \o b
  BY DEF a, b
<1> QED
  BY <1>3, <1>4, <1>5, TotalWithout, Zenon

-----------------------------------------------------------------------------
(* What the drainer has in hand                                             *)

Held == [kind: {"line", "drops"}, of: Nat]

\* What each element of h says of one kind.
Weights(kind, h) == [i \in 1 .. Len(h) |-> IF h[i].kind = kind THEN h[i].of ELSE 0]

LEMMA WeightsType ==
    ASSUME NEW h \in Seq(Held), NEW kind
    PROVE  Weights(kind, h) \in Seq(Nat) /\ Len(Weights(kind, h)) = Len(h)
<1>1. Len(h) \in Nat /\ \A i \in 1 .. Len(h): h[i] \in Held
  BY LenProperties
<1>2. \A i \in 1 .. Len(h): (IF h[i].kind = kind THEN h[i].of ELSE 0) \in Nat
  BY <1>1 DEF Held
<1> QED
  BY <1>1, <1>2 DEF Weights

LEMMA WeightsOfTail ==
    ASSUME NEW h \in Seq(Held), h # <<>>, NEW kind
    PROVE  /\ Total(Weights(kind, h)) = Total(Weights(kind, Tail(h))) + (IF h[1].kind = kind THEN h[1].of ELSE 0)
           /\ Total(Weights(kind, Tail(h))) \in Nat
<1>1. /\ Len(h) \in Nat /\ 1 \in 1 .. Len(h) /\ Tail(h) \in Seq(Held) /\ Len(Tail(h)) = Len(h) - 1
      /\ \A k \in 1 .. Len(h) - 1: Tail(h)[k] = h[k + 1]
  BY LenProperties, HeadTailProperties
<1>2. /\ Weights(kind, h) \in Seq(Nat) /\ Weights(kind, Tail(h)) \in Seq(Nat)
      /\ Len(Weights(kind, h)) = Len(h) /\ Len(Weights(kind, Tail(h))) = Len(h) - 1
  BY <1>1, WeightsType, Zenon
<1>3. \A k \in 1 .. Len(h) - 1: Weights(kind, Tail(h))[k] = Weights(kind, h)[k + 1]
  BY <1>1 DEF Weights
<1>4. Weights(kind, h)[1] = IF h[1].kind = kind THEN h[1].of ELSE 0
  BY <1>1 DEF Weights
<1>5. Lacks(Weights(kind, h), 1, Weights(kind, Tail(h))) /\ 1 \in 1 .. Len(Weights(kind, h))
  <2> DEFINE n == Len(h)  v == Weights(kind, h)  w == Weights(kind, Tail(h))
  <2>1. /\ n \in Nat /\ 1 \in 1 .. n /\ Len(v) = n /\ Len(w) = n - 1
        /\ \A k \in 1 .. n - 1: w[k] = v[k + 1]
    BY <1>1, <1>2, <1>3, Zenon
  <2> HIDE DEF n, v, w
  <2>2. Lacks(v, 1, w) /\ 1 \in 1 .. Len(v)
    BY <2>1 DEF Lacks, Omits
  <2> QED
    BY <2>2 DEF v, w
<1> QED
  BY <1>2, <1>4, <1>5, TotalWithout, Zenon

LEMMA WeightsOfNothing == ASSUME NEW kind PROVE Total(Weights(kind, <<>>)) = 0
<1>1. <<>> \in Seq(Held) /\ Len(<<>>) = 0
  OBVIOUS
<1>2. Weights(kind, <<>>) \in Seq(Nat) /\ Len(Weights(kind, <<>>)) = 0
  BY <1>1, WeightsType, Zenon
<1> QED
  BY <1>2, TotalOfNoughts

\* h is the lines rs, then a count of d drops if there are any.
Carries(h, rs, d) ==
    /\ h \in Seq(Held) /\ rs \in Seq(Nat) /\ d \in Nat
    /\ Len(h) = Len(rs) + (IF d > 0 THEN 1 ELSE 0)
    /\ \A k \in 1 .. Len(rs): h[k] = [kind |-> "line", of |-> rs[k]]
    /\ d > 0 => h[Len(rs) + 1] = [kind |-> "drops", of |-> d]

LEMMA WeightsCarried ==
    ASSUME NEW h, NEW rs, NEW d, Carries(h, rs, d)
    PROVE  Total(Weights("line", h)) = Total(rs) /\ Total(Weights("drops", h)) = d
<1>1. h \in Seq(Held) /\ rs \in Seq(Nat) /\ d \in Nat /\ Len(rs) \in Nat
  BY LenProperties DEF Carries
<1> DEFINE a == Weights("line", h)
           b == Weights("drops", h)
<1>2. a \in Seq(Nat) /\ b \in Seq(Nat) /\ Len(a) = Len(h) /\ Len(b) = Len(h)
  BY <1>1, WeightsType
<1>3. \A k \in 1 .. Len(rs): a[k] = rs[k] /\ b[k] = 0
  <2> TAKE k \in 1 .. Len(rs)
  <2>1. k \in 1 .. Len(h) /\ h[k] = [kind |-> "line", of |-> rs[k]]
    BY <1>1 DEF Carries
  <2> QED
    BY <2>1 DEF Weights
<1>4. d > 0 => a[Len(rs) + 1] = 0 /\ b[Len(rs) + 1] = d
  <2> SUFFICES ASSUME d > 0 PROVE a[Len(rs) + 1] = 0 /\ b[Len(rs) + 1] = d
    OBVIOUS
  <2>1. Len(rs) + 1 \in 1 .. Len(h) /\ h[Len(rs) + 1] = [kind |-> "drops", of |-> d]
    BY <1>1 DEF Carries
  <2> QED
    BY <2>1 DEF Weights
<1>5. Len(h) = Len(rs) + (IF d > 0 THEN 1 ELSE 0)
  BY DEF Carries
<1> HIDE DEF a, b
<1>6. CASE d = 0
  <2>1. a = rs
    BY <1>1, <1>2, <1>3, <1>5, <1>6, SeqEqual
  <2>2. Total(b) = 0
    BY <1>1, <1>2, <1>3, <1>5, <1>6, TotalOfNoughts
  <2> QED
    BY <1>6, <2>1, <2>2 DEF a, b
<1>7. CASE d > 0
  <2> DEFINE noughts == [k \in 1 .. Len(rs) |-> 0]
             n == Len(rs) + 1
  <2>1. noughts \in Seq(Nat) /\ Len(noughts) = Len(rs)
    BY <1>1
  <2>2. Total(noughts) = 0
    BY <2>1, TotalOfNoughts
  <2>3. Lacks(a, n, rs) /\ Lacks(b, n, noughts) /\ n \in 1 .. Len(a) /\ n \in 1 .. Len(b)
    BY <1>1, <1>2, <1>3, <1>5, <1>7, <2>1 DEF Lacks, Omits
  <2> HIDE DEF noughts, n
  <2>4. Total(a) = Total(rs) + a[n] /\ Total(rs) \in Nat
    BY <1>1, <1>2, <2>3, TotalWithout, Zenon
  <2>5. Total(b) = Total(noughts) + b[n]
    BY <1>2, <2>1, <2>3, TotalWithout, Zenon
  <2> QED
    BY <1>4, <1>1, <1>7, <2>2, <2>4, <2>5 DEF a, b, n
<1> QED
  BY <1>1, <1>6, <1>7

LEMMA LinesType ==
    ASSUME NEW rs \in Seq(Nat)
    PROVE  /\ Lines(rs) \in Seq(Held) /\ Len(Lines(rs)) = Len(rs)
           /\ \A k \in 1 .. Len(rs): Lines(rs)[k] = [kind |-> "line", of |-> rs[k]]
<1>1. Len(rs) \in Nat /\ \A k \in 1 .. Len(rs): rs[k] \in Nat
  BY LenProperties
<1>2. \A k \in 1 .. Len(rs): [kind |-> "line", of |-> rs[k]] \in Held
  BY <1>1 DEF Held
<1>3. Lines(rs) = [k \in 1 .. Len(rs) |-> [kind |-> "line", of |-> rs[k]]]
  BY DEF Lines
<1>4. Lines(rs) \in [1 .. Len(rs) -> Held]
  BY <1>2, <1>3
<1>5. Lines(rs) \in Seq(Held) /\ Len(Lines(rs)) = Len(rs)
  BY <1>1, <1>4
<1> QED
  BY <1>3, <1>5

-----------------------------------------------------------------------------
(* That no refusal goes unlogged.                                           *)

Ledger == [refused: Nat, logged: Nat, lost: Nat, lines: Nat, queued: Nat, written: Nat, drops: Nat, told: Nat]

LogTypeOK ==
    /\ records \in Seq(Nat) /\ emitting \in Seq(Nat) /\ hand \in Seq(Held)
    /\ unlogged \in Nat /\ dropped \in Nat
    /\ seen \in Ledger
    /\ flush \in [at: {"none", "waiting", "true", "false"}, idle: Nat, before: Nat] /\ idle \in Nat

\* The throttle holds nothing back without a timer to come.
TimerIsSet == (flushing => timer # <<>>) /\ (unlogged > 0 => flushing)

RefusalsAddUp ==
    seen.refused = seen.logged + InHand("line") + Total(records) + Total(emitting) + unlogged + seen.lost
DropsAddUp == seen.drops = seen.told + InHand("drops") + dropped
DrainerRuns == records # <<>> \/ dropped > 0 \/ hand # <<>> => draining

\* Where a Flush can be called, a line queued and not written is in a record or
\* in the drainer's hand.
LineInHand == IF hand # <<>> /\ hand[1].kind = "line" THEN 1 ELSE 0
QueuedAddUp ==
    queue # "signing" => Len(hand) <= 1 /\ seen.queued = seen.written + Len(records) + LineInHand

FlushIsRight ==
    /\ flush.before <= seen.queued
    /\ flush.at = "true" => seen.written >= flush.before

LogInv ==
    /\ LogTypeOK /\ TimerIsSet /\ RefusalsAddUp /\ DropsAddUp /\ DrainerRuns
    /\ QueuedAddUp /\ FlushIsRight

LEMMA InHandIs == ASSUME NEW kind PROVE InHand(kind) = Total(Weights(kind, hand))
  BY DEF InHand, Weights

LEMMA TotalsType ==
    ASSUME LogTypeOK
    PROVE  /\ Total(records) \in Nat /\ Total(emitting) \in Nat
           /\ InHand("line") \in Nat /\ InHand("drops") \in Nat
<1>1. records \in Seq(Nat) /\ emitting \in Seq(Nat) /\ hand \in Seq(Held)
  BY DEF LogTypeOK
<1>2. Weights("line", hand) \in Seq(Nat) /\ Weights("drops", hand) \in Seq(Nat)
  BY <1>1, WeightsType
<1> QED
  BY <1>1, <1>2, TotalType, InHandIs

LEMMA LogStarts == LogInit => LogInv
<1> SUFFICES ASSUME LogInit PROVE LogInv
  OBVIOUS
<1>1. /\ records = <<>> /\ emitting = <<>> /\ hand = <<>> /\ unlogged = 0 /\ dropped = 0 /\ idle = 0
      /\ flushing = FALSE
      /\ flush = [at |-> "none", idle |-> 0, before |-> 0]
      /\ seen = [refused |-> 0, logged |-> 0, lost |-> 0, lines |-> 0, queued |-> 0, written |-> 0,
                 drops |-> 0, told |-> 0]
  BY DEF LogInit
<1>2. LogTypeOK
  BY <1>1 DEF LogTypeOK, Ledger
<1>3. Total(<<>>) = 0
  <2>1. <<>> \in Seq(Nat) /\ \A k \in 1 .. Len(<<>>): <<>>[k] = 0
    OBVIOUS
  <2> QED
    BY <2>1, TotalOfNoughts, Zenon
<1>4. InHand("line") = 0 /\ InHand("drops") = 0
  BY <1>1, InHandIs, WeightsOfNothing
<1> QED
  BY <1>1, <1>2, <1>3, <1>4 DEF LogInv, TimerIsSet, RefusalsAddUp, DropsAddUp, DrainerRuns, QueuedAddUp,
                                LineInHand, FlushIsRight

\* What the throttle does touches no line queued.
ThrottleOnly == UNCHANGED <<queue, records, draining, dropped, hand, idle, flush>>

LEMMA NoteKeeps ==
    ASSUME LogInv, NEW at, NoteRefusal(at)
    PROVE  LogInv'
<1>1. /\ ThrottleOnly /\ seen' = [seen EXCEPT !.refused = @ + 1]
      /\ \/ /\ unlogged' = unlogged + 1 /\ flushing' = TRUE /\ emitting' = emitting
            /\ \E w: timer' = IF flushing THEN timer ELSE <<w>>
         \/ unlogged' = 0 /\ emitting' = Append(emitting, unlogged + 1) /\ UNCHANGED <<flushing, timer>>
  BY DEF NoteRefusal, ThrottleOnly, queueVars
<1>t. LogTypeOK
  BY DEF LogInv
<1>2. /\ seen'.refused = seen.refused + 1 /\ seen'.logged = seen.logged /\ seen'.lost = seen.lost
      /\ seen'.queued = seen.queued /\ seen'.written = seen.written /\ seen'.drops = seen.drops
      /\ seen'.told = seen.told
  BY <1>1, <1>t DEF LogTypeOK, Ledger
<1>s. seen' \in Ledger
  <2>1. seen \in Ledger /\ seen.refused + 1 \in Nat
    BY <1>t DEF LogTypeOK, Ledger
  <2>2. seen' = [seen EXCEPT !.refused = seen.refused + 1]
    BY <1>1
  <2> QED
    BY <2>1, <2>2 DEF Ledger
<1>3. emitting' \in Seq(Nat) /\ unlogged' \in Nat /\ unlogged \in Nat
      /\ Total(emitting') + unlogged' = Total(emitting) + unlogged + 1
  <2>0. emitting \in Seq(Nat) /\ unlogged \in Nat /\ unlogged + 1 \in Nat /\ Total(emitting) \in Nat
    BY <1>t, TotalsType DEF LogTypeOK
  <2>1. CASE unlogged' = unlogged + 1 /\ emitting' = emitting
    BY <2>0, <2>1
  <2>2. CASE unlogged' = 0 /\ emitting' = Append(emitting, unlogged + 1)
    <3>1. Total(Append(emitting, unlogged + 1)) = Total(emitting) + (unlogged + 1)
      BY <2>0, TotalAppend, Zenon
    <3>2. Append(emitting, unlogged + 1) \in Seq(Nat)
      BY <2>0
    <3>3. Total(emitting') = Total(emitting) + (unlogged + 1) /\ emitting' \in Seq(Nat)
      BY <2>2, <3>1, <3>2, Zenon
    <3> QED
      BY <2>0, <2>2, <3>3
  <2> QED
    BY <1>1, <2>1, <2>2
<1>4. LogTypeOK'
  BY <1>1, <1>s, <1>3, <1>t DEF LogTypeOK, ThrottleOnly
<1>5. TimerIsSet'
  <2>1. CASE unlogged' = 0 /\ UNCHANGED <<flushing, timer>>
    BY <2>1 DEF LogInv, TimerIsSet
  <2>2. CASE flushing' = TRUE /\ \E w: timer' = IF flushing THEN timer ELSE <<w>>
    BY <2>2 DEF LogInv, TimerIsSet
  <2> QED
    BY <1>1, <2>1, <2>2, Zenon
<1>6. /\ InHand("line")' = InHand("line") /\ InHand("drops")' = InHand("drops")
      /\ Total(records)' = Total(records)
  BY <1>1 DEF ThrottleOnly, InHand
<1>7. RefusalsAddUp'
  <2>1. /\ InHand("line") \in Nat /\ Total(records) \in Nat /\ Total(emitting) \in Nat
        /\ seen.logged \in Nat /\ seen.lost \in Nat /\ Total(emitting') \in Nat
    BY <1>t, <1>3, TotalsType, TotalType DEF LogTypeOK, Ledger
  <2>a. seen.refused = seen.logged + InHand("line") + Total(records) + Total(emitting) + unlogged + seen.lost
    BY DEF LogInv, RefusalsAddUp
  <2>2. seen'.refused = seen'.logged + InHand("line") + Total(records) + Total(emitting') + unlogged' + seen'.lost
    <3>1. Total(emitting') + unlogged' = Total(emitting) + unlogged + 1 /\ unlogged \in Nat /\ unlogged' \in Nat
      BY <1>3
    <3>2. seen'.refused = seen.refused + 1 /\ seen'.logged = seen.logged /\ seen'.lost = seen.lost
      BY <1>2
    <3>3. seen.refused + 1 = seen.logged + InHand("line") + Total(records) + Total(emitting') + unlogged' + seen.lost
      BY <3>1, <2>1, <2>a
    <3> QED
      BY <3>2, <3>3
  <2> QED
    BY <1>6, <2>2 DEF RefusalsAddUp
<1>8. DropsAddUp' /\ DrainerRuns' /\ QueuedAddUp' /\ FlushIsRight'
  BY <1>1, <1>2, <1>6 DEF ThrottleOnly, LogInv, DropsAddUp, DrainerRuns, QueuedAddUp, FlushIsRight, LineInHand
<1> QED
  BY <1>4, <1>5, <1>7, <1>8 DEF LogInv

LEMMA TimerKeeps == ASSUME LogInv, Flush PROVE LogInv'
<1>1. /\ ThrottleOnly /\ seen' = seen /\ unlogged' = 0 /\ flushing' = FALSE
      /\ emitting' = IF unlogged > 0 THEN Append(emitting, unlogged) ELSE emitting
  BY DEF Flush, ThrottleOnly, queueVars
<1>t. LogTypeOK /\ emitting \in Seq(Nat) /\ unlogged \in Nat
  BY DEF LogInv, LogTypeOK
<1>2. emitting' \in Seq(Nat) /\ Total(emitting') = Total(emitting) + unlogged
  <2>1. CASE unlogged > 0
    <3>1. Total(Append(emitting, unlogged)) = Total(emitting) + unlogged
      BY <1>t, TotalAppend, Zenon
    <3>2. Append(emitting, unlogged) \in Seq(Nat)
      BY <1>t
    <3> QED
      BY <1>1, <2>1, <3>1, <3>2, Zenon
  <2>2. CASE unlogged = 0
    <3>1. Total(emitting) \in Nat
      BY <1>t, TotalType
    <3> QED
      BY <1>1, <1>t, <2>2, <3>1
  <2> QED
    BY <1>t, <2>1, <2>2
<1>3. LogTypeOK'
  BY <1>1, <1>2, <1>t DEF LogTypeOK, ThrottleOnly
<1>4. TimerIsSet'
  BY <1>1 DEF TimerIsSet
<1>5. /\ InHand("line")' = InHand("line") /\ InHand("drops")' = InHand("drops")
      /\ Total(records)' = Total(records)
  BY <1>1 DEF ThrottleOnly, InHand
<1>6. RefusalsAddUp'
  <2>1. /\ InHand("line") \in Nat /\ Total(records) \in Nat /\ Total(emitting) \in Nat
        /\ seen.logged \in Nat /\ seen.lost \in Nat
    BY <1>t, TotalsType DEF LogTypeOK, Ledger
  <2>2. seen.refused = seen.logged + InHand("line") + Total(records) + Total(emitting) + unlogged + seen.lost
    BY DEF LogInv, RefusalsAddUp
  <2>3. seen.refused = seen.logged + InHand("line") + Total(records) + Total(emitting') + 0 + seen.lost
    BY <1>t, <1>2, <2>1, <2>2
  <2> QED
    BY <1>1, <1>5, <2>3 DEF RefusalsAddUp
<1>7. DropsAddUp' /\ DrainerRuns' /\ QueuedAddUp' /\ FlushIsRight'
  BY <1>1, <1>5 DEF ThrottleOnly, LogInv, DropsAddUp, DrainerRuns, QueuedAddUp, FlushIsRight, LineInHand
<1> QED
  BY <1>3, <1>4, <1>6, <1>7 DEF LogInv

\* The lines to be logged lose one that counts this many.
Gives(line) == emitting' \in Seq(Nat) /\ Total(emitting) = Total(emitting') + line

\* A line that counts refusals the throttle has given up is queued, or dropped
\* and its drop counted; a full queue is being drained.
LEMMA AddKeeps ==
    ASSUME LogInv, NEW line \in Nat, Add(line), Gives(line)
    PROVE  LogInv'
<1>t. LogTypeOK
  BY DEF LogInv
<1>a. UNCHANGED <<unlogged, flushing, timer, queue, hand, idle, flush>>
  BY DEF Add, throttleVars
<1>s. seen \in Ledger
  BY <1>t DEF LogTypeOK
<1>b. /\ seen.refused \in Nat /\ seen.logged \in Nat /\ seen.lost \in Nat /\ seen.lines \in Nat
      /\ seen.queued \in Nat /\ seen.written \in Nat /\ seen.drops \in Nat /\ seen.told \in Nat
  BY <1>t DEF LogTypeOK, Ledger
<1>c. /\ InHand("line") \in Nat /\ Total(records) \in Nat /\ Total(emitting) \in Nat /\ unlogged \in Nat
      /\ InHand("drops") \in Nat /\ dropped \in Nat /\ Total(emitting') \in Nat
      /\ flush.before \in Nat
  BY <1>t, TotalsType, TotalType DEF LogTypeOK, Gives
<1>r. records \in Seq(Nat) /\ Len(records) \in Nat
  BY <1>t, LenProperties DEF LogTypeOK
<1>d. seen.refused = seen.logged + InHand("line") + Total(records) + (Total(emitting') + line) + unlogged + seen.lost
  BY DEF LogInv, RefusalsAddUp, Gives
<1>e. InHand("line")' = InHand("line") /\ InHand("drops")' = InHand("drops") /\ LineInHand' = LineInHand
  BY <1>a DEF InHand, LineInHand
<1>f. TimerIsSet'
  BY <1>a DEF LogInv, TimerIsSet
<1>1. CASE Len(records) >= MaxQueued
  <2>1. /\ dropped' = dropped + 1 /\ UNCHANGED <<records, draining>>
        /\ seen' = [seen EXCEPT !.drops = seen.drops + 1, !.lost = seen.lost + line, !.lines = seen.lines + 1]
    BY <1>1 DEF Add
  <2>a. seen.drops + 1 \in Nat /\ seen.lost + line \in Nat /\ seen.lines + 1 \in Nat
    BY <1>b
  <2>2. seen' \in Ledger
    BY <1>s, <2>1, <2>a, Zenon DEF Ledger
  <2>3. /\ seen'.refused = seen.refused /\ seen'.logged = seen.logged /\ seen'.lost = seen.lost + line
        /\ seen'.queued = seen.queued /\ seen'.written = seen.written /\ seen'.drops = seen.drops + 1
        /\ seen'.told = seen.told
    BY <1>s, <2>1 DEF Ledger
  <2>4. LogTypeOK'
    BY <1>a, <1>c, <1>t, <2>1, <2>2, SMTT(30) DEF LogTypeOK, Gives
  <2>5. RefusalsAddUp'
    <3>1. seen.refused = seen.logged + InHand("line") + Total(records) + Total(emitting') + unlogged + (seen.lost + line)
      BY <1>b, <1>c, <1>d
    <3> QED
      BY <1>a, <1>e, <2>1, <2>3, <3>1 DEF RefusalsAddUp
  <2>6. DropsAddUp'
    <3>0. seen.drops = seen.told + InHand("drops") + dropped
      BY DEF LogInv, DropsAddUp
    <3>a. seen.told \in Nat /\ InHand("drops") \in Nat /\ dropped \in Nat
      BY <1>b, <1>c
    <3>1. seen.drops + 1 = seen.told + InHand("drops") + (dropped + 1)
      BY <3>0, <3>a
    <3> QED
      BY <1>e, <2>1, <2>3, <3>1 DEF DropsAddUp
  <2>7. DrainerRuns'
    <3>1. records # <<>>
      BY <1>1, <1>r, LogAssumption
    <3> QED
      BY <2>1, <3>1 DEF LogInv, DrainerRuns
  <2>8. QueuedAddUp' /\ FlushIsRight'
    BY <1>a, <1>e, <2>1, <2>3 DEF LogInv, QueuedAddUp, FlushIsRight
  <2> QED
    BY <1>f, <2>4, <2>5, <2>6, <2>7, <2>8 DEF LogInv
<1>2. CASE ~(Len(records) >= MaxQueued)
  <2>1. /\ records' = Append(records, line) /\ draining' = TRUE /\ UNCHANGED dropped
        /\ seen' = [seen EXCEPT !.queued = seen.queued + 1, !.lines = seen.lines + 1]
    BY <1>2 DEF Add
  <2>a. seen.queued + 1 \in Nat /\ seen.lines + 1 \in Nat
    BY <1>b
  <2>2. seen' \in Ledger
    BY <1>s, <2>1, <2>a, Zenon DEF Ledger
  <2>3. /\ seen'.refused = seen.refused /\ seen'.logged = seen.logged /\ seen'.lost = seen.lost
        /\ seen'.queued = seen.queued + 1 /\ seen'.written = seen.written /\ seen'.drops = seen.drops
        /\ seen'.told = seen.told
    BY <1>s, <2>1 DEF Ledger
  <2>4. records' \in Seq(Nat) /\ Len(records') = Len(records) + 1
    BY <1>r, <2>1
  <2>5. Total(records') = Total(records) + line
    <3>1. Total(Append(records, line)) = Total(records) + line
      BY <1>r, TotalAppend, Zenon
    <3> QED
      BY <2>1, <3>1, Zenon
  <2>6. LogTypeOK'
    BY <1>a, <1>c, <1>t, <2>1, <2>2, <2>4 DEF LogTypeOK, Gives
  <2>7. RefusalsAddUp'
    <3>1. seen.refused = seen.logged + InHand("line") + (Total(records) + line) + Total(emitting') + unlogged + seen.lost
      BY <1>b, <1>c, <1>d
    <3> QED
      BY <1>a, <1>e, <2>3, <2>5, <3>1 DEF RefusalsAddUp
  <2>8. DropsAddUp' /\ DrainerRuns'
    BY <1>e, <2>1, <2>3 DEF LogInv, DropsAddUp, DrainerRuns
  <2>9. QueuedAddUp'
    <3>1. LineInHand \in Nat
      BY DEF LineInHand
    <3> DEFINE n == Len(records)
    <3>2. n \in Nat /\ (queue # "signing" => seen.queued = seen.written + n + LineInHand)
      BY <1>r DEF LogInv, QueuedAddUp
    <3> HIDE DEF n
    <3>3. queue # "signing" => seen.queued + 1 = seen.written + (n + 1) + LineInHand
      BY <1>b, <3>1, <3>2
    <3>4. queue' # "signing" => Len(hand') <= 1
      BY <1>a DEF LogInv, QueuedAddUp
    <3>5. queue' # "signing" => seen'.queued = seen'.written + Len(records') + LineInHand'
      BY <1>a, <1>e, <2>3, <2>4, <3>3 DEF n
    <3> QED
      BY <3>4, <3>5 DEF QueuedAddUp
  <2>10. FlushIsRight'
    <3>1. flush.before <= seen.queued + 1 /\ (flush.at = "true" => seen.written >= flush.before)
      BY <1>b, <1>c DEF LogInv, FlushIsRight
    <3> QED
      BY <1>a, <2>3, <3>1 DEF FlushIsRight
  <2> QED
    BY <1>f, <2>6, <2>7, <2>8, <2>9, <2>10 DEF LogInv
<1> QED
  BY <1>1, <1>2

\* What the drainer takes leaves the records for its hand, which was empty.
Moved(rs, d) ==
    /\ Carries(hand', rs, d) /\ records' \in Seq(Nat) /\ Total(records) = Total(rs) + Total(records')
    /\ dropped = d + dropped'

LEMMA TakesKeeps ==
    ASSUME LogInv, NEW rs, NEW d, Moved(rs, d), hand = <<>>, draining,
           UNCHANGED <<unlogged, flushing, timer, emitting, queue, idle, flush, seen, draining>>,
           dropped' \in Nat,
           queue # "signing" => /\ Len(hand') <= 1
                                /\ Len(records) = Len(records') + (IF hand' # <<>> /\ hand'[1].kind = "line" THEN 1 ELSE 0)
    PROVE  LogInv'
<1>t. LogTypeOK
  BY DEF LogInv
<1>1. InHand("line") = 0 /\ InHand("drops") = 0 /\ LineInHand = 0
  BY InHandIs, WeightsOfNothing DEF LineInHand
<1>2. InHand("line")' = Total(rs) /\ InHand("drops")' = d
  <2>1. InHand("line")' = Total(Weights("line", hand')) /\ InHand("drops")' = Total(Weights("drops", hand'))
    BY DEF InHand, Weights
  <2> QED
    BY <2>1, WeightsCarried DEF Moved
<1>3. LogTypeOK'
  BY <1>t DEF LogTypeOK, Moved, Carries
<1>4. /\ seen.logged \in Nat /\ seen.lost \in Nat /\ seen.told \in Nat /\ d \in Nat /\ unlogged \in Nat
      /\ Total(emitting) \in Nat /\ Total(rs) \in Nat /\ Total(records') \in Nat
  BY <1>t, TotalType, Zenon DEF LogTypeOK, Ledger, Moved, Carries
<1>5. RefusalsAddUp'
  <2>1. seen.refused = seen.logged + 0 + (Total(rs) + Total(records')) + Total(emitting) + unlogged + seen.lost
    BY <1>1 DEF LogInv, RefusalsAddUp, Moved
  <2> DEFINE a == Total(rs)
             b == Total(records')
  <2>2. a \in Nat /\ b \in Nat /\ seen.refused = seen.logged + 0 + (a + b) + Total(emitting) + unlogged + seen.lost
    BY <1>4, <2>1
  <2> HIDE DEF a, b
  <2>3. seen.refused = seen.logged + a + b + Total(emitting) + unlogged + seen.lost
    BY <1>4, <2>2
  <2> QED
    BY <1>2, <2>3 DEF RefusalsAddUp, a, b
<1>6. DropsAddUp'
  <2>1. seen.drops = seen.told + 0 + (d + dropped')
    BY <1>1 DEF LogInv, DropsAddUp, Moved
  <2>2. seen.drops = seen.told + d + dropped'
    BY <1>4, <2>1
  <2> QED
    BY <1>2, <2>2 DEF DropsAddUp
<1>7. TimerIsSet' /\ DrainerRuns' /\ FlushIsRight'
  BY DEF LogInv, TimerIsSet, DrainerRuns, FlushIsRight
<1>8. QueuedAddUp'
  <2> SUFFICES ASSUME queue # "signing"
               PROVE  Len(hand') <= 1 /\ seen.queued = seen.written + Len(records') + LineInHand'
    BY DEF QueuedAddUp
  <2>1. seen.queued = seen.written + Len(records) + 0
    BY <1>1 DEF LogInv, QueuedAddUp
  <2>2. Len(records) = Len(records') + LineInHand' /\ LineInHand' \in Nat
    BY DEF LineInHand
  <2>3. Len(records') \in Nat /\ seen.written \in Nat
    BY <1>t, LenProperties DEF LogTypeOK, Ledger, Moved
  <2> QED
    BY <2>1, <2>2, <2>3
<1> QED
  BY <1>3, <1>5, <1>6, <1>7, <1>8 DEF LogInv

LEMMA DropsCarry ==
    ASSUME NEW rs \in Seq(Nat), dropped \in Nat
    PROVE  Carries(Lines(rs) \o Drops, rs, dropped)
<1>1. /\ Lines(rs) \in Seq(Held) /\ Len(Lines(rs)) = Len(rs) /\ Len(rs) \in Nat
      /\ \A k \in 1 .. Len(rs): Lines(rs)[k] = [kind |-> "line", of |-> rs[k]]
  BY LinesType, LenProperties
<1>2. /\ Drops \in Seq(Held) /\ Len(Drops) = (IF dropped > 0 THEN 1 ELSE 0)
      /\ dropped > 0 => Drops[1] = [kind |-> "drops", of |-> dropped]
  <2>1. CASE dropped > 0
    <3>1. Drops = <<[kind |-> "drops", of |-> dropped]>>
      BY <2>1 DEF Drops
    <3>2. [kind |-> "drops", of |-> dropped] \in Held
      BY DEF Held
    <3> QED
      BY <2>1, <3>1, <3>2
  <2>2. CASE ~(dropped > 0)
    BY <2>2 DEF Drops
  <2> QED
    BY <2>1, <2>2
<1> DEFINE ls == Lines(rs)
           ds == Drops
<1>3. /\ ls \in Seq(Held) /\ ds \in Seq(Held) /\ Len(ls) = Len(rs) /\ Len(ds) = (IF dropped > 0 THEN 1 ELSE 0)
      /\ dropped > 0 => ds[1] = [kind |-> "drops", of |-> dropped]
      /\ \A k \in 1 .. Len(rs): ls[k] = [kind |-> "line", of |-> rs[k]]
  BY <1>1, <1>2
<1> HIDE DEF ls, ds
<1>4. /\ ls \o ds \in Seq(Held) /\ Len(ls \o ds) = Len(ls) + Len(ds)
      /\ \A k \in 1 .. Len(ls) + Len(ds): (ls \o ds)[k] = IF k <= Len(ls) THEN ls[k] ELSE ds[k - Len(ls)]
  <2>1. ls \in Seq(Held) /\ ds \in Seq(Held)
    BY <1>3
  <2> QED
    BY <2>1, ConcatProperties, Zenon
<1>5. \A k \in 1 .. Len(rs): (ls \o ds)[k] = [kind |-> "line", of |-> rs[k]]
  BY <1>1, <1>3, <1>4
<1>6. dropped > 0 => (ls \o ds)[Len(rs) + 1] = [kind |-> "drops", of |-> dropped]
  <2> SUFFICES ASSUME dropped > 0 PROVE (ls \o ds)[Len(rs) + 1] = ds[1]
    BY <1>3, Zenon
  <2>1. Len(rs) + 1 \in 1 .. Len(ls) + Len(ds) /\ ~(Len(rs) + 1 <= Len(ls)) /\ Len(rs) + 1 - Len(ls) = 1
    BY <1>1, <1>3
  <2> QED
    BY <1>4, <2>1
<1>7. Len(ls \o ds) = Len(rs) + (IF dropped > 0 THEN 1 ELSE 0)
  BY <1>1, <1>3, <1>4
<1>8. Carries(ls \o ds, rs, dropped)
  BY <1>4, <1>5, <1>6, <1>7 DEF Carries
<1> QED
  BY <1>8 DEF ls, ds

\* drain takes everything, or the next record, or the count of drops; or ends
\* with nothing left.
LEMMA DrainTakesKeeps == ASSUME LogInv, DrainTakes PROVE LogInv'
<1>t. LogTypeOK /\ records \in Seq(Nat) /\ dropped \in Nat /\ hand \in Seq(Held)
  BY DEF LogInv, LogTypeOK
<1>1. /\ draining /\ hand = <<>>
      /\ UNCHANGED <<unlogged, flushing, timer, emitting, queue, flush, seen>>
  BY DEF DrainTakes, throttleVars
<1>n. Total(<<>>) = 0 /\ <<>> \in Seq(Nat) /\ Len(<<>>) = 0
  <2>1. <<>> \in Seq(Nat) /\ (\A k \in 1 .. Len(<<>>): <<>>[k] = 0) /\ Len(<<>>) = 0
    OBVIOUS
  <2> QED
    BY <2>1, TotalOfNoughts, Zenon
<1>2. CASE DrainIsDone
  <2>1. /\ records = <<>> /\ dropped = 0 /\ draining' = FALSE /\ idle' = idle + 1
        /\ UNCHANGED <<records, dropped, hand>>
    BY <1>2 DEF DrainTakes, DrainIsDone
  <2>2. LogTypeOK'
    BY <1>1, <1>t, <2>1 DEF LogTypeOK
  <2>3. /\ InHand("line")' = InHand("line") /\ InHand("drops")' = InHand("drops")
        /\ Total(records)' = Total(records) /\ Total(emitting)' = Total(emitting) /\ LineInHand' = LineInHand
    BY <1>1, <2>1 DEF InHand, LineInHand
  <2>4. RefusalsAddUp' /\ DropsAddUp'
    BY <1>1, <2>1, <2>3 DEF LogInv, RefusalsAddUp, DropsAddUp
  <2>5. TimerIsSet' /\ DrainerRuns' /\ QueuedAddUp' /\ FlushIsRight'
    BY <1>1, <2>1, <2>3 DEF LogInv, TimerIsSet, DrainerRuns, QueuedAddUp, FlushIsRight
  <2> QED
    BY <2>2, <2>4, <2>5 DEF LogInv
<1>3. CASE ~DrainIsDone /\ queue = "signing"
  <2>1. hand' = Lines(records) \o Drops /\ records' = <<>> /\ dropped' = 0 /\ UNCHANGED <<draining, idle>>
    BY <1>3 DEF DrainTakes, TakeAll
  <2>2. Carries(hand', records, dropped)
    BY <1>t, <2>1, DropsCarry
  <2>3. Total(records) \in Nat
    BY <1>t, TotalType
  <2>4. Total(records) = Total(records) + Total(records') /\ dropped = dropped + dropped'
    BY <1>n, <1>t, <2>1, <2>3
  <2>5. Moved(records, dropped)
    BY <1>n, <2>1, <2>2, <2>4 DEF Moved
  <2> QED
    BY <1>1, <1>3, <2>1, <2>5, TakesKeeps
<1>4. CASE queue # "signing" /\ records # <<>>
  <2> DEFINE rs == <<Head(records)>>
  <2>1. hand' = Lines(rs) /\ records' = Tail(records) /\ UNCHANGED <<dropped, draining, idle>>
    BY <1>4 DEF DrainTakes, TakeNext, DrainIsDone
  <2>2. /\ Total(records) = Total(Tail(records)) + Head(records) /\ Head(records) \in Nat
        /\ Total(Tail(records)) \in Nat
    BY <1>t, <1>4, TotalTail
  <2>3. rs \in Seq(Nat) /\ Len(rs) = 1 /\ rs[1] = Head(records)
    BY <2>2
  <2>4. Total(rs) = Head(records)
    <3>1. rs = Append(<<>>, Head(records))
      OBVIOUS
    <3>2. Total(Append(<<>>, Head(records))) = Total(<<>>) + Head(records)
      BY <1>n, <2>2, TotalAppend, Zenon
    <3>3. 0 + Head(records) = Head(records)
      BY <2>2
    <3> QED
      BY <1>n, <3>1, <3>2, <3>3
  <2>5. Tail(records) \in Seq(Nat) /\ Len(records) = Len(Tail(records)) + 1
    BY <1>t, <1>4
  <2> HIDE DEF rs
  <2>6. /\ hand' \in Seq(Held) /\ Len(hand') = 1 /\ hand'[1] = [kind |-> "line", of |-> rs[1]] /\ hand' # <<>>
        /\ \A k \in 1 .. Len(rs): hand'[k] = [kind |-> "line", of |-> rs[k]]
    BY <2>1, <2>3, LinesType
  <2>7. Carries(hand', rs, 0)
    BY <2>3, <2>6 DEF Carries
  <2>8. Total(records) = Total(rs) + Total(records') /\ dropped = 0 + dropped'
    BY <1>t, <2>1, <2>2, <2>4
  <2>9. Moved(rs, 0)
    BY <2>1, <2>5, <2>7, <2>8 DEF Moved
  <2>10. Len(hand') <= 1 /\ Len(records) = Len(records') + 1 /\ hand' # <<>> /\ hand'[1].kind = "line"
    BY <2>1, <2>5, <2>6
  <2> QED
    BY <1>1, <1>t, <1>4, <2>1, <2>9, <2>10, TakesKeeps
<1>5. CASE ~DrainIsDone /\ queue # "signing" /\ records = <<>>
  <2>1. hand' = Drops /\ dropped' = 0 /\ UNCHANGED <<records, draining, idle>> /\ dropped > 0
    BY <1>t, <1>5 DEF DrainTakes, TakeNext, DrainIsDone
  <2>2. hand' = <<[kind |-> "drops", of |-> dropped]>>
    BY <2>1 DEF Drops
  <2>3. [kind |-> "drops", of |-> dropped] \in Held
    BY <1>t DEF Held
  <2>4. /\ hand' \in Seq(Held) /\ Len(hand') = 1 /\ hand'[1] = [kind |-> "drops", of |-> dropped]
    BY <2>2, <2>3
  <2>5. Carries(hand', <<>>, dropped)
    BY <1>n, <1>t, <2>1, <2>4 DEF Carries
  <2>6. Moved(<<>>, dropped)
    BY <1>n, <1>t, <1>5, <2>1, <2>5 DEF Moved
  <2>7. hand'[1].kind # "line"
    BY <2>4
  <2>8. Len(hand') <= 1 /\ Len(records) = Len(records') + 0
    BY <1>n, <1>5, <2>1, <2>4
  <2> QED
    BY <1>1, <1>t, <1>5, <2>1, <2>6, <2>7, <2>8, TakesKeeps
<1> QED
  BY <1>2, <1>3, <1>4, <1>5

\* The destination accepts what is first in the drainer's hand.
LEMMA DrainWritesKeeps == ASSUME LogInv, DrainWrites PROVE LogInv'
<1>t. LogTypeOK
  BY DEF LogInv
<1>1. /\ hand # <<>> /\ hand' = Tail(hand)
      /\ UNCHANGED <<unlogged, flushing, timer, emitting, queue, records, draining, dropped, idle, flush>>
  BY DEF DrainWrites, throttleVars
<1>2. hand \in Seq(Held) /\ hand[1] \in Held /\ hand' \in Seq(Held)
  BY <1>1, <1>t DEF LogTypeOK
<1> DEFINE n == hand[1].of
<1>3. n \in Nat /\ (hand[1].kind = "line" \/ hand[1].kind = "drops")
  BY <1>2 DEF Held
<1>4. /\ InHand("line") = InHand("line")' + (IF hand[1].kind = "line" THEN n ELSE 0)
      /\ InHand("drops") = InHand("drops")' + (IF hand[1].kind = "drops" THEN n ELSE 0)
      /\ InHand("line")' \in Nat /\ InHand("drops")' \in Nat
  <2>1. \A kind: InHand(kind)' = Total(Weights(kind, Tail(hand))) /\ InHand(kind) = Total(Weights(kind, hand))
    BY <1>1 DEF InHand, Weights
  <2> QED
    BY <1>1, <1>2, <2>1, WeightsOfTail
<1> HIDE DEF n
<1>5. seen \in Ledger
  BY <1>t DEF LogTypeOK
<1>6. /\ seen.refused \in Nat /\ seen.logged \in Nat /\ seen.lost \in Nat /\ seen.queued \in Nat
      /\ seen.written \in Nat /\ seen.drops \in Nat /\ seen.told \in Nat
  BY <1>5 DEF Ledger
<1>7. /\ Total(records) \in Nat /\ Total(emitting) \in Nat /\ unlogged \in Nat /\ dropped \in Nat
      /\ flush.before \in Nat
  BY <1>t, TotalsType DEF LogTypeOK
<1>8. /\ seen.refused = seen.logged + InHand("line") + Total(records) + Total(emitting) + unlogged + seen.lost
      /\ seen.drops = seen.told + InHand("drops") + dropped
  BY DEF LogInv, RefusalsAddUp, DropsAddUp
<1>9. TimerIsSet' /\ DrainerRuns'
  BY <1>1 DEF LogInv, TimerIsSet, DrainerRuns
<1>10. ASSUME queue # "signing" PROVE hand' = <<>> /\ Len(hand') = 0
  <2>1. Len(hand) <= 1
    BY <1>10 DEF LogInv, QueuedAddUp
  <2>2. Tail(hand) \in Seq(Held) /\ Len(Tail(hand)) = Len(hand) - 1 /\ Len(Tail(hand)) \in Nat /\ Len(hand) \in Nat
    BY <1>1, <1>2, HeadTailProperties, LenProperties
  <2>3. Len(Tail(hand)) = 0
    BY <2>1, <2>2
  <2> QED
    BY <1>1, <2>2, <2>3, EmptySeq
<1>11. CASE hand[1].kind = "line"
  <2>1. seen' = [seen EXCEPT !.written = seen.written + 1, !.logged = seen.logged + n]
    BY <1>11 DEF DrainWrites, n
  <2>2. seen.written + 1 \in Nat /\ seen.logged + n \in Nat
    BY <1>3, <1>6
  <2>3. seen' \in Ledger
    BY <1>5, <2>1, <2>2, Zenon DEF Ledger
  <2>4. /\ seen'.refused = seen.refused /\ seen'.logged = seen.logged + n /\ seen'.lost = seen.lost
        /\ seen'.queued = seen.queued /\ seen'.written = seen.written + 1 /\ seen'.drops = seen.drops
        /\ seen'.told = seen.told
    BY <1>5, <2>1 DEF Ledger
  <2>5. LogTypeOK'
    BY <1>1, <1>2, <1>t, <2>3 DEF LogTypeOK
  <2>6. InHand("line") = InHand("line")' + n /\ InHand("drops")' = InHand("drops")
    BY <1>4, <1>11
  <2>7. RefusalsAddUp'
    <3>1. seen.refused = (seen.logged + n) + InHand("line")' + Total(records) + Total(emitting) + unlogged + seen.lost
      BY <1>3, <1>4, <1>6, <1>7, <1>8, <2>6
    <3> QED
      BY <1>1, <2>4, <3>1 DEF RefusalsAddUp
  <2>8. DropsAddUp'
    BY <1>1, <1>8, <2>4, <2>6 DEF DropsAddUp
  <2>9. QueuedAddUp'
    <3> SUFFICES ASSUME queue # "signing"
                 PROVE  Len(hand') <= 1 /\ seen'.queued = seen'.written + Len(records) + LineInHand'
      BY <1>1 DEF QueuedAddUp
    <3>1. LineInHand = 1 /\ LineInHand' = 0 /\ Len(hand') <= 1
      <4>1. hand' = <<>> /\ Len(hand') = 0
        BY <1>10
      <4>2. LineInHand' = 0 /\ Len(hand') <= 1
        BY <4>1 DEF LineInHand
      <4>3. hand # <<>>
        BY <1>1
      <4>4. LineInHand = 1
        BY <1>11, <4>3 DEF LineInHand
      <4> QED
        BY <4>2, <4>4
    <3> DEFINE m == Len(records)
    <3>2. m \in Nat /\ seen.queued = seen.written + m + 1
      BY <1>t, <3>1, LenProperties DEF LogInv, QueuedAddUp, LogTypeOK
    <3> HIDE DEF m
    <3>3. seen.queued = (seen.written + 1) + m + 0
      BY <1>6, <3>2
    <3> QED
      BY <2>4, <3>1, <3>3 DEF m
  <2>10. FlushIsRight'
    <3>1. flush.before <= seen.queued /\ (flush.at = "true" => seen.written + 1 >= flush.before)
      BY <1>6, <1>7 DEF LogInv, FlushIsRight
    <3> QED
      BY <1>1, <2>4, <3>1 DEF FlushIsRight
  <2> QED
    BY <1>9, <2>5, <2>7, <2>8, <2>9, <2>10 DEF LogInv
<1>12. CASE hand[1].kind = "drops"
  <2>1. seen' = [seen EXCEPT !.told = seen.told + n]
    BY <1>12 DEF DrainWrites, n
  <2>2. seen.told + n \in Nat
    BY <1>3, <1>6
  <2>3. seen' \in Ledger
    BY <1>5, <2>1, <2>2 DEF Ledger
  <2>4. /\ seen'.refused = seen.refused /\ seen'.logged = seen.logged /\ seen'.lost = seen.lost
        /\ seen'.queued = seen.queued /\ seen'.written = seen.written /\ seen'.drops = seen.drops
        /\ seen'.told = seen.told + n
    BY <1>5, <2>1 DEF Ledger
  <2>5. LogTypeOK'
    BY <1>1, <1>2, <1>t, <2>3 DEF LogTypeOK
  <2>6. InHand("drops") = InHand("drops")' + n /\ InHand("line")' = InHand("line")
    BY <1>4, <1>12
  <2>7. RefusalsAddUp'
    BY <1>1, <1>8, <2>4, <2>6 DEF RefusalsAddUp
  <2>8. DropsAddUp'
    <3>1. seen.drops = (seen.told + n) + InHand("drops")' + dropped
      BY <1>3, <1>4, <1>6, <1>7, <1>8, <2>6
    <3> QED
      BY <1>1, <2>4, <3>1 DEF DropsAddUp
  <2>9. QueuedAddUp'
    <3> SUFFICES ASSUME queue # "signing"
                 PROVE  Len(hand') <= 1 /\ seen'.queued = seen'.written + Len(records) + LineInHand'
      BY <1>1 DEF QueuedAddUp
    <3>1. LineInHand = 0 /\ LineInHand' = 0 /\ Len(hand') <= 1
      <4>1. hand' = <<>> /\ Len(hand') = 0
        BY <1>10
      <4>2. LineInHand' = 0 /\ Len(hand') <= 1
        BY <4>1 DEF LineInHand
      <4>3. hand # <<>>
        BY <1>1
      <4>4. LineInHand = 0
        BY <1>12, <4>3 DEF LineInHand
      <4> QED
        BY <4>2, <4>4
    <3> QED
      BY <2>4, <3>1 DEF LogInv, QueuedAddUp
  <2>10. FlushIsRight'
    BY <1>1, <2>4 DEF LogInv, FlushIsRight
  <2> QED
    BY <1>9, <2>5, <2>7, <2>8, <2>9, <2>10 DEF LogInv
<1> QED
  BY <1>3, <1>11, <1>12

\* A call of Flush returns true only when nothing is queued, dropped or in hand.
LEMMA FlushQueueKeeps ==
    ASSUME LogInv, FlushQueue \/ FlushTimesOut \/ SecondPasses \/ UNCHANGED logVars
    PROVE  LogInv'
<1>t. LogTypeOK
  BY DEF LogInv
<1>1. UNCHANGED <<unlogged, flushing, timer, emitting, queue, records, draining, dropped, hand, idle, seen>>
  BY DEF FlushQueue, FlushTimesOut, SecondPasses, logVars, throttleVars, queueVars
<1>2. /\ InHand("line")' = InHand("line") /\ InHand("drops")' = InHand("drops")
      /\ Total(records)' = Total(records) /\ Total(emitting)' = Total(emitting) /\ LineInHand' = LineInHand
  BY <1>1 DEF InHand, LineInHand
<1>3. /\ flush.before \in Nat /\ flush.before <= seen.queued /\ seen.queued \in Nat /\ seen.written \in Nat
      /\ flush.at = "true" => seen.written >= flush.before
  BY <1>t DEF LogInv, FlushIsRight, LogTypeOK, Ledger
<1>4. /\ flush' \in [at: {"none", "waiting", "true", "false"}, idle: Nat, before: Nat]
      /\ flush'.before <= seen.queued /\ (flush'.at = "true" => seen.written >= flush'.before)
  <2>1. CASE FlushQueue
    <3>1. flush' = [at |-> IF draining THEN "waiting" ELSE "true", idle |-> idle,
                    before |-> IF flush.at = "none" THEN seen.queued ELSE flush.before]
          /\ queue = "asynclog"
      BY <2>1 DEF FlushQueue
    <3>2. flush'.before \in Nat /\ flush'.before <= seen.queued
      BY <1>3, <3>1
    <3>3. ASSUME ~draining PROVE seen.written >= flush'.before
      <4>1. records = <<>> /\ hand = <<>>
        BY <3>3 DEF LogInv, DrainerRuns
      <4>2. Len(records) = 0 /\ LineInHand = 0
        BY <4>1 DEF LineInHand
      <4>3. seen.queued = seen.written + 0 + 0
        BY <3>1, <4>2 DEF LogInv, QueuedAddUp
      <4> QED
        BY <1>3, <3>2, <4>3
    <3>4. flush'.at = (IF draining THEN "waiting" ELSE "true") /\ flush'.idle = idle /\ idle \in Nat
      BY <1>t, <3>1 DEF LogTypeOK
    <3>5. flush' \in [at: {"none", "waiting", "true", "false"}, idle: Nat, before: Nat]
      <4>1. (IF flush.at = "none" THEN seen.queued ELSE flush.before) \in Nat
        BY <1>3
      <4>2. (IF draining THEN "waiting" ELSE "true") \in {"none", "waiting", "true", "false"}
        OBVIOUS
      <4> QED
        BY <3>1, <3>4, <4>1, <4>2
    <3> QED
      BY <3>2, <3>3, <3>4, <3>5
  <2>2. CASE FlushTimesOut
    <3>1. flush' = [flush EXCEPT !.at = "false"]
      BY <2>2 DEF FlushTimesOut
    <3> QED
      BY <1>3, <1>t, <3>1, Zenon DEF LogTypeOK
  <2>3. CASE UNCHANGED flush
    BY <1>3, <1>t, <2>3 DEF LogTypeOK
  <2> QED
    BY <2>1, <2>2, <2>3 DEF SecondPasses, logVars
<1>5. LogTypeOK'
  BY <1>1, <1>4, <1>t DEF LogTypeOK
<1>6. RefusalsAddUp' /\ DropsAddUp'
  BY <1>1, <1>2 DEF LogInv, RefusalsAddUp, DropsAddUp
<1>7. TimerIsSet' /\ DrainerRuns' /\ QueuedAddUp'
  BY <1>1, <1>2 DEF LogInv, TimerIsSet, DrainerRuns, QueuedAddUp
<1>8. FlushIsRight'
  BY <1>1, <1>4 DEF FlushIsRight
<1> QED
  BY <1>5, <1>6, <1>7, <1>8 DEF LogInv

\* Every refusal is in a line written or on its way, is held back with a timer
\* to come, or was in a dropped line whose drop is counted; and a Flush that
\* returns true is right; for any queue size, any interval and all three queues.
THEOREM EveryRefusalIsLogged == LogSpec => []NoneGoesUnlogged
<1>1. LogInv /\ [LogNext]_logVars => LogInv'
  <2> SUFFICES ASSUME LogInv, [LogNext]_logVars PROVE LogInv'
    OBVIOUS
  <2>1. ASSUME NEW at \in {now - 1, now}, NoteRefusal(at) PROVE LogInv'
    BY <2>1, NoteKeeps
  <2>2. ASSUME NEW i \in 1 .. Len(emitting), Emit(i) PROVE LogInv'
    <3>1. emitting \in Seq(Nat)
      BY DEF LogInv, LogTypeOK
    <3>2. Gives(emitting[i]) /\ emitting[i] \in Nat
      BY <2>2, <3>1, TotalOfTheRest, Zenon DEF Emit, Gives
    <3> QED
      BY <2>2, <3>2, AddKeeps DEF Emit
  <2>3. ASSUME LogOther \/ LogNote PROVE LogInv'
    <3>1. Add(0) /\ emitting' = emitting
      BY <2>3 DEF LogOther, LogNote
    <3>2. emitting \in Seq(Nat) /\ Total(emitting) \in Nat
      BY TotalType DEF LogInv, LogTypeOK
    <3>3. Gives(0)
      BY <3>1, <3>2 DEF Gives
    <3> QED
      BY <3>1, <3>3, AddKeeps
  <2> QED
    BY <2>1, <2>2, <2>3, TimerKeeps, DrainTakesKeeps, DrainWritesKeeps, FlushQueueKeeps DEF LogNext
<1>2. LogInv => NoneGoesUnlogged
  BY DEF LogInv, NoneGoesUnlogged, RefusalsAddUp, TimerIsSet, DropsAddUp, DrainerRuns, FlushIsRight
<1> QED
  BY <1>1, <1>2, LogStarts, PTL DEF LogSpec
=============================================================================
