--------------------------- MODULE CourierProofs ----------------------------
(***************************************************************************)
(* What the courier's lanes promise, for every delay, bound and response: a *)
(* back-off is neither cut short nor drawn out, whatever the wall clock, the *)
(* disk and the restarts do, and a hold record is read back.               *)
(***************************************************************************)
EXTENDS LaneBackoff, ResponseClass, WellFoundedInduction, TLAPS

-----------------------------------------------------------------------------
(* The operators.                                                          *)

LEMMA MaxOfTwo ==
    ASSUME NEW a \in Int, NEW b \in Int
    PROVE  Max({a, b}) = IF a >= b THEN a ELSE b
<1>1. \E x \in {a, b} : \A y \in {a, b} : x >= y
  OBVIOUS
<1>2. Max({a, b}) \in {a, b} /\ \A y \in {a, b} : Max({a, b}) >= y
  BY <1>1 DEF Max
<1> QED
  BY <1>2

LEMMA MaxOfThree ==
    ASSUME NEW a \in Int, NEW b \in Int, NEW c \in Int
    PROVE  /\ Max({a, b, c}) \in {a, b, c}
           /\ Max({a, b, c}) >= a /\ Max({a, b, c}) >= b /\ Max({a, b, c}) >= c
<1>1. \E x \in {a, b, c} : \A y \in {a, b, c} : x >= y
  <2>1. CASE a >= b /\ a >= c
    BY <2>1
  <2>2. CASE b >= a /\ b >= c
    BY <2>2
  <2>3. CASE c >= a /\ c >= b
    BY <2>3
  <2> QED
    BY <2>1, <2>2, <2>3
<1> QED
  BY <1>1 DEF Max

\* ceilMilli rounds up, by less than a millisecond, to a whole one.
LEMMA CeilMilliRounds ==
    ASSUME NEW t \in Int
    PROVE  /\ CeilMilli(t) \in Int /\ t <= CeilMilli(t) /\ CeilMilli(t) <= t + Milli - 1
           /\ CeilMilli(t) % Milli = 0
<1>1. Milli \in Nat \ {0} /\ t % Milli \in 0..(Milli - 1) /\ t = Milli * (t \div Milli) + (t % Milli)
      /\ t \div Milli \in Int
  BY BackoffAssumption
<1>2. ASSUME NEW q \in Int PROVE (Milli * q) % Milli = 0
  BY <1>1
<1>3. CeilMilli(t) = Milli * (t \div Milli) \/ CeilMilli(t) = Milli * (t \div Milli + 1)
  BY <1>1 DEF CeilMilli
<1>4. CeilMilli(t) % Milli = 0
  BY <1>1, <1>2, <1>3
<1> QED
  BY <1>1, <1>4 DEF CeilMilli

\* It never rounds past a whole millisecond.
LEMMA CeilMilliIsLeast ==
    ASSUME NEW t \in Int, NEW n \in Int, n % Milli = 0, t <= n
    PROVE  CeilMilli(t) <= n
<1> DEFINE q == t \div Milli
           p == n \div Milli
<1>1. Milli \in Nat \ {0} /\ t % Milli \in 0..(Milli - 1) /\ t = Milli * q + (t % Milli) /\ q \in Int
      /\ n = Milli * p /\ p \in Int
  BY BackoffAssumption
<1> HIDE DEF p, q
<1>2. CASE t % Milli = 0
  BY <1>2 DEF CeilMilli
<1>3. CASE t % Milli # 0
  <2>1. CeilMilli(t) = Milli * (q + 1)
    BY <1>1, <1>3 DEF CeilMilli
  <2>2. Milli * q < Milli * p
    BY <1>1, <1>3
  <2>3. q < p
    BY <1>1, <2>2
  <2>4. Milli * (q + 1) <= Milli * p
    BY <1>1, <2>3
  <2> QED
    BY <1>1, <2>1, <2>4
<1> QED
  BY <1>2, <1>3

LEMMA LessThanWellFounded == IsWellFoundedOn({pair \in Nat \X Nat : pair[1] < pair[2]}, Nat)
BY NatLessThanWellFounded, Zenon DEF OpToRel

\* A non-empty set of natural numbers has a least one.
LEMMA LeastNumber ==
    ASSUME NEW T, T \subseteq Nat, T # {}
    PROVE  \E m \in T : \A n \in T : m <= n
<1> DEFINE R == {pair \in Nat \X Nat : pair[1] < pair[2]}
<1>1. IsWellFoundedOn(R, Nat)
  BY LessThanWellFounded
<1> HIDE DEF R
<1>2. PICK m \in T : \A n \in T : ~(<<n, m>> \in R)
  BY <1>1, WFMin, Zenon
<1>3. ASSUME NEW n \in T PROVE m <= n
  <2>1. n < m => <<n, m>> \in R
    BY DEF R
  <2> QED
    BY <1>2, <2>1
<1> QED
  BY <1>3

\* One round of the loop of backoffDelay.
Twice(x) == IF x < MaxBackoff THEN 2 * x ELSE x

\* What the loop of backoffDelay makes of the base in up to n rounds.
Rounds(n, g) ==
    /\ g \in [0..n -> Nat]
    /\ \A m \in 0..n : g[m] = IF m <= 1 THEN Base ELSE Twice(g[m - 1])

LEMMA RoundsExist == \A n \in Nat : \E g : Rounds(n, g)
<1> DEFINE T == {n \in Nat : ~\E g : Rounds(n, g)}
<1> SUFFICES ASSUME T # {} PROVE FALSE
  OBVIOUS
<1>1. PICK n \in T : \A m \in T : n <= m
  BY LeastNumber, Zenon
<1>2. CASE n = 0
  <2>1. Rounds(0, [m \in 0..0 |-> Base])
    BY BackoffAssumption DEF Rounds
  <2> QED
    BY <1>2, <2>1
<1>3. CASE n # 0
  <2>1. n - 1 \in Nat /\ n - 1 \notin T
    BY <1>1, <1>3
  <2>2. PICK g : Rounds(n - 1, g)
    BY <2>1
  <2> DEFINE next == IF n <= 1 THEN Base ELSE Twice(g[n - 1])
             h == [m \in 0..n |-> IF m = n THEN next ELSE g[m]]
  <2>3. next \in Nat
    BY <2>1, <2>2, BackoffAssumption DEF Rounds, Twice
  <2>4. h \in [0..n -> Nat]
    BY <2>1, <2>2, <2>3 DEF Rounds
  <2>5. ASSUME NEW m \in 0..n PROVE h[m] = IF m <= 1 THEN Base ELSE Twice(h[m - 1])
    BY <2>1, <2>2 DEF Rounds
  <2>6. Rounds(n, h)
    BY <2>4, <2>5 DEF Rounds
  <2> QED
    BY <2>6
<1> QED
  BY <1>2, <1>3

LEMMA RoundsAgree ==
    ASSUME NEW n \in Nat, NEW g, Rounds(n, g), NEW k \in Nat, NEW h, Rounds(k, h), NEW m \in Nat, m <= n, m <= k
    PROVE  g[m] = h[m]
<1> DEFINE T == {i \in Nat : i <= n /\ i <= k /\ g[i] # h[i]}
<1> SUFFICES ASSUME T # {} PROVE FALSE
  OBVIOUS
<1>1. PICK i \in T : \A j \in T : i <= j
  BY LeastNumber, Zenon
<1>2. i > 1 => g[i - 1] = h[i - 1]
  BY <1>1
<1> QED
  BY <1>1, <1>2 DEF Rounds

\* The doubling delay is what its loop computes, and a number.
LEMMA DoubledType == Doubled \in [Nat -> Nat]
<1> DEFINE G(n) == CHOOSE g : Rounds(n, g)
           f == [n \in Nat |-> G(n)[n]]
<1>1. ASSUME NEW n \in Nat PROVE Rounds(n, G(n))
  BY RoundsExist
<1> HIDE DEF G
<1>2. f = [n \in Nat |-> f[n]]
  OBVIOUS
<1>3. ASSUME NEW n \in Nat, n > 1 PROVE f[n - 1] = G(n)[n - 1]
  <2>1. n - 1 \in Nat /\ n - 1 <= n
    BY <1>3
  <2>2. Rounds(n, G(n)) /\ Rounds(n - 1, G(n - 1))
    BY <1>1, <2>1
  <2>3. G(n - 1)[n - 1] = G(n)[n - 1]
    BY <2>1, <2>2, RoundsAgree
  <2> QED
    BY <2>1, <2>3
<1>4. ASSUME NEW n \in Nat PROVE f[n] = IF n <= 1 THEN Base ELSE Twice(f[n - 1])
  <2>1. G(n)[n] = IF n <= 1 THEN Base ELSE Twice(G(n)[n - 1])
    BY <1>1 DEF Rounds
  <2> QED
    BY <1>3, <2>1
<1> HIDE DEF f
<1>5. f = [n \in Nat |-> IF n <= 1 THEN Base ELSE IF f[n - 1] < MaxBackoff THEN 2 * f[n - 1] ELSE f[n - 1]]
  BY <1>2, <1>4, Zenon DEF Twice
<1>6. Doubled = [n \in Nat |-> IF n <= 1 THEN Base
                               ELSE IF Doubled[n - 1] < MaxBackoff THEN 2 * Doubled[n - 1] ELSE Doubled[n - 1]]
  BY <1>5 DEF Doubled
<1> DEFINE T == {n \in Nat : Doubled[n] \notin Nat}
<1>7. T = {}
  <2> SUFFICES ASSUME T # {} PROVE FALSE
    OBVIOUS
  <2>1. PICK n \in T : \A m \in T : n <= m
    BY LeastNumber, Zenon
  <2>2. n > 1 => Doubled[n - 1] \in Nat
    BY <2>1
  <2>3. Doubled[n] = IF n <= 1 THEN Base
                     ELSE IF Doubled[n - 1] < MaxBackoff THEN 2 * Doubled[n - 1] ELSE Doubled[n - 1]
    BY <1>6
  <2> QED
    BY <2>1, <2>2, <2>3, BackoffAssumption
<1> QED
  BY <1>6, <1>7, Zenon

LEMMA WaitBoundType ==
    ASSUME NEW after \in Floors
    PROVE  /\ WaitBound(after) \in Nat /\ WaitBound(after) >= 1
           /\ WaitBound(after) >= MaxBackoff /\ WaitBound(after) >= Retry /\ WaitBound(after) >= after
<1>1. MaxBackoff \in Nat /\ Retry \in Nat /\ after \in Nat /\ Retry >= 1
  BY BackoffAssumption
<1>2. MaxBackoff \in Int /\ Retry \in Int /\ after \in Int
  BY <1>1
<1>3. /\ WaitBound(after) \in {MaxBackoff, Retry, after}
      /\ WaitBound(after) >= MaxBackoff /\ WaitBound(after) >= Retry /\ WaitBound(after) >= after
  BY <1>2, MaxOfThree, Zenon DEF WaitBound
<1> QED
  BY <1>1, <1>3

\* The delay is never longer than the bound that untilDue and restore clamp to.
LEMMA BackoffDelayType ==
    ASSUME NEW n \in Nat, NEW floor \in Floors
    PROVE  BackoffDelay(n, floor) \in Nat /\ BackoffDelay(n, floor) <= WaitBound(floor)
<1> DEFINE capped == IF Doubled[n] > MaxBackoff THEN MaxBackoff ELSE Doubled[n]
<1>1. capped \in Nat /\ capped <= MaxBackoff /\ Retry \in Nat /\ floor \in Nat
  BY DoubledType, BackoffAssumption
<1>2. BackoffDelay(n, floor) = Max({capped, Retry, floor})
  BY DEF BackoffDelay
<1> HIDE DEF capped
<1>3. BackoffDelay(n, floor) \in {capped, Retry, floor}
  <2>1. capped \in Int /\ Retry \in Int /\ floor \in Int
    BY <1>1
  <2> QED
    BY <1>2, <2>1, MaxOfThree, Zenon
<1>4. /\ WaitBound(floor) \in Nat /\ WaitBound(floor) >= MaxBackoff /\ WaitBound(floor) >= Retry
      /\ WaitBound(floor) >= floor /\ MaxBackoff \in Nat
  BY WaitBoundType, BackoffAssumption
<1> QED
  BY <1>1, <1>3, <1>4

-----------------------------------------------------------------------------
(* The inductive invariant.                                                *)

\* The cases NotSentEarly is about.
Counted == ~resumed \/ (written /\ ~forward)

BackoffTypeOK ==
    /\ wall \in Nat \ {0} /\ mono \in Nat
    /\ up \in BOOLEAN /\ waiting \in BOOLEAN /\ attempted \in BOOLEAN
    /\ written \in BOOLEAN /\ forward \in BOOLEAN /\ resumed \in BOOLEAN
    /\ notBefore \in Nat /\ monoDue \in Nat /\ retryAfter \in Floors /\ attempts \in Nat /\ timer \in Nat
    /\ record \in [nb : Nat, after : Floors, count : Nat]
    /\ earliest \in Nat /\ back \in Nat /\ waited \in Nat

\* A process that does not run holds no deadlines; deadlines are in whole
\* milliseconds; a waiting lane holds what is on disk as long as every write
\* succeeded.
HeldInv ==
    /\ ~up => resumed /\ ~waiting /\ notBefore = 0 /\ monoDue = 0 /\ retryAfter = 0 /\ attempts = 0
    /\ notBefore % Milli = 0 /\ record.nb % Milli = 0
    /\ (up /\ waiting /\ written) => record = [nb |-> notBefore, after |-> retryAfter, count |-> attempts]

EarlyInv ==
    /\ (up /\ Counted) => mono >= earliest \/ (waiting /\ monoDue >= earliest)
    /\ (written /\ ~forward) =>
          \/ mono >= earliest
          \/ /\ record # NoRecord /\ record.nb - wall >= earliest - mono
             /\ earliest - mono <= WaitBound(record.after)

Allowed(n, after) == n * (WaitBound(after) + Milli - 1)

TimerInv == (up /\ waiting) => timer >= mono /\ monoDue <= timer

CostInv ==
    written =>
       IF up /\ waiting
       THEN \/ /\ notBefore - wall <= timer - mono
               /\ waited + (timer - mono) <= Allowed(1 + back, retryAfter)
            \/ waited + (timer - mono) <= Allowed(back, retryAfter)
       ELSE \/ /\ waited <= Allowed(1 + back, record.after)
               /\ waited + record.nb - wall <= Allowed(1 + back, record.after)
            \/ waited <= Allowed(back, record.after)

BackoffInv == BackoffTypeOK /\ HeldInv /\ TimerInv

\* What reading the wall clock leaves of a deadline: it still lies in the future
\* by the bound when it was clamped, never further than the bound rounded up, and
\* not later than it was.
LEMMA ClampBounds ==
    ASSUME BackoffTypeOK, NEW nb \in Nat, nb % Milli = 0, NEW after \in Floors
    PROVE  /\ Clamp(nb, after) \in Nat /\ Clamp(nb, after) % Milli = 0
           /\ Clamp(nb, after) <= nb
           /\ Clamp(nb, after) - wall <= WaitBound(after) + Milli - 1
           /\ Clamped(nb, after) => Clamp(nb, after) - wall >= WaitBound(after)
           /\ ~Clamped(nb, after) => Clamp(nb, after) = nb
<1>1. wall \in Nat /\ WaitBound(after) \in Nat /\ Milli \in Nat \ {0}
  BY WaitBoundType, BackoffAssumption DEF BackoffTypeOK
<1> DEFINE c == CeilMilli(wall + WaitBound(after))
<1>2. /\ c \in Int /\ wall + WaitBound(after) <= c /\ c <= wall + WaitBound(after) + Milli - 1
      /\ c % Milli = 0
  BY <1>1, CeilMilliRounds
<1>3. Clamped(nb, after) => c <= nb
  BY <1>1, CeilMilliIsLeast DEF Clamped
<1>4. Clamp(nb, after) = IF Clamped(nb, after) THEN c ELSE nb
  BY DEF Clamp
<1> HIDE DEF c
<1> QED
  BY <1>1, <1>2, <1>3, <1>4 DEF Clamped

LEMMA UntilDueIs ==
    ASSUME BackoffTypeOK, NEW nb \in Nat, nb % Milli = 0, NEW after \in Floors, NEW due \in Nat
    PROVE  /\ UntilDue(nb, after, due) \in Int
           /\ UntilDue(nb, after, due) \in {Clamp(nb, after) - wall, due - mono}
           /\ UntilDue(nb, after, due) >= Clamp(nb, after) - wall
           /\ UntilDue(nb, after, due) >= due - mono
<1>1. wall \in Nat /\ mono \in Nat /\ Clamp(nb, after) \in Nat
  BY ClampBounds DEF BackoffTypeOK
<1> QED
  BY <1>1, MaxOfTwo DEF UntilDue

\* What scheduleBackoff computes.
LEMMA ScheduledDelay ==
    ASSUME BackoffTypeOK, NEW n \in Nat, NEW floor \in Floors
    PROVE  LET delay == BackoffDelay(n, floor)
               nb == CeilMilli(wall + delay)
               wait == UntilDue(nb, floor, mono + delay)
           IN  /\ delay \in Nat /\ delay <= WaitBound(floor)
               /\ Clamp(nb, floor) \in Nat /\ Clamp(nb, floor) % Milli = 0
               /\ Clamp(nb, floor) - wall >= delay
               /\ wait \in Nat /\ wait >= delay /\ wait >= Clamp(nb, floor) - wall
               /\ wait <= WaitBound(floor) + Milli - 1
<1> DEFINE delay == BackoffDelay(n, floor)
           nb == CeilMilli(wall + delay)
           wait == UntilDue(nb, floor, mono + delay)
<1>1. /\ wall \in Nat /\ mono \in Nat /\ Milli \in Nat \ {0} /\ WaitBound(floor) \in Nat
      /\ delay \in Nat /\ delay <= WaitBound(floor)
  BY BackoffDelayType, WaitBoundType, BackoffAssumption DEF BackoffTypeOK
<1> HIDE DEF delay
<1>2. nb \in Nat /\ nb % Milli = 0 /\ nb >= wall + delay
  BY <1>1, CeilMilliRounds
<1> HIDE DEF nb
<1>3. Clamp(nb, floor) \in Nat /\ Clamp(nb, floor) % Milli = 0 /\ Clamp(nb, floor) - wall >= delay
      /\ Clamp(nb, floor) - wall <= WaitBound(floor) + Milli - 1
  BY <1>1, <1>2, ClampBounds
<1>4. /\ wait \in {Clamp(nb, floor) - wall, mono + delay - mono}
      /\ wait >= Clamp(nb, floor) - wall /\ wait >= mono + delay - mono
  BY <1>1, <1>2, UntilDueIs
<1> QED
  BY <1>1, <1>3, <1>4 DEF delay, nb

\* scheduleBackoff waits for delay, and for the deadline c, rounded up to the
\* millisecond.
ScheduledTo(delay, c, wait, n, floor, ok) ==
    /\ delay <= WaitBound(floor) /\ c % Milli = 0 /\ c > 0 /\ c - wall >= delay
    /\ wait >= delay /\ wait >= c - wall /\ wait <= WaitBound(floor) + Milli - 1
    /\ attempts' = n /\ notBefore' = c /\ monoDue' = mono + delay /\ retryAfter' = floor
    /\ record' = IF ok THEN [nb |-> c, after |-> floor, count |-> n] ELSE record
    /\ timer' = mono + wait /\ earliest' = mono + delay

LEMMA ScheduleSteps ==
    ASSUME BackoffInv, NEW floor \in Floors, NEW ok \in BOOLEAN, ScheduleBackoff(floor, ok)
    PROVE  \E delay \in Nat, c \in Nat, wait \in Nat, n \in Nat : ScheduledTo(delay, c, wait, n, floor, ok)
<1> DEFINE delay == BackoffDelay(NextCount, floor)
           c == Clamp(CeilMilli(wall + delay), floor)
           wait == UntilDue(CeilMilli(wall + delay), floor, mono + delay)
<1>1. BackoffTypeOK /\ wall \in Nat \ {0}
  BY DEF BackoffInv, BackoffTypeOK
<1>2. NextCount \in Nat
  BY <1>1, BackoffAssumption DEF NextCount, BackoffTypeOK
<1>3. /\ delay \in Nat /\ delay <= WaitBound(floor) /\ c \in Nat /\ c % Milli = 0 /\ c - wall >= delay
      /\ wait \in Nat /\ wait >= delay /\ wait >= c - wall /\ wait <= WaitBound(floor) + Milli - 1
  BY <1>1, <1>2, ScheduledDelay
<1>4. /\ attempts' = NextCount /\ notBefore' = c /\ monoDue' = mono + delay /\ retryAfter' = floor
      /\ record' = IF ok THEN [nb |-> c, after |-> floor, count |-> NextCount] ELSE record
      /\ timer' = mono + wait /\ earliest' = mono + delay
  BY DEF ScheduleBackoff, Persist
<1> HIDE DEF delay, c, wait
<1>5. c > 0
  BY <1>1, <1>3
<1>6. ScheduledTo(delay, c, wait, NextCount, floor, ok)
  BY <1>3, <1>4, <1>5 DEF ScheduledTo
<1> QED
  BY <1>2, <1>3, <1>6

\* A wake or the timer finds the deadline c, clamped or not, and this wait; the
\* lane goes on waiting or sends its head.
CheckedTo(c, wait, fired, ok) ==
    /\ c % Milli = 0 /\ c <= notBefore
    /\ c - wall <= WaitBound(retryAfter) + Milli - 1
    /\ wait \in {c - wall, monoDue - mono} /\ wait >= c - wall /\ wait >= monoDue - mono
    /\ \/ /\ c - wall >= WaitBound(retryAfter) /\ wait > 0 /\ c > 0
          /\ record' = IF ok THEN [nb |-> c, after |-> retryAfter, count |-> attempts] ELSE record
          /\ written' = (written /\ ok)
       \/ c = notBefore /\ UNCHANGED <<record, written>>
    /\ \/ /\ wait > 0 /\ notBefore' = c /\ timer' = IF fired THEN mono + wait ELSE timer
          /\ UNCHANGED <<waiting, monoDue, retryAfter, attempts, attempted>>
       \/ /\ wait <= 0 /\ waiting' = FALSE /\ attempted' = TRUE /\ attempts' \in {attempts, 0}
          /\ notBefore' = 0 /\ monoDue' = 0 /\ retryAfter' = 0 /\ timer' = timer

LEMMA CheckSteps ==
    ASSUME BackoffInv, NEW fired \in BOOLEAN, NEW ok \in BOOLEAN, Check(fired, ok)
    PROVE  \E c \in Nat, wait \in Int : CheckedTo(c, wait, fired, ok)
<1> DEFINE c == Clamp(notBefore, retryAfter)
           wait == UntilDue(notBefore, retryAfter, monoDue)
<1>1. BackoffTypeOK /\ notBefore \in Nat /\ notBefore % Milli = 0 /\ retryAfter \in Floors /\ monoDue \in Nat
      /\ wall \in Nat /\ mono \in Nat
  BY DEF BackoffInv, BackoffTypeOK, HeldInv
<1>2. /\ c \in Nat /\ c % Milli = 0 /\ c <= notBefore /\ c - wall <= WaitBound(retryAfter) + Milli - 1
      /\ Clamped(notBefore, retryAfter) => c - wall >= WaitBound(retryAfter)
      /\ ~Clamped(notBefore, retryAfter) => c = notBefore
  BY <1>1, ClampBounds
<1>3. /\ wait \in Int /\ wait \in {c - wall, monoDue - mono} /\ wait >= c - wall /\ wait >= monoDue - mono
  BY <1>1, UntilDueIs
<1>4. WaitBound(retryAfter) \in Nat /\ WaitBound(retryAfter) >= 1
  BY <1>1, WaitBoundType
<1>5. \/ /\ Clamped(notBefore, retryAfter)
         /\ record' = IF ok THEN [nb |-> c, after |-> retryAfter, count |-> attempts] ELSE record
         /\ written' = (written /\ ok)
      \/ ~Clamped(notBefore, retryAfter) /\ UNCHANGED <<record, written>>
  BY DEF Check, PersistClamp, Persist
<1>6. \/ /\ wait > 0 /\ notBefore' = c /\ timer' = IF fired THEN mono + wait ELSE timer
         /\ UNCHANGED <<waiting, monoDue, retryAfter, attempts, attempted>>
      \/ /\ ~(wait > 0) /\ waiting' = FALSE /\ attempted' = TRUE /\ attempts' \in {attempts, 0}
         /\ notBefore' = 0 /\ monoDue' = 0 /\ retryAfter' = 0 /\ timer' = timer
  BY Zenon DEF Check
<1> HIDE DEF c, wait
<1>7. Clamped(notBefore, retryAfter) => wait > 0 /\ c > 0
  BY <1>1, <1>2, <1>3, <1>4
<1>8. ~(wait > 0) => wait <= 0
  BY <1>3
<1>9. \/ /\ c - wall >= WaitBound(retryAfter) /\ wait > 0 /\ c > 0
         /\ record' = IF ok THEN [nb |-> c, after |-> retryAfter, count |-> attempts] ELSE record
         /\ written' = (written /\ ok)
      \/ c = notBefore /\ UNCHANGED <<record, written>>
  BY <1>2, <1>5, <1>7
<1>10. \/ /\ wait > 0 /\ notBefore' = c /\ timer' = IF fired THEN mono + wait ELSE timer
          /\ UNCHANGED <<waiting, monoDue, retryAfter, attempts, attempted>>
       \/ /\ wait <= 0 /\ waiting' = FALSE /\ attempted' = TRUE /\ attempts' \in {attempts, 0}
          /\ notBefore' = 0 /\ monoDue' = 0 /\ retryAfter' = 0 /\ timer' = timer
  BY <1>6, <1>8
<1> QED
  BY <1>2, <1>3, <1>9, <1>10 DEF CheckedTo

\* restore finds the deadline c, clamped or not, and holds the rest of it on both
\* clocks.
RestoredTo(c, rest, ok) ==
    /\ c % Milli = 0 /\ c <= record.nb /\ c - wall <= WaitBound(record.after) + Milli - 1
    /\ rest = IF c >= wall THEN c - wall ELSE 0
    /\ notBefore' = c /\ retryAfter' = record.after /\ attempts' = record.count
    /\ monoDue' = mono + rest /\ timer' = mono + rest
    /\ \/ /\ c - wall >= WaitBound(record.after) /\ c > 0
          /\ record' = IF ok THEN [nb |-> c, after |-> record.after, count |-> record.count] ELSE record
          /\ written' = (written /\ ok)
       \/ c = record.nb /\ UNCHANGED <<record, written>>

LEMMA RestoreSteps ==
    ASSUME BackoffInv, NEW ok \in BOOLEAN, Restore(ok)
    PROVE  \/ /\ record = NoRecord /\ timer' = mono
              /\ UNCHANGED <<notBefore, monoDue, retryAfter, attempts, attempted, record, written>>
           \/ /\ record # NoRecord /\ UNCHANGED attempted
              /\ \E c \in Nat, rest \in Nat : RestoredTo(c, rest, ok)
<1>1. CASE record = NoRecord
  BY <1>1 DEF Restore, deadlines
<1>2. CASE record # NoRecord
  <2> DEFINE c == Clamp(record.nb, record.after)
             rest == Max({c - wall, 0})
  <2>1. BackoffTypeOK /\ record.nb \in Nat /\ record.nb % Milli = 0 /\ record.after \in Floors /\ wall \in Nat \ {0}
    BY DEF BackoffInv, BackoffTypeOK, HeldInv
  <2>2. /\ c \in Nat /\ c % Milli = 0 /\ c <= record.nb /\ c - wall <= WaitBound(record.after) + Milli - 1
        /\ Clamped(record.nb, record.after) => c - wall >= WaitBound(record.after)
        /\ ~Clamped(record.nb, record.after) => c = record.nb
    BY <2>1, ClampBounds
  <2>3. c - wall \in Int /\ 0 \in Int
    BY <2>1, <2>2
  <2>4. rest = IF c - wall >= 0 THEN c - wall ELSE 0
    BY <2>3, MaxOfTwo, Zenon
  <2>5. /\ notBefore' = c /\ retryAfter' = record.after /\ attempts' = record.count
        /\ monoDue' = mono + rest /\ timer' = mono + rest /\ UNCHANGED attempted
        /\ \/ /\ Clamped(record.nb, record.after)
              /\ record' = IF ok THEN [nb |-> c, after |-> record.after, count |-> record.count] ELSE record
              /\ written' = (written /\ ok)
           \/ ~Clamped(record.nb, record.after) /\ UNCHANGED <<record, written>>
    BY <1>2 DEF Restore, PersistClamp, Persist
  <2> HIDE DEF c, rest
  <2>6. rest \in Nat /\ rest = IF c >= wall THEN c - wall ELSE 0
    BY <2>1, <2>2, <2>4
  <2>7. WaitBound(record.after) \in Nat /\ WaitBound(record.after) >= 1
    BY <2>1, WaitBoundType
  <2>8. Clamped(record.nb, record.after) => c > 0
    BY <2>1, <2>2, <2>7
  <2> QED
    BY <1>2, <2>2, <2>5, <2>6, <2>8 DEF RestoredTo
<1> QED
  BY <1>1, <1>2

LEMMA BackoffInvInit == Init => BackoffInv /\ EarlyInv /\ CostInv
<1> SUFFICES ASSUME Init PROVE BackoffInv /\ EarlyInv /\ CostInv
  OBVIOUS
<1>1. 0 \in Floors /\ Milli \in Nat \ {0} /\ 0 % Milli = 0
  BY BackoffAssumption
<1>2. WaitBound(0) \in Nat
  BY <1>1, WaitBoundType
<1>3. wall \in Nat \ {0} /\ NoRecord.nb = 0 /\ NoRecord.after = 0
  BY BackoffAssumption DEF Init, NoRecord
<1>4. BackoffTypeOK
  BY <1>1, <1>3, Zenon DEF Init, BackoffTypeOK, NoRecord
<1>5. HeldInv /\ TimerInv /\ EarlyInv
  BY <1>1, <1>3 DEF Init, HeldInv, TimerInv, EarlyInv
<1>6. CostInv
  BY <1>1, <1>2, <1>3 DEF Init, CostInv, Allowed
<1> QED
  BY <1>4, <1>5, <1>6 DEF BackoffInv

LEMMA BackoffInvStep == BackoffInv /\ [Next]_vars => BackoffInv'
<1> SUFFICES ASSUME BackoffInv, [Next]_vars PROVE BackoffInv'
  OBVIOUS
<1>a. /\ BackoffTypeOK /\ HeldInv /\ TimerInv /\ 0 \in Floors /\ Milli \in Nat \ {0} /\ 0 % Milli = 0
      /\ MaxWall \in Nat
  BY BackoffAssumption DEF BackoffInv
<1>1. CASE Tick
  <2>1. BackoffTypeOK' /\ HeldInv'
    BY <1>1, <1>a DEF Tick, deadlines, BackoffTypeOK, HeldInv
  <2>2. TimerInv'
    BY <1>1, <1>a DEF Tick, deadlines, BackoffTypeOK, TimerInv
  <2> QED
    BY <2>1, <2>2 DEF BackoffInv
<1>2. ASSUME NEW w \in 1..MaxWall, StepClock(w) PROVE BackoffInv'
  BY <1>2, <1>a DEF StepClock, deadlines, BackoffInv, BackoffTypeOK, HeldInv, TimerInv
<1>3. ASSUME NEW ok \in BOOLEAN, NEW floor \in Floors, ScheduleBackoff(floor, ok) PROVE BackoffInv'
  <2>1. PICK delay \in Nat, c \in Nat, wait \in Nat, n \in Nat : ScheduledTo(delay, c, wait, n, floor, ok)
    BY <1>3, ScheduleSteps
  <2>2. /\ attempts' = n /\ notBefore' = c /\ c % Milli = 0 /\ monoDue' = mono + delay /\ retryAfter' = floor
        /\ record' = IF ok THEN [nb |-> c, after |-> floor, count |-> n] ELSE record
        /\ timer' = mono + wait /\ earliest' = mono + delay /\ wait >= delay
    BY <2>1 DEF ScheduledTo
  <2>3. /\ up /\ waiting' = TRUE
        /\ written' = ok /\ forward' = FALSE /\ back' = 0 /\ resumed' = FALSE /\ waited' = 0
        /\ UNCHANGED <<wall, mono, up, attempted>>
    BY <1>3 DEF ScheduleBackoff
  <2>4. BackoffTypeOK'
    <3>1. record' \in [nb : Nat, after : Floors, count : Nat]
      BY <1>a, <2>1, <2>2, <2>3 DEF BackoffTypeOK
    <3>2. /\ up' \in BOOLEAN /\ waiting' \in BOOLEAN /\ attempted' \in BOOLEAN
          /\ written' \in BOOLEAN /\ forward' \in BOOLEAN /\ resumed' \in BOOLEAN
      BY <1>a, <1>3, <2>3, Zenon DEF BackoffTypeOK
    <3>3. /\ wall' \in Nat \ {0} /\ mono' \in Nat /\ notBefore' \in Nat /\ monoDue' \in Nat
          /\ retryAfter' \in Floors /\ attempts' \in Nat /\ timer' \in Nat
          /\ earliest' \in Nat /\ back' \in Nat /\ waited' \in Nat
      BY <1>a, <1>3, <2>1, <2>2, <2>3 DEF BackoffTypeOK
    <3> QED
      BY <3>1, <3>2, <3>3 DEF BackoffTypeOK
  <2>5. HeldInv'
    BY <1>a, <2>1, <2>2, <2>3 DEF HeldInv
  <2>6. TimerInv'
    BY <1>a, <2>2, <2>3 DEF TimerInv, BackoffTypeOK
  <2> QED
    BY <2>4, <2>5, <2>6 DEF BackoffInv
<1>4. ASSUME NEW ok \in BOOLEAN, NEW fired \in BOOLEAN, Check(fired, ok) PROVE BackoffInv'
  <2>1. PICK c \in Nat, wait \in Int : CheckedTo(c, wait, fired, ok)
    BY <1>4, CheckSteps
  <2>2. up /\ waiting /\ UNCHANGED <<wall, mono, up, earliest, forward, back, resumed, waited>>
    BY <1>4 DEF Check
  <2>3. BackoffTypeOK'
    <3>1. record' \in [nb : Nat, after : Floors, count : Nat]
      BY <1>a, <2>1 DEF BackoffTypeOK, CheckedTo
    <3>2. /\ up' \in BOOLEAN /\ waiting' \in BOOLEAN /\ attempted' \in BOOLEAN
          /\ forward' \in BOOLEAN /\ resumed' \in BOOLEAN
      BY <1>a, <2>1, <2>2, Zenon DEF BackoffTypeOK, CheckedTo
    <3>3. written' \in BOOLEAN
      BY <1>a, <1>4, <2>1, Zenon DEF BackoffTypeOK, CheckedTo
    <3>4. notBefore' \in Nat /\ monoDue' \in Nat /\ retryAfter' \in Floors /\ attempts' \in Nat
      BY <1>a, <2>1 DEF BackoffTypeOK, CheckedTo
    <3>5. timer' \in Nat
      <4>1. timer' \in {timer, mono + wait} /\ (wait > 0 \/ timer' = timer)
        BY <2>1 DEF CheckedTo
      <4> QED
        BY <4>1, <1>a DEF BackoffTypeOK
    <3> QED
      BY <1>a, <2>2, <3>1, <3>2, <3>3, <3>4, <3>5 DEF BackoffTypeOK
  <2>4. HeldInv'
    <3>1. notBefore' % Milli = 0
      BY <1>a, <2>1 DEF CheckedTo
    <3>2. record'.nb % Milli = 0
      BY <1>a, <2>1 DEF CheckedTo, HeldInv
    <3>3. ASSUME waiting', written'
          PROVE  record' = [nb |-> notBefore', after |-> retryAfter', count |-> attempts']
      <4>1. wait > 0 /\ notBefore' = c /\ UNCHANGED <<retryAfter, attempts>>
        BY <3>3, <2>1 DEF CheckedTo
      <4>2. CASE c = notBefore /\ UNCHANGED <<record, written>>
        BY <1>a, <2>2, <3>3, <4>1, <4>2 DEF HeldInv
      <4>3. CASE /\ record' = IF ok THEN [nb |-> c, after |-> retryAfter, count |-> attempts] ELSE record
                 /\ written' = (written /\ ok)
        <5>1. ok
          BY <3>3, <4>3
        <5> QED
          BY <4>1, <4>3, <5>1
      <4> QED
        BY <2>1, <4>2, <4>3 DEF CheckedTo
    <3> QED
      BY <2>2, <3>1, <3>2, <3>3 DEF HeldInv
  <2>5. TimerInv'
    BY <1>a, <2>1, <2>2 DEF TimerInv, BackoffTypeOK, CheckedTo
  <2> QED
    BY <2>3, <2>4, <2>5 DEF BackoffInv
<1>5. ASSUME NEW ok \in BOOLEAN, Restore(ok) PROVE BackoffInv'
  <2>1. ~up /\ up' = TRUE /\ waiting' = TRUE /\ UNCHANGED <<wall, mono, earliest, forward, back, resumed, waited>>
    BY <1>5 DEF Restore
  <2>2. CASE /\ record = NoRecord /\ timer' = mono
             /\ UNCHANGED <<notBefore, monoDue, retryAfter, attempts, attempted, record, written>>
    BY <1>a, <2>1, <2>2 DEF BackoffInv, BackoffTypeOK, HeldInv, TimerInv, NoRecord
  <2>3. ASSUME UNCHANGED attempted, NEW c \in Nat, NEW rest \in Nat, RestoredTo(c, rest, ok)
        PROVE  BackoffInv'
    <3>1. BackoffTypeOK'
      BY <1>a, <2>1, <2>3 DEF BackoffTypeOK, RestoredTo
    <3>2. HeldInv'
      BY <1>a, <2>1, <2>3 DEF HeldInv, BackoffTypeOK, RestoredTo
    <3>3. TimerInv'
      BY <1>a, <2>1, <2>3 DEF TimerInv, BackoffTypeOK, RestoredTo
    <3> QED
      BY <3>1, <3>2, <3>3 DEF BackoffInv
  <2> QED
    BY <1>5, <2>2, <2>3, RestoreSteps
<1>6. CASE Die
  BY <1>6, <1>a, Zenon DEF Die, BackoffInv, BackoffTypeOK, HeldInv, TimerInv
<1>7. CASE UNCHANGED vars
  BY <1>7, <1>a DEF vars, deadlines, scheduled, BackoffInv, BackoffTypeOK, HeldInv, TimerInv
<1> QED
  BY <1>1, <1>2, <1>3, <1>4, <1>5, <1>6, <1>7 DEF Next

\* The wait a process holds, or the one on disk, still reaches to the end of the
\* wait that was scheduled.
LEMMA EarlyInvStep ==
    ASSUME BackoffInv, EarlyInv, [Next]_vars
    PROVE  EarlyInv'
<1>a. /\ BackoffTypeOK /\ HeldInv /\ MaxWall \in Nat
  BY BackoffAssumption DEF BackoffInv
<1>b. wall \in Nat \ {0} /\ mono \in Nat /\ earliest \in Nat /\ monoDue \in Nat /\ record.nb \in Nat
      /\ record.after \in Floors /\ retryAfter \in Floors /\ WaitBound(record.after) \in Nat
  BY <1>a, WaitBoundType DEF BackoffTypeOK
<1>1. CASE Tick
  BY <1>1, <1>b DEF Tick, deadlines, EarlyInv, Counted
<1>2. ASSUME NEW w \in 1..MaxWall, StepClock(w) PROVE EarlyInv'
  <2>0. ~forward' => ~forward /\ ~(w > wall)
    BY <1>2, Zenon DEF StepClock
  <2>1. w \in Nat /\ (~forward' => ~forward /\ w <= wall)
    BY <2>0, <1>a, <1>b
  <2>2. wall' = w /\ UNCHANGED <<mono, up, waiting, monoDue, record, earliest, written, resumed>>
    BY <1>2 DEF StepClock, deadlines
  <2>3. (up' /\ Counted') => mono' >= earliest' \/ (waiting' /\ monoDue' >= earliest')
    BY <2>1, <2>2 DEF EarlyInv, Counted
  <2> QED
    BY <1>b, <2>1, <2>2, <2>3 DEF EarlyInv
<1>3. ASSUME NEW ok \in BOOLEAN, NEW floor \in Floors, ScheduleBackoff(floor, ok) PROVE EarlyInv'
  <2>1. PICK delay \in Nat, c \in Nat, wait \in Nat, n \in Nat : ScheduledTo(delay, c, wait, n, floor, ok)
    BY <1>3, ScheduleSteps
  <2>2. up /\ waiting' = TRUE /\ written' = ok /\ UNCHANGED <<wall, mono, up>>
    BY <1>3 DEF ScheduleBackoff
  <2>3. waiting' /\ monoDue' >= earliest'
    BY <2>1, <2>2, <1>b DEF ScheduledTo
  <2>4. ASSUME written'
        PROVE  /\ record' # NoRecord /\ record'.nb - wall' >= earliest' - mono'
               /\ earliest' - mono' <= WaitBound(record'.after)
    <3>1. record' = [nb |-> c, after |-> floor, count |-> n]
      BY <2>1, <2>2, <2>4 DEF ScheduledTo
    <3>2. c > 0 /\ c - wall >= delay /\ delay <= WaitBound(floor) /\ earliest' = mono + delay
      BY <2>1 DEF ScheduledTo
    <3>3. record'.nb = c /\ record'.after = floor /\ record' # NoRecord
      BY <3>1, <3>2 DEF NoRecord
    <3> QED
      BY <1>b, <2>2, <3>2, <3>3
  <2>5. WaitBound(record.after)' = WaitBound(record'.after)
    BY DEF WaitBound
  <2> QED
    BY <2>3, <2>4, <2>5 DEF EarlyInv
<1>4. ASSUME NEW ok \in BOOLEAN, NEW fired \in BOOLEAN, Check(fired, ok) PROVE EarlyInv'
  <2>1. PICK c \in Nat, wait \in Int : CheckedTo(c, wait, fired, ok)
    BY <1>4, CheckSteps
  <2>a. up /\ waiting /\ UNCHANGED <<wall, mono, up, earliest, forward, resumed>>
    BY <1>4 DEF Check
  <2>b. written' => written
    BY <2>1, Zenon DEF CheckedTo
  <2>2. up /\ waiting /\ UNCHANGED <<wall, mono, up, earliest, forward, resumed>> /\ (written' => written)
    BY <2>a, <2>b
  <2>3. (up' /\ Counted') => mono' >= earliest' \/ (waiting' /\ monoDue' >= earliest')
    <3>1. Counted' => Counted
      BY <2>2, Zenon DEF Counted
    <3>2. (waiting' /\ monoDue' = monoDue) \/ monoDue <= mono
      <4>1. (waiting' /\ monoDue' = monoDue) \/ wait <= 0
        BY <2>1, <2>2, Zenon DEF CheckedTo
      <4>2. wait >= monoDue - mono
        BY <2>1 DEF CheckedTo
      <4> QED
        BY <1>b, <4>1, <4>2
    <3>3. (up /\ Counted) => mono >= earliest \/ monoDue >= earliest
      BY DEF EarlyInv
    <3>4. (up' /\ Counted') => mono >= earliest \/ monoDue >= earliest
      BY <2>2, <3>1, <3>3, Zenon
    <3> QED
      BY <1>b, <2>2, <3>2, <3>4
  <2>4. WaitBound(record.after)' = WaitBound(record'.after)
    BY DEF WaitBound
  <2>5. ASSUME written', ~forward'
        PROVE  \/ mono' >= earliest'
               \/ /\ record' # NoRecord /\ record'.nb - wall' >= earliest' - mono'
                  /\ earliest' - mono' <= WaitBound(record'.after)
    <3>1. \/ mono >= earliest
          \/ /\ record # NoRecord /\ record.nb - wall >= earliest - mono
             /\ earliest - mono <= WaitBound(record.after)
      BY <2>2, <2>5 DEF EarlyInv
    <3>2. CASE UNCHANGED record
      BY <2>2, <3>1, <3>2
    <3>3. CASE /\ c - wall >= WaitBound(retryAfter) /\ c > 0
               /\ record' = [nb |-> c, after |-> retryAfter, count |-> attempts]
      <4>1. record.after = retryAfter
        BY <1>a, <2>2, <2>5 DEF HeldInv
      <4>2. record'.nb = c /\ record'.after = retryAfter /\ record' # NoRecord
        BY <3>3 DEF NoRecord
      <4> QED
        BY <1>b, <2>2, <3>1, <3>3, <4>1, <4>2
    <3> QED
      BY <2>1, <2>5, <3>2, <3>3, Zenon DEF CheckedTo
  <2> QED
    BY <2>3, <2>4, <2>5 DEF EarlyInv
<1>5. ASSUME NEW ok \in BOOLEAN, Restore(ok) PROVE EarlyInv'
  <2>1. ~up /\ resumed /\ up' = TRUE /\ waiting' = TRUE /\ UNCHANGED <<wall, mono, earliest, forward, resumed>>
    BY <1>5, <1>a DEF Restore, HeldInv
  <2>2. CASE /\ record = NoRecord /\ timer' = mono
             /\ UNCHANGED <<notBefore, monoDue, retryAfter, attempts, attempted, record, written>>
    BY <2>1, <2>2, <1>b DEF EarlyInv, Counted
  <2>3. ASSUME record # NoRecord, NEW c \in Nat, NEW rest \in Nat, RestoredTo(c, rest, ok)
        PROVE  EarlyInv'
    <3>1. written' => written
      BY <2>3, Zenon DEF RestoredTo
    <3>2. ASSUME written', ~forward, mono < earliest
          PROVE  c - wall >= earliest - mono /\ earliest - mono <= WaitBound(record.after)
      <4>1. record.nb - wall >= earliest - mono /\ earliest - mono <= WaitBound(record.after)
        BY <1>b, <3>1, <3>2 DEF EarlyInv
      <4>2. c = record.nb \/ c - wall >= WaitBound(record.after)
        BY <2>3 DEF RestoredTo
      <4> QED
        BY <1>b, <4>1, <4>2
    <3>3. Counted' => mono' >= earliest' \/ monoDue' >= earliest'
      BY <1>b, <2>1, <2>3, <3>2 DEF Counted, RestoredTo
    <3>4. WaitBound(record.after)' = WaitBound(record'.after)
      BY DEF WaitBound
    <3>5. ASSUME written', ~forward, mono < earliest
          PROVE  /\ record' # NoRecord /\ record'.nb - wall' >= earliest' - mono'
                 /\ earliest' - mono' <= WaitBound(record'.after)
      <4>1. CASE c = record.nb /\ UNCHANGED record
        BY <1>b, <2>1, <2>3, <3>2, <3>5, <4>1
      <4>2. CASE c > 0 /\ record' = [nb |-> c, after |-> record.after, count |-> record.count]
        <5>1. record'.nb = c /\ record'.after = record.after /\ record' # NoRecord
          BY <4>2 DEF NoRecord
        <5> QED
          BY <1>b, <2>1, <3>2, <3>5, <5>1
      <4> QED
        BY <2>3, <3>5, <4>1, <4>2, Zenon DEF RestoredTo
    <3> QED
      BY <1>b, <2>1, <3>3, <3>4, <3>5 DEF EarlyInv
  <2> QED
    BY <1>5, <2>2, <2>3, RestoreSteps
<1>6. CASE Die
  BY <1>6, <1>b DEF Die, EarlyInv, Counted
<1>7. CASE UNCHANGED vars
  BY <1>7 DEF vars, deadlines, scheduled, EarlyInv, Counted
<1> QED
  BY <1>1, <1>2, <1>3, <1>4, <1>5, <1>6, <1>7 DEF Next

LEMMA AllowedGrows ==
    ASSUME NEW n \in Nat, NEW after \in Floors
    PROVE  /\ Allowed(n, after) \in Nat /\ Allowed(0, after) = 0
           /\ Allowed(1 + n, after) = Allowed(n, after) + WaitBound(after) + Milli - 1
           /\ Allowed(n, after) <= Allowed(1 + n, after)
<1>1. WaitBound(after) \in Nat /\ Milli \in Nat \ {0}
  BY WaitBoundType, BackoffAssumption
<1> DEFINE d == WaitBound(after) + Milli - 1
<1>2. d \in Nat
  BY <1>1
<1>3. Allowed(n, after) = n * d /\ Allowed(1 + n, after) = (1 + n) * d /\ Allowed(0, after) = 0 * d
  BY DEF Allowed
<1> HIDE DEF d
<1>4. n * d \in Nat /\ (1 + n) * d = n * d + d /\ 0 * d = 0
  BY <1>2
<1>5. Allowed(1 + n, after) = Allowed(n, after) + d
  BY <1>3, <1>4
<1> QED
  BY <1>1, <1>2, <1>3, <1>4, <1>5 DEF d

\* What has been waited and what is left of the wait stay within one bound for
\* the wait that was scheduled and one for each backward step.
LEMMA CostInvStep ==
    ASSUME BackoffInv, CostInv, [Next]_vars
    PROVE  CostInv'
<1>a. BackoffTypeOK /\ HeldInv /\ TimerInv /\ MaxWall \in Nat
  BY BackoffAssumption DEF BackoffInv
<1>b. /\ wall \in Nat \ {0} /\ mono \in Nat /\ notBefore \in Nat /\ monoDue \in Nat /\ timer \in Nat
      /\ record.nb \in Nat /\ record.after \in Floors /\ retryAfter \in Floors
      /\ back \in Nat /\ waited \in Nat
  BY <1>a DEF BackoffTypeOK
<1> DEFINE RunCost(nb, after, due, w, m, n, spent) ==
               \/ nb - w <= due - m /\ spent + (due - m) <= Allowed(1 + n, after)
               \/ spent + (due - m) <= Allowed(n, after)
           DiskCost(nb, after, w, n, spent) ==
               \/ spent <= Allowed(1 + n, after) /\ spent + nb - w <= Allowed(1 + n, after)
               \/ spent <= Allowed(n, after)
<1>c. CostInv <=> (written => IF up /\ waiting
                              THEN RunCost(notBefore, retryAfter, timer, wall, mono, back, waited)
                              ELSE DiskCost(record.nb, record.after, wall, back, waited))
  BY DEF CostInv
<1>d. CostInv' <=> (written' => IF up' /\ waiting'
                                THEN RunCost(notBefore', retryAfter', timer', wall', mono', back', waited')
                                ELSE DiskCost(record'.nb, record'.after, wall', back', waited'))
  BY DEF CostInv, Allowed, WaitBound
<1>e. \A n \in Nat, after \in Floors :
        /\ Allowed(n, after) \in Nat /\ Allowed(n, after) <= Allowed(1 + n, after)
        /\ Allowed(1 + n, after) = Allowed(n, after) + WaitBound(after) + Milli - 1
  BY AllowedGrows
<1>f. WaitBound(retryAfter) \in Nat /\ WaitBound(record.after) \in Nat /\ Milli \in Nat \ {0}
  BY <1>b, WaitBoundType, BackoffAssumption, Zenon
<1>g. ASSUME up, waiting, written,
             RunCost(notBefore, retryAfter, timer, wall, mono, back, waited)
      PROVE  DiskCost(record.nb, record.after, wall, back, waited)
  <2>1. record.nb = notBefore /\ record.after = retryAfter /\ timer >= mono
    BY <1>a, <1>g DEF HeldInv, TimerInv
  <2> QED
    BY <1>b, <1>e, <1>g, <2>1
<1> SUFFICES ASSUME written'
             PROVE  IF up' /\ waiting'
                    THEN RunCost(notBefore', retryAfter', timer', wall', mono', back', waited')
                    ELSE DiskCost(record'.nb, record'.after, wall', back', waited')
  BY <1>d
<1> HIDE DEF RunCost, DiskCost
<1>1. CASE Tick
  <2>1. written /\ mono' = mono + 1 /\ wall' = wall + 1
        /\ UNCHANGED <<up, waiting, timer, record, notBefore, retryAfter, back>>
    BY <1>1 DEF Tick, deadlines
  <2>2. CASE up /\ waiting
    BY <1>1, <1>b, <1>c, <1>e, <2>1, <2>2 DEF Tick, RunCost
  <2>3. CASE ~(up /\ waiting)
    BY <1>1, <1>b, <1>c, <1>e, <2>1, <2>3 DEF Tick, DiskCost
  <2> QED
    BY <2>2, <2>3
<1>2. ASSUME NEW w \in 1..MaxWall, StepClock(w)
      PROVE  IF up' /\ waiting'
             THEN RunCost(notBefore', retryAfter', timer', wall', mono', back', waited')
             ELSE DiskCost(record'.nb, record'.after, wall', back', waited')
  <2>1. /\ w \in Nat /\ wall' = w /\ written /\ back' = IF w < wall THEN back + 1 ELSE back
        /\ UNCHANGED <<mono, up, waiting, timer, record, notBefore, retryAfter, waited>>
    BY <1>2, <1>a DEF StepClock, deadlines
  <2>2. CASE up /\ waiting
    BY <1>b, <1>c, <1>e, <2>1, <2>2 DEF RunCost
  <2>3. CASE ~(up /\ waiting)
    BY <1>b, <1>c, <1>e, <2>1, <2>3 DEF DiskCost
  <2> QED
    BY <2>2, <2>3
<1>3. ASSUME NEW ok \in BOOLEAN, NEW floor \in Floors, ScheduleBackoff(floor, ok)
      PROVE  up' /\ waiting' /\ RunCost(notBefore', retryAfter', timer', wall', mono', back', waited')
  <2>1. PICK delay \in Nat, c \in Nat, wait \in Nat, n \in Nat : ScheduledTo(delay, c, wait, n, floor, ok)
    BY <1>3, ScheduleSteps
  <2>2. up' /\ waiting' /\ wall' = wall /\ mono' = mono /\ back' = 0 /\ waited' = 0
    BY <1>3 DEF ScheduleBackoff
  <2>3. notBefore' = c /\ retryAfter' = floor /\ timer' = mono + wait /\ c - wall <= wait
        /\ wait <= WaitBound(floor) + Milli - 1
    BY <1>b, <2>1 DEF ScheduledTo
  <2>4. Allowed(1 + 0, floor) = WaitBound(floor) + Milli - 1 /\ WaitBound(floor) \in Nat
    BY <1>f, AllowedGrows, WaitBoundType
  <2> QED
    BY <1>b, <2>2, <2>3, <2>4 DEF RunCost
<1>4. ASSUME NEW ok \in BOOLEAN, NEW fired \in BOOLEAN, Check(fired, ok)
      PROVE  IF up' /\ waiting'
             THEN RunCost(notBefore', retryAfter', timer', wall', mono', back', waited')
             ELSE DiskCost(record'.nb, record'.after, wall', back', waited')
  <2>1. PICK c \in Nat, wait \in Int : CheckedTo(c, wait, fired, ok)
    BY <1>4, CheckSteps
  <2>2. up /\ waiting /\ (fired => timer <= mono) /\ UNCHANGED <<wall, mono, up, back, waited>>
    BY <1>4 DEF Check
  <2>3. written
    BY <2>1, Zenon DEF CheckedTo
  <2>4. RunCost(notBefore, retryAfter, timer, wall, mono, back, waited)
    BY <1>c, <2>2, <2>3
  <2>5. /\ c <= notBefore /\ c - wall <= WaitBound(retryAfter) + Milli - 1
        /\ wait \in {c - wall, monoDue - mono} /\ wait >= c - wall
    BY <2>1 DEF CheckedTo
  <2>6. CASE /\ wait > 0 /\ notBefore' = c /\ timer' = (IF fired THEN mono + wait ELSE timer)
             /\ retryAfter' = retryAfter /\ waiting'
    <3>1. CASE ~fired
      BY <1>b, <2>2, <2>4, <2>5, <2>6, <3>1 DEF RunCost
    <3>2. CASE fired
      <4>1. timer = mono /\ monoDue <= mono
        BY <1>a, <1>b, <2>2, <3>2 DEF TimerInv
      <4>2. wait = c - wall
        BY <1>b, <2>5, <2>6, <4>1
      <4>3. waited <= Allowed(back, retryAfter)
        BY <1>b, <1>e, <2>4, <2>5, <2>6, <4>1, <4>2 DEF RunCost
      <4>4. waited + wait <= Allowed(1 + back, retryAfter)
        BY <1>b, <1>e, <1>f, <2>5, <4>2, <4>3
      <4> QED
        BY <1>b, <2>2, <2>6, <3>2, <4>2, <4>4 DEF RunCost
    <3> QED
      BY <3>1, <3>2
  <2>7. CASE ~waiting' /\ UNCHANGED record
    BY <1>g, <2>2, <2>3, <2>4, <2>7
  <2>8. \/ /\ wait > 0 /\ notBefore' = c /\ timer' = (IF fired THEN mono + wait ELSE timer)
           /\ retryAfter' = retryAfter /\ waiting'
        \/ ~waiting' /\ wait <= 0
    BY <2>1, <2>2, Zenon DEF CheckedTo
  <2>9. wait > 0 \/ UNCHANGED record
    BY <2>1, Zenon DEF CheckedTo
  <2>10. ~(wait > 0 /\ wait <= 0)
    OBVIOUS
  <2> QED
    BY <2>6, <2>7, <2>8, <2>9, <2>10, Zenon
<1>5. ASSUME NEW ok \in BOOLEAN, Restore(ok)
      PROVE  up' /\ waiting' /\ RunCost(notBefore', retryAfter', timer', wall', mono', back', waited')
  <2>1. ~up /\ up' /\ waiting' /\ UNCHANGED <<wall, mono, back, waited>>
    BY <1>5 DEF Restore
  <2>2. ASSUME written PROVE DiskCost(record.nb, record.after, wall, back, waited)
    BY <1>c, <2>1, <2>2
  <2>3. CASE /\ record = NoRecord /\ timer' = mono
             /\ UNCHANGED <<notBefore, monoDue, retryAfter, attempts, attempted, record, written>>
    <3>1. notBefore' = 0 /\ retryAfter' = 0 /\ record.after = 0 /\ timer' = mono /\ written
      BY <1>a, <2>1, <2>3 DEF HeldInv, NoRecord
    <3>2. waited <= Allowed(1 + back, 0)
      BY <1>b, <1>e, <2>2, <3>1 DEF DiskCost
    <3> QED
      BY <1>b, <1>e, <2>1, <3>1, <3>2 DEF RunCost
  <2>4. ASSUME NEW c \in Nat, NEW rest \in Nat, RestoredTo(c, rest, ok)
        PROVE  RunCost(notBefore', retryAfter', timer', wall', mono', back', waited')
    <3>1. written
      BY <2>4, Zenon DEF RestoredTo
    <3>2. /\ notBefore' = c /\ retryAfter' = record.after /\ timer' = mono + rest
          /\ c <= record.nb /\ c - wall <= WaitBound(record.after) + Milli - 1
          /\ rest = IF c >= wall THEN c - wall ELSE 0
      BY <2>4 DEF RestoredTo
    <3>3. waited + rest <= Allowed(1 + back, record.after)
      BY <1>b, <1>e, <1>f, <2>2, <3>1, <3>2 DEF DiskCost
    <3>4. c - wall <= rest
      BY <1>b, <3>2
    <3> QED
      BY <1>b, <2>1, <3>2, <3>3, <3>4 DEF RunCost
  <2> QED
    BY <1>5, <2>1, <2>3, <2>4, RestoreSteps, Zenon
<1>6. CASE Die
  <2>1. ~up' /\ UNCHANGED <<wall, record, back, waited, written>>
    BY <1>6, Zenon DEF Die
  <2> QED
    BY <1>c, <1>g, <2>1
<1>7. CASE UNCHANGED vars
  BY <1>7, <1>c DEF vars, deadlines, scheduled
<1> QED
  BY <1>1, <1>2, <1>3, <1>4, <1>5, <1>6, <1>7 DEF Next

-----------------------------------------------------------------------------
\* A backed-off head is not sent before the wait that scheduleBackoff computed is
\* over: whatever the wall clock does within one process, and across restarts as
\* long as the back-off was written and the wall clock was not set forward.
THEOREM NeverSentEarly == Spec => []NotSentEarly
<1>1. Init => BackoffInv /\ EarlyInv
  BY BackoffInvInit
<1>2. (BackoffInv /\ EarlyInv) /\ [Next]_vars => (BackoffInv /\ EarlyInv)'
  BY BackoffInvStep, EarlyInvStep
<1>3. EarlyInv => NotSentEarly
  BY DEF EarlyInv, NotSentEarly, Counted
<1> QED
  BY <1>1, <1>2, <1>3, PTL DEF Spec

\* Each backward step of the wall clock costs at most one more bound of waiting,
\* rounded up to the millisecond, however often the process restarts (untilDue,
\* persistClamp, restore).
THEOREM ABackStepCostsOneBound == Spec => []BackStepCostsOneBound
<1>1. Init => BackoffInv /\ CostInv
  BY BackoffInvInit
<1>2. (BackoffInv /\ CostInv) /\ [Next]_vars => (BackoffInv /\ CostInv)'
  BY BackoffInvStep, CostInvStep
<1>3. BackoffInv /\ CostInv => BackStepCostsOneBound
  <2> SUFFICES ASSUME BackoffInv, CostInv, up, waiting, written
               PROVE  waited <= Allowed(1 + back, retryAfter)
    BY DEF BackStepCostsOneBound, Allowed
  <2>1. /\ timer \in Nat /\ mono \in Nat /\ timer >= mono /\ back \in Nat /\ waited \in Nat
        /\ retryAfter \in Floors
    BY DEF BackoffInv, BackoffTypeOK, TimerInv
  <2>2. /\ Allowed(back, retryAfter) <= Allowed(1 + back, retryAfter)
        /\ Allowed(back, retryAfter) \in Nat /\ Allowed(1 + back, retryAfter) \in Nat
    BY <2>1, AllowedGrows
  <2> QED
    BY <2>1, <2>2 DEF CostInv
<1> QED
  BY <1>1, <1>2, <1>3, PTL DEF Spec

-----------------------------------------------------------------------------
(* The hold records                                                        *)

HoldInv == did # "corrupt" /\ (did = "hold" => validateHoldRecord(holdFile))

\* Only three statuses hold, and one of their own reasons or an unrecognised one
\* does.
LEMMA HoldsOnly ==
    ASSUME NEW r \in Responses, Acts(DeliverClass(r), r.artifacts = "valid") = "hold"
    PROVE  r.status \in {400, 409, 422} /\ Policy(r.status, r.reason) = "hold"
<1>1. DeliverClass(r) = "hold"
  BY Zenon DEF Acts
<1>2. r.status # 200 /\ WellFormed(r) /\ Policy(r.status, r.reason) = "hold"
  BY <1>1, Zenon DEF DeliverClass
<1>3. r.status \in {400, 401, 403, 409, 422, 429, 503, 200, 500}
  <2>1. r.status \in Refusals \cup {200, 500}
    BY DEF Responses
  <2> QED
    BY <2>1 DEF Refusals
<1>4. r.status # 500
  <2>1. ASSUME r.status = 500 PROVE FALSE
    <3>1. ~WellFormed(r)
      BY <2>1 DEF WellFormed
    <3> QED
      BY <1>2, <3>1
  <2> QED
    BY <2>1
<1>5. r.status \notin {401, 403, 429, 503}
  BY <1>2 DEF Policy
<1> QED
  BY <1>2, <1>3, <1>4, <1>5

LEMMA HoldInvStep == HoldInv /\ [ResponseNext]_responseVars => HoldInv'
<1> SUFFICES ASSUME HoldInv, [ResponseNext]_responseVars PROVE HoldInv'
  OBVIOUS
<1>1. CASE Respond
  <2>1. PICK r \in Responses :
           /\ did' = Acts(DeliverClass(r), r.artifacts = "valid")
           /\ did' = "hold" => holdFile' = HoldRecord(r.status, RecordedReason(r.status, r.reason))
    BY <1>1 DEF Respond
  <2>2. did' # "corrupt"
    BY <2>1 DEF Acts, DeliverClass, Policy
  <2>3. ASSUME did' = "hold" PROVE validateHoldRecord(holdFile')
    <3>1. r.status \in {400, 409, 422} /\ Policy(r.status, r.reason) = "hold"
      BY <2>1, <2>3, HoldsOnly
    <3>2. "unrecognised" \notin Listed(r.status)
      BY <3>1 DEF Listed, ByteReasons, ReceiverStateReasons
    <3>3. RecordedReason(r.status, r.reason) = IF r.reason \in Listed(r.status) THEN r.reason ELSE "unrecognised"
      BY <3>1 DEF RecordedReason
    <3>4. HoldRecord(r.status, RecordedReason(r.status, r.reason)) =
            [status |-> r.status, reason |-> RecordedReason(r.status, r.reason)]
      BY <3>1, <3>2, <3>3 DEF HoldRecord, heldRefusalStatus, RecordedReason
    <3>5. holdFile'.status = r.status /\ holdFile'.reason = RecordedReason(r.status, r.reason)
      BY <2>1, <2>3, <3>4
    <3>6. Held(r.status, RecordedReason(r.status, r.reason))
      <4>1. CASE r.reason \in Listed(r.status)
        <5>1. r.status # 0 /\ RecordedReason(r.status, r.reason) = r.reason
          BY <3>1, <3>3, <4>1
        <5> QED
          BY <3>1, <4>1, <5>1 DEF Held
      <4>2. CASE r.reason \notin Listed(r.status)
        BY <3>3, <4>2 DEF Held
      <4> QED
        BY <4>1, <4>2
    <3> QED
      BY <3>1, <3>5, <3>6 DEF validateHoldRecord, heldRefusalStatus
  <2>4. validateHoldRecord(holdFile)' <=> validateHoldRecord(holdFile')
    BY DEF validateHoldRecord, Held, Policy, RecordedReason
  <2> QED
    BY <2>2, <2>3, <2>4 DEF HoldInv
<1>2. CASE NoResponse
  BY <1>2 DEF NoResponse, HoldInv
<1>3. CASE Reload
  BY <1>3 DEF Reload, HoldInv
<1>4. CASE UNCHANGED responseVars
  BY <1>4 DEF responseVars, HoldInv
<1> QED
  BY <1>1, <1>2, <1>3, <1>4 DEF ResponseNext

\* Every hold the refusal policy makes, for any response at all, is one that a
\* restart reads back: no response stops the next start (refusalPolicy,
\* deliveryLane.hold, validateHoldRecord).
THEOREM EveryHoldIsReadBack == ResponseSpec => []HoldIsReadBack
<1>1. ResponseInit => HoldInv
  BY DEF ResponseInit, HoldInv
<1>2. HoldInv => HoldIsReadBack
  BY DEF HoldInv, HoldIsReadBack
<1> QED
  BY <1>1, <1>2, HoldInvStep, PTL DEF ResponseSpec
=============================================================================
