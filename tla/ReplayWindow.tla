---------------------------- MODULE ReplayWindow ----------------------------
(***************************************************************************)
(* The verifier's freshness and replay state, over a session that repeats, *)
(* delays and reorders envelopes.  An envelope whose signature matches is  *)
(* checked against the clock, the floor and the keys held, and its key is  *)
(* held once it is applied, in one step under the verifier's lock.  The    *)
(* gateway stores neither floor nor keys: a restart starts the floor at    *)
(* its clock.  The clock may step either way.                              *)
(***************************************************************************)
EXTENDS Integers, FiniteSets

CONSTANTS
    Envelopes,      \* envelopes that verify, one key each
    SignedAt,       \* their signing times
    Skew,           \* MaxSkew
    ReplayTTL,      \* replay_ttl_ms
    MaxKeys,        \* keys held
    MaxClock        \* bound on the receiver's clock

ASSUME WindowAssumption ==
    /\ SignedAt \in [Envelopes -> Nat]
    /\ Skew \in Nat /\ ReplayTTL \in Nat /\ MaxKeys \in Nat \ {0} /\ MaxClock \in Nat

VARIABLES
    t,              \* now().UnixMilli()
    floor,          \* replayState.floor
    held,           \* replayState.keys
    receivedAt,     \* heldKey.receivedAt, for the keys held
    applied,        \* history: how often each was applied in this run
    started,        \* history: the clock when this run started
    latest,         \* history: the latest clock a verification of this run has read
    evicted         \* history: keys dropped in this run to make room

windowVars == <<t, floor, held, receivedAt, applied, started, latest, evicted>>

WindowTypeOK ==
    /\ t \in Nat /\ floor \in Nat /\ started \in Nat /\ latest \in Nat
    /\ held \subseteq Envelopes /\ evicted \subseteq Envelopes
    /\ receivedAt \in [Envelopes -> Nat] /\ applied \in [Envelopes -> Nat]

WindowInit ==
    /\ t \in 0..MaxClock
    /\ floor = t /\ started = t /\ latest = t
    /\ held = {} /\ evicted = {}
    /\ receivedAt = [e \in Envelopes |-> 0] /\ applied = [e \in Envelopes |-> 0]

-----------------------------------------------------------------------------
Greater(a, b) == IF a >= b THEN a ELSE b

\* The first time a key's retention has ended: its envelope is stale, and the
\* ttl has passed since its receipt.
DropAt(e) == Greater(SignedAt[e] + Skew + 1, receivedAt[e] + ReplayTTL)

\* Mutant: dropping a key leaves the floor.
NotRaised(f, D) == {f}

\* The floor f once the keys in D are dropped, as a set of one: at least one
\* past each.
RaisedPast(f, D) ==
    LET bounds == {f} \cup {SignedAt[e] + 1 : e \in D}
    IN  {n \in bounds: \A m \in bounds: n >= m}

\* Mutant: a key is dropped once the ttl has passed, stale or not.
DueOnTTL == {e \in held: receivedAt[e] + ReplayTTL <= t}

\* Keys whose retention has ended.
Due == {e \in held: DropAt(e) <= t}

\* A full receiver drops a key with the smallest signing time.
Evictable(H) == IF Cardinality(H) < MaxKeys THEN {{}}
                ELSE {{e} : e \in {x \in H: \A y \in H: SignedAt[x] <= SignedAt[y]}}

Fresh(e) == SignedAt[e] >= t - Skew /\ SignedAt[e] <= t + Skew

\* checkFreshAndRecord: keys past their retention are dropped, the four checks
\* made, the decision taken, and the key recorded if the envelope was applied.
Verify(e, applies) ==
    LET left == held \ Due IN
    \E pruned \in RaisedPast(floor, Due):
       /\ latest' = Greater(latest, t)
       /\ \/ /\ Fresh(e) /\ SignedAt[e] >= pruned /\ e \notin left /\ applies
             /\ \E out \in Evictable(left):
                  /\ floor' \in RaisedPast(pruned, out)
                  /\ held' = (left \ out) \cup {e}
                  /\ evicted' = evicted \cup out
             /\ receivedAt' = [receivedAt EXCEPT ![e] = t]
             /\ applied' = [applied EXCEPT ![e] = @ + 1]
          \/ /\ ~(Fresh(e) /\ SignedAt[e] >= pruned /\ e \notin left /\ applies)
             /\ floor' = pruned /\ held' = left
             /\ UNCHANGED <<receivedAt, applied, evicted>>
       /\ UNCHANGED <<t, started>>

\* A new run: newReplayState with nothing stored.
Restart ==
    /\ floor' = t /\ started' = t /\ latest' = t
    /\ held' = {} /\ evicted' = {} /\ applied' = [e \in Envelopes |-> 0]
    /\ UNCHANGED <<t, receivedAt>>

StepClock ==
    /\ t' \in 0..MaxClock /\ t' # t
    /\ UNCHANGED <<floor, held, receivedAt, applied, started, latest, evicted>>

WindowNext ==
    \/ \E e \in Envelopes, applies \in BOOLEAN: Verify(e, applies)
    \/ Restart
    \/ StepClock

WindowSpec == WindowInit /\ [][WindowNext]_windowVars

-----------------------------------------------------------------------------
(* No envelope is applied twice in a run, however often it is delivered,    *)
(* whatever was dropped and however the clock moved (checkFreshAndRecord).  *)
AppliedOnce == \A e \in Envelopes: applied[e] <= 1

(* What AppliedOnce rests on: an envelope applied is held or below the      *)
(* floor (drop raises the floor in the step that removes the key).          *)
AppliedIsRemembered == \A e \in Envelopes: applied[e] > 0 => e \in held \/ SignedAt[e] < floor

(* The floor refuses a fresh envelope only after a restart, a clock that    *)
(* stepped back, or an eviction (the causes floorAheadWarning names).       *)
FloorHasACause ==
    \/ floor <= started \/ floor <= latest - Skew
    \/ \E e \in evicted: floor = SignedAt[e] + 1

=============================================================================
