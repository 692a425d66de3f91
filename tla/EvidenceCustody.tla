--------------------------- MODULE EvidenceCustody ---------------------------
(***************************************************************************)
(* What the courier promises about evidence, with no queue, lane, disk or    *)
(* process in it: the site keeps an artifact durably from the moment it is   *)
(* kept until the evidence authority has it and, for an envelope, the         *)
(* authority's receipt is kept for the runtime.  Crashes, power loss,         *)
(* retries and refusals are not visible at this level.                       *)
(***************************************************************************)
CONSTANTS Items, Envelopes

VARIABLES
    kept,       \* artifacts durably in the site's custody
    known,      \* artifacts the evidence authority has recorded
    receipts    \* artifacts whose receipt is durably kept for the runtime

custodyVars == <<kept, known, receipts>>

CustodyInit == kept = {} /\ known = {} /\ receipts = {}

Discharged(a) == a \in known /\ (a \in Envelopes => a \in receipts)

\* One sync or restart may make several artifacts durable at once.
Keep(S) == kept' = kept \cup S /\ UNCHANGED <<known, receipts>>

Record(a) == known' = known \cup {a} /\ UNCHANGED <<kept, receipts>>

\* A receipt exists only for what the authority has recorded.
Receive(a) == a \in known /\ receipts' = receipts \cup {a} /\ UNCHANGED <<kept, known>>

\* The sync that commits a release may make others durable with it.
Release(a, S) == Discharged(a) /\ kept' = (kept \cup S) \ {a} /\ UNCHANGED <<known, receipts>>

CustodyNext ==
    \/ \E S \in SUBSET Items : Keep(S) \/ \E a \in Items : Release(a, S)
    \/ \E a \in Items : Record(a) \/ Receive(a)

CustodySpec == CustodyInit /\ [][CustodyNext]_custodyVars
=============================================================================
