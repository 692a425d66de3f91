--------------------------- MODULE ResponseClass ----------------------------
(***************************************************************************)
(* What the gateway makes of one response of the evidence authority: the   *)
(* channel's reading of it, the refusal policy, and what the lane does     *)
(* with the head; then the hold record a restart reads back.  The classes  *)
(* are the answers DeliveryLanes tells apart.                              *)
(***************************************************************************)
EXTENDS Integers

\* Each status's closed list of reasons.
ByteReasons == {"bad_authenticator", "binding_mismatch", "commissioning_digest_mismatch"}
ReceiverStateReasons == {"unrecognised_version", "unknown_key"}

Listed(status) ==
    CASE status = 400 -> {"malformed"}
      [] status = 401 -> {"malformed", "unknown_key", "bad_authenticator", "stale", "replay"}
      [] status = 403 -> {"not_authorized"}
      [] status = 409 -> {"conflict", "pending_registration_conflict"}
      [] status = 422 -> ByteReasons \cup ReceiverStateReasons
      [] status = 429 -> {"rate_limited", "pending_registration_limit"}
      [] status = 503 -> {"unavailable"}
      [] OTHER -> {}

Refusals == {400, 401, 403, 409, 422, 429, 503}
AllListed == UNION {Listed(status) : status \in Refusals}

Responses ==
    [status: Refusals \cup {200, 500},
     outcome: {"accepted", "refused", "pending", "other"},
     reason: AllListed \cup {"", "wrong_purpose"},
     digest: {"same", "absent", "other"}, retriable: BOOLEAN,
     retryAfter: BOOLEAN, artifacts: {"none", "valid", "invalid"}]

Envelope == "delivery_envelope"

VARIABLES
    response,       \* the last response read
    artifactType,   \* the head's type
    did,            \* what the lane did with the head
    holdFile        \* the hold record written beside it
responseVars == <<response, artifactType, did, holdFile>>

NoHold == [status |-> -1, reason |-> ""]

-----------------------------------------------------------------------------
(* refusal.go                                                               *)

\* Mutant: a reason listed under any status is recorded.
RecordedReasonUnion(status, reason) == IF reason \in AllListed THEN reason ELSE "unrecognised"

RecordedReason(status, reason) ==
    IF reason \in (IF status = 0 THEN AllListed ELSE Listed(status)) THEN reason ELSE "unrecognised"

Policy(status, reason) ==
    CASE status \in {401, 403} -> "handoff"
      [] status = 409 /\ reason = "pending_registration_conflict" -> "backoff"
      [] status = 422 /\ reason \in ReceiverStateReasons -> "handoff"
      [] status \in {429, 503} -> "backoff"
      [] OTHER -> "hold"

Held(status, reason) ==
    \/ reason = "unrecognised"
    \/ status = 0 /\ reason # "" /\ RecordedReason(0, reason) = reason
    \/ status # 0 /\ reason \in Listed(status) /\ Policy(status, reason) = "hold"

-----------------------------------------------------------------------------
(* channel.go                                                               *)

DigestBound(r) == \/ r.digest = "same"
                  \/ r.status \in {400, 503} /\ r.digest = "absent"

\* refusedDeliveryResult: whether a refusal is well formed for its status.
WellFormed(r) ==
    /\ r.artifacts = "none"
    /\ CASE r.status \in {400, 403, 409, 422} -> r.outcome = "refused" /\ DigestBound(r)
         [] r.status = 401 -> r.outcome = "refused" /\ r.digest = "absent"
         [] r.status \in {429, 503} ->
              /\ r.outcome = "pending" /\ DigestBound(r)
              /\ r.status = 429 /\ r.reason \in Listed(429) => r.retryAfter
         [] OTHER -> FALSE

\* Deliver, from a response it could read to the class of its result.
DeliverClass(r) ==
    IF r.status # 200
      THEN IF WellFormed(r) THEN Policy(r.status, r.reason) ELSE "unrecognised"
      ELSE IF /\ r.outcome = "accepted" /\ r.reason = "" /\ ~r.retriable
              /\ r.digest = "same" /\ r.artifacts # "invalid"
           THEN "accepted" ELSE "unrecognised"

-----------------------------------------------------------------------------
(* worker.go and hold.go                                                    *)

heldRefusalStatus == {0, 400, 409, 422}

\* deliveryLane.hold: the record of a refusal of the head.
HoldRecord(status, recorded) ==
    LET kept == IF status \in heldRefusalStatus THEN status ELSE 0
    IN  [status |-> kept, reason |-> RecordedReason(kept, recorded)]

validateHoldRecord(record) ==
    Held(record.status, record.reason) /\ record.status \in heldRefusalStatus

\* The lane's action on the head.  An envelope is retired only with a receipt
\* that covers it, which a valid artifact here is.
Acts(class, covered) ==
    CASE class = "accepted" -> IF artifactType = Envelope /\ ~covered THEN "backoff" ELSE "retire"
      [] class = "unrecognised" -> "backoff"
      [] OTHER -> class

ResponseInit ==
    /\ response = [status |-> 500, outcome |-> "other", reason |-> "",
                   digest |-> "absent", retriable |-> FALSE, retryAfter |-> FALSE, artifacts |-> "none"]
    /\ artifactType \in {Envelope, "segment_checkpoint"}
    /\ did = "sent" /\ holdFile = NoHold

Respond ==
    /\ did = "sent"
    /\ \E r \in Responses:
         /\ response' = r
         /\ did' = Acts(DeliverClass(r), r.artifacts = "valid")
         /\ holdFile' = IF did' = "hold"
                         THEN HoldRecord(r.status, RecordedReason(r.status, r.reason)) ELSE NoHold
    /\ UNCHANGED artifactType

\* No response, or one that cannot be read, is retried.
NoResponse ==
    /\ did = "sent" /\ did' = "backoff"
    /\ UNCHANGED <<response, artifactType, holdFile>>

\* A restart finds the record and refuses to start on one that is not valid.
Reload ==
    /\ did = "hold"
    /\ did' = IF validateHoldRecord(holdFile) THEN "held" ELSE "corrupt"
    /\ UNCHANGED <<response, artifactType, holdFile>>

ResponseNext == Respond \/ NoResponse \/ Reload

ResponseSpec == ResponseInit /\ [][ResponseNext]_responseVars

-----------------------------------------------------------------------------
(* Every hold the refusal policy makes, for any response at all, is one     *)
(* that a restart reads back: the record names a status that can hold and a *)
(* reason at which that status holds, so no response stops the next start.  *)
HoldIsReadBack == did # "corrupt"
=============================================================================
