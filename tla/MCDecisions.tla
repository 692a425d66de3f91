----------------------------- MODULE MCDecisions ----------------------------
(***************************************************************************)
(* What the gateway concludes from what it is told: the class of an        *)
(* authority's response, the faults of admission, the health of the site,  *)
(* and that the head of the return queue is decided in the end.  part says *)
(* which of them a behaviour is about, so the states explored are the sum  *)
(* and not the product.                                                    *)
(***************************************************************************)
EXTENDS ReturnPath, AdmissionFaults, ResponseClass, SiteHealth, TLC

CONSTANTS d1, a1, a2, c1, h1

\* An envelope with its custody acknowledgement, and another artifact.
MCDeviceOf == a1 :> d1 @@ a2 :> d1 @@ c1 :> d1
MCCustodyOf == a1 :> c1

\* Every head and time with a light verdict; every status and shape of the
\* reasons with the later time and one head or none.
MCBeats ==
    [status: {"healthy"}, reasons: {<<>>, <<Light>>}, seen: 1 .. 2, head: {"empty", "omitted"} \cup Heads,
     available: {TRUE}]
    \cup
    [status: {"healthy", "degraded", "critical", "other"},
     reasons: {<<>>, <<Mild>>, <<Mild, Grave>>, <<Grave, Mild>>, <<Mild, Mild>>, <<SnapshotInvalid>>,
               <<Grave, SnapshotInvalid>>, <<5>>},
     seen: {2}, head: {"omitted", h1}, available: BOOLEAN]

MCHealthItems ==
    [marker: {"absent", "remote", "other"},
     status: {"absent", "ok", "degraded", "critical", "other"},
     critical: {"absent", "true", "false", "mistyped"},
     shape: {"listed", "lacking", "extended"},
     projectionMember: BOOLEAN, reasons: BOOLEAN]

VARIABLE part

vars == <<part, returnVars, faultVars, responseVars, siteVars>>

\* The parts a behaviour is not about stay in one initial state.
MCInit ==
    /\ part \in {"returns", "faults", "response", "site"}
    /\ ReturnInit /\ FaultsInit /\ ResponseInit /\ SiteInit
    /\ part # "faults" => configured = {}
    /\ part # "response" => artifactType = Envelope

MCNext ==
    \/ part = "returns" /\ ReturnNext /\ UNCHANGED <<part, faultVars, responseVars, siteVars>>
    \/ part = "faults" /\ FaultsNext /\ UNCHANGED <<part, returnVars, responseVars, siteVars>>
    \/ part = "response" /\ ResponseNext /\ UNCHANGED <<part, returnVars, faultVars, siteVars>>
    \/ part = "site" /\ SiteNext /\ UNCHANGED <<part, returnVars, faultVars, responseVars>>

MCSpec == MCInit /\ [][MCNext]_vars /\ (part = "returns" => ReturnFairness)
=============================================================================
