------------------------------- MODULE MCStop -------------------------------
(***************************************************************************)
(* GatewayRun for TLC.  Each load is one mixture of what a stop can meet:  *)
(* two carriages of one device; two requests, whose failing replies reach  *)
(* the limit together; a request while the heartbeat fails; a runtime      *)
(* heartbeat, a webhook request and a write of the signing mark; an        *)
(* enrichment request and such a write.                                    *)
(***************************************************************************)
EXTENDS GatewayRun

CONSTANTS e1, e2, q1, q2, n1, b1, w1, d1

MCSenderOf == [m \in {e1, e2, q1, q2, n1, b1, w1} |-> d1]
MCLoads == {{e1, e2}, {q1, q2}, {q1, "heartbeat"}, {b1, w1, "write"}, {n1, "write"}}
MCSpec == RunSpec /\ RunFairness
=============================================================================
