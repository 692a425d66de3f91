--------------------------- MODULE MCDeliveryLanes ---------------------------
(***************************************************************************)
(* Small instances of DeliveryLanes for TLC.                                *)
(***************************************************************************)
EXTENDS DeliveryLanes

\* r1 and r2 are registrations, f1 a checkpoint, the others envelopes; the digit
\* names the device.
MCDeviceOf == [a \in Artifacts |-> IF a \in {"r2", "e2"} THEN "d2" ELSE "d1"]
MCKindOf == [a \in Artifacts |->
    CASE a \in {"r1", "r2"} -> "anchor_registration"
      [] a = "f1" -> "checkpoint"
      [] OTHER -> "delivery_envelope"]
=============================================================================
