--------------------------- MODULE MCDurableQueue ---------------------------
(***************************************************************************)
(* Small instances of DurableQueue for TLC: one device, envelopes only.     *)
(***************************************************************************)
EXTENDS DurableQueue

MCDeviceOf == [a \in Artifacts |-> "d1"]
MCKindOf == [a \in Artifacts |-> "delivery_envelope"]
=============================================================================
