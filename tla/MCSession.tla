----------------------------- MODULE MCSession ------------------------------
(***************************************************************************)
(* What goes over the broker session in both directions: artifacts and     *)
(* returns with their acknowledgements, the exports the gateway asks for,  *)
(* the subscriptions that carry them, the limits on their volume and the   *)
(* log of what the limits refuse.  part says which of them a behaviour is  *)
(* about, so the states explored are the sum and not the product.          *)
(***************************************************************************)
EXTENDS ReturnPath, ExportExchange, BrokerClient, VolumeLimits, LogQueue, TLC

CONSTANTS d1, d2, a1, a2, c1, r1

\* An envelope with its custody acknowledgement and its receipt for one device,
\* and an artifact of another.
MCDeviceOf == a1 :> d1 @@ c1 :> d1 @@ a2 :> d2 @@ r1 :> d1
MCCustodyOf == a1 :> c1

VARIABLE part

vars == <<part, returnVars, exchangeVars, brokerVars, volumeVars, logVars>>

\* The parts a behaviour is not about stay in one initial state.
MCInit ==
    /\ part \in {"returns", "exchange", "broker", "volume", "log"}
    /\ ReturnInit /\ ExchangeInit /\ BrokerInit /\ VolumeInit /\ LogInit
    /\ part # "broker" => ~persistent
    /\ part # "volume" => limit = "pacer"
    /\ part # "log" => queue = "asynclog"
    /\ part # "log" \/ queue # "asynclog" => throttle = "bridge"

MCNext ==
    \/ part = "returns" /\ ReturnNext /\ UNCHANGED <<part, exchangeVars, brokerVars, volumeVars, logVars>>
    \/ part = "exchange" /\ ExchangeNext /\ UNCHANGED <<part, returnVars, brokerVars, volumeVars, logVars>>
    \/ part = "broker" /\ BrokerNext /\ UNCHANGED <<part, returnVars, exchangeVars, volumeVars, logVars>>
    \/ part = "volume" /\ VolumeNext /\ UNCHANGED <<part, returnVars, exchangeVars, brokerVars, logVars>>
    \/ part = "log" /\ LogNext /\ UNCHANGED <<part, returnVars, exchangeVars, brokerVars, volumeVars>>

MCSpec == MCInit /\ [][MCNext]_vars
=============================================================================
