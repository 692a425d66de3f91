---------------------------- MODULE BrokerClient ----------------------------
(***************************************************************************)
(* The connection and the subscriptions of internal/broker/broker.go.  The *)
(* caller of Subscribe, the connection and the handler that subscribes     *)
(* again after a reconnect race on c.subscriptions, which is read under    *)
(* the lock and used after it.                                             *)
(*                                                                         *)
(* The MQTT library and the broker (external) lose the connection at any   *)
(* time and reconnect by themselves; a SUBSCRIBE of a connection that is   *)
(* lost fails, and one that is sent may be granted, refused or left        *)
(* without an answer until its wait ends.  The library calls the handlers  *)
(* of one connection in the order of its events.  Each topic has one       *)
(* caller, which may try again after a failure.                            *)
(***************************************************************************)
EXTENDS Naturals, FiniteSets

CONSTANTS Topics, MaxConnections, MaxAttempts

ASSUME BrokerAssumption ==
    /\ MaxConnections \in Nat /\ MaxAttempts \in Nat
    /\ "snapshot" \notin Topics    \* what stands for a copy not made yet

VARIABLES
    online,         \* the connection exists
    disconnected,   \* the library was told to disconnect, and stays so
    connections,    \* how many there have been: the current one's number
    persistent,     \* Options.PersistentSession
    connected,      \* c.connected
    subscriptions,  \* c.subscriptions
    granted,        \* the broker's side: topics subscribed in its session
    call,           \* where the call of Subscribe for each topic is
    attempts,
    returned,       \* Connect has returned
    resubscribing,  \* by connection: the topics resubscribeAll has yet to do
    notified,       \* connections whose on-connect handler has started
    refused         \* history: topics whose resubscription in this connection failed

brokerVars == <<online, disconnected, connections, persistent, connected, subscriptions, granted, call,
                attempts, returned, resubscribing, notified, refused>>

Connections == 1 .. MaxConnections
NoCall == [at |-> "idle", on |-> 0]

BrokerInit ==
    /\ online = FALSE /\ disconnected = FALSE /\ connections = 0 /\ connected = FALSE
    /\ persistent \in BOOLEAN
    /\ subscriptions = {} /\ granted = {}
    /\ call = [t \in Topics |-> NoCall]
    /\ attempts = [t \in Topics |-> 0]
    /\ resubscribing = [k \in Connections |-> {}]
    /\ returned = FALSE /\ notified = {} /\ refused = {}

-----------------------------------------------------------------------------
(* The connection                                                          *)

\* Connect, or the library's own reconnect.  A clean session forgets what the
\* last one was granted.
ConnectionUp ==
    /\ ~online /\ ~disconnected /\ connections < MaxConnections
    /\ online' = TRUE /\ connections' = connections + 1
    /\ granted' = IF persistent THEN granted ELSE {}
    /\ refused' = {}
    /\ UNCHANGED <<disconnected, persistent, connected, subscriptions, call, attempts, returned, resubscribing, notified>>

\* The on-connect handler notes the connection.
OnConnect ==
    /\ online /\ connections \notin notified
    /\ connected' = TRUE
    /\ notified' = notified \cup {connections}
    /\ resubscribing' = [resubscribing EXCEPT ![connections] = {"snapshot"}]
    /\ UNCHANGED <<online, disconnected, connections, persistent, subscriptions, granted, call, attempts, returned, refused>>

\* Connect returns once its token is complete and notes the connection too, as
\* late as after the connection is lost again.
ConnectReturns ==
    /\ connections > 0 /\ ~returned
    /\ returned' = TRUE /\ connected' = TRUE
    /\ UNCHANGED <<online, disconnected, connections, persistent, subscriptions, granted, call, attempts, resubscribing,
                   notified, refused>>

\* resubscribeAll copies the subscriptions under the lock.
ResubscribeAll(k) ==
    /\ resubscribing[k] = {"snapshot"}
    /\ resubscribing' = [resubscribing EXCEPT ![k] = subscriptions]
    /\ UNCHANGED <<online, disconnected, connections, persistent, connected, subscriptions, granted, call, attempts, returned,
                   notified, refused>>

\* One of them is subscribed on whatever connection there is now; a failure or
\* a timeout is logged and passed over.
Resubscribe(k, t, ok) ==
    /\ t \in resubscribing[k] /\ resubscribing[k] # {"snapshot"}
    /\ ok => online
    /\ resubscribing' = [resubscribing EXCEPT ![k] = @ \ {t}]
    /\ granted' = IF ok THEN granted \cup {t} ELSE granted
    /\ refused' = IF ~ok /\ k = connections THEN refused \cup {t} ELSE refused
    /\ UNCHANGED <<online, disconnected, connections, persistent, connected, subscriptions, call, attempts, returned, notified>>

\* The connection is lost and the handler notes it.
ConnectionLost ==
    /\ online /\ connections \in notified
    /\ online' = FALSE /\ connected' = FALSE
    /\ UNCHANGED <<disconnected, connections, persistent, subscriptions, granted, call, attempts, returned, resubscribing,
                   notified, refused>>

\* Disconnect, which does nothing between two connections: the library then
\* reconnects as before.
Disconnect ==
    /\ connected /\ ~disconnected
    /\ disconnected' = TRUE /\ online' = FALSE /\ connected' = FALSE
    /\ UNCHANGED <<connections, persistent, subscriptions, granted, call, attempts, returned, resubscribing,
                   notified, refused>>

-----------------------------------------------------------------------------
(* Subscribe                                                               *)

\* Mutant: the topic is registered only once the broker has granted it.
RegisteredLater(t) == subscriptions
\* The topic is registered before anything is sent.
Registered(t) == subscriptions \cup {t}

\* What the call leaves registered when it returns.
Kept(t, ok) == IF ok THEN subscriptions \cup {t} ELSE subscriptions \ {t}

SubscribeCalled(t) ==
    /\ call[t].at \in {"idle", "failed"} /\ attempts[t] < MaxAttempts
    /\ connected /\ t \notin subscriptions
    /\ subscriptions' = Registered(t)
    /\ call' = [call EXCEPT ![t] = [at |-> "registered", on |-> 0]]
    /\ attempts' = [attempts EXCEPT ![t] = @ + 1]
    /\ UNCHANGED <<online, disconnected, connections, persistent, connected, granted, returned, resubscribing, notified,
                   refused>>

\* c.paho.Subscribe: the packet goes out on the connection of the moment.
SubscribeSent(t) ==
    /\ call[t].at = "registered" /\ online
    /\ call' = [call EXCEPT ![t] = [at |-> "sent", on |-> connections]]
    /\ UNCHANGED <<online, disconnected, connections, persistent, connected, subscriptions, granted, attempts, returned,
                   resubscribing, notified, refused>>

\* The broker grants it: the token is complete, though nobody has looked yet.
Granted(t) ==
    /\ call[t].at = "sent" /\ online /\ call[t].on = connections
    /\ granted' = granted \cup {t}
    /\ call' = [call EXCEPT ![t].at = "granted"]
    /\ UNCHANGED <<online, disconnected, connections, persistent, connected, subscriptions, attempts, returned, resubscribing,
                   notified, refused>>

\* waitToken returns: a complete token is taken even as the wait ends; without
\* one the call fails and the registration is withdrawn.
SubscribeReturns(t, ok) ==
    /\ call[t].at \in (IF ok THEN {"granted"} ELSE {"registered", "sent"})
    /\ subscriptions' = Kept(t, ok)
    /\ call' = [call EXCEPT ![t].at = IF ok THEN "done" ELSE "failed"]
    /\ UNCHANGED <<online, disconnected, connections, persistent, connected, granted, attempts, returned, resubscribing, notified,
                   refused>>

BrokerNext ==
    \/ ConnectionUp \/ OnConnect \/ ConnectReturns \/ ConnectionLost \/ Disconnect
    \/ \E k \in Connections:
         \/ ResubscribeAll(k)
         \/ \E t \in Topics, ok \in BOOLEAN: Resubscribe(k, t, ok)
    \/ \E t \in Topics: \/ SubscribeCalled(t) \/ SubscribeSent(t) \/ Granted(t)
    \/ \E t \in Topics, ok \in BOOLEAN: SubscribeReturns(t, ok)

BrokerSpec == BrokerInit /\ [][BrokerNext]_brokerVars

-----------------------------------------------------------------------------
(* A subscription that succeeded is served: once the handler of the current *)
(* connection is through, the broker's session has every topic whose        *)
(* Subscribe returned without error, unless subscribing it again was        *)
(* refused on this very connection.  A reconnect at any point of a call     *)
(* does not lose its topic.                                                 *)
ServedUnlessRefused ==
    online /\ connections \in notified /\ resubscribing[connections] = {} =>
       \A t \in Topics: call[t].at = "done" => t \in granted \cup refused
=============================================================================
