------------------------------ MODULE MqttLink ------------------------------
(***************************************************************************)
(* The connection to the MQTT broker: mqtt/client.py, with the start and   *)
(* stop of the control handler (twin/handler.py) that subscribes through   *)
(* it.  Each call of connect makes a paho client of its own, with a thread *)
(* that reconnects by itself; all of them have the same client id, so the  *)
(* broker keeps one connection and ends the others.                        *)
(***************************************************************************)
EXTENDS Naturals

CONSTANTS
    Clients,    \* paho client objects; one that nothing refers to is used again
    None,       \* no client
    Devices,    \* device ids that states are published for
    ConnId      \* _connect_device_id, the one of the last will

ASSUME LinkAssumption == None \notin Clients /\ ConnId \in Devices

VARIABLES
    broker,      \* "up" or "down"
    client,      \* MQTTClient._client
    connected,   \* MQTTClient.connected
    thread,      \* clients whose network thread runs
    net,         \* client -> "idle", "joining", "greeting", "up", "lost"
    waiting,     \* connect waits for the flag
    handler,     \* TwinControlHandler: "startup", "due", "absent", "started", "stopped"
    subscribed,  \* the topics are in _subscriptions
    brokerSubs,  \* the broker has the subscriptions for its connection
    known,       \* _all_known_device_ids
    online,      \* retained at the broker: availability "online"
    announced,   \* _availability_online_sent
    discovery,   \* retained at the broker: the discovery of a device
    discovered   \* _discovery_sent

linkVars == <<client, connected, thread, net, waiting>>
controlVars == <<handler, subscribed, brokerSubs>>
deviceVars == <<known, online, announced, discovery, discovered>>
vars == <<broker, linkVars, controlVars, deviceVars>>

\* joining: the broker has accepted; greeting: in on_connect, flag set;
\* lost: the connection is gone and on_disconnect has not run yet.  What an
\* on_connect overtaken by a loss would still publish, the next one repeats.
Linked(c) == net[c] \in {"joining", "greeting", "up"}
Ready == client # None /\ connected

\* A write on a socket that is gone still returns rc 0 until this is noticed.
Writable == net[client] # "idle"

------------------------------------------------------------------------------
Init ==
    /\ broker \in {"up", "down"}
    /\ client = None /\ connected = FALSE
    /\ thread = {} /\ net = [c \in Clients |-> "idle"]
    /\ waiting = FALSE
    /\ handler = "startup" /\ subscribed = FALSE /\ brokerSubs = FALSE
    /\ known = {} /\ online = {} /\ announced = {} /\ discovery = {} /\ discovered = {}

Unused == {c \in Clients : c # client /\ c \notin thread}

\* connect: a new client; the old one is left as it is.  Without a broker
\* connect raises OSError and the new client stays without a thread.
Connect ==
    /\ \E c \in Unused :
          /\ client' = c
          /\ \/ broker = "up" /\ thread' = thread \cup {c} /\ waiting' = TRUE
             \/ thread' = thread /\ waiting' = FALSE
    /\ UNCHANGED <<connected, net>>

\* At startup, in an executor.
ConnectFirst ==
    /\ handler = "startup" /\ handler' = "due"
    /\ Connect
    /\ UNCHANGED <<broker, subscribed, brokerSubs, deviceVars>>

\* health_check_loop, on the event loop.
HealthCheck ==
    /\ handler \in {"absent", "started"} /\ ~waiting /\ ~connected
    /\ Connect
    /\ UNCHANGED <<broker, controlVars, deviceVars>>

\* Mutant: the thread is stopped, the broker is not told.
CleanupKeepsConnection ==
    /\ thread' = thread \ {client}
    /\ client' = None
    /\ connected' = FALSE
    /\ net' = net

\* _cleanup: the current client is stopped and says goodbye to the broker.
Cleanup ==
    /\ thread' = thread \ {client}
    /\ net' = [c \in Clients |-> IF c = client THEN "idle" ELSE net[c]]
    /\ client' = None
    /\ connected' = FALSE

\* The flag was set, by whichever client.
WaitEnds ==
    /\ waiting /\ connected
    /\ waiting' = FALSE
    /\ UNCHANGED <<broker, client, connected, thread, net, controlVars, deviceVars>>

\* Five seconds are over; the flag may be set after the last look at it.
WaitTimesOut ==
    /\ waiting
    /\ waiting' = FALSE
    /\ Cleanup
    /\ brokerSubs' = (brokerSubs /\ ~Linked(client))
    /\ UNCHANGED <<broker, handler, subscribed, deviceVars>>

------------------------------------------------------------------------------
(* The network threads and the broker. *)

\* The last will of a connection that ends without a goodbye.
WillOf(lost) == IF lost # {} THEN online \ {ConnId} ELSE online

\* A client connects, for the first time or again; the session is clean, and
\* the connection of another client with the same id ends.
Accepted(c) ==
    /\ broker = "up" /\ c \in thread /\ net[c] = "idle"
    /\ net' = [d \in Clients |-> IF d = c THEN "joining" ELSE IF Linked(d) THEN "lost" ELSE net[d]]
    /\ online' = WillOf({d \in Clients : Linked(d)})
    /\ brokerSubs' = FALSE
    /\ UNCHANGED <<broker, client, connected, thread, waiting, handler, subscribed,
                   known, announced, discovery, discovered>>

\* _on_connect begins: the flag is set before the caches are cleared.
Greet(c) ==
    /\ c \in thread /\ net[c] = "joining"
    /\ net' = [net EXCEPT ![c] = "greeting"]
    /\ connected' = TRUE
    /\ UNCHANGED <<broker, client, thread, waiting, controlVars, deviceVars>>

\* Mutants: the cache of discoveries survives a reconnection; only the id of
\* the connection is announced.
AnnounceKeepsDiscovered(c) ==
    /\ c \in thread /\ net[c] = "greeting"
    /\ net' = [net EXCEPT ![c] = "up"]
    /\ announced' = known \cup {ConnId}
    /\ online' = online \cup known \cup {ConnId}
    /\ UNCHANGED <<broker, client, connected, thread, waiting, controlVars,
                   known, discovery, discovered>>

AnnounceItself(c) ==
    /\ c \in thread /\ net[c] = "greeting"
    /\ net' = [net EXCEPT ![c] = "up"]
    /\ announced' = known \cup {ConnId}
    /\ online' = online \cup {ConnId}
    /\ discovered' = {}
    /\ UNCHANGED <<broker, client, connected, thread, waiting, controlVars, known, discovery>>

\* The rest of _on_connect: caches are cleared, every known device is online.
Announce(c) ==
    /\ c \in thread /\ net[c] = "greeting"
    /\ net' = [net EXCEPT ![c] = "up"]
    /\ announced' = known \cup {ConnId}
    /\ online' = online \cup known \cup {ConnId}
    /\ discovered' = {}
    /\ UNCHANGED <<broker, client, connected, thread, waiting, controlVars, known, discovery>>

\* Mutant: the callback leaves the flag to the health check.
OnDisconnectKeepsFlag(c) ==
    /\ c \in thread /\ net[c] = "lost"
    /\ net' = [net EXCEPT ![c] = "idle"]
    /\ UNCHANGED <<broker, connected, client, thread, waiting, controlVars, deviceVars>>

\* _on_disconnect, of whichever client.
OnDisconnect(c) ==
    /\ c \in thread /\ net[c] = "lost"
    /\ net' = [net EXCEPT ![c] = "idle"]
    /\ connected' = FALSE
    /\ UNCHANGED <<broker, client, thread, waiting, controlVars, deviceVars>>

LoseAll == net' = [c \in Clients |-> IF Linked(c) THEN "lost" ELSE net[c]]

\* The connection breaks.
Break ==
    /\ \E c \in Clients : Linked(c)
    /\ LoseAll
    /\ online' = WillOf({c \in Clients : Linked(c)})
    /\ brokerSubs' = FALSE
    /\ UNCHANGED <<broker, client, connected, thread, waiting, handler, subscribed,
                   known, announced, discovery, discovered>>

\* The broker goes down, with or without what it retains.
BrokerDown ==
    /\ broker = "up"
    /\ broker' = "down"
    /\ LoseAll
    /\ \/ online' = {} /\ discovery' = {}
       \/ online' = WillOf({c \in Clients : Linked(c)}) /\ discovery' = discovery
    /\ brokerSubs' = FALSE
    /\ UNCHANGED <<client, connected, thread, waiting, handler, subscribed,
                   known, announced, discovered>>

BrokerUp ==
    /\ broker = "down"
    /\ broker' = "up"
    /\ UNCHANGED <<linkVars, controlVars, deviceVars>>

------------------------------------------------------------------------------
(* The event loop. *)

\* Two topics as one; without a connection paho has nobody to tell, and the
\* subscription is not made again by on_connect.
Subscribe ==
    /\ subscribed' = Ready
    /\ brokerSubs' = (Ready /\ Linked(client))
Unsubscribe ==
    /\ subscribed' = (subscribed /\ ~Ready)
    /\ brokerSubs' = (brokerSubs /\ client = None)

\* startup goes on: the control handler is started only if MQTT is ready now.
StartHandler ==
    /\ handler = "due" /\ ~waiting
    /\ handler' = IF Ready THEN "started" ELSE "absent"
    /\ Subscribe
    /\ UNCHANGED <<broker, linkVars, deviceVars>>

LoopFree == handler \in {"absent", "started"} /\ ~waiting

\* publish_state: the availability of a device goes first, until it was accepted.
PublishState(d) ==
    /\ LoopFree /\ Ready /\ d \notin announced /\ Writable
    /\ announced' = announced \cup {d}
    /\ known' = known \cup {d}
    /\ online' = IF Linked(client) THEN online \cup {d} ELSE online
    /\ UNCHANGED <<broker, linkVars, controlVars, discovery, discovered>>

\* send_discovery.
SendDiscovery(d) ==
    /\ LoopFree /\ Ready /\ d \notin discovered /\ Writable
    /\ discovered' = discovered \cup {d}
    /\ discovery' = IF Linked(client) THEN discovery \cup {d} ELSE discovery
    /\ UNCHANGED <<broker, linkVars, controlVars, known, online, announced>>

\* shutdown: the handler unsubscribes if it can, the current client is stopped.
Disconnect ==
    /\ LoopFree
    /\ handler' = "stopped"
    /\ Unsubscribe
    /\ Cleanup
    /\ UNCHANGED <<broker, waiting, deviceVars>>

Callback(c) == Greet(c) \/ Announce(c) \/ OnDisconnect(c)

Next ==
    \/ ConnectFirst \/ HealthCheck \/ WaitEnds \/ WaitTimesOut \/ StartHandler \/ Disconnect
    \/ \E c \in Clients : Accepted(c) \/ Callback(c)
    \/ Break \/ BrokerDown \/ BrokerUp
    \/ \E d \in Devices : PublishState(d) \/ SendDiscovery(d)

\* Threads and the event loop run, connect does not wait for ever.
Fairness ==
    /\ \A c \in Clients : WF_vars(Accepted(c)) /\ WF_vars(Callback(c))
    /\ WF_vars(HealthCheck) /\ WF_vars(WaitEnds \/ WaitTimesOut)

Spec == Init /\ [][Next]_vars /\ Fairness

------------------------------------------------------------------------------
(* Properties.                                                              *)

\* Types; a client without a thread holds no connection that nobody would
\* keep alive, and connect waits only for a client that runs.
TypeOK ==
    /\ broker \in {"up", "down"}
    /\ client \in Clients \cup {None}
    /\ connected \in BOOLEAN /\ waiting \in BOOLEAN
    /\ thread \subseteq Clients
    /\ net \in [Clients -> {"idle", "joining", "greeting", "up", "lost"}]
    /\ handler \in {"startup", "due", "absent", "started", "stopped"}
    /\ subscribed \in BOOLEAN /\ brokerSubs \in BOOLEAN
    /\ known \subseteq Devices /\ announced \subseteq Devices /\ discovered \subseteq Devices
    /\ online \subseteq Devices /\ discovery \subseteq Devices
    /\ \A c \in Clients \ thread : net[c] = "idle"
    /\ waiting => client \in thread

\* All callbacks have run and the flag says what the link is.
Settled == connected /\ \A c \in Clients : net[c] \in {"idle", "up"}

\* Whatever the broker forgot, after a reconnection every device that states
\* were published for is online again: entities do not stay unavailable.
KnownOnline == Settled => known \cup {ConnId} \subseteq online

\* What counts as discovered is retained by the broker: no sensor is missing
\* after the broker has come back empty.
DiscoveredRetained == Settled => discovered \subseteq discovery

\* An outage is noticed: the flag does not stay set without a broker.
OutageNoticed == broker = "down" ~> ~connected \/ broker = "up"

------------------------------------------------------------------------------
(* What the documentation says and the code does not do.                    *)

\* docs/v2/architecture.md: "Auto-reconnect with health check loop".  With a
\* broker that stays up, publishing works again and again.
PublishingResumes ==
    <>[](broker = "up" /\ handler \in {"absent", "started"}) =>
        []<>(Ready /\ net[client] = "up")
=============================================================================
