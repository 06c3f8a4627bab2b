-------------------------- MODULE MqttLink_proofs --------------------------
(* Proofs about MqttLink, for any number of clients and devices. *)
EXTENDS MqttLink, TLAPS

\* The flag is set only while some client has, or had until a moment ago, a
\* connection that greeted the broker.  So a link that is settled is a link
\* that is up, and nothing the broker forgets goes unnoticed.
FlagHasLink == connected => \E c \in Clients : net[c] \in {"greeting", "up", "lost"}

LinkInv == TypeOK /\ FlagHasLink /\ KnownOnline /\ DiscoveredRetained

\* The invariant holds when the proxy starts.
LEMMA LinkStart == Init => LinkInv
  <1> SUFFICES ASSUME Init PROVE LinkInv
    OBVIOUS
  <1>1. TypeOK
    BY LinkAssumption DEF Init, TypeOK
  <1>2. ~connected
    BY DEF Init
  <1> QED
    BY <1>1, <1>2 DEF LinkInv, FlagHasLink, KnownOnline, DiscoveredRetained, Settled

\* connect keeps the invariant: the links are as they were.
LEMMA ConnectKeeps ==
    ASSUME LinkInv, Connect, UNCHANGED <<broker, subscribed, brokerSubs, deviceVars>>,
           handler' \in {"due", handler},
           waiting' => client' \in thread'
    PROVE  LinkInv'
  <1>1. /\ UNCHANGED <<connected, net>> /\ client' \in Clients
        /\ thread \subseteq thread' /\ thread' \subseteq Clients /\ waiting' \in BOOLEAN
    BY DEF Connect, Unused, LinkInv, TypeOK
  <1>2. TypeOK'
    BY <1>1 DEF LinkInv, TypeOK, deviceVars
  <1> QED
    BY <1>1, <1>2 DEF LinkInv, FlagHasLink, KnownOnline, DiscoveredRetained, Settled, deviceVars

\* A step after which the flag is not set needs only the types.
LEMMA UnsetKeeps ==
    ASSUME TypeOK', ~connected'
    PROVE  LinkInv'
  BY DEF LinkInv, FlagHasLink, KnownOnline, DiscoveredRetained, Settled

\* A step that leaves a connection in between, one that greeted or is lost,
\* needs only the types: the link is not settled.
LEMMA UnsettledKeeps ==
    ASSUME TypeOK', NEW c \in Clients, net'[c] \in {"greeting", "lost"}
    PROVE  LinkInv'
  BY DEF LinkInv, FlagHasLink, KnownOnline, DiscoveredRetained, Settled

\* A step that takes every connection away leaves some of them lost, if the
\* flag is set at all.
LEMMA LoseKeeps ==
    ASSUME LinkInv, TypeOK', LoseAll, UNCHANGED connected
    PROVE  LinkInv'
  <1>1. CASE ~connected
    BY <1>1, UnsetKeeps
  <1>2. CASE connected
    <2>1. PICK c \in Clients : net[c] \in {"greeting", "up", "lost"}
      BY <1>2 DEF LinkInv, FlagHasLink
    <2>2. net'[c] = "lost"
      BY <2>1 DEF LoseAll, Linked
    <2> QED
      BY <2>2, UnsettledKeeps
  <1> QED
    BY <1>1, <1>2 DEF LinkInv, TypeOK

\* Every step keeps the invariant.
LEMMA LinkStep == LinkInv /\ [Next]_vars => LinkInv'
  <1> SUFFICES ASSUME LinkInv, [Next]_vars PROVE LinkInv'
    OBVIOUS
  <1> USE DEF linkVars, controlVars, deviceVars
  <1>1. CASE UNCHANGED vars
    BY <1>1 DEF vars, LinkInv, TypeOK, FlagHasLink, KnownOnline, DiscoveredRetained, Settled
  <1>2. CASE ConnectFirst
    <2>1. waiting' => client' \in thread'
      BY <1>2 DEF ConnectFirst, Connect
    <2> QED
      BY <1>2, <2>1, ConnectKeeps DEF ConnectFirst
  <1>3. CASE HealthCheck
    <2>1. waiting' => client' \in thread'
      BY <1>3 DEF HealthCheck, Connect
    <2> QED
      BY <1>3, <2>1, ConnectKeeps DEF HealthCheck
  <1>4. CASE WaitEnds
    BY <1>4 DEF WaitEnds, LinkInv, TypeOK, FlagHasLink, KnownOnline, DiscoveredRetained, Settled
  <1>5. CASE WaitTimesOut
    <2>1. TypeOK'
      BY <1>5 DEF WaitTimesOut, Cleanup, LinkInv, TypeOK, Linked
    <2> QED
      BY <1>5, <2>1, UnsetKeeps DEF WaitTimesOut, Cleanup
  <1>6. CASE StartHandler
    <2>1. TypeOK'
      BY <1>6, LinkAssumption DEF StartHandler, Subscribe, Ready, Linked, LinkInv, TypeOK
    <2> QED
      BY <1>6, <2>1 DEF StartHandler, LinkInv, FlagHasLink, KnownOnline, DiscoveredRetained, Settled
  <1>7. CASE Disconnect
    <2>1. TypeOK'
      BY <1>7, LinkAssumption DEF Disconnect, LoopFree, Unsubscribe, Ready, Cleanup, LinkInv, TypeOK
    <2> QED
      BY <1>7, <2>1, UnsetKeeps DEF Disconnect, Cleanup
  <1>8. ASSUME NEW c \in Clients, Accepted(c) PROVE LinkInv'
    <2>1. TypeOK'
      BY <1>8 DEF Accepted, WillOf, Linked, LinkInv, TypeOK
    <2>2. CASE ~connected
      BY <1>8, <2>1, <2>2, UnsetKeeps DEF Accepted
    <2>3. CASE connected
      <3>1. PICK d \in Clients : net[d] \in {"greeting", "up", "lost"}
        BY <2>3 DEF LinkInv, FlagHasLink
      <3>2. net'[d] = "lost"
        BY <1>8, <3>1 DEF Accepted, Linked
      <3> QED
        BY <2>1, <3>2, UnsettledKeeps
    <2> QED
      BY <2>2, <2>3 DEF LinkInv, TypeOK
  <1>9. ASSUME NEW c \in Clients, Greet(c) PROVE LinkInv'
    <2>1. TypeOK' /\ net'[c] = "greeting"
      BY <1>9 DEF Greet, LinkInv, TypeOK
    <2> QED
      BY <2>1, UnsettledKeeps
  <1>10. ASSUME NEW c \in Clients, Announce(c) PROVE LinkInv'
    <2>1. TypeOK' /\ net'[c] = "up"
      BY <1>10, LinkAssumption DEF Announce, LinkInv, TypeOK
    <2>2. KnownOnline' /\ DiscoveredRetained'
      BY <1>10 DEF Announce, KnownOnline, DiscoveredRetained
    <2> QED
      BY <2>1, <2>2 DEF LinkInv, FlagHasLink
  <1>11. ASSUME NEW c \in Clients, OnDisconnect(c) PROVE LinkInv'
    <2>1. TypeOK' /\ ~connected'
      BY <1>11 DEF OnDisconnect, LinkInv, TypeOK
    <2> QED
      BY <2>1, UnsetKeeps
  <1>12. CASE Break
    <2>1. TypeOK'
      BY <1>12 DEF Break, LoseAll, WillOf, Linked, LinkInv, TypeOK
    <2> QED
      BY <1>12, <2>1, LoseKeeps DEF Break
  <1>13. CASE BrokerDown
    <2>1. TypeOK'
      BY <1>13 DEF BrokerDown, LoseAll, WillOf, Linked, LinkInv, TypeOK
    <2> QED
      BY <1>13, <2>1, LoseKeeps DEF BrokerDown
  <1>14. CASE BrokerUp
    BY <1>14 DEF BrokerUp, LinkInv, TypeOK, FlagHasLink, KnownOnline, DiscoveredRetained, Settled
  <1>15. ASSUME NEW d \in Devices, PublishState(d) \/ SendDiscovery(d) PROVE LinkInv'
    <2>1. /\ UNCHANGED linkVars /\ UNCHANGED <<broker, controlVars>>
          /\ client \in Clients /\ Writable
      BY <1>15, LinkAssumption DEF PublishState, SendDiscovery, Ready, LinkInv, TypeOK
    <2>2. TypeOK'
      BY <1>15, <2>1 DEF PublishState, SendDiscovery, LinkInv, TypeOK
    <2>3. Settled => Linked(client)
      BY <2>1 DEF Settled, Writable, Linked
    <2>4. KnownOnline' /\ DiscoveredRetained'
      BY <1>15, <2>1, <2>3 DEF PublishState, SendDiscovery, LinkInv, KnownOnline, DiscoveredRetained, Settled
    <2> QED
      BY <2>1, <2>2, <2>4 DEF LinkInv, FlagHasLink
  <1> QED
    BY <1>1, <1>2, <1>3, <1>4, <1>5, <1>6, <1>7, <1>8, <1>9, <1>10, <1>11, <1>12, <1>13, <1>14, <1>15
    DEF Next, Callback

\* The types, and that no client without a thread has a connection.
THEOREM LinkTypes == Spec => []TypeOK
  <1>1. LinkInv => TypeOK
    BY DEF LinkInv
  <1> QED
    BY LinkStart, LinkStep, <1>1, PTL DEF Spec

\* Whatever the broker forgets and however the clients take the connection
\* from each other: once the callbacks have run, every known device is online.
THEOREM DevicesAreOnline == Spec => []KnownOnline
  <1>1. LinkInv => KnownOnline
    BY DEF LinkInv
  <1> QED
    BY LinkStart, LinkStep, <1>1, PTL DEF Spec

\* What the proxy counts as discovered the broker retains, likewise.
THEOREM DiscoveryIsRetained == Spec => []DiscoveredRetained
  <1>1. LinkInv => DiscoveredRetained
    BY DEF LinkInv
  <1> QED
    BY LinkStart, LinkStep, <1>1, PTL DEF Spec
=============================================================================
