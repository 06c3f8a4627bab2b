---------------------------- MODULE BoxSessions ----------------------------
(***************************************************************************)
(* Sessions of the Box: ProxyServer._handle_box_connection and             *)
(* _run_box_offline_session of proxy/server.py, on top of ModeManager.     *)
(*                                                                         *)
(* Every TCP connection has a handler task.  The handlers share the mode   *)
(* manager, the connection count and the two connected flags, and each     *)
(* step below is what a handler does between two awaits: a connection to   *)
(* the cloud, the two pipes and a close may take any time, in which other  *)
(* handlers run and the configured mode changes.                           *)
(*                                                                         *)
(* The Box and the network are the environment: the Box connects, breaks   *)
(* off or resets at any time, and the cloud comes and goes.                *)
(***************************************************************************)
EXTENDS ModeManager, FiniteSets

CONSTANTS
    Conns,            \* handler tasks
    MaxConnections,   \* max_concurrent_connections
    BoxMayReset       \* TRUE: the Box may reset a connection being closed

ASSUME SessionsAssumption ==
    /\ IsFiniteSet(Conns)
    /\ MaxConnections \in Nat \ {0}
    /\ BoxMayReset \in BOOLEAN

VARIABLES
    phase,            \* where each handler waits
    count,            \* _active_connection_count
    boxConnected,     \* _box_connected
    cloudConnected,   \* _cloud_connected
    cloudUp           \* environment: the cloud can be reached

flagVars == <<count, boxConnected, cloudConnected>>
vars == <<modeVars, phase, flagVars, cloudUp>>

Phases ==
    {"none",       \* no connection
     "rejecting",  \* over the limit: closing the connection of the Box
     "dialing",    \* connecting to the cloud
     "closing",    \* no cloud: closing the connection of the Box
     "offline",    \* answering the Box locally
     "online",     \* piping between the Box and the cloud
     "ending"}     \* pipes done: closing both connections

\* Handlers the connection count stands for.
Counting == {"dialing", "closing", "offline", "online", "ending"}
Serving == {c \in Conns : phase[c] \in Counting}

Init ==
    /\ ModeInit
    /\ phase = [c \in Conns |-> "none"]
    /\ count = 0
    /\ boxConnected = FALSE
    /\ cloudConnected = FALSE
    /\ cloudUp \in BOOLEAN

Goto(c, p) == phase' = [phase EXCEPT ![c] = p]

------------------------------------------------------------------------------
\* The Box connects and the limit is reached: nothing is counted.
Reject(c) ==
    /\ phase[c] = "none"
    /\ count >= MaxConnections
    /\ Goto(c, "rejecting")
    /\ UNCHANGED <<modeVars, flagVars, cloudUp>>

\* Mutant: a rejected connection leaves the count like any other.
RejectedUncounts(c) ==
    /\ phase[c] = "rejecting"
    /\ count' = count - 1
    /\ Goto(c, "none")
    /\ UNCHANGED <<modeVars, boxConnected, cloudConnected, cloudUp>>

Rejected(c) ==
    /\ phase[c] = "rejecting"
    /\ Goto(c, "none")
    /\ UNCHANGED <<modeVars, flagVars, cloudUp>>

\* Mutant: the cloud is said to be connected before it is dialed.
AdmitEagerly(c) ==
    /\ phase[c] = "none"
    /\ count < MaxConnections
    /\ count' = count + 1
    /\ boxConnected' = TRUE
    /\ cloudConnected' = (cloudConnected \/ ShouldTryCloud)
    /\ Goto(c, IF ShouldTryCloud THEN "dialing" ELSE "offline")
    /\ UNCHANGED <<modeVars, cloudUp>>

\* The Box connects and is served, through the cloud if the mode allows it.
Admit(c) ==
    /\ phase[c] = "none"
    /\ count < MaxConnections
    /\ count' = count + 1
    /\ boxConnected' = TRUE
    /\ Goto(c, IF ShouldTryCloud THEN "dialing" ELSE "offline")
    /\ UNCHANGED <<modeVars, cloudConnected, cloudUp>>

CloudConnects(c) ==
    /\ phase[c] = "dialing" /\ cloudUp
    /\ cloudConnected' = TRUE
    /\ RecordSuccess
    /\ Goto(c, "online")
    /\ UNCHANGED <<count, boxConnected, cloudUp>>

\* Timeout or error: the mode after the failure decides what the Box gets.
CloudFails(c) ==
    /\ phase[c] = "dialing" /\ ~cloudUp
    /\ RecordFailure
    /\ Goto(c, IF IsOffline' THEN "offline" ELSE "closing")
    /\ UNCHANGED <<flagVars, cloudUp>>

\* Mutant: the flag stays set.
LeaveFlag(c) ==
    /\ count' = count - 1
    /\ UNCHANGED boxConnected
    /\ Goto(c, "none")

\* The last lines of the handler; c no longer counts.
Leave(c) ==
    /\ count' = count - 1
    /\ boxConnected' = FALSE
    /\ Goto(c, "none")

Closed(c) ==
    /\ phase[c] = "closing"
    /\ Leave(c)
    /\ UNCHANGED <<modeVars, cloudConnected, cloudUp>>

\* wait_closed raises the error the connection broke with.  Here it is not
\* caught, so the handler ends without its last lines.
ClosingRaises(c) ==
    /\ BoxMayReset
    /\ phase[c] = "closing"
    /\ Goto(c, "none")
    /\ UNCHANGED <<modeVars, flagVars, cloudUp>>

\* The Box ends a local session; errors of the close are caught.
OfflineEnds(c) ==
    /\ phase[c] = "offline"
    /\ Leave(c)
    /\ UNCHANGED <<modeVars, cloudConnected, cloudUp>>

\* One of the pipes ends and the other is cancelled.
PipeEnds(c) ==
    /\ phase[c] = "online"
    /\ Goto(c, "ending")
    /\ UNCHANGED <<modeVars, flagVars, cloudUp>>

\* A write to the cloud fails; what was read is answered locally if the mode
\* is offline by now, and the session ends all the same.
CloudWriteFails(c) ==
    /\ phase[c] = "online" /\ ~cloudUp
    /\ RecordFailure
    /\ Goto(c, "ending")
    /\ UNCHANGED <<flagVars, cloudUp>>

Ended(c) ==
    /\ phase[c] = "ending"
    /\ Leave(c)
    /\ cloudConnected' = FALSE
    /\ UNCHANGED <<modeVars, cloudUp>>

------------------------------------------------------------------------------
Apply ==
    /\ \E mode \in Modes : ApplyConfiguredMode(mode)
    /\ UNCHANGED <<phase, flagVars, cloudUp>>

Tick == ModeTick /\ UNCHANGED <<phase, flagVars, cloudUp>>

CloudChanges ==
    /\ cloudUp' = ~cloudUp
    /\ UNCHANGED <<modeVars, phase, flagVars>>

HandlerStep(c) ==
    \/ Reject(c) \/ Rejected(c) \/ Admit(c)
    \/ CloudConnects(c) \/ CloudFails(c)
    \/ Closed(c) \/ ClosingRaises(c) \/ OfflineEnds(c)
    \/ PipeEnds(c) \/ CloudWriteFails(c) \/ Ended(c)

Next == (\E c \in Conns : HandlerStep(c)) \/ Apply \/ Tick \/ CloudChanges

Spec == Init /\ [][Next]_vars

\* The Box connects again and again and no local session or close lasts for
\* ever; a connection attempt has a timeout; the clock runs.  Nothing makes a
\* session that is piped to the cloud end.
Fairness ==
    /\ WF_vars(Tick)
    /\ SF_vars(\E c \in Conns : Admit(c))
    /\ \A c \in Conns :
          /\ WF_vars(CloudConnects(c) \/ CloudFails(c))
          /\ WF_vars(Closed(c) \/ ClosingRaises(c))
          /\ WF_vars(Rejected(c))
          /\ WF_vars(OfflineEnds(c))
          /\ WF_vars(Ended(c))

FairSpec == Spec /\ Fairness

------------------------------------------------------------------------------
(* Properties.                                                              *)

\* The type of the fields of ProxyServer and of the mode manager.
TypeOK ==
    /\ ModeTypeOK
    /\ phase \in [Conns -> Phases]
    /\ count \in 0 .. MaxConnections
    /\ boxConnected \in BOOLEAN
    /\ cloudConnected \in BOOLEAN
    /\ cloudUp \in BOOLEAN

\* The limit holds: no more handlers serve the Box than the count says, and
\* it says no more than the maximum, although handlers leave it on five ways.
LimitHolds == Cardinality(Serving) <= count /\ count <= MaxConnections

\* _cloud_connected is set only while a handler pipes or closes its pipes.
CloudFlagHasHandler ==
    cloudConnected => \E c \in Conns : phase[c] \in {"online", "ending"}

\* A proxy that counts no connection says so: the flags that MQTT status and
\* telemetry read are not left set by whichever handler ended last.
IdleIsDisconnected == count = 0 => ~boxConnected /\ ~cloudConnected

\* A dial that failed and left its Box to local answers keeps the next
\* connections from the cloud: under hybrid it starts the retry interval anew,
\* also when it was the probe at the end of one.
FailedDialShuts ==
    [][\A c \in Conns :
          phase[c] = "dialing" /\ phase'[c] = "offline" => ~ShouldTryCloud']_vars

\* Hybrid recovers: once the cloud stays up and the mode stays hybrid, the
\* proxy goes online and stays so, unless every slot has been lost.
SlotsLost == count - Cardinality(Serving) >= MaxConnections
Recovers ==
    <>[](cloudUp /\ configured = "hybrid") => <>[](~inOffline) \/ <>[]SlotsLost

------------------------------------------------------------------------------
(* What the documentation says and the code does not do.                    *)

\* docs/v2/configuration.md, max_concurrent_connections: the "maximum number
\* of concurrent Box connections the proxy will keep open", so a connection
\* is rejected only while that many are open.
RejectsOnlyWhenFull ==
    [][\A c \in Conns : phase[c] = "none" /\ phase'[c] = "rejecting" =>
          Cardinality(Serving) = MaxConnections]_vars
=============================================================================
