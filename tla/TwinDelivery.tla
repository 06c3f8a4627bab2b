---------------------------- MODULE TwinDelivery ----------------------------
(***************************************************************************)
(* Delivery of settings to the Box: the queue of twin/state.py, the MQTT   *)
(* control handler of twin/handler.py, the delivery bookkeeping of         *)
(* twin/delivery.py, and the hooks of proxy/server.py that drive it.       *)
(*                                                                         *)
(* Two threads share the queue.  The paho thread runs the control handler  *)
(* (actions Receive, Supersede, Enqueue).  The asyncio loop handles the    *)
(* frames of every TCP session; a coroutine gives up the loop only while   *)
(* it drains a write (variables writing, forwarding), but the paho thread  *)
(* may run between any two of its steps, so the handling of one frame is   *)
(* split into the parts that read or write the queue (variable loop).      *)
(*                                                                         *)
(* A setting is named by its audit id, a position in settings; audit ids   *)
(* grow in the order the settings are created, which stands for the order  *)
(* of enqueued_at and tracked_at (clocks that are not set back).  A        *)
(* (table, key) pair is one name.  Times are ages that stop growing at     *)
(* Timeout, the inflight_timeout_s of the code.                            *)
(*                                                                         *)
(* The Box is the environment: it answers settings it has received, in any *)
(* order, late and more than once, with the four forms of answer the code  *)
(* recognises.                                                             *)
(***************************************************************************)
EXTENDS Naturals, Sequences, FiniteSets

CONSTANTS
    Names,        \* (table, key) pairs of settings
    Values,       \* values a setting may have
    Sessions,     \* TCP sessions of the Box
    Devices,      \* device ids frames carry
    NoName, NoSession, NoDevice,
    Timeout,      \* inflight_timeout_s, in ticks
    Shapes,       \* answers of the Box: sequences of the parts of AnswerParts
    MaxLocal,     \* bound: settings received over MQTT
    MaxCloud,     \* bound: Setting frames sent by the cloud
    MaxLate       \* bound: sessions open at once when the server has stopped

AnswerParts == {"todo", "event", "reason", "nack"}

ASSUME TwinAssumption ==
    /\ NoName \notin Names
    /\ NoSession \notin Sessions
    /\ NoDevice \notin Devices
    /\ Timeout \in Nat \ {0}
    /\ Shapes \subseteq Seq(AnswerParts) \ {<<>>}
    /\ MaxLocal \in Nat
    /\ MaxCloud \in Nat
    /\ MaxLate \in Nat

\* Only an ACK that names its setting shares a frame with another part: a row of
\* tbl_events carries no result, and a result is either ACK or NACK.
ASSUME AnswerAssumption ==
    \A shape \in Shapes : \A i \in 1 .. Len(shape) - 1 : shape[i] = "todo"

VARIABLES
    queue,            \* TwinQueue._queue: the audit id queued under a name, or 0
    inflight,         \* _inflight_key and _inflight_since
    sessionInflight,  \* _session_inflight
    cloudPending,     \* _cloud_pending: settings of the cloud not yet answered
    legacy,           \* _cloud_legacy_inflight
    settings,         \* audit id -> the setting and the audit records emitted for it
    selected,         \* audit ids recorded as DELIVER_SELECTED
    injected,         \* audit ids recorded as INJECTED_BOX
    session,          \* state of each TCP session
    writing,          \* audit id whose frame the session is draining, or 0
    forwarding,       \* Setting frame of the cloud the session is draining
    loop,             \* the frame the asyncio loop is handling
    handler,          \* the message the MQTT thread is handling
    received,         \* settings that reached the Box
    cloudSent,        \* number of Setting frames the cloud has sent
    up                \* FALSE once ProxyServer.stop has run

twinVars == <<queue, inflight, sessionInflight, cloudPending, legacy>>
auditVars == <<settings, selected, injected>>
sessionVars == <<session, writing, forwarding>>
envVars == <<received, cloudSent, up>>
vars == <<twinVars, auditVars, sessionVars, envVars, loop, handler>>

NoFlight == [name |-> NoName, age |-> 0]
NoForward == [name |-> NoName]
Idle == [parts |-> <<>>]
Waiting == [pc |-> "idle"]

Delivery == [name : Names, value : Values]

------------------------------------------------------------------------------
(* The audit trail.  A terminal step is recorded once, and again only by a  *)
(* stronger confirmation.                                                   *)

Confirming == {"ack_tbl_events", "ack_reason_setting"}
Failing == {"nack", "timeout", "session_cleared"}
TerminalSteps == Confirming \cup Failing \cup {"superseded"}

Strength(step) ==
    CASE step = "ack_tbl_events" -> 3
      [] step = "ack_reason_setting" -> 2
      [] OTHER -> 0

StrongerAck(step, last) == last = "none" \/ Strength(step) > Strength(last)

NewSetting(n, v, origin) ==
    [name |-> n, value |-> v, src |-> origin, last |-> "none", trail |-> <<>>]

\* Mutant: terminal steps are not compared.
RecordedAlways(s, step) == [s EXCEPT !.last = step, !.trail = Append(@, step)]

Recorded(s, step) ==
    IF StrongerAck(step, s.last)
    THEN [s EXCEPT !.last = step, !.trail = Append(@, step)]
    ELSE s

\* Audit id 0 stands for "no setting found": nothing is recorded.
Emit(ss, a, step) ==
    [b \in DOMAIN ss |-> IF b = a THEN Recorded(ss[b], step) ELSE ss[b]]

------------------------------------------------------------------------------
(* Settings of the cloud that wait for an answer.                           *)

Expired == {p \in cloudPending : p.age = Timeout}
Live == cloudPending \ Expired

\* The one entry of ps tracked first, as a set.
Oldest(ps) == {p \in ps : \A q \in ps : p.aid <= q.aid}

\* Mutant: expiry forgets the audit trail.
AfterSilentExpiry == settings

\* The audit records _expire_cloud_pending adds: a setting whose ACK was seen
\* counts as confirmed, any other as timed out.
AfterExpiry ==
    [a \in DOMAIN settings |->
        IF \E p \in Expired : p.aid = a
        THEN Recorded(settings[a],
                      IF \E p \in Expired : p.aid = a /\ p.seen
                      THEN "ack_reason_setting" ELSE "timeout")
        ELSE settings[a]]

ExpireCloudPending ==
    /\ cloudPending' = Live
    /\ settings' = AfterExpiry

CloudInflight == legacy \/ Live # {}

------------------------------------------------------------------------------
(* Reading and removing what is in flight.                                  *)

HasPending == \E n \in Names : queue[n] # 0

\* a is what inflight_setting() returns: the cloud's settings come first.
InflightSetting(a) ==
    \/ \E p \in Oldest(Live) : a = p.aid
    \/ Live = {} /\ inflight = NoFlight /\ a = 0
    \/ Live = {} /\ inflight # NoFlight /\ a = queue[inflight.name]

\* The entries of name n that acknowledge would reach first, one per device.
FirstPending(n) ==
    {p \in cloudPending :
        /\ settings[p.aid].name = n
        /\ \A q \in cloudPending :
              settings[q.aid].name = n /\ q.dev = p.dev => p.aid <= q.aid}

\* Mutant: the global mark stays.
AcknowledgeQueue(n, sid) ==
    /\ queue' = [queue EXCEPT ![n] = 0]
    /\ UNCHANGED <<inflight, sessionInflight, cloudPending>>

Acknowledge(n, sid) ==
    /\ sessionInflight' = [t \in Sessions |->
          IF t = sid /\ sessionInflight[t].name = n
          THEN NoFlight ELSE sessionInflight[t]]
    /\ IF inflight.name = n \/ queue[n] # 0
       THEN /\ queue' = [queue EXCEPT ![n] = 0]
            /\ inflight' = IF inflight.name = n THEN NoFlight ELSE inflight
            /\ UNCHANGED cloudPending
       ELSE /\ UNCHANGED <<queue, inflight>>
            /\ \/ \E p \in FirstPending(n) : cloudPending' = cloudPending \ {p}
               \/ FirstPending(n) = {} /\ UNCHANGED cloudPending

------------------------------------------------------------------------------
Init ==
    /\ queue = [n \in Names |-> 0]
    /\ inflight = NoFlight
    /\ sessionInflight = [s \in Sessions |-> NoFlight]
    /\ cloudPending = {}
    /\ legacy = FALSE
    /\ settings = <<>>
    /\ selected = {}
    /\ injected = {}
    /\ session = [s \in Sessions |-> "closed"]
    /\ writing = [s \in Sessions |-> 0]
    /\ forwarding = [s \in Sessions |-> NoForward]
    /\ loop = Idle
    /\ handler = Waiting
    /\ received = {}
    /\ cloudSent = 0
    /\ up = TRUE

------------------------------------------------------------------------------
(* The MQTT thread: TwinControlHandler._on_message for an accepted message. *)

LocalCount == Cardinality({a \in DOMAIN settings : settings[a].src = "local"})

\* INCOMING is recorded and the queued setting of that name is looked up.
Receive(n, v) ==
    /\ handler = Waiting
    /\ LocalCount < MaxLocal
    /\ settings' = Append(settings, NewSetting(n, v, "local"))
    /\ handler' = [pc |-> "looked_up", name |-> n,
                   aid |-> Len(settings) + 1, old |-> queue[n]]
    /\ UNCHANGED <<twinVars, selected, injected, sessionVars, envVars, loop>>

\* SUPERSEDED goes to the collector directly: _recorded_terminal, which only
\* TwinDelivery keeps, is neither asked nor told.
Supersede ==
    /\ handler.pc = "looked_up"
    /\ settings' = IF handler.old = 0 THEN settings
                   ELSE [settings EXCEPT
                            ![handler.old].trail = Append(@, "superseded")]
    /\ handler' = [handler EXCEPT !.pc = "marked"]
    /\ UNCHANGED <<twinVars, selected, injected, sessionVars, envVars, loop>>

\* Mutant: a name that is queued is left to go out first.
EnqueueBehind ==
    /\ handler.pc = "marked"
    /\ queue' = IF queue[handler.name] # 0 THEN queue
                ELSE [queue EXCEPT ![handler.name] = handler.aid]
    /\ handler' = Waiting
    /\ UNCHANGED <<inflight, sessionInflight, cloudPending, legacy,
                   auditVars, sessionVars, envVars, loop>>

Enqueue ==
    /\ handler.pc = "marked"
    /\ queue' = [queue EXCEPT ![handler.name] = handler.aid]
    /\ handler' = Waiting
    /\ UNCHANGED <<inflight, sessionInflight, cloudPending, legacy,
                   auditVars, sessionVars, envVars, loop>>

------------------------------------------------------------------------------
(* Polls.  The Box asks for settings; at most one is written back.          *)

LoopFree == loop = Idle
BoxReadable(s) == session[s] # "closed" /\ writing[s] = 0
CloudReadable(s) == session[s] = "online" /\ forwarding[s] = NoForward

\* The setting deliver_pending looks up before it drops a timed-out one.
TimedOutSetting ==
    IF inflight.name # NoName /\ inflight.age = Timeout
    THEN queue[inflight.name] ELSE 0

\* Mutant: an incomplete Setting frame of the cloud does not hold a poll back.
PollPastLegacy(s) ==
    /\ LoopFree /\ BoxReadable(s) /\ session[s] = "online"
    /\ ExpireCloudPending
    /\ loop' = IF HasPending /\ Live = {}
               THEN [parts |-> <<"drop", "session", "select">>,
                     at |-> s, sid |-> s, snap |-> TimedOutSetting]
               ELSE Idle
    /\ UNCHANGED <<queue, inflight, sessionInflight, legacy, selected,
                   injected, sessionVars, envVars, handler>>

\* A poll read by the pipe from the Box to the cloud.
Poll(s) ==
    /\ LoopFree /\ BoxReadable(s) /\ session[s] = "online"
    /\ ExpireCloudPending
    /\ loop' = IF HasPending /\ ~CloudInflight
               THEN [parts |-> <<"drop", "session", "select">>,
                     at |-> s, sid |-> s, snap |-> TimedOutSetting]
               ELSE Idle
    /\ UNCHANGED <<queue, inflight, sessionInflight, legacy, selected,
                   injected, sessionVars, envVars, handler>>

\* IsNewSet handled with local ACKs: no session id, no look at the cloud.
PollOffline(s) ==
    /\ LoopFree /\ BoxReadable(s) /\ session[s] = "offline"
    /\ loop' = [parts |-> <<"drop", "select">>,
                at |-> s, sid |-> NoSession, snap |-> TimedOutSetting]
    /\ UNCHANGED <<twinVars, auditVars, sessionVars, envVars, handler>>

Part(p) == loop.parts # <<>> /\ Head(loop.parts) = p
NextPart == loop' = IF Len(loop.parts) = 1 THEN Idle
                    ELSE [loop EXCEPT !.parts = Tail(@)]

\* Mutants: nothing is dropped; the setting stays queued.
DropNothing ==
    /\ Part("drop")
    /\ NextPart
    /\ UNCHANGED <<twinVars, auditVars, sessionVars, envVars, handler>>

DropMark ==
    /\ Part("drop")
    /\ inflight' = IF inflight.age = Timeout THEN NoFlight ELSE inflight
    /\ NextPart
    /\ UNCHANGED <<queue, sessionInflight, cloudPending, legacy, auditVars,
                   sessionVars, envVars, handler>>

\* deliver_pending, first check: a setting in flight for Timeout is dropped.
DropTimedOut ==
    /\ Part("drop")
    /\ IF inflight.name # NoName /\ inflight.age = Timeout
       THEN /\ settings' = Emit(settings, loop.snap, "timeout")
            /\ queue' = [queue EXCEPT ![inflight.name] = 0]
            /\ inflight' = NoFlight
       ELSE UNCHANGED <<settings, queue, inflight>>
    /\ NextPart
    /\ UNCHANGED <<sessionInflight, cloudPending, legacy, selected, injected,
                   sessionVars, envVars, handler>>

\* Second check: an entry of this session blocks it until the entry expires.
CheckSession ==
    /\ Part("session")
    /\ LET entry == sessionInflight[loop.sid] IN
       IF entry = NoFlight
       THEN /\ NextPart
            /\ UNCHANGED <<settings, sessionInflight>>
       ELSE IF entry.age = Timeout
       THEN /\ settings' = IF inflight = NoFlight THEN settings
                           ELSE Emit(settings, queue[entry.name], "timeout")
            /\ sessionInflight' = [sessionInflight EXCEPT ![loop.sid] = NoFlight]
            /\ NextPart
       ELSE /\ loop' = Idle
            /\ UNCHANGED <<settings, sessionInflight>>
    /\ UNCHANGED <<queue, inflight, cloudPending, legacy, selected, injected,
                   sessionVars, envVars, handler>>

\* Mutant: settings go out in any order.
AnyQueued(n) == queue[n] # 0

FirstQueued(n) == queue[n] # 0 /\ \A m \in Names : queue[m] # 0 => queue[n] <= queue[m]

\* Third check and choice: nothing else in flight, the oldest setting goes out.
\* The frame may reach the Box before the drain of the write returns.
Select ==
    /\ Part("select")
    /\ loop' = Idle
    /\ IF inflight # NoFlight \/ ~HasPending
       THEN UNCHANGED <<inflight, sessionInflight, selected, writing, received>>
       ELSE \E n \in Names :
            /\ FirstQueued(n)
            /\ inflight' = [name |-> n, age |-> 0]
            /\ sessionInflight' = [t \in Sessions |->
                  IF t = loop.sid THEN [name |-> n, age |-> 0]
                  ELSE sessionInflight[t]]
            /\ selected' = selected \cup {queue[n]}
            /\ writing' = [writing EXCEPT ![loop.at] = queue[n]]
            /\ received' \in {received,
                   received \cup {[name |-> n, value |-> settings[queue[n]].value]}}
    /\ UNCHANGED <<queue, cloudPending, legacy, settings, injected, session,
                   forwarding, cloudSent, up, handler>>

\* Offline, the poll's own frame is looked at for an answer after the write.
AfterWrite(s) ==
    IF session[s] = "offline" THEN ExpireCloudPending
    ELSE UNCHANGED <<cloudPending, settings>>

\* The drain returns: INJECTED_BOX is recorded.
WriteDone(s) ==
    /\ LoopFree /\ writing[s] # 0
    /\ writing' = [writing EXCEPT ![s] = 0]
    /\ injected' = injected \cup {writing[s]}
    /\ received' = received \cup
          {[name |-> settings[writing[s]].name, value |-> settings[writing[s]].value]}
    /\ AfterWrite(s)
    /\ UNCHANGED <<queue, inflight, sessionInflight, legacy, selected, session,
                   forwarding, cloudSent, up, loop, handler>>

\* The write fails: it is logged, and the marks of the selection stay.
WriteFails(s) ==
    /\ LoopFree /\ writing[s] # 0
    /\ writing' = [writing EXCEPT ![s] = 0]
    /\ AfterWrite(s)
    /\ UNCHANGED <<queue, inflight, sessionInflight, legacy, selected, injected,
                   session, forwarding, envVars, loop, handler>>

------------------------------------------------------------------------------
(* Answers.  _handle_twin_frames first notes what is in flight, then acts   *)
(* on each part of the frame with what it noted.                            *)

\* An answer about delivery d arrives on session s, from the Box (sid is
\* NoSession) or relayed by the cloud (sid is the session).
Answer(s, d, shape, dev, sid) ==
    /\ LoopFree
    /\ \/ sid = NoSession /\ BoxReadable(s)
       \/ sid = s /\ CloudReadable(s)
    /\ ExpireCloudPending
    /\ \E a \in 0 .. Len(settings) :
          /\ InflightSetting(a)
          /\ loop' = [parts |-> shape, name |-> d.name, value |-> d.value,
                      dev |-> dev, sid |-> sid, snap |-> a]
    /\ UNCHANGED <<queue, inflight, sessionInflight, legacy, selected,
                   injected, sessionVars, envVars, handler>>

SnapIs(n) == loop.snap # 0 /\ settings[loop.snap].name = n

AnswerUnchanged == UNCHANGED <<legacy, selected, injected, sessionVars, envVars, handler>>

\* ACK that names table and key: for what is in flight it is only observed.
AckTodo ==
    /\ Part("todo")
    /\ IF SnapIs(loop.name)
       THEN UNCHANGED <<queue, inflight, sessionInflight, cloudPending>>
       ELSE Acknowledge(loop.name, loop.sid)
    /\ NextPart
    /\ UNCHANGED settings
    /\ AnswerUnchanged

\* The entry match_cloud_tbl_events picks: an equal value, else the first.
MatchingPending ==
    LET same == {p \in cloudPending :
                    p.dev = loop.dev /\ settings[p.aid].name = loop.name}
        equal == {p \in same : settings[p.aid].value = loop.value}
    IN  Oldest(IF equal # {} THEN equal ELSE same)

\* tbl_events row that reports the new value of a setting.
AckEvent ==
    /\ Part("event")
    /\ \/ \E p \in MatchingPending :
            /\ settings' = Emit(settings, p.aid, "ack_tbl_events")
            /\ cloudPending' = cloudPending \ {p}
            /\ UNCHANGED <<queue, inflight, sessionInflight>>
       \/ /\ MatchingPending = {}
          /\ settings' = IF SnapIs(loop.name)
                         THEN Emit(settings, loop.snap, "ack_tbl_events")
                         ELSE settings
          /\ Acknowledge(loop.name, loop.sid)
    /\ NextPart
    /\ AnswerUnchanged

\* ACK with Reason=Setting: it names no setting, so what is in flight takes it.
AckReason ==
    /\ Part("reason")
    /\ LET mine == {p \in cloudPending : p.dev = loop.dev} IN
       \/ /\ \E p \in Oldest(mine) :
                cloudPending' = IF p.seen THEN cloudPending
                                ELSE (cloudPending \ {p})
                                     \cup {[p EXCEPT !.seen = TRUE, !.age = 0]}
          /\ UNCHANGED <<queue, inflight, sessionInflight, settings>>
       \/ /\ mine = {} /\ loop.snap # 0
          /\ settings' = Emit(settings, loop.snap, "ack_reason_setting")
          /\ Acknowledge(settings[loop.snap].name, loop.sid)
       \/ /\ mine = {} /\ loop.snap = 0
          /\ UNCHANGED <<queue, inflight, sessionInflight, cloudPending, settings>>
    /\ NextPart
    /\ AnswerUnchanged

Nack ==
    /\ Part("nack")
    /\ IF loop.snap = 0
       THEN UNCHANGED <<queue, inflight, sessionInflight, cloudPending, settings>>
       ELSE /\ settings' = Emit(settings, loop.snap, "nack")
            /\ Acknowledge(settings[loop.snap].name, loop.sid)
    /\ NextPart
    /\ AnswerUnchanged

------------------------------------------------------------------------------
(* The cloud.  _pipe_cloud_to_box writes a frame to the Box, drains, and    *)
(* only then tracks the setting the frame carries.                          *)

CloudForward(s, d) ==
    /\ LoopFree /\ CloudReadable(s)
    /\ cloudSent < MaxCloud
    /\ cloudSent' = cloudSent + 1
    /\ forwarding' = [forwarding EXCEPT ![s] = d]
    /\ received' = received \cup {d}
    /\ UNCHANGED <<twinVars, auditVars, session, writing, up, loop, handler>>

\* begin_cloud_setting
CloudTrack(s, dev) ==
    /\ LoopFree /\ forwarding[s] # NoForward
    /\ settings' = Append(AfterExpiry,
                          NewSetting(forwarding[s].name, forwarding[s].value, "cloud"))
    /\ cloudPending' = Live \cup
          {[aid |-> Len(settings) + 1, dev |-> dev, seen |-> FALSE, age |-> 0]}
    /\ forwarding' = [forwarding EXCEPT ![s] = NoForward]
    /\ UNCHANGED <<queue, inflight, sessionInflight, legacy, selected, injected,
                   session, writing, envVars, loop, handler>>

\* A Setting frame some field of which is missing.
CloudIncomplete(s) ==
    /\ LoopFree /\ CloudReadable(s)
    /\ cloudSent < MaxCloud
    /\ cloudSent' = cloudSent + 1
    /\ legacy' = TRUE
    /\ ExpireCloudPending
    /\ UNCHANGED <<queue, inflight, sessionInflight, selected, injected,
                   sessionVars, received, up, loop, handler>>

\* Mutant: END does not end the transaction.
CloudEndIgnored(s) ==
    /\ LoopFree /\ CloudReadable(s)
    /\ ExpireCloudPending
    /\ UNCHANGED <<queue, inflight, sessionInflight, legacy, selected, injected,
                   sessionVars, envVars, loop, handler>>

CloudEnd(s) ==
    /\ LoopFree /\ CloudReadable(s)
    /\ legacy' = FALSE
    /\ ExpireCloudPending
    /\ UNCHANGED <<queue, inflight, sessionInflight, selected, injected,
                   sessionVars, envVars, loop, handler>>

------------------------------------------------------------------------------
(* Sessions, time and the end.                                              *)

Running == {s \in Sessions : session[s] # "closed"}

Open(s) ==
    /\ LoopFree /\ session[s] = "closed"
    /\ up \/ Cardinality(Running) < MaxLate
    /\ \E kind \in {"online", "offline"} : session' = [session EXCEPT ![s] = kind]
    /\ UNCHANGED <<twinVars, auditVars, writing, forwarding, envVars, loop, handler>>

\* The cloud connection breaks under a write while the mode is offline: the
\* frames just read are answered locally before the session ends.
FallBack(s) ==
    /\ LoopFree /\ session[s] = "online" /\ writing[s] = 0
    /\ session' = [session EXCEPT ![s] = "offline"]
    /\ UNCHANGED <<twinVars, auditVars, writing, forwarding, envVars, loop, handler>>

\* Mutant: clear_session is skipped.
CloseWithoutClear(s) ==
    /\ LoopFree /\ session[s] # "closed"
    /\ session' = [session EXCEPT ![s] = "closed"]
    /\ writing' = [writing EXCEPT ![s] = 0]
    /\ forwarding' = [forwarding EXCEPT ![s] = NoForward]
    /\ UNCHANGED <<twinVars, auditVars, envVars, loop, handler>>

\* Both pipes are cancelled, then clear_session runs.
Close(s) ==
    /\ LoopFree /\ session[s] # "closed"
    /\ session' = [session EXCEPT ![s] = "closed"]
    /\ writing' = [writing EXCEPT ![s] = 0]
    /\ forwarding' = [forwarding EXCEPT ![s] = NoForward]
    /\ sessionInflight' = [sessionInflight EXCEPT ![s] = NoFlight]
    /\ settings' = IF sessionInflight[s] # NoFlight /\ inflight # NoFlight
                   THEN Emit(settings, queue[sessionInflight[s].name], "session_cleared")
                   ELSE settings
    /\ UNCHANGED <<queue, inflight, cloudPending, legacy, selected, injected,
                   envVars, loop, handler>>

Older(flight) ==
    IF flight = NoFlight \/ flight.age = Timeout THEN flight
    ELSE [flight EXCEPT !.age = @ + 1]

Tick ==
    /\ LoopFree
    /\ inflight' = Older(inflight)
    /\ sessionInflight' = [s \in Sessions |-> Older(sessionInflight[s])]
    /\ cloudPending' = {[p EXCEPT !.age = IF @ = Timeout THEN @ ELSE @ + 1] : p \in cloudPending}
    /\ UNCHANGED <<queue, legacy, auditVars, sessionVars, envVars, loop, handler>>

\* TwinDelivery.shutdown, at the end of ProxyServer.stop.  stop has waited for
\* the handlers it cancelled, but one that was accepted and had not started is
\* not among them: its session may be open here, and sessions may open later.
Shutdown ==
    /\ LoopFree /\ up
    /\ Cardinality(Running) <= MaxLate
    /\ up' = FALSE
    /\ inflight' = NoFlight
    /\ cloudPending' = {}
    /\ settings' = [a \in DOMAIN settings |->
          IF \/ inflight # NoFlight /\ queue[inflight.name] = a
             \/ \E p \in cloudPending : p.aid = a
          THEN Recorded(settings[a], "session_cleared")
          ELSE settings[a]]
    /\ UNCHANGED <<queue, sessionInflight, legacy, selected, injected,
                   sessionVars, received, cloudSent, loop, handler>>

------------------------------------------------------------------------------
HandlerStep == Supersede \/ Enqueue

LoopStep == \/ DropTimedOut \/ CheckSession \/ Select
            \/ AckTodo \/ AckEvent \/ AckReason \/ Nack

\* A table row carries the id of its device; an ACK need not.
BoxAnswers(s) ==
    \E d \in received, shape \in Shapes, sid \in {NoSession, s} :
       \E dev \in Devices \cup (IF shape = <<"event">> THEN {} ELSE {NoDevice}) :
          Answer(s, d, shape, dev, sid)

CloudStep(s) ==
    \/ \E d \in Delivery : CloudForward(s, d)
    \/ \E dev \in Devices : CloudTrack(s, dev)
    \/ CloudIncomplete(s)
    \/ CloudEnd(s)

SessionStep(s) ==
    \/ Open(s) \/ FallBack(s) \/ Close(s)
    \/ Poll(s) \/ PollOffline(s)
    \/ WriteDone(s) \/ WriteFails(s)

Next ==
    \/ \E n \in Names, v \in Values : Receive(n, v)
    \/ HandlerStep
    \/ LoopStep
    \/ \E s \in Sessions : SessionStep(s) \/ BoxAnswers(s) \/ CloudStep(s)
    \/ Tick
    \/ Shutdown

Spec == Init /\ [][Next]_vars

------------------------------------------------------------------------------
(* Fairness.  Both threads run.  The ready queue of the loop is first in,   *)
(* first out, so whatever waits for the loop again and again gets it: a     *)
(* drain that ended, the clock.  The Box keeps reconnecting and polling,    *)
(* and the cloud answers polls with END.                                    *)

Fairness ==
    /\ WF_vars(HandlerStep)
    /\ WF_vars(LoopStep)
    /\ SF_vars(Tick)
    /\ \A s \in Sessions :
          /\ SF_vars(WriteDone(s) \/ WriteFails(s))
          /\ SF_vars(\E dev \in Devices : CloudTrack(s, dev))
          /\ SF_vars(Open(s))
    /\ SF_vars(\E s \in Sessions : Poll(s) \/ PollOffline(s))
    /\ SF_vars(\E s \in Sessions : CloudEnd(s))

FairSpec == Spec /\ Fairness

------------------------------------------------------------------------------
(* Properties.                                                              *)

AuditIds == DOMAIN settings
Queued == {queue[n] : n \in Names} \ {0}

EntryTypes ==
    /\ queue \in [Names -> 0 .. Len(settings)]
    /\ inflight \in [name : Names, age : 0 .. Timeout] \cup {NoFlight}
    /\ sessionInflight \in [Sessions -> [name : Names, age : 0 .. Timeout] \cup {NoFlight}]
    /\ cloudPending \subseteq [aid : AuditIds, dev : Devices, seen : BOOLEAN, age : 0 .. Timeout]
    /\ legacy \in BOOLEAN

SettingType ==
    [name : Names, value : Values, src : {"local", "cloud"},
     last : TerminalSteps \cup {"none"}, trail : Seq(TerminalSteps)]

PollParts == {<<"drop", "session", "select">>, <<"session", "select">>,
              <<"drop", "select">>, <<"select">>}

PollLoops ==
    [parts : PollParts, at : Sessions, sid : Sessions \cup {NoSession},
     snap : 0 .. Len(settings)]

AnswerLoops ==
    [parts : Seq(AnswerParts) \ {<<>>}, name : Names, value : Values,
     dev : Devices \cup {NoDevice}, sid : Sessions \cup {NoSession},
     snap : 0 .. Len(settings)]

LoopTypes ==
    \/ loop = Idle
    \/ /\ loop \in PollLoops
       /\ loop.sid = NoSession => loop.parts \in {<<"drop", "select">>, <<"select">>}
    \/ loop \in AnswerLoops

HandlerTypes ==
    \/ handler = Waiting
    \/ handler \in [pc : {"looked_up", "marked"}, name : Names,
                     aid : AuditIds, old : 0 .. Len(settings)]

\* The type of every variable of the module (delivery.py and state.py fields).
TypeOK ==
    /\ settings \in Seq(SettingType)
    /\ EntryTypes
    /\ selected \subseteq AuditIds
    /\ injected \subseteq AuditIds
    /\ session \in [Sessions -> {"closed", "online", "offline"}]
    /\ writing \in [Sessions -> 0 .. Len(settings)]
    /\ forwarding \in [Sessions -> Delivery \cup {NoForward}]
    /\ LoopTypes
    /\ HandlerTypes
    /\ received \subseteq Delivery
    /\ cloudSent \in 0 .. MaxCloud
    /\ up \in BOOLEAN

\* The setting marked as in flight is still queued: every path of
\* delivery.py that takes a name out of the queue also clears the mark, or
\* the timeout could never find the setting it has to drop.
InflightQueued ==
    inflight # NoFlight => queue[inflight.name] # 0

\* A setting that was selected and is still queued is the one in flight.  So
\* no setting is ever selected, and written to the Box, a second time:
\* deliver_pending would otherwise repeat a command the Box may have obeyed.
\* Up to shutdown, which forgets the mark and keeps the queue.
SelectedIsInflight ==
    up => \A n \in Names : queue[n] \in selected => inflight.name = n

\* Until the server stops, deliver_pending never selects a setting it has
\* selected before.
SelectedOnce ==
    [][up => \A s \in Sessions :
          writing'[s] # writing[s] /\ writing'[s] # 0 => writing'[s] \notin selected]_vars

\* Among the terminal steps the delivery records for one setting, each is a
\* stronger confirmation than those before it: after a confirmation no nack,
\* timeout or second confirmation is recorded, whichever paths answer it.
AuditStrengthens ==
    \A a \in AuditIds : \A i, j \in DOMAIN settings[a].trail :
        /\ i < j
        /\ settings[a].trail[i] # "superseded"
        /\ settings[a].trail[j] # "superseded"
        => Strength(settings[a].trail[i]) < Strength(settings[a].trail[j])

\* What the audit calls superseded is replaced: the MQTT thread looks a setting
\* up, records SUPERSEDED for it and queues the newer one, and however the loop
\* confirms, drops or sends it in between, it gets that record once, and is not
\* in the queue unless the message that superseded it is still being handled.
Superseded(a) == \E i \in DOMAIN settings[a].trail : settings[a].trail[i] = "superseded"

SupersededIsReplaced ==
    /\ \A a \in AuditIds : \A i, j \in DOMAIN settings[a].trail :
          settings[a].trail[i] = "superseded" /\ settings[a].trail[j] = "superseded" => i = j
    /\ \A n \in Names :
          queue[n] # 0 /\ Superseded(queue[n])
          => handler.pc = "marked" /\ handler.old = queue[n]

\* The invariant behind it: the message at hand is about to supersede an older
\* setting of its name, which has no such record until it is marked.
SupersedeInv ==
    /\ SupersededIsReplaced
    /\ handler # Waiting =>
          /\ ~Superseded(handler.aid)
          /\ handler.old # 0 =>
                /\ handler.old # handler.aid
                /\ settings[handler.old].name = handler.name
                /\ handler.pc = "looked_up" => ~Superseded(handler.old)

\* A setting of the cloud leaves _cloud_pending with a terminal record: expiry,
\* a row of tbl_events, NACK and shutdown all leave one.  Two paths leave none.
\* An ACK that names the setting while inflight_setting() is another: then
\* acknowledge removes the entry and nobody records it.  And acknowledge does
\* not look at the device: what answers a setting of one device may remove the
\* entry another device has under that name.
Tracked(a) == \E p \in cloudPending : p.aid = a

NamedByAck(p) == Part("todo") /\ loop.name = settings[p.aid].name

AnswerOfOther(p) ==
    \/ Part("event") /\ loop.dev # p.dev
    \/ /\ Part("reason") \/ Part("nack")
       /\ \E q \in cloudPending : q.aid = loop.snap /\ q.dev # p.dev

CloudSettingsAudited ==
    [][\A p \in cloudPending :
          ~Tracked(p.aid)' /\ ~NamedByAck(p) /\ ~AnswerOfOther(p)
          => settings'[p.aid].trail # <<>>]_vars

\* The invariant behind it.  What was in flight when an answer came is still
\* first among the cloud's settings when a part of the answer acts on it: the
\* parts before that one only name another setting.  And _recorded_terminal
\* knows a step only of a setting that has a record.
OnlyTodoFirst(parts) == \A i \in 1 .. Len(parts) - 1 : parts[i] = "todo"

Answering == loop.parts # <<>> /\ Head(loop.parts) \in AnswerParts

AuditInv ==
    /\ \A a \in AuditIds : settings[a].last # "none" => settings[a].trail # <<>>
    /\ Answering =>
          /\ OnlyTodoFirst(loop.parts)
          /\ cloudPending # {} => \E p \in Oldest(cloudPending) : p.aid = loop.snap

\* A poll of an online session selects no setting while one of the cloud waits
\* for its answer, although the look at the cloud is three checks back; a poll
\* of an offline session does not look (CloudHasPriority).
OnlineWaitsForCloud ==
    [][selected' # selected /\ loop.sid # NoSession => ~legacy /\ cloudPending = {}]_vars

\* The invariant behind it: what an online poll saw of the cloud before its first
\* check holds until its last, for no other frame is handled in between.
PollInv ==
    /\ loop.parts # <<>> /\ Head(loop.parts) \in {"drop", "session", "select"}
    /\ loop.sid # NoSession
    => ~legacy /\ cloudPending = {}

\* The inductive invariant behind InflightQueued, SelectedIsInflight and
\* AuditStrengthens.  Beyond them it says that a name queues only settings of
\* that name, that the setting the MQTT thread is about to queue is new to the
\* delivery, and that the last step the collector remembers is the strongest.
QueueNames ==
    \A n \in Names : queue[n] # 0 => settings[queue[n]].name = n

HandlerFresh ==
    handler # Waiting =>
        /\ handler.aid \notin selected
        /\ \A n \in Names : queue[n] # handler.aid
        /\ settings[handler.aid].name = handler.name

TrailInOrder(s) ==
    /\ \A i \in DOMAIN s.trail :
          \/ s.trail[i] = "superseded"
          \/ s.last # "none" /\ Strength(s.trail[i]) <= Strength(s.last)
    /\ \A i, j \in DOMAIN s.trail :
          /\ i < j /\ s.trail[i] # "superseded" /\ s.trail[j] # "superseded"
          => Strength(s.trail[i]) < Strength(s.trail[j])

IndInv ==
    /\ TypeOK
    /\ \A a \in AuditIds : TrailInOrder(settings[a])
    /\ QueueNames
    /\ HandlerFresh
    /\ InflightQueued
    /\ SelectedIsInflight

\* Only a session that is open blocks itself with an entry of
\* _session_inflight: clear_session runs however the session ends.
EntriesOfOpenSessions ==
    \A s \in Sessions : sessionInflight[s] # NoFlight => session[s] # "closed"

\* The setting that is out: the one in flight, unless another one has taken
\* its place in the queue since it was selected.
SettingOut ==
    IF inflight # NoFlight /\ queue[inflight.name] \in selected
    THEN queue[inflight.name] ELSE 0

\* Settings received over MQTT that are not in the queue any more; the one the
\* MQTT thread is handling is not there yet.
Gone ==
    {a \in AuditIds :
        /\ settings[a].src = "local"
        /\ a \notin Queued
        /\ handler # Waiting => handler.aid # a}

Queue == INSTANCE SettingQueue WITH
            held <- queue, out <- SettingOut, past <- Gone, open <- up

\* The delivery keeps the promise of SettingQueue, whatever the two threads,
\* the sessions, lost writes, late answers and timeouts do: the oldest setting
\* goes out, one at a time (the comment at delivery.py:43), and none comes back
\* once it has left the queue.
ImplementsQueue == Queue!QueueSpec

\* Every name is again and again free in the queue, unless the proxy stops:
\* no mark left in flight, by whichever session, blocks the queue for ever.
QueueDrains ==
    \A n \in Names : queue[n] # 0 ~> (queue[n] = 0 \/ ~up)

------------------------------------------------------------------------------
(* What the documentation says and the code does not do.                    *)

\* docs/v2/twin.md, acknowledge: "removes a setting from the queue after the
\* Box confirms it", so what an answer removes has been written to the Box.
AnsweredWasSelected ==
    [][\A n \in Names :
          queue[n] # 0 /\ queue'[n] = 0 => queue[n] \in selected]_vars

\* docs/v2/twin.md, Box Write Failure: "The setting remains in the queue and
\* will be re-attempted", so a setting that times out has been written.
TimeoutAfterInjection ==
    \A a \in AuditIds : \A i \in DOMAIN settings[a].trail :
        settings[a].src = "local" /\ settings[a].trail[i] = "timeout" => a \in injected

\* docs/v2/twin.md, Lifecycle Flow: a record becomes superseded when a newer
\* setting arrives "before the earlier one is confirmed".
SupersededUnconfirmed ==
    \A a \in AuditIds : \A i, j \in DOMAIN settings[a].trail :
        settings[a].trail[i] \in Confirming /\ settings[a].trail[j] = "superseded" => j < i

\* twin/delivery.py, TwinDelivery: "Cloud-initiated settings take priority
\* over local queue", so none waits when a local setting is selected.
CloudHasPriority ==
    [][selected' # selected => ~legacy /\ cloudPending = {}]_vars
==============================================================================
