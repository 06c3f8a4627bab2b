---------------------------- MODULE AppLifecycle ----------------------------
(***************************************************************************)
(* The life of the process: ProxyApp.startup, run and shutdown of main.py, *)
(* ProxyServer.start and stop, the id of the Box that _on_frame learns     *)
(* (device_id.py), the tcpdump child (capture/pcap_capture.py) and the     *)
(* frame recorder FrameCapture.                                            *)
(*                                                                         *)
(* One step is what the event loop does between two suspensions.  The      *)
(* handlers of connections and the background tasks run in between.        *)
(***************************************************************************)
EXTENDS FrameCapture, FiniteSets

CONSTANTS
    Conns,     \* connections of the Box
    Boxes,     \* device ids
    Applies,   \* apply_proxy_mode tasks that control messages start, at any time
    None,      \* no device id
    Broken     \* a file that is not JSON

\* The tasks that startup creates, and with them all that _tasks and
\* _health_task may hold.
Parts == {"health", "status", "telemetry"}
Tasks == Parts \cup Applies

ASSUME LifecycleAssumption ==
    /\ {None, Broken} \cap Boxes = {} /\ None # Broken
    /\ Parts \cap Applies = {}

Stages == {"off", "connecting", "binding", "running", "health", "server", "collector",
           "tasks", "recorder", "done", "exiting"}

VARIABLES
    stage,      \* where the main coroutine waits, see the actions
    tasks,      \* task of ProxyApp -> "none", "running", "cancelled"
    listening,  \* the server accepts connections
    handlers,   \* connection -> "none", "accepted", "active", "cancelled"
    deviceFile, \* device_id.json: None, Broken or an id
    deviceId,   \* DeviceIdManager._device_id
    tcpdump     \* the child runs

mainVars == <<stage, tasks, listening>>
deviceVars == <<deviceFile, deviceId>>
vars == <<captureVars, mainVars, handlers, deviceVars, tcpdump>>

------------------------------------------------------------------------------
Init ==
    /\ CaptureInit
    /\ stage = "off"
    /\ tasks = [t \in Tasks |-> "none"]
    /\ listening = FALSE
    /\ handlers = [c \in Conns |-> "none"]
    /\ deviceFile = None /\ deviceId = None
    /\ tcpdump = FALSE

\* The loop runs handlers and tasks: it is not blocked in FrameCapture.stop.  It
\* goes on when shutdown has returned, until asyncio.run has nothing to wait for.
LoopRuns == stage \notin {"off", "recorder"}

(* Startup. *)

\* The process starts: DeviceIdManager.load, then MQTTClient.connect in an
\* executor, which the coroutine waits for.
Boot ==
    /\ stage = "off" /\ starts < MaxStarts
    /\ stage' = "connecting"
    /\ deviceId' = IF deviceFile \in Boxes THEN deviceFile ELSE None
    /\ UNCHANGED <<captureVars, tasks, listening, handlers, deviceFile, tcpdump>>

\* With or without MQTT, the status and telemetry tasks, the recorder and
\* tcpdump are started, in this order; then the server binds its port.
StartParts ==
    /\ stage = "connecting"
    /\ stage' = "binding"
    /\ tasks' = [tasks EXCEPT !["status"] = "running", !["telemetry"] = "running"]
    /\ StartCapture
    /\ tcpdump' \in BOOLEAN
    /\ UNCHANGED <<listening, handlers, deviceVars>>

\* The port is bound; the health check is the last part to start.
Listen ==
    /\ stage = "binding"
    /\ stage' = "running"
    /\ listening' = TRUE
    /\ tasks' = [tasks EXCEPT !["health"] = "running"]
    /\ UNCHANGED <<captureVars, handlers, deviceVars, tcpdump>>

------------------------------------------------------------------------------
(* Shutdown. *)

\* The stop signal: the health check is cancelled first.
ShutdownBegins ==
    /\ stage = "running"
    /\ stage' = "health"
    /\ tasks' = [tasks EXCEPT !["health"] = "cancelled"]
    /\ UNCHANGED <<captureVars, listening, handlers, deviceVars, tcpdump>>

\* Mutant: wait_closed waits for the connections, as from Python 3.12.1 on.
StopServerWaits ==
    /\ stage = "health" /\ tasks["health"] = "none"
    /\ \A c \in Conns : handlers[c] = "none"
    /\ stage' = "server"
    /\ listening' = FALSE
    /\ UNCHANGED <<captureVars, tasks, handlers, deviceVars, tcpdump>>

\* ProxyServer.stop: no more connections; handlers that have registered
\* themselves are cancelled, one that was accepted but has not run is not.
StopServer ==
    /\ stage = "health" /\ tasks["health"] = "none"
    /\ stage' = "server"
    /\ listening' = FALSE
    /\ handlers' = [c \in Conns |-> IF handlers[c] = "active" THEN "cancelled" ELSE handlers[c]]
    /\ UNCHANGED <<captureVars, tasks, deviceVars, tcpdump>>

\* The cancelled handlers have ended; the telemetry task is cancelled.
StopCollector ==
    /\ stage = "server"
    /\ \A c \in Conns : handlers[c] # "cancelled"
    /\ stage' = "collector"
    /\ tasks' = [tasks EXCEPT !["telemetry"] = "cancelled"]
    /\ UNCHANGED <<captureVars, listening, handlers, deviceVars, tcpdump>>

\* Every task that runs is cancelled.
CancelAll == [t \in Tasks |-> IF tasks[t] = "running" THEN "cancelled" ELSE tasks[t]]

\* The tasks that are in _tasks now are cancelled and waited for.
StopTasks ==
    /\ stage = "collector" /\ tasks["telemetry"] = "none"
    /\ stage' = "tasks"
    /\ tasks' = CancelAll
    /\ UNCHANGED <<captureVars, listening, handlers, deviceVars, tcpdump>>

\* Mutant: the tasks are not waited for.
StopRecorderAtOnce ==
    /\ stage = "tasks"
    /\ stage' = "recorder"
    /\ StopBegins
    /\ tcpdump' = FALSE
    /\ UNCHANGED <<tasks, listening, handlers, deviceVars>>

\* Mutant: the recorder stops before the tasks have ended, and the loop goes on.
StopRecorderEarly ==
    /\ stage = "tasks" /\ caller = "running"
    /\ StopBegins
    /\ tcpdump' = FALSE
    /\ UNCHANGED <<mainVars, handlers, deviceVars>>

\* The cancelled tasks have ended, and one that came after them is forgotten
\* (_tasks.clear): the control handler, tcpdump (SIGTERM, then SIGKILL) and the
\* recorder stop without another suspension.
StopRecorder ==
    /\ stage = "tasks"
    /\ \A t \in Tasks : tasks[t] # "cancelled"
    /\ stage' = "recorder"
    /\ StopBegins
    /\ tcpdump' = FALSE
    /\ UNCHANGED <<tasks, listening, handlers, deviceVars>>

\* The recorder has stopped; MQTT is disconnected and the coroutine returns.
ShutdownEnds ==
    /\ stage = "recorder" /\ caller = "stopped"
    /\ stage' = "done"
    /\ UNCHANGED <<captureVars, tasks, listening, handlers, deviceVars, tcpdump>>

\* asyncio.run cancels all that is left.  A connection may be accepted and not
\* have its task yet, which is then not cancelled.
ExitBegins ==
    /\ stage = "done"
    /\ stage' = "exiting"
    /\ tasks' = CancelAll
    /\ \E unborn \in SUBSET {c \in Conns : handlers[c] = "accepted"} :
          handlers' = [c \in Conns |->
              IF handlers[c] = "none" \/ c \in unborn THEN handlers[c] ELSE "cancelled"]
    /\ UNCHANGED <<captureVars, listening, deviceVars, tcpdump>>

\* _schedule: a control message starts a task that applies its mode.  The MQTT
\* thread can have queued it before shutdown disconnects.
ApplyStarts(t) ==
    /\ LoopRuns /\ stage # "connecting" /\ tasks[t] = "none"
    /\ tasks' = [tasks EXCEPT ![t] = "running"]
    /\ UNCHANGED <<captureVars, stage, listening, handlers, deviceVars, tcpdump>>

\* The mode is applied.
ApplyEnds(t) ==
    /\ LoopRuns /\ tasks[t] = "running"
    /\ tasks' = [tasks EXCEPT ![t] = "none"]
    /\ UNCHANGED <<captureVars, stage, listening, handlers, deviceVars, tcpdump>>

\* A task that was cancelled ends where it waits.
TaskEnds(t) ==
    /\ LoopRuns /\ tasks[t] = "cancelled"
    /\ tasks' = [tasks EXCEPT ![t] = "none"]
    /\ UNCHANGED <<captureVars, stage, listening, handlers, deviceVars, tcpdump>>

\* What is left when the process is gone, with or without shutdown.  The
\* container takes tcpdump with it.
ProcessGone ==
    /\ CaptureDies
    /\ stage' = "off"
    /\ tasks' = [t \in Tasks |-> "none"]
    /\ listening' = FALSE
    /\ handlers' = [c \in Conns |-> "none"]
    /\ deviceId' = None
    /\ tcpdump' = FALSE

\* What asyncio.run has cancelled has ended.
ProcessExits ==
    /\ stage = "exiting"
    /\ \A t \in Tasks : tasks[t] # "cancelled"
    /\ \A c \in Conns : handlers[c] # "cancelled"
    /\ ProcessGone
    /\ UNCHANGED deviceFile

\* A crash, a signal before run has installed its handlers, a port in use.
Crash == stage \notin {"off", "connecting"} /\ ProcessGone /\ UNCHANGED deviceFile

------------------------------------------------------------------------------
(* Connections and frames. *)

\* A connection is accepted; its handler is a task that has not run yet.
Accept(c) ==
    /\ LoopRuns /\ listening /\ handlers[c] = "none"
    /\ handlers' = [handlers EXCEPT ![c] = "accepted"]
    /\ UNCHANGED <<captureVars, mainVars, deviceVars, tcpdump>>

\* The handler starts and registers itself.
Register(c) ==
    /\ LoopRuns /\ handlers[c] = "accepted"
    /\ handlers' = [handlers EXCEPT ![c] = "active"]
    /\ UNCHANGED <<captureVars, mainVars, deviceVars, tcpdump>>

\* The connection ends, or the cancelled handler has cleaned up.
HandlerEnds(c) ==
    /\ LoopRuns /\ handlers[c] \in {"active", "cancelled"}
    /\ handlers' = [handlers EXCEPT ![c] = "none"]
    /\ UNCHANGED <<captureVars, mainVars, deviceVars, tcpdump>>

\* Mutant: the id is set before the file is written.
SaveEarly(b) ==
    /\ deviceId' = b
    /\ deviceFile' \in {deviceFile, Broken, b}

\* DeviceIdManager.save: opening the file fails, writing fails, or it is saved.
Save(b) ==
    \/ deviceFile' \in {deviceFile, Broken} /\ deviceId' = deviceId
    \/ deviceFile' = b /\ deviceId' = b

\* Mutant: a frame of another Box replaces the id.
LearnAlways(b) == IF deviceId # b THEN Save(b) ELSE UNCHANGED deviceVars

\* _on_frame: the first frame gives the id; frames of other Boxes are dropped.
Learn(b) == IF deviceId = None THEN Save(b) ELSE UNCHANGED deviceVars

\* A frame of Box b, or without an id, is captured and handled.
Frame(c) ==
    /\ LoopRuns /\ handlers[c] = "active"
    /\ Capture
    /\ UNCHANGED deviceVars \/ \E b \in Boxes : Learn(b)
    /\ UNCHANGED <<mainVars, handlers, tcpdump>>

\* A crash in the middle of a save, when the file has been truncated.
CrashInSave(c) ==
    /\ LoopRuns /\ handlers[c] = "active" /\ deviceId = None
    /\ ProcessGone
    /\ deviceFile' = Broken

\* tcpdump exits by itself, which the monitor task notices within five seconds.
TcpdumpExits ==
    /\ tcpdump
    /\ tcpdump' = FALSE
    /\ UNCHANGED <<captureVars, mainVars, handlers, deviceVars>>

\* The steps of the recorder, with the rest unchanged.
Recorder ==
    /\ WriterStep \/ StopStep
    /\ UNCHANGED <<mainVars, handlers, deviceVars, tcpdump>>

Main ==
    \/ StartParts \/ Listen
    \/ StopServer \/ StopCollector \/ StopTasks \/ StopRecorder \/ ShutdownEnds
    \/ ExitBegins \/ ProcessExits

Next ==
    \/ Boot \/ Main \/ ShutdownBegins
    \/ \E t \in Tasks : TaskEnds(t)
    \/ \E t \in Applies : ApplyStarts(t) \/ ApplyEnds(t)
    \/ \E c \in Conns : Accept(c) \/ Register(c) \/ HandlerEnds(c) \/ Frame(c) \/ CrashInSave(c)
    \/ Crash \/ TcpdumpExits \/ Recorder

\* What the loop has to do comes about: the main coroutine goes on when what it
\* waits for is there, what was cancelled ends, FrameCapture.stop returns.
Progress ==
    \/ Main
    \/ \E t \in Tasks : TaskEnds(t)
    \/ \E c \in Conns : handlers[c] = "cancelled" /\ HandlerEnds(c)
    \/ StopStep /\ UNCHANGED <<mainVars, handlers, deviceVars, tcpdump>>
Writes == WriterStep /\ UNCHANGED <<mainVars, handlers, deviceVars, tcpdump>>

\* Both threads run.
Fairness == WF_vars(Progress) /\ WF_vars(Writes)

Spec == Init /\ [][Next]_vars /\ Fairness

------------------------------------------------------------------------------
(* Properties.                                                              *)

TypeOK ==
    /\ CaptureTypeOK
    /\ stage \in Stages
    /\ tasks \in [Tasks -> {"none", "running", "cancelled"}]
    /\ listening \in BOOLEAN
    /\ handlers \in [Conns -> {"none", "accepted", "active", "cancelled"}]
    /\ deviceFile \in Boxes \cup {None, Broken}
    /\ deviceId \in Boxes \cup {None}
    /\ tcpdump \in BOOLEAN

\* When shutdown returns, the tasks of startup and every task and handler that
\* shutdown has cancelled are gone, so is tcpdump, and FrameCapture.stop has
\* returned.  An apply_proxy_mode task or a handler that started after the others
\* had been cancelled may be left to asyncio.run, and a writer that
\* FrameCapture.stop has given up waiting for.
NothingOutlivesShutdown ==
    stage = "done" =>
        /\ \A t \in Parts : tasks[t] = "none"
        /\ \A t \in Applies : tasks[t] # "cancelled"
        /\ \A c \in Conns : handlers[c] # "cancelled"
        /\ ~tcpdump /\ caller = "stopped"

\* The id in use is the one in the file, so a restart, also after a crash in the
\* middle of a save, comes back with the same id or learns it anew.
KnownIdIsStored == deviceId # None => deviceFile = deviceId

\* The proxy never changes from one Box to another, across crashes and restarts.
BoxIsFinal == [][(deviceFile \in Boxes) => deviceFile' = deviceFile]_vars

\* Once shutdown has begun the process ends.
ShutdownCompletes == stage = "health" ~> stage = "off"
=============================================================================
