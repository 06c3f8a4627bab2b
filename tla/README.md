# Verification of OIG Proxy v2

OIG Proxy sits between a solar inverter ("the Box") and its vendor's cloud. It
forwards XML frames between the two, answers the Box itself when the cloud is
away, publishes what the Box reports over MQTT, and injects settings received
over MQTT into the Box's polls. These modules model its control logic, TLC
checks them on small instances and TLAPS proves theorems about them. All paths
below are under `addon/oig-proxy/` unless they start with `docs/`.

## The system

| part | state | operations | runs on |
|---|---|---|---|
| `twin/state.py` TwinQueue | one setting per (table, key), in order of arrival | enqueue, get, get_pending, acknowledge | both threads, without a lock of its own |
| `twin/handler.py` | none | an MQTT message becomes a queued setting, or is rejected | paho thread |
| `twin/delivery.py` TwinDelivery | one global mark in flight, one per session, settings of the cloud, a legacy flag, recorded terminal steps, two id counters | deliver_pending, acknowledge, begin/mark/match of cloud settings, expiry, ids, clear_session, shutdown | asyncio loop |
| `proxy/server.py` ProxyServer | connection count, connected flags, tasks | accept, dial, pipe, answer locally, twin hooks, stop | asyncio loop, a task per connection and pipe |
| `proxy/mode.py` ModeManager | configured and runtime mode, fail count, offline flag and time | record_failure, record_success, apply_configured_mode, should_try_cloud | asyncio loop |
| `main.py` ProxyApp | owns the parts | startup, shutdown, frames handed on, runtime mode changes | asyncio loop |
| `mqtt/client.py` | the current paho client, one flag, devices announced and discovered, subscriptions | connect, health check, publish, discovery, disconnect | loop, executor, a thread per paho client |
| `mqtt/status.py` | time of the last frame | record_frame, periodic publication | loop |
| `sensor/` | last values of each table, number of battery banks | process a table, mirror, publish | loop |
| `telemetry/collector.py` | deques of the current window, log bursts | record, collect, clear | loop, MQTT and logging threads |
| `telemetry/client.py` | paho client, SQLite buffer, backoff | send, store, flush, clean up | executor threads |
| `capture/frame_capture.py` | bounded queue, batch, SQLite file | capture, commit, prune, stop | loop and one thread |
| `capture/pcap_capture.py`, `device_id.py` | one child process; one file | start, stop; load, save, validate | loop |
| `protocol/`, `proxy/local_ack.py`, `proxy/dns_resolve.py`, `settings_constraints.py` | none | pure functions | |

**Interaction.** The pipes of a connection parse every frame and call the twin
hooks of the server, which call TwinDelivery, which reads the TwinQueue that the
MQTT thread fills. A dial or a write to the cloud that fails is reported to
ModeManager, which decides whether the next connection tries the cloud. Every
frame also goes to ProxyApp, which learns the Box's id from it, records it, and
has the sensor processor publish its values. The status and the telemetry read
what the others keep. `proxy_control` messages travel from the MQTT thread to
the loop and change the mode.

**What is hard.** Two threads share the queue between a look-up and what is done
with it. Every write to the Box suspends a coroutine, so a Setting can be
answered before it is recorded as written. Answers name a setting, or name none,
come late or twice, and may be about a value that has been replaced. Marks in
flight must not outlive their reason, or the queue stops for ever. Several
connections share one count, two flags and the mode. Several paho clients share
one flag and one client id, and a broker may come back empty. Telemetry and the
frame recorder pass data between threads, files and a remote broker, any of
which may stop. Shutdown runs while handlers still start. `PROJECT.json` lists
each hazard at its line.

**What makes each part correct.** Delivery: until the server stops a setting is
sent at most once, a mark always has its setting, each audit trail only grows
stronger, the queue always drains. Sessions: the limit holds, the flags are true.
Mode: `runtime_mode` and `is_offline` agree, the cloud is tried exactly when the
policy says so, hybrid recovers. Forwarding: however TCP cuts the stream, each frame is
handled once and reaches the cloud in order, and an id drawn from a counter comes
after all the pipes have noted. MQTT: what counts as announced is at the broker. Telemetry: nothing is lost
but where the code gives it up, the oldest first. Recorder: each frame once, the
queue drained by stop. Life cycle: shutdown ends what startup created and what it
cancels, the Box's id is final and stored.

## Modules

| module | models | role |
|---|---|---|
| `TwinDelivery`, `MCTwinDelivery` | `twin/*.py`, the twin hooks of `proxy/server.py` | settings from MQTT or the cloud to the Box and back |
| `SettingQueue` | what `twin/state.py` and the comment at `twin/delivery.py:43` promise of accepted settings | an abstract specification; `TwinDelivery` refines it |
| `CloudGate` | what docs/v2/proxy_modes.md says of the modes | an abstract specification |
| `ModeManager` | `proxy/mode.py` | the mode manager; refines `CloudGate` |
| `BoxSessions`, `MCBoxSessions` | `_handle_box_connection`, `_run_box_offline_session` | connections, composed with `ModeManager` |
| `BoxPipe` | `_pipe_box_to_cloud`, `extract_frame_from_buffer` | the Box's stream cut into frames and forwarded |
| `FrameIds` | the id counters of `twin/delivery.py` | ids of injected frames |
| `PipeIds` | both pipes and the hook for IsNewSet | `BoxPipe` composed with `FrameIds` |
| `MqttLink` | `mqtt/client.py`, start and stop of the control handler | the link to the broker |
| `TelemetryClient` | `telemetry/client.py` | publication, store and forward |
| `Telemetry` | `telemetry/collector.py` and its loop | windows and bursts, composed with the client |
| `FrameCapture` | `capture/frame_capture.py` | queue, writer thread, file |
| `AppLifecycle` | `main.py`, `ProxyServer.start/stop`, `device_id.py`, `capture/pcap_capture.py` | the process, composed with the recorder |
| `BoxFrames`, `MCBoxFrames` | `sensor/processor.py`, `mqtt/status.py`, `_on_frame`, `_on_confirmed_setting` | what frames leave in the retained states |
| `*_proofs` | | eight modules of theorems, see Proofs |

Definitions whose comment begins with "Mutant" are wrong on purpose: they are
what a bug would make of the definition they precede, and `PROJECT.json` names the
property that notices each.

### TwinDelivery

A setting is its audit id, a position in `settings`; the record there holds name,
value, origin, the last step the delivery remembers (`_recorded_terminal`) and
the trail of terminal steps emitted. `queue` maps each name to the queued audit
id (0: none); the least id is the oldest entry, because ids grow with
`enqueued_at`. `inflight` is `_inflight_key` with the age of `_inflight_since`,
`sessionInflight` is `_session_inflight`, `cloudPending` the entries of
`_cloud_pending`, `legacy` is `_cloud_legacy_inflight`.

* **MQTT thread**: `Receive` (record INCOMING, look the name up), `Supersede`,
  `Enqueue`: three steps, because the loop may run between them.
* **Loop**: `Poll`, `PollOffline` and `Answer` start the handling of a frame.
  `loop.parts` is what is left of it: `DropTimedOut`, `CheckSession`, `Select`
  for a poll (the three checks of `deliver_pending`), `AckTodo`, `AckEvent`,
  `AckReason`, `Nack` for an answer. Only the MQTT thread runs between the
  parts. `Select` leaves the frame in `writing`; `WriteDone` or `WriteFails` is
  the end of its drain, and in between everything else may run. In the same way
  `CloudForward` writes a frame of the cloud and `CloudTrack` runs after the
  drain.
* **Sessions and time**: `Open`, `FallBack`, `Close` (with `clear_session`), `Tick`,
  `Shutdown`. `stop` cancels and awaits only the handlers that have registered, so
  up to `MaxLate` sessions are open when it calls `TwinDelivery.shutdown`, or open
  after it, and go on as before.

The Box answers anything it has received, late, repeatedly, in any of the forms
the code tells apart; an answer may also reach the pipe from the cloud. Whatever
calls `_expire_cloud_pending` in the code does so in the same step of the model.

`SettingQueue` says what this is for: one setting per name, a newer one replaces
the older, the oldest is sent first, nothing comes back (`twin/state.py`), and one
is out at a time. The last is the promise of the code ("only one setting is
in-flight per TCP session", `twin/delivery.py:43`, which the global mark makes one
for the proxy); docs/v2/twin.md says otherwise, see the differences below. When the server
stops, what is out is only held, and may be sent again by a session that is still
there. Its
`held` is `queue`, its `out` the setting in flight as long as that has not been
replaced (`SettingOut`), its `past` the settings that were queued and no longer are
(`Gone`). A name whose setting was replaced in flight stays blocked in the code
although nothing is out; the abstract specification need not send either.

Abstracted: table and key are one name; times are ages that stop at `Timeout`;
the bytes of frames. Left out: rejected MQTT messages, the replay file
`/data/replay_setting_frame.xml`. Assumed: clocks are not set back; rows of
`tbl_events` carry a device id; the telemetry collector is present.

### ModeManager, CloudGate and BoxSessions

`ModeManager` has one action per operation; `offlineAge` and `failCount` stop
where the code can no longer tell. `CloudGate` says what a connection meets: a
gate that is open, shut, ajar for a probe, or locked. `ModeManager` refines it by
`GateState`.

`BoxSessions` extends `ModeManager`. `phase` says at which await each handler
is: rejecting, dialing, closing after a failed dial, offline, online, ending.
`count`, `boxConnected` and `cloudConnected` are the server's fields. The cloud
goes up and down freely and the configured mode may change at any time. Left
out: cancellation (see `AppLifecycle`), the local GetActual timer, and the branch
for missing streams after a successful connect, which asyncio never takes.

### BoxPipe, FrameIds and PipeIds

The Box's stream is a row of positions, four to a frame: body, end tag, CR, LF.
These are the points at which a cut between two reads makes a difference to
`extract_frame_from_buffer`. A `Read` takes any number of positions that are
left. `kept` and `taken` delimit the buffer, `forward` and `withheld` are
`forward_chunks` and `withheld_chunks`, `handled` is what the twin hooks and the
MQTT side were given, `cloud` what was written. `Collect` and `Inject` handle one
frame, `Flush` and `FlushFails` end the read. Which frames are polls is chosen
at the start, and whether one is answered is left open, because that is decided
in `TwinDelivery`. Left out: bytes that are no frames, and frames whose line ends
are missing or other than CR LF. The pipe from the cloud writes every read before
it parses it and so passes the stream on unchanged.

`FrameIds` holds the two counters. The clock is any number up to `MaxId` at every
use, so it may stand still, run back, or be behind the cloud. It speaks of ids
that a counter gives or notes: not of the random message id of a Setting injected
for IsNewSet, nor of the Box's ids in a session without cloud. `PipeIds` lets the
frames of both pipes be noted and polls be answered in any order, in one loop.

### MqttLink

`thread` is the set of paho clients whose network thread runs, `net` where each of
them is: joining (accepted by the broker), greeting (in `on_connect`, flag set),
up, lost (`on_disconnect` still to run). `client` and `connected` are the fields
of MQTTClient. `online` and `discovery` are what the broker retains, `announced` and
`discovered` what the client believes it has sent. All clients have one client
id: the broker drops the older connection, and both reconnect. The broker may
come back empty. `StartHandler`, `Disconnect` are the parts of
`main.py` that use it. A client that neither runs nor is current is garbage and
its name is used again, so `Clients` bounds only how many live at a time. Left
out: connections refused with a code, messages queued in a client without a
connection, topic matching, payloads.

### Telemetry and TelemetryClient

A payload is the set of records it carries. `window` are the deques, `copied` the
lists `collect_metrics` makes of them, before they are cleared in a later step.
`Record` and `Mark` are the two halves of `record_setting_audit_step`, which the
MQTT thread runs between any steps of the loop. `burst`, `settingNow`,
`settingNext`, `force`, `active`, `include` are the fields that decide whether logs go
along. `logError` is `log_error`: one record that cannot be formatted (`Warn`,
`Malformed`) sets it for good, and no later warning starts a burst. `Mark`, the three
stores after the append, is one step, because CPython 3.11 lets another thread in
only at calls and backward jumps. In the client, `job` is the line a send is at; `buffer` the table, oldest
message first; `outbox` what a paho client has accepted and not delivered;
`session` and `flag` its connection as it is and as the code sees it. A stalled
broker (`slow`) accepts and never answers. `gone` collects what the code gives up,
where it gives it up. Left out: statistics, request matching, the contents of the
log ring, SQLite errors. Assumed: the wall clock does not run back.

### AppLifecycle and FrameCapture

`stage` is where the main coroutine waits. `handlers` distinguishes a connection
that is accepted from one whose handler has registered itself, because `stop`
cancels only the latter. `tasks` are the three tasks of startup and `Applies`, the
`apply_proxy_mode` tasks that control messages add to `_tasks` at any time, also while
`shutdown` awaits those it has cancelled. `late` are frames queued behind the
Sentinel. After `done`, `asyncio.run` cancels what is left (`exiting`), while the loop
goes on. `deviceFile` may be broken by a crash within a save.
`FrameCapture` numbers frames in the order of `capture`; `queue`, `batch` and
`stored` are what has not been taken, not been committed, and is in the file;
`gone` is what was dropped by a full queue, a rollback, pruning or a crash.
Assumed: all optional parts are enabled; the interpreter is 3.11, as in
CI, where `Server.wait_closed` does not wait for connections; the
device file is readable; the container ends tcpdump with the process. A port that
cannot be bound is one of the `Crash` cases.

### BoxFrames

`last` is `_last_table_values`, `shown` what the broker retains, a frame carries
any part of the keys of its table, and the broker takes any of the publications.
"mirror" is one table that shares keys with `tbl_actual`, "prms" is `tbl_batt_prms`,
whose frames may also name the number of battery banks (`BankFrame`), "prm1" and "prm2"
are the banks. `source` says which of the two tables wrote a shared key last. The sensor map is `KeysOf`. One process: the values known start
empty and the states of an earlier process are not considered. Left out:
formatting, unmapped keys, decoding of warnings.

## Runs

| run | asks | distinct states |
|---|---|---|
| `twin_local` | two local settings, two sessions, all answers: a mark has its setting, a selected setting its mark, no session entry outlives its session, what is superseded is replaced, the promise of `SettingQueue`; one session may outlive the stop | 1.3 M |
| `twin_cloud` | two cloud settings and a local one, two devices, all answers: cloud settings leave with a record, trails strengthen, online polls wait for the cloud | 1.7 M |
| `twin_live`, `twin_live_cloud` | the queue drains, without and with settings of the cloud | 85 k, 45 k |
| `sessions` | three connections for two slots: limit, flags, `runtime_mode` against `is_offline`, the promise of `CloudGate`, the window after a failed dial, recovery of hybrid | 16 k |
| `pipe` | three frames, every way to cut them: each is handled once, the cloud misses none and gets them in order, the ids the counters give are fresh | 1.4 M |
| `mqtt` | two paho clients, a broker that restarts empty: devices announced are online, discovery is retained, an outage is noticed | 50 k |
| `lifecycle` | two starts, crashes anywhere, modes applied at any time: recorder, device id, shutdown that completes and leaves nothing it has cancelled | 736 k |
| `telemetry` | one record, its command and warnings, one that cannot be formatted, a broker that stalls, crashes: nothing lost, bursts shown, the buffer bounded and drained | 813 k |
| `frames` | three frames with some of their keys and refused publications: states complete, mirrors agree, a silent Box is reported | 125 k |
| `v_answered`, `v_reconnect` | two sentences of the documentation the code contradicts | |

**Bounds.** *Twin.* `Timeout = 1`: an age only separates "not yet" from "expired",
and a tick may come before or after any step. Two local settings are enough to
supersede, to queue behind another name, and to mistake one for the other;
`MaxCloud = 2` gives an oldest entry and another one. Two sessions cover a poll on
one and an answer on, or the end of, the other. One value suffices, since values
only decide which of two cloud entries of one name an event matches. Two
devices where there are settings of the cloud, so that an answer may come from the
other one. `MaxLate` is 1, and 0 in `twin_cloud`, whose properties are theorems for
every value of it. The liveness runs use one
session and rows of `tbl_events` only, the answer that ends the tracking of a
setting: other answers would only drain sooner. *Sessions.* Three connections and
two slots let one handler be rejected while others dial, pipe and end;
`Threshold` and `Retry` of 2 leave room for a stale failure after a success and
inside a window. *Pipe.* Three frames put a frame that is cut between two others;
ids up to 2 let the clock be behind, at and ahead of a counter. *MQTT.* Two
clients are the one the health check made and the one it left behind; two
devices are the one the connection announces and another. *Life cycle.* A queue of
one and batches of two: the queue is full, empty, or holds the sentinel, and a
batch is full or not. Two starts, two connections, two Boxes, one task that applies
a mode. *Telemetry.* A table
of two messages and flushes of one: the limit is passed by one message and a
flush ends with messages left. *Frames.* Three frames: one to fill a table, one for
its mirror, one to overtake. `CHECK_DEADLOCK FALSE` stands where the system stops: when the
pipe or the last process has ended, or when the bounds are used up.

**Fairness.** *Twin.* `HandlerStep` and `LoopStep` are weakly fair: both threads run.
The loop's ready queue is first in, first out, so what waits for it (`Tick`, the end
of a drain, `CloudTrack`, `Open`) gets it although other frames compete: strong
fairness. A drain ends or fails by the TCP timeouts. The Box polls and
reconnects again and again, and the cloud ends its transactions with END; both
are what the protocol documentation describes, and `QueueDrains` needs them. It
claims nothing once the server has stopped.
*Sessions.* A dial ends by its timeout, the Box ends local sessions and
reconnects; nothing forces an online session to end. `Recovers` excludes the
case in which every slot has leaked (see below). *MQTT.* Network threads and the
health check run and the wait of `connect` is bounded; nothing is assumed of the
broker. *Telemetry.* Loop, send, network thread and clock run; nothing is assumed of
the broker, of what is recorded, or of crashes, and `BufferDrains` asks only for a
broker and a process that stay up from some time on. *Life cycle.* The loop and the
writer thread run. *Frames.* The status is published every few seconds, and of
infinitely many publications the broker takes one.

## Proofs

The assumptions are the named ASSUMEs of the modules: sizes are naturals (positive
where the code needs it), absent values are not members, key sets are finite.
`AnswerAssumption` says of the forms of answer, `Shapes`, that only an ACK naming
its setting shares a frame with another part: a row of `tbl_events` carries no
result, and a result is either ACK or NACK (`AllShapes` lists them). Nothing else is
assumed; all sizes and sets are arbitrary.

**TwinDelivery.** That a mark always has its queued setting is not inductive by
itself: `acknowledge` and the drop clear mark and entry together, but `Enqueue`
puts another setting under a name in flight. `IndInv` therefore also says that a
name queues settings of that name, that the setting about to be queued has never
been selected (`HandlerFresh`), and that, until the server stops, a queued setting
that was selected is the one in flight (`SelectedIsInflight`). For the trails it says that the step
`_recorded_terminal` remembers is at least as strong as all that was recorded
(`TrailInOrder`); `superseded`, which bypasses it, is excepted. The proof first
shows that every action continues `settings` (no setting changes name, ids only
grow), then types, then the facts about queue and mark, one step per action.
From it follow `TypeCorrect`, `InflightStaysQueued`, `SelectedStaysInflight`,
`TrailsStrengthen` and the action property `NeverSelectedTwice`: what `Select` picks
is queued and not in flight, so it was not selected before, unless the server has
stopped: `Shutdown` forgets the mark and keeps the queue. `DeliveryImplementsQueue`
shows that every step is a step of `SettingQueue` or a stutter; it needs that the
queue holds settings of MQTT only and that the one about to be queued is newer
than all that are or were queued (`QueueInv`); `NoneComesBack` reads off the
refinement that what has left the queue stays out of it. `EntriesEnd` needs
its own invariant, which ties a handling in progress to a session that is open.

Three more invariants stand on `IndInv`. `AuditInv`: when a part of an answer acts on
the setting of the cloud that was in flight when the frame came, that setting is
still the oldest tracked, because the parts before it only name another setting;
and a step is remembered only where one was recorded. With it each action is shown
to leave `cloudPending` alone, or to record what it takes away, or to be one of the
two exceptions `CloudSettingsAudited` names (`CloudSettingsLeaveRecords`).
`SupersedeInv`: between lookup, record and `Enqueue` of the MQTT thread, the loop can
only take the older setting away, never put it back (`QueueOnlyShrinks`), so
what is called superseded is out of the queue once the message is handled
(`SupersededLeaves`). `PollInv`: a poll of an online session looks at the
cloud once and selects up to three parts later; nothing but the MQTT thread runs in
between, which does not touch what the cloud waits for (`OnlinePollsWait`).

**ModeManager.** `ModeInv` relates `runtime_mode`, the offline flag and the count; with it each operation is a step of `CloudGate` or none
(`ModeImplementsGate`).

**BoxSessions.** Every handler step moves the mode manager by one of its own
operations (`SessionsDriveModes`), so what holds of it holds of the whole
(`SessionsKeepGate`, `SessionsKeepModesInStep`, `OfflineFromThreshold`). That
`RuntimeModeAgrees` relates fields of one object, not what the status publishes.
`OfflineAtThreshold` relates flag and count: a success clears both, and so does applying
hybrid anew, so under hybrid the flag is set exactly at the threshold.
`LimitAlwaysHolds`, `IdleAlwaysDisconnected` and `CloudFlagIsTrue` come from one
invariant: the handlers that serve are at most as many as counted, without a
count no flag is set, and the cloud flag has a handler. `FailedDialsShut` is an
action property: each way a dial fails is followed through the mode manager.

**MqttLink.** `LinkInv` adds to the three properties that a flag that is set has a
link behind it, or a callback that has still to run: then the caches speak of
the broker the clients are linked to, and `on_connect` renews them when it has
forgotten.

**PipeIds.** The counters are never behind an id either pipe has noted; what they
give is the next number, so it is fresh (`SettingsHaveFreshIds`).

The theorems about the pipe itself come from `PipeInv`. None of the three properties is
inductive: what a read hands on lies in pieces, and the cloud gets the
pieces later, or gets the raw read when no frame was whole. The invariant says that
the stream is split at `kept`, where a frame has ended (an end tag, or the LF after
it), and names a position `k`, where the read at hand began to take frames: the
chunks in `forward`, put together, are the stretch from `k` to `kept` unless
something is withheld, what the cloud has is of no later frame than the
one at `k`, and, without an injected answer, all up to `k` has been written. Each
action then moves `kept` to the end of one more frame, or `k` to `kept`. "Put together"
is `FlattenSeq`, a recursive function, so its laws (of an appended chunk, of two parts)
need induction. The library's induction theorem takes a predicate as a parameter, which
the provers cannot supply; `NatSetInduction` states induction for a set of numbers
instead and follows from the least element every set of naturals has.

**Telemetry.** The invariant accounts for every record through each line of a send
and each step of a window: in the deques, in hand, in the table, in the paho
client, published, or given up. `OldestLeave` follows the table through insert,
clean-up and flush. `BurstsAreShown` rests on how many windows with logs are still
owed after a command, or after a warning while `log_error` is not set.

**AppLifecycle.** Three invariants: `IdInv` (the id in use is the stored one),
`ShutdownInv` (what may still run at each stage of shutdown: `apply_proxy_mode` tasks
and handlers that come after the cancellation run on and may be left when it returns) and `CaptureInv` (where
the sentinel can be). `StopLeavesNothingQueued` says that a writer that was told to stop
leaves queue and batch empty, not that every frame is in the file: a commit that fails
gives its batch up. `NoFrameTwice` is proved of the accounts of the recorder:
frames on their way stand in order and, with those given up, are all that was
captured; each step of queue, batch and file keeps the accounts. `LifecycleTypes`
includes the limits of queue and batch; for these the writer must have room when it
asks for an item (`CaptureTypeInv`).

**BoxFrames.** `FrameInv`: what the processor knows of a table is at least what its
frames have said, and each value in the mirror table is the last one heard of the
table that wrote it last. `TablesKeepTypes` adds that a table only knows and shows its own
keys, also where a frame merges into the states of its mirror.

Type invariants are proved and therefore not part of a run, and so is `SelectedOnce`
(`NeverSelectedTwice`).

**Only model-checked** is liveness (`QueueDrains`, `Recovers`, `OutageNoticed`, `BatchesEnd`,
`ShutdownCompletes`, `BufferDrains`, `StatusTurnsOffline`): fairness needs ENABLED,
which is out of the prover's reach. Every safety property of a run that passes is a
theorem.

## Where documentation and code differ

Shown by a run:

* An answer removes whatever is queued under its name, also a newer value the
  Box has not seen (`v_answered`).
* "Auto-reconnect with health check loop": an attempt of the health check that
  finds no broker leaves a client without a thread; when the old client's thread
  then reconnects, it sets the flag, so the health check is content and nothing is
  published any more (`v_reconnect`).

Stated in the modules, and violated on small instances of them, but not among the
runs:

* A setting whose write fails is not tried again but dropped after the timeout
  (`TimeoutAfterInjection`; `proxy/server.py:757`, docs/v2/twin.md:339).
* A setting can be reported superseded after it was confirmed
  (`SupersededUnconfirmed`; `twin/handler.py:279`, docs/v2/twin.md:437).
* An offline session does not wait for settings of the cloud
  (`CloudHasPriority`; `proxy/server.py:1075`, `twin/delivery.py:44`); an online one
  does, which is `OnlineWaitsForCloud`.
* A reset in the wrong moment costs a connection slot for good
  (`RejectsOnlyWhenFull`; `proxy/server.py:506`, docs/v2/configuration.md:38).
* Segmentation is not transparent to the cloud: a read without a whole frame is
  forwarded as it is, and again as part of its frame (`SegmentsTransparently`;
  `proxy/server.py:779`, docs/v2/architecture.md:188).

Seen while modelling:

* *Documentation of the queue.* docs/v2/twin.md:56 and :157-160 say that
  `deliver_pending` returns all pending settings and all are written, and :238 that two
  queued settings are both delivered on the next `IsNewSet` in enqueue order. The code
  returns at most one, the oldest, and the next only when an answer or the timeout has
  cleared the mark of that one (`twin/delivery.py:201-310`). `SettingQueue` states the
  code's promise.
* *Documentation of the mode.* docs/v2/proxy_modes.md:260-267 says that the published
  `mode` is the runtime mode. `mqtt/status.py:83-84` publishes `mode` from the age of
  the Box's last frame, and the mode in telemetry (`main.py:145-149`) is "hybrid" whenever that is
  configured, online or not.
* *Delivery.* The tracking of a setting of the cloud ends without an audit record in
  two ways: an ACK names it while an older one is in flight, or an answer meant for a
  setting of another device takes the entry of the same name with it, because
  `acknowledge` does not compare devices (`twin/delivery.py:350`). That there is no
  other way is `CloudSettingsAudited`. When a poll is answered
  here, the other frames of the same read are withheld from the cloud with it
  (`proxy/server.py:762`). A Setting injected for IsNewSet has a random message id
  that no counter takes note of (`twin/delivery.py:626`), and sessions without cloud note no
  ids; `IdsFresh` speaks of neither. `TwinDelivery.shutdown` clears the marks and keeps the
  queue, so a session whose handler `stop` has not cancelled may send a setting again
  (`proxy/server.py:214`).
* *Sessions.* With overlapping sessions the end of one sets `box_connected` to false
  while a Box is connected (`proxy/server.py:633`, docs/v2/sensor_map.md:308). After
  a change to offline, dials in progress still go online (`proxy/server.py:459`,
  docs/v2/proxy_modes.md:174); the properties speak only of what their results do to
  the mode manager.
* *MQTT.* Two clients with one client id take the connection from each other in
  turn. Subscriptions are not renewed after a reconnection (docs/v2/architecture.md:72),
  and the control handler never starts when MQTT is not ready at startup. A
  graceful disconnect leaves "online" retained. The health check blocks the loop for
  up to five seconds while it connects. Own topic matching treats `+` and `#`
  differently from MQTT.
* *Telemetry.* A buffered message is sent again after a crash between publication and
  removal; messages in a paho client that is replaced are lost; an audit record
  appended between copy and clear is lost. `fire_event` is never called. One log record that cannot be
  formatted sets `log_error` for good: no later record is kept and no later warning starts a
  burst (`telemetry/collector.py:196`). Requests
  and responses are recorded under the ids of two different pipe tasks, so none
  match (`telemetry/collector.py:225`). A warning adds two windows to those still
  owed, and the log is repeated in each of them, unlike docs/telemetry_overview.md.
  The `session_cleared` records of a shutdown are never sent (docs/v2/twin.md:455).
* *Sensors and status.* The shipped sensor map keeps `warnings_3f` where
  `decode_warnings` is not reached by it (docs/v2/sensor_map.md:188). A value of the
  second battery bank that returns to the first bank's is skipped, and its entity
  keeps the old one. A partial frame of `tbl_actual` mirrors the older values of its
  other keys with it. The sensors about the cloud session report the MQTT
  connection (`mqtt/status.py:90`). After a restart of the process merged values
  start anew.
* *Shutdown* runs in another order than docs/v2/architecture.md:166 lists. A task that
  applies a mode, or a handler that had not started, may be left when it returns
  (`main.py:331`, `:489`), for `asyncio.run` to cancel.

## Not modelled

* `protocol/crc.py`, `protocol/parser.py`, `protocol/frames.py`, `proxy/local_ack.py`:
  functions of one frame. The modules use their results (which frame is a poll,
  which answer it carries) and leave the text out.
* `proxy/dns_resolve.py`: one UDP exchange; its failure is a failed dial.
* `settings_constraints.py` and the rejections of `twin/handler.py`: a message that is
  rejected changes no state but its own audit record.
* Raw text of audit records, telemetry statistics and request matching: bounded
  caches and counters that nothing else reads.
* The replay file and the local GetActual timer of `proxy/server.py`.
* `config.py`, `logging_config.py`: read once at start. Tools, tests and the command
  line of tcpdump.

## Plan

1. Request matching and statistics of the collector; raw text and its expiry.
2. Pure operators against reference definitions: topic matching, settings
   validation, CRC, local ACKs.
