----------------------------- MODULE Telemetry -----------------------------
(***************************************************************************)
(* telemetry/collector.py and its loop, composed with the client: what     *)
(* the event loop and the MQTT thread record goes into the window of the   *)
(* next telemetry, log entries go along while a burst lasts, and the       *)
(* window is handed to the client as one payload.                          *)
(***************************************************************************)
EXTENDS TelemetryClient

CONSTANTS
    Commands,    \* records of step incoming, appended by the MQTT thread
    MaxBurst     \* bound on warning_burst_windows_remaining

ASSUME CollectorAssumption == Commands \subseteq Records /\ MaxBurst \in Nat

VARIABLES
    stage,       \* the loop: "start", "sleep", then the steps of collect_metrics
    window,      \* records in the deques
    copied,      \* the lists made of them
    marking,     \* commands appended whose burst is not set yet
    burst,       \* warning_burst_windows_remaining
    settingNow,  \* setting_burst_current_active
    settingNext, \* setting_burst_next_windows_remaining
    force,       \* force_logs_this_window
    logError,    \* log_error: a record could not be formatted, none is kept any more
    active,      \* collect_metrics: burst_active
    include,     \* collect_metrics: include_logs
    occurred,    \* history: records that were recorded
    owed         \* history: windows that are still to come with logs

burstVars == <<burst, settingNow, settingNext, force, logError, owed>>
windowVars == <<window, copied, marking, occurred>>
vars == <<clientVars, stage, windowVars, burstVars, active, include>>

LoopFree == stage \in {"start", "sleep"}

Init ==
    /\ ClientInit
    /\ stage = "start"
    /\ window = {} /\ copied = {} /\ marking = {}
    /\ burst = 0 /\ settingNow = FALSE /\ settingNext = 0 /\ force = TRUE /\ logError = FALSE
    /\ active = FALSE /\ include = FALSE
    /\ occurred = {} /\ owed = 0

------------------------------------------------------------------------------
(* Recording. *)

\* A record of the loop; or the first half of record_setting_audit_step.
Record(r) ==
    /\ r \notin occurred
    /\ r \in Commands \/ LoopFree
    /\ occurred' = occurred \cup {r}
    /\ window' = window \cup {r}
    /\ marking' = IF r \in Commands THEN marking \cup {r} ELSE marking
    /\ UNCHANGED <<clientVars, stage, copied, burstVars, active, include>>

\* The second half: this window and the next one carry logs.  The three stores
\* are one step: CPython 3.11, which the image ships, lets another thread in only
\* at calls and backward jumps, and there are none between them.
Mark(r) ==
    /\ r \in marking
    /\ marking' = marking \ {r}
    /\ settingNow' = TRUE /\ settingNext' = 1 /\ force' = TRUE
    /\ owed' = 2
    /\ UNCHANGED <<clientVars, stage, window, copied, burst, logError, active, include, occurred>>

\* record_log_entry of a warning, in any thread.  The burst is set before the
\* record is formatted, which may fail.
Warn ==
    /\ ~logError /\ burst + 2 <= MaxBurst
    /\ burst' = burst + 2
    /\ owed' = 2
    /\ logError' \in BOOLEAN
    /\ UNCHANGED <<clientVars, stage, windowVars, settingNow, settingNext, force,
                   active, include>>

\* record_log_entry of another record that cannot be formatted.
Malformed ==
    /\ ~logError
    /\ logError' = TRUE
    /\ UNCHANGED <<clientVars, stage, windowVars, burst, settingNow, settingNext, force, owed,
                   active, include>>

------------------------------------------------------------------------------
(* The loop. *)

\* The start is announced to the broker before the first window.
Provision ==
    /\ stage = "start" /\ job = "rest"
    /\ stage' = "sleep"
    /\ job' = "ensure" /\ event' = TRUE /\ payload' = {}
    /\ UNCHANGED <<remote, Links, buffer, expired, flushDue, left,
                   windowVars, burstVars, active, include>>

\* collect_metrics reads the bursts first.
ReadBursts ==
    /\ stage = "sleep" /\ job = "rest"
    /\ stage' = "decide"
    /\ active' = (burst > 0 \/ settingNow)
    /\ UNCHANGED <<clientVars, windowVars, burstVars, include>>

\* Whether logs go along also depends on the Box being connected.
Decide(boxConnected) ==
    /\ stage = "decide"
    /\ stage' = "logs"
    /\ include' = (active \/ ~boxConnected \/ force)
    /\ force' = FALSE
    /\ UNCHANGED <<clientVars, windowVars, burst, settingNow, settingNext, logError, owed,
                   active>>

\* Mutant: the window after the next one is forgotten.
AdvanceForgets ==
    /\ stage = "logs"
    /\ stage' = "clear" /\ active' = FALSE /\ include' = FALSE
    /\ copied' = window
    /\ IF active THEN /\ burst' = IF burst > 0 THEN burst - 1 ELSE 0
                      /\ settingNow' = FALSE /\ settingNext' = 0
                      /\ owed' = IF owed > 0 THEN owed - 1 ELSE 0
       ELSE UNCHANGED <<burst, settingNow, settingNext, owed>>
    /\ UNCHANGED <<clientVars, window, marking, occurred, force, logError>>

\* _advance_log_window_state, after the snapshot of the logs; then the deques
\* are copied.
Advance ==
    /\ stage = "logs"
    /\ stage' = "clear" /\ active' = FALSE /\ include' = FALSE
    /\ copied' = window
    /\ IF active THEN /\ burst' = IF burst > 0 THEN burst - 1 ELSE 0
                      /\ settingNow' = (settingNext > 0)
                      /\ settingNext' = 0
                      /\ owed' = IF owed > 0 THEN owed - 1 ELSE 0
       ELSE UNCHANGED <<burst, settingNow, settingNext, owed>>
    /\ UNCHANGED <<clientVars, window, marking, occurred, force, logError>>

\* The deques are cleared; a command that the MQTT thread appended after the
\* copy goes with them.  The window is sent.
Clear ==
    /\ stage = "clear"
    /\ stage' = "sleep"
    /\ window' = {} /\ copied' = {}
    /\ gone' = gone \cup (window \ copied)
    /\ job' = "ensure" /\ event' = FALSE /\ payload' = copied
    /\ UNCHANGED <<remote, session, flag, early, outbox, delivered, buffer, expired,
                   flushDue, left, marking, occurred, burstVars, active, include>>

ClientStep ==
    /\ Sending \/ Link \/ Environment \/ BackoffEnds \/ MinutePasses
    /\ UNCHANGED <<stage, windowVars, burstVars, active, include>>

\* The process dies and comes back.
Crash ==
    /\ stage' = "start"
    /\ ClientRestarts
    /\ gone' = occurred \ (delivered \cup InBuffer(buffer'))
    /\ window' = {} /\ copied' = {} /\ marking' = {} /\ occurred' = occurred
    /\ burst' = 0 /\ settingNow' = FALSE /\ settingNext' = 0 /\ force' = TRUE /\ owed' = 0
    /\ logError' = FALSE
    /\ active' = FALSE /\ include' = FALSE

Loop ==
    \/ Provision \/ ReadBursts \/ Advance \/ Clear
    \/ \E boxConnected \in BOOLEAN : Decide(boxConnected)

Next ==
    \/ \E r \in Records : Record(r) \/ Mark(r)
    \/ Warn \/ Malformed \/ Loop \/ ClientStep \/ Crash

\* Threads and the event loop run and time passes; nothing is assumed of the
\* broker, of what is recorded, or of crashes.
Fairness ==
    /\ WF_vars(Loop)
    /\ WF_vars(Sending /\ UNCHANGED <<stage, windowVars, burstVars, active, include>>)
    /\ WF_vars(Link /\ UNCHANGED <<stage, windowVars, burstVars, active, include>>)
    /\ WF_vars((BackoffEnds \/ MinutePasses)
               /\ UNCHANGED <<stage, windowVars, burstVars, active, include>>)

Spec == Init /\ [][Next]_vars /\ Fairness

------------------------------------------------------------------------------
(* Properties.                                                              *)

\* Types of the collector and the client.
TypeOK ==
    /\ ClientTypeOK
    /\ stage \in {"start", "sleep", "decide", "logs", "clear"}
    /\ window \subseteq occurred /\ copied \subseteq occurred /\ marking \subseteq Commands
    /\ burst \in 0..MaxBurst /\ settingNow \in BOOLEAN /\ settingNext \in {0, 1}
    /\ force \in BOOLEAN /\ logError \in BOOLEAN /\ active \in BOOLEAN /\ include \in BOOLEAN
    /\ occurred \subseteq Records /\ owed \in 0..2

\* Nothing disappears between the deques, the window in hand, the table and
\* the paho client, except where the code accepts it: a command appended
\* during the copy, a message too old or too many, a client given up with
\* messages in it, a crash.
Held ==
    window \cup copied \cup InBuffer(buffer) \cup outbox
        \cup (IF job \in {"ensure", "publish", "store"} THEN payload ELSE {})
NothingLost == occurred \subseteq Held \cup delivered \cup gone

\* After an accepted command, and after a warning up to the first record that
\* could not be formatted, the next two windows carry logs, whenever the other
\* thread comes in between.  record_log_entry ignores every warning after such a
\* record (collector.py:196-197, 212), and promises nothing for it.
BurstShown ==
    /\ [][(stage = "sleep" /\ stage' = "decide" /\ owed > 0) => active']_vars
    /\ [][(stage = "decide" /\ stage' = "logs" /\ active) => include']_vars

\* Once the broker and the process stay up, the table drains and stays empty.
BufferDrains ==
    <>[](remote = "up") /\ <>[][stage = "start" \/ stage' # "start"]_vars
        => <>[](buffer = <<>>)
=============================================================================
