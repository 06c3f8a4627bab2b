-------------------------- MODULE TelemetryClient --------------------------
(***************************************************************************)
(* telemetry/client.py: one payload at a time is published to the          *)
(* telemetry broker; what is refused goes to a bounded SQLite buffer that  *)
(* survives a crash and is flushed after a later success.  A payload is    *)
(* the set of records it carries; Telemetry composes this module with the  *)
(* collector.                                                              *)
(***************************************************************************)
EXTENDS Naturals, Sequences

CONSTANTS
    Records,        \* what payloads carry
    MaxMessages,    \* BUFFER_MAX_MESSAGES
    FlushLimit      \* messages per flush

ASSUME ClientAssumption == MaxMessages \in Nat \ {0} /\ FlushLimit \in Nat \ {0}

VARIABLES
    remote,      \* the telemetry broker: "up", "slow" (accepts, does not answer), "down"
    session,     \* of the paho client: "none", "down", "joining", "up", "broken"
    flag,        \* _connected
    early,       \* the backoff since the last attempt is not over
    outbox,      \* records in messages the paho client still holds
    buffer,      \* table messages, oldest first
    expired,     \* how many of the oldest are beyond BUFFER_MAX_AGE_HOURS
    flushDue,    \* more than 60 s since _last_buffer_flush
    job,         \* what the send is at; "rest" between sends
    event,       \* send_event is running, not send_telemetry
    payload,     \* what is being sent
    left,        \* messages of get_pending still to be flushed
    delivered,   \* history: records that arrived
    gone         \* history: records lost where the code accepts a loss

clientVars == <<remote, session, flag, early, outbox, buffer, expired, flushDue,
                job, event, payload, left, delivered, gone>>

\* session: joining - the answer to the connect has not been handled;
\* broken - the connection is gone, which nobody has noticed.
Sessions == {"none", "down", "joining", "up", "broken"}
Jobs == {"rest", "ensure", "publish", "store", "trim", "again", "flush", "remove"}

InBuffer(msgs) == UNION {msgs[i] : i \in DOMAIN msgs}

ClientInit ==
    /\ remote \in {"up", "down"}
    /\ session = "none" /\ flag = FALSE /\ early = FALSE /\ outbox = {}
    /\ buffer = <<>> /\ expired = 0 /\ flushDue = TRUE
    /\ job = "rest" /\ event = FALSE /\ payload = {} /\ left = 0
    /\ delivered = {} /\ gone = {}

------------------------------------------------------------------------------
(* _ensure_connected, before the publish and again before a flush.  The job *)
(* goes on where it succeeds and gives up where it fails.                   *)

Ensuring == job \in {"ensure", "again"}
Succeed == job' = IF job = "ensure" THEN "publish" ELSE "flush"
GiveUp == job' = IF job = "ensure" THEN "store" ELSE "rest"
Links == <<session, flag, early, outbox, delivered, gone>>

AlreadyConnected ==
    /\ Ensuring /\ flag /\ session # "none"
    /\ Succeed
    /\ left' = IF job = "ensure" THEN left
               ELSE IF Len(buffer) < FlushLimit THEN Len(buffer) ELSE FlushLimit
    /\ UNCHANGED <<remote, Links, buffer, expired, flushDue, event, payload>>

TooEarly ==
    /\ Ensuring /\ ~flag /\ early
    /\ GiveUp
    /\ UNCHANGED <<remote, Links, buffer, expired, flushDue, event, payload, left>>

Attempt == Ensuring /\ ~flag /\ ~early /\ early' = TRUE

\* is_connected: the answer has come, on_connect has not run yet.
FoundConnected ==
    /\ Attempt /\ session = "joining" /\ remote = "up"
    /\ flag' = TRUE
    /\ UNCHANGED <<remote, session, outbox, buffer, expired, flushDue, job, event, payload, left, delivered, gone>>

\* reconnect opens a connection; its answer comes after this attempt.
Reconnect ==
    /\ Attempt /\ session # "none" /\ remote # "down"
    /\ session' = "joining"
    /\ GiveUp
    /\ UNCHANGED <<remote, flag, outbox, buffer, expired, flushDue, event, payload, left, delivered, gone>>

\* What a dropped paho client still held is lost with it.
DropClient ==
    /\ outbox' = {}
    /\ gone' = gone \cup (outbox \ (delivered \cup InBuffer(buffer)))

\* No client, or reconnect raised: _create_client, which waits for five seconds.
Created ==
    /\ Attempt /\ remote = "up" /\ (session = "none" \/ session = "down")
    /\ session' = "up" /\ flag' = TRUE
    /\ DropClient
    /\ UNCHANGED <<remote, buffer, expired, flushDue, job, event, payload, left, delivered>>

CreateFails ==
    /\ Attempt /\ remote # "up" /\ (session = "none" \/ remote = "down")
    /\ session' = "none" /\ flag' = FALSE
    /\ DropClient
    /\ GiveUp
    /\ UNCHANGED <<remote, buffer, expired, flushDue, event, payload, left, delivered>>

------------------------------------------------------------------------------
(* Publishing.  rc is 0 unless paho knows that it has no connection (then it *)
(* keeps the message all the same, so that it may arrive twice).             *)

Refused == session = "down"
Reaches(recs) ==
    /\ delivered' = IF session = "up" THEN delivered \cup recs ELSE delivered
    /\ outbox' = IF session \in {"joining", "broken"} THEN outbox \cup recs ELSE outbox

\* Mutant: a refused payload counts as sent.
PublishUnchecked ==
    /\ job = "publish"
    /\ Reaches(payload)
    /\ \/ flushDue /\ job' = "again" /\ flushDue' = FALSE
       \/ ~flushDue /\ job' = "rest" /\ flushDue' = flushDue
    /\ UNCHANGED <<remote, session, flag, early, buffer, expired, event, payload, left, gone>>

\* Mutant: a success is not followed by a flush.
PublishOnly ==
    /\ job = "publish"
    /\ Reaches(payload)
    /\ job' = IF Refused THEN "store" ELSE "rest"
    /\ UNCHANGED <<remote, session, flag, early, buffer, expired, flushDue, event, payload, left, gone>>

\* _publish_sync; send_telemetry then flushes if a minute has passed.
Publish ==
    /\ job = "publish"
    /\ Reaches(payload)
    /\ \/ Refused /\ job' = "store" /\ flushDue' = flushDue
       \/ ~Refused /\ flushDue /\ ~event /\ job' = "again" /\ flushDue' = FALSE
       \/ ~Refused /\ (event \/ ~flushDue) /\ job' = "rest" /\ flushDue' = flushDue
    /\ UNCHANGED <<remote, session, flag, early, buffer, expired, event, payload, left, gone>>

\* TelemetryBuffer.store, first commit.
Insert ==
    /\ job = "store"
    /\ buffer' = Append(buffer, payload)
    /\ job' = IF Len(buffer) + 1 > MaxMessages THEN "trim" ELSE "rest"
    /\ UNCHANGED <<remote, Links, expired, flushDue, event, payload, left>>

\* _cleanup: what is too old goes, and the oldest beyond the limit.
Surplus(n, old) == IF n - old > MaxMessages THEN n - MaxMessages ELSE old
Forget(k) ==
    /\ buffer' = SubSeq(buffer, k + 1, Len(buffer))
    /\ expired' = IF expired > k THEN expired - k ELSE 0
    /\ gone' = gone \cup (InBuffer(SubSeq(buffer, 1, k)) \ (delivered \cup outbox))

\* Mutants: ORDER BY timestamp ASC keeps the oldest; only old messages go.
TrimNewest ==
    /\ job = "trim" /\ job' = "rest"
    /\ buffer' = SubSeq(buffer, 1, MaxMessages)
    /\ gone' = gone \cup InBuffer(SubSeq(buffer, MaxMessages + 1, Len(buffer)))
    /\ UNCHANGED <<remote, session, flag, early, outbox, expired, flushDue, event, payload, left, delivered>>

TrimExpired ==
    /\ job = "trim" /\ job' = "rest"
    /\ Forget(expired)
    /\ UNCHANGED <<remote, session, flag, early, outbox, flushDue, event, payload, left, delivered>>

Trim ==
    /\ job = "trim" /\ job' = "rest"
    /\ Forget(Surplus(Len(buffer), expired))
    /\ UNCHANGED <<remote, session, flag, early, outbox, flushDue, event, payload, left, delivered>>

\* _flush_buffer_sync publishes the oldest message and stops at a refusal.
FlushOne ==
    /\ job = "flush" /\ left > 0
    /\ Reaches(Head(buffer))
    /\ IF Refused THEN job' = "rest" /\ left' = 0 ELSE job' = "remove" /\ left' = left
    /\ UNCHANGED <<remote, session, flag, early, buffer, expired, flushDue, event, payload, gone>>

Remove ==
    /\ job = "remove" /\ job' = "flush"
    /\ buffer' = Tail(buffer)
    /\ expired' = IF expired > 0 THEN expired - 1 ELSE 0
    /\ left' = left - 1
    /\ UNCHANGED <<remote, Links, flushDue, event, payload>>

FlushEnds ==
    /\ job = "flush" /\ left = 0
    /\ job' = "rest"
    /\ UNCHANGED <<remote, Links, buffer, expired, flushDue, event, payload, left>>

------------------------------------------------------------------------------
(* The paho thread, the broker and time. *)

\* on_connect, after which paho sends what it still holds; the backoff is reset.
OnConnect ==
    /\ remote = "up" /\ session = "joining"
    /\ session' = "up" /\ flag' = TRUE /\ early' = FALSE
    /\ delivered' = delivered \cup outbox /\ outbox' = {}
    /\ UNCHANGED <<remote, buffer, expired, flushDue, job, event, payload, left, gone>>

\* The thread of the client reconnects by itself.
Rejoin ==
    /\ remote # "down" /\ session = "down"
    /\ session' = "joining"
    /\ UNCHANGED <<remote, flag, early, outbox, buffer, expired, flushDue,
                   job, event, payload, left, delivered, gone>>

\* on_disconnect.
Noticed ==
    /\ session = "broken"
    /\ session' = "down" /\ flag' = FALSE
    /\ UNCHANGED <<remote, early, outbox, buffer, expired, flushDue,
                   job, event, payload, left, delivered, gone>>

\* The broker stops or stalls; the connections it had break.
RemoteFails ==
    /\ remote = "up" /\ remote' \in {"slow", "down"}
    /\ session' = CASE session = "up" -> "broken"
                    [] session = "joining" -> IF flag THEN "broken" ELSE "down"
                    [] OTHER -> session
    /\ UNCHANGED <<flag, early, outbox, buffer, expired, flushDue,
                   job, event, payload, left, delivered, gone>>

RemoteReturns ==
    /\ remote # "up" /\ remote' = "up"
    /\ UNCHANGED <<Links, buffer, expired, flushDue, job, event, payload, left>>

BackoffEnds ==
    /\ early /\ early' = FALSE
    /\ UNCHANGED <<remote, session, flag, outbox, buffer, expired, flushDue,
                   job, event, payload, left, delivered, gone>>

MinutePasses ==
    /\ ~flushDue /\ flushDue' = TRUE
    /\ UNCHANGED <<remote, Links, buffer, expired, job, event, payload, left>>

\* 168 hours pass for the oldest of the messages that were young.
MessageExpires ==
    /\ job = "rest" /\ expired < Len(buffer)
    /\ expired' = expired + 1
    /\ UNCHANGED <<remote, Links, buffer, flushDue, job, event, payload, left>>

Sending ==
    \/ AlreadyConnected \/ TooEarly \/ FoundConnected \/ Reconnect \/ Created \/ CreateFails
    \/ Publish \/ Insert \/ Trim \/ FlushOne \/ Remove \/ FlushEnds

Link == OnConnect \/ Rejoin \/ Noticed
Environment == RemoteFails \/ RemoteReturns \/ MessageExpires

\* A restart: the table is opened and cleaned up, all else is lost.
ClientRestarts ==
    /\ session' = "none" /\ flag' = FALSE /\ early' = FALSE /\ outbox' = {}
    /\ flushDue' = TRUE /\ job' = "rest" /\ event' = FALSE /\ payload' = {} /\ left' = 0
    /\ LET k == Surplus(Len(buffer), expired) IN
       /\ buffer' = SubSeq(buffer, k + 1, Len(buffer))
       /\ expired' = 0
    /\ UNCHANGED <<remote, delivered>>

------------------------------------------------------------------------------
ClientTypeOK ==
    /\ remote \in {"up", "slow", "down"}
    /\ session \in Sessions /\ flag \in BOOLEAN /\ early \in BOOLEAN
    /\ outbox \subseteq Records /\ payload \subseteq Records
    /\ buffer \in Seq(SUBSET Records)
    /\ expired \in 0..Len(buffer) /\ left \in 0..Len(buffer)
    /\ flushDue \in BOOLEAN /\ job \in Jobs /\ event \in BOOLEAN
    /\ delivered \subseteq Records /\ gone \subseteq Records

\* The table holds MaxMessages, one more only between the insert and the
\* clean-up that follows it.
BufferBounded == Len(buffer) <= MaxMessages + (IF job = "trim" THEN 1 ELSE 0)

\* Messages leave the table from its oldest end only, whether they were sent,
\* expired or had to make room.
OldestLeaveFirst ==
    [][Len(buffer') < Len(buffer) =>
        buffer' = SubSeq(buffer, Len(buffer) - Len(buffer') + 1, Len(buffer))]_clientVars
=============================================================================
