---------------------------- MODULE FrameCapture ----------------------------
(***************************************************************************)
(* The frame recorder of capture/frame_capture.py.  The event loop hands   *)
(* frames to a bounded queue and never waits; a daemon thread takes them,  *)
(* collects batches and writes each batch in one transaction to a SQLite   *)
(* file.  The n-th frame handed over is the number n.  The file outlives   *)
(* the process, the queue and the batch do not.                            *)
(***************************************************************************)
EXTENDS Naturals, Sequences, SequencesExt, FiniteSets

CONSTANTS
    QueueSize,   \* maxsize of the queue (5000 in the code)
    BatchSize,   \* frames that force a commit (200 in the code)
    MaxFrames,   \* bound: frames handed to capture
    MaxStarts    \* bound: starts of the process

ASSUME CaptureAssumption ==
    /\ QueueSize \in Nat \ {0} /\ BatchSize \in Nat \ {0}
    /\ MaxFrames \in Nat /\ MaxStarts \in Nat

\* The item None, which tells the writer to stop.
Sentinel == 0

VARIABLES
    caller,      \* recorder: "down", "running", "putting", "joining", "stopped"
    writer,      \* thread: "none", "opening", "taking", "commit", "prune", "dead"
    stopping,    \* the writer has taken the Sentinel
    queue,       \* _queue: frames, the Sentinel last
    batch,       \* local to the writer
    stored,      \* rows of the table frames, in order
    captured,    \* frames handed over so far
    late,        \* frames in _queue behind the Sentinel, which nobody takes
    gone,        \* frames dropped, in a failed batch, pruned or lost with the process
    starts       \* starts so far

captureVars == <<caller, writer, stopping, queue, batch, stored, captured, late, gone, starts>>

FramesIn(s) == ToSet(s) \ {Sentinel}
Alive == writer \notin {"none", "dead"}

------------------------------------------------------------------------------
CaptureInit ==
    /\ caller = "down" /\ writer = "none" /\ stopping = FALSE
    /\ queue = <<>> /\ batch = <<>> /\ stored = <<>>
    /\ captured = 0 /\ late = {} /\ gone = {} /\ starts = 0

\* FrameCapture() and start; a failure to make the schema is only logged.
StartCapture ==
    /\ caller = "down" /\ starts < MaxStarts
    /\ caller' = "running" /\ writer' = "opening" /\ stopping' = FALSE
    /\ starts' = starts + 1
    /\ UNCHANGED <<queue, batch, stored, captured, gone, late>>

\* The writer has been told to stop, or will be by the last item.
Told == stopping \/ (queue # <<>> /\ queue[Len(queue)] = Sentinel)

\* capture: put_nowait, which drops the frame when the queue is full.  It does
\* not ask whether the recorder has been stopped.
Capture ==
    /\ caller # "down" /\ captured < MaxFrames
    /\ captured' = captured + 1
    /\ IF Len(queue) + Cardinality(late) >= QueueSize
       THEN gone' = gone \cup {captured + 1} /\ queue' = queue /\ late' = late
       ELSE IF Told
       THEN late' = late \cup {captured + 1} /\ queue' = queue /\ gone' = gone
       ELSE queue' = Append(queue, captured + 1) /\ late' = late /\ gone' = gone
    /\ UNCHANGED <<caller, writer, stopping, batch, stored, starts>>

------------------------------------------------------------------------------
(* The writer.                                                              *)

WriterOpens ==
    /\ writer = "opening"
    /\ writer' \in {"taking", "dead"}
    /\ UNCHANGED <<caller, stopping, queue, batch, stored, captured, gone, late, starts>>

\* get returns an item.  A commit follows when the batch is full, or on time,
\* which may be at any item.
Take ==
    /\ writer = "taking" /\ queue # <<>>
    /\ queue' = Tail(queue)
    /\ IF Head(queue) = Sentinel
       THEN stopping' = TRUE /\ batch' = batch /\ writer' = "commit"
       ELSE /\ stopping' = stopping
            /\ batch' = Append(batch, Head(queue))
            /\ writer' = "commit" \/ (Len(batch') < BatchSize /\ writer' = "prune")
    /\ UNCHANGED <<caller, stored, captured, gone, late, starts>>

\* Mutant: only a full batch or an item that comes late forces a commit.
TakeNothingIdles ==
    /\ writer = "taking" /\ queue = <<>>
    /\ writer' = "prune"
    /\ UNCHANGED <<caller, stopping, queue, batch, stored, captured, gone, late, starts>>

\* get finds nothing for half a second.
TakeNothing ==
    /\ writer = "taking" /\ queue = <<>>
    /\ writer' = "commit"
    /\ UNCHANGED <<caller, stopping, queue, batch, stored, captured, gone, late, starts>>

\* Mutant: the batch is kept after its commit.
CommitKeeps ==
    /\ writer = "commit"
    /\ stored' = stored \o batch /\ gone' = gone
    /\ writer' = "prune"
    /\ UNCHANGED <<caller, stopping, queue, batch, captured, late, starts>>

\* _commit_batch: the whole batch is written, or rolled back and dropped.
Commit ==
    /\ writer = "commit"
    /\ \/ stored' = stored \o batch /\ gone' = gone
       \/ gone' = gone \cup ToSet(batch) /\ stored' = stored
    /\ batch' = <<>>
    /\ writer' = "prune"
    /\ UNCHANGED <<caller, stopping, queue, captured, late, starts>>

\* The end of the loop body: now and then the oldest rows are deleted; then
\* the loop ends or goes on.
Prune ==
    /\ writer = "prune"
    /\ \E n \in 0 .. Len(stored) :
          /\ stored' = SubSeq(stored, n + 1, Len(stored))
          /\ gone' = gone \cup ToSet(SubSeq(stored, 1, n))
    /\ writer' = IF stopping THEN "dead" ELSE "taking"
    /\ UNCHANGED <<caller, stopping, queue, batch, captured, late, starts>>

------------------------------------------------------------------------------
(* stop, which blocks the event loop, so that nothing is captured meanwhile. *)

StopBegins ==
    /\ caller = "running"
    /\ caller' = IF Alive THEN "putting" ELSE "stopped"
    /\ UNCHANGED <<writer, stopping, queue, batch, stored, captured, gone, late, starts>>

StopPuts ==
    /\ caller = "putting" /\ Len(queue) < QueueSize
    /\ queue' = Append(queue, Sentinel)
    /\ caller' = "joining"
    /\ UNCHANGED <<writer, stopping, batch, stored, captured, gone, late, starts>>

\* put gives up after two seconds with the queue still full.
StopFindsFull ==
    /\ caller = "putting" /\ Len(queue) = QueueSize
    /\ caller' = "joining"
    /\ UNCHANGED <<writer, stopping, queue, batch, stored, captured, gone, late, starts>>

\* join returns when the thread has ended, or after five seconds.
Joined ==
    /\ caller = "joining"
    /\ caller' = "stopped"
    /\ UNCHANGED <<writer, stopping, queue, batch, stored, captured, gone, late, starts>>

\* The process ends, after stop or in the middle of anything.
CaptureDies ==
    /\ caller # "down"
    /\ caller' = "down" /\ writer' = "none" /\ stopping' = FALSE
    /\ queue' = <<>> /\ batch' = <<>>
    /\ gone' = gone \cup FramesIn(queue) \cup ToSet(batch) \cup late
    /\ late' = {}
    /\ UNCHANGED <<stored, captured, starts>>

WriterStep == WriterOpens \/ Take \/ TakeNothing \/ Commit \/ Prune
StopStep == StopPuts \/ StopFindsFull \/ Joined

------------------------------------------------------------------------------
(* Properties.                                                              *)

CaptureTypeOK ==
    /\ caller \in {"down", "running", "putting", "joining", "stopped"}
    /\ writer \in {"none", "opening", "taking", "commit", "prune", "dead"}
    /\ stopping \in BOOLEAN
    /\ queue \in Seq(0 .. captured) /\ Len(queue) <= QueueSize
    /\ batch \in Seq(1 .. captured) /\ Len(batch) <= BatchSize
    /\ stored \in Seq(1 .. captured)
    /\ captured \in Nat
    /\ gone \subseteq 1 .. captured /\ late \subseteq 1 .. captured
    /\ starts \in Nat

\* The frames on their way, oldest first, without the Sentinel, which can only
\* be the last item.
Queued ==
    IF queue # <<>> /\ queue[Len(queue)] = Sentinel THEN SubSeq(queue, 1, Len(queue) - 1)
    ELSE queue
Pipeline == stored \o batch \o Queued

\* What is on its way stands in the order of capture and nothing is there
\* twice, across commits, a stop, a crash and a restart; a frame that is
\* nowhere on its way was given up or came after stop, and is not on its way.
EachFrameOnce ==
    /\ \A i, j \in DOMAIN Pipeline : i < j => Pipeline[i] < Pipeline[j]
    /\ ToSet(Pipeline) \cup late \cup gone = 1 .. captured
    /\ ToSet(Pipeline) \cap (late \cup gone) = {}

\* A writer that has obeyed stop leaves nothing that it could take or commit,
\* and until stop returns no frame is stranded behind the Sentinel: what was
\* captured by then is in the file or was given up.
StopDrains ==
    stopping /\ writer = "dead" =>
        queue = <<>> /\ batch = <<>> /\ (caller = "joining" => late = {})

\* No frame stays in the batch for good: without further traffic, and while
\* more frames come, it is committed, unless the process ends.
BatchesEnd == batch # <<>> ~> batch = <<>>
=============================================================================
