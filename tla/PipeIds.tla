------------------------------ MODULE PipeIds ------------------------------
(***************************************************************************)
(* The pipe from the Box with the ids of the frames it handles, beside the *)
(* pipe from the cloud, which notes ids too.  Both run in one event loop   *)
(* and share the counters of TwinDelivery.                                 *)
(***************************************************************************)
EXTENDS BoxPipe, FrameIds

pipeVars == vars

PipeInit == Init /\ IdInit

\* A frame is taken and its ids are noted; the answer to a poll gets its ids
\* when deliver_pending has returned a setting, and it may be that it cannot be
\* written.
CollectNotes(e) == Collect(e) /\ \E s, m \in Ids : Observe(s, m)
InjectDraws(e) == Inject(e) /\ \E s, m, now \in Ids : NextIds(s, m, now)
InjectFails(e) ==
    /\ FrameOf(e) \in polls /\ Collect(e)
    /\ \E s, m, now \in Ids : NextIds(s, m, now)

\* _pipe_cloud_to_box: a frame of the cloud, while the session lasts.
CloudFrame == pc # "ended" /\ (\E s, m \in Ids : Observe(s, m)) /\ UNCHANGED pipeVars

\* _deliver_pending_for_isnewset, in a session without cloud.
HookInjects == pc = "ended" /\ (\E now \in Ids : NextIdsOfHook(now)) /\ UNCHANGED pipeVars

PipeNext ==
    \/ (Read \/ BoxEnds \/ Flush \/ FlushFails) /\ UNCHANGED idVars
    \/ \E e \in FrameEnds : CollectNotes(e) \/ InjectDraws(e) \/ InjectFails(e)
    \/ CloudFrame
    \/ HookInjects

PipeSpec == PipeInit /\ [][PipeNext]_<<pipeVars, idVars>>

\* The types of the pipe and of the counters; the counters are not behind the
\* frames the pipes have handled.
PipeTypeOK == TypeOK /\ IdTypeOK
=============================================================================
