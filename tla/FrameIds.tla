------------------------------ MODULE FrameIds ------------------------------
(***************************************************************************)
(* The ids of injected Setting frames, from twin/delivery.py: the proxy    *)
(* answers in the place of the cloud, so an id has to come after the ids   *)
(* of the frames it has seen on the pipes.  Ids no counter notes are left  *)
(* out: those of the Box in a session without cloud, and the random        *)
(* message ids of the hook for IsNewSet.                                   *)
(***************************************************************************)
EXTENDS Integers

CONSTANTS
    MaxId,      \* bound: ids, and the seconds of the clock
    FirstMsg    \* where the random first message id is taken from

ASSUME IdAssumption == MaxId \in Nat /\ FirstMsg \subseteq 1 .. MaxId

VARIABLES
    idSet,      \* _last_seen_id_set, 0 for None
    msgId,      \* _last_msg_id, 0 for None
    used,       \* history: the greatest ids of the frames the pipes handled
    issued      \* history: the last ids the proxy gave a frame

idVars == <<idSet, msgId, used, issued>>

Ids == 0 .. MaxId
Greater(a, b) == IF a > b THEN a ELSE b

IdInit ==
    /\ idSet = 0 /\ msgId = 0
    /\ used = [set |-> 0, msg |-> 0]
    /\ issued = [set |-> 0, msg |-> 0]

Uses(s, m) == used' = [set |-> Greater(used.set, s), msg |-> Greater(used.msg, m)]

\* observe_id_set and observe_msg_id, for a frame of the Box or of the cloud;
\* it may lack either id (0 here).
Observe(s, m) ==
    /\ idSet' = Greater(idSet, s)
    /\ msgId' = Greater(msgId, m)
    /\ Uses(s, m)
    /\ UNCHANGED issued

\* Mutant: the clock alone gives the next id.
NextIdSetFromClock(s, now) ==
    /\ idSet' = IF now = 0 THEN Greater(idSet, s) + 1 ELSE now + 1
    /\ idSet' <= MaxId

\* next_id_set and next_msg_id, once the ids s and m have been noted.
NextIdSet(s, now) ==
    /\ idSet' = Greater(Greater(idSet, s), now) + 1
    /\ idSet' <= MaxId

NextMsgId(m) ==
    /\ IF Greater(msgId, m) = 0 THEN msgId' \in FirstMsg ELSE msgId' = Greater(msgId, m) + 1
    /\ msgId' <= MaxId

\* The pipe answers a poll that has the ids s and m with a Setting, at the
\* time the clock says is now.
NextIds(s, m, now) ==
    /\ NextIdSet(s, now) /\ NextMsgId(m)
    /\ Uses(idSet', msgId')
    /\ issued' = [set |-> idSet', msg |-> msgId']

\* The hook for IsNewSet injects one.  Its message id is drawn at random, is no
\* successor of msgId and noted by nobody: it enters neither used nor issued.
NextIdsOfHook(now) ==
    /\ NextIdSet(0, now)
    /\ Uses(idSet', 0)
    /\ issued' = [issued EXCEPT !.set = idSet']
    /\ UNCHANGED msgId

\* Types, and nothing on the wire is ahead of what the proxy remembers.
IdTypeOK ==
    /\ idSet \in Ids /\ msgId \in Ids
    /\ used \in [set : Ids, msg : Ids]
    /\ issued \in [set : Ids, msg : Ids]
    /\ used.set <= idSet /\ used.msg <= msgId

\* Every id taken from a counter (both ids of a Setting a pipe injects, the set
\* id alone of one the hook injects) is greater than those of all frames the
\* pipes have noted and of all Settings given ids before, in whatever order the
\* two pipes and the hook draw and however the clock is set.
IdsFresh ==
    [][\A i \in {"set", "msg"} : issued'[i] # issued[i] => issued'[i] > used[i]]_idVars
=============================================================================
