------------------------------ MODULE BoxPipe ------------------------------
(***************************************************************************)
(* Forwarding from the Box to the cloud: ProxyServer._pipe_box_to_cloud of *)
(* proxy/server.py with extract_frame_from_buffer of protocol/frame.py.    *)
(*                                                                         *)
(* What the Box sends is a stream of positions.  A frame takes four: its   *)
(* body, its end tag, CR and LF.  TCP may hand the stream to the proxy in  *)
(* pieces of any size.  The buffer is the part of the stream between kept  *)
(* and taken, since frames leave it at the front and data enter at the end. *)
(***************************************************************************)
EXTENDS Naturals, Sequences, SequencesExt

CONSTANT MaxFrames   \* bound: frames the Box sends

ASSUME PipeAssumption == MaxFrames \in Nat

VARIABLES
    pc,         \* "read": awaiting data; "frames": taking frames; "ended"
    polls,      \* environment: the frames that are IsNew* polls
    from,       \* the last read returned the positions from + 1 .. taken
    taken,      \* positions read
    kept,       \* positions taken out of the buffer
    forward,    \* forward_chunks
    withheld,   \* withheld_chunks
    handled,    \* frames handed to the twin hooks and to _process_frame
    injected,   \* polls answered with a Setting frame
    cloud       \* positions written to the cloud

vars == <<pc, polls, from, taken, kept, forward, withheld, handled, injected, cloud>>

FrameLength == 4
Sent == MaxFrames * FrameLength
FrameOf(p) == ((p - 1) \div FrameLength) + 1
EndsTag(p) == p % FrameLength = 2
LineEnd(p) == p % FrameLength \in {0, 3}

\* The positions a .. b - 1, in order.
Stretch(a, b) == [i \in 1 .. b - a |-> a + i - 1]

------------------------------------------------------------------------------
\* Where the frame at the front of the buffer ends, if there is a whole one:
\* at its line end as far as it has come.  A lone CR waits for its LF.
FirstEndTag == {p \in kept + 1 .. taken : EndsTag(p) /\ \A q \in kept + 1 .. p - 1 : ~EndsTag(q)}
FrameEnds == {IF p = taken THEN p ELSE p + 2 : p \in FirstEndTag \ {taken - 1}}

Init ==
    /\ pc = "read"
    /\ polls \in SUBSET (1 .. MaxFrames)
    /\ from = 0 /\ taken = 0 /\ kept = 0
    /\ forward = <<>>
    /\ withheld = FALSE
    /\ handled = <<>>
    /\ injected = {}
    /\ cloud = <<>>

\* Mutant: every read starts with an empty buffer.
ReadAfresh ==
    /\ pc = "read"
    /\ taken' \in taken + 1 .. Sent
    /\ from' = taken
    /\ kept' = taken
    /\ forward' = <<>>
    /\ withheld' = FALSE
    /\ pc' = "frames"
    /\ UNCHANGED <<polls, handled, injected, cloud>>

Read ==
    /\ pc = "read"
    /\ taken' \in taken + 1 .. Sent
    /\ from' = taken
    /\ forward' = <<>>
    /\ withheld' = FALSE
    /\ pc' = "frames"
    /\ UNCHANGED <<polls, kept, handled, injected, cloud>>

\* The Box closes its side or the connection breaks.
BoxEnds ==
    /\ pc = "read"
    /\ pc' = "ended"
    /\ UNCHANGED <<polls, from, taken, kept, forward, withheld, handled, injected, cloud>>

\* The next frame leaves the buffer and is handled; its last position is e.
Take(e) ==
    /\ pc = "frames"
    /\ e \in FrameEnds
    /\ kept' = e
    /\ handled' = Append(handled, Stretch(kept + 1, e + 1))
    /\ UNCHANGED <<pc, polls, from, taken, cloud>>

\* Mutants: frames are forwarded last first; only the last one is kept.
CollectReversed(e) ==
    /\ Take(e)
    /\ forward' = <<Stretch(kept + 1, e + 1)>> \o forward
    /\ UNCHANGED <<withheld, injected>>

CollectLast(e) ==
    /\ Take(e)
    /\ forward' = <<Stretch(kept + 1, e + 1)>>
    /\ UNCHANGED <<withheld, injected>>

\* A frame that is no poll, or a poll no Setting frame is written for.
Collect(e) ==
    /\ Take(e)
    /\ forward' = Append(forward, Stretch(kept + 1, e + 1))
    /\ UNCHANGED <<withheld, injected>>

\* Mutant: any frame is taken for a poll.
InjectAnyFrame(e) ==
    /\ Take(e)
    /\ withheld' = TRUE
    /\ injected' = injected \cup {FrameOf(e)}
    /\ UNCHANGED forward

\* A poll that deliver_pending has a setting for.
Inject(e) ==
    /\ Take(e)
    /\ FrameOf(e) \in polls
    /\ withheld' = TRUE
    /\ injected' = injected \cup {FrameOf(e)}
    /\ UNCHANGED forward

\* No frame is left: nothing of this read goes on when a poll was answered,
\* else the frames do, else what was read, which is part of a frame.
Payload ==
    IF withheld THEN <<>>
    ELSE IF forward # <<>> THEN FlattenSeq(forward)
    ELSE Stretch(from + 1, taken + 1)

Flush ==
    /\ pc = "frames" /\ FrameEnds = {}
    /\ cloud' = cloud \o Payload
    /\ pc' = "read"
    /\ UNCHANGED <<polls, from, taken, kept, forward, withheld, handled, injected>>

\* The write fails.  In offline mode the frames of the payload are answered
\* locally, each as far as the Box can be written to, and handled once more.
FlushFails ==
    /\ pc = "frames" /\ FrameEnds = {}
    /\ ~withheld
    /\ \E n \in 0 .. Len(forward) : handled' = handled \o SubSeq(forward, 1, n)
    /\ pc' = "ended"
    /\ UNCHANGED <<polls, from, taken, kept, forward, withheld, injected, cloud>>

TakeFrame == \E e \in FrameEnds : Collect(e) \/ Inject(e)

Next == Read \/ BoxEnds \/ TakeFrame \/ Flush \/ FlushFails

Spec == Init /\ [][Next]_vars

------------------------------------------------------------------------------
(* Properties.                                                              *)

\* The type of the local state of the pipe.
TypeOK ==
    /\ pc \in {"read", "frames", "ended"}
    /\ polls \subseteq 1 .. MaxFrames
    /\ from \in 0 .. Sent /\ taken \in 0 .. Sent /\ kept \in 0 .. taken
    /\ forward \in Seq(Seq(1 .. Sent))
    /\ withheld \in BOOLEAN
    /\ handled \in Seq(Seq(1 .. Sent))
    /\ injected \subseteq polls
    /\ cloud \in Seq(1 .. Sent)

OneEndTag(s) ==
    \E p \in ToSet(s) : EndsTag(p) /\ \A q \in ToSet(s) \ {p} : ~EndsTag(q)

\* However the stream is cut, the twin hooks and the MQTT side are handed every
\* frame once and in order: what they got is the stream as far as it has left
\* the buffer, one end tag to a frame.  Only a failed write has frames handled
\* again: those it was to write, the first of them first, and nothing after.
EachFrameHandledOnce ==
    \E n \in 0 .. Len(handled) :
        /\ FlattenSeq(SubSeq(handled, 1, n)) = Stretch(1, kept + 1)
        /\ \A i \in 1 .. n : OneEndTag(handled[i])
        /\ n < Len(handled) =>
              /\ pc = "ended"
              /\ IsPrefix(SubSeq(handled, n + 1, Len(handled)), forward)

\* The cloud never sees a part of a frame after a later frame, also when pieces
\* are forwarded before the frame is whole.  Line ends may come late.
CloudInOrder ==
    \A i, j \in DOMAIN cloud :
        i < j /\ ~LineEnd(cloud[i]) /\ ~LineEnd(cloud[j])
        => FrameOf(cloud[i]) <= FrameOf(cloud[j])

\* Nothing the Box sent is missing at the cloud unless a poll was answered
\* here: what has left the buffer has been written.
ForwardedUnlessInjected ==
    pc = "read" /\ injected = {} => 1 .. taken \subseteq ToSet(cloud) \cup (kept + 1 .. taken)

\* The inductive invariant behind these.  A frame leaves the buffer at its end
\* tag or at its LF, so the next frame is that of the third position from there.
\* k is what had left the buffer when the read began: forward is the stream from
\* there on, and the cloud has nothing beyond the frame that came next.
AtFrameEnd(p) == p % FrameLength \in {0, 2}
NextFrame(p) == FrameOf(p + 3)

ReadBegan(k) ==
    /\ AtFrameEnd(k)
    /\ pc = "read" => k = kept
    /\ pc = "frames" => k <= from
    /\ pc = "frames" /\ ~withheld => FlattenSeq(forward) = Stretch(k + 1, kept + 1)
    /\ \A i \in DOMAIN cloud : ~LineEnd(cloud[i]) => FrameOf(cloud[i]) <= NextFrame(k)
    /\ injected = {} => 1 .. k \subseteq ToSet(cloud)

PipeInv ==
    /\ TypeOK
    /\ AtFrameEnd(kept)
    /\ pc = "frames" /\ injected = {} => ~withheld
    /\ \E k \in 0 .. kept : ReadBegan(k)
    /\ EachFrameHandledOnce
    /\ CloudInOrder

------------------------------------------------------------------------------
(* What the documentation says and the code does not do.                    *)

\* docs/v2/architecture.md, frame extraction: it "handles TCP segmentation
\* transparently", so with no poll answered the cloud gets the stream as sent.
SegmentsTransparently == injected = {} => cloud = Stretch(1, Len(cloud) + 1)
=============================================================================
