------------------------ MODULE TwinDelivery_proofs ------------------------
(***************************************************************************)
(* Proofs about TwinDelivery.  The settings and their audit trails come    *)
(* first: every action changes them by appending a new setting or by       *)
(* recording steps in existing ones, which keeps each trail in order.      *)
(***************************************************************************)
EXTENDS TwinDelivery, SequenceTheorems, WellFoundedInduction, TLAPS

------------------------------------------------------------------------------
(* Sequences and the audit trail.                                           *)

\* A function on the positions of a sequence is a sequence of the same length.
LEMMA SeqOfFunction ==
    ASSUME NEW S, NEW n \in Nat, NEW f \in [1 .. n -> S]
    PROVE  f \in Seq(S) /\ Len(f) = n /\ DOMAIN f = 1 .. n
  <1>1. f \in Seq(S)
    BY SeqDef
  <1>2. DOMAIN f = 1 .. Len(f) /\ Len(f) \in Nat
    BY <1>1, LenProperties
  <1> QED
    BY <1>1, <1>2

\* What Append does to a sequence.
LEMMA AppendFacts ==
    ASSUME NEW S, NEW s \in Seq(S), NEW e \in S
    PROVE  /\ Append(s, e) \in Seq(S)
           /\ Len(Append(s, e)) = Len(s) + 1
           /\ DOMAIN Append(s, e) = 1 .. Len(s) + 1
           /\ \A i \in 1 .. Len(s) : Append(s, e)[i] = s[i]
           /\ Append(s, e)[Len(s) + 1] = e
  BY LenProperties

\* The steps _record_audit_step records; superseded is the handler's.
OwnSteps == TerminalSteps \ {"superseded"}

\* The precedence of a step is a number, so steps can be compared.
LEMMA StrengthIsNat == \A step : Strength(step) \in 0 .. 3
  BY DEF Strength

\* _record_audit_step, filtered by the collector, keeps a trail in order.
LEMMA RecordedInOrder ==
    ASSUME NEW s \in SettingType, TrailInOrder(s), NEW step \in OwnSteps
    PROVE  /\ Recorded(s, step) \in SettingType
           /\ TrailInOrder(Recorded(s, step))
           /\ Recorded(s, step).name = s.name
           /\ Recorded(s, step).value = s.value
           /\ Recorded(s, step).src = s.src
  <1>1. CASE ~StrongerAck(step, s.last)
    BY <1>1 DEF Recorded
  <1>2. CASE StrongerAck(step, s.last)
    <2> DEFINE t == [s EXCEPT !.last = step, !.trail = Append(@, step)]
    <2>1. Recorded(s, step) = t
      BY <1>2 DEF Recorded
    <2>2. /\ step \in TerminalSteps /\ step # "none"
          /\ s.trail \in Seq(TerminalSteps)
      BY DEF OwnSteps, SettingType, TerminalSteps, Confirming, Failing
    <2>3. /\ Append(s.trail, step) \in Seq(TerminalSteps)
          /\ DOMAIN s.trail = 1 .. Len(s.trail)
          /\ Len(s.trail) \in Nat
          /\ DOMAIN Append(s.trail, step) = 1 .. Len(s.trail) + 1
          /\ \A i \in 1 .. Len(s.trail) : Append(s.trail, step)[i] = s.trail[i]
          /\ Append(s.trail, step)[Len(s.trail) + 1] = step
      BY <2>2, AppendFacts, LenProperties
    <2>4. /\ t \in SettingType
          /\ t.last = step /\ t.trail = Append(s.trail, step)
          /\ t.name = s.name /\ t.value = s.value /\ t.src = s.src
      BY <2>2, <2>3 DEF SettingType
    <2>5. \A i \in DOMAIN s.trail :
             s.trail[i] # "superseded" => Strength(s.trail[i]) < Strength(step)
      BY <1>2, <2>3, StrengthIsNat DEF TrailInOrder, StrongerAck
    <2>6. TrailInOrder(t)
      <3>1. ASSUME NEW i \in DOMAIN t.trail
            PROVE  t.trail[i] = "superseded" \/ (t.last # "none" /\ Strength(t.trail[i]) <= Strength(t.last))
        BY <2>2, <2>3, <2>4, <2>5, StrengthIsNat
      <3>2. ASSUME NEW i \in DOMAIN t.trail, NEW j \in DOMAIN t.trail, i < j,
                   t.trail[i] # "superseded", t.trail[j] # "superseded"
            PROVE  Strength(t.trail[i]) < Strength(t.trail[j])
        <4>1. i \in DOMAIN s.trail /\ t.trail[i] = s.trail[i]
          BY <2>3, <2>4, <3>2
        <4>2. CASE j \in DOMAIN s.trail
          BY <2>3, <2>4, <3>2, <4>1, <4>2 DEF TrailInOrder
        <4>3. CASE j = Len(s.trail) + 1
          BY <2>3, <2>4, <2>5, <3>2, <4>1, <4>3
        <4> QED
          BY <2>3, <2>4, <4>2, <4>3
      <3> QED
        BY <3>1, <3>2 DEF TrailInOrder
    <2> QED
      BY <2>1, <2>4, <2>6
  <1> QED
    BY <1>1, <1>2

------------------------------------------------------------------------------
(* The settings as a whole.                                                 *)

GoodSettings(ss) ==
    /\ ss \in Seq(SettingType)
    /\ \A a \in DOMAIN ss : TrailInOrder(ss[a])

\* tt has the settings of ss, perhaps with longer trails, and perhaps more.
Continues(tt, ss) ==
    /\ Len(ss) <= Len(tt)
    /\ \A a \in DOMAIN ss : tt[a].name = ss[a].name

\* Settings nobody touched are a continuation of themselves.
LEMMA ContinuesItself ==
    ASSUME NEW ss \in Seq(SettingType)
    PROVE  Continues(ss, ss)
  BY LenProperties DEF Continues

\* Steps recorded in any of the settings, at most one in each.
LEMMA RecordingKeeps ==
    ASSUME NEW ss, GoodSettings(ss),
           NEW tt, tt = [a \in DOMAIN ss |-> tt[a]],
           \A a \in DOMAIN ss :
              tt[a] = ss[a] \/ \E step \in OwnSteps : tt[a] = Recorded(ss[a], step)
    PROVE  GoodSettings(tt) /\ Continues(tt, ss) /\ Len(tt) = Len(ss)
  <1>1. /\ Len(ss) \in Nat
        /\ DOMAIN ss = 1 .. Len(ss)
        /\ \A a \in DOMAIN ss : ss[a] \in SettingType
    BY LenProperties, ElementOfSeq DEF GoodSettings
  <1>2. \A a \in DOMAIN ss :
            tt[a] \in SettingType /\ TrailInOrder(tt[a]) /\ tt[a].name = ss[a].name
    BY <1>1, RecordedInOrder DEF GoodSettings
  <1>3. tt \in [1 .. Len(ss) -> SettingType]
    BY <1>1, <1>2
  <1>4. tt \in Seq(SettingType) /\ Len(tt) = Len(ss) /\ DOMAIN tt = 1 .. Len(ss)
    BY <1>1, <1>3, SeqOfFunction
  <1> QED
    BY <1>1, <1>2, <1>4 DEF GoodSettings, Continues

\* Recording one step of the delivery keeps the settings good.
LEMMA EmitKeeps ==
    ASSUME NEW ss, GoodSettings(ss), NEW a, NEW step \in OwnSteps
    PROVE  /\ GoodSettings(Emit(ss, a, step))
           /\ Continues(Emit(ss, a, step), ss)
           /\ Len(Emit(ss, a, step)) = Len(ss)
  BY RecordingKeeps DEF Emit

\* So does _expire_cloud_pending.
LEMMA ExpiryKeeps ==
    ASSUME GoodSettings(settings)
    PROVE  /\ GoodSettings(AfterExpiry)
           /\ Continues(AfterExpiry, settings)
           /\ Len(AfterExpiry) = Len(settings)
  <1>1. "ack_reason_setting" \in OwnSteps /\ "timeout" \in OwnSteps
    BY DEF OwnSteps, TerminalSteps, Confirming, Failing
  <1> QED
    BY <1>1, RecordingKeeps DEF AfterExpiry

\* A new setting at the end.
LEMMA AppendKeeps ==
    ASSUME NEW ss, GoodSettings(ss),
           NEW n \in Names, NEW v \in Values, NEW origin \in {"local", "cloud"}
    PROVE  LET tt == Append(ss, NewSetting(n, v, origin)) IN
           /\ GoodSettings(tt)
           /\ Continues(tt, ss)
           /\ Len(tt) = Len(ss) + 1
           /\ tt[Len(ss) + 1].name = n
  <1> DEFINE e == NewSetting(n, v, origin)
  <1>1. e \in SettingType /\ e.name = n /\ e.trail = <<>>
    BY DEF NewSetting, SettingType
  <1>2. TrailInOrder(e)
    BY <1>1 DEF TrailInOrder
  <1>3. ss \in Seq(SettingType) /\ Len(ss) \in Nat /\ DOMAIN ss = 1 .. Len(ss)
    BY LenProperties DEF GoodSettings
  <1> HIDE DEF e
  <1>4. /\ Append(ss, e) \in Seq(SettingType)
        /\ Len(Append(ss, e)) = Len(ss) + 1
        /\ DOMAIN Append(ss, e) = 1 .. Len(ss) + 1
        /\ \A i \in 1 .. Len(ss) : Append(ss, e)[i] = ss[i]
        /\ Append(ss, e)[Len(ss) + 1] = e
    BY <1>1, <1>3, AppendFacts
  <1>5. \A i \in DOMAIN Append(ss, e) : TrailInOrder(Append(ss, e)[i])
    BY <1>2, <1>3, <1>4 DEF GoodSettings
  <1> QED
    BY <1>1, <1>3, <1>4, <1>5 DEF GoodSettings, Continues, e

\* SUPERSEDED, which the handler adds without telling the delivery.
LEMMA SupersededKeeps ==
    ASSUME NEW ss, GoodSettings(ss), NEW a \in DOMAIN ss
    PROVE  LET tt == [ss EXCEPT ![a].trail = Append(@, "superseded")] IN
           /\ GoodSettings(tt)
           /\ Continues(tt, ss)
           /\ Len(tt) = Len(ss)
  <1> DEFINE s == ss[a]
             t == [s EXCEPT !.trail = Append(@, "superseded")]
             tt == [ss EXCEPT ![a].trail = Append(@, "superseded")]
  <1>1. /\ ss \in Seq(SettingType) /\ Len(ss) \in Nat /\ DOMAIN ss = 1 .. Len(ss)
        /\ s \in SettingType /\ TrailInOrder(s)
    BY LenProperties, ElementOfSeq DEF GoodSettings
  <1>2. s.trail \in Seq(TerminalSteps) /\ "superseded" \in TerminalSteps
    BY <1>1 DEF SettingType, TerminalSteps
  <1>3. /\ Append(s.trail, "superseded") \in Seq(TerminalSteps)
        /\ Len(s.trail) \in Nat
        /\ DOMAIN s.trail = 1 .. Len(s.trail)
        /\ DOMAIN Append(s.trail, "superseded") = 1 .. Len(s.trail) + 1
        /\ \A i \in 1 .. Len(s.trail) : Append(s.trail, "superseded")[i] = s.trail[i]
        /\ Append(s.trail, "superseded")[Len(s.trail) + 1] = "superseded"
    BY <1>2, AppendFacts, LenProperties
  <1>4. /\ t \in SettingType /\ t.name = s.name /\ t.last = s.last
        /\ t.trail = Append(s.trail, "superseded")
    BY <1>1, <1>3 DEF SettingType
  <1>5. TrailInOrder(t)
    BY <1>1, <1>3, <1>4 DEF TrailInOrder
  <1>6. /\ DOMAIN tt = DOMAIN ss
        /\ tt[a] = t
        /\ \A b \in DOMAIN ss : b # a => tt[b] = ss[b]
        /\ tt = [b \in DOMAIN ss |-> tt[b]]
    BY <1>1
  <1> HIDE DEF t, tt
  <1>7. /\ tt \in [1 .. Len(ss) -> SettingType]
        /\ \A b \in DOMAIN ss : TrailInOrder(tt[b]) /\ tt[b].name = ss[b].name
    BY <1>1, <1>4, <1>5, <1>6, ElementOfSeq DEF GoodSettings
  <1>8. tt \in Seq(SettingType) /\ Len(tt) = Len(ss) /\ DOMAIN tt = 1 .. Len(ss)
    BY <1>1, <1>7, SeqOfFunction
  <1>9. GoodSettings(tt) /\ Continues(tt, ss) /\ Len(tt) = Len(ss)
    BY <1>1, <1>7, <1>8 DEF GoodSettings, Continues
  <1> QED
    BY <1>9 DEF tt

------------------------------------------------------------------------------
(* Every step keeps the settings it finds and their trails in order.        *)

\* The steps the delivery records are its own.
LEMMA OwnStepNames ==
    {"ack_tbl_events", "ack_reason_setting", "nack", "timeout", "session_cleared"} \subseteq OwnSteps
  BY DEF OwnSteps, TerminalSteps, Confirming, Failing

\* Every action keeps each trail in order and each setting its name.
LEMMA SettingsStep ==
    ASSUME IndInv, [Next]_vars
    PROVE  GoodSettings(settings') /\ Continues(settings', settings)
  <1>1. GoodSettings(settings) /\ settings \in Seq(SettingType)
    BY DEF IndInv, TypeOK, GoodSettings, AuditIds
  <1>2. CASE settings' = settings
    BY <1>1, <1>2, ContinuesItself
  <1>3. CASE \E step \in OwnSteps : \E a : settings' = Emit(settings, a, step)
    BY <1>1, <1>3, EmitKeeps
  <1>4. CASE settings' = AfterExpiry
    BY <1>1, <1>4, ExpiryKeeps
  <1>5. ASSUME NEW n \in Names, NEW v \in Values, Receive(n, v)
        PROVE  GoodSettings(settings') /\ Continues(settings', settings)
    BY <1>1, <1>5, AppendKeeps DEF Receive
  <1>6. CASE Supersede
    <2>1. handler # Waiting /\ handler.old \in 0 .. Len(settings)
      BY <1>6 DEF Supersede, Waiting, IndInv, TypeOK, HandlerTypes
    <2>2. CASE handler.old = 0
      BY <1>2, <1>6, <2>2 DEF Supersede
    <2>3. CASE handler.old # 0
      <3>1. handler.old \in DOMAIN settings
        BY <1>1, <2>1, <2>3, LenProperties
      <3> QED
        BY <1>1, <1>6, <2>3, <3>1, SupersededKeeps DEF Supersede
    <2> QED
      BY <2>2, <2>3
  <1>7. ASSUME NEW s \in Sessions, NEW dev \in Devices, CloudTrack(s, dev)
        PROVE  GoodSettings(settings') /\ Continues(settings', settings)
    <2>1. forwarding[s] \in Delivery
      BY <1>7 DEF CloudTrack, IndInv, TypeOK
    <2>2. forwarding[s].name \in Names /\ forwarding[s].value \in Values
      BY <2>1 DEF Delivery
    <2>3. GoodSettings(AfterExpiry) /\ Continues(AfterExpiry, settings)
          /\ Len(AfterExpiry) = Len(settings)
      BY <1>1, ExpiryKeeps
    <2>4. /\ GoodSettings(settings')
          /\ Continues(settings', AfterExpiry)
      BY <1>7, <2>2, <2>3, AppendKeeps DEF CloudTrack
    <2>5. DOMAIN AfterExpiry = DOMAIN settings
      BY DEF AfterExpiry
    <2> QED
      BY <2>3, <2>4, <2>5 DEF Continues
  <1>8. CASE Shutdown
    <2>1. \A a \in DOMAIN settings :
             settings'[a] = settings[a] \/ settings'[a] = Recorded(settings[a], "session_cleared")
      BY <1>8 DEF Shutdown
    <2>2. settings' = [a \in DOMAIN settings |-> settings'[a]]
      BY <1>8 DEF Shutdown
    <2> QED
      BY <1>1, <2>1, <2>2, OwnStepNames, RecordingKeeps
  <1>9. CASE LoopStep
    BY <1>2, <1>3, <1>9, OwnStepNames
    DEF LoopStep, DropTimedOut, CheckSession, Select, AckTodo, AckEvent, AckReason, Nack
  <1>10. CASE \E s \in Sessions : SessionStep(s)
    BY <1>2, <1>3, <1>4, <1>10, OwnStepNames
    DEF SessionStep, Open, FallBack, Close, Poll, PollOffline, WriteDone,
        WriteFails, AfterWrite, ExpireCloudPending, auditVars
  <1>11. CASE \E s \in Sessions : BoxAnswers(s)
    BY <1>4, <1>11 DEF BoxAnswers, Answer, ExpireCloudPending
  <1>12. CASE \E s \in Sessions : CloudStep(s)
    BY <1>2, <1>4, <1>7, <1>12
    DEF CloudStep, CloudForward, CloudIncomplete, CloudEnd, ExpireCloudPending, auditVars
  <1>13. CASE Enqueue \/ Tick \/ UNCHANGED vars
    BY <1>2, <1>13 DEF Enqueue, Tick, vars, auditVars
  <1> QED
    BY <1>5, <1>6, <1>8, <1>9, <1>10, <1>11, <1>12, <1>13 DEF Next, HandlerStep

------------------------------------------------------------------------------
(* Type correctness.                                                        *)

\* What a poll and an answer still have to do, and what is left after a part.
LEMMA PollPartsLeft ==
    ASSUME NEW p \in PollParts
    PROVE  /\ p # <<>>
           /\ Head(p) \in {"drop", "session", "select"}
           /\ Len(p) # 1 => Tail(p) \in PollParts
           /\ Head(p) = "session" => Len(p) # 1
           /\ p \in {<<"drop", "select">>, <<"select">>} =>
                 /\ Head(p) # "session"
                 /\ Len(p) # 1 => Tail(p) \in {<<"drop", "select">>, <<"select">>}
  <1>1. CASE p = <<"drop", "session", "select">>
    <2>1. Head(p) = "drop" /\ Len(p) = 3 /\ Tail(p) = <<"session", "select">>
      BY <1>1
    <2>2. p # <<>> /\ p # <<"drop", "select">> /\ p # <<"select">>
      BY <1>1
    <2> QED
      BY <2>1, <2>2 DEF PollParts
  <1>2. CASE p = <<"session", "select">>
    <2>1. Head(p) = "session" /\ Len(p) = 2 /\ Tail(p) = <<"select">>
      BY <1>2
    <2>2. p # <<>> /\ p # <<"drop", "select">> /\ p # <<"select">>
      BY <1>2
    <2> QED
      BY <2>1, <2>2 DEF PollParts
  <1>3. CASE p = <<"drop", "select">>
    <2>1. Head(p) = "drop" /\ Len(p) = 2 /\ Tail(p) = <<"select">>
      BY <1>3
    <2>2. p # <<>>
      BY <1>3
    <2> QED
      BY <2>1, <2>2 DEF PollParts
  <1>4. CASE p = <<"select">>
    <2>1. p # <<>> /\ Head(p) = "select" /\ Len(p) = 1
      BY <1>4
    <2> QED
      BY <2>1
  <1> QED
    BY <1>1, <1>2, <1>3, <1>4 DEF PollParts

\* What is left of an answer after one of its parts.
LEMMA AnswerPartsLeft ==
    ASSUME NEW p \in Seq(AnswerParts) \ {<<>>}
    PROVE  /\ Head(p) \in AnswerParts
           /\ Len(p) # 1 => Tail(p) \in Seq(AnswerParts) \ {<<>>}
  <1>1. Len(p) \in Nat /\ Len(p) > 0 /\ Head(p) \in AnswerParts
    BY LenProperties, EmptySeq
  <1>2. Tail(p) \in Seq(AnswerParts) /\ Len(Tail(p)) = Len(p) - 1
    BY <1>1
  <1>3. Len(<<>>) = 0
    BY EmptySeq
  <1>4. Len(p) # 1 => Tail(p) # <<>>
    BY <1>1, <1>2, <1>3
  <1> QED
    BY <1>1, <1>2, <1>4

\* Which frame the loop is handling, by the part that comes next.
LEMMA PollAtHand ==
    ASSUME LoopTypes, Part("drop") \/ Part("session") \/ Part("select")
    PROVE  /\ loop \in PollLoops
           /\ loop.sid = NoSession => loop.parts \in {<<"drop", "select">>, <<"select">>}
           /\ Part("session") => loop.sid \in Sessions
  <1>1. loop # Idle
    BY DEF Part, Idle
  <1>2. loop \notin AnswerLoops
    BY AnswerPartsLeft DEF Part, AnswerLoops, AnswerParts
  <1>3. /\ loop \in PollLoops
        /\ loop.sid = NoSession => loop.parts \in {<<"drop", "select">>, <<"select">>}
    BY <1>1, <1>2 DEF LoopTypes
  <1>4. Part("session") => loop.sid \in Sessions
    BY <1>3, PollPartsLeft DEF Part, PollLoops
  <1> QED
    BY <1>3, <1>4

\* While a part of an answer is handled, the loop holds an answer.
LEMMA AnswerAtHand ==
    ASSUME LoopTypes, NEW part \in AnswerParts, Part(part)
    PROVE  loop \in AnswerLoops
  <1>1. loop # Idle
    BY DEF Part, Idle
  <1>2. loop \notin PollLoops
    BY PollPartsLeft DEF Part, PollLoops, AnswerParts
  <1> QED
    BY <1>1, <1>2 DEF LoopTypes

\* Going to the next part keeps the type of the frame at hand.
LEMMA NextPartTypes ==
    ASSUME LoopTypes, loop # Idle, NextPart, Len(settings) \in Nat,
           Len(settings') \in Nat, Len(settings) <= Len(settings')
    PROVE  LoopTypes'
  <1>1. CASE Len(loop.parts) = 1
    BY <1>1 DEF NextPart, LoopTypes
  <1>2. CASE Len(loop.parts) # 1
    <2> DEFINE left == Tail(loop.parts)
    <2>1. loop' = [loop EXCEPT !.parts = left]
      BY <1>2 DEF NextPart
    <2> HIDE DEF left
    <2>2. CASE /\ loop \in PollLoops
               /\ loop.sid = NoSession => loop.parts \in {<<"drop", "select">>, <<"select">>}
      <3>1. /\ left \in PollParts
            /\ loop.sid = NoSession => left \in {<<"drop", "select">>, <<"select">>}
        BY <1>2, <2>2, PollPartsLeft DEF PollLoops, left
      <3>2. /\ loop' \in PollLoops'
            /\ loop'.sid = loop.sid /\ loop'.parts = left
        BY <2>1, <2>2, <3>1 DEF PollLoops
      <3> QED
        BY <3>1, <3>2 DEF LoopTypes
    <2>3. CASE loop \in AnswerLoops
      <3>1. left \in Seq(AnswerParts) \ {<<>>}
        BY <1>2, <2>3, AnswerPartsLeft DEF AnswerLoops, left
      <3>2. loop' \in AnswerLoops'
        BY <2>1, <2>3, <3>1 DEF AnswerLoops
      <3> QED
        BY <3>2 DEF LoopTypes
    <2> QED
      BY <2>2, <2>3 DEF LoopTypes
  <1> QED
    BY <1>1, <1>2

\* The settings only grow, so what a variable held still has its type.
Flight == [name : Names, age : 0 .. Timeout]
PendingOf(n) == [aid : 1 .. n, dev : Devices, seen : BOOLEAN, age : 0 .. Timeout]

MessageOf(n) ==
    [pc : {"looked_up", "marked"}, name : Names, aid : 1 .. n, old : 0 .. n]

Grown ==
    /\ Len(settings) \in Nat /\ Len(settings') \in Nat /\ Len(settings) <= Len(settings')
    /\ settings \in Seq(SettingType) /\ settings' \in Seq(SettingType)
    /\ AuditIds = 1 .. Len(settings) /\ AuditIds' = 1 .. Len(settings')

OldFits ==
    /\ Grown
    /\ queue \in [Names -> 0 .. Len(settings')]
    /\ inflight \in Flight \cup {NoFlight}
    /\ sessionInflight \in [Sessions -> Flight \cup {NoFlight}]
    /\ cloudPending \subseteq PendingOf(Len(settings'))
    /\ legacy \in BOOLEAN
    /\ selected \subseteq 1 .. Len(settings')
    /\ injected \subseteq 1 .. Len(settings')
    /\ session \in [Sessions -> {"closed", "online", "offline"}]
    /\ writing \in [Sessions -> 0 .. Len(settings')]
    /\ forwarding \in [Sessions -> Delivery \cup {NoForward}]
    /\ received \subseteq Delivery
    /\ cloudSent \in 0 .. MaxCloud
    /\ up \in BOOLEAN
    /\ NoFlight.name \notin Names

\* The frame at hand and the message at hand.
FramesFit ==
    /\ UNCHANGED loop => LoopTypes'
    /\ UNCHANGED handler => HandlerTypes'
    /\ handler # Waiting => handler \in MessageOf(Len(settings'))

\* Every action keeps the audit ids and may add some.
LEMMA GrownFacts ==
    ASSUME IndInv, [Next]_vars
    PROVE  Grown
  <1>1. /\ settings \in Seq(SettingType)
        /\ GoodSettings(settings') /\ Continues(settings', settings)
    BY SettingsStep DEF IndInv, TypeOK
  <1> QED
    BY <1>1, LenProperties DEF Grown, GoodSettings, Continues, AuditIds

\* So what fits the settings before an action fits those after it.
LEMMA OldTypesFit ==
    ASSUME IndInv, [Next]_vars
    PROVE  OldFits /\ FramesFit
  <1>1. Grown
    BY GrownFacts
  <1>2. 0 .. Len(settings) \subseteq 0 .. Len(settings')
        /\ 1 .. Len(settings) \subseteq 1 .. Len(settings')
    BY <1>1 DEF Grown
  <1>3. /\ EntryTypes
        /\ LoopTypes /\ HandlerTypes
        /\ selected \subseteq 1 .. Len(settings)
        /\ injected \subseteq 1 .. Len(settings)
        /\ session \in [Sessions -> {"closed", "online", "offline"}]
        /\ writing \in [Sessions -> 0 .. Len(settings)]
        /\ forwarding \in [Sessions -> Delivery \cup {NoForward}]
        /\ received \subseteq Delivery
        /\ cloudSent \in 0 .. MaxCloud
        /\ up \in BOOLEAN
    BY <1>1 DEF IndInv, TypeOK, Grown
  <1>4. NoFlight.name \notin Names
    BY TwinAssumption DEF NoFlight
  <1>5. queue \in [Names -> 0 .. Len(settings')] /\ writing \in [Sessions -> 0 .. Len(settings')]
    BY <1>2, <1>3 DEF EntryTypes
  <1>6. cloudPending \subseteq PendingOf(Len(settings'))
    BY <1>1, <1>2, <1>3 DEF EntryTypes, PendingOf, Grown
  <1>7. OldFits
    BY <1>1, <1>2, <1>3, <1>4, <1>5, <1>6 DEF OldFits, EntryTypes, Flight
  <1>8. ASSUME UNCHANGED loop PROVE LoopTypes'
    <2>1. PollLoops \subseteq PollLoops'
      BY <1>2 DEF PollLoops
    <2>2. AnswerLoops \subseteq AnswerLoops'
      BY <1>2 DEF AnswerLoops
    <2> QED
      BY <1>3, <1>8, <2>1, <2>2 DEF LoopTypes
  <1>9. ASSUME UNCHANGED handler PROVE HandlerTypes'
    BY <1>1, <1>2, <1>3, <1>9 DEF HandlerTypes, Grown
  <1>10. handler # Waiting => handler \in MessageOf(Len(settings'))
    BY <1>1, <1>2, <1>3 DEF HandlerTypes, MessageOf, Grown
  <1> QED
    BY <1>7, <1>8, <1>9, <1>10 DEF FramesFit

\* The types in the next state, put in terms of the number of settings.
NewFits ==
    /\ Grown
    /\ queue' \in [Names -> 0 .. Len(settings')]
    /\ inflight' \in Flight \cup {NoFlight}
    /\ sessionInflight' \in [Sessions -> Flight \cup {NoFlight}]
    /\ cloudPending' \subseteq PendingOf(Len(settings'))
    /\ legacy' \in BOOLEAN
    /\ selected' \subseteq 1 .. Len(settings')
    /\ injected' \subseteq 1 .. Len(settings')
    /\ session' \in [Sessions -> {"closed", "online", "offline"}]
    /\ writing' \in [Sessions -> 0 .. Len(settings')]
    /\ forwarding' \in [Sessions -> Delivery \cup {NoForward}]
    /\ received' \subseteq Delivery
    /\ cloudSent' \in 0 .. MaxCloud
    /\ up' \in BOOLEAN

\* The type invariant follows from what the fields are shown to fit.
LEMMA NewTypes ==
    ASSUME NewFits, LoopTypes', HandlerTypes'
    PROVE  TypeOK'
  <1>1. EntryTypes'
    BY DEF NewFits, Grown, EntryTypes, Flight, PendingOf
  <1> QED
    BY <1>1 DEF NewFits, Grown, TypeOK

EntriesFit ==
    /\ queue' \in [Names -> 0 .. Len(settings')]
    /\ inflight' \in Flight \cup {NoFlight}
    /\ sessionInflight' \in [Sessions -> Flight \cup {NoFlight}]
    /\ cloudPending' \subseteq PendingOf(Len(settings'))

\* Acknowledge moves nothing but entries that are answered.
LEMMA AcknowledgeTypes ==
    ASSUME OldFits, NEW n, NEW sid, Acknowledge(n, sid)
    PROVE  EntriesFit
  BY DEF Acknowledge, OldFits, Grown, EntriesFit

\* An entry of the cloud keeps its type when its ACK is noted.
LEMMA PendingTypes ==
    ASSUME OldFits, NEW p \in cloudPending
    PROVE  [p EXCEPT !.seen = TRUE, !.age = 0] \in PendingOf(Len(settings'))
  <1>1. p \in PendingOf(Len(settings')) /\ 0 \in 0 .. Timeout
    BY TwinAssumption DEF OldFits
  <1> QED
    BY <1>1 DEF PendingOf

\* Every action keeps the type of every field.
LEMMA TypeStep ==
    ASSUME IndInv, [Next]_vars
    PROVE  TypeOK'
  <1> USE DEF twinVars, auditVars, sessionVars, envVars
  <1>1. OldFits /\ FramesFit /\ LoopTypes /\ HandlerTypes
    BY OldTypesFit DEF IndInv, TypeOK
  <1>2. Idle = [parts |-> <<>>] /\ (loop' = Idle => LoopTypes')
    BY DEF LoopTypes, Idle
  <1>3. CASE UNCHANGED vars
    BY <1>1, <1>3, NewTypes DEF vars, OldFits, NewFits, FramesFit
  <1>4. ASSUME NEW n \in Names, NEW v \in Values, Receive(n, v)
        PROVE  TypeOK'
    <2>1. Len(settings') = Len(settings) + 1
      BY <1>1, <1>4 DEF Receive, OldFits, Grown
    <2>2. queue[n] \in 0 .. Len(settings')
      BY <1>1 DEF OldFits
    <2>3. HandlerTypes'
      BY <1>1, <1>4, <2>1, <2>2 DEF Receive, HandlerTypes, OldFits, Grown
    <2>4. NewFits
      BY <1>1, <1>4 DEF Receive, OldFits, NewFits
    <2> QED
      BY <1>1, <1>4, <2>3, <2>4, NewTypes DEF Receive, FramesFit
  <1>5. CASE Supersede
    <2>1. handler # Waiting
      BY <1>5 DEF Supersede, Waiting
    <2>2. HandlerTypes'
      <3>1. handler \in MessageOf(Len(settings'))
        BY <1>1, <2>1 DEF FramesFit
      <3>2. handler' = [handler EXCEPT !.pc = "marked"]
        BY <1>5 DEF Supersede
      <3>3. handler' \in MessageOf(Len(settings'))
        BY <3>1, <3>2 DEF MessageOf
      <3> QED
        BY <1>1, <3>3 DEF HandlerTypes, MessageOf, OldFits, Grown
    <2>3. NewFits
      BY <1>1, <1>5 DEF Supersede, OldFits, NewFits
    <2> QED
      BY <1>1, <1>5, <2>2, <2>3, NewTypes DEF Supersede, FramesFit
  <1>6. CASE Enqueue
    <2>1. handler # Waiting
      BY <1>6 DEF Enqueue, Waiting
    <2>2. handler.aid \in 0 .. Len(settings')
      BY <1>1, <2>1 DEF FramesFit, MessageOf, OldFits, Grown
    <2>3. HandlerTypes'
      BY <1>6 DEF Enqueue, HandlerTypes
    <2>4. queue' \in [Names -> 0 .. Len(settings')]
      BY <1>1, <1>6, <2>2 DEF Enqueue, OldFits
    <2>5. NewFits
      BY <1>1, <1>6, <2>4 DEF Enqueue, OldFits, NewFits
    <2> QED
      BY <1>1, <1>6, <2>3, <2>5, NewTypes DEF Enqueue, FramesFit
  <1>7. CASE DropTimedOut
    <2>1. LoopTypes'
      BY <1>1, <1>7, NextPartTypes DEF DropTimedOut, Part, Idle, OldFits, Grown
    <2>2. queue' \in [Names -> 0 .. Len(settings')]
      BY <1>1, <1>7 DEF DropTimedOut, OldFits, Grown
    <2>3. NewFits
      BY <1>1, <1>7, <2>2 DEF DropTimedOut, OldFits, NewFits
    <2> QED
      BY <1>1, <1>7, <2>1, <2>3, NewTypes DEF DropTimedOut, FramesFit
  <1>8. CASE CheckSession
    <2>1. LoopTypes'
      BY <1>1, <1>2, <1>8, NextPartTypes DEF CheckSession, Part, Idle, OldFits, Grown
    <2>2. NewFits
      BY <1>1, <1>8 DEF CheckSession, OldFits, NewFits
    <2> QED
      BY <1>1, <1>8, <2>1, <2>2, NewTypes DEF CheckSession, FramesFit
  <1>9. CASE Select
    <2>1. loop.at \in Sessions
      BY <1>1, <1>9, PollAtHand DEF Select, PollLoops
    <2>2. CASE UNCHANGED <<inflight, sessionInflight, selected, writing, received>>
      <3>1. NewFits
        BY <1>1, <1>9, <2>2 DEF Select, OldFits, NewFits
      <3> QED
        BY <1>1, <1>2, <1>9, <3>1, NewTypes DEF Select, FramesFit
    <2>3. ASSUME NEW n \in Names, FirstQueued(n),
                 inflight' = [name |-> n, age |-> 0],
                 sessionInflight' = [t \in Sessions |->
                    IF t = loop.sid THEN [name |-> n, age |-> 0] ELSE sessionInflight[t]],
                 selected' = selected \cup {queue[n]},
                 writing' = [writing EXCEPT ![loop.at] = queue[n]],
                 received' \in {received,
                    received \cup {[name |-> n, value |-> settings[queue[n]].value]}}
          PROVE  TypeOK'
      <3>1. queue[n] \in 1 .. Len(settings') /\ queue[n] \in 1 .. Len(settings)
        BY <1>1, <1>9, <2>3 DEF FirstQueued, OldFits, Grown, IndInv, TypeOK, EntryTypes, Select
      <3>2. settings[queue[n]].value \in Values
        <4>1. settings[queue[n]] \in SettingType
          BY <1>1, <3>1, ElementOfSeq DEF OldFits, Grown
        <4> QED
          BY <4>1 DEF SettingType
      <3>3. [name |-> n, value |-> settings[queue[n]].value] \in Delivery
        BY <3>2 DEF Delivery
      <3>4. received' \subseteq Delivery
        BY <1>1, <2>3, <3>3 DEF OldFits
      <3>5. [name |-> n, age |-> 0] \in Flight
        BY TwinAssumption DEF Flight
      <3>6. NewFits
        BY <1>1, <1>9, <2>1, <2>3, <3>1, <3>4, <3>5 DEF Select, OldFits, NewFits
      <3> QED
        BY <1>1, <1>2, <1>9, <3>6, NewTypes DEF Select, FramesFit
    <2> QED
      BY <1>9, <2>2, <2>3 DEF Select
  <1>10. CASE AckTodo \/ AckEvent \/ AckReason \/ Nack
    <2>1. LoopTypes'
      <3>1. NextPart /\ \E part \in AnswerParts : Part(part)
        BY <1>10 DEF AckTodo, AckEvent, AckReason, Nack, AnswerParts
      <3>2. loop # Idle
        BY <3>1 DEF Part, Idle
      <3> QED
        BY <1>1, <3>1, <3>2, NextPartTypes DEF OldFits, Grown
    <2>2. EntriesFit
      <3>1. CASE UNCHANGED <<queue, inflight, sessionInflight, cloudPending>>
        BY <1>1, <3>1 DEF OldFits, EntriesFit
      <3>2. ASSUME NEW n, NEW sid, Acknowledge(n, sid)
            PROVE  EntriesFit
        BY <1>1, <3>2, AcknowledgeTypes
      <3>3. CASE /\ UNCHANGED <<queue, inflight, sessionInflight>>
                 /\ \E p \in cloudPending :
                       \/ cloudPending' = cloudPending \ {p}
                       \/ cloudPending' = (cloudPending \ {p})
                             \cup {[p EXCEPT !.seen = TRUE, !.age = 0]}
        BY <1>1, <3>3, PendingTypes DEF OldFits, EntriesFit
      <3>4. CASE AckEvent
        BY <1>10, <3>2, <3>3, <3>4 DEF AckEvent, MatchingPending, Oldest
      <3>5. CASE AckReason
        BY <1>10, <3>1, <3>2, <3>3, <3>5 DEF AckReason, Oldest
      <3> QED
        BY <1>10, <3>1, <3>2, <3>4, <3>5 DEF AckTodo, Nack
    <2>3. AnswerUnchanged
      BY <1>10 DEF AckTodo, AckEvent, AckReason, Nack
    <2>4. NewFits
      BY <1>1, <2>2, <2>3 DEF AnswerUnchanged, OldFits, NewFits, EntriesFit
    <2> QED
      BY <1>1, <2>1, <2>3, <2>4, NewTypes DEF AnswerUnchanged, FramesFit
  <1>11. ASSUME NEW s \in Sessions, SessionStep(s)
         PROVE  TypeOK'
    <2>1. cloudPending' = Live => cloudPending' \subseteq PendingOf(Len(settings'))
      BY <1>1 DEF Live, OldFits
    <2>2. CASE Open(s) \/ FallBack(s)
      <3>1. session' \in [Sessions -> {"closed", "online", "offline"}]
        BY <1>1, <2>2 DEF Open, FallBack, OldFits
      <3>2. NewFits
        BY <1>1, <2>2, <3>1 DEF Open, FallBack, OldFits, NewFits
      <3> QED
        BY <1>1, <2>2, <3>2, NewTypes DEF Open, FallBack, FramesFit
    <2>3. CASE Close(s)
      <3>1. /\ session' \in [Sessions -> {"closed", "online", "offline"}]
            /\ writing' \in [Sessions -> 0 .. Len(settings')]
            /\ forwarding' \in [Sessions -> Delivery \cup {NoForward}]
            /\ sessionInflight' \in [Sessions -> Flight \cup {NoFlight}]
        BY <1>1, <2>3 DEF Close, OldFits, Grown
      <3>2. NewFits
        BY <1>1, <2>3, <3>1 DEF Close, OldFits, NewFits
      <3> QED
        BY <1>1, <2>3, <3>2, NewTypes DEF Close, FramesFit
    <2>4. CASE Poll(s) \/ PollOffline(s)
      <3>1. TimedOutSetting \in 0 .. Len(settings')
        <4>1. inflight.name # NoName => inflight.name \in Names
          BY <1>1 DEF OldFits, Flight, NoFlight
        <4> QED
          BY <1>1, <4>1 DEF TimedOutSetting, OldFits, Grown
      <3>2. LoopTypes'
        <4>1. CASE loop' = Idle
          BY <1>2, <4>1
        <4>2. CASE loop' = [parts |-> <<"drop", "session", "select">>,
                            at |-> s, sid |-> s, snap |-> TimedOutSetting]
          <5>1. <<"drop", "session", "select">> \in PollParts
            BY DEF PollParts
          <5>2. loop' \in PollLoops'
            BY <3>1, <4>2, <5>1 DEF PollLoops
          <5>3. loop'.sid # NoSession
            BY <4>2, TwinAssumption
          <5> QED
            BY <5>2, <5>3 DEF LoopTypes
        <4>3. CASE loop' = [parts |-> <<"drop", "select">>,
                            at |-> s, sid |-> NoSession, snap |-> TimedOutSetting]
          <5>1. <<"drop", "select">> \in PollParts
            BY DEF PollParts
          <5>2. loop' \in PollLoops' /\ loop'.parts = <<"drop", "select">>
            BY <3>1, <4>3, <5>1 DEF PollLoops
          <5> QED
            BY <5>2 DEF LoopTypes
        <4> QED
          BY <2>4, <4>1, <4>2, <4>3 DEF Poll, PollOffline
      <3>3. NewFits
        BY <1>1, <2>1, <2>4 DEF Poll, PollOffline, ExpireCloudPending, OldFits, NewFits
      <3> QED
        BY <1>1, <2>4, <3>2, <3>3, NewTypes DEF Poll, PollOffline, FramesFit
    <2>5. CASE WriteDone(s) \/ WriteFails(s)
      <3>1. cloudPending' \subseteq PendingOf(Len(settings'))
        BY <1>1, <2>1, <2>5
        DEF WriteDone, WriteFails, AfterWrite, ExpireCloudPending, OldFits
      <3>2. /\ writing' \in [Sessions -> 0 .. Len(settings')]
            /\ writing[s] \in 1 .. Len(settings')
        BY <1>1, <2>5 DEF WriteDone, WriteFails, OldFits, Grown
      <3>3. injected' \subseteq 1 .. Len(settings')
        BY <1>1, <2>5, <3>2 DEF WriteDone, WriteFails, OldFits
      <3>4. received' \subseteq Delivery
        <4>1. CASE WriteFails(s)
          BY <1>1, <4>1 DEF WriteFails, OldFits
        <4>2. CASE WriteDone(s)
          <5>1. writing[s] \in 1 .. Len(settings)
            BY <1>1, <4>2 DEF WriteDone, OldFits, Grown, IndInv, TypeOK
          <5>2. settings[writing[s]] \in SettingType
            BY <1>1, <5>1, ElementOfSeq DEF OldFits, Grown
          <5>3. [name |-> settings[writing[s]].name,
                 value |-> settings[writing[s]].value] \in Delivery
            BY <5>2 DEF SettingType, Delivery
          <5> QED
            BY <1>1, <4>2, <5>3 DEF WriteDone, OldFits
        <4> QED
          BY <2>5, <4>1, <4>2
      <3>5. NewFits
        BY <1>1, <2>5, <3>1, <3>2, <3>3, <3>4 DEF WriteDone, WriteFails, OldFits, NewFits
      <3> QED
        BY <1>1, <2>5, <3>5, NewTypes DEF WriteDone, WriteFails, FramesFit
    <2> QED
      BY <1>11, <2>2, <2>3, <2>4, <2>5 DEF SessionStep
  <1>12. ASSUME NEW s \in Sessions, BoxAnswers(s)
         PROVE  TypeOK'
    <2>1. PICK d \in received, shape \in Shapes, sid \in {NoSession, s},
               dev \in Devices \cup {NoDevice} : Answer(s, d, shape, dev, sid)
      BY <1>12 DEF BoxAnswers
    <2>2. PICK a \in 0 .. Len(settings) :
             loop' = [parts |-> shape, name |-> d.name, value |-> d.value,
                      dev |-> dev, sid |-> sid, snap |-> a]
      BY <2>1 DEF Answer
    <2>3. /\ d.name \in Names /\ d.value \in Values
          /\ shape \in Seq(AnswerParts) \ {<<>>}
          /\ a \in 0 .. Len(settings')
      BY <1>1, TwinAssumption DEF OldFits, Grown, Delivery
    <2>4. loop' \in AnswerLoops'
      BY <2>2, <2>3 DEF AnswerLoops
    <2>5. NewFits
      BY <1>1, <2>1 DEF Answer, ExpireCloudPending, Live, OldFits, NewFits
    <2> QED
      BY <1>1, <2>1, <2>4, <2>5, NewTypes DEF Answer, LoopTypes, FramesFit
  <1>13. ASSUME NEW s \in Sessions, CloudStep(s)
         PROVE  TypeOK'
    <2>1. ASSUME NEW d \in Delivery, CloudForward(s, d)
          PROVE  TypeOK'
      <3>1. cloudSent' \in 0 .. MaxCloud
        BY <1>1, <2>1, TwinAssumption DEF CloudForward, OldFits
      <3>2. NewFits
        BY <1>1, <2>1, <3>1 DEF CloudForward, OldFits, NewFits
      <3> QED
        BY <1>1, <2>1, <3>2, NewTypes DEF CloudForward, FramesFit
    <2>2. ASSUME NEW dev \in Devices, CloudTrack(s, dev)
          PROVE  TypeOK'
      <3>1. Len(settings') = Len(settings) + 1
        <4>1. GoodSettings(settings)
          BY DEF IndInv, TypeOK, GoodSettings, AuditIds
        <4>2. Len(AfterExpiry) = Len(settings) /\ AfterExpiry \in Seq(SettingType)
          BY <4>1, ExpiryKeeps DEF GoodSettings
        <4> QED
          BY <2>2, <4>2 DEF CloudTrack
      <3>2. [aid |-> Len(settings) + 1, dev |-> dev, seen |-> FALSE, age |-> 0]
                \in PendingOf(Len(settings'))
        BY <1>1, <3>1, TwinAssumption DEF OldFits, Grown, PendingOf
      <3>3. cloudPending' \subseteq PendingOf(Len(settings'))
        BY <1>1, <2>2, <3>2 DEF CloudTrack, Live, OldFits
      <3>4. NewFits
        BY <1>1, <2>2, <3>3 DEF CloudTrack, OldFits, NewFits
      <3> QED
        BY <1>1, <2>2, <3>4, NewTypes DEF CloudTrack, FramesFit
    <2>3. CASE CloudIncomplete(s) \/ CloudEnd(s)
      <3>1. cloudSent' \in 0 .. MaxCloud
        BY <1>1, <2>3, TwinAssumption DEF CloudIncomplete, CloudEnd, OldFits
      <3>2. NewFits
        BY <1>1, <2>3, <3>1
        DEF CloudIncomplete, CloudEnd, ExpireCloudPending, Live, OldFits, NewFits
      <3> QED
        BY <1>1, <2>3, <3>2, NewTypes DEF CloudIncomplete, CloudEnd, FramesFit
    <2> QED
      BY <1>13, <2>1, <2>2, <2>3 DEF CloudStep
  <1>14. CASE Tick
    <2>1. \A f \in Flight \cup {NoFlight} : Older(f) \in Flight \cup {NoFlight}
      BY TwinAssumption DEF Older, Flight
    <2>2. \A p \in PendingOf(Len(settings')) :
             [p EXCEPT !.age = IF @ = Timeout THEN @ ELSE @ + 1] \in PendingOf(Len(settings'))
      BY TwinAssumption DEF PendingOf
    <2>3. cloudPending' \subseteq PendingOf(Len(settings'))
      BY <1>1, <1>14, <2>2 DEF Tick, OldFits
    <2>4. NewFits
      BY <1>1, <1>14, <2>1, <2>3 DEF Tick, OldFits, NewFits
    <2> QED
      BY <1>1, <1>14, <2>4, NewTypes DEF Tick, FramesFit
  <1>15. CASE Shutdown
    <2>1. NewFits
      BY <1>1, <1>15 DEF Shutdown, OldFits, NewFits
    <2> QED
      BY <1>1, <1>15, <2>1, NewTypes DEF Shutdown, FramesFit
  <1> QED
    BY <1>3, <1>4, <1>5, <1>6, <1>7, <1>8, <1>9, <1>10, <1>11, <1>12, <1>13, <1>14, <1>15
    DEF Next, HandlerStep, LoopStep

------------------------------------------------------------------------------
(* What the queue holds.                                                    *)

\* Steps of the delivery take settings out of the queue and never put one in.
LEMMA TakingOutKeeps ==
    ASSUME IndInv, [Next]_vars, UNCHANGED handler,
           \A n \in Names : queue'[n] \in {0, queue[n]},
           selected' \subseteq selected \cup Queued
    PROVE  QueueNames' /\ HandlerFresh'
  <1>1. Continues(settings', settings) /\ AuditIds = 1 .. Len(settings)
        /\ Len(settings) \in Nat
    BY SettingsStep, GrownFacts DEF Grown
  <1>2. \A n \in Names : queue[n] \in 0 .. Len(settings)
    BY DEF IndInv, TypeOK, EntryTypes
  <1>3. QueueNames'
    BY <1>1, <1>2 DEF QueueNames, IndInv, Continues, AuditIds
  <1>4. handler # Waiting => handler.aid \in AuditIds
    BY DEF IndInv, TypeOK, HandlerTypes
  <1>5. handler # Waiting =>
            /\ handler.aid \notin selected'
            /\ \A n \in Names : queue'[n] # handler.aid
            /\ settings'[handler.aid].name = handler.name
    BY <1>1, <1>4 DEF HandlerFresh, IndInv, Continues, AuditIds, Queued
  <1> QED
    BY <1>3, <1>5 DEF HandlerFresh

\* What is in flight stays queued, and what was selected in flight.
InFlightRight == InflightQueued /\ SelectedIsInflight

\* acknowledge only takes names out of the queue, and the mark with them.
LEMMA AcknowledgeKeeps ==
    ASSUME IndInv, NEW n \in Names, NEW sid, Acknowledge(n, sid),
           UNCHANGED <<selected, up>>
    PROVE  /\ \A m \in Names : queue'[m] \in {0, queue[m]}
           /\ InFlightRight'
  <1>1. queue \in [Names -> 0 .. Len(settings)]
    BY DEF IndInv, TypeOK, EntryTypes
  <1>2. 0 \notin selected
    BY LenProperties DEF IndInv, TypeOK, AuditIds
  <1>3. CASE inflight.name = n \/ queue[n] # 0
    <2>1. /\ queue' = [queue EXCEPT ![n] = 0]
          /\ inflight' = IF inflight.name = n THEN NoFlight ELSE inflight
      BY <1>3 DEF Acknowledge
    <2>2. queue'[n] = 0 /\ \A m \in Names : m # n => queue'[m] = queue[m]
      BY <1>1, <2>1
    <2>3. InflightQueued'
      BY <2>1, <2>2, TwinAssumption
      DEF InflightQueued, IndInv, TypeOK, EntryTypes, NoFlight
    <2>4. SelectedIsInflight'
      BY <1>2, <2>1, <2>2 DEF SelectedIsInflight, IndInv
    <2> QED
      BY <2>2, <2>3, <2>4 DEF InFlightRight
  <1>4. CASE ~(inflight.name = n \/ queue[n] # 0)
    BY <1>4 DEF Acknowledge, InFlightRight, InflightQueued, SelectedIsInflight, IndInv
  <1> QED
    BY <1>3, <1>4

\* So does deliver_pending when it drops a setting that timed out.
LEMMA DropKeeps ==
    ASSUME IndInv, DropTimedOut
    PROVE  /\ \A m \in Names : queue'[m] \in {0, queue[m]}
           /\ InFlightRight'
  <1>1. queue \in [Names -> 0 .. Len(settings)]
    BY DEF IndInv, TypeOK, EntryTypes
  <1>2. 0 \notin selected
    BY LenProperties DEF IndInv, TypeOK, AuditIds
  <1>3. CASE inflight.name # NoName /\ inflight.age = Timeout
    <2>1. queue' = [queue EXCEPT ![inflight.name] = 0] /\ inflight' = NoFlight
      BY <1>3 DEF DropTimedOut
    <2>2. inflight.name \in Names
      BY <1>3 DEF IndInv, TypeOK, EntryTypes, NoFlight
    <2>3. \A m \in Names : queue'[m] = IF m = inflight.name THEN 0 ELSE queue[m]
      BY <1>1, <2>1, <2>2
    <2>4. SelectedIsInflight'
      BY <1>2, <2>3 DEF SelectedIsInflight, IndInv, DropTimedOut, envVars
    <2> QED
      BY <2>1, <2>3, <2>4 DEF InFlightRight, InflightQueued
  <1>4. CASE ~(inflight.name # NoName /\ inflight.age = Timeout)
    BY <1>4 DEF DropTimedOut, InFlightRight, InflightQueued, SelectedIsInflight, IndInv, envVars
  <1> QED
    BY <1>3, <1>4

\* Nothing selected before is queued when a setting is chosen, and the names
\* keep the chosen one from being queued twice.
LEMMA SelectKeeps ==
    ASSUME IndInv, Select
    PROVE  /\ UNCHANGED queue
           /\ selected' \subseteq selected \cup Queued
           /\ InFlightRight'
  <1>1. queue \in [Names -> 0 .. Len(settings)] /\ UNCHANGED <<queue, up>>
    BY DEF IndInv, TypeOK, EntryTypes, Select
  <1>2. CASE UNCHANGED <<inflight, selected>>
    BY <1>1, <1>2 DEF InFlightRight, InflightQueued, SelectedIsInflight, IndInv
  <1>3. ASSUME NEW n \in Names, FirstQueued(n), inflight = NoFlight,
               inflight' = [name |-> n, age |-> 0],
               selected' = selected \cup {queue[n]}
        PROVE  selected' \subseteq selected \cup Queued /\ InFlightRight'
    <2>1. queue[n] # 0 /\ inflight'.name = n
      BY <1>3 DEF FirstQueued
    <2>2. \A m \in Names : queue[m] = queue[n] => m = n
      BY <2>1 DEF IndInv, QueueNames
    <2>3. up => \A m \in Names : queue[m] \notin selected
      BY <1>3, TwinAssumption DEF IndInv, SelectedIsInflight, NoFlight
    <2>4. SelectedIsInflight'
      BY <1>1, <1>3, <2>1, <2>2, <2>3 DEF SelectedIsInflight
    <2> QED
      BY <1>1, <1>3, <2>1, <2>4 DEF InFlightRight, InflightQueued, Queued
  <1> QED
    BY <1>1, <1>2, <1>3 DEF Select

\* Steps that leave the queue and the selection alone, or only let time pass.
LEMMA QuietKeeps ==
    ASSUME IndInv, [Next]_vars, UNCHANGED <<queue, selected, up>>,
           inflight' = inflight \/ inflight' = Older(inflight)
    PROVE  InFlightRight' /\ (UNCHANGED handler => QueueNames' /\ HandlerFresh')
  <1>1. inflight'.name = inflight.name /\ (inflight' # NoFlight => inflight # NoFlight)
    BY DEF Older, IndInv, TypeOK, EntryTypes
  <1>2. UNCHANGED handler => QueueNames' /\ HandlerFresh'
    BY TakingOutKeeps
  <1> QED
    BY <1>1, <1>2 DEF InFlightRight, InflightQueued, SelectedIsInflight, IndInv

\* Every action keeps the facts about queue, mark and selection.
LEMMA SelectionStep ==
    ASSUME IndInv, [Next]_vars
    PROVE  InFlightRight' /\ QueueNames' /\ HandlerFresh'
  <1> USE DEF twinVars, auditVars, sessionVars, envVars
  <1>1. GoodSettings(settings) /\ Grown /\ Continues(settings', settings)
    BY SettingsStep, GrownFacts DEF IndInv, TypeOK, GoodSettings, AuditIds
  <1>2. queue \in [Names -> 0 .. Len(settings)] /\ selected \subseteq 1 .. Len(settings)
    BY <1>1 DEF IndInv, TypeOK, EntryTypes, Grown
  <1>3. ASSUME NEW n \in Names, NEW v \in Values, Receive(n, v)
        PROVE  InFlightRight' /\ QueueNames' /\ HandlerFresh'
    <2>1. InFlightRight'
      BY <1>3, QuietKeeps DEF Receive
    <2>2. QueueNames'
      BY <1>1, <1>2, <1>3 DEF Receive, QueueNames, IndInv, Continues, Grown, AuditIds
    <2>3. settings'[Len(settings) + 1].name = n
      BY <1>1, <1>3, AppendKeeps DEF Receive
    <2>4. /\ handler'.aid = Len(settings) + 1 /\ handler'.name = n
          /\ UNCHANGED <<queue, selected>>
      BY <1>3 DEF Receive
    <2>5. handler'.aid \notin selected' /\ \A m \in Names : queue'[m] # handler'.aid
      BY <1>1, <1>2, <2>4 DEF Grown
    <2>6. HandlerFresh'
      BY <2>3, <2>4, <2>5 DEF HandlerFresh
    <2> QED
      BY <2>1, <2>2, <2>6
  <1>4. CASE Supersede
    <2>1. InFlightRight'
      BY <1>4, QuietKeeps DEF Supersede
    <2>2. QueueNames'
      BY <1>1, <1>2, <1>4 DEF Supersede, QueueNames, IndInv, Continues, Grown, AuditIds
    <2>3. /\ handler # Waiting
          /\ handler'.aid = handler.aid /\ handler'.name = handler.name
          /\ UNCHANGED <<queue, selected>>
      <3>1. handler # Waiting
        BY <1>4 DEF Supersede, Waiting
      <3>2. handler \in [pc : {"looked_up", "marked"}, name : Names,
                         aid : AuditIds, old : 0 .. Len(settings)]
        BY <3>1 DEF IndInv, TypeOK, HandlerTypes
      <3>3. handler' = [handler EXCEPT !.pc = "marked"]
        BY <1>4 DEF Supersede
      <3> QED
        BY <1>4, <3>1, <3>2, <3>3 DEF Supersede
    <2>4. settings'[handler.aid].name = settings[handler.aid].name
      BY <1>1, <2>3 DEF IndInv, TypeOK, HandlerTypes, Continues, AuditIds
    <2>5. HandlerFresh'
      BY <2>3, <2>4 DEF HandlerFresh, IndInv
    <2> QED
      BY <2>1, <2>2, <2>5
  <1>5. CASE Enqueue
    <2>1. /\ handler # Waiting
          /\ handler.aid \in AuditIds /\ handler.name \in Names
      BY <1>5 DEF Enqueue, Waiting, IndInv, TypeOK, HandlerTypes
    <2>2. /\ handler.aid \notin selected /\ handler.aid # 0
          /\ settings[handler.aid].name = handler.name
      BY <1>1, <2>1 DEF IndInv, HandlerFresh, Grown
    <2>3. /\ \A m \in Names :
               queue'[m] = IF m = handler.name THEN handler.aid ELSE queue[m]
          /\ UNCHANGED <<inflight, settings, selected, up>>
          /\ handler' = Waiting
      BY <1>2, <1>5, <2>1 DEF Enqueue
    <2>4. InFlightRight'
      <3>1. InflightQueued'
        <4>1. inflight # NoFlight => inflight.name \in Names /\ queue[inflight.name] # 0
          BY DEF IndInv, TypeOK, EntryTypes, InflightQueued
        <4> QED
          BY <2>2, <2>3, <4>1 DEF InflightQueued
      <3>2. SelectedIsInflight'
        BY <2>2, <2>3 DEF SelectedIsInflight, IndInv
      <3> QED
        BY <3>1, <3>2 DEF InFlightRight
    <2>5. QueueNames' /\ HandlerFresh'
      BY <2>2, <2>3 DEF QueueNames, HandlerFresh, IndInv
    <2> QED
      BY <2>4, <2>5
  <1>6. CASE DropTimedOut
    BY <1>6, DropKeeps, TakingOutKeeps DEF DropTimedOut
  <1>7. CASE CheckSession
    BY <1>7, QuietKeeps DEF CheckSession
  <1>8. CASE Select
    BY <1>8, SelectKeeps, TakingOutKeeps DEF Select
  <1>9. CASE AckTodo \/ AckEvent \/ AckReason \/ Nack
    <2>1. UNCHANGED <<selected, up, handler>>
      BY <1>9 DEF AckTodo, AckEvent, AckReason, Nack, AnswerUnchanged
    <2>2. \/ UNCHANGED <<queue, inflight>>
          \/ \E n, sid : n \in Names /\ Acknowledge(n, sid)
      <3>1. \E part \in AnswerParts : Part(part)
        BY <1>9 DEF AckTodo, AckEvent, AckReason, Nack, AnswerParts
      <3>2. loop.name \in Names /\ loop.snap \in 0 .. Len(settings)
        BY <3>1, AnswerAtHand DEF AnswerLoops, IndInv, TypeOK
      <3>3. loop.snap # 0 => settings[loop.snap].name \in Names
        <4>1. loop.snap # 0 => settings[loop.snap] \in SettingType
          BY <1>1, <3>2, ElementOfSeq DEF Grown
        <4> QED
          BY <4>1 DEF SettingType
      <3> QED
        BY <1>9, <3>2, <3>3 DEF AckTodo, AckEvent, AckReason, Nack
    <2>3. CASE UNCHANGED <<queue, inflight>>
      BY <2>1, <2>3, QuietKeeps
    <2>4. ASSUME NEW n, NEW sid, n \in Names, Acknowledge(n, sid)
          PROVE  InFlightRight' /\ QueueNames' /\ HandlerFresh'
      BY <2>1, <2>4, AcknowledgeKeeps, TakingOutKeeps
    <2> QED
      BY <2>2, <2>3, <2>4
  <1>10. ASSUME NEW s \in Sessions, SessionStep(s) \/ BoxAnswers(s) \/ CloudStep(s)
         PROVE  InFlightRight' /\ QueueNames' /\ HandlerFresh'
    <2>1. UNCHANGED <<queue, inflight, selected, up, handler>>
      BY <1>10
      DEF SessionStep, Open, FallBack, Close, Poll, PollOffline, WriteDone, WriteFails,
          BoxAnswers, Answer, CloudStep, CloudForward, CloudTrack, CloudIncomplete, CloudEnd
    <2> QED
      BY <2>1, QuietKeeps
  <1>11. CASE Tick
    BY <1>11, QuietKeeps DEF Tick
  <1>12. CASE Shutdown
    BY <1>12, TakingOutKeeps DEF Shutdown, InFlightRight, InflightQueued, SelectedIsInflight
  <1>13. CASE UNCHANGED vars
    BY <1>13, QuietKeeps DEF vars
  <1> QED
    BY <1>3, <1>4, <1>5, <1>6, <1>7, <1>8, <1>9, <1>10, <1>11, <1>12, <1>13
    DEF Next, HandlerStep, LoopStep

------------------------------------------------------------------------------
(* The theorems.                                                            *)

\* The inductive invariant holds when the proxy starts.
LEMMA Start == Init => IndInv
  <1> SUFFICES ASSUME Init PROVE IndInv
    OBVIOUS
  <1>1. settings = <<>> /\ settings \in Seq(SettingType) /\ Len(settings) = 0
        /\ AuditIds = {}
    BY EmptySeq DEF Init, AuditIds
  <1>2. EntryTypes
    <2>1. queue \in [Names -> 0 .. Len(settings)]
      BY <1>1 DEF Init
    <2>2. sessionInflight \in
             [Sessions -> [name : Names, age : 0 .. Timeout] \cup {NoFlight}]
      BY DEF Init
    <2> QED
      BY <2>1, <2>2 DEF Init, EntryTypes
  <1>3. LoopTypes /\ HandlerTypes
    BY DEF Init, LoopTypes, HandlerTypes
  <1>4. TypeOK
    BY <1>1, <1>2, <1>3, TwinAssumption DEF Init, TypeOK
  <1> QED
    BY <1>1, <1>4
    DEF Init, IndInv, QueueNames, HandlerFresh, InflightQueued, SelectedIsInflight

\* Every action keeps the inductive invariant.
LEMMA Step == IndInv /\ [Next]_vars => IndInv'
  <1> SUFFICES ASSUME IndInv, [Next]_vars PROVE IndInv'
    OBVIOUS
  <1>1. \A a \in AuditIds' : TrailInOrder(settings'[a])
    BY SettingsStep DEF GoodSettings, AuditIds
  <1>2. (\A a \in AuditIds : TrailInOrder(settings[a]))'
    BY <1>1
  <1> QED
    BY <1>2, TypeStep, SelectionStep DEF IndInv, InFlightRight

\* The invariant that carries the others holds in every reachable state.
THEOREM Invariance == Spec => []IndInv
  BY Start, Step, PTL DEF Spec

\* Every variable keeps its type, for any number of names, sessions, devices
\* and settings (TwinQueue and TwinDelivery fields).
THEOREM TypeCorrect == Spec => []TypeOK
  <1>1. IndInv => TypeOK
    BY DEF IndInv
  <1> QED
    BY <1>1, Invariance, PTL

\* What TwinDelivery marks as in flight is always still queued.
THEOREM InflightStaysQueued == Spec => []InflightQueued
  <1>1. IndInv => InflightQueued
    BY DEF IndInv
  <1> QED
    BY <1>1, Invariance, PTL

\* A setting selected before and still queued is the one in flight.
THEOREM SelectedStaysInflight == Spec => []SelectedIsInflight
  <1>1. IndInv => SelectedIsInflight
    BY DEF IndInv
  <1> QED
    BY <1>1, Invariance, PTL

\* No path of the delivery weakens what the audit trail has confirmed.
THEOREM TrailsStrengthen == Spec => []AuditStrengthens
  <1>1. IndInv => AuditStrengthens
    BY DEF IndInv, AuditStrengthens, TrailInOrder
  <1> QED
    BY <1>1, Invariance, PTL

\* Until the server stops, deliver_pending never chooses a setting twice.
THEOREM NeverSelectedTwice == Spec => SelectedOnce
  <1>1. ASSUME IndInv, [Next]_vars
        PROVE  [up => \A s \in Sessions :
                  writing'[s] # writing[s] /\ writing'[s] # 0 => writing'[s] \notin selected]_vars
    <2> USE DEF twinVars, auditVars, sessionVars, envVars
    <2> SUFFICES ASSUME up, NEW s \in Sessions, writing'[s] # writing[s], writing'[s] # 0
                 PROVE  writing'[s] \notin selected
      OBVIOUS
    <2>1. writing \in [Sessions -> 0 .. Len(settings)]
      BY <1>1 DEF IndInv, TypeOK
    <2>2. Select
      <3>1. writing' # writing /\ ~ \E t \in Sessions : writing' = [writing EXCEPT ![t] = 0]
        BY <2>1
      <3>2. ~ \E t \in Sessions : SessionStep(t)
        BY <3>1
        DEF SessionStep, Open, FallBack, Close, Poll, PollOffline, WriteDone, WriteFails
      <3>3. ~ \E t \in Sessions : BoxAnswers(t) \/ CloudStep(t)
        BY <3>1
        DEF BoxAnswers, Answer, CloudStep, CloudForward, CloudTrack, CloudIncomplete, CloudEnd
      <3>4. ~(DropTimedOut \/ CheckSession \/ AckTodo \/ AckEvent \/ AckReason \/ Nack)
        BY <3>1 DEF DropTimedOut, CheckSession, AckTodo, AckEvent, AckReason, Nack, AnswerUnchanged
      <3>5. ~(HandlerStep \/ Tick \/ Shutdown \/ UNCHANGED vars
                \/ \E n \in Names, v \in Values : Receive(n, v))
        BY <3>1 DEF HandlerStep, Receive, Supersede, Enqueue, Tick, Shutdown, vars
      <3> QED
        BY <1>1, <3>2, <3>3, <3>4, <3>5 DEF Next, LoopStep
    <2>3. PICK n \in Names : inflight = NoFlight /\ writing'[s] = queue[n]
      BY <2>1, <2>2 DEF Select
    <2> QED
      BY <1>1, <2>3, TwinAssumption DEF IndInv, SelectedIsInflight, NoFlight
  <1> QED
    BY <1>1, Invariance, PTL DEF Spec, SelectedOnce

------------------------------------------------------------------------------
(* The entries of the sessions.                                             *)

\* Only an open session has an entry or a frame of its own that is handled.
OpenInv ==
    /\ EntriesOfOpenSessions
    /\ loop # Idle => \A s \in Sessions : loop.sid = s => session[s] # "closed"

\* The next part of a frame belongs to the same session.
LEMMA SameSession ==
    ASSUME IndInv, NextPart, loop # Idle
    PROVE  loop' = Idle \/ loop'.sid = loop.sid
  <1>1. loop \in PollLoops \/ loop \in AnswerLoops
    BY DEF IndInv, TypeOK, LoopTypes
  <1> QED
    BY <1>1 DEF NextPart, PollLoops, AnswerLoops

\* Every step keeps entries to open sessions.
LEMMA OpenStep == IndInv /\ OpenInv /\ [Next]_vars => OpenInv'
  <1> SUFFICES ASSUME IndInv, OpenInv, [Next]_vars PROVE OpenInv'
    OBVIOUS
  <1> USE DEF twinVars, auditVars, sessionVars, envVars
  <1>1. /\ sessionInflight \in [Sessions -> [name : Names, age : 0 .. Timeout] \cup {NoFlight}]
        /\ session \in [Sessions -> {"closed", "online", "offline"}]
        /\ NoSession \notin Sessions
    BY TwinAssumption DEF IndInv, TypeOK, EntryTypes
  <1>2. ASSUME UNCHANGED <<sessionInflight, session>>, loop' = Idle \/ loop' = loop PROVE OpenInv'
    BY <1>2 DEF OpenInv, EntriesOfOpenSessions
  <1>3. CASE \/ \E n \in Names, v \in Values : Receive(n, v)
             \/ HandlerStep \/ Shutdown \/ UNCHANGED vars
    BY <1>2, <1>3 DEF Receive, HandlerStep, Supersede, Enqueue, Shutdown, vars
  <1>4. ASSUME loop # Idle, NextPart, session' = session,
               \A s \in Sessions : sessionInflight'[s] # NoFlight => sessionInflight[s] # NoFlight
        PROVE  OpenInv'
    <2>1. loop' = Idle \/ loop'.sid = loop.sid
      BY <1>4, SameSession
    <2>2. loop' = Idle \/ (loop # Idle /\ \A s \in Sessions : loop'.sid = s => loop.sid = s)
      BY <1>4, <2>1
    <2> QED
      BY <1>4, <2>2 DEF OpenInv, EntriesOfOpenSessions
  <1>5. \A part : Part(part) => loop # Idle
    BY DEF Part, Idle
  <1>6. CASE DropTimedOut
    <2>1. loop # Idle /\ NextPart /\ session' = session /\ sessionInflight' = sessionInflight
      BY <1>5, <1>6 DEF DropTimedOut
    <2> QED
      BY <1>4, <2>1
  <1>7. CASE CheckSession
    <2>1. /\ session' = session /\ loop # Idle
          /\ \A s \in Sessions : sessionInflight'[s] # NoFlight => sessionInflight[s] # NoFlight
      BY <1>1, <1>5, <1>7 DEF CheckSession
    <2>2. NextPart \/ loop' = Idle
      BY <1>7 DEF CheckSession
    <2> QED
      BY <1>4, <2>1, <2>2 DEF OpenInv, EntriesOfOpenSessions
  <1>8. CASE Select
    <2>1. session' = session /\ loop # Idle /\ loop' = Idle
      BY <1>5, <1>8 DEF Select
    <2>2. \A s \in Sessions :
             sessionInflight'[s] # NoFlight => sessionInflight[s] # NoFlight \/ s = loop.sid
      BY <1>1, <1>8 DEF Select
    <2>3. EntriesOfOpenSessions'
      BY <2>1, <2>2 DEF OpenInv, EntriesOfOpenSessions
    <2> QED
      BY <2>1, <2>3 DEF OpenInv
  <1>9. ASSUME NEW n, NEW sid, Acknowledge(n, sid)
        PROVE  \A s \in Sessions : sessionInflight'[s] # NoFlight => sessionInflight[s] # NoFlight
    BY <1>9 DEF Acknowledge
  <1>10. CASE AckTodo \/ AckEvent \/ AckReason \/ Nack
    <2>1. loop # Idle /\ NextPart /\ session' = session
      BY <1>5, <1>10 DEF AckTodo, AckEvent, AckReason, Nack, AnswerUnchanged
    <2>2. sessionInflight' = sessionInflight \/ \E n, sid : Acknowledge(n, sid)
      BY <1>10 DEF AckTodo, AckEvent, AckReason, Nack
    <2> QED
      BY <1>4, <1>9, <2>1, <2>2
  <1>11. ASSUME NEW s \in Sessions, Open(s) \/ FallBack(s) PROVE OpenInv'
    <2>1. /\ UNCHANGED <<sessionInflight, loop>>
          /\ \A t \in Sessions : session'[t] = "closed" => session[t] = "closed"
      BY <1>1, <1>11 DEF Open, FallBack
    <2> QED
      BY <2>1 DEF OpenInv, EntriesOfOpenSessions
  <1>12. ASSUME NEW s \in Sessions, Close(s) PROVE OpenInv'
    <2>1. /\ sessionInflight'[s] = NoFlight /\ loop' = Idle
          /\ \A t \in Sessions \ {s} : sessionInflight'[t] = sessionInflight[t] /\ session'[t] = session[t]
      BY <1>1, <1>12 DEF Close, LoopFree
    <2> QED
      BY <2>1 DEF OpenInv, EntriesOfOpenSessions
  <1>13. ASSUME NEW s \in Sessions, Poll(s) \/ PollOffline(s) PROVE OpenInv'
    <2>1. /\ UNCHANGED <<sessionInflight, session>> /\ session[s] # "closed"
          /\ loop' = Idle \/ loop'.sid \in {s, NoSession}
      BY <1>13 DEF Poll, PollOffline, BoxReadable
    <2> QED
      BY <1>1, <2>1 DEF OpenInv, EntriesOfOpenSessions
  <1>14. ASSUME NEW s \in Sessions, BoxAnswers(s) PROVE OpenInv'
    <2>1. PICK d \in received, shape \in Shapes, sid \in {NoSession, s} :
             \E dev \in Devices \cup (IF shape = <<"event">> THEN {} ELSE {NoDevice}) :
                Answer(s, d, shape, dev, sid)
      BY <1>14 DEF BoxAnswers
    <2>2. /\ UNCHANGED <<sessionInflight, session>>
          /\ loop'.sid = sid /\ (sid = s => session[s] # "closed")
      BY <1>1, <2>1 DEF Answer, CloudReadable, BoxReadable
    <2> QED
      BY <1>1, <2>1, <2>2 DEF OpenInv, EntriesOfOpenSessions
  <1>15. ASSUME NEW s \in Sessions, WriteDone(s) \/ WriteFails(s) \/ CloudStep(s) PROVE OpenInv'
    BY <1>2, <1>15
    DEF WriteDone, WriteFails, CloudStep, CloudForward, CloudTrack, CloudIncomplete, CloudEnd
  <1>16. CASE Tick
    <2>1. UNCHANGED <<session, loop>>
      BY <1>16 DEF Tick
    <2>2. \A s \in Sessions : sessionInflight'[s] # NoFlight => sessionInflight[s] # NoFlight
      BY <1>1, <1>16 DEF Tick, Older
    <2> QED
      BY <2>1, <2>2 DEF OpenInv, EntriesOfOpenSessions
  <1> QED
    BY <1>3, <1>6, <1>7, <1>8, <1>10, <1>11, <1>12, <1>13, <1>14, <1>15, <1>16
    DEF Next, LoopStep, SessionStep

\* No session that has ended, however it did, leaves an entry that would block
\* the next one of the same id.
THEOREM EntriesEnd == Spec => []EntriesOfOpenSessions
  <1>1. Init => OpenInv
    BY DEF Init, OpenInv, EntriesOfOpenSessions
  <1>2. OpenInv => EntriesOfOpenSessions
    BY DEF OpenInv
  <1> QED
    BY <1>1, <1>2, OpenStep, Invariance, PTL DEF Spec

------------------------------------------------------------------------------
(* The refinement.  Settings keep their origin, so those of the queue are   *)
(* from MQTT, in the order in which they came.                              *)

SameOrigins == \A a \in AuditIds : settings'[a].src = settings[a].src
NewFromCloud == \A a \in AuditIds' \ AuditIds : settings'[a].src = "cloud"

\* Recording a step leaves the origin of every setting as it is.
LEMMA RecordingKeepsOrigin ==
    ASSUME IndInv, NEW tt, DOMAIN tt = AuditIds,
           \A a \in AuditIds :
              tt[a] = settings[a] \/ \E step \in OwnSteps : tt[a] = Recorded(settings[a], step)
    PROVE  \A a \in AuditIds : tt[a].src = settings[a].src
  <1>1. \A a \in AuditIds : settings[a] \in SettingType /\ TrailInOrder(settings[a])
    BY ElementOfSeq, LenProperties DEF IndInv, TypeOK, AuditIds
  <1> QED
    BY <1>1, RecordedInOrder

\* No action changes where a setting is from, and only Receive adds one that
\* is not the cloud's.
LEMMA OriginStep ==
    ASSUME IndInv, [Next]_vars
    PROVE  SameOrigins /\ (NewFromCloud \/ \E n \in Names, v \in Values : Receive(n, v))
  <1>1. Grown /\ settings \in Seq(SettingType) /\ AuditIds = DOMAIN settings
    BY GrownFacts DEF Grown, AuditIds
  <1>2. ASSUME DOMAIN settings' = AuditIds,
               \A a \in AuditIds : \/ settings'[a] = settings[a]
                                   \/ \E step \in OwnSteps : settings'[a] = Recorded(settings[a], step)
        PROVE  SameOrigins /\ NewFromCloud
    BY <1>2, RecordingKeepsOrigin DEF SameOrigins, NewFromCloud, AuditIds
  <1>3. CASE settings' = settings
    BY <1>2, <1>3 DEF AuditIds
  <1>4. CASE \E step \in OwnSteps : \E a : settings' = Emit(settings, a, step)
    BY <1>2, <1>4 DEF Emit, AuditIds
  <1>5. CASE settings' = AfterExpiry
    BY <1>2, <1>5, OwnStepNames DEF AfterExpiry, AuditIds
  <1>6. ASSUME NEW n \in Names, NEW v \in Values, Receive(n, v) PROVE SameOrigins
    BY <1>1, <1>6 DEF Receive, SameOrigins, Grown
  <1>7. CASE Supersede
    <2>1. CASE handler.old = 0
      BY <1>3, <1>7, <2>1 DEF Supersede
    <2>2. CASE handler.old # 0
      <3>1. settings' = [settings EXCEPT ![handler.old].trail = Append(@, "superseded")]
        BY <1>7, <2>2 DEF Supersede
      <3>2. \A a \in AuditIds : settings[a] \in SettingType
        BY <1>1, ElementOfSeq DEF Grown
      <3>3. \A a \in AuditIds : settings'[a].src = settings[a].src
        BY <1>1, <3>1, <3>2 DEF SettingType
      <3> QED
        BY <1>1, <3>1, <3>3 DEF SameOrigins, NewFromCloud, AuditIds
    <2> QED
      BY <2>1, <2>2
  <1>8. ASSUME NEW s \in Sessions, NEW dev \in Devices, CloudTrack(s, dev)
        PROVE  SameOrigins /\ NewFromCloud
    <2> DEFINE e == NewSetting(forwarding[s].name, forwarding[s].value, "cloud")
    <2>1. settings' = Append(AfterExpiry, e) /\ e.src = "cloud"
      BY <1>8 DEF CloudTrack, NewSetting
    <2>2. /\ \A a \in AuditIds : AfterExpiry[a].src = settings[a].src
          /\ AfterExpiry \in Seq(SettingType) /\ Len(AfterExpiry) = Len(settings)
      <3>1. /\ DOMAIN AfterExpiry = AuditIds
            /\ \A a \in AuditIds :
                  \/ AfterExpiry[a] = settings[a]
                  \/ \E step \in OwnSteps : AfterExpiry[a] = Recorded(settings[a], step)
        BY OwnStepNames DEF AfterExpiry, AuditIds
      <3>2. GoodSettings(settings)
        BY DEF IndInv, TypeOK, GoodSettings, AuditIds
      <3> QED
        BY <3>1, <3>2, ExpiryKeeps, RecordingKeepsOrigin DEF GoodSettings
    <2>3. \A a \in AuditIds : settings'[a] = AfterExpiry[a]
      BY <1>1, <2>1, <2>2 DEF Grown
    <2>4. Len(settings') = Len(settings) + 1 /\ settings'[Len(settings) + 1] = e
      BY <1>1, <2>1, <2>2 DEF Grown
    <2> QED
      BY <1>1, <2>1, <2>2, <2>3, <2>4 DEF SameOrigins, NewFromCloud, Grown
  <1>9. CASE Shutdown
    <2>1. \A a \in AuditIds :
             settings'[a] = settings[a] \/ settings'[a] = Recorded(settings[a], "session_cleared")
      BY <1>9 DEF Shutdown, AuditIds
    <2>2. DOMAIN settings' = AuditIds
      BY <1>9 DEF Shutdown, AuditIds
    <2> QED
      BY <1>2, <2>1, <2>2, OwnStepNames
  <1>10. CASE LoopStep
    BY <1>3, <1>4, <1>10, OwnStepNames
    DEF LoopStep, DropTimedOut, CheckSession, Select, AckTodo, AckEvent, AckReason, Nack
  <1>11. CASE \E s \in Sessions : SessionStep(s)
    BY <1>3, <1>4, <1>5, <1>11, OwnStepNames
    DEF SessionStep, Open, FallBack, Close, Poll, PollOffline, WriteDone,
        WriteFails, AfterWrite, ExpireCloudPending, auditVars
  <1>12. CASE \E s \in Sessions : BoxAnswers(s)
    BY <1>5, <1>12 DEF BoxAnswers, Answer, ExpireCloudPending
  <1>13. CASE \E s \in Sessions : CloudStep(s)
    BY <1>3, <1>5, <1>8, <1>13
    DEF CloudStep, CloudForward, CloudIncomplete, CloudEnd, ExpireCloudPending, auditVars
  <1>14. CASE Enqueue \/ Tick \/ UNCHANGED vars
    BY <1>3, <1>14 DEF Enqueue, Tick, vars, auditVars
  <1> QED
    BY <1>6, <1>7, <1>9, <1>10, <1>11, <1>12, <1>13, <1>14 DEF Next, HandlerStep

\* What the refinement needs beyond IndInv: the queue holds settings from MQTT,
\* and the one that is about to be queued is the newest of them.
QueueInv ==
    /\ \A n \in Names : queue[n] # 0 => settings[queue[n]].src = "local"
    /\ handler # Waiting =>
          /\ settings[handler.aid].src = "local"
          /\ \A a \in AuditIds : settings[a].src = "local" => a <= handler.aid

\* Every step keeps QueueInv.
LEMMA QueueInvStep == IndInv /\ QueueInv /\ [Next]_vars => QueueInv'
  <1> SUFFICES ASSUME IndInv, QueueInv, [Next]_vars PROVE QueueInv'
    OBVIOUS
  <1> USE DEF twinVars, auditVars, sessionVars, envVars
  <1>1. Grown /\ SameOrigins /\ (NewFromCloud \/ \E n \in Names, v \in Values : Receive(n, v))
    BY GrownFacts, OriginStep
  <1>2. queue \in [Names -> 0 .. Len(settings)] /\ \A n \in Names : queue[n] # 0 => queue[n] \in AuditIds
    BY <1>1 DEF IndInv, TypeOK, EntryTypes, Grown
  <1>3. handler # Waiting => handler.aid \in AuditIds /\ handler.name \in Names
    BY DEF IndInv, TypeOK, HandlerTypes
  <1>4. ASSUME NewFromCloud, \A n \in Names : queue'[n] \in {0, queue[n]},
               handler' = Waiting \/ (handler # Waiting /\ handler' # Waiting /\ handler'.aid = handler.aid)
        PROVE  QueueInv'
    <2>1. \A n \in Names : queue'[n] # 0 => settings'[queue'[n]].src = "local"
      BY <1>1, <1>2, <1>4 DEF QueueInv, SameOrigins
    <2>2. \A a \in AuditIds' : settings'[a].src = "local" => a \in AuditIds /\ settings[a].src = "local"
      BY <1>1, <1>4 DEF NewFromCloud, SameOrigins
    <2>3. handler' # Waiting =>
            /\ settings'[handler'.aid].src = "local"
            /\ \A a \in AuditIds' : settings'[a].src = "local" => a <= handler'.aid
      BY <1>1, <1>3, <1>4, <2>2 DEF QueueInv, SameOrigins
    <2> QED
      BY <2>1, <2>3 DEF QueueInv
  <1>6. ASSUME NEW n \in Names, NEW v \in Values, Receive(n, v) PROVE QueueInv'
    <2>1. /\ queue' = queue /\ settings' = Append(settings, NewSetting(n, v, "local"))
          /\ handler' = [pc |-> "looked_up", name |-> n, aid |-> Len(settings) + 1, old |-> queue[n]]
      BY <1>6 DEF Receive
    <2>2. settings'[Len(settings) + 1] = NewSetting(n, v, "local") /\ Len(settings') = Len(settings) + 1
      BY <1>1, <2>1 DEF Grown
    <2>3. handler'.aid = Len(settings) + 1 /\ settings'[handler'.aid].src = "local"
      BY <2>1, <2>2 DEF NewSetting
    <2>4. \A a \in AuditIds' : a <= handler'.aid
      BY <1>1, <2>2, <2>3 DEF Grown
    <2>5. \A m \in Names : queue'[m] # 0 => settings'[queue'[m]].src = "local"
      BY <1>1, <1>2, <2>1 DEF QueueInv, SameOrigins
    <2> QED
      BY <2>3, <2>4, <2>5 DEF QueueInv
  <1>7. CASE Supersede
    <2>1. /\ handler # Waiting /\ handler' # Waiting /\ handler'.aid = handler.aid
      <3>1. handler.pc = "looked_up" /\ handler # Waiting
        BY <1>7 DEF Supersede, Waiting
      <3>2. handler \in [pc : {"looked_up", "marked"}, name : Names,
                         aid : AuditIds, old : 0 .. Len(settings)]
        BY <3>1 DEF IndInv, TypeOK, HandlerTypes
      <3>3. handler' = [handler EXCEPT !.pc = "marked"]
        BY <1>7 DEF Supersede
      <3>4. handler'.pc = "marked" /\ handler'.aid = handler.aid
        BY <3>2, <3>3
      <3> QED
        BY <3>1, <3>4 DEF Waiting
    <2>2. queue' = queue /\ ~\E n \in Names, v \in Values : Receive(n, v)
      BY <1>7, <2>1 DEF Supersede, Receive
    <2> QED
      BY <1>1, <1>4, <2>1, <2>2
  <1>8. CASE Enqueue
    <2>1. handler # Waiting /\ handler' = Waiting /\ settings' = settings
      BY <1>8 DEF Enqueue, Waiting
    <2>2. \A m \in Names : queue'[m] = IF m = handler.name THEN handler.aid ELSE queue[m]
      BY <1>2, <1>8 DEF Enqueue
    <2> QED
      BY <2>1, <2>2 DEF QueueInv
  <1>9. ASSUME UNCHANGED handler, \A n \in Names : queue'[n] \in {0, queue[n]},
               ~(\E n \in Names, v \in Values : Receive(n, v))
        PROVE  QueueInv'
    BY <1>1, <1>4, <1>9
  <1>10. ASSUME UNCHANGED handler PROVE ~(\E n \in Names, v \in Values : Receive(n, v))
    BY <1>10 DEF Receive, Waiting
  <1>11. CASE DropTimedOut
    BY <1>9, <1>10, <1>11, DropKeeps DEF DropTimedOut
  <1>12. CASE AckTodo \/ AckEvent \/ AckReason \/ Nack
    <2>1. UNCHANGED handler
      BY <1>12 DEF AckTodo, AckEvent, AckReason, Nack, AnswerUnchanged
    <2>2. \A m \in Names : queue'[m] \in {0, queue[m]}
      BY <1>2, <1>12 DEF AckTodo, AckEvent, AckReason, Nack, Acknowledge
    <2> QED
      BY <1>9, <1>10, <2>1, <2>2
  <1>13. CASE \/ CheckSession \/ Select \/ Tick \/ Shutdown \/ UNCHANGED vars
              \/ \E s \in Sessions : SessionStep(s) \/ BoxAnswers(s) \/ CloudStep(s)
    <2>1. UNCHANGED <<queue, handler>>
      BY <1>13
      DEF CheckSession, Select, Tick, Shutdown, vars,
          SessionStep, Open, FallBack, Close, Poll, PollOffline, WriteDone, WriteFails,
          BoxAnswers, Answer, CloudStep, CloudForward, CloudTrack, CloudIncomplete, CloudEnd
    <2> QED
      BY <1>9, <1>10, <2>1
  <1> QED
    BY <1>6, <1>7, <1>8, <1>11, <1>12, <1>13 DEF Next, HandlerStep, LoopStep

\* A step that leaves queue, selection and the handler's setting alone is none
\* of the abstract queue.
LEMMA QuietQueue ==
    ASSUME IndInv, [Next]_vars, NewFromCloud, UNCHANGED <<queue, selected, up, handler>>,
           inflight'.name = inflight.name, (inflight' = NoFlight) <=> (inflight = NoFlight)
    PROVE  UNCHANGED Queue!queueVars
  <1>1. Grown /\ SameOrigins
    BY GrownFacts, OriginStep
  <1>2. UNCHANGED SettingOut
    BY DEF SettingOut
  <1>3. \A a \in AuditIds' : settings'[a].src = "local" => a \in AuditIds
    BY DEF NewFromCloud
  <1>4. AuditIds \subseteq AuditIds' /\ Queued' = Queued
    BY <1>1 DEF Grown, Queued
  <1>5. UNCHANGED Gone
    BY <1>1, <1>3, <1>4 DEF Gone, SameOrigins
  <1> QED
    BY <1>2, <1>5 DEF Queue!queueVars

\* Taking a name out of the queue together with its mark.
LEMMA TakingOut ==
    ASSUME IndInv, QueueInv, [Next]_vars, NewFromCloud, NEW n \in Names, queue[n] # 0,
           queue' = [queue EXCEPT ![n] = 0],
           inflight' = IF inflight.name = n THEN NoFlight ELSE inflight,
           UNCHANGED <<selected, up, handler>>
    PROVE  Queue!Leave(n)
  <1>1. Grown /\ SameOrigins
    BY GrownFacts, OriginStep
  <1>2. queue \in [Names -> 0 .. Len(settings)]
    BY DEF IndInv, TypeOK, EntryTypes
  <1>3. queue'[n] = 0 /\ \A m \in Names : m # n => queue'[m] = queue[m] /\ queue[m] # queue[n]
    BY <1>2 DEF IndInv, QueueNames
  <1>4. inflight # NoFlight => inflight.name \in Names
    BY DEF IndInv, TypeOK, EntryTypes
  <1>5. SettingOut' = IF SettingOut = queue[n] THEN 0 ELSE SettingOut
    <2>1. CASE inflight = NoFlight
      BY <2>1 DEF SettingOut
    <2>2. CASE inflight # NoFlight /\ inflight.name = n
      BY <2>2 DEF SettingOut
    <2>3. CASE inflight # NoFlight /\ inflight.name # n
      <3>1. queue'[inflight.name] = queue[inflight.name] /\ queue[inflight.name] # queue[n]
        BY <1>3, <1>4, <2>3
      <3> QED
        BY <2>3, <3>1 DEF SettingOut
    <2> QED
      BY <2>1, <2>2, <2>3
  <1>6. Queued' = Queued \ {queue[n]} /\ queue[n] \in Queued
    BY <1>3 DEF Queued
  <1>7. queue[n] \in AuditIds /\ settings[queue[n]].src = "local"
        /\ (handler # Waiting => handler.aid # queue[n])
    BY <1>1, <1>2 DEF Grown, QueueInv, IndInv, HandlerFresh
  <1>8. \A a \in AuditIds' : settings'[a].src = "local" => a \in AuditIds
    BY DEF NewFromCloud
  <1>9. Gone' = Gone \cup {queue[n]}
    BY <1>1, <1>6, <1>7, <1>8 DEF Gone, SameOrigins, Grown
  <1>10. {queue[n]} \ {0} = {queue[n]}
    OBVIOUS
  <1> QED
    BY <1>5, <1>9, <1>10 DEF Queue!Leave, Queue!Replace

\* Every step of the delivery is a step of the abstract queue, or none.
LEMMA QueueStep == IndInv /\ QueueInv /\ [Next]_vars => [Queue!QueueNext]_(Queue!queueVars)
  <1> SUFFICES ASSUME IndInv, QueueInv, [Next]_vars
               PROVE  Queue!QueueNext \/ UNCHANGED Queue!queueVars
    OBVIOUS
  <1> USE DEF twinVars, auditVars, sessionVars, envVars
  <1>1. Grown /\ SameOrigins /\ (NewFromCloud \/ \E n \in Names, v \in Values : Receive(n, v))
    BY GrownFacts, OriginStep
  <1>2. /\ queue \in [Names -> 0 .. Len(settings)]
        /\ inflight \in [name : Names, age : 0 .. Timeout] \cup {NoFlight}
        /\ NoFlight.name \notin Names
    BY TwinAssumption DEF IndInv, TypeOK, EntryTypes, NoFlight
  <1>3. ASSUME UNCHANGED handler PROVE NewFromCloud
    BY <1>1, <1>3 DEF Receive, Waiting
  <1>4. ASSUME UNCHANGED <<queue, inflight, selected, up, handler>>
        PROVE  UNCHANGED Queue!queueVars
    BY <1>3, <1>4, QuietQueue
  <1>5. ASSUME NEW n \in Names, NEW v \in Values, Receive(n, v)
        PROVE  UNCHANGED Queue!queueVars
    <2>1. /\ UNCHANGED <<queue, inflight, selected, up>> /\ handler = Waiting
          /\ handler' # Waiting /\ handler'.aid = Len(settings) + 1
          /\ settings' = Append(settings, NewSetting(n, v, "local"))
      BY <1>5 DEF Receive, Waiting
    <2>2. AuditIds' = AuditIds \cup {Len(settings) + 1} /\ Len(settings) + 1 \notin AuditIds
      BY <1>1, <2>1 DEF Grown
    <2>3. Queued' = Queued /\ SettingOut' = SettingOut
      BY <2>1 DEF Queued, SettingOut
    <2>4. Gone' = Gone
      BY <1>1, <2>1, <2>2, <2>3 DEF Gone, SameOrigins
    <2> QED
      BY <2>1, <2>3, <2>4 DEF Queue!queueVars
  <1>6. CASE Supersede
    <2>1. handler # Waiting /\ handler' # Waiting /\ handler'.aid = handler.aid
      <3>1. handler.pc = "looked_up" /\ handler # Waiting
        BY <1>6 DEF Supersede, Waiting
      <3>2. handler \in [pc : {"looked_up", "marked"}, name : Names,
                         aid : AuditIds, old : 0 .. Len(settings)]
        BY <3>1 DEF IndInv, TypeOK, HandlerTypes
      <3>3. handler' = [handler EXCEPT !.pc = "marked"]
        BY <1>6 DEF Supersede
      <3>4. handler'.pc = "marked" /\ handler'.aid = handler.aid
        BY <3>2, <3>3
      <3> QED
        BY <3>1, <3>4 DEF Waiting
    <2>2. UNCHANGED <<queue, inflight, selected, up>> /\ NewFromCloud
      BY <1>1, <1>6, <2>1 DEF Supersede, Receive
    <2>3. Queued' = Queued /\ SettingOut' = SettingOut
      BY <2>2 DEF Queued, SettingOut
    <2>4. Gone' = Gone
      BY <1>1, <2>1, <2>2, <2>3 DEF Gone, SameOrigins, NewFromCloud, Grown
    <2> QED
      BY <2>2, <2>3, <2>4 DEF Queue!queueVars
  <1>7. CASE Enqueue
    <2> DEFINE n == handler.name
    <2>1. /\ handler # Waiting /\ handler.aid \in AuditIds /\ n \in Names
      BY <1>7 DEF Enqueue, Waiting, IndInv, TypeOK, HandlerTypes
    <2>2. /\ queue' = [queue EXCEPT ![n] = handler.aid] /\ handler' = Waiting
          /\ UNCHANGED <<inflight, selected, up, settings>>
      BY <1>7 DEF Enqueue
    <2>3. /\ handler.aid \notin selected /\ handler.aid # 0
          /\ \A m \in Names : queue[m] # handler.aid
          /\ settings[handler.aid].src = "local"
          /\ \A a \in AuditIds : settings[a].src = "local" => a <= handler.aid
      BY <1>1, <2>1 DEF IndInv, HandlerFresh, QueueInv, Grown
    <2>4. queue'[n] = handler.aid /\ \A m \in Names : m # n => queue'[m] = queue[m]
      BY <1>2, <2>1, <2>2
    <2>5. \A m \in Names : queue[m] < queue'[n]
      <3>1. ASSUME NEW m \in Names PROVE queue[m] < handler.aid
        <4>1. queue[m] # 0 => queue[m] \in AuditIds /\ settings[queue[m]].src = "local"
          BY <1>1, <1>2 DEF Grown, QueueInv
        <4> QED
          BY <1>1, <1>2, <2>1, <2>3, <4>1 DEF Grown
      <3> QED
        BY <2>4, <3>1
    <2>6. \A b \in Gone : b < queue'[n]
      BY <1>1, <2>1, <2>3, <2>4 DEF Gone, Grown
    <2>7. \A m \in Names : m # n => queue[m] # queue[n] \/ queue[n] = 0
      BY <2>1 DEF IndInv, QueueNames
    <2>8. Gone' = Gone \cup ({queue[n]} \ {0})
      <3>1. Queued' = (Queued \ {queue[n]}) \cup {handler.aid}
        BY <2>1, <2>3, <2>4, <2>7 DEF Queued
      <3>2. queue[n] # 0 => queue[n] \in AuditIds /\ settings[queue[n]].src = "local" /\ queue[n] \in Queued
        BY <1>1, <1>2, <2>1 DEF Grown, QueueInv, Queued
      <3>3. AuditIds' = AuditIds /\ settings' = settings /\ 0 \notin AuditIds
        BY <1>1, <2>2 DEF Grown, AuditIds
      <3>4. handler.aid \notin Queued /\ queue[n] # handler.aid
        BY <2>1, <2>3 DEF Queued
      <3>5. ASSUME NEW a \in AuditIds, settings[a].src = "local"
            PROVE  a \notin Queued' <=> (a \notin Queued /\ a # handler.aid) \/ a = queue[n]
        BY <3>1, <3>2, <3>4
      <3> QED
        BY <2>1, <2>2, <3>2, <3>3, <3>5 DEF Gone
    <2>9. SettingOut' = IF SettingOut = queue[n] THEN 0 ELSE SettingOut
      <3>1. CASE inflight = NoFlight
        BY <2>2, <3>1 DEF SettingOut
      <3>2. CASE inflight # NoFlight /\ inflight.name = n
        <4>1. SettingOut' = 0
          BY <2>2, <2>3, <2>4, <3>2 DEF SettingOut
        <4> QED
          BY <3>2, <4>1 DEF SettingOut
      <3>3. CASE inflight # NoFlight /\ inflight.name # n
        <4>1. inflight.name \in Names /\ queue'[inflight.name] = queue[inflight.name]
          BY <1>2, <2>4, <3>3
        <4>2. queue[inflight.name] # queue[n] \/ queue[n] = 0
          BY <2>7, <3>3, <4>1
        <4> QED
          BY <2>2, <3>3, <4>1, <4>2 DEF SettingOut
      <3> QED
        BY <3>1, <3>2, <3>3
    <2>10. Queue!Submit(n)
      BY <2>2, <2>4, <2>5, <2>6, <2>8, <2>9 DEF Queue!Submit, Queue!Replace
    <2> QED
      BY <2>1, <2>10 DEF Queue!QueueNext
  <1>8. CASE Select
    <2>1. UNCHANGED <<queue, settings, up, handler>>
      BY <1>8 DEF Select
    <2>2. CASE UNCHANGED <<inflight, selected>>
      BY <1>4, <2>1, <2>2
    <2>3. ASSUME NEW n \in Names, inflight = NoFlight, FirstQueued(n),
                 inflight' = [name |-> n, age |-> 0], selected' = selected \cup {queue[n]}
          PROVE  Queue!QueueNext
      <3>1. SettingOut = 0
        BY <2>3 DEF SettingOut
      <3>2. inflight' # NoFlight /\ inflight'.name = n
        BY <1>2, <2>3
      <3>3. SettingOut' = queue[n]
        BY <2>1, <2>3, <3>2 DEF SettingOut
      <3>4. Gone' = Gone
        BY <2>1 DEF Gone, Queued, AuditIds
      <3>5. Queue!Send(n)
        BY <2>1, <2>3, <3>1, <3>3, <3>4 DEF Queue!Send, FirstQueued
      <3> QED
        BY <3>5 DEF Queue!QueueNext
    <2> QED
      BY <1>8, <2>2, <2>3 DEF Select
  <1>9. ASSUME UNCHANGED <<selected, up, handler>>, NEW n \in Names,
               inflight.name = n \/ queue[n] # 0,
               queue' = [queue EXCEPT ![n] = 0],
               inflight' = IF inflight.name = n THEN NoFlight ELSE inflight
        PROVE  Queue!QueueNext
    <2>1. queue[n] # 0
      BY <1>2, <1>9 DEF IndInv, InflightQueued
    <2>2. Queue!Leave(n)
      BY <1>3, <1>9, <2>1, TakingOut
    <2> QED
      BY <2>2 DEF Queue!QueueNext
  <1>10. CASE DropTimedOut
    <2>1. UNCHANGED <<selected, up, handler>>
      BY <1>10 DEF DropTimedOut
    <2>2. CASE inflight.name # NoName /\ inflight.age = Timeout
      <3>1. inflight.name \in Names
        BY <1>2, <2>2 DEF NoFlight
      <3>2. queue' = [queue EXCEPT ![inflight.name] = 0] /\ inflight' = NoFlight
        BY <1>10, <2>2 DEF DropTimedOut
      <3> QED
        BY <1>9, <2>1, <3>1, <3>2
    <2>3. CASE ~(inflight.name # NoName /\ inflight.age = Timeout)
      BY <1>4, <1>10, <2>1, <2>3 DEF DropTimedOut
    <2> QED
      BY <2>2, <2>3
  <1>11. CASE AckTodo \/ AckEvent \/ AckReason \/ Nack
    <2>1. UNCHANGED <<selected, up, handler>>
      BY <1>11 DEF AckTodo, AckEvent, AckReason, Nack, AnswerUnchanged
    <2>2. \/ UNCHANGED <<queue, inflight>>
          \/ \E n, sid : n \in Names /\ Acknowledge(n, sid)
      <3>1. \E part \in AnswerParts : Part(part)
        BY <1>11 DEF AckTodo, AckEvent, AckReason, Nack, AnswerParts
      <3>2. loop.name \in Names /\ loop.snap \in 0 .. Len(settings)
        BY <3>1, AnswerAtHand DEF AnswerLoops, IndInv, TypeOK
      <3>3. loop.snap # 0 => settings[loop.snap].name \in Names
        <4>1. loop.snap # 0 => settings[loop.snap] \in SettingType
          BY <1>1, <3>2, ElementOfSeq DEF Grown
        <4> QED
          BY <4>1 DEF SettingType
      <3> QED
        BY <1>11, <3>2, <3>3 DEF AckTodo, AckEvent, AckReason, Nack
    <2>3. ASSUME NEW n \in Names, NEW sid, Acknowledge(n, sid)
          PROVE  Queue!QueueNext \/ UNCHANGED Queue!queueVars
      <3>1. CASE inflight.name = n \/ queue[n] # 0
        BY <1>9, <2>1, <2>3, <3>1 DEF Acknowledge
      <3>2. CASE ~(inflight.name = n \/ queue[n] # 0)
        BY <1>4, <2>1, <2>3, <3>2 DEF Acknowledge
      <3> QED
        BY <3>1, <3>2
    <2> QED
      BY <1>4, <2>1, <2>2, <2>3
  <1>12. CASE Shutdown
    <2>1. UNCHANGED <<queue, selected, handler>> /\ up /\ up' = FALSE /\ inflight' = NoFlight
      BY <1>12 DEF Shutdown, LoopFree
    <2>2. SettingOut' = 0
      BY <2>1 DEF SettingOut
    <2>3. AuditIds' = AuditIds /\ Queued' = Queued
      BY <1>12, <2>1 DEF Shutdown, AuditIds, Queued
    <2>4. Gone' = Gone
      BY <1>1, <2>1, <2>3 DEF Gone, SameOrigins
    <2>5. Queue!Stop
      BY <2>1, <2>2, <2>4 DEF Queue!Stop
    <2> QED
      BY <2>5 DEF Queue!QueueNext
  <1>13. CASE Tick
    <2>1. /\ UNCHANGED <<queue, selected, up, handler>> /\ inflight' = Older(inflight)
      BY <1>13 DEF Tick
    <2>2. inflight'.name = inflight.name /\ (inflight' = NoFlight <=> inflight = NoFlight)
      BY <1>2, <2>1 DEF Older
    <2> QED
      BY <1>3, <2>1, <2>2, QuietQueue
  <1>14. CASE \/ CheckSession \/ UNCHANGED vars
              \/ \E s \in Sessions : SessionStep(s) \/ BoxAnswers(s) \/ CloudStep(s)
    <2>1. UNCHANGED <<queue, inflight, selected, up, handler>>
      BY <1>14
      DEF CheckSession, vars,
          SessionStep, Open, FallBack, Close, Poll, PollOffline, WriteDone, WriteFails,
          BoxAnswers, Answer, CloudStep, CloudForward, CloudTrack, CloudIncomplete, CloudEnd
    <2> QED
      BY <1>4, <2>1
  <1> QED
    BY <1>5, <1>6, <1>7, <1>8, <1>10, <1>11, <1>12, <1>13, <1>14 DEF Next, HandlerStep, LoopStep

\* For any names, sessions, devices and forms of answer, the settings received
\* over MQTT leave the proxy as SettingQueue promises: in order, one out at a
\* time, and none a second time.
THEOREM DeliveryImplementsQueue == Spec => ImplementsQueue
  <1>1. Init => Queue!QueueInit /\ QueueInv
    BY DEF Init, Queue!QueueInit, SettingOut, Gone, QueueInv, AuditIds, Waiting
  <1> QED
    BY <1>1, QueueInvStep, QueueStep, Invariance, PTL DEF Spec, ImplementsQueue, Queue!QueueSpec

\* A setting received over MQTT that has left the queue, by an answer, a
\* replacement or a timeout, stays out of it.
THEOREM NoneComesBack == Spec => [][Gone \subseteq Gone' /\ Gone \cap Queued' = {}]_vars
  <1>1. IndInv /\ QueueInv /\ [Next]_vars => Gone \subseteq Gone'
    <2> SUFFICES ASSUME IndInv, QueueInv, [Next]_vars PROVE Gone \subseteq Gone'
      OBVIOUS
    <2>1. Queue!QueueNext \/ UNCHANGED Queue!queueVars
      BY QueueStep
    <2>2. CASE UNCHANGED Queue!queueVars
      BY <2>2 DEF Queue!queueVars
    <2>3. CASE Queue!QueueNext
      BY <2>3 DEF Queue!QueueNext, Queue!Stop, Queue!Submit, Queue!Send, Queue!Leave, Queue!Replace
    <2> QED
      BY <2>1, <2>2, <2>3
  <1>2. Gone' \cap Queued' = {}
    BY DEF Gone
  <1>3. IndInv /\ QueueInv /\ [Next]_vars => [Gone \subseteq Gone' /\ Gone \cap Queued' = {}]_vars
    BY <1>1, <1>2
  <1>4. Init => QueueInv
    BY DEF Init, QueueInv, SettingOut, Gone, AuditIds, Waiting
  <1> QED
    BY <1>3, <1>4, QueueInvStep, Invariance, PTL DEF Spec

------------------------------------------------------------------------------
(* The audit records of the settings of the cloud.                         *)

\* What AuditInv says of one setting.
HasRecord(s) == s.last # "none" => s.trail # <<>>

\* What _record_audit_step leaves behind: a record, new or earlier.
LEMMA RecordedLeavesRecord ==
    ASSUME NEW s \in SettingType, HasRecord(s), NEW step \in OwnSteps
    PROVE  Recorded(s, step).trail # <<>>
  <1>1. CASE ~StrongerAck(step, s.last)
    BY <1>1 DEF Recorded, StrongerAck, HasRecord
  <1>2. CASE StrongerAck(step, s.last)
    <2>1. step \in TerminalSteps /\ s.trail \in Seq(TerminalSteps)
      BY DEF OwnSteps, SettingType
    <2>2. Len(Append(s.trail, step)) = Len(s.trail) + 1 /\ Len(s.trail) \in Nat
      BY <2>1, AppendFacts, LenProperties
    <2>3. Append(s.trail, step) # <<>>
      BY <2>2, EmptySeq
    <2>4. Recorded(s, step).trail = Append(s.trail, step)
      BY <1>2 DEF Recorded, SettingType
    <2> QED
      BY <2>3, <2>4
  <1> QED
    BY <1>1, <1>2

\* The settings with steps recorded in some of them, and nothing else.
RecordsOnly(tt) ==
    /\ DOMAIN tt = AuditIds
    /\ \A a \in AuditIds :
          tt[a] = settings[a] \/ \E step \in OwnSteps : tt[a] = Recorded(settings[a], step)

\* An action records steps, before or without appending a new setting, or it is
\* the one that records SUPERSEDED.
LEMMA SettingsChange ==
    ASSUME IndInv, [Next]_vars
    PROVE  \/ RecordsOnly(settings')
           \/ \E tt \in Seq(SettingType) : \E n \in Names, v \in Values, origin \in {"local", "cloud"} :
                 RecordsOnly(tt) /\ settings' = Append(tt, NewSetting(n, v, origin))
           \/ /\ Supersede /\ handler.old # 0
              /\ settings' = [settings EXCEPT ![handler.old].trail = Append(@, "superseded")]
  <1> DEFINE Changed == \/ RecordsOnly(settings')
                        \/ \E tt \in Seq(SettingType) : \E n \in Names, v \in Values, origin \in {"local", "cloud"} :
                              RecordsOnly(tt) /\ settings' = Append(tt, NewSetting(n, v, origin))
  <1>1. settings \in Seq(SettingType) /\ RecordsOnly(settings)
    BY DEF IndInv, TypeOK, RecordsOnly, AuditIds
  <1>2. RecordsOnly(AfterExpiry) /\ AfterExpiry \in Seq(SettingType)
    <2>1. GoodSettings(settings)
      BY DEF IndInv, TypeOK, GoodSettings, AuditIds
    <2> QED
      BY <2>1, ExpiryKeeps, OwnStepNames DEF GoodSettings, RecordsOnly, AfterExpiry, AuditIds
  <1>3. ASSUME settings' = settings PROVE Changed
    BY <1>1, <1>3
  <1>4. ASSUME \E step \in OwnSteps : \E a : settings' = Emit(settings, a, step) PROVE Changed
    BY <1>4 DEF Emit, RecordsOnly, AuditIds
  <1>5. ASSUME settings' = AfterExpiry PROVE Changed
    BY <1>2, <1>5
  <1>6. ASSUME NEW n \in Names, NEW v \in Values, Receive(n, v) PROVE Changed
    BY <1>1, <1>6 DEF Receive
  <1>7. ASSUME Supersede
        PROVE  \/ Changed
               \/ /\ handler.old # 0
                  /\ settings' = [settings EXCEPT ![handler.old].trail = Append(@, "superseded")]
    BY <1>3, <1>7 DEF Supersede
  <1>8. ASSUME NEW s \in Sessions, NEW dev \in Devices, CloudTrack(s, dev) PROVE Changed
    <2>1. forwarding[s] \in Delivery
      BY <1>8 DEF CloudTrack, IndInv, TypeOK
    <2>2. forwarding[s].name \in Names /\ forwarding[s].value \in Values
      BY <2>1 DEF Delivery
    <2> QED
      BY <1>2, <1>8, <2>2 DEF CloudTrack
  <1>9. ASSUME Shutdown PROVE Changed
    BY <1>9, OwnStepNames DEF Shutdown, RecordsOnly, AuditIds
  <1> HIDE DEF Changed
  <1>10. ASSUME settings' = settings \/ settings' = AfterExpiry
                \/ \E step \in OwnSteps : \E a : settings' = Emit(settings, a, step)
         PROVE  Changed
    BY <1>3, <1>4, <1>5, <1>10
  <1>11. ASSUME LoopStep PROVE Changed
    BY <1>10, <1>11, OwnStepNames
    DEF LoopStep, DropTimedOut, CheckSession, Select, AckTodo, AckEvent, AckReason, Nack
  <1>12. ASSUME \E s \in Sessions : SessionStep(s) PROVE Changed
    BY <1>10, <1>12, OwnStepNames
    DEF SessionStep, Open, FallBack, Close, Poll, PollOffline, WriteDone,
        WriteFails, AfterWrite, ExpireCloudPending, auditVars
  <1>13. ASSUME \E s \in Sessions : BoxAnswers(s) PROVE Changed
    BY <1>10, <1>13 DEF BoxAnswers, Answer, ExpireCloudPending
  <1>14. ASSUME \E s \in Sessions : CloudStep(s) PROVE Changed
    BY <1>8, <1>10, <1>14
    DEF CloudStep, CloudForward, CloudIncomplete, CloudEnd, ExpireCloudPending, auditVars
  <1>15. ASSUME Enqueue \/ Tick \/ UNCHANGED vars PROVE Changed
    BY <1>10, <1>15 DEF Enqueue, Tick, vars, auditVars
  <1> QED
    BY <1>6, <1>7, <1>9, <1>11, <1>12, <1>13, <1>14, <1>15 DEF Next, HandlerStep, Changed

\* No action makes the collector remember a step that has no record.
LEMMA RecordsStep ==
    ASSUME IndInv, AuditInv, [Next]_vars
    PROVE  \A a \in AuditIds' : HasRecord(settings'[a])
  <1>1. settings \in Seq(SettingType) /\ AuditIds = DOMAIN settings /\ AuditIds' = DOMAIN settings'
    BY GrownFacts DEF Grown, AuditIds
  <1>2. \A a \in AuditIds : settings[a] \in SettingType /\ HasRecord(settings[a])
    BY <1>1, ElementOfSeq, LenProperties DEF AuditInv, HasRecord
  <1>3. ASSUME NEW tt, RecordsOnly(tt) PROVE \A a \in DOMAIN tt : HasRecord(tt[a])
    BY <1>2, <1>3, RecordedLeavesRecord DEF RecordsOnly, HasRecord
  <1>4. ASSUME NEW tt \in Seq(SettingType), NEW n \in Names, NEW v \in Values,
               NEW origin \in {"local", "cloud"},
               RecordsOnly(tt), settings' = Append(tt, NewSetting(n, v, origin))
        PROVE  \A a \in AuditIds' : HasRecord(settings'[a])
    <2> DEFINE e == NewSetting(n, v, origin)
    <2>1. e \in SettingType /\ HasRecord(e)
      BY EmptySeq DEF NewSetting, SettingType, HasRecord
    <2> HIDE DEF e
    <2>2. /\ DOMAIN tt = 1 .. Len(tt) /\ Len(tt) \in Nat
          /\ DOMAIN settings' = 1 .. Len(tt) + 1
          /\ \A i \in 1 .. Len(tt) : settings'[i] = tt[i]
          /\ settings'[Len(tt) + 1] = e
      BY <1>4, <2>1, AppendFacts, LenProperties DEF e
    <2> QED
      BY <1>1, <1>3, <1>4, <2>1, <2>2
  <1>5. ASSUME handler.old # 0, settings' = [settings EXCEPT ![handler.old].trail = Append(@, "superseded")]
        PROVE  \A a \in AuditIds' : HasRecord(settings'[a])
    <2>1. ASSUME NEW a \in AuditIds PROVE HasRecord(settings'[a])
      <3>1. CASE a # handler.old
        BY <1>1, <1>2, <1>5, <3>1
      <3>2. CASE a = handler.old
        <4>1. settings[a].trail \in Seq(TerminalSteps) /\ "superseded" \in TerminalSteps
          BY <1>2 DEF SettingType, TerminalSteps
        <4>2. Append(settings[a].trail, "superseded") # <<>>
          BY <4>1, AppendFacts, EmptySeq, LenProperties
        <4>3. settings'[a].trail = Append(settings[a].trail, "superseded")
          BY <1>1, <1>2, <1>5, <3>2 DEF SettingType
        <4> QED
          BY <4>2, <4>3 DEF HasRecord
      <3> QED
        BY <3>1, <3>2
    <2> QED
      BY <1>1, <1>5, <2>1
  <1>6. CASE RecordsOnly(settings')
    BY <1>1, <1>3, <1>6
  <1> QED
    BY <1>4, <1>5, <1>6, SettingsChange

\* What is in flight is first among the cloud's settings, when there are any.
SnapIsFirst == cloudPending # {} => \E p \in Oldest(cloudPending) : p.aid = loop.snap

\* A part of an answer that is not an ACK with table and key is its last.
LEMMA LastPart ==
    ASSUME LoopTypes, AuditInv, NEW part \in AnswerParts, Part(part), NextPart
    PROVE  /\ OnlyTodoFirst(loop.parts) /\ SnapIsFirst
           /\ part # "todo" => loop' = Idle
           /\ loop' # Idle => OnlyTodoFirst(loop'.parts) /\ loop'.snap = loop.snap
  <1>1. loop \in AnswerLoops /\ loop.parts \in Seq(AnswerParts) \ {<<>>}
    BY AnswerAtHand DEF AnswerLoops
  <1>2. OnlyTodoFirst(loop.parts) /\ SnapIsFirst
    BY DEF AuditInv, Answering, Part, SnapIsFirst
  <1>3. PICK parts \in Seq(AnswerParts) : parts = loop.parts
    BY <1>1
  <1>4. Len(parts) \in Nat /\ Len(parts) > 0 /\ Head(parts) = parts[1] /\ Head(parts) = part
    BY <1>1, <1>3, LenProperties, EmptySeq DEF Part
  <1>5. part # "todo" => loop' = Idle
    <2>1. part # "todo" => Len(parts) = 1
      <3>1. \A n \in Nat : n > 0 /\ n # 1 => 1 \in 1 .. n - 1
        OBVIOUS
      <3>2. \A i \in 1 .. Len(parts) - 1 : parts[i] = "todo"
        BY <1>2, <1>3 DEF OnlyTodoFirst
      <3> QED
        BY <1>4, <3>1, <3>2
    <2> QED
      BY <1>3, <2>1 DEF NextPart
  <1>6. ASSUME loop' # Idle PROVE OnlyTodoFirst(loop'.parts) /\ loop'.snap = loop.snap
    <2>1. Len(parts) # 1 /\ loop' = [loop EXCEPT !.parts = Tail(@)]
      BY <1>3, <1>6 DEF NextPart
    <2>2. loop'.parts = Tail(parts) /\ loop'.snap = loop.snap
      BY <1>1, <1>3, <2>1 DEF AnswerLoops
    <2>3. /\ Len(Tail(parts)) = Len(parts) - 1
          /\ \A i \in 1 .. Len(parts) - 1 : Tail(parts)[i] = parts[i + 1]
      BY <1>4
    <2>4. \A i \in 1 .. Len(Tail(parts)) - 1 : Tail(parts)[i] = "todo"
      <3> SUFFICES ASSUME NEW i \in 1 .. Len(Tail(parts)) - 1 PROVE Tail(parts)[i] = "todo"
        OBVIOUS
      <3>1. i \in 1 .. Len(parts) - 1 /\ i + 1 \in 1 .. Len(parts) - 1
        BY <1>4, <2>3
      <3> QED
        BY <1>2, <1>3, <2>3, <3>1 DEF OnlyTodoFirst
    <2> QED
      BY <2>2, <2>4 DEF OnlyTodoFirst
  <1> QED
    BY <1>2, <1>5, <1>6

\* When the loop has nothing at hand, or a poll, it answers nothing.
LEMMA NotAnswering ==
    ASSUME LoopTypes, \/ loop = Idle
                      \/ Part("drop") \/ Part("session") \/ Part("select")
    PROVE  /\ ~Answering
           /\ NextPart => ~Answering'
           /\ loop' \in {loop, Idle} => ~Answering'
  <1>1. ~Answering
    BY DEF Answering, Part, Idle, AnswerParts
  <1>2. loop' \in {loop, Idle} => ~Answering'
    BY <1>1 DEF Answering, Idle
  <1>3. ASSUME NextPart PROVE ~Answering'
    <2>1. CASE loop' = Idle
      BY <1>2, <2>1
    <2>2. CASE loop' # Idle
      <3>1. Len(loop.parts) # 1 /\ loop' = [loop EXCEPT !.parts = Tail(@)]
        BY <1>3, <2>2 DEF NextPart
      <3>2. CASE loop = Idle
        BY <3>1, <3>2, EmptySeq, LenProperties DEF Idle, Answering
      <3>3. CASE loop # Idle
        <4>1. loop \in PollLoops
          BY <3>3, PollAtHand
        <4>2. loop.parts \in PollParts /\ loop'.parts = Tail(loop.parts)
          BY <3>1, <4>1 DEF PollLoops
        <4>3. Head(loop'.parts) \in {"drop", "session", "select"}
          BY <3>1, <4>2, PollPartsLeft
        <4> QED
          BY <4>3 DEF Answering, AnswerParts
      <3> QED
        BY <3>2, <3>3
    <2> QED
      BY <2>1, <2>2
  <1> QED
    BY <1>1, <1>2, <1>3

\* inflight_setting() takes the oldest setting of the cloud, when there is one.
LEMMA AnswerFindsOldest ==
    ASSUME NEW s, NEW d, NEW shape \in Shapes, NEW dev, NEW sid, Answer(s, d, shape, dev, sid)
    PROVE  OnlyTodoFirst(loop'.parts) /\ SnapIsFirst'
  <1>1. PICK a \in 0 .. Len(settings) :
           /\ InflightSetting(a)
           /\ loop' = [parts |-> shape, name |-> d.name, value |-> d.value,
                       dev |-> dev, sid |-> sid, snap |-> a]
    BY DEF Answer
  <1>2. cloudPending' = Live /\ loop'.snap = a /\ loop'.parts = shape
    BY <1>1 DEF Answer, ExpireCloudPending
  <1>3. Live # {} => \E p \in Oldest(Live) : p.aid = a
    BY <1>1 DEF InflightSetting
  <1>4. SnapIsFirst'
    BY <1>2, <1>3 DEF SnapIsFirst, Oldest
  <1> QED
    BY <1>2, <1>4, AnswerAssumption DEF OnlyTodoFirst

\* Acknowledging another name leaves the first setting of the cloud first.
LEMMA AcknowledgeOther ==
    ASSUME SnapIsFirst, cloudPending \subseteq PendingOf(Len(settings)), Len(settings) \in Nat,
           NEW n, ~SnapIs(n), NEW sid, Acknowledge(n, sid), loop'.snap = loop.snap
    PROVE  SnapIsFirst'
  <1>1. CASE cloudPending' = cloudPending
    BY <1>1 DEF SnapIsFirst, Oldest
  <1>2. CASE cloudPending' # cloudPending
    <2>1. PICK p \in FirstPending(n) : cloudPending' = cloudPending \ {p}
      BY <1>2 DEF Acknowledge
    <2>2. p \in cloudPending /\ settings[p.aid].name = n
      BY <2>1 DEF FirstPending
    <2>3. PICK q \in Oldest(cloudPending) : q.aid = loop.snap
      BY <2>2 DEF SnapIsFirst
    <2>4. q \in cloudPending /\ q.aid # 0
      BY <2>3 DEF Oldest, PendingOf
    <2>5. q # p
      BY <2>2, <2>3, <2>4 DEF SnapIs
    <2>6. q \in Oldest(cloudPending \ {p})
      BY <2>3, <2>5 DEF Oldest
    <2>7. \E r \in Oldest(cloudPending \ {p}) : r.aid = loop.snap
      BY <2>3, <2>6
    <2> QED
      BY <2>1, <2>7 DEF SnapIsFirst, Oldest
  <1> QED
    BY <1>1, <1>2

\* Every step keeps AuditInv.
LEMMA AuditStep == IndInv /\ AuditInv /\ [Next]_vars => AuditInv'
  <1> SUFFICES ASSUME IndInv, AuditInv, [Next]_vars PROVE AuditInv'
    OBVIOUS
  <1> USE DEF twinVars, auditVars, sessionVars, envVars
  <1>1. \A a \in AuditIds' : settings'[a].last # "none" => settings'[a].trail # <<>>
    BY RecordsStep DEF HasRecord
  <1>2. LoopTypes /\ cloudPending \subseteq PendingOf(Len(settings)) /\ Len(settings) \in Nat
    BY GrownFacts DEF IndInv, TypeOK, EntryTypes, PendingOf, AuditIds, Grown
  <1>3. ASSUME ~Answering' PROVE AuditInv'
    BY <1>1, <1>3 DEF AuditInv
  <1>4. ASSUME OnlyTodoFirst(loop'.parts), SnapIsFirst' PROVE AuditInv'
    BY <1>1, <1>4 DEF AuditInv, SnapIsFirst
  <1>5. CASE UNCHANGED <<loop, cloudPending>>
    <2>1. CASE Answering
      <3>1. OnlyTodoFirst(loop.parts) /\ SnapIsFirst
        BY <2>1 DEF AuditInv, SnapIsFirst
      <3> QED
        BY <1>4, <1>5, <3>1 DEF OnlyTodoFirst, SnapIsFirst, Oldest
    <2>2. CASE ~Answering
      BY <1>3, <1>5, <2>2 DEF Answering
    <2> QED
      BY <2>1, <2>2
  <1>6. CASE LoopFree /\ loop' = loop
    BY <1>2, <1>3, <1>6, NotAnswering DEF LoopFree
  <1>7. CASE DropTimedOut \/ CheckSession \/ Select
    <2>1. Part("drop") \/ Part("session") \/ Part("select")
      BY <1>7 DEF DropTimedOut, CheckSession, Select
    <2>2. NextPart \/ loop' = Idle
      BY <1>7 DEF DropTimedOut, CheckSession, Select
    <2> QED
      BY <1>2, <1>3, <2>1, <2>2, NotAnswering
  <1>8. CASE AckTodo
    <2>1. /\ OnlyTodoFirst(loop.parts) /\ SnapIsFirst
          /\ loop' # Idle => OnlyTodoFirst(loop'.parts) /\ loop'.snap = loop.snap
      BY <1>2, <1>8, LastPart DEF AckTodo, AnswerParts
    <2>2. CASE loop' = Idle
      BY <1>3, <2>2 DEF Answering, Idle
    <2>3. CASE loop' # Idle /\ SnapIs(loop.name)
      <3>1. UNCHANGED cloudPending
        BY <1>8, <2>3 DEF AckTodo
      <3>2. SnapIsFirst'
        BY <2>1, <2>3, <3>1 DEF SnapIsFirst, Oldest
      <3> QED
        BY <1>4, <2>1, <2>3, <3>2
    <2>4. CASE loop' # Idle /\ ~SnapIs(loop.name)
      <3>1. Acknowledge(loop.name, loop.sid)
        BY <1>8, <2>4 DEF AckTodo
      <3>2. SnapIsFirst'
        BY <1>2, <2>1, <2>4, <3>1, AcknowledgeOther
      <3> QED
        BY <1>4, <2>1, <2>4, <3>2
    <2> QED
      BY <2>2, <2>3, <2>4
  <1>9. CASE AckEvent \/ AckReason \/ Nack
    <2>1. loop' = Idle
      <3>1. PICK part \in AnswerParts \ {"todo"} : Part(part) /\ NextPart
        BY <1>9 DEF AckEvent, AckReason, Nack, AnswerParts
      <3> QED
        BY <1>2, <3>1, LastPart
    <2> QED
      BY <1>3, <2>1 DEF Answering, Idle
  <1>10. ASSUME NEW s \in Sessions, SessionStep(s) PROVE AuditInv'
    <2>1. CASE Poll(s) \/ PollOffline(s)
      <3>1. loop' = Idle \/ loop'.parts \in PollParts
        BY <2>1 DEF Poll, PollOffline, PollParts
      <3>2. ~Answering'
        BY <3>1, PollPartsLeft DEF Answering, Idle, AnswerParts
      <3> QED
        BY <1>3, <3>2
    <2>2. CASE Open(s) \/ FallBack(s) \/ Close(s) \/ WriteDone(s) \/ WriteFails(s)
      BY <1>6, <2>2 DEF Open, FallBack, Close, WriteDone, WriteFails
    <2> QED
      BY <1>10, <2>1, <2>2 DEF SessionStep
  <1>11. ASSUME NEW s \in Sessions, BoxAnswers(s) PROVE AuditInv'
    <2>1. PICK d \in received, shape \in Shapes, sid \in {NoSession, s},
               dev \in Devices \cup {NoDevice} : Answer(s, d, shape, dev, sid)
      BY <1>11 DEF BoxAnswers
    <2> QED
      BY <1>4, <2>1, AnswerFindsOldest
  <1>12. ASSUME NEW s \in Sessions, CloudStep(s) PROVE AuditInv'
    BY <1>6, <1>12 DEF CloudStep, CloudForward, CloudTrack, CloudIncomplete, CloudEnd
  <1>13. CASE Tick \/ Shutdown
    BY <1>6, <1>13 DEF Tick, Shutdown
  <1>14. ASSUME NEW n \in Names, NEW v \in Values, Receive(n, v) PROVE AuditInv'
    BY <1>5, <1>14 DEF Receive
  <1>15. CASE HandlerStep \/ UNCHANGED vars
    BY <1>5, <1>15 DEF HandlerStep, Supersede, Enqueue, vars
  <1> QED
    BY <1>7, <1>8, <1>9, <1>10, <1>11, <1>12, <1>13, <1>14, <1>15 DEF Next, LoopStep

\* A set of naturals that is not empty has a least element.
LEMMA LeastNatural ==
    ASSUME NEW T \in SUBSET Nat, T # {}
    PROVE  \E x \in T : \A y \in T : x <= y
  <1> DEFINE R == {ss \in Nat \X Nat : ss[1] < ss[2]}
  <1>1. IsWellFoundedOn(R, Nat)
    BY NatLessThanWellFounded, Zenon DEF OpToRel
  <1>2. PICK x \in T : \A y \in T : ~ (<<y, x>> \in R)
    <2> HIDE DEF R
    <2> QED
      BY <1>1, WFMin
  <1>3. ASSUME NEW y \in T PROVE x <= y
    <2>1. <<y, x>> \notin R /\ x \in Nat /\ y \in Nat /\ <<y, x>> \in Nat \X Nat
      BY <1>2
    <2>2. <<y, x>>[1] = y /\ <<y, x>>[2] = x
      OBVIOUS
    <2> QED
      BY <2>1, <2>2
  <1> QED
    BY <1>3

\* So there is an oldest one among the cloud's settings, if there are any.
LEMMA OldestExists ==
    ASSUME NEW n \in Nat, NEW ps \in SUBSET PendingOf(n), ps # {}
    PROVE  Oldest(ps) # {}
  <1> DEFINE ids == {p.aid : p \in ps}
  <1>1. ids \in SUBSET Nat /\ ids # {}
    BY DEF PendingOf
  <1>2. PICK x \in ids : \A y \in ids : x <= y
    BY <1>1, LeastNatural
  <1>3. PICK p \in ps : p.aid = x
    OBVIOUS
  <1>4. \A q \in ps : p.aid <= q.aid
    BY <1>2, <1>3
  <1> QED
    BY <1>3, <1>4 DEF Oldest

\* What acknowledge removes is the first entry of its device under the name.
LEMMA AcknowledgeRemoves ==
    ASSUME NEW n, NEW sid, Acknowledge(n, sid), NEW p \in cloudPending, p \notin cloudPending'
    PROVE  p \in FirstPending(n)
  BY DEF Acknowledge

\* An answer to what is in flight records it, and removes nothing else of its
\* device.
LEMMA AnswerRecorded ==
    ASSUME IndInv, AuditInv, SnapIsFirst, NEW step \in OwnSteps, NEW p \in cloudPending,
           settings' = Emit(settings, loop.snap, step),
           Acknowledge(settings[loop.snap].name, loop.sid), p \notin cloudPending',
           \A q \in cloudPending : q.aid = loop.snap => q.dev = p.dev
    PROVE  settings'[p.aid].trail # <<>>
  <1>1. cloudPending \subseteq PendingOf(Len(settings)) /\ AuditIds = 1 .. Len(settings)
        /\ settings \in Seq(SettingType) /\ Len(settings) \in Nat
    BY LenProperties DEF IndInv, TypeOK, EntryTypes, PendingOf, AuditIds
  <1>2. p.aid \in AuditIds /\ p.aid \in Nat
    BY <1>1 DEF PendingOf
  <1>3. PICK q \in Oldest(cloudPending) : q.aid = loop.snap
    BY DEF SnapIsFirst
  <1>4. q \in cloudPending /\ q.aid <= p.aid /\ q.dev = p.dev /\ q.aid \in Nat
    BY <1>1, <1>3 DEF Oldest, PendingOf
  <1>5. p.aid <= q.aid
    BY <1>3, <1>4, AcknowledgeRemoves DEF FirstPending
  <1>6. p.aid = loop.snap
    BY <1>2, <1>3, <1>4, <1>5
  <1>7. settings'[p.aid] = Recorded(settings[p.aid], step)
    BY <1>2, <1>6 DEF Emit, AuditIds
  <1>8. settings[p.aid] \in SettingType /\ HasRecord(settings[p.aid])
    BY <1>1, <1>2, ElementOfSeq DEF AuditInv, HasRecord
  <1> QED
    BY <1>7, <1>8, RecordedLeavesRecord

\* A step that ends the tracking of a setting leaves a record of it, but for
\* the two paths of CloudSettingsAudited.
LEMMA LeavesRecord ==
    ASSUME IndInv, AuditInv, [Next]_vars, NEW p \in cloudPending,
           ~Tracked(p.aid)', ~NamedByAck(p), ~AnswerOfOther(p)
    PROVE  settings'[p.aid].trail # <<>>
  <1> USE DEF twinVars, auditVars, sessionVars, envVars
  <1>1. /\ cloudPending \subseteq PendingOf(Len(settings)) /\ AuditIds = 1 .. Len(settings)
        /\ settings \in Seq(SettingType) /\ Len(settings) \in Nat /\ LoopTypes
    BY LenProperties DEF IndInv, TypeOK, EntryTypes, PendingOf, AuditIds
  <1>2. p.aid \in AuditIds /\ settings[p.aid] \in SettingType /\ HasRecord(settings[p.aid])
    <2>1. p.aid \in AuditIds
      BY <1>1 DEF PendingOf
    <2> QED
      BY <1>1, <2>1, ElementOfSeq DEF AuditInv, HasRecord
  <1>3. p \notin cloudPending'
    BY DEF Tracked
  <1>4. ASSUME NEW step \in OwnSteps, settings'[p.aid] = Recorded(settings[p.aid], step)
        PROVE  settings'[p.aid].trail # <<>>
    BY <1>2, <1>4, RecordedLeavesRecord
  <1>5. CASE UNCHANGED cloudPending
    BY <1>3, <1>5
  <1>6. ASSUME cloudPending' = Live PROVE \E step \in OwnSteps : AfterExpiry[p.aid] = Recorded(settings[p.aid], step)
    <2>1. p \in Expired
      BY <1>3, <1>6 DEF Live
    <2> QED
      BY <1>2, <2>1, OwnStepNames DEF AfterExpiry, AuditIds
  <1>7. CASE ExpireCloudPending
    BY <1>4, <1>6, <1>7 DEF ExpireCloudPending
  <1>8. ASSUME NEW s \in Sessions, NEW dev \in Devices, CloudTrack(s, dev)
        PROVE  settings'[p.aid].trail # <<>>
    <2> DEFINE e == NewSetting(forwarding[s].name, forwarding[s].value, "cloud")
    <2>1. settings' = Append(AfterExpiry, e) /\ p \notin Live
      BY <1>3, <1>8 DEF CloudTrack
    <2>2. \E step \in OwnSteps : AfterExpiry[p.aid] = Recorded(settings[p.aid], step)
      <3>1. p \in Expired
        BY <2>1 DEF Live
      <3> QED
        BY <1>2, <3>1, OwnStepNames DEF AfterExpiry, AuditIds
    <2>3. AfterExpiry \in Seq(SettingType) /\ Len(AfterExpiry) = Len(settings)
      <3>1. GoodSettings(settings)
        BY DEF IndInv, TypeOK, GoodSettings, AuditIds
      <3> QED
        BY <3>1, ExpiryKeeps DEF GoodSettings
    <2>4. e \in SettingType
      <3>1. forwarding[s] \in Delivery
        BY <1>8 DEF CloudTrack, IndInv, TypeOK
      <3> QED
        BY <3>1, EmptySeq DEF NewSetting, SettingType, Delivery
    <2> HIDE DEF e
    <2>5. settings'[p.aid] = AfterExpiry[p.aid]
      BY <1>1, <1>2, <2>1, <2>3, <2>4, AppendFacts
    <2> QED
      BY <1>4, <2>2, <2>5
  <1>9. CASE AckTodo
    <2>1. Acknowledge(loop.name, loop.sid)
      BY <1>3, <1>9 DEF AckTodo
    <2>2. settings[p.aid].name = loop.name
      BY <1>3, <2>1, AcknowledgeRemoves DEF FirstPending
    <2> QED
      BY <1>9, <2>2 DEF AckTodo, NamedByAck
  <1>10. CASE AckEvent
    <2>1. CASE MatchingPending = {}
      <3>1. Acknowledge(loop.name, loop.sid)
        BY <1>10, <2>1 DEF AckEvent
      <3>2. settings[p.aid].name = loop.name
        BY <1>3, <3>1, AcknowledgeRemoves DEF FirstPending
      <3>3. loop.dev = p.dev
        BY <1>10 DEF AckEvent, AnswerOfOther
      <3> DEFINE same == {r \in cloudPending : r.dev = loop.dev /\ settings[r.aid].name = loop.name}
                 equal == {r \in same : settings[r.aid].value = loop.value}
      <3>4. p \in same /\ same \in SUBSET PendingOf(Len(settings)) /\ equal \in SUBSET PendingOf(Len(settings))
        BY <1>1, <3>2, <3>3
      <3>5. MatchingPending = Oldest(IF equal # {} THEN equal ELSE same)
        BY DEF MatchingPending
      <3> HIDE DEF same, equal
      <3>6. MatchingPending # {}
        BY <1>1, <3>4, <3>5, OldestExists
      <3> QED
        BY <2>1, <3>6
    <2>2. CASE MatchingPending # {}
      <3>1. PICK r \in MatchingPending : /\ settings' = Emit(settings, r.aid, "ack_tbl_events")
                                         /\ cloudPending' = cloudPending \ {r}
        BY <1>10, <2>2 DEF AckEvent
      <3>2. r = p
        BY <1>3, <3>1
      <3>3. settings'[p.aid] = Recorded(settings[p.aid], "ack_tbl_events")
        BY <1>2, <3>1, <3>2 DEF Emit, AuditIds
      <3> QED
        BY <1>4, <3>3, OwnStepNames
    <2> QED
      BY <2>1, <2>2
  <1>11. CASE AckReason
    <2> DEFINE mine == {r \in cloudPending : r.dev = loop.dev}
    <2>1. CASE \E r \in Oldest(mine) :
                  cloudPending' = IF r.seen THEN cloudPending
                                  ELSE (cloudPending \ {r}) \cup {[r EXCEPT !.seen = TRUE, !.age = 0]}
      <3>1. PICK r \in Oldest(mine) :
                  cloudPending' = IF r.seen THEN cloudPending
                                  ELSE (cloudPending \ {r}) \cup {[r EXCEPT !.seen = TRUE, !.age = 0]}
        BY <2>1
      <3>2. r = p /\ [r EXCEPT !.seen = TRUE, !.age = 0] \in cloudPending'
        BY <1>3, <3>1
      <3>3. [r EXCEPT !.seen = TRUE, !.age = 0].aid = p.aid
        BY <1>1, <3>2 DEF PendingOf
      <3> QED
        BY <3>2, <3>3 DEF Tracked
    <2>2. CASE /\ settings' = Emit(settings, loop.snap, "ack_reason_setting")
               /\ Acknowledge(settings[loop.snap].name, loop.sid)
      <3>1. Part("reason") /\ NextPart
        BY <1>11 DEF AckReason
      <3>2. SnapIsFirst
        BY <1>1, <3>1, LastPart DEF AnswerParts
      <3>3. \A q \in cloudPending : q.aid = loop.snap => q.dev = p.dev
        BY <3>1 DEF AnswerOfOther
      <3> QED
        BY <1>3, <2>2, <3>2, <3>3, AnswerRecorded, OwnStepNames
    <2> QED
      BY <1>5, <1>11, <2>1, <2>2 DEF AckReason
  <1>12. CASE Nack
    <2>1. /\ settings' = Emit(settings, loop.snap, "nack")
          /\ Acknowledge(settings[loop.snap].name, loop.sid)
      BY <1>3, <1>12 DEF Nack
    <2>2. Part("nack") /\ NextPart
      BY <1>12 DEF Nack
    <2>3. SnapIsFirst
      BY <1>1, <2>2, LastPart DEF AnswerParts
    <2>4. \A q \in cloudPending : q.aid = loop.snap => q.dev = p.dev
      BY <2>2 DEF AnswerOfOther
    <2> QED
      BY <1>3, <2>1, <2>3, <2>4, AnswerRecorded, OwnStepNames
  <1>13. CASE Shutdown
    <2>1. settings'[p.aid] = Recorded(settings[p.aid], "session_cleared")
      BY <1>2, <1>13 DEF Shutdown, AuditIds
    <2> QED
      BY <1>4, <2>1, OwnStepNames
  <1>14. CASE Tick
    <2>1. PICK r \in cloudPending' : r = [p EXCEPT !.age = IF @ = Timeout THEN @ ELSE @ + 1]
      BY <1>14 DEF Tick
    <2>2. r.aid = p.aid
      BY <1>1, <2>1 DEF PendingOf
    <2> QED
      BY <2>2 DEF Tracked
  <1>15. CASE DropTimedOut \/ CheckSession \/ Select
    BY <1>5, <1>15 DEF DropTimedOut, CheckSession, Select
  <1>16. ASSUME NEW s \in Sessions, SessionStep(s) PROVE settings'[p.aid].trail # <<>>
    BY <1>5, <1>7, <1>16
    DEF SessionStep, Open, FallBack, Close, Poll, PollOffline, WriteDone, WriteFails, AfterWrite
  <1>17. ASSUME NEW s \in Sessions, BoxAnswers(s) \/ CloudStep(s)
         PROVE  settings'[p.aid].trail # <<>>
    BY <1>5, <1>7, <1>8, <1>17
    DEF BoxAnswers, Answer, CloudStep, CloudForward, CloudIncomplete, CloudEnd
  <1>18. CASE \/ HandlerStep \/ UNCHANGED vars
              \/ \E n \in Names, v \in Values : Receive(n, v)
    BY <1>5, <1>18 DEF HandlerStep, Receive, Supersede, Enqueue, vars
  <1> QED
    BY <1>9, <1>10, <1>11, <1>12, <1>13, <1>14, <1>15, <1>16, <1>17, <1>18 DEF Next, LoopStep

\* However answers of several devices come, late and twice, a setting of the
\* cloud is never dropped without a record but by an ACK that names it while
\* another one is in flight, or by the answer of another device.
THEOREM CloudSettingsLeaveRecords == Spec => CloudSettingsAudited
  <1>1. Init => AuditInv
    BY EmptySeq DEF Init, AuditInv, AuditIds, Answering, Idle
  <1>2. IndInv /\ AuditInv /\ [Next]_vars =>
           [\A p \in cloudPending :
              ~Tracked(p.aid)' /\ ~NamedByAck(p) /\ ~AnswerOfOther(p)
              => settings'[p.aid].trail # <<>>]_vars
    BY LeavesRecord
  <1> QED
    BY <1>1, <1>2, AuditStep, Invariance, PTL DEF Spec, CloudSettingsAudited

------------------------------------------------------------------------------
(* What SUPERSEDED is recorded for.                                         *)

\* Where in its trail a setting is recorded as superseded.
SupersededAt(s) == {i \in DOMAIN s.trail : s.trail[i] = "superseded"}

\* The collector adds no such record for a step of the delivery.
LEMMA RecordedSuperseded ==
    ASSUME NEW s \in SettingType, NEW step \in OwnSteps
    PROVE  SupersededAt(Recorded(s, step)) = SupersededAt(s)
  <1>1. step \in TerminalSteps /\ step # "superseded" /\ s.trail \in Seq(TerminalSteps)
    BY DEF OwnSteps, SettingType
  <1>2. /\ DOMAIN s.trail = 1 .. Len(s.trail) /\ Len(s.trail) \in Nat
        /\ DOMAIN Append(s.trail, step) = 1 .. Len(s.trail) + 1
        /\ \A i \in 1 .. Len(s.trail) : Append(s.trail, step)[i] = s.trail[i]
        /\ Append(s.trail, step)[Len(s.trail) + 1] = step
    BY <1>1, AppendFacts, LenProperties
  <1>3. Recorded(s, step).trail \in {s.trail, Append(s.trail, step)}
    BY DEF Recorded, SettingType
  <1> QED
    BY <1>1, <1>2, <1>3 DEF SupersededAt

\* The MQTT thread adds one.
LEMMA SupersededOnce ==
    ASSUME NEW s \in SettingType
    PROVE  LET t == [s EXCEPT !.trail = Append(@, "superseded")]
           IN  \E i : SupersededAt(t) = SupersededAt(s) \cup {i}
  <1>1. "superseded" \in TerminalSteps /\ s.trail \in Seq(TerminalSteps)
    BY DEF TerminalSteps, SettingType
  <1>2. /\ DOMAIN s.trail = 1 .. Len(s.trail) /\ Len(s.trail) \in Nat
        /\ DOMAIN Append(s.trail, "superseded") = 1 .. Len(s.trail) + 1
        /\ \A i \in 1 .. Len(s.trail) : Append(s.trail, "superseded")[i] = s.trail[i]
        /\ Append(s.trail, "superseded")[Len(s.trail) + 1] = "superseded"
    BY <1>1, AppendFacts, LenProperties
  <1> DEFINE t == [s EXCEPT !.trail = Append(@, "superseded")]
  <1>3. t.trail = Append(s.trail, "superseded")
    BY DEF SettingType
  <1> HIDE DEF t
  <1>4. SupersededAt(t) = SupersededAt(s) \cup {Len(s.trail) + 1}
    BY <1>2, <1>3 DEF SupersededAt
  <1> QED
    BY <1>4 DEF t

\* No action but Supersede changes what is recorded as superseded.
LEMMA SupersededStays ==
    ASSUME IndInv, [Next]_vars, ~Supersede
    PROVE  \A a \in AuditIds' :
              SupersededAt(settings'[a]) =
                 IF a \in AuditIds THEN SupersededAt(settings[a]) ELSE {}
  <1>1. settings \in Seq(SettingType) /\ AuditIds = DOMAIN settings /\ AuditIds' = DOMAIN settings'
    BY GrownFacts DEF Grown, AuditIds
  <1>2. \A a \in AuditIds : settings[a] \in SettingType
    BY <1>1, ElementOfSeq, LenProperties
  <1>3. ASSUME NEW tt, RecordsOnly(tt)
        PROVE  \A a \in AuditIds : SupersededAt(tt[a]) = SupersededAt(settings[a])
    BY <1>2, <1>3, RecordedSuperseded DEF RecordsOnly
  <1>4. CASE RecordsOnly(settings')
    BY <1>1, <1>3, <1>4 DEF RecordsOnly
  <1>5. ASSUME NEW tt \in Seq(SettingType), NEW n \in Names, NEW v \in Values,
               NEW origin \in {"local", "cloud"},
               RecordsOnly(tt), settings' = Append(tt, NewSetting(n, v, origin))
        PROVE  \A a \in AuditIds' :
                  SupersededAt(settings'[a]) =
                     IF a \in AuditIds THEN SupersededAt(settings[a]) ELSE {}
    <2> DEFINE e == NewSetting(n, v, origin)
    <2>1. e \in SettingType /\ SupersededAt(e) = {}
      BY EmptySeq DEF NewSetting, SettingType, SupersededAt
    <2> HIDE DEF e
    <2>2. /\ DOMAIN tt = 1 .. Len(tt) /\ Len(tt) \in Nat
          /\ DOMAIN settings' = 1 .. Len(tt) + 1
          /\ \A i \in 1 .. Len(tt) : settings'[i] = tt[i]
          /\ settings'[Len(tt) + 1] = e
      BY <1>5, <2>1, AppendFacts, LenProperties DEF e
    <2>3. AuditIds = 1 .. Len(tt)
      BY <1>5, <2>2 DEF RecordsOnly
    <2>4. ASSUME NEW a \in AuditIds' PROVE SupersededAt(settings'[a]) =
                     IF a \in AuditIds THEN SupersededAt(settings[a]) ELSE {}
      <3>1. CASE a \in AuditIds
        <4>1. settings'[a] = tt[a] /\ SupersededAt(tt[a]) = SupersededAt(settings[a])
          BY <1>3, <1>5, <2>2, <2>3, <3>1
        <4> QED
          BY <3>1, <4>1
      <3>2. CASE a \notin AuditIds
        <4>1. a = Len(tt) + 1
          BY <1>1, <2>2, <2>3, <3>2
        <4> QED
          BY <2>1, <2>2, <3>2, <4>1
      <3> QED
        BY <3>1, <3>2
    <2> QED
      BY <2>4
  <1> QED
    BY <1>4, <1>5, SettingsChange

\* Only Enqueue puts a setting in the queue.
LEMMA QueueOnlyShrinks ==
    ASSUME IndInv, [Next]_vars, ~Enqueue
    PROVE  \A m \in Names : queue'[m] \in {0, queue[m]}
  <1> USE DEF twinVars
  <1>1. CASE UNCHANGED queue
    BY <1>1
  <1>2. CASE DropTimedOut
    BY <1>2, DropKeeps
  <1>3. CASE AckTodo \/ AckEvent \/ AckReason \/ Nack
    <2>1. UNCHANGED queue \/ \E n, sid : Acknowledge(n, sid)
      BY <1>3 DEF AckTodo, AckEvent, AckReason, Nack
    <2>2. queue \in [Names -> 0 .. Len(settings)]
      BY DEF IndInv, TypeOK, EntryTypes
    <2> QED
      BY <2>1, <2>2 DEF Acknowledge
  <1>4. CASE CheckSession \/ Select
    BY <1>1, <1>4 DEF CheckSession, Select
  <1>5. CASE \E s \in Sessions : SessionStep(s) \/ BoxAnswers(s) \/ CloudStep(s)
    BY <1>1, <1>5
    DEF SessionStep, Open, FallBack, Close, Poll, PollOffline, WriteDone, WriteFails,
        BoxAnswers, Answer, CloudStep, CloudForward, CloudTrack, CloudIncomplete, CloudEnd
  <1>6. CASE \/ \E n \in Names, v \in Values : Receive(n, v)
             \/ Supersede \/ Tick \/ Shutdown \/ UNCHANGED vars
    BY <1>1, <1>6 DEF Receive, Supersede, Tick, Shutdown, vars
  <1> QED
    BY <1>2, <1>3, <1>4, <1>5, <1>6 DEF Next, HandlerStep, LoopStep

\* Only the MQTT thread changes the message at hand.
LEMMA HandlerAlone ==
    ASSUME [Next]_vars, ~Supersede, ~Enqueue,
           \A n \in Names, v \in Values : ~Receive(n, v)
    PROVE  UNCHANGED handler
  <1>1. CASE LoopStep
    BY <1>1 DEF LoopStep, DropTimedOut, CheckSession, Select, AckTodo, AckEvent,
                AckReason, Nack, AnswerUnchanged
  <1>2. CASE \E s \in Sessions : SessionStep(s)
    BY <1>2 DEF SessionStep, Open, FallBack, Close, Poll, PollOffline, WriteDone, WriteFails
  <1>3. CASE \E s \in Sessions : BoxAnswers(s) \/ CloudStep(s)
    BY <1>3 DEF BoxAnswers, Answer, CloudStep, CloudForward, CloudTrack, CloudIncomplete, CloudEnd
  <1>4. CASE Tick \/ Shutdown \/ UNCHANGED vars
    BY <1>4 DEF Tick, Shutdown, vars
  <1> QED
    BY <1>1, <1>2, <1>3, <1>4 DEF Next, HandlerStep

\* SupersedeInv, of any settings, queue and message at hand.
SupersededFacts(ss, q, h) ==
    /\ \A a \in DOMAIN ss : \A i, j \in SupersededAt(ss[a]) : i = j
    /\ \A n \in Names : q[n] # 0 /\ SupersededAt(ss[q[n]]) # {}
                        => h.pc = "marked" /\ h.old = q[n]
    /\ h # Waiting =>
          /\ SupersededAt(ss[h.aid]) = {}
          /\ h.old # 0 =>
                /\ h.old # h.aid
                /\ ss[h.old].name = h.name
                /\ h.pc = "looked_up" => SupersededAt(ss[h.old]) = {}

\* So that the two states of a step can be compared.
LEMMA SupersedeInvIs == SupersedeInv <=> SupersededFacts(settings, queue, handler)
  <1>1. \A a : Superseded(a) <=> SupersededAt(settings[a]) # {}
    BY DEF Superseded, SupersededAt
  <1>2. (\A a \in AuditIds : \A i, j \in DOMAIN settings[a].trail :
            settings[a].trail[i] = "superseded" /\ settings[a].trail[j] = "superseded" => i = j)
        <=> \A a \in AuditIds : \A i, j \in SupersededAt(settings[a]) : i = j
    BY DEF SupersededAt
  <1> QED
    BY <1>1, <1>2 DEF SupersedeInv, SupersededIsReplaced, SupersededFacts, AuditIds

\* Every action keeps the facts about superseded settings.
LEMMA SupersedeStep == IndInv /\ SupersedeInv /\ [Next]_vars => SupersedeInv'
  <1>0. (SupersedeInv <=> SupersededFacts(settings, queue, handler))'
    BY SupersedeInvIs, PTL
  <1> SUFFICES ASSUME IndInv, SupersedeInv, [Next]_vars
               PROVE  SupersededFacts(settings', queue', handler')
    BY <1>0
  <1>1. /\ AuditIds = 1 .. Len(settings) /\ Len(settings) \in Nat
        /\ AuditIds = DOMAIN settings
        /\ AuditIds \subseteq AuditIds' /\ AuditIds' = DOMAIN settings'
        /\ \A a \in AuditIds : settings[a] \in SettingType /\ settings'[a].name = settings[a].name
    <2>1. GoodSettings(settings) /\ Continues(settings', settings) /\ Grown
      BY SettingsStep, GrownFacts DEF IndInv, TypeOK, GoodSettings, AuditIds
    <2> QED
      BY <2>1, ElementOfSeq, LenProperties DEF Grown, Continues, AuditIds, GoodSettings
  <1>2. \A m \in Names : queue[m] # 0 => queue[m] \in AuditIds
    BY <1>1 DEF IndInv, TypeOK, EntryTypes
  <1>3. handler # Waiting =>
            handler \in [pc : {"looked_up", "marked"}, name : Names,
                         aid : AuditIds, old : 0 .. Len(settings)]
    BY DEF IndInv, TypeOK, HandlerTypes
  <1>4. SupersededFacts(settings, queue, handler)
    BY SupersedeInvIs
  <1>5. ASSUME ~Supersede
        PROVE  /\ \A a \in AuditIds' : \A i, j \in SupersededAt(settings'[a]) : i = j
               /\ \A a \in AuditIds : SupersededAt(settings'[a]) = SupersededAt(settings[a])
    BY <1>1, <1>4, <1>5, SupersededStays DEF SupersededFacts
  <1>6. ASSUME NEW n \in Names, NEW v \in Values, Receive(n, v)
        PROVE  SupersededFacts(settings', queue', handler')
    <2>1. /\ handler = Waiting /\ UNCHANGED queue /\ ~Supersede
          /\ handler' = [pc |-> "looked_up", name |-> n, aid |-> Len(settings) + 1, old |-> queue[n]]
      BY <1>6 DEF Receive, Supersede, Waiting, twinVars
    <2>2. \A m \in Names : queue[m] # 0 => SupersededAt(settings[queue[m]]) = {}
      BY <1>4, <2>1 DEF Waiting, SupersededFacts
    <2>3. \A m \in Names : queue'[m] # 0 => SupersededAt(settings'[queue'[m]]) = {}
      BY <1>1, <1>2, <1>5, <2>1, <2>2
    <2>4. settings \in Seq(SettingType) /\ AuditIds' = 1 .. Len(settings) + 1
      <3>1. settings \in Seq(SettingType)
        BY DEF IndInv, TypeOK
      <3>2. settings' = Append(settings, NewSetting(n, v, "local")) /\ NewSetting(n, v, "local") \in SettingType
        BY <1>6, EmptySeq DEF Receive, NewSetting, SettingType
      <3> QED
        BY <1>1, <3>1, <3>2, AppendFacts
    <2>5. SupersededAt(settings'[Len(settings) + 1]) = {}
      BY <1>1, <2>1, <2>4, SupersededStays
    <2>6. queue[n] # 0 => settings'[queue[n]].name = n
      BY <1>1, <1>2 DEF IndInv, QueueNames
    <2>7. queue[n] # 0 => queue[n] # Len(settings) + 1 /\ SupersededAt(settings'[queue[n]]) = {}
      <3>1. queue'[n] = queue[n]
        BY <2>1
      <3>2. queue[n] # 0 => queue[n] # Len(settings) + 1
        BY <1>1, <1>2
      <3>3. queue[n] # 0 => SupersededAt(settings'[queue[n]]) = {}
        BY <2>3, <3>1
      <3> QED
        BY <3>2, <3>3
    <2>8. \A a \in DOMAIN settings' : \A i, j \in SupersededAt(settings'[a]) : i = j
      BY <1>1, <1>5, <2>1
    <2>9. /\ handler'.pc = "looked_up" /\ handler'.name = n
          /\ handler'.aid = Len(settings) + 1 /\ handler'.old = queue[n]
      BY <2>1
    <2>10. \A m \in Names : queue'[m] # 0 /\ SupersededAt(settings'[queue'[m]]) # {}
                             => handler'.pc = "marked" /\ handler'.old = queue'[m]
      BY <2>3
    <2>11. /\ SupersededAt(settings'[handler'.aid]) = {}
           /\ handler'.old # 0 =>
                 /\ handler'.old # handler'.aid
                 /\ settings'[handler'.old].name = handler'.name
                 /\ handler'.pc = "looked_up" => SupersededAt(settings'[handler'.old]) = {}
      BY <2>5, <2>6, <2>7, <2>9
    <2> QED
      BY <2>8, <2>10, <2>11 DEF SupersededFacts
  <1>7. CASE Supersede
    <2>1. /\ handler # Waiting /\ handler.pc = "looked_up" /\ UNCHANGED queue
          /\ handler' = [handler EXCEPT !.pc = "marked"]
      BY <1>7 DEF Supersede, Waiting, twinVars
    <2>2. /\ handler'.pc = "marked" /\ handler'.name = handler.name
          /\ handler'.aid = handler.aid /\ handler'.old = handler.old
      BY <1>3, <2>1
    <2>3. AuditIds' = AuditIds /\ \A a \in AuditIds : a # handler.old => settings'[a] = settings[a]
      BY <1>7 DEF Supersede, AuditIds
    <2>4. \A m \in Names : queue[m] # 0 => SupersededAt(settings[queue[m]]) = {}
      BY <1>4, <2>1 DEF SupersededFacts
    <2>5. handler.old # 0 => \A i, j \in SupersededAt(settings'[handler.old]) : i = j
      <3>1. handler.old # 0 => /\ handler.old \in AuditIds
                               /\ SupersededAt(settings[handler.old]) = {}
        BY <1>1, <1>3, <1>4, <2>1 DEF SupersededFacts
      <3>2. handler.old # 0 =>
               settings'[handler.old] = [settings[handler.old] EXCEPT !.trail = Append(@, "superseded")]
        BY <1>7, <3>1 DEF Supersede, AuditIds
      <3>3. handler.old # 0 =>
               \E i : SupersededAt(settings'[handler.old]) = SupersededAt(settings[handler.old]) \cup {i}
        BY <1>1, <3>1, <3>2, SupersededOnce
      <3> QED
        BY <3>1, <3>3
    <2>6. \A a \in DOMAIN settings' : \A i, j \in SupersededAt(settings'[a]) : i = j
      BY <1>1, <1>4, <2>3, <2>5 DEF SupersededFacts
    <2>7. ASSUME NEW m \in Names, queue[m] # 0, SupersededAt(settings'[queue[m]]) # {}
          PROVE  handler.old = queue[m]
      BY <1>1, <1>2, <2>3, <2>4, <2>7
    <2>8. handler.aid \in AuditIds /\ handler.aid # handler.old /\ SupersededAt(settings[handler.aid]) = {}
      BY <1>1, <1>3, <1>4, <2>1 DEF SupersededFacts
    <2>9. SupersededAt(settings'[handler.aid]) = {}
      BY <2>3, <2>8
    <2>10. handler.old # 0 => settings'[handler.old].name = handler.name
      BY <1>1, <1>3, <1>4, <2>1 DEF SupersededFacts
    <2> QED
      BY <2>1, <2>2, <2>6, <2>7, <2>8, <2>9, <2>10 DEF SupersededFacts
  <1>8. CASE Enqueue
    <2>1. /\ handler # Waiting /\ handler.pc = "marked" /\ handler' = Waiting
          /\ UNCHANGED settings
          /\ queue' = [queue EXCEPT ![handler.name] = handler.aid]
      BY <1>8 DEF Enqueue, Waiting, auditVars
    <2>2. \A m \in Names : queue'[m] = IF m = handler.name THEN handler.aid ELSE queue[m]
      BY <2>1 DEF IndInv, TypeOK, EntryTypes
    <2>3. ASSUME NEW m \in Names, queue'[m] # 0 PROVE SupersededAt(settings[queue'[m]]) = {}
      <3>1. CASE m = handler.name
        BY <1>4, <2>1, <2>2, <3>1 DEF SupersededFacts
      <3>2. CASE m # handler.name
        <4>1. queue[m] # 0 /\ settings[queue[m]].name = m
          BY <2>2, <2>3, <3>2 DEF IndInv, QueueNames
        <4>2. SupersededAt(settings[queue[m]]) = {}
          BY <1>4, <2>1, <3>2, <4>1 DEF SupersededFacts
        <4> QED
          BY <2>2, <3>2, <4>2
      <3> QED
        BY <3>1, <3>2
    <2> QED
      BY <1>4, <2>1, <2>3 DEF SupersededFacts
  <1>9. ASSUME ~Supersede, ~Enqueue, \A n \in Names, v \in Values : ~Receive(n, v)
        PROVE  SupersededFacts(settings', queue', handler')
    <2>1. UNCHANGED handler /\ \A m \in Names : queue'[m] \in {0, queue[m]}
      BY <1>9, HandlerAlone, QueueOnlyShrinks
    <2>2. ASSUME NEW n \in Names, queue'[n] # 0, SupersededAt(settings'[queue'[n]]) # {}
          PROVE  handler.pc = "marked" /\ handler.old = queue'[n]
      <3>1. queue'[n] = queue[n] /\ queue[n] # 0
        BY <2>1, <2>2
      <3>2. SupersededAt(settings[queue[n]]) # {}
        BY <1>2, <1>5, <1>9, <2>2, <3>1
      <3> QED
        BY <1>4, <3>1, <3>2 DEF SupersededFacts
    <2>3. handler # Waiting =>
             /\ SupersededAt(settings'[handler.aid]) = {}
             /\ handler.old # 0 =>
                   /\ handler.old # handler.aid
                   /\ settings'[handler.old].name = handler.name
                   /\ handler.pc = "looked_up" => SupersededAt(settings'[handler.old]) = {}
      BY <1>1, <1>3, <1>4, <1>5, <1>9 DEF SupersededFacts
    <2> QED
      BY <1>1, <1>5, <1>9, <2>1, <2>2, <2>3 DEF SupersededFacts
  <1> QED
    BY <1>6, <1>7, <1>8, <1>9

\* Whatever the loop does between the three steps of the MQTT thread, a setting
\* recorded as superseded gets that record once and leaves the queue.
THEOREM SupersededLeaves == Spec => []SupersededIsReplaced
  <1>1. Init => SupersedeInv
    BY EmptySeq DEF Init, SupersedeInv, SupersededIsReplaced, AuditIds
  <1>2. SupersedeInv => SupersededIsReplaced
    BY DEF SupersedeInv
  <1> QED
    BY <1>1, <1>2, SupersedeStep, Invariance, PTL DEF Spec

------------------------------------------------------------------------------
(* Polls and the settings of the cloud.                                     *)

\* What an online poll saw of the cloud stays true until it has chosen.
LEMMA PollStep == IndInv /\ PollInv /\ [Next]_vars => PollInv'
  <1> SUFFICES ASSUME IndInv, PollInv, [Next]_vars PROVE PollInv'
    OBVIOUS
  <1> USE DEF twinVars, auditVars, sessionVars, envVars
  <1>1. LoopTypes
    BY DEF IndInv, TypeOK
  <1>2. CASE UNCHANGED <<loop, legacy, cloudPending>>
    BY <1>2 DEF PollInv
  <1>3. ASSUME loop' = Idle PROVE PollInv'
    BY <1>3 DEF PollInv, Idle
  <1>4. CASE LoopFree /\ loop' = loop
    BY <1>3, <1>4 DEF LoopFree
  <1>5. CASE DropTimedOut \/ CheckSession
    <2>1. /\ Part("drop") \/ Part("session")
          /\ UNCHANGED <<legacy, cloudPending>>
          /\ NextPart \/ loop' = Idle
      BY <1>5 DEF DropTimedOut, CheckSession
    <2>2. CASE loop' # Idle
      <3>1. loop \in PollLoops /\ loop' = [loop EXCEPT !.parts = Tail(@)]
        BY <1>1, <2>1, <2>2, PollAtHand DEF NextPart
      <3>2. loop'.sid = loop.sid
        BY <3>1 DEF PollLoops
      <3>3. loop.sid # NoSession => ~legacy /\ cloudPending = {}
        BY <2>1 DEF PollInv, Part
      <3> QED
        BY <2>1, <3>2, <3>3 DEF PollInv
    <2> QED
      BY <1>3, <2>2
  <1>6. CASE AckTodo \/ AckEvent \/ AckReason \/ Nack
    <2>1. PICK part \in AnswerParts : Part(part) /\ NextPart
      BY <1>6 DEF AckTodo, AckEvent, AckReason, Nack, AnswerParts
    <2>2. CASE loop' # Idle
      <3>1. loop \in AnswerLoops /\ Len(loop.parts) # 1 /\ loop' = [loop EXCEPT !.parts = Tail(@)]
        BY <1>1, <2>1, <2>2, AnswerAtHand DEF NextPart
      <3>2. loop'.parts \in Seq(AnswerParts) \ {<<>>}
        BY <3>1, AnswerPartsLeft DEF AnswerLoops
      <3>3. Head(loop'.parts) \in AnswerParts
        BY <3>2, AnswerPartsLeft
      <3> QED
        BY <3>3 DEF PollInv, AnswerParts
    <2> QED
      BY <1>3, <2>2
  <1>7. CASE Select
    BY <1>3, <1>7 DEF Select
  <1>8. ASSUME NEW s \in Sessions, SessionStep(s) PROVE PollInv'
    <2>1. CASE Poll(s)
      <3>1. CASE loop' = Idle
        BY <1>3, <3>1
      <3>2. CASE loop' # Idle
        BY <2>1, <3>2 DEF Poll, CloudInflight, ExpireCloudPending, PollInv
      <3> QED
        BY <3>1, <3>2
    <2>2. CASE PollOffline(s)
      BY <2>2 DEF PollOffline, PollInv
    <2>3. CASE Open(s) \/ FallBack(s) \/ Close(s) \/ WriteDone(s) \/ WriteFails(s)
      BY <1>4, <2>3 DEF Open, FallBack, Close, WriteDone, WriteFails
    <2> QED
      BY <1>8, <2>1, <2>2, <2>3 DEF SessionStep
  <1>9. ASSUME NEW s \in Sessions, BoxAnswers(s) PROVE PollInv'
    <2>1. PICK shape \in Shapes : loop'.parts = shape
      BY <1>9 DEF BoxAnswers, Answer
    <2>2. Head(loop'.parts) \in AnswerParts
      BY <2>1, AnswerPartsLeft, TwinAssumption
    <2> QED
      BY <2>2 DEF PollInv, AnswerParts
  <1>10. CASE \E s \in Sessions : CloudStep(s)
    BY <1>4, <1>10 DEF CloudStep, CloudForward, CloudTrack, CloudIncomplete, CloudEnd
  <1>11. CASE Tick \/ Shutdown
    BY <1>4, <1>11 DEF Tick, Shutdown
  <1>12. CASE \/ HandlerStep \/ UNCHANGED vars
              \/ \E n \in Names, v \in Values : Receive(n, v)
    BY <1>2, <1>12 DEF HandlerStep, Receive, Supersede, Enqueue, vars
  <1> QED
    BY <1>5, <1>6, <1>7, <1>8, <1>9, <1>10, <1>11, <1>12 DEF Next, LoopStep

\* However long ago it looked, an online poll selects no setting while one of
\* the cloud waits for its answer.
THEOREM OnlinePollsWait == Spec => OnlineWaitsForCloud
  <1>1. Init => PollInv
    BY DEF Init, PollInv, Idle
  <1>2. IndInv /\ PollInv /\ [Next]_vars =>
           [selected' # selected /\ loop.sid # NoSession => ~legacy /\ cloudPending = {}]_vars
    <2> SUFFICES ASSUME IndInv, PollInv, [Next]_vars, selected' # selected, loop.sid # NoSession
                 PROVE  ~legacy /\ cloudPending = {}
      BY DEF vars
    <2>1. Select
      <3>1. CASE LoopStep
        BY <3>1 DEF LoopStep, DropTimedOut, CheckSession, AckTodo, AckEvent,
                    AckReason, Nack, AnswerUnchanged, auditVars
      <3>2. CASE \E s \in Sessions : SessionStep(s)
        BY <3>2 DEF SessionStep, Open, FallBack, Close, Poll, PollOffline, WriteDone,
                    WriteFails, auditVars
      <3>3. CASE \E s \in Sessions : BoxAnswers(s) \/ CloudStep(s)
        BY <3>3 DEF BoxAnswers, Answer, CloudStep, CloudForward, CloudTrack,
                    CloudIncomplete, CloudEnd, auditVars
      <3>4. CASE \/ HandlerStep \/ Tick \/ Shutdown \/ UNCHANGED vars
                 \/ \E n \in Names, v \in Values : Receive(n, v)
        BY <3>4 DEF HandlerStep, Receive, Supersede, Enqueue, Tick, Shutdown, vars, auditVars
      <3> QED
        BY <3>1, <3>2, <3>3, <3>4 DEF Next
    <2> QED
      BY <2>1 DEF Select, Part, PollInv
  <1> QED
    BY <1>1, <1>2, PollStep, Invariance, PTL DEF Spec, OnlineWaitsForCloud
=============================================================================
