------------------------ MODULE AppLifecycle_proofs ------------------------
(* Proofs about AppLifecycle and FrameCapture, for every size of the queue *)
(* and of a batch, and any number of frames, starts, connections and Boxes. *)
EXTENDS AppLifecycle, SequenceTheorems, FiniteSetTheorems, TLAPS

------------------------------------------------------------------------------
(* The id of the Box. *)

\* While the process runs, its id and the stored one agree in both directions:
\* else a frame that comes before the id is known would replace the stored one.
IdInv ==
    /\ deviceFile \in Boxes \cup {None, Broken} /\ deviceId \in Boxes \cup {None}
    /\ KnownIdIsStored
    /\ stage \notin {"off"} /\ deviceFile \in Boxes => deviceId = deviceFile
    /\ stage = "off" => deviceId = None

\* What BoxIsFinal says of one step.
KeepsBox == deviceFile \in Boxes => deviceFile' = deviceFile

\* A frame of any Box keeps the agreement.
LEMMA LearnKeeps ==
    ASSUME IdInv, stage # "off", stage' = stage, NEW b \in Boxes, Learn(b)
    PROVE  IdInv' /\ KeepsBox
  <1>1. CASE deviceId # None
    BY <1>1 DEF Learn, deviceVars, IdInv, KnownIdIsStored, KeepsBox
  <1>2. CASE deviceId = None
    <2>1. deviceFile \notin Boxes
      BY <1>2, LifecycleAssumption DEF IdInv
    <2>2. \/ deviceFile' \in {deviceFile, Broken} /\ deviceId' = None
          \/ deviceFile' = b /\ deviceId' = b
      BY <1>2 DEF Learn, Save
    <2> QED
      BY <2>1, <2>2, LifecycleAssumption DEF IdInv, KnownIdIsStored, KeepsBox
  <1> QED
    BY <1>1, <1>2

\* Every step keeps the agreement, and the stored id.
LEMMA IdStep == IdInv /\ [Next]_vars => IdInv' /\ KeepsBox
  <1> SUFFICES ASSUME IdInv, [Next]_vars PROVE IdInv' /\ KeepsBox
    OBVIOUS
  <1>1. CASE Boot
    BY <1>1, LifecycleAssumption DEF Boot, IdInv, KnownIdIsStored, KeepsBox
  <1>2. CASE ProcessGone /\ UNCHANGED deviceFile
    BY <1>2 DEF ProcessGone, IdInv, KnownIdIsStored, KeepsBox
  <1>3. ASSUME NEW c \in Conns, Frame(c) PROVE IdInv' /\ KeepsBox
    <2>1. stage # "off" /\ stage' = stage
      BY <1>3 DEF Frame, LoopRuns, mainVars
    <2>2. CASE UNCHANGED deviceVars
      BY <2>1, <2>2 DEF deviceVars, IdInv, KnownIdIsStored, KeepsBox
    <2> QED
      BY <1>3, <2>1, <2>2, LearnKeeps DEF Frame
  <1>4. ASSUME NEW c \in Conns, CrashInSave(c) PROVE IdInv' /\ KeepsBox
    BY <1>4, LifecycleAssumption DEF CrashInSave, LoopRuns, ProcessGone, IdInv, KnownIdIsStored, KeepsBox
  <1>5. CASE UNCHANGED deviceVars /\ (stage' = "off" <=> stage = "off")
    BY <1>5 DEF deviceVars, IdInv, KnownIdIsStored, KeepsBox
  <1>6. StartParts \/ Listen \/ StopServer \/ StopCollector \/ StopTasks \/ StopRecorder
            \/ ShutdownEnds \/ ExitBegins \/ ShutdownBegins \/ TcpdumpExits \/ Recorder
            \/ UNCHANGED vars
            => UNCHANGED deviceVars /\ (stage' = "off" <=> stage = "off")
    BY DEF StartParts, Listen, StopServer, StopCollector, StopTasks, StopRecorder, ShutdownEnds,
       ExitBegins, ShutdownBegins, TcpdumpExits, Recorder, deviceVars, mainVars, vars
  <1>7. (\E t \in Tasks : TaskEnds(t)) \/ (\E t \in Applies : ApplyStarts(t) \/ ApplyEnds(t))
            \/ (\E c \in Conns : Accept(c) \/ Register(c) \/ HandlerEnds(c))
            => UNCHANGED deviceVars /\ (stage' = "off" <=> stage = "off")
    BY DEF TaskEnds, ApplyStarts, ApplyEnds, Accept, Register, HandlerEnds, mainVars, deviceVars
  <1> QED
    BY <1>1, <1>2, <1>3, <1>4, <1>5, <1>6, <1>7 DEF Next, Main, ProcessExits, Crash

\* Before the first start no id is known or stored.
LEMMA IdStart == Init => IdInv
  BY LifecycleAssumption DEF Init, IdInv, KnownIdIsStored

\* The id in use is the stored one, through failed saves, crashes and restarts.
THEOREM IdIsStored == Spec => []KnownIdIsStored
  <1>1. IdInv => KnownIdIsStored
    BY DEF IdInv
  <1> QED
    BY IdStart, IdStep, <1>1, PTL DEF Spec

\* Once an id is stored the proxy never changes to another Box.
THEOREM BoxNeverChanges == Spec => BoxIsFinal
  <1>1. IdInv /\ [Next]_vars => [KeepsBox]_vars
    BY IdStep
  <1> QED
    BY IdStart, IdStep, <1>1, PTL DEF Spec, BoxIsFinal, KeepsBox

------------------------------------------------------------------------------
(* Shutdown. *)

\* What each part of shutdown leaves behind for the next ones: handlers are
\* cancelled only while the server stops and at the exit, no task of startup
\* runs once all have been cancelled, nothing cancelled is left when the
\* recorder is stopped, and no frame comes while it stops.
ShutdownInv ==
    /\ \A c \in Conns : handlers[c] = "cancelled" => stage \in {"server", "exiting"}
    /\ stage \in {"tasks", "recorder", "done"} => \A t \in Parts : tasks[t] # "running"
    /\ stage \in {"recorder", "done"} => ~tcpdump /\ \A t \in Tasks : tasks[t] # "cancelled"
    /\ caller \in {"putting", "joining", "stopped"} => stage \in {"recorder", "done", "exiting"}
    /\ stage \in {"done", "exiting"} => caller = "stopped"
    /\ tasks \in [Tasks -> {"none", "running", "cancelled"}]
    /\ handlers \in [Conns -> {"none", "accepted", "active", "cancelled"}]
    /\ stage \in Stages /\ caller \in {"down", "running", "putting", "joining", "stopped"}

\* Before the first start there is nothing to leave behind.
LEMMA ShutdownStart == Init => ShutdownInv
  BY DEF Init, CaptureInit, ShutdownInv, Stages

\* Every step of every actor keeps what shutdown has reached so far.
LEMMA ShutdownStep == ShutdownInv /\ [Next]_vars => ShutdownInv'
  <1> SUFFICES ASSUME ShutdownInv, [Next]_vars PROVE ShutdownInv'
    OBVIOUS
  <1> USE DEF ShutdownInv, mainVars, captureVars, Stages
  <1>0. /\ Parts \subseteq Tasks /\ Applies \subseteq Tasks
        /\ {"health", "status", "telemetry"} = Parts
        /\ \A t \in Applies : t \notin Parts
    BY LifecycleAssumption DEF Tasks, Parts
  <1>1. CASE Boot
    BY <1>1 DEF Boot
  <1>2. CASE StartParts
    BY <1>0, <1>2 DEF StartParts, StartCapture
  <1>3. CASE Listen \/ ShutdownBegins
    BY <1>0, <1>3 DEF Listen, ShutdownBegins
  <1>4. CASE StopServer
    BY <1>4 DEF StopServer
  <1>5. CASE StopCollector
    BY <1>0, <1>5 DEF StopCollector
  <1>6. CASE StopTasks
    BY <1>0, <1>6 DEF StopTasks, CancelAll
  <1>7. CASE StopRecorder
    BY <1>0, <1>7 DEF StopRecorder, StopBegins
  <1>8. CASE ShutdownEnds
    BY <1>8 DEF ShutdownEnds
  <1>9. CASE ExitBegins
    <2>1. stage' = "exiting" /\ caller' = caller /\ tasks' = CancelAll /\ caller = "stopped"
      BY <1>9 DEF ExitBegins
    <2>2. handlers' \in [Conns -> {"none", "accepted", "active", "cancelled"}]
      BY <1>9 DEF ExitBegins
    <2>3. tasks' \in [Tasks -> {"none", "running", "cancelled"}]
      BY <2>1 DEF CancelAll
    <2> QED
      BY <2>1, <2>2, <2>3
  <1>10. CASE ProcessGone
    BY <1>0, <1>10 DEF ProcessGone, CaptureDies
  <1>11. ASSUME NEW t \in Tasks, TaskEnds(t) PROVE ShutdownInv'
    BY <1>0, <1>11 DEF TaskEnds
  <1>12. ASSUME NEW t \in Applies, ApplyStarts(t) \/ ApplyEnds(t) PROVE ShutdownInv'
    BY <1>0, <1>12 DEF ApplyStarts, ApplyEnds
  <1>13. ASSUME NEW c \in Conns, Accept(c) \/ Register(c) \/ HandlerEnds(c) PROVE ShutdownInv'
    BY <1>13 DEF Accept, Register, HandlerEnds, LoopRuns
  <1>14. ASSUME NEW c \in Conns, Frame(c) PROVE ShutdownInv'
    BY <1>14 DEF Frame, Capture
  <1>15. CASE TcpdumpExits
    BY <1>15 DEF TcpdumpExits
  <1>16. CASE Recorder
    BY <1>16 DEF Recorder, WriterStep, StopStep, WriterOpens, Take, TakeNothing, Commit, Prune,
       StopPuts, StopFindsFull, Joined
  <1>17. CASE UNCHANGED vars
    BY <1>17 DEF vars
  <1> QED
    BY <1>1, <1>2, <1>3, <1>4, <1>5, <1>6, <1>7, <1>8, <1>9, <1>10, <1>11, <1>12, <1>13, <1>14,
       <1>15, <1>16, <1>17
    DEF Next, Main, ProcessExits, Crash, CrashInSave

\* When shutdown returns, nothing that it has cancelled or that startup has
\* created is left, for any number of connections and of control messages.
THEOREM NothingIsLeft == Spec => []NothingOutlivesShutdown
  <1>1. ShutdownInv => NothingOutlivesShutdown
    BY LifecycleAssumption DEF ShutdownInv, NothingOutlivesShutdown, Tasks
  <1> QED
    BY ShutdownStart, ShutdownStep, <1>1, PTL DEF Spec

------------------------------------------------------------------------------
(* The frames on their way. *)

\* In the order of capture, and so none of them twice.
Rising(s) == \A i, j \in DOMAIN s : i < j => s[i] < s[j]

\* Taking a piece out of the middle leaves a rising sequence without it.
LEMMA TakeOut ==
    ASSUME NEW a \in Seq(Nat), NEW b \in Seq(Nat), NEW c \in Seq(Nat), Rising(a \o b \o c)
    PROVE  /\ Rising(a \o c)
           /\ ToSet(a \o b \o c) = ToSet(a \o c) \cup ToSet(b)
           /\ ToSet(a \o c) \cap ToSet(b) = {}
  <1> DEFINE s == a \o b \o c
             t == a \o c
             la == Len(a)
             lb == Len(b)
             lc == Len(c)
  <1>1. la \in Nat /\ lb \in Nat /\ lc \in Nat
    OBVIOUS
  <1>2. a \o b \in Seq(Nat) /\ Len(a \o b) = la + lb
    BY ConcatProperties
  <1>3. /\ DOMAIN s = 1 .. la + lb + lc /\ DOMAIN t = 1 .. la + lc /\ DOMAIN b = 1 .. lb
        /\ s \in Seq(Nat) /\ t \in Seq(Nat)
    BY <1>2, ConcatProperties, LenProperties
  <1>4. /\ \A i \in 1 .. la : s[i] = a[i] /\ t[i] = a[i]
        /\ \A i \in 1 .. lb : s[la + i] = b[i]
        /\ \A i \in 1 .. lc : s[la + lb + i] = c[i] /\ t[la + i] = c[i]
    BY <1>1, <1>2
  <1> HIDE DEF s, t, la, lb, lc
  <1> DEFINE At(i) == IF i <= la THEN i ELSE i + lb
  <1>5. \A i \in 1 .. la + lc :
            /\ t[i] = s[At(i)]
            /\ At(i) \in 1 .. la + lb + lc
            /\ At(i) \notin la + 1 .. la + lb
    <2> SUFFICES ASSUME NEW i \in 1 .. la + lc
                 PROVE  /\ t[i] = s[At(i)]
                        /\ At(i) \in 1 .. la + lb + lc
                        /\ At(i) \notin la + 1 .. la + lb
      OBVIOUS
    <2>1. CASE i <= la
      BY <1>1, <1>4, <2>1
    <2>2. CASE i > la
      <3>1. i - la \in 1 .. lc /\ la + (i - la) = i /\ la + lb + (i - la) = i + lb
        BY <1>1, <2>2
      <3> QED
        BY <1>1, <1>4, <2>2, <3>1
    <2> QED
      BY <1>1, <2>1, <2>2
  <1>6. \A i, j \in 1 .. la + lc : i < j => At(i) < At(j)
    BY <1>1
  <1>7. Rising(s)
    BY DEF s
  <1>8. Rising(t)
    <2> SUFFICES ASSUME NEW i \in DOMAIN t, NEW j \in DOMAIN t, i < j PROVE t[i] < t[j]
      BY DEF Rising
    <2>1. /\ At(i) \in DOMAIN s /\ At(j) \in DOMAIN s /\ At(i) < At(j)
          /\ t[i] = s[At(i)] /\ t[j] = s[At(j)]
      BY <1>3, <1>5, <1>6
    <2> HIDE DEF At
    <2> QED
      BY <1>7, <2>1 DEF Rising
  <1>9. ASSUME NEW x PROVE x \in ToSet(s) <=> x \in ToSet(t) \cup ToSet(b)
    <2>1. ASSUME x \in ToSet(s) PROVE x \in ToSet(t) \cup ToSet(b)
      <3>1. PICK i \in 1 .. la + lb + lc : x = s[i]
        BY <1>3, <2>1 DEF ToSet
      <3>2. CASE i <= la
        <4>1. i \in 1 .. la + lc /\ t[i] = x
          BY <1>1, <1>4, <3>1, <3>2
        <4> QED
          BY <1>3, <4>1 DEF ToSet
      <3>3. CASE i > la /\ i <= la + lb
        <4>1. i - la \in 1 .. lb /\ la + (i - la) = i
          BY <1>1, <3>1, <3>3
        <4>2. b[i - la] = x
          BY <1>4, <3>1, <4>1
        <4> QED
          BY <1>3, <4>1, <4>2 DEF ToSet
      <3>4. CASE i > la + lb
        <4>1. i - la - lb \in 1 .. lc /\ la + lb + (i - la - lb) = i
              /\ la + (i - la - lb) \in 1 .. la + lc
          BY <1>1, <3>1, <3>4
        <4>2. t[la + (i - la - lb)] = x
          BY <1>4, <3>1, <4>1
        <4> QED
          BY <1>3, <4>1, <4>2 DEF ToSet
      <3> QED
        BY <1>1, <3>1, <3>2, <3>3, <3>4
    <2>2. ASSUME x \in ToSet(t) PROVE x \in ToSet(s)
      BY <1>3, <1>5, <2>2 DEF ToSet
    <2>3. ASSUME x \in ToSet(b) PROVE x \in ToSet(s)
      <3>1. PICK i \in 1 .. lb : x = b[i]
        BY <1>3, <2>3 DEF ToSet
      <3>2. la + i \in 1 .. la + lb + lc /\ s[la + i] = x
        BY <1>1, <1>4, <3>1
      <3> QED
        BY <1>3, <3>2 DEF ToSet
    <2> QED
      BY <2>1, <2>2, <2>3
  <1>10. ASSUME NEW x \in ToSet(t), x \in ToSet(b) PROVE FALSE
    <2>1. PICK i \in 1 .. la + lc : x = t[i]
      BY <1>3, <1>10 DEF ToSet
    <2>2. PICK j \in 1 .. lb : x = b[j]
      BY <1>3, <1>10 DEF ToSet
    <2>3. /\ s[At(i)] = s[la + j] /\ At(i) # la + j
          /\ At(i) \in 1 .. la + lb + lc /\ la + j \in 1 .. la + lb + lc
      <3>1. /\ s[At(i)] = x /\ At(i) \in 1 .. la + lb + lc
            /\ At(i) \notin la + 1 .. la + lb
        BY <1>5, <2>1
      <3>2. s[la + j] = x /\ la + j \in 1 .. la + lb + lc /\ la + j \in la + 1 .. la + lb
        <4>1. s[la + j] = b[j]
          BY <1>4, <2>2
        <4>2. la + j \in 1 .. la + lb + lc /\ la + j \in la + 1 .. la + lb
          BY <1>1, <2>2
        <4> HIDE DEF At
        <4> QED
          BY <2>2, <4>1, <4>2
      <3> HIDE DEF At
      <3> QED
        BY <3>1, <3>2
    <2>4. s[At(i)] \in Nat /\ s[la + j] \in Nat
      <3>1. s \in [DOMAIN s -> Nat]
        BY <1>3, LenProperties
      <3> HIDE DEF At
      <3> QED
        BY <1>3, <2>3, <3>1
    <2>5. At(i) < la + j \/ la + j < At(i)
      BY <1>1, <2>3
    <2> HIDE DEF At
    <2> QED
      BY <1>3, <1>7, <2>3, <2>4, <2>5 DEF Rising
  <1> QED
    BY <1>8, <1>9, <1>10 DEF s, t

\* A frame that comes last.
LEMMA PutLast ==
    ASSUME NEW s \in Seq(Nat), NEW x \in Nat, Rising(s), \A y \in ToSet(s) : y < x
    PROVE  Rising(s \o <<x>>) /\ ToSet(s \o <<x>>) = ToSet(s) \cup {x}
  <1> DEFINE t == s \o <<x>>
  <1>1. /\ Len(s) \in Nat /\ DOMAIN s = 1 .. Len(s) /\ DOMAIN t = 1 .. Len(s) + 1
        /\ \A i \in 1 .. Len(s) : t[i] = s[i]
        /\ t[Len(s) + 1] = x
    OBVIOUS
  <1> HIDE DEF t
  <1>2. \A i \in 1 .. Len(s) : s[i] \in ToSet(s)
    BY <1>1 DEF ToSet
  <1>3. Rising(t)
    <2> SUFFICES ASSUME NEW i \in DOMAIN t, NEW j \in DOMAIN t, i < j PROVE t[i] < t[j]
      BY DEF Rising
    <2>1. i \in 1 .. Len(s)
      BY <1>1
    <2>2. CASE j \in 1 .. Len(s)
      BY <1>1, <2>1, <2>2 DEF Rising
    <2>3. CASE j = Len(s) + 1
      BY <1>1, <1>2, <2>1, <2>3
    <2> QED
      BY <1>1, <2>2, <2>3
  <1>4. ASSUME NEW y PROVE y \in ToSet(t) <=> y \in ToSet(s) \cup {x}
    <2>1. ASSUME y \in ToSet(t) PROVE y \in ToSet(s) \cup {x}
      <3>1. PICK i \in 1 .. Len(s) + 1 : y = t[i]
        BY <1>1, <2>1 DEF ToSet
      <3> QED
        BY <1>1, <1>2, <3>1
    <2>2. ASSUME y \in ToSet(s) PROVE y \in ToSet(t)
      <3>1. PICK i \in 1 .. Len(s) : y = s[i]
        BY <1>1, <2>2 DEF ToSet
      <3>2. i \in 1 .. Len(s) + 1 /\ y = t[i]
        BY <1>1, <3>1
      <3> QED
        BY <1>1, <3>2 DEF ToSet
    <2>3. x \in ToSet(t)
      <3>1. Len(s) + 1 \in 1 .. Len(s) + 1
        BY <1>1
      <3> QED
        BY <1>1, <3>1 DEF ToSet
    <2> QED
      BY <2>1, <2>2, <2>3
  <1> QED
    BY <1>3, <1>4 DEF t

\* The Sentinel comes last, after the last frame, the writer that has taken it
\* has taken everything, and no frame comes behind it until stop returns.
CaptureInv ==
    /\ queue \in Seq(Nat) /\ batch \in Seq(Nat) /\ stored \in Seq(Nat)
    /\ captured \in Nat /\ stopping \in BOOLEAN
    /\ caller = "down" => queue = <<>> /\ batch = <<>>
    /\ caller # "stopped" => late = {}
    /\ caller \in {"down", "running", "putting"} =>
           ~stopping /\ \A i \in 1 .. Len(queue) : queue[i] # Sentinel
    /\ \A i \in 1 .. Len(queue) - 1 : queue[i] # Sentinel
    /\ stopping => /\ queue = <<>> /\ writer \in {"commit", "prune", "dead"}
                   /\ writer \in {"prune", "dead"} => batch = <<>>

\* Without the Sentinel all of the queue are frames.
LEMMA QueuedWithout ==
    ASSUME queue \in Seq(Nat), \A i \in 1 .. Len(queue) : queue[i] # Sentinel
    PROVE  Queued = queue
  <1>1. queue # <<>> => Len(queue) \in 1 .. Len(queue)
    OBVIOUS
  <1> QED
    BY <1>1 DEF Queued

\* The Sentinel at its end adds no frame.
LEMMA SentinelAdds ==
    ASSUME queue \in Seq(Nat), \A i \in 1 .. Len(queue) : queue[i] # Sentinel,
           queue' = Append(queue, Sentinel)
    PROVE  queue' \in Seq(Nat) /\ Queued' = Queued
           /\ \A i \in 1 .. Len(queue') - 1 : queue'[i] # Sentinel
  <1>1. Sentinel \in Nat
    BY DEF Sentinel
  <1>2. /\ queue' \in Seq(Nat) /\ Len(queue') = Len(queue) + 1 /\ queue' # <<>>
        /\ \A i \in 1 .. Len(queue) : queue'[i] = queue[i]
        /\ queue'[Len(queue')] = Sentinel
    BY <1>1, AppendProperties
  <1>3. Queued' = SubSeq(queue', 1, Len(queue') - 1)
    BY <1>2 DEF Queued
  <1>4. Len(queue) \in Nat /\ Len(queue') - 1 = Len(queue)
    BY <1>2
  <1>5. SubSeq(queue', 1, Len(queue)) = queue
    <2>1. /\ SubSeq(queue', 1, Len(queue)) \in Seq(Nat)
          /\ Len(SubSeq(queue', 1, Len(queue))) = Len(queue)
          /\ \A i \in 1 .. Len(queue) : SubSeq(queue', 1, Len(queue))[i] = queue[i]
      BY <1>2, <1>4
    <2> QED
      BY <2>1, SeqEqual
  <1> QED
    BY <1>2, <1>3, <1>4, <1>5, QueuedWithout

\* The writer takes the first frame off the queue.
LEMMA QueuedTaken ==
    ASSUME queue \in Seq(Nat), queue # <<>>, Head(queue) # Sentinel,
           \A i \in 1 .. Len(queue) - 1 : queue[i] # Sentinel, queue' = Tail(queue)
    PROVE  /\ Queued \in Seq(Nat) /\ Queued' \in Seq(Nat) /\ Head(queue) \in Nat
           /\ Queued = <<Head(queue)>> \o Queued'
           /\ queue' \in Seq(Nat) /\ \A i \in 1 .. Len(queue') - 1 : queue'[i] # Sentinel
           /\ (\A i \in 1 .. Len(queue) : queue[i] # Sentinel) =>
                 \A i \in 1 .. Len(queue') : queue'[i] # Sentinel
  <1> DEFINE n == Len(queue)
  <1>1. /\ n \in Nat \ {0} /\ queue' \in Seq(Nat) /\ Len(queue') = n - 1
        /\ \A i \in 1 .. n - 1 : queue'[i] = queue[i + 1]
        /\ Head(queue) = queue[1] /\ Head(queue) \in Nat
    BY HeadTailProperties, EmptySeq
  <1>2. CASE queue[n] # Sentinel
    <2>1. \A i \in 1 .. n : queue[i] # Sentinel
      BY <1>1, <1>2
    <2>2. \A i \in 1 .. Len(queue') : queue'[i] # Sentinel
      BY <1>1, <2>1
    <2>3. Queued = queue
      BY <2>1, QueuedWithout
    <2>4. Queued' = queue'
      <3>1. queue' # <<>> => Len(queue') \in 1 .. Len(queue')
        BY <1>1
      <3> QED
        BY <2>2, <3>1 DEF Queued
    <2>5. queue = <<Head(queue)>> \o Tail(queue)
      <3>1. /\ <<Head(queue)>> \o Tail(queue) \in Seq(Nat)
            /\ Len(<<Head(queue)>> \o Tail(queue)) = n
            /\ \A i \in 1 .. n : (<<Head(queue)>> \o Tail(queue))[i] = queue[i]
        BY <1>1
      <3> QED
        BY <3>1, SeqEqual
    <2> QED
      BY <1>1, <2>1, <2>2, <2>3, <2>4, <2>5
  <1>3. CASE queue[n] = Sentinel
    <2>1. n \in Nat /\ n > 1
      BY <1>1, <1>3
    <2>2. /\ Queued = SubSeq(queue, 1, n - 1) /\ Queued \in Seq(Nat) /\ Len(Queued) = n - 1
          /\ \A i \in 1 .. n - 1 : Queued[i] = queue[i]
      BY <1>1, <1>3, <2>1 DEF Queued
    <2>3. queue' # <<>> /\ queue'[Len(queue')] = Sentinel
      <3>1. n - 1 \in 1 .. n - 1 /\ (n - 1) + 1 = n
        BY <2>1
      <3>2. queue'[n - 1] = queue[n]
        BY <1>1, <3>1
      <3>3. queue' # <<>>
        <4>1. Len(queue') # 0
          BY <1>1, <2>1
        <4> QED
          BY <1>1, <4>1, EmptySeq
      <3> QED
        BY <1>1, <1>3, <3>2, <3>3
    <2>4. /\ Queued' = SubSeq(queue', 1, n - 2) /\ Queued' \in Seq(Nat) /\ Len(Queued') = n - 2
          /\ \A i \in 1 .. n - 2 : Queued'[i] = queue[i + 1]
      <3>1. Queued' = SubSeq(queue', 1, n - 2) /\ n - 2 \in Nat
        BY <1>1, <2>1, <2>3 DEF Queued
      <3>2. /\ SubSeq(queue', 1, n - 2) \in Seq(Nat) /\ Len(SubSeq(queue', 1, n - 2)) = n - 2
            /\ \A i \in 1 .. n - 2 : SubSeq(queue', 1, n - 2)[i] = queue'[i]
        BY <1>1, <2>1
      <3> QED
        BY <1>1, <2>1, <3>1, <3>2
    <2>5. Queued = <<Head(queue)>> \o Queued'
      <3> DEFINE t == <<Head(queue)>> \o Queued'
      <3>1. t \in Seq(Nat) /\ Len(t) = n - 1 /\ t[1] = queue[1]
            /\ \A i \in 2 .. n - 1 : t[i] = Queued'[i - 1]
        BY <1>1, <2>1, <2>4
      <3>2. \A i \in 2 .. n - 1 : i - 1 \in 1 .. n - 2 /\ (i - 1) + 1 = i
        BY <2>1
      <3>3. \A i \in 1 .. n - 1 : t[i] = Queued[i]
        <4>1. TAKE i \in 1 .. n - 1
        <4>2. CASE i = 1
          <5>1. 1 \in 1 .. n - 1
            BY <2>1
          <5> QED
            BY <2>2, <3>1, <4>2, <5>1
        <4>3. CASE i # 1
          <5>1. i \in 2 .. n - 1
            BY <4>3
          <5>2. i - 1 \in 1 .. n - 2 /\ (i - 1) + 1 = i
            BY <5>1, <3>2
          <5>3. Queued'[i - 1] = queue[i]
            BY <2>4, <5>2
          <5> QED
            BY <2>2, <3>1, <5>1, <5>3
        <4> QED
          BY <4>2, <4>3
      <3>4. Queued \in Seq(Nat) /\ t \in Seq(Nat) /\ Len(Queued) = Len(t)
            /\ \A i \in 1 .. Len(Queued) : Queued[i] = t[i]
        BY <2>2, <3>1, <3>3
      <3>5. Queued = t
        <4> HIDE DEF t
        <4> QED
          BY <3>4, SeqEqual
      <3> QED
        BY <3>5
    <2> QED
      BY <1>1, <1>3, <2>1, <2>2, <2>4, <2>5
  <1> QED
    BY <1>2, <1>3

\* It takes the Sentinel: there is nothing after it, and was no frame.
LEMMA QueuedEnds ==
    ASSUME queue \in Seq(Nat), queue # <<>>, Head(queue) = Sentinel,
           \A i \in 1 .. Len(queue) - 1 : queue[i] # Sentinel, queue' = Tail(queue)
    PROVE  queue' = <<>> /\ Queued = <<>> /\ Queued' = <<>>
  <1>1. Len(queue) \in Nat \ {0} /\ Head(queue) = queue[1]
    BY EmptySeq
  <1>2. Len(queue) = 1
    <2>1. ASSUME Len(queue) > 1 PROVE FALSE
      <3>1. 1 \in 1 .. Len(queue) - 1
        BY <1>1, <2>1
      <3> QED
        BY <1>1, <3>1
    <2> DEFINE n == Len(queue)
    <2>2. n \in Nat /\ n # 0 /\ ~(n > 1)
      BY <1>1, <2>1
    <2> HIDE DEF n
    <2>3. n = 1
      BY <2>2
    <2> QED
      BY <2>3 DEF n
  <1>3. queue' = <<>>
    BY <1>2
  <1>4. Queued = <<>>
    BY <1>1, <1>2 DEF Queued
  <1> QED
    BY <1>3, <1>4 DEF Queued

\* An empty queue has no item to speak of.
LEMMA EmptyQueue ==
    /\ <<>> \in Seq(Nat)
    /\ \A s : s = <<>> => /\ \A i \in 1 .. Len(s) : s[i] # Sentinel
                         /\ \A i \in 1 .. Len(s) - 1 : s[i] # Sentinel
  <1>1. /\ <<>> \in Seq(Nat)
        /\ \A i \in 1 .. Len(<<>>) : <<>>[i] # Sentinel
        /\ \A i \in 1 .. Len(<<>>) - 1 : <<>>[i] # Sentinel
    OBVIOUS
  <1> QED
    BY <1>1

\* It holds before the first start.
LEMMA CaptureStart == Init => CaptureInv
  <1> SUFFICES ASSUME Init PROVE CaptureInv
    OBVIOUS
  <1>1. /\ queue = <<>> /\ batch = <<>> /\ stored = <<>> /\ captured = 0 /\ stopping = FALSE
        /\ caller = "down" /\ late = {}
    BY DEF Init, CaptureInit
  <1> QED
    BY <1>1, EmptyQueue DEF CaptureInv

\* Before the writer is told to stop all items are frames.
LEMMA NotTold ==
    ASSUME CaptureInv, ~Told
    PROVE  ~stopping /\ \A i \in 1 .. Len(queue) : queue[i] # Sentinel
  <1>1. queue \in Seq(Nat) /\ \A i \in 1 .. Len(queue) - 1 : queue[i] # Sentinel
    BY DEF CaptureInv
  <1>2. CASE queue = <<>>
    BY <1>2, EmptyQueue DEF Told
  <1>3. CASE queue # <<>>
    <2>1. ~stopping /\ queue[Len(queue)] # Sentinel
      BY <1>3 DEF Told
    <2> QED
      BY <1>1, <2>1
  <1> QED
    BY <1>2, <1>3

\* A frame comes while the recorder runs or when stop has returned.
LEMMA RunsOrStopped ==
    ASSUME ShutdownInv, CaptureInv, NEW c \in Conns, Frame(c)
    PROVE  caller \in {"running", "stopped"}
  <1>1. caller # "down" /\ stage # "recorder"
    BY DEF Frame, Capture, LoopRuns
  <1> QED
    BY <1>1 DEF ShutdownInv, CaptureInv

\* Nobody tells the writer to stop while the recorder runs.
LEMMA NeverTold ==
    ASSUME CaptureInv, caller = "running"
    PROVE  ~Told
  <1>1. queue \in Seq(Nat) /\ ~stopping /\ \A i \in 1 .. Len(queue) : queue[i] # Sentinel
    BY DEF CaptureInv
  <1>2. queue # <<>> => Len(queue) \in 1 .. Len(queue)
    BY <1>1, EmptySeq
  <1> QED
    BY <1>1, <1>2 DEF Told

\* Every step of the recorder and of its surroundings keeps it.
LEMMA CaptureStep == ShutdownInv /\ CaptureInv /\ [Next]_vars => CaptureInv'
  <1> SUFFICES ASSUME ShutdownInv, CaptureInv, [Next]_vars PROVE CaptureInv'
    OBVIOUS
  <1>1. CASE UNCHANGED captureVars
    BY <1>1 DEF captureVars, CaptureInv
  <1>2. CASE StartCapture
    BY <1>2 DEF StartCapture, CaptureInv
  <1>3. ASSUME NEW c \in Conns, Frame(c) PROVE CaptureInv'
    <2>1. caller \in {"running", "stopped"} /\ queue \in Seq(Nat) /\ captured \in Nat
      BY <1>3, RunsOrStopped DEF CaptureInv
    <2>2. caller = "running" => ~Told
      BY NeverTold
    <2>3. CASE queue' = queue
      BY <1>3, <2>1, <2>2, <2>3 DEF Frame, Capture, CaptureInv
    <2>4. CASE queue' = Append(queue, captured + 1) /\ ~Told /\ late' = late
      <3>0. ~stopping /\ \A i \in 1 .. Len(queue) : queue[i] # Sentinel
        BY <2>4, NotTold
      <3>1. captured + 1 \in Nat /\ captured + 1 # Sentinel
        BY <2>1 DEF Sentinel
      <3>2. /\ queue' \in Seq(Nat) /\ Len(queue') = Len(queue) + 1
            /\ \A i \in 1 .. Len(queue') : queue'[i] # Sentinel
        BY <2>1, <2>4, <3>0, <3>1, AppendProperties
      <3> QED
        BY <1>3, <2>1, <3>0, <3>1, <3>2 DEF Frame, Capture, CaptureInv
    <2> QED
      BY <1>3, <2>3, <2>4 DEF Frame, Capture
  <1>4. CASE WriterOpens
    BY <1>4 DEF WriterOpens, CaptureInv
  <1>5. CASE Take
    <2>1. queue \in Seq(Nat) /\ queue # <<>> /\ \A i \in 1 .. Len(queue) - 1 : queue[i] # Sentinel
      BY <1>5 DEF Take, CaptureInv
    <2>2. ~stopping
      BY <1>5 DEF Take, CaptureInv
    <2>3. Len(queue) \in Nat \ {0} /\ Head(queue) = queue[1] /\ caller # "down"
      BY <2>1, EmptyQueue DEF CaptureInv
    <2>4. CASE Head(queue) = Sentinel
      <3>1. queue' = <<>>
        BY <1>5, <2>1, <2>4, QueuedEnds DEF Take
      <3>2. caller \notin {"down", "running", "putting"}
        <4>1. 1 \in 1 .. Len(queue)
          BY <2>3
        <4> QED
          BY <2>3, <2>4, <4>1 DEF CaptureInv
      <3> QED
        BY <1>5, <2>4, <3>1, <3>2, EmptyQueue DEF Take, CaptureInv
    <2>5. CASE Head(queue) # Sentinel
      <3>1. /\ queue' \in Seq(Nat) /\ \A i \in 1 .. Len(queue') - 1 : queue'[i] # Sentinel
            /\ (\A i \in 1 .. Len(queue) : queue[i] # Sentinel) =>
                  \A i \in 1 .. Len(queue') : queue'[i] # Sentinel
            /\ Head(queue) \in Nat
        BY <1>5, <2>1, <2>5, QueuedTaken DEF Take
      <3>2. batch' \in Seq(Nat)
        <4>1. batch' = Append(batch, Head(queue)) /\ batch \in Seq(Nat)
          BY <1>5, <2>5 DEF Take, CaptureInv
        <4> QED
          BY <3>1, <4>1, AppendProperties
      <3> QED
        BY <1>5, <2>2, <2>3, <2>5, <3>1, <3>2 DEF Take, CaptureInv
    <2> QED
      BY <2>4, <2>5
  <1>6. CASE TakeNothing
    BY <1>6 DEF TakeNothing, CaptureInv
  <1>7. CASE Commit
    <2>1. stored' \in Seq(Nat) /\ batch' = <<>>
      <3>1. stored \in Seq(Nat) /\ batch \in Seq(Nat)
        BY DEF CaptureInv
      <3>2. stored \o batch \in Seq(Nat)
        BY <3>1, ConcatProperties
      <3> QED
        BY <1>7, <3>1, <3>2 DEF Commit
    <2> QED
      BY <1>7, <2>1, EmptyQueue DEF Commit, CaptureInv
  <1>8. CASE Prune
    <2>1. stored' \in Seq(Nat)
      <3>1. PICK n \in 0 .. Len(stored) : stored' = SubSeq(stored, n + 1, Len(stored))
        BY <1>8 DEF Prune
      <3>2. /\ stored \in Seq(Nat) /\ Len(stored) \in Int /\ n + 1 \in Int
            /\ \A i \in n + 1 .. Len(stored) : stored[i] \in Nat
        BY <3>1, LenProperties DEF CaptureInv
      <3> QED
        BY ONLY <3>1, <3>2, SubSeqProperties
    <2> QED
      BY <1>8, <2>1 DEF Prune, CaptureInv
  <1>9. CASE StopBegins
    BY <1>9 DEF StopBegins, CaptureInv
  <1>10. CASE StopPuts
    <2>1. queue' \in Seq(Nat) /\ \A i \in 1 .. Len(queue') - 1 : queue'[i] # Sentinel
      BY <1>10, SentinelAdds DEF StopPuts, CaptureInv
    <2> QED
      BY <1>10, <2>1 DEF StopPuts, CaptureInv
  <1>11. CASE StopFindsFull
    BY <1>11 DEF StopFindsFull, CaptureInv
  <1>12. CASE Joined
    BY <1>12 DEF Joined, CaptureInv
  <1>13. CASE CaptureDies
    <2>1. /\ caller' = "down" /\ stopping' = FALSE /\ queue' = <<>> /\ batch' = <<>>
          /\ late' = {} /\ stored' = stored /\ captured' = captured
      BY <1>13 DEF CaptureDies
    <2> QED
      BY <2>1, EmptyQueue DEF CaptureInv
  <1> QED
    BY <1>1, <1>2, <1>3, <1>4, <1>5, <1>6, <1>7, <1>8, <1>9, <1>10, <1>11, <1>12, <1>13
    DEF Next, Main, Boot, StartParts, Listen, ShutdownBegins, StopServer, StopCollector,
        StopTasks, StopRecorder, ExitBegins,
        ShutdownEnds, ProcessExits, Crash, CrashInSave, ProcessGone, TaskEnds, ApplyStarts,
        ApplyEnds, Accept, Register,
        HandlerEnds, TcpdumpExits, Recorder, WriterStep, StopStep, vars

\* A writer that has obeyed stop has left no frame in the queue or in its batch.
THEOREM StopLeavesNothingQueued == Spec => []StopDrains
  <1>1. CaptureInv => StopDrains
    BY DEF CaptureInv, StopDrains
  <1> QED
    BY ShutdownStart, ShutdownStep, CaptureStart, CaptureStep, <1>1, PTL DEF Spec

------------------------------------------------------------------------------
(* Each frame is somewhere, once. *)

\* s holds, in order and once each, the frames up to n that are not in g.
Accounts(s, g, n) ==
    /\ Rising(s)
    /\ ToSet(s) \cup g = 1 .. n
    /\ ToSet(s) \cap g = {}

\* Concatenation under a name of its own: the laws below are all the provers
\* are to know of it.
Cat(a, b) == a \o b

\* They make a monoid.
LEMMA CatLaws ==
    ASSUME NEW a \in Seq(Nat), NEW b \in Seq(Nat), NEW c \in Seq(Nat)
    PROVE  /\ Cat(a, b) \in Seq(Nat) /\ Cat(<<>>, a) = a
           /\ Cat(Cat(a, b), c) = Cat(a, Cat(b, c))
  <1>1. a \o b \in Seq(Nat)
    BY ConcatProperties
  <1>2. (a \o b) \o c = a \o (b \o c)
    BY ConcatAssociative
  <1>3. <<>> \o a = a
    BY ConcatEmptySeq
  <1> QED
    BY <1>1, <1>2, <1>3 DEF Cat

\* A frame that goes from the head of the queue to the end of the batch.
LEMMA MovesOn ==
    ASSUME NEW s \in Seq(Nat), NEW b \in Seq(Nat), NEW m \in Seq(Nat), NEW q \in Seq(Nat)
    PROVE  Cat(Cat(s, Cat(b, m)), q) = Cat(Cat(s, b), Cat(m, q))
  BY CatLaws

\* The oldest rows can be taken for a piece of their own.
LEMMA SplitsOff ==
    ASSUME NEW o \in Seq(Nat), NEW s \in Seq(Nat), NEW b \in Seq(Nat), NEW q \in Seq(Nat),
           NEW y, y = Cat(Cat(s, b), q)
    PROVE  /\ Cat(Cat(Cat(o, s), b), q) = Cat(Cat(<<>>, o), y)
           /\ y = Cat(<<>>, y) /\ y \in Seq(Nat)
  <1>1. y \in Seq(Nat)
    BY CatLaws
  <1>2. Cat(Cat(Cat(o, s), b), q) = Cat(o, y)
    BY CatLaws
  <1>3. Cat(Cat(<<>>, o), y) = Cat(o, y) /\ Cat(<<>>, y) = y
    BY <1>1, CatLaws
  <1> QED
    BY <1>1, <1>2, <1>3

\* The parts of the pipeline are sequences of frames, and the frames among the
\* items of the queue are those in Queued.
LEMMA PipelineParts ==
    ASSUME CaptureInv
    PROVE  /\ stored \in Seq(Nat) /\ batch \in Seq(Nat) /\ Queued \in Seq(Nat)
           /\ Pipeline = stored \o batch \o Queued
           /\ ToSet(Queued) = FramesIn(queue)
  <1> DEFINE n == Len(queue)
  <1>1. /\ queue \in Seq(Nat) /\ n \in Nat /\ \A i \in 1 .. n - 1 : queue[i] # Sentinel
        /\ queue # <<>> => n \in Nat \ {0}
        /\ DOMAIN queue = 1 .. n
    BY EmptySeq DEF CaptureInv
  <1>2. CASE queue # <<>> /\ queue[n] = Sentinel
    <2>1. /\ Queued = SubSeq(queue, 1, n - 1)
      BY <1>2 DEF Queued
    <2>2. /\ SubSeq(queue, 1, n - 1) \in Seq(Nat) /\ Len(SubSeq(queue, 1, n - 1)) = n - 1
          /\ \A i \in 1 .. n - 1 : SubSeq(queue, 1, n - 1)[i] = queue[i]
      BY <1>1, <1>2
    <2>3. /\ Queued \in Seq(Nat) /\ DOMAIN Queued = 1 .. n - 1
          /\ \A i \in 1 .. n - 1 : Queued[i] = queue[i]
      BY <2>1, <2>2
    <2>4. ASSUME NEW x PROVE x \in ToSet(Queued) <=> x \in FramesIn(queue)
      <3>1. ASSUME x \in ToSet(Queued) PROVE x \in FramesIn(queue)
        <4>1. PICK i \in 1 .. n - 1 : x = queue[i]
          BY <2>3, <3>1 DEF ToSet
        <4>2. i \in 1 .. n /\ x # Sentinel
          BY <1>1, <4>1
        <4> QED
          BY <1>1, <4>1, <4>2 DEF FramesIn, ToSet
      <3>2. ASSUME x \in FramesIn(queue) PROVE x \in ToSet(Queued)
        <4>1. PICK i \in 1 .. n : x = queue[i]
          BY <1>1, <3>2 DEF FramesIn, ToSet
        <4>2. x # Sentinel
          BY <3>2 DEF FramesIn
        <4>3. i \in 1 .. n - 1
          BY <1>1, <1>2, <4>1, <4>2
        <4> QED
          BY <2>3, <4>1, <4>3 DEF ToSet
      <3> QED
        BY <3>1, <3>2
    <2> QED
      BY <2>3, <2>4 DEF Pipeline, CaptureInv
  <1>3. CASE ~(queue # <<>> /\ queue[n] = Sentinel)
    <2>1. Queued = queue
      BY <1>3 DEF Queued
    <2>2. \A i \in 1 .. n : queue[i] # Sentinel
      <3>1. CASE queue = <<>>
        BY <3>1, EmptyQueue
      <3>2. CASE queue # <<>>
        BY <1>1, <1>3, <3>2
      <3> QED
        BY <3>1, <3>2
    <2>3. Sentinel \notin ToSet(queue)
      BY <1>1, <2>2 DEF ToSet
    <2> QED
      BY <1>1, <2>1, <2>3 DEF Pipeline, FramesIn, CaptureInv
  <1> QED
    BY <1>2, <1>3

\* Giving up a piece of the pipeline keeps the account.
LEMMA GivenUp ==
    ASSUME NEW a \in Seq(Nat), NEW b \in Seq(Nat), NEW c \in Seq(Nat), NEW g, NEW n,
           Accounts(a \o b \o c, g, n)
    PROVE  Accounts(a \o c, g \cup ToSet(b), n)
  <1>1. Rising(a \o b \o c)
    BY DEF Accounts
  <1>2. /\ Rising(a \o c)
        /\ ToSet(a \o b \o c) = ToSet(a \o c) \cup ToSet(b)
        /\ ToSet(a \o c) \cap ToSet(b) = {}
    BY <1>1, TakeOut
  <1>3. ToSet(a \o b \o c) \cup g = 1 .. n /\ ToSet(a \o b \o c) \cap g = {}
    BY DEF Accounts
  <1>4. ToSet(a \o c) \cup (g \cup ToSet(b)) = 1 .. n
    BY <1>2, <1>3, Zenon
  <1>5. ToSet(a \o c) \cap (g \cup ToSet(b)) = {}
    BY <1>2, <1>3, Zenon
  <1> QED
    BY <1>2, <1>4, <1>5 DEF Accounts

\* A new frame at the end keeps it too.
LEMMA HandedOver ==
    ASSUME NEW s \in Seq(Nat), NEW g, NEW n \in Nat, Accounts(s, g, n)
    PROVE  Accounts(s \o <<n + 1>>, g, n + 1) /\ Accounts(s, g \cup {n + 1}, n + 1)
  <1>1. /\ Rising(s) /\ ToSet(s) \cup g = 1 .. n /\ ToSet(s) \cap g = {}
    BY DEF Accounts
  <1>2. n + 1 \in Nat /\ 1 .. n + 1 = (1 .. n) \cup {n + 1} /\ n + 1 \notin 1 .. n
    OBVIOUS
  <1>3. \A y \in ToSet(s) : y < n + 1
    <2>1. \A y \in 1 .. n : y < n + 1
      OBVIOUS
    <2> QED
      BY <1>1, <2>1
  <1>4. Rising(s \o <<n + 1>>) /\ ToSet(s \o <<n + 1>>) = ToSet(s) \cup {n + 1}
    BY <1>1, <1>2, <1>3, PutLast
  <1>5. n + 1 \notin g /\ n + 1 \notin ToSet(s)
    BY <1>1, <1>2
  <1>6. (ToSet(s) \cup {n + 1}) \cup g = 1 .. n + 1 /\ (ToSet(s) \cup {n + 1}) \cap g = {}
    BY <1>1, <1>2, <1>5
  <1>7. ToSet(s) \cup (g \cup {n + 1}) = 1 .. n + 1 /\ ToSet(s) \cap (g \cup {n + 1}) = {}
    BY <1>1, <1>2, <1>5
  <1> QED
    BY <1>1, <1>4, <1>6, <1>7 DEF Accounts

\* The frames that are not on their way.
Lost == late \cup gone

\* What EachFrameOnce says.
LEMMA OnceIsAccount == EachFrameOnce <=> Accounts(Pipeline, Lost, captured)
  BY DEF EachFrameOnce, Accounts, Rising, Lost

\* No frame has been captured before the first start.
LEMMA OnceStart == Init => Accounts(Pipeline, Lost, captured)
  <1> SUFFICES ASSUME Init PROVE Accounts(Pipeline, Lost, captured)
    OBVIOUS
  <1>1. stored = <<>> /\ batch = <<>> /\ queue = <<>> /\ Lost = {} /\ captured = 0
    BY DEF Init, CaptureInit, Lost
  <1>2. Queued = <<>>
    BY <1>1 DEF Queued
  <1>3. Pipeline = <<>>
    <2>1. <<>> \o <<>> \o <<>> = <<>>
      BY EmptySeq, ConcatEmptySeq
    <2> QED
      BY <1>1, <1>2, <2>1 DEF Pipeline
  <1>4. ToSet(<<>>) = {} /\ Rising(<<>>) /\ 1 .. 0 = {}
    BY DEF ToSet, Rising
  <1> QED
    BY <1>1, <1>3, <1>4 DEF Accounts

\* Each step of the recorder moves frames along, gives frames up, or takes a new one.
LEMMA OnceStep ==
    ASSUME ShutdownInv, CaptureInv, CaptureInv', Accounts(Pipeline, Lost, captured), [Next]_vars
    PROVE  Accounts(Pipeline, Lost, captured)'
  <1> DEFINE OK == Accounts(Pipeline', Lost', captured')
  <1> SUFFICES OK
    BY DEF Accounts, Rising
  <1>0. /\ stored \in Seq(Nat) /\ batch \in Seq(Nat) /\ Queued \in Seq(Nat)
        /\ Pipeline = stored \o batch \o Queued /\ ToSet(Queued) = FramesIn(queue)
        /\ Pipeline \in Seq(Nat) /\ captured \in Nat
    <2>1. /\ stored \in Seq(Nat) /\ batch \in Seq(Nat) /\ Queued \in Seq(Nat)
          /\ Pipeline = stored \o batch \o Queued /\ ToSet(Queued) = FramesIn(queue)
      BY PipelineParts
    <2>2. captured \in Nat
      BY DEF CaptureInv
    <2>3. Pipeline \in Seq(Nat)
      <3>1. Pipeline = Cat(Cat(stored, batch), Queued)
        BY <2>1 DEF Cat
      <3> QED
        BY <2>1, <3>1, CatLaws
    <2> QED
      BY <2>1, <2>2, <2>3
  <1>1. CASE UNCHANGED <<stored, batch, queue, late, gone, captured>>
    BY <1>1 DEF Pipeline, Queued, Lost
  <1>2. ASSUME NEW c \in Conns, Frame(c) PROVE OK
    <2>1. queue \in Seq(Nat)
      BY DEF CaptureInv
    <2>2. stored' = stored /\ batch' = batch /\ captured' = captured + 1
      BY <1>2 DEF Frame, Capture
    <2>3. CASE queue' = queue /\ Lost' = Lost \cup {captured + 1}
      <3>1. Pipeline' = Pipeline
        BY <2>2, <2>3 DEF Pipeline, Queued
      <3> QED
        BY <1>0, <2>2, <2>3, <3>1, HandedOver
    <2>4. CASE queue' = Append(queue, captured + 1) /\ ~Told /\ Lost' = Lost
      <3>1. captured + 1 \in Nat /\ captured + 1 # Sentinel
        BY <1>0 DEF Sentinel
      <3>0. \A i \in 1 .. Len(queue) : queue[i] # Sentinel
        BY <2>4, NotTold
      <3>2. queue' # <<>> /\ queue'[Len(queue')] = captured + 1
        BY <2>1, <2>4, <3>1, AppendProperties
      <3>3. Queued' = queue' /\ Queued = queue
        BY <2>1, <3>0, <3>1, <3>2, QueuedWithout DEF Queued
      <3>4. Queued' = Queued \o <<captured + 1>>
        BY <2>1, <2>4, <3>1, <3>3, AppendIsConcat
      <3>5. stored \o batch \in Seq(Nat) /\ <<captured + 1>> \in Seq(Nat)
        BY <1>0, <3>1, ConcatProperties
      <3>6. Pipeline' = Pipeline \o <<captured + 1>>
        BY <1>0, <2>2, <3>4, <3>5, ConcatAssociative DEF Pipeline
      <3> QED
        BY <1>0, <2>2, <2>4, <3>6, HandedOver
    <2> QED
      BY <1>2, <2>3, <2>4 DEF Frame, Capture, Lost
  <1>3. CASE Take
    <2>1. queue \in Seq(Nat) /\ queue # <<>> /\ \A i \in 1 .. Len(queue) - 1 : queue[i] # Sentinel
      BY <1>3 DEF Take, CaptureInv
    <2>2. stored' = stored /\ Lost' = Lost /\ captured' = captured /\ queue' = Tail(queue)
      BY <1>3 DEF Take, Lost
    <2>3. CASE Head(queue) = Sentinel
      <3>1. Queued' = Queued
        BY <2>1, <2>2, <2>3, QueuedEnds
      <3> QED
        BY <1>0, <1>3, <2>2, <2>3, <3>1 DEF Take, Pipeline
    <2>4. CASE Head(queue) # Sentinel
      <3>1. /\ Queued' \in Seq(Nat) /\ Head(queue) \in Nat
            /\ Queued = <<Head(queue)>> \o Queued'
        BY <2>1, <2>2, <2>4, QueuedTaken
      <3>2. batch' = batch \o <<Head(queue)>> /\ <<Head(queue)>> \in Seq(Nat)
        <4>1. batch' = Append(batch, Head(queue))
          BY <1>3, <2>4 DEF Take
        <4>2. batch \in Seq(Nat)
          BY <1>0
        <4>3. Append(batch, Head(queue)) = batch \o <<Head(queue)>>
          BY <3>1, <4>2, AppendIsConcat
        <4> QED
          BY <3>1, <4>1, <4>3
      <3> DEFINE m == <<Head(queue)>>
                 q == Queued'
      <3>3. m \in Seq(Nat) /\ q \in Seq(Nat)
        BY <3>1, <3>2
      <3>4. /\ Pipeline' = Cat(Cat(stored, Cat(batch, m)), q)
            /\ Pipeline = Cat(Cat(stored, batch), Cat(m, q))
        BY <1>0, <2>2, <3>1, <3>2, Zenon DEF Pipeline, Cat
      <3> HIDE DEF m, q
      <3>5. Pipeline' = Pipeline
        BY <1>0, <3>3, <3>4, MovesOn
      <3> QED
        BY <2>2, <3>5
    <2> QED
      BY <2>3, <2>4
  <1>4. CASE Commit
    <2>1. queue' = queue /\ captured' = captured /\ batch' = <<>> /\ Queued' = Queued
      BY <1>4 DEF Commit, Queued
    <2>2. CASE stored' = stored \o batch /\ Lost' = Lost
      <3>1. stored' \o <<>> = stored \o batch
        BY <1>0, <2>2, ConcatProperties, ConcatEmptySeq
      <3> QED
        BY <1>0, <2>1, <2>2, <3>1 DEF Pipeline
    <2>3. CASE Lost' = Lost \cup ToSet(batch) /\ stored' = stored
      <3>1. Pipeline' = stored \o Queued
        BY <1>0, <2>1, <2>3, ConcatEmptySeq DEF Pipeline
      <3> QED
        BY <1>0, <2>1, <2>3, <3>1, GivenUp
    <2> QED
      BY <1>4, <2>2, <2>3 DEF Commit, Lost
  <1>5. CASE Prune
    <2>1. PICK n \in 0 .. Len(stored) :
             /\ stored' = SubSeq(stored, n + 1, Len(stored))
             /\ Lost' = Lost \cup ToSet(SubSeq(stored, 1, n))
      BY <1>5 DEF Prune, Lost
    <2>2. batch' = batch /\ queue' = queue /\ captured' = captured /\ Queued' = Queued
      BY <1>5 DEF Prune, Queued
    <2> DEFINE old == SubSeq(stored, 1, n)
               kept == stored'
               rest == Cat(Cat(kept, batch), Queued)
    <2>3. old \in Seq(Nat) /\ kept \in Seq(Nat)
      BY <1>0, <2>1
    <2>4. stored = Cat(old, kept)
      <3>1. /\ n \in 1 - 1 .. Len(stored) /\ Len(stored) \in n .. Len(stored)
            /\ 1 \in 1 .. Len(stored) + 1 /\ SubSeq(stored, 1, Len(stored)) = stored
        BY <1>0, <2>1
      <3>2. SubSeq(stored, 1, n) \o SubSeq(stored, n + 1, Len(stored)) = stored
        BY <1>0, <2>1, <3>1, ConcatAdjacentSubSeq
      <3> QED
        BY <2>1, <3>2, Zenon DEF Cat
    <2>5. Pipeline' = rest
      BY <2>2 DEF Pipeline, Cat
    <2>6. Pipeline = Cat(Cat(stored, batch), Queued)
      BY DEF Pipeline, Cat
    <2> HIDE DEF old, kept
    <2>7. /\ Pipeline = Cat(Cat(<<>>, old), rest)
          /\ rest = Cat(<<>>, rest) /\ rest \in Seq(Nat)
      <3>1. /\ Cat(Cat(Cat(old, kept), batch), Queued) = Cat(Cat(<<>>, old), rest)
            /\ rest = Cat(<<>>, rest) /\ rest \in Seq(Nat)
        BY <1>0, <2>3, SplitsOff
      <3> QED
        BY <2>4, <2>6, <3>1, Zenon
    <2> HIDE DEF rest
    <2>8. Accounts(<<>> \o old \o rest, Lost, captured) /\ <<>> \in Seq(Nat)
      BY <2>7, EmptyQueue, Zenon DEF Cat
    <2>9. Accounts(<<>> \o rest, Lost \cup ToSet(old), captured)
      BY <2>3, <2>7, <2>8, GivenUp
    <2>10. Lost' = Lost \cup ToSet(old) /\ captured' = captured /\ Pipeline' = <<>> \o rest
      BY <2>1, <2>2, <2>5, <2>7, Zenon DEF old, Cat
    <2> QED
      BY <2>9, <2>10, Zenon
  <1>6. CASE StopPuts
    <2>1. caller = "putting" /\ UNCHANGED <<stored, batch, captured>> /\ Lost' = Lost
      BY <1>6 DEF StopPuts, Lost
    <2>2. Queued' = Queued
      BY <1>6, <2>1, SentinelAdds DEF StopPuts, CaptureInv
    <2> QED
      BY <2>1, <2>2 DEF Pipeline
  <1>7. CASE CaptureDies
    <2>1. /\ stored' = stored /\ captured' = captured /\ batch' = <<>> /\ queue' = <<>>
          /\ Lost' = Lost \cup ToSet(Queued) \cup ToSet(batch)
      BY <1>0, <1>7 DEF CaptureDies, Lost
    <2>2. Queued' = <<>>
      BY <2>1 DEF Queued
    <2>3. Accounts(stored \o Queued, Lost \cup ToSet(batch), captured)
      BY <1>0, GivenUp
    <2>4. /\ (stored \o Queued) \o <<>> = stored \o Queued /\ stored \o <<>> = stored
          /\ <<>> \in Seq(Nat)
      BY <1>0, ConcatProperties, ConcatEmptySeq, EmptySeq
    <2>5. Accounts(stored \o <<>>, (Lost \cup ToSet(batch)) \cup ToSet(Queued), captured)
      <3> DEFINE e == <<>>
                 lost == Lost \cup ToSet(batch)
      <3>1. e \in Seq(Nat) /\ Accounts(stored \o Queued \o e, lost, captured)
        BY <2>3, <2>4
      <3> HIDE DEF e, lost
      <3>2. Accounts(stored \o e, lost \cup ToSet(Queued), captured)
        BY <1>0, <3>1, GivenUp
      <3> QED
        BY <3>2 DEF e, lost
    <2>6. Pipeline' = stored /\ Lost' = (Lost \cup ToSet(batch)) \cup ToSet(Queued)
      BY <2>1, <2>2, <2>4 DEF Pipeline
    <2> QED
      BY <2>1, <2>4, <2>5, <2>6
  <1> QED
    BY <1>1, <1>2, <1>3, <1>4, <1>5, <1>6, <1>7
    DEF Next, Main, Boot, StartParts, Listen, ShutdownBegins, StopServer, StopCollector,
        StopTasks, StopRecorder, ExitBegins,
        ShutdownEnds, ProcessExits, Crash, CrashInSave, ProcessGone, TaskEnds, ApplyStarts,
        ApplyEnds, Accept, Register,
        HandlerEnds, TcpdumpExits, Recorder, WriterStep, StopStep, vars, captureVars, StartCapture,
        WriterOpens, TakeNothing, StopBegins, StopFindsFull, Joined

\* For any sizes of the queue and of a batch, through failed commits, a full
\* queue, pruning, stops, crashes and restarts: every frame that was captured
\* is on its way once and in order, or was given up.
THEOREM NoFrameTwice == Spec => []EachFrameOnce
  <1>1. Accounts(Pipeline, Lost, captured) => EachFrameOnce
    BY OnceIsAccount
  <1> QED
    BY ShutdownStart, ShutdownStep, CaptureStart, CaptureStep, OnceStart, OnceStep, <1>1, PTL
    DEF Spec

------------------------------------------------------------------------------
(* Types, and the bounds of the queue and of a batch. *)

\* With it the bound of a batch is kept: the writer asks for the next item only
\* with room for it.
CaptureTypeInv ==
    /\ CaptureTypeOK
    /\ writer \in {"opening", "taking", "prune"} => Len(batch) < BatchSize

\* Sequences of numbers up to n are sequences of numbers up to more than n.
LEMMA WiderSeq ==
    ASSUME NEW a \in Nat, NEW n \in Nat, NEW m \in Nat, n <= m, NEW s \in Seq(a .. n)
    PROVE  s \in Seq(a .. m)
  <1>1. Len(s) \in Nat /\ s \in [1 .. Len(s) -> a .. n]
    BY LenProperties
  <1>2. s \in [1 .. Len(s) -> a .. m]
    BY <1>1
  <1> QED
    BY <1>1, <1>2, SeqDef

\* The items of a sequence over S are in S.
LEMMA ItemsOf ==
    ASSUME NEW S, NEW s \in Seq(S)
    PROVE  ToSet(s) \subseteq S
  BY LenProperties DEF ToSet

\* Every step of the recorder keeps its types and bounds.
LEMMA CaptureTypeStep == CaptureInv /\ CaptureTypeInv /\ [Next]_vars => CaptureTypeInv'
  <1> SUFFICES ASSUME CaptureInv, CaptureTypeInv, [Next]_vars PROVE CaptureTypeInv'
    OBVIOUS
  <1>1. /\ queue \in Seq(0 .. captured) /\ Len(queue) <= QueueSize /\ Len(queue) \in Nat
        /\ batch \in Seq(1 .. captured) /\ Len(batch) <= BatchSize /\ Len(batch) \in Nat
        /\ stored \in Seq(1 .. captured) /\ Len(stored) \in Nat
        /\ captured \in Nat /\ gone \subseteq 1 .. captured /\ late \subseteq 1 .. captured
        /\ starts \in Nat /\ stopping \in BOOLEAN
        /\ QueueSize \in Nat \ {0} /\ BatchSize \in Nat \ {0}
    BY CaptureAssumption, LenProperties DEF CaptureTypeInv, CaptureTypeOK
  <1>2. CASE UNCHANGED captureVars
    BY <1>2 DEF captureVars, CaptureTypeInv, CaptureTypeOK
  <1>3. CASE StartCapture
    <2>1. Len(batch) = 0
      BY <1>3 DEF StartCapture, CaptureInv
    <2>2. /\ UNCHANGED <<queue, batch, stored, captured, gone, late>>
          /\ caller' = "running" /\ writer' = "opening" /\ stopping' = FALSE
          /\ starts' = starts + 1
      BY <1>3 DEF StartCapture
    <2>3. Len(batch') < BatchSize
      BY <1>1, <2>1, <2>2
    <2>4. starts' \in Nat
      BY <1>1, <2>2
    <2>5. /\ queue' \in Seq(0 .. captured') /\ Len(queue') <= QueueSize
          /\ batch' \in Seq(1 .. captured') /\ Len(batch') <= BatchSize
          /\ stored' \in Seq(1 .. captured') /\ captured' \in Nat
          /\ gone' \subseteq 1 .. captured' /\ late' \subseteq 1 .. captured'
      BY ONLY <1>1, <2>2
    <2> QED
      BY ONLY <2>2, <2>3, <2>4, <2>5 DEF CaptureTypeInv, CaptureTypeOK
  <1>4. CASE Capture
    <2>1. /\ queue \in Seq(0 .. captured + 1) /\ batch \in Seq(1 .. captured + 1)
          /\ stored \in Seq(1 .. captured + 1)
      <3>1. captured <= captured + 1 /\ captured + 1 \in Nat /\ 0 \in Nat /\ 1 \in Nat
        BY <1>1
      <3>2. queue \in Seq(0 .. captured) /\ batch \in Seq(1 .. captured) /\ stored \in Seq(1 .. captured)
        BY <1>1
      <3>3. captured \in Nat
        BY <1>1
      <3>4. queue \in Seq(0 .. captured + 1)
        BY ONLY <3>1, <3>2, <3>3, WiderSeq
      <3> QED
        BY ONLY <3>1, <3>2, <3>3, <3>4, WiderSeq
    <2>2. /\ captured' = captured + 1
          /\ gone' \subseteq 1 .. captured' /\ late' \subseteq 1 .. captured'
      <3>1. /\ gone \subseteq 1 .. captured + 1 /\ late \subseteq 1 .. captured + 1
            /\ captured + 1 \in 1 .. captured + 1
        BY <1>1
      <3>2. /\ captured' = captured + 1 /\ (gone' = gone \/ gone' = gone \cup {captured + 1})
            /\ late' = late \/ late' = late \cup {captured + 1}
        BY <1>4 DEF Capture
      <3> QED
        BY <3>1, <3>2
    <2>3. queue' \in Seq(0 .. captured') /\ Len(queue') <= QueueSize
      <3>0. Cardinality(late) \in Nat
        <4>1. IsFiniteSet(1 .. captured)
          BY <1>1, FS_Interval
        <4> QED
          BY <1>1, <4>1, FS_Subset, FS_CardinalityType
      <3>1. CASE queue' = Append(queue, captured + 1) /\ Len(queue) + Cardinality(late) < QueueSize
        <4>1. Len(queue) < QueueSize /\ captured + 1 \in 0 .. captured + 1
          BY <1>1, <3>0, <3>1
        <4> QED
          BY <1>1, <2>1, <2>2, <3>1, <4>1, AppendProperties
      <3>2. CASE queue' = queue
        BY <1>1, <2>1, <2>2, <3>2
      <3> QED
        BY <1>1, <1>4, <3>0, <3>1, <3>2 DEF Capture
    <2> QED
      BY <1>1, <1>4, <2>1, <2>2, <2>3 DEF Capture, CaptureTypeInv, CaptureTypeOK
  <1>5. CASE WriterOpens \/ TakeNothing
    BY <1>1, <1>5 DEF WriterOpens, TakeNothing, CaptureTypeInv, CaptureTypeOK
  <1>6. CASE Take
    <2>1. Len(batch) < BatchSize /\ Head(queue) \in 0 .. captured
          /\ queue' \in Seq(0 .. captured) /\ Len(queue') <= QueueSize
      <3>1. Len(queue) # 0 /\ Head(queue) \in 0 .. captured
            /\ Tail(queue) \in Seq(0 .. captured) /\ Len(Tail(queue)) = Len(queue) - 1
        BY <1>1, <1>6, HeadTailProperties DEF Take
      <3> QED
        BY <1>1, <1>6, <3>1 DEF Take, CaptureTypeInv
    <2>2. CASE Head(queue) = Sentinel
      BY <1>1, <1>6, <2>1, <2>2 DEF Take, CaptureTypeInv, CaptureTypeOK
    <2>3. CASE Head(queue) # Sentinel
      <3>1. batch' = Append(batch, Head(queue)) /\ Head(queue) \in 1 .. captured
        BY <1>6, <2>1, <2>3 DEF Take, Sentinel
      <3>2. batch' \in Seq(1 .. captured) /\ Len(batch') = Len(batch) + 1
        BY <1>1, <3>1, AppendProperties
      <3> QED
        BY <1>1, <1>6, <2>1, <2>3, <3>2 DEF Take, CaptureTypeInv, CaptureTypeOK
    <2> QED
      BY <2>2, <2>3
  <1>7. CASE Commit
    <2>1. stored' \in Seq(1 .. captured) /\ gone' \subseteq 1 .. captured
      <3>1. stored \o batch \in Seq(1 .. captured) /\ ToSet(batch) \subseteq 1 .. captured
        BY <1>1, ConcatProperties, ItemsOf
      <3> QED
        BY <1>1, <1>7, <3>1 DEF Commit
    <2>2. batch' = <<>> /\ batch' \in Seq(1 .. captured) /\ Len(batch') = 0
      BY <1>7, EmptySeq DEF Commit
    <2> QED
      BY <1>1, <1>7, <2>1, <2>2 DEF Commit, CaptureTypeInv, CaptureTypeOK
  <1>8. CASE Prune
    <2>1. PICK n \in 0 .. Len(stored) :
             /\ stored' = SubSeq(stored, n + 1, Len(stored))
             /\ gone' = gone \cup ToSet(SubSeq(stored, 1, n))
      BY <1>8 DEF Prune
    <2>2. stored' \in Seq(1 .. captured) /\ SubSeq(stored, 1, n) \in Seq(1 .. captured)
      <3>1. n \in Int /\ n + 1 \in Int /\ Len(stored) \in Int /\ 1 \in Int
        BY <1>1, <2>1
      <3>2. \A i \in 1 .. Len(stored) : stored[i] \in 1 .. captured
        BY <1>1, LenProperties
      <3>3. /\ \A i \in n + 1 .. Len(stored) : stored[i] \in 1 .. captured
            /\ \A i \in 1 .. n : stored[i] \in 1 .. captured
        BY <1>1, <2>1, <3>2
      <3>4. SubSeq(stored, n + 1, Len(stored)) \in Seq(1 .. captured)
        BY ONLY <3>1, <3>3, SubSeqProperties
      <3>5. SubSeq(stored, 1, n) \in Seq(1 .. captured)
        BY ONLY <3>1, <3>3, SubSeqProperties
      <3> QED
        BY <2>1, <3>4, <3>5
    <2>3. gone' \subseteq 1 .. captured
      BY <1>1, <2>1, <2>2, ItemsOf
    <2>4. UNCHANGED <<caller, stopping, queue, batch, captured, late, starts>>
          /\ writer = "prune" /\ writer' \in {"dead", "taking"}
      BY <1>8 DEF Prune
    <2> QED
      BY <1>1, <2>2, <2>3, <2>4 DEF CaptureTypeInv, CaptureTypeOK
  <1>9. CASE StopBegins \/ StopFindsFull \/ Joined
    BY <1>1, <1>9 DEF StopBegins, StopFindsFull, Joined, CaptureTypeInv, CaptureTypeOK
  <1>10. CASE StopPuts
    <2>1. queue' = Append(queue, Sentinel) /\ Sentinel \in 0 .. captured /\ Len(queue) < QueueSize
      BY <1>1, <1>10 DEF StopPuts, Sentinel
    <2>2. queue' \in Seq(0 .. captured) /\ Len(queue') <= QueueSize
      BY <1>1, <2>1, AppendProperties
    <2> QED
      BY <1>1, <1>10, <2>2 DEF StopPuts, CaptureTypeInv, CaptureTypeOK
  <1>11. CASE CaptureDies
    <2>1. gone' \subseteq 1 .. captured /\ late' = {}
      <3>1. FramesIn(queue) \subseteq 1 .. captured /\ ToSet(batch) \subseteq 1 .. captured
        BY <1>1, ItemsOf DEF FramesIn, Sentinel
      <3> QED
        BY <1>1, <1>11, <3>1 DEF CaptureDies
    <2>2. /\ queue' = <<>> /\ queue' \in Seq(0 .. captured) /\ Len(queue') = 0
          /\ batch' = <<>> /\ batch' \in Seq(1 .. captured) /\ Len(batch') = 0
      BY <1>11, EmptySeq DEF CaptureDies
    <2>3. /\ caller' = "down" /\ writer' = "none" /\ stopping' = FALSE
          /\ UNCHANGED <<stored, captured, starts>>
      BY <1>11 DEF CaptureDies
    <2>4. Len(queue') <= QueueSize /\ Len(batch') <= BatchSize
      BY <1>1, <2>2
    <2> QED
      BY <1>1, <2>1, <2>2, <2>3, <2>4 DEF CaptureTypeInv, CaptureTypeOK
  <1> QED
    BY <1>2, <1>3, <1>4, <1>5, <1>6, <1>7, <1>8, <1>9, <1>10, <1>11
    DEF Next, Main, Boot, StartParts, Listen, ShutdownBegins, StopServer, StopCollector,
        StopTasks, StopRecorder, ExitBegins,
        ShutdownEnds, ProcessExits, Crash, CrashInSave, ProcessGone, TaskEnds, ApplyStarts,
        ApplyEnds, Accept, Register,
        HandlerEnds, Frame, TcpdumpExits, Recorder, WriterStep, StopStep, vars

\* The server listens and tcpdump runs, or not.
Flags == listening \in BOOLEAN /\ tcpdump \in BOOLEAN

\* Every step keeps the flags.
LEMMA FlagStep == Flags /\ [Next]_vars => Flags'
  BY DEF Flags, Next, Main, Boot, StartParts, Listen, ShutdownBegins, StopServer, StopCollector,
        StopTasks, StopRecorder, ExitBegins,
     ShutdownEnds, ProcessExits, Crash, CrashInSave, ProcessGone, TaskEnds, ApplyStarts,
        ApplyEnds, Accept, Register,
     HandlerEnds, Frame, TcpdumpExits, Recorder, mainVars, vars

\* Every field keeps its type, the queue never holds more than its size and the
\* writer never collects more than a batch, across stops, crashes and restarts.
THEOREM LifecycleTypes == Spec => []TypeOK
  <1>1. Init => CaptureTypeInv /\ Flags
    <2> SUFFICES ASSUME Init PROVE CaptureTypeInv /\ Flags
      OBVIOUS
    <2>1. /\ queue = <<>> /\ batch = <<>> /\ stored = <<>>
          /\ \A S : <<>> \in Seq(S)
          /\ Len(queue) = 0 /\ Len(batch) = 0
      BY EmptySeq DEF Init, CaptureInit
    <2>2. /\ caller = "down" /\ writer = "none" /\ stopping = FALSE
          /\ captured = 0 /\ gone = {} /\ late = {} /\ starts = 0
          /\ listening = FALSE /\ tcpdump = FALSE
      BY DEF Init, CaptureInit
    <2>3. Len(queue) <= QueueSize /\ Len(batch) <= BatchSize
      BY <2>1, CaptureAssumption
    <2> QED
      BY <2>1, <2>2, <2>3 DEF CaptureTypeInv, CaptureTypeOK, Flags
  <1>2. CaptureTypeInv /\ ShutdownInv /\ IdInv /\ Flags => TypeOK
    BY DEF Flags, CaptureTypeInv, ShutdownInv, IdInv, TypeOK
  <1> QED
    BY <1>1, <1>2, CaptureStart, CaptureStep, CaptureTypeStep, FlagStep, ShutdownStart, ShutdownStep, IdStart, IdStep, PTL
    DEF Spec
=============================================================================
