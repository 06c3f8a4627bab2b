-------------------------- MODULE Telemetry_proofs --------------------------
(* Proofs about Telemetry and TelemetryClient, for every limit of the table *)
(* and of a flush, and any set of records.                                  *)
EXTENDS Telemetry, SequenceTheorems, TLAPS

Buffers == Seq(SUBSET Records)

\* A message put at the end of the table is in it, and so is the rest.
LEMMA InBufferAppend ==
    ASSUME NEW b \in Buffers, NEW p \in SUBSET Records
    PROVE  /\ Append(b, p) \in Buffers /\ Len(Append(b, p)) = Len(b) + 1
           /\ InBuffer(Append(b, p)) = InBuffer(b) \cup p
  <1>1. /\ Append(b, p) \in Buffers /\ Len(Append(b, p)) = Len(b) + 1
        /\ \A i \in 1 .. Len(b) : Append(b, p)[i] = b[i]
        /\ Append(b, p)[Len(b) + 1] = p
    BY DEF Buffers
  <1>2. DOMAIN b = 1 .. Len(b) /\ DOMAIN Append(b, p) = 1 .. Len(b) + 1 /\ Len(b) \in Nat
    BY <1>1 DEF Buffers
  <1>3. ASSUME NEW r, r \in InBuffer(Append(b, p)) PROVE r \in InBuffer(b) \cup p
    <2>1. PICK i \in 1 .. Len(b) + 1 : r \in Append(b, p)[i]
      BY <1>2, <1>3 DEF InBuffer
    <2>2. i \in 1 .. Len(b) \/ i = Len(b) + 1
      BY <1>2
    <2> QED
      BY <1>1, <1>2, <2>1, <2>2 DEF InBuffer
  <1>4. ASSUME NEW r, r \in InBuffer(b) \cup p PROVE r \in InBuffer(Append(b, p))
    <2>1. CASE r \in p
      BY <1>1, <1>2, <2>1 DEF InBuffer
    <2>2. CASE r \in InBuffer(b)
      <3>1. PICK i \in 1 .. Len(b) : r \in b[i]
        BY <1>2, <2>2 DEF InBuffer
      <3>2. r \in Append(b, p)[i] /\ i \in 1 .. Len(b) + 1
        BY <1>1, <1>2, <3>1
      <3> QED
        BY <1>2, <3>2 DEF InBuffer
    <2> QED
      BY <1>4, <2>1, <2>2
  <1> QED
    BY <1>1, <1>3, <1>4

\* What leaves the table at its front and what stays were all that was in it.
LEMMA InBufferCut ==
    ASSUME NEW b \in Buffers, NEW k \in 0 .. Len(b)
    PROVE  LET rest == SubSeq(b, k + 1, Len(b)) IN
           /\ rest \in Buffers /\ Len(rest) = Len(b) - k
           /\ InBuffer(b) = InBuffer(SubSeq(b, 1, k)) \cup InBuffer(rest)
  <1> DEFINE rest == SubSeq(b, k + 1, Len(b))
             front == SubSeq(b, 1, k)
  <1>1. /\ rest \in Buffers /\ Len(rest) = Len(b) - k
        /\ \A i \in 1 .. Len(b) - k : rest[i] = b[k + i]
    BY DEF Buffers
  <1>2. /\ front \in Buffers /\ Len(front) = k
        /\ \A i \in 1 .. k : front[i] = b[i]
    BY DEF Buffers
  <1>3. /\ DOMAIN b = 1 .. Len(b) /\ DOMAIN rest = 1 .. Len(b) - k /\ DOMAIN front = 1 .. k
        /\ Len(b) \in Nat /\ k \in Nat /\ k <= Len(b)
    BY <1>1, <1>2 DEF Buffers
  <1> HIDE DEF rest, front
  <1>4. ASSUME NEW r, r \in InBuffer(b) PROVE r \in InBuffer(front) \cup InBuffer(rest)
    <2>1. PICK i \in 1 .. Len(b) : r \in b[i]
      BY <1>3, <1>4 DEF InBuffer
    <2>2. CASE i <= k
      BY <1>2, <1>3, <2>1, <2>2 DEF InBuffer
    <2>3. CASE i > k
      <3>1. i - k \in 1 .. Len(b) - k /\ k + (i - k) = i
        BY <1>3, <2>1, <2>3
      <3>2. rest[i - k] = b[i]
        BY <1>1, <3>1
      <3> QED
        BY <1>3, <2>1, <3>1, <3>2 DEF InBuffer
    <2> QED
      BY <1>3, <2>1, <2>2, <2>3
  <1>5. ASSUME NEW r, r \in InBuffer(front) \cup InBuffer(rest) PROVE r \in InBuffer(b)
    <2>1. CASE r \in InBuffer(front)
      <3>1. PICK i \in 1 .. k : r \in front[i]
        BY <1>3, <2>1 DEF InBuffer
      <3>2. i \in 1 .. Len(b) /\ r \in b[i]
        BY <1>2, <1>3, <3>1
      <3> QED
        BY <1>3, <3>2 DEF InBuffer
    <2>2. CASE r \in InBuffer(rest)
      <3>1. PICK i \in 1 .. Len(b) - k : r \in rest[i]
        BY <1>3, <2>2 DEF InBuffer
      <3>2. k + i \in 1 .. Len(b) /\ r \in b[k + i]
        BY <1>1, <1>3, <3>1
      <3> QED
        BY <1>3, <3>2 DEF InBuffer
    <2> QED
      BY <1>5, <2>1, <2>2
  <1>6. InBuffer(b) = InBuffer(front) \cup InBuffer(rest)
    BY <1>4, <1>5
  <1> QED
    BY <1>1, <1>6 DEF rest, front

\* The same for the oldest message alone.
LEMMA InBufferTail ==
    ASSUME NEW b \in Buffers, Len(b) > 0
    PROVE  /\ Tail(b) \in Buffers /\ Len(Tail(b)) = Len(b) - 1 /\ Head(b) \in SUBSET Records
           /\ Tail(b) = SubSeq(b, 2, Len(b))
           /\ InBuffer(b) = Head(b) \cup InBuffer(Tail(b))
  <1>1. /\ Tail(b) = SubSeq(b, 2, Len(b)) /\ Len(b) \in Nat /\ 1 \in 0 .. Len(b)
        /\ Head(b) = b[1] /\ b[1] \in SUBSET Records
    BY DEF Buffers
  <1>2. DOMAIN SubSeq(b, 1, 1) = 1 .. 1 /\ SubSeq(b, 1, 1)[1] = b[1]
    BY <1>1 DEF Buffers
  <1>3. InBuffer(SubSeq(b, 1, 1)) = Head(b)
    BY <1>1, <1>2 DEF InBuffer
  <1>4. 1 + 1 = 2
    OBVIOUS
  <1>5. LET rest == SubSeq(b, 1 + 1, Len(b)) IN
        /\ rest \in Buffers /\ Len(rest) = Len(b) - 1
        /\ InBuffer(b) = InBuffer(SubSeq(b, 1, 1)) \cup InBuffer(rest)
    BY <1>1, InBufferCut
  <1> QED
    BY <1>1, <1>3, <1>4, <1>5
------------------------------------------------------------------------------
(* The client. *)

\* What makes the types and the bound inductive: a flush counts only what is in
\* the table; a send or a flush has a paho client; a message is removed only
\* after it was handed to paho; beyond the limit there is one message at most,
\* which the clean-up follows.
Flushing == job \notin {"flush", "remove"} => left = 0
Removing == job = "remove" => left > 0 /\ Head(buffer) \subseteq delivered \cup outbox \cup gone
HasClient == job \in {"publish", "flush", "remove"} => session # "none"
ClientInv == ClientTypeOK /\ Flushing /\ Removing /\ HasClient /\ BufferBounded

\* What the client has in hand or answers for.
InHand == IF job \in {"ensure", "publish", "store"} THEN payload ELSE {}
Kept == InBuffer(buffer) \cup outbox \cup delivered \cup gone \cup InHand

\* Steps of a connection attempt.
LEMMA EnsuringKeeps ==
    ASSUME ClientInv, AlreadyConnected \/ TooEarly \/ FoundConnected \/ Reconnect
    PROVE  ClientInv' /\ Kept \subseteq Kept'
  <1> USE DEF ClientInv, ClientTypeOK, Flushing, Removing, HasClient, BufferBounded, Kept, InHand
  <1>1. CASE AlreadyConnected
    <2>1. Len(buffer) \in Nat /\ left' \in 0 .. Len(buffer)
      BY <1>1, ClientAssumption DEF AlreadyConnected, Ensuring
    <2>2. /\ job' \in {"publish", "flush"} /\ session # "none"
          /\ job = "ensure" => job' = "publish" /\ left' = left
          /\ job # "trim"
      <3>1. job \in {"ensure", "again"} /\ job' = IF job = "ensure" THEN "publish" ELSE "flush"
        BY <1>1 DEF AlreadyConnected, Ensuring, Succeed
      <3>2. job = "ensure" => left' = left
        BY <1>1 DEF AlreadyConnected
      <3>3. session # "none"
        BY <1>1 DEF AlreadyConnected
      <3> HIDE DEF ClientInv
      <3> QED
        BY <3>1, <3>2, <3>3
    <2>3. ClientTypeOK'
      BY <1>1, <2>1, <2>2 DEF AlreadyConnected, Links, Jobs
    <2>4. Flushing' /\ Removing' /\ HasClient' /\ BufferBounded'
      BY <1>1, <2>2 DEF AlreadyConnected, Links, Ensuring, Succeed
    <2>5. Kept \subseteq Kept'
      BY <1>1, <2>2 DEF AlreadyConnected, Links, Ensuring, Succeed
    <2> QED
      BY <2>3, <2>4, <2>5
  <1>2. CASE TooEarly
    BY <1>2 DEF TooEarly, Links, Ensuring, GiveUp, Jobs
  <1>3. CASE FoundConnected
    BY <1>3 DEF FoundConnected, Attempt, Ensuring
  <1>4. CASE Reconnect
    BY <1>4 DEF Reconnect, Attempt, Ensuring, GiveUp, Jobs, Sessions
  <1> QED
    BY <1>1, <1>2, <1>3, <1>4

\* A new paho client: what the old one held is given up.
LEMMA CreateKeeps ==
    ASSUME ClientInv, Created \/ CreateFails
    PROVE  ClientInv' /\ Kept \subseteq Kept'
  <1> USE DEF ClientInv, ClientTypeOK, Flushing, Removing, HasClient, BufferBounded, Kept, InHand
  <1>1. CASE Created
    BY <1>1 DEF Created, Attempt, Ensuring, DropClient, Sessions
  <1>2. CASE CreateFails
    BY <1>2 DEF CreateFails, Attempt, Ensuring, DropClient, GiveUp, Jobs, Sessions
  <1> QED
    BY <1>1, <1>2

\* What is handed to paho arrives or stays with it, unless it was refused.
LEMMA ReachesOrRefused ==
    ASSUME ClientTypeOK, session # "none", NEW recs \in SUBSET Records, Reaches(recs)
    PROVE  /\ delivered \subseteq delivered' /\ outbox \subseteq outbox'
           /\ delivered' \subseteq Records /\ outbox' \subseteq Records
           /\ ~Refused => recs \subseteq delivered' \cup outbox'
  BY DEF ClientTypeOK, Sessions, Reaches, Refused

\* A payload is published, stored after a refusal, or the table is flushed.
LEMMA PublishKeeps ==
    ASSUME ClientInv, Publish
    PROVE  ClientInv' /\ Kept \subseteq Kept'
  <1>1. /\ delivered \subseteq delivered' /\ outbox \subseteq outbox'
        /\ delivered' \subseteq Records /\ outbox' \subseteq Records
        /\ ~Refused => payload \subseteq delivered' \cup outbox'
    BY ReachesOrRefused DEF Publish, ClientInv, ClientTypeOK, HasClient
  <1>2. /\ job = "publish" /\ job' \in {"store", "again", "rest"} /\ flushDue' \in BOOLEAN
        /\ Refused => job' = "store"
    BY DEF Publish, ClientInv, ClientTypeOK
  <1> QED
    BY <1>1, <1>2 DEF Publish, ClientInv, ClientTypeOK, Jobs, Flushing, Removing, HasClient,
                      BufferBounded, Kept, InHand

\* A refused payload goes to the end of the table.
LEMMA InsertKeeps ==
    ASSUME ClientInv, Insert
    PROVE  ClientInv' /\ Kept \subseteq Kept'
  <1>1. /\ buffer' \in Buffers /\ Len(buffer') = Len(buffer) + 1
        /\ InBuffer(buffer') = InBuffer(buffer) \cup payload
    BY InBufferAppend DEF Insert, ClientInv, ClientTypeOK, Buffers
  <1>2. Len(buffer) \in Nat
    BY DEF ClientInv, ClientTypeOK
  <1> QED
    BY <1>1, <1>2, ClientAssumption DEF Insert, Links, ClientInv, ClientTypeOK, Jobs, Flushing,
       Removing, HasClient, BufferBounded, Kept, InHand, Buffers

\* How many messages a clean-up takes away, and what it leaves.
LEMMA SurplusBounds ==
    ASSUME ClientTypeOK
    PROVE  /\ Surplus(Len(buffer), expired) \in 0 .. Len(buffer)
           /\ Len(buffer) - Surplus(Len(buffer), expired) <= MaxMessages
  BY ClientAssumption DEF ClientTypeOK, Surplus

\* The clean-up cuts the table back to its limit and gives up what it takes away.
LEMMA TrimKeeps ==
    ASSUME ClientInv, Trim
    PROVE  ClientInv' /\ Kept \subseteq Kept'
  <1> DEFINE k == Surplus(Len(buffer), expired)
  <1>1. k \in 0 .. Len(buffer) /\ Len(buffer) - k <= MaxMessages /\ Len(buffer) \in Nat
    BY SurplusBounds DEF ClientInv, ClientTypeOK
  <1>2. /\ buffer' \in Buffers /\ Len(buffer') = Len(buffer) - k
        /\ InBuffer(buffer) = InBuffer(SubSeq(buffer, 1, k)) \cup InBuffer(buffer')
    BY <1>1, InBufferCut DEF Trim, Forget, ClientInv, ClientTypeOK, Buffers
  <1>3. gone' = gone \cup (InBuffer(SubSeq(buffer, 1, k)) \ (delivered \cup outbox))
    BY DEF Trim, Forget
  <1>4. expired' \in 0 .. Len(buffer')
    BY <1>1, <1>2 DEF Trim, Forget, ClientInv, ClientTypeOK
  <1>5. InBuffer(buffer) \subseteq Records
    BY DEF InBuffer, ClientInv, ClientTypeOK
  <1> HIDE DEF k
  <1> QED
    BY <1>1, <1>2, <1>3, <1>4, <1>5, ClientAssumption DEF Trim, ClientInv, ClientTypeOK, Jobs,
       Flushing, Removing, HasClient, BufferBounded, Kept, InHand, Buffers

\* A flush takes a message from the table only after paho has it.
LEMMA FlushKeeps ==
    ASSUME ClientInv, FlushOne \/ Remove \/ FlushEnds
    PROVE  ClientInv' /\ Kept \subseteq Kept'
  <1>1. CASE FlushOne
    <2>1. Len(buffer) > 0 /\ Head(buffer) \in SUBSET Records
      BY <1>1, InBufferTail DEF FlushOne, ClientInv, ClientTypeOK, Buffers
    <2>2. /\ delivered \subseteq delivered' /\ outbox \subseteq outbox'
          /\ delivered' \subseteq Records /\ outbox' \subseteq Records
          /\ ~Refused => Head(buffer) \subseteq delivered' \cup outbox'
      BY <1>1, <2>1, ReachesOrRefused DEF FlushOne, ClientInv, HasClient
    <2>3. CASE Refused
      BY <1>1, <2>2, <2>3 DEF FlushOne, ClientInv, ClientTypeOK, Jobs, Flushing, Removing,
         HasClient, BufferBounded, Kept, InHand
    <2>4. CASE ~Refused
      BY <1>1, <2>2, <2>4 DEF FlushOne, ClientInv, ClientTypeOK, Jobs, Flushing, Removing,
         HasClient, BufferBounded, Kept, InHand
    <2> QED
      BY <2>3, <2>4
  <1>2. CASE Remove
    <2>1. /\ buffer' \in Buffers /\ Len(buffer') = Len(buffer) - 1
          /\ InBuffer(buffer) = Head(buffer) \cup InBuffer(buffer')
          /\ Head(buffer) \subseteq delivered \cup outbox \cup gone
          /\ Len(buffer) \in Nat /\ left > 0
      BY <1>2, InBufferTail DEF Remove, ClientInv, ClientTypeOK, Removing, Buffers
    <2>2. left' \in 0 .. Len(buffer') /\ expired' \in 0 .. Len(buffer')
      BY <1>2, <2>1 DEF Remove, ClientInv, ClientTypeOK
    <2> QED
      BY <1>2, <2>1, <2>2, ClientAssumption DEF Remove, Links, ClientInv, ClientTypeOK, Jobs,
         Flushing, Removing, HasClient, BufferBounded, Kept, InHand, Buffers
  <1>3. CASE FlushEnds
    BY <1>3 DEF FlushEnds, Links, ClientInv, ClientTypeOK, Jobs, Flushing, Removing,
       HasClient, BufferBounded, Kept, InHand
  <1> QED
    BY <1>1, <1>2, <1>3

\* The paho thread, the broker and time.
LEMMA OutsideKeeps ==
    ASSUME ClientInv, Link \/ Environment \/ BackoffEnds \/ MinutePasses
    PROVE  ClientInv' /\ Kept \subseteq Kept'
  <1> USE DEF ClientInv, ClientTypeOK, Flushing, Removing, HasClient, BufferBounded, Kept, InHand,
              Sessions
  <1>1. CASE OnConnect
    BY <1>1 DEF OnConnect
  <1>2. CASE Rejoin
    BY <1>2 DEF Rejoin
  <1>3. CASE Noticed
    BY <1>3 DEF Noticed
  <1>4. CASE RemoteFails
    BY <1>4 DEF RemoteFails
  <1>5. CASE RemoteReturns
    BY <1>5 DEF RemoteReturns, Links
  <1>6. CASE MessageExpires
    BY <1>6 DEF MessageExpires, Links
  <1>7. CASE BackoffEnds
    BY <1>7 DEF BackoffEnds
  <1>8. CASE MinutePasses
    BY <1>8 DEF MinutePasses, Links
  <1> QED
    BY <1>1, <1>2, <1>3, <1>4, <1>5, <1>6, <1>7, <1>8 DEF Link, Environment
------------------------------------------------------------------------------
(* The collector. *)

\* The loop sends before it collects again; the copies live until the deques
\* are cleared; and a window that is owed logs is backed by one of the bursts,
\* the last but one by a burst of two windows.
SendsApart == stage \in {"decide", "logs", "clear"} => job = "rest"
CopiedAtClear == stage # "clear" => copied = {}
Backed ==
    /\ owed = 2 => burst >= 2 \/ (settingNow /\ settingNext = 1)
    /\ owed >= 1 => burst >= 1 \/ settingNow

CollectorTypeOK ==
    /\ stage \in {"start", "sleep", "decide", "logs", "clear"}
    /\ window \subseteq occurred /\ copied \subseteq occurred /\ marking \subseteq Commands
    /\ burst \in 0..MaxBurst /\ settingNow \in BOOLEAN /\ settingNext \in {0, 1}
    /\ force \in BOOLEAN /\ logError \in BOOLEAN /\ active \in BOOLEAN /\ include \in BOOLEAN
    /\ occurred \subseteq Records /\ owed \in 0..2

\* NothingLost, with what the client answers for as one set.
Accounted == occurred \subseteq window \cup copied \cup Kept

TelemetryInv ==
    ClientInv /\ CollectorTypeOK /\ SendsApart /\ CopiedAtClear /\ Backed /\ Accounted

\* The invariant holds when the process starts for the first time.
LEMMA TelemetryStart == Init => TelemetryInv
  <1> SUFFICES ASSUME Init PROVE TelemetryInv
    OBVIOUS
  <1>1. buffer = <<>> /\ Len(buffer) = 0 /\ buffer \in Seq(SUBSET Records)
    BY DEF Init, ClientInit
  <1>2. ClientTypeOK
    <2>1. flag \in BOOLEAN /\ early \in BOOLEAN /\ flushDue \in BOOLEAN /\ event \in BOOLEAN
      BY DEF Init, ClientInit
    <2>2. expired \in 0 .. Len(buffer) /\ left \in 0 .. Len(buffer)
      BY <1>1 DEF Init, ClientInit
    <2> QED
      BY <1>1, <2>1, <2>2 DEF Init, ClientInit, ClientTypeOK, Sessions, Jobs
  <1>3. Flushing /\ Removing /\ HasClient
    BY DEF Init, ClientInit, Flushing, Removing, HasClient
  <1>4. BufferBounded
    BY <1>1, ClientAssumption DEF Init, ClientInit, BufferBounded
  <1>5. CollectorTypeOK
    <2>1. settingNow \in BOOLEAN /\ force \in BOOLEAN /\ active \in BOOLEAN /\ include \in BOOLEAN
      BY DEF Init
    <2>2. burst \in 0 .. MaxBurst /\ owed \in 0 .. 2
      BY CollectorAssumption DEF Init
    <2> QED
      BY <2>1, <2>2 DEF Init, CollectorTypeOK
  <1>6. SendsApart /\ CopiedAtClear /\ Backed /\ Accounted
    BY DEF Init, SendsApart, CopiedAtClear, Backed, Accounted
  <1> QED
    BY <1>2, <1>3, <1>4, <1>5, <1>6 DEF TelemetryInv, ClientInv

\* Recording in either thread leaves the client alone.
LEMMA RecordingKeeps ==
    ASSUME TelemetryInv,
           (\E r \in Records : Record(r) \/ Mark(r)) \/ Warn \/ Malformed \/ UNCHANGED vars
    PROVE  TelemetryInv'
  <1>1. UNCHANGED clientVars
    BY DEF Record, Mark, Warn, Malformed, vars
  <1>2. ClientInv' /\ Kept' = Kept /\ job' = job
    BY <1>1 DEF clientVars, TelemetryInv, ClientInv, ClientTypeOK, Flushing, Removing, HasClient,
       BufferBounded, Kept, InHand
  <1> USE DEF TelemetryInv, CollectorTypeOK, SendsApart, CopiedAtClear, Backed, Accounted,
              burstVars, windowVars
  <1>3. ASSUME NEW r \in Records, Record(r) PROVE TelemetryInv'
    <2> HIDE DEF Backed
    <2>1. Backed'
      BY <1>3 DEF Record, Backed
    <2> QED
      BY <1>2, <1>3, <2>1 DEF Record
  <1>4. ASSUME NEW r \in Records, Mark(r) PROVE TelemetryInv'
    BY <1>2, <1>4 DEF Mark
  <1>5. CASE Warn
    BY <1>2, <1>5, CollectorAssumption DEF Warn
  <1>6. CASE Malformed
    BY <1>2, <1>6 DEF Malformed
  <1>7. CASE UNCHANGED vars
    BY <1>2, <1>7 DEF vars
  <1> QED
    BY <1>3, <1>4, <1>5, <1>6, <1>7

\* The loop up to the copy of the deques leaves the client alone, too.
LEMMA CollectKeeps ==
    ASSUME TelemetryInv,
           ReadBursts \/ Advance \/ (\E boxConnected \in BOOLEAN : Decide(boxConnected))
    PROVE  TelemetryInv'
  <1>1. UNCHANGED clientVars
    BY DEF ReadBursts, Advance, Decide
  <1>2. ClientInv' /\ Kept' = Kept /\ job' = job
    BY <1>1 DEF clientVars, TelemetryInv, ClientInv, ClientTypeOK, Flushing, Removing, HasClient,
       BufferBounded, Kept, InHand
  <1> USE DEF TelemetryInv, CollectorTypeOK, SendsApart, CopiedAtClear, Accounted,
              burstVars, windowVars
  <1>3. CASE ReadBursts
    <2>1. active' \in BOOLEAN /\ Backed'
      BY <1>3 DEF ReadBursts, Backed
    <2> QED
      BY <1>2, <1>3, <2>1 DEF ReadBursts
  <1>4. ASSUME NEW boxConnected \in BOOLEAN, Decide(boxConnected) PROVE TelemetryInv'
    <2>1. include' \in BOOLEAN /\ force' \in BOOLEAN /\ Backed'
      BY <1>4 DEF Decide, Backed
    <2> QED
      BY <1>2, <1>4, <2>1 DEF Decide
  <1>5. CASE Advance
    <2>1. CASE active
      <3>1. /\ burst' = IF burst > 0 THEN burst - 1 ELSE 0
            /\ settingNow' = (settingNext > 0) /\ settingNext' = 0
            /\ owed' = IF owed > 0 THEN owed - 1 ELSE 0
        BY <1>5, <2>1 DEF Advance
      <3>2. settingNow' \in BOOLEAN /\ burst' \in 0 .. MaxBurst /\ owed' \in 0 .. 2
        BY <3>1, CollectorAssumption
      <3>3. Backed'
        BY <3>1 DEF Backed
      <3> QED
        BY <1>2, <1>5, <3>1, <3>2, <3>3 DEF Advance
    <2>2. CASE ~active
      <3>1. UNCHANGED <<burst, settingNow, settingNext, owed>>
        BY <1>5, <2>2 DEF Advance
      <3> QED
        BY <1>2, <1>5, <3>1 DEF Advance, Backed
    <2> QED
      BY <2>1, <2>2
  <1> QED
    BY <1>3, <1>4, <1>5

\* A window, or the announcement of the start, is handed to the client.
LEMMA HandOverKeeps ==
    ASSUME TelemetryInv, Provision \/ Clear
    PROVE  TelemetryInv'
  <1> USE DEF TelemetryInv, CollectorTypeOK, SendsApart, CopiedAtClear, burstVars, windowVars
  <1>1. job = "rest" /\ job' = "ensure" /\ stage' = "sleep" /\ UNCHANGED <<buffer, burstVars>>
    BY DEF Provision, Clear
  <1>2. Backed'
    BY <1>1 DEF Backed
  <1>3. CASE Provision
    <2>1. ClientInv'
      BY <1>1, <1>3 DEF Provision, Links, ClientInv, ClientTypeOK, Flushing, Removing, HasClient,
         BufferBounded, Jobs
    <2>2. Accounted'
      BY <1>1, <1>3 DEF Provision, Links, Accounted, Kept, InHand
    <2> QED
      BY <1>1, <1>2, <1>3, <2>1, <2>2 DEF Provision
  <1>4. CASE Clear
    <2>1. payload' = copied /\ gone' = gone \cup (window \ copied) /\ event' \in BOOLEAN
      BY <1>4 DEF Clear
    <2>2. ClientInv'
      BY <1>1, <1>4, <2>1 DEF Clear, ClientInv, ClientTypeOK, Flushing, Removing, HasClient,
         BufferBounded, Jobs
    <2>3. Accounted'
      BY <1>1, <1>4, <2>1 DEF Clear, Accounted, Kept, InHand
    <2> QED
      BY <1>1, <1>2, <1>4, <2>2, <2>3 DEF Clear
  <1> QED
    BY <1>3, <1>4

\* A step of the client: the loop, if it is collecting, has nothing in hand.
LEMMA ClientStepKeeps ==
    ASSUME TelemetryInv, ClientStep
    PROVE  TelemetryInv'
  <1>1. ClientInv' /\ Kept \subseteq Kept'
    BY EnsuringKeeps, CreateKeeps, PublishKeeps, InsertKeeps, TrimKeeps, FlushKeeps, OutsideKeeps
    DEF TelemetryInv, ClientStep, Sending
  <1>2. job = "rest" => job' = "rest"
    BY DEF ClientStep, Sending, Link, Environment, AlreadyConnected, TooEarly, FoundConnected,
       Reconnect, Created, CreateFails, Attempt, Ensuring, Publish, Insert, Trim, FlushOne, Remove,
       FlushEnds, OnConnect, Rejoin, Noticed, RemoteFails, RemoteReturns, MessageExpires,
       BackoffEnds, MinutePasses
  <1>3. UNCHANGED <<stage, windowVars, burstVars, active, include>>
    BY DEF ClientStep
  <1> QED
    BY <1>1, <1>2, <1>3 DEF TelemetryInv, CollectorTypeOK, SendsApart, CopiedAtClear, Backed,
       Accounted, windowVars, burstVars

\* A crash: the table is cut to its limit, all else starts anew.
LEMMA CrashKeeps ==
    ASSUME TelemetryInv, Crash
    PROVE  TelemetryInv'
  <1> DEFINE k == Surplus(Len(buffer), expired)
  <1>1. k \in 0 .. Len(buffer) /\ Len(buffer) - k <= MaxMessages /\ Len(buffer) \in Nat
    BY SurplusBounds DEF TelemetryInv, ClientInv, ClientTypeOK
  <1>2. buffer' \in Buffers /\ Len(buffer') = Len(buffer) - k
    BY <1>1, InBufferCut DEF Crash, ClientRestarts, TelemetryInv, ClientInv, ClientTypeOK, Buffers
  <1> HIDE DEF k
  <1>3. gone' = occurred \ (delivered \cup InBuffer(buffer')) /\ delivered' = delivered
    BY DEF Crash, ClientRestarts
  <1>4. ClientTypeOK'
    <2>1. /\ session' = "none" /\ job' = "rest" /\ expired' = 0 /\ left' = 0 /\ remote' = remote
          /\ outbox' = {} /\ payload' = {}
      BY DEF Crash, ClientRestarts
    <2>2. flag' \in BOOLEAN /\ early' \in BOOLEAN /\ flushDue' \in BOOLEAN /\ event' \in BOOLEAN
      BY DEF Crash, ClientRestarts
    <2>3. Len(buffer') \in Nat /\ 0 \in 0 .. Len(buffer')
      BY <1>2 DEF Buffers
    <2>4. gone' \subseteq Records /\ delivered' \subseteq Records /\ remote \in {"up", "slow", "down"}
      BY <1>3 DEF TelemetryInv, ClientInv, ClientTypeOK, CollectorTypeOK
    <2> QED
      BY <1>2, <2>1, <2>2, <2>3, <2>4 DEF ClientTypeOK, Sessions, Jobs, Buffers
  <1>6. Flushing' /\ Removing' /\ HasClient'
    BY DEF Crash, ClientRestarts, Flushing, Removing, HasClient
  <1>7. BufferBounded'
    <2>1. job' = "rest"
      BY DEF Crash, ClientRestarts
    <2> QED
      BY <1>1, <1>2, <2>1, ClientAssumption DEF BufferBounded
  <1>5. Accounted'
    BY <1>3 DEF Crash, Accounted, Kept
  <1>8. CollectorTypeOK'
    <2>1. /\ settingNow' \in BOOLEAN /\ force' \in BOOLEAN
          /\ active' \in BOOLEAN /\ include' \in BOOLEAN
      BY DEF Crash
    <2>2. burst' \in 0 .. MaxBurst /\ owed' \in 0 .. 2
      BY CollectorAssumption DEF Crash
    <2> QED
      BY <2>1, <2>2 DEF Crash, TelemetryInv, CollectorTypeOK
  <1>9. SendsApart' /\ CopiedAtClear' /\ Backed'
    BY DEF Crash, SendsApart, CopiedAtClear, Backed
  <1> QED
    BY <1>4, <1>5, <1>6, <1>7, <1>8, <1>9 DEF TelemetryInv, ClientInv

\* Every step keeps the invariant.
LEMMA TelemetryStep == TelemetryInv /\ [Next]_vars => TelemetryInv'
  BY RecordingKeeps, CollectKeeps, HandOverKeeps, ClientStepKeeps, CrashKeeps DEF Next, Loop

\* Types of the collector and the client, for every size of the table.
THEOREM TelemetryTypes == Spec => []TypeOK
  <1>1. TelemetryInv => TypeOK
    BY DEF TelemetryInv, CollectorTypeOK, ClientInv, TypeOK
  <1> QED
    BY TelemetryStart, TelemetryStep, <1>1, PTL DEF Spec

\* No record disappears except where the code accepts it, across refusals,
\* flushes, trimming, dropped clients and crashes.
THEOREM NothingIsLost == Spec => []NothingLost
  <1>1. TelemetryInv => NothingLost
    BY DEF TelemetryInv, Accounted, Kept, InHand, NothingLost, Held
  <1> QED
    BY TelemetryStart, TelemetryStep, <1>1, PTL DEF Spec

\* The table never holds more than its limit, but for the message whose
\* clean-up is due.
THEOREM BufferIsBounded == Spec => []BufferBounded
  <1>1. TelemetryInv => BufferBounded
    BY DEF TelemetryInv, ClientInv
  <1> QED
    BY TelemetryStart, TelemetryStep, <1>1, PTL DEF Spec
------------------------------------------------------------------------------
(* What steps may do. *)

\* What OldestLeaveFirst says of one step.
FrontOnly ==
    Len(buffer') < Len(buffer) =>
        buffer' = SubSeq(buffer, Len(buffer) - Len(buffer') + 1, Len(buffer))

\* Cutting the table at the front does what FrontOnly says.
LEMMA CutIsFrontOnly ==
    ASSUME buffer \in Buffers, NEW k \in 0 .. Len(buffer),
           buffer' = SubSeq(buffer, k + 1, Len(buffer))
    PROVE  FrontOnly
  <1>1. Len(buffer') = Len(buffer) - k
    BY InBufferCut
  <1>2. Len(buffer) \in Nat /\ k \in Nat
    BY DEF Buffers
  <1>3. \A n, m \in Nat : n - (n - m) + 1 = m + 1
    OBVIOUS
  <1>4. Len(buffer) - (Len(buffer) - k) + 1 = k + 1
    BY <1>2, <1>3
  <1> QED
    BY <1>1, <1>4 DEF FrontOnly

\* No step of the process takes a message from anywhere else.
LEMMA FrontOnlyStep == TelemetryInv /\ [Next]_vars => FrontOnly
  <1> SUFFICES ASSUME TelemetryInv, [Next]_vars PROVE FrontOnly
    OBVIOUS
  <1>1. buffer \in Buffers /\ Len(buffer) \in Nat /\ ClientTypeOK
    BY DEF TelemetryInv, ClientInv, ClientTypeOK, Buffers
  <1>2. CASE UNCHANGED buffer
    BY <1>1, <1>2 DEF FrontOnly
  <1>3. CASE Trim
    BY <1>1, <1>3, SurplusBounds, CutIsFrontOnly DEF Trim, Forget
  <1>4. CASE Crash
    BY <1>1, <1>4, SurplusBounds, CutIsFrontOnly DEF Crash, ClientRestarts
  <1>5. CASE Insert
    <2>1. Len(buffer') = Len(buffer) + 1
      BY <1>1, <1>5, InBufferAppend DEF Insert, ClientTypeOK
    <2> QED
      BY <1>1, <2>1 DEF FrontOnly
  <1>6. CASE Remove
    <2>1. Len(buffer) > 0
      BY <1>6 DEF Remove, TelemetryInv, ClientInv, ClientTypeOK, Removing
    <2>2. buffer' = SubSeq(buffer, 1 + 1, Len(buffer)) /\ 1 \in 0 .. Len(buffer)
      BY <1>1, <1>6, <2>1, InBufferTail DEF Remove
    <2> QED
      BY <1>1, <2>2, CutIsFrontOnly
  <1>7. (\E r \in Records : Record(r) \/ Mark(r)) \/ Warn \/ Malformed \/ Loop \/ UNCHANGED vars
            => UNCHANGED buffer
    BY DEF Record, Mark, Warn, Malformed, Loop, Provision, ReadBursts, Decide, Advance, Clear, vars, clientVars
  <1>8. ClientStep => UNCHANGED buffer \/ Trim \/ Insert \/ Remove
    BY DEF ClientStep, Sending, Link, Environment, AlreadyConnected, TooEarly, FoundConnected,
       Reconnect, Created, CreateFails, Publish, FlushOne, FlushEnds, OnConnect, Rejoin, Noticed,
       RemoteFails, RemoteReturns, MessageExpires, BackoffEnds, MinutePasses
  <1> QED
    BY <1>2, <1>3, <1>4, <1>5, <1>6, <1>7, <1>8 DEF Next

\* Messages leave the table from its oldest end only, whichever way they leave.
THEOREM OldestLeave == Spec => OldestLeaveFirst
  <1>1. TelemetryInv /\ [Next]_vars => [FrontOnly]_clientVars
    BY FrontOnlyStep
  <1> QED
    BY TelemetryStart, TelemetryStep, <1>1, PTL DEF Spec, OldestLeaveFirst, FrontOnly

\* Only ReadBursts takes the loop to its decision, and it sees the burst.
LEMMA OwedIsSeen ==
    TelemetryInv /\ [Next]_vars => (stage = "sleep" /\ stage' = "decide" /\ owed > 0 => active')
  <1> SUFFICES ASSUME TelemetryInv, [Next]_vars, stage = "sleep", stage' = "decide", owed > 0
               PROVE  active'
    OBVIOUS
  <1>1. ReadBursts
    BY DEF Next, Loop, Record, Mark, Warn, Malformed, Provision, Decide, Advance, Clear, ClientStep, Crash, vars
  <1>2. owed >= 1
    BY DEF TelemetryInv, CollectorTypeOK
  <1>3. burst > 0 \/ settingNow
    BY <1>2 DEF TelemetryInv, CollectorTypeOK, Backed
  <1> QED
    BY <1>1, <1>3 DEF ReadBursts

\* A burst that was seen puts logs into the window.
LEMMA SeenIsIncluded ==
    TelemetryInv /\ [Next]_vars => (stage = "decide" /\ stage' = "logs" /\ active => include')
  <1> SUFFICES ASSUME [Next]_vars, stage = "decide", stage' = "logs", active PROVE include'
    OBVIOUS
  <1>1. \E boxConnected \in BOOLEAN : Decide(boxConnected)
    BY DEF Next, Loop, Record, Mark, Warn, Malformed, Provision, ReadBursts, Advance, Clear, ClientStep, Crash, vars
  <1> QED
    BY <1>1 DEF Decide

\* After an accepted command, and after a warning until log_error is set, the
\* next two windows carry logs, however the two threads interleave.
THEOREM BurstsAreShown == Spec => BurstShown
  <1>1. TelemetryInv /\ [Next]_vars
            => /\ [(stage = "sleep" /\ stage' = "decide" /\ owed > 0) => active']_vars
               /\ [(stage = "decide" /\ stage' = "logs" /\ active) => include']_vars
    BY OwedIsSeen, SeenIsIncluded
  <1> QED
    BY TelemetryStart, TelemetryStep, <1>1, PTL DEF Spec, BurstShown
=============================================================================
