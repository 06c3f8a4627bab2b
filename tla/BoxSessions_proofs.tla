------------------------- MODULE BoxSessions_proofs -------------------------
(* Proofs about BoxSessions, for any number of handlers and any limit. *)
EXTENDS BoxSessions, ModeManager_proofs, FiniteSetTheorems

------------------------------------------------------------------------------
(* Every step of a handler is a step of the mode manager or leaves it alone. *)

\* Every step of a handler moves the mode manager as one of its own operations
\* does, or not at all.
LEMMA ModeMoves == [Next]_vars => [ModeNext]_modeVars
  <1> SUFFICES ASSUME [Next]_vars PROVE ModeNext \/ UNCHANGED modeVars
    OBVIOUS
  <1>1. ASSUME NEW c \in Conns, HandlerStep(c)
        PROVE  ModeNext \/ UNCHANGED modeVars
    <2>1. RecordSuccess \/ RecordFailure \/ UNCHANGED modeVars
      BY <1>1
      DEF HandlerStep, Reject, Rejected, Admit, CloudConnects, CloudFails, Closed,
          ClosingRaises, OfflineEnds, PipeEnds, CloudWriteFails, Ended
    <2> QED
      BY <2>1 DEF ModeNext
  <1>2. CASE Apply \/ Tick \/ CloudChanges \/ UNCHANGED vars
    BY <1>2 DEF Apply, Tick, CloudChanges, vars, ModeNext
  <1> QED
    BY <1>1, <1>2 DEF Next

\* The mode manager, driven by any number of handlers, keeps its specification.
THEOREM SessionsDriveModes == Spec => ModeSpec
  <1>1. Init => ModeInit
    BY DEF Init
  <1> QED
    BY <1>1, ModeMoves, PTL DEF Spec, ModeSpec

\* With any number of dials in flight, whose results come in any order, the
\* mode manager opens and shuts the cloud as the gate does.
THEOREM SessionsKeepGate == Spec => ImplementsGate
  BY SessionsDriveModes, ModeImplementsGate

\* runtime_mode is what is_offline() answers, whatever the sessions do.
THEOREM SessionsKeepModesInStep == Spec => []RuntimeModeAgrees
  BY SessionsDriveModes, RuntimeModeMatches

------------------------------------------------------------------------------
(* The handlers that count.                                                 *)

SessionInv ==
    /\ TypeOK
    /\ LimitHolds
    /\ CloudFlagHasHandler
    /\ IdleIsDisconnected

\* What one handler does to the set of handlers that count.
LEMMA ServingMoves ==
    ASSUME phase \in [Conns -> Phases], NEW c \in Conns, NEW p \in Phases, Goto(c, p)
    PROVE  /\ phase' \in [Conns -> Phases]
           /\ phase'[c] = p
           /\ \A d \in Conns : d # c => phase'[d] = phase[d]
           /\ Serving' = IF p \in Counting THEN Serving \cup {c} ELSE Serving \ {c}
           /\ IsFiniteSet(Serving) /\ Cardinality(Serving) \in Nat
           /\ Cardinality(Serving') =
                 IF p \in Counting
                 THEN IF c \in Serving THEN Cardinality(Serving) ELSE Cardinality(Serving) + 1
                 ELSE IF c \in Serving THEN Cardinality(Serving) - 1 ELSE Cardinality(Serving)
  <1>1. /\ phase' \in [Conns -> Phases]
        /\ phase'[c] = p
        /\ \A d \in Conns : d # c => phase'[d] = phase[d]
    BY DEF Goto
  <1>2. Serving' = IF p \in Counting THEN Serving \cup {c} ELSE Serving \ {c}
    BY <1>1 DEF Serving
  <1>3. IsFiniteSet(Serving) /\ Cardinality(Serving) \in Nat
    BY SessionsAssumption, FS_Subset, FS_CardinalityType DEF Serving
  <1> QED
    BY <1>1, <1>2, <1>3, FS_AddElement, FS_RemoveElement

\* The invariant of the sessions holds when the proxy starts.
LEMMA SessionStart == Init => SessionInv
  <1> SUFFICES ASSUME Init PROVE SessionInv
    OBVIOUS
  <1>1. ModeTypeOK
    BY ModeStart DEF Init, ModeInv
  <1>2. Serving = {}
    BY DEF Init, Serving, Counting
  <1>3. TypeOK
    <2>1. phase \in [Conns -> Phases] /\ count \in 0 .. MaxConnections
      BY SessionsAssumption DEF Init, Phases
    <2>2. boxConnected \in BOOLEAN /\ cloudConnected \in BOOLEAN /\ cloudUp \in BOOLEAN
      BY DEF Init
    <2> QED
      BY <1>1, <2>1, <2>2 DEF TypeOK
  <1>4. LimitHolds
    BY <1>2, FS_EmptySet, SessionsAssumption DEF Init, LimitHolds
  <1> QED
    BY <1>3, <1>4 DEF Init, SessionInv, CloudFlagHasHandler, IdleIsDisconnected

\* A handler that counts makes the count positive.
LEMMA ServingCounts ==
    ASSUME SessionInv, NEW c \in Conns, phase[c] \in Counting
    PROVE  count > 0
  <1>1. c \in Serving /\ IsFiniteSet(Serving) /\ Cardinality(Serving) \in Nat
    BY SessionsAssumption, FS_Subset, FS_CardinalityType DEF Serving
  <1>2. Cardinality(Serving) # 0
    BY <1>1, FS_EmptySet
  <1> QED
    BY <1>1, <1>2 DEF SessionInv, LimitHolds, TypeOK

\* Every step of a handler, the mode and the environment keeps the invariant.
LEMMA SessionStep ==
    ASSUME ModeInv', SessionInv, [Next]_vars
    PROVE  SessionInv'
  <1> USE SessionsAssumption
  <1>1. /\ ModeTypeOK' /\ phase \in [Conns -> Phases]
        /\ count \in 0 .. MaxConnections
        /\ boxConnected \in BOOLEAN /\ cloudConnected \in BOOLEAN /\ cloudUp \in BOOLEAN
        /\ Cardinality(Serving) <= count
    BY DEF ModeInv, SessionInv, TypeOK, LimitHolds
  <1>2. CASE UNCHANGED <<phase, flagVars>> /\ cloudUp' \in BOOLEAN
    BY <1>1, <1>2
    DEF SessionInv, TypeOK, LimitHolds, Serving, CloudFlagHasHandler,
        IdleIsDisconnected, flagVars
  <1>3. ASSUME NEW c \in Conns, NEW p \in Phases, Goto(c, p),
               (phase[c] \in Counting) <=> (p \in Counting),
               phase[c] \notin {"online", "ending"} \/ p \in {"online", "ending"},
               UNCHANGED <<flagVars, cloudUp>>
        PROVE  SessionInv'
    <2>1. /\ phase' \in [Conns -> Phases] /\ phase'[c] = p
          /\ \A d \in Conns : d # c => phase'[d] = phase[d]
          /\ Cardinality(Serving') = Cardinality(Serving)
      BY <1>1, <1>3, ServingMoves DEF Serving
    <2>2. TypeOK' /\ LimitHolds'
      BY <1>1, <1>3, <2>1 DEF TypeOK, LimitHolds, flagVars
    <2>3. CloudFlagHasHandler'
      BY <1>3, <2>1 DEF SessionInv, CloudFlagHasHandler, flagVars
    <2>4. IdleIsDisconnected'
      BY <1>3 DEF SessionInv, IdleIsDisconnected, flagVars
    <2> QED
      BY <2>2, <2>3, <2>4 DEF SessionInv
  <1>4. ASSUME NEW c \in Conns, Reject(c) \/ Rejected(c) \/ CloudFails(c)
                                   \/ PipeEnds(c) \/ CloudWriteFails(c)
        PROVE  SessionInv'
    BY <1>3, <1>4
    DEF Reject, Rejected, CloudFails, PipeEnds, CloudWriteFails, Phases, Counting
  <1>5. ASSUME NEW c \in Conns, Admit(c)
        PROVE  SessionInv'
    <2>1. PICK p \in {"dialing", "offline"} : Goto(c, p)
      BY <1>5 DEF Admit
    <2>2. /\ p \in Phases /\ p \in Counting /\ c \notin Serving
      BY <1>5 DEF Admit, Phases, Counting, Serving
    <2>3. /\ phase' \in [Conns -> Phases]
          /\ \A d \in Conns : d # c => phase'[d] = phase[d]
          /\ Cardinality(Serving') = Cardinality(Serving) + 1
          /\ Cardinality(Serving) \in Nat
      BY <1>1, <2>1, <2>2, ServingMoves
    <2>4. TypeOK' /\ LimitHolds'
      BY <1>1, <1>5, <2>3 DEF Admit, TypeOK, LimitHolds
    <2>5. CloudFlagHasHandler'
      BY <1>5, <2>3 DEF Admit, SessionInv, CloudFlagHasHandler
    <2>6. IdleIsDisconnected'
      BY <1>1, <1>5 DEF Admit, IdleIsDisconnected
    <2> QED
      BY <2>4, <2>5, <2>6 DEF SessionInv
  <1>6. ASSUME NEW c \in Conns, CloudConnects(c)
        PROVE  SessionInv'
    <2>1. /\ phase' \in [Conns -> Phases] /\ phase'[c] = "online"
          /\ Cardinality(Serving') = Cardinality(Serving)
      BY <1>1, <1>6, ServingMoves DEF CloudConnects, Phases, Counting, Serving
    <2>2. TypeOK' /\ LimitHolds' /\ CloudFlagHasHandler'
      BY <1>1, <1>6, <2>1 DEF CloudConnects, TypeOK, LimitHolds, CloudFlagHasHandler
    <2>3. count > 0
      BY <1>6, ServingCounts DEF CloudConnects, Counting
    <2>4. IdleIsDisconnected'
      BY <1>1, <1>6, <2>3 DEF CloudConnects, IdleIsDisconnected
    <2> QED
      BY <2>2, <2>4 DEF SessionInv
  <1>7. ASSUME NEW c \in Conns, phase[c] \in Counting, Leave(c), UNCHANGED cloudUp,
               \/ cloudConnected' = FALSE
               \/ UNCHANGED cloudConnected /\ phase[c] \notin {"online", "ending"}
        PROVE  SessionInv'
    <2>1. /\ phase' \in [Conns -> Phases]
          /\ \A d \in Conns : d # c => phase'[d] = phase[d]
          /\ Cardinality(Serving') = Cardinality(Serving) - 1
          /\ Cardinality(Serving) \in Nat
      BY <1>1, <1>7, ServingMoves DEF Leave, Phases, Counting, Serving
    <2>2. count > 0
      BY <1>7, ServingCounts
    <2>3. TypeOK' /\ LimitHolds'
      <3>1. count' \in 0 .. MaxConnections /\ Cardinality(Serving') <= count'
        BY <1>1, <1>7, <2>1, <2>2 DEF Leave
      <3>2. boxConnected' \in BOOLEAN /\ cloudConnected' \in BOOLEAN /\ cloudUp' \in BOOLEAN
        BY <1>1, <1>7 DEF Leave
      <3> QED
        BY <1>1, <2>1, <3>1, <3>2 DEF TypeOK, LimitHolds
    <2>4. CloudFlagHasHandler'
      BY <1>7, <2>1 DEF SessionInv, CloudFlagHasHandler
    <2>5. count' = 0 => ~cloudConnected'
      <3>1. SUFFICES ASSUME cloudConnected' PROVE count' # 0
        OBVIOUS
      <3>2. PICK d \in Conns : phase'[d] \in {"online", "ending"}
        BY <2>4, <3>1 DEF CloudFlagHasHandler
      <3>3. d \in Serving' /\ IsFiniteSet(Serving')
        BY <3>2, FS_Subset DEF Serving, Counting
      <3>4. Cardinality(Serving') \in Nat /\ Cardinality(Serving') # 0
        BY <3>3, FS_CardinalityType, FS_EmptySet
      <3> QED
        BY <2>3, <3>4 DEF LimitHolds, TypeOK
    <2>6. IdleIsDisconnected'
      BY <1>7, <2>5 DEF Leave, IdleIsDisconnected
    <2> QED
      BY <2>3, <2>4, <2>6 DEF SessionInv
  <1>8. ASSUME NEW c \in Conns, Closed(c) \/ OfflineEnds(c) \/ Ended(c)
        PROVE  SessionInv'
    BY <1>7, <1>8 DEF Closed, OfflineEnds, Ended, Counting
  <1>9. ASSUME NEW c \in Conns, ClosingRaises(c)
        PROVE  SessionInv'
    <2>1. /\ phase' \in [Conns -> Phases]
          /\ \A d \in Conns : d # c => phase'[d] = phase[d]
          /\ Cardinality(Serving') = Cardinality(Serving) - 1
          /\ Cardinality(Serving) \in Nat
      BY <1>1, <1>9, ServingMoves DEF ClosingRaises, Phases, Counting, Serving
    <2>2. TypeOK' /\ LimitHolds'
      BY <1>1, <1>9, <2>1 DEF ClosingRaises, TypeOK, LimitHolds, flagVars
    <2>3. CloudFlagHasHandler' /\ IdleIsDisconnected'
      BY <1>9, <2>1
      DEF ClosingRaises, SessionInv, CloudFlagHasHandler, IdleIsDisconnected, flagVars
    <2> QED
      BY <2>2, <2>3 DEF SessionInv
  <1>10. CASE Apply \/ Tick \/ CloudChanges \/ UNCHANGED vars
    BY <1>1, <1>2, <1>10 DEF Apply, Tick, CloudChanges, vars
  <1> QED
    BY <1>4, <1>5, <1>6, <1>8, <1>9, <1>10 DEF Next, HandlerStep

\* The invariant that carries the session properties.
LEMMA SessionInvariance == Spec => []SessionInv
  <1>1. SessionInv /\ ModeInv' /\ [Next]_vars => SessionInv'
    BY SessionStep
  <1>2. Spec => []ModeInv
    BY SessionsDriveModes, ModeInvariance
  <1> QED
    BY <1>1, <1>2, SessionStart, PTL DEF Spec

\* Type correctness of the server and of the mode manager.
THEOREM SessionTypes == Spec => []TypeOK
  <1>1. SessionInv => TypeOK
    BY DEF SessionInv
  <1> QED
    BY <1>1, SessionInvariance, PTL

\* No more handlers serve the Box than counted, nor more than the limit.
THEOREM LimitAlwaysHolds == Spec => []LimitHolds
  <1>1. SessionInv => LimitHolds
    BY DEF SessionInv
  <1> QED
    BY <1>1, SessionInvariance, PTL

\* A proxy that counts no connection shows none.
THEOREM IdleAlwaysDisconnected == Spec => []IdleIsDisconnected
  <1>1. SessionInv => IdleIsDisconnected
    BY DEF SessionInv
  <1> QED
    BY <1>1, SessionInvariance, PTL

\* The cloud is said to be connected only while a handler still pipes or closes.
THEOREM CloudFlagIsTrue == Spec => []CloudFlagHasHandler
  <1>1. SessionInv => CloudFlagHasHandler
    BY DEF SessionInv
  <1> QED
    BY <1>1, SessionInvariance, PTL

\* Under hybrid the proxy is offline exactly from the threshold on, whatever
\* the order in which the results of any number of dials come.
THEOREM OfflineFromThreshold == Spec => []OfflineAtThreshold
  <1>1. ModeInv => OfflineAtThreshold
    BY DEF ModeInv
  <1> QED
    BY <1>1, SessionsDriveModes, ModeInvariance, PTL

\* A dial that fails and leaves its Box to local answers shuts the cloud.
LEMMA FailedDial ==
    ASSUME ModeInv', SessionInv, [Next]_vars, NEW c \in Conns,
           phase[c] = "dialing", phase'[c] = "offline"
    PROVE  ~ShouldTryCloud'
  <1>1. phase \in [Conns -> Phases]
    BY DEF SessionInv, TypeOK
  <1>2. CloudFails(c)
    <2>1. phase' # phase
      OBVIOUS
    <2>2. PICK d \in Conns : HandlerStep(d)
      BY <2>1 DEF Next, Apply, Tick, CloudChanges, vars
    <2>3. d = c
      <3>1. \E p \in Phases : Goto(d, p)
        BY <2>2
        DEF HandlerStep, Reject, Rejected, Admit, CloudConnects, CloudFails, Closed, Leave,
            ClosingRaises, OfflineEnds, PipeEnds, CloudWriteFails, Ended, Phases
      <3> QED
        BY <1>1, <3>1 DEF Goto
    <2>4. ~Reject(c) /\ ~Rejected(c) /\ ~Admit(c) /\ ~Closed(c) /\ ~ClosingRaises(c)
          /\ ~OfflineEnds(c) /\ ~PipeEnds(c) /\ ~CloudWriteFails(c) /\ ~Ended(c)
      BY DEF Reject, Rejected, Admit, Closed, ClosingRaises, OfflineEnds, PipeEnds,
             CloudWriteFails, Ended
    <2>5. ~CloudConnects(c)
      BY <1>1 DEF CloudConnects, Goto
    <2> QED
      BY <2>2, <2>3, <2>4, <2>5 DEF HandlerStep
  <1>3. RecordFailure /\ IsOffline'
    BY <1>1, <1>2 DEF CloudFails, Goto
  <1>4. CASE configured # "hybrid"
    BY <1>3, <1>4, ModeAssumption
    DEF RecordFailure, modeVars, ModeInv, OfflineAtThreshold, ModeTypeOK, Modes, IsOffline,
        ShouldTryCloud
  <1>5. CASE configured = "hybrid"
    <2>1. configured' = "hybrid" /\ inOffline'
      BY <1>3, <1>5 DEF RecordFailure, IsOffline
    <2>2. offlineAge' = 0 /\ offlineAge' # Retry
      BY <1>3, <1>5, <2>1, ModeAssumption DEF RecordFailure
    <2> QED
      BY <2>1, <2>2 DEF ShouldTryCloud
  <1> QED
    BY <1>4, <1>5

\* So it is for any number of handlers and whatever the others do meanwhile:
\* the next connections are answered locally until the retry interval is over.
THEOREM FailedDialsShut == Spec => FailedDialShuts
  <1> DEFINE Shuts == \A c \in Conns :
                          phase[c] = "dialing" /\ phase'[c] = "offline" => ~ShouldTryCloud'
  <1>1. ModeInv' /\ SessionInv /\ [Next]_vars => [Shuts]_vars
    BY FailedDial
  <1>2. Spec => []ModeInv
    BY SessionsDriveModes, ModeInvariance
  <1> QED
    BY <1>1, <1>2, SessionInvariance, PTL DEF Spec, FailedDialShuts
=============================================================================
