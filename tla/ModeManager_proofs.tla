------------------------- MODULE ModeManager_proofs -------------------------
(* Proofs about ModeManager, for every threshold and retry interval. *)
EXTENDS ModeManager, TLAPS

\* The invariant of the mode manager holds when the proxy starts.
LEMMA ModeStart == ModeInit => ModeInv
  <1> SUFFICES ASSUME ModeInit PROVE ModeInv
    OBVIOUS
  <1>1. ModeTypeOK
    <2>1. failCount \in 0 .. Threshold /\ offlineAge \in 0 .. Retry
      BY ModeAssumption DEF ModeInit
    <2>2. runtimeMode \in {"ONLINE", "OFFLINE"} /\ inOffline \in BOOLEAN
      BY DEF ModeInit, InitialMode
    <2> QED
      BY <2>1, <2>2 DEF ModeInit, ModeTypeOK
  <1>2. RuntimeModeAgrees
    BY DEF ModeInit, RuntimeModeAgrees, IsOffline, InitialMode
  <1>3. OfflineAtThreshold
    BY ModeAssumption DEF ModeInit, OfflineAtThreshold
  <1> QED
    BY <1>1, <1>2, <1>3 DEF ModeInv

\* What a further failure makes of the fail count.
LEMMA CountedTypes ==
    ASSUME ModeTypeOK
    PROVE  Counted \in 1 .. Threshold
  BY ModeAssumption DEF ModeTypeOK, Counted

\* Every operation of the mode manager keeps the invariant.
LEMMA ModeStep == ModeInv /\ [ModeNext]_modeVars => ModeInv'
  <1> SUFFICES ASSUME ModeInv, [ModeNext]_modeVars PROVE ModeInv'
    OBVIOUS
  <1> USE DEF Modes
  <1>1. CASE UNCHANGED modeVars
    BY <1>1 DEF modeVars, ModeInv, ModeTypeOK, RuntimeModeAgrees, OfflineAtThreshold, IsOffline
  <1>2. CASE RecordFailure /\ configured = "hybrid"
    <2>1. Counted \in 1 .. Threshold /\ (inOffline => Counted = Threshold)
      BY <1>2, CountedTypes DEF ModeInv, OfflineAtThreshold, Counted
    <2>2. /\ UNCHANGED configured /\ failCount' = Counted
          /\ inOffline' = (inOffline \/ Counted = Threshold)
          /\ offlineAge' = IF inOffline' THEN 0 ELSE offlineAge
          /\ runtimeMode' = IF ~inOffline /\ inOffline' THEN "OFFLINE" ELSE runtimeMode
      BY <1>2 DEF RecordFailure
    <2>3. inOffline' <=> Counted = Threshold
      BY <2>1, <2>2
    <2>4. inOffline' \in BOOLEAN
      BY <2>2
    <2>5. ModeTypeOK'
      BY <2>1, <2>2, <2>4, ModeAssumption DEF ModeInv, ModeTypeOK
    <2>6. RuntimeModeAgrees'
      BY <1>2, <2>2 DEF ModeInv, RuntimeModeAgrees, IsOffline
    <2>7. OfflineAtThreshold'
      BY <1>2, <2>2, <2>3 DEF OfflineAtThreshold
    <2> QED
      BY <2>5, <2>6, <2>7 DEF ModeInv
  <1>3. CASE RecordSuccess /\ configured = "hybrid"
    <2>1. ModeTypeOK'
      <3>1. failCount' \in 0 .. Threshold /\ UNCHANGED <<configured, offlineAge>>
        BY <1>3, ModeAssumption DEF RecordSuccess
      <3>2. inOffline' \in BOOLEAN /\ runtimeMode' \in {"ONLINE", "OFFLINE"}
        BY <1>3 DEF RecordSuccess, ModeInv, ModeTypeOK
      <3> QED
        BY <3>1, <3>2 DEF ModeInv, ModeTypeOK
    <2>2. RuntimeModeAgrees'
      BY <1>3 DEF RecordSuccess, ModeInv, ModeTypeOK, RuntimeModeAgrees, IsOffline
    <2>3. OfflineAtThreshold'
      BY <1>3, ModeAssumption DEF RecordSuccess, OfflineAtThreshold
    <2> QED
      BY <2>1, <2>2, <2>3 DEF ModeInv
  <1>4. ASSUME NEW mode \in Modes, ApplyConfiguredMode(mode)
        PROVE  ModeInv'
    <2>1. ModeTypeOK'
      BY <1>4, ModeAssumption DEF ApplyConfiguredMode, InitialMode, ModeInv, ModeTypeOK
    <2>2. RuntimeModeAgrees'
      BY <1>4 DEF ApplyConfiguredMode, InitialMode, RuntimeModeAgrees, IsOffline
    <2>3. OfflineAtThreshold'
      BY <1>4, ModeAssumption DEF ApplyConfiguredMode, OfflineAtThreshold
    <2> QED
      BY <2>1, <2>2, <2>3 DEF ModeInv
  <1>5. CASE ModeTick
    <2>1. ModeTypeOK'
      BY <1>5, ModeAssumption DEF ModeTick, ModeInv, ModeTypeOK
    <2> QED
      BY <1>5, <2>1
      DEF ModeTick, ModeInv, RuntimeModeAgrees, OfflineAtThreshold, IsOffline
  <1>6. CASE (RecordFailure \/ RecordSuccess) /\ configured # "hybrid"
    BY <1>1, <1>6 DEF RecordFailure, RecordSuccess
  <1> QED
    BY <1>1, <1>2, <1>3, <1>4, <1>5, <1>6 DEF ModeNext

\* Types, the runtime mode and the threshold, in every reachable state.
THEOREM ModeInvariance == ModeSpec => []ModeInv
  BY ModeStart, ModeStep, PTL DEF ModeSpec

\* runtime_mode is OFFLINE exactly when is_offline() answers True.
THEOREM RuntimeModeMatches == ModeSpec => []RuntimeModeAgrees
  <1>1. ModeInv => RuntimeModeAgrees
    BY DEF ModeInv
  <1> QED
    BY <1>1, ModeInvariance, PTL

------------------------------------------------------------------------------
(* The refinement.  An operation of the mode manager is the step of the     *)
(* gate of the same kind, or leaves the gate as it is.                      *)

\* The mode manager starts as the gate does.
LEMMA GateStart == ModeInit => Gate!GateInit
  BY DEF ModeInit, Gate!GateInit, Gate!Policies, Gate!GateFor, GateState, ShouldTryCloud, Modes

\* Every operation of the mode manager is a step of the gate, or none.
LEMMA GateStep ==
    ModeInv /\ [ModeNext]_modeVars => [Gate!GateNext]_(Gate!gateVars)
  <1> SUFFICES ASSUME ModeInv, [ModeNext]_modeVars
               PROVE  Gate!GateNext \/ UNCHANGED Gate!gateVars
    OBVIOUS
  <1> USE ModeAssumption DEF ModeInv, ModeTypeOK, OfflineAtThreshold
  <1>1. CASE UNCHANGED modeVars
    BY <1>1 DEF modeVars, Gate!gateVars, GateState, ShouldTryCloud
  <1>2. CASE RecordFailure
    <2>1. CASE configured # "hybrid"
      BY <1>1, <1>2, <2>1 DEF RecordFailure
    <2>2. CASE configured = "hybrid"
      <3>1. failCount' = Counted /\ Counted \in 1 .. Threshold
        BY <1>2, <2>2, CountedTypes DEF RecordFailure
      <3>2. inOffline' <=> Counted = Threshold
        BY <1>2, <2>2, <3>1 DEF RecordFailure, Counted
      <3>3. GateState' = IF inOffline' THEN "shut" ELSE "open"
        BY <1>2, <2>2 DEF RecordFailure, GateState, ShouldTryCloud
      <3>4. GateState = "open" <=> ~inOffline
        BY <2>2 DEF GateState, ShouldTryCloud
      <3> QED
        BY <1>2, <2>2, <3>1, <3>2, <3>3, <3>4
        DEF RecordFailure, Counted, Gate!GateNext, Gate!Fail
    <2> QED
      BY <2>1, <2>2
  <1>3. CASE RecordSuccess
    BY <1>1, <1>3 DEF RecordSuccess, Gate!GateNext, Gate!Succeed, GateState, ShouldTryCloud
  <1>4. ASSUME NEW mode \in Modes, ApplyConfiguredMode(mode)
        PROVE  Gate!GateNext
    <2>1. mode \in Gate!Policies
      BY DEF Modes, Gate!Policies
    <2>2. Gate!SetPolicy(mode)
      BY <1>4 DEF ApplyConfiguredMode, Modes, Gate!SetPolicy, Gate!GateFor, GateState, ShouldTryCloud
    <2> QED
      BY <2>1, <2>2 DEF Gate!GateNext
  <1>5. CASE ModeTick
    BY <1>5 DEF ModeTick, Gate!GateNext, Gate!Relent, Gate!gateVars, GateState, ShouldTryCloud
  <1> QED
    BY <1>1, <1>2, <1>3, <1>4, <1>5 DEF ModeNext

\* The mode manager implements the gate, whatever the threshold and interval.
THEOREM ModeImplementsGate == ModeSpec => ImplementsGate
  BY GateStart, GateStep, ModeInvariance, PTL DEF ModeSpec, ImplementsGate, Gate!GateSpec
=============================================================================
