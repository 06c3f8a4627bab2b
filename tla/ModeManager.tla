---------------------------- MODULE ModeManager ----------------------------
(***************************************************************************)
(* proxy/mode.py: the configured mode, the runtime mode it leads to, and   *)
(* the HYBRID sub-state.  Each operation runs on the asyncio loop without  *)
(* an await after its first assignment, so each is one step.               *)
(*                                                                         *)
(* last_offline_time is kept as its age, which stops growing at the retry  *)
(* interval: the code only asks whether that much time has passed.  The    *)
(* clock is not set back.  fail_count stops at the threshold for the same  *)
(* reason.                                                                 *)
(***************************************************************************)
EXTENDS Naturals

CONSTANTS
    Threshold,   \* hybrid_fail_threshold
    Retry        \* hybrid_retry_interval, in ticks

ASSUME ModeAssumption ==
    /\ Threshold \in Nat \ {0}
    /\ Retry \in Nat \ {0}

VARIABLES
    configured,    \* configured_mode
    runtimeMode,   \* runtime_mode
    failCount,     \* fail_count
    inOffline,     \* in_offline
    offlineAge     \* time since last_offline_time

modeVars == <<configured, runtimeMode, failCount, inOffline, offlineAge>>

Modes == {"online", "hybrid", "offline"}

InitialMode(mode) == IF mode = "offline" THEN "OFFLINE" ELSE "ONLINE"

\* last_offline_time starts at the epoch, long ago.
ModeInit ==
    /\ configured \in Modes
    /\ runtimeMode = InitialMode(configured)
    /\ failCount = 0
    /\ inOffline = FALSE
    /\ offlineAge = Retry

------------------------------------------------------------------------------
IsOffline == configured = "offline" \/ inOffline

\* Mutants: a probe is never allowed; the retry interval is not waited for.
ShouldTryCloudOnline ==
    configured = "online" \/ (configured = "hybrid" /\ ~inOffline)

ShouldTryCloudAlways == configured # "offline"

ShouldTryCloud ==
    \/ configured = "online"
    \/ configured = "hybrid" /\ (~inOffline \/ offlineAge = Retry)

Counted == IF failCount = Threshold THEN Threshold ELSE failCount + 1

\* Mutant: only the failure that goes offline starts the window.
RecordFailureOnce ==
    IF configured # "hybrid" THEN UNCHANGED modeVars
    ELSE /\ failCount' = Counted
         /\ inOffline' = (inOffline \/ Counted = Threshold)
         /\ offlineAge' = IF ~inOffline /\ inOffline' THEN 0 ELSE offlineAge
         /\ runtimeMode' = IF ~inOffline /\ inOffline' THEN "OFFLINE" ELSE runtimeMode
         /\ UNCHANGED configured

\* A failure while offline restarts the window, whoever reports it.
RecordFailure ==
    IF configured # "hybrid" THEN UNCHANGED modeVars
    ELSE /\ failCount' = Counted
         /\ inOffline' = (inOffline \/ Counted = Threshold)
         /\ offlineAge' = IF inOffline' THEN 0 ELSE offlineAge
         /\ runtimeMode' = IF ~inOffline /\ inOffline' THEN "OFFLINE" ELSE runtimeMode
         /\ UNCHANGED configured

\* Mutants: a success leaves runtime_mode; it does not reset the count.
RecordSuccessModeKept ==
    IF configured # "hybrid" THEN UNCHANGED modeVars
    ELSE /\ failCount' = 0
         /\ inOffline' = FALSE
         /\ UNCHANGED <<configured, runtimeMode, offlineAge>>

RecordSuccessUncounted ==
    IF configured # "hybrid" THEN UNCHANGED modeVars
    ELSE /\ inOffline' = FALSE
         /\ runtimeMode' = "ONLINE"
         /\ UNCHANGED <<configured, failCount, offlineAge>>

RecordSuccess ==
    IF configured # "hybrid" THEN UNCHANGED modeVars
    ELSE /\ failCount' = 0
         /\ inOffline' = FALSE
         /\ runtimeMode' = IF inOffline THEN "ONLINE" ELSE runtimeMode
         /\ UNCHANGED <<configured, offlineAge>>

\* apply_configured_mode, reached from the MQTT control topic.
ApplyConfiguredMode(mode) ==
    /\ configured' = mode
    /\ inOffline' = (mode = "offline")
    /\ failCount' = IF mode = "offline" THEN failCount ELSE 0
    /\ runtimeMode' = InitialMode(mode)
    /\ UNCHANGED offlineAge

ModeTick ==
    /\ offlineAge < Retry
    /\ offlineAge' = offlineAge + 1
    /\ UNCHANGED <<configured, runtimeMode, failCount, inOffline>>

ModeNext ==
    \/ RecordFailure
    \/ RecordSuccess
    \/ \E mode \in Modes : ApplyConfiguredMode(mode)
    \/ ModeTick

ModeSpec == ModeInit /\ [][ModeNext]_modeVars

------------------------------------------------------------------------------
(* Properties.                                                              *)

\* The type of every field of ModeManager.
ModeTypeOK ==
    /\ configured \in Modes
    /\ runtimeMode \in {"ONLINE", "OFFLINE"}
    /\ failCount \in 0 .. Threshold
    /\ inOffline \in BOOLEAN
    /\ offlineAge \in 0 .. Retry

\* The two answers ModeManager has to "are we offline" agree: runtime_mode, which
\* is assigned on its own in five places and reported in telemetry, and
\* is_offline, computed from other fields, which the server acts on.
RuntimeModeAgrees == (runtimeMode = "OFFLINE") <=> IsOffline

\* The flag follows the count: under hybrid in_offline is set exactly while
\* fail_count has reached the threshold, since what clears one, a success or
\* hybrid applied anew, clears the other; it is never left set under online.
OfflineAtThreshold ==
    /\ configured = "hybrid" => (inOffline <=> failCount = Threshold)
    /\ configured = "online" => ~inOffline

ModeInv == ModeTypeOK /\ RuntimeModeAgrees /\ OfflineAtThreshold

\* The gate a new connection meets.
GateState ==
    IF configured = "offline" THEN "locked"
    ELSE IF ~ShouldTryCloud THEN "shut"
    ELSE IF inOffline THEN "ajar" ELSE "open"

Gate == INSTANCE CloudGate WITH
            policy <- configured, gate <- GateState, strikes <- failCount

\* The mode manager keeps the promise of CloudGate: no order of failures,
\* successes, mode changes and waiting opens or shuts the cloud otherwise.
ImplementsGate == Gate!GateSpec
=============================================================================
