----------------------------- MODULE CloudGate -----------------------------
(***************************************************************************)
(* What the proxy promises about trying the cloud (docs/v2/proxy_modes.md, *)
(* proxy/mode.py): a gate between the Box and the cloud.  Under the policy *)
(* online it is always open and under offline always locked.  Under hybrid *)
(* Threshold failures with no success between them shut it; it comes ajar, *)
(* for a probe, when no failure has been seen for the retry interval.      *)
(***************************************************************************)
EXTENDS Naturals

CONSTANT Threshold      \* hybrid_fail_threshold

VARIABLES
    policy,   \* the configured mode
    gate,     \* whether a new connection of the Box may try the cloud
    strikes   \* failures since the last success or change of policy

gateVars == <<policy, gate, strikes>>

Policies == {"online", "hybrid", "offline"}
Passable == {"open", "ajar"}

GateFor(p) == IF p = "offline" THEN "locked" ELSE "open"

GateInit ==
    /\ policy \in Policies
    /\ gate = GateFor(policy)
    /\ strikes = 0

\* A failure counts under hybrid only.  The last strike shuts an open gate,
\* and a failure shuts a gate that was ajar.
Fail ==
    /\ policy = "hybrid"
    /\ strikes' = IF strikes = Threshold THEN strikes ELSE strikes + 1
    /\ gate' = IF gate = "open" /\ strikes' < Threshold THEN "open" ELSE "shut"
    /\ UNCHANGED policy

Succeed ==
    /\ policy = "hybrid"
    /\ gate' = "open"
    /\ strikes' = 0
    /\ UNCHANGED policy

Relent ==
    /\ gate = "shut"
    /\ gate' = "ajar"
    /\ UNCHANGED <<policy, strikes>>

\* Every change of policy starts afresh, also one to the same policy.
\* Strikes of the hybrid policy are forgotten on the way out of offline.
SetPolicy(p) ==
    /\ policy' = p
    /\ gate' = GateFor(p)
    /\ strikes' = IF p = "offline" THEN strikes ELSE 0

GateNext == Fail \/ Succeed \/ Relent \/ \E p \in Policies : SetPolicy(p)

GateSpec == GateInit /\ [][GateNext]_gateVars
=============================================================================
