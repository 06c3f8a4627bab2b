---------------------------- MODULE SettingQueue ----------------------------
(***************************************************************************)
(* What the proxy promises about the settings it has accepted over MQTT:   *)
(* one setting per name, a newer one replaces the older, the oldest is     *)
(* sent first, and what has left the queue never comes back                *)
(* (twin/state.py); at most one is out at a time (twin/delivery.py:43;     *)
(* docs/v2/twin.md would send all that are queued on one IsNewSet).  When  *)
(* the server stops, what is out counts as held only, and may be sent      *)
(* again.  A setting is a number that grows from one submission to the     *)
(* next.                                                                   *)
(***************************************************************************)
EXTENDS Naturals

CONSTANT Names

VARIABLES
    held,    \* name -> the setting held under it, or 0
    out,     \* the setting that was sent and is still held, or 0
    past,    \* settings that have been replaced, answered or given up
    open     \* the server has not stopped

queueVars == <<held, out, past, open>>

QueueInit ==
    /\ held = [n \in Names |-> 0]
    /\ out = 0
    /\ past = {}
    /\ open = TRUE

\* Whatever is held under n leaves, and its place is taken by a, or by nothing.
Replace(n, a) ==
    /\ held' = [held EXCEPT ![n] = a]
    /\ past' = past \cup ({held[n]} \ {0})
    /\ out' = IF out = held[n] THEN 0 ELSE out
    /\ UNCHANGED open

\* A new setting comes after every other one.
Submit(n) ==
    /\ \A m \in Names : held[m] < held'[n]
    /\ \A b \in past : b < held'[n]
    /\ Replace(n, held'[n])

Send(n) ==
    /\ out = 0
    /\ held[n] # 0
    /\ \A m \in Names : held[m] # 0 => held[n] <= held[m]
    /\ out' = held[n]
    /\ UNCHANGED <<held, past, open>>

\* An answer, or the end of the wait for one.
Leave(n) == held[n] # 0 /\ Replace(n, 0)

\* Nothing is out any more, but nothing leaves.
Stop ==
    /\ open /\ open' = FALSE
    /\ out' = 0
    /\ UNCHANGED <<held, past>>

QueueNext == Stop \/ \E n \in Names : Submit(n) \/ Send(n) \/ Leave(n)

QueueSpec == QueueInit /\ [][QueueNext]_queueVars
=============================================================================
