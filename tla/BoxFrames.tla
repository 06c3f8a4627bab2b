----------------------------- MODULE BoxFrames -----------------------------
(***************************************************************************)
(* What becomes of a frame the proxy has read: proxy/server.py sorts out   *)
(* transport frames, main.py hands the rest on,                            *)
(* sensor/processor.py publishes the table's values and mirrors those of   *)
(* tbl_actual, and mqtt/status.py reports whether the Box sends anything.  *)
(* One Box, whose id is known; the first frame, and frames of another      *)
(* device, are AppLifecycle's.                                             *)
(***************************************************************************)
EXTENDS Naturals, FiniteSets

CONSTANTS
    KeysOf,     \* table -> keys the sensor map and the frames know of it
    Values,
    MaxFrames   \* bound: frames with data

\* "mirror" stands for a table that shares keys with tbl_actual, "prm1" and
\* "prm2" for the parameters of the two battery banks, "prms" for tbl_batt_prms.
Tables == {"actual", "mirror", "prms", "prm1", "prm2"}

ASSUME FrameAssumption ==
    /\ DOMAIN KeysOf = Tables /\ MaxFrames \in Nat
    /\ \A t \in Tables : IsFiniteSet(KeysOf[t])

VARIABLES
    last,       \* table -> values: _last_table_values
    banks,      \* _battery_bank_count, 1 when it is not known
    shown,      \* external: table -> its retained state, the last one accepted
    heard,      \* history: table -> key -> its last value in a frame of the table
    source,     \* history: key of the mirror table -> the table it has its value from
    refused,    \* history: tables whose last publication the broker did not take
    count,      \* frames with data so far
    age,        \* of the last frame: "never", "recent", "old" (over 90 s)
    status      \* external: the retained proxy status, "none" before the first

tableVars == <<last, banks, shown, heard, source, refused>>
statusVars == <<count, age, status>>
vars == <<tableVars, statusVars>>

\* Values a frame carries, or a table has: some of the keys, each with a value.
Data(t) == UNION {[ks -> Values] : ks \in SUBSET KeysOf[t]}
Nothing == [k \in {} |-> 0]
Only(data, ks) == [k \in DOMAIN data \cap ks |-> data[k]]
Merged(old, new) ==
    [k \in DOMAIN old \cup DOMAIN new |-> IF k \in DOMAIN new THEN new[k] ELSE old[k]]
Mirrored == KeysOf["actual"] \cap KeysOf["mirror"]

Init ==
    /\ last = [t \in Tables |-> Nothing]
    /\ shown = [t \in Tables |-> Nothing]
    /\ heard = [t \in Tables |-> Nothing]
    /\ banks = 1
    /\ source = [k \in KeysOf["mirror"] |-> "none"] /\ refused = {}
    /\ count = 0 /\ age = "never" /\ status = "none"

------------------------------------------------------------------------------
(* FrameProcessor.process. *)

\* What is left of the data: keys of the second bank that read as the first's
\* are dropped.
NewValues(t, data) ==
    IF t # "prm2" THEN data
    ELSE Only(data, {k \in DOMAIN data :
                        ~(k \in DOMAIN last["prm1"] /\ last["prm1"][k] = data[k])})

TableEnabled(t) == t # "prm2" \/ banks >= 2

\* Mutant: the mirror table keeps the values it has, and takes only new keys.
PublicationsKeepMirror(t, new) ==
    LET whole == Merged(last[t], new)
        copy == Only(whole, Mirrored)
    IN [u \in IF t = "actual" /\ DOMAIN copy # {} THEN {t, "mirror"} ELSE {t} |->
           IF u = t THEN whole ELSE Merged(copy, last[u])]

\* The states to be published, merged with all that is known of the table; a
\* frame of tbl_actual also has the mirror table published.
Publications(t, new) ==
    LET whole == Merged(last[t], new)
        copy == Only(whole, Mirrored)
    IN [u \in IF t = "actual" /\ DOMAIN copy # {} THEN {t, "mirror"} ELSE {t} |->
           IF u = t THEN whole ELSE Merged(last[u], copy)]

\* Mutant: values are kept only when the broker took them.
PublishKeepsAccepted(pubs, ok) ==
    /\ last' = [t \in Tables |-> IF t \in ok THEN pubs[t] ELSE last[t]]
    /\ shown' = [t \in Tables |-> IF t \in ok THEN pubs[t] ELSE shown[t]]
    /\ refused' = (refused \cup DOMAIN pubs) \ ok

\* The broker takes the publications of the tables in ok; the processor does
\* not look at that and keeps the values in any case.
Publish(pubs, ok) ==
    /\ last' = [t \in Tables |-> IF t \in DOMAIN pubs THEN pubs[t] ELSE last[t]]
    /\ shown' = [t \in Tables |-> IF t \in ok THEN pubs[t] ELSE shown[t]]
    /\ refused' = (refused \cup DOMAIN pubs) \ ok

\* The keys of the mirror table that a frame of table t writes: all that are
\* known of tbl_actual, not only those in the frame.
MirrorKeys(t, new) ==
    IF t = "actual" THEN Mirrored \cap DOMAIN Merged(last[t], new)
    ELSE IF t = "mirror" THEN DOMAIN new ELSE {}

Process(t, data) ==
    LET new == NewValues(t, data)
        pubs == Publications(t, new)
    IN IF TableEnabled(t) /\ DOMAIN new # {}
       THEN /\ \E ok \in SUBSET DOMAIN pubs : Publish(pubs, ok)
            /\ source' = [k \in KeysOf["mirror"] |->
                             IF k \in MirrorKeys(t, new) THEN t ELSE source[k]]
       ELSE UNCHANGED <<last, shown, refused, source>>

Hears(t, data) == heard' = [heard EXCEPT ![t] = Merged(@, data)]

------------------------------------------------------------------------------
(* Frames, as the proxy and the application take them. *)

\* record_frame: a frame of the known device has come.
Recorded == count < MaxFrames /\ count' = count + 1 /\ age' = "recent"

\* Acknowledgements, settings on their way and polls without values are not
\* handed on.
Kinds == {"table", "poll", "ack", "setting"}
IsTransport(kind, data) ==
    kind \in {"ack", "setting"} \/ (kind = "poll" /\ DOMAIN data = {})

\* A frame of a table; a poll that carries values is one of tbl_actual.
DataFrame(kind, t) ==
    /\ Recorded
    /\ kind = "poll" => t = "actual"
    /\ \E data \in Data(t) :
        /\ ~IsTransport(kind, data)
        /\ Process(t, data) /\ Hears(t, data)
    /\ UNCHANGED <<banks, status>>

\* A frame of tbl_batt_prms that names the number of battery banks, which is one
\* of its values.
BankFrame(n) ==
    /\ Recorded
    /\ banks' = n
    /\ \E data \in Data("prms") :
        /\ DOMAIN data # {}
        /\ Process("prms", data) /\ Hears("prms", data)
    /\ UNCHANGED status

\* The Box has confirmed a setting of the mirror table: its value is published
\* like a frame's, but no frame is recorded.
Confirmed ==
    /\ count < MaxFrames /\ count' = count + 1
    /\ \E data \in Data("mirror") :
        /\ Cardinality(DOMAIN data) = 1
        /\ Process("mirror", data) /\ Hears("mirror", data)
    /\ UNCHANGED <<banks, age, status>>

------------------------------------------------------------------------------
(* mqtt/status.py: the loop publishes every interval. *)

Age ==
    /\ age = "recent" /\ age' = "old"
    /\ UNCHANGED <<tableVars, count, status>>

\* Mutant: a Box that has been heard of once counts as connected.
ReportsForever(accepted) ==
    /\ status' = IF ~accepted THEN status ELSE IF age # "never" THEN "online" ELSE "offline"
    /\ UNCHANGED <<tableVars, count, age>>

\* _publish: whether there was a frame in the last 90 seconds.
Reports(accepted) ==
    /\ status' = IF ~accepted THEN status ELSE IF age = "recent" THEN "online" ELSE "offline"
    /\ UNCHANGED <<tableVars, count, age>>

Next ==
    \/ \E kind \in Kinds, t \in Tables : DataFrame(kind, t)
    \/ \E n \in 1 .. 2 : BankFrame(n)
    \/ Confirmed
    \/ Age
    \/ \E accepted \in BOOLEAN : Reports(accepted)

Spec == Init /\ [][Next]_vars
\* Time passes, and the loop publishes again and again: of infinitely many
\* tries the broker takes one.
FairSpec == Spec /\ WF_vars(Age) /\ SF_vars(Reports(TRUE))

------------------------------------------------------------------------------

TypeOK ==
    /\ last \in [Tables -> UNION {Data(t) : t \in Tables}]
    /\ shown \in [Tables -> UNION {Data(t) : t \in Tables}]
    /\ heard \in [Tables -> UNION {Data(t) : t \in Tables}]
    /\ \A t \in Tables : {last[t], shown[t], heard[t]} \subseteq Data(t)
    /\ banks \in 1 .. 2
    /\ source \in [KeysOf["mirror"] -> {"none", "actual", "mirror"}] /\ refused \subseteq Tables
    /\ count \in 0 .. MaxFrames
    /\ age \in {"never", "recent", "old"} /\ status \in {"none", "online", "offline"}

\* Once the broker takes the state of tbl_actual, tbl_batt_prms or tbl_batt_prm1
\* again it holds every value the Box has reported of it, those refused before
\* included: a frame may carry only some keys and a publication may fail, and
\* neither loses one.
StateComplete ==
    \A t \in {"actual", "prms", "prm1"} : t \notin refused => shown[t] = heard[t]

\* Each value of the mirror table is the one last heard of the table whose frame
\* wrote it last, whichever of the two that is and in whatever order their
\* frames come; a frame of tbl_actual writes every shared key that tbl_actual has
\* ever reported.  The retained state is the known one unless it was refused.
MirrorAgrees ==
    /\ \A k \in KeysOf["mirror"] : source[k] # "none" =>
          k \in DOMAIN last["mirror"] /\ last["mirror"][k] = heard[source[k]][k]
    /\ DOMAIN heard["mirror"] \cup (Mirrored \cap DOMAIN heard["actual"])
          \subseteq {k \in KeysOf["mirror"] : source[k] # "none"}
    /\ "mirror" \notin refused => shown["mirror"] = last["mirror"]

\* When the Box falls silent the status says so in the end.
StatusTurnsOffline == [](age = "old" => <>(status = "offline" \/ age = "recent"))
=============================================================================
