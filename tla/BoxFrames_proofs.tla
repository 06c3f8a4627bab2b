-------------------------- MODULE BoxFrames_proofs --------------------------
(* Proofs about BoxFrames, for any keys and values and any number of frames. *)
EXTENDS BoxFrames, TLAPS

IsValues(f) == f = [k \in DOMAIN f |-> f[k]]

\* What the table processor keeps: it knows of the tables nobody else writes
\* exactly what the Box has said, and a publication the broker took shows all
\* that is known.
KnownInv ==
    /\ DOMAIN last = Tables /\ DOMAIN heard = Tables /\ DOMAIN shown = Tables
    /\ \A t \in Tables : IsValues(last[t]) /\ IsValues(heard[t])
    /\ \A t \in {"actual", "prms", "prm1"} : last[t] = heard[t]
    /\ \A t \in Tables : t \notin refused => shown[t] = last[t]

\* What it keeps of the table that has copies of values of tbl_actual: every
\* value has come from one of the two tables, and is the last one heard of it.
MirrorInv ==
    /\ DOMAIN source = KeysOf["mirror"]
    /\ DOMAIN heard["mirror"] \subseteq KeysOf["mirror"]
    /\ \A k \in KeysOf["mirror"] :
          /\ source[k] \in {"none", "actual", "mirror"}
          /\ source[k] = "none" => k \notin DOMAIN heard["mirror"] \cup (Mirrored \cap DOMAIN heard["actual"])
          /\ source[k] = "actual" => /\ k \in Mirrored \cap DOMAIN heard["actual"]
                                     /\ k \in DOMAIN last["mirror"]
                                     /\ last["mirror"][k] = heard["actual"][k]
          /\ source[k] = "mirror" => /\ k \in DOMAIN heard["mirror"]
                                     /\ k \in DOMAIN last["mirror"]
                                     /\ last["mirror"][k] = heard["mirror"][k]

FrameInv == KnownInv /\ MirrorInv

------------------------------------------------------------------------------
\* What merging gives.
LEMMA MergedValues ==
    ASSUME NEW f, NEW g
    PROVE  /\ DOMAIN Merged(f, g) = DOMAIN f \cup DOMAIN g
           /\ \A k \in DOMAIN g : Merged(f, g)[k] = g[k]
           /\ \A k \in DOMAIN f \ DOMAIN g : Merged(f, g)[k] = f[k]
           /\ IsValues(Merged(f, g))
           /\ IsValues(f) /\ DOMAIN g = {} => Merged(f, g) = f
  BY DEF Merged, IsValues

\* What a selection of keys gives.
LEMMA OnlyValues ==
    ASSUME NEW f, NEW ks
    PROVE  /\ DOMAIN Only(f, ks) = DOMAIN f \cap ks
           /\ \A k \in DOMAIN f \cap ks : Only(f, ks)[k] = f[k]
  BY DEF Only

\* Before the first frame nothing is known.
LEMMA FrameStart == Init => FrameInv
  BY DEF Init, FrameInv, KnownInv, MirrorInv, IsValues, Nothing, Tables

\* The values of a table are published, or have been in vain.
LEMMA PublishKeeps ==
    ASSUME KnownInv, NEW pubs, NEW ok \in SUBSET DOMAIN pubs, Publish(pubs, ok),
           DOMAIN pubs \subseteq Tables
    PROVE  /\ DOMAIN last' = Tables /\ DOMAIN shown' = Tables
           /\ \A t \in Tables : last'[t] = IF t \in DOMAIN pubs THEN pubs[t] ELSE last[t]
           /\ \A t \in Tables : t \notin refused' => shown'[t] = last'[t]
  BY DEF Publish, KnownInv

\* A frame of a table is heard and its values become known.
LEMMA FrameKeeps ==
    ASSUME FrameInv, NEW t \in Tables, NEW data \in Data(t), Process(t, data), Hears(t, data)
    PROVE  FrameInv'
  <1> DEFINE new == NewValues(t, data)
             pubs == Publications(t, new)
             whole == Merged(last[t], new)
             copy == Only(whole, Mirrored)
  <1>0. IsValues(data) /\ DOMAIN data \subseteq KeysOf[t]
    BY DEF Data, IsValues
  <1>1. t # "prm2" => new = data /\ TableEnabled(t)
    BY DEF NewValues, TableEnabled
  <1>2. /\ DOMAIN heard' = Tables
        /\ heard'[t] = Merged(heard[t], data)
        /\ \A u \in Tables \ {t} : heard'[u] = heard[u]
    BY DEF Hears, FrameInv, KnownInv
  <1>3. \A u \in Tables : IsValues(heard'[u])
    <2>1. IsValues(Merged(heard[t], data))
      BY MergedValues
    <2> QED
      BY <1>2, <2>1 DEF FrameInv, KnownInv
  <1>4. CASE UNCHANGED <<last, shown, refused, source>> /\ (t = "prm2" \/ DOMAIN data = {})
    <2>1. \A u \in Tables \ {"prm2"} : heard'[u] = heard[u]
      <3>1. t # "prm2" => Merged(heard[t], data) = heard[t]
        <4>1. IsValues(heard[t]) /\ DOMAIN data = {} => Merged(heard[t], data) = heard[t]
          BY MergedValues
        <4> QED
          BY <1>4, <4>1 DEF FrameInv, KnownInv
      <3> QED
        BY <1>2, <3>1
    <2> QED
      BY <1>2, <1>3, <1>4, <2>1 DEF FrameInv, KnownInv, MirrorInv, Tables
  <1>5. CASE /\ \E ok \in SUBSET DOMAIN pubs : Publish(pubs, ok)
             /\ source' = [k \in KeysOf["mirror"] |->
                              IF k \in MirrorKeys(t, new) THEN t ELSE source[k]]
    <2>1. /\ DOMAIN pubs = IF t = "actual" /\ DOMAIN copy # {} THEN {t, "mirror"} ELSE {t}
          /\ pubs[t] = whole
          /\ t = "actual" /\ DOMAIN copy # {} => pubs["mirror"] = Merged(last["mirror"], copy)
      BY DEF Publications
    <2>2. /\ DOMAIN last' = Tables /\ DOMAIN shown' = Tables
          /\ \A u \in Tables : last'[u] = IF u \in DOMAIN pubs THEN pubs[u] ELSE last[u]
          /\ \A u \in Tables : u \notin refused' => shown'[u] = last'[u]
      <3>1. DOMAIN pubs \subseteq Tables
        BY <2>1 DEF Tables
      <3> HIDE DEF pubs
      <3> QED
        BY <1>5, <3>1, PublishKeeps DEF FrameInv
    <2> HIDE DEF pubs
    <2>3. \A u \in Tables : IsValues(last'[u])
      <3>1. IsValues(whole) /\ IsValues(Merged(last["mirror"], copy))
        BY MergedValues
      <3> QED
        BY <2>1, <2>2, <3>1 DEF FrameInv, KnownInv
    <2>4. \A u \in {"actual", "prms", "prm1"} : last'[u] = heard'[u]
      <3>1. t \in {"actual", "prms", "prm1"} => whole = heard'[t]
        BY <1>1, <1>2 DEF FrameInv, KnownInv
      <3> HIDE DEF whole, copy, new
      <3> QED
        BY <1>2, <2>1, <2>2, <3>1 DEF FrameInv, KnownInv, Tables
    <2>5. MirrorInv'
      <3>1. CASE t = "actual"
        <4>1. whole = heard'["actual"] /\ heard'["mirror"] = heard["mirror"]
          BY <1>1, <1>2, <3>1 DEF FrameInv, KnownInv, Tables
        <4>2. /\ DOMAIN copy = DOMAIN heard'["actual"] \cap Mirrored
              /\ \A k \in DOMAIN copy : copy[k] = heard'["actual"][k]
          <5>1. /\ DOMAIN copy = DOMAIN whole \cap Mirrored
                /\ \A k \in DOMAIN whole \cap Mirrored : copy[k] = whole[k]
            BY OnlyValues
          <5> HIDE DEF whole, copy, new
          <5> QED
            BY <4>1, <5>1
        <4>3. DOMAIN heard["actual"] \subseteq DOMAIN heard'["actual"]
          <5>1. DOMAIN Merged(heard[t], data) = DOMAIN heard[t] \cup DOMAIN data
            BY MergedValues
          <5> QED
            BY <1>2, <3>1, <5>1
        <4>6. /\ DOMAIN source' = KeysOf["mirror"]
              /\ \A k \in KeysOf["mirror"] :
                    source'[k] = IF k \in DOMAIN copy THEN "actual" ELSE source[k]
          <5>1. MirrorKeys(t, new) = DOMAIN copy
            <6>1. DOMAIN copy = DOMAIN whole \cap Mirrored
              BY OnlyValues
            <6> QED
              BY <3>1, <6>1 DEF MirrorKeys
          <5> QED
            BY <1>5, <3>1, <5>1
        <4> HIDE DEF whole, copy, new
        <4>4. CASE DOMAIN copy = {}
          <5>1. last'["mirror"] = last["mirror"]
            BY <2>1, <2>2, <3>1, <4>4 DEF Tables
          <5> QED
            BY <4>1, <4>2, <4>3, <4>4, <4>6, <5>1, <1>2 DEF FrameInv, MirrorInv
        <4>5. CASE DOMAIN copy # {}
          <5>1. last'["mirror"] = Merged(last["mirror"], copy)
            BY <2>1, <2>2, <3>1, <4>5 DEF Tables
          <5>2. /\ DOMAIN last'["mirror"] = DOMAIN last["mirror"] \cup DOMAIN copy
                /\ \A k \in DOMAIN copy : last'["mirror"][k] = copy[k]
                /\ \A k \in DOMAIN last["mirror"] \ DOMAIN copy : last'["mirror"][k] = last["mirror"][k]
            <6> DEFINE m == Merged(last["mirror"], copy)
            <6>1. /\ DOMAIN m = DOMAIN last["mirror"] \cup DOMAIN copy
                  /\ \A k \in DOMAIN copy : m[k] = copy[k]
                  /\ \A k \in DOMAIN last["mirror"] \ DOMAIN copy : m[k] = last["mirror"][k]
              BY DEF Merged
            <6>2. last'["mirror"] = m
              BY <5>1
            <6> HIDE DEF m
            <6> QED
              BY <6>1, <6>2
          <5> QED
            BY <4>1, <4>2, <4>3, <4>6, <5>2 DEF FrameInv, MirrorInv
        <4> QED
          BY <4>4, <4>5
      <3>2. CASE t = "mirror"
        <4>1. /\ last'["mirror"] = Merged(last["mirror"], data)
              /\ DOMAIN source' = KeysOf["mirror"]
              /\ \A k \in KeysOf["mirror"] :
                    source'[k] = IF k \in DOMAIN data THEN "mirror" ELSE source[k]
          BY <1>1, <1>5, <2>1, <2>2, <3>2 DEF MirrorKeys
        <4>2. heard'["mirror"] = Merged(heard["mirror"], data) /\ heard'["actual"] = heard["actual"]
          BY <1>2, <3>2 DEF Tables
        <4>3. /\ DOMAIN last'["mirror"] = DOMAIN last["mirror"] \cup DOMAIN data
              /\ DOMAIN heard'["mirror"] = DOMAIN heard["mirror"] \cup DOMAIN data
              /\ \A k \in DOMAIN data : last'["mirror"][k] = data[k] /\ heard'["mirror"][k] = data[k]
              /\ \A k \in DOMAIN last["mirror"] \ DOMAIN data : last'["mirror"][k] = last["mirror"][k]
              /\ \A k \in DOMAIN heard["mirror"] \ DOMAIN data : heard'["mirror"][k] = heard["mirror"][k]
          <5> DEFINE m == Merged(last["mirror"], data)
                     h == Merged(heard["mirror"], data)
          <5>1. /\ DOMAIN m = DOMAIN last["mirror"] \cup DOMAIN data
                /\ \A k \in DOMAIN data : m[k] = data[k]
                /\ \A k \in DOMAIN last["mirror"] \ DOMAIN data : m[k] = last["mirror"][k]
            BY DEF Merged
          <5>2. /\ DOMAIN h = DOMAIN heard["mirror"] \cup DOMAIN data
                /\ \A k \in DOMAIN data : h[k] = data[k]
                /\ \A k \in DOMAIN heard["mirror"] \ DOMAIN data : h[k] = heard["mirror"][k]
            BY DEF Merged
          <5>3. last'["mirror"] = m /\ heard'["mirror"] = h
            BY <4>1, <4>2
          <5> HIDE DEF m, h
          <5> QED
            BY <5>1, <5>2, <5>3
        <4> QED
          BY <1>0, <3>2, <4>1, <4>2, <4>3 DEF FrameInv, MirrorInv
      <3>3. CASE t \notin {"actual", "mirror"}
        <4> HIDE DEF whole, copy
        <4>1. /\ last'["mirror"] = last["mirror"]
              /\ DOMAIN source' = KeysOf["mirror"]
              /\ \A k \in KeysOf["mirror"] : source'[k] = source[k]
              /\ heard'["mirror"] = heard["mirror"] /\ heard'["actual"] = heard["actual"]
          BY <1>2, <1>5, <2>1, <2>2, <3>3 DEF Tables, MirrorKeys
        <4> QED
          BY <4>1 DEF FrameInv, MirrorInv
      <3> QED
        BY <3>1, <3>2, <3>3
    <2> QED
      BY <1>2, <1>3, <2>2, <2>3, <2>4, <2>5 DEF FrameInv, KnownInv
  <1> QED
    BY <1>1, <1>4, <1>5 DEF Process

\* Every frame, confirmed setting, and publication of the status keeps it.
LEMMA FrameStep == FrameInv /\ [Next]_vars => FrameInv'
  <1> SUFFICES ASSUME FrameInv, [Next]_vars PROVE FrameInv'
    OBVIOUS
  <1>1. ASSUME NEW kind \in Kinds, NEW t \in Tables, DataFrame(kind, t) PROVE FrameInv'
    BY <1>1, FrameKeeps DEF DataFrame
  <1>2. ASSUME NEW n \in 1 .. 2, BankFrame(n) PROVE FrameInv'
    BY <1>2, FrameKeeps DEF BankFrame, Tables
  <1>3. CASE Confirmed
    BY <1>3, FrameKeeps DEF Confirmed, Tables
  <1>4. CASE UNCHANGED <<last, shown, heard, source, refused>>
    BY <1>4 DEF FrameInv, KnownInv, MirrorInv
  <1> QED
    BY <1>1, <1>2, <1>3, <1>4 DEF Next, Age, Reports, tableVars, vars

\* For any tables' keys and any values: a table the broker takes again shows
\* every value the Box has ever reported of it.
THEOREM NoValueIsMissing == Spec => []StateComplete
  <1>1. FrameInv => StateComplete
    BY DEF FrameInv, KnownInv, StateComplete, Tables
  <1> QED
    BY FrameStart, FrameStep, <1>1, PTL DEF Spec

\* Each value of the mirror table is the last one heard of the table that wrote
\* it last, in whatever order frames of the two come.
THEOREM CopiesAgree == Spec => []MirrorAgrees
  <1>1. FrameInv => MirrorAgrees
    BY DEF FrameInv, KnownInv, MirrorInv, MirrorAgrees, Tables, Mirrored
  <1> QED
    BY FrameStart, FrameStep, <1>1, PTL DEF Spec

------------------------------------------------------------------------------
(* Types. *)

\* What it is to be values of a table.
LEMMA DataIs ==
    ASSUME NEW t, NEW f
    PROVE  f \in Data(t) <=> /\ DOMAIN f \subseteq KeysOf[t]
                             /\ f \in [DOMAIN f -> Values]
  BY DEF Data

\* Values merged with values of the same table, or with a selection of them.
LEMMA MergedData ==
    ASSUME NEW t, NEW f \in Data(t), NEW g \in Data(t)
    PROVE  Merged(f, g) \in Data(t)
  <1> DEFINE m == Merged(f, g)
  <1>1. /\ DOMAIN f \subseteq KeysOf[t] /\ f \in [DOMAIN f -> Values]
        /\ DOMAIN g \subseteq KeysOf[t] /\ g \in [DOMAIN g -> Values]
    BY DataIs
  <1>2. DOMAIN m \subseteq KeysOf[t] /\ m \in [DOMAIN m -> Values]
    BY <1>1 DEF Merged
  <1> QED
    BY <1>2, DataIs

\* The keys two tables share take values of the one to the other.
LEMMA OnlyData ==
    ASSUME NEW t, NEW f \in Data(t), NEW u, NEW ks, DOMAIN f \cap ks \subseteq KeysOf[u]
    PROVE  Only(f, ks) \in Data(u)
  <1> DEFINE o == Only(f, ks)
  <1>1. f \in [DOMAIN f -> Values]
    BY DataIs
  <1>2. DOMAIN o \subseteq KeysOf[u] /\ o \in [DOMAIN o -> Values]
    BY <1>1 DEF Only
  <1> QED
    BY <1>2, DataIs

\* What TypeOK says of the tables, table by table.
TableTypes(ls, sh, he) ==
    /\ DOMAIN ls = Tables /\ DOMAIN sh = Tables /\ DOMAIN he = Tables
    /\ \A t \in Tables : ls[t] \in Data(t) /\ sh[t] \in Data(t) /\ he[t] \in Data(t)

\* A frame leaves values of each table in that table.
LEMMA FrameTypes ==
    ASSUME TableTypes(last, shown, heard), refused \subseteq Tables,
           source \in [KeysOf["mirror"] -> {"none", "actual", "mirror"}],
           NEW t \in Tables, NEW data \in Data(t), Process(t, data), Hears(t, data),
           last = [u \in Tables |-> last[u]], shown = [u \in Tables |-> shown[u]]
    PROVE  /\ TableTypes(last', shown', heard')
           /\ last' = [u \in Tables |-> last'[u]] /\ shown' = [u \in Tables |-> shown'[u]]
           /\ refused' \subseteq Tables
           /\ source' \in [KeysOf["mirror"] -> {"none", "actual", "mirror"}]
  <1> DEFINE new == NewValues(t, data)
             pubs == Publications(t, new)
             whole == Merged(last[t], new)
             copy == Only(whole, Mirrored)
  <1>1. DOMAIN heard' = Tables /\ \A u \in Tables : heard'[u] \in Data(u)
    <2>1. Merged(heard[t], data) \in Data(t)
      BY MergedData DEF TableTypes
    <2> QED
      BY <2>1 DEF Hears, TableTypes
  <1>2. new \in Data(t)
    <2>1. \A ks : DOMAIN data \cap ks \subseteq KeysOf[t]
      BY DataIs
    <2>2. \A ks : Only(data, ks) \in Data(t)
      BY <2>1, OnlyData
    <2> QED
      BY <2>2 DEF NewValues
  <1>3. whole \in Data(t)
    <2> HIDE DEF new
    <2> QED
      BY <1>2, MergedData DEF TableTypes
  <1>4. copy \in Data("mirror")
    <2> HIDE DEF whole
    <2>1. DOMAIN whole \cap Mirrored \subseteq KeysOf["mirror"]
      BY DEF Mirrored
    <2> QED
      BY <1>3, <2>1, OnlyData
  <1>5. Merged(last["mirror"], copy) \in Data("mirror")
    <2> HIDE DEF copy
    <2> QED
      BY <1>4, MergedData DEF TableTypes, Tables
  <1>6. /\ DOMAIN pubs = IF t = "actual" /\ DOMAIN copy # {} THEN {t, "mirror"} ELSE {t}
        /\ pubs[t] = whole
        /\ t = "actual" /\ DOMAIN copy # {} => pubs["mirror"] = Merged(last["mirror"], copy)
    BY DEF Publications
  <1> HIDE DEF pubs, whole, copy, new
  <1>7. DOMAIN pubs \subseteq Tables /\ \A u \in DOMAIN pubs : pubs[u] \in Data(u)
    BY <1>3, <1>5, <1>6 DEF Tables
  <1>8. CASE UNCHANGED <<last, shown, refused, source>>
    BY <1>1, <1>8 DEF TableTypes
  <1>9. CASE /\ \E ok \in SUBSET DOMAIN pubs : Publish(pubs, ok)
             /\ source' = [k \in KeysOf["mirror"] |->
                              IF k \in MirrorKeys(t, new) THEN t ELSE source[k]]
    <2>1. PICK ok \in SUBSET DOMAIN pubs : Publish(pubs, ok)
      BY <1>9
    <2>2. /\ last' = [u \in Tables |-> IF u \in DOMAIN pubs THEN pubs[u] ELSE last[u]]
          /\ shown' = [u \in Tables |-> IF u \in ok THEN pubs[u] ELSE shown[u]]
          /\ refused' = (refused \cup DOMAIN pubs) \ ok
      BY <2>1 DEF Publish
    <2>3. source' \in [KeysOf["mirror"] -> {"none", "actual", "mirror"}]
      BY <1>9 DEF MirrorKeys
    <2>4. /\ DOMAIN last' = Tables /\ DOMAIN shown' = Tables
          /\ \A u \in Tables : last'[u] \in Data(u) /\ shown'[u] \in Data(u)
      BY <1>7, <2>2 DEF TableTypes
    <2> QED
      BY <1>1, <1>7, <1>9, <2>2, <2>3, <2>4 DEF TableTypes
  <1> QED
    BY <1>8, <1>9 DEF Process, new, pubs

\* TypeOK, with what it says of the tables in that form.
LEMMA TypeOKIs ==
    TypeOK <=> /\ TableTypes(last, shown, heard)
               /\ last = [u \in Tables |-> last[u]] /\ shown = [u \in Tables |-> shown[u]]
               /\ heard = [u \in Tables |-> heard[u]]
               /\ banks \in 1 .. 2
               /\ source \in [KeysOf["mirror"] -> {"none", "actual", "mirror"}] /\ refused \subseteq Tables
               /\ count \in 0 .. MaxFrames
               /\ age \in {"never", "recent", "old"} /\ status \in {"none", "online", "offline"}
  <1>1. \A f : (/\ f \in [Tables -> UNION {Data(t) : t \in Tables}]
                /\ \A t \in Tables : f[t] \in Data(t))
               <=> /\ DOMAIN f = Tables /\ f = [u \in Tables |-> f[u]]
                   /\ \A t \in Tables : f[t] \in Data(t)
    OBVIOUS
  <1> QED
    BY <1>1 DEF TypeOK, TableTypes

\* Every table holds values of its own keys, whatever keys the Box sends and
\* whichever publications the broker takes.
THEOREM TablesKeepTypes == Spec => []TypeOK
  <1>1. Init => TypeOK
    <2> SUFFICES ASSUME Init PROVE TypeOK
      OBVIOUS
    <2>1. \A t : Nothing \in Data(t)
      <3>1. DOMAIN Nothing = {} /\ Nothing \in [{} -> Values]
        BY DEF Nothing
      <3> QED
        BY <3>1, DataIs
    <2> QED
      BY <2>1, FrameAssumption DEF Init, TypeOK
  <1>2. TypeOK /\ [Next]_vars => TypeOK'
    <2>0. (TypeOK <=>
               /\ TableTypes(last, shown, heard)
               /\ last = [u \in Tables |-> last[u]] /\ shown = [u \in Tables |-> shown[u]]
               /\ heard = [u \in Tables |-> heard[u]]
               /\ banks \in 1 .. 2
               /\ source \in [KeysOf["mirror"] -> {"none", "actual", "mirror"}] /\ refused \subseteq Tables
               /\ count \in 0 .. MaxFrames
               /\ age \in {"never", "recent", "old"} /\ status \in {"none", "online", "offline"})'
      BY TypeOKIs, PTL
    <2> SUFFICES ASSUME TypeOK, [Next]_vars PROVE TypeOK'
      OBVIOUS
    <2>1. ASSUME NEW t \in Tables, NEW data \in Data(t), Process(t, data), Hears(t, data),
                 status' = status, banks' = banks \/ banks' \in 1 .. 2,
                 count < MaxFrames, count' = count + 1,
                 age' \in {age, "recent"}
          PROVE  TypeOK'
      <3>1. /\ TableTypes(last', shown', heard') /\ refused' \subseteq Tables
            /\ last' = [u \in Tables |-> last'[u]] /\ shown' = [u \in Tables |-> shown'[u]]
            /\ source' \in [KeysOf["mirror"] -> {"none", "actual", "mirror"}]
        BY <2>1, TypeOKIs, FrameTypes
      <3>2. heard' = [u \in Tables |-> heard'[u]]
        BY <2>1, TypeOKIs DEF Hears
      <3>3. /\ count' \in 0 .. MaxFrames /\ age' \in {"never", "recent", "old"}
            /\ banks' \in 1 .. 2 /\ status' \in {"none", "online", "offline"}
        <4>1. /\ count \in 0 .. MaxFrames /\ MaxFrames \in Nat /\ age \in {"never", "recent", "old"}
              /\ banks \in 1 .. 2 /\ status \in {"none", "online", "offline"}
          BY FrameAssumption DEF TypeOK
        <4> QED
          BY <2>1, <4>1
      <3> QED
        BY <2>0, <3>1, <3>2, <3>3
    <2>2. ASSUME NEW kind \in Kinds, NEW t \in Tables, DataFrame(kind, t) PROVE TypeOK'
      BY <2>1, <2>2 DEF DataFrame, Recorded
    <2>3. CASE Confirmed
      BY <2>1, <2>3 DEF Confirmed, Tables
    <2>4. ASSUME NEW n \in 1 .. 2, BankFrame(n) PROVE TypeOK'
      BY <2>1, <2>4 DEF BankFrame, Recorded, Tables
    <2>5. CASE Age \/ (\E accepted \in BOOLEAN : Reports(accepted)) \/ UNCHANGED vars
      BY <2>5 DEF Age, Reports, tableVars, statusVars, vars, TypeOK
    <2> QED
      BY <2>2, <2>3, <2>4, <2>5 DEF Next
  <1> QED
    BY <1>1, <1>2, PTL DEF Spec
=============================================================================
