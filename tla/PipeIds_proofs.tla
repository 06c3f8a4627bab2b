--------------------------- MODULE PipeIds_proofs ---------------------------
(* Proofs about the pipe from the Box, for any number of frames and every  *)
(* way to cut the stream, and about the ids of injected frames, for every  *)
(* bound on the ids.                                                       *)
EXTENDS PipeIds, WellFoundedInduction, SequenceTheorems, TLAPS

\* Nothing is in use before the first frame.
LEMMA IdsStart == IdInit => IdTypeOK
  BY IdAssumption DEF IdInit, IdTypeOK, Ids

\* A frame that is observed moves the counters at least to its own ids.
LEMMA ObservedIds ==
    ASSUME IdTypeOK, NEW s \in Ids, NEW m \in Ids, Observe(s, m)
    PROVE  IdTypeOK' /\ UNCHANGED issued
  BY IdAssumption DEF IdTypeOK, Ids, Observe, Uses, Greater

\* The next id set is beyond the clock, the counter and every id in use.
LEMMA NextIdSetIsFresh ==
    ASSUME IdTypeOK, NEW s \in Ids, NEW now \in Ids, NextIdSet(s, now)
    PROVE  idSet' \in Ids /\ idSet' > idSet /\ idSet' > used.set
  BY IdAssumption DEF IdTypeOK, Ids, NextIdSet, Greater

\* So is the next message id, the random one a session starts with included.
LEMMA NextMsgIdIsFresh ==
    ASSUME IdTypeOK, NEW m \in Ids, NextMsgId(m)
    PROVE  msgId' \in Ids /\ msgId' > msgId /\ msgId' > used.msg
  <1>1. CASE Greater(msgId, m) = 0
    <2>1. msgId = 0 /\ used.msg = 0 /\ msgId' \in FirstMsg
      BY <1>1 DEF IdTypeOK, Ids, NextMsgId, Greater
    <2> QED
      BY <2>1, IdAssumption DEF Ids
  <1>2. CASE Greater(msgId, m) # 0
    BY <1>2, IdAssumption DEF IdTypeOK, Ids, NextMsgId, Greater
  <1> QED
    BY <1>1, <1>2

\* The ids of a Setting that answers a poll.
LEMMA IdsOfSetting ==
    ASSUME IdTypeOK, NEW s \in Ids, NEW m \in Ids, NEW now \in Ids, NextIds(s, m, now)
    PROVE  /\ IdTypeOK'
           /\ \A i \in {"set", "msg"} : issued'[i] > used[i]
  <1>1. /\ idSet' \in Ids /\ idSet' > idSet /\ idSet' > used.set
        /\ msgId' \in Ids /\ msgId' > msgId /\ msgId' > used.msg
    BY NextIdSetIsFresh, NextMsgIdIsFresh DEF NextIds
  <1>2. issued' = [set |-> idSet', msg |-> msgId'] /\ Uses(idSet', msgId')
    BY DEF NextIds
  <1>3. IdTypeOK'
    BY <1>1, <1>2, IdAssumption DEF IdTypeOK, Ids, Uses, Greater
  <1> QED
    BY <1>1, <1>2, <1>3

\* The id set of a Setting that the hook injects.
LEMMA IdsOfHook ==
    ASSUME IdTypeOK, NEW now \in Ids, NextIdsOfHook(now)
    PROVE  /\ IdTypeOK'
           /\ \A i \in {"set", "msg"} : issued'[i] # issued[i] => issued'[i] > used[i]
  <1>1. idSet' \in Ids /\ idSet' > idSet /\ idSet' > used.set
    BY NextIdSetIsFresh, IdAssumption DEF NextIdsOfHook, Ids
  <1>2. issued' = [issued EXCEPT !.set = idSet'] /\ Uses(idSet', 0) /\ msgId' = msgId
    BY DEF NextIdsOfHook
  <1>3. IdTypeOK'
    BY <1>1, <1>2, IdAssumption DEF IdTypeOK, Ids, Uses, Greater
  <1>4. issued'.set = idSet' /\ issued'.msg = issued.msg
    BY <1>2 DEF IdTypeOK
  <1> QED
    BY <1>1, <1>3, <1>4

\* What a step of the two pipes and the hook may do to the ids.
FreshStep == \A i \in {"set", "msg"} : issued'[i] # issued[i] => issued'[i] > used[i]

\* Every step keeps the types and gives fresh ids.
LEMMA IdsStep == IdTypeOK /\ [PipeNext]_<<pipeVars, idVars>> => IdTypeOK' /\ FreshStep
  <1> SUFFICES ASSUME IdTypeOK, [PipeNext]_<<pipeVars, idVars>> PROVE IdTypeOK' /\ FreshStep
    OBVIOUS
  <1>1. CASE UNCHANGED idVars
    BY <1>1 DEF idVars, IdTypeOK, FreshStep
  <1>2. ASSUME NEW e \in FrameEnds, CollectNotes(e) PROVE IdTypeOK' /\ FreshStep
    BY <1>2, ObservedIds DEF CollectNotes, FreshStep
  <1>3. ASSUME NEW e \in FrameEnds, InjectDraws(e) \/ InjectFails(e)
        PROVE  IdTypeOK' /\ FreshStep
    BY <1>3, IdsOfSetting DEF InjectDraws, InjectFails, FreshStep
  <1>4. CASE CloudFrame
    BY <1>4, ObservedIds DEF CloudFrame, FreshStep
  <1>5. CASE HookInjects
    BY <1>5, IdsOfHook DEF HookInjects, FreshStep
  <1>6. UNCHANGED <<pipeVars, idVars>> => UNCHANGED idVars
    OBVIOUS
  <1> QED
    BY <1>1, <1>2, <1>3, <1>4, <1>5, <1>6 DEF PipeNext

\* The counters never fall behind the ids on the wire.
THEOREM IdTypes == PipeSpec => []IdTypeOK
  <1>1. PipeInit => IdTypeOK
    BY IdsStart DEF PipeInit
  <1>2. IdTypeOK /\ [PipeNext]_<<pipeVars, idVars>> => IdTypeOK'
    BY IdsStep
  <1> QED
    BY <1>1, <1>2, PTL DEF PipeSpec

\* Every id a counter gives comes after all that the pipes have noted and all
\* given before, for every order of frames on the two pipes, injections of the
\* hook and readings of the clock.
THEOREM SettingsHaveFreshIds == PipeSpec => IdsFresh
  <1>1. PipeInit => IdTypeOK
    BY IdsStart DEF PipeInit
  <1>2. IdTypeOK /\ [PipeNext]_<<pipeVars, idVars>>
            => IdTypeOK' /\ [FreshStep]_idVars
    BY IdsStep
  <1> QED
    BY <1>1, <1>2, PTL DEF PipeSpec, IdsFresh, FreshStep

------------------------------------------------------------------------------
\* Induction over the naturals, and what it says of FlattenSeq, which is defined
\* by a recursive function.

\* The order of the naturals has no infinite descent, as a set of pairs.
LEMMA LessThanWF == IsWellFoundedOn({ss \in Nat \X Nat : ss[1] < ss[2]}, Nat)
  BY NatLessThanWellFounded, Zenon DEF OpToRel

\* So a set of naturals that is not empty has a least element.
LEMMA LeastNatural == ASSUME NEW T \in SUBSET Nat, T # {} PROVE \E x \in T : \A y \in T : x <= y
  <1> DEFINE R == {ss \in Nat \X Nat : ss[1] < ss[2]}
  <1>1. \E x \in T : \A y \in T : ~ (<<y, x>> \in R)
    <2>1. IsWellFoundedOn(R, Nat) BY LessThanWF
    <2> HIDE DEF R
    <2> QED BY <2>1, WFMin
  <1>2. PICK x \in T : \A y \in T : ~ (<<y, x>> \in R)
    BY <1>1
  <1>3. ASSUME NEW y \in T PROVE x <= y
    <2>1. <<y, x>> \notin R /\ x \in Nat /\ y \in Nat /\ <<y, x>> \in Nat \X Nat
      BY <1>2
    <2>2. ~(y < x)
      <3>1. <<y, x>>[1] = y /\ <<y, x>>[2] = x
        OBVIOUS
      <3> QED BY <2>1, <3>1
    <2> QED BY <2>1, <2>2
  <1> QED
    BY <1>3

\* Induction over the naturals, for a set in place of a predicate: a set that has 0
\* and, with a number, the next one has them all.  The least number outside it
\* would follow one that is in it.
LEMMA NatSetInduction ==
  ASSUME NEW T, 0 \in T, \A n \in Nat : n \in T => n + 1 \in T
  PROVE Nat \subseteq T
  <1> SUFFICES ASSUME Nat \ T # {} PROVE FALSE
    OBVIOUS
  <1>1. PICK x \in Nat \ T : \A y \in Nat \ T : x <= y
    BY LeastNatural
  <1>2. x # 0 /\ x - 1 \in Nat /\ x - 1 \in T
    BY <1>1
  <1> QED BY <1>2, <1>1

\* g is the function FlattenSeq(s) is taken from, for the first n elements of s.
Flattens(g, s, n) == g = [i \in 1 .. n |-> IF i = 1 THEN s[i] ELSE g[i - 1] \o s[i]]

\* A recursive function that FlattenSeq chooses exists for every length.
LEMMA FlatteningExists == ASSUME NEW s PROVE \A n \in Nat : \E g : Flattens(g, s, n)
  <1> DEFINE T == {n \in Nat : \E g : Flattens(g, s, n)}
  <1>1. 0 \in T
    <2>1. Flattens(<<>>, s, 0)
      BY DEF Flattens
    <2> QED BY <2>1
  <1>2. ASSUME NEW n \in Nat, n \in T PROVE n + 1 \in T
    <2>1. PICK g : Flattens(g, s, n)
      BY <1>2
    <2> DEFINE h == [i \in 1 .. n + 1 |-> IF i <= n THEN g[i] ELSE IF i = 1 THEN s[i] ELSE g[i - 1] \o s[i]]
    <2>2. \A i \in 1 .. n + 1 : h[i] = IF i = 1 THEN s[i] ELSE h[i - 1] \o s[i]
      <3>1. \A i \in 1 .. n : g[i] = IF i = 1 THEN s[i] ELSE g[i - 1] \o s[i]
        BY <2>1 DEF Flattens
      <3> SUFFICES ASSUME NEW i \in 1 .. n + 1 PROVE h[i] = IF i = 1 THEN s[i] ELSE h[i - 1] \o s[i]
        OBVIOUS
      <3>2. CASE i <= n
        <4>1. i \in 1 .. n /\ (i # 1 => i - 1 \in 1 .. n /\ i - 1 <= n)
          BY <3>2
        <4> QED BY <4>1, <3>1
      <3>3. CASE i = n + 1
        <4>1. ~(i <= n) /\ (i # 1 => i - 1 \in 1 .. n + 1 /\ i - 1 <= n)
          BY <3>3
        <4> QED BY <4>1
      <3> QED BY <3>2, <3>3
    <2>3. Flattens(h, s, n + 1)
      <3>1. h = [i \in 1 .. n + 1 |-> h[i]]
        OBVIOUS
      <3> HIDE DEF h
      <3>2. [i \in 1 .. n + 1 |-> h[i]] = [i \in 1 .. n + 1 |-> IF i = 1 THEN s[i] ELSE h[i - 1] \o s[i]]
        BY <2>2
      <3> QED BY <3>1, <3>2 DEF Flattens
    <2> QED BY <2>3
  <1> HIDE DEF T
  <1>3. Nat \subseteq T
    BY <1>1, <1>2, NatSetInduction
  <1> QED BY <1>3 DEF T

\* What its equation says at one place.
LEMMA FlattensAt ==
  \A g, s, n : Flattens(g, s, n) =>
     \A i \in 1 .. n : g[i] = IF i = 1 THEN s[i] ELSE g[i - 1] \o s[i]
  <1> SUFFICES ASSUME NEW g, NEW s, NEW n, Flattens(g, s, n), NEW i \in 1 .. n
      PROVE g[i] = IF i = 1 THEN s[i] ELSE g[i - 1] \o s[i]
    OBVIOUS
  <1> DEFINE F == [j \in 1 .. n |-> IF j = 1 THEN s[j] ELSE g[j - 1] \o s[j]]
  <1>1. g = F
    BY DEF Flattens
  <1>2. F[i] = IF i = 1 THEN s[i] ELSE g[i - 1] \o s[i]
    OBVIOUS
  <1> HIDE DEF F
  <1> QED BY <1>1, <1>2

\* Two of them agree as far as the sequences they are made from agree.
LEMMA FlatteningUnique ==
  \A s, t, g, h : \A m, n \in Nat :
    m <= n /\ Flattens(g, s, m) /\ Flattens(h, t, n) /\ (\A i \in 1 .. m : s[i] = t[i])
    => \A i \in 1 .. m : g[i] = h[i]
  <1> SUFFICES ASSUME NEW s, NEW t, NEW g, NEW h, NEW m \in Nat, NEW n \in Nat,
             m <= n, \A i \in 1 .. m : s[i] = t[i],
             Flattens(g, s, m), Flattens(h, t, n)
      PROVE \A i \in 1 .. m : g[i] = h[i]
    OBVIOUS
  <1> DEFINE T == {i \in Nat : i \in 1 .. m => g[i] = h[i]}
  <1>1. 0 \in T
    OBVIOUS
  <1>2. ASSUME NEW i \in Nat, i \in T PROVE i + 1 \in T
    <2>1. CASE i + 1 \in 1 .. m
      <3>1. /\ g[i + 1] = IF i + 1 = 1 THEN s[i + 1] ELSE g[i + 1 - 1] \o s[i + 1]
            /\ h[i + 1] = IF i + 1 = 1 THEN t[i + 1] ELSE h[i + 1 - 1] \o t[i + 1]
        <4>1. i + 1 \in 1 .. m /\ i + 1 \in 1 .. n
          BY <2>1
        <4> QED BY <4>1, FlattensAt
      <3>2. i + 1 # 1 => g[i] = h[i]
        BY <1>2, <2>1
      <3>3. i + 1 - 1 = i /\ s[i + 1] = t[i + 1]
        BY <2>1
      <3> QED BY <3>1, <3>2, <3>3
    <2> QED BY <2>1
  <1> HIDE DEF T
  <1>3. Nat \subseteq T
    BY <1>1, <1>2, NatSetInduction
  <1> QED BY <1>3 DEF T

\* FlattenSeq gives the last value of such a function.
LEMMA FlattenSeqUnfolds ==
  ASSUME NEW s, Len(s) \in Nat \ {0}
  PROVE \E g : Flattens(g, s, Len(s)) /\ FlattenSeq(s) = g[Len(s)]
  <1> DEFINE f == CHOOSE g : Flattens(g, s, Len(s))
  <1>1. Flattens(f, s, Len(s))
    BY FlatteningExists
  <1>2. FlattenSeq(s) = f[Len(s)]
    BY DEF FlattenSeq, Flattens
  <1> QED BY <1>1, <1>2

\* No chunk: nothing to write.
LEMMA FlattenNothing == FlattenSeq(<<>>) = <<>>
  BY DEF FlattenSeq

\* A sequence that goes on one element longer flattens to as much more.
LEMMA FlattenLonger ==
  \A s, t : \A n \in Nat \ {0} :
     Len(s) = n /\ Len(t) = n + 1 /\ (\A i \in 1 .. n : s[i] = t[i])
     => FlattenSeq(t) = FlattenSeq(s) \o t[n + 1]
  <1> SUFFICES ASSUME NEW s, NEW t, NEW n \in Nat \ {0}, Len(s) = n, Len(t) = n + 1,
                      \A i \in 1 .. n : s[i] = t[i]
               PROVE  FlattenSeq(t) = FlattenSeq(s) \o t[n + 1]
    OBVIOUS
  <1>1. PICK g : Flattens(g, s, n) /\ FlattenSeq(s) = g[n]
    BY FlattenSeqUnfolds
  <1>2. PICK h : Flattens(h, t, n + 1) /\ FlattenSeq(t) = h[n + 1]
    <2>1. Len(t) \in Nat \ {0}
      OBVIOUS
    <2>2. \E h : Flattens(h, t, Len(t)) /\ FlattenSeq(t) = h[Len(t)]
      BY <2>1, FlattenSeqUnfolds
    <2> QED BY <2>2
  <1>3. n + 1 \in Nat /\ n \in Nat /\ n <= n + 1 /\ n \in 1 .. n /\ n + 1 \in 1 .. n + 1
    OBVIOUS
  <1>4. g[n] = h[n]
    BY <1>1, <1>2, <1>3, FlatteningUnique
  <1>5. h[n + 1] = IF n + 1 = 1 THEN t[n + 1] ELSE h[n + 1 - 1] \o t[n + 1]
    BY <1>2, <1>3, FlattensAt
  <1>6. h[n + 1] = h[n] \o t[n + 1]
    <2>1. n + 1 # 1 /\ n + 1 - 1 = n
      OBVIOUS
    <2> QED BY <1>5, <2>1
  <1> QED BY <1>1, <1>2, <1>4, <1>6

\* FlattenSeq of forward_chunks with one more chunk (_pipe_box_to_cloud joins them).
LEMMA FlattenAppend ==
  ASSUME NEW U, NEW s \in Seq(Seq(U)), NEW x \in Seq(U)
  PROVE  FlattenSeq(Append(s, x)) = FlattenSeq(s) \o x
  <1> DEFINE n == Len(s)
  <1>1. PICK t : t = Append(s, x)
    OBVIOUS
  <1>2. /\ n \in Nat /\ Len(t) = n + 1 /\ t[n + 1] = x
        /\ \A i \in 1 .. n : s[i] = t[i]
    BY <1>1, AppendProperties
  <1>3. FlattenSeq(t) = FlattenSeq(s) \o x
    <2>1. CASE n # 0
      <3> HIDE DEF n
      <3>1. n \in Nat \ {0} /\ Len(s) = n
        BY <2>1, <1>2 DEF n
      <3> QED BY <3>1, <1>2, FlattenLonger
    <2>2. CASE n = 0
      <3>1. s = <<>> /\ Len(t) \in Nat \ {0} /\ Len(t) = 1 /\ 1 \in 1 .. 1
        BY <1>2, <2>2
      <3>2. PICK h : Flattens(h, t, 1) /\ FlattenSeq(t) = h[1]
        BY <3>1, FlattenSeqUnfolds
      <3>3. h[1] = t[1]
        BY <3>1, <3>2, FlattensAt
      <3>4. t[1] = x /\ <<>> \o x = x
        BY <1>2, <2>2
      <3> QED BY <3>1, <3>2, <3>3, <3>4, FlattenNothing
    <2> QED BY <2>1, <2>2
  <1> QED BY <1>1, <1>3

------------------------------------------------------------------------------
\* Stretches of the stream.

\* A stretch has its bounds' length and counts on from the first position.
LEMMA StretchFacts ==
  \A a, b \in Nat : a <= b =>
         /\ Len(Stretch(a, b)) = b - a
         /\ DOMAIN Stretch(a, b) = 1 .. b - a
         /\ \A i \in 1 .. b - a : Stretch(a, b)[i] = a + i - 1
  <1> SUFFICES ASSUME NEW a \in Nat, NEW b \in Nat, a <= b
               PROVE  /\ Len(Stretch(a, b)) = b - a
                      /\ DOMAIN Stretch(a, b) = 1 .. b - a
                      /\ \A i \in 1 .. b - a : Stretch(a, b)[i] = a + i - 1
    OBVIOUS
  <1>1. b - a \in Nat
    OBVIOUS
  <1>2. PICK n \in Nat : n = b - a
    BY <1>1
  <1>3. Stretch(a, b) = [i \in 1 .. n |-> a + i - 1]
    BY <1>2 DEF Stretch
  <1> QED BY <1>2, <1>3

\* It lies within the stream when its bounds do.
LEMMA StretchInStream ==
  \A a, b, m \in Nat : 1 <= a /\ a <= b /\ b <= m + 1 => Stretch(a, b) \in Seq(1 .. m)
  <1> SUFFICES ASSUME NEW a \in Nat, NEW b \in Nat, NEW m \in Nat, 1 <= a, a <= b, b <= m + 1
               PROVE  Stretch(a, b) \in Seq(1 .. m)
    OBVIOUS
  <1>1. PICK n \in Nat : n = b - a
    OBVIOUS
  <1>2. Stretch(a, b) = [i \in 1 .. n |-> a + i - 1]
    BY <1>1 DEF Stretch
  <1>3. \A i \in 1 .. n : a + i - 1 \in 1 .. m
    BY <1>1
  <1> QED BY <1>2, <1>3

\* Its positions are those from the first bound to before the second.
LEMMA StretchPositions ==
  \A a, b \in Nat : a <= b => ToSet(Stretch(a, b)) = a .. b - 1
  <1> SUFFICES ASSUME NEW a \in Nat, NEW b \in Nat, a <= b
               PROVE  ToSet(Stretch(a, b)) = a .. b - 1
    OBVIOUS
  <1> DEFINE s == Stretch(a, b)
  <1>1. DOMAIN s = 1 .. b - a /\ \A i \in 1 .. b - a : s[i] = a + i - 1
    BY StretchFacts
  <1>2. ToSet(s) = {s[i] : i \in DOMAIN s}
    BY DEF ToSet
  <1> HIDE DEF s
  <1>3. ASSUME NEW p \in a .. b - 1 PROVE p \in ToSet(s)
    <2>1. p - a + 1 \in 1 .. b - a
      OBVIOUS
    <2>2. s[p - a + 1] = p
      BY <1>1, <2>1
    <2> QED BY <1>1, <1>2, <2>1, <2>2
  <1>4. ASSUME NEW p \in ToSet(s) PROVE p \in a .. b - 1
    <2>1. PICK i \in 1 .. b - a : p = s[i]
      BY <1>1, <1>2
    <2> QED BY <1>1, <2>1
  <1>5. ToSet(s) = a .. b - 1
    BY <1>3, <1>4
  <1> QED BY <1>5 DEF s

\* Stretches that meet are one stretch.
LEMMA StretchesJoin ==
  \A a, b, c \in Nat : 1 <= a /\ a <= b /\ b <= c => Stretch(a, b) \o Stretch(b, c) = Stretch(a, c)
  <1> SUFFICES ASSUME NEW a \in Nat, NEW b \in Nat, NEW c \in Nat, 1 <= a, a <= b, b <= c
               PROVE  Stretch(a, b) \o Stretch(b, c) = Stretch(a, c)
    OBVIOUS
  <1>1. PICK s, t, u : s = Stretch(a, b) /\ t = Stretch(b, c) /\ u = Stretch(a, c)
    OBVIOUS
  <1>2. s \in Seq(1 .. c) /\ t \in Seq(1 .. c) /\ u \in Seq(1 .. c)
    BY <1>1, StretchInStream
  <1>3. /\ Len(s) = b - a /\ \A i \in 1 .. b - a : s[i] = a + i - 1
        /\ Len(t) = c - b /\ \A i \in 1 .. c - b : t[i] = b + i - 1
        /\ Len(u) = c - a /\ \A i \in 1 .. c - a : u[i] = a + i - 1
    <2>1. Len(s) = b - a /\ \A i \in 1 .. b - a : s[i] = a + i - 1
      BY <1>1, StretchFacts
    <2>2. Len(t) = c - b /\ \A i \in 1 .. c - b : t[i] = b + i - 1
      BY <1>1, StretchFacts
    <2>3. a <= c
      OBVIOUS
    <2>4. Len(u) = c - a /\ \A i \in 1 .. c - a : u[i] = a + i - 1
      BY <1>1, <2>3, StretchFacts
    <2> QED BY <2>1, <2>2, <2>4
  <1>4. /\ s \o t \in Seq(1 .. c) /\ Len(s \o t) = Len(s) + Len(t)
        /\ \A i \in 1 .. Len(s) + Len(t) : (s \o t)[i] = IF i <= Len(s) THEN s[i] ELSE t[i - Len(s)]
    BY <1>2, ConcatProperties
  <1>5. Len(s) + Len(t) = c - a
    BY <1>3
  <1>6. ASSUME NEW i \in 1 .. c - a PROVE (s \o t)[i] = u[i]
    <2>1. (s \o t)[i] = IF i <= b - a THEN s[i] ELSE t[i - (b - a)]
      BY <1>3, <1>4, <1>5
    <2>2. CASE i <= b - a
      <3>1. i \in 1 .. b - a
        BY <2>2
      <3> QED BY <1>3, <2>1, <2>2, <3>1
    <2>3. CASE ~(i <= b - a)
      <3>1. i - (b - a) \in 1 .. c - b
        BY <2>3
      <3>2. t[i - (b - a)] = b + (i - (b - a)) - 1
        BY <1>3, <3>1
      <3> QED BY <1>3, <2>1, <2>3, <3>2
    <2> QED BY <2>2, <2>3
  <1>7. s \o t = u
    BY <1>2, <1>3, <1>4, <1>5, <1>6, SeqEqual
  <1> QED BY <1>1, <1>7

------------------------------------------------------------------------------
\* Frames in the buffer.

\* The length of the stream.
LEMMA SentIsNat == Sent \in Nat
  BY PipeAssumption DEF Sent, FrameLength

\* The end of the frame at the front of the buffer (extract_frame_from_buffer): it
\* is beyond what has left the buffer, after one end tag, and a frame may end there.
LEMMA FrameEndFacts ==
  ASSUME TypeOK, AtFrameEnd(kept), NEW e \in FrameEnds
  PROVE  /\ e \in Nat /\ kept < e /\ e <= taken
         /\ AtFrameEnd(e)
         /\ FrameOf(e) \in Nat
         /\ \E p \in kept + 1 .. e : EndsTag(p) /\ \A q \in (kept + 1 .. e) \ {p} : ~EndsTag(q)
  <1>1. kept \in Nat /\ taken \in Nat
    BY SentIsNat DEF TypeOK
  <1>2. PICK t \in FirstEndTag \ {taken - 1} : e = IF t = taken THEN t ELSE t + 2
    BY DEF FrameEnds
  <1>3. /\ t \in kept + 1 .. taken /\ t \in Nat /\ t % 4 = 2
        /\ \A q \in kept + 1 .. t - 1 : ~EndsTag(q)
    BY <1>1, <1>2 DEF FirstEndTag, EndsTag, FrameLength
  <1>4. e \in Nat /\ kept < e /\ e <= taken /\ t \in kept + 1 .. e
    BY <1>1, <1>2, <1>3
  <1>5. AtFrameEnd(e) /\ FrameOf(e) \in Nat
    BY <1>2, <1>3 DEF AtFrameEnd, FrameLength, FrameOf
  <1>6. ASSUME NEW q \in (kept + 1 .. e) \ {t} PROVE ~EndsTag(q)
    <2>1. CASE q < t
      BY <1>1, <1>3, <2>1
    <2>2. CASE q = t + 1 \/ q = t + 2
      BY <1>3, <2>2 DEF EndsTag, FrameLength
    <2> QED BY <1>1, <1>2, <1>3, <2>1, <2>2
  <1> QED BY <1>3, <1>4, <1>5, <1>6 DEF EndsTag, FrameLength

\* When no whole frame is left, what is in the buffer belongs to the frame that
\* comes next, line ends apart.
LEMMA NoFrameLeft ==
  ASSUME TypeOK, AtFrameEnd(kept), FrameEnds = {}, NEW p \in kept + 1 .. taken, ~LineEnd(p)
  PROVE  FrameOf(p) = NextFrame(kept)
  <1>1. kept \in Nat /\ taken \in Nat /\ p \in Nat
    BY SentIsNat DEF TypeOK
  <1>2. PICK t \in Nat : t = IF kept % 4 = 0 THEN kept + 2 ELSE kept + 4
    BY <1>1
  <1>3. /\ EndsTag(t) /\ kept < t
        /\ \A q \in kept + 1 .. t - 1 : ~EndsTag(q)
    BY <1>1, <1>2 DEF EndsTag, AtFrameEnd, FrameLength
  <1>4. taken <= t + 1
    <2>1. t <= taken => t \in FirstEndTag
      BY <1>1, <1>2, <1>3 DEF FirstEndTag
    <2>2. FirstEndTag \subseteq {taken - 1}
      BY DEF FrameEnds
    <2> QED BY <1>1, <1>2, <2>1, <2>2
  <1>5. p % 4 \in {1, 2}
    BY <1>1 DEF LineEnd, FrameLength
  <1>6. p = t - 1 \/ p = t
    BY <1>1, <1>2, <1>4, <1>5 DEF AtFrameEnd, FrameLength
  <1> QED BY <1>1, <1>2, <1>6, <1>5 DEF NextFrame, FrameOf, FrameLength, AtFrameEnd

\* What comes after the end of a frame belongs to the next frame or a later one.
LEMMA LaterPositions ==
  \A k, p \in Nat : AtFrameEnd(k) /\ k < p /\ ~LineEnd(p) => NextFrame(k) <= FrameOf(p)
  BY DEF AtFrameEnd, LineEnd, NextFrame, FrameOf, FrameLength

\* What comes before it belongs to an earlier frame, or is its line end.
LEMMA EarlierPositions ==
  \A k, p \in Nat : AtFrameEnd(k) /\ p <= k => FrameOf(p) <= NextFrame(k)
  BY DEF AtFrameEnd, LineEnd, NextFrame, FrameOf, FrameLength

\* Later positions are of later frames.
LEMMA FrameOfGrows == \A p, q \in Nat : p <= q => FrameOf(p) <= FrameOf(q) /\ NextFrame(p) <= NextFrame(q)
  BY DEF FrameOf, NextFrame, FrameLength

\* Frames have numbers.
LEMMA FrameNumbers == \A p \in Nat : FrameOf(p) \in Int /\ NextFrame(p) \in Int
  BY DEF FrameOf, NextFrame, FrameLength

------------------------------------------------------------------------------
\* The inductive invariant of the pipe.

\* The buffer, the hooks and the cloud have nothing before the first read.
LEMMA PipeStart == Init => PipeInv
  <1> SUFFICES ASSUME Init PROVE PipeInv
    OBVIOUS
  <1>1. TypeOK
    <2>1. <<>> \in Seq(Seq(1 .. Sent)) /\ <<>> \in Seq(1 .. Sent)
      BY EmptySeq
    <2>2. 0 \in 0 .. Sent /\ 0 \in 0 .. 0
      BY SentIsNat
    <2>3. {} \subseteq polls
      OBVIOUS
    <2> QED BY <2>1, <2>2, <2>3 DEF Init, TypeOK
  <1>2. AtFrameEnd(0) /\ kept = 0
    BY DEF Init, AtFrameEnd, FrameLength
  <1>3. Stretch(1, kept + 1) = <<>>
    BY <1>2 DEF Stretch
  <1>4. ReadBegan(0)
    BY <1>2 DEF Init, ReadBegan
  <1>5. EachFrameHandledOnce
    <2>1. SubSeq(handled, 1, 0) = <<>> /\ Len(handled) = 0
      BY DEF Init
    <2>2. FlattenSeq(SubSeq(handled, 1, 0)) = Stretch(1, kept + 1)
      BY <1>3, <2>1, FlattenNothing, Zenon
    <2> QED BY <2>1, <2>2 DEF EachFrameHandledOnce
  <1>6. CloudInOrder
    BY DEF Init, CloudInOrder
  <1> QED BY <1>1, <1>2, <1>4, <1>5, <1>6 DEF PipeInv, Init

\* The frame e ends is a stretch of the stream with one end tag.
LEMMA FrameTaken ==
  ASSUME TypeOK, AtFrameEnd(kept), NEW e \in FrameEnds
  PROVE  /\ Stretch(kept + 1, e + 1) \in Seq(1 .. Sent)
         /\ OneEndTag(Stretch(kept + 1, e + 1))
         /\ Stretch(1, kept + 1) \o Stretch(kept + 1, e + 1) = Stretch(1, e + 1)
         /\ \A k \in 0 .. kept : Stretch(k + 1, kept + 1) \o Stretch(kept + 1, e + 1) = Stretch(k + 1, e + 1)
  <1>1. kept \in Nat /\ taken \in Nat /\ taken <= Sent
    BY SentIsNat DEF TypeOK
  <1>2. e \in Nat /\ kept < e /\ e <= taken
    BY FrameEndFacts
  <1>3. Stretch(kept + 1, e + 1) \in Seq(1 .. Sent)
    <2>1. kept + 1 \in Nat /\ e + 1 \in Nat /\ 1 <= kept + 1 /\ kept + 1 <= e + 1 /\ e + 1 <= Sent + 1
      BY <1>1, <1>2, SentIsNat
    <2> QED BY <2>1, SentIsNat, StretchInStream
  <1>4. OneEndTag(Stretch(kept + 1, e + 1))
    <2>1. PICK a, b \in Nat : a = kept + 1 /\ b = e + 1
      BY <1>1, <1>2
    <2>2. ToSet(Stretch(a, b)) = a .. b - 1
      BY <1>1, <1>2, <2>1, StretchPositions
    <2>3. b - 1 = e
      BY <1>2, <2>1
    <2>4. ToSet(Stretch(kept + 1, e + 1)) = kept + 1 .. e
      BY <2>1, <2>2, <2>3
    <2> QED BY <2>4, FrameEndFacts DEF OneEndTag
  <1>5. ASSUME NEW k \in 0 .. kept
        PROVE  Stretch(k + 1, kept + 1) \o Stretch(kept + 1, e + 1) = Stretch(k + 1, e + 1)
    <2>1. k + 1 \in Nat /\ kept + 1 \in Nat /\ e + 1 \in Nat /\ 1 <= k + 1 /\ k + 1 <= kept + 1 /\ kept + 1 <= e + 1
      BY <1>1, <1>2
    <2> QED BY <2>1, StretchesJoin
  <1>6. Stretch(1, kept + 1) \o Stretch(kept + 1, e + 1) = Stretch(1, e + 1)
    <2>1. 0 \in 0 .. kept /\ 0 + 1 = 1
      BY <1>1
    <2> QED BY <1>5, <2>1
  <1> QED BY <1>3, <1>4, <1>5, <1>6

\* Until the session ends the stream is what has been handled.
LEMMA AllHandled ==
  ASSUME TypeOK
  PROVE  /\ pc # "ended" /\ EachFrameHandledOnce =>
               /\ FlattenSeq(handled) = Stretch(1, kept + 1)
               /\ \A i \in DOMAIN handled : OneEndTag(handled[i])
         /\ /\ FlattenSeq(handled) = Stretch(1, kept + 1)
            /\ \A i \in DOMAIN handled : OneEndTag(handled[i])
            => EachFrameHandledOnce
  <1>1. /\ SubSeq(handled, 1, Len(handled)) = handled /\ DOMAIN handled = 1 .. Len(handled)
        /\ Len(handled) \in Nat
    BY SubSeqFull DEF TypeOK
  <1>2. ASSUME pc # "ended", EachFrameHandledOnce
        PROVE  /\ FlattenSeq(handled) = Stretch(1, kept + 1)
               /\ \A i \in DOMAIN handled : OneEndTag(handled[i])
    <2>1. PICK n \in 0 .. Len(handled) :
             /\ FlattenSeq(SubSeq(handled, 1, n)) = Stretch(1, kept + 1)
             /\ \A i \in 1 .. n : OneEndTag(handled[i])
             /\ n < Len(handled) => pc = "ended"
      BY <1>2 DEF EachFrameHandledOnce
    <2>2. n = Len(handled)
      <3>1. ~(n < Len(handled))
        BY <1>2, <2>1, Zenon
      <3>2. Len(handled) \in Nat
        BY <1>1
      <3> QED BY <3>1, <3>2
    <2> QED BY <1>1, <2>1, <2>2
  <1>3. ASSUME FlattenSeq(handled) = Stretch(1, kept + 1),
               \A i \in DOMAIN handled : OneEndTag(handled[i])
        PROVE  EachFrameHandledOnce
    <2>1. Len(handled) \in 0 .. Len(handled) /\ ~(Len(handled) < Len(handled))
      BY <1>1
    <2> QED BY <1>1, <1>3, <2>1 DEF EachFrameHandledOnce
  <1> QED BY <1>2, <1>3

\* The stretch that is written is part of the stream, or nothing.
LEMMA PayloadFacts ==
  ASSUME TypeOK, NEW k \in 0 .. kept, ReadBegan(k), pc = "frames"
  PROVE  /\ Payload \in Seq(1 .. Sent)
         /\ Payload = <<>> \/ Payload = Stretch(k + 1, kept + 1) \/ (kept = k /\ Payload = Stretch(from + 1, taken + 1))
         /\ ~withheld => k <= from
         /\ ~withheld => Payload = Stretch(k + 1, kept + 1) \/ (kept = k /\ Payload = Stretch(from + 1, taken + 1))
  <1>1. /\ k \in Nat /\ kept \in Nat /\ taken \in Nat /\ from \in Nat
        /\ k <= kept /\ kept <= taken /\ taken <= Sent /\ from <= Sent
    BY SentIsNat DEF TypeOK
  <1>2. <<>> \in Seq(1 .. Sent)
    OBVIOUS
  <1>3. Stretch(k + 1, kept + 1) \in Seq(1 .. Sent)
    <2>1. k + 1 \in Nat /\ kept + 1 \in Nat /\ 1 <= k + 1 /\ k + 1 <= kept + 1 /\ kept + 1 <= Sent + 1
      BY <1>1, SentIsNat
    <2> QED BY <2>1, SentIsNat, StretchInStream
  <1>4. Stretch(from + 1, taken + 1) \in Seq(1 .. Sent)
    <2>1. CASE from <= taken
      <3>1. from + 1 \in Nat /\ taken + 1 \in Nat /\ 1 <= from + 1 /\ from + 1 <= taken + 1 /\ taken + 1 <= Sent + 1
        BY <1>1, <2>1, SentIsNat
      <3> QED BY <3>1, SentIsNat, StretchInStream
    <2>2. CASE ~(from <= taken)
      <3>1. Stretch(from + 1, taken + 1) = <<>>
        BY <1>1, <2>2 DEF Stretch
      <3> QED BY <3>1, <1>2
    <2> QED BY <2>1, <2>2
  <1>5. CASE withheld
    BY <1>2, <1>5 DEF Payload
  <1>6. CASE ~withheld /\ forward # <<>>
    BY <1>3, <1>6 DEF Payload, ReadBegan
  <1>7. CASE ~withheld /\ forward = <<>>
    <2>1. Stretch(k + 1, kept + 1) = <<>>
      BY <1>7, FlattenNothing DEF ReadBegan
    <2>2. Len(Stretch(k + 1, kept + 1)) = kept - k
      <3>1. PICK a, b \in Nat : a = k + 1 /\ b = kept + 1 /\ a <= b
        BY <1>1
      <3>2. Len(Stretch(a, b)) = b - a
        BY <3>1, StretchFacts
      <3> QED BY <1>1, <3>1, <3>2
    <2>3. kept = k
      BY <1>1, <2>1, <2>2
    <2>4. Payload = Stretch(from + 1, taken + 1) /\ k <= from
      BY <1>7 DEF Payload, ReadBegan
    <2> QED BY <1>4, <2>3, <2>4
  <1> QED BY <1>5, <1>6, <1>7 DEF ReadBegan

\* The types of the pipe (ProxyServer._pipe_box_to_cloud) survive every step.
LEMMA PipeTypesStep == PipeInv /\ [Next]_vars => TypeOK'
  <1> SUFFICES ASSUME PipeInv, [Next]_vars PROVE TypeOK'
    OBVIOUS
  <1>1. TypeOK /\ AtFrameEnd(kept)
    BY DEF PipeInv
  <1>2. PICK k \in 0 .. kept : ReadBegan(k)
    BY DEF PipeInv
  <1>3. kept \in Nat /\ taken \in Nat /\ kept <= taken /\ taken <= Sent
    BY <1>1, SentIsNat DEF TypeOK
  <1>4. CASE Read
    <2>1. taken' \in 0 .. Sent /\ kept' \in 0 .. taken' /\ from' \in 0 .. Sent
      BY <1>1, <1>3, <1>4, SentIsNat DEF Read, TypeOK
    <2>2. <<>> \in Seq(Seq(1 .. Sent))
      OBVIOUS
    <2> QED BY <1>1, <1>4, <2>1, <2>2 DEF Read, TypeOK
  <1>5. CASE BoxEnds
    BY <1>1, <1>5 DEF BoxEnds, TypeOK
  <1>6. ASSUME NEW e \in FrameEnds, Take(e)
        PROVE  /\ pc' = pc /\ polls' = polls /\ from' = from /\ taken' = taken /\ cloud' = cloud
               /\ kept' \in 0 .. taken
               /\ handled' \in Seq(Seq(1 .. Sent))
               /\ Append(forward, Stretch(kept + 1, e + 1)) \in Seq(Seq(1 .. Sent))
    <2>1. PICK x \in Seq(1 .. Sent) : x = Stretch(kept + 1, e + 1)
      BY <1>1, FrameTaken
    <2>2. Append(handled, x) \in Seq(Seq(1 .. Sent)) /\ Append(forward, x) \in Seq(Seq(1 .. Sent))
      BY <1>1, AppendProperties DEF TypeOK
    <2>3. e \in 0 .. taken
      BY <1>1, <1>3, FrameEndFacts
    <2> QED BY <1>6, <2>1, <2>2, <2>3 DEF Take
  <1>7. ASSUME NEW e \in FrameEnds, Collect(e) PROVE TypeOK'
    <2>1. Take(e)
      BY <1>7 DEF Collect
    <2> QED BY <1>1, <1>6, <1>7, <2>1 DEF Collect, TypeOK
  <1>8. ASSUME NEW e \in FrameEnds, Inject(e) PROVE TypeOK'
    <2>1. Take(e)
      BY <1>8 DEF Inject
    <2> QED BY <1>1, <1>6, <1>8, <2>1 DEF Inject, TypeOK
  <1>9. CASE Flush
    <2>1. Payload \in Seq(1 .. Sent)
      BY <1>1, <1>2, <1>9, PayloadFacts DEF Flush
    <2>2. cloud \o Payload \in Seq(1 .. Sent)
      BY <1>1, <2>1, ConcatProperties DEF TypeOK
    <2> QED BY <1>1, <1>9, <2>2 DEF Flush, TypeOK
  <1>10. CASE FlushFails
    <2>1. PICK n \in 0 .. Len(forward) : handled' = handled \o SubSeq(forward, 1, n)
      BY <1>10 DEF FlushFails
    <2>2. SubSeq(forward, 1, n) \in Seq(Seq(1 .. Sent))
      <3>1. PICK U : U = Seq(1 .. Sent)
        OBVIOUS
      <3> QED BY <1>1, <3>1 DEF TypeOK
    <2>3. handled' \in Seq(Seq(1 .. Sent))
      BY <1>1, <2>1, <2>2, ConcatProperties DEF TypeOK
    <2> QED BY <1>1, <1>10, <2>3 DEF FlushFails, TypeOK
  <1>11. CASE UNCHANGED vars
    BY <1>1, <1>11 DEF vars, TypeOK
  <1> QED
    BY <1>4, <1>5, <1>7, <1>8, <1>9, <1>10, <1>11 DEF Next, TakeFrame

\* What is written to the cloud behind everything that is there already keeps
\* its order, if it is in order itself and begins with the next frame.
LEMMA CloudExtends ==
  ASSUME TypeOK, CloudInOrder, NEW f \in Int, NEW x \in Seq(1 .. Sent), cloud' = cloud \o x,
         \A i \in DOMAIN cloud : ~LineEnd(cloud[i]) => FrameOf(cloud[i]) <= f,
         \A i \in DOMAIN x : ~LineEnd(x[i]) => f <= FrameOf(x[i]),
         \A i, j \in DOMAIN x : i < j => x[i] <= x[j]
  PROVE  CloudInOrder'
  <1>1. cloud \in Seq(1 .. Sent) /\ Len(cloud) \in Nat /\ Len(x) \in Nat
    BY DEF TypeOK
  <1>2. /\ DOMAIN cloud = 1 .. Len(cloud) /\ DOMAIN x = 1 .. Len(x)
        /\ DOMAIN (cloud \o x) = 1 .. Len(cloud) + Len(x)
        /\ \A i \in 1 .. Len(cloud) + Len(x) :
              (cloud \o x)[i] = IF i <= Len(cloud) THEN cloud[i] ELSE x[i - Len(cloud)]
    BY <1>1, ConcatProperties
  <1> SUFFICES ASSUME NEW i \in DOMAIN cloud', NEW j \in DOMAIN cloud', i < j,
                      ~LineEnd(cloud'[i]), ~LineEnd(cloud'[j])
               PROVE  FrameOf(cloud'[i]) <= FrameOf(cloud'[j])
    BY DEF CloudInOrder
  <1>3. i \in 1 .. Len(cloud) + Len(x) /\ j \in 1 .. Len(cloud) + Len(x)
    BY <1>2
  <1>4. /\ cloud'[i] = IF i <= Len(cloud) THEN cloud[i] ELSE x[i - Len(cloud)]
        /\ cloud'[j] = IF j <= Len(cloud) THEN cloud[j] ELSE x[j - Len(cloud)]
    BY <1>2, <1>3
  <1>5. CASE j <= Len(cloud)
    <2>1. i <= Len(cloud) /\ i \in DOMAIN cloud /\ j \in DOMAIN cloud
      BY <1>1, <1>2, <1>3, <1>5
    <2> QED BY <1>4, <1>5, <2>1 DEF CloudInOrder
  <1>6. CASE i <= Len(cloud) /\ ~(j <= Len(cloud))
    <2>1. i \in DOMAIN cloud /\ j - Len(cloud) \in DOMAIN x
      BY <1>1, <1>2, <1>3, <1>6
    <2>2. FrameOf(cloud'[i]) <= f /\ f <= FrameOf(cloud'[j])
      BY <1>4, <1>6, <2>1
    <2>3. cloud[i] \in Nat /\ x[j - Len(cloud)] \in Nat
      BY <1>1, <2>1, ElementOfSeq, SentIsNat
    <2>4. FrameOf(cloud'[i]) \in Int /\ FrameOf(cloud'[j]) \in Int
      BY <1>4, <1>6, <2>3, FrameNumbers
    <2> QED BY <2>2, <2>4
  <1>7. CASE ~(i <= Len(cloud)) /\ ~(j <= Len(cloud))
    <2>1. PICK a, b : a = i - Len(cloud) /\ b = j - Len(cloud)
      OBVIOUS
    <2>2. a \in DOMAIN x /\ b \in DOMAIN x /\ a < b
      BY <1>1, <1>2, <1>3, <1>7, <2>1
    <2>3. x[a] \in Nat /\ x[b] \in Nat
      BY <1>2, <2>2, ElementOfSeq, SentIsNat
    <2>4. x[a] <= x[b]
      BY <2>2
    <2>5. FrameOf(x[a]) <= FrameOf(x[b])
      BY <2>3, <2>4, FrameOfGrows
    <2> QED BY <1>4, <1>7, <2>1, <2>5
  <1> QED BY <1>1, <1>3, <1>5, <1>6, <1>7

\* The positions of a stretch are those between its bounds, in order.
LEMMA StretchInOrder ==
  \A a, b \in Nat :
     /\ \A i \in DOMAIN Stretch(a, b) : Stretch(a, b)[i] \in a .. b - 1
     /\ \A i, j \in DOMAIN Stretch(a, b) : i < j => Stretch(a, b)[i] <= Stretch(a, b)[j]
  <1> SUFFICES ASSUME NEW a \in Nat, NEW b \in Nat
               PROVE  /\ \A i \in DOMAIN Stretch(a, b) : Stretch(a, b)[i] \in a .. b - 1
                      /\ \A i, j \in DOMAIN Stretch(a, b) : i < j => Stretch(a, b)[i] <= Stretch(a, b)[j]
    OBVIOUS
  <1>1. PICK n \in Int : n = b - a
    OBVIOUS
  <1>2. PICK s : s = Stretch(a, b)
    OBVIOUS
  <1>3. s = [i \in 1 .. n |-> a + i - 1]
    BY <1>1, <1>2 DEF Stretch
  <1>4. DOMAIN s = 1 .. n /\ \A i \in 1 .. n : s[i] = a + i - 1
    BY <1>3
  <1>5. \A i \in DOMAIN s : s[i] \in a .. b - 1
    BY <1>1, <1>4
  <1>6. \A i, j \in DOMAIN s : i < j => s[i] <= s[j]
    BY <1>1, <1>4
  <1> QED BY <1>2, <1>5, <1>6

\* Flush keeps the order at the cloud, which then has nothing beyond the frame
\* that comes next, and all that has left the buffer if no poll was answered.
LEMMA FlushKeeps ==
  ASSUME PipeInv, Flush
  PROVE  CloudInOrder' /\ ReadBegan(kept)'
  <1>1. TypeOK /\ AtFrameEnd(kept) /\ CloudInOrder /\ pc = "frames" /\ FrameEnds = {} /\ pc' = "read"
        /\ cloud' = cloud \o Payload /\ kept' = kept /\ injected' = injected /\ taken' = taken
        /\ (injected = {} => ~withheld)
    BY DEF PipeInv, Flush
  <1>2. PICK k \in 0 .. kept : ReadBegan(k)
    BY DEF PipeInv
  <1>3. k \in Nat /\ kept \in Nat /\ taken \in Nat /\ from \in Nat /\ k <= kept /\ kept <= taken
    BY <1>1, SentIsNat DEF TypeOK
  <1>4. PICK x \in Seq(1 .. Sent) : x = Payload
    BY <1>1, <1>2, PayloadFacts
  <1>5. x = <<>> \/ x = Stretch(k + 1, kept + 1) \/ (kept = k /\ k <= from /\ x = Stretch(from + 1, taken + 1))
    <2>1. CASE withheld
      BY <1>4, <2>1 DEF Payload
    <2>2. CASE ~withheld
      BY <1>1, <1>2, <1>4, <2>2, PayloadFacts
    <2> QED BY <2>1, <2>2
  <1>6. /\ \A i, j \in DOMAIN x : i < j => x[i] <= x[j]
        /\ \A i \in DOMAIN x : x[i] \in k + 1 .. taken
        /\ \A i \in DOMAIN x : x[i] \in k + 1 .. kept \/ kept = k
    <2>1. CASE x = <<>>
      BY <2>1
    <2>2. CASE x = Stretch(k + 1, kept + 1)
      <3>1. PICK a, b \in Nat : a = k + 1 /\ b = kept + 1
        BY <1>3
      <3>2. x = Stretch(a, b)
        BY <2>2, <3>1
      <3>3. /\ \A i \in DOMAIN x : x[i] \in a .. b - 1
            /\ \A i, j \in DOMAIN x : i < j => x[i] <= x[j]
        BY <3>2, StretchInOrder
      <3> QED BY <1>3, <3>1, <3>3
    <2>3. CASE kept = k /\ k <= from /\ x = Stretch(from + 1, taken + 1)
      <3>1. PICK a, b \in Nat : a = from + 1 /\ b = taken + 1
        BY <1>3
      <3>2. x = Stretch(a, b)
        BY <2>3, <3>1
      <3>3. /\ \A i \in DOMAIN x : x[i] \in a .. b - 1
            /\ \A i, j \in DOMAIN x : i < j => x[i] <= x[j]
        BY <3>2, StretchInOrder
      <3> QED BY <1>3, <2>3, <3>1, <3>3
    <2> QED BY <1>5, <2>1, <2>2, <2>3
  <1>7. NextFrame(k) \in Int /\ NextFrame(kept) \in Int /\ NextFrame(k) <= NextFrame(kept)
    BY <1>3, FrameNumbers, FrameOfGrows
  <1>8. ASSUME NEW i \in DOMAIN x, ~LineEnd(x[i])
        PROVE  NextFrame(k) <= FrameOf(x[i]) /\ FrameOf(x[i]) <= NextFrame(kept)
    <2>1. x[i] \in Nat /\ k < x[i] /\ x[i] <= taken
      BY <1>3, <1>6
    <2>2. NextFrame(k) <= FrameOf(x[i])
      BY <1>2, <1>3, <1>8, <2>1, LaterPositions DEF ReadBegan
    <2>3. CASE x[i] <= kept
      BY <1>1, <1>3, <2>1, <2>2, <2>3, EarlierPositions
    <2>4. CASE ~(x[i] <= kept)
      <3>1. x[i] \in kept + 1 .. taken
        BY <1>3, <2>1, <2>4
      <3>2. FrameOf(x[i]) = NextFrame(kept)
        BY <1>1, <1>8, <3>1, NoFrameLeft
      <3> QED BY <1>7, <2>2, <3>2
    <2> QED BY <2>3, <2>4
  <1>9. CloudInOrder'
    BY <1>1, <1>2, <1>4, <1>6, <1>7, <1>8, CloudExtends DEF ReadBegan
  <1>10. cloud \in Seq(1 .. Sent) /\ cloud' = cloud \o x
    BY <1>1, <1>4 DEF TypeOK
  <1>11. /\ Len(cloud) \in Nat /\ Len(x) \in Nat /\ DOMAIN x = 1 .. Len(x) /\ DOMAIN cloud = 1 .. Len(cloud)
         /\ DOMAIN cloud' = 1 .. Len(cloud) + Len(x)
         /\ \A i \in 1 .. Len(cloud) + Len(x) :
               cloud'[i] = IF i <= Len(cloud) THEN cloud[i] ELSE x[i - Len(cloud)]
    BY <1>10, ConcatProperties
  <1>12. ASSUME NEW i \in DOMAIN cloud', ~LineEnd(cloud'[i])
         PROVE  FrameOf(cloud'[i]) <= NextFrame(kept)
    <2>1. CASE i <= Len(cloud)
      <3>1. i \in DOMAIN cloud /\ cloud'[i] = cloud[i]
        BY <1>11, <2>1
      <3>2. FrameOf(cloud[i]) <= NextFrame(k)
        BY <1>2, <1>12, <3>1 DEF ReadBegan
      <3>3. FrameOf(cloud[i]) \in Int
        <4>1. cloud[i] \in Nat
          BY <1>10, <1>11, <3>1, ElementOfSeq, SentIsNat
        <4> QED BY <4>1, FrameNumbers
      <3> QED BY <1>7, <3>1, <3>2, <3>3
    <2>2. CASE ~(i <= Len(cloud))
      <3>1. i - Len(cloud) \in DOMAIN x /\ cloud'[i] = x[i - Len(cloud)]
        BY <1>11, <2>2
      <3> QED BY <1>8, <1>12, <3>1
    <2> QED BY <2>1, <2>2
  <1>13. ToSet(cloud') = ToSet(cloud) \cup ToSet(x)
    <2>1. ASSUME NEW p \in ToSet(cloud) \cup ToSet(x) PROVE p \in ToSet(cloud')
      <3>1. CASE p \in ToSet(cloud)
        <4>1. PICK i \in 1 .. Len(cloud) : p = cloud[i]
          BY <1>11, <3>1 DEF ToSet
        <4> QED BY <1>11, <4>1 DEF ToSet
      <3>2. CASE p \in ToSet(x)
        <4>1. PICK i \in 1 .. Len(x) : p = x[i]
          BY <1>11, <3>2 DEF ToSet
        <4>2. PICK j : j = Len(cloud) + i
          OBVIOUS
        <4>3. j \in 1 .. Len(cloud) + Len(x) /\ ~(j <= Len(cloud)) /\ j - Len(cloud) = i
          BY <1>11, <4>2
        <4> QED BY <1>11, <4>1, <4>3 DEF ToSet
      <3> QED BY <3>1, <3>2
    <2>2. ASSUME NEW p \in ToSet(cloud') PROVE p \in ToSet(cloud) \cup ToSet(x)
      <3>1. PICK i \in 1 .. Len(cloud) + Len(x) : p = cloud'[i]
        BY <1>11, <2>2 DEF ToSet
      <3>2. CASE i <= Len(cloud)
        BY <1>11, <3>1, <3>2 DEF ToSet
      <3>3. CASE ~(i <= Len(cloud))
        <4>1. i - Len(cloud) \in 1 .. Len(x) /\ p = x[i - Len(cloud)]
          BY <1>11, <3>1, <3>3
        <4> QED BY <1>11, <4>1 DEF ToSet
      <3> QED BY <3>2, <3>3
    <2> QED BY <2>1, <2>2
  <1>14. ASSUME injected = {} PROVE 1 .. kept \subseteq ToSet(cloud')
    <2>1. ~withheld /\ 1 .. k \subseteq ToSet(cloud)
      BY <1>1, <1>2, <1>14 DEF ReadBegan
    <2>2. CASE kept = k
      BY <1>13, <2>1, <2>2
    <2>3. CASE kept # k
      <3>1. x = Stretch(k + 1, kept + 1)
        BY <1>1, <1>2, <1>4, <2>1, <2>3, PayloadFacts
      <3>2. PICK a, b \in Nat : a = k + 1 /\ b = kept + 1 /\ a <= b
        BY <1>3
      <3>3. ToSet(Stretch(a, b)) = a .. b - 1
        BY <3>2, StretchPositions
      <3>4. k + 1 .. kept \subseteq ToSet(x)
        BY <1>3, <3>1, <3>2, <3>3
      <3> QED BY <1>3, <1>13, <2>1, <3>4
    <2> QED BY <2>2, <2>3
  <1>15. ReadBegan(kept)'
    BY <1>1, <1>12, <1>14 DEF ReadBegan, AtFrameEnd, FrameLength
  <1> QED BY <1>9, <1>15

\* The same of the next state.
LEMMA AllHandledNext ==
  ASSUME handled' \in Seq(Seq(1 .. Sent)),
         FlattenSeq(handled') = Stretch(1, kept' + 1),
         \A i \in DOMAIN handled' : OneEndTag(handled'[i])
  PROVE  EachFrameHandledOnce'
  <1>1. PICK h \in Seq(Seq(1 .. Sent)) : h = handled'
    OBVIOUS
  <1>2. SubSeq(h, 1, Len(h)) = h /\ DOMAIN h = 1 .. Len(h) /\ Len(h) \in Nat
    BY SubSeqFull
  <1>3. Len(handled') \in 0 .. Len(handled') /\ ~(Len(handled') < Len(handled'))
    BY <1>1, <1>2
  <1> QED BY <1>1, <1>2, <1>3 DEF EachFrameHandledOnce

\* A frame that is taken: the hooks have got the stream up to its end.
LEMMA TakeKeeps ==
  ASSUME PipeInv, NEW e \in FrameEnds, Take(e)
  PROVE  EachFrameHandledOnce' /\ AtFrameEnd(kept)' /\ CloudInOrder'
  <1>1. /\ TypeOK /\ AtFrameEnd(kept) /\ EachFrameHandledOnce /\ CloudInOrder
        /\ pc = "frames" /\ pc' = "frames" /\ kept' = e /\ cloud' = cloud
    BY DEF PipeInv, Take
  <1>2. PICK x \in Seq(1 .. Sent) : x = Stretch(kept + 1, e + 1)
    BY <1>1, FrameTaken
  <1>3. handled' = Append(handled, x) /\ handled \in Seq(Seq(1 .. Sent))
    BY <1>1, <1>2 DEF Take, TypeOK
  <1>4. /\ FlattenSeq(handled) = Stretch(1, kept + 1)
        /\ \A i \in DOMAIN handled : OneEndTag(handled[i])
    BY <1>1, AllHandled
  <1>5. FlattenSeq(handled') = Stretch(1, kept' + 1)
    <2>1. FlattenSeq(handled') = FlattenSeq(handled) \o x
      BY <1>3, FlattenAppend
    <2> QED BY <1>1, <1>2, <1>4, <2>1, FrameTaken
  <1>6. \A i \in DOMAIN handled' : OneEndTag(handled'[i])
    <2>1. /\ DOMAIN handled = 1 .. Len(handled) /\ DOMAIN handled' = 1 .. Len(handled) + 1
          /\ \A i \in 1 .. Len(handled) : handled'[i] = handled[i]
          /\ handled'[Len(handled) + 1] = x /\ Len(handled) \in Nat
      BY <1>3, AppendProperties
    <2>2. OneEndTag(x)
      BY <1>1, <1>2, FrameTaken
    <2>3. ASSUME NEW i \in DOMAIN handled' PROVE OneEndTag(handled'[i])
      <3>1. i \in 1 .. Len(handled) \/ i = Len(handled) + 1
        BY <2>1
      <3> QED BY <1>4, <2>1, <2>2, <3>1
    <2> QED BY <2>3
  <1>7. EachFrameHandledOnce'
    <2>1. handled' \in Seq(Seq(1 .. Sent))
      BY <1>2, <1>3, AppendProperties
    <2> QED BY <1>5, <1>6, <2>1, AllHandledNext
  <1>8. CloudInOrder'
    BY <1>1 DEF CloudInOrder
  <1>9. AtFrameEnd(kept)'
    BY <1>1, FrameEndFacts DEF AtFrameEnd, FrameLength
  <1> QED BY <1>7, <1>8, <1>9

\* What had left the buffer when the read began stays what it was.
LEMMA BeginningKept ==
  ASSUME PipeInv, NEW e \in FrameEnds, Collect(e) \/ Inject(e), NEW k \in 0 .. kept, ReadBegan(k)
  PROVE  k \in 0 .. kept' /\ ReadBegan(k)'
  <1>1. /\ TypeOK /\ AtFrameEnd(kept) /\ pc = "frames" /\ pc' = "frames" /\ kept' = e
        /\ cloud' = cloud /\ from' = from
    BY DEF PipeInv, Collect, Inject, Take
  <1>2. kept < e /\ e \in Nat /\ kept \in Nat
    BY <1>1, FrameEndFacts, SentIsNat DEF TypeOK
  <1>3. ASSUME ~withheld' PROVE FlattenSeq(forward') = Stretch(k + 1, kept' + 1)
    <2>1. Collect(e) /\ ~withheld
      BY <1>3 DEF Collect, Inject
    <2>2. PICK x \in Seq(1 .. Sent) : x = Stretch(kept + 1, e + 1)
      BY <1>1, FrameTaken
    <2>3. forward' = Append(forward, x) /\ forward \in Seq(Seq(1 .. Sent))
      BY <1>1, <2>1, <2>2 DEF Collect, TypeOK
    <2>4. FlattenSeq(forward') = FlattenSeq(forward) \o x
      BY <2>3, FlattenAppend
    <2>5. FlattenSeq(forward) = Stretch(k + 1, kept + 1)
      BY <1>1, <2>1 DEF ReadBegan
    <2> QED BY <1>1, <2>2, <2>4, <2>5, FrameTaken
  <1>4. injected' = {} => injected = {}
    BY DEF Collect, Inject
  <1> QED BY <1>1, <1>2, <1>3, <1>4 DEF ReadBegan, AtFrameEnd, FrameLength

\* A failed write hands frames of its payload to the hooks again, nothing else.
LEMMA FailureRepeats ==
  ASSUME PipeInv, FlushFails
  PROVE  EachFrameHandledOnce'
  <1>1. /\ TypeOK /\ EachFrameHandledOnce /\ pc = "frames" /\ pc' = "ended" /\ forward' = forward /\ kept' = kept
    BY DEF PipeInv, FlushFails
  <1>2. PICK n \in 0 .. Len(forward) : handled' = handled \o SubSeq(forward, 1, n)
    BY DEF FlushFails
  <1>3. /\ FlattenSeq(handled) = Stretch(1, kept + 1)
        /\ \A i \in DOMAIN handled : OneEndTag(handled[i])
    BY <1>1, AllHandled
  <1>4. PICK U : U = Seq(1 .. Sent)
    OBVIOUS
  <1>5. /\ forward \in Seq(U) /\ handled \in Seq(U) /\ Len(forward) \in Nat /\ Len(handled) \in Nat
        /\ DOMAIN forward = 1 .. Len(forward) /\ DOMAIN handled = 1 .. Len(handled)
    BY <1>1, <1>4 DEF TypeOK
  <1>6. PICK y : y = SubSeq(forward, 1, n)
    OBVIOUS
  <1>7. y \in Seq(U) /\ Len(y) = n /\ \A i \in 1 .. n : y[i] = forward[i]
    BY <1>5, <1>6
  <1>8. /\ handled' = handled \o y /\ handled' \in Seq(U) /\ Len(handled') = Len(handled) + n
        /\ \A i \in 1 .. Len(handled) : handled'[i] = handled[i]
        /\ \A i \in 1 .. n : handled'[Len(handled) + i] = y[i]
    <2>1. handled' = handled \o y
      BY <1>2, <1>6
    <2>2. /\ handled \o y \in Seq(U) /\ Len(handled \o y) = Len(handled) + Len(y)
          /\ \A i \in 1 .. Len(handled) + Len(y) :
                (handled \o y)[i] = IF i <= Len(handled) THEN handled[i] ELSE y[i - Len(handled)]
      BY <1>5, <1>7, ConcatProperties
    <2>3. ASSUME NEW i \in 1 .. n PROVE handled'[Len(handled) + i] = y[i]
      <3>1. PICK j : j = Len(handled) + i
        OBVIOUS
      <3>2. j \in 1 .. Len(handled) + Len(y) /\ ~(j <= Len(handled)) /\ j - Len(handled) = i
        BY <1>5, <1>7, <3>1
      <3> QED BY <2>1, <2>2, <3>1, <3>2
    <2>4. \A i \in 1 .. Len(handled) : i \in 1 .. Len(handled) + Len(y) /\ i <= Len(handled)
      BY <1>5, <1>7
    <2> QED BY <1>7, <2>1, <2>2, <2>3, <2>4
  <1>9. SubSeq(handled', 1, Len(handled)) = handled
    <2>1. PICK z : z = SubSeq(handled', 1, Len(handled))
      OBVIOUS
    <2>2. z \in Seq(U) /\ Len(z) = Len(handled) /\ \A i \in 1 .. Len(handled) : z[i] = handled'[i]
      BY <1>5, <1>8, <2>1
    <2> QED BY <1>5, <1>8, <2>1, <2>2, SeqEqual
  <1>10. SubSeq(handled', Len(handled) + 1, Len(handled')) = y
    <2>1. PICK z : z = SubSeq(handled', Len(handled) + 1, Len(handled'))
      OBVIOUS
    <2>2. z \in Seq(U) /\ Len(z) = n /\ \A i \in 1 .. n : z[i] = handled'[Len(handled) + i]
      BY <1>5, <1>8, <2>1
    <2> QED BY <1>7, <1>8, <2>1, <2>2, SeqEqual
  <1>11. IsPrefix(y, forward')
    <2>1. SubSeq(y, 1, Len(y)) = y
      BY <1>7, SubSeqFull
    <2> QED BY <1>1, <1>5, <1>6, <1>7, <2>1 DEF IsPrefix
  <1>12. /\ Len(handled) \in 0 .. Len(handled')
         /\ FlattenSeq(SubSeq(handled', 1, Len(handled))) = Stretch(1, kept' + 1)
         /\ \A i \in 1 .. Len(handled) : OneEndTag(handled'[i])
         /\ IsPrefix(SubSeq(handled', Len(handled) + 1, Len(handled')), forward')
    <2>1. Len(handled) \in 0 .. Len(handled')
      BY <1>5, <1>8
    <2>2. FlattenSeq(SubSeq(handled', 1, Len(handled))) = Stretch(1, kept' + 1)
      BY <1>1, <1>3, <1>9, Zenon
    <2>3. \A i \in 1 .. Len(handled) : OneEndTag(handled'[i])
      BY <1>3, <1>5, <1>8
    <2>4. IsPrefix(SubSeq(handled', Len(handled) + 1, Len(handled')), forward')
      BY <1>10, <1>11, Zenon
    <2> QED BY <2>1, <2>2, <2>3, <2>4, Zenon
  <1> QED BY <1>1, <1>12, Zenon DEF EachFrameHandledOnce

\* PipeInv is inductive.
LEMMA PipeStep == PipeInv /\ [Next]_vars => PipeInv'
  <1> SUFFICES ASSUME PipeInv, [Next]_vars PROVE PipeInv'
    OBVIOUS
  <1>1. TypeOK'
    BY PipeTypesStep
  <1>2. /\ TypeOK /\ AtFrameEnd(kept) /\ EachFrameHandledOnce /\ CloudInOrder
        /\ (pc = "frames" /\ injected = {} => ~withheld)
    BY DEF PipeInv
  <1>3. PICK k \in 0 .. kept : ReadBegan(k)
    BY DEF PipeInv
  <1>4. kept \in Nat /\ taken \in Nat /\ kept <= taken
    BY <1>2, SentIsNat DEF TypeOK
  <1>5. ASSUME UNCHANGED <<kept, handled, cloud, injected>>, pc # "ended"
        PROVE  EachFrameHandledOnce' /\ CloudInOrder' /\ AtFrameEnd(kept)'
    <2>1. /\ FlattenSeq(handled') = Stretch(1, kept' + 1)
          /\ \A i \in DOMAIN handled' : OneEndTag(handled'[i])
      BY <1>2, <1>5, AllHandled
    <2>2. handled' \in Seq(Seq(1 .. Sent))
      BY <1>2, <1>5 DEF TypeOK
    <2>3. EachFrameHandledOnce'
      BY <2>1, <2>2, AllHandledNext
    <2> QED BY <1>2, <1>5, <2>3 DEF CloudInOrder, AtFrameEnd
  <1>6. CASE Read
    <2>1. /\ pc = "read" /\ pc' = "frames" /\ forward' = <<>> /\ withheld' = FALSE /\ from' = taken
          /\ UNCHANGED <<polls, kept, handled, injected, cloud>>
      BY <1>6 DEF Read
    <2>2. k = kept
      BY <1>3, <2>1 DEF ReadBegan
    <2>3. Stretch(k + 1, kept' + 1) = <<>>
      BY <1>4, <2>1, <2>2 DEF Stretch
    <2>4. k \in 0 .. kept' /\ ReadBegan(k)'
      BY <1>3, <1>4, <2>1, <2>2, <2>3, FlattenNothing DEF ReadBegan, AtFrameEnd
    <2> QED BY <1>1, <1>5, <2>1, <2>4 DEF PipeInv
  <1>7. CASE BoxEnds
    <2>1. /\ pc = "read" /\ pc' = "ended"
          /\ UNCHANGED <<polls, from, taken, kept, forward, withheld, handled, injected, cloud>>
      BY <1>7 DEF BoxEnds
    <2>2. k \in 0 .. kept' /\ ReadBegan(k)'
      BY <1>3, <2>1 DEF ReadBegan, AtFrameEnd
    <2> QED BY <1>1, <1>5, <2>1, <2>2 DEF PipeInv
  <1>8. ASSUME NEW e \in FrameEnds, Collect(e) \/ Inject(e) PROVE PipeInv'
    <2>1. Take(e)
      BY <1>8 DEF Collect, Inject
    <2>2. k \in 0 .. kept' /\ ReadBegan(k)'
      BY <1>3, <1>8, BeginningKept
    <2>3. pc' = "frames" /\ injected' = {} => ~withheld'
      BY <1>2, <1>8 DEF Collect, Inject, Take
    <2> QED BY <1>1, <2>1, <2>2, <2>3, TakeKeeps DEF PipeInv
  <1>9. CASE Flush
    <2>1. CloudInOrder' /\ ReadBegan(kept)'
      BY <1>9, FlushKeeps
    <2>2. /\ pc = "frames" /\ pc' = "read" /\ kept' = kept /\ handled' = handled
      BY <1>9 DEF Flush
    <2>3. EachFrameHandledOnce'
      <3>1. /\ FlattenSeq(handled') = Stretch(1, kept' + 1)
            /\ \A i \in DOMAIN handled' : OneEndTag(handled'[i])
        BY <1>2, <2>2, AllHandled
      <3> QED BY <1>1, <3>1, AllHandledNext DEF TypeOK
    <2>4. kept \in 0 .. kept' /\ ReadBegan(kept)'
      BY <1>4, <2>1, <2>2
    <2>5. AtFrameEnd(kept)'
      BY <1>2, <2>2
    <2>6. \E j \in 0 .. kept' : ReadBegan(j)'
      BY <2>1, <2>2, <2>4
    <2> QED BY <1>1, <2>1, <2>2, <2>3, <2>5, <2>6 DEF PipeInv
  <1>10. CASE FlushFails
    <2>1. /\ pc = "frames" /\ pc' = "ended"
          /\ UNCHANGED <<polls, from, taken, kept, forward, withheld, injected, cloud>>
      BY <1>10 DEF FlushFails
    <2>2. k \in 0 .. kept' /\ ReadBegan(k)'
      BY <1>3, <2>1 DEF ReadBegan, AtFrameEnd
    <2>3. CloudInOrder' /\ AtFrameEnd(kept)'
      BY <1>2, <2>1 DEF CloudInOrder, AtFrameEnd
    <2>4. EachFrameHandledOnce'
      BY <1>10, FailureRepeats
    <2> QED BY <1>1, <2>1, <2>2, <2>3, <2>4 DEF PipeInv
  <1>11. CASE UNCHANGED vars
    BY <1>11 DEF vars, PipeInv, TypeOK, AtFrameEnd, ReadBegan, EachFrameHandledOnce, CloudInOrder
  <1> QED
    BY <1>6, <1>7, <1>8, <1>9, <1>10, <1>11 DEF Next, TakeFrame

------------------------------------------------------------------------------
\* The results, for the pipe beside the pipe from the cloud.

\* Beside the ids a step of the pipes is a step of the pipe from the Box, or
\* leaves it alone.  A poll no Setting frame can be written for is collected.
LEMMA PipeStepsOfBox == [PipeNext]_<<pipeVars, idVars>> => [Next]_vars
  <1> SUFFICES ASSUME [PipeNext]_<<pipeVars, idVars>> PROVE [Next]_vars
    OBVIOUS
  <1>1. CASE (Read \/ BoxEnds \/ Flush \/ FlushFails) /\ UNCHANGED idVars
    BY <1>1 DEF Next
  <1>2. ASSUME NEW e \in FrameEnds, CollectNotes(e) \/ InjectDraws(e) \/ InjectFails(e)
        PROVE  Next
    <2>1. Collect(e) \/ Inject(e)
      BY <1>2 DEF CollectNotes, InjectDraws, InjectFails
    <2> QED
      BY <2>1 DEF Next, TakeFrame
  <1>3. CASE CloudFrame \/ HookInjects \/ UNCHANGED <<pipeVars, idVars>>
    BY <1>3 DEF CloudFrame, HookInjects, pipeVars
  <1> QED
    BY <1>1, <1>2, <1>3 DEF PipeNext

\* However the stream is cut into reads, what has left the buffer, what the hooks
\* were handed and what the cloud has fit together.
THEOREM PipeInvariant == PipeSpec => []PipeInv
  <1>1. PipeInit => PipeInv
    BY PipeStart DEF PipeInit
  <1>2. PipeInv /\ [PipeNext]_<<pipeVars, idVars>> => PipeInv'
    BY PipeStep, PipeStepsOfBox
  <1> QED
    BY <1>1, <1>2, PTL DEF PipeSpec

\* The local state of the pipe and the counters of ids keep their types.
THEOREM PipeTypes == PipeSpec => []PipeTypeOK
  <1>1. PipeInv /\ IdTypeOK => PipeTypeOK
    BY DEF PipeInv, PipeTypeOK
  <1> QED
    BY <1>1, PipeInvariant, IdTypes, PTL

\* However TCP cuts the stream, the twin hooks and the MQTT side are handed every
\* frame once and in order; only a failed write has frames handled again, and
\* only those it was to write.
THEOREM FramesHandledOnce == PipeSpec => []EachFrameHandledOnce
  <1>1. PipeInv => EachFrameHandledOnce
    BY DEF PipeInv
  <1> QED
    BY <1>1, PipeInvariant, PTL

\* The cloud never sees a part of a frame after a later frame.
THEOREM CloudSeesFramesInOrder == PipeSpec => []CloudInOrder
  <1>1. PipeInv => CloudInOrder
    BY DEF PipeInv
  <1> QED
    BY <1>1, PipeInvariant, PTL

\* As long as no poll is answered by the proxy, the cloud has all that has left
\* the buffer whenever the pipe waits for data.
THEOREM NothingWithheldOtherwise == PipeSpec => []ForwardedUnlessInjected
  <1>1. PipeInv => ForwardedUnlessInjected
    <2> SUFFICES ASSUME PipeInv, pc = "read", injected = {}
                 PROVE  1 .. taken \subseteq ToSet(cloud) \cup (kept + 1 .. taken)
      BY DEF ForwardedUnlessInjected
    <2>1. PICK k \in 0 .. kept : ReadBegan(k)
      BY DEF PipeInv
    <2>2. 1 .. kept \subseteq ToSet(cloud)
      BY <2>1 DEF ReadBegan
    <2>3. kept \in Nat /\ taken \in Nat
      BY SentIsNat DEF PipeInv, TypeOK
    <2> QED
      BY <2>2, <2>3
  <1> QED
    BY <1>1, PipeInvariant, PTL
=============================================================================
