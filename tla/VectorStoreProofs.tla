---------------------------- MODULE VectorStoreProofs ----------------------------
(***************************************************************************)
(* Proofs about VectorStore and its index Hnsw, for every value of their   *)
(* constants.                                                              *)
(*                                                                         *)
(* VectorStore: first Picked, the operator behind SELECT and DELETE; then  *)
(* what the operators of the memory image do to an image that is Sound     *)
(* (its three maps agree and the cursor has only tombstones behind it);    *)
(* then the loop of load_all. On them rest StoreInv, which every call      *)
(* keeps whatever statement fails, and ImageInv, which holds while none    *)
(* has failed.                                                             *)
(*                                                                         *)
(* Hnsw: first its loops, one lemma for each (what begins in the set of    *)
(* turn 0 and goes from each turn's set to the next ends in the last one); *)
(* then candidates in order, and traversals, which stay where the links    *)
(* they follow stay. On them rests IndexInv, which adding a point keeps on *)
(* every layer and between any two links back to it.                       *)
(***************************************************************************)
EXTENDS VectorStore, Hnsw, SequenceTheorems, FiniteSetTheorems, WellFoundedInduction, TLAPS

--------------------------------------------------------------------------------
\* What holds at 0 and goes on from one number to the next holds up to n.
LEMMA Climbing ==
  ASSUME NEW n \in Nat, NEW T, 0 \in T, \A i \in 1 .. n : i - 1 \in T => i \in T
  PROVE  0 .. n \subseteq T
<1> DEFINE S == (0 .. n) \ T
<1> SUFFICES ASSUME S # {} PROVE FALSE
  OBVIOUS
<1>1. S \subseteq Nat
  OBVIOUS
<1>2. PICK m \in S : \A k \in S : ~ (<<k, m>> \in OpToRel(<, Nat))
  <2> HIDE DEF S
  <2>1. QED
    BY <1>1, NatLessThanWellFounded, WFMin
<1>3. \A k \in S : ~ (k < m)
  <2> HIDE DEF S
  <2>1. QED
    BY <1>1, <1>2 DEF OpToRel
<1>4. m \in 1 .. n /\ m \notin T
  OBVIOUS
<1>5. m - 1 \in 0 .. n /\ m - 1 < m
  BY <1>4
<1>6. m - 1 \in T
  BY <1>3, <1>5
<1>7. QED
  BY <1>4, <1>6

\* f is the loop of n turns over the set D that begins with first and makes turn i with
\* step[<<i, what the turn before left>>].
Loops(f, n, D, first, step) ==
  /\ f \in [0 .. n -> D]
  /\ f[0] = first
  /\ \A i \in 1 .. n : f[i] = step[<<i, f[i - 1]>>]

\* Every loop can be run to its end.
LEMMA LoopEnds ==
  ASSUME NEW n \in Nat, NEW D, NEW first \in D, NEW step \in [(1 .. n) \X D -> D]
  PROVE  \E f : Loops(f, n, D, first, step)
<1> DEFINE Steps(g, m) == g[0] = first /\ \A i \in 1 .. m : g[i] = step[<<i, g[i - 1]>>]
           Reached == {m \in 0 .. n : \E g \in [0 .. m -> D] : Steps(g, m)}
<1>1. 0 \in Reached
  <2> DEFINE g == [i \in 0 .. 0 |-> first]
  <2>1. g \in [0 .. 0 -> D] /\ Steps(g, 0)
    OBVIOUS
  <2>2. \E h \in [0 .. 0 -> D] : Steps(h, 0)
    <3> HIDE DEF Steps, g
    <3>1. QED
      BY <2>1
  <2>3. 0 \in 0 .. n
    OBVIOUS
  <2>4. QED
    <3> HIDE DEF Steps
    <3>1. QED
      BY <2>2, <2>3
<1>2. ASSUME NEW m \in 1 .. n, m - 1 \in Reached
      PROVE  m \in Reached
  <2>1. PICK f \in [0 .. m - 1 -> D] : Steps(f, m - 1)
    <3> HIDE DEF Steps
    <3>1. QED
      BY <1>2
  <2>2. m \in Nat /\ m > 0 /\ m - 1 \in 0 .. m - 1 /\ f[m - 1] \in D
    <3> HIDE DEF Steps
    <3>1. QED
      BY <2>1
  <2>3. PICK last \in D : last = step[<<m, f[m - 1]>>]
    BY <2>2
  <2> DEFINE g == [i \in 0 .. m |-> IF i = m THEN last ELSE f[i]]
  <2>4. g \in [0 .. m -> D]
    BY <2>1, <2>2
  <2>5. g[0] = first
    BY <2>1, <2>2
  <2>6. ASSUME NEW i \in 1 .. m
        PROVE  g[i] = step[<<i, g[i - 1]>>]
    <3>1. CASE i = m
      <4>1. g[i] = last /\ g[i - 1] = f[m - 1]
        BY <2>2, <3>1
      <4>2. QED
        BY <3>1, <4>1, <2>3
    <3>2. CASE i # m
      <4>1. i \in 1 .. m - 1 /\ g[i] = f[i] /\ g[i - 1] = f[i - 1]
        BY <2>2, <3>2
      <4>2. QED
        BY <4>1, <2>1
    <3>3. QED
      BY <3>1, <3>2
  <2>7. Steps(g, m)
    <3> HIDE DEF g
    <3>1. QED
      BY <2>5, <2>6
  <2>8. m \in 0 .. n
    BY <2>2
  <2>9. QED
    <3> HIDE DEF g, Steps
    <3>1. QED
      BY <2>4, <2>7, <2>8
<1>3. n \in Reached
  <2>1. 0 .. n \subseteq Reached
    <3> HIDE DEF Reached
    <3>1. QED
      BY <1>1, <1>2, Climbing
  <2>2. n \in 0 .. n
    OBVIOUS
  <2> HIDE DEF Reached
  <2>3. QED
    BY <2>1, <2>2
<1>4. QED
  BY <1>3 DEF Loops

--------------------------------------------------------------------------------
\* f lists what has been picked of s after each place.
Picks(f, S, s, ids) ==
  /\ f \in [0 .. Len(s) -> Seq(S)]
  /\ f[0] = <<>>
  /\ \A i \in 1 .. Len(s) : f[i] = IF i \in ids THEN Append(f[i - 1], s[i]) ELSE f[i - 1]
  /\ Picked(s, ids) = f[Len(s)]

LEMMA PickedPlaceByPlace ==
  ASSUME NEW S, NEW s \in Seq(S), NEW ids
  PROVE  \E f : Picks(f, S, s, ids)
<1> DEFINE n == Len(s)
           Turn(g) == g = [i \in 0 .. n |->
                             IF i = 0 THEN <<>>
                             ELSE IF i \in ids THEN Append(g[i - 1], s[i]) ELSE g[i - 1]]
           step == [p \in (1 .. n) \X Seq(S) |->
                      IF p[1] \in ids THEN Append(p[2], s[p[1]]) ELSE p[2]]
<1>1. n \in Nat /\ (\A i \in 1 .. n : s[i] \in S) /\ <<>> \in Seq(S)
  BY LenProperties, ElementOfSeq, EmptySeq
<1>2. step \in [(1 .. n) \X Seq(S) -> Seq(S)]
  <2>1. ASSUME NEW p \in (1 .. n) \X Seq(S)
        PROVE  (IF p[1] \in ids THEN Append(p[2], s[p[1]]) ELSE p[2]) \in Seq(S)
    <3>1. s[p[1]] \in S /\ p[2] \in Seq(S)
      BY <1>1
    <3>2. Append(p[2], s[p[1]]) \in Seq(S)
      BY <3>1, AppendProperties
    <3>3. QED
      BY <3>1, <3>2
  <2>2. QED
    BY <2>1
<1>3. PICK f : Loops(f, n, Seq(S), <<>>, step)
  <2> HIDE DEF n, step
  <2>1. QED
    BY <1>1, <1>2, LoopEnds
<1>4. /\ f \in [0 .. n -> Seq(S)] /\ f[0] = <<>>
      /\ \A i \in 1 .. n : f[i] = IF i \in ids THEN Append(f[i - 1], s[i]) ELSE f[i - 1]
  <2>1. f \in [0 .. n -> Seq(S)] /\ f[0] = <<>> /\ \A i \in 1 .. n : f[i] = step[<<i, f[i - 1]>>]
    <3> HIDE DEF n, step
    <3>1. QED
      BY <1>3 DEF Loops
  <2>2. ASSUME NEW i \in 1 .. n
        PROVE  f[i] = IF i \in ids THEN Append(f[i - 1], s[i]) ELSE f[i - 1]
    <3>1. i - 1 \in 0 .. n /\ f[i - 1] \in Seq(S)
      BY <1>1, <2>1
    <3>2. <<i, f[i - 1]>> \in (1 .. n) \X Seq(S)
      BY <3>1
    <3>3. QED
      BY <2>1, <3>2
  <2>3. QED
    <3> HIDE DEF n, step
    <3>1. QED
      BY <2>1, <2>2
<1>5. Turn(f)
  <2> DEFINE rhs == [i \in 0 .. n |->
                       IF i = 0 THEN <<>>
                       ELSE IF i \in ids THEN Append(f[i - 1], s[i]) ELSE f[i - 1]]
  <2>1. ASSUME NEW i \in 0 .. n
        PROVE  f[i] = rhs[i]
    <3>1. CASE i = 0
      BY <1>4, <3>1
    <3>2. CASE i # 0
      <4>1. i \in 1 .. n
        BY <1>1, <3>2
      <4>2. rhs[i] = IF i \in ids THEN Append(f[i - 1], s[i]) ELSE f[i - 1]
        BY <3>2
      <4>3. QED
        <5> HIDE DEF n, rhs
        <5>1. QED
          BY <1>4, <4>1, <4>2
    <3>3. QED
      BY <3>1, <3>2
  <2>2. f = rhs
    <3> HIDE DEF n
    <3>1. DOMAIN f = 0 .. n /\ DOMAIN rhs = 0 .. n
      BY <1>4
    <3>2. QED
      BY <2>1, <3>1, <1>4
  <2>3. QED
    BY <2>2
<1> DEFINE picked == CHOOSE g : Turn(g)
<1>6. Turn(picked)
  BY <1>5
<1>7. Picked(s, ids) = picked[n]
  BY DEF Picked
<1>8. \A i \in 0 .. n : picked[i] = f[i]
  <2> DEFINE T == {i \in 0 .. n : picked[i] = f[i]}
  <2>1. picked[0] = <<>>
        /\ \A i \in 1 .. n : picked[i] = IF i \in ids THEN Append(picked[i - 1], s[i])
                                         ELSE picked[i - 1]
    <3> HIDE DEF picked
    <3>1. 0 \in 0 .. n /\ \A i \in 1 .. n : i \in 0 .. n /\ i # 0
      BY <1>1
    <3> HIDE DEF n
    <3>2. picked = [i \in 0 .. n |->
                      IF i = 0 THEN <<>>
                      ELSE IF i \in ids THEN Append(picked[i - 1], s[i]) ELSE picked[i - 1]]
      BY <1>6
    <3>3. picked[0] = <<>>
      BY <3>1, <3>2
    <3>4. ASSUME NEW i \in 1 .. n
          PROVE  picked[i] = IF i \in ids THEN Append(picked[i - 1], s[i]) ELSE picked[i - 1]
      BY <3>1, <3>2
    <3>5. QED
      BY <3>3, <3>4
  <2> HIDE DEF picked
  <2>2. 0 \in T
    BY <1>1, <1>4, <2>1
  <2>3. \A i \in 1 .. n : i - 1 \in T => i \in T
    BY <1>1, <1>4, <2>1
  <2>4. 0 .. n \subseteq T
    <3> HIDE DEF T, n
    <3>1. QED
      BY <1>1, <2>2, <2>3, Climbing
  <2>5. QED
    BY <2>4
<1>9. n \in 0 .. n
  BY <1>1
<1>10. QED
  <2> HIDE DEF picked
  <2>1. QED
    BY <1>4, <1>7, <1>8, <1>9 DEF Picks
--------------------------------------------------------------------------------
LEMMA PickedIsSeq ==
  ASSUME NEW S, NEW s \in Seq(S), NEW ids
  PROVE  Picked(s, ids) \in Seq(S)
<1>1. PICK f : Picks(f, S, s, ids)
  BY PickedPlaceByPlace
<1>2. Len(s) \in 0 .. Len(s)
  BY LenProperties
<1>3. QED
  BY <1>1, <1>2 DEF Picks

\* What is picked up to a place depends on nothing behind it.
LEMMA PickedUpTo ==
  ASSUME NEW S, NEW s \in Seq(S), NEW t \in Seq(S), NEW ids, NEW jds, NEW f, NEW g,
         Picks(f, S, s, ids), Picks(g, S, t, jds), NEW n \in Nat, n <= Len(s), n <= Len(t),
         \A i \in 1 .. n : (i \in ids <=> i \in jds) /\ (i \in ids => s[i] = t[i])
  PROVE  f[n] = g[n]
<1> DEFINE T == {i \in 0 .. n : f[i] = g[i]}
<1>1. Len(s) \in Nat /\ Len(t) \in Nat
  BY LenProperties
<1>2. 0 \in T
  BY DEF Picks
<1>3. ASSUME NEW i \in 1 .. n, i - 1 \in T
      PROVE  i \in T
  <2>1. i \in 1 .. Len(s) /\ i \in 1 .. Len(t) /\ i \in 0 .. n
    BY <1>1
  <2>2. /\ f[i] = IF i \in ids THEN Append(f[i - 1], s[i]) ELSE f[i - 1]
        /\ g[i] = IF i \in jds THEN Append(g[i - 1], t[i]) ELSE g[i - 1]
    BY <2>1 DEF Picks
  <2>3. f[i - 1] = g[i - 1]
    BY <1>3
  <2>4. QED
    BY <2>1, <2>2, <2>3
<1>4. 0 .. n \subseteq T
  <2> HIDE DEF T
  <2>1. QED
    BY <1>2, <1>3, Climbing
<1>5. QED
  BY <1>4

LEMMA PickedSame ==
  ASSUME NEW S, NEW s \in Seq(S), NEW t \in Seq(S), NEW ids, NEW jds, Len(s) = Len(t),
         \A i \in 1 .. Len(s) : (i \in ids <=> i \in jds) /\ (i \in ids => s[i] = t[i])
  PROVE  Picked(s, ids) = Picked(t, jds)
<1>1. PICK f, g : Picks(f, S, s, ids) /\ Picks(g, S, t, jds)
  BY PickedPlaceByPlace
<1>2. PICK n \in Nat : n = Len(s) /\ n = Len(t)
  BY LenProperties
<1>3. f[n] = g[n]
  BY <1>1, <1>2, PickedUpTo
<1>4. QED
  BY <1>1, <1>2, <1>3 DEF Picks

LEMMA PickedOfAppend ==
  ASSUME NEW S, NEW s \in Seq(S), NEW x \in S, NEW ids
  PROVE  Picked(Append(s, x), ids) = IF Len(s) + 1 \in ids THEN Append(Picked(s, ids), x)
                                     ELSE Picked(s, ids)
<1>1. PICK n \in Nat : n = Len(s)
  BY LenProperties
<1>2. PICK t \in Seq(S) : t = Append(s, x)
  BY AppendProperties
<1>3. Len(t) = n + 1 /\ t[n + 1] = x /\ \A i \in 1 .. n : t[i] = s[i]
  BY <1>1, <1>2, AppendProperties
<1>4. PICK f, g : Picks(f, S, s, ids) /\ Picks(g, S, t, ids)
  BY PickedPlaceByPlace
<1>5. n <= Len(s) /\ n <= Len(t)
  BY <1>1, <1>3
<1>6. \A i \in 1 .. n : s[i] = t[i]
  BY <1>3
<1>7. f[n] = g[n]
  BY <1>4, <1>5, <1>6, PickedUpTo
<1>8. n + 1 \in 1 .. Len(t) /\ n + 1 - 1 = n
  BY <1>3
<1>9. g[n + 1] = IF n + 1 \in ids THEN Append(g[n], x) ELSE g[n]
  BY <1>3, <1>4, <1>8 DEF Picks
<1>10. Picked(s, ids) = f[n] /\ Picked(t, ids) = g[n + 1]
  BY <1>1, <1>3, <1>4 DEF Picks
<1>11. QED
  BY <1>1, <1>2, <1>7, <1>9, <1>10

LEMMA PickedOfEmpty ==
  ASSUME NEW ids
  PROVE  Picked(<<>>, ids) = <<>>
<1>1. <<>> \in Seq({}) /\ Len(<<>>) = 0
  BY EmptySeq
<1>2. PICK f : Picks(f, {}, <<>>, ids)
  BY <1>1, PickedPlaceByPlace
<1>3. QED
  BY <1>1, <1>2 DEF Picks

\* As many are picked as there are places.
LEMMA PickedLength ==
  ASSUME NEW S, NEW s \in Seq(S), NEW ids \in SUBSET (1 .. Len(s))
  PROVE  Len(Picked(s, ids)) = Cardinality(ids) /\ Cardinality(ids) <= Len(s)
<1>1. PICK n \in Nat : n = Len(s)
  BY LenProperties
<1>2. PICK f : Picks(f, S, s, ids)
  BY PickedPlaceByPlace
<1> DEFINE Upto(i) == ids \cap (1 .. i)
           T == {i \in 0 .. n : Len(f[i]) = Cardinality(Upto(i))}
<1>3. \A i \in 0 .. n : IsFiniteSet(Upto(i)) /\ Cardinality(Upto(i)) \in Nat
                        /\ Cardinality(Upto(i)) <= i
  <2> SUFFICES ASSUME NEW i \in 0 .. n
               PROVE  IsFiniteSet(Upto(i)) /\ Cardinality(Upto(i)) \in Nat
                      /\ Cardinality(Upto(i)) <= i
    OBVIOUS
  <2>1. IsFiniteSet(1 .. i) /\ Cardinality(1 .. i) = i
    <3>1. 1 \in Int /\ i \in Int /\ (IF 1 > i THEN 0 ELSE i - 1 + 1) = i
      OBVIOUS
    <3>2. QED
      BY <3>1, FS_Interval
  <2>2. Upto(i) \subseteq 1 .. i
    OBVIOUS
  <2> HIDE DEF Upto
  <2>3. QED
    BY <2>1, <2>2, FS_Subset, FS_CardinalityType
<1>4. 0 \in T
  <2>1. Upto(0) = {}
    OBVIOUS
  <2>2. Cardinality({}) = 0
    BY FS_EmptySet
  <2>3. Len(f[0]) = 0
    BY <1>2, EmptySeq DEF Picks
  <2>4. 0 \in 0 .. n
    OBVIOUS
  <2> HIDE DEF Upto
  <2>5. QED
    BY <2>1, <2>2, <2>3, <2>4
<1>5. ASSUME NEW i \in 1 .. n, i - 1 \in T
      PROVE  i \in T
  <2>1. /\ f[i] = IF i \in ids THEN Append(f[i - 1], s[i]) ELSE f[i - 1]
        /\ f[i - 1] \in Seq(S) /\ s[i] \in S
    <3>1. i - 1 \in 0 .. Len(s) /\ i \in 1 .. Len(s)
      BY <1>1
    <3>2. QED
      BY <1>2, <3>1, ElementOfSeq DEF Picks
  <2>2. Len(f[i - 1]) = Cardinality(Upto(i - 1)) /\ i \in 0 .. n /\ i - 1 \in 0 .. n
    BY <1>5
  <2>3. IsFiniteSet(Upto(i - 1)) /\ i \notin Upto(i - 1) /\ Cardinality(Upto(i - 1)) \in Nat
    <3>1. i \notin Upto(i - 1)
      OBVIOUS
    <3> HIDE DEF Upto
    <3>2. QED
      BY <1>3, <2>2, <3>1
  <2>4. CASE i \in ids
    <3>1. Upto(i) = Upto(i - 1) \cup {i}
      BY <2>4
    <3>2. Len(f[i]) = Len(f[i - 1]) + 1
      BY <2>1, <2>4, AppendProperties
    <3> HIDE DEF Upto
    <3>3. Cardinality(Upto(i)) = Cardinality(Upto(i - 1)) + 1
      BY <2>3, <3>1, FS_AddElement
    <3>4. QED
      BY <2>2, <3>2, <3>3
  <2>5. CASE i \notin ids
    <3>1. Upto(i) = Upto(i - 1)
      BY <2>5
    <3> HIDE DEF Upto
    <3>2. QED
      BY <2>1, <2>2, <2>5, <3>1
  <2>6. QED
    BY <2>4, <2>5
<1>6. 0 .. n \subseteq T
  <2> HIDE DEF T
  <2>1. QED
    BY <1>4, <1>5, Climbing
<1>7. n \in T /\ Upto(n) = ids /\ n \in 0 .. n
  <2>1. Upto(n) = ids
    BY <1>1
  <2>2. n \in 0 .. n
    OBVIOUS
  <2> HIDE DEF T, Upto
  <2>3. QED
    BY <1>6, <2>1, <2>2
<1>8. Picked(s, ids) = f[n]
  BY <1>1, <1>2 DEF Picks
<1>9. QED
  <2>1. Len(f[n]) = Cardinality(Upto(n))
    BY <1>7
  <2> HIDE DEF Upto
  <2>2. Cardinality(ids) <= n
    BY <1>3, <1>7
  <2>3. QED
    BY <1>1, <1>7, <1>8, <2>1, <2>2

\* The places from a + 1 on.
LEMMA PickedFrom ==
  ASSUME NEW S, NEW s \in Seq(S), NEW a \in Nat, a <= Len(s)
  PROVE  Picked(s, a + 1 .. Len(s)) = SubSeq(s, a + 1, Len(s))
<1>1. PICK n \in Nat : n = Len(s)
  BY LenProperties
<1>2. PICK ids : ids = a + 1 .. n
  OBVIOUS
<1>3. PICK f : Picks(f, S, s, ids)
  BY PickedPlaceByPlace
<1> DEFINE T == {i \in 0 .. n : f[i] = SubSeq(s, a + 1, i)}
<1>4. ASSUME NEW i \in 0 .. n
      PROVE  /\ SubSeq(s, a + 1, i) \in Seq(S)
             /\ Len(SubSeq(s, a + 1, i)) = IF a + 1 <= i THEN i - a ELSE 0
             /\ \A k \in 1 .. i - a : SubSeq(s, a + 1, i)[k] = s[a + k]
  <2>1. \A k \in a + 1 .. i : s[k] \in S
    <3>1. \A k \in a + 1 .. i : k \in 1 .. Len(s)
      BY <1>1
    <3>2. QED
      BY <3>1, ElementOfSeq
  <2>2. a + 1 \in Int /\ i \in Int
    OBVIOUS
  <2>3. /\ SubSeq(s, a + 1, i) \in Seq(S)
        /\ Len(SubSeq(s, a + 1, i)) = IF a + 1 <= i THEN i - (a + 1) + 1 ELSE 0
        /\ \A k \in 1 .. i - (a + 1) + 1 : SubSeq(s, a + 1, i)[k] = s[a + 1 + k - 1]
    BY <2>1, <2>2, SubSeqProperties
  <2>4. i - (a + 1) + 1 = i - a /\ \A k \in 1 .. i - a : a + 1 + k - 1 = a + k
    OBVIOUS
  <2>5. QED
    BY <2>3, <2>4
<1>5. ASSUME NEW i \in 0 .. n, i <= a
      PROVE  SubSeq(s, a + 1, i) = <<>>
  <2>1. PICK t \in Seq(S) : t = SubSeq(s, a + 1, i)
    BY <1>4
  <2>2. Len(t) = 0
    BY <1>4, <1>5, <2>1
  <2>3. QED
    BY <2>1, <2>2, EmptySeq
<1>6. 0 \in T
  <2>1. 0 \in 0 .. n /\ 0 <= a
    OBVIOUS
  <2>2. SubSeq(s, a + 1, 0) = <<>>
    BY <1>5, <2>1
  <2>3. QED
    BY <1>3, <2>1, <2>2 DEF Picks
<1>7. ASSUME NEW i \in 1 .. n, i - 1 \in T
      PROVE  i \in T
  <2>1. i \in 0 .. n /\ i - 1 \in 0 .. n /\ f[i - 1] = SubSeq(s, a + 1, i - 1)
    BY <1>7
  <2>2. f[i] = IF i \in ids THEN Append(f[i - 1], s[i]) ELSE f[i - 1]
    BY <1>1, <1>3 DEF Picks
  <2>3. CASE i <= a
    <3>1. i \notin ids /\ i - 1 <= a
      BY <1>2, <2>3
    <3>2. SubSeq(s, a + 1, i) = <<>> /\ SubSeq(s, a + 1, i - 1) = <<>>
      BY <1>5, <2>1, <2>3, <3>1
    <3>3. QED
      BY <2>1, <2>2, <3>1, <3>2
  <2>4. CASE ~ (i <= a)
    <3>1. i \in ids
      BY <1>2, <2>4
    <3>2. PICK t \in Seq(S), u \in Seq(S) : t = SubSeq(s, a + 1, i - 1) /\ u = SubSeq(s, a + 1, i)
      BY <1>4, <2>1
    <3>3. Len(t) = i - 1 - a /\ \A k \in 1 .. i - 1 - a : t[k] = s[a + k]
      BY <1>4, <2>1, <2>4, <3>2
    <3>4. Len(u) = i - a /\ \A k \in 1 .. i - a : u[k] = s[a + k]
      BY <1>4, <2>1, <2>4, <3>2
    <3>5. s[i] \in S
      BY <1>1, ElementOfSeq
    <3>6. PICK w \in Seq(S) : w = Append(t, s[i])
      BY <3>5, AppendProperties
    <3>7. Len(w) = i - a /\ w[i - a] = s[i] /\ \A k \in 1 .. i - 1 - a : w[k] = t[k]
      BY <3>3, <3>5, <3>6, AppendProperties
    <3>8. \A k \in 1 .. i - a : w[k] = u[k]
      <4>1. ASSUME NEW k \in 1 .. i - a PROVE w[k] = u[k]
        <5>1. CASE k = i - a
          BY <2>4, <3>4, <3>7, <5>1
        <5>2. CASE k # i - a
          <6>1. k \in 1 .. i - 1 - a
            BY <2>4, <5>2
          <6>2. QED
            BY <3>3, <3>4, <3>7, <6>1
        <5>3. QED
          BY <5>1, <5>2
      <4>2. QED
        BY <4>1
    <3>9. w = u
      BY <3>4, <3>7, <3>8, SeqEqual
    <3>10. QED
      BY <2>1, <2>2, <3>1, <3>2, <3>6, <3>9
  <2>5. QED
    BY <2>3, <2>4
<1>8. 0 .. n \subseteq T
  <2> HIDE DEF T
  <2>1. QED
    BY <1>6, <1>7, Climbing
<1>9. n \in T
  BY <1>8
<1>10. QED
  BY <1>1, <1>2, <1>3, <1>9 DEF Picks
--------------------------------------------------------------------------------
\* No log id has two rows.
Distinct(table) == \A i, j \in 1 .. Len(table) : table[i].log = table[j].log => i = j

\* Every picked row is one of those at ids, and if those have log ids of their own, then
\* so have the picked ones.
LEMMA PickedRows ==
  ASSUME NEW S, NEW s \in Seq(S), NEW ids
  PROVE  /\ \A k \in 1 .. Len(Picked(s, ids)) :
              \E i \in 1 .. Len(s) : i \in ids /\ Picked(s, ids)[k] = s[i]
         /\ (\A i, j \in ids \cap (1 .. Len(s)) : s[i].log = s[j].log => i = j)
              => Distinct(Picked(s, ids))
<1>1. PICK n \in Nat : n = Len(s)
  BY LenProperties
<1>2. PICK f : Picks(f, S, s, ids)
  BY PickedPlaceByPlace
<1> DEFINE Own == \A i, j \in ids \cap (1 .. n) : s[i].log = s[j].log => i = j
           From(m) == \A k \in 1 .. Len(f[m]) : \E i \in 1 .. m : i \in ids /\ f[m][k] = s[i]
           T == {m \in 0 .. n : From(m) /\ (Own => Distinct(f[m]))}
<1>3. 0 \in T
  <2>1. Len(f[0]) = 0
    BY <1>2, EmptySeq DEF Picks
  <2>2. From(0) /\ Distinct(f[0]) /\ 0 \in 0 .. n
    BY <2>1 DEF Distinct
  <2> HIDE DEF From, Own
  <2>3. QED
    BY <2>2
<1>4. ASSUME NEW m \in 1 .. n, m - 1 \in T
      PROVE  m \in T
  <2>1. From(m - 1) /\ (Own => Distinct(f[m - 1])) /\ m \in 0 .. n /\ m - 1 \in 0 .. n
    <3> HIDE DEF From, Own
    <3>1. QED
      BY <1>4
  <2>2. /\ f[m] = IF m \in ids THEN Append(f[m - 1], s[m]) ELSE f[m - 1]
        /\ f[m - 1] \in Seq(S) /\ s[m] \in S
    <3>1. m - 1 \in 0 .. Len(s) /\ m \in 1 .. Len(s)
      BY <1>1
    <3>2. QED
      BY <1>2, <3>1, ElementOfSeq DEF Picks
  <2>3. CASE m \notin ids
    <3>1. f[m] = f[m - 1]
      BY <2>2, <2>3
    <3>2. From(m)
      <4>1. \A i \in 1 .. m - 1 : i \in 1 .. m
        OBVIOUS
      <4>2. QED
        BY <2>1, <3>1, <4>1
    <3>3. QED
      <4> HIDE DEF From, Own
      <4>1. QED
        BY <2>1, <3>1, <3>2
  <2>4. CASE m \in ids
    <3>1. PICK t \in Seq(S) : t = f[m - 1]
      BY <2>2
    <3>2. PICK l \in Nat : l = Len(t)
      BY <3>1, LenProperties
    <3>3. PICK u \in Seq(S) : u = Append(t, s[m]) /\ u = f[m]
      BY <2>2, <2>4, <3>1, AppendProperties
    <3>4. Len(u) = l + 1 /\ u[l + 1] = s[m] /\ \A k \in 1 .. l : u[k] = t[k]
      <4>1. PICK x \in S : x = s[m]
        BY <2>2
      <4>2. u = Append(t, x)
        BY <3>3, <4>1
      <4>3. QED
        BY <3>2, <4>1, <4>2, AppendProperties
    <3>5. \A k \in 1 .. l : \E i \in 1 .. m - 1 : i \in ids /\ t[k] = s[i]
      BY <2>1, <3>1, <3>2
    <3>6. From(m)
      <4>1. ASSUME NEW k \in 1 .. l + 1
            PROVE  \E i \in 1 .. m : i \in ids /\ u[k] = s[i]
        <5>1. CASE k = l + 1
          BY <2>4, <3>4, <5>1
        <5>2. CASE k # l + 1
          <6>1. k \in 1 .. l
            BY <5>2
          <6>2. PICK i \in 1 .. m - 1 : i \in ids /\ t[k] = s[i]
            BY <3>5, <6>1
          <6>3. i \in 1 .. m /\ u[k] = s[i]
            BY <3>4, <6>1, <6>2
          <6>4. QED
            BY <6>2, <6>3
        <5>3. QED
          BY <5>1, <5>2
      <4>2. QED
        BY <3>3, <3>4, <4>1
    <3>7. ASSUME Own
          PROVE  Distinct(u)
      <4>1. \A i, j \in 1 .. l : t[i].log = t[j].log => i = j
        BY <2>1, <3>1, <3>2, <3>7 DEF Distinct
      <4>2. \A k \in 1 .. l : t[k].log # s[m].log
        <5> SUFFICES ASSUME NEW k \in 1 .. l, t[k].log = s[m].log
                     PROVE  FALSE
          OBVIOUS
        <5>1. PICK i \in 1 .. m - 1 : i \in ids /\ t[k] = s[i]
          BY <3>5
        <5>2. i \in 1 .. n /\ m \in 1 .. n /\ i # m /\ s[i].log = s[m].log
          BY <5>1
        <5>3. QED
          BY <2>4, <3>7, <5>1, <5>2
      <4>3. ASSUME NEW i \in 1 .. l + 1, NEW j \in 1 .. l + 1, u[i].log = u[j].log
            PROVE  i = j
        <5>1. CASE i = l + 1 /\ j = l + 1
          BY <5>1
        <5>2. CASE i \in 1 .. l /\ j = l + 1
          BY <3>4, <4>2, <4>3, <5>2
        <5>3. CASE j \in 1 .. l /\ i = l + 1
          BY <3>4, <4>2, <4>3, <5>3
        <5>4. CASE j \in 1 .. l /\ i \in 1 .. l
          BY <3>4, <4>1, <4>3, <5>4
        <5>5. QED
          BY <5>1, <5>2, <5>3, <5>4
      <4>4. QED
        BY <3>4, <4>3 DEF Distinct
    <3>8. QED
      <4> HIDE DEF From, Own
      <4>1. QED
        BY <2>1, <3>3, <3>6, <3>7
  <2>5. QED
    BY <2>3, <2>4
<1>5. 0 .. n \subseteq T
  <2> HIDE DEF T
  <2>1. QED
    BY <1>3, <1>4, Climbing
<1>6. From(n) /\ (Own => Distinct(f[n]))
  <2> HIDE DEF From, Own
  <2>1. n \in 0 .. n
    OBVIOUS
  <2>2. QED
    BY <1>5, <2>1
<1>7. Picked(s, ids) = f[n]
  BY <1>1, <1>2 DEF Picks
<1>8. QED
  BY <1>1, <1>6, <1>7

\* To delete rows of what was picked is to pick less.
LEMMA DeletePicked ==
  ASSUME NEW S, NEW s \in Seq(S), NEW ids, NEW logs
  PROVE  DeleteRows(Picked(s, ids), logs) = Picked(s, {i \in ids : s[i].log \notin logs})
<1>1. PICK n \in Nat : n = Len(s)
  BY LenProperties
<1>2. PICK less : less = {i \in ids : s[i].log \notin logs}
  OBVIOUS
<1>3. PICK f, g : Picks(f, S, s, ids) /\ Picks(g, S, s, less)
  BY PickedPlaceByPlace
<1> DEFINE T == {m \in 0 .. n : DeleteRows(f[m], logs) = g[m]}
<1>4. 0 \in T
  <2>1. f[0] = <<>> /\ g[0] = <<>>
    BY <1>3 DEF Picks
  <2>2. DeleteRows(<<>>, logs) = <<>>
    BY PickedOfEmpty DEF DeleteRows
  <2>3. QED
    BY <2>1, <2>2
<1>5. ASSUME NEW m \in 1 .. n, m - 1 \in T
      PROVE  m \in T
  <2>1. DeleteRows(f[m - 1], logs) = g[m - 1] /\ m \in 0 .. n
    BY <1>5
  <2>2. /\ f[m] = IF m \in ids THEN Append(f[m - 1], s[m]) ELSE f[m - 1]
        /\ g[m] = IF m \in less THEN Append(g[m - 1], s[m]) ELSE g[m - 1]
        /\ f[m - 1] \in Seq(S) /\ s[m] \in S
    <3>1. m - 1 \in 0 .. Len(s) /\ m \in 1 .. Len(s)
      BY <1>1
    <3>2. QED
      BY <1>3, <3>1, ElementOfSeq DEF Picks
  <2>3. CASE m \notin ids
    BY <1>2, <2>1, <2>2, <2>3
  <2>4. CASE m \in ids
    <3>1. PICK t \in Seq(S) : t = f[m - 1]
      BY <2>2
    <3>2. PICK u \in Seq(S) : u = Append(t, s[m]) /\ u = f[m]
      BY <2>2, <2>4, <3>1, AppendProperties
    <3>3. PICK l \in Nat : l = Len(t)
      BY LenProperties
    <3>4. Len(u) = l + 1 /\ u[l + 1] = s[m] /\ \A k \in 1 .. l : u[k] = t[k]
      <4>1. PICK x \in S : x = s[m]
        BY <2>2
      <4>2. u = Append(t, x)
        BY <3>2, <4>1
      <4>3. QED
        BY <3>3, <4>1, <4>2, AppendProperties
    <3>5. PICK ks, js : /\ ks = {k \in DOMAIN u : u[k].log \notin logs}
                        /\ js = {k \in DOMAIN t : t[k].log \notin logs}
      OBVIOUS
    <3>6. DOMAIN u = 1 .. l + 1 /\ DOMAIN t = 1 .. l
      BY <3>3, <3>4, LenProperties
    <3>7. Picked(u, ks) = IF l + 1 \in ks THEN Append(Picked(t, ks), s[m]) ELSE Picked(t, ks)
      <4>1. PICK x \in S : x = s[m]
        BY <2>2
      <4>2. u = Append(t, x)
        BY <3>2, <4>1
      <4>3. Picked(Append(t, x), ks) = IF Len(t) + 1 \in ks THEN Append(Picked(t, ks), x)
                                       ELSE Picked(t, ks)
        BY PickedOfAppend
      <4>4. QED
        BY <3>3, <4>1, <4>2, <4>3
    <3>8. Picked(t, ks) = Picked(t, js)
      <4>1. \A k \in 1 .. Len(t) : k \in ks <=> k \in js
        BY <3>3, <3>4, <3>5, <3>6
      <4>2. QED
        BY <4>1, PickedSame
    <3>9. l + 1 \in ks <=> m \in less
      BY <1>2, <2>4, <3>4, <3>5, <3>6
    <3>10. Picked(t, js) = g[m - 1] /\ DeleteRows(u, logs) = Picked(u, ks)
      BY <2>1, <3>1, <3>5 DEF DeleteRows
    <3>11. QED
      BY <2>1, <2>2, <3>2, <3>7, <3>8, <3>9, <3>10
  <2>5. QED
    BY <2>3, <2>4
<1>6. 0 .. n \subseteq T
  <2> HIDE DEF T
  <2>1. QED
    BY <1>4, <1>5, Climbing
<1>7. n \in T
  BY <1>6
<1>8. QED
  BY <1>1, <1>2, <1>3, <1>7 DEF Picks

\* The rows that are not deleted.
LEMMA DeletedRows ==
  ASSUME NEW S, NEW table \in Seq(S), NEW logs
  PROVE  /\ DeleteRows(table, logs) \in Seq(S)
         /\ Len(DeleteRows(table, logs)) <= Len(table)
         /\ \A k \in 1 .. Len(DeleteRows(table, logs)) :
              /\ DeleteRows(table, logs)[k].log \notin logs
              /\ \E i \in 1 .. Len(table) : DeleteRows(table, logs)[k] = table[i]
         /\ Distinct(table) => Distinct(DeleteRows(table, logs))
<1>1. PICK ids : ids = {i \in DOMAIN table : table[i].log \notin logs}
  OBVIOUS
<1>2. DeleteRows(table, logs) = Picked(table, ids)
  BY <1>1 DEF DeleteRows
<1>3. PICK t \in Seq(S) : t = Picked(table, ids)
  BY PickedIsSeq
<1>4. ids \subseteq 1 .. Len(table)
  BY <1>1, LenProperties
<1>5. Len(t) <= Len(table)
  BY <1>3, <1>4, PickedLength
<1>6. \A k \in 1 .. Len(t) : \E i \in 1 .. Len(table) : i \in ids /\ t[k] = table[i]
  BY <1>3, PickedRows
<1>7. Distinct(table) => Distinct(t)
  <2> SUFFICES ASSUME Distinct(table) PROVE Distinct(t)
    OBVIOUS
  <2>1. \A i, j \in ids \cap (1 .. Len(table)) : table[i].log = table[j].log => i = j
    BY DEF Distinct
  <2>2. QED
    BY <1>3, <2>1, PickedRows
<1>8. QED
  BY <1>1, <1>2, <1>3, <1>5, <1>6, <1>7

\* No row is deleted.
LEMMA NothingDeleted ==
  ASSUME NEW S, NEW table \in Seq(S), NEW logs,
         \A i \in 1 .. Len(table) : table[i].log \notin logs
  PROVE  DeleteRows(table, logs) = table
<1>1. PICK n \in Nat : n = Len(table)
  BY LenProperties
<1>2. DOMAIN table = 1 .. n
  BY <1>1, LenProperties
<1>3. {i \in DOMAIN table : table[i].log \notin logs} = 0 + 1 .. n
  BY <1>1, <1>2
<1>4. Picked(table, 0 + 1 .. n) = SubSeq(table, 0 + 1, n)
  BY <1>1, PickedFrom
<1>5. SubSeq(table, 0 + 1, n) = table
  <2>1. \A i \in 1 .. n : table[i] \in S
    BY <1>1, ElementOfSeq
  <2>2. 1 \in Int /\ n \in Int /\ 0 + 1 = 1
    OBVIOUS
  <2>3. PICK t \in Seq(S) : t = SubSeq(table, 1, n)
    <3>1. SubSeq(table, 1, n) \in Seq(S)
      BY <2>1, <2>2, SubSeqProperties
    <3>2. QED
      BY <3>1
  <2>4. /\ Len(t) = IF 1 <= n THEN n - 1 + 1 ELSE 0
        /\ \A i \in 1 .. n - 1 + 1 : t[i] = table[1 + i - 1]
    BY <2>1, <2>2, <2>3, SubSeqProperties
  <2>5. Len(t) = n /\ \A i \in 1 .. n : t[i] = table[i]
    <3>1. Len(t) = n /\ n - 1 + 1 = n /\ \A i \in 1 .. n : 1 + i - 1 = i
      BY <2>4
    <3>2. QED
      BY <2>4, <3>1
  <2>6. t = table
    BY <1>1, <2>3, <2>5, SeqEqual
  <2>7. QED
    BY <2>2, <2>3, <2>6
<1>6. QED
  BY <1>3, <1>4, <1>5 DEF DeleteRows
--------------------------------------------------------------------------------
\* The memory image.
Mem == [id_to_log : Seq(Log \cup {None}), log_to_id : SUBSET (Log \X Nat), vec : Seq(Vec),
        deleted : SUBSET Nat, dim : Nat, trim_cursor : Nat]

Dims == {0, ConfigDim} \cup {DimOf[v] : v \in Vec}

\* The points with a log id.
Live(m) == {id \in 1 .. Len(m.id_to_log) : m.id_to_log[id] # None}

\* The maps agree and the cursor has nothing alive behind it.
Sound(m) ==
  /\ m \in Mem
  /\ Len(m.id_to_log) <= MaxElements
  /\ Len(m.vec) = Len(m.id_to_log)
  /\ m.dim \in Dims
  /\ m.deleted = (1 .. Len(m.id_to_log)) \ Live(m)
  /\ m.log_to_id = {<<m.id_to_log[id], id>> : id \in Live(m)}
  /\ \A i, j \in Live(m) : m.id_to_log[i] = m.id_to_log[j] => i = j
  /\ m.trim_cursor \in 1 .. Len(m.id_to_log) + 1
  /\ \A id \in 1 .. m.trim_cursor - 1 : m.id_to_log[id] = None

LEMMA LiveLogs ==
  ASSUME NEW m, Sound(m)
  PROVE  /\ Len(m.id_to_log) \in Nat
         /\ DOMAIN m.id_to_log = 1 .. Len(m.id_to_log)
         /\ \A id \in 1 .. Len(m.id_to_log) : m.id_to_log[id] \in Log \cup {None}
         /\ \A id \in Live(m) : m.id_to_log[id] \in Log
<1>1. m.id_to_log \in Seq(Log \cup {None})
  BY DEF Sound, Mem
<1>2. QED
  BY <1>1, LenProperties, ElementOfSeq DEF Live

\* A log id has the points that bear it.
LEMMA IdsOfLog ==
  ASSUME NEW m, Sound(m), NEW l \in Log
  PROVE  IdsOf(m, l) = {id \in Live(m) : m.id_to_log[id] = l}
<1>1. m.log_to_id = {<<m.id_to_log[id], id>> : id \in Live(m)}
  BY DEF Sound
<1>2. ASSUME NEW x \in IdsOf(m, l)
      PROVE  x \in {id \in Live(m) : m.id_to_log[id] = l}
  <2>1. PICK e \in m.log_to_id : e[1] = l /\ e[2] = x
    BY <1>2 DEF IdsOf
  <2>2. PICK id \in Live(m) : e = <<m.id_to_log[id], id>>
    BY <1>1, <2>1
  <2>3. QED
    BY <2>1, <2>2
<1>3. ASSUME NEW x \in Live(m), m.id_to_log[x] = l
      PROVE  x \in IdsOf(m, l)
  <2>1. <<l, x>> \in m.log_to_id
    BY <1>1, <1>3
  <2>2. PICK e : e = <<l, x>>
    OBVIOUS
  <2>3. e \in m.log_to_id /\ e[1] = l /\ e[2] = x
    BY <2>1, <2>2
  <2>4. QED
    BY <2>3 DEF IdsOf
<1>4. QED
  BY <1>2, <1>3

LEMMA Tombstoned ==
  ASSUME NEW m, Sound(m), NEW ids \in SUBSET (1 .. Len(m.id_to_log)),
         NEW w, w = Tombstone(m, ids)
  PROVE  /\ Sound(w)
         /\ Len(w.id_to_log) = Len(m.id_to_log)
         /\ \A i \in 1 .. Len(m.id_to_log) :
              w.id_to_log[i] = IF i \in ids THEN None ELSE m.id_to_log[i]
         /\ w.vec = m.vec /\ w.dim = m.dim /\ w.trim_cursor = m.trim_cursor
         /\ Live(w) = Live(m) \ ids
<1>1. PICK n \in Nat : n = Len(m.id_to_log) /\ DOMAIN m.id_to_log = 1 .. n
  BY LiveLogs
<1>2. PICK c : c = [id \in 1 .. n |-> IF id \in ids THEN None ELSE m.id_to_log[id]]
  OBVIOUS
<1>3. PICK pairs : pairs = {e \in m.log_to_id : e[2] \notin ids}
  OBVIOUS
<1>4. w = [m EXCEPT !.deleted = @ \cup ids, !.id_to_log = c, !.log_to_id = pairs]
  BY <1>1, <1>2, <1>3 DEF Tombstone
<1>5. /\ w.id_to_log = c /\ w.log_to_id = pairs /\ w.deleted = m.deleted \cup ids
      /\ w.vec = m.vec /\ w.dim = m.dim /\ w.trim_cursor = m.trim_cursor
  BY <1>4 DEF Sound, Mem
<1>6. c \in Seq(Log \cup {None}) /\ Len(c) = n
      /\ \A i \in 1 .. n : c[i] = IF i \in ids THEN None ELSE m.id_to_log[i]
  <2>1. c \in [1 .. n -> Log \cup {None}]
    BY <1>1, <1>2, LiveLogs
  <2>2. QED
    BY <1>2, <2>1, SeqDef, LenProperties
<1>7. Live(w) = Live(m) \ ids
  BY <1>1, <1>5, <1>6 DEF Live
<1>8. w.log_to_id = {<<w.id_to_log[id], id>> : id \in Live(w)}
  <2>1. m.log_to_id = {<<m.id_to_log[id], id>> : id \in Live(m)}
    BY DEF Sound
  <2>2. \A id \in Live(w) : id \in Live(m) /\ id \notin ids /\ w.id_to_log[id] = m.id_to_log[id]
    BY <1>1, <1>5, <1>6, <1>7 DEF Live
  <2>3. ASSUME NEW e \in pairs
        PROVE  e \in {<<w.id_to_log[id], id>> : id \in Live(w)}
    <3>1. PICK id \in Live(m) : e = <<m.id_to_log[id], id>>
      BY <1>3, <2>1
    <3>2. id \notin ids
      BY <1>3, <3>1
    <3>3. id \in Live(w) /\ w.id_to_log[id] = m.id_to_log[id]
      BY <1>7, <2>2, <3>2
    <3>4. QED
      BY <3>1, <3>3
  <2>4. ASSUME NEW id \in Live(w)
        PROVE  <<w.id_to_log[id], id>> \in pairs
    <3>1. <<m.id_to_log[id], id>> \in m.log_to_id
      BY <2>1, <2>2
    <3>2. PICK e \in m.log_to_id : e = <<m.id_to_log[id], id>>
      BY <3>1
    <3>3. e[2] = id
      BY <3>2
    <3>4. e \in pairs
      BY <1>3, <2>2, <3>3
    <3>5. QED
      BY <2>2, <3>2, <3>4
  <2>5. QED
    BY <1>5, <2>3, <2>4
<1>9. w \in Mem
  <2>1. m.deleted \in SUBSET Nat /\ ids \in SUBSET Nat
    BY <1>1 DEF Sound, Mem
  <2>2. pairs \in SUBSET (Log \X Nat)
    BY <1>3 DEF Sound, Mem
  <2>3. PICK gone \in SUBSET Nat : gone = m.deleted \cup ids
    BY <2>1
  <2>4. w = [m EXCEPT !.deleted = gone, !.id_to_log = c, !.log_to_id = pairs] /\ m \in Mem
    BY <1>4, <2>3 DEF Sound
  <2>5. QED
    BY <1>6, <2>2, <2>4 DEF Mem
<1>10. w.deleted = (1 .. n) \ Live(w)
  <2>1. m.deleted = (1 .. n) \ Live(m) /\ ids \subseteq 1 .. n
    BY <1>1 DEF Sound
  <2>2. QED
    BY <1>5, <1>7, <2>1
<1>11. \A i, j \in Live(w) : w.id_to_log[i] = w.id_to_log[j] => i = j
  <2>1. \A id \in Live(w) : id \in Live(m) /\ w.id_to_log[id] = m.id_to_log[id]
    BY <1>1, <1>5, <1>6, <1>7 DEF Live
  <2>2. QED
    BY <2>1 DEF Sound
<1>12. \A id \in 1 .. w.trim_cursor - 1 : w.id_to_log[id] = None
  <2>1. /\ m.trim_cursor \in 1 .. n + 1
        /\ \A id \in 1 .. m.trim_cursor - 1 : m.id_to_log[id] = None
    BY <1>1 DEF Sound
  <2>2. QED
    BY <1>5, <1>6, <2>1
<1>13. Sound(w)
  <2>1. /\ n <= MaxElements /\ Len(m.vec) = n /\ m.dim \in Dims /\ m.trim_cursor \in 1 .. n + 1
    BY <1>1 DEF Sound
  <2>2. QED
    BY <1>5, <1>6, <1>8, <1>9, <1>10, <1>11, <1>12, <2>1 DEF Sound
<1>14. QED
  BY <1>1, <1>5, <1>6, <1>7, <1>13

LEMMA Dimensioned ==
  ASSUME NEW m, Sound(m), NEW v \in Vec, NEW w, w = WithDim(m, v)
  PROVE  /\ Sound(w) /\ w.dim = (IF m.dim = 0 THEN DimOf[v] ELSE m.dim)
         /\ w.id_to_log = m.id_to_log /\ w.vec = m.vec /\ w.trim_cursor = m.trim_cursor
         /\ w.log_to_id = m.log_to_id /\ w.deleted = m.deleted /\ Live(w) = Live(m)
<1>1. DimOf[v] \in Nat /\ DimOf[v] \in Dims
  BY StoreAssumption DEF Dims
<1>2. /\ w.id_to_log = m.id_to_log /\ w.vec = m.vec /\ w.trim_cursor = m.trim_cursor
      /\ w.log_to_id = m.log_to_id /\ w.deleted = m.deleted
      /\ w.dim = IF m.dim = 0 THEN DimOf[v] ELSE m.dim
  BY DEF WithDim, Sound, Mem
<1>3. w \in Mem
  BY <1>1 DEF WithDim, Sound, Mem
<1>4. Live(w) = Live(m) /\ w.dim \in Dims
  BY <1>1, <1>2 DEF Live, Sound
<1>5. QED
  BY <1>2, <1>3, <1>4 DEF Sound

LEMMA Added ==
  ASSUME NEW m, Sound(m), NEW l \in Log, NEW v \in Vec, ~ IsFull(m), NEW w, w = Add(m, l, v),
         NEW n, n = Len(m.id_to_log)
  PROVE  /\ Sound(w)
         /\ Len(w.id_to_log) = n + 1
         /\ w.id_to_log[n + 1] = l
         /\ \A i \in 1 .. n :
              w.id_to_log[i] = IF m.id_to_log[i] = l THEN None ELSE m.id_to_log[i]
         /\ w.vec = Append(m.vec, v)
         /\ w.dim = (IF m.dim = 0 THEN DimOf[v] ELSE m.dim)
         /\ w.trim_cursor = m.trim_cursor
         /\ Live(w) = {i \in Live(m) : m.id_to_log[i] # l} \cup {n + 1}
<1>1. PICK d : d = WithDim(m, v)
  OBVIOUS
<1>2. /\ Sound(d) /\ d.dim = (IF m.dim = 0 THEN DimOf[v] ELSE m.dim)
      /\ d.id_to_log = m.id_to_log /\ d.vec = m.vec /\ d.trim_cursor = m.trim_cursor
      /\ Live(d) = Live(m)
  BY <1>1, Dimensioned
<1>3. PICK ids : ids = IdsOf(d, l)
  OBVIOUS
<1>4. ids = {i \in Live(m) : m.id_to_log[i] = l} /\ ids \in SUBSET (1 .. n)
  BY <1>2, <1>3, IdsOfLog DEF Live
<1>5. PICK u : u = Tombstone(d, ids)
  OBVIOUS
<1>6. /\ Sound(u)
      /\ Len(u.id_to_log) = n
      /\ \A i \in 1 .. n : u.id_to_log[i] = IF i \in ids THEN None ELSE m.id_to_log[i]
      /\ u.vec = m.vec /\ u.dim = d.dim /\ u.trim_cursor = m.trim_cursor
      /\ Live(u) = Live(m) \ ids
  BY <1>2, <1>4, <1>5, Tombstoned
<1>7. w = [u EXCEPT !.vec = Append(@, v), !.id_to_log = Append(@, l),
                    !.log_to_id = @ \cup {<<l, n + 1>>}]
  BY <1>1, <1>3, <1>5 DEF Add, WithoutOld
<1>8. PICK c, vs : c = Append(u.id_to_log, l) /\ vs = Append(m.vec, v)
  OBVIOUS
<1>9. /\ w.id_to_log = c /\ w.vec = vs /\ w.log_to_id = u.log_to_id \cup {<<l, n + 1>>}
      /\ w.deleted = u.deleted /\ w.dim = u.dim /\ w.trim_cursor = u.trim_cursor
  BY <1>6, <1>7, <1>8 DEF Sound, Mem
<1>10. n \in Nat /\ n + 1 <= MaxElements
  <2>1. n \in Nat /\ ~ (n >= MaxElements) /\ MaxElements \in Nat
    BY LiveLogs, StoreAssumption DEF IsFull
  <2>2. QED
    BY <2>1
<1>11. /\ c \in Seq(Log \cup {None}) /\ Len(c) = n + 1 /\ c[n + 1] = l
       /\ \A i \in 1 .. n : c[i] = u.id_to_log[i]
  <2>1. PICK s \in Seq(Log \cup {None}), x \in Log \cup {None} : s = u.id_to_log /\ x = l
    BY <1>6 DEF Sound, Mem
  <2>2. c = Append(s, x) /\ Len(s) = n
    BY <1>6, <1>8, <2>1
  <2>3. QED
    BY <2>1, <2>2, AppendProperties
<1>12. vs \in Seq(Vec) /\ Len(vs) = n + 1
  <2>1. m.vec \in Seq(Vec) /\ Len(m.vec) = n
    BY DEF Sound, Mem
  <2>2. QED
    BY <1>8, <2>1, AppendProperties
<1>13. \A i \in 1 .. n : c[i] = IF m.id_to_log[i] = l THEN None ELSE m.id_to_log[i]
  <2>1. l # None
    BY LogAssumption
  <2>2. \A i \in 1 .. n : i \in ids <=> m.id_to_log[i] = l
    BY <1>4, <2>1 DEF Live
  <2>3. QED
    BY <1>6, <1>11, <2>2
<1>14. Live(w) = Live(u) \cup {n + 1}
  <2>1. l # None
    BY LogAssumption
  <2>2. ASSUME NEW i \in 1 .. n + 1
        PROVE  c[i] # None <=> i \in Live(u) \/ i = n + 1
    <3>1. CASE i = n + 1
      BY <1>11, <2>1, <3>1
    <3>2. CASE i # n + 1
      <4>1. i \in 1 .. n
        BY <1>10, <3>2
      <4>2. QED
        BY <1>6, <1>11, <3>2, <4>1 DEF Live
    <3>3. QED
      BY <3>1, <3>2
  <2>3. \A i \in Live(u) : i \in 1 .. n + 1
    BY <1>6, <1>10 DEF Live
  <2>4. Live(w) = {i \in 1 .. n + 1 : c[i] # None}
    BY <1>9, <1>11 DEF Live
  <2>5. QED
    BY <1>10, <2>2, <2>3, <2>4
<1>15. \A i \in Live(u) : i \in 1 .. n /\ c[i] = m.id_to_log[i] /\ c[i] = u.id_to_log[i] /\ c[i] # l
  BY <1>4, <1>6, <1>11 DEF Live
<1>16. w.log_to_id = {<<w.id_to_log[id], id>> : id \in Live(w)}
  <2>1. u.log_to_id = {<<u.id_to_log[id], id>> : id \in Live(u)}
    BY <1>6 DEF Sound
  <2>2. c[n + 1] = l
    BY <1>11
  <2>3. QED
    BY <1>9, <1>14, <1>15, <2>1, <2>2
<1>17. \A i, j \in Live(w) : c[i] = c[j] => i = j
  <2>1. \A i, j \in Live(u) : u.id_to_log[i] = u.id_to_log[j] => i = j
    BY <1>6 DEF Sound
  <2>2. QED
    BY <1>11, <1>14, <1>15, <2>1
<1>18. w.deleted = (1 .. n + 1) \ Live(w)
  <2>1. u.deleted = (1 .. n) \ Live(u)
    BY <1>6 DEF Sound
  <2>2. 1 .. n + 1 = (1 .. n) \cup {n + 1} /\ n + 1 \notin 1 .. n
    BY <1>10
  <2>3. QED
    BY <1>9, <1>14, <2>1, <2>2
<1>19. w \in Mem
  <2>1. u \in Mem /\ u.log_to_id \in SUBSET (Log \X Nat)
    BY <1>6 DEF Sound, Mem
  <2>2. <<l, n + 1>> \in Log \X Nat
    BY <1>10
  <2>3. u.log_to_id \cup {<<l, n + 1>>} \in SUBSET (Log \X Nat)
    BY <2>1, <2>2
  <2>4. PICK pairs \in SUBSET (Log \X Nat) : pairs = u.log_to_id \cup {<<l, n + 1>>}
    BY <2>3
  <2>5. w = [u EXCEPT !.vec = vs, !.id_to_log = c, !.log_to_id = pairs]
    BY <1>6, <1>7, <1>8, <2>1, <2>4 DEF Mem
  <2>6. QED
    BY <1>11, <1>12, <2>1, <2>5 DEF Mem
<1>20. w.trim_cursor \in 1 .. n + 2 /\ \A id \in 1 .. w.trim_cursor - 1 : c[id] = None
  <2>1. /\ u.trim_cursor \in 1 .. n + 1
        /\ \A id \in 1 .. u.trim_cursor - 1 : u.id_to_log[id] = None
    BY <1>6 DEF Sound
  <2>2. QED
    BY <1>9, <1>10, <1>11, <2>1
<1>21. Sound(w)
  <2>1. u.dim \in Dims /\ n + 1 + 1 = n + 2
    BY <1>6, <1>10 DEF Sound
  <2>2. QED
    BY <1>9, <1>10, <1>11, <1>12, <1>16, <1>17, <1>18, <1>19, <1>20, <2>1 DEF Sound
<1>22. Live(w) = {i \in Live(m) : m.id_to_log[i] # l} \cup {n + 1}
  BY <1>4, <1>6, <1>14
<1>23. QED
  BY <1>2, <1>6, <1>8, <1>9, <1>11, <1>13, <1>21, <1>22
--------------------------------------------------------------------------------
\* A set of positions that is not empty has a first and a last one.
LEMMA FirstOf ==
  ASSUME NEW n \in Nat, NEW S \in SUBSET (1 .. n), S # {}
  PROVE  \E m \in S : \A k \in S : m <= k
<1>1. S \subseteq Nat
  OBVIOUS
<1>2. PICK m \in S : \A k \in S : ~ (<<k, m>> \in OpToRel(<, Nat))
  BY <1>1, NatLessThanWellFounded, WFMin
<1>3. \A k \in S : ~ (k < m)
  BY <1>1, <1>2 DEF OpToRel
<1>4. QED
  BY <1>1, <1>3

LEMMA LastOf ==
  ASSUME NEW n \in Nat, NEW S \in SUBSET (1 .. n), S # {}
  PROVE  \E m \in S : \A k \in S : k <= m
<1> DEFINE T == {n + 1 - k : k \in S}
<1>1. T \in SUBSET (1 .. n) /\ T # {}
  <2>1. ASSUME NEW k \in S PROVE n + 1 - k \in 1 .. n
    OBVIOUS
  <2>2. PICK k \in S : TRUE
    OBVIOUS
  <2>3. n + 1 - k \in T
    OBVIOUS
  <2>4. \A x \in T : x \in 1 .. n
    BY <2>1
  <2> HIDE DEF T
  <2>5. QED
    BY <2>3, <2>4
<1>2. PICK m \in T : \A k \in T : m <= k
  <2> HIDE DEF T
  <2>1. QED
    BY <1>1, FirstOf
<1>3. PICK l \in S : m = n + 1 - l
  OBVIOUS
<1>4. \A k \in S : n + 1 - l <= n + 1 - k
  BY <1>2, <1>3
<1>5. QED
  BY <1>4

--------------------------------------------------------------------------------
\* As many log ids as live points.
LEMMA LiveCount ==
  ASSUME NEW m, Sound(m)
  PROVE  /\ Cardinality(m.log_to_id) = Cardinality(Live(m))
         /\ IsFiniteSet(Live(m)) /\ Cardinality(Live(m)) \in Nat
         /\ Cardinality(Live(m)) <= Len(m.id_to_log)
<1>1. PICK n \in Nat : n = Len(m.id_to_log)
  BY LiveLogs
<1>2. IsFiniteSet(1 .. n) /\ Cardinality(1 .. n) = n
  <2>1. 1 \in Int /\ n \in Int /\ (IF 1 > n THEN 0 ELSE n - 1 + 1) = n
    OBVIOUS
  <2>2. QED
    BY <2>1, FS_Interval
<1>3. IsFiniteSet(Live(m)) /\ Cardinality(Live(m)) \in Nat /\ Cardinality(Live(m)) <= n
  <2>1. Live(m) \subseteq 1 .. n
    BY <1>1 DEF Live
  <2>2. QED
    BY <1>2, <2>1, FS_Subset, FS_CardinalityType
<1> DEFINE f == [id \in Live(m) |-> <<m.id_to_log[id], id>>]
<1>4. f \in Bijection(Live(m), m.log_to_id)
  <2>1. m.log_to_id = {<<m.id_to_log[id], id>> : id \in Live(m)}
    BY DEF Sound
  <2>2. f \in [Live(m) -> m.log_to_id]
    BY <2>1
  <2>3. \A a, b \in Live(m) : f[a] = f[b] => a = b
    OBVIOUS
  <2>4. \A e \in m.log_to_id : \E a \in Live(m) : f[a] = e
    BY <2>1
  <2>5. f \in Injection(Live(m), m.log_to_id)
    <3> HIDE DEF f
    <3>1. QED
      BY <2>2, <2>3 DEF Injection, IsInjective
  <2>6. f \in Surjection(Live(m), m.log_to_id)
    <3> HIDE DEF f
    <3>1. QED
      BY <2>2, <2>4 DEF Surjection
  <2> HIDE DEF f
  <2>7. QED
    BY <2>5, <2>6 DEF Bijection
<1>5. Cardinality(m.log_to_id) = Cardinality(Live(m))
  <2> HIDE DEF f
  <2>1. QED
    BY <1>3, <1>4, FS_Bijection DEF ExistsBijection
<1>6. QED
  BY <1>1, <1>3, <1>5

LEMMA ExcessType ==
  ASSUME NEW m, Sound(m)
  PROVE  /\ Excess(m) \in Nat /\ Excess(m) <= Cardinality(Live(m))
         /\ Excess(m) = IF Threshold = 0 \/ Cardinality(Live(m)) <= Threshold THEN 0
                        ELSE Cardinality(Live(m)) - Threshold
<1>1. PICK c \in Nat : c = Cardinality(m.log_to_id) /\ c = Cardinality(Live(m))
  BY LiveCount
<1>2. Excess(m) = IF Threshold = 0 \/ c <= Threshold THEN 0 ELSE c - Threshold
  BY <1>1 DEF Excess
<1>3. Threshold \in Nat
  BY StoreAssumption
<1>4. QED
  BY <1>1, <1>2, <1>3

\* Behind the cursor there is nothing to trim.
LEMMA TrimmableIsLive ==
  ASSUME NEW m, Sound(m)
  PROVE  Trimmable(m) = Live(m)
<1>1. Len(m.id_to_log) \in Nat
  BY LiveLogs
<1>2. /\ m.trim_cursor \in 1 .. Len(m.id_to_log) + 1
      /\ \A id \in 1 .. m.trim_cursor - 1 : m.id_to_log[id] = None
  BY DEF Sound
<1>3. ASSUME NEW id \in Live(m) PROVE id \in Trimmable(m)
  <2>1. id \in 1 .. Len(m.id_to_log) /\ m.id_to_log[id] # None
    BY <1>3 DEF Live
  <2>2. id >= m.trim_cursor
    BY <1>1, <1>2, <2>1
  <2>3. QED
    BY <1>1, <1>2, <2>1, <2>2 DEF Trimmable
<1>4. QED
  BY <1>1, <1>2, <1>3 DEF Trimmable, Live

\* The places before one, among the live ones.
Before(m, id) == {j \in Live(m) : j < id}

LEMMA BeforeCount ==
  ASSUME NEW m, Sound(m), NEW id
  PROVE  /\ IsFiniteSet(Before(m, id)) /\ Cardinality(Before(m, id)) \in Nat
         /\ Cardinality(Before(m, id)) <= Cardinality(Live(m))
<1>1. IsFiniteSet(Live(m)) /\ Before(m, id) \subseteq Live(m)
  BY LiveCount DEF Before
<1>2. QED
  BY <1>1, FS_Subset, FS_CardinalityType

LEMMA VictimsAreFirst ==
  ASSUME NEW m, Sound(m)
  PROVE  /\ Victims(m) = {id \in Live(m) : Cardinality(Before(m, id)) < Excess(m)}
         /\ \A id \in Victims(m) : \A j \in Live(m) : j < id => j \in Victims(m)
<1>1. Victims(m) = {id \in Live(m) : Cardinality(Before(m, id)) < Excess(m)}
  BY TrimmableIsLive DEF Victims, Before
<1>2. ASSUME NEW id \in Victims(m), NEW j \in Live(m), j < id
      PROVE  j \in Victims(m)
  <2>1. id \in Live(m) /\ Cardinality(Before(m, id)) < Excess(m)
    BY <1>1
  <2>2. id \in Nat /\ j \in Nat /\ Live(m) \subseteq Nat
    BY <2>1, LiveLogs DEF Live
  <2>3. Before(m, j) \subseteq Before(m, id)
    BY <1>2, <2>2 DEF Before
  <2>4. IsFiniteSet(Before(m, id))
    BY <2>1, BeforeCount
  <2>5. Cardinality(Before(m, j)) <= Cardinality(Before(m, id))
    BY <2>3, <2>4, FS_Subset
  <2>6. Cardinality(Before(m, j)) \in Nat /\ Cardinality(Before(m, id)) \in Nat /\ Excess(m) \in Nat
    BY <2>1, BeforeCount, ExcessType
  <2>7. Cardinality(Before(m, j)) < Excess(m)
    BY <2>1, <2>5, <2>6
  <2>8. QED
    BY <1>1, <2>7
<1>3. QED
  BY <1>1, <1>2

\* The cursor moves on over nothing that stays alive.
LEMMA CursorMovesOn ==
  ASSUME NEW m, Sound(m)
  PROVE  /\ NextCursor(m) \in 1 .. Len(m.id_to_log) + 1
         /\ \A id \in 1 .. NextCursor(m) - 1 : id \in Live(m) => id \in Victims(m)
<1>1. PICK n \in Nat : n = Len(m.id_to_log)
  BY LiveLogs
<1>2. /\ m.trim_cursor \in 1 .. n + 1
      /\ \A id \in 1 .. m.trim_cursor - 1 : m.id_to_log[id] = None
  BY <1>1 DEF Sound
<1>3. Excess(m) \in Nat /\ Victims(m) \subseteq Live(m) /\ Live(m) \subseteq 1 .. n
  BY <1>1, ExcessType, VictimsAreFirst DEF Live
<1>4. CASE Excess(m) = 0
  BY <1>1, <1>2, <1>4 DEF NextCursor, Live
<1>5. CASE Excess(m) # 0 /\ Cardinality(Trimmable(m)) < Excess(m)
  <2>1. NextCursor(m) = n + 1
    BY <1>1, <1>5 DEF NextCursor
  <2>2. Cardinality(Live(m)) < Excess(m)
    BY <1>5, TrimmableIsLive
  <2>3. Excess(m) <= Cardinality(Live(m)) /\ Cardinality(Live(m)) \in Nat
    BY ExcessType, LiveCount
  <2>4. QED
    BY <1>3, <2>2, <2>3
<1>6. CASE Excess(m) # 0 /\ ~ (Cardinality(Trimmable(m)) < Excess(m))
  <2>1. Excess(m) > 0
    BY <1>3, <1>6
  <2>2. Live(m) # {}
    <3>1. Cardinality(Live(m)) > 0
      BY <2>1, <1>3, ExcessType, LiveCount
    <3>2. Cardinality({}) = 0
      BY FS_EmptySet
    <3>3. QED
      BY <3>1, <3>2
  <2>3. PICK first \in Live(m) : \A k \in Live(m) : first <= k
    BY <1>3, <2>2, FirstOf
  <2>4. first \in Victims(m)
    <3>1. Before(m, first) = {}
      BY <1>3, <2>3 DEF Before
    <3>2. Cardinality({}) = 0
      BY FS_EmptySet
    <3>3. Cardinality(Before(m, first)) < Excess(m)
      BY <2>1, <3>1, <3>2
    <3>4. QED
      BY <3>3, VictimsAreFirst
  <2>5. Victims(m) \in SUBSET (1 .. n) /\ Victims(m) # {}
    BY <1>3, <2>4
  <2>6. \E last \in Victims(m) : \A k \in Victims(m) : k <= last
    BY <2>5, LastOf
  <2>7. PICK last \in Victims(m) : /\ \A k \in Victims(m) : k <= last
                                   /\ NextCursor(m) = 1 + last
    BY <1>6, <2>6 DEF NextCursor
  <2>8. last \in 1 .. n
    BY <2>5
  <2>9. ASSUME NEW id \in 1 .. last, id \in Live(m) PROVE id \in Victims(m)
    <3>1. CASE id = last
      BY <3>1
    <3>2. CASE id # last
      <4>1. id < last
        BY <2>8, <3>2
      <4>2. QED
        BY <2>9, <4>1, VictimsAreFirst
    <3>3. QED
      BY <3>1, <3>2
  <2>10. NextCursor(m) \in 1 .. n + 1 /\ NextCursor(m) - 1 = last
    BY <2>7, <2>8
  <2>11. QED
    BY <1>1, <2>9, <2>10
<1>7. QED
  BY <1>4, <1>5, <1>6

LEMMA TrimmedImage ==
  ASSUME NEW m, Sound(m), NEW w, w = Trimmed(m)
  PROVE  /\ Sound(w)
         /\ Len(w.id_to_log) = Len(m.id_to_log)
         /\ \A i \in 1 .. Len(m.id_to_log) :
              w.id_to_log[i] = IF i \in Victims(m) THEN None ELSE m.id_to_log[i]
         /\ w.vec = m.vec /\ w.dim = m.dim
         /\ Live(w) = Live(m) \ Victims(m)
<1>1. PICK u : u = Tombstone(m, Victims(m))
  OBVIOUS
<1>2. Victims(m) \in SUBSET (1 .. Len(m.id_to_log))
  BY VictimsAreFirst DEF Live
<1>3. /\ Sound(u)
      /\ Len(u.id_to_log) = Len(m.id_to_log)
      /\ \A i \in 1 .. Len(m.id_to_log) :
           u.id_to_log[i] = IF i \in Victims(m) THEN None ELSE m.id_to_log[i]
      /\ u.vec = m.vec /\ u.dim = m.dim /\ Live(u) = Live(m) \ Victims(m)
  BY <1>1, <1>2, Tombstoned
<1>4. PICK c \in 1 .. Len(m.id_to_log) + 1 : c = NextCursor(m)
  BY CursorMovesOn
<1>5. w = [u EXCEPT !.trim_cursor = c]
  BY <1>1, <1>4 DEF Trimmed
<1>6. Len(m.id_to_log) \in Nat
  BY LiveLogs
<1>7. /\ w.id_to_log = u.id_to_log /\ w.log_to_id = u.log_to_id /\ w.vec = u.vec
      /\ w.deleted = u.deleted /\ w.dim = u.dim /\ w.trim_cursor = c /\ w \in Mem
  BY <1>3, <1>4, <1>5, <1>6 DEF Sound, Mem
<1>8. Live(w) = Live(u)
  BY <1>7 DEF Live
<1>9. \A id \in 1 .. c - 1 : w.id_to_log[id] = None
  <2> SUFFICES ASSUME NEW id \in 1 .. c - 1 PROVE w.id_to_log[id] = None
    OBVIOUS
  <2>1. id \in 1 .. Len(m.id_to_log)
    BY <1>4, <1>6
  <2>2. id \in Live(m) => id \in Victims(m)
    BY <1>4, CursorMovesOn
  <2>3. QED
    BY <1>3, <1>7, <2>1, <2>2 DEF Live
<1>10. Sound(w)
  BY <1>3, <1>4, <1>7, <1>8, <1>9 DEF Sound
<1>11. QED
  BY <1>3, <1>7, <1>8, <1>10

\* With one log id too many, its point that goes is the oldest.
LEMMA OneTooMany ==
  ASSUME NEW m, Sound(m), Excess(m) <= 1
  PROVE  /\ Excess(m) = 0 => Victims(m) = {}
         /\ Excess(m) = 1 => \E first \in Live(m) : /\ \A j \in Live(m) : first <= j
                                                    /\ Victims(m) = {first}
<1>1. Live(m) \subseteq 1 .. Len(m.id_to_log) /\ Len(m.id_to_log) \in Nat
  BY LiveLogs DEF Live
<1>2. ASSUME Excess(m) = 0
      PROVE  Victims(m) = {}
  <2>1. \A id \in Live(m) : Cardinality(Before(m, id)) \in Nat
    BY BeforeCount
  <2>2. QED
    BY <1>2, <2>1, VictimsAreFirst
<1>3. ASSUME Excess(m) = 1
      PROVE  \E first \in Live(m) : /\ \A j \in Live(m) : first <= j
                                    /\ Victims(m) = {first}
  <2>1. Live(m) # {}
    <3>1. Cardinality(Live(m)) > 0
      BY <1>3, ExcessType, LiveCount
    <3>2. Cardinality({}) = 0
      BY FS_EmptySet
    <3>3. QED
      BY <3>1, <3>2
  <2>2. PICK first \in Live(m) : \A k \in Live(m) : first <= k
    BY <1>1, <2>1, FirstOf
  <2>3. first \in Victims(m)
    <3>1. Before(m, first) = {}
      BY <1>1, <2>2 DEF Before
    <3>2. Cardinality({}) = 0
      BY FS_EmptySet
    <3>3. Cardinality(Before(m, first)) < Excess(m)
      BY <1>3, <3>1, <3>2
    <3>4. QED
      BY <3>3, VictimsAreFirst
  <2>4. ASSUME NEW id \in Victims(m) PROVE id = first
    <3> SUFFICES ASSUME id # first PROVE FALSE
      OBVIOUS
    <3>1. id \in Live(m) /\ Cardinality(Before(m, id)) < 1
      BY <1>3, VictimsAreFirst
    <3>2. first \in Before(m, id)
      BY <1>1, <2>2, <3>1 DEF Before
    <3>3. IsFiniteSet(Before(m, id)) /\ Cardinality(Before(m, id)) \in Nat
      BY <3>1, BeforeCount
    <3>4. Cardinality(Before(m, id)) = 0
      BY <3>1, <3>3
    <3>5. Before(m, id) = {}
      BY <3>3, <3>4, FS_EmptySet
    <3>6. QED
      BY <3>2, <3>5
  <2>5. QED
    BY <2>2, <2>3, <2>4
<1>4. QED
  BY <1>2, <1>3

\* Once trimmed, at most Threshold log ids live, if there was at most one too many.
LEMMA BoundRestored ==
  ASSUME NEW m, Sound(m), Excess(m) <= 1, Threshold > 0, NEW w, w = Trimmed(m)
  PROVE  Cardinality(w.log_to_id) <= Threshold
<1>1. /\ Sound(w) /\ Live(w) = Live(m) \ Victims(m)
      /\ Cardinality(w.log_to_id) = Cardinality(Live(w))
  BY TrimmedImage, LiveCount
<1>2. PICK c \in Nat : c = Cardinality(Live(m))
  BY LiveCount
<1>3. Threshold \in Nat /\ Excess(m) \in Nat
      /\ Excess(m) = IF Threshold = 0 \/ c <= Threshold THEN 0 ELSE c - Threshold
  BY <1>2, ExcessType, StoreAssumption
<1>4. CASE Excess(m) = 0
  <2>1. Live(w) = Live(m)
    BY <1>1, <1>4, OneTooMany
  <2>2. QED
    BY <1>1, <1>2, <1>3, <1>4, <2>1
<1>5. CASE Excess(m) = 1
  <2>1. PICK first \in Live(m) : Victims(m) = {first}
    BY <1>5, OneTooMany
  <2>2. Cardinality(Live(m) \ {first}) = c - 1
    BY <1>2, <2>1, LiveCount, FS_RemoveElement
  <2>3. QED
    BY <1>1, <1>3, <1>5, <2>1, <2>2
<1>6. QED
  BY <1>3, <1>4, <1>5
--------------------------------------------------------------------------------
RowType == [log : Log, vec : Vec]

\* At most Threshold points live, if there is a threshold.
Bounded(m) == Threshold > 0 => Cardinality(Live(m)) <= Threshold

\* The log ids of points are finitely many.
LEMMA FewLogs ==
  ASSUME NEW m, Sound(m), NEW ids \in SUBSET Live(m)
  PROVE  IsFiniteSet(LogsOf(m, ids)) /\ LogsOf(m, ids) \in SUBSET Log
<1> DEFINE f == [id \in ids |-> m.id_to_log[id]]
           T == LogsOf(m, ids)
<1>1. IsFiniteSet(ids)
  BY LiveCount, FS_Subset
<1>2. f \in [ids -> T] /\ \A x \in T : \E id \in ids : f[id] = x
  BY DEF LogsOf
<1>3. f \in Surjection(ids, T)
  <2> HIDE DEF f, T
  <2>1. QED
    BY <1>2 DEF Surjection
<1>4. IsFiniteSet(T)
  <2> HIDE DEF f, T
  <2>1. QED
    BY <1>1, <1>3, FS_Surjection
<1>5. QED
  BY <1>4, LiveLogs DEF LogsOf

\* One more point, and the oldest is trimmed if there is one too many.
LEMMA BoundKept ==
  ASSUME NEW m, Sound(m), Bounded(m), NEW l \in Log, NEW v \in Vec, ~ IsFull(m), NEW w,
         w = Add(m, l, v)
  PROVE  Excess(w) <= 1 /\ Bounded(Trimmed(w))
<1>1. PICK n \in Nat : n = Len(m.id_to_log)
  BY LiveLogs
<1>2. Sound(w) /\ Live(w) = {i \in Live(m) : m.id_to_log[i] # l} \cup {n + 1}
  BY <1>1, Added
<1>3. PICK A : A = {i \in Live(m) : m.id_to_log[i] # l}
  OBVIOUS
<1>4. PICK a \in Nat, c \in Nat, b \in Nat :
        a = Cardinality(A) /\ c = Cardinality(Live(m)) /\ b = Cardinality(Live(w))
        /\ a <= c /\ b <= a + 1
  <2>1. A \in SUBSET Live(m) /\ IsFiniteSet(Live(m)) /\ Cardinality(Live(m)) \in Nat
    BY <1>3, LiveCount
  <2>2. IsFiniteSet(A) /\ Cardinality(A) \in Nat /\ Cardinality(A) <= Cardinality(Live(m))
    BY <2>1, FS_Subset, FS_CardinalityType
  <2>3. Cardinality(A \cup {n + 1}) = IF n + 1 \in A THEN Cardinality(A) ELSE Cardinality(A) + 1
    BY <2>2, FS_AddElement
  <2>4. Live(w) = A \cup {n + 1}
    BY <1>2, <1>3
  <2>5. QED
    BY <2>1, <2>2, <2>3, <2>4
<1>5. Excess(w) = IF Threshold = 0 \/ b <= Threshold THEN 0 ELSE b - Threshold
  BY <1>2, <1>4, ExcessType
<1>6. Threshold \in Nat /\ (Threshold > 0 => c <= Threshold)
  BY <1>4, StoreAssumption DEF Bounded
<1>7. Excess(w) <= 1
  BY <1>4, <1>5, <1>6
<1>8. ASSUME Threshold > 0
      PROVE  Cardinality(Live(Trimmed(w))) <= Threshold
  <2>1. PICK t : t = Trimmed(w)
    OBVIOUS
  <2>2. Sound(t) /\ Cardinality(t.log_to_id) <= Threshold
    BY <1>2, <1>7, <1>8, <2>1, BoundRestored, TrimmedImage
  <2>3. QED
    BY <2>1, <2>2, LiveCount
<1>9. QED
  BY <1>7, <1>8 DEF Bounded

\* The states of the loop of load_all.
LoadState == {s \in [mem : Mem, gone : SUBSET Log] :
                Sound(s.mem) /\ Bounded(s.mem) /\ IsFiniteSet(s.gone)}

LEMMA ResetIsSound ==
  ASSUME NEW m, m.dim \in Dims
  PROVE  /\ Sound(Reset(m)) /\ Live(Reset(m)) = {} /\ Bounded(Reset(m))
         /\ Reset(m).id_to_log = <<>> /\ Reset(m).vec = <<>> /\ Reset(m).log_to_id = {}
         /\ Reset(m).deleted = {} /\ Reset(m).dim = m.dim /\ Reset(m).trim_cursor = 1
<1>1. PICK w : w = Reset(m)
  OBVIOUS
<1>2. /\ w = [id_to_log |-> <<>>, log_to_id |-> {}, vec |-> <<>>, deleted |-> {},
              dim |-> m.dim, trim_cursor |-> 1]
  BY <1>1 DEF Reset, Closed
<1>3. Len(<<>>) = 0 /\ <<>> \in Seq(Log \cup {None}) /\ <<>> \in Seq(Vec)
  BY EmptySeq
<1>4. m.dim \in Nat
  BY StoreAssumption DEF Dims
<1>5. w \in Mem /\ Live(w) = {}
  BY <1>2, <1>3, <1>4 DEF Mem, Live
<1>6. /\ w.id_to_log = <<>> /\ w.vec = <<>> /\ w.log_to_id = {} /\ w.deleted = {}
      /\ w.dim = m.dim /\ w.trim_cursor = 1
  BY <1>2
<1>7. Sound(w)
  <2>1. Len(w.id_to_log) = 0 /\ Len(w.vec) = 0 /\ 0 <= MaxElements
    BY <1>3, <1>6, StoreAssumption
  <2>2. w.deleted = (1 .. 0) \ Live(w) /\ w.log_to_id = {<<w.id_to_log[id], id>> : id \in Live(w)}
    BY <1>5, <1>6
  <2>3. w.trim_cursor \in 1 .. 0 + 1 /\ \A id \in 1 .. w.trim_cursor - 1 : FALSE
    BY <1>6
  <2>4. QED
    BY <1>5, <1>6, <2>1, <2>2, <2>3 DEF Sound
<1>8. Bounded(w)
  <2>1. Cardinality({}) = 0
    BY FS_EmptySet
  <2>2. QED
    BY <1>5, <2>1, StoreAssumption DEF Bounded
<1>9. QED
  BY <1>1, <1>5, <1>6, <1>7, <1>8

LEMMA LoadRowKeeps ==
  ASSUME NEW s \in LoadState, NEW row \in RowType
  PROVE  LoadRow(s, row) \in LoadState
<1>1. PICK m \in Mem, l \in Log, v \in Vec : m = s.mem /\ l = row.log /\ v = row.vec
  BY DEF LoadState, RowType
<1>2. Sound(m) /\ s.gone \in SUBSET Log /\ Bounded(m) /\ IsFiniteSet(s.gone)
  BY <1>1 DEF LoadState
<1>3. CASE ~ Accepts(m, v)
  <2>1. PICK d : d = WithDim(m, v)
    OBVIOUS
  <2>2. Sound(d) /\ d \in Mem /\ Bounded(d)
    BY <1>2, <2>1, Dimensioned DEF Sound, Bounded
  <2>3. LoadRow(s, row) = [s EXCEPT !.mem = d]
    BY <1>1, <1>3, <2>1 DEF LoadRow
  <2>4. QED
    BY <1>2, <2>2, <2>3 DEF LoadState
<1>4. CASE Accepts(m, v)
  <2>1. PICK added : added = Add(m, l, v)
    OBVIOUS
  <2>2. ~ IsFull(m)
    BY <1>4 DEF Accepts
  <2>3. Sound(added)
    BY <1>2, <2>1, <2>2, Added
  <2>4. PICK w : w = Trimmed(added)
    OBVIOUS
  <2>5. Sound(w) /\ w \in Mem
    BY <2>3, <2>4, TrimmedImage DEF Sound
  <2>6. Victims(added) \in SUBSET Live(added)
    BY <2>3, VictimsAreFirst
  <2>7. PICK logs \in SUBSET Log : /\ logs = s.gone \cup LogsOf(added, Victims(added))
                                   /\ IsFiniteSet(logs)
    <3>1. LogsOf(added, Victims(added)) \in SUBSET Log
          /\ IsFiniteSet(LogsOf(added, Victims(added)))
      BY <2>3, <2>6, FewLogs
    <3>2. IsFiniteSet(s.gone \cup LogsOf(added, Victims(added)))
      BY <1>2, <3>1, FS_Union
    <3>3. QED
      BY <1>2, <3>1, <3>2
  <2>8. LoadRow(s, row) = [mem |-> w, gone |-> logs]
    BY <1>1, <1>4, <2>1, <2>4, <2>7 DEF LoadRow
  <2>9. Bounded(w)
    BY <1>2, <2>1, <2>2, <2>4, BoundKept
  <2>10. QED
    BY <2>5, <2>7, <2>8, <2>9 DEF LoadState
<1>5. QED
  BY <1>3, <1>4

\* f lists what is loaded after each row.
Loads(f, m, table, n) ==
  /\ f \in [0 .. n -> LoadState]
  /\ f[0] = [mem |-> Reset(m), gone |-> {}]
  /\ \A i \in 1 .. n : f[i] = LoadRow(f[i - 1], table[i])
  /\ Loaded(m, table, n) = f[n]

LEMMA LoadedRowByRow ==
  ASSUME NEW m, m.dim \in Dims, NEW table \in Seq(RowType), NEW n \in 0 .. Len(table)
  PROVE  \E f : Loads(f, m, table, n)
<1> DEFINE first == [mem |-> Reset(m), gone |-> {}]
           Turn(g) == g = [i \in 0 .. n |-> IF i = 0 THEN first ELSE LoadRow(g[i - 1], table[i])]
           step == [p \in (1 .. n) \X LoadState |-> LoadRow(p[2], table[p[1]])]
<1>1. n \in Nat /\ \A i \in 1 .. n : table[i] \in RowType
  <2>1. Len(table) \in Nat /\ \A i \in 1 .. Len(table) : table[i] \in RowType
    BY LenProperties, ElementOfSeq
  <2>2. QED
    BY <2>1
<1>2. first \in LoadState
  <2>1. Sound(Reset(m)) /\ Reset(m) \in Mem /\ Bounded(Reset(m))
    BY ResetIsSound DEF Sound
  <2>2. IsFiniteSet({})
    BY FS_EmptySet
  <2>3. QED
    BY <2>1, <2>2 DEF LoadState
<1>3. step \in [(1 .. n) \X LoadState -> LoadState]
  <2>1. ASSUME NEW p \in (1 .. n) \X LoadState
        PROVE  LoadRow(p[2], table[p[1]]) \in LoadState
    <3>1. table[p[1]] \in RowType /\ p[2] \in LoadState
      BY <1>1
    <3>2. QED
      BY <3>1, LoadRowKeeps
  <2>2. QED
    BY <2>1
<1>4. PICK f : Loops(f, n, LoadState, first, step)
  <2> HIDE DEF first, step
  <2>1. QED
    BY <1>1, <1>2, <1>3, LoopEnds
<1>5. /\ f \in [0 .. n -> LoadState] /\ f[0] = first
      /\ \A i \in 1 .. n : f[i] = LoadRow(f[i - 1], table[i])
  <2>1. /\ f \in [0 .. n -> LoadState] /\ f[0] = first
        /\ \A i \in 1 .. n : f[i] = step[<<i, f[i - 1]>>]
    <3> HIDE DEF first, step
    <3>1. QED
      BY <1>4 DEF Loops
  <2>2. ASSUME NEW i \in 1 .. n
        PROVE  f[i] = LoadRow(f[i - 1], table[i])
    <3> HIDE DEF first
    <3>1. i - 1 \in 0 .. n /\ f[i - 1] \in LoadState
      BY <1>1, <2>1
    <3>2. PICK p \in (1 .. n) \X LoadState : p = <<i, f[i - 1]>>
      BY <3>1
    <3>3. step[p] = LoadRow(p[2], table[p[1]])
      OBVIOUS
    <3> HIDE DEF step
    <3>4. QED
      BY <2>1, <3>2, <3>3
  <2>3. QED
    <3> HIDE DEF step, first
    <3>1. QED
      BY <2>1, <2>2
<1>6. Turn(f)
  <2> DEFINE rhs == [i \in 0 .. n |-> IF i = 0 THEN first ELSE LoadRow(f[i - 1], table[i])]
  <2>1. ASSUME NEW i \in 0 .. n
        PROVE  f[i] = rhs[i]
    <3> HIDE DEF first
    <3>1. CASE i = 0
      BY <1>5, <3>1
    <3>2. CASE i # 0
      <4>1. i \in 1 .. n
        BY <1>1, <3>2
      <4>2. rhs[i] = LoadRow(f[i - 1], table[i])
        BY <3>2
      <4>3. QED
        <5> HIDE DEF rhs
        <5>1. QED
          BY <1>5, <4>1, <4>2
    <3>3. QED
      BY <3>1, <3>2
  <2>2. f = rhs
    <3> HIDE DEF first
    <3>1. DOMAIN f = 0 .. n /\ DOMAIN rhs = 0 .. n
      BY <1>5
    <3>2. QED
      BY <2>1, <3>1, <1>5
  <2>3. QED
    BY <2>2
<1> DEFINE after == CHOOSE g : Turn(g)
<1>7. Turn(after)
  BY <1>6
<1>8. Loaded(m, table, n) = after[n]
  BY DEF Loaded
<1>9. \A i \in 0 .. n : after[i] = f[i]
  <2> DEFINE T == {i \in 0 .. n : after[i] = f[i]}
  <2>1. after[0] = first /\ \A i \in 1 .. n : after[i] = LoadRow(after[i - 1], table[i])
    <3> HIDE DEF after, first
    <3>1. 0 \in 0 .. n /\ \A i \in 1 .. n : i \in 0 .. n /\ i # 0
      BY <1>1
    <3>2. after = [i \in 0 .. n |-> IF i = 0 THEN first ELSE LoadRow(after[i - 1], table[i])]
      BY <1>7
    <3>3. QED
      BY <3>1, <3>2
  <2> HIDE DEF after, first
  <2>2. 0 \in T
    BY <1>1, <1>5, <2>1
  <2>3. \A i \in 1 .. n : i - 1 \in T => i \in T
    BY <1>1, <1>5, <2>1
  <2>4. 0 .. n \subseteq T
    <3> HIDE DEF T
    <3>1. QED
      BY <1>1, <2>2, <2>3, Climbing
  <2>5. QED
    BY <2>4
<1>10. n \in 0 .. n
  BY <1>1
<1>11. QED
  <2> HIDE DEF after
  <2>1. QED
    BY <1>5, <1>8, <1>9, <1>10 DEF Loads

LEMMA LoadedIsSound ==
  ASSUME NEW m, m.dim \in Dims, NEW table \in Seq(RowType), NEW n \in 0 .. Len(table)
  PROVE  Loaded(m, table, n) \in LoadState
<1>1. PICK f : Loads(f, m, table, n)
  BY LoadedRowByRow
<1>2. n \in 0 .. n
  BY LenProperties
<1>3. QED
  BY <1>1, <1>2 DEF Loads
--------------------------------------------------------------------------------
Tables == Seq(RowType)

\* What every call and every statement that fails leaves as it is: the image is sound, no
\* table has two rows of one log id, a transaction is open only within a batch; and unless
\* a statement failed trim keeps up.
StoreInv ==
  /\ rows \in Tables /\ Distinct(rows)
  /\ tx \in SUBSET Tables /\ Cardinality(tx) <= 1 /\ \A table \in tx : Distinct(table)
  /\ open \in BOOLEAN
  /\ Sound(mem)
  /\ batch \in NoBatch .. MaxBatch
  /\ batch = NoBatch => tx = {}
  /\ batch # NoBatch => open
  /\ failures \in 0 .. MaxFailures /\ ops \in 0 .. MaxOps
  /\ failures = 0 => Bounded(mem)

\* A row that is replaced.
LEMMA RowReplaced ==
  ASSUME NEW table \in Tables, Distinct(table), NEW l \in Log, NEW v \in Vec
  PROVE  ReplaceRow(table, l, v) \in Tables /\ Distinct(ReplaceRow(table, l, v))
<1>1. PICK t \in Tables : t = DeleteRows(table, {l})
  BY DeletedRows DEF Tables
<1>2. PICK n \in Nat : n = Len(t)
  BY LenProperties DEF Tables
<1>3. PICK r \in RowType : r = Row(l, v)
  BY DEF RowType, Row
<1>4. PICK u \in Tables : u = Append(t, r)
  BY AppendProperties DEF Tables
<1>5. Len(u) = n + 1 /\ u[n + 1] = r /\ \A k \in 1 .. n : u[k] = t[k]
  BY <1>2, <1>4, AppendProperties DEF Tables
<1>6. Distinct(t) /\ \A k \in 1 .. n : t[k].log # l
  BY <1>1, <1>2, DeletedRows DEF Tables
<1>7. r.log = l
  BY <1>3 DEF Row
<1>8. ASSUME NEW i \in 1 .. n + 1, NEW j \in 1 .. n + 1, u[i].log = u[j].log
      PROVE  i = j
  <2>1. CASE i = n + 1 /\ j = n + 1
    BY <2>1
  <2>2. CASE i \in 1 .. n /\ j = n + 1
    BY <1>5, <1>6, <1>7, <1>8, <2>2
  <2>3. CASE j \in 1 .. n /\ i = n + 1
    BY <1>5, <1>6, <1>7, <1>8, <2>3
  <2>4. CASE j \in 1 .. n /\ i \in 1 .. n
    BY <1>2, <1>5, <1>6, <1>8, <2>4 DEF Distinct
  <2>5. QED
    BY <2>1, <2>2, <2>3, <2>4
<1>9. Distinct(u)
  BY <1>5, <1>8 DEF Distinct
<1>10. ReplaceRow(table, l, v) = u
  BY <1>1, <1>3, <1>4 DEF ReplaceRow
<1>11. QED
  BY <1>9, <1>10

LEMMA FailuresRise ==
  ASSUME failures \in 0 .. MaxFailures, NEW n \in Nat, Failing(n)
  PROVE  /\ failures' \in 0 .. MaxFailures
         /\ failures' = 0 => failures = 0 /\ n = 0
         /\ failures' = failures => n = 0
<1>1. MaxFailures \in Nat
  BY StoreAssumption
<1>2. QED
  BY <1>1 DEF Failing

LEMMA InsertKeeps ==
  ASSUME StoreInv, NEW l \in Log, NEW v \in Vec, InsertLocked(l, v)
  PROVE  /\ Sound(mem)' /\ rows' \in Tables /\ Distinct(rows')
         /\ failures' \in 0 .. MaxFailures /\ (failures' = 0 => failures = 0 /\ Bounded(mem)')
<1>1. PICK added, logs : added = Add(mem, l, v) /\ logs = LogsOf(added, Victims(added))
  OBVIOUS
<1>2. Sound(mem) /\ rows \in Tables /\ Distinct(rows) /\ failures \in 0 .. MaxFailures
      /\ (failures = 0 => Bounded(mem))
  BY DEF StoreInv
<1>3. CASE ~ Accepts(mem, v) /\ mem' = WithDim(mem, v) /\ UNCHANGED <<rows, failures>>
  <2>1. PICK d : d = WithDim(mem, v)
    OBVIOUS
  <2>2. Sound(d) /\ Live(d) = Live(mem)
    BY <1>2, <2>1, Dimensioned
  <2>3. failures = 0 => Bounded(d)
    BY <1>2, <2>2 DEF Bounded
  <2>4. mem' = d
    BY <1>3, <2>1
  <2>5. Sound(mem)' /\ (failures = 0 => Bounded(mem)')
    BY <2>2, <2>3, <2>4
  <2>6. QED
    BY <1>2, <1>3, <2>5
<1>4. CASE Accepts(mem, v) /\ Failing(1) /\ mem' = added /\ UNCHANGED rows
  <2>1. Sound(added)
    BY <1>1, <1>2, <1>4, Added DEF Accepts
  <2>2. Sound(mem)'
    BY <1>4, <2>1
  <2>3. failures' \in 0 .. MaxFailures /\ failures' # 0
    BY <1>2, <1>4, FailuresRise
  <2>4. QED
    BY <1>2, <1>4, <2>2, <2>3
<1>5. CASE Accepts(mem, v) /\ mem' = Trimmed(added)
           /\ \E kept \in SUBSET logs : /\ Failing(Cardinality(kept))
                                        /\ rows' = DeleteRows(ReplaceRow(rows, l, v), logs \ kept)
  <2>1. PICK kept \in SUBSET logs : /\ Failing(Cardinality(kept))
                                    /\ rows' = DeleteRows(ReplaceRow(rows, l, v), logs \ kept)
    BY <1>5
  <2>2. ~ IsFull(mem)
    BY <1>5 DEF Accepts
  <2>3. Sound(added)
    BY <1>1, <1>2, <2>2, Added
  <2>4. PICK w : w = Trimmed(added)
    OBVIOUS
  <2>5. Sound(w) /\ mem' = w
    BY <1>5, <2>3, <2>4, TrimmedImage
  <2>6. Bounded(mem) => Bounded(w)
    BY <1>1, <1>2, <2>2, <2>4, BoundKept
  <2>7. Cardinality(kept) \in Nat
    <3>1. Victims(added) \in SUBSET Live(added)
      BY <2>3, VictimsAreFirst
    <3>2. IsFiniteSet(logs)
      BY <1>1, <2>3, <3>1, FewLogs
    <3>3. QED
      BY <3>2, FS_Subset, FS_CardinalityType
  <2>8. failures' \in 0 .. MaxFailures /\ (failures' = 0 => failures = 0)
    BY <1>2, <2>1, <2>7, FailuresRise
  <2>9. PICK t \in Tables : t = ReplaceRow(rows, l, v) /\ Distinct(t)
    BY <1>2, RowReplaced
  <2>10. DeleteRows(t, logs \ kept) \in Tables /\ Distinct(DeleteRows(t, logs \ kept))
    BY <2>9, DeletedRows DEF Tables
  <2>11. rows' \in Tables /\ Distinct(rows')
    BY <2>1, <2>9, <2>10
  <2>12. Sound(mem)' /\ (failures = 0 => Bounded(mem)')
    BY <1>2, <2>5, <2>6
  <2>13. QED
    BY <2>8, <2>11, <2>12
<1>6. QED
  BY <1>1, <1>3, <1>4, <1>5 DEF InsertLocked

LEMMA LoadKeeps ==
  ASSUME StoreInv, NEW m, m.dim \in Dims, LoadAll(m)
  PROVE  /\ Sound(mem)' /\ rows' \in Tables /\ Distinct(rows')
         /\ failures' \in 0 .. MaxFailures /\ Bounded(mem)' /\ (failures' = 0 => failures = 0)
<1>1. rows \in Tables /\ Distinct(rows) /\ failures \in 0 .. MaxFailures
  BY DEF StoreInv
<1>2. PICK n \in 0 .. Len(rows) : \E kept \in SUBSET Loaded(m, rows, n).gone :
        /\ Failing(Cardinality(kept) + IF n < Len(rows) THEN 1 ELSE 0)
        /\ mem' = Loaded(m, rows, n).mem
        /\ rows' = DeleteRows(rows, Loaded(m, rows, n).gone \ kept)
  BY DEF LoadAll
<1>3. PICK s \in LoadState : s = Loaded(m, rows, n)
  BY <1>1, <1>2, LoadedIsSound DEF Tables
<1>4. PICK kept \in SUBSET s.gone :
        /\ Failing(Cardinality(kept) + IF n < Len(rows) THEN 1 ELSE 0)
        /\ mem' = s.mem
        /\ rows' = DeleteRows(rows, s.gone \ kept)
  BY <1>2, <1>3
<1>5. Sound(s.mem) /\ Bounded(s.mem) /\ IsFiniteSet(s.gone)
  BY DEF LoadState
<1>6. Cardinality(kept) \in Nat
  BY <1>5, FS_Subset, FS_CardinalityType
<1>7. PICK k \in Nat : k = Cardinality(kept) + IF n < Len(rows) THEN 1 ELSE 0
  BY <1>6
<1>8. failures' \in 0 .. MaxFailures /\ (failures' = 0 => failures = 0)
  BY <1>1, <1>4, <1>7, FailuresRise
<1>9. DeleteRows(rows, s.gone \ kept) \in Tables /\ Distinct(DeleteRows(rows, s.gone \ kept))
  BY <1>1, DeletedRows DEF Tables
<1>10. Sound(mem)' /\ Bounded(mem)'
  BY <1>4, <1>5
<1>11. QED
  BY <1>4, <1>8, <1>9, <1>10

LEMMA RolledBackTable ==
  ASSUME StoreInv, tx # {}
  PROVE  RolledBack \in tx /\ RolledBack \in Tables /\ Distinct(RolledBack)
BY DEF StoreInv, RolledBack

LEMMA ClosedIsSound == Sound(Closed) /\ Bounded(Closed) /\ Live(Closed) = {}
<1>1. Closed.dim = 0 /\ 0 \in Dims /\ Reset(Closed) = Closed
  BY DEF Closed, Reset, Dims
<1>2. QED
  BY <1>1, ResetIsSound

LEMMA StoreInit == Init => StoreInv
<1> SUFFICES ASSUME Init PROVE StoreInv
  OBVIOUS
<1>1. <<>> \in Tables /\ Len(<<>>) = 0 /\ Cardinality({}) = 0
  BY EmptySeq, FS_EmptySet DEF Tables
<1>2. Sound(mem) /\ Bounded(mem)
  BY ClosedIsSound DEF Init
<1>3. Distinct(<<>>)
  BY <1>1 DEF Distinct
<1>4. {MaxBatch, MaxOps, MaxFailures} \subseteq Nat
  BY StoreAssumption
<1>5. /\ rows = <<>> /\ tx = {} /\ open = FALSE /\ batch = NoBatch /\ failures = 0 /\ ops = 0
  BY DEF Init
<1>6. 0 \in 0 .. MaxFailures /\ 0 \in 0 .. MaxOps /\ NoBatch \in NoBatch .. MaxBatch
  BY <1>4 DEF NoBatch
<1>7. rows \in Tables /\ Distinct(rows)
  <2>1. PICK t : t = <<>>
    OBVIOUS
  <2>2. t \in Tables /\ Distinct(t) /\ rows = t
    BY <1>1, <1>3, <1>5, <2>1
  <2>3. QED
    BY <2>2
<1>8. tx \in SUBSET Tables /\ \A table \in tx : Distinct(table)
  BY <1>5
<1>9. Cardinality(tx) <= 1
  BY <1>1, <1>5
<1>10. QED
  BY <1>2, <1>5, <1>6, <1>7, <1>8, <1>9 DEF StoreInv

LEMMA StoreNext == StoreInv /\ [Next]_vars => StoreInv'
<1> SUFFICES ASSUME StoreInv, [Next]_vars PROVE StoreInv'
  OBVIOUS
<1>1. {MaxBatch, MaxOps, MaxFailures} \subseteq Nat
  BY StoreAssumption
<1>2. CASE Open
  <2>1. PICK m : m = [Closed EXCEPT !.dim = ConfigDim]
    OBVIOUS
  <2>2. m.dim \in Dims
    BY <2>1 DEF Closed, Dims
  <2>3. /\ LoadAll(m) /\ ~ open /\ open' = TRUE /\ ops < MaxOps /\ ops' = ops + 1
        /\ UNCHANGED <<tx, batch>>
    BY <1>2, <2>1 DEF Open
  <2>4. /\ Sound(mem)' /\ rows' \in Tables /\ Distinct(rows')
        /\ failures' \in 0 .. MaxFailures /\ Bounded(mem)'
    BY <2>2, <2>3, LoadKeeps
  <2>5. QED
    BY <1>1, <2>3, <2>4 DEF StoreInv
<1>3. CASE Clear
  <2>1. Sound(mem) /\ mem.dim \in Dims
    BY DEF StoreInv, Sound
  <2>2. Sound(Reset(mem)) /\ Bounded(Reset(mem))
    BY <2>1, ResetIsSound
  <2>3. Sound(mem)' /\ Bounded(mem)'
    BY <1>3, <2>2 DEF Clear
  <2>4. <<>> \in Tables /\ Distinct(<<>>)
    BY EmptySeq DEF Tables, Distinct
  <2>5. /\ open /\ ops < MaxOps /\ ops' = ops + 1 /\ UNCHANGED <<tx, open, batch>>
        /\ rows' \in {rows, <<>>}
    BY <1>3 DEF Clear, Begin
  <2>6. failures' \in 0 .. MaxFailures
    BY <1>3, FailuresRise DEF Clear, StoreInv
  <2>7. QED
    BY <1>1, <2>3, <2>4, <2>5, <2>6 DEF StoreInv
<1>4. CASE RebuildIndex
  <2>1. mem.dim \in Dims
    BY DEF StoreInv, Sound
  <2>2. /\ LoadAll(mem) /\ ops < MaxOps /\ ops' = ops + 1 /\ UNCHANGED <<tx, open, batch>>
    BY <1>4 DEF RebuildIndex, Begin
  <2>3. PICK m : m = mem
    OBVIOUS
  <2>4. /\ Sound(mem)' /\ rows' \in Tables /\ Distinct(rows')
        /\ failures' \in 0 .. MaxFailures /\ Bounded(mem)'
    BY <2>1, <2>2, <2>3, LoadKeeps
  <2>5. QED
    BY <1>1, <2>2, <2>4 DEF StoreInv
<1>5. CASE Close
  <2>1. Sound(mem)' /\ Bounded(mem)'
    BY <1>5, ClosedIsSound DEF Close
  <2>2. /\ batch = NoBatch /\ open' = FALSE /\ ops < MaxOps /\ ops' = ops + 1
        /\ UNCHANGED <<rows, tx, batch, failures>>
    BY <1>5 DEF Close, Begin
  <2>3. ops' \in 0 .. MaxOps
    BY <1>1, <2>2 DEF StoreInv
  <2>4. QED
    BY <2>1, <2>2, <2>3 DEF StoreInv
<1>6. CASE Crash
  <2>1. Sound(mem)' /\ Bounded(mem)'
    BY <1>6, ClosedIsSound DEF Crash
  <2>2. rows' \in Tables /\ Distinct(rows')
    BY <1>6, RolledBackTable DEF Crash, StoreInv
  <2>3. Cardinality({}) = 0
    BY FS_EmptySet
  <2>4. /\ tx' = {} /\ batch' = NoBatch /\ open' = FALSE /\ ops < MaxOps /\ ops' = ops + 1
        /\ UNCHANGED failures
    BY <1>6 DEF Crash
  <2>5. ops' \in 0 .. MaxOps /\ batch' \in NoBatch .. MaxBatch
    BY <1>1, <2>4 DEF StoreInv, NoBatch
  <2>6. tx' \in SUBSET Tables /\ Cardinality(tx') <= 1 /\ \A table \in tx' : Distinct(table)
    BY <2>3, <2>4
  <2>7. failures' \in 0 .. MaxFailures
    BY <2>4 DEF StoreInv
  <2>8. QED
    BY <2>1, <2>2, <2>4, <2>5, <2>6, <2>7 DEF StoreInv
<1>7. CASE EndBatch
  <2>1. /\ tx' = {} /\ batch' = NoBatch /\ UNCHANGED <<open, mem, ops>>
    BY <1>7 DEF EndBatch
  <2>2. rows' \in Tables /\ Distinct(rows')
    BY <1>7, RolledBackTable DEF EndBatch, StoreInv
  <2>3. failures' \in 0 .. MaxFailures /\ (failures' = 0 => failures = 0)
    BY <1>7, FailuresRise DEF EndBatch, StoreInv
  <2>4. Cardinality({}) = 0
    BY FS_EmptySet
  <2>5. QED
    BY <1>1, <2>1, <2>2, <2>3, <2>4 DEF StoreInv, NoBatch
<1>8. ASSUME NEW n \in 1 .. MaxBatch, InsertBatch(n)
      PROVE  StoreInv'
  <2>1. /\ open /\ ops < MaxOps /\ ops' = ops + 1 /\ batch' = n /\ batch = NoBatch
        /\ UNCHANGED <<rows, open, mem>> /\ tx' \in {tx, {rows}}
    BY <1>8 DEF InsertBatch, Begin
  <2>2. failures' \in 0 .. MaxFailures /\ (failures' = 0 => failures = 0)
    BY <1>8, FailuresRise DEF InsertBatch, StoreInv
  <2>3. Cardinality({rows}) = 1
    BY FS_Singleton
  <2>4. n \in NoBatch .. MaxBatch /\ n # NoBatch
    BY <1>1 DEF NoBatch
  <2>5. QED
    BY <1>1, <2>1, <2>2, <2>3, <2>4 DEF StoreInv
<1>9. ASSUME NEW l \in Log, RemoveLog(l)
      PROVE  StoreInv'
  <2>1. PICK w : w = WithoutOld(mem, l)
    OBVIOUS
  <2>2. IdsOf(mem, l) \in SUBSET (1 .. Len(mem.id_to_log)) /\ Sound(mem)
    BY IdsOfLog DEF Live, StoreInv
  <2>3. PICK m, ids : m = mem /\ ids = IdsOf(mem, l)
    OBVIOUS
  <2>4. Sound(w) /\ Live(w) = Live(m) \ ids
    BY <2>1, <2>2, <2>3, Tombstoned DEF WithoutOld
  <2>5. Bounded(m) => Bounded(w)
    <3>1. Cardinality(Live(w)) <= Cardinality(Live(m)) /\ Cardinality(Live(m)) \in Nat
          /\ Cardinality(Live(w)) \in Nat
      BY <2>2, <2>3, <2>4, LiveCount, FS_Subset
    <3>2. QED
      BY <3>1, StoreAssumption DEF Bounded
  <2>6. mem' = w /\ ops < MaxOps /\ ops' = ops + 1 /\ UNCHANGED <<tx, open, batch>>
    BY <1>9, <2>1 DEF RemoveLog, Begin
  <2>7. Sound(mem)' /\ (Bounded(mem) => Bounded(mem)')
    BY <2>3, <2>4, <2>5, <2>6
  <2>8. failures' \in 0 .. MaxFailures /\ (failures' = 0 => failures = 0)
    BY <1>9, FailuresRise DEF RemoveLog, StoreInv
  <2>9. rows' \in Tables /\ Distinct(rows')
    <3>1. DeleteRows(rows, {l}) \in Tables /\ Distinct(DeleteRows(rows, {l}))
      BY DeletedRows DEF StoreInv, Tables
    <3>2. QED
      BY <1>9, <3>1 DEF RemoveLog, StoreInv
  <2>10. QED
    BY <1>1, <2>6, <2>7, <2>8, <2>9 DEF StoreInv
<1>10. ASSUME NEW l \in Log, NEW v \in Vec, Insert(l, v)
       PROVE  StoreInv'
  <2>1. /\ Sound(mem)' /\ rows' \in Tables /\ Distinct(rows')
        /\ failures' \in 0 .. MaxFailures /\ (failures' = 0 => failures = 0 /\ Bounded(mem)')
    BY <1>10, InsertKeeps DEF Insert
  <2>2. ops < MaxOps /\ ops' = ops + 1 /\ UNCHANGED <<tx, open, batch>>
    BY <1>10 DEF Insert, Begin
  <2>3. QED
    BY <1>1, <2>1, <2>2 DEF StoreInv
<1>11. ASSUME NEW l \in Log, NEW v \in Vec, InsertNext(l, v)
       PROVE  StoreInv'
  <2>1. /\ Sound(mem)' /\ rows' \in Tables /\ Distinct(rows')
        /\ failures' \in 0 .. MaxFailures /\ (failures' = 0 => failures = 0 /\ Bounded(mem)')
    BY <1>11, InsertKeeps DEF InsertNext
  <2>2. batch > 0 /\ batch' = batch - 1 /\ UNCHANGED <<tx, open, ops>>
    BY <1>11 DEF InsertNext
  <2>3. batch' \in NoBatch .. MaxBatch /\ batch' # NoBatch /\ batch # NoBatch
    BY <1>1, <2>2 DEF NoBatch, StoreInv
  <2>4. QED
    BY <1>1, <2>1, <2>2, <2>3 DEF StoreInv
<1>12. CASE UNCHANGED vars
  <2>1. UNCHANGED <<rows, tx, open, mem, batch, failures, ops>>
    BY <1>12 DEF vars
  <2>2. Sound(mem)' /\ (failures = 0 => Bounded(mem)')
    BY <2>1 DEF StoreInv
  <2>3. QED
    BY <2>1, <2>2 DEF StoreInv
<1>13. QED
  BY <1>2, <1>3, <1>4, <1>5, <1>6, <1>7, <1>8, <1>9, <1>10, <1>11, <1>12 DEF Next

--------------------------------------------------------------------------------
\* id_to_log, its inverse and the tombstones of the index, which every call updates one by
\* one, always say the same of every point, whatever fails in the database.
THEOREM MapsAlwaysAgree == Spec => []MapsAgree
<1>1. StoreInv => MapsAgree
  <2> SUFFICES ASSUME StoreInv PROVE MapsAgree
    OBVIOUS
  <2>1. PICK m \in Mem : m = mem /\ Sound(m)
    BY DEF StoreInv, Sound
  <2>2. PICK n \in Nat : n = Len(m.id_to_log) /\ DOMAIN m.id_to_log = 1 .. n
    BY <2>1, LiveLogs
  <2>3. /\ Len(m.vec) = n /\ n <= MaxElements /\ m.dim \in Dims /\ m.trim_cursor \in 1 .. n + 1
        /\ m.deleted = (1 .. n) \ Live(m)
        /\ m.log_to_id = {<<m.id_to_log[id], id>> : id \in Live(m)}
        /\ \A i, j \in Live(m) : m.id_to_log[i] = m.id_to_log[j] => i = j
    BY <2>1, <2>2 DEF Sound
  <2>4. DOMAIN m.vec = 1 .. n
    BY <2>2, <2>3, LenProperties DEF Mem
  <2>5. Live(m) \subseteq 1 .. n /\ \A id \in Live(m) : m.id_to_log[id] \in Log
    BY <2>1, <2>2, LiveLogs DEF Live
  <2>6. DOMAIN m.vec \ m.deleted = Live(m)
    BY <2>3, <2>4, <2>5
  <2>7. Live(m) = {id \in DOMAIN m.id_to_log : m.id_to_log[id] # None}
    BY <2>2 DEF Live
  <2>8. m.log_to_id \in SUBSET (Log \X (1 .. MaxElements))
    <3>1. MaxElements \in Nat
      BY StoreAssumption
    <3>2. \A id \in Live(m) : <<m.id_to_log[id], id>> \in Log \X (1 .. MaxElements)
      BY <2>2, <2>3, <2>5, <3>1
    <3>3. QED
      BY <2>3, <3>2
  <2>9. TypeOK
    BY <2>1, <2>2, <2>3, <2>4, <2>8 DEF StoreInv, TypeOK, Mem, Tables, RowType, Dims
  <2>10. \A d, e \in m.log_to_id : d[1] = e[1] => d = e
    <3> SUFFICES ASSUME NEW d \in m.log_to_id, NEW e \in m.log_to_id, d[1] = e[1]
                 PROVE  d = e
      OBVIOUS
    <3>1. PICK i \in Live(m), j \in Live(m) : /\ d = <<m.id_to_log[i], i>>
                                              /\ e = <<m.id_to_log[j], j>>
      BY <2>3
    <3>2. QED
      BY <2>3, <3>1
  <2>11. QED
    BY <2>1, <2>2, <2>3, <2>6, <2>7, <2>9, <2>10 DEF MapsAgree
<1>2. QED
  BY <1>1, StoreInit, StoreNext, PTL DEF Spec

\* Trim drops enough of the points and the oldest of them, whatever was removed, replaced
\* or loaded before.
THEOREM OldestAlwaysGoFirst == Spec => []OldestGoFirst
<1>1. StoreInv => OldestGoFirst
  <2> SUFFICES ASSUME StoreInv PROVE OldestGoFirst
    OBVIOUS
  <2>1. Sound(mem) /\ (failures = 0 => Bounded(mem))
    BY DEF StoreInv
  <2>2. CursorBehind
    BY <2>1 DEF Sound, CursorBehind
  <2>3. Cardinality(mem.log_to_id) = Cardinality(Live(mem))
    BY <2>1, LiveCount
  <2>4. TrimKeepsBound
    BY <2>1, <2>3 DEF TrimKeepsBound, Bounded
  <2>5. QED
    BY <2>2, <2>4 DEF OldestGoFirst
<1>2. QED
  BY <1>1, StoreInit, StoreNext, PTL DEF Spec
--------------------------------------------------------------------------------
\* The points as rows, those without a log id too, and the rows of the live ones.
PointType == [log : Log \cup {None}, vec : Vec]
PointRows(m) == [id \in 1 .. Len(m.id_to_log) |-> Row(m.id_to_log[id], m.vec[id])]
ImageRows(m) == Picked(PointRows(m), Live(m))

LEMMA PointsAreRows ==
  ASSUME NEW m, Sound(m)
  PROVE  /\ PointRows(m) \in Seq(PointType) /\ Len(PointRows(m)) = Len(m.id_to_log)
         /\ \A id \in 1 .. Len(m.id_to_log) : /\ PointRows(m)[id] = Row(m.id_to_log[id], m.vec[id])
                                              /\ PointRows(m)[id].log = m.id_to_log[id]
                                              /\ PointRows(m)[id].vec = m.vec[id]
         /\ Picked([id \in DOMAIN m.id_to_log |-> Row(m.id_to_log[id], m.vec[id])],
                   {id \in DOMAIN m.id_to_log : m.id_to_log[id] # None}) = ImageRows(m)
<1>1. PICK n \in Nat : n = Len(m.id_to_log) /\ DOMAIN m.id_to_log = 1 .. n
  BY LiveLogs
<1>2. \A id \in 1 .. n : m.id_to_log[id] \in Log \cup {None} /\ m.vec[id] \in Vec
  <2>1. m.vec \in Seq(Vec) /\ Len(m.vec) = n
    BY <1>1 DEF Sound, Mem
  <2>2. \A id \in 1 .. n : m.vec[id] \in Vec
    BY <2>1, ElementOfSeq
  <2>3. QED
    BY <1>1, <2>2, LiveLogs
<1>3. PICK p : p = PointRows(m)
  OBVIOUS
<1>4. p = [id \in 1 .. n |-> Row(m.id_to_log[id], m.vec[id])]
  BY <1>1, <1>3 DEF PointRows
<1>5. \A id \in 1 .. n : /\ p[id] = Row(m.id_to_log[id], m.vec[id]) /\ p[id] \in PointType
                         /\ p[id].log = m.id_to_log[id] /\ p[id].vec = m.vec[id]
  BY <1>2, <1>4 DEF Row, PointType
<1>6. p \in Seq(PointType) /\ Len(p) = n
  <2>1. p \in [1 .. n -> PointType]
    BY <1>4, <1>5
  <2>2. p \in Seq(PointType)
    BY <2>1, SeqDef
  <2>3. QED
    BY <2>1, <2>2, LenProperties
<1>7. Picked([id \in DOMAIN m.id_to_log |-> Row(m.id_to_log[id], m.vec[id])],
             {id \in DOMAIN m.id_to_log : m.id_to_log[id] # None}) = ImageRows(m)
  <2>1. [id \in DOMAIN m.id_to_log |-> Row(m.id_to_log[id], m.vec[id])] = p
    BY <1>1, <1>4
  <2>2. {id \in DOMAIN m.id_to_log : m.id_to_log[id] # None} = Live(m)
    BY <1>1 DEF Live
  <2>3. QED
    BY <1>3, <2>1, <2>2 DEF ImageRows
<1>8. QED
  BY <1>1, <1>3, <1>5, <1>6, <1>7

\* As many rows as live points.
LEMMA ImageSize ==
  ASSUME NEW m, Sound(m)
  PROVE  /\ Len(ImageRows(m)) = Cardinality(Live(m))
         /\ Len(ImageRows(m)) \in Nat /\ Len(ImageRows(m)) <= MaxElements
<1>1. PICK p \in Seq(PointType) : p = PointRows(m) /\ Len(p) = Len(m.id_to_log)
  BY PointsAreRows
<1>2. PICK ids \in SUBSET (1 .. Len(p)) : ids = Live(m)
  BY <1>1 DEF Live
<1>3. Len(Picked(p, ids)) = Cardinality(ids) /\ Cardinality(ids) <= Len(p)
  BY PickedLength
<1>4. PICK c \in Nat, n \in Nat : c = Cardinality(Live(m)) /\ n = Len(m.id_to_log) /\ c <= n
  BY LiveCount, LiveLogs
<1>5. n <= MaxElements /\ MaxElements \in Nat
  BY <1>4, StoreAssumption DEF Sound
<1>6. Len(ImageRows(m)) = c
  BY <1>1, <1>2, <1>3, <1>4 DEF ImageRows
<1>7. QED
  BY <1>4, <1>5, <1>6

\* Points that lose their log ids are rows that are deleted.
LEMMA ImageWithout ==
  ASSUME NEW m, Sound(m), NEW w, Sound(w), NEW logs,
         Len(w.id_to_log) = Len(m.id_to_log), w.vec = m.vec,
         \A i \in 1 .. Len(m.id_to_log) :
           w.id_to_log[i] = IF m.id_to_log[i] \in logs THEN None ELSE m.id_to_log[i]
  PROVE  ImageRows(w) = DeleteRows(ImageRows(m), logs)
<1>1. PICK n \in Nat : n = Len(m.id_to_log)
  BY LiveLogs
<1>2. PICK p \in Seq(PointType) :
        /\ p = PointRows(m) /\ Len(p) = n
        /\ \A i \in 1 .. n : p[i] = Row(m.id_to_log[i], m.vec[i]) /\ p[i].log = m.id_to_log[i]
  BY <1>1, PointsAreRows
<1>3. PICK q \in Seq(PointType) :
        /\ q = PointRows(w) /\ Len(q) = n
        /\ \A i \in 1 .. n : q[i] = Row(w.id_to_log[i], w.vec[i])
  <2>1. Len(w.id_to_log) = n
    BY <1>1
  <2>2. QED
    BY <2>1, PointsAreRows
<1>4. PICK rest : rest = {i \in Live(m) : p[i].log \notin logs}
  OBVIOUS
<1>5. DeleteRows(Picked(p, Live(m)), logs) = Picked(p, rest)
  BY <1>4, DeletePicked
<1>6. ASSUME NEW i \in 1 .. n
      PROVE  (i \in Live(w) <=> i \in rest) /\ (i \in Live(w) => q[i] = p[i])
  <2>1. i \in Live(w) <=> w.id_to_log[i] # None
    BY <1>1 DEF Live
  <2>2. i \in Live(m) <=> m.id_to_log[i] # None
    BY <1>1 DEF Live
  <2>3. w.id_to_log[i] = IF m.id_to_log[i] \in logs THEN None ELSE m.id_to_log[i]
    BY <1>1
  <2>4. p[i].log = m.id_to_log[i]
    BY <1>2
  <2>5. i \in rest <=> i \in Live(m) /\ m.id_to_log[i] \notin logs
    BY <1>4, <2>4
  <2>6. i \in Live(w) <=> i \in rest
    BY <2>1, <2>2, <2>3, <2>5
  <2>7. i \in Live(w) => w.id_to_log[i] = m.id_to_log[i]
    BY <2>1, <2>3
  <2>8. QED
    BY <1>2, <1>3, <2>6, <2>7
<1>7. Picked(q, Live(w)) = Picked(p, rest)
  BY <1>2, <1>3, <1>6, PickedSame
<1>8. QED
  BY <1>2, <1>3, <1>5, <1>7 DEF ImageRows

\* A point more replaces the row of its log id.
LEMMA ImageOfAdded ==
  ASSUME NEW m, Sound(m), NEW l \in Log, NEW v \in Vec, ~ IsFull(m), NEW w, w = Add(m, l, v)
  PROVE  ImageRows(w) = ReplaceRow(ImageRows(m), l, v)
<1>1. PICK n \in Nat : n = Len(m.id_to_log)
  BY LiveLogs
<1>2. PICK kept : kept = {i \in Live(m) : m.id_to_log[i] # l}
  OBVIOUS
<1>3. /\ Sound(w) /\ Len(w.id_to_log) = n + 1 /\ w.id_to_log[n + 1] = l
      /\ \A i \in 1 .. n : w.id_to_log[i] = IF m.id_to_log[i] = l THEN None ELSE m.id_to_log[i]
      /\ w.vec = Append(m.vec, v)
      /\ Live(w) = kept \cup {n + 1}
  BY <1>1, <1>2, Added
<1>4. w.vec[n + 1] = v /\ \A i \in 1 .. n : w.vec[i] = m.vec[i]
  <2>1. m.vec \in Seq(Vec) /\ Len(m.vec) = n
    BY <1>1 DEF Sound, Mem
  <2>2. QED
    BY <1>3, <2>1, AppendProperties
<1>5. PICK p \in Seq(PointType) :
        /\ p = PointRows(m) /\ Len(p) = n
        /\ \A i \in 1 .. n : p[i] = Row(m.id_to_log[i], m.vec[i]) /\ p[i].log = m.id_to_log[i]
  BY <1>1, PointsAreRows
<1>6. PICK q \in Seq(PointType) :
        /\ q = PointRows(w) /\ Len(q) = n + 1
        /\ \A i \in 1 .. n + 1 : q[i] = Row(w.id_to_log[i], w.vec[i])
  BY <1>3, PointsAreRows
<1>7. PICK r \in PointType : r = Row(l, v)
  BY DEF Row, PointType
<1>8. PICK u \in Seq(PointType) : /\ u = Append(p, r) /\ Len(u) = n + 1 /\ u[n + 1] = r
                                  /\ \A i \in 1 .. n : u[i] = p[i]
  <2>1. PICK u : u = Append(p, r)
    OBVIOUS
  <2>2. /\ u \in Seq(PointType) /\ Len(u) = n + 1 /\ u[n + 1] = r
        /\ \A i \in 1 .. n : u[i] = p[i]
    BY <1>5, <2>1, AppendProperties
  <2>3. QED
    BY <2>1, <2>2
<1>9. Live(m) \subseteq 1 .. n
  BY <1>1 DEF Live
<1>10. ASSUME NEW i \in 1 .. n + 1, i \in Live(w)
       PROVE  q[i] = u[i]
  <2>1. CASE i = n + 1
    BY <1>3, <1>4, <1>6, <1>7, <1>8, <2>1
  <2>2. CASE i \in kept
    <3>1. i \in 1 .. n /\ w.id_to_log[i] = m.id_to_log[i]
      BY <1>2, <1>3, <1>9, <2>2
    <3>2. QED
      BY <1>4, <1>5, <1>6, <1>8, <3>1
  <2>3. QED
    BY <1>3, <1>10, <2>1, <2>2
<1>11. Picked(q, Live(w)) = Picked(u, Live(w))
  <2>1. PICK ids : ids = Live(w)
    OBVIOUS
  <2>2. Len(q) = Len(u) /\ \A i \in 1 .. Len(q) : i \in ids => q[i] = u[i]
    BY <1>6, <1>8, <1>10, <2>1
  <2>3. Picked(q, ids) = Picked(u, ids)
    BY <2>2, PickedSame
  <2>4. QED
    BY <2>1, <2>3
<1>12. Picked(u, Live(w)) = Append(Picked(p, Live(w)), r)
  <2>1. Len(p) + 1 \in Live(w)
    BY <1>3, <1>5
  <2>2. QED
    BY <1>8, <2>1, PickedOfAppend
<1>13. PICK rest : rest = {i \in Live(m) : p[i].log \notin {l}}
  OBVIOUS
<1>14. DeleteRows(Picked(p, Live(m)), {l}) = Picked(p, rest)
  BY <1>13, DeletePicked
<1>15. \A i \in 1 .. n : i \in Live(w) <=> i \in rest
  BY <1>2, <1>3, <1>5, <1>9, <1>13
<1>16. Picked(p, Live(w)) = Picked(p, rest)
  BY <1>5, <1>15, PickedSame
<1>17. QED
  BY <1>5, <1>6, <1>7, <1>11, <1>12, <1>14, <1>16 DEF ImageRows, ReplaceRow

\* The points that trim drops are the rows whose log ids it deletes.
LEMMA ImageOfTrimmed ==
  ASSUME NEW m, Sound(m), NEW w, w = Trimmed(m)
  PROVE  ImageRows(w) = DeleteRows(ImageRows(m), LogsOf(m, Victims(m)))
<1>1. PICK ids, logs : ids = Victims(m) /\ logs = LogsOf(m, ids)
  OBVIOUS
<1>2. /\ Sound(w) /\ Len(w.id_to_log) = Len(m.id_to_log) /\ w.vec = m.vec
      /\ \A i \in 1 .. Len(m.id_to_log) :
           w.id_to_log[i] = IF i \in ids THEN None ELSE m.id_to_log[i]
  BY <1>1, TrimmedImage
<1>3. ids \subseteq Live(m)
  BY <1>1, VictimsAreFirst
<1>4. \A i, j \in Live(m) : m.id_to_log[i] = m.id_to_log[j] => i = j
  BY DEF Sound
<1>5. \A i \in Live(m) : m.id_to_log[i] \in logs <=> i \in ids
  BY <1>1, <1>3, <1>4 DEF LogsOf
<1>6. ASSUME NEW i \in 1 .. Len(m.id_to_log)
      PROVE  w.id_to_log[i] = IF m.id_to_log[i] \in logs THEN None ELSE m.id_to_log[i]
  <2>1. i \in Live(m) \/ m.id_to_log[i] = None
    BY DEF Live
  <2>2. QED
    BY <1>2, <1>5, <2>1
<1>7. ImageRows(w) = DeleteRows(ImageRows(m), logs)
  BY <1>2, <1>6, ImageWithout
<1>8. QED
  BY <1>1, <1>7
--------------------------------------------------------------------------------
\* How many of the first n rows are trimmed.
Old(n) == IF Threshold = 0 \/ n <= Threshold THEN 0 ELSE n - Threshold

\* All rows have the dimension that a load which begins with dim takes.
Alike(table, dim) ==
  \A i \in 1 .. Len(table) :
    DimOf[table[i].vec] = IF dim = 0 THEN DimOf[table[1].vec] ELSE dim

\* s is the first i rows of table, but for the oldest; the load began with dim.
Holds(s, table, dim, i) ==
  /\ Len(s.mem.id_to_log) = i
  /\ \A j \in 1 .. i : /\ s.mem.id_to_log[j] = IF j <= Old(i) THEN None ELSE table[j].log
                       /\ s.mem.vec[j] = table[j].vec
  /\ s.mem.dim = IF i = 0 \/ dim # 0 THEN dim ELSE DimOf[table[1].vec]
  /\ s.gone = {table[j].log : j \in 1 .. Old(i)}

LEMMA OldType ==
  ASSUME NEW n \in Nat
  PROVE  Old(n) \in Nat /\ Old(n) <= n
BY StoreAssumption DEF Old

\* The live points of such a state.
LEMMA HeldPoints ==
  ASSUME NEW s \in LoadState, NEW table \in Tables, NEW dim, NEW i \in 0 .. Len(table),
         Holds(s, table, dim, i)
  PROVE  Live(s.mem) = Old(i) + 1 .. i
<1>1. i \in Nat /\ \A j \in 1 .. i : table[j].log \in Log
  <2>1. Len(table) \in Nat /\ \A j \in 1 .. Len(table) : table[j] \in RowType
    BY LenProperties, ElementOfSeq DEF Tables
  <2>2. QED
    BY <2>1 DEF RowType
<1>2. PICK a \in Nat : a = Old(i) /\ a <= i
  BY <1>1, OldType
<1>3. \A j \in 1 .. i : j \in Live(s.mem) <=> j > a
  BY <1>1, <1>2, LogAssumption DEF Holds, Live
<1>4. Live(s.mem) \subseteq 1 .. i
  BY DEF Holds, Live
<1>5. PICK L \in SUBSET (1 .. i) : L = Live(s.mem)
  BY <1>4
<1>6. \A j \in 1 .. i : j \in L <=> j > a
  BY <1>3, <1>5
<1>7. ASSUME NEW j
      PROVE  j \in L <=> j \in a + 1 .. i
  <2>1. j \in a + 1 .. i <=> j \in 1 .. i /\ j > a
    BY <1>1, <1>2
  <2>2. QED
    BY <1>6, <2>1
<1>8. QED
  BY <1>2, <1>5, <1>7

\* A row of a log id that has no point yet.
LEMMA AddedNew ==
  ASSUME NEW m, Sound(m), NEW l \in Log, NEW v \in Vec, ~ IsFull(m), NEW w, w = Add(m, l, v),
         NEW i \in Nat, Len(m.id_to_log) = i - 1, \A j \in 1 .. i - 1 : m.id_to_log[j] # l
  PROVE  /\ Sound(w) /\ Len(w.id_to_log) = i /\ w.id_to_log[i] = l /\ w.vec[i] = v
         /\ \A j \in 1 .. i - 1 : /\ w.id_to_log[j] = m.id_to_log[j]
                                  /\ w.vec[j] = m.vec[j]
         /\ w.dim = (IF m.dim = 0 THEN DimOf[v] ELSE m.dim)
         /\ Live(w) = Live(m) \cup {i}
<1>1. PICK n \in Nat : n = Len(m.id_to_log)
  BY LiveLogs
<1>2. n = i - 1 /\ n + 1 = i
  BY <1>1
<1>3. /\ Sound(w) /\ Len(w.id_to_log) = n + 1 /\ w.id_to_log[n + 1] = l
      /\ \A j \in 1 .. n : w.id_to_log[j] = IF m.id_to_log[j] = l THEN None ELSE m.id_to_log[j]
      /\ w.vec = Append(m.vec, v)
      /\ w.dim = (IF m.dim = 0 THEN DimOf[v] ELSE m.dim)
      /\ Live(w) = {j \in Live(m) : m.id_to_log[j] # l} \cup {n + 1}
  BY <1>1, Added
<1>4. w.vec[n + 1] = v /\ \A j \in 1 .. n : w.vec[j] = m.vec[j]
  <2>1. m.vec \in Seq(Vec) /\ Len(m.vec) = n
    BY <1>1 DEF Sound, Mem
  <2>2. QED
    BY <1>3, <2>1, AppendProperties
<1>5. \A j \in 1 .. n : m.id_to_log[j] # l
  BY <1>2
<1>6. {j \in Live(m) : m.id_to_log[j] # l} = Live(m)
  BY <1>1, <1>5 DEF Live
<1>7. QED
  BY <1>2, <1>3, <1>4, <1>5, <1>6

\* The next row becomes a point, and the oldest point goes if there is one too many.
LEMMA HoldsOneMore ==
  ASSUME NEW table \in Tables, Distinct(table), Len(table) <= MaxElements, NEW dim \in Nat,
         Alike(table, dim), NEW i \in 1 .. Len(table), NEW s \in LoadState,
         Holds(s, table, dim, i - 1)
  PROVE  Holds(LoadRow(s, table[i]), table, dim, i)
<1>1. PICK n \in Nat : n = Len(table)
  BY LenProperties DEF Tables
<1>2. i \in Nat /\ i >= 1 /\ i <= n /\ i - 1 \in Nat /\ i - 1 \in 0 .. n /\ n <= MaxElements
      /\ MaxElements \in Nat
  BY <1>1, StoreAssumption
<1>3. \A j \in 1 .. n : table[j] \in RowType /\ table[j].log \in Log /\ table[j].vec \in Vec
  <2>1. \A j \in 1 .. n : table[j] \in RowType
    BY <1>1, ElementOfSeq DEF Tables
  <2>2. QED
    BY <2>1 DEF RowType
<1>4. PICK m \in Mem, l \in Log, v \in Vec : m = s.mem /\ l = table[i].log /\ v = table[i].vec
  BY <1>1, <1>3 DEF LoadState
<1>5. Sound(m) /\ Bounded(m)
  BY <1>4 DEF LoadState
<1>6. PICK a \in Nat : a = Old(i - 1) /\ a <= i - 1
  BY <1>2, OldType
<1>7. /\ Len(m.id_to_log) = i - 1
      /\ \A j \in 1 .. i - 1 : /\ m.id_to_log[j] = IF j <= a THEN None ELSE table[j].log
                               /\ m.vec[j] = table[j].vec
      /\ m.dim = IF i - 1 = 0 \/ dim # 0 THEN dim ELSE DimOf[table[1].vec]
      /\ s.gone = {table[j].log : j \in 1 .. a}
  BY <1>4, <1>6 DEF Holds
<1>8. Live(m) = a + 1 .. i - 1
  BY <1>1, <1>2, <1>4, <1>6, HeldPoints
<1>9. PICK first \in Nat \ {0} : first = DimOf[table[1].vec]
  <2>1. 1 \in 1 .. n
    BY <1>2
  <2>2. QED
    BY <1>3, <2>1, StoreAssumption
<1>10. DimOf[v] = IF dim = 0 THEN first ELSE dim
  BY <1>1, <1>4, <1>9 DEF Alike
<1>11. ~ IsFull(m)
  BY <1>2, <1>7 DEF IsFull
<1>12. (IF m.dim = 0 THEN DimOf[v] ELSE m.dim) = IF dim = 0 THEN first ELSE dim
  BY <1>7, <1>9, <1>10
<1>13. Accepts(m, v)
  <2>1. PICK d : d = WithDim(m, v)
    OBVIOUS
  <2>2. d.dim = IF m.dim = 0 THEN DimOf[v] ELSE m.dim
    BY <1>5, <2>1, Dimensioned
  <2>3. QED
    BY <1>10, <1>11, <1>12, <2>1, <2>2 DEF Accepts
<1>14. PICK added : added = Add(m, l, v)
  OBVIOUS
<1>15. \A j \in 1 .. i - 1 : m.id_to_log[j] # l
  <2>1. \A j \in 1 .. i - 1 : j \in 1 .. n /\ table[j].log # l
    BY <1>1, <1>2, <1>4 DEF Distinct
  <2>2. QED
    BY <1>7, <2>1, LogAssumption
<1>16. /\ Sound(added) /\ Len(added.id_to_log) = i /\ added.id_to_log[i] = l /\ added.vec[i] = v
       /\ \A j \in 1 .. i - 1 : /\ added.id_to_log[j] = m.id_to_log[j]
                                /\ added.vec[j] = m.vec[j]
       /\ added.dim = (IF m.dim = 0 THEN DimOf[v] ELSE m.dim)
       /\ Live(added) = Live(m) \cup {i}
  <2>1. Len(m.id_to_log) = i - 1
    BY <1>7
  <2>2. QED
    BY <1>2, <1>5, <1>11, <1>14, <1>15, <2>1, AddedNew
<1>17. \A j \in 1 .. i : added.id_to_log[j] = IF j <= a THEN None ELSE table[j].log
  <2>1. a < i /\ added.id_to_log[i] = table[i].log
    BY <1>2, <1>4, <1>6, <1>16
  <2>2. \A j \in 1 .. i - 1 : added.id_to_log[j] = IF j <= a THEN None ELSE table[j].log
    BY <1>7, <1>16
  <2>3. \A j \in 1 .. i : j \in 1 .. i - 1 \/ j = i
    BY <1>2
  <2>4. QED
    BY <1>2, <1>6, <2>1, <2>2, <2>3
<1>18. \A j \in 1 .. i : added.vec[j] = table[j].vec
  <2>1. \A j \in 1 .. i : j \in 1 .. i - 1 \/ j = i
    BY <1>2
  <2>2. QED
    BY <1>4, <1>7, <1>16, <2>1
<1>19. Live(added) = a + 1 .. i
  <2>1. a + 1 .. i = (a + 1 .. i - 1) \cup {i}
    BY <1>2, <1>6
  <2>2. QED
    BY <1>8, <1>16, <2>1
<1>20. Cardinality(Live(added)) = i - a
  BY <1>2, <1>6, <1>19, FS_Interval
<1>21. Threshold \in Nat /\ Excess(added) <= 1 /\ Excess(added) \in Nat
       /\ Excess(added) = IF Threshold = 0 \/ i - a <= Threshold THEN 0 ELSE (i - a) - Threshold
  BY <1>5, <1>11, <1>14, <1>16, <1>20, BoundKept, ExcessType, StoreAssumption
<1>22. Old(i) = a + Excess(added)
  BY <1>2, <1>6, <1>21 DEF Old
<1>23. Victims(added) = a + 1 .. Old(i) /\ Old(i) \in Nat /\ Old(i) <= i
  <2>1. CASE Excess(added) = 0
    <3>1. Victims(added) = {}
      BY <1>16, <1>21, <2>1, OneTooMany
    <3>2. Old(i) = a
      BY <1>22, <2>1, <1>6
    <3>3. QED
      BY <1>2, <1>6, <3>1, <3>2
  <2>2. CASE Excess(added) = 1
    <3>1. PICK w \in Live(added) : /\ \A j \in Live(added) : w <= j
                                   /\ Victims(added) = {w}
      BY <1>16, <1>21, <2>2, OneTooMany
    <3>2. w = a + 1
      <4>1. a + 1 \in a + 1 .. i /\ w \in a + 1 .. i
        BY <1>2, <1>6, <1>19, <3>1
      <4>2. w <= a + 1
        BY <1>19, <3>1, <4>1
      <4>3. QED
        BY <1>2, <1>6, <4>1, <4>2
    <3>3. Old(i) = a + 1
      BY <1>22, <2>2
    <3>4. QED
      BY <1>2, <1>6, <3>1, <3>2, <3>3
  <2>3. QED
    BY <1>21, <2>1, <2>2
<1>24. PICK w : w = Trimmed(added)
  OBVIOUS
<1>25. /\ Len(w.id_to_log) = i /\ w.vec = added.vec /\ w.dim = added.dim
       /\ \A j \in 1 .. i :
            w.id_to_log[j] = IF j \in Victims(added) THEN None ELSE added.id_to_log[j]
  BY <1>16, <1>24, TrimmedImage
<1>26. \A j \in 1 .. i : w.id_to_log[j] = IF j <= Old(i) THEN None ELSE table[j].log
  <2>1. PICK b \in Nat : b = Old(i) /\ a <= b
    BY <1>6, <1>21, <1>22, <1>23
  <2>2. \A j \in 1 .. i : j \in Victims(added) <=> j > a /\ j <= b
    BY <1>2, <1>6, <1>23, <2>1
  <2>3. QED
    BY <1>2, <1>6, <1>17, <1>25, <2>1, <2>2
<1>27. s.gone \cup LogsOf(added, Victims(added)) = {table[j].log : j \in 1 .. Old(i)}
  <2>1. PICK b \in Nat : b = Old(i) /\ a <= b /\ b <= i
    BY <1>21, <1>22, <1>23
  <2>2. \A j \in a + 1 .. b : added.id_to_log[j] = table[j].log
    BY <1>2, <1>6, <1>17, <2>1
  <2>3. LogsOf(added, Victims(added)) = {table[j].log : j \in a + 1 .. b}
    BY <1>23, <2>1, <2>2 DEF LogsOf
  <2>4. 1 .. b = (1 .. a) \cup (a + 1 .. b)
    BY <1>6, <2>1
  <2>5. QED
    BY <1>7, <2>1, <2>3, <2>4
<1>28. PICK t : t = LoadRow(s, table[i])
  OBVIOUS
<1>29. t.mem = w /\ t.gone = {table[j].log : j \in 1 .. Old(i)}
  BY <1>4, <1>13, <1>14, <1>24, <1>27, <1>28 DEF LoadRow
<1>30. w.dim = IF i = 0 \/ dim # 0 THEN dim ELSE DimOf[table[1].vec]
  BY <1>2, <1>9, <1>12, <1>16, <1>25
<1>31. QED
  BY <1>18, <1>25, <1>26, <1>28, <1>29, <1>30 DEF Holds
--------------------------------------------------------------------------------
\* A load of a table with one dimension holds all of it but the oldest rows.
LEMMA LoadedHolds ==
  ASSUME NEW m, m.dim \in Dims, m.dim \in Nat, NEW table \in Tables, Distinct(table),
         Len(table) <= MaxElements, Alike(table, m.dim)
  PROVE  Holds(Loaded(m, table, Len(table)), table, m.dim, Len(table))
<1>1. PICK n \in Nat : n = Len(table)
  BY LenProperties DEF Tables
<1>2. PICK dim \in Nat : dim = m.dim
  OBVIOUS
<1>3. PICK f : Loads(f, m, table, n)
  BY <1>1, LoadedRowByRow DEF Tables
<1>4. /\ f \in [0 .. n -> LoadState] /\ f[0] = [mem |-> Reset(m), gone |-> {}]
      /\ \A i \in 1 .. n : f[i] = LoadRow(f[i - 1], table[i])
      /\ Loaded(m, table, n) = f[n]
  BY <1>3 DEF Loads
<1> DEFINE T == {i \in 0 .. n : Holds(f[i], table, dim, i)}
<1>5. 0 \in T
  <2>1. PICK r : r = Reset(m)
    OBVIOUS
  <2>2. r.id_to_log = <<>> /\ r.dim = dim
    BY <1>2, <2>1, ResetIsSound
  <2>3. Len(r.id_to_log) = 0 /\ Old(0) = 0
    BY <2>2, EmptySeq, StoreAssumption DEF Old
  <2>4. f[0].mem = r /\ f[0].gone = {}
    BY <1>4, <2>1
  <2>5. {table[j].log : j \in 1 .. Old(0)} = {}
    BY <2>3
  <2>6. Holds(f[0], table, dim, 0)
    BY <2>2, <2>3, <2>4, <2>5 DEF Holds
  <2>7. QED
    BY <1>1, <2>6
<1>6. ASSUME NEW i \in 1 .. n, i - 1 \in T
      PROVE  i \in T
  <2>1. i - 1 \in 0 .. n /\ i \in 0 .. n
    BY <1>1
  <2>2. PICK s \in LoadState : s = f[i - 1] /\ Holds(s, table, dim, i - 1)
    BY <1>4, <1>6, <2>1
  <2>3. Holds(LoadRow(s, table[i]), table, dim, i)
    BY <1>1, <1>2, <2>2, HoldsOneMore
  <2>4. QED
    BY <1>4, <2>1, <2>2, <2>3
<1>7. n \in T
  <2> HIDE DEF T
  <2>1. \A i \in 1 .. n : i - 1 \in T => i \in T
    BY <1>6
  <2>2. 0 .. n \subseteq T
    BY <1>1, <1>5, <2>1, Climbing
  <2>3. n \in 0 .. n
    BY <1>1
  <2>4. QED
    BY <2>2, <2>3
<1>8. QED
  BY <1>1, <1>2, <1>4, <1>7

\* The rows that stay are the newest ones that may live.
LEMMA NewestRows ==
  ASSUME NEW S, NEW table \in Seq(S), NEW n, n = Len(table)
  PROVE  Newest(table) = Picked(table, Old(n) + 1 .. n)
<1>1. PICK a \in Nat : a = Old(n) /\ a <= n /\ n \in Nat
  BY LenProperties, OldType
<1>2. Picked(table, a + 1 .. n) = SubSeq(table, a + 1, n)
  BY <1>1, PickedFrom
<1>3. CASE Threshold = 0 \/ n <= Threshold
  <2>1. a = 0
    BY <1>1, <1>3 DEF Old
  <2>2. PICK t : t = SubSeq(table, 1, n)
    OBVIOUS
  <2>3. t = table
    BY <1>1, <2>2, SubSeqFull
  <2>4. QED
    BY <1>1, <1>2, <1>3, <2>1, <2>2, <2>3 DEF Newest
<1>4. CASE ~ (Threshold = 0 \/ n <= Threshold)
  BY <1>1, <1>2, <1>4 DEF Old, Newest
<1>5. QED
  BY <1>3, <1>4

\* The rows and the image that such a load leaves.
LEMMA LoadedRows ==
  ASSUME NEW table \in Tables, Distinct(table), NEW dim, NEW s \in LoadState, NEW n,
         n = Len(table), Holds(s, table, dim, n)
  PROVE  /\ ImageRows(s.mem) = Newest(table)
         /\ DeleteRows(table, s.gone) = Newest(table)
<1>1. PICK a \in Nat : a = Old(n) /\ a <= n /\ n \in Nat
  BY LenProperties, OldType DEF Tables
<1>2. PICK m, gone : m = s.mem /\ gone = s.gone
  OBVIOUS
<1>3. /\ Sound(m) /\ Len(m.id_to_log) = n /\ Live(m) = a + 1 .. n
      /\ \A j \in 1 .. n : /\ m.id_to_log[j] = IF j <= a THEN None ELSE table[j].log
                           /\ m.vec[j] = table[j].vec
      /\ gone = {table[j].log : j \in 1 .. a}
  <2>1. n \in 0 .. Len(table)
    BY <1>1
  <2>2. Live(m) = a + 1 .. n
    BY <1>1, <1>2, <2>1, HeldPoints
  <2>3. Sound(m)
    BY <1>2 DEF LoadState
  <2>4. QED
    BY <1>1, <1>2, <2>2, <2>3 DEF Holds
<1>4. \A j \in 1 .. n : table[j] \in RowType /\ table[j] \in PointType
                        /\ table[j] = Row(table[j].log, table[j].vec)
  <2>1. \A j \in 1 .. n : table[j] \in RowType
    BY ElementOfSeq DEF Tables
  <2>2. QED
    BY <2>1 DEF RowType, PointType, Row
<1>5. table \in Seq(PointType)
  <2>1. DOMAIN table = 1 .. n
    BY LenProperties DEF Tables
  <2>2. table \in [1 .. n -> PointType]
    BY <1>4, <2>1, SeqDef DEF Tables
  <2>3. QED
    BY <1>1, <2>2, SeqDef
<1>6. PICK p \in Seq(PointType) :
        /\ p = PointRows(m) /\ Len(p) = n
        /\ \A j \in 1 .. n : p[j] = Row(m.id_to_log[j], m.vec[j])
  BY <1>3, PointsAreRows
<1>7. \A j \in 1 .. n : j \in a + 1 .. n => p[j] = table[j]
  BY <1>1, <1>3, <1>4, <1>6
<1>8. PICK ids : ids = a + 1 .. n
  OBVIOUS
<1>9. Picked(p, ids) = Picked(table, ids)
  <2>1. Len(p) = Len(table) /\ \A j \in 1 .. Len(p) : j \in ids => p[j] = table[j]
    BY <1>6, <1>7, <1>8
  <2>2. QED
    BY <1>5, <2>1, PickedSame
<1>10. Newest(table) = Picked(table, ids)
  BY <1>1, <1>5, <1>8, NewestRows
<1>11. ImageRows(m) = Newest(table)
  BY <1>3, <1>6, <1>8, <1>9, <1>10 DEF ImageRows
<1>12. PICK rest : rest = {j \in DOMAIN table : table[j].log \notin gone}
  OBVIOUS
<1>13. \A j \in 1 .. n : j \in rest <=> j \in ids
  <2>1. DOMAIN table = 1 .. n
    BY LenProperties DEF Tables
  <2>2. ASSUME NEW j \in 1 .. n
        PROVE  table[j].log \in gone <=> j <= a
    <3>1. j <= a => j \in 1 .. a
      BY <1>1
    <3>2. \A k \in 1 .. a : k \in 1 .. n /\ (table[k].log = table[j].log => k = j)
      BY <1>1 DEF Distinct
    <3>3. \A k \in 1 .. a : k <= a
      BY <1>1
    <3>4. QED
      BY <1>3, <3>1, <3>2, <3>3
  <2>3. \A j \in 1 .. n : j \in ids <=> ~ (j <= a)
    BY <1>1, <1>8
  <2>4. QED
    BY <1>12, <2>1, <2>2, <2>3
<1>14. Picked(table, rest) = Picked(table, ids)
  <2>1. \A j \in 1 .. Len(table) : j \in rest <=> j \in ids
    BY <1>13
  <2>2. QED
    BY <1>5, <2>1, PickedSame
<1>15. DeleteRows(table, gone) = Newest(table)
  BY <1>10, <1>12, <1>14 DEF DeleteRows
<1>16. QED
  BY <1>2, <1>11, <1>15
--------------------------------------------------------------------------------
\* A load in which no statement fails.
LEMMA LoadStep ==
  ASSUME StoreInv, NEW m, m.dim \in Dims, m.dim \in Nat, LoadAll(m), failures' = failures,
         Len(rows) <= MaxElements, Alike(rows, m.dim)
  PROVE  /\ LiveRows' = rows' /\ rows' = Newest(rows) /\ ImageRows(mem)' = rows'
         /\ mem'.dim = IF Len(rows) = 0 \/ m.dim # 0 THEN m.dim ELSE DimOf[rows[1].vec]
<1>1. PICK table \in Tables, n \in Nat :
        /\ table = rows /\ Distinct(table) /\ n = Len(rows) /\ n = Len(table)
        /\ failures \in Nat /\ n <= MaxElements /\ Alike(table, m.dim)
  <2>1. rows \in Tables /\ Distinct(rows) /\ failures \in 0 .. MaxFailures /\ MaxFailures \in Nat
    BY StoreAssumption DEF StoreInv
  <2>2. Len(rows) \in Nat
    BY <2>1, LenProperties DEF Tables
  <2>3. QED
    BY <2>1, <2>2
<1>2. PICK k \in 0 .. n : \E kept \in SUBSET Loaded(m, table, k).gone :
        /\ Failing(Cardinality(kept) + IF k < n THEN 1 ELSE 0)
        /\ mem' = Loaded(m, table, k).mem
        /\ rows' = DeleteRows(table, Loaded(m, table, k).gone \ kept)
  BY <1>1 DEF LoadAll
<1>3. PICK s \in LoadState : s = Loaded(m, table, k)
  BY <1>1, <1>2, LoadedIsSound DEF Tables
<1>4. PICK kept \in SUBSET s.gone :
        /\ Failing(Cardinality(kept) + IF k < n THEN 1 ELSE 0)
        /\ mem' = s.mem
        /\ rows' = DeleteRows(table, s.gone \ kept)
  BY <1>2, <1>3
<1>5. IsFiniteSet(kept) /\ Cardinality(kept) \in Nat
  <2>1. IsFiniteSet(s.gone)
    BY DEF LoadState
  <2>2. QED
    BY <2>1, FS_Subset, FS_CardinalityType
<1>6. PICK c \in Nat : c = Cardinality(kept)
  BY <1>5
<1>7. c + (IF k < n THEN 1 ELSE 0) = 0
  <2>1. PICK b \in Nat : b = c + (IF k < n THEN 1 ELSE 0)
    OBVIOUS
  <2>2. failures' = failures + b
    BY <1>4, <1>6, <2>1 DEF Failing
  <2>3. QED
    BY <1>1, <2>1, <2>2
<1>8. k = n /\ c = 0
  BY <1>1, <1>2, <1>6, <1>7
<1>9. kept = {}
  BY <1>5, <1>6, <1>8, FS_EmptySet
<1>10. PICK dim \in Nat : dim = m.dim
  OBVIOUS
<1>11. Holds(s, table, dim, n)
  <2>1. Holds(Loaded(m, table, n), table, dim, n)
    BY <1>1, <1>10, LoadedHolds
  <2>2. QED
    BY <1>3, <1>8, <2>1
<1>12. ImageRows(s.mem) = Newest(table) /\ DeleteRows(table, s.gone) = Newest(table)
  BY <1>1, <1>11, LoadedRows
<1>13. rows' = Newest(table)
  <2>1. s.gone \ kept = s.gone
    BY <1>9
  <2>2. QED
    BY <1>4, <1>12, <2>1
<1>14. PICK w : w = mem'
  OBVIOUS
<1>15. Sound(w) /\ ImageRows(w) = rows'
  BY <1>4, <1>12, <1>13, <1>14 DEF LoadState
<1>16. LiveRows' = ImageRows(w)
  <2>1. Picked([id \in DOMAIN w.id_to_log |-> Row(w.id_to_log[id], w.vec[id])],
               {id \in DOMAIN w.id_to_log : w.id_to_log[id] # None}) = ImageRows(w)
    BY <1>15, PointsAreRows
  <2>2. QED
    BY <1>14, <2>1 DEF LiveRows
<1>17. ImageRows(mem)' = ImageRows(w)
  BY <1>14 DEF ImageRows, PointRows, Live
<1>18. mem'.dim = IF n = 0 \/ m.dim # 0 THEN m.dim ELSE DimOf[rows[1].vec]
  BY <1>1, <1>4, <1>10, <1>11 DEF Holds
<1>19. QED
  BY <1>1, <1>13, <1>15, <1>16, <1>17, <1>18

\* Whatever failed before, an open or a rebuild of a table with one dimension brings back
\* exactly its newest rows and leaves no others in it: the cursor of trim, the ids and the
\* dimension start anew, and rows that are trimmed on the way are deleted as well.
THEOREM LoadsAlwaysAgree == Spec => LoadAgrees
<1> DEFINE Load == Open \/ RebuildIndex
           Fine == failures' = failures /\ OneDim /\ Len(rows) <= MaxElements
           Done == LiveRows' = rows' /\ rows' = Newest(rows)
<1>1. StoreInv /\ [Next]_vars => [Load /\ Fine => Done]_vars
  <2> SUFFICES ASSUME StoreInv, Load, Fine PROVE Done
    OBVIOUS
  <2>1. ConfigDim \in Nat
    BY StoreAssumption
  <2>2. DOMAIN rows = 1 .. Len(rows)
    BY LenProperties DEF StoreInv, Tables
  <2>3. CASE Open
    <3>1. PICK m : m = [Closed EXCEPT !.dim = ConfigDim]
      OBVIOUS
    <3>2. m.dim = ConfigDim /\ m.dim \in Dims
      BY <3>1 DEF Closed, Dims
    <3>3. LoadAll(m) /\ ~ open
      BY <2>3, <3>1 DEF Open
    <3>4. Alike(rows, m.dim)
      BY <2>2, <3>2, <3>3 DEF OneDim, Alike
    <3>5. QED
      BY <2>1, <3>2, <3>3, <3>4, LoadStep
  <2>4. CASE RebuildIndex
    <3>1. PICK m : m = mem
      OBVIOUS
    <3>2. m.dim \in Dims /\ m.dim \in Nat
      BY <3>1 DEF StoreInv, Sound, Mem
    <3>3. LoadAll(m) /\ open
      BY <2>4, <3>1 DEF RebuildIndex, Begin
    <3>4. Alike(rows, m.dim)
      BY <2>2, <3>1, <3>3 DEF OneDim, Alike
    <3>5. QED
      BY <3>2, <3>3, <3>4, LoadStep
  <2>5. QED
    BY <2>3, <2>4
<1>2. StoreInv /\ [Next]_vars => StoreInv'
  BY StoreNext
<1>3. Spec => []StoreInv
  BY <1>2, StoreInit, PTL DEF Spec
<1>4. QED
  BY <1>1, <1>3, PTL DEF Spec, LoadAgrees
--------------------------------------------------------------------------------
\* No more rows than may live, and all of one dimension.
Small(table) == Len(table) <= MaxElements /\ (Threshold > 0 => Len(table) <= Threshold)
AllOf(table, dim) == \A i \in 1 .. Len(table) : DimOf[table[i].vec] = dim

\* m is the image of table, and could hold each table of old as well.
Mirrored(m, table, old) ==
  /\ ImageRows(m) = table
  /\ ConfigDim # 0 => m.dim = ConfigDim
  /\ \A t \in old \cup {table} : Small(t) /\ AllOf(t, m.dim)

\* While no statement has failed, the image is that of the table, and would be that of the
\* table at BEGIN; when the store is closed, the table can be loaded as it is.
ImageInv ==
  failures = 0 => IF open THEN Mirrored(mem, rows, tx)
                  ELSE Small(rows) /\ Alike(rows, ConfigDim)

LEMMA RowVectors ==
  ASSUME NEW table \in Tables
  PROVE  /\ Len(table) \in Nat
         /\ \A i \in 1 .. Len(table) : table[i].vec \in Vec /\ DimOf[table[i].vec] \in Nat \ {0}
<1>1. Len(table) \in Nat /\ \A i \in 1 .. Len(table) : table[i] \in RowType
  BY LenProperties, ElementOfSeq DEF Tables
<1>2. \A i \in 1 .. Len(table) : table[i].vec \in Vec
  BY <1>1 DEF RowType
<1>3. QED
  BY <1>1, <1>2, StoreAssumption

\* A table of dimension 0 has no rows.
LEMMA NoRowsYet ==
  ASSUME NEW table \in Tables, AllOf(table, 0)
  PROVE  Len(table) = 0 /\ \A dim : AllOf(table, dim)
<1>1. PICK n \in Nat : n = Len(table)
  BY RowVectors
<1>2. \A i \in 1 .. n : FALSE
  BY <1>1, RowVectors DEF AllOf
<1>3. n = 0
  <2>1. n # 0 => 1 \in 1 .. n
    OBVIOUS
  <2>2. QED
    BY <1>2, <2>1
<1>4. QED
  BY <1>1, <1>2, <1>3 DEF AllOf

\* Rows of one dimension are rows a load takes.
LEMMA AlikeRows ==
  ASSUME NEW table \in Tables, NEW dim, AllOf(table, dim), NEW first,
         first = dim \/ first = 0
  PROVE  Alike(table, first)
<1>1. PICK n \in Nat : n = Len(table)
  BY RowVectors
<1>2. \A i \in 1 .. n : 1 \in 1 .. n
  OBVIOUS
<1>3. \A i \in 1 .. n : DimOf[table[i].vec] = dim
  BY <1>1 DEF AllOf
<1>4. QED
  BY <1>1, <1>2, <1>3 DEF Alike

LEMMA SmallImage ==
  ASSUME NEW m, Sound(m), Bounded(m)
  PROVE  Small(ImageRows(m))
<1>1. /\ Len(ImageRows(m)) = Cardinality(Live(m))
      /\ Len(ImageRows(m)) <= MaxElements
  BY ImageSize
<1>2. QED
  BY <1>1 DEF Small, Bounded

LEMMA DeletedAllOf ==
  ASSUME NEW table \in Tables, NEW logs, NEW dim, AllOf(table, dim)
  PROVE  AllOf(DeleteRows(table, logs), dim)
<1>1. PICK t : t = DeleteRows(table, logs)
  OBVIOUS
<1>2. \A k \in 1 .. Len(t) : \E i \in 1 .. Len(table) : t[k] = table[i]
  BY <1>1, DeletedRows DEF Tables
<1>3. QED
  BY <1>1, <1>2 DEF AllOf

LEMMA ReplacedAllOf ==
  ASSUME NEW table \in Tables, NEW l \in Log, NEW v \in Vec, AllOf(table, DimOf[v])
  PROVE  AllOf(ReplaceRow(table, l, v), DimOf[v])
<1>1. PICK t \in Tables : t = DeleteRows(table, {l})
  BY DeletedRows DEF Tables
<1>2. PICK n \in Nat : n = Len(t)
  BY RowVectors
<1>3. PICK r \in RowType : r = Row(l, v) /\ r.vec = v
  <2>1. Row(l, v) \in RowType /\ Row(l, v).vec = v
    BY DEF RowType, Row
  <2>2. QED
    BY <2>1
<1>4. PICK u : u = Append(t, r)
  OBVIOUS
<1>5. Len(u) = n + 1 /\ u[n + 1] = r /\ \A k \in 1 .. n : u[k] = t[k]
  BY <1>1, <1>2, <1>4, AppendProperties DEF Tables
<1>6. \A k \in 1 .. n : DimOf[t[k].vec] = DimOf[v]
  BY <1>1, <1>2, DeletedAllOf DEF AllOf
<1>7. \A k \in 1 .. n + 1 : k \in 1 .. n \/ k = n + 1
  BY <1>2
<1>8. AllOf(u, DimOf[v])
  BY <1>3, <1>5, <1>6, <1>7 DEF AllOf
<1>9. QED
  BY <1>1, <1>3, <1>4, <1>8 DEF ReplaceRow

\* The first vector brings its dimension, and there is no row yet.
LEMMA MirrorDimensioned ==
  ASSUME NEW m, Sound(m), NEW table \in Tables, NEW old \in SUBSET Tables,
         Mirrored(m, table, old), NEW v \in Vec, NEW d, d = WithDim(m, v)
  PROVE  Mirrored(d, table, old)
<1>1. /\ Sound(d) /\ d.dim = (IF m.dim = 0 THEN DimOf[v] ELSE m.dim)
      /\ d.id_to_log = m.id_to_log /\ d.vec = m.vec /\ Live(d) = Live(m)
  BY Dimensioned
<1>2. ImageRows(d) = table
  BY <1>1 DEF Mirrored, ImageRows, PointRows
<1>3. ConfigDim # 0 => d.dim = ConfigDim
  BY <1>1 DEF Mirrored
<1>4. ASSUME NEW t \in old \cup {table}
      PROVE  Small(t) /\ AllOf(t, d.dim)
  <2>1. Small(t) /\ AllOf(t, m.dim) /\ t \in Tables
    BY DEF Mirrored
  <2>2. CASE m.dim = 0
    BY <2>1, <2>2, NoRowsYet
  <2>3. CASE m.dim # 0
    BY <1>1, <2>1, <2>3
  <2>4. QED
    BY <2>1, <2>2, <2>3
<1>5. QED
  BY <1>2, <1>3, <1>4 DEF Mirrored

\* A point more with its row, and the oldest trimmed from both.
LEMMA MirrorInserted ==
  ASSUME NEW m, Sound(m), Bounded(m), NEW table \in Tables, NEW old \in SUBSET Tables,
         Mirrored(m, table, old), NEW l \in Log, NEW v \in Vec, Accepts(m, v),
         NEW added, added = Add(m, l, v), NEW w, w = Trimmed(added)
  PROVE  Mirrored(w, DeleteRows(ReplaceRow(table, l, v), LogsOf(added, Victims(added))), old)
<1>1. PICK d : d = WithDim(m, v)
  OBVIOUS
<1>2. d.dim = (IF m.dim = 0 THEN DimOf[v] ELSE m.dim) /\ d.dim = DimOf[v] /\ ~ IsFull(m)
  BY <1>1, Dimensioned DEF Accepts
<1>3. Mirrored(d, table, old)
  BY <1>1, MirrorDimensioned
<1>4. /\ Sound(added) /\ added.dim = d.dim
      /\ ImageRows(added) = ReplaceRow(table, l, v)
  <2>1. ImageRows(m) = table
    BY DEF Mirrored
  <2>2. ImageRows(added) = ReplaceRow(ImageRows(m), l, v)
    BY <1>2, ImageOfAdded
  <2>3. Sound(added) /\ added.dim = (IF m.dim = 0 THEN DimOf[v] ELSE m.dim)
    <3>1. PICK n : n = Len(m.id_to_log)
      OBVIOUS
    <3>2. QED
      BY <1>2, <3>1, Added
  <2>4. QED
    BY <1>2, <2>1, <2>2, <2>3
<1>5. PICK t \in Tables : t = ReplaceRow(table, l, v)
  <2>1. ReplaceRow(table, l, v) \in Tables
    <3>1. PICK r \in RowType : r = Row(l, v)
      BY DEF RowType, Row
    <3>2. PICK u \in Tables : u = DeleteRows(table, {l})
      BY DeletedRows DEF Tables
    <3>3. QED
      BY <3>1, <3>2, AppendProperties DEF ReplaceRow, Tables
  <2>2. QED
    BY <2>1
<1>6. PICK logs : logs = LogsOf(added, Victims(added))
  OBVIOUS
<1>7. PICK new \in Tables : new = DeleteRows(t, logs)
  BY DeletedRows DEF Tables
<1>8. Sound(w) /\ w.dim = DimOf[v] /\ ImageRows(w) = new
  <2>1. ImageRows(w) = DeleteRows(ImageRows(added), LogsOf(added, Victims(added)))
    BY <1>4, ImageOfTrimmed
  <2>2. Sound(w) /\ w.dim = added.dim
    BY <1>4, TrimmedImage
  <2>3. QED
    BY <1>2, <1>4, <1>5, <1>6, <1>7, <2>1, <2>2
<1>9. Bounded(w)
  BY <1>2, BoundKept
<1>10. Small(new)
  BY <1>8, <1>9, SmallImage
<1>11. AllOf(new, DimOf[v])
  <2>1. AllOf(table, DimOf[v])
    BY <1>2, <1>3 DEF Mirrored
  <2>2. AllOf(t, DimOf[v])
    BY <1>5, <2>1, ReplacedAllOf
  <2>3. QED
    BY <1>7, <2>2, DeletedAllOf
<1>12. \A o \in old : Small(o) /\ AllOf(o, DimOf[v])
  BY <1>2, <1>3 DEF Mirrored
<1>13. ConfigDim # 0 => w.dim = ConfigDim
  BY <1>2, <1>3, <1>8 DEF Mirrored
<1>14. Mirrored(w, new, old)
  BY <1>8, <1>10, <1>11, <1>12, <1>13 DEF Mirrored
<1>15. QED
  BY <1>5, <1>6, <1>7, <1>14

\* A log id less in both.
LEMMA MirrorRemoved ==
  ASSUME NEW m, Sound(m), Bounded(m), NEW table \in Tables, NEW old \in SUBSET Tables,
         Mirrored(m, table, old), NEW l \in Log, NEW w, w = WithoutOld(m, l)
  PROVE  Mirrored(w, DeleteRows(table, {l}), old)
<1>1. PICK ids, logs : ids = IdsOf(m, l) /\ logs = {l}
  OBVIOUS
<1>2. ids = {i \in Live(m) : m.id_to_log[i] = l} /\ ids \in SUBSET (1 .. Len(m.id_to_log))
  BY <1>1, IdsOfLog DEF Live
<1>3. /\ Sound(w) /\ Len(w.id_to_log) = Len(m.id_to_log) /\ w.vec = m.vec /\ w.dim = m.dim
      /\ \A i \in 1 .. Len(m.id_to_log) :
           w.id_to_log[i] = IF i \in ids THEN None ELSE m.id_to_log[i]
      /\ Live(w) = Live(m) \ ids
  BY <1>1, <1>2, Tombstoned DEF WithoutOld
<1>4. \A i \in 1 .. Len(m.id_to_log) :
        w.id_to_log[i] = IF m.id_to_log[i] \in logs THEN None ELSE m.id_to_log[i]
  <2>1. l # None
    BY LogAssumption
  <2>2. \A i \in 1 .. Len(m.id_to_log) : i \in ids <=> m.id_to_log[i] = l
    BY <1>2, <2>1 DEF Live
  <2>3. QED
    BY <1>1, <1>3, <2>2
<1>5. ImageRows(w) = DeleteRows(ImageRows(m), logs)
  BY <1>3, <1>4, ImageWithout
<1>6. PICK new \in Tables : new = DeleteRows(table, logs)
  BY DeletedRows DEF Tables
<1>7. ImageRows(w) = new
  BY <1>5, <1>6 DEF Mirrored
<1>8. Bounded(w)
  <2>1. PICK b \in Nat, c \in Nat : b = Cardinality(Live(w)) /\ c = Cardinality(Live(m)) /\ b <= c
    <3>1. Cardinality(Live(w)) <= Cardinality(Live(m)) /\ Cardinality(Live(m)) \in Nat
          /\ Cardinality(Live(w)) \in Nat
      BY <1>3, LiveCount, FS_Subset
    <3>2. QED
      BY <3>1
  <2>2. QED
    BY <2>1, StoreAssumption DEF Bounded
<1>9. Small(new)
  BY <1>3, <1>7, <1>8, SmallImage
<1>10. AllOf(new, w.dim)
  <2>1. AllOf(table, w.dim)
    BY <1>3 DEF Mirrored
  <2>2. QED
    BY <1>6, <2>1, DeletedAllOf
<1>11. \A o \in old : Small(o) /\ AllOf(o, w.dim)
  BY <1>3 DEF Mirrored
<1>12. ConfigDim # 0 => w.dim = ConfigDim
  BY <1>3 DEF Mirrored
<1>13. Mirrored(w, new, old)
  BY <1>7, <1>9, <1>10, <1>11, <1>12 DEF Mirrored
<1>14. QED
  BY <1>1, <1>6, <1>13
--------------------------------------------------------------------------------
LEMMA MirrorLoaded ==
  ASSUME StoreInv, NEW m, m.dim \in Dims, m.dim \in Nat, LoadAll(m), failures' = failures,
         Small(rows), Alike(rows, m.dim),
         tx' = {}, ConfigDim # 0 => m.dim = ConfigDim
  PROVE  Mirrored(mem, rows, tx)'
<1>1. PICK table \in Tables, n \in Nat : table = rows /\ n = Len(table) /\ Small(table)
  <2>1. rows \in Tables /\ Len(rows) \in Nat
    BY RowVectors DEF StoreInv
  <2>2. QED
    BY <2>1
<1>2. /\ rows' = Newest(table) /\ ImageRows(mem)' = rows'
      /\ mem'.dim = IF n = 0 \/ m.dim # 0 THEN m.dim ELSE DimOf[table[1].vec]
  BY <1>1, LoadStep DEF Small
<1>3. Newest(table) = table
  BY <1>1, StoreAssumption DEF Newest, Small
<1>4. AllOf(table, mem'.dim)
  <2>1. n = 0 \/ \A i \in 1 .. n : DimOf[table[i].vec] = mem'.dim
    BY <1>1, <1>2 DEF Alike
  <2>2. QED
    BY <1>1, <2>1 DEF AllOf
<1>5. PICK w : w = mem'
  OBVIOUS
<1>6. ImageRows(w) = table /\ (ConfigDim # 0 => w.dim = ConfigDim) /\ AllOf(table, w.dim)
  <2>1. ImageRows(w) = ImageRows(mem)'
    BY <1>5 DEF ImageRows, PointRows, Live
  <2>2. ConfigDim # 0 => w.dim = ConfigDim
    BY <1>2, <1>5
  <2>3. QED
    BY <1>2, <1>3, <1>4, <1>5, <2>1, <2>2
<1>7. Mirrored(w, table, {})
  BY <1>1, <1>6 DEF Mirrored
<1>8. QED
  BY <1>2, <1>3, <1>5, <1>7

LEMMA MirrorReset ==
  ASSUME NEW m, m.dim \in Dims, ConfigDim # 0 => m.dim = ConfigDim
  PROVE  Mirrored(Reset(m), <<>>, {})
<1>1. PICK r : r = Reset(m)
  OBVIOUS
<1>2. Sound(r) /\ Bounded(r) /\ r.id_to_log = <<>> /\ r.dim = m.dim /\ Live(r) = {}
  BY <1>1, ResetIsSound
<1>3. PICK e : e = <<>> /\ e \in Tables /\ Len(e) = 0
  BY EmptySeq DEF Tables
<1>4. ImageRows(r) = e
  <2>1. PointRows(r) = <<>>
    <3>1. PICK p \in Seq(PointType) : p = PointRows(r) /\ Len(p) = 0
      BY <1>2, EmptySeq, PointsAreRows
    <3>2. QED
      BY <3>1, EmptySeq
  <2>2. QED
    BY <1>3, <2>1, PickedOfEmpty DEF ImageRows
<1>5. Small(e)
  BY <1>2, <1>4, SmallImage
<1>6. AllOf(e, r.dim)
  BY <1>3 DEF AllOf
<1>7. Mirrored(r, e, {})
  BY <1>2, <1>4, <1>5, <1>6 DEF Mirrored
<1>8. QED
  BY <1>1, <1>3, <1>7

\* What a mirrored table leaves when the store is closed.
LEMMA MirrorLoadable ==
  ASSUME NEW m, NEW table \in Tables, NEW old \in SUBSET Tables, Mirrored(m, table, old),
         NEW t \in old \cup {table}
  PROVE  Small(t) /\ Alike(t, ConfigDim)
<1>1. Small(t) /\ AllOf(t, m.dim) /\ t \in Tables
  BY DEF Mirrored
<1>2. ConfigDim = m.dim \/ ConfigDim = 0
  BY DEF Mirrored
<1>3. QED
  BY <1>1, <1>2, AlikeRows

LEMMA ImageInit == Init => ImageInv
<1> SUFFICES ASSUME Init PROVE ImageInv
  OBVIOUS
<1>1. PICK e : e = <<>> /\ Len(e) = 0
  BY EmptySeq
<1>2. Small(e) /\ Alike(e, ConfigDim)
  BY <1>1, StoreAssumption DEF Small, Alike
<1>3. rows = e /\ open = FALSE
  BY <1>1 DEF Init
<1>4. QED
  BY <1>2, <1>3 DEF ImageInv

\* insert_locked keeps the image, unless a statement fails.
LEMMA ImageInsert ==
  ASSUME StoreInv, open, failures = 0, Mirrored(mem, rows, tx), NEW l \in Log, NEW v \in Vec,
         InsertLocked(l, v), tx' = tx, failures' = 0
  PROVE  Mirrored(mem, rows, tx)'
<1>1. PICK m \in Mem, table \in Tables, old \in SUBSET Tables :
        m = mem /\ table = rows /\ old = tx /\ Sound(m) /\ Bounded(m) /\ Mirrored(m, table, old)
  <2>1. mem \in Mem /\ rows \in Tables /\ tx \in SUBSET Tables /\ Sound(mem) /\ Bounded(mem)
    BY DEF StoreInv, Sound
  <2>2. QED
    BY <2>1
<1>2. PICK added, logs : added = Add(m, l, v) /\ logs = LogsOf(added, Victims(added))
  OBVIOUS
<1>3. ASSUME NEW w, NEW new, Mirrored(w, new, old), mem' = w, rows' = new
      PROVE  Mirrored(mem, rows, tx)'
  BY <1>1, <1>3
<1>4. CASE mem' = WithDim(mem, v) /\ UNCHANGED <<rows, failures>>
  <2>1. PICK d : d = WithDim(m, v)
    OBVIOUS
  <2>2. Mirrored(d, table, old)
    BY <1>1, <2>1, MirrorDimensioned
  <2>3. mem' = d /\ rows' = table
    BY <1>1, <1>4, <2>1
  <2>4. QED
    BY <1>3, <2>2, <2>3
<1>5. CASE Failing(1)
  BY <1>5 DEF Failing
<1>6. CASE Accepts(mem, v) /\ mem' = Trimmed(added)
           /\ \E kept \in SUBSET logs : /\ Failing(Cardinality(kept))
                                        /\ rows' = DeleteRows(ReplaceRow(rows, l, v), logs \ kept)
  <2>1. PICK kept \in SUBSET logs : /\ Failing(Cardinality(kept))
                                    /\ rows' = DeleteRows(ReplaceRow(rows, l, v), logs \ kept)
    BY <1>6
  <2>2. Accepts(m, v) /\ ~ IsFull(m)
    BY <1>1, <1>6 DEF Accepts
  <2>3. Sound(added)
    <3>1. PICK n : n = Len(m.id_to_log)
      OBVIOUS
    <3>2. QED
      BY <1>1, <1>2, <2>2, <3>1, Added
  <2>4. IsFiniteSet(kept)
    <3>1. Victims(added) \in SUBSET Live(added)
      BY <2>3, VictimsAreFirst
    <3>2. IsFiniteSet(logs)
      BY <1>2, <2>3, <3>1, FewLogs
    <3>3. QED
      BY <3>2, FS_Subset
  <2>5. kept = {}
    <3>1. PICK c \in Nat : c = Cardinality(kept)
      BY <2>4, FS_CardinalityType
    <3>2. c = 0
      BY <2>1, <3>1 DEF Failing
    <3>3. QED
      BY <2>4, <3>1, <3>2, FS_EmptySet
  <2>6. logs \ kept = logs
    BY <2>5
  <2>7. PICK w, new : w = Trimmed(added) /\ new = DeleteRows(ReplaceRow(table, l, v), logs)
    OBVIOUS
  <2>8. Mirrored(w, DeleteRows(ReplaceRow(table, l, v), LogsOf(added, Victims(added))), old)
    BY <1>1, <1>2, <2>2, <2>7, MirrorInserted
  <2>9. Mirrored(w, new, old)
    BY <1>2, <2>7, <2>8
  <2>10. mem' = w /\ rows' = new
    BY <1>1, <1>6, <2>1, <2>6, <2>7
  <2>11. QED
    BY <1>3, <2>9, <2>10
<1>7. QED
  BY <1>1, <1>2, <1>4, <1>5, <1>6 DEF InsertLocked
--------------------------------------------------------------------------------
\* Before a step after which no statement has failed none had.
LEMMA NoneFailedBefore ==
  ASSUME StoreInv, [Next]_vars, failures' = 0
  PROVE  failures = 0
<1>1. failures \in 0 .. MaxFailures /\ mem.dim \in Dims
  BY DEF StoreInv, Sound
<1>2. ASSUME Failing(1)
      PROVE  FALSE
  BY <1>1, <1>2, FailuresRise
<1>3. CASE Open
  <2>1. PICK m : m = [Closed EXCEPT !.dim = ConfigDim]
    OBVIOUS
  <2>2. m.dim \in Dims
    BY <2>1 DEF Closed, Dims
  <2>3. QED
    BY <1>3, <2>1, <2>2, LoadKeeps DEF Open
<1>4. CASE RebuildIndex
  <2>1. PICK m : m = mem
    OBVIOUS
  <2>2. m.dim \in Dims /\ LoadAll(m)
    BY <1>1, <1>4, <2>1 DEF RebuildIndex
  <2>3. QED
    BY <2>2, LoadKeeps
<1>5. CASE Clear
  BY <1>2, <1>5 DEF Clear
<1>6. CASE Close
  BY <1>6 DEF Close
<1>7. CASE Crash
  BY <1>7 DEF Crash
<1>8. CASE EndBatch
  BY <1>2, <1>8 DEF EndBatch
<1>9. ASSUME NEW n \in 1 .. MaxBatch, InsertBatch(n)
      PROVE  failures = 0
  BY <1>2, <1>9 DEF InsertBatch
<1>10. ASSUME NEW l \in Log, RemoveLog(l)
       PROVE  failures = 0
  BY <1>2, <1>10 DEF RemoveLog
<1>11. ASSUME NEW l \in Log, NEW v \in Vec, Insert(l, v) \/ InsertNext(l, v)
       PROVE  failures = 0
  <2>1. InsertLocked(l, v)
    BY <1>11 DEF Insert, InsertNext
  <2>2. QED
    BY <2>1, InsertKeeps
<1>12. CASE UNCHANGED vars
  BY <1>12 DEF vars
<1>13. QED
  BY <1>3, <1>4, <1>5, <1>6, <1>7, <1>8, <1>9, <1>10, <1>11, <1>12 DEF Next

LEMMA ImageNext == StoreInv /\ ImageInv /\ [Next]_vars => ImageInv'
<1> DEFINE Goal == IF open' THEN Mirrored(mem, rows, tx)'
                   ELSE Small(rows') /\ Alike(rows', ConfigDim)
<1> SUFFICES ASSUME StoreInv, ImageInv, [Next]_vars, failures' = 0
             PROVE  Goal
  BY DEF ImageInv
<1>1. /\ rows \in Tables /\ tx \in SUBSET Tables /\ Sound(mem) /\ mem.dim \in Dims
      /\ mem.dim \in Nat /\ ConfigDim \in Nat /\ open \in BOOLEAN
      /\ batch = NoBatch => tx = {}
      /\ batch # NoBatch => open
  BY StoreAssumption DEF StoreInv, Sound, Mem
<1>2. failures = 0 /\ Bounded(mem)
  BY NoneFailedBefore DEF StoreInv
<1>3. /\ open => Mirrored(mem, rows, tx)
      /\ ~ open => Small(rows) /\ Alike(rows, ConfigDim)
  BY <1>2 DEF ImageInv
<1>4. ~ Failing(1)
  BY <1>2 DEF Failing
<1>5. PICK m \in Mem, table \in Tables, old \in SUBSET Tables :
        m = mem /\ table = rows /\ old = tx /\ Sound(m) /\ Bounded(m) /\ m.dim \in Dims
        /\ (open => Mirrored(m, table, old))
  <2>1. mem \in Mem
    BY <1>1 DEF Sound
  <2>2. QED
    BY <1>1, <1>2, <1>3, <2>1
\* A step after which the store is open is checked against what it leaves.
<1>6. ASSUME NEW w, NEW new, NEW rest, Mirrored(w, new, rest), open' = TRUE, mem' = w, rows' = new,
             tx' = rest
      PROVE  Goal
  BY <1>6
<1>7. CASE Open
  <2>1. PICK r : r = [Closed EXCEPT !.dim = ConfigDim]
    OBVIOUS
  <2>2. r.dim = ConfigDim /\ r.dim \in Dims
    BY <2>1 DEF Closed, Dims
  <2>3. LoadAll(r) /\ ~ open /\ open' = TRUE /\ tx' = tx
    BY <1>7, <2>1 DEF Open
  <2>4. tx' = {} /\ Small(rows) /\ Alike(rows, r.dim)
    BY <1>1, <1>3, <2>2, <2>3
  <2>5. Mirrored(mem, rows, tx)'
    BY <1>1, <1>2, <2>2, <2>3, <2>4, MirrorLoaded
  <2>6. QED
    BY <2>3, <2>5
<1>8. CASE RebuildIndex
  <2>1. LoadAll(m) /\ open /\ open' = TRUE /\ tx' = {}
    BY <1>1, <1>5, <1>8 DEF RebuildIndex, Begin
  <2>2. Small(table) /\ AllOf(table, m.dim) /\ (ConfigDim # 0 => m.dim = ConfigDim)
    BY <1>5, <2>1 DEF Mirrored
  <2>3. Alike(table, m.dim)
    BY <2>2, AlikeRows
  <2>4. Mirrored(mem, rows, tx)'
    BY <1>1, <1>2, <1>5, <2>1, <2>2, <2>3, MirrorLoaded
  <2>5. QED
    BY <2>1, <2>4
<1>9. CASE Clear
  <2>1. open /\ open' = TRUE /\ tx' = {} /\ rows' = <<>> /\ mem' = Reset(m)
    BY <1>1, <1>4, <1>5, <1>9 DEF Clear, Begin
  <2>2. ConfigDim # 0 => m.dim = ConfigDim
    BY <1>5, <2>1 DEF Mirrored
  <2>3. Mirrored(Reset(m), <<>>, {})
    BY <1>5, <2>2, MirrorReset
  <2>4. QED
    BY <1>6, <2>1, <2>3
<1>10. CASE Close
  <2>1. open /\ ~ open' /\ rows' = table
    BY <1>5, <1>10 DEF Close, Begin
  <2>2. Small(table) /\ Alike(table, ConfigDim)
    BY <1>5, <2>1, MirrorLoadable
  <2>3. QED
    BY <2>1, <2>2
<1>11. CASE Crash
  <2>1. open /\ ~ open' /\ rows' = IF tx = {} THEN rows ELSE RolledBack
    BY <1>11 DEF Crash
  <2>2. PICK t \in old \cup {table} : t = rows'
    BY <1>5, <2>1, RolledBackTable
  <2>3. Small(t) /\ Alike(t, ConfigDim)
    BY <1>5, <2>1, <2>2, MirrorLoadable
  <2>4. QED
    BY <2>1, <2>2, <2>3
<1>12. CASE EndBatch
  <2>1. /\ batch = 0 /\ tx' = {} /\ rows' = rows /\ mem' = mem /\ open' = open
    BY <1>4, <1>12 DEF EndBatch
  <2>2. open
    BY <1>1, <2>1 DEF NoBatch
  <2>3. Mirrored(m, table, {})
    BY <1>5, <2>2 DEF Mirrored
  <2>4. QED
    BY <1>1, <1>5, <1>6, <2>1, <2>2, <2>3
<1>13. ASSUME NEW n \in 1 .. MaxBatch, InsertBatch(n)
       PROVE  Goal
  <2>1. open /\ open' = open /\ tx' = {rows} /\ rows' = rows /\ mem' = mem
    BY <1>4, <1>13 DEF InsertBatch, Begin
  <2>2. Mirrored(m, table, {table})
    BY <1>5, <2>1 DEF Mirrored
  <2>3. QED
    BY <1>1, <1>5, <1>6, <2>1, <2>2
<1>14. ASSUME NEW l \in Log, RemoveLog(l)
       PROVE  Goal
  <2>1. PICK w, new : w = WithoutOld(m, l) /\ new = DeleteRows(table, {l})
    OBVIOUS
  <2>2. open /\ open' = open /\ tx' = old /\ rows' = new /\ mem' = w
    BY <1>4, <1>5, <1>14, <2>1 DEF RemoveLog, Begin
  <2>3. Mirrored(w, new, old)
    BY <1>5, <2>1, <2>2, MirrorRemoved
  <2>4. QED
    BY <1>1, <1>6, <2>2, <2>3
<1>15. ASSUME NEW l \in Log, NEW v \in Vec, Insert(l, v) \/ InsertNext(l, v)
       PROVE  Goal
  <2>1. InsertLocked(l, v) /\ tx' = tx /\ open' = open
    BY <1>15 DEF Insert, InsertNext
  <2>2. open
    <3>1. CASE Insert(l, v)
      BY <3>1 DEF Insert, Begin
    <3>2. CASE InsertNext(l, v)
      <4>1. batch > 0
        BY <3>2 DEF InsertNext
      <4>2. batch # NoBatch
        BY <4>1 DEF NoBatch
      <4>3. QED
        BY <1>1, <4>2
    <3>3. QED
      BY <1>15, <3>1, <3>2
  <2>3. Mirrored(mem, rows, tx)'
    BY <1>2, <1>3, <2>1, <2>2, ImageInsert
  <2>4. QED
    BY <2>1, <2>2, <2>3
<1>16. CASE UNCHANGED vars
  <2>1. open' = open /\ mem' = m /\ rows' = table /\ tx' = old
    BY <1>5, <1>16 DEF vars
  <2>2. CASE open
    BY <1>1, <1>5, <1>6, <2>1, <2>2
  <2>3. CASE ~ open
    BY <1>3, <1>5, <2>1, <2>3
  <2>4. QED
    BY <2>2, <2>3
<1>17. QED
  <2> HIDE DEF Goal
  <2>1. QED
    BY <1>7, <1>8, <1>9, <1>10, <1>11, <1>12, <1>13, <1>14, <1>15, <1>16 DEF Next

\* As long as no statement fails, the live points in the order of their insertion are the
\* rows of the table in the order of their keys, over inserts, replacements, batches that a
\* crash undoes, trims, removals and rebuilds.
THEOREM ImageIsTable == Spec => []ImageOfTable
<1>1. StoreInv /\ ImageInv => ImageOfTable
  <2> SUFFICES ASSUME StoreInv, ImageInv, open, failures = 0 PROVE LiveRows = rows
    BY DEF ImageOfTable
  <2>1. PICK m \in Mem : m = mem /\ Sound(m)
    BY DEF StoreInv, Sound
  <2>2. Picked([id \in DOMAIN m.id_to_log |-> Row(m.id_to_log[id], m.vec[id])],
               {id \in DOMAIN m.id_to_log : m.id_to_log[id] # None}) = ImageRows(m)
    BY <2>1, PointsAreRows
  <2>3. LiveRows = ImageRows(m)
    BY <2>1, <2>2 DEF LiveRows
  <2>4. QED
    BY <2>1, <2>3 DEF ImageInv, Mirrored
<1>2. Init => StoreInv /\ ImageInv
  BY StoreInit, ImageInit
<1>3. StoreInv /\ ImageInv /\ [Next]_vars => StoreInv' /\ ImageInv'
  BY StoreNext, ImageNext
<1>4. QED
  BY <1>1, <1>2, <1>3, PTL DEF Spec

--------------------------------------------------------------------------------
(* The index: loops over sequences.                                      *)

\* A loop that stays in the sets D, turn after turn.
StaysIn(f, n, D, first, step) ==
  /\ f = [i \in 0 .. n |-> f[i]] /\ f[0] = first
  /\ \A i \in 1 .. n : f[i] = step[<<i, f[i - 1]>>]
  /\ \A i \in 0 .. n : f[i] \in D[i]

LEMMA LoopIn ==
  ASSUME NEW n \in Nat, NEW D, NEW first \in D[0], NEW step,
         \A i \in 1 .. n : \A x \in D[i - 1] : step[<<i, x>>] \in D[i]
  PROVE  \E f : StaysIn(f, n, D, first, step)
<1> DEFINE E == UNION {D[i] : i \in 0 .. n}
           safe == [p \in (1 .. n) \X E |-> IF p[2] \in D[p[1] - 1] THEN step[p] ELSE first]
<1>1. \A i \in 0 .. n : D[i] \subseteq E
  OBVIOUS
<1>2. first \in E
  <2>1. 0 \in 0 .. n
    OBVIOUS
  <2> HIDE DEF E
  <2>2. QED
    BY <1>1, <2>1
<1>3. safe \in [(1 .. n) \X E -> E]
  <2> HIDE DEF E
  <2>1. ASSUME NEW p \in (1 .. n) \X E
        PROVE  (IF p[2] \in D[p[1] - 1] THEN step[p] ELSE first) \in E
    <3>1. p[1] \in 1 .. n /\ p[1] \in 0 .. n /\ p = <<p[1], p[2]>>
      OBVIOUS
    <3>2. p[2] \in D[p[1] - 1] => step[<<p[1], p[2]>>] \in D[p[1]]
      BY <3>1
    <3>3. QED
      BY <1>1, <1>2, <3>1, <3>2
  <2>2. QED
    BY <2>1
<1>4. PICK f : Loops(f, n, E, first, safe)
  <2> HIDE DEF E, safe
  <2>1. QED
    BY <1>2, <1>3, LoopEnds
<1>5. f \in [0 .. n -> E] /\ f[0] = first /\ \A i \in 1 .. n : f[i] = safe[<<i, f[i - 1]>>]
  <2> HIDE DEF E, safe
  <2>1. QED
    BY <1>4 DEF Loops
<1> HIDE DEF E
<1>6. ASSUME NEW i \in 1 .. n, f[i - 1] \in D[i - 1]
      PROVE  f[i] = step[<<i, f[i - 1]>>] /\ f[i] \in D[i]
  <2>1. i - 1 \in 0 .. n
    OBVIOUS
  <2>2. <<i, f[i - 1]>> \in (1 .. n) \X E
    BY <1>5, <2>1
  <2>3. safe[<<i, f[i - 1]>>] = step[<<i, f[i - 1]>>]
    BY <1>6, <2>2
  <2>4. step[<<i, f[i - 1]>>] \in D[i]
    BY <1>6
  <2>5. QED
    BY <1>5, <2>3, <2>4
<1>7. \A i \in 0 .. n : f[i] \in D[i]
  <2> DEFINE T == {i \in 0 .. n : f[i] \in D[i]}
  <2>1. 0 \in T
    BY <1>5
  <2>2. ASSUME NEW i \in 1 .. n, i - 1 \in T
        PROVE  i \in T
    <3> HIDE DEF safe
    <3>1. f[i] \in D[i]
      BY <1>6, <2>2
    <3>2. QED
      BY <3>1
  <2>3. 0 .. n \subseteq T
    <3> HIDE DEF T, safe
    <3>1. QED
      BY <2>1, <2>2, Climbing
  <2>4. QED
    BY <2>3
<1>8. \A i \in 1 .. n : i - 1 \in 0 .. n
  OBVIOUS
<1>9. f = [i \in 0 .. n |-> f[i]]
  <2> HIDE DEF safe
  <2>1. QED
    BY <1>5
<1>10. StaysIn(f, n, D, first, step)
  <2> HIDE DEF safe
  <2>1. QED
    BY <1>5, <1>6, <1>7, <1>8, <1>9 DEF StaysIn
<1>11. QED
  BY <1>10

\* What begins in the set of its turn, and goes on from turn to turn, ends in the last one.
LEMMA LoopLeft ==
  ASSUME NEW n \in Nat, NEW D, NEW f, f[0] \in D[0],
         \A i \in 1 .. n : f[i - 1] \in D[i - 1] => f[i] \in D[i]
  PROVE  f[n] \in D[n]
<1> DEFINE T == {i \in 0 .. n : f[i] \in D[i]}
<1>1. 0 \in T
  OBVIOUS
<1>2. ASSUME NEW i \in 1 .. n, i - 1 \in T
      PROVE  i \in T
  BY <1>2
<1>3. 0 .. n \subseteq T
  <2> HIDE DEF T
  <2>1. QED
    BY <1>1, <1>2, Climbing
<1>4. QED
  BY <1>3
\* A sequence is as long as its domain says.
LEMMA LenDomain ==
  ASSUME NEW n \in Nat, NEW s, DOMAIN s = 1 .. n, NEW k \in Nat, DOMAIN s = 1 .. k
  PROVE  k = n
<1>1. CASE n = 0
  <2>1. k \notin 1 .. n
    BY <1>1
  <2>2. k \notin 1 .. k
    BY <2>1
  <2>3. QED
    BY <1>1, <2>2
<1>2. CASE n # 0
  <2>1. n \in 1 .. k
    BY <1>2
  <2>2. k \in 1 .. n
    BY <2>1
  <2>3. QED
    BY <2>1, <2>2
<1>3. QED
  BY <1>1, <1>2

--------------------------------------------------------------------------------
(* Candidates in order.                                                    *)

Pairs == Nat \X Nat

LEMMA NearerOrders ==
  ASSUME NEW c \in Pairs, NEW d \in Pairs
  PROVE  /\ ~ Nearer(c, c) /\ ~ (Nearer(c, d) /\ Nearer(d, c))
         /\ c # d => Nearer(c, d) \/ Nearer(d, c)
         /\ \A e \in Pairs : Nearer(c, d) /\ Nearer(d, e) => Nearer(c, e)
<1>1. PICK c1 \in Nat, c2 \in Nat : c = <<c1, c2>>
  BY DEF Pairs
<1>2. PICK d1 \in Nat, d2 \in Nat : d = <<d1, d2>>
  BY DEF Pairs
<1>3. c[1] = c1 /\ c[2] = c2 /\ d[1] = d1 /\ d[2] = d2
  BY <1>1, <1>2
<1>4. ASSUME NEW e \in Pairs, Nearer(c, d), Nearer(d, e)
      PROVE  Nearer(c, e)
  <2>1. PICK e1 \in Nat, e2 \in Nat : e = <<e1, e2>>
    BY DEF Pairs
  <2>2. e[1] = e1 /\ e[2] = e2
    BY <2>1
  <2>3. c1 < d1 \/ (c1 = d1 /\ c2 < d2)
    BY <1>3, <1>4 DEF Nearer
  <2>4. d1 < e1 \/ (d1 = e1 /\ d2 < e2)
    BY <1>3, <1>4, <2>2 DEF Nearer
  <2>5. c1 < e1 \/ (c1 = e1 /\ c2 < e2)
    BY <2>3, <2>4
  <2>6. QED
    BY <1>3, <2>2, <2>5 DEF Nearer
<1>5. c # d => c1 # d1 \/ c2 # d2
  BY <1>1, <1>2
<1>6. QED
  BY <1>3, <1>4, <1>5 DEF Nearer

\* How many of C are nearer than c: a number for each, of 0 .. |C| - 1, in the order of them.
NearerOf(C, c) == {d \in C : Nearer(d, c)}

LEMMA RankNumbers ==
  ASSUME NEW C \in SUBSET Pairs, IsFiniteSet(C), NEW n \in Nat, n = Cardinality(C)
  PROVE  /\ \A c \in C : Cardinality(NearerOf(C, c)) \in 0 .. n - 1
         /\ \A c, d \in C : Nearer(c, d) =>
              Cardinality(NearerOf(C, c)) < Cardinality(NearerOf(C, d))
         /\ \A m \in 0 .. n - 1 : \E c \in C : Cardinality(NearerOf(C, c)) = m
<1>1. ASSUME NEW c \in C
      PROVE  /\ IsFiniteSet(NearerOf(C, c)) /\ Cardinality(NearerOf(C, c)) \in 0 .. n - 1
             /\ Cardinality(NearerOf(C, c)) \in Nat
  <2>1. NearerOf(C, c) \in SUBSET C /\ c \notin NearerOf(C, c)
    BY NearerOrders DEF NearerOf
  <2>2. /\ IsFiniteSet(NearerOf(C, c)) /\ Cardinality(NearerOf(C, c)) <= n
        /\ Cardinality(NearerOf(C, c)) # n
    BY <2>1, FS_Subset
  <2>3. Cardinality(NearerOf(C, c)) \in Nat
    BY <2>2, FS_CardinalityType
  <2>4. QED
    BY <2>2, <2>3
<1>2. ASSUME NEW c \in C, NEW d \in C, Nearer(c, d)
      PROVE  Cardinality(NearerOf(C, c)) < Cardinality(NearerOf(C, d))
  <2>1. NearerOf(C, c) \in SUBSET NearerOf(C, d)
    BY <1>2, NearerOrders DEF NearerOf
  <2>2. c \in NearerOf(C, d) /\ c \notin NearerOf(C, c)
    BY <1>2, NearerOrders DEF NearerOf
  <2>3. /\ Cardinality(NearerOf(C, c)) <= Cardinality(NearerOf(C, d))
        /\ Cardinality(NearerOf(C, d)) # Cardinality(NearerOf(C, c))
    BY <1>1, <2>1, <2>2, FS_Subset
  <2>4. QED
    BY <1>1, <2>3
<1> DEFINE rank == [c \in C |-> Cardinality(NearerOf(C, c))]
<1>3. rank \in Injection(C, 0 .. n - 1)
  <2>1. rank \in [C -> 0 .. n - 1]
    BY <1>1
  <2>2. ASSUME NEW c \in C, NEW d \in C, c # d
        PROVE  rank[c] # rank[d]
    <3>1. Nearer(c, d) \/ Nearer(d, c)
      BY <2>2, NearerOrders
    <3>2. /\ Cardinality(NearerOf(C, c)) \in Nat /\ Cardinality(NearerOf(C, d)) \in Nat
          /\ Cardinality(NearerOf(C, c)) # Cardinality(NearerOf(C, d))
      BY <1>1, <1>2, <3>1
    <3>3. QED
      BY <3>2
  <2>3. QED
    BY <2>1, <2>2 DEF Injection, IsInjective
<1>4. IsFiniteSet(0 .. n - 1) /\ Cardinality(0 .. n - 1) = n
  <2>1. 0 \in Int /\ n - 1 \in Int
    OBVIOUS
  <2>2. QED
    BY <2>1, FS_Interval
<1>5. rank \in Surjection(C, 0 .. n - 1)
  <2> HIDE DEF rank
  <2>1. QED
    BY <1>3, <1>4, FS_Injection
<1>6. \A m \in 0 .. n - 1 : \E c \in C : rank[c] = m
  <2> HIDE DEF rank
  <2>1. QED
    BY <1>5 DEF Surjection
<1>7. QED
  BY <1>1, <1>2, <1>6

\* A ranking names every candidate once, from the nearest to the farthest.
LEMMA RankedInOrder ==
  ASSUME NEW C \in SUBSET Pairs, IsFiniteSet(C), NEW n \in Nat, n = Cardinality(C)
  PROVE  /\ Ranked(C) \in Seq(C) /\ Len(Ranked(C)) = n
         /\ \A m, l \in 1 .. n : m < l => Nearer(Ranked(C)[m], Ranked(C)[l])
         /\ \A c \in C : \E m \in 1 .. n : Ranked(C)[m] = c
<1> DEFINE ranked == Ranked(C)
<1>1. ranked = [m \in 1 .. n |-> CHOOSE c \in C : Cardinality(NearerOf(C, c)) = m - 1]
  BY DEF Ranked, NearerOf
<1>2. ASSUME NEW m \in 1 .. n
      PROVE  ranked[m] \in C /\ Cardinality(NearerOf(C, ranked[m])) = m - 1
  <2>1. m - 1 \in 0 .. n - 1
    OBVIOUS
  <2>2. \E c \in C : Cardinality(NearerOf(C, c)) = m - 1
    BY <2>1, RankNumbers
  <2>3. ranked[m] = CHOOSE c \in C : Cardinality(NearerOf(C, c)) = m - 1
    BY <1>1
  <2> HIDE DEF ranked
  <2>4. QED
    BY <2>2, <2>3
<1> HIDE DEF ranked
<1>3. ranked \in [1 .. n -> C]
  BY <1>1, <1>2
<1>4. ranked \in Seq(C) /\ Len(ranked) = n
  <2>1. ranked \in Seq(C)
    BY <1>3, SeqDef
  <2>2. DOMAIN ranked = 1 .. n
    BY <1>3
  <2>3. QED
    BY <2>1, <2>2, LenProperties, LenDomain
<1>5. ASSUME NEW m \in 1 .. n, NEW l \in 1 .. n, m < l
      PROVE  Nearer(ranked[m], ranked[l])
  <2>1. ranked[m] \in Pairs /\ ranked[l] \in Pairs
    BY <1>2
  <2>2. ranked[m] # ranked[l]
    BY <1>2, <1>5
  <2>3. ~ Nearer(ranked[l], ranked[m])
    <3>1. SUFFICES ASSUME Nearer(ranked[l], ranked[m]) PROVE FALSE
      OBVIOUS
    <3>2. Cardinality(NearerOf(C, ranked[l])) < Cardinality(NearerOf(C, ranked[m]))
      BY <1>2, <3>1, RankNumbers
    <3>3. QED
      BY <1>2, <1>5, <3>2
  <2>4. QED
    BY <2>1, <2>2, <2>3, NearerOrders
<1>6. ASSUME NEW c \in C
      PROVE  \E m \in 1 .. n : ranked[m] = c
  <2>1. PICK r \in 0 .. n - 1 : r = Cardinality(NearerOf(C, c))
    BY RankNumbers
  <2>2. r + 1 \in 1 .. n
    BY <2>1
  <2>3. Cardinality(NearerOf(C, ranked[r + 1])) = r /\ ranked[r + 1] \in C
    BY <1>2, <2>2
  <2>4. ranked[r + 1] = c
    <3>1. SUFFICES ASSUME ranked[r + 1] # c PROVE FALSE
      OBVIOUS
    <3>2. Nearer(c, ranked[r + 1]) \/ Nearer(ranked[r + 1], c)
      BY <2>3, <3>1, NearerOrders
    <3>3. r < r
      BY <2>1, <2>3, <3>2, RankNumbers
    <3>4. QED
      BY <3>3
  <2>5. QED
    BY <2>2, <2>4
<1>7. QED
  BY <1>4, <1>5, <1>6 DEF ranked

LEMMA NearestIsFirst ==
  ASSUME NEW C \in SUBSET Pairs, IsFiniteSet(C), C # {}
  PROVE  /\ Closest(C) \in C /\ \A d \in C : Closest(C)[1] <= d[1]
         /\ Farthest(C) \in C /\ \A d \in C : d[1] <= Farthest(C)[1]
<1>1. PICK n \in Nat : n = Cardinality(C) /\ n # 0
  BY FS_CardinalityType, FS_EmptySet
<1>2. PICK ranked : ranked = Ranked(C)
  OBVIOUS
<1>3. /\ ranked \in Seq(C) /\ Len(ranked) = n
      /\ \A m, l \in 1 .. n : m < l => Nearer(ranked[m], ranked[l])
      /\ \A c \in C : \E m \in 1 .. n : ranked[m] = c
  BY <1>1, <1>2, RankedInOrder
<1>4. \A m \in 1 .. n : ranked[m] \in C
  BY <1>3, ElementOfSeq
<1>5. 1 \in 1 .. n /\ n \in 1 .. n
  BY <1>1
<1>6. \A d \in C \ {ranked[1]} : Nearer(ranked[1], d)
  BY <1>3, <1>5
<1>7. \A d \in C \ {ranked[n]} : Nearer(d, ranked[n])
  BY <1>3, <1>5
<1>8. Closest(C) \in C /\ \A d \in C \ {Closest(C)} : Nearer(Closest(C), d)
  BY <1>4, <1>5, <1>6 DEF Closest
<1>9. Farthest(C) \in C /\ \A d \in C \ {Farthest(C)} : Nearer(d, Farthest(C))
  BY <1>4, <1>5, <1>7 DEF Farthest
<1>10. \A c, d \in C : Nearer(c, d) => c[1] <= d[1]
  <2> SUFFICES ASSUME NEW c \in C, NEW d \in C, Nearer(c, d) PROVE c[1] <= d[1]
    OBVIOUS
  <2>1. c[1] \in Nat /\ d[1] \in Nat
    BY DEF Pairs
  <2>2. QED
    BY <2>1 DEF Nearer
<1>11. \A c \in C : c[1] \in Nat
  BY DEF Pairs
<1>12. \A c \in C : c[1] <= c[1]
  BY <1>11
<1>13. QED
  BY <1>8, <1>9, <1>10, <1>12

\* The numbers of the m nearest, each once, nearest first; all of them if there are no more.
LEMMA NearestTaken ==
  ASSUME NEW C \in SUBSET Pairs, IsFiniteSet(C), NEW m \in Nat, NEW S,
         \A c \in C : c[2] \in S
  PROVE  /\ TakeNearest(C, m) \in Seq(S) /\ Len(TakeNearest(C, m)) <= m
         /\ C # {} /\ m # 0 => Len(TakeNearest(C, m)) # 0
         /\ \A i \in 1 .. Len(TakeNearest(C, m)) : \E c \in C : TakeNearest(C, m)[i] = c[2]
         /\ \A i, j \in 1 .. Len(TakeNearest(C, m)) :
              i < j => \E c, d \in C : /\ TakeNearest(C, m)[i] = c[2]
                                       /\ TakeNearest(C, m)[j] = d[2] /\ Nearer(c, d)
<1>1. PICK n \in Nat : n = Cardinality(C)
  BY FS_CardinalityType
<1>2. PICK ranked : ranked = Ranked(C)
  OBVIOUS
<1>3. /\ ranked \in Seq(C) /\ Len(ranked) = n
      /\ \A i, j \in 1 .. n : i < j => Nearer(ranked[i], ranked[j])
  BY <1>1, <1>2, RankedInOrder
<1>4. \A i \in 1 .. n : ranked[i] \in C
  BY <1>3, ElementOfSeq
<1>5. PICK l \in Nat : l = IF n < m THEN n ELSE m
  OBVIOUS
<1>6. l <= n /\ l <= m
  BY <1>5
<1>7. PICK taken : taken = TakeNearest(C, m)
  OBVIOUS
<1>8. taken = [i \in 1 .. l |-> ranked[i][2]]
  BY <1>2, <1>3, <1>5, <1>7 DEF TakeNearest
<1>9. \A i \in 1 .. l : i \in 1 .. n
  BY <1>6
<1>10. \A i \in 1 .. l : ranked[i] \in C /\ taken[i] = ranked[i][2]
  BY <1>4, <1>8, <1>9
<1>11. taken \in [1 .. l -> S]
  BY <1>8, <1>10
<1>12. taken \in Seq(S) /\ Len(taken) = l
  <2>1. taken \in Seq(S) /\ DOMAIN taken = 1 .. l
    BY <1>11, SeqDef
  <2>2. QED
    BY <2>1, LenProperties, LenDomain
<1>13. C # {} /\ m # 0 => l # 0
  <2>1. C # {} => n # 0
    BY <1>1, FS_EmptySet
  <2>2. QED
    BY <1>5, <2>1
<1>14. QED
  BY <1>3, <1>6, <1>7, <1>9, <1>10, <1>12, <1>13

--------------------------------------------------------------------------------
(* Traversals stay where links stay.                                       *)

LEMMA DownCounts ==
  ASSUME NEW top \in Nat, NEW bottom \in Nat
  PROVE  /\ Len(Down(top, bottom)) = IF top < bottom THEN 0 ELSE top - bottom + 1
         /\ Len(Down(top, bottom)) \in Nat
         /\ \A n \in 1 .. Len(Down(top, bottom)) : Down(top, bottom)[n] = top - n + 1
<1>1. CASE top < bottom
  <2>1. Down(top, bottom) = <<>> /\ Len(<<>>) = 0
    BY <1>1, EmptySeq DEF Down
  <2>2. QED
    BY <1>1, <2>1
<1>2. CASE ~ (top < bottom)
  <2>1. PICK k \in Nat : k = top - bottom + 1
    BY <1>2
  <2>2. PICK s : s = Down(top, bottom)
    OBVIOUS
  <2>3. s = [n \in 1 .. k |-> top - n + 1]
    BY <1>2, <2>1, <2>2 DEF Down
  <2>4. s \in [1 .. k -> Int]
    BY <2>3
  <2>5. s \in Seq(Int) /\ DOMAIN s = 1 .. k
    BY <2>4, SeqDef
  <2>6. Len(s) = k
    BY <2>5, LenProperties, LenDomain
  <2>7. QED
    BY <1>2, <2>1, <2>2, <2>3, <2>6
<1>3. QED
  BY <1>1, <1>2

\* Links of layer lc that start in A end in A.
LinksStay(g, A, lc) == \A j \in A : Linked(g, j, lc) \in Seq(A)

\* The pass over the links of a point.
LEMMA PassIn ==
  ASSUME NEW g, NEW q, NEW e, NEW lc,
         Len(Linked(g, e, lc)) \in Nat, NEW D,
         e \in D[0],
         \A i \in 1 .. Len(Linked(g, e, lc)) : \A x \in D[i - 1] :
           (IF Dist[q][g.vec[Linked(g, e, lc)[i]]] < Dist[q][g.vec[x]]
              THEN Linked(g, e, lc)[i] ELSE x) \in D[i]
  PROVE  NearestLinked(g, q, e, lc) \in D[Len(Linked(g, e, lc))]
<1> DEFINE n == Len(Linked(g, e, lc))
           first == e
           Turn(x, i) == IF Dist[q][g.vec[Linked(g, e, lc)[i]]] < Dist[q][g.vec[x]]
                           THEN Linked(g, e, lc)[i] ELSE x
           Turns(f) == f = [i \in 0 .. n |-> IF i = 0 THEN first ELSE Turn(f[i - 1], i)]
           step == [at \in (1 .. n) \X UNION {D[i] : i \in 0 .. n} |-> Turn(at[2], at[1])]
           after == CHOOSE f : Turns(f)
<1>1. NearestLinked(g, q, e, lc) = after[n]
  BY DEF NearestLinked, Each
<1>2. n \in Nat /\ first \in D[0] /\ \A i \in 1 .. n : \A x \in D[i - 1] : Turn(x, i) \in D[i]
  OBVIOUS
<1> HIDE DEF n, first, Turn
<1>3. ASSUME NEW i \in 1 .. n, NEW x \in D[i - 1]
      PROVE  step[<<i, x>>] = Turn(x, i) /\ step[<<i, x>>] \in D[i]
  <2>1. i - 1 \in 0 .. n
    BY <1>2
  <2>2. <<i, x>> \in (1 .. n) \X UNION {D[j] : j \in 0 .. n}
    BY <2>1
  <2>3. QED
    BY <1>2, <2>2
<1> HIDE DEF step
<1>4. PICK f : StaysIn(f, n, D, first, step)
  <2>1. \A i \in 1 .. n : \A x \in D[i - 1] : step[<<i, x>>] \in D[i]
    BY <1>3
  <2>2. n \in Nat /\ first \in D[0]
    BY <1>2
  <2>3. QED
    BY <2>1, <2>2, LoopIn
<1>5. ASSUME NEW i \in 0 .. n
      PROVE  f[i] = IF i = 0 THEN first ELSE Turn(f[i - 1], i)
  <2>1. CASE i = 0
    BY <1>4, <2>1 DEF StaysIn
  <2>2. CASE i # 0
    <3>1. i \in 1 .. n /\ i - 1 \in 0 .. n
      BY <1>2, <2>2
    <3>2. f[i] = Turn(f[i - 1], i)
      BY <1>3, <1>4, <3>1 DEF StaysIn
    <3>3. QED
      BY <2>2, <3>2
  <2>3. QED
    BY <2>1, <2>2
<1>6. Turns(f)
  <2>1. [i \in 0 .. n |-> f[i]] = [i \in 0 .. n |-> IF i = 0 THEN first ELSE Turn(f[i - 1], i)]
    BY <1>5
  <2>2. QED
    BY <1>4, <2>1 DEF StaysIn
<1>7. after = [i \in 0 .. n |-> IF i = 0 THEN first ELSE Turn(after[i - 1], i)]
  BY <1>6
<1> HIDE DEF after
<1>8. ASSUME NEW i \in 1 .. n, after[i - 1] \in D[i - 1]
      PROVE  after[i] \in D[i]
  <2>1. i \in 0 .. n /\ i # 0
    BY <1>2
  <2>2. after[i] = Turn(after[i - 1], i)
    BY <1>7, <2>1
  <2>3. QED
    BY <1>2, <1>8, <2>2
<1>9. after[0] \in D[0]
  <2>1. 0 \in 0 .. n
    BY <1>2
  <2>2. after[0] = first
    BY <1>7, <2>1
  <2>3. QED
    BY <1>2, <2>2
<1>10. after[n] \in D[n]
  BY <1>2, <1>8, <1>9, LoopLeft
<1>11. QED
  BY <1>1, <1>10 DEF n

LEMMA PassStays ==
  ASSUME NEW g, NEW q, NEW A, NEW e \in A, NEW lc, LinksStay(g, A, lc)
  PROVE  NearestLinked(g, q, e, lc) \in A
<1>1. Linked(g, e, lc) \in Seq(A)
  BY DEF LinksStay
<1>2. PICK n \in Nat : n = Len(Linked(g, e, lc))
  BY <1>1, LenProperties
<1> DEFINE D == [i \in 0 .. n |-> A]
<1>3. \A i \in 0 .. n : D[i] = A
  OBVIOUS
<1> HIDE DEF D
<1>4. ASSUME NEW i \in 1 .. n, NEW x \in D[i - 1]
      PROVE  (IF Dist[q][g.vec[Linked(g, e, lc)[i]]] < Dist[q][g.vec[x]]
                THEN Linked(g, e, lc)[i] ELSE x) \in D[i]
  <2>1. i \in 0 .. n /\ i - 1 \in 0 .. n
    OBVIOUS
  <2>2. x \in A /\ Linked(g, e, lc)[i] \in A
    BY <1>1, <1>2, <1>3, <2>1, ElementOfSeq
  <2>3. QED
    BY <1>3, <2>1, <2>2
<1>5. e \in D[0]
  <2>1. 0 \in 0 .. n
    OBVIOUS
  <2>2. QED
    BY <1>3, <2>1
<1>6. NearestLinked(g, q, e, lc) \in D[n]
  BY <1>2, <1>4, <1>5, PassIn
<1>7. n \in 0 .. n
  OBVIOUS
<1>8. QED
  BY <1>3, <1>6, <1>7

\* The passes of greedy_descend.
LEMMA PassesIn ==
  ASSUME NEW g, NEW q, NEW start, NEW lc,
         Len(Down(Len(g.vec), 1)) \in Nat, NEW D,
         start \in D[0],
         \A i \in 1 .. Len(Down(Len(g.vec), 1)) : \A x \in D[i - 1] :
           NearestLinked(g, q, x, lc) \in D[i]
  PROVE  GreedyDescend(g, q, start, lc) \in D[Len(Down(Len(g.vec), 1))]
<1> DEFINE n == Len(Down(Len(g.vec), 1))
           first == start
           Turn(x, i) == NearestLinked(g, q, x, lc)
           Turns(f) == f = [i \in 0 .. n |-> IF i = 0 THEN first ELSE Turn(f[i - 1], i)]
           step == [at \in (1 .. n) \X UNION {D[i] : i \in 0 .. n} |-> Turn(at[2], at[1])]
           after == CHOOSE f : Turns(f)
<1>1. GreedyDescend(g, q, start, lc) = after[n]
  BY DEF GreedyDescend, Repeat, Each
<1>2. n \in Nat /\ first \in D[0] /\ \A i \in 1 .. n : \A x \in D[i - 1] : Turn(x, i) \in D[i]
  OBVIOUS
<1> HIDE DEF n, first, Turn
<1>3. ASSUME NEW i \in 1 .. n, NEW x \in D[i - 1]
      PROVE  step[<<i, x>>] = Turn(x, i) /\ step[<<i, x>>] \in D[i]
  <2>1. i - 1 \in 0 .. n
    BY <1>2
  <2>2. <<i, x>> \in (1 .. n) \X UNION {D[j] : j \in 0 .. n}
    BY <2>1
  <2>3. QED
    BY <1>2, <2>2
<1> HIDE DEF step
<1>4. PICK f : StaysIn(f, n, D, first, step)
  <2>1. \A i \in 1 .. n : \A x \in D[i - 1] : step[<<i, x>>] \in D[i]
    BY <1>3
  <2>2. n \in Nat /\ first \in D[0]
    BY <1>2
  <2>3. QED
    BY <2>1, <2>2, LoopIn
<1>5. ASSUME NEW i \in 0 .. n
      PROVE  f[i] = IF i = 0 THEN first ELSE Turn(f[i - 1], i)
  <2>1. CASE i = 0
    BY <1>4, <2>1 DEF StaysIn
  <2>2. CASE i # 0
    <3>1. i \in 1 .. n /\ i - 1 \in 0 .. n
      BY <1>2, <2>2
    <3>2. f[i] = Turn(f[i - 1], i)
      BY <1>3, <1>4, <3>1 DEF StaysIn
    <3>3. QED
      BY <2>2, <3>2
  <2>3. QED
    BY <2>1, <2>2
<1>6. Turns(f)
  <2>1. [i \in 0 .. n |-> f[i]] = [i \in 0 .. n |-> IF i = 0 THEN first ELSE Turn(f[i - 1], i)]
    BY <1>5
  <2>2. QED
    BY <1>4, <2>1 DEF StaysIn
<1>7. after = [i \in 0 .. n |-> IF i = 0 THEN first ELSE Turn(after[i - 1], i)]
  BY <1>6
<1> HIDE DEF after
<1>8. ASSUME NEW i \in 1 .. n, after[i - 1] \in D[i - 1]
      PROVE  after[i] \in D[i]
  <2>1. i \in 0 .. n /\ i # 0
    BY <1>2
  <2>2. after[i] = Turn(after[i - 1], i)
    BY <1>7, <2>1
  <2>3. QED
    BY <1>2, <1>8, <2>2
<1>9. after[0] \in D[0]
  <2>1. 0 \in 0 .. n
    BY <1>2
  <2>2. after[0] = first
    BY <1>7, <2>1
  <2>3. QED
    BY <1>2, <2>2
<1>10. after[n] \in D[n]
  BY <1>2, <1>8, <1>9, LoopLeft
<1>11. QED
  BY <1>1, <1>10 DEF n

LEMMA DescentStays ==
  ASSUME NEW g, Len(g.vec) \in Nat, NEW q, NEW A, NEW start \in A, NEW lc, LinksStay(g, A, lc)
  PROVE  GreedyDescend(g, q, start, lc) \in A
<1>1. PICK n \in Nat : n = Len(Down(Len(g.vec), 1))
  BY DownCounts
<1> DEFINE D == [i \in 0 .. n |-> A]
<1>2. \A i \in 0 .. n : D[i] = A
  OBVIOUS
<1> HIDE DEF D
<1>3. ASSUME NEW i \in 1 .. n, NEW x \in D[i - 1]
      PROVE  NearestLinked(g, q, x, lc) \in D[i]
  <2>1. i \in 0 .. n /\ i - 1 \in 0 .. n
    OBVIOUS
  <2>2. x \in A
    BY <1>2, <2>1
  <2>3. NearestLinked(g, q, x, lc) \in A
    BY <2>2, PassStays
  <2>4. QED
    BY <1>2, <2>1, <2>3
<1>4. start \in D[0]
  <2>1. 0 \in 0 .. n
    OBVIOUS
  <2>2. QED
    BY <1>2, <2>1
<1>5. GreedyDescend(g, q, start, lc) \in D[n]
  BY <1>1, <1>3, <1>4, PassesIn
<1>6. n \in 0 .. n
  OBVIOUS
<1>7. QED
  BY <1>2, <1>5, <1>6

\* The layers from the entry down.
LEMMA LayersIn ==
  ASSUME NEW g, NEW q, NEW lc,
         Len(Down(g.top, lc + 1)) \in Nat, NEW D,
         g.entry \in D[0],
         \A i \in 1 .. Len(Down(g.top, lc + 1)) : \A x \in D[i - 1] :
           GreedyDescend(g, q, x, Down(g.top, lc + 1)[i]) \in D[i]
  PROVE  DescendTo(g, q, lc) \in D[Len(Down(g.top, lc + 1))]
<1> DEFINE n == Len(Down(g.top, lc + 1))
           first == g.entry
           Turn(x, i) == GreedyDescend(g, q, x, Down(g.top, lc + 1)[i])
           Turns(f) == f = [i \in 0 .. n |-> IF i = 0 THEN first ELSE Turn(f[i - 1], i)]
           step == [at \in (1 .. n) \X UNION {D[i] : i \in 0 .. n} |-> Turn(at[2], at[1])]
           after == CHOOSE f : Turns(f)
<1>1. DescendTo(g, q, lc) = after[n]
  BY DEF DescendTo, Each
<1>2. n \in Nat /\ first \in D[0] /\ \A i \in 1 .. n : \A x \in D[i - 1] : Turn(x, i) \in D[i]
  OBVIOUS
<1> HIDE DEF n, first, Turn
<1>3. ASSUME NEW i \in 1 .. n, NEW x \in D[i - 1]
      PROVE  step[<<i, x>>] = Turn(x, i) /\ step[<<i, x>>] \in D[i]
  <2>1. i - 1 \in 0 .. n
    BY <1>2
  <2>2. <<i, x>> \in (1 .. n) \X UNION {D[j] : j \in 0 .. n}
    BY <2>1
  <2>3. QED
    BY <1>2, <2>2
<1> HIDE DEF step
<1>4. PICK f : StaysIn(f, n, D, first, step)
  <2>1. \A i \in 1 .. n : \A x \in D[i - 1] : step[<<i, x>>] \in D[i]
    BY <1>3
  <2>2. n \in Nat /\ first \in D[0]
    BY <1>2
  <2>3. QED
    BY <2>1, <2>2, LoopIn
<1>5. ASSUME NEW i \in 0 .. n
      PROVE  f[i] = IF i = 0 THEN first ELSE Turn(f[i - 1], i)
  <2>1. CASE i = 0
    BY <1>4, <2>1 DEF StaysIn
  <2>2. CASE i # 0
    <3>1. i \in 1 .. n /\ i - 1 \in 0 .. n
      BY <1>2, <2>2
    <3>2. f[i] = Turn(f[i - 1], i)
      BY <1>3, <1>4, <3>1 DEF StaysIn
    <3>3. QED
      BY <2>2, <3>2
  <2>3. QED
    BY <2>1, <2>2
<1>6. Turns(f)
  <2>1. [i \in 0 .. n |-> f[i]] = [i \in 0 .. n |-> IF i = 0 THEN first ELSE Turn(f[i - 1], i)]
    BY <1>5
  <2>2. QED
    BY <1>4, <2>1 DEF StaysIn
<1>7. after = [i \in 0 .. n |-> IF i = 0 THEN first ELSE Turn(after[i - 1], i)]
  BY <1>6
<1> HIDE DEF after
<1>8. ASSUME NEW i \in 1 .. n, after[i - 1] \in D[i - 1]
      PROVE  after[i] \in D[i]
  <2>1. i \in 0 .. n /\ i # 0
    BY <1>2
  <2>2. after[i] = Turn(after[i - 1], i)
    BY <1>7, <2>1
  <2>3. QED
    BY <1>2, <1>8, <2>2
<1>9. after[0] \in D[0]
  <2>1. 0 \in 0 .. n
    BY <1>2
  <2>2. after[0] = first
    BY <1>7, <2>1
  <2>3. QED
    BY <1>2, <2>2
<1>10. after[n] \in D[n]
  BY <1>2, <1>8, <1>9, LoopLeft
<1>11. QED
  BY <1>1, <1>10 DEF n

\* A[l] is where the search is on layer l: it ends on layer lc, or on the top one if that
\* is lower.
LEMMA LayersStay ==
  ASSUME NEW g, Len(g.vec) \in Nat, g.top \in Nat, NEW q, NEW lc \in Nat, NEW A,
         g.entry \in A[g.top],
         \A l \in lc + 1 .. g.top : A[l] \subseteq A[l - 1] /\ LinksStay(g, A[l], l)
  PROVE  DescendTo(g, q, lc) \in A[IF lc < g.top THEN lc ELSE g.top]
<1>1. PICK top \in Nat : top = g.top
  OBVIOUS
<1>2. lc + 1 \in Nat
  OBVIOUS
<1>3. PICK seq : seq = Down(top, lc + 1)
  OBVIOUS
<1>4. PICK n \in Nat : /\ n = Len(seq) /\ n = IF top < lc + 1 THEN 0 ELSE top - lc
                       /\ \A i \in 1 .. n : seq[i] = top - i + 1
  <2>1. /\ Len(seq) = IF top < lc + 1 THEN 0 ELSE top - (lc + 1) + 1
        /\ Len(seq) \in Nat /\ \A i \in 1 .. Len(seq) : seq[i] = top - i + 1
    BY <1>2, <1>3, DownCounts
  <2>2. PICK n \in Nat : n = Len(seq)
    BY <2>1
  <2>3. n = IF top < lc + 1 THEN 0 ELSE top - lc
    BY <2>1, <2>2
  <2>4. QED
    BY <2>1, <2>2, <2>3
<1> DEFINE D == [i \in 0 .. n |-> A[top - i]]
<1>5. \A i \in 0 .. n : D[i] = A[top - i]
  OBVIOUS
<1> HIDE DEF D
<1>6. ASSUME NEW i \in 1 .. n, NEW x \in D[i - 1]
      PROVE  GreedyDescend(g, q, x, seq[i]) \in D[i]
  <2>1. PICK l \in Nat : l = top - i + 1
    BY <1>4
  <2>2. /\ i \in 0 .. n /\ i - 1 \in 0 .. n /\ top - (i - 1) = l /\ top - i = l - 1
        /\ l \in lc + 1 .. top
    BY <1>4, <2>1
  <2>3. x \in A[l]
    BY <1>5, <2>2
  <2>4. LinksStay(g, A[l], l) /\ A[l] \subseteq A[l - 1]
    BY <1>1, <2>2
  <2>5. GreedyDescend(g, q, x, l) \in A[l]
    BY <2>3, <2>4, DescentStays
  <2>6. seq[i] = l
    BY <1>4, <2>1
  <2>7. D[i] = A[l - 1]
    BY <1>5, <2>2
  <2>8. QED
    BY <2>4, <2>5, <2>6, <2>7
<1>7. g.entry \in D[0]
  <2>1. 0 \in 0 .. n /\ top - 0 = top
    OBVIOUS
  <2>2. D[0] = A[top]
    BY <1>5, <2>1
  <2>3. QED
    BY <1>1, <2>2
<1>8. DescendTo(g, q, lc) \in D[n]
  <2>1. Len(Down(g.top, lc + 1)) = n
    BY <1>1, <1>3, <1>4
  <2>2. \A i \in 1 .. Len(Down(g.top, lc + 1)) : \A x \in D[i - 1] :
          GreedyDescend(g, q, x, Down(g.top, lc + 1)[i]) \in D[i]
    BY <1>1, <1>3, <1>6, <2>1
  <2>3. DescendTo(g, q, lc) \in D[Len(Down(g.top, lc + 1))]
    BY <1>7, <2>1, <2>2, LayersIn
  <2>4. QED
    BY <2>1, <2>3
<1>9. n \in 0 .. n /\ top - n = IF lc < top THEN lc ELSE top
  BY <1>4
<1>10. QED
  BY <1>1, <1>5, <1>8, <1>9

--------------------------------------------------------------------------------
(* A search finds points of the set it stays in.                           *)

CandsOf(g, q, A) == {Cand(g, q, j) : j \in A}

\* Distances are defined from q to the points of A.
Measured(g, q, A) == g.vec \in Seq(Embedding) /\ q \in Embedding /\ A \subseteq Point(g)

LEMMA CandidatesAreFinite ==
  ASSUME NEW g, NEW q, NEW A, Measured(g, q, A)
  PROVE  /\ CandsOf(g, q, A) \in SUBSET Pairs
         /\ \A C \in SUBSET CandsOf(g, q, A) : C \in SUBSET Pairs /\ IsFiniteSet(C)
         /\ \A c \in CandsOf(g, q, A) : c[2] \in A /\ c = Cand(g, q, c[2])
         /\ \A j \in A : Cand(g, q, j) \in CandsOf(g, q, A) /\ Cand(g, q, j)[2] = j
         /\ IsFiniteSet(A)
<1>1. PICK n \in Nat : n = Len(g.vec)
  BY LenProperties DEF Measured
<1>2. A \subseteq 1 .. n
  BY <1>1 DEF Measured, Point
<1>3. IsFiniteSet(A)
  <2>1. 1 \in Int /\ n \in Int
    OBVIOUS
  <2>2. IsFiniteSet(1 .. n)
    BY <2>1, FS_Interval
  <2>3. QED
    BY <1>2, <2>2, FS_Subset
<1>4. ASSUME NEW j \in A
      PROVE  Cand(g, q, j) \in Pairs /\ Cand(g, q, j)[2] = j /\ Cand(g, q, j) \in CandsOf(g, q, A)
  <2>1. j \in Nat /\ g.vec[j] \in Embedding
    BY <1>1, <1>2, ElementOfSeq DEF Measured
  <2>2. Dist[q][g.vec[j]] \in Nat
    BY <2>1, HnswAssumption DEF Measured
  <2>3. QED
    BY <2>1, <2>2 DEF Cand, Pairs, CandsOf
<1>5. CandsOf(g, q, A) \in SUBSET Pairs
  BY <1>4 DEF CandsOf
<1>6. \A c \in CandsOf(g, q, A) : c[2] \in A /\ c = Cand(g, q, c[2])
  BY <1>4 DEF CandsOf
<1>7. IsFiniteSet(CandsOf(g, q, A))
  <2> DEFINE f == [j \in A |-> Cand(g, q, j)]
  <2>1. f \in Surjection(A, CandsOf(g, q, A))
    BY <1>4 DEF CandsOf, Surjection
  <2> HIDE DEF f
  <2>2. QED
    BY <1>3, <2>1, FS_Surjection
<1>8. \A C \in SUBSET CandsOf(g, q, A) : C \in SUBSET Pairs /\ IsFiniteSet(C)
  BY <1>5, <1>7, FS_Subset
<1>9. QED
  BY <1>3, <1>4, <1>5, <1>6, <1>8

SearchStates(g, q, A) ==
  {s \in [visited : SUBSET A, to_visit : SUBSET CandsOf(g, q, A), found : SUBSET CandsOf(g, q, A)] :
     s.found # {}}

LEMMA VisitStays ==
  ASSUME NEW g, NEW q, NEW A, Measured(g, q, A), NEW ef \in Nat \ {0}, NEW skip,
         NEW s \in SearchStates(g, q, A), NEW i \in A
  PROVE  Visit(g, q, ef, skip, s, i) \in SearchStates(g, q, A)
<1> DEFINE C == CandsOf(g, q, A)
<1>1. s \in [visited : SUBSET A, to_visit : SUBSET C, found : SUBSET C] /\ s.found # {}
  BY DEF SearchStates
<1>2. PICK c \in C : c = Cand(g, q, i)
  BY CandidatesAreFinite
<1> HIDE DEF C
<1>3. PICK found \in SUBSET C : found = s.found \cup {c}
  BY <1>1, <1>2
<1>4. PICK far : far = Farthest(found)
  OBVIOUS
<1>5. PICK rest \in SUBSET C : rest = IF Cardinality(found) > ef THEN found \ {far} ELSE found
  BY <1>3
<1>6. rest # {}
  <2>1. IsFiniteSet(found) /\ Cardinality(found) \in Nat
    BY <1>3, CandidatesAreFinite, FS_CardinalityType DEF C
  <2>2. CASE Cardinality(found) > ef
    <3>1. SUFFICES ASSUME found \ {far} = {} PROVE FALSE
      BY <1>5, <2>2
    <3>2. found = {far}
      BY <1>3, <3>1
    <3>3. Cardinality(found) = 1
      BY <3>2, FS_Singleton
    <3>4. QED
      BY <2>2, <3>3
  <2>3. CASE ~ (Cardinality(found) > ef)
    BY <1>3, <1>5, <2>3
  <2>4. QED
    BY <2>2, <2>3
<1>7. \/ Visit(g, q, ef, skip, s, i) = s
      \/ Visit(g, q, ef, skip, s, i) = [s EXCEPT !.visited = @ \cup {i}]
      \/ Visit(g, q, ef, skip, s, i) =
           [visited |-> s.visited \cup {i}, to_visit |-> s.to_visit \cup {c}, found |-> rest]
  BY <1>2, <1>3, <1>4, <1>5 DEF Visit
<1>8. CASE Visit(g, q, ef, skip, s, i) = s
  BY <1>8
<1>9. CASE Visit(g, q, ef, skip, s, i) = [s EXCEPT !.visited = @ \cup {i}]
  <2>1. /\ [s EXCEPT !.visited = @ \cup {i}]
             \in [visited : SUBSET A, to_visit : SUBSET C, found : SUBSET C]
        /\ [s EXCEPT !.visited = @ \cup {i}].found = s.found
    BY <1>1
  <2>2. QED
    BY <1>1, <1>9, <2>1 DEF SearchStates, C
<1>10. CASE Visit(g, q, ef, skip, s, i) =
              [visited |-> s.visited \cup {i}, to_visit |-> s.to_visit \cup {c}, found |-> rest]
  <2>1. s.visited \cup {i} \in SUBSET A /\ s.to_visit \cup {c} \in SUBSET C
    BY <1>1, <1>2
  <2>2. QED
    BY <1>6, <1>10, <2>1 DEF SearchStates, C
<1>11. QED
  BY <1>7, <1>8, <1>9, <1>10

\* The visits of one turn of search_layer.
LEMMA VisitsIn ==
  ASSUME NEW g, NEW q, NEW ef, NEW lc, NEW skip, NEW s, ~ Over(s),
         Len(Linked(g, Closest(s.to_visit)[2], lc)) \in Nat, NEW D,
         [s EXCEPT !.to_visit = @ \ {Closest(s.to_visit)}] \in D[0],
         \A i \in 1 .. Len(Linked(g, Closest(s.to_visit)[2], lc)) : \A x \in D[i - 1] :
           Visit(g, q, ef, skip, x, Linked(g, Closest(s.to_visit)[2], lc)[i]) \in D[i]
  PROVE  SearchOn(g, q, ef, lc, skip, s) \in D[Len(Linked(g, Closest(s.to_visit)[2], lc))]
<1> DEFINE n == Len(Linked(g, Closest(s.to_visit)[2], lc))
           first == [s EXCEPT !.to_visit = @ \ {Closest(s.to_visit)}]
           Turn(x, i) == Visit(g, q, ef, skip, x, Linked(g, Closest(s.to_visit)[2], lc)[i])
           Turns(f) == f = [i \in 0 .. n |-> IF i = 0 THEN first ELSE Turn(f[i - 1], i)]
           step == [at \in (1 .. n) \X UNION {D[i] : i \in 0 .. n} |-> Turn(at[2], at[1])]
           after == CHOOSE f : Turns(f)
<1>1. SearchOn(g, q, ef, lc, skip, s) = after[n]
  BY DEF SearchOn, Each
<1>2. n \in Nat /\ first \in D[0] /\ \A i \in 1 .. n : \A x \in D[i - 1] : Turn(x, i) \in D[i]
  OBVIOUS
<1> HIDE DEF n, first, Turn
<1>3. ASSUME NEW i \in 1 .. n, NEW x \in D[i - 1]
      PROVE  step[<<i, x>>] = Turn(x, i) /\ step[<<i, x>>] \in D[i]
  <2>1. i - 1 \in 0 .. n
    BY <1>2
  <2>2. <<i, x>> \in (1 .. n) \X UNION {D[j] : j \in 0 .. n}
    BY <2>1
  <2>3. QED
    BY <1>2, <2>2
<1> HIDE DEF step
<1>4. PICK f : StaysIn(f, n, D, first, step)
  <2>1. \A i \in 1 .. n : \A x \in D[i - 1] : step[<<i, x>>] \in D[i]
    BY <1>3
  <2>2. n \in Nat /\ first \in D[0]
    BY <1>2
  <2>3. QED
    BY <2>1, <2>2, LoopIn
<1>5. ASSUME NEW i \in 0 .. n
      PROVE  f[i] = IF i = 0 THEN first ELSE Turn(f[i - 1], i)
  <2>1. CASE i = 0
    BY <1>4, <2>1 DEF StaysIn
  <2>2. CASE i # 0
    <3>1. i \in 1 .. n /\ i - 1 \in 0 .. n
      BY <1>2, <2>2
    <3>2. f[i] = Turn(f[i - 1], i)
      BY <1>3, <1>4, <3>1 DEF StaysIn
    <3>3. QED
      BY <2>2, <3>2
  <2>3. QED
    BY <2>1, <2>2
<1>6. Turns(f)
  <2>1. [i \in 0 .. n |-> f[i]] = [i \in 0 .. n |-> IF i = 0 THEN first ELSE Turn(f[i - 1], i)]
    BY <1>5
  <2>2. QED
    BY <1>4, <2>1 DEF StaysIn
<1>7. after = [i \in 0 .. n |-> IF i = 0 THEN first ELSE Turn(after[i - 1], i)]
  BY <1>6
<1> HIDE DEF after
<1>8. ASSUME NEW i \in 1 .. n, after[i - 1] \in D[i - 1]
      PROVE  after[i] \in D[i]
  <2>1. i \in 0 .. n /\ i # 0
    BY <1>2
  <2>2. after[i] = Turn(after[i - 1], i)
    BY <1>7, <2>1
  <2>3. QED
    BY <1>2, <1>8, <2>2
<1>9. after[0] \in D[0]
  <2>1. 0 \in 0 .. n
    BY <1>2
  <2>2. after[0] = first
    BY <1>7, <2>1
  <2>3. QED
    BY <1>2, <2>2
<1>10. after[n] \in D[n]
  BY <1>2, <1>8, <1>9, LoopLeft
<1>11. QED
  BY <1>1, <1>10 DEF n

LEMMA SearchOnStays ==
  ASSUME NEW g, NEW q, NEW A, Measured(g, q, A), NEW ef \in Nat \ {0}, NEW skip, NEW lc,
         LinksStay(g, A, lc), NEW s \in SearchStates(g, q, A)
  PROVE  SearchOn(g, q, ef, lc, skip, s) \in SearchStates(g, q, A)
<1>1. CASE Over(s)
  BY <1>1 DEF SearchOn, Each
<1>2. CASE ~ Over(s)
  <2>1. PICK cur : cur = Closest(s.to_visit)
    OBVIOUS
  <2>2. cur \in CandsOf(g, q, A) /\ cur[2] \in A
    <3>1. s.to_visit \in SUBSET CandsOf(g, q, A) /\ s.to_visit # {}
      BY <1>2 DEF SearchStates, Over
    <3>2. cur \in s.to_visit
      BY <2>1, <3>1, CandidatesAreFinite, NearestIsFirst
    <3>3. QED
      BY <3>1, <3>2, CandidatesAreFinite
  <2>3. PICK first : first = [s EXCEPT !.to_visit = @ \ {cur}]
    OBVIOUS
  <2>4. first \in SearchStates(g, q, A)
    BY <2>3 DEF SearchStates
  <2>5. PICK seq \in Seq(A) : seq = Linked(g, cur[2], lc)
    BY <2>2 DEF LinksStay
  <2>6. PICK n \in Nat : n = Len(seq)
    BY LenProperties
  <2> DEFINE D == [i \in 0 .. n |-> SearchStates(g, q, A)]
  <2>7. \A i \in 0 .. n : D[i] = SearchStates(g, q, A)
    OBVIOUS
  <2> HIDE DEF D
  <2>8. 0 \in 0 .. n /\ n \in 0 .. n /\ \A i \in 1 .. n : i \in 0 .. n /\ i - 1 \in 0 .. n
    OBVIOUS
  <2>9. ASSUME NEW i \in 1 .. n, NEW x \in D[i - 1]
        PROVE  Visit(g, q, ef, skip, x, seq[i]) \in D[i]
    <3>1. x \in SearchStates(g, q, A) /\ seq[i] \in A
      BY <2>6, <2>7, <2>8, ElementOfSeq
    <3>2. Visit(g, q, ef, skip, x, seq[i]) \in SearchStates(g, q, A)
      BY <3>1, VisitStays
    <3>3. QED
      BY <2>7, <2>8, <3>2
  <2>10. first \in D[0]
    BY <2>4, <2>7, <2>8
  <2>11. SearchOn(g, q, ef, lc, skip, s) \in D[n]
    <3>1. /\ Len(Linked(g, Closest(s.to_visit)[2], lc)) \in Nat
          /\ Len(Linked(g, Closest(s.to_visit)[2], lc)) = n
      BY <2>1, <2>5, <2>6
    <3>2. [s EXCEPT !.to_visit = @ \ {Closest(s.to_visit)}] \in D[0]
      BY <2>1, <2>3, <2>10
    <3>3. \A i \in 1 .. Len(Linked(g, Closest(s.to_visit)[2], lc)) : \A x \in D[i - 1] :
            Visit(g, q, ef, skip, x, Linked(g, Closest(s.to_visit)[2], lc)[i]) \in D[i]
      BY <2>1, <2>5, <2>6, <2>9
    <3>4. SearchOn(g, q, ef, lc, skip, s) \in D[Len(Linked(g, Closest(s.to_visit)[2], lc))]
      BY <1>2, <3>1, <3>2, <3>3, VisitsIn
    <3>5. QED
      BY <3>1, <3>4
  <2>12. QED
    BY <2>7, <2>8, <2>11
<1>3. QED
  BY <1>1, <1>2

\* The turns of search_layer.
LEMMA TurnsIn ==
  ASSUME NEW g, NEW q, NEW start, NEW ef, NEW lc, NEW skip,
         Len(Down(Len(g.vec), 1)) \in Nat, NEW D,
         [visited |-> {start}, to_visit |-> {Cand(g, q, start)},
          found |-> {Cand(g, q, start)}] \in D[0],
         \A i \in 1 .. Len(Down(Len(g.vec), 1)) : \A x \in D[i - 1] :
           SearchOn(g, q, ef, lc, skip, x) \in D[i]
  PROVE  \E s \in D[Len(Down(Len(g.vec), 1))] : SearchLayer(g, q, start, ef, lc, skip) = s.found
<1> DEFINE n == Len(Down(Len(g.vec), 1))
           first == [visited |-> {start}, to_visit |-> {Cand(g, q, start)},
                     found |-> {Cand(g, q, start)}]
           Turn(x, i) == SearchOn(g, q, ef, lc, skip, x)
           Turns(f) == f = [i \in 0 .. n |-> IF i = 0 THEN first ELSE Turn(f[i - 1], i)]
           step == [at \in (1 .. n) \X UNION {D[i] : i \in 0 .. n} |-> Turn(at[2], at[1])]
           after == CHOOSE f : Turns(f)
<1>1. SearchLayer(g, q, start, ef, lc, skip) = after[n].found
  BY DEF SearchLayer, Repeat, Each
<1>2. n \in Nat /\ first \in D[0] /\ \A i \in 1 .. n : \A x \in D[i - 1] : Turn(x, i) \in D[i]
  OBVIOUS
<1> HIDE DEF n, first, Turn
<1>3. ASSUME NEW i \in 1 .. n, NEW x \in D[i - 1]
      PROVE  step[<<i, x>>] = Turn(x, i) /\ step[<<i, x>>] \in D[i]
  <2>1. i - 1 \in 0 .. n
    BY <1>2
  <2>2. <<i, x>> \in (1 .. n) \X UNION {D[j] : j \in 0 .. n}
    BY <2>1
  <2>3. QED
    BY <1>2, <2>2
<1> HIDE DEF step
<1>4. PICK f : StaysIn(f, n, D, first, step)
  <2>1. \A i \in 1 .. n : \A x \in D[i - 1] : step[<<i, x>>] \in D[i]
    BY <1>3
  <2>2. n \in Nat /\ first \in D[0]
    BY <1>2
  <2>3. QED
    BY <2>1, <2>2, LoopIn
<1>5. ASSUME NEW i \in 0 .. n
      PROVE  f[i] = IF i = 0 THEN first ELSE Turn(f[i - 1], i)
  <2>1. CASE i = 0
    BY <1>4, <2>1 DEF StaysIn
  <2>2. CASE i # 0
    <3>1. i \in 1 .. n /\ i - 1 \in 0 .. n
      BY <1>2, <2>2
    <3>2. f[i] = Turn(f[i - 1], i)
      BY <1>3, <1>4, <3>1 DEF StaysIn
    <3>3. QED
      BY <2>2, <3>2
  <2>3. QED
    BY <2>1, <2>2
<1>6. Turns(f)
  <2>1. [i \in 0 .. n |-> f[i]] = [i \in 0 .. n |-> IF i = 0 THEN first ELSE Turn(f[i - 1], i)]
    BY <1>5
  <2>2. QED
    BY <1>4, <2>1 DEF StaysIn
<1>7. after = [i \in 0 .. n |-> IF i = 0 THEN first ELSE Turn(after[i - 1], i)]
  BY <1>6
<1> HIDE DEF after
<1>8. ASSUME NEW i \in 1 .. n, after[i - 1] \in D[i - 1]
      PROVE  after[i] \in D[i]
  <2>1. i \in 0 .. n /\ i # 0
    BY <1>2
  <2>2. after[i] = Turn(after[i - 1], i)
    BY <1>7, <2>1
  <2>3. QED
    BY <1>2, <1>8, <2>2
<1>9. after[0] \in D[0]
  <2>1. 0 \in 0 .. n
    BY <1>2
  <2>2. after[0] = first
    BY <1>7, <2>1
  <2>3. QED
    BY <1>2, <2>2
<1>10. after[n] \in D[n]
  BY <1>2, <1>8, <1>9, LoopLeft
<1>11. QED
  BY <1>1, <1>10 DEF n

\* search_layer finds something, and only points of A.
LEMMA SearchStays ==
  ASSUME NEW g, NEW q, NEW A, Measured(g, q, A), NEW ef \in Nat \ {0}, NEW skip, NEW lc,
         LinksStay(g, A, lc), NEW start \in A
  PROVE  /\ SearchLayer(g, q, start, ef, lc, skip) \in SUBSET CandsOf(g, q, A)
         /\ SearchLayer(g, q, start, ef, lc, skip) # {}
<1>1. PICK m \in Nat : m = Len(g.vec)
  BY LenProperties DEF Measured
<1>2. PICK n \in Nat : n = Len(Down(m, 1))
  BY DownCounts
<1>3. PICK first : first = [visited |-> {start}, to_visit |-> {Cand(g, q, start)},
                            found |-> {Cand(g, q, start)}]
  OBVIOUS
<1>4. first \in SearchStates(g, q, A)
  <2>1. Cand(g, q, start) \in CandsOf(g, q, A)
    BY CandidatesAreFinite
  <2>2. QED
    BY <1>3, <2>1 DEF SearchStates
<1> DEFINE D == [i \in 0 .. n |-> SearchStates(g, q, A)]
<1>5. \A i \in 0 .. n : D[i] = SearchStates(g, q, A)
  OBVIOUS
<1> HIDE DEF D
<1>6. 0 \in 0 .. n /\ n \in 0 .. n /\ \A i \in 1 .. n : i \in 0 .. n /\ i - 1 \in 0 .. n
  OBVIOUS
<1>7. ASSUME NEW i \in 1 .. n, NEW x \in D[i - 1]
      PROVE  SearchOn(g, q, ef, lc, skip, x) \in D[i]
  <2>1. x \in SearchStates(g, q, A)
    BY <1>5, <1>6
  <2>2. SearchOn(g, q, ef, lc, skip, x) \in SearchStates(g, q, A)
    BY <2>1, SearchOnStays
  <2>3. QED
    BY <1>5, <1>6, <2>2
<1>8. PICK s \in D[n] : SearchLayer(g, q, start, ef, lc, skip) = s.found
  <2>1. Len(Down(Len(g.vec), 1)) = n /\ Len(Down(Len(g.vec), 1)) \in Nat
    BY <1>1, <1>2
  <2>2. [visited |-> {start}, to_visit |-> {Cand(g, q, start)},
         found |-> {Cand(g, q, start)}] \in D[0]
    BY <1>3, <1>4, <1>5, <1>6
  <2>3. \A i \in 1 .. Len(Down(Len(g.vec), 1)) : \A x \in D[i - 1] :
          SearchOn(g, q, ef, lc, skip, x) \in D[i]
    BY <1>7, <2>1
  <2>4. \E s \in D[Len(Down(Len(g.vec), 1))] : SearchLayer(g, q, start, ef, lc, skip) = s.found
    BY <2>1, <2>2, <2>3, TurnsIn
  <2>5. QED
    BY <2>1, <2>4
<1>9. s \in SearchStates(g, q, A)
  BY <1>5, <1>6, <1>8
<1>10. QED
  BY <1>8, <1>9 DEF SearchStates

--------------------------------------------------------------------------------
(* The graph between two operations.                                       *)

\* The points of a layer.
OnLayer(g, lc) == {i \in Point(g) : lc <= g.level[i]}

\* What links[i] may be, whatever the level of i.
Lists == UNION {[0 .. l -> Seq(Nat)] : l \in 0 .. MaxLevel}

Graphs ==
  [vec : Seq(Embedding), level : Seq(0 .. MaxLevel), links : Seq(Lists), deleted : SUBSET Nat,
   entry : Nat, top : 0 .. MaxLevel]

Shape(g) ==
  /\ g \in Graphs /\ Len(g.level) = Len(g.vec) /\ Len(g.links) = Len(g.vec)
  /\ \A i \in Point(g) : DOMAIN g.links[i] = 0 .. g.level[i]

GoodList(g, i, lc, s) ==
  s \in Seq(OnLayer(g, lc) \ {i}) /\ IsInjective(s) /\ Len(s) <= Cap(lc)

LinksGood(g) ==
  \A i \in Point(g) : \A lc \in 0 .. g.level[i] : GoodList(g, i, lc, Linked(g, i, lc))

EntryGood(g) ==
  /\ g.entry \in Point(g) \cup {0}
  /\ Point(g) # {} => /\ g.entry \in Point(g) /\ g.level[g.entry] = g.top
                      /\ \A i \in Point(g) : g.level[i] <= g.top

\* Until lists are cut, whatever the links of layer 0 do not leave is all the points.
Joined(g) ==
  Len(g.vec) <= Cap(0) + 1 =>
    \A S \in SUBSET Point(g) : S # {} /\ LinksStay(g, S, 0) => S = Point(g)

GraphInv(g) ==
  Shape(g) /\ LinksGood(g) /\ EntryGood(g) /\ g.deleted \subseteq Point(g) /\ Joined(g)

IndexInv == GraphInv(graph)

LEMMA SeqWithin ==
  ASSUME NEW A, NEW s \in Seq(A), NEW B, \A k \in 1 .. Len(s) : s[k] \in B
  PROVE  s \in Seq(B)
<1>1. PICK n \in Nat : n = Len(s)
  BY LenProperties
<1>2. s \in [1 .. n -> A]
  BY <1>1, LenProperties
<1>3. s \in [1 .. n -> B]
  BY <1>1, <1>2
<1>4. QED
  BY <1>3, SeqDef

LEMMA SeqWider ==
  ASSUME NEW A, NEW s \in Seq(A), NEW B, A \subseteq B
  PROVE  s \in Seq(B)
<1>1. \A k \in 1 .. Len(s) : s[k] \in B
  BY ElementOfSeq
<1>2. QED
  BY <1>1, SeqWithin

LEMMA SeqRange ==
  ASSUME NEW A, NEW s \in Seq(A)
  PROVE  /\ Range(s) \subseteq A /\ \A k \in 1 .. Len(s) : s[k] \in Range(s)
         /\ \A x \in Range(s) : \E k \in 1 .. Len(s) : s[k] = x
<1>1. DOMAIN s = 1 .. Len(s) /\ \A k \in 1 .. Len(s) : s[k] \in A
  BY LenProperties, ElementOfSeq
<1>2. \A x : x \in Range(s) <=> \E k \in 1 .. Len(s) : s[k] = x
  BY <1>1 DEF Range
<1>3. \A k \in 1 .. Len(s) : s[k] \in Range(s)
  BY <1>2
<1>4. Range(s) \subseteq A
  BY <1>1, <1>2
<1>5. QED
  BY <1>2, <1>3, <1>4

\* A list stays one without repetition when a new point is put at its end.
LEMMA AppendNew ==
  ASSUME NEW A, NEW s \in Seq(A), IsInjective(s), NEW x \in A, x \notin Range(s)
  PROVE  /\ Append(s, x) \in Seq(A) /\ IsInjective(Append(s, x))
         /\ Len(Append(s, x)) = Len(s) + 1
         /\ Range(Append(s, x)) = Range(s) \cup {x}
<1>1. PICK n \in Nat : n = Len(s)
  BY LenProperties
<1>2. PICK t : t = Append(s, x)
  OBVIOUS
<1>3. t \in Seq(A) /\ Len(t) = n + 1 /\ (\A k \in 1 .. n : t[k] = s[k]) /\ t[n + 1] = x
  BY <1>1, <1>2, AppendProperties
<1>4. DOMAIN t = 1 .. n + 1 /\ DOMAIN s = 1 .. n
  BY <1>1, <1>3, LenProperties
<1>5. \A k \in 1 .. n : s[k] # x
  BY <1>4 DEF Range
<1>6. ASSUME NEW a \in 1 .. n + 1, NEW b \in 1 .. n + 1, t[a] = t[b]
      PROVE  a = b
  <2>1. CASE a \in 1 .. n /\ b \in 1 .. n
    BY <1>3, <1>4, <1>6, <2>1 DEF IsInjective
  <2>2. CASE a = n + 1 /\ b = n + 1
    BY <2>2
  <2>3. CASE a \in 1 .. n /\ b = n + 1
    BY <1>3, <1>5, <1>6, <2>3
  <2>4. CASE a = n + 1 /\ b \in 1 .. n
    BY <1>3, <1>5, <1>6, <2>4
  <2>5. QED
    BY <2>1, <2>2, <2>3, <2>4
<1>7. IsInjective(t)
  BY <1>4, <1>6 DEF IsInjective
<1>8. ASSUME NEW y
      PROVE  y \in Range(t) <=> y \in Range(s) \/ y = x
  <2>1. y \in Range(t) <=> \E k \in 1 .. n + 1 : t[k] = y
    BY <1>4 DEF Range
  <2>2. y \in Range(s) <=> \E k \in 1 .. n : s[k] = y
    BY <1>4 DEF Range
  <2>3. \A k \in 1 .. n + 1 : k \in 1 .. n \/ k = n + 1
    OBVIOUS
  <2>4. n + 1 \in 1 .. n + 1 /\ \A k \in 1 .. n : k \in 1 .. n + 1
    OBVIOUS
  <2>5. QED
    BY <1>3, <2>1, <2>2, <2>3, <2>4
<1>9. Range(t) = Range(s) \cup {x}
  BY <1>8
<1>10. QED
  BY <1>1, <1>2, <1>3, <1>7, <1>9

LEMMA CapCounts ==
  ASSUME NEW lc \in Nat
  PROVE  Cap(lc) \in Nat /\ M <= Cap(lc) /\ M \in Nat /\ M # 0 /\ EfConstruction \in Nat \ {0}
BY HnswAssumption DEF Cap

\* What is taken of candidates: their points, each once, nearest first.
LEMMA PointsTaken ==
  ASSUME NEW g, NEW q, NEW A, Measured(g, q, A), NEW C \in SUBSET CandsOf(g, q, A), NEW m \in Nat
  PROVE  /\ TakeNearest(C, m) \in Seq(A) /\ Len(TakeNearest(C, m)) <= m
         /\ IsInjective(TakeNearest(C, m))
         /\ C # {} /\ m # 0 => Len(TakeNearest(C, m)) # 0
         /\ \A i \in 1 .. Len(TakeNearest(C, m)) : Cand(g, q, TakeNearest(C, m)[i]) \in C
         /\ \A i, j \in 1 .. Len(TakeNearest(C, m)) :
              i < j => Nearer(Cand(g, q, TakeNearest(C, m)[i]), Cand(g, q, TakeNearest(C, m)[j]))
<1>1. C \in SUBSET Pairs /\ IsFiniteSet(C) /\ \A c \in C : c[2] \in A /\ c = Cand(g, q, c[2])
  BY CandidatesAreFinite
<1>2. PICK t : t = TakeNearest(C, m)
  OBVIOUS
<1>3. /\ t \in Seq(A) /\ Len(t) <= m /\ (C # {} /\ m # 0 => Len(t) # 0)
      /\ \A i \in 1 .. Len(t) : \E c \in C : t[i] = c[2]
      /\ \A i, j \in 1 .. Len(t) :
           i < j => \E c, d \in C : t[i] = c[2] /\ t[j] = d[2] /\ Nearer(c, d)
  <2>1. \A c \in C : c[2] \in A
    BY <1>1
  <2>2. C \in SUBSET Pairs /\ IsFiniteSet(C)
    BY <1>1
  <2>3. /\ TakeNearest(C, m) \in Seq(A) /\ Len(TakeNearest(C, m)) <= m
        /\ C # {} /\ m # 0 => Len(TakeNearest(C, m)) # 0
    BY <2>1, <2>2, NearestTaken
  <2>4. \A i \in 1 .. Len(TakeNearest(C, m)) : \E c \in C : TakeNearest(C, m)[i] = c[2]
    BY <2>1, <2>2, NearestTaken
  <2>5. \A i, j \in 1 .. Len(TakeNearest(C, m)) :
          i < j => \E c, d \in C : /\ TakeNearest(C, m)[i] = c[2]
                                   /\ TakeNearest(C, m)[j] = d[2] /\ Nearer(c, d)
    BY <2>1, <2>2, NearestTaken
  <2>6. QED
    BY <1>2, <2>3, <2>4, <2>5
<1>4. \A i \in 1 .. Len(t) : Cand(g, q, t[i]) \in C
  BY <1>1, <1>3
<1>5. \A i, j \in 1 .. Len(t) : i < j => Nearer(Cand(g, q, t[i]), Cand(g, q, t[j]))
  BY <1>1, <1>3
<1>6. DOMAIN t = 1 .. Len(t) /\ Len(t) \in Nat
  BY <1>3, LenProperties
<1>7. ASSUME NEW i \in 1 .. Len(t), NEW j \in 1 .. Len(t), t[i] = t[j], i # j
      PROVE  FALSE
  <2>1. i < j \/ j < i
    BY <1>6, <1>7
  <2>2. Nearer(Cand(g, q, t[i]), Cand(g, q, t[i]))
    BY <1>5, <1>7, <2>1
  <2>3. Cand(g, q, t[i]) \in Pairs
    BY <1>1, <1>4
  <2>4. QED
    BY <2>2, <2>3, NearerOrders
<1>8. IsInjective(t)
  BY <1>6, <1>7 DEF IsInjective
<1>9. QED
  BY <1>2, <1>3, <1>4, <1>5, <1>8

\* shrink_links leaves some of the links, no more than the cap; all of them within it.
LEMMA ShrinkKeeps ==
  ASSUME NEW g, NEW owner, NEW A, Measured(g, g.vec[owner], A), NEW links \in Seq(A),
         IsInjective(links), NEW lc \in Nat
  PROVE  /\ ShrinkLinks(g, owner, links, lc) \in Seq(A)
         /\ IsInjective(ShrinkLinks(g, owner, links, lc))
         /\ Len(ShrinkLinks(g, owner, links, lc)) <= Cap(lc)
         /\ Len(links) <= Cap(lc) => ShrinkLinks(g, owner, links, lc) = links
<1>1. CASE Len(links) <= Cap(lc)
  BY <1>1 DEF ShrinkLinks
<1>2. CASE ~ (Len(links) <= Cap(lc))
  <2>1. PICK v : v = g.vec[owner]
    OBVIOUS
  <2>2. PICK C : C = {Cand(g, v, i) : i \in Range(links)}
    OBVIOUS
  <2>3. C \in SUBSET CandsOf(g, v, A)
    BY <2>2, SeqRange DEF CandsOf
  <2>4. ShrinkLinks(g, owner, links, lc) = TakeNearest(C, Cap(lc))
    BY <1>2, <2>1, <2>2 DEF ShrinkLinks
  <2>5. Measured(g, v, A) /\ Cap(lc) \in Nat
    BY <2>1, CapCounts
  <2>6. QED
    BY <1>2, <2>3, <2>4, <2>5, PointsTaken
<1>3. QED
  BY <1>1, <1>2

\* Nothing differs but links.
SameButLinks(h, g) ==
  h.vec = g.vec /\ h.level = g.level /\ h.deleted = g.deleted /\ h.entry = g.entry /\ h.top = g.top

\* The links on layer m of the points that are on it.
SameOnLayer(h, g, m) == \A j \in OnLayer(g, m) : Linked(h, j, m) = Linked(g, j, m)

Sturdy(g) == Shape(g) /\ LinksGood(g)

LEMMA ShapeTypes ==
  ASSUME NEW g, Shape(g)
  PROVE  /\ g.vec \in Seq(Embedding) /\ Len(g.vec) \in Nat
         /\ g.level \in Seq(0 .. MaxLevel) /\ g.links \in Seq(Lists)
         /\ DOMAIN g.links = Point(g) /\ DOMAIN g.level = Point(g)
         /\ g.top \in Nat /\ g.entry \in Nat /\ Point(g) \subseteq Nat
         /\ \A i \in Point(g) : /\ g.vec[i] \in Embedding /\ g.level[i] \in 0 .. MaxLevel
                                /\ g.level[i] \in Nat /\ MaxLevel \in Nat
                                /\ g.links[i] \in [0 .. g.level[i] -> Seq(Nat)]
<1>1. /\ g.vec \in Seq(Embedding) /\ g.level \in Seq(0 .. MaxLevel) /\ g.links \in Seq(Lists)
      /\ g.top \in 0 .. MaxLevel /\ g.entry \in Nat
      /\ Len(g.level) = Len(g.vec) /\ Len(g.links) = Len(g.vec)
  BY DEF Shape, Graphs
<1>2. Len(g.vec) \in Nat /\ DOMAIN g.links = 1 .. Len(g.vec) /\ DOMAIN g.level = 1 .. Len(g.vec)
  BY <1>1, LenProperties
<1>3. MaxLevel \in Nat
  BY HnswAssumption
<1>4. ASSUME NEW i \in Point(g)
      PROVE  /\ g.vec[i] \in Embedding /\ g.level[i] \in 0 .. MaxLevel
             /\ g.links[i] \in [0 .. g.level[i] -> Seq(Nat)]
  <2>1. /\ g.vec[i] \in Embedding /\ g.level[i] \in 0 .. MaxLevel /\ g.links[i] \in Lists
    BY <1>1, ElementOfSeq DEF Point
  <2>2. PICK l \in 0 .. MaxLevel : g.links[i] \in [0 .. l -> Seq(Nat)]
    BY <2>1 DEF Lists
  <2>3. DOMAIN g.links[i] = 0 .. g.level[i]
    BY DEF Shape
  <2>4. 0 .. l = 0 .. g.level[i]
    BY <2>2, <2>3
  <2>5. QED
    BY <2>1, <2>2, <2>4
<1>5. \A i \in Point(g) : g.level[i] \in Nat
  BY <1>4
<1>6. Point(g) \subseteq Nat
  BY <1>2 DEF Point
<1>7. g.top \in Nat
  BY <1>1
<1>8. DOMAIN g.links = Point(g) /\ DOMAIN g.level = Point(g)
  BY <1>2 DEF Point
<1>9. QED
  BY <1>1, <1>2, <1>3, <1>4, <1>5, <1>6, <1>7, <1>8

LEMMA SameLayers ==
  ASSUME NEW g, NEW h, SameButLinks(h, g)
  PROVE  /\ Point(h) = Point(g) /\ \A m : OnLayer(h, m) = OnLayer(g, m)
         /\ \A q, i : Cand(h, q, i) = Cand(g, q, i)
<1>1. Point(h) = Point(g)
  BY DEF SameButLinks, Point
<1>2. \A m : OnLayer(h, m) = OnLayer(g, m)
  BY <1>1 DEF SameButLinks, OnLayer
<1>3. QED
  BY <1>1, <1>2 DEF SameButLinks, Cand

\* A good list may take the place of one.
LEMMA ListReplaced ==
  ASSUME NEW g, Sturdy(g), NEW lc \in Nat, NEW j \in OnLayer(g, lc), NEW s, GoodList(g, j, lc, s),
         NEW h, h = [g EXCEPT !.links[j][lc] = s]
  PROVE  /\ Sturdy(h) /\ SameButLinks(h, g) /\ Linked(h, j, lc) = s
         /\ \A i \in Point(g) : \A m : i # j \/ m # lc => Linked(h, i, m) = Linked(g, i, m)
<1>1. /\ g \in Graphs /\ j \in Point(g) /\ lc <= g.level[j]
  BY DEF Sturdy, Shape, OnLayer
<1>2. PICK links : links = [g.links EXCEPT ![j] = [@ EXCEPT ![lc] = s]]
  OBVIOUS
<1>3. h = [g EXCEPT !.links = links]
  BY <1>2
<1>4. SameButLinks(h, g) /\ h.links = links
  BY <1>1, <1>3 DEF SameButLinks, Graphs
<1>5. lc \in 0 .. g.level[j] /\ lc \in DOMAIN g.links[j] /\ g.level[j] \in 0 .. MaxLevel
  BY <1>1, ShapeTypes DEF Sturdy
<1>6. s \in Seq(Nat)
  <2>1. s \in Seq(OnLayer(g, lc) \ {j}) /\ OnLayer(g, lc) \ {j} \subseteq Nat
    BY ShapeTypes DEF GoodList, OnLayer, Sturdy
  <2>2. QED
    BY <2>1, SeqWider
<1>7. PICK list : list = [g.links[j] EXCEPT ![lc] = s]
  OBVIOUS
<1>8. /\ list \in [0 .. g.level[j] -> Seq(Nat)] /\ list[lc] = s
      /\ \A m : m # lc => list[m] = g.links[j][m]
  BY <1>1, <1>5, <1>6, <1>7, ShapeTypes DEF Sturdy
<1>9. links = [g.links EXCEPT ![j] = list]
  BY <1>2, <1>7
<1>10. /\ links[j] = list /\ DOMAIN links = Point(g)
       /\ \A i \in Point(g) : i # j => links[i] = g.links[i]
  BY <1>1, <1>9, ShapeTypes DEF Sturdy
<1>11. links \in Seq(Lists) /\ Len(links) = Len(g.vec)
  <2>1. list \in Lists
    BY <1>5, <1>8 DEF Lists
  <2>2. j \in 1 .. Len(g.links) /\ g.links \in Seq(Lists) /\ Len(g.links) = Len(g.vec)
    BY <1>1, ShapeTypes DEF Sturdy, Shape, Point
  <2>3. QED
    BY <1>9, <2>1, <2>2, ExceptSeq
<1>12. Linked(h, j, lc) = s
  BY <1>4, <1>8, <1>10 DEF Linked
<1>13. ASSUME NEW i \in Point(g), NEW m, i # j \/ m # lc
       PROVE  Linked(h, i, m) = Linked(g, i, m)
  BY <1>4, <1>8, <1>10, <1>13 DEF Linked
<1>14. Shape(h)
  <2>1. h \in Graphs
    BY <1>1, <1>3, <1>11 DEF Graphs
  <2>2. \A i \in Point(g) : DOMAIN links[i] = 0 .. g.level[i]
    BY <1>8, <1>10 DEF Sturdy, Shape
  <2>3. Len(h.level) = Len(h.vec) /\ Len(h.links) = Len(h.vec)
    BY <1>4, <1>11 DEF SameButLinks, Sturdy, Shape
  <2>4. QED
    BY <1>4, <2>1, <2>2, <2>3, SameLayers DEF SameButLinks, Shape
<1>15. LinksGood(h)
  <2> SUFFICES ASSUME NEW i \in Point(h), NEW m \in 0 .. h.level[i]
               PROVE  GoodList(h, i, m, Linked(h, i, m))
    BY DEF LinksGood
  <2>1. i \in Point(g) /\ m \in 0 .. g.level[i] /\ OnLayer(h, m) = OnLayer(g, m)
    BY <1>4, SameLayers DEF SameButLinks
  <2>2. GoodList(g, i, m, Linked(h, i, m))
    BY <1>12, <1>13, <2>1 DEF Sturdy, LinksGood
  <2>3. QED
    BY <2>1, <2>2 DEF GoodList
<1>16. QED
  BY <1>4, <1>12, <1>13, <1>14, <1>15 DEF Sturdy

\* What add_point links a new point to on a layer.
Neighbours(s, i, lc) ==
  TakeNearest(SearchLayer(s.graph, s.graph.vec[i], s.start, EfConstruction, lc, i), M)

LEMMA BackLinked ==
  ASSUME NEW g, Sturdy(g), NEW lc \in Nat, NEW i \in OnLayer(g, lc), NEW nb \in OnLayer(g, lc),
         nb # i, i \notin Range(Linked(g, nb, lc)), NEW h, h = LinkBack(g, i, nb, lc)
  PROVE  /\ Sturdy(h) /\ SameButLinks(h, g)
         /\ \A j \in Point(g) : \A m : j # nb \/ m # lc => Linked(h, j, m) = Linked(g, j, m)
         /\ Len(Linked(g, nb, lc)) < Cap(lc) =>
              Range(Linked(h, nb, lc)) = Range(Linked(g, nb, lc)) \cup {i}
<1>1. PICK A : A = OnLayer(g, lc) \ {nb}
  OBVIOUS
<1>2. PICK old : old = Linked(g, nb, lc)
  OBVIOUS
<1>3. PICK more : more = Append(old, i)
  OBVIOUS
<1>4. PICK s : s = ShrinkLinks(g, nb, more, lc)
  OBVIOUS
<1>5. h = [g EXCEPT !.links[nb][lc] = s]
  BY <1>2, <1>3, <1>4 DEF LinkBack, Linked
<1>6. nb \in Point(g) /\ lc \in 0 .. g.level[nb]
  BY ShapeTypes DEF OnLayer, Sturdy
<1>7. old \in Seq(A) /\ IsInjective(old) /\ i \in A /\ i \notin Range(old)
  BY <1>1, <1>2, <1>6 DEF Sturdy, LinksGood, GoodList
<1>8. /\ more \in Seq(A) /\ IsInjective(more) /\ Len(more) = Len(old) + 1
      /\ Range(more) = Range(old) \cup {i}
  BY <1>3, <1>7, AppendNew
<1>9. Measured(g, g.vec[nb], A)
  BY <1>1, <1>6, ShapeTypes DEF Measured, Sturdy, OnLayer
<1>10. /\ s \in Seq(A) /\ IsInjective(s) /\ Len(s) <= Cap(lc)
       /\ Len(more) <= Cap(lc) => s = more
  BY <1>4, <1>8, <1>9, ShrinkKeeps
<1>11. GoodList(g, nb, lc, s)
  BY <1>1, <1>10 DEF GoodList
<1>12. /\ Sturdy(h) /\ SameButLinks(h, g) /\ Linked(h, nb, lc) = s
       /\ \A j \in Point(g) : \A m : j # nb \/ m # lc => Linked(h, j, m) = Linked(g, j, m)
  BY <1>5, <1>11, ListReplaced
<1>13. Len(old) < Cap(lc) => Len(more) <= Cap(lc)
  <2>1. Len(old) \in Nat /\ Cap(lc) \in Nat
    BY <1>7, LenProperties, CapCounts
  <2>2. QED
    BY <1>8, <2>1
<1>14. QED
  BY <1>2, <1>8, <1>10, <1>12, <1>13

\* The first k neighbours are linked back to i; nothing else has changed since base.
Backed(base, i, lc, nbs, k) ==
  {g \in Graphs :
     /\ Sturdy(g) /\ SameButLinks(g, base)
     /\ \A j \in Point(base) : \A m : m # lc \/ (\A n \in 1 .. k : nbs[n] # j) =>
          Linked(g, j, m) = Linked(base, j, m)
     /\ \A n \in 1 .. k : Len(Linked(base, nbs[n], lc)) < Cap(lc) =>
          Range(Linked(g, nbs[n], lc)) = Range(Linked(base, nbs[n], lc)) \cup {i}}

LEMMA BackedOneMore ==
  ASSUME NEW base, NEW lc \in Nat, NEW i \in OnLayer(base, lc),
         NEW nbs \in Seq(OnLayer(base, lc) \ {i}), IsInjective(nbs),
         \A j \in OnLayer(base, lc) \ {i} : i \notin Range(Linked(base, j, lc)),
         NEW k \in 1 .. Len(nbs), NEW g \in Backed(base, i, lc, nbs, k - 1)
  PROVE  LinkBack(g, i, nbs[k], lc) \in Backed(base, i, lc, nbs, k)
<1>1. PICK nb : nb = nbs[k]
  OBVIOUS
<1>2. nb \in OnLayer(base, lc) /\ nb # i /\ nb \in Point(base)
  BY <1>1, ElementOfSeq DEF OnLayer
<1>3. Len(nbs) \in Nat /\ DOMAIN nbs = 1 .. Len(nbs)
  BY LenProperties
<1>4. \A n \in 1 .. k - 1 : n \in 1 .. Len(nbs) /\ n # k /\ nbs[n] # nb
  BY <1>1, <1>3 DEF IsInjective
<1>5. /\ Sturdy(g) /\ SameButLinks(g, base)
      /\ \A j \in Point(base) : \A m : m # lc \/ (\A n \in 1 .. k - 1 : nbs[n] # j) =>
           Linked(g, j, m) = Linked(base, j, m)
      /\ \A n \in 1 .. k - 1 : Len(Linked(base, nbs[n], lc)) < Cap(lc) =>
           Range(Linked(g, nbs[n], lc)) = Range(Linked(base, nbs[n], lc)) \cup {i}
  BY DEF Backed
<1>6. Point(g) = Point(base) /\ OnLayer(g, lc) = OnLayer(base, lc)
  BY <1>5, SameLayers
<1>7. Linked(g, nb, lc) = Linked(base, nb, lc)
  BY <1>2, <1>4, <1>5
<1>8. PICK h : h = LinkBack(g, i, nb, lc)
  OBVIOUS
<1>9. /\ Sturdy(h) /\ SameButLinks(h, g)
      /\ \A j \in Point(g) : \A m : j # nb \/ m # lc => Linked(h, j, m) = Linked(g, j, m)
      /\ Len(Linked(g, nb, lc)) < Cap(lc) =>
           Range(Linked(h, nb, lc)) = Range(Linked(g, nb, lc)) \cup {i}
  <2>1. i \in OnLayer(g, lc) /\ nb \in OnLayer(g, lc) /\ i \notin Range(Linked(g, nb, lc))
    BY <1>2, <1>6, <1>7
  <2>2. QED
    BY <1>2, <1>5, <1>8, <2>1, BackLinked
<1>10. h \in Graphs /\ SameButLinks(h, base)
  BY <1>5, <1>9 DEF Sturdy, Shape, SameButLinks
<1>11. \A n \in 1 .. k : n = k \/ n \in 1 .. k - 1
  BY <1>3
<1>12. ASSUME NEW j \in Point(base), NEW m, m # lc \/ (\A n \in 1 .. k : nbs[n] # j)
       PROVE  Linked(h, j, m) = Linked(base, j, m)
  <2>1. m # lc \/ (j # nb /\ \A n \in 1 .. k - 1 : nbs[n] # j)
    <3>1. k \in 1 .. k /\ \A n \in 1 .. k - 1 : n \in 1 .. k
      BY <1>3
    <3>2. QED
      BY <1>1, <1>12, <3>1
  <2>2. Linked(h, j, m) = Linked(g, j, m)
    BY <1>6, <1>9, <2>1
  <2>3. Linked(g, j, m) = Linked(base, j, m)
    BY <1>5, <2>1
  <2>4. QED
    BY <2>2, <2>3
<1>13. ASSUME NEW n \in 1 .. k, Len(Linked(base, nbs[n], lc)) < Cap(lc)
       PROVE  Range(Linked(h, nbs[n], lc)) = Range(Linked(base, nbs[n], lc)) \cup {i}
  <2>1. CASE n = k
    BY <1>1, <1>7, <1>9, <1>13, <2>1
  <2>2. CASE n \in 1 .. k - 1
    <3>1. nbs[n] \in Point(g) /\ nbs[n] # nb
      BY <1>4, <1>6, <2>2, ElementOfSeq DEF OnLayer
    <3>2. Linked(h, nbs[n], lc) = Linked(g, nbs[n], lc)
      BY <1>9, <3>1
    <3>3. QED
      BY <1>5, <1>13, <2>2, <3>2
  <2>3. QED
    BY <1>11, <2>1, <2>2
<1>14. h \in Backed(base, i, lc, nbs, k)
  BY <1>9, <1>10, <1>12, <1>13 DEF Backed
<1>15. QED
  BY <1>1, <1>8, <1>14

\* The links back to a new point.
LEMMA BacksIn ==
  ASSUME NEW s, NEW p, NEW lc,
         Len(Neighbours(s, p, lc)) \in Nat, NEW D,
         [s.graph EXCEPT !.links[p][lc] = Neighbours(s, p, lc)] \in D[0],
         \A i \in 1 .. Len(Neighbours(s, p, lc)) : \A x \in D[i - 1] :
           LinkBack(x, p, Neighbours(s, p, lc)[i], lc) \in D[i]
  PROVE  LinkOnLayer(s, p, lc).graph \in D[Len(Neighbours(s, p, lc))]
<1> DEFINE n == Len(Neighbours(s, p, lc))
           first == [s.graph EXCEPT !.links[p][lc] = Neighbours(s, p, lc)]
           Turn(x, i) == LinkBack(x, p, Neighbours(s, p, lc)[i], lc)
           Turns(f) == f = [i \in 0 .. n |-> IF i = 0 THEN first ELSE Turn(f[i - 1], i)]
           step == [at \in (1 .. n) \X UNION {D[i] : i \in 0 .. n} |-> Turn(at[2], at[1])]
           after == CHOOSE f : Turns(f)
<1>1. LinkOnLayer(s, p, lc).graph = after[n]
  BY DEF LinkOnLayer, Each, Neighbours
<1>2. n \in Nat /\ first \in D[0] /\ \A i \in 1 .. n : \A x \in D[i - 1] : Turn(x, i) \in D[i]
  OBVIOUS
<1> HIDE DEF n, first, Turn
<1>3. ASSUME NEW i \in 1 .. n, NEW x \in D[i - 1]
      PROVE  step[<<i, x>>] = Turn(x, i) /\ step[<<i, x>>] \in D[i]
  <2>1. i - 1 \in 0 .. n
    BY <1>2
  <2>2. <<i, x>> \in (1 .. n) \X UNION {D[j] : j \in 0 .. n}
    BY <2>1
  <2>3. QED
    BY <1>2, <2>2
<1> HIDE DEF step
<1>4. PICK f : StaysIn(f, n, D, first, step)
  <2>1. \A i \in 1 .. n : \A x \in D[i - 1] : step[<<i, x>>] \in D[i]
    BY <1>3
  <2>2. n \in Nat /\ first \in D[0]
    BY <1>2
  <2>3. QED
    BY <2>1, <2>2, LoopIn
<1>5. ASSUME NEW i \in 0 .. n
      PROVE  f[i] = IF i = 0 THEN first ELSE Turn(f[i - 1], i)
  <2>1. CASE i = 0
    BY <1>4, <2>1 DEF StaysIn
  <2>2. CASE i # 0
    <3>1. i \in 1 .. n /\ i - 1 \in 0 .. n
      BY <1>2, <2>2
    <3>2. f[i] = Turn(f[i - 1], i)
      BY <1>3, <1>4, <3>1 DEF StaysIn
    <3>3. QED
      BY <2>2, <3>2
  <2>3. QED
    BY <2>1, <2>2
<1>6. Turns(f)
  <2>1. [i \in 0 .. n |-> f[i]] = [i \in 0 .. n |-> IF i = 0 THEN first ELSE Turn(f[i - 1], i)]
    BY <1>5
  <2>2. QED
    BY <1>4, <2>1 DEF StaysIn
<1>7. after = [i \in 0 .. n |-> IF i = 0 THEN first ELSE Turn(after[i - 1], i)]
  BY <1>6
<1> HIDE DEF after
<1>8. ASSUME NEW i \in 1 .. n, after[i - 1] \in D[i - 1]
      PROVE  after[i] \in D[i]
  <2>1. i \in 0 .. n /\ i # 0
    BY <1>2
  <2>2. after[i] = Turn(after[i - 1], i)
    BY <1>7, <2>1
  <2>3. QED
    BY <1>2, <1>8, <2>2
<1>9. after[0] \in D[0]
  <2>1. 0 \in 0 .. n
    BY <1>2
  <2>2. after[0] = first
    BY <1>7, <2>1
  <2>3. QED
    BY <1>2, <2>2
<1>10. after[n] \in D[n]
  BY <1>2, <1>8, <1>9, LoopLeft
<1>11. QED
  BY <1>1, <1>10 DEF n

\* What linking the new point i on a layer leaves: a sturdy graph in which only links on that
\* layer have changed. If all have room, none loses a link, i is linked to somebody who is
\* linked to it.
LinkedOn(r, s, i, lc, A) ==
  /\ Sturdy(r.graph) /\ SameButLinks(r.graph, s.graph) /\ r.start \in A
  /\ r = [graph |-> r.graph, start |-> r.start]
  /\ \A j \in Point(s.graph) : \A m : m # lc => Linked(r.graph, j, m) = Linked(s.graph, j, m)
  /\ (\A j \in A : Len(Linked(s.graph, j, lc)) < Cap(lc)) =>
       /\ \A j \in A : Range(Linked(s.graph, j, lc)) \subseteq Range(Linked(r.graph, j, lc))
       /\ \E j \in A : /\ j \in Range(Linked(r.graph, i, lc))
                       /\ i \in Range(Linked(r.graph, j, lc))

LEMMA LayerLinked ==
  ASSUME NEW s, Sturdy(s.graph), NEW lc \in Nat, NEW i \in OnLayer(s.graph, lc),
         NEW A, A = OnLayer(s.graph, lc) \ {i}, LinksStay(s.graph, A, lc), s.start \in A,
         NEW r, r = LinkOnLayer(s, i, lc)
  PROVE  LinkedOn(r, s, i, lc, A)
<1>1. PICK g : g = s.graph
  OBVIOUS
<1>2. i \in Point(g) /\ i \notin A /\ A \subseteq Point(g)
  BY <1>1 DEF OnLayer
<1>3. Measured(g, g.vec[i], A)
  BY <1>1, <1>2, ShapeTypes DEF Measured, Sturdy
<1>4. PICK found : found = SearchLayer(g, g.vec[i], s.start, EfConstruction, lc, i)
  OBVIOUS
<1>5. found \in SUBSET CandsOf(g, g.vec[i], A) /\ found # {}
  BY <1>1, <1>3, <1>4, CapCounts, SearchStays
<1>6. PICK nbs : nbs = Neighbours(s, i, lc)
  OBVIOUS
<1>7. nbs = TakeNearest(found, M)
  BY <1>1, <1>4, <1>6 DEF Neighbours
<1>8. nbs \in Seq(A) /\ IsInjective(nbs) /\ Len(nbs) <= M /\ Len(nbs) # 0 /\ Len(nbs) \in Nat
  BY <1>3, <1>5, <1>7, CapCounts, PointsTaken, LenProperties
<1>9. GoodList(g, i, lc, nbs)
  <2>1. Len(nbs) <= Cap(lc)
    BY <1>8, CapCounts
  <2>2. QED
    BY <1>1, <1>8, <2>1 DEF GoodList
<1>10. PICK base : base = [g EXCEPT !.links[i][lc] = nbs]
  OBVIOUS
<1>11. /\ Sturdy(base) /\ SameButLinks(base, g) /\ Linked(base, i, lc) = nbs
       /\ \A j \in Point(g) : \A m : j # i \/ m # lc => Linked(base, j, m) = Linked(g, j, m)
  BY <1>1, <1>9, <1>10, ListReplaced
<1>12. OnLayer(base, lc) = OnLayer(g, lc) /\ Point(base) = Point(g)
  BY <1>11, SameLayers
<1>13. \A j \in A : Linked(base, j, lc) = Linked(g, j, lc) /\ i \notin Range(Linked(base, j, lc))
  <2> SUFFICES ASSUME NEW j \in A
               PROVE  Linked(base, j, lc) = Linked(g, j, lc) /\ i \notin Range(Linked(base, j, lc))
    OBVIOUS
  <2>1. Linked(base, j, lc) = Linked(g, j, lc)
    BY <1>2, <1>11
  <2>2. Linked(g, j, lc) \in Seq(A)
    BY <1>1 DEF LinksStay
  <2>3. QED
    BY <1>2, <2>1, <2>2, SeqRange
<1> DEFINE D == [k \in 0 .. Len(nbs) |-> Backed(base, i, lc, nbs, k)]
<1>14. \A k \in 0 .. Len(nbs) : D[k] = Backed(base, i, lc, nbs, k)
  OBVIOUS
<1> HIDE DEF D
<1>15. base \in D[0]
  <2>1. base \in Graphs /\ SameButLinks(base, base)
    BY <1>11 DEF Sturdy, Shape, SameButLinks
  <2>2. base \in Backed(base, i, lc, nbs, 0)
    BY <1>11, <2>1 DEF Backed
  <2>3. 0 \in 0 .. Len(nbs)
    BY <1>8
  <2>4. QED
    BY <1>14, <2>2, <2>3
<1>16. ASSUME NEW k \in 1 .. Len(nbs), NEW x \in D[k - 1]
       PROVE  LinkBack(x, i, nbs[k], lc) \in D[k]
  <2>1. k - 1 \in 0 .. Len(nbs) /\ k \in 0 .. Len(nbs)
    BY <1>8
  <2>2. x \in Backed(base, i, lc, nbs, k - 1)
    BY <1>14, <2>1
  <2>3. /\ i \in OnLayer(base, lc) /\ nbs \in Seq(OnLayer(base, lc) \ {i})
        /\ \A j \in OnLayer(base, lc) \ {i} : i \notin Range(Linked(base, j, lc))
    BY <1>1, <1>8, <1>12, <1>13
  <2>4. LinkBack(x, i, nbs[k], lc) \in Backed(base, i, lc, nbs, k)
    BY <1>8, <2>2, <2>3, BackedOneMore
  <2>5. QED
    BY <1>14, <2>1, <2>4
<1>17. r.graph \in Backed(base, i, lc, nbs, Len(nbs))
  <2>1. [s.graph EXCEPT !.links[i][lc] = Neighbours(s, i, lc)] \in D[0]
    BY <1>1, <1>6, <1>10, <1>15
  <2>2. \A k \in 1 .. Len(Neighbours(s, i, lc)) : \A x \in D[k - 1] :
          LinkBack(x, i, Neighbours(s, i, lc)[k], lc) \in D[k]
    BY <1>6, <1>16
  <2>3. Len(Neighbours(s, i, lc)) \in Nat
    BY <1>6, <1>8
  <2>4. LinkOnLayer(s, i, lc).graph \in D[Len(Neighbours(s, i, lc))]
    BY <2>1, <2>2, <2>3, BacksIn
  <2>5. Len(nbs) \in 0 .. Len(nbs)
    BY <1>8
  <2>6. QED
    BY <1>6, <1>14, <2>4, <2>5
<1>18. r.start \in A
  <2>1. r.start = Closest(found)[2]
    BY <1>1, <1>4 DEF LinkOnLayer, Each
  <2>2. Closest(found) \in found
    <3>1. found \in SUBSET Pairs /\ IsFiniteSet(found)
      BY <1>3, <1>5, CandidatesAreFinite
    <3>2. QED
      BY <1>5, <3>1, NearestIsFirst
  <2>3. QED
    BY <1>3, <1>5, <2>1, <2>2, CandidatesAreFinite
<1>19. r = [graph |-> r.graph, start |-> r.start]
  BY DEF LinkOnLayer, Each
<1>20. /\ Sturdy(r.graph) /\ SameButLinks(r.graph, base)
       /\ \A j \in Point(base) : \A m : m # lc \/ (\A n \in 1 .. Len(nbs) : nbs[n] # j) =>
            Linked(r.graph, j, m) = Linked(base, j, m)
       /\ \A n \in 1 .. Len(nbs) : Len(Linked(base, nbs[n], lc)) < Cap(lc) =>
            Range(Linked(r.graph, nbs[n], lc)) = Range(Linked(base, nbs[n], lc)) \cup {i}
  BY <1>17 DEF Backed
<1>21. SameButLinks(r.graph, g)
  BY <1>11, <1>20 DEF SameButLinks
<1>22. \A j \in Point(g) : \A m : m # lc => Linked(r.graph, j, m) = Linked(g, j, m)
  BY <1>11, <1>12, <1>20
<1>23. ASSUME \A j \in A : Len(Linked(g, j, lc)) < Cap(lc)
       PROVE  /\ \A j \in A : Range(Linked(g, j, lc)) \subseteq Range(Linked(r.graph, j, lc))
              /\ \E j \in A : /\ j \in Range(Linked(r.graph, i, lc))
                              /\ i \in Range(Linked(r.graph, j, lc))
  <2>1. \A n \in 1 .. Len(nbs) : /\ nbs[n] \in A
                                 /\ Range(Linked(r.graph, nbs[n], lc)) =
                                      Range(Linked(g, nbs[n], lc)) \cup {i}
    BY <1>8, <1>13, <1>20, <1>23, ElementOfSeq
  <2>2. ASSUME NEW j \in A
        PROVE  Range(Linked(g, j, lc)) \subseteq Range(Linked(r.graph, j, lc))
    <3>1. CASE \E n \in 1 .. Len(nbs) : nbs[n] = j
      BY <2>1, <3>1
    <3>2. CASE \A n \in 1 .. Len(nbs) : nbs[n] # j
      BY <1>2, <1>12, <1>13, <1>20, <3>2
    <3>3. QED
      BY <3>1, <3>2
  <2>3. Linked(r.graph, i, lc) = nbs
    <3>1. \A n \in 1 .. Len(nbs) : nbs[n] # i
      BY <1>2, <2>1
    <3>2. QED
      BY <1>2, <1>11, <1>12, <1>20, <3>1
  <2>4. 1 \in 1 .. Len(nbs) /\ nbs[1] \in Range(nbs)
    <3>1. 1 \in 1 .. Len(nbs)
      BY <1>8
    <3>2. QED
      BY <1>8, <3>1, SeqRange
  <2>5. nbs[1] \in A /\ i \in Range(Linked(r.graph, nbs[1], lc))
    BY <2>1, <2>4
  <2>6. QED
    BY <2>2, <2>3, <2>4, <2>5
<1>24. QED
  BY <1>1, <1>18, <1>19, <1>20, <1>21, <1>22, <1>23 DEF LinkedOn

\* The graph with a new point that has no links yet.
Newly(g, v, level) ==
  [g EXCEPT !.vec   = Append(@, v),
            !.level = Append(@, level),
            !.links = Append(@, [lc \in 0 .. level |-> <<>>])]

\* What it is: on every layer the points before stay among themselves.
OneMore(new, g, v, level, i) ==
  /\ Sturdy(new) /\ Len(new.vec) = i /\ i \in Nat /\ level \in Nat
  /\ new.deleted = g.deleted /\ new.entry = g.entry /\ new.top = g.top
  /\ Point(new) = Point(g) \cup {i} /\ i \notin Point(g) /\ new.level[i] = level
  /\ \A j \in Point(g) : /\ new.level[j] = g.level[j] /\ new.vec[j] = g.vec[j]
                         /\ \A m : Linked(new, j, m) = Linked(g, j, m)
  /\ new.vec[i] = v /\ \A m \in 0 .. level : Linked(new, i, m) = <<>>
  /\ \A lc \in Nat : /\ OnLayer(new, lc) \ {i} = OnLayer(g, lc)
                     /\ LinksStay(new, OnLayer(new, lc) \ {i}, lc)

LEMMA NewPoint ==
  ASSUME NEW g, Sturdy(g), NEW v \in Embedding, NEW level \in 0 .. MaxLevel,
         NEW i, i = Len(g.vec) + 1, NEW new, new = Newly(g, v, level)
  PROVE  OneMore(new, g, v, level, i)
<1>1. PICK n \in Nat : n = Len(g.vec)
  BY ShapeTypes DEF Sturdy
<1>2. i = n + 1 /\ i \in Nat /\ n + 1 \in 1 .. n + 1 /\ \A j \in 1 .. n : j \in 1 .. n + 1
  BY <1>1
<1>3. /\ g \in Graphs /\ g.vec \in Seq(Embedding) /\ g.level \in Seq(0 .. MaxLevel)
      /\ g.links \in Seq(Lists) /\ Len(g.level) = n /\ Len(g.links) = n
      /\ MaxLevel \in Nat /\ level \in Nat
  BY <1>1, ShapeTypes, HnswAssumption DEF Sturdy, Shape
<1>4. PICK none : none = [lc \in 0 .. level |-> <<>>]
  OBVIOUS
<1>5. none \in [0 .. level -> Seq(Nat)] /\ none \in Lists
  <2>1. <<>> \in Seq(Nat)
    BY EmptySeq
  <2>2. none \in [0 .. level -> Seq(Nat)]
    BY <1>4, <2>1
  <2>3. QED
    BY <2>2 DEF Lists
<1>6. PICK vec : vec = Append(g.vec, v)
  OBVIOUS
<1>7. PICK levels : levels = Append(g.level, level)
  OBVIOUS
<1>8. PICK links : links = Append(g.links, none)
  OBVIOUS
<1>9. /\ vec \in Seq(Embedding) /\ Len(vec) = n + 1 /\ vec[n + 1] = v
      /\ \A j \in 1 .. n : vec[j] = g.vec[j]
  BY <1>1, <1>3, <1>6, AppendProperties
<1>10. /\ levels \in Seq(0 .. MaxLevel) /\ Len(levels) = n + 1 /\ levels[n + 1] = level
       /\ \A j \in 1 .. n : levels[j] = g.level[j]
  BY <1>1, <1>3, <1>7, AppendProperties
<1>11. /\ links \in Seq(Lists) /\ Len(links) = n + 1 /\ links[n + 1] = none
       /\ \A j \in 1 .. n : links[j] = g.links[j]
  BY <1>1, <1>3, <1>5, <1>8, AppendProperties
<1>12. new = [g EXCEPT !.vec = vec, !.level = levels, !.links = links]
  BY <1>4, <1>6, <1>7, <1>8 DEF Newly
<1>13. /\ new.vec = vec /\ new.level = levels /\ new.links = links
       /\ new.deleted = g.deleted /\ new.entry = g.entry /\ new.top = g.top
  BY <1>3, <1>12 DEF Graphs
<1>14. new \in Graphs
  BY <1>3, <1>9, <1>10, <1>11, <1>12 DEF Graphs
<1>15. Point(g) = 1 .. n /\ Point(new) = 1 .. n + 1 /\ Len(new.vec) = i
  BY <1>1, <1>2, <1>9, <1>13 DEF Point
<1>16. Point(new) = Point(g) \cup {i} /\ i \notin Point(g) /\ i \in Point(new)
  BY <1>2, <1>15
<1>17. \A j \in Point(g) : /\ new.level[j] = g.level[j] /\ new.vec[j] = g.vec[j]
                           /\ new.links[j] = g.links[j]
                           /\ \A m : Linked(new, j, m) = Linked(g, j, m)
  BY <1>9, <1>10, <1>11, <1>13, <1>15 DEF Linked
<1>18. /\ new.level[i] = level /\ new.vec[i] = v /\ new.links[i] = none
       /\ \A m \in 0 .. level : Linked(new, i, m) = <<>>
  BY <1>2, <1>4, <1>9, <1>10, <1>11, <1>13 DEF Linked
<1>19. \A lc : OnLayer(new, lc) \ {i} = OnLayer(g, lc) /\ OnLayer(g, lc) \subseteq OnLayer(new, lc)
  BY <1>16, <1>17 DEF OnLayer
<1>20. Shape(new)
  <2>1. \A j \in Point(g) : DOMAIN new.links[j] = 0 .. new.level[j]
    BY <1>17 DEF Sturdy, Shape
  <2>2. DOMAIN new.links[i] = 0 .. new.level[i]
    BY <1>5, <1>18
  <2>3. Len(new.level) = Len(new.vec) /\ Len(new.links) = Len(new.vec)
    BY <1>9, <1>10, <1>11, <1>13
  <2>4. QED
    BY <1>14, <1>16, <2>1, <2>2, <2>3 DEF Shape
<1>21. LinksGood(new)
  <2> SUFFICES ASSUME NEW j \in Point(new), NEW m \in 0 .. new.level[j]
               PROVE  GoodList(new, j, m, Linked(new, j, m))
    BY DEF LinksGood
  <2>1. m \in Nat
    BY <1>20, ShapeTypes
  <2>2. CASE j \in Point(g)
    <3>1. GoodList(g, j, m, Linked(new, j, m))
      BY <1>17, <2>2 DEF Sturdy, LinksGood
    <3>2. OnLayer(g, m) \ {j} \subseteq OnLayer(new, m) \ {j}
      BY <1>19
    <3>3. QED
      BY <3>1, <3>2, SeqWider DEF GoodList
  <2>3. CASE j = i
    <3>1. Linked(new, j, m) = <<>>
      BY <1>18, <2>3
    <3>2. <<>> \in Seq(OnLayer(new, m) \ {j}) /\ Len(<<>>) = 0
      BY EmptySeq
    <3>3. IsInjective(<<>>)
      BY DEF IsInjective
    <3>4. 0 <= Cap(m)
      BY <2>1, CapCounts
    <3>5. QED
      BY <3>1, <3>2, <3>3, <3>4 DEF GoodList
  <2>4. QED
    BY <1>16, <2>2, <2>3
<1>22. ASSUME NEW lc \in Nat
       PROVE  LinksStay(new, OnLayer(new, lc) \ {i}, lc)
  <2> SUFFICES ASSUME NEW j \in OnLayer(g, lc)
               PROVE  Linked(new, j, lc) \in Seq(OnLayer(g, lc))
    BY <1>19 DEF LinksStay
  <2>1. j \in Point(g) /\ lc \in 0 .. g.level[j]
    BY ShapeTypes DEF OnLayer, Sturdy
  <2>2. Linked(new, j, lc) \in Seq(OnLayer(g, lc) \ {j})
    BY <1>17, <2>1 DEF Sturdy, LinksGood, GoodList
  <2>3. OnLayer(g, lc) \ {j} \subseteq OnLayer(g, lc)
    OBVIOUS
  <2>4. QED
    BY <2>2, <2>3, SeqWider
<1>23. QED
  BY <1>2, <1>3, <1>13, <1>15, <1>16, <1>17, <1>18, <1>19, <1>20, <1>21, <1>22 DEF Sturdy, OneMore

\* Somebody with room for it on layer 0 is linked with the new point i, and no link is cut.
Met(h, new, i) ==
  (\A j \in OnLayer(new, 0) \ {i} : Len(Linked(new, j, 0)) < Cap(0)) =>
    /\ \A j \in OnLayer(new, 0) \ {i} : Range(Linked(new, j, 0)) \subseteq Range(Linked(h, j, 0))
    /\ \E j \in OnLayer(new, 0) \ {i} : j \in Range(Linked(h, i, 0)) /\ i \in Range(Linked(h, j, 0))

\* Layers up to l are still to be linked.
AddStates(new, i, l) ==
  {s \in [graph : Graphs, start : Nat] :
     /\ Sturdy(s.graph) /\ SameButLinks(s.graph, new)
     /\ \A m \in 0 .. l : SameOnLayer(s.graph, new, m)
     /\ l >= 0 => s.start \in OnLayer(new, l) \ {i}
     /\ l < 0 => Met(s.graph, new, i)}

LEMMA LayerDone ==
  ASSUME NEW new, Sturdy(new), NEW l \in Nat, NEW i \in OnLayer(new, l),
         LinksStay(new, OnLayer(new, l) \ {i}, l), NEW s \in AddStates(new, i, l)
  PROVE  LinkOnLayer(s, i, l) \in AddStates(new, i, l - 1)
<1>1. PICK A : A = OnLayer(new, l) \ {i}
  OBVIOUS
<1>2. PICK r : r = LinkOnLayer(s, i, l)
  OBVIOUS
<1>3. /\ Sturdy(s.graph) /\ SameButLinks(s.graph, new) /\ s.start \in A
      /\ \A m \in 0 .. l : SameOnLayer(s.graph, new, m)
  BY <1>1 DEF AddStates
<1>4. Point(s.graph) = Point(new) /\ \A m : OnLayer(s.graph, m) = OnLayer(new, m)
  BY <1>3, SameLayers
<1>5. l \in 0 .. l /\ SameOnLayer(s.graph, new, l) /\ A = OnLayer(s.graph, l) \ {i}
  BY <1>1, <1>3, <1>4
<1>6. \A j \in A : Linked(s.graph, j, l) = Linked(new, j, l)
  BY <1>1, <1>5 DEF SameOnLayer
<1>7. LinksStay(s.graph, A, l)
  BY <1>1, <1>6 DEF LinksStay
<1>8. /\ Sturdy(r.graph) /\ SameButLinks(r.graph, s.graph) /\ r.start \in A
      /\ r = [graph |-> r.graph, start |-> r.start]
      /\ \A j \in Point(s.graph) : \A m : m # l => Linked(r.graph, j, m) = Linked(s.graph, j, m)
      /\ (\A j \in A : Len(Linked(s.graph, j, l)) < Cap(l)) =>
           /\ \A j \in A : Range(Linked(s.graph, j, l)) \subseteq Range(Linked(r.graph, j, l))
           /\ \E j \in A : /\ j \in Range(Linked(r.graph, i, l))
                           /\ i \in Range(Linked(r.graph, j, l))
  <2>1. i \in OnLayer(s.graph, l)
    BY <1>4
  <2>2. LinkedOn(r, s, i, l, A)
    BY <1>2, <1>3, <1>5, <1>7, <2>1, LayerLinked
  <2>3. QED
    BY <2>2 DEF LinkedOn
<1>9. SameButLinks(r.graph, new)
  BY <1>3, <1>8 DEF SameButLinks
<1>10. r \in [graph : Graphs, start : Nat]
  <2>1. r.graph \in Graphs
    BY <1>8 DEF Sturdy, Shape
  <2>2. r.start \in Nat
    BY <1>1, <1>8, ShapeTypes DEF Sturdy, OnLayer
  <2>3. [graph |-> r.graph, start |-> r.start] \in [graph : Graphs, start : Nat]
    BY <2>1, <2>2
  <2>4. QED
    BY <1>8, <2>3
<1>11. ASSUME NEW m \in 0 .. l - 1
       PROVE  SameOnLayer(r.graph, new, m)
  <2>1. m \in 0 .. l /\ m # l
    OBVIOUS
  <2>2. SameOnLayer(s.graph, new, m)
    BY <1>3, <2>1
  <2>3. \A j \in OnLayer(new, m) : Linked(r.graph, j, m) = Linked(s.graph, j, m)
    BY <1>4, <1>8, <2>1 DEF OnLayer
  <2>4. QED
    BY <2>2, <2>3 DEF SameOnLayer
<1>12. ASSUME l - 1 >= 0
       PROVE  r.start \in OnLayer(new, l - 1) \ {i}
  <2>1. \A j \in OnLayer(new, l) : j \in OnLayer(new, l - 1)
    <3> SUFFICES ASSUME NEW j \in OnLayer(new, l) PROVE j \in OnLayer(new, l - 1)
      OBVIOUS
    <3>1. j \in Point(new) /\ l <= new.level[j] /\ new.level[j] \in Nat
      BY ShapeTypes DEF OnLayer, Sturdy
    <3>2. l - 1 <= new.level[j]
      BY <3>1
    <3>3. QED
      BY <3>1, <3>2 DEF OnLayer
  <2>2. QED
    BY <1>1, <1>8, <2>1
<1>13. ASSUME l - 1 < 0
       PROVE  Met(r.graph, new, i)
  <2>1. l = 0
    BY <1>13
  <2>2. QED
    BY <1>1, <1>6, <1>8, <2>1 DEF Met
<1>14. r \in AddStates(new, i, l - 1)
  BY <1>8, <1>9, <1>10, <1>11, <1>12, <1>13 DEF AddStates
<1>15. QED
  BY <1>2, <1>14

\* Where the linking of a new point begins.
FirstLayer(g, level) == IF level < g.top THEN level ELSE g.top

\* The layers a new point is linked on.
LEMMA AddsIn ==
  ASSUME NEW g, NEW v, NEW level, Len(g.vec) + 1 # 1,
         Len(Down(FirstLayer(g, level), 0)) \in Nat, NEW D,
         [graph |-> Newly(g, v, level), start |-> DescendTo(Newly(g, v, level), v, level)] \in D[0],
         \A i \in 1 .. Len(Down(FirstLayer(g, level), 0)) : \A x \in D[i - 1] :
           LinkOnLayer(x, Len(g.vec) + 1, Down(FirstLayer(g, level), 0)[i]) \in D[i]
  PROVE  \E s \in D[Len(Down(FirstLayer(g, level), 0))] :
           AddPoint(g, v, level) = RaiseEntry(s.graph, Len(g.vec) + 1, level)
<1> DEFINE n == Len(Down(FirstLayer(g, level), 0))
           first == [graph |-> Newly(g, v, level),
                     start |-> DescendTo(Newly(g, v, level), v, level)]
           Turn(x, i) == LinkOnLayer(x, Len(g.vec) + 1, Down(FirstLayer(g, level), 0)[i])
           Turns(f) == f = [i \in 0 .. n |-> IF i = 0 THEN first ELSE Turn(f[i - 1], i)]
           step == [at \in (1 .. n) \X UNION {D[i] : i \in 0 .. n} |-> Turn(at[2], at[1])]
           after == CHOOSE f : Turns(f)
<1>1. AddPoint(g, v, level) = RaiseEntry(after[n].graph, Len(g.vec) + 1, level)
  BY DEF AddPoint, Each, Newly, FirstLayer
<1>2. n \in Nat /\ first \in D[0] /\ \A i \in 1 .. n : \A x \in D[i - 1] : Turn(x, i) \in D[i]
  OBVIOUS
<1> HIDE DEF n, first, Turn
<1>3. ASSUME NEW i \in 1 .. n, NEW x \in D[i - 1]
      PROVE  step[<<i, x>>] = Turn(x, i) /\ step[<<i, x>>] \in D[i]
  <2>1. i - 1 \in 0 .. n
    BY <1>2
  <2>2. <<i, x>> \in (1 .. n) \X UNION {D[j] : j \in 0 .. n}
    BY <2>1
  <2>3. QED
    BY <1>2, <2>2
<1> HIDE DEF step
<1>4. PICK f : StaysIn(f, n, D, first, step)
  <2>1. \A i \in 1 .. n : \A x \in D[i - 1] : step[<<i, x>>] \in D[i]
    BY <1>3
  <2>2. n \in Nat /\ first \in D[0]
    BY <1>2
  <2>3. QED
    BY <2>1, <2>2, LoopIn
<1>5. ASSUME NEW i \in 0 .. n
      PROVE  f[i] = IF i = 0 THEN first ELSE Turn(f[i - 1], i)
  <2>1. CASE i = 0
    BY <1>4, <2>1 DEF StaysIn
  <2>2. CASE i # 0
    <3>1. i \in 1 .. n /\ i - 1 \in 0 .. n
      BY <1>2, <2>2
    <3>2. f[i] = Turn(f[i - 1], i)
      BY <1>3, <1>4, <3>1 DEF StaysIn
    <3>3. QED
      BY <2>2, <3>2
  <2>3. QED
    BY <2>1, <2>2
<1>6. Turns(f)
  <2>1. [i \in 0 .. n |-> f[i]] = [i \in 0 .. n |-> IF i = 0 THEN first ELSE Turn(f[i - 1], i)]
    BY <1>5
  <2>2. QED
    BY <1>4, <2>1 DEF StaysIn
<1>7. after = [i \in 0 .. n |-> IF i = 0 THEN first ELSE Turn(after[i - 1], i)]
  BY <1>6
<1> HIDE DEF after
<1>8. ASSUME NEW i \in 1 .. n, after[i - 1] \in D[i - 1]
      PROVE  after[i] \in D[i]
  <2>1. i \in 0 .. n /\ i # 0
    BY <1>2
  <2>2. after[i] = Turn(after[i - 1], i)
    BY <1>7, <2>1
  <2>3. QED
    BY <1>2, <1>8, <2>2
<1>9. after[0] \in D[0]
  <2>1. 0 \in 0 .. n
    BY <1>2
  <2>2. after[0] = first
    BY <1>7, <2>1
  <2>3. QED
    BY <1>2, <2>2
<1>10. after[n] \in D[n]
  BY <1>2, <1>8, <1>9, LoopLeft
<1>11. QED
  BY <1>1, <1>10 DEF n

LEMMA PointLinked ==
  ASSUME NEW g, Sturdy(g), EntryGood(g), Point(g) # {},
         NEW v \in Embedding, NEW level \in 0 .. MaxLevel, NEW i, i = Len(g.vec) + 1,
         NEW new, new = Newly(g, v, level)
  PROVE  \E s \in AddStates(new, i, -1) : AddPoint(g, v, level) = RaiseEntry(s.graph, i, level)
<1>1. /\ Sturdy(new) /\ Len(new.vec) = i /\ i \in Nat /\ level \in Nat
      /\ new.entry = g.entry /\ new.top = g.top
      /\ Point(new) = Point(g) \cup {i} /\ i \notin Point(g) /\ new.level[i] = level
      /\ \A j \in Point(g) : new.level[j] = g.level[j]
      /\ \A lc \in Nat : LinksStay(new, OnLayer(new, lc) \ {i}, lc)
  <2>1. OneMore(new, g, v, level, i)
    BY NewPoint
  <2>2. QED
    BY <2>1 DEF OneMore
<1>2. i # 1
  <2>1. Len(g.vec) \in Nat
    BY ShapeTypes DEF Sturdy
  <2>2. Len(g.vec) # 0
    <3>1. SUFFICES ASSUME Len(g.vec) = 0 PROVE FALSE
      OBVIOUS
    <3>2. Point(g) = {}
      BY <3>1 DEF Point
    <3>3. QED
      BY <3>2
  <2>3. QED
    BY <2>1, <2>2
<1>3. PICK top \in Nat : top = g.top
  BY ShapeTypes DEF Sturdy
<1>4. PICK f \in Nat : f = FirstLayer(g, level) /\ f = (IF level < top THEN level ELSE top)
  BY <1>1, <1>3 DEF FirstLayer
<1>5. PICK seq : seq = Down(f, 0)
  OBVIOUS
<1>6. Len(seq) = f + 1 /\ \A k \in 1 .. f + 1 : seq[k] = f - k + 1
  <2>1. 0 \in Nat /\ f - 0 + 1 = f + 1 /\ ~ (f < 0)
    OBVIOUS
  <2>2. Len(Down(f, 0)) = IF f < 0 THEN 0 ELSE f - 0 + 1
    BY <2>1, DownCounts
  <2>3. \A k \in 1 .. Len(Down(f, 0)) : Down(f, 0)[k] = f - k + 1
    BY <2>1, DownCounts
  <2>4. Len(Down(f, 0)) = f + 1
    BY <2>1, <2>2
  <2>5. QED
    BY <1>5, <2>3, <2>4
<1>7. i \in OnLayer(new, f) /\ \A l \in 0 .. f : i \in OnLayer(new, l)
  BY <1>1, <1>4 DEF OnLayer
<1>8. PICK start : start = DescendTo(new, v, level)
  OBVIOUS
<1>9. start \in OnLayer(new, f) \ {i}
  <2> DEFINE A == [l \in 0 .. top |-> OnLayer(new, l) \ {i}]
  <2>1. \A l \in 0 .. top : A[l] = OnLayer(new, l) \ {i}
    OBVIOUS
  <2> HIDE DEF A
  <2>2. new.entry \in A[new.top]
    <3>1. top \in 0 .. top /\ new.top = top
      BY <1>1, <1>3
    <3>2. g.entry \in Point(g) /\ g.level[g.entry] = top
      BY <1>3 DEF EntryGood
    <3>3. new.entry \in OnLayer(new, top) /\ new.entry # i
      BY <1>1, <3>2 DEF OnLayer
    <3>4. QED
      BY <2>1, <3>1, <3>3
  <2>3. ASSUME NEW l \in level + 1 .. new.top
        PROVE  A[l] \subseteq A[l - 1] /\ LinksStay(new, A[l], l)
    <3>1. l \in Nat /\ l \in 0 .. top /\ l - 1 \in 0 .. top /\ l - 1 \in Nat
      BY <1>1, <1>3
    <3>2. OnLayer(new, l) \subseteq OnLayer(new, l - 1)
      <4> SUFFICES ASSUME NEW j \in OnLayer(new, l) PROVE j \in OnLayer(new, l - 1)
        OBVIOUS
      <4>1. j \in Point(new) /\ l <= new.level[j] /\ new.level[j] \in Nat
        BY <1>1, ShapeTypes DEF OnLayer, Sturdy
      <4>2. l - 1 <= new.level[j]
        BY <3>1, <4>1
      <4>3. QED
        BY <4>1, <4>2 DEF OnLayer
    <3>3. A[l] = OnLayer(new, l) \ {i} /\ A[l - 1] = OnLayer(new, l - 1) \ {i}
      BY <2>1, <3>1
    <3>4. QED
      BY <1>1, <3>1, <3>2, <3>3
  <2>4. Len(new.vec) \in Nat /\ new.top \in Nat
    BY <1>1, <1>3
  <2>5. start \in A[IF level < new.top THEN level ELSE new.top]
    BY <1>1, <1>8, <2>2, <2>3, <2>4, LayersStay
  <2>6. f \in 0 .. top /\ f = IF level < new.top THEN level ELSE new.top
    BY <1>1, <1>3, <1>4
  <2>7. QED
    BY <2>1, <2>5, <2>6
<1> DEFINE D == [k \in 0 .. f + 1 |-> AddStates(new, i, f - k)]
<1>10. \A k \in 0 .. f + 1 : D[k] = AddStates(new, i, f - k)
  OBVIOUS
<1> HIDE DEF D
<1>11. [graph |-> new, start |-> start] \in D[0]
  <2>1. 0 \in 0 .. f + 1 /\ f - 0 = f /\ f >= 0 /\ ~ (f < 0)
    BY <1>4
  <2>2. new \in Graphs /\ start \in Nat
    BY <1>1, <1>9, ShapeTypes DEF Sturdy, Shape, OnLayer
  <2>3. SameButLinks(new, new) /\ \A m \in 0 .. f : SameOnLayer(new, new, m)
    BY DEF SameButLinks, SameOnLayer
  <2>4. [graph |-> new, start |-> start] \in AddStates(new, i, f)
    BY <1>1, <1>9, <2>1, <2>2, <2>3 DEF AddStates
  <2>5. QED
    BY <1>10, <2>1, <2>4
<1>12. ASSUME NEW k \in 1 .. f + 1, NEW x \in D[k - 1]
       PROVE  LinkOnLayer(x, i, seq[k]) \in D[k]
  <2>1. PICK l \in Nat : l = f - k + 1 /\ l \in 0 .. f
    BY <1>4
  <2>2. k - 1 \in 0 .. f + 1 /\ k \in 0 .. f + 1 /\ f - (k - 1) = l /\ f - k = l - 1
    BY <1>4, <2>1
  <2>3. x \in AddStates(new, i, l) /\ seq[k] = l
    BY <1>6, <1>10, <2>1, <2>2
  <2>4. LinkOnLayer(x, i, l) \in AddStates(new, i, l - 1)
    BY <1>1, <1>7, <2>1, <2>3, LayerDone
  <2>5. QED
    BY <1>10, <2>2, <2>3, <2>4
<1>13. \E s \in D[f + 1] : AddPoint(g, v, level) = RaiseEntry(s.graph, i, level)
  <2>1. Len(g.vec) + 1 # 1 /\ Len(Down(FirstLayer(g, level), 0)) = f + 1
    BY <1>2, <1>4, <1>5, <1>6
  <2>2. Len(Down(FirstLayer(g, level), 0)) \in Nat
    BY <2>1
  <2>3. [graph |-> Newly(g, v, level), start |-> DescendTo(Newly(g, v, level), v, level)] \in D[0]
    BY <1>8, <1>11
  <2>4. \A k \in 1 .. Len(Down(FirstLayer(g, level), 0)) : \A x \in D[k - 1] :
          LinkOnLayer(x, Len(g.vec) + 1, Down(FirstLayer(g, level), 0)[k]) \in D[k]
    BY <1>4, <1>5, <1>12, <2>1
  <2>5. \E s \in D[Len(Down(FirstLayer(g, level), 0))] :
          AddPoint(g, v, level) = RaiseEntry(s.graph, Len(g.vec) + 1, level)
    BY <2>1, <2>2, <2>3, <2>4, AddsIn
  <2>6. QED
    BY <2>1, <2>5
<1>14. f + 1 \in 0 .. f + 1 /\ f - (f + 1) = -1
  BY <1>4
<1>15. QED
  BY <1>10, <1>13, <1>14

\* A list without repetition is no longer than the set it is over.
LEMMA InjectiveIsShort ==
  ASSUME NEW S, IsFiniteSet(S), NEW s \in Seq(S), IsInjective(s)
  PROVE  Len(s) <= Cardinality(S) /\ Len(s) \in Nat /\ Cardinality(S) \in Nat
<1>1. PICK n \in Nat : n = Len(s)
  BY LenProperties
<1>2. s \in [1 .. n -> S]
  BY <1>1, LenProperties
<1>3. s \in Injection(1 .. n, S)
  BY <1>2 DEF Injection
<1>4. Cardinality(1 .. n) <= Cardinality(S)
  BY <1>3, FS_Injection
<1>5. Cardinality(1 .. n) = n
  <2>1. 1 \in Int /\ n \in Int
    OBVIOUS
  <2>2. Cardinality(1 .. n) = IF 1 > n THEN 0 ELSE n - 1 + 1
    BY <2>1, FS_Interval
  <2>3. QED
    BY <2>2
<1>6. QED
  BY <1>1, <1>4, <1>5, FS_CardinalityType

\* The links of a point on layer 0 lead to others: they are fewer than the points.
LEMMA ListsAreShort ==
  ASSUME NEW g, Sturdy(g), NEW n \in Nat, n = Len(g.vec), NEW j \in Point(g)
  PROVE  Len(Linked(g, j, 0)) \in Nat /\ Len(Linked(g, j, 0)) <= n - 1
<1>1. j \in 1 .. n /\ Point(g) = 1 .. n /\ 0 \in 0 .. g.level[j]
  BY ShapeTypes DEF Point, Sturdy
<1>2. Linked(g, j, 0) \in Seq(OnLayer(g, 0) \ {j}) /\ IsInjective(Linked(g, j, 0))
  BY <1>1 DEF Sturdy, LinksGood, GoodList
<1>3. OnLayer(g, 0) \ {j} \subseteq (1 .. n) \ {j}
  BY <1>1 DEF OnLayer
<1>4. Linked(g, j, 0) \in Seq((1 .. n) \ {j})
  BY <1>2, <1>3, SeqWider
<1>5. IsFiniteSet((1 .. n) \ {j}) /\ Cardinality((1 .. n) \ {j}) = n - 1
  <2>1. 1 \in Int /\ n \in Int
    OBVIOUS
  <2>2. IsFiniteSet(1 .. n) /\ Cardinality(1 .. n) = IF 1 > n THEN 0 ELSE n - 1 + 1
    BY <2>1, FS_Interval
  <2>3. Cardinality(1 .. n) = n
    BY <1>1, <2>2
  <2>4. QED
    BY <1>1, <2>2, <2>3, FS_RemoveElement
<1>6. QED
  BY <1>2, <1>4, <1>5, InjectiveIsShort

\* What links do not leave is all points, once a new one is linked with one of them.
LEMMA StillJoined ==
  ASSUME NEW g, Sturdy(g), Joined(g), NEW v \in Embedding, NEW level \in 0 .. MaxLevel,
         NEW i, i = Len(g.vec) + 1, NEW new, new = Newly(g, v, level),
         NEW h, Sturdy(h), SameButLinks(h, new), Met(h, new, i)
  PROVE  Joined(h)
<1>1. /\ Sturdy(new) /\ Len(new.vec) = i /\ i \in Nat /\ Len(g.vec) \in Nat
      /\ Point(new) = Point(g) \cup {i} /\ i \notin Point(g)
      /\ \A j \in Point(g) : \A m : Linked(new, j, m) = Linked(g, j, m)
      /\ OnLayer(new, 0) \ {i} = OnLayer(g, 0)
  <2>1. OneMore(new, g, v, level, i)
    BY NewPoint
  <2>2. Len(g.vec) \in Nat /\ 0 \in Nat
    BY ShapeTypes DEF Sturdy
  <2>3. QED
    BY <2>1, <2>2 DEF OneMore
<1>2. OnLayer(g, 0) = Point(g) /\ Point(h) = Point(new) /\ Len(h.vec) = i
  <2>1. \A j \in Point(g) : 0 <= g.level[j]
    BY ShapeTypes DEF Sturdy
  <2>2. QED
    BY <1>1, <2>1, SameLayers DEF OnLayer, SameButLinks
<1> SUFFICES ASSUME Len(h.vec) <= Cap(0) + 1, NEW S \in SUBSET Point(h), S # {}, LinksStay(h, S, 0)
             PROVE  S = Point(h)
  BY DEF Joined
<1>3. Cap(0) \in Nat
  BY CapCounts
<1>4. \A j \in Point(g) : Len(Linked(new, j, 0)) < Cap(0)
  <2> SUFFICES ASSUME NEW j \in Point(g) PROVE Len(Linked(new, j, 0)) < Cap(0)
    OBVIOUS
  <2>1. PICK n \in Nat : n = Len(g.vec)
    BY <1>1
  <2>2. Len(Linked(g, j, 0)) \in Nat /\ Len(Linked(g, j, 0)) <= n - 1
    BY <2>1, ListsAreShort
  <2>3. n + 1 <= Cap(0) + 1
    BY <1>2, <2>1
  <2>4. QED
    BY <1>1, <1>3, <2>2, <2>3
<1>5. PICK near \in Point(g) : near \in Range(Linked(h, i, 0)) /\ i \in Range(Linked(h, near, 0))
  BY <1>1, <1>2, <1>4 DEF Met
<1>6. \A j \in Point(g) : Range(Linked(g, j, 0)) \subseteq Range(Linked(h, j, 0))
  BY <1>1, <1>2, <1>4 DEF Met
<1>7. \A j \in S : Linked(h, j, 0) \in Seq(S) /\ Range(Linked(h, j, 0)) \subseteq S
  BY SeqRange DEF LinksStay
<1>8. PICK T : T = S \ {i}
  OBVIOUS
<1>9. T \subseteq Point(g)
  BY <1>1, <1>2, <1>8
<1>10. T # {}
  <2>1. SUFFICES ASSUME i \in S PROVE near \in T
    BY <1>8
  <2>2. near \in S /\ near # i
    BY <1>1, <1>5, <1>7, <2>1
  <2>3. QED
    BY <1>8, <2>2
<1>11. LinksStay(g, T, 0)
  <2> SUFFICES ASSUME NEW j \in T PROVE Linked(g, j, 0) \in Seq(T)
    BY DEF LinksStay
  <2>1. j \in Point(g) /\ j \in S /\ 0 \in 0 .. g.level[j]
    BY <1>8, <1>9, ShapeTypes DEF Sturdy
  <2>2. Linked(g, j, 0) \in Seq(OnLayer(g, 0) \ {j})
    BY <2>1 DEF Sturdy, LinksGood, GoodList
  <2>3. \A k \in 1 .. Len(Linked(g, j, 0)) : Linked(g, j, 0)[k] \in T
    <3> SUFFICES ASSUME NEW k \in 1 .. Len(Linked(g, j, 0)) PROVE Linked(g, j, 0)[k] \in T
      OBVIOUS
    <3>1. Linked(g, j, 0)[k] \in Range(Linked(g, j, 0)) /\ Linked(g, j, 0)[k] \in Point(g)
      BY <1>2, <2>2, SeqRange, ElementOfSeq
    <3>2. Linked(g, j, 0)[k] \in S
      BY <1>6, <1>7, <2>1, <3>1
    <3>3. QED
      BY <1>1, <1>8, <3>1, <3>2
  <2>4. QED
    BY <2>2, <2>3, SeqWithin
<1>12. T = Point(g)
  <2>1. Len(g.vec) <= Cap(0) + 1
    BY <1>1, <1>2, <1>3
  <2>2. QED
    BY <1>9, <1>10, <1>11, <2>1 DEF Joined
<1>13. i \in S
  BY <1>5, <1>7, <1>8, <1>12
<1>14. QED
  BY <1>1, <1>2, <1>8, <1>12, <1>13

\* What sturdiness is about: vectors, levels and links.
LEMMA SturdyStays ==
  ASSUME NEW g, Sturdy(g), NEW h \in Graphs,
         h.vec = g.vec, h.level = g.level, h.links = g.links
  PROVE  Sturdy(h) /\ Point(h) = Point(g) /\ \A j, m : Linked(h, j, m) = Linked(g, j, m)
<1>2. h.vec = g.vec /\ h.level = g.level /\ h.links = g.links /\ h \in Graphs
  OBVIOUS
<1>3. /\ Point(h) = Point(g) /\ \A m : OnLayer(h, m) = OnLayer(g, m)
      /\ \A j, m : Linked(h, j, m) = Linked(g, j, m)
  <2>1. Point(h) = Point(g)
    BY <1>2 DEF Point
  <2>2. QED
    BY <1>2, <2>1 DEF OnLayer, Linked
<1>4. Shape(h)
  BY <1>2, <1>3 DEF Sturdy, Shape
<1>5. LinksGood(h)
  <2> SUFFICES ASSUME NEW j \in Point(h), NEW m \in 0 .. h.level[j]
               PROVE  GoodList(h, j, m, Linked(h, j, m))
    BY DEF LinksGood
  <2>1. GoodList(g, j, m, Linked(g, j, m))
    BY <1>2, <1>3 DEF Sturdy, LinksGood
  <2>2. QED
    BY <1>3, <2>1 DEF GoodList
<1>6. QED
  BY <1>2, <1>3, <1>4, <1>5 DEF Sturdy

LEMMA SameJoined ==
  ASSUME NEW g, NEW h, h.vec = g.vec, Joined(g), \A j, m : Linked(h, j, m) = Linked(g, j, m)
  PROVE  Joined(h)
<1>1. Point(h) = Point(g)
  BY DEF Point
<1>2. \A S : LinksStay(h, S, 0) <=> LinksStay(g, S, 0)
  BY DEF LinksStay
<1>3. QED
  BY <1>1, <1>2 DEF Joined

\* add_point leaves the graph as it should be.
LEMMA PointAdded ==
  ASSUME NEW g, GraphInv(g), NEW v \in Embedding, NEW level \in 0 .. MaxLevel
  PROVE  GraphInv(AddPoint(g, v, level))
<1>1. PICK i : i = Len(g.vec) + 1
  OBVIOUS
<1>2. PICK new : new = Newly(g, v, level)
  OBVIOUS
<1>3. PICK h : h = AddPoint(g, v, level)
  OBVIOUS
<1>4. /\ Sturdy(g) /\ EntryGood(g) /\ g.deleted \subseteq Point(g) /\ Joined(g)
      /\ Len(g.vec) \in Nat /\ g.top \in Nat
  BY ShapeTypes DEF GraphInv, Sturdy
<1>5. /\ Sturdy(new) /\ Len(new.vec) = i /\ i \in Nat /\ level \in Nat
      /\ new.deleted = g.deleted /\ new.entry = g.entry /\ new.top = g.top
      /\ Point(new) = Point(g) \cup {i} /\ i \notin Point(g) /\ new.level[i] = level
      /\ \A j \in Point(g) : new.level[j] = g.level[j]
      /\ \A m \in 0 .. level : Linked(new, i, m) = <<>>
  <2>1. OneMore(new, g, v, level, i)
    BY <1>1, <1>2, <1>4, NewPoint
  <2>2. QED
    BY <2>1 DEF OneMore
<1>6. CASE Point(g) = {}
  <2>1. i = 1
    <3>1. SUFFICES ASSUME i # 1 PROVE FALSE
      OBVIOUS
    <3>2. 1 \in Point(g)
      BY <1>1, <1>4, <3>1 DEF Point
    <3>3. QED
      BY <1>6, <3>2
  <2>2. h = [new EXCEPT !.entry = i, !.top = level]
    BY <1>1, <1>2, <1>3, <2>1 DEF AddPoint, Newly, Each
  <2>3. /\ Sturdy(h) /\ h.entry = i /\ h.top = level /\ Point(h) = {i}
        /\ h.level = new.level /\ h.deleted = new.deleted
    <3>1. new \in Graphs /\ Point(new) = {i}
      BY <1>5, <1>6 DEF Sturdy, Shape
    <3>2. /\ h.entry = i /\ h.top = level /\ h.vec = new.vec /\ h.level = new.level
          /\ h.deleted = new.deleted /\ h.links = new.links /\ h \in Graphs
      BY <1>5, <2>2, <3>1 DEF Graphs
    <3>3. QED
      BY <1>5, <3>1, <3>2, SturdyStays
  <2>4. EntryGood(h)
    BY <1>5, <2>3 DEF EntryGood
  <2>5. Joined(h)
    BY <2>3 DEF Joined
  <2>6. h.deleted \subseteq Point(h)
    BY <1>4, <1>5, <1>6, <2>3
  <2>7. QED
    BY <1>3, <2>3, <2>4, <2>5, <2>6 DEF GraphInv, Sturdy
<1>7. CASE Point(g) # {}
  <2>1. PICK s \in AddStates(new, i, -1) : h = RaiseEntry(s.graph, i, level)
    BY <1>1, <1>2, <1>3, <1>4, <1>7, PointLinked
  <2>2. Sturdy(s.graph) /\ SameButLinks(s.graph, new) /\ Met(s.graph, new, i)
    BY DEF AddStates
  <2>3. Joined(s.graph)
    BY <1>1, <1>2, <1>4, <2>2, StillJoined
  <2>4. /\ Point(s.graph) = Point(new) /\ s.graph.top = g.top /\ s.graph.entry = g.entry
        /\ s.graph.deleted = g.deleted /\ s.graph.level = new.level
    BY <1>5, <2>2, SameLayers DEF SameButLinks
  <2>5. /\ g.entry \in Point(g) /\ g.level[g.entry] = g.top
        /\ \A j \in Point(g) : g.level[j] <= g.top /\ g.level[j] \in Nat
    BY <1>4, <1>7, ShapeTypes DEF EntryGood, Sturdy
  <2>6. CASE level > g.top
    <3>1. h = [s.graph EXCEPT !.top = level, !.entry = i]
      BY <2>1, <2>4, <2>6 DEF RaiseEntry
    <3>2. /\ Sturdy(h) /\ h.entry = i /\ h.top = level /\ Point(h) = Point(new)
          /\ h.vec = s.graph.vec /\ h.level = new.level /\ h.deleted = g.deleted
          /\ \A j, m : Linked(h, j, m) = Linked(s.graph, j, m)
      <4>1. s.graph \in Graphs
        BY <2>2 DEF Sturdy, Shape
      <4>2. /\ h.entry = i /\ h.top = level /\ h.vec = s.graph.vec /\ h.level = s.graph.level
            /\ h.deleted = s.graph.deleted /\ h.links = s.graph.links /\ h \in Graphs
        BY <1>5, <3>1, <4>1 DEF Graphs
      <4>3. QED
        BY <2>2, <2>4, <4>2, SturdyStays
    <3>3. \A j \in Point(g) : g.level[j] <= level
      BY <1>4, <1>5, <2>5, <2>6
    <3>4. EntryGood(h)
      BY <1>5, <3>2, <3>3 DEF EntryGood
    <3>5. Joined(h)
      BY <2>3, <3>2, SameJoined
    <3>6. QED
      BY <1>3, <1>4, <1>5, <3>2, <3>4, <3>5 DEF GraphInv, Sturdy
  <2>7. CASE ~ (level > g.top)
    <3>1. h = s.graph
      BY <2>1, <2>4, <2>7 DEF RaiseEntry
    <3>2. level <= g.top
      BY <1>4, <1>5, <2>7
    <3>3. EntryGood(h)
      BY <1>5, <2>4, <2>5, <3>1, <3>2 DEF EntryGood
    <3>4. QED
      BY <1>3, <1>4, <1>5, <2>2, <2>3, <2>4, <3>1, <3>3 DEF GraphInv, Sturdy
  <2>8. QED
    BY <2>6, <2>7
<1>8. QED
  BY <1>6, <1>7

\* mark_deleted changes nothing that a traversal meets.
LEMMA PointDeleted ==
  ASSUME NEW g, GraphInv(g), NEW i \in Point(g)
  PROVE  GraphInv(MarkDeleted(g, i))
<1>1. PICK h : h = MarkDeleted(g, i)
  OBVIOUS
<1>2. Sturdy(g) /\ g \in Graphs /\ i \in Nat
  BY ShapeTypes DEF GraphInv, Sturdy, Shape
<1>3. /\ h.vec = g.vec /\ h.level = g.level /\ h.links = g.links /\ h.entry = g.entry
      /\ h.top = g.top /\ h.deleted = g.deleted \cup {i} /\ h \in Graphs
  BY <1>1, <1>2 DEF MarkDeleted, Graphs
<1>4. Sturdy(h) /\ Point(h) = Point(g) /\ \A j, m : Linked(h, j, m) = Linked(g, j, m)
  BY <1>2, <1>3, SturdyStays
<1>5. EntryGood(h)
  BY <1>3, <1>4 DEF GraphInv, EntryGood
<1>6. Joined(h)
  BY <1>3, <1>4, SameJoined DEF GraphInv
<1>7. h.deleted \subseteq Point(h)
  BY <1>3, <1>4 DEF GraphInv
<1>8. QED
  BY <1>1, <1>4, <1>5, <1>6, <1>7 DEF GraphInv, Sturdy

LEMMA IndexStart ==
  ASSUME IndexInit
  PROVE  IndexInv
<1>1. PICK g : g = graph
  OBVIOUS
<1>2. /\ g.vec = <<>> /\ g.level = <<>> /\ g.links = <<>> /\ g.deleted = {} /\ g.entry = 0
      /\ g.top = 0
      /\ g = [vec |-> <<>>, level |-> <<>>, links |-> <<>>, deleted |-> {}, entry |-> 0, top |-> 0]
  BY <1>1 DEF IndexInit, EmptyGraph
<1>3. <<>> \in Seq(Embedding) /\ <<>> \in Seq(0 .. MaxLevel) /\ <<>> \in Seq(Lists) /\ Len(<<>>) = 0
  BY EmptySeq
<1>4. Point(g) = {}
  BY <1>2, <1>3 DEF Point
<1>5. g \in Graphs
  <2>1. 0 \in 0 .. MaxLevel
    BY HnswAssumption
  <2>2. QED
    BY <1>2, <1>3, <2>1 DEF Graphs
<1>6. Shape(g) /\ LinksGood(g)
  BY <1>2, <1>3, <1>4, <1>5 DEF Shape, LinksGood
<1>7. EntryGood(g) /\ Joined(g) /\ g.deleted \subseteq Point(g)
  BY <1>2, <1>4 DEF EntryGood, Joined
<1>8. QED
  BY <1>1, <1>6, <1>7 DEF IndexInv, GraphInv

LEMMA IndexStep ==
  ASSUME IndexInv, [IndexNext]_graph
  PROVE  IndexInv'
<1>1. ASSUME NEW v \in Embedding, NEW level \in 0 .. MaxLevel, InsertPoint(v, level)
      PROVE  IndexInv'
  BY <1>1, PointAdded DEF InsertPoint, IndexInv
<1>2. ASSUME NEW i \in Point(graph), DeletePoint(i)
      PROVE  IndexInv'
  BY <1>2, PointDeleted DEF DeletePoint, IndexInv
<1>3. CASE UNCHANGED graph
  BY <1>3 DEF IndexInv
<1>4. QED
  BY <1>1, <1>2, <1>3 DEF IndexNext

LEMMA SoundGraph ==
  ASSUME IndexInv
  PROVE  GraphIsSound
<1>1. PICK g : g = graph
  OBVIOUS
<1>2. Sturdy(g) /\ EntryGood(g) /\ g.deleted \subseteq Point(g)
  BY <1>1 DEF IndexInv, GraphInv, Sturdy
<1>3. IndexTypeOK
  BY <1>1, <1>2 DEF IndexTypeOK, Sturdy, Shape, Graphs, EntryGood
<1>4. ASSUME NEW i \in Point(g), NEW lc \in 0 .. g.level[i]
      PROVE  /\ IsInjective(Linked(g, i, lc)) /\ Len(Linked(g, i, lc)) <= Cap(lc)
             /\ \A nb \in Range(Linked(g, i, lc)) : nb \in Point(g) \ {i} /\ g.level[nb] >= lc
  <2>1. /\ Linked(g, i, lc) \in Seq(OnLayer(g, lc) \ {i}) /\ IsInjective(Linked(g, i, lc))
        /\ Len(Linked(g, i, lc)) <= Cap(lc)
    BY <1>2 DEF Sturdy, LinksGood, GoodList
  <2>2. \A nb \in Range(Linked(g, i, lc)) : nb \in OnLayer(g, lc) \ {i}
    BY <2>1, SeqRange
  <2>3. \A nb \in OnLayer(g, lc) : nb \in Point(g) /\ g.level[nb] >= lc
    <3> SUFFICES ASSUME NEW nb \in OnLayer(g, lc) PROVE nb \in Point(g) /\ g.level[nb] >= lc
      OBVIOUS
    <3>1. nb \in Point(g) /\ lc <= g.level[nb] /\ g.level[nb] \in Nat /\ lc \in Int
      BY <1>2, ShapeTypes DEF OnLayer, Sturdy
    <3>2. QED
      BY <3>1
  <2>4. QED
    BY <2>1, <2>2, <2>3
<1>5. LinksInRange
  <2>1. \A i \in Point(g) : DOMAIN g.links[i] = 0 .. g.level[i]
    BY <1>2 DEF Sturdy, Shape
  <2>2. QED
    BY <1>1, <1>4, <2>1 DEF LinksInRange
<1>6. DegreeIsBounded
  BY <1>1, <1>4 DEF DegreeIsBounded
<1>7. EntryIsTop
  BY <1>1, <1>2 DEF EntryGood, EntryIsTop
<1>8. QED
  BY <1>3, <1>5, <1>6, <1>7 DEF GraphIsSound

\* Until lists of layer 0 are cut, the links of layer 0 lead from every point to every other:
\* add_point links each new point in both directions, and mark_deleted takes no link away.
THEOREM NoPointIsLost == IndexSpec => []Joined(graph)
<1>1. IndexInit => IndexInv
  BY IndexStart
<1>2. IndexInv /\ [IndexNext]_graph => IndexInv'
  BY IndexStep
<1>3. IndexInv => Joined(graph)
  BY DEF IndexInv, GraphInv
<1>4. QED
  BY <1>1, <1>2, <1>3, PTL DEF IndexSpec

\* Whatever points are added and deleted, in whatever order and at whatever levels: links lead
\* to other points of their layer, none twice and no more than the cap, and searches start at
\* a point of the top layer. Traversals index the tables without a check because of this.
THEOREM GraphStaysSound == IndexSpec => []GraphIsSound
<1>1. IndexInit => IndexInv
  BY IndexStart
<1>2. IndexInv /\ [IndexNext]_graph => IndexInv'
  BY IndexStep
<1>3. IndexInv => GraphIsSound
  BY SoundGraph
<1>4. QED
  BY <1>1, <1>2, <1>3, PTL DEF IndexSpec

--------------------------------------------------------------------------------
(* Answers.                                                                *)

LEMMA AllOnLayerZero ==
  ASSUME NEW g, Sturdy(g)
  PROVE  /\ OnLayer(g, 0) = Point(g) /\ LinksStay(g, Point(g), 0)
         /\ \A lc \in Nat : LinksStay(g, OnLayer(g, lc), lc)
         /\ \A l \in Nat : OnLayer(g, l + 1) \subseteq OnLayer(g, l)
<1>1. OnLayer(g, 0) = Point(g)
  BY ShapeTypes DEF OnLayer, Sturdy
<1>2. ASSUME NEW lc \in Nat
      PROVE  LinksStay(g, OnLayer(g, lc), lc)
  <2> SUFFICES ASSUME NEW j \in OnLayer(g, lc)
               PROVE  Linked(g, j, lc) \in Seq(OnLayer(g, lc))
    BY DEF LinksStay
  <2>1. j \in Point(g) /\ lc \in 0 .. g.level[j]
    BY ShapeTypes DEF OnLayer, Sturdy
  <2>2. Linked(g, j, lc) \in Seq(OnLayer(g, lc) \ {j})
    BY <2>1 DEF Sturdy, LinksGood, GoodList
  <2>3. OnLayer(g, lc) \ {j} \subseteq OnLayer(g, lc)
    OBVIOUS
  <2>4. QED
    BY <2>2, <2>3, SeqWider
<1>3. LinksStay(g, Point(g), 0)
  BY <1>1, <1>2
<1>4. ASSUME NEW l \in Nat, NEW j \in OnLayer(g, l + 1)
      PROVE  j \in OnLayer(g, l)
  <2>1. j \in Point(g) /\ l + 1 <= g.level[j] /\ g.level[j] \in Nat
    BY ShapeTypes DEF OnLayer, Sturdy
  <2>2. l <= g.level[j]
    BY <2>1
  <2>3. QED
    BY <2>1, <2>2 DEF OnLayer
<1>5. QED
  BY <1>1, <1>2, <1>3, <1>4

\* A search of layer 0 begins at a point.
LEMMA SearchBegins ==
  ASSUME NEW g, GraphInv(g), Point(g) # {}, NEW q
  PROVE  DescendTo(g, q, 0) \in Point(g)
<1>1. Sturdy(g) /\ g.entry \in Point(g) /\ g.level[g.entry] = g.top /\ g.top \in Nat
  BY ShapeTypes DEF GraphInv, EntryGood, Sturdy
<1>2. PICK top \in Nat : top = g.top
  BY <1>1
<1> DEFINE A == [l \in 0 .. top |-> OnLayer(g, l)]
<1>3. \A l \in 0 .. top : A[l] = OnLayer(g, l)
  OBVIOUS
<1> HIDE DEF A
<1>4. g.entry \in A[g.top]
  <2>1. top \in 0 .. top
    OBVIOUS
  <2>2. g.entry \in OnLayer(g, top)
    BY <1>1, <1>2 DEF OnLayer
  <2>3. QED
    BY <1>2, <1>3, <2>1, <2>2
<1>5. ASSUME NEW l \in 0 + 1 .. g.top
      PROVE  A[l] \subseteq A[l - 1] /\ LinksStay(g, A[l], l)
  <2>1. PICK m \in Nat : m = l - 1
    BY <1>2
  <2>2. l \in 0 .. top /\ m \in 0 .. top /\ l \in Nat /\ l = m + 1
    BY <1>2, <2>1
  <2>3. A[l] = OnLayer(g, m + 1) /\ A[m] = OnLayer(g, m)
    BY <1>3, <2>2
  <2>4. OnLayer(g, m + 1) \subseteq OnLayer(g, m) /\ LinksStay(g, OnLayer(g, m + 1), l)
    BY <1>1, <2>2, AllOnLayerZero
  <2>5. QED
    BY <2>1, <2>3, <2>4
<1>6. DescendTo(g, q, 0) \in A[IF 0 < g.top THEN 0 ELSE g.top]
  <2>1. Len(g.vec) \in Nat /\ 0 \in Nat
    BY <1>1, ShapeTypes DEF Sturdy
  <2>2. QED
    BY <1>1, <1>4, <1>5, <2>1, LayersStay
<1>7. (IF 0 < g.top THEN 0 ELSE g.top) = 0 /\ 0 \in 0 .. top
  BY <1>2
<1>8. QED
  BY <1>1, <1>3, <1>6, <1>7, AllOnLayerZero

\* What search_knn takes its answer from.
Reached(g, q, k) ==
  SearchLayer(g, q, DescendTo(g, q, 0), IF EfSearch < k THEN k ELSE EfSearch, 0, 0)

LEMMA AnswerTaken ==
  ASSUME NEW g, GraphInv(g), NEW q \in Embedding, NEW k \in Nat \ {0}
  PROVE  /\ Point(g) = {} => SearchKnn(g, q, k) = <<>>
         /\ Point(g) # {} =>
              /\ SearchKnn(g, q, k) = TakeNearest(WithoutTombstones(g, Reached(g, q, k)), k)
              /\ Reached(g, q, k) \in SUBSET CandsOf(g, q, Point(g))
              /\ Measured(g, q, Point(g))
<1>1. Sturdy(g) /\ Len(g.vec) \in Nat /\ g.vec \in Seq(Embedding)
  BY ShapeTypes DEF GraphInv, Sturdy
<1>2. Point(g) = {} <=> Len(g.vec) = 0
  <2>1. CASE Len(g.vec) = 0
    BY <2>1 DEF Point
  <2>2. CASE Len(g.vec) # 0
    <3>1. 1 \in Point(g)
      BY <1>1, <2>2 DEF Point
    <3>2. QED
      BY <2>2, <3>1
  <2>3. QED
    BY <2>1, <2>2
<1>3. CASE Point(g) = {}
  BY <1>2, <1>3 DEF SearchKnn
<1>4. CASE Point(g) # {}
  <2>1. SearchKnn(g, q, k) = TakeNearest(WithoutTombstones(g, Reached(g, q, k)), k)
    BY <1>2, <1>4 DEF SearchKnn, Reached
  <2>2. PICK pool \in Nat \ {0} : pool = IF EfSearch < k THEN k ELSE EfSearch
    BY HnswAssumption
  <2>3. Measured(g, q, Point(g))
    BY <1>1 DEF Measured
  <2>4. DescendTo(g, q, 0) \in Point(g) /\ LinksStay(g, Point(g), 0)
    BY <1>1, <1>4, SearchBegins, AllOnLayerZero
  <2>5. SearchLayer(g, q, DescendTo(g, q, 0), pool, 0, 0) \in SUBSET CandsOf(g, q, Point(g))
    BY <2>3, <2>4, SearchStays
  <2>6. QED
    BY <1>4, <2>1, <2>2, <2>3, <2>5 DEF Reached
<1>5. QED
  BY <1>3, <1>4

LEMMA AnswerIsSound ==
  ASSUME IndexInv, NEW q \in Embedding, NEW k \in Nat \ {0}
  PROVE  IsSound(SearchKnn(graph, q, k), q, k)
<1>1. GraphInv(graph)
  BY DEF IndexInv
<1>2. CASE Point(graph) = {}
  <2>1. SearchKnn(graph, q, k) = <<>>
    BY <1>1, <1>2, AnswerTaken
  <2>2. Len(<<>>) = 0 /\ Range(<<>>) = {} /\ DOMAIN <<>> = {}
    BY EmptySeq DEF Range
  <2>3. QED
    BY <2>1, <2>2 DEF IsSound
<1>3. CASE Point(graph) # {}
  <2>1. PICK found : found = Reached(graph, q, k)
    OBVIOUS
  <2>2. PICK alive : alive = WithoutTombstones(graph, found)
    OBVIOUS
  <2>3. /\ SearchKnn(graph, q, k) = TakeNearest(alive, k)
        /\ found \in SUBSET CandsOf(graph, q, Point(graph)) /\ Measured(graph, q, Point(graph))
    BY <1>1, <1>3, <2>1, <2>2, AnswerTaken
  <2>4. Measured(graph, q, LivePoint(graph))
    BY <2>3 DEF Measured, LivePoint
  <2>5. alive \in SUBSET CandsOf(graph, q, LivePoint(graph))
    <3> SUFFICES ASSUME NEW c \in alive PROVE c \in CandsOf(graph, q, LivePoint(graph))
      OBVIOUS
    <3>1. c \in CandsOf(graph, q, Point(graph)) /\ c[2] \notin graph.deleted
      BY <2>2, <2>3 DEF WithoutTombstones
    <3>2. c[2] \in Point(graph) /\ c = Cand(graph, q, c[2])
      BY <2>3, <3>1, CandidatesAreFinite
    <3>3. c[2] \in LivePoint(graph)
      BY <3>1, <3>2 DEF LivePoint
    <3>4. QED
      BY <3>2, <3>3 DEF CandsOf
  <2>6. PICK ans : ans = TakeNearest(alive, k)
    OBVIOUS
  <2>7. /\ ans \in Seq(LivePoint(graph)) /\ Len(ans) <= k
        /\ \A i, j \in 1 .. Len(ans) :
             i < j => Nearer(Cand(graph, q, ans[i]), Cand(graph, q, ans[j]))
    BY <2>4, <2>5, <2>6, PointsTaken
  <2>8. DOMAIN ans = 1 .. Len(ans) /\ Range(ans) \subseteq LivePoint(graph)
    BY <2>7, LenProperties, SeqRange
  <2>9. IsSound(ans, q, k)
    BY <2>7, <2>8 DEF IsSound
  <2>10. QED
    BY <2>3, <2>6, <2>9
<1>4. QED
  BY <1>2, <1>3

--------------------------------------------------------------------------------
(* A search with room for all the points meets them all.                   *)

\* The points whose links the search has followed.
Done(s, g, q) == {j \in s.visited : Cand(g, q, j) \notin s.to_visit}

\* The search has found all that it has visited, and all the links it has followed.
FoundAll(s, g, q) ==
  /\ s \in SearchStates(g, q, Point(g))
  /\ s.found = CandsOf(g, q, s.visited) /\ s.to_visit \subseteq s.found

Followed(s, g, q) == \A j \in Done(s, g, q) : Range(Linked(g, j, 0)) \subseteq s.visited

LEMMA FewCandidates ==
  ASSUME NEW g, NEW q, Measured(g, q, Point(g)), NEW C \in SUBSET CandsOf(g, q, Point(g))
  PROVE  IsFiniteSet(C) /\ Cardinality(C) \in Nat /\ Cardinality(C) <= Len(g.vec)
<1>1. PICK n \in Nat : n = Len(g.vec)
  BY LenProperties DEF Measured
<1>2. IsFiniteSet(Point(g)) /\ Cardinality(Point(g)) = n
  <2>1. 1 \in Int /\ n \in Int /\ Point(g) = 1 .. n
    BY <1>1 DEF Point
  <2>2. IsFiniteSet(1 .. n) /\ Cardinality(1 .. n) = n
    BY <2>1, FS_Interval
  <2>3. QED
    BY <2>1, <2>2
<1>3. PICK A : A = CandsOf(g, q, Point(g))
  OBVIOUS
<1> DEFINE f == [j \in Point(g) |-> Cand(g, q, j)]
<1>4. f \in Surjection(Point(g), A)
  BY <1>3 DEF CandsOf, Surjection
<1> HIDE DEF f
<1>5. IsFiniteSet(A) /\ Cardinality(A) <= Cardinality(Point(g))
  BY <1>2, <1>4, FS_Surjection
<1>6. C \in SUBSET A
  BY <1>3
<1>7. IsFiniteSet(C) /\ Cardinality(C) <= Cardinality(A)
  BY <1>5, <1>6, FS_Subset
<1>8. Cardinality(C) \in Nat /\ Cardinality(A) \in Nat
  BY <1>5, <1>7, FS_CardinalityType
<1>9. QED
  BY <1>1, <1>2, <1>5, <1>7, <1>8

\* A visit puts the point on the list of those to visit, and drops nothing.
LEMMA VisitAdmits ==
  ASSUME NEW g, NEW q, Measured(g, q, Point(g)), NEW ef \in Nat \ {0}, Len(g.vec) <= ef,
         NEW s, FoundAll(s, g, q), NEW i \in Point(g)
  PROVE  /\ FoundAll(Visit(g, q, ef, 0, s, i), g, q)
         /\ Visit(g, q, ef, 0, s, i).visited = s.visited \cup {i}
         /\ Done(Visit(g, q, ef, 0, s, i), g, q) = Done(s, g, q)
<1>1. PICK t : t = Visit(g, q, ef, 0, s, i)
  OBVIOUS
<1>2. t \in SearchStates(g, q, Point(g))
  BY <1>1, VisitStays DEF FoundAll
<1>3. /\ s.visited \subseteq Point(g) /\ s.found \in SUBSET CandsOf(g, q, Point(g))
      /\ s.found = CandsOf(g, q, s.visited) /\ s.to_visit \subseteq s.found
  BY DEF FoundAll, SearchStates
<1>4. CASE i \in s.visited
  <2>1. t = s
    BY <1>1, <1>4 DEF Visit
  <2>2. QED
    BY <1>1, <1>4, <2>1
<1>5. CASE i \notin s.visited
  <2>1. PICK c \in CandsOf(g, q, Point(g)) : c = Cand(g, q, i) /\ c[2] = i
    BY CandidatesAreFinite
  <2>2. \A j \in s.visited : Cand(g, q, j) # c
    BY <1>3, <1>5, <2>1, CandidatesAreFinite
  <2>3. c \notin s.found
    BY <1>3, <2>2 DEF CandsOf
  <2>4. s.found \cup {c} \in SUBSET CandsOf(g, q, Point(g))
    BY <1>3
  <2>5. /\ IsFiniteSet(s.found) /\ Cardinality(s.found) \in Nat
        /\ Cardinality(s.found \cup {c}) \in Nat /\ Cardinality(s.found \cup {c}) <= Len(g.vec)
    BY <1>3, <2>4, FewCandidates
  <2>6. Cardinality(s.found \cup {c}) = Cardinality(s.found) + 1
    BY <2>3, <2>5, FS_AddElement
  <2>7. Len(g.vec) \in Nat
    BY LenProperties DEF Measured
  <2>8. Cardinality(s.found) < ef /\ ~ (Cardinality(s.found \cup {c}) > ef)
    BY <2>5, <2>6, <2>7
  <2>9. i # 0
    BY <2>7 DEF Point
  <2>10. t = [visited |-> s.visited \cup {i}, to_visit |-> s.to_visit \cup {c},
              found |-> s.found \cup {c}]
    BY <1>1, <1>5, <2>1, <2>8, <2>9 DEF Visit, Admits
  <2>11. /\ t.visited = s.visited \cup {i} /\ t.to_visit = s.to_visit \cup {c}
         /\ t.found = s.found \cup {c}
    BY <2>10
  <2>12. t.found = CandsOf(g, q, t.visited)
    BY <1>3, <2>1, <2>11 DEF CandsOf
  <2>13. FoundAll(t, g, q)
    BY <1>2, <1>3, <2>11, <2>12 DEF FoundAll
  <2>14. ASSUME NEW j
         PROVE  j \in Done(t, g, q) <=> j \in Done(s, g, q)
    BY <2>1, <2>2, <2>11 DEF Done
  <2>15. Done(t, g, q) = Done(s, g, q)
    BY <2>14
  <2>16. QED
    BY <1>1, <2>11, <2>13, <2>15
<1>6. QED
  BY <1>4, <1>5

\* The search is over only when nothing is left to visit.
LEMMA OverWhenEmpty ==
  ASSUME NEW g, NEW q, Measured(g, q, Point(g)), NEW s, FoundAll(s, g, q), Over(s)
  PROVE  s.to_visit = {}
<1>1. SUFFICES ASSUME s.to_visit # {} PROVE FALSE
  OBVIOUS
<1>2. /\ s.found \in SUBSET CandsOf(g, q, Point(g)) /\ s.found # {}
      /\ s.to_visit \subseteq s.found
  BY DEF FoundAll, SearchStates
<1>3. /\ s.found \in SUBSET Pairs /\ IsFiniteSet(s.found)
      /\ s.to_visit \in SUBSET Pairs /\ IsFiniteSet(s.to_visit)
  BY <1>2, CandidatesAreFinite
<1>4. PICK near \in s.to_visit : near = Closest(s.to_visit)
  BY <1>1, <1>3, NearestIsFirst
<1>5. PICK far \in s.found : far = Farthest(s.found) /\ near[1] <= far[1]
  BY <1>2, <1>3, <1>4, NearestIsFirst
<1>6. near[1] > far[1]
  BY <1>1, <1>4, <1>5 DEF Over
<1>7. near[1] \in Nat /\ far[1] \in Nat
  BY <1>2, <1>3, <1>4, <1>5 DEF Pairs
<1>8. QED
  BY <1>5, <1>6, <1>7

\* A turn follows the links of one point more.
LEMMA TurnFollows ==
  ASSUME NEW g, NEW q, Measured(g, q, Point(g)), LinksStay(g, Point(g), 0),
         NEW ef \in Nat \ {0}, Len(g.vec) <= ef,
         NEW s, FoundAll(s, g, q), Followed(s, g, q), ~ Over(s)
  PROVE  /\ FoundAll(SearchOn(g, q, ef, 0, 0, s), g, q)
         /\ Followed(SearchOn(g, q, ef, 0, 0, s), g, q)
         /\ s.visited \subseteq SearchOn(g, q, ef, 0, 0, s).visited
         /\ Cardinality(Done(SearchOn(g, q, ef, 0, 0, s), g, q)) = Cardinality(Done(s, g, q)) + 1
<1>1. /\ s.visited \subseteq Point(g) /\ s.found \in SUBSET CandsOf(g, q, Point(g))
      /\ s.found = CandsOf(g, q, s.visited) /\ s.to_visit \subseteq s.found
      /\ s \in SearchStates(g, q, Point(g))
  BY DEF FoundAll, SearchStates
<1>2. PICK cur \in s.to_visit : cur = Closest(s.to_visit)
  <2>1. s.to_visit # {} /\ s.to_visit \in SUBSET CandsOf(g, q, Point(g))
    BY <1>1 DEF Over
  <2>2. s.to_visit \in SUBSET Pairs /\ IsFiniteSet(s.to_visit)
    BY <2>1, CandidatesAreFinite
  <2>3. QED
    BY <2>1, <2>2, NearestIsFirst
<1>3. PICK c \in s.visited : cur = Cand(g, q, c) /\ cur[2] = c
  <2>1. PICK c \in s.visited : cur = Cand(g, q, c)
    BY <1>1, <1>2 DEF CandsOf
  <2>2. Cand(g, q, c)[2] = c
    BY <1>1, CandidatesAreFinite
  <2>3. QED
    BY <2>1, <2>2
<1>4. PICK seq : seq = Linked(g, c, 0)
  OBVIOUS
<1>5. seq \in Seq(Point(g))
  BY <1>1, <1>3, <1>4 DEF LinksStay
<1>6. PICK n \in Nat : n = Len(seq)
  BY <1>5, LenProperties
<1>7. PICK first : first = [s EXCEPT !.to_visit = @ \ {cur}]
  OBVIOUS
<1>8. /\ first.visited = s.visited /\ first.found = s.found
      /\ first.to_visit = s.to_visit \ {cur} /\ first \in SearchStates(g, q, Point(g))
  BY <1>1, <1>7 DEF SearchStates
<1>9. FoundAll(first, g, q)
  BY <1>1, <1>8 DEF FoundAll
<1>10. Done(first, g, q) = Done(s, g, q) \cup {c} /\ c \notin Done(s, g, q)
  <2>1. \A j \in s.visited : Cand(g, q, j) = cur <=> j = c
    BY <1>1, <1>3, CandidatesAreFinite
  <2>2. ASSUME NEW j
        PROVE  j \in Done(first, g, q) <=> j \in Done(s, g, q) \/ j = c
    BY <1>3, <1>8, <2>1 DEF Done
  <2>3. c \notin Done(s, g, q)
    BY <1>2, <1>3 DEF Done
  <2>4. QED
    BY <2>2, <2>3
<1> DEFINE D == [m \in 0 .. n |->
             {x \in SearchStates(g, q, Point(g)) :
                /\ FoundAll(x, g, q) /\ s.visited \subseteq x.visited
                /\ Done(x, g, q) = Done(first, g, q)
                /\ \A l \in 1 .. m : seq[l] \in x.visited}]
<1>11. \A m \in 0 .. n : \A x : x \in D[m] <=>
          /\ FoundAll(x, g, q) /\ s.visited \subseteq x.visited
          /\ Done(x, g, q) = Done(first, g, q)
          /\ \A l \in 1 .. m : seq[l] \in x.visited
  BY DEF FoundAll
<1> HIDE DEF D
<1>12. 0 \in 0 .. n /\ n \in 0 .. n /\ \A m \in 1 .. n : m \in 0 .. n /\ m - 1 \in 0 .. n
  OBVIOUS
<1>13. first \in D[0]
  BY <1>8, <1>9, <1>11, <1>12
<1>14. ASSUME NEW m \in 1 .. n, NEW x \in D[m - 1]
       PROVE  Visit(g, q, ef, 0, x, seq[m]) \in D[m]
  <2>1. /\ FoundAll(x, g, q) /\ s.visited \subseteq x.visited
        /\ Done(x, g, q) = Done(first, g, q) /\ \A l \in 1 .. m - 1 : seq[l] \in x.visited
    BY <1>11, <1>12
  <2>2. seq[m] \in Point(g)
    BY <1>5, <1>6, ElementOfSeq
  <2>3. PICK y : y = Visit(g, q, ef, 0, x, seq[m])
    OBVIOUS
  <2>4. /\ FoundAll(y, g, q) /\ y.visited = x.visited \cup {seq[m]}
        /\ Done(y, g, q) = Done(x, g, q)
    BY <2>1, <2>2, <2>3, VisitAdmits
  <2>5. \A l \in 1 .. m : l = m \/ l \in 1 .. m - 1
    OBVIOUS
  <2>6. \A l \in 1 .. m : seq[l] \in y.visited
    BY <2>1, <2>4, <2>5
  <2>7. QED
    BY <1>11, <1>12, <2>1, <2>3, <2>4, <2>6
<1>15. SearchOn(g, q, ef, 0, 0, s) \in D[n]
  <2>1. /\ Len(Linked(g, Closest(s.to_visit)[2], 0)) \in Nat
        /\ Len(Linked(g, Closest(s.to_visit)[2], 0)) = n
    BY <1>2, <1>3, <1>4, <1>6
  <2>2. [s EXCEPT !.to_visit = @ \ {Closest(s.to_visit)}] \in D[0]
    BY <1>2, <1>7, <1>13
  <2>3. \A m \in 1 .. Len(Linked(g, Closest(s.to_visit)[2], 0)) : \A x \in D[m - 1] :
          Visit(g, q, ef, 0, x, Linked(g, Closest(s.to_visit)[2], 0)[m]) \in D[m]
    BY <1>2, <1>3, <1>4, <1>6, <1>14
  <2>4. SearchOn(g, q, ef, 0, 0, s) \in D[Len(Linked(g, Closest(s.to_visit)[2], 0))]
    BY <2>1, <2>2, <2>3, VisitsIn
  <2>5. QED
    BY <2>1, <2>4
<1>16. PICK t : t = SearchOn(g, q, ef, 0, 0, s)
  OBVIOUS
<1>17. /\ FoundAll(t, g, q) /\ s.visited \subseteq t.visited
       /\ Done(t, g, q) = Done(s, g, q) \cup {c} /\ \A l \in 1 .. n : seq[l] \in t.visited
  BY <1>10, <1>11, <1>12, <1>15, <1>16
<1>18. Followed(t, g, q)
  <2>1. Range(seq) \subseteq t.visited
    BY <1>5, <1>6, <1>17, SeqRange
  <2>2. QED
    BY <1>4, <1>17, <2>1 DEF Followed
<1>19. IsFiniteSet(Done(s, g, q))
  <2>1. Done(s, g, q) \in SUBSET Point(g) /\ IsFiniteSet(Point(g))
    BY <1>1, CandidatesAreFinite DEF Done
  <2>2. QED
    BY <2>1, FS_Subset
<1>20. Cardinality(Done(t, g, q)) = Cardinality(Done(s, g, q)) + 1
  BY <1>10, <1>17, <1>19, FS_AddElement
<1>21. QED
  BY <1>16, <1>17, <1>18, <1>20

\* What the search has met is all there is when it follows every link and nothing was cut.
LEMMA NothingUnmet ==
  ASSUME NEW g, GraphInv(g), Len(g.vec) <= Cap(0) + 1, NEW q, NEW s, FoundAll(s, g, q),
         Followed(s, g, q), s.to_visit = {}
  PROVE  s.found = CandsOf(g, q, Point(g))
<1>1. /\ s.visited \subseteq Point(g) /\ s.found = CandsOf(g, q, s.visited) /\ s.found # {}
  BY DEF FoundAll, SearchStates
<1>2. s.visited # {}
  BY <1>1 DEF CandsOf
<1>3. Done(s, g, q) = s.visited
  BY DEF Done
<1>4. ASSUME NEW j \in s.visited
      PROVE  Linked(g, j, 0) \in Seq(s.visited)
  <2>1. Linked(g, j, 0) \in Seq(Point(g))
    BY <1>1, AllOnLayerZero DEF GraphInv, Sturdy, LinksStay
  <2>2. Range(Linked(g, j, 0)) \subseteq s.visited
    BY <1>3 DEF Followed
  <2>3. \A k \in 1 .. Len(Linked(g, j, 0)) : Linked(g, j, 0)[k] \in s.visited
    BY <2>1, <2>2, SeqRange
  <2>4. QED
    BY <2>1, <2>3, SeqWithin
<1>5. LinksStay(g, s.visited, 0)
  BY <1>4 DEF LinksStay
<1>6. s.visited = Point(g)
  BY <1>1, <1>2, <1>5 DEF GraphInv, Joined
<1>7. QED
  BY <1>1, <1>6

\* As many turns as points are enough.
LEMMA SearchFindsAll ==
  ASSUME NEW g, GraphInv(g), Len(g.vec) <= Cap(0) + 1, NEW q \in Embedding,
         NEW ef \in Nat \ {0}, Len(g.vec) <= ef, NEW start \in Point(g)
  PROVE  SearchLayer(g, q, start, ef, 0, 0) = CandsOf(g, q, Point(g))
<1>1. Sturdy(g) /\ g.vec \in Seq(Embedding)
  BY ShapeTypes DEF GraphInv, Sturdy
<1>2. Measured(g, q, Point(g)) /\ LinksStay(g, Point(g), 0)
  BY <1>1, AllOnLayerZero DEF Measured
<1>3. PICK n \in Nat : n = Len(g.vec)
  BY <1>1, LenProperties
<1>4. Len(Down(n, 1)) = n
  <2>1. Len(Down(n, 1)) = IF n < 1 THEN 0 ELSE n - 1 + 1
    BY DownCounts
  <2>2. QED
    BY <2>1
<1> DEFINE D == [m \in 0 .. n |->
             {s \in SearchStates(g, q, Point(g)) :
                /\ FoundAll(s, g, q) /\ Followed(s, g, q)
                /\ s.to_visit = {} \/ Cardinality(Done(s, g, q)) >= m}]
<1>5. \A m \in 0 .. n : \A s : s \in D[m] <=>
        /\ FoundAll(s, g, q) /\ Followed(s, g, q)
        /\ s.to_visit = {} \/ Cardinality(Done(s, g, q)) >= m
  BY DEF FoundAll
<1> HIDE DEF D
<1>6. 0 \in 0 .. n /\ n \in 0 .. n /\ \A m \in 1 .. n : m \in 0 .. n /\ m - 1 \in 0 .. n
  OBVIOUS
<1>7. ASSUME NEW s, FoundAll(s, g, q)
      PROVE  Done(s, g, q) \in SUBSET Point(g) /\ Cardinality(Done(s, g, q)) \in Nat
  <2>1. Done(s, g, q) \in SUBSET Point(g) /\ IsFiniteSet(Point(g))
    BY <1>2, <1>7, CandidatesAreFinite DEF Done, FoundAll, SearchStates
  <2>2. IsFiniteSet(Done(s, g, q))
    BY <2>1, FS_Subset
  <2>3. QED
    BY <2>1, <2>2, FS_CardinalityType
<1>8. PICK first : first = [visited |-> {start}, to_visit |-> {Cand(g, q, start)},
                            found |-> {Cand(g, q, start)}]
  OBVIOUS
<1>9. first \in D[0]
  <2>1. /\ first.visited = {start} /\ first.to_visit = {Cand(g, q, start)}
        /\ first.found = {Cand(g, q, start)}
    BY <1>8
  <2>2. Cand(g, q, start) \in CandsOf(g, q, Point(g))
    BY <1>2, CandidatesAreFinite
  <2>3. first \in SearchStates(g, q, Point(g))
    BY <1>8, <2>2 DEF SearchStates
  <2>4. FoundAll(first, g, q)
    BY <2>1, <2>3 DEF FoundAll, CandsOf
  <2>5. Done(first, g, q) = {}
    BY <2>1 DEF Done
  <2>6. Followed(first, g, q)
    BY <2>5 DEF Followed
  <2>7. Cardinality(Done(first, g, q)) >= 0
    BY <1>7, <2>4
  <2>8. QED
    BY <1>5, <1>6, <2>4, <2>6, <2>7
<1>10. ASSUME NEW m \in 1 .. n, NEW s \in D[m - 1]
       PROVE  SearchOn(g, q, ef, 0, 0, s) \in D[m]
  <2>1. /\ FoundAll(s, g, q) /\ Followed(s, g, q)
        /\ s.to_visit = {} \/ Cardinality(Done(s, g, q)) >= m - 1
    BY <1>5, <1>6
  <2>2. CASE Over(s)
    <3>1. SearchOn(g, q, ef, 0, 0, s) = s
      BY <2>2 DEF SearchOn
    <3>2. s.to_visit = {}
      BY <1>2, <2>1, <2>2, OverWhenEmpty
    <3>3. s \in D[m]
      BY <1>5, <1>6, <2>1, <3>2
    <3>4. QED
      BY <3>1, <3>3
  <2>3. CASE ~ Over(s)
    <3>1. PICK t : t = SearchOn(g, q, ef, 0, 0, s)
      OBVIOUS
    <3>2. /\ FoundAll(t, g, q) /\ Followed(t, g, q)
          /\ Cardinality(Done(t, g, q)) = Cardinality(Done(s, g, q)) + 1
      BY <1>2, <2>1, <2>3, <3>1, TurnFollows
    <3>3. Cardinality(Done(s, g, q)) >= m - 1 /\ Cardinality(Done(s, g, q)) \in Nat
      BY <1>7, <2>1, <2>3 DEF Over
    <3>4. Cardinality(Done(t, g, q)) >= m
      BY <3>2, <3>3
    <3>5. QED
      BY <1>5, <1>6, <3>1, <3>2, <3>4
  <2>4. QED
    BY <2>2, <2>3
<1>11. PICK s \in D[n] : SearchLayer(g, q, start, ef, 0, 0) = s.found
  <2>1. Len(Down(Len(g.vec), 1)) = n /\ Len(Down(Len(g.vec), 1)) \in Nat
    BY <1>3, <1>4
  <2>2. [visited |-> {start}, to_visit |-> {Cand(g, q, start)},
         found |-> {Cand(g, q, start)}] \in D[0]
    BY <1>8, <1>9
  <2>3. \A i \in 1 .. Len(Down(Len(g.vec), 1)) : \A x \in D[i - 1] :
          SearchOn(g, q, ef, 0, 0, x) \in D[i]
    BY <1>10, <2>1
  <2>4. \E x \in D[Len(Down(Len(g.vec), 1))] : SearchLayer(g, q, start, ef, 0, 0) = x.found
    BY <2>1, <2>2, <2>3, TurnsIn
  <2>5. QED
    BY <2>1, <2>4
<1>12. /\ FoundAll(s, g, q) /\ Followed(s, g, q)
       /\ s.to_visit = {} \/ Cardinality(Done(s, g, q)) >= n
  BY <1>5, <1>6, <1>11
<1>13. s.to_visit = {}
  <2>1. SUFFICES ASSUME s.to_visit # {} PROVE FALSE
    OBVIOUS
  <2>2. PICK j \in Point(g) : Cand(g, q, j) \in s.to_visit
    BY <1>12, <2>1 DEF FoundAll, SearchStates, CandsOf
  <2>3. j \notin Done(s, g, q) /\ Done(s, g, q) \in SUBSET Point(g)
    BY <1>7, <1>12, <2>2 DEF Done
  <2>4. IsFiniteSet(Point(g)) /\ Cardinality(Point(g)) = n
    <3>1. 1 \in Int /\ n \in Int /\ Point(g) = 1 .. n
      BY <1>3 DEF Point
    <3>2. IsFiniteSet(1 .. n) /\ Cardinality(1 .. n) = n
      BY <3>1, FS_Interval
    <3>3. QED
      BY <3>1, <3>2
  <2>5. Cardinality(Done(s, g, q)) <= n /\ Cardinality(Done(s, g, q)) # n
    BY <2>2, <2>3, <2>4, FS_Subset
  <2>6. Cardinality(Done(s, g, q)) >= n /\ Cardinality(Done(s, g, q)) \in Nat
    BY <1>7, <1>12, <2>1
  <2>7. QED
    BY <2>5, <2>6
<1>14. QED
  BY <1>11, <1>12, <1>13, NothingUnmet

\* Without tombstones, all that is found is the live points.
LEMMA AnswerIsExact ==
  ASSUME IndexInv, NothingCut, EfSearch >= Len(graph.vec), NEW q \in Embedding,
         NEW k \in Nat \ {0}
  PROVE  SearchKnn(graph, q, k) = Nearest(q, k)
<1>1. GraphInv(graph)
  BY DEF IndexInv
<1>2. Measured(graph, q, Point(graph)) /\ Len(graph.vec) \in Nat
  BY <1>1, ShapeTypes DEF GraphInv, Measured
<1>3. CASE Point(graph) = {}
  <2>1. LivePoint(graph) = {} /\ SearchKnn(graph, q, k) = <<>>
    BY <1>1, <1>3, AnswerTaken DEF LivePoint
  <2>2. Nearest(q, k) = TakeNearest({}, k)
    BY <2>1 DEF Nearest
  <2>3. Measured(graph, q, {}) /\ {} \in SUBSET CandsOf(graph, q, {}) /\ k \in Nat
    BY <1>2 DEF Measured
  <2>4. TakeNearest({}, k) \in Seq({})
    BY <2>3, PointsTaken
  <2>5. Len(TakeNearest({}, k)) = 0
    <3>1. PICK m \in Nat : m = Len(TakeNearest({}, k))
      BY <2>4, LenProperties
    <3>2. \A i \in 1 .. m : TakeNearest({}, k)[i] \in {}
      BY <2>4, <3>1, ElementOfSeq
    <3>3. m = 0
      <4>1. SUFFICES ASSUME m # 0 PROVE FALSE
        OBVIOUS
      <4>2. 1 \in 1 .. m
        BY <4>1
      <4>3. QED
        BY <3>2, <4>2
    <3>4. QED
      BY <3>1, <3>3
  <2>6. TakeNearest({}, k) = <<>>
    BY <2>4, <2>5, EmptySeq
  <2>7. QED
    BY <2>1, <2>2, <2>6
<1>4. CASE Point(graph) # {}
  <2>1. PICK start \in Point(graph) : start = DescendTo(graph, q, 0)
    BY <1>1, <1>4, SearchBegins
  <2>2. PICK ef \in Nat \ {0} : ef = (IF EfSearch < k THEN k ELSE EfSearch) /\ Len(graph.vec) <= ef
    BY <1>2, HnswAssumption
  <2>3. Len(graph.vec) <= Cap(0) + 1
    BY DEF NothingCut
  <2>4. SearchLayer(graph, q, start, ef, 0, 0) = CandsOf(graph, q, Point(graph))
    BY <1>1, <2>2, <2>3, SearchFindsAll
  <2>5. Reached(graph, q, k) = CandsOf(graph, q, Point(graph))
    BY <2>1, <2>2, <2>4 DEF Reached
  <2>6. ASSUME NEW c
        PROVE  c \in WithoutTombstones(graph, CandsOf(graph, q, Point(graph)))
                 <=> c \in CandsOf(graph, q, LivePoint(graph))
    <3>1. \A j \in Point(graph) : Cand(graph, q, j)[2] = j
      BY <1>2, CandidatesAreFinite
    <3>2. QED
      BY <3>1 DEF WithoutTombstones, CandsOf, LivePoint
  <2>7. WithoutTombstones(graph, CandsOf(graph, q, Point(graph)))
          = CandsOf(graph, q, LivePoint(graph))
    BY <2>6
  <2>8. SearchKnn(graph, q, k) = TakeNearest(CandsOf(graph, q, LivePoint(graph)), k)
    BY <1>1, <1>4, <2>5, <2>7, AnswerTaken
  <2>9. QED
    BY <2>8 DEF Nearest, CandsOf
<1>5. QED
  BY <1>3, <1>4

\* Every answer names live points only, each once and nearest first, no more than asked for.
\* Until lists of layer 0 are cut, with a pool as large as the index, it is what a scan of the
\* live points gives: whatever was deleted, at whatever levels the points were added.
THEOREM SearchesAreRight == IndexSpec => []SearchIsRight
<1>1. IndexInit => IndexInv
  BY IndexStart
<1>2. IndexInv /\ [IndexNext]_graph => IndexInv'
  BY IndexStep
<1>3. ASSUME IndexInv PROVE SearchIsRight
  <2> SUFFICES ASSUME NEW q \in Embedding, NEW k \in 1 .. 3
               PROVE  /\ IsSound(SearchKnn(graph, q, k), q, k)
                      /\ NothingCut /\ EfSearch >= Len(graph.vec) =>
                           SearchKnn(graph, q, k) = Nearest(q, k)
    BY DEF SearchIsRight
  <2>1. k \in Nat \ {0}
    OBVIOUS
  <2>2. IsSound(SearchKnn(graph, q, k), q, k)
    BY <1>3, <2>1, AnswerIsSound
  <2>3. NothingCut /\ EfSearch >= Len(graph.vec) => SearchKnn(graph, q, k) = Nearest(q, k)
    BY <1>3, <2>1, AnswerIsExact
  <2>4. QED
    BY <2>2, <2>3
<1>4. QED
  BY <1>1, <1>2, <1>3, PTL DEF IndexSpec
================================================================================
