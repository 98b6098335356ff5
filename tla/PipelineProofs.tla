----------------------------- MODULE PipelineProofs ----------------------------
(***************************************************************************)
(* Proofs about process_raw_now: AlertRule, then EntryPath, for any number *)
(* of threads, fingerprints, rules, lines and entries.                     *)
(*                                                                         *)
(* AlertRule. The loop over a batch is unfolded turn by turn, what its     *)
(* turns keep is an invariant of the loop (Scanned), and a whole critical  *)
(* section is then a step that leaves what Serves says. On it rest four    *)
(* inductive invariants: TableInv (the table and its bound), MemoryInv (an *)
(* alert is still in the table, or a later one purged it), RateInv (the    *)
(* rate windows are a minute apart) and CountInv.                          *)
(*                                                                         *)
(* EntryPath. PathInv joins WorkInv (threads hold lines of their own, with *)
(* something left to do), LossInv (what is Doomed has its exception in     *)
(* total_errors) and WindowIs (what has left the window was followed by a  *)
(* time more than Window later).                                           *)
(***************************************************************************)
EXTENDS AlertRule, EntryPath, SequenceTheorems, FiniteSetTheorems, WellFoundedInduction, TLAPS

--------------------------------------------------------------------------------
\* What holds at 0 and goes on from one number to the next holds up to n.
LEMMA Climbing ==
  ASSUME NEW n \in Nat, NEW T, 0 \in T, \A i \in 1 .. n : i - 1 \in T => i \in T
  PROVE  0 .. n \subseteq T
<1> DEFINE S == (0 .. n) \ T
<1> SUFFICES ASSUME S # {} PROVE FALSE
  OBVIOUS
<1>1. S \subseteq Nat
  OBVIOUS
<1>2. PICK m \in S : \A k \in S : ~ (<<k, m>> \in OpToRel(<, Nat))
  <2> HIDE DEF S
  <2>1. QED
    BY <1>1, NatLessThanWellFounded, WFMin
<1>3. \A k \in S : ~ (k < m)
  <2> HIDE DEF S
  <2>1. QED
    BY <1>1, <1>2 DEF OpToRel
<1>4. m \in 1 .. n /\ m \notin T
  OBVIOUS
<1>5. m - 1 \in 0 .. n /\ m - 1 < m
  BY <1>4
<1>6. m - 1 \in T
  BY <1>3, <1>5
<1>7. QED
  BY <1>4, <1>6

\* A set of positions that is not empty has a last one.
LEMMA LastOf ==
  ASSUME NEW n \in Nat, NEW S \in SUBSET (1 .. n), S # {}
  PROVE  \E m \in S : \A k \in S : k <= m
<1> DEFINE T == {n - k : k \in S}
<1>1. T # {} /\ T \subseteq Nat
  <2>1. PICK k \in S : TRUE
    OBVIOUS
  <2>2. n - k \in T
    OBVIOUS
  <2>3. \A q \in S : q \in 1 .. n /\ n - q \in Nat
    OBVIOUS
  <2>4. \A x \in T : x \in Nat
    BY <2>3
  <2>5. T # {}
    BY <2>2
  <2> HIDE DEF T
  <2>6. QED
    BY <2>4, <2>5
<1>2. PICK m \in T : \A k \in T : ~ (<<k, m>> \in OpToRel(<, Nat))
  <2> HIDE DEF T
  <2>1. QED
    BY <1>1, NatLessThanWellFounded, WFMin
<1>3. \A k \in T : ~ (k < m)
  <2> HIDE DEF T
  <2>1. QED
    BY <1>1, <1>2 DEF OpToRel
<1>4. PICK l \in S : m = n - l
  OBVIOUS
<1>5. \A k \in S : ~ (n - k < n - l)
  BY <1>3, <1>4
<1>6. QED
  BY <1>5

--------------------------------------------------------------------------------
\* The states of the loop over a batch.
ScanState == [recent : [Key -> {Never} \cup Nat], count : Nat, selected : Seq(Key),
              suppressed : Nat]

LEMMA EntryType ==
  ASSUME rule \in Rule, NEW s \in ScanState, NEW k \in Key, NEW time \in Nat
  PROVE  ScanEntry(s, k, time) \in ScanState
<1>1. Suppress(s) \in ScanState
  BY DEF Suppress, ScanState
<1>2. Append(s.selected, k) \in Seq(Key)
  BY AppendProperties DEF ScanState
<1>3. Select(s, k, time) \in ScanState
  <2>1. PICK table \in [Key -> {Never} \cup Nat] : table = [s.recent EXCEPT ![k] = time]
    BY DEF ScanState
  <2>2. PICK list \in Seq(Key) : list = Append(s.selected, k)
    BY <1>2
  <2>3. s.count + 1 \in Nat /\ s.suppressed \in Nat
    BY DEF ScanState
  <2>4. Select(s, k, time) = [recent |-> table, count |-> s.count + 1, selected |-> list,
                              suppressed |-> s.suppressed]
    BY <2>1, <2>2 DEF Select
  <2>5. QED
    BY <2>3, <2>4 DEF ScanState
<1>4. QED
  BY <1>1, <1>3 DEF ScanEntry

\* f lists what the turns of the loop leave, one by one.
Unfolds(f, s, keys, time) ==
  /\ f \in [0 .. Len(keys) -> ScanState]
  /\ f[0] = s
  /\ \A i \in 1 .. Len(keys) : f[i] = ScanEntry(f[i - 1], keys[i], time)
  /\ ScanBatch(s, keys, time) = f[Len(keys)]

\* What the loop leaves is reached turn by turn.
LEMMA TurnByTurn ==
  ASSUME rule \in Rule, NEW s \in ScanState, NEW keys \in Seq(Key), NEW time \in Nat
  PROVE  \E f : Unfolds(f, s, keys, time)
<1> DEFINE n == Len(keys)
           Steps(g, m) == g[0] = s /\ \A i \in 1 .. m : g[i] = ScanEntry(g[i - 1], keys[i], time)
           Reached == {m \in 0 .. n : \E g \in [0 .. m -> ScanState] : Steps(g, m)}
           Loop(g) == g = [i \in 0 .. n |-> IF i = 0 THEN s
                                            ELSE ScanEntry(g[i - 1], keys[i], time)]
<1>1. n \in Nat /\ \A i \in 1 .. n : keys[i] \in Key
  BY LenProperties, ElementOfSeq
<1>2. 0 \in Reached
  <2> DEFINE g == [i \in 0 .. 0 |-> s]
  <2>1. g \in [0 .. 0 -> ScanState] /\ Steps(g, 0)
    OBVIOUS
  <2>2. \E h \in [0 .. 0 -> ScanState] : Steps(h, 0)
    <3> HIDE DEF Steps, g
    <3>1. QED
      BY <2>1
  <2>3. 0 \in 0 .. n
    BY <1>1
  <2>4. QED
    <3> HIDE DEF Steps
    <3>1. QED
      BY <2>2, <2>3
<1>3. ASSUME NEW m \in 1 .. n, m - 1 \in Reached
      PROVE  m \in Reached
  <2>1. PICK f \in [0 .. m - 1 -> ScanState] : Steps(f, m - 1)
    <3> HIDE DEF Steps
    <3>1. QED
      BY <1>3
  <2>2. m \in Nat /\ m > 0 /\ keys[m] \in Key /\ f[m - 1] \in ScanState
    <3> HIDE DEF n, Steps
    <3>1. QED
      BY <1>1, <2>1
  <2>3. PICK last \in ScanState : last = ScanEntry(f[m - 1], keys[m], time)
    BY <2>2, EntryType
  <2> DEFINE g == [i \in 0 .. m |-> IF i = m THEN last ELSE f[i]]
  <2>4. g \in [0 .. m -> ScanState]
    BY <2>1, <2>2
  <2>5. g[0] = s
    BY <2>1, <2>2
  <2>6. ASSUME NEW i \in 1 .. m
        PROVE  g[i] = ScanEntry(g[i - 1], keys[i], time)
    <3>1. CASE i = m
      <4>1. g[i] = last /\ g[i - 1] = f[m - 1]
        BY <2>2, <3>1
      <4>2. QED
        BY <3>1, <4>1, <2>3
    <3>2. CASE i # m
      <4>1. i \in 1 .. m - 1 /\ g[i] = f[i] /\ g[i - 1] = f[i - 1]
        BY <2>2, <3>2
      <4>2. QED
        BY <4>1, <2>1
    <3>3. QED
      BY <3>1, <3>2
  <2>7. Steps(g, m)
    <3> HIDE DEF g
    <3>1. QED
      BY <2>5, <2>6
  <2>8. m \in 0 .. n
    BY <1>1, <2>2
  <2>9. QED
    <3> HIDE DEF g, Steps
    <3>1. QED
      BY <2>4, <2>7, <2>8
<1>4. PICK f \in [0 .. n -> ScanState] : Steps(f, n)
  <2>1. 0 .. n \subseteq Reached
    <3> HIDE DEF Reached, n
    <3>1. QED
      BY <1>1, <1>2, <1>3, Climbing
  <2>2. n \in 0 .. n
    BY <1>1
  <2> HIDE DEF Steps, n
  <2>3. QED
    BY <2>1, <2>2
<1>5. Loop(f)
  <2> DEFINE rhs == [i \in 0 .. n |-> IF i = 0 THEN s ELSE ScanEntry(f[i - 1], keys[i], time)]
  <2>1. \A i \in 0 .. n : f[i] = rhs[i]
    BY <1>1, <1>4
  <2>2. f = rhs
    <3> HIDE DEF n
    <3>1. DOMAIN f = 0 .. n /\ DOMAIN rhs = 0 .. n
      BY <1>4
    <3>2. QED
      BY <2>1, <3>1, <1>4
  <2>3. QED
    BY <2>2
<1> DEFINE after == CHOOSE g : Loop(g)
<1>6. Loop(after)
  BY <1>5
<1>7. ScanBatch(s, keys, time) = after[n]
  BY DEF ScanBatch
<1>8. Steps(after, n)
  <2> HIDE DEF after
  <2>1. QED
    BY <1>1, <1>6
<1>9. \A i \in 0 .. n : after[i] \in ScanState
  <2> DEFINE T == {i \in 0 .. n : after[i] \in ScanState}
  <2> HIDE DEF after
  <2>1. 0 \in T
    BY <1>1, <1>8
  <2>2. \A i \in 1 .. n : i - 1 \in T => i \in T
    <3> SUFFICES ASSUME NEW i \in 1 .. n, after[i - 1] \in ScanState
                 PROVE  after[i] \in ScanState
      OBVIOUS
    <3>1. keys[i] \in Key /\ after[i] = ScanEntry(after[i - 1], keys[i], time)
      BY <1>1, <1>8
    <3>2. QED
      BY <3>1, EntryType
  <2>3. 0 .. n \subseteq T
    <3> HIDE DEF T, n
    <3>1. QED
      BY <1>1, <2>1, <2>2, Climbing
  <2>4. QED
    BY <2>3
<1>10. after \in [0 .. n -> ScanState]
  <2> HIDE DEF after, n
  <2>1. QED
    BY <1>6, <1>9
<1>11. QED
  <2> HIDE DEF after
  <2>1. QED
    BY <1>7, <1>8, <1>10 DEF Unfolds
--------------------------------------------------------------------------------
\* What the loop has established after i turns, started with s.
UrgentUpTo(keys, i) == {j \in 1 .. i : keys[j] \in rule.urgent}

Counted(x, s, keys, i) ==
  /\ x.count = s.count + Len(x.selected)
  /\ x.suppressed + Len(x.selected) = s.suppressed + Cardinality(UrgentUpTo(keys, i))

WithinRate(x, s) ==
  \A m \in 1 .. Len(x.selected) : rule.max > 0 => s.count + m <= rule.max

Remembered(x, s, time) ==
  \A k \in Key : IF \E m \in 1 .. Len(x.selected) : x.selected[m] = k
                 THEN x.recent[k] = time
                 ELSE x.recent[k] = s.recent[k]

Due(x, s, time) ==
  /\ \A m \in 1 .. Len(x.selected) : \/ s.recent[x.selected[m]] = Never
                                     \/ time - s.recent[x.selected[m]] >= rule.window
  /\ \A m, l \in 1 .. Len(x.selected) :
       m < l /\ x.selected[m] = x.selected[l] => rule.window = 0

Scanned(x, s, keys, time, i) ==
  Counted(x, s, keys, i) /\ WithinRate(x, s) /\ Remembered(x, s, time) /\ Due(x, s, time)

\* A part of 1 .. n is finite.
LEMMA PartOfInterval ==
  ASSUME NEW n \in Nat, NEW S, S \subseteq 1 .. n
  PROVE  IsFiniteSet(S) /\ Cardinality(S) \in Nat
<1>1. 1 \in Int /\ n \in Int
  OBVIOUS
<1>2. IsFiniteSet(1 .. n)
  BY <1>1, FS_Interval
<1>3. IsFiniteSet(S)
  BY <1>2, FS_Subset
<1>4. QED
  BY <1>3, FS_CardinalityType

LEMMA UrgentIsFinite ==
  ASSUME NEW keys \in Seq(Key)
  PROVE  IsFiniteSet(Urgent(keys)) /\ Cardinality(Urgent(keys)) \in Nat
<1>1. PICK n \in Nat : n = Len(keys)
  BY LenProperties
<1>2. Urgent(keys) \subseteq 1 .. n
  BY <1>1 DEF Urgent
<1>3. QED
  BY <1>2, PartOfInterval

\* The urgent entries among the first i: one more if the i-th is urgent.
LEMMA UrgentGrows ==
  ASSUME NEW keys, NEW i \in Nat \ {0}
  PROVE  /\ IsFiniteSet(UrgentUpTo(keys, i - 1))
         /\ Cardinality(UrgentUpTo(keys, i - 1)) \in Nat
         /\ Cardinality(UrgentUpTo(keys, i)) =
              Cardinality(UrgentUpTo(keys, i - 1)) + (IF keys[i] \in rule.urgent THEN 1 ELSE 0)
<1>1. i - 1 \in Nat /\ i \notin 1 .. i - 1 /\ 1 .. i = (1 .. i - 1) \cup {i}
  OBVIOUS
<1>2. UrgentUpTo(keys, i - 1) \subseteq 1 .. i - 1
  BY DEF UrgentUpTo
<1>3. IsFiniteSet(UrgentUpTo(keys, i - 1)) /\ Cardinality(UrgentUpTo(keys, i - 1)) \in Nat
  BY <1>1, <1>2, PartOfInterval
<1>4. CASE keys[i] \in rule.urgent
  <2>1. UrgentUpTo(keys, i) = UrgentUpTo(keys, i - 1) \cup {i} /\ i \notin UrgentUpTo(keys, i - 1)
    BY <1>1, <1>4 DEF UrgentUpTo
  <2>2. QED
    BY <1>3, <1>4, <2>1, FS_AddElement
<1>5. CASE keys[i] \notin rule.urgent
  <2>1. UrgentUpTo(keys, i) = UrgentUpTo(keys, i - 1)
    BY <1>1, <1>5 DEF UrgentUpTo
  <2>2. QED
    BY <1>3, <1>5, <2>1
<1>6. QED
  BY <1>4, <1>5

\* One turn of the loop keeps all of it.
LEMMA OneTurn ==
  ASSUME rule \in Rule, NEW s \in ScanState, NEW x \in ScanState, NEW keys \in Seq(Key),
         NEW time \in Nat, NEW i \in 1 .. Len(keys), Scanned(x, s, keys, time, i - 1)
  PROVE  Scanned(ScanEntry(x, keys[i], time), s, keys, time, i)
<1>1. PICK k \in Key : k = keys[i]
  BY ElementOfSeq
<1>2. i \in Nat \ {0}
  BY LenProperties
<1>3. /\ Cardinality(UrgentUpTo(keys, i - 1)) \in Nat
      /\ Cardinality(UrgentUpTo(keys, i)) =
           Cardinality(UrgentUpTo(keys, i - 1)) + (IF k \in rule.urgent THEN 1 ELSE 0)
  BY <1>1, <1>2, UrgentGrows
<1>4. /\ x.selected \in Seq(Key) /\ Len(x.selected) \in Nat /\ x.count \in Nat
      /\ x.suppressed \in Nat /\ s.count \in Nat /\ s.suppressed \in Nat
      /\ x.recent \in [Key -> {Never} \cup Nat] /\ s.recent \in [Key -> {Never} \cup Nat]
  BY LenProperties DEF ScanState
<1> DEFINE one == IF k \in rule.urgent THEN 1 ELSE 0
<1>9. PICK n \in Nat, u \in Nat : n = Len(x.selected) /\ u = Cardinality(UrgentUpTo(keys, i - 1))
  BY <1>3, <1>4
<1>10. /\ x.count = s.count + n /\ x.suppressed + n = s.suppressed + u
       /\ Cardinality(UrgentUpTo(keys, i)) = u + one
  BY <1>3, <1>9 DEF Scanned, Counted
<1>11. PICK a \in Nat, b \in Nat, c \in Nat :
         a = x.suppressed /\ b = s.suppressed /\ c = s.count
  BY <1>4
<1>12. x.count = c + n /\ a + n = b + u
  BY <1>10, <1>11
<1>5. CASE k \notin rule.urgent
  <2>1. ScanEntry(x, k, time) = x
    BY <1>5 DEF ScanEntry
  <2>2. Counted(x, s, keys, i)
    <3>1. Cardinality(UrgentUpTo(keys, i)) = u
      BY <1>5, <1>10
    <3>2. QED
      BY <1>9, <1>10, <3>1 DEF Counted
  <2>3. QED
    BY <1>1, <2>1, <2>2 DEF Scanned
<1>6. CASE k \in rule.urgent /\ (RateExhausted(x) \/ Duplicate(x, k, time))
  <2>1. ScanEntry(x, k, time) = Suppress(x)
    BY <1>6 DEF ScanEntry
  <2>2. PICK y : y = Suppress(x)
    OBVIOUS
  <2>3. /\ y.recent = x.recent /\ y.count = x.count /\ y.selected = x.selected
        /\ y.suppressed = x.suppressed + 1
    BY <2>2 DEF Suppress, ScanState
  <2>4. Counted(y, s, keys, i)
    <3>1. Cardinality(UrgentUpTo(keys, i)) = u + 1
      BY <1>6, <1>10
    <3>2. Len(y.selected) = n
      BY <1>9, <2>3
    <3>3. y.count = c + n /\ y.suppressed = a + 1
      BY <1>11, <1>12, <2>3
    <3>4. y.suppressed + n = b + (u + 1)
      BY <1>12, <3>3
    <3>5. QED
      BY <1>11, <3>1, <3>2, <3>3, <3>4 DEF Counted
  <2>5. WithinRate(y, s) /\ Remembered(y, s, time) /\ Due(y, s, time)
    BY <2>3 DEF Scanned, WithinRate, Remembered, Due
  <2>6. QED
    BY <1>1, <2>1, <2>2, <2>4, <2>5 DEF Scanned
<1>7. CASE k \in rule.urgent /\ ~ RateExhausted(x) /\ ~ Duplicate(x, k, time)
  <2>1. ScanEntry(x, k, time) = Select(x, k, time)
    BY <1>7 DEF ScanEntry
  <2>2. PICK y : y = Select(x, k, time)
    OBVIOUS
  <2>3. n = Len(x.selected)
    BY <1>9
  <2>4. /\ y.recent = [x.recent EXCEPT ![k] = time] /\ y.count = x.count + 1
        /\ y.selected = Append(x.selected, k) /\ y.suppressed = x.suppressed
    BY <2>2 DEF Select
  <2>5. /\ Len(y.selected) = n + 1 /\ y.selected[n + 1] = k
        /\ \A m \in 1 .. n : y.selected[m] = x.selected[m]
    BY <1>4, <2>3, <2>4, AppendProperties
  <2>6. rule.max \in Nat /\ rule.window \in Nat
    BY DEF Rule
  <2>7. Counted(y, s, keys, i)
    <3>1. Cardinality(UrgentUpTo(keys, i)) = u + 1
      BY <1>7, <1>10
    <3>2. y.count = (c + n) + 1 /\ y.suppressed = a
      BY <1>11, <1>12, <2>4
    <3>3. y.count = c + (n + 1) /\ y.suppressed + (n + 1) = b + (u + 1)
      BY <1>12, <3>2
    <3>4. QED
      BY <1>11, <2>5, <3>1, <3>3 DEF Counted
  <2>8. WithinRate(y, s)
    <3>1. PICK p \in Nat : p = rule.max
      BY <2>6
    <3>2. p > 0 => c + n < p
      BY <1>7, <1>12, <3>1 DEF RateExhausted
    <3>3. \A m \in 1 .. n : p > 0 => c + m <= p
      BY <1>11, <2>3, <3>1 DEF Scanned, WithinRate
    <3>4. \A m \in 1 .. n + 1 : p > 0 => c + m <= p
      BY <3>2, <3>3
    <3>5. QED
      BY <1>11, <2>5, <3>1, <3>4 DEF WithinRate
  <2>9. \/ (\E m \in 1 .. n : x.selected[m] = k) /\ rule.window = 0
        \/ /\ \A m \in 1 .. n : x.selected[m] # k
           /\ s.recent[k] = Never \/ time - s.recent[k] >= rule.window
    <3>1. x.recent[k] = Never \/ time - x.recent[k] >= rule.window
      <4>1. x.recent[k] \in {Never} \cup Nat
        BY <1>4
      <4>2. QED
        BY <1>7, <2>6, <4>1 DEF Duplicate, Never
    <3>2. IF \E m \in 1 .. n : x.selected[m] = k THEN x.recent[k] = time
                                                 ELSE x.recent[k] = s.recent[k]
      BY <2>3 DEF Scanned, Remembered
    <3>3. time # Never /\ time - time = 0
      BY DEF Never
    <3>4. QED
      BY <2>6, <3>1, <3>2, <3>3
  <2>10. Remembered(y, s, time)
    <3> SUFFICES ASSUME NEW q \in Key
                 PROVE  IF \E m \in 1 .. n + 1 : y.selected[m] = q
                        THEN y.recent[q] = time ELSE y.recent[q] = s.recent[q]
      BY <2>5 DEF Remembered
    <3>1. CASE q = k
      BY <1>4, <2>4, <2>5, <3>1
    <3>2. CASE q # k
      <4>1. y.recent[q] = x.recent[q]
        BY <1>4, <2>4, <3>2
      <4>2. (\E m \in 1 .. n + 1 : y.selected[m] = q) <=> (\E m \in 1 .. n : x.selected[m] = q)
        <5>1. y.selected[n + 1] # q /\ \A m \in 1 .. n : y.selected[m] = x.selected[m]
          BY <2>5, <3>2
        <5>2. \A m \in 1 .. n + 1 : m \in 1 .. n \/ m = n + 1
          OBVIOUS
        <5>3. \A m \in 1 .. n : m \in 1 .. n + 1
          OBVIOUS
        <5>4. QED
          BY <5>1, <5>2, <5>3
      <4>3. IF \E m \in 1 .. n : x.selected[m] = q THEN x.recent[q] = time
                                                   ELSE x.recent[q] = s.recent[q]
        BY <2>3 DEF Scanned, Remembered
      <4>4. QED
        BY <4>1, <4>2, <4>3
    <3>3. QED
      BY <3>1, <3>2
  <2>11. Due(y, s, time)
    <3>1. /\ \A m \in 1 .. n : \/ s.recent[x.selected[m]] = Never
                               \/ time - s.recent[x.selected[m]] >= rule.window
          /\ \A m, l \in 1 .. n : m < l /\ x.selected[m] = x.selected[l] => rule.window = 0
      BY <2>3 DEF Scanned, Due
    <3>2. s.recent[k] = Never \/ time - s.recent[k] >= rule.window
      <4>1. CASE \E m \in 1 .. n : x.selected[m] = k
        BY <3>1, <4>1
      <4>2. CASE \A m \in 1 .. n : x.selected[m] # k
        BY <2>9, <4>2
      <4>3. QED
        BY <4>1, <4>2
    <3>3. \A m \in 1 .. n + 1 : \/ s.recent[y.selected[m]] = Never
                                \/ time - s.recent[y.selected[m]] >= rule.window
      BY <2>5, <3>1, <3>2
    <3>4. ASSUME NEW m \in 1 .. n + 1, NEW l \in 1 .. n + 1, m < l, y.selected[m] = y.selected[l]
          PROVE  rule.window = 0
      <4>1. CASE l = n + 1
        <5>1. m \in 1 .. n /\ x.selected[m] = k
          BY <2>5, <3>4, <4>1
        <5>2. QED
          BY <2>9, <5>1
      <4>2. CASE l # n + 1
        <5>1. m \in 1 .. n /\ l \in 1 .. n /\ x.selected[m] = x.selected[l]
          BY <2>5, <3>4, <4>2
        <5>2. QED
          BY <3>1, <3>4, <5>1
      <4>3. QED
        BY <4>1, <4>2
    <3>5. QED
      BY <2>5, <3>3, <3>4 DEF Due
  <2>12. QED
    BY <1>1, <2>1, <2>2, <2>7, <2>8, <2>10, <2>11 DEF Scanned
<1>8. QED
  BY <1>5, <1>6, <1>7

\* What a batch leaves of a scan that starts with nothing selected.
LEMMA BatchScanned ==
  ASSUME rule \in Rule, NEW s \in ScanState, NEW keys \in Seq(Key), NEW time \in Nat,
         s.selected = <<>>, s.suppressed = 0
  PROVE  /\ ScanBatch(s, keys, time) \in ScanState
         /\ Scanned(ScanBatch(s, keys, time), s, keys, time, Len(keys))
<1>1. PICK n \in Nat : n = Len(keys)
  BY LenProperties
<1>8. PICK f : Unfolds(f, s, keys, time)
  BY TurnByTurn, Zenon
<1>2. /\ f \in [0 .. n -> ScanState] /\ f[0] = s
      /\ \A i \in 1 .. n : f[i] = ScanEntry(f[i - 1], keys[i], time)
      /\ ScanBatch(s, keys, time) = f[n]
  BY <1>1, <1>8 DEF Unfolds
<1> DEFINE T == {i \in 0 .. n : Scanned(f[i], s, keys, time, i)}
<1>3. 0 \in T
  <2>1. UrgentUpTo(keys, 0) = {} /\ Cardinality({}) = 0
    BY FS_EmptySet DEF UrgentUpTo
  <2>2. Len(s.selected) = 0 /\ s.count \in Nat
    BY LenProperties DEF ScanState
  <2>3. Scanned(s, s, keys, time, 0)
    <3>1. Counted(s, s, keys, 0)
      <4>1. s.count = s.count + 0 /\ s.suppressed + 0 = s.suppressed + 0
        BY <2>2
      <4>2. QED
        BY <2>1, <2>2, <4>1 DEF Counted
    <3>2. WithinRate(s, s) /\ Remembered(s, s, time) /\ Due(s, s, time)
      BY <2>2 DEF WithinRate, Remembered, Due
    <3>3. QED
      BY <3>1, <3>2 DEF Scanned
  <2>4. QED
    BY <1>2, <2>3
<1>4. ASSUME NEW i \in 1 .. n, i - 1 \in T
      PROVE  i \in T
  <2>1. f[i - 1] \in ScanState /\ Scanned(f[i - 1], s, keys, time, i - 1)
    BY <1>2, <1>4
  <2>2. Scanned(ScanEntry(f[i - 1], keys[i], time), s, keys, time, i)
    BY <1>1, <2>1, OneTurn
  <2>3. QED
    BY <1>2, <2>2
<1>5. 0 .. n \subseteq T
  <2> HIDE DEF T
  <2>1. QED
    BY <1>3, <1>4, Climbing
<1>6. n \in 0 .. n /\ f[n] \in ScanState
  BY <1>2
<1>7. QED
  BY <1>1, <1>2, <1>5, <1>6
--------------------------------------------------------------------------------
\* The critical section of thread t, which scans keys at the given time and leaves
\* x: c is the count it starts from, w and b number and start of the rate window.
RateWindow(time, c, w, b) ==
  IF time - windowStart >= Minute THEN c = 0 /\ w = windows + 1 /\ b = time
                                  ELSE c = rateCount /\ w = windows /\ b = windowStart

Outcome(x, keys, time, c) ==
  /\ x.count = c + Len(x.selected)
  /\ x.suppressed + Len(x.selected) = Cardinality(Urgent(keys))
  /\ \A m \in 1 .. Len(x.selected) : rule.max > 0 => c + m <= rule.max
  /\ \A k \in Key : IF \E m \in 1 .. Len(x.selected) : x.selected[m] = k
                    THEN x.recent[k] = time
                    ELSE x.recent[k] = recent[k]
  /\ \A m \in 1 .. Len(x.selected) : \/ recent[x.selected[m]] = Never
                                     \/ time - recent[x.selected[m]] >= rule.window
  /\ \A m, l \in 1 .. Len(x.selected) :
       m < l /\ x.selected[m] = x.selected[l] => rule.window = 0

Emptied(x, time) == Overfull(Purge(x.recent, time)) /\ Overfull(x.recent)

NewAlerts(x, time, w, b) ==
  [i \in 1 .. Len(x.selected) |-> [key |-> x.selected[i], at |-> time, rule |-> rule,
                                   window |-> w, start |-> b,
                                   cleared |-> cleared, trims |-> trims]]

Leaves(t, x, keys, time, w, b) ==
  /\ windowStart' = b
  /\ windows' = w
  /\ rateCount' = x.count
  /\ recent' = Trim(x.recent, time)
  /\ suppressed' = suppressed + x.suppressed
  /\ ctx' = [ctx EXCEPT ![t] = x.selected]
  /\ pc' = [pc EXCEPT ![t] = IF x.selected = <<>> THEN "idle" ELSE "send"]
  /\ now' = [now EXCEPT ![t] = 0]
  /\ batch' = [batch EXCEPT ![t] = <<>>]
  /\ raised' = raised \o NewAlerts(x, time, w, b)
  /\ cleared' = IF Emptied(x, time) THEN cleared + 1 ELSE cleared
  /\ trims' = IF Overfull(x.recent) THEN trims + 1 ELSE trims
  /\ urgentSeen' = urgentSeen + Cardinality(Urgent(keys))
  /\ UNCHANGED <<clock, rule, ruleChanges, alerts, batches>>

Serves(t, x, keys, time, c, w, b) ==
  /\ x \in ScanState /\ keys \in Seq(Key) /\ time \in 0 .. MaxTime
  /\ c \in Nat /\ w \in Nat /\ b \in 0 .. MaxTime
  /\ pc[t] = "select" /\ keys = batch[t] /\ time = now[t]
  /\ RateWindow(time, c, w, b)
  /\ Outcome(x, keys, time, c)
  /\ Leaves(t, x, keys, time, w, b)

LEMMA ConstantTypes ==
  /\ Minute \in Nat /\ Minute > 0 /\ MaxTime \in Nat /\ MaxBatches \in Nat
  /\ MaxBatch \in Nat /\ MaxRules \in Nat
  /\ \A r \in Rules : /\ r \in Rule /\ r.window \in Nat /\ r.max \in Nat /\ r.cache \in Nat
                      /\ r.urgent \subseteq Key
BY BoundsAssumption, RulesAssumption DEF Rule

LEMMA StateTypes ==
  ASSUME TypeOK
  PROVE  /\ clock \in Nat /\ rule \in Rules /\ rule \in Rule
         /\ recent \in [Key -> {Never} \cup Nat] /\ windowStart \in Nat
         /\ rateCount \in Nat /\ suppressed \in Nat /\ alerts \in Nat /\ cleared \in Nat
         /\ trims \in Nat /\ windows \in Nat /\ urgentSeen \in Nat /\ batches \in Nat
         /\ ruleChanges \in Nat
         /\ raised \in Seq(Selection) /\ Len(raised) \in Nat
         /\ DOMAIN raised = 1 .. Len(raised)
         /\ \A i \in DOMAIN raised : raised[i] \in Selection
<1>1. raised \in Seq(Selection)
  BY DEF TypeOK
<1>2. Len(raised) \in Nat /\ DOMAIN raised = 1 .. Len(raised)
  BY <1>1, LenProperties
<1>3. \A i \in 1 .. Len(raised) : raised[i] \in Selection
  BY <1>1, ElementOfSeq
<1>4. recent \in [Key -> {Never} \cup Nat]
  BY ConstantTypes DEF TypeOK
<1>5. QED
  BY <1>1, <1>2, <1>3, <1>4, ConstantTypes DEF TypeOK

\* A critical section is a scan of the batch followed by what is left of it.
LEMMA SelectStep ==
  ASSUME TypeOK, NEW t \in Thread, SelectAlerting(t)
  PROVE  \E x, keys, time, c, w, b : Serves(t, x, keys, time, c, w, b)
<1>1. PICK keys \in Seq(Key) : keys = batch[t]
  BY DEF TypeOK
<1>2. PICK time \in 0 .. MaxTime : time = now[t]
  BY DEF TypeOK
<1>3. time \in Nat
  BY ConstantTypes
<1>4. PICK c \in Nat : c = IF NewWindow(time) THEN 0 ELSE rateCount
  BY StateTypes
<1>5. PICK w \in Nat : w = IF NewWindow(time) THEN windows + 1 ELSE windows
  BY StateTypes
<1>6. PICK b \in 0 .. MaxTime : b = IF NewWindow(time) THEN time ELSE windowStart
  BY DEF TypeOK
<1>7. PICK s \in ScanState : s = [recent |-> recent, count |-> c, selected |-> <<>>, suppressed |-> 0]
  <2>1. <<>> \in Seq(Key)
    BY EmptySeq
  <2>2. QED
    BY <2>1, StateTypes DEF ScanState
<1>8. s = [Scan EXCEPT !.count = IF NewWindow(time) THEN 0 ELSE @]
  BY <1>4, <1>7 DEF Scan
<1>9. PICK x : x = ScanBatch(s, keys, time)
  OBVIOUS
<1>10. x \in ScanState /\ Scanned(x, s, keys, time, Len(keys))
  BY <1>3, <1>7, <1>9, BatchScanned, StateTypes
<1>11. Leaves(t, x, keys, time, w, b)
  <2>1. s = [Scan EXCEPT !.count = IF NewWindow(now[t]) THEN 0 ELSE @]
    BY <1>2, <1>8
  <2>2. x = ScanBatch([Scan EXCEPT !.count = IF NewWindow(now[t]) THEN 0 ELSE @], batch[t], now[t])
    BY <1>1, <1>2, <1>9, <2>1
  <2>3. QED
    BY <1>1, <1>2, <1>5, <1>6, <2>2
       DEF SelectAlerting, Leaves, NewAlerts, Emptied, ruleVars
<1>12. Outcome(x, keys, time, c)
  <2>1. s.recent = recent /\ s.count = c /\ s.suppressed = 0
    BY <1>7
  <2>2. UrgentUpTo(keys, Len(keys)) = Urgent(keys)
    BY DEF UrgentUpTo, Urgent
  <2>3. Cardinality(Urgent(keys)) \in Nat
    BY UrgentIsFinite
  <2>4. x.suppressed + Len(x.selected) = Cardinality(Urgent(keys))
    BY <1>10, <2>1, <2>2, <2>3 DEF Scanned, Counted
  <2>5. x.count = c + Len(x.selected)
    BY <1>10, <2>1 DEF Scanned, Counted
  <2>6. QED
    BY <1>10, <2>1, <2>4, <2>5 DEF Scanned, WithinRate, Remembered, Due, Outcome
<1>13. RateWindow(time, c, w, b)
  BY <1>4, <1>5, <1>6 DEF RateWindow, NewWindow
<1>14. pc[t] = "select"
  BY DEF SelectAlerting
<1>15. Serves(t, x, keys, time, c, w, b)
  BY <1>1, <1>2, <1>10, <1>11, <1>12, <1>13, <1>14 DEF Serves
<1>16. QED
  BY <1>15
--------------------------------------------------------------------------------
\* The history of selections grows at its end.
LEMMA RaisedGrows ==
  ASSUME TypeOK, NEW t, NEW x, NEW keys, NEW time, NEW c, NEW w, NEW b,
         Serves(t, x, keys, time, c, w, b)
  PROVE  /\ raised' \in Seq(Selection)
         /\ Len(x.selected) \in Nat
         /\ Len(raised') = Len(raised) + Len(x.selected)
         /\ DOMAIN raised' = 1 .. Len(raised) + Len(x.selected)
         /\ \A i \in 1 .. Len(raised) : raised'[i] = raised[i]
         /\ \A m \in 1 .. Len(x.selected) :
              raised'[Len(raised) + m] =
                [key |-> x.selected[m], at |-> time, rule |-> rule, window |-> w, start |-> b,
                 cleared |-> cleared, trims |-> trims]
<1>1. x.selected \in Seq(Key)
  BY DEF Serves, ScanState
<1>2. PICK n \in Nat : n = Len(x.selected)
  BY <1>1, LenProperties
<1>3. PICK new : new = NewAlerts(x, time, w, b)
  OBVIOUS
<1>4. \A m \in 1 .. n : x.selected[m] \in Key
  BY <1>1, <1>2, ElementOfSeq
<1>5. time \in Nat /\ w \in Nat /\ b \in Nat
  BY ConstantTypes DEF Serves
<1>6. new \in [1 .. n -> Selection]
  BY <1>2, <1>3, <1>4, <1>5, StateTypes DEF NewAlerts, Selection
<1>7. new \in Seq(Selection) /\ Len(new) = n
  BY <1>6, SeqDef, LenProperties
<1>8. raised \in Seq(Selection) /\ raised' = raised \o new
  BY <1>3, StateTypes DEF Serves, Leaves
<1>9. \A m \in 1 .. n : new[m] = [key |-> x.selected[m], at |-> time, rule |-> rule, window |-> w,
                                  start |-> b, cleared |-> cleared, trims |-> trims]
  BY <1>2, <1>3 DEF NewAlerts
<1>10. PICK l \in Nat : l = Len(raised)
  BY <1>8, LenProperties
<1>11. /\ raised' \in Seq(Selection) /\ Len(raised') = l + n
       /\ \A i \in 1 .. l + n : raised'[i] = IF i <= l THEN raised[i] ELSE new[i - l]
  BY <1>7, <1>8, <1>10, ConcatProperties
<1>12. DOMAIN raised' = 1 .. l + n
  BY <1>11, LenProperties
<1>13. \A i \in 1 .. l : raised'[i] = raised[i]
  BY <1>11
<1>14. \A m \in 1 .. n : raised'[l + m] = new[m]
  <2> SUFFICES ASSUME NEW m \in 1 .. n PROVE raised'[l + m] = new[m]
    OBVIOUS
  <2>1. l + m \in 1 .. l + n /\ ~ (l + m <= l) /\ (l + m) - l = m
    OBVIOUS
  <2>2. QED
    BY <1>11, <2>1
<1>15. QED
  BY <1>2, <1>9, <1>10, <1>11, <1>12, <1>13, <1>14

\* A trimmed table holds what the table held, or Never where it expired or everywhere.
LEMMA Trimmed ==
  ASSUME NEW table \in [Key -> {Never} \cup Nat], NEW time
  PROVE  /\ Trim(table, time) \in [Key -> {Never} \cup Nat]
         /\ \A k \in Key : Trim(table, time)[k] \in {Never, table[k]}
         /\ ~ Overfull(table) => Trim(table, time) = table
         /\ ~ Overfull(Purge(table, time)) =>
              \A k \in Key : \/ Trim(table, time)[k] = table[k]
                             \/ Overfull(table) /\ table[k] # Never /\ time - table[k] >= rule.window
<1>1. \A k \in Key : Purge(table, time)[k] =
        IF table[k] # Never /\ time - table[k] >= rule.window THEN Never ELSE table[k]
  BY DEF Purge
<1>2. Purge(table, time) \in [Key -> {Never} \cup Nat]
  BY <1>1 DEF Purge
<1>3. CASE ~ Overfull(table)
  BY <1>3 DEF Trim
<1>4. CASE Overfull(table) /\ ~ Overfull(Purge(table, time))
  <2>1. Trim(table, time) = Purge(table, time)
    BY <1>4 DEF Trim
  <2>2. QED
    BY <1>1, <1>2, <1>4, <2>1
<1>5. CASE Overfull(table) /\ Overfull(Purge(table, time))
  <2>1. Trim(table, time) = [k \in Key |-> Never]
    BY <1>5 DEF Trim
  <2>2. QED
    BY <1>5, <2>1
<1>6. QED
  BY <1>3, <1>4, <1>5

\* The table after a scan: a key keeps its time, or was selected at the time of the scan.
LEMMA ScannedTable ==
  ASSUME TypeOK, NEW t, NEW x, NEW keys, NEW time, NEW c, NEW w, NEW b,
         Serves(t, x, keys, time, c, w, b)
  PROVE  /\ x.recent \in [Key -> {Never} \cup Nat]
         /\ recent' = Trim(x.recent, time)
         /\ \A k \in Key : \/ x.recent[k] = recent[k]
                           \/ /\ x.recent[k] = time
                              /\ \E m \in 1 .. Len(x.selected) : x.selected[m] = k
         /\ \A m \in 1 .. Len(x.selected) : x.selected[m] \in Key /\ x.recent[x.selected[m]] = time
<1>1. x.selected \in Seq(Key) /\ x.recent \in [Key -> {Never} \cup Nat]
  BY DEF Serves, ScanState
<1>2. recent' = Trim(x.recent, time)
  BY DEF Serves, Leaves
<1>3. \A k \in Key : IF \E m \in 1 .. Len(x.selected) : x.selected[m] = k
                     THEN x.recent[k] = time ELSE x.recent[k] = recent[k]
  BY DEF Serves, Outcome
<1>4. \A m \in 1 .. Len(x.selected) : x.selected[m] \in Key
  BY <1>1, ElementOfSeq
<1>5. QED
  BY <1>1, <1>2, <1>3, <1>4

LEMMA TypeInit ==
  Init => TypeOK
<1> SUFFICES ASSUME Init PROVE TypeOK
  OBVIOUS
<1>1. <<>> \in Seq(Key) /\ <<>> \in Seq(Selection)
  BY EmptySeq
<1>2. QED
  BY <1>1, ConstantTypes DEF Init, TypeOK

LEMMA TypeSelect ==
  ASSUME TypeOK, NEW t \in Thread, SelectAlerting(t)
  PROVE  TypeOK'
<1>1. PICK x, keys, time, c, w, b : Serves(t, x, keys, time, c, w, b)
  BY SelectStep
<1>2. raised' \in Seq(Selection)
  BY <1>1, RaisedGrows
<1>3. x.selected \in Seq(Key) /\ x.count \in Nat /\ x.suppressed \in Nat
  BY <1>1 DEF Serves, ScanState
<1>4. recent' \in [Key -> {Never} \cup 0 .. MaxTime]
  <2>1. \A k \in Key : x.recent[k] \in {Never} \cup 0 .. MaxTime
    <3>1. recent \in [Key -> {Never} \cup 0 .. MaxTime]
      BY DEF TypeOK
    <3>2. time \in 0 .. MaxTime
      BY <1>1 DEF Serves
    <3>3. \A k \in Key : x.recent[k] = recent[k] \/ x.recent[k] = time
      BY <1>1, ScannedTable
    <3>4. QED
      BY <3>1, <3>2, <3>3
  <2>2. /\ recent' \in [Key -> {Never} \cup Nat]
        /\ \A k \in Key : recent'[k] \in {Never, x.recent[k]}
    BY <1>1, ScannedTable, Trimmed
  <2>3. QED
    BY <2>1, <2>2
<1>5. ctx' \in [Thread -> Seq(Key)] /\ batch' \in [Thread -> Seq(Key)]
  <2>1. <<>> \in Seq(Key)
    BY EmptySeq
  <2>2. QED
    BY <1>1, <1>3, <2>1 DEF Serves, Leaves, TypeOK
<1>6. /\ windowStart' \in 0 .. MaxTime /\ rateCount' \in Nat /\ suppressed' \in Nat
      /\ cleared' \in Nat /\ trims' \in Nat /\ windows' \in Nat
  <2>1. /\ windowStart' = b /\ windows' = w /\ rateCount' = x.count
        /\ suppressed' = suppressed + x.suppressed
        /\ cleared' = IF Emptied(x, time) THEN cleared + 1 ELSE cleared
        /\ trims' = IF Overfull(x.recent) THEN trims + 1 ELSE trims
        /\ b \in 0 .. MaxTime /\ w \in Nat
    BY <1>1 DEF Serves, Leaves
  <2>2. suppressed \in Nat /\ cleared \in Nat /\ trims \in Nat
    BY StateTypes
  <2>3. QED
    BY <1>3, <2>1, <2>2
<1>7. urgentSeen' \in Nat
  <2>1. PICK q \in Nat : q = Cardinality(Urgent(keys))
    <3>1. keys \in Seq(Key)
      BY <1>1 DEF Serves
    <3>2. QED
      BY <3>1, UrgentIsFinite
  <2>2. QED
    <3>1. urgentSeen' = urgentSeen + q
      BY <1>1, <2>1 DEF Serves, Leaves
    <3>2. urgentSeen \in Nat
      BY StateTypes
    <3>3. QED
      BY <3>1, <3>2
<1>8. /\ pc' \in [Thread -> {"idle", "select", "send"}]
      /\ now' \in [Thread -> 0 .. MaxTime]
  <2>1. 0 \in 0 .. MaxTime
    BY ConstantTypes
  <2>2. /\ pc' = [pc EXCEPT ![t] = IF x.selected = <<>> THEN "idle" ELSE "send"]
        /\ now' = [now EXCEPT ![t] = 0]
    BY <1>1 DEF Serves, Leaves
  <2>3. pc \in [Thread -> {"idle", "select", "send"}] /\ now \in [Thread -> 0 .. MaxTime]
    BY DEF TypeOK
  <2>4. pc' \in [Thread -> {"idle", "select", "send"}]
    BY <2>2, <2>3
  <2>5. now' \in [Thread -> 0 .. MaxTime]
    BY <2>1, <2>2, <2>3
  <2>6. QED
    BY <2>4, <2>5
<1>9. UNCHANGED <<clock, rule, ruleChanges, alerts, batches>>
  BY <1>1 DEF Serves, Leaves
<1>10. clock' \in 0 .. MaxTime /\ rule' \in Rules /\ alerts' \in Nat
       /\ batches' \in 0 .. MaxBatches /\ ruleChanges' \in 0 .. MaxRules
  BY <1>9 DEF TypeOK
<1>11. QED
  BY <1>2, <1>4, <1>5, <1>6, <1>7, <1>8, <1>10 DEF TypeOK

LEMMA TypeStep ==
  ASSUME TypeOK, [Next]_vars
  PROVE  TypeOK'
<1>1. CASE Tick
  <2>1. clock' \in 0 .. MaxTime
    <3>1. clock \in 0 .. MaxTime /\ clock < MaxTime /\ clock' = clock + 1 /\ MaxTime \in Nat
      BY <1>1, ConstantTypes DEF Tick, TypeOK
    <3>2. QED
      BY <3>1
  <2>2. QED
    BY <1>1, <2>1 DEF Tick, TypeOK, ruleVars, tableVars, statVars, histVars
<1>2. ASSUME NEW t \in Thread, NEW n \in 1 .. MaxBatch, NEW keys \in [1 .. n -> Key],
             RunAlerts(t, keys)
      PROVE  TypeOK'
  <2>1. n \in Nat
    OBVIOUS
  <2>2. keys \in Seq(Key)
    BY <2>1, SeqDef
  <2>3. batches' \in 0 .. MaxBatches
    <3>1. batches \in 0 .. MaxBatches /\ batches < MaxBatches /\ batches' = batches + 1
      BY <1>2 DEF RunAlerts, TypeOK
    <3>2. MaxBatches \in Nat
      BY ConstantTypes
    <3>3. QED
      BY <3>1, <3>2
  <2>4. pc' \in [Thread -> {"idle", "select", "send"}] /\ now' \in [Thread -> 0 .. MaxTime]
    BY <1>2 DEF RunAlerts, TypeOK
  <2>5. batch' \in [Thread -> Seq(Key)]
    BY <1>2, <2>2 DEF RunAlerts, TypeOK
  <2>6. QED
    BY <1>2, <2>3, <2>4, <2>5 DEF RunAlerts, TypeOK, ruleVars, tableVars, statVars, histVars
<1>3. ASSUME NEW t \in Thread, SelectAlerting(t)
      PROVE  TypeOK'
  BY <1>3, TypeSelect
<1>4. ASSUME NEW t \in Thread, Send(t)
      PROVE  TypeOK'
  <2>1. alerts' \in Nat
    <3>1. PICK q \in Nat : q = Len(ctx[t])
      BY LenProperties DEF TypeOK
    <3>2. QED
      BY <1>4, <3>1 DEF Send, TypeOK
  <2>2. ctx' \in [Thread -> Seq(Key)]
    BY <1>4, EmptySeq DEF Send, TypeOK
  <2>3. pc' \in [Thread -> {"idle", "select", "send"}]
    BY <1>4 DEF Send, TypeOK
  <2>4. QED
    BY <1>4, <2>1, <2>2, <2>3 DEF Send, TypeOK, ruleVars, tableVars, histVars
<1>5. ASSUME NEW r \in Rules, SetAlertRule(r)
      PROVE  TypeOK'
  <2>1. ruleChanges' \in 0 .. MaxRules /\ cleared' \in Nat
    BY <1>5, ConstantTypes DEF SetAlertRule, TypeOK
  <2>2. recent' \in [Key -> {Never} \cup 0 .. MaxTime]
    BY <1>5 DEF SetAlertRule
  <2>3. QED
    BY <1>5, <2>1, <2>2 DEF SetAlertRule, TypeOK, statVars
<1>6. CASE UNCHANGED vars
  BY <1>6 DEF vars, TypeOK, ruleVars, tableVars, statVars, histVars
<1>7. QED
  BY <1>1, <1>2, <1>3, <1>4, <1>5, <1>6 DEF Next
--------------------------------------------------------------------------------
\* Only a critical section and a new rule touch the table, the rate and their history.
LEMMA WhoTouchesTheTable ==
  ASSUME [Next]_vars
  PROVE  \/ UNCHANGED <<rule, recent, windowStart, rateCount, raised, cleared, trims, windows>>
         \/ \E t \in Thread : SelectAlerting(t)
         \/ \E r \in Rules : SetAlertRule(r)
<1> DEFINE Quiet == UNCHANGED <<rule, recent, windowStart, rateCount, raised, cleared, trims,
                                windows>>
<1>1. CASE Tick
  BY <1>1 DEF Tick, ruleVars, tableVars, histVars
<1>2. ASSUME NEW t \in Thread, NEW n \in 1 .. MaxBatch, NEW keys \in [1 .. n -> Key],
             RunAlerts(t, keys)
      PROVE  Quiet
  BY <1>2 DEF RunAlerts, ruleVars, tableVars, histVars
<1>3. ASSUME NEW t \in Thread, Send(t)
      PROVE  Quiet
  BY <1>3 DEF Send, ruleVars, tableVars, histVars
<1>4. CASE UNCHANGED vars
  BY <1>4 DEF vars, ruleVars, tableVars, histVars
<1>5. QED
  BY <1>1, <1>2, <1>3, <1>4 DEF Next

--------------------------------------------------------------------------------
\* The table: what it knows was raised, and it is within its bound.
TableInv == TableOnlyKnowsAlerts /\ TableIsBounded

LEMMA EmptyTable ==
  /\ Known([k \in Key |-> Never]) = {}
  /\ rule \in Rules => ~ Overfull([k \in Key |-> Never])
<1>1. Known([k \in Key |-> Never]) = {}
  BY DEF Known
<1>2. ASSUME rule \in Rules PROVE ~ Overfull([k \in Key |-> Never])
  <2>1. rule.cache \in Nat
    BY <1>2, ConstantTypes
  <2>2. QED
    BY <1>1, <2>1, FS_EmptySet DEF Overfull
<1>3. QED
  BY <1>1, <1>2

LEMMA TrimIsBounded ==
  ASSUME TypeOK, NEW table \in [Key -> {Never} \cup Nat], NEW time
  PROVE  ~ Overfull(Trim(table, time))
<1>1. CASE ~ Overfull(table)
  BY <1>1 DEF Trim
<1>2. CASE Overfull(table) /\ ~ Overfull(Purge(table, time))
  BY <1>2 DEF Trim
<1>3. CASE Overfull(table) /\ Overfull(Purge(table, time))
  <2>1. Trim(table, time) = [k \in Key |-> Never]
    BY <1>3 DEF Trim
  <2>2. QED
    BY <2>1, EmptyTable, StateTypes
<1>4. QED
  BY <1>1, <1>2, <1>3

LEMMA TableInit ==
  Init => TableInv
<1> SUFFICES ASSUME Init PROVE TableInv
  OBVIOUS
<1>1. Known(recent) = {} /\ ~ Overfull(recent)
  BY EmptyTable DEF Init
<1>2. QED
  BY <1>1 DEF TableInv, TableOnlyKnowsAlerts, TableIsBounded

LEMMA TableStep ==
  ASSUME TypeOK, TableInv, [Next]_vars
  PROVE  TableInv'
<1>1. CASE UNCHANGED <<rule, recent, windowStart, rateCount, raised, cleared, trims, windows>>
  BY <1>1 DEF TableInv, TableOnlyKnowsAlerts, TableIsBounded, Overfull, Known
<1>2. ASSUME NEW t \in Thread, SelectAlerting(t)
      PROVE  TableInv'
  <2>1. PICK x, keys, time, c, w, b : Serves(t, x, keys, time, c, w, b)
    BY <1>2, SelectStep
  <2>2. TableIsBounded'
    <3>1. ~ Overfull(Trim(x.recent, time))
      BY <2>1, ScannedTable, TrimIsBounded
    <3>2. recent' = Trim(x.recent, time) /\ rule' = rule
      BY <2>1 DEF Serves, Leaves
    <3>3. QED
      BY <3>1, <3>2 DEF TableIsBounded, Overfull, Known
  <2>3. TableOnlyKnowsAlerts'
    <3> SUFFICES ASSUME NEW k \in Key, recent'[k] # Never
                 PROVE  \E i \in DOMAIN raised' : raised'[i].key = k /\ raised'[i].at = recent'[k]
      BY DEF TableOnlyKnowsAlerts, Known
    <3>1. recent'[k] = x.recent[k]
      BY <2>1, ScannedTable, Trimmed
    <3>2. CASE x.recent[k] = recent[k]
      <4>1. PICK i \in DOMAIN raised : raised[i].key = k /\ raised[i].at = recent[k]
        BY <3>1, <3>2 DEF TableInv, TableOnlyKnowsAlerts, Known
      <4>2. i \in 1 .. Len(raised) /\ Len(raised) \in Nat
        BY StateTypes
      <4>3. i \in DOMAIN raised' /\ raised'[i] = raised[i]
        BY <2>1, <4>2, RaisedGrows
      <4>4. QED
        BY <3>1, <3>2, <4>1, <4>3
    <3>3. CASE x.recent[k] # recent[k]
      <4>1. x.recent[k] = time
        BY <2>1, <3>3, ScannedTable
      <4>2. PICK m \in 1 .. Len(x.selected) : x.selected[m] = k
        BY <2>1, <3>3, ScannedTable
      <4>3. PICK l \in Nat, n \in Nat : l = Len(raised) /\ n = Len(x.selected)
        BY <2>1, RaisedGrows, StateTypes
      <4>4. DOMAIN raised' = 1 .. l + n
        BY <2>1, <4>3, RaisedGrows
      <4>5. l + m \in 1 .. l + n
        BY <4>3
      <4>6. raised'[l + m].key = k /\ raised'[l + m].at = time
        <5>1. raised'[Len(raised) + m] = [key |-> x.selected[m], at |-> time, rule |-> rule,
                                          window |-> w, start |-> b, cleared |-> cleared,
                                          trims |-> trims]
          BY <2>1, RaisedGrows
        <5>2. QED
          BY <4>2, <4>3, <5>1
      <4>7. QED
        BY <3>1, <4>1, <4>4, <4>5, <4>6
    <3>4. QED
      BY <3>2, <3>3
  <2>4. QED
    BY <2>2, <2>3 DEF TableInv
<1>3. ASSUME NEW r \in Rules, SetAlertRule(r)
      PROVE  TableInv'
  <2>1. recent' = [k \in Key |-> Never] /\ rule' = r
    BY <1>3 DEF SetAlertRule
  <2>2. Known(recent') = {}
    BY <2>1, EmptyTable
  <2>3. r.cache \in Nat
    BY ConstantTypes
  <2>4. ~ (Cardinality(Known(recent')) > rule'.cache)
    BY <2>1, <2>2, <2>3, FS_EmptySet
  <2>5. QED
    BY <2>2, <2>4 DEF TableInv, TableOnlyKnowsAlerts, TableIsBounded, Overfull, Known
<1>4. QED
  BY <1>1, <1>2, <1>3, WhoTouchesTheTable

\* The table stays within dedup_cache_size and remembers nothing but alerts, for any
\* number of threads, fingerprints and rules (pipeline.cpp, select_alerting).
THEOREM TableStaysSound ==
  Spec => []TableIsSound
<1>1. Init => TypeOK /\ TableInv
  BY TypeInit, TableInit
<1>2. TypeOK /\ TableInv /\ [Next]_vars => TypeOK' /\ TableInv'
  BY TypeStep, TableStep
<1>3. TypeOK /\ TableInv => TableIsSound
  BY DEF TableInv, TableIsSound
<1>4. QED
  BY <1>1, <1>2, <1>3, PTL DEF Spec
--------------------------------------------------------------------------------
\* What is remembered of an alert since the table was last emptied: the table still knows
\* its fingerprint, or was purged at a time past its window by one that came later.
Forgotten(i) ==
  /\ raised[i].trims < trims
  /\ \E l \in DOMAIN raised : l >= i /\ raised[l].at - raised[i].at >= rule.window

StillKnown(i) == recent[raised[i].key] # Never /\ recent[raised[i].key] >= raised[i].at

Kept(i) ==
  /\ raised[i].cleared <= cleared
  /\ raised[i].trims <= trims
  /\ raised[i].cleared = cleared => raised[i].rule = rule
  /\ raised[i].cleared = cleared => StillKnown(i) \/ Forgotten(i)

MemoryInv == OneAlertUnlessOvertaken /\ \A i \in DOMAIN raised : Kept(i)

LEMMA MemoryInit ==
  Init => MemoryInv
<1> SUFFICES ASSUME Init PROVE MemoryInv
  OBVIOUS
<1>1. DOMAIN raised = {}
  BY DEF Init
<1>2. QED
  BY <1>1 DEF MemoryInv, OneAlertUnlessOvertaken

\* The fields of the selections made by a critical section.
LEMMA NewSelections ==
  ASSUME TypeOK, NEW t, NEW x, NEW keys, NEW time, NEW c, NEW w, NEW b,
         Serves(t, x, keys, time, c, w, b),
         NEW l \in Nat, NEW n \in Nat, l = Len(raised), n = Len(x.selected)
  PROVE  /\ DOMAIN raised' = 1 .. l + n
         /\ \A i \in 1 .. l : raised'[i] = raised[i]
         /\ \A i \in l + 1 .. l + n :
              /\ i - l \in 1 .. n
              /\ raised'[i].key = x.selected[i - l] /\ raised'[i].at = time
              /\ raised'[i].rule = rule /\ raised'[i].window = w /\ raised'[i].start = b
              /\ raised'[i].cleared = cleared /\ raised'[i].trims = trims
         /\ \A i \in 1 .. l + n : i \in 1 .. l \/ i \in l + 1 .. l + n
<1>1. DOMAIN raised' = 1 .. l + n /\ \A i \in 1 .. l : raised'[i] = raised[i]
  BY RaisedGrows
<1>2. ASSUME NEW i \in l + 1 .. l + n
      PROVE  /\ i - l \in 1 .. n
             /\ raised'[i] = [key |-> x.selected[i - l], at |-> time, rule |-> rule, window |-> w,
                              start |-> b, cleared |-> cleared, trims |-> trims]
  <2>1. PICK m \in 1 .. n : m = i - l
    OBVIOUS
  <2>2. l + m = i
    BY <2>1
  <2>3. raised'[Len(raised) + m] =
          [key |-> x.selected[m], at |-> time, rule |-> rule, window |-> w, start |-> b,
           cleared |-> cleared, trims |-> trims]
    BY RaisedGrows
  <2>4. QED
    BY <2>1, <2>2, <2>3
<1>3. \A i \in 1 .. l + n : i \in 1 .. l \/ i \in l + 1 .. l + n
  OBVIOUS
<1>4. ASSUME NEW i \in l + 1 .. l + n
      PROVE  /\ raised'[i].key = x.selected[i - l] /\ raised'[i].at = time
             /\ raised'[i].rule = rule /\ raised'[i].window = w /\ raised'[i].start = b
             /\ raised'[i].cleared = cleared /\ raised'[i].trims = trims
  <2>1. raised'[i] = [key |-> x.selected[i - l], at |-> time, rule |-> rule, window |-> w,
                      start |-> b, cleared |-> cleared, trims |-> trims]
    BY <1>2
  <2>2. QED
    BY <2>1
<1>5. \A i \in l + 1 .. l + n : i - l \in 1 .. n
  BY <1>2
<1>6. QED
  BY <1>1, <1>3, <1>4, <1>5

\* What the selections of a critical section have to do with the table before it.
LEMMA SelectedWhenDue ==
  ASSUME TypeOK, NEW t, NEW x, NEW keys, NEW time, NEW c, NEW w, NEW b,
         Serves(t, x, keys, time, c, w, b)
  PROVE  /\ \A m \in 1 .. Len(x.selected) :
              recent[x.selected[m]] # Never => time - recent[x.selected[m]] >= rule.window
         /\ \A m, l \in 1 .. Len(x.selected) :
              m < l /\ x.selected[m] = x.selected[l] => rule.window = 0
         /\ time \in Nat /\ rule.window \in Nat /\ rule' = rule
         /\ x.recent # recent => Len(x.selected) > 0
         /\ trims' = (IF Overfull(x.recent) THEN trims + 1 ELSE trims)
         /\ cleared' = (IF Emptied(x, time) THEN cleared + 1 ELSE cleared)
<1>1. time \in Nat /\ rule.window \in Nat /\ rule' = rule
  <2>1. rule \in Rules
    BY StateTypes
  <2>2. rule.window \in Nat
    BY <2>1, ConstantTypes
  <2>3. time \in 0 .. MaxTime /\ rule' = rule
    BY DEF Serves, Leaves
  <2>4. QED
    BY <2>2, <2>3
<1>2. x.recent # recent => Len(x.selected) > 0
  <2> SUFFICES ASSUME x.recent # recent PROVE Len(x.selected) > 0
    OBVIOUS
  <2>1. x.recent \in [Key -> {Never} \cup Nat] /\ recent \in [Key -> {Never} \cup Nat]
    BY ScannedTable, StateTypes
  <2>2. PICK k \in Key : x.recent[k] # recent[k]
    BY <2>1
  <2>3. PICK n \in Nat : n = Len(x.selected)
    BY RaisedGrows
  <2>4. \E m \in 1 .. n : x.selected[m] = k
    BY <2>2, <2>3, ScannedTable
  <2>5. QED
    BY <2>3, <2>4
<1>3. QED
  BY <1>1, <1>2 DEF Serves, Leaves, Outcome

\* An alert raised before the critical section is still remembered after it.
LEMMA KeptThroughSelect ==
  ASSUME TypeOK, TableInv, MemoryInv, NEW t, NEW x, NEW keys, NEW time, NEW c, NEW w, NEW b,
         Serves(t, x, keys, time, c, w, b), NEW i \in DOMAIN raised
  PROVE  Kept(i)'
<1>1. PICK l \in Nat, n \in Nat : l = Len(raised) /\ n = Len(x.selected)
  BY RaisedGrows, StateTypes
<1>2. i \in 1 .. l /\ raised[i] \in Selection
  BY <1>1, StateTypes
<1>3. raised'[i] = raised[i] /\ DOMAIN raised' = 1 .. l + n
  BY <1>1, <1>2, NewSelections
<1>4. PICK k \in Key, at \in Nat : k = raised[i].key /\ at = raised[i].at
  BY <1>2 DEF Selection
<1>5. /\ raised[i].cleared \in Nat /\ raised[i].trims \in Nat
      /\ cleared \in Nat /\ trims \in Nat
  BY <1>2, StateTypes DEF Selection
<1>6. /\ trims' = IF Overfull(x.recent) THEN trims + 1 ELSE trims
      /\ cleared' = IF Emptied(x, time) THEN cleared + 1 ELSE cleared
      /\ time \in Nat /\ rule.window \in Nat /\ rule' = rule
  BY SelectedWhenDue
<1>7. Kept(i)
  BY DEF MemoryInv
<1>8. raised'[i].cleared <= cleared' /\ raised'[i].trims <= trims'
  BY <1>3, <1>5, <1>6, <1>7 DEF Kept
<1>9. ASSUME raised'[i].cleared = cleared'
      PROVE  raised'[i].rule = rule' /\ (StillKnown(i)' \/ Forgotten(i)')
  <2>1. raised[i].cleared = cleared /\ ~ Emptied(x, time)
    BY <1>3, <1>5, <1>6, <1>7, <1>9 DEF Kept
  <2>2. raised[i].rule = rule /\ (StillKnown(i) \/ Forgotten(i))
    BY <1>7, <2>1 DEF Kept
  <2>3. CASE Forgotten(i)
    <3>1. PICK j \in DOMAIN raised : j >= i /\ raised[j].at - at >= rule.window
      BY <1>4, <2>3 DEF Forgotten
    <3>2. j \in 1 .. l
      BY <1>1, StateTypes
    <3>3. raised'[j] = raised[j] /\ j \in DOMAIN raised'
      BY <1>1, <1>3, <3>2, NewSelections
    <3>4. raised[i].trims < trims'
      BY <1>5, <1>6, <2>3 DEF Forgotten
    <3>5. Forgotten(i)'
      BY <1>3, <1>4, <1>6, <3>1, <3>3, <3>4 DEF Forgotten
    <3>6. QED
      BY <1>3, <1>6, <2>2, <3>5
  <2>4. CASE StillKnown(i)
    <3>1. PICK r \in Nat : r = recent[k] /\ r >= at
      <4>1. recent[k] \in {Never} \cup Nat
        BY StateTypes
      <4>2. QED
        BY <1>4, <2>4, <4>1 DEF StillKnown
    <3>2. PICK q \in Nat : q = x.recent[k] /\ q >= at
      <4>1. CASE x.recent[k] = recent[k]
        BY <3>1, <4>1
      <4>2. CASE x.recent[k] # recent[k]
        <5>1. PICK m \in 1 .. Len(x.selected) : x.selected[m] = k
          BY <4>2, ScannedTable
        <5>2. x.recent[k] = time
          BY <4>2, ScannedTable
        <5>3. r # Never
          BY DEF Never
        <5>4. time - r >= rule.window
          BY <3>1, <5>1, <5>3, SelectedWhenDue
        <5>5. time >= at
          BY <1>6, <3>1, <5>4
        <5>6. QED
          BY <1>6, <5>2, <5>5
      <4>3. QED
        BY <4>1, <4>2
    <3>3. q # Never
      BY DEF Never
    <3>4. CASE recent'[k] = x.recent[k]
      <4>1. StillKnown(i)'
        BY <1>3, <1>4, <3>2, <3>3, <3>4 DEF StillKnown
      <4>2. QED
        BY <1>3, <1>6, <2>2, <4>1
    <3>5. CASE recent'[k] # x.recent[k]
      <4>1. x.recent \in [Key -> {Never} \cup Nat] /\ recent' = Trim(x.recent, time)
        BY ScannedTable
      <4>2. Overfull(x.recent)
        BY <3>5, <4>1, Trimmed
      <4>3. ~ Overfull(Purge(x.recent, time))
        BY <2>1, <4>2 DEF Emptied
      <4>4. time - x.recent[k] >= rule.window
        BY <3>5, <4>1, <4>3, Trimmed
      <4>5. x.recent # recent
        BY <4>2 DEF TableInv, TableIsBounded
      <4>6. n > 0
        BY <1>1, <4>5, SelectedWhenDue
      <4>7. l + 1 \in DOMAIN raised' /\ raised'[l + 1].at = time
        <5>1. l + 1 \in l + 1 .. l + n /\ l + 1 \in 1 .. l + n
          BY <4>6
        <5>2. QED
          BY <1>1, <1>3, <5>1, NewSelections
      <4>8. l + 1 >= i
        BY <1>2
      <4>9. time - at >= rule.window
        BY <1>6, <3>2, <4>4
      <4>10. raised[i].trims < trims'
        BY <1>5, <1>6, <1>7, <4>2 DEF Kept
      <4>11. Forgotten(i)'
        BY <1>3, <1>4, <1>6, <4>7, <4>8, <4>9, <4>10 DEF Forgotten
      <4>12. QED
        BY <1>3, <1>6, <2>2, <4>11
    <3>6. QED
      BY <3>4, <3>5
  <2>5. QED
    BY <2>2, <2>3, <2>4
<1>10. QED
  BY <1>8, <1>9 DEF Kept

\* An alert raised by the critical section is remembered after it.
LEMMA KeptFromSelect ==
  ASSUME TypeOK, NEW t, NEW x, NEW keys, NEW time, NEW c, NEW w, NEW b,
         Serves(t, x, keys, time, c, w, b), NEW i \in DOMAIN raised', i > Len(raised)
  PROVE  Kept(i)'
<1>1. PICK l \in Nat, n \in Nat : l = Len(raised) /\ n = Len(x.selected)
  BY RaisedGrows, StateTypes
<1>2. i \in l + 1 .. l + n
  <2>1. DOMAIN raised' = 1 .. l + n
    BY <1>1, NewSelections
  <2>2. QED
    BY <1>1, <2>1
<1>3. PICK m \in 1 .. n : m = i - l
  BY <1>2
<1>4. /\ raised'[i].key = x.selected[m] /\ raised'[i].at = time /\ raised'[i].rule = rule
      /\ raised'[i].cleared = cleared /\ raised'[i].trims = trims
  <2>1. /\ raised'[i].key = x.selected[i - l] /\ raised'[i].at = time /\ raised'[i].rule = rule
        /\ raised'[i].cleared = cleared /\ raised'[i].trims = trims
    BY <1>1, <1>2, NewSelections
  <2>2. QED
    BY <1>3, <2>1
<1>5. PICK k \in Key : k = x.selected[m] /\ x.recent[k] = time
  BY <1>1, ScannedTable
<1>6. /\ trims' = IF Overfull(x.recent) THEN trims + 1 ELSE trims
      /\ cleared' = IF Emptied(x, time) THEN cleared + 1 ELSE cleared
      /\ time \in Nat /\ rule.window \in Nat /\ rule' = rule
  BY SelectedWhenDue
<1>7. cleared \in Nat /\ trims \in Nat
  BY StateTypes
<1>8. raised'[i].cleared <= cleared' /\ raised'[i].trims <= trims'
  BY <1>4, <1>6, <1>7
<1>9. ASSUME raised'[i].cleared = cleared'
      PROVE  StillKnown(i)' \/ Forgotten(i)'
  <2>1. ~ Emptied(x, time)
    BY <1>4, <1>6, <1>7, <1>9
  <2>2. CASE recent'[k] = x.recent[k]
    <3>1. time # Never
      BY <1>6 DEF Never
    <3>2. StillKnown(i)'
      BY <1>4, <1>5, <1>6, <2>2, <3>1 DEF StillKnown
    <3>3. QED
      BY <3>2
  <2>3. CASE recent'[k] # x.recent[k]
    <3>1. x.recent \in [Key -> {Never} \cup Nat] /\ recent' = Trim(x.recent, time)
      BY ScannedTable
    <3>2. Overfull(x.recent)
      BY <2>3, <3>1, Trimmed
    <3>3. ~ Overfull(Purge(x.recent, time))
      BY <2>1, <3>2 DEF Emptied
    <3>4. time - x.recent[k] >= rule.window
      BY <2>3, <3>1, <3>3, Trimmed
    <3>5. trims < trims'
      BY <1>6, <1>7, <3>2
    <3>6. time - time >= rule.window /\ i >= i
      BY <1>2, <1>5, <3>4
    <3>7. Forgotten(i)'
      BY <1>4, <1>6, <3>5, <3>6 DEF Forgotten
    <3>8. QED
      BY <3>7
  <2>4. QED
    BY <2>2, <2>3
<1>10. QED
  BY <1>4, <1>6, <1>8, <1>9 DEF Kept

LEMMA MemoryStep ==
  ASSUME TypeOK, TableInv, MemoryInv, [Next]_vars
  PROVE  MemoryInv'
<1>1. CASE UNCHANGED <<rule, recent, windowStart, rateCount, raised, cleared, trims, windows>>
  BY <1>1 DEF MemoryInv, OneAlertUnlessOvertaken, Repeated, Apart, Overtaken, Kept, StillKnown,
              Forgotten
<1>2. ASSUME NEW t \in Thread, SelectAlerting(t)
      PROVE  MemoryInv'
  <2>1. PICK x, keys, time, c, w, b : Serves(t, x, keys, time, c, w, b)
    BY <1>2, SelectStep
  <2>2. PICK l \in Nat, n \in Nat : l = Len(raised) /\ n = Len(x.selected)
    BY <2>1, RaisedGrows, StateTypes
  <2>6. /\ DOMAIN raised' = 1 .. l + n
        /\ \A i \in 1 .. l : raised'[i] = raised[i]
        /\ \A i \in l + 1 .. l + n :
             /\ i - l \in 1 .. n
             /\ raised'[i].key = x.selected[i - l] /\ raised'[i].at = time
             /\ raised'[i].rule = rule /\ raised'[i].window = w /\ raised'[i].start = b
             /\ raised'[i].cleared = cleared /\ raised'[i].trims = trims
        /\ \A i \in 1 .. l + n : i \in 1 .. l \/ i \in l + 1 .. l + n
    <3>1. l = Len(raised) /\ n = Len(x.selected)
      BY <2>2
    <3>2. QED
      BY <2>1, <3>1, NewSelections, SMTT(60)
  <2>3. DOMAIN raised = 1 .. l /\ DOMAIN raised' = 1 .. l + n
    BY <2>2, <2>6, StateTypes
  <2>7. ASSUME NEW i \in l + 1 .. l + n
        PROVE  /\ raised'[i].key = x.selected[i - l] /\ raised'[i].at = time
               /\ raised'[i].rule = rule /\ raised'[i].cleared = cleared /\ raised'[i].trims = trims
    BY <2>6
  <2>4. \A i \in DOMAIN raised' : Kept(i)'
    <3> SUFFICES ASSUME NEW i \in DOMAIN raised' PROVE Kept(i)'
      OBVIOUS
    <3>1. CASE i <= l
      <4>1. i \in DOMAIN raised
        BY <2>3, <3>1
      <4>2. QED
        BY <2>1, <4>1, KeptThroughSelect
    <3>2. CASE i > l
      BY <2>1, <2>2, <3>2, KeptFromSelect
    <3>3. QED
      BY <2>3, <3>1, <3>2
  <2>5. OneAlertUnlessOvertaken'
    <3> SUFFICES ASSUME NEW i \in 1 .. l + n, NEW j \in 1 .. l + n, Repeated(i, j)', ~ Apart(i, j)'
                 PROVE  Overtaken(i, j)'
      BY <2>3 DEF OneAlertUnlessOvertaken
    <3>1. i < j
      BY DEF Repeated
    <3>2. CASE j <= l
      <4>1. i \in DOMAIN raised /\ j \in DOMAIN raised /\ j \in 1 .. l /\ i \in 1 .. l
        BY <2>3, <3>1, <3>2
      <4>2. \A q \in 1 .. l : raised'[q] = raised[q]
        BY <2>1, <2>2, NewSelections
      <4>3. Repeated(i, j) /\ ~ Apart(i, j)
        BY <4>1, <4>2 DEF Repeated, Apart
      <4>4. Overtaken(i, j)
        BY <4>1, <4>3 DEF MemoryInv, OneAlertUnlessOvertaken
      <4>5. PICK k \in i .. j - 1 : /\ raised[k].at > raised[j].at
                                    /\ raised[k].at - raised[i].at >= raised[j].rule.window
        BY <4>4 DEF Overtaken
      <4>6. k \in 1 .. l
        BY <4>1
      <4>7. QED
        BY <4>1, <4>2, <4>4, <4>5, <4>6 DEF Overtaken
    <3>3. CASE j > l
      <4>1. j \in l + 1 .. l + n /\ j - l \in 1 .. n
        BY <3>3
      <4>2. /\ raised'[j].key = x.selected[j - l] /\ raised'[j].at = time
            /\ raised'[j].rule = rule /\ raised'[j].cleared = cleared /\ raised'[j].trims = trims
        BY <2>7, <4>1
      <4>3. time \in Nat /\ rule.window \in Nat
        BY <2>1, SelectedWhenDue
      <4>4. CASE i > l
        <5>1. i \in l + 1 .. l + n /\ i - l \in 1 .. n /\ i - l < j - l
          BY <3>1, <4>1, <4>4
        <5>2. raised'[i].key = x.selected[i - l] /\ raised'[i].at = time
          BY <2>7, <5>1
        <5>3. x.selected[i - l] = x.selected[j - l]
          BY <4>2, <5>2 DEF Repeated
        <5>4. rule.window = 0
          BY <2>1, <2>2, <4>1, <5>1, <5>3, SelectedWhenDue
        <5>5. Apart(i, j)'
          BY <4>2, <4>3, <5>2, <5>4 DEF Apart
        <5>6. QED
          BY <5>5
      <4>5. CASE i <= l
        <5>1. i \in 1 .. l /\ i \in DOMAIN raised
          BY <2>3, <4>5
        <5>2. raised'[i] = raised[i]
          BY <2>1, <2>2, <5>1, NewSelections
        <5>3. raised[i].key = x.selected[j - l] /\ raised[i].cleared = cleared
          BY <4>2, <5>2 DEF Repeated
        <5>4. PICK k \in Key, at \in Nat : k = raised[i].key /\ at = raised[i].at
          <6>1. raised[i] \in Selection
            BY <5>1, StateTypes
          <6>2. QED
            BY <6>1 DEF Selection
        <5>5. ~ (time - at >= rule.window)
          BY <4>2, <5>2, <5>4 DEF Apart
        <5>6. StillKnown(i) \/ Forgotten(i)
          BY <5>1, <5>3 DEF MemoryInv, Kept
        <5>7. CASE StillKnown(i)
          <6>1. PICK r \in Nat : r = recent[k] /\ r >= at
            <7>1. recent[k] \in {Never} \cup Nat
              BY StateTypes
            <7>2. QED
              BY <5>4, <5>7, <7>1 DEF StillKnown
          <6>2. r # Never
            BY DEF Never
          <6>3. time - r >= rule.window
            BY <2>1, <2>2, <4>1, <5>3, <5>4, <6>1, <6>2, SelectedWhenDue
          <6>4. QED
            BY <4>3, <5>5, <6>1, <6>3
        <5>8. CASE Forgotten(i)
          <6>1. PICK q \in DOMAIN raised : q >= i /\ raised[q].at - at >= rule.window
            BY <5>4, <5>8 DEF Forgotten
          <6>2. PICK late \in Nat : late = raised[q].at
            <7>1. raised[q] \in Selection
              BY StateTypes
            <7>2. QED
              BY <7>1 DEF Selection
          <6>3. late > time /\ late - at >= rule.window
            BY <4>3, <5>5, <6>1, <6>2
          <6>4. q \in 1 .. l /\ q \in i .. j - 1
            BY <2>3, <4>1, <6>1
          <6>5. raised'[q] = raised[q]
            BY <2>1, <2>2, <6>4, NewSelections
          <6>6. raised'[i].trims # raised'[j].trims
            <7>1. raised[i].trims < trims /\ trims \in Nat
              BY <5>8, StateTypes DEF Forgotten
            <7>2. raised[i].trims \in Nat
              BY <5>1, StateTypes DEF Selection
            <7>3. QED
              BY <4>2, <5>2, <7>1, <7>2
          <6>7. QED
            BY <4>2, <5>2, <5>4, <6>2, <6>3, <6>4, <6>5, <6>6 DEF Overtaken
        <5>9. QED
          BY <5>6, <5>7, <5>8
      <4>6. QED
        BY <4>4, <4>5
    <3>4. QED
      BY <3>2, <3>3
  <2>8. QED
    BY <2>4, <2>5 DEF MemoryInv
<1>3. ASSUME NEW r \in Rules, SetAlertRule(r)
      PROVE  MemoryInv'
  <2>1. cleared' = cleared + 1 /\ UNCHANGED <<raised, trims>>
    BY <1>3 DEF SetAlertRule
  <2>2. OneAlertUnlessOvertaken'
    BY <2>1 DEF MemoryInv, OneAlertUnlessOvertaken, Repeated, Apart, Overtaken
  <2>3. \A i \in DOMAIN raised : Kept(i)'
    <3> SUFFICES ASSUME NEW i \in DOMAIN raised PROVE Kept(i)'
      OBVIOUS
    <3>1. raised[i].cleared \in Nat /\ cleared \in Nat
      BY StateTypes DEF Selection
    <3>2. raised[i].cleared <= cleared /\ raised[i].trims <= trims
      BY DEF MemoryInv, Kept
    <3>3. raised[i].cleared <= cleared + 1 /\ raised[i].cleared # cleared + 1
      BY <3>1, <3>2
    <3>4. QED
      BY <2>1, <3>2, <3>3 DEF Kept
  <2>4. QED
    BY <2>1, <2>2, <2>3 DEF MemoryInv
<1>4. QED
  BY <1>1, <1>2, <1>3, WhoTouchesTheTable

\* One alert per fingerprint and window, unless the table was emptied or a thread that read
\* its time later purged it (pipeline.cpp, select_alerting).
THEOREM AlertsAreNotRepeated ==
  Spec => []OneAlertUnlessOvertaken
<1>1. Init => TypeOK /\ TableInv /\ MemoryInv
  BY TypeInit, TableInit, MemoryInit
<1>2. TypeOK /\ TableInv /\ MemoryInv /\ [Next]_vars => TypeOK' /\ TableInv' /\ MemoryInv'
  BY TypeStep, TableStep, MemoryStep
<1>3. MemoryInv => OneAlertUnlessOvertaken
  BY DEF MemoryInv
<1>4. QED
  BY <1>1, <1>2, <1>3, PTL DEF Spec
--------------------------------------------------------------------------------
\* The rate windows follow each other a minute apart or more; a time is before the end of
\* the window it is counted in.
Placed(i) ==
  /\ raised[i].window <= windows
  /\ raised[i].at - raised[i].start < Minute
  /\ raised[i].window = windows => raised[i].start = windowStart
  /\ raised[i].window < windows => raised[i].start + Minute <= windowStart

Follows(i, j) ==
  /\ raised[i].window <= raised[j].window
  /\ raised[i].window < raised[j].window => raised[i].start + Minute <= raised[j].start

ThisWindow == {i \in DOMAIN raised : raised[i].window = windows}

RateInv ==
  /\ \A i \in DOMAIN raised : Placed(i)
  /\ \A i, j \in DOMAIN raised : i < j => Follows(i, j)
  /\ rateCount = Cardinality(ThisWindow)
  /\ RateWindowIsCapped

LEMMA SelectionTypes ==
  ASSUME TypeOK, NEW i \in DOMAIN raised
  PROVE  /\ raised[i].at \in Nat /\ raised[i].window \in Nat /\ raised[i].start \in Nat
         /\ raised[i].rule \in Rule /\ raised[i].rule.max \in Nat
         /\ i \in 1 .. Len(raised)
<1>1. raised[i] \in Selection /\ i \in 1 .. Len(raised)
  BY StateTypes
<1>2. raised[i].rule \in Rule
  BY <1>1 DEF Selection
<1>3. QED
  BY <1>1, <1>2 DEF Selection, Rule

LEMMA RateInit ==
  Init => RateInv
<1> SUFFICES ASSUME Init PROVE RateInv
  OBVIOUS
<1>1. DOMAIN raised = {} /\ rateCount = 0
  BY DEF Init
<1>2. ThisWindow = {}
  BY <1>1 DEF ThisWindow
<1>3. QED
  BY <1>1, <1>2, FS_EmptySet DEF RateInv, RateWindowIsCapped

LEMMA RateSelect ==
  ASSUME TypeOK, RateInv, NEW t \in Thread, SelectAlerting(t)
  PROVE  RateInv'
<1>1. PICK x, keys, time, c, w, b : Serves(t, x, keys, time, c, w, b)
  BY SelectStep
<1>2. PICK l \in Nat, n \in Nat : l = Len(raised) /\ n = Len(x.selected)
  BY <1>1, RaisedGrows, StateTypes
<1>3. DOMAIN raised = 1 .. l /\ DOMAIN raised' = 1 .. l + n
  BY <1>1, <1>2, NewSelections, StateTypes
<1>4. \A i \in 1 .. l : raised'[i] = raised[i]
  BY <1>1, <1>2, NewSelections
<1>5. \A i \in l + 1 .. l + n :
        /\ raised'[i].at = time /\ raised'[i].rule = rule
        /\ raised'[i].window = w /\ raised'[i].start = b
  BY <1>1, <1>2, NewSelections
<1>6. \A i \in 1 .. l + n : i \in 1 .. l \/ i \in l + 1 .. l + n
  OBVIOUS
<1>7. /\ c \in Nat /\ w \in Nat /\ b \in Nat /\ time \in Nat
      /\ windowStart' = b /\ windows' = w /\ rateCount' = x.count
  BY <1>1, ConstantTypes DEF Serves, Leaves
<1>8. \/ /\ time - windowStart >= Minute
         /\ c = 0 /\ w = windows + 1 /\ b = time
      \/ /\ ~ (time - windowStart >= Minute)
         /\ c = rateCount /\ w = windows /\ b = windowStart
  BY <1>1 DEF Serves, RateWindow
<1>9. windowStart \in Nat /\ windows \in Nat /\ Minute \in Nat /\ Minute > 0
  BY ConstantTypes, StateTypes
<1>10. rateCount' = c + n
  BY <1>1, <1>2, <1>7 DEF Serves, Outcome
<1>11. \A i \in 1 .. l : raised[i].at \in Nat /\ raised[i].window \in Nat /\ raised[i].start \in Nat
  BY <1>3, SelectionTypes
<1>12. \A i \in 1 .. l : Placed(i)
  BY <1>3 DEF RateInv
\* An earlier alert is placed before or in the window of the new ones.
<1>13. ASSUME NEW i \in 1 .. l
       PROVE  /\ raised[i].window <= w
              /\ raised[i].at - raised[i].start < Minute
              /\ raised[i].window = w => raised[i].start = b
              /\ raised[i].window < w => raised[i].start + Minute <= b
  <2>1. PICK a \in Nat, v \in Nat, s \in Nat :
          a = raised[i].at /\ v = raised[i].window /\ s = raised[i].start
    BY <1>11
  <2>2. /\ v <= windows /\ a - s < Minute /\ (v = windows => s = windowStart)
        /\ (v < windows => s + Minute <= windowStart)
    BY <1>12, <2>1 DEF Placed
  <2>3. v <= w /\ (v = w => s = b) /\ (v < w => s + Minute <= b)
    BY <1>7, <1>8, <1>9, <2>2
  <2>4. QED
    BY <2>1, <2>2, <2>3
<1>14. \A i \in 1 .. l + n : Placed(i)'
  <2> SUFFICES ASSUME NEW i \in 1 .. l + n PROVE Placed(i)'
    OBVIOUS
  <2>1. CASE i \in 1 .. l
    BY <1>4, <1>7, <1>13, <2>1 DEF Placed
  <2>2. CASE i \in l + 1 .. l + n
    <3>1. time - b < Minute
      BY <1>7, <1>8, <1>9
    <3>2. QED
      BY <1>5, <1>7, <2>2, <3>1 DEF Placed
  <2>3. QED
    BY <1>6, <2>1, <2>2
<1>15. \A i, j \in 1 .. l + n : i < j => Follows(i, j)'
  <2> SUFFICES ASSUME NEW i \in 1 .. l + n, NEW j \in 1 .. l + n, i < j PROVE Follows(i, j)'
    OBVIOUS
  <2>1. CASE j \in 1 .. l
    <3>1. i \in 1 .. l
      BY <2>1
    <3>2. Follows(i, j)
      BY <1>3, <2>1, <3>1 DEF RateInv
    <3>3. QED
      BY <1>4, <2>1, <3>1, <3>2 DEF Follows
  <2>2. CASE j \in l + 1 .. l + n /\ i \in 1 .. l
    BY <1>4, <1>5, <1>13, <2>2 DEF Follows
  <2>3. CASE j \in l + 1 .. l + n /\ i \in l + 1 .. l + n
    BY <1>5, <1>7, <2>3 DEF Follows
  <2>4. QED
    BY <1>6, <2>1, <2>2, <2>3
\* The number of alerts in the window of the new ones, up to the m-th of them.
<1>16. ASSUME NEW m \in 0 .. n
       PROVE  Cardinality({j \in 1 .. l + m : raised'[j].window = w}) = c + m
  <2> DEFINE old == {j \in 1 .. l : raised[j].window = w}
             new == l + 1 .. l + m
  <2>1. {j \in 1 .. l + m : raised'[j].window = w} = old \cup new
    <3>1. \A j \in 1 .. l + m : j \in 1 .. l \/ j \in l + 1 .. l + m
      OBVIOUS
    <3>2. \A j \in l + 1 .. l + m : j \in l + 1 .. l + n /\ j \in 1 .. l + m
      OBVIOUS
    <3>3. \A j \in 1 .. l : j \in 1 .. l + m
      OBVIOUS
    <3>4. QED
      BY <1>4, <1>5, <3>1, <3>2, <3>3
  <2>2. IsFiniteSet(old) /\ Cardinality(old) = c
    <3>1. IsFiniteSet(old)
      <4>1. IsFiniteSet(1 .. l) /\ old \subseteq 1 .. l
        BY FS_Interval
      <4>2. QED
        BY <4>1, FS_Subset
    <3>2. CASE c = 0 /\ w = windows + 1
      <4>1. old = {}
        BY <1>9, <1>11, <1>12, <3>2 DEF Placed
      <4>2. QED
        BY <3>1, <3>2, <4>1, FS_EmptySet
    <3>3. CASE c = rateCount /\ w = windows
      <4>1. old = ThisWindow
        BY <1>3, <3>3 DEF ThisWindow
      <4>2. QED
        BY <3>1, <3>3, <4>1 DEF RateInv
    <3>4. QED
      BY <1>8, <3>2, <3>3
  <2>3. IsFiniteSet(new) /\ Cardinality(new) = m
    BY FS_Interval
  <2>4. old \cap new = {} /\ Cardinality(old \cap new) = 0
    <3>1. old \cap new = {}
      OBVIOUS
    <3>2. QED
      BY <3>1, FS_EmptySet
  <2> HIDE DEF old, new
  <2>5. Cardinality(old \cup new) = c + m
    BY <1>7, <2>2, <2>3, <2>4, FS_Union
  <2>6. QED
    BY <2>1, <2>5
<1>17. rateCount' = Cardinality(ThisWindow)'
  <2>1. n \in 0 .. n
    OBVIOUS
  <2>2. Cardinality({j \in 1 .. l + n : raised'[j].window = w}) = c + n
    BY <1>16, <2>1
  <2>3. ThisWindow' = {j \in 1 .. l + n : raised'[j].window = w}
    BY <1>3, <1>7 DEF ThisWindow
  <2>4. QED
    BY <1>10, <2>2, <2>3
<1>18. RateWindowIsCapped'
  <2> SUFFICES ASSUME NEW i \in 1 .. l + n, raised'[i].rule.max > 0
               PROVE  Cardinality(InWindow(raised[i].window, i)') <= raised'[i].rule.max
    BY <1>3 DEF RateWindowIsCapped
  <2>1. CASE i \in 1 .. l
    <3>1. raised'[i] = raised[i] /\ i \in DOMAIN raised
      BY <1>3, <1>4, <2>1
    <3>2. InWindow(raised[i].window, i)' = InWindow(raised[i].window, i)
      <4>1. \A j \in 1 .. i : j \in 1 .. l
        BY <2>1
      <4>2. QED
        BY <1>4, <3>1, <4>1 DEF InWindow
    <3>3. QED
      BY <3>1, <3>2 DEF RateInv, RateWindowIsCapped
  <2>2. CASE i \in l + 1 .. l + n
    <3>1. PICK m \in 1 .. n : i = l + m
      <4>1. i - l \in 1 .. n /\ i = l + (i - l)
        BY <2>2
      <4>2. QED
        BY <4>1
    <3>2. raised'[i].rule = rule /\ raised'[i].window = w
      BY <1>5, <2>2
    <3>3. c + m <= rule.max
      BY <1>1, <1>2, <3>2 DEF Serves, Outcome
    <3>4. m \in 0 .. n
      OBVIOUS
    <3>5. Cardinality({j \in 1 .. l + m : raised'[j].window = w}) = c + m
      BY <1>16, <3>4
    <3>6. InWindow(raised[i].window, i)' = {j \in 1 .. l + m : raised'[j].window = w}
      BY <3>1, <3>2 DEF InWindow
    <3>7. QED
      BY <3>2, <3>3, <3>5, <3>6
  <2>3. QED
    BY <1>6, <2>1, <2>2
<1>19. QED
  BY <1>3, <1>14, <1>15, <1>17, <1>18 DEF RateInv

LEMMA RateStep ==
  ASSUME TypeOK, RateInv, [Next]_vars
  PROVE  RateInv'
<1>1. CASE UNCHANGED <<rule, recent, windowStart, rateCount, raised, cleared, trims, windows>>
  BY <1>1 DEF RateInv, Placed, Follows, ThisWindow, RateWindowIsCapped, InWindow
<1>2. ASSUME NEW r \in Rules, SetAlertRule(r)
      PROVE  RateInv'
  <2>1. UNCHANGED <<windowStart, rateCount, raised, windows>>
    BY <1>2 DEF SetAlertRule
  <2>2. QED
    BY <2>1 DEF RateInv, Placed, Follows, ThisWindow, RateWindowIsCapped, InWindow
<1>3. QED
  BY <1>1, <1>2, RateSelect, WhoTouchesTheTable
--------------------------------------------------------------------------------
\* Sizes of disjoint sets add up.
LEMMA Disjoint ==
  ASSUME NEW S, NEW T, IsFiniteSet(S), IsFiniteSet(T), S \cap T = {}
  PROVE  /\ IsFiniteSet(S \cup T)
         /\ Cardinality(S) \in Nat /\ Cardinality(T) \in Nat
         /\ Cardinality(S \cup T) = Cardinality(S) + Cardinality(T)
<1>1. PICK a \in Nat, b \in Nat : a = Cardinality(S) /\ b = Cardinality(T)
  BY FS_CardinalityType
<1>2. Cardinality(S \cap T) = 0
  BY FS_EmptySet
<1>3. IsFiniteSet(S \cup T) /\ Cardinality(S \cup T) = a + b - 0
  BY <1>1, <1>2, FS_Union
<1>4. QED
  BY <1>1, <1>3

\* The entries of a set that lie in one window, with a last one, are no more than the limit
\* the last one was selected under.
LEMMA OneWindowIsCapped ==
  ASSUME TypeOK, RateInv, NEW S \in SUBSET (DOMAIN raised), NEW max \in Nat, NEW l \in S,
         \A i \in S : i <= l /\ raised[i].window = raised[l].window,
         raised[l].rule.max \in 1 .. max
  PROVE  IsFiniteSet(S) /\ Cardinality(S) <= max /\ Cardinality(S) \in Nat
<1>1. l \in 1 .. Len(raised) /\ l \in DOMAIN raised /\ Len(raised) \in Nat
  BY StateTypes
<1>2. PICK last \in Nat : last = l
  BY <1>1
<1>3. IsFiniteSet(InWindow(raised[l].window, l)) /\ Cardinality(InWindow(raised[l].window, l)) \in Nat
  <2>1. InWindow(raised[l].window, l) \subseteq 1 .. last
    BY <1>2 DEF InWindow
  <2>2. QED
    BY <2>1, PartOfInterval
<1>4. S \subseteq InWindow(raised[l].window, l)
  <2> SUFFICES ASSUME NEW i \in S PROVE i \in InWindow(raised[l].window, l)
    OBVIOUS
  <2>1. i \in 1 .. Len(raised)
    BY StateTypes
  <2>2. i \in 1 .. l /\ raised[i].window = raised[l].window
    BY <1>1, <2>1
  <2>3. QED
    BY <2>2 DEF InWindow
<1>5. IsFiniteSet(S) /\ Cardinality(S) <= Cardinality(InWindow(raised[l].window, l))
  BY <1>3, <1>4, FS_Subset
<1>6. raised[l].rule.max > 0 /\ raised[l].rule.max <= max /\ raised[l].rule.max \in Nat
  OBVIOUS
<1>7. Cardinality(InWindow(raised[l].window, l)) <= raised[l].rule.max
  BY <1>1, <1>6 DEF RateInv, RateWindowIsCapped
<1>8. Cardinality(S) \in Nat
  BY <1>5, FS_CardinalityType
<1>9. QED
  BY <1>3, <1>5, <1>6, <1>7, <1>8

\* A minute reaches into two rate windows at most.
LEMMA TwoWindowsInAMinute ==
  ASSUME TypeOK, RateInv
  PROVE  AnyMinuteIsCapped
<1> SUFFICES ASSUME NEW m \in 0 .. MaxTime, NEW r \in Rules,
                    \A i \in InMinute(m) : raised[i].rule.max \in 1 .. r.max
             PROVE  Cardinality(InMinute(m)) <= 2 * r.max
  BY DEF AnyMinuteIsCapped
<1>1. PICK max \in Nat : max = r.max
  BY ConstantTypes
<1>2. PICK n \in Nat : n = Len(raised) /\ DOMAIN raised = 1 .. n
  BY StateTypes
<1>3. PICK S \in SUBSET (1 .. n) : S = InMinute(m)
  BY <1>2 DEF InMinute
<1>4. Minute \in Nat /\ Minute > 0 /\ m \in Nat
  BY ConstantTypes
<1>5. \A i \in 1 .. n : /\ raised[i].at \in Nat /\ raised[i].window \in Nat
                        /\ raised[i].start \in Nat
  BY <1>2, SelectionTypes
<1>6. \A i \in S : /\ raised[i].at >= m /\ raised[i].at <= m + Minute - 1
                   /\ raised[i].at >= raised[i].start
                   /\ raised[i].at < raised[i].start + Minute
                   /\ raised[i].rule.max \in 1 .. max
  <2> SUFFICES ASSUME NEW i \in S
               PROVE  /\ raised[i].at >= m /\ raised[i].at <= m + Minute - 1
                      /\ raised[i].at >= raised[i].start
                      /\ raised[i].at < raised[i].start + Minute
                      /\ raised[i].rule.max \in 1 .. max
    OBVIOUS
  <2>1. i \in 1 .. n /\ i \in InMinute(m)
    BY <1>3
  <2>2. raised[i].at \in m .. m + Minute - 1 /\ raised[i].at >= raised[i].start
    BY <2>1 DEF InMinute
  <2>3. raised[i].at - raised[i].start < Minute
    BY <1>2, <2>1 DEF RateInv, Placed
  <2>4. QED
    BY <1>1, <1>4, <1>5, <2>1, <2>2, <2>3
<1>7. \A i, j \in 1 .. n : i < j => /\ raised[i].window <= raised[j].window
                                    /\ raised[i].window < raised[j].window =>
                                         raised[i].start + Minute <= raised[j].start
  BY <1>2 DEF RateInv, Follows
<1>8. CASE S = {}
  BY <1>1, <1>3, <1>8, FS_EmptySet
<1>9. CASE S # {}
  <2>1. PICK j \in S : \A k \in S : k <= j
    BY <1>9, LastOf
  <2> DEFINE Late == {i \in S : raised[i].window = raised[j].window}
             Early == {i \in S : raised[i].window # raised[j].window}
  <2>2. IsFiniteSet(Late) /\ Cardinality(Late) <= max /\ Cardinality(Late) \in Nat
    <3>1. Late \in SUBSET (DOMAIN raised) /\ j \in Late
      BY <1>2
    <3>2. \A i \in Late : i <= j /\ raised[i].window = raised[j].window
      BY <2>1
    <3>3. raised[j].rule.max \in 1 .. max
      BY <1>6
    <3> HIDE DEF Late
    <3>4. QED
      BY <3>1, <3>2, <3>3, OneWindowIsCapped
  <2>3. IsFiniteSet(Early) /\ Cardinality(Early) <= max /\ Cardinality(Early) \in Nat
    <3>1. CASE Early = {}
      <4>1. IsFiniteSet({}) /\ Cardinality({}) = 0
        BY FS_EmptySet
      <4> HIDE DEF Early
      <4>2. QED
        BY <3>1, <4>1
    <3>2. CASE Early # {}
      <4>1. Early \in SUBSET (1 .. n)
        OBVIOUS
      <4>2. PICK l \in Early : \A k \in Early : k <= l
        <5> HIDE DEF Early
        <5>1. QED
          BY <3>2, <4>1, LastOf
      <4>3. l \in S /\ l \in 1 .. n /\ j \in 1 .. n /\ l < j
        <5>1. l \in S /\ l # j /\ l \in 1 .. n /\ j \in 1 .. n
          BY <4>1, <4>2
        <5>2. l <= j
          BY <2>1, <5>1
        <5>3. QED
          BY <5>1, <5>2
      <4>4. raised[l].window < raised[j].window
        BY <1>5, <1>7, <4>2, <4>3
      <4>5. raised[l].start + Minute <= raised[j].start
        BY <1>7, <4>3, <4>4
      <4>6. ASSUME NEW i \in Early
            PROVE  raised[i].window = raised[l].window
        <5>1. i \in S /\ i \in 1 .. n /\ i <= l
          BY <4>2
        <5>2. CASE i = l
          BY <5>2
        <5>3. CASE i < l
          <6>1. CASE raised[i].window < raised[l].window
            <7>1. raised[i].start + Minute <= raised[l].start
              BY <1>7, <4>3, <5>1, <5>3, <6>1
            <7>2. raised[i].at < raised[i].start + Minute /\ raised[i].at >= m
              BY <1>6, <5>1
            <7>3. raised[j].start <= m + Minute - 1
              BY <1>4, <1>5, <1>6, <2>1, <4>3
            <7>4. PICK a \in Nat, s \in Nat, sl \in Nat, sj \in Nat :
                    /\ a = raised[i].at /\ s = raised[i].start
                    /\ sl = raised[l].start /\ sj = raised[j].start
              BY <1>5, <4>3, <5>1
            <7>5. QED
              BY <1>4, <4>5, <7>1, <7>2, <7>3, <7>4
          <6>2. CASE ~ (raised[i].window < raised[l].window)
            BY <1>5, <1>7, <4>3, <5>1, <5>3, <6>2
          <6>3. QED
            BY <6>1, <6>2
        <5>4. QED
          BY <4>3, <5>1, <5>2, <5>3
      <4>7. raised[l].rule.max \in 1 .. max
        BY <1>6, <4>3
      <4>8. Early \in SUBSET (DOMAIN raised)
        BY <1>2, <4>1
      <4>9. PICK T : T = Early
        OBVIOUS
      <4>10. /\ T \in SUBSET (DOMAIN raised) /\ l \in T
             /\ \A i \in T : i <= l /\ raised[i].window = raised[l].window
        <5>1. \A i \in Early : i <= l
          BY <4>2
        <5>2. \A i \in Early : raised[i].window = raised[l].window
          BY <4>6
        <5>3. l \in Early
          BY <4>2
        <5> HIDE DEF Early
        <5>4. QED
          BY <4>8, <4>9, <5>1, <5>2, <5>3
      <4>11. IsFiniteSet(T) /\ Cardinality(T) <= max /\ Cardinality(T) \in Nat
        BY <4>7, <4>10, OneWindowIsCapped
      <4>12. QED
        BY <4>9, <4>11
    <3>3. QED
      BY <3>1, <3>2
  <2>4. S = Late \cup Early /\ Late \cap Early = {}
    OBVIOUS
  <2> HIDE DEF Late, Early
  <2>6. Cardinality(S) = Cardinality(Late) + Cardinality(Early)
    BY <2>2, <2>3, <2>4, Disjoint
  <2>7. Cardinality(S) <= 2 * max
    BY <2>2, <2>3, <2>6
  <2>8. QED
    BY <1>1, <1>3, <2>7
<1>10. QED
  BY <1>8, <1>9

\* The rate limit holds in every rate window, and twice the limit in any minute, whatever
\* the threads' order and the rules set in between (pipeline.h, max_alerts_per_minute).
THEOREM RateStaysCapped ==
  Spec => []RateIsCapped
<1>1. Init => TypeOK /\ RateInv
  BY TypeInit, RateInit
<1>2. TypeOK /\ RateInv /\ [Next]_vars => TypeOK' /\ RateInv'
  BY TypeStep, RateStep
<1>3. TypeOK /\ RateInv => RateIsCapped
  BY TwoWindowsInAMinute DEF RateIsCapped, RateInv
<1>4. QED
  BY <1>1, <1>2, <1>3, PTL DEF Spec

--------------------------------------------------------------------------------
\* The count of urgent entries: those of a thread that is not sending are accounted for.
CountInv ==
  /\ \A t \in Thread : pc[t] # "send" => ctx[t] = <<>>
  /\ IsFiniteSet(OnTheWay)
  /\ EveryUrgentEntryCounted

\* The entries of one thread.
LEMMA OfOne ==
  ASSUME NEW t, NEW n \in Nat
  PROVE  IsFiniteSet({t} \X (1 .. n)) /\ Cardinality({t} \X (1 .. n)) = n
<1>1. IsFiniteSet({t}) /\ Cardinality({t}) = 1
  BY FS_Singleton
<1>2. PICK S : S = 1 .. n
  OBVIOUS
<1>3. IsFiniteSet(S) /\ Cardinality(S) = n
  <2>1. Cardinality(1 .. n) = IF 1 > n THEN 0 ELSE n - 1 + 1
    BY FS_Interval
  <2>2. IsFiniteSet(1 .. n)
    BY FS_Interval
  <2>3. QED
    BY <1>2, <2>1, <2>2
<1>4. IsFiniteSet({t} \X S) /\ Cardinality({t} \X S) = 1 * n
  BY <1>1, <1>3, FS_Product
<1>5. QED
  BY <1>2, <1>4

\* The selected entries of the other threads.
OfOthers(t) == UNION {{u} \X (1 .. Len(ctx[u])) : u \in Thread \ {t}}

LEMMA OnTheWaySplits ==
  ASSUME NEW t \in Thread, IsFiniteSet(OnTheWay), Len(ctx[t]) \in Nat
  PROVE  /\ IsFiniteSet(OfOthers(t))
         /\ Cardinality(OfOthers(t)) \in Nat
         /\ Cardinality(OnTheWay) = Cardinality(OfOthers(t)) + Len(ctx[t])
<1>1. PICK n \in Nat : n = Len(ctx[t])
  OBVIOUS
<1> DEFINE mine == {t} \X (1 .. n)
<1>2. OnTheWay = OfOthers(t) \cup mine
  BY <1>1 DEF OnTheWay, OfOthers
<1>3. OfOthers(t) \cap mine = {}
  BY DEF OfOthers
<1>4. IsFiniteSet(mine) /\ Cardinality(mine) = n
  BY OfOne
<1> HIDE DEF mine
<1>5. IsFiniteSet(OfOthers(t)) /\ Cardinality(OfOthers(t)) \in Nat
  BY <1>2, FS_Subset, FS_CardinalityType
<1>7. Cardinality(OnTheWay) = Cardinality(OfOthers(t)) + n
  BY <1>2, <1>3, <1>4, <1>5, Disjoint
<1>8. QED
  BY <1>1, <1>5, <1>7

\* What thread t puts on its way.
LEMMA OnTheWayAfter ==
  ASSUME NEW t \in Thread, NEW s, Len(s) \in Nat, IsFiniteSet(OfOthers(t)),
         ctx \in [Thread -> Seq(Key)], ctx' = [ctx EXCEPT ![t] = s]
  PROVE  /\ IsFiniteSet(OnTheWay')
         /\ Cardinality(OnTheWay') = Cardinality(OfOthers(t)) + Len(s)
<1>1. PICK n \in Nat : n = Len(s)
  OBVIOUS
<1> DEFINE mine == {t} \X (1 .. n)
<1>2. ctx'[t] = s /\ \A u \in Thread \ {t} : ctx'[u] = ctx[u]
  OBVIOUS
<1>3. OnTheWay' = OfOthers(t) \cup mine
  BY <1>1, <1>2 DEF OnTheWay, OfOthers
<1>4. OfOthers(t) \cap mine = {}
  BY DEF OfOthers
<1>5. IsFiniteSet(mine) /\ Cardinality(mine) = n
  BY OfOne
<1> HIDE DEF mine
<1>7. IsFiniteSet(OnTheWay') /\ Cardinality(OnTheWay') = Cardinality(OfOthers(t)) + n
  BY <1>3, <1>4, <1>5, Disjoint
<1>8. QED
  BY <1>1, <1>7

LEMMA CountInit ==
  Init => CountInv
<1> SUFFICES ASSUME Init PROVE CountInv
  OBVIOUS
<1>1. \A t \in Thread : ctx[t] = <<>>
  BY DEF Init
<1>2. OnTheWay = {}
  <2>1. \A t \in Thread : {t} \X (1 .. Len(ctx[t])) = {}
    <3> SUFFICES ASSUME NEW t \in Thread PROVE {t} \X (1 .. Len(ctx[t])) = {}
      OBVIOUS
    <3>1. 1 .. Len(ctx[t]) = {}
      BY <1>1, LenProperties
    <3>2. QED
      BY <3>1
  <2>2. QED
    BY <2>1 DEF OnTheWay
<1>3. IsFiniteSet(OnTheWay) /\ Cardinality(OnTheWay) = 0
  BY <1>2, FS_EmptySet
<1>4. urgentSeen = 0 /\ alerts = 0 /\ suppressed = 0
  BY DEF Init
<1>5. QED
  BY <1>1, <1>3, <1>4 DEF CountInv, EveryUrgentEntryCounted

LEMMA CountStep ==
  ASSUME TypeOK, CountInv, [Next]_vars
  PROVE  CountInv'
<1> DEFINE Same == UNCHANGED <<ctx, urgentSeen, alerts, suppressed>>
<1>1. ASSUME Same, \A t \in Thread : pc'[t] # "send" => pc[t] # "send"
      PROVE  CountInv'
  BY <1>1 DEF CountInv, OnTheWay, EveryUrgentEntryCounted
<1>2. CASE Tick
  BY <1>1, <1>2 DEF Tick, ruleVars, statVars, histVars
<1>3. ASSUME NEW t \in Thread, NEW n \in 1 .. MaxBatch, NEW keys \in [1 .. n -> Key],
             RunAlerts(t, keys)
      PROVE  CountInv'
  <2>1. Same
    BY <1>3 DEF RunAlerts, ruleVars, statVars, histVars
  <2>2. \A u \in Thread : pc'[u] # "send" => pc[u] # "send"
    BY <1>3 DEF RunAlerts, TypeOK
  <2>3. QED
    BY <1>1, <2>1, <2>2
<1>4. ASSUME NEW t \in Thread, SelectAlerting(t)
      PROVE  CountInv'
  <2>1. PICK x, keys, time, c, w, b : Serves(t, x, keys, time, c, w, b)
    BY <1>4, SelectStep
  <2>2. x.selected \in Seq(Key) /\ x.suppressed \in Nat /\ pc[t] = "select"
    BY <2>1 DEF Serves, ScanState
  <2>3. PICK n \in Nat : n = Len(x.selected)
    BY <2>2, LenProperties
  <2>4. ctx[t] = <<>> /\ Len(ctx[t]) = 0
    BY <2>2, LenProperties DEF CountInv
  <2>5. ctx \in [Thread -> Seq(Key)] /\ pc \in [Thread -> {"idle", "select", "send"}]
    BY DEF TypeOK
  <2>6. ctx' = [ctx EXCEPT ![t] = x.selected]
    BY <2>1 DEF Serves, Leaves
  <2>7. pc' = [pc EXCEPT ![t] = IF x.selected = <<>> THEN "idle" ELSE "send"]
    BY <2>1 DEF Serves, Leaves
  <2>8. PICK o \in Nat : o = Cardinality(OfOthers(t)) /\ Cardinality(OnTheWay) = o
    BY <2>4, OnTheWaySplits DEF CountInv
  <2>9. IsFiniteSet(OnTheWay') /\ Cardinality(OnTheWay') = o + n
    <3>1. IsFiniteSet(OfOthers(t))
      BY <2>4, OnTheWaySplits DEF CountInv
    <3>2. QED
      BY <2>3, <2>5, <2>6, <2>8, <3>1, OnTheWayAfter
  <2>10. PICK q \in Nat : q = Cardinality(Urgent(keys)) /\ x.suppressed + n = q
    BY <2>1, <2>2, <2>3 DEF Serves, Outcome
  <2>11. /\ urgentSeen' = urgentSeen + q /\ suppressed' = suppressed + x.suppressed
         /\ alerts' = alerts
    BY <2>1, <2>10 DEF Serves, Leaves
  <2>12. urgentSeen = alerts + suppressed + o
    BY <2>8 DEF CountInv, EveryUrgentEntryCounted
  <2>13. urgentSeen' = alerts' + suppressed' + (o + n)
    <3>1. PICK a \in Nat, u \in Nat, v \in Nat : a = alerts /\ u = suppressed /\ v = x.suppressed
      BY <2>2, StateTypes
    <3>2. urgentSeen' = (a + u + o) + q /\ suppressed' = u + v /\ v + n = q /\ alerts' = a
      BY <2>10, <2>11, <2>12, <3>1
    <3>3. QED
      BY <3>2
  <2>14. \A u \in Thread : pc'[u] # "send" => ctx'[u] = <<>>
    BY <2>5, <2>6, <2>7 DEF CountInv
  <2>15. QED
    BY <2>9, <2>13, <2>14 DEF CountInv, EveryUrgentEntryCounted
<1>5. ASSUME NEW t \in Thread, Send(t)
      PROVE  CountInv'
  <2>1. PICK n \in Nat : n = Len(ctx[t])
    BY LenProperties DEF TypeOK
  <2>2. PICK o \in Nat : o = Cardinality(OfOthers(t)) /\ Cardinality(OnTheWay) = o + n
    BY <2>1, OnTheWaySplits DEF CountInv
  <2>3. IsFiniteSet(OfOthers(t))
    BY <2>1, OnTheWaySplits DEF CountInv
  <2>4. /\ alerts' = alerts + n /\ ctx' = [ctx EXCEPT ![t] = <<>>]
        /\ pc' = [pc EXCEPT ![t] = "idle"]
        /\ suppressed' = suppressed /\ urgentSeen' = urgentSeen
    BY <1>5, <2>1 DEF Send, histVars
  <2>5. ctx \in [Thread -> Seq(Key)] /\ pc \in [Thread -> {"idle", "select", "send"}]
    BY DEF TypeOK
  <2>6. IsFiniteSet(OnTheWay') /\ Cardinality(OnTheWay') = o
    <3>1. Len(<<>>) = 0
      BY LenProperties
    <3>2. IsFiniteSet(OnTheWay') /\ Cardinality(OnTheWay') = Cardinality(OfOthers(t)) + Len(<<>>)
      BY <2>3, <2>4, <2>5, <3>1, OnTheWayAfter
    <3>3. QED
      BY <2>2, <3>1, <3>2
  <2>7. urgentSeen = alerts + suppressed + (o + n)
    BY <2>2 DEF CountInv, EveryUrgentEntryCounted
  <2>8. urgentSeen' = alerts' + suppressed' + o
    <3>1. PICK a \in Nat, u \in Nat : a = alerts /\ u = suppressed
      BY StateTypes
    <3>2. urgentSeen' = a + u + (o + n) /\ suppressed' = u /\ alerts' = a + n
      BY <2>4, <2>7, <3>1
    <3>3. QED
      BY <3>2
  <2>9. \A u \in Thread : pc'[u] # "send" => ctx'[u] = <<>>
    BY <2>4, <2>5 DEF CountInv
  <2>10. QED
    BY <2>6, <2>8, <2>9 DEF CountInv, EveryUrgentEntryCounted
<1>6. ASSUME NEW r \in Rules, SetAlertRule(r)
      PROVE  CountInv'
  BY <1>1, <1>6 DEF SetAlertRule, statVars
<1>7. CASE UNCHANGED vars
  BY <1>1, <1>7 DEF vars, ruleVars, statVars, histVars
<1>8. QED
  BY <1>2, <1>3, <1>4, <1>5, <1>6, <1>7 DEF Next

\* Every urgent entry that was scanned is alerted, on its way to the plugins or counted as
\* suppressed, with any number of threads in run_alerts.
THEOREM NoUrgentEntryIsLost ==
  Spec => []EveryUrgentEntryCounted
<1>1. Init => TypeOK /\ CountInv
  BY TypeInit, CountInit
<1>2. TypeOK /\ CountInv /\ [Next]_vars => TypeOK' /\ CountInv'
  BY TypeStep, CountStep
<1>3. CountInv => EveryUrgentEntryCounted
  BY DEF CountInv
<1>4. QED
  BY <1>1, <1>2, <1>3, PTL DEF Spec

--------------------------------------------------------------------------------
\* f is the loop of n turns over the set D that begins with first and makes turn i with
\* step[<<i, what the turn before left>>].
Loops(f, n, D, first, step) ==
  /\ f \in [0 .. n -> D]
  /\ f[0] = first
  /\ \A i \in 1 .. n : f[i] = step[<<i, f[i - 1]>>]

\* Every loop can be run to its end.
LEMMA LoopEnds ==
  ASSUME NEW n \in Nat, NEW D, NEW first \in D, NEW step \in [(1 .. n) \X D -> D]
  PROVE  \E f : Loops(f, n, D, first, step)
<1> DEFINE Steps(g, m) == g[0] = first /\ \A i \in 1 .. m : g[i] = step[<<i, g[i - 1]>>]
           Reached == {m \in 0 .. n : \E g \in [0 .. m -> D] : Steps(g, m)}
<1>1. 0 \in Reached
  <2> DEFINE g == [i \in 0 .. 0 |-> first]
  <2>1. g \in [0 .. 0 -> D] /\ Steps(g, 0)
    OBVIOUS
  <2>2. \E h \in [0 .. 0 -> D] : Steps(h, 0)
    <3> HIDE DEF Steps, g
    <3>1. QED
      BY <2>1
  <2>3. 0 \in 0 .. n
    OBVIOUS
  <2>4. QED
    <3> HIDE DEF Steps
    <3>1. QED
      BY <2>2, <2>3
<1>2. ASSUME NEW m \in 1 .. n, m - 1 \in Reached
      PROVE  m \in Reached
  <2>1. PICK f \in [0 .. m - 1 -> D] : Steps(f, m - 1)
    <3> HIDE DEF Steps
    <3>1. QED
      BY <1>2
  <2>2. m \in Nat /\ m > 0 /\ m - 1 \in 0 .. m - 1 /\ f[m - 1] \in D
    <3> HIDE DEF Steps
    <3>1. QED
      BY <2>1
  <2>3. PICK last \in D : last = step[<<m, f[m - 1]>>]
    BY <2>2
  <2> DEFINE g == [i \in 0 .. m |-> IF i = m THEN last ELSE f[i]]
  <2>4. g \in [0 .. m -> D]
    BY <2>1, <2>2
  <2>5. g[0] = first
    BY <2>1, <2>2
  <2>6. ASSUME NEW i \in 1 .. m
        PROVE  g[i] = step[<<i, g[i - 1]>>]
    <3>1. CASE i = m
      <4>1. g[i] = last /\ g[i - 1] = f[m - 1]
        BY <2>2, <3>1
      <4>2. QED
        BY <3>1, <4>1, <2>3
    <3>2. CASE i # m
      <4>1. i \in 1 .. m - 1 /\ g[i] = f[i] /\ g[i - 1] = f[i - 1]
        BY <2>2, <3>2
      <4>2. QED
        BY <4>1, <2>1
    <3>3. QED
      BY <3>1, <3>2
  <2>7. Steps(g, m)
    <3> HIDE DEF g
    <3>1. QED
      BY <2>5, <2>6
  <2>8. m \in 0 .. n
    BY <2>2
  <2>9. QED
    <3> HIDE DEF g, Steps
    <3>1. QED
      BY <2>4, <2>7, <2>8
<1>3. n \in Reached
  <2>1. 0 .. n \subseteq Reached
    <3> HIDE DEF Reached
    <3>1. QED
      BY <1>1, <1>2, Climbing
  <2>2. n \in 0 .. n
    OBVIOUS
  <2> HIDE DEF Reached
  <2>3. QED
    BY <2>1, <2>2
<1>4. QED
  BY <1>3 DEF Loops

--------------------------------------------------------------------------------
\* The way of a line through process_raw_now.
LEMMA PathBounds ==
  Window \in Nat /\ MaxLines \in Nat /\ MaxErrors \in Nat /\ MaxClock \in Nat \ {0}
BY PathAssumption

--------------------------------------------------------------------------------
\* Min is the least of a set of positions that is not empty, and a bounded set of integers
\* that is not empty has a Max.
LEMMA MinOf ==
  ASSUME NEW S \in SUBSET Nat, S # {}
  PROVE  Min(S) \in S /\ \A k \in S : Min(S) <= k
<1>1. PICK m \in S : \A k \in S : ~ (<<k, m>> \in OpToRel(<, Nat))
  BY NatLessThanWellFounded, WFMin
<1>2. m \in Nat /\ \A k \in S : k \in Nat /\ ~ (k < m)
  BY <1>1 DEF OpToRel
<1>3. \A k \in S : m <= k
  BY <1>2
<1>4. QED
  BY <1>3 DEF Min

LEMMA MaxOf ==
  ASSUME NEW S \in SUBSET Int, S # {}, NEW b \in Int, \A k \in S : k <= b
  PROVE  Max(S) \in S /\ \A k \in S : k <= Max(S)
<1> DEFINE T == {b - k : k \in S}
<1>1. T \in SUBSET Nat /\ T # {}
  <2>1. ASSUME NEW k \in S PROVE b - k \in Nat
    BY <2>1
  <2>2. PICK k \in S : TRUE
    OBVIOUS
  <2>3. b - k \in T
    OBVIOUS
  <2>4. T \in SUBSET Nat
    BY <2>1
  <2> HIDE DEF T
  <2>5. QED
    BY <2>3, <2>4
<1>2. PICK m \in T : \A k \in T : m <= k
  <2> HIDE DEF T
  <2>1. Min(T) \in T /\ \A k \in T : Min(T) <= k
    BY <1>1, MinOf
  <2>2. QED
    BY <2>1
<1>3. PICK x \in S : m = b - x
  OBVIOUS
<1>4. \A k \in S : k <= x
  <2> SUFFICES ASSUME NEW k \in S PROVE k <= x
    OBVIOUS
  <2>1. b - k \in T
    OBVIOUS
  <2>2. b - x <= b - k
    <3> HIDE DEF T
    <3>1. QED
      BY <1>2, <1>3, <2>1
  <2>3. QED
    BY <2>2
<1>5. QED
  BY <1>4 DEF Max

--------------------------------------------------------------------------------
Times == 0 .. MaxClock

\* h is the window after the arrivals a: what has left it was followed by an arrival more
\* than Window later, what it begins with was not too old for the last one.
WindowIs(h, a) ==
  IF a = <<>> THEN h = <<>>
  ELSE \E k \in 0 .. Len(a) - 1 :
         /\ Len(h) = Len(a) - k
         /\ \A i \in 1 .. Len(h) : h[i] = a[k + i]
         /\ \A i \in 1 .. k : \E j \in i + 1 .. Len(a) : a[j] - a[i] > Window
         /\ a[Len(a)] - a[k + 1] <= Window

\* record_and_count keeps the window what it is.
LEMMA SlideKeepsWindow ==
  ASSUME NEW h \in Seq(Times), NEW a \in Seq(Times), WindowIs(h, a),
         NEW when \in Times
  PROVE  /\ Slide(Append(h, when), when) \in Seq(Times)
         /\ WindowIs(Slide(Append(h, when), when), Append(a, when))
<1> DEFINE long == Append(h, when)
           more == Append(a, when)
           In   == {i \in 1 .. Len(long) : when - long[i] <= Window}
           m    == Min(In)
           left == SubSeq(long, m, Len(long))
<1>1. /\ Window \in Nat /\ when \in Int
      /\ Len(h) \in Nat /\ Len(a) \in Nat
      /\ \A i \in 1 .. Len(h) : h[i] \in Int
      /\ \A i \in 1 .. Len(a) : a[i] \in Int
  BY PathBounds, LenProperties, ElementOfSeq DEF Times
<1>2. /\ long \in Seq(Times) /\ Len(long) = Len(h) + 1 /\ long[Len(h) + 1] = when
      /\ \A i \in 1 .. Len(h) : long[i] = h[i]
      /\ more \in Seq(Times) /\ Len(more) = Len(a) + 1 /\ more[Len(a) + 1] = when
      /\ \A i \in 1 .. Len(a) : more[i] = a[i]
  BY AppendProperties
<1>3. Slide(long, when) = left
  BY DEF Slide
<1> HIDE DEF long, more
<1>4. In \in SUBSET Nat /\ Len(h) + 1 \in In
  BY <1>1, <1>2
<1>5. m \in In /\ \A i \in In : m <= i
  <2> HIDE DEF In
  <2>1. QED
    BY <1>4, MinOf
<1>6. /\ m \in 1 .. Len(h) + 1 /\ when - long[m] <= Window
      /\ \A i \in 1 .. m - 1 : when - long[i] > Window
  <2>1. m \in 1 .. Len(h) + 1 /\ when - long[m] <= Window
    <3> HIDE DEF m
    <3>1. QED
      BY <1>2, <1>5
  <2>2. ASSUME NEW i \in 1 .. m - 1 PROVE when - long[i] > Window
    <3> HIDE DEF m
    <3>1. i \in 1 .. Len(h) /\ i < m /\ long[i] \in Int
      <4>1. Len(h) \in Nat /\ m \in 1 .. Len(h) + 1
        BY <1>1, <2>1
      <4>2. i \in 1 .. Len(h) /\ i < m
        BY <4>1
      <4>3. QED
        BY <1>1, <1>2, <4>2
    <3>2. i \notin In
      <4> HIDE DEF In
      <4>1. i \in In => m <= i
        BY <1>5
      <4>2. QED
        BY <2>1, <3>1, <4>1
    <3>3. i \in 1 .. Len(long)
      BY <1>2, <3>1, <1>1
    <3>4. ~ (when - long[i] <= Window)
      BY <3>2, <3>3
    <3>5. QED
      BY <1>1, <3>1, <3>4
  <2>3. QED
    BY <2>1, <2>2
<1> HIDE DEF m, In
<1>7. /\ left \in Seq(Times) /\ Len(left) = Len(h) + 2 - m
      /\ \A i \in 1 .. Len(left) : left[i] = long[m + i - 1]
  <2>1. m \in Int /\ Len(long) \in Int /\ 1 <= m /\ m <= Len(long) + 1 /\ Len(long) <= Len(long)
    BY <1>1, <1>2, <1>6
  <2>2. left \in Seq(Times)
    <3>1. \A i \in m .. Len(long) : i \in 1 .. Len(long)
      BY <2>1
    <3>2. QED
      BY <1>2, <2>1, <3>1, SubSeqProperties, ElementOfSeq
  <2>3. Len(left) = Len(long) - m + 1
    BY <1>2, <2>1, SubSeqProperties
  <2>4. \A i \in 1 .. Len(left) : left[i] = long[m + i - 1]
    BY <1>2, <2>1, <2>3, SubSeqProperties
  <2>5. QED
    BY <1>1, <1>2, <1>6, <2>2, <2>3, <2>4
<1> HIDE DEF left
<1>8. PICK k \in 0 .. Len(a) :
        /\ Len(h) = Len(a) - k
        /\ \A i \in 1 .. Len(h) : h[i] = a[k + i]
        /\ \A i \in 1 .. k : \E j \in i + 1 .. Len(a) : a[j] - a[i] > Window
  <2> DEFINE So(x) == /\ Len(h) = Len(a) - x
                      /\ \A i \in 1 .. Len(h) : h[i] = a[x + i]
                      /\ \A i \in 1 .. x : \E j \in i + 1 .. Len(a) : a[j] - a[i] > Window
  <2>1. CASE a = <<>>
    <3>1. h = <<>> /\ Len(a) = 0 /\ Len(h) = 0
      BY <2>1, EmptySeq DEF WindowIs
    <3>2. So(0) /\ 0 \in 0 .. Len(a)
      BY <3>1
    <3> HIDE DEF So
    <3>3. \E x \in 0 .. Len(a) : So(x)
      BY <3>2
    <3>4. QED
      BY <3>3 DEF So
  <2>2. CASE a # <<>>
    <3>1. PICK k \in 0 .. Len(a) - 1 :
            /\ Len(h) = Len(a) - k
            /\ \A i \in 1 .. Len(h) : h[i] = a[k + i]
            /\ \A i \in 1 .. k : \E j \in i + 1 .. Len(a) : a[j] - a[i] > Window
      BY <2>2 DEF WindowIs
    <3>2. k \in 0 .. Len(a)
      BY <1>1
    <3>3. So(k)
      BY <3>1
    <3> HIDE DEF So
    <3>4. \E x \in 0 .. Len(a) : So(x)
      BY <3>2, <3>3
    <3>5. QED
      BY <3>4 DEF So
  <2>3. QED
    BY <2>1, <2>2
<1>9. WindowIs(left, more)
  <2> DEFINE n == k + m - 1
  <2>1. n \in 0 .. Len(more) - 1 /\ Len(left) = Len(more) - n
    BY <1>1, <1>2, <1>6, <1>7, <1>8
  <2>2. \A i \in 1 .. Len(h) + 1 : long[i] = more[k + i]
    <3> SUFFICES ASSUME NEW i \in 1 .. Len(h) + 1
                 PROVE  long[i] = more[k + i]
      OBVIOUS
    <3>1. CASE i = Len(h) + 1
      <4>1. k + i = Len(a) + 1
        BY <1>1, <1>8, <3>1
      <4>2. QED
        BY <1>2, <3>1, <4>1
    <3>2. CASE i # Len(h) + 1
      <4>1. i \in 1 .. Len(h) /\ k + i \in 1 .. Len(a)
        <5>1. Len(h) = Len(a) - k /\ Len(h) \in Nat /\ Len(a) \in Nat /\ k \in Nat
          BY <1>1, <1>8
        <5>2. QED
          BY <3>2, <5>1
      <4>2. QED
        BY <1>2, <1>8, <4>1
    <3>3. QED
      BY <3>1, <3>2
  <2>3. ASSUME NEW i \in 1 .. Len(left) PROVE left[i] = more[n + i]
    <3>1. m + i - 1 \in 1 .. Len(h) + 1 /\ k + (m + i - 1) = n + i
      BY <1>1, <1>6, <1>7, <1>8
    <3>2. QED
      BY <1>7, <2>2, <3>1
  <2>4. ASSUME NEW i \in 1 .. n PROVE \E j \in i + 1 .. Len(more) : more[j] - more[i] > Window
    <3>1. CASE i <= k
      <4>1. i \in 1 .. k /\ i \in 1 .. Len(a)
        BY <1>1, <1>8, <2>1, <3>1
      <4>2. PICK j \in i + 1 .. Len(a) : a[j] - a[i] > Window
        BY <1>8, <4>1
      <4>3. j \in 1 .. Len(a) /\ j \in i + 1 .. Len(more)
        BY <1>1, <1>2, <4>1
      <4>4. more[j] - more[i] > Window
        BY <1>2, <4>1, <4>2, <4>3
      <4>5. QED
        BY <4>3, <4>4
    <3>2. CASE ~ (i <= k)
      <4>1. i - k \in 1 .. m - 1 /\ i - k \in 1 .. Len(h) + 1 /\ k + (i - k) = i
        BY <1>1, <1>6, <1>8, <2>1, <3>2
      <4>2. when - more[i] > Window
        BY <1>6, <2>2, <4>1
      <4>3. Len(a) + 1 \in i + 1 .. Len(more)
        BY <1>1, <1>2, <2>1
      <4>4. QED
        BY <1>2, <4>2, <4>3
    <3>3. QED
      BY <3>1, <3>2
  <2>5. more[Len(more)] - more[n + 1] <= Window
    <3>1. n + 1 = k + m
      BY <1>6, <1>8
    <3>2. QED
      BY <1>2, <1>6, <2>2, <3>1
  <2>6. more # <<>>
    BY <1>1, <1>2, EmptySeq
  <2> HIDE DEF n
  <2>7. QED
    BY <2>1, <2>3, <2>4, <2>5, <2>6 DEF WindowIs
<1>10. QED
  <2>1. Slide(long, when) \in Seq(Times) /\ WindowIs(Slide(long, when), more)
    BY <1>3, <1>7, <1>9
  <2>2. QED
    BY <2>1 DEF long, more

--------------------------------------------------------------------------------
\* What the loop over a batch carries, with the window what it should be.
LoopState ==
  {s \in [kept : Seq(Entry), history : Seq(Times), arrivals : Seq(Times)] :
     WindowIs(s.history, s.arrivals)}

LEMMA ThresholdEntryStays ==
  ASSUME NEW s \in LoopState, NEW e \in Entry
  PROVE  ThresholdEntry(s, e) \in LoopState
<1>1. /\ s \in [kept : Seq(Entry), history : Seq(Times), arrivals : Seq(Times)]
      /\ WindowIs(s.history, s.arrivals)
  BY DEF LoopState
<1>2. Append(s.kept, e) \in Seq(Entry)
  BY <1>1, AppendProperties
<1>3. [s EXCEPT !.kept = Append(@, e)] \in LoopState
  <2>1. PICK list \in Seq(Entry) : list = Append(s.kept, e)
    BY <1>2
  <2>2. [s EXCEPT !.kept = Append(@, e)] =
          [kept |-> list, history |-> s.history, arrivals |-> s.arrivals]
    <3>1. s \in [kept : Seq(Entry), history : Seq(Times), arrivals : Seq(Times)]
      BY <1>1
    <3>2. [s EXCEPT !.kept = list] =
            [kept |-> list, history |-> s.history, arrivals |-> s.arrivals]
      BY <3>1
    <3>3. QED
      BY <2>1, <3>2
  <2>3. s.history \in Seq(Times) /\ s.arrivals \in Seq(Times)
    BY <1>1
  <2>4. QED
    BY <1>1, <2>2, <2>3 DEF LoopState
<1> DEFINE window == Slide(Append(s.history, e.time), e.time)
           next   == [kept |-> Append(s.kept, e), history |-> window,
                      arrivals |-> Append(s.arrivals, e.time)]
<1>4. next \in LoopState
  <2>1. e.time \in Times /\ s.history \in Seq(Times) /\ s.arrivals \in Seq(Times)
    BY <1>1 DEF Entry, Times
  <2>2. window \in Seq(Times) /\ WindowIs(window, Append(s.arrivals, e.time))
    BY <1>1, <2>1, SlideKeepsWindow
  <2>3. Append(s.arrivals, e.time) \in Seq(Times)
    BY <2>1, AppendProperties
  <2> HIDE DEF window
  <2>4. QED
    BY <1>2, <2>2, <2>3 DEF LoopState
<1>5. ThresholdEntry(s, e) \in {s, next, [s EXCEPT !.kept = Append(@, e)]}
  BY DEF ThresholdEntry
<1>6. QED
  <2> HIDE DEF next
  <2>1. QED
    BY <1>3, <1>4, <1>5

LEMMA ThresholdLoopStays ==
  ASSUME NEW s \in LoopState, NEW entries \in Seq(Entry)
  PROVE  ThresholdLoop(s, entries) \in LoopState
<1> DEFINE n == Len(entries)
           Turn(g) == g = [i \in 0 .. n |->
                             IF i = 0 THEN s ELSE ThresholdEntry(g[i - 1], entries[i])]
           step == [p \in (1 .. n) \X LoopState |-> ThresholdEntry(p[2], entries[p[1]])]
<1>1. n \in Nat /\ \A i \in 1 .. n : entries[i] \in Entry
  BY LenProperties, ElementOfSeq
<1>2. step \in [(1 .. n) \X LoopState -> LoopState]
  <2>1. ASSUME NEW p \in (1 .. n) \X LoopState
        PROVE  ThresholdEntry(p[2], entries[p[1]]) \in LoopState
    <3>1. entries[p[1]] \in Entry /\ p[2] \in LoopState
      BY <1>1
    <3>2. QED
      BY <3>1, ThresholdEntryStays
  <2>2. QED
    <3> HIDE DEF n
    <3>1. QED
      BY <2>1
<1>3. PICK f : Loops(f, n, LoopState, s, step)
  <2> HIDE DEF n, step
  <2>1. QED
    BY <1>1, <1>2, LoopEnds
<1>4. /\ f \in [0 .. n -> LoopState] /\ f[0] = s
      /\ \A i \in 1 .. n : f[i] = ThresholdEntry(f[i - 1], entries[i])
  <2>1. f \in [0 .. n -> LoopState] /\ f[0] = s /\ \A i \in 1 .. n : f[i] = step[<<i, f[i - 1]>>]
    <3> HIDE DEF n, step
    <3>1. QED
      BY <1>3 DEF Loops
  <2>2. ASSUME NEW i \in 1 .. n
        PROVE  f[i] = ThresholdEntry(f[i - 1], entries[i])
    <3> HIDE DEF n
    <3>1. i - 1 \in 0 .. n
      BY <1>1
    <3>2. <<i, f[i - 1]>> \in (1 .. n) \X LoopState
      BY <2>1, <3>1
    <3>3. QED
      BY <2>1, <3>2
  <2>3. QED
    <3> HIDE DEF n, step
    <3>1. QED
      BY <2>1, <2>2
<1>5. Turn(f)
  <2> DEFINE rhs == [i \in 0 .. n |->
                       IF i = 0 THEN s ELSE ThresholdEntry(f[i - 1], entries[i])]
  <2>1. ASSUME NEW i \in 0 .. n
        PROVE  f[i] = rhs[i]
    <3> HIDE DEF n
    <3>1. CASE i = 0
      BY <1>4, <3>1
    <3>2. CASE i # 0
      <4>1. i \in 1 .. n
        BY <1>1, <3>2
      <4>2. QED
        BY <1>4, <3>2, <4>1
    <3>3. QED
      BY <3>1, <3>2
  <2>2. f = rhs
    <3> HIDE DEF n
    <3>1. DOMAIN f = 0 .. n /\ DOMAIN rhs = 0 .. n
      BY <1>4
    <3>2. QED
      BY <2>1, <3>1, <1>4
  <2>3. QED
    BY <2>2
<1> DEFINE after == CHOOSE g : Turn(g)
<1>6. Turn(after)
  BY <1>5
<1>7. ThresholdLoop(s, entries) = after[n]
  BY DEF ThresholdLoop
<1>8. after[0] = s /\ \A i \in 1 .. n : after[i] = ThresholdEntry(after[i - 1], entries[i])
  <2> HIDE DEF after
  <2>1. 0 \in 0 .. n /\ \A i \in 1 .. n : i \in 0 .. n /\ i # 0
    BY <1>1
  <2> HIDE DEF n
  <2>2. after = [i \in 0 .. n |->
                   IF i = 0 THEN s ELSE ThresholdEntry(after[i - 1], entries[i])]
    BY <1>6
  <2>3. after[0] = s
    BY <2>1, <2>2
  <2>4. ASSUME NEW i \in 1 .. n
        PROVE  after[i] = ThresholdEntry(after[i - 1], entries[i])
    BY <2>1, <2>2
  <2>5. QED
    BY <2>3, <2>4
<1>9. after[n] \in LoopState
  <2> DEFINE T == {i \in 0 .. n : after[i] \in LoopState}
  <2> HIDE DEF after
  <2>1. 0 \in T
    BY <1>1, <1>8
  <2>2. ASSUME NEW i \in 1 .. n, i - 1 \in T PROVE i \in T
    <3>1. after[i - 1] \in LoopState /\ entries[i] \in Entry /\ i \in 0 .. n
      BY <1>1, <2>2
    <3>2. QED
      BY <1>8, <3>1, ThresholdEntryStays
  <2>3. 0 .. n \subseteq T
    <3> HIDE DEF T, n
    <3>1. QED
      BY <1>1, <2>1, <2>2, Climbing
  <2>4. n \in 0 .. n
    BY <1>1
  <2>5. QED
    BY <2>3, <2>4
<1>10. QED
  <2> HIDE DEF after, n
  <2>1. QED
    BY <1>7, <1>9

--------------------------------------------------------------------------------
\* sum adds up the counts.
Sums(sum, counts) ==
  /\ sum \in [0 .. MaxLines -> Nat]
  /\ sum[0] = 0 /\ \A l \in 1 .. MaxLines : sum[l] = sum[l - 1] + counts[l]
  /\ Total(counts) = sum[MaxLines]

LEMMA TotalLineByLine ==
  ASSUME NEW counts \in [1 .. MaxLines -> Nat]
  PROVE  \E sum : Sums(sum, counts)
<1> DEFINE n == MaxLines
           Turn(g) == g = [l \in 0 .. n |-> IF l = 0 THEN 0 ELSE g[l - 1] + counts[l]]
           step == [p \in (1 .. n) \X Nat |-> p[2] + counts[p[1]]]
<1>1. n \in Nat /\ \A l \in 1 .. n : counts[l] \in Nat
  BY PathBounds
<1> HIDE DEF n
<1>2. step \in [(1 .. n) \X Nat -> Nat]
  <2>1. ASSUME NEW p \in (1 .. n) \X Nat PROVE p[2] + counts[p[1]] \in Nat
    <3>1. counts[p[1]] \in Nat /\ p[2] \in Nat
      BY <1>1
    <3>2. QED
      BY <3>1
  <2>2. QED
    BY <2>1
<1>3. PICK f : Loops(f, n, Nat, 0, step)
  <2> HIDE DEF step
  <2>1. QED
    BY <1>1, <1>2, LoopEnds
<1>4. /\ f \in [0 .. n -> Nat] /\ f[0] = 0
      /\ \A l \in 1 .. n : f[l] = f[l - 1] + counts[l]
  <2>1. f \in [0 .. n -> Nat] /\ f[0] = 0 /\ \A l \in 1 .. n : f[l] = step[<<l, f[l - 1]>>]
    <3> HIDE DEF step
    <3>1. QED
      BY <1>3 DEF Loops
  <2>2. ASSUME NEW l \in 1 .. n
        PROVE  f[l] = f[l - 1] + counts[l]
    <3>1. l - 1 \in 0 .. n
      BY <1>1
    <3>2. <<l, f[l - 1]>> \in (1 .. n) \X Nat
      BY <2>1, <3>1
    <3>3. QED
      BY <2>1, <3>2
  <2>3. QED
    <3> HIDE DEF step
    <3>1. QED
      BY <2>1, <2>2
<1>5. Turn(f)
  <2> DEFINE rhs == [l \in 0 .. n |-> IF l = 0 THEN 0 ELSE f[l - 1] + counts[l]]
  <2>1. ASSUME NEW l \in 0 .. n
        PROVE  f[l] = rhs[l]
    <3>1. CASE l = 0
      BY <1>4, <3>1
    <3>2. CASE l # 0
      <4>1. l \in 1 .. n
        BY <1>1, <3>2
      <4>2. QED
        BY <1>4, <3>2, <4>1
    <3>3. QED
      BY <3>1, <3>2
  <2>2. f = rhs
    <3>1. DOMAIN f = 0 .. n /\ DOMAIN rhs = 0 .. n
      BY <1>4
    <3>2. QED
      BY <2>1, <3>1, <1>4
  <2>3. QED
    BY <2>2
<1> DEFINE sum == CHOOSE g : Turn(g)
<1>6. Turn(sum)
  BY <1>5
<1>7. Total(counts) = sum[n]
  BY DEF Total, n
<1>8. sum[0] = 0 /\ \A l \in 1 .. n : sum[l] = sum[l - 1] + counts[l]
  <2> HIDE DEF sum
  <2>1. 0 \in 0 .. n /\ \A l \in 1 .. n : l \in 0 .. n /\ l # 0
    BY <1>1
  <2>2. sum = [l \in 0 .. n |-> IF l = 0 THEN 0 ELSE sum[l - 1] + counts[l]]
    BY <1>6
  <2>3. sum[0] = 0
    BY <2>1, <2>2
  <2>4. ASSUME NEW l \in 1 .. n
        PROVE  sum[l] = sum[l - 1] + counts[l]
    BY <2>1, <2>2
  <2>5. QED
    BY <2>3, <2>4
<1>9. \A l \in 0 .. n : sum[l] = f[l]
  <2> DEFINE T == {l \in 0 .. n : sum[l] = f[l]}
  <2> HIDE DEF sum
  <2>1. 0 \in T
    BY <1>1, <1>4, <1>8
  <2>2. ASSUME NEW l \in 1 .. n, l - 1 \in T PROVE l \in T
    BY <1>1, <1>4, <1>8, <2>2
  <2>3. 0 .. n \subseteq T
    <3> HIDE DEF T
    <3>1. QED
      BY <1>1, <2>1, <2>2, Climbing
  <2>4. QED
    BY <2>3
<1>10. n \in 0 .. n
  BY <1>1
<1>11. QED
  <2> HIDE DEF sum
  <2>1. QED
    BY <1>4, <1>7, <1>9, <1>10 DEF Sums, n

\* A count of nothing becomes a count of v: the total grows by v.
LEMMA TotalGrows ==
  ASSUME NEW counts \in [1 .. MaxLines -> Nat], NEW l \in 1 .. MaxLines,
         counts[l] = 0, NEW v \in Nat
  PROVE  /\ Total(counts) \in Nat
         /\ Total([counts EXCEPT ![l] = v]) = Total(counts) + v
<1> DEFINE more == [counts EXCEPT ![l] = v]
<1>1. MaxLines \in Nat /\ \A i \in 1 .. MaxLines : counts[i] \in Nat
  BY PathBounds
<1>2. more \in [1 .. MaxLines -> Nat]
      /\ more[l] = v /\ \A i \in 1 .. MaxLines : i # l => more[i] = counts[i]
  OBVIOUS
<1> HIDE DEF more
<1>3. PICK f : Sums(f, counts)
  BY TotalLineByLine
<1>4. PICK g : Sums(g, more)
  BY <1>2, TotalLineByLine
<1>5. /\ f \in [0 .. MaxLines -> Nat] /\ f[0] = 0
      /\ \A i \in 1 .. MaxLines : f[i] = f[i - 1] + counts[i]
      /\ g \in [0 .. MaxLines -> Nat] /\ g[0] = 0
      /\ \A i \in 1 .. MaxLines : g[i] = g[i - 1] + more[i]
  BY <1>3, <1>4 DEF Sums
<1> DEFINE T == {i \in 0 .. MaxLines : g[i] = IF i < l THEN f[i] ELSE f[i] + v}
<1>6. 0 \in T
  BY <1>1, <1>5
<1>7. ASSUME NEW i \in 1 .. MaxLines, i - 1 \in T PROVE i \in T
  <2>1. /\ g[i - 1] = IF i - 1 < l THEN f[i - 1] ELSE f[i - 1] + v
        /\ f[i] = f[i - 1] + counts[i] /\ g[i] = g[i - 1] + more[i]
        /\ counts[i] \in Nat /\ i \in 0 .. MaxLines /\ i - 1 \in 0 .. MaxLines
    <3>1. g[i - 1] = IF i - 1 < l THEN f[i - 1] ELSE f[i - 1] + v
      BY <1>7
    <3>2. i \in 0 .. MaxLines /\ i - 1 \in 0 .. MaxLines
      BY <1>1
    <3>3. QED
      BY <1>1, <1>5, <3>1, <3>2
  <2>2. f[i - 1] \in Nat
    BY <1>5, <2>1
  <2>3. CASE i = l
    BY <1>2, <2>1, <2>2, <2>3
  <2>4. CASE i # l
    <3>1. more[i] = counts[i]
      BY <1>2, <2>4
    <3>2. i - 1 < l <=> i < l
      BY <2>4
    <3>3. QED
      BY <2>1, <2>2, <3>1, <3>2
  <2>5. QED
    BY <2>3, <2>4
<1>8. MaxLines \in T
  <2>1. 0 .. MaxLines \subseteq T
    <3> HIDE DEF T
    <3>1. QED
      BY <1>1, <1>6, <1>7, Climbing
  <2>2. MaxLines \in 0 .. MaxLines
    BY <1>1
  <2>3. QED
    BY <2>1, <2>2
<1>9. g[MaxLines] = f[MaxLines] + v /\ f[MaxLines] \in Nat
  BY <1>1, <1>5, <1>8
<1>10. QED
  BY <1>3, <1>4, <1>9 DEF Sums, more

LEMMA TotalOfNothing ==
  Total([l \in 1 .. MaxLines |-> 0]) = 0
<1> DEFINE none == [l \in 1 .. MaxLines |-> 0]
<1>1. MaxLines \in Nat /\ none \in [1 .. MaxLines -> Nat] /\ \A l \in 1 .. MaxLines : none[l] = 0
  BY PathBounds
<1> HIDE DEF none
<1>2. PICK f : Sums(f, none)
  BY <1>1, TotalLineByLine
<1> DEFINE T == {i \in 0 .. MaxLines : f[i] = 0}
<1>3. 0 \in T
  BY <1>1, <1>2 DEF Sums
<1>4. \A i \in 1 .. MaxLines : i - 1 \in T => i \in T
  BY <1>1, <1>2 DEF Sums
<1>5. 0 .. MaxLines \subseteq T
  <2> HIDE DEF T
  <2>1. QED
    BY <1>1, <1>3, <1>4, Climbing
<1>6. MaxLines \in 0 .. MaxLines
  BY <1>1
<1>7. QED
  BY <1>2, <1>5, <1>6 DEF Sums, none

--------------------------------------------------------------------------------
\* What WindowIs says of the number of errors in the window.
LEMMA WindowIsBounded ==
  ASSUME arrivals \in Seq(Times), WindowIs(history, arrivals)
  PROVE  BurstIsBounded
<1> SUFFICES ASSUME arrivals # <<>>
             PROVE  LET latest == Max(Range(arrivals))
                        last   == arrivals[Len(arrivals)]
                        Since(x) == Cardinality({i \in DOMAIN arrivals : arrivals[i] >= x})
                    IN  /\ Len(history) >= Since(latest - Window)
                        /\ Len(history) <= Since(last - Window - Setback)
  BY DEF BurstIsBounded
<1> DEFINE n == Len(arrivals)
           latest == Max(Range(arrivals))
           last   == arrivals[n]
           At(x)  == {i \in DOMAIN arrivals : arrivals[i] >= x}
           gaps == {arrivals[p[1]] - arrivals[p[2]] :
                      p \in {q \in (DOMAIN arrivals) \X (DOMAIN arrivals) : q[1] < q[2]}}
           back == Max({0} \cup gaps)
<1>1. /\ n \in Nat \ {0} /\ DOMAIN arrivals = 1 .. n /\ Window \in Nat /\ MaxClock \in Nat
      /\ \A i \in 1 .. n : arrivals[i] \in Nat /\ arrivals[i] <= MaxClock
  BY PathBounds, LenProperties, ElementOfSeq, EmptySeq DEF Times
<1>2. PICK k \in 0 .. n - 1 :
        /\ Len(history) = n - k
        /\ \A i \in 1 .. k : \E j \in i + 1 .. n : arrivals[j] - arrivals[i] > Window
        /\ last - arrivals[k + 1] <= Window
  <2> HIDE DEF n, last
  <2>1. \E k \in 0 .. n - 1 :
          /\ Len(history) = n - k
          /\ \A i \in 1 .. k : \E j \in i + 1 .. n : arrivals[j] - arrivals[i] > Window
          /\ last - arrivals[k + 1] <= Window
    BY DEF WindowIs, n, last
  <2>2. QED
    BY <2>1
<1>3. latest \in Int /\ \A i \in 1 .. n : arrivals[i] <= latest
  <2> DEFINE R == Range(arrivals)
  <2>1. R = {arrivals[i] : i \in 1 .. n}
    BY <1>1 DEF Range
  <2>2. R # {} /\ R \in SUBSET Int /\ MaxClock \in Int /\ \A x \in R : x <= MaxClock
    <3>1. 1 \in 1 .. n
      BY <1>1
    <3>2. arrivals[1] \in R
      BY <2>1, <3>1
    <3>3. R \in SUBSET Int /\ \A x \in R : x <= MaxClock
      BY <1>1, <2>1
    <3> HIDE DEF R
    <3>4. QED
      BY <1>1, <3>2, <3>3
  <2> HIDE DEF R, n
  <2>3. Max(R) \in R /\ \A x \in R : x <= Max(R)
    BY <2>2, MaxOf
  <2>4. QED
    BY <2>1, <2>2, <2>3 DEF R
<1>4. back \in Int /\ 0 <= back
      /\ \A i, j \in 1 .. n : i < j => arrivals[i] - arrivals[j] <= back
  <2> DEFINE R == {0} \cup gaps
  <2>1. \A x \in gaps : x \in Int /\ x <= MaxClock
    <3> SUFFICES ASSUME NEW p \in (1 .. n) \X (1 .. n)
                 PROVE  /\ arrivals[p[1]] - arrivals[p[2]] \in Int
                        /\ arrivals[p[1]] - arrivals[p[2]] <= MaxClock
      BY <1>1
    <3>1. p[1] \in 1 .. n /\ p[2] \in 1 .. n
      OBVIOUS
    <3>2. QED
      BY <1>1, <3>1
  <2>2. R \in SUBSET Int /\ R # {} /\ MaxClock \in Int /\ \A x \in R : x <= MaxClock
    <3> HIDE DEF gaps
    <3>1. QED
      BY <1>1, <2>1
  <2>3. Max(R) \in R /\ \A x \in R : x <= Max(R)
    <3> HIDE DEF R
    <3>1. QED
      BY <2>2, MaxOf
  <2>4. ASSUME NEW i \in 1 .. n, NEW j \in 1 .. n, i < j
        PROVE  arrivals[i] - arrivals[j] \in R
    <3>1. <<i, j>> \in {q \in (DOMAIN arrivals) \X (DOMAIN arrivals) : q[1] < q[2]}
      BY <1>1, <2>4
    <3>2. arrivals[<<i, j>>[1]] - arrivals[<<i, j>>[2]] \in gaps
      BY <3>1
    <3> HIDE DEF gaps
    <3>3. QED
      BY <3>2
  <2>5. 0 \in R
    OBVIOUS
  <2> HIDE DEF R, n
  <2>6. QED
    BY <2>2, <2>3, <2>4, <2>5 DEF R
<1> HIDE DEF latest, last, back, n
<1>5. ASSUME NEW x \in Int PROVE IsFiniteSet(At(x)) /\ Cardinality(At(x)) \in Nat
  <2>1. At(x) \in SUBSET (1 .. n) /\ IsFiniteSet(1 .. n)
    BY <1>1, FS_Interval
  <2> HIDE DEF At
  <2>2. QED
    BY <2>1, FS_Subset, FS_CardinalityType
<1>6. IsFiniteSet(k + 1 .. n) /\ Cardinality(k + 1 .. n) = n - k
  <2>1. k + 1 \in Int /\ n \in Int /\ ~ (k + 1 > n) /\ n - (k + 1) + 1 = n - k
    BY <1>1
  <2>2. QED
    BY <2>1, FS_Interval
<1>7. Cardinality(At(latest - Window)) <= n - k
  <2>1. ASSUME NEW i \in At(latest - Window) PROVE i \in k + 1 .. n
    <3>1. i \in 1 .. n /\ arrivals[i] >= latest - Window
      BY <1>1, <2>1
    <3>2. CASE i \in 1 .. k
      <4>1. PICK j \in i + 1 .. n : arrivals[j] - arrivals[i] > Window
        BY <1>2, <3>2
      <4>2. j \in 1 .. n
        BY <1>1, <3>1
      <4>3. arrivals[j] <= latest /\ arrivals[j] \in Int /\ arrivals[i] \in Int
        BY <1>1, <1>3, <3>1, <4>2
      <4>4. QED
        BY <1>1, <1>3, <3>1, <4>1, <4>3
    <3>3. QED
      BY <1>1, <3>1, <3>2
  <2>2. At(latest - Window) \in SUBSET (k + 1 .. n)
    <3> HIDE DEF At
    <3>1. QED
      BY <2>1
  <2> HIDE DEF At
  <2>3. QED
    BY <1>6, <2>2, FS_Subset
<1>8. n - k <= Cardinality(At(last - Window - back))
  <2> DEFINE x == last - Window - back
  <2>1. last \in Int /\ x \in Int
    BY <1>1, <1>4 DEF last
  <2>2. ASSUME NEW i \in k + 1 .. n PROVE i \in At(x)
    <3>1. i \in 1 .. n /\ k + 1 \in 1 .. n
      BY <1>1
    <3>2. arrivals[k + 1] - arrivals[i] <= back
      <4>1. CASE i = k + 1
        BY <1>1, <1>4, <3>1, <4>1
      <4>2. CASE i # k + 1
        <5>1. k + 1 < i
          BY <4>2
        <5>2. QED
          BY <1>4, <3>1, <5>1
      <4>3. QED
        BY <4>1, <4>2
    <3>3. arrivals[i] \in Int /\ arrivals[k + 1] \in Int
      BY <1>1, <3>1
    <3>4. last - arrivals[k + 1] <= Window
      BY <1>2
    <3>5. arrivals[i] >= x
      BY <1>1, <1>4, <2>1, <3>2, <3>3, <3>4
    <3>6. QED
      BY <1>1, <3>1, <3>5
  <2>3. k + 1 .. n \in SUBSET At(x)
    <3> HIDE DEF At, x
    <3>1. QED
      BY <2>2
  <2>4. IsFiniteSet(At(x))
    <3> HIDE DEF At, x
    <3>1. QED
      BY <1>5, <2>1
  <2> HIDE DEF At
  <2>5. QED
    BY <1>6, <2>3, <2>4, FS_Subset
<1>9. Setback = back
  BY DEF Setback, back
<1>10. /\ Len(history) >= Cardinality(At(latest - Window))
       /\ Len(history) <= Cardinality(At(last - Window - Setback))
  <2> HIDE DEF At
  <2>1. latest - Window \in Int /\ last - Window - back \in Int
    BY <1>1, <1>3, <1>4 DEF last
  <2>2. QED
    BY <1>1, <1>2, <1>5, <1>7, <1>8, <1>9, <2>1
<1>11. QED
  BY <1>10 DEF latest, last, n

--------------------------------------------------------------------------------
Chains == {<<"threshold">>, <<"threshold", "other">>, <<"other", "threshold">>}

\* What a thread in the middle of a line holds: nothing of its line was put out yet, it is
\* at an analyzer, or has something left for the alerts and the output.
Held == {w \in [at : {"chain", "alerts", "output"}, step : 1 .. Len(chain) + 1,
                batch : Seq(Entry), line : 1 .. lines] :
           /\ put[w.line] = 0
           /\ w.at = "chain" => w.step <= Len(chain)
           /\ w.at # "chain" => w.batch # <<>>}

\* Threads work on lines of their own.
WorkInv ==
  /\ work \in [Caller -> Held \cup {Nothing}]
  /\ \A t, u \in Caller : t # u /\ work[t].line = work[u].line => work[t].line = 0

PathTypes ==
  /\ chain \in Chains /\ dropDebug \in BOOLEAN
  /\ wallClock \in Times /\ lines \in 0 .. MaxLines
  /\ history \in Seq(Times) /\ arrivals \in Seq(Times)
  /\ errors \in 0 .. MaxErrors /\ processed \in Nat /\ unsent \in Nat
  /\ put \in [1 .. MaxLines -> Nat] /\ filtered \subseteq 1 .. MaxLines

\* The lines of which nothing was put out and nothing will be, and no plugin filtered them.
Doomed == {l \in 1 .. lines : /\ put[l] = 0 /\ l \notin filtered
                              /\ \A t \in Caller : work[t].line = l => work[t].batch = <<>>}

LossInv ==
  /\ \A l \in 1 .. MaxLines : l > lines => put[l] = 0
  /\ Cardinality(Doomed) + unsent <= errors
  /\ processed = Total(put)

PathInv == PathTypes /\ WorkInv /\ LossInv /\ WindowIs(history, arrivals)

LEMMA DoomedSize ==
  ASSUME NEW n \in Nat, NEW A \in SUBSET (1 .. n), NEW B, NEW l, B \subseteq A \cup {l}
  PROVE  /\ Cardinality(A) \in Nat /\ Cardinality(B) \in Nat
         /\ Cardinality(B) <= Cardinality(A) + 1
         /\ B \subseteq A => Cardinality(B) <= Cardinality(A)
<1>1. IsFiniteSet(A) /\ Cardinality(A) \in Nat
  <2>1. 1 \in Int /\ n \in Int
    OBVIOUS
  <2>2. IsFiniteSet(1 .. n)
    BY <2>1, FS_Interval
  <2>3. QED
    BY <2>2, FS_Subset, FS_CardinalityType
<1>2. IsFiniteSet(A \cup {l}) /\ Cardinality(A \cup {l}) \in {Cardinality(A), Cardinality(A) + 1}
  BY <1>1, FS_AddElement
<1>3. IsFiniteSet(B) /\ Cardinality(B) <= Cardinality(A \cup {l})
  BY <1>2, FS_Subset
<1>4. Cardinality(B) \in Nat
  BY <1>3, FS_CardinalityType
<1>5. B \subseteq A => Cardinality(B) <= Cardinality(A)
  BY <1>1, FS_Subset
<1>6. QED
  BY <1>1, <1>2, <1>3, <1>4, <1>5

LEMMA NothingIs ==
  Nothing.line = 0 /\ Nothing.at = "idle" /\ Nothing.batch = <<>>
BY DEF Nothing

LEMMA WorkOf ==
  ASSUME PathTypes, WorkInv, NEW t \in Caller
  PROVE  /\ work[t] = Nothing \/ work[t] \in Held
         /\ work[t].at = "idle" <=> work[t] = Nothing
         /\ work[t].at # "idle" => /\ work[t] \in Held
                                   /\ work[t].line \in 1 .. lines
                                   /\ work[t].line \in 1 .. MaxLines
                                   /\ put[work[t].line] = 0
                                   /\ work[t].batch \in Seq(Entry)
<1>1. work[t] = Nothing \/ work[t] \in Held
  BY DEF WorkInv
<1>2. work[t] \in Held => /\ work[t].at # "idle" /\ work[t].line \in 1 .. lines
                          /\ put[work[t].line] = 0 /\ work[t].batch \in Seq(Entry)
  BY DEF Held
<1>3. \A l \in 1 .. lines : l \in 1 .. MaxLines
  BY PathBounds DEF PathTypes
<1>4. QED
  BY <1>1, <1>2, <1>3, NothingIs

\* A thread goes on with its line, or is done with it.
LEMMA WorkMoves ==
  ASSUME PathTypes, WorkInv, NEW t \in Caller,
         NEW w \in Held \cup {Nothing}, w.line \in {0, work[t].line},
         work' = [work EXCEPT ![t] = w], chain' = chain, lines' = lines, put' = put
  PROVE  WorkInv'
<1>1. Held' = Held
  BY DEF Held
<1>2. work \in [Caller -> Held \cup {Nothing}]
  BY DEF WorkInv
<1>3. work' \in [Caller -> Held \cup {Nothing}]
  BY <1>2
<1>4. \A u \in Caller : work'[u] = IF u = t THEN w ELSE work[u]
  BY <1>2
<1>5. ASSUME NEW u \in Caller, NEW v \in Caller, u # v, work'[u].line = work'[v].line
      PROVE  work'[u].line = 0
  <2>1. \A x, y \in Caller : x # y /\ work[x].line = work[y].line => work[x].line = 0
    BY DEF WorkInv
  <2>2. CASE u # t /\ v # t
    BY <1>4, <1>5, <2>1, <2>2
  <2>3. CASE u = t
    BY <1>4, <1>5, <2>1, <2>3
  <2>4. CASE v = t
    BY <1>4, <1>5, <2>1, <2>4
  <2>5. QED
    BY <2>2, <2>3, <2>4
<1>6. QED
  BY <1>1, <1>3, <1>5 DEF WorkInv

\* The loop of run_analyzers goes on: what is lost on the way was filtered.
LEMMA AnalyzerGoesOn ==
  ASSUME PathTypes, WorkInv, NEW t \in Caller, work[t].at = "chain",
         NEW entries \in Seq(Entry), After(t, entries),
         chain' = chain, lines' = lines, put' = put
  PROVE  WorkInv' /\ Doomed' \subseteq Doomed /\ filtered' \subseteq 1 .. MaxLines
<1> DEFINE w    == work[t]
           next == [w EXCEPT !.batch = entries, !.step = @ + 1, !.at = NextAt(w)]
           put2 == IF next.batch = <<>> THEN Nothing ELSE next
<1>1. /\ w \in Held /\ w.line \in 1 .. lines /\ w.line \in 1 .. MaxLines
      /\ w.batch \in Seq(Entry) /\ put[w.line] = 0
  BY WorkOf
<1>2. /\ work' = [work EXCEPT ![t] = put2]
      /\ filtered' = IF Len(entries) < Len(w.batch) THEN filtered \cup {w.line} ELSE filtered
  BY DEF After, GoOn
<1>3. Len(chain) \in 1 .. 2
  BY DEF PathTypes, Chains
<1>4. w \in [at : {"chain", "alerts", "output"}, step : 1 .. Len(chain) + 1,
             batch : Seq(Entry), line : 1 .. lines]
      /\ w.at = "chain" /\ w.step <= Len(chain)
  BY <1>1 DEF Held
<1>5. /\ next.batch = entries /\ next.line = w.line
      /\ next.step = w.step + 1 /\ next.at = NextAt(w)
      /\ next \in [at : {"chain", "alerts", "output"}, step : 1 .. Len(chain) + 1,
                   batch : Seq(Entry), line : 1 .. lines]
  <2>1. NextAt(w) \in {"chain", "alerts", "output"}
    BY DEF NextAt
  <2>2. w.step + 1 \in 1 .. Len(chain) + 1
    BY <1>3, <1>4
  <2> HIDE DEF w
  <2>3. QED
    BY <1>4, <2>1, <2>2
<1>6. next.at = "chain" => next.step <= Len(chain)
  <2>1. w.step \in 1 .. Len(chain) + 1
    BY <1>4
  <2> HIDE DEF w, next
  <2>2. QED
    BY <1>3, <1>4, <1>5, <2>1 DEF NextAt
<1> HIDE DEF next
<1>7. entries # <<>> => next \in Held
  <2> HIDE DEF w
  <2>1. QED
    BY <1>1, <1>5, <1>6 DEF Held
<1>8. put2 \in Held \cup {Nothing} /\ put2.line \in {0, w.line}
      /\ (entries # <<>> => put2 = next)
  BY <1>5, <1>7, NothingIs
<1> HIDE DEF put2
<1>9. WorkInv'
  BY <1>2, <1>8, WorkMoves
<1>10. filtered' \subseteq 1 .. MaxLines
  BY <1>1, <1>2 DEF PathTypes
<1>11. ASSUME NEW l \in Doomed' PROVE l \in Doomed
  <2>1. /\ l \in 1 .. lines /\ put[l] = 0 /\ l \notin filtered'
        /\ \A u \in Caller : work'[u].line = l => work'[u].batch = <<>>
    BY <1>11 DEF Doomed
  <2>2. \A u \in Caller : work'[u] = IF u = t THEN put2 ELSE work[u]
    BY <1>2 DEF WorkInv
  <2>3. l \notin filtered
    BY <1>2, <2>1
  <2>4. ASSUME NEW u \in Caller, work[u].line = l PROVE work[u].batch = <<>>
    <3>1. CASE u # t
      BY <2>1, <2>2, <2>4, <3>1
    <3>2. CASE u = t
      <4>1. ~ (Len(entries) < Len(w.batch))
        BY <1>2, <2>1, <2>4, <3>2
      <4>2. entries = <<>>
        BY <1>5, <1>8, <2>1, <2>2, <2>4, <3>2
      <4>3. Len(w.batch) = 0
        BY <1>1, <4>1, <4>2, LenProperties, EmptySeq
      <4>4. QED
        BY <1>1, <3>2, <4>3, EmptySeq
    <3>3. QED
      BY <3>1, <3>2
  <2>5. QED
    BY <2>1, <2>3, <2>4 DEF Doomed
<1>12. QED
  BY <1>9, <1>10, <1>11

LEMMA StillWithin ==
  ASSUME NEW m \in Nat, NEW n \in Nat, m <= n, NEW u \in Nat, NEW v \in Nat, NEW e \in Nat,
         NEW f \in Nat, n + u <= e, f + u = e + v
  PROVE  m + v <= f
OBVIOUS

\* What is doomed grows only with total_errors.
LEMMA LossKept ==
  ASSUME PathTypes, LossInv, NEW l, put' = put, processed' = processed,
         lines' \in lines .. MaxLines, errors' \in Nat, unsent' \in Nat,
         \/ Doomed' \subseteq Doomed /\ errors' + unsent = errors + unsent'
         \/ Doomed' \subseteq Doomed \cup {l} /\ errors' = errors + 1 /\ unsent' = unsent
  PROVE  LossInv'
<1>1. /\ lines \in Nat /\ errors \in Nat /\ unsent \in Nat /\ MaxLines \in Nat
      /\ Cardinality(Doomed) + unsent <= errors
  BY PathBounds DEF PathTypes, LossInv
<1>2. Doomed \in SUBSET (1 .. lines) /\ Doomed' \subseteq Doomed \cup {l}
  BY DEF Doomed
<1>3. /\ Cardinality(Doomed) \in Nat /\ Cardinality(Doomed') \in Nat
      /\ Cardinality(Doomed') <= Cardinality(Doomed) + 1
      /\ Doomed' \subseteq Doomed => Cardinality(Doomed') <= Cardinality(Doomed)
  BY <1>1, <1>2, DoomedSize
<1>4. Cardinality(Doomed') + unsent' <= errors'
  <2>1. CASE Doomed' \subseteq Doomed /\ errors' + unsent = errors + unsent'
    BY <1>1, <1>3, <2>1, StillWithin
  <2>2. CASE errors' = errors + 1 /\ unsent' = unsent
    BY <1>1, <1>3, <2>2
  <2>3. QED
    BY <2>1, <2>2
<1>5. \A i \in 1 .. MaxLines : i > lines' => put'[i] = 0
  BY <1>1 DEF LossInv
<1>6. processed' = Total(put')
  BY DEF LossInv
<1>7. QED
  BY <1>4, <1>5, <1>6 DEF LossInv

LEMMA PathBegins ==
  ASSUME PathInit
  PROVE  PathInv
<1>1. /\ chain \in Chains /\ dropDebug \in BOOLEAN /\ wallClock = 1
      /\ work = [t \in Caller |-> Nothing] /\ lines = 0
      /\ history = <<>> /\ arrivals = <<>>
      /\ errors = 0 /\ processed = 0 /\ unsent = 0
      /\ put = [l \in 1 .. MaxLines |-> 0] /\ filtered = {}
  BY DEF PathInit, Chains
<1>2. PathTypes
  <2>1. <<>> \in Seq(Times)
    OBVIOUS
  <2>2. QED
    BY <1>1, <2>1, PathBounds DEF PathTypes, Times
<1>3. WorkInv
  BY <1>1, NothingIs DEF WorkInv
<1>4. LossInv
  <2>1. Doomed = {}
    BY <1>1 DEF Doomed
  <2>2. Cardinality(Doomed) = 0
    BY <2>1, FS_EmptySet
  <2>3. QED
    BY <1>1, <2>2, TotalOfNothing DEF LossInv
<1>5. WindowIs(history, arrivals)
  BY <1>1 DEF WindowIs
<1>6. QED
  BY <1>2, <1>3, <1>4, <1>5 DEF PathInv

LEMMA CollectStep ==
  ASSUME PathInv, NEW t \in Caller, NEW levels \in Batches, Collect(t, levels)
  PROVE  PathInv'
<1>1. /\ PathTypes /\ WorkInv /\ LossInv /\ WindowIs(history, arrivals)
      /\ work[t] = Nothing /\ lines \in Nat /\ MaxLines \in Nat /\ lines < MaxLines
  BY PathBounds, WorkOf DEF PathInv, PathTypes, Collect
<1> DEFINE entries == [i \in DOMAIN levels |-> [level |-> levels[i], time |-> wallClock]]
           next == [at |-> "chain", step |-> 1, line |-> lines + 1, batch |-> entries]
           w    == IF next.batch = <<>> THEN Nothing ELSE next
<1>2. /\ lines' = lines + 1 /\ work' = [work EXCEPT ![t] = w]
      /\ filtered' = IF levels = <<>> THEN filtered \cup {lines + 1} ELSE filtered
      /\ UNCHANGED <<chain, dropDebug, wallClock, history, errors, processed, put, unsent, arrivals>>
  BY DEF Collect, GoOn, rigidVars
<1>3. entries \in Seq(Entry) /\ (levels # <<>> => entries # <<>>)
  <2>1. levels \in Seq({"DEBUG", "ERROR"}) /\ wallClock \in Times
    BY <1>1, PathAssumption DEF PathTypes
  <2>2. DOMAIN levels = 1 .. Len(levels) /\ Len(levels) \in Nat
    BY <2>1, LenProperties
  <2>3. \A i \in 1 .. Len(levels) : [level |-> levels[i], time |-> wallClock] \in Entry
    BY <2>1, ElementOfSeq DEF Entry, Level, Times
  <2>4. entries \in Seq(Entry)
    BY <2>2, <2>3, IsASeq
  <2>5. levels # <<>> => 1 \in DOMAIN entries
    BY <2>1, <2>2, EmptySeq
  <2> HIDE DEF entries
  <2>6. QED
    BY <2>4, <2>5
<1>4. next \in Held' /\ next.line = lines + 1
  <2>1. put'[lines + 1] = 0 /\ lines + 1 \in 1 .. lines'
    <3>1. lines + 1 \in 1 .. MaxLines
      BY <1>1
    <3>2. QED
      BY <1>1, <1>2, <3>1 DEF LossInv
  <2>2. Len(chain') \in Nat /\ 1 <= Len(chain')
    <3>1. chain \in Chains /\ chain' = chain
      BY <1>1, <1>2 DEF PathTypes
    <3>2. Len(chain) \in 1 .. 2
      BY <3>1 DEF Chains
    <3>3. QED
      BY <3>1, <3>2
  <2> HIDE DEF entries
  <2>3. QED
    BY <1>3, <2>1, <2>2 DEF Held
<1>5. \A v \in Held : v \in Held' /\ v.line # lines + 1
  BY <1>1, <1>2 DEF Held
<1>6. w \in Held' \cup {Nothing} /\ w.line \in {0, lines + 1}
      /\ (levels # <<>> => w = next)
  <2> HIDE DEF entries
  <2>1. next.batch = entries
    OBVIOUS
  <2> HIDE DEF next
  <2>2. QED
    BY <1>3, <1>4, <2>1, NothingIs
<1> HIDE DEF next, w
<1>7. \A u \in Caller : work'[u] = IF u = t THEN w ELSE work[u]
  BY <1>1, <1>2 DEF WorkInv
<1>8. \A u \in Caller : work[u].line # lines + 1
  <2> SUFFICES ASSUME NEW u \in Caller PROVE work[u].line # lines + 1
    OBVIOUS
  <2>1. work[u] = Nothing \/ work[u] \in Held
    BY <1>1 DEF WorkInv
  <2>2. QED
    BY <1>1, <1>5, <2>1, NothingIs
<1>9. WorkInv'
  <2>1. work' \in [Caller -> Held' \cup {Nothing}]
    BY <1>1, <1>2, <1>5, <1>6 DEF WorkInv
  <2>2. ASSUME NEW u \in Caller, NEW v \in Caller, u # v, work'[u].line = work'[v].line
        PROVE  work'[u].line = 0
    <3>1. \A x, y \in Caller : x # y /\ work[x].line = work[y].line => work[x].line = 0
      BY <1>1 DEF WorkInv
    <3>2. CASE u # t /\ v # t
      BY <1>7, <2>2, <3>1, <3>2
    <3>3. CASE u = t
      BY <1>6, <1>7, <1>8, <2>2, <3>3
    <3>4. CASE v = t
      BY <1>6, <1>7, <1>8, <2>2, <3>4
    <3>5. QED
      BY <3>2, <3>3, <3>4
  <2>3. QED
    BY <2>1, <2>2 DEF WorkInv
<1>10. ASSUME NEW l \in Doomed' PROVE l \in Doomed
  <2>1. /\ l \in 1 .. lines + 1 /\ put[l] = 0 /\ l \notin filtered'
        /\ \A u \in Caller : work'[u].line = l => work'[u].batch = <<>>
    BY <1>2, <1>10 DEF Doomed
  <2>2. l # lines + 1
    <3> SUFFICES ASSUME l = lines + 1 PROVE FALSE
      OBVIOUS
    <3>1. levels # <<>>
      BY <1>2, <2>1
    <3>2. w.line = lines + 1 /\ w.batch = entries
      BY <1>6, <3>1 DEF next
    <3>3. QED
      BY <1>3, <1>7, <2>1, <3>1, <3>2
  <2>3. l \in 1 .. lines /\ l \notin filtered
    BY <1>1, <1>2, <2>1, <2>2
  <2>4. \A u \in Caller : work[u].line = l => work[u].batch = <<>>
    BY <1>1, <1>7, <2>1, NothingIs
  <2>5. QED
    BY <2>1, <2>3, <2>4 DEF Doomed
<1>11. PathTypes'
  <2>1. lines' \in 0 .. MaxLines /\ lines + 1 \in 1 .. MaxLines
    BY <1>1, <1>2
  <2>2. QED
    BY <1>1, <1>2, <2>1 DEF PathTypes
<1>12. LossInv'
  <2>1. lines' \in lines .. MaxLines /\ errors' \in Nat /\ unsent' \in Nat
        /\ errors' + unsent = errors + unsent'
    BY <1>1, <1>2, PathBounds DEF PathTypes
  <2>2. Doomed' \subseteq Doomed
    BY <1>10
  <2>3. QED
    BY <1>1, <1>2, <2>1, <2>2, LossKept
<1>13. WindowIs(history', arrivals')
  BY <1>1, <1>2
<1>14. QED
  BY <1>9, <1>11, <1>12, <1>13 DEF PathInv

LEMMA CollectThrowsStep ==
  ASSUME PathInv, NEW t \in Caller, CollectThrows(t)
  PROVE  PathInv'
<1>1. /\ PathTypes /\ WorkInv /\ LossInv /\ WindowIs(history, arrivals)
      /\ lines \in Nat /\ MaxLines \in Nat /\ lines < MaxLines
  BY PathBounds DEF PathInv, PathTypes, CollectThrows
<1>2. /\ lines' = lines + 1 /\ errors' = errors + 1 /\ errors < MaxErrors
      /\ UNCHANGED <<chain, dropDebug, wallClock, work, history, processed, put, filtered, unsent,
                     arrivals>>
  BY DEF CollectThrows, CountError, rigidVars, pastVars
<1>3. lines' \in 0 .. MaxLines /\ lines' \in lines .. MaxLines
      /\ errors' \in 0 .. MaxErrors /\ errors' \in Nat /\ unsent' \in Nat
  BY <1>1, <1>2, PathBounds DEF PathTypes
<1>4. PathTypes'
  BY <1>1, <1>2, <1>3 DEF PathTypes
<1>5. \A v \in Held : v \in Held'
  BY <1>1, <1>2 DEF Held
<1>6. WorkInv'
  BY <1>1, <1>2, <1>5 DEF WorkInv
<1>7. Doomed' \subseteq Doomed \cup {lines + 1}
  <2> SUFFICES ASSUME NEW l \in Doomed', l # lines + 1 PROVE l \in Doomed
    OBVIOUS
  <2>1. l \in 1 .. lines
    BY <1>1, <1>2 DEF Doomed
  <2>2. QED
    BY <1>2, <2>1 DEF Doomed
<1>8. LossInv'
  BY <1>1, <1>2, <1>3, <1>7, LossKept
<1>9. QED
  BY <1>1, <1>2, <1>4, <1>6, <1>8 DEF PathInv

LEMMA PathKnown ==
  ASSUME PathInv
  PROVE  /\ PathTypes /\ WorkInv /\ LossInv /\ WindowIs(history, arrivals)
         /\ lines \in Nat /\ lines \in lines .. MaxLines /\ MaxLines \in Nat
         /\ errors \in Nat /\ unsent \in Nat /\ MaxErrors \in Nat
BY PathBounds DEF PathInv, PathTypes

LEMMA ThresholdStep ==
  ASSUME PathInv, NEW t \in Caller, Threshold(t)
  PROVE  PathInv'
<1> DEFINE first == [kept |-> <<>>, history |-> history, arrivals |-> arrivals]
           s     == ThresholdLoop(first, work[t].batch)
<1>1. PathTypes /\ WorkInv /\ LossInv /\ WindowIs(history, arrivals)
  BY PathKnown
<1>2. work[t].at = "chain" /\ work[t].batch \in Seq(Entry)
  BY <1>1, WorkOf DEF Threshold, AtAnalyzer
<1>3. first \in LoopState
  BY <1>1 DEF LoopState, PathTypes
<1>4. s \in LoopState
  <2> HIDE DEF first
  <2>1. QED
    BY <1>2, <1>3, ThresholdLoopStays
<1>5. /\ After(t, s.kept) /\ history' = s.history /\ arrivals' = s.arrivals
      /\ UNCHANGED <<chain, dropDebug, wallClock, lines, errors, processed, put, unsent>>
  BY DEF Threshold, rigidVars
<1> HIDE DEF s
<1>6. /\ s.kept \in Seq(Entry)
      /\ history' \in Seq(Times) /\ arrivals' \in Seq(Times) /\ WindowIs(history', arrivals')
  BY <1>4, <1>5 DEF LoopState
<1>7. WorkInv' /\ Doomed' \subseteq Doomed /\ filtered' \subseteq 1 .. MaxLines
  BY <1>1, <1>2, <1>5, <1>6, AnalyzerGoesOn
<1>8. LossInv'
  BY <1>1, <1>5, <1>7, PathKnown, LossKept
<1>9. PathTypes'
  BY <1>1, <1>5, <1>6, <1>7 DEF PathTypes
<1>10. QED
  BY <1>6, <1>7, <1>8, <1>9 DEF PathInv

LEMMA OtherStep ==
  ASSUME PathInv, NEW t \in Caller, NEW n \in 0 .. Len(work[t].batch),
         Other(t, n)
  PROVE  PathInv'
<1>1. PathTypes /\ WorkInv /\ LossInv /\ WindowIs(history, arrivals)
  BY PathKnown
<1>2. work[t].at = "chain" /\ work[t].batch \in Seq(Entry)
  BY <1>1, WorkOf DEF Other, AtAnalyzer
<1>3. SubSeq(work[t].batch, 1, n) \in Seq(Entry)
  <2>1. Len(work[t].batch) \in Nat
    BY <1>2, LenProperties
  <2>2. \A i \in 1 .. n : work[t].batch[i] \in Entry
    BY <1>2, <2>1, ElementOfSeq
  <2>3. n \in Int /\ 1 \in Int
    BY <2>1
  <2>4. QED
    BY <1>2, <2>1, <2>2, <2>3, SubSeqProperties
<1>4. /\ After(t, SubSeq(work[t].batch, 1, n))
      /\ UNCHANGED <<chain, dropDebug, wallClock, lines, history, errors, processed, put, unsent,
                     arrivals>>
  BY DEF Other, rigidVars
<1>5. WorkInv' /\ Doomed' \subseteq Doomed /\ filtered' \subseteq 1 .. MaxLines
  BY <1>1, <1>2, <1>3, <1>4, AnalyzerGoesOn
<1>6. LossInv'
  BY <1>1, <1>4, <1>5, PathKnown, LossKept
<1>7. PathTypes'
  BY <1>1, <1>4, <1>5 DEF PathTypes
<1>8. QED
  BY <1>1, <1>4, <1>5, <1>6, <1>7 DEF PathInv

LEMMA OtherThrowsStep ==
  ASSUME PathInv, NEW t \in Caller, OtherThrows(t)
  PROVE  PathInv'
<1>1. PathTypes /\ WorkInv /\ LossInv /\ WindowIs(history, arrivals)
  BY PathKnown
<1> DEFINE v    == work[t]
           next == [v EXCEPT !.batch = <<>>, !.step = @ + 1, !.at = NextAt(v)]
           w    == IF next.at = "chain" THEN next ELSE Nothing
<1>2. v.at = "chain" /\ v \in Held
  BY <1>1, WorkOf DEF OtherThrows, AtAnalyzer
<1>3. v \in [at : {"chain", "alerts", "output"}, step : 1 .. Len(chain) + 1,
             batch : Seq(Entry), line : 1 .. lines]
      /\ put[v.line] = 0 /\ v.step <= Len(chain)
  BY <1>2 DEF Held
<1>4. Len(chain) \in 1 .. 2
  BY <1>1 DEF PathTypes, Chains
<1>5. next.batch = <<>> /\ next.line = v.line
      /\ next.step = v.step + 1 /\ next.at = NextAt(v)
      /\ next \in [at : {"chain", "alerts", "output"}, step : 1 .. Len(chain) + 1,
                   batch : Seq(Entry), line : 1 .. lines]
  <2>1. NextAt(v) \in {"chain", "alerts", "output"}
    BY DEF NextAt
  <2>2. v.step + 1 \in 1 .. Len(chain) + 1
    BY <1>3, <1>4
  <2>3. <<>> \in Seq(Entry)
    OBVIOUS
  <2> HIDE DEF v
  <2>4. QED
    BY <1>3, <2>1, <2>2, <2>3
<1>6. work' = [work EXCEPT ![t] = w]
  <2>1. work' = [work EXCEPT ![t] = IF next.at = "chain" THEN next
                                    ELSE IF next.batch = <<>> THEN Nothing ELSE next]
    BY DEF OtherThrows, GoOn
  <2> HIDE DEF next
  <2>2. QED
    BY <1>5, <2>1
<1>7. /\ errors' = errors + 1 /\ errors < MaxErrors
      /\ UNCHANGED <<chain, dropDebug, wallClock, lines, history, processed, put, filtered, unsent,
                     arrivals>>
  BY DEF OtherThrows, CountError, rigidVars, pastVars
<1>8. next.at = "chain" => next \in Held
  <2>1. next.at = "chain" => next.step <= Len(chain)
    <3>1. v.step \in 1 .. Len(chain) + 1 /\ v.step <= Len(chain)
      BY <1>3
    <3> HIDE DEF v, next
    <3>2. QED
      BY <1>4, <1>5, <3>1 DEF NextAt
  <2> HIDE DEF v, next
  <2>2. QED
    BY <1>3, <1>5, <2>1 DEF Held
<1> HIDE DEF next
<1>9. w \in Held \cup {Nothing} /\ w.line \in {0, v.line} /\ w.batch = <<>>
  BY <1>5, <1>8, NothingIs
<1> HIDE DEF w
<1>10. WorkInv'
  BY <1>1, <1>6, <1>7, <1>9, WorkMoves
<1>11. Doomed' \subseteq Doomed \cup {v.line}
  <2> SUFFICES ASSUME NEW l \in Doomed', l # v.line PROVE l \in Doomed
    OBVIOUS
  <2>1. /\ l \in 1 .. lines /\ put[l] = 0 /\ l \notin filtered
        /\ \A u \in Caller : work'[u].line = l => work'[u].batch = <<>>
    BY <1>7 DEF Doomed
  <2>2. \A u \in Caller : work'[u] = IF u = t THEN w ELSE work[u]
    BY <1>1, <1>6 DEF WorkInv
  <2>3. \A u \in Caller : work[u].line = l => work[u].batch = <<>>
    BY <2>1, <2>2
  <2>4. QED
    BY <2>1, <2>3 DEF Doomed
<1>12. errors' \in 0 .. MaxErrors /\ errors' \in Nat
  BY <1>7, PathKnown
<1>13. LossInv'
  BY <1>1, <1>7, <1>11, <1>12, PathKnown, LossKept
<1>14. PathTypes'
  BY <1>1, <1>7, <1>12 DEF PathTypes
<1>15. QED
  BY <1>1, <1>7, <1>10, <1>13, <1>14 DEF PathInv

LEMMA AlertStep ==
  ASSUME PathInv, NEW t \in Caller, NEW throws \in BOOLEAN, Alert(t, throws)
  PROVE  PathInv'
<1>1. PathTypes /\ WorkInv /\ LossInv /\ WindowIs(history, arrivals)
  BY PathKnown
<1> DEFINE v == work[t]
           w == [v EXCEPT !.at = "output"]
<1>2. v.at = "alerts" /\ v \in Held
  BY <1>1, WorkOf DEF Alert
<1>3. v \in [at : {"chain", "alerts", "output"}, step : 1 .. Len(chain) + 1,
             batch : Seq(Entry), line : 1 .. lines]
      /\ put[v.line] = 0 /\ v.batch # <<>>
  BY <1>2 DEF Held
<1>4. w \in Held /\ w.line = v.line /\ w.batch = v.batch
  <2> HIDE DEF v
  <2>1. QED
    BY <1>3 DEF Held
<1>5. work' = [work EXCEPT ![t] = w]
      /\ UNCHANGED <<chain, dropDebug, wallClock, lines, history, processed, put, filtered, arrivals>>
  BY DEF Alert, rigidVars
<1>6. \/ errors' = errors /\ unsent' = unsent
      \/ errors < MaxErrors /\ errors' = errors + 1 /\ unsent' = unsent + 1
  BY DEF Alert, CountError
<1>7. errors' \in 0 .. MaxErrors /\ errors' \in Nat /\ unsent' \in Nat
      /\ errors' + unsent = errors + unsent'
  <2>1. errors \in 0 .. MaxErrors
    BY <1>1 DEF PathTypes
  <2>2. QED
    BY <1>6, <2>1, PathKnown
<1> HIDE DEF w
<1>8. WorkInv'
  BY <1>1, <1>4, <1>5, WorkMoves
<1>9. Doomed' \subseteq Doomed
  <2>1. \A u \in Caller : work'[u].line = work[u].line /\ work'[u].batch = work[u].batch
    BY <1>1, <1>4, <1>5 DEF WorkInv
  <2>2. QED
    BY <1>5, <2>1 DEF Doomed
<1>10. LossInv'
  BY <1>1, <1>5, <1>7, <1>9, PathKnown, LossKept
<1>11. PathTypes'
  BY <1>1, <1>5, <1>7 DEF PathTypes
<1>12. QED
  BY <1>1, <1>5, <1>8, <1>10, <1>11 DEF PathInv

LEMMA OutputStep ==
  ASSUME PathInv, NEW t \in Caller, Output(t)
  PROVE  PathInv'
<1>1. PathTypes /\ WorkInv /\ LossInv /\ WindowIs(history, arrivals)
  BY PathKnown
<1> DEFINE l == work[t].line
           size == Len(work[t].batch)
<1>2. /\ work[t] \in Held /\ work[t].at = "output"
      /\ l \in 1 .. lines /\ l \in 1 .. MaxLines /\ put[l] = 0
      /\ work[t].batch \in Seq(Entry)
  BY <1>1, WorkOf DEF Output
<1>3. size \in Nat /\ size > 0
  <2>1. work[t].batch # <<>>
    BY <1>2 DEF Held
  <2>2. QED
    BY <1>2, <2>1, LenProperties, EmptySeq
<1>4. /\ put' = [put EXCEPT ![l] = size] /\ processed' = processed + size
      /\ work' = [work EXCEPT ![t] = Nothing]
      /\ UNCHANGED <<chain, dropDebug, wallClock, lines, history, errors, filtered, unsent, arrivals>>
  BY DEF Output, rigidVars
<1> HIDE DEF size
<1>5. put \in [1 .. MaxLines -> Nat] /\ processed \in Nat /\ lines \in 0 .. MaxLines
  BY <1>1 DEF PathTypes
<1>6. put' \in [1 .. MaxLines -> Nat] /\ put'[l] = size
      /\ \A i \in 1 .. MaxLines : i # l => put'[i] = put[i]
  BY <1>2, <1>3, <1>4, <1>5
<1>7. \A u \in Caller : work'[u] = IF u = t THEN Nothing ELSE work[u]
  BY <1>1, <1>4 DEF WorkInv
<1>8. WorkInv'
  <2>1. ASSUME NEW u \in Caller PROVE work'[u] \in Held' \cup {Nothing}
    <3>1. CASE u = t
      BY <1>7, <3>1
    <3>2. CASE work[u] = Nothing
      BY <1>7, <3>2
    <3>3. CASE u # t /\ work[u] # Nothing
      <4>1. work[u] \in Held /\ work'[u] = work[u]
        BY <1>1, <1>7, <3>3, WorkOf
      <4>2. work[u].line \in 1 .. lines
        BY <4>1 DEF Held
      <4>3. work[u].line # l
        BY <1>1, <1>2, <3>3, <4>2 DEF WorkInv
      <4>4. work[u].line \in 1 .. MaxLines
        BY <1>5, <4>2, PathKnown
      <4>5. put'[work[u].line] = put[work[u].line]
        BY <1>6, <4>3, <4>4
      <4>6. work[u] \in Held'
        BY <1>4, <4>1, <4>5 DEF Held
      <4>7. QED
        BY <4>1, <4>6
    <3>4. QED
      BY <3>1, <3>2, <3>3
  <2>2. work' \in [Caller -> Held' \cup {Nothing}]
    <3>1. work' = [u \in Caller |-> work'[u]]
      BY <1>1, <1>4 DEF WorkInv
    <3>2. QED
      BY <2>1, <3>1
  <2>3. ASSUME NEW u \in Caller, NEW v \in Caller, u # v, work'[u].line = work'[v].line
        PROVE  work'[u].line = 0
    <3>1. \A x, y \in Caller : x # y /\ work[x].line = work[y].line => work[x].line = 0
      BY <1>1 DEF WorkInv
    <3>2. CASE u # t /\ v # t
      BY <1>7, <2>3, <3>1, <3>2
    <3>3. CASE u = t \/ v = t
      BY <1>7, <2>3, <3>3, NothingIs
    <3>4. QED
      BY <3>2, <3>3
  <2>4. QED
    BY <2>2, <2>3 DEF WorkInv
<1>9. Doomed' \subseteq Doomed
  <2> SUFFICES ASSUME NEW i \in Doomed' PROVE i \in Doomed
    OBVIOUS
  <2>1. /\ i \in 1 .. lines /\ put'[i] = 0 /\ i \notin filtered
        /\ \A u \in Caller : work'[u].line = i => work'[u].batch = <<>>
    BY <1>4 DEF Doomed
  <2>2. i # l /\ i \in 1 .. MaxLines
    BY <1>3, <1>5, <1>6, <2>1, PathKnown
  <2>3. put[i] = 0
    BY <1>6, <2>1, <2>2
  <2>4. \A u \in Caller : work[u].line = i => work[u].batch = <<>>
    BY <1>7, <2>1, <2>2
  <2>5. QED
    BY <2>1, <2>3, <2>4 DEF Doomed
<1>10. LossInv'
  <2>1. processed' = Total(put')
    <3>1. Total([put EXCEPT ![l] = size]) = Total(put) + size
      BY <1>2, <1>3, <1>5, TotalGrows
    <3>2. QED
      BY <1>1, <1>4, <3>1 DEF LossInv
  <2>2. \A i \in 1 .. MaxLines : i > lines => put'[i] = 0
    <3> SUFFICES ASSUME NEW i \in 1 .. MaxLines, i > lines PROVE put'[i] = 0
      OBVIOUS
    <3>1. i # l
      BY <1>2, <1>5
    <3>2. QED
      BY <1>1, <1>6, <3>1 DEF LossInv
  <2>3. Cardinality(Doomed') + unsent' <= errors'
    <3>1. Doomed \in SUBSET (1 .. lines)
      BY DEF Doomed
    <3>2. /\ Cardinality(Doomed) \in Nat /\ Cardinality(Doomed') \in Nat
          /\ Cardinality(Doomed') <= Cardinality(Doomed)
      BY <1>9, <3>1, PathKnown, DoomedSize
    <3>3. Cardinality(Doomed) + unsent <= errors
      BY <1>1 DEF LossInv
    <3>4. QED
      BY <1>4, <3>2, <3>3, PathKnown
  <2>4. QED
    BY <1>4, <2>1, <2>2, <2>3 DEF LossInv
<1>11. PathTypes'
  <2>1. processed' \in Nat
    BY <1>3, <1>4, <1>5
  <2>2. QED
    BY <1>1, <1>4, <1>6, <2>1 DEF PathTypes
<1>12. QED
  BY <1>1, <1>4, <1>8, <1>10, <1>11 DEF PathInv

LEMMA StandsStill ==
  ASSUME PathInv, wallClock' \in Times,
         UNCHANGED <<chain, dropDebug, work, lines, history, errors, processed, put, filtered,
                     unsent, arrivals>>
  PROVE  PathInv'
<1>1. PathTypes'
  BY DEF PathInv, PathTypes
<1>2. WorkInv'
  BY DEF PathInv, WorkInv, Held
<1>3. LossInv'
  <2>1. Doomed' = Doomed
    BY DEF Doomed
  <2>2. QED
    BY <2>1 DEF PathInv, LossInv
<1>4. WindowIs(history', arrivals')
  BY DEF PathInv
<1>5. QED
  BY <1>1, <1>2, <1>3, <1>4 DEF PathInv

LEMMA PathStep ==
  ASSUME PathInv, [PathNext]_pathVars
  PROVE  PathInv'
<1>1. CASE ClockMoves
  <2>1. wallClock' \in Times
    BY <1>1 DEF ClockMoves, Times
  <2>2. QED
    BY <1>1, <2>1, StandsStill DEF ClockMoves, rigidVars, pastVars
<1>2. CASE UNCHANGED pathVars
  <2>1. wallClock' \in Times
    BY <1>2 DEF PathInv, PathTypes, pathVars
  <2>2. QED
    BY <1>2, <2>1, StandsStill DEF pathVars, rigidVars, pastVars
<1>3. ASSUME NEW t \in Caller,
             \/ \E levels \in Batches : Collect(t, levels)
             \/ CollectThrows(t)
             \/ Threshold(t)
             \/ \E n \in 0 .. Len(work[t].batch) : Other(t, n)
             \/ OtherThrows(t)
             \/ \E throws \in BOOLEAN : Alert(t, throws)
             \/ Output(t)
      PROVE  PathInv'
  BY <1>3, CollectStep, CollectThrowsStep, ThresholdStep, OtherStep, OtherThrowsStep,
     AlertStep, OutputStep
<1>4. QED
  BY <1>1, <1>2, <1>3 DEF PathNext

LEMMA PathInvHolds ==
  PathSpec => []PathInv
<1>1. PathInit => PathInv
  BY PathBegins
<1>2. PathInv /\ [PathNext]_pathVars => PathInv'
  BY PathStep
<1>3. QED
  BY <1>1, <1>2, PTL DEF PathSpec

LEMMA PathInvImpliesTypes ==
  ASSUME PathInv
  PROVE  PathTypeOK
<1>1. PathTypes /\ WorkInv
  BY DEF PathInv
<1> DEFINE Item == [at : {"idle", "chain", "alerts", "output"}, step : 1 .. Len(chain) + 1,
                    batch : Seq(Entry), line : 0 .. MaxLines]
<1>2. Held \subseteq Item
  <2>1. \A i \in 1 .. lines : i \in 0 .. MaxLines
    BY <1>1, PathKnown DEF PathTypes
  <2>2. QED
    BY <2>1 DEF Held
<1>3. Nothing \in Item
  <2>1. Len(chain) \in 1 .. 2
    BY <1>1 DEF PathTypes, Chains
  <2>2. 1 \in 1 .. Len(chain) + 1 /\ 0 \in 0 .. MaxLines
    BY <2>1, PathKnown
  <2>3. <<>> \in Seq(Entry)
    OBVIOUS
  <2>4. QED
    BY <2>2, <2>3 DEF Nothing
<1>4. work \in [Caller -> Item]
  <2> HIDE DEF Item
  <2>1. QED
    BY <1>1, <1>2, <1>3 DEF WorkInv
<1>5. QED
  BY <1>1, <1>4 DEF PathTypeOK, PathTypes, Times

LEMMA PathInvImpliesCounted ==
  ASSUME PathInv
  PROVE  EveryLossIsCounted
<1> DEFINE Lost == {l \in Finished \ filtered : put[l] = 0}
<1>1. PathTypes /\ LossInv
  BY DEF PathInv
<1>2. Lost \subseteq Doomed /\ Doomed \in SUBSET (1 .. lines)
  BY DEF Finished, Doomed
<1>3. Cardinality(Lost) + unsent <= errors
  <2> HIDE DEF Lost
  <2>1. /\ Cardinality(Doomed) \in Nat /\ Cardinality(Lost) \in Nat
        /\ Cardinality(Lost) <= Cardinality(Doomed)
    BY <1>2, PathKnown, DoomedSize
  <2>2. Cardinality(Doomed) + unsent <= errors
    BY <1>1 DEF LossInv
  <2>3. QED
    BY <2>1, <2>2, PathKnown
<1>4. QED
  BY <1>1, <1>3, PathInvImpliesTypes DEF EveryLossIsCounted, LossInv

\* Threads that filter, throw and overtake each other lose no line unnoticed: a line of which
\* nothing was put out was filtered or is in total_errors, and total_processed is what the
\* output callback was given.
THEOREM NoLineIsLostUncounted ==
  PathSpec => []EveryLossIsCounted
<1>1. PathInv => EveryLossIsCounted
  BY PathInvImpliesCounted
<1>2. QED
  BY <1>1, PathInvHolds, PTL

\* However the threads' times are mixed, and if the wallClock is set back, the threshold
\* analyzer's window counts every error of the last Window seconds and none that is older by
\* more than the times are out of order.
THEOREM ThresholdWindowIsRight ==
  PathSpec => []BurstIsBounded
<1>1. PathInv => BurstIsBounded
  BY WindowIsBounded DEF PathInv, PathTypes
<1>2. QED
  BY <1>1, PathInvHolds, PTL
================================================================================
