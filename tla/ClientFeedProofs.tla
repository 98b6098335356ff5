---------------------------- MODULE ClientFeedProofs ----------------------------
(***************************************************************************)
(* Proofs about ClientFeed for every capacity of buffer and list and any   *)
(* number of entries, deaths of the daemon and actions of the user: the    *)
(* list keeps within its bounds, a client that has subscribed misses       *)
(* nothing, and an entry is shown at most once for its signal and once for *)
(* every answer. What makes the second inductive is in Linked: the client  *)
(* has its slot before it asks for entries, it holds an answer only until  *)
(* it has shown it, and a daemon that is gone has nothing left to          *)
(* announce.                                                               *)
(* The third counts the answer that is not shown yet, too (CopiedInv).     *)
(***************************************************************************)
EXTENDS ClientFeed, SequenceTheorems, FiniteSetTheorems, TLAPS

Linked ==
  /\ hooks \in {0, 1}
  /\ since > 0 => hooks = 1
  /\ pc \in {"query", "apply"} => hooks = 1
  /\ pc # "apply" => reply = <<>>
  /\ ~ up => emitted = pushed

FeedInv == ListIsSound /\ Linked /\ NothingMissed

--------------------------------------------------------------------------------
\* A sequence over a set is one over any larger set.
LEMMA SeqOfLarger ==
  ASSUME NEW S, NEW T, S \subseteq T, NEW s \in Seq(S)
  PROVE  s \in Seq(T)
<1>1. Len(s) \in Nat /\ \A i \in 1 .. Len(s) : s[i] \in S
  BY LenProperties, ElementOfSeq
<1>2. s = [i \in 1 .. Len(s) |-> s[i]]
  BY LenProperties
<1>3. QED
  BY <1>1, <1>2, IsASeq

\* The members of two sequences in a row.
LEMMA RangeOfConcat ==
  ASSUME NEW S, NEW s \in Seq(S), NEW t \in Seq(S)
  PROVE  Range(s \o t) = Range(s) \cup Range(t)
<1>1. /\ Len(s) \in Nat /\ Len(t) \in Nat
      /\ DOMAIN s = 1 .. Len(s) /\ DOMAIN t = 1 .. Len(t)
      /\ s \o t \in Seq(S) /\ Len(s \o t) = Len(s) + Len(t)
      /\ DOMAIN (s \o t) = 1 .. Len(s) + Len(t)
      /\ \A i \in 1 .. Len(s) + Len(t) : (s \o t)[i] = IF i <= Len(s) THEN s[i] ELSE t[i - Len(s)]
  BY LenProperties, ConcatProperties
<1> DEFINE u == s \o t
<1> HIDE DEF u
<1>2. Range(u) \subseteq Range(s) \cup Range(t)
  <2> SUFFICES ASSUME NEW i \in 1 .. Len(s) + Len(t) PROVE u[i] \in Range(s) \cup Range(t)
    BY <1>1 DEF Range, u
  <2>1. CASE i <= Len(s)
    BY <2>1, <1>1 DEF Range, u
  <2>2. CASE ~ i <= Len(s)
    <3>1. i - Len(s) \in 1 .. Len(t)
      BY <2>2, <1>1
    <3>2. QED
      BY <3>1, <2>2, <1>1 DEF Range, u
  <2>3. QED
    BY <2>1, <2>2
<1>3. Range(s) \subseteq Range(u)
  <2> SUFFICES ASSUME NEW i \in 1 .. Len(s) PROVE s[i] \in Range(u)
    BY <1>1 DEF Range
  <2>1. i \in 1 .. Len(s) + Len(t) /\ u[i] = s[i]
    BY <1>1 DEF u
  <2>2. QED
    BY <2>1, <1>1 DEF Range, u
<1>4. Range(t) \subseteq Range(u)
  <2> SUFFICES ASSUME NEW i \in 1 .. Len(t) PROVE t[i] \in Range(u)
    BY <1>1 DEF Range
  <2>1. /\ i + Len(s) \in 1 .. Len(s) + Len(t) /\ ~ i + Len(s) <= Len(s)
        /\ (i + Len(s)) - Len(s) = i
    BY <1>1
  <2>2. u[i + Len(s)] = t[i]
    BY <2>1, <1>1 DEF u
  <2>3. QED
    BY <2>1, <2>2, <1>1 DEF Range, u
<1>5. QED
  BY <1>2, <1>3, <1>4 DEF u

\* The errors of a sequence, as indexes.
ErrorAt(s) == {i \in DOMAIN s : IsError[s[i]]}

LEMMA ErrorsAreFew ==
  ASSUME NEW S, NEW s \in Seq(S)
  PROVE  /\ IsFiniteSet(ErrorAt(s))
         /\ ErrorsIn(s) = Cardinality(ErrorAt(s))
         /\ ErrorsIn(s) \in Nat /\ Len(s) \in Nat /\ ErrorsIn(s) <= Len(s)
<1>1. Len(s) \in Nat /\ DOMAIN s = 1 .. Len(s)
  BY LenProperties
<1>2. IsFiniteSet(1 .. Len(s)) /\ Cardinality(1 .. Len(s)) = Len(s)
  BY <1>1, FS_Interval
<1>3. ErrorAt(s) \in SUBSET (1 .. Len(s))
  BY <1>1 DEF ErrorAt
<1>4. IsFiniteSet(ErrorAt(s)) /\ Cardinality(ErrorAt(s)) <= Len(s)
  BY <1>2, <1>3, FS_Subset
<1>5. QED
  BY <1>1, <1>4, FS_CardinalityType DEF ErrorsIn, ErrorAt

\* Errors of which each has its place in another sequence are not more than its errors.
LEMMA ErrorsShifted ==
  ASSUME NEW S, NEW t \in Seq(S), NEW A \in SUBSET Nat, NEW k \in Int,
         \A i \in A : i + k \in ErrorAt(t)
  PROVE  IsFiniteSet(A) /\ Cardinality(A) <= ErrorsIn(t)
<1> DEFINE f == [i \in A |-> i + k]
<1>1. IsFiniteSet(ErrorAt(t)) /\ ErrorsIn(t) = Cardinality(ErrorAt(t))
  BY ErrorsAreFew
<1>2. f \in Injection(A, ErrorAt(t))
  <2>1. f \in [A -> ErrorAt(t)]
    OBVIOUS
  <2>2. \A a, b \in A : f[a] = f[b] => a = b
    OBVIOUS
  <2>3. QED
    BY <2>1, <2>2 DEF Injection, IsInjective
<1> HIDE DEF f
<1>3. QED
  BY <1>1, <1>2, FS_Injection

LEMMA ErrorsOfConcat ==
  ASSUME NEW S, NEW s \in Seq(S), NEW t \in Seq(S)
  PROVE  ErrorsIn(s \o t) <= ErrorsIn(s) + ErrorsIn(t)
<1> DEFINE u == s \o t
           A == {i \in ErrorAt(u) : i <= Len(s)}
           B == {i \in ErrorAt(u) : ~ i <= Len(s)}
           none == 0
<1>1. /\ Len(s) \in Nat /\ Len(t) \in Nat
      /\ DOMAIN s = 1 .. Len(s) /\ DOMAIN t = 1 .. Len(t)
      /\ u \in Seq(S) /\ Len(u) = Len(s) + Len(t)
      /\ DOMAIN u = 1 .. Len(s) + Len(t)
      /\ \A i \in 1 .. Len(s) + Len(t) : u[i] = IF i <= Len(s) THEN s[i] ELSE t[i - Len(s)]
  BY LenProperties, ConcatProperties
<1> HIDE DEF u
<1>2. A \in SUBSET Nat /\ B \in SUBSET Nat /\ ErrorAt(u) = A \cup B
  BY <1>1 DEF ErrorAt
<1>3. none \in Int /\ \A i \in A : i + none \in ErrorAt(s)
  BY <1>1 DEF ErrorAt
<1>4. \A i \in B : i + (0 - Len(s)) \in ErrorAt(t)
  <2> SUFFICES ASSUME NEW i \in B PROVE i - Len(s) \in ErrorAt(t)
    BY <1>1, <1>2
  <2>1. i \in 1 .. Len(s) + Len(t) /\ ~ i <= Len(s) /\ IsError[u[i]]
    BY <1>1 DEF ErrorAt
  <2>2. i - Len(s) \in 1 .. Len(t) /\ u[i] = t[i - Len(s)]
    BY <2>1, <1>1
  <2>3. QED
    BY <2>1, <2>2, <1>1 DEF ErrorAt
<1> HIDE DEF A, B, none
<1>5. IsFiniteSet(A) /\ Cardinality(A) <= ErrorsIn(s)
  BY <1>2, <1>3, ErrorsShifted
<1>6. IsFiniteSet(B) /\ Cardinality(B) <= ErrorsIn(t)
  <2>1. 0 - Len(s) \in Int
    BY <1>1
  <2>2. QED
    BY <2>1, <1>2, <1>4, ErrorsShifted
<1>7. Cardinality(A \cup B) = Cardinality(A) + Cardinality(B) - Cardinality(A \cap B)
  BY <1>5, <1>6, FS_Union
<1>8. /\ Cardinality(A) \in Nat /\ Cardinality(B) \in Nat /\ Cardinality(A \cap B) \in Nat
  <2>1. IsFiniteSet(A \cap B)
    BY <1>5, FS_Subset
  <2>2. QED
    BY <2>1, <1>5, <1>6, FS_CardinalityType
<1>9. ErrorsIn(u) = Cardinality(A \cup B)
  BY <1>1, <1>2, ErrorsAreFew
<1>10. ErrorsIn(s) \in Nat /\ ErrorsIn(t) \in Nat
  BY ErrorsAreFew
<1>11. QED
  BY <1>5, <1>6, <1>7, <1>8, <1>9, <1>10 DEF u

\* What is left of a list that had too many rows.
LEMMA EnforceFacts ==
  ASSUME NEW S, NEW s \in Seq(S)
  PROVE  /\ Enforce(s) \in Seq(S)
         /\ Len(Enforce(s)) <= RowCapacity /\ Len(Enforce(s)) <= Len(s)
         /\ ErrorsIn(Enforce(s)) <= ErrorsIn(s)
         /\ Range(Enforce(s)) \subseteq Range(s)
<1> DEFINE k == Larger(0, Len(s) - RowCapacity)
           e == Enforce(s)
<1>1. /\ Len(s) \in Nat /\ DOMAIN s = 1 .. Len(s) /\ RowCapacity \in Nat \ {0}
      /\ \A i \in 1 .. Len(s) : s[i] \in S
  BY LenProperties, ElementOfSeq, CapacityAssumption
<1>2. k \in 0 .. Len(s) /\ Len(s) - k <= RowCapacity
  BY <1>1 DEF Larger
<1> HIDE DEF k
<1>3. e = SubSeq(s, k + 1, Len(s))
  BY DEF Enforce, k
<1>4. /\ e \in Seq(S) /\ Len(e) = Len(s) - k
      /\ \A i \in 1 .. Len(s) - k : e[i] = s[i + k]
  <2>1. \A i \in k + 1 .. Len(s) : s[i] \in S
    BY <1>1, <1>2
  <2>2. k + 1 \in Int /\ Len(s) \in Int
    BY <1>1, <1>2
  <2>3. /\ SubSeq(s, k + 1, Len(s)) \in Seq(S)
        /\ Len(SubSeq(s, k + 1, Len(s))) = IF k + 1 <= Len(s) THEN Len(s) - (k + 1) + 1 ELSE 0
        /\ \A i \in 1 .. Len(s) - (k + 1) + 1 : SubSeq(s, k + 1, Len(s))[i] = s[k + 1 + i - 1]
    BY <2>1, <2>2, SubSeqProperties
  <2>4. Len(e) = Len(s) - k
    <3>1. Len(e) = IF k + 1 <= Len(s) THEN Len(s) - (k + 1) + 1 ELSE 0
      BY <2>3, <1>3
    <3>2. k \in Int /\ Len(s) \in Int /\ k <= Len(s)
      BY <1>1, <1>2
    <3> HIDE DEF e
    <3>3. QED
      BY <3>1, <3>2
  <2>5. \A i \in 1 .. Len(s) - k : e[i] = s[i + k]
    <3>1. Len(s) - (k + 1) + 1 = Len(s) - k
      BY <1>1, <1>2
    <3>2. \A i \in 1 .. Len(s) - k : k + 1 + i - 1 = i + k
      BY <1>1, <1>2
    <3>3. QED
      BY <3>1, <3>2, <2>3, <1>3
  <2>6. QED
    BY <2>3, <2>4, <2>5, <1>3
<1> HIDE DEF e
<1>5. DOMAIN e = 1 .. Len(s) - k /\ \A i \in 1 .. Len(s) - k : i + k \in 1 .. Len(s)
  BY <1>1, <1>2, <1>4, LenProperties
<1>6. ErrorsIn(e) <= ErrorsIn(s)
  <2>1. ErrorAt(e) \in SUBSET Nat /\ k \in Int
    BY <1>1, <1>2, <1>5 DEF ErrorAt
  <2>2. \A i \in ErrorAt(e) : i + k \in ErrorAt(s)
    BY <1>1, <1>4, <1>5 DEF ErrorAt
  <2>3. Cardinality(ErrorAt(e)) <= ErrorsIn(s)
    BY <2>1, <2>2, ErrorsShifted
  <2>4. QED
    BY <2>3, <1>4, ErrorsAreFew
<1>7. Range(e) \subseteq Range(s)
  BY <1>1, <1>4, <1>5 DEF Range
<1>8. QED
  BY <1>1, <1>2, <1>4, <1>6, <1>7 DEF e

\* Rows are added: nothing that was there or came is lost without being counted as gone.
LEMMA AppendFacts ==
  ASSUME NEW S, NEW items \in Seq(S), rows \in Seq(S), gone \subseteq S, AppendRows(items),
         total \in Nat, errors \in Nat, Len(rows) <= total, ErrorsIn(rows) <= errors,
         errors <= total
  PROVE  /\ rows' \in Seq(S) /\ gone' \subseteq S
         /\ total' \in Nat /\ errors' \in Nat
         /\ Len(rows') <= RowCapacity /\ Len(rows') <= total'
         /\ ErrorsIn(rows)' <= errors' /\ errors' <= total'
         /\ Range(rows) \cup Range(items) \cup gone \subseteq Range(rows') \cup gone'
<1> DEFINE all == rows \o items
<1>1. all \in Seq(S) /\ Len(all) = Len(rows) + Len(items)
  BY ConcatProperties
<1>2. Range(all) = Range(rows) \cup Range(items)
  BY RangeOfConcat
<1>3. ErrorsIn(all) <= ErrorsIn(rows) + ErrorsIn(items)
  BY ErrorsOfConcat
<1>4. /\ ErrorsIn(rows) \in Nat /\ ErrorsIn(items) \in Nat /\ ErrorsIn(items) <= Len(items)
      /\ Len(rows) \in Nat /\ Len(items) \in Nat
  BY ErrorsAreFew
<1> HIDE DEF all
<1>5. /\ rows' = Enforce(all) /\ total' = total + Len(items) /\ errors' = errors + ErrorsIn(items)
      /\ gone' = gone \cup (Range(all) \ Range(rows'))
  BY DEF AppendRows, all
<1>6. /\ Enforce(all) \in Seq(S) /\ Len(Enforce(all)) <= RowCapacity
      /\ Len(Enforce(all)) <= Len(all)
      /\ ErrorsIn(Enforce(all)) <= ErrorsIn(all) /\ Range(Enforce(all)) \subseteq Range(all)
  BY <1>1, EnforceFacts
<1>7. /\ Len(Enforce(all)) \in Nat /\ ErrorsIn(all) \in Nat /\ ErrorsIn(Enforce(all)) \in Nat
  BY <1>1, <1>6, ErrorsAreFew
<1>8. Range(all) \subseteq S
  BY <1>1, LenProperties, ElementOfSeq DEF Range
<1>9. ErrorsIn(rows)' = ErrorsIn(Enforce(all))
  BY <1>5 DEF ErrorsIn
<1>10. QED
  BY <1>1, <1>2, <1>3, <1>4, <1>5, <1>6, <1>7, <1>8, <1>9

--------------------------------------------------------------------------------
LEMMA InitFeed == Init => FeedInv
<1> SUFFICES ASSUME Init PROVE FeedInv
  OBVIOUS
<1>1. /\ ErrorsIn(<<>>) = 0
      /\ \A S : <<>> \in Seq(S)
  BY FS_EmptySet DEF ErrorsIn
<1>2. RowCapacity \in Nat
  BY CapacityAssumption
<1>3. TypeOK
  <2>1. MaxEntries \in Nat /\ MaxKills \in Nat /\ MaxClicks \in Nat
    BY BoundsAssumption
  <2>2. /\ {inbox, reply, rows} \subseteq Seq(Entry) /\ gone \subseteq Entry
        /\ {up, connected, timer} \subseteq BOOLEAN /\ pc = "new"
        /\ base = 0 /\ emitted = 0 /\ pushed = 0 /\ hooks = 0 /\ total = 0 /\ errors = 0
        /\ answers = 0 /\ since = 0 /\ kills = 0 /\ clicks = 0
    BY <1>1 DEF Init
  <2>3. QED
    BY <2>1, <2>2 DEF TypeOK
<1>4. ListIsSound
  BY <1>1, <1>2, <1>3 DEF Init, ListIsSound
<1>5. Linked /\ NothingMissed
  BY DEF Init, Linked, NothingMissed
<1>6. QED
  BY <1>4, <1>5 DEF FeedInv

\* What the steps that add no rows leave of the list.
LEMMA SameList ==
  ASSUME ListIsSound, TypeOK', UNCHANGED listVars
  PROVE  ListIsSound'
BY DEF ListIsSound, listVars, ErrorsIn

\* The daemon takes an entry in, announces one, is killed, is started.
LEMMA DaemonKeeps ==
  ASSUME FeedInv, Daemon
  PROVE  FeedInv'
<1>1. /\ ListIsSound /\ TypeOK /\ Linked /\ NothingMissed
      /\ base \in Nat /\ emitted \in Nat /\ pushed \in Nat /\ pushed <= MaxEntries
      /\ base <= emitted /\ emitted <= pushed /\ MaxEntries \in Nat
  BY BoundsAssumption DEF FeedInv, ListIsSound, TypeOK
<1>2. CASE Push
  <2>1. /\ pushed' = pushed + 1 /\ pushed' <= MaxEntries
        /\ UNCHANGED <<up, base, emitted, linkVars, listVars, since, countVars>>
    BY <1>1, <1>2 DEF Push
  <2>2. Entry \subseteq Entry'
    BY <2>1, <1>1 DEF Entry
  <2>3. {inbox, reply, rows} \subseteq Seq(Entry') /\ gone \subseteq Entry'
    BY <2>2, <1>1, SeqOfLarger DEF TypeOK
  <2>4. TypeOK'
    BY <2>1, <2>3, <1>1 DEF TypeOK, linkVars, listVars, countVars
  <2>5. Linked' /\ NothingMissed'
    BY <2>1, <1>1, <1>2 DEF Push, Linked, NothingMissed, linkVars, listVars
  <2>6. QED
    BY <2>1, <2>4, <2>5, <1>1, SameList DEF FeedInv
<1>3. CASE Emit
  <2> DEFINE news == [i \in 1 .. hooks |-> emitted + 1]
  <2>1. /\ emitted' = emitted + 1 /\ emitted' <= pushed /\ inbox' = inbox \o news
        /\ UNCHANGED <<up, base, pushed, pc, connected, timer, hooks, reply, listVars, since, countVars>>
        /\ up
    BY <1>1, <1>3 DEF Emit
  <2>2. news \in Seq(Entry)
    <3>1. emitted + 1 \in Entry
      BY <2>1, <1>1 DEF Entry
    <3>2. hooks \in Nat
      BY <1>1 DEF Linked
    <3>3. QED
      BY <3>1, <3>2, IsASeq
  <2>3. hooks = 1 => emitted + 1 \in Range(news)
    BY DEF Range
  <2> HIDE DEF news
  <2>4. /\ inbox \in Seq(Entry) /\ inbox' \in Seq(Entry)
        /\ Range(inbox') = Range(inbox) \cup Range(news)
    BY <2>1, <2>2, <1>1, ConcatProperties, RangeOfConcat DEF TypeOK
  <2>5. TypeOK'
    BY <2>1, <2>4, <1>1 DEF TypeOK, Entry, listVars, countVars
  <2>6. NothingMissed'
    <3> SUFFICES ASSUME hooks > 0, since > 0, NEW e \in since .. emitted + 1
                 PROVE  e \in Range(rows) \cup Range(inbox') \cup Range(reply) \cup gone
      BY <2>1 DEF NothingMissed, listVars
    <3>1. CASE e = emitted + 1
      BY <3>1, <2>3, <2>4, <1>1 DEF Linked
    <3>2. CASE e # emitted + 1
      <4>1. since \in Nat
        BY <1>1 DEF TypeOK
      <4>2. e \in since .. emitted
        BY <3>2, <4>1, <1>1
      <4>3. QED
        BY <4>2, <2>1, <2>4, <1>1 DEF NothingMissed
    <3>3. QED
      BY <3>1, <3>2
  <2>7. Linked'
    BY <2>1, <1>1 DEF Linked
  <2>8. QED
    BY <2>1, <2>5, <2>6, <2>7, <1>1, SameList DEF FeedInv
<1>4. CASE Kill
  <2>1. TypeOK'
    <3>1. /\ up' \in BOOLEAN /\ emitted' = pushed /\ since' = 0 /\ kills' = kills + 1
          /\ kills < MaxKills
          /\ UNCHANGED <<base, pushed, linkVars, listVars, answers, clicks>>
      BY <1>4 DEF Kill
    <3>2. kills' \in 0 .. MaxKills /\ since' \in 0 .. pushed' + 1
      BY <3>1, <1>1, BoundsAssumption DEF TypeOK
    <3>3. base' <= emitted' /\ emitted' <= pushed' /\ {base, emitted, pushed}' \subseteq 0 .. MaxEntries
      BY <3>1, <1>1
    <3>4. QED
      BY <3>1, <3>2, <3>3, <1>1 DEF TypeOK, Entry, linkVars, listVars
  <2>2. Linked' /\ NothingMissed'
    BY <1>1, <1>4 DEF Kill, Linked, NothingMissed, linkVars
  <2>3. QED
    BY <2>1, <2>2, <1>1, <1>4, SameList DEF FeedInv, Kill
<1>5. CASE Restart
  <2>1. TypeOK'
    <3>1. /\ up' \in BOOLEAN /\ base' = pushed /\ since' \in {0, pushed + 1}
          /\ UNCHANGED <<pushed, emitted, linkVars, listVars, countVars>> /\ emitted = pushed
      BY <1>1, <1>5 DEF Restart, Linked
    <3>2. since' \in 0 .. pushed' + 1 /\ base' <= emitted' /\ emitted' <= pushed'
          /\ {base, emitted, pushed}' \subseteq 0 .. MaxEntries
      BY <3>1, <1>1
    <3>3. {up, connected, timer}' \subseteq BOOLEAN
      BY <3>1, <1>1 DEF TypeOK, linkVars
    <3>4. {inbox, reply, rows}' \subseteq Seq(Entry') /\ gone' \subseteq Entry'
      BY <3>1, <1>1 DEF TypeOK, Entry, linkVars, listVars
    <3>5. QED
      BY <3>1, <3>2, <3>3, <3>4, <1>1 DEF TypeOK, linkVars, listVars, countVars
  <2>2. Linked'
    BY <1>1, <1>5 DEF Restart, Linked, linkVars
  <2>3. NothingMissed'
    BY <1>1, <1>5 DEF Restart, Linked, NothingMissed, linkVars
  <2>4. QED
    BY <2>1, <2>2, <2>3, <1>1, <1>5, SameList DEF FeedInv, Restart
<1>6. QED
  BY <1>2, <1>3, <1>4, <1>5 DEF Daemon

\* Connecting, and what the timer and the user do about it.
LEMMA LinkKeeps ==
  ASSUME FeedInv, StartClient \/ Tick \/ MenuReconnect
  PROVE  FeedInv'
<1>1. ListIsSound /\ TypeOK /\ Linked /\ NothingMissed
  BY DEF FeedInv, ListIsSound
<1>2. /\ UNCHANGED <<daemonVars, hooks, inbox, reply, listVars, since, answers, kills>>
      /\ pc \in {"new", "idle"} /\ pc' \in {"new", "idle", "subscribe"}
      /\ connected' \in BOOLEAN /\ timer' \in BOOLEAN
      /\ clicks' \in 0 .. MaxClicks
  <2>1. {connected, timer} \subseteq BOOLEAN /\ clicks \in 0 .. MaxClicks /\ MaxClicks \in Nat
    BY <1>1, BoundsAssumption DEF TypeOK
  <2>2. Connect => /\ connected' \in BOOLEAN /\ timer' \in BOOLEAN
                   /\ pc' = pc \/ pc' = "subscribe"
    BY <2>1 DEF Connect, ConnectOrder, Retry
  <2>3. CASE StartClient
    BY <2>1, <2>2, <2>3 DEF StartClient, Retry, countVars
  <2>4. CASE Tick
    BY <2>1, <2>2, <2>4 DEF Tick, countVars
  <2>5. CASE MenuReconnect
    BY <2>1, <2>2, <2>5 DEF MenuReconnect
  <2>6. QED
    BY <2>3, <2>4, <2>5
<1>3. TypeOK'
  BY <1>1, <1>2 DEF TypeOK, Entry, daemonVars, listVars
<1>4. Linked' /\ NothingMissed'
  BY <1>1, <1>2 DEF Linked, NothingMissed, daemonVars, listVars
<1>5. QED
  BY <1>1, <1>2, <1>3, <1>4, SameList DEF FeedInv

\* Subscribing and asking.
LEMMA AskKeeps ==
  ASSUME FeedInv, Subscribe \/ Answer \/ NoAnswer
  PROVE  FeedInv'
<1>1. /\ ListIsSound /\ TypeOK /\ Linked /\ NothingMissed
      /\ base \in Nat /\ emitted \in Nat /\ pushed \in Nat
      /\ base <= emitted /\ emitted <= pushed /\ since \in 0 .. pushed + 1
  BY DEF FeedInv, ListIsSound, TypeOK
<1>2. CASE Subscribe
  <2>1. /\ hooks' = 1 /\ pc' = "query"
        /\ since' = IF up THEN SinceWith(emitted + 1) ELSE since
        /\ UNCHANGED <<daemonVars, connected, timer, inbox, reply, listVars, countVars>>
    BY <1>2 DEF Subscribe, OneHook, ConnectOrder
  <2>2. since' \in 0 .. pushed + 1
    BY <2>1, <1>1 DEF SinceWith
  <2>3. TypeOK'
    BY <2>1, <2>2, <1>1 DEF TypeOK, Entry, daemonVars, listVars, countVars
  <2>4. NothingMissed'
    <3> SUFFICES ASSUME up, since' > 0, NEW e \in since' .. emitted
                 PROVE  e \in Range(rows) \cup Range(inbox) \cup Range(reply) \cup gone
      BY <2>1 DEF NothingMissed, daemonVars, listVars
    <3>1. since > 0 /\ e \in since .. emitted
      BY <2>1, <1>1 DEF SinceWith
    <3>2. QED
      BY <3>1, <1>1 DEF NothingMissed, Linked
  <2>5. Linked'
    BY <2>1, <1>1, <1>2 DEF Linked, Subscribe, daemonVars
  <2>6. QED
    BY <2>1, <2>3, <2>4, <2>5, <1>1, SameList DEF FeedInv
<1>3. CASE Answer
  <2> DEFINE oldest == Larger(Larger(base, pushed - Capacity), pushed - Limit) + 1
             n == pushed - oldest + 1
             new == [i \in 1 .. n |-> pushed + 1 - i]
  <2>1. /\ reply' = new /\ since' = SinceWith(oldest) /\ pc' = "apply" /\ pc = "query" /\ up
        /\ answers' = answers + 1
        /\ UNCHANGED <<daemonVars, connected, timer, hooks, inbox, listVars, kills, clicks>>
    BY <1>3, Zenon DEF Answer
  <2>2. oldest \in 1 .. pushed + 1 /\ n \in Nat /\ n = pushed - oldest + 1
    BY <1>1, CapacityAssumption DEF Larger
  <2> HIDE DEF oldest, n
  <2>3. \A i \in 1 .. n : pushed + 1 - i \in Entry
    BY <2>2, <1>1 DEF Entry
  <2>4. new \in Seq(Entry)
    BY <2>2, <2>3, IsASeq
  <2>5. \A e \in oldest .. pushed : e \in Range(new)
    <3> SUFFICES ASSUME NEW e \in oldest .. pushed PROVE e \in Range(new)
      OBVIOUS
    <3>1. pushed + 1 - e \in 1 .. n /\ pushed + 1 - (pushed + 1 - e) = e
      BY <2>2, <1>1
    <3>2. QED
      BY <3>1 DEF Range
  <2> HIDE DEF new
  <2>6. since' \in 0 .. pushed + 1 /\ answers' \in Nat
    BY <2>1, <2>2, <1>1 DEF SinceWith, TypeOK
  <2>7. TypeOK'
    BY <2>1, <2>4, <2>6, <1>1 DEF TypeOK, Entry, daemonVars, listVars
  <2>8. NothingMissed'
    <3> SUFFICES ASSUME NEW e \in since' .. emitted
                 PROVE  e \in Range(rows) \cup Range(inbox) \cup Range(new) \cup gone
      BY <2>1 DEF NothingMissed, daemonVars, listVars
    <3>1. CASE e >= oldest
      BY <3>1, <2>2, <2>5, <2>6, <1>1
    <3>2. CASE ~ e >= oldest
      <4>1. since > 0 /\ e \in since .. emitted
        BY <3>2, <2>1, <2>2, <1>1 DEF SinceWith
      <4>2. reply = <<>> /\ hooks > 0
        BY <2>1, <1>1 DEF Linked
      <4>3. Range(reply) = {}
        BY <4>2 DEF Range
      <4>4. QED
        BY <4>1, <4>2, <4>3, <2>1, <1>1 DEF NothingMissed
    <3>3. QED
      BY <3>1, <3>2
  <2>9. Linked'
    BY <2>1, <1>1 DEF Linked, daemonVars
  <2>10. QED
    BY <2>1, <2>7, <2>8, <2>9, <1>1, SameList DEF FeedInv
<1>4. CASE NoAnswer
  <2>1. /\ reply = <<>> /\ reply' = <<>> /\ pc' = "idle"
        /\ UNCHANGED <<daemonVars, connected, timer, hooks, inbox, listVars, since, countVars>>
    BY <1>1, <1>4 DEF NoAnswer, Linked, ConnectOrder
  <2>2. TypeOK'
    BY <2>1, <1>1 DEF TypeOK, Entry, daemonVars, listVars, countVars
  <2>3. Linked' /\ NothingMissed'
    BY <2>1, <1>1 DEF Linked, NothingMissed, daemonVars, listVars
  <2>4. QED
    BY <2>1, <2>2, <2>3, <1>1, SameList DEF FeedInv
<1>5. QED
  BY <1>2, <1>3, <1>4

\* Showing and clearing.
LEMMA RowsKeep ==
  ASSUME FeedInv, ApplyReply \/ Receive \/ Clear
  PROVE  FeedInv'
<1>1. /\ ListIsSound /\ TypeOK /\ Linked /\ NothingMissed
      /\ {inbox, reply, rows} \subseteq Seq(Entry) /\ gone \subseteq Entry
      /\ total \in Nat /\ errors \in Nat
  BY DEF FeedInv, ListIsSound, TypeOK
<1>2. CASE ApplyReply
  <2>1. /\ AppendRows(reply) /\ reply' = <<>> /\ pc' = "idle"
        /\ UNCHANGED <<daemonVars, connected, timer, hooks, inbox, since, countVars>>
    BY <1>2 DEF ApplyReply, ConnectOrder
  <2>2. /\ rows' \in Seq(Entry) /\ gone' \subseteq Entry
        /\ total' \in Nat /\ errors' \in Nat
        /\ Len(rows') <= RowCapacity /\ Len(rows') <= total'
        /\ ErrorsIn(rows)' <= errors' /\ errors' <= total'
        /\ Range(rows) \cup Range(reply) \cup gone \subseteq Range(rows') \cup gone'
    BY <2>1, <1>1, AppendFacts DEF ListIsSound
  <2>3. TypeOK'
    BY <2>1, <2>2, <1>1 DEF TypeOK, Entry, daemonVars, countVars
  <2>4. ListIsSound'
    BY <2>2, <2>3 DEF ListIsSound
  <2>5. NothingMissed'
    BY <2>1, <2>2, <1>1 DEF NothingMissed, daemonVars
  <2>6. Linked'
    BY <2>1, <1>1 DEF Linked, daemonVars
  <2>7. QED
    BY <2>4, <2>5, <2>6 DEF FeedInv
<1>3. CASE Receive
  <2> DEFINE item == <<Head(inbox)>>
  <2>1. /\ AppendRows(item) /\ inbox # <<>> /\ inbox' = Tail(inbox)
        /\ UNCHANGED <<daemonVars, pc, connected, timer, hooks, reply, since, countVars>>
    BY <1>3 DEF Receive
  <2>2. Head(inbox) \in Entry /\ inbox' \in Seq(Entry) /\ item \in Seq(Entry)
    BY <2>1, <1>1, HeadTailProperties
  <2>3. Range(inbox) \subseteq Range(item) \cup Range(inbox')
    <3>1. inbox = item \o inbox'
      <4>1. inbox = <<Head(inbox)>> \o Tail(inbox)
        BY <2>1, <1>1
      <4>2. QED
        BY <4>1, <2>1
    <3>2. QED
      BY <3>1, <2>2, RangeOfConcat
  <2> HIDE DEF item
  <2>4. /\ rows' \in Seq(Entry) /\ gone' \subseteq Entry
        /\ total' \in Nat /\ errors' \in Nat
        /\ Len(rows') <= RowCapacity /\ Len(rows') <= total'
        /\ ErrorsIn(rows)' <= errors' /\ errors' <= total'
        /\ Range(rows) \cup Range(item) \cup gone \subseteq Range(rows') \cup gone'
    BY <2>1, <2>2, <1>1, AppendFacts DEF ListIsSound
  <2>5. TypeOK'
    BY <2>1, <2>2, <2>4, <1>1 DEF TypeOK, Entry, daemonVars, countVars
  <2>6. ListIsSound'
    BY <2>4, <2>5 DEF ListIsSound
  <2>7. NothingMissed'
    BY <2>1, <2>3, <2>4, <1>1 DEF NothingMissed, daemonVars
  <2>8. Linked'
    BY <2>1, <1>1 DEF Linked, daemonVars
  <2>9. QED
    BY <2>6, <2>7, <2>8 DEF FeedInv
<1>4. CASE Clear
  <2>1. /\ rows' = <<>> /\ gone' = gone \cup Range(rows) /\ total' = 0 /\ errors' = 0
        /\ UNCHANGED <<daemonVars, linkVars, since, answers, kills>>
        /\ clicks < MaxClicks /\ clicks' = clicks + 1
    BY <1>4 DEF Clear
  <2>2. gone' \subseteq Entry
    BY <2>1, <1>1, LenProperties, ElementOfSeq DEF Range
  <2>3. clicks' \in 0 .. MaxClicks
    BY <2>1, <1>1, BoundsAssumption DEF TypeOK
  <2>4. TypeOK'
    BY <2>1, <2>2, <2>3, <1>1 DEF TypeOK, Entry, daemonVars, linkVars
  <2>5. ErrorsIn(rows)' = 0 /\ Len(rows') = 0 /\ RowCapacity \in Nat
    BY <2>1, FS_EmptySet, CapacityAssumption DEF ErrorsIn
  <2>6. ListIsSound'
    BY <2>1, <2>4, <2>5 DEF ListIsSound
  <2>7. Linked' /\ NothingMissed'
    BY <2>1, <1>1 DEF Linked, NothingMissed, daemonVars, linkVars
  <2>8. QED
    BY <2>6, <2>7 DEF FeedInv
<1>5. QED
  BY <1>2, <1>3, <1>4

LEMMA NextFeed == FeedInv /\ [Next]_vars => FeedInv'
<1> SUFFICES ASSUME FeedInv, [Next]_vars PROVE FeedInv'
  OBVIOUS
<1>1. CASE UNCHANGED vars
  <2>1. TypeOK' /\ UNCHANGED listVars
    BY <1>1 DEF FeedInv, ListIsSound, TypeOK, Entry, vars, daemonVars, linkVars, listVars, countVars
  <2>2. Linked' /\ NothingMissed'
    BY <1>1 DEF FeedInv, Linked, NothingMissed, vars, daemonVars, linkVars, listVars
  <2>3. QED
    BY <2>1, <2>2, SameList DEF FeedInv
<1>2. QED
  BY <1>1, DaemonKeeps, LinkKeeps, AskKeeps, RowsKeep DEF Next, Client, User

\* The client's list keeps within its capacity and its counters cover what it shows
\* (enforce_capacity, appendLogs), whatever the daemon answers.
THEOREM ListStaysSound == Spec => []ListIsSound
BY InitFeed, NextFeed, PTL DEF Spec, FeedInv

\* A client that has subscribed misses nothing: onConnected() subscribes before it asks,
\* and the bus goes on delivering when the daemon is started again.
THEOREM NothingIsMissed == Spec => []NothingMissed
BY InitFeed, NextFeed, PTL DEF Spec, FeedInv
--------------------------------------------------------------------------------
\* The copies of an entry in a sequence.
At(s, e) == {i \in 1 .. Len(s) : s[i] = e}
Copies(s, e) == Cardinality(At(s, e))

\* Places of which each has its shifted place in another set are not more than these.
LEMMA Shifted ==
  ASSUME NEW A \in SUBSET Int, NEW B \in SUBSET Int, NEW k \in Int, IsFiniteSet(B),
         \A i \in A : i + k \in B
  PROVE  IsFiniteSet(A) /\ Cardinality(A) <= Cardinality(B)
<1> DEFINE f == [i \in A |-> i + k]
<1>1. f \in [A -> B]
  OBVIOUS
<1>2. \A a, b \in A : f[a] = f[b] => a = b
  OBVIOUS
<1>3. f \in Injection(A, B)
  BY <1>1, <1>2 DEF Injection, IsInjective
<1> HIDE DEF f
<1>4. QED
  BY <1>3, FS_Injection

LEMMA CopiesAreFew ==
  ASSUME NEW S, NEW s \in Seq(S), NEW e
  PROVE  IsFiniteSet(At(s, e)) /\ Copies(s, e) \in Nat
<1>1. IsFiniteSet(1 .. Len(s)) /\ At(s, e) \subseteq 1 .. Len(s)
  BY LenProperties, FS_Interval DEF At
<1>2. IsFiniteSet(At(s, e))
  BY <1>1, FS_Subset
<1>3. QED
  BY <1>2, FS_CardinalityType DEF Copies

LEMMA NoCopies ==
  ASSUME NEW S, NEW s \in Seq(S), NEW e, e \notin S
  PROVE  Copies(s, e) = 0
<1>1. At(s, e) = {}
  BY ElementOfSeq DEF At
<1>2. QED
  BY <1>1, FS_EmptySet DEF Copies

LEMMA NoneInEmpty ==
  ASSUME NEW e
  PROVE  Copies(<<>>, e) = 0
<1>1. Len(<<>>) = 0
  BY EmptySeq
<1>2. At(<<>>, e) = {}
  BY <1>1 DEF At
<1>3. Cardinality({}) = 0
  BY FS_EmptySet
<1>4. QED
  BY <1>2, <1>3 DEF Copies

\* Copies add up.
LEMMA CopiesOfConcat ==
  ASSUME NEW S, NEW s \in Seq(S), NEW t \in Seq(S), NEW e
  PROVE  Copies(s \o t, e) = Copies(s, e) + Copies(t, e)
<1>1. PICK u \in Seq(S) : u = s \o t
  BY ConcatProperties
<1>2. PICK l \in Nat, n \in Nat : l = Len(s) /\ n = Len(t)
  BY LenProperties
<1>3. /\ Len(u) = l + n
      /\ \A i \in 1 .. l + n : u[i] = IF i <= l THEN s[i] ELSE t[i - l]
  BY <1>1, <1>2, ConcatProperties
<1>4. PICK B : B = {i \in l + 1 .. l + n : t[i - l] = e}
  OBVIOUS
<1>5. At(u, e) = At(s, e) \cup B
  <2>1. ASSUME NEW i \in At(u, e)
        PROVE  i \in At(s, e) \cup B
    <3>1. i \in 1 .. l + n /\ u[i] = e
      BY <1>3, <2>1 DEF At
    <3>2. CASE i <= l
      BY <1>2, <1>3, <3>1, <3>2 DEF At
    <3>3. CASE ~ (i <= l)
      BY <1>3, <1>4, <3>1, <3>3
    <3>4. QED
      BY <3>2, <3>3
  <2>2. ASSUME NEW i \in At(s, e)
        PROVE  i \in At(u, e)
    BY <1>2, <1>3 DEF At
  <2>3. ASSUME NEW i \in B
        PROVE  i \in At(u, e)
    BY <1>3, <1>4 DEF At
  <2>4. QED
    BY <2>1, <2>2, <2>3
<1>6. At(s, e) \cap B = {}
  BY <1>2, <1>4 DEF At
<1>7. IsFiniteSet(At(s, e)) /\ IsFiniteSet(At(t, e)) /\ Copies(s, e) \in Nat /\ Copies(t, e) \in Nat
  BY CopiesAreFew
<1>8. IsFiniteSet(B) /\ Cardinality(B) = Copies(t, e)
  <2>1. B \in SUBSET Int /\ At(t, e) \in SUBSET Int /\ 0 - l \in Int /\ l \in Int
    BY <1>2, <1>4 DEF At
  <2>2. ASSUME NEW i \in B PROVE i + (0 - l) \in At(t, e)
    <3>1. i \in l + 1 .. l + n /\ t[i - l] = e
      BY <1>4
    <3>2. i + (0 - l) = i - l /\ i - l \in 1 .. n
      BY <3>1
    <3>3. QED
      BY <1>2, <3>1, <3>2 DEF At
  <2>3. IsFiniteSet(B) /\ Cardinality(B) <= Cardinality(At(t, e))
    BY <1>7, <2>1, <2>2, Shifted
  <2>4. ASSUME NEW i \in At(t, e) PROVE i + l \in B
    <3>1. i \in 1 .. n /\ t[i] = e
      BY <1>2 DEF At
    <3>2. (i + l) - l = i /\ i + l \in l + 1 .. l + n
      BY <3>1
    <3>3. QED
      BY <1>4, <3>1, <3>2
  <2>5. Cardinality(At(t, e)) <= Cardinality(B)
    BY <2>1, <2>3, <2>4, Shifted
  <2>6. QED
    BY <1>7, <2>3, <2>5, FS_CardinalityType DEF Copies
<1>9. Cardinality(At(s, e) \cap B) = 0
  BY <1>6, FS_EmptySet
<1>10. Cardinality(At(s, e) \cup B) = Copies(s, e) + Copies(t, e)
  <2>1. Cardinality(At(s, e) \cup B) = Cardinality(At(s, e)) + Cardinality(B) - Cardinality(At(s, e) \cap B)
    BY <1>7, <1>8, FS_Union
  <2>2. QED
    BY <1>7, <1>8, <1>9, <2>1 DEF Copies
<1>11. QED
  BY <1>1, <1>5, <1>10 DEF Copies

\* Rows that are removed take copies away.
LEMMA CopiesAfterEnforce ==
  ASSUME NEW S, NEW s \in Seq(S), NEW e
  PROVE  Copies(Enforce(s), e) <= Copies(s, e)
<1>1. PICK n \in Nat : n = Len(s)
  BY LenProperties
<1>2. PICK k \in 0 .. n : k = Larger(0, n - RowCapacity)
  BY CapacityAssumption DEF Larger
<1>3. Enforce(s) = SubSeq(s, k + 1, n)
  BY <1>1, <1>2 DEF Enforce
<1>4. \A i \in k + 1 .. n : s[i] \in S
  BY <1>1, ElementOfSeq
<1>5. PICK t \in Seq(S) : t = SubSeq(s, k + 1, n)
  <2>1. k + 1 \in Int /\ n \in Int
    OBVIOUS
  <2>2. SubSeq(s, k + 1, n) \in Seq(S)
    BY <1>4, <2>1, SubSeqProperties
  <2>3. QED
    BY <2>2
<1>6. /\ Len(t) = IF k + 1 <= n THEN n - (k + 1) + 1 ELSE 0
      /\ \A i \in 1 .. n - (k + 1) + 1 : t[i] = s[k + 1 + i - 1]
  <2>1. k + 1 \in Int /\ n \in Int
    OBVIOUS
  <2>2. QED
    BY <1>4, <1>5, <2>1, SubSeqProperties
<1>7. Len(t) = n - k /\ \A i \in 1 .. n - k : t[i] = s[i + k]
  <2>1. Len(t) = n - k
    BY <1>6
  <2>2. \A i \in 1 .. n - k : i \in 1 .. n - (k + 1) + 1 /\ k + 1 + i - 1 = i + k
    OBVIOUS
  <2>3. QED
    BY <1>6, <2>1, <2>2
<1>8. At(t, e) \in SUBSET Int /\ At(s, e) \in SUBSET Int /\ IsFiniteSet(At(s, e)) /\ k \in Int
  <2>1. Len(t) \in Int /\ Len(s) \in Int
    BY <1>1, <1>7
  <2>2. At(t, e) \in SUBSET Int /\ At(s, e) \in SUBSET Int
    BY <2>1 DEF At
  <2>3. IsFiniteSet(At(s, e))
    BY CopiesAreFew
  <2>4. QED
    BY <2>2, <2>3
<1>9. ASSUME NEW i \in At(t, e) PROVE i + k \in At(s, e)
  <2>1. i \in 1 .. n - k /\ t[i] = e
    BY <1>7 DEF At
  <2>2. i + k \in 1 .. n /\ s[i + k] = e
    BY <1>7, <2>1
  <2>3. QED
    BY <1>1, <2>2 DEF At
<1>10. Cardinality(At(t, e)) <= Cardinality(At(s, e))
  BY <1>8, <1>9, Shifted
<1>11. QED
  BY <1>3, <1>5, <1>10 DEF Copies

--------------------------------------------------------------------------------
\* An entry is in the rows, on its way or yet to be announced once, and once more for each
\* answer; the answer that is not shown yet counts, too. Before the first subscription
\* nothing has come.
CopiedInv ==
  /\ \A e \in Entry :
       Copies(rows, e) + Copies(inbox, e) + Copies(reply, e)
         + (IF up /\ e > emitted THEN hooks ELSE 0) <= 1 + answers
  /\ hooks = 0 => rows = <<>> /\ inbox = <<>> /\ reply = <<>>

Owed(e) == IF up /\ e > emitted THEN hooks ELSE 0

LEMMA CopiesTypes ==
  ASSUME FeedInv, NEW e
  PROVE  /\ Copies(rows, e) \in Nat /\ Copies(inbox, e) \in Nat /\ Copies(reply, e) \in Nat
         /\ Owed(e) \in {0, 1} /\ hooks \in {0, 1} /\ answers \in Nat
         /\ emitted \in Nat /\ pushed \in Nat /\ emitted <= pushed
         /\ rows \in Seq(Entry) /\ inbox \in Seq(Entry) /\ reply \in Seq(Entry)
<1>1. rows \in Seq(Entry) /\ inbox \in Seq(Entry) /\ reply \in Seq(Entry)
  BY DEF FeedInv, ListIsSound, TypeOK
<1>2. Copies(rows, e) \in Nat /\ Copies(inbox, e) \in Nat /\ Copies(reply, e) \in Nat
  BY <1>1, CopiesAreFew
<1>3. hooks \in {0, 1} /\ answers \in Nat
  BY DEF FeedInv, ListIsSound, TypeOK, Linked
<1>4. emitted \in Nat /\ pushed \in Nat /\ emitted <= pushed
  BY BoundsAssumption DEF FeedInv, ListIsSound, TypeOK
<1>5. QED
  BY <1>1, <1>2, <1>3, <1>4 DEF Owed

\* What appended rows add.
LEMMA AppendCopies ==
  ASSUME NEW S, rows \in Seq(S), NEW items \in Seq(S), AppendRows(items), NEW e
  PROVE  Copies(rows', e) <= Copies(rows, e) + Copies(items, e)
<1>1. PICK all \in Seq(S) : all = rows \o items
  BY ConcatProperties
<1>2. rows' = Enforce(all)
  BY <1>1 DEF AppendRows
<1>3. Copies(all, e) = Copies(rows, e) + Copies(items, e)
  BY <1>1, CopiesOfConcat
<1>4. Copies(Enforce(all), e) <= Copies(all, e)
  BY CopiesAfterEnforce
<1>5. QED
  BY <1>2, <1>3, <1>4

LEMMA CopiedDaemon ==
  ASSUME FeedInv, CopiedInv, Daemon
  PROVE  CopiedInv'
<1>1. CASE Push
  <2>1. /\ pushed' = pushed + 1
        /\ UNCHANGED <<up, base, emitted, linkVars, listVars, since, countVars>>
    BY <1>1 DEF Push
  <2>2. UNCHANGED <<up, emitted, hooks, rows, inbox, reply, answers>>
    BY <2>1 DEF linkVars, listVars, countVars
  <2>3. ASSUME NEW e \in Entry'
        PROVE  Copies(rows, e) + Copies(inbox, e) + Copies(reply, e) + Owed(e) <= 1 + answers
    <3>1. CASE e \in Entry
      BY <3>1 DEF CopiedInv, Owed
    <3>2. CASE e \notin Entry
      <4>1. Copies(rows, e) = 0 /\ Copies(inbox, e) = 0 /\ Copies(reply, e) = 0
        BY <3>2, CopiesTypes, NoCopies
      <4>2. Owed(e) <= 1 /\ answers \in Nat /\ Owed(e) \in Nat
        BY CopiesTypes
      <4>3. QED
        BY <4>1, <4>2
    <3>3. QED
      BY <3>1, <3>2
  <2>4. QED
    BY <2>2, <2>3 DEF CopiedInv, Owed
<1>2. CASE Emit
  <2>1. PICK news : news = [i \in 1 .. hooks |-> emitted + 1]
    OBVIOUS
  <2>2. /\ up /\ emitted' = emitted + 1 /\ inbox' = inbox \o news
        /\ UNCHANGED <<up, pushed, hooks, reply, rows, answers>> /\ emitted < pushed
    BY <1>2, <2>1 DEF Emit, listVars, countVars
  <2>3. hooks \in {0, 1} /\ emitted + 1 \in Entry /\ inbox \in Seq(Entry) /\ emitted \in Nat
    <3>1. hooks \in {0, 1} /\ inbox \in Seq(Entry) /\ emitted \in Nat /\ pushed \in Nat
      BY CopiesTypes
    <3>2. emitted + 1 \in Entry
      BY <2>2, <3>1 DEF Entry
    <3>3. QED
      BY <3>1, <3>2
  <2>4. news \in Seq(Entry) /\ Len(news) = hooks /\ \A i \in 1 .. hooks : news[i] = emitted + 1
    <3>1. news \in [1 .. hooks -> Entry] /\ hooks \in Nat
      BY <2>1, <2>3
    <3>2. QED
      BY <2>1, <3>1, SeqDef, LenProperties
  <2>5. ASSUME NEW e \in Entry
        PROVE  Copies(news, e) = IF e = emitted + 1 THEN hooks ELSE 0
    <3>1. CASE e = emitted + 1
      <4>1. At(news, e) = 1 .. hooks
        BY <2>4, <3>1 DEF At
      <4>2. Cardinality(1 .. hooks) = hooks
        <5>1. PICK h \in {0, 1} : h = hooks
          BY <2>3
        <5>2. Cardinality(1 .. h) = h
          <6>1. CASE h = 0
            <7>1. 1 .. h = {}
              BY <6>1
            <7>2. Cardinality({}) = 0
              BY FS_EmptySet
            <7>3. QED
              BY <6>1, <7>1, <7>2
          <6>2. CASE h = 1
            <7>1. 1 .. h = {1}
              BY <6>2
            <7>2. Cardinality({1}) = 1
              BY FS_Singleton
            <7>3. QED
              BY <6>2, <7>1, <7>2
          <6>3. QED
            BY <6>1, <6>2
        <5>3. QED
          BY <5>1, <5>2
      <4>3. QED
        BY <3>1, <4>1, <4>2 DEF Copies
    <3>2. CASE e # emitted + 1
      <4>1. At(news, e) = {}
        BY <2>4, <3>2 DEF At
      <4>2. Cardinality({}) = 0
        BY FS_EmptySet
      <4>3. QED
        BY <3>2, <4>1, <4>2 DEF Copies
    <3>3. QED
      BY <3>1, <3>2
  <2>6. ASSUME NEW e \in Entry
        PROVE  Copies(rows, e) + Copies(inbox', e) + Copies(reply, e)
                 + (IF up /\ e > emitted + 1 THEN hooks ELSE 0) <= 1 + answers
    <3>1. Copies(inbox', e) = Copies(inbox, e) + Copies(news, e)
      BY <2>2, <2>3, <2>4, CopiesOfConcat
    <3>2. Copies(rows, e) + Copies(inbox, e) + Copies(reply, e) + Owed(e) <= 1 + answers
      BY DEF CopiedInv, Owed
    <3>3. PICK a \in Nat, b \in Nat, c \in Nat, d \in Nat :
            /\ a = Copies(rows, e) /\ b = Copies(inbox, e) /\ c = Copies(reply, e) /\ d = answers
      BY CopiesTypes
    <3>4. Copies(news, e) + (IF up /\ e > emitted + 1 THEN hooks ELSE 0) = Owed(e)
      BY <2>2, <2>3, <2>5 DEF Owed, Entry
    <3>5. PICK p \in Nat, o \in Nat : p = Copies(news, e) /\ o = Owed(e)
      BY <2>4, CopiesAreFew, CopiesTypes
    <3>6. PICK r \in {0, 1} : r = IF up /\ e > emitted + 1 THEN hooks ELSE 0
      BY <2>3
    <3>7. a + b + c + o <= 1 + d /\ p + r = o
      BY <3>2, <3>3, <3>4, <3>5, <3>6
    <3>8. a + (b + p) + c + r <= 1 + d
      BY <3>7
    <3>9. QED
      BY <3>1, <3>3, <3>5, <3>6, <3>8
  <2>7. hooks = 0 => inbox' = <<>> \/ inbox # <<>>
    <3>1. hooks = 0 /\ inbox = <<>> => Len(inbox') = 0 /\ inbox' \in Seq(Entry)
      BY <2>2, <2>3, <2>4, ConcatProperties, LenProperties
    <3>2. QED
      BY <3>1, EmptySeq
  <2>8. Entry' = Entry
    BY <2>2 DEF Entry
  <2>9. QED
    BY <2>2, <2>6, <2>7, <2>8 DEF CopiedInv
<1>3. CASE Kill
  <2>1. /\ up' = FALSE /\ UNCHANGED <<pushed, hooks, rows, inbox, reply, answers>>
    BY <1>3 DEF Kill, linkVars, listVars
  <2>2. ASSUME NEW e \in Entry
        PROVE  Copies(rows, e) + Copies(inbox, e) + Copies(reply, e) + 0 <= 1 + answers
    <3>1. Copies(rows, e) + Copies(inbox, e) + Copies(reply, e) + Owed(e) <= 1 + answers
      BY DEF CopiedInv, Owed
    <3>2. PICK a \in Nat, b \in Nat, c \in Nat, d \in Nat :
            /\ a = Copies(rows, e) /\ b = Copies(inbox, e) /\ c = Copies(reply, e) /\ d = answers
      BY CopiesTypes
    <3>3. Owed(e) \in Nat
      BY CopiesTypes
    <3>4. QED
      BY <3>1, <3>2, <3>3
  <2>3. QED
    BY <2>1, <2>2 DEF CopiedInv, Entry
<1>4. CASE Restart
  <2>1. /\ ~ up /\ UNCHANGED <<pushed, emitted, hooks, rows, inbox, reply, answers>>
    BY <1>4 DEF Restart, linkVars, listVars, countVars
  <2>2. emitted = pushed /\ emitted \in Nat
    BY <2>1, CopiesTypes DEF FeedInv, Linked
  <2>3. \A e \in Entry : ~ (e > emitted)
    BY <2>2 DEF Entry
  <2>4. QED
    BY <2>1, <2>3 DEF CopiedInv, Entry
<1>5. QED
  BY <1>1, <1>2, <1>3, <1>4 DEF Daemon

LEMMA CopiedClient ==
  ASSUME FeedInv, CopiedInv, Client \/ Tick \/ User
  PROVE  CopiedInv'
<1> DEFINE Same == UNCHANGED <<up, pushed, emitted, hooks, rows, inbox, reply, answers>>
<1>1. Same => CopiedInv'
  BY DEF CopiedInv, Entry
<1>2. CASE StartClient \/ Tick \/ MenuReconnect
  <2>1. Same
    BY <1>2 DEF StartClient, Tick, MenuReconnect, daemonVars, listVars, countVars
  <2>2. QED
    BY <1>1, <2>1
<1>3. CASE Subscribe
  <2>1. hooks' = 1 /\ UNCHANGED <<up, pushed, emitted, rows, inbox, reply, answers>>
    BY <1>3 DEF Subscribe, OneHook, daemonVars, listVars, countVars
  <2>2. CASE hooks = 1
    BY <1>1, <2>1, <2>2
  <2>3. CASE hooks = 0
    <3>1. rows = <<>> /\ inbox = <<>> /\ reply = <<>>
      BY <2>3 DEF CopiedInv
    <3>2. \A e : Copies(rows, e) = 0 /\ Copies(inbox, e) = 0 /\ Copies(reply, e) = 0
      BY <3>1, NoneInEmpty
    <3>3. answers \in Nat
      BY CopiesTypes
    <3>4. \A e \in Entry : Copies(rows, e) + Copies(inbox, e) + Copies(reply, e)
                             + (IF up /\ e > emitted THEN 1 ELSE 0) <= 1 + answers
      BY <3>2, <3>3
    <3>5. QED
      BY <2>1, <3>4 DEF CopiedInv, Entry
  <2>4. QED
    BY <2>2, <2>3, CopiesTypes
<1>4. CASE Answer
  <2>1. PICK oldest, n, new :
          /\ oldest = Larger(Larger(base, pushed - Capacity), pushed - Limit) + 1
          /\ n = pushed - oldest + 1
          /\ new = [i \in 1 .. n |-> pushed + 1 - i]
    OBVIOUS
  <2>2. /\ reply' = new /\ answers' = answers + 1 /\ pc = "query"
        /\ UNCHANGED <<up, pushed, emitted, hooks, inbox, rows>>
    BY <1>4, <2>1 DEF Answer, daemonVars, listVars
  <2>3. n \in Nat /\ pushed \in Nat
    <3>1. base \in Nat /\ pushed \in Nat /\ base <= pushed
      BY BoundsAssumption DEF FeedInv, ListIsSound, TypeOK
    <3>2. QED
      BY <2>1, <3>1, CapacityAssumption DEF Larger
  <2>4. new \in [1 .. n -> Int] /\ new \in Seq(Int) /\ Len(new) = n
    <3>1. new \in [1 .. n -> Int]
      BY <2>1, <2>3
    <3>2. QED
      BY <2>3, <3>1, SeqDef, LenProperties
  <2>5. reply = <<>> /\ hooks = 1
    BY <2>2 DEF FeedInv, Linked
  <2>6. ASSUME NEW e \in Entry
        PROVE  Copies(new, e) <= 1 /\ Copies(new, e) \in Nat
    <3>1. At(new, e) \subseteq {pushed + 1 - e}
      <4>1. PICK p \in Nat : p = pushed
        BY <2>3
      <4>2. ASSUME NEW i \in At(new, e) PROVE i = p + 1 - e
        <5>1. i \in 1 .. n /\ new[i] = e
          BY <2>4, <4>2 DEF At
        <5>2. e = p + 1 - i
          BY <2>1, <4>1, <5>1
        <5>3. QED
          BY <2>3, <5>1, <5>2
      <4>3. QED
        BY <4>1, <4>2
    <3>2. IsFiniteSet({pushed + 1 - e}) /\ Cardinality({pushed + 1 - e}) = 1
      BY FS_Singleton
    <3>3. Cardinality(At(new, e)) <= 1
      BY <3>1, <3>2, FS_Subset
    <3>4. QED
      BY <2>4, <3>3, CopiesAreFew DEF Copies
  <2>7. ASSUME NEW e \in Entry
        PROVE  Copies(rows, e) + Copies(inbox, e) + Copies(new, e) + Owed(e) <= 1 + (answers + 1)
    <3>1. Copies(rows, e) + Copies(inbox, e) + Copies(reply, e) + Owed(e) <= 1 + answers
      BY DEF CopiedInv, Owed
    <3>2. PICK a \in Nat, b \in Nat, c \in Nat, d \in Nat, o \in Nat :
            /\ a = Copies(rows, e) /\ b = Copies(inbox, e) /\ c = Copies(reply, e) /\ d = answers
            /\ o = Owed(e)
      BY CopiesTypes
    <3>3. PICK q \in Nat : q = Copies(new, e) /\ q <= 1
      BY <2>6
    <3>4. QED
      BY <3>1, <3>2, <3>3
  <2>8. QED
    BY <2>2, <2>5, <2>7 DEF CopiedInv, Owed, Entry
<1>5. CASE NoAnswer
  <2>1. pc = "query" /\ reply' = <<>>
        /\ UNCHANGED <<up, pushed, emitted, hooks, rows, inbox, answers>>
    BY <1>5 DEF NoAnswer, daemonVars, listVars, countVars
  <2>2. reply = <<>>
    BY <2>1 DEF FeedInv, Linked
  <2>3. QED
    BY <1>1, <2>1, <2>2
<1>6. CASE ApplyReply
  <2>1. /\ pc = "apply" /\ AppendRows(reply) /\ reply' = <<>>
        /\ UNCHANGED <<up, pushed, emitted, hooks, inbox, answers>>
    BY <1>6 DEF ApplyReply, daemonVars, countVars
  <2>2. hooks = 1
    BY <2>1 DEF FeedInv, Linked
  <2>3. ASSUME NEW e \in Entry
        PROVE  Copies(rows', e) + Copies(inbox, e) + Copies(<<>>, e) + Owed(e) <= 1 + answers
    <3>1. Copies(rows, e) + Copies(inbox, e) + Copies(reply, e) + Owed(e) <= 1 + answers
      BY DEF CopiedInv, Owed
    <3>2. PICK a \in Nat, b \in Nat, c \in Nat, d \in Nat, o \in Nat :
            /\ a = Copies(rows, e) /\ b = Copies(inbox, e) /\ c = Copies(reply, e) /\ d = answers
            /\ o = Owed(e)
      BY CopiesTypes
    <3>3. Copies(rows', e) <= a + c
      BY <2>1, <3>2, CopiesTypes, AppendCopies
    <3>4. Copies(rows', e) \in Nat
      <4>1. rows' \in Seq(Entry')
        BY <1>6, RowsKeep DEF FeedInv, ListIsSound, TypeOK
      <4>2. QED
        BY <4>1, CopiesAreFew
    <3>5. Copies(<<>>, e) = 0
      BY NoneInEmpty
    <3>6. PICK q \in Nat : q = Copies(rows', e)
      BY <3>4
    <3>7. a + b + c + o <= 1 + d /\ q <= a + c
      BY <3>1, <3>2, <3>3, <3>6
    <3>8. q + b + 0 + o <= 1 + d
      BY <3>7
    <3>9. QED
      BY <3>2, <3>5, <3>6, <3>8
  <2>4. QED
    BY <2>1, <2>2, <2>3 DEF CopiedInv, Owed, Entry
<1>7. CASE Receive
  <2>1. PICK item : item = <<Head(inbox)>>
    OBVIOUS
  <2>2. /\ AppendRows(item) /\ inbox # <<>> /\ inbox' = Tail(inbox)
        /\ UNCHANGED <<up, pushed, emitted, hooks, reply, answers>>
    BY <1>7, <2>1 DEF Receive, daemonVars, countVars
  <2>3. inbox \in Seq(Entry)
    BY CopiesTypes
  <2>4. Head(inbox) \in Entry /\ inbox' \in Seq(Entry) /\ item \in Seq(Entry)
    BY <2>1, <2>2, <2>3, HeadTailProperties
  <2>5. inbox = item \o inbox'
    <3>1. inbox = <<Head(inbox)>> \o Tail(inbox)
      BY <2>2, <2>3
    <3>2. QED
      BY <2>1, <2>2, <3>1
  <2>6. hooks # 0
    BY <2>2 DEF CopiedInv
  <2>7. ASSUME NEW e \in Entry
        PROVE  Copies(rows', e) + Copies(inbox', e) + Copies(reply, e) + Owed(e) <= 1 + answers
    <3>1. Copies(rows, e) + Copies(inbox, e) + Copies(reply, e) + Owed(e) <= 1 + answers
      BY DEF CopiedInv, Owed
    <3>2. PICK a \in Nat, b \in Nat, c \in Nat, d \in Nat, o \in Nat :
            /\ a = Copies(rows, e) /\ b = Copies(inbox, e) /\ c = Copies(reply, e) /\ d = answers
            /\ o = Owed(e)
      BY CopiesTypes
    <3>3. PICK p \in Nat, q \in Nat : p = Copies(item, e) /\ q = Copies(inbox', e)
      BY <2>4, CopiesAreFew
    <3>4. b = p + q
      <4>1. Copies(item \o inbox', e) = Copies(item, e) + Copies(inbox', e)
        BY <2>4, CopiesOfConcat
      <4>2. QED
        BY <2>5, <3>2, <3>3, <4>1
    <3>5. Copies(rows', e) <= a + p
      BY <2>2, <2>4, <3>2, <3>3, CopiesTypes, AppendCopies
    <3>6. Copies(rows', e) \in Nat
      <4>1. rows' \in Seq(Entry')
        BY <1>7, RowsKeep DEF FeedInv, ListIsSound, TypeOK
      <4>2. QED
        BY <4>1, CopiesAreFew
    <3>7. QED
      BY <3>1, <3>2, <3>3, <3>4, <3>5, <3>6
  <2>8. QED
    BY <2>2, <2>6, <2>7 DEF CopiedInv, Owed, Entry
<1>8. CASE Clear
  <2>1. rows' = <<>> /\ UNCHANGED <<up, pushed, emitted, hooks, inbox, reply, answers>>
    BY <1>8 DEF Clear, daemonVars, linkVars
  <2>2. ASSUME NEW e \in Entry
        PROVE  Copies(<<>>, e) + Copies(inbox, e) + Copies(reply, e) + Owed(e) <= 1 + answers
    <3>1. Copies(rows, e) + Copies(inbox, e) + Copies(reply, e) + Owed(e) <= 1 + answers
      BY DEF CopiedInv, Owed
    <3>2. PICK a \in Nat, b \in Nat, c \in Nat, d \in Nat, o \in Nat :
            /\ a = Copies(rows, e) /\ b = Copies(inbox, e) /\ c = Copies(reply, e) /\ d = answers
            /\ o = Owed(e)
      BY CopiesTypes
    <3>3. Copies(<<>>, e) = 0
      BY NoneInEmpty
    <3>4. a + b + c + o <= 1 + d
      BY <3>1, <3>2
    <3>5. 0 + b + c + o <= 1 + d
      BY <3>4
    <3>6. QED
      BY <3>2, <3>3, <3>5
  <2>3. QED
    BY <2>1, <2>2 DEF CopiedInv, Owed, Entry
<1>9. QED
  BY <1>2, <1>3, <1>4, <1>5, <1>6, <1>7, <1>8 DEF Client, User

LEMMA InitCopied == Init => CopiedInv
<1> SUFFICES ASSUME Init PROVE CopiedInv
  OBVIOUS
<1>1. rows = <<>> /\ inbox = <<>> /\ reply = <<>> /\ hooks = 0 /\ answers = 0 /\ pushed = 0
  BY DEF Init
<1>2. Entry = {}
  BY <1>1 DEF Entry
<1>3. QED
  BY <1>1, <1>2 DEF CopiedInv

LEMMA NextCopied == FeedInv /\ CopiedInv /\ [Next]_vars => CopiedInv'
<1> SUFFICES ASSUME FeedInv, CopiedInv, [Next]_vars PROVE CopiedInv'
  OBVIOUS
<1>1. CASE UNCHANGED vars
  BY <1>1 DEF CopiedInv, Entry, vars, daemonVars, linkVars, listVars, countVars
<1>2. QED
  BY <1>1, CopiedDaemon, CopiedClient DEF Next

\* The list shows an entry at most once for its signal and once for every answer: a slot
\* is connected once however often the client reconnects (setupSignals).
THEOREM NoCopyUnexplained == Spec => []NoExtraCopies
<1>1. FeedInv /\ CopiedInv => NoExtraCopies
  <2> SUFFICES ASSUME FeedInv, CopiedInv, NEW e \in Entry
               PROVE  Copies(rows, e) + Copies(inbox, e) + Owed(e) <= 1 + answers
    BY DEF NoExtraCopies, Copies, At, Owed
  <2>1. Copies(rows, e) + Copies(inbox, e) + Copies(reply, e) + Owed(e) <= 1 + answers
    BY DEF CopiedInv, Owed
  <2>2. PICK a \in Nat, b \in Nat, c \in Nat, d \in Nat, o \in Nat :
          /\ a = Copies(rows, e) /\ b = Copies(inbox, e) /\ c = Copies(reply, e) /\ d = answers
          /\ o = Owed(e)
    BY CopiesTypes
  <2>3. QED
    BY <2>1, <2>2
<1>2. QED
  BY <1>1, InitFeed, NextFeed, InitCopied, NextCopied, PTL DEF Spec
================================================================================
