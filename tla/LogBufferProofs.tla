---------------------------- MODULE LogBufferProofs ----------------------------
(***************************************************************************)
(* Proofs about LogBuffer and its queries (LogBufferSearch) for every      *)
(* capacity, segment span, vocabulary and number of pushes.                *)
(*                                                                         *)
(* The ring (items, the ids, the counters, the order of announcements) is  *)
(* treated first and by itself; the segments of the index rest on it. The  *)
(* answers of the queries follow from both invariants: each loop of a      *)
(* query is unfolded turn by turn and keeps a listing (Listed).            *)
(***************************************************************************)
EXTENDS LogBufferSearch, SequenceTheorems, WellFoundedInduction, NaturalsInduction, TLAPS

\* Both derived sizes are positive, whatever the constructor is given.
LEMMA Sizes == Capacity \in Nat \ {0} /\ SegmentSpan \in Nat \ {0}
BY CapacityAssumption, SpanAssumption DEF Capacity, SegmentSpan

\* What push does to the ring: the new entry is last, and at most the first one
\* goes.
LEMMA RingStep ==
  ASSUME NEW e \in Entry, items \in Seq(Entry), Len(items) <= Capacity
  PROVE  LET grown == Append(items, e)
             drop  == Excess(grown)
             ring  == SubSeq(grown, drop + 1, Len(grown))
         IN  /\ drop \in {0, 1}
             /\ drop = 1 <=> Len(items) = Capacity
             /\ ring \in Seq(Entry)
             /\ Len(ring) = Len(items) + 1 - drop
             /\ \A i \in 1 .. Len(ring) :
                  ring[i] = IF i + drop = Len(items) + 1 THEN e ELSE items[i + drop]
<1> DEFINE grown == Append(items, e)
           drop  == Excess(grown)
           ring  == SubSeq(grown, drop + 1, Len(grown))
<1>1. /\ grown \in Seq(Entry)
      /\ Len(grown) = Len(items) + 1
      /\ \A i \in 1 .. Len(items) : grown[i] = items[i]
      /\ grown[Len(items) + 1] = e
  BY AppendProperties
<1>2. Len(items) \in Nat
  BY LenProperties
<1>3. drop \in {0, 1} /\ (drop = 1 <=> Len(items) = Capacity)
  BY <1>1, <1>2, Sizes DEF Excess
<1> HIDE DEF grown, drop
<1>4. \A i \in drop + 1 .. Len(grown) : grown[i] \in Entry
  BY <1>1, <1>2, <1>3, ElementOfSeq
<1>5. /\ ring \in Seq(Entry)
      /\ Len(ring) = Len(grown) - drop
      /\ \A i \in 1 .. Len(grown) - drop : ring[i] = grown[i + drop]
  <2>1. /\ SubSeq(grown, drop + 1, Len(grown)) \in Seq(Entry)
        /\ Len(SubSeq(grown, drop + 1, Len(grown))) =
             IF drop + 1 <= Len(grown) THEN Len(grown) - (drop + 1) + 1 ELSE 0
        /\ \A i \in 1 .. Len(grown) - (drop + 1) + 1 :
             SubSeq(grown, drop + 1, Len(grown))[i] = grown[drop + 1 + i - 1]
    BY <1>1, <1>2, <1>3, <1>4, SubSeqProperties
  <2>2. Capacity > 0 /\ (drop = 1 => Len(items) >= 1)
    BY <1>2, <1>3, Sizes
  <2>3. QED
    BY <2>1, <2>2, <1>1, <1>2, <1>3
<1>6. \A i \in 1 .. Len(ring) :
        ring[i] = IF i + drop = Len(items) + 1 THEN e ELSE items[i + drop]
  BY <1>1, <1>2, <1>3, <1>5
<1>7. QED
  BY <1>1, <1>2, <1>3, <1>5, <1>6 DEF grown, drop

--------------------------------------------------------------------------------
(* The ring.                                                               *)

RingType ==
  /\ items \in Seq(Entry)
  /\ oldestId \in Nat \ {0}
  /\ nextId \in Nat \ {0}
  /\ totalPushed \in Nat
  /\ totalDiscarded \in Nat
  /\ calling \in SUBSET Nat
  /\ announced \in Seq(Nat)
  /\ history \in Seq(Entry)

\* At most one push is between its critical section and its callback.
OneCall == Len(announced) <= totalPushed /\ totalPushed <= Len(announced) + 1

RingInv ==
  RingType /\ RingIsRecentHistory /\ LossIsCounted /\ AnnouncedInOrder /\ OneCall

\* The ring's invariant holds of an empty buffer.
LEMMA RingInit == Init => RingInv
<1>1. <<>> \in Seq(Entry) /\ <<>> \in Seq(Nat) /\ Len(<<>>) = 0
  BY EmptySeq
<1>2. QED
  BY <1>1, Sizes
  DEF Init, RingInv, RingType, RingIsRecentHistory, LossIsCounted, AnnouncedInOrder, OneCall

\* The first push sets the oldest id to the one it already has, so that the
\* buffer's arithmetic has no special case.
LEMMA FirstIdSame ==
  ASSUME RingInv, NEW id, id = nextId
  PROVE  FirstId(id) = oldestId
<1>1. CASE items = <<>>
  <2>1. Len(items) = 0
    BY <1>1, EmptySeq
  <2>2. oldestId = nextId
    BY <2>1 DEF RingInv, RingType, RingIsRecentHistory
  <2>3. QED
    BY <1>1, <2>2 DEF FirstId
<1>2. CASE items # <<>>
  BY <1>2 DEF FirstId
<1>3. QED
  BY <1>1, <1>2

\* A push preserves the ring's invariant.
LEMMA RingPush ==
  ASSUME RingInv, NEW e \in Entry, Push(e)
  PROVE  RingInv'
<1> USE DEF RingInv, RingType
<1> DEFINE drop == Excess(Append(items, e))
<1>1. /\ drop \in {0, 1}
      /\ drop = 1 <=> Len(items) = Capacity
      /\ items' \in Seq(Entry)
      /\ Len(items') = Len(items) + 1 - drop
      /\ \A i \in 1 .. Len(items') :
           items'[i] = IF i + drop = Len(items) + 1 THEN e ELSE items[i + drop]
  <2>1. Len(items) <= Capacity
    BY Sizes, LenProperties DEF RingIsRecentHistory
  <2>2. items' = SubSeq(Append(items, e), drop + 1, Len(Append(items, e)))
    BY DEF Push
  <2>3. QED
    BY <2>1, <2>2, RingStep
<1>2. oldestId' = oldestId + drop
  BY FirstIdSame DEF Push
<1> HIDE DEF drop
<1>3. /\ nextId' = nextId + 1 /\ totalPushed' = totalPushed + 1
      /\ calling = {} /\ calling' = {nextId} /\ announced' = announced
      /\ history' = Append(history, e)
  BY DEF Push, OutputFree
<1>4. totalDiscarded' = totalDiscarded + drop
  BY DEF Push, CountDiscarded, drop
<1>5. /\ history' \in Seq(Entry)
      /\ Len(history') = Len(history) + 1
      /\ \A i \in 1 .. Len(history) : history'[i] = history[i]
      /\ history'[Len(history) + 1] = e
  BY <1>3, AppendProperties
<1>6. /\ Len(items) \in Nat /\ Len(history) \in Nat /\ Len(announced) \in Nat
      /\ oldestId \in Nat \ {0} /\ totalPushed \in Nat /\ totalDiscarded \in Nat
      /\ nextId = Len(history) + 1
      /\ oldestId + Len(items) = nextId
  BY LenProperties DEF RingIsRecentHistory
<1>7. RingType'
  BY <1>1, <1>2, <1>3, <1>4, <1>5
<1>8. RingIsRecentHistory'
  <2>1. Len(items') = IF Len(history') < Capacity THEN Len(history') ELSE Capacity
    BY <1>1, <1>5, <1>6, Sizes DEF RingIsRecentHistory
  <2>2. nextId' = Len(history') + 1 /\ oldestId' + Len(items') = nextId'
    <3> HIDE DEF RingInv
    <3>1. QED
      BY <1>1, <1>2, <1>3, <1>5, <1>6
  <2>3. ASSUME NEW i \in 1 .. Len(items')
        PROVE  items'[i] = history'[oldestId' + i - 1]
    <3>1. CASE i + drop = Len(items) + 1
      <4> HIDE DEF RingInv
      <4>1. items'[i] = e
        BY <3>1, <1>1
      <4>2. oldestId' + i - 1 = Len(history) + 1
        <5>1. drop \in Nat /\ i = Len(items) + 1 - drop
          BY <3>1, <1>1, <1>6
        <5>2. oldestId + drop + (Len(items) + 1 - drop) - 1 = Len(history) + 1
          BY <5>1, <1>6
        <5>3. QED
          BY <5>1, <5>2, <1>2
      <4>3. QED
        BY <4>1, <4>2, <1>5
    <3>2. CASE i + drop # Len(items) + 1
      <4>1. i + drop \in 1 .. Len(items)
        BY <3>2, <1>1, <1>6
      <4>2. items'[i] = history[oldestId + (i + drop) - 1]
        BY <4>1, <3>2, <1>1 DEF RingIsRecentHistory
      <4>3. oldestId + (i + drop) - 1 \in 1 .. Len(history)
        BY <4>1, <1>1, <1>6 DEF RingIsRecentHistory
      <4>4. oldestId' + i - 1 = oldestId + (i + drop) - 1
        BY <1>1, <1>2
      <4>5. QED
        BY <4>2, <4>3, <4>4, <1>5
    <3>3. QED
      BY <3>1, <3>2
  <2>4. QED
    BY <2>1, <2>2, <2>3 DEF RingIsRecentHistory
<1>9. LossIsCounted'
  BY <1>1, <1>3, <1>4, <1>5, <1>6 DEF LossIsCounted
<1>10. AnnouncedInOrder' /\ OneCall'
  <2>1. Len(announced) = totalPushed
    BY <1>3, <1>6 DEF AnnouncedInOrder, OneCall
  <2>2. nextId = totalPushed + 1
    BY <1>6 DEF RingIsRecentHistory, LossIsCounted
  <2>3. calling' = Len(announced') + 1 .. totalPushed'
    BY <2>1, <2>2, <1>3, <1>6
  <2>4. QED
    BY <2>1, <2>3, <1>3, <1>6 DEF AnnouncedInOrder, OneCall
<1>11. QED
  BY <1>7, <1>8, <1>9, <1>10

\* The return of a callback preserves the ring's invariant.
LEMMA RingCallback ==
  ASSUME RingInv, NEW id, Callback(id)
  PROVE  RingInv'
<1> USE DEF RingInv, RingType
<1>1. Len(announced) \in Nat
  BY LenProperties
<1>2. id = Len(announced) + 1 /\ totalPushed = Len(announced) + 1
  BY <1>1 DEF Callback, AnnouncedInOrder, OneCall
<1>3. /\ announced' = Append(announced, id)
      /\ calling' = calling \ {id}
      /\ UNCHANGED <<items, oldestId, nextId, totalPushed, totalDiscarded, history>>
  BY DEF Callback
<1>4. /\ announced' \in Seq(Nat)
      /\ Len(announced') = Len(announced) + 1
      /\ \A i \in 1 .. Len(announced) : announced'[i] = announced[i]
      /\ announced'[Len(announced) + 1] = id
  BY <1>1, <1>2, <1>3, AppendProperties
<1>5. RingType' /\ RingIsRecentHistory' /\ LossIsCounted'
  BY <1>3, <1>4 DEF RingIsRecentHistory, LossIsCounted
<1>6. \A i \in 1 .. Len(announced') : announced'[i] = i
  BY <1>1, <1>2, <1>4 DEF AnnouncedInOrder
<1>7. calling' = Len(announced') + 1 .. totalPushed'
  BY <1>1, <1>2, <1>3, <1>4 DEF AnnouncedInOrder
<1>8. OneCall'
  BY <1>1, <1>2, <1>3, <1>4 DEF OneCall
<1>9. QED
  BY <1>5, <1>6, <1>7, <1>8 DEF AnnouncedInOrder

\* The ring's invariant is inductive.
LEMMA RingNext == RingInv /\ [Next]_vars => RingInv'
<1> SUFFICES ASSUME RingInv, [Next]_vars PROVE RingInv'
  OBVIOUS
<1>1. ASSUME NEW e \in Entry, Push(e) PROVE RingInv'
  BY <1>1, RingPush
<1>2. ASSUME NEW id \in 1 .. totalPushed, Callback(id) PROVE RingInv'
  BY <1>2, RingCallback
<1>3. CASE UNCHANGED vars
  BY <1>3
  DEF vars, RingInv, RingType, RingIsRecentHistory, LossIsCounted, AnnouncedInOrder, OneCall
<1>4. QED
  BY <1>1, <1>2, <1>3 DEF Next

\* The four facts about the ring hold together in every reachable state.
THEOREM RingInvariant == Spec => []RingInv
BY RingInit, RingNext, PTL DEF Spec

\* For every capacity the ring holds exactly the most recent entries, and the
\* id arithmetic of log_buffer.h (m_items[i] has the id m_oldest_id + i) is right.
THEOREM RingCorrect == Spec => []RingIsRecentHistory
<1>1. RingInv => RingIsRecentHistory
  BY DEF RingInv
<1>2. QED
  BY <1>1, RingInvariant, PTL

\* For every capacity, what was pushed is held or counted as discarded.
THEOREM LossCounted == Spec => []LossIsCounted
<1>1. RingInv => LossIsCounted
  BY DEF RingInv
<1>2. QED
  BY <1>1, RingInvariant, PTL

\* Subscribers hear of every entry once, in the order of the ring.
THEOREM AnnouncementsOrdered == Spec => []AnnouncedInOrder
<1>1. RingInv => AnnouncedInOrder
  BY DEF RingInv
<1>2. QED
  BY <1>1, RingInvariant, PTL

--------------------------------------------------------------------------------
(* The segments of the index.                                              *)

\* A segment by itself: an interval of ids that have been pushed, no wider than
\* a segment may be, whose postings are right.
Sound(seg, log) ==
  /\ 1 <= seg.first_id
  /\ seg.first_id <= seg.last_id
  /\ seg.last_id <= Len(log)
  /\ seg.last_id - seg.first_id < SegmentSpan
  /\ \A t \in Token :
       seg.index[t] = {id \in seg.first_id .. seg.last_id : t \in TokensOf[log[id].message]}

\* The segments in a row, up to the newest entry of the log.
Chain(segs, log) ==
  /\ segs \in Seq(Segment)
  /\ segs # <<>>
  /\ \A k \in 1 .. Len(segs) : Sound(segs[k], log)
  /\ \A k \in 1 .. Len(segs) - 1 : segs[k + 1].first_id = segs[k].last_id + 1
  /\ segs[Len(segs)].last_id = Len(log)

\* The front segment reaches back to the oldest live entry and, unless it is
\* the only one, still has a live entry.
FrontIsLive(segs, oldest) ==
  /\ segs[1].first_id <= oldest
  /\ Len(segs) > 1 => oldest <= segs[1].last_id

SegmentInv ==
  IF items = <<>> THEN segments = <<>>
                  ELSE Chain(segments, history) /\ FrontIsLive(segments, oldestId)

\* A segment stays sound when the log grows: old entries do not change.
LEMMA SoundGrows ==
  ASSUME NEW log \in Seq(Entry), NEW e \in Entry, NEW seg \in Segment, Sound(seg, log)
  PROVE  Sound(seg, Append(log, e))
<1> DEFINE more == Append(log, e)
<1>1. /\ Len(log) \in Nat
      /\ Len(more) = Len(log) + 1
      /\ \A i \in 1 .. Len(log) : more[i] = log[i]
  BY AppendProperties, LenProperties
<1>2. seg.first_id \in Nat /\ seg.last_id \in Nat
  BY DEF Segment
<1>3. \A id \in seg.first_id .. seg.last_id : more[id] = log[id]
  BY <1>1, <1>2 DEF Sound
<1> HIDE DEF more
<1>4. Sound(seg, more)
  BY <1>1, <1>2, <1>3 DEF Sound
<1>5. QED
  BY <1>4 DEF more

\* Filing the next id in a fresh segment, or in a sound one that ends at the
\* last id and has room, gives a sound segment.
LEMMA PostedSound ==
  ASSUME NEW log \in Seq(Entry), NEW e \in Entry, NEW id, id = Len(log) + 1,
         NEW seg,
         \/ seg = NewSegment(id)
         \/ /\ seg \in Segment /\ Sound(seg, log)
            /\ seg.last_id = Len(log)
            /\ seg.last_id - seg.first_id + 1 < SegmentSpan
  PROVE  /\ Posted(seg, e.message, id) \in Segment
         /\ Posted(seg, e.message, id).first_id = seg.first_id
         /\ Posted(seg, e.message, id).last_id = id
         /\ Sound(Posted(seg, e.message, id), Append(log, e))
<1> DEFINE more == Append(log, e)
           new  == Posted(seg, e.message, id)
<1>1. /\ Len(log) \in Nat
      /\ Len(more) = Len(log) + 1
      /\ \A i \in 1 .. Len(log) : more[i] = log[i]
      /\ more[id] = e
  BY AppendProperties, LenProperties
<1>2. /\ seg.first_id \in Nat /\ 1 <= seg.first_id /\ seg.first_id <= id
      /\ id - seg.first_id < SegmentSpan
      /\ \A t \in Token : seg.index[t] \subseteq Nat
  BY <1>1, Sizes DEF NewSegment, Sound, Segment
<1>3. /\ new.first_id = seg.first_id /\ new.last_id = id
      /\ \A t \in Token :
           new.index[t] = IF t \in TokensOf[e.message] THEN seg.index[t] \cup {id}
                                                       ELSE seg.index[t]
      /\ new \in Segment
  BY <1>1, <1>2 DEF Posted, Segment
<1>4. ASSUME NEW t \in Token
      PROVE  seg.index[t] =
               {i \in seg.first_id .. id - 1 : t \in TokensOf[log[i].message]}
  <2>1. CASE seg = NewSegment(id)
    BY <2>1, <1>1 DEF NewSegment
  <2>2. CASE seg \in Segment /\ Sound(seg, log) /\ seg.last_id = Len(log)
    BY <2>2, <1>1 DEF Sound
  <2>3. QED
    BY <2>1, <2>2
<1> HIDE DEF more, new
<1>5. ASSUME NEW t \in Token
      PROVE  new.index[t] = {i \in seg.first_id .. id : t \in TokensOf[more[i].message]}
  <2>1. \A i \in seg.first_id .. id - 1 : more[i] = log[i]
    BY <1>1, <1>2
  <2>2. {i \in seg.first_id .. id : t \in TokensOf[more[i].message]} =
          {i \in seg.first_id .. id - 1 : t \in TokensOf[log[i].message]}
            \cup (IF t \in TokensOf[e.message] THEN {id} ELSE {})
    BY <2>1, <1>1, <1>2
  <2>3. new.index[t] =
          {i \in seg.first_id .. id - 1 : t \in TokensOf[log[i].message]}
            \cup (IF t \in TokensOf[e.message] THEN {id} ELSE {})
    <3>1. CASE t \in TokensOf[e.message]
      <4>1. new.index[t] = seg.index[t] \cup {id}
        BY <3>1, <1>3
      <4>2. QED
        BY <3>1, <4>1, <1>4
    <3>2. CASE t \notin TokensOf[e.message]
      <4>1. new.index[t] = seg.index[t]
        BY <3>2, <1>3
      <4>2. QED
        BY <3>2, <4>1, <1>4
    <3>3. QED
      BY <3>1, <3>2
  <2>4. QED
    BY <2>2, <2>3
<1>6. Sound(new, more)
  BY <1>1, <1>2, <1>3, <1>5 DEF Sound
<1>7. QED
  BY <1>3, <1>6 DEF more, new

\* index_entry_locked keeps the segments a chain, and the front where it was (or
\* opens the first segment at the new id).
LEMMA IndexEntryChain ==
  ASSUME NEW log \in Seq(Entry), NEW e \in Entry, NEW id, id = Len(log) + 1,
         NEW segs, segs = <<>> \/ Chain(segs, log)
  PROVE  LET new == IndexEntry(segs, e.message, id)
         IN  /\ Chain(new, Append(log, e))
             /\ new[1].first_id = IF segs = <<>> THEN id ELSE segs[1].first_id
<1> DEFINE new  == IndexEntry(segs, e.message, id)
           more == Append(log, e)
           goal == /\ Chain(new, more)
                   /\ new[1].first_id = IF segs = <<>> THEN id ELSE segs[1].first_id
<1>1. Len(log) \in Nat /\ Len(more) = id
  BY AppendProperties, LenProperties
<1>2. segs \in Seq(Segment) /\ (segs # <<>> => Len(segs) \in Nat \ {0})
  BY EmptySeq DEF Chain
<1>3. Len(segs) \in Nat /\ (segs = <<>> => Len(segs) = 0)
  BY <1>2, EmptySeq, LenProperties
<1>4. \A k \in 1 .. Len(segs) : segs[k] \in Segment /\ Sound(segs[k], more)
  <2> SUFFICES ASSUME NEW k \in 1 .. Len(segs)
               PROVE  segs[k] \in Segment /\ Sound(segs[k], more)
    OBVIOUS
  <2>1. segs[k] \in Segment
    BY <1>2, ElementOfSeq
  <2>2. segs # <<>>
    BY <1>3
  <2>3. Sound(segs[k], log)
    BY <2>2 DEF Chain
  <2>4. QED
    BY <2>1, <2>3, SoundGrows
<1>5. CASE NeedsSegment(segs)
  <2> DEFINE seg == Posted(NewSegment(id), e.message, id)
  <2>1. seg \in Segment /\ seg.first_id = id /\ seg.last_id = id /\ Sound(seg, more)
    <3>1. NewSegment(id).first_id = id
      BY DEF NewSegment
    <3>2. QED
      BY <3>1, PostedSound
  <2> HIDE DEF seg
  <2>2. new = Append(segs, seg)
    BY <1>5 DEF IndexEntry, seg
  <2>3. /\ new \in Seq(Segment) /\ new # <<>>
        /\ Len(new) = Len(segs) + 1
        /\ \A k \in 1 .. Len(segs) : new[k] = segs[k]
        /\ new[Len(segs) + 1] = seg
    BY <1>2, <2>1, <2>2, AppendProperties
  <2> HIDE DEF new, more
  <2>4. \A k \in 1 .. Len(new) : Sound(new[k], more)
    <3> SUFFICES ASSUME NEW k \in 1 .. Len(new) PROVE Sound(new[k], more)
      OBVIOUS
    <3>1. CASE k = Len(segs) + 1
      BY <3>1, <2>1, <2>3
    <3>2. CASE k # Len(segs) + 1
      <4>1. k \in 1 .. Len(segs)
        BY <3>2, <2>3, <1>3
      <4>2. QED
        BY <4>1, <1>4, <2>3
    <3>3. QED
      BY <3>1, <3>2
  <2>5. \A k \in 1 .. Len(new) - 1 : new[k + 1].first_id = new[k].last_id + 1
    <3> SUFFICES ASSUME NEW k \in 1 .. Len(new) - 1
                 PROVE  new[k + 1].first_id = new[k].last_id + 1
      OBVIOUS
    <3>1. k \in 1 .. Len(segs) /\ segs # <<>>
      BY <2>3, <1>3
    <3>2. CASE k = Len(segs)
      <4>1. segs[k].last_id = Len(log)
        BY <3>1, <3>2 DEF Chain
      <4>2. new[k + 1] = seg /\ new[k] = segs[k]
        BY <3>1, <3>2, <2>3
      <4>3. QED
        BY <4>1, <4>2, <2>1
    <3>3. CASE k # Len(segs)
      <4>1. k \in 1 .. Len(segs) - 1 /\ k + 1 \in 1 .. Len(segs)
        BY <3>1, <3>3, <1>3
      <4>2. segs[k + 1].first_id = segs[k].last_id + 1
        BY <3>1, <4>1 DEF Chain
      <4>3. QED
        BY <3>1, <4>1, <4>2, <2>3
    <3>4. QED
      BY <3>2, <3>3
  <2>6. new[Len(new)].last_id = Len(more)
    BY <2>1, <2>3, <1>1
  <2>7. new[1].first_id = IF segs = <<>> THEN id ELSE segs[1].first_id
    <3>1. CASE segs = <<>>
      BY <3>1, <1>3, <2>1, <2>3
    <3>2. CASE segs # <<>>
      BY <3>2, <1>2, <2>3
    <3>3. QED
      BY <3>1, <3>2
  <2>8. goal
    BY <2>3, <2>4, <2>5, <2>6, <2>7 DEF Chain
  <2>9. QED
    BY <2>8 DEF new, more
<1>6. CASE ~ NeedsSegment(segs)
  <2> DEFINE n   == Len(segs)
             seg == Posted(segs[n], e.message, id)
  <2>1. /\ segs # <<>> /\ n \in Nat \ {0} /\ Chain(segs, log)
        /\ segs[n].last_id - segs[n].first_id + 1 < SegmentSpan
    <3>1. segs # <<>> /\ ~ (segs[n].last_id - segs[n].first_id + 1 >= SegmentSpan)
      BY <1>6 DEF NeedsSegment
    <3>2. n \in Nat \ {0} /\ Chain(segs, log)
      BY <3>1, <1>2
    <3>3. segs[n].last_id \in Nat /\ segs[n].first_id \in Nat
      BY <3>2, <1>4 DEF Segment
    <3>4. QED
      BY <3>1, <3>2, <3>3, Sizes
  <2>2. /\ seg \in Segment /\ seg.first_id = segs[n].first_id /\ seg.last_id = id
        /\ Sound(seg, more)
    <3>1. segs[n] \in Segment /\ Sound(segs[n], log) /\ segs[n].last_id = Len(log)
      BY <2>1, <1>4 DEF Chain
    <3>2. QED
      BY <3>1, <2>1, PostedSound
  <2> HIDE DEF seg
  <2>3. new = [segs EXCEPT ![n] = seg]
    BY <1>6 DEF IndexEntry, seg
  <2>4. /\ new \in Seq(Segment)
        /\ Len(new) = n
        /\ \A k \in 1 .. n : new[k] = IF k = n THEN seg ELSE segs[k]
    <3>1. n \in 1 .. Len(segs)
      BY <2>1
    <3>2. QED
      BY <3>1, <1>2, <2>2, <2>3, ExceptSeq
  <2>5. new # <<>>
    BY <2>1, <2>4, EmptySeq
  <2> HIDE DEF new, more, n
  <2>6. \A k \in 1 .. Len(new) : Sound(new[k], more)
    BY <1>4, <2>2, <2>4 DEF n
  <2>7. \A k \in 1 .. Len(new) - 1 : new[k + 1].first_id = new[k].last_id + 1
    <3> SUFFICES ASSUME NEW k \in 1 .. Len(new) - 1
                 PROVE  new[k + 1].first_id = new[k].last_id + 1
      OBVIOUS
    <3>1. k \in 1 .. n /\ k # n /\ k + 1 \in 1 .. n
      BY <2>1, <2>4
    <3>2. segs[k + 1].first_id = segs[k].last_id + 1
      BY <2>1, <2>4 DEF Chain, n
    <3>3. new[k + 1].first_id = segs[k + 1].first_id
      BY <3>1, <2>2, <2>4
    <3>4. QED
      BY <3>1, <3>2, <3>3, <2>4
  <2>8. new[Len(new)].last_id = Len(more)
    BY <2>1, <2>2, <2>4, <1>1
  <2>9. new[1].first_id = segs[1].first_id
    BY <2>1, <2>2, <2>4
  <2>10. goal
    BY <2>1, <2>4, <2>5, <2>6, <2>7, <2>8, <2>9 DEF Chain
  <2>11. QED
    BY <2>10 DEF new, more
<1>7. QED
  BY <1>5, <1>6

\* The loop of evict_segments_locked has an end: the number of segments it pops
\* is the first one that leaves a single segment or a live front.
LEMMA DeadSegmentsEnd ==
  ASSUME NEW segs \in Seq(Segment), segs # <<>>, NEW oldest \in Nat
  PROVE  LET n == DeadSegments(segs, oldest)
         IN  /\ n \in 0 .. Len(segs) - 1
             /\ \A j \in 1 .. n : Expired(segs[j], oldest)
             /\ n + 1 = Len(segs) \/ ~ Expired(segs[n + 1], oldest)
<1> DEFINE stops(n) == n + 1 = Len(segs) \/ ~ Expired(segs[n + 1], oldest)
           S == {n \in 0 .. Len(segs) - 1 : stops(n)}
<1>1. Len(segs) \in Nat \ {0}
  BY EmptySeq
<1>2. S # {}
  <2>1. Len(segs) - 1 \in S
    BY <1>1
  <2>2. QED
    BY <2>1
<1>3. PICK n \in S : \A m \in S : ~ (<<m, n>> \in OpToRel(<, Nat))
  <2>1. S \subseteq Nat
    BY <1>1
  <2> HIDE DEF S
  <2>2. QED
    BY <1>2, <2>1, NatLessThanWellFounded, WFMin
<1>4. \A m \in S : ~ (m < n)
  <2>1. S \subseteq Nat
    BY <1>1
  <2> HIDE DEF S
  <2>2. QED
    BY <1>3, <2>1 DEF OpToRel
<1>5. \A j \in 1 .. n : Expired(segs[j], oldest)
  <2> SUFFICES ASSUME NEW j \in 1 .. n, ~ Expired(segs[j], oldest) PROVE FALSE
    OBVIOUS
  <2>1. j - 1 \in 0 .. Len(segs) - 1 /\ (j - 1) + 1 = j /\ j - 1 < n
    BY <1>1
  <2>2. j - 1 \in S
    BY <2>1
  <2>3. QED
    BY <2>1, <2>2, <1>4
<1>6. \E k \in 0 .. Len(segs) - 1 :
        /\ \A j \in 1 .. k : Expired(segs[j], oldest)
        /\ k + 1 = Len(segs) \/ ~ Expired(segs[k + 1], oldest)
  BY <1>5
<1>7. QED
  BY <1>6 DEF DeadSegments

\* evict_segments_locked leaves a chain whose front is live.
LEMMA EvictChain ==
  ASSUME NEW log, NEW segs, Chain(segs, log), NEW oldest \in Nat,
         segs[1].first_id <= oldest
  PROVE  LET kept == EvictSegments(segs, oldest)
         IN  Chain(kept, log) /\ FrontIsLive(kept, oldest)
<1> DEFINE n    == DeadSegments(segs, oldest)
           kept == EvictSegments(segs, oldest)
<1>1. segs \in Seq(Segment) /\ segs # <<>> /\ Len(segs) \in Nat \ {0}
  BY EmptySeq DEF Chain
<1>2. /\ n \in 0 .. Len(segs) - 1
      /\ \A j \in 1 .. n : Expired(segs[j], oldest)
      /\ n + 1 = Len(segs) \/ ~ Expired(segs[n + 1], oldest)
  BY <1>1, DeadSegmentsEnd
<1> HIDE DEF n
<1>3. \A k \in 1 .. Len(segs) : segs[k] \in Segment
  BY <1>1, ElementOfSeq
<1>4. /\ kept \in Seq(Segment)
      /\ Len(kept) = Len(segs) - n
      /\ \A i \in 1 .. Len(segs) - n : kept[i] = segs[i + n]
  <2>1. /\ SubSeq(segs, n + 1, Len(segs)) \in Seq(Segment)
        /\ Len(SubSeq(segs, n + 1, Len(segs))) =
             IF n + 1 <= Len(segs) THEN Len(segs) - (n + 1) + 1 ELSE 0
        /\ \A i \in 1 .. Len(segs) - (n + 1) + 1 :
             SubSeq(segs, n + 1, Len(segs))[i] = segs[n + 1 + i - 1]
    <3>1. \A i \in n + 1 .. Len(segs) : segs[i] \in Segment
      BY <1>1, <1>2, <1>3
    <3>2. QED
      BY <3>1, <1>1, <1>2, SubSeqProperties
  <2>2. kept = SubSeq(segs, n + 1, Len(segs))
    BY DEF EvictSegments, n
  <2>3. QED
    BY <2>1, <2>2, <1>1, <1>2
<1> HIDE DEF kept
<1>5. kept # <<>>
  BY <1>1, <1>2, <1>4, EmptySeq
<1>6. \A k \in 1 .. Len(kept) : Sound(kept[k], log)
  <2> SUFFICES ASSUME NEW k \in 1 .. Len(kept) PROVE Sound(kept[k], log)
    OBVIOUS
  <2>1. k \in 1 .. Len(segs) - n
    BY <1>4
  <2>2. n \in Nat /\ n <= Len(segs) - 1
    BY <1>1, <1>2
  <2>3. k + n \in 1 .. Len(segs)
    BY <1>1, <2>1, <2>2
  <2>4. kept[k] = segs[k + n]
    BY <1>4, <2>1
  <2>5. QED
    BY <2>3, <2>4 DEF Chain
<1>7. \A k \in 1 .. Len(kept) - 1 : kept[k + 1].first_id = kept[k].last_id + 1
  <2> SUFFICES ASSUME NEW k \in 1 .. Len(kept) - 1
               PROVE  kept[k + 1].first_id = kept[k].last_id + 1
    OBVIOUS
  <2>1. /\ k + n \in 1 .. Len(segs) - 1
        /\ kept[k] = segs[k + n] /\ kept[k + 1] = segs[(k + n) + 1]
    BY <1>1, <1>2, <1>4
  <2>2. QED
    BY <2>1 DEF Chain
<1>8. kept[Len(kept)].last_id = Len(log)
  <2>1. kept[Len(kept)] = segs[Len(segs)]
    BY <1>1, <1>2, <1>4
  <2>2. QED
    BY <2>1 DEF Chain
<1>9. kept[1] = segs[n + 1]
  BY <1>1, <1>2, <1>4
<1>10. kept[1].first_id <= oldest
  <2>1. CASE n = 0
    BY <2>1, <1>9
  <2>2. CASE n # 0
    <3>1. n \in 1 .. Len(segs) - 1 /\ n \in 1 .. n
      BY <2>2, <1>1, <1>2
    <3>2. segs[n + 1].first_id = segs[n].last_id + 1
      BY <3>1 DEF Chain
    <3>3. segs[n].last_id < oldest /\ segs[n].last_id \in Nat
      <4>1. segs[n] \in Segment
        BY <3>1, <1>1, <1>3
      <4>2. Expired(segs[n], oldest)
        BY <3>1, <1>2
      <4>3. QED
        BY <4>1, <4>2 DEF Expired, Segment
    <3>4. QED
      BY <3>2, <3>3, <1>9
  <2>3. QED
    BY <2>1, <2>2
<1>11. ASSUME Len(kept) > 1 PROVE oldest <= kept[1].last_id
  <2>1. ~ (kept[1].last_id < oldest)
    BY <1>11, <1>1, <1>2, <1>4, <1>9 DEF Expired
  <2>2. kept[1].last_id \in Nat
    BY <1>1, <1>2, <1>3, <1>9 DEF Segment
  <2>3. QED
    BY <2>1, <2>2
<1>12. Chain(kept, log) /\ FrontIsLive(kept, oldest)
  BY <1>4, <1>5, <1>6, <1>7, <1>8, <1>10, <1>11 DEF Chain, FrontIsLive
<1>13. QED
  BY <1>12 DEF kept

\* The segments' invariant is inductive, given the ring's.
LEMMA SegmentNext == RingInv /\ RingInv' /\ SegmentInv /\ [Next]_vars => SegmentInv'
<1> SUFFICES ASSUME RingInv, RingInv', SegmentInv, [Next]_vars PROVE SegmentInv'
  OBVIOUS
<1>1. ASSUME NEW e \in Entry, Push(e) PROVE SegmentInv'
  <2> DEFINE indexed == IndexEntry(segments, e.message, nextId)
  <2>1. /\ history \in Seq(Entry) /\ nextId = Len(history) + 1
        /\ items \in Seq(Entry) /\ items' \in Seq(Entry)
        /\ oldestId \in Nat /\ oldestId' \in Nat
        /\ (items = <<>> => oldestId = nextId)
    <3>1. items = <<>> => Len(items) = 0
      BY EmptySeq
    <3>2. QED
      BY <3>1 DEF RingInv, RingType, RingIsRecentHistory
  <2>2. segments = <<>> \/ Chain(segments, history)
    BY DEF SegmentInv
  <2>3. /\ Chain(indexed, Append(history, e))
        /\ indexed[1].first_id = IF segments = <<>> THEN nextId ELSE segments[1].first_id
    <3> DEFINE new == IndexEntry(segments, e.message, Len(history) + 1)
    <3>1. /\ Chain(new, Append(history, e))
          /\ new[1].first_id =
               IF segments = <<>> THEN Len(history) + 1 ELSE segments[1].first_id
      <4> DEFINE log == history
                 id  == Len(history) + 1
      <4>1. log \in Seq(Entry) /\ id = Len(log) + 1
        BY <2>1
      <4>2. segments = <<>> \/ Chain(segments, log)
        BY <2>2
      <4> HIDE DEF log, id
      <4>3. /\ Chain(IndexEntry(segments, e.message, id), Append(log, e))
            /\ IndexEntry(segments, e.message, id)[1].first_id =
                 IF segments = <<>> THEN id ELSE segments[1].first_id
        BY <4>1, <4>2, <1>1, IndexEntryChain
      <4>4. QED
        BY <4>3 DEF log, id
    <3>2. QED
      BY <3>1, <2>1
  <2>4. /\ history' = Append(history, e)
        /\ segments' = EvictSegments(indexed, oldestId')
        /\ oldestId <= oldestId'
        /\ items' # <<>>
    <3>1. /\ history' = Append(history, e)
          /\ oldestId' = FirstId(nextId) + Excess(Append(items, e))
          /\ segments' = EvictSegments(IndexEntry(segments, e.message, nextId),
                                       FirstId(nextId) + Excess(Append(items, e)))
      BY <1>1 DEF Push
    <3>2. Excess(Append(items, e)) \in Nat
      <4>1. Len(Append(items, e)) \in Nat
        BY <2>1, AppendProperties, LenProperties
      <4>2. QED
        BY <4>1, Sizes DEF Excess
    <3>3. FirstId(nextId) = oldestId
      BY FirstIdSame
    <3>4. items' # <<>>
      <4>1. Len(history') = Len(history) + 1
        BY <3>1, <2>1, AppendProperties
      <4>2. Len(items') >= 1
        BY <4>1, <2>1, Sizes, LenProperties DEF RingInv, RingIsRecentHistory
      <4>3. QED
        BY <4>2, EmptySeq
    <3>5. QED
      BY <3>1, <3>2, <3>3, <3>4, <2>1
  <2>5. indexed[1].first_id <= oldestId'
    <3>1. CASE items = <<>>
      <4>1. segments = <<>>
        BY <3>1 DEF SegmentInv
      <4>2. QED
        BY <3>1, <4>1, <2>1, <2>3, <2>4
    <3>2. CASE items # <<>>
      <4>1. segments # <<>> /\ segments[1].first_id <= oldestId
        BY <3>2 DEF SegmentInv, Chain, FrontIsLive
      <4>2. segments[1].first_id \in Nat
        <5>1. segments \in Seq(Segment) /\ Len(segments) \in Nat \ {0}
          BY <3>2, EmptySeq DEF SegmentInv, Chain
        <5>2. segments[1] \in Segment
          BY <5>1, ElementOfSeq
        <5>3. QED
          BY <5>2 DEF Segment
      <4>3. QED
        BY <4>1, <4>2, <2>1, <2>3, <2>4
    <3>3. QED
      BY <3>1, <3>2
  <2> HIDE DEF indexed
  <2>6. Chain(segments', history') /\ FrontIsLive(segments', oldestId')
    BY <2>1, <2>3, <2>4, <2>5, EvictChain
  <2>7. QED
    BY <2>4, <2>6 DEF SegmentInv
<1>2. ASSUME NEW id \in 1 .. totalPushed, Callback(id) PROVE SegmentInv'
  <2>1. UNCHANGED <<items, segments, oldestId, history>>
    BY <1>2 DEF Callback
  <2>2. QED
    BY <2>1 DEF SegmentInv, Chain, FrontIsLive, Sound
<1>3. CASE UNCHANGED vars
  <2>1. UNCHANGED <<items, segments, oldestId, history>>
    BY <1>3 DEF vars
  <2>2. QED
    BY <2>1 DEF SegmentInv, Chain, FrontIsLive, Sound
<1>4. QED
  BY <1>1, <1>2, <1>3 DEF Next

\* Ring and index are right together in every reachable state.
THEOREM BufferInvariant == Spec => [](RingInv /\ SegmentInv)
<1>1. Init => SegmentInv
  BY DEF Init, SegmentInv
<1>2. QED
  BY <1>1, SegmentNext, RingInvariant, PTL DEF Spec

\* What the invariant says of the segments, whether there are any or not.
LEMMA SegmentFacts ==
  ASSUME RingInv, SegmentInv
  PROVE  /\ segments \in Seq(Segment)
         /\ Len(segments) \in Nat
         /\ \A k \in 1 .. Len(segments) : segments[k] \in Segment /\ Sound(segments[k], history)
         /\ segments # <<>> => items # <<>> /\ Chain(segments, history)
                               /\ FrontIsLive(segments, oldestId) /\ Len(segments) > 0
         /\ segments = <<>> => items = <<>> /\ Len(segments) = 0
<1>1. CASE items = <<>>
  <2>1. segments = <<>>
    BY <1>1 DEF SegmentInv
  <2>2. <<>> \in Seq(Segment) /\ Len(<<>>) = 0
    BY EmptySeq
  <2>3. QED
    BY <1>1, <2>1, <2>2
<1>2. CASE items # <<>>
  <2>1. Chain(segments, history) /\ FrontIsLive(segments, oldestId)
    BY <1>2 DEF SegmentInv
  <2>2. segments \in Seq(Segment) /\ segments # <<>> /\ Len(segments) \in Nat \ {0}
    BY <2>1, EmptySeq DEF Chain
  <2>3. \A k \in 1 .. Len(segments) : segments[k] \in Segment
    BY <2>2, ElementOfSeq
  <2>4. \A k \in 1 .. Len(segments) : Sound(segments[k], history)
    BY <2>1 DEF Chain
  <2>5. QED
    BY <1>2, <2>1, <2>2, <2>3, <2>4
<1>3. QED
  BY <1>1, <1>2

\* Every variable of the buffer has its type, for every value of the constants.
THEOREM TypeCorrect == Spec => []TypeOK
<1>1. RingInv /\ SegmentInv => TypeOK
  BY SegmentFacts DEF RingInv, RingType, TypeOK
<1>2. QED
  BY <1>1, BufferInvariant, PTL

\* Every live entry lies in exactly one segment, for every capacity and span.
THEOREM SegmentsCover == Spec => []SegmentsCoverRing
<1>1. ASSUME RingInv, SegmentInv PROVE SegmentsCoverRing
  <2>1. nextId - 1 = Len(history)
    BY <1>1, LenProperties DEF RingInv, RingType, RingIsRecentHistory
  <2>2. \A k \in 1 .. Len(segments) : segments[k].first_id <= segments[k].last_id
    BY <1>1, SegmentFacts DEF Sound
  <2>3. \A k \in 1 .. Len(segments) - 1 :
          segments[k + 1].first_id = segments[k].last_id + 1
    <3>1. CASE segments = <<>>
      BY <3>1, <1>1, SegmentFacts
    <3>2. CASE segments # <<>>
      BY <3>2, <1>1, SegmentFacts DEF Chain
    <3>3. QED
      BY <3>1, <3>2
  <2>4. items # <<>> => /\ segments # <<>>
                        /\ segments[1].first_id <= oldestId
                        /\ segments[Len(segments)].last_id = nextId - 1
    BY <1>1, <2>1, SegmentFacts DEF Chain, FrontIsLive
  <2>5. QED
    BY <2>2, <2>3, <2>4 DEF SegmentsCoverRing
<1>2. QED
  BY <1>1, BufferInvariant, PTL

\* The inverted index is exact, for every vocabulary and every history.
THEOREM PostingsExact == Spec => []PostingsAreExact
<1>1. ASSUME RingInv, SegmentInv PROVE PostingsAreExact
  <2> SUFFICES ASSUME NEW k \in 1 .. Len(segments), NEW t \in Token
               PROVE  segments[k].index[t] =
                        {id \in segments[k].first_id .. segments[k].last_id :
                            id <= Len(history) /\ t \in TokensOf[history[id].message]}
    BY DEF PostingsAreExact
  <2> DEFINE seg == segments[k]
  <2>1. seg \in Segment /\ Sound(seg, history) /\ Len(history) \in Nat
    BY <1>1, SegmentFacts, LenProperties DEF RingInv, RingType
  <2> HIDE DEF seg
  <2>2. \A id \in seg.first_id .. seg.last_id : id <= Len(history)
    BY <2>1 DEF Sound, Segment
  <2>3. seg.index[t] =
          {id \in seg.first_id .. seg.last_id : t \in TokensOf[history[id].message]}
    BY <2>1 DEF Sound
  <2>4. seg.index[t] =
          {id \in seg.first_id .. seg.last_id :
              id <= Len(history) /\ t \in TokensOf[history[id].message]}
    BY <2>2, <2>3
  <2>5. QED
    BY <2>4 DEF seg
<1>2. QED
  BY <1>1, BufferInvariant, PTL

\* The index never spans more ids than the ring and one segment: a front segment
\* that is not the only one still has a live entry, and none is wider than a
\* segment may be.
THEOREM IndexBounded == Spec => []IndexIsBounded
<1>1. ASSUME RingInv, SegmentInv, segments # <<>>
      PROVE  nextId - segments[1].first_id < Capacity + SegmentSpan
  <2> DEFINE front == segments[1]
  <2>1. /\ front \in Segment /\ Sound(front, history)
        /\ Len(segments) \in Nat \ {0}
        /\ FrontIsLive(segments, oldestId) /\ Chain(segments, history)
    BY <1>1, SegmentFacts
  <2>2. /\ Len(history) \in Nat /\ oldestId \in Nat /\ Len(items) \in Nat
        /\ nextId = Len(history) + 1 /\ nextId = oldestId + Len(items)
        /\ Len(items) <= Capacity
    BY <1>1, Sizes, LenProperties DEF RingInv, RingType, RingIsRecentHistory
  <2>3. /\ front.first_id \in Nat /\ front.last_id \in Nat
        /\ front.last_id - front.first_id < SegmentSpan
    BY <2>1 DEF Segment, Sound
  <2>4. CASE Len(segments) = 1
    <3>1. front.last_id = Len(history)
      BY <2>1, <2>4 DEF Chain
    <3>2. QED
      BY <3>1, <2>2, <2>3, Sizes
  <2>5. CASE Len(segments) > 1
    <3>1. oldestId <= front.last_id
      BY <2>1, <2>5 DEF FrontIsLive
    <3> HIDE DEF front
    <3>2. nextId - front.first_id < Capacity + SegmentSpan
      BY <3>1, <2>2, <2>3, Sizes
    <3>3. QED
      BY <3>2 DEF front
  <2>6. QED
    BY <2>1, <2>4, <2>5
<1>2. RingInv /\ SegmentInv => IndexIsBounded
  BY <1>1 DEF IndexIsBounded
<1>3. QED
  BY <1>2, BufferInvariant, PTL

\* The three together: the index agrees with the ring after every push.
THEOREM IndexSound == Spec => []IndexIsSound
<1>1. SegmentsCoverRing /\ PostingsAreExact /\ IndexIsBounded => IndexIsSound
  BY DEF IndexIsSound
<1>2. QED
  BY <1>1, SegmentsCover, PostingsExact, IndexBounded, PTL
--------------------------------------------------------------------------------
\* What holds at 0 and goes on from one number to the next holds up to n.
LEMMA Climbing ==
  ASSUME NEW n \in Nat, NEW T, 0 \in T, \A i \in 1 .. n : i - 1 \in T => i \in T
  PROVE  0 .. n \subseteq T
<1> DEFINE S == (0 .. n) \ T
<1> SUFFICES ASSUME S # {} PROVE FALSE
  OBVIOUS
<1>1. S \subseteq Nat
  OBVIOUS
<1>2. PICK m \in S : \A k \in S : ~ (<<k, m>> \in OpToRel(<, Nat))
  <2> HIDE DEF S
  <2>1. QED
    BY <1>1, NatLessThanWellFounded, WFMin
<1>3. \A k \in S : ~ (k < m)
  <2> HIDE DEF S
  <2>1. QED
    BY <1>1, <1>2 DEF OpToRel
<1>4. m \in 1 .. n /\ m \notin T
  OBVIOUS
<1>5. m - 1 \in 0 .. n /\ m - 1 < m
  BY <1>4
<1>6. m - 1 \in T
  BY <1>3, <1>5
<1>7. QED
  BY <1>4, <1>6

\* f is the loop of n turns over the set D that begins with first and makes turn i with
\* step[<<i, what the turn before left>>].
Loops(f, n, D, first, step) ==
  /\ f \in [0 .. n -> D]
  /\ f[0] = first
  /\ \A i \in 1 .. n : f[i] = step[<<i, f[i - 1]>>]

\* Every loop can be run to its end.
LEMMA LoopEnds ==
  ASSUME NEW n \in Nat, NEW D, NEW first \in D, NEW step \in [(1 .. n) \X D -> D]
  PROVE  \E f : Loops(f, n, D, first, step)
<1> DEFINE Steps(g, m) == g[0] = first /\ \A i \in 1 .. m : g[i] = step[<<i, g[i - 1]>>]
           Reached == {m \in 0 .. n : \E g \in [0 .. m -> D] : Steps(g, m)}
<1>1. 0 \in Reached
  <2> DEFINE g == [i \in 0 .. 0 |-> first]
  <2>1. g \in [0 .. 0 -> D] /\ Steps(g, 0)
    OBVIOUS
  <2>2. \E h \in [0 .. 0 -> D] : Steps(h, 0)
    <3> HIDE DEF Steps, g
    <3>1. QED
      BY <2>1
  <2>3. 0 \in 0 .. n
    OBVIOUS
  <2>4. QED
    <3> HIDE DEF Steps
    <3>1. QED
      BY <2>2, <2>3
<1>2. ASSUME NEW m \in 1 .. n, m - 1 \in Reached
      PROVE  m \in Reached
  <2>1. PICK f \in [0 .. m - 1 -> D] : Steps(f, m - 1)
    <3> HIDE DEF Steps
    <3>1. QED
      BY <1>2
  <2>2. m \in Nat /\ m > 0 /\ m - 1 \in 0 .. m - 1 /\ f[m - 1] \in D
    <3> HIDE DEF Steps
    <3>1. QED
      BY <2>1
  <2>3. PICK last \in D : last = step[<<m, f[m - 1]>>]
    BY <2>2
  <2> DEFINE g == [i \in 0 .. m |-> IF i = m THEN last ELSE f[i]]
  <2>4. g \in [0 .. m -> D]
    BY <2>1, <2>2
  <2>5. g[0] = first
    BY <2>1, <2>2
  <2>6. ASSUME NEW i \in 1 .. m
        PROVE  g[i] = step[<<i, g[i - 1]>>]
    <3>1. CASE i = m
      <4>1. g[i] = last /\ g[i - 1] = f[m - 1]
        BY <2>2, <3>1
      <4>2. QED
        BY <3>1, <4>1, <2>3
    <3>2. CASE i # m
      <4>1. i \in 1 .. m - 1 /\ g[i] = f[i] /\ g[i - 1] = f[i - 1]
        BY <2>2, <3>2
      <4>2. QED
        BY <4>1, <2>1
    <3>3. QED
      BY <3>1, <3>2
  <2>7. Steps(g, m)
    <3> HIDE DEF g
    <3>1. QED
      BY <2>5, <2>6
  <2>8. m \in 0 .. n
    BY <2>2
  <2>9. QED
    <3> HIDE DEF g, Steps
    <3>1. QED
      BY <2>4, <2>7, <2>8
<1>3. n \in Reached
  <2>1. 0 .. n \subseteq Reached
    <3> HIDE DEF Reached
    <3>1. QED
      BY <1>1, <1>2, Climbing
  <2>2. n \in 0 .. n
    OBVIOUS
  <2> HIDE DEF Reached
  <2>3. QED
    BY <2>1, <2>2
<1>4. QED
  BY <1>3 DEF Loops

--------------------------------------------------------------------------------
(* The answers of queries. A walk goes up or down.                         *)

Before(up, x, y) == IF up THEN x < y ELSE x > y

\* Newest and Oldest in one.
Listed(answer, S, limit, up) ==
  /\ answer \in Seq(S) /\ Len(answer) <= limit
  /\ \A i, j \in 1 .. Len(answer) : i < j => Before(up, answer[i], answer[j])
  /\ \A x \in S : \/ \E i \in 1 .. Len(answer) : answer[i] = x
                  \/ Len(answer) = limit /\ \A i \in 1 .. Len(answer) : Before(up, answer[i], x)

\* One turn of the loop of a query.
Taken(answer, x, wanted, limit) ==
  IF Len(answer) < limit /\ x \in wanted THEN Append(answer, x) ELSE answer

\* A turn extends the listing by an id that comes after all of those listed before.
LEMMA ListedGrows ==
  ASSUME NEW up \in BOOLEAN, NEW limit \in Nat, NEW S \in SUBSET Int, NEW answer,
         Listed(answer, S, limit, up), NEW x \in Int, \A y \in S : Before(up, y, x),
         NEW wanted
  PROVE  Listed(Taken(answer, x, wanted, limit), S \cup ({x} \cap wanted), limit, up)
<1> DEFINE more == S \cup ({x} \cap wanted)
<1>1. /\ answer \in Seq(S) /\ Len(answer) \in Nat /\ Len(answer) <= limit
      /\ answer \in Seq(more) /\ \A i \in 1 .. Len(answer) : answer[i] \in S
  <2>1. answer \in Seq(S)
    BY DEF Listed
  <2>2. Len(answer) \in Nat /\ \A i \in 1 .. Len(answer) : answer[i] \in S
    BY <2>1, LenProperties, ElementOfSeq
  <2>3. answer \in Seq(more)
    BY <2>1, <2>2, SeqDef
  <2>4. QED
    BY <2>1, <2>2, <2>3 DEF Listed
<1>2. CASE Len(answer) < limit /\ x \in wanted
  <2> DEFINE next == Append(answer, x)
  <2>1. /\ next \in Seq(more) /\ Len(next) = Len(answer) + 1
        /\ \A i \in 1 .. Len(answer) : next[i] = answer[i]
        /\ next[Len(answer) + 1] = x
    <3>1. x \in more
      BY <1>2
    <3> HIDE DEF more
    <3>2. QED
      BY <1>1, <3>1, AppendProperties
  <2> HIDE DEF next
  <2>2. \A i, j \in 1 .. Len(next) : i < j => Before(up, next[i], next[j])
    <3> SUFFICES ASSUME NEW i \in 1 .. Len(next), NEW j \in 1 .. Len(next), i < j
                 PROVE  Before(up, next[i], next[j])
      OBVIOUS
    <3>1. i \in 1 .. Len(answer)
      BY <1>1, <2>1
    <3>2. CASE j \in 1 .. Len(answer)
      BY <3>1, <3>2, <2>1 DEF Listed
    <3>3. CASE j = Len(answer) + 1
      BY <1>1, <3>1, <3>3, <2>1
    <3>4. QED
      BY <1>1, <2>1, <3>2, <3>3
  <2>3. ASSUME NEW z \in more
        PROVE  \E i \in 1 .. Len(next) : next[i] = z
    <3>1. CASE z = x
      BY <1>1, <2>1, <3>1
    <3>2. CASE z # x
      <4>1. z \in S
        BY <3>2
      <4>2. PICK i \in 1 .. Len(answer) : answer[i] = z
        BY <1>2, <1>1, <4>1 DEF Listed
      <4>3. i \in 1 .. Len(next) /\ next[i] = z
        BY <1>1, <2>1, <4>2
      <4>4. QED
        BY <4>3
    <3>3. QED
      BY <3>1, <3>2
  <2>4. Len(next) <= limit
    BY <1>1, <1>2, <2>1
  <2>5. Taken(answer, x, wanted, limit) = next
    BY <1>2 DEF Taken, next
  <2> HIDE DEF more
  <2>6. Listed(next, more, limit, up)
    BY <2>1, <2>2, <2>3, <2>4 DEF Listed
  <2>7. QED
    BY <2>5, <2>6 DEF more
<1>3. CASE ~ (Len(answer) < limit /\ x \in wanted)
  <2>1. Taken(answer, x, wanted, limit) = answer
    BY <1>3 DEF Taken
  <2>2. ASSUME NEW z \in more
        PROVE  \/ \E i \in 1 .. Len(answer) : answer[i] = z
               \/ /\ Len(answer) = limit
                  /\ \A i \in 1 .. Len(answer) : Before(up, answer[i], z)
    <3>1. CASE z \in S
      BY <3>1 DEF Listed
    <3>2. CASE z \notin S
      <4>1. z = x /\ x \in wanted
        BY <3>2
      <4>2. Len(answer) = limit
        BY <1>1, <1>3, <4>1
      <4>3. \A i \in 1 .. Len(answer) : Before(up, answer[i], x)
        BY <1>1
      <4>4. QED
        BY <4>1, <4>2, <4>3
    <3>3. QED
      BY <3>1, <3>2
  <2> HIDE DEF more
  <2>3. Listed(answer, more, limit, up)
    BY <1>1, <2>2 DEF Listed
  <2>4. QED
    BY <2>1, <2>3 DEF more
<1>4. QED
  BY <1>2, <1>3

\* f lists what the loop of a query has taken after each turn.
Takes(f, result, walk, wanted, limit) ==
  /\ f \in [0 .. Len(walk) -> Seq(Int)]
  /\ f[0] = result
  /\ \A i \in 1 .. Len(walk) : f[i] = Taken(f[i - 1], walk[i], wanted, limit)
  /\ Take(result, walk, wanted, limit) = f[Len(walk)]

LEMMA TakeTurnByTurn ==
  ASSUME NEW result \in Seq(Int), NEW walk \in Seq(Int), NEW wanted, NEW limit
  PROVE  \E f : Takes(f, result, walk, wanted, limit)
<1> DEFINE n == Len(walk)
           Turn(g) == g = [i \in 0 .. n |->
                             IF i = 0 THEN result
                             ELSE IF Len(g[i - 1]) < limit /\ walk[i] \in wanted
                                  THEN Append(g[i - 1], walk[i])
                                  ELSE g[i - 1]]
           step == [p \in (1 .. n) \X Seq(Int) |-> Taken(p[2], walk[p[1]], wanted, limit)]
<1>1. n \in Nat /\ (\A i \in 1 .. n : walk[i] \in Int)
  BY LenProperties, ElementOfSeq
<1>2. step \in [(1 .. n) \X Seq(Int) -> Seq(Int)]
  <2>1. ASSUME NEW p \in (1 .. n) \X Seq(Int)
        PROVE  Taken(p[2], walk[p[1]], wanted, limit) \in Seq(Int)
    <3>1. walk[p[1]] \in Int /\ p[2] \in Seq(Int)
      BY <1>1
    <3>2. Append(p[2], walk[p[1]]) \in Seq(Int)
      BY <3>1, AppendProperties
    <3>3. QED
      BY <3>1, <3>2 DEF Taken
  <2>2. QED
    <3> HIDE DEF n
    <3>1. QED
      BY <2>1
<1>3. PICK f : Loops(f, n, Seq(Int), result, step)
  <2> HIDE DEF n, step
  <2>1. QED
    BY <1>1, <1>2, LoopEnds
<1>4. /\ f \in [0 .. n -> Seq(Int)] /\ f[0] = result
      /\ \A i \in 1 .. n : f[i] = Taken(f[i - 1], walk[i], wanted, limit)
  <2>1. f \in [0 .. n -> Seq(Int)] /\ f[0] = result /\ \A i \in 1 .. n : f[i] = step[<<i, f[i - 1]>>]
    <3> HIDE DEF n, step
    <3>1. QED
      BY <1>3 DEF Loops
  <2>2. ASSUME NEW i \in 1 .. n
        PROVE  f[i] = Taken(f[i - 1], walk[i], wanted, limit)
    <3>1. i - 1 \in 0 .. n /\ f[i - 1] \in Seq(Int)
      <4> HIDE DEF n, step
      <4>1. i - 1 \in 0 .. n
        BY <1>1
      <4>2. QED
        BY <2>1, <4>1
    <3>2. <<i, f[i - 1]>> \in (1 .. n) \X Seq(Int)
      BY <3>1
    <3>3. QED
      BY <2>1, <3>2
  <2>3. QED
    <3> HIDE DEF n, step
    <3>1. QED
      BY <2>1, <2>2
<1>5. Turn(f)
  <2> DEFINE rhs == [i \in 0 .. n |->
                       IF i = 0 THEN result
                       ELSE IF Len(f[i - 1]) < limit /\ walk[i] \in wanted
                            THEN Append(f[i - 1], walk[i])
                            ELSE f[i - 1]]
  <2>1. ASSUME NEW i \in 0 .. n
        PROVE  f[i] = rhs[i]
    <3>1. CASE i = 0
      BY <1>4, <3>1
    <3>2. CASE i # 0
      <4>1. i \in 1 .. n
        BY <1>1, <3>2
      <4>2. rhs[i] = Taken(f[i - 1], walk[i], wanted, limit)
        BY <3>2 DEF Taken
      <4>3. QED
        <5> HIDE DEF n, rhs
        <5>1. QED
          BY <1>4, <4>1, <4>2
    <3>3. QED
      BY <3>1, <3>2
  <2>2. f = rhs
    <3> HIDE DEF n
    <3>1. DOMAIN f = 0 .. n /\ DOMAIN rhs = 0 .. n
      BY <1>4
    <3>2. QED
      BY <2>1, <3>1, <1>4
  <2>3. QED
    BY <2>2
<1> DEFINE taken == CHOOSE g : Turn(g)
<1>6. Turn(taken)
  BY <1>5
<1>7. Take(result, walk, wanted, limit) = taken[n]
  BY DEF Take
<1>8. \A i \in 0 .. n : taken[i] = f[i]
  <2> DEFINE T == {i \in 0 .. n : taken[i] = f[i]}
  <2>1. taken[0] = result
        /\ \A i \in 1 .. n : taken[i] = Taken(taken[i - 1], walk[i], wanted, limit)
    <3> HIDE DEF taken
    <3>1. 0 \in 0 .. n /\ \A i \in 1 .. n : i \in 0 .. n /\ i # 0
      BY <1>1
    <3> HIDE DEF n
    <3>2. taken = [i \in 0 .. n |->
                     IF i = 0 THEN result
                     ELSE IF Len(taken[i - 1]) < limit /\ walk[i] \in wanted
                          THEN Append(taken[i - 1], walk[i])
                          ELSE taken[i - 1]]
      BY <1>6
    <3>3. taken[0] = result
      BY <3>1, <3>2
    <3>4. ASSUME NEW i \in 1 .. n
          PROVE  taken[i] = Taken(taken[i - 1], walk[i], wanted, limit)
      BY <3>1, <3>2 DEF Taken
    <3>5. QED
      BY <3>3, <3>4
  <2> HIDE DEF taken
  <2>2. 0 \in T
    BY <1>1, <1>4, <2>1
  <2>3. \A i \in 1 .. n : i - 1 \in T => i \in T
    BY <1>1, <1>4, <2>1
  <2>4. 0 .. n \subseteq T
    <3> HIDE DEF T, n
    <3>1. QED
      BY <1>1, <2>2, <2>3, Climbing
  <2>5. QED
    BY <2>4
<1>9. n \in 0 .. n
  BY <1>1
<1>10. QED
  <2> HIDE DEF taken
  <2>1. QED
    BY <1>4, <1>7, <1>8, <1>9 DEF Takes

\* The ids of a walk go one way.
Walks(walk, up) ==
  /\ walk \in Seq(Int)
  /\ \A i, j \in 1 .. Len(walk) : i < j => Before(up, walk[i], walk[j])

\* The loop of a query extends a listing by what is wanted of its walk, if the whole walk
\* comes after what is listed.
LEMMA TakeLists ==
  ASSUME NEW up \in BOOLEAN, NEW limit \in Nat, NEW S \in SUBSET Int, NEW result,
         Listed(result, S, limit, up), NEW walk, Walks(walk, up),
         \A y \in S : \A i \in 1 .. Len(walk) : Before(up, y, walk[i]), NEW wanted
  PROVE  LET met == {walk[i] : i \in 1 .. Len(walk)}
         IN  Listed(Take(result, walk, wanted, limit), S \cup (met \cap wanted), limit, up)
<1> DEFINE n == Len(walk)
           Met(m) == {walk[i] : i \in 1 .. m}
           So(m) == S \cup (Met(m) \cap wanted)
<1>1. /\ walk \in Seq(Int) /\ n \in Nat /\ \A i \in 1 .. n : walk[i] \in Int
  BY LenProperties, ElementOfSeq DEF Walks
<1>2. result \in Seq(Int)
  <2>1. result \in Seq(S)
    BY DEF Listed
  <2>2. \A i \in 1 .. Len(result) : result[i] \in Int
    BY <2>1, ElementOfSeq
  <2>3. QED
    BY <2>1, <2>2, SeqDef
<1>3. PICK f : Takes(f, result, walk, wanted, limit)
  BY <1>1, <1>2, TakeTurnByTurn
<1>4. /\ f[0] = result /\ \A i \in 1 .. n : f[i] = Taken(f[i - 1], walk[i], wanted, limit)
      /\ Take(result, walk, wanted, limit) = f[n]
  BY <1>3 DEF Takes
<1> DEFINE T == {m \in 0 .. n : Listed(f[m], So(m), limit, up)}
<1>5. 0 \in T
  <2>1. So(0) = S
    OBVIOUS
  <2> HIDE DEF So, n
  <2>2. QED
    BY <1>1, <1>4, <2>1
<1>6. ASSUME NEW m \in 1 .. n, m - 1 \in T
      PROVE  m \in T
  <2>1. Listed(f[m - 1], So(m - 1), limit, up)
    <3> HIDE DEF So, n
    <3>1. QED
      BY <1>6
  <2>2. So(m - 1) \in SUBSET Int /\ walk[m] \in Int
    <3>1. \A i \in 1 .. m - 1 : i \in 1 .. n
      BY <1>1
    <3>2. QED
      BY <1>1, <3>1
  <2>3. ASSUME NEW y \in So(m - 1) PROVE Before(up, y, walk[m])
    <3>1. CASE y \in S
      BY <3>1
    <3>2. CASE y \notin S
      <4>1. PICK i \in 1 .. m - 1 : y = walk[i]
        BY <3>2
      <4>2. i \in 1 .. n /\ i < m
        BY <1>1, <4>1
      <4>3. QED
        BY <4>1, <4>2 DEF Walks
    <3>3. QED
      BY <3>1, <3>2
  <2>4. So(m) = So(m - 1) \cup ({walk[m]} \cap wanted)
    <3>1. Met(m) = Met(m - 1) \cup {walk[m]}
      <4>1. m \in Nat /\ 1 .. m = (1 .. m - 1) \cup {m}
        BY <1>1
      <4>2. QED
        BY <4>1
    <3> HIDE DEF Met
    <3>2. QED
      BY <3>1
  <2> HIDE DEF So
  <2>5. Listed(Taken(f[m - 1], walk[m], wanted, limit), So(m - 1) \cup ({walk[m]} \cap wanted),
               limit, up)
    BY <2>1, <2>2, <2>3, ListedGrows
  <2>6. Listed(f[m], So(m), limit, up)
    BY <1>4, <2>4, <2>5
  <2>7. m \in 0 .. n
    BY <1>1
  <2>8. QED
    BY <2>6, <2>7
<1>7. n \in T
  <2>1. 0 .. n \subseteq T
    <3> HIDE DEF T, n
    <3>1. QED
      BY <1>1, <1>5, <1>6, Climbing
  <2>2. n \in 0 .. n
    BY <1>1
  <2> HIDE DEF T, n
  <2>3. QED
    BY <2>1, <2>2
<1>8. Listed(f[n], So(n), limit, up)
  <2> HIDE DEF So, n
  <2>1. QED
    BY <1>7
<1>9. QED
  <2> HIDE DEF n
  <2>1. QED
    BY <1>4, <1>8 DEF n

--------------------------------------------------------------------------------
\* Both walks of an interval meet exactly its ids.
LEMMA BackwardsWalks ==
  ASSUME NEW first \in Int, NEW last \in Int, first <= last + 1
  PROVE  LET walk == Backwards(first, last)
         IN  Walks(walk, FALSE) /\ {walk[i] : i \in 1 .. Len(walk)} = first .. last
<1> DEFINE walk == Backwards(first, last)
           n    == last - first + 1
<1>1. n \in Nat /\ walk = [i \in 1 .. n |-> last + 1 - i]
  BY DEF Backwards
<1>2. walk \in Seq(Int) /\ Len(walk) = n
  <2>1. \A i \in 1 .. n : last + 1 - i \in Int
    OBVIOUS
  <2> HIDE DEF walk, n
  <2>2. QED
    BY <1>1, <2>1, SeqDef, LenProperties
<1>3. \A i \in 1 .. n : walk[i] = last + 1 - i
  <2> HIDE DEF walk, n
  <2>1. QED
    BY <1>1
<1>4. \A i, j \in 1 .. Len(walk) : i < j => Before(FALSE, walk[i], walk[j])
  <2> HIDE DEF walk
  <2>1. QED
    BY <1>2, <1>3 DEF Before
<1>5. \A x \in first .. last : \E i \in 1 .. n : walk[i] = x
  <2> SUFFICES ASSUME NEW x \in first .. last
               PROVE  \E i \in 1 .. n : walk[i] = x
    OBVIOUS
  <2>1. last + 1 - x \in 1 .. n
    OBVIOUS
  <2>2. walk[last + 1 - x] = x
    <3> HIDE DEF walk, n
    <3>1. QED
      BY <1>3, <2>1
  <2>3. QED
    <3> HIDE DEF walk, n
    <3>1. QED
      BY <2>1, <2>2
<1>6. \A i \in 1 .. n : walk[i] \in first .. last
  <2> HIDE DEF walk
  <2>1. QED
    BY <1>3
<1>7. {walk[i] : i \in 1 .. n} = first .. last
  <2> HIDE DEF walk, n
  <2>1. QED
    BY <1>5, <1>6
<1>8. QED
  <2> HIDE DEF walk, n
  <2>1. Walks(walk, FALSE) /\ {walk[i] : i \in 1 .. Len(walk)} = first .. last
    BY <1>2, <1>4, <1>7 DEF Walks
  <2>2. QED
    BY <2>1 DEF walk

LEMMA ForwardsWalks ==
  ASSUME NEW first \in Int, NEW last \in Int, first <= last + 1
  PROVE  LET walk == Forwards(first, last)
         IN  Walks(walk, TRUE) /\ {walk[i] : i \in 1 .. Len(walk)} = first .. last
<1> DEFINE walk == Forwards(first, last)
           n    == last - first + 1
<1>1. n \in Nat /\ walk = [i \in 1 .. n |-> first + i - 1]
  BY DEF Forwards
<1>2. walk \in Seq(Int) /\ Len(walk) = n
  <2>1. \A i \in 1 .. n : first + i - 1 \in Int
    OBVIOUS
  <2> HIDE DEF walk, n
  <2>2. QED
    BY <1>1, <2>1, SeqDef, LenProperties
<1>3. \A i \in 1 .. n : walk[i] = first + i - 1
  <2> HIDE DEF walk, n
  <2>1. QED
    BY <1>1
<1>4. \A i, j \in 1 .. Len(walk) : i < j => Before(TRUE, walk[i], walk[j])
  <2> HIDE DEF walk
  <2>1. QED
    BY <1>2, <1>3 DEF Before
<1>5. \A x \in first .. last : \E i \in 1 .. n : walk[i] = x
  <2> SUFFICES ASSUME NEW x \in first .. last
               PROVE  \E i \in 1 .. n : walk[i] = x
    OBVIOUS
  <2>1. x - first + 1 \in 1 .. n
    OBVIOUS
  <2>2. walk[x - first + 1] = x
    <3> HIDE DEF walk, n
    <3>1. QED
      BY <1>3, <2>1
  <2>3. QED
    <3> HIDE DEF walk, n
    <3>1. QED
      BY <2>1, <2>2
<1>6. \A i \in 1 .. n : walk[i] \in first .. last
  <2> HIDE DEF walk
  <2>1. QED
    BY <1>3
<1>7. {walk[i] : i \in 1 .. n} = first .. last
  <2> HIDE DEF walk, n
  <2>1. QED
    BY <1>5, <1>6
<1>8. QED
  <2> HIDE DEF walk, n
  <2>1. Walks(walk, TRUE) /\ {walk[i] : i \in 1 .. Len(walk)} = first .. last
    BY <1>2, <1>4, <1>7 DEF Walks
  <2>2. QED
    BY <2>1 DEF walk

\* A walk of an interval begun with an empty result lists what is wanted of it.
LEMMA FreshTake ==
  ASSUME NEW up \in BOOLEAN, NEW limit \in Nat, NEW walk, NEW met, Walks(walk, up),
         met = {walk[i] : i \in 1 .. Len(walk)}, NEW wanted \in SUBSET met
  PROVE  Listed(Take(<<>>, walk, wanted, limit), wanted, limit, up)
<1>1. Listed(<<>>, {}, limit, up)
  <2>1. <<>> \in Seq({}) /\ Len(<<>>) = 0
    BY EmptySeq
  <2>2. QED
    BY <2>1 DEF Listed
<1>2. Listed(Take(<<>>, walk, wanted, limit), {} \cup (met \cap wanted), limit, up)
  BY <1>1, TakeLists
<1>3. {} \cup (met \cap wanted) = wanted
  OBVIOUS
<1>4. QED
  BY <1>2, <1>3

\* A listing downwards is what RecentLog calls the newest entries, one upwards the oldest.
LEMMA ListedIsAnswer ==
  ASSUME NEW answer, NEW S, NEW limit
  PROVE  /\ Listed(answer, S, limit, FALSE) => Recent!Newest(answer, S, limit)
         /\ Listed(answer, S, limit, TRUE) => Recent!Oldest(answer, S, limit)
<1>1. ASSUME answer \in Seq(S) PROVE DOMAIN answer = 1 .. Len(answer)
  BY <1>1, LenProperties
<1>2. QED
  BY <1>1 DEF Listed, Before, Recent!Newest, Recent!Oldest

--------------------------------------------------------------------------------
\* The ids of the ring are the live positions of the log, and lead to the same entries.
LEMMA RingIsLive ==
  ASSUME RingInv
  PROVE  /\ oldestId \in Int /\ LastId \in Int /\ oldestId <= LastId + 1
         /\ LastId = Len(history) /\ Len(history) \in Nat /\ history \in Seq(Entry)
         /\ oldestId .. LastId = Recent!Live(history)
         /\ \A id \in oldestId .. LastId : EntryOf(id) = history[id] /\ history[id] \in Entry
         /\ \A id \in Int : HasEntry(id) <=> id \in oldestId .. LastId
         /\ items = <<>> <=> oldestId .. LastId = {}
<1>1. /\ items \in Seq(Entry) /\ history \in Seq(Entry) /\ Len(items) \in Nat
      /\ oldestId \in Nat \ {0} /\ Len(history) \in Nat /\ DOMAIN history = 1 .. Len(history)
      /\ Len(items) = IF Len(history) < Capacity THEN Len(history) ELSE Capacity
      /\ nextId = Len(history) + 1 /\ oldestId + Len(items) = nextId
      /\ \A i \in 1 .. Len(items) : items[i] = history[oldestId + i - 1]
  BY LenProperties DEF RingInv, RingType, RingIsRecentHistory
<1>2. LastId = Len(history)
  BY <1>1 DEF LastId
<1>3. oldestId = IF Len(history) < Capacity THEN 1 ELSE Len(history) - Capacity + 1
  BY <1>1, Sizes
<1>4. oldestId .. LastId = Recent!Live(history)
  BY <1>1, <1>2, <1>3, Sizes DEF Recent!Live
<1>5. ASSUME NEW id \in oldestId .. LastId
      PROVE  EntryOf(id) = history[id] /\ history[id] \in Entry
  <2>1. id - oldestId + 1 \in 1 .. Len(items) /\ id \in 1 .. Len(history)
    BY <1>1, <1>2
  <2>2. EntryOf(id) = history[oldestId + (id - oldestId + 1) - 1]
    BY <1>1, <2>1 DEF EntryOf
  <2>3. oldestId + (id - oldestId + 1) - 1 = id
    BY <1>1
  <2>4. QED
    BY <1>1, <2>1, <2>2, <2>3, ElementOfSeq
<1>6. \A id \in Int : HasEntry(id) <=> id \in oldestId .. LastId
  BY <1>1, <1>2 DEF HasEntry
<1>7. items = <<>> <=> Len(items) = 0
  BY <1>1, EmptySeq
<1>8. items = <<>> <=> oldestId .. LastId = {}
  <2>1. CASE Len(items) = 0
    BY <1>1, <1>2, <1>7, <2>1
  <2>2. CASE Len(items) # 0
    <3>1. oldestId \in oldestId .. LastId
      BY <1>1, <1>2, <2>2
    <3>2. QED
      BY <1>7, <2>2, <3>1
  <2>3. QED
    BY <2>1, <2>2
<1>9. QED
  BY <1>1, <1>2, <1>3, <1>4, <1>5, <1>6, <1>8, Sizes

\* The live entries with all of some words, and those whose text contains a query.
HasWords(tokens) == {i \in Recent!Live(history) : tokens \subseteq TokensOf[history[i].message]}
HasText(q) == {i \in Recent!Live(history) : history[i].message \in Containing[q]}

\* The scan of the ring finds the newest entries that contain the query.
LEMMA ScanLists ==
  ASSUME RingInv, NEW q, NEW limit \in Nat
  PROVE  /\ Recent!Newest(ScanHits(q, limit), HasText(q), limit)
         /\ Recent!Newest(Take(<<>>, Backwards(oldestId, LastId), oldestId .. LastId, limit),
                          Recent!Live(history), limit)
<1> DEFINE walk   == Backwards(oldestId, LastId)
           live   == oldestId .. LastId
           wanted == {id \in live : EntryOf(id).message \in Containing[q]}
<1>1. Walks(walk, FALSE) /\ live = {walk[i] : i \in 1 .. Len(walk)}
  BY RingIsLive, BackwardsWalks
<1>2. wanted = HasText(q) /\ live = Recent!Live(history)
  BY RingIsLive DEF HasText
<1>3. wanted \in SUBSET live /\ live \in SUBSET live
  OBVIOUS
<1>4. ScanHits(q, limit) = Take(<<>>, walk, wanted, limit)
  BY DEF ScanHits
<1> HIDE DEF walk, live, wanted
<1>5. /\ Listed(Take(<<>>, walk, wanted, limit), wanted, limit, FALSE)
      /\ Listed(Take(<<>>, walk, live, limit), live, limit, FALSE)
  BY <1>1, <1>3, FreshTake
<1>6. /\ Recent!Newest(Take(<<>>, walk, wanted, limit), wanted, limit)
      /\ Recent!Newest(Take(<<>>, walk, live, limit), live, limit)
  BY <1>5, ListedIsAnswer
<1>7. Recent!Newest(Take(<<>>, walk, live, limit), Recent!Live(history), limit)
  BY <1>2, <1>6
<1>8. QED
  BY <1>2, <1>4, <1>6, <1>7 DEF walk, live

\* A query by time finds the oldest entries of its interval.
LEMMA TimesList ==
  ASSUME RingInv, NEW from \in Time, NEW to \in Time, NEW limit \in Nat
  PROVE  Recent!FindsBetween(history, from, to, limit, QueryByTime(from, to, limit))
<1> DEFINE walk   == Forwards(oldestId, LastId)
           live   == oldestId .. LastId
           Out(ts) == ts < from \/ ts > to
           wanted == {id \in live : ~ Out(EntryOf(id).timestamp)}
           within == {i \in Recent!Live(history) : history[i].timestamp \in from .. to}
<1>1. Walks(walk, TRUE) /\ live = {walk[i] : i \in 1 .. Len(walk)}
  BY RingIsLive, ForwardsWalks
<1>2. wanted = within
  <2>1. ASSUME NEW id \in live
        PROVE  ~ Out(EntryOf(id).timestamp) <=> history[id].timestamp \in from .. to
    <3>1. EntryOf(id) = history[id] /\ history[id].timestamp \in Int
      BY RingIsLive, TimeAssumption DEF Entry
    <3>2. from \in Int /\ to \in Int
      BY TimeAssumption
    <3>3. QED
      BY <3>1, <3>2
  <2>2. live = Recent!Live(history)
    BY RingIsLive
  <2> HIDE DEF live, Out
  <2>3. QED
    BY <2>1, <2>2
<1>3. wanted \in SUBSET live
  OBVIOUS
<1>4. QueryByTime(from, to, limit) = Take(<<>>, walk, wanted, limit)
  BY DEF QueryByTime
<1>5. Recent!FindsBetween(history, from, to, limit, Take(<<>>, walk, wanted, limit))
        <=> Recent!Oldest(Take(<<>>, walk, wanted, limit), within, limit)
  BY DEF Recent!FindsBetween
<1> HIDE DEF walk, live, wanted, within
<1>6. Listed(Take(<<>>, walk, wanted, limit), wanted, limit, TRUE)
  BY <1>1, <1>3, FreshTake
<1>7. Recent!Oldest(Take(<<>>, walk, wanted, limit), within, limit)
  BY <1>2, <1>6, ListedIsAnswer
<1>8. QED
  BY <1>4, <1>5, <1>7

--------------------------------------------------------------------------------
\* What search takes from segment number k, counted from the newest.
OfSegment(result, k, tokens, limit) ==
  LET seg == segments[Len(segments) + 1 - k]
  IN  Take(result, Backwards(seg.first_id, seg.last_id),
           {id \in LookupSegment(seg, tokens) : HasEntry(id)}, limit)

\* f lists what the search through the index has found after each segment.
Hits(f, tokens, limit) ==
  /\ f[0] = <<>>
  /\ \A k \in 1 .. Len(segments) : f[k] = OfSegment(f[k - 1], k, tokens, limit)
  /\ IndexHits(tokens, limit) = f[Len(segments)]

LEMMA HitsSegmentBySegment ==
  ASSUME RingInv, SegmentInv, NEW tokens, NEW limit
  PROVE  \E f : Hits(f, tokens, limit)
<1> DEFINE n == Len(segments)
           Turn(g) == g = [k \in 0 .. n |->
                             IF k = 0 THEN <<>> ELSE OfSegment(g[k - 1], k, tokens, limit)]
           step == [p \in (1 .. n) \X Seq(Int) |-> OfSegment(p[2], p[1], tokens, limit)]
<1>1. n \in Nat /\ <<>> \in Seq(Int)
  BY SegmentFacts, EmptySeq
<1>2. step \in [(1 .. n) \X Seq(Int) -> Seq(Int)]
  <2>1. ASSUME NEW k \in 1 .. n, NEW r \in Seq(Int)
        PROVE  OfSegment(r, k, tokens, limit) \in Seq(Int)
    <3> DEFINE seg == segments[n + 1 - k]
               walk == Backwards(seg.first_id, seg.last_id)
               wanted == {id \in LookupSegment(seg, tokens) : HasEntry(id)}
    <3>1. n + 1 - k \in 1 .. n
      BY <1>1
    <3>2. seg \in Segment /\ Sound(seg, history)
      BY <3>1, SegmentFacts
    <3>3. seg.first_id \in Int /\ seg.last_id \in Int /\ seg.first_id <= seg.last_id + 1
      <4> HIDE DEF seg
      <4>1. QED
        BY <3>2 DEF Segment, Sound
    <3>4. walk \in Seq(Int)
      <4> HIDE DEF seg
      <4>1. QED
        BY <3>3, BackwardsWalks DEF Walks
    <3>5. OfSegment(r, k, tokens, limit) = Take(r, walk, wanted, limit)
      BY DEF OfSegment
    <3> HIDE DEF walk, wanted
    <3>6. PICK f : Takes(f, r, walk, wanted, limit)
      BY <3>4, TakeTurnByTurn
    <3>7. Len(walk) \in 0 .. Len(walk)
      BY <3>4, LenProperties
    <3>8. QED
      BY <3>5, <3>6, <3>7 DEF Takes
  <2>2. ASSUME NEW p \in (1 .. n) \X Seq(Int)
        PROVE  OfSegment(p[2], p[1], tokens, limit) \in Seq(Int)
    <3> HIDE DEF n
    <3>1. p[1] \in 1 .. n /\ p[2] \in Seq(Int)
      OBVIOUS
    <3>2. QED
      BY <2>1, <3>1
  <2>3. QED
    <3> HIDE DEF n
    <3>1. QED
      BY <2>2
<1>3. PICK f : Loops(f, n, Seq(Int), <<>>, step)
  <2> HIDE DEF n, step
  <2>1. QED
    BY <1>1, <1>2, LoopEnds
<1>4. /\ f \in [0 .. n -> Seq(Int)] /\ f[0] = <<>>
      /\ \A k \in 1 .. n : f[k] = OfSegment(f[k - 1], k, tokens, limit)
  <2>1. f \in [0 .. n -> Seq(Int)] /\ f[0] = <<>> /\ \A k \in 1 .. n : f[k] = step[<<k, f[k - 1]>>]
    <3> HIDE DEF n, step
    <3>1. QED
      BY <1>3 DEF Loops
  <2>2. ASSUME NEW k \in 1 .. n
        PROVE  f[k] = OfSegment(f[k - 1], k, tokens, limit)
    <3> HIDE DEF n
    <3>1. k - 1 \in 0 .. n
      BY <1>1
    <3>2. <<k, f[k - 1]>> \in (1 .. n) \X Seq(Int)
      BY <2>1, <3>1
    <3>3. QED
      BY <2>1, <3>2
  <2>3. QED
    <3> HIDE DEF n, step
    <3>1. QED
      BY <2>1, <2>2
<1>5. Turn(f)
  <2> DEFINE rhs == [k \in 0 .. n |->
                       IF k = 0 THEN <<>> ELSE OfSegment(f[k - 1], k, tokens, limit)]
  <2>1. ASSUME NEW k \in 0 .. n
        PROVE  f[k] = rhs[k]
    <3> HIDE DEF n
    <3>1. CASE k = 0
      BY <1>4, <3>1
    <3>2. CASE k # 0
      <4>1. k \in 1 .. n
        BY <1>1, <3>2
      <4>2. QED
        BY <1>4, <3>2, <4>1
    <3>3. QED
      BY <3>1, <3>2
  <2>2. f = rhs
    <3> HIDE DEF n
    <3>1. DOMAIN f = 0 .. n /\ DOMAIN rhs = 0 .. n
      BY <1>4
    <3>2. QED
      BY <2>1, <3>1, <1>4
  <2>3. QED
    BY <2>2
<1> DEFINE hits == CHOOSE g : Turn(g)
<1>6. Turn(hits)
  BY <1>5
<1>7. IndexHits(tokens, limit) = hits[n]
  BY DEF IndexHits, OfSegment
<1>8. hits[0] = <<>> /\ \A k \in 1 .. n : hits[k] = OfSegment(hits[k - 1], k, tokens, limit)
  <2> HIDE DEF hits
  <2>1. 0 \in 0 .. n /\ \A k \in 1 .. n : k \in 0 .. n /\ k # 0
    BY <1>1
  <2> HIDE DEF n
  <2>2. hits = [k \in 0 .. n |->
                  IF k = 0 THEN <<>> ELSE OfSegment(hits[k - 1], k, tokens, limit)]
    BY <1>6
  <2>3. hits[0] = <<>>
    BY <2>1, <2>2
  <2>4. ASSUME NEW k \in 1 .. n
        PROVE  hits[k] = OfSegment(hits[k - 1], k, tokens, limit)
    BY <2>1, <2>2
  <2>5. QED
    BY <2>3, <2>4
<1>9. QED
  <2> HIDE DEF hits
  <2>1. QED
    BY <1>7, <1>8 DEF Hits

\* The id before those of the k newest segments.
Reach(k) == IF k = 0 THEN Len(history) ELSE segments[Len(segments) + 1 - k].first_id - 1

\* The search through the index finds the newest entries that have all the words: the
\* segments follow each other, a segment's postings are right, and what it still posts of
\* entries that have left the ring is skipped and does not count towards the limit.
LEMMA IndexLists ==
  ASSUME RingInv, SegmentInv, items # <<>>, NEW tokens \in SUBSET Token, NEW limit \in Nat
  PROVE  Recent!Newest(IndexHits(tokens, limit), HasWords(tokens), limit)
<1> DEFINE n == Len(segments)
           live == oldestId .. LastId
           words == HasWords(tokens)
           Later(k) == {id \in words : id > Reach(k)}
<1>1. /\ n \in Nat \ {0} /\ \A k \in 1 .. n : segments[k] \in Segment /\ Sound(segments[k], history)
      /\ \A k \in 1 .. n - 1 : segments[k + 1].first_id = segments[k].last_id + 1
      /\ segments[n].last_id = Len(history) /\ segments[1].first_id <= oldestId
  BY SegmentFacts DEF Chain, FrontIsLive, SegmentInv
<1>2. /\ \A k \in 1 .. n : /\ segments[k].first_id \in Int /\ segments[k].last_id \in Int
                           /\ segments[k].first_id <= segments[k].last_id
                           /\ segments[k].last_id <= Len(history)
  BY <1>1 DEF Segment, Sound
<1>3. words = {id \in live : tokens \subseteq TokensOf[history[id].message]} /\ words \in SUBSET Int
  BY RingIsLive DEF HasWords
<1>4. PICK f : Hits(f, tokens, limit)
  BY HitsSegmentBySegment
<1>5. /\ f[0] = <<>> /\ \A k \in 1 .. n : f[k] = OfSegment(f[k - 1], k, tokens, limit)
      /\ IndexHits(tokens, limit) = f[n]
  BY <1>4 DEF Hits
<1> DEFINE T == {k \in 0 .. n : Listed(f[k], Later(k), limit, FALSE)}
<1>6. 0 \in T
  <2>1. Later(0) = {}
    BY <1>3, RingIsLive DEF Reach
  <2>2. <<>> \in Seq({}) /\ Len(<<>>) = 0
    BY EmptySeq
  <2>3. Listed(f[0], {}, limit, FALSE)
    BY <1>5, <2>2 DEF Listed
  <2>4. 0 \in 0 .. n
    BY <1>1
  <2>5. Listed(f[0], Later(0), limit, FALSE)
    <3> HIDE DEF Later
    <3>1. QED
      BY <2>1, <2>3
  <2> HIDE DEF Later, n
  <2>6. QED
    BY <2>4, <2>5
<1>7. ASSUME NEW k \in 1 .. n, k - 1 \in T
      PROVE  k \in T
  <2> DEFINE seg == segments[n + 1 - k]
             walk == Backwards(seg.first_id, seg.last_id)
             wanted == {id \in LookupSegment(seg, tokens) : HasEntry(id)}
             met == seg.first_id .. seg.last_id
  <2>1. Listed(f[k - 1], Later(k - 1), limit, FALSE)
    <3> HIDE DEF Later, n
    <3>1. QED
      BY <1>7
  <2>2. n + 1 - k \in 1 .. n
    BY <1>1
  <2>3. /\ seg.first_id \in Int /\ seg.last_id \in Int /\ seg.first_id <= seg.last_id
        /\ seg.last_id <= Len(history) /\ Sound(seg, history)
    <3> HIDE DEF n
    <3>1. QED
      BY <1>1, <1>2, <2>2
  <2>4. Reach(k) = seg.first_id - 1 /\ Reach(k - 1) = seg.last_id
    <3>1. k # 0 /\ k \in Nat /\ Reach(k) = seg.first_id - 1
      BY DEF Reach
    <3>2. CASE k = 1
      BY <1>1, <3>2 DEF Reach
    <3>3. CASE k # 1
      <4>1. n + 1 - k \in 1 .. n - 1 /\ n + 1 - (k - 1) = (n + 1 - k) + 1 /\ k - 1 # 0
        BY <1>1, <3>1, <3>3
      <4>2. Reach(k - 1) = segments[(n + 1 - k) + 1].first_id - 1
        BY <4>1 DEF Reach
      <4>3. segments[(n + 1 - k) + 1].first_id = seg.last_id + 1
        <5> HIDE DEF n
        <5>1. QED
          BY <1>1, <4>1
      <4>4. QED
        BY <2>3, <3>1, <4>2, <4>3
    <3>4. QED
      BY <3>1, <3>2, <3>3
  <2>5. wanted = {id \in words : id \in met}
    <3> HIDE DEF seg, n, words, live
    <3>1. ASSUME NEW id \in met
          PROVE  id \in wanted <=> id \in words
      <4>1. id \in Int
        BY <2>3
      <4>2. HasEntry(id) <=> id \in live
        BY <4>1, RingIsLive DEF live
      <4>3. \A t \in tokens : id \in seg.index[t] <=> t \in TokensOf[history[id].message]
        BY <2>3 DEF Sound
      <4>4. id \in LookupSegment(seg, tokens) <=> tokens \subseteq TokensOf[history[id].message]
        BY <4>3 DEF LookupSegment
      <4>5. QED
        BY <1>3, <4>2, <4>4
    <3>2. wanted \subseteq met
      BY DEF LookupSegment
    <3> HIDE DEF wanted, met
    <3>3. QED
      BY <3>1, <3>2
  <2>6. Later(k) = Later(k - 1) \cup (met \cap wanted)
    <3> HIDE DEF seg, n, words, wanted
    <3>1. \A id \in words : id \in Int /\ id <= Len(history)
      BY <1>3, RingIsLive
    <3>2. Len(history) \in Int
      BY RingIsLive
    <3>3. \A id \in words : id > Reach(k) <=> (id > Reach(k - 1) \/ id \in met)
      BY <2>3, <2>4, <3>1, <3>2
    <3> HIDE DEF met
    <3>4. QED
      BY <2>5, <3>3
  <2>7. Walks(walk, FALSE) /\ {walk[i] : i \in 1 .. Len(walk)} = met
    <3> HIDE DEF seg
    <3>1. seg.first_id <= seg.last_id + 1
      BY <2>3
    <3>2. QED
      BY <2>3, <3>1, BackwardsWalks
  <2>8. \A y \in Later(k - 1) : \A i \in 1 .. Len(walk) : Before(FALSE, y, walk[i])
    <3> SUFFICES ASSUME NEW y \in Later(k - 1), NEW i \in 1 .. Len(walk)
                 PROVE  Before(FALSE, y, walk[i])
      OBVIOUS
    <3> HIDE DEF walk, seg, words, n
    <3>1. walk[i] \in met
      BY <2>7
    <3>2. y \in Int /\ y > seg.last_id
      BY <1>3, <2>4
    <3>3. QED
      BY <2>3, <3>1, <3>2 DEF Before
  <2>9. Later(k - 1) \in SUBSET Int
    BY <1>3
  <2>10. f[k] = Take(f[k - 1], walk, wanted, limit)
    BY <1>5 DEF OfSegment
  <2> HIDE DEF walk, wanted, met, seg, Later, n
  <2>11. Listed(Take(f[k - 1], walk, wanted, limit), Later(k - 1) \cup (met \cap wanted), limit, FALSE)
    BY <2>1, <2>7, <2>8, <2>9, TakeLists
  <2>12. Listed(f[k], Later(k), limit, FALSE)
    BY <2>6, <2>10, <2>11
  <2>13. k \in 0 .. n
    BY <1>1
  <2>14. QED
    BY <2>12, <2>13
<1>8. n \in T
  <2>1. 0 .. n \subseteq T
    <3> HIDE DEF T, n
    <3>1. QED
      BY <1>1, <1>6, <1>7, Climbing
  <2>2. n \in 0 .. n
    BY <1>1
  <2> HIDE DEF T, n
  <2>3. QED
    BY <2>1, <2>2
<1>9. Later(n) = words
  <2>1. Reach(n) = segments[1].first_id - 1
    BY <1>1 DEF Reach
  <2>2. segments[1].first_id \in Int
    BY <1>1, <1>2
  <2>3. \A id \in words : id \in Int /\ id >= oldestId
    BY <1>3, RingIsLive
  <2>4. oldestId \in Int
    BY RingIsLive
  <2> HIDE DEF words
  <2>5. QED
    BY <1>1, <2>1, <2>2, <2>3, <2>4
<1>10. Listed(f[n], Later(n), limit, FALSE)
  <2> HIDE DEF Later, n
  <2>1. QED
    BY <1>8
<1>11. QED
  <2> HIDE DEF Later, n, words
  <2>1. Listed(IndexHits(tokens, limit), words, limit, FALSE)
    BY <1>5, <1>9, <1>10
  <2>2. Recent!Newest(IndexHits(tokens, limit), words, limit)
    BY <2>1, ListedIsAnswer
  <2>3. QED
    BY <2>2 DEF words

--------------------------------------------------------------------------------
\* A search answers what a scan of the recent log would.
LEMMA SearchFinds ==
  ASSUME RingInv, SegmentInv, NEW q \in Query, NEW limit \in Nat
  PROVE  Recent!Finds(history, q, limit, Search(q, limit))
<1> DEFINE tokens == QueryTokens[q]
           match == Recent!Matching(history, q)
           indexed == IF tokens = {} THEN <<>> ELSE IndexHits(tokens, limit)
<1>1. match = IF q # EmptyQuery /\ tokens # {} /\ HasWords(tokens) # {}
              THEN HasWords(tokens) ELSE HasText(q)
  BY DEF Recent!Matching, HasWords, HasText
<1>2. tokens \in SUBSET Token
  BY QueryAssumption
<1>3. Recent!Finds(history, q, limit, Search(q, limit))
        <=> Recent!Newest(Search(q, limit), match, limit)
  BY DEF Recent!Finds
<1>4. <<>> \in Seq(match) /\ Len(<<>>) = 0 /\ DOMAIN <<>> = {}
  BY EmptySeq
<1>5. Search(q, limit) =
        CASE limit = 0 \/ items = <<>> -> <<>>
          [] limit > 0 /\ items # <<>> /\ q = EmptyQuery ->
               Take(<<>>, Backwards(oldestId, LastId), oldestId .. LastId, limit)
          [] OTHER -> IF indexed # <<>> THEN indexed ELSE ScanHits(q, limit)
  BY DEF Search
<1> HIDE DEF tokens, match, indexed
<1>6. CASE limit = 0 \/ items = <<>>
  <2>1. Search(q, limit) = <<>>
    BY <1>5, <1>6
  <2>2. CASE limit = 0
    BY <1>3, <1>4, <2>1, <2>2 DEF Recent!Newest
  <2>3. CASE items = <<>>
    <3>1. Recent!Live(history) = {}
      BY <2>3, RingIsLive
    <3>2. match = {}
      BY <1>1, <3>1 DEF HasWords, HasText
    <3>3. QED
      BY <1>3, <1>4, <2>1, <3>2 DEF Recent!Newest
  <2>4. QED
    BY <1>6, <2>2, <2>3
<1>7. CASE limit > 0 /\ items # <<>> /\ q = EmptyQuery
  <2>1. Search(q, limit) = Take(<<>>, Backwards(oldestId, LastId), oldestId .. LastId, limit)
    BY <1>5, <1>7
  <2>2. HasText(q) = Recent!Live(history)
    <3>1. \A i \in Recent!Live(history) : history[i].message \in Message
      BY RingIsLive DEF Entry
    <3>2. Containing[q] = Message
      BY <1>7, QueryAssumption
    <3>3. QED
      BY <3>1, <3>2 DEF HasText
  <2>3. match = Recent!Live(history)
    BY <1>1, <1>7, <2>2
  <2>4. QED
    BY <1>3, <2>1, <2>3, ScanLists
<1>8. CASE limit > 0 /\ items # <<>> /\ q # EmptyQuery
  <2>1. Search(q, limit) = IF indexed # <<>> THEN indexed ELSE ScanHits(q, limit)
    BY <1>5, <1>8
  <2>2. CASE tokens = {}
    <3>1. Search(q, limit) = ScanHits(q, limit) /\ match = HasText(q)
      BY <1>1, <2>1, <2>2 DEF indexed
    <3>2. QED
      BY <1>3, <3>1, ScanLists
  <2>3. CASE tokens # {}
    <3>1. Recent!Newest(indexed, HasWords(tokens), limit)
      BY <1>2, <1>8, <2>3, IndexLists DEF indexed
    <3>2. CASE HasWords(tokens) = {}
      <4>1. indexed = <<>>
        <5>1. indexed \in Seq({})
          BY <3>1, <3>2 DEF Recent!Newest
        <5>2. Len(indexed) = 0
          BY <5>1, LenProperties, ElementOfSeq
        <5>3. QED
          BY <5>1, <5>2, EmptySeq
      <4>2. QED
        BY <1>1, <1>3, <2>1, <3>2, <4>1, ScanLists
    <3>3. CASE HasWords(tokens) # {}
      <4>1. indexed # <<>>
        <5>1. PICK x \in HasWords(tokens) : TRUE
          BY <3>3
        <5>2. \/ \E i \in DOMAIN indexed : indexed[i] = x
              \/ Len(indexed) = limit
          BY <3>1, <5>1 DEF Recent!Newest
        <5>3. QED
          BY <1>4, <1>8, <5>2
      <4>2. QED
        BY <1>1, <1>3, <1>8, <2>1, <2>3, <3>1, <3>3, <4>1
    <3>4. QED
      BY <3>2, <3>3
  <2>4. QED
    BY <2>2, <2>3
<1>9. QED
  BY <1>6, <1>7, <1>8

\* Searches and queries by time answer what a scan of the last Capacity entries of the
\* log would, for every capacity, span, vocabulary and limit, although the segments keep
\* postings of entries that have left the ring (LogBuffer::search, query_by_time).
THEOREM QueriesExact == Spec => []QueriesAreExact
<1>1. ASSUME RingInv, SegmentInv PROVE QueriesAreExact
  <2>1. \A limit \in 0 .. Capacity + 1 : limit \in Nat
    BY Sizes
  <2>2. SearchIsExact
    BY <1>1, <2>1, SearchFinds DEF SearchIsExact
  <2>3. TimeQueryIsExact
    BY <1>1, <2>1, TimesList DEF TimeQueryIsExact
  <2>4. QED
    BY <2>2, <2>3 DEF QueriesAreExact
<1>2. QED
  BY <1>1, BufferInvariant, PTL
================================================================================
