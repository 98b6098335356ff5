------------------------------- MODULE LogBuffer -------------------------------
(***************************************************************************)
(* The in-memory ring of log entries of the daemon                         *)
(* (src/daemon/log_buffer.cpp): a bounded deque of entries whose ids are   *)
(* consecutive, and an inverted index cut into segments of ids, so that    *)
(* old postings disappear a whole segment at a time.                       *)
(*                                                                         *)
(* push() is one critical section followed by a call of the subscriber     *)
(* outside the lock. The pipeline calls push() under its output mutex, so  *)
(* one push (its callback included) ends before the next begins, while     *)
(* readers (D-Bus queries) may run in between. What a query answers is     *)
(* in LogBufferSearch.                                                     *)
(***************************************************************************)
EXTENDS Integers, Sequences

CONSTANTS
  RequestedCapacity,  \* the constructor's argument
  MinSegmentSpan,     \* 1024 in the code
  Message,            \* message texts
  Token,              \* lower-case words
  TokensOf,           \* TokensOf[m]: the distinct words of message m
  Time,               \* timestamps of entries
  MaxPushes           \* bound: number of push() calls

ASSUME CapacityAssumption == RequestedCapacity \in Nat
ASSUME SpanAssumption     == MinSegmentSpan \in Nat \ {0}
ASSUME TokensAssumption   == TokensOf \in [Message -> SUBSET Token]
ASSUME PushesAssumption   == MaxPushes \in Nat

VARIABLES
  items,           \* m_items, oldest first
  segments,        \* m_segments, oldest first
  oldestId,        \* m_oldest_id
  nextId,          \* m_next_id
  totalPushed,     \* m_total_pushed
  totalDiscarded,  \* m_total_discarded
  calling,         \* ids of the pushes whose callback has not returned
  announced,       \* ids handed to the callback, in order
  history          \* every entry ever pushed (history variable)

vars == <<items, segments, oldestId, nextId, totalPushed, totalDiscarded,
          calling, announced, history>>

Entry == [message : Message, timestamp : Time]

Segment == [first_id : Nat, last_id : Nat, index : [Token -> SUBSET Nat]]

Capacity == IF RequestedCapacity = 0 THEN 1 ELSE RequestedCapacity

SegmentSpan ==
  IF Capacity \div 8 > MinSegmentSpan THEN Capacity \div 8 ELSE MinSegmentSpan

--------------------------------------------------------------------------------
(* index_entry_locked: open a segment when there is none or the last one   *)
(* has its span, then add the id to the posting of each word.              *)

NewSegment(id) ==
  [first_id |-> id, last_id |-> id, index |-> [t \in Token |-> {}]]

NeedsSegment(segs) ==
  \/ segs = <<>>
  \/ segs[Len(segs)].last_id - segs[Len(segs)].first_id + 1 >= SegmentSpan

Posted(seg, m, id) ==
  [first_id |-> seg.first_id,
   last_id  |-> id,
   index    |-> [t \in Token |-> IF t \in TokensOf[m] THEN seg.index[t] \cup {id}
                                                      ELSE seg.index[t]]]

IndexEntry(segs, m, id) ==
  IF NeedsSegment(segs)
  THEN Append(segs, Posted(NewSegment(id), m, id))
  ELSE [segs EXCEPT ![Len(segs)] = Posted(segs[Len(segs)], m, id)]

(* evict_segments_locked pops the front while more than one segment is     *)
(* left and all ids of the front one have left the ring.                   *)

\* Fault: a segment whose newest entry is the oldest live one counts as dead.
ExpiredEarly(seg, oldest) == seg.last_id <= oldest

Expired(seg, oldest) == seg.last_id < oldest

DeadSegments(segs, oldest) ==
  CHOOSE n \in 0 .. Len(segs) - 1 :
    /\ \A j \in 1 .. n : Expired(segs[j], oldest)
    /\ n + 1 = Len(segs) \/ ~ Expired(segs[n + 1], oldest)

EvictSegments(segs, oldest) ==
  SubSeq(segs, DeadSegments(segs, oldest) + 1, Len(segs))

\* Fault: the ring makes room for an entry it does not need.
ExcessOne(seq) == IF Len(seq) >= Capacity THEN Len(seq) - Capacity + 1 ELSE 0

\* How many entries the ring drops from its front.
Excess(seq) == IF Len(seq) > Capacity THEN Len(seq) - Capacity ELSE 0

\* Fault: the first id is taken one too low.
FirstIdLow(id) == IF items = <<>> THEN id - 1 ELSE oldestId

\* m_oldest_id is set by the first push only: the ring is never empty again.
FirstId(id) == IF items = <<>> THEN id ELSE oldestId

CountDiscarded(drop) == totalDiscarded + drop

--------------------------------------------------------------------------------
Init ==
  /\ items = <<>>
  /\ segments = <<>>
  /\ oldestId = 1
  /\ nextId = 1
  /\ totalPushed = 0
  /\ totalDiscarded = 0
  /\ calling = {}
  /\ announced = <<>>
  /\ history = <<>>

\* Fault: the pipeline does not hold its output mutex around a push.
OutputUnlocked == TRUE

\* The pipeline's output mutex: a push starts when the previous one is over.
OutputFree == calling = {}

Push(e) ==
  LET id      == nextId
      grown   == Append(items, e)
      drop    == Excess(grown)
      base    == FirstId(id)
      indexed == IndexEntry(segments, e.message, id)
  IN  /\ OutputFree
      /\ totalPushed < MaxPushes
      /\ nextId' = id + 1
      /\ items' = SubSeq(grown, drop + 1, Len(grown))
      /\ oldestId' = base + drop
      /\ totalPushed' = totalPushed + 1
      /\ totalDiscarded' = CountDiscarded(drop)
      /\ segments' = EvictSegments(indexed, base + drop)
      /\ calling' = calling \cup {id}
      /\ history' = Append(history, e)
      /\ UNCHANGED announced

\* The callback runs after the lock is released, on the entry's own copy.
Callback(id) ==
  /\ id \in calling
  /\ calling' = calling \ {id}
  /\ announced' = Append(announced, id)
  /\ UNCHANGED <<items, segments, oldestId, nextId, totalPushed, totalDiscarded,
                 history>>

Next ==
  \/ \E e \in Entry : Push(e)
  \/ \E id \in 1 .. totalPushed : Callback(id)

Spec == Init /\ [][Next]_vars

--------------------------------------------------------------------------------
TypeOK ==
  /\ items \in Seq(Entry)
  /\ segments \in Seq(Segment)
  /\ oldestId \in Nat \ {0}
  /\ nextId \in Nat \ {0}
  /\ totalPushed \in Nat
  /\ totalDiscarded \in Nat
  /\ calling \in SUBSET Nat
  /\ announced \in Seq(Nat)
  /\ history \in Seq(Entry)

\* The ring is exactly the last Capacity entries ever pushed, and the class
\* comment's invariant holds: m_items[i] is the entry with id m_oldest_id + i
\* (log_buffer.h, the comment on m_oldest_id), so that id -> index is O(1).
RingIsRecentHistory ==
  /\ Len(items) = IF Len(history) < Capacity THEN Len(history) ELSE Capacity
  /\ nextId = Len(history) + 1
  /\ oldestId + Len(items) = nextId
  /\ \A i \in 1 .. Len(items) : items[i] = history[oldestId + i - 1]

\* No entry is lost without being counted: pushed = still held + discarded.
LossIsCounted ==
  /\ totalPushed = Len(history)
  /\ totalPushed = Len(items) + totalDiscarded

\* The segments are non-empty, adjacent intervals of ids that end at the
\* newest id and reach back at least to the oldest live one: every live entry
\* belongs to exactly one segment, none falls between two of them.
SegmentsCoverRing ==
  /\ \A k \in 1 .. Len(segments) : segments[k].first_id <= segments[k].last_id
  /\ \A k \in 1 .. Len(segments) - 1 :
        segments[k + 1].first_id = segments[k].last_id + 1
  /\ items # <<>> =>
        /\ segments # <<>>
        /\ segments[1].first_id <= oldestId
        /\ segments[Len(segments)].last_id = nextId - 1

\* A posting list holds precisely the ids of its segment whose message has
\* the word: no entry is missing from the index and no id is filed under a
\* word or a segment it does not belong to.
PostingsAreExact ==
  \A k \in 1 .. Len(segments) : \A t \in Token :
    segments[k].index[t] =
      {id \in segments[k].first_id .. segments[k].last_id :
          id <= Len(history) /\ t \in TokensOf[history[id].message]}

\* What the segmented index was introduced for (log_buffer.h, the comment on
\* Segment): dead postings do not accumulate. The index never spans more ids
\* than the ring plus one segment, however long the daemon runs.
IndexIsBounded ==
  segments # <<>> => nextId - segments[1].first_id < Capacity + SegmentSpan

\* The inverted index agrees with the ring: no live entry is missed, no wrong id is
\* posted, and memory stays bounded, although the index is evicted segment by segment
\* and the ring entry by entry (log_buffer.cpp:32 and 70).
IndexIsSound == SegmentsCoverRing /\ PostingsAreExact /\ IndexIsBounded

\* Every entry is announced once, in the order the ring stores it.
AnnouncedInOrder ==
  /\ \A i \in 1 .. Len(announced) : announced[i] = i
  /\ calling = Len(announced) + 1 .. totalPushed
================================================================================
