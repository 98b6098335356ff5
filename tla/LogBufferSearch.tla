---------------------------- MODULE LogBufferSearch ----------------------------
(***************************************************************************)
(* The queries of src/daemon/log_buffer.cpp over the ring and the segments *)
(* of LogBuffer: search() walks the segments from the newest to the oldest *)
(* and falls back to a scan of the ring, query_by_time() scans the ring.   *)
(* An answer is the sequence of the ids of the entries copied into the     *)
(* result. A query runs under the buffer's lock, so it is an operator of   *)
(* the state.                                                              *)
(***************************************************************************)
EXTENDS LogBuffer

CONSTANTS
  Query,        \* query strings
  EmptyQuery,   \* the empty string
  QueryTokens,  \* QueryTokens[q]: the distinct words of q
  Containing    \* Containing[q]: the messages that contain q, ignoring case

\* contains_ci answers TRUE for an empty needle.
ASSUME QueryAssumption ==
  /\ EmptyQuery \in Query
  /\ QueryTokens \in [Query -> SUBSET Token]
  /\ QueryTokens[EmptyQuery] = {}
  /\ Containing \in [Query -> SUBSET Message]
  /\ Containing[EmptyQuery] = Message

\* A timestamp counts the ticks of system_clock.
ASSUME TimeAssumption == Time \subseteq Int

\* The ids of an interval, the newest or the oldest first.
Backwards(first, last) == [i \in 1 .. last - first + 1 |-> last + 1 - i]
Forwards(first, last)  == [i \in 1 .. last - first + 1 |-> first + i - 1]

\* The loop of every query: walk the ids, add to the result those that are wanted, and
\* stop as soon as it has limit entries.
Take(result, walk, wanted, limit) ==
  LET taken[i \in 0 .. Len(walk)] ==
        IF i = 0 THEN result
        ELSE IF Len(taken[i - 1]) < limit /\ walk[i] \in wanted
             THEN Append(taken[i - 1], walk[i])
             ELSE taken[i - 1]
  IN  taken[Len(walk)]

\* Fault: the id is only compared with the newest one.
HasEntryStale(id) == id - oldestId < Len(items)

\* entry_for_locked: an id that has left the ring has no entry.
HasEntry(id) == id >= oldestId /\ id - oldestId < Len(items)

\* lookup_segment: the ids posted under every word, none if a word is unknown
\* to the segment.
LookupSegment(seg, tokens) ==
  {id \in seg.first_id .. seg.last_id : \A t \in tokens : id \in seg.index[t]}

\* From the newest segment to the oldest. Postings ascend and are read backwards.
IndexHits(tokens, limit) ==
  LET hits[k \in 0 .. Len(segments)] ==
        IF k = 0 THEN <<>>
        ELSE LET seg == segments[Len(segments) + 1 - k]
             IN  Take(hits[k - 1], Backwards(seg.first_id, seg.last_id),
                      {id \in LookupSegment(seg, tokens) : HasEntry(id)}, limit)
  IN  hits[Len(segments)]

\* The ids of the ring, and the entry each belongs to.
LastId    == oldestId + Len(items) - 1
EntryOf(id) == items[id - oldestId + 1]

ScanHits(q, limit) ==
  Take(<<>>, Backwards(oldestId, LastId),
       {id \in oldestId .. LastId : EntryOf(id).message \in Containing[q]}, limit)

Search(q, limit) ==
  LET indexed == IF QueryTokens[q] = {} THEN <<>> ELSE IndexHits(QueryTokens[q], limit)
  IN  CASE limit = 0 \/ items = <<>> -> <<>>
        [] limit > 0 /\ items # <<>> /\ q = EmptyQuery ->
             Take(<<>>, Backwards(oldestId, LastId), oldestId .. LastId, limit)
        [] OTHER -> IF indexed # <<>> THEN indexed ELSE ScanHits(q, limit)

\* query_by_time(start, end, limit): from the oldest, both ends included.
QueryByTime(from, to, limit) ==
  LET OutOfRange(ts) == ts < from \/ ts > to
  IN  Take(<<>>, Forwards(oldestId, LastId),
           {id \in oldestId .. LastId : ~ OutOfRange(EntryOf(id).timestamp)}, limit)

--------------------------------------------------------------------------------
Recent == INSTANCE RecentLog

\* A search through the segments (stale postings, partial front segment and
\* all) answers what a scan of the last Capacity entries of the whole log
\* would: right entries, newest first (log_buffer.h, the comment on search),
\* none twice, cut at limit.
SearchIsExact ==
  \A q \in Query, limit \in 0 .. Capacity + 1 :
    Recent!Finds(history, q, limit, Search(q, limit))

\* A query by time answers the oldest live entries of the interval, in order.
TimeQueryIsExact ==
  \A from, to \in Time, limit \in 0 .. Capacity + 1 :
    Recent!FindsBetween(history, from, to, limit, QueryByTime(from, to, limit))

\* Every query of either kind answers what a scan of the recent log would.
QueriesAreExact == SearchIsExact /\ TimeQueryIsExact
================================================================================
