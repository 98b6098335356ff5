------------------------------- MODULE VectorStore -------------------------------
(***************************************************************************)
(* VectorStore (src/daemon/vector_store.cpp): vectors by log id, in a      *)
(* SQLite table and in a memory image of it. Every call holds the mutex    *)
(* from beginning to end; insert_batch is split into its statements because *)
(* the process may be killed between two of them. Of the index (Hnsw) only *)
(* its points and tombstones are kept: what a search may answer.           *)
(*                                                                         *)
(* SQLite is used by what the code asks of it: a statement succeeds or     *)
(* fails and changes nothing, a transaction that does not commit is undone *)
(* (ROLLBACK, or the next open after a crash). At most MaxFailures         *)
(* statements fail. config.persist is true, as by default, and the daemon  *)
(* inserts only while m_vector_store_ready.                                *)
(*                                                                         *)
(* Indexes are those of the code plus one.                                 *)
(***************************************************************************)
EXTENDS Integers, Sequences, FiniteSets

CONSTANTS
  Log,          \* log ids
  Vec,          \* vectors
  DimOf,        \* DimOf[v]: dimension of v
  ConfigDim,    \* config.dim, 0 if the first vector decides
  MaxElements,  \* config.max_elements
  Threshold,    \* config.auto_trim_threshold, 0 if there is none
  MaxBatch,     \* bound: vectors per batch
  MaxOps,       \* bound: operations
  MaxFailures   \* bound: statements that fail

ASSUME StoreAssumption ==
  /\ DimOf \in [Vec -> Nat \ {0}] /\ ConfigDim \in Nat
  /\ MaxElements \in Nat \ {0} /\ Threshold \in Nat
  /\ {MaxBatch, MaxOps, MaxFailures} \subseteq Nat

VARIABLES
  rows,      \* the table, in the order of its key
  tx,        \* the table as it was at BEGIN, as a set: empty without transaction
  open,      \* db # nullptr, and m_vector_store_ready of the daemon
  mem,       \* the memory image, see Closed
  batch,     \* vectors insert_batch has still to insert, -1 without batch
  failures,  \* statements that failed
  ops        \* operations so far

vars == <<rows, tx, open, mem, batch, failures, ops>>

None    == 0   \* the empty string: a tombstone has no log id
NoBatch == -1

\* insert_locked rejects an empty log id.
ASSUME LogAssumption == None \notin Log

\* The members of s at the places ids, in order.
Picked(s, ids) ==
  LET picked[i \in 0 .. Len(s)] ==
        IF i = 0 THEN <<>>
        ELSE IF i \in ids THEN Append(picked[i - 1], s[i]) ELSE picked[i - 1]
  IN  picked[Len(s)]

\* The members of Impl: id_to_log, the inverse map as a set of pairs, the points
\* and the tombstones of the index, dim and trim_cursor. Close leaves dim as it is,
\* but open overwrites it.
Closed == [id_to_log |-> <<>>, log_to_id |-> {}, vec |-> <<>>, deleted |-> {},
           dim |-> 0, trim_cursor |-> 1]

IdsOf(m, l) == {e[2] : e \in {f \in m.log_to_id : f[1] = l}}

--------------------------------------------------------------------------------
(* The memory image.                                                       *)

\* tombstone of each of ids, and the erase of the log id that always goes with it.
Tombstone(m, ids) ==
  [m EXCEPT !.deleted = @ \cup ids,
            !.id_to_log = [id \in DOMAIN @ |-> IF id \in ids THEN None ELSE @[id]],
            !.log_to_id = {e \in @ : e[2] \notin ids}]

\* Ids are never used again: tombstones count.
IsFull(m) == Len(m.id_to_log) >= MaxElements

\* The dimension is that of the first vector.
WithDim(m, v) == IF m.dim = 0 THEN [m EXCEPT !.dim = DimOf[v]] ELSE m

Accepts(m, v) == DimOf[v] = WithDim(m, v).dim /\ ~ IsFull(m)

\* Fault: the old point of a log id stays in the index.
KeepOld(m, l) == [m EXCEPT !.log_to_id = {e \in @ : e[1] # l}]

WithoutOld(m, l) == Tombstone(m, IdsOf(m, l))

\* The part of insert_locked in memory.
Add(m, l, v) ==
  LET old == WithoutOld(WithDim(m, v), l)
  IN  [old EXCEPT !.vec = Append(@, v),
                  !.id_to_log = Append(@, l),
                  !.log_to_id = @ \cup {<<l, Len(m.id_to_log) + 1>>}]

\* trim looks at the points from the cursor on, which are the oldest left.
Trimmable(m) == {id \in m.trim_cursor .. Len(m.id_to_log) : m.id_to_log[id] # None}

Excess(m) ==
  IF Threshold = 0 \/ Cardinality(m.log_to_id) <= Threshold THEN 0
  ELSE Cardinality(m.log_to_id) - Threshold

Victims(m) ==
  {id \in Trimmable(m) : Cardinality({j \in Trimmable(m) : j < id}) < Excess(m)}

\* Fault: the cursor passes over the first survivor.
SkipOne(m) == m.trim_cursor + Excess(m) + 1

\* Where the loop of trim stops.
NextCursor(m) ==
  IF Excess(m) = 0 THEN m.trim_cursor
  ELSE IF Cardinality(Trimmable(m)) < Excess(m) THEN Len(m.id_to_log) + 1
  ELSE 1 + CHOOSE id \in Victims(m) : \A j \in Victims(m) : j <= id

Trimmed(m) == [Tombstone(m, Victims(m)) EXCEPT !.trim_cursor = NextCursor(m)]

LogsOf(m, ids) == {m.id_to_log[id] : id \in ids}

--------------------------------------------------------------------------------
(* The table.                                                              *)

Row(l, v) == [log |-> l, vec |-> v]

\* DELETE ... WHERE log_id
DeleteRows(table, logs) == Picked(table, {i \in DOMAIN table : table[i].log \notin logs})

\* Fault: the row is changed in place and keeps its key.
UpdateRow(table, l, v) ==
  IF \E i \in DOMAIN table : table[i].log = l
  THEN [i \in DOMAIN table |-> IF table[i].log = l THEN Row(l, v) ELSE table[i]]
  ELSE Append(table, Row(l, v))

\* INSERT OR REPLACE: the row gets a new key.
ReplaceRow(table, l, v) == Append(DeleteRows(table, {l}), Row(l, v))

\* n statements fail.
Failing(n) ==
  /\ failures + n <= MaxFailures
  /\ failures' = failures + n

--------------------------------------------------------------------------------
(* load_all: insert_locked(write_db = false) for every row in the order of *)
(* keys, trimming as it goes. s holds the memory image and the log ids     *)
(* trimmed.                                                                *)

LoadRow(s, row) ==
  LET added == Add(s.mem, row.log, row.vec)
  IN  IF ~ Accepts(s.mem, row.vec) THEN [s EXCEPT !.mem = WithDim(@, row.vec)]
      ELSE [mem |-> Trimmed(added), gone |-> s.gone \cup LogsOf(added, Victims(added))]

\* Fault: the cursor stays.
KeepCursor(m) == [Closed EXCEPT !.dim = m.dim, !.trim_cursor = m.trim_cursor]

\* reset_index: the dimension stays.
Reset(m) == [Closed EXCEPT !.dim = m.dim]

\* The loop over the first n rows.
Loaded(m, table, n) ==
  LET after[i \in 0 .. n] ==
        IF i = 0 THEN [mem |-> Reset(m), gone |-> {}] ELSE LoadRow(after[i - 1], table[i])
  IN  after[n]

\* The SELECT may fail at any row, which ends the loop without an error, and the
\* deletion of a trimmed row may fail.
LoadAll(m) ==
  \E n \in 0 .. Len(rows) :
    LET s == Loaded(m, rows, n)
    IN  \E kept \in SUBSET s.gone :
          /\ Failing(Cardinality(kept) + IF n < Len(rows) THEN 1 ELSE 0)
          /\ mem' = s.mem
          /\ rows' = DeleteRows(rows, s.gone \ kept)

--------------------------------------------------------------------------------
Init ==
  /\ rows = <<>>
  /\ tx = {}
  /\ open = FALSE
  /\ mem = Closed
  /\ batch = NoBatch
  /\ failures = 0
  /\ ops = 0

Begin ==
  /\ open /\ batch = NoBatch
  /\ ops < MaxOps
  /\ ops' = ops + 1

Open ==
  /\ ~ open
  /\ ops < MaxOps
  /\ ops' = ops + 1
  /\ open' = TRUE
  /\ LoadAll([Closed EXCEPT !.dim = ConfigDim])
  /\ UNCHANGED <<tx, batch>>

\* insert_locked: memory first, then the row, then trim; when the row cannot be
\* written the call ends there.
InsertLocked(l, v) ==
  LET added == Add(mem, l, v)
      logs  == LogsOf(added, Victims(added))
  IN  \/ /\ ~ Accepts(mem, v)
         /\ mem' = WithDim(mem, v)
         /\ UNCHANGED <<rows, failures>>
      \/ /\ Accepts(mem, v)
         /\ Failing(1)
         /\ mem' = added
         /\ UNCHANGED rows
      \/ /\ Accepts(mem, v)
         /\ mem' = Trimmed(added)
         /\ \E kept \in SUBSET logs :
              /\ Failing(Cardinality(kept))
              /\ rows' = DeleteRows(ReplaceRow(rows, l, v), logs \ kept)

Insert(l, v) ==
  /\ Begin
  /\ InsertLocked(l, v)
  /\ UNCHANGED <<tx, open, batch>>

\* BEGIN IMMEDIATE may fail: then each row is written on its own.
InsertBatch(n) ==
  /\ Begin
  /\ batch' = n
  /\ \/ tx' = {rows} /\ UNCHANGED failures
     \/ Failing(1) /\ UNCHANGED tx
  /\ UNCHANGED <<rows, open, mem>>

InsertNext(l, v) ==
  /\ batch > 0
  /\ batch' = batch - 1
  /\ InsertLocked(l, v)
  /\ UNCHANGED <<tx, open, ops>>

\* The table as it was at BEGIN.
RolledBack == CHOOSE table \in tx : TRUE

EndBatch ==
  /\ batch = 0
  /\ batch' = NoBatch
  /\ tx' = {}
  /\ \/ UNCHANGED <<rows, failures>>
     \/ tx # {} /\ Failing(1) /\ rows' = RolledBack
  /\ UNCHANGED <<open, mem, ops>>

RemoveLog(l) ==
  /\ Begin
  /\ mem' = WithoutOld(mem, l)
  /\ \/ rows' = DeleteRows(rows, {l}) /\ UNCHANGED failures
     \/ Failing(1) /\ UNCHANGED rows
  /\ UNCHANGED <<tx, open, batch>>

Clear ==
  /\ Begin
  /\ mem' = Reset(mem)
  /\ \/ rows' = <<>> /\ UNCHANGED failures
     \/ Failing(1) /\ UNCHANGED rows
  /\ UNCHANGED <<tx, open, batch>>

RebuildIndex ==
  /\ Begin
  /\ LoadAll(mem)
  /\ UNCHANGED <<tx, open, batch>>

\* do_stop closes the store, and the process ends.
Close ==
  /\ Begin
  /\ open' = FALSE
  /\ mem' = Closed
  /\ UNCHANGED <<rows, tx, batch, failures>>

\* The process is killed: a transaction it was in is undone.
Crash ==
  /\ open
  /\ ops < MaxOps
  /\ ops' = ops + 1
  /\ open' = FALSE
  /\ mem' = Closed
  /\ rows' = IF tx = {} THEN rows ELSE RolledBack
  /\ tx' = {}
  /\ batch' = NoBatch
  /\ UNCHANGED failures

Next ==
  \/ Open \/ Clear \/ RebuildIndex \/ Close \/ Crash \/ EndBatch
  \/ \E n \in 1 .. MaxBatch : InsertBatch(n)
  \/ \E l \in Log : RemoveLog(l) \/ \E v \in Vec : Insert(l, v) \/ InsertNext(l, v)

Spec == Init /\ [][Next]_vars

--------------------------------------------------------------------------------
TypeOK ==
  /\ rows \in Seq([log : Log, vec : Vec])
  /\ tx \subseteq Seq([log : Log, vec : Vec]) /\ Cardinality(tx) <= 1
  /\ open \in BOOLEAN
  /\ mem.id_to_log \in Seq(Log \cup {None}) /\ Len(mem.id_to_log) <= MaxElements
  /\ mem.log_to_id \subseteq Log \X (1 .. MaxElements)
  /\ mem.dim \in {0, ConfigDim} \cup {DimOf[v] : v \in Vec}
  /\ mem.trim_cursor \in 1 .. Len(mem.id_to_log) + 1
  /\ mem.vec \in Seq(Vec) /\ mem.deleted \subseteq DOMAIN mem.vec
  /\ batch \in NoBatch .. MaxBatch
  /\ failures \in 0 .. MaxFailures /\ ops \in 0 .. MaxOps

\* id_to_log, log_to_id and the tombstones of the index, three structures that
\* every operation updates one by one, say the same of every point: search reads
\* the log id of a point that is answered without a check, and no log id has two.
MapsAgree ==
  LET m    == mem
      live == DOMAIN m.vec \ m.deleted
  IN  /\ TypeOK
      /\ Len(m.vec) = Len(m.id_to_log)
      /\ live = {id \in DOMAIN m.id_to_log : m.id_to_log[id] # None}
      /\ m.log_to_id = {<<m.id_to_log[id], id>> : id \in live}
      /\ \A d, e \in m.log_to_id : d[1] = e[1] => d = e

\* The live points in the order in which they were inserted, as rows.
LiveRows ==
  Picked([id \in DOMAIN mem.id_to_log |-> Row(mem.id_to_log[id], mem.vec[id])],
         {id \in DOMAIN mem.id_to_log : mem.id_to_log[id] # None})

\* As long as no statement fails, the memory image is the table, in the same
\* order, over inserts, replacements, batches, trims, removals, crashes and
\* rebuilds: "restarting rebuilds the index from the database" (README).
ImageOfTable == open /\ failures = 0 => LiveRows = rows

\* The cursor of trim has only tombstones behind it, so that trim, which never
\* looks back, always drops the oldest points.
CursorBehind == \A id \in 1 .. mem.trim_cursor - 1 : mem.id_to_log[id] = None

\* At most Threshold points live (vector_store.h, auto_trim_threshold), as long
\* as rows can be written.
TrimKeepsBound ==
  failures = 0 /\ Threshold > 0 => Cardinality(mem.log_to_id) <= Threshold

\* Trim drops enough, and the oldest, whatever was removed or replaced before.
OldestGoFirst == CursorBehind /\ TrimKeepsBound

\* The newest rows that may live.
Newest(table) ==
  IF Threshold = 0 \/ Len(table) <= Threshold THEN table
  ELSE SubSeq(table, Len(table) - Threshold + 1, Len(table))

\* Every row has the dimension a load begins with or takes from its first row. (After
\* a load that was cut short the table may hold rows of two dimensions.)
OneDim ==
  LET dim == IF open THEN mem.dim ELSE ConfigDim
  IN  \A i \in DOMAIN rows :
        DimOf[rows[i].vec] = IF dim = 0 THEN DimOf[rows[1].vec] ELSE dim

\* Whatever failed before, an open or a rebuild of a table with one dimension brings
\* back exactly its newest rows and leaves no others in it: nothing that was stored
\* is skipped, no row that should have been trimmed stays.
LoadAgrees ==
  [][(Open \/ RebuildIndex) /\ failures' = failures /\ OneDim /\ Len(rows) <= MaxElements
     => LiveRows' = rows' /\ rows' = Newest(rows)]_vars
================================================================================
