-------------------------- MODULE PluginLifetimeProofs --------------------------
(***************************************************************************)
(* Proofs about PluginLifetime for every set of threads, sources, plugin   *)
(* files and scores, and any number of lines, reloads and new versions.    *)
(* The invariant is built in layers: TypeOK, Sharing (a snapshot's number  *)
(* identifies it, what it uses it keeps), Counted (a plugin is open        *)
(* exactly while somebody holds it) and Cached (what the cache answers is  *)
(* what its own snapshot would).                                           *)
(***************************************************************************)
EXTENDS PluginLifetime, SequenceTheorems, WellFoundedInduction, TLAPS

\* The snapshots somebody holds, and the absent one.
Shared == {NullSnapshot, snapshot, cacheGen} \cup {held[t] : t \in Thread}

\* A snapshot is known by its number, and the current one is the latest.
NumbersIdentify ==
  /\ \A a, b \in Shared : a.gen = b.gen => a = b
  /\ \A a \in Shared : a.gen <= snapshot.gen

\* What a snapshot uses it keeps alive.
UsesKept == \A a \in Shared : a.active \subseteq a.all

\* The current snapshot keeps what the records list.
CurrentListed == snapshot.all = PluginsOf(records) /\ snapshot.gen > 0

\* References held for the duration of a line, of a load and of an unload.
LocalsEnd ==
  /\ \A t \in Thread : pc[t] = "idle" => held[t] = NullSnapshot
  /\ loading # {} => mpc \in {"start", "load"}
  /\ dropped # {} => mpc \in {"drop", "dropOne"}

Sharing == NumbersIdentify /\ UsesKept /\ CurrentListed /\ LocalsEnd

\* A plugin is open exactly while somebody holds it.
Counted == alive = Referenced(records, snapshot, cacheGen, held, dropped \cup loading)

\* The cache answers what the snapshot it belongs to would.
CacheExact ==
  \A s \in Source :
    cache[s] # Unknown => cache[s] = BestCollector(opened, cacheGen.active, s)

Cached == CacheExact /\ ChoiceIsOwn

--------------------------------------------------------------------------------
\* pick_collector answers a plugin of the snapshot, or none.
LEMMA BestIsActive ==
  ASSUME NEW files, NEW active \in SUBSET Nat, NEW s
  PROVE  BestCollector(files, active, s) \in active \cup {None}
<1> DEFINE score(q) == Score[files[q].path][s]
           best == {q \in active : /\ score(q) > 0
                                   /\ \A r \in active : score(r) <= score(q)}
<1>1. CASE best = {}
  BY <1>1 DEF BestCollector
<1>2. CASE best # {}
  <2>1. best \subseteq active /\ best \subseteq Nat
    OBVIOUS
  <2> HIDE DEF best
  <2>2. PICK q \in best : \A r \in best : ~ (<<r, q>> \in OpToRel(<, Nat))
    BY <1>2, <2>1, NatLessThanWellFounded, WFMin
  <2>3. \A r \in best : q <= r
    <3>1. \A r \in best : ~ (r < q)
      BY <2>1, <2>2 DEF OpToRel
    <3>2. QED
      BY <2>1, <3>1
  <2>4. (CHOOSE p \in best : \A r \in best : p <= r) \in best
    BY <2>2, <2>3
  <2>5. BestCollector(files, active, s) = CHOOSE p \in best : \A r \in best : p <= r
    BY <1>2 DEF BestCollector, best
  <2>6. QED
    BY <2>1, <2>4, <2>5
<1>3. QED
  BY <1>1, <1>2

\* The choice depends on the files of the plugins in use only.
LEMMA BestIsStable ==
  ASSUME NEW files, NEW more, NEW active, NEW s,
         \A q \in active : more[q] = files[q]
  PROVE  BestCollector(more, active, s) = BestCollector(files, active, s)
<1> DEFINE best(f) == {q \in active :
                         /\ Score[f[q].path][s] > 0
                         /\ \A r \in active : Score[f[r].path][s] <= Score[f[q].path][s]}
           first(S) == IF S = {} THEN None ELSE CHOOSE q \in S : \A r \in S : q <= r
<1>1. best(more) = best(files)
  OBVIOUS
<1>2. /\ BestCollector(files, active, s) = first(best(files))
      /\ BestCollector(more, active, s) = first(best(more))
  BY DEF BestCollector
<1> HIDE DEF best, first
<1>3. QED
  BY <1>1, <1>2

--------------------------------------------------------------------------------
File == [path : Path, version : Nat]
Record == [plugin : Plugin \cup {None}, path : Path, enabled : BOOLEAN]

\* The plugins of records are plugins.
LEMMA PluginsOfType ==
  ASSUME NEW S, NEW recs \in Seq([plugin : S \cup {None}, path : Path, enabled : BOOLEAN])
  PROVE  PluginsOf(recs) \subseteq S
<1>1. DOMAIN recs = 1 .. Len(recs)
  BY LenProperties
<1>2. ASSUME NEW i \in 1 .. Len(recs) PROVE recs[i].plugin \in S \cup {None}
  <2>1. recs[i] \in [plugin : S \cup {None}, path : Path, enabled : BOOLEAN]
    BY ElementOfSeq
  <2>2. QED
    BY <2>1
<1>3. QED
  BY <1>1, <1>2 DEF PluginsOf

\* Records stay records when more plugins are opened.
LEMMA RecordsGrow ==
  ASSUME NEW S, NEW T, S \subseteq T,
         NEW recs \in Seq([plugin : S \cup {None}, path : Path, enabled : BOOLEAN])
  PROVE  recs \in Seq([plugin : T \cup {None}, path : Path, enabled : BOOLEAN])
<1>1. [plugin : S \cup {None}, path : Path, enabled : BOOLEAN]
        \subseteq [plugin : T \cup {None}, path : Path, enabled : BOOLEAN]
  OBVIOUS
<1>2. QED
  BY <1>1, SeqMonotonic

\* A record taken out leaves the others; with the removed one they are all.
LEMMA RecordRemoved ==
  ASSUME NEW R, NEW recs \in Seq(R), NEW i \in DOMAIN recs
  PROVE  /\ RemoveAt(recs, i) \in Seq(R)
         /\ PluginsOf(RemoveAt(recs, i)) \subseteq PluginsOf(recs)
<1>1. DOMAIN recs = 1 .. Len(recs) /\ Len(recs) \in Nat
  BY LenProperties
<1> DEFINE front == SubSeq(recs, 1, i - 1)
           back  == SubSeq(recs, i + 1, Len(recs))
<1>2. /\ front \in Seq(R) /\ Len(front) = i - 1
      /\ \A j \in 1 .. i - 1 : front[j] = recs[j]
  <2>1. \A j \in 1 .. i - 1 : recs[j] \in R
    BY <1>1, ElementOfSeq
  <2>2. QED
    BY <1>1, <2>1, SubSeqProperties
<1>3. /\ back \in Seq(R) /\ Len(back) = Len(recs) - i
      /\ \A j \in 1 .. Len(recs) - i : back[j] = recs[i + j]
  <2>1. \A j \in i + 1 .. Len(recs) : recs[j] \in R
    BY <1>1, ElementOfSeq
  <2>2. QED
    BY <1>1, <2>1, SubSeqProperties
<1>4. RemoveAt(recs, i) = front \o back
  BY DEF RemoveAt
<1> HIDE DEF front, back
<1>5. /\ front \o back \in Seq(R)
      /\ Len(front \o back) = Len(recs) - 1
      /\ \A j \in 1 .. Len(recs) - 1 :
           (front \o back)[j] = IF j <= i - 1 THEN front[j] ELSE back[j - (i - 1)]
  <2>1. /\ front \o back \in Seq(R)
        /\ Len(front \o back) = Len(front) + Len(back)
        /\ \A j \in 1 .. Len(front) + Len(back) :
             (front \o back)[j] = IF j <= Len(front) THEN front[j]
                                  ELSE back[j - Len(front)]
    BY <1>2, <1>3, ConcatProperties
  <2>2. (i - 1) + (Len(recs) - i) = Len(recs) - 1
    BY <1>1
  <2>3. QED
    BY <1>2, <1>3, <2>1, <2>2
<1>6. DOMAIN (front \o back) = 1 .. Len(recs) - 1
  BY <1>5, LenProperties
<1>7. ASSUME NEW j \in 1 .. Len(recs) - 1
      PROVE  \E k \in DOMAIN recs : (front \o back)[j] = recs[k]
  <2>1. CASE j <= i - 1
    <3>1. j \in 1 .. i - 1 /\ j \in DOMAIN recs
      BY <1>1, <2>1
    <3>2. (front \o back)[j] = recs[j]
      BY <1>2, <1>5, <2>1, <3>1
    <3>3. QED
      BY <3>1, <3>2
  <2>2. CASE ~ (j <= i - 1)
    <3>1. j - (i - 1) \in 1 .. Len(recs) - i /\ i + (j - (i - 1)) = j + 1
      BY <1>1, <2>2
    <3>2. (front \o back)[j] = back[j - (i - 1)]
      BY <1>5, <2>2
    <3>3. back[j - (i - 1)] = recs[j + 1]
      BY <1>3, <3>1
    <3>4. j + 1 \in DOMAIN recs
      BY <1>1
    <3>5. QED
      BY <3>2, <3>3, <3>4
  <2>3. QED
    BY <2>1, <2>2
<1>8. PluginsOf(front \o back) \subseteq PluginsOf(recs)
  BY <1>6, <1>7 DEF PluginsOf
<1>9. QED
  BY <1>4, <1>5, <1>8

\* A new snapshot of well-formed records is well-formed.
LEMMA RebuiltType ==
  ASSUME TypeOK, NEW recs \in Seq(Record)
  PROVE  Rebuilt(recs) \in Snapshot
<1>1. PluginsOf(recs) \subseteq Plugin
  BY PluginsOfType DEF Record
<1>2. snapshot.gen + 1 \in Nat
  BY DEF TypeOK, Snapshot
<1>3. QED
  BY <1>1, <1>2 DEF Rebuilt, Snapshot

--------------------------------------------------------------------------------
(* Types.                                                                  *)

LEMMA TypeInit == Init => TypeOK
<1> SUFFICES ASSUME Init PROVE TypeOK
  OBVIOUS
<1>1. opened \in Seq(File) /\ records \in Seq(Record) /\ Len(opened) = 0
  BY EmptySeq DEF Init
<1>2. NullSnapshot \in Snapshot /\ snapshot \in Snapshot
  BY DEF Init, NullSnapshot, Snapshot
<1>3. QED
  BY <1>1, <1>2, BoundsAssumption DEF Init, TypeOK, File, Record

\* Opening a file makes one plugin more and leaves the types of the rest.
LEMMA TypeOpen ==
  ASSUME TypeOK, NEW p \in Path, Open(p)
  PROVE  TypeOK'
<1> DEFINE mapped  == {q \in alive : opened[q].path = p}
           version == IF mapped = {} THEN disk[p]
                      ELSE opened[CHOOSE q \in mapped : TRUE].version
<1>1. opened' = Append(opened, [path |-> p, version |-> version])
  BY DEF Open
<1>2. version \in Nat
  <2>1. CASE mapped = {}
    BY <2>1 DEF TypeOK
  <2>2. CASE mapped # {}
    <3>1. (CHOOSE q \in mapped : TRUE) \in 1 .. Len(opened)
      BY <2>2 DEF TypeOK, Plugin
    <3>2. opened[CHOOSE q \in mapped : TRUE] \in [path : Path, version : Nat]
      BY <3>1, ElementOfSeq DEF TypeOK
    <3>3. QED
      BY <2>2, <3>2
  <2>3. QED
    BY <2>1, <2>2
<1> HIDE DEF version
<1>3. opened' \in Seq([path : Path, version : Nat]) /\ Len(opened') = Len(opened) + 1
  BY <1>1, <1>2, AppendProperties DEF TypeOK
<1>4. Len(opened) \in Nat
  BY LenProperties DEF TypeOK
<1>5. Plugin \subseteq Plugin' /\ Len(opened) + 1 \in Plugin'
  BY <1>3, <1>4 DEF Plugin
<1>6. Snapshot \subseteq Snapshot'
  BY <1>5 DEF Snapshot
<1>7. records \in Seq([plugin : Plugin' \cup {None}, path : Path, enabled : BOOLEAN])
  BY <1>5, RecordsGrow DEF TypeOK
<1>8. /\ loading' = {Len(opened) + 1} /\ alive' = alive \cup loading'
      /\ todo' = todo \ {p} /\ latest' = [latest EXCEPT ![p] = disk[p]]
      /\ UNCHANGED <<disk, records, snapshot, dropped, cacheVars, lineVars, mpc,
                     awaited, changes>>
  BY DEF Open
<1>9. latest' \in [Path -> Nat]
  BY <1>8 DEF TypeOK
<1>10. /\ alive' \subseteq Plugin' /\ loading' \subseteq Plugin' /\ dropped' \subseteq Plugin'
       /\ todo' \subseteq Path
  BY <1>5, <1>8 DEF TypeOK
<1>11. /\ snapshot' \in Snapshot' /\ cacheGen' \in Snapshot'
       /\ held' \in [Thread -> Snapshot'] /\ chosen' \in [Thread -> Plugin' \cup {None}]
       /\ cache' \in [Source -> Plugin' \cup {None, Unknown}]
  BY <1>5, <1>6, <1>8 DEF TypeOK, cacheVars, lineVars
<1>12. QED
  BY <1>3, <1>7, <1>8, <1>9, <1>10, <1>11 DEF TypeOK, cacheVars, lineVars

\* The steps of a line keep the types.
LEMMA TypeProcessing ==
  ASSUME TypeOK, NEW t \in Thread, Processing(t)
  PROVE  TypeOK'
<1>1. opened' = opened /\ Plugin' = Plugin /\ Snapshot' = Snapshot
  BY DEF Processing, TakeSnapshot, PickCollector, RunCollector, RunAnalyzers, RunAlerts,
     Advance, EndLine, loaderVars, Plugin, Snapshot
<1>2. NullSnapshot \in Snapshot
  BY DEF NullSnapshot, Snapshot
<1>3. ASSUME NEW s \in Source, TakeSnapshot(t, s) PROVE TypeOK'
  <2>1. lines' \in 0 .. MaxLines
    BY <1>3, BoundsAssumption DEF TakeSnapshot, TypeOK
  <2>2. QED
    BY <1>1, <1>3, <2>1 DEF TakeSnapshot, TypeOK, loaderVars, cacheVars
<1>4. CASE PickCollector(t)
  <2> DEFINE known == IF Outdated(t) THEN [s \in Source |-> Unknown] ELSE cache
             choice == IF known[source[t]] # Unknown THEN known[source[t]]
                       ELSE BestCollector(opened, held[t].active, source[t])
  <2>1. source[t] \in Source /\ held[t] \in Snapshot
    BY DEF TypeOK
  <2>2. known \in [Source -> Plugin \cup {None, Unknown}]
    BY DEF TypeOK
  <2>3. choice \in Plugin \cup {None}
    <3>1. held[t].active \subseteq Plugin /\ held[t].active \in SUBSET Nat
      <4>1. Plugin \subseteq Nat
        BY LenProperties DEF TypeOK, Plugin
      <4>2. QED
        BY <2>1, <4>1 DEF Snapshot
    <3>2. BestCollector(opened, held[t].active, source[t]) \in Plugin \cup {None}
      BY <3>1, BestIsActive
    <3>3. QED
      BY <2>1, <2>2, <3>2
  <2>4. /\ cacheGen' = IF Outdated(t) THEN held[t] ELSE cacheGen
        /\ cache' = [known EXCEPT ![source[t]] = choice]
        /\ chosen' = [chosen EXCEPT ![t] = choice]
        /\ pc' = [pc EXCEPT ![t] = "collect"]
        /\ alive' \subseteq alive
        /\ UNCHANGED <<disk, loaderVars, source, held, lines, mpc, awaited, changes>>
    BY <1>4 DEF PickCollector
  <2> HIDE DEF known, choice
  <2>5. QED
    BY <1>1, <2>1, <2>2, <2>3, <2>4 DEF TypeOK, loaderVars
<1>5. ASSUME NEW from, NEW to \in {"analyze", "alert", "end"}, Advance(t, from, to)
      PROVE  TypeOK'
  BY <1>1, <1>5 DEF Advance, TypeOK, loaderVars, cacheVars
<1>6. CASE EndLine(t)
  BY <1>1, <1>2, <1>6 DEF EndLine, HeldAfterLine, TypeOK, loaderVars, cacheVars
<1>7. QED
  BY <1>3, <1>4, <1>5, <1>6 DEF Processing, RunCollector, RunAnalyzers, RunAlerts

\* So do the steps of load_directory.
LEMMA TypeLoading ==
  ASSUME TypeOK, Loading
  PROVE  TypeOK'
<1>1. ASSUME NEW p \in Path, Open(p) PROVE TypeOK'
  BY <1>1, TypeOpen
<1>2. ASSUME opened' = opened PROVE Plugin' = Plugin /\ Snapshot' = Snapshot
  BY <1>2 DEF Plugin, Snapshot
<1>3. ASSUME NEW p \in Path, Reject(p) PROVE TypeOK'
  <2>1. /\ UNCHANGED <<disk, alive, opened, snapshot, loading, dropped, latest,
                        cacheVars, lineVars, mpc, awaited, changes>>
        /\ todo' = todo \ {p}
        /\ records' = Append(records, [plugin |-> None, path |-> p, enabled |-> FALSE])
    BY <1>3 DEF Reject
  <2>2. records' \in Seq(Record)
    <3>1. [plugin |-> None, path |-> p, enabled |-> FALSE] \in Record
      BY DEF Record
    <3>2. records \in Seq(Record)
      BY DEF TypeOK, Record
    <3>3. QED
      BY <2>1, <3>1, <3>2, AppendProperties
  <2>3. QED
    BY <1>2, <2>1, <2>2 DEF TypeOK, Record, cacheVars, lineVars
<1>4. ASSUME NEW q \in loading, Register(q) PROVE TypeOK'
  <2> DEFINE recs == Append(records, [plugin |-> q, path |-> opened[q].path,
                                      enabled |-> TRUE])
  <2>1. /\ UNCHANGED <<disk, opened, todo, dropped, latest, cacheVars, lineVars, mpc,
                        awaited, changes>>
        /\ records' = recs /\ snapshot' = Rebuilt(recs)
        /\ loading' = {} /\ alive' \subseteq alive
    BY <1>4 DEF Register
  <2>2. recs \in Seq(Record)
    <3>1. q \in Plugin /\ opened[q] \in [path : Path, version : Nat]
      BY ElementOfSeq DEF TypeOK, Plugin
    <3>2. [plugin |-> q, path |-> opened[q].path, enabled |-> TRUE] \in Record
      BY <3>1 DEF Record
    <3>3. records \in Seq(Record)
      BY DEF TypeOK, Record
    <3>4. QED
      BY <3>2, <3>3, AppendProperties
  <2> HIDE DEF recs
  <2>3. snapshot' \in Snapshot
    BY <2>1, <2>2, RebuiltType
  <2>4. QED
    BY <1>2, <2>1, <2>2, <2>3 DEF TypeOK, Record, cacheVars, lineVars
<1>5. CASE EndLoad
  BY <1>2, <1>5 DEF EndLoad, TypeOK, loaderVars, cacheVars, lineVars
<1>6. QED
  BY <1>1, <1>3, <1>4, <1>5 DEF Loading

\* And those of a reload, an unload and a change of activation.
LEMMA TypeManaging ==
  ASSUME TypeOK, Managing
  PROVE  TypeOK'
<1>1. opened' = opened /\ Plugin' = Plugin /\ Snapshot' = Snapshot
  BY DEF Managing, ReloadPlugins, UnloadAll, UnloadPlugin, TakeOut, Drop, SetEnabled,
     loaderVars, Plugin, Snapshot
<1>2. records \in Seq(Record) /\ DOMAIN records = 1 .. Len(records)
  BY LenProperties DEF TypeOK, Record
<1>3. ASSUME changes < MaxChanges, changes' = changes + 1
      PROVE  changes' \in 0 .. MaxChanges
  BY <1>3, BoundsAssumption DEF TypeOK
<1>4. ASSUME NEW kept \in Seq(Record), NEW next \in {"drop", "dropOne"},
             TakeOut(kept, next), changes' \in 0 .. MaxChanges, UNCHANGED awaited
      PROVE  TypeOK'
  <2>1. Rebuilt(kept) \in Snapshot /\ PluginsOf(records) \subseteq Plugin
    BY RebuiltType, PluginsOfType DEF TypeOK
  <2>2. QED
    BY <1>1, <1>4, <2>1 DEF TakeOut, TypeOK, Record, cacheVars, lineVars
<1>5. CASE ReloadPlugins
  <2>1. changes' \in 0 .. MaxChanges /\ awaited' \subseteq Thread
    BY <1>3, <1>5 DEF ReloadPlugins
  <2>2. QED
    BY <1>1, <1>5, <2>1 DEF ReloadPlugins, TypeOK, loaderVars, cacheVars, lineVars
<1>6. CASE UnloadAll
  <2>1. << >> \in Seq(Record)
    BY EmptySeq
  <2>2. TakeOut(<<>>, "drop") /\ UNCHANGED awaited /\ changes' \in 0 .. MaxChanges
    BY <1>6 DEF UnloadAll, TypeOK
  <2>3. QED
    BY <1>4, <2>1, <2>2
<1>7. ASSUME NEW i \in DOMAIN records, UnloadPlugin(i) PROVE TypeOK'
  <2>1. RemoveAt(records, i) \in Seq(Record)
    BY <1>2, RecordRemoved
  <2>2. /\ TakeOut(RemoveAt(records, i), "dropOne") /\ UNCHANGED awaited
        /\ changes' \in 0 .. MaxChanges
    BY <1>3, <1>7 DEF UnloadPlugin
  <2>3. QED
    BY <1>4, <2>1, <2>2
<1>8. CASE Drop
  BY <1>1, <1>8 DEF Drop, TypeOK, cacheVars, lineVars
<1>9. ASSUME NEW i \in DOMAIN records, NEW b \in BOOLEAN, SetEnabled(i, b) PROVE TypeOK'
  <2> DEFINE recs == [records EXCEPT ![i].enabled = b]
  <2>1. recs \in Seq(Record)
    <3>1. records[i] \in Record
      BY <1>2, ElementOfSeq
    <3>2. [records[i] EXCEPT !.enabled = b] \in Record
      BY <3>1 DEF Record
    <3>3. recs = [records EXCEPT ![i] = [records[i] EXCEPT !.enabled = b]]
      OBVIOUS
    <3>4. QED
      BY <1>2, <3>2, <3>3, ExceptSeq
  <2> HIDE DEF recs
  <2>2. /\ records' = recs /\ snapshot' = Rebuilt(recs) /\ alive' \subseteq alive
        /\ changes' \in 0 .. MaxChanges
        /\ UNCHANGED <<disk, opened, todo, loading, dropped, latest, cacheVars,
                       lineVars, mpc, awaited>>
    BY <1>3, <1>9 DEF SetEnabled, recs
  <2>3. Rebuilt(recs) \in Snapshot
    BY <2>1, RebuiltType
  <2>4. QED
    BY <1>1, <2>1, <2>2, <2>3 DEF TypeOK, Record, cacheVars, lineVars
<1>10. QED
  BY <1>5, <1>6, <1>7, <1>8, <1>9 DEF Managing

LEMMA TypeNext == TypeOK /\ [Next]_vars => TypeOK'
<1> SUFFICES ASSUME TypeOK, [Next]_vars PROVE TypeOK'
  OBVIOUS
<1>1. ASSUME opened' = opened PROVE Plugin' = Plugin /\ Snapshot' = Snapshot
  BY <1>1 DEF Plugin, Snapshot
<1>2. ASSUME NEW p \in Path, Install(p) PROVE TypeOK'
  <2>1. disk' = [disk EXCEPT ![p] = @ + 1] /\ disk' \in [Path -> Nat]
    BY <1>2 DEF Install, TypeOK
  <2>2. QED
    BY <1>1, <1>2, <2>1 DEF Install, TypeOK, loaderVars, cacheVars, lineVars
<1>3. CASE UNCHANGED vars
  BY <1>1, <1>3 DEF vars, TypeOK, loaderVars, cacheVars, lineVars
<1>4. QED
  BY <1>2, <1>3, TypeProcessing, TypeLoading, TypeManaging DEF Next

\* Every variable of the loader, of the cache and of the lines keeps its type; in
\* particular nothing but opened plugins and None is ever called or recorded.
THEOREM TypeCorrect == Spec => []TypeOK
<1>1. QED
  BY TypeInit, TypeNext, PTL DEF Spec

--------------------------------------------------------------------------------
(* Sharing.                                                                *)

LEMMA SharingInit == Init => Sharing
<1> SUFFICES ASSUME Init PROVE Sharing
  OBVIOUS
<1>1. PluginsOf(records) = {}
  BY DEF Init, PluginsOf
<1>2. Shared = {NullSnapshot, snapshot}
  BY DEF Init, Shared
<1>3. /\ snapshot.gen = 1 /\ snapshot.all = {} /\ snapshot.active = {}
      /\ NullSnapshot.gen = 0 /\ NullSnapshot.all = {} /\ NullSnapshot.active = {}
  BY DEF Init, NullSnapshot
<1>4. NumbersIdentify /\ UsesKept /\ CurrentListed
  BY <1>1, <1>2, <1>3 DEF NumbersIdentify, UsesKept, CurrentListed
<1>5. LocalsEnd
  BY DEF Init, LocalsEnd
<1>6. QED
  BY <1>4, <1>5 DEF Sharing

\* The snapshots somebody holds are snapshots.
LEMMA SharedType == TypeOK => Shared \subseteq Snapshot
BY DEF TypeOK, Shared, NullSnapshot, Snapshot

\* As long as snapshots are only passed on, numbers identify them.
LEMMA PassedOn ==
  ASSUME Sharing, Shared' \subseteq Shared, snapshot' = snapshot,
         PluginsOf(records') = PluginsOf(records)
  PROVE  NumbersIdentify' /\ UsesKept' /\ CurrentListed'
BY DEF Sharing, NumbersIdentify, UsesKept, CurrentListed

\* A new snapshot has a new number.
LEMMA MadeNew ==
  ASSUME TypeOK, Sharing, snapshot' = Rebuilt(records'),
         Shared' \subseteq Shared \cup {snapshot'}
  PROVE  NumbersIdentify' /\ UsesKept' /\ CurrentListed'
<1>1. /\ snapshot'.gen = snapshot.gen + 1
      /\ snapshot'.all = PluginsOf(records')
      /\ snapshot'.active \subseteq snapshot'.all
  BY DEF Rebuilt
<1>2. \A a \in Shared : a.gen \in Nat
  BY SharedType DEF Snapshot
<1>3. snapshot.gen \in Nat
  BY DEF TypeOK, Snapshot
<1>4. \A a \in Shared : a.gen <= snapshot.gen /\ a.gen # snapshot'.gen
  BY <1>1, <1>2, <1>3 DEF Sharing, NumbersIdentify
<1>5. NumbersIdentify'
  <2>1. ASSUME NEW a \in Shared', NEW b \in Shared', a.gen = b.gen PROVE a = b
    BY <1>4, <2>1 DEF Sharing, NumbersIdentify
  <2>2. ASSUME NEW a \in Shared' PROVE a.gen <= snapshot'.gen
    BY <1>1, <1>2, <1>3, <1>4
  <2>3. QED
    BY <2>1, <2>2 DEF NumbersIdentify
<1>6. UsesKept'
  BY <1>1 DEF Sharing, UsesKept
<1>7. CurrentListed'
  BY <1>1, <1>3 DEF Sharing, CurrentListed
<1>8. QED
  BY <1>5, <1>6, <1>7

\* Steps that touch neither records nor snapshots.
LEMMA Untouched ==
  ASSUME Sharing, UNCHANGED <<records, snapshot, cacheGen, held>>
  PROVE  NumbersIdentify' /\ UsesKept' /\ CurrentListed'
<1>1. Shared' = Shared
  BY DEF Shared
<1>2. QED
  BY <1>1, PassedOn

\* The steps of a line pass snapshots on.
LEMMA SharingProcessing ==
  ASSUME TypeOK, Sharing, NEW t \in Thread, Processing(t)
  PROVE  Sharing'
<1>1. held \in [Thread -> Snapshot] /\ pc \in [Thread -> {"idle", "pick", "collect",
                                                      "analyze", "alert", "end"}]
  BY DEF TypeOK
<1>2. UNCHANGED <<records, snapshot, loading, dropped, mpc>>
  BY DEF Processing, TakeSnapshot, PickCollector, RunCollector, RunAnalyzers, RunAlerts,
     Advance, EndLine, loaderVars
<1>3. Shared' \subseteq Shared
  BY <1>1, <1>2 DEF Processing, TakeSnapshot, PickCollector, RunCollector, RunAnalyzers,
     RunAlerts, Advance, EndLine, HeldAfterLine, Shared, cacheVars, loaderVars
<1>4. \A u \in Thread : pc'[u] = "idle" => held'[u] = NullSnapshot
  BY <1>1 DEF Processing, TakeSnapshot, PickCollector, RunCollector, RunAnalyzers,
     RunAlerts, Advance, EndLine, HeldAfterLine, Sharing, LocalsEnd
<1>5. LocalsEnd'
  BY <1>2, <1>4 DEF Sharing, LocalsEnd
<1>6. QED
  BY <1>2, <1>3, <1>5, PassedOn DEF Sharing

\* A file that is refused leaves a record without a plugin.
LEMMA RefusedRecord ==
  ASSUME TypeOK, NEW p \in Path, Reject(p)
  PROVE  PluginsOf(records') = PluginsOf(records)
<1> DEFINE rec == [plugin |-> None, path |-> p, enabled |-> FALSE]
<1>1. records' = Append(records, rec)
  BY DEF Reject
<1>2. records \in Seq(Record) /\ rec \in Record /\ rec.plugin = None
  BY DEF TypeOK, Record
<1> HIDE DEF rec
<1>3. /\ DOMAIN records = 1 .. Len(records) /\ Len(records) \in Nat
      /\ Append(records, rec) \in Seq(Record)
      /\ Len(Append(records, rec)) = Len(records) + 1
      /\ \A i \in 1 .. Len(records) : Append(records, rec)[i] = records[i]
      /\ Append(records, rec)[Len(records) + 1] = rec
  BY <1>2, LenProperties, AppendProperties
<1>4. DOMAIN Append(records, rec) = 1 .. Len(records) + 1
  BY <1>3, LenProperties
<1>5. QED
  BY <1>1, <1>2, <1>3, <1>4 DEF PluginsOf

\* The record of plugin q adds q to the plugins.
LEMMA RegisteredRecord ==
  ASSUME TypeOK, NEW q \in loading, Register(q)
  PROVE  PluginsOf(records') \subseteq PluginsOf(records) \cup {q}
<1> DEFINE rec == [plugin |-> q, path |-> opened[q].path, enabled |-> TRUE]
<1>1. records' = Append(records, rec)
  BY DEF Register
<1>2. records \in Seq(Record) /\ rec \in Record /\ rec.plugin = q
  <2>1. q \in Plugin /\ opened[q] \in [path : Path, version : Nat]
    BY ElementOfSeq DEF TypeOK, Plugin
  <2>2. QED
    BY <2>1 DEF TypeOK, Record
<1> HIDE DEF rec
<1>3. /\ DOMAIN records = 1 .. Len(records) /\ Len(records) \in Nat
      /\ Append(records, rec) \in Seq(Record)
      /\ Len(Append(records, rec)) = Len(records) + 1
      /\ \A i \in 1 .. Len(records) : Append(records, rec)[i] = records[i]
      /\ Append(records, rec)[Len(records) + 1] = rec
  BY <1>2, LenProperties, AppendProperties
<1>4. DOMAIN Append(records, rec) = 1 .. Len(records) + 1
  BY <1>3, LenProperties
<1>5. QED
  BY <1>1, <1>2, <1>3, <1>4 DEF PluginsOf

\* (De)activation leaves the plugins of the records alone.
LEMMA ActivatedRecord ==
  ASSUME TypeOK, NEW i \in DOMAIN records, NEW b \in BOOLEAN, SetEnabled(i, b)
  PROVE  PluginsOf(records') = PluginsOf(records)
<1>1. records' = [records EXCEPT ![i].enabled = b]
  BY DEF SetEnabled
<1>2. DOMAIN records = 1 .. Len(records)
  BY LenProperties DEF TypeOK
<1>3. \A j \in DOMAIN records : records[j] \in Record
  BY <1>2, ElementOfSeq DEF TypeOK, Record
<1>4. DOMAIN records' = DOMAIN records
  BY <1>1
<1>5. \A j \in DOMAIN records : records'[j].plugin = records[j].plugin
  BY <1>1, <1>3 DEF Record
<1>6. QED
  BY <1>4, <1>5 DEF PluginsOf

LEMMA SharingNext == TypeOK /\ Sharing /\ [Next]_vars => Sharing'
<1> SUFFICES ASSUME TypeOK, Sharing, [Next]_vars PROVE Sharing'
  OBVIOUS
<1>1. ASSUME UNCHANGED <<cacheGen, held>>, snapshot' = Rebuilt(records')
      PROVE  NumbersIdentify' /\ UsesKept' /\ CurrentListed'
  <2>1. Shared' \subseteq Shared \cup {snapshot'}
    BY <1>1 DEF Shared
  <2>2. QED
    BY <1>1, <2>1, MadeNew
<1>2. ASSUME NEW t \in Thread, Processing(t) PROVE Sharing'
  BY <1>2, SharingProcessing
<1>3. ASSUME NEW p \in Path, Open(p) PROVE Sharing'
  BY <1>3, Untouched DEF Open, cacheVars, lineVars, Sharing, LocalsEnd
<1>4. ASSUME NEW p \in Path, Reject(p) PROVE Sharing'
  <2>1. Shared' = Shared /\ snapshot' = snapshot
    BY <1>4 DEF Reject, Shared, cacheVars, lineVars
  <2>2. LocalsEnd'
    BY <1>4 DEF Reject, Sharing, LocalsEnd, cacheVars, lineVars
  <2>3. QED
    BY <1>4, <2>1, <2>2, RefusedRecord, PassedOn DEF Sharing
<1>5. ASSUME NEW q \in loading, Register(q) PROVE Sharing'
  <2>1. UNCHANGED <<cacheGen, held>> /\ snapshot' = Rebuilt(records')
    BY <1>5 DEF Register, cacheVars, lineVars
  <2>2. LocalsEnd'
    BY <1>5 DEF Register, Sharing, LocalsEnd, cacheVars, lineVars
  <2>3. QED
    BY <1>1, <2>1, <2>2 DEF Sharing
<1>6. CASE EndLoad
  BY <1>6, Untouched DEF EndLoad, loaderVars, cacheVars, lineVars, Sharing, LocalsEnd
<1>7. CASE ReloadPlugins
  BY <1>7, Untouched DEF ReloadPlugins, loaderVars, cacheVars, lineVars, Sharing, LocalsEnd
<1>8. ASSUME NEW kept, NEW next \in {"drop", "dropOne"}, TakeOut(kept, next),
             mpc \in {"idle", "flush"}
      PROVE  Sharing'
  <2>1. UNCHANGED <<cacheGen, held>> /\ snapshot' = Rebuilt(records')
    BY <1>8 DEF TakeOut, cacheVars, lineVars
  <2>2. LocalsEnd'
    BY <1>8 DEF TakeOut, Sharing, LocalsEnd, cacheVars, lineVars
  <2>3. QED
    BY <1>1, <2>1, <2>2 DEF Sharing
<1>9. CASE UnloadAll
  BY <1>8, <1>9 DEF UnloadAll
<1>10. ASSUME NEW i \in DOMAIN records, UnloadPlugin(i) PROVE Sharing'
  BY <1>8, <1>10 DEF UnloadPlugin
<1>11. CASE Drop
  BY <1>11, Untouched DEF Drop, cacheVars, lineVars, Sharing, LocalsEnd
<1>12. ASSUME NEW i \in DOMAIN records, NEW b \in BOOLEAN, SetEnabled(i, b)
       PROVE  Sharing'
  <2>1. UNCHANGED <<cacheGen, held>> /\ snapshot' = Rebuilt(records')
    BY <1>12 DEF SetEnabled, cacheVars, lineVars
  <2>2. LocalsEnd'
    BY <1>12 DEF SetEnabled, Sharing, LocalsEnd, cacheVars, lineVars
  <2>3. QED
    BY <1>1, <2>1, <2>2 DEF Sharing
<1>13. ASSUME NEW p \in Path, Install(p) PROVE Sharing'
  BY <1>13, Untouched DEF Install, loaderVars, cacheVars, lineVars, Sharing, LocalsEnd
<1>14. CASE UNCHANGED vars
  BY <1>14, Untouched DEF vars, loaderVars, cacheVars, lineVars, Sharing, LocalsEnd
<1>15. QED
  BY <1>2, <1>3, <1>4, <1>5, <1>6, <1>7, <1>9, <1>10, <1>11, <1>12, <1>13, <1>14
     DEF Next, Loading, Managing

--------------------------------------------------------------------------------
(* Counting references.                                                    *)

LEMMA CountedInit == Init => Counted
BY DEF Init, Counted, Referenced, HeldBy, PluginsOf, Keeps, NullSnapshot

\* An action that closes what nobody holds any more, and gives nobody a plugin
\* that was closed, keeps the count.
LEMMA CountedClosing ==
  ASSUME Counted,
         LET ref == Referenced(records', snapshot', cacheGen', held', dropped' \cup loading')
         IN  ref \subseteq alive /\ alive' = alive \cap ref
  PROVE  Counted'
BY DEF Counted

\* The steps of a line.
LEMMA CountedProcessing ==
  ASSUME TypeOK, Sharing, Counted, NEW t \in Thread, Processing(t)
  PROVE  Counted'
<1> DEFINE ref == Referenced(records', snapshot', cacheGen', held', dropped' \cup loading')
<1>1. held \in [Thread -> Snapshot] /\ UNCHANGED <<records, snapshot, dropped, loading>>
  BY DEF TypeOK, Processing, TakeSnapshot, PickCollector, RunCollector, RunAnalyzers,
     RunAlerts, Advance, EndLine, loaderVars
<1>2. ASSUME NEW s \in Source, TakeSnapshot(t, s) PROVE Counted'
  <2>1. /\ held' = [held EXCEPT ![t] = snapshot] /\ Keeps(held[t]) = {}
        /\ UNCHANGED <<cacheGen, alive>>
    BY <1>2 DEF TakeSnapshot, cacheVars, Sharing, LocalsEnd, Keeps, NullSnapshot
  <2>2. Keeps(held'[t]) = Keeps(snapshot)
        /\ \A u \in Thread \ {t} : Keeps(held'[u]) = Keeps(held[u])
    BY <1>1, <2>1
  <2>3. ref = Referenced(records, snapshot, cacheGen, held, dropped \cup loading)
    BY <1>1, <2>1, <2>2 DEF Referenced, HeldBy
  <2>4. QED
    BY <2>1, <2>3 DEF Counted
<1>3. CASE PickCollector(t)
  <2>1. /\ cacheGen' \in {held[t], cacheGen} /\ UNCHANGED held
        /\ alive' = alive \cap ref
    BY <1>1, <1>3 DEF PickCollector
  <2>2. ref \subseteq alive
    BY <1>1, <2>1 DEF Counted, Referenced, HeldBy
  <2>3. QED
    BY <2>1, <2>2, CountedClosing
<1>4. ASSUME NEW from, NEW to, Advance(t, from, to) PROVE Counted'
  BY <1>1, <1>4 DEF Advance, Counted, cacheVars
<1>5. CASE EndLine(t)
  <2>1. /\ held' = [held EXCEPT ![t] = NullSnapshot] /\ UNCHANGED cacheGen
        /\ alive' = alive \cap ref
    BY <1>1, <1>5 DEF EndLine, HeldAfterLine, cacheVars
  <2>2. Keeps(held'[t]) = {}
        /\ \A u \in Thread \ {t} : Keeps(held'[u]) = Keeps(held[u])
    BY <1>1, <2>1 DEF Keeps, NullSnapshot
  <2>3. ref \subseteq alive
    BY <1>1, <2>1, <2>2 DEF Counted, Referenced, HeldBy
  <2>4. QED
    BY <2>1, <2>3, CountedClosing
<1>6. QED
  BY <1>2, <1>3, <1>4, <1>5 DEF Processing, RunCollector, RunAnalyzers, RunAlerts

LEMMA CountedNext == TypeOK /\ Sharing /\ Counted /\ [Next]_vars => Counted'
<1> SUFFICES ASSUME TypeOK, Sharing, Counted, [Next]_vars PROVE Counted'
  OBVIOUS
<1> DEFINE ref == Referenced(records', snapshot', cacheGen', held', dropped' \cup loading')
<1>1. ASSUME NEW t \in Thread, Processing(t) PROVE Counted'
  BY <1>1, CountedProcessing
<1>2. ASSUME NEW p \in Path, Open(p) PROVE Counted'
  <2>1. /\ loading = {} /\ alive' = alive \cup loading'
        /\ UNCHANGED <<records, snapshot, cacheGen, held, dropped>>
    BY <1>2 DEF Open, cacheVars, lineVars
  <2>2. QED
    BY <2>1 DEF Counted, Referenced
<1>3. ASSUME NEW p \in Path, Reject(p) PROVE Counted'
  <2>1. UNCHANGED <<alive, snapshot, cacheGen, held, dropped, loading>>
    BY <1>3 DEF Reject, cacheVars, lineVars
  <2>2. QED
    BY <1>3, <2>1, RefusedRecord DEF Counted, Referenced
<1>4. ASSUME NEW q \in loading, Register(q) PROVE Counted'
  <2>1. /\ UNCHANGED <<cacheGen, held, dropped>> /\ loading' = {}
        /\ snapshot' = Rebuilt(records')
        /\ alive' = alive \cap Referenced(records', snapshot', cacheGen, held, dropped)
    BY <1>4 DEF Register, cacheVars, lineVars
  <2>2. alive' = alive \cap ref
    BY <2>1
  <2>3. Keeps(snapshot') = PluginsOf(records')
    BY <2>1 DEF Keeps, Rebuilt
  <2>4. ref \subseteq alive
    BY <1>4, <2>1, <2>3, RegisteredRecord DEF Counted, Referenced
  <2>5. QED
    BY <2>2, <2>4, CountedClosing
<1>5. ASSUME NEW kept, NEW next, TakeOut(kept, next), mpc \in {"idle", "flush"},
             PluginsOf(kept) \subseteq PluginsOf(records)
      PROVE  Counted'
  <2>1. /\ UNCHANGED <<cacheGen, held, loading>> /\ loading = {}
        /\ records' = kept /\ snapshot' = Rebuilt(kept)
        /\ dropped' \subseteq PluginsOf(records)
        /\ alive' = alive \cap Referenced(records', snapshot', cacheGen, held, dropped')
    BY <1>5 DEF TakeOut, cacheVars, lineVars, Sharing, LocalsEnd
  <2>2. alive' = alive \cap ref
    BY <2>1
  <2>3. Keeps(snapshot') = PluginsOf(kept)
    BY <2>1 DEF Keeps, Rebuilt
  <2>4. ref \subseteq alive
    BY <1>5, <2>1, <2>3 DEF Counted, Referenced
  <2>5. QED
    BY <2>2, <2>4, CountedClosing
<1>6. CASE UnloadAll
  <2>1. PluginsOf(<<>>) = {}
    BY DEF PluginsOf
  <2>2. QED
    BY <1>5, <1>6, <2>1 DEF UnloadAll
<1>7. ASSUME NEW i \in DOMAIN records, UnloadPlugin(i) PROVE Counted'
  <2>1. PluginsOf(RemoveAt(records, i)) \subseteq PluginsOf(records)
    BY RecordRemoved DEF TypeOK
  <2>2. QED
    BY <1>5, <1>7, <2>1 DEF UnloadPlugin
<1>8. CASE Drop
  <2>1. /\ UNCHANGED <<records, snapshot, cacheGen, held, loading>>
        /\ loading = {} /\ dropped' = {}
        /\ alive' = alive \cap Referenced(records, snapshot, cacheGen, held, dropped')
    BY <1>8 DEF Drop, cacheVars, lineVars, Sharing, LocalsEnd
  <2>2. alive' = alive \cap ref /\ ref \subseteq alive
    BY <2>1 DEF Counted, Referenced
  <2>3. QED
    BY <2>2, CountedClosing
<1>9. ASSUME NEW i \in DOMAIN records, NEW b \in BOOLEAN, SetEnabled(i, b)
      PROVE  Counted'
  <2>1. /\ UNCHANGED <<cacheGen, held, dropped, loading>> /\ loading = {}
        /\ snapshot' = Rebuilt(records')
        /\ alive' = alive \cap Referenced(records', snapshot', cacheGen, held, dropped)
    BY <1>9 DEF SetEnabled, cacheVars, lineVars, Sharing, LocalsEnd
  <2>2. alive' = alive \cap ref
    BY <2>1
  <2>3. Keeps(snapshot') = PluginsOf(records')
    BY <2>1 DEF Keeps, Rebuilt
  <2>4. ref \subseteq alive
    BY <1>9, <2>1, <2>3, ActivatedRecord DEF Counted, Referenced
  <2>5. QED
    BY <2>2, <2>4, CountedClosing
<1>10. CASE EndLoad \/ ReloadPlugins \/ (\E p \in Path : Install(p)) \/ UNCHANGED vars
  <2>1. UNCHANGED <<alive, records, snapshot, cacheGen, held, dropped, loading>>
    BY <1>10 DEF EndLoad, ReloadPlugins, Install, vars, loaderVars, cacheVars, lineVars
  <2>2. QED
    BY <2>1 DEF Counted
<1>11. QED
  BY <1>1, <1>2, <1>3, <1>4, <1>6, <1>7, <1>8, <1>9, <1>10 DEF Next, Loading, Managing

--------------------------------------------------------------------------------
(* The cache.                                                              *)

LEMMA CachedInit == Init => Cached
BY DEF Init, Cached, CacheExact, ChoiceIsOwn

\* A line gets from the cache what its own snapshot would choose.
LEMMA CachedPick ==
  ASSUME TypeOK, Sharing, Cached, NEW t \in Thread, PickCollector(t)
  PROVE  Cached'
<1> DEFINE known == IF Outdated(t) THEN [s \in Source |-> Unknown] ELSE cache
           choice == IF known[source[t]] # Unknown THEN known[source[t]]
                     ELSE BestCollector(opened, held[t].active, source[t])
<1>1. /\ cacheGen' = IF Outdated(t) THEN held[t] ELSE cacheGen
      /\ cache' = [known EXCEPT ![source[t]] = choice]
      /\ chosen' = [chosen EXCEPT ![t] = choice]
      /\ pc' = [pc EXCEPT ![t] = "collect"]
      /\ UNCHANGED <<opened, source, held>>
  BY DEF PickCollector, loaderVars
<1>2. /\ source[t] \in Source
      /\ chosen \in [Thread -> Plugin \cup {None}]
      /\ cache \in [Source -> Plugin \cup {None, Unknown}]
      /\ pc \in [Thread -> {"idle", "pick", "collect", "analyze", "alert", "end"}]
  BY DEF TypeOK
<1>3. cacheGen' = held[t]
  <2>1. cacheGen \in Shared /\ held[t] \in Shared
    BY DEF Shared
  <2>2. QED
    BY <1>1, <2>1 DEF Outdated, Sharing, NumbersIdentify
<1>4. \A s \in Source :
        known[s] # Unknown => known[s] = BestCollector(opened, cacheGen'.active, s)
  BY <1>1 DEF Cached, CacheExact
<1>5. DOMAIN known = Source
  BY <1>2
<1> HIDE DEF known
<1>6. choice = BestCollector(opened, held[t].active, source[t])
  BY <1>2, <1>3, <1>4
<1> HIDE DEF choice
<1>7. CacheExact'
  <2>1. ASSUME NEW s \in Source, cache'[s] # Unknown
        PROVE  cache'[s] = BestCollector(opened', cacheGen'.active, s)
    <3>1. CASE s = source[t]
      BY <1>1, <1>3, <1>5, <1>6, <3>1
    <3>2. CASE s # source[t]
      BY <1>1, <1>4, <1>5, <2>1, <3>2
    <3>3. QED
      BY <3>1, <3>2
  <2>2. QED
    BY <2>1 DEF CacheExact
<1>8. ChoiceIsOwn'
  <2>1. ASSUME NEW u \in Thread, pc'[u] = "collect"
        PROVE  chosen'[u] = BestCollector(opened', held'[u].active, source'[u])
    <3>1. CASE u = t
      BY <1>1, <1>2, <1>6, <3>1
    <3>2. CASE u # t
      <4>1. pc[u] = "collect" /\ chosen'[u] = chosen[u]
        BY <1>1, <1>2, <2>1, <3>2
      <4>2. QED
        BY <1>1, <4>1 DEF Cached, ChoiceIsOwn
    <3>3. QED
      BY <3>1, <3>2
  <2>2. QED
    BY <2>1 DEF ChoiceIsOwn
<1>9. QED
  BY <1>7, <1>8 DEF Cached

\* A file that is opened leaves the choices between other plugins alone.
LEMMA CachedOpen ==
  ASSUME TypeOK, Cached, NEW p \in Path, Open(p)
  PROVE  Cached'
<1>1. UNCHANGED <<cache, cacheGen, pc, chosen, held, source>>
  BY DEF Open, cacheVars, lineVars
<1>2. \A q \in Plugin : opened'[q] = opened[q]
  <2>1. /\ \E f : opened' = Append(opened, f)
        /\ opened \in Seq([path : Path, version : Nat])
    BY DEF Open, TypeOK
  <2>2. QED
    BY <2>1 DEF Plugin
<1>3. ASSUME NEW snap \in Snapshot, NEW s
      PROVE  BestCollector(opened', snap.active, s) = BestCollector(opened, snap.active, s)
  BY <1>2, BestIsStable DEF Snapshot
<1>4. cacheGen \in Snapshot /\ \A t \in Thread : held[t] \in Snapshot
  BY DEF TypeOK
<1>5. QED
  BY <1>1, <1>3, <1>4 DEF Cached, CacheExact, ChoiceIsOwn

LEMMA CachedNext == TypeOK /\ Sharing /\ Cached /\ [Next]_vars => Cached'
<1> SUFFICES ASSUME TypeOK, Sharing, Cached, [Next]_vars PROVE Cached'
  OBVIOUS
<1>1. ASSUME NEW t \in Thread, PickCollector(t) PROVE Cached'
  BY <1>1, CachedPick
<1>2. ASSUME NEW p \in Path, Open(p) PROVE Cached'
  BY <1>2, CachedOpen
<1>3. ASSUME UNCHANGED <<opened, cacheGen, cache>>,
             \A u \in Thread : pc'[u] = "collect" =>
               pc[u] = "collect" /\ UNCHANGED <<held[u], source[u], chosen[u]>>
      PROVE  Cached'
  BY <1>3 DEF Cached, CacheExact, ChoiceIsOwn
<1>4. ASSUME NEW t \in Thread,
             \/ \E s \in Source : TakeSnapshot(t, s)
             \/ RunCollector(t) \/ RunAnalyzers(t) \/ RunAlerts(t) \/ EndLine(t)
      PROVE  Cached'
  <2>1. UNCHANGED <<opened, cacheGen, cache>>
    BY <1>4 DEF TakeSnapshot, RunCollector, RunAnalyzers, RunAlerts, Advance, EndLine,
       loaderVars, cacheVars
  <2>2. /\ held \in [Thread -> Snapshot] /\ source \in [Thread -> Source]
        /\ chosen \in [Thread -> Plugin \cup {None}]
        /\ pc \in [Thread -> {"idle", "pick", "collect", "analyze", "alert", "end"}]
    BY DEF TypeOK
  <2>3. \A u \in Thread : pc'[u] = "collect" =>
          pc[u] = "collect" /\ UNCHANGED <<held[u], source[u], chosen[u]>>
    BY <1>4, <2>2 DEF TakeSnapshot, RunCollector, RunAnalyzers, RunAlerts, Advance, EndLine
  <2>4. QED
    BY <1>3, <2>1, <2>3
<1>5. CASE \/ \E p \in Path : Reject(p) \/ Install(p)
           \/ \E q \in loading : Register(q)
           \/ EndLoad \/ Managing \/ UNCHANGED vars
  <2>1. UNCHANGED <<opened, cacheGen, cache, pc, held, source, chosen>>
    BY <1>5 DEF Reject, Install, Register, EndLoad, Managing, ReloadPlugins, UnloadAll,
       UnloadPlugin, TakeOut, Drop, SetEnabled, vars, loaderVars, cacheVars, lineVars
  <2>2. QED
    BY <1>3, <2>1
<1>6. QED
  BY <1>1, <1>2, <1>4, <1>5 DEF Next, Processing, Loading

--------------------------------------------------------------------------------
(* The invariant and what follows from it.                                 *)

PluginInvariant == TypeOK /\ Sharing /\ Counted /\ Cached

LEMMA Invariance == Spec => []PluginInvariant
<1>1. Init => PluginInvariant
  BY TypeInit, SharingInit, CountedInit, CachedInit DEF PluginInvariant
<1>2. PluginInvariant /\ [Next]_vars => PluginInvariant'
  BY TypeNext, SharingNext, CountedNext, CachedNext DEF PluginInvariant
<1>3. QED
  BY <1>1, <1>2, PTL DEF Spec

\* No line is ever parsed, analyzed or alerted by a plugin that was closed, for
\* any number of threads, plugins, reloads and (de)activations: the guarantee
\* that the comments on LoadedPlugin and m_cache_generation claim.
THEOREM NoUseAfterCloseHolds == Spec => []NoUseAfterClose
<1>1. ASSUME PluginInvariant PROVE NoUseAfterClose
  <2> SUFFICES ASSUME NEW t \in Thread PROVE Using(t) \subseteq alive
    BY DEF NoUseAfterClose
  <2>1. held[t].active \subseteq held[t].all
    BY <1>1 DEF PluginInvariant, Sharing, UsesKept, Shared
  <2>2. held[t].all \subseteq alive
    BY <1>1 DEF PluginInvariant, Counted, Referenced, HeldBy, Keeps
  <2>3. held[t].active \in SUBSET Nat
    BY <1>1, LenProperties DEF PluginInvariant, TypeOK, Snapshot, Plugin
  <2>4. pc[t] = "collect" => chosen[t] \in held[t].active \cup {None}
    BY <1>1, <2>3, BestIsActive DEF PluginInvariant, Cached, ChoiceIsOwn
  <2>5. Using(t) \subseteq held[t].active
    <3>1. CASE pc[t] = "collect"
      BY <2>4, <3>1 DEF Using
    <3>2. CASE pc[t] # "collect"
      BY <3>2 DEF Using, InUse
    <3>3. QED
      BY <3>1, <3>2
  <2>6. QED
    BY <2>1, <2>2, <2>5
<1>2. QED
  BY <1>1, Invariance, PTL

\* A line is parsed by the collector its own snapshot would choose, although
\* threads with different snapshots share the cache (pick_collector).
THEOREM EachLineItsOwnChoice == Spec => []ChoiceIsOwn
<1>1. PluginInvariant => ChoiceIsOwn
  BY DEF PluginInvariant, Cached
<1>2. QED
  BY <1>1, Invariance, PTL

\* Nothing is left open by any sequence of reloads, unloads and lines: with no
\* line in flight and a cache of the current snapshot, the open plugins are those
\* the loader lists.
THEOREM NoPluginLeaks == Spec => []NothingLeaks
<1>1. ASSUME PluginInvariant PROVE NothingLeaks
  <2> SUFFICES ASSUME mpc = "idle", \A t \in Thread : pc[t] = "idle",
                      cacheGen.gen \in {0, snapshot.gen}
               PROVE  alive = PluginsOf(records)
    BY DEF NothingLeaks
  <2>1. loading = {} /\ dropped = {} /\ \A t \in Thread : held[t] = NullSnapshot
    BY <1>1 DEF PluginInvariant, Sharing, LocalsEnd
  <2>2. HeldBy(held) = {}
    BY <2>1 DEF HeldBy, Keeps, NullSnapshot
  <2>3. cacheGen \in {NullSnapshot, snapshot}
    <3>1. NullSnapshot.gen = 0 /\ {cacheGen, snapshot, NullSnapshot} \subseteq Shared
      BY DEF NullSnapshot, Shared
    <3>2. QED
      BY <1>1, <3>1 DEF PluginInvariant, Sharing, NumbersIdentify
  <2>4. Keeps(snapshot) = PluginsOf(records) /\ Keeps(NullSnapshot) = {}
    BY <1>1 DEF PluginInvariant, Sharing, CurrentListed, Keeps, NullSnapshot
  <2>5. alive = Referenced(records, snapshot, cacheGen, held, {})
    BY <1>1, <2>1 DEF PluginInvariant, Counted
  <2>6. QED
    BY <2>2, <2>3, <2>4, <2>5 DEF Referenced
<1>2. QED
  BY <1>1, Invariance, PTL
================================================================================
