----------------------------- MODULE PluginLifetime -----------------------------
(***************************************************************************)
(* Who keeps a plugin's library open, and which plugins a line meets:      *)
(* PluginLoader (src/daemon/plugin_loader.cpp) with its records and its    *)
(* immutable snapshots, Pipeline::process_raw_now with the collector cache *)
(* (src/daemon/pipeline.cpp), and DaemonCore::reload_plugins.              *)
(*                                                                         *)
(* A LoadedPlugin is closed (on_unload, destroy_plugin, dlclose) by        *)
(* whoever gives up the last shared_ptr to it: a record of the loader, the *)
(* vector of plugins unload_all has taken out of the records, a snapshot   *)
(* held by a thread for the line it processes, by the loader as the        *)
(* current one, or by the pipeline as the generation of its cache.         *)
(*                                                                         *)
(* flush() is used by what WorkerPool says of it: when it returns, the     *)
(* lines that were in flight when it was called are finished.              *)
(***************************************************************************)
EXTENDS Integers, Sequences, FiniteSets, SequencesExt

CONSTANTS
  Thread,      \* threads that process lines
  Source,      \* source names
  Path,        \* the .so files of the plugin directory
  Score,       \* Score[p][s]: what match(s) of collector p answers
  Analyzers,   \* the files whose plugin is an IAnalyzer
  Alerts,      \* the files whose plugin is an IAlert
  Async,       \* whether there are worker threads, so that flush() waits
  MaxLines,    \* bound: lines
  MaxChanges,  \* bound: reloads, unloads and (de)activations
  MaxUpdates   \* bound: new versions of files installed

ASSUME PathAssumption ==
  /\ Score \in [Path -> [Source -> Nat]]
  /\ Analyzers \subseteq Path /\ Alerts \subseteq Path
ASSUME BoundsAssumption ==
  /\ Async \in BOOLEAN
  /\ {MaxLines, MaxChanges, MaxUpdates} \subseteq Nat

VARIABLES
  disk,        \* disk[p]: version of file p in the plugin directory
  opened,      \* opened[q]: the file and the version of the code of plugin q
  alive,       \* the plugins not yet closed
  records,     \* m_records
  snapshot,    \* m_snapshot
  cacheGen,    \* m_cache_generation
  cache,       \* m_collector_cache
  pc,          \* where thread t is in process_raw_now
  source,      \* the source of its line
  held,        \* the snapshot it took
  chosen,      \* the collector picked for its line
  mpc,         \* where the main thread is
  todo,        \* files load_directory has still to load
  loading,     \* the plugin being loaded, as a set
  dropped,     \* plugins unload_all or unload_plugin took out of the records
  awaited,     \* threads whose line flush() still waits for
  lines,       \* lines so far
  changes,     \* reloads, unloads and activations so far
  latest       \* version of the file when it was last loaded (history variable)

loaderVars == <<opened, records, snapshot, todo, loading, dropped, latest>>
cacheVars  == <<cacheGen, cache>>
lineVars   == <<pc, source, held, chosen, lines>>
vars == <<disk, alive, loaderVars, cacheVars, lineVars, mpc, awaited, changes>>

None    == 0     \* nullptr
Unknown == -1    \* no entry in the cache

Plugin == 1 .. Len(opened)

\* Snapshots are compared by address: each has a number of its own. The plugins
\* in use are a set: records, and with them the vectors of a snapshot, are in the
\* order in which their plugins were opened, which is that of their numbers.
NullSnapshot == [gen |-> 0, all |-> {}, active |-> {}]

--------------------------------------------------------------------------------
\* Fault: the record of a file that failed to load counts as a plugin.
FailuresToo(recs) == {recs[i].plugin : i \in DOMAIN recs}

\* rebuild_snapshot_locked: all plugins are kept alive, the enabled ones used.
PluginsOf(recs) == {recs[i].plugin : i \in DOMAIN recs} \ {None}

EnabledOf(recs) == {recs[i].plugin : i \in {j \in DOMAIN recs : recs[j].enabled}}

Rebuilt(recs) ==
  [gen |-> snapshot.gen + 1, all |-> PluginsOf(recs),
   active |-> PluginsOf(recs) \cap EnabledOf(recs)]

\* Fault: a snapshot holds bare pointers only.
KeepsNothing(snap) == {}

\* The shared_ptrs of a snapshot.
Keeps(snap) == snap.all

\* The plugins that threads hold for their lines.
HeldBy(holders) == UNION {Keeps(holders[t]) : t \in Thread}

\* The plugins that somebody holds. An action that gives a reference up closes
\* the plugins it held the last one of: alive' is what Referenced says after it.
Referenced(recs, snap, gen, holders, taken) ==
  PluginsOf(recs) \cup Keeps(snap) \cup Keeps(gen)
    \cup HeldBy(holders) \cup taken

\* The collector with the highest positive score, the first one of equals; files
\* is opened.
BestCollector(files, active, s) ==
  LET score(q) == Score[files[q].path][s]
      best     == {q \in active : /\ score(q) > 0
                                  /\ \A r \in active : score(r) <= score(q)}
  IN  IF best = {} THEN None ELSE CHOOSE q \in best : \A r \in best : q <= r

InUse(t, files) == {q \in held[t].active : opened[q].path \in files}

--------------------------------------------------------------------------------
Init ==
  /\ disk = [p \in Path |-> 1]
  /\ opened = <<>>
  /\ alive = {}
  /\ records = <<>>
  /\ snapshot = [NullSnapshot EXCEPT !.gen = 1]
  /\ cacheGen = NullSnapshot
  /\ cache = [s \in Source |-> Unknown]
  /\ pc = [t \in Thread |-> "idle"]
  /\ source \in [Thread -> Source]
  /\ held = [t \in Thread |-> NullSnapshot]
  /\ chosen = [t \in Thread |-> None]
  /\ mpc = "start"
  /\ todo = Path
  /\ loading = {}
  /\ dropped = {}
  /\ awaited = {}
  /\ lines = 0
  /\ changes = 0
  /\ latest = [p \in Path |-> 0]

--------------------------------------------------------------------------------
(* process_raw_now on thread t.                                            *)

\* The line takes the current snapshot; lines come once the watcher is started.
TakeSnapshot(t, s) ==
  /\ mpc # "start"
  /\ pc[t] = "idle"
  /\ lines < MaxLines
  /\ lines' = lines + 1
  /\ held' = [held EXCEPT ![t] = snapshot]
  /\ source' = [source EXCEPT ![t] = s]
  /\ pc' = [pc EXCEPT ![t] = "pick"]
  /\ UNCHANGED <<disk, alive, loaderVars, cacheVars, chosen, mpc, awaited, changes>>

\* Fault: the cache outlives the snapshot it was made from.
NeverOutdated(t) == FALSE

\* The cache belongs to another snapshot than the line's.
Outdated(t) == cacheGen.gen # held[t].gen

\* pick_collector, under the cache mutex. Giving up the old generation may close
\* the plugins of an unload that was waiting for it.
PickCollector(t) ==
  LET known  == IF Outdated(t) THEN [s \in Source |-> Unknown] ELSE cache
      s      == source[t]
      choice == IF known[s] # Unknown THEN known[s]
                ELSE BestCollector(opened, held[t].active, s)
  IN  /\ pc[t] = "pick"
      /\ cacheGen' = IF Outdated(t) THEN held[t] ELSE cacheGen
      /\ cache' = [known EXCEPT ![s] = choice]
      /\ chosen' = [chosen EXCEPT ![t] = choice]
      /\ pc' = [pc EXCEPT ![t] = "collect"]
      /\ alive' = alive \cap Referenced(records, snapshot, cacheGen', held,
                                        dropped \cup loading)
      /\ UNCHANGED <<disk, loaderVars, source, held, lines, mpc, awaited, changes>>

\* A collector ends the line if it parses nothing or throws (a line nobody parses
\* goes on as it is), an analyzer if it filters every entry out.
Advance(t, from, to) ==
  /\ pc[t] = from
  /\ pc' = [pc EXCEPT ![t] = to]
  /\ UNCHANGED <<disk, alive, loaderVars, cacheVars, source, held, chosen, lines,
                 mpc, awaited, changes>>

RunCollector(t) ==
  \E to \in IF chosen[t] = None THEN {"analyze"} ELSE {"analyze", "end"} :
    Advance(t, "collect", to)

RunAnalyzers(t) == \E to \in {"alert", "end"} : Advance(t, "analyze", to)
RunAlerts(t)    == Advance(t, "alert", "end")

\* Fault: the thread keeps its snapshot until the next line.
StillHeld(t) == held[t]

HeldAfterLine(t) == NullSnapshot

\* The output callback is done, and the local shared_ptr of the snapshot ends.
EndLine(t) ==
  /\ pc[t] = "end"
  /\ pc' = [pc EXCEPT ![t] = "idle"]
  /\ held' = [held EXCEPT ![t] = HeldAfterLine(t)]
  /\ chosen' = [chosen EXCEPT ![t] = None]
  /\ awaited' = awaited \ {t}
  /\ alive' = alive \cap Referenced(records, snapshot, cacheGen, held',
                                    dropped \cup loading)
  /\ UNCHANGED <<disk, loaderVars, cacheVars, source, lines, mpc, changes>>

--------------------------------------------------------------------------------
(* The main thread.                                                        *)

\* dlopen, create_plugin and on_load of a file of load_directory. dlopen of a
\* path that is still open answers the library that is, not the file.
Open(p) ==
  LET mapped  == {q \in alive : opened[q].path = p}
      version == IF mapped = {} THEN disk[p]
                 ELSE opened[CHOOSE q \in mapped : TRUE].version
  IN  /\ mpc \in {"start", "load"}
      /\ p \in todo /\ loading = {}
      /\ opened' = Append(opened, [path |-> p, version |-> version])
      /\ loading' = {Len(opened) + 1}
      /\ alive' = alive \cup loading'
      /\ todo' = todo \ {p}
      /\ latest' = [latest EXCEPT ![p] = disk[p]]
      /\ UNCHANGED <<disk, records, snapshot, dropped, cacheVars, lineVars, mpc,
                     awaited, changes>>

\* The plugin gets its record, and a new snapshot with it.
Register(q) ==
  LET recs == Append(records, [plugin |-> q, path |-> opened[q].path, enabled |-> TRUE])
  IN  /\ q \in loading
      /\ loading' = {}
      /\ records' = recs
      /\ snapshot' = Rebuilt(recs)
      /\ alive' = alive \cap Referenced(records', snapshot', cacheGen, held, dropped)
      /\ UNCHANGED <<disk, opened, todo, dropped, latest, cacheVars, lineVars, mpc,
                     awaited, changes>>

\* The file does not open, has another ABI, or its on_load refuses: the record
\* only says so.
Reject(p) ==
  /\ mpc \in {"start", "load"}
  /\ p \in todo /\ loading = {}
  /\ todo' = todo \ {p}
  /\ records' = Append(records, [plugin |-> None, path |-> p, enabled |-> FALSE])
  /\ UNCHANGED <<disk, alive, opened, snapshot, loading, dropped, latest, cacheVars,
                 lineVars, mpc, awaited, changes>>

EndLoad ==
  /\ mpc \in {"start", "load"}
  /\ todo = {} /\ loading = {}
  /\ mpc' = "idle"
  /\ UNCHANGED <<disk, alive, loaderVars, cacheVars, lineVars, awaited, changes>>

ReloadPlugins ==
  /\ mpc = "idle"
  /\ changes < MaxChanges
  /\ changes' = changes + 1
  /\ awaited' = IF Async THEN {t \in Thread : pc[t] # "idle"} ELSE {}
  /\ mpc' = "flush"
  /\ UNCHANGED <<disk, alive, loaderVars, cacheVars, lineVars>>

\* The locked part of unload_all and unload_plugin: the records lose their
\* plugins, which live on in a local variable.
TakeOut(kept, next) ==
  /\ dropped' = PluginsOf(records) \ PluginsOf(kept)
  /\ records' = kept
  /\ snapshot' = Rebuilt(kept)
  /\ mpc' = next
  /\ alive' = alive \cap Referenced(records', snapshot', cacheGen, held, dropped')
  /\ UNCHANGED <<disk, opened, todo, loading, latest, cacheVars, lineVars>>

\* flush() has returned.
UnloadAll ==
  /\ mpc = "flush" /\ awaited = {}
  /\ TakeOut(<<>>, "drop")
  /\ UNCHANGED <<awaited, changes>>

UnloadPlugin(i) ==
  /\ mpc = "idle"
  /\ i \in DOMAIN records /\ records[i].plugin # None
  /\ changes < MaxChanges
  /\ changes' = changes + 1
  /\ TakeOut(RemoveAt(records, i), "dropOne")
  /\ UNCHANGED awaited

\* The local variable ends, outside the lock; a reload goes on to load.
Drop ==
  /\ mpc \in {"drop", "dropOne"}
  /\ dropped' = {}
  /\ todo' = IF mpc = "drop" THEN Path ELSE todo
  /\ mpc' = IF mpc = "drop" THEN "load" ELSE "idle"
  /\ alive' = alive \cap Referenced(records, snapshot, cacheGen, held, dropped')
  /\ UNCHANGED <<disk, opened, records, snapshot, loading, latest, cacheVars, lineVars,
                 awaited, changes>>

SetEnabled(i, enabled) ==
  LET recs == [records EXCEPT ![i].enabled = enabled]
  IN  /\ mpc = "idle"
      /\ i \in DOMAIN records /\ records[i].plugin # None
      /\ changes < MaxChanges
      /\ changes' = changes + 1
      /\ records' = recs
      /\ snapshot' = Rebuilt(recs)
      /\ alive' = alive \cap Referenced(records', snapshot', cacheGen, held, dropped)
      /\ UNCHANGED <<disk, opened, todo, loading, dropped, latest, cacheVars, lineVars,
                     mpc, awaited>>

\* Versions installed since the start.
Updates == FoldFunction(+, 0, disk) - Cardinality(Path)

\* A new version of a plugin is installed.
Install(p) ==
  /\ Updates < MaxUpdates
  /\ disk' = [disk EXCEPT ![p] = @ + 1]
  /\ UNCHANGED <<alive, loaderVars, cacheVars, lineVars, mpc, awaited, changes>>

--------------------------------------------------------------------------------
Processing(t) ==
  \/ \E s \in Source : TakeSnapshot(t, s)
  \/ PickCollector(t) \/ RunCollector(t) \/ RunAnalyzers(t) \/ RunAlerts(t)
  \/ EndLine(t)

Loading ==
  \/ \E p \in Path : Open(p) \/ Reject(p)
  \/ \E q \in loading : Register(q)
  \/ EndLoad

Managing ==
  \/ ReloadPlugins \/ UnloadAll \/ Drop
  \/ \E i \in DOMAIN records : UnloadPlugin(i) \/ \E b \in BOOLEAN : SetEnabled(i, b)

Next ==
  \/ \E t \in Thread : Processing(t)
  \/ Loading
  \/ Managing
  \/ \E p \in Path : Install(p)

Spec == Init /\ [][Next]_vars

--------------------------------------------------------------------------------
Snapshot == [gen : Nat, all : SUBSET Plugin, active : SUBSET Plugin]

TypeOK ==
  /\ disk \in [Path -> Nat]
  /\ opened \in Seq([path : Path, version : Nat])
  /\ alive \subseteq Plugin
  /\ records \in Seq([plugin : Plugin \cup {None}, path : Path, enabled : BOOLEAN])
  /\ snapshot \in Snapshot /\ cacheGen \in Snapshot
  /\ cache \in [Source -> Plugin \cup {None, Unknown}]
  /\ pc \in [Thread -> {"idle", "pick", "collect", "analyze", "alert", "end"}]
  /\ source \in [Thread -> Source]
  /\ held \in [Thread -> Snapshot]
  /\ chosen \in [Thread -> Plugin \cup {None}]
  /\ mpc \in {"start", "idle", "flush", "drop", "dropOne", "load"}
  /\ todo \subseteq Path
  /\ loading \subseteq Plugin /\ dropped \subseteq Plugin
  /\ awaited \subseteq Thread
  /\ lines \in 0 .. MaxLines /\ changes \in 0 .. MaxChanges
  /\ latest \in [Path -> Nat]

\* The plugins whose code thread t is about to call or is in.
Using(t) ==
  CASE pc[t] = "collect" -> {chosen[t]} \ {None}
    [] pc[t] = "analyze" -> InUse(t, Analyzers)
    [] pc[t] = "alert"   -> InUse(t, Alerts)
    [] OTHER             -> {}

\* No thread runs code of a plugin that was closed, whatever is reloaded,
\* unloaded or disabled meanwhile (plugin_loader.h, the comment on LoadedPlugin),
\* although collectors are called through a cache of bare pointers that threads
\* with different snapshots share.
NoUseAfterClose == \A t \in Thread : Using(t) \subseteq alive

\* A line is parsed by the collector that its own snapshot would choose: never
\* one that was disabled or replaced before the line began, nor one that came
\* after, although threads with older and newer snapshots take turns with the
\* cache.
ChoiceIsOwn ==
  \A t \in Thread :
    pc[t] = "collect" =>
      chosen[t] = BestCollector(opened, held[t].active, source[t])

\* Plugins do not leak: once no line is in flight and the cache belongs to the
\* current snapshot, the open plugins are exactly those the loader lists.
NothingLeaks ==
  /\ mpc = "idle"
  /\ \A t \in Thread : pc[t] = "idle"
  /\ cacheGen.gen \in {0, snapshot.gen}
  => alive = PluginsOf(records)

\* Plugins loaded by a reload run the code that was on disk when they were
\* loaded: lines that come after a reload are processed by the new plugins.
ReloadBringsNewCode ==
  mpc = "idle" =>
    \A q \in PluginsOf(records) : opened[q].version = latest[opened[q].path]
================================================================================
