# LogMind: verification development

TLA+ models of the LogMind daemon (`src/src/daemon`, `src/include/logmind`), of the
feed of its desktop client (`src/src/client`) and of the analyzer that keeps state
(`src/plugins/threshold_analyzer`), the TLC runs that check them on small instances,
and theorems that TLAPS proves for every instance. File names without a directory are
those of `src/src/daemon`, `src/src/client` and `src/plugins`.

## 1. The system

LogMind tails log files, turns lines into entries with plugins, raises alerts,
keeps the recent entries in memory for queries and stores embeddings. One
daemon process has these parts:

| part | state it keeps | operations | called by |
|---|---|---|---|
| FileWatcher (`file_watcher.cpp`) | per path: offset, inode, pending tail; inotify fd, watches | start, stop, inotify_loop, poll_loop, scan_directory, drain_file, flush_pending | its own thread; start/stop by DaemonCore |
| Pipeline, workers (`pipeline.cpp` 26-170) | m_async, one queue, flags, mutex, condition variable per worker | process_raw, start_workers, worker_loop, flush, stop_workers | watcher thread, worker threads, main thread |
| Pipeline, one line (`pipeline.cpp` 83-103, 172-286) | collector cache and the snapshot it belongs to, counters | process_raw_now, process_entries, pick_collector, run_analyzers | workers, or the watcher thread |
| Pipeline, alerts (`pipeline.cpp` 289-372) | rule, table of recent fingerprints, rate window | select_alerting, run_alerts, set_alert_rule | workers; main thread sets the rule |
| LogBuffer (`log_buffer.cpp`) | ring of entries, segments of the inverted index, ids, counters | push, search, query_by_time | output callback; D-Bus queries |
| PluginLoader (`plugin_loader.cpp`) | records, immutable snapshot of the enabled plugins | load, unload, set_enabled, snapshot, list | main thread, D-Bus, the pipeline |
| VectorStore (`vector_store.cpp`) | SQLite rows, HNSW index, maps between ids and log ids, tombstones | open, insert, insert_batch, search, remove, clear, rebuild, close | output callback, main thread |
| DaemonCore, main (`daemon_core.cpp`, `main.cpp`) | state machine, the parts above | start, stop, reload_plugins, reload_config; signals | main thread, signal handler, D-Bus |
| D-Bus adaptor (`dbus_service.cpp`) | none of its own | queries, plugin control, signals | the client |
| ConfigMgr, plugins | configuration; the sliding window of threshold_analyzer | load; analyze, match, send | DaemonCore, pipeline |
| Client (`src/client`) | connection, bounded list of rows, filter | connect, query, subscribe, reconnect | the user |

Interaction: `FileWatcher -> Pipeline.process_raw -> (queue, worker) ->
process_raw_now -> collectors, analyzers, alerts -> output callback ->
VectorStore.insert, LogBuffer.push -> D-Bus signal -> client`. The pipeline holds
its output mutex around the output callback; a plugin snapshot is taken once per
line; `reload_plugins` and `stop` go through `Pipeline::flush`.

### What is hard in it, and what correct means

* **LogBuffer.** Ids, ring and segments are advanced separately and only agree by
  arithmetic; the front segment keeps postings of entries that are gone. Correct:
  the ring is the last *Capacity* entries, the index neither misses nor invents an
  entry nor grows without bound, a query answers what a scan would.
* **Workers.** Three kinds of threads share one condition variable per worker;
  notify_one may wake the wrong one; m_async is read without a lock; flush and stop
  race with lines that keep coming. Correct: order per source, every line processed
  once or counted as dropped, flush and stop complete what was accepted, nobody
  sleeps for ever, the workers are not used after they are gone.
* **Alerts.** The clock is read before the mutex; the table overflows; the rate
  window is fixed. Correct: one alert per fingerprint and window, the rate limit,
  counters that account for every entry.
* **FileWatcher.** Files are written piece by piece and renamed, truncated and
  deleted meanwhile; events carry names and arrive late or overflow; stat and open
  are two calls. Correct: whole lines, in order, once, and none missed for good.
* **PluginLoader, one line.** A plugin's library is closed by whoever gives up the last
  reference: the loader, a snapshot a thread took for its line, the generation of the
  collector cache, which threads with different snapshots replace in turn. Correct: no
  call into a closed library, each line gets its own snapshot's collector, nothing stays
  open for good, a reload brings the new code.
* **VectorStore.** A SQLite table, a graph that never forgets a point and three maps are
  advanced one after the other, statements fail in between, the process may be killed in
  a batch. Correct: every point is known by one live log id, image and table agree, a
  load brings back what is stored, the oldest go first, the graph stays bounded and can
  be traversed, and a search answers what a scan would as long as it can.
* **One line.** Several threads run the chain of analyzers at once, each analyzer may
  filter or throw, entries are moved into the call that throws, the sliding window is fed
  with times that are not in order. Correct: nothing is lost without being counted, the
  window neither forgets a recent error nor grows without bound.
* **DaemonCore, main.** start, reload_plugins, stop and the destructor bring the same
  parts up and down; a signal handler calls them on top of whatever the main thread is
  doing, while the watcher and the workers bring lines. Correct: a line meets the parts it
  needs, the state shown is true, at the end everything is down and every accepted line has
  been put out, a stop comes to an end.
* **Client.** Subscription, the query for recent entries and the signals race with each
  other and with a daemon that dies and comes back; the list is bounded and its counters
  are not. Correct: no gap, no more copies than answers explain, a feed that gets going
  again, a list within its bound.

## 2. Modules

| module | models | how state and actions correspond to the code |
|---|---|---|
| `LogBuffer` | `LogBuffer::push` | one variable per member of the class; `Push` is the critical section, `Callback` the call after it; `history` and `announced` are history variables |
| `LogBufferSearch` | search, query_by_time | operators of the state, since a query holds the lock for its whole duration |
| `RecentLog` | (abstract) | what a query may answer, as a relation between log, query and answer, with no ring, ids or index |
| `WorkerPool` | process_raw, worker_loop, start/stop/flush, DaemonCore's calls | program counters `wpc`, `ppc`, `mpc` for the worker threads, the calls of process_raw and the main thread; one action per critical section |
| `LineChannel` | (abstract) | a lossy FIFO channel per source with an account of what it lost |
| `AlertRule` | select_alerting, run_alerts, set_alert_rule | an entry is its fingerprint, `Scan` the state the loop over a batch carries |
| `FileWatcher` | file_watcher.cpp for one path, the application, logrotate, inotify | `tracked, offset, inode, pending` are the record of the path; `Stat` and `Read` the two halves of drain_file |
| `PluginLifetime` | plugin_loader.cpp, process_raw_now with pick_collector, reload_plugins | `records`, `snapshot` are the loader's members, `cacheGen`, `cache` the pipeline's; `held` is the local shared_ptr of a line, `dropped` that of an unload; `alive` the plugins not yet closed |
| `VectorStore` | vector_store.cpp without the graph, SQLite as a table that may refuse a statement | `mem` holds the members of Impl, `rows` the table in the order of its key, `tx` what BEGIN would restore; insert_batch is `InsertBatch`, `InsertNext`, `EndBatch` |
| `Hnsw` | class HNSWIndex | `graph` holds its members; one action per public call that changes it; searches are operators, their loops recursive functions (`Each`, `Repeat`) with a lemma each |
| `DaemonLifecycle` | daemon_core.cpp, main.cpp, the life of the D-Bus adaptor | `stack` is the call stack of the main thread, on top of which a signal puts a call; `up` the parts that are up, `phase` where main() is; `lines` every line with what it met; the steps of start, reload and do_stop are in `StartOrder`, `ReloadOrder`, `StopOrder` |
| `ClientFeed` | dbus_client.cpp, main_window.cpp, log_model.cpp, the adaptor's QueryLogs and LogEntryReceived | `pc`, `connected`, `timer` are the client's connection, `hooks` the slots connected to the signal, `inbox` its event queue; `rows`, `total`, `errors` the members of the list; entries are numbered as they are pushed |
| `EntryPath` | the inside of process_raw_now, threshold_analyzer.cpp | `work[t]` are the locals of the call thread t is in; `history` is the window of one module |
| `*Proofs` | theorems about LogBuffer, WorkerPool, AlertRule and EntryPath (`PipelineProofs`), PluginLifetime, VectorStore and Hnsw (`VectorStoreProofs`), DaemonLifecycle, ClientFeed, FileWatcher | |
| `MC*` | instances for TLC | |

Mutants: operators whose comment begins with *Fault* are not part of a model. Each
is a wrong version of the definition that follows it, used to test that a property
notices.

### Abstractions

* A message is a model value with a set of words (`TokensOf`), a query one with a
  set of words and the messages that contain it; tokenizing and lower-casing are
  what these constants stand for.
* Processing one line (plugins, output) is one step of `WorkerPool`: its inside has
  locks of its own, none of which is held while a worker's mutex is.
* Every source of `WorkerPool` has its own thread; in the daemon the watcher thread
  feeds all of them, so the model has more interleavings of process_raw.
* `destroy` in `WorkerPool` stands for a pipeline that is destroyed or stopped
  without flush. There, StopDrains is checked of stop_workers alone.
* `FileWatcher` has one path. Reading in chunks of 64 KiB is one read to the end;
  the limit of a line is therefore applied once per drain, not once per chunk.
  Patterns and directories are those that match the path. A line is cells, the last
  with the newline.
* In `PluginLifetime` flush is what `FlushCompletesInFlight` says of it: it waits for the
  lines in flight when it was called. Loads, unloads and activations come from the main
  thread (D-Bus requests are served there, too); unload_plugin has no caller in the
  daemon but is part of the loader's interface. What a plugin makes of a line is left
  out: collectors and analyzers may end it. The vectors of a snapshot are sets, since
  records are in the order of the plugins' numbers.
* A vector of `VectorStore` has an identity and a dimension; `deleted` and `vec` are all it
  keeps of the index. Metadata, and rows that cannot be decoded, are left out. A failing
  statement changes nothing; config.persist is true. In `Hnsw` vectors have distances from
  a table, distances are compared and never computed, and the random level is a choice.
  A while loop of `Hnsw` that ends by itself is as many turns as there are points, of which
  those after its end change nothing: greedy_descend gets nearer with each, and search_layer
  takes a point that none has taken before. Distances are numbers: no embedding has a NaN.
* In `AlertRule` a failing alert plugin changes nothing the properties speak of; it is in
  `EntryPath`.
* `DaemonLifecycle` has a pool of one worker whose queue is never full (`WorkerPool` has
  the rest), and `plugins` for any enabled plugin. A call is cut into steps where it waits
  and where the step of another thread in between makes a difference: the stop of the
  watcher into the flag (`Halt`) and the join (`JoinWatcher`), stop_workers into the flag,
  the join and the clear, process_raw into the look at m_async (`Accept`) and the use of
  m_workers (`Post`). Signals arrive between steps, not inside one. A signal handler runs on
  the main thread and to its end; a handler on another thread, or one that interrupts the
  holder of a mutex that it needs, is left out: the outcome is a deadlock or worse whatever
  else the code does. A flush, or a line on its way to the queue, whose workers are gone
  ends the model (`crashed`).
  reload_config, which only stores the rule of `AlertRule` and pipeline flags, is left out.
* In `ClientFeed` the daemon is one process that may die; the bus delivers in order and
  loses nothing to a subscriber. The user's actions are the menu's reconnect and clear.
  The other requests of the client (dashboard, plugin panel, search) ask and show.
* `EntryPath` has one alert plugin, and each thread's snapshot has the same analyzers;
  the second analyzer returns any prefix of what it was given, or throws. Entries are of one
  module; the window of another module is another instance.

## 3. Runs

| run | instance | shows |
|---|---|---|
| `log_buffer` | capacity 3, segment span 2, 6 pushes, 3 messages, 2 times, 5 queries | ring, index, counters, announcements, and exact queries |
| `worker_pool` | 3 sources on 2 workers, two sharing a queue of 2, 2 lines each, 1 reload, stop with or without flush | safety of the pool under every interleaving, spurious wakeups included |
| `worker_pool_live` | 2 sources, a queue of 1 | stop and reload end; the pool implements `LineChannel` |
| `alert_rule` | 2 threads, 2 fingerprints, 3 batches of up to 2, limit 2, window 2, minute 3, 5 ticks, tables of 1 and 2, one change of rule | deduplication, rate limit, bounds and counters |
| `plugin_lifetime` | 2 threads, 2 plugins, 2 lines, 2 reloads, unloads or activations, 1 new version | no closed plugin is called, the cache is right, nothing leaks |
| `stale_code` | 1 line, 1 reload, 1 new version | **violation**, see findings |
| `file_watcher` | 3 lines (2, 4 and 2 pieces; limit 2), 2 rotations of any kind, an event queue of 2, inotify or polling | whole lines, in order, once, all of them |
| `vector_store` | 3 log ids, 2 vectors of one dimension and 1 of another, room for 5 points of which 2 live, 6 calls, batches of 2, 1 failing statement, crashes | image and table agree, trim keeps its bound and order, a load brings back what is stored |
| `hnsw` | 6 points at 2 places, 2 layers, M = 2 (4 links on layer 0), 1 tombstone | bounds of the graph, sound searches, exact ones until links are cut |
| `daemon_lifecycle` | with and without workers, signals at any time or only while main waits, 1 line of the watcher, 1 or 2 requests, 2 signals | lines meet what they need, the state is true, nothing is left at exit but the line of a watcher that a second stop did not wait for, stop and requests end |
| `client_feed` | buffer of 3, answers of 2, list of 3, 5 entries, the daemon killed once, 2 actions of the user | no gap, no unexplained copies, a bounded list, a feed that gets going |
| `entry_path` | 2 threads, 3 lines of up to 2 entries, window 1, a clock of 0 to 2 that may go back, 2 exceptions, chains of 1 and 2 analyzers | losses are counted, the window is bounded |

Why the bounds are enough. In `log_buffer` the ring wraps three times and a segment
dies while its successor is partly stale: the two periods (3 and 2) are coprime, so
ring and segments are met in every relative position. In `worker_pool` a shared and
an unshared queue, full queues (three lines for two places), a flush that waits with
a producer running, and both ways to stop all occur. In `alert_rule` three batches
are the least in which one thread purges what another needs; five ticks hold two
rate windows. In `plugin_lifetime` two changes are a reload with an
unload or a (de)activation before or after it, so that two threads hold different
snapshots and a third belongs to the cache; the theorems have no such bounds.
In `vector_store` six calls are an open, enough insertions to replace and trim and
fill, and a crash or rebuild with what follows; one failing statement is enough for a
memory ahead of or behind the table. In `hnsw` the lists of layer 1 are cut from the
fourth point on, those of layer 0 with the sixth.
In `file_watcher` three lines and two rotations allow a line before,
between and after two rotations, and two events fill the queue so that it overflows.
In `daemon_lifecycle` two signals are the least that nest (a stop in a reload, a reload
in a stop) and the most that matter to one call: a handler is not entered while another
of the same signal runs. With a line of the watcher and one request a line can be in the
queue, in hand, on its way to the queue or on the main thread while either runs, and the
watcher can be overtaken by a second stop; that more lines of the watcher do not lose more
than one is for the theorem. Where signals only come while main
waits, two requests let one wait behind another.
In `client_feed` five entries overrun the buffer, the answer and the list, before and after
the one restart; two clicks reconnect twice, so that three answers are possible.
In `entry_path` two threads suffice for entries to reach the window out of the order they
were read in, as does a clock that is set back; two exceptions may hit two lines or two
stages of one, and with a window of 1 a clock of three values has times inside, on and
outside its border.

Preconditions. `file_watcher` assumes `QuietRotation` (rotations happen while the
watcher has caught up and the application does not write to a file that was rotated
away) and `QuietStart` (no write between the first scan and the watch, and not in
the middle of a line at the scan). These are the conditions under which the code
keeps its promises; the findings say what happens without them.

The exact part of `SearchIsRight` is limited to graphs of which no list on layer 0 has
been cut (`NothingCut`: at most 2M + 1 points) and to pools as large as the index: an
HNSW promises no more (docs/项目总结与面试准备.md:744). With M = 2 and a sixth point
equal to five others, the sixth is never found: its neighbours have nearer links
(smaller ids) and cut the one to it. With M = 16 the same takes 34 equal embeddings.

`OneDim` in `LoadAgrees`: if the dimension is not configured and a load is cut short before
its first row, the next vector may decide another one; the table then holds rows of two
dimensions, of which each load skips some.

Fairness. `FairSpec` of `WorkerPool` is weak fairness of each thread (a thread that
can run, runs) and nothing else: no line has to arrive, no reload or stop to be asked
for, no spurious wakeup to happen. Weak fairness per thread suffices because every
mutex is held for one action only. `CallsReturn` is true because sources send
finitely many lines (`MaxLines`): flush waits for a moment at which a worker is idle,
and the code lets an endless stream postpone that moment. `FairSpec` of `FileWatcher`
is weak fairness of the watcher thread, that of `DaemonLifecycle` of the main thread, the
worker and the watcher's processing of a line it has (neither lines nor signals nor
requests need come). `FairSpec` of `ClientFeed` is weak fairness of the client's event
loop, of its timer, and of the daemon's event loop while it is up; nobody has to start the
daemon, click or push an entry, and `FeedRuns` speaks of a daemon that stays up.

## 4. Findings

*stale_code* (`daemon_core.cpp:110`). The collector cache keeps the snapshot of the
last line, so unload_all closes none of its plugins; dlopen of the same path then
answers the library that is still mapped. Once a line has been processed, a reload
runs the old code, whatever the files hold.

Differences that the models have and no run is devoted to:

* *Alerts.* A thread with an earlier time that gets the mutex after a thread with a later
  one can find its fingerprint purged (`pipeline.cpp:290`) and alert again inside the
  window. `OneAlertUnlessOvertaken` states what does hold.
* *File watcher.* The unread end of a renamed file is lost (`file_watcher.cpp:317`). Without
  `QuietRotation` `InOrderOnce` fails, too: a MODIFY of the old file handled after the
  rename reads the new file, and its CREATE resets the offset (321), so lines come twice; a
  truncated file that has grown past the old offset is not recognised (160). Without
  `QuietStart` `DueLinesDelivered` fails: a line written between the first scan and the
  watch (201) waits for the next write. README.md:54 says that only whole lines are
  submitted; a line over kMaxLineBytes comes in pieces (allowed for by `OnlyWholeLines`),
  and a scan in the middle of a line makes the rest of it a line (excluded by `QuietStart`).
* *Vector store.* Trimmed entries stay as tombstones and count for max_elements
  (`vector_store.cpp:495`), so a store that trims refuses every vector once that many were
  inserted. With an `EfSearch` smaller than the number of tombstones near a query,
  `SearchKnn` answers fewer live points than there are (98), although the comment above it
  wants the pool larger than k for the tombstones' sake.
* *Daemon.* A SIGTERM during start() is lost for main: quit() comes before exec(), so the
  process goes on, stopped or, where start() then brings the rest up, "RUNNING" with some
  parts down. A SIGTERM while a reload waits in flush destroys the workers under that flush
  (`crashed`). A second stop signal that arrives while the first stop waits for the watcher
  does not wait: `FileWatcher::stop` returns at once to whoever finds m_running false
  (`file_watcher.cpp:235`), and that stop goes on to flush, stop_workers and
  m_workers.clear(), although new data has not stopped coming in as the comment at
  `daemon_core.cpp:293` wants. The watcher may meanwhile be between its look at m_async and
  the queue (`pipeline.cpp:64`, 76): its line is queued for a worker that has ended and is
  neither put out nor counted, or it uses the cleared vector (`crashed`). `NothingLeftAtExit`
  allows that one line, in that case only, and nothing else. g_daemon still points to the daemon when a start that failed destroys it
  (`main.cpp:78`). do_stop leaves the object on the bus if there is no adaptor any more
  (QObject's destructor takes it off). A daemon whose reload failed says FAILED and goes on.
  Without workers flush waits for nothing, so the comment at `daemon_core.cpp:107` holds
  only with them. These are why `LinesAreServed` and `StatusIsTrue` have `~ anytime`.
* *Client.* onDisconnected (`dbus_client.cpp:211`) has no caller, so the client never learns
  that the daemon is gone; the feed goes on only because the bus name is what it subscribed
  to. The menu's reconnect while the daemon is down leaves m_connected true, so the timer it
  starts stops at its first tick. clear() does not emit errorCountChanged. An answer comes
  newest first while rows are removed at the front, so that of an answer that is too long
  the newest entries go first.

## 5. Proofs

The theorems hold for every value of the constants, under the named assumptions on
them (capacity a natural number, span, workers and queue capacity positive, `Shard` a
function to workers, `TokensOf` a function to sets of words, timestamps that are integers,
the empty query in every message, finitely many threads of `AlertRule`, vectors with a
positive dimension, no empty log id, distances that are natural numbers, two links per point or
more and EfConstruction no less, every line with a part and a positive line limit and
queue length for `FileWatcher`, a positive `MaxClock` for `EntryPath`, whose clock begins at 1).
Those of `FileWatcher` also assume `QuietRotation` and `QuietStart`, as its run does: section 4 says how each fails
without.

* `LogBufferProofs`. `RingInvariant` joins ring, ids and counters: an entry's id is
  its place in the whole history, which alone is not inductive without
  `oldestId + Len(items) = nextId`. `BufferInvariant` adds the segments: each has at
  most `SegmentSpan` ids, they are adjacent, and the front one reaches the oldest
  live id. That the span bound is part of it is what makes `IndexBounded` follow.
  `DeadSegmentsEnd` (eviction ends, and stops before the last segment) needs the
  least-element principle of the natural numbers. `IndexSound` joins the three theorems
  about the index. `QueriesExact` rests on `BufferInvariant`: the loop of a query keeps
  `Listed` (what has been met and is wanted is listed in the order of the walk, or the
  answer is full of what came before), one id at a time (`ListedGrows`), one walk at a time
  (`TakeLists`) and, through the index, one segment at a time (`IndexLists`). There the
  adjacency of the segments says that a segment comes after all met before it, the postings
  that it posts the right ids, and the reach of the front segment that nothing live is left
  out; that a dead posting does not count towards the limit is part of `Listed`.
* `WorkerPoolProofs`. The invariant has layers: `Shape` (types; a call has its line, a
  job matches its worker's place), `Stage` (which places of the main thread allow
  which places of the others), `Wake` (who sleeps on what), `FlushProgress` (what was
  in flight when flush began is processed or behind the loop's cursor) and `Accounted`
  (every line handed over is somewhere). `NoLostWakeup` alone is not inductive: it
  needs `Stage` to know who may still have a notify to do. `LinesInOrderOnce` needs the lines on
  their way: `LineOrder` says that they wait with the worker of their source, oldest first,
  behind what was delivered, and `LinePlace` that the line of a call is the youngest of its
  source and what was dropped is nowhere else. `PoolIsChannels` is the refinement: the lines
  pending in the channels are those queued, in a worker's hand or processed by their caller;
  `Post`, and `ProcessRaw` without workers, accept a line, `Drop` refuses one, `Run` and
  `ProcessInline` deliver the oldest of their source, and every other action leaves the
  channels alone.
* `PipelineProofs`, of `AlertRule`. The loop over a batch is a recursive function; `TurnByTurn` unfolds it
  and `Climbing` (what begins at 0 and goes on from each number to the next) takes the place
  of induction, which the prover does not have: `Scanned` is the invariant of the loop. One
  critical section then `Serves` its batch, and four inductive invariants rest on what that
  says. `TableInv`: the table is within its bound and knows only alerts that were raised.
  `MemoryInv`: the last alert of a fingerprint is in the table, or a purge by a thread with a
  later time took it, which is what `OneAlertUnlessOvertaken` excuses. `RateInv`: every rate
  window begins a minute after the one before, and holds no more than the limit of its rule.
  `CountInv`: each urgent entry is alerted, with a thread, or suppressed.
* `PipelineProofs`, of `EntryPath`. `PathInv` has three parts. `WorkInv`: threads
  hold lines of their own, of which nothing was put out, and something is left of a line that
  has passed the chain. `LossInv`: the account is not of the lines that are finished but of
  those that are `Doomed`, which an exception may make of a line whose chain goes on with
  nothing in hand; that is why `EveryLossIsCounted` is not inductive. `WindowIs`: the window is
  the end of the arrivals, it begins with a time not too old for the last one, and every time
  that has left was followed by one more than Window later. `SlideKeepsWindow` is the one place
  where times are compared; `WindowIsBounded` turns it into the two bounds, where the first
  times of the window stand for how far the times are out of order. The loop over a batch
  and the sum over lines are recursive functions, unfolded by `LoopEnds` (every loop has a
  last turn) and `Climbing`.
* `VectorStoreProofs`. First `Picked`, which stands for what a SELECT or DELETE leaves (its
  order, its length, what picking twice is). Then what tombstone, insert, trim and load do to
  an image that is `Sound` (the three maps agree, the cursor has only tombstones behind it).
  `StoreInv` (a sound image, no two rows of one log id, a transaction only within a batch) is
  kept by every call whatever statement fails: of it are `MapsAgree` and `OldestGoFirst`.
  `OldestGoFirst` is not inductive without `Bounded`: trim looks for one victim too many at
  most. `ImageInv` is the rest of `ImageOfTable`: what BEGIN would restore is small enough
  and of the image's dimension, else the load after a crash would not bring it all back.
  `Holds` is the invariant of the loop of load_all, from which `LoadAgrees` follows whatever
  failed before.
* `VectorStoreProofs`, of `Hnsw`. `RankNumbers` (how many candidates are nearer is a different
  number for each, so the ranking names each once) stands under everything that sorts. Each
  loop has a lemma (`PassIn`, `VisitsIn`, `TurnsIn`, `AddsIn`, ...): what turn n leaves lies in
  a set D[n] if each turn leads from D[n - 1] to D[n]. A traversal that starts in a set of
  points whose links stay in it ends in it (`LinksStay`): with the points of a layer for the
  set, links stay in range. `IndexInv` is the shape of the graph, its lists (`GoodList`), its
  entry and `Joined`: until lists are cut, the only nonempty set of points that no link of
  layer 0 leaves is that of all points. `Joined` survives an insertion because a list with
  room keeps what it has and the new point is linked with another in both directions: the loop
  over neighbours keeps `Backed`, each layer gives `LinkedOn`, the loop over layers keeps
  `AddStates`. That is where
  `SearchesAreRight` comes from: with room for all, a visit drops nothing (`VisitAdmits`), each
  turn follows the links of one point more (`TurnFollows`), so after as many turns as points
  none is left to visit, no link leaves what was visited, and that is all there is.
  `SearchIsRight` asks for up to three neighbours; the lemmas `AnswerIsSound` and
  `AnswerIsExact` under it hold for any number.
* `PluginLifetimeProofs`. `Sharing`: a snapshot's number identifies it and the current one
  is the latest, a snapshot keeps what it uses. `Counted`: the open plugins are exactly the
  referenced ones. `Cached`: an entry of the cache is what the snapshot it belongs to would
  choose. `NoUseAfterClose` is not inductive: that a cached pointer is good follows from
  all three, since equal generations are equal snapshots.

* `DaemonLifecycleProofs`. `DaemonInv` is the type invariant, `Sound` and the theorem itself.
  `Stacked`: only a signal puts a call on another, and the bottom one belongs to the phase.
  `Pooled`: with m_async there are workers and nobody is joining them; workers outlive
  m_async only while a call joins or clears them; once they are gone or joined (`Retired`)
  no line is in their hands. `Watched` says the same of the watcher's flag and its thread,
  and that it has one line in hand at most. `Orderly`: as long as no stop has gone past one
  that waits for the watcher (`overtaken`), every stop on the stack is still at the watcher
  while its thread runs. `Strayed` counts the lines that may find no worker any more, those
  on the way from the watcher to the queue and those queued behind a worker that has ended:
  there is one at most, and only after an overtaking. `Injected` and `Registered` are about
  the line of an InjectLog and the bus. `Descending` says what the destructor has taken down
  at each of its steps, whatever calls of signal handlers run on top of it: these can bring
  nothing up but plugins, which ~PluginLoader unloads. `NothingLeftAtExit` is not inductive:
  it is what `Strayed` and `Descending` say at the destructor's last step.
  The second part is about service. `CallbackFirst` holds whenever signals come: the output callback is
  there before a line can be. `ServiceInv` adds what needs signals that wait for main:
  `Quiet` (no call on top of another one, so that no stop overtakes), `Rising` and `Falling` (what each
  step of start and stop has brought up or taken down), `Serving` (a waiting daemon on the bus
  has all of it), `StoreStays` and `PluginsStay` (what a safe line may still meet).
* `FileWatcherProofs`. `WatcherInv` has four layers. `Shape`: types, which inodes exist, what
  the kernel's queue can hold (a removal only as its first event, a creation only first or
  behind one) and where the watcher can be meanwhile. `Written`: a file's text is made cell by
  cell (`WellWritten`), so any stretch of it without a newline is of one line (`RunInLine`)
  and one from a cut to a newline is a line (`WholeRun`). `Sync`: either the record is `Stale`
  (of a file that left the path, or of the time before a truncation) and nothing of the file
  at the path was given, or it is `InStep`: the pending text is what lies between the last cut
  and the offset, and nothing behind the cut was given. Then the properties themselves, of
  which none is inductive without `Sync`: a record that is stale must be thrown away before it
  is read with. `ReadEffect` says what a read hands over, keeps and marks, and is the one
  place where the definitions of `Read` are unfolded.
* `ClientFeedProofs`. `Linked` ties the connection's program counter to what it holds (a slot
  is there before an answer is asked for, an answer is held only until it is shown, a dead
  daemon has nothing left to announce). With it each action keeps `NothingMissed`: an entry
  goes from the announcement to the inbox, from inbox or answer to the rows, and from the rows
  only to `gone`. `CopiedInv` counts the copies of an entry wherever it can be (still to be
  announced, inbox, answer, rows) against the answers asked for. `ListIsSound` needs counting
  lemmas for sequences that grow at the back and shrink at the front.

Only model-checked: liveness (fairness and ENABLED are beyond the prover), that is
`CallsReturn`, `DueLinesDelivered`, `RequestsEnd`, `FeedRuns`, and the liveness half of
`ImplementsChannel`. Every invariant of a passing run is proved. Induction over data is
beyond the prover, too: in place of it, recursive functions are unfolded by `Climbing` and by
the generic loop `LoopEnds` of `LogBufferProofs`, `PipelineProofs` and `VectorStoreProofs`.

## 6. Plan

What is left, most important first:

1. `VectorStore`: an abstract specification (a map from log ids to vectors that keeps the
   newest and survives crashes), implemented as long as no statement fails.
2. `DaemonLifecycle`: reload_config, composed with the rule of `AlertRule`.

## 7. Not modelled

ConfigMgr and the text plugins (parsing and formatting without a protocol), the client's
filter and its widgets (layout), the conversions of the D-Bus adaptor, the test programs.
