------------------------------- MODULE WorkerPool ------------------------------
(***************************************************************************)
(* The asynchronous mode of the pipeline (src/daemon/pipeline.cpp):        *)
(* process_raw() files a line into the bounded queue of the worker its     *)
(* source hashes to, each worker thread takes lines off its own queue, and *)
(* the main thread flushes and stops the pool. A worker's mutex, condition *)
(* variable, queue and flags make one struct, and each action below is one *)
(* critical section of that mutex or one step outside it.                  *)
(*                                                                         *)
(* The condition variable is shared by the worker, which sleeps until      *)
(* there is work, and the main thread, which sleeps in flush() until there *)
(* is none: a notify_one() meant for the first may wake the second.        *)
(*                                                                         *)
(* Sources are fed by the watcher thread: in the daemon it is started      *)
(* after the workers and joined before they are stopped (daemon_core.cpp). *)
(* Here every source has a thread of its own, which allows more            *)
(* interleavings of process_raw() than the daemon has.                     *)
(***************************************************************************)
EXTENDS Integers, Sequences, FiniteSets

CONSTANTS
  Source,         \* source names (files)
  NumWorkers,     \* thread_count given to start_workers
  QueueCapacity,  \* m_queue_capacity
  Shard,          \* Shard[s]: hash of s modulo the number of workers
  MaxLines,       \* bound: lines per source
  MaxFlushes      \* bound: reloads

Worker == 1 .. NumWorkers
Line == [src : Source, num : 1 .. MaxLines]

ASSUME WorkersAssumption  == NumWorkers \in Nat \ {0}
ASSUME CapacityAssumption == QueueCapacity \in Nat \ {0}
ASSUME ShardAssumption    == Shard \in [Source -> Worker]
ASSUME BoundsAssumption   == MaxLines \in Nat /\ MaxFlushes \in Nat

VARIABLES
  async,      \* m_async
  started,    \* m_workers is not empty
  watching,   \* the watcher thread may call process_raw
  queue,      \* queue[w]
  busy,       \* busy[w]
  stopping,   \* stopping[w]
  wpc,        \* where worker thread w is
  job,        \* the line w works on: an empty sequence or one of length one
  ppc,        \* where the call of process_raw for source s is
  sent,       \* sent[s]: lines of s handed to process_raw so far
  delivered,  \* delivered[s]: numbers of the lines of s processed, in order
  dropped,    \* the lines counted in m_stats.total_dropped
  mpc,        \* where the main thread is
  cursor,     \* the worker its current loop is at
  goal,       \* what the flush or the stop is for
  mark,       \* lines in flight when the flush was called (history variable)
  flushes     \* reloads so far

poolVars == <<async, started, queue, busy, stopping, wpc, job>>
lineVars == <<sent, delivered, dropped, ppc>>
mainVars == <<mpc, cursor, goal, mark, flushes, watching>>
vars == <<poolVars, lineVars, mainVars>>

--------------------------------------------------------------------------------
\* The line of s that process_raw was last called with.
Current(s) == [src |-> s, num |-> sent[s]]

\* std::hash of the source name modulo the pool size.
\* Fault: lines are dealt out round robin.
ShardByLine(line) == ((Shard[line.src] + line.num) % NumWorkers) + 1

ShardOf(line) == Shard[line.src]

\* process_raw files a line while there is room in the queue.
HasRoom(w) == Len(queue[w]) < QueueCapacity

\* A line that finds its queue full is counted.
CountDropped(line) == dropped \cup {line}

\* Fault: flush waits for the queue only, not for the line in the worker's hand.
FlushSeesEmpty(w) == queue[w] = <<>> \/ stopping[w]

\* The predicates of the two condition variable waits.
HasWork(w) == queue[w] # <<>> \/ stopping[w]
FlushMayPass(w) == (queue[w] = <<>> /\ ~ busy[w]) \/ stopping[w]

\* Fault: a worker leaves as soon as it is asked to.
ExitAtOnce(w) == stopping[w]

\* A worker leaves its loop only with nothing left to do.
MayExit(w) == queue[w] = <<>> /\ stopping[w]

\* Threads asleep on the condition variable of w; 0 stands for the main thread.
Sleepers(w) == (IF wpc[w] = "asleep" THEN {w} ELSE {})
               \cup (IF mpc = "flushAsleep" /\ cursor = w THEN {0} ELSE {})

\* A thread that is notified goes back to test its predicate.
Awake(w, T) ==
  /\ wpc' = [wpc EXCEPT ![w] = IF w \in T THEN "check" ELSE @]
  /\ mpc' = IF 0 \in T THEN "flush" ELSE mpc

\* Fault: a line is filed and nobody is notified.
NotifyNone(w) == Awake(w, {})

NotifyOne(w) == IF Sleepers(w) = {} THEN Awake(w, {})
                ELSE \E t \in Sleepers(w) : Awake(w, {t})

Elements(s) == {s[i] : i \in 1 .. Len(s)}

Queued    == UNION {Elements(queue[w]) : w \in Worker}
InHand    == UNION {Elements(job[w]) : w \in Worker}
InCall    == {Current(s) : s \in {r \in Source : ppc[r] # "idle"}}
Delivered == {l \in Line : l.num \in Elements(delivered[l.src])}

--------------------------------------------------------------------------------
Init ==
  /\ async = FALSE
  /\ started = FALSE
  /\ watching = FALSE
  /\ queue = [w \in Worker |-> <<>>]
  /\ busy = [w \in Worker |-> FALSE]
  /\ stopping = [w \in Worker |-> FALSE]
  /\ wpc = [w \in Worker |-> "none"]
  /\ job = [w \in Worker |-> <<>>]
  /\ ppc = [s \in Source |-> "idle"]
  /\ sent = [s \in Source |-> 0]
  /\ delivered = [s \in Source |-> <<>>]
  /\ dropped = {}
  /\ mpc = "init"
  /\ cursor = 1
  /\ goal = "none"
  /\ mark = {}
  /\ flushes = 0

--------------------------------------------------------------------------------
(* process_raw, on the thread that feeds s.                                *)

\* A line arrives, and m_async is read without any lock.
ProcessRaw(s) ==
  /\ watching
  /\ ppc[s] = "idle"
  /\ sent[s] < MaxLines
  /\ sent' = [sent EXCEPT ![s] = @ + 1]
  /\ ppc' = [ppc EXCEPT ![s] = IF async THEN "post" ELSE "inline"]
  /\ UNCHANGED <<poolVars, mainVars, delivered, dropped>>

\* The queue of the shard has room: the line is filed and one sleeper notified,
\* still under the mutex.
Post(s) ==
  LET w == ShardOf(Current(s))
  IN  /\ ppc[s] = "post"
      /\ HasRoom(w)
      /\ queue' = [queue EXCEPT ![w] = Append(@, Current(s))]
      /\ NotifyOne(w)
      /\ ppc' = [ppc EXCEPT ![s] = "idle"]
      /\ UNCHANGED <<async, started, busy, stopping, job, sent, delivered, dropped,
                     cursor, goal, mark, flushes, watching>>

\* The queue is full: the line is dropped and counted.
Drop(s) ==
  /\ ppc[s] = "post"
  /\ ~ HasRoom(ShardOf(Current(s)))
  /\ dropped' = CountDropped(Current(s))
  /\ ppc' = [ppc EXCEPT ![s] = "idle"]
  /\ UNCHANGED <<poolVars, mainVars, sent, delivered>>

\* Without workers the line is processed by the calling thread.
ProcessInline(s) ==
  /\ ppc[s] = "inline"
  /\ delivered' = [delivered EXCEPT ![s] = Append(@, sent[s])]
  /\ ppc' = [ppc EXCEPT ![s] = "idle"]
  /\ UNCHANGED <<poolVars, mainVars, sent, dropped>>

--------------------------------------------------------------------------------
(* worker_loop.                                                            *)

\* The wait is over and there is a line: take it, still under the mutex.
Take(w) ==
  /\ wpc[w] = "check"
  /\ queue[w] # <<>>
  /\ job' = [job EXCEPT ![w] = <<Head(queue[w])>>]
  /\ queue' = [queue EXCEPT ![w] = Tail(@)]
  /\ busy' = [busy EXCEPT ![w] = TRUE]
  /\ wpc' = [wpc EXCEPT ![w] = "run"]
  /\ UNCHANGED <<async, started, stopping, lineVars, mainVars>>

Sleep(w) ==
  /\ wpc[w] = "check"
  /\ ~ HasWork(w)
  /\ wpc' = [wpc EXCEPT ![w] = "asleep"]
  /\ UNCHANGED <<async, started, queue, busy, stopping, job, lineVars, mainVars>>

Exit(w) ==
  /\ wpc[w] = "check"
  /\ MayExit(w)
  /\ wpc' = [wpc EXCEPT ![w] = "exited"]
  /\ UNCHANGED <<async, started, queue, busy, stopping, job, lineVars, mainVars>>

\* process_raw_now, outside the mutex.
Run(w) ==
  /\ wpc[w] = "run"
  /\ LET line == Head(job[w])
     IN  delivered' = [delivered EXCEPT ![line.src] = Append(@, line.num)]
  /\ job' = [job EXCEPT ![w] = <<>>]
  /\ wpc' = [wpc EXCEPT ![w] = "finish"]
  /\ UNCHANGED <<async, started, queue, busy, stopping, sent, dropped, ppc, mainVars>>

Finish(w) ==
  /\ wpc[w] = "finish"
  /\ busy' = [busy EXCEPT ![w] = FALSE]
  /\ wpc' = [wpc EXCEPT ![w] = "notify"]
  /\ UNCHANGED <<async, started, queue, stopping, job, lineVars, mainVars>>

\* notify_all, after the mutex is released: of the two threads that may sleep
\* here only the main thread can, since w itself is awake.
NotifyFlusher(w) ==
  /\ wpc[w] = "notify"
  /\ wpc' = [wpc EXCEPT ![w] = "check"]
  /\ mpc' = IF 0 \in Sleepers(w) THEN "flush" ELSE mpc
  /\ UNCHANGED <<async, started, queue, busy, stopping, job, lineVars,
                 cursor, goal, mark, flushes, watching>>

\* A condition variable may wake a thread that nobody notified.
SpuriousWakeup(w) == \E t \in Sleepers(w) :
  /\ Awake(w, {t})
  /\ UNCHANGED <<async, started, queue, busy, stopping, job, lineVars,
                 cursor, goal, mark, flushes, watching>>

--------------------------------------------------------------------------------
(* The main thread: DaemonCore::start, reload_plugins, do_stop and the     *)
(* calls of Pipeline they make, and Pipeline::~Pipeline.                   *)

\* start_workers: the threads exist before anything can call process_raw.
StartWorkers ==
  /\ mpc = "init"
  /\ async' = TRUE
  /\ started' = TRUE
  /\ wpc' = [w \in Worker |-> "check"]
  /\ mpc' = "ready"
  /\ UNCHANGED <<queue, busy, stopping, job, lineVars, cursor, goal, mark, flushes,
                 watching>>

\* worker_threads is at most 1: the pipeline stays synchronous.
StaySynchronous ==
  /\ mpc = "init"
  /\ mpc' = "ready"
  /\ UNCHANGED <<poolVars, lineVars, cursor, goal, mark, flushes, watching>>

StartWatcher ==
  /\ mpc = "ready"
  /\ watching' = TRUE
  /\ mpc' = "idle"
  /\ UNCHANGED <<poolVars, lineVars, cursor, goal, mark, flushes>>

\* flush() starts. With no workers its loop is empty and it returns at once.
BeginFlush(why) ==
  /\ goal' = why
  /\ mark' = Queued \cup InHand
  /\ cursor' = 1
  /\ mpc' = IF started THEN "flush" ELSE "flushed"

ReloadPlugins ==
  /\ mpc = "idle"
  /\ flushes < MaxFlushes
  /\ flushes' = flushes + 1
  /\ BeginFlush("reload")
  /\ UNCHANGED <<poolVars, lineVars, watching>>

\* One turn of the loop of flush(): the predicate is tested under the mutex.
FlushPass ==
  /\ mpc = "flush"
  /\ FlushMayPass(cursor)
  /\ cursor' = cursor + 1
  /\ mpc' = IF cursor = NumWorkers THEN "flushed" ELSE "flush"
  /\ UNCHANGED <<poolVars, lineVars, goal, mark, flushes, watching>>

FlushSleep ==
  /\ mpc = "flush"
  /\ ~ FlushMayPass(cursor)
  /\ mpc' = "flushAsleep"
  /\ UNCHANGED <<poolVars, lineVars, cursor, goal, mark, flushes, watching>>

\* The plugins are swapped, and the main thread is back in its event loop.
EndReload ==
  /\ mpc = "flushed"
  /\ goal = "reload"
  /\ mpc' = "idle"
  /\ UNCHANGED <<poolVars, lineVars, cursor, goal, mark, flushes, watching>>

\* do_stop asks the watcher to end. why = "destroy" stands for a pipeline that
\* is destroyed, or stopped, without flush(): stop_workers alone must drain it.
StopWatcher(why) ==
  /\ mpc \in {"idle", "stopped"}
  /\ watching' = FALSE
  /\ goal' = why
  /\ mpc' = "joinWatcher"
  /\ UNCHANGED <<poolVars, lineVars, cursor, mark, flushes>>

\* Fault: the watcher thread is not joined.
WatcherDetached == TRUE

\* No call of process_raw is left running once the watcher is joined.
WatcherJoined == \A s \in Source : ppc[s] = "idle"

JoinWatcher ==
  /\ mpc = "joinWatcher"
  /\ WatcherJoined
  /\ IF goal = "stop" THEN BeginFlush("stop")
     ELSE mpc' = "flushed" /\ UNCHANGED <<goal, mark, cursor>>
  /\ UNCHANGED <<poolVars, lineVars, flushes, watching>>

\* stop_workers exchanges m_async, and returns if it was already FALSE.
StopWorkers ==
  /\ mpc = "flushed"
  /\ goal \in {"stop", "destroy"}
  /\ async' = FALSE
  /\ cursor' = 1
  /\ mpc' = IF async THEN "stopping" ELSE "stopped"
  /\ UNCHANGED <<started, queue, busy, stopping, wpc, job, lineVars, goal, mark,
                 flushes, watching>>

MarkStopping ==
  /\ mpc = "stopping"
  /\ stopping' = [stopping EXCEPT ![cursor] = TRUE]
  /\ mpc' = "notifyStop"
  /\ UNCHANGED <<async, started, queue, busy, wpc, job, lineVars, cursor, goal, mark,
                 flushes, watching>>

NotifyStopping ==
  /\ mpc = "notifyStop"
  /\ wpc' = [wpc EXCEPT ![cursor] = IF @ = "asleep" THEN "check" ELSE @]
  /\ cursor' = cursor + 1
  /\ mpc' = IF cursor = NumWorkers THEN "joinWorkers" ELSE "stopping"
  /\ UNCHANGED <<async, started, queue, busy, stopping, job, lineVars, goal, mark,
                 flushes, watching>>

\* Every thread is joined, then m_workers is cleared.
JoinWorkers ==
  /\ mpc = "joinWorkers"
  /\ \A w \in Worker : wpc[w] = "exited"
  /\ started' = FALSE
  /\ mpc' = "stopped"
  /\ UNCHANGED <<async, queue, busy, stopping, wpc, job, lineVars, cursor, goal, mark,
                 flushes, watching>>

--------------------------------------------------------------------------------
Producing(s) == Post(s) \/ Drop(s) \/ ProcessInline(s)

Working(w) == \/ Take(w) \/ Sleep(w) \/ Exit(w)
              \/ Run(w) \/ Finish(w) \/ NotifyFlusher(w)

\* What the main thread does once a flush or a stop has begun.
Controlling ==
  \/ StartWorkers \/ StaySynchronous \/ StartWatcher
  \/ FlushPass \/ FlushSleep \/ EndReload
  \/ JoinWatcher \/ StopWorkers \/ MarkStopping \/ NotifyStopping \/ JoinWorkers

Stop == \E why \in {"stop", "destroy"} : StopWatcher(why)

Next ==
  \/ \E s \in Source : ProcessRaw(s) \/ Producing(s)
  \/ \E w \in Worker : Working(w) \/ SpuriousWakeup(w)
  \/ Controlling
  \/ ReloadPlugins
  \/ Stop

Spec == Init /\ [][Next]_vars

\* Every thread that can run is run. Nothing makes a line arrive, a reload or a
\* stop be asked for, or a condition variable wake a thread by itself.
Fairness ==
  /\ \A s \in Source : WF_vars(Producing(s))
  /\ \A w \in Worker : WF_vars(Working(w))
  /\ WF_vars(Controlling)

FairSpec == Spec /\ Fairness
--------------------------------------------------------------------------------
TypeOK ==
  /\ {async, started, watching} \subseteq BOOLEAN
  /\ queue \in [Worker -> Seq(Line)]
  /\ \A w \in Worker : Len(queue[w]) <= QueueCapacity
  /\ busy \in [Worker -> BOOLEAN]
  /\ stopping \in [Worker -> BOOLEAN]
  /\ wpc \in [Worker -> {"none", "check", "asleep", "run", "finish", "notify", "exited"}]
  /\ job \in [Worker -> {<<>>} \cup {<<l>> : l \in Line}]
  /\ ppc \in [Source -> {"idle", "post", "inline"}]
  /\ sent \in [Source -> 0 .. MaxLines]
  /\ delivered \in [Source -> Seq(1 .. MaxLines)]
  /\ dropped \in SUBSET Line
  /\ mpc \in {"init", "ready", "idle", "flush", "flushAsleep", "flushed", "joinWatcher",
              "stopping", "notifyStop", "joinWorkers", "stopped"}
  /\ cursor \in 1 .. NumWorkers + 1
  /\ goal \in {"none", "reload", "stop", "destroy"}
  /\ mark \in SUBSET Line
  /\ flushes \in 0 .. MaxFlushes

\* Lines of one source come out in the order they went in: the promise of
\* pipeline.h ("lines of one source are processed in order on one worker").
SourceOrder ==
  \A s \in Source : \A i, j \in 1 .. Len(delivered[s]) :
    i < j => delivered[s][i] < delivered[s][j]

\* At every moment a line handed to process_raw is in exactly one place: in the
\* call, in its queue, in a worker's hand, delivered, or counted as dropped.
\* None is lost without being counted and none is duplicated.
EachLineInOnePlace ==
  \A l \in Line : l.num <= sent[l.src] =>
    Cardinality({p \in {"call", "queue", "hand", "out", "dropped"} :
                   \/ p = "call"    /\ l \in InCall
                   \/ p = "queue"   /\ l \in Queued
                   \/ p = "hand"    /\ l \in InHand
                   \/ p = "out"     /\ l \in Delivered
                   \/ p = "dropped" /\ l \in dropped}) = 1

\* The type invariant with the two: no line is lost, doubled or overtaken by another
\* of its source.
LinesInOrderOnce == TypeOK /\ EachLineInOnePlace /\ SourceOrder

\* No wakeup is lost although worker and flush share one condition variable:
\* a worker never sleeps on work (the stopping flag is followed by a notify
\* that the main thread still has to do), and flush never sleeps on a drained
\* worker that has no notify left to do.
NoLostWakeup ==
  \A w \in Worker :
    /\ wpc[w] = "asleep" =>
         \/ ~ HasWork(w)
         \/ queue[w] = <<>> /\ mpc = "notifyStop" /\ cursor = w
    /\ mpc = "flushAsleep" /\ cursor = w =>
         ~ FlushMayPass(w) \/ wpc[w] = "notify"

\* When flush returns, every line that was accepted before it was called has
\* been processed to the end, whatever came in meanwhile: what reload_plugins
\* relies on before it unloads the plugins (daemon_core.cpp:107).
FlushCompletesInFlight == mpc = "flushed" /\ goal # "destroy" => mark \subseteq Delivered

\* Once the pool is stopped, with or without a flush before, every line is
\* delivered or was counted as dropped: nothing is left in a queue.
StopDrains ==
  mpc = "stopped" =>
    \A l \in Line : l.num <= sent[l.src] => l \in Delivered \cup dropped

\* The workers are gone (m_workers is cleared) only when no thread uses them.
NoUseAfterClear ==
  ~ started => /\ \A w \in Worker : wpc[w] \in {"none", "exited"}
               /\ \A s \in Source : ppc[s] # "post"
               /\ mpc \notin {"flush", "flushAsleep", "stopping", "notifyStop"}

\* Stopping always ends: the watcher and every worker are joined.
StopTerminates == mpc = "joinWatcher" ~> mpc = "stopped"

\* A reload's flush always returns, though lines keep coming meanwhile (as many
\* as MaxLines allows: flush may be delayed by an endless stream, see README).
FlushReturns == mpc = "flush" ~> mpc = "flushed"

\* The calls that wait for the workers return, whoever takes the wakeups they share.
CallsReturn == StopTerminates /\ FlushReturns

--------------------------------------------------------------------------------
\* The lines between acceptance and delivery: in a queue, in a hand, or in a call
\* that processes its line itself.
Pending == Queued \cup InHand \cup {l \in InCall : ppc[l.src] = "inline"}

Channel == INSTANCE LineChannel WITH pending <- Pending, lost <- dropped

\* The pool implements the per-source channels, their liveness included: what
\* is accepted is delivered.
ImplementsChannel == Channel!Spec
================================================================================
