----------------------------- MODULE DaemonLifecycle ----------------------------
(***************************************************************************)
(* The life of the daemon process (src/daemon/daemon_core.cpp, main.cpp):  *)
(* start(), the event loop, reload_plugins(), stop() and the destructor,   *)
(* against the threads that bring lines in and process them, the requests  *)
(* of D-Bus clients and the signals of main.cpp.                           *)
(*                                                                         *)
(* The main thread has a stack of calls, each at one of its steps. A       *)
(* signal handler runs on top of whatever the main thread is doing: this   *)
(* is how a stop comes to run inside a reload. With `anytime` a signal may *)
(* arrive between any two steps, and while main waits; without it, only    *)
(* while main waits for events. A call is cut into steps where it waits    *)
(* and where what another thread does in between makes a difference; a     *)
(* signal inside one of the steps is not looked at.                        *)
(*                                                                         *)
(* The pool of workers is one worker here: WorkerPool has the whole of it. *)
(***************************************************************************)
EXTENDS Integers, Sequences, SequencesExt

CONSTANTS
  SignalModes,  \* the values of `anytime` that are looked at
  MaxLines,     \* bound: the watcher reads no more once there are so many lines
  MaxCalls,     \* bound: requests of clients, for each value of `anytime`
  MaxSignals    \* bound: signals

ASSUME ModesAssumption  == SignalModes \subseteq BOOLEAN
ASSUME BoundsAssumption == {MaxLines, MaxSignals} \subseteq Nat /\ MaxCalls \in [BOOLEAN -> Nat]

VARIABLES
  anytime,   \* whether signals may interrupt anything (never changes)
  async,     \* worker_threads > 1 in the configuration (never changes)
  phase,     \* where main() is: start, exec, destroy, exited; or crashed
  gDaemon,   \* g_daemon is not null
  stack,     \* the calls of the main thread, innermost last
  quitNow,   \* the event loop has been told to quit
  state,     \* m_state
  up,        \* the parts that are up, see Part
  opened,    \* what m_vector_store.open() answered
  reloaded,  \* a reload has been completed (history variable)
  overtaken, \* a stop has gone past one that waits for the watcher (history variable)
  lines,     \* every line accepted so far, with what has become of it
  posted,    \* LogEntryReceived events that wait in the main thread's queue
  announced, \* the number of those emitted
  calls,     \* D-Bus requests that wait in the main thread's queue
  asked,     \* requests sent
  signals    \* signals sent

configVars  == <<anytime, async>>
processVars == <<phase, gDaemon, stack, quitNow>>
pastVars    == <<reloaded, overtaken>>
coreVars    == <<state, up, opened, pastVars>>
lineVars    == <<lines, posted, announced>>
outerVars   == <<calls, asked, signals>>
vars == <<configVars, processVars, coreVars, lineVars, outerVars>>

\* "async" is m_async, "workers" is m_workers with its threads; "watcher" is m_running of
\* the watcher, "reader" its thread; "object" and "service" are the registrations on the
\* bus.
Part == {"plugins", "async", "workers", "service", "callback", "adaptor",
         "object", "store", "watcher", "reader", "timer"}
DaemonState == {"INIT", "LOADING", "STARTING", "RUNNING", "RELOADING",
                "STOPPING", "STOPPED", "FAILED"}
Signal == {"SIGTERM", "SIGINT", "SIGHUP"}
Request == {"reload", "inject"}
Frame == [call : {"start", "reload", "stop", "destroy", "inject"},
          at : {"load", "workers", "register", "adopt", "export", "open", "watch",
                "run", "check", "flush", "flushing", "unload", "loaded", "empty", "halt",
                "halting", "join", "joining", "clearing", "detach", "close", "done", "line"},
          by : Signal \cup {"main", "dbus"}]
\* A line that is "posting" has found m_async set and is not in the queue yet; on: the
\* thread that has the line or will process it; safe: queued while the plugins were loaded
\* and no reload had begun to flush; plugins, out, kept: what it met.
LineRecord == [at : {"posting", "queued", "begun", "ready", "done"},
               on : {"worker", "watcher", "main"},
               safe : BOOLEAN, plugins : BOOLEAN, out : BOOLEAN, kept : BOOLEAN]

--------------------------------------------------------------------------------
Alive == phase \in {"start", "exec", "destroy"}
\* The main thread waits in exec() for something to do.
Idle == phase = "exec" /\ stack = <<>>

Begin(call, at, by) == [call |-> call, at |-> at, by |-> by]
At(called, step) == /\ Alive
                    /\ stack # <<>>
                    /\ Last(stack).call \in called
                    /\ Last(stack).at = step
GoTo(step) == stack' = [stack EXCEPT ![Len(stack)].at = step]
Return == stack' = Front(stack)
InCall(called, steps) ==
  \E i \in 1 .. Len(stack) : stack[i].call \in called /\ stack[i].at \in steps

\* The thread has a line in hand.
Busy(thread) ==
  \E i \in 1 .. Len(lines) :
    lines[i].on = thread /\ lines[i].at \in {"posting", "begun", "ready"}
Queued == {i \in 1 .. Len(lines) : lines[i].at = "queued"}
\* Every worker's queue is empty and none has a line in hand.
Drained == Queued = {} /\ ~ Busy("worker")

Shutdown == {"stop", "destroy"}

--------------------------------------------------------------------------------
\* The steps of start(), each with the next.
StartOrder == [load |-> "workers", workers |-> "register", register |-> "adopt",
               adopt |-> "export", export |-> "open", open |-> "watch", watch |-> "run",
               run |-> "check"]

\* Fault: the plugins are unloaded and the store is closed before the workers are joined.
UnloadFirst == [halt |-> "unload", unload |-> "close", close |-> "flush", flush |-> "join",
                join |-> "detach", detach |-> "done"]

\* The steps of do_stop(): no more data in, then what is in flight, then the rest.
StopOrder == [halt |-> "flush", flush |-> "join", join |-> "detach", detach |-> "unload",
              unload |-> "close", close |-> "done"]

ReloadOrder == [flush |-> "unload", unload |-> "load"]

Follow(step) == CASE Last(stack).call = "start"  -> StartOrder[step]
                  [] Last(stack).call = "reload" -> ReloadOrder[step]
                  [] OTHER                       -> StopOrder[step]

\* A step of the main thread that moves on to `next`.
Step(called, at, next, parts, st) ==
  /\ At(called, at)
  /\ GoTo(next)
  /\ up' = parts
  /\ state' = st
  /\ UNCHANGED <<configVars, phase, gDaemon, quitNow, opened, pastVars, lineVars, outerVars>>

\* do_load_plugins: LOADING, then load_directory, which fails if it loads nothing.
\* start() goes on without plugins.
LoadPlugins(ok) ==
  Step({"start", "reload"}, "load",
       IF Last(stack).call = "start" THEN Follow("load")
       ELSE IF ok THEN "loaded" ELSE "empty",
       IF ok THEN up \cup {"plugins"} ELSE up, "LOADING")

StartWorkers ==
  Step({"start"}, "workers", Follow("workers"),
       IF async THEN up \cup {"async", "workers"} ELSE up, state)

\* do_register_dbus: the service, the output callback and the adaptor, the object.
RegisterService(ok) ==
  Step({"start"}, "register", IF ok THEN Follow("register") ELSE "check",
       IF ok THEN up \cup {"service"} ELSE up, IF ok THEN "STARTING" ELSE "FAILED")

Adopt == Step({"start"}, "adopt", Follow("adopt"), up \cup {"callback", "adaptor"}, state)

RegisterObject(ok) ==
  Step({"start"}, "export", IF ok THEN Follow("export") ELSE "check",
       IF ok THEN up \cup {"object"} ELSE up, IF ok THEN state ELSE "FAILED")

OpenStore(ok) ==
  /\ At({"start"}, "open")
  /\ opened' = ok
  /\ up' = IF ok THEN up \cup {"store"} ELSE up
  /\ GoTo(Follow("open"))
  /\ UNCHANGED <<configVars, phase, gDaemon, quitNow, state, pastVars, lineVars, outerVars>>

StartWatcher ==
  Step({"start"}, "watch", Follow("watch"), up \cup {"watcher", "reader"}, state)

Run == Step({"start"}, "run", Follow("run"), up \cup {"timer"}, "RUNNING")

\* main() after start(): a daemon that failed is destroyed, with g_daemon still set;
\* exec() forgets a quit() that came before it.
EnterLoop ==
  /\ At({"start"}, "check")
  /\ IF state = "FAILED"
     THEN phase' = "destroy" /\ stack' = <<Begin("destroy", "halt", "main")>>
     ELSE phase' = "exec" /\ stack' = <<>>
  /\ quitNow' = FALSE
  /\ UNCHANGED <<configVars, gDaemon, coreVars, lineVars, outerVars>>

--------------------------------------------------------------------------------
\* flush(). Without workers its loop has nothing to wait for.
EnterFlush ==
  Step({"reload"} \cup Shutdown, "flush",
       IF "workers" \in up THEN "flushing" ELSE Follow("flush"), up, state)

\* The wait of flush(): drained, or the workers are told to stop.
FlushMayPass == Drained \/ InCall(Shutdown, {"joining", "clearing"})

LeaveFlush ==
  /\ "workers" \in up
  /\ FlushMayPass
  /\ Step({"reload"} \cup Shutdown, "flushing", Follow("flush"), up, state)

\* A stop on top of a flush that waits has destroyed the workers: the flush goes on in
\* memory that is gone. The process may do anything then and is not followed further.
FlushDestroyed ==
  /\ At({"reload"} \cup Shutdown, "flushing")
  /\ "workers" \notin up
  /\ phase' = "crashed"
  /\ UNCHANGED <<configVars, gDaemon, stack, quitNow, coreVars, lineVars, outerVars>>

Unload ==
  Step({"reload"} \cup Shutdown, "unload", Follow("unload"), up \ {"plugins"}, state)

\* Fault: a reload that loaded nothing counts as one that did.
AlwaysRunning == "RUNNING"

\* The state a reload ends in.
Settled == IF Last(stack).at = "loaded" THEN "RUNNING" ELSE "FAILED"

EndReload ==
  /\ At({"reload"}, "loaded") \/ At({"reload"}, "empty")
  /\ state' = Settled
  /\ reloaded' = TRUE
  /\ Return
  /\ UNCHANGED <<configVars, phase, gDaemon, quitNow, up, opened, overtaken, lineVars, outerVars>>

--------------------------------------------------------------------------------
\* The first step of do_stop(), which stop() and the destructor call: the watcher's flag is
\* exchanged, and who finds it false returns at once. So does a stop on top of one that
\* still waits for the thread, and goes on to the next step.
Halt ==
  /\ At(Shutdown, "halt")
  /\ GoTo(IF "watcher" \in up THEN "halting" ELSE Follow("halt"))
  /\ up' = up \ {"watcher"}
  /\ overtaken' = (overtaken \/ InCall(Shutdown, {"halting"}))
  /\ UNCHANGED <<configVars, phase, gDaemon, quitNow, state, opened, reloaded, lineVars, outerVars>>

\* Fault: the watcher is told to stop and its thread is not waited for.
NotJoined == TRUE

\* The thread ends when it has handed over what it has read.
WatcherJoined == ~ Busy("watcher")

\* Who found the flag set joins the thread.
JoinWatcher ==
  /\ WatcherJoined
  /\ Step(Shutdown, "halting", Follow("halt"), up \ {"reader"}, state)

\* stop_workers: m_async is exchanged, and who finds it false returns at once.
StopWorkers ==
  Step(Shutdown, "join", IF "async" \in up THEN "joining" ELSE Follow("join"),
       up \ {"async"}, state)

\* The worker, told to stop, finds its queue empty and ends.
JoinWorkers ==
  /\ Drained
  /\ Step(Shutdown, "joining", "clearing", up, state)

\* m_workers is cleared, with whatever has been queued since.
ClearWorkers == Step(Shutdown, "clearing", Follow("join"), up \ {"workers"}, state)

\* The health timer; then, if there is an adaptor, the bus.
Detach ==
  Step(Shutdown, "detach", Follow("detach"),
       up \ ({"timer"} \cup IF "adaptor" \in up THEN {"object", "service", "adaptor"} ELSE {}),
       state)

CloseStore == Step(Shutdown, "close", Follow("close"), up \ {"store"}, state)

\* Fault: the event loop is told to quit before anything is stopped, hence never.
NeverQuit == FALSE

\* finished() calls quit(), which only an event loop that runs hears.
QuitHeard == phase = "exec"

EndStop ==
  /\ At({"stop"}, "done")
  /\ state' = "STOPPED"
  /\ quitNow' = QuitHeard
  /\ Return
  /\ UNCHANGED <<configVars, phase, gDaemon, up, opened, pastVars, lineVars, outerVars>>

\* The members are destroyed after do_stop: the loader unloads what it still has. The bus
\* forgets an object together with its QObject.
Exit ==
  /\ At({"destroy"}, "done")
  /\ phase' = "exited"
  /\ up' = up \ {"plugins", "object"}
  /\ stack' = <<>>
  /\ UNCHANGED <<configVars, gDaemon, quitNow, state, opened, pastVars, lineVars, outerVars>>

--------------------------------------------------------------------------------
\* The plugins are loaded and no reload has begun to flush.
Safe == "plugins" \in up /\ ~ InCall({"reload"}, {"flushing", "unload", "load", "loaded", "empty"})

\* process_raw looks at m_async: the line is for a worker, or for the calling thread.
Accept(thread) ==
  lines' = Append(lines,
    [at |-> IF "async" \in up THEN "posting" ELSE "begun", on |-> thread,
     safe |-> FALSE, plugins |-> FALSE, out |-> FALSE, kept |-> FALSE])

\* The watcher thread has read a line: it may still do so, out of the events it has in
\* hand, when the watcher has been told to stop.
Read ==
  /\ Alive
  /\ "reader" \in up
  /\ ~ Busy("watcher")
  /\ Len(lines) < MaxLines
  /\ Accept("watcher")
  /\ UNCHANGED <<configVars, processVars, coreVars, posted, announced, outerVars>>

\* Whether the thread that has line i may take its next step: the main thread may do so
\* only if the request it injects is its innermost call.
MayProcess(i) == Alive /\ (lines[i].on = "main" => At({"inject"}, "line"))

\* process_raw queues the line, and is through with it. A full queue (1024 lines and more)
\* is left to WorkerPool.
Post(i) ==
  /\ MayProcess(i)
  /\ lines[i].at = "posting"
  /\ "workers" \in up
  /\ lines' = [lines EXCEPT ![i].at = "queued", ![i].on = "worker", ![i].safe = Safe]
  /\ IF lines[i].on = "main" THEN Return ELSE stack' = stack
  /\ UNCHANGED <<configVars, phase, gDaemon, quitNow, coreVars, posted, announced, outerVars>>

\* The workers have been cleared between the look at m_async and the use of m_workers. The
\* process may do anything then and is not followed further.
PostDestroyed(i) ==
  /\ MayProcess(i)
  /\ lines[i].at = "posting"
  /\ "workers" \notin up
  /\ phase' = "crashed"
  /\ UNCHANGED <<configVars, gDaemon, stack, quitNow, coreVars, lineVars, outerVars>>

\* worker_loop takes a line, as long as the thread runs. The order of the lines is left to
\* WorkerPool.
Take(i) ==
  /\ Alive
  /\ "workers" \in up /\ ~ InCall(Shutdown, {"clearing"})
  /\ lines[i].at = "queued"
  /\ ~ Busy("worker")
  /\ lines' = [lines EXCEPT ![i].at = "begun"]
  /\ UNCHANGED <<configVars, processVars, coreVars, posted, announced, outerVars>>

\* process_raw_now takes its snapshot of the plugins.
Snapshot(i) ==
  /\ MayProcess(i)
  /\ lines[i].at = "begun"
  /\ lines' = [lines EXCEPT ![i].at = "ready", ![i].plugins = "plugins" \in up]
  /\ UNCHANGED <<configVars, processVars, coreVars, posted, announced, outerVars>>

\* The output callback, if it is set: the entry goes to the store, if that is ready, and
\* to the buffer, whose own callback posts an event to the main thread.
Output(i) ==
  /\ MayProcess(i)
  /\ lines[i].at = "ready"
  /\ lines' = [lines EXCEPT ![i].at = "done", ![i].out = "callback" \in up,
                            ![i].kept = {"callback", "store"} \subseteq up]
  /\ posted' = IF "callback" \in up THEN posted + 1 ELSE posted
  /\ IF lines[i].on = "main" THEN Return ELSE stack' = stack
  /\ UNCHANGED <<configVars, phase, gDaemon, quitNow, coreVars, announced, outerVars>>

--------------------------------------------------------------------------------
\* The main thread's queue without the event that is handled.
LeftPosted == posted - 1

\* The event loop emits LogEntryReceived for an entry.
Emit ==
  /\ Idle
  /\ posted > 0
  /\ posted' = LeftPosted
  /\ announced' = IF "adaptor" \in up THEN announced + 1 ELSE announced
  /\ UNCHANGED <<configVars, processVars, coreVars, lines, outerVars>>

\* The event loop answers the next request: with an error once the object is gone.
Refuse ==
  /\ Idle
  /\ calls # <<>>
  /\ "object" \notin up
  /\ calls' = Tail(calls)
  /\ UNCHANGED <<configVars, processVars, coreVars, lineVars, asked, signals>>

\* reload_plugins() begins with RELOADING.
ServeReload ==
  /\ Idle
  /\ calls # <<>> /\ Head(calls) = "reload"
  /\ "object" \in up
  /\ calls' = Tail(calls)
  /\ state' = "RELOADING"
  /\ stack' = <<Begin("reload", "flush", "dbus")>>
  /\ UNCHANGED <<configVars, phase, gDaemon, quitNow, up, opened, pastVars, lineVars, asked, signals>>

\* InjectLog: the main thread queues the line, or processes it itself.
ServeInject ==
  /\ Idle
  /\ calls # <<>> /\ Head(calls) = "inject"
  /\ "object" \in up
  /\ calls' = Tail(calls)
  /\ Accept("main")
  /\ stack' = <<Begin("inject", "line", "dbus")>>
  /\ UNCHANGED <<configVars, phase, gDaemon, quitNow, coreVars, posted, announced, asked, signals>>

\* exec() returns, main() forgets the daemon and returns, which destroys it.
LeaveLoop ==
  /\ Idle
  /\ quitNow
  /\ phase' = "destroy"
  /\ gDaemon' = FALSE
  /\ stack' = <<Begin("destroy", "halt", "main")>>
  /\ UNCHANGED <<configVars, quitNow, coreVars, lineVars, outerVars>>

\* A client sends a request; without the service the bus refuses it.
Ask(r) ==
  /\ asked < MaxCalls[anytime]
  /\ "service" \in up
  /\ asked' = asked + 1
  /\ calls' = Append(calls, r)
  /\ UNCHANGED <<configVars, processVars, coreVars, lineVars, signals>>

\* A signal reaches the main thread, on which no handler of the same signal runs: the
\* handler calls reload_plugins() or stop() there and then.
Deliver(sig) ==
  /\ Alive
  /\ gDaemon
  /\ anytime \/ (Idle /\ ~ quitNow)
  /\ \A i \in 1 .. Len(stack) : stack[i].by # sig
  /\ signals < MaxSignals
  /\ signals' = signals + 1
  /\ IF sig = "SIGHUP"
     THEN state' = "RELOADING" /\ stack' = Append(stack, Begin("reload", "flush", sig))
     ELSE state' = "STOPPING" /\ stack' = Append(stack, Begin("stop", "halt", sig))
  /\ UNCHANGED <<configVars, phase, gDaemon, quitNow, up, opened, pastVars, lineVars, calls, asked>>

--------------------------------------------------------------------------------
\* main.cpp up to daemon.start(); a signal that came earlier found g_daemon null.
Init ==
  /\ anytime \in SignalModes
  /\ async \in BOOLEAN
  /\ phase = "start"
  /\ gDaemon = TRUE
  /\ stack = <<Begin("start", "load", "main")>>
  /\ quitNow = FALSE
  /\ state = "INIT"
  /\ up = {}
  /\ opened = FALSE
  /\ reloaded = FALSE
  /\ overtaken = FALSE
  /\ lines = <<>>
  /\ posted = 0
  /\ announced = 0
  /\ calls = <<>>
  /\ asked = 0
  /\ signals = 0

Start ==
  \/ \E ok \in BOOLEAN :
       LoadPlugins(ok) \/ RegisterService(ok) \/ RegisterObject(ok) \/ OpenStore(ok)
  \/ StartWorkers
  \/ Adopt
  \/ StartWatcher
  \/ Run
  \/ EnterLoop

Flush  == EnterFlush \/ LeaveFlush \/ FlushDestroyed \/ Unload \/ EndReload
DoStop ==
  \/ Halt \/ JoinWatcher
  \/ StopWorkers \/ JoinWorkers \/ ClearWorkers
  \/ Detach \/ CloseStore
  \/ EndStop \/ Exit
Serve  == Emit \/ Refuse \/ ServeReload \/ ServeInject \/ LeaveLoop

\* What a thread does with the lines it has.
Process(thread) ==
  \E i \in 1 .. Len(lines) :
    /\ lines[i].on = thread
    /\ Post(i) \/ PostDestroyed(i) \/ Take(i) \/ Snapshot(i) \/ Output(i)

Main == Start \/ Flush \/ DoStop \/ Serve \/ Process("main")

Next ==
  \/ Main
  \/ Process("worker")
  \/ Process("watcher")
  \/ Read
  \/ \E r \in Request : Ask(r)
  \/ \E sig \in Signal : Deliver(sig)

Spec == Init /\ [][Next]_vars
\* Threads run; clients, applications and whoever sends signals need not do anything.
FairSpec == /\ Spec
            /\ WF_vars(Main)
            /\ WF_vars(Process("worker"))
            /\ WF_vars(Process("watcher"))
--------------------------------------------------------------------------------
TypeOK ==
  /\ {anytime, async, gDaemon, quitNow, opened, reloaded, overtaken} \subseteq BOOLEAN
  /\ phase \in {"start", "exec", "destroy", "exited", "crashed"}
  /\ stack \in Seq(Frame) /\ Len(stack) <= 1 + MaxSignals
  /\ state \in DaemonState
  /\ up \subseteq Part
  /\ lines \in Seq(LineRecord) /\ Len(lines) <= MaxLines + MaxCalls[anytime]
  /\ {posted, announced} \subseteq Nat
  /\ calls \in Seq(Request)
  /\ asked \in 0 .. MaxCalls[anytime]
  /\ signals \in 0 .. MaxSignals

\* Every line that is processed finds the output callback, whatever signals interrupt.
\* If they only come while main waits, it also finds the vector store, if that could be
\* opened, and with workers a line accepted before a reload meets plugins: start() opens
\* the store before lines come in, reload_plugins() flushes before it swaps, do_stop()
\* drains before it unloads and closes.
LinesAreServed ==
  \A i \in 1 .. Len(lines) : lines[i].at = "done" =>
    /\ lines[i].out
    /\ ~ anytime => /\ opened => lines[i].kept
                    /\ async /\ lines[i].safe => lines[i].plugins

\* GetStatus is answered between the calls of the main thread, so it shows RUNNING or
\* FAILED and nothing in between; both are true, and a daemon whose reload failed goes on
\* taking lines in.
StatusIsTrue ==
  /\ TypeOK
  /\ Idle /\ "object" \in up /\ ~ anytime =>
       /\ state \in {"RUNNING", "FAILED"}
       /\ {"service", "callback", "adaptor", "watcher", "timer"} \subseteq up
       /\ state = "FAILED" => "plugins" \notin up
       /\ reloaded /\ "plugins" \notin up => state = "FAILED"
       /\ async <=> "workers" \in up

\* When the process ends, whatever it was doing when it was told to, every part is down:
\* what a reload or a start that was interrupted by a stop brings up afterwards, the
\* destructor takes down. Every line that was accepted has been put out, with one
\* exception: a stop that interrupts another one in its wait for the watcher goes on to
\* take the workers down, and the line the watcher has in hand then is queued for nobody.
NothingLeftAtExit ==
  phase = "exited" =>
    /\ up \subseteq {"callback"}
    /\ \A i, j \in 1 .. Len(lines) :
         lines[i].at # "done" /\ lines[j].at # "done" =>
           i = j /\ lines[i].at = "queued" /\ overtaken

\* A stop that reaches the event loop ends the process, and every request is answered
\* unless the process ends: flush and join never wait for each other or for events that
\* only the main thread could handle.
RequestsEnd ==
  /\ (phase = "exec" /\ InCall({"stop"}, {"halt"})) ~> ~ Alive
  /\ calls # <<>> ~> (calls = <<>> \/ ~ Alive)
================================================================================
