---------------------------- MODULE WorkerPoolProofs ---------------------------
(***************************************************************************)
(* Proofs about WorkerPool for every set of sources, number of workers,    *)
(* queue capacity, assignment of sources to workers and number of lines.   *)
(* The invariant is built in layers, each resting on those before it:      *)
(* Shape (types and what the program counters say of the data), Stage      *)
(* (what the main thread's position says of the rest), Wake (who may be    *)
(* asleep), Flush (what a flush still waits for), Accounted (every line is *)
(* somewhere) and Order (in one place, and in the order of its source).    *)
(***************************************************************************)
EXTENDS WorkerPool, SequenceTheorems, FiniteSetTheorems, TLAPS

\* A call of process_raw that is under way has a line.
CallHasLine == \A s \in Source : ppc[s] # "idle" => sent[s] \in 1 .. MaxLines

\* A worker has a line in its hand exactly while it is about to process it, and
\* says so, until it cleared the flag.
JobMatches ==
  \A w \in Worker : /\ wpc[w] = "run" <=> job[w] # <<>>
                    /\ busy[w] <=> wpc[w] \in {"run", "finish"}

\* The loops of the main thread visit workers only.
CursorInLoop ==
  mpc \in {"flush", "flushAsleep", "stopping", "notifyStop"} => cursor \in Worker

\* No worker thread exists before start_workers.
NoThreadsYet == mpc = "init" => \A w \in Worker : wpc[w] = "none"

\* The watcher is joined on the way to a stop.
GoalOfJoin == mpc = "joinWatcher" => goal \in {"stop", "destroy"}

Shape ==
  TypeOK /\ CallHasLine /\ JobMatches /\ CursorInLoop /\ NoThreadsYet /\ GoalOfJoin

--------------------------------------------------------------------------------
\* Queues and hands hold lines.
LEMMA LinesInside ==
  ASSUME TypeOK
  PROVE  Queued \subseteq Line /\ InHand \subseteq Line
<1>1. ASSUME NEW w \in Worker PROVE Elements(queue[w]) \subseteq Line
  <2>1. queue[w] \in Seq(Line)
    BY DEF TypeOK
  <2>2. \A i \in 1 .. Len(queue[w]) : queue[w][i] \in Line
    BY <2>1, ElementOfSeq
  <2>3. QED
    BY <2>2 DEF Elements
<1>2. ASSUME NEW w \in Worker PROVE Elements(job[w]) \subseteq Line
  <2>1. job[w] \in {<<>>} \cup {<<l>> : l \in Line}
    BY DEF TypeOK
  <2>2. CASE job[w] = <<>>
    <3>1. Len(job[w]) = 0
      BY <2>2, EmptySeq
    <3>2. QED
      BY <3>1 DEF Elements
  <2>3. ASSUME NEW l \in Line, job[w] = <<l>> PROVE Elements(job[w]) \subseteq Line
    <3>1. Len(job[w]) = 1 /\ job[w][1] = l
      BY <2>3
    <3>2. QED
      BY <3>1 DEF Elements
  <2>4. QED
    BY <2>1, <2>2, <2>3
<1>3. QED
  BY <1>1, <1>2 DEF Queued, InHand

\* The shape of the state holds initially.
LEMMA ShapeInit == Init => Shape
<1> SUFFICES ASSUME Init PROVE Shape
  OBVIOUS
<1>1. <<>> \in Seq(Line) /\ <<>> \in Seq(1 .. MaxLines) /\ Len(<<>>) = 0
  BY EmptySeq
<1>2. TypeOK
  <2>1. queue \in [Worker -> Seq(Line)] /\ \A w \in Worker : Len(queue[w]) <= QueueCapacity
    BY <1>1, CapacityAssumption DEF Init
  <2>2. 1 \in 1 .. NumWorkers + 1 /\ 0 \in 0 .. MaxLines /\ 0 \in 0 .. MaxFlushes
    BY WorkersAssumption, BoundsAssumption
  <2>3. delivered \in [Source -> Seq(1 .. MaxLines)]
    BY <1>1 DEF Init
  <2>4. QED
    BY <2>1, <2>2, <2>3 DEF Init, TypeOK
<1>3. CallHasLine /\ JobMatches /\ CursorInLoop /\ NoThreadsYet /\ GoalOfJoin
  BY DEF Init, CallHasLine, JobMatches, CursorInLoop, NoThreadsYet, GoalOfJoin
<1>4. QED
  BY <1>2, <1>3 DEF Shape

\* Waking a sleeper of w moves the worker or the main thread, not both.
LEMMA AwakeEffect ==
  ASSUME TypeOK, NEW w \in Worker, NEW t \in Sleepers(w), Awake(w, {t})
  PROVE  \/ t = w /\ wpc[w] = "asleep" /\ wpc' = [wpc EXCEPT ![w] = "check"] /\ mpc' = mpc
         \/ t = 0 /\ mpc = "flushAsleep" /\ cursor = w /\ wpc' = wpc /\ mpc' = "flush"
<1>1. 0 \notin Worker
  BY DEF Worker
<1>2. wpc = [wpc EXCEPT ![w] = wpc[w]]
  BY DEF TypeOK
<1>3. CASE t = w
  <2>1. wpc[w] = "asleep"
    BY <1>1, <1>3 DEF Sleepers
  <2>2. QED
    BY <1>1, <1>3, <2>1 DEF Awake
<1>4. CASE t # w
  <2>1. t = 0 /\ mpc = "flushAsleep" /\ cursor = w
    BY <1>4 DEF Sleepers
  <2>2. QED
    BY <1>1, <1>2, <1>4, <2>1 DEF Awake
<1>5. QED
  BY <1>3, <1>4

\* notify_one wakes one sleeper of w, if there is one.
LEMMA NotifyOneEffect ==
  ASSUME TypeOK, NEW w \in Worker, NotifyOne(w)
  PROVE  \/ Sleepers(w) = {} /\ wpc' = wpc /\ mpc' = mpc
         \/ wpc[w] = "asleep" /\ wpc' = [wpc EXCEPT ![w] = "check"] /\ mpc' = mpc
         \/ mpc = "flushAsleep" /\ cursor = w /\ wpc' = wpc /\ mpc' = "flush"
<1>1. CASE Sleepers(w) = {}
  <2>1. Awake(w, {})
    BY <1>1 DEF NotifyOne
  <2>2. wpc = [wpc EXCEPT ![w] = wpc[w]]
    BY DEF TypeOK
  <2>3. QED
    BY <1>1, <2>1, <2>2 DEF Awake
<1>2. CASE Sleepers(w) # {}
  <2>1. PICK t \in Sleepers(w) : Awake(w, {t})
    BY <1>2 DEF NotifyOne
  <2>2. QED
    BY <2>1, AwakeEffect
<1>3. QED
  BY <1>1, <1>2

\* Every step keeps the shape.
LEMMA ShapeNext == Shape /\ [Next]_vars => Shape'
<1> SUFFICES ASSUME Shape, [Next]_vars PROVE Shape'
  OBVIOUS
<1> USE DEF Shape, TypeOK, CallHasLine, JobMatches, CursorInLoop, NoThreadsYet, GoalOfJoin
<1> DEFINE wpcs == {"none", "check", "asleep", "run", "finish", "notify", "exited"}
<1>1. ASSUME NEW s \in Source, ProcessRaw(s) PROVE Shape'
  BY <1>1, BoundsAssumption DEF ProcessRaw, poolVars, mainVars
<1>2. ASSUME NEW s \in Source, Post(s) PROVE Shape'
  <2> DEFINE w == ShardOf(Current(s))
  <2>1. Current(s) \in Line /\ w \in Worker
    BY <1>2, ShardAssumption DEF Post, Current, Line, ShardOf
  <2>2. queue' = [queue EXCEPT ![w] = Append(@, Current(s))] /\ Len(queue[w]) < QueueCapacity
    BY <1>2 DEF Post, HasRoom
  <2>3. /\ wpc' = wpc \/ (wpc[w] = "asleep" /\ wpc' = [wpc EXCEPT ![w] = "check"])
        /\ mpc' = mpc \/ (mpc = "flushAsleep" /\ cursor = w /\ mpc' = "flush")
    <3>1. NotifyOne(w)
      BY <1>2 DEF Post
    <3> HIDE DEF w, TypeOK
    <3>2. QED
      BY <2>1, <3>1, NotifyOneEffect
  <2> HIDE DEF w
  <2>4. Append(queue[w], Current(s)) \in Seq(Line)
        /\ Len(Append(queue[w], Current(s))) = Len(queue[w]) + 1
        /\ Len(queue[w]) \in Nat
    BY <2>1, AppendProperties, LenProperties
  <2>5. /\ queue' \in [Worker -> Seq(Line)]
        /\ \A v \in Worker : Len(queue'[v]) <= QueueCapacity
    BY <2>1, <2>2, <2>4, CapacityAssumption
  <2>6. UNCHANGED <<async, started, busy, stopping, job, sent, delivered, dropped,
                    cursor, goal, mark, flushes, watching>>
        /\ ppc' = [ppc EXCEPT ![s] = "idle"]
    BY <1>2 DEF Post
  <2>7. QED
    BY <2>1, <2>3, <2>5, <2>6
<1>3. ASSUME NEW s \in Source, Drop(s) PROVE Shape'
  <2>1. Current(s) \in Line
    BY <1>3 DEF Drop, Current, Line
  <2>2. dropped' \in SUBSET Line
    BY <1>3, <2>1 DEF Drop, CountDropped
  <2>3. QED
    BY <1>3, <2>2 DEF Drop, poolVars, mainVars
<1>4. ASSUME NEW s \in Source, ProcessInline(s) PROVE Shape'
  <2>1. Append(delivered[s], sent[s]) \in Seq(1 .. MaxLines)
    BY <1>4, AppendProperties DEF ProcessInline
  <2>2. QED
    BY <1>4, <2>1 DEF ProcessInline, poolVars, mainVars
<1>5. ASSUME NEW w \in Worker, Take(w) PROVE Shape'
  <2>1. /\ Head(queue[w]) \in Line /\ Tail(queue[w]) \in Seq(Line)
        /\ Len(Tail(queue[w])) = Len(queue[w]) - 1
        /\ Len(queue[w]) \in Nat
    BY <1>5, HeadTailProperties, LenProperties DEF Take
  <2>2. /\ queue' \in [Worker -> Seq(Line)]
        /\ \A v \in Worker : Len(queue'[v]) <= QueueCapacity
    BY <1>5, <2>1, CapacityAssumption DEF Take
  <2>3. <<Head(queue[w])>> # <<>>
    OBVIOUS
  <2>4. QED
    BY <1>5, <2>1, <2>2, <2>3 DEF Take, lineVars, mainVars
<1>6. ASSUME NEW w \in Worker, Sleep(w) PROVE Shape'
  BY <1>6 DEF Sleep, lineVars, mainVars
<1>7. ASSUME NEW w \in Worker, Exit(w) PROVE Shape'
  BY <1>7 DEF Exit, lineVars, mainVars
<1>8. ASSUME NEW w \in Worker, Run(w) PROVE Shape'
  <2> DEFINE line == Head(job[w])
  <2>1. line \in Line
    <3>1. PICK l \in Line : job[w] = <<l>>
      BY <1>8 DEF Run
    <3>2. QED
      BY <3>1
  <2>2. line.src \in Source /\ line.num \in 1 .. MaxLines
    BY <2>1 DEF Line
  <2>3. delivered' = [delivered EXCEPT ![line.src] = Append(@, line.num)]
    BY <1>8 DEF Run
  <2> HIDE DEF line
  <2>4. Append(delivered[line.src], line.num) \in Seq(1 .. MaxLines)
    BY <2>2, AppendProperties
  <2>5. delivered' \in [Source -> Seq(1 .. MaxLines)]
    BY <2>2, <2>3, <2>4
  <2>6. QED
    BY <1>8, <2>5 DEF Run, mainVars
<1>9. ASSUME NEW w \in Worker, Finish(w) PROVE Shape'
  BY <1>9 DEF Finish, lineVars, mainVars
<1>10. ASSUME NEW w \in Worker, NotifyFlusher(w) PROVE Shape'
  BY <1>10 DEF NotifyFlusher, Sleepers, lineVars
<1>11. ASSUME NEW w \in Worker, SpuriousWakeup(w) PROVE Shape'
  <2>1. PICK t \in Sleepers(w) : Awake(w, {t})
    BY <1>11 DEF SpuriousWakeup
  <2>2. \/ wpc[w] = "asleep" /\ wpc' = [wpc EXCEPT ![w] = "check"] /\ mpc' = mpc
        \/ mpc = "flushAsleep" /\ cursor = w /\ wpc' = wpc /\ mpc' = "flush"
    <3> HIDE DEF TypeOK
    <3>1. QED
      BY <2>1, AwakeEffect
  <2>3. QED
    BY <1>11, <2>2 DEF SpuriousWakeup, lineVars
<1>12. CASE StartWorkers
  BY <1>12 DEF StartWorkers, lineVars
<1>13. CASE StaySynchronous
  BY <1>13 DEF StaySynchronous, poolVars, lineVars
<1>14. CASE StartWatcher
  BY <1>14 DEF StartWatcher, poolVars, lineVars
<1>15. CASE ReloadPlugins
  <2>1. 1 \in Worker /\ 1 \in 1 .. NumWorkers + 1
    BY WorkersAssumption DEF Worker
  <2>2. flushes' \in 0 .. MaxFlushes
    BY <1>15, BoundsAssumption DEF ReloadPlugins
  <2>3. goal' = "reload" /\ mark' \subseteq Line /\ cursor' = 1 /\ mpc' \in {"flush", "flushed"}
    BY <1>15, LinesInside DEF ReloadPlugins, BeginFlush
  <2>4. QED
    BY <1>15, <2>1, <2>2, <2>3 DEF ReloadPlugins, poolVars, lineVars
<1>16. CASE FlushPass
  <2>1. cursor \in Worker /\ cursor' = cursor + 1 /\ mpc' \in {"flush", "flushed"}
    BY <1>16 DEF FlushPass
  <2>2. cursor' \in 1 .. NumWorkers + 1 /\ (mpc' = "flush" => cursor' \in Worker)
    BY <1>16, <2>1, WorkersAssumption DEF FlushPass, Worker
  <2>3. QED
    BY <1>16, <2>1, <2>2 DEF FlushPass, poolVars, lineVars
<1>17. CASE FlushSleep
  BY <1>17 DEF FlushSleep, poolVars, lineVars
<1>18. CASE EndReload
  BY <1>18 DEF EndReload, poolVars, lineVars
<1>19. ASSUME NEW why \in {"stop", "destroy"}, StopWatcher(why) PROVE Shape'
  BY <1>19 DEF StopWatcher, poolVars, lineVars
<1>20. CASE JoinWatcher
  <2>1. 1 \in Worker /\ 1 \in 1 .. NumWorkers + 1
    BY WorkersAssumption DEF Worker
  <2>2. CASE goal = "stop"
    BY <1>20, <2>1, <2>2, LinesInside DEF JoinWatcher, BeginFlush, poolVars, lineVars
  <2>3. CASE goal # "stop"
    BY <1>20, <2>3 DEF JoinWatcher, poolVars, lineVars
  <2>4. QED
    BY <2>2, <2>3
<1>21. CASE StopWorkers
  <2>1. 1 \in Worker /\ 1 \in 1 .. NumWorkers + 1
    BY WorkersAssumption DEF Worker
  <2>2. cursor' = 1 /\ mpc' \in {"stopping", "stopped"}
    BY <1>21 DEF StopWorkers
  <2>3. QED
    BY <1>21, <2>1, <2>2 DEF StopWorkers, lineVars
<1>22. CASE MarkStopping
  BY <1>22 DEF MarkStopping, lineVars
<1>23. CASE NotifyStopping
  BY <1>23, WorkersAssumption DEF NotifyStopping, lineVars, Worker
<1>24. CASE JoinWorkers
  BY <1>24 DEF JoinWorkers, lineVars
<1>25. CASE UNCHANGED vars
  BY <1>25 DEF vars, poolVars, lineVars, mainVars
<1>26. QED
  BY <1>1, <1>2, <1>3, <1>4, <1>5, <1>6, <1>7, <1>8, <1>9, <1>10, <1>11, <1>12, <1>13,
     <1>14, <1>15, <1>16, <1>17, <1>18, <1>19, <1>20, <1>21, <1>22, <1>23, <1>24, <1>25
  DEF Next, Producing, Working, Controlling, Stop

\* Every variable of the pool has its type, no queue outgrows its capacity, and
\* the program counters agree with the data.
THEOREM ShapeInvariant == Spec => []Shape
BY ShapeInit, ShapeNext, PTL DEF Spec

\* Types, and the bound on the queues, for every pool.
THEOREM TypeCorrect == Spec => []TypeOK
<1>1. Shape => TypeOK
  BY DEF Shape
<1>2. QED
  BY <1>1, ShapeInvariant, PTL

--------------------------------------------------------------------------------
\* The pool is being stopped and the watcher has been joined.
Ending ==
  \/ mpc \in {"stopping", "notifyStop", "joinWorkers", "stopped"}
  \/ goal \in {"stop", "destroy"} /\ mpc \in {"flush", "flushAsleep", "flushed"}

\* The pool accepts lines from start_workers until stop_workers.
PoolPhase ==
  /\ async <=> started /\ mpc \notin {"stopping", "notifyStop", "joinWorkers"}
  /\ mpc \in {"flush", "flushAsleep", "stopping", "notifyStop", "joinWorkers"} => started
  /\ mpc \in {"init", "stopped"} => ~ started
  /\ \A w \in Worker : started => wpc[w] # "none"
  /\ \A w \in Worker : ~ started => wpc[w] \in {"none", "exited"}

\* No call of process_raw is under way before the watcher was started or after
\* it was joined, and only a running pool is posted to.
CallPhase ==
  /\ watching => ~ Ending /\ mpc \notin {"init", "ready", "joinWatcher"}
  /\ Ending \/ mpc \in {"init", "ready"} => \A s \in Source : ppc[s] = "idle"
  /\ \A s \in Source : ppc[s] = "post" => started

\* Workers are told to stop in the order of the loop, and leave only empty-handed.
StopPhase == \A w \in Worker :
  /\ stopping[w] => \/ mpc = "stopping" /\ w < cursor
                    \/ mpc = "notifyStop" /\ w <= cursor
                    \/ mpc = "joinWorkers"
                    \/ ~ started
  /\ mpc = "init" => ~ stopping[w]
  /\ wpc[w] = "exited" => stopping[w]
  /\ wpc[w] \in {"none", "exited"} => queue[w] = <<>>

Stage == PoolPhase /\ CallPhase /\ StopPhase

\* The stages hold of a pipeline that was not started.
LEMMA StageInit == Init => Stage
BY DEF Init, Stage, PoolPhase, CallPhase, StopPhase, Ending

\* Every step keeps the stages.
LEMMA StageNext == Shape /\ Stage /\ [Next]_vars => Stage'
<1> SUFFICES ASSUME Shape, Stage, [Next]_vars PROVE Stage'
  OBVIOUS
<1> USE DEF Stage, PoolPhase, CallPhase, StopPhase, Ending
<1>0. /\ wpc \in [Worker -> {"none", "check", "asleep", "run", "finish", "notify", "exited"}]
      /\ ppc \in [Source -> {"idle", "post", "inline"}]
      /\ stopping \in [Worker -> BOOLEAN]
      /\ queue \in [Worker -> Seq(Line)]
      /\ cursor \in Int /\ Worker \subseteq Int
      /\ mpc \in {"stopping", "notifyStop"} => cursor \in Worker
  BY DEF Shape, TypeOK, CursorInLoop, Worker
<1>1. ASSUME NEW s \in Source, ProcessRaw(s) PROVE Stage'
  BY <1>0, <1>1 DEF ProcessRaw, poolVars, mainVars
<1>2. ASSUME NEW s \in Source, Post(s) PROVE Stage'
  <2> DEFINE w == ShardOf(Current(s))
  <2>1. w \in Worker /\ NotifyOne(w)
    BY <1>2, ShardAssumption DEF Post, Current, ShardOf
  <2>2. \/ wpc' = wpc
        \/ wpc[w] = "asleep" /\ wpc' = [wpc EXCEPT ![w] = "check"]
    <3> HIDE DEF w
    <3>1. QED
      BY <2>1, NotifyOneEffect DEF Shape
  <2>3. mpc' = mpc \/ (mpc = "flushAsleep" /\ mpc' = "flush")
    <3> HIDE DEF w
    <3>1. QED
      BY <2>1, NotifyOneEffect DEF Shape
  <2>4. started /\ ~ Ending /\ mpc \notin {"init", "ready"} /\ wpc[w] \notin {"none", "exited"}
    BY <1>0, <1>2, <2>1 DEF Post
  <2>5. queue' = [queue EXCEPT ![w] = Append(@, Current(s))]
    BY <1>2 DEF Post
  <2> HIDE DEF w
  <2>6. QED
    BY <1>0, <1>2, <2>1, <2>2, <2>3, <2>4, <2>5 DEF Post
<1>3. ASSUME NEW s \in Source, Drop(s) PROVE Stage'
  BY <1>0, <1>3 DEF Drop, poolVars, mainVars
<1>4. ASSUME NEW s \in Source, ProcessInline(s) PROVE Stage'
  BY <1>0, <1>4 DEF ProcessInline, poolVars, mainVars
<1>5. ASSUME NEW w \in Worker, Take(w) PROVE Stage'
  BY <1>0, <1>5 DEF Take, lineVars, mainVars
<1>6. ASSUME NEW w \in Worker, Sleep(w) PROVE Stage'
  BY <1>0, <1>6 DEF Sleep, lineVars, mainVars
<1>7. ASSUME NEW w \in Worker, Exit(w) PROVE Stage'
  BY <1>0, <1>7 DEF Exit, MayExit, lineVars, mainVars
<1>8. ASSUME NEW w \in Worker, Run(w) PROVE Stage'
  BY <1>0, <1>8 DEF Run, mainVars
<1>9. ASSUME NEW w \in Worker, Finish(w) PROVE Stage'
  BY <1>0, <1>9 DEF Finish, lineVars, mainVars
<1>10. ASSUME NEW w \in Worker, NotifyFlusher(w) PROVE Stage'
  BY <1>0, <1>10 DEF NotifyFlusher, Sleepers, lineVars
<1>11. ASSUME NEW w \in Worker, SpuriousWakeup(w) PROVE Stage'
  <2>1. \/ wpc[w] = "asleep" /\ wpc' = [wpc EXCEPT ![w] = "check"] /\ mpc' = mpc
        \/ mpc = "flushAsleep" /\ cursor = w /\ wpc' = wpc /\ mpc' = "flush"
    BY <1>11, AwakeEffect DEF SpuriousWakeup, Shape
  <2>2. QED
    BY <1>0, <1>11, <2>1 DEF SpuriousWakeup, lineVars
<1>12. CASE StartWorkers
  BY <1>0, <1>12 DEF StartWorkers, lineVars
<1>13. CASE StaySynchronous
  BY <1>0, <1>13 DEF StaySynchronous, poolVars, lineVars
<1>14. CASE StartWatcher
  BY <1>0, <1>14 DEF StartWatcher, poolVars, lineVars
<1>15. CASE ReloadPlugins
  BY <1>0, <1>15 DEF ReloadPlugins, BeginFlush, poolVars, lineVars
<1>16. CASE FlushPass
  BY <1>0, <1>16 DEF FlushPass, poolVars, lineVars
<1>17. CASE FlushSleep
  BY <1>0, <1>17 DEF FlushSleep, poolVars, lineVars
<1>18. CASE EndReload
  BY <1>0, <1>18 DEF EndReload, poolVars, lineVars
<1>19. ASSUME NEW why \in {"stop", "destroy"}, StopWatcher(why) PROVE Stage'
  BY <1>0, <1>19 DEF StopWatcher, poolVars, lineVars
<1>20. CASE JoinWatcher
  BY <1>0, <1>20 DEF JoinWatcher, WatcherJoined, BeginFlush, poolVars, lineVars
<1>21. CASE StopWorkers
  BY <1>0, <1>21 DEF StopWorkers, lineVars
<1>22. CASE MarkStopping
  <2>1. /\ mpc = "stopping" /\ mpc' = "notifyStop"
        /\ stopping' = [stopping EXCEPT ![cursor] = TRUE]
        /\ UNCHANGED <<async, started, queue, wpc, ppc, cursor, goal, watching>>
    BY <1>22 DEF MarkStopping, lineVars
  <2>2. StopPhase'
    BY <1>0, <2>1
  <2>3. PoolPhase' /\ CallPhase'
    BY <1>0, <2>1
  <2>4. QED
    BY <2>2, <2>3
<1>23. CASE NotifyStopping
  <2>1. /\ mpc = "notifyStop" /\ cursor' = cursor + 1
        /\ mpc' \in {"stopping", "joinWorkers"}
        /\ UNCHANGED <<async, started, queue, stopping, ppc, goal, watching>>
    BY <1>23 DEF NotifyStopping, lineVars
  <2>2. wpc' = [wpc EXCEPT ![cursor] = IF @ = "asleep" THEN "check" ELSE @]
    BY <1>23 DEF NotifyStopping
  <2>3. \A w \in Worker : wpc'[w] = wpc[w] \/ (wpc[w] = "asleep" /\ wpc'[w] = "check")
    BY <1>0, <2>2
  <2>4. StopPhase'
    BY <1>0, <2>1, <2>3
  <2>5. PoolPhase'
    BY <1>0, <2>1, <2>3
  <2>6. CallPhase'
    BY <1>0, <2>1
  <2>7. QED
    BY <2>4, <2>5, <2>6
<1>24. CASE JoinWorkers
  BY <1>0, <1>24 DEF JoinWorkers, lineVars
<1>25. CASE UNCHANGED vars
  BY <1>0, <1>25 DEF vars, poolVars, lineVars, mainVars
<1>26. QED
  BY <1>1, <1>2, <1>3, <1>4, <1>5, <1>6, <1>7, <1>8, <1>9, <1>10, <1>11, <1>12,
     <1>13, <1>14, <1>15, <1>16, <1>17, <1>18, <1>19, <1>20, <1>21, <1>22, <1>23,
     <1>24, <1>25
  DEF Next, Producing, Working, Controlling, Stop

\* The shape and the stages hold together in every reachable state.
THEOREM StageInvariant == Spec => [](Shape /\ Stage)
BY StageInit, StageNext, ShapeInvariant, PTL DEF Spec

\* The workers are only gone when no thread uses them any more.
THEOREM NoUseAfterClearHolds == Spec => []NoUseAfterClear
<1>1. Shape /\ Stage => NoUseAfterClear
  BY DEF Stage, PoolPhase, CallPhase, NoUseAfterClear
<1>2. QED
  BY <1>1, StageInvariant, PTL

--------------------------------------------------------------------------------
\* Who may sleep on the condition variable of w. The two parts exclude that the
\* worker and the main thread sleep there together, so that the notify_one of
\* process_raw cannot wake the wrong one.
Wake == \A w \in Worker :
  /\ wpc[w] = "asleep" => /\ queue[w] = <<>>
                          /\ stopping[w] => mpc = "notifyStop" /\ cursor = w
  /\ mpc = "flushAsleep" /\ cursor = w =>
       queue[w] # <<>> \/ busy[w] \/ wpc[w] = "notify"

\* Nobody sleeps initially.
LEMMA WakeInit == Init => Wake
BY DEF Init, Wake

\* Every step keeps the sleepers in order.
LEMMA WakeNext == Shape /\ Stage /\ Wake /\ [Next]_vars => Wake'
<1> SUFFICES ASSUME Shape, Stage, Wake, [Next]_vars PROVE Wake'
  OBVIOUS
<1> USE DEF Wake
<1>0. /\ wpc \in [Worker -> {"none", "check", "asleep", "run", "finish", "notify", "exited"}]
      /\ queue \in [Worker -> Seq(Line)]
      /\ busy \in [Worker -> BOOLEAN]
      /\ stopping \in [Worker -> BOOLEAN]
      /\ \A w \in Worker : busy[w] <=> wpc[w] \in {"run", "finish"}
      /\ \A w \in Worker : mpc \in {"flush", "flushAsleep"} => ~ stopping[w]
      /\ cursor \in Int /\ Worker \subseteq Int
  BY DEF Shape, TypeOK, JobMatches, Stage, StopPhase, PoolPhase, Worker
<1>1. ASSUME NEW s \in Source, ProcessRaw(s) PROVE Wake'
  BY <1>0, <1>1 DEF ProcessRaw, poolVars, mainVars
<1>2. ASSUME NEW s \in Source, Post(s) PROVE Wake'
  <2> DEFINE w == ShardOf(Current(s))
  <2>1. w \in Worker /\ NotifyOne(w)
    BY <1>2, ShardAssumption DEF Post, Current, ShardOf
  <2>2. /\ queue' = [queue EXCEPT ![w] = Append(@, Current(s))]
        /\ UNCHANGED <<busy, stopping, cursor>>
    BY <1>2 DEF Post
  <2> HIDE DEF w
  <2>3. \/ Sleepers(w) = {} /\ wpc' = wpc /\ mpc' = mpc
        \/ wpc[w] = "asleep" /\ wpc' = [wpc EXCEPT ![w] = "check"] /\ mpc' = mpc
        \/ mpc = "flushAsleep" /\ cursor = w /\ wpc' = wpc /\ mpc' = "flush"
    BY <2>1, NotifyOneEffect DEF Shape
  <2>4. Append(queue[w], Current(s)) # <<>>
    <3>1. Current(s) \in Line /\ queue[w] \in Seq(Line)
      BY <1>0, <1>2, <2>1 DEF Current, Line, Shape, CallHasLine, Post
    <3>2. QED
      BY <3>1, AppendProperties
  <2>5. wpc'[w] # "asleep"
    BY <1>0, <2>1, <2>3 DEF Sleepers
  <2>6. ASSUME NEW v \in Worker, v # w
        PROVE  queue'[v] = queue[v] /\ wpc'[v] = wpc[v]
    BY <1>0, <2>1, <2>2, <2>3, <2>6
  <2>7. queue'[w] # <<>>
    BY <1>0, <2>1, <2>2, <2>4
  <2>8. mpc' = mpc \/ (mpc = "flushAsleep" /\ mpc' = "flush")
    BY <2>3
  <2>9. QED
    BY <1>0, <2>1, <2>2, <2>5, <2>6, <2>7, <2>8
<1>3. ASSUME NEW s \in Source, Drop(s) PROVE Wake'
  BY <1>0, <1>3 DEF Drop, poolVars, mainVars
<1>4. ASSUME NEW s \in Source, ProcessInline(s) PROVE Wake'
  BY <1>0, <1>4 DEF ProcessInline, poolVars, mainVars
<1>5. ASSUME NEW w \in Worker, Take(w) PROVE Wake'
  BY <1>0, <1>5 DEF Take, lineVars, mainVars
<1>6. ASSUME NEW w \in Worker, Sleep(w) PROVE Wake'
  BY <1>0, <1>6 DEF Sleep, HasWork, lineVars, mainVars
<1>7. ASSUME NEW w \in Worker, Exit(w) PROVE Wake'
  BY <1>0, <1>7 DEF Exit, MayExit, lineVars, mainVars
<1>8. ASSUME NEW w \in Worker, Run(w) PROVE Wake'
  BY <1>0, <1>8 DEF Run, mainVars
<1>9. ASSUME NEW w \in Worker, Finish(w) PROVE Wake'
  BY <1>0, <1>9 DEF Finish, lineVars, mainVars
<1>10. ASSUME NEW w \in Worker, NotifyFlusher(w) PROVE Wake'
  BY <1>0, <1>10 DEF NotifyFlusher, Sleepers, lineVars
<1>11. ASSUME NEW w \in Worker, SpuriousWakeup(w) PROVE Wake'
  <2>1. \/ wpc[w] = "asleep" /\ wpc' = [wpc EXCEPT ![w] = "check"] /\ mpc' = mpc
        \/ mpc = "flushAsleep" /\ cursor = w /\ wpc' = wpc /\ mpc' = "flush"
    BY <1>11, AwakeEffect DEF SpuriousWakeup, Shape
  <2>2. QED
    BY <1>0, <1>11, <2>1 DEF SpuriousWakeup, lineVars
<1>12. CASE StartWorkers
  BY <1>0, <1>12 DEF StartWorkers, lineVars
<1>13. CASE StaySynchronous
  BY <1>0, <1>13 DEF StaySynchronous, poolVars, lineVars
<1>14. CASE StartWatcher
  BY <1>0, <1>14 DEF StartWatcher, poolVars, lineVars
<1>15. CASE ReloadPlugins
  BY <1>0, <1>15 DEF ReloadPlugins, BeginFlush, poolVars, lineVars
<1>16. CASE FlushPass
  BY <1>0, <1>16 DEF FlushPass, poolVars, lineVars
<1>17. CASE FlushSleep
  BY <1>0, <1>17 DEF FlushSleep, FlushMayPass, poolVars, lineVars
<1>18. CASE EndReload
  BY <1>0, <1>18 DEF EndReload, poolVars, lineVars
<1>19. ASSUME NEW why \in {"stop", "destroy"}, StopWatcher(why) PROVE Wake'
  BY <1>0, <1>19 DEF StopWatcher, poolVars, lineVars
<1>20. CASE JoinWatcher
  BY <1>0, <1>20 DEF JoinWatcher, WatcherJoined, BeginFlush, poolVars, lineVars
<1>21. CASE StopWorkers
  BY <1>0, <1>21 DEF StopWorkers, lineVars
<1>22. CASE MarkStopping
  BY <1>0, <1>22 DEF MarkStopping, lineVars
<1>23. CASE NotifyStopping
  BY <1>0, <1>23 DEF NotifyStopping, lineVars
<1>24. CASE JoinWorkers
  BY <1>0, <1>24 DEF JoinWorkers, lineVars
<1>25. CASE UNCHANGED vars
  BY <1>0, <1>25 DEF vars, poolVars, lineVars, mainVars
<1>26. QED
  BY <1>1, <1>2, <1>3, <1>4, <1>5, <1>6, <1>7, <1>8, <1>9, <1>10, <1>11, <1>12,
     <1>13, <1>14, <1>15, <1>16, <1>17, <1>18, <1>19, <1>20, <1>21, <1>22, <1>23,
     <1>24, <1>25
  DEF Next, Producing, Working, Controlling, Stop

\* Sleep is as it should be in every reachable state.
THEOREM WakeInvariant == Spec => [](Shape /\ Stage /\ Wake)
BY WakeInit, WakeNext, StageInvariant, PTL DEF Spec

\* No wakeup is lost, for any number of workers, sources and lines.
THEOREM NoWakeupIsLost == Spec => []NoLostWakeup
<1>1. ASSUME Shape, Stage, Wake PROVE NoLostWakeup
  <2>1. \A w \in Worker : mpc = "flushAsleep" => ~ stopping[w]
    BY <1>1 DEF Stage, StopPhase, PoolPhase
  <2>2. QED
    BY <1>1, <2>1 DEF Wake, NoLostWakeup, HasWork, FlushMayPass
<1>2. QED
  BY <1>1, WakeInvariant, PTL

--------------------------------------------------------------------------------
(* Where lines are.                                                        *)

\* The lines worker w has accepted and not processed.
Held(w) == Elements(queue[w]) \cup Elements(job[w])

\* Elements of the sequences the pool builds.
LEMMA ElementsAppend ==
  ASSUME NEW S, NEW q \in Seq(S), NEW e \in S
  PROVE  Elements(Append(q, e)) = Elements(q) \cup {e}
<1> DEFINE more == Append(q, e)
<1>1. /\ Len(q) \in Nat /\ Len(more) = Len(q) + 1
      /\ \A i \in 1 .. Len(q) : more[i] = q[i]
      /\ more[Len(q) + 1] = e
  BY AppendProperties, LenProperties
<1> HIDE DEF more
<1>2. Elements(more) \subseteq Elements(q) \cup {e}
  <2> SUFFICES ASSUME NEW i \in 1 .. Len(more) PROVE more[i] \in Elements(q) \cup {e}
    BY DEF Elements
  <2>1. CASE i = Len(q) + 1
    BY <2>1, <1>1
  <2>2. CASE i # Len(q) + 1
    <3>1. i \in 1 .. Len(q)
      BY <2>2, <1>1
    <3>2. QED
      BY <3>1, <1>1 DEF Elements
  <2>3. QED
    BY <2>1, <2>2
<1>3. Elements(q) \cup {e} \subseteq Elements(more)
  <2>1. ASSUME NEW i \in 1 .. Len(q) PROVE q[i] \in Elements(more)
    <3>1. i \in 1 .. Len(more) /\ more[i] = q[i]
      BY <1>1
    <3>2. QED
      BY <3>1 DEF Elements
  <2>2. e \in Elements(more)
    <3>1. Len(more) \in 1 .. Len(more) /\ more[Len(more)] = e
      BY <1>1
    <3>2. QED
      BY <3>1 DEF Elements
  <2>3. QED
    BY <2>1, <2>2 DEF Elements
<1>4. QED
  BY <1>2, <1>3 DEF more

\* Taking the first element off leaves the others.
LEMMA ElementsHeadTail ==
  ASSUME NEW S, NEW q \in Seq(S), q # <<>>
  PROVE  Elements(q) \subseteq {Head(q)} \cup Elements(Tail(q))
<1>1. /\ Len(q) \in Nat \ {0} /\ Len(Tail(q)) = Len(q) - 1
      /\ \A i \in 1 .. Len(Tail(q)) : Tail(q)[i] = q[i + 1]
      /\ Head(q) = q[1]
  BY HeadTailProperties, EmptySeq
<1> SUFFICES ASSUME NEW i \in 1 .. Len(q)
             PROVE  q[i] \in {Head(q)} \cup Elements(Tail(q))
  BY DEF Elements
<1>2. CASE i = 1
  BY <1>1, <1>2
<1>3. CASE i # 1
  <2>1. i - 1 \in 1 .. Len(Tail(q)) /\ Tail(q)[i - 1] = q[i]
    BY <1>1, <1>3
  <2>2. QED
    BY <2>1 DEF Elements
<1>4. QED
  BY <1>2, <1>3

\* One element, or none.
LEMMA ElementsSmall == Elements(<<>>) = {} /\ \A l : Elements(<<l>>) = {l}
<1>1. Elements(<<>>) = {}
  BY DEF Elements
<1>2. ASSUME NEW l PROVE Elements(<<l>>) = {l}
  <2>1. Len(<<l>>) = 1 /\ <<l>>[1] = l
    OBVIOUS
  <2>2. QED
    BY <2>1 DEF Elements
<1>3. QED
  BY <1>1, <1>2

\* A line in a worker's hand is one line.
LEMMA JobIsOneLine ==
  ASSUME Shape, NEW w \in Worker
  PROVE  job[w] = <<>> \/ \E l \in Line : job[w] = <<l>>
BY DEF Shape, TypeOK

\* What was delivered stays delivered when the number of a line is appended.
LEMMA DeliveredGrows ==
  ASSUME Shape, NEW s \in Source, NEW n \in 1 .. MaxLines,
         delivered' = [delivered EXCEPT ![s] = Append(@, n)]
  PROVE  Delivered' = Delivered \cup {[src |-> s, num |-> n]}
<1>1. delivered \in [Source -> Seq(1 .. MaxLines)]
  BY DEF Shape, TypeOK
<1>2. Elements(delivered'[s]) = Elements(delivered[s]) \cup {n}
  <2>1. delivered'[s] = Append(delivered[s], n)
    BY <1>1
  <2>2. delivered[s] \in Seq(1 .. MaxLines)
    BY <1>1
  <2>3. Elements(Append(delivered[s], n)) = Elements(delivered[s]) \cup {n}
    <3> DEFINE Number == 1 .. MaxLines
    <3>1. delivered[s] \in Seq(Number) /\ n \in Number
      BY <2>2
    <3> HIDE DEF Number
    <3>2. QED
      BY <3>1, ElementsAppend
  <2>4. QED
    BY <2>1, <2>3
<1>3. \A r \in Source : r # s => delivered'[r] = delivered[r]
  BY <1>1
<1>4. ASSUME NEW l \in Line
      PROVE  l.num \in Elements(delivered'[l.src]) <=>
               l.num \in Elements(delivered[l.src]) \/ l = [src |-> s, num |-> n]
  BY <1>2, <1>3 DEF Line
<1>5. [src |-> s, num |-> n] \in Line
  BY DEF Line
<1>6. QED
  BY <1>4, <1>5 DEF Delivered

\* Filing the current line of s.
LEMMA PostMoves ==
  ASSUME Shape, NEW s \in Source, Post(s)
  PROVE  /\ ShardOf(Current(s)) \in Worker /\ Current(s) \in Line
         /\ Current(s) \in Held(ShardOf(Current(s)))'
         /\ \A w \in Worker : Held(w) \subseteq Held(w)'
<1> DEFINE v == ShardOf(Current(s))
<1>1. v \in Worker /\ Current(s) \in Line
  BY ShardAssumption DEF Post, Current, Line, ShardOf, Shape, CallHasLine
<1>2. queue' = [queue EXCEPT ![v] = Append(@, Current(s))] /\ job' = job
  BY DEF Post
<1>3. queue \in [Worker -> Seq(Line)]
  BY DEF Shape, TypeOK
<1>4. UNCHANGED Current(s)
  BY DEF Post, Current
<1> HIDE DEF v
<1>5. Elements(queue'[v]) = Elements(queue[v]) \cup {Current(s)}
  BY <1>1, <1>2, <1>3, ElementsAppend
<1>6. \A w \in Worker : w # v => queue'[w] = queue[w]
  BY <1>2, <1>3
<1>7. Current(s) \in Elements(queue'[v]) \cup Elements(job'[v])
  BY <1>5
<1>8. \A w \in Worker : Elements(queue[w]) \subseteq Elements(queue'[w])
  BY <1>5, <1>6
<1>9. v' = v
  BY <1>4 DEF v, ShardOf
<1>10. QED
  BY <1>1, <1>2, <1>7, <1>8, <1>9 DEF Held, v

\* Taking a line from the queue into the hand.
LEMMA TakeMoves ==
  ASSUME Shape, NEW v \in Worker, Take(v)
  PROVE  \A w \in Worker : Held(w) \subseteq Held(w)'
<1>1. /\ queue[v] # <<>> /\ wpc[v] = "check"
      /\ job' = [job EXCEPT ![v] = <<Head(queue[v])>>]
      /\ queue' = [queue EXCEPT ![v] = Tail(@)]
  BY DEF Take
<1>2. queue \in [Worker -> Seq(Line)] /\ job \in [Worker -> {<<>>} \cup {<<l>> : l \in Line}]
  BY DEF Shape, TypeOK
<1>3. job[v] = <<>>
  BY <1>1 DEF Shape, JobMatches
<1>4. /\ queue'[v] = Tail(queue[v]) /\ job'[v] = <<Head(queue[v])>>
      /\ \A w \in Worker : w # v => queue'[w] = queue[w] /\ job'[w] = job[w]
  BY <1>1, <1>2
<1>5. Elements(queue[v]) \subseteq {Head(queue[v])} \cup Elements(queue'[v])
  BY <1>1, <1>2, <1>4, ElementsHeadTail
<1>6. Elements(job'[v]) = {Head(queue[v])} /\ Elements(job[v]) = {}
  BY <1>3, <1>4, ElementsSmall
<1>7. QED
  BY <1>4, <1>5, <1>6 DEF Held

\* Processing the line in the hand.
LEMMA RunMoves ==
  ASSUME Shape, NEW v \in Worker, Run(v)
  PROVE  /\ Delivered \subseteq Delivered'
         /\ \A w \in Worker : Held(w) \subseteq Held(w)' \cup Delivered'
<1>1. PICK l \in Line : job[v] = <<l>>
  BY JobIsOneLine DEF Run, Shape, JobMatches
<1>2. /\ Head(job[v]) = l /\ l.src \in Source /\ l.num \in 1 .. MaxLines
      /\ l = [src |-> l.src, num |-> l.num]
  BY <1>1 DEF Line
<1>3. delivered' = [delivered EXCEPT ![l.src] = Append(@, l.num)]
      /\ queue' = queue /\ job' = [job EXCEPT ![v] = <<>>]
  BY <1>2 DEF Run
<1>4. Delivered' = Delivered \cup {l}
  BY <1>2, <1>3, DeliveredGrows
<1>5. \A w \in Worker : w # v => job'[w] = job[w]
  BY <1>3 DEF Shape, TypeOK
<1>6. Elements(job[v]) = {l}
  BY <1>1, ElementsSmall
<1>7. QED
  BY <1>3, <1>4, <1>5, <1>6 DEF Held

\* What a line that was accepted can do in a step: stay with its worker or be
\* delivered. No step of any thread makes it vanish.
LEMMA NothingVanishes ==
  Shape /\ [Next]_vars => /\ Delivered \subseteq Delivered'
                          /\ \A w \in Worker : Held(w) \subseteq Held(w)' \cup Delivered'
<1> DEFINE Kept == /\ Delivered \subseteq Delivered'
                   /\ \A w \in Worker : Held(w) \subseteq Held(w)' \cup Delivered'
<1> SUFFICES ASSUME Shape, [Next]_vars PROVE Kept
  OBVIOUS
<1>1. ASSUME UNCHANGED <<queue, job, delivered>> PROVE Kept
  BY <1>1 DEF Held, Delivered
<1>2. ASSUME NEW s \in Source, Post(s) PROVE Kept
  <2>1. UNCHANGED delivered
    BY <1>2 DEF Post
  <2>2. QED
    BY <1>2, <2>1, PostMoves DEF Delivered
<1>3. ASSUME NEW s \in Source, ProcessInline(s) PROVE Kept
  <2>1. sent[s] \in 1 .. MaxLines /\ delivered' = [delivered EXCEPT ![s] = Append(@, sent[s])]
        /\ UNCHANGED <<queue, job>>
    BY <1>3 DEF ProcessInline, Shape, CallHasLine, poolVars
  <2>2. QED
    BY <2>1, DeliveredGrows DEF Held
<1>4. ASSUME NEW w \in Worker, Take(w) PROVE Kept
  <2>1. UNCHANGED delivered
    BY <1>4 DEF Take, lineVars
  <2>2. QED
    BY <1>4, <2>1, TakeMoves DEF Delivered
<1>5. ASSUME NEW w \in Worker, Run(w) PROVE Kept
  BY <1>5, RunMoves
<1>6. ASSUME NEW s \in Source, ProcessRaw(s) \/ Drop(s)
      PROVE  UNCHANGED <<queue, job, delivered>>
  BY <1>6 DEF ProcessRaw, Drop, poolVars
<1>7. ASSUME NEW w \in Worker,
             Sleep(w) \/ Exit(w) \/ Finish(w) \/ NotifyFlusher(w) \/ SpuriousWakeup(w)
      PROVE  UNCHANGED <<queue, job, delivered>>
  BY <1>7 DEF Sleep, Exit, Finish, NotifyFlusher, SpuriousWakeup, lineVars
<1>8. ASSUME Controlling \/ ReloadPlugins \/ Stop
      PROVE  UNCHANGED <<queue, job, delivered>>
  BY <1>8 DEF Controlling, StartWorkers, StaySynchronous, StartWatcher, FlushPass,
     FlushSleep, EndReload, JoinWatcher, StopWorkers, MarkStopping, NotifyStopping,
     JoinWorkers, ReloadPlugins, Stop, StopWatcher, poolVars, lineVars
<1>9. CASE UNCHANGED vars
  BY <1>1, <1>9 DEF vars, poolVars, lineVars
<1> HIDE DEF Kept
<1>10. QED
  BY <1>1, <1>2, <1>3, <1>4, <1>5, <1>6, <1>7, <1>8, <1>9 DEF Next, Producing, Working

--------------------------------------------------------------------------------
(* flush().                                                                *)

\* The lines a flush waits for are delivered, or with a worker the loop of the
\* flush has not passed.
FlushProgress ==
  /\ mpc \in {"flush", "flushAsleep"} =>
       \A l \in mark : l \in Delivered \/ \E w \in Worker : cursor <= w /\ l \in Held(w)
  /\ mpc = "flushed" /\ goal # "destroy" => mark \subseteq Delivered

\* No flush is under way initially.
LEMMA FlushInit == Init => FlushProgress
BY DEF Init, FlushProgress

\* A worker with an empty queue that is not busy holds nothing; nor does one
\* that is not running.
LEMMA IdleHoldsNothing ==
  ASSUME Shape, NEW w \in Worker, queue[w] = <<>>, ~ busy[w]
  PROVE  Held(w) = {}
<1>1. job[w] = <<>>
  BY DEF Shape, JobMatches
<1>2. QED
  BY <1>1, ElementsSmall DEF Held

\* Without a pool nothing is queued or in hand.
LEMMA NoPoolHoldsNothing ==
  ASSUME Shape, Stage, ~ started
  PROVE  \A w \in Worker : Held(w) = {}
<1> SUFFICES ASSUME NEW w \in Worker PROVE Held(w) = {}
  OBVIOUS
<1>1. wpc[w] \in {"none", "exited"} /\ queue[w] = <<>>
  BY DEF Stage, PoolPhase, StopPhase
<1>2. ~ busy[w]
  BY <1>1 DEF Shape, JobMatches
<1>3. QED
  BY <1>1, <1>2, IdleHoldsNothing

\* What a flush sets out to wait for.
LEMMA BeginFlushMarks ==
  ASSUME Shape, Stage, NEW why, BeginFlush(why), UNCHANGED <<queue, job, delivered>>
  PROVE  FlushProgress'
<1>1. \A l \in mark' : \E w \in Worker : l \in Held(w)
  BY DEF BeginFlush, Queued, InHand, Held
<1>2. cursor' = 1 /\ \A w \in Worker : 1 <= w /\ Held(w)' = Held(w)
  BY DEF BeginFlush, Worker, Held
<1>3. CASE started
  <2>1. mpc' = "flush"
    BY <1>3 DEF BeginFlush
  <2>2. QED
    BY <1>1, <1>2, <2>1 DEF FlushProgress
<1>4. CASE ~ started
  <2>1. mark' = {} /\ mpc' = "flushed"
    BY <1>1, <1>4, NoPoolHoldsNothing DEF BeginFlush
  <2>2. QED
    BY <2>1 DEF FlushProgress
<1>5. QED
  BY <1>3, <1>4

\* While the main thread stays where it is in a flush, so does the promise.
LEMMA FlushStays ==
  ASSUME Shape, FlushProgress, [Next]_vars, UNCHANGED <<mark, cursor, goal>>,
         mpc' \in {"flush", "flushAsleep"} => mpc \in {"flush", "flushAsleep"},
         mpc' = "flushed" => mpc = "flushed"
  PROVE  FlushProgress'
<1>1. /\ Delivered \subseteq Delivered'
      /\ \A w \in Worker : Held(w) \subseteq Held(w)' \cup Delivered'
  BY NothingVanishes
<1>2. ASSUME mpc' \in {"flush", "flushAsleep"}, NEW l \in mark'
      PROVE  l \in Delivered' \/ \E w \in Worker : cursor' <= w /\ l \in Held(w)'
  <2>1. l \in Delivered \/ \E w \in Worker : cursor <= w /\ l \in Held(w)
    BY <1>2 DEF FlushProgress
  <2>2. CASE l \in Delivered
    BY <1>1, <2>2
  <2>3. ASSUME NEW w \in Worker, cursor <= w, l \in Held(w)
        PROVE  l \in Delivered' \/ (cursor' <= w /\ l \in Held(w)')
    BY <1>1, <2>3
  <2>4. QED
    BY <2>1, <2>2, <2>3
<1>3. ASSUME mpc' = "flushed", goal' # "destroy" PROVE mark' \subseteq Delivered'
  BY <1>1, <1>3 DEF FlushProgress
<1>4. QED
  BY <1>2, <1>3 DEF FlushProgress

\* Every step keeps the promise of the flush.
LEMMA FlushNext == Shape /\ Stage /\ FlushProgress /\ [Next]_vars => FlushProgress'
<1> SUFFICES ASSUME Shape, Stage, FlushProgress, [Next]_vars PROVE FlushProgress'
  OBVIOUS
<1>1. ASSUME NEW s \in Source, ProcessRaw(s) \/ Drop(s) \/ ProcessInline(s)
      PROVE  FlushProgress'
  BY <1>1, FlushStays DEF ProcessRaw, Drop, ProcessInline, mainVars
<1>2. ASSUME NEW s \in Source, Post(s) PROVE FlushProgress'
  <2>1. UNCHANGED <<mark, cursor, goal>> /\ NotifyOne(ShardOf(Current(s)))
    BY <1>2 DEF Post
  <2>2. mpc' = mpc \/ (mpc = "flushAsleep" /\ mpc' = "flush")
    <3>1. ShardOf(Current(s)) \in Worker
      BY <1>2, PostMoves
    <3>2. QED
      BY <2>1, <3>1, NotifyOneEffect DEF Shape
  <2>3. QED
    BY <2>1, <2>2, FlushStays
<1>3. ASSUME NEW w \in Worker, Take(w) \/ Sleep(w) \/ Exit(w) \/ Run(w) \/ Finish(w)
      PROVE  FlushProgress'
  BY <1>3, FlushStays DEF Take, Sleep, Exit, Run, Finish, mainVars
<1>4. ASSUME NEW w \in Worker, NotifyFlusher(w) PROVE FlushProgress'
  BY <1>4, FlushStays DEF NotifyFlusher, Sleepers, Worker
<1>5. ASSUME NEW w \in Worker, SpuriousWakeup(w) PROVE FlushProgress'
  <2>1. mpc' = mpc \/ (mpc = "flushAsleep" /\ mpc' = "flush")
    BY <1>5, AwakeEffect DEF SpuriousWakeup, Shape
  <2>2. QED
    BY <1>5, <2>1, FlushStays DEF SpuriousWakeup
<1>6. ASSUME StartWorkers \/ StaySynchronous \/ StartWatcher \/ EndReload
             \/ MarkStopping \/ JoinWorkers \/ StopWorkers \/ NotifyStopping \/ Stop
      PROVE  FlushProgress'
  <2>1. mpc' \notin {"flush", "flushAsleep", "flushed"}
    BY <1>6 DEF StartWorkers, StaySynchronous, StartWatcher, EndReload, MarkStopping,
       JoinWorkers, StopWorkers, NotifyStopping, Stop, StopWatcher
  <2>2. QED
    BY <2>1 DEF FlushProgress
<1>7. CASE ReloadPlugins
  BY <1>7, BeginFlushMarks DEF ReloadPlugins, poolVars, lineVars
<1>8. CASE JoinWatcher
  <2>1. CASE goal = "stop"
    BY <1>8, <2>1, BeginFlushMarks DEF JoinWatcher, poolVars, lineVars
  <2>2. CASE goal # "stop"
    <3>1. goal' = goal /\ goal = "destroy" /\ mpc' = "flushed"
      BY <1>8, <2>2 DEF JoinWatcher, Shape, GoalOfJoin
    <3>2. QED
      BY <3>1 DEF FlushProgress
  <2>3. QED
    BY <2>1, <2>2
<1>9. CASE FlushSleep
  BY <1>9, FlushStays DEF FlushSleep
<1>10. CASE FlushPass
  <2>1. /\ mpc = "flush" /\ cursor' = cursor + 1
        /\ mpc' = IF cursor = NumWorkers THEN "flushed" ELSE "flush"
        /\ UNCHANGED <<mark, goal, queue, job, delivered>>
    BY <1>10 DEF FlushPass, poolVars, lineVars
  <2>2. cursor \in Worker
    BY <2>1 DEF Shape, CursorInLoop
  <2>3. ~ stopping[cursor]
    BY <2>1, <2>2 DEF Stage, StopPhase, PoolPhase
  <2>4. Held(cursor) = {}
    BY <1>10, <2>2, <2>3, IdleHoldsNothing DEF FlushPass, FlushMayPass
  <2>5. Delivered' = Delivered /\ \A w \in Worker : Held(w)' = Held(w)
    BY <2>1 DEF Delivered, Held
  <2>6. ASSUME NEW l \in mark
        PROVE  l \in Delivered \/ \E w \in Worker : cursor + 1 <= w /\ l \in Held(w)
    <3>1. l \in Delivered \/ \E w \in Worker : cursor <= w /\ l \in Held(w)
      BY <2>1 DEF FlushProgress
    <3>2. ASSUME NEW w \in Worker, cursor <= w, l \in Held(w) PROVE cursor + 1 <= w
      BY <2>2, <2>4, <3>2 DEF Worker
    <3>3. QED
      BY <3>1, <3>2
  <2>7. CASE cursor = NumWorkers
    <3>1. \A w \in Worker : ~ (cursor + 1 <= w)
      BY <2>2, <2>7, WorkersAssumption DEF Worker
    <3>2. QED
      BY <2>1, <2>5, <2>6, <2>7, <3>1 DEF FlushProgress
  <2>8. CASE cursor # NumWorkers
    <3>1. mpc' = "flush"
      BY <2>1, <2>8
    <3>2. QED
      BY <2>1, <2>5, <2>6, <3>1 DEF FlushProgress
  <2>9. QED
    BY <2>7, <2>8
<1>11. CASE UNCHANGED vars
  BY <1>11, FlushStays DEF vars, mainVars
<1>12. QED
  BY <1>1, <1>2, <1>3, <1>4, <1>5, <1>6, <1>7, <1>8, <1>9, <1>10, <1>11
  DEF Next, Producing, Working, Controlling

\* The promise of the flush holds in every reachable state.
THEOREM FlushInvariant == Spec => [](Shape /\ Stage /\ FlushProgress)
BY FlushInit, FlushNext, StageInvariant, PTL DEF Spec

\* When flush returns, the lines accepted before it was called are processed,
\* for every number of workers and whatever arrives meanwhile.
THEOREM FlushIsComplete == Spec => []FlushCompletesInFlight
<1>1. FlushProgress => FlushCompletesInFlight
  BY DEF FlushProgress, FlushCompletesInFlight
<1>2. QED
  BY <1>1, FlushInvariant, PTL

--------------------------------------------------------------------------------
(* No line is lost without being counted.                                  *)

\* A line handed to process_raw is in its call, with a worker, delivered or
\* counted.
Accounted ==
  \A l \in Line : l.num <= sent[l.src] =>
    \/ l = Current(l.src) /\ ppc[l.src] # "idle"
    \/ \E w \in Worker : l \in Held(w)
    \/ l \in Delivered
    \/ l \in dropped

\* Nothing was sent initially.
LEMMA AccountedInit == Init => Accounted
<1>1. ASSUME Init, NEW l \in Line PROVE ~ (l.num <= sent[l.src])
  BY <1>1, BoundsAssumption DEF Init, Line
<1>2. QED
  BY <1>1 DEF Accounted

\* A step that hands over no line and ends no call keeps the books.
LEMMA AccountedStays ==
  ASSUME Shape, Accounted, [Next]_vars, UNCHANGED <<sent, ppc>>, dropped \subseteq dropped'
  PROVE  Accounted'
<1>1. /\ Delivered \subseteq Delivered'
      /\ \A w \in Worker : Held(w) \subseteq Held(w)' \cup Delivered'
  BY NothingVanishes
<1>2. QED
  BY <1>1 DEF Accounted, Current

\* The end of a call of process_raw accounts for its line.
LEMMA AccountedEndOfCall ==
  ASSUME Shape, Accounted, [Next]_vars, NEW s \in Source, dropped \subseteq dropped',
         sent' = sent, ppc' = [ppc EXCEPT ![s] = "idle"],
         (\E w \in Worker : Current(s) \in Held(w)') \/ Current(s) \in Delivered'
           \/ Current(s) \in dropped'
  PROVE  Accounted'
<1>1. /\ Delivered \subseteq Delivered'
      /\ \A w \in Worker : Held(w) \subseteq Held(w)' \cup Delivered'
  BY NothingVanishes
<1>2. \A r \in Source : r # s => ppc'[r] = ppc[r]
  BY DEF Shape, TypeOK
<1>3. ASSUME NEW l \in Line, l.num <= sent'[l.src]
      PROVE  \/ l = Current(l.src)' /\ ppc'[l.src] # "idle"
             \/ \E w \in Worker : l \in Held(w)'
             \/ l \in Delivered'
             \/ l \in dropped'
  <2>1. l.src \in Source /\ l.num <= sent[l.src]
    BY <1>3 DEF Line
  <2>2. CASE l.src = s /\ l = Current(s)
    BY <2>2
  <2>3. CASE ~ (l.src = s /\ l = Current(s))
    <3>1. \/ l = Current(l.src) /\ ppc[l.src] # "idle" /\ l.src # s
          \/ \E w \in Worker : l \in Held(w)
          \/ l \in Delivered
          \/ l \in dropped
      BY <2>1, <2>3 DEF Accounted
    <3>2. Current(l.src)' = Current(l.src)
      BY DEF Current
    <3>3. QED
      BY <1>1, <1>2, <2>1, <3>1, <3>2
  <2>4. QED
    BY <2>2, <2>3
<1>4. QED
  BY <1>3 DEF Accounted

\* Every step keeps the books.
LEMMA AccountedNext == Shape /\ Accounted /\ [Next]_vars => Accounted'
<1> SUFFICES ASSUME Shape, Accounted, [Next]_vars PROVE Accounted'
  OBVIOUS
<1>1. ASSUME NEW s \in Source, ProcessRaw(s) PROVE Accounted'
  <2>1. /\ ppc[s] = "idle" /\ sent' = [sent EXCEPT ![s] = @ + 1]
        /\ ppc'[s] # "idle" /\ \A r \in Source : r # s => ppc'[r] = ppc[r]
        /\ UNCHANGED <<queue, job, delivered, dropped>>
    BY <1>1 DEF ProcessRaw, Shape, TypeOK, poolVars
  <2>2. sent \in [Source -> 0 .. MaxLines]
    BY DEF Shape, TypeOK
  <2>3. ASSUME NEW l \in Line, l.num <= sent'[l.src]
        PROVE  \/ l = Current(l.src)' /\ ppc'[l.src] # "idle"
               \/ \E w \in Worker : l \in Held(w)'
               \/ l \in Delivered'
               \/ l \in dropped'
    <3>1. /\ l.src \in Source /\ l.num \in 1 .. MaxLines
          /\ l = [src |-> l.src, num |-> l.num]
      BY DEF Line
    <3>2. CASE l.src = s /\ l.num = sent[s] + 1
      <4>1. sent'[s] = sent[s] + 1
        BY <2>1, <2>2
      <4>2. l = [src |-> s, num |-> sent'[s]]
        BY <3>1, <3>2, <4>1
      <4>3. QED
        BY <2>1, <3>2, <4>2 DEF Current
    <3>3. CASE ~ (l.src = s /\ l.num = sent[s] + 1)
      <4>1. l.num <= sent[l.src]
        <5>1. CASE l.src = s
          BY <2>1, <2>2, <2>3, <3>1, <3>3, <5>1, BoundsAssumption
        <5>2. CASE l.src # s
          BY <2>1, <2>2, <2>3, <3>1, <5>2
        <5>3. QED
          BY <5>1, <5>2
      <4>2. \/ l = Current(l.src) /\ ppc[l.src] # "idle"
            \/ \E w \in Worker : l \in Held(w)
            \/ l \in Delivered
            \/ l \in dropped
        BY <4>1 DEF Accounted
      <4>3. Delivered' = Delivered /\ \A w \in Worker : Held(w)' = Held(w)
        BY <2>1 DEF Delivered, Held
      <4>4. CASE l = Current(l.src) /\ ppc[l.src] # "idle"
        <5>1. l.src # s
          BY <2>1, <4>4
        <5>2. Current(l.src)' = Current(l.src) /\ ppc'[l.src] = ppc[l.src]
          BY <2>1, <2>2, <3>1, <5>1 DEF Current
        <5>3. QED
          BY <4>4, <5>2
      <4>5. QED
        BY <2>1, <4>2, <4>3, <4>4
    <3>4. QED
      BY <3>2, <3>3
  <2>4. QED
    BY <2>3 DEF Accounted
<1>2. ASSUME NEW s \in Source, Post(s) PROVE Accounted'
  <2>1. /\ sent' = sent /\ ppc' = [ppc EXCEPT ![s] = "idle"] /\ dropped' = dropped
    BY <1>2 DEF Post
  <2>2. Current(s)' = Current(s)
    BY <2>1 DEF Current
  <2>3. \E w \in Worker : Current(s) \in Held(w)'
    <3>1. ShardOf(Current(s)) \in Worker /\ Current(s) \in Held(ShardOf(Current(s)))'
      BY <1>2, PostMoves
    <3>2. ShardOf(Current(s))' = ShardOf(Current(s))
      BY <2>2 DEF ShardOf
    <3>3. QED
      BY <3>1, <3>2 DEF Held
  <2>4. QED
    BY <2>1, <2>3, AccountedEndOfCall
<1>3. ASSUME NEW s \in Source, Drop(s) PROVE Accounted'
  <2>1. /\ sent' = sent /\ ppc' = [ppc EXCEPT ![s] = "idle"]
        /\ dropped' = dropped \cup {Current(s)}
    BY <1>3 DEF Drop, CountDropped
  <2>2. QED
    BY <2>1, AccountedEndOfCall
<1>4. ASSUME NEW s \in Source, ProcessInline(s) PROVE Accounted'
  <2>1. /\ sent' = sent /\ ppc' = [ppc EXCEPT ![s] = "idle"] /\ dropped' = dropped
        /\ delivered' = [delivered EXCEPT ![s] = Append(@, sent[s])]
        /\ sent[s] \in 1 .. MaxLines
    BY <1>4 DEF ProcessInline, Shape, CallHasLine
  <2>2. Current(s) \in Delivered'
    BY <2>1, DeliveredGrows DEF Current
  <2>3. QED
    BY <2>1, <2>2, AccountedEndOfCall
<1>5. ASSUME NEW w \in Worker,
             \/ Take(w) \/ Sleep(w) \/ Exit(w) \/ Run(w) \/ Finish(w)
             \/ NotifyFlusher(w) \/ SpuriousWakeup(w)
      PROVE  UNCHANGED <<sent, ppc, dropped>>
  BY <1>5 DEF Take, Sleep, Exit, Run, Finish, NotifyFlusher, SpuriousWakeup, lineVars
<1>6. ASSUME Controlling \/ ReloadPlugins \/ Stop
      PROVE  UNCHANGED <<sent, ppc, dropped>>
  BY <1>6 DEF Controlling, StartWorkers, StaySynchronous, StartWatcher, FlushPass,
     FlushSleep, EndReload, JoinWatcher, StopWorkers, MarkStopping, NotifyStopping,
     JoinWorkers, ReloadPlugins, Stop, StopWatcher, lineVars
<1>7. CASE UNCHANGED vars
  BY <1>7, AccountedStays DEF vars, lineVars
<1>8. ASSUME UNCHANGED <<sent, ppc, dropped>> PROVE Accounted'
  BY <1>8, AccountedStays
<1>9. QED
  BY <1>1, <1>2, <1>3, <1>4, <1>5, <1>6, <1>7, <1>8 DEF Next, Producing, Working

\* Stopping the pool, with or without a flush before it, leaves no line behind:
\* for every pool, each line is delivered or counted as dropped.
THEOREM StopDrainsAll == Spec => []StopDrains
<1>1. ASSUME Shape, Stage, Accounted PROVE StopDrains
  <2> SUFFICES ASSUME mpc = "stopped", NEW l \in Line, l.num <= sent[l.src]
               PROVE  l \in Delivered \cup dropped
    BY DEF StopDrains
  <2>1. ~ started /\ \A s \in Source : ppc[s] = "idle"
    BY <1>1 DEF Stage, PoolPhase, CallPhase, Ending
  <2>2. \A w \in Worker : Held(w) = {}
    BY <1>1, <2>1, NoPoolHoldsNothing
  <2>3. l.src \in Source
    BY DEF Line
  <2>4. QED
    BY <1>1, <2>1, <2>2, <2>3 DEF Accounted
<1>2. QED
  BY <1>1, AccountedInit, AccountedNext, StageInvariant, PTL DEF Spec
--------------------------------------------------------------------------------
(* Lines of one source keep their order, and each is in one place.         *)

\* The lines accepted and not processed, over all workers.
Waiting == UNION {Held(w) : w \in Worker}

\* Lines wait with the worker of their source, oldest first, the one in the hand before
\* those in the queue and after those delivered.
LineOrder ==
  /\ \A w \in Worker : \A l \in Held(w) : ShardOf(l) = w
  /\ \A w \in Worker : \A i, j \in 1 .. Len(queue[w]) :
       i < j /\ queue[w][i].src = queue[w][j].src => queue[w][i].num < queue[w][j].num
  /\ \A w \in Worker : \A h \in Elements(job[w]), l \in Elements(queue[w]) :
       h.src = l.src => h.num < l.num
  /\ \A d \in Delivered, l \in Waiting : d.src = l.src => d.num < l.num
  /\ SourceOrder

\* The line of a call is the youngest of its source, and what was dropped is nowhere else.
\* Without workers nothing waits.
LinePlace ==
  /\ \A l \in Waiting \cup Delivered \cup dropped :
       l.num <= sent[l.src] /\ (ppc[l.src] # "idle" => l.num < sent[l.src])
  /\ dropped \cap (Waiting \cup Delivered) = {}
  /\ \A s \in Source : ppc[s] = "inline" => ~ started

OrderInv == LineOrder /\ LinePlace

\* Nothing is out of order before the first line.
LEMMA OrderInit == Init => OrderInv
<1> SUFFICES ASSUME Init PROVE OrderInv
  OBVIOUS
<1>1. \A w \in Worker : Len(queue[w]) = 0 /\ Held(w) = {} /\ Elements(job[w]) = {}
  BY ElementsSmall, EmptySeq DEF Init, Held
<1>2. \A s \in Source : Len(delivered[s]) = 0 /\ Elements(delivered[s]) = {}
  BY ElementsSmall, EmptySeq DEF Init
<1>3. Waiting = {} /\ Delivered = {} /\ dropped = {}
  <2>1. Delivered = {}
    BY <1>2 DEF Delivered, Line
  <2>2. QED
    BY <1>1, <2>1 DEF Waiting, Init
<1>4. \A s \in Source : ppc[s] = "idle"
  BY DEF Init
<1>5. QED
  BY <1>1, <1>2, <1>3, <1>4 DEF OrderInv, LineOrder, LinePlace, SourceOrder

\* Lines that wait are lines.
LEMMA WaitingAreLines ==
  ASSUME Shape
  PROVE  Waiting \subseteq Line /\ Delivered \subseteq Line /\ dropped \subseteq Line
<1>1. Queued \subseteq Line /\ InHand \subseteq Line
  BY LinesInside DEF Shape
<1>2. Waiting \subseteq Queued \cup InHand
  BY DEF Waiting, Held, Queued, InHand
<1>3. QED
  BY <1>1, <1>2 DEF Delivered, Shape, TypeOK

\* A step that moves no line and ends or begins no call.
LEMMA OrderStays ==
  ASSUME OrderInv, UNCHANGED <<queue, job, delivered, dropped, sent, ppc>>,
         started' => started \/ \A s \in Source : ppc[s] = "idle"
  PROVE  OrderInv'
<1>1. UNCHANGED <<Waiting, Delivered>> /\ \A w \in Worker : UNCHANGED Held(w)
  BY DEF Waiting, Held, Delivered
<1>2. LineOrder'
  BY <1>1 DEF OrderInv, LineOrder, SourceOrder, ShardOf
<1>3. LinePlace'
  BY <1>1 DEF OrderInv, LinePlace
<1>4. QED
  BY <1>2, <1>3 DEF OrderInv

\* A new call: its line is younger than all others of its source.
LEMMA OrderCall ==
  ASSUME Shape, Stage, OrderInv, NEW s \in Source, ProcessRaw(s)
  PROVE  OrderInv'
<1>1. /\ sent' = [sent EXCEPT ![s] = @ + 1] /\ watching /\ ppc[s] = "idle"
      /\ ppc' = [ppc EXCEPT ![s] = IF async THEN "post" ELSE "inline"]
      /\ UNCHANGED <<queue, job, delivered, dropped, started>>
  BY DEF ProcessRaw, poolVars
<1>2. UNCHANGED <<Waiting, Delivered>> /\ \A w \in Worker : UNCHANGED Held(w)
  BY <1>1 DEF Waiting, Held, Delivered
<1>3. LineOrder'
  BY <1>1, <1>2 DEF OrderInv, LineOrder, SourceOrder, ShardOf
<1>4. sent \in [Source -> 0 .. MaxLines] /\ ppc \in [Source -> {"idle", "post", "inline"}]
  BY DEF Shape, TypeOK
<1>5. ASSUME NEW l \in Waiting \cup Delivered \cup dropped
      PROVE  l.num <= sent'[l.src] /\ (ppc'[l.src] # "idle" => l.num < sent'[l.src])
  <2>1. l.src \in Source /\ l.num \in 1 .. MaxLines
    BY <1>5, WaitingAreLines DEF Line
  <2>2. l.num <= sent[l.src] /\ (ppc[l.src] # "idle" => l.num < sent[l.src])
    BY <1>5 DEF OrderInv, LinePlace
  <2>3. CASE l.src = s
    <3>1. sent'[s] = sent[s] + 1 /\ sent[s] \in Nat
      BY <1>1, <1>4, BoundsAssumption
    <3>2. QED
      BY <2>1, <2>2, <2>3, <3>1
  <2>4. CASE l.src # s
    BY <1>1, <1>4, <2>1, <2>2, <2>4
  <2>5. QED
    BY <2>3, <2>4
<1>6. ASSUME NEW r \in Source, ppc'[r] = "inline" PROVE ~ started'
  <2>1. CASE r = s
    <3>1. ~ async
      BY <1>1, <1>4, <1>6, <2>1
    <3>2. ~ Ending /\ (async <=> started /\ mpc \notin {"stopping", "notifyStop", "joinWorkers"})
      BY <1>1 DEF Stage, CallPhase, PoolPhase
    <3>3. QED
      BY <1>1, <3>1, <3>2 DEF Ending
  <2>2. CASE r # s
    BY <1>1, <1>4, <1>6, <2>2 DEF OrderInv, LinePlace
  <2>3. QED
    BY <2>1, <2>2
<1>7. LinePlace'
  BY <1>1, <1>2, <1>5, <1>6 DEF OrderInv, LinePlace
<1>8. QED
  BY <1>3, <1>7 DEF OrderInv

\* Filing a line puts it behind all others of its source.
LEMMA OrderPost ==
  ASSUME Shape, OrderInv, NEW s \in Source, Post(s)
  PROVE  OrderInv'
<1>0. PICK c \in Line, v \in Worker : c = Current(s) /\ v = ShardOf(c)
  <2>1. Current(s) \in Line /\ ShardOf(Current(s)) \in Worker
    BY ShardAssumption DEF Post, Current, Line, ShardOf, Shape, CallHasLine
  <2>2. QED
    BY <2>1
<1>1. c.src = s /\ c.num = sent[s] /\ c.num \in Nat
  BY <1>0 DEF Post, Current, Line, Shape, CallHasLine
<1>2. /\ queue' = [queue EXCEPT ![v] = Append(@, c)]
      /\ ppc[s] = "post" /\ ppc' = [ppc EXCEPT ![s] = "idle"]
      /\ UNCHANGED <<job, delivered, dropped, started, sent>>
  BY <1>0 DEF Post
<1>3. queue \in [Worker -> Seq(Line)] /\ ppc \in [Source -> {"idle", "post", "inline"}]
      /\ sent \in [Source -> 0 .. MaxLines]
  BY DEF Shape, TypeOK
<1>4. /\ Elements(queue'[v]) = Elements(queue[v]) \cup {c}
      /\ \A w \in Worker : w # v => queue'[w] = queue[w]
  BY <1>1, <1>2, <1>3, ElementsAppend
<1>5. /\ Held(v)' = Held(v) \cup {c}
      /\ \A w \in Worker : w # v => Held(w)' = Held(w)
  BY <1>2, <1>4 DEF Held
<1>6. Waiting' = Waiting \cup {c} /\ Delivered' = Delivered
  <2>1. Waiting' = UNION {Held(w)' : w \in Worker}
    BY DEF Waiting
  <2>2. Waiting' \subseteq Waiting \cup {c}
    BY <1>5, <2>1 DEF Waiting
  <2>3. Waiting \cup {c} \subseteq Waiting'
    BY <1>1, <1>5, <2>1 DEF Waiting
  <2>4. QED
    BY <1>2, <2>2, <2>3 DEF Delivered
<1>7. \A l \in Waiting \cup Delivered \cup dropped : l.src = s => l.num < c.num
  BY <1>1, <1>2 DEF OrderInv, LinePlace
<1>8. \A w \in Worker : \A l \in Held(w)' : ShardOf(l) = w
  BY <1>0, <1>5 DEF OrderInv, LineOrder
<1>9. ASSUME NEW w \in Worker, NEW i \in 1 .. Len(queue'[w]), NEW j \in 1 .. Len(queue'[w]),
             i < j, queue'[w][i].src = queue'[w][j].src
      PROVE  queue'[w][i].num < queue'[w][j].num
  <2>1. CASE w # v
    BY <1>4, <1>9, <2>1 DEF OrderInv, LineOrder
  <2>2. CASE w = v
    <3> DEFINE q == queue[v]
    <3>1. /\ Len(q) \in Nat /\ Len(queue'[v]) = Len(q) + 1
          /\ \A k \in 1 .. Len(q) : queue'[v][k] = q[k]
          /\ queue'[v][Len(q) + 1] = c
      <4>1. queue'[v] = Append(q, c) /\ q \in Seq(Line)
        BY <1>1, <1>2, <1>3
      <4>2. QED
        BY <1>1, <4>1, AppendProperties, LenProperties
    <3>2. i \in 1 .. Len(q)
      BY <1>9, <2>2, <3>1
    <3>3. CASE j \in 1 .. Len(q)
      BY <1>1, <1>9, <2>2, <3>1, <3>2, <3>3 DEF OrderInv, LineOrder
    <3>4. CASE j = Len(q) + 1
      <4>1. q[i] \in Waiting
        BY <1>1, <3>2 DEF Waiting, Held, Elements
      <4>2. QED
        BY <1>1, <1>7, <1>9, <2>2, <3>1, <3>2, <3>4, <4>1
    <3>5. QED
      BY <1>9, <2>2, <3>1, <3>3, <3>4
  <2>3. QED
    BY <2>1, <2>2
<1>10. ASSUME NEW w \in Worker, NEW h \in Elements(job[w]), NEW l \in Elements(queue'[w]),
              h.src = l.src
       PROVE  h.num < l.num
  <2>1. h \in Waiting
    BY <1>10 DEF Waiting, Held
  <2>2. CASE l \in Elements(queue[w])
    BY <1>10, <2>2 DEF OrderInv, LineOrder
  <2>3. CASE l \notin Elements(queue[w])
    <3>1. l = c
      BY <1>4, <1>10, <2>3
    <3>2. QED
      BY <1>1, <1>7, <1>10, <2>1, <3>1
  <2>4. QED
    BY <2>2, <2>3
<1>11. \A d \in Delivered', l \in Waiting' : d.src = l.src => d.num < l.num
  BY <1>1, <1>6, <1>7 DEF OrderInv, LineOrder
<1>12. SourceOrder'
  BY <1>2 DEF OrderInv, LineOrder, SourceOrder
<1>13. LineOrder'
  BY <1>2, <1>8, <1>9, <1>10, <1>11, <1>12 DEF LineOrder, ShardOf
<1>14. c \notin dropped /\ c \notin Delivered
  BY <1>1, <1>7
<1>15. ASSUME NEW l \in (Waiting \cup Delivered \cup dropped)'
       PROVE  l.num <= sent'[l.src] /\ (ppc'[l.src] # "idle" => l.num < sent'[l.src])
  <2>1. l = c \/ l \in Waiting \cup Delivered \cup dropped
    BY <1>2, <1>6, <1>15
  <2>2. CASE l = c
    <3>1. ppc'[s] = "idle" /\ sent[s] \in Nat
      BY <1>2, <1>3, BoundsAssumption
    <3>2. QED
      BY <1>1, <1>2, <2>2, <3>1
  <2>3. CASE l \in Waiting \cup Delivered \cup dropped
    <3>1. l.src \in Source
      BY <2>3, WaitingAreLines DEF Line
    <3>2. QED
      BY <1>2, <1>3, <2>3, <3>1 DEF OrderInv, LinePlace
  <2>4. QED
    BY <2>1, <2>2, <2>3
<1>16. LinePlace'
  <2>1. dropped' \cap (Waiting' \cup Delivered') = {}
    BY <1>2, <1>6, <1>14 DEF OrderInv, LinePlace
  <2>2. \A r \in Source : ppc'[r] = "inline" => ~ started'
    BY <1>2, <1>3 DEF OrderInv, LinePlace
  <2>3. QED
    BY <1>15, <2>1, <2>2 DEF LinePlace
<1>17. QED
  BY <1>13, <1>16 DEF OrderInv

\* A dropped line is nowhere else.
LEMMA OrderDrop ==
  ASSUME Shape, OrderInv, NEW s \in Source, Drop(s)
  PROVE  OrderInv'
<1> DEFINE c == Current(s)
<1>1. c \in Line /\ c.src = s /\ c.num = sent[s] /\ sent[s] \in Nat
  BY DEF Drop, Current, Line, Shape, CallHasLine
<1>2. /\ dropped' = dropped \cup {c}
      /\ ppc[s] = "post" /\ ppc' = [ppc EXCEPT ![s] = "idle"]
      /\ UNCHANGED <<queue, job, delivered, started, sent>>
  BY DEF Drop, CountDropped, poolVars
<1>3. ppc \in [Source -> {"idle", "post", "inline"}]
  BY DEF Shape, TypeOK
<1> HIDE DEF c
<1>4. UNCHANGED <<Waiting, Delivered>> /\ \A w \in Worker : UNCHANGED Held(w)
  BY <1>2 DEF Waiting, Held, Delivered
<1>5. LineOrder'
  BY <1>2, <1>4 DEF OrderInv, LineOrder, SourceOrder, ShardOf
<1>6. c \notin Waiting \cup Delivered
  BY <1>1, <1>2 DEF OrderInv, LinePlace
<1>7. ASSUME NEW l \in (Waiting \cup Delivered \cup dropped)'
      PROVE  l.num <= sent'[l.src] /\ (ppc'[l.src] # "idle" => l.num < sent'[l.src])
  <2>1. l = c \/ l \in Waiting \cup Delivered \cup dropped
    BY <1>2, <1>4, <1>7
  <2>2. CASE l = c
    BY <1>1, <1>2, <1>3, <2>2
  <2>3. CASE l \in Waiting \cup Delivered \cup dropped
    <3>1. l.src \in Source
      BY <2>3, WaitingAreLines DEF Line
    <3>2. QED
      BY <1>2, <1>3, <2>3, <3>1 DEF OrderInv, LinePlace
  <2>4. QED
    BY <2>1, <2>2, <2>3
<1>8. LinePlace'
  <2>1. dropped' \cap (Waiting' \cup Delivered') = {}
    BY <1>2, <1>4, <1>6 DEF OrderInv, LinePlace
  <2>2. \A r \in Source : ppc'[r] = "inline" => ~ started'
    BY <1>2, <1>3 DEF OrderInv, LinePlace
  <2>3. QED
    BY <1>7, <2>1, <2>2 DEF LinePlace
<1>9. QED
  BY <1>5, <1>8 DEF OrderInv

\* Delivering a line younger than all delivered ones of its source keeps their order.
LEMMA OrderDelivered ==
  ASSUME Shape, SourceOrder, NEW l \in Line,
         delivered' = [delivered EXCEPT ![l.src] = Append(@, l.num)],
         \A d \in Delivered : d.src = l.src => d.num < l.num
  PROVE  SourceOrder' /\ Delivered' = Delivered \cup {l}
<1>1. l.src \in Source /\ l.num \in 1 .. MaxLines /\ l = [src |-> l.src, num |-> l.num]
  BY DEF Line
<1>2. Delivered' = Delivered \cup {l}
  BY <1>1, DeliveredGrows
<1>3. delivered \in [Source -> Seq(1 .. MaxLines)]
  BY DEF Shape, TypeOK
<1>4. ASSUME NEW s \in Source, NEW i \in 1 .. Len(delivered'[s]),
             NEW j \in 1 .. Len(delivered'[s]), i < j
      PROVE  delivered'[s][i] < delivered'[s][j]
  <2>1. CASE s # l.src
    BY <1>3, <1>4, <2>1 DEF SourceOrder
  <2>2. CASE s = l.src
    <3> DEFINE q == delivered[s]
               Number == 1 .. MaxLines
    <3>1. q \in Seq(Number) /\ l.num \in Number
      BY <1>1, <1>3
    <3>2. delivered'[s] = Append(q, l.num)
      BY <1>3, <2>2
    <3> HIDE DEF Number
    <3>3. /\ Len(q) \in Nat /\ Len(delivered'[s]) = Len(q) + 1
          /\ \A k \in 1 .. Len(q) : delivered'[s][k] = q[k] /\ q[k] \in Number
          /\ delivered'[s][Len(q) + 1] = l.num
      BY <3>1, <3>2, AppendProperties, LenProperties, ElementOfSeq
    <3>4. i \in 1 .. Len(q)
      BY <1>4, <3>3
    <3>5. CASE j \in 1 .. Len(q)
      BY <1>4, <3>3, <3>4, <3>5 DEF SourceOrder
    <3>6. CASE j = Len(q) + 1
      <4> DEFINE d == [src |-> s, num |-> q[i]]
      <4>1. d \in Line /\ d.src = l.src /\ d.num = q[i]
        BY <2>2, <3>3, <3>4 DEF Line, Number
      <4>2. d \in Delivered
        BY <3>4, <4>1 DEF Delivered, Elements
      <4>3. QED
        BY <3>3, <3>4, <3>6, <4>1, <4>2
    <3>7. QED
      BY <1>4, <3>3, <3>5, <3>6
  <2>3. QED
    BY <2>1, <2>2
<1>5. QED
  BY <1>2, <1>4 DEF SourceOrder

\* Without workers the line of a call is delivered at once, behind all of its source.
LEMMA OrderInline ==
  ASSUME Shape, Stage, OrderInv, NEW s \in Source, ProcessInline(s)
  PROVE  OrderInv'
<1>0. PICK c \in Line : c = Current(s)
  BY DEF ProcessInline, Current, Line, Shape, CallHasLine
<1>1. c.src = s /\ c.num = sent[s] /\ c.num \in Nat
  BY <1>0 DEF ProcessInline, Current, Line, Shape, CallHasLine
<1>2. /\ delivered' = [delivered EXCEPT ![c.src] = Append(@, c.num)]
      /\ ppc[s] = "inline" /\ ppc' = [ppc EXCEPT ![s] = "idle"]
      /\ UNCHANGED <<queue, job, dropped, started, sent>>
  BY <1>1 DEF ProcessInline, poolVars
<1>3. ppc \in [Source -> {"idle", "post", "inline"}]
  BY DEF Shape, TypeOK
<1>4. \A l \in Waiting \cup Delivered \cup dropped : l.src = s => l.num < c.num
  BY <1>1, <1>2 DEF OrderInv, LinePlace
<1>5. SourceOrder' /\ Delivered' = Delivered \cup {c}
  BY <1>1, <1>2, <1>4, OrderDelivered DEF OrderInv, LineOrder
<1>6. Waiting = {} /\ Waiting' = {}
  <2>1. ~ started
    BY <1>2 DEF OrderInv, LinePlace
  <2>2. \A w \in Worker : Held(w) = {} /\ Held(w)' = Held(w)
    BY <1>2, <2>1, NoPoolHoldsNothing DEF Held
  <2>3. QED
    BY <2>2 DEF Waiting
<1>7. LineOrder'
  <2>1. \A w \in Worker : Held(w)' = Held(w)
    BY <1>2 DEF Held
  <2>2. QED
    BY <1>2, <1>5, <1>6, <2>1 DEF OrderInv, LineOrder, ShardOf
<1>8. c \notin dropped
  BY <1>1, <1>4
<1>9. ASSUME NEW l \in (Waiting \cup Delivered \cup dropped)'
      PROVE  l.num <= sent'[l.src] /\ (ppc'[l.src] # "idle" => l.num < sent'[l.src])
  <2>1. l = c \/ l \in Waiting \cup Delivered \cup dropped
    BY <1>2, <1>5, <1>6, <1>9
  <2>2. CASE l = c
    BY <1>1, <1>2, <1>3, <2>2
  <2>3. CASE l \in Waiting \cup Delivered \cup dropped
    <3>1. l.src \in Source
      BY <2>3, WaitingAreLines DEF Line
    <3>2. QED
      BY <1>2, <1>3, <2>3, <3>1 DEF OrderInv, LinePlace
  <2>4. QED
    BY <2>1, <2>2, <2>3
<1>10. LinePlace'
  <2>1. dropped' \cap (Waiting' \cup Delivered') = {}
    BY <1>2, <1>5, <1>6, <1>8 DEF OrderInv, LinePlace
  <2>2. \A r \in Source : ppc'[r] = "inline" => ~ started'
    BY <1>2, <1>3 DEF OrderInv, LinePlace
  <2>3. QED
    BY <1>9, <2>1, <2>2 DEF LinePlace
<1>11. QED
  BY <1>7, <1>10 DEF OrderInv

\* The line taken is the oldest of the queue.
LEMMA OrderTake ==
  ASSUME Shape, OrderInv, NEW v \in Worker, Take(v)
  PROVE  OrderInv'
<1> DEFINE q == queue[v]
<1>1. /\ q # <<>> /\ wpc[v] = "check"
      /\ job' = [job EXCEPT ![v] = <<Head(q)>>]
      /\ queue' = [queue EXCEPT ![v] = Tail(@)]
      /\ UNCHANGED <<delivered, dropped, started, sent, ppc>>
  BY DEF Take, lineVars
<1>2. queue \in [Worker -> Seq(Line)] /\ job \in [Worker -> {<<>>} \cup {<<l>> : l \in Line}]
  BY DEF Shape, TypeOK
<1>3. job[v] = <<>>
  BY <1>1 DEF Shape, JobMatches
<1>4. /\ queue'[v] = Tail(q) /\ job'[v] = <<Head(q)>>
      /\ \A w \in Worker : w # v => queue'[w] = queue[w] /\ job'[w] = job[w]
  BY <1>1, <1>2
<1>5. /\ Len(q) \in Nat \ {0} /\ Len(Tail(q)) = Len(q) - 1
      /\ \A i \in 1 .. Len(Tail(q)) : Tail(q)[i] = q[i + 1] /\ i + 1 \in 1 .. Len(q)
      /\ Head(q) = q[1]
  <2>1. q \in Seq(Line)
    BY <1>2
  <2>2. QED
    BY <1>1, <2>1, HeadTailProperties, EmptySeq
<1>6. /\ Elements(q) = {Head(q)} \cup Elements(Tail(q))
      /\ Elements(job[v]) = {} /\ Elements(job'[v]) = {Head(q)}
  <2>1. Elements(q) \subseteq {Head(q)} \cup Elements(Tail(q))
    BY <1>1, <1>2, ElementsHeadTail
  <2>2. {Head(q)} \cup Elements(Tail(q)) \subseteq Elements(q)
    BY <1>5 DEF Elements
  <2>3. QED
    BY <1>3, <1>4, <2>1, <2>2, ElementsSmall
<1>7. Waiting' = Waiting /\ Delivered' = Delivered /\ \A w \in Worker : Held(w)' = Held(w)
  <2>1. \A w \in Worker : Held(w)' = Held(w)
    BY <1>4, <1>6 DEF Held
  <2>2. QED
    BY <1>1, <2>1 DEF Waiting, Delivered
<1> HIDE DEF q
<1>8. ASSUME NEW w \in Worker, NEW i \in 1 .. Len(queue'[w]), NEW j \in 1 .. Len(queue'[w]),
             i < j, queue'[w][i].src = queue'[w][j].src
      PROVE  queue'[w][i].num < queue'[w][j].num
  <2>1. CASE w # v
    BY <1>4, <1>8, <2>1 DEF OrderInv, LineOrder
  <2>2. CASE w = v
    <3>1. /\ queue'[w][i] = q[i + 1] /\ queue'[w][j] = q[j + 1]
          /\ i + 1 \in 1 .. Len(q) /\ j + 1 \in 1 .. Len(q) /\ i + 1 < j + 1
      BY <1>4, <1>5, <1>8, <2>2
    <3>2. QED
      BY <1>8, <2>2, <3>1 DEF OrderInv, LineOrder, q
  <2>3. QED
    BY <2>1, <2>2
<1>9. ASSUME NEW w \in Worker, NEW h \in Elements(job'[w]), NEW l \in Elements(queue'[w]),
             h.src = l.src
      PROVE  h.num < l.num
  <2>1. CASE w # v
    BY <1>4, <1>9, <2>1 DEF OrderInv, LineOrder
  <2>2. CASE w = v
    <3>1. h = q[1] /\ 1 \in 1 .. Len(q)
      BY <1>4, <1>5, <1>6, <1>9, <2>2
    <3>2. PICK i \in 1 .. Len(Tail(q)) : l = Tail(q)[i]
      BY <1>4, <1>9, <2>2 DEF Elements
    <3>3. l = q[i + 1] /\ i + 1 \in 1 .. Len(q) /\ 1 < i + 1
      BY <1>5, <3>2
    <3>4. QED
      BY <1>9, <3>1, <3>3 DEF OrderInv, LineOrder, q
  <2>3. QED
    BY <2>1, <2>2
<1>10. LineOrder'
  BY <1>1, <1>7, <1>8, <1>9 DEF OrderInv, LineOrder, SourceOrder, ShardOf
<1>11. LinePlace'
  BY <1>1, <1>7 DEF OrderInv, LinePlace
<1>12. QED
  BY <1>10, <1>11 DEF OrderInv

\* The line in a hand is older than all that wait, and younger than all delivered.
LEMMA OrderRun ==
  ASSUME Shape, OrderInv, NEW v \in Worker, Run(v)
  PROVE  OrderInv'
<1>1. PICK l \in Line : job[v] = <<l>>
  BY JobIsOneLine DEF Run, Shape, JobMatches
<1>2. Head(job[v]) = l /\ l.src \in Source /\ Elements(job[v]) = {l}
  BY <1>1, ElementsSmall DEF Line
<1>3. /\ delivered' = [delivered EXCEPT ![l.src] = Append(@, l.num)]
      /\ queue' = queue /\ job' = [job EXCEPT ![v] = <<>>]
      /\ UNCHANGED <<dropped, started, sent, ppc>>
  BY <1>2 DEF Run
<1>4. l \in Waiting /\ l \in Held(v)
  BY <1>2 DEF Waiting, Held
<1>5. /\ Elements(job'[v]) = {}
      /\ \A w \in Worker : w # v => job'[w] = job[w]
  <2>1. job \in [Worker -> {<<>>} \cup {<<k>> : k \in Line}]
    BY DEF Shape, TypeOK
  <2>2. QED
    BY <1>3, <2>1, ElementsSmall
<1>6. SourceOrder' /\ Delivered' = Delivered \cup {l}
  BY <1>3, <1>4, OrderDelivered DEF OrderInv, LineOrder
<1>7. \A w \in Worker : Held(w)' \subseteq Held(w)
  BY <1>3, <1>5 DEF Held
<1>8. Waiting' \subseteq Waiting
  <2>1. Waiting' = UNION {Held(w)' : w \in Worker}
    BY DEF Waiting
  <2>2. QED
    BY <1>7, <2>1 DEF Waiting
<1>9. \A k \in Waiting' : k.src = l.src => l.num < k.num
  <2> SUFFICES ASSUME NEW w \in Worker, NEW k \in Held(w)', k.src = l.src
               PROVE  l.num < k.num
    BY DEF Waiting
  <2>1. ShardOf(k) = w /\ ShardOf(l) = v
    BY <1>4, <1>7 DEF OrderInv, LineOrder
  <2>2. w = v
    BY <2>1 DEF ShardOf
  <2>3. k \in Elements(queue[v])
    BY <1>3, <1>5, <2>2 DEF Held
  <2>4. QED
    BY <1>2, <2>3 DEF OrderInv, LineOrder
<1>10. LineOrder'
  <2>1. \A w \in Worker : \A k \in Held(w)' : ShardOf(k) = w
    BY <1>7 DEF OrderInv, LineOrder
  <2>2. \A w \in Worker : \A h \in Elements(job'[w]), k \in Elements(queue'[w]) :
          h.src = k.src => h.num < k.num
    BY <1>3, <1>5 DEF OrderInv, LineOrder
  <2>3. \A d \in Delivered', k \in Waiting' : d.src = k.src => d.num < k.num
    BY <1>6, <1>8, <1>9 DEF OrderInv, LineOrder
  <2>4. \A w \in Worker : \A i, j \in 1 .. Len(queue'[w]) :
          i < j /\ queue'[w][i].src = queue'[w][j].src => queue'[w][i].num < queue'[w][j].num
    BY <1>3 DEF OrderInv, LineOrder
  <2>5. QED
    BY <1>6, <2>1, <2>2, <2>3, <2>4 DEF LineOrder, ShardOf
<1>11. LinePlace'
  BY <1>3, <1>4, <1>6, <1>8 DEF OrderInv, LinePlace
<1>12. QED
  BY <1>10, <1>11 DEF OrderInv

\* Every step keeps order and place.
LEMMA OrderNext == Shape /\ Stage /\ OrderInv /\ [Next]_vars => OrderInv'
<1> SUFFICES ASSUME Shape, Stage, OrderInv, [Next]_vars PROVE OrderInv'
  OBVIOUS
<1>1. ASSUME NEW s \in Source, ProcessRaw(s) \/ Producing(s) PROVE OrderInv'
  BY <1>1, OrderCall, OrderPost, OrderDrop, OrderInline DEF Producing
<1>2. ASSUME NEW w \in Worker, Take(w) \/ Run(w) PROVE OrderInv'
  BY <1>2, OrderTake, OrderRun
<1>3. ASSUME NEW w \in Worker,
             Sleep(w) \/ Exit(w) \/ Finish(w) \/ NotifyFlusher(w) \/ SpuriousWakeup(w)
      PROVE  OrderInv'
  <2>1. UNCHANGED <<queue, job, delivered, dropped, sent, ppc, started>>
    BY <1>3 DEF Sleep, Exit, Finish, NotifyFlusher, SpuriousWakeup, lineVars
  <2>2. QED
    BY <2>1, OrderStays
<1>4. CASE StartWorkers
  <2>1. mpc = "init" /\ UNCHANGED <<queue, job, delivered, dropped, sent, ppc>>
    BY <1>4 DEF StartWorkers, lineVars
  <2>2. \A s \in Source : ppc[s] = "idle"
    BY <2>1 DEF Stage, CallPhase
  <2>3. QED
    BY <2>1, <2>2, OrderStays
<1>5. CASE JoinWorkers
  BY <1>5, OrderStays DEF JoinWorkers, lineVars
<1>6. CASE \/ StaySynchronous \/ StartWatcher \/ FlushPass \/ FlushSleep \/ EndReload
           \/ JoinWatcher \/ StopWorkers \/ MarkStopping \/ NotifyStopping
           \/ ReloadPlugins \/ Stop
  <2>1. UNCHANGED <<queue, job, delivered, dropped, sent, ppc, started>>
    BY <1>6 DEF StaySynchronous, StartWatcher, FlushPass,
     FlushSleep, EndReload, JoinWatcher, StopWorkers, MarkStopping, NotifyStopping,
     ReloadPlugins, Stop, StopWatcher, poolVars, lineVars
  <2>2. QED
    BY <2>1, OrderStays
<1>7. CASE UNCHANGED vars
  BY <1>7, OrderStays DEF vars, poolVars, lineVars
<1>8. QED
  BY <1>1, <1>2, <1>3, <1>4, <1>5, <1>6, <1>7 DEF Next, Working, Controlling

\* Where a line is follows from the account (it is somewhere) and the order (its place
\* excludes the others).
LEMMA EachInOnePlace ==
  ASSUME Shape, OrderInv, Accounted
  PROVE  EachLineInOnePlace
<1> DEFINE Places(l) == {p \in {"call", "queue", "hand", "out", "dropped"} :
                   \/ p = "call"    /\ l \in InCall
                   \/ p = "queue"   /\ l \in Queued
                   \/ p = "hand"    /\ l \in InHand
                   \/ p = "out"     /\ l \in Delivered
                   \/ p = "dropped" /\ l \in dropped}
<1> SUFFICES ASSUME NEW l \in Line, l.num <= sent[l.src] PROVE Cardinality(Places(l)) = 1
  BY DEF EachLineInOnePlace
<1>1. l.src \in Source /\ l.num \in Nat
  BY DEF Line
<1>2. l \in InCall <=> ppc[l.src] # "idle" /\ l = Current(l.src)
  BY <1>1 DEF InCall, Current
<1>3. Waiting = Queued \cup InHand
  BY DEF Waiting, Held, Queued, InHand
<1>4. l \in InCall => l \notin Waiting \cup Delivered \cup dropped
  <2>1. l \in InCall => l.num = sent[l.src] /\ ppc[l.src] # "idle"
    BY <1>2 DEF Current
  <2>2. QED
    BY <1>1, <2>1 DEF OrderInv, LinePlace
<1>5. ~ (l \in Queued /\ l \in InHand)
  <2> SUFFICES ASSUME NEW w \in Worker, NEW v \in Worker,
                      l \in Elements(queue[w]), l \in Elements(job[v])
               PROVE  FALSE
    BY DEF Queued, InHand
  <2>1. w = v
    BY DEF OrderInv, LineOrder, Held
  <2>2. l.num < l.num
    BY <2>1 DEF OrderInv, LineOrder
  <2>3. QED
    BY <1>1, <2>2
<1>6. ~ (l \in Waiting /\ l \in Delivered)
  BY <1>1 DEF OrderInv, LineOrder
<1>7. ~ (l \in dropped /\ l \in Waiting \cup Delivered)
  BY DEF OrderInv, LinePlace
<1>8. l \in InCall \/ l \in Waiting \/ l \in Delivered \/ l \in dropped
  BY <1>1, <1>2 DEF Accounted, Waiting
<1>9. \E p : Places(l) = {p}
  <2>1. CASE l \in InCall
    <3>1. Places(l) = {"call"}
      BY <1>3, <1>4, <2>1
    <3>2. QED
      BY <3>1
  <2>2. CASE l \in Queued
    <3>1. Places(l) = {"queue"}
      BY <1>3, <1>4, <1>5, <1>6, <1>7, <2>2
    <3>2. QED
      BY <3>1
  <2>3. CASE l \in InHand
    <3>1. Places(l) = {"hand"}
      BY <1>3, <1>4, <1>5, <1>6, <1>7, <2>3
    <3>2. QED
      BY <3>1
  <2>4. CASE l \in Delivered
    <3>1. Places(l) = {"out"}
      BY <1>3, <1>4, <1>6, <1>7, <2>4
    <3>2. QED
      BY <3>1
  <2>5. CASE l \in dropped
    <3>1. Places(l) = {"dropped"}
      BY <1>3, <1>4, <1>7, <2>5
    <3>2. QED
      BY <3>1
  <2>6. QED
    BY <1>3, <1>8, <2>1, <2>2, <2>3, <2>4, <2>5
<1>10. QED
  BY <1>9, FS_Singleton

\* For every pool: lines of one source are processed in the order they came in, and each
\* is at any moment in exactly one place, the account of dropped lines being one.
THEOREM LinesKeepOrder == Spec => []LinesInOrderOnce
<1>1. Shape /\ OrderInv /\ Accounted => LinesInOrderOnce
  BY EachInOnePlace DEF LinesInOrderOnce, Shape, OrderInv, LineOrder
<1>2. Init => Shape /\ Stage /\ OrderInv /\ Accounted
  BY ShapeInit, StageInit, OrderInit, AccountedInit
<1>3. Shape /\ Stage /\ OrderInv /\ Accounted /\ [Next]_vars
        => (Shape /\ Stage /\ OrderInv /\ Accounted)'
  BY ShapeNext, StageNext, OrderNext, AccountedNext
<1>4. QED
  BY <1>1, <1>2, <1>3, PTL DEF Spec
--------------------------------------------------------------------------------
(* The pool as a set of channels.                                          *)

\* The lines of calls that process their line themselves.
Inline == {l \in InCall : ppc[l.src] = "inline"}

\* What is pending is waiting or in such a call, and with workers there is no such call.
LEMMA PendingParts ==
  ASSUME Shape, OrderInv
  PROVE  /\ Pending = Waiting \cup Inline
         /\ Pending \subseteq Line
         /\ started => Inline = {}
<1>1. Pending = Waiting \cup Inline
  BY DEF Pending, Waiting, Held, Queued, InHand, Inline
<1>2. Inline \subseteq Line
  BY DEF Inline, InCall, Current, Line, Shape, CallHasLine
<1>3. ASSUME started PROVE Inline = {}
  <2>1. \A l \in InCall : l.src \in Source
    BY DEF InCall, Current
  <2>2. QED
    BY <1>3, <2>1 DEF Inline, OrderInv, LinePlace
<1>4. QED
  BY <1>1, <1>2, <1>3, WaitingAreLines

\* A line that is younger than all others of its source is next in its channel.
LEMMA YoungestIsNext ==
  ASSUME Shape, OrderInv, NEW c \in Line,
         \A l \in Waiting \cup Delivered \cup dropped : l.src = c.src => l.num < c.num,
         ppc[c.src] # "inline"
  PROVE  Channel!IsNext(c)
<1>1. ASSUME NEW k \in Pending \cup dropped, k.src = c.src PROVE k.num < c.num
  <2>1. k \notin Inline
    BY <1>1 DEF Inline
  <2>2. QED
    BY <1>1, <2>1, PendingParts
<1>2. ASSUME NEW i \in 1 .. Len(delivered[c.src]) PROVE delivered[c.src][i] < c.num
  <2>1. c.src \in Source /\ delivered[c.src] \in Seq(1 .. MaxLines)
    BY DEF Line, Shape, TypeOK
  <2>2. delivered[c.src][i] \in 1 .. MaxLines
    BY <1>2, <2>1, ElementOfSeq
  <2>3. PICK d \in Line : d = [src |-> c.src, num |-> delivered[c.src][i]]
    BY <2>1, <2>2 DEF Line
  <2>4. d \in Delivered
    BY <1>2, <2>3 DEF Delivered, Elements
  <2>5. QED
    BY <2>3, <2>4
<1>3. QED
  BY <1>1, <1>2 DEF Channel!IsNext

\* A step that moves no line and neither begins nor ends a call.
LEMMA ChannelStays ==
  ASSUME UNCHANGED <<queue, job, delivered, dropped, sent, ppc>>
  PROVE  UNCHANGED Channel!vars
BY DEF Channel!vars, Pending, Queued, InHand, InCall, Current

\* process_raw without workers accepts its line; with workers it has not yet decided.
LEMMA CallAccepts ==
  ASSUME Shape, Stage, OrderInv, NEW s \in Source, ProcessRaw(s)
  PROVE  [Channel!Next]_Channel!vars
<1>1. /\ sent' = [sent EXCEPT ![s] = @ + 1] /\ watching /\ ppc[s] = "idle"
      /\ sent[s] < MaxLines
      /\ ppc' = [ppc EXCEPT ![s] = IF async THEN "post" ELSE "inline"]
      /\ UNCHANGED <<queue, job, delivered, dropped, started>>
  BY DEF ProcessRaw, poolVars
<1>2. sent \in [Source -> 0 .. MaxLines] /\ ppc \in [Source -> {"idle", "post", "inline"}]
  BY DEF Shape, TypeOK
<1>3. PICK c \in Line : c = [src |-> s, num |-> sent[s] + 1]
  <2>1. sent[s] + 1 \in 1 .. MaxLines
    BY <1>1, <1>2, BoundsAssumption
  <2>2. QED
    BY <2>1 DEF Line
<1>4. /\ \A r \in Source : r # s => ppc'[r] = ppc[r] /\ Current(r)' = Current(r)
      /\ Current(s)' = c
  BY <1>1, <1>2, <1>3 DEF Current
<1>5. Queued' = Queued /\ InHand' = InHand
  BY <1>1 DEF Queued, InHand
<1>6. Inline = {Current(r) : r \in {q \in Source : ppc[q] = "inline"}}
  BY DEF Inline, InCall, Current
<1>7. Inline' = {Current(r)' : r \in {q \in Source : ppc'[q] = "inline"}}
  BY DEF Inline, InCall, Current
<1>8. Pending = Queued \cup InHand \cup Inline /\ Pending' = Queued' \cup InHand' \cup Inline'
  BY DEF Pending, Inline
<1>9. CASE async
  <2>1. ppc'[s] = "post"
    BY <1>1, <1>2, <1>9
  <2>2. Inline' = Inline
    BY <1>1, <1>4, <1>6, <1>7, <2>1
  <2>3. QED
    BY <1>1, <1>5, <1>8, <2>2 DEF Channel!vars
<1>10. CASE ~ async
  <2>1. ppc'[s] = "inline"
    BY <1>1, <1>2, <1>10
  <2>2. Inline' = Inline \cup {c}
    BY <1>1, <1>4, <1>6, <1>7, <2>1
  <2>3. \A l \in Waiting \cup Delivered \cup dropped : l.src = s => l.num < c.num
    <3>1. \A l \in Waiting \cup Delivered \cup dropped : l.src = s =>
            l.num <= sent[s] /\ l.num \in Nat
      BY WaitingAreLines DEF OrderInv, LinePlace, Line
    <3>2. c.num = sent[s] + 1 /\ sent[s] \in Nat
      BY <1>2, <1>3
    <3>3. QED
      BY <3>1, <3>2
  <2>4. Channel!IsNext(c)
    <3>1. c.src = s /\ ppc[s] # "inline"
      BY <1>1, <1>3
    <3>2. QED
      BY <2>3, <3>1, YoungestIsNext
  <2>5. Pending' = Pending \cup {c}
    BY <1>5, <1>8, <2>2
  <2>6. Channel!Accept
    BY <1>1, <2>4, <2>5 DEF Channel!Accept, Channel!Line, Line
  <2>7. QED
    BY <2>6 DEF Channel!Next
<1>11. QED
  BY <1>9, <1>10

\* The end of a call that posted or dropped its line: its line was next in the channel,
\* and no inline call is touched.
LEMMA EndOfPost ==
  ASSUME Shape, OrderInv, NEW s \in Source, ppc[s] = "post", UNCHANGED sent,
         ppc' = [ppc EXCEPT ![s] = "idle"]
  PROVE  /\ Current(s) \in Line /\ Channel!IsNext(Current(s)) /\ Inline' = Inline
         /\ Current(s).src = s
<1>1. PICK c \in Line : c = Current(s)
  BY DEF Current, Line, Shape, CallHasLine
<1>2. c.src = s /\ c.num = sent[s] /\ c.num \in Nat
  BY <1>1 DEF Current, Shape, CallHasLine
<1>3. \A l \in Waiting \cup Delivered \cup dropped : l.src = s => l.num < c.num
  BY <1>2 DEF OrderInv, LinePlace
<1>4. Channel!IsNext(c)
  BY <1>2, <1>3, YoungestIsNext
<1>5. Inline' = Inline
  <2>1. Inline = {Current(r) : r \in {q \in Source : ppc[q] = "inline"}}
    BY DEF Inline, InCall, Current
  <2>2. Inline' = {Current(r)' : r \in {q \in Source : ppc'[q] = "inline"}}
    BY DEF Inline, InCall, Current
  <2>3. \A r \in Source : (ppc'[r] = "inline" <=> ppc[r] = "inline") /\ Current(r)' = Current(r)
    BY DEF Current, Shape, TypeOK
  <2>4. QED
    BY <2>1, <2>2, <2>3
<1>6. QED
  BY <1>1, <1>2, <1>4, <1>5

\* Filing a line accepts it.
LEMMA PostAccepts ==
  ASSUME Shape, OrderInv, NEW s \in Source, Post(s)
  PROVE  Channel!Accept
<1> DEFINE v == ShardOf(Current(s))
<1> DEFINE c == Current(s)
<1>1. /\ queue' = [queue EXCEPT ![v] = Append(@, c)]
      /\ ppc[s] = "post" /\ ppc' = [ppc EXCEPT ![s] = "idle"]
      /\ UNCHANGED <<job, delivered, dropped, sent>>
  BY DEF Post
<1>2. v \in Worker /\ c \in Line
  BY PostMoves
<1>3. queue \in [Worker -> Seq(Line)]
  BY DEF Shape, TypeOK
<1>4. Channel!IsNext(c) /\ Inline' = Inline
  BY <1>1, EndOfPost
<1> HIDE DEF v, c
<1>5. Elements(queue'[v]) = Elements(queue[v]) \cup {c}
  BY <1>1, <1>2, <1>3, ElementsAppend
<1>6. \A w \in Worker : w # v => queue'[w] = queue[w]
  BY <1>1, <1>3
<1>7. Queued' = Queued \cup {c} /\ InHand' = InHand
  <2>1. Queued' = UNION {Elements(queue'[w]) : w \in Worker}
    BY DEF Queued, Elements
  <2>2. ASSUME NEW l PROVE l \in Queued' <=> l \in Queued \cup {c}
    BY <1>2, <1>5, <1>6, <2>1 DEF Queued
  <2>3. QED
    BY <1>1, <2>2 DEF InHand
<1>8. Pending' = Pending \cup {c}
  BY <1>4, <1>7 DEF Pending, Inline
<1>9. QED
  BY <1>1, <1>2, <1>4, <1>8 DEF Channel!Accept, Channel!Line, Line

\* Dropping a line refuses it.
LEMMA DropRefuses ==
  ASSUME Shape, OrderInv, NEW s \in Source, Drop(s)
  PROVE  Channel!Refuse
<1>1. /\ ppc[s] = "post" /\ ppc' = [ppc EXCEPT ![s] = "idle"]
      /\ dropped' = dropped \cup {Current(s)}
      /\ UNCHANGED <<queue, job, delivered, sent>>
  BY DEF Drop, CountDropped, poolVars
<1>2. Current(s) \in Line /\ Channel!IsNext(Current(s)) /\ Inline' = Inline
  BY <1>1, EndOfPost
<1>3. Pending' = Pending
  BY <1>1, <1>2 DEF Pending, Queued, InHand, Inline
<1>4. QED
  BY <1>1, <1>2, <1>3 DEF Channel!Refuse, Channel!Line, Line

\* A call without workers delivers its own line, the only one of its source that is pending.
LEMMA InlineDelivers ==
  ASSUME Shape, Stage, OrderInv, NEW s \in Source, ProcessInline(s)
  PROVE  Channel!Deliver(s)
<1>1. /\ delivered' = [delivered EXCEPT ![s] = Append(@, sent[s])]
      /\ ppc[s] = "inline" /\ ppc' = [ppc EXCEPT ![s] = "idle"]
      /\ UNCHANGED <<queue, job, dropped, started, sent>>
  BY DEF ProcessInline, poolVars
<1>2. PICK c \in Line : c = Current(s)
  BY <1>1 DEF Current, Line, Shape, CallHasLine
<1>3. c.src = s /\ c.num = sent[s] /\ c.num \in Nat
  BY <1>1, <1>2 DEF Current, Shape, CallHasLine
<1>4. Waiting = {} /\ Waiting' = {}
  <2>1. ~ started
    BY <1>1 DEF OrderInv, LinePlace
  <2>2. \A w \in Worker : Held(w) = {} /\ Held(w)' = Held(w)
    BY <1>1, <2>1, NoPoolHoldsNothing DEF Held
  <2>3. QED
    BY <2>2 DEF Waiting
<1>5. Pending = Inline /\ Pending' = Inline'
  BY <1>4 DEF Pending, Inline, Waiting, Held, Queued, InHand
<1>6. Inline = {Current(r) : r \in {q \in Source : ppc[q] = "inline"}}
  BY DEF Inline, InCall, Current
<1>7. Inline' = {Current(r)' : r \in {q \in Source : ppc'[q] = "inline"}}
  BY DEF Inline, InCall, Current
<1>8. /\ \A r \in Source : ppc'[r] = "inline" <=> ppc[r] = "inline" /\ r # s
      /\ \A r \in Source : Current(r)' = Current(r) /\ Current(r).src = r
  BY <1>1 DEF Current, Shape, TypeOK
<1>9. Inline' = Inline \ {c} /\ c \in Inline
  BY <1>1, <1>2, <1>6, <1>7, <1>8
<1>10. \A k \in Pending : k.src = s => c.num <= k.num
  <2>1. \A k \in Inline : k.src = s => k = c
    BY <1>2, <1>6, <1>8
  <2>2. QED
    BY <1>3, <1>5, <2>1
<1>11. QED
  BY <1>1, <1>3, <1>5, <1>9, <1>10 DEF Channel!Deliver

\* A worker that takes a line keeps it pending.
LEMMA TakeStutters ==
  ASSUME Shape, OrderInv, NEW v \in Worker, Take(v)
  PROVE  UNCHANGED Channel!vars
<1> DEFINE q == queue[v]
<1>1. /\ q # <<>> /\ wpc[v] = "check"
      /\ job' = [job EXCEPT ![v] = <<Head(q)>>]
      /\ queue' = [queue EXCEPT ![v] = Tail(@)]
      /\ UNCHANGED <<delivered, dropped, sent, ppc>>
  BY DEF Take, lineVars
<1>2. queue \in [Worker -> Seq(Line)] /\ job \in [Worker -> {<<>>} \cup {<<l>> : l \in Line}]
  BY DEF Shape, TypeOK
<1>3. job[v] = <<>>
  BY <1>1 DEF Shape, JobMatches
<1>4. /\ queue'[v] = Tail(q) /\ job'[v] = <<Head(q)>>
      /\ \A w \in Worker : w # v => queue'[w] = queue[w] /\ job'[w] = job[w]
  BY <1>1, <1>2
<1>5. /\ Elements(q) = {Head(q)} \cup Elements(Tail(q))
      /\ Elements(job[v]) = {} /\ Elements(job'[v]) = {Head(q)}
  <2>1. q \in Seq(Line)
    BY <1>2
  <2>2. Elements(q) \subseteq {Head(q)} \cup Elements(Tail(q))
    BY <1>1, <2>1, ElementsHeadTail
  <2>3. /\ Len(q) \in Nat \ {0} /\ Len(Tail(q)) = Len(q) - 1
        /\ \A i \in 1 .. Len(Tail(q)) : Tail(q)[i] = q[i + 1] /\ i + 1 \in 1 .. Len(q)
        /\ Head(q) = q[1]
    BY <1>1, <2>1, HeadTailProperties, EmptySeq
  <2>4. {Head(q)} \cup Elements(Tail(q)) \subseteq Elements(q)
    BY <2>3 DEF Elements
  <2>5. QED
    BY <1>3, <1>4, <2>2, <2>4, ElementsSmall
<1>6. \A w \in Worker : Held(w)' = Held(w)
  BY <1>4, <1>5 DEF Held
<1>7. Waiting' = Waiting
  BY <1>6 DEF Waiting
<1>8. Pending = Waiting \cup Inline /\ Pending' = Waiting' \cup Inline'
  BY DEF Pending, Waiting, Held, Queued, InHand, Inline
<1>9. Inline' = Inline
  BY <1>1 DEF Inline, InCall, Current
<1>10. QED
  BY <1>1, <1>7, <1>8, <1>9 DEF Channel!vars

\* A worker that processes its line delivers the oldest that is pending of its source.
LEMMA RunDelivers ==
  ASSUME Shape, Stage, OrderInv, NEW v \in Worker, Run(v)
  PROVE  \E s \in Source : Channel!Deliver(s)
<1>1. PICK l \in Line : job[v] = <<l>>
  BY JobIsOneLine DEF Run, Shape, JobMatches
<1>2. /\ Head(job[v]) = l /\ Elements(job[v]) = {l}
      /\ l.src \in Source /\ l.num \in Nat
  BY <1>1, ElementsSmall DEF Line
<1>3. /\ delivered' = [delivered EXCEPT ![l.src] = Append(@, l.num)]
      /\ queue' = queue /\ job' = [job EXCEPT ![v] = <<>>]
      /\ UNCHANGED <<dropped, sent, ppc>>
  BY <1>2 DEF Run
<1>4. l \in Held(v) /\ l \in Waiting
  BY <1>2 DEF Waiting, Held
<1>5. /\ Elements(job'[v]) = {}
      /\ \A w \in Worker : w # v => job'[w] = job[w]
  <2>1. job \in [Worker -> {<<>>} \cup {<<k>> : k \in Line}]
    BY DEF Shape, TypeOK
  <2>2. QED
    BY <1>3, <2>1, ElementsSmall
<1>6. started
  BY <1>4, NoPoolHoldsNothing
<1>7. Pending = Waiting /\ Pending' = Waiting'
  <2>1. Inline = {} /\ Pending = Waiting
    BY <1>6, PendingParts
  <2>2. Inline' = Inline
    BY <1>3 DEF Inline, InCall, Current
  <2>3. Pending' = Waiting' \cup Inline'
    BY DEF Pending, Waiting, Held, Queued, InHand, Inline
  <2>4. QED
    BY <2>1, <2>2, <2>3
<1>8. ASSUME NEW w \in Worker, NEW k \in Held(w), k.src = l.src
      PROVE  w = v /\ (k = l \/ (k \in Elements(queue[v]) /\ l.num < k.num))
  <2>1. ShardOf(k) = w /\ ShardOf(l) = v
    BY <1>4, <1>8 DEF OrderInv, LineOrder
  <2>2. w = v
    BY <1>8, <2>1 DEF ShardOf
  <2>3. QED
    BY <1>2, <1>8, <2>2 DEF Held, OrderInv, LineOrder
<1>9. \A k \in Pending : k.src = l.src => l.num <= k.num
  <2> SUFFICES ASSUME NEW w \in Worker, NEW k \in Held(w), k.src = l.src
               PROVE  l.num <= k.num
    BY <1>7 DEF Waiting
  <2>1. k = l \/ (k \in Elements(queue[v]) /\ l.num < k.num)
    BY <1>8
  <2>2. k.num \in Nat
    BY <1>4, WaitingAreLines DEF Waiting, Line
  <2>3. QED
    BY <1>2, <2>1, <2>2
<1>10. Waiting' = Waiting \ {l}
  <2>1. \A w \in Worker : w # v => Held(w)' = Held(w) /\ l \notin Held(w)
    BY <1>3, <1>5, <1>8 DEF Held
  <2>2. l \notin Elements(queue[v])
    BY <1>2 DEF OrderInv, LineOrder
  <2>3. Held(v)' = Held(v) \ {l}
    BY <1>2, <1>3, <1>5, <2>2 DEF Held
  <2>4. Waiting' = UNION {Held(w)' : w \in Worker}
    BY DEF Waiting
  <2>5. ASSUME NEW k PROVE k \in Waiting' <=> k \in Waiting \ {l}
    BY <2>1, <2>3, <2>4 DEF Waiting
  <2>6. QED
    BY <2>5
<1>11. Channel!Deliver(l.src)
  BY <1>3, <1>4, <1>7, <1>9, <1>10 DEF Channel!Deliver
<1>12. QED
  BY <1>2, <1>11

\* Every step of the pool is a step of the channels, or none.
LEMMA ChannelNext ==
  Shape /\ Stage /\ OrderInv /\ [Next]_vars => [Channel!Next]_Channel!vars
<1> SUFFICES ASSUME Shape, Stage, OrderInv, [Next]_vars
             PROVE  Channel!Next \/ UNCHANGED Channel!vars
  OBVIOUS
<1>1. ASSUME NEW s \in Source, ProcessRaw(s) \/ Producing(s)
      PROVE  Channel!Next \/ UNCHANGED Channel!vars
  BY <1>1, CallAccepts, PostAccepts, DropRefuses, InlineDelivers DEF Producing, Channel!Next
<1>2. ASSUME NEW w \in Worker, Take(w) \/ Run(w)
      PROVE  Channel!Next \/ UNCHANGED Channel!vars
  BY <1>2, TakeStutters, RunDelivers DEF Channel!Next
<1>3. ASSUME NEW w \in Worker,
             Sleep(w) \/ Exit(w) \/ Finish(w) \/ NotifyFlusher(w) \/ SpuriousWakeup(w)
      PROVE  UNCHANGED Channel!vars
  <2>1. UNCHANGED <<queue, job, delivered, dropped, sent, ppc>>
    BY <1>3 DEF Sleep, Exit, Finish, NotifyFlusher, SpuriousWakeup, lineVars
  <2>2. QED
    BY <2>1, ChannelStays
<1>4. ASSUME Controlling \/ ReloadPlugins \/ Stop
      PROVE  UNCHANGED Channel!vars
  <2>1. UNCHANGED <<queue, job, delivered, dropped, sent, ppc>>
    BY <1>4 DEF Controlling, StartWorkers, StaySynchronous, StartWatcher, FlushPass,
     FlushSleep, EndReload, JoinWatcher, StopWorkers, MarkStopping, NotifyStopping,
     JoinWorkers, ReloadPlugins, Stop, StopWatcher, poolVars, lineVars
  <2>2. QED
    BY <2>1, ChannelStays
<1>5. CASE UNCHANGED vars
  BY <1>5, ChannelStays DEF vars, poolVars, lineVars
<1>6. QED
  BY <1>1, <1>2, <1>3, <1>4, <1>5 DEF Next, Working

\* For every pool: whatever the threads do, what comes out is what one channel per source
\* would deliver, in order, each accepted line once and no refused line ever. (That an
\* accepted line does come out needs the fairness of the threads.)
THEOREM PoolIsChannels == Spec => Channel!SafeSpec
<1>1. Init => Channel!Init
  <2> SUFFICES ASSUME Init PROVE Channel!Init
    OBVIOUS
  <2>1. \A w \in Worker : Elements(queue[w]) = {} /\ Elements(job[w]) = {}
    BY ElementsSmall DEF Init
  <2>2. Pending = {}
    BY <2>1 DEF Init, Pending, Queued, InHand, InCall
  <2>3. QED
    BY <2>2 DEF Init, Channel!Init
<1>2. Init => Shape /\ Stage /\ OrderInv
  BY ShapeInit, StageInit, OrderInit
<1>3. Shape /\ Stage /\ OrderInv /\ [Next]_vars => (Shape /\ Stage /\ OrderInv)'
  BY ShapeNext, StageNext, OrderNext
<1>4. QED
  BY <1>1, <1>2, <1>3, ChannelNext, PTL DEF Spec, Channel!SafeSpec
================================================================================
