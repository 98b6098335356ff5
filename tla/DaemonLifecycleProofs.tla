--------------------------- MODULE DaemonLifecycleProofs --------------------------
(***************************************************************************)
(* Proofs about DaemonLifecycle for any number of lines, requests and      *)
(* signals. The first part is for signals that interrupt anything: when    *)
(* the process ends, every part is down and at most one line is lost, and  *)
(* only where a stop went past another one that waited for the watcher.    *)
(* The invariant says which calls the stack of the main thread may hold    *)
(* (Stacked), who still has to join the workers and the watcher (Pooled,   *)
(* Watched, Orderly), who still works on a line (Injected), which lines    *)
(* nobody will take any more (Strayed) and what the destructor has taken   *)
(* down so far (Descending), whatever runs on top of it.                   *)
(***************************************************************************)
EXTENDS DaemonLifecycle, SequenceTheorems, TLAPS

StepName == {"load", "workers", "register", "adopt", "export", "open", "watch",
             "run", "check", "flush", "flushing", "unload", "loaded", "empty", "halt",
             "halting", "join", "joining", "clearing", "detach", "close", "done", "line"}

ShutdownSteps == {"halt", "halting", "flush", "flushing", "join", "joining", "clearing",
                  "detach", "unload", "close", "done"}

\* The steps of each call.
StepsOf(call) ==
  IF call = "start" THEN {"load", "workers", "register", "adopt", "export", "open",
                          "watch", "run", "check"}
  ELSE IF call = "reload" THEN {"flush", "flushing", "unload", "load", "loaded", "empty"}
  ELSE IF call = "inject" THEN {"line"}
  ELSE ShutdownSteps

\* Some call of the main thread is at one of the steps.
OnStack(steps) == \E i \in 1 .. Len(stack) : stack[i].at \in steps

\* The steps at which a stop waits for the workers' end or is about to clear them.
Joining == {"joining", "clearing"}

\* Only signals put a call on top of another one; the lowest call is that of the phase.
Stacked ==
  /\ \A i \in 1 .. Len(stack) : stack[i].at \in StepsOf(stack[i].call)
  /\ \A i \in 2 .. Len(stack) : stack[i].call \in {"reload", "stop"}
  /\ phase = "start" => stack # <<>> /\ stack[1].call = "start"
  /\ phase = "exec" => stack = <<>> \/ stack[1].call \in {"reload", "stop", "inject"}
  /\ phase = "destroy" => stack # <<>> /\ stack[1].call = "destroy"
  /\ Len(stack) <= 1 + signals
  /\ Len(calls) <= asked
  /\ Len(lines) + Len(calls) <= MaxLines + asked

\* No worker runs: there is none, or it has been joined.
Retired == "workers" \notin up \/ OnStack({"clearing"})

\* Workers outlive m_async only while a call joins them, and have no line in hand then.
Pooled ==
  /\ "async" \in up => "workers" \in up /\ ~ OnStack(Joining)
  /\ "workers" \in up => "async" \in up \/ OnStack(Joining)
  /\ Retired => ~ Busy("worker")
  /\ \A i \in 1 .. Len(lines) : /\ lines[i].at = "queued" => lines[i].on = "worker"
                                /\ lines[i].at = "posting" => lines[i].on # "worker"

\* The lines a thread has in hand.
Held(thread) ==
  {i \in 1 .. Len(lines) :
     lines[i].on = thread /\ lines[i].at \in {"posting", "begun", "ready"}}

\* The watcher's thread outlives its flag only while a call joins it, and has one line in
\* hand at most.
Watched ==
  /\ "watcher" \in up => "reader" \in up /\ ~ OnStack({"halting"})
  /\ "reader" \in up => "watcher" \in up \/ OnStack({"halting"})
  /\ "reader" \notin up => Held("watcher") = {}
  /\ \A i, j \in Held("watcher") : i = j

\* A stop gets past the watcher while its thread runs only by overtaking another one.
Orderly ==
  "reader" \in up /\ ~ overtaken =>
    \A i \in 1 .. Len(stack) : stack[i].call \in Shutdown => stack[i].at \in {"halt", "halting"}

\* Lines that may find no worker any more once m_async is false: at most one, and only if
\* the watcher was overtaken.
Stray == {i \in 1 .. Len(lines) : \/ lines[i].on = "watcher" /\ lines[i].at = "posting"
                                  \/ lines[i].at = "queued" /\ Retired}
Strayed == "async" \notin up => \A i, j \in Stray : i = j /\ overtaken

\* The line the main thread has in hand is the one of the request at the bottom.
Injected ==
  /\ Held("main") # {} => /\ phase \in {"exec", "crashed"}
                          /\ stack # <<>> /\ stack[1].call = "inject"
  /\ \A i, j \in Held("main") : i = j

\* The service is given up together with the adaptor, once there is one.
Registered ==
  "service" \in up =>
    "adaptor" \in up \/ (phase \in {"start", "crashed"} /\ stack # <<>> /\ stack[1].at = "adopt")

\* What is down when the destructor is at `step`.
Down(step, parts) ==
  /\ step # "halt" => "watcher" \notin parts
  /\ step \notin {"halt", "halting"} => "reader" \notin parts
  /\ step \in Joining \cup {"detach", "unload", "close", "done"} => "async" \notin parts
  /\ step \in {"detach", "unload", "close", "done"} => "workers" \notin parts
  /\ step \in {"unload", "close", "done"} =>
       "timer" \notin parts /\ "service" \notin parts /\ "adaptor" \notin parts
  /\ step = "done" => "store" \notin parts
Descending == phase = "destroy" => Down(stack[1].at, up)

Lined == Pooled /\ Watched /\ Orderly /\ Strayed
Sound == Stacked /\ Lined /\ Injected /\ Registered /\ Descending
DaemonInv == TypeOK /\ Sound /\ NothingLeftAtExit

--------------------------------------------------------------------------------
\* The top of the stack.
LEMMA TopOfStack ==
  ASSUME stack \in Seq(Frame), stack # <<>>
  PROVE  /\ Len(stack) \in Nat \ {0}
         /\ \A i \in 1 .. Len(stack) : stack[i] \in Frame
         /\ Last(stack) = stack[Len(stack)]
BY LenProperties, EmptySeq, ElementOfSeq DEF Last

\* Moving on changes the step of the innermost call and nothing else.
LEMMA GoToFacts ==
  ASSUME stack \in Seq(Frame), stack # <<>>, NEW step \in StepName, GoTo(step)
  PROVE  /\ stack' \in Seq(Frame) /\ stack' # <<>>
         /\ Len(stack') = Len(stack)
         /\ stack'[Len(stack)].at = step
         /\ \A i \in 1 .. Len(stack) : /\ stack'[i].call = stack[i].call
                                       /\ i # Len(stack) => stack'[i] = stack[i]
<1> DEFINE n == Len(stack)
           f == [stack[n] EXCEPT !.at = step]
<1>1. n \in Nat \ {0} /\ stack[n] \in Frame /\ n \in 1 .. Len(stack)
  BY TopOfStack
<1>2. f \in Frame
  BY <1>1 DEF Frame, StepName
<1>3. stack' = [stack EXCEPT ![n] = f]
  BY DEF GoTo
<1>4. /\ stack' \in Seq(Frame) /\ Len(stack') = Len(stack)
      /\ \A i \in 1 .. Len(stack) : stack'[i] = IF i = n THEN f ELSE stack[i]
  BY <1>1, <1>2, <1>3, ExceptSeq
<1>5. f.at = step /\ f.call = stack[n].call
  BY <1>1 DEF Frame
<1>6. QED
  BY <1>1, <1>4, <1>5, EmptySeq

\* Returning removes the innermost call.
LEMMA ReturnFacts ==
  ASSUME stack \in Seq(Frame), stack # <<>>, Return
  PROVE  /\ stack' \in Seq(Frame)
         /\ Len(stack') = Len(stack) - 1
         /\ \A i \in 1 .. Len(stack) - 1 : stack'[i] = stack[i]
<1> DEFINE n == Len(stack)
<1>1. n \in Nat \ {0} /\ \A i \in 1 .. n - 1 : stack[i] \in Frame
  BY TopOfStack
<1>2. stack' = SubSeq(stack, 1, n - 1)
  BY DEF Return, Front
<1> HIDE DEF n
<1>3. /\ SubSeq(stack, 1, n - 1) \in Seq(Frame)
      /\ Len(SubSeq(stack, 1, n - 1)) = n - 1
      /\ \A i \in 1 .. n - 1 : SubSeq(stack, 1, n - 1)[i] = stack[i]
  <2>1. 1 \in Int /\ n - 1 \in Int /\ \A i \in 1 .. n - 1 : stack[i] \in Frame
    BY <1>1
  <2>2. /\ SubSeq(stack, 1, n - 1) \in Seq(Frame)
        /\ Len(SubSeq(stack, 1, n - 1)) = IF 1 <= n - 1 THEN n - 1 - 1 + 1 ELSE 0
        /\ \A i \in 1 .. n - 1 - 1 + 1 : SubSeq(stack, 1, n - 1)[i] = stack[1 + i - 1]
    BY <2>1, SubSeqProperties
  <2>3. QED
    BY <1>1, <2>2
<1>4. QED
  BY <1>2, <1>3 DEF n

\* A signal puts a call on top.
LEMMA PushFacts ==
  ASSUME stack \in Seq(Frame), NEW f \in Frame, stack' = Append(stack, f)
  PROVE  /\ stack' \in Seq(Frame) /\ stack' # <<>>
         /\ Len(stack') = Len(stack) + 1
         /\ \A i \in 1 .. Len(stack) : stack'[i] = stack[i]
         /\ stack'[Len(stack) + 1] = f
BY AppendProperties

\* Which steps are on the stack when the innermost call moves on.
LEMMA OnStackMoves ==
  ASSUME stack \in Seq(Frame), stack # <<>>, NEW next \in StepName, GoTo(next)
  PROVE  \A steps : /\ OnStack(steps)' => next \in steps \/ OnStack(steps)
                    /\ next \in steps => OnStack(steps)'
                    /\ OnStack(steps) => Last(stack).at \in steps \/ OnStack(steps)'
<1> DEFINE n == Len(stack)
<1>1. n \in Nat \ {0} /\ Last(stack) = stack[n]
  BY TopOfStack
<1>2. /\ Len(stack') = n /\ stack'[n].at = next
      /\ \A i \in 1 .. n : i # n => stack'[i] = stack[i]
  BY GoToFacts
<1> HIDE DEF n
<1> SUFFICES ASSUME NEW steps
             PROVE  /\ OnStack(steps)' => next \in steps \/ OnStack(steps)
                    /\ next \in steps => OnStack(steps)'
                    /\ OnStack(steps) => Last(stack).at \in steps \/ OnStack(steps)'
  OBVIOUS
<1>3. OnStack(steps) <=> \E i \in 1 .. n : stack[i].at \in steps
  BY DEF OnStack, n
<1>4. OnStack(steps)' <=> \E i \in 1 .. n : stack'[i].at \in steps
  BY <1>2 DEF OnStack
<1>5. QED
  BY <1>1, <1>2, <1>3, <1>4

\* Which are when it returns.
LEMMA OnStackReturns ==
  ASSUME stack \in Seq(Frame), stack # <<>>, Return
  PROVE  \A steps : /\ OnStack(steps)' => OnStack(steps)
                    /\ OnStack(steps) => Last(stack).at \in steps \/ OnStack(steps)'
<1> DEFINE n == Len(stack)
<1>1. n \in Nat \ {0} /\ Last(stack) = stack[n]
  BY TopOfStack
<1>2. Len(stack') = n - 1 /\ \A i \in 1 .. n - 1 : stack'[i] = stack[i]
  BY ReturnFacts
<1> HIDE DEF n
<1> SUFFICES ASSUME NEW steps
             PROVE  /\ OnStack(steps)' => OnStack(steps)
                    /\ OnStack(steps) => Last(stack).at \in steps \/ OnStack(steps)'
  OBVIOUS
<1>3. OnStack(steps) <=> \E i \in 1 .. n : stack[i].at \in steps
  BY DEF OnStack, n
<1>4. OnStack(steps)' <=> \E i \in 1 .. n - 1 : stack'[i].at \in steps
  BY <1>2 DEF OnStack
<1>5. \A i \in 1 .. n : i = n \/ i \in 1 .. n - 1
  BY <1>1
<1>6. \A i \in 1 .. n - 1 : i \in 1 .. n
  BY <1>1
<1>7. QED
  BY <1>1, <1>2, <1>3, <1>4, <1>5, <1>6

\* Which are when a signal puts a call on top.
LEMMA OnStackPushes ==
  ASSUME stack \in Seq(Frame), NEW f \in Frame, stack' = Append(stack, f)
  PROVE  \A steps : OnStack(steps)' <=> OnStack(steps) \/ f.at \in steps
<1> DEFINE n == Len(stack)
<1>1. n \in Nat
  BY LenProperties
<1>2. /\ Len(stack') = n + 1 /\ stack'[n + 1] = f
      /\ \A i \in 1 .. n : stack'[i] = stack[i]
  BY PushFacts
<1> HIDE DEF n
<1> SUFFICES ASSUME NEW steps PROVE OnStack(steps)' <=> OnStack(steps) \/ f.at \in steps
  OBVIOUS
<1>3. OnStack(steps) <=> \E i \in 1 .. n : stack[i].at \in steps
  BY DEF OnStack, n
<1>4. OnStack(steps)' <=> \E i \in 1 .. n + 1 : stack'[i].at \in steps
  BY <1>2 DEF OnStack
<1>5. \A i \in 1 .. n + 1 : i = n + 1 \/ i \in 1 .. n
  BY <1>1
<1>6. n + 1 \in 1 .. n + 1 /\ \A i \in 1 .. n : i \in 1 .. n + 1
  BY <1>1
<1>7. QED
  BY <1>2, <1>3, <1>4, <1>5, <1>6

\* A stop that looks for one that waits for the watcher finds it if there is one.
LEMMA HaltingCall ==
  ASSUME stack \in Seq(Frame), Stacked, OnStack({"halting"})
  PROVE  InCall(Shutdown, {"halting"})
<1>1. PICK i \in 1 .. Len(stack) : stack[i].at = "halting"
  BY DEF OnStack
<1>2. stack[i].at \in StepsOf(stack[i].call) /\ stack[i] \in Frame
  BY ElementOfSeq DEF Stacked
<1>3. stack[i].call \in Shutdown
  BY <1>1, <1>2 DEF StepsOf, Shutdown, Frame
<1>4. QED
  BY <1>1, <1>3 DEF InCall

\* Whether a thread is busy, and what is queued, is a matter of the lines.
LEMMA LinesDecide ==
  ASSUME UNCHANGED lines
  PROVE  /\ Drained' = Drained
         /\ \A thread : Busy(thread)' = Busy(thread)
         /\ \A thread : Held(thread)' = Held(thread)
BY DEF Drained, Queued, Busy, Held

LEMMA BusyHolds == \A thread : Busy(thread) <=> Held(thread) # {}
BY DEF Busy, Held

\* With a single call, the steps on the stack are its own.
LEMMA Alone ==
  ASSUME stack \in Seq(Frame), Len(stack) = 1
  PROVE  \A steps : OnStack(steps) <=> Last(stack).at \in steps
<1>1. stack # <<>>
  BY EmptySeq
<1>2. Last(stack) = stack[1]
  BY <1>1, TopOfStack
<1>3. QED
  BY <1>2 DEF OnStack

\* What a step that leaves the lines alone has to see to, for the threads that have them.
LEMMA Lasting ==
  ASSUME DaemonInv, UNCHANGED lines,
         ("async" \in up => "workers" \in up /\ ~ OnStack(Joining))',
         ("workers" \in up => "async" \in up \/ OnStack(Joining))',
         Retired' => Retired \/ Drained,
         ("watcher" \in up => "reader" \in up /\ ~ OnStack({"halting"}))',
         ("reader" \in up => "watcher" \in up \/ OnStack({"halting"}))',
         "reader" \notin up' => "reader" \notin up \/ ~ Busy("watcher"),
         overtaken => overtaken',
         "async" \in up /\ "async" \notin up' => overtaken \/ "reader" \notin up,
         Orderly'
  PROVE  Lined'
<1>1. /\ Drained' = Drained
      /\ Busy("worker")' = Busy("worker")
      /\ Held("watcher")' = Held("watcher")
  BY LinesDecide
<1>2. Lined
  BY DEF DaemonInv, Sound
<1>3. Pooled'
  <2>1. (Retired => ~ Busy("worker"))'
    BY <1>1, <1>2 DEF Lined, Pooled, Drained
  <2>2. (\A i \in 1 .. Len(lines) : /\ lines[i].at = "queued" => lines[i].on = "worker"
                                    /\ lines[i].at = "posting" => lines[i].on # "worker")'
    BY <1>2 DEF Lined, Pooled
  <2>3. QED
    BY <2>1, <2>2 DEF Pooled
<1>4. Watched'
  <2>1. ("reader" \notin up => Held("watcher") = {})'
    BY <1>1, <1>2, BusyHolds DEF Lined, Watched
  <2>2. (\A i, j \in Held("watcher") : i = j)'
    BY <1>1, <1>2 DEF Lined, Watched
  <2>3. QED
    BY <2>1, <2>2 DEF Watched
<1>5. Strayed'
  <2> SUFFICES ASSUME "async" \notin up', NEW i \in Stray', NEW j \in Stray'
               PROVE  i = j /\ overtaken'
    BY DEF Strayed
  <2>1. \A k \in Stray' : k \in Stray \/ k \in Held("watcher")
    BY <1>1 DEF Stray, Held, Drained, Queued
  <2>2. CASE "async" \notin up
    <3>1. \A k \in Stray' : k \in Stray
      BY <1>1 DEF Stray, Drained, Queued
    <3>2. QED
      BY <3>1, <2>2, <1>2 DEF Lined, Strayed
  <2>3. CASE "async" \in up
    <3>1. ~ Retired
      BY <2>3, <1>2 DEF Lined, Pooled, Retired, OnStack, Joining
    <3>2. \A k \in Stray : k \in Held("watcher")
      BY <3>1 DEF Stray, Held
    <3>3. i \in Held("watcher") /\ j \in Held("watcher")
      BY <2>1, <3>2
    <3>4. QED
      BY <3>3, <2>3, <1>2 DEF Lined, Watched
  <2>4. QED
    BY <2>2, <2>3
<1>6. QED
  BY <1>3, <1>4, <1>5 DEF Lined

--------------------------------------------------------------------------------
\* A step of the main thread that moves on; OpenStore and Halt are two of them.
Move(called, at, next, parts, st) ==
  /\ At(called, at)
  /\ GoTo(next)
  /\ up' = parts
  /\ state' = st
  /\ opened' \in BOOLEAN
  /\ overtaken' \in BOOLEAN /\ (overtaken => overtaken')
  /\ UNCHANGED <<configVars, phase, gDaemon, quitNow, reloaded, lineVars, outerVars>>

\* A step of the main thread that moves on keeps the invariant, if it does with the
\* parts what the conditions say.
LEMMA Moving ==
  ASSUME DaemonInv,
         NEW called, NEW at \in StepName, NEW next \in StepName,
         NEW parts \in SUBSET Part, NEW st \in DaemonState,
         Move(called, at, next, parts, st),
         next \in StepsOf(Last(stack).call),
         "watcher" \in parts =>
           "reader" \in parts /\ next # "halting" /\ ~ OnStack({"halting"}),
         "reader" \in parts /\ "watcher" \notin parts =>
           next = "halting" \/ (OnStack({"halting"}) /\ at # "halting"),
         "reader" \notin parts => "reader" \notin up \/ ~ Busy("watcher"),
         "reader" \in parts => "reader" \in up \/ Last(stack).call = "start",
         Last(stack).call \in Shutdown /\ "reader" \in parts /\ at \in {"halt", "halting"} =>
           next \in {"halt", "halting"} \/ overtaken',
         "async" \in parts =>
           "workers" \in parts /\ next \notin Joining /\ ~ OnStack(Joining),
         "workers" \in parts /\ "async" \notin parts =>
           next \in Joining \/ (OnStack(Joining) /\ at \notin Joining),
         "workers" \notin parts \/ next = "clearing" => Retired \/ Drained,
         "async" \in up /\ "async" \notin parts => overtaken \/ "reader" \notin up,
         "service" \in parts =>
           \/ "adaptor" \in parts
           \/ next = "adopt"
           \/ "service" \in up /\ "adaptor" \notin up /\ at # "adopt",
         Last(stack).call = "destroy" => (Down(at, up) => Down(next, parts)),
         Last(stack).call \in {"reload", "stop"} => parts \subseteq up \cup {"plugins"}
  PROVE  DaemonInv'
<1> DEFINE n == Len(stack)
<1>1. /\ stack \in Seq(Frame) /\ stack # <<>> /\ n \in Nat \ {0}
      /\ stack[n].call \in called /\ stack[n].at = at /\ Last(stack) = stack[n]
      /\ \A i \in 1 .. n : stack[i] \in Frame
      /\ Alive
  BY TopOfStack DEF Move, At, DaemonInv, TypeOK
<1>2. /\ stack' \in Seq(Frame) /\ stack' # <<>> /\ Len(stack') = n
      /\ stack'[n].at = next
      /\ \A i \in 1 .. n : /\ stack'[i].call = stack[i].call
                           /\ i # n => stack'[i] = stack[i]
  BY <1>1, GoToFacts DEF Move
<1>3. /\ up' = parts /\ state' = st
      /\ UNCHANGED <<configVars, phase, gDaemon, quitNow, reloaded, lineVars, outerVars>>
      /\ opened' \in BOOLEAN /\ overtaken' \in BOOLEAN /\ (overtaken => overtaken')
  BY DEF Move
<1>4. \A thread : Held(thread)' = Held(thread)
  BY <1>3, LinesDecide DEF lineVars
<1> HIDE DEF n
<1>5. /\ stack[n].call = "start" => n = 1 /\ phase = "start"
      /\ n # 1 => stack[n].call \in {"reload", "stop"} /\ stack'[1] = stack[1]
  <2>1. n # 1 => n \in 2 .. n
    BY <1>1
  <2>2. n # 1 => stack[n].call \in {"reload", "stop"} /\ stack'[1] = stack[1]
    BY <2>1, <1>1, <1>2 DEF DaemonInv, Sound, Stacked, n
  <2>3. n = 1 /\ stack[n].call = "start" => phase = "start"
    BY <1>1 DEF DaemonInv, Sound, Stacked, Alive
  <2>4. QED
    BY <1>1, <2>2, <2>3
<1>6. TypeOK'
  BY <1>1, <1>2, <1>3 DEF DaemonInv, TypeOK, lineVars, outerVars, configVars, n
<1>7. Stacked'
  BY <1>1, <1>2, <1>3 DEF DaemonInv, Sound, Stacked, lineVars, outerVars, n
<1>8. Lined'
  <2>1. /\ OnStack(Joining)' => next \in Joining \/ OnStack(Joining)
        /\ next \in Joining => OnStack(Joining)'
        /\ OnStack(Joining) => at \in Joining \/ OnStack(Joining)'
        /\ OnStack({"clearing"})' => next = "clearing" \/ OnStack({"clearing"})
        /\ OnStack({"halting"})' => next = "halting" \/ OnStack({"halting"})
        /\ next = "halting" => OnStack({"halting"})'
        /\ OnStack({"halting"}) => at = "halting" \/ OnStack({"halting"})'
    BY <1>1, OnStackMoves DEF Move
  <2>2. /\ ("async" \in up => "workers" \in up /\ ~ OnStack(Joining))'
        /\ ("workers" \in up => "async" \in up \/ OnStack(Joining))'
    BY <2>1, <1>3
  <2>3. /\ ("watcher" \in up => "reader" \in up /\ ~ OnStack({"halting"}))'
        /\ ("reader" \in up => "watcher" \in up \/ OnStack({"halting"}))'
    BY <2>1, <1>3
  <2>4. Retired' => Retired \/ Drained
    BY <2>1, <1>3 DEF Retired
  <2>5. Orderly'
    <3> SUFFICES ASSUME "reader" \in parts, ~ overtaken', NEW i \in 1 .. n,
                        stack'[i].call \in Shutdown
                 PROVE  stack'[i].at \in {"halt", "halting"}
      BY <1>2, <1>3 DEF Orderly
    <3>1. stack[i].call \in Shutdown
      BY <1>2
    <3>2. "reader" \in up
      <4>1. stack[n].call = "start" => i = n
        BY <1>1, <1>5
      <4>2. stack[n].call # "start"
        BY <4>1, <3>1 DEF Shutdown
      <4>3. QED
        BY <4>2, <1>1
    <3>3. stack[i].at \in {"halt", "halting"}
      BY <3>1, <3>2, <1>3 DEF DaemonInv, Sound, Lined, Orderly, n
    <3>4. QED
      BY <3>1, <3>3, <1>1, <1>2
  <2>6. QED
    BY <2>2, <2>3, <2>4, <2>5, <1>3, Lasting DEF lineVars
<1>9. Injected'
  BY <1>1, <1>2, <1>3, <1>4 DEF DaemonInv, Sound, Injected, n
<1>10. Registered'
  <2>1. CASE next = "adopt"
    <3>1. stack[n].call = "start"
      BY <2>1, <1>1 DEF StepsOf, ShutdownSteps
    <3>2. QED
      BY <3>1, <2>1, <1>2, <1>3, <1>5 DEF Registered
  <2>2. CASE "service" \in up /\ "adaptor" \notin up /\ at # "adopt"
    <3>1. phase \in {"start", "crashed"} /\ stack[1].at = "adopt"
      BY <2>2 DEF DaemonInv, Sound, Registered
    <3>2. 1 # n
      BY <3>1, <2>2, <1>1
    <3>3. QED
      BY <3>1, <3>2, <1>1, <1>2, <1>3 DEF Registered
  <2>3. QED
    BY <2>1, <2>2, <1>3 DEF Registered
<1>11. Descending'
  <2> SUFFICES ASSUME phase = "destroy" PROVE Down(stack'[1].at, parts)
    BY <1>3 DEF Descending
  <2>1. stack[1].call = "destroy" /\ Down(stack[1].at, up)
    BY DEF DaemonInv, Sound, Stacked, Descending
  <2>2. CASE n = 1
    BY <2>1, <2>2, <1>1, <1>2
  <2>3. CASE n # 1
    <3>1. parts \subseteq up \cup {"plugins"} /\ stack'[1] = stack[1]
      BY <2>3, <1>1, <1>5
    <3>2. QED
      BY <2>1, <3>1 DEF Down
  <2>4. QED
    BY <2>2, <2>3
<1>12. NothingLeftAtExit'
  BY <1>1, <1>3 DEF NothingLeftAtExit, Alive
<1>13. QED
  BY <1>6, <1>7, <1>8, <1>9, <1>10, <1>11, <1>12 DEF DaemonInv, Sound
--------------------------------------------------------------------------------
\* What follows each step, in each call.
LEMMA FollowStart ==
  ASSUME Last(stack).call = "start"
  PROVE  /\ Follow("load") = "workers" /\ Follow("workers") = "register"
         /\ Follow("register") = "adopt" /\ Follow("adopt") = "export"
         /\ Follow("export") = "open" /\ Follow("open") = "watch"
         /\ Follow("watch") = "run" /\ Follow("run") = "check"
<1>1. \A step : Follow(step) = StartOrder[step]
  BY Zenon DEF Follow
<1>2. QED
  BY <1>1 DEF StartOrder

LEMMA FollowReload ==
  ASSUME Last(stack).call = "reload"
  PROVE  Follow("flush") = "unload" /\ Follow("unload") = "load"
<1>1. \A step : Follow(step) = ReloadOrder[step]
  BY Zenon DEF Follow
<1>2. QED
  BY <1>1 DEF ReloadOrder

LEMMA FollowStop ==
  ASSUME Last(stack).call \in Shutdown
  PROVE  /\ Follow("halt") = "flush" /\ Follow("flush") = "join"
         /\ Follow("join") = "detach" /\ Follow("detach") = "unload"
         /\ Follow("unload") = "close" /\ Follow("close") = "done"
<1>1. Last(stack).call # "start" /\ Last(stack).call # "reload"
  BY DEF Shutdown
<1>2. \A step : Follow(step) = StopOrder[step]
  BY <1>1, Zenon DEF Follow
<1>3. QED
  BY <1>2 DEF StopOrder

--------------------------------------------------------------------------------
\* What a step finds on top of the stack.
LEMMA Standing ==
  ASSUME DaemonInv, NEW called, NEW at, At(called, at)
  PROVE  /\ Last(stack).call \in called
         /\ at \in StepsOf(Last(stack).call)
         /\ Last(stack).call = "destroy" => phase = "destroy" /\ Len(stack) = 1
         /\ Last(stack).call = "start" => phase = "start" /\ Len(stack) = 1
         /\ Last(stack).call = "inject" => phase = "exec" /\ Len(stack) = 1
         /\ Last(stack) = stack[Len(stack)] /\ Len(stack) \in Nat \ {0}
         /\ stack \in Seq(Frame) /\ stack # <<>>
<1> DEFINE n == Len(stack)
<1>1. /\ stack \in Seq(Frame) /\ stack # <<>> /\ n \in Nat \ {0} /\ Alive
      /\ Last(stack) = stack[n] /\ stack[n].call \in called /\ stack[n].at = at
  BY TopOfStack DEF At, DaemonInv, TypeOK
<1>2. stack[n].at \in StepsOf(stack[n].call)
  BY <1>1 DEF DaemonInv, Sound, Stacked
<1>3. n # 1 => stack[n].call \in {"reload", "stop"}
  <2>1. n \in Nat \ {0} /\ n = Len(stack)
    BY <1>1
  <2>2. \A i \in 2 .. Len(stack) : stack[i].call \in {"reload", "stop"}
    BY DEF DaemonInv, Sound, Stacked
  <2> HIDE DEF n
  <2>3. QED
    BY <2>1, <2>2
<1>4. n = 1 => /\ phase = "start" => stack[n].call = "start"
               /\ phase = "exec" => stack[n].call \in {"reload", "stop", "inject"}
               /\ phase = "destroy" => stack[n].call = "destroy"
  BY <1>1 DEF DaemonInv, Sound, Stacked
<1>5. QED
  BY <1>1, <1>2, <1>3, <1>4 DEF Alive

\* A step that has nothing to do with the watcher and the workers.
LEMMA Calm ==
  ASSUME DaemonInv,
         NEW called, NEW at \in StepName, NEW next \in StepName,
         NEW parts \in SUBSET Part, NEW st \in DaemonState,
         Move(called, at, next, parts, st),
         next \in StepsOf(Last(stack).call),
         at \notin {"halt", "halting"} \cup Joining,
         next \notin {"halting"} \cup Joining,
         \A part \in {"watcher", "reader", "async", "workers"} : part \in parts <=> part \in up,
         "service" \in parts =>
           \/ "adaptor" \in parts
           \/ next = "adopt"
           \/ "service" \in up /\ "adaptor" \notin up /\ at # "adopt",
         Last(stack).call = "destroy" => (Down(at, up) => Down(next, parts)),
         Last(stack).call \in {"reload", "stop"} => parts \subseteq up \cup {"plugins"}
  PROVE  DaemonInv'
<1>1. /\ "watcher" \in parts <=> "watcher" \in up
      /\ "reader" \in parts <=> "reader" \in up
      /\ "async" \in parts <=> "async" \in up
      /\ "workers" \in parts <=> "workers" \in up
  OBVIOUS
<1>2. /\ "watcher" \in up => "reader" \in up /\ ~ OnStack({"halting"})
      /\ "reader" \in up /\ "watcher" \notin up => OnStack({"halting"})
      /\ "async" \in up => "workers" \in up /\ ~ OnStack(Joining)
      /\ "workers" \in up /\ "async" \notin up => OnStack(Joining)
      /\ "workers" \notin up => Retired
  BY DEF DaemonInv, Sound, Lined, Watched, Pooled, Retired
<1>3. /\ next # "halting" /\ next \notin Joining /\ next # "clearing"
      /\ at \notin {"halt", "halting"} /\ at # "halting" /\ at \notin Joining
  BY DEF Joining
<1>4. QED
  BY <1>1, <1>2, <1>3, Moving

LEMMA StartMoves ==
  ASSUME DaemonInv,
         NEW ok \in BOOLEAN,
         LoadPlugins(ok) \/ RegisterService(ok) \/ RegisterObject(ok)
           \/ OpenStore(ok) \/ Adopt \/ Run
  PROVE  DaemonInv'
<1> USE DEF StepName, Part, DaemonState
<1>1. up \subseteq Part /\ state \in DaemonState /\ opened \in BOOLEAN /\ overtaken \in BOOLEAN
  BY DEF DaemonInv, TypeOK
<1>2. CASE LoadPlugins(ok)
  <2> DEFINE called == {"start", "reload"}
             at == "load"
             next == IF Last(stack).call = "start" THEN Follow("load")
                     ELSE IF ok THEN "loaded" ELSE "empty"
             parts == IF ok THEN up \cup {"plugins"} ELSE up
             st == "LOADING"
  <2>1. Move(called, at, next, parts, st)
    BY <1>1, <1>2 DEF LoadPlugins, Step, pastVars, Move
  <2>2. Last(stack).call \in {"start", "reload"}
    BY <2>1, Standing DEF Move
  <2>3. /\ next \in StepsOf(Last(stack).call) /\ next \in StepName
        /\ next \notin {"halting"} \cup Joining /\ at \notin {"halt", "halting"} \cup Joining
    BY <2>2, FollowStart DEF StepsOf, ShutdownSteps, Shutdown, Joining
  <2>4. /\ at \in StepName /\ parts \in SUBSET Part /\ st \in DaemonState
        /\ \A part \in {"watcher", "reader", "async", "workers"} : part \in parts <=> part \in up
        /\ Last(stack).call \in {"reload", "stop"} => parts \subseteq up \cup {"plugins"}
    BY <1>1, <2>2
  <2>5. "service" \in parts =>
          \/ "adaptor" \in parts
          \/ next = "adopt"
          \/ "service" \in up /\ "adaptor" \notin up /\ at # "adopt"
    BY <2>2, FollowStart
  <2>6. Last(stack).call # "destroy"
    BY <2>2
  <2> HIDE DEF called, at, next, parts, st, StepName, DaemonState, Part
  <2>7. QED
    BY <2>1, <2>3, <2>4, <2>5, <2>6, Calm
<1>3. CASE RegisterService(ok)
  <2> DEFINE called == {"start"}
             at == "register"
             next == IF ok THEN Follow("register") ELSE "check"
             parts == IF ok THEN up \cup {"service"} ELSE up
             st == IF ok THEN "STARTING" ELSE "FAILED"
  <2>1. Move(called, at, next, parts, st)
    BY <1>1, <1>3 DEF RegisterService, Step, pastVars, Move
  <2>2. Last(stack).call = "start"
    BY <2>1, Standing DEF Move
  <2>3. /\ next \in StepsOf(Last(stack).call) /\ next \in StepName
        /\ next \notin {"halting"} \cup Joining /\ at \notin {"halt", "halting"} \cup Joining
    BY <2>2, FollowStart DEF StepsOf, ShutdownSteps, Shutdown, Joining
  <2>4. /\ at \in StepName /\ parts \in SUBSET Part /\ st \in DaemonState
        /\ \A part \in {"watcher", "reader", "async", "workers"} : part \in parts <=> part \in up
        /\ Last(stack).call \in {"reload", "stop"} => parts \subseteq up \cup {"plugins"}
    BY <1>1, <2>2
  <2>5. "service" \in parts =>
          \/ "adaptor" \in parts
          \/ next = "adopt"
          \/ "service" \in up /\ "adaptor" \notin up /\ at # "adopt"
    BY <2>2, FollowStart
  <2>6. Last(stack).call # "destroy"
    BY <2>2
  <2> HIDE DEF called, at, next, parts, st, StepName, DaemonState, Part
  <2>7. QED
    BY <2>1, <2>3, <2>4, <2>5, <2>6, Calm
<1>4. CASE RegisterObject(ok)
  <2> DEFINE called == {"start"}
             at == "export"
             next == IF ok THEN Follow("export") ELSE "check"
             parts == IF ok THEN up \cup {"object"} ELSE up
             st == IF ok THEN state ELSE "FAILED"
  <2>1. Move(called, at, next, parts, st)
    BY <1>1, <1>4 DEF RegisterObject, Step, pastVars, Move
  <2>2. Last(stack).call = "start"
    BY <2>1, Standing DEF Move
  <2>3. /\ next \in StepsOf(Last(stack).call) /\ next \in StepName
        /\ next \notin {"halting"} \cup Joining /\ at \notin {"halt", "halting"} \cup Joining
    BY <2>2, FollowStart DEF StepsOf, ShutdownSteps, Shutdown, Joining
  <2>4. /\ at \in StepName /\ parts \in SUBSET Part /\ st \in DaemonState
        /\ \A part \in {"watcher", "reader", "async", "workers"} : part \in parts <=> part \in up
        /\ Last(stack).call \in {"reload", "stop"} => parts \subseteq up \cup {"plugins"}
    BY <1>1, <2>2
  <2>5. "service" \in parts =>
          \/ "adaptor" \in parts
          \/ next = "adopt"
          \/ "service" \in up /\ "adaptor" \notin up /\ at # "adopt"
    BY <2>2, FollowStart
  <2>6. Last(stack).call # "destroy"
    BY <2>2
  <2> HIDE DEF called, at, next, parts, st, StepName, DaemonState, Part
  <2>7. QED
    BY <2>1, <2>3, <2>4, <2>5, <2>6, Calm
<1>5. CASE Adopt
  <2> DEFINE called == {"start"}
             at == "adopt"
             next == Follow("adopt")
             parts == up \cup {"callback", "adaptor"}
  <2>1. Move(called, at, next, parts, state)
    BY <1>1, <1>5 DEF Adopt, Step, pastVars, Move
  <2>2. Last(stack).call = "start"
    BY <2>1, Standing DEF Move
  <2>3. /\ next \in StepsOf(Last(stack).call) /\ next \in StepName
        /\ next \notin {"halting"} \cup Joining /\ at \notin {"halt", "halting"} \cup Joining
    BY <2>2, FollowStart DEF StepsOf, ShutdownSteps, Shutdown, Joining
  <2>4. /\ at \in StepName /\ parts \in SUBSET Part
        /\ \A part \in {"watcher", "reader", "async", "workers"} : part \in parts <=> part \in up
        /\ Last(stack).call \in {"reload", "stop"} => parts \subseteq up \cup {"plugins"}
    BY <1>1, <2>2
  <2>5. "service" \in parts =>
          \/ "adaptor" \in parts
          \/ next = "adopt"
          \/ "service" \in up /\ "adaptor" \notin up /\ at # "adopt"
    BY <2>2, FollowStart
  <2>6. Last(stack).call # "destroy"
    BY <2>2
  <2> HIDE DEF called, at, next, parts, StepName, DaemonState, Part
  <2>7. QED
    BY <1>1, <2>1, <2>3, <2>4, <2>5, <2>6, Calm
<1>6. CASE Run
  <2> DEFINE called == {"start"}
             at == "run"
             next == Follow("run")
             parts == up \cup {"timer"}
             st == "RUNNING"
  <2>1. Move(called, at, next, parts, st)
    BY <1>1, <1>6 DEF Run, Step, pastVars, Move
  <2>2. Last(stack).call = "start"
    BY <2>1, Standing DEF Move
  <2>3. /\ next \in StepsOf(Last(stack).call) /\ next \in StepName
        /\ next \notin {"halting"} \cup Joining /\ at \notin {"halt", "halting"} \cup Joining
    BY <2>2, FollowStart DEF StepsOf, ShutdownSteps, Shutdown, Joining
  <2>4. /\ at \in StepName /\ parts \in SUBSET Part /\ st \in DaemonState
        /\ \A part \in {"watcher", "reader", "async", "workers"} : part \in parts <=> part \in up
        /\ Last(stack).call \in {"reload", "stop"} => parts \subseteq up \cup {"plugins"}
    BY <1>1, <2>2
  <2>5. "service" \in parts =>
          \/ "adaptor" \in parts
          \/ next = "adopt"
          \/ "service" \in up /\ "adaptor" \notin up /\ at # "adopt"
    BY <2>2, FollowStart
  <2>6. Last(stack).call # "destroy"
    BY <2>2
  <2> HIDE DEF called, at, next, parts, st, StepName, DaemonState, Part
  <2>7. QED
    BY <2>1, <2>3, <2>4, <2>5, <2>6, Calm
<1>7. CASE OpenStore(ok)
  <2> DEFINE called == {"start"}
             at == "open"
             next == Follow("open")
             parts == IF ok THEN up \cup {"store"} ELSE up
  <2>1. Move(called, at, next, parts, state)
    BY <1>1, <1>7 DEF OpenStore, pastVars, Move
  <2>2. Last(stack).call = "start"
    BY <2>1, Standing DEF Move
  <2>3. /\ next \in StepsOf(Last(stack).call) /\ next \in StepName
        /\ next \notin {"halting"} \cup Joining /\ at \notin {"halt", "halting"} \cup Joining
    BY <2>2, FollowStart DEF StepsOf, ShutdownSteps, Shutdown, Joining
  <2>4. /\ at \in StepName /\ parts \in SUBSET Part
        /\ \A part \in {"watcher", "reader", "async", "workers"} : part \in parts <=> part \in up
        /\ Last(stack).call \in {"reload", "stop"} => parts \subseteq up \cup {"plugins"}
    BY <1>1, <2>2
  <2>5. "service" \in parts =>
          \/ "adaptor" \in parts
          \/ next = "adopt"
          \/ "service" \in up /\ "adaptor" \notin up /\ at # "adopt"
    BY <2>2, FollowStart
  <2>6. Last(stack).call # "destroy"
    BY <2>2
  <2> HIDE DEF called, at, next, parts, StepName, DaemonState, Part
  <2>7. QED
    BY <1>1, <2>1, <2>3, <2>4, <2>5, <2>6, Calm
<1>8. QED
  BY <1>2, <1>3, <1>4, <1>5, <1>6, <1>7

LEMMA FlushMoves ==
  ASSUME DaemonInv, EnterFlush \/ LeaveFlush \/ Unload \/ Detach \/ CloseStore
  PROVE  DaemonInv'
<1> USE DEF StepName, Part, DaemonState
<1>1. up \subseteq Part /\ state \in DaemonState /\ opened \in BOOLEAN /\ overtaken \in BOOLEAN
  BY DEF DaemonInv, TypeOK
<1>2. CASE EnterFlush
  <2> DEFINE called == {"reload"} \cup Shutdown
             at == "flush"
             next == IF "workers" \in up THEN "flushing" ELSE Follow("flush")
             parts == up
  <2>1. Move(called, at, next, parts, state)
    BY <1>1, <1>2 DEF EnterFlush, Step, pastVars, Move
  <2>2. Last(stack).call = "reload" \/ Last(stack).call \in Shutdown
    BY <2>1, Standing DEF Move
  <2>3. /\ next \in StepsOf(Last(stack).call) /\ next \in StepName
        /\ next \notin {"halting"} \cup Joining /\ at \notin {"halt", "halting"} \cup Joining
    BY <2>2, FollowReload, FollowStop DEF StepsOf, ShutdownSteps, Shutdown, Joining
  <2>4. /\ at \in StepName /\ parts \in SUBSET Part
        /\ \A part \in {"watcher", "reader", "async", "workers"} : part \in parts <=> part \in up
        /\ Last(stack).call \in {"reload", "stop"} => parts \subseteq up \cup {"plugins"}
    BY <1>1, <2>2
  <2>5. "service" \in parts =>
          \/ "adaptor" \in parts
          \/ next = "adopt"
          \/ "service" \in up /\ "adaptor" \notin up /\ at # "adopt"
    BY <2>2, FollowReload, FollowStop
  <2>6. Last(stack).call = "destroy" => (Down(at, up) => Down(next, parts))
    BY <2>2, FollowReload, FollowStop DEF Down, Shutdown, Joining
  <2> HIDE DEF called, at, next, parts, StepName, DaemonState, Part
  <2>7. QED
    BY <1>1, <2>1, <2>3, <2>4, <2>5, <2>6, Calm
<1>3. CASE LeaveFlush
  <2> DEFINE called == {"reload"} \cup Shutdown
             at == "flushing"
             next == Follow("flush")
             parts == up
  <2>1. Move(called, at, next, parts, state)
    BY <1>1, <1>3 DEF LeaveFlush, Step, pastVars, Move
  <2>2. Last(stack).call = "reload" \/ Last(stack).call \in Shutdown
    BY <2>1, Standing DEF Move
  <2>3. /\ next \in StepsOf(Last(stack).call) /\ next \in StepName
        /\ next \notin {"halting"} \cup Joining /\ at \notin {"halt", "halting"} \cup Joining
    BY <2>2, FollowReload, FollowStop DEF StepsOf, ShutdownSteps, Shutdown, Joining
  <2>4. /\ at \in StepName /\ parts \in SUBSET Part
        /\ \A part \in {"watcher", "reader", "async", "workers"} : part \in parts <=> part \in up
        /\ Last(stack).call \in {"reload", "stop"} => parts \subseteq up \cup {"plugins"}
    BY <1>1, <2>2
  <2>5. "service" \in parts =>
          \/ "adaptor" \in parts
          \/ next = "adopt"
          \/ "service" \in up /\ "adaptor" \notin up /\ at # "adopt"
    BY <2>2, FollowReload, FollowStop
  <2>6. Last(stack).call = "destroy" => (Down(at, up) => Down(next, parts))
    BY <2>2, FollowReload, FollowStop DEF Down, Shutdown, Joining
  <2> HIDE DEF called, at, next, parts, StepName, DaemonState, Part
  <2>7. QED
    BY <1>1, <2>1, <2>3, <2>4, <2>5, <2>6, Calm
<1>4. CASE Unload
  <2> DEFINE called == {"reload"} \cup Shutdown
             at == "unload"
             next == Follow("unload")
             parts == up \ {"plugins"}
  <2>1. Move(called, at, next, parts, state)
    BY <1>1, <1>4 DEF Unload, Step, pastVars, Move
  <2>2. Last(stack).call = "reload" \/ Last(stack).call \in Shutdown
    BY <2>1, Standing DEF Move
  <2>3. /\ next \in StepsOf(Last(stack).call) /\ next \in StepName
        /\ next \notin {"halting"} \cup Joining /\ at \notin {"halt", "halting"} \cup Joining
    BY <2>2, FollowReload, FollowStop DEF StepsOf, ShutdownSteps, Shutdown, Joining
  <2>4. /\ at \in StepName /\ parts \in SUBSET Part
        /\ \A part \in {"watcher", "reader", "async", "workers"} : part \in parts <=> part \in up
        /\ Last(stack).call \in {"reload", "stop"} => parts \subseteq up \cup {"plugins"}
    BY <1>1, <2>2
  <2>5. "service" \in parts =>
          \/ "adaptor" \in parts
          \/ next = "adopt"
          \/ "service" \in up /\ "adaptor" \notin up /\ at # "adopt"
    BY <2>2, FollowReload, FollowStop
  <2>6. Last(stack).call = "destroy" => (Down(at, up) => Down(next, parts))
    BY <2>2, FollowReload, FollowStop DEF Down, Shutdown, Joining
  <2> HIDE DEF called, at, next, parts, StepName, DaemonState, Part
  <2>7. QED
    BY <1>1, <2>1, <2>3, <2>4, <2>5, <2>6, Calm
<1>5. CASE Detach
  <2> DEFINE called == Shutdown
             at == "detach"
             next == Follow("detach")
             parts == up \ ({"timer"} \cup IF "adaptor" \in up THEN {"object", "service", "adaptor"}
                                           ELSE {})
  <2>1. Move(called, at, next, parts, state)
    BY <1>1, <1>5 DEF Detach, Step, pastVars, Move
  <2>2. Last(stack).call \in Shutdown
    BY <2>1, Standing DEF Move
  <2>3. /\ next \in StepsOf(Last(stack).call) /\ next \in StepName
        /\ next \notin {"halting"} \cup Joining /\ at \notin {"halt", "halting"} \cup Joining
    BY <2>2, FollowStop DEF StepsOf, ShutdownSteps, Shutdown, Joining
  <2>4. /\ at \in StepName /\ parts \in SUBSET Part
        /\ \A part \in {"watcher", "reader", "async", "workers"} : part \in parts <=> part \in up
        /\ Last(stack).call \in {"reload", "stop"} => parts \subseteq up \cup {"plugins"}
    BY <1>1, <2>2
  <2>5. "service" \in parts =>
          \/ "adaptor" \in parts
          \/ next = "adopt"
          \/ "service" \in up /\ "adaptor" \notin up /\ at # "adopt"
    BY <2>2, FollowStop
  <2>6. Last(stack).call = "destroy" => (Down(at, up) => Down(next, parts))
    <3>1. Last(stack).call = "destroy" => phase = "destroy"
      BY <2>1, Standing DEF Move
    <3>2. Last(stack).call = "destroy" => ("service" \in up => "adaptor" \in up)
      BY <3>1 DEF DaemonInv, Sound, Registered
    <3>3. /\ parts \subseteq up /\ "timer" \notin parts /\ "adaptor" \notin parts
          /\ "service" \in parts => "adaptor" \notin up
      OBVIOUS
    <3>4. Last(stack).call \in Shutdown /\ next = "unload"
      BY <2>2, FollowStop
    <3> HIDE DEF parts, next
    <3>5. QED
      BY <3>2, <3>3, <3>4 DEF Down, Joining
  <2> HIDE DEF called, at, next, parts, StepName, DaemonState, Part
  <2>7. QED
    BY <1>1, <2>1, <2>3, <2>4, <2>5, <2>6, Calm
<1>6. CASE CloseStore
  <2> DEFINE called == Shutdown
             at == "close"
             next == Follow("close")
             parts == up \ {"store"}
  <2>1. Move(called, at, next, parts, state)
    BY <1>1, <1>6 DEF CloseStore, Step, pastVars, Move
  <2>2. Last(stack).call \in Shutdown
    BY <2>1, Standing DEF Move
  <2>3. /\ next \in StepsOf(Last(stack).call) /\ next \in StepName
        /\ next \notin {"halting"} \cup Joining /\ at \notin {"halt", "halting"} \cup Joining
    BY <2>2, FollowStop DEF StepsOf, ShutdownSteps, Shutdown, Joining
  <2>4. /\ at \in StepName /\ parts \in SUBSET Part
        /\ \A part \in {"watcher", "reader", "async", "workers"} : part \in parts <=> part \in up
        /\ Last(stack).call \in {"reload", "stop"} => parts \subseteq up \cup {"plugins"}
    BY <1>1, <2>2
  <2>5. "service" \in parts =>
          \/ "adaptor" \in parts
          \/ next = "adopt"
          \/ "service" \in up /\ "adaptor" \notin up /\ at # "adopt"
    BY <2>2, FollowStop
  <2>6. Last(stack).call = "destroy" => (Down(at, up) => Down(next, parts))
    BY <2>2, FollowStop DEF Down, Shutdown, Joining
  <2> HIDE DEF called, at, next, parts, StepName, DaemonState, Part
  <2>7. QED
    BY <1>1, <2>1, <2>3, <2>4, <2>5, <2>6, Calm
<1>7. QED
  BY <1>2, <1>3, <1>4, <1>5, <1>6

\* The innermost call is on the stack.
LEMMA TopOnStack ==
  ASSUME DaemonInv, stack # <<>>
  PROVE  \A steps : Last(stack).at \in steps => OnStack(steps)
<1>1. Len(stack) \in 1 .. Len(stack) /\ Last(stack) = stack[Len(stack)]
  BY TopOfStack DEF DaemonInv, TypeOK
<1>2. QED
  BY <1>1 DEF OnStack

\* A stop that is past the watcher while its thread runs has overtaken another one.
LEMMA TopOrder ==
  ASSUME DaemonInv, stack # <<>>, Last(stack).call \in Shutdown,
         Last(stack).at \notin {"halt", "halting"}, "reader" \in up
  PROVE  overtaken
<1>1. Len(stack) \in 1 .. Len(stack) /\ Last(stack) = stack[Len(stack)]
  BY TopOfStack DEF DaemonInv, TypeOK
<1>2. QED
  BY <1>1 DEF DaemonInv, Sound, Lined, Orderly

LEMMA ThreadMoves ==
  ASSUME DaemonInv,
         StartWorkers \/ StartWatcher \/ Halt \/ JoinWatcher
           \/ StopWorkers \/ JoinWorkers \/ ClearWorkers
  PROVE  DaemonInv'
<1> USE DEF StepName, Part, DaemonState
<1>1. up \subseteq Part /\ state \in DaemonState /\ opened \in BOOLEAN /\ overtaken \in BOOLEAN
  BY DEF DaemonInv, TypeOK
<1>2. /\ "watcher" \in up => "reader" \in up /\ ~ OnStack({"halting"})
      /\ "reader" \in up /\ "watcher" \notin up => OnStack({"halting"})
      /\ "async" \in up => "workers" \in up /\ ~ OnStack(Joining)
      /\ "workers" \in up /\ "async" \notin up => OnStack(Joining)
      /\ "workers" \notin up => Retired
  BY DEF DaemonInv, Sound, Lined, Watched, Pooled, Retired
<1>3. CASE StartWorkers
  <2> DEFINE called == {"start"}
             at == "workers"
             next == Follow("workers")
             parts == IF async THEN up \cup {"async", "workers"} ELSE up
  <2>1. Move(called, at, next, parts, state)
    BY <1>1, <1>3 DEF StartWorkers, Step, pastVars, Move
  <2>2. Last(stack).call = "start" /\ stack \in Seq(Frame) /\ stack # <<>>
        /\ Last(stack).at = at
    BY <2>1, Standing DEF Move, At
  <2>3. Last(stack).call \in {"start", "destroy"} => Len(stack) = 1
    BY <2>1, Standing DEF Move
  <2>4. \A steps : Len(stack) = 1 => (OnStack(steps) <=> at \in steps)
    BY <2>2, Alone
  <2>5. next \in StepsOf(Last(stack).call) /\ next \in StepName /\ next # "adopt"
    BY <2>2, FollowStart DEF StepsOf, ShutdownSteps, Shutdown
  <2>6. /\ "watcher" \in parts =>
             "reader" \in parts /\ next # "halting" /\ ~ OnStack({"halting"})
        /\ "reader" \in parts /\ "watcher" \notin parts =>
             next = "halting" \/ (OnStack({"halting"}) /\ at # "halting")
        /\ "reader" \notin parts => "reader" \notin up \/ ~ Busy("watcher")
        /\ "reader" \in parts => "reader" \in up \/ Last(stack).call = "start"
        /\ Last(stack).call \in Shutdown /\ "reader" \in parts /\ at \in {"halt", "halting"} =>
             next \in {"halt", "halting"} \/ overtaken'
    BY <1>2, <2>2, FollowStart DEF Shutdown, Joining
  <2>7. /\ "async" \in parts => "workers" \in parts /\ next \notin Joining /\ ~ OnStack(Joining)
        /\ "workers" \in parts /\ "async" \notin parts =>
             next \in Joining \/ (OnStack(Joining) /\ at \notin Joining)
        /\ "workers" \notin parts \/ next = "clearing" => Retired \/ Drained
        /\ "async" \in up /\ "async" \notin parts => overtaken \/ "reader" \notin up
    BY <1>2, <2>2, <2>3, <2>4, FollowStart DEF Joining
  <2>8. /\ at \in StepName /\ at # "adopt" /\ parts \in SUBSET Part
        /\ "service" \in parts <=> "service" \in up
        /\ "adaptor" \in parts <=> "adaptor" \in up
        /\ Last(stack).call \in {"reload", "stop"} => parts \subseteq up
    BY <1>1, <2>2
  <2>9. Last(stack).call = "destroy" => (Down(at, up) => Down(next, parts))
    BY <2>2
  <2> HIDE DEF called, at, next, parts, StepName, DaemonState, Part
  <2>10. QED
    BY <1>1, <2>1, <2>5, <2>6, <2>7, <2>8, <2>9, Moving
<1>4. CASE StartWatcher
  <2> DEFINE called == {"start"}
             at == "watch"
             next == Follow("watch")
             parts == up \cup {"watcher", "reader"}
  <2>1. Move(called, at, next, parts, state)
    BY <1>1, <1>4 DEF StartWatcher, Step, pastVars, Move
  <2>2. Last(stack).call = "start" /\ stack \in Seq(Frame) /\ stack # <<>>
        /\ Last(stack).at = at
    BY <2>1, Standing DEF Move, At
  <2>3. Last(stack).call \in {"start", "destroy"} => Len(stack) = 1
    BY <2>1, Standing DEF Move
  <2>4. \A steps : Len(stack) = 1 => (OnStack(steps) <=> at \in steps)
    BY <2>2, Alone
  <2>5. next \in StepsOf(Last(stack).call) /\ next \in StepName /\ next # "adopt"
    BY <2>2, FollowStart DEF StepsOf, ShutdownSteps, Shutdown
  <2>6. /\ "watcher" \in parts =>
             "reader" \in parts /\ next # "halting" /\ ~ OnStack({"halting"})
        /\ "reader" \in parts /\ "watcher" \notin parts =>
             next = "halting" \/ (OnStack({"halting"}) /\ at # "halting")
        /\ "reader" \notin parts => "reader" \notin up \/ ~ Busy("watcher")
        /\ "reader" \in parts => "reader" \in up \/ Last(stack).call = "start"
        /\ Last(stack).call \in Shutdown /\ "reader" \in parts /\ at \in {"halt", "halting"} =>
             next \in {"halt", "halting"} \/ overtaken'
    BY <1>2, <2>2, <2>3, <2>4, FollowStart DEF Shutdown
  <2>7. /\ "async" \in parts => "workers" \in parts /\ next \notin Joining /\ ~ OnStack(Joining)
        /\ "workers" \in parts /\ "async" \notin parts =>
             next \in Joining \/ (OnStack(Joining) /\ at \notin Joining)
        /\ "workers" \notin parts \/ next = "clearing" => Retired \/ Drained
        /\ "async" \in up /\ "async" \notin parts => overtaken \/ "reader" \notin up
    BY <1>2, <2>2, FollowStart DEF Shutdown, Joining
  <2>8. /\ at \in StepName /\ at # "adopt" /\ parts \in SUBSET Part
        /\ "service" \in parts <=> "service" \in up
        /\ "adaptor" \in parts <=> "adaptor" \in up
        /\ Last(stack).call \in {"reload", "stop"} => parts \subseteq up
    BY <1>1, <2>2
  <2>9. Last(stack).call = "destroy" => (Down(at, up) => Down(next, parts))
    BY <2>2
  <2> HIDE DEF called, at, next, parts, StepName, DaemonState, Part
  <2>10. QED
    BY <1>1, <2>1, <2>5, <2>6, <2>7, <2>8, <2>9, Moving
<1>5. CASE Halt
  <2> DEFINE called == Shutdown
             at == "halt"
             next == IF "watcher" \in up THEN "halting" ELSE Follow("halt")
             parts == up \ {"watcher"}
  <2>1. Move(called, at, next, parts, state)
    BY <1>1, <1>5 DEF Halt, Move
  <2>2. Last(stack).call \in Shutdown /\ stack \in Seq(Frame) /\ stack # <<>>
        /\ Last(stack).at = at
    BY <2>1, Standing DEF Move, At
  <2>3. Last(stack).call \in {"start", "destroy"} => Len(stack) = 1
    BY <2>1, Standing DEF Move
  <2>4. \A steps : Len(stack) = 1 => (OnStack(steps) <=> at \in steps)
    BY <2>2, Alone
  <2>5. next \in StepsOf(Last(stack).call) /\ next \in StepName /\ next # "adopt"
    BY <2>2, FollowStop DEF StepsOf, ShutdownSteps, Shutdown
  <2>6. /\ "watcher" \in parts =>
             "reader" \in parts /\ next # "halting" /\ ~ OnStack({"halting"})
        /\ "reader" \in parts /\ "watcher" \notin parts =>
             next = "halting" \/ (OnStack({"halting"}) /\ at # "halting")
        /\ "reader" \notin parts => "reader" \notin up \/ ~ Busy("watcher")
        /\ "reader" \in parts => "reader" \in up \/ Last(stack).call = "start"
        /\ Last(stack).call \in Shutdown /\ "reader" \in parts /\ at \in {"halt", "halting"} =>
             next \in {"halt", "halting"} \/ overtaken'
    <3>1. "reader" \in up /\ "watcher" \notin up => overtaken'
      <4>1. OnStack({"halting"}) => InCall(Shutdown, {"halting"})
        BY <2>2, HaltingCall DEF DaemonInv, Sound
      <4>2. InCall(Shutdown, {"halting"}) => overtaken'
        BY <1>5 DEF Halt
      <4>3. QED
        BY <4>1, <4>2, <1>2
    <3>2. QED
      BY <3>1, <1>2, <2>2, FollowStop
  <2>7. /\ "async" \in parts => "workers" \in parts /\ next \notin Joining /\ ~ OnStack(Joining)
        /\ "workers" \in parts /\ "async" \notin parts =>
             next \in Joining \/ (OnStack(Joining) /\ at \notin Joining)
        /\ "workers" \notin parts \/ next = "clearing" => Retired \/ Drained
        /\ "async" \in up /\ "async" \notin parts => overtaken \/ "reader" \notin up
    BY <1>2, <2>2, FollowStop DEF Shutdown, Joining
  <2>8. /\ at \in StepName /\ at # "adopt" /\ parts \in SUBSET Part
        /\ "service" \in parts <=> "service" \in up
        /\ "adaptor" \in parts <=> "adaptor" \in up
        /\ Last(stack).call \in {"reload", "stop"} => parts \subseteq up
    BY <1>1, <2>2
  <2>9. Last(stack).call = "destroy" => (Down(at, up) => Down(next, parts))
    BY <1>2, <2>2, <2>3, <2>4, FollowStop DEF Down, Shutdown, Joining
  <2> HIDE DEF called, at, next, parts, StepName, DaemonState, Part
  <2>10. QED
    BY <1>1, <2>1, <2>5, <2>6, <2>7, <2>8, <2>9, Moving
<1>6. CASE JoinWatcher
  <2> DEFINE called == Shutdown
             at == "halting"
             next == Follow("halt")
             parts == up \ {"reader"}
  <2>1. Move(called, at, next, parts, state)
    BY <1>1, <1>6 DEF JoinWatcher, Step, pastVars, Move
  <2>2. Last(stack).call \in Shutdown /\ stack \in Seq(Frame) /\ stack # <<>>
        /\ Last(stack).at = at
    BY <2>1, Standing DEF Move, At
  <2>3. Last(stack).call \in {"start", "destroy"} => Len(stack) = 1
    BY <2>1, Standing DEF Move
  <2>4. \A steps : Len(stack) = 1 => (OnStack(steps) <=> at \in steps)
    BY <2>2, Alone
  <2>5. next \in StepsOf(Last(stack).call) /\ next \in StepName /\ next # "adopt"
    BY <2>2, FollowStop DEF StepsOf, ShutdownSteps, Shutdown
  <2>6. /\ "watcher" \in parts =>
             "reader" \in parts /\ next # "halting" /\ ~ OnStack({"halting"})
        /\ "reader" \in parts /\ "watcher" \notin parts =>
             next = "halting" \/ (OnStack({"halting"}) /\ at # "halting")
        /\ "reader" \notin parts => "reader" \notin up \/ ~ Busy("watcher")
        /\ "reader" \in parts => "reader" \in up \/ Last(stack).call = "start"
        /\ Last(stack).call \in Shutdown /\ "reader" \in parts /\ at \in {"halt", "halting"} =>
             next \in {"halt", "halting"} \/ overtaken'
    <3>1. OnStack({"halting"})
      BY <2>2, TopOnStack
    <3>2. ~ Busy("watcher")
      BY <1>6 DEF JoinWatcher, WatcherJoined
    <3>3. QED
      BY <3>1, <3>2, <1>2, <2>2, FollowStop
  <2>7. /\ "async" \in parts => "workers" \in parts /\ next \notin Joining /\ ~ OnStack(Joining)
        /\ "workers" \in parts /\ "async" \notin parts =>
             next \in Joining \/ (OnStack(Joining) /\ at \notin Joining)
        /\ "workers" \notin parts \/ next = "clearing" => Retired \/ Drained
        /\ "async" \in up /\ "async" \notin parts => overtaken \/ "reader" \notin up
    BY <1>2, <2>2, FollowStop DEF Shutdown, Joining
  <2>8. /\ at \in StepName /\ at # "adopt" /\ parts \in SUBSET Part
        /\ "service" \in parts <=> "service" \in up
        /\ "adaptor" \in parts <=> "adaptor" \in up
        /\ Last(stack).call \in {"reload", "stop"} => parts \subseteq up
    BY <1>1, <2>2
  <2>9. Last(stack).call = "destroy" => (Down(at, up) => Down(next, parts))
    BY <1>2, <2>2, <2>3, <2>4, FollowStop DEF Down, Shutdown, Joining
  <2> HIDE DEF called, at, next, parts, StepName, DaemonState, Part
  <2>10. QED
    BY <1>1, <2>1, <2>5, <2>6, <2>7, <2>8, <2>9, Moving
<1>7. CASE StopWorkers
  <2> DEFINE called == Shutdown
             at == "join"
             next == IF "async" \in up THEN "joining" ELSE Follow("join")
             parts == up \ {"async"}
  <2>1. Move(called, at, next, parts, state)
    BY <1>1, <1>7 DEF StopWorkers, Step, pastVars, Move
  <2>2. Last(stack).call \in Shutdown /\ stack \in Seq(Frame) /\ stack # <<>>
        /\ Last(stack).at = at
    BY <2>1, Standing DEF Move, At
  <2>3. Last(stack).call \in {"start", "destroy"} => Len(stack) = 1
    BY <2>1, Standing DEF Move
  <2>4. \A steps : Len(stack) = 1 => (OnStack(steps) <=> at \in steps)
    BY <2>2, Alone
  <2>5. next \in StepsOf(Last(stack).call) /\ next \in StepName /\ next # "adopt"
    BY <2>2, FollowStop DEF StepsOf, ShutdownSteps, Shutdown
  <2>6. /\ "watcher" \in parts =>
             "reader" \in parts /\ next # "halting" /\ ~ OnStack({"halting"})
        /\ "reader" \in parts /\ "watcher" \notin parts =>
             next = "halting" \/ (OnStack({"halting"}) /\ at # "halting")
        /\ "reader" \notin parts => "reader" \notin up \/ ~ Busy("watcher")
        /\ "reader" \in parts => "reader" \in up \/ Last(stack).call = "start"
        /\ Last(stack).call \in Shutdown /\ "reader" \in parts /\ at \in {"halt", "halting"} =>
             next \in {"halt", "halting"} \/ overtaken'
    BY <1>2, <2>2, FollowStop DEF Shutdown, Joining
  <2>7. /\ "async" \in parts => "workers" \in parts /\ next \notin Joining /\ ~ OnStack(Joining)
        /\ "workers" \in parts /\ "async" \notin parts =>
             next \in Joining \/ (OnStack(Joining) /\ at \notin Joining)
        /\ "workers" \notin parts \/ next = "clearing" => Retired \/ Drained
        /\ "async" \in up /\ "async" \notin parts => overtaken \/ "reader" \notin up
    <3>1. "reader" \in up => overtaken
      BY <2>2, TopOrder
    <3>2. QED
      BY <3>1, <1>2, <2>2, FollowStop DEF Joining
  <2>8. /\ at \in StepName /\ at # "adopt" /\ parts \in SUBSET Part
        /\ "service" \in parts <=> "service" \in up
        /\ "adaptor" \in parts <=> "adaptor" \in up
        /\ Last(stack).call \in {"reload", "stop"} => parts \subseteq up
    BY <1>1, <2>2
  <2>9. Last(stack).call = "destroy" => (Down(at, up) => Down(next, parts))
    BY <1>2, <2>2, <2>3, <2>4, FollowStop DEF Down, Shutdown, Joining
  <2> HIDE DEF called, at, next, parts, StepName, DaemonState, Part
  <2>10. QED
    BY <1>1, <2>1, <2>5, <2>6, <2>7, <2>8, <2>9, Moving
<1>8. CASE JoinWorkers
  <2> DEFINE called == Shutdown
             at == "joining"
             next == "clearing"
             parts == up
  <2>1. Move(called, at, next, parts, state)
    BY <1>1, <1>8 DEF JoinWorkers, Step, pastVars, Move
  <2>2. Last(stack).call \in Shutdown /\ stack \in Seq(Frame) /\ stack # <<>>
        /\ Last(stack).at = at
    BY <2>1, Standing DEF Move, At
  <2>3. Last(stack).call \in {"start", "destroy"} => Len(stack) = 1
    BY <2>1, Standing DEF Move
  <2>4. \A steps : Len(stack) = 1 => (OnStack(steps) <=> at \in steps)
    BY <2>2, Alone
  <2>5. next \in StepsOf(Last(stack).call) /\ next \in StepName /\ next # "adopt"
    BY <2>2, FollowStop DEF StepsOf, ShutdownSteps, Shutdown
  <2>6. /\ "watcher" \in parts =>
             "reader" \in parts /\ next # "halting" /\ ~ OnStack({"halting"})
        /\ "reader" \in parts /\ "watcher" \notin parts =>
             next = "halting" \/ (OnStack({"halting"}) /\ at # "halting")
        /\ "reader" \notin parts => "reader" \notin up \/ ~ Busy("watcher")
        /\ "reader" \in parts => "reader" \in up \/ Last(stack).call = "start"
        /\ Last(stack).call \in Shutdown /\ "reader" \in parts /\ at \in {"halt", "halting"} =>
             next \in {"halt", "halting"} \/ overtaken'
    BY <1>2, <2>2, FollowStop DEF Shutdown, Joining
  <2>7. /\ "async" \in parts => "workers" \in parts /\ next \notin Joining /\ ~ OnStack(Joining)
        /\ "workers" \in parts /\ "async" \notin parts =>
             next \in Joining \/ (OnStack(Joining) /\ at \notin Joining)
        /\ "workers" \notin parts \/ next = "clearing" => Retired \/ Drained
        /\ "async" \in up /\ "async" \notin parts => overtaken \/ "reader" \notin up
    <3>1. OnStack(Joining)
      BY <2>2, TopOnStack DEF Joining
    <3>2. Drained
      BY <1>8 DEF JoinWorkers
    <3>3. QED
      BY <3>1, <3>2, <1>2 DEF Joining
  <2>8. /\ at \in StepName /\ at # "adopt" /\ parts \in SUBSET Part
        /\ "service" \in parts <=> "service" \in up
        /\ "adaptor" \in parts <=> "adaptor" \in up
        /\ Last(stack).call \in {"reload", "stop"} => parts \subseteq up
    BY <1>1, <2>2
  <2>9. Last(stack).call = "destroy" => (Down(at, up) => Down(next, parts))
    BY <1>2, <2>2, <2>3, <2>4, FollowStop DEF Down, Shutdown, Joining
  <2> HIDE DEF called, at, next, parts, StepName, DaemonState, Part
  <2>10. QED
    BY <1>1, <2>1, <2>5, <2>6, <2>7, <2>8, <2>9, Moving
<1>9. CASE ClearWorkers
  <2> DEFINE called == Shutdown
             at == "clearing"
             next == Follow("join")
             parts == up \ {"workers"}
  <2>1. Move(called, at, next, parts, state)
    BY <1>1, <1>9 DEF ClearWorkers, Step, pastVars, Move
  <2>2. Last(stack).call \in Shutdown /\ stack \in Seq(Frame) /\ stack # <<>>
        /\ Last(stack).at = at
    BY <2>1, Standing DEF Move, At
  <2>3. Last(stack).call \in {"start", "destroy"} => Len(stack) = 1
    BY <2>1, Standing DEF Move
  <2>4. \A steps : Len(stack) = 1 => (OnStack(steps) <=> at \in steps)
    BY <2>2, Alone
  <2>5. next \in StepsOf(Last(stack).call) /\ next \in StepName /\ next # "adopt"
    BY <2>2, FollowStop DEF StepsOf, ShutdownSteps, Shutdown
  <2>6. /\ "watcher" \in parts =>
             "reader" \in parts /\ next # "halting" /\ ~ OnStack({"halting"})
        /\ "reader" \in parts /\ "watcher" \notin parts =>
             next = "halting" \/ (OnStack({"halting"}) /\ at # "halting")
        /\ "reader" \notin parts => "reader" \notin up \/ ~ Busy("watcher")
        /\ "reader" \in parts => "reader" \in up \/ Last(stack).call = "start"
        /\ Last(stack).call \in Shutdown /\ "reader" \in parts /\ at \in {"halt", "halting"} =>
             next \in {"halt", "halting"} \/ overtaken'
    BY <1>2, <2>2, FollowStop DEF Shutdown, Joining
  <2>7. /\ "async" \in parts => "workers" \in parts /\ next \notin Joining /\ ~ OnStack(Joining)
        /\ "workers" \in parts /\ "async" \notin parts =>
             next \in Joining \/ (OnStack(Joining) /\ at \notin Joining)
        /\ "workers" \notin parts \/ next = "clearing" => Retired \/ Drained
        /\ "async" \in up /\ "async" \notin parts => overtaken \/ "reader" \notin up
    <3>1. OnStack(Joining) /\ OnStack({"clearing"})
      BY <2>2, TopOnStack DEF Joining
    <3>2. QED
      BY <3>1, <1>2, <2>2, FollowStop DEF Joining, Retired
  <2>8. /\ at \in StepName /\ at # "adopt" /\ parts \in SUBSET Part
        /\ "service" \in parts <=> "service" \in up
        /\ "adaptor" \in parts <=> "adaptor" \in up
        /\ Last(stack).call \in {"reload", "stop"} => parts \subseteq up
    BY <1>1, <2>2
  <2>9. Last(stack).call = "destroy" => (Down(at, up) => Down(next, parts))
    BY <1>2, <2>2, <2>3, <2>4, FollowStop DEF Down, Shutdown, Joining
  <2> HIDE DEF called, at, next, parts, StepName, DaemonState, Part
  <2>10. QED
    BY <1>1, <2>1, <2>5, <2>6, <2>7, <2>8, <2>9, Moving
<1>10. QED
  BY <1>3, <1>4, <1>5, <1>6, <1>7, <1>8, <1>9

--------------------------------------------------------------------------------
\* Steps that leave the calls, the parts and the lines alone.
LEMMA Aside ==
  ASSUME DaemonInv, TypeOK',
         UNCHANGED <<phase, stack, up, overtaken, lines, signals>>,
         Len(calls') <= asked',
         Len(lines) + Len(calls') <= MaxLines + asked'
  PROVE  DaemonInv'
<1>1. /\ Drained' = Drained
      /\ \A thread : Busy(thread)' = Busy(thread) /\ Held(thread)' = Held(thread)
  BY LinesDecide
<1>2. \A steps : OnStack(steps)' <=> OnStack(steps)
  BY DEF OnStack
<1>3. (Retired' <=> Retired) /\ Stray' = Stray
  BY <1>2 DEF Retired, Stray
<1>4. Stacked' /\ Pooled' /\ Watched' /\ Orderly' /\ Strayed'
  BY <1>1, <1>2, <1>3
  DEF DaemonInv, Sound, Lined, Stacked, Pooled, Watched, Orderly, Strayed
<1>5. Injected' /\ Registered' /\ Descending' /\ NothingLeftAtExit'
  BY <1>1 DEF DaemonInv, Sound, Injected, Registered, Descending, NothingLeftAtExit
<1>6. QED
  BY <1>4, <1>5 DEF DaemonInv, Sound, Lined

LEMMA RequestMoves ==
  ASSUME DaemonInv, Emit \/ Refuse \/ \E r \in Request : Ask(r)
  PROVE  DaemonInv'
<1>1. TypeOK /\ Len(calls) <= asked /\ Len(lines) + Len(calls) <= MaxLines + asked
  BY DEF DaemonInv, Sound, Stacked
<1>2. /\ Len(calls) \in Nat /\ Len(lines) \in Nat
      /\ MaxLines \in Nat /\ MaxCalls[anytime] \in Nat
  BY <1>1, LenProperties, BoundsAssumption DEF TypeOK
<1>3. CASE Emit
  <2>1. LeftPosted \in Nat /\ announced + 1 \in Nat
    BY <1>1, <1>3 DEF Emit, TypeOK, LeftPosted
  <2>2. TypeOK'
    BY <2>1, <1>1, <1>3 DEF Emit, TypeOK, configVars, processVars, coreVars, pastVars, outerVars
  <2>3. QED
    BY <2>2, <1>1, <1>3, Aside DEF Emit, configVars, processVars, coreVars, pastVars, outerVars
<1>4. CASE Refuse
  <2>1. calls' \in Seq(Request) /\ Len(calls') = Len(calls) - 1
    BY <1>1, <1>4, HeadTailProperties DEF Refuse, TypeOK
  <2>2. TypeOK'
    BY <2>1, <1>1, <1>4 DEF Refuse, TypeOK, configVars, processVars, coreVars, pastVars, lineVars
  <2>3. asked \in Int /\ asked' = asked
    BY <1>1, <1>2, <1>4 DEF Refuse, TypeOK
  <2>4. QED
    BY <2>1, <2>2, <2>3, <1>1, <1>2, <1>4, Aside
    DEF Refuse, configVars, processVars, coreVars, pastVars, lineVars
<1>5. CASE \E r \in Request : Ask(r)
  <2> PICK r \in Request : Ask(r)
    BY <1>5
  <2>1. calls' \in Seq(Request) /\ Len(calls') = Len(calls) + 1
    BY <1>1, AppendProperties DEF Ask, TypeOK
  <2>2. asked \in Int /\ asked' = asked + 1 /\ asked' \in 0 .. MaxCalls[anytime]
    BY <1>1, <1>2 DEF Ask, TypeOK
  <2>3. TypeOK'
    BY <2>1, <2>2, <1>1 DEF Ask, TypeOK, configVars, processVars, coreVars, pastVars, lineVars
  <2>4. QED
    BY <2>1, <2>2, <2>3, <1>1, <1>2, Aside DEF Ask, configVars, processVars, coreVars, pastVars, lineVars
<1>6. QED
  BY <1>3, <1>4, <1>5

--------------------------------------------------------------------------------
\* The end of a call that a signal or a client began.
LEMMA Returning ==
  ASSUME DaemonInv, NEW at, At({"reload", "stop"}, at), at \notin {"halting"} \cup Joining, Return,
         state' \in DaemonState, quitNow' \in BOOLEAN, reloaded' \in BOOLEAN,
         UNCHANGED <<configVars, phase, gDaemon, up, opened, overtaken, lineVars, outerVars>>
  PROVE  DaemonInv'
<1> DEFINE n == Len(stack)
<1>1. /\ stack \in Seq(Frame) /\ stack # <<>> /\ n \in Nat \ {0} /\ Alive
      /\ stack[n].call \in {"reload", "stop"} /\ stack[n].at = at
  BY TopOfStack DEF At, DaemonInv, TypeOK
<1>2. /\ stack' \in Seq(Frame) /\ Len(stack') = n - 1
      /\ \A i \in 1 .. n - 1 : stack'[i] = stack[i]
  BY <1>1, ReturnFacts
<1>3. \A thread : Held(thread)' = Held(thread)
  BY LinesDecide DEF lineVars
<1>4. n = 1 => phase = "exec"
  BY <1>1 DEF DaemonInv, Sound, Stacked, Alive
<1>5. n # 1 => stack' # <<>> /\ stack'[1] = stack[1]
  BY <1>1, <1>2, EmptySeq
<1>6. n = 1 => stack' = <<>>
  BY <1>2, EmptySeq
<1>7. Last(stack).at = at
  BY DEF At
<1> HIDE DEF n
<1>8. TypeOK'
  <2>1. TypeOK
    BY DEF DaemonInv
  <2>2. stack' \in Seq(Frame) /\ Len(stack') <= 1 + MaxSignals
    <3>1. n <= 1 + MaxSignals
      BY <2>1 DEF TypeOK, n
    <3>2. MaxSignals \in Nat
      BY BoundsAssumption
    <3>3. QED
      BY <3>1, <3>2, <1>1, <1>2
  <2>3. QED
    BY <2>1, <2>2 DEF TypeOK, lineVars, outerVars, configVars
<1>9. Stacked'
  <2>1. /\ \A i \in 1 .. Len(stack') : stack'[i].at \in StepsOf(stack'[i].call)
        /\ \A i \in 2 .. Len(stack') : stack'[i].call \in {"reload", "stop"}
    <3>1. \A i \in 1 .. n - 1 : i \in 1 .. n /\ (i \in 2 .. n - 1 => i \in 2 .. n)
      BY <1>1
    <3>2. \A i \in 2 .. n - 1 : i \in 1 .. n - 1
      BY <1>1
    <3>3. QED
      BY <3>1, <3>2, <1>2 DEF DaemonInv, Sound, Stacked, n
  <2>2. /\ phase = "start" => stack' # <<>> /\ stack'[1].call = "start"
        /\ phase = "exec" => stack' = <<>> \/ stack'[1].call \in {"reload", "stop", "inject"}
        /\ phase = "destroy" => stack' # <<>> /\ stack'[1].call = "destroy"
    BY <1>1, <1>4, <1>5, <1>6 DEF DaemonInv, Sound, Stacked, n
  <2>3. Len(stack') <= 1 + signals
    BY <1>1, <1>2 DEF DaemonInv, Sound, Stacked, TypeOK, n
  <2>4. QED
    BY <2>1, <2>2, <2>3 DEF DaemonInv, Sound, Stacked, lineVars, outerVars
<1>10. Lined'
  <2>1. /\ OnStack(Joining)' <=> OnStack(Joining)
        /\ OnStack({"clearing"})' => OnStack({"clearing"})
        /\ OnStack({"halting"})' <=> OnStack({"halting"})
    BY <1>1, <1>7, OnStackReturns
  <2>2. /\ (Retired' => Retired)
        /\ ("async" \in up => "workers" \in up /\ ~ OnStack(Joining))'
        /\ ("workers" \in up => "async" \in up \/ OnStack(Joining))'
        /\ ("watcher" \in up => "reader" \in up /\ ~ OnStack({"halting"}))'
        /\ ("reader" \in up => "watcher" \in up \/ OnStack({"halting"}))'
    BY <2>1 DEF DaemonInv, Sound, Lined, Pooled, Watched, Retired
  <2>3. Orderly'
    <3>1. \A i \in 1 .. n - 1 : i \in 1 .. n
      BY <1>1
    <3>2. QED
      BY <3>1, <1>2 DEF DaemonInv, Sound, Lined, Orderly, n
  <2>4. QED
    BY <2>2, <2>3, Lasting DEF lineVars
<1>11. Injected'
  <2>1. stack[1].call = "inject" => n # 1
    BY <1>1
  <2>2. QED
    BY <1>3, <1>5, <2>1 DEF DaemonInv, Sound, Injected
<1>12. Registered' /\ Descending' /\ NothingLeftAtExit'
  <2>1. phase = "crashed" \/ phase = "exited" => FALSE
    BY <1>1 DEF Alive
  <2>2. QED
    BY <2>1, <1>4, <1>5 DEF DaemonInv, Sound, Registered, Descending, NothingLeftAtExit
<1>13. QED
  BY <1>8, <1>9, <1>10, <1>11, <1>12 DEF DaemonInv, Sound

LEMMA EndMoves ==
  ASSUME DaemonInv, EndReload \/ EndStop
  PROVE  DaemonInv'
<1>1. {quitNow, reloaded} \subseteq BOOLEAN
  BY DEF DaemonInv, TypeOK
<1>2. CASE EndReload
  <2>1. Settled \in DaemonState
    BY DEF Settled, DaemonState
  <2>2. PICK at \in {"loaded", "empty"} : At({"reload"}, at)
    BY <1>2 DEF EndReload
  <2>3. At({"reload", "stop"}, at) /\ at \notin {"halting"} \cup Joining
    BY <2>2 DEF At, Joining
  <2>4. QED
    BY <2>1, <2>3, <1>1, <1>2, Returning DEF EndReload
<1>3. CASE EndStop
  <2>1. At({"reload", "stop"}, "done") /\ "done" \notin {"halting"} \cup Joining
    BY <1>3 DEF EndStop, At, Joining
  <2>2. QED
    BY <2>1, <1>1, <1>3, Returning DEF EndStop, pastVars, QuitHeard, DaemonState
<1>4. QED
  BY <1>2, <1>3

--------------------------------------------------------------------------------
\* main() enters the event loop or gives up; it leaves the loop.
LEMMA Begun ==
  ASSUME NEW call \in {"start", "reload", "stop", "destroy", "inject"}, NEW at \in StepName,
         NEW by \in Signal \cup {"main", "dbus"}
  PROVE  /\ Begin(call, at, by) \in Frame
         /\ Begin(call, at, by).call = call /\ Begin(call, at, by).at = at
         /\ <<Begin(call, at, by)>> \in Seq(Frame) /\ <<Begin(call, at, by)>> # <<>>
         /\ Len(<<Begin(call, at, by)>>) = 1
         /\ <<Begin(call, at, by)>>[1] = Begin(call, at, by)
BY DEF Begin, Frame, StepName

\* main() changes its own place while no call of a signal is there.
LEMMA Turning ==
  ASSUME DaemonInv,
         stack = <<>> \/ (Len(stack) = 1 /\ stack[1].at \notin {"halting"} \cup Joining),
         phase \in {"start", "exec"}, phase' \in {"exec", "destroy"},
         Held("main") = {},
         "service" \in up => "adaptor" \in up,
         \/ phase' = "exec" /\ stack' = <<>>
         \/ phase' = "exec" /\ stack' = <<Begin("reload", "flush", "dbus")>>
         \/ phase' = "destroy" /\ stack' = <<Begin("destroy", "halt", "main")>>,
         gDaemon' \in BOOLEAN, quitNow' \in BOOLEAN, state' \in DaemonState,
         calls' \in Seq(Request), Len(calls') <= Len(calls),
         UNCHANGED <<configVars, up, opened, reloaded, overtaken, lineVars, asked, signals>>
  PROVE  DaemonInv'
<1>1. lines' = lines /\ \A thread : Held(thread)' = Held(thread)
  BY LinesDecide DEF lineVars
<1>2. /\ Begin("destroy", "halt", "main") \in Frame
      /\ Begin("destroy", "halt", "main").call = "destroy"
      /\ Begin("destroy", "halt", "main").at = "halt"
      /\ Begin("reload", "flush", "dbus") \in Frame
      /\ Begin("reload", "flush", "dbus").call = "reload"
      /\ Begin("reload", "flush", "dbus").at = "flush"
  BY Begun DEF StepName
<1>3. /\ stack' \in Seq(Frame)
      /\ Len(stack') \in 0 .. 1
      /\ \A i \in 1 .. Len(stack') : i = 1 /\ stack'[i].at \in StepsOf(stack'[i].call)
                                     /\ stack'[i].at \notin {"halting"} \cup Joining
                                     /\ (stack'[i].call \in Shutdown => stack'[i].at = "halt")
      /\ phase' = "exec" => stack' = <<>> \/ stack'[1].call = "reload"
      /\ phase' = "destroy" => stack' # <<>> /\ stack'[1].call = "destroy"
                               /\ stack'[1].at = "halt"
  <2>1. CASE stack' = <<>>
    BY <2>1
  <2>2. CASE stack' = <<Begin("reload", "flush", "dbus")>> /\ phase' = "exec"
    BY <2>2, <1>2 DEF StepsOf, Shutdown, Joining
  <2>3. CASE stack' = <<Begin("destroy", "halt", "main")>> /\ phase' = "destroy"
    BY <2>3, <1>2 DEF StepsOf, ShutdownSteps, Joining
  <2>4. QED
    BY <2>1, <2>2, <2>3
<1>4. /\ TypeOK /\ Len(calls) <= asked /\ Len(lines) + Len(calls) <= MaxLines + asked
      /\ Len(calls) \in Nat /\ Len(calls') \in Nat /\ Len(lines) \in Nat
      /\ asked \in Nat /\ signals \in Nat /\ MaxSignals \in Nat /\ MaxLines \in Nat
  BY LenProperties, BoundsAssumption DEF DaemonInv, Sound, Stacked, TypeOK
<1>5. TypeOK'
  BY <1>3, <1>4 DEF TypeOK, lineVars, configVars
<1>6. Stacked'
  BY <1>1, <1>3, <1>4 DEF Stacked
<1>7. Lined'
  <2>1. \A i \in 1 .. Len(stack) : stack[i].at \notin {"halting"} \cup Joining
    BY EmptySeq
  <2>2. /\ ~ OnStack(Joining) /\ ~ OnStack({"halting"})
        /\ ~ OnStack(Joining)' /\ ~ OnStack({"clearing"})' /\ ~ OnStack({"halting"})'
    BY <2>1, <1>3 DEF OnStack, Joining
  <2>3. /\ Retired' => Retired
        /\ ("async" \in up => "workers" \in up /\ ~ OnStack(Joining))'
        /\ ("workers" \in up => "async" \in up \/ OnStack(Joining))'
        /\ ("watcher" \in up => "reader" \in up /\ ~ OnStack({"halting"}))'
        /\ ("reader" \in up => "watcher" \in up \/ OnStack({"halting"}))'
    BY <2>2 DEF DaemonInv, Sound, Lined, Pooled, Watched, Retired
  <2>4. Orderly'
    BY <1>3 DEF Orderly
  <2>5. QED
    BY <2>3, <2>4, <1>1, Lasting
<1>8. Injected' /\ Registered' /\ NothingLeftAtExit'
  BY <1>1 DEF Injected, Registered, NothingLeftAtExit
<1>9. Descending'
  BY <1>3 DEF Descending, Down, Joining
<1>10. QED
  BY <1>5, <1>6, <1>7, <1>8, <1>9 DEF DaemonInv, Sound

LEMMA TurningMoves ==
  ASSUME DaemonInv, EnterLoop \/ LeaveLoop \/ ServeReload
  PROVE  DaemonInv'
<1>1. TypeOK
  BY DEF DaemonInv
<1>2. CASE EnterLoop
  <2>1. At({"start"}, "check")
    BY <1>2 DEF EnterLoop
  <2>2. Last(stack).call = "start"
    BY <2>1, Standing
  <2>3. /\ phase = "start" /\ Len(stack) = 1
        /\ Last(stack) = stack[Len(stack)] /\ Last(stack).at = "check"
    BY <2>1, <2>2, Standing DEF At
  <2>4. stack[1].at = "check"
    BY <2>3
  <2>5. Held("main") = {} /\ ("service" \in up => "adaptor" \in up)
    BY <2>3, <2>4 DEF DaemonInv, Sound, Injected, Registered
  <2>6. calls \in Seq(Request) /\ Len(calls) \in Nat /\ gDaemon \in BOOLEAN /\ state \in DaemonState
    BY <1>1, LenProperties DEF TypeOK
  <2>7. /\ calls' = calls /\ state' = state /\ gDaemon' = gDaemon /\ quitNow' = FALSE
        /\ UNCHANGED <<configVars, up, opened, reloaded, overtaken, lineVars, asked, signals>>
    BY <1>2 DEF EnterLoop, coreVars, pastVars, outerVars
  <2>8. \/ phase' = "exec" /\ stack' = <<>>
        \/ phase' = "destroy" /\ stack' = <<Begin("destroy", "halt", "main")>>
    BY <1>2 DEF EnterLoop
  <2>9. /\ stack[1].at \notin {"halting"} \cup Joining /\ phase' \in {"exec", "destroy"}
        /\ phase \in {"start", "exec"} /\ Len(calls') <= Len(calls)
    BY <2>3, <2>4, <2>6, <2>7, <2>8 DEF Joining
  <2>10. QED
    BY <2>3, <2>5, <2>6, <2>7, <2>8, <2>9, Turning
<1>3. ASSUME Idle PROVE Held("main") = {} /\ ("service" \in up => "adaptor" \in up)
  BY <1>3 DEF Idle, DaemonInv, Sound, Injected, Registered
<1>4. CASE LeaveLoop
  <2>1. calls \in Seq(Request) /\ Len(calls) \in Nat /\ quitNow \in BOOLEAN /\ state \in DaemonState
    BY <1>1, LenProperties DEF TypeOK
  <2>2. /\ calls' = calls /\ state' = state /\ gDaemon' = FALSE /\ quitNow' = quitNow
        /\ UNCHANGED <<configVars, up, opened, reloaded, overtaken, lineVars, asked, signals>>
    BY <1>4 DEF LeaveLoop, coreVars, pastVars, outerVars
  <2>3. /\ stack = <<>> /\ phase = "exec"
        /\ phase' = "destroy" /\ stack' = <<Begin("destroy", "halt", "main")>>
    BY <1>4 DEF LeaveLoop, Idle
  <2>4. /\ Held("main") = {} /\ ("service" \in up => "adaptor" \in up) /\ Len(calls') <= Len(calls)
        /\ stack = <<>> \/ (Len(stack) = 1 /\ stack[1].at \notin {"halting"} \cup Joining)
        /\ phase \in {"start", "exec"} /\ phase' \in {"exec", "destroy"}
    BY <2>1, <2>2, <2>3, <1>3, <1>4 DEF LeaveLoop
  <2>5. gDaemon' \in BOOLEAN /\ quitNow' \in BOOLEAN
    BY <2>1, <2>2
  <2>6. QED
    BY <2>1, <2>2, <2>3, <2>4, <2>5, Turning
<1>5. CASE ServeReload
  <2>1. calls' \in Seq(Request) /\ Len(calls') = Len(calls) - 1 /\ Len(calls) \in Nat
    BY <1>1, <1>5, HeadTailProperties, LenProperties DEF ServeReload, TypeOK
  <2>2. "RELOADING" \in DaemonState /\ quitNow \in BOOLEAN /\ gDaemon \in BOOLEAN
    BY <1>1 DEF TypeOK, DaemonState
  <2>3. /\ state' = "RELOADING" /\ gDaemon' = gDaemon /\ quitNow' = quitNow
        /\ UNCHANGED <<configVars, up, opened, reloaded, overtaken, lineVars, asked, signals>>
    BY <1>5 DEF ServeReload, pastVars
  <2>4. /\ stack = <<>> /\ phase = "exec"
        /\ phase' = "exec" /\ stack' = <<Begin("reload", "flush", "dbus")>>
    BY <1>5 DEF ServeReload, Idle
  <2>5. /\ Held("main") = {} /\ ("service" \in up => "adaptor" \in up) /\ Len(calls') <= Len(calls)
        /\ stack = <<>> \/ (Len(stack) = 1 /\ stack[1].at \notin {"halting"} \cup Joining)
        /\ phase \in {"start", "exec"} /\ phase' \in {"exec", "destroy"}
    BY <2>1, <2>4, <1>3, <1>5 DEF ServeReload
  <2>6. QED
    BY <2>1, <2>2, <2>3, <2>4, <2>5, Turning
<1>6. QED
  BY <1>2, <1>4, <1>5

\* A signal: a call on top of whatever there is.
LEMMA DeliverMove ==
  ASSUME DaemonInv, NEW sig \in Signal, Deliver(sig)
  PROVE  DaemonInv'
<1> DEFINE n == Len(stack)
           f == IF sig = "SIGHUP" THEN Begin("reload", "flush", sig)
                                  ELSE Begin("stop", "halt", sig)
<1>1. TypeOK /\ n \in Nat /\ stack \in Seq(Frame) /\ MaxSignals \in Nat /\ signals \in Nat
  BY LenProperties, BoundsAssumption DEF DaemonInv, TypeOK
<1>2. /\ f \in Frame /\ f.call \in {"reload", "stop"} /\ f.at \in StepsOf(f.call)
      /\ f.at \notin {"halting"} \cup Joining /\ (f.call \in Shutdown => f.at = "halt")
  BY Begun DEF StepName, StepsOf, ShutdownSteps, Shutdown, Joining
<1>3. /\ stack' = Append(stack, f)
      /\ state' \in DaemonState /\ signals' = signals + 1 /\ Alive /\ signals < MaxSignals
      /\ UNCHANGED <<configVars, phase, gDaemon, quitNow, up, opened, reloaded, overtaken,
                     lineVars, calls, asked>>
  BY DEF Deliver, DaemonState, pastVars
<1>4. \A thread : Held(thread)' = Held(thread)
  BY <1>3, LinesDecide DEF lineVars
<1> HIDE DEF f
<1>5. /\ stack' \in Seq(Frame) /\ stack' # <<>> /\ Len(stack') = n + 1
      /\ \A i \in 1 .. n : stack'[i] = stack[i]
      /\ stack'[n + 1] = f
  BY <1>1, <1>2, <1>3, PushFacts
<1>6. /\ stack = <<>> => stack'[1] = f /\ phase = "exec"
      /\ stack # <<>> => n # 0 /\ stack'[1] = stack[1]
  <2>1. stack = <<>> <=> n = 0
    BY <1>1, EmptySeq
  <2>2. stack = <<>> => phase = "exec"
    BY <1>3 DEF DaemonInv, Sound, Stacked, Alive
  <2>3. QED
    BY <2>1, <2>2, <1>1, <1>5
<1> HIDE DEF n
<1>7. TypeOK'
  <2>1. Len(stack') <= 1 + MaxSignals
    BY <1>1, <1>3, <1>5 DEF DaemonInv, Sound, Stacked, n
  <2>2. QED
    BY <2>1, <1>1, <1>3, <1>5 DEF TypeOK, lineVars, configVars
<1>8. Stacked'
  <2>1. \A i \in 1 .. Len(stack') : /\ stack'[i].at \in StepsOf(stack'[i].call)
                                    /\ i # 1 => stack'[i].call \in {"reload", "stop"}
    <3> SUFFICES ASSUME NEW i \in 1 .. n + 1
                 PROVE  /\ stack'[i].at \in StepsOf(stack'[i].call)
                        /\ i # 1 => stack'[i].call \in {"reload", "stop"}
      BY <1>5
    <3>1. CASE i = n + 1
      BY <3>1, <1>2, <1>5
    <3>2. CASE i # n + 1
      <4>1. i \in 1 .. n /\ (i # 1 => i \in 2 .. n)
        BY <3>2, <1>1
      <4>2. QED
        BY <4>1, <1>5 DEF DaemonInv, Sound, Stacked, n
    <3>3. QED
      BY <3>1, <3>2
  <2>2. /\ phase = "start" => stack' # <<>> /\ stack'[1].call = "start"
        /\ phase = "exec" => stack' = <<>> \/ stack'[1].call \in {"reload", "stop", "inject"}
        /\ phase = "destroy" => stack' # <<>> /\ stack'[1].call = "destroy"
    BY <1>2, <1>5, <1>6 DEF DaemonInv, Sound, Stacked
  <2>3. Len(stack') <= 1 + signals'
    BY <1>1, <1>3, <1>5 DEF DaemonInv, Sound, Stacked, n
  <2>4. QED
    BY <2>1, <2>2, <2>3, <1>3 DEF DaemonInv, Sound, Stacked, lineVars
<1>9. Lined'
  <2>1. /\ OnStack(Joining)' <=> OnStack(Joining)
        /\ OnStack({"clearing"})' <=> OnStack({"clearing"})
        /\ OnStack({"halting"})' <=> OnStack({"halting"})
    BY <1>1, <1>2, <1>3, OnStackPushes DEF Joining
  <2>2. /\ (Retired' => Retired)
        /\ ("async" \in up => "workers" \in up /\ ~ OnStack(Joining))'
        /\ ("workers" \in up => "async" \in up \/ OnStack(Joining))'
        /\ ("watcher" \in up => "reader" \in up /\ ~ OnStack({"halting"}))'
        /\ ("reader" \in up => "watcher" \in up \/ OnStack({"halting"}))'
    BY <2>1, <1>3 DEF DaemonInv, Sound, Lined, Pooled, Watched, Retired
  <2>3. Orderly'
    <3>1. \A i \in 1 .. n + 1 : i \in 1 .. n \/ stack'[i] = f
      BY <1>1, <1>5
    <3>2. QED
      BY <3>1, <1>2, <1>3, <1>5 DEF DaemonInv, Sound, Lined, Orderly, n
  <2>4. QED
    BY <2>2, <2>3, <1>3, Lasting DEF lineVars
<1>10. NothingLeftAtExit'
  BY <1>3 DEF NothingLeftAtExit, Alive
<1>11. Injected' /\ Registered' /\ Descending'
  BY <1>3, <1>4, <1>5, <1>6 DEF DaemonInv, Sound, Injected, Registered, Descending
<1>12. QED
  BY <1>7, <1>8, <1>9, <1>10, <1>11 DEF DaemonInv, Sound

--------------------------------------------------------------------------------
\* The call that works on a line is alone.
LEMMA Working ==
  ASSUME DaemonInv, At({"inject"}, "line")
  PROVE  /\ phase = "exec" /\ Len(stack) = 1 /\ stack \in Seq(Frame) /\ stack # <<>>
         /\ stack[1].at = "line"
         /\ \A steps : "line" \notin steps => ~ OnStack(steps)
         /\ Return => stack' = <<>>
<1>1. Last(stack).call = "inject" /\ Last(stack).at = "line"
  BY DEF At
<1>2. /\ phase = "exec" /\ Len(stack) = 1 /\ stack \in Seq(Frame) /\ stack # <<>>
      /\ Last(stack) = stack[Len(stack)]
  BY <1>1, Standing
<1>3. Return => stack' \in Seq(Frame) /\ Len(stack') = 0
  BY <1>2, ReturnFacts
<1>4. Return => stack' = <<>>
  BY <1>3, EmptySeq
<1>5. \A steps : "line" \notin steps => ~ OnStack(steps)
  BY <1>1, <1>2, Alone
<1>6. QED
  BY <1>1, <1>2, <1>4, <1>5

\* The worker takes a line, as long as it runs.
LEMMA TakeFacts ==
  ASSUME DaemonInv, NEW i \in 1 .. Len(lines), Take(i)
  PROVE  ~ Retired
<1>1. \A k \in 1 .. Len(stack) : stack[k].at \in StepsOf(stack[k].call) /\ stack[k] \in Frame
  BY ElementOfSeq DEF DaemonInv, TypeOK, Sound, Stacked
<1>2. \A k \in 1 .. Len(stack) : stack[k].at = "clearing" => stack[k].call \in Shutdown
  BY <1>1 DEF StepsOf, Shutdown, Frame
<1>3. QED
  BY <1>2 DEF Take, Retired, OnStack, InCall

\* A line goes on: to the queue, to the worker, to the plugins, to the output.
LEMMA LineFacts ==
  ASSUME DaemonInv, NEW i \in 1 .. Len(lines),
         Post(i) \/ Take(i) \/ Snapshot(i) \/ Output(i)
  PROVE  /\ lines' \in Seq(LineRecord) /\ Len(lines') = Len(lines)
         /\ \A j \in 1 .. Len(lines) : j # i => lines'[j] = lines[j]
         /\ \/ /\ lines[i].at = "posting" /\ lines[i].on # "worker"
               /\ lines'[i].at = "queued" /\ lines'[i].on = "worker"
            \/ /\ lines[i].at = "queued" /\ lines[i].on = "worker" /\ ~ Retired
               /\ lines'[i].at = "begun" /\ lines'[i].on = "worker"
            \/ /\ lines[i].at \in {"begun", "ready"} /\ lines'[i].at \in {"ready", "done"}
               /\ lines'[i].on = lines[i].on
         /\ Post(i) => lines[i].at = "posting"
         /\ Output(i) => lines'[i].at = "done" /\ lines[i].at = "ready"
<1>1. lines \in Seq(LineRecord) /\ lines[i] \in LineRecord /\ Len(lines) \in Nat
  BY LenProperties, ElementOfSeq DEF DaemonInv, TypeOK
<1>2. /\ lines[i].at = "queued" => lines[i].on = "worker"
      /\ lines[i].at = "posting" => lines[i].on # "worker"
  BY DEF DaemonInv, Sound, Lined, Pooled
<1>3. \A e \in LineRecord : lines' = [lines EXCEPT ![i] = e] =>
        /\ lines' \in Seq(LineRecord) /\ Len(lines') = Len(lines)
        /\ \A j \in 1 .. Len(lines) : lines'[j] = IF j = i THEN e ELSE lines[j]
  BY <1>1, ExceptSeq
<1>4. CASE Post(i)
  <2> DEFINE b == Safe
             e == [lines[i] EXCEPT !.at = "queued", !.on = "worker", !.safe = b]
  <2>1. lines' = [lines EXCEPT ![i] = e]
    BY <1>4, <1>1, Zenon DEF Post
  <2>2. b \in BOOLEAN
    BY DEF Safe
  <2> HIDE DEF b
  <2>3. e \in LineRecord /\ e.on = "worker" /\ e.at = "queued"
    BY <1>1, <2>2 DEF LineRecord
  <2>4. ~ Output(i) /\ lines[i].at = "posting"
    BY <1>4 DEF Post, Output
  <2> HIDE DEF e
  <2>5. QED
    BY <2>1, <2>3, <2>4, <1>2, <1>3
<1>5. CASE Take(i)
  <2> DEFINE e == [lines[i] EXCEPT !.at = "begun"]
  <2>1. lines' = [lines EXCEPT ![i] = e]
    BY <1>5 DEF Take
  <2>2. e \in LineRecord /\ e.on = lines[i].on /\ e.at = "begun"
    BY <1>1 DEF LineRecord
  <2>3. ~ Post(i) /\ ~ Output(i) /\ lines[i].at = "queued"
    BY <1>5 DEF Take, Post, Output
  <2>4. ~ Retired
    BY <1>5, TakeFacts
  <2> HIDE DEF e
  <2>5. QED
    BY <2>1, <2>2, <2>3, <2>4, <1>2, <1>3
<1>6. CASE Snapshot(i)
  <2> DEFINE b == "plugins" \in up
             e == [lines[i] EXCEPT !.at = "ready", !.plugins = b]
  <2>1. lines' = [lines EXCEPT ![i] = e]
    BY <1>6, <1>1, Zenon DEF Snapshot
  <2>2. b \in BOOLEAN
    OBVIOUS
  <2> HIDE DEF b
  <2>3. e \in LineRecord /\ e.on = lines[i].on /\ e.at = "ready"
    BY <1>1, <2>2 DEF LineRecord
  <2>4. ~ Post(i) /\ ~ Output(i) /\ lines[i].at = "begun"
    BY <1>6 DEF Snapshot, Post, Output
  <2> HIDE DEF e
  <2>5. QED
    BY <2>1, <2>3, <2>4, <1>3
<1>7. CASE Output(i)
  <2> DEFINE b == "callback" \in up
             c == {"callback", "store"} \subseteq up
             e == [lines[i] EXCEPT !.at = "done", !.out = b, !.kept = c]
  <2>1. lines' = [lines EXCEPT ![i] = e]
    BY <1>7, <1>1, Zenon DEF Output
  <2>2. b \in BOOLEAN /\ c \in BOOLEAN
    OBVIOUS
  <2> HIDE DEF b, c
  <2>3. e \in LineRecord /\ e.on = lines[i].on /\ e.at = "done"
    BY <1>1, <2>2 DEF LineRecord
  <2>4. ~ Post(i) /\ lines[i].at = "ready"
    BY <1>7 DEF Post, Output
  <2> HIDE DEF e
  <2>5. QED
    BY <2>1, <2>3, <2>4, <1>3
<1>8. QED
  BY <1>4, <1>5, <1>6, <1>7

LEMMA LineMoves ==
  ASSUME DaemonInv, NEW i \in 1 .. Len(lines),
         Post(i) \/ Take(i) \/ Snapshot(i) \/ Output(i)
  PROVE  DaemonInv'
<1>1. /\ lines' \in Seq(LineRecord) /\ Len(lines') = Len(lines)
      /\ \A j \in 1 .. Len(lines) : j # i => lines'[j] = lines[j]
      /\ \/ /\ lines[i].at = "posting" /\ lines[i].on # "worker"
            /\ lines'[i].at = "queued" /\ lines'[i].on = "worker"
         \/ /\ lines[i].at = "queued" /\ lines[i].on = "worker" /\ ~ Retired
            /\ lines'[i].at = "begun" /\ lines'[i].on = "worker"
         \/ /\ lines[i].at \in {"begun", "ready"} /\ lines'[i].at \in {"ready", "done"}
            /\ lines'[i].on = lines[i].on
      /\ Post(i) => lines[i].at = "posting"
      /\ Output(i) => lines'[i].at = "done" /\ lines[i].at = "ready"
  BY LineFacts
<1>2. /\ UNCHANGED <<configVars, phase, gDaemon, quitNow, coreVars, announced, outerVars>>
      /\ posted' \in Nat
      /\ stack' = stack \/ ((Post(i) \/ Output(i)) /\ lines[i].on = "main" /\ Return)
  <2>1. posted \in Nat /\ posted + 1 \in Nat
    BY DEF DaemonInv, TypeOK
  <2>2. QED
    BY <2>1 DEF Post, Take, Snapshot, Output, processVars
<1>3. /\ Alive
      /\ lines[i].at # "queued" /\ lines[i].on = "main" => At({"inject"}, "line")
      /\ lines[i].at = "posting" => "workers" \in up
  BY DEF Post, Take, Snapshot, Output, MayProcess
<1>4. /\ \A thread : thread # "worker" => Held(thread)' \subseteq Held(thread)
      /\ Retired => Held("worker")' = {}
  <2>1. \A thread : thread # "worker" => Held(thread)' \subseteq Held(thread)
    BY <1>1 DEF Held
  <2>2. Retired => Held("worker") = {}
    BY BusyHolds DEF DaemonInv, Sound, Lined, Pooled
  <2>3. Retired => Held("worker")' \subseteq Held("worker")
    BY <1>1 DEF Held
  <2>4. QED
    BY <2>1, <2>2, <2>3
<1>5. stack' = stack \/ (/\ stack' = <<>> /\ phase = "exec" /\ stack[1].at = "line"
                         /\ Held("main")' = {} /\ At({"inject"}, "line"))
  <2> SUFFICES ASSUME Post(i) \/ Output(i), lines[i].on = "main", Return
               PROVE  /\ stack' = <<>> /\ phase = "exec" /\ stack[1].at = "line"
                      /\ Held("main")' = {} /\ At({"inject"}, "line")
    BY <1>2
  <2>1. lines[i].at \in {"posting", "ready"} /\ lines'[i].at \in {"queued", "done"}
    BY <1>1
  <2>2. At({"inject"}, "line")
    BY <1>3, <2>1
  <2>3. phase = "exec" /\ stack[1].at = "line" /\ stack' = <<>>
    BY <2>2, Working
  <2>4. i \in Held("main") /\ i \notin Held("main")'
    BY <2>1 DEF Held
  <2>5. Held("main")' \subseteq Held("main") /\ \A j, k \in Held("main") : j = k
    BY <1>4 DEF DaemonInv, Sound, Injected
  <2>6. QED
    BY <2>2, <2>3, <2>4, <2>5
<1>6. /\ OnStack(Joining)' <=> OnStack(Joining)
      /\ OnStack({"clearing"})' <=> OnStack({"clearing"})
      /\ OnStack({"halting"})' <=> OnStack({"halting"})
  <2>1. CASE stack' = stack
    BY <2>1 DEF OnStack
  <2>2. CASE stack' = <<>> /\ At({"inject"}, "line")
    <3>1. ~ OnStack(Joining) /\ ~ OnStack({"clearing"}) /\ ~ OnStack({"halting"})
      BY <2>2, Working DEF Joining
    <3>2. Len(stack') = 0
      BY <2>2
    <3>3. QED
      BY <3>1, <3>2 DEF OnStack
  <2>3. QED
    BY <2>1, <2>2, <1>5
<1>7. Retired' <=> Retired
  BY <1>2, <1>6 DEF Retired, coreVars
<1>8. /\ stack' \in Seq(Frame) /\ Len(stack') <= Len(stack) /\ Len(stack) \in Nat
      /\ Len(stack') \in Nat
  <2>1. stack \in Seq(Frame) /\ Len(stack) \in Nat
    BY LenProperties DEF DaemonInv, TypeOK
  <2>2. CASE stack' = stack
    BY <2>1, <2>2
  <2>3. CASE stack' = <<>>
    BY <2>1, <2>3
  <2>4. QED
    BY <2>2, <2>3, <1>5
<1>9. TypeOK'
  <2>1. Len(stack') <= 1 + MaxSignals
    <3>1. Len(stack) <= 1 + MaxSignals
      BY DEF DaemonInv, TypeOK
    <3>2. MaxSignals \in Nat
      BY BoundsAssumption
    <3>3. QED
      BY <3>1, <3>2, <1>8
  <2>2. QED
    BY <2>1, <1>1, <1>2, <1>8 DEF DaemonInv, TypeOK, configVars, coreVars, pastVars, outerVars
<1>10. Stacked'
  <2>1. CASE stack' = stack
    BY <2>1, <1>1, <1>2 DEF DaemonInv, Sound, Stacked, outerVars
  <2>2. CASE stack' = <<>> /\ phase = "exec"
    <3>1. Len(stack') = 0 /\ signals \in Nat
      BY <2>2 DEF DaemonInv, TypeOK
    <3>2. QED
      BY <2>2, <3>1, <1>1, <1>2 DEF DaemonInv, Sound, Stacked, outerVars
  <2>3. QED
    BY <2>1, <2>2, <1>5
<1>11. Pooled'
  <2>1. (Retired => ~ Busy("worker"))'
    BY <1>4, <1>7, BusyHolds DEF Busy, Held
  <2>2. (\A j \in 1 .. Len(lines) : /\ lines[j].at = "queued" => lines[j].on = "worker"
                                    /\ lines[j].at = "posting" => lines[j].on # "worker")'
    BY <1>1 DEF DaemonInv, Sound, Lined, Pooled
  <2>3. QED
    BY <2>1, <2>2, <1>2, <1>6 DEF DaemonInv, Sound, Lined, Pooled, coreVars
<1>12. Watched'
  <2>1. Held("watcher")' \subseteq Held("watcher")
    BY <1>4
  <2>2. QED
    BY <2>1, <1>2, <1>6 DEF DaemonInv, Sound, Lined, Watched, coreVars
<1>13. Orderly'
  <2>1. stack' = stack \/ Len(stack') = 0
    BY <1>5
  <2>2. QED
    BY <2>1, <1>2 DEF DaemonInv, Sound, Lined, Orderly, coreVars, pastVars
<1>14. Strayed'
  <2>1. "async" \notin up => Stray' \subseteq Stray
    <3>1. lines[i].at = "posting" /\ lines[i].on = "main" => "async" \in up
      <4>1. At({"inject"}, "line") => ~ OnStack(Joining)
        BY Working DEF Joining
      <4>2. QED
        BY <4>1, <1>3 DEF DaemonInv, Sound, Lined, Pooled
    <3>2. lines[i] \in LineRecord
      BY ElementOfSeq DEF DaemonInv, TypeOK
    <3>3. lines[i].on \in {"worker", "watcher", "main"}
      BY <3>2 DEF LineRecord
    <3>4. QED
      BY <3>1, <3>3, <1>1, <1>7 DEF Stray
  <2>2. QED
    BY <2>1, <1>2 DEF DaemonInv, Sound, Lined, Strayed, coreVars, pastVars
<1>15. Injected'
  <2>1. Held("main")' \subseteq Held("main")
    BY <1>4
  <2>2. QED
    BY <2>1, <1>2, <1>5 DEF DaemonInv, Sound, Injected
<1>16. Registered'
  BY <1>2, <1>5 DEF DaemonInv, Sound, Registered, coreVars
<1>17. Descending' /\ NothingLeftAtExit'
  BY <1>2, <1>3, <1>5 DEF DaemonInv, Sound, Descending, NothingLeftAtExit, Alive, coreVars
<1>18. QED
  BY <1>9, <1>10, <1>11, <1>12, <1>13, <1>14, <1>15, <1>16, <1>17 DEF DaemonInv, Sound, Lined

--------------------------------------------------------------------------------
\* A line comes in.
LEMMA AcceptFacts ==
  ASSUME DaemonInv, NEW thread \in {"watcher", "main"}, Accept(thread)
  PROVE  LET n == Len(lines)
         IN  /\ lines' \in Seq(LineRecord) /\ n \in Nat /\ Len(lines') = n + 1
             /\ \A j \in 1 .. n : lines'[j] = lines[j]
             /\ lines'[n + 1].on = thread
             /\ lines'[n + 1].at = IF "async" \in up THEN "posting" ELSE "begun"
             /\ ~ lines'[n + 1].safe
<1> DEFINE e == [at |-> IF "async" \in up THEN "posting" ELSE "begun", on |-> thread,
                 safe |-> FALSE, plugins |-> FALSE, out |-> FALSE, kept |-> FALSE]
<1>1. lines' = Append(lines, e)
  BY DEF Accept
<1>2. /\ e \in LineRecord
      /\ e.on = thread
      /\ e.at = IF "async" \in up THEN "posting" ELSE "begun"
      /\ ~ e.safe
  BY DEF LineRecord
<1>3. lines \in Seq(LineRecord)
  BY DEF DaemonInv, TypeOK
<1> HIDE DEF e
<1>4. QED
  BY <1>1, <1>2, <1>3, AppendProperties, LenProperties

\* A line that comes in leaves all that holds of the earlier ones alone.
LEMMA Accepting ==
  ASSUME DaemonInv, NEW thread \in {"watcher", "main"}, Accept(thread),
         "async" \notin up => (Retired' <=> Retired)
  PROVE  /\ Busy("worker")' => Busy("worker")
         /\ \A t : t # thread => Held(t)' = Held(t)
         /\ Held(thread) = {} => \A i, j \in Held(thread)' : i = j
         /\ "async" \notin up => Stray' \subseteq Stray
         /\ \A i \in 1 .. Len(lines') :
              /\ lines'[i].at = "queued" => lines'[i].on = "worker"
              /\ lines'[i].at = "posting" => lines'[i].on # "worker"
<1> DEFINE n == Len(lines)
<1>1. /\ n \in Nat /\ Len(lines') = n + 1
      /\ \A j \in 1 .. n : lines'[j] = lines[j]
      /\ lines'[n + 1].on = thread /\ thread # "worker"
      /\ lines'[n + 1].at = IF "async" \in up THEN "posting" ELSE "begun"
  BY AcceptFacts
<1>2. \A i : i \in 1 .. n + 1 <=> (i \in 1 .. n \/ i = n + 1)
  BY <1>1
<1>3. \A i \in 1 .. n : /\ lines[i].at = "queued" => lines[i].on = "worker"
                        /\ lines[i].at = "posting" => lines[i].on # "worker"
  BY DEF DaemonInv, Sound, Lined, Pooled
<1> HIDE DEF n
<1>4. \A t : t # thread => Held(t)' = Held(t)
  BY <1>1, <1>2 DEF Held, n
<1>5. Held(thread) = {} => \A i \in Held(thread)' : i = n + 1
  BY <1>1, <1>2 DEF Held, n
<1>6. Busy("worker")' => Busy("worker")
  BY <1>1, <1>2 DEF Busy, n
<1>7. "async" \notin up => Stray' \subseteq Stray
  BY <1>1, <1>2 DEF Stray, n
<1>8. \A i \in 1 .. n + 1 : /\ lines'[i].at = "queued" => lines'[i].on = "worker"
                            /\ lines'[i].at = "posting" => lines'[i].on # "worker"
  BY <1>1, <1>2, <1>3
<1>9. QED
  BY <1>1, <1>4, <1>5, <1>6, <1>7, <1>8

\* What the threads and the stack have to do with it.
LEMMA Accepted ==
  ASSUME DaemonInv, NEW thread \in {"watcher", "main"}, Accept(thread),
         Held(thread) = {}, thread = "watcher" => "reader" \in up,
         UNCHANGED <<up, overtaken>>,
         OnStack(Joining)' <=> OnStack(Joining),
         OnStack({"clearing"})' <=> OnStack({"clearing"}),
         OnStack({"halting"})' <=> OnStack({"halting"}),
         Orderly'
  PROVE  Lined'
<1>1. Retired' <=> Retired
  BY DEF Retired
<1>2. /\ Busy("worker")' => Busy("worker")
      /\ \A t : t # thread => Held(t)' = Held(t)
      /\ \A i, j \in Held(thread)' : i = j
      /\ "async" \notin up => Stray' \subseteq Stray
      /\ \A i \in 1 .. Len(lines') :
           /\ lines'[i].at = "queued" => lines'[i].on = "worker"
           /\ lines'[i].at = "posting" => lines'[i].on # "worker"
  BY <1>1, Accepting
<1>3. Pooled'
  BY <1>1, <1>2 DEF DaemonInv, Sound, Lined, Pooled
<1>4. Watched'
  <2>1. ("reader" \notin up => Held("watcher") = {})' /\ (\A i, j \in Held("watcher") : i = j)'
    BY <1>2 DEF DaemonInv, Sound, Lined, Watched
  <2>2. QED
    BY <2>1 DEF DaemonInv, Sound, Lined, Watched
<1>5. Strayed'
  BY <1>2 DEF DaemonInv, Sound, Lined, Strayed
<1>6. QED
  BY <1>3, <1>4, <1>5 DEF Lined

LEMMA AcceptMoves ==
  ASSUME DaemonInv, Read \/ ServeInject
  PROVE  DaemonInv'
<1>1. /\ TypeOK /\ Len(calls) <= asked /\ Len(lines) + Len(calls) <= MaxLines + asked
      /\ Len(calls) \in Nat /\ Len(lines) \in Nat /\ asked \in 0 .. MaxCalls[anytime]
      /\ MaxLines \in Nat /\ MaxCalls[anytime] \in Nat
  BY LenProperties, BoundsAssumption DEF DaemonInv, Sound, Stacked, TypeOK
<1>2. CASE Read
  <2>1. /\ Accept("watcher") /\ "reader" \in up /\ Alive /\ Len(lines) < MaxLines
        /\ Held("watcher") = {}
        /\ UNCHANGED <<configVars, processVars, coreVars, posted, announced, outerVars>>
    BY <1>2, BusyHolds DEF Read
  <2>2. lines' \in Seq(LineRecord) /\ Len(lines') = Len(lines) + 1
    BY <2>1, AcceptFacts
  <2>3. TypeOK'
    BY <2>1, <2>2, <1>1 DEF TypeOK, configVars, processVars, coreVars, pastVars, outerVars
  <2>4. Stacked'
    BY <2>1, <2>2, <1>1 DEF DaemonInv, Sound, Stacked, processVars, outerVars
  <2>5. Lined'
    <3>1. /\ OnStack(Joining)' <=> OnStack(Joining)
          /\ OnStack({"clearing"})' <=> OnStack({"clearing"})
          /\ OnStack({"halting"})' <=> OnStack({"halting"})
      BY <2>1 DEF OnStack, processVars
    <3>2. Orderly'
      BY <2>1 DEF DaemonInv, Sound, Lined, Orderly, processVars, coreVars, pastVars
    <3>3. UNCHANGED <<up, overtaken>>
      BY <2>1 DEF coreVars, pastVars
    <3>4. QED
      BY <2>1, <3>1, <3>2, <3>3, Accepted
  <2>6. Injected'
    <3>1. Retired' <=> Retired
      BY <2>1 DEF Retired, OnStack, processVars, coreVars
    <3>2. Held("main")' = Held("main")
      BY <2>1, <3>1, Accepting
    <3>3. QED
      BY <2>1, <3>2 DEF DaemonInv, Sound, Injected, processVars
  <2>7. Registered' /\ Descending' /\ NothingLeftAtExit'
    BY <2>1 DEF DaemonInv, Sound, Registered, Descending, NothingLeftAtExit, Alive,
                processVars, coreVars
  <2>8. QED
    BY <2>3, <2>4, <2>5, <2>6, <2>7 DEF DaemonInv, Sound
<1>3. CASE ServeInject
  <2> DEFINE f == Begin("inject", "line", "dbus")
  <2>1. /\ Accept("main") /\ stack = <<>> /\ phase = "exec" /\ calls # <<>>
        /\ calls' = Tail(calls)
        /\ stack' = <<f>>
        /\ UNCHANGED <<configVars, phase, gDaemon, quitNow, coreVars, posted, announced, asked, signals>>
    BY <1>3 DEF ServeInject, Idle
  <2>2. lines' \in Seq(LineRecord) /\ Len(lines') = Len(lines) + 1
    BY <2>1, AcceptFacts
  <2>3. calls' \in Seq(Request) /\ Len(calls') = Len(calls) - 1
    BY <2>1, <1>1, HeadTailProperties DEF TypeOK
  <2>4. Held("main") = {} /\ \A part \in {"service"} : part \in up => "adaptor" \in up
    BY <2>1 DEF DaemonInv, Sound, Injected, Registered
  <2>5. /\ <<f>> \in Seq(Frame) /\ Len(<<f>>) = 1 /\ <<f>> # <<>>
        /\ <<f>>[1].call = "inject" /\ <<f>>[1].at = "line"
    BY Begun DEF StepName
  <2> HIDE DEF f
  <2>6. /\ stack' \in Seq(Frame) /\ Len(stack') = 1 /\ stack' # <<>>
        /\ \A i \in 1 .. Len(stack') :
             i = 1 /\ stack'[i].call = "inject" /\ stack'[i].at = "line"
        /\ stack'[1].call = "inject"
    BY <2>1, <2>5
  <2>7. /\ OnStack(Joining)' <=> OnStack(Joining)
        /\ OnStack({"clearing"})' <=> OnStack({"clearing"})
        /\ OnStack({"halting"})' <=> OnStack({"halting"})
    <3>1. Len(stack) = 0
      BY <2>1
    <3>2. QED
      BY <3>1, <2>6 DEF OnStack, Joining
  <2>8. TypeOK'
    <3>1. Len(stack') <= 1 + MaxSignals
      BY <2>6, BoundsAssumption
    <3>2. QED
      BY <3>1, <2>1, <2>2, <2>3, <2>6, <1>1 DEF TypeOK, configVars, coreVars, pastVars
  <2>9. Stacked'
    <3>1. signals \in Nat
      BY <1>1 DEF TypeOK
    <3>2. \A i \in 1 .. Len(stack') : stack'[i].at \in StepsOf(stack'[i].call)
      BY <2>6 DEF StepsOf
    <3>3. QED
      BY <3>1, <3>2, <2>1, <2>2, <2>3, <2>6, <1>1 DEF Stacked
  <2>10. Lined'
    <3>1. Orderly'
      BY <2>6 DEF Orderly, Shutdown
    <3>2. UNCHANGED <<up, overtaken>>
      BY <2>1 DEF coreVars, pastVars
    <3>3. QED
      BY <2>1, <2>4, <2>7, <3>1, <3>2, Accepted
  <2>11. Injected'
    <3>1. Retired' <=> Retired
      BY <2>1, <2>7 DEF Retired, coreVars
    <3>2. \A i, j \in Held("main")' : i = j
      BY <2>1, <2>4, <3>1, Accepting
    <3>3. QED
      BY <3>2, <2>1, <2>6 DEF Injected
  <2>12. Registered' /\ Descending' /\ NothingLeftAtExit'
    BY <2>1, <2>4 DEF Registered, Descending, NothingLeftAtExit, coreVars
  <2>13. QED
    BY <2>8, <2>9, <2>10, <2>11, <2>12 DEF DaemonInv, Sound
<1>4. QED
  BY <1>2, <1>3

--------------------------------------------------------------------------------
\* A flush or a line that has lost its workers.
LEMMA CrashMove ==
  ASSUME DaemonInv, FlushDestroyed \/ \E i \in 1 .. Len(lines) : PostDestroyed(i)
  PROVE  DaemonInv'
<1>1. /\ phase' = "crashed"
      /\ UNCHANGED <<configVars, gDaemon, stack, quitNow, coreVars, lineVars, outerVars>>
  BY DEF FlushDestroyed, PostDestroyed
<1>2. /\ \A thread : Held(thread)' = Held(thread) /\ (Busy(thread)' <=> Busy(thread))
      /\ UNCHANGED <<stack, up, overtaken, lines, calls, asked, signals>>
  BY <1>1, LinesDecide DEF lineVars, coreVars, pastVars, outerVars
<1>3. TypeOK'
  BY <1>1 DEF DaemonInv, TypeOK, configVars, coreVars, pastVars, lineVars, outerVars
<1>4. Stacked'
  BY <1>1, <1>2 DEF DaemonInv, Sound, Stacked
<1>5. Lined'
  <2>1. \A steps : OnStack(steps)' <=> OnStack(steps)
    BY <1>2 DEF OnStack
  <2>2. (Retired' <=> Retired) /\ Stray' = Stray
    BY <1>2, <2>1 DEF Retired, Stray
  <2>3. Pooled' /\ Watched' /\ Orderly' /\ Strayed'
    BY <1>2, <2>1, <2>2 DEF DaemonInv, Sound, Lined, Pooled, Watched, Orderly, Strayed
  <2>4. QED
    BY <2>3 DEF Lined
<1>6. Injected' /\ Registered' /\ Descending' /\ NothingLeftAtExit'
  BY <1>1, <1>2 DEF DaemonInv, Sound, Injected, Registered, Descending, NothingLeftAtExit
<1>7. QED
  BY <1>3, <1>4, <1>5, <1>6 DEF DaemonInv, Sound

\* The destructor is done.
LEMMA ExitMove ==
  ASSUME DaemonInv, Exit
  PROVE  DaemonInv'
<1>1. At({"destroy"}, "done")
  BY DEF Exit
<1>2. /\ phase = "destroy" /\ Len(stack) = 1 /\ stack \in Seq(Frame)
      /\ Last(stack) = stack[Len(stack)] /\ Last(stack).at = "done"
  BY <1>1, Standing DEF At
<1>3. Down("done", up)
  BY <1>2 DEF DaemonInv, Sound, Descending
<1>4. up' \subseteq {"callback"}
  BY <1>3 DEF Exit, Down, DaemonInv, TypeOK, Part
<1>5. /\ phase' = "exited" /\ stack' = <<>> /\ up' \subseteq up
      /\ UNCHANGED <<configVars, gDaemon, quitNow, state, opened, pastVars, lineVars, outerVars>>
  BY DEF Exit
<1>6. \A thread : Held(thread)' = Held(thread) /\ (Busy(thread)' <=> Busy(thread))
  BY <1>5, LinesDecide DEF lineVars
<1>7. /\ "async" \notin up /\ Retired
      /\ Held("worker") = {} /\ Held("watcher") = {} /\ Held("main") = {}
  BY <1>2, <1>3, BusyHolds
  DEF DaemonInv, Sound, Lined, Down, Retired, Pooled, Watched, Injected
<1>8. \A i \in 1 .. Len(lines) : lines[i].at = "done" \/ (lines[i].at = "queued" /\ i \in Stray)
  <2> SUFFICES ASSUME NEW i \in 1 .. Len(lines)
               PROVE  lines[i].at = "done" \/ (lines[i].at = "queued" /\ i \in Stray)
    OBVIOUS
  <2>1. lines[i] \in LineRecord
    BY ElementOfSeq DEF DaemonInv, TypeOK
  <2>2. /\ lines[i].at \in {"posting", "queued", "begun", "ready", "done"}
        /\ lines[i].on \in {"worker", "watcher", "main"}
    BY <2>1 DEF LineRecord
  <2>3. lines[i].at \notin {"posting", "begun", "ready"}
    BY <1>7, <2>2 DEF Held
  <2>4. lines[i].at = "queued" => i \in Stray
    BY <1>7 DEF Stray
  <2>5. QED
    BY <2>2, <2>3, <2>4
<1>9. \A i, j \in Stray : i = j /\ overtaken
  BY <1>7 DEF DaemonInv, Sound, Lined, Strayed
<1>10. TypeOK'
  <2>1. stack' \in Seq(Frame) /\ Len(stack') <= 1 + MaxSignals
    BY <1>5, BoundsAssumption
  <2>2. QED
    BY <2>1, <1>5 DEF DaemonInv, TypeOK, configVars, pastVars, lineVars, outerVars
<1>11. Stacked'
  <2>1. Len(stack') = 0 /\ signals \in Nat
    BY <1>5 DEF DaemonInv, TypeOK
  <2>2. QED
    BY <2>1, <1>5 DEF DaemonInv, Sound, Stacked, lineVars, outerVars
<1>12. Lined'
  <2>1. Len(stack') = 0
    BY <1>5
  <2>2. \A steps : ~ OnStack(steps)'
    BY <2>1 DEF OnStack
  <2>3. Retired' /\ Stray' \subseteq Stray
    BY <1>4, <1>5, <1>7 DEF Retired, Stray, lineVars
  <2>4. Pooled'
    BY <1>4, <1>5, <1>6, <1>7, BusyHolds DEF DaemonInv, Sound, Lined, Pooled, lineVars
  <2>5. Watched' /\ Orderly'
    BY <1>4, <1>6, <1>7 DEF Watched, Orderly
  <2>6. Strayed'
    BY <2>3, <1>5, <1>9 DEF Strayed, pastVars
  <2>7. QED
    BY <2>4, <2>5, <2>6 DEF Lined
<1>13. Injected' /\ Registered' /\ Descending'
  BY <1>4, <1>5, <1>6, <1>7 DEF Injected, Registered, Descending
<1>14. NothingLeftAtExit'
  BY <1>4, <1>5, <1>8, <1>9 DEF NothingLeftAtExit, lineVars, pastVars
<1>15. QED
  BY <1>10, <1>11, <1>12, <1>13, <1>14 DEF DaemonInv, Sound

--------------------------------------------------------------------------------
LEMMA InitInv == Init => DaemonInv
<1> SUFFICES ASSUME Init PROVE DaemonInv
  OBVIOUS
<1>1. /\ <<Begin("start", "load", "main")>> \in Seq(Frame)
      /\ Begin("start", "load", "main").call = "start"
      /\ Begin("start", "load", "main").at = "load"
  BY Begun DEF StepName
<1>2. /\ stack \in Seq(Frame) /\ Len(stack) = 1 /\ stack # <<>>
      /\ stack[1].call = "start" /\ stack[1].at = "load"
      /\ \A i \in 1 .. Len(stack) : i = 1
  BY <1>1 DEF Init
<1>3. Len(lines) = 0 /\ Len(calls) = 0 /\ Stray = {}
      /\ \A thread : ~ Busy(thread) /\ Held(thread) = {}
  BY DEF Init, Stray, Held, Busy
<1>4. TypeOK
  <2>1. anytime \in BOOLEAN /\ MaxCalls[anytime] \in Nat /\ MaxLines \in Nat /\ MaxSignals \in Nat
    BY ModesAssumption, BoundsAssumption DEF Init
  <2>2. lines \in Seq(LineRecord) /\ calls \in Seq(Request)
    BY DEF Init
  <2>3. /\ {anytime, async, gDaemon, quitNow, opened, reloaded, overtaken} \subseteq BOOLEAN
        /\ phase = "start" /\ state = "INIT" /\ up = {} /\ posted = 0 /\ announced = 0
        /\ asked = 0 /\ signals = 0
    BY <2>1 DEF Init
  <2>4. Len(stack) <= 1 + MaxSignals /\ Len(lines) <= MaxLines + MaxCalls[anytime]
    BY <2>1, <1>2, <1>3
  <2>5. QED
    BY <2>1, <2>2, <2>3, <2>4, <1>2 DEF TypeOK, DaemonState
<1>5. Stacked
  <2>1. stack[1].at \in StepsOf(stack[1].call)
    BY <1>2 DEF StepsOf
  <2>2. MaxLines \in Nat
    BY BoundsAssumption
  <2>3. QED
    BY <2>1, <2>2, <1>2, <1>3 DEF Init, Stacked
<1>6. ~ OnStack(Joining) /\ ~ OnStack({"halting"})
  BY <1>2 DEF OnStack, Joining
<1>7. Pooled /\ Watched /\ Orderly /\ Strayed
  BY <1>3, <1>6 DEF Init, Pooled, Watched, Orderly, Strayed
<1>8. Injected /\ Registered /\ Descending /\ NothingLeftAtExit
  BY <1>3 DEF Init, Injected, Registered, Descending, NothingLeftAtExit
<1>9. QED
  BY <1>4, <1>5, <1>7, <1>8 DEF DaemonInv, Sound, Lined

LEMMA NextInv == DaemonInv /\ [Next]_vars => DaemonInv'
<1> SUFFICES ASSUME DaemonInv, [Next]_vars PROVE DaemonInv'
  OBVIOUS
<1>1. CASE Start
  BY <1>1, StartMoves, ThreadMoves, TurningMoves DEF Start
<1>2. CASE Flush
  BY <1>2, FlushMoves, CrashMove, EndMoves DEF Flush
<1>3. CASE DoStop
  BY <1>3, FlushMoves, ThreadMoves, EndMoves, ExitMove DEF DoStop
<1>4. CASE Serve
  BY <1>4, RequestMoves, TurningMoves, AcceptMoves DEF Serve
<1>5. CASE \E thread \in {"main", "worker", "watcher"} : Process(thread)
  BY <1>5, LineMoves, CrashMove DEF Process
<1>6. CASE Read
  BY <1>6, AcceptMoves
<1>7. CASE \E r \in Request : Ask(r)
  BY <1>7, RequestMoves
<1>8. CASE \E sig \in Signal : Deliver(sig)
  BY <1>8, DeliverMove
<1>9. CASE UNCHANGED vars
  <2>1. TypeOK'
    BY <1>9 DEF DaemonInv, TypeOK, vars, configVars, processVars, coreVars, pastVars,
                lineVars, outerVars
  <2>2. /\ UNCHANGED <<phase, stack, up, overtaken, lines, signals>>
        /\ calls' = calls /\ asked' = asked
    BY <1>9 DEF vars, processVars, coreVars, pastVars, lineVars, outerVars
  <2>3. QED
    BY <2>1, <2>2, Aside DEF DaemonInv, Sound, Stacked
<1>10. QED
  BY <1>1, <1>2, <1>3, <1>4, <1>5, <1>6, <1>7, <1>8, <1>9 DEF Next, Main

\* Whatever interrupts what, the stack of calls, the lines and the requests are what they
\* are meant to be: no call is at a step of another one (daemon_core.cpp, main.cpp).
THEOREM TypeCorrect == Spec => []TypeOK
BY InitInv, NextInv, PTL DEF Spec, DaemonInv

\* A process that ends has taken every part down, however many signals and requests came
\* and whatever they interrupted: the destructor stops the watcher, joins the workers and
\* closes the rest (do_stop), also after a start or a reload that a stop interrupted. It
\* has put every accepted line out but for one at most, which a worker that was gone should
\* have had; and that takes a stop that went past another one in its wait for the watcher,
\* since only the first joins its thread (FileWatcher::stop).
THEOREM NothingIsLeftAtExit == Spec => []NothingLeftAtExit
BY InitInv, NextInv, PTL DEF Spec, DaemonInv


--------------------------------------------------------------------------------
(***************************************************************************)
(* What the daemon does for the lines it takes in and for those who ask    *)
(* for its state. That the output callback is there first (CallbackFirst)  *)
(* holds whatever a signal interrupts. The rest needs signals to come      *)
(* while main waits (Quiet): then the stack has one call at most, and that *)
(* call and its step say which parts start() has brought up (Rising), what *)
(* stop() has taken down (Falling), what is up in between (Serving), and   *)
(* that the store and the plugins stay as long as a line is on its way to  *)
(* them (StoreStays, PluginsStay).                                         *)
(***************************************************************************)

\* The lowest call of the main thread and its step.
Call == IF stack = <<>> THEN "none" ELSE stack[1].call
Spot == IF stack = <<>> THEN "none" ELSE stack[1].at

\* A line has come in and is not done.
Unfinished == \E i \in 1 .. Len(lines) : lines[i].at # "done"

\* Nothing lets a line in before the output callback is set, and it stays set.
CallbackFirst ==
  /\ lines # <<>> => "callback" \in up
  /\ "reader" \in up \/ "object" \in up => "callback" \in up
  /\ Call = "start" /\ Spot \in {"export", "open", "watch", "run"} => "callback" \in up
  /\ \A i \in 1 .. Len(lines) : lines[i].at = "done" => lines[i].out

\* Everything start() brings up.
Full == /\ {"service", "callback", "adaptor", "object", "watcher", "reader", "timer"} \subseteq up
        /\ async <=> "workers" \in up
        /\ async <=> "async" \in up

\* start() brings the parts up in its order: no line before the watcher, the watcher last.
Rising ==
  Call = "start" =>
    /\ ~ reloaded
    /\ Spot \in {"load", "workers"} => up \subseteq {"plugins"}
    /\ Spot \notin {"load", "workers"} => (async <=> "workers" \in up) /\ (async <=> "async" \in up)
    /\ Spot = "register" => up \subseteq {"plugins", "workers", "async"}
    /\ Spot = "adopt" => up \subseteq {"plugins", "workers", "async", "service"}
    /\ Spot \in {"adopt", "export", "open", "watch", "run"} => "service" \in up
    /\ Spot \in {"export", "open", "watch", "run"} => {"callback", "adaptor"} \subseteq up
    /\ Spot = "export" => "object" \notin up
    /\ Spot \in {"open", "watch", "run"} => "object" \in up
    /\ Spot \in {"load", "workers", "register", "adopt", "export", "open"} => ~ opened
    /\ Spot = "run" => {"watcher", "reader"} \subseteq up
    /\ Spot \notin {"run", "check"} => lines = <<>> /\ "watcher" \notin up /\ "reader" \notin up
    /\ Spot = "check" =>
         \/ state = "RUNNING" /\ Full
         \/ /\ state = "FAILED" /\ lines = <<>>
            /\ "watcher" \notin up /\ "reader" \notin up /\ "object" \notin up

\* stop() and the destructor take them down in theirs.
Falling ==
  Call \in Shutdown =>
    /\ Spot # "halt" => "watcher" \notin up
    /\ Spot \notin {"halt", "halting"} => "reader" \notin up
    /\ Spot \in {"joining", "clearing", "detach", "unload", "close", "done"} => "async" \notin up
    /\ Spot \in {"detach", "unload", "close", "done"} => "workers" \notin up
    /\ Spot \in {"unload", "close", "done"} => "object" \notin up

\* What main() serves while it is in the event loop.
Serving ==
  /\ phase = "start" => ~ quitNow
  /\ phase = "exec" /\ ~ quitNow /\ Call \in {"none", "reload", "inject"} => Full
  /\ phase = "exec" /\ quitNow => /\ Call = "none" /\ ~ Unfinished
                                  /\ "object" \notin up /\ "watcher" \notin up
                                  /\ "reader" \notin up
  /\ phase = "exec" /\ ~ quitNow /\ Call \in {"none", "inject"} =>
       /\ state \in {"RUNNING", "FAILED"}
       /\ state = "FAILED" => "plugins" \notin up
       /\ reloaded /\ "plugins" \notin up => state = "FAILED"
  /\ phase = "destroy" => "object" \notin up
  /\ Call = "reload" =>
       /\ Spot = "loaded" => "plugins" \in up
       /\ Spot \in {"load", "empty"} => "plugins" \notin up

\* The store is open as long as a line may still come in or is on its way.
StoreStays ==
  /\ "object" \in up => "adaptor" \in up
  /\ opened /\ ("reader" \in up \/ "object" \in up \/ Unfinished) => "store" \in up
  /\ opened => \A i \in 1 .. Len(lines) : lines[i].at = "done" => lines[i].kept

\* A reload has flushed and puts the new plugins in the place of the old; a line accepted
\* before it had begun has met the old ones.
Swapping == Call = "reload" /\ Spot \in {"unload", "load", "loaded", "empty"}
PluginsStay ==
  async =>
    /\ "reader" \in up => "async" \in up
    /\ \A i \in 1 .. Len(lines) :
         /\ lines[i].at # "posting" => lines[i].on = "worker"
         /\ lines[i].at = "posting" => ~ lines[i].safe
         /\ lines[i].safe =>
              IF lines[i].at \in {"queued", "begun"} THEN "plugins" \in up /\ ~ Swapping
              ELSE lines[i].plugins

\* No signal interrupts a step of the main thread, so no stop goes past another one.
Quiet ==
  /\ Len(stack) <= 1 /\ ~ overtaken
  /\ Rising /\ Falling /\ Serving /\ StoreStays /\ PluginsStay
ServiceInv == CallbackFirst /\ (~ anytime => Quiet)

--------------------------------------------------------------------------------
\* What a step of the main thread finds, and where it goes, while no signal interrupts.
LEMMA Here ==
  ASSUME DaemonInv, Len(stack) <= 1, NEW called, NEW at, At(called, at)
  PROVE  /\ Len(stack) = 1 /\ stack \in Seq(Frame) /\ stack # <<>>
         /\ Call \in called /\ Spot = at /\ Call = Last(stack).call
         /\ at \in StepsOf(Call) /\ Alive
         /\ Call = "start" <=> phase = "start"
         /\ Call = "destroy" <=> phase = "destroy"
         /\ Call \in {"reload", "stop", "inject"} <=> phase = "exec"
<1>1. /\ stack \in Seq(Frame) /\ stack # <<>> /\ Len(stack) \in Nat \ {0}
      /\ Last(stack) = stack[Len(stack)] /\ at \in StepsOf(Last(stack).call)
      /\ Last(stack).call \in called
  BY Standing
<1>2. Len(stack) = 1
  <2> DEFINE n == Len(stack)
  <2>1. n \in Nat \ {0} /\ n <= 1
    BY <1>1
  <2> HIDE DEF n
  <2>2. n = 1
    BY <2>1
  <2>3. QED
    BY <2>2 DEF n
<1>3. stack[1].at = at /\ Alive
  BY <1>1, <1>2 DEF At
<1>4. Call = stack[1].call /\ Spot = at
  BY <1>1, <1>3 DEF Call, Spot
<1>5. /\ phase = "start" => Call = "start"
      /\ phase = "exec" => Call \in {"reload", "stop", "inject"}
      /\ phase = "destroy" => Call = "destroy"
  BY <1>1, <1>4 DEF DaemonInv, Sound, Stacked
<1>6. QED
  BY <1>1, <1>2, <1>3, <1>4, <1>5 DEF Alive

LEMMA Onward ==
  ASSUME DaemonInv, Len(stack) <= 1, NEW called, NEW at, At(called, at),
         NEW next \in StepName, GoTo(next)
  PROVE  Len(stack') = 1 /\ Call' = Call /\ Spot' = next
<1>1. Len(stack) = 1 /\ stack \in Seq(Frame) /\ stack # <<>>
  BY Here
<1>2. /\ stack' # <<>> /\ Len(stack') = 1 /\ stack'[1].at = next
      /\ stack'[1].call = stack[1].call
  BY <1>1, GoToFacts
<1>3. QED
  BY <1>1, <1>2 DEF Call, Spot

\* With the workers and the watcher joined and no request in hand, no line is left.
LEMMA NothingInFlight ==
  ASSUME DaemonInv, ~ overtaken,
         "workers" \notin up, "reader" \notin up, Call # "inject"
  PROVE  ~ Unfinished
<1>1. Held("worker") = {}
  BY BusyHolds DEF DaemonInv, Sound, Lined, Pooled, Retired
<1>2. Held("watcher") = {}
  BY DEF DaemonInv, Sound, Lined, Watched
<1>3. Held("main") = {}
  BY DEF DaemonInv, Sound, Injected, Call
<1>4. Stray = {}
  <2>1. "async" \notin up
    BY DEF DaemonInv, Sound, Lined, Pooled
  <2>2. QED
    BY <2>1 DEF DaemonInv, Sound, Lined, Strayed
<1> SUFFICES ASSUME NEW i \in 1 .. Len(lines) PROVE lines[i].at = "done"
  BY DEF Unfinished
<1>5. lines[i] \in LineRecord
  BY ElementOfSeq DEF DaemonInv, TypeOK
<1>6. /\ lines[i].at \in {"posting", "queued", "begun", "ready", "done"}
      /\ lines[i].on \in {"worker", "watcher", "main"}
  BY <1>5 DEF LineRecord
<1>7. lines[i].at # "queued"
  BY <1>4 DEF Stray, Retired
<1>8. lines[i].at \notin {"posting", "begun", "ready"}
  BY <1>1, <1>2, <1>3, <1>6 DEF Held
<1>9. QED
  BY <1>6, <1>7, <1>8
--------------------------------------------------------------------------------
\* A step of the main thread that moves on, takes the callback from nobody and lets
\* nobody in before it is set.
LEMMA CallbackMove ==
  ASSUME DaemonInv, CallbackFirst,
         NEW called, NEW at, NEW next \in StepName, NEW parts \in SUBSET Part, NEW st,
         Move(called, at, next, parts, st),
         "callback" \in up => "callback" \in parts,
         "reader" \in parts \/ "object" \in parts =>
           "reader" \in up \/ "object" \in up \/ "callback" \in up,
         Last(stack).call = "start" /\ next \in {"export", "open", "watch", "run"} =>
           "callback" \in parts
  PROVE  CallbackFirst'
<1> DEFINE n == Len(stack)
<1>1. /\ stack \in Seq(Frame) /\ stack # <<>> /\ n \in Nat \ {0} /\ Last(stack) = stack[n]
      /\ Last(stack).call = "start" => n = 1
  BY Standing DEF Move
<1>2. /\ stack' # <<>> /\ Len(stack') = n /\ stack'[n].at = next
      /\ \A i \in 1 .. n : /\ stack'[i].call = stack[i].call
                           /\ i # n => stack'[i] = stack[i]
  BY <1>1, GoToFacts DEF Move
<1>3. up' = parts /\ lines' = lines
  BY DEF Move, lineVars
<1> HIDE DEF n
<1>4. /\ Call' = Call /\ Call = stack[1].call
      /\ n = 1 => Spot' = next /\ Call = Last(stack).call
      /\ n # 1 => Spot' = Spot
  BY <1>1, <1>2 DEF Call, Spot
<1>5. Call' = "start" /\ Spot' \in {"export", "open", "watch", "run"} => "callback" \in parts
  BY <1>1, <1>4 DEF CallbackFirst
<1>6. QED
  BY <1>3, <1>5 DEF CallbackFirst

LEMMA CallbackMoves ==
  ASSUME DaemonInv, CallbackFirst,
         \/ \E ok \in BOOLEAN :
              LoadPlugins(ok) \/ RegisterService(ok) \/ RegisterObject(ok) \/ OpenStore(ok)
         \/ StartWorkers \/ Adopt \/ StartWatcher \/ Run
         \/ EnterFlush \/ LeaveFlush \/ Unload
         \/ Halt \/ JoinWatcher \/ StopWorkers \/ JoinWorkers \/ ClearWorkers
         \/ Detach \/ CloseStore
  PROVE  CallbackFirst'
<1>1. up \subseteq Part /\ opened \in BOOLEAN /\ overtaken \in BOOLEAN
  BY DEF DaemonInv, TypeOK
<1>2. ASSUME NEW ok \in BOOLEAN, LoadPlugins(ok)
      PROVE  CallbackFirst'
  <2> DEFINE next == IF Last(stack).call = "start" THEN Follow("load")
                     ELSE IF ok THEN "loaded" ELSE "empty"
             parts == IF ok THEN up \cup {"plugins"} ELSE up
  <2>1. Move({"start", "reload"}, "load", next, parts, "LOADING")
    BY <1>1, <1>2 DEF LoadPlugins, Step, pastVars, Move
  <2>2. next \in {"workers", "loaded", "empty"}
    BY FollowStart
  <2>3. next \in StepName /\ next \notin {"export", "open", "watch", "run"}
    BY <2>2 DEF StepName
  <2>4. parts \in SUBSET Part /\ \A p \in Part \ {"plugins"} : p \in parts <=> p \in up
    BY <1>1 DEF Part
  <2> HIDE DEF next, parts
  <2>5. QED
    BY <2>1, <2>3, <2>4, CallbackMove DEF Part
<1>3. ASSUME NEW ok \in BOOLEAN, RegisterService(ok)
      PROVE  CallbackFirst'
  <2> DEFINE next == IF ok THEN Follow("register") ELSE "check"
             parts == IF ok THEN up \cup {"service"} ELSE up
             st == IF ok THEN "STARTING" ELSE "FAILED"
  <2>1. Move({"start"}, "register", next, parts, st)
    BY <1>1, <1>3 DEF RegisterService, Step, pastVars, Move
  <2>2. Last(stack).call = "start"
    BY <2>1, Standing DEF Move
  <2>3. next \in StepName /\ next \notin {"export", "open", "watch", "run"}
    BY <2>2, FollowStart DEF StepName
  <2>4. parts \in SUBSET Part /\ \A p \in Part \ {"service"} : p \in parts <=> p \in up
    BY <1>1 DEF Part
  <2> HIDE DEF next, parts, st
  <2>5. QED
    BY <2>1, <2>3, <2>4, CallbackMove DEF Part
<1>4. ASSUME NEW ok \in BOOLEAN, RegisterObject(ok)
      PROVE  CallbackFirst'
  <2> DEFINE next == IF ok THEN Follow("export") ELSE "check"
             parts == IF ok THEN up \cup {"object"} ELSE up
             st == IF ok THEN state ELSE "FAILED"
  <2>1. Move({"start"}, "export", next, parts, st)
    BY <1>1, <1>4 DEF RegisterObject, Step, pastVars, Move
  <2>2. /\ Last(stack).call = "start" /\ Len(stack) = 1
        /\ Last(stack) = stack[Len(stack)] /\ Last(stack).at = "export" /\ stack # <<>>
    <3>1. At({"start"}, "export")
      BY <2>1 DEF Move
    <3>2. QED
      BY <3>1, Standing DEF At
  <2>3. next \in StepName
    BY <2>2, FollowStart DEF StepName
  <2>4. parts \in SUBSET Part /\ \A p \in Part \ {"object"} : p \in parts <=> p \in up
    BY <1>1 DEF Part
  <2>5. "callback" \in up
    BY <2>2 DEF CallbackFirst, Call, Spot
  <2> HIDE DEF next, parts, st
  <2>6. QED
    BY <2>1, <2>3, <2>4, <2>5, CallbackMove DEF Part
<1>5. ASSUME NEW ok \in BOOLEAN, OpenStore(ok)
      PROVE  CallbackFirst'
  <2> DEFINE next == Follow("open")
             parts == IF ok THEN up \cup {"store"} ELSE up
  <2>1. Move({"start"}, "open", next, parts, state)
    BY <1>1, <1>5 DEF OpenStore, pastVars, Move
  <2>2. /\ Last(stack).call = "start" /\ Len(stack) = 1
        /\ Last(stack) = stack[Len(stack)] /\ Last(stack).at = "open" /\ stack # <<>>
    <3>1. At({"start"}, "open")
      BY <2>1 DEF Move
    <3>2. QED
      BY <3>1, Standing DEF At
  <2>3. next \in StepName
    BY <2>2, FollowStart DEF StepName
  <2>4. parts \in SUBSET Part /\ \A p \in Part \ {"store"} : p \in parts <=> p \in up
    BY <1>1 DEF Part
  <2>5. "callback" \in up
    BY <2>2 DEF CallbackFirst, Call, Spot
  <2> HIDE DEF next, parts
  <2>6. QED
    BY <2>1, <2>3, <2>4, <2>5, CallbackMove DEF Part
<1>6. CASE StartWorkers
  <2> DEFINE next == Follow("workers")
             parts == IF async THEN up \cup {"async", "workers"} ELSE up
  <2>1. Move({"start"}, "workers", next, parts, state)
    BY <1>1, <1>6 DEF StartWorkers, Step, pastVars, Move
  <2>2. Last(stack).call = "start"
    BY <2>1, Standing DEF Move
  <2>3. next \in StepName /\ next \notin {"export", "open", "watch", "run"}
    BY <2>2, FollowStart DEF StepName
  <2>4. parts \in SUBSET Part /\ \A p \in Part \ {"async", "workers"} : p \in parts <=> p \in up
    BY <1>1 DEF Part
  <2> HIDE DEF next, parts
  <2>5. QED
    BY <2>1, <2>3, <2>4, CallbackMove DEF Part
<1>7. CASE Adopt
  <2> DEFINE next == Follow("adopt")
             parts == up \cup {"callback", "adaptor"}
  <2>1. Move({"start"}, "adopt", next, parts, state)
    BY <1>1, <1>7 DEF Adopt, Step, pastVars, Move
  <2>2. Last(stack).call = "start"
    BY <2>1, Standing DEF Move
  <2>3. next \in StepName
    BY <2>2, FollowStart DEF StepName
  <2>4. /\ parts \in SUBSET Part /\ "callback" \in parts
        /\ \A p \in Part \ {"callback", "adaptor"} : p \in parts <=> p \in up
    BY <1>1 DEF Part
  <2> HIDE DEF next, parts
  <2>5. QED
    BY <2>1, <2>3, <2>4, CallbackMove DEF Part
<1>8. CASE StartWatcher \/ Run
  <2>1. PICK at1 \in {"watch", "run"}, new \in {{"watcher", "reader"}, {"timer"}},
             st \in {state, "RUNNING"} :
           Move({"start"}, at1, Follow(at1), up \cup new, st)
    BY <1>1, <1>8 DEF StartWatcher, Run, Step, pastVars, Move
  <2>2. /\ Last(stack).call = "start" /\ Len(stack) = 1
        /\ Last(stack) = stack[Len(stack)] /\ Last(stack).at = at1 /\ stack # <<>>
    <3>1. At({"start"}, at1)
      BY <2>1 DEF Move
    <3>2. QED
      BY <3>1, Standing DEF At
  <2>3. Follow(at1) \in StepName
    BY <2>2, FollowStart DEF StepName
  <2>4. "callback" \in up
    BY <2>2 DEF CallbackFirst, Call, Spot
  <2>5. PICK parts : parts = up \cup new
    OBVIOUS
  <2>6. parts \in SUBSET Part /\ "callback" \in parts
    BY <2>4, <2>5, <1>1 DEF Part
  <2>7. PICK next : next = Follow(at1)
    OBVIOUS
  <2>8. QED
    BY <2>1, <2>3, <2>4, <2>5, <2>6, <2>7, CallbackMove
<1>9. CASE \/ EnterFlush \/ LeaveFlush \/ Unload
           \/ Halt \/ JoinWatcher \/ StopWorkers \/ JoinWorkers \/ ClearWorkers
           \/ Detach \/ CloseStore
  <2>1. PICK at, next, parts :
           /\ parts \subseteq up
           /\ Move({"reload", "stop", "destroy"}, at, next, parts, state)
           /\ "callback" \in up => "callback" \in parts
           /\ \/ next \in {"flushing", "halting", "joining", "clearing"}
              \/ at = "flushing" /\ next = Follow("flush")
              \/ at = "halting" /\ next = Follow("halt")
              \/ at = "clearing" /\ next = Follow("join")
              \/ at \in {"flush", "unload", "halt", "join", "detach", "close"} /\ next = Follow(at)
           /\ at \notin {"flush", "flushing", "unload"} => Last(stack).call \in Shutdown
    <3>1. CASE EnterFlush
      BY <3>1, <1>1 DEF EnterFlush, Step, coreVars, pastVars, Move, At, Shutdown
    <3>2. CASE LeaveFlush
      BY <3>2, <1>1 DEF LeaveFlush, Step, coreVars, pastVars, Move, At, Shutdown
    <3>3. CASE Unload
      BY <3>3, <1>1 DEF Unload, Step, coreVars, pastVars, Move, At, Shutdown
    <3>4. CASE Halt
      BY <3>4, <1>1 DEF Halt, Step, coreVars, pastVars, Move, At, Shutdown
    <3>5. CASE JoinWatcher
      BY <3>5, <1>1 DEF JoinWatcher, Step, coreVars, pastVars, Move, At, Shutdown
    <3>6. CASE StopWorkers
      BY <3>6, <1>1 DEF StopWorkers, Step, coreVars, pastVars, Move, At, Shutdown
    <3>7. CASE JoinWorkers
      BY <3>7, <1>1 DEF JoinWorkers, Step, coreVars, pastVars, Move, At, Shutdown
    <3>8. CASE ClearWorkers
      BY <3>8, <1>1 DEF ClearWorkers, Step, coreVars, pastVars, Move, At, Shutdown
    <3>9. CASE Detach
      BY <3>9, <1>1 DEF Detach, Step, coreVars, pastVars, Move, At, Shutdown
    <3>10. CASE CloseStore
      BY <3>10, <1>1 DEF CloseStore, Step, coreVars, pastVars, Move, At, Shutdown
    <3>11. QED
      BY <1>9, <3>1, <3>2, <3>3, <3>4, <3>5, <3>6, <3>7, <3>8, <3>9, <3>10
  <2>2. Last(stack).call \in {"reload", "stop", "destroy"}
    BY <2>1, Standing DEF Move
  <2>3. next \in StepName
    BY <2>1, <2>2, FollowReload, FollowStop DEF StepName, Shutdown
  <2>4. parts \in SUBSET Part
    BY <2>1, <1>1
  <2>5. QED
    BY <2>1, <2>2, <2>3, <2>4, CallbackMove
<1>10. QED
  BY <1>2, <1>3, <1>4, <1>5, <1>6, <1>7, <1>8, <1>9
--------------------------------------------------------------------------------
\* What a thread's step makes of its line, besides what LineFacts says.
LEMMA LineEffect ==
  ASSUME DaemonInv, NEW i \in 1 .. Len(lines),
         Post(i) \/ Take(i) \/ Snapshot(i) \/ Output(i)
  PROVE  /\ Post(i) => /\ lines[i].at = "posting" /\ lines'[i].at = "queued"
                       /\ lines'[i].on = "worker" /\ (lines'[i].safe => Safe)
         /\ Take(i) => /\ lines[i].at = "queued" /\ lines'[i].at = "begun"
                       /\ lines'[i].on = lines[i].on /\ lines'[i].safe = lines[i].safe
         /\ Snapshot(i) => /\ lines[i].at = "begun" /\ lines'[i].at = "ready"
                           /\ lines'[i].on = lines[i].on /\ lines'[i].safe = lines[i].safe
                           /\ lines'[i].plugins = ("plugins" \in up)
         /\ Output(i) => /\ lines[i].at = "ready" /\ lines'[i].at = "done"
                         /\ lines'[i].on = lines[i].on /\ lines'[i].safe = lines[i].safe
                         /\ lines'[i].plugins = lines[i].plugins
                         /\ lines'[i].out = ("callback" \in up)
                         /\ lines'[i].kept = ({"callback", "store"} \subseteq up)
<1>1. lines \in Seq(LineRecord) /\ lines[i] \in LineRecord /\ Len(lines) \in Nat
  BY LenProperties, ElementOfSeq DEF DaemonInv, TypeOK
<1>2. \A e \in LineRecord : lines' = [lines EXCEPT ![i] = e] => lines'[i] = e
  BY <1>1, ExceptSeq
<1>3. CASE Post(i)
  <2> DEFINE b == Safe
             e == [lines[i] EXCEPT !.at = "queued", !.on = "worker", !.safe = b]
  <2>1. lines' = [lines EXCEPT ![i] = e]
    BY <1>3, <1>1, Zenon DEF Post
  <2>2. b \in BOOLEAN
    BY DEF Safe
  <2>3. b => Safe
    OBVIOUS
  <2> HIDE DEF b
  <2>4. e \in LineRecord /\ e.on = "worker" /\ e.at = "queued" /\ e.safe = b
    BY <1>1, <2>2 DEF LineRecord
  <2>5. lines[i].at = "posting" /\ ~ Take(i) /\ ~ Snapshot(i) /\ ~ Output(i)
    BY <1>3 DEF Post, Take, Snapshot, Output
  <2> HIDE DEF e
  <2>6. lines'[i] = e
    BY <2>1, <2>4, <1>2
  <2>7. QED
    BY <2>3, <2>4, <2>5, <2>6, Zenon
<1>4. CASE Take(i)
  <2> DEFINE e == [lines[i] EXCEPT !.at = "begun"]
  <2>1. lines' = [lines EXCEPT ![i] = e] /\ lines[i].at = "queued"
    BY <1>4 DEF Take
  <2>2. e \in LineRecord /\ e.on = lines[i].on /\ e.safe = lines[i].safe /\ e.at = "begun"
    BY <1>1 DEF LineRecord
  <2>3. ~ Post(i) /\ ~ Snapshot(i) /\ ~ Output(i)
    BY <2>1 DEF Post, Snapshot, Output
  <2> HIDE DEF e
  <2>4. QED
    BY <2>1, <2>2, <2>3, <1>2
<1>5. CASE Snapshot(i)
  <2> DEFINE b == "plugins" \in up
             e == [lines[i] EXCEPT !.at = "ready", !.plugins = b]
  <2>1. lines' = [lines EXCEPT ![i] = e]
    BY <1>5, <1>1, Zenon DEF Snapshot
  <2>2. b \in BOOLEAN
    OBVIOUS
  <2> HIDE DEF b
  <2>3. /\ e \in LineRecord /\ e.on = lines[i].on /\ e.safe = lines[i].safe
        /\ e.at = "ready" /\ e.plugins = b
    BY <1>1, <2>2 DEF LineRecord
  <2>4. lines[i].at = "begun" /\ ~ Post(i) /\ ~ Take(i) /\ ~ Output(i)
    BY <1>5 DEF Post, Take, Snapshot, Output
  <2> HIDE DEF e
  <2>5. QED
    BY <2>1, <2>3, <2>4, <1>2 DEF b
<1>6. CASE Output(i)
  <2> DEFINE b == "callback" \in up
             c == {"callback", "store"} \subseteq up
             e == [lines[i] EXCEPT !.at = "done", !.out = b, !.kept = c]
  <2>1. lines' = [lines EXCEPT ![i] = e]
    BY <1>6, <1>1, Zenon DEF Output
  <2>2. b \in BOOLEAN /\ c \in BOOLEAN
    OBVIOUS
  <2> HIDE DEF b, c
  <2>3. /\ e \in LineRecord /\ e.on = lines[i].on /\ e.safe = lines[i].safe
        /\ e.at = "done" /\ e.plugins = lines[i].plugins /\ e.out = b /\ e.kept = c
    BY <1>1, <2>2 DEF LineRecord
  <2>4. lines[i].at = "ready" /\ ~ Post(i) /\ ~ Take(i) /\ ~ Snapshot(i)
    BY <1>6 DEF Post, Take, Snapshot, Output
  <2> HIDE DEF e
  <2>5. QED
    BY <2>1, <2>3, <2>4, <1>2 DEF b, c
<1>7. QED
  BY <1>3, <1>4, <1>5, <1>6

\* The other steps leave the parts that stay up as they are.
LEMMA CallbackAside ==
  ASSUME CallbackFirst, UNCHANGED lines, up' \subseteq up, "callback" \in up => "callback" \in up',
         Call' = "start" => Call = "start" /\ Spot' = Spot
  PROVE  CallbackFirst'
BY DEF CallbackFirst

LEMMA CallbackElsewhere ==
  ASSUME DaemonInv, CallbackFirst,
         \/ EnterLoop \/ FlushDestroyed \/ EndReload \/ EndStop \/ Exit
         \/ \E i \in 1 .. Len(lines) : PostDestroyed(i)
         \/ Emit \/ Refuse \/ ServeReload \/ LeaveLoop
         \/ \E r \in Request : Ask(r)
         \/ \E sig \in Signal : Deliver(sig)
         \/ UNCHANGED vars
  PROVE  CallbackFirst'
<1>1. /\ UNCHANGED lines /\ up' \subseteq up
      /\ "callback" \in up => "callback" \in up'
  BY DEF EnterLoop, FlushDestroyed, PostDestroyed, EndReload, EndStop, Exit, Emit, Refuse,
         ServeReload, LeaveLoop, Ask, Deliver, vars, processVars, coreVars, lineVars
<1>2. Call' = "start" => Call = "start" /\ Spot' = Spot
  <2>1. CASE EndReload \/ EndStop
    <3>1. stack \in Seq(Frame) /\ stack # <<>> /\ Return /\ Len(stack) \in Nat
      BY <2>1, LenProperties DEF EndReload, EndStop, At, DaemonInv, TypeOK
    <3>2. PICK n \in Nat : n = Len(stack)
      BY <3>1
    <3>3. /\ stack' \in Seq(Frame) /\ Len(stack') = n - 1
          /\ \A i \in 1 .. n - 1 : stack'[i] = stack[i]
      BY <3>1, <3>2, ReturnFacts
    <3>4. CASE stack' = <<>>
      BY <3>4 DEF Call
    <3>5. CASE stack' # <<>>
      <4>1. Len(stack') \in Nat \ {0}
        BY <3>3, <3>5, EmptySeq, LenProperties
      <4>2. 1 \in 1 .. n - 1
        BY <4>1, <3>3
      <4>3. stack'[1] = stack[1]
        BY <4>2, <3>3
      <4>4. QED
        BY <4>3, <3>1, <3>5 DEF Call, Spot
    <3>6. QED
      BY <3>4, <3>5
  <2>2. CASE \E sig \in Signal : Deliver(sig)
    <3>1. PICK f : stack' = Append(stack, f) /\ f \in Frame /\ f.call \in {"reload", "stop"}
      BY <2>2 DEF Deliver, Begin, Frame
    <3>2. stack \in Seq(Frame)
      BY DEF DaemonInv, TypeOK
    <3>3. PICK n \in Nat : n = Len(stack)
      BY <3>2, LenProperties
    <3>4. /\ stack' # <<>> /\ \A i \in 1 .. n : stack'[i] = stack[i]
          /\ stack'[n + 1] = f
      BY <3>1, <3>2, <3>3, PushFacts
    <3>5. CASE n = 0
      BY <3>1, <3>4, <3>5 DEF Call
    <3>6. CASE n # 0
      <4>1. stack # <<>> /\ stack'[1] = stack[1]
        BY <3>2, <3>3, <3>4, <3>6, EmptySeq
      <4>2. QED
        BY <4>1, <3>4 DEF Call, Spot
    <3>7. QED
      BY <3>5, <3>6
  <2>3. CASE stack' = <<>> \/ stack' = <<Begin("destroy", "halt", "main")>>
             \/ stack' = <<Begin("reload", "flush", "dbus")>>
    <3>1. CASE stack' = <<>>
      BY <3>1 DEF Call
    <3>2. CASE stack' # <<>>
      <4>1. stack'[1].call \in {"destroy", "reload"}
        BY <3>2, <2>3 DEF Begin
      <4>2. QED
        BY <4>1, <3>2 DEF Call
    <3>3. QED
      BY <3>1, <3>2
  <2>4. CASE UNCHANGED stack
    BY <2>4 DEF Call, Spot
  <2>5. QED
    BY <2>1, <2>2, <2>3, <2>4
       DEF EnterLoop, FlushDestroyed, PostDestroyed, Exit, Emit, Refuse, ServeReload,
           LeaveLoop, Ask, vars, processVars
<1>3. QED
  BY <1>1, <1>2, CallbackAside

LEMMA CallbackLines ==
  ASSUME DaemonInv, CallbackFirst,
         \/ \E i \in 1 .. Len(lines) : Post(i) \/ Take(i) \/ Snapshot(i) \/ Output(i)
         \/ Read \/ ServeInject
  PROVE  CallbackFirst'
<1>1. ASSUME NEW i \in 1 .. Len(lines), Post(i) \/ Take(i) \/ Snapshot(i) \/ Output(i)
      PROVE  CallbackFirst'
  <2>1. lines \in Seq(LineRecord)
    BY DEF DaemonInv, TypeOK
  <2>2. lines # <<>> /\ "callback" \in up
    <3>1. lines # <<>>
      OBVIOUS
    <3>2. QED
      BY <3>1 DEF CallbackFirst
  <2>3. UNCHANGED up
    BY <1>1 DEF Post, Take, Snapshot, Output, coreVars
  <2>4. \A j \in 1 .. Len(lines') : lines'[j].at = "done" => lines'[j].out
    <3>1. /\ Len(lines') = Len(lines)
          /\ \A j \in 1 .. Len(lines) : j # i => lines'[j] = lines[j]
      BY <1>1, LineFacts
    <3>2. lines'[i].at = "done" => lines'[i].out
      BY <1>1, <2>2, LineEffect
    <3>3. QED
      BY <3>1, <3>2 DEF CallbackFirst
  <2>5. QED
    BY <2>2, <2>3, <2>4 DEF CallbackFirst
<1>2. CASE Read \/ ServeInject
  <2>1. PICK thread \in {"watcher", "main"} : Accept(thread)
    BY <1>2 DEF Read, ServeInject
  <2>2. "callback" \in up /\ UNCHANGED up
    BY <1>2 DEF Read, ServeInject, CallbackFirst, coreVars
  <2>3. \A j \in 1 .. Len(lines') : lines'[j].at = "done" => lines'[j].out
    <3>1. PICK n \in Nat : n = Len(lines)
      BY <2>1, AcceptFacts
    <3>2. /\ Len(lines') = n + 1 /\ \A j \in 1 .. n : lines'[j] = lines[j]
          /\ lines'[n + 1].at \in {"posting", "begun"}
      BY <2>1, <3>1, AcceptFacts
    <3>3. \A j \in 1 .. n + 1 : j \in 1 .. n \/ j = n + 1
      BY <3>1
    <3>4. QED
      BY <3>1, <3>2, <3>3 DEF CallbackFirst
  <2>4. QED
    BY <2>2, <2>3 DEF CallbackFirst
<1>3. QED
  BY <1>1, <1>2

LEMMA CallbackNext ==
  ASSUME DaemonInv, CallbackFirst, [Next]_vars
  PROVE  CallbackFirst'
BY CallbackMoves, CallbackElsewhere, CallbackLines
   DEF Next, Main, Start, Flush, DoStop, Serve, Process
--------------------------------------------------------------------------------
LEMMA UnfinishedStays ==
  ASSUME UNCHANGED lines
  PROVE  Unfinished' = Unfinished
BY DEF Unfinished

\* What a step of the main thread that moves on does while no signal interrupts.
LEMMA QuietMove ==
  ASSUME DaemonInv, Quiet, NEW called, NEW at, NEW next \in StepName, NEW parts, NEW st,
         Move(called, at, next, parts, st)
  PROVE  /\ Call \in called /\ Spot = at /\ Call = Last(stack).call
         /\ at \in StepsOf(Call)
         /\ Call = "start" <=> phase = "start"
         /\ Call = "destroy" <=> phase = "destroy"
         /\ Call \in {"reload", "stop", "inject"} <=> phase = "exec"
         /\ Len(stack') = 1 /\ Call' = Call /\ Spot' = next
         /\ Unfinished' = Unfinished /\ lines' = lines /\ up' = parts /\ state' = st
         /\ UNCHANGED <<async, phase, quitNow, reloaded>>
<1>1. Len(stack) <= 1 /\ At(called, at) /\ GoTo(next)
  BY DEF Quiet, Move
<1>2. lines' = lines
  BY DEF Move, lineVars
<1>3. /\ Call \in called /\ Spot = at /\ Call = Last(stack).call
      /\ at \in StepsOf(Call)
      /\ Call = "start" <=> phase = "start"
      /\ Call = "destroy" <=> phase = "destroy"
      /\ Call \in {"reload", "stop", "inject"} <=> phase = "exec"
  BY <1>1, Here
<1>4. Len(stack') = 1 /\ Call' = Call /\ Spot' = next
  BY <1>1, Onward
<1>5. up' = parts /\ state' = st /\ UNCHANGED <<async, phase, quitNow, reloaded>>
  BY DEF Move, configVars
<1>6. QED
  BY <1>2, <1>3, <1>4, <1>5, UnfinishedStays

LEMMA QuietLoadPlugins ==
  ASSUME DaemonInv, Quiet, NEW ok \in BOOLEAN, LoadPlugins(ok)
  PROVE  Quiet'
<1> DEFINE next == IF Last(stack).call = "start" THEN Follow("load") ELSE IF ok THEN "loaded" ELSE "empty"
           parts == IF ok THEN up \cup {"plugins"} ELSE up
           st == "LOADING"
<1>1. Move({"start", "reload"}, "load", next, parts, st)
  BY DEF DaemonInv, TypeOK, LoadPlugins, Step, pastVars, Move
<1>2. Last(stack).call \in {"start", "reload"}
  BY <1>1, Standing DEF Move
<1>3. next \in StepName
  BY <1>2, FollowStart DEF StepName
<1>4. /\ Spot = "load" /\ Call = Last(stack).call
      /\ Call = "start" <=> phase = "start"
      /\ Call \in {"reload", "stop", "inject"} <=> phase = "exec"
      /\ Len(stack') = 1 /\ Call' = Call /\ Spot' = next
      /\ Unfinished' = Unfinished /\ lines' = lines /\ up' = parts /\ state' = st
      /\ UNCHANGED <<async, phase, quitNow, reloaded>>
  <2> HIDE DEF next, parts, st
  <2>1. QED
    BY <1>1, <1>3, QuietMove
<1>5. opened' = opened /\ ~ overtaken'
  BY DEF LoadPlugins, Step, pastVars, Quiet
<1>6. Rising' /\ Falling'
  BY <1>2, <1>4, <1>5, FollowStart DEF Quiet, Rising, Falling, Full, Shutdown
<1>7. Serving'
  BY <1>2, <1>4, <1>5, FollowStart DEF Quiet, Rising, Serving, Full
<1>8. StoreStays'
  BY <1>2, <1>4, <1>5, FollowStart DEF Quiet, Rising, StoreStays, Unfinished
<1>9. PluginsStay'
  BY <1>2, <1>4, <1>5, FollowStart DEF Quiet, Rising, PluginsStay, Swapping
<1>10. QED
  BY <1>4, <1>5, <1>6, <1>7, <1>8, <1>9 DEF Quiet

LEMMA QuietRegisterService ==
  ASSUME DaemonInv, Quiet, NEW ok \in BOOLEAN, RegisterService(ok)
  PROVE  Quiet'
<1> DEFINE next == IF ok THEN Follow("register") ELSE "check"
           parts == IF ok THEN up \cup {"service"} ELSE up
           st == IF ok THEN "STARTING" ELSE "FAILED"
<1>1. Move({"start"}, "register", next, parts, st)
  BY DEF DaemonInv, TypeOK, RegisterService, Step, pastVars, Move
<1>2. Last(stack).call = "start"
  BY <1>1, Standing DEF Move
<1>3. next \in StepName
  BY <1>2, FollowStart DEF StepName
<1>4. /\ Spot = "register" /\ Call = Last(stack).call
      /\ Call = "start" <=> phase = "start"
      /\ Call \in {"reload", "stop", "inject"} <=> phase = "exec"
      /\ Len(stack') = 1 /\ Call' = Call /\ Spot' = next
      /\ Unfinished' = Unfinished /\ lines' = lines /\ up' = parts /\ state' = st
      /\ UNCHANGED <<async, phase, quitNow, reloaded>>
  <2> HIDE DEF next, parts, st
  <2>1. QED
    BY <1>1, <1>3, QuietMove
<1>5. opened' = opened /\ ~ overtaken'
  BY DEF RegisterService, Step, pastVars, Quiet
<1>6. Rising' /\ Falling'
  BY <1>2, <1>4, <1>5, FollowStart DEF Quiet, Rising, Falling, Full, Shutdown
<1>7. Serving'
  BY <1>2, <1>4, <1>5, FollowStart DEF Quiet, Rising, Serving, Full
<1>8. StoreStays'
  BY <1>2, <1>4, <1>5, FollowStart DEF Quiet, Rising, StoreStays, Unfinished
<1>9. PluginsStay'
  BY <1>2, <1>4, <1>5, FollowStart DEF Quiet, Rising, PluginsStay, Swapping
<1>10. QED
  BY <1>4, <1>5, <1>6, <1>7, <1>8, <1>9 DEF Quiet

LEMMA QuietRegisterObject ==
  ASSUME DaemonInv, Quiet, NEW ok \in BOOLEAN, RegisterObject(ok)
  PROVE  Quiet'
<1> DEFINE next == IF ok THEN Follow("export") ELSE "check"
           parts == IF ok THEN up \cup {"object"} ELSE up
           st == IF ok THEN state ELSE "FAILED"
<1>1. Move({"start"}, "export", next, parts, st)
  BY DEF DaemonInv, TypeOK, RegisterObject, Step, pastVars, Move
<1>2. Last(stack).call = "start"
  BY <1>1, Standing DEF Move
<1>3. next \in StepName
  BY <1>2, FollowStart DEF StepName
<1>4. /\ Spot = "export" /\ Call = Last(stack).call
      /\ Call = "start" <=> phase = "start"
      /\ Call \in {"reload", "stop", "inject"} <=> phase = "exec"
      /\ Len(stack') = 1 /\ Call' = Call /\ Spot' = next
      /\ Unfinished' = Unfinished /\ lines' = lines /\ up' = parts /\ state' = st
      /\ UNCHANGED <<async, phase, quitNow, reloaded>>
  <2> HIDE DEF next, parts, st
  <2>1. QED
    BY <1>1, <1>3, QuietMove
<1>5. opened' = opened /\ ~ overtaken'
  BY DEF RegisterObject, Step, pastVars, Quiet
<1>6. Rising' /\ Falling'
  BY <1>2, <1>4, <1>5, FollowStart DEF Quiet, Rising, Falling, Full, Shutdown
<1>7. Serving'
  BY <1>2, <1>4, <1>5, FollowStart DEF Quiet, Rising, Serving, Full
<1>8. StoreStays'
  BY <1>2, <1>4, <1>5, FollowStart DEF Quiet, Rising, StoreStays, Unfinished
<1>9. PluginsStay'
  BY <1>2, <1>4, <1>5, FollowStart DEF Quiet, Rising, PluginsStay, Swapping
<1>10. QED
  BY <1>4, <1>5, <1>6, <1>7, <1>8, <1>9 DEF Quiet

LEMMA QuietOpenStore ==
  ASSUME DaemonInv, Quiet, NEW ok \in BOOLEAN, OpenStore(ok)
  PROVE  Quiet'
<1> DEFINE next == Follow("open")
           parts == IF ok THEN up \cup {"store"} ELSE up
           st == state
<1>1. Move({"start"}, "open", next, parts, st)
  BY DEF DaemonInv, TypeOK, OpenStore, pastVars, Move
<1>2. Last(stack).call = "start"
  BY <1>1, Standing DEF Move
<1>3. next \in StepName
  BY <1>2, FollowStart DEF StepName
<1>4. /\ Spot = "open" /\ Call = Last(stack).call
      /\ Call = "start" <=> phase = "start"
      /\ Call \in {"reload", "stop", "inject"} <=> phase = "exec"
      /\ Len(stack') = 1 /\ Call' = Call /\ Spot' = next
      /\ Unfinished' = Unfinished /\ lines' = lines /\ up' = parts /\ state' = st
      /\ UNCHANGED <<async, phase, quitNow, reloaded>>
  <2> HIDE DEF next, parts, st
  <2>1. QED
    BY <1>1, <1>3, QuietMove
<1>5. opened' = ok /\ ~ overtaken'
  BY DEF OpenStore, pastVars, Quiet
<1>6. Rising' /\ Falling'
  BY <1>2, <1>4, <1>5, FollowStart DEF Quiet, Rising, Falling, Full, Shutdown
<1>7. Serving'
  BY <1>2, <1>4, <1>5, FollowStart DEF Quiet, Rising, Serving, Full
<1>8. StoreStays'
  BY <1>2, <1>4, <1>5, FollowStart DEF Quiet, Rising, StoreStays, Unfinished
<1>9. PluginsStay'
  BY <1>2, <1>4, <1>5, FollowStart DEF Quiet, Rising, PluginsStay, Swapping
<1>10. QED
  BY <1>4, <1>5, <1>6, <1>7, <1>8, <1>9 DEF Quiet

LEMMA QuietStartWorkers ==
  ASSUME DaemonInv, Quiet, StartWorkers
  PROVE  Quiet'
<1> DEFINE next == Follow("workers")
           parts == IF async THEN up \cup {"async", "workers"} ELSE up
           st == state
<1>1. Move({"start"}, "workers", next, parts, st)
  BY DEF DaemonInv, TypeOK, StartWorkers, Step, pastVars, Move
<1>2. Last(stack).call = "start"
  BY <1>1, Standing DEF Move
<1>3. next \in StepName
  BY <1>2, FollowStart DEF StepName
<1>4. /\ Spot = "workers" /\ Call = Last(stack).call
      /\ Call = "start" <=> phase = "start"
      /\ Call \in {"reload", "stop", "inject"} <=> phase = "exec"
      /\ Len(stack') = 1 /\ Call' = Call /\ Spot' = next
      /\ Unfinished' = Unfinished /\ lines' = lines /\ up' = parts /\ state' = st
      /\ UNCHANGED <<async, phase, quitNow, reloaded>>
  <2> HIDE DEF next, parts, st
  <2>1. QED
    BY <1>1, <1>3, QuietMove
<1>5. opened' = opened /\ ~ overtaken'
  BY DEF StartWorkers, Step, pastVars, Quiet
<1>6. Rising' /\ Falling'
  BY <1>2, <1>4, <1>5, FollowStart DEF Quiet, Rising, Falling, Full, Shutdown
<1>7. Serving'
  BY <1>2, <1>4, <1>5, FollowStart DEF Quiet, Rising, Serving, Full
<1>8. StoreStays'
  BY <1>2, <1>4, <1>5, FollowStart DEF Quiet, Rising, StoreStays, Unfinished
<1>9. PluginsStay'
  BY <1>2, <1>4, <1>5, FollowStart DEF Quiet, Rising, PluginsStay, Swapping
<1>10. QED
  BY <1>4, <1>5, <1>6, <1>7, <1>8, <1>9 DEF Quiet

LEMMA QuietAdopt ==
  ASSUME DaemonInv, Quiet, Adopt
  PROVE  Quiet'
<1> DEFINE next == Follow("adopt")
           parts == up \cup {"callback", "adaptor"}
           st == state
<1>1. Move({"start"}, "adopt", next, parts, st)
  BY DEF DaemonInv, TypeOK, Adopt, Step, pastVars, Move
<1>2. Last(stack).call = "start"
  BY <1>1, Standing DEF Move
<1>3. next \in StepName
  BY <1>2, FollowStart DEF StepName
<1>4. /\ Spot = "adopt" /\ Call = Last(stack).call
      /\ Call = "start" <=> phase = "start"
      /\ Call \in {"reload", "stop", "inject"} <=> phase = "exec"
      /\ Len(stack') = 1 /\ Call' = Call /\ Spot' = next
      /\ Unfinished' = Unfinished /\ lines' = lines /\ up' = parts /\ state' = st
      /\ UNCHANGED <<async, phase, quitNow, reloaded>>
  <2> HIDE DEF next, parts, st
  <2>1. QED
    BY <1>1, <1>3, QuietMove
<1>5. opened' = opened /\ ~ overtaken'
  BY DEF Adopt, Step, pastVars, Quiet
<1>6. Rising' /\ Falling'
  BY <1>2, <1>4, <1>5, FollowStart DEF Quiet, Rising, Falling, Full, Shutdown
<1>7. Serving'
  BY <1>2, <1>4, <1>5, FollowStart DEF Quiet, Rising, Serving, Full
<1>8. StoreStays'
  BY <1>2, <1>4, <1>5, FollowStart DEF Quiet, Rising, StoreStays, Unfinished
<1>9. PluginsStay'
  BY <1>2, <1>4, <1>5, FollowStart DEF Quiet, Rising, PluginsStay, Swapping
<1>10. QED
  BY <1>4, <1>5, <1>6, <1>7, <1>8, <1>9 DEF Quiet

LEMMA QuietStartWatcher ==
  ASSUME DaemonInv, Quiet, StartWatcher
  PROVE  Quiet'
<1> DEFINE next == Follow("watch")
           parts == up \cup {"watcher", "reader"}
           st == state
<1>1. Move({"start"}, "watch", next, parts, st)
  BY DEF DaemonInv, TypeOK, StartWatcher, Step, pastVars, Move
<1>2. Last(stack).call = "start"
  BY <1>1, Standing DEF Move
<1>3. next \in StepName
  BY <1>2, FollowStart DEF StepName
<1>4. /\ Spot = "watch" /\ Call = Last(stack).call
      /\ Call = "start" <=> phase = "start"
      /\ Call \in {"reload", "stop", "inject"} <=> phase = "exec"
      /\ Len(stack') = 1 /\ Call' = Call /\ Spot' = next
      /\ Unfinished' = Unfinished /\ lines' = lines /\ up' = parts /\ state' = st
      /\ UNCHANGED <<async, phase, quitNow, reloaded>>
  <2> HIDE DEF next, parts, st
  <2>1. QED
    BY <1>1, <1>3, QuietMove
<1>5. opened' = opened /\ ~ overtaken'
  BY DEF StartWatcher, Step, pastVars, Quiet
<1>6. Rising' /\ Falling'
  BY <1>2, <1>4, <1>5, FollowStart DEF Quiet, Rising, Falling, Full, Shutdown
<1>7. Serving'
  BY <1>2, <1>4, <1>5, FollowStart DEF Quiet, Rising, Serving, Full
<1>8. StoreStays'
  BY <1>2, <1>4, <1>5, FollowStart DEF Quiet, Rising, StoreStays, Unfinished
<1>9. PluginsStay'
  BY <1>2, <1>4, <1>5, FollowStart DEF Quiet, Rising, PluginsStay, Swapping
<1>10. QED
  BY <1>4, <1>5, <1>6, <1>7, <1>8, <1>9 DEF Quiet

LEMMA QuietRun ==
  ASSUME DaemonInv, Quiet, Run
  PROVE  Quiet'
<1> DEFINE next == Follow("run")
           parts == up \cup {"timer"}
           st == "RUNNING"
<1>1. Move({"start"}, "run", next, parts, st)
  BY DEF DaemonInv, TypeOK, Run, Step, pastVars, Move
<1>2. Last(stack).call = "start"
  BY <1>1, Standing DEF Move
<1>3. next \in StepName
  BY <1>2, FollowStart DEF StepName
<1>4. /\ Spot = "run" /\ Call = Last(stack).call
      /\ Call = "start" <=> phase = "start"
      /\ Call \in {"reload", "stop", "inject"} <=> phase = "exec"
      /\ Len(stack') = 1 /\ Call' = Call /\ Spot' = next
      /\ Unfinished' = Unfinished /\ lines' = lines /\ up' = parts /\ state' = st
      /\ UNCHANGED <<async, phase, quitNow, reloaded>>
  <2> HIDE DEF next, parts, st
  <2>1. QED
    BY <1>1, <1>3, QuietMove
<1>5. opened' = opened /\ ~ overtaken'
  BY DEF Run, Step, pastVars, Quiet
<1>6. Rising' /\ Falling'
  BY <1>2, <1>4, <1>5, FollowStart DEF Quiet, Rising, Falling, Full, Shutdown
<1>7. Serving'
  BY <1>2, <1>4, <1>5, FollowStart DEF Quiet, Rising, Serving, Full
<1>8. StoreStays'
  BY <1>2, <1>4, <1>5, FollowStart DEF Quiet, Rising, StoreStays, Unfinished
<1>9. PluginsStay'
  BY <1>2, <1>4, <1>5, FollowStart DEF Quiet, Rising, PluginsStay, Swapping
<1>10. QED
  BY <1>4, <1>5, <1>6, <1>7, <1>8, <1>9 DEF Quiet

--------------------------------------------------------------------------------
\* What the lines and the threads are like while no signal interrupts.
LEMMA QuietLines ==
  ASSUME DaemonInv, Quiet, stack # <<>>
  PROVE  /\ "workers" \in up => "async" \in up \/ Spot \in Joining
         /\ "reader" \in up => "watcher" \in up \/ Spot = "halting"
         /\ Call \in Shutdown => Call # "inject" /\ Call # "reload"
         /\ Call \in Shutdown /\ Spot \in {"detach", "unload", "close", "done"} => ~ Unfinished
<1>1. \A steps : OnStack(steps) => Spot \in steps
  <2> SUFFICES ASSUME NEW steps, OnStack(steps) PROVE Spot \in steps
    OBVIOUS
  <2>1. PICK i \in 1 .. Len(stack) : stack[i].at \in steps
    BY DEF OnStack
  <2>2. PICK n \in Nat : n = Len(stack)
    BY LenProperties DEF DaemonInv, TypeOK
  <2>3. i = 1
    BY <2>1, <2>2 DEF Quiet
  <2>4. QED
    BY <2>1, <2>3 DEF Spot
<1>2. "workers" \in up => "async" \in up \/ Spot \in Joining
  BY <1>1 DEF DaemonInv, Sound, Lined, Pooled
<1>3. "reader" \in up => "watcher" \in up \/ Spot = "halting"
  BY <1>1 DEF DaemonInv, Sound, Lined, Watched
<1>4. Call \in Shutdown => Call # "inject" /\ Call # "reload"
  BY DEF Shutdown
<1>5. Call \in Shutdown /\ Spot \in {"detach", "unload", "close", "done"} => ~ Unfinished
  BY <1>4, NothingInFlight DEF Quiet, Falling
<1>6. QED
  BY <1>2, <1>3, <1>4, <1>5

\* A flush that no stop interrupts waits until the workers have nothing left.
LEMMA FlushWaits ==
  ASSUME DaemonInv, Quiet, async, At({"reload"} \cup Shutdown, "flushing"), FlushMayPass
  PROVE  \A i \in 1 .. Len(lines) : lines[i].at \notin {"queued", "begun"}
<1>1. Len(stack) = 1 /\ Spot = "flushing" /\ stack # <<>>
  BY Here DEF Quiet
<1>2. \A i \in 1 .. Len(stack) : stack[i].at \notin {"joining", "clearing"}
  BY <1>1 DEF Spot
<1>3. Drained
  BY <1>2 DEF FlushMayPass, InCall
<1>4. QED
  BY <1>3 DEF Drained, Queued, Busy, Quiet, PluginsStay

LEMMA QuietEnterFlush ==
  ASSUME DaemonInv, Quiet, EnterFlush
  PROVE  Quiet'
<1> DEFINE next == IF "workers" \in up THEN "flushing" ELSE Follow("flush")
           parts == up
<1>1. Move({"reload"} \cup Shutdown, "flush", next, parts, state)
  BY DEF DaemonInv, TypeOK, EnterFlush, Step, pastVars, Move
<1>2. Last(stack).call = "reload" \/ Last(stack).call \in Shutdown
  BY <1>1, Standing DEF Move
<1>3. next \in StepName
  BY <1>2, FollowReload, FollowStop DEF StepName, Shutdown
<1>4. /\ Spot = "flush" /\ Call = Last(stack).call
      /\ Call = "start" <=> phase = "start"
      /\ Call = "destroy" <=> phase = "destroy"
      /\ Call \in {"reload", "stop", "inject"} <=> phase = "exec"
      /\ Len(stack') = 1 /\ Call' = Call /\ Spot' = next
      /\ Unfinished' = Unfinished /\ lines' = lines /\ up' = parts /\ state' = state
      /\ UNCHANGED <<async, phase, quitNow, reloaded>>
  <2> HIDE DEF next, parts
  <2>1. QED
    BY <1>1, <1>3, QuietMove
<1>5. opened' = opened /\ ~ overtaken' /\ Call # "start" /\ stack # <<>>
  BY <1>2, <1>4 DEF EnterFlush, Step, Shutdown, At, pastVars, Quiet
<1>6. /\ "workers" \in up => "async" \in up \/ Spot \in Joining
      /\ "reader" \in up => "watcher" \in up \/ Spot = "halting"
      /\ Call \in Shutdown => Call # "inject" /\ Call # "reload"
      /\ Call \in Shutdown /\ Spot \in {"detach", "unload", "close", "done"} => ~ Unfinished
  BY <1>5, QuietLines
<1>7. Rising' /\ Falling'
  BY <1>2, <1>4, <1>5, <1>6, FollowReload, FollowStop DEF Quiet, Rising, Falling, StoreStays, Shutdown, Joining
<1>8. Serving'
  BY <1>2, <1>4, <1>5, <1>6, FollowReload, FollowStop DEF Quiet, Serving, Full, Shutdown
<1>9. StoreStays'
  BY <1>2, <1>4, <1>5, <1>6, FollowReload, FollowStop DEF Quiet, Falling, StoreStays, Shutdown
<1>10. PluginsStay'
  BY <1>2, <1>4, <1>5, <1>6, FollowReload, FollowStop
     DEF Quiet, Falling, Serving, Full, PluginsStay, Swapping, Shutdown, Unfinished
<1>11. QED
  BY <1>4, <1>5, <1>7, <1>8, <1>9, <1>10 DEF Quiet

LEMMA QuietLeaveFlush ==
  ASSUME DaemonInv, Quiet, LeaveFlush
  PROVE  Quiet'
<1> DEFINE next == Follow("flush")
           parts == up
<1>1. Move({"reload"} \cup Shutdown, "flushing", next, parts, state)
  BY DEF DaemonInv, TypeOK, LeaveFlush, Step, pastVars, Move
<1>2. Last(stack).call = "reload" \/ Last(stack).call \in Shutdown
  BY <1>1, Standing DEF Move
<1>3. next \in StepName
  BY <1>2, FollowReload, FollowStop DEF StepName, Shutdown
<1>4. /\ Spot = "flushing" /\ Call = Last(stack).call
      /\ Call = "start" <=> phase = "start"
      /\ Call = "destroy" <=> phase = "destroy"
      /\ Call \in {"reload", "stop", "inject"} <=> phase = "exec"
      /\ Len(stack') = 1 /\ Call' = Call /\ Spot' = next
      /\ Unfinished' = Unfinished /\ lines' = lines /\ up' = parts /\ state' = state
      /\ UNCHANGED <<async, phase, quitNow, reloaded>>
  <2> HIDE DEF next, parts
  <2>1. QED
    BY <1>1, <1>3, QuietMove
<1>5. opened' = opened /\ ~ overtaken' /\ Call # "start" /\ stack # <<>>
  BY <1>2, <1>4 DEF LeaveFlush, Step, Shutdown, At, pastVars, Quiet
<1>6. /\ "workers" \in up => "async" \in up \/ Spot \in Joining
      /\ "reader" \in up => "watcher" \in up \/ Spot = "halting"
      /\ Call \in Shutdown => Call # "inject" /\ Call # "reload"
      /\ Call \in Shutdown /\ Spot \in {"detach", "unload", "close", "done"} => ~ Unfinished
  BY <1>5, QuietLines
<1>7. async => \A i \in 1 .. Len(lines) : lines[i].at \notin {"queued", "begun"}
  BY FlushWaits DEF LeaveFlush, Step
<1>8. Rising' /\ Falling'
  BY <1>2, <1>4, <1>5, <1>6, FollowReload, FollowStop DEF Quiet, Rising, Falling, StoreStays, Shutdown, Joining
<1>9. Serving'
  BY <1>2, <1>4, <1>5, <1>6, FollowReload, FollowStop DEF Quiet, Serving, Full, Shutdown
<1>10. StoreStays'
  BY <1>2, <1>4, <1>5, <1>6, FollowReload, FollowStop DEF Quiet, Falling, StoreStays, Shutdown
<1>11. PluginsStay'
  BY <1>2, <1>4, <1>5, <1>6, <1>7, FollowReload, FollowStop
     DEF Quiet, Falling, Serving, Full, PluginsStay, Swapping, Shutdown, Unfinished
<1>12. QED
  BY <1>4, <1>5, <1>8, <1>9, <1>10, <1>11 DEF Quiet

LEMMA QuietUnload ==
  ASSUME DaemonInv, Quiet, Unload
  PROVE  Quiet'
<1> DEFINE next == Follow("unload")
           parts == up \ {"plugins"}
<1>1. Move({"reload"} \cup Shutdown, "unload", next, parts, state)
  BY DEF DaemonInv, TypeOK, Unload, Step, pastVars, Move
<1>2. Last(stack).call = "reload" \/ Last(stack).call \in Shutdown
  BY <1>1, Standing DEF Move
<1>3. next \in StepName
  BY <1>2, FollowReload, FollowStop DEF StepName, Shutdown
<1>4. /\ Spot = "unload" /\ Call = Last(stack).call
      /\ Call = "start" <=> phase = "start"
      /\ Call = "destroy" <=> phase = "destroy"
      /\ Call \in {"reload", "stop", "inject"} <=> phase = "exec"
      /\ Len(stack') = 1 /\ Call' = Call /\ Spot' = next
      /\ Unfinished' = Unfinished /\ lines' = lines /\ up' = parts /\ state' = state
      /\ UNCHANGED <<async, phase, quitNow, reloaded>>
  <2> HIDE DEF next, parts
  <2>1. QED
    BY <1>1, <1>3, QuietMove
<1>5. opened' = opened /\ ~ overtaken' /\ Call # "start" /\ stack # <<>>
  BY <1>2, <1>4 DEF Unload, Step, Shutdown, At, pastVars, Quiet
<1>6. /\ "workers" \in up => "async" \in up \/ Spot \in Joining
      /\ "reader" \in up => "watcher" \in up \/ Spot = "halting"
      /\ Call \in Shutdown => Call # "inject" /\ Call # "reload"
      /\ Call \in Shutdown /\ Spot \in {"detach", "unload", "close", "done"} => ~ Unfinished
  BY <1>5, QuietLines
<1>7. Rising' /\ Falling'
  BY <1>2, <1>4, <1>5, <1>6, FollowReload, FollowStop DEF Quiet, Rising, Falling, StoreStays, Shutdown, Joining
<1>8. Serving'
  BY <1>2, <1>4, <1>5, <1>6, FollowReload, FollowStop DEF Quiet, Serving, Full, Shutdown
<1>9. StoreStays'
  BY <1>2, <1>4, <1>5, <1>6, FollowReload, FollowStop DEF Quiet, Falling, StoreStays, Shutdown
<1>10. PluginsStay'
  BY <1>2, <1>4, <1>5, <1>6, FollowReload, FollowStop
     DEF Quiet, Falling, Serving, Full, PluginsStay, Swapping, Shutdown, Unfinished
<1>11. QED
  BY <1>4, <1>5, <1>7, <1>8, <1>9, <1>10 DEF Quiet

LEMMA QuietHalt ==
  ASSUME DaemonInv, Quiet, Halt
  PROVE  Quiet'
<1> DEFINE next == IF "watcher" \in up THEN "halting" ELSE Follow("halt")
           parts == up \ {"watcher"}
<1>1. Move(Shutdown, "halt", next, parts, state)
  BY DEF DaemonInv, TypeOK, Halt, Move
<1>2. Last(stack).call \in Shutdown
  BY <1>1, Standing DEF Move
<1>3. next \in StepName
  BY <1>2, FollowReload, FollowStop DEF StepName, Shutdown
<1>4. /\ Spot = "halt" /\ Call = Last(stack).call
      /\ Call = "start" <=> phase = "start"
      /\ Call = "destroy" <=> phase = "destroy"
      /\ Call \in {"reload", "stop", "inject"} <=> phase = "exec"
      /\ Len(stack') = 1 /\ Call' = Call /\ Spot' = next
      /\ Unfinished' = Unfinished /\ lines' = lines /\ up' = parts /\ state' = state
      /\ UNCHANGED <<async, phase, quitNow, reloaded>>
  <2> HIDE DEF next, parts
  <2>1. QED
    BY <1>1, <1>3, QuietMove
<1>5. opened' = opened /\ ~ overtaken' /\ Call # "start" /\ stack # <<>>
  <2>1. At(Shutdown, "halt")
    BY DEF Halt
  <2>2. Len(stack) = 1 /\ Spot = "halt" /\ stack # <<>>
    BY <2>1, Here DEF Quiet
  <2>3. ~ InCall(Shutdown, {"halting"})
    BY <2>2 DEF InCall, Spot
  <2>4. QED
    BY <2>2, <2>3, <1>2, <1>4 DEF Halt, Shutdown, Quiet
<1>6. /\ "workers" \in up => "async" \in up \/ Spot \in Joining
      /\ "reader" \in up => "watcher" \in up \/ Spot = "halting"
      /\ Call \in Shutdown => Call # "inject" /\ Call # "reload"
      /\ Call \in Shutdown /\ Spot \in {"detach", "unload", "close", "done"} => ~ Unfinished
  BY <1>5, QuietLines
<1>7. Rising' /\ Falling'
  BY <1>2, <1>4, <1>5, <1>6, FollowReload, FollowStop DEF Quiet, Rising, Falling, StoreStays, Shutdown, Joining
<1>8. Serving'
  BY <1>2, <1>4, <1>5, <1>6, FollowReload, FollowStop DEF Quiet, Serving, Full, Shutdown
<1>9. StoreStays'
  BY <1>2, <1>4, <1>5, <1>6, FollowReload, FollowStop DEF Quiet, Falling, StoreStays, Shutdown
<1>10. PluginsStay'
  BY <1>2, <1>4, <1>5, <1>6, FollowReload, FollowStop
     DEF Quiet, Falling, Serving, Full, PluginsStay, Swapping, Shutdown, Unfinished
<1>11. QED
  BY <1>4, <1>5, <1>7, <1>8, <1>9, <1>10 DEF Quiet

LEMMA QuietJoinWatcher ==
  ASSUME DaemonInv, Quiet, JoinWatcher
  PROVE  Quiet'
<1> DEFINE next == Follow("halt")
           parts == up \ {"reader"}
<1>1. Move(Shutdown, "halting", next, parts, state)
  BY DEF DaemonInv, TypeOK, JoinWatcher, Step, pastVars, Move
<1>2. Last(stack).call \in Shutdown
  BY <1>1, Standing DEF Move
<1>3. next \in StepName
  BY <1>2, FollowReload, FollowStop DEF StepName, Shutdown
<1>4. /\ Spot = "halting" /\ Call = Last(stack).call
      /\ Call = "start" <=> phase = "start"
      /\ Call = "destroy" <=> phase = "destroy"
      /\ Call \in {"reload", "stop", "inject"} <=> phase = "exec"
      /\ Len(stack') = 1 /\ Call' = Call /\ Spot' = next
      /\ Unfinished' = Unfinished /\ lines' = lines /\ up' = parts /\ state' = state
      /\ UNCHANGED <<async, phase, quitNow, reloaded>>
  <2> HIDE DEF next, parts
  <2>1. QED
    BY <1>1, <1>3, QuietMove
<1>5. opened' = opened /\ ~ overtaken' /\ Call # "start" /\ stack # <<>>
  BY <1>2, <1>4 DEF JoinWatcher, Step, Shutdown, At, pastVars, Quiet
<1>6. /\ "workers" \in up => "async" \in up \/ Spot \in Joining
      /\ "reader" \in up => "watcher" \in up \/ Spot = "halting"
      /\ Call \in Shutdown => Call # "inject" /\ Call # "reload"
      /\ Call \in Shutdown /\ Spot \in {"detach", "unload", "close", "done"} => ~ Unfinished
  BY <1>5, QuietLines
<1>7. Rising' /\ Falling'
  BY <1>2, <1>4, <1>5, <1>6, FollowReload, FollowStop DEF Quiet, Rising, Falling, StoreStays, Shutdown, Joining
<1>8. Serving'
  BY <1>2, <1>4, <1>5, <1>6, FollowReload, FollowStop DEF Quiet, Serving, Full, Shutdown
<1>9. StoreStays'
  BY <1>2, <1>4, <1>5, <1>6, FollowReload, FollowStop DEF Quiet, Falling, StoreStays, Shutdown
<1>10. PluginsStay'
  BY <1>2, <1>4, <1>5, <1>6, FollowReload, FollowStop
     DEF Quiet, Falling, Serving, Full, PluginsStay, Swapping, Shutdown, Unfinished
<1>11. QED
  BY <1>4, <1>5, <1>7, <1>8, <1>9, <1>10 DEF Quiet

LEMMA QuietStopWorkers ==
  ASSUME DaemonInv, Quiet, StopWorkers
  PROVE  Quiet'
<1> DEFINE next == IF "async" \in up THEN "joining" ELSE Follow("join")
           parts == up \ {"async"}
<1>1. Move(Shutdown, "join", next, parts, state)
  BY DEF DaemonInv, TypeOK, StopWorkers, Step, pastVars, Move
<1>2. Last(stack).call \in Shutdown
  BY <1>1, Standing DEF Move
<1>3. next \in StepName
  BY <1>2, FollowReload, FollowStop DEF StepName, Shutdown
<1>4. /\ Spot = "join" /\ Call = Last(stack).call
      /\ Call = "start" <=> phase = "start"
      /\ Call = "destroy" <=> phase = "destroy"
      /\ Call \in {"reload", "stop", "inject"} <=> phase = "exec"
      /\ Len(stack') = 1 /\ Call' = Call /\ Spot' = next
      /\ Unfinished' = Unfinished /\ lines' = lines /\ up' = parts /\ state' = state
      /\ UNCHANGED <<async, phase, quitNow, reloaded>>
  <2> HIDE DEF next, parts
  <2>1. QED
    BY <1>1, <1>3, QuietMove
<1>5. opened' = opened /\ ~ overtaken' /\ Call # "start" /\ stack # <<>>
  BY <1>2, <1>4 DEF StopWorkers, Step, Shutdown, At, pastVars, Quiet
<1>6. /\ "workers" \in up => "async" \in up \/ Spot \in Joining
      /\ "reader" \in up => "watcher" \in up \/ Spot = "halting"
      /\ Call \in Shutdown => Call # "inject" /\ Call # "reload"
      /\ Call \in Shutdown /\ Spot \in {"detach", "unload", "close", "done"} => ~ Unfinished
  BY <1>5, QuietLines
<1>7. Rising' /\ Falling'
  BY <1>2, <1>4, <1>5, <1>6, FollowReload, FollowStop DEF Quiet, Rising, Falling, StoreStays, Shutdown, Joining
<1>8. Serving'
  BY <1>2, <1>4, <1>5, <1>6, FollowReload, FollowStop DEF Quiet, Serving, Full, Shutdown
<1>9. StoreStays'
  BY <1>2, <1>4, <1>5, <1>6, FollowReload, FollowStop DEF Quiet, Falling, StoreStays, Shutdown
<1>10. PluginsStay'
  BY <1>2, <1>4, <1>5, <1>6, FollowReload, FollowStop
     DEF Quiet, Falling, Serving, Full, PluginsStay, Swapping, Shutdown, Unfinished
<1>11. QED
  BY <1>4, <1>5, <1>7, <1>8, <1>9, <1>10 DEF Quiet

LEMMA QuietJoinWorkers ==
  ASSUME DaemonInv, Quiet, JoinWorkers
  PROVE  Quiet'
<1> DEFINE next == "clearing"
           parts == up
<1>1. Move(Shutdown, "joining", next, parts, state)
  BY DEF DaemonInv, TypeOK, JoinWorkers, Step, pastVars, Move
<1>2. Last(stack).call \in Shutdown
  BY <1>1, Standing DEF Move
<1>3. next \in StepName
  BY <1>2, FollowReload, FollowStop DEF StepName, Shutdown
<1>4. /\ Spot = "joining" /\ Call = Last(stack).call
      /\ Call = "start" <=> phase = "start"
      /\ Call = "destroy" <=> phase = "destroy"
      /\ Call \in {"reload", "stop", "inject"} <=> phase = "exec"
      /\ Len(stack') = 1 /\ Call' = Call /\ Spot' = next
      /\ Unfinished' = Unfinished /\ lines' = lines /\ up' = parts /\ state' = state
      /\ UNCHANGED <<async, phase, quitNow, reloaded>>
  <2> HIDE DEF next, parts
  <2>1. QED
    BY <1>1, <1>3, QuietMove
<1>5. opened' = opened /\ ~ overtaken' /\ Call # "start" /\ stack # <<>>
  BY <1>2, <1>4 DEF JoinWorkers, Step, Shutdown, At, pastVars, Quiet
<1>6. /\ "workers" \in up => "async" \in up \/ Spot \in Joining
      /\ "reader" \in up => "watcher" \in up \/ Spot = "halting"
      /\ Call \in Shutdown => Call # "inject" /\ Call # "reload"
      /\ Call \in Shutdown /\ Spot \in {"detach", "unload", "close", "done"} => ~ Unfinished
  BY <1>5, QuietLines
<1>7. Rising' /\ Falling'
  BY <1>2, <1>4, <1>5, <1>6, FollowReload, FollowStop DEF Quiet, Rising, Falling, StoreStays, Shutdown, Joining
<1>8. Serving'
  BY <1>2, <1>4, <1>5, <1>6, FollowReload, FollowStop DEF Quiet, Serving, Full, Shutdown
<1>9. StoreStays'
  BY <1>2, <1>4, <1>5, <1>6, FollowReload, FollowStop DEF Quiet, Falling, StoreStays, Shutdown
<1>10. PluginsStay'
  BY <1>2, <1>4, <1>5, <1>6, FollowReload, FollowStop
     DEF Quiet, Falling, Serving, Full, PluginsStay, Swapping, Shutdown, Unfinished
<1>11. QED
  BY <1>4, <1>5, <1>7, <1>8, <1>9, <1>10 DEF Quiet

LEMMA QuietClearWorkers ==
  ASSUME DaemonInv, Quiet, ClearWorkers
  PROVE  Quiet'
<1> DEFINE next == Follow("join")
           parts == up \ {"workers"}
<1>1. Move(Shutdown, "clearing", next, parts, state)
  BY DEF DaemonInv, TypeOK, ClearWorkers, Step, pastVars, Move
<1>2. Last(stack).call \in Shutdown
  BY <1>1, Standing DEF Move
<1>3. next \in StepName
  BY <1>2, FollowReload, FollowStop DEF StepName, Shutdown
<1>4. /\ Spot = "clearing" /\ Call = Last(stack).call
      /\ Call = "start" <=> phase = "start"
      /\ Call = "destroy" <=> phase = "destroy"
      /\ Call \in {"reload", "stop", "inject"} <=> phase = "exec"
      /\ Len(stack') = 1 /\ Call' = Call /\ Spot' = next
      /\ Unfinished' = Unfinished /\ lines' = lines /\ up' = parts /\ state' = state
      /\ UNCHANGED <<async, phase, quitNow, reloaded>>
  <2> HIDE DEF next, parts
  <2>1. QED
    BY <1>1, <1>3, QuietMove
<1>5. opened' = opened /\ ~ overtaken' /\ Call # "start" /\ stack # <<>>
  BY <1>2, <1>4 DEF ClearWorkers, Step, Shutdown, At, pastVars, Quiet
<1>6. /\ "workers" \in up => "async" \in up \/ Spot \in Joining
      /\ "reader" \in up => "watcher" \in up \/ Spot = "halting"
      /\ Call \in Shutdown => Call # "inject" /\ Call # "reload"
      /\ Call \in Shutdown /\ Spot \in {"detach", "unload", "close", "done"} => ~ Unfinished
  BY <1>5, QuietLines
<1>7. Rising' /\ Falling'
  BY <1>2, <1>4, <1>5, <1>6, FollowReload, FollowStop DEF Quiet, Rising, Falling, StoreStays, Shutdown, Joining
<1>8. Serving'
  BY <1>2, <1>4, <1>5, <1>6, FollowReload, FollowStop DEF Quiet, Serving, Full, Shutdown
<1>9. StoreStays'
  BY <1>2, <1>4, <1>5, <1>6, FollowReload, FollowStop DEF Quiet, Falling, StoreStays, Shutdown
<1>10. PluginsStay'
  BY <1>2, <1>4, <1>5, <1>6, FollowReload, FollowStop
     DEF Quiet, Falling, Serving, Full, PluginsStay, Swapping, Shutdown, Unfinished
<1>11. QED
  BY <1>4, <1>5, <1>7, <1>8, <1>9, <1>10 DEF Quiet

LEMMA QuietDetach ==
  ASSUME DaemonInv, Quiet, Detach
  PROVE  Quiet'
<1> DEFINE next == Follow("detach")
           parts == up \ ({"timer"} \cup IF "adaptor" \in up THEN {"object", "service", "adaptor"} ELSE {})
<1>1. Move(Shutdown, "detach", next, parts, state)
  BY DEF DaemonInv, TypeOK, Detach, Step, pastVars, Move
<1>2. Last(stack).call \in Shutdown
  BY <1>1, Standing DEF Move
<1>3. next \in StepName
  BY <1>2, FollowReload, FollowStop DEF StepName, Shutdown
<1>4. /\ Spot = "detach" /\ Call = Last(stack).call
      /\ Call = "start" <=> phase = "start"
      /\ Call = "destroy" <=> phase = "destroy"
      /\ Call \in {"reload", "stop", "inject"} <=> phase = "exec"
      /\ Len(stack') = 1 /\ Call' = Call /\ Spot' = next
      /\ Unfinished' = Unfinished /\ lines' = lines /\ up' = parts /\ state' = state
      /\ UNCHANGED <<async, phase, quitNow, reloaded>>
  <2> HIDE DEF next, parts
  <2>1. QED
    BY <1>1, <1>3, QuietMove
<1>5. opened' = opened /\ ~ overtaken' /\ Call # "start" /\ stack # <<>>
  BY <1>2, <1>4 DEF Detach, Step, Shutdown, At, pastVars, Quiet
<1>6. /\ "workers" \in up => "async" \in up \/ Spot \in Joining
      /\ "reader" \in up => "watcher" \in up \/ Spot = "halting"
      /\ Call \in Shutdown => Call # "inject" /\ Call # "reload"
      /\ Call \in Shutdown /\ Spot \in {"detach", "unload", "close", "done"} => ~ Unfinished
  BY <1>5, QuietLines
<1>7. Rising' /\ Falling'
  BY <1>2, <1>4, <1>5, <1>6, FollowReload, FollowStop DEF Quiet, Rising, Falling, StoreStays, Shutdown, Joining
<1>8. Serving'
  BY <1>2, <1>4, <1>5, <1>6, FollowReload, FollowStop DEF Quiet, Serving, Full, Shutdown
<1>9. StoreStays'
  BY <1>2, <1>4, <1>5, <1>6, FollowReload, FollowStop DEF Quiet, Falling, StoreStays, Shutdown
<1>10. PluginsStay'
  BY <1>2, <1>4, <1>5, <1>6, FollowReload, FollowStop
     DEF Quiet, Falling, Serving, Full, PluginsStay, Swapping, Shutdown, Unfinished
<1>11. QED
  BY <1>4, <1>5, <1>7, <1>8, <1>9, <1>10 DEF Quiet

LEMMA QuietCloseStore ==
  ASSUME DaemonInv, Quiet, CloseStore
  PROVE  Quiet'
<1> DEFINE next == Follow("close")
           parts == up \ {"store"}
<1>1. Move(Shutdown, "close", next, parts, state)
  BY DEF DaemonInv, TypeOK, CloseStore, Step, pastVars, Move
<1>2. Last(stack).call \in Shutdown
  BY <1>1, Standing DEF Move
<1>3. next \in StepName
  BY <1>2, FollowReload, FollowStop DEF StepName, Shutdown
<1>4. /\ Spot = "close" /\ Call = Last(stack).call
      /\ Call = "start" <=> phase = "start"
      /\ Call = "destroy" <=> phase = "destroy"
      /\ Call \in {"reload", "stop", "inject"} <=> phase = "exec"
      /\ Len(stack') = 1 /\ Call' = Call /\ Spot' = next
      /\ Unfinished' = Unfinished /\ lines' = lines /\ up' = parts /\ state' = state
      /\ UNCHANGED <<async, phase, quitNow, reloaded>>
  <2> HIDE DEF next, parts
  <2>1. QED
    BY <1>1, <1>3, QuietMove
<1>5. opened' = opened /\ ~ overtaken' /\ Call # "start" /\ stack # <<>>
  BY <1>2, <1>4 DEF CloseStore, Step, Shutdown, At, pastVars, Quiet
<1>6. /\ "workers" \in up => "async" \in up \/ Spot \in Joining
      /\ "reader" \in up => "watcher" \in up \/ Spot = "halting"
      /\ Call \in Shutdown => Call # "inject" /\ Call # "reload"
      /\ Call \in Shutdown /\ Spot \in {"detach", "unload", "close", "done"} => ~ Unfinished
  BY <1>5, QuietLines
<1>7. Rising' /\ Falling'
  BY <1>2, <1>4, <1>5, <1>6, FollowReload, FollowStop DEF Quiet, Rising, Falling, StoreStays, Shutdown, Joining
<1>8. Serving'
  BY <1>2, <1>4, <1>5, <1>6, FollowReload, FollowStop DEF Quiet, Serving, Full, Shutdown
<1>9. StoreStays'
  BY <1>2, <1>4, <1>5, <1>6, FollowReload, FollowStop DEF Quiet, Falling, StoreStays, Shutdown
<1>10. PluginsStay'
  BY <1>2, <1>4, <1>5, <1>6, FollowReload, FollowStop
     DEF Quiet, Falling, Serving, Full, PluginsStay, Swapping, Shutdown, Unfinished
<1>11. QED
  BY <1>4, <1>5, <1>7, <1>8, <1>9, <1>10 DEF Quiet

--------------------------------------------------------------------------------
\* The main thread takes up a call or ends one.
LEMMA QuietTurn ==
  ASSUME DaemonInv, Quiet, EnterLoop \/ LeaveLoop \/ ServeReload
  PROVE  Quiet'
<1>1. /\ Unfinished' = Unfinished
      /\ UNCHANGED <<async, up, opened, reloaded, overtaken, lines>>
  BY UnfinishedStays DEF EnterLoop, LeaveLoop, ServeReload, configVars, coreVars, pastVars,
                         lineVars
<1>2. CASE EnterLoop
  <2>1. Call = "start" /\ Spot = "check" /\ phase = "start"
    BY <1>2, Here DEF EnterLoop, Quiet
  <2>2. /\ Len(stack') <= 1 /\ state' = state /\ ~ quitNow'
        /\ \/ state = "FAILED" /\ phase' = "destroy" /\ Call' = "destroy" /\ Spot' = "halt"
           \/ state # "FAILED" /\ phase' = "exec" /\ Call' = "none" /\ Spot' = "none"
    <3>1. state' = state /\ ~ quitNow'
      BY <1>2 DEF EnterLoop, coreVars
    <3>2. CASE state = "FAILED"
      <4>1. phase' = "destroy" /\ stack' = <<Begin("destroy", "halt", "main")>>
        BY <1>2, <3>2 DEF EnterLoop
      <4>2. Len(stack') <= 1 /\ Call' = "destroy" /\ Spot' = "halt"
        BY <4>1 DEF Call, Spot, Begin
      <4>3. QED
        BY <3>1, <3>2, <4>1, <4>2
    <3>3. CASE state # "FAILED"
      <4>1. phase' = "exec" /\ stack' = <<>>
        BY <1>2, <3>3 DEF EnterLoop
      <4>2. QED
        BY <3>1, <3>3, <4>1 DEF Call, Spot
    <3>4. QED
      BY <3>2, <3>3
  <2>3. Rising' /\ Falling' /\ Serving' /\ StoreStays' /\ PluginsStay'
    BY <2>1, <2>2, <1>1 DEF Quiet, Rising, Falling, Serving, StoreStays, PluginsStay, Full,
                            Swapping, Shutdown
  <2>4. QED
    BY <2>2, <2>3, <1>1 DEF Quiet
<1>3. CASE LeaveLoop
  <2>1. Call = "none" /\ Spot = "none" /\ phase = "exec" /\ quitNow
    BY <1>3 DEF LeaveLoop, Idle, Call, Spot
  <2>2. /\ Len(stack') <= 1 /\ state' = state /\ phase' = "destroy"
        /\ Call' = "destroy" /\ Spot' = "halt"
    BY <1>3 DEF LeaveLoop, Call, Spot, Begin, coreVars
  <2>3. Rising' /\ Falling' /\ Serving' /\ StoreStays' /\ PluginsStay'
    BY <2>1, <2>2, <1>1 DEF Quiet, Rising, Falling, Serving, StoreStays, PluginsStay, Full,
                            Swapping, Shutdown
  <2>4. QED
    BY <2>2, <2>3, <1>1 DEF Quiet
<1>4. CASE ServeReload
  <2>1. Call = "none" /\ Spot = "none" /\ phase = "exec" /\ "object" \in up
    BY <1>4 DEF ServeReload, Idle, Call, Spot
  <2>2. /\ Len(stack') <= 1 /\ UNCHANGED <<phase, quitNow>>
        /\ Call' = "reload" /\ Spot' = "flush"
    BY <1>4 DEF ServeReload, Call, Spot, Begin
  <2>3. Rising' /\ Falling' /\ Serving' /\ StoreStays' /\ PluginsStay'
    BY <2>1, <2>2, <1>1 DEF Quiet, Rising, Falling, Serving, StoreStays, PluginsStay, Full,
                            Swapping, Shutdown
  <2>4. QED
    BY <2>2, <2>3, <1>1 DEF Quiet
<1>5. QED
  BY <1>2, <1>3, <1>4

LEMMA QuietSignal ==
  ASSUME DaemonInv, Quiet, ~ anytime, NEW sig \in Signal, Deliver(sig)
  PROVE  Quiet'
<1>1. /\ Unfinished' = Unfinished
      /\ UNCHANGED <<async, phase, quitNow, up, opened, reloaded, overtaken, lines>>
  BY UnfinishedStays DEF Deliver, configVars, pastVars, lineVars
<1>2. stack = <<>> /\ phase = "exec" /\ ~ quitNow /\ Call = "none" /\ Spot = "none"
  BY DEF Deliver, Idle, Call, Spot
<1>3. PICK f \in {Begin("reload", "flush", sig), Begin("stop", "halt", sig)} : stack' = <<f>>
  BY <1>2 DEF Deliver
<1>4. \/ f.call = "reload" /\ f.at = "flush"
      \/ f.call = "stop" /\ f.at = "halt"
  BY DEF Begin
<1>5. /\ Len(stack') <= 1
      /\ \/ Call' = "reload" /\ Spot' = "flush"
         \/ Call' = "stop" /\ Spot' = "halt"
  BY <1>3, <1>4 DEF Call, Spot
<1>6. Rising' /\ Falling' /\ Serving' /\ StoreStays' /\ PluginsStay'
  BY <1>1, <1>2, <1>5 DEF Quiet, Rising, Falling, Serving, StoreStays, PluginsStay, Full,
                          Swapping, Shutdown
<1>7. QED
  BY <1>1, <1>5, <1>6 DEF Quiet

LEMMA QuietEnd ==
  ASSUME DaemonInv, Quiet, EndReload \/ EndStop \/ Exit
  PROVE  Quiet'
<1>1. Unfinished' = Unfinished /\ UNCHANGED <<async, opened, overtaken, lines>>
  BY UnfinishedStays DEF EndReload, EndStop, Exit, configVars, pastVars, lineVars
<1>2. /\ stack # <<>> /\ Len(stack) = 1 /\ stack \in Seq(Frame)
      /\ Call = Last(stack).call /\ Spot = Last(stack).at
      /\ Exit => Call = "destroy" /\ Spot = "done" /\ phase = "destroy"
      /\ EndReload => Call = "reload" /\ Spot \in {"loaded", "empty"} /\ phase = "exec"
      /\ EndStop => Call = "stop" /\ Spot = "done" /\ phase = "exec"
  <2>1. PICK at \in {"loaded", "empty", "done"} :
          At({"reload"}, at) \/ At({"stop"}, at) \/ At({"destroy"}, at)
    BY DEF EndReload, EndStop, Exit
  <2>2. PICK called \in {{"reload"}, {"stop"}, {"destroy"}} : At(called, at)
    BY <2>1
  <2>3. /\ stack # <<>> /\ Len(stack) = 1 /\ stack \in Seq(Frame)
        /\ Call = Last(stack).call /\ Spot = at /\ Last(stack).at = at
        /\ Call = "destroy" <=> phase = "destroy"
        /\ Call \in {"reload", "stop", "inject"} <=> phase = "exec"
    BY <2>2, Here DEF Quiet, At
  <2>4. QED
    BY <2>3 DEF EndReload, EndStop, Exit, At
<1>3. Call \in Shutdown /\ Spot = "done" => ~ Unfinished
  BY <1>2, QuietLines
<1>4. Len(stack') = 0 /\ Call' = "none" /\ Spot' = "none"
  <2>1. CASE Exit
    BY <2>1 DEF Exit, Call, Spot
  <2>2. CASE EndReload \/ EndStop
    <3>1. Len(stack') = 1 - 1 /\ stack' \in Seq(Frame)
      BY <2>2, <1>2, ReturnFacts DEF EndReload, EndStop
    <3>2. stack' = <<>> /\ Len(stack') = 0
      BY <3>1, EmptySeq
    <3>3. QED
      BY <3>2 DEF Call, Spot
  <2>3. QED
    BY <2>1, <2>2
<1>5. CASE EndReload
  <2>1. UNCHANGED <<phase, quitNow, up>> /\ state' = IF Spot = "loaded" THEN "RUNNING" ELSE "FAILED"
    BY <1>2, <1>5 DEF EndReload, Settled
  <2>2. Rising' /\ Falling' /\ Serving' /\ StoreStays' /\ PluginsStay'
    BY <2>1, <1>1, <1>2, <1>4, <1>5 DEF Quiet, Rising, Falling, Serving, StoreStays,
                                        PluginsStay, Full, Swapping, Shutdown
  <2>3. QED
    BY <2>2, <1>1, <1>4 DEF Quiet
<1>6. CASE EndStop
  <2>1. UNCHANGED <<phase, up, reloaded>> /\ quitNow'
    BY <1>2, <1>6 DEF EndStop, QuitHeard, pastVars
  <2>2. Rising' /\ Falling' /\ Serving' /\ StoreStays' /\ PluginsStay'
    BY <2>1, <1>1, <1>2, <1>3, <1>4, <1>6 DEF Quiet, Rising, Falling, Serving, StoreStays,
                                        PluginsStay, Full, Swapping, Shutdown
  <2>3. QED
    BY <2>2, <1>1, <1>4 DEF Quiet
<1>7. CASE Exit
  <2>1. UNCHANGED <<quitNow, reloaded>> /\ up' = up \ {"plugins", "object"} /\ phase' = "exited"
    BY <1>7 DEF Exit, pastVars
  <2>2. Rising' /\ Falling' /\ Serving' /\ StoreStays' /\ PluginsStay'
    BY <2>1, <1>1, <1>2, <1>3, <1>4, <1>7 DEF Quiet, Rising, Falling, Serving, StoreStays,
                                        PluginsStay, Full, Swapping, Shutdown, Unfinished
  <2>3. QED
    BY <2>2, <1>1, <1>4 DEF Quiet
<1>8. QED
  BY <1>5, <1>6, <1>7

\* Requests that come and events that are emitted touch nothing of it.
LEMMA QuietAside ==
  ASSUME DaemonInv, Quiet,
         \/ FlushDestroyed \/ Emit \/ Refuse
         \/ \E i \in 1 .. Len(lines) : PostDestroyed(i)
         \/ \E r \in Request : Ask(r)
         \/ UNCHANGED vars
  PROVE  Quiet'
<1>1. /\ UNCHANGED <<async, stack, quitNow, state, up, opened, reloaded, overtaken, lines>>
      /\ phase' \in {phase, "crashed"}
  BY DEF FlushDestroyed, PostDestroyed, Emit, Refuse, Ask, vars, configVars, processVars,
         coreVars, pastVars, lineVars
<1>2. Call' = Call /\ Spot' = Spot /\ Unfinished' = Unfinished
  BY <1>1, UnfinishedStays DEF Call, Spot
<1>3. Rising' /\ Falling' /\ Serving' /\ StoreStays' /\ PluginsStay'
  BY <1>1, <1>2 DEF Quiet, Rising, Falling, Serving, StoreStays, PluginsStay, Full,
                    Swapping, Shutdown
<1>4. QED
  BY <1>1, <1>3 DEF Quiet
--------------------------------------------------------------------------------
\* A line that is queued now meets the plugins, if they are loaded and no reload flushes.
LEMMA SafeNow ==
  ASSUME DaemonInv, Quiet, Safe
  PROVE  "plugins" \in up /\ ~ Swapping
<1>1. PICK k \in Nat : k = Len(stack)
  BY LenProperties DEF DaemonInv, TypeOK
<1>2. Swapping => /\ stack[1].call = "reload" /\ stack # <<>>
                  /\ stack[1].at \in {"unload", "load", "loaded", "empty"}
  BY DEF Swapping, Call, Spot
<1>3. stack # <<>> => 1 \in 1 .. Len(stack)
  BY <1>1, EmptySeq DEF DaemonInv, TypeOK
<1>4. QED
  BY <1>2, <1>3 DEF Safe, InCall

\* What PluginsStay says of line j.
Met(j) ==
  /\ lines[j].at # "posting" => lines[j].on = "worker"
  /\ lines[j].at = "posting" => ~ lines[j].safe
  /\ lines[j].safe => IF lines[j].at \in {"queued", "begun"} THEN "plugins" \in up /\ ~ Swapping
                      ELSE lines[j].plugins

\* A thread's step with its line.
LEMMA QuietProcess ==
  ASSUME DaemonInv, CallbackFirst, Quiet,
         NEW i \in 1 .. Len(lines), Post(i) \/ Take(i) \/ Snapshot(i) \/ Output(i)
  PROVE  Quiet'
<1>1. /\ Len(lines') = Len(lines)
      /\ \A j \in 1 .. Len(lines) : j # i => lines'[j] = lines[j]
  BY LineFacts
<1>2. /\ UNCHANGED <<async, phase, quitNow, state, up, opened, reloaded, overtaken>>
      /\ lines[i].at # "done"
  BY DEF Post, Take, Snapshot, Output, configVars, processVars, coreVars, pastVars
<1>3. Unfinished /\ lines # <<>> /\ "callback" \in up
  <2>1. lines # <<>>
    OBVIOUS
  <2>2. QED
    BY <2>1, <1>2 DEF Unfinished, CallbackFirst
<1>4. \/ Call' = Call /\ Spot' = Spot /\ Len(stack') <= 1
      \/ Call = "inject" /\ Call' = "none" /\ Spot' = "none" /\ Len(stack') <= 1
  <2>1. CASE UNCHANGED stack
    BY <2>1 DEF Call, Spot, Quiet
  <2>2. CASE (Post(i) \/ Output(i)) /\ lines[i].on = "main"
    <3>1. At({"inject"}, "line") /\ Return
      BY <2>2 DEF Post, Output, MayProcess
    <3>2. Call = "inject" /\ stack' = <<>>
      BY <3>1, Here, Working DEF Quiet
    <3>3. QED
      BY <3>2, EmptySeq DEF Call, Spot
  <2>3. QED
    BY <2>1, <2>2 DEF Post, Take, Snapshot, Output, processVars
<1>5. lines' # <<>>
  BY <1>1, <1>3
<1>6. Rising' /\ Falling' /\ Serving'
  BY <1>2, <1>3, <1>4 DEF Quiet, Rising, Falling, Serving, Full, Shutdown
<1>7. StoreStays'
  <2>1. opened => "store" \in up
    BY <1>3 DEF Quiet, StoreStays
  <2>2. lines'[i].at = "done" => lines'[i].kept = ({"callback", "store"} \subseteq up)
    BY LineEffect
  <2>3. opened => \A j \in 1 .. Len(lines) : lines'[j].at = "done" => lines'[j].kept
    <3> SUFFICES ASSUME opened, NEW j \in 1 .. Len(lines), lines'[j].at = "done"
                 PROVE  lines'[j].kept
      OBVIOUS
    <3>1. CASE j # i
      BY <3>1, <1>1 DEF Quiet, StoreStays
    <3>2. CASE j = i
      BY <3>2, <2>1, <2>2, <1>3
    <3>3. QED
      BY <3>1, <3>2
  <2>4. QED
    BY <2>1, <2>3, <1>1, <1>2 DEF Quiet, StoreStays
<1>8. PluginsStay'
  <2>1. Swapping' = Swapping
    BY <1>4 DEF Swapping
  <2>2. async => \A j \in 1 .. Len(lines) : Met(j)
    BY DEF Quiet, PluginsStay, Met
  <2>3. async => /\ lines'[i].at # "posting" /\ lines'[i].on = "worker"
                 /\ lines'[i].safe =>
                      IF lines'[i].at \in {"queued", "begun"} THEN "plugins" \in up /\ ~ Swapping
                      ELSE lines'[i].plugins
    <3> SUFFICES ASSUME async
                 PROVE  /\ lines'[i].at # "posting" /\ lines'[i].on = "worker"
                        /\ lines'[i].safe =>
                             IF lines'[i].at \in {"queued", "begun"}
                             THEN "plugins" \in up /\ ~ Swapping
                             ELSE lines'[i].plugins
      OBVIOUS
    <3>1. Met(i)
      BY <2>2
    <3>2. CASE Post(i)
      <4>1. lines'[i].at = "queued" /\ lines'[i].on = "worker" /\ (lines'[i].safe => Safe)
        BY <3>2, LineEffect
      <4>2. QED
        BY <4>1, SafeNow
    <3>3. CASE Take(i)
      BY <3>1, <3>3, LineEffect DEF Met
    <3>4. CASE Snapshot(i)
      BY <3>1, <3>4, LineEffect DEF Met
    <3>5. CASE Output(i)
      BY <3>1, <3>5, LineEffect DEF Met
    <3>6. QED
      BY <3>2, <3>3, <3>4, <3>5
  <2>4. async => \A j \in 1 .. Len(lines) : Met(j)'
    <3> SUFFICES ASSUME async, NEW j \in 1 .. Len(lines) PROVE Met(j)'
      OBVIOUS
    <3>1. CASE j # i
      BY <3>1, <2>1, <2>2, <1>1, <1>2 DEF Met
    <3>2. CASE j = i
      BY <3>2, <2>1, <2>3, <1>2 DEF Met
    <3>3. QED
      BY <3>1, <3>2
  <2>5. QED
    BY <2>4, <1>1, <1>2 DEF Quiet, PluginsStay, Met
<1>9. QED
  BY <1>2, <1>4, <1>6, <1>7, <1>8 DEF Quiet

\* A line comes in: while the watcher runs, or on the request of a client.
LEMMA QuietAccept ==
  ASSUME DaemonInv, Quiet, Read \/ ServeInject
  PROVE  Quiet'
<1>1. PICK thread \in {"watcher", "main"} : Accept(thread)
  BY DEF Read, ServeInject
<1>2. PICK n \in Nat : n = Len(lines)
  BY <1>1, AcceptFacts
<1>3. /\ Len(lines') = n + 1 /\ \A j \in 1 .. n : lines'[j] = lines[j]
      /\ lines'[n + 1].at = IF "async" \in up THEN "posting" ELSE "begun"
      /\ ~ lines'[n + 1].safe
  BY <1>1, <1>2, AcceptFacts
<1>4. \A j \in 1 .. n + 1 : j \in 1 .. n \/ j = n + 1
  BY <1>2
<1>5. UNCHANGED <<async, phase, quitNow, state, up, opened, reloaded, overtaken>>
  BY DEF Read, ServeInject, configVars, processVars, coreVars, pastVars
<1>6. /\ Len(stack') <= 1
      /\ \/ Read /\ "reader" \in up /\ Call' = Call /\ Spot' = Spot /\ Alive
         \/ /\ Call = "none" /\ phase = "exec" /\ "object" \in up
            /\ Call' = "inject" /\ Spot' = "line"
  <2>1. CASE Read
    BY <2>1 DEF Read, Call, Spot, Quiet, processVars
  <2>2. CASE ServeInject
    BY <2>2 DEF ServeInject, Idle, Call, Spot, Begin
  <2>3. QED
    BY <2>1, <2>2
<1>7. Rising' /\ Falling' /\ Serving'
  <2>1. ~ (phase = "exec" /\ quitNow)
    BY <1>6 DEF Quiet, Serving
  <2>2. Rising'
    BY <1>5, <1>6 DEF Quiet, Rising, Full
  <2>3. Falling'
    BY <1>5, <1>6 DEF Quiet, Falling, Shutdown
  <2>4. Serving'
    <3>1. CASE Read /\ Call' = Call /\ Spot' = Spot
      BY <3>1, <2>1, <1>5 DEF Quiet, Serving, Full
    <3>2. CASE Call = "none" /\ Call' = "inject"
      BY <3>2, <2>1, <1>5 DEF Quiet, Serving, Full
    <3>3. QED
      BY <3>1, <3>2, <1>6
  <2>5. QED
    BY <2>2, <2>3, <2>4
<1>8. StoreStays'
  <2>1. \A j \in 1 .. n + 1 : lines'[j].at = "done" => j \in 1 .. n /\ lines'[j] = lines[j]
    BY <1>3, <1>4
  <2>2. QED
    BY <2>1, <1>2, <1>3, <1>5, <1>6 DEF Quiet, StoreStays
<1>9. PluginsStay'
  <2>1. async => "async" \in up
    BY <1>6 DEF Quiet, PluginsStay, Serving, Full
  <2>2. Swapping' => Swapping
    BY <1>6 DEF Swapping
  <2>3. async => \A j \in 1 .. n + 1 : Met(j)'
    <3> SUFFICES ASSUME async, NEW j \in 1 .. n + 1 PROVE Met(j)'
      OBVIOUS
    <3>1. CASE j \in 1 .. n
      <4>1. Met(j)
        BY <3>1, <1>2 DEF Quiet, PluginsStay, Met
      <4>2. QED
        BY <3>1, <4>1, <2>2, <1>3, <1>5 DEF Met
    <3>2. CASE j = n + 1
      BY <3>2, <2>1, <1>3 DEF Met
    <3>3. QED
      BY <3>1, <3>2, <1>4
  <2>4. QED
    BY <2>1, <2>3, <1>3, <1>5 DEF PluginsStay, Met
<1>10. QED
  BY <1>5, <1>6, <1>7, <1>8, <1>9 DEF Quiet

--------------------------------------------------------------------------------
LEMMA QuietNext ==
  ASSUME DaemonInv, CallbackFirst, Quiet, ~ anytime, [Next]_vars
  PROVE  Quiet'
<1>1. CASE Start
  BY <1>1, QuietLoadPlugins, QuietRegisterService, QuietRegisterObject, QuietOpenStore,
     QuietStartWorkers, QuietAdopt, QuietStartWatcher, QuietRun, QuietTurn DEF Start
<1>2. CASE Flush
  BY <1>2, QuietEnterFlush, QuietLeaveFlush, QuietUnload, QuietEnd, QuietAside DEF Flush
<1>3. CASE DoStop
  BY <1>3, QuietHalt, QuietJoinWatcher, QuietStopWorkers, QuietJoinWorkers,
     QuietClearWorkers, QuietDetach, QuietCloseStore, QuietEnd DEF DoStop
<1>4. CASE Serve
  BY <1>4, QuietAside, QuietTurn, QuietAccept DEF Serve
<1>5. CASE \E thread \in {"main", "worker", "watcher"} : Process(thread)
  BY <1>5, QuietProcess, QuietAside DEF Process
<1>6. QED
  BY <1>1, <1>2, <1>3, <1>4, <1>5, QuietAccept, QuietAside, QuietSignal DEF Next, Main

LEMMA ServiceInit == Init => ServiceInv
<1> SUFFICES ASSUME Init PROVE ServiceInv
  OBVIOUS
<1>1. Len(stack) = 1 /\ Call = "start" /\ Spot = "load"
  BY DEF Init, Call, Spot, Begin
<1>2. Len(lines) = 0 /\ ~ Unfinished
  BY DEF Init, Unfinished
<1>3. CallbackFirst
  BY <1>1, <1>2 DEF Init, CallbackFirst
<1>4. Rising /\ Falling /\ Serving /\ StoreStays /\ PluginsStay
  BY <1>1, <1>2 DEF Init, Rising, Falling, Serving, StoreStays, PluginsStay, Full, Shutdown
<1>5. QED
  BY <1>1, <1>3, <1>4 DEF Init, ServiceInv, Quiet

LEMMA ServiceNext == DaemonInv /\ ServiceInv /\ [Next]_vars => ServiceInv'
<1> SUFFICES ASSUME DaemonInv, ServiceInv, [Next]_vars PROVE ServiceInv'
  OBVIOUS
<1>1. anytime' = anytime
  BY DEF Next, Main, Start, Flush, DoStop, Serve, Process, LoadPlugins, RegisterService,
         RegisterObject, OpenStore, StartWorkers, Adopt, StartWatcher, Run, EnterLoop,
         EnterFlush, LeaveFlush, FlushDestroyed, Unload, EndReload, Halt, JoinWatcher,
         StopWorkers, JoinWorkers, ClearWorkers, Detach, CloseStore, EndStop, Exit, Emit,
         Refuse, ServeReload, ServeInject, LeaveLoop, Post, PostDestroyed, Take, Snapshot,
         Output, Read, Ask, Deliver, Step, vars, configVars
<1>2. CallbackFirst'
  BY CallbackNext DEF ServiceInv
<1>3. ~ anytime => Quiet'
  BY QuietNext DEF ServiceInv
<1>4. QED
  BY <1>1, <1>2, <1>3 DEF ServiceInv

LEMMA ServiceMeans ==
  ASSUME DaemonInv, ServiceInv
  PROVE  LinesAreServed /\ StatusIsTrue
<1>1. LinesAreServed
  <2> SUFFICES ASSUME NEW i \in 1 .. Len(lines), lines[i].at = "done"
               PROVE  /\ lines[i].out
                      /\ ~ anytime => /\ opened => lines[i].kept
                                      /\ async /\ lines[i].safe => lines[i].plugins
    BY DEF LinesAreServed
  <2>1. lines[i].out
    BY DEF ServiceInv, CallbackFirst
  <2>2. ~ anytime /\ opened => lines[i].kept
    BY DEF ServiceInv, Quiet, StoreStays
  <2>3. ~ anytime /\ async /\ lines[i].safe => lines[i].plugins
    BY DEF ServiceInv, Quiet, PluginsStay
  <2>4. QED
    BY <2>1, <2>2, <2>3
<1>2. TypeOK
  BY DEF DaemonInv
<1>3. Idle /\ "object" \in up /\ ~ anytime =>
        /\ state \in {"RUNNING", "FAILED"}
        /\ {"service", "callback", "adaptor", "watcher", "timer"} \subseteq up
        /\ state = "FAILED" => "plugins" \notin up
        /\ reloaded /\ "plugins" \notin up => state = "FAILED"
        /\ async <=> "workers" \in up
  <2> SUFFICES ASSUME Idle, "object" \in up, Quiet
               PROVE  /\ state \in {"RUNNING", "FAILED"}
                      /\ {"service", "callback", "adaptor", "watcher", "timer"} \subseteq up
                      /\ state = "FAILED" => "plugins" \notin up
                      /\ reloaded /\ "plugins" \notin up => state = "FAILED"
                      /\ async <=> "workers" \in up
    BY DEF ServiceInv
  <2>1. phase = "exec" /\ Call = "none" /\ ~ quitNow
    BY DEF Idle, Call, Quiet, Serving
  <2>2. QED
    BY <2>1 DEF Quiet, Serving, Full
<1>4. QED
  BY <1>1, <1>2, <1>3 DEF StatusIsTrue

\* Every line that is processed finds the output callback, whatever signals interrupt;
\* if signals only come while main waits, also the vector store if it could be opened,
\* and with workers the plugins that were loaded when it was accepted: start() sets the
\* callback and opens the store before lines come in, reload_plugins() flushes before it
\* swaps, do_stop() drains before it unloads and closes (daemon_core.cpp).
THEOREM LinesAreAlwaysServed == Spec => []LinesAreServed
<1>1. Init => DaemonInv /\ ServiceInv
  BY InitInv, ServiceInit
<1>2. (DaemonInv /\ ServiceInv) /\ [Next]_vars => (DaemonInv /\ ServiceInv)'
  BY NextInv, ServiceNext
<1>3. DaemonInv /\ ServiceInv => LinesAreServed
  BY ServiceMeans
<1>4. QED
  BY <1>1, <1>2, <1>3, PTL DEF Spec

\* Whoever asks for the status while the event loop is free reads RUNNING or FAILED, and
\* either is true: everything start() brings up is up, FAILED means no plugins, and after
\* a reload no plugins means FAILED (GetStatus, reload_plugins() in daemon_core.cpp).
THEOREM StatusIsAlwaysTrue == Spec => []StatusIsTrue
<1>1. Init => DaemonInv /\ ServiceInv
  BY InitInv, ServiceInit
<1>2. (DaemonInv /\ ServiceInv) /\ [Next]_vars => (DaemonInv /\ ServiceInv)'
  BY NextInv, ServiceNext
<1>3. DaemonInv /\ ServiceInv => StatusIsTrue
  BY ServiceMeans
<1>4. QED
  BY <1>1, <1>2, <1>3, PTL DEF Spec
================================================================================
