---------------------------- MODULE FileWatcherProofs --------------------------
(***************************************************************************)
(* Proofs about FileWatcher for any lines, limit, length of the kernel's   *)
(* queue and number of rotations, when rotations and the start are quiet.  *)
(* The invariant says what the kernel's queue can hold (Queue), how a      *)
(* file's text is made (WellWritten), and when the watcher's record is in  *)
(* step with the file at the path or is about to be thrown away (Sync).    *)
(***************************************************************************)
EXTENDS FileWatcher, SequenceTheorems, WellFoundedInduction, TLAPS

\* Rotations and the start of the daemon do not race with the application.
Quiet == QuietRotation /\ QuietStart

\* Files come in the order of their numbers: none exists after the one at the path, and the
\* watcher and the application know none that does not exist.
Ages ==
  /\ at <= rotations + 1
  /\ \A i \in Inode : (IF at = 0 THEN rotations ELSE at) < i => content[i] = <<>>
  /\ inode <= (IF at = 0 THEN rotations ELSE at)
  /\ writer <= (IF at = 0 THEN rotations ELSE at)

\* What the watcher's record says of itself.
Record ==
  /\ inode # 0 => tracked
  /\ inode = 0 => offset = 0 /\ pending = <<>>
  /\ pc = "new" => inode = 0
  /\ pc = "primed" => inode \in {0, at}
  /\ pc \in {"stat", "read"} => drains \in 1 .. 2

\* The file at the path was replaced by one that the watcher has yet to hear of.
Turnover == \E i \in 1 .. Len(events) : events[i] \in {"remove", "create"}

\* What can be in the kernel's queue, and where.
Queue ==
  /\ mode = "poll" \/ ~ Watched => events = <<>>
  /\ Len(events) > MaxQueue => events[Len(events)] = "overflow"
  /\ \A i \in 1 .. Len(events) :
       /\ events[i] = "remove" => i = 1
       /\ events[i] = "create" => i = 1 \/ (i = 2 /\ events[1] = "remove")
  /\ Turnover => pc = "idle"

\* Where the watcher is when there is no file at the path, and when it is about to read one.
Position ==
  /\ at = 0 /\ mode # "poll" /\ Watched =>
       pc = "idle" /\ (events = <<>> \/ (Len(events) = 1 /\ events[1] = "remove"))
  /\ at = 0 => pc # "read"
  /\ pc = "read" => inode = at /\ offset < Len(content[at])
  /\ pc \in {"new", "primed"} <=> mode = "none"

Shape == TypeOK /\ Ages /\ Record /\ Queue /\ Position

--------------------------------------------------------------------------------
\* The cells of the lines.
LEMMA CellParts ==
  ASSUME NEW c \in Cell
  PROVE  /\ c = [line |-> c.line, part |-> c.part]
         /\ c.line \in 1 .. MaxLines /\ c.part \in 1 .. Parts[c.line]
BY DEF Cell

\* Every part of every line is a cell.
LEMMA CellMade ==
  ASSUME NEW n \in 1 .. MaxLines, NEW p \in 1 .. Parts[n]
  PROVE  [line |-> n, part |-> p] \in Cell
<1>1. [line |-> n, part |-> p] \in [line : {n}, part : 1 .. Parts[n]]
  OBVIOUS
<1>2. QED
  BY <1>1 DEF Cell

\* Numbers among the constants.
LEMMA Numbers ==
  /\ LineLimit \in Nat \ {0} /\ MaxQueue \in Nat \ {0} /\ MaxLines \in Nat \ {0}
  /\ MaxRotations \in Nat
  /\ \A n \in 1 .. MaxLines : Parts[n] \in Nat \ {0}
BY BoundsAssumption

\* What an event does to the kernel's queue: nothing, or it or an overflow is appended.
LEMMA EnqueueEffect ==
  ASSUME Shape, NEW e \in {"modify", "create", "remove"}, Enqueue(e)
  PROVE  \/ /\ events' = events
            /\ \/ mode = "poll" \/ ~ Watched
               \/ Len(events) > 0 /\ events[Len(events)] \in {e, "overflow"}
         \/ \E f \in {e, "overflow"} :
              /\ mode # "poll" /\ Watched
              /\ events' \in Seq({"modify", "create", "remove", "overflow"})
              /\ Len(events') = Len(events) + 1 /\ Len(events) <= MaxQueue
              /\ \A i \in 1 .. Len(events) : events'[i] = events[i]
              /\ events'[Len(events) + 1] = f
              /\ f = IF Len(events) < MaxQueue THEN e ELSE "overflow"
<1> DEFINE Kind == {"modify", "create", "remove", "overflow"}
<1>1. events \in Seq(Kind) /\ Len(events) \in Nat
  BY LenProperties DEF Shape, TypeOK
<1>2. events # <<>> => Len(events) > 0
  BY <1>1, EmptySeq
<1>3. CASE mode = "poll" \/ ~ Watched \/ (events # <<>> /\ Last(events) \in {e, "overflow"})
  BY <1>2, <1>3 DEF Enqueue, Last
<1>4. CASE ~ (mode = "poll" \/ ~ Watched
              \/ (events # <<>> /\ Last(events) \in {e, "overflow"}))
  <2> DEFINE f == IF Len(events) < MaxQueue THEN e ELSE "overflow"
  <2>1. events' = Append(events, f) /\ f \in Kind
    BY <1>4 DEF Enqueue
  <2>2. Len(events) <= MaxQueue
    <3>1. events # <<>> => events[Len(events)] # "overflow"
      BY <1>4 DEF Last
    <3>2. Len(events) > MaxQueue => events # <<>>
      BY <1>1, Numbers, EmptySeq
    <3>3. QED
      BY <1>1, <3>1, <3>2, Numbers DEF Shape, Queue
  <2> HIDE DEF f, Kind
  <2>3. /\ events' \in Seq(Kind) /\ Len(events') = Len(events) + 1
        /\ \A i \in 1 .. Len(events) : events'[i] = events[i]
        /\ events'[Len(events) + 1] = f
    BY <1>1, <2>1, AppendProperties
  <2>4. QED
    BY <1>4, <2>2, <2>3 DEF f, Kind
<1>5. QED
  BY <1>3, <1>4

\* A change of the file's text is no turnover, and keeps what is said of the queue.
LEMMA ModifyKeepsQueue ==
  ASSUME Shape, Enqueue("modify") \/ UNCHANGED events, UNCHANGED <<pc, mode>>
  PROVE  /\ events' \in Seq({"modify", "create", "remove", "overflow"})
         /\ Len(events') <= MaxQueue + 1
         /\ Queue'
         /\ Turnover' <=> Turnover
<1>1. /\ events \in Seq({"modify", "create", "remove", "overflow"}) /\ Len(events) \in Nat
      /\ Len(events) <= MaxQueue + 1
  BY LenProperties DEF Shape, TypeOK
<1>2. CASE UNCHANGED events
  BY <1>1, <1>2 DEF Shape, Queue, Turnover, Watched
<1>3. CASE Enqueue("modify") /\ ~ UNCHANGED events
  <2>1. PICK f \in {"modify", "overflow"} :
              /\ mode # "poll" /\ Watched
              /\ events' \in Seq({"modify", "create", "remove", "overflow"})
              /\ Len(events') = Len(events) + 1 /\ Len(events) <= MaxQueue
              /\ \A i \in 1 .. Len(events) : events'[i] = events[i]
              /\ events'[Len(events) + 1] = f
              /\ f = IF Len(events) < MaxQueue THEN "modify" ELSE "overflow"
    BY <1>3, EnqueueEffect
  <2>2. \A i \in 1 .. Len(events') : i \in 1 .. Len(events) \/ i = Len(events) + 1
    BY <1>1, <2>1
  <2>3. Turnover' <=> Turnover
    BY <1>1, <2>1, <2>2 DEF Turnover
  <2>4. Len(events') > MaxQueue => events'[Len(events')] = "overflow"
    BY <1>1, <2>1, Numbers
  <2>5. \A i \in 1 .. Len(events') :
          /\ events'[i] = "remove" => i = 1
          /\ events'[i] = "create" => i = 1 \/ (i = 2 /\ events'[1] = "remove")
    <3> SUFFICES ASSUME NEW i \in 1 .. Len(events')
                 PROVE  /\ events'[i] = "remove" => i = 1
                        /\ events'[i] = "create" => i = 1 \/ (i = 2 /\ events'[1] = "remove")
      OBVIOUS
    <3>1. CASE i \in 1 .. Len(events)
      <4>1. 1 \in 1 .. Len(events)
        BY <1>1, <3>1
      <4>2. QED
        BY <2>1, <3>1, <4>1 DEF Shape, Queue
    <3>2. CASE i = Len(events) + 1
      BY <2>1, <3>2
    <3>3. QED
      BY <2>2, <3>1, <3>2
  <2>6. Queue'
    BY <2>1, <2>3, <2>4, <2>5 DEF Shape, Queue, Watched
  <2>7. Len(events') <= MaxQueue + 1
    BY <1>1, <2>1, Numbers
  <2>8. QED
    BY <2>1, <2>3, <2>6, <2>7
<1>4. QED
  BY <1>2, <1>3

\* Handling an event takes the first off the queue.
LEMMA TailKeepsQueue ==
  ASSUME Shape, events # <<>>, pc = "idle", events' = Tail(events),
         UNCHANGED mode, pc' \in {"idle", "stat"},
         Head(events) \in {"remove"} => pc' = "idle"
  PROVE  /\ events' \in Seq({"modify", "create", "remove", "overflow"})
         /\ Len(events') <= MaxQueue + 1
         /\ Queue'
         /\ Head(events) # "remove" => ~ Turnover'
         /\ Turnover' => Turnover
         /\ Head(events) = events[1] /\ Len(events) \in Nat \ {0}
         /\ Len(events) = 1 => events' = <<>>
         /\ at # 0 \/ (Len(events) = 1 /\ Head(events) = "remove")
<1> DEFINE Kind == {"modify", "create", "remove", "overflow"}
<1>1. events \in Seq(Kind) /\ Len(events) <= MaxQueue + 1
  BY DEF Shape, TypeOK
<1>2. /\ events' \in Seq(Kind) /\ Len(events) \in Nat \ {0} /\ Len(events') = Len(events) - 1
      /\ \A i \in 1 .. Len(events') : events'[i] = events[i + 1]
      /\ Head(events) = events[1]
  BY <1>1, HeadTailProperties, EmptySeq
<1>3. mode # "poll" /\ Watched
  BY DEF Shape, Queue
<1>4. ASSUME NEW i \in 1 .. Len(events')
      PROVE  /\ events'[i] # "remove"
             /\ events'[i] = "create" => i = 1 /\ events[1] = "remove"
  <2>1. i + 1 \in 1 .. Len(events) /\ events'[i] = events[i + 1]
    BY <1>2
  <2>2. QED
    BY <2>1 DEF Shape, Queue
<1>5. Len(events') > MaxQueue => events'[Len(events')] = "overflow"
  BY <1>1, <1>2, Numbers
<1>6. Head(events) # "remove" => ~ Turnover'
  BY <1>2, <1>4 DEF Turnover
<1>7. Turnover' => Turnover
  <2> SUFFICES ASSUME Turnover' PROVE Turnover
    OBVIOUS
  <2>1. PICK i \in 1 .. Len(events') : events'[i] \in {"remove", "create"}
    BY DEF Turnover
  <2>2. i + 1 \in 1 .. Len(events) /\ events'[i] = events[i + 1]
    BY <1>2
  <2>3. QED
    BY <2>1, <2>2 DEF Turnover
<1>8. Queue'
  <2>1. Watched'
    BY DEF Watched
  <2>2. Turnover' => pc' = "idle"
    BY <1>6
  <2>3. QED
    BY <1>3, <1>4, <1>5, <2>1, <2>2 DEF Queue
<1>9. Len(events) = 1 => events' = <<>>
  BY <1>2, EmptySeq
<1>10. at # 0 \/ (Len(events) = 1 /\ Head(events) = "remove")
  BY <1>2, <1>3 DEF Shape, Position
<1>11. Len(events') <= MaxQueue + 1
  BY <1>1, <1>2, Numbers
<1>12. QED
  BY <1>2, <1>6, <1>7, <1>8, <1>9, <1>10, <1>11

\* The first state.
LEMMA ShapeInit == Init => Shape
<1> SUFFICES ASSUME Init PROVE Shape
  OBVIOUS
<1>1. Len(<<>>) = 0 /\ \A S : <<>> \in Seq(S)
  BY EmptySeq
<1>3. 0 \in Inode \cup {0} /\ 1 \in Inode \cup {0}
  BY Numbers DEF Inode
<1>4. [line |-> 1, part |-> 1] \in Cell
  BY CellMade, Numbers
<1>5. TypeOK
  <2>1. content \in [Inode -> Seq(Cell)]
    BY <1>1 DEF Init
  <2>2. {at, writer, inode} \subseteq Inode \cup {0}
    BY <1>3 DEF Init
  <2>3. events \in Seq({"modify", "create", "remove", "overflow"})
        /\ pending \in Seq(Cell) /\ delivered \in Seq(Cell) /\ Len(events) <= MaxQueue + 1
    BY <1>1, Numbers DEF Init
  <2>4. ends \subseteq DOMAIN delivered /\ due \in SUBSET (1 .. MaxLines)
    BY DEF Init
  <2>5. next \in Cell
    BY <1>4 DEF Init
  <2>6. rotations \in 0 .. MaxRotations /\ offset \in Nat /\ drains \in 0 .. 2
    <3>1. 0 \in 0 .. MaxRotations
      BY Numbers
    <3>2. QED
      BY <3>1 DEF Init
  <2>7. mode = "none" /\ pc = "new" /\ tracked \in BOOLEAN
    BY DEF Init
  <2>8. QED
    BY <2>1, <2>2, <2>3, <2>4, <2>5, <2>6, <2>7 DEF TypeOK
<1>6. ~ Turnover
  BY <1>1 DEF Init, Turnover
<1>7. QED
  BY <1>1, <1>5, <1>6, Numbers
     DEF Shape, Init, Ages, Record, Queue, Position, Inode, Watched

\* A quiet writer writes to the file at the path only.
LEMMA ShapeWrite ==
  ASSUME Quiet, Shape, Write
  PROVE  Shape'
<1>1. /\ writer = at /\ at \in Inode /\ next.line <= MaxLines
      /\ content' = [content EXCEPT ![at] = Append(@, next)]
      /\ next' = IF Newline(next) THEN [line |-> next.line + 1, part |-> 1]
                 ELSE [next EXCEPT !.part = @ + 1]
      /\ UNCHANGED <<at, writer, rotations, mode, pc, drains, stateVars, givenVars>>
      /\ Enqueue("modify") \/ UNCHANGED events
  BY DEF Write, MayWrite, Quiet, Shape, TypeOK
<1>2. next \in Cell
  BY <1>1, Numbers DEF Shape, TypeOK
<1>3. next.line \in 1 .. MaxLines /\ next.part \in 1 .. Parts[next.line]
      /\ next = [line |-> next.line, part |-> next.part]
  BY <1>2, CellParts
<1>4. next' \in Cell \cup {[line |-> MaxLines + 1, part |-> 1]}
  <2>1. CASE Newline(next)
    <3>1. next' = [line |-> next.line + 1, part |-> 1]
      BY <1>1, <2>1
    <3>2. CASE next.line = MaxLines
      BY <3>1, <3>2
    <3>3. CASE next.line # MaxLines
      <4>1. next.line + 1 \in 1 .. MaxLines
        BY <1>3, <3>3, Numbers
      <4>2. 1 \in 1 .. Parts[next.line + 1]
        BY <4>1, Numbers
      <4>3. QED
        BY <3>1, <4>1, <4>2, CellMade
    <3>4. QED
      BY <3>2, <3>3
  <2>2. CASE ~ Newline(next)
    <3>1. next' = [line |-> next.line, part |-> next.part + 1]
      BY <1>1, <1>3, <2>2
    <3>2. next.part # Parts[next.line]
      BY <2>2 DEF Newline
    <3>3. next.part + 1 \in 1 .. Parts[next.line]
      BY <1>3, <3>2, Numbers
    <3>4. QED
      BY <1>3, <3>1, <3>3, CellMade
  <2>3. QED
    BY <2>1, <2>2
<1>5. /\ content' \in [Inode -> Seq(Cell)]
      /\ \A i \in Inode : i # at => content'[i] = content[i]
      /\ Len(content'[at]) = Len(content[at]) + 1 /\ Len(content[at]) \in Nat
  <2>1. content \in [Inode -> Seq(Cell)] /\ content[at] \in Seq(Cell)
    BY <1>1 DEF Shape, TypeOK
  <2>2. Append(content[at], next) \in Seq(Cell)
        /\ Len(Append(content[at], next)) = Len(content[at]) + 1
    BY <1>2, <2>1, AppendProperties
  <2>3. content'[at] = Append(content[at], next)
    BY <1>1, <2>1
  <2>4. Len(content[at]) \in Nat
    BY <2>1, LenProperties
  <2>5. QED
    BY <1>1, <2>1, <2>2, <2>3, <2>4
<1>6. due' \in SUBSET (1 .. MaxLines)
  BY <1>3 DEF Write, Shape, TypeOK
<1>7. /\ events' \in Seq({"modify", "create", "remove", "overflow"})
      /\ Len(events') <= MaxQueue + 1 /\ Queue'
  BY <1>1, ModifyKeepsQueue
<1>8. TypeOK'
  BY <1>1, <1>4, <1>5, <1>6, <1>7 DEF Shape, TypeOK, stateVars, givenVars
<1>9. Ages'
  BY <1>1, <1>5 DEF Shape, Ages, stateVars, Inode
<1>10. Record'
  BY <1>1 DEF Shape, Record, stateVars
<1>11. Position'
  <2>1. at # 0
    BY <1>1 DEF Inode
  <2>2. pc = "read" => inode = at /\ offset < Len(content'[at])
    BY <1>5 DEF Shape, Position, TypeOK
  <2>3. QED
    BY <1>1, <2>1, <2>2 DEF Shape, Position, stateVars
<1>12. QED
  BY <1>7, <1>8, <1>9, <1>10, <1>11 DEF Shape

\* The application opens the new file.
LEMMA ShapeReopen ==
  ASSUME Shape, Reopen
  PROVE  Shape'
<1>1. /\ at \in Inode /\ writer' = at
      /\ next' = IF next.part = 1 THEN next ELSE [line |-> next.line + 1, part |-> 1]
      /\ UNCHANGED <<content, at, rotations, mode, events, pc, drains, stateVars,
                     givenVars, due>>
  BY DEF Reopen, Shape, TypeOK
<1>2. next' \in Cell \cup {[line |-> MaxLines + 1, part |-> 1]}
  <2>1. CASE next.part = 1
    BY <1>1, <2>1 DEF Shape, TypeOK
  <2>2. CASE next.part # 1
    <3>1. next \in Cell
      BY <2>2 DEF Shape, TypeOK
    <3>2. next.line \in 1 .. MaxLines
      BY <3>1, CellParts
    <3>3. next' = [line |-> next.line + 1, part |-> 1]
      BY <1>1, <2>2
    <3>4. CASE next.line = MaxLines
      BY <3>3, <3>4
    <3>5. CASE next.line # MaxLines
      <4>1. next.line + 1 \in 1 .. MaxLines
        BY <3>2, <3>5, Numbers
      <4>2. 1 \in 1 .. Parts[next.line + 1]
        BY <4>1, Numbers
      <4>3. QED
        BY <3>3, <4>1, <4>2, CellMade
    <3>6. QED
      BY <3>4, <3>5
  <2>3. QED
    BY <2>1, <2>2
<1>3. TypeOK'
  BY <1>1, <1>2 DEF Shape, TypeOK, stateVars, givenVars
<1>4. Ages'
  BY <1>1 DEF Shape, Ages, stateVars, Inode
<1>5. QED
  BY <1>1, <1>3, <1>4
     DEF Shape, Record, Queue, Position, Turnover, Watched, stateVars

\* What CaughtUp says.
LEMMA QuietRotate ==
  ASSUME Quiet, Shape, NEW how, MayRotate(how)
  PROVE  /\ at \in Inode /\ rotations < MaxRotations
         /\ pc = "idle" /\ events = <<>> /\ Len(events) = 0
         /\ tracked /\ inode = at /\ offset = Len(content[at])
<1>1. /\ at \in Inode /\ at # 0 /\ rotations < MaxRotations /\ CaughtUp
  BY DEF MayRotate, Quiet, Shape, TypeOK
<1>2. QED
  BY <1>1, EmptySeq DEF CaughtUp

\* The file leaves the path, with nothing in the queue.
LEMMA ShapeUnlink ==
  ASSUME Quiet, Shape, NEW how, Unlink(how)
  PROVE  Shape'
<1>1. /\ at' = 0 /\ rotations' = rotations + 1 /\ Enqueue("remove")
      /\ UNCHANGED <<content, writer, next, mode, pc, drains, stateVars, givenVars, due>>
  BY DEF Unlink
<1>2. /\ at \in Inode /\ rotations < MaxRotations /\ pc = "idle" /\ events = <<>>
      /\ Len(events) = 0 /\ inode = at
  BY QuietRotate DEF Unlink
<1>3. rotations \in 0 .. MaxRotations /\ at <= rotations + 1
  BY DEF Shape, TypeOK, Ages
<1>4. /\ events' \in Seq({"modify", "create", "remove", "overflow"})
      /\ \/ events' = <<>> /\ mode = "poll"
         \/ mode # "poll" /\ Len(events') = 1 /\ events'[1] = "remove"
  <2>1. Watched
    BY <1>2 DEF Watched
  <2>2. CASE events' = events /\ mode = "poll"
    BY <1>2, <2>2 DEF Shape, TypeOK
  <2>3. CASE \E f \in {"remove", "overflow"} :
              /\ mode # "poll" /\ Watched
              /\ events' \in Seq({"modify", "create", "remove", "overflow"})
              /\ Len(events') = Len(events) + 1 /\ Len(events) <= MaxQueue
              /\ \A i \in 1 .. Len(events) : events'[i] = events[i]
              /\ events'[Len(events) + 1] = f
              /\ f = IF Len(events) < MaxQueue THEN "remove" ELSE "overflow"
    BY <1>2, <2>3, Numbers
  <2>4. QED
    BY <1>1, <1>2, <2>1, <2>2, <2>3, EnqueueEffect
<1>5. Len(events') <= 1 /\ Len(events') \in Nat /\ (events' = <<>> \/ Len(events') = 1)
  BY <1>4, EmptySeq, LenProperties
<1>6. TypeOK'
  <2>1. rotations' \in 0 .. MaxRotations
    BY <1>1, <1>2, <1>3, Numbers
  <2>2. Len(events') <= MaxQueue + 1
    BY <1>5, Numbers
  <2>3. QED
    BY <1>1, <1>2, <1>4, <2>1, <2>2 DEF Shape, TypeOK, stateVars, givenVars
<1>7. Ages'
  <2>1. \A i \in Inode : rotations + 1 < i => content[i] = <<>>
    BY <1>2, <1>3 DEF Shape, Ages, Inode
  <2>2. inode <= rotations + 1 /\ writer <= rotations + 1
    BY <1>2, <1>3 DEF Shape, Ages, TypeOK, Inode
  <2>3. QED
    BY <1>1, <1>2, <1>3, <2>1, <2>2 DEF Ages, stateVars, Inode
<1>8. Record'
  BY <1>1, <1>2 DEF Shape, Record, stateVars
<1>9. Queue'
  <2>1. \A i \in 1 .. Len(events') : i = 1 /\ events'[i] = "remove" /\ mode # "poll"
    BY <1>4, <1>5, EmptySeq
  <2>2. Len(events') <= MaxQueue
    BY <1>5, Numbers
  <2>3. QED
    BY <1>1, <1>2, <1>4, <1>5, <2>1, <2>2, Numbers DEF Queue, Turnover, Watched
<1>10. Position'
  BY <1>1, <1>2, <1>4 DEF Shape, Position, Watched
<1>11. QED
  BY <1>6, <1>7, <1>8, <1>9, <1>10 DEF Shape

\* A new file, with an inode that nobody knows.
LEMMA ShapeCreate ==
  ASSUME Shape, Create
  PROVE  Shape' /\ content'[at'] = <<>> /\ inode # at' /\ writer # at'
         /\ ((mode = "poll" \/ ~ Watched) \/ Turnover') /\ at' \in Inode
<1>1. /\ at = 0 /\ at' = rotations + 1 /\ Enqueue("create")
      /\ UNCHANGED <<content, writer, next, rotations, mode, pc, drains, stateVars,
                     givenVars, due>>
  BY DEF Create
<1>2. rotations \in 0 .. MaxRotations
  BY DEF Shape, TypeOK
<1>3. at' \in Inode /\ at' \in Nat \ {0}
  BY <1>1, <1>2, Numbers DEF Inode
<1>4. content[at'] = <<>> /\ inode # at' /\ writer # at' /\ inode <= at' /\ writer <= at'
  BY <1>1, <1>2, <1>3 DEF Shape, Ages, Inode, TypeOK
<1>5. Len(events) \in Nat
  BY LenProperties DEF Shape, TypeOK
<1>6. /\ events' \in Seq({"modify", "create", "remove", "overflow"})
      /\ \/ events' = <<>> /\ (mode = "poll" \/ ~ Watched)
         \/ /\ mode # "poll" /\ Watched /\ pc = "idle"
            /\ \/ Len(events') = 1 /\ events'[1] = "create"
               \/ /\ Len(events') = 2 /\ events'[1] = "remove"
                  /\ events'[2] \in {"create", "overflow"}
                  /\ MaxQueue < 2 => events'[2] = "overflow"
  <2>1. CASE mode = "poll" \/ ~ Watched
    <3>1. events = <<>> /\ events' = events
      BY <1>1, <2>1 DEF Shape, Queue, Enqueue
    <3>2. QED
      BY <2>1, <3>1 DEF Shape, TypeOK
  <2>2. CASE ~ (mode = "poll" \/ ~ Watched)
    <3>1. pc = "idle" /\ (events = <<>> \/ (Len(events) = 1 /\ events[1] = "remove"))
      BY <1>1, <2>2 DEF Shape, Position
    <3>2. Len(<<>>) = 0
      BY EmptySeq
    <3>3. PICK f \in {"create", "overflow"} :
              /\ events' \in Seq({"modify", "create", "remove", "overflow"})
              /\ Len(events') = Len(events) + 1
              /\ \A i \in 1 .. Len(events) : events'[i] = events[i]
              /\ events'[Len(events) + 1] = f
              /\ f = IF Len(events) < MaxQueue THEN "create" ELSE "overflow"
      BY <1>1, <2>2, <3>1, <3>2, EnqueueEffect
    <3>4. CASE events = <<>>
      BY <2>2, <3>1, <3>2, <3>3, <3>4, Numbers
    <3>5. CASE Len(events) = 1 /\ events[1] = "remove"
      <4>1. Len(events') = 2 /\ events'[1] = "remove" /\ events'[2] = f
        BY <3>3, <3>5
      <4>2. QED
        BY <2>2, <3>1, <3>3, <3>5, <4>1, Numbers
    <3>6. QED
      BY <3>1, <3>4, <3>5
  <2>3. QED
    BY <2>1, <2>2
<1>7. TypeOK'
  <2>1. Len(events') <= MaxQueue + 1
    <3>1. Len(<<>>) = 0
      BY EmptySeq
    <3>2. Len(events') \in {0, 1, 2}
      BY <1>6, <3>1
    <3>3. \A n \in {0, 1, 2} : n <= MaxQueue + 1
      BY Numbers
    <3>4. QED
      BY <3>2, <3>3
  <2>2. QED
    BY <1>1, <1>3, <1>6, <2>1 DEF Shape, TypeOK, stateVars, givenVars
<1>8. Ages'
  <2>1. \A i \in Inode : at' < i => content[i] = <<>>
    BY <1>1, <1>2 DEF Shape, Ages, Inode
  <2>2. QED
    BY <1>1, <1>2, <1>3, <1>4, <2>1 DEF Ages, stateVars, Inode
<1>9. Record'
  BY <1>1 DEF Shape, Record, stateVars, TypeOK, Ages
<1>10. Queue'
  <2>1. Watched' = Watched /\ Len(<<>>) = 0
    BY <1>1, EmptySeq DEF Watched
  <2>2. CASE events' = <<>> /\ (mode = "poll" \/ ~ Watched)
    BY <1>1, <2>1, <2>2, Numbers DEF Queue, Turnover
  <2>3. CASE Len(events') = 1 /\ events'[1] = "create" /\ mode # "poll" /\ Watched /\ pc = "idle"
    BY <1>1, <2>1, <2>3, Numbers DEF Queue, Turnover
  <2>4. CASE /\ Len(events') = 2 /\ events'[1] = "remove" /\ mode # "poll" /\ Watched
             /\ events'[2] \in {"create", "overflow"} /\ pc = "idle"
             /\ MaxQueue < 2 => events'[2] = "overflow"
    BY <1>1, <2>1, <2>4, Numbers DEF Queue, Turnover
  <2>5. QED
    BY <1>6, <2>2, <2>3, <2>4
<1>11. Position'
  BY <1>1, <1>3 DEF Shape, Position, Watched
<1>12. (mode = "poll" \/ ~ Watched) \/ Turnover'
  BY <1>6 DEF Turnover
<1>13. QED
  BY <1>1, <1>3, <1>4, <1>7, <1>8, <1>9, <1>10, <1>11, <1>12 DEF Shape

\* The file is emptied.
LEMMA ShapeTruncate ==
  ASSUME Quiet, Shape, Truncate
  PROVE  Shape'
<1>1. /\ content' = [content EXCEPT ![at] = <<>>] /\ rotations' = rotations + 1
      /\ Enqueue("modify")
      /\ UNCHANGED <<at, writer, next, mode, pc, drains, stateVars, givenVars, due>>
  BY DEF Truncate
<1>2. /\ at \in Inode /\ rotations < MaxRotations /\ pc = "idle" /\ at # 0
  BY QuietRotate DEF Truncate, Inode
<1>3. rotations \in 0 .. MaxRotations /\ at <= rotations + 1
  BY DEF Shape, TypeOK, Ages
<1>4. /\ events' \in Seq({"modify", "create", "remove", "overflow"})
      /\ Len(events') <= MaxQueue + 1 /\ Queue'
  BY <1>1, ModifyKeepsQueue
<1>5. TypeOK'
  <2>1. content' \in [Inode -> Seq(Cell)]
    <3>1. <<>> \in Seq(Cell)
      BY EmptySeq
    <3>2. QED
      BY <1>1, <3>1 DEF Shape, TypeOK
  <2>2. rotations' \in 0 .. MaxRotations
    BY <1>1, <1>2, <1>3, Numbers
  <2>3. QED
    BY <1>1, <1>4, <2>1, <2>2 DEF Shape, TypeOK, stateVars, givenVars
<1>6. Ages'
  <2>1. \A i \in Inode : at < i => content'[i] = <<>>
    BY <1>1, <1>2 DEF Shape, Ages, TypeOK
  <2>2. QED
    BY <1>1, <1>2, <1>3, <2>1 DEF Shape, Ages, stateVars, Inode
<1>7. QED
  BY <1>1, <1>2, <1>4, <1>5, <1>6 DEF Shape, Record, Position, Watched, stateVars

\* start() reads nothing: the record it makes is of the file at the path.
LEMMA ShapeStart ==
  ASSUME Shape, Prime \/ AddWatch
  PROVE  Shape'
<1>1. CASE Prime
  <2>1. /\ pc = "new" /\ pc' = "primed"
        /\ UNCHANGED <<fileVars, mode, events, drains, givenVars, due>>
        /\ \/ at = 0 /\ UNCHANGED stateVars
           \/ /\ at # 0 /\ tracked' = TRUE /\ inode' = at /\ offset' = Len(content[at])
              /\ UNCHANGED pending
    BY <1>1 DEF Prime
  <2>2. at # 0 => at \in Inode /\ Len(content[at]) \in Nat
    BY LenProperties DEF Shape, TypeOK
  <2>3. TypeOK'
    BY <2>1, <2>2 DEF Shape, TypeOK, fileVars, stateVars, givenVars
  <2>4. Ages' /\ Record'
    BY <2>1, <2>2 DEF Shape, Ages, Record, fileVars, stateVars, Inode, TypeOK
  <2>5. Queue' /\ Position'
    BY <2>1 DEF Shape, Queue, Position, Turnover, Watched, fileVars, stateVars
  <2>6. QED
    BY <2>3, <2>4, <2>5 DEF Shape
<1>2. CASE AddWatch
  <2>1. /\ pc = "primed" /\ pc' = "idle" /\ mode' \in Modes
        /\ UNCHANGED <<fileVars, events, drains, stateVars, givenVars, due>>
    BY <1>2 DEF AddWatch
  <2>2. events = <<>> /\ Len(events) = 0 /\ mode' # "none"
    BY <2>1, EmptySeq, ModeAssumption DEF Shape, Queue, Watched
  <2>3. TypeOK'
    BY <2>1 DEF Shape, TypeOK, fileVars, stateVars, givenVars
  <2>4. Ages' /\ Record'
    BY <2>1 DEF Shape, Ages, Record, fileVars, stateVars, Inode
  <2>5. Queue' /\ Position'
    BY <2>1, <2>2, Numbers DEF Shape, Queue, Position, Turnover, Watched, fileVars, stateVars
  <2>6. QED
    BY <2>3, <2>4, <2>5 DEF Shape
<1>3. QED
  BY <1>1, <1>2

\* The record is thrown away.
LEMMA ShapeRemove ==
  ASSUME Shape, HandleRemove
  PROVE  Shape' /\ (Turnover' => Turnover) /\ Turnover
<1>1. /\ pc = "idle" /\ events # <<>> /\ Head(events) = "remove" /\ events' = Tail(events)
      /\ tracked' = FALSE /\ offset' = 0 /\ inode' = 0 /\ pending' = <<>>
      /\ UNCHANGED <<fileVars, mode, pc, drains, givenVars, due>>
  BY DEF HandleRemove, Forget
<1>2. /\ events' \in Seq({"modify", "create", "remove", "overflow"})
      /\ Len(events') <= MaxQueue + 1 /\ Queue'
      /\ Turnover' => Turnover
      /\ Head(events) = events[1] /\ Len(events) \in Nat \ {0}
      /\ Len(events) = 1 => events' = <<>>
      /\ at # 0 \/ Len(events) = 1
  BY <1>1, TailKeepsQueue
<1>3. TypeOK'
  <2>1. <<>> \in Seq(Cell) /\ 0 \in Nat
    BY EmptySeq
  <2>2. QED
    BY <1>1, <1>2, <2>1 DEF Shape, TypeOK, fileVars, givenVars
<1>4. Ages' /\ Record'
  BY <1>1 DEF Shape, Ages, Record, fileVars, TypeOK, Inode
<1>5. Position'
  BY <1>1, <1>2 DEF Shape, Position, Watched, fileVars
<1>6. Turnover
  BY <1>1, <1>2 DEF Turnover
<1>7. QED
  BY <1>2, <1>3, <1>4, <1>5, <1>6 DEF Shape

\* Another event begins a drain.
LEMMA ShapeCreated ==
  ASSUME Shape, HandleCreate
  PROVE  Shape' /\ ~ Turnover' /\ Turnover /\ at # 0
<1>1. /\ pc = "idle" /\ events # <<>> /\ Head(events) = "create" /\ events' = Tail(events)
      /\ tracked' = TRUE /\ offset' = 0 /\ inode' = 0 /\ pending' = <<>>
      /\ pc' = "stat" /\ drains' = 1
      /\ UNCHANGED <<fileVars, mode, givenVars, due>>
  BY DEF HandleCreate
<1>2. /\ events' \in Seq({"modify", "create", "remove", "overflow"})
      /\ Len(events') <= MaxQueue + 1 /\ Queue'
      /\ ~ Turnover'
      /\ Head(events) = events[1] /\ Len(events) \in Nat \ {0}
      /\ at # 0
  BY <1>1, TailKeepsQueue
<1>3. TypeOK'
  <2>1. <<>> \in Seq(Cell) /\ 0 \in Nat
    BY EmptySeq
  <2>2. QED
    BY <1>1, <1>2, <2>1 DEF Shape, TypeOK, fileVars, givenVars
<1>4. Ages' /\ Record'
  BY <1>1 DEF Shape, Ages, Record, fileVars, TypeOK, Inode
<1>5. Position'
  BY <1>1, <1>2 DEF Shape, Position, Watched, fileVars
<1>6. Turnover
  BY <1>1, <1>2 DEF Turnover
<1>7. QED
  BY <1>2, <1>3, <1>4, <1>5, <1>6 DEF Shape

\* A change begins a drain of what is known.
LEMMA ShapeModified ==
  ASSUME Shape, HandleModify
  PROVE  Shape' /\ ~ Turnover' /\ ~ Turnover /\ at # 0
<1>1. /\ pc = "idle" /\ events # <<>> /\ Head(events) = "modify" /\ events' = Tail(events)
      /\ pc' = "stat" /\ drains' = 1
      /\ UNCHANGED <<fileVars, mode, stateVars, givenVars, due>>
  BY DEF HandleModify
<1>2. /\ events' \in Seq({"modify", "create", "remove", "overflow"})
      /\ Len(events') <= MaxQueue + 1 /\ Queue'
      /\ ~ Turnover'
      /\ Head(events) = events[1] /\ Len(events) \in Nat \ {0}
      /\ at # 0
  BY <1>1, TailKeepsQueue
<1>3. TypeOK'
  BY <1>1, <1>2 DEF Shape, TypeOK, fileVars, stateVars, givenVars
<1>4. Ages' /\ Record'
  BY <1>1 DEF Shape, Ages, Record, fileVars, stateVars, Inode
<1>5. Position'
  BY <1>1, <1>2 DEF Shape, Position, Watched, fileVars, stateVars
<1>6. ~ Turnover
  BY <1>1, <1>2 DEF Turnover, Shape, Queue
<1>7. QED
  BY <1>2, <1>3, <1>4, <1>5, <1>6 DEF Shape

\* A scan of the directory, after an overflow or by the clock.
LEMMA ShapeRescan ==
  ASSUME Shape, HandleOverflow \/ Poll
  PROVE  Shape' /\ ~ Turnover' /\ ~ Turnover
<1>1. /\ pc = "idle" /\ UNCHANGED <<fileVars, mode, givenVars, due>> /\ Rescan
  BY DEF HandleOverflow, Poll
<1>2. \/ /\ tracked \/ at = 0
         /\ UNCHANGED stateVars
         /\ (pc' = "stat" /\ drains' = 1) \/ (pc' = "idle" /\ drains' = 0)
         /\ at = 0 /\ ~ tracked => pc' = "idle"
      \/ /\ ~ tracked /\ at # 0 /\ tracked' = TRUE /\ inode' = at /\ offset' = 0
         /\ pending' = <<>> /\ drains' = 2 /\ pc' = "stat"
  BY <1>1 DEF Rescan
<1>3. /\ events' \in Seq({"modify", "create", "remove", "overflow"})
      /\ Len(events') <= MaxQueue + 1 /\ Queue'
      /\ ~ Turnover' /\ ~ Turnover
      /\ at # 0 \/ mode = "poll"
  <2>1. CASE HandleOverflow
    <3>1. /\ events # <<>> /\ Head(events) = "overflow" /\ events' = Tail(events)
          /\ UNCHANGED mode /\ pc' \in {"idle", "stat"}
      BY <1>2, <2>1 DEF HandleOverflow
    <3>2. /\ events' \in Seq({"modify", "create", "remove", "overflow"})
          /\ Len(events') <= MaxQueue + 1 /\ Queue'
          /\ ~ Turnover'
          /\ Head(events) = events[1] /\ Len(events) \in Nat \ {0}
          /\ at # 0
      BY <1>1, <3>1, TailKeepsQueue
    <3>3. ~ Turnover
      BY <3>1, <3>2 DEF Turnover, Shape, Queue
    <3>4. QED
      BY <3>2, <3>3
  <2>2. CASE Poll
    <3>1. mode = "poll" /\ UNCHANGED <<mode, events>> /\ events = <<>> /\ Len(events) = 0
      BY <2>2, EmptySeq DEF Poll, Shape, Queue
    <3>2. QED
      BY <1>2, <3>1, Numbers DEF Queue, Turnover, Shape, TypeOK
  <2>3. QED
    BY <2>1, <2>2
<1>4. <<>> \in Seq(Cell) /\ 0 \in Nat
  BY EmptySeq
<1>5. TypeOK'
  <2>1. tracked' \in BOOLEAN /\ offset' \in Nat /\ pending' \in Seq(Cell)
        /\ {at', writer', inode'} \subseteq Inode \cup {0}
    BY <1>1, <1>2, <1>4 DEF Shape, TypeOK, fileVars, stateVars
  <2>2. drains' \in 0 .. 2 /\ pc' \in {"idle", "stat"}
    BY <1>2
  <2>3. QED
    BY <1>1, <1>3, <2>1, <2>2 DEF Shape, TypeOK, fileVars, givenVars
<1>6. Ages' /\ Record'
  BY <1>1, <1>2 DEF Shape, Ages, Record, fileVars, stateVars, TypeOK, Inode
<1>7. Position'
  BY <1>1, <1>2, <1>3 DEF Shape, Position, Watched, fileVars, stateVars
<1>8. QED
  BY <1>3, <1>5, <1>6, <1>7 DEF Shape

\* The first half of a drain: the record is made to fit the file at the path.
LEMMA ShapeStat ==
  ASSUME Shape, Stat
  PROVE  Shape' /\ ~ Turnover' /\ ~ Turnover
<1>1. pc = "stat" /\ UNCHANGED <<fileVars, mode, events, givenVars, due>>
  BY DEF Stat
<1>2. ~ Turnover /\ ~ Turnover'
  BY <1>1 DEF Shape, Queue, Turnover
<1>3. drains \in 1 .. 2
  BY <1>1 DEF Shape, Record
<1>4. CASE at = 0
  <2>1. /\ UNCHANGED stateVars /\ drains' \in 0 .. 2
        /\ pc' = "idle" \/ (pc' = "stat" /\ drains' \in 1 .. 2)
    BY <1>3, <1>4 DEF Stat, Drained
  <2>2. mode = "poll"
    BY <1>1, <1>4 DEF Shape, Position, Watched
  <2>3. events = <<>>
    BY <2>2 DEF Shape, Queue
  <2>4. TypeOK'
    BY <1>1, <2>1 DEF Shape, TypeOK, fileVars, stateVars, givenVars
  <2>5. QED
    BY <1>1, <1>2, <2>1, <2>2, <2>3, <2>4
       DEF Shape, Ages, Record, Queue, Position, Watched, fileVars, stateVars, Inode
<1>5. CASE at # 0
  <2> DEFINE size == Len(content[at])
  <2>1. /\ tracked' = TRUE /\ inode' = at
        /\ \/ offset' = 0 /\ pending' = <<>>
           \/ ~ Replaced(at) /\ ~ Shrunk(size) /\ offset' = offset /\ pending' = pending
        /\ \/ /\ drains' = drains - 1
              /\ pc' = IF drains = 1 THEN "idle" ELSE "stat"
           \/ pc' = "read" /\ ~ (size <= offset') /\ drains' = drains
    BY <1>5 DEF Stat, Drained
  <2>2. at \in Inode /\ size \in Nat /\ offset' \in Nat
    BY <1>5, <2>1, LenProperties DEF Shape, TypeOK
  <2>3. drains' \in 0 .. 2 /\ (pc' \in {"stat", "read"} => drains' \in 1 .. 2)
        /\ pc' \in {"idle", "stat", "read"}
    BY <1>3, <2>1
  <2>4. TypeOK'
    <3>1. pending' \in Seq(Cell)
      BY <2>1, EmptySeq DEF Shape, TypeOK
    <3>2. QED
      BY <1>1, <2>1, <2>2, <2>3, <3>1 DEF Shape, TypeOK, fileVars, givenVars
  <2>5. Ages' /\ Record'
    BY <1>1, <1>5, <2>1, <2>2, <2>3 DEF Shape, Ages, Record, fileVars, Inode
  <2>6. Queue'
    BY <1>1, <1>2, <2>3 DEF Shape, Queue, Watched, fileVars
  <2>7. Position'
    <3>1. pc' = "read" => inode' = at /\ offset' < size
      BY <2>1, <2>2
    <3>2. QED
      BY <1>1, <1>5, <2>3, <3>1 DEF Shape, Position, Watched, fileVars
  <2>8. QED
    BY <1>2, <2>4, <2>5, <2>6, <2>7 DEF Shape
<1>6. QED
  BY <1>4, <1>5

\* stop().
LEMMA ShapeStop ==
  ASSUME Shape, Stop
  PROVE  Shape'
<1>1. /\ pc = "idle" /\ pc' = "stopped" /\ events' = <<>>
      /\ UNCHANGED <<fileVars, mode, drains, stateVars, givenVars, due>>
  BY DEF Stop
<1>2. Len(<<>>) = 0 /\ <<>> \in Seq({"modify", "create", "remove", "overflow"})
  BY EmptySeq
<1>3. TypeOK'
  BY <1>1, <1>2, Numbers DEF Shape, TypeOK, fileVars, stateVars, givenVars
<1>4. QED
  BY <1>1, <1>2, <1>3, Numbers
     DEF Shape, Ages, Record, Queue, Position, Turnover, Watched, fileVars, stateVars, Inode

--------------------------------------------------------------------------------
\* A text that was written cell by cell: every cell comes after those before it and is
\* preceded by the parts of its line that it follows, and a line begins where one has ended.
WellWritten(c) ==
  /\ \A i, j \in 1 .. Len(c) : i < j => Before(c[i], c[j])
  /\ \A j \in 1 .. Len(c) :
       /\ c[j].part <= j
       /\ \A p \in 1 .. c[j].part : c[j - c[j].part + p] = [line |-> c[j].line, part |-> p]
       /\ j > 1 /\ c[j].part = 1 => Newline(c[j - 1])

\* The file at the path goes on with the next cell, or has not been opened yet.
Written ==
  at # 0 => IF writer = at THEN WellWritten(Append(content[at], next))
            ELSE content[at] = <<>>

\* A text may begin after position k: at the start, after a newline, or within a line over
\* the limit.
CutAt(c, k) == k = 0 \/ Newline(c[k]) \/ Parts[c[k].line] > LineLimit

\* Nothing was handed over yet of what follows position k.
UnreadFrom(k) ==
  \A d \in 1 .. Len(delivered), j \in 1 .. Len(content[at]) :
    k < j => Before(delivered[d], content[at][j])

\* The record is not about the file at the path, or of its time before a truncation.
Stale == inode \notin {0, at} \/ Turnover \/ offset > Len(content[at])

\* The position before the pending text.
Cut == offset - Len(pending)

\* The pending text is what precedes the offset, from a cut on.
InStep ==
  /\ Cut \in 0 .. Len(content[at])
  /\ \A i \in 1 .. Len(pending) : pending[i] = content[at][Cut + i]
  /\ Newlines(pending) = {}
  /\ CutAt(content[at], Cut)
  /\ UnreadFrom(Cut)

Sync ==
  at # 0 /\ pc # "stopped" =>
    /\ Stale => UnreadFrom(0)
    /\ inode = at /\ offset > Len(content[at]) => content[at] = <<>>
    /\ ~ Stale => InStep

GivenBefore == \A d \in 1 .. Len(delivered) : Before(delivered[d], next)

WatcherInv == Shape /\ Written /\ Sync /\ GivenBefore /\ InOrderOnce /\ OnlyWholeLines
\* The last newline of a text, or 0.
LEMMA LastNewlineFacts ==
  ASSUME NEW text \in Seq(Cell)
  PROVE  /\ LastNewline(text) \in 0 .. Len(text)
         /\ \A i \in Newlines(text) : i \in 1 .. Len(text) /\ i <= LastNewline(text)
         /\ LastNewline(text) # 0 => LastNewline(text) \in Newlines(text)
<1> DEFINE n == Len(text)
<1> DEFINE S == Newlines(text)
<1>1. n \in Nat /\ S \subseteq 1 .. n
  BY LenProperties DEF Newlines
<1>2. CASE S = {}
  BY <1>1, <1>2 DEF LastNewline
<1>3. CASE S # {}
  <2> DEFINE T == {n - k : k \in S}
  <2>1. T # {} /\ T \subseteq Nat
    <3>1. \A k \in S : n - k \in Nat
      BY <1>1
    <3>2. QED
      BY <1>3, <3>1
  <2>2. PICK m \in T : \A k \in T : ~ (<<k, m>> \in OpToRel(<, Nat))
    <3> HIDE DEF T
    <3>1. QED
      BY <2>1, NatLessThanWellFounded, WFMin
  <2>3. \A k \in T : ~ (k < m)
    <3> HIDE DEF T
    <3>1. QED
      BY <2>1, <2>2 DEF OpToRel
  <2>4. PICK l \in S : m = n - l
    OBVIOUS
  <2>5. \A k \in S : ~ (n - k < n - l)
    BY <2>3, <2>4
  <2>6. \A k \in S : k <= l
    BY <1>1, <2>5
  <2>7. LastNewline(text) \in S /\ \A k \in S : k <= LastNewline(text)
    <3> HIDE DEF S
    <3>1. LastNewline(text) = CHOOSE i \in S : \A j \in S : j <= i
      BY <1>3 DEF LastNewline, S
    <3>2. QED
      BY <2>6, <3>1
  <2>8. QED
    BY <1>1, <2>7
<1>4. QED
  BY <1>2, <1>3

\* A watcher that is about to read is in step with the file.
LEMMA ReaderInStep ==
  ASSUME Shape, Sync, pc = "read"
  PROVE  /\ at \in Inode /\ at # 0 /\ inode = at /\ ~ Turnover
         /\ offset < Len(content[at]) /\ offset \in Nat /\ Len(content[at]) \in Nat
         /\ InStep
<1>1. at # 0 /\ at \in Inode /\ inode = at /\ offset < Len(content[at]) /\ ~ Turnover
  BY DEF Shape, Position, Queue, TypeOK
<1>2. offset \in Nat /\ Len(content[at]) \in Nat
  BY <1>1, LenProperties DEF Shape, TypeOK
<1>3. ~ Stale
  BY <1>1, <1>2 DEF Stale
<1>4. QED
  BY <1>1, <1>2, <1>3 DEF Sync

\* The text of a read: the pending one and the rest of the file, all of it after the cut.
LEMMA ReadText ==
  ASSUME Shape, Sync, pc = "read",
         NEW text, text = pending \o SubSeq(content[at], offset + 1, Len(content[at]))
  PROVE  /\ text \in Seq(Cell) /\ Len(text) = Len(content[at]) - Cut
         /\ \A i \in 1 .. Len(text) : text[i] = content[at][Cut + i]
         /\ offset + Len(SubSeq(content[at], offset + 1, Len(content[at]))) = Len(content[at])
<1> DEFINE c == content[at]
<1> DEFINE got == SubSeq(c, offset + 1, Len(c))
<1>1. /\ at \in Inode /\ offset < Len(c) /\ offset \in Nat /\ Len(c) \in Nat /\ InStep
  BY ReaderInStep
<1>2. c \in Seq(Cell) /\ pending \in Seq(Cell) /\ Len(pending) \in Nat
  BY <1>1, LenProperties DEF Shape, TypeOK
<1>3. \A i \in offset + 1 .. Len(c) : c[i] \in Cell
  BY <1>1, <1>2, ElementOfSeq
<1> HIDE DEF c
<1>4. /\ got \in Seq(Cell) /\ Len(got) = Len(c) - offset
      /\ \A i \in 1 .. Len(got) : got[i] = c[offset + i]
  BY <1>1, <1>3, SubSeqProperties
<1> HIDE DEF got
<1>5. /\ text = pending \o got
      /\ text \in Seq(Cell) /\ Len(text) = Len(pending) + Len(got)
      /\ \A i \in 1 .. Len(pending) + Len(got) :
           text[i] = IF i <= Len(pending) THEN pending[i] ELSE got[i - Len(pending)]
  <2>1. text = pending \o got
    BY DEF got, c
  <2>2. /\ pending \o got \in Seq(Cell) /\ Len(pending \o got) = Len(pending) + Len(got)
        /\ \A i \in 1 .. Len(pending) + Len(got) : (pending \o got)[i]
             = IF i <= Len(pending) THEN pending[i] ELSE got[i - Len(pending)]
    BY <1>2, <1>4, ConcatProperties
  <2>3. QED
    BY <2>1, <2>2
<1>6. Cut = offset - Len(pending) /\ \A i \in 1 .. Len(pending) : pending[i] = c[Cut + i]
  BY <1>1 DEF InStep, Cut, c
<1>7. ASSUME NEW i \in 1 .. Len(text) PROVE text[i] = c[Cut + i]
  <2>1. CASE i <= Len(pending)
    BY <1>2, <1>4, <1>5, <1>6, <2>1
  <2>2. CASE ~ (i <= Len(pending))
    <3>1. i - Len(pending) \in 1 .. Len(got)
      BY <1>1, <1>2, <1>4, <1>5, <2>2
    <3>2. got[i - Len(pending)] = c[offset + (i - Len(pending))]
      BY <1>4, <3>1
    <3>3. offset + (i - Len(pending)) = Cut + i
      BY <1>1, <1>2, <1>4, <1>5, <1>6
    <3>4. text[i] = got[i - Len(pending)]
      BY <1>2, <1>4, <1>5, <2>2
    <3>5. QED
      BY <3>2, <3>3, <3>4
  <2>3. QED
    BY <2>1, <2>2
<1>8. Len(text) = Len(c) - Cut /\ offset + Len(got) = Len(c)
  BY <1>1, <1>2, <1>4, <1>5, <1>6
<1>9. QED
  BY <1>5, <1>7, <1>8 DEF c, got

\* What a read hands over (h cells, the text up to the last newline r or all of it), keeps
\* and marks.
NewlinesAfterCut == {j \in 1 .. Len(content[at]) - Cut : Newline(content[at][Cut + j])}

KeptRest(r, h) ==
  /\ Len(content[at]) - Cut - r <= LineLimit /\ h = r
  /\ pending' \in Seq(Cell)
  /\ Len(pending') = Len(content[at]) - Cut - r
  /\ \A i \in 1 .. Len(content[at]) - Cut - r : pending'[i] = content[at][Cut + r + i]
  /\ ends' = ends \cup {Len(delivered) + i : i \in NewlinesAfterCut}

GaveRest(r, h) ==
  /\ Len(content[at]) - Cut - r > LineLimit /\ h = Len(content[at]) - Cut
  /\ pending' = <<>>
  /\ ends' = ends \cup {Len(delivered) + i : i \in NewlinesAfterCut} \cup {Len(delivered) + h}

ReadOf(r, h) ==
  /\ r <= h /\ h <= Len(content[at]) - Cut
  /\ \A i \in NewlinesAfterCut : i <= r
  /\ r > 0 => Newline(content[at][Cut + r])
  /\ KeptRest(r, h) \/ GaveRest(r, h)
  /\ delivered' \in Seq(Cell) /\ Len(delivered') = Len(delivered) + h
  /\ \A i \in 1 .. Len(delivered) : delivered'[i] = delivered[i]
  /\ \A i \in 1 .. h : delivered'[Len(delivered) + i] = content[at][Cut + i]
  /\ offset' = Len(content[at])
  /\ UNCHANGED <<fileVars, mode, events, due, tracked, inode>>

LEMMA ReadEffect ==
  ASSUME Shape, Sync, Read
  PROVE  \E r, h \in Nat : ReadOf(r, h)
<1> DEFINE c == content[at]
<1> DEFINE D == Len(delivered)
<1> DEFINE got == SubSeq(c, offset + 1, Len(c))
<1> DEFINE text == pending \o got
<1> DEFINE T == Len(c) - Cut
<1> DEFINE rest == Remainder(text)
<1> DEFINE r == LastNewline(text)
<1>1. pc = "read"
  BY DEF Read
<1>2. at # 0 /\ at \in Inode /\ Len(c) \in Nat /\ InStep
  BY <1>1, ReaderInStep
<1>3. /\ text \in Seq(Cell) /\ Len(text) = T
      /\ \A i \in 1 .. T : text[i] = c[Cut + i]
      /\ offset + Len(got) = Len(c)
  BY <1>1, ReadText
<1>4. /\ offset' = offset + Len(got)
      /\ pending' = IF TooLong(rest) THEN <<>> ELSE rest
      /\ delivered' = delivered \o WholeLines(text) \o (IF TooLong(rest) THEN rest ELSE <<>>)
      /\ ends' = ends \cup {D + i : i \in Newlines(text)}
                      \cup (IF TooLong(rest) THEN {Len(delivered')} ELSE {})
      /\ UNCHANGED <<fileVars, mode, events, due, tracked, inode>>
  BY <1>2 DEF Read
<1> HIDE DEF text, got
<1>5. /\ T \in Nat /\ r \in 0 .. T
      /\ Newlines(text) = {j \in 1 .. T : Newline(c[Cut + j])}
      /\ \A i \in Newlines(text) : i <= r
      /\ r # 0 => r \in Newlines(text)
  <2>1. T \in Nat
    BY <1>3, LenProperties
  <2>2. DOMAIN text = 1 .. T
    BY <1>3, LenProperties
  <2>3. Newlines(text) = {j \in 1 .. T : Newline(c[Cut + j])}
    BY <1>3, <2>2 DEF Newlines
  <2>4. QED
    BY <1>3, <2>1, <2>3, LastNewlineFacts
<1>6. \A i \in 1 .. T : text[i] \in Cell
  BY <1>3, ElementOfSeq
<1> HIDE DEF T, r, c
<1>7. /\ WholeLines(text) \in Seq(Cell) /\ Len(WholeLines(text)) = r
      /\ \A i \in 1 .. r : WholeLines(text)[i] = text[i]
  <2>1. WholeLines(text) = SubSeq(text, 1, r)
    BY DEF WholeLines, r
  <2>2. \A i \in 1 .. r : text[i] \in Cell
    BY <1>5, <1>6
  <2>3. /\ SubSeq(text, 1, r) \in Seq(Cell)
        /\ Len(SubSeq(text, 1, r)) = IF 1 <= r THEN r - 1 + 1 ELSE 0
        /\ \A i \in 1 .. r - 1 + 1 : SubSeq(text, 1, r)[i] = text[1 + i - 1]
    BY <1>5, <2>2, SubSeqProperties
  <2>4. QED
    BY <1>5, <2>1, <2>3
<1>8. /\ rest \in Seq(Cell) /\ Len(rest) = T - r
      /\ \A i \in 1 .. T - r : rest[i] = text[r + i]
  <2>1. rest = SubSeq(text, r + 1, T)
    BY <1>3 DEF Remainder, r
  <2>2. \A i \in r + 1 .. T : text[i] \in Cell
    BY <1>5, <1>6
  <2>3. /\ SubSeq(text, r + 1, T) \in Seq(Cell)
        /\ Len(SubSeq(text, r + 1, T)) = IF r + 1 <= T THEN T - (r + 1) + 1 ELSE 0
        /\ \A i \in 1 .. T - (r + 1) + 1 : SubSeq(text, r + 1, T)[i] = text[r + 1 + i - 1]
    BY <1>5, <2>2, SubSeqProperties
  <2>4. QED
    BY <1>5, <2>1, <2>3
<1>9. delivered \in Seq(Cell) /\ D \in Nat
  BY LenProperties DEF Shape, TypeOK
<1> HIDE DEF D, rest
<1>10. /\ delivered \o WholeLines(text) \in Seq(Cell)
       /\ Len(delivered \o WholeLines(text)) = D + r
       /\ \A i \in 1 .. D : (delivered \o WholeLines(text))[i] = delivered[i]
       /\ \A i \in 1 .. r : (delivered \o WholeLines(text))[D + i] = text[i]
  <2>1. /\ delivered \o WholeLines(text) \in Seq(Cell)
        /\ Len(delivered \o WholeLines(text)) = D + r
        /\ \A i \in 1 .. D + r : (delivered \o WholeLines(text))[i]
             = IF i <= D THEN delivered[i] ELSE WholeLines(text)[i - D]
    BY <1>7, <1>9, ConcatProperties DEF D
  <2>2. \A i \in 1 .. r : D + i \in 1 .. D + r /\ ~ (D + i <= D) /\ (D + i) - D = i
    BY <1>5, <1>9
  <2>3. \A i \in 1 .. D : i \in 1 .. D + r /\ i <= D
    BY <1>5, <1>9
  <2>4. QED
    BY <1>7, <2>1, <2>2, <2>3
<1>11. offset' = Len(c)
  BY <1>3, <1>4 DEF c
<1>12. CASE ~ TooLong(rest)
  <2>1. T - r <= LineLimit
    BY <1>5, <1>8, <1>12, Numbers DEF TooLong
  <2>2. delivered' = delivered \o WholeLines(text)
    BY <1>4, <1>10, <1>12, ConcatEmptySeq
  <2>3. pending' = rest /\ ends' = ends \cup {D + i : i \in Newlines(text)}
    BY <1>4, <1>12
  <2>4. \A i \in 1 .. T - r : rest[i] = c[Cut + r + i]
    <3>1. \A i \in 1 .. T - r : r + i \in 1 .. T
      BY <1>5
    <3>2. Cut \in Int
      BY <1>2 DEF InStep
    <3>3. \A i \in 1 .. T - r : Cut + (r + i) = Cut + r + i
      BY <1>5, <3>2
    <3>4. QED
      BY <1>3, <1>8, <3>1, <3>3 DEF T, c
  <2>5. \A i \in 1 .. r : delivered'[D + i] = c[Cut + i]
    <3>1. \A i \in 1 .. r : i \in 1 .. T /\ text[i] = c[Cut + i]
      BY <1>3, <1>5 DEF T, c
    <3>2. QED
      BY <1>10, <2>2, <3>1
  <2>6. NewlinesAfterCut = Newlines(text)
    BY <1>5 DEF NewlinesAfterCut, T, c
  <2>7. KeptRest(r, r)
    BY <1>8, <2>1, <2>3, <2>4, <2>6 DEF KeptRest, T, c, D
  <2>8. r > 0 => Newline(c[Cut + r])
    BY <1>5
  <2>9. ReadOf(r, r)
    <3>1. r <= r /\ r <= T /\ \A i \in NewlinesAfterCut : i <= r
      BY <1>5, <2>6
    <3>2. delivered' \in Seq(Cell) /\ Len(delivered') = D + r
      BY <1>10, <2>2
    <3>3. /\ \A i \in 1 .. D : delivered'[i] = delivered[i]
          /\ \A i \in 1 .. r : delivered'[D + i] = c[Cut + i]
      BY <2>2, <2>5, <1>10
    <3>4. UNCHANGED <<fileVars, mode, events, due, tracked, inode>>
      BY <1>4
    <3>5. QED
      BY <1>11, <2>8, <2>7, <3>1, <3>2, <3>3, <3>4 DEF ReadOf, T, c, D
  <2>10. QED
    BY <1>5, <2>9
<1>13. CASE TooLong(rest)
  <2>1. T - r > LineLimit
    BY <1>5, <1>8, <1>13, Numbers DEF TooLong
  <2> DEFINE front == delivered \o WholeLines(text)
  <2>2. delivered' = front \o rest
    BY <1>4, <1>13
  <2>31. /\ front \in Seq(Cell) /\ Len(front) = D + r
         /\ \A i \in 1 .. D : front[i] = delivered[i]
         /\ \A i \in 1 .. r : front[D + i] = text[i]
    BY <1>10
  <2> HIDE DEF front
  <2>32. /\ front \o rest \in Seq(Cell) /\ Len(front \o rest) = Len(front) + Len(rest)
         /\ \A i \in 1 .. Len(front) + Len(rest) :
              (front \o rest)[i] = IF i <= Len(front) THEN front[i] ELSE rest[i - Len(front)]
    BY <1>8, <2>31, ConcatProperties
  <2>3. /\ delivered' \in Seq(Cell) /\ Len(delivered') = D + r + (T - r)
        /\ \A i \in 1 .. D + r + (T - r) : delivered'[i]
             = IF i <= D + r THEN front[i] ELSE rest[i - (D + r)]
    BY <1>8, <2>2, <2>31, <2>32
  <2>4. Len(delivered') = D + T
    BY <1>5, <1>9, <2>3
  <2>5. \A i \in 1 .. D : delivered'[i] = delivered[i]
    <3>1. \A i \in 1 .. D : i \in 1 .. D + r + (T - r) /\ i <= D + r
      BY <1>5, <1>9
    <3>2. QED
      BY <2>3, <2>31, <3>1
  <2>6. ASSUME NEW i \in 1 .. T PROVE delivered'[D + i] = c[Cut + i]
    <3>1. D + i \in 1 .. D + r + (T - r)
      BY <1>5, <1>9
    <3>2. CASE i <= r
      <4>1. D + i <= D + r /\ i \in 1 .. r
        BY <1>5, <1>9, <3>2
      <4>2. QED
        BY <1>3, <2>3, <2>31, <3>1, <4>1 DEF T, c
    <3>3. CASE ~ (i <= r)
      <4>1. ~ (D + i <= D + r) /\ (D + i) - (D + r) = i - r /\ i - r \in 1 .. T - r /\ r + (i - r) = i
        BY <1>5, <1>9, <3>3
      <4>2. QED
        BY <1>3, <1>8, <2>3, <3>1, <4>1 DEF T, c
    <3>4. QED
      BY <3>2, <3>3
  <2>7. pending' = <<>> /\ ends' = ends \cup {D + i : i \in Newlines(text)} \cup {D + T}
    BY <1>4, <1>13, <2>4
  <2>8. NewlinesAfterCut = Newlines(text)
    BY <1>5 DEF NewlinesAfterCut, T, c
  <2>9. GaveRest(r, T)
    BY <2>1, <2>7, <2>8 DEF GaveRest, T, c, D
  <2>10. r > 0 => Newline(c[Cut + r])
    BY <1>5
  <2>11. ReadOf(r, T)
    <3>1. r <= T /\ T <= T /\ \A i \in NewlinesAfterCut : i <= r
      BY <1>5, <2>8
    <3>2. delivered' \in Seq(Cell) /\ Len(delivered') = D + T
      BY <2>3, <2>4
    <3>3. /\ \A i \in 1 .. D : delivered'[i] = delivered[i]
          /\ \A i \in 1 .. T : delivered'[D + i] = c[Cut + i]
      BY <2>5, <2>6
    <3>4. UNCHANGED <<fileVars, mode, events, due, tracked, inode>>
      BY <1>4
    <3>5. QED
      BY <1>11, <2>10, <2>9, <3>1, <3>2, <3>3, <3>4 DEF ReadOf, T, c, D
  <2>12. QED
    BY <1>5, <2>11
<1>14. QED
  BY <1>12, <1>13

\* The second half of a drain.
LEMMA ShapeRead ==
  ASSUME Shape, Sync, Read
  PROVE  Shape'
<1>1. PICK r, h \in Nat : ReadOf(r, h)
  BY ReadEffect
<1>2. /\ pc = "read" /\ drains \in 1 .. 2 /\ drains' = drains - 1
      /\ pc' = IF drains = 1 THEN "idle" ELSE "stat"
  BY DEF Read, Drained, Shape, Record
<1>3. /\ UNCHANGED <<fileVars, mode, events, due, tracked, inode>>
      /\ offset' = Len(content[at]) /\ delivered' \in Seq(Cell)
  BY <1>1 DEF ReadOf
<1>4. at # 0 /\ inode = at /\ Len(content[at]) \in Nat /\ ~ Turnover
  BY <1>2, ReaderInStep
<1>5. pending' \in Seq(Cell)
  BY <1>1, EmptySeq DEF ReadOf, KeptRest, GaveRest
<1>6. ends' \subseteq DOMAIN delivered'
  <2>1. DOMAIN delivered' = 1 .. Len(delivered) + h
    BY <1>1, LenProperties DEF ReadOf
  <2>2. Len(delivered) \in Nat /\ ends \subseteq 1 .. Len(delivered)
    BY LenProperties DEF Shape, TypeOK
  <2>3. \A i \in NewlinesAfterCut : i \in 1 .. h
    BY <1>1 DEF ReadOf, NewlinesAfterCut
  <2>4. h > 0 \/ ends' \subseteq ends \cup {Len(delivered) + i : i \in NewlinesAfterCut}
    BY <1>1, Numbers DEF ReadOf, KeptRest, GaveRest
  <2>5. ends' \subseteq ends \cup {Len(delivered) + i : i \in NewlinesAfterCut}
                            \cup {Len(delivered) + h}
    BY <1>1 DEF ReadOf, KeptRest, GaveRest
  <2>6. ASSUME NEW e \in ends' PROVE e \in 1 .. Len(delivered) + h
    <3>1. CASE e \in ends
      BY <2>2, <3>1
    <3>2. CASE e \in {Len(delivered) + i : i \in NewlinesAfterCut}
      <4>1. PICK i \in 1 .. h : e = Len(delivered) + i
        BY <2>3, <3>2
      <4>2. QED
        BY <2>2, <4>1
    <3>3. CASE e = Len(delivered) + h /\ h > 0
      BY <2>2, <3>3
    <3>4. QED
      BY <2>4, <2>5, <3>1, <3>2, <3>3
  <2>7. QED
    BY <2>1, <2>6
<1>7. drains' \in 0 .. 2 /\ pc' \in {"idle", "stat"} /\ (pc' = "stat" => drains' = 1)
  BY <1>2
<1>8. TypeOK'
  BY <1>3, <1>4, <1>5, <1>6, <1>7 DEF Shape, TypeOK, fileVars
<1>9. Ages'
  BY <1>3 DEF Shape, Ages, fileVars, Inode
<1>10. Record'
  BY <1>3, <1>4, <1>7 DEF Shape, Record, fileVars
<1>11. Queue' /\ Position'
  BY <1>2, <1>3, <1>4, <1>7 DEF Shape, Queue, Position, Turnover, Watched, fileVars
<1>12. QED
  BY <1>8, <1>9, <1>10, <1>11 DEF Shape

--------------------------------------------------------------------------------
(* Texts.                                                                  *)

\* The cell written after c.
Follow(c) == IF Newline(c) THEN [line |-> c.line + 1, part |-> 1] ELSE [c EXCEPT !.part = @ + 1]

\* A cell of any line, written or not.
Place == [line : Nat, part : Nat]

\* Every cell, and what comes after the last one, is a place.
LEMMA CellsArePlaces == Cell \subseteq Place /\ [line |-> MaxLines + 1, part |-> 1] \in Place
<1>1. ASSUME NEW c \in Cell PROVE c \in Place
  <2>1. /\ c = [line |-> c.line, part |-> c.part]
        /\ c.line \in 1 .. MaxLines /\ c.part \in 1 .. Parts[c.line]
    BY CellParts
  <2>2. c.line \in Nat /\ c.part \in Nat
    BY <2>1, Numbers
  <2>3. QED
    BY <2>1, <2>2 DEF Place
<1>2. QED
  BY <1>1, Numbers DEF Place

\* The order of places.
LEMMA BeforeTransitive ==
  ASSUME NEW c \in Place, NEW d \in Place, NEW e \in Place, Before(c, d), Before(d, e)
  PROVE  Before(c, e)
BY DEF Before, Place

\* What is written next comes after what was written.
LEMMA BeforeFollow ==
  ASSUME NEW c \in Place
  PROVE  Follow(c) \in Place /\ Before(c, Follow(c))
<1>1. CASE Newline(c)
  BY <1>1 DEF Follow, Before, Place
<1>2. CASE ~ Newline(c)
  <2>1. Follow(c) = [line |-> c.line, part |-> c.part + 1]
    BY <1>2 DEF Follow, Place
  <2>2. QED
    BY <2>1 DEF Before, Place
<1>3. QED
  BY <1>1, <1>2

\* A text goes on.
LEMMA WrittenOn ==
  ASSUME NEW c \in Seq(Place), Len(c) > 0, WellWritten(c), c[Len(c)].part > 0
  PROVE  WellWritten(Append(c, Follow(c[Len(c)])))
<1> DEFINE n == Len(c)
<1> DEFINE last == c[n]
<1> DEFINE e == Follow(last)
<1> DEFINE d == Append(c, e)
<1>1. n \in Nat \ {0} /\ last \in Place /\ \A i \in 1 .. n : c[i] \in Place
  BY LenProperties, ElementOfSeq
<1>2. e \in Place /\ Before(last, e)
  BY <1>1, BeforeFollow
<1>3. \/ Newline(last) /\ e = [line |-> last.line + 1, part |-> 1]
      \/ ~ Newline(last) /\ e = [line |-> last.line, part |-> last.part + 1]
  BY <1>1 DEF Follow, Place
<1>4. last.part \in Nat /\ last.line \in Nat
  BY <1>1 DEF Place
<1> HIDE DEF e
<1>5. Len(d) = n + 1 /\ (\A i \in 1 .. n : d[i] = c[i]) /\ d[n + 1] = e
  BY <1>2, AppendProperties
<1>6. \A j \in 1 .. n : /\ c[j].part <= j
                        /\ \A p \in 1 .. c[j].part :
                             c[j - c[j].part + p] = [line |-> c[j].line, part |-> p]
                        /\ j > 1 /\ c[j].part = 1 => Newline(c[j - 1])
  BY DEF WellWritten
<1> HIDE DEF d
<1>7. ASSUME NEW i \in 1 .. n + 1, NEW j \in 1 .. n + 1, i < j PROVE Before(d[i], d[j])
  <2>1. CASE j # n + 1
    BY <1>1, <1>5, <1>7, <2>1 DEF WellWritten
  <2>2. CASE j = n + 1
    <3>1. CASE i = n
      BY <1>1, <1>2, <1>5, <2>2, <3>1
    <3>2. CASE i # n
      <4>1. i \in 1 .. n /\ i < n /\ n \in 1 .. n
        BY <1>1, <1>7, <2>2, <3>2
      <4>2. Before(c[i], last)
        BY <4>1 DEF WellWritten
      <4>3. QED
        BY <1>1, <1>2, <1>5, <2>2, <4>1, <4>2, BeforeTransitive
    <3>3. QED
      BY <3>1, <3>2
  <2>3. QED
    BY <2>1, <2>2
<1>8. ASSUME NEW j \in 1 .. n
      PROVE  /\ d[j].part <= j
             /\ \A p \in 1 .. d[j].part :
                  d[j - d[j].part + p] = [line |-> d[j].line, part |-> p]
             /\ j > 1 /\ d[j].part = 1 => Newline(d[j - 1])
  <2>1. d[j] = c[j] /\ c[j].part \in Nat /\ c[j].part <= j
    BY <1>1, <1>5, <1>6 DEF Place
  <2>2. \A p \in 1 .. c[j].part : j - c[j].part + p \in 1 .. n
    BY <1>1, <2>1
  <2>3. j > 1 => d[j - 1] = c[j - 1]
    BY <1>5
  <2>4. QED
    BY <1>5, <1>6, <2>1, <2>2, <2>3
<1>9. e.part <= n + 1
  <2>1. last.part <= n
    BY <1>1, <1>6
  <2>2. QED
    BY <1>1, <1>3, <1>4, <2>1
<1>10. ASSUME NEW p \in 1 .. e.part
       PROVE  d[n + 1 - e.part + p] = [line |-> e.line, part |-> p]
  <2>1. CASE p = e.part
    <3>1. n + 1 - e.part + p = n + 1
      BY <1>1, <1>2, <2>1 DEF Place
    <3>2. QED
      BY <1>2, <1>5, <2>1, <3>1 DEF Place
  <2>2. CASE p # e.part
    <3>1. e.part = last.part + 1 /\ e.line = last.line /\ p \in 1 .. last.part
      BY <1>2, <1>3, <1>4, <1>10, <2>2 DEF Place
    <3>2. n \in 1 .. n /\ last.part <= n
      BY <1>1, <1>6
    <3>3. n + 1 - e.part + p = n - last.part + p /\ n - last.part + p \in 1 .. n
      BY <1>1, <1>4, <3>1, <3>2
    <3>4. c[n - last.part + p] = [line |-> last.line, part |-> p]
      BY <1>6, <3>1, <3>2
    <3>5. QED
      BY <1>5, <3>1, <3>3, <3>4
  <2>3. QED
    BY <2>1, <2>2
<1>11. e.part = 1 => Newline(d[n])
  BY <1>1, <1>3, <1>4, <1>5
<1>12. d[n + 1].part = 1 => Newline(d[n + 1 - 1])
  <2>1. n + 1 - 1 = n
    BY <1>1
  <2>2. QED
    BY <1>5, <1>11, <2>1
<1>13. n \in Nat /\ d[n + 1] = e /\ e.part \in Nat
  BY <1>1, <1>2, <1>5 DEF Place
<1> HIDE DEF n
<1>14. ASSUME NEW j \in 1 .. n + 1, ~ (j \in 1 .. n)
       PROVE  /\ d[j].part <= j
              /\ \A p \in 1 .. d[j].part :
                   d[j - d[j].part + p] = [line |-> d[j].line, part |-> p]
              /\ j > 1 /\ d[j].part = 1 => Newline(d[j - 1])
  <2>1. j = n + 1
    BY <1>13, <1>14
  <2>2. d[j] = e
    BY <1>13, <2>1
  <2>3. d[j].part <= j
    BY <1>9, <2>1, <2>2
  <2>4. ASSUME NEW p \in 1 .. d[j].part
        PROVE  d[j - d[j].part + p] = [line |-> d[j].line, part |-> p]
    <3>1. p \in 1 .. e.part
      BY <2>2
    <3>2. d[n + 1 - e.part + p] = [line |-> e.line, part |-> p]
      BY <1>10, <3>1
    <3>3. PICK v \in Nat : v = e.part
      BY <1>13
    <3>4. d[j].part = v /\ d[j].line = e.line /\ n \in Nat
      BY <1>13, <2>2, <3>3
    <3>5. j - v + p = n + 1 - v + p
      <4>1. p \in Nat /\ n \in Nat
        BY <1>13, <3>1, <3>3
      <4>2. j - v = n + 1 - v
        BY <2>1, <4>1
      <4>3. QED
        BY <4>1, <4>2
    <3>6. QED
      BY <3>2, <3>3, <3>4, <3>5
  <2>5. d[j].part = 1 => Newline(d[j - 1])
    <3>1. j - 1 = n /\ n + 1 - 1 = n
      BY <1>13, <2>1
    <3>2. QED
      BY <1>12, <2>1, <3>1
  <2>6. QED
    BY <2>3, <2>4, <2>5
<1>15. ASSUME NEW j \in 1 .. n + 1
       PROVE  /\ d[j].part <= j
              /\ \A p \in 1 .. d[j].part :
                   d[j - d[j].part + p] = [line |-> d[j].line, part |-> p]
              /\ j > 1 /\ d[j].part = 1 => Newline(d[j - 1])
  BY <1>8, <1>14
<1>16. QED
  <2>1. WellWritten(d)
    BY <1>5, <1>7, <1>15 DEF WellWritten, n
  <2>2. QED
    BY <2>1 DEF d, e, n

\* A text begins with a line.
LEMMA WrittenFirst ==
  ASSUME NEW e \in Place, e.part = 1
  PROVE  WellWritten(Append(<<>>, e))
<1>1. <<>> \in Seq(Place) /\ Len(<<>>) = 0
  BY EmptySeq
<1>2. Len(Append(<<>>, e)) = 1 /\ Append(<<>>, e)[1] = e
  BY <1>1, AppendProperties
<1>3. e = [line |-> e.line, part |-> 1]
  BY DEF Place
<1>4. QED
  BY <1>2, <1>3 DEF WellWritten

\* What a text with one more cell says of the text.
LEMMA WrittenBefore ==
  ASSUME NEW c \in Seq(Place), NEW e \in Place, WellWritten(Append(c, e))
  PROVE  /\ WellWritten(c)
         /\ \A i \in 1 .. Len(c) : Before(c[i], e)
         /\ e.part = 1 /\ Len(c) > 0 => Newline(c[Len(c)])
<1> DEFINE n == Len(c)
<1> DEFINE d == Append(c, e)
<1>1. n \in Nat /\ \A i \in 1 .. n : c[i] \in Place
  BY LenProperties, ElementOfSeq
<1>2. Len(d) = n + 1 /\ (\A i \in 1 .. n : d[i] = c[i] /\ i \in 1 .. n + 1) /\ d[n + 1] = e
      /\ n + 1 \in 1 .. n + 1
  BY <1>1, AppendProperties
<1>3. /\ \A i, j \in 1 .. n + 1 : i < j => Before(d[i], d[j])
      /\ \A j \in 1 .. n + 1 : /\ d[j].part <= j
                               /\ \A p \in 1 .. d[j].part :
                                    d[j - d[j].part + p] = [line |-> d[j].line, part |-> p]
                               /\ j > 1 /\ d[j].part = 1 => Newline(d[j - 1])
  BY <1>2 DEF WellWritten
<1> HIDE DEF d
<1>4. ASSUME NEW j \in 1 .. n
      PROVE  /\ c[j].part <= j
             /\ \A p \in 1 .. c[j].part :
                  c[j - c[j].part + p] = [line |-> c[j].line, part |-> p]
             /\ j > 1 /\ c[j].part = 1 => Newline(c[j - 1])
  <2>1. d[j] = c[j] /\ c[j].part \in Nat /\ c[j].part <= j /\ j \in 1 .. n + 1
    BY <1>1, <1>2, <1>3 DEF Place
  <2>2. \A p \in 1 .. c[j].part : j - c[j].part + p \in 1 .. n
    BY <1>1, <2>1
  <2>3. j > 1 => d[j - 1] = c[j - 1]
    BY <1>2
  <2>4. QED
    BY <1>2, <1>3, <2>1, <2>2, <2>3
<1>5. \A i, j \in 1 .. n : i < j => Before(c[i], c[j])
  BY <1>2, <1>3
<1>6. \A i \in 1 .. n : Before(c[i], e)
  <2>1. \A i \in 1 .. n : i < n + 1
    BY <1>1
  <2>2. QED
    BY <1>2, <1>3, <2>1
<1>7. e.part = 1 /\ n > 0 => Newline(c[n])
  <2>1. (n + 1) - 1 = n /\ (n > 0 => n \in 1 .. n /\ n + 1 > 1)
    BY <1>1
  <2>2. QED
    BY <1>2, <1>3, <2>1
<1>8. WellWritten(c)
  BY <1>4, <1>5 DEF WellWritten
<1>9. QED
  BY <1>6, <1>7, <1>8

\* Texts of cells are texts of places, and so is the next cell.
LEMMA TextsArePlaces ==
  ASSUME Shape
  PROVE  /\ Seq(Cell) \subseteq Seq(Place)
         /\ next \in Place
         /\ at # 0 => content[at] \in Seq(Cell) /\ content[at] \in Seq(Place)
<1>1. ASSUME NEW s \in Seq(Cell) PROVE s \in Seq(Place)
  <2>1. Len(s) \in Nat /\ s \in [1 .. Len(s) -> Cell]
    BY LenProperties
  <2>2. s \in [1 .. Len(s) -> Place]
    BY <2>1, CellsArePlaces
  <2>3. QED
    BY <2>1, <2>2, SeqDef
<1>2. next \in Place
  BY CellsArePlaces DEF Shape, TypeOK
<1>3. at # 0 => content[at] \in Seq(Cell)
  BY DEF Shape, TypeOK
<1>4. QED
  BY <1>1, <1>2, <1>3

\* The file at the path is well written, and what it holds comes before the next cell.
LEMMA TextAtPath ==
  ASSUME Shape, Written, at # 0
  PROVE  /\ WellWritten(content[at])
         /\ \A i \in 1 .. Len(content[at]) : Before(content[at][i], next)
         /\ next.part = 1 /\ Len(content[at]) > 0 => Newline(content[at][Len(content[at])])
<1>1. next \in Place /\ content[at] \in Seq(Place)
  BY TextsArePlaces
<1>2. CASE writer = at
  <2>1. WellWritten(Append(content[at], next))
    BY <1>2 DEF Written
  <2>2. QED
    BY <1>1, <2>1, WrittenBefore
<1>3. CASE writer # at
  <2>1. content[at] = <<>> /\ Len(<<>>) = 0
    BY <1>3, EmptySeq DEF Written
  <2>2. QED
    BY <2>1 DEF WellWritten
<1>4. QED
  BY <1>2, <1>3

\* What a write does when rotations and the start are quiet.
LEMMA WriteEffect ==
  ASSUME Quiet, Shape, Write
  PROVE  /\ at \in Inode /\ at # 0 /\ writer = at /\ next \in Cell
         /\ content'[at] = Append(content[at], next) /\ next' = Follow(next)
         /\ pc # "primed"
         /\ content[at] = <<>> /\ Watched /\ tracked /\ inode = at => offset = 0
         /\ UNCHANGED <<at, writer, rotations, mode, pc, drains, stateVars, givenVars>>
         /\ Turnover' <=> Turnover
<1>1. /\ at \in Inode /\ at # 0 /\ writer = at /\ next.line <= MaxLines
      /\ content' = [content EXCEPT ![at] = Append(@, next)]
      /\ next' = Follow(next)
      /\ UNCHANGED <<at, writer, rotations, mode, pc, drains, stateVars, givenVars>>
      /\ Enqueue("modify") \/ UNCHANGED events
      /\ pc # "primed"
      /\ content[at] = <<>> /\ Watched /\ tracked /\ inode = at => offset = 0
  BY DEF Write, MayWrite, Quiet, Shape, TypeOK, Follow
<1>2. next \in Cell
  BY <1>1, Numbers DEF Shape, TypeOK
<1>3. content'[at] = Append(content[at], next)
  BY <1>1 DEF Shape, TypeOK
<1>4. Turnover' <=> Turnover
  BY <1>1, ModifyKeepsQueue
<1>5. QED
  BY <1>1, <1>2, <1>3, <1>4

\* How the file at the path is written.
LEMMA WrittenWorld ==
  ASSUME Quiet, Shape, Written, World
  PROVE  Written'
<1>1. CASE Write
  <2> DEFINE d == Append(content[at], next)
  <2>1. /\ at # 0 /\ at' = at /\ writer' = at /\ writer = at /\ next \in Cell
        /\ content'[at] = d /\ next' = Follow(next)
    BY <1>1, WriteEffect
  <2>2. /\ content[at] \in Seq(Place) /\ next \in Place
    BY <2>1, TextsArePlaces
  <2>3. /\ d \in Seq(Place) /\ Len(d) = Len(content[at]) + 1 /\ d[Len(content[at]) + 1] = next
        /\ Len(content[at]) \in Nat
    BY <2>2, AppendProperties, LenProperties
  <2>4. WellWritten(d)
    BY <2>1 DEF Written
  <2>5. next.part > 0
    BY <2>1, CellParts, Numbers
  <2> HIDE DEF d
  <2>6. d[Len(d)] = next /\ Len(d) > 0
    BY <2>3
  <2>7. WellWritten(Append(d, Follow(d[Len(d)])))
    BY <2>3, <2>4, <2>5, <2>6, WrittenOn
  <2>8. QED
    BY <2>1, <2>6, <2>7 DEF Written
<1>2. CASE Reopen
  <2>1. /\ at # 0 /\ writer # at /\ writer' = at /\ UNCHANGED <<content, at>>
        /\ next' = IF next.part = 1 THEN next ELSE [line |-> next.line + 1, part |-> 1]
    BY <1>2 DEF Reopen
  <2>2. content[at] = <<>>
    BY <2>1 DEF Written
  <2>3. next' \in Place /\ next'.part = 1
    BY <2>1, TextsArePlaces DEF Place
  <2>4. QED
    BY <2>1, <2>2, <2>3, WrittenFirst DEF Written
<1>3. CASE \E how \in Rotations : Unlink(how)
  BY <1>3 DEF Unlink, Written
<1>4. CASE Create
  <2>1. content'[at'] = <<>> /\ writer' # at'
    BY <1>4, ShapeCreate DEF Create
  <2>2. QED
    BY <2>1 DEF Written
<1>5. CASE Truncate
  <2>1. /\ at \in Inode /\ content' = [content EXCEPT ![at] = <<>>]
        /\ UNCHANGED <<at, writer, next>> /\ next.part = 1
    BY <1>5, QuietRotate DEF Truncate, Quiet
  <2>2. content'[at'] = <<>>
    BY <2>1 DEF Shape, TypeOK
  <2>3. next' \in Place /\ next'.part = 1
    BY <2>1, TextsArePlaces
  <2>4. QED
    BY <2>1, <2>2, <2>3, WrittenFirst DEF Written
<1>6. QED
  BY <1>1, <1>2, <1>3, <1>4, <1>5 DEF World

\* A stretch of a text without a newline before its end is of one line.
LEMMA RunInLine ==
  ASSUME NEW c \in Seq(Cell), WellWritten(c),
         NEW a \in Nat, NEW b \in Nat, a < b, b <= Len(c),
         \A j \in a + 1 .. b - 1 : ~ Newline(c[j])
  PROVE  /\ c[b].line \in 1 .. MaxLines /\ c[b].part \in 1 .. Parts[c[b].line]
         /\ b - a <= c[b].part /\ c[b].part <= b
         /\ \A p \in 1 .. c[b].part : c[b - c[b].part + p] = [line |-> c[b].line, part |-> p]
<1> DEFINE q == c[b].part
<1>1. Len(c) \in Nat /\ b \in 1 .. Len(c) /\ c[b] \in Cell
  BY LenProperties, ElementOfSeq
<1>2. c[b].line \in 1 .. MaxLines /\ q \in 1 .. Parts[c[b].line]
  BY <1>1, CellParts
<1>3. q \in Nat \ {0}
  BY <1>2, Numbers
<1>4. q <= b /\ \A p \in 1 .. q : c[b - q + p] = [line |-> c[b].line, part |-> p]
  BY <1>1 DEF WellWritten
<1> HIDE DEF q
<1>5. ASSUME q < b - a PROVE FALSE
  <2>1. 1 \in 1 .. q /\ b - q + 1 \in 1 .. Len(c) /\ b - q + 1 > 1 /\ b - q \in a + 1 .. b - 1
    BY <1>1, <1>3, <1>5
  <2>2. c[b - q + 1].part = 1
    <3>1. c[b - q + 1] = [line |-> c[b].line, part |-> 1]
      BY <1>4, <2>1
    <3>2. QED
      BY <3>1
  <2>3. Newline(c[b - q + 1 - 1])
    BY <2>1, <2>2 DEF WellWritten
  <2>4. b - q + 1 - 1 = b - q
    BY <1>3
  <2>5. QED
    BY <2>1, <2>3, <2>4
<1>6. b - a <= q
  BY <1>3, <1>5
<1>7. QED
  BY <1>2, <1>4, <1>6 DEF q
\* A stretch of a text from a cut to a newline, or of more than the limit, is a line or a
\* piece of one over the limit.
LEMMA WholeRun ==
  ASSUME NEW c \in Seq(Cell), WellWritten(c),
         NEW a \in Nat, NEW b \in Nat, a < b, b <= Len(c),
         \A j \in a + 1 .. b - 1 : ~ Newline(c[j]),
         CutAt(c, a),
         Newline(c[b]) \/ b - a > LineLimit,
         NEW text \in Seq(Cell), Len(text) = b - a,
         \A i \in 1 .. b - a : text[i] = c[a + i]
  PROVE  WholeLine(text)
<1> DEFINE n == c[b].line
<1> DEFINE q == c[b].part
<1> DEFINE f == q - (b - a) + 1
<1>1. /\ n \in 1 .. MaxLines /\ q \in 1 .. Parts[n]
      /\ b - a <= q /\ q <= b
      /\ \A p \in 1 .. q : c[b - q + p] = [line |-> n, part |-> p]
  BY RunInLine
<1>2. q \in Nat \ {0} /\ Parts[n] \in Nat /\ n \in Nat
  BY <1>1, Numbers
<1>3. Newline(c[b]) <=> q = Parts[n]
  BY DEF Newline
<1> HIDE DEF n, q
<1>4. f \in 1 .. q /\ q - f + 1 = b - a
  BY <1>1, <1>2
<1>5. LineOf(n) \in Seq(Cell) /\ Len(LineOf(n)) = Parts[n]
      /\ \A p \in 1 .. Parts[n] : LineOf(n)[p] = [line |-> n, part |-> p]
  <2>1. LineOf(n) \in [1 .. Parts[n] -> Cell]
    BY <1>1, CellMade DEF LineOf
  <2>2. LineOf(n) \in Seq(Cell)
    BY <1>2, <2>1, SeqDef
  <2>3. DOMAIN LineOf(n) = 1 .. Parts[n]
    BY DEF LineOf
  <2>4. Len(LineOf(n)) = Parts[n]
    BY <1>2, <2>2, <2>3, LenProperties
  <2>5. QED
    BY <2>2, <2>4 DEF LineOf
<1>6. ASSUME NEW i \in 1 .. b - a PROVE text[i] = [line |-> n, part |-> f - 1 + i]
  <2>1. f - 1 + i \in 1 .. q /\ b - q + (f - 1 + i) = a + i
    <3>1. q \in Nat /\ a \in Nat /\ b \in Nat /\ i \in Nat /\ 1 <= i /\ i <= b - a
          /\ b - a <= q
      BY <1>1, <1>2
    <3>2. f - 1 + i = q - (b - a) + i
      BY <3>1
    <3>3. QED
      BY <3>1, <3>2
  <2>2. c[b - q + (f - 1 + i)] = [line |-> n, part |-> f - 1 + i]
    BY <1>1, <2>1
  <2>3. text[i] = c[a + i]
    OBVIOUS
  <2>4. QED
    BY <2>1, <2>2, <2>3
<1>7. CASE Parts[n] > LineLimit
  <2>1. f \in 1 .. Parts[n] /\ q \in 1 .. Parts[n] /\ f <= q
    BY <1>1, <1>2, <1>4
  <2> HIDE DEF f
  <2>2. /\ SubSeq(LineOf(n), f, q) \in Seq(Cell)
        /\ Len(SubSeq(LineOf(n), f, q)) = q - f + 1
        /\ \A i \in 1 .. q - f + 1 : SubSeq(LineOf(n), f, q)[i] = LineOf(n)[f + i - 1]
    <3>1. \A i \in f .. q : LineOf(n)[i] \in Cell
      <4>1. \A i \in f .. q : i \in 1 .. Len(LineOf(n))
        BY <1>2, <1>5, <2>1
      <4>2. QED
        BY <1>5, <4>1, ElementOfSeq
    <3>2. f \in Int /\ q \in Int
      BY <1>2, <2>1
    <3>3. /\ SubSeq(LineOf(n), f, q) \in Seq(Cell)
          /\ Len(SubSeq(LineOf(n), f, q)) = IF f <= q THEN q - f + 1 ELSE 0
          /\ \A i \in 1 .. q - f + 1 : SubSeq(LineOf(n), f, q)[i] = LineOf(n)[f + i - 1]
      BY <3>1, <3>2, SubSeqProperties
    <3>4. QED
      BY <2>1, <3>3
  <2>3. \A i \in 1 .. b - a : text[i] = SubSeq(LineOf(n), f, q)[i]
    <3>1. ASSUME NEW i \in 1 .. b - a PROVE text[i] = SubSeq(LineOf(n), f, q)[i]
      <4>1. f + i - 1 \in 1 .. Parts[n] /\ f + i - 1 = f - 1 + i /\ i \in 1 .. q - f + 1
        <5>1. f \in Nat /\ i \in Nat /\ q \in Nat /\ 1 <= f /\ 1 <= i /\ i <= q - f + 1
          BY <1>2, <1>4, <2>1
        <5>2. PICK m \in Nat : m = Parts[n] /\ q <= m
          BY <1>2, <2>1
        <5>3. f + i - 1 \in 1 .. m
          BY <5>1, <5>2
        <5>4. f + i - 1 = f - 1 + i /\ i \in 1 .. q - f + 1
          BY <5>1
        <5>5. QED
          BY <5>2, <5>3, <5>4
      <4>2. SubSeq(LineOf(n), f, q)[i] = [line |-> n, part |-> f + i - 1]
        BY <1>5, <2>2, <4>1
      <4>3. QED
        BY <1>6, <4>1, <4>2
    <3>2. QED
      BY <3>1
  <2>4. text = SubSeq(LineOf(n), f, q)
    BY <1>4, <2>2, <2>3, SeqEqual
  <2>5. QED
    BY <1>1, <1>7, <2>1, <2>4 DEF WholeLine
<1>8. CASE ~ (Parts[n] > LineLimit)
  <2>1. q = Parts[n]
    <3>1. ~ (b - a > LineLimit)
      BY <1>1, <1>2, <1>8, Numbers
    <3>2. QED
      BY <1>3, <3>1
  <2>2. f = 1
    <3> SUFFICES ASSUME f # 1 PROVE FALSE
      OBVIOUS
    <3>1. f - 1 \in 1 .. q /\ b - q + (f - 1) = a /\ f - 1 < q /\ a # 0
      BY <1>1, <1>2, <1>4
    <3>2. c[b - q + (f - 1)] = [line |-> n, part |-> f - 1]
      BY <1>1, <3>1
    <3>3. c[a] = [line |-> n, part |-> f - 1]
      BY <3>1, <3>2
    <3>4. ~ Newline(c[a])
      <4>1. f - 1 # Parts[n]
        BY <2>1, <3>1
      <4>2. QED
        BY <3>3, <4>1 DEF Newline
    <3>5. c[a].line = n
      BY <3>3
    <3>6. QED
      BY <1>8, <3>1, <3>4, <3>5 DEF CutAt
  <2>3. b - a = Parts[n]
    BY <1>2, <1>4, <2>1, <2>2
  <2>4. \A i \in 1 .. Parts[n] : text[i] = LineOf(n)[i]
    <3>1. ASSUME NEW i \in 1 .. Parts[n] PROVE text[i] = LineOf(n)[i]
      <4>1. i \in 1 .. b - a /\ f - 1 + i = i
        BY <2>2, <2>3
      <4>2. QED
        BY <1>5, <1>6, <4>1
    <3>2. QED
      BY <3>1
  <2>5. text = LineOf(n)
    BY <1>5, <2>3, <2>4, SeqEqual
  <2>6. QED
    BY <1>1, <2>5 DEF WholeLine
<1>9. QED
  BY <1>7, <1>8

\* What is in step stays so, as long as nothing that it is about changes.
LEMMA SyncKept ==
  ASSUME Sync, UNCHANGED <<content, at, offset, inode, pending, delivered>>,
         Turnover' <=> Turnover, pc = "stopped" => pc' = "stopped"
  PROVE  Sync'
BY DEF Sync, Stale, InStep, CutAt, UnreadFrom, Cut, Newlines

\* The watcher begins a file.
LEMMA SyncReset ==
  ASSUME Shape, at # 0 => UnreadFrom(0), UNCHANGED <<content, at, delivered>>,
         offset' = 0, pending' = <<>>, inode' \in {0, at}
  PROVE  Sync'
<1>1. CASE at = 0
  BY <1>1 DEF Sync
<1>2. CASE at # 0
  <2>1. Len(content[at]) \in Nat /\ Len(<<>>) = 0
    BY <1>2, LenProperties, EmptySeq DEF Shape, TypeOK
  <2>2. Cut' = 0 /\ ~ (offset' > Len(content[at]))
    <3>1. Len(pending') = 0 /\ offset' = 0 /\ Len(content[at]) \in Nat
      BY <2>1
    <3>2. Cut' = 0
      <4>1. Cut' = 0 - 0
        BY <3>1, Zenon DEF Cut
      <4>2. 0 - 0 = 0
        OBVIOUS
      <4>3. QED
        BY <4>1, <4>2, Zenon
    <3>3. QED
      BY <3>1, <3>2
  <2>3. UnreadFrom(0)' /\ UnreadFrom(Cut)'
    BY <1>2, <2>2 DEF UnreadFrom
  <2>4. InStep'
    BY <2>1, <2>2, <2>3 DEF InStep, CutAt, Newlines
  <2>5. QED
    BY <2>2, <2>3, <2>4 DEF Sync
<1>3. QED
  BY <1>1, <1>2

\* A file that the record says nothing of is unread.
LEMMA FreshUnread ==
  ASSUME Shape, Sync, pc # "stopped", inode = 0 \/ Stale
  PROVE  at # 0 => UnreadFrom(0)
<1> SUFFICES ASSUME at # 0 PROVE UnreadFrom(0)
  OBVIOUS
<1>1. CASE Stale
  BY <1>1 DEF Sync
<1>2. CASE inode = 0 /\ ~ Stale
  <2>1. offset = 0 /\ pending = <<>> /\ Len(<<>>) = 0
    BY <1>2, EmptySeq DEF Shape, Record
  <2>2. Cut = 0
    <3>1. Len(pending) = 0 /\ offset = 0
      BY <2>1
    <3>2. QED
      BY <3>1 DEF Cut
  <2>3. QED
    BY <1>2, <2>2 DEF Sync, InStep
<1>3. QED
  BY <1>1, <1>2
\* Nothing the world does puts the record out of step unnoticed.
LEMMA SyncWrite ==
  ASSUME Quiet, Shape, Written, Sync, GivenBefore, Write
  PROVE  Sync' /\ GivenBefore'
<1> DEFINE c == content[at]
<1>1. /\ at \in Inode /\ at # 0 /\ writer = at /\ next \in Cell
      /\ content'[at] = Append(c, next) /\ next' = Follow(next)
      /\ pc # "primed"
      /\ c = <<>> /\ Watched /\ tracked /\ inode = at => offset = 0
      /\ UNCHANGED <<at, writer, rotations, mode, pc, drains, stateVars, givenVars>>
      /\ Turnover' <=> Turnover
  BY WriteEffect
<1>2. c \in Seq(Cell) /\ Len(c) \in Nat /\ next \in Place
  BY <1>1, LenProperties, TextsArePlaces
<1>3. Len(content'[at]) = Len(c) + 1 /\ (\A i \in 1 .. Len(c) : content'[at][i] = c[i])
      /\ content'[at][Len(c) + 1] = next
  BY <1>1, <1>2, AppendProperties
<1>4. at' = at /\ UNCHANGED <<pc, tracked, offset, inode, pending, delivered>>
  BY <1>1 DEF stateVars, givenVars
<1> HIDE DEF c
<1>5. ASSUME NEW k \in Nat, UnreadFrom(k) PROVE UnreadFrom(k)'
  <2> SUFFICES ASSUME NEW d \in 1 .. Len(delivered), NEW j \in 1 .. Len(c) + 1, k < j
               PROVE  Before(delivered[d], content'[at][j])
    BY <1>3, <1>4 DEF UnreadFrom
  <2>1. CASE j \in 1 .. Len(c)
    BY <1>3, <1>5, <2>1 DEF UnreadFrom, c
  <2>2. CASE j = Len(c) + 1
    BY <1>3, <2>2 DEF GivenBefore
  <2>3. QED
    BY <1>2, <2>1, <2>2
<1>6. ASSUME pc # "stopped" PROVE ~ (inode = at /\ offset > Len(c))
  <2> SUFFICES ASSUME inode = at, offset > Len(c) PROVE FALSE
    OBVIOUS
  <2>1. c = <<>>
    BY <1>1, <1>6 DEF Sync, c
  <2>2. Watched /\ tracked
    BY <1>1, <1>6 DEF Watched, Shape, Record
  <2>3. offset = 0
    BY <1>1, <2>1, <2>2
  <2>4. QED
    BY <1>2, <2>3
<1>7. offset \in Nat
  BY DEF Shape, TypeOK
<1>8. Sync'
  <2> SUFFICES ASSUME pc # "stopped"
               PROVE  /\ Stale' => UnreadFrom(0)'
                      /\ ~ (inode = at /\ offset > Len(c) + 1)
                      /\ ~ Stale' => InStep'
    BY <1>1, <1>3, <1>4 DEF Sync
  <2>1. Stale' => Stale
    BY <1>1, <1>2, <1>3, <1>4, <1>7 DEF Stale, c
  <2>2. ~ (inode = at /\ offset > Len(c) + 1)
    BY <1>2, <1>6, <1>7
  <2>3. ASSUME ~ Stale' PROVE ~ Stale
    <3>1. inode \in {0, at} /\ ~ Turnover
      BY <1>1, <1>4, <2>3 DEF Stale
    <3>2. inode = 0 => offset = 0
      BY DEF Shape, Record
    <3>3. ~ (offset > Len(c))
      BY <1>2, <1>6, <3>1, <3>2
    <3>4. QED
      BY <3>1, <3>3 DEF Stale, c
  <2>4. ASSUME ~ Stale' PROVE InStep'
    <3>1. InStep
      BY <1>1, <2>3, <2>4 DEF Sync
    <3>2. Cut \in 0 .. Len(c) /\ CutAt(c, Cut) /\ UnreadFrom(Cut)
          /\ (\A i \in 1 .. Len(pending) : pending[i] = c[Cut + i]) /\ Newlines(pending) = {}
      BY <3>1 DEF InStep, c
    <3>3. Cut' = Cut
      BY <1>4 DEF Cut
    <3>4. Len(pending) \in Nat /\ Cut = offset - Len(pending) /\ offset <= Len(c)
      <4>1. Len(pending) \in Nat
        BY LenProperties DEF Shape, TypeOK
      <4>2. ~ (offset > Len(c))
        BY <2>3, <2>4 DEF Stale, c
      <4>3. QED
        BY <1>2, <1>7, <4>1, <4>2 DEF Cut
    <3>5. \A i \in 1 .. Len(pending) : pending[i] = content'[at][Cut + i]
      <4>1. \A i \in 1 .. Len(pending) : Cut + i \in 1 .. Len(c)
        BY <1>2, <1>7, <3>2, <3>4
      <4>2. QED
        BY <1>3, <3>2, <4>1
    <3>6. CutAt(content'[at], Cut)
      <4>1. Cut = 0 \/ Cut \in 1 .. Len(c)
        BY <1>2, <3>2
      <4>2. QED
        BY <1>3, <3>2, <4>1 DEF CutAt
    <3>7. UnreadFrom(Cut)'
      <4>1. PICK k \in Nat : k = Cut
        BY <1>2, <3>2
      <4>2. UnreadFrom(k)'
        BY <1>5, <3>2, <4>1
      <4>3. QED
        BY <3>3, <4>1, <4>2 DEF UnreadFrom
    <3>8. Cut \in 0 .. Len(c) + 1
      BY <1>2, <3>2
    <3>9. QED
      BY <1>3, <1>4, <3>2, <3>3, <3>5, <3>6, <3>7, <3>8 DEF InStep, CutAt, Newlines
  <2>5. Stale' => UnreadFrom(0)'
    BY <1>1, <1>5, <2>1 DEF Sync
  <2>6. QED
    BY <2>2, <2>4, <2>5
<1>9. GivenBefore'
  <2>1. next' \in Place /\ Before(next, next')
    BY <1>1, <1>2, BeforeFollow
  <2>2. \A d \in 1 .. Len(delivered) : delivered[d] \in Place
    BY ElementOfSeq, CellsArePlaces DEF Shape, TypeOK
  <2>3. \A d \in 1 .. Len(delivered) : Before(delivered[d], next')
    BY <1>2, <2>1, <2>2, BeforeTransitive DEF GivenBefore
  <2>4. QED
    BY <1>4, <2>3 DEF GivenBefore
<1>10. QED
  BY <1>8, <1>9

\* The same of the other steps of the world.
LEMMA SyncWorld ==
  ASSUME Quiet, Shape, Written, Sync, GivenBefore, World
  PROVE  Sync' /\ GivenBefore'
<1>1. CASE Write
  BY <1>1, SyncWrite
<1>2. CASE Reopen
  <2>1. /\ UNCHANGED <<content, at, offset, inode, pending, delivered, events, pc>>
        /\ next' = IF next.part = 1 THEN next ELSE [line |-> next.line + 1, part |-> 1]
    BY <1>2 DEF Reopen, stateVars, givenVars
  <2>2. Sync'
    BY <2>1, SyncKept DEF Turnover
  <2>3. next \in Place /\ \A d \in 1 .. Len(delivered) : delivered[d] \in Place
    BY TextsArePlaces, ElementOfSeq, CellsArePlaces DEF Shape, TypeOK
  <2>4. \A d \in 1 .. Len(delivered) : Before(delivered[d], next')
    <3>1. CASE next.part = 1
      BY <2>1, <3>1 DEF GivenBefore
    <3>2. CASE next.part # 1
      <4>1. next'.line = next.line + 1 /\ next.line \in Nat
        BY <2>1, <2>3, <3>2 DEF Place
      <4>2. ASSUME NEW d \in 1 .. Len(delivered) PROVE Before(delivered[d], next')
        <5>1. delivered[d].line \in Nat /\ Before(delivered[d], next)
          BY <2>3 DEF GivenBefore, Place
        <5>2. delivered[d].line < next'.line
          BY <4>1, <5>1 DEF Before
        <5>3. QED
          BY <5>2 DEF Before
      <4>3. QED
        BY <4>2
    <3>3. QED
      BY <3>1, <3>2
  <2>5. GivenBefore'
    BY <2>1, <2>4 DEF GivenBefore
  <2>6. QED
    BY <2>2, <2>5
<1>3. CASE \E how \in Rotations : Unlink(how)
  <2>1. at' = 0 /\ UNCHANGED <<next, delivered>>
    BY <1>3 DEF Unlink, givenVars
  <2>2. QED
    BY <2>1 DEF Sync, GivenBefore
<1>4. CASE Create
  <2>1. /\ content'[at'] = <<>> /\ inode # at' /\ Len(<<>>) = 0
        /\ UNCHANGED <<next, offset, inode, pending, delivered>>
    BY <1>4, ShapeCreate, EmptySeq DEF Create, stateVars, givenVars
  <2>2. inode = 0 => Len(pending) = 0 /\ offset = 0 /\ pending = <<>>
    BY <2>1 DEF Shape, Record
  <2>3. \A k : UnreadFrom(k)'
    BY <2>1 DEF UnreadFrom
  <2>4. ASSUME ~ Stale' PROVE InStep'
    <3>1. inode = 0
      BY <2>1, <2>4 DEF Stale
    <3>2. Len(pending') = 0 /\ offset' = 0 /\ pending' = <<>>
      BY <2>1, <2>2, <3>1
    <3>3. Cut' = 0
      <4>1. Len(pending') = 0 /\ offset' = 0
        BY <3>2
      <4>2. QED
        BY <4>1 DEF Cut
    <3>4. Len(content'[at']) = 0
      BY <2>1
    <3>5. UnreadFrom(Cut)'
      BY <2>1 DEF UnreadFrom
    <3>6. Newlines(pending') = {}
      BY <3>2 DEF Newlines
    <3>7. QED
      BY <3>2, <3>3, <3>4, <3>5, <3>6 DEF InStep, CutAt
  <2>5. UnreadFrom(0)'
    BY <2>1 DEF UnreadFrom
  <2>6. Sync'
    BY <2>1, <2>4, <2>5 DEF Sync
  <2>7. QED
    BY <2>1, <2>6 DEF GivenBefore
<1>5. CASE Truncate
  <2>1. /\ at \in Inode /\ content' = [content EXCEPT ![at] = <<>>]
        /\ UNCHANGED <<at, next, offset, inode, pending, delivered>>
        /\ inode = at /\ offset = Len(content[at]) /\ content[at] # <<>>
    BY <1>5, QuietRotate DEF Truncate, stateVars, givenVars
  <2>2. content'[at'] = <<>> /\ Len(content'[at']) = 0
    <3>1. content'[at'] = <<>>
      BY <2>1 DEF Shape, TypeOK
    <3>2. QED
      BY <3>1, EmptySeq
  <2>3. offset > 0
    <3>1. content[at] \in Seq(Cell)
      BY <2>1 DEF Shape, TypeOK
    <3>2. Len(content[at]) \in Nat /\ Len(content[at]) # 0
      BY <2>1, <3>1, LenProperties, EmptySeq
    <3>3. QED
      BY <2>1, <3>2
  <2>4. Stale' /\ UnreadFrom(0)'
    BY <2>1, <2>2, <2>3 DEF Stale, UnreadFrom
  <2>5. Sync'
    BY <2>2, <2>4 DEF Sync
  <2>6. QED
    BY <2>1, <2>5 DEF GivenBefore
<1>6. QED
  BY <1>1, <1>2, <1>3, <1>4, <1>5 DEF World
\* The watcher's steps that read nothing.
LEMMA SyncWatcher ==
  ASSUME Quiet, Shape, Written, Sync, Watcher, ~ Read
  PROVE  Sync' /\ UNCHANGED <<fileVars, givenVars>>
<1>1. CASE Prime
  <2>1. /\ pc = "new" /\ pc' = "primed" /\ next.part = 1
        /\ UNCHANGED <<fileVars, events, givenVars>>
        /\ at # 0 => inode' = at /\ offset' = Len(content[at]) /\ pending' = pending
    BY <1>1 DEF Prime, Quiet
  <2>2. UNCHANGED <<content, at, delivered>>
    BY <2>1 DEF fileVars, givenVars
  <2>3. pending = <<>> /\ Len(<<>>) = 0 /\ ~ Turnover
    BY <2>1, EmptySeq DEF Shape, Record, Queue
  <2>4. ASSUME at # 0 PROVE InStep' /\ ~ Stale' /\ offset' = Len(content[at])
    <3>1. Len(content[at]) \in Nat
      BY <2>4, LenProperties DEF Shape, TypeOK
    <3>2. offset' = Len(content[at]) /\ pending' = <<>> /\ Len(pending') = 0 /\ inode' = at
      BY <2>1, <2>3, <2>4
    <3>3. Cut' = Len(content[at])
      <4>1. offset' = Len(content[at]) /\ Len(pending') = 0
        BY <3>2
      <4>2. QED
        BY <3>1, <4>1 DEF Cut
    <3>4. CutAt(content[at], Len(content[at]))
      <4>1. Len(content[at]) > 0 => Newline(content[at][Len(content[at])])
        BY <2>1, <2>4, TextAtPath
      <4>2. QED
        BY <3>1, <4>1 DEF CutAt
    <3>5. CutAt(content[at], Cut)'
      BY <2>2, <3>3, <3>4 DEF CutAt
    <3>6. UnreadFrom(Cut)'
      BY <2>2, <3>1, <3>3 DEF UnreadFrom
    <3>7. Newlines(pending') = {} /\ \A i \in 1 .. Len(pending') : i \in {}
      BY <3>2 DEF Newlines
    <3>8. InStep'
      BY <2>2, <3>1, <3>3, <3>5, <3>6, <3>7 DEF InStep, Newlines
    <3>9. ~ Stale'
      BY <2>1, <2>2, <2>3, <3>1, <3>2 DEF Stale, Turnover
    <3>10. QED
      BY <3>2, <3>8, <3>9
  <2>5. Sync'
    <3>1. at # 0 => Len(content[at]) \in Nat
      BY LenProperties DEF Shape, TypeOK
    <3>2. QED
      BY <2>2, <2>4, <3>1 DEF Sync
  <2>6. QED
    BY <2>1, <2>5
<1>2. CASE AddWatch \/ HandleModify
  <2>1. UNCHANGED <<fileVars, stateVars, givenVars>> /\ pc # "stopped" /\ pc' # "stopped"
    BY <1>2 DEF AddWatch, HandleModify
  <2>2. Turnover' <=> Turnover
    <3>1. CASE AddWatch
      BY <3>1 DEF AddWatch, Turnover
    <3>2. CASE HandleModify
      BY <3>2, ShapeModified
    <3>3. QED
      BY <1>2, <3>1, <3>2
  <2>3. QED
    BY <2>1, <2>2, SyncKept DEF fileVars, stateVars, givenVars
<1>3. CASE HandleRemove \/ HandleCreate
  <2>1. /\ pc # "stopped" /\ UNCHANGED <<fileVars, givenVars>>
        /\ offset' = 0 /\ inode' = 0 /\ pending' = <<>>
    BY <1>3 DEF HandleRemove, HandleCreate, Forget
  <2>2. Turnover
    BY <1>3, ShapeRemove, ShapeCreated
  <2>3. at # 0 => UnreadFrom(0)
    BY <2>1, <2>2, FreshUnread DEF Stale
  <2>4. Sync'
    BY <2>1, <2>3, SyncReset DEF fileVars, givenVars
  <2>5. QED
    BY <2>1, <2>4
<1>4. CASE HandleOverflow \/ Poll
  <2>1. pc # "stopped" /\ pc' # "stopped" /\ UNCHANGED <<fileVars, givenVars>> /\ Rescan
    BY <1>4 DEF HandleOverflow, Poll, Rescan
  <2>2. ~ Turnover' /\ ~ Turnover
    BY <1>4, ShapeRescan
  <2>3. CASE tracked \/ at = 0
    <3>1. UNCHANGED stateVars
      BY <2>1, <2>3 DEF Rescan
    <3>2. QED
      BY <2>1, <2>2, <3>1, SyncKept DEF fileVars, stateVars, givenVars
  <2>4. CASE ~ (tracked \/ at = 0)
    <3>1. inode' = at /\ offset' = 0 /\ pending' = <<>>
      BY <2>1, <2>4 DEF Rescan
    <3>2. inode = 0
      BY <2>4 DEF Shape, Record
    <3>3. Sync'
      BY <2>1, <3>1, <3>2, FreshUnread, SyncReset DEF fileVars, givenVars
    <3>4. QED
      BY <2>1, <3>3
  <2>5. QED
    BY <2>3, <2>4
<1>5. CASE Stat
  <2>1. pc # "stopped" /\ pc' # "stopped" /\ UNCHANGED <<fileVars, givenVars>>
    BY <1>5 DEF Stat, Drained
  <2>2. ~ Turnover' /\ ~ Turnover
    BY <1>5, ShapeStat
  <2>3. CASE at = 0
    BY <2>1, <2>3 DEF Sync, fileVars
  <2>4. CASE at # 0
    <3> DEFINE size == Len(content[at])
    <3>1. /\ inode' = at
          /\ \/ (Replaced(at) \/ Shrunk(size)) /\ offset' = 0 /\ pending' = <<>>
             \/ ~ Replaced(at) /\ ~ Shrunk(size) /\ offset' = offset /\ pending' = pending
      BY <1>5, <2>4 DEF Stat
    <3>2. size \in Nat /\ offset \in Nat
      BY <2>4, LenProperties DEF Shape, TypeOK
    <3>3. CASE Replaced(at) \/ Shrunk(size)
      <4>1. Stale
        BY <3>2, <3>3 DEF Stale, Replaced, Shrunk
      <4>2. Sync'
        BY <2>1, <3>1, <3>3, <4>1, FreshUnread, SyncReset DEF fileVars, givenVars
      <4>3. QED
        BY <2>1, <4>2
    <3>4. CASE ~ (Replaced(at) \/ Shrunk(size))
      <4>1. inode' = at /\ offset' = offset /\ pending' = pending
        BY <3>1, <3>4
      <4>2. ~ Stale
        BY <2>2, <3>2, <3>4 DEF Stale, Replaced, Shrunk
      <4>3. InStep
        BY <2>1, <2>4, <4>2 DEF Sync
      <4>4. UNCHANGED <<content, at, delivered>>
        BY <2>1 DEF fileVars, givenVars
      <4>5. InStep'
        BY <4>1, <4>3, <4>4 DEF InStep, Cut, CutAt, UnreadFrom, Newlines
      <4>6. ~ (offset' > Len(content'[at']))
        BY <3>2, <3>4, <4>1, <4>4 DEF Shrunk
      <4>7. Sync'
        BY <2>2, <4>1, <4>4, <4>5, <4>6 DEF Sync, Stale
      <4>8. QED
        BY <2>1, <4>7
    <3>5. QED
      BY <3>3, <3>4
  <2>5. QED
    BY <2>3, <2>4
<1>6. QED
  BY <1>1, <1>2, <1>3, <1>4, <1>5 DEF Watcher
\* What is known when a read is made.
LEMMA ReadFacts ==
  ASSUME Shape, Written, Sync, Read, NEW r \in Nat, NEW h \in Nat, ReadOf(r, h)
  PROVE  /\ at # 0 /\ content[at] \in Seq(Cell) /\ Len(content[at]) \in Nat
         /\ Len(delivered) \in Nat
         /\ Cut \in 0 .. Len(content[at]) /\ CutAt(content[at], Cut) /\ UnreadFrom(Cut)
         /\ WellWritten(content[at])
         /\ \A i \in 1 .. Len(content[at]) : Before(content[at][i], next)
         /\ r <= h /\ h <= Len(content[at]) - Cut
         /\ \A j \in Cut + r + 1 .. Len(content[at]) : ~ Newline(content[at][j])
         /\ r > 0 => Newline(content[at][Cut + r])
         /\ inode = at /\ ~ Turnover
<1> DEFINE c == content[at]
<1>1. /\ at # 0 /\ at \in Inode /\ inode = at /\ ~ Turnover /\ InStep /\ Len(c) \in Nat
  BY ReaderInStep DEF Read
<1>2. c \in Seq(Cell) /\ Len(delivered) \in Nat
  BY <1>1, LenProperties DEF Shape, TypeOK
<1>3. Cut \in 0 .. Len(c) /\ CutAt(c, Cut) /\ UnreadFrom(Cut)
  BY <1>1 DEF InStep
<1>4. WellWritten(c) /\ \A i \in 1 .. Len(c) : Before(c[i], next)
  BY <1>1, TextAtPath
<1>5. r <= h /\ h <= Len(c) - Cut /\ (r > 0 => Newline(c[Cut + r]))
      /\ \A i \in NewlinesAfterCut : i <= r
  BY DEF ReadOf
<1>6. ASSUME NEW j \in Cut + r + 1 .. Len(c) PROVE ~ Newline(c[j])
  <2>1. j - Cut \in 1 .. Len(c) - Cut /\ ~ (j - Cut <= r) /\ Cut + (j - Cut) = j
    BY <1>1, <1>3
  <2>2. j - Cut \notin NewlinesAfterCut
    BY <1>5, <2>1
  <2>3. ~ Newline(c[Cut + (j - Cut)])
    BY <2>1, <2>2 DEF NewlinesAfterCut
  <2>4. QED
    BY <2>1, <2>3
<1>7. QED
  BY <1>1, <1>2, <1>3, <1>4, <1>5, <1>6

\* A read leaves the record in step, with what was read and not handed over pending.
LEMMA SyncRead ==
  ASSUME Shape, Written, Sync, Read
  PROVE  Sync'
<1> DEFINE c == content[at]
<1> DEFINE L == Len(c)
<1> DEFINE D == Len(delivered)
<1>1. PICK r, h \in Nat : ReadOf(r, h)
  BY ReadEffect
<1>2. /\ at # 0 /\ c \in Seq(Cell) /\ L \in Nat /\ D \in Nat
      /\ Cut \in 0 .. L /\ CutAt(c, Cut) /\ UnreadFrom(Cut) /\ WellWritten(c)
      /\ r <= h /\ h <= L - Cut
      /\ \A j \in Cut + r + 1 .. L : ~ Newline(c[j])
      /\ r > 0 => Newline(c[Cut + r])
      /\ inode = at /\ ~ Turnover
  BY <1>1, ReadFacts
<1>3. /\ Len(delivered') = D + h
      /\ \A i \in 1 .. D : delivered'[i] = delivered[i]
      /\ \A i \in 1 .. h : delivered'[D + i] = c[Cut + i]
      /\ offset' = L /\ UNCHANGED <<fileVars, mode, events, due, tracked, inode>>
      /\ KeptRest(r, h) \/ GaveRest(r, h)
  BY <1>1 DEF ReadOf
<1>4. content' = content /\ at' = at /\ inode' = at /\ ~ Turnover'
  BY <1>2, <1>3 DEF fileVars, Turnover
<1>5. pc # "stopped" /\ pc' # "stopped"
  BY DEF Read, Drained
<1> HIDE DEF c, L, D
<1>6. CASE KeptRest(r, h)
  <2>1. /\ h = r /\ Len(pending') = L - Cut - r
        /\ \A i \in 1 .. L - Cut - r : pending'[i] = c[Cut + r + i]
        /\ pending' \in Seq(Cell)
    BY <1>6 DEF KeptRest, L, c
  <2>2. Cut' = Cut + r
    <3>1. Cut' = L - Len(pending')
      BY <1>3 DEF Cut
    <3>2. QED
      BY <1>2, <2>1, <3>1
  <2>3. Cut + r \in 0 .. L
    BY <1>2
  <2>4. Newlines(pending') = {}
    <3>1. DOMAIN pending' = 1 .. L - Cut - r
      BY <2>1, LenProperties
    <3>2. \A i \in 1 .. L - Cut - r : Cut + r + i \in Cut + r + 1 .. L
      BY <1>2
    <3>3. \A i \in DOMAIN pending' : ~ Newline(pending'[i])
      BY <1>2, <2>1, <3>1, <3>2
    <3>4. QED
      BY <3>3 DEF Newlines
  <2>5. CutAt(c, Cut + r)
    <3>1. CASE r = 0
      <4>1. Cut + r = Cut
        BY <1>2, <3>1
      <4>2. QED
        BY <1>2, <4>1
    <3>2. CASE r # 0
      BY <1>2, <3>2 DEF CutAt
    <3>3. QED
      BY <3>1, <3>2
  <2>6. ASSUME NEW d \in 1 .. D + h, NEW j \in 1 .. L, Cut + r < j
        PROVE  Before(delivered'[d], c[j])
    <3>1. CASE d \in 1 .. D
      <4>1. Cut < j
        BY <1>2, <2>6
      <4>2. QED
        BY <1>2, <1>3, <3>1, <4>1 DEF UnreadFrom, D, L, c
    <3>2. CASE d \notin 1 .. D
      <4>1. d - D \in 1 .. h /\ D + (d - D) = d
        BY <1>2, <3>2
      <4>2. Cut + (d - D) \in 1 .. L /\ Cut + (d - D) < j
        BY <1>2, <2>1, <2>6, <4>1
      <4>3. delivered'[d] = c[Cut + (d - D)]
        BY <1>3, <4>1
      <4>4. QED
        BY <1>2, <4>2, <4>3 DEF WellWritten, L
    <3>3. QED
      BY <3>1, <3>2
  <2>7. UnreadFrom(Cut)'
    BY <1>3, <1>4, <2>2, <2>6 DEF UnreadFrom, L, c
  <2>8. InStep'
    <3>1. (Cut \in 0 .. Len(content[at]))' /\ CutAt(content[at], Cut)'
      BY <1>4, <2>2, <2>3, <2>5 DEF L, c, CutAt
    <3>2. (\A i \in 1 .. Len(pending) : pending[i] = content[at][Cut + i])'
      BY <1>4, <2>1, <2>2 DEF L, c
    <3>3. (Newlines(pending) = {})'
      BY <2>4 DEF Newlines
    <3>4. QED
      BY <2>7, <3>1, <3>2, <3>3 DEF InStep
  <2>9. QED
    BY <1>2, <1>3, <1>4, <2>8 DEF Sync, Stale, L, c
<1>7. CASE GaveRest(r, h)
  <2>1. L - Cut - r > LineLimit /\ pending' = <<>>
    BY <1>7 DEF GaveRest, L, c
  <2>2. Len(pending') = 0 /\ Newlines(pending') = {} /\ 1 .. Len(pending') = {}
    <3>1. Len(pending') = 0 /\ DOMAIN pending' = {}
      BY <2>1, EmptySeq
    <3>2. QED
      BY <3>1 DEF Newlines
  <2>3. Cut' = L
    <3>1. Cut' = L - Len(pending')
      BY <1>3 DEF Cut
    <3>2. QED
      BY <1>2, <2>2, <3>1
  <2>4. CutAt(c, L)
    <3>1. Cut + r \in Nat /\ L \in Nat /\ Cut + r < L /\ L - (Cut + r) > LineLimit
      BY <1>2, <2>1, Numbers
    <3>2. \A j \in Cut + r + 1 .. L - 1 : ~ Newline(c[j])
      BY <1>2
    <3>3. L <= Len(c)
      BY <1>2 DEF L
    <3>4. /\ c[L].line \in 1 .. MaxLines /\ c[L].part \in 1 .. Parts[c[L].line]
          /\ L - (Cut + r) <= c[L].part
      BY <1>2, <3>1, <3>2, <3>3, RunInLine
    <3>5. Parts[c[L].line] > LineLimit
      BY <3>1, <3>4, Numbers
    <3>6. QED
      BY <3>5 DEF CutAt
  <2>5. UnreadFrom(Cut)'
    BY <1>2, <1>4, <2>3 DEF UnreadFrom, L, c
  <2>6. InStep'
    <3>1. (Cut \in 0 .. Len(content[at]))' /\ CutAt(content[at], Cut)'
      BY <1>2, <1>4, <2>3, <2>4 DEF L, c, CutAt
    <3>2. (\A i \in 1 .. Len(pending) : pending[i] = content[at][Cut + i])'
      BY <2>2
    <3>3. (Newlines(pending) = {})'
      BY <2>2 DEF Newlines
    <3>4. QED
      BY <2>5, <3>1, <3>2, <3>3 DEF InStep
  <2>7. QED
    BY <1>2, <1>3, <1>4, <2>6 DEF Sync, Stale, L, c
<1>8. QED
  BY <1>3, <1>6, <1>7

\* A read hands over what was not, in the order it was written.
LEMMA OrderRead ==
  ASSUME Shape, Written, Sync, GivenBefore, InOrderOnce, Read
  PROVE  GivenBefore' /\ InOrderOnce'
<1> DEFINE c == content[at]
<1> DEFINE L == Len(c)
<1> DEFINE D == Len(delivered)
<1>1. PICK r, h \in Nat : ReadOf(r, h)
  BY ReadEffect
<1>2. /\ at # 0 /\ L \in Nat /\ D \in Nat
      /\ Cut \in 0 .. L /\ UnreadFrom(Cut) /\ WellWritten(c)
      /\ h <= L - Cut
      /\ \A i \in 1 .. L : Before(c[i], next)
  BY <1>1, ReadFacts
<1>3. /\ Len(delivered') = D + h /\ delivered' \in Seq(Cell)
      /\ \A i \in 1 .. D : delivered'[i] = delivered[i]
      /\ \A i \in 1 .. h : delivered'[D + i] = c[Cut + i]
      /\ next' = next
  BY <1>1 DEF ReadOf, fileVars
<1>4. DOMAIN delivered' = 1 .. D + h /\ DOMAIN delivered = 1 .. D
  BY <1>3, LenProperties DEF Shape, TypeOK
<1> HIDE DEF c, L, D
<1>5. ASSUME NEW d \in 1 .. D + h, d \notin 1 .. D
      PROVE  /\ Cut + (d - D) \in 1 .. L /\ Cut < Cut + (d - D)
             /\ delivered'[d] = c[Cut + (d - D)]
  <2>1. d - D \in 1 .. h /\ D + (d - D) = d
    BY <1>2, <1>5
  <2>2. Cut + (d - D) \in 1 .. L /\ Cut < Cut + (d - D)
    BY <1>2, <2>1
  <2>3. QED
    BY <1>3, <2>1, <2>2
<1>6. GivenBefore'
  <2>1. ASSUME NEW d \in 1 .. D + h PROVE Before(delivered'[d], next)
    <3>1. CASE d \in 1 .. D
      BY <1>3, <3>1 DEF GivenBefore, D
    <3>2. CASE d \notin 1 .. D
      BY <1>2, <1>5, <3>2
    <3>3. QED
      BY <3>1, <3>2
  <2>2. QED
    BY <1>3, <2>1 DEF GivenBefore
<1>7. InOrderOnce'
  <2>1. ASSUME NEW d \in 1 .. D + h, NEW e \in 1 .. D + h, d < e
        PROVE  Before(delivered'[d], delivered'[e])
    <3>1. CASE e \in 1 .. D
      <4>1. d \in 1 .. D
        BY <1>2, <2>1, <3>1
      <4>2. QED
        BY <1>3, <1>4, <2>1, <3>1, <4>1 DEF InOrderOnce
    <3>2. CASE e \notin 1 .. D /\ d \in 1 .. D
      BY <1>2, <1>3, <1>5, <3>2 DEF UnreadFrom, D, L, c
    <3>3. CASE e \notin 1 .. D /\ d \notin 1 .. D
      <4>1. Cut + (d - D) < Cut + (e - D)
        BY <1>2, <2>1
      <4>2. QED
        BY <1>2, <1>5, <3>3, <4>1 DEF WellWritten, L
    <3>4. QED
      BY <3>1, <3>2, <3>3
  <2>2. QED
    BY <1>4, <2>1 DEF InOrderOnce
<1>8. QED
  BY <1>6, <1>7
\* Where the texts that a read hands over end.
LEMMA EndsRead ==
  ASSUME Shape, Written, Sync, Read, NEW r \in Nat, NEW h \in Nat, ReadOf(r, h),
         NEW e \in ends'
  PROVE  \/ e \in ends /\ e \in 1 .. Len(delivered)
         \/ /\ e - Len(delivered) \in 1 .. h
            /\ \/ Newline(content[at][Cut + (e - Len(delivered))])
               \/ /\ GaveRest(r, h)
                  /\ e = Len(delivered) + h
<1> DEFINE c == content[at]
<1> DEFINE L == Len(c)
<1> DEFINE D == Len(delivered)
<1>1. L \in Nat /\ D \in Nat /\ Cut \in 0 .. L /\ r <= h /\ h <= L - Cut
  BY ReadFacts
<1>2. ends \subseteq 1 .. D
  <2>1. DOMAIN delivered = 1 .. D
    BY LenProperties DEF Shape, TypeOK
  <2>2. QED
    BY <2>1 DEF Shape, TypeOK
<1>3. \/ e \in ends
      \/ e \in {D + i : i \in NewlinesAfterCut}
      \/ GaveRest(r, h) /\ e = D + h
  BY DEF ReadOf, KeptRest, GaveRest
<1>4. CASE e \in ends
  BY <1>2, <1>4
<1>5. CASE e \in {D + i : i \in NewlinesAfterCut}
  <2>1. PICK i \in NewlinesAfterCut : e = D + i
    BY <1>5
  <2>2. i \in 1 .. L - Cut /\ Newline(c[Cut + i]) /\ i <= r
    BY DEF NewlinesAfterCut, ReadOf
  <2>3. e - D = i /\ i \in 1 .. h
    BY <1>1, <2>1, <2>2
  <2>4. QED
    BY <2>2, <2>3
<1>6. CASE GaveRest(r, h) /\ e = D + h
  <2>1. L - Cut - r > LineLimit /\ h = L - Cut
    BY <1>6 DEF GaveRest
  <2>2. h > 0 /\ e - D = h
    BY <1>1, <1>6, <2>1, Numbers
  <2>3. QED
    BY <1>6, <2>2
<1>7. QED
  BY <1>3, <1>4, <1>5, <1>6

\* The text between two ends that a read made, or from where the last read ended.
LEMMA TextRead ==
  ASSUME Shape, Written, Sync, Read, NEW r \in Nat, NEW h \in Nat, ReadOf(r, h),
         NEW s \in Nat, NEW e \in ends', s < e,
         s = Len(delivered) \/ (s \in ends' /\ s > Len(delivered)),
         \A m \in ends' : m <= s \/ e <= m
  PROVE  WholeLine(SubSeq(delivered', s + 1, e))
<1> DEFINE c == content[at]
<1> DEFINE L == Len(c)
<1> DEFINE D == Len(delivered)
<1> DEFINE a == Cut + (s - D)
<1> DEFINE b == Cut + (e - D)
<1>1. /\ c \in Seq(Cell) /\ L \in Nat /\ D \in Nat
      /\ Cut \in 0 .. L /\ CutAt(c, Cut) /\ WellWritten(c)
      /\ r <= h /\ h <= L - Cut
      /\ \A j \in Cut + r + 1 .. L : ~ Newline(c[j])
      /\ r > 0 => Newline(c[Cut + r])
  BY ReadFacts
<1>2. /\ Len(delivered') = D + h /\ delivered' \in Seq(Cell)
      /\ \A i \in 1 .. h : delivered'[D + i] = c[Cut + i]
      /\ \A i \in NewlinesAfterCut : D + i \in ends'
  BY DEF ReadOf, KeptRest, GaveRest
<1>3. s \in D .. D + h /\ e \in D + 1 .. D + h
  <2>1. e \notin 1 .. D
    BY <1>1
  <2>2. e - D \in 1 .. h /\ e \in Nat
    <3>1. e \in Nat
      <4>1. DOMAIN delivered' = 1 .. D + h /\ ends' \subseteq DOMAIN delivered'
        BY <1>2, LenProperties, ShapeRead DEF Shape, TypeOK
      <4>2. QED
        BY <1>1, <4>1
    <3>2. QED
      BY <2>1, <3>1, EndsRead
  <2>3. e \in D + 1 .. D + h
    BY <1>1, <2>2
  <2>4. QED
    BY <1>1, <2>3
<1>4. Newline(c[b]) \/ (GaveRest(r, h) /\ e = D + h)
  <2>1. e \notin 1 .. D
    BY <1>1, <1>3
  <2>2. QED
    BY <2>1, EndsRead
<1> HIDE DEF c, L, D
<1>5. /\ a \in Nat /\ b \in Nat /\ a < b /\ b <= L /\ b - a = e - s
  BY <1>1, <1>3
<1>6. ASSUME NEW j \in a + 1 .. b - 1 PROVE ~ Newline(c[j])
  <2> SUFFICES ASSUME Newline(c[j]) PROVE FALSE
    OBVIOUS
  <2>1. j - Cut \in 1 .. L - Cut /\ Cut + (j - Cut) = j
    BY <1>1, <1>3
  <2>2. j - Cut \in NewlinesAfterCut
    <3>1. Newline(c[Cut + (j - Cut)])
      BY <2>1
    <3>2. QED
      BY <2>1, <3>1 DEF NewlinesAfterCut, L, c
  <2>3. D + (j - Cut) \in ends'
    BY <1>2, <2>2
  <2>4. ~ (D + (j - Cut) <= s) /\ ~ (e <= D + (j - Cut))
    BY <1>1, <1>3
  <2>5. QED
    BY <2>3, <2>4
<1>7. CutAt(c, a)
  <2>1. CASE s = D
    <3>1. a = Cut
      BY <1>1, <2>1
    <3>2. QED
      BY <1>1, <3>1
  <2>2. CASE s # D
    <3>1. s \in ends' /\ s \notin 1 .. D /\ s # D + h
      BY <1>1, <1>3, <2>2 DEF D
    <3>2. Newline(c[a])
      BY <3>1, EndsRead DEF c, D
    <3>3. QED
      BY <3>2 DEF CutAt
  <2>3. QED
    BY <2>1, <2>2
<1>8. Newline(c[b]) \/ b - a > LineLimit
  <2> SUFFICES ASSUME ~ Newline(c[b]) PROVE b - a > LineLimit
    OBVIOUS
  <2>1. /\ e = D + h /\ L - Cut - r > LineLimit /\ h = L - Cut
    BY <1>4 DEF GaveRest, L, c, D
  <2>2. ~ (a > Cut + r)
    <3> SUFFICES ASSUME a > Cut + r PROVE FALSE
      OBVIOUS
    <3>1. s # D /\ s \in ends' /\ s \notin 1 .. D /\ s # D + h
      BY <1>1, <1>3 DEF D
    <3>2. Newline(c[a])
      BY <3>1, EndsRead DEF c, D
    <3>3. a \in Cut + r + 1 .. L
      BY <1>1, <1>5
    <3>4. QED
      BY <1>1, <3>2, <3>3
  <2>3. b = L /\ r >= 0
    BY <1>1, <2>1
  <2>4. QED
    BY <1>1, <1>5, <2>1, <2>2, <2>3, Numbers
<1> DEFINE text == SubSeq(delivered', s + 1, e)
<1>9. /\ text \in Seq(Cell) /\ Len(text) = b - a
      /\ \A i \in 1 .. b - a : text[i] = c[a + i]
  <2>1. \A i \in s + 1 .. e : delivered'[i] \in Cell
    <3>1. \A i \in s + 1 .. e : i \in 1 .. Len(delivered')
      BY <1>1, <1>2, <1>3
    <3>2. QED
      BY <1>2, <3>1, ElementOfSeq
  <2>2. s + 1 \in Int /\ e \in Int /\ s + 1 <= e
    BY <1>3
  <2>3. /\ text \in Seq(Cell) /\ Len(text) = e - (s + 1) + 1
        /\ \A i \in 1 .. e - (s + 1) + 1 : text[i] = delivered'[s + 1 + i - 1]
    BY <2>1, <2>2, SubSeqProperties
  <2>4. e - (s + 1) + 1 = b - a
    BY <1>1, <1>3
  <2>5. ASSUME NEW i \in 1 .. b - a PROVE text[i] = c[a + i]
    <3>1. text[i] = delivered'[s + 1 + i - 1]
      BY <2>3, <2>4
    <3>2. s - D + i \in 1 .. h /\ D + (s - D + i) = s + 1 + i - 1 /\ Cut + (s - D + i) = a + i
      BY <1>1, <1>3
    <3>3. delivered'[D + (s - D + i)] = c[Cut + (s - D + i)]
      BY <1>2, <3>2
    <3>4. QED
      BY <3>1, <3>2, <3>3
  <2>6. QED
    BY <2>3, <2>4, <2>5
<1> HIDE DEF text, a, b
<1>10. WholeLine(text)
  <2>1. b <= Len(c)
    BY <1>5 DEF L
  <2>2. QED
    BY <1>1, <1>5, <1>6, <1>7, <1>8, <1>9, <2>1, WholeRun
<1>11. QED
  BY <1>10 DEF text

\* A read hands over whole lines, and the pieces of a line over the limit.
LEMMA WholeRead ==
  ASSUME Shape, Written, Sync, OnlyWholeLines, Read
  PROVE  OnlyWholeLines'
<1> DEFINE c == content[at]
<1> DEFINE L == Len(c)
<1> DEFINE D == Len(delivered)
<1>1. PICK r, h \in Nat : ReadOf(r, h)
  BY ReadEffect
<1>2. /\ L \in Nat /\ D \in Nat /\ Cut \in 0 .. L
      /\ r <= h /\ h <= L - Cut
      /\ r > 0 => Newline(c[Cut + r])
  BY <1>1, ReadFacts
<1>3. /\ Len(delivered') = D + h /\ delivered' \in Seq(Cell)
      /\ \A i \in 1 .. D : delivered'[i] = delivered[i]
      /\ ends \subseteq ends'
      /\ \A i \in NewlinesAfterCut : D + i \in ends'
      /\ h = r \/ D + h \in ends'
  BY <1>1 DEF ReadOf, KeptRest, GaveRest
<1>4. ends' \subseteq 1 .. D + h /\ ends \subseteq 1 .. D /\ delivered \in Seq(Cell)
      /\ D \in ends \cup {0}
  <2>1. DOMAIN delivered' = 1 .. D + h /\ ends' \subseteq DOMAIN delivered'
    BY <1>3, LenProperties, ShapeRead DEF Shape, TypeOK
  <2>2. DOMAIN delivered = 1 .. D /\ ends \subseteq DOMAIN delivered
    BY LenProperties DEF Shape, TypeOK
  <2>3. QED
    BY <2>1, <2>2 DEF Shape, TypeOK, OnlyWholeLines
<1>5. Len(delivered') \in ends' \cup {0}
  <2>1. CASE h = 0
    BY <1>2, <1>3, <1>4, <2>1
  <2>2. CASE h # 0
    <3>1. CASE h # r
      BY <1>3, <3>1
    <3>2. CASE h = r
      <4>1. r \in 1 .. L - Cut /\ Newline(c[Cut + r])
        <5>1. r > 0 /\ r <= L - Cut
          BY <1>2, <2>2, <3>2
        <5>2. QED
          BY <1>2, <5>1
      <4>2. r \in NewlinesAfterCut
        BY <4>1 DEF NewlinesAfterCut
      <4>3. QED
        BY <1>3, <3>2, <4>2
    <3>3. QED
      BY <3>1, <3>2
  <2>3. QED
    BY <2>1, <2>2
<1> HIDE DEF c, L
<1>6. ASSUME NEW s \in ends' \cup {0}, NEW e \in ends', s < e,
             \A m \in ends' : m <= s \/ e <= m
      PROVE  WholeLine(SubSeq(delivered', s + 1, e))
  <2>1. s \in Nat /\ e \in Nat /\ e \in 1 .. D + h /\ s \in 0 .. D + h
    BY <1>2, <1>4
  <2>2. CASE e <= D
    <3>1. e \in ends /\ s \in ends \cup {0}
      <4>1. \A x \in ends' : x <= D => x \in ends
        <5> SUFFICES ASSUME NEW x \in ends', x <= D PROVE x \in ends
          OBVIOUS
        <5>1. x \in Nat /\ ~ (x - D \in 1 .. h)
          BY <1>2, <1>4
        <5>2. QED
          BY <1>1, <5>1, EndsRead
      <4>2. s <= D
        BY <1>2, <1>6, <2>1, <2>2
      <4>3. QED
        BY <2>2, <4>1, <4>2
    <3>2. WholeLine(SubSeq(delivered, s + 1, e))
      BY <1>3, <1>6, <3>1 DEF OnlyWholeLines
    <3>3. SubSeq(delivered', s + 1, e) = SubSeq(delivered, s + 1, e)
      <4>1. \A i \in s + 1 .. e : i \in 1 .. D /\ i \in 1 .. Len(delivered')
        BY <1>2, <1>3, <2>1, <2>2
      <4>2. \A i \in s + 1 .. e : delivered[i] \in Cell /\ delivered'[i] \in Cell
        BY <1>3, <1>4, <4>1, ElementOfSeq
      <4>3. s + 1 \in Int /\ e \in Int /\ s + 1 <= e
        BY <1>6, <2>1
      <4>4. /\ SubSeq(delivered, s + 1, e) \in Seq(Cell)
            /\ Len(SubSeq(delivered, s + 1, e)) = e - (s + 1) + 1
            /\ \A i \in 1 .. e - (s + 1) + 1 :
                 SubSeq(delivered, s + 1, e)[i] = delivered[s + 1 + i - 1]
        BY <4>2, <4>3, SubSeqProperties
      <4>5. /\ SubSeq(delivered', s + 1, e) \in Seq(Cell)
            /\ Len(SubSeq(delivered', s + 1, e)) = e - (s + 1) + 1
            /\ \A i \in 1 .. e - (s + 1) + 1 :
                 SubSeq(delivered', s + 1, e)[i] = delivered'[s + 1 + i - 1]
        BY <4>2, <4>3, SubSeqProperties
      <4>6. \A i \in 1 .. e - (s + 1) + 1 : s + 1 + i - 1 \in s + 1 .. e
        BY <2>1
      <4>7. \A i \in 1 .. e - (s + 1) + 1 :
              SubSeq(delivered', s + 1, e)[i] = SubSeq(delivered, s + 1, e)[i]
        BY <1>3, <4>1, <4>4, <4>5, <4>6
      <4>8. QED
        BY <4>4, <4>5, <4>7, SeqEqual
    <3>4. QED
      BY <3>2, <3>3
  <2>3. CASE ~ (e <= D)
    <3>1. s = D \/ s > D
      <4>1. D \in ends' => D <= s \/ e <= D
        BY <1>6
      <4>2. D \in ends' \/ D = 0
        BY <1>3, <1>4
      <4>3. QED
        BY <1>2, <2>1, <2>3, <4>1, <4>2
    <3>2. s > D => s \in ends'
      BY <1>2
    <3>3. QED
      BY <1>1, <1>6, <2>1, <3>1, <3>2, TextRead
  <2>4. QED
    BY <2>2, <2>3
<1>7. QED
  BY <1>5, <1>6 DEF OnlyWholeLines
--------------------------------------------------------------------------------
(* The invariant.                                                          *)

LEMMA WatcherInit == Init => WatcherInv
<1> SUFFICES ASSUME Init PROVE WatcherInv
  OBVIOUS
<1>1. Shape
  BY ShapeInit
<1>2. /\ content = [i \in Inode |-> <<>>] /\ at \in {0, 1} /\ writer = at
      /\ next = [line |-> 1, part |-> 1] /\ inode = 0 /\ offset = 0
      /\ pending = <<>> /\ delivered = <<>> /\ ends = {} /\ events = <<>>
      /\ Len(<<>>) = 0 /\ DOMAIN <<>> = {}
  BY EmptySeq DEF Init
<1>3. at # 0 => content[at] = <<>>
  BY <1>1, <1>2 DEF Shape, TypeOK
<1>4. next \in Place /\ next.part = 1
  BY <1>1, <1>2, TextsArePlaces
<1>5. Written
  BY <1>2, <1>3, <1>4, WrittenFirst DEF Written
<1>6. at # 0 => UnreadFrom(0)
  BY <1>2 DEF UnreadFrom
<1>7. Cut = 0
  <2>1. offset = 0 /\ Len(pending) = 0
    BY <1>2
  <2>2. QED
    BY <2>1 DEF Cut
<1>8. Sync
  <2> SUFFICES ASSUME at # 0 PROVE Sync
    BY DEF Sync
  <2>1. Len(content[at]) = 0 /\ offset = 0 /\ Len(pending) = 0
    BY <1>2, <1>3
  <2>2. Newlines(pending) = {}
    BY <1>2 DEF Newlines
  <2>3. InStep
    BY <1>6, <1>7, <2>1, <2>2 DEF InStep, CutAt
  <2>4. QED
    BY <1>6, <2>1, <2>3 DEF Sync
<1>9. GivenBefore /\ InOrderOnce
  BY <1>2 DEF GivenBefore, InOrderOnce
<1>10. OnlyWholeLines
  BY <1>2 DEF OnlyWholeLines
<1>11. QED
  BY <1>1, <1>5, <1>8, <1>9, <1>10 DEF WatcherInv

\* Every step keeps the invariant.
LEMMA WatcherNext ==
  ASSUME Quiet, WatcherInv, [Next]_vars
  PROVE  WatcherInv'
<1>1. Shape /\ Written /\ Sync /\ GivenBefore /\ InOrderOnce /\ OnlyWholeLines
  BY DEF WatcherInv
<1>2. CASE World
  <2>1. Shape'
    BY <1>1, <1>2, ShapeWrite, ShapeReopen, ShapeUnlink, ShapeCreate, ShapeTruncate DEF World
  <2>2. Written' /\ Sync' /\ GivenBefore'
    BY <1>1, <1>2, WrittenWorld, SyncWorld
  <2>3. UNCHANGED givenVars
    BY <1>2 DEF World, Write, Reopen, Unlink, Create, Truncate
  <2>4. InOrderOnce' /\ OnlyWholeLines'
    BY <1>1, <2>3 DEF givenVars, InOrderOnce, OnlyWholeLines
  <2>5. QED
    BY <2>1, <2>2, <2>4 DEF WatcherInv
<1>3. CASE Watcher /\ ~ Read
  <2>1. Shape'
    BY <1>1, <1>3, ShapeStart, ShapeRemove, ShapeCreated, ShapeModified, ShapeRescan, ShapeStat
       DEF Watcher
  <2>2. Sync' /\ UNCHANGED <<fileVars, givenVars>>
    BY <1>1, <1>3, SyncWatcher
  <2>3. Written' /\ GivenBefore' /\ InOrderOnce' /\ OnlyWholeLines'
    BY <1>1, <2>2
       DEF fileVars, givenVars, Written, GivenBefore, InOrderOnce, OnlyWholeLines
  <2>4. QED
    BY <2>1, <2>2, <2>3 DEF WatcherInv
<1>4. CASE Read
  <2>1. Shape' /\ Sync'
    BY <1>1, <1>4, ShapeRead, SyncRead
  <2>2. GivenBefore' /\ InOrderOnce' /\ OnlyWholeLines'
    BY <1>1, <1>4, OrderRead, WholeRead
  <2>3. Written'
    BY <1>1, <1>4 DEF Read, Written, fileVars
  <2>4. QED
    BY <2>1, <2>2, <2>3 DEF WatcherInv
<1>5. CASE Stop
  <2>1. pc' = "stopped" /\ UNCHANGED <<fileVars, givenVars>>
    BY <1>5 DEF Stop
  <2>2. Shape' /\ Sync'
    BY <1>1, <1>5, <2>1, ShapeStop DEF Sync
  <2>3. Written' /\ GivenBefore' /\ InOrderOnce' /\ OnlyWholeLines'
    BY <1>1, <2>1
       DEF fileVars, givenVars, Written, GivenBefore, InOrderOnce, OnlyWholeLines
  <2>4. QED
    BY <2>2, <2>3 DEF WatcherInv
<1>6. CASE UNCHANGED vars
  <2>1. /\ UNCHANGED <<content, at, writer, next, rotations, mode, events, pc, drains>>
        /\ UNCHANGED <<tracked, offset, inode, pending, delivered, ends, due>>
    BY <1>6 DEF vars, fileVars, stateVars, givenVars
  <2>2. TypeOK' /\ Ages' /\ Record'
    BY <1>1, <2>1 DEF Shape, TypeOK, Ages, Record, Inode
  <2>3. Queue' /\ Position'
    BY <1>1, <2>1 DEF Shape, Queue, Position, Turnover, Watched
  <2>4. Sync'
    BY <1>1, <2>1, SyncKept DEF Turnover
  <2>5. Written' /\ GivenBefore' /\ InOrderOnce' /\ OnlyWholeLines'
    BY <1>1, <2>1 DEF Written, GivenBefore, InOrderOnce, OnlyWholeLines
  <2>6. QED
    BY <2>2, <2>3, <2>4, <2>5 DEF WatcherInv, Shape
<1>7. QED
  BY <1>2, <1>3, <1>4, <1>5, <1>6 DEF Next

\* With quiet rotations and a quiet start, the invariant always holds.
THEOREM WatcherIsInStep == ASSUME Quiet PROVE Spec => []WatcherInv
<1>1. WatcherInv /\ [Next]_vars => WatcherInv'
  BY WatcherNext
<1>2. QED
  BY WatcherInit, <1>1, PTL DEF Spec

\* What the pipeline is given is whole lines, and pieces of lines over the limit only: no
\* event order, scan, short read or rotation makes the watcher join what was written apart or
\* hand over half of a line.
THEOREM WholeLinesOnly == ASSUME Quiet PROVE Spec => []OnlyWholeLines
<1>1. WatcherInv => OnlyWholeLines
  BY DEF WatcherInv
<1>2. QED
  BY <1>1, WatcherIsInStep, PTL

\* Every cell is given once at most, in the order the application wrote them: a drain never
\* reads again what an earlier one has handed over, also across rotations.
THEOREM GivenInOrder == ASSUME Quiet PROVE Spec => []InOrderOnce
<1>1. WatcherInv => InOrderOnce
  BY DEF WatcherInv
<1>2. QED
  BY <1>1, WatcherIsInStep, PTL

\* When nothing is left to see, the pending text is the file's text after the last newline, or
\* after the last cut of a line over the limit.
LEMMA InvPendingIsTail ==
  ASSUME WatcherInv
  PROVE  PendingIsTail
<1>1. Shape /\ Sync /\ TypeOK
  BY DEF WatcherInv, Shape
<1> SUFFICES ASSUME CaughtUp, at # 0
             PROVE  \E k \in 0 .. Len(content[at]) :
                      /\ pending = SubSeq(content[at], k + 1, Len(content[at]))
                      /\ Newlines(pending) = {}
                      /\ k > 0 => LET cell == content[at][k]
                                  IN  Newline(cell) \/ Parts[cell.line] > LineLimit
  BY <1>1 DEF PendingIsTail
<1> DEFINE c == content[at]
<1>2. /\ c \in Seq(Cell) /\ Len(c) \in Nat /\ Len(pending) \in Nat /\ pending \in Seq(Cell)
  BY <1>1, LenProperties DEF TypeOK
<1>3. pc = "idle" /\ inode = at /\ offset = Len(c) /\ Len(events) = 0
  BY EmptySeq DEF CaughtUp
<1>4. InStep
  <2>1. ~ Turnover
    BY <1>3 DEF Turnover
  <2>2. ~ Stale
    BY <1>2, <1>3, <2>1 DEF Stale
  <2>3. QED
    BY <1>1, <1>3, <2>2 DEF Sync
<1>5. Cut \in 0 .. Len(c) /\ Newlines(pending) = {} /\ CutAt(c, Cut)
      /\ \A i \in 1 .. Len(pending) : pending[i] = c[Cut + i]
  BY <1>4 DEF InStep
<1>6. Len(pending) = Len(c) - Cut
  BY <1>2, <1>3, <1>5 DEF Cut
<1> HIDE DEF c
<1>7. pending = SubSeq(c, Cut + 1, Len(c))
  <2>1. \A i \in Cut + 1 .. Len(c) : c[i] \in Cell
    <3>1. \A i \in Cut + 1 .. Len(c) : i \in 1 .. Len(c)
      BY <1>5
    <3>2. QED
      BY <1>2, <3>1, ElementOfSeq
  <2>2. Cut + 1 \in Int /\ Len(c) \in Int
    BY <1>2, <1>5
  <2>3. /\ SubSeq(c, Cut + 1, Len(c)) \in Seq(Cell)
        /\ Len(SubSeq(c, Cut + 1, Len(c)))
             = IF Cut + 1 <= Len(c) THEN Len(c) - (Cut + 1) + 1 ELSE 0
        /\ \A i \in 1 .. Len(c) - (Cut + 1) + 1 :
             SubSeq(c, Cut + 1, Len(c))[i] = c[Cut + 1 + i - 1]
    BY <2>1, <2>2, SubSeqProperties
  <2>4. Len(SubSeq(c, Cut + 1, Len(c))) = Len(pending)
    BY <1>2, <1>5, <1>6, <2>3
  <2>5. \A i \in 1 .. Len(pending) : pending[i] = SubSeq(c, Cut + 1, Len(c))[i]
    <3>1. \A i \in 1 .. Len(pending) :
            i \in 1 .. Len(c) - (Cut + 1) + 1 /\ Cut + 1 + i - 1 = Cut + i
      BY <1>2, <1>5, <1>6
    <3>2. QED
      BY <1>5, <2>3, <3>1
  <2>6. QED
    BY <1>2, <2>3, <2>4, <2>5, SeqEqual
<1>8. Cut > 0 => LET cell == content[at][Cut]
                 IN  Newline(cell) \/ Parts[cell.line] > LineLimit
  BY <1>5 DEF CutAt, c
<1>9. Cut \in 0 .. Len(content[at]) /\ Newlines(pending) = {}
      /\ pending = SubSeq(content[at], Cut + 1, Len(content[at]))
  BY <1>5, <1>7 DEF c
<1> HIDE DEF Cut
<1>10. QED
  BY <1>8, <1>9, Zenon

\* Between two events what the watcher holds back is exactly the file's unended text, so that
\* the rest of a line is joined to its beginning.
THEOREM PendingIsAlwaysTail == ASSUME Quiet PROVE Spec => []PendingIsTail
<1>1. WatcherInv => PendingIsTail
  BY InvPendingIsTail
<1>2. QED
  BY <1>1, WatcherIsInStep, PTL
================================================================================
