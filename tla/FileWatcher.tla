------------------------------ MODULE FileWatcher ------------------------------
(***************************************************************************)
(* How lines get from a log file to the pipeline                           *)
(* (src/daemon/file_watcher.cpp), for one watched path: the application    *)
(* that writes the file piece by piece, the rotations that replace or      *)
(* truncate it, the kernel's inotify queue, and the watcher thread with    *)
(* its record of the file (offset, inode and the tail of an unended line). *)
(*                                                                         *)
(* Line n is Parts[n] cells, the last of which ends with the newline.      *)
(* Events carry names: only what happens to the file now at the path is    *)
(* seen.                                                                   *)
(***************************************************************************)
EXTENDS Integers, Sequences, FiniteSets, SequencesExt

CONSTANTS
  Modes,         \* how changes may be noticed: "inotify", "poll"
  Rotations,     \* what may happen to the file: "rename", "truncate", "delete"
  QuietRotation, \* TRUE: rotations happen while nothing is unread or unhandled
  QuietStart,    \* TRUE: nothing is being written while the daemon starts
  Parts,         \* Parts[n]: cells of line n
  LineLimit,     \* kMaxLineBytes, in cells
  MaxQueue,      \* length at which the kernel's queue overflows
  MaxLines,      \* bound: lines the application writes
  MaxRotations   \* bound: rotations

Inode == 1 .. MaxRotations + 1
Cell == UNION {[line : {n}, part : 1 .. Parts[n]] : n \in 1 .. MaxLines}

ASSUME ModeAssumption ==
  /\ Modes \subseteq {"inotify", "poll"} /\ Modes # {}
  /\ Rotations \subseteq {"rename", "truncate", "delete"}
  /\ {QuietRotation, QuietStart} \subseteq BOOLEAN
ASSUME BoundsAssumption ==
  /\ {LineLimit, MaxQueue, MaxLines} \subseteq Nat \ {0}
  /\ Parts \in [1 .. MaxLines -> Nat \ {0}]
  /\ MaxRotations \in Nat

VARIABLES
  content,    \* content[i]: the cells in inode i
  at,         \* the inode at the path, 0 if there is no file
  writer,     \* the inode the application has open, 0 if none
  next,       \* the cell the application writes next
  rotations,  \* rotations so far
  mode,       \* how start() found it can notice changes
  events,     \* the inotify events not yet handled
  pc,         \* where the watcher is
  drains,     \* calls of drain_file the event being handled still needs
  tracked,    \* m_files has the path
  offset,     \* FileState::offset
  inode,      \* FileState::inode
  pending,    \* FileState::pending
  delivered,  \* the cells of all texts given to process_raw, one after the other
  ends,       \* the positions in delivered where a text ends
  due         \* lines completed at the path after the first scan (history variable)

fileVars  == <<content, at, writer, next, rotations>>
stateVars == <<tracked, offset, inode, pending>>
givenVars == <<delivered, ends>>
vars == <<fileVars, mode, events, pc, drains, stateVars, givenVars, due>>

--------------------------------------------------------------------------------
Watched == pc \notin {"new", "primed", "stopped"}

\* The kernel merges an event into an equal one at the tail of the queue, and
\* replaces what does not fit by one overflow event.
Enqueue(e) ==
  IF mode = "poll" \/ ~ Watched \/ (events # <<>> /\ Last(events) \in {e, "overflow"})
  THEN UNCHANGED events
  ELSE events' = Append(events, IF Len(events) < MaxQueue THEN e ELSE "overflow")

\* The watcher has seen everything there is to see.
CaughtUp ==
  /\ pc = "idle"
  /\ events = <<>>
  /\ at # 0 => tracked /\ inode = at /\ offset = Len(content[at])

MayRotate(how) ==
  /\ how \in Rotations
  /\ rotations < MaxRotations
  /\ at # 0
  /\ QuietRotation => CaughtUp

\* In quiet rotations the application does not write to a file that has left
\* the path, nor to a truncated one before the watcher noticed; in a quiet
\* start it does not write between the first scan and the watch.
MayWrite ==
  /\ writer # 0
  /\ QuietStart => pc # "primed"
  /\ QuietRotation =>
       /\ writer = at
       /\ content[at] = <<>> /\ Watched /\ tracked /\ inode = at => offset = 0

Newline(cell) == cell.part = Parts[cell.line]

--------------------------------------------------------------------------------
(* The application and the rotations.                                      *)

Write ==
  /\ MayWrite
  /\ next.line <= MaxLines
  /\ content' = [content EXCEPT ![writer] = Append(@, next)]
  /\ next' = IF Newline(next) THEN [line |-> next.line + 1, part |-> 1]
             ELSE [next EXCEPT !.part = @ + 1]
  /\ due' = IF Newline(next) /\ writer = at /\ pc \notin {"new", "stopped"}
            THEN due \cup {next.line} ELSE due
  /\ IF writer = at THEN Enqueue("modify") ELSE UNCHANGED events
  /\ UNCHANGED <<at, writer, rotations, mode, pc, drains, stateVars, givenVars>>

\* The application opens the file that is now at the path; a line it was in the
\* middle of (it was restarted) is never finished.
Reopen ==
  /\ at # 0 /\ writer # at
  /\ writer' = at
  /\ next' = IF next.part = 1 THEN next ELSE [line |-> next.line + 1, part |-> 1]
  /\ UNCHANGED <<content, at, rotations, mode, events, pc, drains, stateVars,
                 givenVars, due>>

Unlink(how) ==
  /\ how \in {"rename", "delete"}
  /\ MayRotate(how)
  /\ at' = 0
  /\ rotations' = rotations + 1
  /\ Enqueue("remove")
  /\ UNCHANGED <<content, writer, next, mode, pc, drains, stateVars, givenVars, due>>

\* A new file at the path. Its inode is a new one, since the old file is still
\* there under its other name, or open.
Create ==
  /\ at = 0
  /\ at' = rotations + 1
  /\ Enqueue("create")
  /\ UNCHANGED <<content, writer, next, rotations, mode, pc, drains, stateVars,
                 givenVars, due>>

Truncate ==
  /\ MayRotate("truncate")
  /\ QuietRotation => next.part = 1
  /\ content[at] # <<>>
  /\ content' = [content EXCEPT ![at] = <<>>]
  /\ rotations' = rotations + 1
  /\ Enqueue("modify")
  /\ UNCHANGED <<at, writer, next, mode, pc, drains, stateVars, givenVars, due>>

--------------------------------------------------------------------------------
(* start(): what is there is skipped, and only then is the watch added.    *)

Prime ==
  /\ pc = "new"
  /\ QuietStart => next.part = 1
  /\ pc' = "primed"
  /\ IF at = 0 THEN UNCHANGED stateVars
     ELSE /\ tracked' = TRUE
          /\ inode' = at
          /\ offset' = Len(content[at])
          /\ UNCHANGED pending
  /\ UNCHANGED <<fileVars, mode, events, drains, givenVars, due>>

\* Without inotify, or if no directory can be watched, the thread polls.
AddWatch ==
  /\ pc = "primed"
  /\ pc' = "idle"
  /\ mode' \in Modes
  /\ UNCHANGED <<fileVars, events, drains, stateVars, givenVars, due>>

--------------------------------------------------------------------------------
(* inotify_loop and poll_loop. A drain is two steps: stat(2), then open(2) *)
(* and read to the end; the file may change in between.                    *)

\* m_files.erase(path)
Forget ==
  /\ tracked' = FALSE
  /\ offset' = 0
  /\ inode' = 0
  /\ pending' = <<>>

HandleRemove ==
  /\ pc = "idle" /\ events # <<>> /\ Head(events) = "remove"
  /\ events' = Tail(events)
  /\ Forget
  /\ UNCHANGED <<fileVars, mode, pc, drains, givenVars, due>>

HandleCreate ==
  /\ pc = "idle" /\ events # <<>> /\ Head(events) = "create"
  /\ events' = Tail(events)
  /\ tracked' = TRUE
  /\ offset' = 0
  /\ inode' = 0
  /\ pending' = <<>>
  /\ pc' = "stat"
  /\ drains' = 1
  /\ UNCHANGED <<fileVars, mode, givenVars, due>>

HandleModify ==
  /\ pc = "idle" /\ events # <<>> /\ Head(events) = "modify"
  /\ events' = Tail(events)
  /\ pc' = "stat"
  /\ drains' = 1
  /\ UNCHANGED <<fileVars, mode, stateVars, givenVars, due>>

\* Fault: only the files that are already known are looked at.
RescanKnown ==
  /\ UNCHANGED stateVars
  /\ drains' = IF tracked THEN 1 ELSE 0
  /\ pc' = IF tracked THEN "stat" ELSE "idle"

\* scan_directory(prime = false) starts a record for a file it does not know
\* and drains it, then every known file is drained.
Rescan ==
  IF tracked \/ at = 0
  THEN /\ UNCHANGED stateVars
       /\ drains' = IF tracked THEN 1 ELSE 0
       /\ pc' = IF tracked THEN "stat" ELSE "idle"
  ELSE /\ tracked' = TRUE
       /\ inode' = at
       /\ offset' = 0
       /\ pending' = <<>>
       /\ drains' = 2
       /\ pc' = "stat"

HandleOverflow ==
  /\ pc = "idle" /\ events # <<>> /\ Head(events) = "overflow"
  /\ events' = Tail(events)
  /\ Rescan
  /\ UNCHANGED <<fileVars, mode, givenVars, due>>

Poll ==
  /\ mode = "poll" /\ pc = "idle"
  /\ Rescan
  /\ UNCHANGED <<fileVars, mode, events, givenVars, due>>

\* drain_file returns.
Drained ==
  /\ drains' = drains - 1
  /\ pc' = IF drains = 1 THEN "idle" ELSE "stat"

\* Fault: the inode is not compared.
ReplacedNever(i) == FALSE

\* The file is another one, or shorter than what was read of it.
Replaced(i)  == inode # 0 /\ inode # i
Shrunk(size) == size < offset

Stat ==
  /\ pc = "stat"
  /\ IF at = 0 THEN Drained /\ UNCHANGED stateVars
     ELSE LET size  == Len(content[at])
              reset == Replaced(at) \/ Shrunk(size)
          IN  /\ tracked' = TRUE
              /\ inode' = at
              /\ offset' = IF reset THEN 0 ELSE offset
              /\ pending' = IF reset THEN <<>> ELSE pending
              /\ IF size <= offset' THEN Drained
                 ELSE pc' = "read" /\ UNCHANGED drains
  /\ UNCHANGED <<fileVars, mode, events, givenVars, due>>

\* flush_pending: every newline of the text ends a line, and what follows the last one
\* is left.
Newlines(text) == {i \in DOMAIN text : Newline(text[i])}

LastNewline(text) ==
  IF Newlines(text) = {} THEN 0
  ELSE CHOOSE i \in Newlines(text) : \A j \in Newlines(text) : j <= i

WholeLines(text) == SubSeq(text, 1, LastNewline(text))

\* Fault: what follows the last newline is thrown away.
NoRemainder(text) == <<>>

\* Fault: the lines that were handed over stay in the buffer.
WholeText(text) == text

Remainder(text) == SubSeq(text, LastNewline(text) + 1, Len(text))

TooLong(rest) == Len(rest) > LineLimit

Read ==
  /\ pc = "read"
  /\ Drained
  /\ IF at = 0 THEN UNCHANGED <<stateVars, givenVars>>
     ELSE LET got  == SubSeq(content[at], offset + 1, Len(content[at]))
              text == pending \o got
              rest == Remainder(text)
          IN  /\ offset' = offset + Len(got)
              /\ pending' = IF TooLong(rest) THEN <<>> ELSE rest
              /\ delivered' = delivered \o WholeLines(text)
                              \o (IF TooLong(rest) THEN rest ELSE <<>>)
              /\ ends' = ends \cup {Len(delivered) + i : i \in Newlines(text)}
                              \cup (IF TooLong(rest) THEN {Len(delivered')} ELSE {})
              /\ UNCHANGED <<tracked, inode>>
  /\ UNCHANGED <<fileVars, mode, events, due>>

\* stop() is noticed between two events; what is unread stays unread.
Stop ==
  /\ pc = "idle"
  /\ pc' = "stopped"
  /\ events' = <<>>
  /\ UNCHANGED <<fileVars, mode, drains, stateVars, givenVars, due>>

--------------------------------------------------------------------------------
Init ==
  /\ content = [i \in Inode |-> <<>>]
  /\ at \in {0, 1}
  /\ writer = at
  /\ next = [line |-> 1, part |-> 1]
  /\ rotations = 0
  /\ mode = "none"
  /\ events = <<>>
  /\ pc = "new"
  /\ drains = 0
  /\ tracked = FALSE
  /\ offset = 0
  /\ inode = 0
  /\ pending = <<>>
  /\ delivered = <<>>
  /\ ends = {}
  /\ due = {}

Watcher ==
  \/ Prime \/ AddWatch
  \/ HandleRemove \/ HandleCreate \/ HandleModify \/ HandleOverflow \/ Poll
  \/ Stat \/ Read

World == Write \/ Reopen \/ (\E how \in Rotations : Unlink(how)) \/ Create \/ Truncate

Next == Watcher \/ World \/ Stop

Spec == Init /\ [][Next]_vars

\* The watcher thread runs whenever it has something to do; nobody has to write.
FairSpec == Spec /\ WF_vars(Watcher)
--------------------------------------------------------------------------------
TypeOK ==
  /\ content \in [Inode -> Seq(Cell)]
  /\ {at, writer, inode} \subseteq Inode \cup {0}
  /\ next \in Cell \cup {[line |-> MaxLines + 1, part |-> 1]}
  /\ rotations \in 0 .. MaxRotations
  /\ mode \in Modes \cup {"none"}
  /\ events \in Seq({"modify", "create", "remove", "overflow"})
  /\ Len(events) <= MaxQueue + 1
  /\ pc \in {"new", "primed", "idle", "stat", "read", "stopped"}
  /\ drains \in 0 .. 2
  /\ tracked \in BOOLEAN
  /\ offset \in Nat
  /\ pending \in Seq(Cell)
  /\ delivered \in Seq(Cell)
  /\ ends \subseteq DOMAIN delivered
  /\ due \in SUBSET (1 .. MaxLines)

LineOf(n) == [p \in 1 .. Parts[n] |-> [line |-> n, part |-> p]]

\* A text is a line or, if the line is longer than the limit, a piece of it.
WholeLine(text) ==
  \E n \in 1 .. MaxLines :
    \/ text = LineOf(n)
    \/ /\ Parts[n] > LineLimit
       /\ \E i, j \in 1 .. Parts[n] : i <= j /\ text = SubSeq(LineOf(n), i, j)

\* Every text handed to the pipeline is a line the application wrote, whole:
\* never half of one, never two joined, never the end of one file glued to the
\* start of the next (README: "handles rotation and half-written lines"). Only
\* a line over kMaxLineBytes may come in pieces.
OnlyWholeLines ==
  /\ \A s \in ends \cup {0}, e \in ends :
       s < e /\ (\A m \in ends : m <= s \/ e <= m) => WholeLine(SubSeq(delivered, s + 1, e))
  /\ Len(delivered) \in ends \cup {0}

\* Whether the cell c was written before d.
Before(c, d) == c.line < d.line \/ (c.line = d.line /\ c.part < d.part)

\* What is handed over comes in the order it was written, no part of it twice.
InOrderOnce ==
  \A j, k \in DOMAIN delivered : j < k => Before(delivered[j], delivered[k])

\* All of line n was handed over, in one text or in pieces.
Given(n) == Range(LineOf(n)) \subseteq Range(delivered)

\* Between two events the pending text is all that follows the last newline
\* before the offset, so that the rest of a line is joined to its beginning; of a
\* line over the limit, what followed the cut.
PendingIsTail ==
  /\ TypeOK
  /\ CaughtUp /\ at # 0 =>
       \E k \in 0 .. Len(content[at]) :
         /\ pending = SubSeq(content[at], k + 1, Len(content[at]))
         /\ Newlines(pending) = {}
         /\ k > 0 => LET cell == content[at][k]
                     IN  Newline(cell) \/ Parts[cell.line] > LineLimit

\* A line completed at the watched path after the first scan of start() reaches
\* the pipeline, unless the watcher is stopped (file_watcher.cpp:200: what is
\* there is skipped, the lines added after that are processed), all pieces of it
\* if it is too long: no change is missed for good, not even when the kernel's
\* queue overflows.
DueLinesDelivered ==
  \A n \in 1 .. MaxLines :
    n \in due ~> (pc = "stopped" \/ Given(n))
================================================================================
