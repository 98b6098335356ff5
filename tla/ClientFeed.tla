------------------------------- MODULE ClientFeed -------------------------------
(***************************************************************************)
(* How entries reach the list of the desktop client (src/client): the      *)
(* D-Bus connection with its reconnect timer (dbus_client.cpp), the        *)
(* signals it subscribes to and the recent entries it then asks for, and   *)
(* the bounded list with its counters (models/log_model.cpp), against a    *)
(* daemon that takes entries in, announces them, and may be killed and     *)
(* started again with an empty buffer.                                     *)
(*                                                                         *)
(* Entries are numbered as they are pushed. The client is one thread: a    *)
(* call to the daemon blocks it, and signals wait in its queue meanwhile.  *)
(***************************************************************************)
EXTENDS Integers, Sequences, SequencesExt, FiniteSetsExt

CONSTANTS
  Capacity,    \* of the daemon's buffer
  Limit,       \* entries asked for after connecting (100 in the code)
  RowCapacity, \* m_capacity of the list
  IsError,     \* IsError[e]: level ERROR or FATAL
  MaxEntries,  \* bound: entries
  MaxKills,    \* bound: times the daemon is killed
  MaxClicks    \* bound: actions of the user

ASSUME CapacityAssumption == {Capacity, Limit, RowCapacity} \subseteq Nat \ {0}
ASSUME BoundsAssumption   == {MaxEntries, MaxKills, MaxClicks} \subseteq Nat
ASSUME ErrorAssumption    == IsError \in [1 .. MaxEntries -> BOOLEAN]

VARIABLES
  up,         \* the daemon's object is on the bus
  base,       \* entries pushed before this daemon process was started
  pushed,     \* entries pushed by all of them
  emitted,    \* entries that no longer wait for LogEntryReceived
  pc,         \* where connectToDaemon() is
  connected,  \* m_connected
  timer,      \* m_reconnect_timer runs
  hooks,      \* slots of the client that LogEntryReceived is delivered to
  inbox,      \* signals that wait for the client's event loop
  reply,      \* the answer to QueryLogs
  rows,       \* m_items
  total,      \* m_count_total
  errors,     \* m_error_count
  gone,       \* entries removed from the list (history variable)
  since,      \* the oldest entry the client ought to have, 0 for none (history variable)
  answers,    \* answers received so far (history variable)
  kills, clicks

daemonVars == <<up, base, pushed, emitted>>
linkVars   == <<pc, connected, timer, hooks, inbox, reply>>
listVars   == <<rows, total, errors, gone>>
countVars  == <<answers, kills, clicks>>
vars == <<daemonVars, linkVars, listVars, since, countVars>>

Entry == 1 .. pushed
Larger(a, b) == IF a > b THEN a ELSE b
\* The oldest of what the client ought to have, once it has seen to entries from e on.
SinceWith(e) == IF since = 0 \/ e < since THEN e ELSE since

--------------------------------------------------------------------------------
\* The entries in the daemon's buffer.
Buffer == Larger(base, pushed - Capacity) + 1 .. pushed

\* LogBuffer::push; its callback posts an event to the daemon's main thread.
Push ==
  /\ up
  /\ pushed < MaxEntries
  /\ pushed' = pushed + 1
  /\ UNCHANGED <<up, base, emitted, linkVars, listVars, since, countVars>>

\* The event is handled: LogEntryReceived goes to every slot connected to it.
Emit ==
  /\ up
  /\ emitted < pushed
  /\ emitted' = emitted + 1
  /\ inbox' = inbox \o [i \in 1 .. hooks |-> emitted + 1]
  /\ UNCHANGED <<up, base, pushed, pc, connected, timer, hooks, reply, listVars, since, countVars>>

\* Killed: the buffer and the events that waited are gone. What is on its way to the
\* client arrives.
Kill ==
  /\ up
  /\ kills < MaxKills
  /\ kills' = kills + 1
  /\ up' = FALSE
  /\ emitted' = pushed
  /\ since' = 0
  /\ UNCHANGED <<base, pushed, linkVars, listVars, answers, clicks>>

\* Started again. The bus goes on delivering to a client that has subscribed.
Restart ==
  /\ ~ up
  /\ up' = TRUE
  /\ base' = pushed
  /\ since' = IF hooks > 0 THEN pushed + 1 ELSE 0
  /\ UNCHANGED <<pushed, emitted, linkVars, listVars, countVars>>

--------------------------------------------------------------------------------
\* Fault: the recent entries are asked for before the signals are subscribed to.
AskFirst == [connect |-> "query", apply |-> "subscribe", subscribe |-> "idle"]

\* onConnected(): subscribe, then ask.
ConnectOrder == [connect |-> "subscribe", subscribe |-> "query", apply |-> "idle"]

\* Fault: a connection that could not be made is not tried again.
TimerAfterFailure == timer

\* connectToDaemon() starts the reconnect timer when it fails.
Retry == TRUE

\* connectToDaemon(): the interface is valid if the daemon is there.
Connect ==
  IF up
  THEN connected' = TRUE /\ timer' = FALSE /\ pc' = ConnectOrder.connect
  ELSE timer' = Retry /\ UNCHANGED <<connected, pc>>

\* Starting the client connects, as does the user's menu.
MenuReconnect ==
  /\ pc = "idle"
  /\ clicks < MaxClicks
  /\ clicks' = clicks + 1
  /\ Connect
  /\ UNCHANGED <<daemonVars, hooks, inbox, reply, listVars, since, answers, kills>>

StartClient ==
  /\ pc = "new"
  /\ IF up THEN Connect
     ELSE pc' = "idle" /\ timer' = Retry /\ connected' = connected
  /\ UNCHANGED <<daemonVars, hooks, inbox, reply, listVars, since, countVars>>

\* tryReconnect()
Tick ==
  /\ pc = "idle"
  /\ timer
  /\ IF connected THEN timer' = FALSE /\ UNCHANGED <<connected, pc>> ELSE Connect
  /\ UNCHANGED <<daemonVars, hooks, inbox, reply, listVars, since, countVars>>

\* Fault: every connection adds a slot.
OneMoreHook == hooks + 1

\* Connecting the same slot again changes nothing.
OneHook == 1

\* setupSignals()
Subscribe ==
  /\ pc = "subscribe"
  /\ hooks' = OneHook
  /\ since' = IF up THEN SinceWith(emitted + 1) ELSE since
  /\ pc' = ConnectOrder.subscribe
  /\ UNCHANGED <<daemonVars, connected, timer, inbox, reply, listVars, countVars>>

\* The daemon answers QueryLogs: the newest Limit entries, newest first.
Answer ==
  /\ pc = "query"
  /\ up
  /\ LET oldest == Larger(Larger(base, pushed - Capacity), pushed - Limit) + 1
     IN  /\ reply' = [i \in 1 .. pushed - oldest + 1 |-> pushed + 1 - i]
         /\ since' = SinceWith(oldest)
  /\ answers' = answers + 1
  /\ pc' = "apply"
  /\ UNCHANGED <<daemonVars, connected, timer, hooks, inbox, listVars, kills, clicks>>

\* The call fails, if the daemon is not there or does not answer in time.
NoAnswer ==
  /\ pc = "query"
  /\ reply' = <<>>
  /\ pc' = ConnectOrder.apply
  /\ UNCHANGED <<daemonVars, connected, timer, hooks, inbox, listVars, since, countVars>>

--------------------------------------------------------------------------------
\* Fault: one row is removed however many there are too many.
RemoveOne(s) == IF Len(s) > RowCapacity THEN Tail(s) ELSE s

\* enforce_capacity(): rows are removed at the front.
Enforce(s) == SubSeq(s, Larger(0, Len(s) - RowCapacity) + 1, Len(s))

ErrorsIn(items) == Cardinality({i \in DOMAIN items : IsError[items[i]]})

\* appendLog, appendLogs: the counters count what is removed, too.
AppendRows(items) ==
  /\ rows' = Enforce(rows \o items)
  /\ gone' = gone \cup (Range(rows \o items) \ Range(rows'))
  /\ total' = total + Len(items)
  /\ errors' = errors + ErrorsIn(items)

ApplyReply ==
  /\ pc = "apply"
  /\ AppendRows(reply)
  /\ reply' = <<>>
  /\ pc' = ConnectOrder.apply
  /\ UNCHANGED <<daemonVars, connected, timer, hooks, inbox, since, countVars>>

\* onLogEntryReceived
Receive ==
  /\ pc = "idle"
  /\ inbox # <<>>
  /\ AppendRows(<<Head(inbox)>>)
  /\ inbox' = Tail(inbox)
  /\ UNCHANGED <<daemonVars, pc, connected, timer, hooks, reply, since, countVars>>

\* LogModel::clear, from the menu.
Clear ==
  /\ pc = "idle"
  /\ clicks < MaxClicks
  /\ clicks' = clicks + 1
  /\ rows' = <<>>
  /\ gone' = gone \cup Range(rows)
  /\ total' = 0
  /\ errors' = 0
  /\ UNCHANGED <<daemonVars, linkVars, since, answers, kills>>

--------------------------------------------------------------------------------
\* Client and daemon are started in either order.
Init ==
  /\ up \in BOOLEAN
  /\ base = 0
  /\ pushed = 0
  /\ emitted = 0
  /\ pc = "new"
  /\ connected = FALSE
  /\ timer = FALSE
  /\ hooks = 0
  /\ inbox = <<>>
  /\ reply = <<>>
  /\ rows = <<>>
  /\ total = 0
  /\ errors = 0
  /\ gone = {}
  /\ since = 0
  /\ answers = 0
  /\ kills = 0
  /\ clicks = 0

Daemon == Push \/ Emit \/ Kill \/ Restart
\* What the client's thread does unasked.
Client == StartClient \/ Subscribe \/ Answer \/ NoAnswer \/ ApplyReply \/ Receive
User == MenuReconnect \/ Clear

Next == Daemon \/ Client \/ Tick \/ User

Spec == Init /\ [][Next]_vars
\* The client's event loop and timer run, and a daemon that is up handles its events.
FairSpec == Spec /\ WF_vars(Client) /\ WF_vars(Tick) /\ WF_vars(Emit)
--------------------------------------------------------------------------------
TypeOK ==
  /\ {up, connected, timer} \subseteq BOOLEAN
  /\ base <= emitted /\ emitted <= pushed /\ {base, emitted, pushed} \subseteq 0 .. MaxEntries
  /\ pc \in {"new", "idle", "subscribe", "query", "apply"}
  /\ hooks \in Nat
  /\ {inbox, reply, rows} \subseteq Seq(Entry)
  /\ gone \subseteq Entry
  /\ {total, errors, answers} \subseteq Nat
  /\ since \in 0 .. pushed + 1
  /\ kills \in 0 .. MaxKills /\ clicks \in 0 .. MaxClicks

\* The list never outgrows its capacity, whatever comes in one reply, and the counters
\* cover at least the rows that are shown.
ListIsSound ==
  /\ TypeOK
  /\ Len(rows) <= RowCapacity
  /\ Len(rows) <= total
  /\ ErrorsIn(rows) <= errors /\ errors <= total

\* Once subscribed, the client has, or is about to receive, every entry since the oldest
\* it was told of, without a gap between the answer and the signals, and across restarts
\* of the daemon that it does not even notice.
NothingMissed ==
  up /\ hooks > 0 /\ since > 0 =>
    \A e \in since .. emitted : e \in Range(rows) \cup Range(inbox) \cup Range(reply) \cup gone

\* An entry is shown at most once for its signal and once for every answer.
NoExtraCopies ==
  \A e \in Entry :
    Cardinality({i \in 1 .. Len(rows) : rows[i] = e})
      + Cardinality({i \in 1 .. Len(inbox) : inbox[i] = e})
      + (IF up /\ e > emitted THEN hooks ELSE 0) <= 1 + answers

\* Once the daemon stays, the client gets subscribed, and everything it announces after
\* that is shown: the reconnect timer is never left off too early.
FeedRuns ==
  /\ <>[]up => <>(hooks > 0)
  /\ <>[]up => []<>(inbox = <<>> /\ emitted = pushed)
================================================================================
