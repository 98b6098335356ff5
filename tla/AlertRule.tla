------------------------------- MODULE AlertRule -------------------------------
(***************************************************************************)
(* Which entries raise an alert: Pipeline::run_alerts, select_alerting and *)
(* set_alert_rule (src/daemon/pipeline.cpp). Worker threads bring batches  *)
(* of entries, each reads the clock before it takes the alert mutex, and   *)
(* hands what it selected to the alert plugins after it released it.       *)
(*                                                                         *)
(* An entry is its fingerprint (module, level and message with numbers     *)
(* masked); the level is part of the fingerprint, so a rule's minimal      *)
(* level is the set of fingerprints that reach it. Time is counted in      *)
(* ticks of an arbitrary length.                                           *)
(***************************************************************************)
EXTENDS Integers, Sequences, FiniteSets

CONSTANTS
  Thread,      \* threads that run process_raw_now
  Key,         \* fingerprints
  Rules,       \* rules the configuration may name; see Rule
  Minute,      \* ticks in a minute
  MaxTime,     \* bound: ticks of the clock
  MaxBatches,  \* bound: batches brought to run_alerts
  MaxBatch,    \* bound: entries in a batch
  MaxRules     \* bound: calls of set_alert_rule

Rule == [urgent : SUBSET Key,   \* at or above min_level
         window : Nat,          \* dedup_window
         max    : Nat,          \* max_alerts_per_minute, 0 for no limit
         cache  : Nat]          \* dedup_cache_size

ASSUME ThreadAssumption == IsFiniteSet(Thread)
ASSUME RulesAssumption  == Rules \subseteq Rule /\ Rules # {}
ASSUME BoundsAssumption ==
  /\ Minute \in Nat \ {0}
  /\ {MaxTime, MaxBatches, MaxBatch, MaxRules} \subseteq Nat

VARIABLES
  clock,        \* the system clock
  rule,         \* m_alert_rule
  ruleChanges,  \* calls of set_alert_rule after the first
  recent,       \* m_recent_alerts: recent[k] is a time, or Never
  windowStart,  \* m_rate_window_start
  rateCount,    \* m_rate_count
  pc,           \* where thread t is in run_alerts
  now,          \* the time thread t read
  batch,        \* the entries thread t brought
  ctx,          \* the entries thread t selected
  suppressed,   \* m_stats.total_suppressed
  alerts,       \* m_stats.total_alerts
  batches,      \* batches brought so far
  raised,       \* every selection, see Selection (history variable)
  cleared,      \* how often the table was emptied (history variable)
  trims,        \* how often it was purged (history variable)
  windows,      \* how often the rate window was restarted (history variable)
  urgentSeen    \* urgent entries scanned (history variable)

ruleVars  == <<rule, ruleChanges>>
tableVars == <<recent, windowStart, rateCount>>
statVars  == <<suppressed, alerts>>
histVars  == <<raised, cleared, trims, windows, urgentSeen>>
vars == <<clock, ruleVars, tableVars, pc, now, batch, ctx, statVars, batches, histVars>>

Never == -1

\* An alert raised: when, under which rule, in which rate window (and its start), and
\* how often the table had been emptied and purged before.
Selection == [key : Key, at : Nat, rule : Rule, window : Nat, start : Nat,
              cleared : Nat, trims : Nat]

--------------------------------------------------------------------------------
\* The lock-held state that the loop over a batch carries along.
Scan == [recent |-> recent, count |-> rateCount, selected |-> <<>>, suppressed |-> 0]

\* Fault: one alert too many.
RateExceeded(scan) == rule.max > 0 /\ scan.count > rule.max

RateExhausted(scan) == rule.max > 0 /\ scan.count >= rule.max

\* Fault: the batch is compared with the alerts of earlier batches only.
DuplicateOfEarlier(scan, k, time) ==
  recent[k] # Never /\ time - recent[k] < rule.window

Duplicate(scan, k, time) ==
  scan.recent[k] # Never /\ time - scan.recent[k] < rule.window

\* Fault: an entry held back is not counted.
SuppressSilently(scan) == scan

Suppress(scan) == [scan EXCEPT !.suppressed = @ + 1]

Select(scan, k, time) ==
  [recent     |-> [scan.recent EXCEPT ![k] = time],
   count      |-> scan.count + 1,
   selected   |-> Append(scan.selected, k),
   suppressed |-> scan.suppressed]

\* Fault: the fingerprint is remembered before the rate limit is asked.
MarkFirst(scan, k, time) ==
  LET marked == [scan EXCEPT !.recent[k] = time]
  IN  CASE k \notin rule.urgent -> scan
        [] k \in rule.urgent /\ Duplicate(scan, k, time) -> Suppress(scan)
        [] OTHER -> IF RateExhausted(scan) THEN Suppress(marked) ELSE Select(scan, k, time)

\* One turn of the loop: level, then rate limit, then fingerprint.
ScanEntry(scan, k, time) ==
  CASE k \notin rule.urgent                  -> scan
    [] k \in rule.urgent /\ RateExhausted(scan) -> Suppress(scan)
    [] OTHER -> IF Duplicate(scan, k, time) THEN Suppress(scan) ELSE Select(scan, k, time)

\* The loop over a batch: after[i] is what the first i turns leave.
ScanBatch(scan, keys, time) ==
  LET after[i \in 0 .. Len(keys)] ==
        IF i = 0 THEN scan ELSE ScanEntry(after[i - 1], keys[i], time)
  IN  after[Len(keys)]

\* The positions of the urgent entries of a batch.
Urgent(keys) == {i \in 1 .. Len(keys) : keys[i] \in rule.urgent}

Known(table) == {k \in Key : table[k] # Never}

\* A table over its limit loses what has expired and, if that is not enough,
\* everything.
Purge(table, time) ==
  [k \in Key |-> IF table[k] # Never /\ time - table[k] >= rule.window THEN Never ELSE table[k]]

Overfull(table) == Cardinality(Known(table)) > rule.cache

Trim(table, time) ==
  CASE ~ Overfull(table)             -> table
    [] Overfull(table) /\ ~ Overfull(Purge(table, time)) -> Purge(table, time)
    [] OTHER                         -> [k \in Key |-> Never]

\* The rate window restarts once a minute has passed since its start.
NewWindow(time) == time - windowStart >= Minute

--------------------------------------------------------------------------------
Init ==
  /\ clock = 0
  /\ rule \in Rules
  /\ ruleChanges = 0
  /\ recent = [k \in Key |-> Never]
  /\ windowStart = 0
  /\ rateCount = 0
  /\ pc = [t \in Thread |-> "idle"]
  /\ now = [t \in Thread |-> 0]
  /\ batch = [t \in Thread |-> <<>>]
  /\ ctx = [t \in Thread |-> <<>>]
  /\ suppressed = 0 /\ alerts = 0
  /\ batches = 0
  /\ raised = <<>>
  /\ cleared = 0 /\ trims = 0
  /\ windows = 0
  /\ urgentSeen = 0

Tick ==
  /\ clock < MaxTime
  /\ clock' = clock + 1
  /\ UNCHANGED <<ruleVars, tableVars, pc, now, batch, ctx, statVars, batches, histVars>>

\* run_alerts with a non-empty batch and some alert plugin: the clock is read
\* first, without the mutex.
RunAlerts(t, keys) ==
  /\ pc[t] = "idle"
  /\ batches < MaxBatches
  /\ batches' = batches + 1
  /\ pc' = [pc EXCEPT ![t] = "select"]
  /\ now' = [now EXCEPT ![t] = clock]
  /\ batch' = [batch EXCEPT ![t] = keys]
  /\ UNCHANGED <<clock, ruleVars, tableVars, ctx, statVars, histVars>>

\* The critical section of select_alerting, with what run_alerts does when
\* nothing was selected.
SelectAlerting(t) ==
  LET restart == NewWindow(now[t])
      scan    == ScanBatch([Scan EXCEPT !.count = IF restart THEN 0 ELSE @],
                           batch[t], now[t])
      table   == Trim(scan.recent, now[t])
      window  == IF restart THEN windows + 1 ELSE windows
      start   == IF restart THEN now[t] ELSE windowStart
      emptied == Overfull(Purge(scan.recent, now[t])) /\ Overfull(scan.recent)
  IN  /\ pc[t] = "select"
      /\ windowStart' = start
      /\ rateCount' = scan.count
      /\ recent' = table
      /\ suppressed' = suppressed + scan.suppressed
      /\ ctx' = [ctx EXCEPT ![t] = scan.selected]
      /\ pc' = [pc EXCEPT ![t] = IF scan.selected = <<>> THEN "idle" ELSE "send"]
      /\ now' = [now EXCEPT ![t] = 0]
      /\ batch' = [batch EXCEPT ![t] = <<>>]
      /\ raised' = raised \o [i \in 1 .. Len(scan.selected) |->
                                [key |-> scan.selected[i], at |-> now[t], rule |-> rule,
                                 window |-> window, start |-> start,
                                 cleared |-> cleared, trims |-> trims]]
      /\ cleared' = IF emptied THEN cleared + 1 ELSE cleared
      /\ trims' = IF Overfull(scan.recent) THEN trims + 1 ELSE trims
      /\ windows' = window
      /\ urgentSeen' = urgentSeen + Cardinality(Urgent(batch[t]))
      /\ UNCHANGED <<clock, ruleVars, alerts, batches>>

\* The alert plugins get the batch. It counts as alerted even if one of them
\* throws (that only adds to total_errors, which is not modelled here).
Send(t) ==
  /\ pc[t] = "send"
  /\ alerts' = alerts + Len(ctx[t])
  /\ ctx' = [ctx EXCEPT ![t] = <<>>]
  /\ pc' = [pc EXCEPT ![t] = "idle"]
  /\ UNCHANGED <<clock, ruleVars, tableVars, now, batch, suppressed, batches, histVars>>

\* set_alert_rule forgets the alerts raised so far, not the rate.
SetAlertRule(r) ==
  /\ ruleChanges < MaxRules
  /\ ruleChanges' = ruleChanges + 1
  /\ rule' = r
  /\ recent' = [k \in Key |-> Never]
  /\ cleared' = cleared + 1
  /\ UNCHANGED <<clock, windowStart, rateCount, pc, now, batch, ctx, statVars, batches,
                 raised, trims, windows, urgentSeen>>

Next ==
  \/ Tick
  \/ \E t \in Thread :
       \/ \E n \in 1 .. MaxBatch : \E keys \in [1 .. n -> Key] : RunAlerts(t, keys)
       \/ SelectAlerting(t)
       \/ Send(t)
  \/ \E r \in Rules : SetAlertRule(r)

Spec == Init /\ [][Next]_vars

--------------------------------------------------------------------------------
TypeOK ==
  /\ clock \in 0 .. MaxTime
  /\ rule \in Rules
  /\ recent \in [Key -> {Never} \cup 0 .. MaxTime]
  /\ windowStart \in 0 .. MaxTime
  /\ {rateCount, suppressed, alerts, cleared, trims, windows, urgentSeen} \subseteq Nat
  /\ batches \in 0 .. MaxBatches
  /\ ruleChanges \in 0 .. MaxRules
  /\ pc \in [Thread -> {"idle", "select", "send"}]
  /\ now \in [Thread -> 0 .. MaxTime]
  /\ batch \in [Thread -> Seq(Key)]
  /\ ctx \in [Thread -> Seq(Key)]
  /\ raised \in Seq(Selection)

\* Two alerts of one fingerprint, with the table not emptied in between
\* (overflow, new rule), which the code prefers to unbounded growth.
Repeated(i, j) ==
  /\ i < j
  /\ raised[i].key = raised[j].key
  /\ raised[i].cleared = raised[j].cleared

Apart(i, j) == raised[j].at - raised[i].at >= raised[j].rule.window

\* Before j, a batch was served whose time is later than j's and past i's window, and the
\* table was purged.
Overtaken(i, j) ==
  /\ raised[i].trims # raised[j].trims
  /\ \E k \in i .. j - 1 : /\ raised[k].at > raised[j].at
                           /\ raised[k].at - raised[i].at >= raised[j].rule.window

\* "One alert per fingerprint and window" (pipeline.h:36), as far as it holds
\* whatever the order in which threads get the mutex, which
\* is not the order of the times they read: a fingerprint is repeated within
\* its window only if the table was purged at a time past that window by a
\* thread that overtook the one that repeats it.
OneAlertUnlessOvertaken ==
  \A i, j \in DOMAIN raised : Repeated(i, j) => Apart(i, j) \/ Overtaken(i, j)

\* The entries selected in rate window w, up to the i-th of all.
InWindow(w, i) == {j \in 1 .. i : raised[j].window = w}

\* An entry is only selected while its rate window holds fewer than
\* max_alerts_per_minute, whatever limit was in force for the earlier ones.
RateWindowIsCapped ==
  \A i \in DOMAIN raised :
    raised[i].rule.max > 0 => Cardinality(InWindow(raised[i].window, i)) <= raised[i].rule.max

\* The entries selected in the minute from m on. Entries of a thread that read its time
\* before the window began are not among them: they count in the later window.
InMinute(m) == {i \in DOMAIN raised : /\ raised[i].at \in m .. m + Minute - 1
                                      /\ raised[i].at >= raised[i].start}

\* What the fixed window guarantees of any minute: twice the limit, since an
\* exhausted window may be followed by a fresh one within seconds.
AnyMinuteIsCapped ==
  \A m \in 0 .. MaxTime : \A r \in Rules :
    (\A i \in InMinute(m) : raised[i].rule.max \in 1 .. r.max) =>
      Cardinality(InMinute(m)) <= 2 * r.max

\* The rate limit (pipeline.h, max_alerts_per_minute), for the windows the code
\* counts in and for any minute.
RateIsCapped == RateWindowIsCapped /\ AnyMinuteIsCapped

\* A fingerprint is only held back by an alert that was raised: the table never
\* knows a fingerprint at a time at which it was not selected (an entry stopped
\* by the rate limit must not silence the next one).
TableOnlyKnowsAlerts ==
  \A k \in Known(recent) :
    \E i \in DOMAIN raised : raised[i].key = k /\ raised[i].at = recent[k]

\* Whenever the mutex is free the table is within dedup_cache_size.
TableIsBounded == ~ Overfull(recent)

\* The table of fingerprints stays within its bound and remembers nothing but
\* alerts, over purges, clears and entries stopped by the rate limit.
TableIsSound == TypeOK /\ TableOnlyKnowsAlerts /\ TableIsBounded

\* "Suppressed entries are counted, not silently lost" (docs): every urgent
\* entry scanned is alerted, on its way to the plugins, or counted suppressed.
OnTheWay == UNION {{t} \X (1 .. Len(ctx[t])) : t \in Thread}
EveryUrgentEntryCounted == urgentSeen = alerts + suppressed + Cardinality(OnTheWay)
================================================================================
