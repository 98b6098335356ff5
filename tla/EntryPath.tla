-------------------------------- MODULE EntryPath -------------------------------
(***************************************************************************)
(* What becomes of one line inside process_raw_now() (src/daemon/          *)
(* pipeline.cpp): collector, chain of analyzers, alert plugin, output, by  *)
(* several threads at once, with plugins that filter and plugins that      *)
(* throw. One analyzer is the repository's threshold_analyzer, whose       *)
(* sliding window counts errors by the time they were read at; the other   *)
(* may do whatever the interface allows.                                   *)
(*                                                                         *)
(* Which entries alert, and how often, is in AlertRule; here every error   *)
(* does. Entries are of one module.                                        *)
(***************************************************************************)
EXTENDS Integers, Sequences, Functions, FiniteSetsExt

CONSTANTS
  Caller,     \* threads that process lines
  Window,     \* m_window
  MaxLines,   \* bound: lines
  Batches,    \* the sequences of levels a collector may make of one line
  MaxClock,   \* bound: the clock
  MaxErrors   \* bound: exceptions

ASSUME PathAssumption ==
  /\ Batches \subseteq Seq({"DEBUG", "ERROR"})
  /\ {Window, MaxLines, MaxErrors} \subseteq Nat /\ MaxClock \in Nat \ {0}

VARIABLES
  chain,      \* the snapshot's analyzers, in order (never changes)
  dropDebug,  \* m_drop_debug (never changes)
  wallClock,  \* the system clock, which may be set back
  work,       \* work[t]: where thread t is, the number of its analyzer, its entries, its line
  lines,      \* lines taken up so far
  history,    \* m_history of the module
  errors,     \* m_stats.total_errors
  processed,  \* m_stats.total_processed
  put,        \* put[l]: entries of line l that were put out (history variable)
  filtered,   \* lines of which a plugin has returned less than it was given (history)
  unsent,     \* alerts that no plugin took (history variable)
  arrivals    \* every time recorded in the window, in order (history variable)

rigidVars  == <<chain, dropDebug>>
pastVars   == <<put, filtered, unsent, arrivals>>
pathVars == <<rigidVars, wallClock, work, lines, history, errors, processed, pastVars>>

Level == {"DEBUG", "ERROR"}
Entry == [level : Level, time : 0 .. MaxClock]

--------------------------------------------------------------------------------
\* Fault: an exception is not counted.
ForgetError == errors

\* The catch blocks count in m_stats.total_errors.
CountError == errors + 1

\* The locals of process_raw_now while no line is worked on.
Nothing == [at |-> "idle", step |-> 1, batch |-> <<>>, line |-> 0]

\* process_raw_now returns as soon as nothing is left.
GoOn(t, w) == work' = [work EXCEPT ![t] = IF w.batch = <<>> THEN Nothing ELSE w]

\* run_collectors: entries that bear the time they were read at; the collector may make
\* none of the line.
Collect(t, levels) ==
  /\ work[t].at = "idle"
  /\ lines < MaxLines
  /\ lines' = lines + 1
  /\ GoOn(t, [at |-> "chain", step |-> 1, line |-> lines + 1,
              batch |-> [i \in DOMAIN levels |-> [level |-> levels[i], time |-> wallClock]]])
  /\ filtered' = IF levels = <<>> THEN filtered \cup {lines + 1} ELSE filtered
  /\ UNCHANGED <<rigidVars, wallClock, history, errors, processed, put, unsent, arrivals>>

\* A collector that throws ends its line.
CollectThrows(t) ==
  /\ work[t].at = "idle"
  /\ lines < MaxLines
  /\ errors < MaxErrors
  /\ lines' = lines + 1
  /\ errors' = CountError
  /\ UNCHANGED <<rigidVars, wallClock, work, history, processed, pastVars>>

--------------------------------------------------------------------------------
\* Fault: what is exactly as old as the window has left it.
SlideTight(s, when) ==
  SubSeq(s, Min({i \in 1 .. Len(s) : when - s[i] < Window}), Len(s))

\* record_and_count: what is too old leaves at the front, up to the first that is not.
\* The time just recorded is never too old.
Slide(s, when) ==
  SubSeq(s, Min({i \in 1 .. Len(s) : when - s[i] <= Window}), Len(s))

\* One turn of the loop of ThresholdAnalyzer::analyze: s holds the entries kept so far,
\* the window and the record of arrivals.
ThresholdEntry(s, e) ==
  IF dropDebug /\ e.level = "DEBUG" THEN s
  ELSE IF e.level = "ERROR"
       THEN [kept     |-> Append(s.kept, e),
             history  |-> Slide(Append(s.history, e.time), e.time),
             arrivals |-> Append(s.arrivals, e.time)]
       ELSE [s EXCEPT !.kept = Append(@, e)]

ThresholdLoop(s, entries) ==
  LET after[i \in 0 .. Len(entries)] ==
        IF i = 0 THEN s ELSE ThresholdEntry(after[i - 1], entries[i])
  IN  after[Len(entries)]

\* Where the loop of run_analyzers is after analyzer number w.step.
NextAt(w) == IF w.step = Len(chain) THEN "alerts" ELSE "chain"

\* An analyzer returned `entries`: the loop goes on to the next, unless there are none.
After(t, entries) ==
  LET w == work[t]
  IN  /\ GoOn(t, [w EXCEPT !.batch = entries, !.step = @ + 1, !.at = NextAt(w)])
      /\ filtered' = IF Len(entries) < Len(w.batch) THEN filtered \cup {w.line} ELSE filtered

AtAnalyzer(t, name) == work[t].at = "chain" /\ chain[work[t].step] = name

\* ThresholdAnalyzer::analyze holds its mutex throughout.
Threshold(t) ==
  /\ AtAnalyzer(t, "threshold")
  /\ LET s == ThresholdLoop([kept |-> <<>>, history |-> history, arrivals |-> arrivals],
                            work[t].batch)
     IN  /\ After(t, s.kept)
         /\ history' = s.history
         /\ arrivals' = s.arrivals
  /\ UNCHANGED <<rigidVars, wallClock, lines, errors, processed, put, unsent>>

\* Another analyzer: it returns all, some or none of what it was given.
Other(t, n) ==
  /\ AtAnalyzer(t, "other")
  /\ After(t, SubSeq(work[t].batch, 1, n))
  /\ UNCHANGED <<rigidVars, wallClock, lines, history, errors, processed, put, unsent, arrivals>>

\* It throws. The entries were moved into the call, so nothing is left for the rest of the
\* chain, which is called all the same.
OtherThrows(t) ==
  /\ AtAnalyzer(t, "other")
  /\ errors < MaxErrors
  /\ errors' = CountError
  /\ LET w == [work[t] EXCEPT !.batch = <<>>, !.step = @ + 1, !.at = NextAt(work[t])]
     IN  IF w.at = "chain" THEN work' = [work EXCEPT ![t] = w] ELSE GoOn(t, w)
  /\ UNCHANGED <<rigidVars, wallClock, lines, history, processed, pastVars>>

--------------------------------------------------------------------------------
Alerting(t) == \E i \in DOMAIN work[t].batch : work[t].batch[i].level = "ERROR"

\* run_alerts, with one alert plugin: it takes the alert or throws; the line goes on.
Alert(t, throws) ==
  /\ work[t].at = "alerts"
  /\ throws => Alerting(t) /\ errors < MaxErrors
  /\ errors' = IF throws THEN CountError ELSE errors
  /\ unsent' = IF throws THEN unsent + 1 ELSE unsent
  /\ work' = [work EXCEPT ![t].at = "output"]
  /\ UNCHANGED <<rigidVars, wallClock, lines, history, processed, put, filtered, arrivals>>

\* The output callback, then note_processed.
Output(t) ==
  /\ work[t].at = "output"
  /\ put' = [put EXCEPT ![work[t].line] = Len(work[t].batch)]
  /\ processed' = processed + Len(work[t].batch)
  /\ work' = [work EXCEPT ![t] = Nothing]
  /\ UNCHANGED <<rigidVars, wallClock, lines, history, errors, filtered, unsent, arrivals>>

\* Time passes, or the clock is set back.
ClockMoves ==
  /\ wallClock' \in {wallClock + 1, wallClock - 1} \cap 0 .. MaxClock
  /\ UNCHANGED <<rigidVars, work, lines, history, errors, processed, pastVars>>

PathInit ==
  /\ chain \in {<<"threshold">>, <<"threshold", "other">>, <<"other", "threshold">>}
  /\ dropDebug \in BOOLEAN
  /\ wallClock = 1
  /\ work = [t \in Caller |-> Nothing]
  /\ lines = 0
  /\ history = <<>>
  /\ errors = 0
  /\ processed = 0
  /\ put = [l \in 1 .. MaxLines |-> 0]
  /\ filtered = {}
  /\ unsent = 0
  /\ arrivals = <<>>

PathNext ==
  \/ ClockMoves
  \/ \E t \in Caller :
       \/ \E levels \in Batches : Collect(t, levels)
       \/ CollectThrows(t)
       \/ Threshold(t)
       \/ \E n \in 0 .. Len(work[t].batch) : Other(t, n)
       \/ OtherThrows(t)
       \/ \E throws \in BOOLEAN : Alert(t, throws)
       \/ Output(t)

PathSpec == PathInit /\ [][PathNext]_pathVars
--------------------------------------------------------------------------------
PathTypeOK ==
  /\ wallClock \in 0 .. MaxClock
  /\ work \in [Caller -> [at : {"idle", "chain", "alerts", "output"},
                          step : 1 .. Len(chain) + 1, batch : Seq(Entry), line : 0 .. MaxLines]]
  /\ lines \in 0 .. MaxLines
  /\ {history, arrivals} \subseteq Seq(0 .. MaxClock)
  /\ errors \in 0 .. MaxErrors /\ {processed, unsent} \subseteq Nat
  /\ put \in [1 .. MaxLines -> Nat] /\ filtered \subseteq 1 .. MaxLines

\* The lines no thread works on any more.
Finished == {l \in 1 .. lines : \A t \in Caller : work[t].line # l}

\* The sum over all lines.
Total(counts) ==
  LET sum[l \in 0 .. MaxLines] == IF l = 0 THEN 0 ELSE sum[l - 1] + counts[l]
  IN  sum[MaxLines]

\* Nothing is lost without a trace: a line of which nothing was put out was filtered by a
\* plugin or has its exception in total_errors, as has an alert that nobody took; and
\* total_processed is what was put out.
EveryLossIsCounted ==
  /\ PathTypeOK
  /\ Cardinality({l \in Finished \ filtered : put[l] = 0}) + unsent <= errors
  /\ processed = Total(put)

\* The furthest a time recorded later lies behind one recorded earlier.
Setback ==
  Max({0} \cup {arrivals[p[1]] - arrivals[p[2]] :
                p \in {q \in (DOMAIN arrivals) \X (DOMAIN arrivals) : q[1] < q[2]}})

\* The window counts every error of the last Window seconds, as counted from the latest
\* time seen, and is exact when times come in order; out of order it counts none that is
\* older than the window by more than the times are out of order, so it stays bounded.
BurstIsBounded ==
  arrivals # <<>> =>
    LET latest == Max(Range(arrivals))
        last   == arrivals[Len(arrivals)]
        Since(x) == Cardinality({i \in DOMAIN arrivals : arrivals[i] >= x})
    IN  /\ Len(history) >= Since(latest - Window)
        /\ Len(history) <= Since(last - Window - Setback)
================================================================================
