---------------------------- MODULE MCDaemonLifecycle ---------------------------
EXTENDS DaemonLifecycle

\* Signals while main waits for events, and signals between any two of its steps.
BothModes == {FALSE, TRUE}
\* Two requests, of which one may be waiting when the other is served, where signals only
\* come while main waits; one elsewhere.
FewCalls == [mode \in BOOLEAN |-> IF mode THEN 1 ELSE 2]
================================================================================
