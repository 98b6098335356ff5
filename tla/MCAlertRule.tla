------------------------------ MODULE MCAlertRule ------------------------------
EXTENDS AlertRule, TLC

CONSTANTS t1, t2, disk, net

MCRule(urgent, max, cache) == [urgent |-> urgent, window |-> 2, max |-> max, cache |-> cache]

\* Both fingerprints are urgent and only one fits in the table.
Tight == MCRule({disk, net}, 2, 1)
\* Only one of them is urgent, and it may be alerted once a minute.
Roomy == MCRule({disk}, 1, 2)

BothRules == {Tight, Roomy}

Threads == Permutations(Thread)
================================================================================
