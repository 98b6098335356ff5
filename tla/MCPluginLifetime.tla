---------------------------- MODULE MCPluginLifetime ----------------------------
EXTENDS PluginLifetime

CONSTANTS t1, t2, syslog, multi, auth

MCPath == {syslog, multi}
MCSource == {auth}
\* Both parse the source, syslog better; multi is an analyzer and an alert too.
MCScore == [p \in MCPath |-> [s \in MCSource |-> IF p = syslog THEN 2 ELSE 1]]

Threads == Permutations(Thread)
================================================================================
