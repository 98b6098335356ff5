----------------------------- MODULE MCFileWatcher -----------------------------
EXTENDS FileWatcher

\* Lines written in two pieces, and one that is longer than the limit.
ShortAndLong == [n \in 1 .. MaxLines |-> IF n = 2 THEN 4 ELSE 2]
================================================================================
