------------------------------ MODULE MCWorkerPool -----------------------------
EXTENDS WorkerPool

CONSTANTS a, b, c

\* a and b hash to the same worker.
MCSource == {a, b, c}
MCShard == [s \in MCSource |-> IF s = c THEN 2 ELSE 1]
\* One source for each worker.
PairSource == {a, c}
PairShard == [s \in PairSource |-> IF s = c THEN 2 ELSE 1]
================================================================================
