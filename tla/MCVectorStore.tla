------------------------------ MODULE MCVectorStore ------------------------------
EXTENDS VectorStore, TLC

CONSTANTS near, far, other

\* Two vectors of one dimension and one of another.
MCDimOf == [v \in Vec |-> IF v = other THEN 2 ELSE 1]

Logs == Permutations(Log)
================================================================================
