------------------------------- MODULE MCEntryPath ------------------------------
EXTENDS EntryPath, TLC

CONSTANTS a, b

TwoThreads == {a, b}
\* Nothing, one entry, or two of which a plugin may return one.
FewBatches == {<<>>, <<"ERROR">>, <<"DEBUG", "ERROR">>}
Symmetry == Permutations(TwoThreads)
================================================================================
