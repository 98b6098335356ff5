------------------------------ MODULE MCClientFeed ------------------------------
EXTENDS ClientFeed

\* Every other entry is an error.
OddErrors == [e \in 1 .. MaxEntries |-> e % 2 = 1]
================================================================================
