------------------------------- MODULE RecentLog -------------------------------
(***************************************************************************)
(* What the log buffer promises a reader, with no ring, ids or index in    *)
(* it: log is every entry ever stored, the last Capacity of them can be    *)
(* found, and an answer is the sequence of the positions in log of the     *)
(* entries found.                                                          *)
(***************************************************************************)
EXTENDS Integers, Sequences

CONSTANTS Capacity, QueryTokens, Containing, TokensOf, EmptyQuery

Live(log) == {i \in DOMAIN log : i > Len(log) - Capacity}

\* answer lists S from the newest on, none twice, up to limit: what is left out is older
\* than all of an answer that is full.
Newest(answer, S, limit) ==
  /\ answer \in Seq(S) /\ Len(answer) <= limit
  /\ \A i, j \in DOMAIN answer : i < j => answer[i] > answer[j]
  /\ \A x \in S : \/ \E i \in DOMAIN answer : answer[i] = x
                  \/ Len(answer) = limit /\ \A i \in DOMAIN answer : answer[i] > x

\* The same from the oldest on.
Oldest(answer, S, limit) ==
  /\ answer \in Seq(S) /\ Len(answer) <= limit
  /\ \A i, j \in DOMAIN answer : i < j => answer[i] < answer[j]
  /\ \A x \in S : \/ \E i \in DOMAIN answer : answer[i] = x
                  \/ Len(answer) = limit /\ \A i \in DOMAIN answer : answer[i] < x

\* Entries that have all words of the query or, when no live entry does (or
\* the query has no word), entries whose text contains the query.
Matching(log, q) ==
  LET byWords == {i \in Live(log) : QueryTokens[q] \subseteq TokensOf[log[i].message]}
      byText  == {i \in Live(log) : log[i].message \in Containing[q]}
  IN  IF q # EmptyQuery /\ QueryTokens[q] # {} /\ byWords # {} THEN byWords ELSE byText

Finds(log, q, limit, answer) == Newest(answer, Matching(log, q), limit)

\* The oldest entries of a closed interval of time, the oldest first.
FindsBetween(log, from, to, limit, answer) ==
  Oldest(answer, {i \in Live(log) : log[i].timestamp \in from .. to}, limit)
================================================================================
