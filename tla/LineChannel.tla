------------------------------ MODULE LineChannel ------------------------------
(***************************************************************************)
(* What process_raw promises, with no threads, queues or locks in it: each *)
(* source has a channel that delivers its accepted lines in the order they *)
(* came, each exactly once; a line that is not accepted is counted as      *)
(* lost and never turns up later; and an accepted line does get delivered. *)
(***************************************************************************)
EXTENDS Integers, Sequences

CONSTANTS Source, MaxLines

VARIABLES
  pending,    \* lines accepted and not yet delivered
  delivered,  \* delivered[s]: numbers of the lines of s delivered, in order
  lost        \* lines refused

vars == <<pending, delivered, lost>>

Line == [src : Source, num : 1 .. MaxLines]

Init ==
  /\ pending = {}
  /\ delivered = [s \in Source |-> <<>>]
  /\ lost = {}

\* A source hands its lines over in order: l comes after all that were seen of it.
IsNext(l) ==
  /\ \A k \in pending \cup lost : k.src = l.src => k.num < l.num
  /\ \A i \in 1 .. Len(delivered[l.src]) : delivered[l.src][i] < l.num

Accept ==
  \E l \in Line :
    /\ IsNext(l)
    /\ pending' = pending \cup {l}
    /\ UNCHANGED <<delivered, lost>>

Refuse ==
  \E l \in Line :
    /\ IsNext(l)
    /\ lost' = lost \cup {l}
    /\ UNCHANGED <<pending, delivered>>

\* The oldest line of s goes out.
Deliver(s) ==
  \E l \in pending :
    /\ l.src = s
    /\ \A k \in pending : k.src = s => l.num <= k.num
    /\ delivered' = [delivered EXCEPT ![s] = Append(@, l.num)]
    /\ pending' = pending \ {l}
    /\ UNCHANGED lost

Next == Accept \/ Refuse \/ \E s \in Source : Deliver(s)

SafeSpec == Init /\ [][Next]_vars

Spec == SafeSpec /\ \A s \in Source : WF_vars(Deliver(s))
================================================================================
