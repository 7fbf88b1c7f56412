------------------------------- MODULE Queues -------------------------------
(***************************************************************************)
(* Queues without duplicates, and taking elements out of a queue.          *)
(* SelectSeq does the same, but is defined by recursion; this definition   *)
(* names the elements that stay by their places, so that their order can   *)
(* be reasoned about.                                                      *)
(***************************************************************************)
EXTENDS Integers, SequencesExt

\* The place of element e of queue q.
PlaceOf(q, e) == CHOOSE i \in 1..Len(q) : q[i] = e

\* How many of places P are up to i, and the n-th of them.
Rank(P, i) == Cardinality({j \in P : j <= i})
Nth(P, n) == CHOOSE i \in P : Rank(P, i) = n

\* The places of queue q whose elements are not in U, and q without the others.
Staying(q, U) == {i \in 1..Len(q) : q[i] \notin U}
Without(q, U) ==
    LET P == Staying(q, U)
    IN  IF P = 1..Len(q) THEN q ELSE [n \in 1..Cardinality(P) |-> q[Nth(P, n)]]
=============================================================================
