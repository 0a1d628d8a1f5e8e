------------------------------- MODULE Order -------------------------------
(***************************************************************************)
(* The comparator of internal/queue/order.go and what the heaps built on   *)
(* it deliver. A heap is the set of its elements: push adds one, pop takes *)
(* the element the comparator puts first.                                  *)
(***************************************************************************)
EXTENDS Integers, FiniteSets

\* Whether a message with key a is delivered before one with key b.
less(a, b, lifo) ==
  \/ a.prio > b.prio
  \/ a.prio = b.prio /\ IF lifo THEN a.seq > b.seq ELSE a.seq < b.seq

\* S is what n pops of the ready heap R return (all of R when it holds fewer).
popped(S, R, n, key, lifo) ==
  /\ S \subseteq R
  /\ Cardinality(S) = IF Cardinality(R) < n THEN Cardinality(R) ELSE n
  /\ \A a \in S, b \in R \ S : less(key[a], key[b], lifo)
============================================================================
