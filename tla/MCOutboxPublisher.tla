-------------------------- MODULE MCOutboxPublisher ---------------------------
(***************************************************************************)
(* Small instances of OutboxPublisher: two orders whose events interleave   *)
(* in created_at, so that a batch holds events of both, in one partition.   *)
(***************************************************************************)
EXTENDS OutboxPublisher, TLC

CONSTANTS orderA, orderB, q1

TwoEvents == 1..2

\* Two events of one order.
OneKey == [e \in TwoEvents |-> orderA]

FourEvents == 1..4

\* Order A has events 1 and 4; order B has events 2 and 3.
FourKeys == [e \in FourEvents |-> IF e \in {1, 4} THEN orderA ELSE orderB]

OnePartition == {q1}

OneHome == [e \in Events |-> q1]

Symmetry == Permutations(Publishers)
=============================================================================
