--------------------------- MODULE MCEventPipeline ----------------------------
(***************************************************************************)
(* A small instance of EventPipeline: an order with two events around those *)
(* of another, one that cannot be decoded and one that Kafka refuses.       *)
(***************************************************************************)
EXTENDS EventPipeline, TLC

CONSTANTS orderA, orderB, q1

FourEvents == 1..4

\* Order A has events 1 and 4; order B has events 2 and 3.
FourKeys == [e \in FourEvents |-> IF e \in {1, 4} THEN orderA ELSE orderB]

OnePartition == {q1}

OneHome == [e \in FourEvents |-> q1]
=============================================================================
