--------------------------- MODULE MCEventConsumer ----------------------------
(***************************************************************************)
(* Small instances of EventConsumer: a partition with an event that was     *)
(* published twice and an undecodable record, and a second partition.       *)
(***************************************************************************)
EXTENDS EventConsumer, TLC

CONSTANTS q1, q2

TwoPartitions == {q1, q2}

FourEvents == {1, 2, 4, 9}

\* Events 1 and 4 are published twice, 9 cannot be decoded.
TwoFeeds == (q1 :> <<1, 9, 1, 2>>) @@ (q2 :> <<4, 4>>)

TwoHomes == [e \in FourEvents |-> IF e = 4 THEN q2 ELSE q1]

\* Consumers are interchangeable in the runs that check no liveness.
Symmetry == Permutations(Consumers)
=============================================================================
