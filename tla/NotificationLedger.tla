-------------------------- MODULE NotificationLedger --------------------------
(***************************************************************************)
(* What the outbox, Kafka and the consumers promise between them, with     *)
(* none of the three in sight: an event that was recorded with an order's  *)
(* change is notified exactly once, after the earlier events of its order. *)
(***************************************************************************)
EXTENDS Naturals, Sequences

CONSTANTS
  Events,      \* events, numbered in the order in which they happened
  KeyOf,       \* KeyOf[e]: the order e is about
  Deliverable  \* events that can be published and read

VARIABLES
  recorded,    \* the events of committed changes
  notified     \* the notifications made, in order

vars == <<recorded, notified>>

\* The events of an order before e.
Earlier(e) == {d \in Events : KeyOf[d] = KeyOf[e] /\ d < e}

Notified == {notified[i] : i \in DOMAIN notified}

Init == recorded = {} /\ notified = <<>>

\* A change of an order commits with its event.
Record(e) ==
  /\ e \notin recorded
  /\ Earlier(e) \subseteq recorded
  /\ recorded' = recorded \cup {e}
  /\ UNCHANGED notified

\* The order's owner is told of the event.
Notify(e) ==
  /\ e \in (recorded \cap Deliverable) \ Notified
  /\ Earlier(e) \cap Deliverable \subseteq Notified
  /\ notified' = Append(notified, e)
  /\ UNCHANGED recorded

Next == \E e \in Events : Record(e) \/ Notify(e)

\* What may happen: each event once, and in order.
Steps == Init /\ [][Next]_vars

\* Nobody has to record anything; what is recorded has to be notified.
Spec ==
  /\ Steps
  /\ WF_vars(\E e \in Events : Notify(e))
=============================================================================
