---------------------------- MODULE EventPipeline -----------------------------
(***************************************************************************)
(* The way of an event from the outbox to its notification: OutboxPublisher *)
(* and EventConsumer over one topic.  The publishers append to the          *)
(* partitions that the consumers read; they share nothing else but the      *)
(* count of failures.                                                       *)
(***************************************************************************)
EXTENDS Naturals, Sequences, FiniteSets

CONSTANTS
  Publishers, Consumers,          \* the processes
  Events, KeyOf,                  \* outbox rows, and the order each is about
  Partitions, Home,               \* the topic, and the partition of each event
  Rejected,                       \* events Kafka does not take
  Poison,                         \* events the handler cannot decode
  BatchSize,                      \* PublisherBatchSize
  PublisherFaults, ConsumerFaults, \* which failures happen on either side
  MaxFaults,                      \* bound on the number of failures
  None

\* What the two components assume of them.
ASSUME PipelineConstantsOK ==
  /\ Events \subseteq Nat /\ IsFiniteSet(Events) /\ IsFiniteSet(Publishers)
  /\ Home \in [Events -> Partitions]
  /\ \A d, e \in Events : KeyOf[d] = KeyOf[e] => Home[d] = Home[e]
  /\ Rejected \subseteq Events /\ Poison \subseteq Events
  /\ BatchSize \in Nat \ {0} /\ MaxFaults \in Nat
  /\ PublisherFaults \subseteq {"nack", "timeout", "conn", "stop", "crash"}
  /\ ConsumerFaults \subseteq {"db", "commit", "stop", "crash", "session", "rebalance"}
  /\ None \notin Consumers \cup Partitions \cup Events /\ None \notin {"delivered", "error"}

VARIABLES
  rows, published, failed,        \* outbox_events
  ppc, batch, marked, noted, inTx, inflight, report,  \* the publishers
  log,                            \* the topic
  committed, owner,               \* the consumer group
  processed, sent,                \* processed_events, notification_deliveries
  cpc, assigned, position, part, pending,             \* the consumers
  spent                           \* failures so far

publisherVars == <<rows, published, failed, ppc, batch, marked, noted, inTx,
                   inflight, report>>
consumerVars  == <<committed, owner, processed, sent, cpc, assigned, position,
                   part, pending>>
vars          == <<publisherVars, log, consumerVars, spent>>

Publisher == INSTANCE OutboxPublisher WITH pc <- ppc, Faults <- PublisherFaults

\* No record arrives from elsewhere: Feed is for a consumer without a publisher.
Consumer == INSTANCE EventConsumer WITH
  pc <- cpc, Faults <- ConsumerFaults, Feed <- [q \in Partitions |-> <<>>]

-----------------------------------------------------------------------------
(* Specification *)

Init == Publisher!Init /\ Consumer!Init

\* The API commits a change of an order with its event.
Record(e) == Publisher!Insert(e) /\ UNCHANGED consumerVars

Publish == Publisher!Publish /\ UNCHANGED consumerVars

Consume == Consumer!Consume /\ UNCHANGED publisherVars

\* Everything is published and consumed, and the processes wait for more.
Drained ==
  /\ rows = Events /\ published = rows \ Rejected
  /\ \A p \in Publishers : ppc[p] = "idle"
  /\ \A q \in Partitions : committed[q] = Len(log[q]) /\ owner[q] # None
  /\ \A c \in Consumers : cpc[c] = "poll"
  /\ UNCHANGED vars

Next ==
  \/ \E e \in Events : Record(e)
  \/ Publish
  \/ Consume
  \/ Drained

Spec     == Init /\ [][Next]_vars
FairSpec == Spec /\ Publisher!Fairness /\ Consumer!Fairness

-----------------------------------------------------------------------------
(* Properties *)

Ledger == INSTANCE NotificationLedger WITH
  recorded <- rows, notified <- sent, Deliverable <- Events \ (Rejected \cup Poison)

\* The whole way, from the commit of an order's change to the notification of
\* its owner, gets every deliverable event through exactly once, in its order's
\* order and in the end: repeated and undecodable records, undeliverable rows
\* and restarts on both sides notwithstanding, as long as one publisher runs and
\* no delivery is refused that a later attempt would see accepted.
ImplementsNotifications == Ledger!Spec

\* An event is in the topic only after every earlier event of its order.
OrderKept == Publisher!OrderKept

\* No event is stuck in the outbox: after finitely many failures, and with fewer
\* undeliverable rows than fit in a batch, every committed row gets published.
EventuallyPublished == Publisher!EventuallyPublished
=============================================================================
