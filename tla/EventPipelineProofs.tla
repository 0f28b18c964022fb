------------------------- MODULE EventPipelineProofs --------------------------
(***************************************************************************)
(* Proofs about EventPipeline: what the publishers and the consumers keep  *)
(* apart they keep together, and the pipeline takes only steps of          *)
(* NotificationLedger.                                                     *)
(*                                                                         *)
(* Each side sees the other in two ways only.  To the publishers a step of *)
(* the consumers is a rest in which something may fail; to the consumers a *)
(* step of a publisher is such a rest, or one more record.                 *)
(***************************************************************************)
EXTENDS EventPipeline, TLAPS

\* The components with their proofs.
Pub == INSTANCE OutboxPublisherProofs WITH pc <- ppc, Faults <- PublisherFaults

Con == INSTANCE EventConsumerProofs WITH
  pc <- cpc, Faults <- ConsumerFaults, Feed <- [q \in Partitions |-> <<>>]

\* The constants are what the components assume.
LEMMA PublisherOK == Pub!PublisherConstantsOK
BY PipelineConstantsOK DEF Pub!PublisherConstantsOK, Pub!IsFiniteSet, IsFiniteSet

LEMMA ConsumerOK == Con!ConsumerConstantsOK
BY PipelineConstantsOK DEF Con!ConsumerConstantsOK

-----------------------------------------------------------------------------
(* The components are the same with and without their proofs *)

LEMMA SameFirst ==
  ASSUME NEW S
  PROVE  Publisher!First(S) = Pub!First(S)
BY DEF Publisher!First, Pub!First

LEMMA SameCardinality ==
  ASSUME NEW S
  PROVE  Publisher!Cardinality(S) = Pub!Cardinality(S)
BY DEF Publisher!Cardinality, Pub!Cardinality, Publisher!IsFiniteSet, Pub!IsFiniteSet

LEMMA SameOldest ==
  ASSUME NEW S, NEW n
  PROVE  Publisher!Oldest(S, n) = Pub!Oldest(S, n)
BY SameCardinality DEF Publisher!Oldest, Pub!Oldest

\* The publishers' steps.
LEMMA SamePublisher ==
  ASSUME NEW p
  PROVE  /\ Publisher!Work(p) => Pub!Work(p)
         /\ Publisher!Acknowledge(p) => Pub!Acknowledge(p)
         /\ Publisher!Fail(p) => Pub!Fail(p)
<1> USE DEF Publisher!Goto, Pub!Goto, Publisher!Rollback, Pub!Rollback, Publisher!Fault,
            Pub!Fault, Publisher!Deliver, Pub!Deliver, Publisher!table, Pub!table,
            Publisher!tx, Pub!tx
<1>1. Publisher!Claim(p) => Pub!Claim(p)
  BY SameOldest DEF Publisher!Claim, Pub!Claim, Publisher!Claimable, Pub!Claimable,
     Publisher!Locked, Pub!Locked
<1>2. Publisher!Produce(p) => Pub!Produce(p)
  BY SameFirst DEF Publisher!Produce, Pub!Produce
<1>3. Publisher!NextStep(p) = Pub!NextStep(p)
  BY SameFirst DEF Publisher!NextStep, Pub!NextStep
<1>4. Publisher!MarkPublished(p) => Pub!MarkPublished(p)
  BY <1>3, SameFirst DEF Publisher!MarkPublished, Pub!MarkPublished
<1>5. Publisher!MarkFailed(p) => Pub!MarkFailed(p)
  BY <1>3, SameFirst DEF Publisher!MarkFailed, Pub!MarkFailed
<1>6. Publisher!ProduceRefuses(p) => Pub!ProduceRefuses(p)
  BY <1>5, SameFirst DEF Publisher!ProduceRefuses, Pub!ProduceRefuses
<1>7. Publisher!ReadReport(p) => Pub!ReadReport(p)
  BY <1>4, <1>5 DEF Publisher!ReadReport, Pub!ReadReport
<1>8. Publisher!CommitBatch(p) => Pub!CommitBatch(p)
  BY DEF Publisher!CommitBatch, Pub!CommitBatch
<1>9. Publisher!Closed(p) \/ Publisher!Restart(p) => Pub!Closed(p) \/ Pub!Restart(p)
  BY DEF Publisher!Closed, Pub!Closed, Publisher!Restart, Pub!Restart
<1>10. Publisher!Acknowledge(p) => Pub!Acknowledge(p)
  BY DEF Publisher!Acknowledge, Pub!Acknowledge
<1>11. Publisher!DeliveryFails(p) => Pub!DeliveryFails(p)
  BY DEF Publisher!DeliveryFails, Pub!DeliveryFails
<1>12. Publisher!LoseConnection(p) => Pub!LoseConnection(p)
  BY DEF Publisher!LoseConnection, Pub!LoseConnection
<1>13. Publisher!Stop(p) => Pub!Stop(p)
  BY SameFirst DEF Publisher!Stop, Pub!Stop
<1>14. Publisher!Crash(p) => Pub!Crash(p)
  BY DEF Publisher!Crash, Pub!Crash
<1> QED
  BY <1>1, <1>2, <1>6, <1>7, <1>8, <1>9, <1>10, <1>11, <1>12, <1>13, <1>14
  DEF Publisher!Work, Pub!Work, Publisher!Fail, Pub!Fail

LEMMA SamePublish ==
  ASSUME Publisher!Publish
  PROVE  Pub!Publish
BY SamePublisher DEF Publisher!Publish, Pub!Publish

LEMMA SameInsert ==
  ASSUME NEW e, Publisher!Insert(e)
  PROVE  Pub!Insert(e)
BY DEF Publisher!Insert, Pub!Insert, Publisher!tx, Pub!tx

LEMMA SameInit ==
  ASSUME Init
  PROVE  Pub!Init /\ Con!Init
BY DEF Init, Publisher!Init, Pub!Init, Consumer!Init, Con!Init

\* The consumers' steps.
LEMMA SameConsumer ==
  ASSUME NEW c
  PROVE  /\ Consumer!Work(c) => Con!Work(c)
         /\ Consumer!SessionTimeout(c) => Con!SessionTimeout(c)
         /\ Consumer!Fail(c) => Con!Fail(c)
         /\ \A q \in Partitions : Consumer!Assign(c, q) => Con!Assign(c, q)
<1> USE DEF Consumer!Goto, Con!Goto, Consumer!Fault, Con!Fault, Consumer!Owned, Con!Owned,
            Consumer!LeaveGroup, Con!LeaveGroup, Consumer!tables, Con!tables,
            Consumer!group, Con!group
<1>1. Consumer!InHand(c) = Con!InHand(c)
  BY DEF Consumer!InHand, Con!InHand
<1>2. Consumer!Apply(c) => Con!Apply(c)
  BY DEF Consumer!Apply, Con!Apply
<1>3. Consumer!Abort(c) => Con!Abort(c)
  BY <1>2 DEF Consumer!Abort, Con!Abort
<1>4. Consumer!Gone(c) => Con!Gone(c)
  BY DEF Consumer!Gone, Con!Gone
<1>5. Consumer!Exit(c) => Con!Exit(c)
  BY <1>4 DEF Consumer!Exit, Con!Exit
<1>6. \A q \in Partitions : Consumer!Assign(c, q) => Con!Assign(c, q)
  BY DEF Consumer!Assign, Con!Assign, Consumer!StartFrom, Con!StartFrom
<1>7. \A q \in Partitions : Consumer!Revoke(c, q) => Con!Revoke(c, q)
  BY DEF Consumer!Revoke, Con!Revoke
<1>8. Consumer!SessionTimeout(c) => Con!SessionTimeout(c)
  BY DEF Consumer!SessionTimeout, Con!SessionTimeout
<1>9. Consumer!Rejoin(c) => Con!Rejoin(c)
  BY DEF Consumer!Rejoin, Con!Rejoin
<1>10. \A q \in Partitions : Consumer!Poll(c, q) => Con!Poll(c, q)
  BY DEF Consumer!Poll, Con!Poll, Consumer!AfterPoll, Con!AfterPoll,
     Consumer!Decodable, Con!Decodable
<1>11. Consumer!TryCreateProcessedEvent(c) => Con!TryCreateProcessedEvent(c)
  BY <1>1 DEF Consumer!TryCreateProcessedEvent, Con!TryCreateProcessedEvent,
     Consumer!MayInsert, Con!MayInsert
<1>12. Consumer!CreateNotificationDelivery(c) => Con!CreateNotificationDelivery(c)
  BY DEF Consumer!CreateNotificationDelivery, Con!CreateNotificationDelivery
<1>13. Consumer!CommitTx(c) => Con!CommitTx(c)
  BY <1>2 DEF Consumer!CommitTx, Con!CommitTx
<1>14. Consumer!CommitMessage(c) => Con!CommitMessage(c)
  BY DEF Consumer!CommitMessage, Con!CommitMessage, Consumer!Fenced, Con!Fenced,
     Consumer!CommitOffset, Con!CommitOffset
<1>15. Consumer!CommitMessageFails(c) => Con!CommitMessageFails(c)
  BY <1>5 DEF Consumer!CommitMessageFails, Con!CommitMessageFails, Consumer!Fenced, Con!Fenced,
     Consumer!CommitOffset, Con!CommitOffset
<1>16. Consumer!Restart(c) => Con!Restart(c)
  BY DEF Consumer!Restart, Con!Restart
<1>17. Consumer!HandlerFails(c) => Con!HandlerFails(c)
  BY <1>3, <1>5 DEF Consumer!HandlerFails, Con!HandlerFails
<1>18. Consumer!Stop(c) => Con!Stop(c)
  BY <1>5 DEF Consumer!Stop, Con!Stop
<1>19. Consumer!Crash(c) => Con!Crash(c)
  BY <1>3, <1>4 DEF Consumer!Crash, Con!Crash
<1> QED
  BY <1>6, <1>7, <1>8, <1>9, <1>10, <1>11, <1>12, <1>13, <1>14, <1>15, <1>16, <1>17, <1>18, <1>19
  DEF Consumer!Work, Con!Work, Consumer!Fail, Con!Fail

LEMMA SameConsume ==
  ASSUME Consumer!Consume
  PROVE  Con!Consume
BY SameConsumer DEF Consumer!Consume, Con!Consume

-----------------------------------------------------------------------------
(* Each side as the other sees it *)

\* A step of the publishers leaves the topic alone, or appends a record to the
\* partition of its event.
LEMMA PublishEffect ==
  ASSUME Pub!IInv, Pub!Publish
  PROVE  /\ rows' = rows /\ spent' \in 0..MaxFaults
         /\ log' = log \/ \E e \in Events : log' = [log EXCEPT ![Home[e]] = Append(@, e)]
<1>1. PICK p \in Publishers : Pub!Work(p) \/ Pub!Acknowledge(p) \/ Pub!Fail(p)
  BY DEF Pub!Publish
<1>2. inflight[p] # None => inflight[p] \in Events
  BY DEF Pub!IInv, Pub!TypeOK
<1>3. Pub!IInv'
  BY PublisherOK, Pub!PublishPreserves
<1>4. spent' \in 0..MaxFaults
  BY <1>3 DEF Pub!IInv, Pub!TypeOK
<1>5. rows' = rows
  BY <1>1 DEF Pub!Work, Pub!Fail, Pub!Claim, Pub!Produce, Pub!ProduceRefuses, Pub!ReadReport,
     Pub!CommitBatch, Pub!Closed, Pub!Restart, Pub!Acknowledge, Pub!DeliveryFails,
     Pub!LoseConnection, Pub!Stop, Pub!Crash, Pub!table
<1>6. log' = log \/ (inflight[p] # None /\ Pub!Deliver(inflight[p]))
  BY <1>1 DEF Pub!Work, Pub!Fail, Pub!Claim, Pub!Produce, Pub!ProduceRefuses, Pub!ReadReport,
     Pub!CommitBatch, Pub!Closed, Pub!Restart, Pub!Acknowledge, Pub!DeliveryFails,
     Pub!LoseConnection, Pub!Stop, Pub!Crash
<1> QED
  BY <1>2, <1>4, <1>5, <1>6 DEF Pub!Deliver

\* What holds of the pipeline whatever fails, and what holds when the order of
\* events is kept.
PipelineInv ==
  /\ Pub!IInv /\ Pub!OriginInv
  /\ Con!IInv /\ Con!OrderInv

\* When the order of events is kept: one publisher, no delivery that fails
\* without a record, and no event that Kafka takes after one of the same order
\* that it refuses.
OrderConditions ==
  /\ \A p, r \in Publishers : p = r
  /\ "nack" \notin PublisherFaults
  /\ \A d \in Rejected, e \in Events : KeyOf[d] = KeyOf[e] /\ d < e => e \in Rejected

LEMMA InitPipeline ==
  ASSUME Init
  PROVE  PipelineInv /\ Pub!OrderInv
BY SameInit, PublisherOK, ConsumerOK, Pub!InitInvariant, Pub!InitOrigin, Pub!InitOrder,
   Con!InitInvariant, Con!InitOrder DEF PipelineInv

\* The API commits an event.
LEMMA RecordPreserves ==
  ASSUME PipelineInv, NEW e \in Events, Record(e)
  PROVE  PipelineInv' /\ (Pub!OrderInv => Pub!OrderInv')
<1>1. Pub!Insert(e) /\ UNCHANGED consumerVars
  BY SameInsert DEF Record
<1>2. Pub!IInv' /\ Pub!OriginInv' /\ (Pub!OrderInv => Pub!OrderInv')
  BY <1>1, PublisherOK, Pub!InsertPreserves, Pub!InsertKeepsOrigin, Pub!InsertKeepsOrder
  DEF PipelineInv
<1>3. log' = log /\ spent' = spent
  BY <1>1 DEF Pub!Insert
<1>4. Con!Rest
  BY <1>1, <1>3 DEF Con!Rest, consumerVars, PipelineInv, Con!IInv, Con!TypeOK
<1>5. Con!IInv' /\ Con!OrderInv'
  BY <1>4, ConsumerOK, Con!RestPreserves, Con!RestKeepsOrder DEF PipelineInv
<1> QED
  BY <1>2, <1>5 DEF PipelineInv

\* A publisher, or the brokers, take a step.
LEMMA PublishPreserves ==
  ASSUME PipelineInv, Publish
  PROVE  PipelineInv' /\ (OrderConditions /\ Pub!OrderInv => Pub!OrderInv')
<1>1. Pub!Publish /\ UNCHANGED consumerVars
  BY SamePublish DEF Publish
<1>2. Pub!IInv' /\ Pub!OriginInv'
  BY <1>1, PublisherOK, Pub!PublishPreserves, Pub!PublishKeepsOrigin DEF PipelineInv
<1>3. OrderConditions /\ Pub!OrderInv => Pub!OrderInv'
  BY <1>1, PublisherOK, Pub!PublishKeepsOrder DEF PipelineInv, OrderConditions, Pub!OrderConditions
<1>4. /\ spent' \in 0..MaxFaults
      /\ log' = log \/ \E e \in Events : log' = [log EXCEPT ![Home[e]] = Append(@, e)]
  BY <1>1, PublishEffect DEF PipelineInv
<1>5. CASE log' = log
  <2>1. Con!Rest
    BY <1>1, <1>4, <1>5 DEF Con!Rest, consumerVars
  <2>2. Con!IInv' /\ Con!OrderInv'
    BY <2>1, ConsumerOK, Con!RestPreserves, Con!RestKeepsOrder DEF PipelineInv
  <2> QED
    BY <1>2, <1>3, <2>2 DEF PipelineInv
<1>6. ASSUME NEW e \in Events, log' = [log EXCEPT ![Home[e]] = Append(@, e)]
      PROVE  PipelineInv'
  <2>1. PICK q \in Partitions : q = Home[e]
    BY PipelineConstantsOK
  <2>2. Con!Grow(q, e)
    BY <1>1, <1>4, <1>6, <2>1 DEF Con!Grow, Con!tables, consumerVars
  <2>3. Con!IInv' /\ Con!OrderInv'
    BY <2>1, <2>2, ConsumerOK, Con!GrowPreserves, Con!GrowKeepsOrder DEF PipelineInv
  <2> QED
    BY <1>2, <2>3 DEF PipelineInv
<1> QED
  BY <1>3, <1>4, <1>5, <1>6

\* A consumer, or the coordinator, takes a step.
LEMMA ConsumePreserves ==
  ASSUME PipelineInv, Consume
  PROVE  PipelineInv' /\ (Pub!OrderInv => Pub!OrderInv')
<1>1. Con!Consume /\ UNCHANGED publisherVars
  BY SameConsume DEF Consume
<1>2. log' = log /\ spent' \in 0..MaxFaults
  BY <1>1, ConsumerOK, Con!ConsumeEffect DEF PipelineInv
<1>3. Pub!Rest
  BY <1>1, <1>2 DEF Pub!Rest, publisherVars
<1>4. Pub!IInv' /\ Pub!OriginInv' /\ (Pub!OrderInv => Pub!OrderInv')
  BY <1>3, PublisherOK, Pub!RestPreserves, Pub!RestKeepsOrigin, Pub!RestKeepsOrder DEF PipelineInv
<1>5. Con!Next
  BY <1>1 DEF Con!Next
<1>6. Con!IInv' /\ Con!OrderInv'
  BY <1>1, <1>5, ConsumerOK, Con!NextPreserves, Con!ConsumeKeepsOrder DEF PipelineInv
<1> QED
  BY <1>4, <1>6 DEF PipelineInv

\* Nothing happens.
LEMMA StutterPreserves ==
  ASSUME PipelineInv, UNCHANGED vars
  PROVE  PipelineInv' /\ (Pub!OrderInv => Pub!OrderInv')
<1>1. Pub!Rest /\ Con!Rest
  BY DEF vars, publisherVars, consumerVars, Pub!Rest, Con!Rest, PipelineInv, Con!IInv, Con!TypeOK
<1>2. Pub!IInv' /\ Pub!OriginInv' /\ (Pub!OrderInv => Pub!OrderInv')
  BY <1>1, PublisherOK, Pub!RestPreserves, Pub!RestKeepsOrigin, Pub!RestKeepsOrder DEF PipelineInv
<1>3. Con!IInv' /\ Con!OrderInv'
  BY <1>1, ConsumerOK, Con!RestPreserves, Con!RestKeepsOrder DEF PipelineInv
<1> QED
  BY <1>2, <1>3 DEF PipelineInv

LEMMA NextPreserves ==
  ASSUME PipelineInv, [Next]_vars
  PROVE  PipelineInv' /\ (OrderConditions /\ Pub!OrderInv => Pub!OrderInv')
BY RecordPreserves, PublishPreserves, ConsumePreserves, StutterPreserves DEF Next, Drained

-----------------------------------------------------------------------------
(* Theorems *)

\* What publishers and consumers keep on their own they keep over one topic:
\* the locks and marks of the outbox, the offsets and tables of the group, and
\* that all that travels was committed with an order's change.
THEOREM Invariance == Spec => []PipelineInv
<1>1. Init => PipelineInv
  BY InitPipeline
<1>2. PipelineInv /\ [Next]_vars => PipelineInv'
  BY NextPreserves
<1> QED
  BY <1>1, <1>2, PTL DEF Spec

LEMMA OrderInvariance == OrderConditions => (Spec => []Pub!OrderInv)
<1> SUFFICES ASSUME OrderConditions PROVE Spec => []Pub!OrderInv
  OBVIOUS
<1>1. Init => Pub!OrderInv
  BY InitPipeline
<1>2. PipelineInv /\ Pub!OrderInv /\ [Next]_vars => Pub!OrderInv'
  BY NextPreserves
<1> QED
  BY <1>1, <1>2, Invariance, PTL DEF Spec

\* With one publisher, and no failed delivery that left nothing in the topic, the
\* events of an order are in the topic in their order, whatever else fails on
\* either side.
THEOREM OrderIsKept == OrderConditions => (Spec => []OrderKept)
<1>1. Pub!OrderInv => OrderKept
  BY DEF Pub!OrderInv, Pub!OrderKept, OrderKept, Publisher!OrderKept
<1> QED
  BY <1>1, OrderInvariance, PTL

-----------------------------------------------------------------------------
(* The pipeline implements the ledger *)

\* A consumer that commits notifies the earliest event of an order that can be
\* notified and has not been: what Kafka holds of the order before the record in
\* hand is dealt with, and by OrderKept it holds everything earlier.
LEMMA ConsumeNotifies ==
  ASSUME PipelineInv, Pub!OrderInv, Consume, sent' # sent
  PROVE  \E e \in Events : Ledger!Notify(e)
<1>1. Con!Consume /\ rows' = rows
  BY SameConsume DEF Consume, publisherVars
<1>0. PICK q \in Partitions : \E n \in 1..Len(log[q]) :
        /\ sent' = Append(sent, log[q][n])
        /\ log[q][n] \notin Con!Dealt
        /\ \A i \in 1..n - 1 : log[q][i] \in Con!Dealt
  BY <1>1, ConsumerOK, Con!ConsumeEffect DEF PipelineInv
<1>2. PICK n \in 1..Len(log[q]) :
        /\ sent' = Append(sent, log[q][n])
        /\ log[q][n] \notin Con!Dealt
        /\ \A i \in 1..n - 1 : log[q][i] \in Con!Dealt
  BY <1>0
<1>3. log[q] \in Seq(Events) /\ n \in DOMAIN log[q]
  BY DEF PipelineInv, Con!IInv, Con!TypeOK
<1>4. PICK e \in Events : e = log[q][n]
  BY <1>3
<1>5. processed = Ledger!Notified
  BY DEF PipelineInv, Con!IInv, Con!OneNotificationEach, Ledger!Notified
<1>6. e \in (rows \cap (Events \ (Rejected \cup Poison))) \ Ledger!Notified
  BY <1>2, <1>4, <1>5 DEF PipelineInv, Pub!OriginInv, Con!Dealt
<1>7. ASSUME NEW d \in Ledger!Earlier(e), d \notin Poison PROVE d \in Ledger!Notified
  <2>1. d \in Events /\ KeyOf[d] = KeyOf[e] /\ d < e
    BY <1>7 DEF Ledger!Earlier
  <2>2. Pub!OrderKept
    BY DEF Pub!OrderInv
  <2>3. PICK i \in 1..n - 1 : log[q][i] = d
    BY <1>3, <1>4, <2>1, <2>2 DEF Pub!OrderKept
  <2> QED
    BY <1>2, <1>5, <1>7, <2>3 DEF Con!Dealt
<1> QED
  BY <1>1, <1>2, <1>4, <1>6, <1>7 DEF Ledger!Notify

LEMMA StepIsLedgerStep ==
  ASSUME PipelineInv, Pub!OrderInv, [Next]_vars
  PROVE  [Ledger!Next]_(Ledger!vars)
<1>1. ASSUME NEW e \in Events, Record(e) PROVE Ledger!Record(e)
  BY <1>1 DEF Record, Publisher!Insert, Ledger!Record, Ledger!Earlier, consumerVars
<1>2. CASE Publish
  <2>1. Pub!Publish /\ sent' = sent
    BY <1>2, SamePublish DEF Publish, consumerVars
  <2>2. rows' = rows
    BY <2>1, PublishEffect DEF PipelineInv
  <2> QED
    BY <2>1, <2>2 DEF Ledger!vars
<1>3. CASE Consume
  <2>1. CASE sent' = sent
    BY <1>3, <2>1 DEF Consume, publisherVars, Ledger!vars
  <2>2. CASE sent' # sent
    BY <1>3, <2>2, ConsumeNotifies DEF Ledger!Next
  <2> QED
    BY <2>1, <2>2
<1>4. CASE UNCHANGED vars
  BY <1>4 DEF vars, publisherVars, consumerVars, Ledger!vars
<1> QED
  BY <1>1, <1>2, <1>3, <1>4 DEF Next, Drained, Ledger!Next

\* Every step of the pipeline, failures on either side included, is a step of the
\* ledger or none of its business: an event is notified at most once, only when
\* it was committed, and after all earlier ones of its order that can be.
THEOREM TakesLedgerSteps == OrderConditions => (Spec => Ledger!Steps)
<1> SUFFICES ASSUME OrderConditions PROVE Spec => Ledger!Steps
  OBVIOUS
<1>1. Init => Ledger!Init
  BY DEF Init, Publisher!Init, Consumer!Init, Ledger!Init
<1>2. PipelineInv /\ Pub!OrderInv /\ [Next]_vars => [Ledger!Next]_(Ledger!vars)
  BY StepIsLedgerStep
<1>3. Spec => []Pub!OrderInv
  BY OrderInvariance
<1> QED
  BY <1>1, <1>2, <1>3, Invariance, PTL DEF Spec, Ledger!Steps
=============================================================================
