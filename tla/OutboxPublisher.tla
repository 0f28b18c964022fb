--------------------------- MODULE OutboxPublisher ----------------------------
(***************************************************************************)
(* The outbox publisher: instances of internal/publisher that claim rows   *)
(* of outbox_events, produce them to Kafka through internal/kafka/producer *)
(* and mark them, one database transaction per batch.                      *)
(*                                                                         *)
(* An event is numbered by its created_at.  A publisher is a process whose *)
(* steps are the calls that leave it: the claiming SELECT, Produce, the    *)
(* delivery report, the UPDATE, COMMIT, and the flush on shutdown.  The    *)
(* loss of its connection ends a transaction behind the publisher's back:  *)
(* it learns of it at its next statement.                                  *)
(***************************************************************************)
EXTENDS Naturals, Sequences, FiniteSets

CONSTANTS
  Publishers,  \* publisher processes
  Events,      \* outbox rows, numbered in the order of created_at
  KeyOf,       \* KeyOf[e]: the partition_key of e, its order
  Partitions,  \* partitions of the topic
  Home,        \* Home[e]: the partition the partitioner chooses for e, by its key
  Rejected,    \* events that Produce refuses every time: too large a message
  BatchSize,   \* PublisherBatchSize, the LIMIT of the claim
  Faults,      \* which failures happen: "nack", "timeout", "conn", "stop", "crash"
  MaxFaults,   \* bound on the number of failures in a behaviour
  None         \* no message in flight, no report

ASSUME PublisherConstantsOK ==
  /\ Events \subseteq Nat /\ IsFiniteSet(Events)
  /\ Home \in [Events -> Partitions]
  /\ \A d, e \in Events : KeyOf[d] = KeyOf[e] => Home[d] = Home[e]
  /\ Rejected \subseteq Events
  /\ BatchSize \in Nat \ {0}
  /\ Faults \subseteq {"nack", "timeout", "conn", "stop", "crash"}
  /\ MaxFaults \in Nat
  /\ IsFiniteSet(Publishers)
  /\ None \notin Events /\ None \notin {"delivered", "error"}

VARIABLES
  rows,        \* the rows the API has committed
  published,   \* the rows with published_at set
  failed,      \* the rows with last_error set
  log,         \* log[q]: the events of the records of partition q
  pc,          \* what each publisher does
  batch,       \* the claimed rows it has not dealt with yet, oldest first
  marked,      \* its uncommitted UPDATEs: rows marked published ...
  noted,       \* ... and rows marked failed
  inTx,        \* whether PostgreSQL still has its transaction open
  inflight,    \* the message in the producer's queue, or None
  report,      \* the delivery report waiting to be read, or None
  spent        \* failures so far

table == <<rows, published, failed>>
tx    == <<batch, marked, noted, inTx>>
vars  == <<rows, published, failed, log, pc, batch, marked, noted, inTx,
           inflight, report, spent>>

PublisherSteps == {"idle", "produce", "await", "commit", "closing", "down"}

\* The types of the variables, and what the columns of outbox_events allow: only
\* a committed row is published, and last_error is set only while it is not.
TypeOK ==
  /\ rows \in SUBSET Events
  /\ published \in SUBSET rows
  /\ failed \in SUBSET (rows \ published)
  /\ log \in [Partitions -> Seq(Events)]
  /\ pc \in [Publishers -> PublisherSteps]
  /\ batch \in [Publishers -> SUBSET Events]
  /\ marked \in [Publishers -> SUBSET Events]
  /\ noted \in [Publishers -> SUBSET Events]
  /\ inTx \in [Publishers -> BOOLEAN]
  /\ inflight \in [Publishers -> Events \cup {None}]
  /\ report \in [Publishers -> {"delivered", "error", None}]
  /\ spent \in 0..MaxFaults

-----------------------------------------------------------------------------
(* Helpers *)

\* The rows an open transaction has locked.
Locked(p) == IF inTx[p] THEN batch[p] \cup marked[p] \cup noted[p] ELSE {}

\* Mutant of Claimable: no FOR UPDATE SKIP LOCKED.
Claimable_Unlocked == rows \ published

\* published_at IS NULL ... FOR UPDATE SKIP LOCKED.
Claimable == (rows \ published) \ UNION {Locked(p) : p \in Publishers}

\* ORDER BY created_at LIMIT n.
Oldest(S, n) == {e \in S : Cardinality({d \in S : d < e}) < n}

\* Mutant of First: no ORDER BY.
First_Unordered(S) == CHOOSE e \in S : \A d \in S : d <= e

\* The event of the batch that is dealt with next.
First(S) == CHOOSE e \in S : \A d \in S : e <= d

Deliver(e) == log' = [log EXCEPT ![Home[e]] = Append(@, e)]

Goto(p, step) == pc' = [pc EXCEPT ![p] = step]

\* A failure of this kind may happen, and is counted.
Fault(kind) == kind \in Faults /\ spent < MaxFaults /\ spent' = spent + 1

\* The transaction is gone, with its row locks and its updates.
Rollback(p) ==
  /\ batch' = [batch EXCEPT ![p] = {}]
  /\ marked' = [marked EXCEPT ![p] = {}]
  /\ noted' = [noted EXCEPT ![p] = {}]
  /\ inTx' = [inTx EXCEPT ![p] = FALSE]

\* After an event: the next one of the batch, or COMMIT.
NextStep(p) == IF batch[p] = {First(batch[p])} THEN "commit" ELSE "produce"

\* MarkOutboxEventPublished of the event at the head of the batch.
MarkPublished(p) ==
  /\ marked' = [marked EXCEPT ![p] = @ \cup {First(batch[p])}]
  /\ noted' = [noted EXCEPT ![p] = @ \ {First(batch[p])}]
  /\ batch' = [batch EXCEPT ![p] = @ \ {First(@)}]
  /\ Goto(p, NextStep(p))
  /\ UNCHANGED inTx

\* Mutant of MarkFailed: the error ends the batch instead of going on.
MarkFailed_Return(p) == Rollback(p) /\ Goto(p, "idle")

\* MarkOutboxEventFailed, then on to the next event.
MarkFailed(p) ==
  /\ noted' = [noted EXCEPT ![p] = @ \cup {First(batch[p])}]
  /\ batch' = [batch EXCEPT ![p] = @ \ {First(@)}]
  /\ Goto(p, NextStep(p))
  /\ UNCHANGED <<marked, inTx>>

-----------------------------------------------------------------------------
(* The outbox fills *)

\* The API commits row e.  The rows of one order commit in order of created_at.
Insert(e) ==
  /\ e \notin rows
  /\ \A d \in Events : KeyOf[d] = KeyOf[e] /\ d < e => d \in rows
  /\ rows' = rows \cup {e}
  /\ UNCHANGED <<published, failed, log, pc, tx, inflight, report, spent>>

-----------------------------------------------------------------------------
(* PublishBatch *)

\* BEGIN and ClaimOutboxEvents; an empty claim commits at once and changes nothing.
Claim(p) ==
  /\ pc[p] = "idle"
  /\ Claimable # {}
  /\ batch' = [batch EXCEPT ![p] = Oldest(Claimable, BatchSize)]
  /\ inTx' = [inTx EXCEPT ![p] = TRUE]
  /\ Goto(p, "produce")
  /\ UNCHANGED <<table, log, marked, noted, inflight, report, spent>>

\* Produce puts the message in the queue.
Produce(p) ==
  /\ pc[p] = "produce"
  /\ First(batch[p]) \notin Rejected
  /\ inflight' = [inflight EXCEPT ![p] = First(batch[p])]
  /\ Goto(p, "await")
  /\ UNCHANGED <<table, log, tx, report, spent>>

\* Produce refuses the message: Publish returns an error without sending.
ProduceRefuses(p) ==
  /\ pc[p] = "produce"
  /\ First(batch[p]) \in Rejected
  /\ IF inTx[p] THEN MarkFailed(p) ELSE Rollback(p) /\ Goto(p, "idle")
  /\ UNCHANGED <<table, log, inflight, report, spent>>

\* The brokers append the message in flight and acknowledge it.
Acknowledge(p) ==
  /\ inflight[p] # None
  /\ Deliver(inflight[p])
  /\ report' = [report EXCEPT ![p] = IF pc[p] = "await" THEN "delivered" ELSE None]
  /\ inflight' = [inflight EXCEPT ![p] = None]
  /\ UNCHANGED <<table, pc, tx, spent>>

\* Delivery fails: ("nack") the brokers refuse the message, or message.timeout.ms
\* expires with nothing appended; or ("timeout") it was appended and the
\* acknowledgement did not arrive in time.
DeliveryFails(p) ==
  /\ inflight[p] # None
  /\ \/ Fault("nack") /\ UNCHANGED log
     \/ Fault("timeout") /\ Deliver(inflight[p])
  /\ report' = [report EXCEPT ![p] = IF pc[p] = "await" THEN "error" ELSE None]
  /\ inflight' = [inflight EXCEPT ![p] = None]
  /\ UNCHANGED <<table, pc, tx>>

\* Mutant of ReadReport: the row is marked whatever the report says.
ReadReport_Unread(p) ==
  /\ pc[p] = "await"
  /\ report[p] # None
  /\ report' = [report EXCEPT ![p] = None]
  /\ IF inTx[p] THEN MarkPublished(p) ELSE Rollback(p) /\ Goto(p, "idle")
  /\ UNCHANGED <<table, log, inflight, spent>>

\* The delivery report is read and the row marked; the UPDATE fails, and with
\* it the batch, when the transaction is gone.
ReadReport(p) ==
  /\ pc[p] = "await"
  /\ report[p] # None
  /\ report' = [report EXCEPT ![p] = None]
  /\ IF ~inTx[p] THEN Rollback(p) /\ Goto(p, "idle")
     ELSE IF report[p] = "delivered" THEN MarkPublished(p) ELSE MarkFailed(p)
  /\ UNCHANGED <<table, log, inflight, spent>>

\* Mutant of CommitBatch: MarkOutboxEventPublished leaves last_error alone.
CommitBatch_KeepsError(p) ==
  /\ pc[p] = "commit"
  /\ IF inTx[p]
     THEN /\ published' = published \cup marked[p]
          /\ failed' = failed \cup noted[p]
     ELSE UNCHANGED <<published, failed>>
  /\ Rollback(p)
  /\ Goto(p, "idle")
  /\ UNCHANGED <<rows, log, inflight, report, spent>>

\* COMMIT makes the marks visible, or fails with the connection.
CommitBatch(p) ==
  /\ pc[p] = "commit"
  /\ IF inTx[p]
     THEN /\ published' = published \cup marked[p]
          /\ failed' = (failed \cup noted[p]) \ marked[p]
     ELSE UNCHANGED <<published, failed>>
  /\ Rollback(p)
  /\ Goto(p, "idle")
  /\ UNCHANGED <<rows, log, inflight, report, spent>>

-----------------------------------------------------------------------------
(* Failures, shutdown and restart *)

\* The connection breaks: PostgreSQL rolls back, the publisher goes on unaware.
LoseConnection(p) ==
  /\ inTx[p]
  /\ Fault("conn")
  /\ inTx' = [inTx EXCEPT ![p] = FALSE]
  /\ UNCHANGED <<table, log, pc, batch, marked, noted, inflight, report>>

\* SIGTERM cancels the context.  Publish looks at it only after Produce, so the
\* next message may still be queued; then the next statement fails, the
\* transaction is rolled back, Run returns, and Close flushes the queue.
Stop(p) ==
  /\ pc[p] \in {"idle", "produce", "await", "commit"}
  /\ Fault("stop")
  /\ IF pc[p] = "produce" /\ First(batch[p]) \notin Rejected
     THEN inflight' = [inflight EXCEPT ![p] = First(batch[p])]
     ELSE UNCHANGED inflight
  /\ Rollback(p)
  /\ report' = [report EXCEPT ![p] = None]
  /\ Goto(p, "closing")
  /\ UNCHANGED <<table, log>>

\* Flush ends with an empty queue, or gives up on what is left after
\* producerFlushTimeoutMilliseconds.
Closed(p) ==
  /\ pc[p] = "closing"
  /\ inflight' = [inflight EXCEPT ![p] = None]
  /\ Goto(p, "down")
  /\ UNCHANGED <<table, log, tx, report, spent>>

\* The process dies; a message on the wire may still be appended.
Crash(p) ==
  /\ pc[p] # "down"
  /\ Fault("crash")
  /\ Rollback(p)
  /\ \/ UNCHANGED log
     \/ inflight[p] # None /\ Deliver(inflight[p])
  /\ inflight' = [inflight EXCEPT ![p] = None]
  /\ report' = [report EXCEPT ![p] = None]
  /\ Goto(p, "down")
  /\ UNCHANGED table

\* The orchestrator starts the publisher again.
Restart(p) ==
  /\ pc[p] = "down"
  /\ Goto(p, "idle")
  /\ UNCHANGED <<table, log, tx, inflight, report, spent>>

-----------------------------------------------------------------------------
(* Specification *)

Init ==
  /\ rows = {} /\ published = {} /\ failed = {}
  /\ log = [q \in Partitions |-> <<>>]
  /\ pc = [p \in Publishers |-> "idle"]
  /\ batch = [p \in Publishers |-> {}]
  /\ marked = [p \in Publishers |-> {}]
  /\ noted = [p \in Publishers |-> {}]
  /\ inTx = [p \in Publishers |-> FALSE]
  /\ inflight = [p \in Publishers |-> None]
  /\ report = [p \in Publishers |-> None]
  /\ spent = 0

\* What a publisher, and its orchestrator, do when nothing fails.
Work(p) ==
  \/ Claim(p)
  \/ Produce(p)
  \/ ProduceRefuses(p)
  \/ ReadReport(p)
  \/ CommitBatch(p)
  \/ Closed(p)
  \/ Restart(p)

Fail(p) == DeliveryFails(p) \/ LoseConnection(p) \/ Stop(p) \/ Crash(p)

\* Every row is published and the publishers wait for more.
Drained ==
  /\ rows = Events /\ published = rows \ Rejected
  /\ \A p \in Publishers : pc[p] = "idle"
  /\ UNCHANGED vars

\* What the publishers and the brokers do with the rows that are there.
Publish == \E p \in Publishers : Work(p) \/ Acknowledge(p) \/ Fail(p)

Next ==
  \/ \E e \in Events : Insert(e)
  \/ Publish
  \/ Drained

\* The polling loop runs, the brokers answer what nothing else has decided, and
\* a stopped publisher is restarted.
Fairness ==
  \A p \in Publishers : WF_vars(Work(p)) /\ WF_vars(Acknowledge(p))

Spec == Init /\ [][Next]_vars

-----------------------------------------------------------------------------
(* Properties *)

InLog(e) == \E i \in DOMAIN log[Home[e]] : log[Home[e]][i] = e

\* The records of partition q that repeat an earlier one.
Repeats(q) == {i \in DOMAIN log[q] : \E j \in 1..i - 1 : log[q][j] = log[q][i]}

\* No row is marked published unless Kafka has its event: the row is updated
\* only after a successful delivery report, and lost transactions, shutdown and
\* crashes between the report, the UPDATE and COMMIT lose the mark, not the event.
PublishedIsInLog == \A e \in published : InLog(e)

\* Publishers sharing the table send no row twice of their own accord: each
\* failure costs a partition at most one batch of repeated records.
RepeatsNeedFaults ==
  \A q \in Partitions : Cardinality(Repeats(q)) <= spent * BatchSize

\* An event is in the topic only after every earlier event of its order.
OrderKept ==
  \A q \in Partitions : \A j \in DOMAIN log[q] : \A e \in Events :
    KeyOf[e] = KeyOf[log[q][j]] /\ e < log[q][j] => \E i \in 1..j - 1 : log[q][i] = e

\* No event is stuck: after finitely many failures, and with fewer undeliverable
\* rows than fit in a batch, every committed row gets published.
EventuallyPublished ==
  \A e \in Events \ Rejected : e \in rows ~> e \in published

\* README.md: instances share the table "without publishing the same row at the
\* same time".
NotAtTheSameTime ==
  \A p, q \in Publishers : p # q /\ inflight[p] # None => inflight[p] # inflight[q]
=============================================================================
