---------------------------- MODULE EventConsumer -----------------------------
(***************************************************************************)
(* The notification consumers: processes of one Kafka consumer group that  *)
(* run internal/kafka/consumer's loop around internal/consumer's handler.  *)
(*                                                                         *)
(* For each record a consumer inserts the event into processed_events and  *)
(* a row into notification_deliveries in one database transaction, and     *)
(* then commits the record's offset.  The group coordinator hands out the  *)
(* partitions; a consumer it has expelled finds out only when it polls or  *)
(* commits.  Every error of the handler or of the offset commit ends the   *)
(* process, which is then started again.                                   *)
(***************************************************************************)
EXTENDS Naturals, Sequences, FiniteSets

CONSTANTS
  Consumers,   \* consumer processes of the group
  Partitions,  \* partitions of the topic
  Events,      \* events that records of the topic may hold
  Home,        \* Home[e]: the partition the records of e go to
  Feed,        \* Feed[q]: the records that arrive in q, one after the other; an
               \* event that is published twice occurs twice
  Poison,      \* events whose record the handler cannot decode
  Faults,      \* which failures happen: "db", "commit", "stop", "crash",
               \* "session", "rebalance"
  MaxFaults,   \* bound on the number of failures in a behaviour
  None         \* no owner, no partition, no uncommitted row

EventsOf(q) == {e \in Events : Home[e] = q}

ASSUME ConsumerConstantsOK ==
  /\ Home \in [Events -> Partitions]
  /\ Feed \in [Partitions -> Seq(Events)]
  /\ \A q \in Partitions : \A i \in DOMAIN Feed[q] : Home[Feed[q][i]] = q
  /\ Poison \subseteq Events
  /\ Faults \subseteq {"db", "commit", "stop", "crash", "session", "rebalance"}
  /\ MaxFaults \in Nat
  /\ None \notin Consumers \cup Partitions \cup Events

VARIABLES
  log,         \* log[q]: the events of the records of q; the record at offset
               \* i - 1 is log[q][i]
  committed,   \* committed[q]: the group's committed offset
  owner,       \* owner[q]: the consumer the coordinator has assigned q to
  processed,   \* the events of processed_events
  sent,        \* the events of notification_deliveries, in commit order
  pc,          \* what each consumer does
  assigned,    \* the partitions it takes for its own
  position,    \* position[c][q]: the offset it will fetch next
  part,        \* the partition of the record in hand, or None
  pending,     \* its uncommitted insert into processed_events, or None
  spent        \* failures so far

group  == <<log, committed, owner>>
tables == <<processed, sent>>
vars   == <<log, committed, owner, processed, sent, pc, assigned, position,
            part, pending, spent>>

ConsumerSteps == {"poll", "insert", "deliver", "dbcommit", "commit", "down"}

\* The types of the variables; offsets stay within the partition's log.
TypeOK ==
  /\ log \in [Partitions -> Seq(Events)]
  /\ committed \in [Partitions -> Nat]
  /\ owner \in [Partitions -> Consumers \cup {None}]
  /\ processed \subseteq Events
  /\ sent \in Seq(Events)
  /\ pc \in [Consumers -> ConsumerSteps]
  /\ assigned \in [Consumers -> SUBSET Partitions]
  /\ position \in [Consumers -> [Partitions -> Nat]]
  /\ part \in [Consumers -> Partitions \cup {None}]
  /\ pending \in [Consumers -> Events \cup {None}]
  /\ spent \in 0..MaxFaults
  /\ \A q \in Partitions :
       committed[q] <= Len(log[q]) /\ \A c \in Consumers : position[c][q] <= Len(log[q])

-----------------------------------------------------------------------------
(* Helpers *)

Owned(c) == {q \in Partitions : owner[q] = c}

\* The event of the record in hand: the last one fetched from its partition.
InHand(c) == log[part[c]][position[c][part[c]]]

Goto(c, step) == pc' = [pc EXCEPT ![c] = step]

\* A failure of this kind may happen, and is counted.
Fault(kind) == kind \in Faults /\ spent < MaxFaults /\ spent' = spent + 1

\* The effect of COMMIT: both rows, or none for a duplicate.
Apply(c) ==
  IF pending[c] = None
  THEN UNCHANGED tables
  ELSE /\ processed' = processed \cup {pending[c]}
       /\ sent' = Append(sent, pending[c])

\* COMMIT that fails, or whose answer is lost, may have been carried out.
Abort(c) == UNCHANGED tables \/ (pc[c] = "dbcommit" /\ Apply(c))

\* The process is gone, and its session with PostgreSQL with it.
Gone(c) ==
  /\ Goto(c, "down")
  /\ assigned' = [assigned EXCEPT ![c] = {}]
  /\ part' = [part EXCEPT ![c] = None]
  /\ pending' = [pending EXCEPT ![c] = None]
  /\ UNCHANGED position

LeaveGroup(c) ==
  owner' = [q \in Partitions |-> IF owner[q] = c THEN None ELSE owner[q]]

\* Run returns, Close leaves the group, the process exits.
Exit(c) == LeaveGroup(c) /\ Gone(c)

-----------------------------------------------------------------------------
(* The brokers: the topic and the group coordinator *)

\* The next record is appended to a partition.
Arrive(q) ==
  /\ Len(log[q]) < Len(Feed[q])
  /\ log' = [log EXCEPT ![q] = Append(@, Feed[q][Len(@) + 1])]
  /\ UNCHANGED <<committed, owner, tables, pc, assigned, position, part, pending, spent>>

\* Mutant of StartFrom: a consumer keeps its own position across assignments.
StartFrom_Position(c, q) == position[c][q]

\* Where a newly assigned consumer starts: the committed offset, or the
\* earliest when there is none.
StartFrom(c, q) == committed[q]

\* A consumer that is polling, and not expelled, is given a partition.
Assign(c, q) ==
  /\ owner[q] = None
  /\ pc[c] = "poll" /\ assigned[c] = Owned(c)
  /\ owner' = [owner EXCEPT ![q] = c]
  /\ assigned' = [assigned EXCEPT ![c] = @ \cup {q}]
  /\ position' = [position EXCEPT ![c][q] = StartFrom(c, q)]
  /\ UNCHANGED <<log, committed, tables, pc, part, pending, spent>>

\* A rebalance takes a partition from a consumer while it polls.
Revoke(c, q) ==
  /\ owner[q] = c /\ pc[c] = "poll"
  /\ Fault("rebalance")
  /\ owner' = [owner EXCEPT ![q] = None]
  /\ assigned' = [assigned EXCEPT ![c] = @ \ {q}]
  /\ UNCHANGED <<log, committed, tables, pc, position, part, pending>>

\* The coordinator stops hearing from a consumer and expels it.  The consumer
\* may be down, or alive (slow, or cut off) and unaware.
SessionTimeout(c) ==
  /\ Owned(c) # {}
  /\ \/ pc[c] = "down" /\ UNCHANGED spent
     \/ pc[c] # "down" /\ Fault("session")
  /\ LeaveGroup(c)
  /\ UNCHANGED <<log, committed, tables, pc, assigned, position, part, pending>>

\* An expelled consumer learns of it in Poll, and rejoins.
Rejoin(c) ==
  /\ pc[c] = "poll" /\ assigned[c] # Owned(c)
  /\ assigned' = [assigned EXCEPT ![c] = Owned(c)]
  /\ UNCHANGED <<group, tables, pc, position, part, pending, spent>>

-----------------------------------------------------------------------------
(* Run and Handle *)

\* Handle decodes the envelope and the payload before it opens the transaction.
Decodable(e) == e \notin Poison

\* Mutant of AfterPoll: an undecodable record is treated as a failure.
AfterPoll_PoisonFails(e) == IF Decodable(e) THEN "insert" ELSE "down"

\* handleRecord discards a record that Handle cannot decode, so that its offset
\* is committed.
AfterPoll(e) == IF Decodable(e) THEN "insert" ELSE "commit"

\* Poll returns the next record of a partition the consumer takes for its own.
Poll(c, q) ==
  /\ pc[c] = "poll"
  /\ q \in assigned[c] /\ position[c][q] < Len(log[q])
  /\ position' = [position EXCEPT ![c][q] = @ + 1]
  /\ part' = [part EXCEPT ![c] = q]
  /\ Goto(c, AfterPoll(log[q][position[c][q] + 1]))
  /\ UNCHANGED <<group, tables, assigned, pending, spent>>

\* Mutant of MayInsert: no primary key on (event_id, consumer_name), so that an
\* uncommitted insert of the same event is not seen.
MayInsert_NoKey(c) == TRUE

\* The INSERT waits for an uncommitted insert of the same key.
MayInsert(c) == \A d \in Consumers \ {c} : pending[d] # InHand(c)

\* TryCreateProcessedEvent: ON CONFLICT DO NOTHING returns no row for an event
\* that is there already, and the transaction ends with nothing written.
TryCreateProcessedEvent(c) ==
  /\ pc[c] = "insert"
  /\ MayInsert(c)
  /\ IF InHand(c) \in processed
     THEN Goto(c, "dbcommit") /\ UNCHANGED pending
     ELSE Goto(c, "deliver") /\ pending' = [pending EXCEPT ![c] = InHand(c)]
  /\ UNCHANGED <<group, tables, assigned, position, part, spent>>

CreateNotificationDelivery(c) ==
  /\ pc[c] = "deliver"
  /\ Goto(c, "dbcommit")
  /\ UNCHANGED <<group, tables, assigned, position, part, pending, spent>>

CommitTx(c) ==
  /\ pc[c] = "dbcommit"
  /\ Apply(c)
  /\ pending' = [pending EXCEPT ![c] = None]
  /\ Goto(c, "commit")
  /\ UNCHANGED <<group, assigned, position, part, spent>>

\* Mutant of HandlerFails: Run commits the offset in spite of the error.
HandlerFails_GoOn(c) ==
  /\ pc[c] \in {"insert", "deliver", "dbcommit"}
  /\ Fault("db")
  /\ Abort(c)
  /\ pending' = [pending EXCEPT ![c] = None]
  /\ Goto(c, "commit")
  /\ UNCHANGED <<group, assigned, position, part>>

\* A statement or COMMIT fails (or SIGTERM has cancelled its context): the
\* transaction is rolled back and Run returns without committing the offset.
HandlerFails(c) ==
  /\ pc[c] \in {"insert", "deliver", "dbcommit"}
  /\ Fault("db")
  /\ Abort(c)
  /\ Exit(c)
  /\ UNCHANGED <<log, committed>>

\* Mutant of Fenced: the coordinator takes commits from anyone.
Fenced_Never(c) == FALSE

\* The coordinator refuses the commit of a consumer it has expelled.
Fenced(c) == owner[part[c]] # c

\* Mutant of CommitOffset: one record too many.
CommitOffset_OneMore(c) ==
  committed' = [committed EXCEPT ![part[c]] = position[c][part[c]] + 1]

\* The offset after the record's becomes the group's.
CommitOffset(c) ==
  committed' = [committed EXCEPT ![part[c]] = position[c][part[c]]]

\* The offset is committed and the loop goes on.
CommitMessage(c) ==
  /\ pc[c] = "commit"
  /\ ~Fenced(c)
  /\ CommitOffset(c)
  /\ part' = [part EXCEPT ![c] = None]
  /\ Goto(c, "poll")
  /\ UNCHANGED <<log, owner, tables, assigned, position, pending, spent>>

\* CommitMessage returns an error, after which the process exits: the consumer
\* is fenced, the request is lost, or only its answer is.
CommitMessageFails(c) ==
  /\ pc[c] = "commit"
  /\ \/ Fenced(c) /\ UNCHANGED <<committed, spent>>
     \/ Fault("commit") /\ UNCHANGED committed
     \/ /\ ~Fenced(c) /\ Fault("commit")
        /\ CommitOffset(c)
  /\ Exit(c)
  /\ UNCHANGED <<log, tables>>

\* SIGTERM, or a fatal error of the Kafka client, outside the handler: Run
\* returns before the next Poll, or without committing the offset.
Stop(c) ==
  /\ pc[c] \in {"poll", "commit"}
  /\ Fault("stop")
  /\ Exit(c)
  /\ UNCHANGED <<log, committed, tables>>

\* The process dies without leaving the group.
Crash(c) ==
  /\ pc[c] # "down"
  /\ Fault("crash")
  /\ Abort(c)
  /\ Gone(c)
  /\ UNCHANGED group

\* A new process joins, once the group has done with the old one.
Restart(c) ==
  /\ pc[c] = "down" /\ Owned(c) = {}
  /\ Goto(c, "poll")
  /\ UNCHANGED <<group, tables, assigned, position, part, pending, spent>>

-----------------------------------------------------------------------------
(* Specification *)

Init ==
  /\ log = [q \in Partitions |-> <<>>]
  /\ committed = [q \in Partitions |-> 0]
  /\ owner = [q \in Partitions |-> None]
  /\ processed = {} /\ sent = <<>>
  /\ pc = [c \in Consumers |-> "poll"]
  /\ assigned = [c \in Consumers |-> {}]
  /\ position = [c \in Consumers |-> [q \in Partitions |-> 0]]
  /\ part = [c \in Consumers |-> None]
  /\ pending = [c \in Consumers |-> None]
  /\ spent = 0

\* What a consumer, and its orchestrator, do when nothing fails.
Work(c) ==
  \/ \E q \in Partitions : Poll(c, q)
  \/ Rejoin(c)
  \/ TryCreateProcessedEvent(c)
  \/ CreateNotificationDelivery(c)
  \/ CommitTx(c)
  \/ CommitMessage(c)
  \/ CommitMessageFails(c)
  \/ Restart(c)

Fail(c) ==
  HandlerFails(c) \/ Stop(c) \/ Crash(c) \/ \E q \in Partitions : Revoke(c, q)

\* What the consumers, and the coordinator, do with the records that are there.
Consume ==
  \/ \E c \in Consumers : Work(c) \/ SessionTimeout(c) \/ Fail(c)
  \/ \E c \in Consumers, q \in Partitions : Assign(c, q)

\* Every record is consumed and the consumers poll in vain.
Drained ==
  /\ log = Feed
  /\ \A q \in Partitions : committed[q] = Len(log[q]) /\ owner[q] # None
  /\ \A c \in Consumers : pc[c] = "poll" /\ assigned[c] = Owned(c)
  /\ UNCHANGED vars

Next ==
  \/ Consume
  \/ \E q \in Partitions : Arrive(q)
  \/ Drained

\* Processes run and are restarted, the coordinator notices the dead and gives
\* every partition to somebody.
Fairness ==
  /\ \A c \in Consumers :
       WF_vars(Work(c)) /\ WF_vars(pc[c] = "down" /\ SessionTimeout(c))
  /\ \A q \in Partitions : WF_vars(\E c \in Consumers : Assign(c, q))

Spec == Init /\ [][Next]_vars

-----------------------------------------------------------------------------
(* Properties *)

\* The offset at which event e of partition q is first found.
FirstOffset(q, e) ==
  CHOOSE i \in DOMAIN log[q] : log[q][i] = e /\ \A j \in 1..i - 1 : log[q][j] # e

\* An event is notified once however often it is published, redelivered after a
\* crash, or handled by two consumers at a time; and the two tables agree.
OneNotificationEach ==
  /\ \A i, j \in DOMAIN sent : sent[i] = sent[j] => i = j
  /\ processed = {sent[i] : i \in DOMAIN sent}

\* The group never passes over an event: below the committed offset everything
\* that can be decoded has been notified.
NothingSkipped ==
  \A q \in Partitions : \A i \in 1..committed[q] :
    log[q][i] \in processed \cup Poison

\* The notifications of a partition, and so of an order, are made in the order
\* of its events, whoever makes them.
NotifiedInOrder ==
  \A q \in Partitions : \A i, j \in DOMAIN sent :
    i < j /\ {sent[i], sent[j]} \subseteq EventsOf(q)
      => FirstOffset(q, sent[i]) < FirstOffset(q, sent[j])

\* A committed offset never goes back: a consumer that comes late with the
\* commit of an old record is refused.
OffsetsOnlyAdvance ==
  [][\A q \in Partitions : committed'[q] >= committed[q]]_vars
=============================================================================
