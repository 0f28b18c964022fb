------------------------- MODULE EventConsumerProofs --------------------------
(***************************************************************************)
(* Proofs about EventConsumer, for any consumers, partitions and topic, any *)
(* undecodable events and any of the failures.                             *)
(*                                                                         *)
(* That nothing is skipped rests on two facts the properties do not state: *)
(* a consumer that owns a partition is at most one record ahead of the     *)
(* committed offset, and the event of that record has been dealt with by   *)
(* the time its offset is committed.                                       *)
(***************************************************************************)
EXTENDS EventConsumer, TLAPS

Busy == {"insert", "deliver", "dbcommit", "commit"}

\* A record is in hand exactly between Poll and the commit of its offset; the
\* event inserted by the open transaction is the record's.
HandInv(c) ==
  /\ pc[c] \notin Busy => part[c] = None /\ pending[c] = None
  /\ pc[c] \in Busy => part[c] \in Partitions /\ position[c][part[c]] # 0
  /\ pc[c] \in {"insert", "commit"} => pending[c] = None
  /\ pc[c] = "deliver" => pending[c] = InHand(c)
  /\ pc[c] = "dbcommit" =>
       pending[c] = InHand(c) \/ (pending[c] = None /\ InHand(c) \in processed)
  /\ pc[c] = "commit" => InHand(c) \in processed \cup Poison

\* An uncommitted event is new, and nobody else has it uncommitted.
PendingInv(c) ==
  pending[c] # None =>
    /\ pending[c] \notin processed
    /\ \A d \in Consumers \ {c} : pending[d] # pending[c]

\* A running consumer that owns a partition has fetched what is committed, and
\* the record in hand.
PositionInv(c) ==
  pc[c] # "down" => \A q \in Partitions : owner[q] = c =>
    /\ part[c] # q => position[c][q] = committed[q]
    /\ part[c] = q => position[c][q] = committed[q] + 1

ConsInv(c) == HandInv(c) /\ PendingInv(c) /\ PositionInv(c)

\* The inductive invariant.
IInv ==
  /\ TypeOK
  /\ \A c \in Consumers : ConsInv(c)
  /\ OneNotificationEach
  /\ NothingSkipped

-----------------------------------------------------------------------------
(* Types *)

\* The record in hand holds an event of the topic.
LEMMA InHandType ==
  ASSUME TypeOK, NEW c \in Consumers, part[c] \in Partitions, position[c][part[c]] # 0
  PROVE  InHand(c) \in Events /\ InHand(c) # None
<1>1. log[part[c]] \in Seq(Events)
  BY DEF TypeOK
<1>2. position[c][part[c]] \in 1..Len(log[part[c]])
  BY <1>1 DEF TypeOK
<1>3. InHand(c) \in Events
  BY <1>1, <1>2 DEF InHand
<1> QED
  BY <1>3, ConsumerConstantsOK

\* COMMIT, carried out or not, keeps the types of the tables.
LEMMA AbortType ==
  ASSUME TypeOK, NEW c \in Consumers, Abort(c) \/ Apply(c) \/ UNCHANGED tables
  PROVE  processed' \subseteq Events /\ sent' \in Seq(Events)
<1>1. CASE UNCHANGED tables
  BY <1>1 DEF TypeOK, tables
<1>2. CASE Apply(c) /\ pending[c] # None
  <2>1. pending[c] \in Events
    BY <1>2 DEF TypeOK
  <2>2. processed' = processed \cup {pending[c]} /\ sent' = Append(sent, pending[c])
    BY <1>2 DEF Apply
  <2>3. processed \subseteq Events /\ sent \in Seq(Events)
    BY DEF TypeOK
  <2>4. sent' \in Seq(Events)
    BY <2>1, <2>2, <2>3
  <2> QED
    BY <2>1, <2>2, <2>3, <2>4
<1>3. CASE Apply(c) /\ pending[c] = None
  BY <1>1, <1>3 DEF Apply
<1> QED
  BY <1>1, <1>2, <1>3 DEF Abort

\* The end of a process keeps the types of what it had.
LEMMA GoneType ==
  ASSUME TypeOK, NEW c \in Consumers, Gone(c)
  PROVE  /\ pc' \in [Consumers -> ConsumerSteps]
         /\ assigned' \in [Consumers -> SUBSET Partitions]
         /\ position' \in [Consumers -> [Partitions -> Nat]]
         /\ part' \in [Consumers -> Partitions \cup {None}]
         /\ pending' \in [Consumers -> Events \cup {None}]
BY DEF TypeOK, Gone, Goto, ConsumerSteps

\* Committed offsets and positions are within the partition.
OffsetsOK ==
  \A q \in Partitions :
    committed[q] <= Len(log[q]) /\ \A c \in Consumers : position[c][q] <= Len(log[q])

\* A partition has one more record, something may have failed elsewhere, and
\* nothing else has changed.
Grow(q, e) ==
  /\ log' = [log EXCEPT ![q] = Append(@, e)]
  /\ UNCHANGED <<committed, owner, tables, pc, assigned, position, part, pending>>
  /\ spent' \in 0..MaxFaults

\* The consumers rest, while something else may fail.
Rest ==
  /\ UNCHANGED <<log, committed, owner, processed, sent, pc, assigned, position, part, pending>>
  /\ spent' \in 0..MaxFaults

\* What arrives is an event.
LEMMA ArriveGrows ==
  ASSUME TypeOK, NEW q \in Partitions, Arrive(q)
  PROVE  \E e \in Events : Grow(q, e)
<1>1. Len(log[q]) \in Nat /\ Feed[q] \in Seq(Events)
  BY ConsumerConstantsOK DEF TypeOK
<1>2. Feed[q][Len(log[q]) + 1] \in Events
  BY <1>1 DEF Arrive
<1> QED
  BY <1>2 DEF Arrive, Grow, TypeOK

\* A record more leaves the records there are in their places.
LEMMA GrowLog ==
  ASSUME TypeOK, NEW q \in Partitions, NEW e \in Events, Grow(q, e)
  PROVE  /\ log' \in [Partitions -> Seq(Events)]
         /\ \A p \in Partitions : /\ Len(log[p]) \in Nat /\ Len(log'[p]) >= Len(log[p])
                                 /\ Len(log'[p]) \in Nat
                                 /\ \A i \in 1..Len(log[p]) : log'[p][i] = log[p][i]
<1>1. \A p \in Partitions : log[p] \in Seq(Events) /\ Len(log[p]) \in Nat
  BY DEF TypeOK
<1>2. /\ log'[q] = Append(log[q], e)
      /\ \A p \in Partitions \ {q} : log'[p] = log[p]
      /\ log' = [p \in Partitions |-> IF p = q THEN Append(log[q], e) ELSE log[p]]
  BY DEF Grow, TypeOK
<1>3. /\ Append(log[q], e) \in Seq(Events) /\ Len(Append(log[q], e)) = Len(log[q]) + 1
      /\ \A i \in 1..Len(log[q]) : Append(log[q], e)[i] = log[q][i]
  BY <1>1
<1> QED
  BY <1>1, <1>2, <1>3

\* A record more keeps the types.
LEMMA GrowType ==
  ASSUME TypeOK, NEW q \in Partitions, NEW e \in Events, Grow(q, e)
  PROVE  TypeOK'
<1>1. \A p \in Partitions :
        committed[p] <= Len(log'[p]) /\ \A c \in Consumers : position[c][p] <= Len(log'[p])
  BY GrowLog DEF TypeOK
<1> QED
  BY <1>1, GrowLog DEF TypeOK, Grow, tables

\* Every step keeps the types.
LEMMA TypeStep ==
  ASSUME TypeOK, \A c \in Consumers : HandInv(c), [Next]_vars
  PROVE  TypeOK'
<1> USE DEF ConsumerSteps
<1>0. /\ \A q \in Partitions : Len(log[q]) \in Nat
      /\ MaxFaults \in Nat
      /\ OffsetsOK
  BY ConsumerConstantsOK DEF TypeOK, OffsetsOK
<1>1. ASSUME NEW c \in Consumers, NEW q \in Partitions, Assign(c, q)
      PROVE  TypeOK'
  BY <1>1, <1>0 DEF TypeOK, Assign, StartFrom, tables
<1>2. ASSUME NEW c \in Consumers, NEW q \in Partitions, Revoke(c, q)
      PROVE  TypeOK'
  BY <1>2, <1>0 DEF TypeOK, Revoke, Fault, tables
<1>3. ASSUME NEW c \in Consumers, SessionTimeout(c)
      PROVE  TypeOK'
  BY <1>3, <1>0 DEF TypeOK, SessionTimeout, LeaveGroup, Fault, tables
<1>4. ASSUME NEW c \in Consumers, Rejoin(c)
      PROVE  TypeOK'
  BY <1>4 DEF TypeOK, Rejoin, Owned, tables, group
<1>5. ASSUME NEW c \in Consumers, NEW q \in Partitions, Poll(c, q)
      PROVE  TypeOK'
  BY <1>5, <1>0 DEF TypeOK, Poll, Goto, AfterPoll, tables, group
<1>6. ASSUME NEW c \in Consumers, TryCreateProcessedEvent(c)
      PROVE  TypeOK'
  <2>1. InHand(c) \in Events
    BY <1>6, InHandType DEF TryCreateProcessedEvent, HandInv, Busy
  <2> QED
    <3>1. pending' \in [Consumers -> Events \cup {None}]
      BY <1>6, <2>1 DEF TypeOK, TryCreateProcessedEvent
    <3>2. pc' \in [Consumers -> ConsumerSteps]
      BY <1>6 DEF TypeOK, TryCreateProcessedEvent, Goto, ConsumerSteps
    <3> QED
      BY <1>6, <3>1, <3>2 DEF TypeOK, TryCreateProcessedEvent, tables, group
<1>7. ASSUME NEW c \in Consumers, CreateNotificationDelivery(c)
      PROVE  TypeOK'
  BY <1>7 DEF TypeOK, CreateNotificationDelivery, Goto, tables, group
<1>8. ASSUME NEW c \in Consumers, CommitTx(c)
      PROVE  TypeOK'
  BY <1>8, AbortType DEF TypeOK, CommitTx, Goto, group
<1>9. ASSUME NEW c \in Consumers, CommitMessage(c)
      PROVE  TypeOK'
  <2>1. part[c] \in Partitions
    BY <1>9 DEF CommitMessage, HandInv, Busy
  <2> QED
    BY <1>9, <2>1, <1>0 DEF TypeOK, CommitMessage, CommitOffset, Goto, tables
<1>10. ASSUME NEW c \in Consumers, CommitMessageFails(c)
       PROVE  TypeOK'
  <2>1. part[c] \in Partitions
    BY <1>10 DEF CommitMessageFails, HandInv, Busy
  <2>2. /\ committed' \in [Partitions -> Nat] /\ spent' \in 0..MaxFaults
        /\ \A q \in Partitions : committed'[q] <= Len(log[q])
    <3>1. CASE UNCHANGED committed
      BY <1>10, <3>1, <1>0 DEF TypeOK, CommitMessageFails, Fault
    <3>2. CASE Fault("commit") /\ CommitOffset(c)
      BY <2>1, <3>2, <1>0 DEF TypeOK, CommitOffset, Fault
    <3> QED
      BY <1>10, <3>1, <3>2 DEF CommitMessageFails
  <2>3. owner' \in [Partitions -> Consumers \cup {None}] /\ position' = position
    BY <1>10 DEF TypeOK, CommitMessageFails, Exit, LeaveGroup, Gone
  <2> QED
    BY <1>10, <2>2, <2>3, GoneType DEF TypeOK, CommitMessageFails, Exit, tables
<1>11. ASSUME NEW c \in Consumers, HandlerFails(c)
       PROVE  TypeOK'
  <2>1. owner' \in [Partitions -> Consumers \cup {None}] /\ position' = position
    BY <1>11 DEF TypeOK, HandlerFails, Exit, LeaveGroup, Gone
  <2>2. spent' \in 0..MaxFaults
    BY <1>11, <1>0 DEF TypeOK, HandlerFails, Fault
  <2> QED
    BY <1>11, <2>1, <2>2, AbortType, GoneType DEF TypeOK, HandlerFails, Exit
<1>12. ASSUME NEW c \in Consumers, Stop(c)
       PROVE  TypeOK'
  <2>1. owner' \in [Partitions -> Consumers \cup {None}] /\ position' = position
    BY <1>12 DEF TypeOK, Stop, Exit, LeaveGroup, Gone
  <2>2. spent' \in 0..MaxFaults
    BY <1>12, <1>0 DEF TypeOK, Stop, Fault
  <2> QED
    BY <1>12, <2>1, <2>2, GoneType DEF TypeOK, Stop, Exit, tables
<1>13. ASSUME NEW c \in Consumers, Crash(c)
       PROVE  TypeOK'
  <2>1. spent' \in 0..MaxFaults /\ position' = position
    BY <1>13, <1>0 DEF TypeOK, Crash, Fault, Gone
  <2> QED
    BY <1>13, <2>1, AbortType, GoneType DEF TypeOK, Crash, group
<1>14. ASSUME NEW c \in Consumers, Restart(c)
       PROVE  TypeOK'
  BY <1>14 DEF TypeOK, Restart, Goto, tables, group
<1>15. CASE UNCHANGED vars
  BY <1>15 DEF TypeOK, vars
<1>16. ASSUME NEW q \in Partitions, Arrive(q)
       PROVE  TypeOK'
  BY <1>16, ArriveGrows, GrowType
<1> QED
  BY <1>1, <1>2, <1>3, <1>4, <1>5, <1>6, <1>7, <1>8, <1>9, <1>10, <1>11, <1>12, <1>13,
     <1>14, <1>15, <1>16
  DEF Next, Consume, Work, Fail, Drained

-----------------------------------------------------------------------------
(* Frames *)

\* A step of c leaves the consumer d alone: it gives d no partition, moves no
\* offset of a partition of d, and commits no event that d has uncommitted.
LeavesAlone(c, d) ==
  /\ UNCHANGED log
  /\ pc'[d] = pc[d] /\ part'[d] = part[d] /\ pending'[d] = pending[d]
  /\ position'[d] = position[d]
  /\ \A q \in Partitions : owner'[q] = d => owner[q] = d /\ committed'[q] = committed[q]
  /\ processed \subseteq processed'
  /\ pending[d] # None => pending[d] \notin processed' /\ pending'[c] # pending[d]

\* What a consumer may rely on survives the steps of the others.
LEMMA FrameOthers ==
  ASSUME TypeOK, NEW c \in Consumers, NEW d \in Consumers \ {c}, ConsInv(d),
         LeavesAlone(c, d),
         \A e \in Consumers \ {c} : pending'[e] = pending[e]
  PROVE  ConsInv(d)'
<1> USE DEF LeavesAlone
<1>1. InHand(d)' = InHand(d)
  BY DEF InHand
<1>2. HandInv(d)'
  BY <1>1 DEF ConsInv, HandInv
<1>3. PendingInv(d)'
  BY DEF ConsInv, PendingInv
<1>4. PositionInv(d)'
  BY DEF ConsInv, PositionInv
<1> QED
  BY <1>2, <1>3, <1>4 DEF ConsInv

\* It is enough to look at the consumer that moves, and at the tables.
LEMMA Combine ==
  ASSUME IInv, TypeOK', NEW c \in Consumers, ConsInv(c)',
         \A d \in Consumers \ {c} : LeavesAlone(c, d),
         OneNotificationEach', NothingSkipped'
  PROVE  IInv'
<1>1. ASSUME NEW d \in Consumers \ {c} PROVE ConsInv(d)'
  BY <1>1, FrameOthers DEF IInv, LeavesAlone
<1> QED
  BY <1>1 DEF IInv

\* The properties of the tables and offsets speak of nothing else.
LEMMA FrameTables ==
  ASSUME IInv, UNCHANGED <<log, committed, tables>>
  PROVE  OneNotificationEach' /\ NothingSkipped'
BY DEF IInv, OneNotificationEach, NothingSkipped, tables

\* COMMIT adds an event that was in neither table to both.
LEMMA ApplyTables ==
  ASSUME IInv, NEW c \in Consumers, Abort(c) \/ Apply(c), UNCHANGED <<log, committed>>
  PROVE  /\ OneNotificationEach' /\ NothingSkipped'
         /\ processed \subseteq processed'
         /\ \A e \in processed' : e \in processed \/ e = pending[c]
<1>1. CASE UNCHANGED tables
  BY <1>1, FrameTables DEF tables
<1>2. CASE pending[c] # None /\ Apply(c)
  <2>1. processed' = processed \cup {pending[c]} /\ sent' = Append(sent, pending[c])
    BY <1>2 DEF Apply
  <2>2. sent \in Seq(Events) /\ pending[c] \notin processed /\ pending[c] \in Events
    BY <1>2 DEF IInv, TypeOK, ConsInv, PendingInv
  <2>3. /\ DOMAIN sent' = 1..Len(sent) + 1 /\ DOMAIN sent = 1..Len(sent)
        /\ Len(sent) \in Nat
        /\ \A i \in 1..Len(sent) : sent'[i] = sent[i]
        /\ sent'[Len(sent) + 1] = pending[c]
    BY <2>1, <2>2
  <2>4. processed = {sent[i] : i \in 1..Len(sent)}
    BY <2>3 DEF IInv, OneNotificationEach
  <2>5. \A i \in 1..Len(sent) : sent[i] # pending[c]
    BY <2>2, <2>4
  <2>6. \A i, j \in DOMAIN sent' : sent'[i] = sent'[j] => i = j
    BY <2>3, <2>5 DEF IInv, OneNotificationEach
  <2>7. processed' = {sent'[i] : i \in DOMAIN sent'}
    BY <2>1, <2>3, <2>4
  <2> QED
    BY <2>1, <2>6, <2>7 DEF IInv, OneNotificationEach, NothingSkipped
<1> QED
  BY <1>1, <1>2 DEF Abort, Apply

\* A process that ends, or leaves its partitions, leaves the others alone.
LEMMA GonePreserves ==
  ASSUME IInv, TypeOK', NEW c \in Consumers, Gone(c), UNCHANGED log,
         LeaveGroup(c) \/ UNCHANGED owner,
         \A q \in Partitions : committed'[q] = committed[q] \/ owner[q] = c,
         processed \subseteq processed',
         \A e \in processed' : e \in processed \/ e = pending[c],
         OneNotificationEach', NothingSkipped'
  PROVE  IInv'
<1>1. pc'[c] = "down" /\ part'[c] = None /\ pending'[c] = None
  BY DEF IInv, TypeOK, Gone, Goto
<1>2. ConsInv(c)'
  BY <1>1 DEF ConsInv, HandInv, PendingInv, PositionInv, Busy
<1>3. ASSUME NEW d \in Consumers \ {c} PROVE LeavesAlone(c, d)
  <2>1. pc'[d] = pc[d] /\ part'[d] = part[d] /\ pending'[d] = pending[d] /\ position'[d] = position[d]
    BY DEF IInv, TypeOK, Gone, Goto
  <2>2. \A q \in Partitions : owner'[q] = d => owner[q] = d
    BY ConsumerConstantsOK DEF IInv, TypeOK, LeaveGroup
  <2>3. pending[d] # None => pending[d] \notin processed' /\ pending'[c] # pending[d]
    BY <1>1 DEF IInv, ConsInv, PendingInv
  <2> QED
    BY <2>1, <2>2, <2>3 DEF LeavesAlone
<1> QED
  BY <1>2, <1>3, Combine

-----------------------------------------------------------------------------
(* Every step preserves the invariant *)

\* The coordinator's steps move partitions between consumers.
LEMMA CoordinatorPreserves ==
  ASSUME IInv, TypeOK', NEW c \in Consumers,
         (\E q \in Partitions : Assign(c, q) \/ Revoke(c, q)) \/ SessionTimeout(c) \/ Rejoin(c)
  PROVE  IInv'
<1>1. UNCHANGED <<log, committed, processed, sent, pc, part, pending>>
  BY DEF Assign, Revoke, SessionTimeout, Rejoin, tables, group
<1>2. OneNotificationEach' /\ NothingSkipped'
  BY <1>1, FrameTables DEF tables
<1>3. /\ HandInv(c) /\ PendingInv(c) /\ PositionInv(c) /\ TypeOK
      /\ \A d \in Consumers : pending[d] # None =>
           pending[d] \notin processed /\ \A e \in Consumers \ {d} : pending[e] # pending[d]
  BY DEF IInv, ConsInv, PendingInv
<1>4. PendingInv(c)'
  BY <1>1, <1>3 DEF PendingInv
<1>5. CASE \E q \in Partitions : Assign(c, q)
  <2>1. PICK q \in Partitions : Assign(c, q)
    BY <1>5
  <2>2. /\ pc[c] = "poll" /\ part[c] = None
        /\ owner' = [owner EXCEPT ![q] = c]
        /\ position' = [position EXCEPT ![c][q] = committed[q]]
    BY <1>3, <2>1 DEF Assign, StartFrom, HandInv, Busy
  <2>3. HandInv(c)'
    BY <1>1, <1>3, <2>2 DEF HandInv, Busy
  <2>4. PositionInv(c)'
    BY <1>1, <1>3, <2>2, ConsumerConstantsOK DEF PositionInv, TypeOK
  <2>5. \A d \in Consumers \ {c} : LeavesAlone(c, d)
    BY <1>1, <1>3, <2>2 DEF LeavesAlone, TypeOK
  <2> QED
    BY <1>2, <1>4, <2>3, <2>4, <2>5, Combine DEF ConsInv
<1>6. CASE (\E q \in Partitions : Revoke(c, q)) \/ SessionTimeout(c) \/ Rejoin(c)
  <2>1. /\ position' = position
        /\ \A q \in Partitions : owner'[q] # None => owner'[q] = owner[q]
    BY <1>3, <1>6 DEF Revoke, SessionTimeout, Rejoin, LeaveGroup, group, TypeOK
  <2>2. HandInv(c)'
    BY <1>1, <1>3, <2>1 DEF HandInv, InHand
  <2>3. PositionInv(c)'
    <3>1. \A q \in Partitions : owner'[q] = c => owner[q] = c
      BY <2>1, ConsumerConstantsOK
    <3> QED
      BY <1>1, <1>3, <2>1, <3>1 DEF PositionInv
  <2>4. \A d \in Consumers \ {c} : LeavesAlone(c, d)
    BY <1>1, <1>3, <2>1, ConsumerConstantsOK DEF LeavesAlone
  <2> QED
    BY <1>2, <1>4, <2>2, <2>3, <2>4, Combine DEF ConsInv
<1> QED
  BY <1>5, <1>6

\* A record is fetched: its consumer gets one ahead of the committed offset.
LEMMA PollPreserves ==
  ASSUME IInv, TypeOK', NEW c \in Consumers, NEW q \in Partitions, Poll(c, q)
  PROVE  IInv'
<1>1. TypeOK /\ HandInv(c) /\ PendingInv(c) /\ PositionInv(c)
  BY DEF IInv, ConsInv
<1>2. /\ UNCHANGED <<log, committed, owner, processed, sent, pending>>
      /\ pc[c] = "poll" /\ part[c] = None /\ pending[c] = None
  BY <1>1 DEF Poll, group, tables, HandInv, Busy
<1>3. /\ part'[c] = q
      /\ position'[c] = [position[c] EXCEPT ![q] = @ + 1]
      /\ position'[c][q] = position[c][q] + 1
      /\ pc'[c] = AfterPoll(log[q][position[c][q] + 1])
      /\ position[c][q] \in Nat
  BY <1>1 DEF Poll, TypeOK, Goto
<1>4. InHand(c)' = log[q][position[c][q] + 1]
  BY <1>2, <1>3 DEF InHand
<1>5. HandInv(c)'
  BY <1>2, <1>3, <1>4 DEF HandInv, Busy, AfterPoll, Decodable
<1>6. PositionInv(c)'
  <2> SUFFICES ASSUME NEW p \in Partitions, owner[p] = c
               PROVE  /\ q # p => position'[c][p] = committed[p]
                      /\ q = p => position'[c][p] = committed[p] + 1
    BY <1>2, <1>3 DEF PositionInv
  <2>1. position[c][p] = committed[p]
    BY <1>1, <1>2, ConsumerConstantsOK DEF PositionInv
  <2> QED
    BY <1>1, <1>3, <2>1 DEF TypeOK
<1>7. PendingInv(c)'
  BY <1>2 DEF PendingInv
<1>8. \A d \in Consumers \ {c} : LeavesAlone(c, d)
  BY <1>1, <1>2 DEF LeavesAlone, Poll, Goto, TypeOK, IInv, ConsInv, PendingInv
<1> QED
  BY <1>2, <1>5, <1>6, <1>7, <1>8, FrameTables, Combine DEF ConsInv, tables

\* The steps inside the database transaction.
LEMMA HandlerPreserves ==
  ASSUME IInv, TypeOK', NEW c \in Consumers,
         TryCreateProcessedEvent(c) \/ CreateNotificationDelivery(c) \/ CommitTx(c)
  PROVE  IInv'
<1>1. TypeOK /\ HandInv(c) /\ PendingInv(c) /\ PositionInv(c)
  BY DEF IInv, ConsInv
<1>2. /\ UNCHANGED <<log, committed, owner, part, position>>
      /\ pc[c] \in Busy /\ pc[c] # "down" /\ part[c] \in Partitions
      /\ pc'[c] \in Busy /\ pc'[c] # "down"
      /\ InHand(c)' = InHand(c)
  BY <1>1 DEF TryCreateProcessedEvent, CreateNotificationDelivery, CommitTx, HandInv, Busy,
              Goto, TypeOK, group, InHand
<1>3. InHand(c) # None
  BY <1>1, <1>2, InHandType DEF HandInv
<1>4. PositionInv(c)'
  BY <1>1, <1>2 DEF PositionInv
<1>5. \A d \in Consumers \ {c} : /\ pc'[d] = pc[d] /\ pending'[d] = pending[d]
                                 /\ pending[d] # None => pending[d] \notin processed
                                 /\ pending[d] # None => pending[d] # pending[c]
  BY <1>1 DEF TryCreateProcessedEvent, CreateNotificationDelivery, CommitTx, Goto, TypeOK,
              IInv, ConsInv, PendingInv
<1>6. CASE TryCreateProcessedEvent(c)
  <2>1. UNCHANGED <<processed, sent>> /\ pc[c] = "insert" /\ pending[c] = None
    BY <1>1, <1>6 DEF TryCreateProcessedEvent, tables, HandInv
  <2>2. \A d \in Consumers \ {c} : pending[d] # InHand(c)
    BY <1>6 DEF TryCreateProcessedEvent, MayInsert
  <2>3. \/ /\ InHand(c) \in processed /\ pc'[c] = "dbcommit" /\ pending'[c] = None
        \/ /\ InHand(c) \notin processed /\ pc'[c] = "deliver" /\ pending'[c] = InHand(c)
    BY <1>1, <1>6, <2>1 DEF TryCreateProcessedEvent, Goto, TypeOK
  <2>4. HandInv(c)'
    BY <1>1, <1>2, <2>1, <2>3 DEF HandInv, Busy
  <2>5. PendingInv(c)'
    BY <1>5, <2>1, <2>2, <2>3 DEF PendingInv
  <2>6. \A d \in Consumers \ {c} : LeavesAlone(c, d)
    BY <1>2, <1>5, <2>1, <2>2, <2>3 DEF LeavesAlone
  <2> QED
    BY <1>2, <1>4, <2>1, <2>4, <2>5, <2>6, FrameTables, Combine DEF ConsInv, tables
<1>7. CASE CreateNotificationDelivery(c)
  <2>1. /\ UNCHANGED <<processed, sent, pending>> /\ pc[c] = "deliver" /\ pc'[c] = "dbcommit"
    BY <1>1, <1>7 DEF CreateNotificationDelivery, tables, Goto, TypeOK
  <2>2. HandInv(c)'
    BY <1>1, <1>2, <2>1 DEF HandInv, Busy
  <2>3. PendingInv(c)'
    BY <1>1, <2>1 DEF PendingInv
  <2>4. \A d \in Consumers \ {c} : LeavesAlone(c, d)
    BY <1>2, <1>5, <2>1 DEF LeavesAlone
  <2> QED
    BY <1>2, <1>4, <2>1, <2>2, <2>3, <2>4, FrameTables, Combine DEF ConsInv, tables
<1>8. CASE CommitTx(c)
  <2>1. Apply(c) /\ pc[c] = "dbcommit" /\ pc'[c] = "commit" /\ pending'[c] = None
    BY <1>1, <1>8 DEF CommitTx, Goto, TypeOK
  <2>2. /\ OneNotificationEach' /\ NothingSkipped'
        /\ processed \subseteq processed'
        /\ \A e \in processed' : e \in processed \/ e = pending[c]
    BY <1>2, <2>1, ApplyTables
  <2>3. InHand(c) \in processed'
    BY <1>1, <1>3, <2>1 DEF HandInv, Apply, tables
  <2>4. HandInv(c)'
    BY <1>1, <1>2, <2>1, <2>3 DEF HandInv, Busy
  <2>5. PendingInv(c)'
    BY <2>1 DEF PendingInv
  <2>6. \A d \in Consumers \ {c} : LeavesAlone(c, d)
    BY <1>2, <1>5, <2>1, <2>2 DEF LeavesAlone
  <2> QED
    BY <1>4, <2>2, <2>4, <2>5, <2>6, Combine DEF ConsInv
<1> QED
  BY <1>6, <1>7, <1>8

\* The event below a committed offset has been dealt with: the owner's position
\* is one past the offset committed before.
LEMMA OffsetMoves ==
  ASSUME IInv, NEW c \in Consumers, pc[c] = "commit", ~Fenced(c), CommitOffset(c),
         UNCHANGED <<log, tables>>
  PROVE  /\ OneNotificationEach' /\ NothingSkipped'
         /\ \A q \in Partitions : committed'[q] >= committed[q]
         /\ \A q \in Partitions : committed'[q] = committed[q] \/ owner[q] = c
         /\ committed'[part[c]] = position[c][part[c]]
<1>1. TypeOK /\ HandInv(c) /\ PositionInv(c) /\ NothingSkipped /\ OneNotificationEach
  BY DEF IInv, ConsInv
<1>2. part[c] \in Partitions /\ owner[part[c]] = c /\ InHand(c) \in processed \cup Poison
  BY <1>1 DEF HandInv, Busy, Fenced
<1>3. /\ position[c][part[c]] = committed[part[c]] + 1
      /\ committed[part[c]] \in Nat
  BY <1>1, <1>2 DEF PositionInv, TypeOK
<1>4. /\ committed'[part[c]] = committed[part[c]] + 1
      /\ \A q \in Partitions : q # part[c] => committed'[q] = committed[q]
  BY <1>1, <1>2, <1>3 DEF CommitOffset, TypeOK
<1>5. log[part[c]][committed[part[c]] + 1] \in processed \cup Poison
  BY <1>2, <1>3 DEF InHand
<1>6. NothingSkipped'
  <2> SUFFICES ASSUME NEW q \in Partitions, NEW i \in 1..committed'[q]
               PROVE  log[q][i] \in processed \cup Poison
    BY DEF NothingSkipped, tables
  <2>1. CASE q # part[c]
    BY <1>1, <1>4, <2>1 DEF NothingSkipped
  <2>2. CASE q = part[c] /\ i = committed[q] + 1
    BY <1>5, <2>2
  <2>3. CASE q = part[c] /\ i # committed[q] + 1
    BY <1>1, <1>3, <1>4, <2>3 DEF NothingSkipped
  <2> QED
    BY <2>1, <2>2, <2>3
<1>7. OneNotificationEach'
  BY <1>1 DEF OneNotificationEach, tables
<1>8. \A q \in Partitions : committed[q] \in Nat
  BY <1>1 DEF TypeOK
<1> QED
  BY <1>2, <1>3, <1>4, <1>6, <1>7, <1>8

\* The offset commit.
LEMMA CommitMessagePreserves ==
  ASSUME IInv, TypeOK', NEW c \in Consumers, CommitMessage(c)
  PROVE  IInv'
<1>1. TypeOK /\ HandInv(c) /\ PendingInv(c) /\ PositionInv(c)
  BY DEF IInv, ConsInv
<1>2. /\ UNCHANGED <<log, owner, processed, sent, position, pending>>
      /\ pc[c] = "commit" /\ ~Fenced(c) /\ CommitOffset(c)
      /\ pc'[c] = "poll" /\ part'[c] = None /\ pending[c] = None
      /\ \A d \in Consumers \ {c} : pc'[d] = pc[d] /\ part'[d] = part[d]
  BY <1>1 DEF CommitMessage, tables, Goto, TypeOK, HandInv
<1>3. /\ OneNotificationEach' /\ NothingSkipped'
      /\ \A q \in Partitions : committed'[q] = committed[q] \/ owner[q] = c
      /\ committed'[part[c]] = position[c][part[c]]
  BY <1>2, OffsetMoves DEF tables
<1>4. HandInv(c)' /\ PendingInv(c)'
  BY <1>2 DEF HandInv, PendingInv, Busy
<1>5. \A q \in Partitions : q # part[c] => committed'[q] = committed[q]
  BY <1>1, <1>2 DEF CommitOffset, TypeOK
<1>6. PositionInv(c)'
  BY <1>1, <1>2, <1>3, <1>5, ConsumerConstantsOK DEF PositionInv
<1>7. \A d \in Consumers \ {c} : LeavesAlone(c, d)
  BY <1>2, <1>3 DEF LeavesAlone, IInv, ConsInv, PendingInv
<1> QED
  BY <1>3, <1>4, <1>6, <1>7, Combine DEF ConsInv

\* The ways a process ends.
LEMMA EndPreserves ==
  ASSUME IInv, TypeOK', NEW c \in Consumers,
         CommitMessageFails(c) \/ HandlerFails(c) \/ Stop(c) \/ Crash(c)
  PROVE  IInv'
<1>1. Gone(c) /\ (LeaveGroup(c) \/ UNCHANGED owner)
  BY DEF CommitMessageFails, HandlerFails, Stop, Crash, Exit, group
<1>2. CASE HandlerFails(c) \/ Crash(c)
  <2>1. Abort(c) /\ UNCHANGED <<log, committed>>
    BY <1>2 DEF HandlerFails, Crash, group
  <2> QED
    BY <1>1, <2>1, ApplyTables, GonePreserves
<1>3. CASE UNCHANGED <<log, committed, tables>>
  BY <1>1, <1>3, FrameTables, GonePreserves DEF tables
<1>4. CASE CommitMessageFails(c) /\ ~Fenced(c) /\ CommitOffset(c)
  <2>1. pc[c] = "commit" /\ UNCHANGED <<log, tables>>
    BY <1>4 DEF CommitMessageFails
  <2> QED
    BY <1>1, <1>4, <2>1, OffsetMoves, GonePreserves DEF tables
<1> QED
  BY <1>2, <1>3, <1>4 DEF CommitMessageFails, Stop

\* A restarted consumer owns nothing yet.
LEMMA RestartPreserves ==
  ASSUME IInv, TypeOK', NEW c \in Consumers, Restart(c)
  PROVE  IInv'
<1>1. TypeOK /\ HandInv(c) /\ PendingInv(c)
  BY DEF IInv, ConsInv
<1>2. /\ UNCHANGED <<log, committed, owner, processed, sent, position, part, pending>>
      /\ pc[c] = "down" /\ pc'[c] = "poll" /\ \A q \in Partitions : owner[q] # c
      /\ \A d \in Consumers \ {c} : pc'[d] = pc[d]
  BY <1>1 DEF Restart, tables, group, Goto, Owned, TypeOK
<1>3. HandInv(c)' /\ PendingInv(c)' /\ PositionInv(c)'
  BY <1>1, <1>2 DEF HandInv, PendingInv, PositionInv, Busy
<1>4. \A d \in Consumers \ {c} : LeavesAlone(c, d)
  BY <1>2 DEF LeavesAlone, IInv, ConsInv, PendingInv
<1> QED
  BY <1>2, <1>3, <1>4, FrameTables, Combine DEF ConsInv, tables

\* A record more, beyond everybody's position.
LEMMA GrowPreserves ==
  ASSUME IInv, NEW q \in Partitions, NEW e \in Events, Grow(q, e)
  PROVE  IInv'
<1>1. /\ UNCHANGED <<committed, owner, processed, sent, pc, position, part, pending>>
      /\ TypeOK /\ TypeOK'
  BY GrowType DEF Grow, tables, IInv
<1>2. ASSUME NEW c \in Consumers PROVE ConsInv(c)'
  <2>1. pc[c] \in Busy => InHand(c)' = InHand(c)
    <3> SUFFICES ASSUME pc[c] \in Busy PROVE InHand(c)' = InHand(c)
      OBVIOUS
    <3>1. part[c] \in Partitions /\ position[c][part[c]] \in 1..Len(log[part[c]])
      BY <1>1 DEF IInv, ConsInv, HandInv, TypeOK
    <3> QED
      BY <1>1, <3>1, GrowLog DEF InHand
  <2>2. HandInv(c)'
    BY <1>1, <2>1 DEF IInv, ConsInv, HandInv, Busy
  <2> QED
    BY <1>1, <2>2 DEF IInv, ConsInv, PendingInv, PositionInv
<1>3. OneNotificationEach'
  BY <1>1 DEF IInv, OneNotificationEach
<1>4. NothingSkipped'
  <2> SUFFICES ASSUME NEW p \in Partitions, NEW i \in 1..committed[p]
               PROVE  log'[p][i] \in processed \cup Poison
    BY <1>1 DEF NothingSkipped
  <2>1. i \in 1..Len(log[p])
    BY <1>1, GrowLog DEF TypeOK
  <2> QED
    BY <1>1, <2>1, GrowLog DEF IInv, NothingSkipped
<1> QED
  BY <1>1, <1>2, <1>3, <1>4 DEF IInv

\* A step in which the consumers do nothing.
LEMMA RestPreserves ==
  ASSUME IInv, Rest
  PROVE  IInv'
<1>1. UNCHANGED <<log, committed, owner, processed, sent, pc, position, part, pending>>
  BY DEF Rest
<1>2. ASSUME NEW c \in Consumers PROVE ConsInv(c)'
  BY <1>1 DEF IInv, ConsInv, HandInv, PendingInv, PositionInv, InHand
<1>3. TypeOK'
  BY DEF Rest, IInv, TypeOK
<1> QED
  BY <1>1, <1>2, <1>3, FrameTables DEF IInv, tables

\* One step, whichever it is.
LEMMA NextPreserves ==
  ASSUME IInv, [Next]_vars
  PROVE  IInv'
<1>1. TypeOK'
  BY TypeStep DEF IInv, ConsInv
<1>2. ASSUME NEW c \in Consumers, Work(c) PROVE IInv'
  BY <1>1, <1>2, PollPreserves, CoordinatorPreserves, HandlerPreserves,
     CommitMessagePreserves, EndPreserves, RestartPreserves DEF Work
<1>3. ASSUME NEW c \in Consumers, Fail(c) \/ SessionTimeout(c) PROVE IInv'
  BY <1>1, <1>3, CoordinatorPreserves, EndPreserves DEF Fail
<1>4. ASSUME NEW c \in Consumers, NEW q \in Partitions, Assign(c, q) PROVE IInv'
  BY <1>1, <1>4, CoordinatorPreserves
<1>5. CASE UNCHANGED vars
  <2>1. Rest
    BY <1>5 DEF vars, Rest, IInv, TypeOK
  <2> QED
    BY <2>1, RestPreserves
<1>6. ASSUME NEW q \in Partitions, Arrive(q) PROVE IInv'
  BY <1>6, ArriveGrows, GrowPreserves DEF IInv
<1> QED
  BY <1>2, <1>3, <1>4, <1>5, <1>6 DEF Next, Consume, Drained

LEMMA InitInvariant ==
  ASSUME Init
  PROVE  IInv
<1>1. TypeOK
  BY ConsumerConstantsOK DEF Init, TypeOK, ConsumerSteps
<1>2. ASSUME NEW c \in Consumers PROVE ConsInv(c)
  BY ConsumerConstantsOK
  DEF Init, ConsInv, HandInv, PendingInv, PositionInv, Busy
<1>3. OneNotificationEach /\ NothingSkipped
  BY DEF Init, OneNotificationEach, NothingSkipped
<1> QED
  BY <1>1, <1>2, <1>3 DEF IInv

-----------------------------------------------------------------------------
(* Theorems *)

\* What a consumer may rely on at each of its steps (the record in hand, the
\* uncommitted insert, its place in the partitions it owns) always holds.
THEOREM Invariance == Spec => []IInv
<1>1. Init => IInv
  BY InitInvariant
<1>2. IInv /\ [Next]_vars => IInv'
  BY NextPreserves
<1> QED
  BY <1>1, <1>2, PTL DEF Spec

\* Every variable keeps its type, and no offset leaves its partition.
THEOREM TypeCorrect == Spec => []TypeOK
<1>1. IInv => TypeOK
  BY DEF IInv
<1> QED
  BY <1>1, Invariance, PTL

\* TryCreateProcessedEvent and its transaction notify an event once, however
\* often it is delivered and whoever handles it.
THEOREM NotifiedOnce == Spec => []OneNotificationEach
<1>1. IInv => OneNotificationEach
  BY DEF IInv
<1> QED
  BY <1>1, Invariance, PTL

\* CommitMessage after the handler never passes over an event.
THEOREM NoneSkipped == Spec => []NothingSkipped
<1>1. IInv => NothingSkipped
  BY DEF IInv
<1> QED
  BY <1>1, Invariance, PTL

\* No consumer, however late, moves a committed offset back.
THEOREM OffsetsAdvance == Spec => OffsetsOnlyAdvance
<1>1. IInv /\ [Next]_vars => [\A q \in Partitions : committed'[q] >= committed[q]]_vars
  <2> SUFFICES ASSUME IInv, [Next]_vars
               PROVE  \A q \in Partitions : committed'[q] >= committed[q]
    OBVIOUS
  <2>1. \A q \in Partitions : committed[q] \in Nat
    BY DEF IInv, TypeOK
  <2>2. CASE UNCHANGED committed
    BY <2>1, <2>2
  <2>3. ASSUME NEW c \in Consumers,
               pc[c] = "commit", ~Fenced(c), CommitOffset(c), UNCHANGED <<log, tables>>
        PROVE  \A q \in Partitions : committed'[q] >= committed[q]
    BY <2>3, OffsetMoves
  <2>4. ASSUME NEW c \in Consumers, Work(c)
        PROVE  \A q \in Partitions : committed'[q] >= committed[q]
    <3>1. CASE CommitMessage(c)
      BY <2>3, <3>1 DEF CommitMessage
    <3>2. CASE CommitMessageFails(c)
      BY <2>2, <2>3, <3>2 DEF CommitMessageFails
    <3> QED
      BY <2>2, <2>4, <3>1, <3>2
      DEF Work, Poll, Rejoin, TryCreateProcessedEvent, CreateNotificationDelivery, CommitTx,
          Restart, group
  <2>5. ASSUME NEW c \in Consumers, NEW q \in Partitions, Assign(c, q)
        PROVE  UNCHANGED committed
    BY <2>5 DEF Assign
  <2>6. ASSUME NEW c \in Consumers, Fail(c) \/ SessionTimeout(c)
        PROVE  UNCHANGED committed
    BY <2>6 DEF Fail, HandlerFails, Stop, Crash, Revoke, SessionTimeout, group
  <2>7. ASSUME NEW q \in Partitions, Arrive(q) PROVE UNCHANGED committed
    BY <2>7 DEF Arrive
  <2> QED
    BY <2>2, <2>4, <2>5, <2>6, <2>7 DEF Next, Consume, Drained, vars
<1> QED
  BY <1>1, Invariance, PTL DEF Spec, OffsetsOnlyAdvance

-----------------------------------------------------------------------------
(* The order of the notifications *)

\* Events that have been notified, or cannot be.
Dealt == processed \cup Poison

\* The records of a partition are of its own events.
HomeInv ==
  \A q \in Partitions : \A i \in 1..Len(log[q]) : Home[log[q][i]] = q

\* A consumer, expelled or not, has dealt with everything before its position in
\* the partitions it takes for its own, except for the record in hand.
ReadInv(c) ==
  /\ pc[c] \in Busy => part[c] \in assigned[c]
  /\ pc[c] \in {"insert", "deliver", "dbcommit"} => InHand(c) \notin Poison
  /\ \A q \in assigned[c] : \A i \in 1..position[c][q] :
       log[q][i] \in Dealt \/ (part[c] = q /\ i = position[c][q])

\* A notified event has a first record, and what came before it is dealt with.
FoundInv ==
  \A e \in processed : \E i \in 1..Len(log[Home[e]]) :
    /\ log[Home[e]][i] = e
    /\ \A j \in 1..i - 1 : log[Home[e]][j] \in Dealt /\ log[Home[e]][j] # e

\* Every record of an event has before it one of each event of the partition that
\* was notified earlier.
SentInv ==
  \A i, j \in 1..Len(sent) : i < j /\ Home[sent[i]] = Home[sent[j]] =>
    \A k \in 1..Len(log[Home[sent[j]]]) : log[Home[sent[j]]][k] = sent[j] =>
      \E m \in 1..k - 1 : log[Home[sent[j]]][m] = sent[i]

OrderInv ==
  /\ HomeInv
  /\ \A c \in Consumers : ReadInv(c)
  /\ FoundInv
  /\ SentInv

\* What a step of a consumer does to the tables.
TablesStep(c) == UNCHANGED tables \/ (pc[c] = "dbcommit" /\ Apply(c))

\* The event that c commits is the first undealt one of its partition: nobody
\* has notified a later one.
LEMMA ApplyOrder ==
  ASSUME IInv, OrderInv, NEW c \in Consumers, UNCHANGED log, TablesStep(c)
  PROVE  HomeInv' /\ FoundInv' /\ SentInv' /\ processed \subseteq processed'
<1>1. HomeInv'
  BY DEF OrderInv, HomeInv
<1>2. CASE UNCHANGED tables
  <2>1. processed' = processed /\ sent' = sent
    BY <1>2 DEF tables
  <2>2. FoundInv' /\ SentInv'
    BY <2>1 DEF OrderInv, FoundInv, SentInv, Dealt
  <2> QED
    BY <1>1, <2>1, <2>2
<1>3. CASE pc[c] = "dbcommit" /\ Apply(c) /\ pending[c] # None
  <2>1. PICK q \in Partitions, n \in Nat \ {0} : q = part[c] /\ n = position[c][q]
    BY <1>3 DEF IInv, ConsInv, HandInv, Busy, TypeOK
  <2>2. n \in 1..Len(log[q]) /\ Len(log[q]) \in Nat /\ log[q] \in Seq(Events)
    BY <2>1 DEF IInv, TypeOK
  <2>3. PICK x \in Events : x = pending[c] /\ x = log[q][n] /\ x \notin Dealt
    <3>1. pending[c] = InHand(c) /\ pending[c] \notin processed
      BY <1>3 DEF IInv, ConsInv, HandInv, PendingInv
    <3>2. InHand(c) \notin Poison
      BY <1>3 DEF OrderInv, ReadInv
    <3> QED
      BY <2>1, <2>2, <3>1, <3>2 DEF InHand, Dealt
  <2>4. Home[x] = q
    BY <2>2, <2>3 DEF OrderInv, HomeInv
  <2>5. \A i \in 1..n - 1 : log[q][i] \in Dealt /\ log[q][i] # x
    <3>1. q \in assigned[c]
      BY <1>3, <2>1 DEF OrderInv, ReadInv, Busy
    <3> QED
      BY <2>1, <2>3, <3>1 DEF OrderInv, ReadInv
  <2>6. processed' = processed \cup {x} /\ sent' = Append(sent, x)
    BY <1>3, <2>3 DEF Apply
  <2>7. /\ sent \in Seq(Events) /\ Len(sent) \in Nat /\ Len(sent') = Len(sent) + 1
        /\ \A i \in 1..Len(sent) : sent'[i] = sent[i] /\ sent[i] \in processed
        /\ sent'[Len(sent) + 1] = x
    BY <2>6 DEF IInv, TypeOK, OneNotificationEach
  <2>8. FoundInv'
    <3> SUFFICES ASSUME NEW e \in processed'
                 PROVE  \E i \in 1..Len(log[Home[e]]) :
                          /\ log[Home[e]][i] = e
                          /\ \A j \in 1..i - 1 : log[Home[e]][j] \in Dealt' /\ log[Home[e]][j] # e
      BY DEF FoundInv
    <3>1. Dealt \subseteq Dealt'
      BY <2>6 DEF Dealt
    <3>2. CASE e = x
      BY <2>2, <2>3, <2>4, <2>5, <3>1, <3>2
    <3>3. CASE e \in processed
      BY <3>1, <3>3 DEF OrderInv, FoundInv
    <3> QED
      BY <2>6, <3>2, <3>3
  <2>9. ASSUME NEW y \in processed, Home[y] = q, NEW k \in 1..Len(log[q]), log[q][k] = x
        PROVE  \E m \in 1..k - 1 : log[q][m] = y
    <3>1. PICK i \in 1..Len(log[q]) :
            log[q][i] = y /\ \A j \in 1..i - 1 : log[q][j] \in Dealt
      BY <2>9 DEF OrderInv, FoundInv
    <3>2. i < n
      <4>1. n \notin 1..i - 1
        BY <2>3, <3>1
      <4>2. i # n
        BY <2>3, <2>9, <3>1 DEF Dealt
      <4> QED
        BY <2>2, <4>1, <4>2
    <3>3. k >= n
      BY <2>2, <2>5, <2>9
    <3> QED
      BY <2>2, <3>1, <3>2, <3>3
  <2>10. SentInv'
    <3> SUFFICES ASSUME NEW i \in 1..Len(sent'), NEW j \in 1..Len(sent'), i < j,
                        Home[sent'[i]] = Home[sent'[j]],
                        NEW k \in 1..Len(log[Home[sent'[j]]]), log[Home[sent'[j]]][k] = sent'[j]
                 PROVE  \E m \in 1..k - 1 : log[Home[sent'[j]]][m] = sent'[i]
      BY DEF SentInv
    <3>1. CASE j \in 1..Len(sent)
      <4>1. i \in 1..Len(sent) /\ sent'[i] = sent[i] /\ sent'[j] = sent[j]
        BY <2>7, <3>1
      <4>2. SentInv
        BY DEF OrderInv
      <4>3. PICK u \in Events, v \in Events : u = sent[i] /\ v = sent[j]
        BY <3>1, <4>1 DEF IInv, TypeOK
      <4>4. Home[u] = Home[v] /\ log[Home[v]][k] = v /\ k \in 1..Len(log[Home[v]])
        BY <4>1, <4>3
      <4>5. \E m \in 1..k - 1 : log[Home[v]][m] = u
        BY <3>1, <4>1, <4>2, <4>3, <4>4 DEF SentInv
      <4> QED
        BY <4>1, <4>3, <4>5
    <3>2. CASE j = Len(sent) + 1
      <4>1. i \in 1..Len(sent)
        BY <2>7, <3>2
      <4>2. sent'[j] = x /\ sent'[i] \in processed /\ Home[sent'[i]] = q
        BY <2>4, <2>7, <3>2, <4>1
      <4> QED
        BY <2>4, <2>9, <4>2
    <3> QED
      BY <2>7, <3>1, <3>2
  <2> QED
    BY <1>1, <2>6, <2>8, <2>10
<1> QED
  BY <1>2, <1>3 DEF TablesStep, Apply

\* A consumer is not disturbed by what others deal with.
LEMMA ReadFrame ==
  ASSUME NEW d \in Consumers, ReadInv(d), UNCHANGED log, processed \subseteq processed',
         pc'[d] = pc[d], part'[d] = part[d], position'[d] = position[d],
         assigned'[d] = assigned[d]
  PROVE  ReadInv(d)'
<1>1. InHand(d)' = InHand(d) /\ Dealt \subseteq Dealt'
  BY DEF InHand, Dealt
<1> QED
  BY <1>1 DEF ReadInv

\* It is enough to look at the consumer that moves.
LEMMA OrderCombine ==
  ASSUME IInv, OrderInv, NEW c \in Consumers, UNCHANGED log, TablesStep(c),
         \A d \in Consumers \ {c} :
           /\ pc'[d] = pc[d] /\ part'[d] = part[d] /\ position'[d] = position[d]
           /\ assigned'[d] = assigned[d],
         processed \subseteq processed' => ReadInv(c)'
  PROVE  OrderInv'
<1>1. HomeInv' /\ FoundInv' /\ SentInv' /\ processed \subseteq processed'
  BY ApplyOrder
<1>2. ASSUME NEW d \in Consumers \ {c} PROVE ReadInv(d)'
  BY <1>1, ReadFrame DEF OrderInv
<1> QED
  BY <1>1, <1>2 DEF OrderInv

\* A step of a consumer or of the coordinator keeps the order.
LEMMA ConsumeKeepsOrder ==
  ASSUME IInv, OrderInv, Consume
  PROVE  OrderInv'
<1>1. TypeOK /\ \A d \in Consumers : HandInv(d) /\ PositionInv(d) /\ ReadInv(d)
  BY DEF IInv, ConsInv, OrderInv
<1>2. \A q \in Partitions : \A i \in 1..committed[q] : log[q][i] \in Dealt
  BY DEF IInv, NothingSkipped, Dealt
<1>3. ASSUME NEW c \in Consumers, NEW q \in Partitions, Poll(c, q) PROVE OrderInv'
  <2>1. /\ UNCHANGED log /\ TablesStep(c) /\ processed' = processed /\ assigned' = assigned
        /\ pc[c] = "poll" /\ part[c] = None
        /\ q \in assigned[c] /\ position[c][q] < Len(log[q])
        /\ position' = [position EXCEPT ![c][q] = @ + 1] /\ part' = [part EXCEPT ![c] = q]
        /\ pc' = [pc EXCEPT ![c] = AfterPoll(log[q][position[c][q] + 1])]
    BY <1>1, <1>3 DEF Poll, group, tables, TablesStep, Goto, HandInv, Busy
  <2>2. /\ position[c][q] \in Nat /\ position'[c][q] = position[c][q] + 1
        /\ \A p \in Partitions \ {q} : position'[c][p] = position[c][p]
        /\ part'[c] = q /\ pc'[c] = AfterPoll(log[q][position[c][q] + 1])
        /\ \A d \in Consumers \ {c} :
             pc'[d] = pc[d] /\ part'[d] = part[d] /\ position'[d] = position[d]
    BY <1>1, <2>1 DEF TypeOK
  <2>3. InHand(c)' = log[q][position[c][q] + 1]
    BY <2>1, <2>2 DEF InHand
  <2>4. pc'[c] \in {"insert", "deliver", "dbcommit"} => InHand(c)' \notin Poison
    BY <2>2, <2>3 DEF AfterPoll, Decodable
  <2>5. assigned[c] \subseteq Partitions
    BY <1>1 DEF TypeOK
  <2>6. ASSUME NEW p \in assigned[c], NEW i \in 1..position'[c][p]
        PROVE  log[p][i] \in Dealt \/ (q = p /\ i = position'[c][p])
    <3>1. p \in Partitions /\ p # part[c] /\ position[c][p] \in Nat
      BY <1>1, <2>1, <2>5, ConsumerConstantsOK DEF TypeOK
    <3>2. \A h \in 1..position[c][p] : log[p][h] \in Dealt
      BY <1>1, <3>1 DEF ReadInv
    <3> QED
      BY <2>2, <3>1, <3>2
  <2>7. ReadInv(c)'
    BY <2>1, <2>2, <2>4, <2>6 DEF ReadInv, Dealt
  <2> QED
    BY <2>1, <2>2, <2>7, OrderCombine
<1>4. ASSUME NEW c \in Consumers, TryCreateProcessedEvent(c) \/ CreateNotificationDelivery(c) \/ CommitTx(c)
      PROVE  OrderInv'
  <2>1. /\ UNCHANGED log /\ TablesStep(c) /\ pc[c] \in {"insert", "deliver", "dbcommit"}
        /\ assigned' = assigned /\ position' = position /\ part' = part
        /\ pc'[c] \in Busy
        /\ \A d \in Consumers \ {c} : pc'[d] = pc[d]
    BY <1>1, <1>4 DEF TryCreateProcessedEvent, CreateNotificationDelivery, CommitTx, group, tables,
       TablesStep, Goto, TypeOK, Busy
  <2>2. processed \subseteq processed' => ReadInv(c)'
    <3>1. InHand(c)' = InHand(c)
      BY <2>1 DEF InHand
    <3>2. processed \subseteq processed' => Dealt \subseteq Dealt'
      BY DEF Dealt
    <3> QED
      BY <1>1, <2>1, <3>1, <3>2 DEF ReadInv, Busy
  <2> QED
    BY <2>1, <2>2, OrderCombine
<1>5. ASSUME NEW c \in Consumers, CommitMessage(c) PROVE OrderInv'
  <2>1. /\ UNCHANGED log /\ TablesStep(c) /\ processed' = processed /\ pc[c] = "commit"
        /\ assigned' = assigned /\ position' = position
        /\ pc'[c] = "poll" /\ part'[c] = None
        /\ \A d \in Consumers \ {c} : pc'[d] = pc[d] /\ part'[d] = part[d]
    BY <1>1, <1>5 DEF CommitMessage, tables, TablesStep, Goto, TypeOK
  <2>2. log[part[c]][position[c][part[c]]] \in Dealt
    BY <1>1, <2>1 DEF HandInv, Busy, Dealt, InHand
  <2>3. ReadInv(c)'
    BY <1>1, <2>1, <2>2 DEF ReadInv, Busy, Dealt
  <2> QED
    BY <2>1, <2>3, OrderCombine
<1>6. ASSUME NEW c \in Consumers, CommitMessageFails(c) \/ HandlerFails(c) \/ Stop(c) \/ Crash(c)
      PROVE  OrderInv'
  <2>1. UNCHANGED log /\ TablesStep(c) /\ Gone(c)
    BY <1>6 DEF CommitMessageFails, HandlerFails, Stop, Crash, Exit, group, TablesStep, Abort
  <2>2. /\ pc'[c] = "down" /\ assigned'[c] = {} /\ position' = position
        /\ \A d \in Consumers \ {c} :
             pc'[d] = pc[d] /\ part'[d] = part[d] /\ assigned'[d] = assigned[d]
    BY <1>1, <2>1 DEF Gone, Goto, TypeOK
  <2>3. ReadInv(c)'
    BY <2>2 DEF ReadInv, Busy
  <2> QED
    BY <2>1, <2>2, <2>3, OrderCombine
<1>7. ASSUME NEW c \in Consumers, NEW q \in Partitions, Assign(c, q) PROVE OrderInv'
  <2>1. /\ UNCHANGED log /\ TablesStep(c) /\ processed' = processed /\ pc' = pc /\ part' = part
        /\ pc[c] = "poll"
        /\ assigned'[c] = assigned[c] \cup {q} /\ position'[c][q] = committed[q]
        /\ \A p \in Partitions \ {q} : position'[c][p] = position[c][p]
        /\ \A d \in Consumers \ {c} : assigned'[d] = assigned[d] /\ position'[d] = position[d]
    BY <1>1, <1>7 DEF Assign, tables, TablesStep, TypeOK, StartFrom
  <2>2. assigned[c] \subseteq Partitions
    BY <1>1 DEF TypeOK
  <2>3. ReadInv(c)'
    BY <1>1, <1>2, <2>1, <2>2 DEF ReadInv, Busy, Dealt
  <2> QED
    BY <2>1, <2>3, OrderCombine
<1>8. ASSUME NEW c \in Consumers,
             Rejoin(c) \/ SessionTimeout(c) \/ Restart(c) \/ \E q \in Partitions : Revoke(c, q)
      PROVE  OrderInv'
  <2>1. /\ UNCHANGED log /\ TablesStep(c) /\ processed' = processed
        /\ part' = part /\ position' = position
        /\ \A d \in Consumers \ {c} : pc'[d] = pc[d] /\ assigned'[d] = assigned[d]
    BY <1>1, <1>8 DEF Rejoin, SessionTimeout, Restart, Revoke, group, tables, TablesStep, Goto, TypeOK
  <2>2. CASE SessionTimeout(c)
    <3>1. ReadInv(c)'
      BY <1>1, <2>1, <2>2, ReadFrame DEF SessionTimeout
    <3> QED
      BY <2>1, <3>1, OrderCombine
  <2>3. CASE Restart(c) \/ \E q \in Partitions : Revoke(c, q)
    <3>1. pc'[c] = "poll" /\ assigned'[c] \subseteq assigned[c]
      BY <1>1, <2>3 DEF Restart, Revoke, Goto, TypeOK
    <3>2. ReadInv(c)'
      BY <1>1, <2>1, <3>1 DEF ReadInv, Busy, Dealt
    <3> QED
      BY <2>1, <3>2, OrderCombine
  <2>4. CASE Rejoin(c)
    <3>1. pc'[c] = "poll" /\ pc[c] = "poll" /\ part[c] = None /\ assigned'[c] = Owned(c)
      BY <1>1, <2>4 DEF Rejoin, TypeOK, HandInv, Busy
    <3>2. \A q \in Owned(c) : q \in Partitions /\ position[c][q] = committed[q]
      BY <1>1, <3>1, ConsumerConstantsOK DEF PositionInv, Owned
    <3>3. ReadInv(c)'
      BY <1>2, <2>1, <3>1, <3>2 DEF ReadInv, Busy, Dealt
    <3> QED
      BY <2>1, <3>3, OrderCombine
  <2> QED
    BY <1>8, <2>2, <2>3, <2>4
<1> QED
  BY <1>3, <1>4, <1>5, <1>6, <1>7, <1>8 DEF Consume, Work, Fail

\* A record more of one of the partition's own events, behind all others.
LEMMA GrowKeepsOrder ==
  ASSUME IInv, OrderInv, NEW q \in Partitions, NEW e \in Events, Home[e] = q, Grow(q, e)
  PROVE  OrderInv'
<1>1. /\ TypeOK /\ UNCHANGED <<processed, sent, pc, assigned, position, part>>
      /\ \A p \in Partitions : Len(log[p]) \in Nat /\ log[p] \in Seq(Events)
  BY DEF IInv, Grow, tables, TypeOK
<1>2. \A p \in Partitions :
        /\ Len(log'[p]) >= Len(log[p]) /\ Len(log'[p]) \in Nat
        /\ \A i \in 1..Len(log[p]) : log'[p][i] = log[p][i]
  BY <1>1, GrowLog
<1>3. /\ Len(log'[q]) = Len(log[q]) + 1 /\ log'[q][Len(log[q]) + 1] = e
      /\ \A p \in Partitions \ {q} : log'[p] = log[p]
  BY <1>1 DEF Grow, TypeOK
<1>4. HomeInv'
  BY <1>1, <1>2, <1>3 DEF OrderInv, HomeInv
<1>5. ASSUME NEW c \in Consumers PROVE ReadInv(c)'
  <2>1. ReadInv(c) /\ HandInv(c)
    BY DEF OrderInv, IInv, ConsInv
  <2>2. \A p \in Partitions : position[c][p] \in Nat /\ position[c][p] <= Len(log[p])
    BY <1>1 DEF TypeOK
  <2>3. assigned[c] \subseteq Partitions
    BY <1>1 DEF TypeOK
  <2>4. pc[c] \in Busy => InHand(c)' = InHand(c)
    <3> SUFFICES ASSUME pc[c] \in Busy PROVE InHand(c)' = InHand(c)
      OBVIOUS
    <3>1. part[c] \in Partitions /\ position[c][part[c]] \in 1..Len(log[part[c]])
      BY <2>1, <2>2 DEF HandInv
    <3> QED
      BY <1>1, <1>2, <3>1 DEF InHand
  <2>5. \A p \in assigned[c] : \A i \in 1..position[c][p] : log'[p][i] = log[p][i]
    BY <1>1, <1>2, <2>2, <2>3
  <2> QED
    BY <1>1, <2>1, <2>4, <2>5 DEF ReadInv, Busy, Dealt
<1>6. FoundInv'
  <2> SUFFICES ASSUME NEW d \in processed
               PROVE  \E i \in 1..Len(log'[Home[d]]) :
                        /\ log'[Home[d]][i] = d
                        /\ \A j \in 1..i - 1 : log'[Home[d]][j] \in Dealt /\ log'[Home[d]][j] # d
    BY <1>1 DEF FoundInv, Dealt
  <2>1. PICK p \in Partitions : p = Home[d]
    BY <1>1, ConsumerConstantsOK DEF TypeOK
  <2>2. PICK i \in 1..Len(log[p]) :
          log[p][i] = d /\ \A j \in 1..i - 1 : log[p][j] \in Dealt /\ log[p][j] # d
    BY <2>1 DEF OrderInv, FoundInv
  <2>3. i \in 1..Len(log'[p]) /\ log'[p][i] = d
    BY <1>1, <1>2, <2>2
  <2>4. \A j \in 1..i - 1 : log'[p][j] = log[p][j]
    BY <1>1, <1>2, <2>2
  <2> QED
    BY <2>1, <2>2, <2>3, <2>4
<1>7. SentInv'
  <2> SUFFICES ASSUME NEW i \in 1..Len(sent'), NEW j \in 1..Len(sent'), i < j,
                      Home[sent'[i]] = Home[sent'[j]],
                      NEW k \in 1..Len(log'[Home[sent'[j]]]), log'[Home[sent'[j]]][k] = sent'[j]
               PROVE  \E m \in 1..k - 1 : log'[Home[sent'[j]]][m] = sent'[i]
    BY DEF SentInv
  <2>1. /\ sent' = sent /\ i \in 1..Len(sent) /\ j \in 1..Len(sent)
        /\ sent[i] \in processed /\ sent[j] \in Events
    BY <1>1 DEF IInv, OneNotificationEach, TypeOK
  <2>2. PICK p \in Partitions : p = Home[sent[j]] /\ p = Home[sent[i]]
    BY <2>1, ConsumerConstantsOK
  <2>3. CASE k \in 1..Len(log[p])
    <3>1. log[p][k] = sent[j]
      BY <1>2, <2>1, <2>2, <2>3
    <3>2. SentInv
      BY DEF OrderInv
    <3>3. PICK m \in 1..k - 1 : log[p][m] = sent[i]
      <4>1. /\ Home[sent[i]] = Home[sent[j]] /\ i < j
            /\ k \in 1..Len(log[Home[sent[j]]]) /\ log[Home[sent[j]]][k] = sent[j]
        BY <2>2, <2>3, <3>1
      <4>2. \E m \in 1..k - 1 : log[Home[sent[j]]][m] = sent[i]
        BY ONLY <2>1, <3>2, <4>1 DEF SentInv
      <4> QED
        BY <2>2, <4>2
    <3>4. m \in 1..Len(log[p])
      BY <1>1, <2>3
    <3> QED
      BY <1>2, <2>1, <2>2, <3>3, <3>4
  <2>4. CASE k \notin 1..Len(log[p])
    <3>1. PICK m \in 1..Len(log[p]) : log[p][m] = sent[i]
      BY <2>1, <2>2 DEF OrderInv, FoundInv
    <3>2. m \in 1..k - 1 /\ log'[p][m] = sent[i]
      BY <1>1, <1>2, <2>1, <2>2, <2>4, <3>1
    <3> QED
      BY <2>1, <2>2, <3>2
  <2> QED
    BY <2>3, <2>4
<1> QED
  BY <1>4, <1>5, <1>6, <1>7 DEF OrderInv

LEMMA RestKeepsOrder ==
  ASSUME OrderInv, Rest
  PROVE  OrderInv'
<1>1. UNCHANGED <<log, processed, sent, pc, assigned, position, part>>
  BY DEF Rest
<1>2. HomeInv'
  BY <1>1 DEF OrderInv, HomeInv
<1>3. FoundInv'
  BY <1>1 DEF OrderInv, FoundInv, Dealt
<1>4. SentInv'
  BY <1>1 DEF OrderInv, SentInv
<1>5. \A c \in Consumers : ReadInv(c)'
  BY <1>1, ReadFrame DEF OrderInv
<1> QED
  BY <1>2, <1>3, <1>4, <1>5 DEF OrderInv

LEMMA InitOrder ==
  ASSUME Init
  PROVE  OrderInv
<1>1. HomeInv /\ FoundInv /\ SentInv
  BY DEF Init, HomeInv, FoundInv, SentInv
<1>2. \A c \in Consumers : ReadInv(c)
  BY DEF Init, ReadInv, Busy
<1> QED
  BY <1>1, <1>2 DEF OrderInv

\* What the consumers do to what they share with others: one may notify the
\* event of the first record of a partition that has not been dealt with.
LEMMA ConsumeEffect ==
  ASSUME IInv, OrderInv, Consume
  PROVE  /\ log' = log /\ spent' \in 0..MaxFaults
         /\ \/ sent' = sent
            \/ \E q \in Partitions : \E n \in 1..Len(log[q]) :
                 /\ sent' = Append(sent, log[q][n])
                 /\ log[q][n] \notin Dealt
                 /\ \A i \in 1..n - 1 : log[q][i] \in Dealt
<1>1. spent' \in 0..MaxFaults
  <2>1. spent \in 0..MaxFaults /\ MaxFaults \in Nat
    BY ConsumerConstantsOK DEF IInv, TypeOK
  <2>2. spent' = spent \/ (spent < MaxFaults /\ spent' = spent + 1)
    BY DEF Consume, Work, Fail, Poll, Rejoin, TryCreateProcessedEvent, CreateNotificationDelivery,
       CommitTx, CommitMessage, CommitMessageFails, Restart, HandlerFails, Stop, Crash, Revoke,
       SessionTimeout, Assign, Fault
  <2> QED
    BY <2>1, <2>2
<1>2. log' = log
  BY DEF Consume, Work, Fail, Poll, Rejoin, TryCreateProcessedEvent, CreateNotificationDelivery,
     CommitTx, CommitMessage, CommitMessageFails, Restart, HandlerFails, Stop, Crash, Revoke,
     SessionTimeout, Assign, group
<1>3. UNCHANGED tables \/ \E c \in Consumers : pc[c] = "dbcommit" /\ Apply(c)
  BY DEF Consume, Work, Fail, Poll, Rejoin, TryCreateProcessedEvent, CreateNotificationDelivery,
     CommitTx, CommitMessage, CommitMessageFails, Restart, HandlerFails, Stop, Crash, Revoke,
     SessionTimeout, Assign, Abort
<1>4. CASE UNCHANGED tables
  BY <1>1, <1>2, <1>4 DEF tables
<1>5. ASSUME NEW c \in Consumers, pc[c] = "dbcommit", Apply(c), pending[c] # None
      PROVE  \E q \in Partitions : \E n \in 1..Len(log[q]) :
               /\ sent' = Append(sent, log[q][n])
               /\ log[q][n] \notin Dealt
               /\ \A i \in 1..n - 1 : log[q][i] \in Dealt
  <2>1. TypeOK /\ HandInv(c) /\ PendingInv(c) /\ ReadInv(c)
    BY DEF IInv, ConsInv, OrderInv
  <2>2. PICK q \in Partitions : q = part[c] /\ q \in assigned[c] /\ position[c][q] # 0
    BY <1>5, <2>1 DEF HandInv, ReadInv, Busy
  <2>3. PICK n \in 1..Len(log[q]) : n = position[c][q]
    BY <2>1, <2>2 DEF TypeOK
  <2>4. pending[c] = log[q][n] /\ log[q][n] \notin Poison
    BY <1>5, <2>1, <2>2, <2>3 DEF HandInv, ReadInv, InHand
  <2>5. log[q][n] \notin Dealt
    BY <1>5, <2>1, <2>4 DEF PendingInv, Dealt
  <2>6. sent' = Append(sent, log[q][n])
    BY <1>5, <2>4 DEF Apply
  <2>7. \A i \in 1..n - 1 : log[q][i] \in Dealt
    BY <2>1, <2>2, <2>3 DEF ReadInv
  <2> QED
    BY <2>5, <2>6, <2>7
<1>6. ASSUME NEW c \in Consumers, Apply(c), pending[c] = None PROVE UNCHANGED tables
  BY <1>6 DEF Apply
<1> QED
  BY <1>1, <1>2, <1>3, <1>4, <1>5, <1>6

\* The first record of an event that was notified earlier comes earlier.
LEMMA OrderInvSuffices ==
  ASSUME IInv, OrderInv
  PROVE  NotifiedInOrder
<1> SUFFICES ASSUME NEW q \in Partitions, NEW i \in DOMAIN sent, NEW j \in DOMAIN sent, i < j,
                    {sent[i], sent[j]} \subseteq EventsOf(q)
             PROVE  FirstOffset(q, sent[i]) < FirstOffset(q, sent[j])
  BY DEF NotifiedInOrder
<1>1. /\ i \in 1..Len(sent) /\ j \in 1..Len(sent)
      /\ Home[sent[i]] = q /\ Home[sent[j]] = q
      /\ sent[i] \in processed /\ sent[j] \in processed
  BY DEF IInv, TypeOK, OneNotificationEach, EventsOf
<1>2. DOMAIN log[q] = 1..Len(log[q]) /\ Len(log[q]) \in Nat
  BY DEF IInv, TypeOK
<1>3. ASSUME NEW e \in processed, Home[e] = q
      PROVE  /\ FirstOffset(q, e) \in 1..Len(log[q]) /\ log[q][FirstOffset(q, e)] = e
             /\ \A h \in 1..FirstOffset(q, e) - 1 : log[q][h] # e
  <2>1. \E h \in DOMAIN log[q] : log[q][h] = e /\ \A g \in 1..h - 1 : log[q][g] # e
    BY <1>2, <1>3 DEF OrderInv, FoundInv
  <2> QED
    BY <1>2, <2>1 DEF FirstOffset
<1>4. PICK a \in 1..Len(log[q]) :
        /\ a = FirstOffset(q, sent[i]) /\ \A h \in 1..a - 1 : log[q][h] # sent[i]
  BY <1>1, <1>3
<1>5. PICK b \in 1..Len(log[q]) : b = FirstOffset(q, sent[j]) /\ log[q][b] = sent[j]
  BY <1>1, <1>3
<1>6. PICK m \in 1..b - 1 : log[q][m] = sent[i]
  <2>1. SentInv
    BY DEF OrderInv
  <2>2. Home[sent[i]] = Home[sent[j]] /\ b \in 1..Len(log[Home[sent[j]]])
        /\ log[Home[sent[j]]][b] = sent[j]
    BY <1>1, <1>5
  <2>3. \E m \in 1..b - 1 : log[Home[sent[j]]][m] = sent[i]
    BY <1>1, <2>1, <2>2 DEF SentInv
  <2> QED
    BY <1>1, <2>3
<1>7. m \notin 1..a - 1
  BY <1>4, <1>6
<1> QED
  BY <1>2, <1>4, <1>5, <1>6, <1>7

\* A partition's notifications are made in the order of its events, by whichever
\* consumer, an expelled one that does not know it included: nobody deals with a
\* record before all earlier ones have been dealt with.
THEOREM OrderedNotifications == Spec => []NotifiedInOrder
<1>1. Init => OrderInv
  BY InitOrder
<1>2. IInv /\ OrderInv /\ [Next]_vars => OrderInv'
  <2> SUFFICES ASSUME IInv, OrderInv, [Next]_vars PROVE OrderInv'
    OBVIOUS
  <2>1. CASE Consume
    BY <2>1, ConsumeKeepsOrder
  <2>2. ASSUME NEW q \in Partitions, Arrive(q) PROVE OrderInv'
    <3> DEFINE e == Feed[q][Len(log[q]) + 1]
    <3>1. Len(log[q]) \in Nat /\ Feed[q] \in Seq(Events) /\ Len(log[q]) < Len(Feed[q])
      <4>1. log[q] \in Seq(Events) /\ Feed[q] \in Seq(Events)
        BY ConsumerConstantsOK DEF IInv, TypeOK
      <4> QED
        BY <2>2, <4>1 DEF Arrive
    <3>2. Len(log[q]) + 1 \in DOMAIN Feed[q]
      BY <3>1
    <3>3. e \in Events /\ Home[e] = q
      BY <3>1, <3>2, ConsumerConstantsOK
    <3>4. Grow(q, e)
      BY <2>2 DEF Arrive, Grow, IInv, TypeOK
    <3> HIDE DEF e
    <3> QED
      BY <3>3, <3>4, GrowKeepsOrder
  <2>3. CASE UNCHANGED vars
    <3>1. Rest
      BY <2>3 DEF vars, Rest, IInv, TypeOK
    <3> QED
      BY <3>1, RestKeepsOrder
  <2> QED
    BY <2>1, <2>2, <2>3 DEF Next, Drained
<1>3. IInv /\ OrderInv => NotifiedInOrder
  BY OrderInvSuffices
<1> QED
  BY <1>1, <1>2, <1>3, Invariance, PTL DEF Spec
=============================================================================
