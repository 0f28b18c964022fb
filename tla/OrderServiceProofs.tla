-------------------------- MODULE OrderServiceProofs --------------------------
(***************************************************************************)
(* Proofs about OrderService, for any set of requests, users, keys and     *)
(* inputs, any pool size and any of the failures.                          *)
(*                                                                         *)
(* The properties of the tables are not inductive: they hold because a     *)
(* transaction that has read a row keeps it locked until it ends, and      *)
(* because a pending INSERT of a key excludes every other.  The invariant  *)
(* IInv says what a request at each step may rely on.                      *)
(***************************************************************************)
EXTENDS OrderService, TLAPS

\* The request has been read, and its operation is one that has this step;
\* past the lookup the key, and the body of a create, are there.
OpStep(r) ==
  /\ pc[r] # "idle" => req[r] # None
  /\ pc[r] \in {"lookup", "replay", "insert"} => req[r].op # "cancel"
  /\ pc[r] \in {"lock", "row", "release"} => req[r].op # "create"
  /\ pc[r] \in {"replay", "begin", "row", "insert", "commit"} /\ req[r].op # "cancel"
       => InputOK(req[r])

\* A payment or cancellation that has passed its checks still holds the row it
\* checked, and the row is as it was checked.
Holds(r) ==
  pc[r] \in {"insert", "commit"} /\ req[r].op # "create" =>
    /\ req[r].order \in OrderIds
    /\ rowLock[req[r].order] = r
    /\ orders[req[r].order] # None
    /\ Payable(orders[req[r].order].status)
    /\ req[r].op = "pay" => paid[r] \in PaymentStatuses

\* The order a request names, if any, exists.
NamesOrder(r) == req[r] # None /\ req[r].order # None => orders[req[r].order] # None

\* The key of a request about to commit has not been committed by another.
KeyFresh(r) ==
  pc[r] = "commit" /\ req[r].op # "cancel" => RowsFor(req[r]) = {}

\* A request that has not ended its transaction has left nothing behind and has
\* answered nothing.
Unwritten(r) ==
  pc[r] \notin {"release", "done"} => ~HasEffect(r) /\ resp[r].code = "none"

\* An order or payment has the idempotency row of the request that made it.
EffectKeyed(r) ==
  HasEffect(r) =>
    /\ req[r] # None
    /\ \E row \in RowsFor(req[r]) : row.resource = r

\* A request on its way to a replay still finds the row it matched.
ReplayFound(r) ==
  pc[r] = "replay" => \E row \in RowsFor(req[r]) : Matches(row, req[r])

\* A keyed success answer was taken from, or written with, an idempotency row.
AnswerKeyed(r) ==
  Keyed(r) /\ Succeeded(r) =>
    \E row \in RowsFor(req[r]) : Matches(row, req[r]) /\ row.resource = resp[r].resource

\* What a request may rely on.
ReqInv(r) ==
  /\ OpStep(r) /\ Holds(r) /\ NamesOrder(r) /\ KeyFresh(r) /\ Unwritten(r)
  /\ EffectKeyed(r) /\ ReplayFound(r) /\ AnswerKeyed(r)

\* No two pending INSERTs of one key.
PendingKeysDiffer ==
  \A r, s \in Requests :
    /\ pc[r] = "commit" /\ req[r].op # "cancel"
    /\ pc[s] = "commit" /\ req[s].op # "cancel"
    /\ req[r].user = req[s].user /\ req[r].key = req[s].key
    => r = s

\* The unique constraint on (user_id, key).
UniqueRows ==
  \A x, y \in idem : x.user = y.user /\ x.key = y.key => x = y

\* An idempotency row names a committed resource of the kind its path says.
RowsResolve ==
  \A row \in idem :
    IF row.request.path = "orders"
    THEN orders[row.resource] # None /\ orders[row.resource].user = row.user
    ELSE \E p \in payments : p.id = row.resource /\ p.order = row.request.hash

TableInv == StatusTellsPayments /\ AtMostOneCapture /\ UniqueRows /\ RowsResolve

\* The inductive invariant.
IInv ==
  /\ TypeOK
  /\ \A r \in Requests : ReqInv(r)
  /\ PendingKeysDiffer
  /\ TableInv

-----------------------------------------------------------------------------
(* The type invariant *)

USE DEF OrderIds

\* Answer keeps the types of pc and resp.
LEMMA AnswerType ==
  ASSUME TypeOK, NEW r \in Requests, NEW code \in Codes, NEW x \in Requests \cup {None},
         Answer(r, code, x)
  PROVE  /\ pc' \in [Requests -> Steps]
         /\ resp' \in [Requests -> [code : Codes, resource : Requests \cup {None}]]
BY DEF TypeOK, Answer, Steps

\* Goto keeps the type of pc.
LEMMA GotoType ==
  ASSUME TypeOK, NEW r \in Requests, NEW step \in Steps, Goto(r, step)
  PROVE  pc' \in [Requests -> Steps]
BY DEF TypeOK, Goto

\* Ending a transaction keeps the type of rowLock.
LEMMA EndTxType ==
  ASSUME TypeOK, NEW r \in Requests, EndTx(r)
  PROVE  rowLock' \in [OrderIds -> Requests \cup {None}]
BY DEF TypeOK, EndTx

\* The rows a transaction writes at COMMIT have their types.
LEMMA WriteType ==
  ASSUME TypeOK, NEW r \in Requests, OpStep(r), Holds(r), pc[r] = "commit", Write(r)
  PROVE  /\ orders'   \in [OrderIds -> OrderRow \cup {None}]
         /\ payments' \in SUBSET Payment
         /\ idem'     \in SUBSET IdemRow
         /\ outbox'   \in [OrderIds -> Seq(Event)]
<1>1. req[r] \in Request /\ createdAt[r] \in Nat
  BY DEF TypeOK, OpStep
<1>2. ASSUME NEW type \in EventTypes, NEW a \in Requests, NEW o \in OrderIds,
             outbox' = [outbox EXCEPT ![o] = Append(@, EventOf(r, type, a))]
      PROVE  outbox' \in [OrderIds -> Seq(Event)]
  <2>1. EventOf(r, type, a) \in Event
    BY <1>1 DEF EventOf, Event
  <2>2. outbox[o] \in Seq(Event)
    BY DEF TypeOK
  <2>3. Append(outbox[o], EventOf(r, type, a)) \in Seq(Event)
    BY <2>1, <2>2
  <2> QED
    BY <1>2, <2>3 DEF TypeOK
<1>3. ASSUME NEW o \in OrderIds, NEW s \in Statuses, orders[o] # None,
             orders' = [orders EXCEPT ![o].status = s]
      PROVE  orders' \in [OrderIds -> OrderRow \cup {None}]
  <2>1. orders[o] \in OrderRow
    BY <1>3 DEF TypeOK
  <2>2. [orders[o] EXCEPT !.status = s] \in OrderRow
    BY <2>1 DEF OrderRow
  <2> QED
    BY <1>3, <2>2 DEF TypeOK
<1>4. ASSUME NEW code \in {"created", "ok"}, req[r].op # "cancel"
      PROVE  KeyRowOf(r, code) \in IdemRow
  <2>1. req[r].key \in Keys /\ req[r].user \in Users
    BY <1>1, <1>4 DEF OpStep, InputOK, Request
  <2>2. Fingerprint(req[r]) \in Stored
    BY <1>1 DEF Fingerprint, Stored, Request
  <2> QED
    BY <2>1, <2>2 DEF KeyRowOf, IdemRow
<1>5. CASE req[r].op = "create" /\ WriteCreate(r)
  <2>1. outbox' \in [OrderIds -> Seq(Event)]
    BY <1>2, <1>5 DEF WriteCreate, EventTypes
  <2>2. [user |-> req[r].user, body |-> req[r].body, status |-> "pending_payment"] \in OrderRow
    BY <1>1, <1>5 DEF Request, OrderRow, Statuses, OpStep, InputOK
  <2>3. KeyRowOf(r, "created") \in IdemRow
    BY <1>4, <1>5
  <2> QED
    BY <1>5, <2>1, <2>2, <2>3 DEF WriteCreate, TypeOK
<1>6. CASE req[r].op = "pay" /\ WritePay(r)
  <2>1. /\ req[r].order \in OrderIds /\ orders[req[r].order] # None
        /\ paid[r] \in PaymentStatuses
    BY <1>6 DEF Holds
  <2>2. outbox' \in [OrderIds -> Seq(Event)]
    BY <1>2, <1>6, <2>1 DEF WritePay, EventTypes, PaymentEvent
  <2>3. orders' \in [OrderIds -> OrderRow \cup {None}]
    BY <1>3, <1>6, <2>1 DEF WritePay, Statuses, NextOrderStatus
  <2>4. KeyRowOf(r, "ok") \in IdemRow
    BY <1>4, <1>6
  <2>5. [id |-> r, order |-> req[r].order, status |-> paid[r]] \in Payment
    BY <2>1 DEF Payment
  <2> QED
    BY <1>6, <2>2, <2>3, <2>4, <2>5 DEF WritePay, TypeOK
<1>7. CASE req[r].op = "cancel" /\ WriteCancel(r)
  <2>1. req[r].order \in OrderIds /\ orders[req[r].order] # None
    BY <1>7 DEF Holds
  <2>2. outbox' \in [OrderIds -> Seq(Event)]
    BY <1>2, <1>7, <2>1 DEF WriteCancel, EventTypes
  <2>3. orders' \in [OrderIds -> OrderRow \cup {None}]
    BY <1>3, <1>7, <2>1 DEF WriteCancel, Statuses
  <2> QED
    BY <1>7, <2>2, <2>3 DEF WriteCancel, TypeOK
<1> QED
  BY <1>5, <1>6, <1>7 DEF Write

\* Every step of the service keeps TypeOK.
LEMMA TypeStep ==
  ASSUME TypeOK, \A r \in Requests : OpStep(r) /\ Holds(r), [Next]_vars
  PROVE  TypeOK'
<1> USE DEF TypeOK, db, local
<1>1. ASSUME NEW r \in Requests, NEW in \in Inputs, NEW o \in OrderIds \cup {None},
             Start(r, in, o)
      PROVE  TypeOK'
  BY <1>1, ConstantsOK DEF Goto, Start, Input, Request, Steps
<1>2. ASSUME NEW r \in Requests, AcquireLock(r)  PROVE TypeOK'
  <2>1. orderLockKey(req[r]) \in LockKey
    BY <1>2 DEF AcquireLock, OpStep, orderLockKey, LockKey, Request
  <2>2. CASE \E e \in lock : e.key = orderLockKey(req[r])
    <3>1. /\ resp' = [resp EXCEPT ![r] = [code |-> "busy", resource |-> None]]
          /\ Goto(r, "done") /\ UNCHANGED lock
      BY <1>2, <2>2, Zenon DEF AcquireLock
    <3> QED
      BY <1>2, <3>1, GotoType DEF AcquireLock, Steps, Codes
  <2>3. CASE ~ \E e \in lock : e.key = orderLockKey(req[r])
    <3>1. /\ lock' = lock \cup {[key |-> orderLockKey(req[r]), token |-> r]}
          /\ Goto(r, IF req[r].op = "pay" THEN "lookup" ELSE "begin") /\ UNCHANGED resp
      BY <1>2, <2>3, Zenon DEF AcquireLock
    <3> QED
      BY <1>2, <2>1, <3>1, GotoType DEF AcquireLock, Steps
  <2> QED
    BY <2>2, <2>3
<1>3. ASSUME NEW r \in Requests, RejectInput(r)  PROVE TypeOK'
  BY <1>3, AnswerType DEF RejectInput, Codes
<1>4. ASSUME NEW r \in Requests, LookupKey(r)  PROVE TypeOK'
  <2>1. CASE Answer(r, "key_conflict", None)
    BY <1>4, <2>1, AnswerType DEF LookupKey, Codes
  <2>2. CASE (Goto(r, "replay") \/ Goto(r, "begin")) /\ UNCHANGED resp
    BY <1>4, <2>2, GotoType DEF LookupKey, Steps
  <2> QED
    BY <1>4, <2>1, <2>2 DEF LookupKey
<1>5. ASSUME NEW r \in Requests, Replay(r)  PROVE TypeOK'
  <2>1. PICK row \in RowsFor(req[r]) : Answer(r, row.code, row.resource)
    BY <1>5 DEF Replay
  <2>2. row.code \in Codes /\ row.resource \in Requests
    BY <2>1 DEF RowsFor, IdemRow, Codes
  <2> QED
    BY <1>5, <2>1, <2>2, AnswerType DEF Replay
<1>6. ASSUME NEW r \in Requests, BeginTx(r)  PROVE TypeOK'
  BY <1>6, GotoType DEF BeginTx, Steps
<1>7. ASSUME NEW r \in Requests, LockOrder(r)  PROVE TypeOK'
  <2>1. CASE Refusal(req[r]) # "none"
    <3>1. Refusal(req[r]) \in Codes
      BY DEF Refusal, Codes
    <3> QED
      BY <1>7, <2>1, <3>1, AnswerType DEF LockOrder
  <2>2. CASE Refusal(req[r]) = "none"
    <3>1. req[r].order \in OrderIds
      BY <1>7, <2>2 DEF LockOrder, Refusal, OpStep, Request
    <3> QED
      <4>1. /\ rowLock' = [rowLock EXCEPT ![req[r].order] = r] /\ UNCHANGED resp
            /\ Goto(r, "insert") \/ Goto(r, "commit")
            /\ (\E s \in mockPayment : paid' = [paid EXCEPT ![r] = s]) \/ UNCHANGED paid
        BY <1>7, <2>2 DEF LockOrder
      <4> QED
        <5>1. pc' \in [Requests -> Steps]
          BY <4>1, GotoType DEF Steps
        <5>2. rowLock' \in [OrderIds -> Requests \cup {None}]
          BY <3>1, <4>1
        <5>3. paid' \in [Requests -> PaymentStatuses \cup {None}]
          BY <4>1 DEF mockPayment, TypeOK
        <5> QED
          BY <1>7, <4>1, <5>1, <5>2, <5>3 DEF LockOrder
  <2> QED
    BY <2>1, <2>2
<1>8. ASSUME NEW r \in Requests, InsertKey(r)  PROVE TypeOK'
  <2>1. CASE RowsFor(req[r]) # {}
    BY <1>8, <2>1, AnswerType, EndTxType DEF InsertKey, Codes
  <2>2. CASE RowsFor(req[r]) = {}
    BY <1>8, <2>2, GotoType DEF InsertKey, Steps
  <2> QED
    BY <2>1, <2>2
<1>9. ASSUME NEW r \in Requests, Commit(r)  PROVE TypeOK'
  <2>1. req[r] \in Request
    BY <1>9 DEF Commit, OpStep
  <2>2. PICK code \in Codes, x \in Requests \cup {None} : Answer(r, code, x)
    BY <1>9, <2>1 DEF Commit, Codes, Request
  <2> QED
    BY <1>9, <2>2, AnswerType, EndTxType, WriteType DEF Commit
<1>10. ASSUME NEW r \in Requests, ReleaseLock(r)  PROVE TypeOK'
  BY <1>10, GotoType DEF ReleaseLock, Released, Steps
<1>11. ASSUME NEW r \in Requests, AcquireFails(r)  PROVE TypeOK'
  <2>1. PICK code \in {"internal", "busy"} :
          resp' = [resp EXCEPT ![r] = [code |-> code, resource |-> None]]
    BY <1>11 DEF AcquireFails
  <2>2. lock' \in {lock, lock \cup {[key |-> orderLockKey(req[r]), token |-> r]}}
    BY <1>11 DEF AcquireFails
  <2>3. orderLockKey(req[r]) \in LockKey
    BY <1>11 DEF AcquireFails, OpStep, orderLockKey, LockKey, Request
  <2>4. code \in Codes
    BY DEF Codes
  <2> QED
    BY <1>11, <2>1, <2>2, <2>3, <2>4, GotoType DEF AcquireFails, Steps
<1>12. ASSUME NEW r \in Requests, LookupFails(r)  PROVE TypeOK'
  BY <1>12, GotoType DEF LookupFails, Steps
<1>13. ASSUME NEW r \in Requests, DbFails(r)  PROVE TypeOK'
  BY <1>13, AnswerType, EndTxType DEF DbFails, Codes
<1>14. ASSUME NEW r \in Requests, Crash(r)  PROVE TypeOK'
  BY <1>14, GotoType, EndTxType DEF Crash, Steps, Codes
<1>15. ASSUME NEW e \in lock, ExpireLock(e)  PROVE TypeOK'
  BY <1>15 DEF ExpireLock
<1>16. CASE UNCHANGED vars
  BY <1>16 DEF vars
<1> QED
  BY <1>1, <1>2, <1>3, <1>4, <1>5, <1>6, <1>7, <1>8, <1>9, <1>10, <1>11, <1>12, <1>13,
     <1>14, <1>15, <1>16 DEF Next, Handle, Fail, Terminated

-----------------------------------------------------------------------------
(* Steps that write no table *)

\* A step of r leaves every other request, and the rows it holds, alone.
OthersStay(r) ==
  \A s \in Requests \ {r} :
    /\ pc'[s] = pc[s] /\ req'[s] = req[s] /\ resp'[s] = resp[s] /\ paid'[s] = paid[s]
    /\ \A o \in OrderIds : rowLock[o] = s => rowLock'[o] = s

\* What a request may rely on is left alone by a step of another request that
\* touches neither the tables nor its row lock.
LEMMA FrameOthers ==
  ASSUME NEW r \in Requests, NEW s \in Requests \ {r}, ReqInv(s), OthersStay(r), UNCHANGED db
  PROVE  ReqInv(s)'
<1> USE DEF OthersStay
<1>1. OpStep(s)'       BY DEF ReqInv, OpStep, InputOK
<1>2. Holds(s)'        BY DEF ReqInv, Holds, Payable, db
<1>3. KeyFresh(s)'     BY DEF ReqInv, KeyFresh, RowsFor, db
<1>4. Unwritten(s)'    BY DEF ReqInv, Unwritten, HasEffect, db
<1>5. EffectKeyed(s)'  BY DEF ReqInv, EffectKeyed, HasEffect, RowsFor, db
<1>6. ReplayFound(s)'  BY DEF ReqInv, ReplayFound, RowsFor, Matches, db
<1>7. AnswerKeyed(s)'  BY DEF ReqInv, AnswerKeyed, Keyed, Succeeded, RowsFor, Matches, db
<1>8. NamesOrder(s)'   BY DEF ReqInv, NamesOrder, db
<1> QED
  BY <1>8, <1>1, <1>2, <1>3, <1>4, <1>5, <1>6, <1>7 DEF ReqInv

\* No step but an INSERT can make two pending keys equal.
LEMMA FramePending ==
  ASSUME NEW r \in Requests, PendingKeysDiffer, OthersStay(r), req'[r] = req[r],
         pc'[r] = "commit" => req[r].op = "cancel"
  PROVE  PendingKeysDiffer'
BY DEF PendingKeysDiffer, OthersStay

\* TableInv speaks of the tables only.
LEMMA FrameTables ==
  ASSUME TableInv, UNCHANGED db
  PROVE  TableInv'
BY DEF TableInv, StatusTellsPayments, Attempted, AtMostOneCapture, UniqueRows, RowsResolve, db

\* A request that is refused, fails or is lost leaves nothing behind.
LEMMA RefusedStep ==
  ASSUME NEW r \in Requests, ReqInv(r), UNCHANGED db, req'[r] = req[r], req[r] # None,
         pc'[r] \in {"release", "done"}, pc'[r] = "release" => req[r].op # "create",
         resp'[r].code \notin {"created", "ok"}
  PROVE  ReqInv(r)'
<1>1. OpStep(r)'       BY DEF OpStep
<1>2. Holds(r)'        BY DEF Holds
<1>3. KeyFresh(r)'     BY DEF KeyFresh
<1>4. Unwritten(r)'    BY DEF Unwritten
<1>5. EffectKeyed(r)'  BY DEF ReqInv, EffectKeyed, HasEffect, RowsFor, db
<1>6. ReplayFound(r)'  BY DEF ReplayFound
<1>7. AnswerKeyed(r)'  BY DEF AnswerKeyed, Succeeded
<1>8. NamesOrder(r)'   BY DEF ReqInv, NamesOrder, db
<1> QED
  BY <1>8, <1>1, <1>2, <1>3, <1>4, <1>5, <1>6, <1>7 DEF ReqInv

\* Everything a table-free step of r has to show is about r itself.
LEMMA QuietStep ==
  ASSUME NEW r \in Requests, IInv, TypeOK', OthersStay(r), UNCHANGED db, ReqInv(r)',
         PendingKeysDiffer'
  PROVE  IInv'
<1>1. ASSUME NEW s \in Requests  PROVE ReqInv(s)'
  BY FrameOthers DEF IInv
<1> QED
  BY <1>1, FrameTables DEF IInv

\* What Answer changes: the step and the answer of r, nothing of the others.
LEMMA AnswerEffect ==
  ASSUME TypeOK, NEW r \in Requests, NEW code, NEW x, Answer(r, code, x)
  PROVE  /\ resp'[r] = [code |-> code, resource |-> x]
         /\ pc'[r] \in {"release", "done"}
         /\ pc'[r] = "release" => req[r].op # "create"
         /\ \A s \in Requests \ {r} : pc'[s] = pc[s] /\ resp'[s] = resp[s]
BY DEF TypeOK, Answer

\* What Goto changes: the step of r, nothing of the others.
LEMMA GotoEffect ==
  ASSUME TypeOK, NEW r \in Requests, NEW step, Goto(r, step)
  PROVE  pc'[r] = step /\ \A s \in Requests \ {r} : pc'[s] = pc[s]
BY DEF TypeOK, Goto

\* What the end of a transaction changes: the row locks of r, no other.
LEMMA EndTxEffect ==
  ASSUME TypeOK, NEW r \in Requests, EndTx(r)
  PROVE  \A s \in Requests \ {r}, o \in OrderIds : rowLock[o] = s => rowLock'[o] = s
BY DEF TypeOK, EndTx

-----------------------------------------------------------------------------
(* COMMIT *)

\* What COMMIT does to the tables, as far as the other requests can tell.
LEMMA WriteEffect ==
  ASSUME IInv, NEW r \in Requests, pc[r] = "commit", Write(r)
  PROVE  /\ \A s \in Requests \ {r} : orders'[s] # None <=> orders[s] # None
         /\ \A o \in OrderIds : orders[o] # None =>
              orders'[o] # None /\ orders'[o].user = orders[o].user
         /\ \A o \in OrderIds : orders[o] # None /\ rowLock[o] # r => orders'[o] = orders[o]
         /\ payments \subseteq payments' /\ \A p \in payments' \ payments : p.id = r
         /\ idem \subseteq idem'
         /\ \A row \in idem' \ idem : \E code \in {"created", "ok"} : row = KeyRowOf(r, code)
         /\ req[r].op # "cancel" => \E code \in {"created", "ok"} : KeyRowOf(r, code) \in idem'
         /\ req[r].op = "cancel" => UNCHANGED <<payments, idem>> /\ orders'[r] = None
<1>1. TypeOK /\ ReqInv(r) /\ orders[r] = None /\ req[r] \in Request
  BY DEF IInv, ReqInv, Unwritten, HasEffect, OpStep, TypeOK
<1>2. ASSUME req[r].op # "create", NEW o, o = req[r].order, NEW s \in Statuses,
             orders' = [orders EXCEPT ![o].status = s]
      PROVE  /\ o \in OrderIds /\ rowLock[o] = r /\ orders[o] # None /\ o # r
             /\ orders'[o] # None /\ orders'[o].user = orders[o].user
             /\ \A x \in OrderIds \ {o} : orders'[x] = orders[x]
  <2>1. o \in OrderIds /\ rowLock[o] = r /\ orders[o] # None /\ o # r
    BY <1>1, <1>2 DEF ReqInv, Holds
  <2>2. orders[o] \in OrderRow /\ orders'[o] = [orders[o] EXCEPT !.status = s]
    BY <1>1, <1>2, <2>1 DEF TypeOK
  <2>3. orders'[o].user = orders[o].user
    BY <2>2 DEF OrderRow
  <2>4. orders'[o] # None
    <3>1. [orders[o] EXCEPT !.status = s] \in OrderRow
      BY <2>2 DEF OrderRow
    <3> QED
      BY <2>2, <3>1, NoneIsNoRecord
  <2> QED
    BY <1>1, <1>2, <2>1, <2>3, <2>4 DEF TypeOK
<1>3. CASE req[r].op = "create" /\ WriteCreate(r)
  <2>1. [user |-> req[r].user, body |-> req[r].body, status |-> "pending_payment"] \in OrderRow
    BY <1>1, <1>3 DEF ReqInv, OpStep, InputOK, Request, OrderRow, Statuses
  <2>2. orders'[r] # None /\ \A x \in OrderIds \ {r} : orders'[x] = orders[x]
    BY <1>1, <1>3, <2>1, NoneIsNoRecord DEF WriteCreate, TypeOK
  <2> QED
    BY <1>1, <1>3, <2>2 DEF WriteCreate
<1>4. CASE req[r].op = "pay" /\ WritePay(r)
  <2>1. NextOrderStatus(paid[r]) \in Statuses
    BY DEF NextOrderStatus, Statuses
  <2>2. /\ req[r].order \in OrderIds /\ rowLock[req[r].order] = r
        /\ orders[req[r].order] # None /\ req[r].order # r
        /\ orders'[req[r].order] # None
        /\ orders'[req[r].order].user = orders[req[r].order].user
        /\ \A x \in OrderIds \ {req[r].order} : orders'[x] = orders[x]
    BY <1>2, <1>4, <2>1 DEF WritePay
  <2>3. KeyRowOf(r, "ok") \in idem' /\ idem' = idem \cup {KeyRowOf(r, "ok")}
    BY <1>4 DEF WritePay
  <2>4. \A p \in payments' \ payments : p.id = r
    BY <1>4 DEF WritePay
  <2> QED
    BY <1>1, <1>4, <2>2, <2>3, <2>4 DEF WritePay
<1>5. CASE req[r].op = "cancel" /\ WriteCancel(r)
  <2>1. /\ req[r].order \in OrderIds /\ rowLock[req[r].order] = r
        /\ orders[req[r].order] # None /\ req[r].order # r
        /\ orders'[req[r].order] # None
        /\ orders'[req[r].order].user = orders[req[r].order].user
        /\ \A x \in OrderIds \ {req[r].order} : orders'[x] = orders[x]
    BY <1>2, <1>5 DEF WriteCancel, Statuses
  <2> QED
    BY <1>1, <1>5, <2>1 DEF WriteCancel
<1> QED
  BY <1>3, <1>4, <1>5 DEF Write

\* The other requests keep what they rely on: their rows are locked by them,
\* and their keys are not the key being committed.
LEMMA CommitOthers ==
  ASSUME IInv, NEW r \in Requests, pc[r] = "commit", Write(r), OthersStay(r),
         NEW s \in Requests \ {r}
  PROVE  ReqInv(s)'
<1> USE DEF OthersStay
<1>0. ReqInv(s) /\ ReqInv(r) /\ PendingKeysDiffer
  BY DEF IInv
<1>1. OpStep(s)'
  BY <1>0 DEF ReqInv, OpStep, InputOK
<1>2. Holds(s)'
  <2> SUFFICES ASSUME pc[s] \in {"insert", "commit"}, req[s].op # "create"
               PROVE  Holds(s)'
    BY DEF Holds
  <2>1. /\ req[s].order \in OrderIds /\ rowLock[req[s].order] = s
        /\ orders[req[s].order] # None /\ Payable(orders[req[s].order].status)
        /\ req[s].op = "pay" => paid[s] \in PaymentStatuses
    BY <1>0 DEF ReqInv, Holds
  <2>2. orders'[req[s].order] = orders[req[s].order]
    BY <2>1, WriteEffect
  <2> QED
    BY <2>1, <2>2 DEF Holds, Payable
<1>3. KeyFresh(s)'
  <2> SUFFICES ASSUME pc[s] = "commit", req[s].op # "cancel", NEW row \in idem',
                      row.user = req[s].user, row.key = req[s].key
               PROVE  FALSE
    BY DEF KeyFresh, RowsFor
  <2>1. row \notin idem
    BY <1>0 DEF ReqInv, KeyFresh, RowsFor
  <2>2. req[r].op # "cancel"
    BY <2>1, WriteEffect
  <2>3. PICK code \in {"created", "ok"} : row = KeyRowOf(r, code)
    BY <2>1, WriteEffect
  <2>4. req[r].user = req[s].user /\ req[r].key = req[s].key
    BY <2>3 DEF KeyRowOf
  <2>5. r = s
    BY <1>0, <2>2, <2>4, s \in Requests, Zenon DEF PendingKeysDiffer
  <2> QED
    BY <2>5
<1>4. HasEffect(s)' <=> HasEffect(s)
  BY WriteEffect DEF HasEffect
<1>5. Unwritten(s)'
  BY <1>0, <1>4 DEF ReqInv, Unwritten
<1>6. RowsFor(req[s]) \subseteq RowsFor(req[s])'
  BY WriteEffect DEF RowsFor
<1>7. EffectKeyed(s)'
  BY <1>0, <1>4, <1>6 DEF ReqInv, EffectKeyed
<1>8. ReplayFound(s)'
  BY <1>0, <1>6 DEF ReqInv, ReplayFound, Matches
<1>9. AnswerKeyed(s)'
  BY <1>0, <1>6 DEF ReqInv, AnswerKeyed, Keyed, Succeeded, Matches
<1>10. NamesOrder(s)'
  <2> SUFFICES ASSUME req[s] # None, req[s].order # None PROVE orders'[req[s].order] # None
    BY DEF NamesOrder
  <2>1. orders[req[s].order] # None
    BY <1>0 DEF ReqInv, NamesOrder
  <2>2. req[s].order \in OrderIds
    BY DEF IInv, TypeOK, Request
  <2> QED
    BY <2>1, <2>2, WriteEffect
<1> QED
  BY <1>10, <1>1, <1>2, <1>3, <1>5, <1>7, <1>8, <1>9 DEF ReqInv

\* The request itself ends with its own idempotency row in the table.
LEMMA CommitSelf ==
  ASSUME IInv, NEW r \in Requests, pc[r] = "commit", Write(r), req'[r] = req[r],
         pc'[r] \in {"release", "done"}, pc'[r] = "release" => req[r].op # "create",
         req[r].op # "cancel" /\ resp'[r].code \in {"created", "ok"} => resp'[r].resource = r
  PROVE  ReqInv(r)'
<1>0. ReqInv(r) /\ req[r] # None /\ req[r] \in Request
  BY DEF IInv, ReqInv, OpStep, TypeOK
<1>4. NamesOrder(r)'
  BY <1>0, WriteEffect DEF ReqInv, NamesOrder, Request
<1>1. OpStep(r)' /\ Holds(r)' /\ KeyFresh(r)' /\ Unwritten(r)' /\ ReplayFound(r)'
  BY <1>0 DEF OpStep, Holds, KeyFresh, Unwritten, ReplayFound
<1>2. CASE req[r].op # "cancel"
  <2>1. PICK code \in {"created", "ok"} : KeyRowOf(r, code) \in idem'
    BY <1>2, WriteEffect
  <2>2. /\ KeyRowOf(r, code) \in RowsFor(req[r])' /\ KeyRowOf(r, code).resource = r
        /\ KeyRowOf(r, code).request = Fingerprint(req[r])
    BY <2>1 DEF KeyRowOf, RowsFor
  <2>3. EffectKeyed(r)'
    BY <1>0, <2>2 DEF EffectKeyed
  <2>4. AnswerKeyed(r)'
    BY <1>2, <2>2 DEF AnswerKeyed, Succeeded, Matches
  <2> QED
    BY <1>4, <1>1, <2>3, <2>4 DEF ReqInv
<1>3. CASE req[r].op = "cancel"
  <2>1. ~HasEffect(r)'
    BY <1>0, <1>3, WriteEffect DEF ReqInv, Unwritten, HasEffect
  <2>2. EffectKeyed(r)' /\ AnswerKeyed(r)'
    BY <1>3, <2>1 DEF EffectKeyed, AnswerKeyed, Keyed
  <2> QED
    BY <1>4, <1>1, <2>2 DEF ReqInv
<1> QED
  BY <1>2, <1>3

\* The tables stay consistent: the row was payable, so no payment of the order
\* has succeeded yet, and the key was fresh.
LEMMA CommitTables ==
  ASSUME IInv, NEW r \in Requests, pc[r] = "commit", Write(r)
  PROVE  TableInv'
<1>0. TypeOK /\ ReqInv(r) /\ TableInv /\ req[r] \in Request /\ orders[r] = None
  BY DEF IInv, ReqInv, OpStep, Unwritten, HasEffect, TypeOK
<1>1. UniqueRows'
  <2> SUFFICES ASSUME NEW x \in idem', NEW y \in idem', x.user = y.user, x.key = y.key
               PROVE  x = y
    BY DEF UniqueRows
  <2>1. CASE req[r].op = "cancel"
    BY <1>0, <2>1, WriteEffect DEF TableInv, UniqueRows
  <2>2. CASE req[r].op # "cancel"
    <3>1. PICK row : idem' = idem \cup {row} /\ row.user = req[r].user /\ row.key = req[r].key
      <4>1. PICK code : idem' = idem \cup {KeyRowOf(r, code)}
        BY <2>2 DEF Write, WriteCreate, WritePay
      <4>2. KeyRowOf(r, code).user = req[r].user /\ KeyRowOf(r, code).key = req[r].key
        BY DEF KeyRowOf
      <4> QED
        BY <4>1, <4>2
    <3>2. \A z \in idem : ~(z.user = req[r].user /\ z.key = req[r].key)
      BY <1>0, <2>2 DEF ReqInv, KeyFresh, RowsFor
    <3> QED
      BY <1>0, <3>1, <3>2 DEF TableInv, UniqueRows
  <2> QED
    BY <2>1, <2>2
<1>2. ASSUME NEW row \in idem
      PROVE  IF row.request.path = "orders"
             THEN orders'[row.resource] # None /\ orders'[row.resource].user = row.user
             ELSE \E p \in payments' : p.id = row.resource /\ p.order = row.request.hash
  <2>1. row.resource \in OrderIds
    BY <1>0 DEF TypeOK, IdemRow
  <2> QED
    BY <1>0, <2>1, WriteEffect DEF TableInv, RowsResolve
<1>3. CASE req[r].op = "create" /\ WriteCreate(r)
  <2>1. orders'[r] = [user |-> req[r].user, body |-> req[r].body, status |-> "pending_payment"]
    BY <1>0, <1>3 DEF WriteCreate, TypeOK
  <2>2. \A x \in OrderIds \ {r} : orders'[x] = orders[x]
    BY <1>0, <1>3 DEF WriteCreate, TypeOK
  <2>3. orders'[r] # None
    BY <2>1, NoneIsNoRecord, <1>0, <1>3 DEF OrderRow, Request, ReqInv, OpStep, InputOK, Statuses
  <2>4. RowsResolve'
    <3>1. idem' = idem \cup {KeyRowOf(r, "created")}
      BY <1>3 DEF WriteCreate
    <3>2. /\ KeyRowOf(r, "created").request.path = "orders"
          /\ KeyRowOf(r, "created").resource = r /\ KeyRowOf(r, "created").user = req[r].user
      BY <1>3 DEF KeyRowOf, Fingerprint
    <3>3. orders'[r].user = req[r].user
      BY <2>1
    <3> QED
      BY <1>2, <2>3, <3>1, <3>2, <3>3 DEF RowsResolve
  <2>5. ~Attempted(r, "succeeded") /\ ~Attempted(r, "failed")
    BY <1>0 DEF TableInv, StatusTellsPayments
  <2>6. StatusTellsPayments' /\ AtMostOneCapture'
    BY <1>0, <1>3, <2>1, <2>2, <2>5
    DEF WriteCreate, TableInv, StatusTellsPayments, Attempted, AtMostOneCapture
  <2> QED
    BY <1>1, <2>4, <2>6 DEF TableInv
<1>4. CASE req[r].op = "pay" /\ WritePay(r)
  <2> DEFINE o == req[r].order
             new == [id |-> r, order |-> o, status |-> paid[r]]
  <2>1. /\ o \in OrderIds /\ orders[o] # None /\ orders[o] \in OrderRow
        /\ Payable(orders[o].status) /\ paid[r] \in PaymentStatuses
    BY <1>0, <1>4 DEF ReqInv, Holds, TypeOK
  <2>2. /\ orders'[o] = [orders[o] EXCEPT !.status = NextOrderStatus(paid[r])]
        /\ \A x \in OrderIds \ {o} : orders'[x] = orders[x]
    BY <1>0, <1>4, <2>1 DEF WritePay, TypeOK
  <2>3. orders'[o] # None /\ orders'[o].status = NextOrderStatus(paid[r])
    BY <2>1, <2>2, WriteEffect DEF OrderRow
  <2>4. payments' = payments \cup {new} /\ new.order = o /\ new.status = paid[r] /\ new.id = r
    BY <1>4 DEF WritePay
  <2>5. ~Attempted(o, "succeeded")
    BY <1>0, <2>1 DEF TableInv, StatusTellsPayments, Payable
  <2> HIDE DEF new
  <2>6. RowsResolve'
    <3>1. idem' = idem \cup {KeyRowOf(r, "ok")}
      BY <1>4 DEF WritePay
    <3>2. /\ KeyRowOf(r, "ok").request.path # "orders"
          /\ KeyRowOf(r, "ok").request.hash = o /\ KeyRowOf(r, "ok").resource = r
      BY <1>4 DEF KeyRowOf, Fingerprint
    <3> QED
      BY <1>2, <2>4, <3>1, <3>2 DEF RowsResolve
  <2>7. AtMostOneCapture'
    BY <1>0, <2>4, <2>5 DEF TableInv, AtMostOneCapture, Attempted
  <2>8. StatusTellsPayments'
    <3> SUFFICES ASSUME NEW x \in OrderIds
                 PROVE  /\ Attempted(x, "succeeded")' <=> orders'[x] # None /\ orders'[x].status = "paid"
                        /\ Attempted(x, "failed")' => orders'[x] # None /\ orders'[x].status # "pending_payment"
                        /\ orders'[x] # None /\ orders'[x].status = "payment_failed" => Attempted(x, "failed")'
      BY DEF StatusTellsPayments
    <3>1. \A st : Attempted(x, st)' <=> Attempted(x, st) \/ (x = o /\ st = paid[r])
      BY <2>4 DEF Attempted
    <3>2. CASE x # o
      BY <1>0, <2>2, <3>1, <3>2 DEF TableInv, StatusTellsPayments
    <3>3. CASE x = o
      BY <2>1, <2>3, <2>5, <3>1, <3>3 DEF NextOrderStatus, PaymentStatuses
    <3> QED
      BY <3>2, <3>3
  <2> QED
    BY <1>1, <2>6, <2>7, <2>8 DEF TableInv
<1>5. CASE req[r].op = "cancel" /\ WriteCancel(r)
  <2> DEFINE o == req[r].order
  <2>1. /\ o \in OrderIds /\ orders[o] # None /\ orders[o] \in OrderRow
        /\ Payable(orders[o].status)
    BY <1>0, <1>5 DEF ReqInv, Holds, TypeOK
  <2>2. /\ orders'[o] = [orders[o] EXCEPT !.status = "cancelled"]
        /\ \A x \in OrderIds \ {o} : orders'[x] = orders[x]
    BY <1>0, <1>5, <2>1 DEF WriteCancel, TypeOK
  <2>3. orders'[o] # None /\ orders'[o].status = "cancelled"
    BY <2>1, <2>2, WriteEffect DEF OrderRow
  <2>4. RowsResolve' /\ AtMostOneCapture'
    BY <1>0, <1>2, <1>5 DEF WriteCancel, TableInv, RowsResolve, AtMostOneCapture
  <2>5. ~Attempted(o, "succeeded")
    BY <1>0, <2>1 DEF TableInv, StatusTellsPayments, Payable
  <2>6. \A x \in OrderIds :
          /\ Attempted(x, "succeeded")' <=> Attempted(x, "succeeded")
          /\ Attempted(x, "failed")' <=> Attempted(x, "failed")
    BY <1>5 DEF WriteCancel, Attempted
  <2>7. \A x \in OrderIds :
          /\ Attempted(x, "succeeded")' <=> orders'[x] # None /\ orders'[x].status = "paid"
          /\ Attempted(x, "failed")' => orders'[x] # None /\ orders'[x].status # "pending_payment"
          /\ orders'[x] # None /\ orders'[x].status = "payment_failed" => Attempted(x, "failed")'
    <3> SUFFICES ASSUME NEW x \in OrderIds
                 PROVE  /\ Attempted(x, "succeeded")' <=> orders'[x] # None /\ orders'[x].status = "paid"
                        /\ Attempted(x, "failed")' => orders'[x] # None /\ orders'[x].status # "pending_payment"
                        /\ orders'[x] # None /\ orders'[x].status = "payment_failed" => Attempted(x, "failed")'
      OBVIOUS
    <3>1. CASE x = o
      BY <2>3, <2>5, <2>6, <3>1
    <3>2. CASE x # o
      BY <1>0, <2>2, <2>6, <3>2 DEF TableInv, StatusTellsPayments
    <3> QED
      BY <3>1, <3>2
  <2>8. StatusTellsPayments'
    BY <2>7 DEF StatusTellsPayments
  <2> QED
    BY <1>1, <2>4, <2>8 DEF TableInv
<1> QED
  BY <1>3, <1>4, <1>5 DEF Write

-----------------------------------------------------------------------------
(* Every step preserves the invariant *)

\* A step that ends a request with an answer other than success.
LEMMA RefusalPreserves ==
  ASSUME IInv, TypeOK', NEW r \in Requests, pc[r] # "idle", UNCHANGED <<db, req, paid>>,
         pc'[r] \in {"release", "done"}, pc'[r] = "release" => req[r].op # "create",
         resp'[r].code \notin {"created", "ok"},
         \A s \in Requests \ {r} : pc'[s] = pc[s] /\ resp'[s] = resp[s],
         EndTx(r) \/ UNCHANGED rowLock
  PROVE  IInv'
<1>1. ReqInv(r) /\ req[r] # None
  BY DEF IInv, ReqInv, OpStep
<1>2. ReqInv(r)'
  BY <1>1, RefusedStep
<1>3. OthersStay(r)
  BY EndTxEffect DEF OthersStay, IInv
<1>4. PendingKeysDiffer'
  BY <1>3, FramePending DEF IInv
<1> QED
  BY <1>2, <1>3, <1>4, QuietStep

\* A step that answers r with anything but success preserves IInv.
LEMMA AnswerPreserves ==
  ASSUME IInv, TypeOK', NEW r \in Requests, pc[r] # "idle", UNCHANGED <<db, req, paid>>,
         NEW code, NEW x, Answer(r, code, x), code \notin {"created", "ok"},
         EndTx(r) \/ UNCHANGED rowLock
  PROVE  IInv'
<1>1. TypeOK
  BY DEF IInv
<1>2. /\ resp'[r] = [code |-> code, resource |-> x]
      /\ pc'[r] \in {"release", "done"}
      /\ pc'[r] = "release" => req[r].op # "create"
      /\ \A s \in Requests \ {r} : pc'[s] = pc[s] /\ resp'[s] = resp[s]
  BY <1>1, AnswerEffect
<1>3. resp'[r].code = code
  BY <1>2
<1> QED
  BY <1>2, <1>3, RefusalPreserves

\* A step that takes a request forward without writing tables or answering.
LEMMA AdvancePreserves ==
  ASSUME IInv, TypeOK', NEW r \in Requests, UNCHANGED <<db, req, resp>>,
         NEW step, Goto(r, step), step \notin {"idle", "release", "done"},
         pc[r] \notin {"idle", "release", "done"},
         \A s \in Requests \ {r} : /\ paid'[s] = paid[s]
                                   /\ \A o \in OrderIds : rowLock[o] = s => rowLock'[o] = s,
         OpStep(r)', Holds(r)', KeyFresh(r)', ReplayFound(r)', PendingKeysDiffer'
  PROVE  IInv'
<1>1. TypeOK /\ ReqInv(r)
  BY DEF IInv
<1>2. pc'[r] = step /\ OthersStay(r)
  BY <1>1, GotoEffect DEF OthersStay
<1>3. Unwritten(r)'
  BY <1>1, <1>2 DEF ReqInv, Unwritten, HasEffect, db
<1>4. EffectKeyed(r)' /\ AnswerKeyed(r)' /\ NamesOrder(r)'
  BY <1>1, <1>2, <1>3 DEF EffectKeyed, AnswerKeyed, Unwritten, Succeeded, ReqInv, NamesOrder, db
<1> QED
  BY <1>2, <1>3, <1>4, QuietStep DEF ReqInv

\* The arrival of a request preserves IInv.
LEMMA StartPreserves ==
  ASSUME IInv, TypeOK', NEW r \in Requests, NEW in \in Inputs,
         NEW o \in OrderIds \cup {None}, Start(r, in, o)
  PROVE  IInv'
<1>1. TypeOK /\ ReqInv(r) /\ pc[r] = "idle" /\ UNCHANGED db
  BY DEF IInv, Start
<1>2. /\ pc'[r] = IF in.op = "create" THEN "lookup" ELSE "lock"
      /\ req'[r] = [op |-> in.op, user |-> in.user, key |-> in.key,
                    body |-> in.body, spelling |-> in.spelling, order |-> o]
      /\ OthersStay(r)
  BY <1>1, GotoEffect DEF Start, OthersStay, TypeOK
<1>3. req'[r] # None /\ req'[r].op = in.op
  <2>1. req'[r] \in Request
    BY <1>2, ConstantsOK DEF Input, Request
  <2> QED
    BY <1>2, <2>1, NoneIsNoRecord
<1>5. OpStep(r)' /\ Holds(r)' /\ KeyFresh(r)' /\ ReplayFound(r)'
  <2>1. in.op # "create" => pc'[r] = "lock"
    BY <1>2
  <2>2. in.op = "create" => pc'[r] = "lookup"
    BY <1>2
  <2> QED
    BY <1>3, <2>1, <2>2 DEF OpStep, Holds, KeyFresh, ReplayFound
<1>6. ~HasEffect(r)' /\ ~Succeeded(r)' /\ resp'[r].code = "none"
  BY <1>1 DEF Start, ReqInv, Unwritten, HasEffect, Succeeded, db
<1>7. ReqInv(r)'
  <2>1. NamesOrder(r)'
    BY <1>1, <1>2 DEF Start, NamesOrder, db
  <2> QED
    BY <1>5, <1>6, <2>1 DEF ReqInv, Unwritten, EffectKeyed, AnswerKeyed
<1>8. PendingKeysDiffer'
  <2>1. pc'[r] # "commit"
    BY <1>2
  <2> QED
    BY <1>2, <2>1 DEF IInv, PendingKeysDiffer, OthersStay
<1> QED
  BY <1>1, <1>2, <1>7, <1>8, QuietStep

\* COMMIT preserves IInv.
LEMMA CommitPreserves ==
  ASSUME IInv, TypeOK', NEW r \in Requests, Commit(r)
  PROVE  IInv'
<1>1. TypeOK /\ pc[r] = "commit" /\ Write(r) /\ EndTx(r) /\ UNCHANGED <<req, paid>>
  BY DEF IInv, Commit, local
<1>2. PICK code, x : /\ Answer(r, code, x)
                     /\ req[r].op # "cancel" /\ code \in {"created", "ok"} => x = r
  BY DEF Commit
<1>3. /\ pc'[r] \in {"release", "done"}
      /\ pc'[r] = "release" => req[r].op # "create"
      /\ resp'[r] = [code |-> code, resource |-> x]
      /\ \A s \in Requests \ {r} : pc'[s] = pc[s] /\ resp'[s] = resp[s]
  BY <1>1, <1>2, AnswerEffect
<1>4. OthersStay(r)
  BY <1>1, <1>3, EndTxEffect DEF OthersStay
<1>5. ReqInv(r)'
  <2>1. req'[r] = req[r] /\ resp'[r].code = code /\ resp'[r].resource = x
    BY <1>1, <1>3
  <2> QED
    BY <1>1, <1>2, <1>3, <2>1, CommitSelf
<1>6. \A s \in Requests : ReqInv(s)'
  BY <1>1, <1>4, <1>5, CommitOthers
<1>7. PendingKeysDiffer'
  <2>1. req'[r] = req[r] /\ pc'[r] # "commit"
    BY <1>1, <1>3
  <2> QED
    BY <1>4, <2>1, FramePending DEF IInv
<1> QED
  BY <1>1, <1>6, <1>7, CommitTables DEF IInv

\* Every step of a handler preserves IInv.
LEMMA HandlePreserves ==
  ASSUME IInv, TypeOK', NEW r \in Requests, Handle(r)
  PROVE  IInv'
<1>0. TypeOK /\ ReqInv(r) /\ OpStep(r) /\ PendingKeysDiffer
  BY DEF IInv, ReqInv
<1>1. CASE AcquireLock(r)
  <2>1. UNCHANGED <<db, req, paid, rowLock>> /\ pc[r] = "lock" /\ req[r].op # "create"
    BY <1>0, <1>1 DEF AcquireLock, local, OpStep
  <2>2. CASE \E e \in lock : e.key = orderLockKey(req[r])
    <3>1. /\ resp' = [resp EXCEPT ![r] = [code |-> "busy", resource |-> None]]
          /\ Goto(r, "done")
      BY <1>1, <2>2, Zenon DEF AcquireLock
    <3>2. resp'[r].code = "busy" /\ \A s \in Requests \ {r} : resp'[s] = resp[s]
      BY <1>0, <3>1 DEF TypeOK
    <3> QED
      BY <1>0, <2>1, <3>1, <3>2, GotoEffect, RefusalPreserves
  <2>3. CASE ~ \E e \in lock : e.key = orderLockKey(req[r])
    <3>1. /\ Goto(r, IF req[r].op = "pay" THEN "lookup" ELSE "begin")
          /\ UNCHANGED resp
      BY <1>1, <2>3, Zenon DEF AcquireLock
    <3>2. PICK step \in {"lookup", "begin"} :
            Goto(r, step) /\ (step = "lookup" <=> req[r].op = "pay")
      BY <3>1
    <3>3. pc'[r] = step /\ OthersStay(r)
      BY <1>0, <2>1, <3>1, <3>2, GotoEffect DEF OthersStay
    <3>4. req[r].op \in Ops
      BY <1>0, <2>1 DEF OpStep, TypeOK, Request
    <3>5. OpStep(r)' /\ Holds(r)' /\ KeyFresh(r)' /\ ReplayFound(r)'
      BY <1>0, <2>1, <3>2, <3>3, <3>4 DEF OpStep, Holds, KeyFresh, ReplayFound, Ops
    <3>6. PendingKeysDiffer'
      BY <1>0, <2>1, <3>2, <3>3, FramePending
    <3> QED
      BY <2>1, <3>1, <3>2, <3>5, <3>6, AdvancePreserves
  <2> QED
    BY <2>2, <2>3
<1>2. CASE RejectInput(r)
  BY <1>2, AnswerPreserves DEF RejectInput, local
<1>3. CASE LookupKey(r)
  <2>1. UNCHANGED <<db, req, paid, rowLock>> /\ pc[r] = "lookup" /\ InputOK(req[r])
    BY <1>3 DEF LookupKey, local
  <2>2. CASE Answer(r, "key_conflict", None)
    BY <2>1, <2>2, AnswerPreserves
  <2>3. ASSUME NEW step \in {"replay", "begin"}, Goto(r, step), UNCHANGED resp,
               step = "replay" => \E row \in RowsFor(req[r]) : Matches(row, req[r])
        PROVE  IInv'
    <3>1. pc'[r] = step /\ OthersStay(r)
      BY <1>0, <2>1, <2>3, GotoEffect DEF OthersStay
    <3>2. OpStep(r)' /\ Holds(r)' /\ KeyFresh(r)'
      BY <1>0, <2>1, <3>1 DEF OpStep, Holds, KeyFresh, InputOK
    <3>3. ReplayFound(r)'
      BY <2>1, <2>3, <3>1 DEF ReplayFound, RowsFor, Matches, db
    <3>4. PendingKeysDiffer'
      BY <1>0, <2>1, <3>1, FramePending
    <3> QED
      BY <2>1, <2>3, <3>2, <3>3, <3>4, AdvancePreserves
  <2> QED
    BY <1>3, <2>2, <2>3 DEF LookupKey
<1>4. CASE Replay(r)
  <2>1. UNCHANGED <<db, req, paid, rowLock>> /\ pc[r] = "replay"
    BY <1>4 DEF Replay, local
  <2>2. PICK row \in RowsFor(req[r]) : Answer(r, row.code, row.resource)
    BY <1>4 DEF Replay
  <2>3. Matches(row, req[r])
    BY <1>0, <2>1, <2>2 DEF IInv, TableInv, UniqueRows, ReqInv, ReplayFound, RowsFor
  <2>4. /\ pc'[r] \in {"release", "done"}
        /\ pc'[r] = "release" => req[r].op # "create"
        /\ resp'[r] = [code |-> row.code, resource |-> row.resource]
        /\ OthersStay(r)
    BY <1>0, <2>1, <2>2, AnswerEffect DEF OthersStay
  <2>5. OpStep(r)' /\ Holds(r)' /\ KeyFresh(r)' /\ Unwritten(r)' /\ ReplayFound(r)'
    BY <1>0, <2>1, <2>4 DEF OpStep, Holds, KeyFresh, Unwritten, ReplayFound
  <2>6. EffectKeyed(r)' /\ NamesOrder(r)'
    BY <1>0, <2>1 DEF ReqInv, Unwritten, EffectKeyed, HasEffect, NamesOrder, db
  <2>7. AnswerKeyed(r)'
    BY <2>1, <2>2, <2>3, <2>4 DEF AnswerKeyed, RowsFor, Matches, db
  <2>8. PendingKeysDiffer'
    BY <1>0, <2>1, <2>4, FramePending
  <2> QED
    BY <2>1, <2>4, <2>5, <2>6, <2>7, <2>8, QuietStep DEF ReqInv
<1>5. CASE BeginTx(r)
  <2>1. /\ UNCHANGED <<db, req, paid, rowLock, resp>> /\ pc[r] = "begin"
        /\ Goto(r, IF req[r].op = "create" THEN "insert" ELSE "row")
    BY <1>5 DEF BeginTx
  <2>2. PICK step \in {"insert", "row"} :
          Goto(r, step) /\ (step = "insert" <=> req[r].op = "create")
    BY <2>1
  <2>3. pc'[r] = step /\ OthersStay(r)
    BY <1>0, <2>1, <2>2, GotoEffect DEF OthersStay
  <2>4. OpStep(r)' /\ Holds(r)' /\ KeyFresh(r)' /\ ReplayFound(r)'
    BY <1>0, <2>1, <2>2, <2>3 DEF OpStep, Holds, KeyFresh, ReplayFound, InputOK
  <2>5. PendingKeysDiffer'
    BY <1>0, <2>1, <2>3, FramePending
  <2> QED
    BY <2>1, <2>2, <2>4, <2>5, AdvancePreserves
<1>6. CASE LockOrder(r)
  <2>1. UNCHANGED <<db, req>> /\ pc[r] = "row" /\ RowFree(req[r])
    BY <1>6 DEF LockOrder
  <2>2. CASE Refusal(req[r]) # "none"
    <3>1. Answer(r, Refusal(req[r]), None) /\ UNCHANGED <<rowLock, paid>>
      BY <1>6, <2>2 DEF LockOrder
    <3>2. Refusal(req[r]) \notin {"created", "ok"}
      BY DEF Refusal
    <3> QED
      BY <2>1, <3>1, <3>2, AnswerPreserves
  <2>3. CASE Refusal(req[r]) = "none"
    <3> DEFINE o == req[r].order
    <3>1. /\ o \in OrderIds /\ rowLock[o] = None /\ orders[o] # None
          /\ Payable(orders[o].status) /\ req[r].op \in {"pay", "cancel"}
      BY <1>0, <2>1, <2>3
      DEF TypeOK, ReqInv, NamesOrder, OpStep, Refusal, RowFree, Request, Ops
    <3>2. /\ rowLock' = [rowLock EXCEPT ![o] = r] /\ UNCHANGED resp
          /\ \/ /\ req[r].op = "pay" /\ Goto(r, "insert")
                /\ \E st \in mockPayment : paid' = [paid EXCEPT ![r] = st]
             \/ req[r].op = "cancel" /\ Goto(r, "commit") /\ UNCHANGED paid
      BY <1>6, <2>3, <3>1 DEF LockOrder
    <3>3. PICK step \in {"insert", "commit"} :
            Goto(r, step) /\ (step = "insert" <=> req[r].op = "pay")
      BY <3>2
    <3>4. \A s \in Requests \ {r} : /\ paid'[s] = paid[s]
                                    /\ \A x \in OrderIds : rowLock[x] = s => rowLock'[x] = s
      BY <1>0, <3>1, <3>2, ConstantsOK DEF TypeOK
    <3>5. /\ rowLock'[o] = r
          /\ req[r].op = "pay" => paid'[r] \in PaymentStatuses
      BY <1>0, <3>1, <3>2 DEF TypeOK, mockPayment
    <3>6. pc'[r] = step /\ OthersStay(r)
      BY <1>0, <2>1, <3>2, <3>3, <3>4, GotoEffect DEF OthersStay
    <3>7. OpStep(r)'
      BY <1>0, <2>1, <3>1, <3>3, <3>6 DEF OpStep, InputOK
    <3>8. Holds(r)'
      BY <2>1, <3>1, <3>5 DEF Holds, Payable, db
    <3>9. KeyFresh(r)' /\ ReplayFound(r)'
      BY <2>1, <3>1, <3>3, <3>6 DEF KeyFresh, ReplayFound
    <3>10. PendingKeysDiffer'
      BY <1>0, <2>1, <3>1, <3>3, <3>6, FramePending
    <3> QED
      BY <2>1, <3>2, <3>3, <3>4, <3>7, <3>8, <3>9, <3>10, AdvancePreserves
  <2> QED
    BY <2>2, <2>3
<1>7. CASE InsertKey(r)
  <2>1. UNCHANGED <<db, req, paid>> /\ pc[r] = "insert" /\ ~KeyHeldByOther(r)
    BY <1>7 DEF InsertKey, local
  <2>2. CASE RowsFor(req[r]) # {}
    BY <1>7, <2>1, <2>2, AnswerPreserves DEF InsertKey
  <2>3. CASE RowsFor(req[r]) = {}
    <3>1. Goto(r, "commit") /\ UNCHANGED <<rowLock, resp>>
      BY <1>7, <2>3 DEF InsertKey
    <3>2. pc'[r] = "commit" /\ OthersStay(r)
      BY <1>0, <2>1, <3>1, GotoEffect DEF OthersStay
    <3>3. OpStep(r)' /\ ReplayFound(r)'
      BY <1>0, <2>1, <3>2 DEF OpStep, ReplayFound, InputOK
    <3>4. Holds(r)'
      BY <1>0, <2>1, <3>1, <3>2 DEF ReqInv, Holds, Payable, db
    <3>5. KeyFresh(r)'
      BY <2>1, <2>3 DEF KeyFresh, RowsFor, db
    <3>6. PendingKeysDiffer'
      BY <1>0, <2>1, <3>2 DEF PendingKeysDiffer, KeyHeldByOther, OthersStay
    <3> QED
      BY <2>1, <3>1, <3>3, <3>4, <3>5, <3>6, AdvancePreserves
  <2> QED
    BY <2>2, <2>3
<1>8. CASE Commit(r)
  BY <1>8, CommitPreserves
<1>9. CASE ReleaseLock(r)
  <2>1. /\ UNCHANGED <<db, req, paid, rowLock, resp>> /\ pc[r] = "release"
        /\ Goto(r, "done")
    BY <1>9 DEF ReleaseLock, local
  <2>2. pc'[r] = "done" /\ OthersStay(r)
    BY <1>0, <2>1, GotoEffect DEF OthersStay
  <2>3. OpStep(r)' /\ Holds(r)' /\ KeyFresh(r)' /\ Unwritten(r)' /\ ReplayFound(r)'
    BY <1>0, <2>1, <2>2 DEF OpStep, Holds, KeyFresh, Unwritten, ReplayFound
  <2>4. EffectKeyed(r)' /\ AnswerKeyed(r)' /\ NamesOrder(r)'
    BY <1>0, <2>1
    DEF ReqInv, EffectKeyed, HasEffect, AnswerKeyed, Keyed, Succeeded, RowsFor, Matches,
        NamesOrder, db
  <2>5. PendingKeysDiffer'
    BY <1>0, <2>1, <2>2, FramePending
  <2> QED
    BY <2>1, <2>2, <2>3, <2>4, <2>5, QuietStep DEF ReqInv
<1> QED
  BY <1>1, <1>2, <1>3, <1>4, <1>5, <1>6, <1>7, <1>8, <1>9 DEF Handle

\* Every failure preserves IInv.
LEMMA FailPreserves ==
  ASSUME IInv, TypeOK', NEW r \in Requests, Fail(r)
  PROVE  IInv'
<1>0. TypeOK /\ OpStep(r) /\ PendingKeysDiffer
  BY DEF IInv, ReqInv
<1>1. CASE AcquireFails(r)
  <2>1. /\ UNCHANGED <<db, req, paid, rowLock>> /\ pc[r] = "lock" /\ Goto(r, "done")
        /\ \E code \in {"internal", "busy"} :
             resp' = [resp EXCEPT ![r] = [code |-> code, resource |-> None]]
    BY <1>1 DEF AcquireFails, local
  <2>2. /\ resp'[r].code \in {"internal", "busy"}
        /\ \A s \in Requests \ {r} : resp'[s] = resp[s]
    BY <1>0, <2>1 DEF TypeOK
  <2> QED
    BY <1>0, <2>1, <2>2, GotoEffect, RefusalPreserves
<1>2. CASE LookupFails(r)
  <2>1. /\ UNCHANGED <<db, req, paid, rowLock, resp>> /\ pc[r] = "lookup"
        /\ InputOK(req[r]) /\ Goto(r, "begin")
    BY <1>2 DEF LookupFails, local
  <2>2. pc'[r] = "begin" /\ OthersStay(r)
    BY <1>0, <2>1, GotoEffect DEF OthersStay
  <2>3. OpStep(r)' /\ Holds(r)' /\ KeyFresh(r)' /\ ReplayFound(r)'
    BY <1>0, <2>1, <2>2 DEF OpStep, Holds, KeyFresh, ReplayFound, InputOK
  <2>4. PendingKeysDiffer'
    BY <1>0, <2>1, <2>2, FramePending
  <2> QED
    BY <2>1, <2>3, <2>4, AdvancePreserves
<1>3. CASE DbFails(r)
  <2>1. UNCHANGED <<db, req, paid>> /\ pc[r] # "idle" /\ EndTx(r)
    BY <1>3 DEF DbFails, local
  <2>2. PICK code \in {"not_found", "internal"} : Answer(r, code, None)
    BY <1>3 DEF DbFails
  <2> QED
    BY <2>1, <2>2, AnswerPreserves
<1>4. CASE Crash(r)
  <2>1. /\ UNCHANGED <<db, req, paid>> /\ pc[r] # "idle" /\ EndTx(r) /\ Goto(r, "done")
        /\ resp' = [resp EXCEPT ![r] = [code |-> "lost", resource |-> None]]
    BY <1>4 DEF Crash, local
  <2>2. resp'[r].code = "lost" /\ \A s \in Requests \ {r} : resp'[s] = resp[s]
    BY <1>0, <2>1 DEF TypeOK
  <2> QED
    BY <1>0, <2>1, <2>2, GotoEffect, RefusalPreserves
<1> QED
  BY <1>1, <1>2, <1>3, <1>4 DEF Fail

\* Stuttering preserves IInv.
LEMMA StutterPreserves ==
  ASSUME IInv, TypeOK', UNCHANGED <<db, rowLock, pc, req, paid, resp>>
  PROVE  IInv'
<1>1. ASSUME NEW r \in Requests  PROVE ReqInv(r)'
  BY DEF IInv, ReqInv, OpStep, InputOK, Holds, Payable, NamesOrder, KeyFresh, RowsFor, Unwritten,
     HasEffect, EffectKeyed, ReplayFound, Matches, AnswerKeyed, Keyed, Succeeded, db
<1>2. PendingKeysDiffer'
  BY DEF IInv, PendingKeysDiffer
<1> QED
  BY <1>1, <1>2, FrameTables DEF IInv

-----------------------------------------------------------------------------
(* The theorems *)

\* IInv is an invariant of the service.
THEOREM Invariance == Spec => []IInv
<1>1. Init => IInv
  <2> SUFFICES ASSUME Init  PROVE IInv
    OBVIOUS
  <2>1. TypeOK
    BY ConstantsOK DEF Init, TypeOK, Steps, Codes
  <2>2. ASSUME NEW r \in Requests  PROVE ReqInv(r)
    BY DEF Init, ReqInv, OpStep, Holds, NamesOrder, KeyFresh, Unwritten, HasEffect,
       EffectKeyed, ReplayFound, AnswerKeyed, Keyed
  <2>3. PendingKeysDiffer /\ TableInv
    BY DEF Init, PendingKeysDiffer, TableInv, StatusTellsPayments, Attempted,
       AtMostOneCapture, UniqueRows, RowsResolve
  <2> QED
    BY <2>1, <2>2, <2>3 DEF IInv
<1>2. IInv /\ [Next]_vars => IInv'
  <2> SUFFICES ASSUME IInv, [Next]_vars  PROVE IInv'
    OBVIOUS
  <2>1. TypeOK'
    BY TypeStep DEF IInv, ReqInv
  <2>2. CASE \E r \in Requests, in \in Inputs, o \in OrderIds \cup {None} : Start(r, in, o)
    BY <2>1, <2>2, StartPreserves
  <2>3. CASE \E r \in Requests : Handle(r)
    BY <2>1, <2>3, HandlePreserves
  <2>4. CASE \E r \in Requests : Fail(r)
    BY <2>1, <2>4, FailPreserves
  <2>5. CASE \E e \in lock : ExpireLock(e)
    BY <2>1, <2>5, StutterPreserves DEF ExpireLock, local
  <2>6. CASE UNCHANGED vars
    BY <2>1, <2>6, StutterPreserves DEF vars, db
  <2> QED
    BY <2>2, <2>3, <2>4, <2>5, <2>6 DEF Next, Terminated
<1> QED
  BY <1>1, <1>2, PTL DEF Spec

\* Every variable keeps its type, through every step and failure.
THEOREM TypeCorrect == Spec => []TypeOK
<1>1. IInv => TypeOK
  BY DEF IInv
<1> QED
  BY <1>1, Invariance, PTL

\* No order is charged twice: PayOrder re-reads the row under FOR UPDATE, so this
\* does not rest on the Redis lock, its TTL or the spelling of the id.
THEOREM NoDoubleCapture == Spec => []AtMostOneCapture
<1>1. IInv => AtMostOneCapture
  BY DEF IInv, TableInv
<1> QED
  BY <1>1, Invariance, PTL

\* The status column always agrees with the payments table.
THEOREM StatusAgrees == Spec => []StatusTellsPayments
<1>1. IInv => StatusTellsPayments
  BY DEF IInv, TableInv
<1> QED
  BY <1>1, Invariance, PTL

\* An idempotency key never has two effects.
THEOREM OneEffectPerKey == Spec => []KeyHasOneEffect
<1>1. IInv => KeyHasOneEffect
  <2> SUFFICES ASSUME IInv, NEW r \in Requests, NEW s \in Requests, HasEffect(r), HasEffect(s),
                      req[r].user = req[s].user, req[r].key = req[s].key
               PROVE  r = s
    BY DEF KeyHasOneEffect
  <2>1. PICK x \in RowsFor(req[r]) : x.resource = r
    BY DEF IInv, ReqInv, EffectKeyed
  <2>2. PICK y \in RowsFor(req[s]) : y.resource = s
    BY DEF IInv, ReqInv, EffectKeyed
  <2>3. x = y
    BY <2>1, <2>2 DEF IInv, TableInv, UniqueRows, RowsFor
  <2> QED
    BY <2>1, <2>2, <2>3
<1> QED
  BY <1>1, Invariance, PTL

\* Two successful answers to one key are answers to one request and name one
\* resource.
THEOREM OneAnswerPerKey == Spec => []SameKeySameAnswer
<1>1. IInv => SameKeySameAnswer
  <2> SUFFICES ASSUME IInv, NEW r \in Requests, NEW s \in Requests,
                      Keyed(r), Keyed(s), Succeeded(r), Succeeded(s),
                      req[r].user = req[s].user, req[r].key = req[s].key
               PROVE  /\ resp[r].resource = resp[s].resource
                      /\ Fingerprint(req[r]) = Fingerprint(req[s])
    BY DEF SameKeySameAnswer
  <2>1. PICK x \in RowsFor(req[r]) : Matches(x, req[r]) /\ x.resource = resp[r].resource
    BY DEF IInv, ReqInv, AnswerKeyed
  <2>2. PICK y \in RowsFor(req[s]) : Matches(y, req[s]) /\ y.resource = resp[s].resource
    BY DEF IInv, ReqInv, AnswerKeyed
  <2>3. x = y
    BY <2>1, <2>2 DEF IInv, TableInv, UniqueRows, RowsFor
  <2> QED
    BY <2>1, <2>2, <2>3 DEF Matches
<1> QED
  BY <1>1, Invariance, PTL

\* What a success answer names is in the tables, then and for good.
THEOREM AnswersAreDurable == Spec => []SuccessIsDurable
<1>1. IInv => SuccessIsDurable
  <2> SUFFICES ASSUME IInv, NEW r \in Requests, Keyed(r), Succeeded(r)
               PROVE  IF req[r].op = "create"
                      THEN /\ orders[resp[r].resource] # None
                           /\ orders[resp[r].resource].user = req[r].user
                      ELSE \E p \in payments :
                             p.id = resp[r].resource /\ p.order = req[r].order
    BY DEF SuccessIsDurable
  <2>1. PICK x \in RowsFor(req[r]) : Matches(x, req[r]) /\ x.resource = resp[r].resource
    BY DEF IInv, ReqInv, AnswerKeyed
  <2>2. x \in idem /\ x.user = req[r].user /\ x.request = Fingerprint(req[r])
    BY <2>1 DEF RowsFor, Matches
  <2>3. CASE req[r].op = "create"
    <3>1. x.request.path = "orders"
      BY <2>2, <2>3 DEF Fingerprint
    <3> QED
      BY <2>1, <2>2, <2>3, <3>1 DEF IInv, TableInv, RowsResolve
  <2>4. CASE req[r].op # "create"
    <3>1. x.request.path # "orders" /\ x.request.hash = req[r].order
      BY <2>2, <2>4 DEF Fingerprint
    <3>2. \E p \in payments : p.id = x.resource /\ p.order = x.request.hash
      BY <2>2, <3>1 DEF IInv, TableInv, RowsResolve
    <3> QED
      BY <2>1, <2>4, <3>1, <3>2
  <2> QED
    BY <2>3, <2>4
<1> QED
  BY <1>1, Invariance, PTL

\* The release script, run by a request whose lock expired long ago, leaves the
\* lock of whoever took it over: what a request removes when it ends is its own.
THEOREM OwnersRelease == Spec => OnlyOwnerReleases
<1>1. IInv /\ [Next]_vars =>
        [\A r \in Requests : pc[r] = "release" /\ pc'[r] = "done" =>
           {e \in lock : e.token # r} \subseteq lock']_vars
  <2> SUFFICES ASSUME IInv, Next, NEW r \in Requests, pc[r] = "release", pc'[r] = "done",
                      NEW e \in lock, e.token # r
               PROVE  e \in lock'
    OBVIOUS
  <2>1. pc \in [Requests -> Steps]
    BY DEF IInv, TypeOK
  <2>2. ASSUME NEW s \in Requests, NEW in \in Inputs, NEW o \in OrderIds \cup {None},
               Start(s, in, o)
        PROVE  FALSE
    BY <2>1, <2>2 DEF Start, Goto
  <2>3. ASSUME NEW s \in Requests, Handle(s) PROVE e \in lock'
    <3>1. CASE ReleaseLock(s)
      <4>1. s = r
        BY <2>1, <3>1 DEF ReleaseLock, Goto
      <4> QED
        BY <3>1, <4>1 DEF ReleaseLock, Released
    <3>2. CASE ~ReleaseLock(s)
      <4>1. pc[s] # "release"
        BY <2>3, <3>2
        DEF Handle, AcquireLock, RejectInput, LookupKey, Replay, BeginTx, LockOrder,
            InsertKey, Commit
      <4>2. \E step : Goto(s, step)
        BY <2>3, <3>2
        DEF Handle, AcquireLock, RejectInput, LookupKey, Replay, BeginTx, LockOrder,
            InsertKey, Commit, Answer, Goto
      <4> QED
        BY <2>1, <4>1, <4>2 DEF Goto
    <3> QED
      BY <3>1, <3>2
  <2>4. ASSUME NEW s \in Requests, Fail(s) PROVE e \in lock'
    <3>1. CASE Crash(s)
      BY <3>1 DEF Crash
    <3>2. CASE ~Crash(s)
      <4>1. pc[s] # "release"
        BY <2>4, <3>2 DEF Fail, AcquireFails, LookupFails, DbFails, InTx
      <4>2. \E step : Goto(s, step)
        BY <2>4, <3>2 DEF Fail, AcquireFails, LookupFails, DbFails, Answer, Goto
      <4> QED
        BY <2>1, <4>1, <4>2 DEF Goto
    <3> QED
      BY <3>1, <3>2
  <2>5. ASSUME NEW f \in lock, ExpireLock(f) PROVE FALSE
    BY <2>5 DEF ExpireLock
  <2>6. CASE Terminated
    BY <2>6 DEF Terminated, vars
  <2> QED
    BY <2>2, <2>3, <2>4, <2>5, <2>6 DEF Next
<1> QED
  BY <1>1, Invariance, PTL DEF Spec, OnlyOwnerReleases
=============================================================================
