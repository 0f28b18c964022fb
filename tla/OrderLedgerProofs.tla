-------------------------- MODULE OrderLedgerProofs ---------------------------
(***************************************************************************)
(* The order service implements the ledger: under the mapping of the       *)
(* instance Ledger, COMMIT is one of the ledger's four steps and every     *)
(* other step of a request changes nothing the ledger shows.               *)
(***************************************************************************)
EXTENDS OrderServiceProofs

USE DEF OrderIds

\* The images of the tables under the refinement mapping.
Types(q)   == [i \in 1..Len(q) |-> q[i].type]
ledgerBar  == [o \in OrderIds |-> Types(outbox[o])]
StatusOf(o) == IF orders[o] = None THEN "absent" ELSE orders[o].status
statusBar  == [o \in OrderIds |-> StatusOf(o)]
spentBar   == {<<row.user, row.key>> : row \in idem}

\* Appending an event appends its type.
LEMMA TypesAppend ==
  ASSUME NEW q \in Seq(Event), NEW e \in Event
  PROVE  Types(Append(q, e)) = Append(Types(q), e.type)
<1>1. Append(q, e) \in Seq(Event) /\ Len(Append(q, e)) = Len(q) + 1 /\ Len(q) \in Nat
  OBVIOUS
<1>2. Types(q) \in Seq({x.type : x \in Event}) /\ Len(Types(q)) = Len(q)
  BY DEF Types
<1>3. \A i \in 1..Len(q) + 1 : Append(q, e)[i].type = Append(Types(q), e.type)[i]
  BY <1>1, <1>2 DEF Types
<1>4. Len(Append(Types(q), e.type)) = Len(q) + 1
  BY <1>2
<1>5. DOMAIN Append(Types(q), e.type) = 1..Len(q) + 1
  BY <1>2, <1>4
<1> QED
  BY <1>1, <1>2, <1>3, <1>5 DEF Types

\* Recording an outbox row of order o and a new status is Record in the ledger.
LEMMA RecordBar ==
  ASSUME TypeOK, NEW o \in OrderIds, NEW e \in Event,
         outbox' = [outbox EXCEPT ![o] = Append(@, e)],
         NEW s, orders'[o] # None, orders'[o].status = s,
         \A x \in OrderIds \ {o} : orders'[x] = orders[x]
  PROVE  /\ ledgerBar' = [ledgerBar EXCEPT ![o] = Append(@, e.type)]
         /\ statusBar' = [statusBar EXCEPT ![o] = s]
<1>1. outbox \in [OrderIds -> Seq(Event)]
  BY DEF TypeOK
<1>2. Types(outbox'[o]) = Append(Types(outbox[o]), e.type)
  BY <1>1, TypesAppend
<1>3. \A x \in OrderIds \ {o} : outbox'[x] = outbox[x]
  BY <1>1
<1>4. ledgerBar' = [ledgerBar EXCEPT ![o] = Append(@, e.type)]
  <2>1. ledgerBar' = [x \in OrderIds |-> Types(outbox'[x])]
    BY DEF ledgerBar, Types
  <2>2. \A x \in OrderIds \ {o} : Types(outbox'[x]) = Types(outbox[x])
    BY <1>3
  <2> QED
    BY <1>2, <2>1, <2>2 DEF ledgerBar
<1>5. statusBar' = [statusBar EXCEPT ![o] = s]
  BY DEF statusBar, StatusOf
<1> QED
  BY <1>4, <1>5

\* Writing a fresh idempotency row spends a claim.
LEMMA SpendBar ==
  ASSUME NEW row, idem' = idem \cup {row}, row.user \in Users, row.key \in Keys,
         \A x \in idem : ~(x.user = row.user /\ x.key = row.key)
  PROVE  \E c \in Claims \ spentBar : spentBar' = spentBar \cup {c}
<1>1. <<row.user, row.key>> \in Claims
  BY DEF Claims
<1>2. <<row.user, row.key>> \notin spentBar
  BY DEF spentBar
<1>3. spentBar' = spentBar \cup {<<row.user, row.key>>}
  BY DEF spentBar
<1> QED
  BY <1>1, <1>2, <1>3

\* A step that leaves the tables alone leaves the ledger alone.
LEMMA QuietBar ==
  ASSUME UNCHANGED db
  PROVE  UNCHANGED <<ledgerBar, statusBar, spentBar>>
BY DEF db, ledgerBar, statusBar, StatusOf, spentBar

\* COMMIT of a create, a payment or a cancellation is one step of the ledger.
LEMMA CommitBar ==
  ASSUME IInv, NEW r \in Requests, Commit(r)
  PROVE  Ledger!Next
<1>1. /\ TypeOK /\ ReqInv(r) /\ pc[r] = "commit" /\ Write(r)
      /\ req[r] \in Request /\ createdAt[r] \in Nat
      /\ orders[r] = None
  BY DEF IInv, Commit, ReqInv, OpStep, Unwritten, HasEffect, TypeOK
<1>2. ASSUME NEW o \in OrderIds, NEW e \in Event, NEW s,
             outbox' = [outbox EXCEPT ![o] = Append(@, e)],
             orders'[o] # None, orders'[o].status = s,
             \A x \in OrderIds \ {o} : orders'[x] = orders[x]
      PROVE  Ledger!Record(o, e.type, s)
  BY <1>1, <1>2, RecordBar DEF Ledger!Record, ledgerBar, statusBar, Types, StatusOf
<1>3. ASSUME req[r].op # "cancel", NEW code, idem' = idem \cup {KeyRowOf(r, code)}
      PROVE  Ledger!Spend
  <2>1. KeyRowOf(r, code).user = req[r].user /\ KeyRowOf(r, code).key = req[r].key
    BY DEF KeyRowOf
  <2>2. req[r].user \in Users /\ req[r].key \in Keys
    BY <1>1, <1>3 DEF ReqInv, OpStep, InputOK, Request
  <2>3. \A x \in idem : ~(x.user = req[r].user /\ x.key = req[r].key)
    BY <1>1, <1>3 DEF ReqInv, KeyFresh, RowsFor
  <2>4. \E c \in Claims \ spentBar : spentBar' = spentBar \cup {c}
    BY <1>3, <2>1, <2>2, <2>3, SpendBar
  <2> QED
    BY <2>4 DEF Ledger!Spend, spentBar
<1>4. ASSUME NEW type \in EventTypes, NEW a \in Requests
      PROVE  EventOf(r, type, a) \in Event /\ EventOf(r, type, a).type = type
  BY <1>1 DEF EventOf, Event
<1>5. ASSUME NEW o \in OrderIds, NEW s \in Statuses, req[r].op # "create", o = req[r].order,
             orders' = [orders EXCEPT ![o].status = s]
      PROVE  /\ orders'[o] # None /\ orders'[o].status = s
             /\ \A x \in OrderIds \ {o} : orders'[x] = orders[x]
  <2>1. orders[o] \in OrderRow /\ orders[o] # None
    BY <1>1, <1>5 DEF TypeOK, ReqInv, Holds
  <2>2. orders'[o] = [orders[o] EXCEPT !.status = s]
    BY <1>1, <1>5 DEF TypeOK
  <2>3. orders'[o].status = s
    BY <2>1, <2>2 DEF OrderRow
  <2>4. orders'[o] # None
    BY <1>1, <2>1, WriteEffect
  <2> QED
    BY <1>1, <1>5, <2>3, <2>4 DEF TypeOK
<1>6. CASE req[r].op = "create" /\ WriteCreate(r)
  <2>1. /\ orders'[r] = [user |-> req[r].user, body |-> req[r].body, status |-> "pending_payment"]
        /\ \A x \in OrderIds \ {r} : orders'[x] = orders[x]
    BY <1>1, <1>6 DEF WriteCreate, TypeOK
  <2>2. orders'[r] # None /\ orders'[r].status = "pending_payment"
    BY <1>1, <1>6, <2>1, NoneIsNoRecord
    DEF OrderRow, Statuses, Request, ReqInv, OpStep, InputOK
  <2>3. Ledger!Record(r, "order.created", "pending_payment")
    BY <1>2, <1>4, <1>6, <2>1, <2>2 DEF WriteCreate, EventTypes
  <2>4. Ledger!Spend
    BY <1>3, <1>6 DEF WriteCreate
  <2>5. Ledger!Create(r)
    BY <1>1, <2>3, <2>4 DEF Ledger!Create
  <2> QED
    BY <2>5 DEF Ledger!Next
<1>7. CASE req[r].op = "pay" /\ WritePay(r)
  <2>0. PICK o \in OrderIds : o = req[r].order
    BY <1>1, <1>7 DEF ReqInv, Holds
  <2>1. /\ orders[o] # None /\ Payable(orders[o].status)
        /\ paid[r] \in PaymentStatuses
    BY <1>1, <1>7, <2>0 DEF ReqInv, Holds
  <2>2. PICK type \in EventTypes, st \in Statuses :
          /\ type = PaymentEvent(paid[r]) /\ st = NextOrderStatus(paid[r])
          /\ \/ type = "payment.succeeded" /\ st = "paid"
             \/ type = "payment.failed" /\ st = "payment_failed"
    BY <2>1 DEF NextOrderStatus, PaymentEvent, PaymentStatuses, Statuses, EventTypes
  <2>3. /\ orders'[o] # None /\ orders'[o].status = st
        /\ \A x \in OrderIds \ {o} : orders'[x] = orders[x]
    BY <1>5, <1>7, <2>0, <2>2 DEF WritePay
  <2>4. Ledger!Record(o, type, st)
    <3>1. outbox' = [outbox EXCEPT ![o] = Append(@, EventOf(r, type, r))]
      BY <1>7, <2>0, <2>2 DEF WritePay
    <3> QED
      BY <1>2, <1>4, <2>3, <3>1
  <2>5. Ledger!Spend
    BY <1>3, <1>7 DEF WritePay
  <2>6. Ledger!Capture(o) \/ Ledger!Decline(o)
    BY <2>1, <2>2, <2>4, <2>5
    DEF Ledger!Capture, Ledger!Decline, Ledger!Open, Payable
  <2> QED
    BY <2>1, <2>6 DEF Ledger!Next
<1>8. CASE req[r].op = "cancel" /\ WriteCancel(r)
  <2>0. PICK o \in OrderIds : o = req[r].order
    BY <1>1, <1>8 DEF ReqInv, Holds
  <2>1. orders[o] # None /\ Payable(orders[o].status)
    BY <1>1, <1>8, <2>0 DEF ReqInv, Holds
  <2>2. /\ orders'[o] # None /\ orders'[o].status = "cancelled"
        /\ \A x \in OrderIds \ {o} : orders'[x] = orders[x]
    BY <1>5, <1>8, <2>0 DEF WriteCancel, Statuses
  <2>3. Ledger!Record(o, "order.cancelled", "cancelled")
    BY <1>2, <1>4, <1>8, <2>0, <2>2 DEF WriteCancel, EventTypes
  <2>4. Ledger!Cancel(o)
    BY <1>8, <2>1, <2>3 DEF WriteCancel, Ledger!Cancel, Ledger!Open, Payable
  <2> QED
    BY <2>1, <2>4 DEF Ledger!Next
<1> QED
  BY <1>1, <1>6, <1>7, <1>8 DEF Write

\* Whatever the interleaving and the failures, the committed tables move as the
\* atomic ledger does: the service implements OrderLedger.
THEOREM Refinement == Spec => ImplementsLedger
<1>1. Init => Ledger!Init
  BY DEF Init, Ledger!Init
<1>2. IInv /\ [Next]_vars => [Ledger!Next]_Ledger!ledgerVars
  <2> SUFFICES ASSUME IInv, [Next]_vars  PROVE [Ledger!Next]_Ledger!ledgerVars
    OBVIOUS
  <2>1. ASSUME UNCHANGED db  PROVE UNCHANGED Ledger!ledgerVars
    BY <2>1, QuietBar DEF Ledger!ledgerVars, ledgerBar, statusBar, spentBar, Types, StatusOf
  <2>2. ASSUME NEW r \in Requests, Commit(r)  PROVE Ledger!Next
    BY <2>2, CommitBar
  <2>3. (\E r \in Requests : Commit(r)) \/ UNCHANGED db
    BY DEF Next, Handle, Fail, Terminated, Start, AcquireLock, RejectInput, LookupKey, Replay,
       BeginTx, LockOrder, InsertKey, ReleaseLock, AcquireFails, LookupFails, DbFails, Crash,
       ExpireLock, vars, db
  <2> QED
    BY <2>1, <2>2, <2>3
<1> QED
  BY <1>1, <1>2, Invariance, PTL DEF Spec, ImplementsLedger, Ledger!Spec
=============================================================================
