---------------------------- MODULE OrderService -----------------------------
(***************************************************************************)
(* The HTTP order endpoints (create, pay, cancel) running concurrently     *)
(* against one PostgreSQL database and one Redis, as written in            *)
(* internal/api/order_handler.go, internal/service/order_service.go,       *)
(* internal/store and internal/distributedlock.                            *)
(*                                                                         *)
(* A request is a process.  Its steps are the points at which it touches   *)
(* shared state: the Redis SETNX, the autocommitted idempotency lookup,    *)
(* BEGIN, SELECT ... FOR UPDATE, the INSERT guarded by the unique          *)
(* constraint, COMMIT, and the release script.  Statements between those   *)
(* points only touch the private part of an open transaction and belong to *)
(* the step that follows them.                                             *)
(*                                                                         *)
(* A request generates at most one order id and one payment id (a UUID),   *)
(* so the request itself stands for the id it would generate: order r is   *)
(* the order created by request r.                                         *)
(***************************************************************************)
EXTENDS Naturals, Sequences, FiniteSets

CONSTANTS
  Requests,   \* HTTP requests that may arrive
  Users,      \* authenticated user ids
  Admins,     \* the users whose token carries role "admin"
  Keys,       \* non-blank Idempotency-Key values
  Bodies,     \* valid order bodies, told apart by their request hash
  Spellings,  \* textual forms of one UUID in a URL (lower case, upper case)
  Inputs,     \* the requests clients send: a subset of Input
  MaxConns,   \* pgxpool MaxConns of the API process
  Faults,     \* which failures happen: "db", "redis", "crash", "expiry"
  None        \* no key, no valid body, no such order, no holder, no row

Ops == {"create", "pay", "cancel"}

Input == [op : Ops, user : Users, key : Keys \cup {None},
          body : Bodies \cup {None}, spelling : Spellings]

ASSUME ConstantsOK ==
  /\ Admins \subseteq Users
  /\ Inputs \subseteq Input
  /\ MaxConns \in Nat \ {0}
  /\ IsFiniteSet(Requests)
  /\ Faults \subseteq {"db", "redis", "crash", "expiry"}
  /\ None \notin Requests \cup Users \cup Keys \cup Bodies \cup Spellings

VARIABLES
  \* PostgreSQL, committed rows
  orders,     \* orders[o]: the row of order o, or None
  payments,   \* the rows of payments
  idem,       \* the rows of idempotency_keys
  outbox,     \* outbox[o]: the outbox rows with partition_key o, in commit order
  \* PostgreSQL, transient
  rowLock,    \* rowLock[o]: the transaction holding order o FOR UPDATE, or None
  clock,      \* the transaction timestamp NOW() will next return
  \* Redis
  lock,       \* the set of lock:order:<id> keys, each with its token
  \* the request processes
  pc, req, createdAt, paid, resp

db     == <<orders, payments, idem, outbox>>
local  == <<req, createdAt, paid>>
vars   == <<orders, payments, idem, outbox, rowLock, clock, lock,
            pc, req, createdAt, paid, resp>>

-----------------------------------------------------------------------------
(* Types *)

Statuses        == {"pending_payment", "paid", "payment_failed", "cancelled"}
PaymentStatuses == {"succeeded", "failed"}
EventTypes      == {"order.created", "order.cancelled",
                    "payment.succeeded", "payment.failed"}
Steps           == {"idle", "lock", "lookup", "replay", "begin", "row",
                    "insert", "commit", "release", "done"}
Codes           == {"none", "created", "ok", "bad_request", "key_conflict", "busy",
                    "not_found", "forbidden", "invalid_status", "internal", "lost"}

OrderIds == Requests
Request  == [op : Ops, user : Users, key : Keys \cup {None},
             body : Bodies \cup {None}, spelling : Spellings,
             order : OrderIds \cup {None}]
OrderRow == [user : Users, status : Statuses, body : Bodies]
Event    == [type : EventTypes, aggregate : Requests, createdAt : Nat]
Payment  == [id : Requests, order : OrderIds, status : PaymentStatuses]
LockKey  == [order : OrderIds \cup {None}, spelling : Spellings]

\* Method, path and request hash of a request, as far as they can differ: /orders,
\* or /orders/{id}/pay, which holds the order id as the client spelled it.
Fingerprint(q) ==
  IF q.op = "create"
  THEN [path |-> "orders", hash |-> q.body, spelling |-> None]
  ELSE [path |-> "pay", hash |-> q.order, spelling |-> q.spelling]

Stored   == [path : {"orders", "pay"},
             hash : Bodies \cup OrderIds \cup {None}, spelling : Spellings \cup {None}]
IdemRow  == [user : Users, key : Keys, request : Stored,
             code : {"created", "ok"}, resource : Requests]

ASSUME NoneIsNoRecord == None \notin OrderRow \cup Request

TypeOK ==
  /\ orders    \in [OrderIds -> OrderRow \cup {None}]
  /\ payments  \in SUBSET Payment
  /\ idem      \in SUBSET IdemRow
  /\ outbox    \in [OrderIds -> Seq(Event)]
  /\ rowLock   \in [OrderIds -> Requests \cup {None}]
  /\ clock     \in Nat
  /\ lock      \in SUBSET [key : LockKey, token : Requests]
  /\ pc        \in [Requests -> Steps]
  /\ req       \in [Requests -> Request \cup {None}]
  /\ createdAt \in [Requests -> Nat]
  /\ paid      \in [Requests -> PaymentStatuses \cup {None}]
  /\ resp      \in [Requests -> [code : Codes, resource : Requests \cup {None}]]

-----------------------------------------------------------------------------
(* Helpers *)

\* orderLockKey: the Redis key is built from the id as it appears in the URL.
orderLockKey(q) == [order |-> q.order, spelling |-> q.spelling]

\* Mutant of Payable: only cancelled orders are refused.
Payable_UnlessCancelled(status) == status # "cancelled"

\* "pending_payment" and "payment_failed" orders can be paid or cancelled.
Payable(status) == status \in {"pending_payment", "payment_failed"}

\* Owner or admin.
MayAct(q, row) == q.user \in Admins \/ row.user = q.user

\* CreateOrder checks the key, then the body; PayOrder checks the key.
InputOK(q) == q.key # None /\ (q.op = "create" => q.body # None)

\* Transactions open on a pooled connection.
InTx(r) == pc[r] \in {"row", "insert", "commit"}

\* A statement outside a transaction, or BEGIN, first takes a pooled connection.
ConnFree == Cardinality({r \in Requests : InTx(r)}) < MaxConns

\* The rows of idempotency_keys with this user and key: the unique constraint
\* idempotency_keys_user_key_unique allows one.
RowsFor(q) == {row \in idem : row.user = q.user /\ row.key = q.key}

\* Mutant of Matches: the stored method, path and hash are not compared.
Matches_Unchecked(row, q) == TRUE

\* Same method, path and request hash as the stored request.
Matches(row, q) == row.request = Fingerprint(q)

\* Mutant of KeyHeldByOther: no unique constraint on (user_id, key).
KeyHeldByOther_NoConstraint(r) == FALSE

\* An uncommitted INSERT of the same (user_id, key) blocks this one.
KeyHeldByOther(r) ==
  \E s \in Requests \ {r} : /\ pc[s] = "commit" /\ req[s].op # "cancel"
                            /\ req[s].user = req[r].user /\ req[s].key = req[r].key

\* Rollback and commit both end the transaction and free its row lock.
EndTx(r) == rowLock' = [o \in OrderIds |-> IF rowLock[o] = r THEN None ELSE rowLock[o]]

\* The handler has its answer; pay and cancel still have the deferred release.
Answer(r, code, resource) ==
  /\ resp' = [resp EXCEPT ![r] = [code |-> code, resource |-> resource]]
  /\ pc' = [pc EXCEPT ![r] = IF req[r].op = "create" THEN "done" ELSE "release"]

Goto(r, step) == pc' = [pc EXCEPT ![r] = step]

-----------------------------------------------------------------------------
(* A request arrives and takes the order lock *)

\* The request reaches its handler.  A client can only name an order it has
\* been told of, or an id that names none.
Start(r, in, o) ==
  /\ pc[r] = "idle"
  /\ IF in.op = "create" THEN o = None ELSE o # None => orders[o] # None
  /\ req' = [req EXCEPT ![r] = [op |-> in.op, user |-> in.user, key |-> in.key,
                               body |-> in.body, spelling |-> in.spelling, order |-> o]]
  /\ Goto(r, IF in.op = "create" THEN "lookup" ELSE "lock")
  /\ UNCHANGED <<db, rowLock, clock, lock, createdAt, paid, resp>>

\* SETNX sets the key with this request's token, or finds it taken: 409.
AcquireLock(r) ==
  /\ pc[r] = "lock"
  /\ IF \E e \in lock : e.key = orderLockKey(req[r])
     THEN /\ resp' = [resp EXCEPT ![r] = [code |-> "busy", resource |-> None]]
          /\ Goto(r, "done")
          /\ UNCHANGED lock
     ELSE /\ lock' = lock \cup {[key |-> orderLockKey(req[r]), token |-> r]}
          /\ Goto(r, IF req[r].op = "pay" THEN "lookup" ELSE "begin")
          /\ UNCHANGED resp
  /\ UNCHANGED <<db, rowLock, clock, local>>

\* Redis fails the SETNX: 500.  When only the reply is lost the key stays set,
\* with nobody left to release it; and when the client then sends the command
\* again, it is told that the lock is taken.
AcquireFails(r) ==
  /\ "redis" \in Faults
  /\ pc[r] = "lock"
  /\ lock' \in IF \E e \in lock : e.key = orderLockKey(req[r]) THEN {lock}
               ELSE {lock, lock \cup {[key |-> orderLockKey(req[r]), token |-> r]}}
  /\ \E code \in {"internal", "busy"} :
       /\ code = "busy" => lock' # lock
       /\ resp' = [resp EXCEPT ![r] = [code |-> code, resource |-> None]]
  /\ Goto(r, "done")
  /\ UNCHANGED <<db, rowLock, clock, local>>

\* Mutant of ExpireLock: the key is set without a TTL.
ExpireLock_NoTTL(e) == FALSE /\ UNCHANGED vars

\* The TTL of the lock runs out: any request may stall for longer than that.
ExpireLock(e) ==
  /\ "expiry" \in Faults
  /\ lock' = lock \ {e}
  /\ UNCHANGED <<db, rowLock, clock, local, pc, resp>>

\* Mutant of Released: a plain DEL, whoever holds the key now.
Released_PlainDel(r) == {e \in lock : e.key # orderLockKey(req[r])}

\* The release script deletes the key if it still holds this request's token.
Released(r) == lock \ {[key |-> orderLockKey(req[r]), token |-> r]}

\* The deferred release; when Redis fails it, the error is only logged.
ReleaseLock(r) ==
  /\ pc[r] = "release"
  /\ \/ lock' = Released(r)
     \/ "redis" \in Faults /\ UNCHANGED lock
  /\ Goto(r, "done")
  /\ UNCHANGED <<db, rowLock, clock, local, resp>>

-----------------------------------------------------------------------------
(* Idempotency lookup, before the transaction *)

RejectInput(r) ==
  /\ pc[r] = "lookup"
  /\ ~InputOK(req[r])
  /\ Answer(r, "bad_request", None)
  /\ UNCHANGED <<db, rowLock, clock, lock, local>>

\* GetIdempotencyKey on a pooled connection: a stored request that differs is a
\* conflict, one that matches is replayed, none opens the transaction.
LookupKey(r) ==
  /\ pc[r] = "lookup"
  /\ InputOK(req[r])
  /\ ConnFree
  /\ \/ /\ \E row \in RowsFor(req[r]) : ~Matches(row, req[r])
        /\ Answer(r, "key_conflict", None)
     \/ /\ \E row \in RowsFor(req[r]) : Matches(row, req[r])
        /\ Goto(r, "replay")
        /\ UNCHANGED resp
     \/ /\ RowsFor(req[r]) = {}
        /\ Goto(r, "begin")
        /\ UNCHANGED resp
  /\ UNCHANGED <<db, rowLock, clock, lock, local>>

\* Every error of the lookup, not only "no rows", is taken for "no such key".
LookupFails(r) ==
  /\ "db" \in Faults
  /\ pc[r] = "lookup"
  /\ InputOK(req[r])
  /\ Goto(r, "begin")
  /\ UNCHANGED <<db, rowLock, clock, lock, local, resp>>

\* The stored resource is read back and answered with the stored status code.
Replay(r) ==
  /\ pc[r] = "replay"
  /\ ConnFree
  /\ \E row \in RowsFor(req[r]) : Answer(r, row.code, row.resource)
  /\ UNCHANGED <<db, rowLock, clock, lock, local>>

-----------------------------------------------------------------------------
(* The transaction *)

\* BEGIN: every created_at default of this transaction is NOW(), its start.
BeginTx(r) ==
  /\ pc[r] = "begin"
  /\ ConnFree
  /\ createdAt' = [createdAt EXCEPT ![r] = clock]
  /\ clock' = clock + 1
  /\ Goto(r, IF req[r].op = "create" THEN "insert" ELSE "row")
  /\ UNCHANGED <<db, rowLock, lock, req, paid, resp>>

\* mockPayment: the outcome depends on the last digit of a random UUID.
mockPayment == PaymentStatuses

\* The checks on the locked row, in the code's order; "none" when all pass.
Refusal(q) ==
  IF q.order = None THEN "not_found"
  ELSE IF ~MayAct(q, orders[q.order]) THEN "forbidden"
  ELSE IF ~Payable(orders[q.order].status) THEN "invalid_status"
  ELSE "none"

\* Mutant of RowFree: a plain SELECT.
RowFree_PlainSelect(q) == TRUE

\* Mutant of RowFree: the row is read through the pool, not the transaction.
RowFree_OnPool(q) == ConnFree /\ (q.order # None => rowLock[q.order] = None)

\* FOR UPDATE waits while another transaction holds the row.
RowFree(q) == q.order # None => rowLock[q.order] = None

\* GetOrderForUpdate and the checks; a payment attempt is then made.
LockOrder(r) ==
  /\ pc[r] = "row"
  /\ RowFree(req[r])
  /\ \/ /\ Refusal(req[r]) # "none"
        /\ Answer(r, Refusal(req[r]), None)
        /\ UNCHANGED <<rowLock, paid>>
     \/ /\ Refusal(req[r]) = "none"
        /\ rowLock' = [rowLock EXCEPT ![req[r].order] = r]
        /\ IF req[r].op = "pay"
           THEN /\ \E s \in mockPayment : paid' = [paid EXCEPT ![r] = s]
                /\ Goto(r, "insert")
           ELSE /\ Goto(r, "commit")
                /\ UNCHANGED paid
        /\ UNCHANGED resp
  /\ UNCHANGED <<db, clock, lock, req, createdAt>>

\* CreateIdempotencyKey, the last INSERT: it waits for a concurrent INSERT of
\* the same key to end, and fails if the key has been committed meanwhile.
InsertKey(r) ==
  /\ pc[r] = "insert"
  /\ ~KeyHeldByOther(r)
  /\ IF RowsFor(req[r]) # {}
     THEN Answer(r, "internal", None) /\ EndTx(r)
     ELSE Goto(r, "commit") /\ UNCHANGED <<rowLock, resp>>
  /\ UNCHANGED <<db, clock, lock, local>>

\* An outbox row of the committing transaction r.
EventOf(r, type, aggregate) ==
  [type |-> type, aggregate |-> aggregate, createdAt |-> createdAt[r]]

\* The idempotency row of the committing transaction r.
KeyRowOf(r, code) ==
  [user |-> req[r].user, key |-> req[r].key, request |-> Fingerprint(req[r]),
   code |-> code, resource |-> r]

\* Mutant of NextOrderStatus: the payment's own status is stored.
NextOrderStatus_Raw(s) == s

\* Mutant of PaymentEvent: the event type is not adjusted after a failure.
PaymentEvent_NotAdjusted(s) == "payment.succeeded"

\* nextOrderStatus and eventType of a payment attempt.
NextOrderStatus(s) == IF s = "failed" THEN "payment_failed" ELSE "paid"
PaymentEvent(s)    == IF s = "failed" THEN "payment.failed" ELSE "payment.succeeded"

\* What the transaction of a create makes visible: order, event, key.
WriteCreate(r) ==
  /\ orders' = [orders EXCEPT ![r] = [user |-> req[r].user, body |-> req[r].body,
                                     status |-> "pending_payment"]]
  /\ outbox' = [outbox EXCEPT ![r] = Append(@, EventOf(r, "order.created", r))]
  /\ idem' = idem \cup {KeyRowOf(r, "created")}
  /\ UNCHANGED payments

\* What the transaction of a payment makes visible: payment, status, event, key.
WritePay(r) ==
  LET o == req[r].order
  IN  /\ payments' = payments \cup {[id |-> r, order |-> o, status |-> paid[r]]}
      /\ orders' = [orders EXCEPT ![o].status = NextOrderStatus(paid[r])]
      /\ outbox' = [outbox EXCEPT ![o] = Append(@, EventOf(r, PaymentEvent(paid[r]), r))]
      /\ idem' = idem \cup {KeyRowOf(r, "ok")}

\* What the transaction of a cancellation makes visible: status and event.
WriteCancel(r) ==
  LET o == req[r].order
  IN  /\ orders' = [orders EXCEPT ![o].status = "cancelled"]
      /\ outbox' = [outbox EXCEPT ![o] = Append(@, EventOf(r, "order.cancelled", o))]
      /\ UNCHANGED <<payments, idem>>

Write(r) == \/ req[r].op = "create" /\ WriteCreate(r)
            \/ req[r].op = "pay"    /\ WritePay(r)
            \/ req[r].op = "cancel" /\ WriteCancel(r)

\* COMMIT: all writes become visible at once and the row lock is freed.  When
\* only the acknowledgement is lost, the client is told 500 all the same.
Commit(r) ==
  /\ pc[r] = "commit"
  /\ Write(r)
  /\ EndTx(r)
  /\ \/ Answer(r, IF req[r].op = "create" THEN "created" ELSE "ok",
               IF req[r].op = "cancel" THEN req[r].order ELSE r)
     \/ "db" \in Faults /\ Answer(r, "internal", None)
  /\ UNCHANGED <<clock, lock, local>>

\* Mutant of DbFails: the error of COMMIT is not returned.
DbFails_CommitUnchecked(r) ==
  /\ "db" \in Faults
  /\ pc[r] = "commit"
  /\ Answer(r, IF req[r].op = "create" THEN "created" ELSE "ok",
            IF req[r].op = "cancel" THEN req[r].order ELSE r)
  /\ EndTx(r)
  /\ UNCHANGED <<db, clock, lock, local>>

\* A statement, BEGIN, COMMIT or a read fails and nothing is written: 500, but
\* 404 from GetOrderForUpdate, whose errors all become ErrOrderNotFound.
DbFails(r) ==
  /\ "db" \in Faults
  /\ pc[r] \in {"replay", "begin", "row", "insert", "commit"}
  /\ Answer(r, IF pc[r] = "row" THEN "not_found" ELSE "internal", None)
  /\ EndTx(r)
  /\ UNCHANGED <<db, clock, lock, local>>

\* The API process dies: PostgreSQL rolls the transaction back, the Redis key
\* stays until its TTL, and the client never hears.
Crash(r) ==
  /\ "crash" \in Faults
  /\ pc[r] \notin {"idle", "done"}
  /\ resp' = [resp EXCEPT ![r] = [code |-> "lost", resource |-> None]]
  /\ Goto(r, "done")
  /\ EndTx(r)
  /\ UNCHANGED <<db, clock, lock, local>>

-----------------------------------------------------------------------------
(* Specification *)

Init ==
  /\ orders    = [o \in OrderIds |-> None]
  /\ payments  = {}
  /\ idem      = {}
  /\ outbox    = [o \in OrderIds |-> <<>>]
  /\ rowLock   = [o \in OrderIds |-> None]
  /\ clock     = 1
  /\ lock      = {}
  /\ pc        = [r \in Requests |-> "idle"]
  /\ req       = [r \in Requests |-> None]
  /\ createdAt = [r \in Requests |-> 0]
  /\ paid      = [r \in Requests |-> None]
  /\ resp      = [r \in Requests |-> [code |-> "none", resource |-> None]]

\* One step of the handler of r, when nothing fails.
Handle(r) ==
  \/ AcquireLock(r)
  \/ RejectInput(r)
  \/ LookupKey(r)
  \/ Replay(r)
  \/ BeginTx(r)
  \/ LockOrder(r)
  \/ InsertKey(r)
  \/ Commit(r)
  \/ ReleaseLock(r)

Fail(r) == AcquireFails(r) \/ LookupFails(r) \/ DbFails(r) \/ Crash(r)

\* Every request has been dealt with.
Terminated == (\A r \in Requests : pc[r] = "done") /\ UNCHANGED vars

Next ==
  \/ \E r \in Requests, in \in Inputs, o \in OrderIds \cup {None} : Start(r, in, o)
  \/ \E r \in Requests : Handle(r)
  \/ \E r \in Requests : Fail(r)
  \/ \E e \in lock : ExpireLock(e)
  \/ Terminated

\* A handler goroutine keeps running and PostgreSQL grants a free row or key to
\* a waiter; Redis evicts an expired key.
Fairness ==
  /\ \A r \in Requests : WF_vars(Handle(r))
  /\ WF_vars(\E e \in lock : ExpireLock(e))

Spec     == Init /\ [][Next]_vars
FairSpec == Spec /\ Fairness

-----------------------------------------------------------------------------
(* What holds of the tables, whatever the interleaving and the failures *)

HasEffect(r) == orders[r] # None \/ \E p \in payments : p.id = r
Attempted(o, s) == \E p \in payments : p.order = o /\ p.status = s
Succeeded(r) == resp[r].code \in {"created", "ok"}
Keyed(r)     == req[r] # None /\ req[r].op \in {"create", "pay"}

\* An order is charged at most once: no two payments of one order succeed, even
\* when the Redis lock expires or is bypassed and two PayOrder calls overlap.
AtMostOneCapture ==
  \A p, q \in payments :
    p.order = q.order /\ p.status = "succeeded" /\ q.status = "succeeded" => p = q

\* The status column and the payments table agree: an order is paid exactly when
\* a payment of it succeeded, payment_failed only after one failed, and no longer
\* pending once one failed.  In particular a cancelled order was never charged.
StatusTellsPayments ==
  \A o \in OrderIds :
    /\ Attempted(o, "succeeded") <=> orders[o] # None /\ orders[o].status = "paid"
    /\ Attempted(o, "failed") => orders[o] # None /\ orders[o].status # "pending_payment"
    /\ orders[o] # None /\ orders[o].status = "payment_failed" => Attempted(o, "failed")

\* One (user, Idempotency-Key) has at most one effect, over creates and payments
\* together: two requests with the same key, racing or retried after a lost
\* COMMIT acknowledgement, never both leave an order or a payment behind.
KeyHasOneEffect ==
  \A r, s \in Requests :
    /\ HasEffect(r) /\ HasEffect(s)
    /\ req[r].user = req[s].user /\ req[r].key = req[s].key
    => r = s

\* Two requests of one user under one key that are both answered with success
\* were the same request and are answered with the same order or payment.
SameKeySameAnswer ==
  \A r, s \in Requests :
    /\ Keyed(r) /\ Keyed(s) /\ Succeeded(r) /\ Succeeded(s)
    /\ req[r].user = req[s].user /\ req[r].key = req[s].key
    => /\ resp[r].resource = resp[s].resource
       /\ Fingerprint(req[r]) = Fingerprint(req[s])

\* A success answer is durable: the order or payment it names is committed, for
\* the user and the order the client asked about.
SuccessIsDurable ==
  \A r \in Requests : Keyed(r) /\ Succeeded(r) =>
    LET x == resp[r].resource
    IN  IF req[r].op = "create"
        THEN orders[x] # None /\ orders[x].user = req[r].user
        ELSE \E p \in payments : p.id = x /\ p.order = req[r].order

\* A request's deferred release removes no lock but its own: after its lock has
\* expired and been taken by another request, the release script leaves it.
OnlyOwnerReleases ==
  [][\A r \in Requests : pc[r] = "release" /\ pc'[r] = "done" =>
       {e \in lock : e.token # r} \subseteq lock']_vars

\* Every request is answered or lost with its process: no cycle of row locks,
\* pending key inserts and pooled connections blocks a handler for ever.
EveryRequestAnswered ==
  \A r \in Requests : pc[r] # "idle" ~> pc[r] = "done"

\* An order is never locked out for good: a lock orphaned by a crash, a failed
\* release or a lost SETNX reply goes away with its TTL.
LockGoesAway ==
  \A r \in Requests : (\E e \in lock : e.token = r) ~> ~(\E e \in lock : e.token = r)

-----------------------------------------------------------------------------
(* The service implements the ledger *)

Claims == Users \X Keys

Ledger == INSTANCE OrderLedger WITH
  ledger <- [o \in OrderIds |-> [i \in 1..Len(outbox[o]) |-> outbox[o][i].type]],
  status <- [o \in OrderIds |-> IF orders[o] = None THEN "absent" ELSE orders[o].status],
  spent  <- {<<row.user, row.key>> : row \in idem}

\* Through every interleaving and failure, the committed tables move as the
\* atomic ledger does: each order's outbox rows are its status history, open
\* orders alone are paid or cancelled, and each effect spends a fresh key.
ImplementsLedger == Ledger!Spec

-----------------------------------------------------------------------------
(* What the repository says of the service and the code does not do *)

\* README.md: a repeated request with the same key, method, path and hash gets
\* the original resource.
ReuseReturnsOriginal ==
  [][\A r \in Requests :
       /\ pc[r] # "done" /\ pc'[r] = "done"
       /\ \E row \in RowsFor(req[r]) : Matches(row, req[r])
       => resp'[r].code \in {"created", "ok"}]_vars

\* README.md: the events of one order retain their order.  The publisher reads
\* them by created_at, so created_at has to follow the order of the commits.
CreatedAtFollowsCommits ==
  \A o \in OrderIds : \A i, j \in 1..Len(outbox[o]) :
    i < j => outbox[o][i].createdAt < outbox[o][j].createdAt
=============================================================================
