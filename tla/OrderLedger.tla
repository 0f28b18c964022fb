----------------------------- MODULE OrderLedger -----------------------------
(***************************************************************************)
(* What the order service promises, with no requests, locks, transactions  *)
(* or failures in sight: an append-only ledger of events per order, the    *)
(* status those events amount to, and the idempotency claims that have     *)
(* been spent.  Creating, paying and cancelling are single atomic steps.   *)
(* OrderService is shown to implement this module.                         *)
(***************************************************************************)
EXTENDS Sequences

CONSTANTS
  OrderIds,   \* the identities an order can have
  Claims      \* the (user, Idempotency-Key) pairs a client can present

VARIABLES
  ledger,     \* ledger[o]: the event types recorded for order o, oldest first
  status,     \* status[o]: the status column of order o, "absent" before it exists
  spent       \* the claims that have had their one effect

ledgerVars == <<ledger, status, spent>>

\* The orders a payment or a cancellation may still act on.
Open == {"pending_payment", "payment_failed"}

Record(o, event, s) ==
  /\ ledger' = [ledger EXCEPT ![o] = Append(@, event)]
  /\ status' = [status EXCEPT ![o] = s]

\* One effect spends one claim, for good.
Spend == \E c \in Claims \ spent : spent' = spent \cup {c}

Create(o) == /\ status[o] = "absent"
             /\ Record(o, "order.created", "pending_payment")
             /\ Spend

Capture(o) == /\ status[o] \in Open
              /\ Record(o, "payment.succeeded", "paid")
              /\ Spend

Decline(o) == /\ status[o] \in Open
              /\ Record(o, "payment.failed", "payment_failed")
              /\ Spend

Cancel(o) == /\ status[o] \in Open
             /\ Record(o, "order.cancelled", "cancelled")
             /\ UNCHANGED spent

Init == /\ ledger = [o \in OrderIds |-> <<>>]
        /\ status = [o \in OrderIds |-> "absent"]
        /\ spent = {}

Next == \E o \in OrderIds : Create(o) \/ Capture(o) \/ Decline(o) \/ Cancel(o)

Spec == Init /\ [][Next]_ledgerVars
=============================================================================
