--------------------------- MODULE MCOrderService ----------------------------
(***************************************************************************)
(* Small instances of OrderService.  The request inputs of a run are chosen *)
(* so that its requests compete for the same order, the same idempotency    *)
(* key, or the same pooled connection.                                      *)
(***************************************************************************)
EXTENDS OrderService, TLC

CONSTANTS alice, bob, k1, k2, b1, b2

Send(op, user, key, body, spelling) ==
  [op |-> op, user |-> user, key |-> key, body |-> body, spelling |-> spelling]

\* A customer, an admin, two bodies, payments under one key, under two and under
\* two spellings of the id, a cancellation, and the inputs that are refused: no
\* key, an invalid body, somebody else's order.
FaultInputs ==
  {Send("create", alice, k1, b1, "lower"),
   Send("create", alice, k1, b2, "lower"),
   Send("create", alice, k1, None, "lower"),
   Send("create", bob, k1, b1, "lower"),
   Send("pay", alice, k1, None, "lower"),
   Send("pay", alice, k2, None, "lower"),
   Send("pay", alice, k2, None, "upper"),
   Send("pay", alice, None, None, "lower"),
   Send("pay", bob, k1, None, "lower"),
   Send("cancel", bob, None, None, "lower")}

\* Creates and payments that compete for one key, and a cancellation.
LiveInputs ==
  {Send("create", alice, k1, b1, "lower"),
   Send("pay", alice, k1, None, "lower"),
   Send("pay", alice, k2, None, "lower"),
   Send("cancel", alice, None, None, "lower")}

\* The same create sent twice.
TwiceInputs == {Send("create", alice, k1, b1, "lower")}

\* One order, paid and then cancelled or paid again under another spelling.
SpellingInputs ==
  {Send("create", alice, k1, b1, "lower"),
   Send("pay", alice, k2, None, "lower"),
   Send("cancel", alice, None, None, "upper")}

\* Requests are interchangeable: they differ only in the input they start with.
RequestSymmetry == Permutations(Requests)
=============================================================================
