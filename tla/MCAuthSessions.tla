---------------------------- MODULE MCAuthSessions ----------------------------
(***************************************************************************)
(* A small instance of AuthSessions: two browsers register one e-mail under *)
(* two spellings, one of them logs in, refreshes, asks who it is and logs    *)
(* out, from several tabs at a time.                                        *)
(***************************************************************************)
EXTENDS AuthSessions, TLC

CONSTANTS b1, b2

SixRequests == 1..6

TwoSpellings == ("ann" :> "ann") @@ ("Ann" :> "ann") @@ ("" :> "")

In(op, browser, spelling, password, role) ==
  [op |-> op, browser |-> browser, spelling |-> spelling, password |-> password,
   role |-> role]

\* A request that carries nothing but what the browser keeps.
Bare(op) == In(op, b1, "", "", "")

\* The sixth request is a second logout, or one that is turned down at once.
Script ==
  <<{In("register", b1, "Ann", "pw1", "")},
    {In("register", b2, "ann", "pw2", "admin")},
    {In("login", b1, "ann", "pw1", "")},
    {Bare("refresh"), Bare("me")},
    {Bare("logout")},
    {Bare("logout"), In("register", b2, "", "pw2", "admin"),
     In("register", b2, "ann", "pw2", "root"), In("register", b2, "ann", "long", ""),
     In("login", b1, "Ann", "", "")}>>
=============================================================================
