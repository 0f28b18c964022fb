----------------------------- MODULE MCApiProcess -----------------------------
(***************************************************************************)
(* A small instance of ApiProcess.                                          *)
(***************************************************************************)
EXTENDS ApiProcess
=============================================================================
