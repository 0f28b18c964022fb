---------------------------- MODULE MCRateLimiter -----------------------------
(***************************************************************************)
(* A small instance of RateLimiter: three requests of one client, one of    *)
(* which passes two limits, on replicas whose clocks differ.                *)
(***************************************************************************)
EXTENDS RateLimiter, TLC

CONSTANT ann

ThreeRequests == 1..3

\* A login, a registration and a request that passes the global limit only.
Routes == <<<<"global", "auth_login">>, <<"global", "auth_register">>, <<"global">>>>

OneClient == [r \in ThreeRequests |-> ann]

\* A limit of zero switches the scope off.
Limits == ("global" :> 1) @@ ("auth_login" :> 1) @@ ("auth_register" :> 0)

\* The clock of the second request's replica is ahead.
Skew == [r \in ThreeRequests |-> IF r = 2 THEN 1 ELSE 0]
=============================================================================
