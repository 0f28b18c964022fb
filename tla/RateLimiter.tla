----------------------------- MODULE RateLimiter ------------------------------
(***************************************************************************)
(* The fixed-window rate limiter of internal/ratelimit and the middleware  *)
(* that calls it, in API replicas that share one Redis.                    *)
(*                                                                         *)
(* A request passes the limits of its route one after the other.  For each *)
(* it reads the clock of its replica, which decides the window, increments *)
(* the window's counter, and, as the first, gives the counter its time to  *)
(* live with a second call.  Time passes, and other requests come, between *)
(* any two of these; the Redis client repeats a call whose reply it misses. *)
(***************************************************************************)
EXTENDS Integers, Sequences, FiniteSets

CONSTANTS
  Requests,    \* requests
  Scopes,      \* scopes of limits: "global", "auth_register", "auth_login"
  Route,       \* Route[r]: the scopes r has to pass, in order
  Client,      \* Client[r]: the address r comes from
  Limit,       \* Limit[s]: requests of a client in a window; 0 is no limit
  Lead,        \* Lead[r]: how far the clock of the replica that serves r is ahead
               \* of Redis's
  MaxLead,     \* bound on the replicas' lead
  Second,      \* ticks in a second
  Window,      \* length of a window in ticks, a whole number of seconds
  MaxTime,     \* bound on the clock
  MaxFaults,   \* bound on the number of failures in a behaviour
  None         \* no time to live, no answer

ASSUME LimiterConstantsOK ==
  /\ Route \in [Requests -> Seq(Scopes)]
  /\ \A r \in Requests : \A i, j \in DOMAIN Route[r] : Route[r][i] = Route[r][j] => i = j
  /\ Limit \in [Scopes -> Nat]
  /\ MaxLead \in Nat /\ Lead \in [Requests -> 0..MaxLead]
  /\ Second \in Nat \ {0} /\ Window \in Nat \ {0} /\ Window % Second = 0
  /\ MaxTime \in Nat /\ MaxFaults \in Nat /\ None \notin Nat

VARIABLES
  now,         \* Redis's clock
  counters,    \* counters[k]: the counter of key k and when it expires
  pc,          \* what each request does next
  stage,       \* the scope it has reached, an index into its route
  clock,       \* the time its replica read
  answer,      \* 200 passed, 429, 500, or None
  told,        \* its Retry-After in seconds
  hits,        \* every increment whose reply arrived (history)
  spent        \* failures so far

vars == <<now, counters, pc, stage, clock, answer, told, hits, spent>>

Clients == {Client[r] : r \in Requests}
Labels  == 0..(MaxTime + MaxLead) \div Window
Keys    == Scopes \X Clients \X Labels

\* The types of the variables; a counter that does not exist has no expiry, and
\* Retry-After is positive.
TypeOK ==
  /\ now \in 0..MaxTime
  /\ counters \in [Keys -> [n : Nat, expires : Nat \cup {None}]]
  /\ \A k \in Keys : counters[k].n = 0 => counters[k].expires = None
  /\ pc \in [Requests -> {"scope", "incr", "expire", "done"}]
  /\ stage \in [Requests -> Nat] /\ \A r \in Requests : stage[r] \in 1..Len(Route[r]) + 1
  /\ clock \in [Requests -> Nat]
  /\ answer \in [Requests -> {200, 429, 500, None}]
  /\ told \in [Requests -> Nat] /\ \A r \in Requests : answer[r] = 429 => told[r] > 0
  /\ spent \in 0..MaxFaults

-----------------------------------------------------------------------------
(* Helpers *)

Scope(r) == Route[r][stage[r]]

\* now.Truncate(window), in windows.
Label(t) == t \div Window

\* Mutant of Key: the key does not name the window.
Key_NoWindow(r) == <<Scope(r), Client[r], 0>>

\* rate_limit:scope:key:windowStart.
Key(r) == <<Scope(r), Client[r], Label(clock[r])>>

Goto(r, step) == pc' = [pc EXCEPT ![r] = step]

\* A failure may happen, and is counted.
Fault == spent < MaxFaults /\ spent' = spent + 1

\* The counter as Redis sees it: gone when its time is up.
Current(k) ==
  IF counters[k].expires # None /\ now >= counters[k].expires
  THEN [n |-> 0, expires |-> None] ELSE counters[k]

\* INCR keeps the time to live.
Incremented(k) == [Current(k) EXCEPT !.n = @ + 1]

\* An increment comes before the counter of its window can have expired: the first
\* replica to count may do so MaxLead before the window begins on Redis's clock,
\* and the counter then lives for the window and a second.
InTime(w) == now < (w + 1) * Window + Second - MaxLead

\* Mutant of TTL: just the window.
TTL_Window == Window

\* window + time.Second.
TTL == Window + Second

\* Mutant of RetryAfter: the difference is taken from the start of the window.
RetryAfter_FromStart(t) ==
  LET left == Label(t) * Window - t IN IF left \div Second < 1 THEN 1 ELSE left \div Second

\* Mutant of RetryAfter: no minimum.
RetryAfter_NoMinimum(t) == ((Label(t) + 1) * Window - t) \div Second

\* Seconds() of what is left of the window, rounded down, and at least 1.
RetryAfter(t) ==
  LET left == (Label(t) + 1) * Window - t IN
  IF left \div Second < 1 THEN 1 ELSE left \div Second

\* The request is answered 429 or goes on to its next scope.
Decide(r, count) ==
  IF count <= Limit[Scope(r)]
  THEN /\ Goto(r, "scope") /\ stage' = [stage EXCEPT ![r] = @ + 1]
       /\ clock' = [clock EXCEPT ![r] = 0]
       /\ UNCHANGED <<answer, told>>
  ELSE /\ Goto(r, "done") /\ answer' = [answer EXCEPT ![r] = 429]
       /\ told' = [told EXCEPT ![r] = RetryAfter(clock[r])]
       /\ UNCHANGED <<stage, clock>>

-----------------------------------------------------------------------------
(* The middleware *)

\* A scope without a limit lets everything pass.
Unlimited(r) ==
  /\ pc[r] = "scope" /\ stage[r] <= Len(Route[r])
  /\ Limit[Scope(r)] = 0
  /\ stage' = [stage EXCEPT ![r] = @ + 1]
  /\ UNCHANGED <<now, counters, pc, clock, answer, told, hits, spent>>

\* All limits are passed and the handler is called.
Serve(r) ==
  /\ pc[r] = "scope" /\ stage[r] > Len(Route[r])
  /\ Goto(r, "done")
  /\ answer' = [answer EXCEPT ![r] = 200]
  /\ UNCHANGED <<now, counters, stage, clock, told, hits, spent>>

\* Allow reads the clock of the replica that serves the request.
ReadClock(r) ==
  /\ pc[r] = "scope" /\ stage[r] <= Len(Route[r])
  /\ Limit[Scope(r)] > 0
  /\ clock' = [clock EXCEPT ![r] = now + Lead[r]]
  /\ Goto(r, "incr")
  /\ UNCHANGED <<now, counters, stage, answer, told, hits, spent>>

\* Mutant of First: the comparison is with the count before the increment.
First_Zero(count) == count = 0

First(count) == count = 1

Incr(r) ==
  /\ pc[r] = "incr"
  /\ LET count == Incremented(Key(r)).n IN
     /\ counters' = [counters EXCEPT ![Key(r)] = Incremented(Key(r))]
     /\ hits' = hits \cup {[req |-> r, scope |-> Scope(r), label |-> Label(clock[r]),
                            count |-> count, inTime |-> InTime(Label(clock[r]))]}
     /\ IF First(count) THEN Goto(r, "expire") /\ UNCHANGED <<stage, clock, answer, told>>
        ELSE Decide(r, count)
  /\ UNCHANGED <<now, spent>>

\* EXPIRE does nothing to a key that is gone.
Expired(k) ==
  IF Current(k).n = 0 THEN Current(k) ELSE [Current(k) EXCEPT !.expires = now + TTL]

Expire(r) ==
  /\ pc[r] = "expire"
  /\ counters' = [counters EXCEPT ![Key(r)] = Expired(Key(r))]
  /\ Decide(r, 1)
  /\ UNCHANGED <<now, hits, spent>>

-----------------------------------------------------------------------------
(* Failures *)

\* The reply to INCR is lost and the Redis client sends the command again.
IncrRepeated(r) ==
  /\ pc[r] = "incr"
  /\ Fault
  /\ counters' = [counters EXCEPT ![Key(r)] = Incremented(Key(r))]
  /\ UNCHANGED <<now, pc, stage, clock, answer, told, hits>>

\* A call fails for good, carried out or not, and the request is answered 500;
\* or the replica dies.
CallFails(r) ==
  /\ pc[r] \in {"incr", "expire"}
  /\ Fault
  /\ \/ UNCHANGED counters
     \/ counters' = [counters EXCEPT ![Key(r)] =
                       IF pc[r] = "incr" THEN Incremented(Key(r)) ELSE Expired(Key(r))]
  /\ Goto(r, "done")
  /\ answer' = [answer EXCEPT ![r] = 500]
  /\ UNCHANGED <<now, stage, clock, told, hits>>

Tick ==
  /\ now < MaxTime
  /\ now' = now + 1
  /\ UNCHANGED <<counters, pc, stage, clock, answer, told, hits, spent>>

-----------------------------------------------------------------------------
(* Specification *)

Init ==
  /\ now = 0
  /\ counters = [k \in Keys |-> [n |-> 0, expires |-> None]]
  /\ pc = [r \in Requests |-> "scope"]
  /\ stage = [r \in Requests |-> 1]
  /\ clock = [r \in Requests |-> 0]
  /\ answer = [r \in Requests |-> None]
  /\ told = [r \in Requests |-> 0]
  /\ hits = {}
  /\ spent = 0

Handle(r) ==
  \/ Unlimited(r) \/ Serve(r) \/ ReadClock(r)
  \/ Incr(r) \/ Expire(r)

\* All requests are over.
Finished ==
  /\ \A r \in Requests : pc[r] = "done"
  /\ UNCHANGED vars

Next ==
  \/ \E r \in Requests : Handle(r) \/ IncrRepeated(r) \/ CallFails(r)
  \/ Tick
  \/ Finished

Spec == Init /\ [][Next]_vars

-----------------------------------------------------------------------------
(* Properties *)

\* The increments of one scope, client and window.
HitsOf(s, c, w) == {h \in hits : h.scope = s /\ Client[h.req] = c /\ h.label = w}

\* In no window do more requests of a client pass than its limit, replicas whose
\* clocks differ, lost replies and a missing time to live notwithstanding.  Exempt
\* is an increment that reaches Redis a second, less MaxLead, or more after the end
\* of its window.  If the clocks differ by at most a second that takes a request
\* held up between the clock and INCR; if by more, a replica behind the others
\* exceeds the limit without.
NotOverLimit ==
  \A s \in Scopes, c \in Clients, w \in Labels :
    Cardinality({h \in HitsOf(s, c, w) : h.inTime /\ h.count <= Limit[s]}) <= Limit[s]

\* A client is refused only when the window really is full of its own requests,
\* give or take the calls that failed or were repeated; what it did in other
\* windows or scopes does not count against it.
RefusedOnlyWhenFull ==
  \A r \in Requests : answer[r] = 429 =>
    LET mine == HitsOf(Scope(r), Client[r], Label(clock[r])) IN
    Cardinality({h \in mine : h.req # r}) + spent >= Limit[Scope(r)]

\* A counter without a time to live stays for ever: there are at most as many as
\* there were failures, apart from those whose EXPIRE is about to come.
LeakNeedsFault ==
  Cardinality({k \in Keys :
    /\ counters[k].n > 0 /\ counters[k].expires = None
    /\ \A r \in Requests : pc[r] = "expire" => Key(r) # k}) <= spent

\* Retry-After is short of the next window by less than a second: it is rounded
\* down, and a client that comes back a second later than told finds a new one.
RetryAfterLeadsOut ==
  \A r \in Requests : answer[r] = 429 =>
    Label(clock[r] + told[r] * Second + Second - 1) # Label(clock[r])
=============================================================================
