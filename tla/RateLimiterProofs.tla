-------------------------- MODULE RateLimiterProofs ---------------------------
(***************************************************************************)
(* Proofs about RateLimiter, for any requests, routes and limits, any       *)
(* length of the window, any difference of the replicas' clocks within      *)
(* MaxLead, and any failures.                                               *)
(*                                                                         *)
(* The limit is kept because the counter of a window cannot expire while    *)
(* increments of that window are in time: EXPIRE comes after the window has *)
(* begun by the clock of some replica, and gives it a second more than the  *)
(* window is long.  The increments in time then get different numbers.      *)
(***************************************************************************)
EXTENDS RateLimiter, FiniteSetTheorems, TLAPS

\* A request on its way through the limits: while it is at a limit its clock is
\* not older than it was, and a refusal tells it when to come back.
StepInv(r) ==
  /\ clock[r] <= MaxTime + MaxLead
  /\ pc[r] \in {"incr", "expire"} =>
       /\ stage[r] \in 1..Len(Route[r]) /\ Limit[Scope(r)] > 0
       /\ clock[r] <= now + MaxLead
  /\ pc[r] # "done" => answer[r] = None
  /\ answer[r] = 429 => stage[r] \in 1..Len(Route[r]) /\ told[r] = RetryAfter(clock[r])

\* A counter does not expire before its window is a second past, for the replica
\* whose clock is last.
WindowEnd(w) == (w + 1) * Window + Second - MaxLead

WindowInv ==
  \A k \in Keys : counters[k].expires # None => counters[k].expires >= WindowEnd(k[3])

BaseInv ==
  /\ TypeOK
  /\ \A r \in Requests : StepInv(r)
  /\ WindowInv

\* The counters that stay for ever.
Leaks ==
  {k \in Keys :
    /\ counters[k].n > 0 /\ counters[k].expires = None
    /\ \A r \in Requests : pc[r] = "expire" => Key(r) # k}

LeakInv == IsFiniteSet(Leaks) /\ Cardinality(Leaks) <= spent

HitKey(h) == <<h.scope, Client[h.req], h.label>>

\* What a request has counted lies behind it on its route.
PastInv(h) ==
  \E i \in 1..Len(Route[h.req]) :
    /\ h.scope = Route[h.req][i] /\ i <= stage[h.req]
    /\ i = stage[h.req] => pc[h.req] \in {"expire", "done"}

\* The increments in time of a window have different numbers, up to the counter's.
HitsInv ==
  /\ IsFiniteSet(hits)
  /\ hits \subseteq [req : Requests, scope : Scopes, label : Labels, count : Nat \ {0},
                     inTime : BOOLEAN]
  /\ \A h \in hits : PastInv(h)
  /\ \A h \in hits : h.inTime /\ InTime(h.label) => h.count <= counters[HitKey(h)].n
  /\ \A h, g \in hits :
       h.inTime /\ g.inTime /\ HitKey(h) = HitKey(g) /\ h.count = g.count => h = g

\* The increments of a key.
HitsAt(k) == {h \in hits : HitKey(h) = k}

\* A counter shows increments that were answered, and failed or repeated ones.
FullInv == \A k \in Keys : counters[k].n <= Cardinality(HitsAt(k)) + spent

\* The increments of others in the window in which r is, or was refused.
Others(r) == {h \in HitsAt(Key(r)) : h.req # r}

RefusedInv ==
  \A r \in Requests : answer[r] = 429 => Cardinality(Others(r)) + spent >= Limit[Scope(r)]

-----------------------------------------------------------------------------
(* Windows and counters *)

LEMMA Numbers ==
  /\ Window \in Nat \ {0} /\ Second \in Nat \ {0}
  /\ MaxLead \in Nat /\ MaxTime \in Nat /\ MaxFaults \in Nat
BY LimiterConstantsOK

\* now.Truncate(window) is the last window boundary that is not later.
LEMMA LabelFacts ==
  ASSUME NEW t \in Nat
  PROVE  /\ Label(t) \in Nat
         /\ Label(t) * Window <= t /\ t < Label(t) * Window + Window
BY Numbers DEF Label

\* Later times are in later windows.
LEMMA LabelMonotone ==
  ASSUME NEW s \in Nat, NEW t \in Nat, s <= t
  PROVE  Label(s) <= Label(t)
<1>1. /\ Label(s) \in Nat /\ Label(t) \in Nat
      /\ Label(s) * Window <= s /\ t < Label(t) * Window + Window
  BY LabelFacts
<1>2. PICK a \in Nat, b \in Nat : a = Label(s) /\ b = Label(t)
  BY <1>1
<1>3. (b + 1) * Window = b * Window + Window /\ a * Window \in Int /\ b * Window \in Int
  BY Numbers
<1>4. a * Window < (b + 1) * Window
  BY <1>1, <1>2, <1>3, Numbers
<1>5. a < b + 1
  BY <1>4, Numbers
<1> QED
  BY <1>2, <1>5

\* The key of a request at a limit.
LEMMA KeyFacts ==
  ASSUME BaseInv, NEW r \in Requests, pc[r] \in {"incr", "expire"}
  PROVE  /\ Key(r) \in Keys /\ Key(r)[3] = Label(clock[r]) /\ Scope(r) \in Scopes
         /\ Label(clock[r]) \in Labels /\ Label(clock[r]) \in Nat
<1>1. /\ stage[r] \in 1..Len(Route[r]) /\ clock[r] \in Nat
      /\ clock[r] <= MaxTime + MaxLead
  BY DEF BaseInv, StepInv, TypeOK
<1>2. Scope(r) \in Scopes
  BY <1>1, LimiterConstantsOK DEF Scope
<1>3. PICK last \in Nat : last = MaxTime + MaxLead
  BY Numbers
<1>4. Label(clock[r]) \in Nat /\ Label(last) \in Nat /\ Label(clock[r]) <= Label(last)
  BY <1>1, <1>3, LabelFacts, LabelMonotone
<1>5. Label(clock[r]) \in Labels
  BY <1>3, <1>4 DEF Labels, Label
<1>6. Client[r] \in Clients
  BY DEF Clients
<1> QED
  BY <1>2, <1>4, <1>5, <1>6 DEF Key, Keys

Counter == [n : Nat, expires : Nat \cup {None}]

\* What Redis makes of a counter.
LEMMA CounterFacts ==
  ASSUME BaseInv, NEW k \in Keys
  PROVE  /\ counters[k] \in Counter /\ Current(k) \in Counter
         /\ Current(k).n <= counters[k].n
         /\ Current(k).n = 0 => Current(k).expires = None
         /\ Current(k).expires # None => Current(k).expires = counters[k].expires
         /\ Incremented(k) \in Counter
         /\ Incremented(k).n = Current(k).n + 1 /\ Incremented(k).expires = Current(k).expires
         /\ Expired(k) \in Counter /\ Expired(k).n = Current(k).n
         /\ Current(k).n = 0 => Expired(k).expires = None
         /\ Current(k).n # 0 => Expired(k).expires = now + TTL
<1>1. counters[k] \in Counter /\ (counters[k].n = 0 => counters[k].expires = None)
  BY DEF BaseInv, TypeOK, Counter
<1>2. /\ Current(k) \in Counter /\ Current(k).n <= counters[k].n
      /\ Current(k).n = 0 => Current(k).expires = None
      /\ Current(k).expires # None => Current(k).expires = counters[k].expires
  BY <1>1 DEF Current, Counter
<1>3. PICK a \in Counter : a = Current(k)
  BY <1>2
<1>4. Incremented(k) = [a EXCEPT !.n = a.n + 1]
  BY <1>3 DEF Incremented
<1>5. /\ Incremented(k) \in Counter
      /\ Incremented(k).n = a.n + 1 /\ Incremented(k).expires = a.expires
  BY <1>4 DEF Counter
<1>6. now + TTL \in Nat
  BY LimiterConstantsOK DEF BaseInv, TypeOK, TTL
<1>7. Expired(k) = IF a.n = 0 THEN a ELSE [a EXCEPT !.expires = now + TTL]
  BY <1>3 DEF Expired
<1>8. /\ Expired(k) \in Counter /\ Expired(k).n = a.n
      /\ a.n = 0 => Expired(k) = a
      /\ a.n # 0 => Expired(k).expires = now + TTL
  BY <1>6, <1>7 DEF Counter
<1> QED
  BY <1>1, <1>2, <1>3, <1>5, <1>8

\* What a step of r does to the counters.
CounterStep(r) ==
  \/ UNCHANGED counters
  \/ pc[r] = "incr" /\ counters' = [counters EXCEPT ![Key(r)] = Incremented(Key(r))]
  \/ pc[r] = "expire" /\ counters' = [counters EXCEPT ![Key(r)] = Expired(Key(r))]

\* EXPIRE keeps a counter until its window is a second past.
LEMMA CountersKept ==
  ASSUME BaseInv, NEW r \in Requests, CounterStep(r)
  PROVE  /\ counters' \in [Keys -> Counter]
         /\ \A k \in Keys : counters'[k].n = 0 => counters'[k].expires = None
         /\ WindowInv'
<1>1. counters \in [Keys -> Counter]
  BY DEF BaseInv, TypeOK, Counter
<1>2. CASE UNCHANGED counters
  BY <1>1, <1>2 DEF BaseInv, TypeOK, WindowInv, WindowEnd
<1>3. ASSUME NEW c \in Counter, pc[r] \in {"incr", "expire"},
             counters' = [counters EXCEPT ![Key(r)] = c],
             c.n = 0 => c.expires = None,
             c.expires # None => c.expires >= WindowEnd(Label(clock[r]))
      PROVE  /\ counters' \in [Keys -> Counter]
             /\ \A k \in Keys : counters'[k].n = 0 => counters'[k].expires = None
             /\ WindowInv'
  <2>1. Key(r) \in Keys /\ Key(r)[3] = Label(clock[r])
    BY <1>3, KeyFacts
  <2>2. /\ counters'[Key(r)] = c
        /\ \A k \in Keys \ {Key(r)} : counters'[k] = counters[k]
        /\ counters' \in [Keys -> Counter]
    BY <1>1, <1>3, <2>1
  <2>3. \A k \in Keys : counters'[k].n = 0 => counters'[k].expires = None
    BY <1>3, <2>2 DEF BaseInv, TypeOK
  <2>4. WindowInv'
    BY <1>3, <2>1, <2>2 DEF BaseInv, WindowInv, WindowEnd
  <2> QED
    BY <2>2, <2>3, <2>4
<1>4. CASE pc[r] = "incr" /\ counters' = [counters EXCEPT ![Key(r)] = Incremented(Key(r))]
  <2>1. Key(r) \in Keys /\ Key(r)[3] = Label(clock[r])
    BY <1>4, KeyFacts
  <2>2. PICK k \in Keys : k = Key(r)
    BY <2>1
  <2>3. PICK c \in Counter : c = Incremented(k) /\ c.n = Current(k).n + 1
                             /\ c.expires = Current(k).expires
    BY CounterFacts
  <2>4. c.n # 0
    BY <2>3, CounterFacts DEF Counter
  <2>5. c.expires # None => c.expires >= WindowEnd(Label(clock[r]))
    BY <2>1, <2>2, <2>3, CounterFacts DEF BaseInv, WindowInv
  <2> QED
    BY <1>3, <1>4, <2>2, <2>3, <2>4, <2>5
<1>5. CASE pc[r] = "expire" /\ counters' = [counters EXCEPT ![Key(r)] = Expired(Key(r))]
  <2>1. Key(r) \in Keys /\ Key(r)[3] = Label(clock[r])
    BY <1>5, KeyFacts
  <2>2. PICK k \in Keys : k = Key(r)
    BY <2>1
  <2>3. PICK c \in Counter : c = Expired(k)
    BY CounterFacts
  <2>4. /\ c.n = 0 => c.expires = None
        /\ c.expires # None => c.expires = now + TTL
    BY <2>3, CounterFacts
  <2>5. now + TTL >= WindowEnd(Label(clock[r]))
    <3>1. clock[r] \in Nat /\ now \in Nat /\ clock[r] <= now + MaxLead
      BY <1>5 DEF BaseInv, StepInv, TypeOK
    <3>2. PICK w \in Nat : w = Label(clock[r]) /\ w * Window <= clock[r]
      BY <3>1, LabelFacts
    <3>3. PICK m \in Int : m = w * Window /\ (w + 1) * Window = m + Window
      BY Numbers
    <3>4. WindowEnd(w) = m + Window + Second - MaxLead
      BY <3>3 DEF WindowEnd
    <3>5. now + (Window + Second) >= m + Window + Second - MaxLead
      BY <3>1, <3>2, <3>3, Numbers
    <3> QED
      BY <3>2, <3>4, <3>5 DEF TTL
  <2> QED
    BY <1>3, <1>5, <2>2, <2>3, <2>4, <2>5
<1> QED
  BY <1>2, <1>4, <1>5 DEF CounterStep

\* Retry-After is positive, and leads out of the window but for a second.
LEMMA RetryFacts ==
  ASSUME NEW t \in Nat
  PROVE  /\ RetryAfter(t) \in Nat /\ RetryAfter(t) > 0
         /\ Label(t + RetryAfter(t) * Second + Second - 1) # Label(t)
<1>1. PICK w \in Nat : w = Label(t) /\ w * Window <= t /\ t < w * Window + Window
  BY LabelFacts
<1>2. PICK m \in Int : m = w * Window /\ (w + 1) * Window = m + Window
  BY Numbers
<1>3. PICK left \in Nat : left = m + Window - t /\ left > 0
  BY <1>1, <1>2, Numbers
<1>4. PICK d \in Nat : d = left \div Second /\ d * Second <= left /\ left < d * Second + Second
  BY Numbers
<1>5. RetryAfter(t) = IF d < 1 THEN 1 ELSE d
  <2>1. (w + 1) * Window - t = left
    BY <1>2, <1>3, Numbers
  <2>2. (Label(t) + 1) * Window - t = left
    BY <1>1, <2>1
  <2> QED
    BY <1>4, <2>2 DEF RetryAfter
<1>6. PICK a \in Nat : a = RetryAfter(t) /\ a > 0 /\ a >= d
  BY <1>5
<1>7. PICK x \in Int, y \in Int : x = a * Second /\ y = d * Second
  BY Numbers
<1>8. x >= y /\ x >= Second
  BY <1>6, <1>7, Numbers
<1>9. PICK u \in Nat : u = t + x + Second - 1
  BY <1>8, Numbers
<1>10. u >= m + Window
  BY <1>3, <1>4, <1>7, <1>8, <1>9, Numbers
<1>11. PICK v \in Nat : v = Label(u) /\ u < v * Window + Window
  BY LabelFacts
<1>12. (v + 1) * Window = v * Window + Window /\ v * Window \in Int
  BY Numbers
<1>13. (w + 1) * Window < (v + 1) * Window
  BY <1>2, <1>10, <1>11, <1>12, Numbers
<1>14. w + 1 < v + 1
  BY <1>13, Numbers
<1> QED
  BY <1>1, <1>6, <1>7, <1>9, <1>11, <1>14

-----------------------------------------------------------------------------
(* The requests *)

\* The types of what the requests are at, and the requests a step of r leaves.
Typed ==
  /\ pc \in [Requests -> {"scope", "incr", "expire", "done"}]
  /\ stage \in [Requests -> Nat]
  /\ clock \in [Requests -> Nat]
  /\ answer \in [Requests -> {200, 429, 500, None}]
  /\ told \in [Requests -> Nat]
  /\ spent \in 0..MaxFaults

Frame(r) ==
  \A s \in Requests \ {r} :
    /\ pc'[s] = pc[s] /\ stage'[s] = stage[s] /\ clock'[s] = clock[s]
    /\ answer'[s] = answer[s] /\ told'[s] = told[s]

Answered(r) == answer[r] = 429 => told[r] > 0

\* What a step of r that takes no time has to keep.
LEMMA BaseStep ==
  ASSUME BaseInv, NEW r \in Requests, CounterStep(r), now' = now, Typed', Frame(r),
         stage'[r] \in 1..Len(Route[r]) + 1, Answered(r)', StepInv(r)'
  PROVE  BaseInv'
<1>1. counters' \in [Keys -> [n : Nat, expires : Nat \cup {None}]] /\ WindowInv'
      /\ \A k \in Keys : counters'[k].n = 0 => counters'[k].expires = None
  BY CountersKept DEF Counter
<1>2. \A s \in Requests : stage'[s] \in 1..Len(Route[s]) + 1
  <2>1. \A s \in Requests : stage[s] \in 1..Len(Route[s]) + 1
    BY DEF BaseInv, TypeOK
  <2> QED
    BY <2>1 DEF Frame
<1>3. \A s \in Requests : answer'[s] = 429 => told'[s] > 0
  <2>1. \A s \in Requests : answer[s] = 429 => told[s] > 0
    BY DEF BaseInv, TypeOK
  <2> QED
    BY <2>1 DEF Frame, Answered
<1>4. TypeOK'
  <2>1. now' \in 0..MaxTime
    BY DEF BaseInv, TypeOK
  <2> QED
    BY <1>1, <1>2, <1>3, <2>1 DEF Typed, TypeOK
<1>5. ASSUME NEW s \in Requests \ {r} PROVE StepInv(s)'
  <2>1. StepInv(s)
    BY <1>5 DEF BaseInv
  <2>2. Scope(s)' = Scope(s) /\ RetryAfter(clock[s])' = RetryAfter(clock[s])
    BY <1>5 DEF Frame, Scope, RetryAfter
  <2> QED
    BY <1>5, <2>1, <2>2 DEF Frame, StepInv
<1> QED
  BY <1>1, <1>4, <1>5 DEF BaseInv

\* The answer of a limit.
LEMMA DecideKeeps ==
  ASSUME BaseInv, NEW r \in Requests, pc[r] \in {"incr", "expire"}, NEW count \in Nat,
         Decide(r, count), CounterStep(r), now' = now, spent' = spent
  PROVE  BaseInv'
<1>0. Typed
  BY DEF BaseInv, TypeOK, Typed
<1>1. /\ pc \in [Requests -> {"scope", "incr", "expire", "done"}]
      /\ stage \in [Requests -> Nat] /\ clock \in [Requests -> Nat]
      /\ answer \in [Requests -> {200, 429, 500, None}] /\ told \in [Requests -> Nat]
      /\ answer[r] = None
      /\ stage[r] \in 1..Len(Route[r]) /\ clock[r] <= MaxTime + MaxLead
  BY <1>0 DEF BaseInv, StepInv, Typed
<1>2. CASE count <= Limit[Scope(r)]
  <2>1. /\ pc' = [pc EXCEPT ![r] = "scope"] /\ stage' = [stage EXCEPT ![r] = @ + 1]
        /\ clock' = [clock EXCEPT ![r] = 0] /\ answer' = answer /\ told' = told
    BY <1>2 DEF Decide, Goto
  <2>2. /\ pc'[r] = "scope" /\ stage'[r] = stage[r] + 1 /\ clock'[r] = 0
        /\ stage'[r] \in 1..Len(Route[r]) + 1
    BY <1>1, <2>1
  <2>3. 429 # None
    BY LimiterConstantsOK
  <2>4. StepInv(r)'
    BY <1>1, <2>1, <2>2, <2>3, Numbers DEF StepInv
  <2>5. Typed'
    BY <1>0, <2>1 DEF Typed
  <2>6. Frame(r)
    BY <1>1, <2>1 DEF Frame
  <2>7. Answered(r)'
    BY <1>1, <2>1, <2>3 DEF Answered
  <2> QED
    BY <2>2, <2>4, <2>5, <2>6, <2>7, BaseStep
<1>3. CASE ~(count <= Limit[Scope(r)])
  <2>1. PICK a \in Nat : a = RetryAfter(clock[r]) /\ a > 0
    <3>1. PICK t \in Nat : t = clock[r]
      BY <1>1
    <3>2. RetryAfter(t) \in Nat /\ RetryAfter(t) > 0
      BY RetryFacts
    <3> QED
      BY <3>1, <3>2
  <2>2. /\ pc' = [pc EXCEPT ![r] = "done"] /\ answer' = [answer EXCEPT ![r] = 429]
        /\ told' = [told EXCEPT ![r] = a] /\ stage' = stage /\ clock' = clock
    BY <1>3, <2>1 DEF Decide, Goto
  <2>3. pc'[r] = "done" /\ answer'[r] = 429 /\ told'[r] = a
    BY <1>1, <2>2
  <2>4. RetryAfter(clock[r])' = RetryAfter(clock[r])
    BY <2>2 DEF RetryAfter
  <2>5. StepInv(r)'
    BY <1>1, <2>1, <2>2, <2>3, <2>4 DEF StepInv
  <2>6. Typed'
    BY <1>0, <2>1, <2>2 DEF Typed
  <2>7. Frame(r)
    BY <1>1, <2>2 DEF Frame
  <2>8. stage'[r] \in 1..Len(Route[r]) + 1
    BY <1>1, <2>2
  <2>9. Answered(r)'
    BY <2>1, <2>3 DEF Answered
  <2> QED
    BY <2>5, <2>6, <2>7, <2>8, <2>9, BaseStep
<1> QED
  BY <1>2, <1>3

\* The calls of r count, or set the time to live.
LEMMA CallsCount ==
  ASSUME BaseInv, NEW r \in Requests,
         Incr(r) \/ Expire(r) \/ IncrRepeated(r) \/ CallFails(r)
  PROVE  CounterStep(r)
BY DEF Incr, Expire, IncrRepeated, CallFails, CounterStep

\* Each step of a request.
LEMMA RequestKeepsBase ==
  ASSUME BaseInv, NEW r \in Requests, Handle(r) \/ IncrRepeated(r) \/ CallFails(r)
  PROVE  BaseInv'
<1>0. Typed /\ stage[r] \in 1..Len(Route[r]) + 1
  BY DEF BaseInv, TypeOK, Typed
<1>1. /\ pc \in [Requests -> {"scope", "incr", "expire", "done"}]
      /\ stage \in [Requests -> Nat] /\ clock \in [Requests -> Nat]
      /\ answer \in [Requests -> {200, 429, 500, None}] /\ told \in [Requests -> Nat]
      /\ spent \in 0..MaxFaults /\ now \in 0..MaxTime
      /\ stage[r] \in 1..Len(Route[r]) + 1 /\ Len(Route[r]) \in Nat
  BY LimiterConstantsOK DEF BaseInv, TypeOK
<1>2. StepInv(r) /\ 429 # None /\ Answered(r)
  BY LimiterConstantsOK DEF BaseInv, TypeOK, Answered
<1>3. CASE Unlimited(r)
  <2>1. /\ pc[r] = "scope" /\ stage[r] <= Len(Route[r]) /\ stage' = [stage EXCEPT ![r] = @ + 1]
        /\ now' = now /\ counters' = counters /\ pc' = pc /\ clock' = clock
        /\ answer' = answer /\ told' = told /\ spent' = spent
    BY <1>3 DEF Unlimited
  <2>2. stage'[r] \in 1..Len(Route[r]) + 1
    BY <1>1, <2>1
  <2>3. StepInv(r)'
    BY <1>2, <2>1 DEF StepInv
  <2>4. Typed'
    BY <1>0, <2>1 DEF Typed
  <2>5. Frame(r)
    BY <1>1, <2>1 DEF Frame
  <2>6. Answered(r)' /\ CounterStep(r)
    BY <1>2, <2>1 DEF Answered, CounterStep
  <2> QED
    BY <2>1, <2>2, <2>3, <2>4, <2>5, <2>6, BaseStep
<1>4. CASE Serve(r)
  <2>1. /\ pc' = [pc EXCEPT ![r] = "done"] /\ answer' = [answer EXCEPT ![r] = 200]
        /\ now' = now /\ counters' = counters /\ stage' = stage /\ clock' = clock
        /\ told' = told /\ spent' = spent
    BY <1>4 DEF Serve, Goto
  <2>2. pc'[r] = "done" /\ answer'[r] = 200
    BY <1>1, <2>1
  <2>3. StepInv(r)'
    BY <1>2, <2>1, <2>2 DEF StepInv
  <2>4. Typed'
    BY <1>0, <2>1 DEF Typed
  <2>5. Frame(r)
    BY <1>1, <2>1 DEF Frame
  <2>6. Answered(r)' /\ CounterStep(r) /\ stage'[r] \in 1..Len(Route[r]) + 1
    BY <1>0, <2>1, <2>2 DEF Answered, CounterStep
  <2> QED
    BY <2>1, <2>3, <2>4, <2>5, <2>6, BaseStep
<1>5. CASE ReadClock(r)
  <2>1. Lead[r] \in 0..MaxLead
    BY LimiterConstantsOK
  <2>2. PICK t \in Nat : t = now + Lead[r] /\ t <= now + MaxLead /\ t <= MaxTime + MaxLead
    BY <1>1, <2>1, Numbers
  <2>3. /\ pc[r] = "scope" /\ stage[r] <= Len(Route[r]) /\ Limit[Scope(r)] > 0
        /\ pc' = [pc EXCEPT ![r] = "incr"] /\ clock' = [clock EXCEPT ![r] = t]
        /\ now' = now /\ counters' = counters /\ stage' = stage
        /\ answer' = answer /\ told' = told /\ spent' = spent
    BY <1>5, <2>2 DEF ReadClock, Goto
  <2>4. pc'[r] = "incr" /\ clock'[r] = t
    BY <1>1, <2>3
  <2>5. Scope(r)' = Scope(r) /\ stage[r] \in 1..Len(Route[r])
    BY <1>1, <2>3 DEF Scope
  <2>6. StepInv(r)'
    BY <1>2, <2>2, <2>3, <2>4, <2>5 DEF StepInv
  <2>7. Typed'
    BY <1>0, <2>3 DEF Typed
  <2>8. Frame(r)
    BY <1>1, <2>3 DEF Frame
  <2>9. Answered(r)' /\ CounterStep(r) /\ stage'[r] \in 1..Len(Route[r]) + 1
    BY <1>0, <1>2, <2>3 DEF Answered, CounterStep
  <2> QED
    BY <2>3, <2>6, <2>7, <2>8, <2>9, BaseStep
<1>6. CASE Incr(r)
  <2>1. /\ pc[r] = "incr" /\ CounterStep(r) /\ now' = now /\ spent' = spent
        /\ pc[r] \in {"incr", "expire"}
    BY <1>6, CallsCount DEF Incr
  <2>2. PICK count \in Nat : count = Incremented(Key(r)).n
    BY <2>1, KeyFacts, CounterFacts DEF Counter
  <2>3. CASE First(count)
    <3>1. /\ pc' = [pc EXCEPT ![r] = "expire"] /\ stage' = stage /\ clock' = clock
          /\ answer' = answer /\ told' = told
      BY <1>6, <2>2, <2>3 DEF Incr, Goto
    <3>2. pc'[r] = "expire"
      BY <1>1, <3>1
    <3>3. Scope(r)' = Scope(r)
      BY <3>1 DEF Scope
    <3>4. StepInv(r)'
      BY <1>2, <2>1, <3>1, <3>2, <3>3 DEF StepInv
    <3>5. Typed'
      BY <1>0, <2>1, <3>1 DEF Typed
    <3>6. Frame(r)
      BY <1>1, <3>1 DEF Frame
    <3>7. Answered(r)' /\ stage'[r] \in 1..Len(Route[r]) + 1
      BY <1>0, <1>2, <3>1 DEF Answered
    <3> QED
      BY <2>1, <3>4, <3>5, <3>6, <3>7, BaseStep
  <2>4. CASE ~First(count)
    <3>1. Decide(r, count)
      BY <1>6, <2>2, <2>4 DEF Incr
    <3> QED
      BY <2>1, <3>1, DecideKeeps
  <2> QED
    BY <2>3, <2>4
<1>7. CASE Expire(r)
  <2>1. CounterStep(r) /\ pc[r] \in {"incr", "expire"} /\ now' = now /\ spent' = spent
    BY <1>7, CallsCount DEF Expire
  <2>2. PICK count \in Nat : count = 1
    OBVIOUS
  <2>3. Decide(r, count)
    BY <1>7, <2>2 DEF Expire
  <2> QED
    BY <2>1, <2>3, DecideKeeps
<1>8. CASE IncrRepeated(r)
  <2>1. /\ CounterStep(r) /\ pc' = pc /\ stage' = stage /\ clock' = clock
        /\ now' = now /\ answer' = answer /\ told' = told /\ spent < MaxFaults /\ spent' = spent + 1
    BY <1>8, CallsCount DEF IncrRepeated, Fault
  <2>2. spent' \in 0..MaxFaults
    BY <1>1, <2>1, Numbers
  <2>3. StepInv(r)'
    <3>1. Scope(r)' = Scope(r)
      BY <2>1 DEF Scope
    <3> QED
      BY <1>2, <2>1, <3>1 DEF StepInv
  <2>4. Typed'
    BY <1>0, <2>1, <2>2 DEF Typed
  <2>5. Frame(r)
    BY <2>1 DEF Frame
  <2>6. Answered(r)' /\ stage'[r] \in 1..Len(Route[r]) + 1
    BY <1>0, <1>2, <2>1 DEF Answered
  <2> QED
    BY <2>1, <2>3, <2>4, <2>5, <2>6, BaseStep
<1>9. CASE CallFails(r)
  <2>1. /\ CounterStep(r) /\ pc' = [pc EXCEPT ![r] = "done"] /\ answer' = [answer EXCEPT ![r] = 500]
        /\ now' = now /\ stage' = stage /\ clock' = clock
        /\ told' = told /\ spent < MaxFaults /\ spent' = spent + 1
    BY <1>9, CallsCount DEF CallFails, Fault, Goto
  <2>2. pc'[r] = "done" /\ answer'[r] = 500
    BY <1>1, <2>1
  <2>3. spent' \in 0..MaxFaults
    BY <1>1, <2>1, Numbers
  <2>4. StepInv(r)'
    BY <1>2, <2>1, <2>2 DEF StepInv
  <2>5. Typed'
    BY <1>0, <2>1, <2>3 DEF Typed
  <2>6. Frame(r)
    BY <1>1, <2>1 DEF Frame
  <2>7. Answered(r)' /\ stage'[r] \in 1..Len(Route[r]) + 1
    BY <1>0, <2>1, <2>2 DEF Answered
  <2> QED
    BY <2>1, <2>4, <2>5, <2>6, <2>7, BaseStep
<1> QED
  BY <1>3, <1>4, <1>5, <1>6, <1>7, <1>8, <1>9 DEF Handle

\* Time passes, or nothing happens.
LEMMA QuietKeepsBase ==
  ASSUME BaseInv, UNCHANGED <<counters, pc, stage, clock, answer, told, spent>>,
         now' \in 0..MaxTime, now <= now'
  PROVE  BaseInv'
<1>1. TypeOK'
  BY DEF BaseInv, TypeOK
<1>2. WindowInv'
  BY DEF BaseInv, WindowInv, WindowEnd
<1>3. ASSUME NEW s \in Requests PROVE StepInv(s)'
  <2>1. /\ StepInv(s) /\ Scope(s)' = Scope(s) /\ RetryAfter(clock[s])' = RetryAfter(clock[s])
        /\ now \in Int /\ now' \in Int /\ clock[s] \in Int
    BY <1>3 DEF BaseInv, TypeOK, Scope, RetryAfter
  <2> QED
    BY <2>1, Numbers DEF StepInv
<1> QED
  BY <1>1, <1>2, <1>3 DEF BaseInv

LEMMA NextKeepsBase == BaseInv /\ [Next]_vars => BaseInv'
<1> SUFFICES ASSUME BaseInv, [Next]_vars PROVE BaseInv'
  OBVIOUS
<1>1. now \in 0..MaxTime /\ now <= now
  BY DEF BaseInv, TypeOK
<1>2. CASE Tick
  <2>1. now' \in 0..MaxTime /\ now <= now'
    BY <1>1, <1>2, Numbers DEF Tick
  <2> QED
    BY <1>2, <2>1, QuietKeepsBase DEF Tick
<1>3. CASE UNCHANGED vars
  <2>1. UNCHANGED <<counters, pc, stage, clock, answer, told, spent>> /\ now' = now
    BY <1>3 DEF vars
  <2> QED
    BY <1>1, <2>1, QuietKeepsBase
<1> QED
  BY <1>2, <1>3, RequestKeepsBase DEF Next, Finished

-----------------------------------------------------------------------------
(* Counters without a time to live *)

\* A set that has at most one element more.
LEMMA OneMore ==
  ASSUME NEW S, NEW T, NEW x, IsFiniteSet(S), T \subseteq S \cup {x}
  PROVE  IsFiniteSet(T) /\ Cardinality(T) \in Nat /\ Cardinality(T) <= Cardinality(S) + 1
<1>1. Cardinality(S) \in Nat
  BY FS_CardinalityType
<1>2. /\ IsFiniteSet(S \cup {x})
      /\ Cardinality(S \cup {x}) = IF x \in S THEN Cardinality(S) ELSE Cardinality(S) + 1
  BY FS_AddElement
<1>3. IsFiniteSet(T) /\ Cardinality(T) <= Cardinality(S \cup {x})
  BY <1>2, FS_Subset
<1>4. Cardinality(T) \in Nat
  BY <1>3, FS_CardinalityType
<1> QED
  BY <1>1, <1>2, <1>3, <1>4

\* The requests other than r are where they were.
OthersStay(r) ==
  \A s \in Requests \ {r} : pc'[s] = pc[s] /\ stage'[s] = stage[s] /\ clock'[s] = clock[s]

\* A leak that is there after the step of r was there before, if its counter is
\* the same and r was not about to set its time to live.
LEMMA LeakWasThere ==
  ASSUME NEW r \in Requests, NEW k \in Leaks', counters'[k] = counters[k],
         OthersStay(r), pc[r] = "expire" => Key(r) # k
  PROVE  k \in Leaks
<1>1. \A s \in Requests \ {r} : Key(s)' = Key(s)
  BY DEF OthersStay, Key, Scope
<1> QED
  BY <1>1 DEF Leaks, OthersStay

\* A counter is reset by Redis only when its time is up.
LEMMA CurrentIsCounter ==
  ASSUME BaseInv, NEW k \in Keys, Current(k).n # 0
  PROVE  Current(k) = counters[k]
BY DEF Current

LEMMA OthersStayStep ==
  ASSUME BaseInv, NEW r \in Requests, Handle(r) \/ IncrRepeated(r) \/ CallFails(r)
  PROVE  OthersStay(r)
<1>1. pc \in [Requests -> {"scope", "incr", "expire", "done"}]
      /\ stage \in [Requests -> Nat] /\ clock \in [Requests -> Nat]
  BY DEF BaseInv, TypeOK
<1> QED
  BY <1>1 DEF Handle, Unlimited, Serve, ReadClock, Incr, Expire, IncrRepeated, CallFails,
     Decide, Goto, OthersStay

\* A request whose calls succeed leaves no counter without a time to live.
LEMMA HandleLeaksNot ==
  ASSUME BaseInv, NEW r \in Requests, Handle(r)
  PROVE  Leaks' \subseteq Leaks
<1> SUFFICES ASSUME NEW k \in Leaks' PROVE k \in Leaks
  OBVIOUS
<1>1. OthersStay(r)
  BY OthersStayStep
<1>2. k \in Keys /\ counters'[k].n > 0 /\ counters'[k].expires = None
      /\ (pc'[r] = "expire" => Key(r)' # k)
  BY DEF Leaks
<1>3. counters \in [Keys -> Counter] /\ pc \in [Requests -> {"scope", "incr", "expire", "done"}]
  BY DEF BaseInv, TypeOK, Counter
<1>4. CASE Unlimited(r) \/ Serve(r) \/ ReadClock(r)
  BY <1>1, <1>4, LeakWasThere DEF Unlimited, Serve, ReadClock
<1>5. CASE Incr(r)
  <2>1. /\ pc[r] = "incr" /\ Key(r) \in Keys
        /\ counters' = [counters EXCEPT ![Key(r)] = Incremented(Key(r))]
    BY <1>5, KeyFacts DEF Incr
  <2>2. CASE k # Key(r)
    BY <1>1, <1>2, <1>3, <2>1, <2>2, LeakWasThere
  <2>3. CASE k = Key(r)
    <3>1. counters'[k] = Incremented(k)
      BY <1>2, <1>3, <2>1, <2>3
    <3>2. ~First(Incremented(k).n)
      <4>1. First(Incremented(k).n) => pc'[r] = "expire" /\ Key(r)' = Key(r)
        BY <1>3, <1>5, <2>3 DEF Incr, Goto, Key, Scope
      <4> QED
        BY <1>2, <2>3, <4>1
    <3>3. Current(k) \in Counter /\ Current(k).n # 0 /\ Current(k).expires = None
      BY <1>2, <3>1, <3>2, CounterFacts DEF First, Counter
    <3>4. counters[k].n > 0 /\ counters[k].expires = None
      BY <1>2, <3>3, CurrentIsCounter DEF Counter
    <3>5. \A s \in Requests : pc[s] = "expire" => Key(s) # k
      <4>1. \A s \in Requests \ {r} : Key(s)' = Key(s) /\ pc'[s] = pc[s]
        BY <1>1 DEF OthersStay, Key, Scope
      <4> QED
        BY <2>1, <4>1 DEF Leaks
    <3> QED
      BY <1>2, <3>4, <3>5 DEF Leaks
  <2> QED
    BY <2>2, <2>3
<1>6. CASE Expire(r)
  <2>1. /\ pc[r] = "expire" /\ Key(r) \in Keys
        /\ counters' = [counters EXCEPT ![Key(r)] = Expired(Key(r))]
    BY <1>6, KeyFacts DEF Expire
  <2>2. CASE k # Key(r)
    BY <1>1, <1>2, <1>3, <2>1, <2>2, LeakWasThere
  <2>3. CASE k = Key(r)
    <3>1. counters'[k] = Expired(k)
      BY <1>2, <1>3, <2>1, <2>3
    <3>2. Current(k).n # 0 /\ Expired(k).expires = now + TTL
      BY <1>2, <3>1, CounterFacts
    <3>3. now + TTL \in Nat
      BY Numbers DEF BaseInv, TypeOK, TTL
    <3> QED
      BY <1>2, <3>1, <3>2, <3>3, LimiterConstantsOK
  <2> QED
    BY <2>2, <2>3
<1> QED
  BY <1>4, <1>5, <1>6 DEF Handle

\* A failure leaves at most the counter it is about.
LEMMA FaultLeaksOne ==
  ASSUME BaseInv, NEW r \in Requests, IncrRepeated(r) \/ CallFails(r)
  PROVE  Leaks' \subseteq Leaks \cup {Key(r)}
<1> SUFFICES ASSUME NEW k \in Leaks', k # Key(r) PROVE k \in Leaks
  OBVIOUS
<1>1. OthersStay(r)
  BY OthersStayStep
<1>2. k \in Keys /\ counters \in [Keys -> Counter]
  BY DEF Leaks, BaseInv, TypeOK, Counter
<1>3. counters'[k] = counters[k]
  BY <1>2 DEF IncrRepeated, CallFails
<1> QED
  BY <1>1, <1>3, LeakWasThere

LEMMA NextKeepsLeaks == BaseInv /\ LeakInv /\ [Next]_vars => LeakInv'
<1> SUFFICES ASSUME BaseInv, LeakInv, [Next]_vars PROVE LeakInv'
  OBVIOUS
<1>1. PICK S : S = Leaks
  OBVIOUS
<1>2. PICK T : T = Leaks'
  OBVIOUS
<1>3. IsFiniteSet(S) /\ Cardinality(S) <= spent /\ Cardinality(S) \in Nat /\ spent \in Nat
  BY <1>1, FS_CardinalityType DEF LeakInv, BaseInv, TypeOK
<1>4. CASE T \subseteq S /\ spent' = spent
  <2>1. IsFiniteSet(T) /\ Cardinality(T) <= Cardinality(S) /\ Cardinality(T) \in Nat
    BY <1>3, <1>4, FS_Subset, FS_CardinalityType
  <2> QED
    BY <1>2, <1>3, <1>4, <2>1 DEF LeakInv
<1>5. ASSUME NEW r \in Requests, IncrRepeated(r) \/ CallFails(r) PROVE LeakInv'
  <2>1. T \subseteq S \cup {Key(r)} /\ spent' = spent + 1
    BY <1>1, <1>2, <1>5, FaultLeaksOne DEF IncrRepeated, CallFails, Fault
  <2>2. IsFiniteSet(T) /\ Cardinality(T) \in Nat /\ Cardinality(T) <= Cardinality(S) + 1
    BY <1>3, <2>1, OneMore
  <2> QED
    BY <1>2, <1>3, <2>1, <2>2 DEF LeakInv
<1>6. ASSUME NEW r \in Requests, Handle(r) PROVE T \subseteq S /\ spent' = spent
  BY <1>1, <1>2, <1>6, HandleLeaksNot
  DEF Handle, Unlimited, Serve, ReadClock, Incr, Expire
<1>7. ASSUME UNCHANGED <<counters, pc, stage, clock, spent>> PROVE T \subseteq S /\ spent' = spent
  <2>1. \A s \in Requests : Key(s)' = Key(s)
    BY <1>7 DEF Key, Scope
  <2> QED
    BY <1>1, <1>2, <1>7, <2>1 DEF Leaks
<1> QED
  BY <1>4, <1>5, <1>6, <1>7 DEF Next, Tick, Finished, vars

-----------------------------------------------------------------------------
(* The increments *)

\* While an increment of its window is in time, a counter has not expired.
LEMMA CurrentInTime ==
  ASSUME BaseInv, NEW k \in Keys, InTime(k[3])
  PROVE  Current(k) = counters[k]
<1>1. k[3] \in Nat
  BY DEF Keys, Labels
<1>2. PICK e : e = WindowEnd(k[3])
  OBVIOUS
<1>3. now < e /\ e \in Int /\ now \in Int
  <2>1. PICK w \in Nat : w = k[3]
    BY <1>1
  <2>2. (w + 1) * Window \in Int
    BY Numbers
  <2>3. WindowEnd(w) \in Int
    BY <2>2, Numbers DEF WindowEnd
  <2> QED
    BY <1>2, <2>1, <2>3 DEF InTime, WindowEnd, BaseInv, TypeOK
<1>4. counters[k].expires # None => counters[k].expires >= e /\ counters[k].expires \in Nat
  BY <1>2 DEF BaseInv, WindowInv, TypeOK
<1> QED
  BY <1>3, <1>4 DEF Current

\* Until then it only grows.
LEMMA CountsGrow ==
  ASSUME BaseInv, NEW r \in Requests, CounterStep(r), NEW k \in Keys, InTime(k[3])
  PROVE  counters'[k].n >= counters[k].n
<1>1. counters \in [Keys -> Counter] /\ counters[k].n \in Nat
  BY DEF BaseInv, TypeOK, Counter
<1>2. /\ Current(k) = counters[k]
      /\ Incremented(k).n = counters[k].n + 1 /\ Expired(k).n = counters[k].n
  BY CurrentInTime, CounterFacts
<1>3. counters'[k] = counters[k] \/ counters'[k] = Incremented(k) \/ counters'[k] = Expired(k)
  BY <1>1 DEF CounterStep
<1> QED
  BY <1>1, <1>2, <1>3

\* A request has not yet counted at the limit where it is about to.
LEMMA NotYetCounted ==
  ASSUME BaseInv, HitsInv, NEW r \in Requests, pc[r] = "incr"
  PROVE  \A h \in hits : h.req = r => h.scope # Scope(r)
<1> SUFFICES ASSUME NEW h \in hits, h.req = r PROVE h.scope # Scope(r)
  OBVIOUS
<1>1. PICK i \in 1..Len(Route[r]) : h.scope = Route[r][i] /\ i # stage[r]
  BY DEF HitsInv, PastInv
<1>2. stage[r] \in 1..Len(Route[r])
  BY DEF BaseInv, StepInv
<1>3. DOMAIN Route[r] = 1..Len(Route[r])
  BY LimiterConstantsOK
<1> QED
  BY <1>1, <1>2, <1>3, LimiterConstantsOK DEF Scope

\* A request moves on, or stays and has counted.
MovesOn(r) ==
  \/ stage'[r] = stage[r] + 1
  \/ stage'[r] = stage[r] /\ (pc[r] \in {"expire", "done"} => pc'[r] \in {"expire", "done"})

LEMMA PastKept ==
  ASSUME BaseInv, HitsInv, NEW r \in Requests, OthersStay(r), MovesOn(r), NEW h \in hits
  PROVE  PastInv(h)'
<1>1. PICK i \in 1..Len(Route[h.req]) :
        /\ h.scope = Route[h.req][i] /\ i <= stage[h.req]
        /\ i = stage[h.req] => pc[h.req] \in {"expire", "done"}
  BY DEF HitsInv, PastInv
<1>2. h.req \in Requests
  BY DEF HitsInv
<1>3. stage[h.req] \in Nat /\ Len(Route[h.req]) \in Nat
  BY <1>2, LimiterConstantsOK DEF BaseInv, TypeOK
<1>4. CASE h.req # r
  BY <1>1, <1>2, <1>4 DEF OthersStay, PastInv
<1>5. CASE h.req = r
  BY <1>1, <1>3, <1>5 DEF MovesOn, PastInv
<1> QED
  BY <1>4, <1>5

\* Every step of a request moves it on.
LEMMA RequestMovesOn ==
  ASSUME BaseInv, NEW r \in Requests, Handle(r) \/ IncrRepeated(r) \/ CallFails(r)
  PROVE  MovesOn(r)
<1>1. pc \in [Requests -> {"scope", "incr", "expire", "done"}]
      /\ stage \in [Requests -> Nat]
  BY DEF BaseInv, TypeOK
<1> QED
  BY <1>1 DEF Handle, Unlimited, Serve, ReadClock, Incr, Expire, IncrRepeated, CallFails,
     Decide, Goto, MovesOn

\* The steps that count nothing of their own.
LEMMA OthersKeepHits ==
  ASSUME BaseInv, HitsInv, NEW r \in Requests, OthersStay(r), MovesOn(r), CounterStep(r),
         hits' = hits, now' = now
  PROVE  HitsInv'
<1>1. \A h \in hits : PastInv(h)'
  BY PastKept
<1>2. ASSUME NEW h \in hits, h.inTime, InTime(h.label)
      PROVE  h.count <= counters'[HitKey(h)].n
  <2>1. HitKey(h) \in Keys /\ HitKey(h)[3] = h.label /\ h.count \in Nat
    BY DEF HitsInv, HitKey, Keys, Clients
  <2>2. h.count <= counters[HitKey(h)].n
    BY <1>2 DEF HitsInv
  <2>3. counters'[HitKey(h)].n >= counters[HitKey(h)].n
    BY <1>2, <2>1, CountsGrow
  <2>4. counters[HitKey(h)].n \in Nat
    BY <2>1 DEF BaseInv, TypeOK
  <2>5. counters'[HitKey(h)].n \in Nat
    <3>1. counters' \in [Keys -> Counter]
      BY CountersKept
    <3> QED
      BY <2>1, <3>1 DEF Counter
  <2> QED
    BY <2>1, <2>2, <2>3, <2>4, <2>5
<1>3. \A h \in hits : InTime(h.label)' <=> InTime(h.label)
  BY DEF InTime
<1>4. \A h \in hits : h.inTime /\ InTime(h.label)' => h.count <= counters'[HitKey(h)].n
  BY <1>2, <1>3
<1> QED
  BY <1>1, <1>4 DEF HitsInv, HitKey

\* The increment of r, as it is remembered.
Hit(r) ==
  [req |-> r, scope |-> Scope(r), label |-> Label(clock[r]),
   count |-> Incremented(Key(r)).n, inTime |-> InTime(Label(clock[r]))]

LEMMA HitFacts ==
  ASSUME BaseInv, HitsInv, NEW r \in Requests, pc[r] = "incr"
  PROVE  /\ Hit(r) \in [req : Requests, scope : Scopes, label : Labels, count : Nat \ {0},
                        inTime : BOOLEAN]
         /\ Hit(r) \notin hits /\ HitKey(Hit(r)) = Key(r) /\ Hit(r).req = r
         /\ Hit(r).count = Current(Key(r)).n + 1 /\ Hit(r).count = Incremented(Key(r)).n
         /\ Hit(r).label = Key(r)[3] /\ (Hit(r).inTime <=> InTime(Key(r)[3]))
         /\ Hit(r).scope = Scope(r)
         /\ \A h \in HitsAt(Key(r)) : h.req # r
<1>1. /\ Key(r) \in Keys /\ Key(r)[3] = Label(clock[r]) /\ Scope(r) \in Scopes
      /\ Label(clock[r]) \in Labels
  BY KeyFacts
<1>2. Incremented(Key(r)).n \in Nat \ {0} /\ Incremented(Key(r)).n = Current(Key(r)).n + 1
  BY <1>1, CounterFacts DEF Counter
<1>3. \A h \in hits : h.req = r => h.scope # Scope(r)
  BY NotYetCounted
<1>4. InTime(Label(clock[r])) \in BOOLEAN
  BY DEF InTime
<1>5. /\ Hit(r).req = r /\ Hit(r).scope = Scope(r) /\ Hit(r).label = Label(clock[r])
      /\ Hit(r).count = Incremented(Key(r)).n /\ (Hit(r).inTime <=> InTime(Label(clock[r])))
  BY DEF Hit
<1>6. HitKey(Hit(r)) = Key(r)
  BY <1>5 DEF HitKey, Key
<1>7. Hit(r) \in [req : Requests, scope : Scopes, label : Labels, count : Nat \ {0},
                  inTime : BOOLEAN]
  BY <1>1, <1>2, <1>4 DEF Hit
<1>8. \A h \in HitsAt(Key(r)) : h.req # r
  BY <1>3 DEF HitsAt, HitKey, Key
<1> QED
  BY <1>1, <1>2, <1>3, <1>5, <1>6, <1>7, <1>8

\* The increment gets a number that no other in time has.
LEMMA IncrKeepsHits ==
  ASSUME BaseInv, HitsInv, NEW r \in Requests, Incr(r)
  PROVE  HitsInv'
<1>1. /\ pc[r] = "incr" /\ hits' = hits \cup {Hit(r)} /\ now' = now /\ CounterStep(r)
      /\ counters' = [counters EXCEPT ![Key(r)] = Incremented(Key(r))]
      /\ OthersStay(r) /\ MovesOn(r)
  BY CallsCount, OthersStayStep, RequestMovesOn DEF Incr, Hit, Handle
<1>2. PICK g : g = Hit(r)
  OBVIOUS
<1>3. PICK k \in Keys : k = Key(r)
  BY <1>1, KeyFacts
<1>4. /\ g \in [req : Requests, scope : Scopes, label : Labels, count : Nat \ {0},
               inTime : BOOLEAN]
      /\ HitKey(g) = k /\ g.count = Current(k).n + 1 /\ g.count = Incremented(k).n
      /\ g.req = r /\ g.scope = Scope(r) /\ (g.inTime <=> InTime(k[3]))
  BY <1>1, <1>2, <1>3, HitFacts
<1>5. IsFiniteSet(hits')
  BY <1>1, FS_AddElement DEF HitsInv
<1>6. PastInv(g)'
  <2>1. stage[r] \in 1..Len(Route[r]) /\ g.scope = Route[r][stage[r]]
    BY <1>1, <1>4 DEF BaseInv, StepInv, Scope
  <2>2. stage'[r] = stage[r] + 1 \/ (stage'[r] = stage[r] /\ pc'[r] \in {"expire", "done"})
    BY DEF Incr, Decide, Goto, BaseInv, TypeOK
  <2>3. \E i \in 1..Len(Route[r]) :
          g.scope = Route[r][i] /\ i <= stage'[r] /\ (i = stage'[r] => pc'[r] \in {"expire", "done"})
    BY <2>1, <2>2
  <2> QED
    BY <1>4, <2>3 DEF PastInv
<1>7. \A h \in hits : PastInv(h)'
  BY <1>1, PastKept
<1>8. counters'[k] = Incremented(k)
  BY <1>1, <1>3 DEF BaseInv, TypeOK
<1>9. ASSUME NEW h \in hits, h.inTime, InTime(h.label)
      PROVE  h.count <= counters'[HitKey(h)].n
  <2>1. HitKey(h) \in Keys /\ HitKey(h)[3] = h.label /\ h.count \in Nat
    BY DEF HitsInv, HitKey, Keys, Clients
  <2>2. h.count <= counters[HitKey(h)].n
    BY <1>9 DEF HitsInv
  <2>3. counters'[HitKey(h)].n >= counters[HitKey(h)].n
    BY <1>1, <1>9, <2>1, CountsGrow
  <2>4. counters[HitKey(h)].n \in Nat
    BY <2>1 DEF BaseInv, TypeOK
  <2>5. counters'[HitKey(h)].n \in Nat
    <3>1. counters' \in [Keys -> Counter]
      BY <1>1, CountersKept
    <3> QED
      BY <2>1, <3>1 DEF Counter
  <2> QED
    BY <2>1, <2>2, <2>3, <2>4, <2>5
<1>10. \A h \in hits' : h.inTime /\ InTime(h.label)' => h.count <= counters'[HitKey(h)].n
  <2>1. \A h \in hits : InTime(h.label)' <=> InTime(h.label)
    BY <1>1 DEF InTime
  <2> QED
    BY <1>1, <1>2, <1>4, <1>8, <1>9, <2>1
<1>11. ASSUME NEW h \in hits, h.inTime, g.inTime, HitKey(h) = k PROVE h.count < g.count
  <2>1. h.label = k[3] /\ h.count \in Nat
    BY <1>11 DEF HitKey, HitsInv
  <2>2. h.count <= counters[k].n
    BY <1>4, <1>11, <2>1 DEF HitsInv
  <2>3. Current(k) = counters[k] /\ counters[k].n \in Nat
    <3>1. InTime(k[3])
      BY <1>4, <1>11
    <3>2. counters[k].n \in Nat
      BY DEF BaseInv, TypeOK
    <3> QED
      BY <3>1, <3>2, CurrentInTime
  <2> QED
    BY <1>4, <2>1, <2>2, <2>3
<1>12. \A h \in hits : h.count \in Nat
  BY DEF HitsInv
<1>13. \A h, f \in hits' :
         h.inTime /\ f.inTime /\ HitKey(h) = HitKey(f) /\ h.count = f.count => h = f
  BY <1>1, <1>2, <1>4, <1>11, <1>12 DEF HitsInv
<1>14. hits' \subseteq [req : Requests, scope : Scopes, label : Labels, count : Nat \ {0},
                        inTime : BOOLEAN]
  BY <1>1, <1>2, <1>4 DEF HitsInv
<1>15. \A h \in hits' : PastInv(h)'
  BY <1>1, <1>2, <1>6, <1>7
<1> QED
  BY <1>5, <1>10, <1>13, <1>14, <1>15 DEF HitsInv, HitKey

\* Time passes, or nothing happens: what is in time gets less.
LEMMA QuietKeepsHits ==
  ASSUME BaseInv, HitsInv, UNCHANGED <<counters, pc, stage, hits>>, now' \in Nat, now <= now'
  PROVE  HitsInv'
<1>1. ASSUME NEW h \in hits, InTime(h.label)' PROVE InTime(h.label)
  <2>1. h.label \in Nat /\ now \in Int
    BY DEF HitsInv, Labels, BaseInv, TypeOK
  <2>2. PICK e \in Int : e = (h.label + 1) * Window + Second - MaxLead
    <3>1. PICK w \in Nat : w = h.label
      BY <2>1
    <3>2. (w + 1) * Window + Second - MaxLead \in Int
      BY Numbers
    <3> QED
      BY <3>1, <3>2
  <2> QED
    BY <1>1, <2>1, <2>2 DEF InTime
<1>2. \A h \in hits : PastInv(h)'
  BY DEF HitsInv, PastInv
<1>3. \A h \in hits : h.inTime /\ InTime(h.label)' => h.count <= counters[HitKey(h)].n
  BY <1>1 DEF HitsInv
<1> QED
  BY <1>2, <1>3 DEF HitsInv, HitKey

-----------------------------------------------------------------------------
(* Refusals *)

\* A counter rises by one at most, and only by an increment.
LEMMA CountsRiseByOne ==
  ASSUME BaseInv, NEW r \in Requests, CounterStep(r), NEW k \in Keys
  PROVE  /\ counters[k].n \in Nat /\ counters'[k].n \in Nat
         /\ counters'[k].n <= counters[k].n + 1
         /\ pc[r] # "incr" \/ k # Key(r) => counters'[k].n <= counters[k].n
<1>1. counters \in [Keys -> Counter] /\ counters[k].n \in Nat
  BY DEF BaseInv, TypeOK, Counter
<1>2. counters'[k].n \in Nat
  BY CountersKept DEF Counter
<1>3. /\ Incremented(k).n = Current(k).n + 1 /\ Expired(k).n = Current(k).n
      /\ Current(k).n <= counters[k].n /\ Current(k).n \in Nat
  BY CounterFacts DEF Counter
<1>4. \/ counters'[k] = counters[k]
      \/ counters'[k] = Incremented(k) /\ pc[r] = "incr" /\ k = Key(r)
      \/ counters'[k] = Expired(k)
  BY <1>1 DEF CounterStep
<1> QED
  BY <1>1, <1>2, <1>3, <1>4

\* The increments of a key are finitely many, and stay.
LEMMA HitsAtFinite ==
  ASSUME HitsInv, NEW k
  PROVE  IsFiniteSet(HitsAt(k)) /\ Cardinality(HitsAt(k)) \in Nat
<1>1. IsFiniteSet(HitsAt(k))
  BY FS_Subset DEF HitsInv, HitsAt
<1> QED
  BY <1>1, FS_CardinalityType

\* A refused request stays refused with reason.
LEMMA RefusedStays ==
  ASSUME BaseInv, HitsInv, HitsInv', RefusedInv, hits \subseteq hits',
         spent' \in Nat, spent <= spent', NEW s \in Requests,
         answer'[s] = 429 => answer[s] = 429,
         stage'[s] = stage[s], clock'[s] = clock[s]
  PROVE  answer'[s] = 429 => Cardinality(Others(s)') + spent' >= Limit[Scope(s)']
<1> SUFFICES ASSUME answer'[s] = 429
             PROVE  Cardinality(Others(s)') + spent' >= Limit[Scope(s)']
  OBVIOUS
<1>1. Scope(s)' = Scope(s) /\ Key(s)' = Key(s)
  BY DEF Scope, Key
<1>2. PICK S, T : S = Others(s) /\ T = Others(s)'
  OBVIOUS
<1>3. S \subseteq T
  BY <1>1, <1>2 DEF Others, HitsAt, HitKey
<1>4. IsFiniteSet(T)
  <2>1. IsFiniteSet(hits') /\ T \subseteq hits'
    BY <1>2 DEF HitsInv, Others, HitsAt
  <2> QED
    BY <2>1, FS_Subset
<1>5. IsFiniteSet(S) /\ Cardinality(S) <= Cardinality(T)
  BY <1>3, <1>4, FS_Subset
<1>6. Cardinality(S) \in Nat /\ Cardinality(T) \in Nat
  BY <1>4, <1>5, FS_CardinalityType
<1>7. Cardinality(S) + spent >= Limit[Scope(s)] /\ spent \in Nat
  BY <1>2 DEF RefusedInv, BaseInv, TypeOK
<1>8. Limit[Scope(s)] \in Nat
  <2>1. stage[s] \in 1..Len(Route[s])
    BY DEF BaseInv, StepInv
  <2>2. Scope(s) \in Scopes
    BY <2>1, LimiterConstantsOK DEF Scope
  <2> QED
    BY <2>2, LimiterConstantsOK
<1>9. Cardinality(T) + spent' >= Limit[Scope(s)]
  BY <1>5, <1>6, <1>7, <1>8
<1> QED
  BY <1>1, <1>2, <1>9

\* Steps that count nothing of their own, or count without an answer.
LEMMA OthersKeepFull ==
  ASSUME BaseInv, HitsInv, HitsInv', FullInv, RefusedInv, NEW r \in Requests,
         CounterStep(r), hits' = hits,
         (spent' = spent /\ (pc[r] # "incr" \/ counters' = counters)) \/ spent' = spent + 1,
         OthersStay(r), \A s \in Requests \ {r} : answer'[s] = answer[s], answer'[r] # 429
  PROVE  FullInv' /\ RefusedInv'
<1>1. spent \in Nat /\ spent' \in Nat /\ spent <= spent'
  BY DEF BaseInv, TypeOK
<1>2. ASSUME NEW k \in Keys PROVE counters'[k].n <= Cardinality(HitsAt(k)') + spent'
  <2>1. HitsAt(k)' = HitsAt(k)
    BY DEF HitsAt, HitKey
  <2>2. Cardinality(HitsAt(k)) \in Nat /\ counters[k].n <= Cardinality(HitsAt(k)) + spent
    BY HitsAtFinite DEF FullInv
  <2>3. /\ counters[k].n \in Nat /\ counters'[k].n \in Nat
        /\ counters'[k].n <= counters[k].n + 1
        /\ pc[r] # "incr" \/ k # Key(r) => counters'[k].n <= counters[k].n
    BY CountsRiseByOne
  <2>4. counters'[k].n <= Cardinality(HitsAt(k)) + spent'
    BY <1>1, <2>2, <2>3
  <2> QED
    BY <2>1, <2>4
<1>3. ASSUME NEW s \in Requests, answer'[s] = 429
      PROVE  Cardinality(Others(s)') + spent' >= Limit[Scope(s)']
  <2>1. s # r /\ stage'[s] = stage[s] /\ clock'[s] = clock[s] /\ answer[s] = 429
    BY <1>3 DEF OthersStay
  <2> QED
    BY <1>1, <1>3, <2>1, RefusedStays
<1> QED
  BY <1>2, <1>3 DEF FullInv, RefusedInv

\* An answered increment is one more for its key; when it is refused, the others
\* of its window, and the failures, are as many as the limit.
LEMMA IncrKeepsFull ==
  ASSUME BaseInv, HitsInv, HitsInv', FullInv, RefusedInv, NEW r \in Requests, Incr(r)
  PROVE  FullInv' /\ RefusedInv'
<1>0. spent \in Nat
  BY DEF BaseInv, TypeOK
<1>1. /\ pc[r] = "incr" /\ hits' = hits \cup {Hit(r)} /\ spent' = spent
      /\ CounterStep(r) /\ OthersStay(r) /\ spent \in Nat
  BY <1>0, CallsCount, OthersStayStep DEF Incr, Hit, Handle
<1>2. PICK kr \in Keys : kr = Key(r)
  BY <1>1, KeyFacts
<1>3. PICK g : g = Hit(r)
  OBVIOUS
<1>4. /\ g \notin hits /\ HitKey(g) = kr /\ g.req = r
      /\ g.count = Current(kr).n + 1 /\ g.count = Incremented(kr).n
      /\ \A h \in HitsAt(kr) : h.req # r
  BY <1>1, <1>2, <1>3, HitFacts
<1>5. /\ HitsAt(kr)' = HitsAt(kr) \cup {g} /\ g \notin HitsAt(kr)
      /\ \A k \in Keys \ {kr} : HitsAt(k)' = HitsAt(k)
  BY <1>1, <1>3, <1>4 DEF HitsAt, HitKey
<1>6. ASSUME NEW k \in Keys PROVE counters'[k].n <= Cardinality(HitsAt(k)') + spent'
  <2>1. IsFiniteSet(HitsAt(k)) /\ Cardinality(HitsAt(k)) \in Nat
        /\ counters[k].n <= Cardinality(HitsAt(k)) + spent
    BY HitsAtFinite DEF FullInv
  <2>2. /\ counters[k].n \in Nat /\ counters'[k].n \in Nat
        /\ counters'[k].n <= counters[k].n + 1
        /\ pc[r] # "incr" \/ k # Key(r) => counters'[k].n <= counters[k].n
    BY <1>1, CountsRiseByOne
  <2>3. CASE k = kr
    <3>1. PICK S : S = HitsAt(k)
      OBVIOUS
    <3>2. Cardinality(S \cup {g}) = Cardinality(S) + 1
      BY <1>5, <2>1, <2>3, <3>1, FS_AddElement
    <3>3. PICK n \in Nat : n = Cardinality(S)
      BY <2>1, <3>1
    <3>4. counters[k].n <= n + spent
      BY <2>1, <3>1, <3>3
    <3>5. counters'[k].n <= (n + 1) + spent
      BY <1>1, <2>2, <3>4
    <3>6. HitsAt(k)' = S \cup {g}
      BY <1>5, <2>3, <3>1
    <3> QED
      BY <1>1, <3>2, <3>3, <3>5, <3>6
  <2>4. CASE k # kr
    BY <1>1, <1>2, <1>5, <2>1, <2>2, <2>4
  <2> QED
    BY <2>3, <2>4
<1>7. ASSUME NEW s \in Requests, answer'[s] = 429
      PROVE  Cardinality(Others(s)') + spent' >= Limit[Scope(s)']
  <2>1. CASE s # r
    <3>1. answer'[s] = answer[s]
      BY <1>7, <2>1 DEF Incr, Decide, BaseInv, TypeOK
    <3>2. stage'[s] = stage[s] /\ clock'[s] = clock[s] /\ hits \subseteq hits' /\ spent <= spent'
      BY <1>1, <2>1 DEF OthersStay
    <3> QED
      BY <1>1, <1>7, <3>1, <3>2, RefusedStays
  <2>2. CASE s = r
    <3>1. answer[r] = None /\ answer'[r] # None
      BY <1>1, <1>7, <2>2, LimiterConstantsOK DEF BaseInv, StepInv
    <3>2. /\ ~(g.count <= Limit[Scope(r)]) /\ stage' = stage /\ clock' = clock
      BY <1>2, <1>4, <3>1 DEF Incr, Decide
    <3>3. Scope(r)' = Scope(r) /\ Key(r)' = kr
      BY <1>2, <3>2 DEF Scope, Key
    <3>4. Others(r)' = HitsAt(kr)
      <4>1. \A h \in hits' : HitKey(h)' = HitKey(h)
        BY DEF HitKey
      <4>2. Others(r)' = {h \in HitsAt(kr)' : h.req # r}
        BY <3>3 DEF Others, HitsAt
      <4> QED
        BY <1>4, <1>5, <4>2
    <3>5. Limit[Scope(r)] \in Nat
      BY <1>1, KeyFacts, LimiterConstantsOK
    <3>6. /\ Current(kr).n \in Nat /\ counters[kr].n \in Nat /\ Current(kr).n <= counters[kr].n
      BY CounterFacts DEF Counter
    <3>7. Cardinality(HitsAt(kr)) \in Nat /\ counters[kr].n <= Cardinality(HitsAt(kr)) + spent
      BY HitsAtFinite DEF FullInv
    <3>8. Cardinality(HitsAt(kr)) + spent >= Limit[Scope(r)]
      BY <1>1, <1>4, <3>2, <3>5, <3>6, <3>7
    <3> QED
      BY <1>1, <2>2, <3>3, <3>4, <3>8
  <2> QED
    BY <2>1, <2>2
<1> QED
  BY <1>6, <1>7 DEF FullInv, RefusedInv

\* Time passes, or nothing happens.
LEMMA QuietKeepsFull ==
  ASSUME FullInv, RefusedInv, UNCHANGED <<counters, stage, clock, answer, hits, spent>>
  PROVE  FullInv' /\ RefusedInv'
<1>1. ASSUME NEW k \in Keys PROVE HitsAt(k)' = HitsAt(k)
  BY DEF HitsAt, HitKey
<1>2. ASSUME NEW r \in Requests
      PROVE  Others(r)' = Others(r) /\ Scope(r)' = Scope(r)
  BY DEF Others, HitsAt, HitKey, Key, Scope
<1>3. FullInv'
  BY <1>1 DEF FullInv
<1>4. ASSUME NEW r \in Requests, answer'[r] = 429
      PROVE  Cardinality(Others(r)') + spent' >= Limit[Scope(r)']
  BY <1>2, <1>4 DEF RefusedInv
<1> QED
  BY <1>3, <1>4 DEF RefusedInv

-----------------------------------------------------------------------------
(* The invariant *)

CountInv == HitsInv /\ FullInv /\ RefusedInv

\* The first to count sets the time to live and passes: a limit is positive.
LEMMA FirstPasses ==
  ASSUME BaseInv, NEW r \in Requests, Expire(r)
  PROVE  answer' = answer
<1>1. Limit[Scope(r)] > 0 /\ Scope(r) \in Scopes
  BY KeyFacts DEF Expire, BaseInv, StepInv
<1>2. 1 <= Limit[Scope(r)]
  BY <1>1, LimiterConstantsOK
<1> QED
  BY <1>2 DEF Expire, Decide

\* The steps of a request other than an increment that is answered.
LEMMA UncountedKeeps ==
  ASSUME BaseInv, CountInv, NEW r \in Requests,
         \/ Unlimited(r) \/ Serve(r) \/ ReadClock(r) \/ Expire(r)
         \/ IncrRepeated(r) \/ CallFails(r)
  PROVE  CountInv'
<1>1. Handle(r) \/ IncrRepeated(r) \/ CallFails(r)
  BY DEF Handle
<1>2. OthersStay(r) /\ MovesOn(r)
  BY <1>1, OthersStayStep, RequestMovesOn
<1>3. CounterStep(r)
  BY CallsCount DEF Unlimited, Serve, ReadClock, CounterStep
<1>4. hits' = hits /\ now' = now
  BY DEF Unlimited, Serve, ReadClock, Expire, IncrRepeated, CallFails
<1>5. (spent' = spent /\ (pc[r] # "incr" \/ counters' = counters)) \/ spent' = spent + 1
  BY DEF Unlimited, Serve, ReadClock, Expire, IncrRepeated, CallFails, Fault
<1>6. answer'[r] # 429 /\ \A s \in Requests \ {r} : answer'[s] = answer[s]
  <2>1. answer \in [Requests -> {200, 429, 500, None}] /\ None # 429
    BY LimiterConstantsOK DEF BaseInv, TypeOK
  <2>2. pc[r] # "done" => answer[r] = None
    BY DEF BaseInv, StepInv
  <2>3. CASE Expire(r)
    <3>1. answer' = answer /\ pc[r] = "expire"
      BY <2>3, FirstPasses DEF Expire
    <3> QED
      BY <2>1, <2>2, <3>1
  <2>4. CASE Unlimited(r) \/ ReadClock(r) \/ IncrRepeated(r)
    <3>1. answer' = answer /\ pc[r] # "done"
      BY <2>4 DEF Unlimited, ReadClock, IncrRepeated
    <3> QED
      BY <2>1, <2>2, <3>1
  <2>5. CASE Serve(r)
    <3>1. answer' = [answer EXCEPT ![r] = 200]
      BY <2>5 DEF Serve
    <3> QED
      BY <2>1, <3>1
  <2>6. CASE CallFails(r)
    <3>1. answer' = [answer EXCEPT ![r] = 500]
      BY <2>6 DEF CallFails
    <3> QED
      BY <2>1, <3>1
  <2> QED
    BY <2>3, <2>4, <2>5, <2>6
<1>7. HitsInv /\ FullInv /\ RefusedInv
  BY DEF CountInv
<1>8. HitsInv'
  BY <1>2, <1>3, <1>4, <1>7, OthersKeepHits
<1>9. FullInv' /\ RefusedInv'
  BY <1>2, <1>3, <1>4, <1>5, <1>6, <1>7, <1>8, OthersKeepFull
<1> QED
  BY <1>8, <1>9 DEF CountInv

LEMMA NextKeepsCounts == BaseInv /\ CountInv /\ [Next]_vars => CountInv'
<1> SUFFICES ASSUME BaseInv, CountInv, [Next]_vars PROVE CountInv'
  OBVIOUS
<1>1. HitsInv /\ FullInv /\ RefusedInv
  BY DEF CountInv
<1>2. ASSUME NEW r \in Requests, Incr(r) PROVE CountInv'
  <2>1. HitsInv'
    BY <1>1, <1>2, IncrKeepsHits
  <2>2. FullInv' /\ RefusedInv'
    BY <1>1, <1>2, <2>1, IncrKeepsFull
  <2> QED
    BY <2>1, <2>2 DEF CountInv
<1>3. ASSUME NEW r \in Requests, Handle(r) \/ IncrRepeated(r) \/ CallFails(r), ~Incr(r)
      PROVE  CountInv'
  BY <1>3, UncountedKeeps DEF Handle
<1>4. ASSUME UNCHANGED <<counters, pc, stage, clock, answer, hits, spent>>, now' \in Nat, now <= now'
      PROVE  CountInv'
  <2>1. UNCHANGED <<counters, pc, stage, hits>>
        /\ UNCHANGED <<counters, stage, clock, answer, hits, spent>>
    BY <1>4
  <2>2. HitsInv'
    BY <1>1, <1>4, <2>1, QuietKeepsHits
  <2>3. FullInv' /\ RefusedInv'
    BY <1>1, <2>1, QuietKeepsFull
  <2> QED
    BY <2>2, <2>3 DEF CountInv
<1>5. now \in Nat
  BY DEF BaseInv, TypeOK
<1>6. CASE Tick
  BY <1>4, <1>5, <1>6 DEF Tick
<1>7. CASE UNCHANGED vars
  BY <1>4, <1>5, <1>7 DEF vars
<1> QED
  BY <1>2, <1>3, <1>6, <1>7 DEF Next, Finished

\* The inductive invariant.
IInv == BaseInv /\ LeakInv /\ CountInv

LEMMA InitInvariant == Init => IInv
<1> SUFFICES ASSUME Init PROVE IInv
  OBVIOUS
<1>1. /\ None \notin Nat /\ Route \in [Requests -> Seq(Scopes)]
      /\ \A r \in Requests : Len(Route[r]) \in Nat
  BY LimiterConstantsOK
<1>2. TypeOK
  <2>1. \A r \in Requests : stage[r] \in 1..Len(Route[r]) + 1
    BY <1>1 DEF Init
  <2> QED
    BY <1>1, <2>1, Numbers DEF Init, TypeOK
<1>3. \A r \in Requests : StepInv(r)
  BY <1>1, Numbers DEF Init, StepInv
<1>4. WindowInv
  BY DEF Init, WindowInv
<1>5. LeakInv
  <2>1. Leaks = {}
    BY DEF Init, Leaks
  <2> QED
    BY <2>1, FS_EmptySet DEF LeakInv, Init
<1>6. \A k : HitsAt(k) = {}
  BY DEF HitsAt, Init
<1>7. HitsInv
  BY FS_EmptySet DEF HitsInv, Init
<1>8. FullInv
  BY <1>6, FS_EmptySet DEF FullInv, Init
<1>9. RefusedInv
  BY <1>1 DEF RefusedInv, Init
<1> QED
  BY <1>2, <1>3, <1>4, <1>5, <1>7, <1>8, <1>9 DEF IInv, BaseInv, CountInv

\* Every reachable state satisfies the inductive invariant.
THEOREM Invariance == Spec => []IInv
<1>1. IInv /\ [Next]_vars => IInv'
  BY NextKeepsBase, NextKeepsLeaks, NextKeepsCounts DEF IInv
<1> QED
  BY <1>1, InitInvariant, PTL DEF Spec

-----------------------------------------------------------------------------
(* The properties *)

\* The variables keep their types, a counter that does not exist has no expiry,
\* and the Retry-After of a refusal is positive.
THEOREM TypeCorrect == Spec => []TypeOK
<1>1. IInv => TypeOK
  BY DEF IInv, BaseInv
<1> QED
  BY <1>1, Invariance, PTL

\* Retry-After, rounded down, is short of the next window by less than a second,
\* whatever the length of a window and whenever the clock was read.
THEOREM RetryIsLongEnough == Spec => []RetryAfterLeadsOut
<1>1. IInv => RetryAfterLeadsOut
  <2> SUFFICES ASSUME IInv, NEW r \in Requests, answer[r] = 429
               PROVE  Label(clock[r] + told[r] * Second + Second - 1) # Label(clock[r])
    BY DEF RetryAfterLeadsOut
  <2>1. clock[r] \in Nat /\ told[r] = RetryAfter(clock[r])
    BY DEF IInv, BaseInv, TypeOK, StepInv
  <2> QED
    BY <2>1, RetryFacts
<1> QED
  BY <1>1, Invariance, PTL

\* There are at most as many counters without a time to live as failures, apart
\* from those whose EXPIRE is about to come.
THEOREM LeaksArePaidFor == Spec => []LeakNeedsFault
<1>1. IInv => LeakNeedsFault
  BY DEF IInv, LeakInv, Leaks, LeakNeedsFault
<1> QED
  BY <1>1, Invariance, PTL

\* A refused client has filled its window with its own requests, give or take the
\* calls that failed or were repeated.
THEOREM RefusedWithReason == Spec => []RefusedOnlyWhenFull
<1>1. IInv => RefusedOnlyWhenFull
  <2> SUFFICES ASSUME IInv, NEW r \in Requests, answer[r] = 429
               PROVE  Cardinality({h \in HitsOf(Scope(r), Client[r], Label(clock[r])) : h.req # r})
                        + spent >= Limit[Scope(r)]
    BY DEF RefusedOnlyWhenFull
  <2>1. {h \in HitsOf(Scope(r), Client[r], Label(clock[r])) : h.req # r} = Others(r)
    BY DEF HitsOf, Others, HitsAt, HitKey, Key
  <2> QED
    BY <2>1 DEF IInv, CountInv, RefusedInv
<1> QED
  BY <1>1, Invariance, PTL

\* In no window do more requests of a client pass than its limit, when their
\* increments come in time: their numbers differ and are at most the limit.
THEOREM LimitIsKept == Spec => []NotOverLimit
<1>1. IInv => NotOverLimit
  <2> SUFFICES ASSUME IInv, NEW s \in Scopes, NEW c \in Clients, NEW w \in Labels
               PROVE  Cardinality({h \in HitsOf(s, c, w) : h.inTime /\ h.count <= Limit[s]})
                        <= Limit[s]
    BY DEF NotOverLimit
  <2>1. PICK H : H = {h \in HitsOf(s, c, w) : h.inTime /\ h.count <= Limit[s]}
    OBVIOUS
  <2>2. PICK m \in Nat : m = Limit[s]
    BY LimiterConstantsOK
  <2>3. HitsInv
    BY DEF IInv, CountInv
  <2>4. \A h \in H : /\ h \in hits /\ h.inTime /\ h.count \in 1..m
                     /\ HitKey(h) = <<s, c, w>>
    BY <2>1, <2>2, <2>3 DEF HitsInv, HitsOf, HitKey
  <2>5. \A h, g \in H : h.count = g.count => h = g
    BY <2>3, <2>4 DEF HitsInv
  <2>6. PICK f : f = [h \in H |-> h.count]
    OBVIOUS
  <2>7. f \in Injection(H, 1..m)
    BY <2>4, <2>5, <2>6 DEF Injection, IsInjective
  <2>8. IsFiniteSet(1..m) /\ Cardinality(1..m) = m
    BY FS_Interval
  <2>9. Cardinality(H) <= m
    BY <2>7, <2>8, FS_Injection
  <2> QED
    BY <2>1, <2>2, <2>9
<1> QED
  BY <1>1, Invariance, PTL
=============================================================================
