-------------------------- MODULE AuthSessionsProofs --------------------------
(***************************************************************************)
(* Proofs about AuthSessions, for any requests, browsers and spellings,    *)
(* any interleaving of their calls, any failures and any passing of time.  *)
(*                                                                         *)
(* No request holds a transaction over two calls, so that everything rests *)
(* on what other requests cannot undo: an account stays, a session stays   *)
(* with its owner, a revocation and an expiry are for good.                *)
(***************************************************************************)
EXTENDS AuthSessions, Integers, TLAPS

\* Account a is the one whose e-mail and password request r gave.
Owns(r, a) ==
  /\ accounts[a] # None
  /\ accounts[a].email = Canonical[input[r].spelling]
  /\ accounts[a].password = input[r].password

\* How far request r is: what kind of request makes which call, and what it has
\* by then.  A row is made by one request, and by then it is about to answer.
FlowInv(r) ==
  /\ pc[r] # "new" => input[r] \in Inputs[r]
  /\ pc[r] \in Calls \cup {"new"} => answer[r] = 0
  /\ pc[r] = "new" => cookie[r] = None
  /\ pc[r] = "insert" => Op(r) = "register" /\ Role(input[r]) \in Roles
  /\ pc[r] \in {"lookup", "session"} => Op(r) = "login"
  /\ pc[r] = "session" => subject[r] # None /\ issued[r] # None /\ Owns(r, subject[r])
  /\ pc[r] = "find" => Op(r) \in {"refresh", "logout"} /\ cookie[r] # None
  /\ pc[r] = "user" => Op(r) \in {"refresh", "me"} /\ subject[r] # None
  /\ pc[r] = "revoke" => Op(r) = "logout" /\ cookie[r] # None
  /\ accounts[r] # None =>
       pc[r] \in {"reply", "done"} /\ accounts[r].email = Canonical[input[r].spelling]
  /\ sessions[r] # None => pc[r] \in {"reply", "done"} /\ Owns(r, sessions[r].user)
  /\ issued[r] # None => issued[r].expires \in AccessTTL..MaxTime + AccessTTL

\* What the answer of r, and the cookie it came with, say of the tables.
AnswerInv(r) ==
  /\ answer[r] = 201 => accounts[r] # None
  /\ answer[r] = 409 =>
       \E s \in Requests \ {r} :
         accounts[s] # None /\ Canonical[input[r].spelling] = Canonical[input[s].spelling]
  /\ answer[r] = 200 /\ Op(r) = "login" => sessions[r] # None
  /\ cookie[r] # None => sessions[cookie[r]] # None
  /\ stale[r] => cookie[r] # None /\ Over(cookie[r])
  /\ (pc[r] = "user" \/ answer[r] = 200) /\ Op(r) = "refresh" => ~stale[r]
  /\ answer[r] = 401 /\ cookie[r] # None /\ Op(r) = "refresh" => Over(cookie[r]) \/ failed[r]
  /\ answer[r] = 204 /\ cookie[r] # None /\ ~failed[r] => sessions[cookie[r]].revoked # None

\* E-mails are unique, and a browser's cookie names a session.
TablesInv ==
  /\ \A r, s \in Requests :
       accounts[r] # None /\ accounts[s] # None /\ accounts[r].email = accounts[s].email => r = s
  /\ \A b \in Browsers : jar[b] # None => sessions[jar[b]] # None

\* The inductive invariant.
IInv ==
  /\ TypeOK
  /\ DOMAIN input = Requests
  /\ \A r \in Requests : FlowInv(r) /\ AnswerInv(r)
  /\ TablesInv

-----------------------------------------------------------------------------
(* What a step leaves alone *)

\* Accounts stay, with the request that made them; sessions stay with their owner
\* and their expiry, and a revoked one as it is; time does not run backwards.
Grows ==
  /\ \A a \in Requests : accounts[a] # None => accounts'[a] = accounts[a] /\ input'[a] = input[a]
  /\ \A s \in Requests : sessions[s] # None =>
       /\ sessions'[s] # None
       /\ sessions'[s].user = sessions[s].user /\ sessions'[s].expires = sessions[s].expires
       /\ sessions[s].revoked # None => sessions'[s] = sessions[s]
  /\ now <= now'

\* Request s, and what it has made, are as before.
Untouched(s) ==
  /\ pc'[s] = pc[s] /\ input'[s] = input[s] /\ cookie'[s] = cookie[s]
  /\ subject'[s] = subject[s] /\ issued'[s] = issued[s] /\ answer'[s] = answer[s]
  /\ stale'[s] = stale[s] /\ failed'[s] = failed[s]
  /\ accounts'[s] = accounts[s] /\ (sessions'[s] = None <=> sessions[s] = None)

\* A session that is over stays so.
LEMMA OverIsFinal ==
  ASSUME IInv, TypeOK', Grows, NEW s \in Requests, sessions[s] # None, Over(s)
  PROVE  Over(s)'
<1>1. sessions[s] \in Sessions /\ sessions'[s] \in Sessions
  BY DEF IInv, TypeOK, Grows
<1>2. sessions[s].expires \in Int /\ sessions'[s].expires = sessions[s].expires
  BY <1>1 DEF Sessions, Time, Grows
<1>3. now \in Int /\ now' \in Int /\ now <= now'
  BY DEF IInv, TypeOK, Grows
<1> QED
  BY <1>2, <1>3 DEF Over, Grows

\* The others' steps do not disturb a request.
LEMMA OthersKept ==
  ASSUME IInv, TypeOK', Grows, NEW s \in Requests, Untouched(s)
  PROVE  FlowInv(s)' /\ AnswerInv(s)'
<1>1. FlowInv(s) /\ AnswerInv(s)
  BY DEF IInv
<1>2. \A a \in Requests : Owns(s, a) => Owns(s, a)'
  BY DEF Owns, Grows, Untouched
<1>3. subject[s] \in Requests \cup {None} /\ cookie[s] \in Requests \cup {None}
      /\ sessions[s] \in Sessions \cup {None}
  BY DEF IInv, TypeOK
<1>4. sessions[s] # None => sessions[s].user \in Requests /\ sessions'[s].user = sessions[s].user
  BY <1>3 DEF Sessions, Grows
<1>5. Op(s)' = Op(s) /\ Role(input[s])' = Role(input[s])
  BY DEF Op, Untouched, Role
<1>6. FlowInv(s)'
  <2>1. pc'[s] = "session" => Owns(s, subject[s])'
    BY <1>1, <1>2, <1>3 DEF FlowInv, Untouched, Owns
  <2>2. sessions'[s] # None => Owns(s, sessions[s].user)'
    BY <1>1, <1>2, <1>4 DEF FlowInv, Untouched, Owns
  <2> QED
    BY <1>1, <1>5, <2>1, <2>2 DEF FlowInv, Untouched
<1>7. cookie[s] # None =>
        /\ sessions[cookie[s]] # None /\ sessions'[cookie[s]] # None
        /\ Over(cookie[s]) => Over(cookie[s])'
        /\ sessions[cookie[s]].revoked # None => sessions'[cookie[s]].revoked # None
  <2> SUFFICES ASSUME cookie[s] # None
               PROVE  /\ sessions[cookie[s]] # None /\ sessions'[cookie[s]] # None
                      /\ Over(cookie[s]) => Over(cookie[s])'
                      /\ sessions[cookie[s]].revoked # None => sessions'[cookie[s]].revoked # None
    OBVIOUS
  <2>1. PICK c \in Requests : c = cookie[s] /\ c = cookie'[s]
    BY <1>3 DEF Untouched
  <2>2. sessions[c] # None
    BY <1>1, <2>1 DEF AnswerInv
  <2>3. sessions'[c] # None /\ (sessions[c].revoked # None => sessions'[c].revoked # None)
    BY <2>2 DEF Grows
  <2>4. Over(c) => Over(c)'
    BY <2>2, OverIsFinal
  <2> QED
    BY <2>1, <2>2, <2>3, <2>4 DEF Over
<1>8. answer'[s] = 409 =>
        \E t \in Requests \ {s} :
          accounts'[t] # None /\ Canonical[input'[s].spelling] = Canonical[input'[t].spelling]
  BY <1>1 DEF AnswerInv, Grows, Untouched
<1>9. AnswerInv(s)'
  BY <1>1, <1>5, <1>7, <1>8 DEF AnswerInv, Untouched
<1> QED
  BY <1>6, <1>9

\* What a step of r has to keep.
LEMMA StepKeepsInvariant ==
  ASSUME IInv, TypeOK', DOMAIN input' = Requests, Grows, NEW r \in Requests,
         \A s \in Requests \ {r} : Untouched(s),
         FlowInv(r)', AnswerInv(r)', TablesInv'
  PROVE  IInv'
<1>1. \A s \in Requests \ {r} : FlowInv(s)' /\ AnswerInv(s)'
  BY OthersKept
<1> QED
  BY <1>1 DEF IInv

-----------------------------------------------------------------------------
(* The writes *)

\* A write of r: it makes its own rows only, an account under a new e-mail, a
\* session of the account it has looked up; a session it revokes is revoked.
TableStep(r) ==
  /\ accounts' \in [Requests -> Accounts \cup {None}]
  /\ sessions' \in [Requests -> Sessions \cup {None}]
  /\ \A a \in Requests : accounts[a] # None => accounts'[a] = accounts[a]
  /\ \A s \in Requests : sessions[s] # None =>
       /\ sessions'[s] # None
       /\ sessions'[s].user = sessions[s].user /\ sessions'[s].expires = sessions[s].expires
       /\ sessions[s].revoked # None => sessions'[s] = sessions[s]
  /\ \A s \in Requests \ {r} : accounts'[s] = accounts[s] /\ (sessions'[s] = None <=> sessions[s] = None)
  /\ accounts'[r] # accounts[r] =>
       pc[r] = "insert" /\ accounts'[r].email = Canonical[input[r].spelling]
  /\ sessions[r] = None /\ sessions'[r] # None => pc[r] = "session" /\ sessions'[r].user = subject[r]
  /\ \A t, s \in Requests :
       accounts'[t] # None /\ accounts'[s] # None /\ accounts'[t].email = accounts'[s].email => t = s

\* An e-mail in an input becomes one of the canonical ones.
LEMMA InputFacts ==
  ASSUME IInv, NEW r \in Requests, pc[r] \in {"insert", "lookup", "session"}
  PROVE  /\ input[r] \in Inputs[r] /\ Email(r) = Canonical[input[r].spelling]
         /\ Email(r) \in Emails /\ input[r].password \in Passwords
<1>1. input[r] \in Inputs[r] /\ Op(r) \in {"register", "login"}
  BY DEF IInv, FlowInv
<1>2. input[r].spelling \in DOMAIN Canonical
  BY <1>1, AuthConstantsOK DEF Op
<1> QED
  BY <1>1, <1>2 DEF Email, Normalise, Emails, Passwords

LEMMA WriteStep ==
  ASSUME IInv, NEW r \in Requests, Write(r) \/ UNCHANGED tables
  PROVE  TableStep(r)
<1>1. /\ accounts \in [Requests -> Accounts \cup {None}]
      /\ sessions \in [Requests -> Sessions \cup {None}]
      /\ \A t, s \in Requests :
           accounts[t] # None /\ accounts[s] # None /\ accounts[t].email = accounts[s].email => t = s
  BY DEF IInv, TypeOK, TablesInv
<1>2. CASE UNCHANGED tables
  BY <1>1, <1>2 DEF tables, TableStep
<1>3. CASE pc[r] = "insert" /\ InsertUser(r)
  <2>1. sessions' = sessions
    BY <1>3 DEF InsertUser
  <2>2. CASE Taken(Email(r))
    <3>1. accounts' = accounts
      BY <1>3, <2>2 DEF InsertUser
    <3> QED
      BY <1>1, <2>1, <3>1 DEF TableStep
  <2>3. CASE ~Taken(Email(r))
    <3> DEFINE row == [email |-> Email(r), password |-> input[r].password, role |-> Role(input[r])]
    <3>1. accounts' = [accounts EXCEPT ![r] = row]
      BY <1>3, <2>3 DEF InsertUser
    <3>2. row \in Accounts /\ row.email = Canonical[input[r].spelling]
      BY <1>3, InputFacts DEF Accounts, IInv, FlowInv
    <3>3. accounts[r] = None
      BY <1>3 DEF IInv, FlowInv
    <3>4. \A a \in Requests : accounts[a] # None => accounts[a].email # row.email
      BY <2>3 DEF Taken, Holders
    <3> HIDE DEF row
    <3>5. accounts'[r] = row /\ \A s \in Requests \ {r} : accounts'[s] = accounts[s]
      BY <1>1, <3>1
    <3>6. \A t, s \in Requests :
            accounts'[t] # None /\ accounts'[s] # None /\ accounts'[t].email = accounts'[s].email => t = s
      BY <1>1, <3>4, <3>5
    <3> QED
      BY <1>1, <1>3, <2>1, <3>1, <3>2, <3>3, <3>5, <3>6 DEF TableStep
  <2> QED
    BY <2>2, <2>3
<1>4. CASE pc[r] = "session" /\ InsertSession(r)
  <2> DEFINE row == [user |-> subject[r], expires |-> issued[r].expires - AccessTTL + RefreshTTL,
                     revoked |-> None]
  <2>1. accounts' = accounts /\ sessions' = [sessions EXCEPT ![r] = row]
    BY <1>4 DEF InsertSession
  <2>2. subject[r] \in Requests /\ sessions[r] = None
    BY <1>4 DEF IInv, FlowInv, TypeOK
  <2>3. issued[r].expires \in AccessTTL..MaxTime + AccessTTL
    BY <1>4 DEF IInv, FlowInv
  <2>4. issued[r].expires - AccessTTL + RefreshTTL \in Time
    BY <2>3, AuthConstantsOK DEF Time
  <2>5. row \in Sessions /\ row.user = subject[r]
    BY <2>2, <2>4 DEF Sessions
  <2> HIDE DEF row
  <2>6. row # None
    BY <2>5, AuthConstantsOK
  <2>7. sessions'[r] = row /\ \A s \in Requests \ {r} : sessions'[s] = sessions[s]
    BY <1>1, <2>1
  <2> QED
    BY <1>1, <1>4, <2>1, <2>2, <2>5, <2>6, <2>7 DEF TableStep
<1>5. CASE pc[r] = "revoke" /\ RevokeSession(cookie[r])
  <2>1. accounts' = accounts
    BY <1>5 DEF RevokeSession
  <2>2. PICK c \in Requests : c = cookie[r] /\ sessions[c] # None
    BY <1>5 DEF IInv, FlowInv, AnswerInv, TypeOK
  <2>3. CASE Revocable(c)
    <3>1. sessions' = [sessions EXCEPT ![c].revoked = now]
      BY <1>5, <2>2, <2>3 DEF RevokeSession
    <3>2. sessions[c] \in Sessions
      BY <1>1, <2>2
    <3>3. now \in Time
      BY AuthConstantsOK DEF IInv, TypeOK, Time
    <3>4. sessions'[c] = [sessions[c] EXCEPT !.revoked = now]
      BY <1>1, <3>1
    <3>5. /\ sessions'[c] \in Sessions /\ sessions'[c].user = sessions[c].user
          /\ sessions'[c].expires = sessions[c].expires
      BY <3>2, <3>3, <3>4 DEF Sessions
    <3>6. \A s \in Requests \ {c} : sessions'[s] = sessions[s]
      BY <1>1, <3>1
    <3>7. sessions'[c] # None
      BY <3>5, AuthConstantsOK
    <3>8. sessions' \in [Requests -> Sessions \cup {None}]
      BY <1>1, <3>1, <3>4, <3>5
    <3>9. sessions[c].revoked = None
      BY <2>3 DEF Revocable
    <3> QED
      BY <1>1, <2>1, <2>2, <3>5, <3>6, <3>7, <3>8, <3>9 DEF TableStep
  <2>4. CASE ~Revocable(c)
    <3>1. sessions' = sessions
      BY <1>5, <2>2, <2>4 DEF RevokeSession
    <3> QED
      BY <1>1, <2>1, <3>1 DEF TableStep
  <2> QED
    BY <2>3, <2>4
<1> QED
  BY <1>2, <1>3, <1>4, <1>5 DEF Write

-----------------------------------------------------------------------------
(* The steps *)

\* What a step makes of the answer of r, and of the account it acts for.
Answers(r, status) == answer' = [answer EXCEPT ![r] = status]
ActsFor(r, user)   == subject' = [subject EXCEPT ![r] = user]

\* What an answer claims is so.
Fits(r, status) ==
  /\ status = 201 => accounts'[r] # None
  /\ status = 409 => \E s \in Requests \ {r} :
       accounts'[s] # None /\ Canonical[input[r].spelling] = Canonical[input[s].spelling]
  /\ status = 200 /\ Op(r) = "login" => sessions'[r] # None
  /\ status = 200 /\ Op(r) = "refresh" => ~stale[r]
  /\ status = 401 /\ cookie[r] # None /\ Op(r) = "refresh" => Over(cookie[r]) \/ failed'[r]
  /\ status = 204 /\ cookie[r] # None /\ ~failed'[r] => sessions'[cookie[r]].revoked # None

\* The last step of r's handler, or of the request.
LEMMA CallEnds ==
  ASSUME IInv, NEW r \in Requests, pc[r] \in Calls \cup {"reply"}, TableStep(r),
         NEW step \in {"reply", "done"}, Goto(r, step),
         NEW status \in Statuses, Answers(r, status),
         failed' \in [Requests -> BOOLEAN], issued' \in [Requests -> Tokens \cup {None}],
         \A s \in Requests \ {r} : failed'[s] = failed[s] /\ issued'[s] = issued[s],
         issued'[r] # None => issued'[r].expires \in AccessTTL..MaxTime + AccessTTL,
         UNCHANGED <<client, now, input, cookie, subject, stale>>, spent' \in 0..MaxFaults,
         Fits(r, status)
  PROVE  IInv'
<1>1. /\ pc \in [Requests -> Calls \cup {"new", "reply", "done"}]
      /\ answer \in [Requests -> Statuses] /\ failed \in [Requests -> BOOLEAN]
      /\ issued \in [Requests -> Tokens \cup {None}]
      /\ cookie \in [Requests -> Requests \cup {None}]
      /\ sessions \in [Requests -> Sessions \cup {None}]
      /\ now \in Int
  BY DEF IInv, TypeOK
<1>2. /\ pc'[r] = step /\ answer'[r] = status
      /\ input' = input /\ cookie' = cookie /\ subject' = subject /\ stale' = stale
      /\ jar' = jar /\ bearer' = bearer /\ now' = now
  BY <1>1 DEF Goto, Answers, client
<1>3. \A s \in Requests \ {r} : Untouched(s)
  BY <1>1, <1>2 DEF Untouched, Goto, Answers, TableStep
<1>4. Grows
  BY <1>1, <1>2 DEF Grows, TableStep
<1>5. Op(r)' = Op(r)
  BY <1>2 DEF Op
<1>6. \A s \in Requests : sessions[s] # None =>
        sessions[s].user \in Requests /\ accounts[sessions[s].user] # None
  BY <1>1 DEF IInv, TypeOK, Sessions
<1>7. ASSUME sessions'[r] # None PROVE Owns(r, sessions[r].user)'
  <2>1. PICK u \in Requests : u = sessions'[r].user /\ Owns(r, u)
    <3>1. CASE sessions[r] # None
      BY <1>6, <3>1 DEF TableStep, IInv, FlowInv
    <3>2. CASE sessions[r] = None
      BY <1>7, <3>2 DEF TableStep, IInv, FlowInv, TypeOK
    <3> QED
      BY <3>1, <3>2
  <2> QED
    BY <1>2, <2>1 DEF Owns, TableStep
<1>8. TypeOK'
  <2>1. \A s \in Requests : sessions'[s] # None => accounts'[sessions'[s].user] # None
    <3> SUFFICES ASSUME NEW s \in Requests, sessions'[s] # None
                 PROVE  accounts'[sessions'[s].user] # None
      OBVIOUS
    <3>1. CASE s = r
      BY <1>7, <3>1 DEF Owns
    <3>2. CASE s # r
      BY <1>6, <3>2 DEF TableStep
    <3> QED
      BY <3>1, <3>2
  <2>2. /\ pc' \in [Requests -> Calls \cup {"new", "reply", "done"}]
        /\ answer' \in [Requests -> Statuses]
    BY <1>1 DEF Goto, Answers
  <2> QED
    BY <1>2, <2>1, <2>2 DEF IInv, TypeOK, TableStep
<1>9. FlowInv(r)'
  <2>1. accounts'[r] # None => accounts'[r].email = Canonical[input[r].spelling]
    BY DEF TableStep, IInv, FlowInv
  <2>2. input[r] \in Inputs[r]
    BY DEF IInv, FlowInv, Calls
  <2> QED
    BY <1>2, <1>7, <2>1, <2>2 DEF FlowInv, Calls
<1>10. AnswerInv(r)'
  <2>1. cookie[r] # None => sessions'[cookie[r]] # None /\ (Over(cookie[r]) => Over(cookie[r])')
    <3> SUFFICES ASSUME cookie[r] # None
                 PROVE  sessions'[cookie[r]] # None /\ (Over(cookie[r]) => Over(cookie[r])')
      OBVIOUS
    <3>1. PICK c \in Requests : c = cookie[r] /\ c = cookie'[r]
      BY <1>1, <1>2
    <3>2. sessions[c] # None
      BY <3>1 DEF IInv, AnswerInv
    <3>3. sessions'[c] # None
      BY <3>2 DEF TableStep
    <3>4. Over(c) => Over(c)'
      BY <1>4, <1>8, <3>2, OverIsFinal
    <3> QED
      BY <3>1, <3>3, <3>4 DEF Over
  <2>2. stale[r] => cookie[r] # None /\ Over(cookie[r])
    BY DEF IInv, AnswerInv
  <2> QED
    BY <1>2, <1>5, <2>1, <2>2 DEF AnswerInv, Fits
<1>11. TablesInv'
  BY <1>2 DEF IInv, TablesInv, TableStep, TypeOK
<1>12. DOMAIN input' = Requests
  BY <1>2 DEF IInv
<1> QED
  BY <1>3, <1>4, <1>8, <1>9, <1>10, <1>11, <1>12, StepKeepsInvariant

\* A step of r that writes no row: only what r has of its own changes.
LEMMA ReadStep ==
  ASSUME IInv, NEW r \in Requests, UNCHANGED <<tables, client, now>>,
         pc' \in [Requests -> Calls \cup {"new", "reply", "done"}],
         cookie' \in [Requests -> Requests \cup {None}],
         subject' \in [Requests -> Requests \cup {None}],
         issued' \in [Requests -> Tokens \cup {None}],
         answer' \in [Requests -> Statuses],
         stale' \in [Requests -> BOOLEAN], failed' \in [Requests -> BOOLEAN],
         spent' \in 0..MaxFaults, DOMAIN input' = Requests,
         \A s \in Requests \ {r} :
           /\ pc'[s] = pc[s] /\ input'[s] = input[s] /\ cookie'[s] = cookie[s]
           /\ subject'[s] = subject[s] /\ issued'[s] = issued[s] /\ answer'[s] = answer[s]
           /\ stale'[s] = stale[s] /\ failed'[s] = failed[s],
         input'[r] = input[r] \/ accounts[r] = None,
         FlowInv(r)', AnswerInv(r)'
  PROVE  IInv'
<1>1. accounts' = accounts /\ sessions' = sessions /\ jar' = jar /\ bearer' = bearer /\ now' = now
  BY DEF tables, client
<1>2. now \in Int
  BY DEF IInv, TypeOK
<1>3. TypeOK'
  BY <1>1 DEF IInv, TypeOK
<1>4. Grows
  BY <1>1, <1>2 DEF Grows
<1>5. \A s \in Requests \ {r} : Untouched(s)
  BY <1>1 DEF Untouched
<1>6. TablesInv'
  BY <1>1 DEF IInv, TablesInv
<1> QED
  BY <1>3, <1>4, <1>5, <1>6, StepKeepsInvariant

\* A request arrives: the cookie it carries names a session, and until a call has
\* been made its answer claims nothing.
LEMMA Arrival ==
  ASSUME IInv, NEW r \in Requests, NEW op \in Operations, Arrive(r, op),
         NEW step \in Calls \cup {"reply"}, Goto(r, step),
         NEW status \in Statuses, Answers(r, status),
         NEW user \in Requests \cup {None}, ActsFor(r, user),
         step \in Calls => status = 0,
         status \notin {200, 201, 409},
         status \in {401, 204} => cookie'[r] = None,
         step = "insert" => op = "register" /\ Role(input'[r]) \in Roles,
         step = "lookup" => op = "login",
         step = "find" => op \in {"refresh", "logout"} /\ cookie'[r] # None,
         step = "user" => op = "me" /\ user # None,
         step \notin {"session", "revoke"}
  PROVE  IInv'
<1>1. /\ pc \in [Requests -> Calls \cup {"new", "reply", "done"}]
      /\ cookie \in [Requests -> Requests \cup {None}]
      /\ subject \in [Requests -> Requests \cup {None}]
      /\ issued \in [Requests -> Tokens \cup {None}]
      /\ answer \in [Requests -> Statuses]
      /\ stale \in [Requests -> BOOLEAN] /\ failed \in [Requests -> BOOLEAN]
      /\ jar \in [Browsers -> Requests \cup {None}] /\ spent \in 0..MaxFaults
      /\ DOMAIN input = Requests
  BY DEF IInv, TypeOK
<1>2. /\ pc[r] = "new" /\ UNCHANGED <<tables, client, now, issued, failed, spent>>
      /\ stale' = [stale EXCEPT ![r] = cookie'[r] # None /\ Over(cookie'[r])]
  BY DEF Arrive
<1>3. PICK in \in Inputs[r] :
        /\ in.op = op
        /\ input' = [input EXCEPT ![r] = in]
        /\ cookie' = [cookie EXCEPT ![r] = IF op \in {"refresh", "logout"}
                                           THEN jar[in.browser] ELSE None]
  BY DEF Arrive
<1>4. in.browser \in Browsers
  BY AuthConstantsOK
<1>5. PICK c \in Requests \cup {None} :
        /\ cookie' = [cookie EXCEPT ![r] = c]
        /\ c # None => sessions[c] # None
  <2>1. PICK c \in Requests \cup {None} : c = jar[in.browser]
    BY <1>1, <1>4
  <2>2. c # None => sessions[c] # None
    BY <1>4, <2>1 DEF IInv, TablesInv
  <2>3. CASE op \in {"refresh", "logout"}
    BY <1>3, <2>1, <2>2, <2>3
  <2>4. CASE op \notin {"refresh", "logout"}
    BY <1>3, <2>4
  <2> QED
    BY <2>3, <2>4
<1>6. accounts[r] = None /\ sessions[r] = None
  BY <1>2 DEF IInv, FlowInv
<1>7. /\ pc'[r] = step /\ answer'[r] = status /\ subject'[r] = user /\ cookie'[r] = c
      /\ input'[r] = in /\ issued'[r] = issued[r] /\ failed'[r] = failed[r]
      /\ accounts' = accounts /\ sessions' = sessions /\ now' = now
  BY <1>1, <1>2, <1>3, <1>5 DEF Goto, Answers, ActsFor, tables
<1>8. stale'[r] = (c # None /\ Over(c))
  BY <1>1, <1>2, <1>7
<1>9. Op(r)' = op
  BY <1>3, <1>7 DEF Op
<1>10. FlowInv(r)'
  <2>1. issued[r] # None => issued[r].expires \in AccessTTL..MaxTime + AccessTTL
    BY DEF IInv, FlowInv
  <2>2. step # "new" /\ (step \in Calls \cup {"new"} => status = 0)
    BY DEF Calls
  <2>3. step = "insert" => Role(input[r])' \in Roles
    BY DEF Role
  <2> QED
    BY <1>3, <1>6, <1>7, <1>9, <2>1, <2>2, <2>3 DEF FlowInv
<1>11. AnswerInv(r)'
  <2>1. stale'[r] => cookie'[r] # None /\ Over(cookie[r])'
    <3>1. Over(cookie[r])' <=> Over(c)
      BY <1>7 DEF Over
    <3> QED
      <4>1. stale'[r] => c # None /\ Over(c)
        BY <1>8
      <4>2. cookie'[r] = c
        BY <1>7
      <4> QED
        BY <3>1, <4>1, <4>2
  <2>2. Op(r)' = "refresh" => step # "user"
    BY <1>9
  <2> QED
    BY <1>5, <1>7, <1>9, <2>1, <2>2 DEF AnswerInv
<1>12. /\ pc' \in [Requests -> Calls \cup {"new", "reply", "done"}]
       /\ cookie' \in [Requests -> Requests \cup {None}]
       /\ subject' \in [Requests -> Requests \cup {None}]
       /\ issued' \in [Requests -> Tokens \cup {None}]
       /\ answer' \in [Requests -> Statuses]
       /\ failed' \in [Requests -> BOOLEAN] /\ spent' \in 0..MaxFaults
       /\ DOMAIN input' = Requests
  BY <1>1, <1>2, <1>3, <1>5 DEF Goto, Answers, ActsFor
<1>13. stale' \in [Requests -> BOOLEAN]
  BY <1>1, <1>2
<1>14. \A s \in Requests \ {r} :
         /\ pc'[s] = pc[s] /\ input'[s] = input[s] /\ cookie'[s] = cookie[s]
         /\ subject'[s] = subject[s] /\ issued'[s] = issued[s] /\ answer'[s] = answer[s]
         /\ stale'[s] = stale[s] /\ failed'[s] = failed[s]
  BY <1>1, <1>2, <1>3, <1>5 DEF Goto, Answers, ActsFor
<1> QED
  BY <1>2, <1>6, <1>10, <1>11, <1>12, <1>13, <1>14, ReadStep

\* It is answered at once, or goes on to its first call.
LEMMA ArriveReply ==
  ASSUME IInv, NEW r \in Requests, NEW op \in Operations, Arrive(r, op),
         NEW status \in Statuses, Reply(r, status), status \notin {200, 201, 409},
         NEW user \in Requests \cup {None}, ActsFor(r, user),
         status \in {401, 204} => cookie'[r] = None
  PROVE  IInv'
<1>1. PICK step \in Calls \cup {"reply"} : step = "reply"
  OBVIOUS
<1>2. Goto(r, step) /\ Answers(r, status)
  BY <1>1 DEF Reply, Answers
<1>3. step \notin Calls
  BY <1>1 DEF Calls
<1>4. step \notin {"insert", "lookup", "find", "user", "session", "revoke"}
  BY <1>1
<1> QED
  BY <1>2, <1>3, <1>4, Arrival

LEMMA ArriveCall ==
  ASSUME IInv, NEW r \in Requests, NEW op \in Operations, Arrive(r, op),
         NEW step \in {"insert", "lookup", "find", "user"}, Call(r, step),
         NEW user \in Requests \cup {None}, ActsFor(r, user),
         step = "insert" => op = "register" /\ Role(input'[r]) \in Roles,
         step = "lookup" => op = "login",
         step = "find" => op \in {"refresh", "logout"} /\ cookie'[r] # None,
         step = "user" => op = "me" /\ user # None
  PROVE  IInv'
<1>1. Answers(r, 0)
  BY DEF IInv, TypeOK, FlowInv, Arrive, Call, Answers
<1>2. Goto(r, step) /\ step \in Calls \cup {"reply"} /\ step \notin {"session", "revoke"}
  BY DEF Call, Calls
<1>3. 0 \in Statuses /\ 0 \notin {200, 201, 409} /\ 0 \notin {401, 204}
  BY DEF Statuses
<1> QED
  BY <1>1, <1>2, <1>3, Arrival

\* The five handlers, up to their first call.
LEMMA HandlersKeep ==
  ASSUME IInv, NEW r \in Requests,
         \/ HandleRegister(r) \/ HandleLogin(r) \/ HandleRefresh(r)
         \/ HandleLogout(r) \/ HandleMe(r)
  PROVE  IInv'
<1>1. subject \in [Requests -> Requests \cup {None}] /\ answer \in [Requests -> Statuses]
  BY DEF IInv, TypeOK
<1>2. PICK user \in Requests \cup {None} : subject = [subject EXCEPT ![r] = user]
  <2>1. subject = [subject EXCEPT ![r] = subject[r]]
    BY <1>1
  <2> QED
    BY <1>1, <2>1
<1>5. CASE HandleRegister(r)
  <2>1. Arrive(r, "register") /\ ActsFor(r, user) /\ "register" \in Operations
    BY <1>2, <1>5 DEF HandleRegister, Operations, ActsFor
  <2>2. CASE Reply(r, 400) \/ Reply(r, 500)
    <3>1. PICK status \in Statuses : Reply(r, status) /\ status \notin {200, 201, 409} /\ status \notin {401, 204}
      BY <2>2 DEF Statuses
    <3>2. status \in {401, 204} => cookie'[r] = None
      BY <3>1
    <3> QED
      BY <2>1, <3>1, <3>2, ArriveReply
  <2>3. CASE Role(input'[r]) \in Roles /\ Call(r, "insert")
    BY <2>1, <2>3, ArriveCall
  <2> QED
    BY <1>5, <2>2, <2>3 DEF HandleRegister
<1>6. CASE HandleLogin(r)
  <2>1. Arrive(r, "login") /\ ActsFor(r, user) /\ "login" \in Operations
    BY <1>2, <1>6 DEF HandleLogin, Operations, ActsFor
  <2>2. CASE Reply(r, 400)
    <3>1. PICK status \in Statuses : Reply(r, status) /\ status \notin {200, 201, 409} /\ status \notin {401, 204}
      BY <2>2 DEF Statuses
    <3>2. status \in {401, 204} => cookie'[r] = None
      BY <3>1
    <3> QED
      BY <2>1, <3>1, <3>2, ArriveReply
  <2>3. CASE Call(r, "lookup")
    BY <2>1, <2>3, ArriveCall
  <2> QED
    BY <1>6, <2>2, <2>3 DEF HandleLogin
<1>7. CASE HandleRefresh(r) \/ HandleLogout(r)
  <2>1. PICK op \in {"refresh", "logout"} : Arrive(r, op)
    BY <1>7 DEF HandleRefresh, HandleLogout
  <2>2. op \in Operations /\ ActsFor(r, user)
    BY <1>2, <1>7 DEF HandleRefresh, HandleLogout, Operations, ActsFor
  <2>3. CASE cookie'[r] = None /\ (Reply(r, 401) \/ Reply(r, 204))
    <3>1. PICK status \in Statuses : Reply(r, status) /\ status \notin {200, 201, 409}
      BY <2>3 DEF Statuses
    <3> QED
      BY <2>1, <2>2, <2>3, <3>1, ArriveReply
  <2>4. CASE cookie'[r] # None /\ Call(r, "find")
    BY <2>1, <2>2, <2>4, ArriveCall
  <2> QED
    BY <1>7, <2>3, <2>4 DEF HandleRefresh, HandleLogout
<1>8. CASE HandleMe(r)
  <2>1. Arrive(r, "me") /\ "me" \in Operations
    BY <1>8 DEF HandleMe, Operations
  <2>2. PICK in \in Inputs[r] :
          /\ input' = [input EXCEPT ![r] = in]
          /\ cookie' = [cookie EXCEPT ![r] = None]
    BY <2>1 DEF Arrive
  <2>3. input'[r] = in /\ cookie'[r] = None /\ in.browser \in Browsers
    BY <2>2, AuthConstantsOK DEF IInv, TypeOK
  <2>4. CASE requireAuth(bearer[in.browser])
    <3>1. bearer[in.browser] \in Tokens
      BY <2>3, <2>4 DEF requireAuth, IInv, TypeOK
    <3>2. PICK u \in Requests : u = bearer[in.browser].user
      BY <3>1 DEF Tokens
    <3>3. Call(r, "user") /\ ActsFor(r, u)
      BY <1>8, <2>3, <2>4, <3>2 DEF HandleMe, ActsFor
    <3>4. u # None
      BY AuthConstantsOK
    <3> QED
      BY <2>1, <3>3, <3>4, ArriveCall
  <2>5. CASE ~requireAuth(bearer[in.browser])
    <3>1. Reply(r, 401) /\ ActsFor(r, user)
      BY <1>2, <1>8, <2>3, <2>5 DEF HandleMe, ActsFor
    <3>2. PICK status \in Statuses : Reply(r, status) /\ status \notin {200, 201, 409}
      BY <3>1 DEF Statuses
    <3> QED
      BY <2>1, <2>3, <3>1, <3>2, ArriveReply
  <2> QED
    BY <2>4, <2>5
<1> QED
  BY <1>5, <1>6, <1>7, <1>8

\* The common case: r has no new token, and no call of it has failed just now.
LEMMA CallAnswered ==
  ASSUME IInv, NEW r \in Requests, pc[r] \in Calls \cup {"reply"}, TableStep(r),
         NEW step \in {"reply", "done"}, Goto(r, step),
         NEW status \in Statuses, Answers(r, status),
         UNCHANGED <<client, now, input, cookie, subject, issued, stale, failed>>,
         spent' \in 0..MaxFaults,
         Fits(r, status)
  PROVE  IInv'
<1>1. failed' = failed /\ issued' = issued /\ UNCHANGED <<client, now, input, cookie, subject, stale>>
  OBVIOUS
<1>2. failed' \in [Requests -> BOOLEAN] /\ issued' \in [Requests -> Tokens \cup {None}]
  BY <1>1 DEF IInv, TypeOK
<1>3. issued'[r] # None => issued'[r].expires \in AccessTTL..MaxTime + AccessTTL
  BY <1>1 DEF IInv, FlowInv
<1>4. \A s \in Requests \ {r} : failed'[s] = failed[s] /\ issued'[s] = issued[s]
  BY <1>1
<1>5. UNCHANGED <<client, now, input, cookie, subject, stale>>
  BY <1>1
<1> QED
  BY <1>2, <1>3, <1>4, <1>5, CallEnds

LEMMA CreateUserKeeps ==
  ASSUME IInv, NEW r \in Requests, CreateUser(r)
  PROVE  IInv'
<1> DEFINE status == IF Taken(Email(r)) THEN 409 ELSE 201
<1>1. /\ pc[r] = "insert" /\ Write(r) /\ Goto(r, "reply")
      /\ Answers(r, status)
      /\ UNCHANGED <<client, now, input, cookie, subject, issued, stale, failed>>
      /\ spent' = spent
  BY DEF CreateUser, Reply, Answers
<1>2. TableStep(r)
  BY <1>1, WriteStep
<1>3. spent' \in 0..MaxFaults
  BY <1>1 DEF IInv, TypeOK
<1>4. status = 201 => accounts'[r] # None
  <2> SUFFICES ASSUME ~Taken(Email(r))
               PROVE  accounts'[r] # None
    OBVIOUS
  <2> DEFINE row == [email |-> Email(r), password |-> input[r].password, role |-> Role(input[r])]
  <2>1. InsertUser(r)
    BY <1>1 DEF Write
  <2>2. accounts' = [accounts EXCEPT ![r] = row]
    BY <2>1 DEF InsertUser
  <2>3. row \in Accounts
    BY <1>1, InputFacts DEF Accounts, IInv, FlowInv
  <2> HIDE DEF row
  <2>4. accounts'[r] = row
    BY <2>2 DEF IInv, TypeOK
  <2> QED
    BY <2>3, <2>4, AuthConstantsOK
<1>5. status = 409 => \E s \in Requests \ {r} :
        accounts'[s] # None /\ Canonical[input[r].spelling] = Canonical[input[s].spelling]
  <2> SUFFICES ASSUME Taken(Email(r))
               PROVE  \E s \in Requests \ {r} :
                 accounts'[s] # None /\ Canonical[input[r].spelling] = Canonical[input[s].spelling]
    OBVIOUS
  <2>1. PICK s \in Requests : accounts[s] # None /\ accounts[s].email = Email(r)
    BY DEF Taken, Holders
  <2>2. s # r
    BY <1>1, <2>1 DEF IInv, FlowInv
  <2>3. accounts[s].email = Canonical[input[s].spelling]
    BY <2>1 DEF IInv, FlowInv
  <2>4. Email(r) = Canonical[input[r].spelling]
    BY <1>1, InputFacts
  <2>5. accounts'[s] # None
    BY <1>2, <2>1 DEF TableStep
  <2> QED
    BY <2>1, <2>2, <2>3, <2>4, <2>5
<1>6. status \in Statuses /\ status \notin {200, 401, 204}
  BY DEF Statuses
<1>7. PICK step \in {"reply", "done"} : Goto(r, step)
  BY <1>1
<1>8. pc[r] \in Calls \cup {"reply"}
  BY <1>1 DEF Calls
<1> HIDE DEF status
<1>9. Fits(r, status)
  BY <1>4, <1>5, <1>6 DEF Fits
<1> QED
  BY <1>1, <1>2, <1>3, <1>6, <1>7, <1>8, <1>9, CallAnswered

LEMMA CreateRefreshTokenKeeps ==
  ASSUME IInv, NEW r \in Requests, CreateRefreshToken(r)
  PROVE  IInv'
<1>1. /\ pc[r] = "session" /\ Write(r) /\ Goto(r, "reply")
      /\ Answers(r, 200)
      /\ UNCHANGED <<client, now, input, cookie, subject, issued, stale, failed>>
      /\ spent' = spent
  BY DEF CreateRefreshToken, Reply, Answers
<1>2. TableStep(r)
  BY <1>1, WriteStep
<1>3. spent' \in 0..MaxFaults /\ Op(r) = "login"
  BY <1>1 DEF IInv, TypeOK, FlowInv
<1>4. sessions'[r] # None
  <2> DEFINE row == [user |-> subject[r], expires |-> issued[r].expires - AccessTTL + RefreshTTL,
                     revoked |-> None]
  <2>1. InsertSession(r)
    BY <1>1 DEF Write
  <2>2. sessions' = [sessions EXCEPT ![r] = row]
    BY <2>1 DEF InsertSession
  <2>3. sessions'[r] = row
    BY <2>2 DEF IInv, TypeOK
  <2>4. row \in Sessions
    <3>1. subject[r] \in Requests
      BY <1>1 DEF IInv, FlowInv, TypeOK
    <3>2. issued[r].expires \in AccessTTL..MaxTime + AccessTTL
      BY <1>1 DEF IInv, FlowInv
    <3>3. issued[r].expires - AccessTTL + RefreshTTL \in Time
      BY <3>2, AuthConstantsOK DEF Time
    <3> QED
      BY <3>1, <3>3 DEF Sessions
  <2> QED
    BY <2>3, <2>4, AuthConstantsOK
<1>5. PICK status \in Statuses : status = 200
  BY DEF Statuses
<1>6. PICK step \in {"reply", "done"} : Goto(r, step)
  BY <1>1
<1>7. pc[r] \in Calls \cup {"reply"} /\ Answers(r, status)
  BY <1>1, <1>5 DEF Calls
<1>8. Fits(r, status)
  BY <1>3, <1>4, <1>5 DEF Fits
<1> QED
  BY <1>1, <1>2, <1>3, <1>6, <1>7, <1>8, CallAnswered

LEMMA RevokeRefreshTokenKeeps ==
  ASSUME IInv, NEW r \in Requests, RevokeRefreshToken(r)
  PROVE  IInv'
<1>1. /\ pc[r] = "revoke" /\ Write(r) /\ Goto(r, "reply")
      /\ Answers(r, 204)
      /\ UNCHANGED <<client, now, input, cookie, subject, issued, stale, failed>>
      /\ spent' = spent
  BY DEF RevokeRefreshToken, Reply, Answers
<1>2. TableStep(r)
  BY <1>1, WriteStep
<1>3. spent' \in 0..MaxFaults
  BY <1>1 DEF IInv, TypeOK
<1>4. sessions'[cookie[r]].revoked # None
  <2>1. PICK c \in Requests : c = cookie[r] /\ sessions[c] # None
    BY <1>1 DEF IInv, FlowInv, AnswerInv, TypeOK
  <2>2. RevokeSession(c)
    BY <1>1, <2>1 DEF Write
  <2>3. CASE Revocable(c)
    <3>1. sessions' = [sessions EXCEPT ![c].revoked = now]
      BY <2>2, <2>3 DEF RevokeSession
    <3>2. sessions[c] \in Sessions /\ sessions'[c] = [sessions[c] EXCEPT !.revoked = now]
      BY <2>1, <3>1 DEF IInv, TypeOK
    <3>3. sessions'[c].revoked = now
      BY <3>2 DEF Sessions
    <3>4. now # None
      BY AuthConstantsOK DEF IInv, TypeOK, Time
    <3> QED
      BY <2>1, <3>3, <3>4
  <2>4. CASE ~Revocable(c)
    BY <2>1, <2>2, <2>4 DEF RevokeSession, Revocable
  <2> QED
    BY <2>3, <2>4
<1>5. PICK status \in Statuses : status = 204
  BY DEF Statuses
<1>6. PICK step \in {"reply", "done"} : Goto(r, step)
  BY <1>1
<1>7. pc[r] \in Calls \cup {"reply"} /\ Answers(r, status)
  BY <1>1, <1>5 DEF Calls
<1>8. Fits(r, status)
  BY <1>4, <1>5 DEF Fits
<1> QED
  BY <1>1, <1>2, <1>3, <1>6, <1>7, <1>8, CallAnswered

\* Abandoned, a request keeps the answer it had, which was right already.
LEMMA AbandonKeeps ==
  ASSUME IInv, NEW r \in Requests, Abandon(r)
  PROVE  IInv'
<1>1. /\ pc[r] \in Calls \cup {"reply"} /\ (Write(r) \/ UNCHANGED tables) /\ Goto(r, "done")
      /\ UNCHANGED <<client, now, input, cookie, subject, issued, stale, failed>>
      /\ spent < MaxFaults /\ spent' = spent + 1
  BY DEF Abandon, Fault
<1>2. TableStep(r)
  BY <1>1, WriteStep
<1>3. spent' \in 0..MaxFaults
  BY <1>1, AuthConstantsOK DEF IInv, TypeOK
<1>4. PICK status \in Statuses : status = answer[r] /\ answer' = [answer EXCEPT ![r] = status]
  <2>1. answer \in [Requests -> Statuses]
    BY DEF IInv, TypeOK
  <2>2. answer = [answer EXCEPT ![r] = answer[r]]
    BY <2>1
  <2> QED
    BY <2>1, <2>2 DEF Abandon
<1>5. PICK step \in {"reply", "done"} : Goto(r, step)
  BY <1>1
<1>6. AnswerInv(r)
  BY DEF IInv
<1>7. status = 204 /\ cookie[r] # None /\ ~failed[r] => sessions'[cookie[r]].revoked # None
  <2> SUFFICES ASSUME status = 204, cookie[r] # None, ~failed[r]
               PROVE  sessions'[cookie[r]].revoked # None
    OBVIOUS
  <2>1. PICK c \in Requests : c = cookie[r]
    BY DEF IInv, TypeOK
  <2>2. sessions[c] # None /\ sessions[c].revoked # None
    BY <1>4, <1>6, <2>1 DEF AnswerInv
  <2> QED
    BY <1>2, <2>1, <2>2 DEF TableStep
<1>8. status = 409 => \E s \in Requests \ {r} :
        accounts'[s] # None /\ Canonical[input[r].spelling] = Canonical[input[s].spelling]
  BY <1>2, <1>4, <1>6 DEF AnswerInv, TableStep
<1>9. Fits(r, status)
  BY <1>1, <1>2, <1>4, <1>6, <1>7, <1>8 DEF AnswerInv, TableStep, Fits
<1>10. Answers(r, status)
  BY <1>4 DEF Answers
<1> QED
  BY <1>1, <1>2, <1>3, <1>5, <1>9, <1>10, CallAnswered

\* A call of r has failed: nothing is claimed but that.
LEMMA CallFailsKeeps ==
  ASSUME IInv, NEW r \in Requests, CallFails(r)
  PROVE  IInv'
<1>1. /\ pc[r] \in Calls /\ (Write(r) \/ UNCHANGED tables) /\ Goto(r, "reply")
      /\ UNCHANGED <<client, now, input, cookie, subject, stale>>
      /\ spent < MaxFaults /\ spent' = spent + 1
  BY DEF CallFails, Fault, Reply
<1>2. TableStep(r)
  BY <1>1, WriteStep
<1>3. spent' \in 0..MaxFaults
  BY <1>1, AuthConstantsOK DEF IInv, TypeOK
<1>4. PICK status \in Statuses :
        status \notin {200, 201, 409} /\ Answers(r, status)
  <2>1. OnError(r) \in {500, 401, 204}
    BY DEF OnError
  <2>2. Answers(r, OnError(r))
    BY DEF CallFails, Reply, Answers
  <2>3. OnError(r) \in Statuses /\ OnError(r) \notin {200, 201, 409}
    BY <2>1 DEF Statuses
  <2> QED
    BY <2>2, <2>3
<1>5. PICK step \in {"reply", "done"} : Goto(r, step)
  BY <1>1
<1>6. /\ failed' \in [Requests -> BOOLEAN] /\ issued' \in [Requests -> Tokens \cup {None}]
      /\ failed'[r] /\ issued'[r] = issued[r]
      /\ \A s \in Requests \ {r} : failed'[s] = failed[s] /\ issued'[s] = issued[s]
  BY DEF CallFails, IInv, TypeOK
<1>7. issued'[r] # None => issued'[r].expires \in AccessTTL..MaxTime + AccessTTL
  BY <1>6 DEF IInv, FlowInv
<1>8. Fits(r, status)
  BY <1>4, <1>6 DEF Fits
<1>9. pc[r] \in Calls \cup {"reply"}
  BY <1>1
<1> QED
  BY <1>1, <1>2, <1>3, <1>4, <1>5, <1>6, <1>7, <1>8, <1>9, CallEnds

\* An access token made now.
LEMMA AccessTokenType ==
  ASSUME IInv, NEW user \in Requests
  PROVE  /\ AccessToken(user) \in Tokens
         /\ AccessToken(user).expires \in AccessTTL..MaxTime + AccessTTL
<1>1. now + AccessTTL \in Time /\ now + AccessTTL \in AccessTTL..MaxTime + AccessTTL
  BY AuthConstantsOK DEF IInv, TypeOK, Time
<1> QED
  BY <1>1 DEF AccessToken, Tokens

\* A refresh that has come this far was live when it read its session, which it
\* was not when the session was over at its arrival.
LEMMA GetUserKeeps ==
  ASSUME IInv, NEW r \in Requests, GetUser(r)
  PROVE  IInv'
<1>1. /\ pc[r] = "user" /\ Goto(r, "reply")
      /\ UNCHANGED <<client, now, input, cookie, subject, stale>>
  BY DEF GetUser, Reply
<1>2. TableStep(r)
  BY WriteStep DEF GetUser
<1>3. spent' \in 0..MaxFaults /\ subject[r] \in Requests
  BY <1>1 DEF IInv, TypeOK, FlowInv, GetUser
<1>4. PICK status \in Statuses : status = 200
  BY DEF Statuses
<1>5. PICK step \in {"reply", "done"} : Goto(r, step)
  BY <1>1
<1>6. failed' \in [Requests -> BOOLEAN] /\ \A s \in Requests \ {r} : failed'[s] = failed[s]
  BY DEF IInv, TypeOK, GetUser
<1>7. /\ issued' \in [Requests -> Tokens \cup {None}]
      /\ \A s \in Requests \ {r} : issued'[s] = issued[s]
      /\ issued'[r] # None => issued'[r].expires \in AccessTTL..MaxTime + AccessTTL
  <2>1. PICK token : token = AccessToken(subject[r])
    OBVIOUS
  <2>2. token \in Tokens /\ token.expires \in AccessTTL..MaxTime + AccessTTL
    BY <1>3, <2>1, AccessTokenType
  <2>3. issued' = [issued EXCEPT ![r] = token] \/ issued' = issued
    BY <2>1 DEF GetUser
  <2>4. /\ issued \in [Requests -> Tokens \cup {None}]
        /\ issued[r] # None => issued[r].expires \in AccessTTL..MaxTime + AccessTTL
    BY DEF IInv, TypeOK, FlowInv
  <2> QED
    BY <2>2, <2>3, <2>4
<1>8. Op(r) \in {"refresh", "me"} /\ (Op(r) = "refresh" => ~stale[r])
  BY <1>1 DEF IInv, FlowInv, AnswerInv
<1>9. Fits(r, status)
  BY <1>4, <1>8 DEF Fits
<1>10. pc[r] \in Calls \cup {"reply"} /\ Answers(r, status)
  BY <1>1, <1>4 DEF Calls, GetUser, Reply, Answers
<1>11. \A s \in Requests \ {r} : failed'[s] = failed[s] /\ issued'[s] = issued[s]
  BY <1>6, <1>7
<1> QED
  BY <1>1, <1>2, <1>3, <1>5, <1>6, <1>7, <1>9, <1>10, <1>11, CallEnds

\* A read that is followed by another call.
LEMMA ReadGoesOn ==
  ASSUME IInv, NEW r \in Requests, pc[r] \in Calls,
         NEW step \in Calls, Call(r, step),
         NEW user \in Requests, ActsFor(r, user),
         issued' \in [Requests -> Tokens \cup {None}],
         \A s \in Requests \ {r} : issued'[s] = issued[s],
         issued'[r] # None => issued'[r].expires \in AccessTTL..MaxTime + AccessTTL,
         UNCHANGED <<tables, client, now, input, cookie, stale, failed, spent>>,
         step \notin {"insert", "lookup", "find"},
         step = "session" => Op(r) = "login" /\ issued'[r] # None /\ Owns(r, user),
         step = "user" => Op(r) = "refresh" /\ ~stale[r],
         step = "revoke" => Op(r) = "logout" /\ cookie[r] # None
  PROVE  IInv'
<1>1. /\ pc \in [Requests -> Calls \cup {"new", "reply", "done"}]
      /\ subject \in [Requests -> Requests \cup {None}]
      /\ answer \in [Requests -> Statuses]
  BY DEF IInv, TypeOK
<1>2. /\ pc'[r] = step /\ subject'[r] = user /\ answer' = answer
      /\ accounts' = accounts /\ sessions' = sessions /\ now' = now
      /\ input' = input /\ cookie' = cookie /\ stale' = stale /\ failed' = failed /\ spent' = spent
  BY <1>1 DEF Call, Goto, ActsFor, tables
<1>3. FlowInv(r) /\ AnswerInv(r) /\ step # "new" /\ pc[r] # "new" /\ pc[r] \notin {"reply", "done"}
  BY DEF IInv, Calls
<1>4. Op(r)' = Op(r)
  BY <1>2 DEF Op
<1>5. user # None /\ (step = "session" => Owns(r, subject[r])')
  BY <1>2, AuthConstantsOK DEF Owns
<1>6. FlowInv(r)'
  BY <1>2, <1>3, <1>4, <1>5 DEF FlowInv
<1>7. AnswerInv(r)'
  <2>1. Over(cookie[r])' = Over(cookie[r])
    BY <1>2 DEF Over
  <2>2. answer[r] = 0
    BY <1>3 DEF FlowInv
  <2> QED
    BY <1>2, <1>3, <1>4, <2>1, <2>2 DEF AnswerInv
<1>8. /\ pc' \in [Requests -> Calls \cup {"new", "reply", "done"}]
      /\ cookie' \in [Requests -> Requests \cup {None}]
      /\ subject' \in [Requests -> Requests \cup {None}]
      /\ answer' \in [Requests -> Statuses]
      /\ stale' \in [Requests -> BOOLEAN] /\ failed' \in [Requests -> BOOLEAN]
      /\ spent' \in 0..MaxFaults /\ DOMAIN input' = Requests
  BY <1>1, <1>2 DEF Call, Goto, ActsFor, IInv, TypeOK
<1>9. \A s \in Requests \ {r} :
        /\ pc'[s] = pc[s] /\ input'[s] = input[s] /\ cookie'[s] = cookie[s]
        /\ subject'[s] = subject[s] /\ issued'[s] = issued[s] /\ answer'[s] = answer[s]
        /\ stale'[s] = stale[s] /\ failed'[s] = failed[s]
  BY <1>1, <1>2 DEF Call, Goto, ActsFor
<1>10. UNCHANGED <<tables, client, now>> /\ input'[r] = input[r]
  BY <1>2
<1> QED
  BY <1>6, <1>7, <1>8, <1>9, <1>10, ReadStep

LEMMA GetUserByEmailKeeps ==
  ASSUME IInv, NEW r \in Requests, GetUserByEmail(r)
  PROVE  IInv'
<1>1. /\ pc[r] = "lookup" /\ pc[r] \in Calls /\ Op(r) = "login"
      /\ UNCHANGED <<tables, client, now, input, cookie, stale, failed, spent>>
  BY DEF GetUserByEmail, Calls, IInv, FlowInv
<1>2. CASE Reply(r, 401) /\ UNCHANGED <<subject, issued>>
  <2>1. UNCHANGED <<client, now, input, cookie, subject, issued, stale, failed>>
    BY <1>1, <1>2
  <2>2. TableStep(r)
    BY <1>1, WriteStep
  <2>3. PICK step \in {"reply", "done"} : Goto(r, step)
    BY <1>2 DEF Reply
  <2>4. PICK status \in Statuses : status = 401
    BY DEF Statuses
  <2>5. Answers(r, status) /\ spent' \in 0..MaxFaults
    BY <1>1, <1>2, <2>4 DEF Reply, Answers, IInv, TypeOK
  <2>6. Fits(r, status)
    BY <1>1, <2>4 DEF Fits
  <2>7. pc[r] \in Calls \cup {"reply"}
    BY <1>1
  <2> QED
    BY <2>1, <2>2, <2>3, <2>5, <2>6, <2>7, CallAnswered
<1>3. ASSUME NEW a \in Holders(Email(r)), accounts[a].password = input[r].password,
             subject' = [subject EXCEPT ![r] = a],
             issued' = [issued EXCEPT ![r] = AccessToken(a)], Call(r, "session")
      PROVE  IInv'
  <2>1. PICK user \in Requests : user = a /\ accounts[user] # None /\ accounts[user].email = Email(r)
    BY DEF Holders
  <2>2. Owns(r, user)
    BY <1>1, <1>3, <2>1, InputFacts DEF Owns
  <2>3. PICK token \in Tokens : token = AccessToken(user)
    BY AccessTokenType
  <2>4. token # None /\ token.expires \in AccessTTL..MaxTime + AccessTTL
    BY <2>3, AuthConstantsOK, AccessTokenType
  <2>5. issued' = [issued EXCEPT ![r] = token] /\ ActsFor(r, user)
    BY <1>3, <2>1, <2>3 DEF ActsFor
  <2>6. /\ issued' \in [Requests -> Tokens \cup {None}] /\ issued'[r] = token
        /\ \A s \in Requests \ {r} : issued'[s] = issued[s]
    BY <2>5 DEF IInv, TypeOK
  <2>7. PICK step \in Calls : step = "session"
    BY DEF Calls
  <2>8. Call(r, step) /\ step \notin {"insert", "lookup", "find"}
    BY <1>3, <2>7
  <2>9. /\ step = "session" => Op(r) = "login" /\ issued'[r] # None /\ Owns(r, user)
        /\ step = "user" => Op(r) = "refresh" /\ ~stale[r]
        /\ step = "revoke" => Op(r) = "logout" /\ cookie[r] # None
        /\ issued'[r] # None => issued'[r].expires \in AccessTTL..MaxTime + AccessTTL
    BY <1>1, <2>2, <2>4, <2>6, <2>7
  <2> QED
    BY <1>1, <2>5, <2>6, <2>8, <2>9, ReadGoesOn
<1>4. \/ Reply(r, 401) /\ UNCHANGED <<subject, issued>>
      \/ \E a \in {h \in Holders(Email(r)) : accounts[h].password = input[r].password} :
           /\ subject' = [subject EXCEPT ![r] = a]
           /\ issued' = [issued EXCEPT ![r] = AccessToken(a)]
           /\ Call(r, "session")
  BY DEF GetUserByEmail
<1> QED
  BY <1>2, <1>3, <1>4

\* A session that is there is live or over: a refresh goes on with a live one,
\* and is refused because of one that is over.
LEMMA GetRefreshTokenByHashKeeps ==
  ASSUME IInv, NEW r \in Requests, GetRefreshTokenByHash(r)
  PROVE  IInv'
<1>1. /\ pc[r] = "find" /\ pc[r] \in Calls /\ Op(r) \in {"refresh", "logout"} /\ cookie[r] # None
      /\ UNCHANGED <<tables, client, now, input, cookie, issued, stale, failed, spent>>
  BY DEF GetRefreshTokenByHash, Calls, IInv, FlowInv
<1>2. PICK c \in Requests : c = cookie[r] /\ sessions[c] # None
  BY <1>1 DEF IInv, AnswerInv, TypeOK
<1>3. sessions[c] \in Sessions
  BY <1>2 DEF IInv, TypeOK
<1>4. Live(c) <=> ~Over(c)
  <2>1. now \in Int /\ sessions[c].expires \in Int
    BY <1>3 DEF IInv, TypeOK, Sessions, Time
  <2> QED
    BY <1>2, <2>1 DEF Live, Over
<1>5. CASE Usable(r)
  <2>1. PICK user \in Requests : user = sessions[c].user
    BY <1>3 DEF Sessions
  <2>2. PICK step \in {"user", "revoke"} : step = IF Op(r) = "refresh" THEN "user" ELSE "revoke"
    OBVIOUS
  <2>3. Call(r, step) /\ ActsFor(r, user)
    BY <1>2, <1>5, <2>1, <2>2 DEF GetRefreshTokenByHash, ActsFor
  <2>4. Op(r) = "refresh" => ~stale[r]
    <3>1. stale[r] => Over(c)
      BY <1>2 DEF IInv, AnswerInv
    <3>2. Op(r) = "refresh" => Live(c)
      BY <1>2, <1>5 DEF Usable
    <3> QED
      BY <1>4, <3>1, <3>2
  <2>5. step \in Calls /\ step \notin {"insert", "lookup", "find"}
    BY DEF Calls
  <2>6. /\ step = "session" => Op(r) = "login" /\ issued'[r] # None /\ Owns(r, user)
        /\ step = "user" => Op(r) = "refresh" /\ ~stale[r]
        /\ step = "revoke" => Op(r) = "logout" /\ cookie[r] # None
    BY <1>1, <2>2, <2>4
  <2>7. /\ issued' \in [Requests -> Tokens \cup {None}]
        /\ \A s \in Requests \ {r} : issued'[s] = issued[s]
        /\ issued'[r] # None => issued'[r].expires \in AccessTTL..MaxTime + AccessTTL
    BY <1>1 DEF IInv, TypeOK, FlowInv
  <2>8. pc[r] \in Calls /\ UNCHANGED <<tables, client, now, input, cookie, stale, failed, spent>>
    BY <1>1
  <2> QED
    BY <2>3, <2>5, <2>6, <2>7, <2>8, ReadGoesOn
<1>6. CASE ~Usable(r)
  <2>1. Op(r) = "refresh" /\ Over(c)
    BY <1>2, <1>4, <1>6 DEF Usable
  <2>2. PICK status \in Statuses : status = 401
    BY DEF Statuses
  <2>3. Goto(r, "reply") /\ Answers(r, status) /\ UNCHANGED subject
    BY <1>6, <2>1, <2>2 DEF GetRefreshTokenByHash, Reply, Answers
  <2>4. PICK step \in {"reply", "done"} : Goto(r, step)
    BY <2>3
  <2>5. TableStep(r)
    BY <1>1, WriteStep
  <2>6. UNCHANGED <<client, now, input, cookie, subject, issued, stale, failed>>
    BY <1>1, <2>3
  <2>7. spent' \in 0..MaxFaults /\ pc[r] \in Calls \cup {"reply"}
    BY <1>1 DEF IInv, TypeOK
  <2>8. Answers(r, status)
    BY <2>3
  <2>9. Fits(r, status)
    BY <1>2, <2>1, <2>2 DEF Fits
  <2> QED
    BY <2>4, <2>5, <2>6, <2>7, <2>8, <2>9, CallAnswered
<1> QED
  BY <1>5, <1>6

\* The answer reaches the browser, which keeps a cookie of a session there is.
LEMMA ReceiveKeeps ==
  ASSUME IInv, NEW r \in Requests, Receive(r)
  PROVE  IInv'
<1>1. /\ pc[r] = "reply" /\ Goto(r, "done")
      /\ UNCHANGED <<tables, now, input, cookie, subject, issued, answer, stale, failed, spent>>
  BY DEF Receive
<1>2. PICK b \in Browsers : b = input[r].browser
  BY <1>1, AuthConstantsOK DEF IInv, FlowInv
<1>3. /\ accounts' = accounts /\ sessions' = sessions /\ now' = now /\ input' = input
      /\ cookie' = cookie /\ subject' = subject /\ issued' = issued /\ answer' = answer
      /\ stale' = stale /\ failed' = failed /\ spent' = spent
  BY <1>1 DEF tables
<1>4. pc \in [Requests -> Calls \cup {"new", "reply", "done"}] /\ pc' = [pc EXCEPT ![r] = "done"]
  BY <1>1 DEF Goto, IInv, TypeOK
<1>5. \/ jar' = [jar EXCEPT ![b] = r] /\ sessions[r] # None
      \/ jar' = [jar EXCEPT ![b] = None]
      \/ jar' = jar
  BY <1>2 DEF Receive, IInv, AnswerInv
<1>6. bearer' = [bearer EXCEPT ![b] = issued[r]] \/ bearer' = bearer
  BY <1>2 DEF Receive
<1>7. jar \in [Browsers -> Requests \cup {None}] /\ bearer \in [Browsers -> Tokens \cup {None}]
      /\ issued[r] \in Tokens \cup {None}
  BY DEF IInv, TypeOK
<1>8. jar' \in [Browsers -> Requests \cup {None}] /\ bearer' \in [Browsers -> Tokens \cup {None}]
  BY <1>5, <1>6, <1>7
<1>9. TypeOK'
  <2>1. pc' \in [Requests -> Calls \cup {"new", "reply", "done"}]
    BY <1>4
  <2> QED
    BY <1>3, <1>8, <2>1 DEF IInv, TypeOK
<1>10. TablesInv'
  <2>1. \A d \in Browsers : jar'[d] # None => sessions[jar'[d]] # None
    BY <1>5, <1>7 DEF IInv, TablesInv
  <2> QED
    BY <1>3, <2>1 DEF IInv, TablesInv
<1>11. Grows
  <2>1. now \in Int
    BY DEF IInv, TypeOK
  <2> QED
    BY <1>3, <2>1 DEF Grows
<1>12. \A s \in Requests \ {r} : Untouched(s)
  BY <1>3, <1>4 DEF Untouched
<1>13. Op(r)' = Op(r) /\ pc'[r] = "done" /\ (cookie[r] # None => Over(cookie[r])' = Over(cookie[r]))
  BY <1>3, <1>4 DEF Op, Over
<1>14. FlowInv(r)' /\ AnswerInv(r)'
  <2>1. FlowInv(r) /\ AnswerInv(r)
    BY DEF IInv
  <2>2. sessions[r] # None => Owns(r, sessions[r].user)'
    BY <1>3, <2>1 DEF FlowInv, Owns
  <2>3. FlowInv(r)'
    BY <1>1, <1>3, <1>13, <2>1, <2>2 DEF FlowInv, Calls
  <2>4. AnswerInv(r)'
    BY <1>1, <1>3, <1>13, <2>1 DEF AnswerInv
  <2> QED
    BY <2>3, <2>4
<1>15. DOMAIN input' = Requests
  BY <1>3 DEF IInv
<1> QED
  BY <1>9, <1>10, <1>11, <1>12, <1>14, <1>15, StepKeepsInvariant

\* Time passes, or nothing happens.
LEMMA QuietKeeps ==
  ASSUME IInv, UNCHANGED <<tables, client, pc, input, cookie, subject, issued, answer, stale,
                           failed, spent>>,
         now' \in 0..MaxTime, now <= now'
  PROVE  IInv'
<1>1. /\ accounts' = accounts /\ sessions' = sessions /\ jar' = jar /\ bearer' = bearer
      /\ pc' = pc /\ input' = input /\ cookie' = cookie /\ subject' = subject /\ issued' = issued
      /\ answer' = answer /\ stale' = stale /\ failed' = failed /\ spent' = spent
  BY DEF tables, client
<1>2. TypeOK'
  BY <1>1 DEF IInv, TypeOK
<1>3. Grows
  BY <1>1 DEF Grows
<1>4. \A s \in Requests : Untouched(s)
  BY <1>1 DEF Untouched
<1>5. \A s \in Requests : FlowInv(s)' /\ AnswerInv(s)'
  BY <1>2, <1>3, <1>4, OthersKept
<1>6. TablesInv' /\ DOMAIN input' = Requests
  BY <1>1 DEF IInv, TablesInv
<1> QED
  BY <1>2, <1>5, <1>6 DEF IInv

-----------------------------------------------------------------------------
(* The theorems *)

LEMMA InitEstablishes == Init => IInv
<1> SUFFICES ASSUME Init PROVE IInv
  OBVIOUS
<1>1. TypeOK
  <2>1. 0 \in 0..MaxTime /\ 0 \in 0..MaxFaults /\ 0 \in Statuses
    BY AuthConstantsOK DEF Statuses
  <2> QED
    BY <2>1 DEF Init, TypeOK
<1>2. DOMAIN input = Requests /\ TablesInv
  BY DEF Init, TablesInv
<1>3. \A r \in Requests : FlowInv(r) /\ AnswerInv(r)
  BY DEF Init, FlowInv, AnswerInv
<1> QED
  BY <1>1, <1>2, <1>3 DEF IInv

LEMMA NextKeeps == IInv /\ [Next]_vars => IInv'
<1> SUFFICES ASSUME IInv, [Next]_vars PROVE IInv'
  OBVIOUS
<1>1. now \in 0..MaxTime /\ now <= now
  BY DEF IInv, TypeOK
<1>2. ASSUME NEW r \in Requests, Handle(r) PROVE IInv'
  BY <1>2, HandlersKeep, CreateUserKeeps, GetUserByEmailKeeps, CreateRefreshTokenKeeps,
     GetRefreshTokenByHashKeeps, GetUserKeeps, RevokeRefreshTokenKeeps DEF Handle
<1>3. ASSUME NEW r \in Requests, CallFails(r) \/ Abandon(r) \/ Receive(r) PROVE IInv'
  BY <1>3, CallFailsKeeps, AbandonKeeps, ReceiveKeeps
<1>4. CASE Tick
  <2>1. now' \in 0..MaxTime /\ now <= now'
    BY <1>1, <1>4, AuthConstantsOK DEF Tick
  <2> QED
    BY <1>4, <2>1, QuietKeeps DEF Tick
<1>5. CASE UNCHANGED vars
  <2>1. UNCHANGED <<tables, client, pc, input, cookie, subject, issued, answer, stale, failed, spent>>
        /\ now' = now
    BY <1>5 DEF vars, tables, client
  <2> QED
    BY <1>1, <2>1, QuietKeeps
<1> QED
  BY <1>2, <1>3, <1>4, <1>5 DEF Next, Finished

\* The inductive invariant holds: no request undoes what another has relied on.
THEOREM Invariance == Spec => []IInv
<1> QED
  BY InitEstablishes, NextKeeps, PTL DEF Spec

\* The variables have their types, e-mails are stored in their canonical spelling,
\* and every session belongs to an account.
THEOREM TypeCorrect == Spec => []TypeOK
<1>1. IInv => TypeOK
  BY DEF IInv
<1> QED
  BY <1>1, Invariance, PTL

\* Registrations that race for one e-mail make one account, and are answered so:
\* the UNIQUE constraint is all the service needs for it.
THEOREM UniqueAccounts == Spec => []OneAccountPerEmail
<1>1. ASSUME IInv PROVE OneAccountPerEmail
  <2>1. \A r \in Requests : accounts[r] # None => accounts[r].email = Canonical[input[r].spelling]
    BY <1>1 DEF IInv, FlowInv
  <2>2. \A r, s \in Requests :
          /\ accounts[r] # None /\ accounts[s] # None
          /\ Canonical[input[r].spelling] = Canonical[input[s].spelling]
          => r = s
    BY <1>1, <2>1 DEF IInv, TablesInv
  <2>3. \A r \in Requests : AnswerInv(r)
    BY <1>1 DEF IInv
  <2> QED
    BY <2>2, <2>3 DEF OneAccountPerEmail, AnswerInv
<1> QED
  BY <1>1, Invariance, PTL

\* A browser's cookie names a stored session of the account whose password its
\* login gave.
THEOREM CookiesAreKnown == Spec => []CookieHasSession
<1>1. ASSUME IInv PROVE CookieHasSession
  <2> SUFFICES ASSUME NEW b \in Browsers, jar[b] # None
               PROVE  /\ sessions[jar[b]] # None
                      /\ Owns(jar[b], sessions[jar[b]].user)
    BY DEF CookieHasSession, Owns
  <2>1. PICK r \in Requests : r = jar[b]
    BY <1>1 DEF IInv, TypeOK
  <2>2. sessions[r] # None
    BY <1>1, <2>1 DEF IInv, TablesInv
  <2>3. Owns(r, sessions[r].user)
    BY <1>1, <2>2 DEF IInv, FlowInv
  <2> QED
    BY <2>1, <2>2, <2>3
<1> QED
  BY <1>1, Invariance, PTL

\* A refresh that arrives when its session is over gets no token, and one is
\* refused only for that or for a failure.
THEOREM RefreshIsRight == Spec => []RefreshFollowsSession
<1>1. IInv => RefreshFollowsSession
  BY DEF IInv, AnswerInv, RefreshFollowsSession
<1> QED
  BY <1>1, Invariance, PTL

\* A logout that was answered without a failure has revoked its session.
THEOREM LogoutIsEffective == Spec => []LogoutEndsSession
<1>1. IInv => LogoutEndsSession
  BY DEF IInv, AnswerInv, LogoutEndsSession
<1> QED
  BY <1>1, Invariance, PTL

\* The row of a revoked session is never written again, by no step of any request.
THEOREM RevokedStays == Spec => RevocationIsFinal
<1> DEFINE Final == \A s \in Requests : sessions[s] # None /\ sessions[s].revoked # None
                      => sessions'[s] = sessions[s]
<1>1. ASSUME IInv, [Next]_vars PROVE [Final]_vars
  <2>1. ASSUME NEW r \in Requests, Write(r) \/ UNCHANGED tables PROVE Final
    BY <1>1, <2>1, WriteStep DEF TableStep
  <2>2. ASSUME UNCHANGED tables PROVE Final
    BY <2>2 DEF tables
  <2>3. ASSUME NEW r \in Requests, Handle(r) \/ CallFails(r) \/ Abandon(r) \/ Receive(r)
        PROVE  Write(r) \/ UNCHANGED tables
    BY <2>3 DEF Handle, HandleRegister, HandleLogin, HandleRefresh, HandleLogout, HandleMe, Arrive,
       CreateUser, GetUserByEmail, CreateRefreshToken, GetRefreshTokenByHash, GetUser,
       RevokeRefreshToken, CallFails, Abandon, Receive
  <2>4. Tick => UNCHANGED tables
    BY DEF Tick
  <2> HIDE DEF Final
  <2> QED
    BY <1>1, <2>1, <2>2, <2>3, <2>4 DEF Next, Finished
<1>2. IInv /\ [Next]_vars => [Final]_vars
  BY <1>1
<1> QED
  BY <1>2, Invariance, PTL DEF Spec, RevocationIsFinal
=============================================================================
