----------------------------- MODULE AuthSessions -----------------------------
(***************************************************************************)
(* Registration, login, refresh, logout and /me: the handlers of           *)
(* internal/api/auth_handler.go and the AuthService they call.             *)
(*                                                                         *)
(* A request is a process whose steps are its database calls; none of them *)
(* is inside a transaction, so that requests interleave between any two.   *)
(* An account and a session are named by the request that made them.  A    *)
(* browser has one refresh_token cookie, and learns of an answer some time *)
(* after it was given, or never.                                           *)
(***************************************************************************)
EXTENDS Naturals, FiniteSets

CONSTANTS
  Requests,    \* requests
  Inputs,      \* Inputs[r]: what request r may be
  Browsers,    \* clients with a cookie jar
  Canonical,   \* Canonical[s]: spelling s of an e-mail in lower case, trimmed
  Blank,       \* an empty e-mail or password
  Unhashable,  \* passwords that bcrypt refuses
  AccessTTL, RefreshTTL,  \* lifetimes of access tokens and of sessions
  MaxTime,     \* bound on the clock
  MaxFaults,   \* bound on the number of failures in a behaviour
  None         \* no row, no cookie, no token

Operations == {"register", "login", "refresh", "logout", "me"}
Roles      == {"customer", "admin"}
Statuses   == {0, 200, 201, 204, 400, 401, 409, 500}
Calls      == {"insert", "lookup", "session", "find", "user", "revoke"}
Emails     == {Canonical[s] : s \in DOMAIN Canonical}
Passwords  == {in.password : in \in UNION {Inputs[r] : r \in Requests}}
Time       == 0..MaxTime + RefreshTTL + AccessTTL
Tokens     == [user : Requests, expires : Time]

\* The rows of users and of refresh_tokens.
Accounts   == [email : Emails, password : Passwords, role : Roles]
Sessions   == [user : Requests, expires : Time, revoked : Time \cup {None}]

ASSUME AuthConstantsOK ==
  /\ AccessTTL \in Nat /\ RefreshTTL \in Nat
  /\ MaxTime \in Nat /\ MaxFaults \in Nat
  /\ \A r \in Requests : \A in \in Inputs[r] :
       /\ in.op \in Operations /\ in.browser \in Browsers
       /\ in.op \in {"register", "login"} => in.spelling \in DOMAIN Canonical
  /\ None \notin Requests /\ None \notin Time /\ None \notin Tokens
  /\ None \notin Accounts /\ None \notin Sessions

VARIABLES
  accounts,    \* users: the row a registration inserted, or None
  sessions,    \* refresh_tokens: the row a login inserted, or None
  jar,         \* jar[b]: the session whose refresh_token b keeps, or None
  bearer,      \* bearer[b]: the access token b keeps, or None
  now,         \* the clock of the API and of PostgreSQL
  pc,          \* what each request does next
  input,       \* what it is
  cookie,      \* the session its cookie names, or None
  subject,     \* the account it acts for, or None
  issued,      \* the access token it has made, or None
  answer,      \* its HTTP status, 0 while there is none
  stale,       \* whether its session was over when the request arrived
  failed,      \* whether one of its database calls failed
  spent        \* failures so far

tables == <<accounts, sessions>>
client == <<jar, bearer>>
vars   == <<accounts, sessions, jar, bearer, now, pc, input, cookie, subject,
            issued, answer, stale, failed, spent>>

\* The types of the variables; e-mails are stored in their canonical spelling, and
\* a session belongs to an account there is.
TypeOK ==
  /\ accounts \in [Requests -> Accounts \cup {None}]
  /\ sessions \in [Requests -> Sessions \cup {None}]
  /\ \A r \in Requests : sessions[r] # None => accounts[sessions[r].user] # None
  /\ jar \in [Browsers -> Requests \cup {None}]
  /\ bearer \in [Browsers -> Tokens \cup {None}]
  /\ now \in 0..MaxTime
  /\ pc \in [Requests -> Calls \cup {"new", "reply", "done"}]
  /\ cookie \in [Requests -> Requests \cup {None}]
  /\ subject \in [Requests -> Requests \cup {None}]
  /\ issued \in [Requests -> Tokens \cup {None}]
  /\ answer \in [Requests -> Statuses]
  /\ stale \in [Requests -> BOOLEAN]
  /\ failed \in [Requests -> BOOLEAN]
  /\ spent \in 0..MaxFaults

-----------------------------------------------------------------------------
(* Helpers *)

Op(r) == input[r].op

\* Mutant of Normalise: the e-mail is stored as it was typed.
Normalise_Raw(s) == s

\* strings.TrimSpace(strings.ToLower(email)).
Normalise(s) == Canonical[s]

Email(r) == Normalise(input[r].spelling)

Goto(r, step) == pc' = [pc EXCEPT ![r] = step]

\* The handler writes its answer, which is then on its way to the browser.
Reply(r, status) == Goto(r, "reply") /\ answer' = [answer EXCEPT ![r] = status]

\* The next database call, and no answer yet.
Call(r, step) == Goto(r, step) /\ UNCHANGED answer

\* A failure may happen, and is counted.
Fault == spent < MaxFaults /\ spent' = spent + 1

\* GenerateAccessToken.
AccessToken(user) == [user |-> user, expires |-> now + AccessTTL]

\* The token's claims are believed until its exp.
ParseAccessToken(token) == now < token.expires

\* The rows with this e-mail.
Holders(email) == {a \in Requests : accounts[a] # None /\ accounts[a].email = email}

\* Mutant of Taken: the column lacks its UNIQUE constraint.
Taken_Never(email) == FALSE

\* INSERT fails with a unique violation.
Taken(email) == Holders(email) # {}

\* Mutant of Live: an expired session is as good as any.
Live_Revoked(s) == sessions[s].revoked = None

\* What RefreshAccessToken demands of the row it has read.
Live(s) == sessions[s].revoked = None /\ now <= sessions[s].expires

\* The session was revoked, or its time is up.
Over(s) ==
  sessions[s] # None => sessions[s].revoked # None \/ now > sessions[s].expires

-----------------------------------------------------------------------------
(* Requests arrive *)

\* A request of this kind arrives with what the browser sends along; the
\* handler's checks of its input decide what it does first.
Arrive(r, op) ==
  /\ pc[r] = "new"
  /\ \E in \in Inputs[r] :
       /\ in.op = op
       /\ input' = [input EXCEPT ![r] = in]
       /\ cookie' = [cookie EXCEPT ![r] = IF op \in {"refresh", "logout"}
                                          THEN jar[in.browser] ELSE None]
  /\ stale' = [stale EXCEPT ![r] = cookie'[r] # None /\ Over(cookie'[r])]
  /\ UNCHANGED <<tables, client, now, issued, failed, spent>>

\* An absent role means "customer", and any other than the two is refused.
Role(in) == IF in.role = "" THEN "customer" ELSE in.role

Complete(in) == Normalise(in.spelling) # Blank /\ in.password # Blank

HandleRegister(r) ==
  /\ Arrive(r, "register")
  /\ LET in == input'[r] IN
     IF ~Complete(in) \/ Role(in) \notin Roles THEN Reply(r, 400)
     ELSE IF in.password \in Unhashable THEN Reply(r, 500)
     ELSE Call(r, "insert")
  /\ UNCHANGED subject

HandleLogin(r) ==
  /\ Arrive(r, "login")
  /\ IF Complete(input'[r]) THEN Call(r, "lookup") ELSE Reply(r, 400)
  /\ UNCHANGED subject

HandleRefresh(r) ==
  /\ Arrive(r, "refresh")
  /\ IF cookie'[r] = None THEN Reply(r, 401) ELSE Call(r, "find")
  /\ UNCHANGED subject

HandleLogout(r) ==
  /\ Arrive(r, "logout")
  /\ IF cookie'[r] = None THEN Reply(r, 204) ELSE Call(r, "find")
  /\ UNCHANGED subject

\* Any access token that has not expired will do, whatever has become of the
\* session it came from.
requireAuth(token) == token # None /\ ParseAccessToken(token)

HandleMe(r) ==
  /\ Arrive(r, "me")
  /\ LET token == bearer[input'[r].browser] IN
     IF requireAuth(token)
     THEN Call(r, "user") /\ subject' = [subject EXCEPT ![r] = token.user]
     ELSE Reply(r, 401) /\ UNCHANGED subject

-----------------------------------------------------------------------------
(* The database calls *)

\* INSERT INTO users, unless the e-mail is taken.
InsertUser(r) ==
  /\ IF Taken(Email(r)) THEN UNCHANGED accounts
     ELSE accounts' = [accounts EXCEPT ![r] =
            [email |-> Email(r), password |-> input[r].password, role |-> Role(input[r])]]
  /\ UNCHANGED sessions

\* INSERT INTO refresh_tokens.
InsertSession(r) ==
  /\ sessions' = [sessions EXCEPT ![r] =
       [user |-> subject[r], expires |-> issued[r].expires - AccessTTL + RefreshTTL,
        revoked |-> None]]
  /\ UNCHANGED accounts

\* Mutant of Revocable: the UPDATE lacks AND revoked_at IS NULL.
Revocable_Again(s) == TRUE

\* WHERE id = $1 AND revoked_at IS NULL.
Revocable(s) == sessions[s].revoked = None

\* UPDATE refresh_tokens SET revoked_at = NOW().
RevokeSession(s) ==
  /\ IF Revocable(s) THEN sessions' = [sessions EXCEPT ![s].revoked = now]
     ELSE UNCHANGED sessions
  /\ UNCHANGED accounts

\* The write a request is about to make.
Write(r) ==
  \/ pc[r] = "insert" /\ InsertUser(r)
  \/ pc[r] = "session" /\ InsertSession(r)
  \/ pc[r] = "revoke" /\ RevokeSession(cookie[r])

CreateUser(r) ==
  /\ pc[r] = "insert"
  /\ Write(r)
  /\ Reply(r, IF Taken(Email(r)) THEN 409 ELSE 201)
  /\ UNCHANGED <<client, now, input, cookie, subject, issued, stale, failed, spent>>

\* The account is read, its password compared, and the access token and the
\* session's expiry are made before the session is stored.
GetUserByEmail(r) ==
  /\ pc[r] = "lookup"
  /\ LET found == {a \in Holders(Email(r)) : accounts[a].password = input[r].password} IN
     \/ /\ found = {} /\ Reply(r, 401)
        /\ UNCHANGED <<subject, issued>>
     \/ \E a \in found :
          /\ subject' = [subject EXCEPT ![r] = a]
          /\ issued' = [issued EXCEPT ![r] = AccessToken(a)]
          /\ Call(r, "session")
  /\ UNCHANGED <<tables, client, now, input, cookie, stale, failed, spent>>

CreateRefreshToken(r) ==
  /\ pc[r] = "session"
  /\ Write(r)
  /\ Reply(r, 200)
  /\ UNCHANGED <<client, now, input, cookie, subject, issued, stale, failed, spent>>

\* Mutant of Usable: logout takes over the checks of refresh.
Usable_Alike(r) == Live(cookie[r])

\* Refresh goes on with a live session only, logout with any.
Usable(r) == Op(r) = "refresh" => Live(cookie[r])

\* The session is read; a missing row is answered like a dead one.
GetRefreshTokenByHash(r) ==
  /\ pc[r] = "find"
  /\ IF sessions[cookie[r]] # None /\ Usable(r)
     THEN /\ Call(r, IF Op(r) = "refresh" THEN "user" ELSE "revoke")
          /\ subject' = [subject EXCEPT ![r] = sessions[cookie[r]].user]
     ELSE /\ Reply(r, IF Op(r) = "refresh" THEN 401 ELSE 204)
          /\ UNCHANGED subject
  /\ UNCHANGED <<tables, client, now, input, cookie, issued, stale, failed, spent>>

\* The account is read; a refresh makes its access token now, and does not look
\* at the session again.
GetUser(r) ==
  /\ pc[r] = "user"
  /\ issued' = IF Op(r) = "refresh"
               THEN [issued EXCEPT ![r] = AccessToken(subject[r])] ELSE issued
  /\ Reply(r, 200)
  /\ UNCHANGED <<tables, client, now, input, cookie, subject, stale, failed, spent>>

\* The session is revoked, or was already: the answer is the same.
RevokeRefreshToken(r) ==
  /\ pc[r] = "revoke"
  /\ Write(r)
  /\ Reply(r, 204)
  /\ UNCHANGED <<client, now, input, cookie, subject, issued, stale, failed, spent>>

-----------------------------------------------------------------------------
(* Failures *)

\* Mutant of OnError: Login does not look at the error of CreateRefreshToken.
OnError_SessionUnchecked(r) ==
  CASE pc[r] = "session" -> 200
    [] pc[r] = "insert" -> 500
    [] Op(r) = "logout" -> 204
    [] OTHER -> 401

\* What a failed call is answered: only an INSERT is a server error, a failed
\* read counts as wrong credentials, and a failed logout as done.
OnError(r) ==
  CASE pc[r] \in {"insert", "session"} -> 500
    [] Op(r) = "logout" -> 204
    [] OTHER -> 401

\* A call fails; a write may have been carried out although its answer is lost.
CallFails(r) ==
  /\ pc[r] \in Calls
  /\ Fault
  /\ UNCHANGED tables \/ Write(r)
  /\ failed' = [failed EXCEPT ![r] = TRUE]
  /\ Reply(r, OnError(r))
  /\ UNCHANGED <<client, now, input, cookie, subject, issued, stale>>

\* The API process dies, or the connection to the browser breaks.
Abandon(r) ==
  /\ pc[r] \in Calls \cup {"reply"}
  /\ Fault
  /\ UNCHANGED tables \/ Write(r)
  /\ Goto(r, "done")
  /\ UNCHANGED <<client, now, input, cookie, subject, issued, answer, stale, failed>>

-----------------------------------------------------------------------------
(* The browser, and time *)

\* The answer arrives: login sets the cookie, logout clears it, login and
\* refresh bring an access token.
Receive(r) ==
  /\ pc[r] = "reply"
  /\ LET b == input[r].browser IN
     /\ jar' = CASE Op(r) = "login" /\ answer[r] = 200 -> [jar EXCEPT ![b] = r]
                 [] Op(r) = "logout" -> [jar EXCEPT ![b] = None]
                 [] OTHER -> jar
     /\ bearer' = IF answer[r] = 200 /\ Op(r) # "me"
                  THEN [bearer EXCEPT ![b] = issued[r]] ELSE bearer
  /\ Goto(r, "done")
  /\ UNCHANGED <<tables, now, input, cookie, subject, issued, answer, stale, failed, spent>>

Tick ==
  /\ now < MaxTime
  /\ now' = now + 1
  /\ UNCHANGED <<tables, client, pc, input, cookie, subject, issued, answer, stale,
                 failed, spent>>

-----------------------------------------------------------------------------
(* Specification *)

Init ==
  /\ accounts = [r \in Requests |-> None]
  /\ sessions = [r \in Requests |-> None]
  /\ jar = [b \in Browsers |-> None]
  /\ bearer = [b \in Browsers |-> None]
  /\ now = 0
  /\ pc = [r \in Requests |-> "new"]
  /\ input = [r \in Requests |-> None]
  /\ cookie = [r \in Requests |-> None]
  /\ subject = [r \in Requests |-> None]
  /\ issued = [r \in Requests |-> None]
  /\ answer = [r \in Requests |-> 0]
  /\ stale = [r \in Requests |-> FALSE]
  /\ failed = [r \in Requests |-> FALSE]
  /\ spent = 0

Handle(r) ==
  \/ HandleRegister(r) \/ HandleLogin(r) \/ HandleRefresh(r)
  \/ HandleLogout(r) \/ HandleMe(r)
  \/ CreateUser(r) \/ GetUserByEmail(r) \/ CreateRefreshToken(r)
  \/ GetRefreshTokenByHash(r) \/ GetUser(r) \/ RevokeRefreshToken(r)

\* All requests are over.
Finished ==
  /\ \A r \in Requests : pc[r] = "done"
  /\ UNCHANGED vars

Next ==
  \/ \E r \in Requests : Handle(r) \/ CallFails(r) \/ Abandon(r) \/ Receive(r)
  \/ Tick
  \/ Finished

Spec == Init /\ [][Next]_vars

-----------------------------------------------------------------------------
(* Properties *)

\* Registrations that race for one e-mail, however each spells it, make one
\* account; only its maker is told so, and only because of it is another refused.
OneAccountPerEmail ==
  LET Same(r, s) == Canonical[input[r].spelling] = Canonical[input[s].spelling] IN
  /\ \A r, s \in Requests :
       accounts[r] # None /\ accounts[s] # None /\ Same(r, s) => r = s
  /\ \A r \in Requests : answer[r] = 201 => accounts[r] # None
  /\ \A r \in Requests : answer[r] = 409 =>
       \E s \in Requests \ {r} : accounts[s] # None /\ Same(r, s)

\* A browser never has a cookie the service does not know: the session it names
\* is stored, and belongs to the account whose password its login gave, though
\* calls fail and answers arrive late, out of order or not at all.
CookieHasSession ==
  \A b \in Browsers : jar[b] # None =>
    /\ sessions[jar[b]] # None
    /\ LET a == accounts[sessions[jar[b]].user] IN
       /\ a.email = Canonical[input[jar[b]].spelling]
       /\ a.password = input[jar[b]].password

\* Refresh goes by the session: one that arrives after the session was revoked
\* or has expired gets no token (one that had arrived before may still get it),
\* and none is refused unless the session is over or a call failed.
RefreshFollowsSession ==
  \A r \in Requests : pc[r] \in {"reply", "done"} /\ cookie[r] # None /\ Op(r) = "refresh" =>
    /\ answer[r] = 200 => ~stale[r]
    /\ answer[r] = 401 => Over(cookie[r]) \/ failed[r]

\* A logout that was answered has revoked its session, also one that races with
\* another or finds the session expired.  Only one of whose calls failed, which is
\* answered alike, may leave its session alive.
LogoutEndsSession ==
  \A r \in Requests :
    answer[r] = 204 /\ cookie[r] # None /\ ~failed[r] =>
      sessions[cookie[r]].revoked # None

\* Once a session is revoked its row never changes, also when two logouts race:
\* the time of the revocation is that of the first.
RevocationIsFinal ==
  [][\A s \in Requests : sessions[s] # None /\ sessions[s].revoked # None
       => sessions'[s] = sessions[s]]_vars
=============================================================================
