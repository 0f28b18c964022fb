------------------------------ MODULE ApiProcess ------------------------------
(***************************************************************************)
(* The life of an API process, cmd/api/main.go: appstart.Retry opens the   *)
(* database pool and then the Redis client, a goroutine listens while main *)
(* waits for a signal, Shutdown drains the server within its time, and the *)
(* deferred calls close the clients.  os.Exit, at any point, runs none of  *)
(* them and takes the requests in flight with it.  The orchestrator starts *)
(* a process that has ended again.                                         *)
(***************************************************************************)
EXTENDS Naturals, FiniteSets

CONSTANTS
  Requests,    \* HTTP requests
  Attempts,    \* attempts of appstart.Retry
  MaxFaults,   \* bound on the number of outages, signals and failures
  None         \* no exit status

ASSUME ProcessConstantsOK == Attempts \in Nat \ {0} /\ MaxFaults \in Nat

VARIABLES
  up,          \* the dependencies that can be reached
  phase,       \* where main is
  attempt,     \* the attempt of Retry it is at
  clients,     \* the clients it has opened and not closed
  listening,   \* whether the server accepts connections
  handler,     \* whether signal.Notify has been called
  signalled,   \* whether a signal waits in the channel, or has been read
  req,         \* what has become of each request
  lost,        \* requests this process took and did not answer
  exit,        \* the exit status of the process before, or None
  spent        \* outages, signals and failures so far

server == <<listening, handler, signalled>>
vars   == <<up, phase, attempt, clients, listening, handler, signalled, req,
            lost, exit, spent>>

Dependencies == {"database", "redis"}
Phases       == Dependencies \cup {"main", "draining", "closing", "down"}

\* The types of the variables; Retry makes no more attempts than it may.
TypeOK ==
  /\ up \subseteq Dependencies
  /\ phase \in Phases
  /\ attempt \in 1..Attempts
  /\ clients \subseteq Dependencies
  /\ listening \in BOOLEAN /\ handler \in BOOLEAN /\ signalled \in BOOLEAN
  /\ req \in [Requests -> {"new", "running", "answered", "lost"}]
  /\ lost \subseteq Requests
  /\ exit \in {0, 1, None}
  /\ spent \in 0..MaxFaults

-----------------------------------------------------------------------------
(* Helpers *)

Running == {r \in Requests : req[r] = "running"}

\* A failure may happen, and is counted.
Fault == spent < MaxFaults /\ spent' = spent + 1

\* The process is gone, and with it what it had open and in flight.
End(status) ==
  /\ phase' = "down" /\ exit' = status
  /\ attempt' = 1 /\ clients' = {}
  /\ listening' = FALSE /\ handler' = FALSE /\ signalled' = FALSE
  /\ req' = [r \in Requests |-> IF r \in Running THEN "lost" ELSE req[r]]
  /\ lost' = lost \cup Running

\* What main does once it has this client.
After(dependency) == IF dependency = "database" THEN "redis" ELSE "main"

-----------------------------------------------------------------------------
(* Start-up *)

\* Retry's function returns a client that has answered a ping.
Connect ==
  /\ phase \in up
  /\ clients' = clients \cup {phase}
  /\ phase' = After(phase) /\ attempt' = 1
  /\ UNCHANGED <<up, server, req, lost, exit, spent>>

\* Mutant of LastAttempt: one too many.
LastAttempt_OneMore == attempt > Attempts

LastAttempt == attempt = Attempts

\* Mutant of GiveUp: Retry returns no error after its last attempt.
GiveUp_NoError ==
  /\ phase' = After(phase) /\ attempt' = 1
  /\ UNCHANGED <<clients, server, req, lost, exit>>

\* Retry returns the last error and main exits.
GiveUp == End(1)

\* The dependency cannot be reached; what was opened is closed again, and after
\* a delay the next attempt begins.
ConnectFails ==
  /\ phase \in Dependencies \ up
  /\ IF LastAttempt THEN GiveUp
     ELSE attempt' = attempt + 1 /\ UNCHANGED <<phase, clients, server, req, lost, exit>>
  /\ UNCHANGED <<up, spent>>

\* The goroutine gets to ListenAndServe.
Listen ==
  /\ phase = "main" /\ ~listening
  /\ listening' = TRUE
  /\ UNCHANGED <<up, phase, attempt, clients, handler, signalled, req, lost, exit, spent>>

\* The address is taken, or the listener breaks: the goroutine exits for all.
ListenFails ==
  /\ phase = "main"
  /\ Fault
  /\ End(1)
  /\ UNCHANGED up

\* main, meanwhile, gets to signal.Notify.
Notify ==
  /\ phase = "main" /\ ~handler
  /\ handler' = TRUE
  /\ UNCHANGED <<up, phase, attempt, clients, listening, signalled, req, lost, exit, spent>>

-----------------------------------------------------------------------------
(* Service *)

\* A request arrives; while Shutdown drains, on a connection that was open before.
Accept(r) ==
  /\ listening \/ phase = "draining"
  /\ req[r] = "new"
  /\ req' = [req EXCEPT ![r] = "running"]
  /\ UNCHANGED <<up, phase, attempt, clients, server, lost, exit, spent>>

Answer(r) ==
  /\ req[r] = "running"
  /\ req' = [req EXCEPT ![r] = "answered"]
  /\ UNCHANGED <<up, phase, attempt, clients, server, lost, exit, spent>>

-----------------------------------------------------------------------------
(* Shutdown *)

\* SIGTERM: it ends a process that has not called Notify; later it is put in the
\* channel, which has room for one.
Signal ==
  /\ phase # "down"
  /\ Fault
  /\ IF handler
     THEN signalled' = TRUE
          /\ UNCHANGED <<phase, attempt, clients, listening, handler, req, lost, exit>>
     ELSE End(1)
  /\ UNCHANGED up

\* main reads the channel and calls Shutdown, which closes the listeners.
BeginShutdown ==
  /\ phase = "main" /\ handler /\ signalled
  /\ phase' = "draining" /\ listening' = FALSE
  /\ UNCHANGED <<up, attempt, clients, handler, signalled, req, lost, exit, spent>>

\* Mutant of Drained: Close instead of Shutdown, which waits for nobody.
Drained_Closed == TRUE

Drained == Running = {}

\* Shutdown returns nil and the deferred calls begin.
ShutdownDone ==
  /\ phase = "draining"
  /\ Drained
  /\ phase' = "closing"
  /\ UNCHANGED <<up, attempt, clients, server, req, lost, exit, spent>>

\* Mutant of ShutdownTimeout: Shutdown is called with a context without deadline.
ShutdownTimeout_Never == FALSE /\ UNCHANGED vars

\* Five seconds are over: main exits with the requests that are left.
ShutdownTimeout ==
  /\ phase = "draining"
  /\ End(1)
  /\ UNCHANGED <<up, spent>>

\* The deferred calls run in reverse order: Redis first.
CloseRedis ==
  /\ phase = "closing" /\ "redis" \in clients
  /\ clients' = clients \ {"redis"}
  /\ UNCHANGED <<up, phase, attempt, server, req, lost, exit, spent>>

\* dbPool.Close, and main returns.
CloseDatabase ==
  /\ phase = "closing" /\ "redis" \notin clients
  /\ End(0)
  /\ UNCHANGED <<up, spent>>

-----------------------------------------------------------------------------
(* The world *)

\* The process is killed.
Crash ==
  /\ phase # "down"
  /\ Fault
  /\ End(1)
  /\ UNCHANGED up

\* The orchestrator starts a new process.
Restart ==
  /\ phase = "down"
  /\ phase' = "database" /\ lost' = {} /\ exit' = None
  /\ UNCHANGED <<up, attempt, clients, server, req, spent>>

Outage(d) ==
  /\ d \in up
  /\ Fault
  /\ up' = up \ {d}
  /\ UNCHANGED <<phase, attempt, clients, server, req, lost, exit>>

Recover(d) ==
  /\ d \notin up
  /\ up' = up \cup {d}
  /\ UNCHANGED <<phase, attempt, clients, server, req, lost, exit, spent>>

-----------------------------------------------------------------------------
(* Specification *)

Init ==
  /\ up \in SUBSET Dependencies
  /\ phase = "database" /\ attempt = 1 /\ clients = {}
  /\ listening = FALSE /\ handler = FALSE /\ signalled = FALSE
  /\ req = [r \in Requests |-> "new"]
  /\ lost = {} /\ exit = None
  /\ spent = 0

Main ==
  \/ Connect \/ ConnectFails \/ Notify
  \/ BeginShutdown \/ ShutdownDone \/ CloseRedis \/ CloseDatabase

\* The service runs and has nothing to do.
Idle ==
  /\ phase = "main" /\ listening /\ handler /\ ~signalled
  /\ UNCHANGED vars

Next ==
  \/ Main \/ ShutdownTimeout \/ Listen \/ ListenFails
  \/ Signal \/ Crash \/ Restart \/ Idle
  \/ \E r \in Requests : Accept(r) \/ Answer(r)
  \/ \E d \in Dependencies : Outage(d) \/ Recover(d)

\* main and the goroutine run, the deadline passes, outages end and the
\* orchestrator restarts.  Nothing makes a request end: it may hang.
Fairness ==
  /\ WF_vars(Main) /\ WF_vars(Listen) /\ WF_vars(ShutdownTimeout)
  /\ WF_vars(Restart)
  /\ \A d \in Dependencies : WF_vars(Recover(d))

Spec     == Init /\ [][Next]_vars
FairSpec == Spec /\ Fairness

-----------------------------------------------------------------------------
(* Properties *)

\* A request in flight can use the database and Redis to its end: the server
\* takes none before both are open, and neither is closed while one runs.
ClientsOutliveRequests == Running # {} => clients = Dependencies

\* A process that exits with success has answered every request it accepted, also
\* those that came while it was draining.  One that crashed, was signalled before
\* Notify or ran out of time has another status, and may have lost some.
CleanExitLosesNothing == exit = 0 => lost = {}

\* A signalled process ends, even if one of its requests never does.
SignalStops == signalled ~> phase = "down"

\* After the last outage, signal and failure the process comes to serve and goes
\* on serving, however often it gave up waiting for its dependencies before.
EventuallyServing == <>[](phase = "main" /\ listening /\ clients = Dependencies)
=============================================================================
