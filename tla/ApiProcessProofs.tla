--------------------------- MODULE ApiProcessProofs ---------------------------
(***************************************************************************)
(* Proofs about ApiProcess, for any requests, any number of attempts and   *)
(* any number of outages, signals and failures at any moment.              *)
(*                                                                         *)
(* Both properties rest on what main has done by the time it is in each of *)
(* its phases: which clients are open, and whether a request can be there. *)
(***************************************************************************)
EXTENDS ApiProcess, TLAPS

\* The clients that are open in each phase: Retry opens them in turn, and the
\* deferred calls close them in reverse.
ClientsInv ==
  /\ phase \in {"database", "down"} => clients = {}
  /\ phase = "redis" => clients = {"database"}
  /\ phase \in {"main", "draining"} => clients = Dependencies
  /\ phase = "closing" => "database" \in clients

\* The server listens only in main, and a request runs only until Shutdown has
\* drained the server.
ServerInv ==
  /\ listening => phase = "main"
  /\ Running # {} => phase \in {"main", "draining"}

\* A live process has no exit status, and has lost nothing yet.
ExitInv == phase # "down" => exit = None /\ lost = {}

\* The inductive invariant.
IInv ==
  /\ TypeOK
  /\ ClientsInv
  /\ ServerInv
  /\ ExitInv
  /\ CleanExitLosesNothing

-----------------------------------------------------------------------------
(* Steps *)

\* However a process ends: with status 0 only if nothing is in flight.
LEMMA EndPreserves ==
  ASSUME IInv, NEW status \in {0, 1}, End(status), phase # "down",
         status = 0 => Running = {}, up' \subseteq Dependencies, spent' \in 0..MaxFaults
  PROVE  IInv'
<1>1. Running \subseteq Requests
  BY DEF Running
<1>2. TypeOK'
  <2>1. req' \in [Requests -> {"new", "running", "answered", "lost"}] /\ lost' \subseteq Requests
    BY <1>1 DEF IInv, TypeOK, End
  <2>2. attempt' \in 1..Attempts /\ exit' \in {0, 1, None}
    BY ProcessConstantsOK DEF End
  <2> QED
    BY <2>1, <2>2 DEF TypeOK, End, Phases
<1>3. Running' = {}
  BY DEF Running, End, IInv, TypeOK
<1>4. ClientsInv' /\ ServerInv' /\ ExitInv'
  BY <1>3 DEF End, ClientsInv, ServerInv, ExitInv
<1>5. CleanExitLosesNothing'
  <2>1. lost = {}
    BY DEF IInv, ExitInv
  <2> QED
    BY <2>1 DEF End, CleanExitLosesNothing
<1> QED
  BY <1>2, <1>4, <1>5 DEF IInv

\* Retry, around the database and then around Redis.
LEMMA RetryPreserves ==
  ASSUME IInv, Connect \/ ConnectFails
  PROVE  IInv'
<1>1. CASE Connect
  <2>1. phase \in Dependencies
    BY <1>1 DEF Connect, IInv, TypeOK
  <2>2. TypeOK'
    BY <1>1, <2>1, ProcessConstantsOK
    DEF IInv, TypeOK, Connect, After, Phases, Dependencies, server
  <2>3. Running' = Running
    BY <1>1 DEF Connect, Running
  <2>4. ClientsInv' /\ ServerInv' /\ ExitInv' /\ CleanExitLosesNothing'
    BY <1>1, <2>1, <2>3
    DEF IInv, Connect, After, Dependencies, server, ClientsInv, ServerInv, ExitInv,
        CleanExitLosesNothing
  <2> QED
    BY <2>2, <2>4 DEF IInv
<1>2. CASE ConnectFails /\ LastAttempt
  <2>1. End(1) /\ phase # "down"
    BY <1>2 DEF ConnectFails, GiveUp, Dependencies
  <2>2. up' \subseteq Dependencies /\ spent' \in 0..MaxFaults
    BY <1>2 DEF ConnectFails, IInv, TypeOK
  <2> QED
    BY <2>1, <2>2, EndPreserves
<1>3. CASE ConnectFails /\ ~LastAttempt
  <2>1. attempt' \in 1..Attempts
    BY <1>3, ProcessConstantsOK DEF ConnectFails, LastAttempt, IInv, TypeOK
  <2>2. UNCHANGED <<up, phase, clients, listening, handler, signalled, req, lost, exit, spent>>
    BY <1>3 DEF ConnectFails, server
  <2> QED
    BY <2>1, <2>2
    DEF IInv, TypeOK, ClientsInv, ServerInv, ExitInv, CleanExitLosesNothing, Running
<1> QED
  BY <1>1, <1>2, <1>3

\* The goroutine's listener, main's Notify, and requests.
LEMMA ServicePreserves ==
  ASSUME IInv,
         Listen \/ Notify \/ \E r \in Requests : Accept(r) \/ Answer(r)
  PROVE  IInv'
<1>1. CASE Listen \/ Notify
  BY <1>1
  DEF Listen, Notify, IInv, TypeOK, ClientsInv, ServerInv, ExitInv, CleanExitLosesNothing,
      Running
<1>2. ASSUME NEW r \in Requests, Accept(r) PROVE IInv'
  <2>1. phase \in {"main", "draining"}
    BY <1>2 DEF Accept, IInv, ServerInv
  <2> QED
    BY <1>2, <2>1
    DEF Accept, IInv, TypeOK, ClientsInv, ServerInv, ExitInv, CleanExitLosesNothing,
        Running, server
<1>3. ASSUME NEW r \in Requests, Answer(r) PROVE IInv'
  <2>1. phase \in {"main", "draining"}
    BY <1>3 DEF Answer, IInv, ServerInv, Running
  <2> QED
    BY <1>3, <2>1
    DEF Answer, IInv, TypeOK, ClientsInv, ServerInv, ExitInv, CleanExitLosesNothing,
        Running, server
<1> QED
  BY <1>1, <1>2, <1>3

\* A signal ends the process or is left in the channel.
LEMMA SignalPreserves ==
  ASSUME IInv, Signal
  PROVE  IInv'
<1>1. spent' \in 0..MaxFaults /\ up' \subseteq Dependencies /\ phase # "down"
  BY ProcessConstantsOK DEF Signal, Fault, IInv, TypeOK
<1>2. CASE ~handler
  BY <1>1, <1>2, EndPreserves DEF Signal
<1>3. CASE handler
  BY <1>1, <1>3
  DEF Signal, IInv, TypeOK, ClientsInv, ServerInv, ExitInv, CleanExitLosesNothing, Running
<1> QED
  BY <1>2, <1>3

\* Shutdown, and the deferred calls after it.
LEMMA ShutdownPreserves ==
  ASSUME IInv,
         BeginShutdown \/ ShutdownDone \/ ShutdownTimeout \/ CloseRedis \/ CloseDatabase
  PROVE  IInv'
<1>1. CASE BeginShutdown
  BY <1>1
  DEF BeginShutdown, IInv, TypeOK, Phases, ClientsInv, ServerInv, ExitInv,
      CleanExitLosesNothing, Running
<1>2. CASE ShutdownDone
  BY <1>2
  DEF ShutdownDone, Drained, IInv, TypeOK, Phases, Dependencies, ClientsInv, ServerInv,
      ExitInv, CleanExitLosesNothing, Running, server
<1>3. CASE CloseRedis
  BY <1>3
  DEF CloseRedis, IInv, TypeOK, Phases, ClientsInv, ServerInv, ExitInv,
      CleanExitLosesNothing, Running, server
<1>4. CASE ShutdownTimeout
  BY <1>4, EndPreserves DEF ShutdownTimeout, IInv, TypeOK
<1>5. CASE CloseDatabase
  <2>1. Running = {}
    BY <1>5 DEF CloseDatabase, IInv, ServerInv
  <2> QED
    BY <1>5, <2>1, EndPreserves DEF CloseDatabase, IInv, TypeOK
<1> QED
  BY <1>1, <1>2, <1>3, <1>4, <1>5

\* Failures, the orchestrator, and the dependencies.
LEMMA WorldPreserves ==
  ASSUME IInv,
         ListenFails \/ Crash \/ Restart \/ \E d \in Dependencies : Outage(d) \/ Recover(d)
  PROVE  IInv'
<1>1. CASE ListenFails \/ Crash
  <2>1. spent' \in 0..MaxFaults /\ up' \subseteq Dependencies /\ phase # "down" /\ End(1)
    BY <1>1, ProcessConstantsOK DEF ListenFails, Crash, Fault, IInv, TypeOK
  <2> QED
    BY <2>1, EndPreserves
<1>2. CASE Restart
  BY <1>2
  DEF Restart, IInv, TypeOK, Phases, Dependencies, ClientsInv, ServerInv, ExitInv,
      CleanExitLosesNothing, Running, server
<1>3. ASSUME NEW d \in Dependencies, Outage(d) \/ Recover(d) PROVE IInv'
  <2>1. spent' \in 0..MaxFaults /\ up' \subseteq Dependencies
    BY <1>3, ProcessConstantsOK DEF Outage, Recover, Fault, IInv, TypeOK
  <2>2. UNCHANGED <<phase, attempt, clients, listening, handler, signalled, req, lost, exit>>
    BY <1>3 DEF Outage, Recover, server
  <2> QED
    BY <2>1, <2>2
    DEF IInv, TypeOK, ClientsInv, ServerInv, ExitInv, CleanExitLosesNothing, Running
<1> QED
  BY <1>1, <1>2, <1>3

-----------------------------------------------------------------------------
(* Theorems *)

\* In each phase of main the right clients are open, and requests run only while
\* all of them are.
THEOREM Invariance == Spec => []IInv
<1>1. Init => IInv
  <2> SUFFICES ASSUME Init PROVE IInv
    OBVIOUS
  <2>1. attempt \in 1..Attempts /\ spent \in 0..MaxFaults
    BY ProcessConstantsOK DEF Init
  <2>2. TypeOK
    BY <2>1 DEF Init, TypeOK, Phases, Dependencies
  <2>3. Running = {}
    BY DEF Init, Running
  <2> QED
    BY <2>2, <2>3
    DEF Init, IInv, ClientsInv, ServerInv, ExitInv, CleanExitLosesNothing
<1>2. IInv /\ [Next]_vars => IInv'
  <2> SUFFICES ASSUME IInv, [Next]_vars PROVE IInv'
    OBVIOUS
  <2>1. CASE Main
    BY <2>1, RetryPreserves, ServicePreserves, ShutdownPreserves DEF Main
  <2>2. CASE UNCHANGED vars
    BY <2>2
    DEF vars, IInv, TypeOK, ClientsInv, ServerInv, ExitInv, CleanExitLosesNothing, Running
  <2> QED
    BY <2>1, <2>2, ServicePreserves, SignalPreserves, ShutdownPreserves, WorldPreserves
    DEF Next, Idle
<1> QED
  BY <1>1, <1>2, PTL DEF Spec

\* Every variable keeps its type, and Retry makes no more attempts than it may.
THEOREM TypeCorrect == Spec => []TypeOK
<1>1. IInv => TypeOK
  BY DEF IInv
<1> QED
  BY <1>1, Invariance, PTL

\* The pool and the Redis client are open as long as any handler runs, whatever
\* the moment of the signal, of the failure or of the deadline.
THEOREM HandlersHaveClients == Spec => []ClientsOutliveRequests
<1>1. IInv => ClientsOutliveRequests
  BY DEF IInv, ClientsInv, ServerInv, ClientsOutliveRequests
<1> QED
  BY <1>1, Invariance, PTL

\* main returns, with status 0, only after every request was answered.
THEOREM CleanExit == Spec => []CleanExitLosesNothing
<1>1. IInv => CleanExitLosesNothing
  BY DEF IInv
<1> QED
  BY <1>1, Invariance, PTL
=============================================================================
