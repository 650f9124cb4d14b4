--------------------------- MODULE SandboxWorker ---------------------------
(***************************************************************************)
(* Remote execution of skills: calls of RemoteSandboxExecutor.execute      *)
(* (app/remote_sandbox.py), the network between the API and the worker, and*)
(* the worker's POST /v1/execute (app/sandbox_worker.py) down to the docker*)
(* run of ContainerSandboxExecutor.execute (app/container_sandbox.py).     *)
(*                                                                         *)
(* The endpoint hands its two blocking calls to the thread pool, first the *)
(* acquisition of the semaphore and then the execution; the threads that   *)
(* wait for the semaphore and the threads that would release it come from  *)
(* the same pool.  Time is left to the scheduler: a timeout may happen at  *)
(* any moment at which the code could still see it.                        *)
(***************************************************************************)
EXTENDS Naturals, FiniteSets

CONSTANTS
    Calls,          \* calls of RemoteSandboxExecutor.execute, each with its nonce
    Malformed,      \* calls whose payload WorkerExecutionRequest rejects
    MaxConcurrency, \* permits of the worker's BoundedSemaphore
    Threads,        \* threads of the worker's pool
    Repeated,       \* calls whose request the network may send twice (a bound)
    MaxRestarts     \* bound on restarts of the worker

ASSUME SandboxWorkerAssumption ==
    /\ Malformed \subseteq Calls
    /\ MaxConcurrency \in Nat \ {0}
    /\ Threads \in Nat \ {0}
    /\ Repeated \subseteq Calls
    /\ MaxRestarts \in Nat

\* What a call returns: the runner's result, the timeout or the failure of its
\* container, a refusal of the worker, or rejected_remote_worker_unavailable.
Outcomes == {"result", "timeout", "container_failed", "container_unavailable",
             "sandbox_worker_busy", "replayed_worker_request",
             "stale_worker_request", "invalid_request", "internal_error",
             "sandbox_worker_unreachable"}

TaskStates == {"none", "to_acquire", "acquiring", "to_execute", "executing"}

VARIABLES
    client,      \* each call: "idle", "waiting", or its outcome
    copies,      \* copies of its request that are still to be sent or delivered
    sent,        \* copies made so far
    consumed,    \* nonces the worker has consumed since it started
    task,        \* how far the worker is with an admitted request
    permits,     \* value of the semaphore
    answers,     \* answers of the worker on their way to the client
    runs,        \* containers started for each call
    containers,  \* calls with a container that is running
    restarts     \* restarts of the worker

vars == <<client, copies, sent, consumed, task, permits, answers, runs,
          containers, restarts>>

clientVars == <<client, copies, sent>>

Init ==
    /\ client = [c \in Calls |-> "idle"]
    /\ copies = [c \in Calls |-> 0]
    /\ sent = [c \in Calls |-> 0]
    /\ consumed = {}
    /\ task = [c \in Calls |-> "none"]
    /\ permits = MaxConcurrency
    /\ answers = [c \in Calls |-> {}]
    /\ runs = [c \in Calls |-> 0]
    /\ containers = {}
    /\ restarts = 0

\* Threads of the pool in use.
Busy == {c \in Calls : task[c] \in {"acquiring", "executing"}}

ThreadFree == Cardinality(Busy) < Threads

Answer(c, a) == answers' = [answers EXCEPT ![c] = @ \cup {a}]

-----------------------------------------------------------------------------
(* The client and the network                                              *)

Call(c) ==
    /\ client[c] = "idle"
    /\ client' = [client EXCEPT ![c] = "waiting"]
    /\ copies' = [copies EXCEPT ![c] = 1]
    /\ sent' = [sent EXCEPT ![c] = 1]
    /\ UNCHANGED <<consumed, task, permits, answers, runs, containers, restarts>>

\* A proxy or a connection retry sends the request once more.
Duplicate(c) ==
    /\ c \in Repeated
    /\ sent[c] = 1
    /\ copies' = [copies EXCEPT ![c] = @ + 1]
    /\ sent' = [sent EXCEPT ![c] = @ + 1]
    /\ UNCHANGED <<client, consumed, task, permits, answers, runs, containers, restarts>>

Lose(c) ==
    /\ copies[c] > 0
    /\ copies' = [copies EXCEPT ![c] = @ - 1]
    /\ UNCHANGED <<client, sent, consumed, task, permits, answers, runs, containers, restarts>>

\* An answer arrives; one that comes after the timeout is not read.
Receive(c) ==
    /\ client[c] = "waiting"
    /\ \E a \in answers[c] : client' = [client EXCEPT ![c] = a]
    /\ UNCHANGED <<copies, sent, consumed, task, permits, answers, runs, containers, restarts>>

\* urlopen raises: the timeout, a refused or a broken connection.
ClientFails(c) ==
    /\ client[c] = "waiting"
    /\ client' = [client EXCEPT ![c] = "sandbox_worker_unreachable"]
    /\ UNCHANGED <<copies, sent, consumed, task, permits, answers, runs, containers, restarts>>

-----------------------------------------------------------------------------
(* The worker                                                              *)

\* Mutant: the worker forgets a nonce at once.
ConsumedForgetting(c) == consumed

\* The guard holds the nonce (WorkerAuth has the details).
ConsumedWith(c) == consumed \cup {c}

\* A copy was under way for too long: 401, and its nonce is not looked at.
DeliverLate(c) ==
    /\ copies[c] > 0
    /\ copies' = [copies EXCEPT ![c] = @ - 1]
    /\ Answer(c, "stale_worker_request")
    /\ UNCHANGED <<client, sent, consumed, task, permits, runs, containers, restarts>>

\* The middleware admits a timely request or answers 409; FastAPI answers 422 to
\* a payload that does not fit.
Deliver(c) ==
    /\ copies[c] > 0
    /\ copies' = [copies EXCEPT ![c] = @ - 1]
    /\ consumed' = ConsumedWith(c)
    /\ \/ /\ c \in consumed
          /\ Answer(c, "replayed_worker_request")
          /\ UNCHANGED task
       \/ /\ c \notin consumed
          /\ c \in Malformed
          /\ Answer(c, "invalid_request")
          /\ UNCHANGED task
       \/ /\ c \notin consumed
          /\ c \notin Malformed
          /\ task' = [task EXCEPT ![c] = "to_acquire"]
          /\ UNCHANGED answers
    /\ UNCHANGED <<client, sent, permits, runs, containers, restarts>>

\* A thread of the pool takes up concurrency.acquire.
StartAcquire(c) ==
    /\ task[c] = "to_acquire"
    /\ ThreadFree
    /\ task' = [task EXCEPT ![c] = "acquiring"]
    /\ UNCHANGED <<clientVars, consumed, permits, answers, runs, containers, restarts>>

Acquire(c) ==
    /\ task[c] = "acquiring"
    /\ permits > 0
    /\ permits' = permits - 1
    /\ task' = [task EXCEPT ![c] = "to_execute"]
    /\ UNCHANGED <<clientVars, consumed, answers, runs, containers, restarts>>

\* Mutant: acquire blocks for as long as it takes.
QueueWaitForever(c) == FALSE

\* The semaphore looks at its value once more when the time is up.
QueueTimeUp(c) == permits = 0

\* Mutant: the finally covers the request that got no permit, too.
QueueTimeoutReleasing(c) ==
    /\ task[c] = "acquiring"
    /\ permits = 0
    /\ permits' = permits + 1
    /\ task' = [task EXCEPT ![c] = "none"]
    /\ Answer(c, "sandbox_worker_busy")
    /\ UNCHANGED <<clientVars, consumed, runs, containers, restarts>>

QueueTimeout(c) ==
    /\ task[c] = "acquiring"
    /\ QueueTimeUp(c)
    /\ task' = [task EXCEPT ![c] = "none"]
    /\ Answer(c, "sandbox_worker_busy")
    /\ UNCHANGED <<clientVars, consumed, permits, runs, containers, restarts>>

\* A thread of the pool takes up sandbox_executor.execute: docker run.
StartExecute(c) ==
    /\ task[c] = "to_execute"
    /\ ThreadFree
    /\ task' = [task EXCEPT ![c] = "executing"]
    /\ runs' = [runs EXCEPT ![c] = @ + 1]
    /\ containers' = containers \cup {c}
    /\ UNCHANGED <<clientVars, consumed, permits, answers, restarts>>

\* Mutant: the permit is given back on success only.
ReleasedOnSuccess(a) == IF a = "result" THEN permits + 1 ELSE permits

\* The finally of the endpoint.
Released(a) == permits + 1

\* The endpoint answers a and releases its permit.
EndExecute(c, a) ==
    /\ task' = [task EXCEPT ![c] = "none"]
    /\ permits' = Released(a)
    /\ Answer(c, a)

\* No workspace or no docker binary: nothing was started.
ExecuteUnavailable(c) ==
    /\ task[c] = "to_execute"
    /\ ThreadFree
    /\ EndExecute(c, "container_unavailable")
    /\ UNCHANGED <<clientVars, consumed, runs, containers, restarts>>

\* The container ends, and its output is a result.
ExecuteEnds(c) ==
    /\ task[c] = "executing"
    /\ containers' = containers \ {c}
    /\ EndExecute(c, "result")
    /\ UNCHANGED <<clientVars, consumed, runs, restarts>>

\* The docker client fails, with the container or without it, or the output is
\* not a result.
ExecuteFails(c) ==
    /\ task[c] = "executing"
    /\ containers' \in {containers, containers \ {c}}
    /\ EndExecute(c, "container_failed")
    /\ UNCHANGED <<clientVars, consumed, runs, restarts>>

\* Mutant: what the docker client had printed by then is taken as the result.
TimeoutAnswerPartial == "result"

\* The execution_status of a run whose time was up.
TimeoutAnswer == "timeout"

\* subprocess.run kills the docker client when the time is up; the container
\* belongs to the daemon and may still be running.
ExecuteTimeout(c) ==
    /\ task[c] = "executing"
    /\ containers' \in {containers, containers \ {c}}
    /\ EndExecute(c, TimeoutAnswer)
    /\ UNCHANGED <<clientVars, consumed, runs, restarts>>

\* The workspace cannot be written or removed: execute raises.  So does the
\* encoding of a result that is not JSON.
ExecuteRaises(c) ==
    /\ task[c] \in {"to_execute", "executing"}
    /\ task[c] = "to_execute" => ThreadFree
    /\ containers' \in {containers, containers \ {c}}
    /\ EndExecute(c, "internal_error")
    /\ UNCHANGED <<clientVars, consumed, runs, restarts>>

\* A container that nobody waits for ends.
ContainerEnds(c) ==
    /\ c \in containers
    /\ task[c] # "executing"
    /\ containers' = containers \ {c}
    /\ UNCHANGED <<clientVars, consumed, task, permits, answers, runs, restarts>>

\* The worker is restarted: requests, connections and nonces are gone, the
\* containers are the daemon's.
Restart ==
    /\ restarts < MaxRestarts
    /\ restarts' = restarts + 1
    /\ consumed' = {}
    /\ task' = [c \in Calls |-> "none"]
    /\ permits' = MaxConcurrency
    /\ answers' = [c \in Calls |-> {}]
    /\ UNCHANGED <<clientVars, runs, containers>>

-----------------------------------------------------------------------------
AcquireEnds(c) == Acquire(c) \/ QueueTimeout(c)

Executes(c) ==
    StartExecute(c) \/ ExecuteUnavailable(c) \/ ExecuteEnds(c) \/ ExecuteFails(c)
    \/ ExecuteTimeout(c) \/ ExecuteRaises(c)

Next ==
    \/ \E c \in Calls :
          \/ Call(c) \/ Duplicate(c) \/ Lose(c) \/ Receive(c) \/ ClientFails(c)
          \/ DeliverLate(c) \/ Deliver(c) \/ StartAcquire(c) \/ AcquireEnds(c) \/ Executes(c)
          \/ ContainerEnds(c)
    \/ Restart

\* The pool serves its queue in order, both waits of the worker have a timeout,
\* and so has the client's.
Fairness ==
    \A c \in Calls :
        /\ WF_vars(Receive(c) \/ ClientFails(c))
        /\ WF_vars(StartAcquire(c))
        /\ WF_vars(AcquireEnds(c))
        /\ WF_vars(Executes(c))

Spec == Init /\ [][Next]_vars /\ Fairness

-----------------------------------------------------------------------------
(* Properties                                                              *)

\* The semaphore stays within its bound (BoundedSemaphore raises otherwise), and
\* every variable has its type.
TypeOK ==
    /\ client \in [Calls -> {"idle", "waiting"} \cup Outcomes]
    /\ copies \in [Calls -> 0..2]
    /\ sent \in [Calls -> 0..2]
    /\ consumed \subseteq Calls
    /\ task \in [Calls -> TaskStates]
    /\ permits \in 0..MaxConcurrency
    /\ answers \in [Calls -> SUBSET Outcomes]
    /\ runs \in [Calls -> Nat]
    /\ containers \subseteq Calls
    /\ restarts \in 0..MaxRestarts

\* No permit is lost or made up: those the semaphore does not have are held by
\* the requests between acquire and the finally of the endpoint.
PermitsConserved ==
    permits + Cardinality({c \in Calls : task[c] \in {"to_execute", "executing"}})
        = MaxConcurrency

\* A call runs its skill once per start of the worker, however often its
\* request is delivered.
RunsOnce == \A c \in Calls : runs[c] <= 1 + restarts

\* What the call returns is true of what the worker did: a refusal as busy or as
\* invalid means that nothing ran and, unless the worker is restarted, nothing
\* will.
RefusedNeverRuns ==
    \A c \in Calls :
        client[c] \in {"sandbox_worker_busy", "invalid_request"} /\ restarts = 0 =>
            runs[c] = 0 /\ task[c] = "none"

\* A call that returns its skill's result has no container left behind: the ones
\* that go on beside the permits are those whose call said timeout or failed, or
\* whose worker was restarted (the docker run of ContainerSandboxExecutor.execute).
ResultMeansEnded ==
    \A c \in Calls : client[c] = "result" /\ restarts = 0 => c \notin containers

\* An admitted request is answered: the requests that wait for the semaphore
\* cannot keep the threads from those that hold it for ever (the queue timeout
\* of concurrency.acquire).
AdmittedIsAnswered == \A c \in Calls : task[c] # "none" ~> task[c] = "none"
=============================================================================
