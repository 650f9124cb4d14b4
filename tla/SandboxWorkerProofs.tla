------------------------ MODULE SandboxWorkerProofs ------------------------
(***************************************************************************)
(* Proofs about SandboxWorker, for any number of calls, permits, threads   *)
(* and restarts: the semaphore, at-most-once execution, and what the       *)
(* answers say of the run.                                                 *)
(***************************************************************************)
EXTENDS SandboxWorker, FiniteSetTheorems, TLAPS

\* The requests between acquire and the finally of the endpoint.
Holders == {c \in Calls : task[c] \in {"to_execute", "executing"}}

\* There are never more copies to deliver than were made.
CopiesWereSent == \A c \in Calls : copies[c] <= sent[c]

\* The permits are conserved, and finitely many are held.
Permits ==
    /\ IsFiniteSet(Holders)
    /\ permits + Cardinality(Holders) = MaxConcurrency

\* A request is being served only after its nonce was consumed, and a nonce is
\* consumed once per start of the worker: what has not got to docker run yet was
\* run in earlier lives of the worker only.
Running ==
    \A c \in Calls :
        /\ runs[c] <= 1 + restarts
        /\ task[c] # "none" => c \in consumed
        /\ c \notin consumed => runs[c] <= restarts
        /\ task[c] \in {"to_acquire", "acquiring", "to_execute"} => runs[c] <= restarts
        /\ c \in Malformed /\ restarts = 0 => runs[c] = 0 /\ task[c] = "none"

\* The worker has given the answer a, which may still be under way.
Answered(c, a) == client[c] = a \/ a \in answers[c]

\* The worker refused the request: its nonce is gone, and nothing ran.
Refusing ==
    \A c \in Calls :
        (Answered(c, "sandbox_worker_busy") \/ Answered(c, "invalid_request"))
          /\ restarts = 0 =>
            c \in consumed /\ runs[c] = 0 /\ task[c] = "none"

\* The worker answered with a result: its nonce is gone, and so is the container.
Ending ==
    \A c \in Calls :
        Answered(c, "result") /\ restarts = 0 =>
            c \in consumed /\ task[c] = "none" /\ c \notin containers

\* The inductive invariant.
WorkerInv ==
    TypeOK /\ CopiesWereSent /\ Permits /\ Running /\ Refusing /\ Ending

-----------------------------------------------------------------------------
(* The semaphore                                                           *)

\* A request that gets a permit joins the holders.
LEMMA HolderJoins ==
    ASSUME TypeOK, NEW c \in Calls, task[c] = "acquiring",
           task' = [task EXCEPT ![c] = "to_execute"]
    PROVE  c \notin Holders /\ Holders' = Holders \cup {c}
BY DEF TypeOK, Holders

\* A request that the endpoint answers leaves the holders.
LEMMA HolderLeaves ==
    ASSUME TypeOK, NEW c \in Calls, task[c] \in {"to_execute", "executing"},
           task' = [task EXCEPT ![c] = "none"]
    PROVE  c \in Holders /\ Holders' = Holders \ {c}
BY DEF TypeOK, Holders

\* The steps before acquire and the start of the run leave the holders alone.
LEMMA HoldersStay ==
    ASSUME TypeOK, NEW c \in Calls, NEW x,
           task' = [task EXCEPT ![c] = x],
           task[c] \in {"to_execute", "executing"}
             <=> x \in {"to_execute", "executing"}
    PROVE  Holders' = Holders
BY DEF TypeOK, Holders

\* EndExecute: the permit that comes back was held, so the semaphore stays within
\* its bound.
LEMMA EndReleases ==
    ASSUME TypeOK, Permits, NEW c \in Calls, NEW a \in Outcomes,
           task[c] \in {"to_execute", "executing"}, EndExecute(c, a)
    PROVE  Permits' /\ permits' \in 0..MaxConcurrency
<1>1. c \in Holders /\ Holders' = Holders \ {c}
  BY HolderLeaves DEF EndExecute
<1>2. IsFiniteSet(Holders') /\ Cardinality(Holders') = Cardinality(Holders) - 1
  BY <1>1, FS_RemoveElement DEF Permits
<1>3. Cardinality(Holders) \in Nat /\ Cardinality(Holders') \in Nat
  BY <1>2, FS_CardinalityType DEF Permits
<1>4. permits' = permits + 1
  BY DEF EndExecute, Released
<1>5. permits \in Nat /\ MaxConcurrency \in Nat
  BY SandboxWorkerAssumption DEF TypeOK
<1> QED
  BY <1>2, <1>3, <1>4, <1>5 DEF Permits

\* Acquire: a permit moves from the semaphore to the request.
LEMMA AcquireTakes ==
    ASSUME TypeOK, Permits, NEW c \in Calls, Acquire(c)
    PROVE  Permits' /\ permits' \in 0..MaxConcurrency
<1>1. c \notin Holders /\ Holders' = Holders \cup {c}
  BY HolderJoins DEF Acquire
<1>2. IsFiniteSet(Holders') /\ Cardinality(Holders') = Cardinality(Holders) + 1
  BY <1>1, FS_AddElement DEF Permits
<1>3. Cardinality(Holders) \in Nat
  BY FS_CardinalityType DEF Permits
<1>4. permits \in 0..MaxConcurrency /\ permits > 0 /\ permits' = permits - 1
  BY DEF Acquire, TypeOK
<1>5. MaxConcurrency \in Nat
  BY SandboxWorkerAssumption
<1> QED
  BY <1>2, <1>3, <1>4, <1>5 DEF Permits

\* A restart makes a new semaphore, and nobody holds a permit of it.
LEMMA RestartPermits ==
    ASSUME Restart
    PROVE  Permits'
<1>1. Holders' = {}
  BY DEF Restart, Holders
<1>2. permits' = MaxConcurrency /\ MaxConcurrency \in Nat
  BY SandboxWorkerAssumption DEF Restart
<1> QED
  BY <1>1, <1>2, FS_EmptySet DEF Permits

-----------------------------------------------------------------------------
(* The inductive invariant                                                 *)

\* The constants a typed step computes with.
LEMMA Constants ==
    /\ MaxConcurrency \in Nat /\ MaxConcurrency > 0
    /\ MaxRestarts \in Nat
    /\ Malformed \subseteq Calls
    /\ \A a \in Outcomes : a # "idle" /\ a # "waiting"
BY SandboxWorkerAssumption DEF Outcomes

\* The invariant holds when the service starts.
LEMMA WorkerInit ==
    Init => WorkerInv
<1> SUFFICES ASSUME Init PROVE WorkerInv
  OBVIOUS
<1>1. TypeOK /\ CopiesWereSent /\ Running /\ Refusing /\ Ending
  BY Constants DEF Init, TypeOK, CopiesWereSent, Running, Refusing, Ending, Answered,
     TaskStates
<1>2. Holders = {}
  BY DEF Init, Holders
<1>3. Permits
  BY <1>2, FS_EmptySet, Constants DEF Init, Permits
<1> QED
  BY <1>1, <1>3 DEF WorkerInv

\* The calls of the client and what the network does to a request.
LEMMA NetworkStep ==
    ASSUME WorkerInv, NEW c \in Calls,
           Call(c) \/ Duplicate(c) \/ Lose(c) \/ Receive(c) \/ ClientFails(c)
    PROVE  WorkerInv'
<1> USE Constants DEF WorkerInv
<1>1. TypeOK'
  BY DEF Call, Duplicate, Lose, Receive, ClientFails, TypeOK, CopiesWereSent, Outcomes
<1>2. CopiesWereSent'
  BY DEF Call, Duplicate, Lose, Receive, ClientFails, TypeOK, CopiesWereSent
<1>3. UNCHANGED <<consumed, task, permits, answers, runs, containers, restarts>>
  BY DEF Call, Duplicate, Lose, Receive, ClientFails
<1>4. Permits' /\ Running'
  BY <1>3 DEF Permits, Holders, Running
<1>5. \A d \in Calls, a \in Outcomes \ {"sandbox_worker_unreachable"} :
         Answered(d, a)' => Answered(d, a)
  BY <1>3 DEF Call, Duplicate, Lose, Receive, ClientFails, Answered, TypeOK
<1>6. Refusing'
  BY <1>3, <1>5 DEF Refusing, Outcomes
<1>7. Ending'
  BY <1>3, <1>5 DEF Ending, Outcomes
<1> QED
  BY <1>1, <1>2, <1>4, <1>6, <1>7

\* A copy reaches the worker: its nonce may be consumed, it is admitted or answered.
LEMMA DeliverStep ==
    ASSUME WorkerInv, NEW c \in Calls, Deliver(c) \/ DeliverLate(c)
    PROVE  WorkerInv'
<1> USE Constants DEF WorkerInv
<1>1. TypeOK' /\ CopiesWereSent'
  BY DEF Deliver, DeliverLate, Answer, TypeOK, CopiesWereSent, ConsumedWith, Outcomes,
     TaskStates
<1>2. Holders' = Holders
  <2>1. CASE UNCHANGED task
    BY <2>1 DEF Holders
  <2>2. CASE task' = [task EXCEPT ![c] = "to_acquire"] /\ c \notin consumed
    BY <2>2, HoldersStay DEF Running
  <2> QED
    BY <2>1, <2>2 DEF Deliver, DeliverLate
<1>3. Permits'
  BY <1>2 DEF Permits, Deliver, DeliverLate
<1>4. Running'
  BY DEF Running, Deliver, DeliverLate, ConsumedWith, TypeOK
<1>5. Refusing'
  BY DEF Refusing, Running, Answered, Answer, Deliver, DeliverLate, ConsumedWith, TypeOK
<1>6. Ending'
  BY DEF Ending, Running, Answered, Answer, Deliver, DeliverLate, ConsumedWith, TypeOK
<1> QED
  BY <1>1, <1>3, <1>4, <1>5, <1>6

\* The wait for the semaphore: it starts, ends with a permit, or is given up.
LEMMA AcquireStep ==
    ASSUME WorkerInv, NEW c \in Calls, StartAcquire(c) \/ AcquireEnds(c)
    PROVE  WorkerInv'
<1> USE Constants DEF WorkerInv
<1>1. UNCHANGED <<clientVars, consumed, runs, containers, restarts>>
  BY DEF StartAcquire, AcquireEnds, Acquire, QueueTimeout
<1>2. task[c] \in {"to_acquire", "acquiring"}
      /\ \E x \in {"none", "acquiring", "to_execute"} : task' = [task EXCEPT ![c] = x]
  BY DEF StartAcquire, AcquireEnds, Acquire, QueueTimeout
<1>3. Permits' /\ permits' \in 0..MaxConcurrency
  <2>1. CASE Acquire(c)
    BY <2>1, AcquireTakes
  <2>2. CASE StartAcquire(c) \/ QueueTimeout(c)
    <3>1. Holders' = Holders
      BY <2>2, HoldersStay DEF StartAcquire, QueueTimeout
    <3> QED
      BY <2>2, <3>1 DEF Permits, StartAcquire, QueueTimeout, TypeOK
  <2> QED
    BY <2>1, <2>2 DEF AcquireEnds
<1>4. answers' = answers \/ (task' = [task EXCEPT ![c] = "none"]
                              /\ answers' = [answers EXCEPT ![c] = @ \cup {"sandbox_worker_busy"}])
  BY DEF StartAcquire, AcquireEnds, Acquire, QueueTimeout, Answer
<1>5. TypeOK' /\ CopiesWereSent'
  BY <1>1, <1>2, <1>3, <1>4 DEF TypeOK, CopiesWereSent, clientVars, Outcomes, TaskStates
<1>6. Running'
  BY <1>1, <1>2 DEF Running, TypeOK
<1>7. Refusing'
  BY <1>1, <1>2, <1>4 DEF Refusing, Running, Answered, TypeOK, clientVars
<1>8. Ending'
  BY <1>1, <1>2, <1>4 DEF Ending, Running, Answered, TypeOK, clientVars
<1> QED
  BY <1>3, <1>5, <1>6, <1>7, <1>8

\* docker run.
LEMMA StartExecuteStep ==
    ASSUME WorkerInv, NEW c \in Calls, StartExecute(c)
    PROVE  WorkerInv'
<1> USE Constants DEF WorkerInv
<1>1. TypeOK' /\ CopiesWereSent'
  BY DEF StartExecute, TypeOK, CopiesWereSent, clientVars, TaskStates
<1>2. Holders' = Holders
  BY HoldersStay DEF StartExecute
<1>3. Permits'
  BY <1>2 DEF Permits, StartExecute
<1>4. Running' /\ Refusing' /\ Ending'
  BY DEF StartExecute, Running, Refusing, Ending, Answered, TypeOK, clientVars
<1> QED
  BY <1>1, <1>3, <1>4

\* The ends of the execution, each of which releases the permit.
LEMMA EndStep ==
    ASSUME WorkerInv, NEW c \in Calls,
           \/ ExecuteUnavailable(c) \/ ExecuteEnds(c) \/ ExecuteFails(c)
           \/ ExecuteTimeout(c) \/ ExecuteRaises(c)
    PROVE  WorkerInv'
<1> USE Constants DEF WorkerInv
<1>1. PICK a \in Outcomes \ {"sandbox_worker_busy", "invalid_request"} :
        EndExecute(c, a) /\ (a = "result" => c \notin containers')
  BY DEF ExecuteUnavailable, ExecuteEnds, ExecuteFails, ExecuteTimeout, ExecuteRaises,
     TimeoutAnswer, Outcomes
<1>2. /\ task[c] \in {"to_execute", "executing"}
      /\ containers' \subseteq containers
      /\ UNCHANGED <<clientVars, consumed, runs, restarts>>
  BY DEF ExecuteUnavailable, ExecuteEnds, ExecuteFails, ExecuteTimeout, ExecuteRaises
<1>3. Permits' /\ permits' \in 0..MaxConcurrency
  BY <1>1, <1>2, EndReleases
<1>4. /\ task' = [task EXCEPT ![c] = "none"]
      /\ answers' = [answers EXCEPT ![c] = @ \cup {a}]
  BY <1>1 DEF EndExecute, Answer
<1>5. TypeOK' /\ CopiesWereSent'
  BY <1>2, <1>3, <1>4 DEF TypeOK, CopiesWereSent, clientVars, TaskStates
<1>6. Running'
  BY <1>2, <1>4 DEF Running, TypeOK
<1>7. Refusing'
  BY <1>1, <1>2, <1>4 DEF Refusing, Answered, TypeOK, clientVars
<1>8. Ending'
  BY <1>1, <1>2, <1>4 DEF Ending, Running, Answered, TypeOK, clientVars
<1> QED
  BY <1>3, <1>5, <1>6, <1>7, <1>8

\* A container nobody waits for, and the restart of the worker.
LEMMA DaemonStep ==
    ASSUME WorkerInv, Restart \/ \E c \in Calls : ContainerEnds(c)
    PROVE  WorkerInv'
<1> USE Constants DEF WorkerInv
<1>1. CASE Restart
  <2>1. TypeOK' /\ CopiesWereSent'
    BY <1>1 DEF Restart, TypeOK, CopiesWereSent, clientVars, TaskStates
  <2>2. Permits'
    BY <1>1, RestartPermits
  <2>3. Running' /\ Refusing' /\ Ending'
    BY <1>1 DEF Restart, Running, Refusing, Ending, Answered, TypeOK, clientVars
  <2> QED
    BY <2>1, <2>2, <2>3
<1>2. CASE \E c \in Calls : ContainerEnds(c)
  <2>1. containers' \subseteq containers
        /\ UNCHANGED <<clientVars, consumed, task, permits, answers, runs, restarts>>
    BY <1>2 DEF ContainerEnds
  <2>2. TypeOK' /\ CopiesWereSent' /\ Running' /\ Refusing' /\ Ending'
    BY <2>1 DEF TypeOK, CopiesWereSent, Running, Refusing, Ending, Answered, clientVars
  <2>3. Permits'
    BY <2>1 DEF Permits, Holders
  <2> QED
    BY <2>2, <2>3
<1> QED
  BY <1>1, <1>2

\* Every step keeps the invariant.
LEMMA WorkerStep ==
    WorkerInv /\ [Next]_vars => WorkerInv'
<1> SUFFICES ASSUME WorkerInv, [Next]_vars PROVE WorkerInv'
  OBVIOUS
<1>1. CASE UNCHANGED vars
  BY <1>1 DEF vars, WorkerInv, TypeOK, CopiesWereSent, Permits, Holders, Running, Refusing,
     Ending, Answered
<1>2. CASE Next
  BY <1>2, NetworkStep, DeliverStep, AcquireStep, StartExecuteStep, EndStep, DaemonStep
  DEF Next, Executes
<1> QED
  BY <1>1, <1>2

\* The invariant holds throughout.
LEMMA WorkerInvariant ==
    Spec => []WorkerInv
BY WorkerInit, WorkerStep, PTL DEF Spec

-----------------------------------------------------------------------------
(* What the service can rely on                                            *)

\* The semaphore stays within its bound, so BoundedSemaphore.release never raises
\* in the finally of the endpoint, and every variable has its type.
THEOREM WorkerTypeCorrect ==
    Spec => []TypeOK
BY WorkerInvariant, PTL DEF WorkerInv

\* No permit is lost or made up on any path through the endpoint.
THEOREM PermitsAreConserved ==
    Spec => []PermitsConserved
<1>1. WorkerInv => PermitsConserved
  BY DEF WorkerInv, Permits, Holders, PermitsConserved
<1> QED
  BY <1>1, WorkerInvariant, PTL

\* However often its request is delivered, a call runs its skill once per start
\* of the worker.
THEOREM CallsRunOnce ==
    Spec => []RunsOnce
<1>1. WorkerInv => RunsOnce
  BY DEF WorkerInv, Running, RunsOnce
<1> QED
  BY <1>1, WorkerInvariant, PTL

\* A call that returned a refusal never ran, and never will in this life of the
\* worker.
THEOREM RefusedCallsNeverRun ==
    Spec => []RefusedNeverRuns
<1>1. WorkerInv => RefusedNeverRuns
  BY DEF WorkerInv, Refusing, Answered, RefusedNeverRuns
<1> QED
  BY <1>1, WorkerInvariant, PTL

\* A call that returned a result left no container behind.
THEOREM ResultsMeanEnded ==
    Spec => []ResultMeansEnded
<1>1. WorkerInv => ResultMeansEnded
  BY DEF WorkerInv, Ending, Answered, ResultMeansEnded
<1> QED
  BY <1>1, WorkerInvariant, PTL
=============================================================================
