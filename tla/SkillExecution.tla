--------------------------- MODULE SkillExecution ---------------------------
(***************************************************************************)
(* One API process serving POST /skills/{skill_id}/execute: the endpoint   *)
(* (app/main_legacy.py) over PerformanceAwareExecutor,                     *)
(* SchemaEnforcingExecutor and the backend that app/main.py chose, and the *)
(* telemetry that the endpoint sends to Database_Agent.                    *)
(*                                                                         *)
(* The endpoint never awaits, so the process serves one request at a time. *)
(* What runs beside it: other processes that change the skill's approval,  *)
(* the child process of SafeSkillExecutor with the pipe of its queue, the  *)
(* docker daemon and the services at the other end of HTTP calls.          *)
(***************************************************************************)
EXTENDS Naturals, Sequences, FiniteSets, SequencesExt, SchemaContracts, Readiness,
        PerformanceIntelligence

CONSTANTS
    Backends,      \* which backend main.py builds: "process", "container", "remote"
    FaultSets,     \* what may happen to a child: "killed", by the kernel; "large",
                   \* an output that is larger than the buffer of the pipe
    RawOutputs,    \* what skills return
    OutputSchemas, \* the output_schema that the skill may have
    Inputs,        \* inputs of requests, ...
    InputSchemas,  \* ... and the input_schema that the skill may have
    Histories,     \* what Database_Agent may know of the skill
    MaxRequests    \* bound on requests

ASSUME SkillExecutionAssumption ==
    /\ Backends \subseteq {"process", "container", "remote"}
    /\ FaultSets \subseteq SUBSET {"killed", "large"}
    /\ RawOutputs \cup Inputs \subseteq Values
    /\ OutputSchemas \cup InputSchemas \subseteq Schemas
    /\ MaxRequests \in Nat

\* The output that a result has when there is none: {}.
NoOutput == [type |-> "dict", props |-> <<>>]

Statuses == {"success", "failed", "timeout", "container_unavailable",
             "container_failed", "rejected_no_isolated_sandbox",
             "rejected_remote_worker_unavailable", "rejected_unsafe_code",
             "input_schema_rejected", "output_schema_rejected"}

\* The fields of a result that some step reads or that the answer reports;
\* "container" is container_execution_status, "effective" is the set of the
\* effective_confidence, "health" the one of the decay assessment.
NoResult ==
    [status |-> "failed", output |-> NoOutput, fallback |-> FALSE, container |-> "none",
     effective |-> {}, health |-> "not_applied"]

\* A history: observations, metrics in hundredths, and the unit of the rates among
\* them.
NoHistory == [samples |-> 0, metrics |-> <<>>, unit |-> "rate"]

\* Database_Agent has one reliability of a skill, and its rates are from 0 to 1.
ASSUME HistoriesAssumption ==
    \A h \in Histories :
        /\ h = [samples |-> h.samples, metrics |-> h.metrics, unit |-> h.unit]
        /\ h.samples \in Nat
        /\ DOMAIN h.metrics \subseteq {"win_rate", "skill_score", "profit_factor"}
        /\ \A k \in DOMAIN h.metrics : h.metrics[k] \in Nat
        /\ \A k \in DOMAIN h.metrics \ {"profit_factor"} : h.metrics[k] <= 100

\* The row of Database_Agent's ranking for a history; it has no sample_size.
Ranked(h) ==
    [k \in DOMAIN h.metrics \cup {"total_executions", "sample_size"} |->
        CASE k = "total_executions" -> [type |-> "int", val |-> 100 * h.samples]
          [] k = "sample_size" -> [type |-> "NoneType"]
          [] OTHER ->
             [type |-> "float",
              val |-> IF h.unit = "percent" /\ k # "profit_factor" THEN 100 * h.metrics[k]
                      ELSE h.metrics[k]]]

VARIABLES
    config,     \* settings: backend, allowFallback, required, database; faults;
                \* the skill's output_schema
    down,       \* dependencies of the backend that are down
    probe,      \* the last answer of /ready: "none" if something changed since
    approval,   \* approval_status of the skill
    pc,         \* where the endpoint is
    result,     \* the result as the executors have it
    child,      \* the child process: "none", "running", "writing", "exited"
    pipe,       \* what the child wrote: nothing, a part, or a whole verdict
    counter,    \* SandboxFallbackCounter
    runs,       \* runs of the skill's code for this request, in order
    fallbacks,  \* process runs so far that replaced a container run
    logged,     \* execution logs that Database_Agent stored for this request
    answer,     \* the answer to the last request: its HTTP status
    history,    \* what Database_Agent said of the skill for this request
    requests

vars == <<config, down, probe, approval, pc, result, child, pipe, counter, runs, fallbacks,
          logged, answer, history, requests>>

requestVars == <<config, down, probe, history, requests>>

\* What the pipe of the queue may hold besides a whole verdict.
Empty == [status |-> "empty", output |-> NoOutput]
Part == [status |-> "part", output |-> NoOutput]

Verdict(status, output) == [status |-> status, output |-> output]

Failed == Verdict("failed", NoOutput)

\* The rule of both runners for the confidence c: between 0 and 1, in hundredths.
IsRate(c) == c.val \in 0..100

\* FORBIDDEN_OUTPUT_KEYS of the container's runner and of the process runner.
RunnerForbiddenKeys == {"order", "orders", "broker", "submit_order", "place_order",
                        "cancel_order", "account_id", "api_key", "secret"}
ChildForbiddenKeys == {"broker_order_id", "client_order_id", "order_id",
                       "risk_approval_id", "secret_key", "api_key", "private_key"}

\* _validate_output of the container's runner: a missing or null confidence, or
\* a number that is not a bool.
RunnerAccepts(raw) ==
    /\ raw.type = "dict"
    /\ DOMAIN raw.props \cap RunnerForbiddenKeys = {}
    /\ "confidence" \in DOMAIN raw.props =>
          LET c == raw.props.confidence IN c.type = "NoneType" \/ (Numeric(c) /\ IsRate(c))

\* _validate_signal_output of the process runner: float(confidence) has to work.
ChildAccepts(raw) ==
    /\ raw.type = "dict"
    /\ DOMAIN raw.props \cap ChildForbiddenKeys = {}
    /\ "confidence" \in DOMAIN raw.props =>
          LET c == raw.props.confidence IN "val" \in DOMAIN c /\ IsRate(c)

\* The process runner stores the confidence as a float.
WithFloatConfidence(raw) ==
    IF "confidence" \in DOMAIN raw.props
    THEN [raw EXCEPT !.props.confidence = [type |-> "float", val |-> @.val]]
    ELSE raw

\* A dict is a type and its properties, null is no number, and Values has what the
\* process runner makes of an output.
ASSUME RawOutputsAssumption ==
    \A raw \in RawOutputs :
        /\ raw.type = "dict" => raw = [type |-> "dict", props |-> raw.props]
        /\ raw.type = "dict" /\ "confidence" \in DOMAIN raw.props =>
              LET c == raw.props.confidence IN c.type = "NoneType" => "val" \notin DOMAIN c
        /\ ChildAccepts(raw) => WithFloatConfidence(raw) \in Values

\* What a run of the skill's code says when it comes to its end, in a container
\* and in a child process.
RunnerVerdicts == {Failed} \cup {Verdict("success", raw) : raw \in {r \in RawOutputs : RunnerAccepts(r)}}

ChildVerdicts ==
    {Failed} \cup {Verdict("success", WithFloatConfidence(raw)) :
                        raw \in {r \in RawOutputs : ChildAccepts(r)}}

Configs ==
    [backend : Backends, allowFallback : BOOLEAN, required : BOOLEAN,
     database : BOOLEAN, faults : FaultSets, schema : OutputSchemas]

\* What can be down behind a backend; at most one thing is, a bound of the model.
Dependencies ==
    CASE config.backend = "container" -> ContainerNeeds
      [] config.backend = "remote" -> ContainerNeeds \cup {"worker"}
      [] OTHER -> {}

Init ==
    /\ config \in Configs
    /\ down = {}
    /\ probe = "none"
    /\ approval = "approved"
    /\ pc = "idle"
    /\ result = NoResult
    /\ child = "none"
    /\ pipe = Empty
    /\ counter = 0
    /\ runs = <<>>
    /\ fallbacks = 0
    /\ logged = <<>>
    /\ answer = 0
    /\ history = NoHistory
    /\ requests = 0

-----------------------------------------------------------------------------
(* The endpoint, before the backend                                        *)

Execute ==
    /\ pc = "idle"
    /\ requests < MaxRequests
    /\ requests' = requests + 1
    /\ pc' = "guard"
    /\ result' = NoResult
    /\ child' = "none"
    /\ pipe' = Empty
    /\ runs' = <<>>
    /\ logged' = <<>>
    /\ history' = NoHistory
    /\ answer' = 0
    /\ UNCHANGED <<config, down, probe, approval, counter, fallbacks>>

\* GET /ready.
Ready ==
    /\ pc = "idle"
    /\ \E r \in RuntimeReady(config, down) :
          probe' = CASE r.ready /\ r.secure -> "secure"
                     [] r.ready /\ ~r.secure -> "degraded"
                     [] OTHER -> "unready"
    /\ answer' = 0
    /\ UNCHANGED <<config, down, history, requests, approval, pc, result, child, pipe, counter,
                   runs, fallbacks, logged>>

\* A dependency fails or comes back; it matters when somebody looks.
DependencyChanges ==
    /\ pc \in {"idle", "backend"}
    /\ down' \in ({{d} : d \in Dependencies} \cup {{}}) \ {down}
    /\ probe' = "none"
    /\ answer' = 0
    /\ UNCHANGED <<config, history, requests, approval, pc, result, child, pipe, counter, runs,
                   fallbacks, logged>>

\* Another process approves or deprecates the skill.
ChangeApproval ==
    /\ approval' \in {"approved", "deprecated"} \ {approval}
    /\ UNCHANGED <<requestVars, pc, result, child, pipe, counter, runs, fallbacks,
                   logged, answer>>

\* The lifecycle check of the endpoint: 400 unless approved.
Guard ==
    /\ pc = "guard"
    /\ \/ approval = "approved" /\ pc' = "input" /\ UNCHANGED answer
       \/ approval # "approved" /\ pc' = "idle" /\ answer' = 400
    /\ UNCHANGED <<requestVars, approval, result, child, pipe, counter, runs,
                   fallbacks, logged>>

\* The result is there; the decorators and the endpoint go on from label.
Deliver(status, output, label) ==
    /\ result' = [result EXCEPT !.status = status, !.output = output]
    /\ pc' = label

\* SchemaEnforcingExecutor checks the inputs.
CheckInput ==
    /\ pc = "input"
    /\ \E v \in Inputs, s \in InputSchemas :
          IF Accepted[v][s]
          THEN pc' = "backend" /\ UNCHANGED result
          ELSE Deliver("input_schema_rejected", NoOutput, "annotate")
    /\ UNCHANGED <<requestVars, approval, child, pipe, counter, runs, fallbacks,
                   logged, answer>>

-----------------------------------------------------------------------------
(* The backends                                                            *)

\* A run of the skill's code, and whether it came back with a verdict.
Ran(where, verdict) == Append(runs, [where |-> where, verdict |-> verdict])

\* Mutant: a timeout of the container makes the process runner take over, too.
ContainerRunsRetryingTimeouts ==
    /\ pc = "backend"
    /\ config.backend = "container"
    /\ \/ \E v \in RunnerVerdicts : Deliver(v.status, v.output, "output")
       \/ config.allowFallback /\ pc' = "spawn" /\ UNCHANGED result
    /\ runs' = Ran("container", TRUE)
    /\ counter' = IF pc' = "spawn" THEN counter + 1 ELSE counter
    /\ UNCHANGED <<requestVars, approval, child, pipe, fallbacks, logged, answer>>

\* docker run can start a container; a missing image it tries to pull.
Startable == down \cap {"workspace", "binary", "daemon"} = {}

\* The checks of ContainerSandboxExecutor.execute before docker run.
Unavailable == down \cap {"workspace", "binary"} # {}

\* ContainerSandboxExecutor.execute: the runner's verdict, or the timeout ...
ContainerRuns ==
    /\ pc = "backend"
    /\ config.backend = "container"
    /\ Startable
    /\ \/ \E v \in RunnerVerdicts : /\ Deliver(v.status, v.output, "output")
                              /\ runs' = Ran("container", TRUE)
       \/ /\ Deliver("timeout", NoOutput, "output")
          /\ runs' = Ran("container", TRUE)
    /\ UNCHANGED <<requestVars, approval, child, pipe, counter, fallbacks, logged, answer>>

\* Mutant: the process runner takes over whenever the container fails.
FallbackAlways == TRUE

\* CURATOR_CONTAINER_SANDBOX_FALLBACK
FallbackAllowed == config.allowFallback

\* Mutant: the alert and the result each count.
CountedTwice == counter + 2

\* fallback_counter.increment
Counted == counter + 1

\* Mutant: a result of the process runner looks like any other.
FellBackSilently(r) == r

\* What OptionalContainerExecutor says of a result of the process runner.
FellBack(r) == [r EXCEPT !.fallback = TRUE]

\* ... or it is not available, or fails, before the code ran or after, and
\* OptionalContainerExecutor rejects the request or falls back.
ContainerFails ==
    LET failed == [result EXCEPT !.container = IF Unavailable THEN "container_unavailable"
                                               ELSE "container_failed"] IN
    /\ pc = "backend"
    /\ config.backend = "container"
    /\ \/ runs' = runs
       \/ Startable /\ runs' = Ran("container", FALSE)
    /\ \/ /\ FallbackAllowed
          /\ counter' = Counted
          /\ result' = FellBack(failed)
          /\ pc' = "spawn"
       \/ /\ ~FallbackAllowed
          /\ result' = [failed EXCEPT !.status = "rejected_no_isolated_sandbox"]
          /\ pc' = "output"
          /\ UNCHANGED counter
    /\ UNCHANGED <<requestVars, approval, child, pipe, fallbacks, logged, answer>>

\* The container sandbox is switched off.
UseProcess ==
    /\ pc = "backend"
    /\ config.backend = "process"
    /\ pc' = "spawn"
    /\ UNCHANGED <<requestVars, approval, result, child, pipe, counter, runs,
                   fallbacks, logged, answer>>

\* RemoteSandboxExecutor.execute: what the worker answered, or the failure that
\* stands for a refused, lost or late answer (SandboxWorker has the details).
RemoteRuns ==
    /\ pc = "backend"
    /\ config.backend = "remote"
    /\ \/ /\ "worker" \notin down
          /\ Startable
          /\ \E v \in RunnerVerdicts \cup {Verdict("timeout", NoOutput)} :
                Deliver(v.status, v.output, "output")
          /\ runs' = Ran("worker", TRUE)
       \/ /\ "worker" \notin down
          /\ Deliver(IF Unavailable THEN "container_unavailable" ELSE "container_failed",
                     NoOutput, "output")
          /\ runs' \in {runs} \cup (IF Startable THEN {Ran("worker", FALSE)} ELSE {})
       \/ /\ Deliver("rejected_remote_worker_unavailable", NoOutput, "output")
          /\ \/ runs' = runs
             \/ "worker" \notin down /\ Startable /\ runs' = Ran("worker", FALSE)
    /\ UNCHANGED <<requestVars, approval, child, pipe, counter, fallbacks, logged, answer>>

\* SafeSkillExecutor: the AST check refuses the code, or a child is started.
Spawn ==
    /\ pc = "spawn"
    /\ \/ /\ Deliver("rejected_unsafe_code", NoOutput, "output")
          /\ UNCHANGED <<child, runs, fallbacks>>
       \/ /\ pc' = "join"
          /\ child' = "running"
          /\ runs' = Ran("process", FALSE)
          /\ fallbacks' = IF config.backend = "container" THEN fallbacks + 1 ELSE fallbacks
          /\ UNCHANGED result
    /\ UNCHANGED <<requestVars, approval, pipe, counter, logged, answer>>

\* The child puts its verdict.  It exits once the feeder thread has written all
\* of it; what does not fit into the buffer waits for a reader.
ChildPuts ==
    /\ child = "running"
    /\ \/ /\ child' = "exited"
          /\ pipe' \in ChildVerdicts
       \/ /\ "large" \in config.faults
          /\ child' = "writing"
          /\ pipe' = Part
    /\ UNCHANGED <<requestVars, approval, pc, result, counter, runs, fallbacks,
                   logged, answer>>

\* The child dies, of memory for example.
ChildKilled ==
    /\ "killed" \in config.faults
    /\ child \in {"running", "writing"}
    /\ child' = "exited"
    /\ UNCHANGED <<requestVars, approval, pc, result, pipe, counter, runs, fallbacks,
                   logged, answer>>

\* process.join returns because the child has ended.
Join ==
    /\ pc = "join"
    /\ child = "exited"
    /\ pc' = "get"
    /\ UNCHANGED <<requestVars, approval, result, child, pipe, counter, runs,
                   fallbacks, logged, answer>>

\* Mutant: process.join has no timeout.
JoinForever == FALSE

\* process.join(timeout) is over.
JoinTimeUp == pc = "join"

\* The child is still alive: it is terminated and the queue is not looked at.
JoinTimeout ==
    /\ JoinTimeUp
    /\ pc = "join"
    /\ child # "exited"
    /\ child' = "exited"
    /\ Deliver("timeout", NoOutput, "output")
    /\ UNCHANGED <<requestVars, approval, pipe, counter, runs, fallbacks, logged, answer>>

\* get_nowait: a whole verdict, or queue.Empty.  A part of one is neither: the
\* read waits for the rest, which a dead child does not write.
Get ==
    /\ pc = "get"
    /\ \/ /\ pipe.status \in {"success", "failed"}
          /\ Deliver(pipe.status, pipe.output, "output")
          /\ runs' = [runs EXCEPT ![Len(runs)].verdict = TRUE]
       \/ /\ pipe = Empty
          /\ Deliver("failed", NoOutput, "output")
          /\ UNCHANGED runs
    /\ UNCHANGED <<requestVars, approval, child, pipe, counter, fallbacks, logged, answer>>

-----------------------------------------------------------------------------
(* The endpoint, after the backend                                         *)

\* SchemaEnforcingExecutor checks the output of a success.
CheckOutput ==
    /\ pc = "output"
    /\ IF result.status = "success" /\ ~Accepted[result.output][config.schema]
       THEN Deliver("output_schema_rejected", NoOutput, "annotate")
       ELSE pc' = "annotate" /\ UNCHANGED result
    /\ UNCHANGED <<requestVars, approval, child, pipe, counter, runs, fallbacks,
                   logged, answer>>

\* What PerformanceAwareExecutor adds is metadata.
Metadata(r, h) ==
    LET performance == IF h = NoHistory THEN <<>> ELSE Ranked(h) IN
    [r EXCEPT !.effective = IF "confidence" \in DOMAIN r.output.props
                            THEN CalibrateConfidence(r.output.props.confidence, performance)
                            ELSE {},
              !.health = AssessPerformanceDecay(performance)]

\* The output stays as it was validated.
Annotated(r, h) == IF r.status = "success" THEN Metadata(r, h) ELSE r

\* rank_skills may find no history, or fail.
Annotate ==
    /\ pc = "annotate"
    /\ history' \in {NoHistory} \cup (IF config.database /\ result.status = "success"
                                      THEN Histories ELSE {})
    /\ result' = Annotated(result, history')
    /\ pc' = "telemetry"
    /\ UNCHANGED <<config, down, probe, requests, approval, child, pipe, counter, runs,
                   fallbacks, logged, answer>>

\* Mutant: only failures count, not a missing configuration.
AcceptedUnlessFailed(status) == config.required => status # "failed"

\* The endpoint answers 503 when required telemetry did not succeed.
TelemetryAccepted(status) == config.required => status = "success"

\* create_skill_execution_log: skipped without a base URL; stored and confirmed;
\* stored and the answer lost; not stored.
Telemetry ==
    /\ pc = "telemetry"
    /\ \E status \in {"skipped", "success", "failed"} :
          /\ status = "skipped" <=> ~config.database
          /\ \/ status # "skipped" /\ logged' = Append(logged, result)
             \/ status # "success" /\ UNCHANGED logged
          /\ answer' = IF TelemetryAccepted(status) THEN 200 ELSE 503
    /\ pc' = "idle"
    /\ UNCHANGED <<requestVars, approval, result, child, pipe, counter, runs, fallbacks>>

-----------------------------------------------------------------------------
\* The steps of the endpoint.
Step ==
    \/ Guard \/ CheckInput
    \/ ContainerRuns \/ ContainerFails \/ UseProcess \/ RemoteRuns
    \/ Spawn \/ Join \/ JoinTimeout \/ Get
    \/ CheckOutput \/ Annotate \/ Telemetry

Next ==
    \/ Execute \/ Ready \/ Step
    \/ DependencyChanges \/ ChangeApproval \/ ChildPuts \/ ChildKilled

\* The endpoint runs on: docker run, join and the HTTP calls have timeouts.  The
\* child owes nothing.
Fairness == WF_vars(Step)

Spec == Init /\ [][Next]_vars /\ Fairness

-----------------------------------------------------------------------------
(* Properties                                                              *)

Answered == pc = "idle" /\ answer # 0

ProcessRuns == {i \in DOMAIN runs : runs[i].where = "process"}

\* The variables have their types, and a request has at most two runs of code.
TypeOK ==
    /\ config \in Configs
    /\ Cardinality(down) <= 1
    /\ probe \in {"none", "unready", "degraded", "secure"}
    /\ approval \in {"approved", "deprecated"}
    /\ pc \in {"idle", "guard", "input", "backend", "spawn", "join", "get",
               "output", "annotate", "telemetry"}
    /\ result.status \in Statuses
    /\ result.output \in Values \cup {NoOutput}
    /\ result.health \in {"not_applied", "insufficient_data", "critical", "degraded", "healthy"}
    /\ history \in Histories \cup {NoHistory}
    /\ child \in {"none", "running", "writing", "exited"}
    /\ pipe \in {Empty, Part} \cup ChildVerdicts
    /\ counter \in 0..MaxRequests
    /\ fallbacks \in 0..MaxRequests
    /\ Len(runs) <= 2
    /\ Len(logged) <= 1
    /\ answer \in {0, 200, 400, 503}
    /\ requests \in 0..MaxRequests

\* Code runs outside a sandbox only if the operator switched the container off or
\* allowed the fallback, and each fallback is in the counter before it runs
\* (OptionalContainerExecutor.execute).
UncontainedRunsCounted ==
    /\ ProcessRuns # {} => config.backend = "process" \/ config.allowFallback
    /\ fallbacks <= counter

\* A run that came back with a verdict is the last one: only a container that
\* failed is followed by a second run (a timeout is a verdict).
VerdictEndsRuns ==
    \A i \in DOMAIN runs : runs[i].verdict => i = Len(runs)

\* A success that is answered or logged is the verdict of the last run; its output
\* conforms to the skill's output_schema, read keyword by keyword, has a rate as
\* its confidence, or null, and no API key; all else has no output
\* (SchemaEnforcingExecutor before PerformanceAwareExecutor before telemetry).
AnsweredOutputIsValid ==
    Answered /\ answer # 400 =>
        IF result.status = "success"
        THEN /\ Last(runs).verdict
             /\ Conforms[result.output][config.schema]
             /\ "api_key" \notin DOMAIN result.output.props
             /\ "confidence" \in DOMAIN result.output.props =>
                   LET c == result.output.props.confidence
                   IN c.type = "NoneType" \/ IsRate(c)
        ELSE result.output = NoOutput

\* What /ready said holds for the executions that follow, as long as nothing
\* changes: after "secure" the container is not found unavailable; a ready API
\* rejects only what its container tried; an unready one leaves the isolation
\* for no request (readiness and execute look at the same things).
ReadinessForetells ==
    Answered =>
        /\ probe = "secure" => result.container # "container_unavailable"
        /\ probe \in {"secure", "degraded"} /\ result.status = "rejected_no_isolated_sandbox" =>
              result.container = "container_failed"
        /\ probe = "unready" /\ config.required => config.database \/ answer # 200
        /\ probe = "unready" /\ (config.required => config.database) => ProcessRuns = {}

\* With telemetry required, an answer of 200 means that the same result is in the
\* execution log, once; a refused request ran and logged nothing.
AnswerIsLogged ==
    Answered =>
        /\ answer = 200 /\ config.required => logged = <<result>>
        /\ answer = 400 => runs = <<>> /\ logged = <<>>

Distance(m, n) == IF m < n THEN n - m ELSE m - n

\* Rates of a history that a reader cannot take for the other unit.
Unmistakable(h) ==
    \A k \in DOMAIN h.metrics : h.unit = "percent" /\ k # "profit_factor" => h.metrics[k] > 1

\* The effective confidence lies between the skill's own and the reliability in
\* its history; up to 30 observations it is nearer to the skill's own, from 30 on
\* nearer to the reliability; without a history it is the skill's own
\* (calibrate_confidence, through the units and keys of the ranking).
CalibrationFollowsEvidence ==
    \A q \in result.effective :
        LET raw == result.output.props.confidence.val * q[2] IN
        IF "win_rate" \in DOMAIN history.metrics /\ history.samples > 0
        THEN LET rate == history.metrics.win_rate * q[2] IN
             Unmistakable(history) =>
                 /\ Distance(raw, q[1]) + Distance(q[1], rate) = Distance(raw, rate)
                 /\ history.samples <= 30 => Distance(raw, q[1]) <= Distance(q[1], rate)
                 /\ history.samples >= 30 => Distance(q[1], rate) <= Distance(raw, q[1])
        ELSE q[1] = raw

\* The health does not depend on the unit in which the history has its rates
\* (_normalize_rate), as long as the rates cannot be mistaken.
HealthIgnoresUnits ==
    result.health # "not_applied" /\ history # NoHistory =>
        \A unit \in {"rate", "percent"} :
            LET other == [history EXCEPT !.unit = unit] IN
            Unmistakable(history) /\ Unmistakable(other) =>
                result.health = AssessPerformanceDecay(Ranked(other))

\* Every accepted request is answered, whatever the skill, the daemon and the
\* services do (docs/API_CONTRACT.md: the process runner uses "a child process,
\* and a timeout").
RequestAnswered == pc # "idle" ~> pc = "idle"

\* An execution that fell back to the process runner says so when it is answered
\* (OptionalContainerExecutor.execute; README: "Every use ... returns
\* fallback_used=true").
FallbackReported ==
    Answered /\ answer = 200 =>
        (result.fallback <=> config.backend = "container" /\ result.container # "none"
                             /\ result.status # "rejected_no_isolated_sandbox")

\* tests/test_api.py, test_execute_rejects_broker_like_output_keys: an output with
\* an order_id is answered as failed.
OrderIdRejected ==
    Answered /\ result.status = "success" => "order_id" \notin DOMAIN result.output.props
=============================================================================
