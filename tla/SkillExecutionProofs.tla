------------------------ MODULE SkillExecutionProofs ------------------------
(***************************************************************************)
(* Proofs about SkillExecution, for any number of requests, any outputs,   *)
(* inputs, schemas and histories, and every setting, fault and failure of  *)
(* the model: what runs outside a sandbox, how often code runs, what an    *)
(* answer, its log and the readiness probe say.                            *)
(***************************************************************************)
EXTENDS SkillExecution, FiniteSetTheorems, SequenceTheorems, TLAPS

-----------------------------------------------------------------------------
(* The inductive invariant                                                 *)

Healths == {"not_applied", "insufficient_data", "critical", "degraded", "healthy"}

Run == [where : {"container", "worker", "process"}, verdict : BOOLEAN]

\* A result has the fields of NoResult.
Shaped(r) ==
    r = [status |-> r.status, output |-> r.output, fallback |-> r.fallback,
         container |-> r.container, effective |-> r.effective, health |-> r.health]

Types ==
    /\ config \in Configs
    /\ down = {} \/ \E d \in ContainerNeeds \cup {"worker"} : down = {d}
    /\ probe \in {"none", "unready", "degraded", "secure"}
    /\ approval \in {"approved", "deprecated"}
    /\ pc \in {"idle", "guard", "input", "backend", "spawn", "join", "get",
               "output", "annotate", "telemetry"}
    /\ Shaped(result)
    /\ result.status \in Statuses
    /\ result.output \in Values \cup {NoOutput}
    /\ result.fallback \in BOOLEAN
    /\ result.container \in {"none", "container_unavailable", "container_failed"}
    /\ result.health \in Healths
    /\ child \in {"none", "running", "writing", "exited"}
    /\ pipe \in {Empty, Part} \cup ChildVerdicts
    /\ counter \in Nat
    /\ runs \in Seq(Run)
    /\ fallbacks \in Nat
    /\ answer \in {0, 200, 400, 503}
    /\ history \in Histories \cup {NoHistory}
    /\ requests \in 0..MaxRequests

\* The endpoint has not come to its backend yet.
Before == {"guard", "input", "backend"}

\* The process runner has the request.
InProcess == {"spawn", "join", "get"}

\* Each request counts at most one fallback, before its process run.
Counting ==
    /\ fallbacks <= counter
    /\ counter <= requests
    /\ pc \in Before => counter < requests
    /\ pc = "spawn" /\ config.backend = "container" => fallbacks < counter

\* The settings let code run outside a sandbox.
MayRunUncontained ==
    \/ config.backend = "process"
    \/ config.backend = "container" /\ config.allowFallback

\* Where the runs of a request stand: none before the backend, at most a failed
\* container before the process run, no verdict until the child's is read.
Running ==
    /\ pc \in Before => runs = <<>>
    /\ pc = "spawn" => Len(runs) <= 1
    /\ pc \in {"join", "get"} => Len(runs) \in 1..2
    /\ pc \in InProcess => MayRunUncontained /\ \A i \in DOMAIN runs : ~runs[i].verdict
    /\ \A i \in DOMAIN runs : runs[i].where = "process" => MayRunUncontained
    /\ Len(runs) <= 2
    /\ VerdictEndsRuns

\* What the result says of the sandbox that made it.
Reporting ==
    /\ pc \in Before => result = NoResult
    /\ pc \in InProcess => result.status = "failed"
    /\ result.fallback <=> config.backend = "container" /\ result.container # "none"
                           /\ result.status # "rejected_no_isolated_sandbox"
    /\ result.status = "rejected_no_isolated_sandbox" =>
          ~config.allowFallback /\ config.backend = "container" /\ result.container # "none"

\* Telemetry is the last step: nothing is logged or answered before it.
Logging ==
    /\ pc # "idle" => answer = 0 /\ logged = <<>>
    /\ Len(logged) <= 1
    /\ answer = 200 /\ config.required => config.database /\ logged = <<result>>
    /\ answer = 400 => runs = <<>> /\ logged = <<>>

\* What a runner lets through: no API key, and a confidence that is a rate, or null.
Decent(output) ==
    /\ output \in Values
    /\ "api_key" \notin DOMAIN output.props
    /\ "confidence" \in DOMAIN output.props =>
          LET c == output.props.confidence
          IN (c.type = "NoneType" /\ "val" \notin DOMAIN c) \/ IsRate(c)

\* A success is the verdict of the last run, and passed the output_schema unless it
\* is still to be checked; all else has no output.
Outputs ==
    /\ result.status # "success" => result.output = NoOutput
    /\ result.status = "success" =>
          /\ runs # <<>> /\ runs[Len(runs)].verdict
          /\ Decent(result.output)
          /\ pc # "output" => Accepted[result.output][config.schema]

\* An answer of /ready that still stands was possible for what is down now, and a
\* request that found its container unavailable since then finds it so now.
Probing ==
    /\ probe = "secure" => \E r \in RuntimeReady(config, down) : r.ready /\ r.secure
    /\ probe = "degraded" => \E r \in RuntimeReady(config, down) : r.ready /\ ~r.secure
    /\ probe = "unready" => \E r \in RuntimeReady(config, down) : ~r.ready
    /\ /\ result.container = "container_unavailable"
       /\ probe # "none"
       /\ pc # "idle" \/ answer # 0
       => Unavailable

ExecInv ==
    Types /\ Counting /\ Running /\ Reporting /\ Logging /\ Outputs /\ Probing

-----------------------------------------------------------------------------
(* Results and runs                                                        *)

\* What Deliver makes of a result.
LEMMA Delivered ==
    ASSUME Shaped(result), NEW s, NEW o, NEW label, Deliver(s, o, label)
    PROVE  /\ Shaped(result') /\ result'.status = s /\ result'.output = o
           /\ result'.fallback = result.fallback /\ result'.container = result.container
           /\ result'.effective = result.effective /\ result'.health = result.health
<1>1. result' = [result EXCEPT !.status = s, !.output = o]
  BY DEF Deliver
<1>2. result' = [status |-> s, output |-> o, fallback |-> result.fallback,
                 container |-> result.container, effective |-> result.effective,
                 health |-> result.health]
  BY <1>1 DEF Shaped
<1> QED
  BY <1>2 DEF Shaped

\* assess_performance_decay has four outcomes.
LEMMA DecayHealths ==
    ASSUME NEW performance
    PROVE  AssessPerformanceDecay(performance) \in Healths
BY Zenon DEF AssessPerformanceDecay, Healths

\* PerformanceAwareExecutor adds metadata only.
LEMMA AnnotatedFacts ==
    ASSUME NEW r, Shaped(r), r.health \in Healths, NEW h
    PROVE  /\ Shaped(Annotated(r, h)) /\ Annotated(r, h).status = r.status
           /\ Annotated(r, h).output = r.output /\ Annotated(r, h).fallback = r.fallback
           /\ Annotated(r, h).container = r.container /\ Annotated(r, h).health \in Healths
<1>1. CASE r.status # "success"
  BY <1>1 DEF Annotated
<1>2. CASE r.status = "success"
  <2> DEFINE performance == IF h = NoHistory THEN <<>> ELSE Ranked(h)
             c == IF "confidence" \in DOMAIN r.output.props
                  THEN CalibrateConfidence(r.output.props.confidence, performance)
                  ELSE {}
             m == AssessPerformanceDecay(performance)
  <2>1. Annotated(r, h) = [r EXCEPT !.effective = c, !.health = m]
    BY <1>2, Zenon DEF Annotated, Metadata
  <2>2. m \in Healths
    BY DecayHealths
  <2> HIDE DEF c, m
  <2>3. Annotated(r, h) = [status |-> r.status, output |-> r.output, fallback |-> r.fallback,
                           container |-> r.container, effective |-> c, health |-> m]
    BY <2>1 DEF Shaped
  <2> QED
    BY <2>2, <2>3 DEF Shaped
<1> QED
  BY <1>1, <1>2

\* One more run.
LEMMA RanFacts ==
    ASSUME runs \in Seq(Run), NEW w \in {"container", "worker", "process"}, NEW v \in BOOLEAN
    PROVE  /\ Ran(w, v) \in Seq(Run) /\ Len(Ran(w, v)) = Len(runs) + 1
           /\ Ran(w, v) # <<>> /\ DOMAIN Ran(w, v) = 1..(Len(runs) + 1)
           /\ Ran(w, v)[Len(runs) + 1].where = w
           /\ Ran(w, v)[Len(runs) + 1].verdict = v
           /\ \A i \in DOMAIN runs : i \in 1..Len(runs) /\ Ran(w, v)[i] = runs[i]
           /\ Len(runs) \in Nat /\ DOMAIN runs = 1..Len(runs)
<1> DEFINE x == [where |-> w, verdict |-> v]
<1>1. x \in Run /\ x.where = w /\ x.verdict = v
  BY DEF Run
<1>2. Ran(w, v) = Append(runs, x)
  BY DEF Ran
<1> HIDE DEF x
<1> QED
  BY <1>1, <1>2

\* What the runners let through, in a container and in a child process.
LEMMA RunnerVerdictFacts ==
    ASSUME NEW v \in RunnerVerdicts
    PROVE  /\ v.status \in {"success", "failed"} /\ v.output \in Values \cup {NoOutput}
           /\ v.status # "success" => v.output = NoOutput
           /\ v.status = "success" => Decent(v.output)
<1>1. CASE v = Failed
  BY <1>1 DEF Failed, Verdict
<1>2. CASE v # Failed
  <2>1. PICK raw \in RawOutputs : RunnerAccepts(raw) /\ v = Verdict("success", raw)
    BY <1>2 DEF RunnerVerdicts
  <2>2. v.status = "success" /\ v.output = raw /\ raw \in Values
    BY <2>1, SkillExecutionAssumption DEF Verdict
  <2>3. Decent(raw)
    BY <2>1, <2>2, RawOutputsAssumption DEF RunnerAccepts, Decent, RunnerForbiddenKeys
  <2> QED
    BY <2>2, <2>3
<1> QED
  BY <1>1, <1>2

\* The same for the process runner, which makes the confidence a float.
LEMMA ChildVerdictFacts ==
    ASSUME NEW v \in ChildVerdicts
    PROVE  /\ v.status \in {"success", "failed"} /\ v.output \in Values \cup {NoOutput}
           /\ v.status # "success" => v.output = NoOutput
           /\ v.status = "success" => Decent(v.output)
<1>1. CASE v = Failed
  BY <1>1 DEF Failed, Verdict
<1>2. CASE v # Failed
  <2>1. PICK raw \in RawOutputs :
            ChildAccepts(raw) /\ v = Verdict("success", WithFloatConfidence(raw))
    BY <1>2 DEF ChildVerdicts
  <2> DEFINE out == WithFloatConfidence(raw)
  <2>2. v.status = "success" /\ v.output = out /\ out \in Values
    BY <2>1, RawOutputsAssumption DEF Verdict
  <2>3. raw = [type |-> "dict", props |-> raw.props] /\ "api_key" \notin DOMAIN raw.props
    BY <2>1, RawOutputsAssumption DEF ChildAccepts, ChildForbiddenKeys
  <2>4. Decent(out)
    <3>1. CASE "confidence" \notin DOMAIN raw.props
      BY <2>2, <2>3, <3>1 DEF WithFloatConfidence, Decent
    <3>2. CASE "confidence" \in DOMAIN raw.props
      <4> DEFINE c == [type |-> "float", val |-> raw.props.confidence.val]
      <4>1. out = [type |-> "dict", props |-> [raw.props EXCEPT !.confidence = c]]
        BY <2>3, <3>2 DEF WithFloatConfidence
      <4>2. out.props = [k \in DOMAIN raw.props |-> IF k = "confidence" THEN c ELSE raw.props[k]]
        BY <4>1
      <4>3. DOMAIN out.props = DOMAIN raw.props /\ out.props.confidence = c
        BY <3>2, <4>2
      <4>4. IsRate(c)
        BY <2>1, <3>2 DEF ChildAccepts, IsRate
      <4> QED
        BY <2>2, <2>3, <4>3, <4>4 DEF Decent
    <3> QED
      BY <3>1, <3>2
  <2> QED
    BY <2>2, <2>4
<1> QED
  BY <1>1, <1>2

-----------------------------------------------------------------------------
(* Steps of a request that has a result                                    *)

\* A step that delivers a result, with what it may do to the runs.
Delivery(s, o, label) ==
    /\ Deliver(s, o, label)
    /\ s \in Statuses \ {"rejected_no_isolated_sandbox"}
    /\ o \in Values \cup {NoOutput}
    /\ label \in {"output", "annotate"}
    /\ s # "success" => o = NoOutput
    /\ s = "success" => /\ label = "output" /\ Decent(o)
                        /\ runs' # <<>> /\ runs'[Len(runs')].verdict
    /\ runs' \in Seq(Run) /\ Len(runs') <= 2 /\ VerdictEndsRuns'
    /\ \A i \in DOMAIN runs' : runs'[i].where = "process" => MayRunUncontained
    /\ child' \in {"none", "running", "writing", "exited"}
    /\ UNCHANGED <<config, down, probe, history, requests, approval, pipe, counter>>
    /\ UNCHANGED <<fallbacks, logged, answer>>

\* A backend, the process runner, or a schema check that refuses delivers.
LEMMA DeliverStep ==
    ASSUME ExecInv, pc \in {"input", "backend", "output"} \cup InProcess,
           result.status # "rejected_no_isolated_sandbox",
           NEW s, NEW o, NEW label, Delivery(s, o, label)
    PROVE  ExecInv'
<1>1. pc' = label /\ Deliver(s, o, label)
  BY DEF Delivery, Deliver
<1>0. Shaped(result)
  BY DEF ExecInv, Types
<1>2. /\ Shaped(result') /\ result'.status = s /\ result'.output = o
      /\ result'.fallback = result.fallback /\ result'.container = result.container
      /\ result'.health = result.health
  BY <1>0, <1>1, Delivered
<1>3. /\ UNCHANGED <<config, down, probe, history, requests, approval, pipe, counter>>
      /\ UNCHANGED <<fallbacks, logged, answer>>
  BY DEF Delivery
<1>4. pc' \notin Before /\ pc' \notin InProcess /\ pc' # "idle" /\ pc' # "spawn"
        /\ pc' \notin {"join", "get"} /\ pc # "idle"
  BY <1>1 DEF Before, InProcess, Delivery
<1>5. Types'
  <2>1. /\ result'.status \in Statuses /\ result'.output \in Values \cup {NoOutput}
        /\ runs' \in Seq(Run) /\ child' \in {"none", "running", "writing", "exited"}
        /\ pc' \in {"output", "annotate"}
    BY <1>1, <1>2 DEF Delivery
  <2> QED
    BY <1>2, <1>3, <2>1 DEF ExecInv, Types
<1>6. Counting'
  BY <1>3, <1>4 DEF ExecInv, Counting
<1>7. Running'
  BY <1>3, <1>4 DEF Delivery, ExecInv, Running, MayRunUncontained
<1>8. Reporting'
  BY <1>2, <1>3, <1>4 DEF Delivery, ExecInv, Reporting
<1>9. Logging'
  BY <1>3, <1>4 DEF ExecInv, Logging
<1>10. Outputs'
  BY <1>1, <1>2, <1>3 DEF Delivery, ExecInv, Outputs
<1>11. Probing'
  BY <1>2, <1>3, <1>4 DEF ExecInv, Probing, Unavailable
<1> QED
  BY <1>5, <1>6, <1>7, <1>8, <1>9, <1>10, <1>11 DEF ExecInv

\* At the backend a run is the first one, whatever comes of it.
LEMMA FirstRun ==
    ASSUME ExecInv, pc = "backend", NEW w \in {"container", "worker"}, NEW v \in BOOLEAN,
           runs' = Ran(w, v)
    PROVE  /\ runs' \in Seq(Run) /\ Len(runs') = 1 /\ runs' # <<>>
           /\ VerdictEndsRuns' /\ runs'[Len(runs')].verdict = v
           /\ \A i \in DOMAIN runs' : runs'[i].where # "process" /\ runs'[i].verdict = v
<1>1. runs = <<>> /\ runs \in Seq(Run) /\ Len(runs) = 0
  BY DEF ExecInv, Types, Running, Before
<1>2. /\ runs' \in Seq(Run) /\ Len(runs') = 1 /\ runs' # <<>> /\ DOMAIN runs' = {1}
      /\ runs'[1].where = w /\ runs'[1].verdict = v
  BY <1>1, RanFacts
<1> QED
  BY <1>2 DEF VerdictEndsRuns

\* What holds of a request at its backend.
LEMMA AtBackend ==
    ASSUME ExecInv, pc \in Before
    PROVE  /\ runs = <<>> /\ runs \in Seq(Run) /\ Len(runs) = 0 /\ DOMAIN runs = {}
           /\ result = NoResult /\ result.status = "failed" /\ result.container = "none"
           /\ result.fallback = FALSE /\ result.output = NoOutput
           /\ child \in {"none", "running", "writing", "exited"}
BY DEF ExecInv, Types, Running, Reporting, NoResult

\* ContainerSandboxExecutor.execute with a verdict or a timeout.
LEMMA ContainerRunsStep ==
    ASSUME ExecInv, ContainerRuns
    PROVE  ExecInv'
<1>1. /\ pc = "backend" /\ UNCHANGED <<requestVars, approval, child, pipe, counter, fallbacks>>
      /\ UNCHANGED <<logged, answer>> /\ runs' = Ran("container", TRUE)
  BY DEF ContainerRuns
<1>2. PICK s \in Statuses \ {"rejected_no_isolated_sandbox"}, o \in Values \cup {NoOutput} :
          /\ Deliver(s, o, "output")
          /\ s # "success" => o = NoOutput
          /\ s = "success" => Decent(o)
  <2>1. CASE Deliver("timeout", NoOutput, "output")
    BY <2>1 DEF Statuses
  <2>2. CASE \E v \in RunnerVerdicts : Deliver(v.status, v.output, "output")
    BY <2>2, RunnerVerdictFacts DEF Statuses
  <2> QED
    BY <2>1, <2>2 DEF ContainerRuns
<1>3. pc \in Before
  BY <1>1 DEF Before
<1>4. Delivery(s, o, "output")
  <2>1. /\ runs' \in Seq(Run) /\ Len(runs') = 1 /\ runs' # <<>>
        /\ VerdictEndsRuns' /\ runs'[Len(runs')].verdict
        /\ \A i \in DOMAIN runs' : runs'[i].where # "process"
    BY <1>1, FirstRun
  <2>2. child' \in {"none", "running", "writing", "exited"}
    BY <1>1, <1>3, AtBackend
  <2>3. /\ UNCHANGED <<config, down, probe, history, requests, approval, pipe, counter>>
        /\ UNCHANGED <<fallbacks, logged, answer>>
    BY <1>1 DEF requestVars
  <2>4. Len(runs') <= 2
    BY <2>1
  <2> QED
    BY <1>2, <2>1, <2>2, <2>3, <2>4 DEF Delivery
<1> QED
  BY <1>1, <1>3, <1>4, AtBackend, DeliverStep

\* RemoteSandboxExecutor.execute, whatever the worker did.
LEMMA RemoteRunsStep ==
    ASSUME ExecInv, RemoteRuns
    PROVE  ExecInv'
<1>1. /\ pc = "backend" /\ UNCHANGED <<requestVars, approval, child, pipe, counter, fallbacks>>
      /\ UNCHANGED <<logged, answer>>
  BY DEF RemoteRuns
<1>2. pc \in Before
  BY <1>1 DEF Before
<1>3. CASE runs' = Ran("worker", TRUE) /\
           \E v \in RunnerVerdicts \cup {Verdict("timeout", NoOutput)} :
                Deliver(v.status, v.output, "output")
  <2>1. PICK s \in Statuses \ {"rejected_no_isolated_sandbox"}, o \in Values \cup {NoOutput} :
            /\ Deliver(s, o, "output")
            /\ s # "success" => o = NoOutput
            /\ s = "success" => Decent(o)
    <3>1. PICK v \in RunnerVerdicts \cup {Verdict("timeout", NoOutput)} :
              Deliver(v.status, v.output, "output")
      BY <1>3
    <3>2. CASE v \in RunnerVerdicts
      BY <3>1, <3>2, RunnerVerdictFacts DEF Statuses
    <3>3. CASE v = Verdict("timeout", NoOutput)
      <4>1. v.status = "timeout" /\ v.output = NoOutput
        BY <3>3 DEF Verdict
      <4> QED
        BY <3>1, <4>1 DEF Statuses
    <3> QED
      BY <3>2, <3>3
  <2>2. Delivery(s, o, "output")
    <3>1. /\ runs' \in Seq(Run) /\ Len(runs') = 1 /\ runs' # <<>>
          /\ VerdictEndsRuns' /\ runs'[Len(runs')].verdict
          /\ \A i \in DOMAIN runs' : runs'[i].where # "process"
      BY <1>1, <1>3, FirstRun
    <3> QED
      BY <1>1, <1>2, <2>1, <3>1, AtBackend DEF Delivery, requestVars
  <2> QED
    BY <1>1, <1>2, <2>2, AtBackend, DeliverStep
<1>4. CASE /\ runs' \in {runs, Ran("worker", FALSE)}
           /\ \E s \in {"container_unavailable", "container_failed",
                        "rejected_remote_worker_unavailable"} : Deliver(s, NoOutput, "output")
  <2>1. PICK s \in {"container_unavailable", "container_failed",
                    "rejected_remote_worker_unavailable"} : Deliver(s, NoOutput, "output")
    BY <1>4
  <2>2. s \in Statuses \ {"rejected_no_isolated_sandbox"} /\ s # "success"
    BY DEF Statuses
  <2>3. CASE runs' = runs
    <3>1. VerdictEndsRuns'
      BY <1>2, <2>3, AtBackend DEF VerdictEndsRuns
    <3>2. Delivery(s, NoOutput, "output")
      BY <1>1, <1>2, <2>1, <2>2, <2>3, <3>1, AtBackend DEF Delivery, requestVars
    <3> QED
      BY <1>1, <1>2, <3>2, AtBackend, DeliverStep
  <2>4. CASE runs' = Ran("worker", FALSE)
    <3>1. Delivery(s, NoOutput, "output")
      <4>1. /\ runs' \in Seq(Run) /\ Len(runs') = 1 /\ VerdictEndsRuns'
            /\ \A i \in DOMAIN runs' : runs'[i].where # "process"
        BY <1>1, <2>4, FirstRun
      <4> QED
        BY <1>1, <1>2, <2>1, <2>2, <4>1, AtBackend DEF Delivery, requestVars
    <3> QED
      BY <1>1, <1>2, <3>1, AtBackend, DeliverStep
  <2> QED
    BY <1>4, <2>3, <2>4
<1> QED
  BY <1>3, <1>4 DEF RemoteRuns

\* The input is accepted, or refused with a result of its own.
LEMMA CheckInputStep ==
    ASSUME ExecInv, CheckInput
    PROVE  ExecInv'
<1>1. pc = "input" /\ pc \in Before
  BY DEF CheckInput, Before
<1>2. /\ UNCHANGED <<config, down, probe, history, requests, approval, pipe, counter>>
      /\ UNCHANGED <<fallbacks, logged, answer, runs, child>>
  BY DEF CheckInput, requestVars
<1>3. CASE Deliver("input_schema_rejected", NoOutput, "annotate")
  <2>1. VerdictEndsRuns'
    BY <1>1, <1>2, AtBackend DEF VerdictEndsRuns
  <2>2. Delivery("input_schema_rejected", NoOutput, "annotate")
    BY <1>1, <1>2, <1>3, <2>1, AtBackend DEF Delivery, Statuses
  <2> QED
    BY <1>1, <2>2, AtBackend, DeliverStep
<1>4. CASE pc' = "backend" /\ UNCHANGED result
  <2>1. pc' \in Before /\ pc' \notin InProcess /\ pc' \notin {"idle", "spawn", "join", "get"}
    BY <1>4 DEF Before, InProcess
  <2>2. Types'
    BY <1>2, <1>4 DEF ExecInv, Types
  <2>3. Counting' /\ Logging' /\ Reporting'
    BY <1>1, <1>2, <1>4, <2>1 DEF ExecInv, Counting, Logging, Reporting
  <2>4. Running'
    BY <1>1, <1>2, <2>1 DEF ExecInv, Running, VerdictEndsRuns, MayRunUncontained
  <2>5. Outputs'
    BY <1>1, <1>2, <1>4, AtBackend DEF Outputs
  <2>6. Probing'
    BY <1>1, <1>2, <1>4, AtBackend DEF ExecInv, Probing
  <2> QED
    BY <2>2, <2>3, <2>4, <2>5, <2>6 DEF ExecInv
<1> QED
  BY <1>3, <1>4 DEF CheckInput

\* SchemaEnforcingExecutor lets a success pass that the schema accepts.
LEMMA CheckOutputStep ==
    ASSUME ExecInv, CheckOutput
    PROVE  ExecInv'
<1>1. pc = "output"
  BY DEF CheckOutput
<1>2. /\ UNCHANGED <<config, down, probe, history, requests, approval, pipe, counter>>
      /\ UNCHANGED <<fallbacks, logged, answer, runs, child>>
  BY DEF CheckOutput, requestVars
<1>3. CASE result.status = "success" /\ ~Accepted[result.output][config.schema]
  <2>1. Deliver("output_schema_rejected", NoOutput, "annotate")
    BY <1>3 DEF CheckOutput
  <2>2. /\ runs' \in Seq(Run) /\ Len(runs') <= 2 /\ VerdictEndsRuns'
        /\ \A i \in DOMAIN runs' : runs'[i].where = "process" => MayRunUncontained
        /\ child' \in {"none", "running", "writing", "exited"}
    BY <1>2 DEF ExecInv, Types, Running, VerdictEndsRuns
  <2>3. Delivery("output_schema_rejected", NoOutput, "annotate")
    BY <1>2, <2>1, <2>2 DEF Delivery, Statuses
  <2> QED
    BY <1>1, <1>3, <2>3, DeliverStep
<1>4. CASE ~(result.status = "success" /\ ~Accepted[result.output][config.schema])
  <2>1. pc' = "annotate" /\ UNCHANGED result
    BY <1>4 DEF CheckOutput
  <2>2. pc' \notin Before /\ pc' \notin InProcess /\ pc' \notin {"idle", "spawn", "join", "get"}
    BY <2>1 DEF Before, InProcess
  <2>3. Types'
    BY <1>2, <2>1 DEF ExecInv, Types
  <2>4. Counting' /\ Logging' /\ Reporting'
    BY <1>1, <1>2, <2>1, <2>2 DEF ExecInv, Counting, Logging, Reporting
  <2>5. Running'
    BY <1>1, <1>2, <2>2 DEF ExecInv, Running, VerdictEndsRuns, MayRunUncontained
  <2>6. Outputs'
    BY <1>2, <1>4, <2>1 DEF ExecInv, Outputs
  <2>7. Probing'
    BY <1>1, <1>2, <2>1 DEF ExecInv, Probing, Unavailable
  <2> QED
    BY <2>3, <2>4, <2>5, <2>6, <2>7 DEF ExecInv
<1> QED
  BY <1>3, <1>4

\* PerformanceAwareExecutor leaves status and output alone.
LEMMA AnnotateStep ==
    ASSUME ExecInv, Annotate
    PROVE  ExecInv'
<1>1. pc = "annotate" /\ pc' = "telemetry"
  BY DEF Annotate
<1>2. /\ UNCHANGED <<config, down, probe, requests, approval, pipe, counter>>
      /\ UNCHANGED <<fallbacks, logged, answer, runs, child>>
  BY DEF Annotate
<1>3. Shaped(result) /\ result.health \in Healths
  BY DEF ExecInv, Types
<1>4. /\ Shaped(result') /\ result'.status = result.status /\ result'.output = result.output
      /\ result'.fallback = result.fallback /\ result'.container = result.container
      /\ result'.health \in Healths
  <2>1. result' = Annotated(result, history')
    BY DEF Annotate
  <2> QED
    BY <1>3, <2>1, AnnotatedFacts
<1>5. history' \in Histories \cup {NoHistory}
  BY DEF Annotate
<1>6. pc' \notin Before /\ pc' \notin InProcess /\ pc' \notin {"idle", "spawn", "join", "get"}
  BY <1>1 DEF Before, InProcess
<1>7. Types'
  BY <1>1, <1>2, <1>4, <1>5 DEF ExecInv, Types
<1>8. Counting' /\ Logging'
  BY <1>1, <1>2, <1>6 DEF ExecInv, Counting, Logging
<1>9. Reporting'
  BY <1>2, <1>4, <1>6 DEF ExecInv, Reporting
<1>10. Running'
  BY <1>1, <1>2, <1>6 DEF ExecInv, Running, VerdictEndsRuns, MayRunUncontained
<1>11. Outputs'
  BY <1>1, <1>2, <1>4 DEF ExecInv, Outputs
<1>12. Probing'
  BY <1>1, <1>2, <1>4 DEF ExecInv, Probing, Unavailable
<1> QED
  BY <1>7, <1>8, <1>9, <1>10, <1>11, <1>12 DEF ExecInv

\* The log and the answer of a request.
LEMMA TelemetryStep ==
    ASSUME ExecInv, Telemetry
    PROVE  ExecInv'
<1>1. pc = "telemetry" /\ pc' = "idle" /\ logged = <<>>
  BY DEF Telemetry, ExecInv, Logging
<1>2. /\ UNCHANGED <<config, down, probe, history, requests, approval, pipe, counter>>
      /\ UNCHANGED <<fallbacks, result, runs, child>>
  BY DEF Telemetry, requestVars
<1>3. PICK status \in {"skipped", "success", "failed"} :
          /\ status = "skipped" <=> ~config.database
          /\ \/ status # "skipped" /\ logged' = Append(logged, result)
             \/ status # "success" /\ UNCHANGED logged
          /\ answer' = IF TelemetryAccepted(status) THEN 200 ELSE 503
  BY DEF Telemetry
<1>4. logged' \in {<<>>, <<result>>}
  BY <1>1, <1>3
<1>5. answer' \in {200, 503}
  BY <1>3
<1>6. answer' = 200 /\ config.required => config.database /\ logged' = <<result>>
  <2> SUFFICES ASSUME answer' = 200, config.required
               PROVE  config.database /\ logged' = <<result>>
    OBVIOUS
  <2>1. status = "success"
    BY <1>3 DEF TelemetryAccepted
  <2> QED
    BY <1>1, <1>3, <2>1
<1>7. pc' \notin Before /\ pc' \notin InProcess
  BY <1>1 DEF Before, InProcess
<1>8. Types'
  BY <1>1, <1>2, <1>5 DEF ExecInv, Types
<1>9. Counting' /\ Reporting'
  BY <1>1, <1>2, <1>7 DEF ExecInv, Counting, Reporting
<1>10. Logging'
  BY <1>1, <1>2, <1>4, <1>5, <1>6 DEF Logging
<1>11. Running'
  BY <1>1, <1>2, <1>7 DEF ExecInv, Running, VerdictEndsRuns, MayRunUncontained
<1>12. Outputs'
  BY <1>1, <1>2 DEF ExecInv, Outputs
<1>13. Probing'
  BY <1>1, <1>2 DEF ExecInv, Probing, Unavailable
<1> QED
  BY <1>8, <1>9, <1>10, <1>11, <1>12, <1>13 DEF ExecInv

-----------------------------------------------------------------------------
(* The process runner                                                      *)

\* OptionalContainerExecutor rejects the request, or counts a fallback and goes on.
LEMMA ContainerFailsStep ==
    ASSUME ExecInv, ContainerFails
    PROVE  ExecInv'
<1> DEFINE c == IF Unavailable THEN "container_unavailable" ELSE "container_failed"
<1>1. pc = "backend" /\ pc \in Before /\ config.backend = "container"
  BY DEF ContainerFails, Before
<1>2. /\ UNCHANGED <<config, down, probe, history, requests, approval, pipe, child>>
      /\ UNCHANGED <<fallbacks, logged, answer>>
  BY DEF ContainerFails, requestVars
<1>3. /\ runs' \in Seq(Run) /\ Len(runs') <= 1 /\ VerdictEndsRuns'
      /\ \A i \in DOMAIN runs' : runs'[i].where # "process" /\ ~runs'[i].verdict
  <2>1. CASE runs' = runs
    <3>1. VerdictEndsRuns'
      BY <1>1, <2>1, AtBackend DEF VerdictEndsRuns
    <3> QED
      BY <1>1, <2>1, <3>1, AtBackend
  <2>2. CASE runs' = Ran("container", FALSE)
    <3>1. /\ runs' \in Seq(Run) /\ Len(runs') = 1 /\ VerdictEndsRuns'
          /\ \A i \in DOMAIN runs' : runs'[i].where # "process" /\ runs'[i].verdict = FALSE
      BY <1>1, <2>2, FirstRun
    <3> QED
      BY <3>1
  <2> QED
    BY <2>1, <2>2 DEF ContainerFails
<1>4. c \in {"container_unavailable", "container_failed"}
        /\ (c = "container_unavailable" => Unavailable)
  OBVIOUS
<1>5. Shaped(result) /\ result.health \in Healths /\ result = NoResult
  BY <1>1, AtBackend DEF ExecInv, Types
<1>6. answer = 0 /\ logged = <<>> /\ counter < requests /\ fallbacks <= counter
        /\ counter \in Nat /\ fallbacks \in Nat /\ requests \in Nat /\ requests <= MaxRequests
  BY <1>1, SkillExecutionAssumption DEF ExecInv, Logging, Counting, Types
<1>7. CASE /\ config.allowFallback /\ counter' = counter + 1 /\ pc' = "spawn"
           /\ result' = FellBack([result EXCEPT !.container = c])
  <2>1. result' = [status |-> "failed", output |-> NoOutput, fallback |-> TRUE,
                   container |-> c, effective |-> {}, health |-> "not_applied"]
    <3> HIDE DEF c
    <3> QED
      BY <1>5, <1>7 DEF FellBack, NoResult
  <2>2. /\ Shaped(result') /\ result'.status = "failed" /\ result'.output = NoOutput
        /\ result'.fallback = TRUE /\ result'.container = c /\ result'.health = "not_applied"
    BY <2>1 DEF Shaped
  <2> HIDE DEF c
  <2>3. pc' \notin Before /\ pc' \in InProcess
    BY <1>7 DEF Before, InProcess
  <2>4. Types'
    <3>1. result'.status \in Statuses /\ result'.health \in Healths
      BY <2>2 DEF Statuses, Healths
    <3>2. counter' \in Nat /\ pc' = "spawn"
      BY <1>6, <1>7
    <3>3. result'.fallback \in BOOLEAN
      BY <2>2
    <3>4. /\ result'.container \in {"none", "container_unavailable", "container_failed"}
          /\ result'.output \in Values \cup {NoOutput} /\ Shaped(result)'
      BY <1>4, <2>2 DEF Shaped
    <3> QED
      BY <1>2, <1>3, <3>1, <3>2, <3>3, <3>4 DEF ExecInv, Types
  <2>5. Counting'
    BY <1>2, <1>6, <1>7, <2>3 DEF Counting
  <2>6. Logging'
    BY <1>2, <1>6, <1>7 DEF Logging
  <2>7. Reporting'
    BY <1>1, <1>2, <1>4, <2>2, <2>3 DEF Reporting
  <2>8. Running'
    <3>1. MayRunUncontained' /\ Len(runs') <= 2
      BY <1>1, <1>2, <1>3, <1>7 DEF MayRunUncontained
    <3> QED
      BY <1>3, <1>7, <2>3, <3>1 DEF Running
  <2>9. Outputs'
    BY <2>2 DEF Outputs
  <2>10. Probing'
    BY <1>2, <1>4, <2>2 DEF ExecInv, Probing, Unavailable
  <2> QED
    BY <2>4, <2>5, <2>6, <2>7, <2>8, <2>9, <2>10 DEF ExecInv
<1>8. CASE /\ ~config.allowFallback /\ UNCHANGED counter /\ pc' = "output"
           /\ result' = [[result EXCEPT !.container = c] EXCEPT
                             !.status = "rejected_no_isolated_sandbox"]
  <2>1. result' = [status |-> "rejected_no_isolated_sandbox", output |-> NoOutput,
                   fallback |-> FALSE, container |-> c, effective |-> {},
                   health |-> "not_applied"]
    <3> HIDE DEF c
    <3> QED
      BY <1>5, <1>8 DEF NoResult
  <2>2. /\ Shaped(result') /\ result'.status = "rejected_no_isolated_sandbox"
        /\ result'.output = NoOutput /\ result'.fallback = FALSE /\ result'.container = c
        /\ result'.health = "not_applied"
    BY <2>1 DEF Shaped
  <2> HIDE DEF c
  <2>3. pc' \notin Before /\ pc' \notin InProcess /\ pc' \notin {"idle", "spawn", "join", "get"}
    BY <1>8 DEF Before, InProcess
  <2>4. Types'
    <3>1. result'.status \in Statuses /\ result'.health \in Healths
      BY <2>2 DEF Statuses, Healths
    <3>2. counter' \in Nat /\ pc' = "output"
      BY <1>6, <1>8
    <3>3. result'.fallback \in BOOLEAN
      BY <2>2
    <3>4. /\ result'.container \in {"none", "container_unavailable", "container_failed"}
          /\ result'.output \in Values \cup {NoOutput} /\ Shaped(result)'
      BY <1>4, <2>2 DEF Shaped
    <3> QED
      BY <1>2, <1>3, <3>1, <3>2, <3>3, <3>4 DEF ExecInv, Types
  <2>5. Counting'
    BY <1>2, <1>6, <1>8, <2>3 DEF Counting
  <2>6. Logging'
    BY <1>2, <1>6, <1>8 DEF Logging
  <2>7. Reporting'
    BY <1>1, <1>2, <1>4, <1>8, <2>2, <2>3 DEF Reporting
  <2>8. Running'
    BY <1>3, <2>3 DEF Running
  <2>9. Outputs'
    BY <2>2 DEF Outputs
  <2>10. Probing'
    BY <1>2, <1>4, <2>2 DEF ExecInv, Probing, Unavailable
  <2> QED
    BY <2>4, <2>5, <2>6, <2>7, <2>8, <2>9, <2>10 DEF ExecInv
<1> QED
  BY <1>7, <1>8, Zenon DEF ContainerFails, FallbackAllowed, Counted

\* With the container switched off the process runner has the request.
LEMMA UseProcessStep ==
    ASSUME ExecInv, UseProcess
    PROVE  ExecInv'
<1>1. pc = "backend" /\ pc \in Before /\ config.backend = "process" /\ pc' = "spawn"
  BY DEF UseProcess, Before
<1>2. /\ UNCHANGED <<config, down, probe, history, requests, approval, pipe, child>>
      /\ UNCHANGED <<fallbacks, logged, answer, runs, result, counter>>
  BY DEF UseProcess, requestVars
<1>3. pc' \notin Before /\ pc' \in InProcess
  BY <1>1 DEF Before, InProcess
<1>4. Types'
  BY <1>1, <1>2 DEF ExecInv, Types
<1>5. Counting' /\ Logging'
  BY <1>1, <1>2, <1>3 DEF ExecInv, Counting, Logging
<1>6. Reporting'
  BY <1>1, <1>2, <1>3, AtBackend DEF Reporting
<1>7. Running'
  <2>1. VerdictEndsRuns'
    BY <1>1, <1>2, AtBackend DEF VerdictEndsRuns
  <2> QED
    BY <1>1, <1>2, <1>3, <2>1, AtBackend DEF Running, MayRunUncontained
<1>8. Outputs'
  BY <1>1, <1>2, AtBackend DEF Outputs
<1>9. Probing'
  BY <1>1, <1>2, AtBackend DEF ExecInv, Probing
<1> QED
  BY <1>4, <1>5, <1>6, <1>7, <1>8, <1>9 DEF ExecInv

\* What holds of a request in the process runner.
LEMMA AtRunner ==
    ASSUME ExecInv, pc \in InProcess
    PROVE  /\ runs \in Seq(Run) /\ Len(runs) \in Nat /\ Len(runs) <= 2
           /\ DOMAIN runs = 1..Len(runs) /\ VerdictEndsRuns /\ MayRunUncontained
           /\ \A i \in DOMAIN runs : ~runs[i].verdict
           /\ result.status = "failed" /\ result.output = NoOutput
           /\ child \in {"none", "running", "writing", "exited"}
<1>1. runs \in Seq(Run) /\ child \in {"none", "running", "writing", "exited"}
  BY DEF ExecInv, Types
<1>2. Len(runs) \in Nat /\ DOMAIN runs = 1..Len(runs)
  BY <1>1
<1>3. Len(runs) <= 2 /\ VerdictEndsRuns
  BY DEF ExecInv, Running
<1>4. MayRunUncontained /\ \A i \in DOMAIN runs : ~runs[i].verdict
  BY DEF ExecInv, Running
<1>5. result.status = "failed" /\ result.output = NoOutput
  BY DEF ExecInv, Reporting, Outputs
<1> QED
  BY <1>1, <1>2, <1>3, <1>4, <1>5

\* SafeSkillExecutor refuses the code, or starts a child.
LEMMA SpawnStep ==
    ASSUME ExecInv, Spawn
    PROVE  ExecInv'
<1>1. pc = "spawn" /\ pc \in InProcess /\ Len(runs) <= 1
  BY DEF Spawn, InProcess, ExecInv, Running
<1>2. /\ UNCHANGED <<config, down, probe, history, requests, approval, pipe, counter>>
      /\ UNCHANGED <<logged, answer>>
  BY DEF Spawn, requestVars
<1>3. CASE /\ Deliver("rejected_unsafe_code", NoOutput, "output")
           /\ UNCHANGED <<child, runs, fallbacks>>
  <2>1. VerdictEndsRuns'
    BY <1>1, <1>3, AtRunner DEF VerdictEndsRuns
  <2>2. Delivery("rejected_unsafe_code", NoOutput, "output")
    BY <1>1, <1>2, <1>3, <2>1, AtRunner DEF Delivery, Statuses
  <2> QED
    BY <1>1, <2>2, AtRunner, DeliverStep
<1>4. CASE /\ pc' = "join" /\ child' = "running" /\ runs' = Ran("process", FALSE)
           /\ fallbacks' = IF config.backend = "container" THEN fallbacks + 1 ELSE fallbacks
           /\ UNCHANGED result
  <2>1. pc' \notin Before /\ pc' \in InProcess /\ pc' \notin {"idle", "spawn"}
    BY <1>4 DEF Before, InProcess
  <2>2. /\ runs' \in Seq(Run) /\ Len(runs') = Len(runs) + 1
        /\ DOMAIN runs' = 1..(Len(runs) + 1)
        /\ runs'[Len(runs) + 1].verdict = FALSE
        /\ \A i \in DOMAIN runs : i \in 1..Len(runs) /\ runs'[i] = runs[i]
    BY <1>1, <1>4, AtRunner, RanFacts
  <2>0. Len(runs') \in 1..2 /\ Len(runs') <= 2
    <3>1. Len(runs) \in Nat
      BY <1>1, AtRunner
    <3> QED
      BY <1>1, <2>2, <3>1
  <2>3. \A i \in DOMAIN runs' : ~runs'[i].verdict
    <3>1. Len(runs) \in Nat /\ DOMAIN runs = 1..Len(runs) /\ \A i \in DOMAIN runs : ~runs[i].verdict
      BY <1>1, AtRunner
    <3> QED
      BY <2>2, <3>1
  <2>4. Types'
    <3>1. fallbacks' \in Nat
      BY <1>4 DEF ExecInv, Types
    <3>2. runs' \in Seq(Run) /\ pc' = "join" /\ child' = "running" /\ result' = result
      BY <1>4, <2>2
    <3>3. Types
      BY DEF ExecInv
    <3> QED
      BY <1>2, <3>1, <3>2, <3>3 DEF Types
  <2>5. Counting'
    BY <1>1, <1>2, <1>4, <2>1 DEF ExecInv, Counting, Types
  <2>6. Logging'
    BY <1>1, <1>2, <1>4 DEF ExecInv, Logging
  <2>7. Reporting'
    BY <1>1, <1>2, <1>4, <2>1 DEF ExecInv, Reporting
  <2>8. Running'
    <3>1. MayRunUncontained' /\ VerdictEndsRuns'
      BY <1>1, <1>2, <2>3, AtRunner DEF MayRunUncontained, VerdictEndsRuns
    <3>2. Len(runs') <= 2
      BY <2>0
    <3> QED
      BY <1>4, <2>0, <2>1, <2>3, <3>1, <3>2 DEF Running
  <2>9. Outputs'
    BY <1>1, <1>4, AtRunner DEF Outputs
  <2>10. Probing'
    BY <1>1, <1>2, <1>4 DEF ExecInv, Probing, Unavailable
  <2> QED
    BY <2>4, <2>5, <2>6, <2>7, <2>8, <2>9, <2>10 DEF ExecInv
<1> QED
  BY <1>3, <1>4 DEF Spawn

\* The child has ended, and the queue is looked at.
LEMMA JoinStep ==
    ASSUME ExecInv, Join
    PROVE  ExecInv'
<1>1. pc = "join" /\ pc \in InProcess /\ pc' = "get"
  BY DEF Join, InProcess
<1>2. /\ UNCHANGED <<config, down, probe, history, requests, approval, pipe, counter>>
      /\ UNCHANGED <<logged, answer, child, runs, fallbacks, result>>
  BY DEF Join, requestVars
<1>3. pc' \notin Before /\ pc' \in InProcess /\ pc' \notin {"idle", "spawn", "output"}
  BY <1>1 DEF Before, InProcess
<1>4. Types'
  BY <1>1, <1>2 DEF ExecInv, Types
<1>5. Counting' /\ Logging' /\ Reporting'
  BY <1>1, <1>2, <1>3 DEF ExecInv, Counting, Logging, Reporting
<1>6. Running'
  BY <1>1, <1>2, <1>3 DEF ExecInv, Running, VerdictEndsRuns, MayRunUncontained
<1>7. Outputs'
  BY <1>1, <1>2, AtRunner DEF Outputs
<1>8. Probing'
  BY <1>1, <1>2 DEF ExecInv, Probing, Unavailable
<1> QED
  BY <1>4, <1>5, <1>6, <1>7, <1>8 DEF ExecInv

\* The child is terminated after its time.
LEMMA JoinTimeoutStep ==
    ASSUME ExecInv, JoinTimeout
    PROVE  ExecInv'
<1>1. pc = "join" /\ pc \in InProcess /\ Deliver("timeout", NoOutput, "output")
  BY DEF JoinTimeout, InProcess
<1>2. /\ UNCHANGED <<config, down, probe, history, requests, approval, pipe, counter>>
      /\ UNCHANGED <<logged, answer, runs, fallbacks>> /\ child' = "exited"
  BY DEF JoinTimeout, requestVars
<1>3. VerdictEndsRuns'
  BY <1>1, <1>2, AtRunner DEF VerdictEndsRuns
<1>4. Delivery("timeout", NoOutput, "output")
  BY <1>1, <1>2, <1>3, AtRunner DEF Delivery, Statuses
<1> QED
  BY <1>1, <1>4, AtRunner, DeliverStep

\* Setting the second field of a pair.
LEMMA VerdictSet ==
    ASSUME NEW w, NEW v, NEW t
    PROVE  [[where |-> w, verdict |-> v] EXCEPT !.verdict = t] = [where |-> w, verdict |-> t]
OBVIOUS

\* A run comes back with its verdict.
LEMMA VerdictCame ==
    ASSUME NEW r \in Run
    PROVE  /\ [r EXCEPT !.verdict = TRUE] = [where |-> r.where, verdict |-> TRUE]
           /\ [where |-> r.where, verdict |-> TRUE] \in Run
<1>1. PICK w \in {"container", "worker", "process"}, v \in BOOLEAN :
          r = [where |-> w, verdict |-> v]
  BY DEF Run
<1>2. [[where |-> w, verdict |-> v] EXCEPT !.verdict = TRUE] = [where |-> w, verdict |-> TRUE]
  BY VerdictSet, Zenon
<1>3. [where |-> w, verdict |-> TRUE] \in Run
  BY DEF Run
<1>4. r.where = w
  BY <1>1
<1> QED
  BY <1>1, <1>2, <1>3, <1>4

\* The verdict of the child, or an empty queue.
LEMMA GetStep ==
    ASSUME ExecInv, Get
    PROVE  ExecInv'
<1>1. pc = "get" /\ pc \in InProcess /\ Len(runs) \in 1..2
  BY DEF Get, InProcess, ExecInv, Running
<1>2. /\ UNCHANGED <<config, down, probe, history, requests, approval, pipe, counter>>
      /\ UNCHANGED <<logged, answer, fallbacks, child>>
  BY DEF Get, requestVars
<1>3. CASE Deliver("failed", NoOutput, "output") /\ UNCHANGED runs
  <2>1. VerdictEndsRuns'
    BY <1>1, <1>3, AtRunner DEF VerdictEndsRuns
  <2>2. Delivery("failed", NoOutput, "output")
    BY <1>1, <1>2, <1>3, <2>1, AtRunner DEF Delivery, Statuses
  <2> QED
    BY <1>1, <2>2, AtRunner, DeliverStep
<1>4. CASE /\ pipe.status \in {"success", "failed"}
           /\ Deliver(pipe.status, pipe.output, "output")
           /\ runs' = [runs EXCEPT ![Len(runs)].verdict = TRUE]
  <2>1. pipe \in ChildVerdicts
    <3>1. pipe \in {Empty, Part} \cup ChildVerdicts
      BY DEF ExecInv, Types
    <3>2. Empty.status = "empty" /\ Part.status = "part"
      BY DEF Empty, Part
    <3> QED
      BY <1>4, <3>1, <3>2
  <2>2. /\ pipe.output \in Values \cup {NoOutput}
        /\ pipe.status # "success" => pipe.output = NoOutput
        /\ pipe.status = "success" => Decent(pipe.output)
    BY <2>1, ChildVerdictFacts
  <2> DEFINE n == Len(runs)
             last == [where |-> runs[n].where, verdict |-> TRUE]
  <2>0. runs \in Seq(Run) /\ n \in Nat /\ n \in 1..Len(runs) /\ n \in 1..2
    BY <1>1, AtRunner
  <2>3. runs[n] \in Run
    BY <2>0, ElementOfSeq
  <2>4. last \in Run /\ last.verdict = TRUE
    BY <2>3, VerdictCame
  <2>5. runs' = [runs EXCEPT ![n] = last]
    <3>1. [runs[n] EXCEPT !.verdict = TRUE] = last
      BY <2>3, VerdictCame
    <3>2. runs' = [runs EXCEPT ![n] = [runs[n] EXCEPT !.verdict = TRUE]]
      BY <1>4
    <3> QED
      BY <3>1, <3>2
  <2> HIDE DEF last
  <2>6. /\ runs' \in Seq(Run) /\ Len(runs') = n /\ DOMAIN runs' = 1..n
        /\ runs'[n] = last
        /\ \A i \in 1..n : i # n => runs'[i] = runs[i]
    BY <2>0, <2>4, <2>5, ExceptSeq
  <2>7. VerdictEndsRuns'
    BY <1>1, <2>6, AtRunner DEF VerdictEndsRuns
  <2>8. runs' # <<>> /\ runs'[Len(runs')].verdict /\ Len(runs') <= 2
    <3>1. Len(runs') # 0 /\ Len(runs') <= 2
      BY <2>0, <2>6
    <3>2. runs'[Len(runs')] = last
      BY <2>6
    <3>3. runs'[Len(runs')].verdict = TRUE
      BY <2>4, <3>2
    <3> QED
      BY <3>1, <3>3
  <2>9. Delivery(pipe.status, pipe.output, "output")
    <3>1. pipe.status \in Statuses \ {"rejected_no_isolated_sandbox"}
      BY <1>4 DEF Statuses
    <3>2. /\ MayRunUncontained /\ child' \in {"none", "running", "writing", "exited"}
          /\ Deliver(pipe.status, pipe.output, "output")
      BY <1>1, <1>2, <1>4, AtRunner
    <3> QED
      BY <1>2, <2>2, <2>6, <2>7, <2>8, <3>1, <3>2 DEF Delivery
  <2> QED
    BY <1>1, <2>9, AtRunner, DeliverStep
<1> QED
  BY <1>3, <1>4 DEF Get

-----------------------------------------------------------------------------
(* Steps between requests, and beside them                                 *)

\* A request comes in.
LEMMA ExecuteStep ==
    ASSUME ExecInv, Execute
    PROVE  ExecInv'
<1>1. /\ pc = "idle" /\ pc' = "guard" /\ requests < MaxRequests /\ requests' = requests + 1
      /\ result' = NoResult /\ child' = "none" /\ pipe' = Empty /\ runs' = <<>>
      /\ logged' = <<>> /\ history' = NoHistory /\ answer' = 0
      /\ UNCHANGED <<config, down, probe, approval, counter, fallbacks>>
  BY DEF Execute
<1>2. /\ Shaped(result)' /\ result'.status = "failed" /\ result'.output = NoOutput
      /\ result'.fallback = FALSE /\ result'.container = "none"
      /\ result'.health = "not_applied"
  BY <1>1 DEF Shaped, NoResult
<1>3. pc' \in Before /\ pc' \notin InProcess
  BY <1>1 DEF Before, InProcess
<1>4. Types'
  <2>1. result'.fallback \in BOOLEAN
    BY <1>2
  <2>2. result'.status \in Statuses /\ result'.health \in Healths
    BY <1>2 DEF Statuses, Healths
  <2>3. requests' \in 0..MaxRequests
    BY <1>1, SkillExecutionAssumption DEF ExecInv, Types
  <2>4. runs' \in Seq(Run)
    BY <1>1
  <2> QED
    BY <1>1, <1>2, <2>1, <2>2, <2>3, <2>4 DEF ExecInv, Types
<1>5. Counting'
  BY <1>1, SkillExecutionAssumption DEF ExecInv, Counting, Types
<1>6. Running'
  BY <1>1, <1>3 DEF Running, VerdictEndsRuns
<1>7. Reporting'
  BY <1>1, <1>2, <1>3 DEF Reporting
<1>8. Logging'
  BY <1>1 DEF Logging
<1>9. Outputs'
  BY <1>2 DEF Outputs
<1>10. Probing'
  BY <1>1, <1>2 DEF ExecInv, Probing
<1> QED
  BY <1>4, <1>5, <1>6, <1>7, <1>8, <1>9, <1>10 DEF ExecInv

\* The lifecycle check of the endpoint.
LEMMA GuardStep ==
    ASSUME ExecInv, Guard
    PROVE  ExecInv'
<1>1. pc = "guard" /\ pc \in Before
  BY DEF Guard, Before
<1>2. /\ UNCHANGED <<config, down, probe, history, requests, approval, pipe, counter>>
      /\ UNCHANGED <<logged, fallbacks, child, runs, result>>
  BY DEF Guard, requestVars
<1>3. \/ pc' = "input" /\ answer' = answer
      \/ pc' = "idle" /\ answer' = 400
  BY DEF Guard
<1>4. pc' \notin InProcess /\ pc' \notin {"spawn", "join", "get", "output"}
  BY <1>3 DEF InProcess
<1>5. answer = 0 /\ logged = <<>>
  BY <1>1 DEF ExecInv, Logging
<1>6. Types'
  BY <1>2, <1>3, <1>5 DEF ExecInv, Types
<1>7. Counting'
  BY <1>1, <1>2, <1>4 DEF ExecInv, Counting
<1>8. Running'
  <2>1. VerdictEndsRuns'
    BY <1>1, <1>2, AtBackend DEF VerdictEndsRuns
  <2> QED
    BY <1>1, <1>2, <1>4, <2>1, AtBackend DEF Running
<1>9. Reporting'
  BY <1>1, <1>2, <1>4 DEF ExecInv, Reporting
<1>10. Logging'
  BY <1>1, <1>2, <1>3, <1>5, AtBackend DEF Logging
<1>11. Outputs'
  BY <1>1, <1>2, AtBackend DEF Outputs
<1>12. Probing'
  BY <1>1, <1>2, AtBackend DEF ExecInv, Probing
<1> QED
  BY <1>6, <1>7, <1>8, <1>9, <1>10, <1>11, <1>12 DEF ExecInv

\* What changes beside the endpoint: the skill's approval and the child.
LEMMA BesideStep ==
    ASSUME ExecInv,
           UNCHANGED <<config, down, probe, history, requests, pc, result, counter>>,
           UNCHANGED <<logged, fallbacks, runs, answer>>,
           approval' \in {"approved", "deprecated"},
           child' \in {"none", "running", "writing", "exited"},
           pipe' \in {Empty, Part} \cup ChildVerdicts
    PROVE  ExecInv'
<1>1. Types'
  BY DEF ExecInv, Types
<1>2. Counting' /\ Logging' /\ Reporting'
  BY DEF ExecInv, Counting, Logging, Reporting
<1>3. Running'
  BY DEF ExecInv, Running, VerdictEndsRuns, MayRunUncontained
<1>4. Outputs'
  BY DEF ExecInv, Outputs
<1>5. Probing'
  BY DEF ExecInv, Probing, Unavailable
<1> QED
  BY <1>1, <1>2, <1>3, <1>4, <1>5 DEF ExecInv

\* GET /ready, or a dependency that fails or comes back: the last answer is history.
LEMMA LookStep ==
    ASSUME ExecInv, pc \in {"idle", "backend"}, answer' = 0,
           UNCHANGED <<config, history, requests, pc, result, counter, approval, child, pipe>>,
           UNCHANGED <<logged, fallbacks, runs>>,
           down' = {} \/ \E d \in ContainerNeeds \cup {"worker"} : down' = {d},
           probe' \in {"none", "unready", "degraded", "secure"},
           pc = "backend" => probe' = "none",
           probe' = "secure" => \E r \in RuntimeReady(config, down') : r.ready /\ r.secure,
           probe' = "degraded" => \E r \in RuntimeReady(config, down') : r.ready /\ ~r.secure,
           probe' = "unready" => \E r \in RuntimeReady(config, down') : ~r.ready
    PROVE  ExecInv'
<1>1. Types'
  BY DEF ExecInv, Types
<1>2. Counting' /\ Reporting'
  BY DEF ExecInv, Counting, Reporting
<1>3. Logging'
  BY DEF ExecInv, Logging
<1>4. Running'
  BY DEF ExecInv, Running, VerdictEndsRuns, MayRunUncontained
<1>5. Outputs'
  BY DEF ExecInv, Outputs
<1>6. Probing'
  BY DEF Probing
<1> QED
  BY <1>1, <1>2, <1>3, <1>4, <1>5, <1>6 DEF ExecInv

\* GET /ready.
LEMMA ReadyStep ==
    ASSUME ExecInv, Ready
    PROVE  ExecInv'
<1>1. pc = "idle" /\ answer' = 0 /\ down' = down
        /\ UNCHANGED <<config, history, requests, pc, result, counter, approval, child, pipe>>
        /\ UNCHANGED <<logged, fallbacks, runs>>
  BY DEF Ready
<1>2. PICK r \in RuntimeReady(config, down) :
          probe' = CASE r.ready /\ r.secure -> "secure"
                     [] r.ready /\ ~r.secure -> "degraded"
                     [] OTHER -> "unready"
  BY DEF Ready
<1>3. \/ probe' = "secure" /\ r.ready /\ r.secure
      \/ probe' = "degraded" /\ r.ready /\ ~r.secure
      \/ probe' = "unready" /\ ~r.ready
  BY <1>2, Zenon
<1>4. /\ probe' \in {"none", "unready", "degraded", "secure"}
      /\ probe' = "secure" => \E q \in RuntimeReady(config, down') : q.ready /\ q.secure
      /\ probe' = "degraded" => \E q \in RuntimeReady(config, down') : q.ready /\ ~q.secure
      /\ probe' = "unready" => \E q \in RuntimeReady(config, down') : ~q.ready
  BY <1>1, <1>3
<1>5. down' = {} \/ \E d \in ContainerNeeds \cup {"worker"} : down' = {d}
  BY <1>1 DEF ExecInv, Types
<1> QED
  BY <1>1, <1>4, <1>5, LookStep

\* A dependency fails or comes back.
LEMMA DependencyStep ==
    ASSUME ExecInv, DependencyChanges
    PROVE  ExecInv'
<1>1. pc \in {"idle", "backend"} /\ answer' = 0 /\ probe' = "none"
        /\ UNCHANGED <<config, history, requests, pc, result, counter, approval, child, pipe>>
        /\ UNCHANGED <<logged, fallbacks, runs>>
  BY DEF DependencyChanges
<1>2. Dependencies \subseteq ContainerNeeds \cup {"worker"}
  BY Zenon DEF Dependencies
<1>3. down' = {} \/ \E d \in ContainerNeeds \cup {"worker"} : down' = {d}
  BY <1>2 DEF DependencyChanges
<1> QED
  BY <1>1, <1>3, LookStep

-----------------------------------------------------------------------------
(* The invariant holds for ever                                            *)

\* A process that has just started.
LEMMA ExecInvInit ==
    ASSUME Init
    PROVE  ExecInv
<1>1. /\ pc = "idle" /\ result = NoResult /\ runs = <<>> /\ logged = <<>> /\ answer = 0
      /\ counter = 0 /\ fallbacks = 0 /\ requests = 0 /\ probe = "none"
  BY DEF Init
<1>2. /\ Shaped(result) /\ result.status = "failed" /\ result.output = NoOutput
      /\ result.fallback = FALSE /\ result.container = "none"
      /\ result.health = "not_applied"
  BY <1>1 DEF Shaped, NoResult
<1>3. pc \notin Before /\ pc \notin InProcess
  BY <1>1 DEF Before, InProcess
<1>4. Types
  <2>1. result.fallback \in BOOLEAN
    BY <1>2
  <2>2. result.status \in Statuses /\ result.health \in Healths
    BY <1>2 DEF Statuses, Healths
  <2> QED
    BY <1>2, <2>1, <2>2, SkillExecutionAssumption DEF Init, Types
<1>5. Counting /\ Reporting /\ Logging
  BY <1>1, <1>2, <1>3 DEF Counting, Reporting, Logging
<1>6. Running
  BY <1>1, <1>3 DEF Running, VerdictEndsRuns
<1>7. Outputs /\ Probing
  BY <1>1, <1>2 DEF Outputs, Probing
<1> QED
  BY <1>4, <1>5, <1>6, <1>7 DEF ExecInv

\* Every step keeps the invariant.
LEMMA ExecInvStep ==
    ASSUME ExecInv, [Next]_vars
    PROVE  ExecInv'
<1>1. CASE Execute
  BY <1>1, ExecuteStep
<1>2. CASE Ready
  BY <1>2, ReadyStep
<1>3. CASE DependencyChanges
  BY <1>3, DependencyStep
<1>4. CASE Step
  BY <1>4, GuardStep, CheckInputStep, ContainerRunsStep, ContainerFailsStep, UseProcessStep,
     RemoteRunsStep, SpawnStep, JoinStep, JoinTimeoutStep, GetStep, CheckOutputStep,
     AnnotateStep, TelemetryStep DEF Step
<1>5. approval \in {"approved", "deprecated"} /\ pipe \in {Empty, Part} \cup ChildVerdicts
        /\ child \in {"none", "running", "writing", "exited"}
  BY DEF ExecInv, Types
<1>6. CASE ChangeApproval
  BY <1>5, <1>6, BesideStep DEF ChangeApproval, requestVars
<1>7. CASE ChildPuts
  BY <1>5, <1>7, BesideStep DEF ChildPuts, requestVars
<1>8. CASE ChildKilled
  BY <1>5, <1>8, BesideStep DEF ChildKilled, requestVars
<1>9. CASE UNCHANGED vars
  BY <1>5, <1>9, BesideStep DEF vars
<1> QED
  BY <1>1, <1>2, <1>3, <1>4, <1>6, <1>7, <1>8, <1>9 DEF Next

\* The invariant of every request.
LEMMA ExecInvAlways == Spec => []ExecInv
<1>1. Init => ExecInv
  BY ExecInvInit
<1>2. ExecInv /\ [Next]_vars => ExecInv'
  BY ExecInvStep
<1> QED
  BY <1>1, <1>2, PTL DEF Spec

-----------------------------------------------------------------------------
(* The theorems                                                            *)

\* The variables keep their types, a request has at most two runs of code, and the
\* counter at most one fallback per request.
THEOREM ExecutionTypeCorrect == Spec => []TypeOK
<1>1. ASSUME ExecInv PROVE TypeOK
  <2>1. Cardinality(down) <= 1
    <3>1. down = {} \/ \E d \in ContainerNeeds \cup {"worker"} : down = {d}
      BY <1>1 DEF ExecInv, Types
    <3> QED
      BY <3>1, FS_EmptySet, FS_Singleton
  <2>2. counter \in 0..MaxRequests /\ fallbacks \in 0..MaxRequests
    BY <1>1, SkillExecutionAssumption DEF ExecInv, Types, Counting
  <2>3. Len(runs) <= 2 /\ Len(logged) <= 1
    BY <1>1 DEF ExecInv, Running, Logging
  <2> QED
    BY <1>1, <2>1, <2>2, <2>3 DEF ExecInv, Types, TypeOK, Healths
<1> QED
  BY <1>1, ExecInvAlways, PTL

\* Code runs outside a sandbox only if the settings allow it, and each fallback is
\* counted before it runs (OptionalContainerExecutor.execute).
THEOREM FallbacksAreCounted == Spec => []UncontainedRunsCounted
<1>1. ASSUME ExecInv PROVE UncontainedRunsCounted
  <2>1. ProcessRuns # {} => config.backend = "process" \/ config.allowFallback
    BY <1>1 DEF ExecInv, Running, ProcessRuns, MayRunUncontained
  <2>2. fallbacks <= counter
    BY <1>1 DEF ExecInv, Counting
  <2> QED
    BY <2>1, <2>2 DEF UncontainedRunsCounted
<1> QED
  BY <1>1, ExecInvAlways, PTL

\* No second run follows one that came back with a verdict, a timeout included.
THEOREM RunsEndWithVerdict == Spec => []VerdictEndsRuns
<1>1. ExecInv => VerdictEndsRuns
  BY DEF ExecInv, Running
<1> QED
  BY <1>1, ExecInvAlways, PTL

\* An answer says whether the process runner replaced the container.
THEOREM FallbacksAreReported == Spec => []FallbackReported
<1>1. ExecInv => FallbackReported
  BY DEF ExecInv, Reporting, FallbackReported
<1> QED
  BY <1>1, ExecInvAlways, PTL

\* With telemetry required, what is answered with 200 is in the execution log, once,
\* and a request that was refused ran and logged nothing.
THEOREM AnswersAreLogged == Spec => []AnswerIsLogged
<1>1. ExecInv => AnswerIsLogged
  BY DEF ExecInv, Logging, AnswerIsLogged
<1> QED
  BY <1>1, ExecInvAlways, PTL

-----------------------------------------------------------------------------
(* Schema contracts                                                        *)

\* What validate_schema_contract asks of a value, given "accepted" for its parts, ...
Asked(v, s, accepted) ==
    /\ Has(s, "type") => TypeCheck(v, s.type)
    /\ EnumAccepted(v, s,
           /\ v.type = "dict" => ObjectAccepted(v, s, accepted)
           /\ v.type = "list" => ListAccepted(v, s, accepted)
           /\ v.type = "str" => Within(s, "minLength", "maxLength", v.len)
           /\ Numeric(v) => NumberAccepted(v, s))

\* ... and what JSON Schema asks.
AskedByKeyword(v, s, conforms) ==
    \A keyword \in DOMAIN s : KeywordHolds(v, s, keyword, conforms)

\* The equations of the two recursions.
Reads(f) == f = [v \in Values |-> [s \in Schemas |-> Asked(v, s, f)]]

ReadsKeywords(f) == f = [v \in Values |-> [s \in Schemas |-> AskedByKeyword(v, s, f)]]

\* A schema that is read in the order of the code asks the same as keyword by keyword.
LEMMA SameQuestions ==
    ASSUME NEW v \in Values, NEW s \in Schemas, NEW f
    PROVE  Asked(v, s, f) <=> AskedByKeyword(v, s, f)
<1> USE DEF Has
<1>1. DOMAIN s \subseteq Keywords
  BY SchemaAssumption
<1>2. v.type \in {"dict", "list", "str", "int", "float", "bool", "NoneType"}
  BY SchemaAssumption
<1>3. Has(s, "type") => (TypeCheck(v, s.type) <=> KeywordHolds(v, s, "type", f))
  <2>1. Has(s, "type") =>
          s.type \in {"object", "array", "string", "number", "integer", "boolean", "null"}
    BY SchemaAssumption
  <2> QED
    BY <1>2, <2>1, Zenon DEF TypeCheck, KeywordHolds, JsonTypes, Numeric
<1>4. Has(s, "enum") => ((\E w \in s.enum : PyEqual(v, w)) <=> KeywordHolds(v, s, "enum", f))
  BY Zenon DEF KeywordHolds
<1>5. ASSUME v.type = "dict"
      PROVE  ObjectAccepted(v, s, f) <=>
                \A k \in {"required", "properties", "additionalProperties"} \cap DOMAIN s :
                    KeywordHolds(v, s, k, f)
  BY <1>5, Zenon DEF ObjectAccepted, KeywordHolds, Declared
<1>6. ASSUME v.type = "list"
      PROVE  ListAccepted(v, s, f) <=>
                \A k \in {"minItems", "maxItems", "items"} \cap DOMAIN s :
                    KeywordHolds(v, s, k, f)
  BY <1>6, Zenon DEF ListAccepted, KeywordHolds, Within
<1>7. ASSUME v.type = "str"
      PROVE  Within(s, "minLength", "maxLength", v.len) <=>
                \A k \in {"minLength", "maxLength"} \cap DOMAIN s : KeywordHolds(v, s, k, f)
  BY <1>7, Zenon DEF KeywordHolds, Within
<1>8. ASSUME Numeric(v)
      PROVE  NumberAccepted(v, s) <=>
                \A k \in {"minimum", "maximum", "exclusiveMinimum", "exclusiveMaximum"}
                           \cap DOMAIN s : KeywordHolds(v, s, k, f)
  BY <1>8, Zenon DEF NumberAccepted, KeywordHolds, Within
<1>9. /\ v.type # "dict" =>
            \A k \in {"required", "properties", "additionalProperties"} : KeywordHolds(v, s, k, f)
      /\ v.type # "list" => \A k \in {"minItems", "maxItems", "items"} : KeywordHolds(v, s, k, f)
      /\ v.type # "str" => \A k \in {"minLength", "maxLength"} : KeywordHolds(v, s, k, f)
      /\ ~Numeric(v) => \A k \in {"minimum", "maximum", "exclusiveMinimum", "exclusiveMaximum"} :
                            KeywordHolds(v, s, k, f)
  BY Zenon DEF KeywordHolds
<1> QED
  BY <1>1, <1>3, <1>4, <1>5, <1>6, <1>7, <1>8, <1>9
  DEF Asked, AskedByKeyword, EnumAccepted, Keywords

\* The two recursions have the same equation, so they define the same function.
LEMMA SameFunction == Accepted = Conforms
<1>1. Accepted = CHOOSE f : Reads(f)
  BY DEF Accepted, Reads, Asked
<1>2. Conforms = CHOOSE f : ReadsKeywords(f)
  BY DEF Conforms, ReadsKeywords, AskedByKeyword
<1>3. ASSUME NEW f PROVE Reads(f) <=> ReadsKeywords(f)
  <2>1. [v \in Values |-> [s \in Schemas |-> Asked(v, s, f)]]
          = [v \in Values |-> [s \in Schemas |-> AskedByKeyword(v, s, f)]]
    <3>1. \A v \in Values, s \in Schemas : Asked(v, s, f) = AskedByKeyword(v, s, f)
      <4> SUFFICES ASSUME NEW v \in Values, NEW s \in Schemas
                   PROVE  Asked(v, s, f) = AskedByKeyword(v, s, f)
        OBVIOUS
      <4>1. Asked(v, s, f) \in BOOLEAN /\ AskedByKeyword(v, s, f) \in BOOLEAN
        BY DEF Asked, AskedByKeyword
      <4> QED
        BY <4>1, SameQuestions
    <3> QED
      BY <3>1
  <2> QED
    BY <2>1, Zenon DEF Reads, ReadsKeywords
<1>4. (CHOOSE f : Reads(f)) = (CHOOSE f : ReadsKeywords(f))
  BY <1>3, Zenon
<1> QED
  BY <1>1, <1>2, <1>4

\* The pairs of which "accepted" is true.
Says(P) == [v \in Values |-> [s \in Schemas |-> <<v, s>> \in P]]

\* A value that satisfies its schema when the parts of P do, satisfies it when more do.
LEMMA AskedMonotone ==
    ASSUME NEW P, NEW Q, P \subseteq Q, NEW v \in Values, NEW s \in Schemas,
           Asked(v, s, Says(P))
    PROVE  Asked(v, s, Says(Q))
<1>1. ASSUME NEW R, NEW x \in Values, NEW y \in Schemas
      PROVE  Says(R)[x][y] <=> <<x, y>> \in R
  BY Zenon DEF Says
<1>2. ASSUME v.type = "dict", ObjectAccepted(v, s, Says(P)) PROVE ObjectAccepted(v, s, Says(Q))
  <2>1. ASSUME Has(s, "properties"), NEW k \in DOMAIN v.props \cap DOMAIN s.properties
        PROVE  Says(Q)[v.props[k]][s.properties[k]]
    <3>1. v.props[k] \in Values /\ s.properties[k] \in Schemas
      BY <1>2, <2>1, SchemaAssumption, Zenon DEF Has
    <3> DEFINE x == v.props[k]
               y == s.properties[k]
    <3>2. Says(P)[x][y]
      BY <1>2, <2>1, Zenon DEF ObjectAccepted
    <3> HIDE DEF x, y
    <3>3. <<x, y>> \in P
      BY <1>1, <3>1, <3>2 DEF x, y
    <3>4. Says(Q)[x][y]
      BY <1>1, <3>1, <3>3 DEF x, y
    <3> QED
      BY <3>4 DEF x, y
  <2> QED
    BY <1>2, <2>1, Zenon DEF ObjectAccepted
<1>3. ASSUME v.type = "list", ListAccepted(v, s, Says(P)) PROVE ListAccepted(v, s, Says(Q))
  <2>1. ASSUME Has(s, "items"), NEW i \in DOMAIN v.items
        PROVE  Says(Q)[v.items[i]][s.items]
    <3>1. v.items[i] \in Values /\ s.items \in Schemas
      BY <1>3, <2>1, SchemaAssumption, Zenon DEF Has
    <3> DEFINE x == v.items[i]
               y == s.items
    <3>2. Says(P)[x][y]
      BY <1>3, <2>1, Zenon DEF ListAccepted
    <3> HIDE DEF x, y
    <3>3. <<x, y>> \in P
      BY <1>1, <3>1, <3>2 DEF x, y
    <3>4. Says(Q)[x][y]
      BY <1>1, <3>1, <3>3 DEF x, y
    <3> QED
      BY <3>4 DEF x, y
  <2> QED
    BY <1>3, <2>1, Zenon DEF ListAccepted
<1> QED
  BY <1>2, <1>3, Zenon DEF Asked, EnumAccepted

\* The recursion of validate_schema_contract comes to an answer: the smallest set of
\* pairs that is closed under it satisfies its equation.
LEMMA RecursionHasSolution == \E f : Reads(f)
<1> DEFINE D == Values \X Schemas
           Once(P) == {d \in D : Asked(d[1], d[2], Says(P))}
           R == {d \in D : \A P \in SUBSET D : Once(P) \subseteq P => d \in P}
<1>1. ASSUME NEW P \in SUBSET D, NEW Q \in SUBSET D, P \subseteq Q
      PROVE  Once(P) \subseteq Once(Q)
  BY <1>1, AskedMonotone
<1>2. R \in SUBSET D /\ \A P : Once(P) \in SUBSET D
  OBVIOUS
<1>3. \A P \in SUBSET D : Once(P) \subseteq P => R \subseteq P
  OBVIOUS
<1>4. Once(R) \subseteq R
  <2> SUFFICES ASSUME NEW d \in Once(R), NEW P \in SUBSET D, Once(P) \subseteq P
               PROVE  d \in P
    BY <1>2
  <2> HIDE DEF Once, R, D
  <2> QED
    BY <1>1, <1>2, <1>3
<1>5. R \subseteq Once(R)
  <2> HIDE DEF Once, R, D
  <2> QED
    BY <1>1, <1>2, <1>3, <1>4
<1>6. ASSUME NEW v \in Values, NEW s \in Schemas
      PROVE  (<<v, s>> \in R) = Asked(v, s, Says(R))
  <2>1. <<v, s>> \in R <=> <<v, s>> \in Once(R)
    <3> HIDE DEF Once, R
    <3> QED
      BY <1>4, <1>5
  <2>2. <<v, s>> \in Once(R) <=> Asked(v, s, Says(R))
    <3> HIDE DEF R
    <3> QED
      OBVIOUS
  <2>3. Asked(v, s, Says(R)) \in BOOLEAN
    <3> HIDE DEF R
    <3> QED
      BY DEF Asked
  <2> HIDE DEF Once, R
  <2> QED
    BY <2>1, <2>2, <2>3
<1> HIDE DEF R
<1>7. [v \in Values |-> [s \in Schemas |-> <<v, s>> \in R]]
         = [v \in Values |-> [s \in Schemas |-> Asked(v, s, Says(R))]]
  BY <1>6
<1>8. Reads(Says(R))
  BY <1>7, Zenon DEF Reads, Says
<1> QED
  BY <1>8, Zenon

\* validate_schema_contract, which reads a schema in the order of the code and returns
\* early, finds no error exactly in the values that conform to every keyword of the
\* schema, at every depth, for all values and schemas of the supported keywords.
THEOREM ValidatorReadsEveryKeyword ==
    \A v \in Values, s \in Schemas :
        /\ Accepted[v][s] <=> Conforms[v][s]
        /\ Accepted[v][s] <=> Asked(v, s, Accepted)
<1>1. Reads(Accepted)
  <2>1. Accepted = CHOOSE f : Reads(f)
    BY DEF Accepted, Reads, Asked
  <2>2. Reads(CHOOSE f : Reads(f))
    BY RecursionHasSolution, Zenon
  <2> QED
    BY <2>1, <2>2, Zenon
<1>2. ASSUME NEW f, Reads(f), NEW v \in Values, NEW s \in Schemas
      PROVE  f[v][s] = Asked(v, s, f)
  <2>1. f = [x \in Values |-> [y \in Schemas |-> Asked(x, y, f)]]
    BY <1>2, Zenon DEF Reads
  <2>2. f[v] = [y \in Schemas |-> Asked(v, y, f)]
    BY <2>1, Zenon
  <2> QED
    BY <2>2, Zenon
<1>3. \A v \in Values, s \in Schemas : Accepted[v][s] = Asked(v, s, Accepted)
  BY <1>1, <1>2, Zenon
<1> QED
  BY <1>3, SameFunction, Zenon

-----------------------------------------------------------------------------
(* Answers                                                                 *)

\* Every success that is answered is the verdict of the last run, conforms to the
\* skill's output_schema, has a rate or null as its confidence and no API key; all
\* else is answered without an output.
THEOREM AnsweredOutputsAreValid == Spec => []AnsweredOutputIsValid
<1>1. ASSUME ExecInv PROVE AnsweredOutputIsValid
  <2> SUFFICES ASSUME Answered, answer # 400 PROVE
          IF result.status = "success"
          THEN /\ Last(runs).verdict
               /\ Conforms[result.output][config.schema]
               /\ "api_key" \notin DOMAIN result.output.props
               /\ "confidence" \in DOMAIN result.output.props =>
                     \/ result.output.props.confidence.type = "NoneType"
                     \/ IsRate(result.output.props.confidence)
          ELSE result.output = NoOutput
    BY Zenon DEF AnsweredOutputIsValid
  <2>1. CASE result.status # "success"
    BY <1>1, <2>1 DEF ExecInv, Outputs
  <2>2. CASE result.status = "success"
    <3>1. /\ runs[Len(runs)].verdict /\ Decent(result.output)
      BY <1>1, <2>2 DEF ExecInv, Outputs
    <3>2. pc # "output"
      BY DEF Answered
    <3>3. Accepted[result.output][config.schema]
      BY <1>1, <2>2, <3>2, Zenon DEF ExecInv, Outputs
    <3>4. result.output \in Values /\ config.schema \in Schemas
      BY <1>1, <3>1, SkillExecutionAssumption DEF ExecInv, Types, Configs, Decent
    <3>5. Conforms[result.output][config.schema]
      BY <3>3, <3>4, ValidatorReadsEveryKeyword, Zenon
    <3>6. Last(runs).verdict
      BY <3>1 DEF Last
    <3> QED
      BY <2>2, <3>1, <3>5, <3>6, Zenon DEF Decent
  <2> QED
    BY <2>1, <2>2
<1> QED
  BY <1>1, ExecInvAlways, PTL

-----------------------------------------------------------------------------
(* Readiness                                                               *)

\* What the probes can say of settings and of what is down.
LEMMA ProbeFacts ==
    ASSUME config \in Configs, NEW r \in RuntimeReady(config, down)
    PROVE  /\ r.ready /\ r.secure => ~Unavailable
           /\ r.ready /\ config.backend = "container" /\ ~config.allowFallback => ~Unavailable
           /\ ~r.ready /\ (config.required => config.database) => ~MayRunUncontained
<1>1. PICK e \in ExecutorReadiness(config, down) :
          r = Probe(e.ready /\ (config.required => config.database), e.secure)
  BY DEF RuntimeReady
<1>2. r.ready = (e.ready /\ (config.required => config.database)) /\ r.secure = e.secure
  BY <1>1 DEF Probe
<1>3. config.backend \in {"process", "container", "remote"}
  BY SkillExecutionAssumption DEF Configs
<1>4. \A q \in ContainerReadiness(down) :
          q.ready => down \cap ContainerNeeds = {}
  BY DEF ContainerReadiness, ContainerProbed, Probe
<1>5. down \cap ContainerNeeds = {} => ~Unavailable
  BY DEF ContainerNeeds, Unavailable
<1>6. CASE config.backend = "remote"
  <2>1. e \in RemoteReadiness(down)
    BY <1>6 DEF ExecutorReadiness
  <2>2. e = Probe(FALSE, FALSE) \/ \E q \in ContainerReadiness(down) :
                                       e = Probe(q.ready /\ q.secure, q.ready /\ q.secure)
    BY <2>1, Zenon DEF RemoteReadiness
  <2>3. CASE e = Probe(FALSE, FALSE)
    <3>1. e.ready = FALSE
      BY <2>3 DEF Probe
    <3> QED
      BY <1>2, <1>6, <3>1 DEF MayRunUncontained
  <2>4. CASE \E q \in ContainerReadiness(down) :
                e = Probe(q.ready /\ q.secure, q.ready /\ q.secure)
    <3>1. PICK q \in ContainerReadiness(down) :
              e = Probe(q.ready /\ q.secure, q.ready /\ q.secure)
      BY <2>4
    <3>2. e.ready = (q.ready /\ q.secure)
      BY <3>1 DEF Probe
    <3> QED
      BY <1>2, <1>4, <1>5, <1>6, <3>2 DEF MayRunUncontained
  <2> QED
    BY <2>2, <2>3, <2>4
<1>7. CASE config.backend = "process"
  <2>1. e = Probe(TRUE, FALSE)
    BY <1>7 DEF ExecutorReadiness, OptionalReadiness
  <2>2. e.ready = TRUE /\ e.secure = FALSE
    BY <2>1 DEF Probe
  <2> QED
    BY <1>2, <1>7, <2>2
<1>8. CASE config.backend = "container"
  <2>1. PICK q \in ContainerReadiness(down) :
            e = IF q.ready THEN q ELSE Probe(config.allowFallback, FALSE)
    BY <1>8 DEF ExecutorReadiness, OptionalReadiness
  <2>2. CASE q.ready
    BY <1>2, <1>4, <1>5, <2>1, <2>2
  <2>3. CASE ~q.ready
    <3>1. e.ready = config.allowFallback /\ e.secure = FALSE
      BY <2>1, <2>3 DEF Probe
    <3> QED
      BY <1>2, <1>8, <3>1 DEF MayRunUncontained
  <2> QED
    BY <2>2, <2>3
<1> QED
  BY <1>3, <1>6, <1>7, <1>8

\* What /ready said holds for the executions that follow, as long as nothing changes.
THEOREM ProbesForetell == Spec => []ReadinessForetells
<1>1. ASSUME ExecInv PROVE ReadinessForetells
  <2> SUFFICES ASSUME Answered
               PROVE  /\ probe = "secure" => result.container # "container_unavailable"
                      /\ /\ probe \in {"secure", "degraded"}
                         /\ result.status = "rejected_no_isolated_sandbox"
                         => result.container = "container_failed"
                      /\ probe = "unready" /\ config.required => config.database \/ answer # 200
                      /\ probe = "unready" /\ (config.required => config.database) =>
                            ProcessRuns = {}
    BY DEF ReadinessForetells
  <2>1. config \in Configs /\ answer # 0
    BY <1>1 DEF ExecInv, Types, Answered
  <2>2. result.container = "container_unavailable" /\ probe # "none" => Unavailable
    BY <1>1, <2>1 DEF ExecInv, Probing
  <2>3. probe = "secure" => ~Unavailable
    BY <1>1, <2>1, ProbeFacts DEF ExecInv, Probing
  <2>4. result.status = "rejected_no_isolated_sandbox" =>
            /\ ~config.allowFallback /\ config.backend = "container"
            /\ result.container \in {"container_unavailable", "container_failed"}
    <3> SUFFICES ASSUME result.status = "rejected_no_isolated_sandbox"
                 PROVE  /\ ~config.allowFallback /\ config.backend = "container"
                        /\ result.container \in {"container_unavailable", "container_failed"}
      OBVIOUS
    <3>1. ~config.allowFallback /\ config.backend = "container"
      BY <1>1 DEF ExecInv, Reporting
    <3>2. result.container # "none"
      BY <1>1 DEF ExecInv, Reporting
    <3> QED
      BY <1>1, <3>1, <3>2 DEF ExecInv, Types
  <2>5. probe = "degraded" /\ config.backend = "container" /\ ~config.allowFallback
            => ~Unavailable
    BY <1>1, <2>1, ProbeFacts DEF ExecInv, Probing
  <2>6. answer = 200 /\ config.required => config.database
    BY <1>1 DEF ExecInv, Logging
  <2>7. probe = "unready" /\ (config.required => config.database) => ~MayRunUncontained
    BY <1>1, <2>1, ProbeFacts DEF ExecInv, Probing
  <2>8. ~MayRunUncontained => ProcessRuns = {}
    BY <1>1 DEF ExecInv, Running, ProcessRuns
  <2> QED
    BY <2>2, <2>3, <2>4, <2>5, <2>6, <2>7, <2>8
<1> QED
  BY <1>1, ExecInvAlways, PTL
=============================================================================
