----------------------------- MODULE Readiness -----------------------------
(***************************************************************************)
(* The readiness probes: ContainerSandboxExecutor.readiness and the one of *)
(* OptionalContainerExecutor (app/container_sandbox.py), the worker's GET  *)
(* /ready (app/sandbox_worker.py), RemoteSandboxExecutor.readiness         *)
(* (app/remote_sandbox.py) and the API's GET /ready (app/readiness.py), as *)
(* functions of what is down: the directory for workspaces, the docker     *)
(* binary, its daemon, the sandbox image, or the worker.  A probe may also *)
(* fail with nothing down (its timeout), so it has a set of outcomes.      *)
(***************************************************************************)
EXTENDS FiniteSets

ContainerNeeds == {"workspace", "binary", "daemon", "image"}

\* What a probe says: ready for executions, and for isolated ones.
Probe(ready, secure) == [ready |-> ready, secure |-> secure]

\* Mutant: the workspace is not probed.
ContainerNeedsDocker == {"binary", "daemon", "image"}

\* What ContainerSandboxExecutor.readiness looks at.
ContainerProbed == ContainerNeeds

ContainerReadiness(down) ==
    {Probe(FALSE, FALSE)}
    \cup (IF down \cap ContainerProbed = {} THEN {Probe(TRUE, TRUE)} ELSE {})

\* OptionalContainerExecutor.readiness: with the container switched off, or down
\* and the fallback allowed, it is ready, and says that this is not isolated.
OptionalReadiness(enabled, allowFallback, down) ==
    IF ~enabled
    THEN {Probe(TRUE, FALSE)}
    ELSE {IF r.ready THEN r ELSE Probe(allowFallback, FALSE) : r \in ContainerReadiness(down)}

\* The worker's GET /ready over its own container sandbox, and what the client
\* makes of the answer or of none.
RemoteReadiness(down) ==
    {Probe(FALSE, FALSE)}
    \cup (IF "worker" \in down THEN {} ELSE {Probe(r.ready /\ r.secure, r.ready /\ r.secure) :
                                                r \in ContainerReadiness(down)})

\* executor_readiness: the first probe below the decorators.
ExecutorReadiness(config, down) ==
    IF config.backend = "remote"
    THEN RemoteReadiness(down)
    ELSE OptionalReadiness(config.backend = "container", config.allowFallback, down)

\* GET /ready: required telemetry has to be configured.
RuntimeReady(config, down) ==
    {Probe(r.ready /\ (config.required => config.database), r.secure) :
        r \in ExecutorReadiness(config, down)}
=============================================================================
