------------------------------ MODULE ApiAuth ------------------------------
(***************************************************************************)
(* API-key authentication of the Curator API (app/security.py): the keys   *)
(* and roles that CuratorAuthConfig.from_env derives from the environment  *)
(* when a process starts, the role that _required_role asks of a request,  *)
(* and the middleware in front of every handler.                           *)
(***************************************************************************)
EXTENDS Naturals, Sequences, FiniteSets, SequencesExt

CONSTANTS
    Keys,        \* secrets that an operator may configure
    Stranger,    \* a supplied key that is nowhere configured
    Unset,       \* an environment variable without a value, a header not sent
    Stages       \* values of APP_ENV and ENVIRONMENT besides Unset

ASSUME ApiAuthAssumption ==
    /\ Stranger \notin Keys
    /\ Unset \notin Keys \cup Stages \cup {Stranger}

Roles == {"read", "execute", "admin"}

\* Sent keys; an empty header counts as none.
Supplied == Keys \cup {Stranger, Unset}

\* The handlers of the application: method, path as its segments ("id" for a
\* path parameter) and what the handler does.
Handler(method, path, does) == [method |-> method, path |-> path, does |-> does]

Open == {Handler("GET", <<p>>, "reports") : p \in {"health", "ready", "version"}}

Readers ==
    {Handler("GET", p, "reads") :
        p \in {<<"skills">>, <<"skills", "search">>, <<"skills", "id">>,
               <<"skills", "id", "backtest-status">>,
               <<"skill-families">>, <<"skill-families", "id">>}}
    \cup {Handler("POST", <<"skills", "recommend">>, "reads")}

Runners ==
    {Handler("POST", p, "runs") :
        p \in {<<"skills", "id", "execute">>, <<"skills", "shadow-ensemble">>}}

Writers ==
    {Handler("POST", <<"skills", "id", s>>, "writes") :
        s \in {"approve", "approve-from-backtest", "deprecate", "versions",
               "promote", "rollback"}}
    \cup {Handler("POST", p, "writes") :
              p \in {<<"skills", "register">>, <<"curate", "performance-policy">>}}

Handlers == Open \cup Readers \cup Runners \cup Writers

VARIABLES
    env,       \* the environment of the process
    status,    \* "starting", "serving", or "failed" at start
    auth,      \* its CuratorAuthConfig, or Unset
    last       \* the last request and its answer

vars == <<env, status, auth, last>>

Environments ==
    [APP_ENV : Stages \cup {Unset}, ENVIRONMENT : Stages \cup {Unset},
     shared : Keys \cup {Unset}, read : Keys \cup {Unset},
     execute : Keys \cup {Unset}, admin : Keys \cup {Unset}, require : BOOLEAN]

NoRequest == [handler |-> Unset, key |-> Unset, answer |-> "none"]

-----------------------------------------------------------------------------
(* Settings                                                                *)

\* Python's "or" on strings: the second if the first is empty.
Or(a, b) == IF a # Unset THEN a ELSE b

\* APP_ENV, and ENVIRONMENT only when APP_ENV is not set at all.
IsProduction(e) == Or(e.APP_ENV, e.ENVIRONMENT) = "production"

AdminKey(e) == Or(e.admin, e.shared)

\* Mutant: the role without a key of its own takes the next lower one's.
ExecuteKeyFromRead(e) == Or(e.execute, Or(e.shared, Or(e.read, AdminKey(e))))

ExecuteKey(e) == Or(e.execute, Or(e.shared, AdminKey(e)))

ReadKey(e) == Or(e.read, Or(e.shared, Or(ExecuteKey(e), AdminKey(e))))

Required(e) ==
    IsProduction(e) \/ e.require \/ {ReadKey(e), ExecuteKey(e), AdminKey(e)} # {Unset}

FromEnv(e) ==
    [read |-> ReadKey(e), execute |-> ExecuteKey(e), admin |-> AdminKey(e),
     required |-> Required(e)]

\* Mutant: one effective key is enough to start.
MissingAllRoles(c) == \A r \in Roles : c[r] = Unset

\* from_env raises: a role has no effective key.
MissingRoles(c) == \E r \in Roles : c[r] = Unset

Init ==
    /\ env \in Environments
    /\ status = "starting"
    /\ auth = Unset
    /\ last = NoRequest

\* attach_api_key_auth at the end of create_app.
Start ==
    /\ status = "starting"
    /\ \/ /\ FromEnv(env).required /\ MissingRoles(FromEnv(env))
          /\ status' = "failed"
          /\ UNCHANGED auth
       \/ /\ ~(FromEnv(env).required /\ MissingRoles(FromEnv(env)))
          /\ status' = "serving"
          /\ auth' = FromEnv(env)
    /\ UNCHANGED <<env, last>>

-----------------------------------------------------------------------------
(* Requests                                                                *)

AdminSuffixes == {"approve", "approve-from-backtest", "deprecate", "versions",
                  "promote", "rollback"}

\* _required_role for the paths that are not open.
RequiredRole(method, path) ==
    IF /\ method = "POST"
       /\ \/ path \in {<<"skills", "register">>, <<"curate", "performance-policy">>}
          \/ path[1] = "skills" /\ Last(path) \in AdminSuffixes
    THEN "admin"
    ELSE IF method = "POST" /\ (path = <<"skills", "shadow-ensemble">> \/ Last(path) = "execute")
    THEN "execute"
    ELSE "read"

\* _authorized: the keys that open a role.
Accepted(c, role) ==
    {c.admin}
    \cup (IF role \in {"read", "execute"} THEN {c.execute} ELSE {})
    \cup (IF role = "read" THEN {c.read} ELSE {})

\* The middleware: the handler runs, or 401 or 403.
Answer(c, h, key) ==
    IF \/ h.path \in {<<"health">>, <<"ready">>, <<"version">>}
       \/ ~c.required
    THEN "handled"
    ELSE IF key = Unset THEN "401"
    ELSE IF key \in Accepted(c, RequiredRole(h.method, h.path)) \ {Unset}
    THEN "handled"
    ELSE "403"

Serve ==
    /\ status = "serving"
    /\ \E h \in Handlers, key \in Supplied :
          last' = [handler |-> h, key |-> key, answer |-> Answer(auth, h, key)]
    /\ UNCHANGED <<env, status, auth>>

Next == Start \/ Serve

Spec == Init /\ [][Next]_vars

-----------------------------------------------------------------------------
(* Properties                                                              *)

Served(does) == last.answer = "handled" /\ last.handler.does = does

Configured(e) == {e.shared, e.read, e.execute, e.admin} \ {Unset}

\* With a key configured, code runs and the registry changes only for a key that
\* the operator gave out for it, or for everything: no chain of fallbacks hands a
\* read key more (docs/AUTHENTICATION.md: "A read key cannot execute code or mutate
\* lifecycle state").
PrivilegeWasGranted ==
    status = "serving" /\ Configured(env) # {} =>
        /\ Served("writes") => last.key \in {env.admin, env.shared} \ {Unset}
        /\ Served("runs") =>
              last.key \in {env.execute, env.admin, env.shared} \ {Unset}
        /\ Served("reads") => last.key \in Configured(env)

\* A process that has keys, or runs in production, or was told to require them,
\* serves nobody without a key, and has a key for each of its handlers
\* (from_env fails the start otherwise).
AuthenticatedAndReachable ==
    /\ status = "serving"
    /\ last = NoRequest
    /\ Configured(env) # {} \/ env.require \/ IsProduction(env)
    => \A h \in Handlers \ Open :
           /\ Answer(auth, h, Unset) = "401"
           /\ Answer(auth, h, Stranger) = "403"
           /\ \E key \in Configured(env) : Answer(auth, h, key) = "handled"
=============================================================================
