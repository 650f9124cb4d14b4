--------------------------- MODULE ApiAuthProofs ---------------------------
(***************************************************************************)
(* Proofs about ApiAuth, for any keys and any environment: which role a    *)
(* handler asks for, which configured keys open it, and that the chain of  *)
(* fallbacks in from_env gives no key more than the operator did.          *)
(***************************************************************************)
EXTENDS ApiAuth, TLAPS

-----------------------------------------------------------------------------
(* The handlers                                                            *)

OpenPaths == {<<"health">>, <<"ready">>, <<"version">>}

\* _required_role puts every handler that changes the registry behind the admin
\* role.
LEMMA WritersNeedAdmin ==
    ASSUME NEW h \in Writers
    PROVE  /\ RequiredRole(h.method, h.path) = "admin"
           /\ h.path \notin OpenPaths /\ h.does = "writes"
<1>1. CASE \E p \in {<<"skills", "register">>, <<"curate", "performance-policy">>} :
              h = Handler("POST", p, "writes")
  BY <1>1 DEF RequiredRole, Handler, OpenPaths
<1>2. CASE \E s \in AdminSuffixes : h = Handler("POST", <<"skills", "id", s>>, "writes")
  <2>1. PICK s \in AdminSuffixes : h = Handler("POST", <<"skills", "id", s>>, "writes")
    BY <1>2
  <2>2. h.method = "POST" /\ h.path = <<"skills", "id", s>> /\ h.does = "writes"
    BY <2>1 DEF Handler
  <2>3. h.path[1] = "skills" /\ Last(h.path) = s
    BY <2>2 DEF Last
  <2>4. h.path \notin OpenPaths
    BY <2>2 DEF OpenPaths
  <2> QED
    BY <2>2, <2>3, <2>4 DEF RequiredRole
<1> QED
  BY <1>1, <1>2 DEF Writers, AdminSuffixes

\* ... every handler that runs a skill's code behind the execute role ...
LEMMA RunnersNeedExecute ==
    ASSUME NEW h \in Runners
    PROVE  /\ RequiredRole(h.method, h.path) = "execute"
           /\ h.path \notin OpenPaths /\ h.does = "runs"
<1>1. CASE h = Handler("POST", <<"skills", "id", "execute">>, "runs")
  <2>1. h.method = "POST" /\ h.path = <<"skills", "id", "execute">> /\ h.does = "runs"
    BY <1>1 DEF Handler
  <2>2. h.path[1] = "skills" /\ Last(h.path) = "execute"
    BY <2>1 DEF Last
  <2> QED
    BY <2>1, <2>2 DEF RequiredRole, OpenPaths, AdminSuffixes
<1>2. CASE h = Handler("POST", <<"skills", "shadow-ensemble">>, "runs")
  <2>1. h.method = "POST" /\ h.path = <<"skills", "shadow-ensemble">> /\ h.does = "runs"
    BY <1>2 DEF Handler
  <2>2. h.path[1] = "skills" /\ Last(h.path) = "shadow-ensemble"
    BY <2>1 DEF Last
  <2> QED
    BY <2>1, <2>2 DEF RequiredRole, OpenPaths, AdminSuffixes
<1> QED
  BY <1>1, <1>2 DEF Runners

\* ... and what only reads behind the read role.
LEMMA ReadersNeedRead ==
    ASSUME NEW h \in Readers
    PROVE  /\ RequiredRole(h.method, h.path) = "read"
           /\ h.path \notin OpenPaths /\ h.does = "reads"
<1>1. CASE h = Handler("POST", <<"skills", "recommend">>, "reads")
  <2>1. h.method = "POST" /\ h.path = <<"skills", "recommend">> /\ h.does = "reads"
    BY <1>1 DEF Handler
  <2>2. h.path[1] = "skills" /\ Last(h.path) = "recommend"
    BY <2>1 DEF Last
  <2> QED
    BY <2>1, <2>2 DEF RequiredRole, OpenPaths, AdminSuffixes
<1>2. CASE h # Handler("POST", <<"skills", "recommend">>, "reads")
  <2>1. PICK p \in {<<"skills">>, <<"skills", "search">>, <<"skills", "id">>,
                    <<"skills", "id", "backtest-status">>,
                    <<"skill-families">>, <<"skill-families", "id">>} :
            h = Handler("GET", p, "reads")
    BY <1>2 DEF Readers
  <2>2. h.method = "GET" /\ h.path = p /\ h.does = "reads"
    BY <2>1 DEF Handler
  <2>3. p \notin OpenPaths
    BY DEF OpenPaths
  <2> QED
    BY <2>2, <2>3 DEF RequiredRole
<1> QED
  BY <1>1, <1>2

\* The open handlers report.
LEMMA OpenReports ==
    ASSUME NEW h \in Open
    PROVE  h.path \in OpenPaths /\ h.does = "reports"
BY DEF Open, Handler, OpenPaths

-----------------------------------------------------------------------------
(* The keys                                                                *)

\* What from_env makes of the environment: a role's key is one that the operator
\* configured for that role, for a higher one or for all of them.
LEMMA KeysWereConfigured ==
    ASSUME NEW e \in Environments
    PROVE  /\ AdminKey(e) \in {e.admin, e.shared}
           /\ ExecuteKey(e) \in {e.execute, e.admin, e.shared}
           /\ ReadKey(e) \in {e.read, e.execute, e.admin, e.shared}
           /\ Configured(e) \subseteq Keys
           /\ Configured(e) # {} => Required(e)
BY ApiAuthAssumption
   DEF Environments, AdminKey, ExecuteKey, ReadKey, Or, Configured, Required

-----------------------------------------------------------------------------
(* The invariant                                                           *)

AuthInv ==
    /\ env \in Environments
    /\ status \in {"starting", "serving", "failed"}
    /\ status = "serving" =>
          auth = FromEnv(env) /\ ~(FromEnv(env).required /\ MissingRoles(FromEnv(env)))
    /\ \/ last = NoRequest
       \/ /\ status = "serving"
          /\ \E h \in Handlers, key \in Supplied :
                last = [handler |-> h, key |-> key, answer |-> Answer(auth, h, key)]

\* The process keeps the settings that it started with, and answers by them.
LEMMA AuthInvAlways == Spec => []AuthInv
<1>1. Init => AuthInv
  BY DEF Init, AuthInv
<1>2. AuthInv /\ [Next]_vars => AuthInv'
  <2> SUFFICES ASSUME AuthInv, [Next]_vars PROVE AuthInv'
    OBVIOUS
  <2>1. CASE Start
    <3>1. last = NoRequest
      BY <2>1 DEF Start, AuthInv
    <3> QED
      BY <2>1, <3>1 DEF Start, AuthInv
  <2>2. CASE Serve
    BY <2>2 DEF Serve, AuthInv
  <2>3. CASE UNCHANGED vars
    BY <2>3 DEF vars, AuthInv
  <2> QED
    BY <2>1, <2>2, <2>3 DEF Next
<1> QED
  BY <1>1, <1>2, PTL DEF Spec

-----------------------------------------------------------------------------
(* The theorems                                                            *)

\* No chain of fallbacks hands a key more than the operator gave it: code runs and
\* the registry changes only for a key configured for that, or for everything.
THEOREM PrivilegesWereGranted == Spec => []PrivilegeWasGranted
<1>1. ASSUME AuthInv PROVE PrivilegeWasGranted
  <2> SUFFICES ASSUME status = "serving", Configured(env) # {}, last.answer = "handled"
               PROVE  /\ last.handler.does = "writes" => last.key \in {env.admin, env.shared} \ {Unset}
                      /\ last.handler.does = "runs" =>
                            last.key \in {env.execute, env.admin, env.shared} \ {Unset}
                      /\ last.handler.does = "reads" => last.key \in Configured(env)
    BY DEF PrivilegeWasGranted, Served
  <2>1. last # NoRequest
    BY DEF NoRequest
  <2>2. PICK h \in Handlers, key \in Supplied :
            last = [handler |-> h, key |-> key, answer |-> Answer(auth, h, key)]
    BY <1>1, <2>1 DEF AuthInv
  <2>3. last.handler = h /\ last.key = key /\ Answer(auth, h, key) = "handled"
    BY <2>2
  <2>4. /\ auth.admin = AdminKey(env) /\ auth.execute = ExecuteKey(env)
        /\ auth.read = ReadKey(env) /\ auth.required
    BY <1>1, KeysWereConfigured DEF AuthInv, FromEnv
  <2>5. h.path \notin OpenPaths =>
            key \in Accepted(auth, RequiredRole(h.method, h.path)) \ {Unset}
    BY <2>3, <2>4 DEF Answer, OpenPaths
  <2>6. CASE h \in Writers
    <3>1. key = AdminKey(env) /\ key # Unset /\ h.does = "writes"
      BY <2>4, <2>5, <2>6, WritersNeedAdmin DEF Accepted
    <3> QED
      BY <1>1, <2>3, <3>1, KeysWereConfigured DEF AuthInv
  <2>7. CASE h \in Runners
    <3>1. key \in {AdminKey(env), ExecuteKey(env)} /\ key # Unset /\ h.does = "runs"
      BY <2>4, <2>5, <2>7, RunnersNeedExecute DEF Accepted
    <3> QED
      BY <1>1, <2>3, <3>1, KeysWereConfigured DEF AuthInv
  <2>8. CASE h \in Readers
    <3>1. key \in {AdminKey(env), ExecuteKey(env), ReadKey(env)} /\ key # Unset
            /\ h.does = "reads"
      BY <2>4, <2>5, <2>8, ReadersNeedRead DEF Accepted
    <3> QED
      BY <1>1, <2>3, <3>1, KeysWereConfigured DEF AuthInv, Configured
  <2>9. CASE h \in Open
    BY <2>3, <2>9, OpenReports
  <2> QED
    BY <2>6, <2>7, <2>8, <2>9 DEF Handlers
<1> QED
  BY <1>1, AuthInvAlways, PTL

\* A process that has keys, runs in production or requires them answers nobody
\* without a key, and each of its handlers opens for a configured key.
THEOREM ProtectedAndReachable == Spec => []AuthenticatedAndReachable
<1>1. ASSUME AuthInv PROVE AuthenticatedAndReachable
  <2> SUFFICES ASSUME status = "serving",
                      Configured(env) # {} \/ env.require \/ IsProduction(env),
                      NEW h \in Handlers \ Open
               PROVE  /\ Answer(auth, h, Unset) = "401"
                      /\ Answer(auth, h, Stranger) = "403"
                      /\ \E key \in Configured(env) : Answer(auth, h, key) = "handled"
    BY DEF AuthenticatedAndReachable
  <2> DEFINE role == RequiredRole(h.method, h.path)
  <2>1. h.path \notin OpenPaths
    BY WritersNeedAdmin, RunnersNeedExecute, ReadersNeedRead DEF Handlers
  <2>2. Required(env) /\ env \in Environments
    BY <1>1, KeysWereConfigured DEF AuthInv, Required
  <2>3. /\ auth.admin = AdminKey(env) /\ auth.execute = ExecuteKey(env)
        /\ auth.read = ReadKey(env) /\ auth.required
        /\ ~MissingRoles(FromEnv(env))
    BY <1>1, <2>2 DEF AuthInv, FromEnv
  <2>4. AdminKey(env) # Unset /\ ExecuteKey(env) # Unset /\ ReadKey(env) # Unset
    BY <2>3 DEF MissingRoles, Roles, FromEnv
  <2>5. {AdminKey(env), ExecuteKey(env), ReadKey(env)} \subseteq Configured(env)
    BY <2>2, <2>4, KeysWereConfigured DEF Configured
  <2>6. Accepted(auth, role) \subseteq Configured(env) /\ AdminKey(env) \in Accepted(auth, role)
    BY <2>3, <2>5 DEF Accepted
  <2>7. Stranger \notin Configured(env) /\ Stranger # Unset
    BY <2>2, KeysWereConfigured, ApiAuthAssumption
  <2>8. Answer(auth, h, Unset) = "401"
    BY <2>1, <2>3 DEF Answer, OpenPaths
  <2>9. Answer(auth, h, Stranger) = "403"
    BY <2>1, <2>3, <2>6, <2>7 DEF Answer, OpenPaths
  <2>10. Answer(auth, h, AdminKey(env)) = "handled"
    BY <2>1, <2>3, <2>4, <2>6 DEF Answer, OpenPaths
  <2> QED
    BY <2>5, <2>8, <2>9, <2>10
<1> QED
  BY <1>1, AuthInvAlways, PTL
=============================================================================
