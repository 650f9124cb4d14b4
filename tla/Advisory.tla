------------------------------ MODULE Advisory ------------------------------
(***************************************************************************)
(* The advisory endpoints of one API process: POST /skills/recommend,      *)
(* POST /skills/shadow-ensemble and POST /curate/performance-policy.       *)
(*                                                                         *)
(* A recommendation lists the skills once and works on that list; the      *)
(* ensemble selects from a list and then reads and runs one skill after    *)
(* the other, while other processes approve, promote and deprecate skills. *)
(***************************************************************************)
EXTENDS Recommendations, ShadowEnsemble, PerformancePolicy

CONSTANTS
    Catalog,            \* the validated skills: columns that never change, by id
    Stages,             \* deployment stages of interest
    RecommendRequests,  \* requests for recommendations, ...
    EnsembleRequests,   \* ... for ensembles ...
    PolicyRequests,     \* ... and for the curation of a policy
    Scores,             \* skill_scores that Database_Agent may report
    Outputs,            \* outputs of a skill that succeeds
    MaxChanges          \* bound on changes by other processes during a request

Ids == DOMAIN Catalog

ASSUME AdvisoryAssumption ==
    /\ IsFiniteSet(Ids)
    /\ Ids \subseteq Int
    /\ \A i \in Ids : /\ Catalog[i].skill_family_id \in Int
                      /\ Catalog[i].version \in Int
                      /\ Catalog[i].created \in Int
    /\ \A i, j \in Ids : Catalog[i].created = Catalog[j].created => i = j
    /\ Stages \subseteq {"candidate", "shadow", "challenger", "champion", "retired"}
    /\ Scores \subseteq Int
    /\ MaxChanges \in Nat

\* The limits that the request models put on the fields.
ASSUME RequestAssumption ==
    /\ \A r \in RecommendRequests : r.top_k \in Nat \ {0}
    /\ \A r \in EnsembleRequests : /\ r.max_skills \in Nat \ {0}
                                   /\ r.minimum_agreement \in 0..100
    /\ \A r \in PolicyRequests :
          /\ r.confidence_score \in Int /\ r.min_confidence_to_apply \in Int
          /\ r.pause_threshold \in Int /\ r.pause_threshold <= 0
          /\ r.strategy_bucket_weights \in [DOMAIN r.strategy_bucket_weights -> Int]
          /\ r.asset_biases \in [DOMAIN r.asset_biases -> Int]
          /\ r.risk \in [DOMAIN r.risk -> Int]

\* A confidence that float() accepts is a number.
ASSUME OutputAssumption ==
    \A output \in Outputs :
        \A key \in {"calibrated_confidence", "confidence"} \cap DOMAIN output :
            "val" \in DOMAIN output[key] => output[key].val \in Int

VARIABLES
    rows,       \* approval and stage of every skill
    pc,         \* "idle", "running" an ensemble, or "answered"
    request,    \* the request that is being served
    listed,     \* the skills as the request listed them
    chosen,     \* ids of an ensemble, in the order of their runs
    executions, \* the runs of the ensemble so far
    answer,
    changes     \* changes by other processes since the request came

vars == <<rows, pc, request, listed, chosen, executions, answer, changes>>

Nothing == [kind |-> "none"]

RowStates ==
    [approved : {TRUE}, stage : Stages] \cup [approved : {FALSE}, stage : {"retired"}]

\* A skill as registry.list and registry.get return it.
Record(i, row) ==
    [skill_id |-> i, deployment_stage |-> row.stage,
     skill_family_id |-> Catalog[i].skill_family_id, version |-> Catalog[i].version,
     created |-> Catalog[i].created, tags |-> Catalog[i].tags,
     market_context |-> Catalog[i].market_context]

\* registry.list(validation_status="validated", approval_status="approved")
ListApproved == {Record(i, rows[i]) : i \in {j \in Ids : rows[j].approved}}

Init ==
    /\ rows \in [Ids -> RowStates]
    /\ pc = "idle"
    /\ request = Nothing
    /\ listed = {}
    /\ chosen = <<>>
    /\ executions = <<>>
    /\ answer = Nothing
    /\ changes = 0

-----------------------------------------------------------------------------
\* The rankings that Database_Agent may return: empty if it is not there.
Rankings == UNION {[known -> Scores] : known \in SUBSET Ids}

\* POST /skills/recommend: the list, the ranking, the backtest of every skill.
Recommend ==
    /\ pc = "idle"
    /\ request' \in RecommendRequests
    /\ listed' = ListApproved
    /\ \E ranking \in Rankings, passed \in SUBSET Ids :
          answer' = [kind |-> "recommendation", ranking |-> ranking, passed |-> passed,
                     response |-> RecommendSkills(listed', request', ranking, passed)]
    /\ pc' = "answered"
    /\ UNCHANGED <<rows, chosen, executions, changes>>

\* POST /curate/performance-policy
CuratePolicy ==
    /\ pc = "idle"
    /\ request' \in PolicyRequests
    /\ answer' = [kind |-> "policy", response |-> CuratePerformancePolicy(request')]
    /\ pc' = "answered"
    /\ UNCHANGED <<rows, listed, chosen, executions, changes>>

\* POST /skills/shadow-ensemble: 404 if there is nothing to run.
SelectEnsemble ==
    /\ pc = "idle"
    /\ request' \in EnsembleRequests
    /\ listed' = ListApproved
    /\ LET selected == SelectSkills(listed', request') IN
          /\ chosen' = [i \in DOMAIN selected |-> selected[i].skill_id]
          /\ IF selected = <<>>
             THEN pc' = "answered" /\ answer' = [kind |-> "not_found"]
             ELSE pc' = "running" /\ UNCHANGED answer
    /\ UNCHANGED <<rows, executions, changes>>

\* What executor.execute returns: an output, or none.
Results == [status : {"success"}, output : Outputs] \cup {[status |-> "failed", output |-> <<>>]}

\* An entry of the executions.
Execution(i, row, result) ==
    [skill_id |-> i, deployment_stage |-> row.stage,
     diversity_group |-> DiversityGroup(Record(i, row)),
     status |-> result.status, output |-> result.output]

\* The next skill of the ensemble is read again, and run, as it is now.
RunNext ==
    /\ pc = "running"
    /\ Len(executions) < Len(chosen)
    /\ LET i == chosen[Len(executions) + 1] IN
       \E result \in Results : executions' = Append(executions, Execution(i, rows[i], result))
    /\ UNCHANGED <<rows, pc, request, listed, chosen, answer, changes>>

AnswerEnsemble ==
    /\ pc = "running"
    /\ Len(executions) = Len(chosen)
    /\ answer' = [kind |-> "ensemble",
                  groups |-> {executions[i].diversity_group : i \in DOMAIN executions},
                  consensus |-> Consensus(executions, request.minimum_agreement)]
    /\ pc' = "answered"
    /\ UNCHANGED <<rows, request, listed, chosen, executions, changes>>

\* The answer is out; the endpoints keep nothing between requests.
Deliver ==
    /\ pc = "answered"
    /\ pc' = "idle"
    /\ request' = Nothing
    /\ listed' = {}
    /\ chosen' = <<>>
    /\ executions' = <<>>
    /\ answer' = Nothing
    /\ changes' = 0
    /\ UNCHANGED rows

\* registry.deprecate
Deprecated(row) == [approved |-> FALSE, stage |-> "retired"]

\* Another process approves, deprecates or promotes a skill, or replaces it.
ChangeRow ==
    /\ pc = "running"
    /\ changes < MaxChanges
    /\ \E i \in Ids :
          /\ \/ ~rows[i].approved /\ rows' = [rows EXCEPT ![i].approved = TRUE]
             \/ rows' = [rows EXCEPT ![i] = Deprecated(rows[i])]
             \/ /\ rows[i].approved
                /\ \E stage \in Stages : rows' = [rows EXCEPT ![i].stage = stage]
          /\ rows' # rows
    /\ changes' = changes + 1
    /\ UNCHANGED <<pc, request, listed, chosen, executions, answer>>

Next ==
    \/ Recommend \/ CuratePolicy
    \/ SelectEnsemble \/ RunNext \/ AnswerEnsemble
    \/ Deliver \/ ChangeRow

Spec == Init /\ [][Next]_vars

-----------------------------------------------------------------------------
(* Properties                                                              *)

\* A recommendation accounts for every skill that matched: recommended or rejected,
\* once; with the gate on, whatever is recommended has passed its backtest
\* (rejected_count over the gate and the cut at top_k).
RecommendationAccounts ==
    answer.kind = "recommendation" =>
        LET response == answer.response
            recommended == response.recommended
            ids == {recommended[i].skill_id : i \in DOMAIN recommended}
        IN /\ Cardinality(ids) = Len(recommended)
           /\ Len(recommended) + response.rejected_count
                  = Cardinality(Matching(listed, request))
           /\ Len(recommended) <= request.top_k
           /\ request.require_backtest_passed => ids \subseteq answer.passed
           /\ response.state \in {"no_approved_skills", "no_backtest_passed_skills"}
                  <=> ids = {}

\* s has more evidence than t: both have a score above 0 in the ranking, the one of
\* s is higher, and nothing else that the score looks at tells them apart.
MoreEvidence(s, t) ==
    /\ {s.skill_id, t.skill_id} \subseteq DOMAIN answer.ranking
    /\ answer.ranking[t.skill_id] > 0
    /\ answer.ranking[s.skill_id] > answer.ranking[t.skill_id]
    /\ Champion(s) <=> Champion(t)
    /\ s.skill_id \in answer.passed <=> t.skill_id \in answer.passed

\* A recommended skill never keeps one with more evidence behind it, or out, unless
\* the cap on scores makes them equal (the sort after the bonus points).
EvidenceOrders ==
    answer.kind = "recommendation" =>
        LET recommended == answer.response.recommended
            matching == Matching(listed, request)
        IN \A i \in DOMAIN recommended, s \in matching, t \in matching :
              recommended[i].skill_id = t.skill_id /\ MoreEvidence(s, t) =>
                  \/ \E j \in 1..(i - 1) : recommended[j].skill_id = s.skill_id
                  \/ recommended[i].score = 100

\* The skills of an ensemble are as many as can be and as diverse as can be: two
\* share a group only if every group among the candidates is in it, and a candidate
\* of a better stage is left out only for a group that would be missing
\* (_select_skills with its deferred skills).
EnsembleIsDiverse ==
    chosen # <<>> =>
        LET candidates == Candidates(listed, request)
            selected == {s \in candidates : s.skill_id \in Range(chosen)}
            groups(skills) == {DiversityGroup(s) : s \in skills}
        IN /\ Cardinality(selected) = Min({request.max_skills, Cardinality(candidates)})
           /\ Len(chosen) = Cardinality(selected)
           /\ Cardinality(groups(selected)) = Min({Len(chosen), Cardinality(groups(candidates))})
           /\ \A s \in selected, t \in candidates \ selected :
                 StageOrder[t.deployment_stage] < StageOrder[s.deployment_stage] =>
                     DiversityGroup(s) \notin groups(selected \ {s})

\* A signal other than hold is trusted only with the asked share of the weight of
\* all skills that gave a signal; a skill weighs at most what the stage in which it
\* was run allows, and one that was run outside the eligible stages at most half
\* (_consensus over the rows that were read again).
TrustedSignalIsBacked ==
    answer.kind = "ensemble" /\ answer.consensus.signal # "hold" =>
        LET signal == answer.consensus.signal
            gave(signals) == {i \in DOMAIN executions :
                                 /\ executions[i].status = "success"
                                 /\ "signal" \in DOMAIN executions[i].output
                                 /\ executions[i].output.signal \in signals}
            most == [i \in DOMAIN executions |->
                        CASE executions[i].deployment_stage = "champion" -> 1000
                          [] executions[i].deployment_stage = "challenger" -> 800
                          [] executions[i].deployment_stage = "shadow" -> 600
                          [] OTHER -> 500]
            weight == [i \in DOMAIN executions |-> VoteWeight(executions[i])]
            backed == SumFunctionOnSet(most, gave({signal}))
            against == SumFunctionOnSet(weight, gave(VALID_SIGNALS \ {signal}))
        IN /\ gave({signal}) # {}
           /\ 100 * backed >= request.minimum_agreement * (backed + against)

\* Nothing is applied without review unless Learning_Agent said, in so many words,
\* that no review is needed and that it may be applied, with enough confidence; a
\* strategy is never paused, and a risk never changed, that way
\* (curate_performance_policy).
AutoApplyIsCleared ==
    answer.kind = "policy" =>
        \A a \in answer.response.actions : a.auto_apply =>
            /\ {"auto_apply", "requires_human_review"} \subseteq DOMAIN request.guardrails
            /\ request.confidence_score >= request.min_confidence_to_apply
            /\ answer.response.curation_state = "approved_for_review"
            /\ a.target_type \in {"strategy_bucket", "symbol"}
            /\ a.target_type = "strategy_bucket" => a.delta > request.pause_threshold

\* Every delta above the minimum leads to one action in its direction, all others
\* to none, except while Learning_Agent is warming up
\* (the three loops of curate_performance_policy).
DeltasAccounted ==
    answer.kind = "policy" /\ answer.response.curation_state # "observation_only" =>
        LET actions == answer.response.actions
            groups == [strategy_bucket |-> request.strategy_bucket_weights,
                       symbol |-> request.asset_biases, risk |-> request.risk]
            lowering == {"decrease_weight", "pause_strategy_bucket", "decrease_bias",
                         "reduce_risk"}
            for(type, t) == {a \in actions : a.target_type = type /\ a.target = t}
        IN /\ actions # {}
           /\ \A type \in {"strategy_bucket", "symbol", "risk"} :
                 \A t \in DOMAIN groups[type] :
                    IF Abs(groups[type][t]) <= 1 THEN for(type, t) = {}
                    ELSE /\ Cardinality(for(type, t)) = 1
                         /\ \A a \in for(type, t) :
                               /\ a.delta = groups[type][t]
                               /\ groups[type][t] < 0 <=> a.action \in lowering
=============================================================================
