--------------------------- MODULE ShadowEnsemble ---------------------------
(***************************************************************************)
(* app/shadow_ensemble.py: which skills POST /skills/shadow-ensemble runs, *)
(* and what it makes of their signals.                                     *)
(*                                                                         *)
(* A skill is a record of its columns.  Ids, families, versions and the    *)
(* texts in its market_context are numbers in the order of the texts, 0    *)
(* being the empty text.  Signals are in lower case; numbers of an output  *)
(* are written as in SchemaContracts, in hundredths.  Weights are exact,   *)
(* where the code has floats.                                              *)
(***************************************************************************)
EXTENDS Sorting, Functions

ELIGIBLE_STAGES == {"champion", "challenger", "shadow"}
VALID_SIGNALS == {"buy", "hold", "sell"}

\* max(votes.items(), ...) takes the last in alphabetical order of equal ones.
Alphabetical == [buy |-> 1, hold |-> 2, sell |-> 3]

StageOrder == [champion |-> 0, challenger |-> 1, shadow |-> 2]

\* STAGE_WEIGHTS, in tenths, with the default for any other stage.
StageWeight(stage) ==
    CASE stage = "champion" -> 10
      [] stage = "challenger" -> 8
      [] stage = "shadow" -> 6
      [] OTHER -> 5

\* _diversity_group: the first group that the market_context names, or the family.
DiversityGroup(skill) ==
    LET keys == <<"correlation_group", "feature_family", "strategy_family">>
        named == {i \in DOMAIN keys : /\ keys[i] \in DOMAIN skill.market_context
                                      /\ skill.market_context[keys[i]] # 0}
    IN IF named = {} THEN skill.skill_family_id ELSE skill.market_context[keys[Min(named)]]

\* Candidates of a request among the listed skills; an empty filter is none.
Candidates(listed, request) ==
    {s \in listed : /\ s.deployment_stage \in ELIGIBLE_STAGES
                    /\ request.skill_family_ids # {} =>
                          s.skill_family_id \in request.skill_family_ids
                    /\ request.skill_ids # {} => s.skill_id \in request.skill_ids}

\* The key of the sort: stage, family, version, id.
SortKeyOf(skill) ==
    <<StageOrder[skill.deployment_stage], skill.skill_family_id, skill.version, skill.skill_id>>

\* The first of its group comes before all that are deferred.
Leads(skill, candidates) ==
    ~\E t \in candidates : /\ DiversityGroup(t) = DiversityGroup(skill)
                           /\ LexLess(SortKeyOf(t), SortKeyOf(skill))

\* Mutant: the groups are not looked at.
SelectSkillsInOrder(listed, request) ==
    FirstN(Sorted([s \in Candidates(listed, request) |-> SortKeyOf(s)]), request.max_skills)

\* _select_skills: the first skill of every group, then the deferred ones.
SelectSkills(listed, request) ==
    LET candidates == Candidates(listed, request)
        key == [s \in candidates |->
                   <<IF Leads(s, candidates) THEN 0 ELSE 1>> \o SortKeyOf(s)]
    IN FirstN(Sorted(key), request.max_skills)

\* The confidence of a vote: 0.5 if there is none, or float() refuses it.
VoteConfidence(output) ==
    LET named == {"calibrated_confidence", "confidence"} \cap DOMAIN output
        key == IF "calibrated_confidence" \in named THEN "calibrated_confidence" ELSE "confidence"
    IN IF named # {} /\ "val" \in DOMAIN output[key]
       THEN Max({0, Min({100, output[key].val})})
       ELSE 50

\* Executions that vote.
Voting(executions) ==
    {i \in DOMAIN executions : /\ executions[i].status = "success"
                               /\ "signal" \in DOMAIN executions[i].output
                               /\ executions[i].output.signal \in VALID_SIGNALS}

VoteWeight(execution) ==
    StageWeight(execution.deployment_stage) * VoteConfidence(execution.output)

\* votes[signal]
WeightFor(executions, signal) ==
    SumFunctionOnSet([i \in Voting(executions) |-> VoteWeight(executions[i])],
                     {i \in Voting(executions) : executions[i].output.signal = signal})

\* Mutant: the leading signal is enough.
AcceptedAlways(winning, total, minimum) == TRUE

\* agreement >= minimum_agreement, which is in hundredths.
AgreementAccepted(winning, total, minimum) == winning * 100 >= minimum * total

\* _consensus
Consensus(executions, minimum) ==
    LET weight == [s \in VALID_SIGNALS |-> WeightFor(executions, s)]
        total == weight["buy"] + weight["hold"] + weight["sell"]
        voted == {executions[i].output.signal : i \in Voting(executions)}
        leader == CHOOSE s \in voted : \A t \in voted :
                      \/ weight[s] > weight[t]
                      \/ weight[s] = weight[t] /\ Alphabetical[s] >= Alphabetical[t]
    IN CASE total = 0 -> [signal |-> "hold", state |-> "no_valid_votes"]
         [] total > 0 /\ AgreementAccepted(weight[leader], total, minimum) ->
              [signal |-> leader, state |-> "consensus"]
         [] OTHER -> [signal |-> "hold", state |-> "insufficient_agreement"]
=============================================================================
