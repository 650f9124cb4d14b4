-------------------------- MODULE PerformancePolicy --------------------------
(***************************************************************************)
(* curate_performance_policy (app/performance_policy.py): the actions that *)
(* Curator derives from the policy deltas of Learning_Agent.               *)
(*                                                                         *)
(* A request has learning_state, confidence_score and                      *)
(* min_confidence_to_apply in hundredths, pause_threshold and the deltas   *)
(* in millionths, each group of deltas a function of its targets, and the  *)
(* guardrails as the record of the values that are present.  Targets are   *)
(* unique within a group, so a set of actions stands for the list.         *)
(***************************************************************************)
EXTENDS Integers, FiniteSets

MIN_ACTION_DELTA == 1
HIGH_PRIORITY_RISK_REDUCTION == -2000

Abs(n) == IF n < 0 THEN -n ELSE n

\* bool(guardrails.get(key, default)): a text is true, whatever it says.
Guardrail(request, key, default) ==
    IF key \in DOMAIN request.guardrails THEN request.guardrails[key] \in {"true", "text"}
    ELSE default

\* Mutant: without guardrails no review is needed.
HumanReviewOnRequest(request) == Guardrail(request, "requires_human_review", FALSE)

\* _human_review_required
HumanReviewRequired(request) == Guardrail(request, "requires_human_review", TRUE)

\* _auto_apply_allowed
AutoApplyAllowed(request) ==
    /\ Guardrail(request, "auto_apply", FALSE)
    /\ ~HumanReviewRequired(request)
    /\ request.confidence_score >= request.min_confidence_to_apply

\* _priority
Priority(delta) ==
    CASE Abs(delta) >= 100000 -> "high"
      [] Abs(delta) >= 30000 /\ Abs(delta) < 100000 -> "medium"
      [] OTHER -> "low"

Action(type, target, action, delta, auto, priority) ==
    [target_type |-> type, target |-> target, action |-> action, delta |-> delta,
     auto_apply |-> auto, priority |-> priority]

\* Mutant: the sign is forgotten.
MeaningfulGains(deltas) == {t \in DOMAIN deltas : deltas[t] > MIN_ACTION_DELTA}

\* The targets of a group whose delta is worth an action.
Meaningful(deltas) == {t \in DOMAIN deltas : Abs(deltas[t]) > MIN_ACTION_DELTA}

\* _curate_strategy_bucket_actions: a pause is never applied without review.
BucketActions(request) ==
    LET deltas == request.strategy_bucket_weights IN
    {IF deltas[t] <= request.pause_threshold
     THEN Action("strategy_bucket", t, "pause_strategy_bucket", deltas[t], FALSE, "high")
     ELSE Action("strategy_bucket", t,
                 IF deltas[t] > 0 THEN "increase_weight" ELSE "decrease_weight",
                 deltas[t], AutoApplyAllowed(request), Priority(deltas[t])) :
        t \in Meaningful(deltas)}

\* _curate_symbol_actions
SymbolActions(request) ==
    LET deltas == request.asset_biases IN
    {Action("symbol", t, IF deltas[t] > 0 THEN "increase_bias" ELSE "decrease_bias",
            deltas[t], AutoApplyAllowed(request), Priority(deltas[t])) :
        t \in Meaningful(deltas)}

\* _curate_risk_actions
RiskActions(request) ==
    LET deltas == request.risk IN
    {IF deltas[t] < 0
     THEN Action("risk", t, "reduce_risk", deltas[t], FALSE,
                 IF deltas[t] <= HIGH_PRIORITY_RISK_REDUCTION THEN "high" ELSE "medium")
     ELSE Action("risk", t, "keep_observing", deltas[t], FALSE, "low") :
        t \in Meaningful(deltas)}

ReviewAction == Action("guardrail", "human_review", "require_human_review", 0, FALSE, "high")
ObserveAction == Action("guardrail", "policy", "keep_observing", 0, FALSE, "low")

\* What the deltas and the guardrails ask for, before the confidence is looked at.
ProposedActions(request) ==
    BucketActions(request) \cup SymbolActions(request) \cup RiskActions(request)
    \cup (IF HumanReviewRequired(request) THEN {ReviewAction} ELSE {})

\* curate_performance_policy
CuratePerformancePolicy(request) ==
    LET proposed == ProposedActions(request)
        confident == request.confidence_score >= request.min_confidence_to_apply
        actions == {IF confident THEN a ELSE [a EXCEPT !.auto_apply = FALSE] : a \in proposed}
    IN IF request.learning_state \in {"warmup", "insufficient_data"}
       THEN [curation_state |-> "observation_only", actions |-> {}]
       ELSE [curation_state |-> IF HumanReviewRequired(request) THEN "review_required"
                                ELSE "approved_for_review",
             actions |-> IF actions = {} THEN {ObserveAction} ELSE actions]
=============================================================================
