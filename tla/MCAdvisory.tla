----------------------------- MODULE MCAdvisory -----------------------------
(***************************************************************************)
(* Three skills and the requests of the Advisory run.                      *)
(***************************************************************************)
EXTENDS Advisory

\* Skills 1 and 2 share a group, 1 and 3 a bucket; 3 has its family as group.
MCCatalog ==
    <<[skill_family_id |-> 1, version |-> 1, created |-> 3, tags |-> {"fast"},
       market_context |-> [feature_family |-> 7, strategy_bucket |-> 1]],
      [skill_family_id |-> 2, version |-> 2, created |-> 2, tags |-> {},
       market_context |-> [correlation_group |-> 7, feature_family |-> 8, strategy_bucket |-> 2]],
      [skill_family_id |-> 3, version |-> 1, created |-> 1,
       tags |-> {"fast", "slow"},
       market_context |-> [correlation_group |-> 0, strategy_bucket |-> 1, regime |-> 4]]>>

ForRecommendation(tags, bucket, regime, top_k, gate) ==
    [tags |-> tags, asset_class |-> 5, strategy_bucket |-> bucket, market_regime |-> regime,
     top_k |-> top_k, require_backtest_passed |-> gate]

MCRecommendRequests ==
    {ForRecommendation({}, 0, 0, 2, FALSE), ForRecommendation({}, 0, 4, 1, TRUE),
     ForRecommendation({"fast"}, 1, 4, 3, TRUE)}

ForEnsemble(families, max, minimum) ==
    [skill_family_ids |-> families, skill_ids |-> {}, max_skills |-> max,
     minimum_agreement |-> minimum]

MCEnsembleRequests == {ForEnsemble({}, 2, 60), ForEnsemble({}, 3, 60), ForEnsemble({1, 2}, 1, 75)}

Value(n) == [type |-> "float", val |-> n]

\* Full, missing, refused and calibrated confidences, and no signal.
MCOutputs ==
    {[signal |-> "buy", confidence |-> Value(100)], [signal |-> "sell"],
     [signal |-> "sell", confidence |-> Value(90), calibrated_confidence |-> Value(20)],
     [signal |-> "buy", confidence |-> [type |-> "NoneType"]], <<>>}

\* Both sides of the limits of deltas and confidence; a text and null as guardrails.
MCPolicyRequests ==
    [learning_state : {"success", "warmup"}, confidence_score : {69, 70},
     min_confidence_to_apply : {70}, pause_threshold : {-100000},
     strategy_bucket_weights : [{"momentum"} -> {-100000, -99999, 2}],
     asset_biases : [{"SPY"} -> {-30000, -1, 0, 100000}],
     risk : [{"max_loss"} -> {-2000, -1999, 0, 5}],
     guardrails :
        {<<>>, [auto_apply |-> "true"]}
        \cup [auto_apply : {"true", "false", "text"},
              requires_human_review : {"true", "false", "text", "null"}]]
=============================================================================
