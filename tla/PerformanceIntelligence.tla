----------------------- MODULE PerformanceIntelligence -----------------------
(***************************************************************************)
(* app/performance_intelligence.py: what the history that Database_Agent   *)
(* has of a skill says of its confidence and of its health.                *)
(*                                                                         *)
(* A history is a function from the keys it has to values, written as in   *)
(* SchemaContracts: numbers are in hundredths.  A fraction stays one, as   *)
(* <<numerator, denominator>>; the code rounds it to six places.           *)
(***************************************************************************)
EXTENDS Integers, Sequences, SequencesExt, FiniteSetsExt

_SAMPLE_KEYS ==
    <<"sample_size", "total_executions", "execution_count", "observations",
      "trade_count", "closed_trades">>
_RELIABILITY_KEYS == <<"precision", "accuracy", "hit_rate", "win_rate", "success_rate">>
_SCORE_KEYS == <<"skill_score", "performance_score", "score">>
_PROFIT_FACTOR_KEYS == <<"profit_factor", "latest_profit_factor">>

\* float(value) works, and value is not a bool.
IsNumber(value) == value.type # "bool" /\ "val" \in DOMAIN value

\* _first_number: the number as a set, which is empty for None.
FirstNumber(payload, keys) ==
    LET found == {i \in DOMAIN keys : keys[i] \in DOMAIN payload /\ IsNumber(payload[keys[i]])}
    IN {payload[keys[i]].val : i \in {j \in found : \A k \in found : j <= k}}

Clamped(n, low, high) == Max({low, Min({high, n})})

\* Mutant: 1.0 counts as one percent.
NormalizeRatePercentFromOne(value) ==
    {Clamped(IF n >= 100 /\ n <= 10000 THEN n \div 100 ELSE n, 0, 100) : n \in value}

\* _normalize_rate: a number above 1.0 and up to 100.0 is a percentage.
NormalizeRate(value) ==
    {Clamped(IF n > 100 /\ n <= 10000 THEN n \div 100 ELSE n, 0, 100) : n \in value}

SampleSize(performance) ==
    Max({0} \cup {n \div 100 : n \in FirstNumber(performance, _SAMPLE_KEYS)})

Reliability(performance) == NormalizeRate(FirstNumber(performance, _RELIABILITY_KEYS))

\* Mutant: the weights are the wrong way round.
BlendReversed(raw, reliability, n, prior) == <<raw * n + reliability * prior, n + prior>>

\* The raw confidence with weight prior, the reliability with weight n.
Blend(raw, reliability, n, prior) == <<raw * prior + reliability * n, n + prior>>

PriorStrength == 30

\* calibrated_confidence of a confidence that is in the output, as a set.
CalibrateConfidence(confidence, performance) ==
    LET raw == Clamped(confidence.val, 0, 100)
        n == SampleSize(performance)
        reliability == Reliability(performance)
    IN CASE "val" \notin DOMAIN confidence -> {}
         [] "val" \in DOMAIN confidence /\ (reliability = {} \/ n = 0) -> {<<raw, 1>>}
         [] OTHER -> {Blend(raw, r, n, PriorStrength) : r \in reliability}

MinimumSampleSize == 30

\* There is a metric, and it is below the limit.
Below(metric, limit) == \E n \in metric : n < limit

\* The health that assess_performance_decay finds; what it recommends follows.
AssessPerformanceDecay(performance) ==
    LET reliability == Reliability(performance)
        skill_score == NormalizeRate(FirstNumber(performance, _SCORE_KEYS))
        profit_factor == FirstNumber(performance, _PROFIT_FACTOR_KEYS)
        observed == SampleSize(performance) >= MinimumSampleSize
        severe == Below(reliability, 35) \/ Below(skill_score, 35) \/ Below(profit_factor, 80)
        degraded == Below(reliability, 48) \/ Below(skill_score, 50) \/ Below(profit_factor, 100)
    IN CASE ~observed -> "insufficient_data"
         [] observed /\ severe -> "critical"
         [] observed /\ ~severe /\ degraded -> "degraded"
         [] OTHER -> "healthy"
=============================================================================
