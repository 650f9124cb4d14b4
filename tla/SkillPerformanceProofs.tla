----------------------- MODULE SkillPerformanceProofs -----------------------
(***************************************************************************)
(* Proofs about what PerformanceAwareExecutor adds to a result, for any    *)
(* history and any output: the effective confidence and the health follow  *)
(* the record of the skill, in whichever unit it is kept.                  *)
(***************************************************************************)
EXTENDS SkillExecutionProofs

-----------------------------------------------------------------------------
(* Calibration and decay                                                   *)

\* A history with one reliability, and rates from 0 to 1.
HistoryShape(h) ==
    /\ h = [samples |-> h.samples, metrics |-> h.metrics, unit |-> h.unit]
    /\ h.samples \in Nat
    /\ DOMAIN h.metrics \subseteq {"win_rate", "skill_score", "profit_factor"}
    /\ \A k \in DOMAIN h.metrics : h.metrics[k] \in Nat
    /\ \A k \in DOMAIN h.metrics \ {"profit_factor"} : h.metrics[k] <= 100

\* What is within the bounds is left as it is.
LEMMA ClampedRate ==
    ASSUME NEW n \in 0..100
    PROVE  Clamped(n, 0, 100) = n
<1>1. Min({100, n}) = n
  BY DEF Min
<1>2. Max({0, n}) = n
  BY DEF Max
<1> QED
  BY <1>1, <1>2 DEF Clamped

\* A rate is itself, in either unit, if it cannot be mistaken.
LEMMA NormalizedRate ==
    ASSUME NEW n \in 0..100
    PROVE  /\ NormalizeRate({n}) = {n}
           /\ n > 1 => NormalizeRate({100 * n}) = {n}
<1>1. NormalizeRate({n}) = {Clamped(n, 0, 100)}
  BY DEF NormalizeRate
<1>2. ASSUME n > 1 PROVE NormalizeRate({100 * n}) = {Clamped(n, 0, 100)}
  <2>1. 100 * n > 100 /\ 100 * n <= 10000 /\ (100 * n) \div 100 = n
    BY <1>2
  <2> QED
    BY <2>1 DEF NormalizeRate
<1> QED
  BY <1>1, <1>2, ClampedRate

\* _first_number finds the first of the keys that has a number, ...
LEMMA FirstOf ==
    ASSUME NEW payload, NEW keys, NEW i \in DOMAIN keys, DOMAIN keys \subseteq Nat,
           keys[i] \in DOMAIN payload, IsNumber(payload[keys[i]]),
           \A j \in DOMAIN keys :
               keys[j] \in DOMAIN payload /\ IsNumber(payload[keys[j]]) => i <= j
    PROVE  FirstNumber(payload, keys) = {payload[keys[i]].val}
<1> DEFINE found == {j \in DOMAIN keys : keys[j] \in DOMAIN payload /\ IsNumber(payload[keys[j]])}
           first == {j \in found : \A k \in found : j <= k}
<1>1. FirstNumber(payload, keys) = {payload[keys[j]].val : j \in first}
  BY DEF FirstNumber
<1>2. i \in found /\ \A k \in found : k \in Nat /\ i <= k
  OBVIOUS
<1> HIDE DEF found
<1>3. first = {i}
  BY <1>2
<1> QED
  BY <1>1, <1>3

\* ... or nothing.
LEMMA NoneOf ==
    ASSUME NEW payload, NEW keys,
           \A j \in DOMAIN keys : ~(keys[j] \in DOMAIN payload /\ IsNumber(payload[keys[j]]))
    PROVE  FirstNumber(payload, keys) = {}
BY DEF FirstNumber

\* The row of the ranking, key by key.
LEMMA RankedFacts ==
    ASSUME NEW h
    PROVE  LET row == Ranked(h) IN
           /\ DOMAIN row = DOMAIN h.metrics \cup {"total_executions", "sample_size"}
           /\ row["total_executions"] = [type |-> "int", val |-> 100 * h.samples]
           /\ row["sample_size"] = [type |-> "NoneType"]
           /\ \A k \in DOMAIN h.metrics \ {"total_executions", "sample_size"} :
                 row[k] = [type |-> "float",
                           val |-> IF h.unit = "percent" /\ k # "profit_factor"
                                   THEN 100 * h.metrics[k] ELSE h.metrics[k]]
<1> DEFINE row == Ranked(h)
           A == [type |-> "int", val |-> 100 * h.samples]
           B == [type |-> "NoneType"]
           C(k) == [type |-> "float",
                    val |-> IF h.unit = "percent" /\ k # "profit_factor"
                            THEN 100 * h.metrics[k] ELSE h.metrics[k]]
           D(k) == CASE k = "total_executions" -> A [] k = "sample_size" -> B [] OTHER -> C(k)
<1>1. row = [k \in DOMAIN h.metrics \cup {"total_executions", "sample_size"} |-> D(k)]
  BY Zenon DEF Ranked
<1>2. D("total_executions") = A
  BY Zenon
<1>3. D("sample_size") = B
  <2>1. "sample_size" # "total_executions"
    OBVIOUS
  <2> QED
    BY <2>1, Zenon
<1>4. \A k : k \notin {"total_executions", "sample_size"} => D(k) = C(k)
  BY Zenon
<1> HIDE DEF A, B, C, D, row
<1>5. /\ DOMAIN row = DOMAIN h.metrics \cup {"total_executions", "sample_size"}
      /\ \A k \in DOMAIN row : row[k] = D(k)
  BY <1>1
<1>6. row["total_executions"] = A /\ row["sample_size"] = B
  BY <1>2, <1>3, <1>5
<1>7. \A k \in DOMAIN h.metrics \ {"total_executions", "sample_size"} : row[k] = C(k)
  BY <1>4, <1>5
<1> QED
  BY <1>5, <1>6, <1>7 DEF A, B, C, row

\* Which entries of the row are numbers.
LEMMA RankedNumbers ==
    ASSUME NEW h, HistoryShape(h)
    PROVE  LET row == Ranked(h) IN
           /\ IsNumber(row["total_executions"]) /\ row["total_executions"].val = 100 * h.samples
           /\ ~IsNumber(row["sample_size"])
           /\ \A k \in DOMAIN h.metrics :
                 /\ k \in DOMAIN row /\ IsNumber(row[k])
                 /\ row[k].val = IF h.unit = "percent" /\ k # "profit_factor"
                                 THEN 100 * h.metrics[k] ELSE h.metrics[k]
<1> DEFINE row == Ranked(h)
<1>1. row["total_executions"] = [type |-> "int", val |-> 100 * h.samples]
  BY RankedFacts
<1>2. row["sample_size"] = [type |-> "NoneType"]
  BY RankedFacts
<1>3. \A k \in DOMAIN h.metrics : k \notin {"total_executions", "sample_size"}
  BY DEF HistoryShape
<1>4. \A k \in DOMAIN h.metrics :
          row[k] = [type |-> "float", val |-> IF h.unit = "percent" /\ k # "profit_factor"
                                              THEN 100 * h.metrics[k] ELSE h.metrics[k]]
  BY <1>3, RankedFacts
<1>5. DOMAIN row = DOMAIN h.metrics \cup {"total_executions", "sample_size"}
  BY RankedFacts
<1> HIDE DEF row
<1>6. IsNumber(row["total_executions"]) /\ row["total_executions"].val = 100 * h.samples
  BY <1>1 DEF IsNumber
<1>7. ~IsNumber(row["sample_size"])
  BY <1>2 DEF IsNumber
<1>8. \A k \in DOMAIN h.metrics :
          /\ k \in DOMAIN row /\ IsNumber(row[k])
          /\ row[k].val = IF h.unit = "percent" /\ k # "profit_factor"
                          THEN 100 * h.metrics[k] ELSE h.metrics[k]
  <2> TAKE k \in DOMAIN h.metrics
  <2> DEFINE v == IF h.unit = "percent" /\ k # "profit_factor"
                  THEN 100 * h.metrics[k] ELSE h.metrics[k]
  <2>1. row[k] = [type |-> "float", val |-> v] /\ k \in DOMAIN row
    BY <1>4, <1>5
  <2> HIDE DEF v
  <2>2. k \in DOMAIN row /\ IsNumber(row[k]) /\ row[k].val = v
    BY <2>1 DEF IsNumber
  <2> QED
    BY <2>2 DEF v
<1> QED
  BY <1>6, <1>7, <1>8 DEF row

\* _sample_size finds the number of executions.
LEMMA SamplesFound ==
    ASSUME NEW h, HistoryShape(h)
    PROVE  SampleSize(Ranked(h)) = h.samples
<1> DEFINE row == Ranked(h)
<1>1. /\ DOMAIN row \subseteq {"win_rate", "skill_score", "profit_factor",
                              "total_executions", "sample_size"}
      /\ "total_executions" \in DOMAIN row
  <2>1. DOMAIN row = DOMAIN h.metrics \cup {"total_executions", "sample_size"}
    BY RankedFacts
  <2> QED
    BY <2>1 DEF HistoryShape
<1>2. /\ IsNumber(row["total_executions"]) /\ row["total_executions"].val = 100 * h.samples
      /\ ~IsNumber(row["sample_size"])
  BY RankedNumbers
<1> HIDE DEF row
<1>3. /\ DOMAIN _SAMPLE_KEYS = 1..6 /\ _SAMPLE_KEYS[1] = "sample_size"
      /\ _SAMPLE_KEYS[2] = "total_executions" /\ 2 \in DOMAIN _SAMPLE_KEYS
  BY DEF _SAMPLE_KEYS
<1>4. \A j \in DOMAIN _SAMPLE_KEYS :
          _SAMPLE_KEYS[j] \in DOMAIN row /\ IsNumber(row[_SAMPLE_KEYS[j]]) => 2 <= j
  BY <1>2, <1>3
<1>5. FirstNumber(row, _SAMPLE_KEYS) = {100 * h.samples}
  <2>1. FirstNumber(row, _SAMPLE_KEYS) = {row[_SAMPLE_KEYS[2]].val}
    BY <1>1, <1>2, <1>3, <1>4, FirstOf
  <2> QED
    BY <1>2, <1>3, <2>1
<1>6. h.samples \in Nat /\ (100 * h.samples) \div 100 = h.samples
  BY DEF HistoryShape
<1>7. {n \div 100 : n \in FirstNumber(row, _SAMPLE_KEYS)} = {h.samples}
  BY <1>5, <1>6
<1>8. Max({0} \cup {h.samples}) = h.samples
  BY <1>6 DEF Max
<1> QED
  BY <1>7, <1>8 DEF SampleSize, row

\* The metric k of a history, as a set.
Metric(h, k) == IF k \in DOMAIN h.metrics THEN {h.metrics[k]} ELSE {}

\* The same as the ranking has it, in the unit of the history.
Reading(h, k) ==
    IF k \in DOMAIN h.metrics
    THEN {IF h.unit = "percent" /\ k # "profit_factor" THEN 100 * h.metrics[k]
          ELSE h.metrics[k]}
    ELSE {}

\* Of keys that name the metric k and no other one, the number is k's.
LEMMA MetricFound ==
    ASSUME NEW h, HistoryShape(h), NEW k \in {"win_rate", "skill_score", "profit_factor"},
           NEW keys, NEW i \in DOMAIN keys, DOMAIN keys \subseteq Nat, keys[i] = k,
           \A j \in DOMAIN keys \ {i} :
               keys[j] \notin {"win_rate", "skill_score", "profit_factor",
                              "total_executions", "sample_size"}
    PROVE  FirstNumber(Ranked(h), keys) = Reading(h, k)
<1> DEFINE row == Ranked(h)
<1>1. DOMAIN row = DOMAIN h.metrics \cup {"total_executions", "sample_size"}
  BY RankedFacts
<1>2. DOMAIN row \subseteq {"win_rate", "skill_score", "profit_factor",
                           "total_executions", "sample_size"}
  BY <1>1 DEF HistoryShape
<1>3. \A j \in DOMAIN keys : keys[j] \in DOMAIN row => j = i /\ i <= j
  BY <1>2
<1>4. CASE k \in DOMAIN h.metrics
  <2> DEFINE v == IF h.unit = "percent" /\ k # "profit_factor"
                  THEN 100 * h.metrics[k] ELSE h.metrics[k]
  <2>1. k \in DOMAIN row /\ IsNumber(row[k]) /\ row[k].val = v
    BY <1>4, RankedNumbers
  <2> HIDE DEF row, v
  <2>2. FirstNumber(row, keys) = {v}
    BY <1>3, <2>1, FirstOf
  <2> QED
    BY <1>4, <2>2 DEF row, v, Reading
<1>5. CASE k \notin DOMAIN h.metrics
  <2>1. k \notin DOMAIN row
    BY <1>1, <1>5
  <2> HIDE DEF row
  <2>2. FirstNumber(row, keys) = {}
    BY <1>3, <2>1, NoneOf
  <2> QED
    BY <1>5, <2>2 DEF row, Reading
<1> QED
  BY <1>4, <1>5

\* Whatever its unit, the rates of a history are found if they cannot be mistaken.
LEMMA RateFound ==
    ASSUME NEW h, HistoryShape(h), Unmistakable(h), NEW k \in {"win_rate", "skill_score"}
    PROVE  NormalizeRate(Reading(h, k)) = Metric(h, k)
<1>1. CASE k \notin DOMAIN h.metrics
  BY <1>1 DEF Metric, Reading, NormalizeRate
<1>2. CASE k \in DOMAIN h.metrics
  <2>1. k # "profit_factor" /\ h.metrics[k] \in 0..100
    BY <1>2 DEF HistoryShape
  <2>2. h.unit = "percent" => h.metrics[k] > 1
    BY <1>2, <2>1 DEF Unmistakable
  <2> DEFINE m == h.metrics[k]
  <2> HIDE DEF m
  <2>3. NormalizeRate({m}) = {m} /\ (m > 1 => NormalizeRate({100 * m}) = {m})
    BY <2>1, NormalizedRate DEF m
  <2>4. CASE h.unit = "percent"
    BY <1>2, <2>1, <2>2, <2>3, <2>4 DEF Metric, Reading, m
  <2>5. CASE h.unit # "percent"
    BY <1>2, <2>1, <2>3, <2>5 DEF Metric, Reading, m
  <2> QED
    BY <2>4, <2>5
<1> QED
  BY <1>1, <1>2

\* Each of the three lists of keys finds its metric.
LEMMA MetricsRead ==
    ASSUME NEW h, HistoryShape(h)
    PROVE  /\ FirstNumber(Ranked(h), _RELIABILITY_KEYS) = Reading(h, "win_rate")
           /\ FirstNumber(Ranked(h), _SCORE_KEYS) = Reading(h, "skill_score")
           /\ FirstNumber(Ranked(h), _PROFIT_FACTOR_KEYS) = Reading(h, "profit_factor")
<1>1. FirstNumber(Ranked(h), _RELIABILITY_KEYS) = Reading(h, "win_rate")
  <2> DEFINE keys == _RELIABILITY_KEYS
  <2>1. DOMAIN keys = 1..5 /\ keys[4] = "win_rate" /\ keys[1] = "precision"
          /\ keys[2] = "accuracy" /\ keys[3] = "hit_rate" /\ keys[5] = "success_rate"
    BY DEF _RELIABILITY_KEYS
  <2> HIDE DEF keys
  <2>2. \A j \in DOMAIN keys \ {4} :
            keys[j] \notin {"win_rate", "skill_score", "profit_factor",
                           "total_executions", "sample_size"}
    <3> TAKE j \in DOMAIN keys \ {4}
    <3>1. j = 1 \/ j = 2 \/ j = 3 \/ j = 5
      BY <2>1
    <3> QED
      BY <2>1, <3>1
  <2>3. 4 \in DOMAIN keys /\ DOMAIN keys \subseteq Nat
    BY <2>1
  <2>4. FirstNumber(Ranked(h), keys) = Reading(h, "win_rate")
    BY <2>1, <2>2, <2>3, MetricFound
  <2> QED
    BY <2>4 DEF keys
<1>2. FirstNumber(Ranked(h), _SCORE_KEYS) = Reading(h, "skill_score")
  <2> DEFINE keys == _SCORE_KEYS
  <2>1. DOMAIN keys = 1..3 /\ keys[1] = "skill_score" /\ keys[2] = "performance_score"
          /\ keys[3] = "score"
    BY DEF _SCORE_KEYS
  <2> HIDE DEF keys
  <2>2. \A j \in DOMAIN keys \ {1} :
            keys[j] \notin {"win_rate", "skill_score", "profit_factor",
                           "total_executions", "sample_size"}
    <3> TAKE j \in DOMAIN keys \ {1}
    <3>1. j = 2 \/ j = 3
      BY <2>1
    <3> QED
      BY <2>1, <3>1
  <2>3. 1 \in DOMAIN keys /\ DOMAIN keys \subseteq Nat
    BY <2>1
  <2>4. FirstNumber(Ranked(h), keys) = Reading(h, "skill_score")
    BY <2>1, <2>2, <2>3, MetricFound
  <2> QED
    BY <2>4 DEF keys
<1>3. FirstNumber(Ranked(h), _PROFIT_FACTOR_KEYS) = Reading(h, "profit_factor")
  <2> DEFINE keys == _PROFIT_FACTOR_KEYS
  <2>1. DOMAIN keys = 1..2 /\ keys[1] = "profit_factor" /\ keys[2] = "latest_profit_factor"
    BY DEF _PROFIT_FACTOR_KEYS
  <2> HIDE DEF keys
  <2>2. \A j \in DOMAIN keys \ {1} :
            keys[j] \notin {"win_rate", "skill_score", "profit_factor",
                           "total_executions", "sample_size"}
    <3> TAKE j \in DOMAIN keys \ {1}
    <3>1. j = 2
      BY <2>1
    <3> QED
      BY <2>1, <3>1
  <2>3. 1 \in DOMAIN keys /\ DOMAIN keys \subseteq Nat
    BY <2>1
  <2>4. FirstNumber(Ranked(h), keys) = Reading(h, "profit_factor")
    BY <2>1, <2>2, <2>3, MetricFound
  <2> QED
    BY <2>4 DEF keys
<1> QED
  BY <1>1, <1>2, <1>3

\* What the code makes of a history whose rates cannot be mistaken.
LEMMA HistoryRead ==
    ASSUME NEW h, HistoryShape(h), Unmistakable(h)
    PROVE  /\ Reliability(Ranked(h)) = Metric(h, "win_rate")
           /\ NormalizeRate(FirstNumber(Ranked(h), _SCORE_KEYS)) = Metric(h, "skill_score")
           /\ FirstNumber(Ranked(h), _PROFIT_FACTOR_KEYS) = Metric(h, "profit_factor")
<1>1. NormalizeRate(Reading(h, "win_rate")) = Metric(h, "win_rate")
  BY RateFound
<1>2. NormalizeRate(Reading(h, "skill_score")) = Metric(h, "skill_score")
  BY RateFound
<1>3. Reading(h, "profit_factor") = Metric(h, "profit_factor")
  BY DEF Metric, Reading
<1> QED
  BY <1>1, <1>2, <1>3, MetricsRead, Zenon DEF Reliability

\* The assessment depends on what is read only.
LEMMA SameHealth ==
    ASSUME NEW p, NEW q, SampleSize(p) = SampleSize(q), Reliability(p) = Reliability(q),
           NormalizeRate(FirstNumber(p, _SCORE_KEYS)) = NormalizeRate(FirstNumber(q, _SCORE_KEYS)),
           FirstNumber(p, _PROFIT_FACTOR_KEYS) = FirstNumber(q, _PROFIT_FACTOR_KEYS)
    PROVE  AssessPerformanceDecay(p) = AssessPerformanceDecay(q)
BY Zenon DEF AssessPerformanceDecay

\* The same rates in another unit are the same history to the assessment.
LEMMA HealthOfUnits ==
    ASSUME NEW h, HistoryShape(h), Unmistakable(h), NEW unit,
           Unmistakable([h EXCEPT !.unit = unit])
    PROVE  AssessPerformanceDecay(Ranked([h EXCEPT !.unit = unit]))
               = AssessPerformanceDecay(Ranked(h))
<1> DEFINE other == [h EXCEPT !.unit = unit]
<1>1. other = [samples |-> h.samples, metrics |-> h.metrics, unit |-> unit]
  BY DEF HistoryShape
<1>2. other.samples = h.samples /\ other.metrics = h.metrics /\ other.unit = unit
  BY <1>1
<1>3. HistoryShape(other)
  BY <1>1, <1>2 DEF HistoryShape
<1> HIDE DEF other
<1>4. Unmistakable(other)
  BY DEF other
<1>5. /\ Metric(other, "win_rate") = Metric(h, "win_rate")
      /\ Metric(other, "skill_score") = Metric(h, "skill_score")
      /\ Metric(other, "profit_factor") = Metric(h, "profit_factor")
  BY <1>2 DEF Metric
<1>6. SampleSize(Ranked(other)) = SampleSize(Ranked(h))
  BY <1>2, <1>3, SamplesFound
<1>7. /\ Reliability(Ranked(other)) = Reliability(Ranked(h))
      /\ NormalizeRate(FirstNumber(Ranked(other), _SCORE_KEYS))
           = NormalizeRate(FirstNumber(Ranked(h), _SCORE_KEYS))
      /\ FirstNumber(Ranked(other), _PROFIT_FACTOR_KEYS)
           = FirstNumber(Ranked(h), _PROFIT_FACTOR_KEYS)
  <2>1. /\ Reliability(Ranked(h)) = Metric(h, "win_rate")
        /\ NormalizeRate(FirstNumber(Ranked(h), _SCORE_KEYS)) = Metric(h, "skill_score")
        /\ FirstNumber(Ranked(h), _PROFIT_FACTOR_KEYS) = Metric(h, "profit_factor")
    BY HistoryRead
  <2>2. /\ Reliability(Ranked(other)) = Metric(other, "win_rate")
        /\ NormalizeRate(FirstNumber(Ranked(other), _SCORE_KEYS)) = Metric(other, "skill_score")
        /\ FirstNumber(Ranked(other), _PROFIT_FACTOR_KEYS) = Metric(other, "profit_factor")
    BY <1>3, <1>4, HistoryRead
  <2> QED
    BY <1>5, <2>1, <2>2
<1>8. AssessPerformanceDecay(Ranked(other)) = AssessPerformanceDecay(Ranked(h))
  BY <1>6, <1>7, SameHealth
<1> QED
  BY <1>8 DEF other

\* The weights of the evidence: a blend lies between its two parts, nearer to the
\* one with the larger weight.
LEMMA BlendBetween ==
    ASSUME NEW raw \in Nat, NEW rate \in Nat, NEW n \in Nat,
           NEW q, q = Blend(raw, rate, n, PriorStrength)
    PROVE  LET a == raw * q[2]
               b == rate * q[2]
           IN /\ Distance(a, q[1]) + Distance(q[1], b) = Distance(a, b)
              /\ n <= 30 => Distance(a, q[1]) <= Distance(q[1], b)
              /\ n >= 30 => Distance(q[1], b) <= Distance(a, q[1])
<1> DEFINE u == raw * n
           v == rate * n
           w == raw * 30
           x == rate * 30
<1>1. q[1] = w + v /\ q[2] = n + 30
  BY DEF Blend, PriorStrength
<1>2. raw * q[2] = u + w /\ rate * q[2] = v + x
  BY <1>1
<1>3. u \in Nat /\ v \in Nat /\ w \in Nat /\ x \in Nat
  OBVIOUS
<1>4. CASE raw <= rate
  <2> DEFINE d == rate - raw
             e == d * n
  <2>1. d \in Nat /\ e \in Nat /\ rate = raw + d
    BY <1>4
  <2>2. v = u + e
    BY <2>1
  <2>3. x = w + d * 30
    BY <2>1
  <2>4. (n <= 30 => e <= d * 30) /\ (n >= 30 => d * 30 <= e)
    BY <2>1
  <2>5. d * 30 \in Nat
    BY <2>1
  <2> HIDE DEF u, v, w, x, d, e
  <2> QED
    BY <1>1, <1>2, <1>3, <2>1, <2>2, <2>3, <2>4, <2>5 DEF Distance
<1>5. CASE rate <= raw
  <2> DEFINE d == raw - rate
             e == d * n
  <2>1. d \in Nat /\ e \in Nat /\ raw = rate + d
    BY <1>5
  <2>2. u = v + e
    BY <2>1
  <2>3. w = x + d * 30
    BY <2>1
  <2>4. (n <= 30 => e <= d * 30) /\ (n >= 30 => d * 30 <= e)
    BY <2>1
  <2>5. d * 30 \in Nat
    BY <2>1
  <2> HIDE DEF u, v, w, x, d, e
  <2> QED
    BY <1>1, <1>2, <1>3, <2>1, <2>2, <2>3, <2>4, <2>5 DEF Distance
<1> QED
  BY <1>4, <1>5

\* calibrate_confidence, case by case.
LEMMA Calibrated ==
    ASSUME NEW c, NEW p, NEW q \in CalibrateConfidence(c, p)
    PROVE  /\ "val" \in DOMAIN c
           /\ Reliability(p) = {} \/ SampleSize(p) = 0 => q = <<Clamped(c.val, 0, 100), 1>>
           /\ ~(Reliability(p) = {} \/ SampleSize(p) = 0) =>
                 \E r \in Reliability(p) :
                     q = Blend(Clamped(c.val, 0, 100), r, SampleSize(p), PriorStrength)
<1>1. CASE "val" \notin DOMAIN c
  <2>1. CalibrateConfidence(c, p) = {}
    BY <1>1, Zenon DEF CalibrateConfidence
  <2> QED
    BY <2>1
<1>2. CASE "val" \in DOMAIN c /\ (Reliability(p) = {} \/ SampleSize(p) = 0)
  <2>1. CalibrateConfidence(c, p) = {<<Clamped(c.val, 0, 100), 1>>}
    BY <1>2, Zenon DEF CalibrateConfidence
  <2> QED
    BY <1>2, <2>1, Zenon
<1>3. CASE "val" \in DOMAIN c /\ ~(Reliability(p) = {} \/ SampleSize(p) = 0)
  <2>1. CalibrateConfidence(c, p)
          = {Blend(Clamped(c.val, 0, 100), r, SampleSize(p), PriorStrength) : r \in Reliability(p)}
    BY <1>3, Zenon DEF CalibrateConfidence
  <2> QED
    BY <1>3, <2>1, Zenon
<1> QED
  BY <1>1, <1>2, <1>3

-----------------------------------------------------------------------------
(* What PerformanceAwareExecutor adds to a result                          *)

\* The performance that the executor goes by.
Performance(h) == IF h = NoHistory THEN <<>> ELSE Ranked(h)

\* The effective confidence of a result.
Effective(r, h) ==
    IF "confidence" \in DOMAIN r.output.props
    THEN CalibrateConfidence(r.output.props.confidence, Performance(h))
    ELSE {}

Bare == result.effective = {} /\ result.health = "not_applied"

\* A result is annotated last, and keeps what the history of its request gave it.
Annotations ==
    /\ pc \notin {"telemetry", "idle"} => Bare
    /\ ~Bare => /\ result.status = "success"
                /\ result.effective = Effective(result, history)
                /\ result.health = AssessPerformanceDecay(Performance(history))

\* A step that annotates nothing.
Passive ==
    /\ history' = history
    /\ \/ pc \notin {"telemetry", "idle"} /\ (Bare => Bare')
       \/ /\ result' = result
          /\ pc \in {"telemetry", "idle"} => pc' \in {"telemetry", "idle"}

LEMMA PassiveStep ==
    ASSUME Annotations, Passive
    PROVE  Annotations'
<1>1. CASE pc \notin {"telemetry", "idle"} /\ (Bare => Bare')
  BY <1>1 DEF Annotations
<1>2. CASE /\ result' = result
           /\ pc \in {"telemetry", "idle"} => pc' \in {"telemetry", "idle"}
  <2>1. Bare' <=> Bare
    BY <1>2 DEF Bare
  <2>2. Effective(result, history)' = Effective(result, history)
        /\ Performance(history)' = Performance(history)
    BY <1>2, Zenon DEF Passive, Effective, Performance
  <2>3. AssessPerformanceDecay(Performance(history))' = AssessPerformanceDecay(Performance(history))
    BY Zenon DEF Passive
  <2> QED
    BY <1>2, <2>1, <2>2, <2>3 DEF Annotations
<1> QED
  BY <1>1, <1>2 DEF Passive

\* A delivery does not annotate.
LEMMA DeliverPassive ==
    ASSUME ExecInv, pc \notin {"telemetry", "idle"}, history' = history,
           NEW s, NEW o, NEW label, Deliver(s, o, label)
    PROVE  Passive
<1>1. result'.effective = result.effective /\ result'.health = result.health
  BY Delivered DEF ExecInv, Types
<1> QED
  BY <1>1 DEF Passive, Bare

\* PerformanceAwareExecutor.execute.
LEMMA AnnotateAnnotates ==
    ASSUME ExecInv, Annotations, Annotate
    PROVE  Annotations'
<1>1. pc = "annotate" /\ pc' = "telemetry" /\ result' = Annotated(result, history') /\ Bare
  BY DEF Annotate, Annotations
<1>2. CASE result.status # "success"
  <2>1. result' = result
    BY <1>1, <1>2 DEF Annotated
  <2>2. Bare'
    BY <1>1, <2>1 DEF Bare
  <2> QED
    BY <1>1, <2>2 DEF Annotations
<1>3. CASE result.status = "success"
  <2> DEFINE h == history'
             c == Effective(result, h)
             m == AssessPerformanceDecay(Performance(h))
  <2>1. result' = [result EXCEPT !.effective = c, !.health = m]
    BY <1>1, <1>3, Zenon DEF Annotated, Metadata, Effective, Performance
  <2> HIDE DEF c, m
  <2>2. result' = [status |-> result.status, output |-> result.output,
                   fallback |-> result.fallback, container |-> result.container,
                   effective |-> c, health |-> m]
    BY <2>1 DEF ExecInv, Types, Shaped
  <2>3. /\ result'.status = "success" /\ result'.output = result.output
        /\ result'.effective = c /\ result'.health = m
    BY <1>3, <2>2
  <2>4. c = Effective(result', h)
    BY <2>3, Zenon DEF c, Effective
  <2> QED
    BY <1>1, <2>3, <2>4, Zenon DEF Annotations, m
<1> QED
  BY <1>2, <1>3

\* A container that fails changes other fields of the result.
LEMMA ContainerFailsPassive ==
    ASSUME ExecInv, ContainerFails
    PROVE  Passive
<1> DEFINE c == IF Unavailable THEN "container_unavailable" ELSE "container_failed"
<1>1. pc = "backend" /\ history' = history
  BY DEF ContainerFails, requestVars
<1>2. \/ result' = [[result EXCEPT !.container = c] EXCEPT !.fallback = TRUE]
      \/ result' = [[result EXCEPT !.container = c] EXCEPT !.status = "rejected_no_isolated_sandbox"]
  BY Zenon DEF ContainerFails, FellBack
<1> HIDE DEF c
<1>3. Shaped(result)
  BY DEF ExecInv, Types
<1>4. result'.effective = result.effective /\ result'.health = result.health
  BY <1>2, <1>3 DEF Shaped
<1> QED
  BY <1>1, <1>4 DEF Passive, Bare

\* The other steps annotate nothing.
LEMMA OthersPassive ==
    ASSUME ExecInv, [Next]_vars, ~Execute, ~Annotate
    PROVE  Passive
<1>1. CASE Ready \/ DependencyChanges \/ ChangeApproval \/ ChildPuts \/ ChildKilled \/ UNCHANGED vars
  <2>1. history' = history /\ result' = result /\ pc' = pc
    BY <1>1 DEF Ready, DependencyChanges, ChangeApproval, ChildPuts, ChildKilled, vars, requestVars
  <2> QED
    BY <2>1 DEF Passive
<1>2. CASE Guard \/ UseProcess \/ Join \/ Telemetry
  <2>1. /\ history' = history /\ result' = result
        /\ pc \in {"telemetry", "idle"} => pc' \in {"telemetry", "idle"}
    BY <1>2 DEF Guard, UseProcess, Join, Telemetry, requestVars
  <2> QED
    BY <2>1 DEF Passive
<1>3. CASE CheckInput
  <2>1. pc = "input" /\ history' = history
    BY <1>3, Zenon DEF CheckInput, requestVars
  <2>2. result' = result \/ Deliver("input_schema_rejected", NoOutput, "annotate")
    BY <1>3, Zenon DEF CheckInput
  <2> QED
    BY <2>1, <2>2, DeliverPassive DEF Passive
<1>4. CASE CheckOutput
  <2>1. pc = "output" /\ history' = history
    BY <1>4, Zenon DEF CheckOutput, requestVars
  <2>2. result' = result \/ Deliver("output_schema_rejected", NoOutput, "annotate")
    BY <1>4, Zenon DEF CheckOutput
  <2> QED
    BY <2>1, <2>2, DeliverPassive DEF Passive
<1>5. CASE ContainerRuns
  <2>1. pc = "backend" /\ history' = history
    BY <1>5 DEF ContainerRuns, requestVars
  <2>2. \E s, o : Deliver(s, o, "output")
    BY <1>5, Zenon DEF ContainerRuns
  <2> QED
    BY <2>1, <2>2, DeliverPassive
<1>6. CASE RemoteRuns
  <2>1. pc = "backend" /\ history' = history
    BY <1>6 DEF RemoteRuns, requestVars
  <2>2. \E s, o : Deliver(s, o, "output")
    BY <1>6, Zenon DEF RemoteRuns
  <2> QED
    BY <2>1, <2>2, DeliverPassive
<1>7. CASE Spawn \/ JoinTimeout \/ Get
  <2>1. pc \in {"spawn", "join", "get"} /\ history' = history
    BY <1>7 DEF Spawn, JoinTimeout, Get, requestVars
  <2>2. result' = result \/ \E s, o : Deliver(s, o, "output")
    BY <1>7, Zenon DEF Spawn, JoinTimeout, Get
  <2> QED
    BY <2>1, <2>2, DeliverPassive DEF Passive
<1> QED
  BY <1>1, <1>2, <1>3, <1>4, <1>5, <1>6, <1>7, ContainerFailsPassive DEF Next, Step

\* The annotations of every request.
LEMMA AnnotationsAlways == Spec => [](ExecInv /\ Annotations)
<1>1. Init => ExecInv /\ Annotations
  BY ExecInvInit DEF Init, Annotations, Bare, NoResult
<1>2. ASSUME ExecInv, Annotations, [Next]_vars PROVE ExecInv' /\ Annotations'
  <2>1. CASE Execute
    <3>1. result' = NoResult
      BY <2>1 DEF Execute
    <3>2. Bare'
      BY <3>1 DEF Bare, NoResult
    <3> QED
      BY <1>2, <3>2, ExecInvStep DEF Annotations
  <2>2. CASE Annotate
    BY <1>2, <2>2, ExecInvStep, AnnotateAnnotates
  <2>3. CASE ~Execute /\ ~Annotate
    BY <1>2, <2>3, ExecInvStep, OthersPassive, PassiveStep
  <2> QED
    BY <2>1, <2>2, <2>3
<1> QED
  BY <1>1, <1>2, PTL DEF Spec

\* A history of Database_Agent, as the provers use it.
LEMMA HistoriesShaped ==
    ASSUME NEW h \in Histories
    PROVE  HistoryShape(h)
BY HistoriesAssumption DEF HistoryShape

\* The health of a skill is the same in whichever unit Database_Agent has its rates.
THEOREM HealthIsUnitless == Spec => []HealthIgnoresUnits
<1>1. ASSUME ExecInv, Annotations PROVE HealthIgnoresUnits
  <2> SUFFICES ASSUME result.health # "not_applied", history # NoHistory,
                      NEW unit \in {"rate", "percent"},
                      Unmistakable(history), Unmistakable([history EXCEPT !.unit = unit])
               PROVE  result.health = AssessPerformanceDecay(Ranked([history EXCEPT !.unit = unit]))
    BY Zenon DEF HealthIgnoresUnits
  <2>1. result.health = AssessPerformanceDecay(Performance(history))
    BY <1>1 DEF Annotations, Bare
  <2>2. Performance(history) = Ranked(history)
    BY DEF Performance
  <2>3. HistoryShape(history)
    BY <1>1, HistoriesShaped DEF ExecInv, Types
  <2> QED
    BY <2>1, <2>2, <2>3, HealthOfUnits
<1> QED
  BY <1>1, AnnotationsAlways, PTL

\* What the blend of a request lies between.
LEMMA EffectiveFacts ==
    ASSUME ExecInv, Annotations, NEW q \in result.effective
    PROVE  LET raw == result.output.props.confidence.val
               p == Performance(history)
           IN /\ raw \in 0..100
              /\ Reliability(p) = {} \/ SampleSize(p) = 0 => q = <<raw, 1>>
              /\ ~(Reliability(p) = {} \/ SampleSize(p) = 0) =>
                    \E r \in Reliability(p) : q = Blend(raw, r, SampleSize(p), PriorStrength)
<1> DEFINE c == result.output.props.confidence
           p == Performance(history)
<1>1. result.effective # {} /\ ~Bare
  BY DEF Bare
<1>2. result.status = "success" /\ result.effective = Effective(result, history)
  BY <1>1 DEF Annotations
<1>3. "confidence" \in DOMAIN result.output.props /\ q \in CalibrateConfidence(c, p)
  BY <1>2, Zenon DEF Effective
<1>4. Decent(result.output)
  BY <1>2, Zenon DEF ExecInv, Outputs
<1>5. (c.type = "NoneType" /\ "val" \notin DOMAIN c) \/ IsRate(c)
  BY <1>3, <1>4, Zenon DEF Decent
<1> HIDE DEF c, p
<1>6. c.val \in 0..100
  BY <1>3, <1>5, Calibrated DEF IsRate
<1>7. Clamped(c.val, 0, 100) = c.val
  BY <1>6, ClampedRate
<1>8. /\ Reliability(p) = {} \/ SampleSize(p) = 0 => q = <<c.val, 1>>
      /\ ~(Reliability(p) = {} \/ SampleSize(p) = 0) =>
            \E r \in Reliability(p) : q = Blend(c.val, r, SampleSize(p), PriorStrength)
  BY <1>3, <1>7, Calibrated, Zenon
<1> QED
  BY <1>6, <1>8, Zenon DEF c, p

\* The effective confidence lies between the skill's own and its record, nearer to
\* the one with the more weight, and is the skill's own without a record.
THEOREM ConfidenceFollowsEvidence == Spec => []CalibrationFollowsEvidence
<1>1. ASSUME ExecInv, Annotations PROVE CalibrationFollowsEvidence
  <2> DEFINE own == result.output.props.confidence.val
             p == Performance(history)
             known == "win_rate" \in DOMAIN history.metrics /\ history.samples > 0
  <2> SUFFICES ASSUME NEW q \in result.effective
               PROVE  IF known
                      THEN Unmistakable(history) =>
                             LET raw == own * q[2]
                                 rate == history.metrics.win_rate * q[2]
                             IN /\ Distance(raw, q[1]) + Distance(q[1], rate) = Distance(raw, rate)
                                /\ history.samples <= 30 => Distance(raw, q[1]) <= Distance(q[1], rate)
                                /\ history.samples >= 30 => Distance(q[1], rate) <= Distance(raw, q[1])
                      ELSE q[1] = own * q[2]
    BY Zenon DEF CalibrationFollowsEvidence
  <2>1. /\ own \in 0..100
        /\ Reliability(p) = {} \/ SampleSize(p) = 0 => q = <<own, 1>>
        /\ ~(Reliability(p) = {} \/ SampleSize(p) = 0) =>
              \E r \in Reliability(p) : q = Blend(own, r, SampleSize(p), PriorStrength)
    BY <1>1, EffectiveFacts, Zenon
  <2>2. history = NoHistory \/ HistoryShape(history)
    BY <1>1, HistoriesShaped DEF ExecInv, Types
  <2> HIDE DEF own
  <2>3. CASE ~known
    <3>1. Reliability(p) = {} \/ SampleSize(p) = 0
      <4>1. CASE history = NoHistory
        <5>1. p = <<>>
          BY <4>1 DEF Performance
        <5>2. FirstNumber(<<>>, _RELIABILITY_KEYS) = {}
          BY NoneOf
        <5> QED
          BY <5>1, <5>2 DEF Reliability, NormalizeRate
      <4>2. CASE history # NoHistory
        <5>1. p = Ranked(history) /\ HistoryShape(history)
          BY <2>2, <4>2 DEF Performance
        <5>2. CASE "win_rate" \notin DOMAIN history.metrics
          BY <5>1, <5>2, MetricsRead DEF Reliability, Reading, NormalizeRate
        <5>3. CASE ~(history.samples > 0)
          <6>1. SampleSize(p) = history.samples /\ history.samples \in Nat
            BY <5>1, SamplesFound DEF HistoryShape
          <6> QED
            BY <5>3, <6>1
        <5> QED
          BY <2>3, <5>2, <5>3
      <4> QED
        BY <4>1, <4>2
    <3>2. q = <<own, 1>>
      BY <2>1, <3>1
    <3>3. q[1] = own * q[2]
      BY <2>1, <3>2
    <3> QED
      BY <2>3, <3>3
  <2>4. CASE known
    <3> SUFFICES ASSUME Unmistakable(history)
                 PROVE  LET raw == own * q[2]
                            rate == history.metrics.win_rate * q[2]
                        IN /\ Distance(raw, q[1]) + Distance(q[1], rate) = Distance(raw, rate)
                           /\ history.samples <= 30 => Distance(raw, q[1]) <= Distance(q[1], rate)
                           /\ history.samples >= 30 => Distance(q[1], rate) <= Distance(raw, q[1])
      BY <2>4
    <3>1. history # NoHistory
      BY <2>4 DEF NoHistory
    <3>2. p = Ranked(history) /\ HistoryShape(history)
      BY <2>2, <3>1 DEF Performance
    <3> DEFINE rate == history.metrics.win_rate
               n == history.samples
    <3>3. Reliability(p) = {rate} /\ rate \in Nat
      <4>1. Reliability(Ranked(history)) = Metric(history, "win_rate")
        BY <3>2, HistoryRead
      <4> QED
        BY <2>4, <3>2, <4>1 DEF Metric, HistoryShape
    <3>4. SampleSize(p) = n /\ n \in Nat /\ n # 0
      BY <2>4, <3>2, SamplesFound DEF HistoryShape
    <3> HIDE DEF rate, n, p
    <3>5. q = Blend(own, rate, n, PriorStrength)
      BY <2>1, <3>3, <3>4
    <3>6. own \in Nat
      BY <2>1
    <3>7. LET a == own * q[2]
              b == rate * q[2]
          IN /\ Distance(a, q[1]) + Distance(q[1], b) = Distance(a, b)
             /\ n <= 30 => Distance(a, q[1]) <= Distance(q[1], b)
             /\ n >= 30 => Distance(q[1], b) <= Distance(a, q[1])
      BY <3>3, <3>4, <3>5, <3>6, BlendBetween
    <3> QED
      BY <3>7, Zenon DEF rate, n
  <2> QED
    BY <2>3, <2>4
<1> QED
  BY <1>1, AnnotationsAlways, PTL
=============================================================================
