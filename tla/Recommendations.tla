--------------------------- MODULE Recommendations ---------------------------
(***************************************************************************)
(* recommend_skills (app/recommendations.py): the approved skills that fit *)
(* a request, ranked by the history that Database_Agent has of them.       *)
(*                                                                         *)
(* Skills and texts are written as in ShadowEnsemble; "created" is the     *)
(* order of created_at.  Scores are in hundredths.  In a request 0 stands  *)
(* for a context that is not given.                                        *)
(***************************************************************************)
EXTENDS Sorting

Champion(skill) == skill.deployment_stage = "champion"

\* The request and the skill both name a context, and not the same.
Conflict(asked, skill, key) ==
    asked # 0 /\ key \in DOMAIN skill.market_context /\ skill.market_context[key] \notin {0, asked}

\* _context_matches
ContextMatches(skill, request) ==
    /\ request.tags # {} => request.tags \cap skill.tags # {}
    /\ ~Conflict(request.asset_class, skill, "asset_class")
    /\ ~Conflict(request.strategy_bucket, skill, "strategy_bucket")
    /\ ~Conflict(request.market_regime, skill, "regime")

\* n points if the condition holds.
Points(condition, n) == IF condition THEN n ELSE 0

\* The request names a context and the skill has it.
Fits(asked, skill, key) ==
    asked # 0 /\ key \in DOMAIN skill.market_context /\ skill.market_context[key] = asked

\* _fallback_score
FallbackScore(skill, request) ==
    Min({80, 50 + Points(request.tags \cap skill.tags # {}, 10)
                + Points(Fits(request.strategy_bucket, skill, "strategy_bucket"), 10)
                + Points(Fits(request.market_regime, skill, "regime"), 10)
                + Points(Champion(skill), 5)})

\* The score of a skill: what the ranking has, unless it is missing or 0, with
\* the points for a passed backtest and for a champion.
Score(skill, request, ranking, passed) ==
    LET reported == IF skill.skill_id \in DOMAIN ranking THEN ranking[skill.skill_id] ELSE 0
        base == IF reported = 0 THEN FallbackScore(skill, request) ELSE reported
        tested == IF skill.skill_id \in passed THEN Min({100, base + 5}) ELSE base
        total == IF Champion(skill) THEN Min({100, tested + 3}) ELSE tested
    IN Max({0, Min({100, total})})

\* Skills of the list that the request is about.
Matching(listed, request) ==
    {s \in listed : s.deployment_stage # "retired" /\ ContextMatches(s, request)}

\* Skills that pass the backtest gate, if there is one.
Gated(skills, request, passed) ==
    {s \in skills : request.require_backtest_passed => s.skill_id \in passed}

\* Mutant: a newer version comes before a better score.
SortKeyByVersion(skill, score) ==
    <<-Points(Champion(skill), 1), -skill.version, -score, -skill.created>>

\* The key of the sort, with the greatest first; the sort is stable, and skills are
\* listed latest first.
SortKey(skill, score) ==
    <<-Points(Champion(skill), 1), -score, -skill.version, -skill.created>>

\* Mutant: what top_k cuts off is not counted.
RejectedByGate(skills, gated, selected) == Cardinality(skills) - Cardinality(gated)

\* rejected_count: by the gate and by top_k.
Rejected(skills, gated, selected) ==
    (Cardinality(skills) - Cardinality(gated)) + (Cardinality(gated) - Len(selected))

\* recommend_skills, for the listed skills, the ranking and the skills with a
\* passed backtest.
RecommendSkills(listed, request, ranking, passed) ==
    LET skills == Matching(listed, request)
        gated == Gated(skills, request, passed)
        key == [s \in gated |-> SortKey(s, Score(s, request, ranking, passed))]
        selected == FirstN(Sorted(key), request.top_k)
        state == CASE skills = {} -> "no_approved_skills"
                   [] skills # {} /\ gated = {} -> "no_backtest_passed_skills"
                   [] OTHER -> IF DOMAIN ranking # {} THEN "ranked" ELSE "fallback_no_database"
    IN [state |-> state, rejected_count |-> Rejected(skills, gated, selected),
        recommended |-> [i \in DOMAIN selected |->
                            [skill_id |-> selected[i].skill_id,
                             score |-> Score(selected[i], request, ranking, passed)]]]
=============================================================================
