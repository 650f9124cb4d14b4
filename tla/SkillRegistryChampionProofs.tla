-------------------- MODULE SkillRegistryChampionProofs --------------------
(***************************************************************************)
(* What holds when one process serves the file, in every state between the *)
(* writes of a handler and after a crash or a failed write at any of them: *)
(* a family never has two champions, every deployed skill is validated and *)
(* approved, and the registry implements FamilyChampions (clients register *)
(* skills that are not deployed yet); the history of a skill only grows,   *)
(* the served table is migrated, a rollback reports what it replaced, and  *)
(* a service that is always seeded starts again.                           *)
(***************************************************************************)
EXTENDS SkillRegistryProofs

\* The deployment the repository ships: one uvicorn process.
OneProcess == \A p, q \in Procs : p = q

Approved(s) == skills[s].validated /\ skills[s].approval = "approved"

\* The final _transition of a handler leaves an approved or an undeployed skill.
MoveSafe(m) ==
    \/ m.approval = "approved" /\ m.stage = None /\ skills[m.id].validated
    \/ m.stage \in {"candidate", "retired"}
    \/ m.approval = None /\ m.stage \in Stages /\ Approved(m.id)

\* What a handler has established when it is at its label.
Promotion(p) ==
    /\ pc[p] \in {"check", "insert"} => entry[p].stage \in {"candidate", "retired"}
    /\ pc[p] = "write_old" => seen[p] = skills[victim[p]]
    /\ pc[p] = "write" => seen[p] = skills[move[p].id]
    /\ pc[p] \in {"champions", "read_old", "write_old"} =>
           move[p].approval = None /\ move[p].stage = "champion" /\ Approved(move[p].id)
    /\ pc[p] \in {"read_old", "write_old"} =>
           CurrentChampions(move[p].id) \subseteq todo[p] /\ move[p].id \notin todo[p]
    /\ pc[p] \in {"read", "write"} => MoveSafe(move[p])
    /\ pc[p] \in {"read", "write"} /\ move[p].stage = "champion" =>
           CurrentChampions(move[p].id) = {}

ChampionInv ==
    /\ TypeInv
    /\ Migrated
    /\ OneChampionPerFamily
    /\ DeployedImpliesApproved
    /\ \A p \in Procs : Promotion(p)

\* With one process, its own state is all that is left to show.
LEMMA ChampionSuffices ==
    ASSUME OneProcess, ChampionInv, [Next]_vars, NEW p \in Procs,
           OneChampionPerFamily', DeployedImpliesApproved', Promotion(p)'
    PROVE  ChampionInv'
<1>1. \A q \in Procs : q = p
  BY DEF OneProcess
<1>2. TypeInv' /\ Migrated'
  BY TypeInvStep, MigratedStep DEF ChampionInv
<1> QED
  BY <1>1, <1>2 DEF ChampionInv

\* A step that does not write the table leaves the two invariants alone.
LEMMA ReadOnly ==
    ASSUME ChampionInv, skills' = skills
    PROVE  OneChampionPerFamily' /\ DeployedImpliesApproved'
BY DEF ChampionInv, OneChampionPerFamily, DeployedImpliesApproved, Deployed, Stored, FamilyOf

\* The handler ends.
LEMMA EndPromotion ==
    ASSUME TypeInv, NEW p \in Procs, Return(p) \/ Raise(p)
    PROVE  Promotion(p)'
<1>1. pc'[p] \in {"idle", "init_db", "failed"}
  BY DEF TypeInv, TypeOK, Return, Raise
<1> QED
  BY <1>1 DEF Promotion

\* A registration is made: the answer, or the approval of the seed.
LEMMA RegisteredPromotion ==
    ASSUME TypeInv, NEW p \in Procs, NEW s \in SkillIds, NEW v,
           Registered(p, s, v), v => skills'[s].validated
    PROVE  Promotion(p)'
<1>1. CASE Return(p)
  BY <1>1, EndPromotion
<1>2. CASE v /\ CallTransition(p, ApproveMove(s))
  <2>1. pc'[p] = "read" /\ move'[p] = ApproveMove(s)
    BY <1>2 DEF TypeInv, TypeOK, CallTransition, Goto
  <2>2. /\ move'[p].approval = "approved" /\ move'[p].stage = None
        /\ skills'[move'[p].id].validated
    BY <1>2, <2>1 DEF ApproveMove
  <2>3. None # "champion"
    BY ConstantsAssumption DEF Stages
  <2> QED
    BY <2>1, <2>2, <2>3 DEF Promotion, MoveSafe
<1> QED
  BY <1>1, <1>2 DEF Registered

\* What the UPDATE of _transition does to the table when it is computed from
\* the row as it is.
LEMMA UpdateEffect ==
    ASSUME TypeInv, NEW t \in Stored, NEW m \in Move,
           skills' = [skills EXCEPT ![t] = Transitioned(skills[t], skills[t], m)]
    PROVE  /\ Stored' = Stored
           /\ \A s \in Stored \ {t} : skills'[s] = skills[s]
           /\ skills'[t].family = skills[t].family
           /\ skills'[t].validated = skills[t].validated
           /\ skills'[t].stage = Given(m.stage, skills[t].stage)
           /\ skills'[t].approval = Given(m.approval, skills[t].approval)
           /\ skills'[t].immutable = Given(m.immutable, skills[t].immutable)
           /\ skills'[t].notes = Append(skills[t].notes, m.note)
<1>1. t \in SkillIds /\ skills[t] \in Row
  BY DEF TypeInv, TypeOK, Stored
<1>2. skills'[t] = Transitioned(skills[t], skills[t], m)
  BY <1>1 DEF TypeInv, TypeOK
<1>3. skills'[t] # NoRow
  BY <1>1, <1>2, TransitionedType, ConstantsAssumption
<1>4. \A s \in SkillIds \ {t} : skills'[s] = skills[s]
  BY <1>1 DEF TypeInv, TypeOK
<1>5. /\ skills'[t].family = skills[t].family
      /\ skills'[t].validated = skills[t].validated
      /\ skills'[t].stage = Given(m.stage, skills[t].stage)
      /\ skills'[t].approval = Given(m.approval, skills[t].approval)
  <2>1. skills'[t].family = skills[t].family /\ skills'[t].validated = skills[t].validated
    BY <1>1, UpdateKeeps DEF IdentityKept
  <2>2. skills'[t].stage = Given(m.stage, skills[t].stage)
    BY <1>1, <1>2 DEF Transitioned, Row
  <2>3. skills'[t].approval = Given(m.approval, skills[t].approval)
    BY <1>1, <1>2 DEF Transitioned, Row
  <2> QED
    BY <2>1, <2>2, <2>3
<1>6. Stored' = Stored /\ \A s \in Stored \ {t} : skills'[s] = skills[s]
  BY <1>1, <1>3, <1>4 DEF Stored
<1>7. skills'[t].immutable = Given(m.immutable, skills[t].immutable)
  BY <1>1, <1>2 DEF Transitioned, Row
<1>8. skills'[t].notes = Append(skills[t].notes, m.note)
  BY <1>1, <1>2 DEF Transitioned, Row
<1> QED
  BY <1>5, <1>6, <1>7, <1>8

\* An old file holds candidates only.
LEMMA ChampionInit == Init => ChampionInv
<1> SUFFICES ASSUME Init PROVE ChampionInv
  OBVIOUS
<1>1. ASSUME NEW s \in Stored
      PROVE  skills[s].stage = "candidate"
  BY DEF Init, Stored, LegacyRows, LegacyRow
<1>2. OneChampionPerFamily /\ DeployedImpliesApproved
  BY <1>1 DEF OneChampionPerFamily, DeployedImpliesApproved, Deployed
<1>3. \A p \in Procs : Promotion(p)
  BY DEF Init, Promotion
<1> QED
  BY <1>2, <1>3, IdentityInit DEF ChampionInv, IdentityInv

\* Starting, and migrating the table.
LEMMA StartUpChampion ==
    ASSUME OneProcess, UndeployedRegistrations, ChampionInv, NEW p \in Procs,
           Start(p) \/ InitDb(p)
    PROVE  OneChampionPerFamily' /\ DeployedImpliesApproved' /\ Promotion(p)'
<1> USE DEF ChampionInv
<1>1. CASE Start(p)
  <2>1. skills' = skills /\ pc'[p] = "init_db"
    BY <1>1 DEF Start, TypeInv, TypeOK
  <2> QED
    BY <2>1, ReadOnly DEF Promotion
<1>2. CASE InitDb(p)
  <2>1. ASSUME NEW s \in Stored'
        PROVE  /\ s \in Stored
               /\ skills'[s].family = FamilyOf(s)
               /\ FamilyOf(s) # None
               /\ skills'[s].stage = skills[s].stage
               /\ skills'[s].approval = skills[s].approval
               /\ skills'[s].validated = skills[s].validated
    <3>1. s \in Stored /\ s \in SkillIds /\ skills'[s] = Normalised(s) /\ skills[s] \in Row
      BY <1>2 DEF InitDb, Stored, TypeInv, TypeOK
    <3>2. FamilyOf(s) # None
      BY <3>1, ConstantsAssumption DEF FamilyOf
    <3>3. skills'[s].family = FamilyOf(s) /\ skills'[s].stage = skills[s].stage
      BY <3>1 DEF Normalised, Row
    <3>4. skills'[s].approval = skills[s].approval
      BY <3>1 DEF Normalised, Row
    <3>5. skills'[s].validated = skills[s].validated
      BY <3>1 DEF Normalised, Row
    <3> QED
      BY <3>1, <3>2, <3>3, <3>4, <3>5
  <2>2. OneChampionPerFamily'
    BY <2>1 DEF OneChampionPerFamily, FamilyOf
  <2>3. DeployedImpliesApproved'
    BY <2>1 DEF DeployedImpliesApproved, Deployed
  <2>4. CASE Return(p)
    BY <2>2, <2>3, <2>4, EndPromotion
  <2>5. CASE Goto(p, "check") /\ entry' = [entry EXCEPT ![p] = SeedEntry]
    <3>1. pc'[p] = "check" /\ entry'[p].stage = "candidate"
      BY <2>5 DEF TypeInv, TypeOK, Goto, SeedEntry
    <3>2. Promotion(p)'
      BY <3>1 DEF Promotion
    <3> QED
      BY <2>2, <2>3, <3>2
  <2> QED
    BY <1>2, <2>4, <2>5 DEF InitDb
<1> QED
  BY <1>1, <1>2

\* The requests: the guard of promote makes its move safe.
LEMMA RequestChampion ==
    ASSUME OneProcess, UndeployedRegistrations, ChampionInv, NEW p \in Procs, Request(p)
    PROVE  OneChampionPerFamily' /\ DeployedImpliesApproved' /\ Promotion(p)'
<1>1. skills' = skills
  BY DEF Request, RegisterSkill, CreateVersion, ApproveSkill, ApproveFromBacktest,
     DeprecateSkill, PromoteSkill, Rollback, Accept
<1>2. OneChampionPerFamily' /\ DeployedImpliesApproved'
  BY <1>1, ReadOnly
<1> USE DEF ChampionInv, TypeInv, TypeOK
<1>3. CASE RegisterSkill(p)
  <2>1. pc'[p] = "check" /\ entry'[p].stage \in {"candidate", "retired"}
    BY <1>3 DEF RegisterSkill, UndeployedRegistrations
  <2> QED
    BY <1>2, <2>1 DEF Promotion
<1>4. CASE CreateVersion(p)
  <2>1. pc'[p] = "check" /\ entry'[p].stage = "candidate"
    BY <1>4 DEF CreateVersion
  <2> QED
    BY <1>2, <2>1 DEF Promotion
<1>5. CASE ApproveSkill(p) \/ ApproveFromBacktest(p)
  <2>1. PICK s \in Stored : skills[s].validated /\ move' = [move EXCEPT ![p] = ApproveMove(s)]
    BY <1>5 DEF ApproveSkill, ApproveFromBacktest
  <2>2. pc'[p] = "read" /\ move'[p] = ApproveMove(s)
    BY <1>5, <2>1 DEF ApproveSkill, ApproveFromBacktest
  <2>3. /\ move'[p].approval = "approved" /\ move'[p].stage = None
        /\ skills'[move'[p].id].validated
    BY <1>1, <2>1, <2>2 DEF ApproveMove
  <2>4. None # "champion"
    BY ConstantsAssumption DEF Stages
  <2> QED
    BY <1>2, <2>2, <2>3, <2>4 DEF Promotion, MoveSafe
<1>6. CASE DeprecateSkill(p)
  <2>1. pc'[p] = "read" /\ move'[p].stage = "retired"
    BY <1>6 DEF DeprecateSkill, DeprecateMove
  <2> QED
    BY <1>2, <2>1 DEF Promotion, MoveSafe
<1>7. CASE PromoteSkill(p)
  <2>1. PICK s \in Stored, stage \in PromoteStages :
           /\ PromoteAllowed(s, stage)
           /\ move' = [move EXCEPT ![p] = PromoteMove(s, stage)]
           /\ pc' = [pc EXCEPT ![p] = IF stage = "champion" THEN "champions" ELSE "read"]
    BY <1>7 DEF PromoteSkill
  <2>2. /\ move'[p].id = s /\ move'[p].stage = stage /\ move'[p].approval = None
        /\ pc'[p] = IF stage = "champion" THEN "champions" ELSE "read"
    BY <2>1 DEF PromoteMove
  <2>3. stage \in {"candidate", "retired"} \/ (stage \in Stages /\ Approved(s))
    BY <2>1, ConstantsAssumption DEF PromoteAllowed, Approved
  <2>4. Approved(s) => skills'[s].validated /\ skills'[s].approval = "approved"
    BY <1>1 DEF Approved
  <2>5. CASE stage = "champion"
    BY <1>2, <2>2, <2>3, <2>4, <2>5 DEF Promotion, Approved
  <2>6. CASE stage # "champion"
    BY <1>2, <2>2, <2>3, <2>4, <2>6 DEF Promotion, MoveSafe, Approved
  <2> QED
    BY <2>5, <2>6
<1>8. CASE Rollback(p)
  <2>1. pc'[p] = "guard"
    BY <1>8 DEF Rollback
  <2> QED
    BY <1>2, <2>1 DEF Promotion
<1> QED
  BY <1>3, <1>4, <1>5, <1>6, <1>7, <1>8 DEF Request

\* register stores undeployed skills only.
LEMMA RegisterChampion ==
    ASSUME OneProcess, UndeployedRegistrations, ChampionInv, NEW p \in Procs,
           RegisterCheck(p) \/ RegisterInsert(p)
    PROVE  OneChampionPerFamily' /\ DeployedImpliesApproved' /\ Promotion(p)'
<1> USE DEF ChampionInv
<1> DEFINE e == entry[p]
<1>1. e \in Entry /\ e.id \in SkillIds /\ e.stage \in {"candidate", "retired"}
  BY DEF TypeInv, TypeOK, Control, ControlOf, RegisterCheck, RegisterInsert, Entry, Promotion
<1>2. CASE RegisterCheck(p)
  <2>1. skills' = skills
    BY <1>2 DEF RegisterCheck
  <2>2. OneChampionPerFamily' /\ DeployedImpliesApproved'
    BY <2>1, ReadOnly
  <2>3. CASE Raise(p)
    BY <2>2, <2>3, EndPromotion
  <2>4. CASE \E t \in Stored : Registered(p, t, skills[t].validated)
    BY <2>1, <2>2, <2>4, RegisteredPromotion DEF Stored
  <2>5. CASE Goto(p, "insert") /\ UNCHANGED locals
    <3>1. pc'[p] = "insert" /\ entry'[p] = e
      BY <2>5 DEF Goto, locals, TypeInv, TypeOK
    <3> QED
      BY <1>1, <2>2, <3>1 DEF Promotion
  <2> QED
    BY <1>2, <2>3, <2>4, <2>5 DEF RegisterCheck, Duplicates
<1>3. CASE RegisterInsert(p)
  <2>1. CASE Raise(p) /\ UNCHANGED skills
    BY <2>1, ReadOnly, EndPromotion
  <2>2. CASE Inserts(p) /\ Registered(p, e.id, Validated(e.code))
    <3>1. /\ Stored' = Stored \cup {e.id} /\ e.id \notin Stored
          /\ \A s \in Stored : skills'[s] = skills[s]
          /\ skills'[e.id] = NewRow(e)
      BY <2>2, InsertStep
    <3>2. skills'[e.id].stage \in {"candidate", "retired"}
      BY <1>1, <3>1 DEF NewRow
    <3>3. OneChampionPerFamily'
      BY <3>1, <3>2 DEF OneChampionPerFamily, FamilyOf
    <3>4. DeployedImpliesApproved'
      BY <3>1, <3>2 DEF DeployedImpliesApproved, Deployed
    <3>5. Validated(e.code) => skills'[e.id].validated
      BY <3>1 DEF NewRow
    <3>6. Promotion(p)'
      BY <1>1, <2>2, <3>5, RegisteredPromotion
    <3> QED
      BY <3>3, <3>4, <3>6
  <2> QED
    BY <1>3, <2>1, <2>2 DEF RegisterInsert, Inserts
<1> QED
  BY <1>2, <1>3

\* promote up to the replacement of the champions, and the reads of _transition.
LEMMA PromoteChampion ==
    ASSUME OneProcess, ChampionInv, NEW p \in Procs,
           RollbackGuard(p) \/ Champions(p) \/ ReadOld(p) \/ Read(p)
    PROVE  OneChampionPerFamily' /\ DeployedImpliesApproved' /\ Promotion(p)'
<1>1. skills' = skills
  BY DEF RollbackGuard, Champions, ReadOld, Read
<1>2. OneChampionPerFamily' /\ DeployedImpliesApproved'
  BY <1>1, ReadOnly
<1> DEFINE s == move[p].id
<1> USE DEF ChampionInv, TypeInv, TypeOK
<1>4. CASE RollbackGuard(p)
  <2>1. CASE Raise(p)
    BY <1>2, <2>1, EndPromotion
  <2>2. CASE /\ PromoteAllowed(s, "champion")
             /\ Goto(p, "champions")
             /\ move' = [move EXCEPT ![p] = PromoteMove(s, "champion")]
    <3>1. /\ pc'[p] = "champions" /\ move'[p].id = s
          /\ move'[p].approval = None /\ move'[p].stage = "champion"
      BY <2>2 DEF Goto, PromoteMove
    <3>2. skills'[s].validated /\ skills'[s].approval = "approved"
      BY <1>1, <2>2 DEF PromoteAllowed
    <3> QED
      BY <1>2, <3>1, <3>2 DEF Promotion, Approved
  <2> QED
    BY <1>4, <2>1, <2>2 DEF RollbackGuard
<1>5. CASE Champions(p)
  <2>1. /\ pc'[p] = IF CurrentChampions(s) = {} THEN "read" ELSE "read_old"
        /\ move' = move /\ todo'[p] = CurrentChampions(s)
    BY <1>5 DEF Champions, Goto
  <2>2. move[p].approval = None /\ move[p].stage = "champion" /\ Approved(s)
    BY <1>5 DEF Champions, Promotion
  <2>3. s \notin CurrentChampions(s)
    BY DEF CurrentChampions
  <2>4. MoveSafe(move[p])' /\ Approved(s)' /\ CurrentChampions(move[p].id)' = CurrentChampions(s)
    BY <1>1, <2>1, <2>2 DEF MoveSafe, Approved, Stages, CurrentChampions, FamilyOf, Stored
  <2>5. Promotion(p)'
    BY <2>1, <2>2, <2>3, <2>4 DEF Promotion
  <2> QED
    BY <1>2, <2>5
<1>6. CASE ReadOld(p)
  <2>1. PICK t \in todo[p] : victim'[p] = t /\ seen'[p] = skills[t]
    BY <1>6 DEF ReadOld
  <2>2. pc[p] = "read_old" /\ pc'[p] = "write_old" /\ move' = move /\ todo' = todo
    BY <1>6 DEF ReadOld, Goto
  <2>3. /\ Approved(s)' = Approved(s)
        /\ CurrentChampions(move[p].id)' = CurrentChampions(s)
    BY <1>1, <2>2 DEF Approved, CurrentChampions, FamilyOf, Stored
  <2>4. Promotion(p)'
    BY <1>1, <2>1, <2>2, <2>3 DEF Promotion
  <2> QED
    BY <1>2, <2>4
<1>7. CASE Read(p)
  <2>1. pc[p] = "read" /\ pc'[p] = "write" /\ move' = move /\ seen'[p] = skills[s]
    BY <1>7 DEF Read, Goto
  <2>2. /\ MoveSafe(move[p])' = MoveSafe(move[p])
        /\ CurrentChampions(move[p].id)' = CurrentChampions(s)
    BY <1>1, <2>1 DEF MoveSafe, Approved, CurrentChampions, FamilyOf, Stored
  <2>3. Promotion(p)'
    BY <1>1, <2>1, <2>2 DEF Promotion
  <2> QED
    BY <1>2, <2>3
<1> QED
  BY <1>4, <1>5, <1>6, <1>7

\* The UPDATE that retires a replaced champion.
LEMMA WriteOldChampion ==
    ASSUME OneProcess, ChampionInv, NEW p \in Procs, WriteOld(p)
    PROVE  OneChampionPerFamily' /\ DeployedImpliesApproved' /\ Promotion(p)'
<1> USE DEF ChampionInv
<1> DEFINE t == victim[p]
           s == move[p].id
           rest == todo[p] \ {t}
<1>1. /\ t \in todo[p] /\ t \in Stored /\ s \in Stored /\ s # t
      /\ seen[p] = skills[t] /\ ReplacedMove(t) \in Move
      /\ move[p].approval = None /\ move[p].stage = "champion" /\ Approved(s)
      /\ CurrentChampions(s) \subseteq todo[p] /\ s \notin todo[p]
  BY MoveTypes DEF WriteOld, TypeInv, TypeOK, Control, ControlOf, Stored, Promotion, Move
<1>2. /\ Stored' = Stored
      /\ \A u \in Stored \ {t} : skills'[u] = skills[u]
      /\ skills'[t].family = skills[t].family
      /\ skills'[t].stage = Given(ReplacedMove(t).stage, skills[t].stage)
  BY <1>1, UpdateEffect DEF WriteOld
<1>3. skills'[t].stage = "retired"
  BY <1>2, ConstantsAssumption DEF ReplacedMove, Given, Stages
<1>4. OneChampionPerFamily'
  BY <1>2, <1>3 DEF OneChampionPerFamily, FamilyOf
<1>5. DeployedImpliesApproved'
  BY <1>2, <1>3 DEF DeployedImpliesApproved, Deployed
<1>6. /\ pc'[p] = IF rest = {} THEN "read" ELSE "read_old"
      /\ move' = move /\ todo'[p] = rest
  BY DEF WriteOld, Goto, TypeInv, TypeOK
<1>7. Approved(s)' /\ MoveSafe(move[p])'
  BY <1>1, <1>2, <1>6 DEF Approved, MoveSafe, Stages
<1>8. CurrentChampions(move[p].id)' \subseteq rest
  <2>1. CurrentChampions(move[p].id)' = {u \in Stored' : /\ skills'[u].family = NextFamily(s)
                                                          /\ skills'[u].stage = "champion"
                                                          /\ u # s}
    BY <1>6 DEF CurrentChampions, NextFamily, FamilyOf
  <2>2. NextFamily(s) = FamilyOf(s)
    BY <1>1, <1>2 DEF NextFamily, FamilyOf
  <2>3. CurrentChampions(move[p].id)' \subseteq CurrentChampions(s) \ {t}
    BY <1>2, <1>3, <2>1, <2>2 DEF CurrentChampions
  <2> QED
    BY <1>1, <2>3
<1>9. Promotion(p)'
  BY <1>1, <1>6, <1>7, <1>8 DEF Promotion
<1> QED
  BY <1>4, <1>5, <1>9

\* The last UPDATE of a handler.
LEMMA WriteChampion ==
    ASSUME OneProcess, ChampionInv, NEW p \in Procs, Write(p)
    PROVE  OneChampionPerFamily' /\ DeployedImpliesApproved' /\ Promotion(p)'
<1> USE DEF ChampionInv
<1> DEFINE m == move[p]
           s == m.id
<1>1. /\ s \in Stored /\ seen[p] = skills[s] /\ m \in Move /\ MoveSafe(m)
      /\ m.stage = "champion" => CurrentChampions(s) = {}
  <2>1. pc[p] = "write" /\ Promotion(p) /\ ControlOf(p)
    BY DEF Write, TypeInv, Control
  <2>2. m \in Move /\ s \in SkillIds /\ s \in Stored
    BY <2>1 DEF TypeInv, TypeOK, ControlOf, Stored, Move
  <2>3. /\ seen[p] = skills[s] /\ MoveSafe(m)
        /\ m.stage = "champion" => CurrentChampions(s) = {}
    BY <2>1 DEF Promotion
  <2> QED
    BY <2>2, <2>3
<1>2. /\ Stored' = Stored
      /\ \A u \in Stored \ {s} : skills'[u] = skills[u]
      /\ skills'[s].family = skills[s].family
      /\ skills'[s].validated = skills[s].validated
      /\ skills'[s].stage = Given(m.stage, skills[s].stage)
      /\ skills'[s].approval = Given(m.approval, skills[s].approval)
  BY <1>1, UpdateEffect DEF Write
<1>3. Promotion(p)'
  BY EndPromotion DEF Write
<1>4. \A u \in Stored : FamilyOf(u) = skills[u].family /\ NextFamily(u) = FamilyOf(u)
  BY <1>1, <1>2 DEF Write, Migrated, BeforeInitDb, FamilyOf, NextFamily
<1>5. OneChampionPerFamily'
  <2> SUFFICES ASSUME NEW u \in Stored, NEW v \in Stored, u # v, v # s,
                      skills'[u].stage = "champion", skills'[v].stage = "champion",
                      FamilyOf(u) = FamilyOf(v)
               PROVE  FALSE
    BY <1>2, <1>4 DEF OneChampionPerFamily, FamilyOf, NextFamily
  <2>1. skills[v].stage = "champion"
    BY <1>2
  <2>2. CASE skills[u].stage = "champion"
    BY <2>1, <2>2 DEF OneChampionPerFamily
  <2>3. CASE skills[u].stage # "champion"
    <3>1. u = s /\ m.stage = "champion"
      BY <1>2, <2>3 DEF Given
    <3>2. v \in CurrentChampions(s)
      BY <1>4, <2>1, <3>1 DEF CurrentChampions
    <3> QED
      BY <1>1, <3>1, <3>2
  <2> QED
    BY <2>2, <2>3
<1>6. DeployedImpliesApproved'
  <2>1. ASSUME skills'[s].stage \notin {"candidate", "retired"}
        PROVE  skills'[s].validated /\ skills'[s].approval = "approved"
    <3>1. m.stage \notin {"candidate", "retired"}
      BY <1>2, <2>1, ConstantsAssumption DEF Given, Stages
    <3>2. CASE m.approval = "approved" /\ m.stage = None /\ skills[s].validated
      BY <1>2, <3>2, ConstantsAssumption DEF Given, Approvals
    <3>3. CASE m.approval = None /\ Approved(s)
      BY <1>2, <3>3 DEF Given, Approved
    <3> QED
      BY <1>1, <3>1, <3>2, <3>3 DEF MoveSafe
  <2> QED
    BY <1>2, <2>1 DEF DeployedImpliesApproved, Deployed
<1> QED
  BY <1>3, <1>5, <1>6

\* ChampionInv is inductive.
LEMMA ChampionStep ==
    ASSUME OneProcess, UndeployedRegistrations
    PROVE  ChampionInv /\ [Next]_vars => ChampionInv'
<1> SUFFICES ASSUME ChampionInv, [Next]_vars PROVE ChampionInv'
  OBVIOUS
<1>1. CASE UNCHANGED vars
  <2>1. TypeInv' /\ Migrated'
    BY TypeInvStep, MigratedStep DEF ChampionInv
  <2>2. OneChampionPerFamily' /\ DeployedImpliesApproved'
    BY <1>1, ReadOnly DEF vars
  <2>3. \A p \in Procs : Promotion(p)'
    BY <1>1 DEF vars, ChampionInv, Promotion, MoveSafe, Approved, CurrentChampions,
       FamilyOf, Stored
  <2> QED
    BY <2>1, <2>2, <2>3 DEF ChampionInv
<1>2. CASE Next
  <2>1. PICK p \in Procs :
           Start(p) \/ Request(p) \/ Continue(p) \/ Crash(p) \/ WriteFails(p)
    BY <1>2 DEF Next
  <2>2. CASE Crash(p)
    <3>1. skills' = skills /\ pc'[p] = "down"
      BY <2>2 DEF Crash, ChampionInv, TypeInv, TypeOK
    <3>2. Promotion(p)'
      BY <3>1 DEF Promotion
    <3> QED
      BY <3>1, <3>2, ReadOnly, ChampionSuffices
  <2>3. CASE WriteFails(p)
    <3>1. skills' = skills /\ Promotion(p)'
      BY <2>3, EndPromotion DEF WriteFails, ChampionInv
    <3> QED
      BY <3>1, ReadOnly, ChampionSuffices
  <2>4. CASE Start(p) \/ Request(p) \/ Continue(p)
    <3>1. OneChampionPerFamily' /\ DeployedImpliesApproved' /\ Promotion(p)'
      BY <2>4, StartUpChampion, RequestChampion, RegisterChampion, PromoteChampion,
         WriteOldChampion, WriteChampion DEF Continue
    <3> QED
      BY <3>1, ChampionSuffices
  <2> QED
    BY <2>1, <2>2, <2>3, <2>4
<1> QED
  BY <1>1, <1>2

\* With one process, a family never has two champions: not between the writes of
\* promote, nor after a crash or a failed write at any of them.
THEOREM SingleChampion ==
    ASSUME OneProcess, UndeployedRegistrations
    PROVE  Spec => []OneChampionPerFamily
<1>1. ChampionInv => OneChampionPerFamily
  BY DEF ChampionInv
<1> QED
  BY <1>1, ChampionInit, ChampionStep, PTL DEF Spec

\* With one process, every skill beyond candidate is validated and approved,
\* through any sequence of approvals, deprecations, promotions and rollbacks.
THEOREM DeployedSkillsApproved ==
    ASSUME OneProcess, UndeployedRegistrations
    PROVE  Spec => []DeployedImpliesApproved
<1>1. ChampionInv => DeployedImpliesApproved
  BY DEF ChampionInv
<1> QED
  BY <1>1, ChampionInit, ChampionStep, PTL DEF Spec

-----------------------------------------------------------------------------
(* The registry implements FamilyChampions                                 *)

\* Skill s is the champion of family f, now and after a step.
IsChampion(s, f) == s \in Stored /\ FamilyOf(s) = f /\ skills[s].stage = "champion"

NextChampion(s, f) == s \in Stored' /\ NextFamily(s) = f /\ skills'[s].stage = "champion"

\* The inductive invariant, and what the moves under way ask for.
RefinementInv ==
    ChampionInv /\ \A p \in Procs : move[p] # None => MoveShape(move[p])

\* The refinement mapping picks the one champion there is.
LEMMA ChampionOfIs ==
    ASSUME OneChampionPerFamily, NEW f
    PROVE  /\ \A s \in SkillIds : ChampionOf(f) = s <=> IsChampion(s, f)
           /\ ChampionOf(f) \in SkillIds \cup {None}
<1> DEFINE C == {s \in Stored : FamilyOf(s) = f /\ skills[s].stage = "champion"}
<1>1. \A s, t \in C : s = t
  BY DEF OneChampionPerFamily
<1>2. None \notin SkillIds /\ C \subseteq SkillIds
  BY ConstantsAssumption DEF Stored
<1>3. ChampionOf(f) = IF C = {} THEN None ELSE CHOOSE s \in C : TRUE
  BY DEF ChampionOf
<1>4. \A s : s \in C <=> IsChampion(s, f)
  BY DEF IsChampion
<1> HIDE DEF C
<1> QED
  BY <1>1, <1>2, <1>3, <1>4

\* So it does after a step.
LEMMA NextChampionOfIs ==
    ASSUME OneChampionPerFamily', NEW f
    PROVE  /\ \A s \in SkillIds : ChampionOf(f)' = s <=> NextChampion(s, f)
           /\ ChampionOf(f)' \in SkillIds \cup {None}
<1> DEFINE C == {s \in Stored' : NextFamily(s) = f /\ skills'[s].stage = "champion"}
<1>1. \A s, t \in C : s = t
  BY DEF OneChampionPerFamily, FamilyOf, NextFamily
<1>2. None \notin SkillIds /\ C \subseteq SkillIds
  BY ConstantsAssumption DEF Stored
<1>3. ChampionOf(f)' = IF C = {} THEN None ELSE CHOOSE s \in C : TRUE
  BY DEF ChampionOf, FamilyOf, NextFamily
<1>4. \A s : s \in C <=> NextChampion(s, f)
  BY DEF NextChampion
<1> HIDE DEF C
<1> QED
  BY <1>1, <1>2, <1>3, <1>4

\* The abstract variables and what they become.
Champion == [f \in Families |-> ChampionOf(f)]

ApprovedSkills == {s \in Stored : skills[s].approval = "approved"}

\* A step that crowns nobody, dethrones nobody and approves nobody.
LEMMA SameChampions ==
    ASSUME OneChampionPerFamily, OneChampionPerFamily',
           \A s \in SkillIds, f \in Families : NextChampion(s, f) <=> IsChampion(s, f)
    PROVE  Champion' = Champion
<1>1. ASSUME NEW f \in Families
      PROVE  ChampionOf(f)' = ChampionOf(f)
  <2>1. /\ \A s \in SkillIds : ChampionOf(f) = s <=> IsChampion(s, f)
        /\ ChampionOf(f) \in SkillIds \cup {None}
    BY ChampionOfIs
  <2>2. /\ \A s \in SkillIds : ChampionOf(f)' = s <=> NextChampion(s, f)
        /\ ChampionOf(f)' \in SkillIds \cup {None}
    BY NextChampionOfIs
  <2> QED
    BY <2>1, <2>2
<1> QED
  BY <1>1 DEF Champion

\* A step after which s, the champion of its family, is not champion any more.
LEMMA ChampionLeaves ==
    ASSUME OneChampionPerFamily, OneChampionPerFamily', NEW t \in SkillIds,
           \A s \in SkillIds, f \in Families :
               NextChampion(s, f) <=> IsChampion(s, f) /\ s # t
    PROVE  Champion' = [f \in Families |-> IF Champion[f] = t THEN None ELSE Champion[f]]
<1>1. ASSUME NEW f \in Families
      PROVE  ChampionOf(f)' = IF ChampionOf(f) = t THEN None ELSE ChampionOf(f)
  <2>1. /\ \A s \in SkillIds : ChampionOf(f) = s <=> IsChampion(s, f)
        /\ ChampionOf(f) \in SkillIds \cup {None}
    BY ChampionOfIs
  <2>2. /\ \A s \in SkillIds : ChampionOf(f)' = s <=> NextChampion(s, f)
        /\ ChampionOf(f)' \in SkillIds \cup {None}
    BY NextChampionOfIs
  <2>3. None \notin SkillIds
    BY ConstantsAssumption
  <2> QED
    BY <2>1, <2>2, <2>3
<1> QED
  BY <1>1 DEF Champion

\* An UPDATE that takes t off the champions and leaves the approvals alone is a
\* StandDown, or nothing if t was no champion.
LEMMA StandDownStep ==
    ASSUME TypeInv, OneChampionPerFamily, OneChampionPerFamily', NEW t \in Stored,
           \A s \in SkillIds, f \in Families :
               NextChampion(s, f) <=> IsChampion(s, f) /\ s # t,
           ApprovedSkills' = ApprovedSkills
    PROVE  \/ \E f \in Families : Champs!StandDown(f)
           \/ Champion' = Champion
<1>1. t \in SkillIds /\ skills[t] \in Row /\ FamilyOf(t) \in Families
  BY ConstantsAssumption DEF TypeInv, TypeOK, Stored, FamilyOf, Row
<1>2. CASE skills[t].stage = "champion"
  <2> DEFINE f == FamilyOf(t)
  <2>1. Champion[f] = t /\ t # None
    BY <1>1, <1>2, ChampionOfIs, ConstantsAssumption DEF IsChampion, Champion
  <2>2. \A g \in Families : g # f => Champion[g] # t
    BY <1>1, ChampionOfIs DEF IsChampion, Champion
  <2>3. Champion' = [Champion EXCEPT ![f] = None]
    <3>1. Champion' = [g \in Families |-> IF Champion[g] = t THEN None ELSE Champion[g]]
      BY <1>1, ChampionLeaves
    <3>2. Champion = [g \in Families |-> Champion[g]]
      BY DEF Champion
    <3> QED
      BY <1>1, <2>1, <2>2, <3>1, <3>2
  <2>4. Champs!StandDown(f)
    BY <2>1, <2>3 DEF Champs!StandDown, Champion, ApprovedSkills
  <2> QED
    BY <1>1, <2>4
<1>3. CASE skills[t].stage # "champion"
  <2>1. \A s \in SkillIds, f \in Families : NextChampion(s, f) <=> IsChampion(s, f)
    BY <1>3 DEF IsChampion
  <2> QED
    BY <2>1, SameChampions
<1> QED
  BY <1>2, <1>3

\* A step that keeps family, stage and approval of every stored skill, and stores
\* at most new drafts below champion, is a stutter.
LEMMA ChampionStutter ==
    ASSUME OneChampionPerFamily, OneChampionPerFamily',
           \A s \in Stored : /\ s \in Stored' /\ NextFamily(s) = FamilyOf(s)
                             /\ skills'[s].stage = skills[s].stage
                             /\ skills'[s].approval = skills[s].approval,
           \A s \in Stored' \ Stored : /\ skills'[s].stage # "champion"
                                       /\ skills'[s].approval = "draft"
    PROVE  Champion' = Champion /\ ApprovedSkills' = ApprovedSkills
<1>1. \A s \in SkillIds, f \in Families : NextChampion(s, f) <=> IsChampion(s, f)
  BY DEF NextChampion, IsChampion
<1>2. ApprovedSkills' = ApprovedSkills
  BY DEF ApprovedSkills
<1> QED
  BY <1>1, <1>2, SameChampions

\* The UPDATE that retires a replaced champion: it stands down.
LEMMA WriteOldRefines ==
    ASSUME OneProcess, RefinementInv, OneChampionPerFamily', NEW p \in Procs, WriteOld(p)
    PROVE  [Champs!Next]_<<Champion, ApprovedSkills>>
<1> USE DEF RefinementInv, ChampionInv
<1> DEFINE t == victim[p]
<1>1. t \in Stored /\ seen[p] = skills[t] /\ ReplacedMove(t) \in Move
  BY MoveTypes DEF WriteOld, TypeInv, TypeOK, Control, ControlOf, Stored, Promotion
<1>2. /\ Stored' = Stored
      /\ \A u \in Stored \ {t} : skills'[u] = skills[u]
      /\ skills'[t].family = skills[t].family
      /\ skills'[t].stage = Given(ReplacedMove(t).stage, skills[t].stage)
      /\ skills'[t].approval = Given(ReplacedMove(t).approval, skills[t].approval)
  BY <1>1, UpdateEffect DEF WriteOld
<1>3. skills'[t].stage = "retired" /\ skills'[t].approval = skills[t].approval
  BY <1>2, ConstantsAssumption DEF ReplacedMove, Given, Stages
<1>4. ApprovedSkills' = ApprovedSkills
  BY <1>2, <1>3 DEF ApprovedSkills
<1>5. \A s \in SkillIds, f \in Families : NextChampion(s, f) <=> IsChampion(s, f) /\ s # t
  BY <1>2, <1>3 DEF NextChampion, IsChampion, NextFamily, FamilyOf
<1>6. (\E f \in Families : Champs!StandDown(f)) \/ Champion' = Champion
  BY <1>1, <1>4, <1>5, StandDownStep
<1> QED
  BY <1>4, <1>6 DEF Champs!Next

\* The UPDATE of a handler: an approval, a deprecation, a crowning, a champion
\* that stands down, or nothing that the abstraction sees.
LEMMA WriteRefines ==
    ASSUME OneProcess, RefinementInv, OneChampionPerFamily', NEW p \in Procs, Write(p)
    PROVE  [Champs!Next]_<<Champion, ApprovedSkills>>
<1> USE DEF RefinementInv, ChampionInv
<1> DEFINE m == move[p]
           t == m.id
<1>1. /\ t \in Stored /\ t \in SkillIds /\ seen[p] = skills[t] /\ m \in Move /\ MoveSafe(m)
      /\ m # None /\ MoveShape(m)
      /\ m.stage = "champion" => CurrentChampions(t) = {}
  <2>1. pc[p] = "write" /\ Promotion(p) /\ ControlOf(p)
    BY DEF Write, TypeInv, Control
  <2>2. m \in Move /\ t \in SkillIds /\ t \in Stored /\ m # None
    BY <2>1 DEF TypeInv, TypeOK, ControlOf, Stored, Move
  <2> QED
    BY <2>1, <2>2 DEF Promotion
<1>2. /\ Stored' = Stored
      /\ \A u \in Stored \ {t} : skills'[u] = skills[u]
      /\ skills'[t].family = skills[t].family
      /\ skills'[t].stage = Given(m.stage, skills[t].stage)
      /\ skills'[t].approval = Given(m.approval, skills[t].approval)
  BY <1>1, UpdateEffect DEF Write
<1>3. \A u \in Stored : FamilyOf(u) = skills[u].family /\ NextFamily(u) = FamilyOf(u)
  BY <1>1, <1>2 DEF Write, Migrated, BeforeInitDb, FamilyOf, NextFamily
<1>4. FamilyOf(t) \in Families /\ None \notin Stages /\ None \notin Approvals
  BY <1>1, ConstantsAssumption DEF TypeInv, TypeOK, Stored, FamilyOf, Row
<1>5. CASE m.approval = "approved" /\ m.stage = None
  <2>1. skills'[t].stage = skills[t].stage /\ skills'[t].approval = "approved"
    BY <1>2, <1>4, <1>5 DEF Given, Approvals
  <2>2. \A s \in SkillIds, f \in Families : NextChampion(s, f) <=> IsChampion(s, f)
    BY <1>2, <1>3, <2>1 DEF NextChampion, IsChampion
  <2>3. Champion' = Champion
    BY <2>2, SameChampions
  <2>4. ApprovedSkills' = ApprovedSkills \cup {t}
    BY <1>1, <1>2, <2>1 DEF ApprovedSkills
  <2>5. \E s \in SkillIds : Champs!Approve(s)
    BY <1>1, <2>3, <2>4 DEF Champs!Approve, Champion, ApprovedSkills
  <2> QED
    BY <2>5 DEF Champs!Next
<1>6. CASE m.approval = "deprecated" /\ m.stage = "retired"
  <2>1. skills'[t].stage = "retired" /\ skills'[t].approval = "deprecated"
    BY <1>2, <1>4, <1>6 DEF Given, Approvals, Stages
  <2>2. \A s \in SkillIds, f \in Families : NextChampion(s, f) <=> IsChampion(s, f) /\ s # t
    BY <1>2, <1>3, <2>1 DEF NextChampion, IsChampion
  <2>3. Champion' = [f \in Families |-> IF Champion[f] = t THEN None ELSE Champion[f]]
    BY <1>1, <2>2, ChampionLeaves
  <2>4. ApprovedSkills' = ApprovedSkills \ {t}
    BY <1>2, <2>1 DEF ApprovedSkills
  <2>5. \E s \in SkillIds : Champs!Deprecate(s)
    BY <1>1, <2>3, <2>4 DEF Champs!Deprecate, Champion, ApprovedSkills
  <2> QED
    BY <2>5 DEF Champs!Next
<1>7. CASE m.approval = None /\ m.stage \in Stages
  <2>1. skills'[t].stage = m.stage /\ skills'[t].approval = skills[t].approval
    BY <1>2, <1>4, <1>7 DEF Given
  <2>2. ApprovedSkills' = ApprovedSkills
    BY <1>2, <2>1 DEF ApprovedSkills
  <2>3. CASE m.stage # "champion"
    <3>1. \A s \in SkillIds, f \in Families : NextChampion(s, f) <=> IsChampion(s, f) /\ s # t
      BY <1>2, <1>3, <2>1, <2>3 DEF NextChampion, IsChampion
    <3>2. (\E f \in Families : Champs!StandDown(f)) \/ Champion' = Champion
      BY <1>1, <2>2, <3>1, StandDownStep
    <3> QED
      BY <2>2, <3>2 DEF Champs!Next
  <2>4. CASE m.stage = "champion" /\ skills[t].stage = "champion"
    <3>1. \A s \in SkillIds, f \in Families : NextChampion(s, f) <=> IsChampion(s, f)
      BY <1>2, <1>3, <2>1, <2>4 DEF NextChampion, IsChampion
    <3> QED
      BY <2>2, <3>1, SameChampions
  <2>5. CASE m.stage = "champion" /\ skills[t].stage # "champion"
    <3> DEFINE f == FamilyOf(t)
    <3>1. \A s \in SkillIds : ~IsChampion(s, f)
      <4>1. CurrentChampions(t) = {}
        BY <1>1, <2>5
      <4> QED
        BY <1>3, <2>5, <4>1 DEF IsChampion, CurrentChampions
    <3>2. Champion[f] = None
      BY <1>4, <3>1, ChampionOfIs DEF Champion
    <3>3. t \in ApprovedSkills
      BY <1>1, <1>4, <1>7, <2>5 DEF MoveSafe, Approved, ApprovedSkills
    <3>4. \A g \in Families : Champion[g] # t
      BY <1>1, <2>5, ChampionOfIs DEF Champion, IsChampion
    <3>5. \A s \in SkillIds, g \in Families :
             NextChampion(s, g) <=> IsChampion(s, g) \/ (s = t /\ g = f)
      BY <1>1, <1>2, <1>3, <2>1, <2>5 DEF NextChampion, IsChampion
    <3>6. ASSUME NEW g \in Families
          PROVE  ChampionOf(g)' = IF g = f THEN t ELSE ChampionOf(g)
      <4>1. /\ \A s \in SkillIds : ChampionOf(g) = s <=> IsChampion(s, g)
            /\ ChampionOf(g) \in SkillIds \cup {None}
        BY ChampionOfIs
      <4>2. /\ \A s \in SkillIds : ChampionOf(g)' = s <=> NextChampion(s, g)
            /\ ChampionOf(g)' \in SkillIds \cup {None}
        BY NextChampionOfIs
      <4>3. CASE g = f
        BY <1>1, <3>5, <4>2, <4>3
      <4>4. CASE g # f
        BY <3>5, <4>1, <4>2, <4>4
      <4> QED
        BY <4>3, <4>4
    <3>7. Champion' = [Champion EXCEPT ![f] = t]
      BY <3>6 DEF Champion
    <3>8. \E g \in Families, s \in SkillIds : Champs!Crown(g, s)
      BY <1>1, <1>4, <2>2, <3>2, <3>3, <3>4, <3>7 DEF Champs!Crown, Champion, ApprovedSkills
    <3> QED
      BY <3>8 DEF Champs!Next
  <2> QED
    BY <2>3, <2>4, <2>5
<1> QED
  BY <1>1, <1>5, <1>6, <1>7 DEF MoveShape

\* The other steps are not seen: they read, migrate, or insert a skill that is
\* neither champion nor approved.
LEMMA OtherStepsRefine ==
    ASSUME OneProcess, UndeployedRegistrations, RefinementInv, OneChampionPerFamily',
           [Next]_vars,
           ~\E p \in Procs : WriteOld(p) \/ Write(p)
    PROVE  Champion' = Champion /\ ApprovedSkills' = ApprovedSkills
<1> USE DEF RefinementInv, ChampionInv
<1>1. CASE UNCHANGED skills
  BY <1>1, ChampionStutter DEF Stored, NextFamily, FamilyOf
<1>2. ASSUME NEW p \in Procs, InitDb(p)
      PROVE  Champion' = Champion /\ ApprovedSkills' = ApprovedSkills
  <2>1. (\A s \in Stored : IdentityKept(s)) /\ Stored' = Stored
    BY <1>2, TableStep DEF InitDb, Inserts, OneProcess
  <2>2. ASSUME NEW s \in Stored
        PROVE  skills'[s].stage = skills[s].stage /\ skills'[s].approval = skills[s].approval
    <3>1. skills'[s] = Normalised(s) /\ skills[s] \in Row
      BY <1>2 DEF InitDb, Stored, TypeInv, TypeOK
    <3>2. skills'[s].stage = skills[s].stage
      BY <3>1 DEF Normalised, Row
    <3>3. skills'[s].approval = skills[s].approval
      BY <3>1 DEF Normalised, Row
    <3> QED
      BY <3>2, <3>3
  <2> QED
    BY <2>1, <2>2, ChampionStutter DEF IdentityKept
<1>3. ASSUME NEW p \in Procs, Inserts(p)
      PROVE  Champion' = Champion /\ ApprovedSkills' = ApprovedSkills
  <2> DEFINE e == entry[p]
  <2>1. /\ Stored' = Stored \cup {e.id} /\ e.id \notin Stored
        /\ \A s \in Stored : skills'[s] = skills[s] /\ NextFamily(s) = FamilyOf(s)
        /\ skills'[e.id] = NewRow(e)
    BY <1>3, InsertStep
  <2>2. e.stage \in {"candidate", "retired"}
    BY <1>3 DEF Inserts, Promotion
  <2>3. skills'[e.id].stage # "champion" /\ skills'[e.id].approval = "draft"
    BY <2>1, <2>2 DEF NewRow
  <2> QED
    BY <2>1, <2>3, ChampionStutter
<1>4. ASSUME NEW p \in Procs, RegisterInsert(p)
      PROVE  Inserts(p) \/ UNCHANGED skills
  BY <1>4 DEF RegisterInsert, Inserts
<1>5. ASSUME NEW p \in Procs,
             \/ Start(p) \/ Request(p) \/ RegisterCheck(p) \/ RollbackGuard(p)
             \/ Champions(p) \/ ReadOld(p) \/ Read(p) \/ Crash(p) \/ WriteFails(p)
      PROVE  UNCHANGED skills
  BY <1>5 DEF Start, Request, RegisterSkill, CreateVersion, ApproveSkill,
       ApproveFromBacktest, DeprecateSkill, PromoteSkill, Rollback, Accept,
       RegisterCheck, RollbackGuard, Champions, ReadOld, Read, Crash, WriteFails
<1> QED
  BY <1>1, <1>2, <1>3, <1>4, <1>5 DEF Next, Continue, vars

\* The file before the first start has no champion.
LEMMA RefinementInit == Init => Champs!Init
<1> SUFFICES ASSUME Init PROVE Champs!Init
  OBVIOUS
<1>1. \A s \in Stored : skills[s].stage = "candidate"
  BY DEF Init, Stored, LegacyRows, LegacyRow
<1>2. \A f : ChampionOf(f) = None
  BY <1>1 DEF ChampionOf
<1> QED
  BY <1>2 DEF Champs!Init, Stored

\* Every step is a step of FamilyChampions or a stutter.
LEMMA RefinementStep ==
    ASSUME OneProcess, UndeployedRegistrations, RefinementInv, [Next]_vars
    PROVE  [Champs!Next]_<<Champion, ApprovedSkills>>
<1>1. OneChampionPerFamily'
  BY ChampionStep DEF RefinementInv, ChampionInv
<1> QED
  BY <1>1, WriteOldRefines, WriteRefines, OtherStepsRefine

\* The writes of one process, failures included, do to the champions only what
\* FamilyChampions allows: a champion stands down before its successor is
\* crowned, and only an approved skill is crowned.
THEOREM RegistryImplementsFamilyChampions ==
    ASSUME OneProcess, UndeployedRegistrations
    PROVE  Spec => ImplementsFamilyChampions
<1>1. Init => ChampionInv /\ AuditInv /\ EntriesStaged
  BY ChampionInit, AuditInit
<1>2. (ChampionInv /\ AuditInv /\ EntriesStaged) /\ [Next]_vars
        => (ChampionInv /\ AuditInv /\ EntriesStaged)'
  BY ChampionStep, AuditStep
<1>3. ChampionInv /\ AuditInv => RefinementInv
  BY DEF RefinementInv, AuditInv
<1>4. RefinementInv /\ [Next]_vars => [Champs!Next]_<<Champion, ApprovedSkills>>
  BY RefinementStep
<1>5. RefinementInv /\ [Next]_vars =>
        [Champs!Next]_<<[f \in Families |-> ChampionOf(f)],
                        {s \in Stored : skills[s].approval = "approved"}>>
  BY <1>4 DEF Champion, ApprovedSkills
<1> QED
  BY <1>1, <1>2, <1>3, <1>5, RefinementInit, PTL
  DEF Spec, ImplementsFamilyChampions, Champs!Spec

-----------------------------------------------------------------------------
(* History, migration and the report of a rollback                         *)

\* The row _transition read is the row it overwrites.
Fresh(p) ==
    /\ pc[p] = "write_old" => seen[p] = skills[victim[p]]
    /\ pc[p] = "write" => seen[p] = skills[move[p].id]

\* The migration has made every approved or deprecated skill immutable.
RowsFirm == \A s \in Stored : skills[s].approval # "draft" => skills[s].immutable

\* No move makes a skill mutable that is, or is about to be, more than a draft.
MoveFirm(m) == skills[m.id].immutable \/ m.approval # None => m.immutable = TRUE

Firm(p) ==
    /\ pc[p] \notin BeforeInitDb => RowsFirm
    /\ pc[p] \in {"guard", "champions", "read_old", "write_old", "read", "write"} =>
           MoveFirm(move[p])

\* promote retired t, and its last note says so.
Replaced(t) ==
    /\ t \in Stored
    /\ skills[t].stage = "retired"
    /\ Last(skills[t].notes).action = "champion_replaced"

\* The champion that a rollback will report is one that promote has still to
\* retire, or has retired.
Reported(p) ==
    /\ pc[p] \notin {"guard", "champions", "read_old", "write_old", "read", "write"} =>
           prior[p] = None
    /\ prior[p] # None /\ pc[p] \in {"guard", "champions"} =>
           prior[p] \in CurrentChampions(move[p].id)
    /\ prior[p] # None /\ pc[p] \in {"read_old", "write_old"} =>
           prior[p] \in todo[p] \/ Replaced(prior[p])
    /\ prior[p] # None /\ pc[p] \in {"read", "write"} => Replaced(prior[p])

SoleInv == TypeInv /\ Migrated /\ \A p \in Procs : Fresh(p) /\ Firm(p) /\ Reported(p)

\* The handler or the process ends.
LEMMA EndSole ==
    ASSUME TypeInv, NEW p \in Procs, Clear(p),
           pc'[p] \in {"idle", "init_db", "failed", "down"},
           pc'[p] = "idle" => RowsFirm'
    PROVE  Fresh(p)' /\ Firm(p)' /\ Reported(p)'
<1>1. prior'[p] = None
  BY DEF Clear, TypeInv, TypeOK
<1> QED
  BY <1>1 DEF Fresh, Firm, Reported, BeforeInitDb

\* A step that only reads the table keeps what was known of it.
LEMMA ReadSole ==
    ASSUME skills' = skills
    PROVE  /\ RowsFirm' = RowsFirm
           /\ \A t : Replaced(t)' = Replaced(t)
           /\ \A s : CurrentChampions(s)' = CurrentChampions(s)
           /\ \A m : MoveFirm(m)' = MoveFirm(m)
BY DEF RowsFirm, Replaced, CurrentChampions, MoveFirm, Stored, FamilyOf

\* Start-up.
LEMMA StartUpSole ==
    ASSUME SoleInv, NEW p \in Procs, Start(p) \/ InitDb(p)
    PROVE  Fresh(p)' /\ Firm(p)' /\ Reported(p)'
<1> USE DEF SoleInv
<1>1. CASE Start(p)
  <2>1. pc'[p] = "init_db" /\ prior'[p] = prior[p] /\ pc[p] \in {"down", "failed"}
    BY <1>1 DEF Start, locals, TypeInv, TypeOK
  <2> QED
    BY <2>1 DEF Fresh, Firm, Reported, BeforeInitDb
<1>2. CASE InitDb(p)
  <2>1. RowsFirm'
    <3> SUFFICES ASSUME NEW s \in Stored', skills'[s].approval # "draft"
                 PROVE  skills'[s].immutable
      BY DEF RowsFirm
    <3>1. s \in Stored /\ skills'[s] = Normalised(s) /\ skills[s] \in Row
      BY <1>2 DEF InitDb, Stored, TypeInv, TypeOK
    <3>2. Normalised(s).immutable =
             (skills[s].immutable \/ skills[s].approval \in {"approved", "deprecated"})
      BY <3>1 DEF Normalised, Row
    <3>3. Normalised(s).approval = skills[s].approval
      BY <3>1 DEF Normalised, Row
    <3>4. skills[s].approval \in {"approved", "deprecated"}
      BY <3>1, <3>3 DEF Row, Approvals
    <3> QED
      BY <3>1, <3>2, <3>4
  <2>2. CASE Return(p)
    <3>1. Clear(p) /\ pc'[p] \in {"idle", "init_db"}
      BY <2>2 DEF Return, TypeInv, TypeOK
    <3> QED
      BY <2>1, <3>1, EndSole
  <2>3. CASE Goto(p, "check") /\ UNCHANGED prior
    <3>1. pc[p] = "init_db" /\ pc'[p] = "check" /\ prior'[p] = prior[p]
      BY <1>2, <2>3 DEF InitDb, Goto, TypeInv, TypeOK
    <3>2. prior[p] = None
      BY <3>1 DEF Reported
    <3> QED
      BY <2>1, <3>1, <3>2 DEF Fresh, Firm, Reported
  <2> QED
    BY <1>2, <2>2, <2>3 DEF InitDb
<1> QED
  BY <1>1, <1>2

\* promote never clears the flag of an immutable skill.
LEMMA PromoteFirm ==
    ASSUME NEW s \in Stored, NEW stage, TypeInv, skills' = skills, NEW p \in Procs,
           move'[p] = PromoteMove(s, stage)
    PROVE  move'[p].id = s /\ MoveFirm(move[p])'
<1>1. skills[s].immutable \in BOOLEAN
  BY DEF TypeInv, TypeOK, Stored, Row
<1>2. PromoteMove(s, stage).immutable = (skills[s].immutable \/ stage # "candidate")
  BY DEF PromoteMove
<1>3. move'[p].id = s /\ move'[p].approval = None
  BY DEF PromoteMove
<1>4. skills'[s].immutable => move'[p].immutable = TRUE
  BY <1>1, <1>2
<1> QED
  BY <1>3, <1>4 DEF MoveFirm

\* The requests.
LEMMA RequestSole ==
    ASSUME SoleInv, NEW p \in Procs, Request(p)
    PROVE  Fresh(p)' /\ Firm(p)' /\ Reported(p)'
<1> USE DEF SoleInv
<1>1. skills' = skills /\ pc[p] = "idle"
  BY DEF Request, RegisterSkill, CreateVersion, ApproveSkill, ApproveFromBacktest,
     DeprecateSkill, PromoteSkill, Rollback, Accept
<1>2. RowsFirm /\ RowsFirm' /\ prior[p] = None
  BY <1>1, ReadSole DEF Firm, Reported, BeforeInitDb
<1>3. CASE RegisterSkill(p) \/ CreateVersion(p)
  <2>1. pc'[p] = "check" /\ prior'[p] = None
    BY <1>2, <1>3 DEF RegisterSkill, CreateVersion, TypeInv, TypeOK
  <2> QED
    BY <1>2, <2>1 DEF Fresh, Firm, Reported
<1>4. ASSUME pc'[p] \in {"read", "champions"}, prior'[p] = None, MoveFirm(move[p])'
      PROVE  Fresh(p)' /\ Firm(p)' /\ Reported(p)'
  BY <1>2, <1>4 DEF Fresh, Firm, Reported
<1>5. CASE ApproveSkill(p) \/ ApproveFromBacktest(p) \/ DeprecateSkill(p)
  <2>1. pc'[p] = "read" /\ prior'[p] = None
    BY <1>2, <1>5 DEF ApproveSkill, ApproveFromBacktest, DeprecateSkill, TypeInv, TypeOK
  <2>2. move'[p].immutable = TRUE
    BY <1>5 DEF ApproveSkill, ApproveFromBacktest, DeprecateSkill, ApproveMove,
       DeprecateMove, TypeInv, TypeOK
  <2> QED
    BY <1>4, <2>1, <2>2 DEF MoveFirm
<1>6. CASE PromoteSkill(p)
  <2>1. PICK s \in Stored, stage \in PromoteStages :
           /\ move' = [move EXCEPT ![p] = PromoteMove(s, stage)]
           /\ pc' = [pc EXCEPT ![p] = IF stage = "champion" THEN "champions" ELSE "read"]
    BY <1>6 DEF PromoteSkill
  <2>2. /\ pc'[p] \in {"read", "champions"} /\ prior'[p] = None
        /\ move'[p] = PromoteMove(s, stage)
    BY <1>2, <1>6, <2>1 DEF PromoteSkill, TypeInv, TypeOK
  <2>3. MoveFirm(move[p])'
    BY <1>1, <2>2, PromoteFirm
  <2> QED
    BY <1>4, <2>2, <2>3
<1>7. CASE Rollback(p)
  <2>1. PICK s \in Stored :
           /\ move' = [move EXCEPT ![p] = PromoteMove(s, "champion")]
           /\ \/ \E t \in CurrentChampions(s) : prior' = [prior EXCEPT ![p] = t]
              \/ CurrentChampions(s) = {} /\ UNCHANGED prior
    BY <1>7 DEF Rollback
  <2>2. pc'[p] = "guard" /\ move'[p] = PromoteMove(s, "champion")
    BY <1>7, <2>1 DEF Rollback, TypeInv, TypeOK
  <2>3. prior'[p] = None \/ prior'[p] \in CurrentChampions(s)
    BY <1>2, <2>1 DEF TypeInv, TypeOK
  <2>4. move'[p].id = s /\ MoveFirm(move[p])'
    BY <1>1, <2>2, PromoteFirm
  <2>5. CurrentChampions(move[p].id)' = CurrentChampions(s)
    BY <1>1, <2>4 DEF CurrentChampions, FamilyOf, Stored
  <2> QED
    BY <1>2, <2>2, <2>3, <2>4, <2>5 DEF Fresh, Firm, Reported
<1> QED
  BY <1>3, <1>5, <1>6, <1>7 DEF Request

\* register: the seed's approval makes it immutable, and a new row is a draft.
LEMMA RegisterSole ==
    ASSUME SoleInv, NEW p \in Procs, RegisterCheck(p) \/ RegisterInsert(p)
    PROVE  Fresh(p)' /\ Firm(p)' /\ Reported(p)'
<1> USE DEF SoleInv
<1>1. pc[p] \in {"check", "insert"} /\ prior[p] = None /\ RowsFirm
  BY DEF RegisterCheck, RegisterInsert, Firm, Reported, BeforeInitDb
<1>2. RowsFirm'
  <2>1. CASE UNCHANGED skills
    BY <1>1, <2>1, ReadSole
  <2>2. CASE Inserts(p)
    <3>1. /\ Stored' = Stored \cup {entry[p].id}
          /\ \A s \in Stored : skills'[s] = skills[s]
          /\ skills'[entry[p].id] = NewRow(entry[p])
      BY <2>2, InsertStep
    <3>2. skills'[entry[p].id].approval = "draft"
      BY <3>1 DEF NewRow
    <3> QED
      BY <1>1, <3>1, <3>2 DEF RowsFirm
  <2> QED
    BY <2>1, <2>2 DEF RegisterCheck, RegisterInsert, Inserts
<1>3. CASE Raise(p) \/ Return(p)
  <2>1. Clear(p) /\ pc'[p] \in {"idle", "init_db", "failed"}
    BY <1>3 DEF Raise, Return, TypeInv, TypeOK
  <2> QED
    BY <1>2, <2>1, EndSole
<1>4. CASE \E t : CallTransition(p, ApproveMove(t))
  <2>1. pc'[p] = "read" /\ prior'[p] = None /\ move'[p].immutable = TRUE
    BY <1>1, <1>4 DEF CallTransition, Goto, ApproveMove, TypeInv, TypeOK
  <2> QED
    BY <1>2, <2>1 DEF Fresh, Firm, Reported, MoveFirm
<1>5. CASE \E t, v : Registered(p, t, v)
  BY <1>3, <1>4, <1>5 DEF Registered
<1>6. CASE Goto(p, "insert") /\ UNCHANGED locals
  <2>1. pc'[p] = "insert" /\ prior'[p] = None
    BY <1>1, <1>6 DEF Goto, locals, TypeInv, TypeOK
  <2> QED
    BY <1>2, <2>1 DEF Fresh, Firm, Reported
<1> QED
  BY <1>3, <1>5, <1>6 DEF RegisterCheck, RegisterInsert

\* promote up to the replacement of the champions, and the reads of _transition.
LEMMA PromoteSole ==
    ASSUME SoleInv, NEW p \in Procs, RollbackGuard(p) \/ Champions(p) \/ ReadOld(p) \/ Read(p)
    PROVE  Fresh(p)' /\ Firm(p)' /\ Reported(p)'
<1> USE DEF SoleInv
<1>1. skills' = skills /\ pc[p] \in {"guard", "champions", "read_old", "read"}
  BY DEF RollbackGuard, Champions, ReadOld, Read
<1>2. RowsFirm' /\ MoveFirm(move[p])
  BY <1>1, ReadSole DEF Firm, BeforeInitDb
<1>3. move[p].id \in Stored
  BY <1>1 DEF TypeInv, TypeOK, Control, ControlOf, Stored, Move
<1>4. CASE RollbackGuard(p)
  <2>1. CASE Raise(p)
    <3>1. Clear(p) /\ pc'[p] \in {"idle", "failed"}
      BY <2>1 DEF Raise, TypeInv, TypeOK
    <3> QED
      BY <1>2, <3>1, EndSole
  <2>2. CASE /\ Goto(p, "champions")
             /\ move' = [move EXCEPT ![p] = PromoteMove(move[p].id, "champion")]
             /\ UNCHANGED prior
    <3>1. /\ pc[p] = "guard" /\ pc'[p] = "champions" /\ prior'[p] = prior[p]
          /\ move'[p] = PromoteMove(move[p].id, "champion")
      BY <1>4, <2>2 DEF RollbackGuard, Goto, TypeInv, TypeOK
    <3>2. move'[p].id = move[p].id /\ MoveFirm(move[p])'
      BY <1>1, <1>3, <3>1, PromoteFirm
    <3>3. CurrentChampions(move[p].id)' = CurrentChampions(move[p].id)
      BY <1>1, <3>2 DEF CurrentChampions, FamilyOf, Stored
    <3> QED
      BY <1>2, <3>1, <3>2, <3>3 DEF Fresh, Firm, Reported
  <2> QED
    BY <1>4, <2>1, <2>2 DEF RollbackGuard
<1>5. CASE Champions(p) \/ ReadOld(p) \/ Read(p)
  <2>1. move' = move /\ prior' = prior /\ MoveFirm(move[p])'
    BY <1>1, <1>2, <1>5 DEF Champions, ReadOld, Read, MoveFirm
  <2>2. Replaced(prior[p])' = Replaced(prior[p])
    BY <1>1, <2>1 DEF Replaced, Stored
  <2>3. CASE Champions(p)
    <3>1. /\ pc[p] = "champions" /\ todo'[p] = CurrentChampions(move[p].id)
          /\ pc'[p] = IF CurrentChampions(move[p].id) = {} THEN "read" ELSE "read_old"
      BY <2>3 DEF Champions, Goto, TypeInv, TypeOK
    <3>2. prior[p] # None => prior[p] \in todo'[p]
      BY <3>1 DEF Reported
    <3> QED
      BY <1>2, <2>1, <3>1, <3>2 DEF Fresh, Firm, Reported
  <2>4. CASE ReadOld(p)
    <3>1. /\ pc[p] = "read_old" /\ pc'[p] = "write_old" /\ todo' = todo
          /\ seen'[p] = skills[victim'[p]]
      BY <2>4 DEF ReadOld, Goto, TypeInv, TypeOK
    <3> QED
      BY <1>1, <1>2, <2>1, <2>2, <3>1 DEF Fresh, Firm, Reported
  <2>5. CASE Read(p)
    <3>1. pc[p] = "read" /\ pc'[p] = "write" /\ seen'[p] = skills[move[p].id]
      BY <2>5 DEF Read, Goto, TypeInv, TypeOK
    <3> QED
      BY <1>1, <1>2, <2>1, <2>2, <3>1 DEF Fresh, Firm, Reported
  <2> QED
    BY <1>5, <2>3, <2>4, <2>5
<1> QED
  BY <1>4, <1>5

\* The UPDATE that retires a replaced champion: its last note says so.
LEMMA WriteOldSole ==
    ASSUME SoleInv, NEW p \in Procs, WriteOld(p)
    PROVE  Fresh(p)' /\ Firm(p)' /\ Reported(p)'
<1> USE DEF SoleInv
<1> DEFINE t == victim[p]
           rest == todo[p] \ {t}
<1>1. /\ t \in todo[p] /\ t \in Stored /\ todo[p] \subseteq Stored
      /\ seen[p] = skills[t] /\ ReplacedMove(t) \in Move
      /\ move[p].id \in Stored /\ skills[t].notes \in Seq(Note)
      /\ pc[p] = "write_old"
  <2>1. pc[p] = "write_old" /\ ControlOf(p) /\ Fresh(p)
    BY DEF WriteOld, TypeInv, Control
  <2>2. /\ t \in todo[p] /\ t \in Stored /\ todo[p] \subseteq Stored
        /\ move[p].id \in Stored /\ t \in SkillIds
    BY <2>1 DEF TypeInv, TypeOK, ControlOf, Stored, Move
  <2>3. skills[t].notes \in Seq(Note)
    BY <2>2 DEF TypeInv, TypeOK, Stored, Row
  <2> QED
    BY <2>1, <2>2, <2>3, MoveTypes DEF Fresh
<1>2. /\ Stored' = Stored
      /\ \A u \in Stored \ {t} : skills'[u] = skills[u]
      /\ skills'[t].stage = Given(ReplacedMove(t).stage, skills[t].stage)
      /\ skills'[t].approval = Given(ReplacedMove(t).approval, skills[t].approval)
      /\ skills'[t].immutable = Given(ReplacedMove(t).immutable, skills[t].immutable)
      /\ skills'[t].notes = Append(skills[t].notes, ReplacedMove(t).note)
  BY <1>1, UpdateEffect DEF WriteOld
<1>3. /\ skills'[t].stage = "retired"
      /\ skills'[t].approval = skills[t].approval
      /\ skills'[t].immutable = skills[t].immutable
  BY <1>2, ConstantsAssumption DEF ReplacedMove, Given, Stages
<1>4. Last(skills'[t].notes).action = "champion_replaced"
  <2>1. Last(skills'[t].notes) = ReplacedMove(t).note
    BY <1>1, <1>2 DEF Last, ReplacedMove
  <2> QED
    BY <2>1 DEF ReplacedMove
<1>5. RowsFirm'
  BY <1>1, <1>2, <1>3 DEF RowsFirm, Firm, BeforeInitDb
<1>6. /\ pc'[p] = IF rest = {} THEN "read" ELSE "read_old"
      /\ move' = move /\ todo'[p] = rest /\ prior' = prior
  BY DEF WriteOld, Goto, TypeInv, TypeOK
<1>7. MoveFirm(move[p])'
  BY <1>1, <1>2, <1>3, <1>6 DEF MoveFirm, Firm
<1>8. prior[p] # None => prior[p] \in rest \/ Replaced(prior[p])'
  <2>1. CASE prior[p] = t
    BY <1>1, <1>2, <1>3, <1>4, <1>6, <2>1 DEF Replaced
  <2>2. CASE prior[p] # None /\ prior[p] # t
    BY <1>1, <1>2, <1>6, <2>2 DEF Reported, Replaced
  <2> QED
    BY <2>1, <2>2
<1> QED
  BY <1>5, <1>6, <1>7, <1>8 DEF Fresh, Firm, Reported

\* The last UPDATE of a handler.
LEMMA WriteSole ==
    ASSUME SoleInv, NEW p \in Procs, Write(p)
    PROVE  Fresh(p)' /\ Firm(p)' /\ Reported(p)'
<1> USE DEF SoleInv
<1> DEFINE m == move[p]
           t == m.id
<1>1. t \in Stored /\ seen[p] = skills[t] /\ m \in Move /\ MoveFirm(m) /\ RowsFirm
  <2>1. pc[p] = "write" /\ ControlOf(p) /\ Fresh(p) /\ Firm(p)
    BY DEF Write, TypeInv, Control
  <2>2. m \in Move /\ t \in Stored
    BY <2>1 DEF TypeInv, TypeOK, ControlOf, Stored, Move
  <2> QED
    BY <2>1, <2>2 DEF Fresh, Firm, BeforeInitDb
<1>2. /\ Stored' = Stored
      /\ \A u \in Stored \ {t} : skills'[u] = skills[u]
      /\ skills'[t].approval = Given(m.approval, skills[t].approval)
      /\ skills'[t].immutable = Given(m.immutable, skills[t].immutable)
  BY <1>1, UpdateEffect DEF Write
<1>3. skills'[t].approval # "draft" => skills'[t].immutable = TRUE
  <2>1. m.approval = None \/ m.immutable = TRUE
    BY <1>1 DEF MoveFirm
  <2>2. skills[t].approval # "draft" => skills[t].immutable
    BY <1>1 DEF RowsFirm
  <2>3. None # TRUE
    BY ConstantsAssumption
  <2>4. skills[t].approval # "draft" => m.immutable = TRUE
    BY <1>1, <2>2 DEF MoveFirm
  <2> QED
    BY <1>2, <2>1, <2>3, <2>4 DEF Given
<1>4. RowsFirm'
  BY <1>1, <1>2, <1>3 DEF RowsFirm
<1>5. Clear(p) /\ pc'[p] \in {"idle", "init_db"}
  BY DEF Write, Return, TypeInv, TypeOK
<1> QED
  BY <1>4, <1>5, EndSole

\* A process dies or a write raises.
LEMMA FailureSole ==
    ASSUME SoleInv, NEW p \in Procs, Crash(p) \/ WriteFails(p)
    PROVE  Fresh(p)' /\ Firm(p)' /\ Reported(p)'
<1> USE DEF SoleInv
<1>1. Clear(p) /\ skills' = skills /\ pc'[p] \in {"idle", "failed", "down"}
  BY DEF Crash, WriteFails, Raise, TypeInv, TypeOK
<1>2. pc'[p] = "idle" => pc[p] \notin BeforeInitDb
  BY DEF Crash, WriteFails, Raise, TypeInv, TypeOK, Migrated, BeforeInitDb
<1>3. pc'[p] = "idle" => RowsFirm'
  BY <1>1, <1>2, ReadSole DEF Firm
<1> QED
  BY <1>1, <1>3, EndSole

\* SoleInv is inductive when there is one process.
LEMMA SoleStep ==
    ASSUME OneProcess
    PROVE  SoleInv /\ [Next]_vars => SoleInv'
<1> SUFFICES ASSUME SoleInv, [Next]_vars PROVE SoleInv'
  OBVIOUS
<1>1. TypeInv' /\ Migrated'
  BY TypeInvStep, MigratedStep DEF SoleInv
<1>2. CASE UNCHANGED vars
  <2>1. \A q \in Procs : Fresh(q)' /\ Firm(q)'
    BY <1>2 DEF vars, SoleInv, Fresh, Firm, RowsFirm, MoveFirm, Stored
  <2>2. \A q \in Procs : Reported(q)'
    BY <1>2 DEF vars, SoleInv, Reported, Replaced, CurrentChampions, FamilyOf, Stored
  <2> QED
    BY <1>1, <2>1, <2>2 DEF SoleInv
<1>3. CASE Next
  <2>1. PICK p \in Procs :
           Start(p) \/ Request(p) \/ Continue(p) \/ Crash(p) \/ WriteFails(p)
    BY <1>3 DEF Next
  <2>2. Fresh(p)' /\ Firm(p)' /\ Reported(p)'
    BY <2>1, StartUpSole, RequestSole, RegisterSole, PromoteSole, WriteOldSole, WriteSole,
       FailureSole DEF Continue
  <2>3. \A q \in Procs : q = p
    BY DEF OneProcess
  <2> QED
    BY <1>1, <2>2, <2>3 DEF SoleInv
<1> QED
  BY <1>2, <1>3

\* Nobody serves before the first start.
LEMMA SoleInit == Init => SoleInv
<1> SUFFICES ASSUME Init PROVE SoleInv
  OBVIOUS
<1>1. \A p \in Procs : pc[p] = "down" /\ prior[p] = None
  BY DEF Init
<1>2. \A p \in Procs : Fresh(p) /\ Firm(p) /\ Reported(p)
  BY <1>1 DEF Fresh, Firm, Reported, BeforeInitDb
<1> QED
  BY <1>2, IdentityInit DEF SoleInv, IdentityInv

\* A note is appended, and the sequence before is a prefix.
LEMMA AppendKeepsPrefix ==
    ASSUME NEW S, NEW notes \in Seq(S), NEW n \in S
    PROVE  IsPrefix(notes, Append(notes, n))
<1>1. /\ Len(Append(notes, n)) = Len(notes) + 1 /\ Len(notes) \in Nat
      /\ \A i \in 1..Len(notes) : Append(notes, n)[i] = notes[i]
  OBVIOUS
<1>2. SubSeq(Append(notes, n), 1, Len(notes)) = SubSeq(notes, 1, Len(notes))
  BY <1>1
<1> QED
  BY <1>1, <1>2 DEF IsPrefix

\* What a step does to the history of a stored skill.
LEMMA HistoryStep ==
    ASSUME OneProcess, SoleInv, [Next]_vars, NEW s \in Stored
    PROVE  /\ IsPrefix(skills[s].notes, skills'[s].notes)
           /\ skills'[s].code = skills[s].code
           /\ skills'[s].version = skills[s].version
           /\ skills'[s].parent = skills[s].parent
<1>1. TypeInv /\ s \in SkillIds /\ skills[s] \in Row /\ skills[s].notes \in Seq(Note)
  BY DEF SoleInv, TypeInv, TypeOK, Stored, Row
<1>2. /\ s \in Stored'
      /\ skills'[s].code = skills[s].code
      /\ skills'[s].version = skills[s].version
      /\ skills'[s].parent = skills[s].parent
  BY <1>1, TableStep, InsertStep DEF IdentityKept
<1>3. Len(skills[s].notes) \in Nat
  BY <1>1
<1>4. ASSUME skills'[s].notes = skills[s].notes
      PROVE  IsPrefix(skills[s].notes, skills'[s].notes)
  BY <1>3, <1>4 DEF IsPrefix
<1>5. ASSUME NEW m \in Move, skills'[s] = Transitioned(skills[s], skills[s], m)
      PROVE  IsPrefix(skills[s].notes, skills'[s].notes)
  <2>1. skills'[s].notes = Append(skills[s].notes, m.note) /\ m.note \in Note
    BY <1>1, <1>5 DEF Transitioned, Row, Move
  <2> QED
    BY <1>1, <2>1, AppendKeepsPrefix
<1>6. ASSUME NEW p \in Procs, pc[p] = "write_old", s = victim[p],
             skills'[s] = Transitioned(skills[s], seen[p], ReplacedMove(s))
      PROVE  IsPrefix(skills[s].notes, skills'[s].notes)
  BY <1>1, <1>5, <1>6, MoveTypes DEF SoleInv, Fresh
<1>7. ASSUME NEW p \in Procs, pc[p] = "write", s = move[p].id,
             skills'[s] = Transitioned(skills[s], seen[p], move[p])
      PROVE  IsPrefix(skills[s].notes, skills'[s].notes)
  <2>1. move[p] \in Move
    BY <1>7 DEF SoleInv, TypeInv, TypeOK, Control, ControlOf
  <2> QED
    BY <1>5, <1>7, <2>1 DEF SoleInv, Fresh
<1>8. ASSUME skills'[s] = Normalised(s)
      PROVE  IsPrefix(skills[s].notes, skills'[s].notes)
  BY <1>1, <1>4, <1>8 DEF Normalised, Row
<1>9. ASSUME NEW p \in Procs, Inserts(p) PROVE s # entry[p].id
  BY <1>9 DEF Inserts, ConstraintsAllow
<1>10. RowWritten(s)
  BY <1>1, <1>2, RowStep
<1>11. IsPrefix(skills[s].notes, skills'[s].notes)
  BY <1>4, <1>6, <1>7, <1>8, <1>9, <1>10 DEF RowWritten
<1> QED
  BY <1>2, <1>11

\* With one process no lifecycle note is ever lost, and code, version and parent
\* of a stored skill never change.
THEOREM HistoryOnlyGrows ==
    ASSUME OneProcess
    PROVE  Spec => HistoryIsAppendOnly
<1>1. SoleInv /\ [Next]_vars =>
        [\A s \in Stored :
            /\ IsPrefix(skills[s].notes, skills'[s].notes)
            /\ skills'[s].code = skills[s].code
            /\ skills'[s].version = skills[s].version
            /\ skills'[s].parent = skills[s].parent]_vars
  BY HistoryStep
<1> QED
  BY <1>1, SoleInit, SoleStep, PTL DEF Spec, HistoryIsAppendOnly

\* A process that serves has migrated the table, and nothing it does makes an
\* approved or a deprecated skill mutable again.
THEOREM ServedTableIsMigrated ==
    ASSUME OneProcess
    PROVE  Spec => []ServedRowsMigrated
<1>1. SoleInv => ServedRowsMigrated
  BY DEF SoleInv, Migrated, Firm, RowsFirm, BeforeInitDb, ServedRowsMigrated
<1> QED
  BY <1>1, SoleInit, SoleStep, PTL DEF Spec

\* The champion that a rollback reports as replaced was retired by its promote,
\* and its last note says so.
THEOREM RollbackReportIsTrue ==
    ASSUME OneProcess
    PROVE  Spec => []RollbackReportsReplaced
<1>1. SoleInv => RollbackReportsReplaced
  BY DEF SoleInv, Reported, Replaced, RollbackReportsReplaced
<1> QED
  BY <1>1, SoleInit, SoleStep, PTL DEF Spec

-----------------------------------------------------------------------------
(* The seeding of every start                                              *)

\* CURATOR_SEED_BACKTEST_SKILL is always on, the old file does not hold the seed,
\* and no write fails.
SeedingAlwaysOn == \A c \in SeedConfigs : c.seed

SeedIsNew == SeedId \notin LegacyIds

WritesSucceed == "write" \notin Faults

\* The seed is stored with its code, or nothing is stored that could be in its way.
SeedStored == SeedId \in Stored /\ skills[SeedId].code = SeedCode

SeedFree == \A s \in Stored : s # SeedId /\ skills[s].family \in {None, s}

\* A process that has not seeded the table yet does nothing else.
Seeding(p) ==
    /\ pc[p] # "failed"
    /\ pc[p] \in {"idle", "guard"} => boot[p] = 0
    /\ boot[p] # 0 /\ pc[p] \in {"check", "insert"} => entry[p] = SeedEntry
    /\ boot[p] # 0 /\ pc[p] = "insert" => SeedFree
    /\ ~SeedStored =>
           /\ pc[p] \in {"down", "init_db", "check", "insert"}
           /\ pc[p] \in {"check", "insert"} => boot[p] # 0

SeedInv ==
    TypeInv /\ Migrated /\ (SeedStored \/ SeedFree) /\ \A p \in Procs : Seeding(p)

\* The seed's row is not deleted, and its code not changed.
LEMMA SeedStaysStored ==
    ASSUME TypeInv, [Next]_vars, SeedStored
    PROVE  SeedStored'
<1>1. SeedId \in Stored' /\ skills'[SeedId].code = skills[SeedId].code
  BY TableStep, InsertStep DEF SeedStored, IdentityKept
<1> QED
  BY <1>1 DEF SeedStored

\* Nothing keeps register from inserting the seed where it is not stored.
LEMMA SeedInsertable ==
    ASSUME SeedFree
    PROVE  /\ SeedEntry.id \notin Stored /\ Duplicates(SeedEntry) = {}
           /\ ParentAccepted(SeedEntry) /\ ConstraintsAllow(SeedEntry)
<1>1. SeedEntry.id = SeedId /\ SeedEntry.family = SeedId /\ SeedEntry.parent = None
  BY DEF SeedEntry
<1>2. SeedId # None
  BY ConstantsAssumption
<1> QED
  BY <1>1, <1>2 DEF SeedFree, Duplicates, ParentAccepted, ConstraintsAllow

\* With one process, it is enough to look at the process that acts.
LEMMA SeedSuffices ==
    ASSUME OneProcess, SeedInv, [Next]_vars, NEW p \in Procs,
           SeedStored' \/ SeedFree', Seeding(p)'
    PROVE  SeedInv'
<1>1. \A q \in Procs : q = p
  BY DEF OneProcess
<1>2. TypeInv' /\ Migrated'
  BY TypeInvStep, MigratedStep DEF SeedInv
<1> QED
  BY <1>1, <1>2 DEF SeedInv

\* A handler's end, once the seed is stored.
LEMMA EndSeeding ==
    ASSUME TypeInv, NEW p \in Procs, SeedStored',
           Return(p) \/ (Raise(p) /\ boot[p] = 0)
    PROVE  Seeding(p)'
<1>1. pc'[p] \in {"idle", "init_db"} /\ (pc'[p] = "idle" => boot'[p] = 0)
  BY DEF Return, Raise, TypeInv, TypeOK
<1> QED
  BY <1>1 DEF Seeding

\* So is what follows a registration.
LEMMA RegisteredSeeding ==
    ASSUME TypeInv, NEW p \in Procs, NEW t, NEW v, SeedStored', Registered(p, t, v)
    PROVE  Seeding(p)'
<1>1. CASE CallTransition(p, ApproveMove(t))
  <2>1. pc'[p] = "read"
    BY <1>1 DEF CallTransition, Goto, TypeInv, TypeOK
  <2> QED
    BY <2>1 DEF Seeding
<1> QED
  BY <1>1, EndSeeding DEF Registered

\* Start-up: the migration leaves nothing in the way of the seed.
LEMMA StartUpSeeding ==
    ASSUME SeedingAlwaysOn, SeedInv, [Next]_vars, NEW p \in Procs, Start(p) \/ InitDb(p)
    PROVE  (SeedStored' \/ SeedFree') /\ Seeding(p)'
<1> USE DEF SeedInv
<1>1. CASE Start(p)
  <2>1. skills' = skills /\ pc'[p] = "init_db"
    BY <1>1 DEF Start, TypeInv, TypeOK
  <2> QED
    BY <2>1 DEF Seeding, SeedStored, SeedFree, Stored
<1>2. CASE InitDb(p)
  <2>1. ASSUME SeedFree
        PROVE  SeedFree'
    <3> SUFFICES ASSUME NEW s \in Stored'
                 PROVE  s # SeedId /\ skills'[s].family \in {None, s}
      BY DEF SeedFree
    <3>1. s \in Stored /\ skills'[s] = Normalised(s) /\ skills[s] \in Row
      BY <1>2 DEF InitDb, Stored, TypeInv, TypeOK
    <3>2. skills'[s].family = FamilyOf(s)
      BY <3>1 DEF Normalised, Row
    <3> QED
      BY <2>1, <3>1, <3>2 DEF SeedFree, FamilyOf
  <2>2. env[p].seed
    BY DEF SeedingAlwaysOn, TypeInv, TypeOK
  <2>3. boot[p] # 0 /\ pc[p] = "init_db"
    BY <1>2 DEF Migrated, InitDb
  <2>4. pc'[p] = "check" /\ entry'[p] = SeedEntry /\ boot'[p] = boot[p]
    BY <1>2, <2>2 DEF InitDb, Goto, TypeInv, TypeOK
  <2>5. SeedStored' \/ SeedFree'
    BY <2>1, SeedStaysStored
  <2> QED
    BY <2>3, <2>4, <2>5 DEF Seeding
<1> QED
  BY <1>1, <1>2

\* register: the seed is found, or inserted.
LEMMA RegisterSeeding ==
    ASSUME SeedInv, [Next]_vars, NEW p \in Procs, RegisterCheck(p) \/ RegisterInsert(p)
    PROVE  (SeedStored' \/ SeedFree') /\ Seeding(p)'
<1> USE DEF SeedInv
<1> DEFINE e == entry[p]
<1>1. /\ Seeding(p) /\ pc[p] \in {"check", "insert"} /\ (~SeedStored => boot[p] # 0)
      /\ boot[p] # 0 => e = SeedEntry
  BY DEF RegisterCheck, RegisterInsert, Seeding
<1>2. SeedEntry.id = SeedId /\ SeedEntry.code = SeedCode
  BY DEF SeedEntry
<1>3. CASE SeedStored
  <2>1. SeedStored'
    BY <1>3, SeedStaysStored
  <2>2. CASE \E t, v : Registered(p, t, v)
    BY <2>1, <2>2, RegisteredSeeding
  <2>3. CASE RegisterCheck(p) /\ Raise(p)
    <3>1. boot[p] = 0 \/ \E t, v : Registered(p, t, v)
      BY <1>1, <1>2, <1>3, <2>3 DEF RegisterCheck, SeedStored
    <3> QED
      BY <2>1, <2>2, <2>3, <3>1, EndSeeding
  <2>4. CASE RegisterCheck(p) /\ Goto(p, "insert") /\ UNCHANGED locals /\ e.id \notin Stored
    <3>1. pc'[p] = "insert" /\ boot'[p] = boot[p] /\ boot[p] = 0
      BY <1>1, <1>2, <1>3, <2>4 DEF Goto, SeedStored, TypeInv, TypeOK
    <3> QED
      BY <2>1, <3>1 DEF Seeding
  <2>5. CASE RegisterInsert(p) /\ Raise(p)
    <3>1. boot[p] = 0
      BY <1>1, <1>3, <2>5 DEF RegisterInsert, Seeding, SeedStored, SeedFree
    <3> QED
      BY <2>1, <2>5, <3>1, EndSeeding
  <2> QED
    BY <2>1, <2>2, <2>3, <2>4, <2>5 DEF RegisterCheck, RegisterInsert
<1>4. CASE ~SeedStored
  <2>1. e = SeedEntry /\ SeedFree /\ boot[p] # 0
    BY <1>1, <1>4
  <2>2. /\ e.id \notin Stored /\ Duplicates(e) = {} /\ ParentAccepted(e)
        /\ ConstraintsAllow(e)
    BY <2>1, SeedInsertable
  <2>3. CASE RegisterCheck(p)
    <3>1. Goto(p, "insert") /\ UNCHANGED locals /\ skills' = skills
      BY <2>2, <2>3 DEF RegisterCheck
    <3>2. pc'[p] = "insert" /\ entry'[p] = SeedEntry /\ boot'[p] = boot[p]
      BY <2>1, <3>1 DEF Goto, locals, TypeInv, TypeOK
    <3>3. SeedFree'
      BY <2>1, <3>1 DEF SeedFree, Stored
    <3> QED
      BY <2>1, <3>2, <3>3 DEF Seeding
  <2>4. CASE RegisterInsert(p)
    <3>1. Inserts(p) /\ Registered(p, e.id, Validated(e.code))
      BY <2>2, <2>4 DEF RegisterInsert, Inserts
    <3>2. Stored' = Stored \cup {e.id} /\ skills'[e.id] = NewRow(e)
      BY <3>1, InsertStep
    <3>3. SeedStored'
      BY <1>2, <2>1, <3>2 DEF SeedStored, NewRow
    <3> QED
      BY <3>1, <3>3, RegisteredSeeding
  <2> QED
    BY <2>3, <2>4
<1> QED
  BY <1>3, <1>4

\* Everything else happens after the seed was stored, or is a crash.
LEMMA ServingSeeding ==
    ASSUME SeedInv, [Next]_vars, WritesSucceed, NEW p \in Procs,
           \/ Request(p) \/ RollbackGuard(p) \/ Champions(p) \/ ReadOld(p) \/ WriteOld(p)
           \/ Read(p) \/ Write(p) \/ Crash(p) \/ WriteFails(p)
    PROVE  (SeedStored' \/ SeedFree') /\ Seeding(p)'
<1> USE DEF SeedInv
<1>1. CASE Crash(p)
  <2>1. skills' = skills /\ pc'[p] = "down"
    BY <1>1 DEF Crash, TypeInv, TypeOK
  <2> QED
    BY <2>1 DEF Seeding, SeedStored, SeedFree, Stored
<1>2. CASE WriteFails(p)
  BY <1>2 DEF WriteFails, WritesSucceed
<1>3. CASE Request(p)
  <2>1. pc[p] = "idle" /\ boot'[p] = boot[p] /\ boot[p] = 0
    BY <1>3 DEF Request, RegisterSkill, CreateVersion, ApproveSkill, ApproveFromBacktest,
       DeprecateSkill, PromoteSkill, Rollback, Accept, Seeding
  <2>2. pc'[p] \in {"check", "read", "champions", "guard"}
    BY <1>3 DEF Request, RegisterSkill, CreateVersion, ApproveSkill, ApproveFromBacktest,
       DeprecateSkill, PromoteSkill, Rollback, TypeInv, TypeOK
  <2>3. SeedStored'
    BY <2>1, SeedStaysStored DEF Seeding
  <2> QED
    BY <2>1, <2>2, <2>3 DEF Seeding
<1>4. CASE RollbackGuard(p) \/ Champions(p) \/ ReadOld(p) \/ WriteOld(p) \/ Read(p) \/ Write(p)
  <2>1. /\ pc[p] \in {"guard", "champions", "read_old", "write_old", "read", "write"}
        /\ pc[p] = "guard" => boot[p] = 0
    BY <1>4 DEF RollbackGuard, Champions, ReadOld, WriteOld, Read, Write, Seeding
  <2>2. SeedStored'
    BY <2>1, SeedStaysStored DEF Seeding
  <2>3. CASE (Raise(p) /\ boot[p] = 0) \/ Return(p)
    BY <2>2, <2>3, EndSeeding
  <2>4. CASE \E l \in {"champions", "read_old", "write_old", "read", "write"} : Goto(p, l)
    <3>1. pc'[p] \in {"champions", "read_old", "write_old", "read", "write"}
      BY <2>4 DEF Goto, TypeInv, TypeOK
    <3> QED
      BY <2>2, <3>1 DEF Seeding
  <2> QED
    BY <1>4, <2>1, <2>3, <2>4 DEF RollbackGuard, Champions, ReadOld, WriteOld, Read, Write
<1> QED
  BY <1>1, <1>2, <1>3, <1>4

\* With one process, no write that fails and the seeding on from the first start,
\* no sequence of requests, crashes and restarts makes a later start fail.
THEOREM SeededStartsSucceed ==
    ASSUME OneProcess, SeedingAlwaysOn, SeedIsNew, WritesSucceed
    PROVE  Spec => []SeededServiceStarts
<1>1. Init => SeedInv
  <2> SUFFICES ASSUME Init PROVE SeedInv
    OBVIOUS
  <2>1. SeedFree
    <3>1. \A s \in Stored : skills[s].family = None
      BY DEF Init, Stored, LegacyRows, LegacyRow
    <3>2. SeedId \notin Stored
      BY ConstantsAssumption DEF Init, Stored, SeedIsNew
    <3> QED
      BY <3>1, <3>2 DEF SeedFree
  <2>2. \A p \in Procs : pc[p] = "down"
    BY DEF Init
  <2> QED
    BY <2>1, <2>2, IdentityInit DEF SeedInv, Seeding, IdentityInv
<1>2. SeedInv /\ [Next]_vars => SeedInv'
  <2> SUFFICES ASSUME SeedInv, [Next]_vars PROVE SeedInv'
    OBVIOUS
  <2>1. CASE UNCHANGED vars
    <3>1. \A p \in Procs : Seeding(p)'
      BY <2>1 DEF vars, SeedInv, Seeding, SeedStored, SeedFree, Stored
    <3>2. SeedStored' \/ SeedFree'
      BY <2>1 DEF vars, SeedInv, SeedStored, SeedFree, Stored
    <3> QED
      BY <3>1, <3>2, TypeInvStep, MigratedStep DEF SeedInv
  <2>2. CASE Next
    <3>1. PICK p \in Procs :
             Start(p) \/ Request(p) \/ Continue(p) \/ Crash(p) \/ WriteFails(p)
      BY <2>2 DEF Next
    <3>2. (SeedStored' \/ SeedFree') /\ Seeding(p)'
      BY <3>1, StartUpSeeding, RegisterSeeding, ServingSeeding DEF Continue
    <3> QED
      BY <3>2, SeedSuffices
  <2> QED
    BY <2>1, <2>2
<1>3. SeedInv => SeededServiceStarts
  BY DEF SeedInv, Seeding, SeededServiceStarts
<1> QED
  BY <1>1, <1>2, <1>3, PTL DEF Spec
=============================================================================
