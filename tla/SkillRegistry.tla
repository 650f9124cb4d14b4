--------------------------- MODULE SkillRegistry ---------------------------
(***************************************************************************)
(* The skill registry of Curator_Agent: the SQLite table "skills" and the  *)
(* API processes that read and write it (app/registry.py, the lifecycle    *)
(* handlers of app/main_legacy.py and app/version_api.py, the start-up     *)
(* seeding of app/seed_skills.py).                                         *)
(*                                                                         *)
(* The handlers are "async def" functions without an await, so one process *)
(* never interleaves two requests; several processes may share the file    *)
(* (a rolling restart, several uvicorn workers).  Every call of registry.py*)
(* opens its own connection, so a step of the model is one SQL read or one *)
(* committed SQL write, and a process may die, or a write may raise,       *)
(* between any two of them.                                                *)
(***************************************************************************)
EXTENDS Naturals, Sequences, SequencesExt

CONSTANTS
    Procs,          \* API processes that share the SQLite file
    SkillIds,       \* skill_id values: chosen by clients, or fresh uuid4 values
    Families,       \* skill_family_id values; a skill_id is the default family
    Versions,       \* version strings
    DefaultVersion, \* "1.0.0"
    Codes,          \* skill sources; equal values stand for equal code_hash
    SafeCodes,      \* the sources SafeSkillValidator approves
    RegisterStages, \* deployment_stage values clients send to /skills/register
    PromoteStages,  \* deployment_stage values clients send to /promote
    SeedId,         \* CURATOR_SEED_BACKTEST_SKILL_ID
    SeedCode,       \* DEFAULT_SKILL_CODE
    SeedConfigs,    \* settings of the two CURATOR_SEED_BACKTEST_SKILL* switches
    LegacyIds,      \* skills that may be in the file from before versioning
    Faults,         \* "crash": a process may die; "write": a write may raise
    MaxRequests,    \* bound on accepted requests and boots
    None,           \* Python's None and SQL's NULL
    NoRow           \* no row with this primary key

Approvals == {"draft", "approved", "deprecated"}

Stages == {"candidate", "shadow", "challenger", "champion", "degraded",
           "quarantined", "retired"}

\* A lifecycle note: its action, and the stage that a promotion note names.
Note ==
    [action : {"approved", "deprecated", "champion_replaced", "deployment_stage"},
     stage  : Stages \cup {None}]

\* The columns of a row that some operation reads or writes again.
Row ==
    [family : Families \cup {None}, version : Versions,
     parent : SkillIds \cup {None}, code : Codes, validated : BOOLEAN,
     stage : Stages, approval : Approvals, immutable : BOOLEAN,
     notes : Seq(Note)]

\* The arguments of SkillRegistry.register.
Entry ==
    [id : SkillIds, family : Families, version : Versions,
     parent : SkillIds \cup {None}, stage : Stages, code : Codes]

\* The arguments of SkillRegistry._transition; None keeps the current value.
Move ==
    [id : SkillIds, approval : Approvals \cup {None},
     stage : Stages \cup {None}, immutable : BOOLEAN \cup {None}, note : Note]

ASSUME ConstantsAssumption ==
    /\ Procs # {}
    /\ SkillIds \subseteq Families
    /\ DefaultVersion \in Versions
    /\ SafeCodes \subseteq Codes
    /\ RegisterStages \subseteq Stages
    /\ PromoteStages \subseteq Stages
    /\ SeedId \in SkillIds
    /\ SeedCode \in Codes
    /\ SeedConfigs \subseteq [seed : BOOLEAN, approve : BOOLEAN]
    /\ LegacyIds \subseteq SkillIds
    /\ MaxRequests \in Nat
    /\ None \notin Families /\ None \notin Stages /\ None \notin Approvals
    /\ None \notin BOOLEAN /\ None \notin Entry /\ None \notin Move
    /\ NoRow \notin Row

VARIABLES
    skills,    \* the table: SkillIds -> row or NoRow
    pc,        \* where each process is
    entry,     \* the registration in progress
    move,      \* the final _transition in progress
    todo,      \* champions that promote still has to retire
    victim,    \* the champion being retired
    seen,      \* the row that _transition read before its UPDATE
    prior,     \* rollback's replaced_champion_skill_id
    boot,      \* 0 when serving, else the number of the create_app running
    env,       \* the seeding configuration the process was started with
    requests   \* requests and boots accepted so far

vars == <<skills, pc, entry, move, todo, victim, seen, prior, boot, env, requests>>

\* The locals of the handler a process is running.
locals == <<entry, move, todo, victim, seen, prior>>

Labels == {"down", "failed", "init_db", "idle", "check", "insert", "guard",
           "champions", "read_old", "write_old", "read", "write"}

Stored == {s \in SkillIds : skills[s] # NoRow}

-----------------------------------------------------------------------------
(* Definitions of the rows and of the moves                                *)

Validated(code) == code \in SafeCodes

\* The row that register inserts.
NewRow(e) ==
    [family |-> e.family, version |-> e.version, parent |-> e.parent,
     code |-> e.code, validated |-> Validated(e.code), stage |-> e.stage,
     approval |-> "draft", immutable |-> FALSE, notes |-> <<>>]

\* Rows written before versioning existed, as ALTER TABLE leaves them.
LegacyRow(code, approved) ==
    [family |-> None, version |-> DefaultVersion, parent |-> None,
     code |-> code, validated |-> Validated(code), stage |-> "candidate",
     approval |-> IF approved THEN "approved" ELSE "draft", immutable |-> FALSE,
     notes |-> IF approved THEN <<[action |-> "approved", stage |-> None]>>
                           ELSE <<>>]

LegacyRows ==
    {LegacyRow(c, FALSE) : c \in Codes} \cup {LegacyRow(c, TRUE) : c \in SafeCodes}

\* The argument if it was given, else the value that was read.
Given(argument, current) == IF argument = None THEN current ELSE argument

\* Mutant: the UPDATE drops the notes that were there.
TransitionedForgetting(row, cur, m) ==
    [row EXCEPT !.approval  = Given(m.approval, cur.approval),
                !.stage     = Given(m.stage, cur.stage),
                !.immutable = Given(m.immutable, cur.immutable),
                !.notes     = <<m.note>>]

\* Mutant: an argument that was not given is stored as NULL.
TransitionedWithoutFallback(row, cur, m) ==
    [row EXCEPT !.approval  = m.approval,
                !.stage     = m.stage,
                !.immutable = m.immutable,
                !.notes     = Append(cur.notes, m.note)]

\* The row after the UPDATE of _transition, computed from the row read before.
Transitioned(row, cur, m) ==
    [row EXCEPT !.approval  = Given(m.approval, cur.approval),
                !.stage     = Given(m.stage, cur.stage),
                !.immutable = Given(m.immutable, cur.immutable),
                !.notes     = Append(cur.notes, m.note)]

ApproveMove(s) ==
    [id |-> s, approval |-> "approved", stage |-> None, immutable |-> TRUE,
     note |-> [action |-> "approved", stage |-> None]]

\* Mutant: deprecation leaves the skill at its deployment stage.
DeprecateMoveKeepingStage(s) ==
    [id |-> s, approval |-> "deprecated", stage |-> None, immutable |-> TRUE,
     note |-> [action |-> "deprecated", stage |-> None]]

DeprecateMove(s) ==
    [id |-> s, approval |-> "deprecated", stage |-> "retired", immutable |-> TRUE,
     note |-> [action |-> "deprecated", stage |-> None]]

\* Mutant: promote writes its note and forgets to pass the stage on.
PromoteMoveKeepingStage(s, stage) ==
    [id |-> s, approval |-> None, stage |-> None,
     immutable |-> skills[s].immutable \/ stage # "candidate",
     note |-> [action |-> "deployment_stage", stage |-> stage]]

PromoteMove(s, stage) ==
    [id |-> s, approval |-> None, stage |-> stage,
     immutable |-> skills[s].immutable \/ stage # "candidate",
     note |-> [action |-> "deployment_stage", stage |-> stage]]

\* Mutant: the replaced champion is left deployed, as degraded.
ReplacedMoveDegrading(s) ==
    [id |-> s, approval |-> None, stage |-> "degraded", immutable |-> None,
     note |-> [action |-> "champion_replaced", stage |-> None]]

\* What promote does to the champion it replaces.
ReplacedMove(s) ==
    [id |-> s, approval |-> None, stage |-> "retired", immutable |-> None,
     note |-> [action |-> "champion_replaced", stage |-> None]]

\* The registration made by seed_default_backtest_skill.
SeedEntry ==
    [id |-> SeedId, family |-> SeedId, version |-> DefaultVersion,
     parent |-> None, stage |-> "candidate", code |-> SeedCode]

\* _to_record's fallback for a row whose family column is NULL.
FamilyOf(s) == IF skills[s].family = None THEN s ELSE skills[s].family

-----------------------------------------------------------------------------
(* Conditions of the handlers                                              *)

\* Mutant: promote trusts its caller.
PromoteUnguarded(s, stage) == TRUE

\* promote: anything but candidate and retired needs a validated, approved skill.
PromoteAllowed(s, stage) ==
    stage \notin {"candidate", "retired"} =>
        skills[s].validated /\ skills[s].approval = "approved"

\* Mutant: a new version replaces only the champion it was derived from.
ParentChampion(s) ==
    {t \in Stored : t = skills[s].parent /\ skills[t].stage = "champion"}

\* promote: the other champions of the family.
CurrentChampions(s) ==
    {t \in Stored : /\ skills[t].family = FamilyOf(s)
                    /\ skills[t].stage = "champion"
                    /\ t # s}

\* approve-from-backtest: the gate in front of registry.approve.  "skipped" is
\* the answer of a DatabaseAgentClient without a base URL.
BacktestAllows(required, allowMissing, answer) ==
    required => answer = "passed" \/ (allowMissing /\ answer = "skipped")

\* register: the rows that already use the family and version of e.
Duplicates(e) ==
    {t \in Stored : skills[t].family = e.family /\ skills[t].version = e.version}

\* Mutant: the family of the parent is not compared.
ParentStored(e) == e.parent # None => e.parent \in Stored

ParentAccepted(e) ==
    e.parent # None => /\ e.parent \in Stored
                       /\ skills[e.parent].family = e.family

\* Mutant: the table has no UNIQUE index on family and version.
PrimaryKeyAllows(e) == e.id \notin Stored

\* The constraints SQLite enforces on the INSERT.
ConstraintsAllow(e) == e.id \notin Stored /\ Duplicates(e) = {}

-----------------------------------------------------------------------------
(* Control flow shared by the handlers                                     *)

Init ==
    /\ skills \in [SkillIds -> LegacyRows \cup {NoRow}]
    /\ \A s \in SkillIds \ LegacyIds : skills[s] = NoRow
    /\ pc = [p \in Procs |-> "down"]
    /\ entry = [p \in Procs |-> None]
    /\ move = [p \in Procs |-> None]
    /\ todo = [p \in Procs |-> {}]
    /\ victim = [p \in Procs |-> None]
    /\ seen = [p \in Procs |-> NoRow]
    /\ prior = [p \in Procs |-> None]
    /\ boot = [p \in Procs |-> 0]
    /\ env \in [Procs -> SeedConfigs]
    /\ requests = 0

\* The handler ends: its locals are gone.
Clear(p) ==
    /\ entry' = [entry EXCEPT ![p] = None]
    /\ move' = [move EXCEPT ![p] = None]
    /\ todo' = [todo EXCEPT ![p] = {}]
    /\ victim' = [victim EXCEPT ![p] = None]
    /\ seen' = [seen EXCEPT ![p] = NoRow]
    /\ prior' = [prior EXCEPT ![p] = None]

\* A request is answered; a create_app returns.  Importing app.main runs the
\* create_app of main_legacy and then its own, both on the same file.
Return(p) ==
    /\ pc' = [pc EXCEPT ![p] = IF boot[p] = 1 THEN "init_db" ELSE "idle"]
    /\ boot' = [boot EXCEPT ![p] = IF boot[p] = 1 THEN 2 ELSE 0]
    /\ Clear(p)
    /\ UNCHANGED <<env, requests>>

\* An exception: an error answer to a request, or the end of the import.
Raise(p) ==
    /\ pc' = [pc EXCEPT ![p] = IF boot[p] = 0 THEN "idle" ELSE "failed"]
    /\ boot' = [boot EXCEPT ![p] = 0]
    /\ Clear(p)
    /\ UNCHANGED <<env, requests>>

Goto(p, label) ==
    /\ pc' = [pc EXCEPT ![p] = label]
    /\ UNCHANGED <<boot, env, requests>>

\* _transition is called for m, by a handler or by the seeding.
CallTransition(p, m) ==
    /\ Goto(p, "read")
    /\ move' = [move EXCEPT ![p] = m]
    /\ UNCHANGED <<entry, todo, victim, seen, prior>>

\* register returns skill s: the answer, or the skill that the seeding approves
\* (the ValueError of an unvalidated skill is caught there).
Registered(p, s, validated) ==
    IF boot[p] # 0 /\ env[p].approve /\ validated
    THEN CallTransition(p, ApproveMove(s))
    ELSE Return(p)

\* A serving process takes a request; those that are answered 400 or 404 before
\* any write change nothing and are not modelled.
Accept(p) ==
    /\ pc[p] = "idle"
    /\ requests < MaxRequests
    /\ requests' = requests + 1
    /\ UNCHANGED <<skills, todo, victim, seen, boot, env>>

-----------------------------------------------------------------------------
(* Start-up                                                                *)

Start(p) ==
    /\ pc[p] \in {"down", "failed"}
    /\ requests < MaxRequests
    /\ requests' = requests + 1
    /\ pc' = [pc EXCEPT ![p] = "init_db"]
    /\ boot' = [boot EXCEPT ![p] = 1]
    /\ \E c \in SeedConfigs : env' = [env EXCEPT ![p] = c]
    /\ UNCHANGED <<skills, locals>>

\* Mutant: rows approved before versioning stay mutable.
FamilyFilled(s) == [skills[s] EXCEPT !.family = FamilyOf(s)]

\* A row after the two UPDATEs of _init_db.
Normalised(s) ==
    [skills[s] EXCEPT !.family = FamilyOf(s),
                      !.immutable = @ \/ skills[s].approval \in {"approved", "deprecated"}]

InitDb(p) ==
    /\ pc[p] = "init_db"
    /\ skills' = [s \in SkillIds |-> IF s \in Stored THEN Normalised(s) ELSE NoRow]
    /\ \/ /\ env[p].seed
          /\ Goto(p, "check")
          /\ entry' = [entry EXCEPT ![p] = SeedEntry]
          /\ UNCHANGED <<move, todo, victim, seen, prior>>
       \/ ~env[p].seed /\ Return(p)

-----------------------------------------------------------------------------
(* Registration                                                            *)

RegisterSkill(p) ==
    /\ Accept(p)
    /\ \E s \in SkillIds, f \in Families, v \in Versions,
          t \in SkillIds \cup {None}, stage \in RegisterStages, c \in Codes :
          entry' = [entry EXCEPT ![p] =
              [id |-> s, family |-> f, version |-> v, parent |-> t,
               stage |-> stage, code |-> c]]
    /\ pc' = [pc EXCEPT ![p] = "check"]
    /\ UNCHANGED <<move, prior>>

\* The parent's row is read here; the new skill_id is a uuid4, so no row and no
\* registration under way has it.
CreateVersion(p) ==
    /\ Accept(p)
    /\ \E parent \in Stored, s \in SkillIds \ Stored, v \in Versions, c \in Codes :
          /\ \A q \in Procs : entry[q] # None => entry[q].id # s
          /\ entry' = [entry EXCEPT ![p] =
                 [id |-> s, family |-> FamilyOf(parent), version |-> v,
                  parent |-> parent, stage |-> "candidate", code |-> c]]
    /\ pc' = [pc EXCEPT ![p] = "check"]
    /\ UNCHANGED <<move, prior>>

\* Mutant: register does not look for the skill_id.
RegisterCheckVersionsOnly(p) ==
    LET e == entry[p]
        others == Duplicates(e) \ {e.id} IN
    /\ pc[p] = "check"
    /\ UNCHANGED skills
    /\ \/ \E t \in others : IF skills[t].code = e.code
                             THEN Registered(p, t, skills[t].validated)
                             ELSE Raise(p)
       \/ others = {} /\ ~ParentAccepted(e) /\ Raise(p)
       \/ others = {} /\ ParentAccepted(e) /\ Goto(p, "insert") /\ UNCHANGED locals

\* The SELECTs of register.
RegisterCheck(p) ==
    LET e == entry[p] IN
    /\ pc[p] = "check"
    /\ UNCHANGED skills
    /\ \/ /\ e.id \in Stored
          /\ IF skills[e.id].code = e.code
             THEN Registered(p, e.id, skills[e.id].validated)
             ELSE Raise(p)
       \/ /\ e.id \notin Stored
          /\ \E t \in Duplicates(e) :
                IF skills[t].code = e.code
                THEN Registered(p, t, skills[t].validated)
                ELSE Raise(p)
       \/ /\ e.id \notin Stored
          /\ Duplicates(e) = {}
          /\ ~ParentAccepted(e)
          /\ Raise(p)
       \/ /\ e.id \notin Stored
          /\ Duplicates(e) = {}
          /\ ParentAccepted(e)
          /\ Goto(p, "insert")
          /\ UNCHANGED locals

\* The INSERT; another process may have inserted since the SELECTs.
RegisterInsert(p) ==
    LET e == entry[p] IN
    /\ pc[p] = "insert"
    /\ \/ /\ ConstraintsAllow(e)
          /\ skills' = [skills EXCEPT ![e.id] = NewRow(e)]
          /\ Registered(p, e.id, Validated(e.code))
       \/ /\ ~ConstraintsAllow(e)
          /\ Raise(p)
          /\ UNCHANGED skills

-----------------------------------------------------------------------------
(* Approval, deprecation, promotion, rollback                              *)

\* approve reads the row for its guard; validation_status never changes.
ApproveSkill(p) ==
    /\ Accept(p)
    /\ \E s \in Stored :
          /\ skills[s].validated
          /\ move' = [move EXCEPT ![p] = ApproveMove(s)]
    /\ pc' = [pc EXCEPT ![p] = "read"]
    /\ UNCHANGED <<entry, prior>>

ApproveFromBacktest(p) ==
    /\ Accept(p)
    /\ \E s \in Stored, required, allowMissing \in BOOLEAN,
          answer \in {"passed", "failed", "skipped"} :
          /\ BacktestAllows(required, allowMissing, answer)
          /\ skills[s].validated
          /\ move' = [move EXCEPT ![p] = ApproveMove(s)]
    /\ pc' = [pc EXCEPT ![p] = "read"]
    /\ UNCHANGED <<entry, prior>>

DeprecateSkill(p) ==
    /\ Accept(p)
    /\ \E s \in Stored : move' = [move EXCEPT ![p] = DeprecateMove(s)]
    /\ pc' = [pc EXCEPT ![p] = "read"]
    /\ UNCHANGED <<entry, prior>>

PromoteSkill(p) ==
    /\ Accept(p)
    /\ \E s \in Stored, stage \in PromoteStages :
          /\ PromoteAllowed(s, stage)
          /\ move' = [move EXCEPT ![p] = PromoteMove(s, stage)]
          /\ pc' = [pc EXCEPT ![p] = IF stage = "champion" THEN "champions" ELSE "read"]
    /\ UNCHANGED <<entry, prior>>

\* Rollback reads the target and the champion it will report as replaced ...
Rollback(p) ==
    /\ Accept(p)
    /\ \E s \in Stored :
          /\ move' = [move EXCEPT ![p] = PromoteMove(s, "champion")]
          /\ \/ \E t \in CurrentChampions(s) : prior' = [prior EXCEPT ![p] = t]
             \/ CurrentChampions(s) = {} /\ UNCHANGED prior
    /\ pc' = [pc EXCEPT ![p] = "guard"]
    /\ UNCHANGED entry

\* ... and calls promote, which reads the target again for its guard.
RollbackGuard(p) ==
    LET s == move[p].id IN
    /\ pc[p] = "guard"
    /\ UNCHANGED skills
    /\ \/ /\ PromoteAllowed(s, "champion")
          /\ Goto(p, "champions")
          /\ move' = [move EXCEPT ![p] = PromoteMove(s, "champion")]
          /\ UNCHANGED <<entry, todo, victim, seen, prior>>
       \/ ~PromoteAllowed(s, "champion") /\ Raise(p)

\* promote: SELECT the champions to replace.
Champions(p) ==
    LET current == CurrentChampions(move[p].id) IN
    /\ pc[p] = "champions"
    /\ Goto(p, IF current = {} THEN "read" ELSE "read_old")
    /\ todo' = [todo EXCEPT ![p] = current]
    /\ UNCHANGED <<skills, entry, move, victim, seen, prior>>

\* promote: the _transition of one replaced champion, read and UPDATE.
ReadOld(p) ==
    /\ pc[p] = "read_old"
    /\ \E t \in todo[p] : /\ victim' = [victim EXCEPT ![p] = t]
                          /\ seen' = [seen EXCEPT ![p] = skills[t]]
    /\ Goto(p, "write_old")
    /\ UNCHANGED <<skills, entry, move, todo, prior>>

WriteOld(p) ==
    LET t == victim[p]
        rest == todo[p] \ {t} IN
    /\ pc[p] = "write_old"
    /\ skills' = [skills EXCEPT ![t] = Transitioned(skills[t], seen[p], ReplacedMove(t))]
    /\ Goto(p, IF rest = {} THEN "read" ELSE "read_old")
    /\ todo' = [todo EXCEPT ![p] = rest]
    /\ victim' = [victim EXCEPT ![p] = None]
    /\ seen' = [seen EXCEPT ![p] = NoRow]
    /\ UNCHANGED <<entry, move, prior>>

\* The last _transition of the handler, read and UPDATE.
Read(p) ==
    /\ pc[p] = "read"
    /\ seen' = [seen EXCEPT ![p] = skills[move[p].id]]
    /\ Goto(p, "write")
    /\ UNCHANGED <<skills, entry, move, todo, victim, prior>>

Write(p) ==
    LET s == move[p].id IN
    /\ pc[p] = "write"
    /\ skills' = [skills EXCEPT ![s] = Transitioned(skills[s], seen[p], move[p])]
    /\ Return(p)

-----------------------------------------------------------------------------
(* Failures                                                                *)

\* The process dies; what it committed stays in the file.
Crash(p) ==
    /\ "crash" \in Faults
    /\ pc[p] # "down"
    /\ pc' = [pc EXCEPT ![p] = "down"]
    /\ boot' = [boot EXCEPT ![p] = 0]
    /\ Clear(p)
    /\ UNCHANGED <<skills, env, requests>>

\* A write raises (the file is locked, the disk is full) and is rolled back.
WriteFails(p) ==
    /\ "write" \in Faults
    /\ pc[p] \in {"init_db", "insert", "write_old", "write"}
    /\ Raise(p)
    /\ UNCHANGED skills

-----------------------------------------------------------------------------
\* What a process does next without waiting for anybody.
Continue(p) ==
    \/ InitDb(p)
    \/ RegisterCheck(p) \/ RegisterInsert(p)
    \/ RollbackGuard(p) \/ Champions(p)
    \/ ReadOld(p) \/ WriteOld(p)
    \/ Read(p) \/ Write(p)

Request(p) ==
    \/ RegisterSkill(p) \/ CreateVersion(p)
    \/ ApproveSkill(p) \/ ApproveFromBacktest(p) \/ DeprecateSkill(p)
    \/ PromoteSkill(p) \/ Rollback(p)

Next ==
    \E p \in Procs : Start(p) \/ Request(p) \/ Continue(p) \/ Crash(p) \/ WriteFails(p)

\* A handler that has started runs on; nobody has to send requests.
Fairness == \A p \in Procs : WF_vars(Continue(p))

Spec == Init /\ [][Next]_vars /\ Fairness

-----------------------------------------------------------------------------
(* Properties                                                              *)

\* Every column and every local keeps its type: in particular _transition never
\* stores a missing argument in place of the current value.
TypeOK ==
    /\ skills \in [SkillIds -> Row \cup {NoRow}]
    /\ pc \in [Procs -> Labels]
    /\ entry \in [Procs -> Entry \cup {None}]
    /\ move \in [Procs -> Move \cup {None}]
    /\ todo \in [Procs -> SUBSET SkillIds]
    /\ victim \in [Procs -> SkillIds \cup {None}]
    /\ seen \in [Procs -> Row \cup {NoRow}]
    /\ prior \in [Procs -> SkillIds \cup {None}]
    /\ boot \in [Procs -> 0..2]
    /\ env \in [Procs -> SeedConfigs]
    /\ requests \in 0..MaxRequests

Deployed(s) == skills[s].stage \notin {"candidate", "retired"}

\* A family has at most one champion, in every state between the writes of
\* promote and after a crash or a failed write at any of them
\* (SkillRegistry.promote retires the others before it promotes).
OneChampionPerFamily ==
    \A s, t \in Stored :
        /\ skills[s].stage = "champion"
        /\ skills[t].stage = "champion"
        /\ FamilyOf(s) = FamilyOf(t)
        => s = t

\* A skill beyond candidate is validated and approved, whatever approvals,
\* deprecations, promotions and rollbacks came before (the guard of promote,
\* kept true by deprecate, which retires the skill).
DeployedImpliesApproved ==
    \A s \in Stored :
        Deployed(s) => skills[s].validated /\ skills[s].approval = "approved"

\* Code that the validator refused is never approved or deployed, however stale
\* the rows are on which approve and promote of several processes base their
\* guards (validation_status is written once, by register).
UnsafeNeverDeployed ==
    \A s \in Stored :
        Deployed(s) \/ skills[s].approval = "approved" => skills[s].validated

\* No two skills share a family and a version, also when two processes
\* register at the same time (the SELECTs of register are not enough).
FamilyVersionIdentity ==
    \A s, t \in Stored :
        /\ FamilyOf(s) = FamilyOf(t)
        /\ skills[s].version = skills[t].version
        => s = t

\* A parent is a stored skill of the same family (the checks of register hold
\* still when the INSERT comes).
LineageSound ==
    \A s \in Stored :
        skills[s].parent # None =>
            /\ skills[s].parent \in Stored
            /\ skills[s].parent # s
            /\ FamilyOf(skills[s].parent) = FamilyOf(s)

\* What a lifecycle note says about the two statuses.
NoteStage(n) ==
    CASE n.action = "deployment_stage" -> n.stage
      [] n.action \in {"deprecated", "champion_replaced"} -> "retired"
      [] OTHER -> None

NoteApproval(n) == IF n.action \in {"approved", "deprecated"} THEN n.action ELSE None

\* Some note sets the status to x and no later note sets it again.
LastSetTo(notes, NoteSets(_), x) ==
    \E i \in DOMAIN notes :
        /\ NoteSets(notes[i]) = x
        /\ \A j \in DOMAIN notes : j > i => NoteSets(notes[j]) = None

NeverSet(notes, NoteSets(_)) == \A i \in DOMAIN notes : NoteSets(notes[i]) = None

\* The lifecycle notes of a skill explain its approval and its stage, also
\* when updates of several processes overwrite one another (_transition writes
\* all columns from one read).
AuditTrailExplainsState ==
    \A s \in Stored :
        LET row == skills[s] IN
        /\ \/ LastSetTo(row.notes, NoteApproval, row.approval)
           \/ NeverSet(row.notes, NoteApproval) /\ row.approval = "draft"
        /\ \/ LastSetTo(row.notes, NoteStage, row.stage)
           \/ NeverSet(row.notes, NoteStage) /\ row.stage \in RegisterStages \cup {"candidate"}

\* No step loses a lifecycle note, or changes the code, the version or the
\* parent of a stored skill (register returns an existing skill unchanged).
HistoryIsAppendOnly ==
    [][\A s \in Stored :
          /\ IsPrefix(skills[s].notes, skills'[s].notes)
          /\ skills'[s].code = skills[s].code
          /\ skills'[s].version = skills[s].version
          /\ skills'[s].parent = skills[s].parent]_vars

\* Once a process serves, every skill has its family, and the approved and the
\* deprecated ones are immutable (_init_db migrates the old rows, promote keeps
\* the flag of a skill that goes back to candidate).
ServedRowsMigrated ==
    (\E p \in Procs : boot[p] = 0 /\ pc[p] \notin {"down", "failed"}) =>
        \A s \in Stored :
            /\ skills[s].family # None
            /\ skills[s].approval # "draft" => skills[s].immutable

\* When the champion that a rollback will report as replaced is not the champion
\* any more, promote has retired it and written so in its notes.
RollbackReportsReplaced ==
    \A p \in Procs :
        prior[p] # None /\ pc[p] \in {"read", "write"} =>
            /\ skills[prior[p]].stage = "retired"
            /\ Last(skills[prior[p]].notes).action = "champion_replaced"

\* With the seeding always on, no sequence of requests, crashes and restarts
\* makes the seeding of a later start raise (register raises if the seed's id,
\* or its family and version, belong to other code).
SeededServiceStarts == \A p \in Procs : pc[p] # "failed"

\* A promotion to champion, or a rollback, that passed its guard ends with the
\* skill as the only champion of its family, unless its process dies first
\* (SkillRegistry.promote; it is not resumed after a restart).
PromotionCompletes ==
    \A p \in Procs, s \in SkillIds :
        (pc[p] = "champions" /\ move[p].id = s) ~>
            \/ pc[p] = "down"
            \/ s \in Stored /\ skills[s].stage = "champion" /\ CurrentChampions(s) = {}

\* The rows, seen as the champion of each family and the approved skills.
ChampionOf(f) ==
    LET champions == {s \in Stored : FamilyOf(s) = f /\ skills[s].stage = "champion"}
    IN  IF champions = {} THEN None ELSE CHOOSE s \in champions : TRUE

Champs == INSTANCE FamilyChampions
            WITH champion <- [f \in Families |-> ChampionOf(f)],
                 approved <- {s \in Stored : skills[s].approval = "approved"}

\* The writes of one process, failures included, do to the champions what
\* FamilyChampions allows: no write swaps a champion for another or crowns a
\* skill that is not approved (SkillRegistry.promote, deprecate, approve).
ImplementsFamilyChampions == Champs!Spec

\* README: "draft -> approved -> deprecated".  A deprecated skill stays so.
DeprecationIsFinal ==
    [][\A s \in Stored :
          skills[s].approval = "deprecated" => skills'[s].approval = "deprecated"]_vars
=============================================================================
