------------------------ MODULE SkillRegistryProofs ------------------------
(***************************************************************************)
(* Proofs about SkillRegistry for every value of its constants, and any    *)
(* number of processes on the file: types, the identity of skills, and     *)
(* what holds of every row: its notes explain its statuses, and it is      *)
(* approved or deployed only if the validator accepted its code.           *)
(***************************************************************************)
EXTENDS SkillRegistry, TLAPS

\* What the locals of a handler hold at its labels: they were set on the way
\* there, and the skills they name are stored.
ControlOf(p) ==
    /\ pc[p] \in {"check", "insert"} => entry[p] # None
    /\ pc[p] \in {"guard", "champions", "read_old", "write_old", "read", "write"} =>
           move[p] # None /\ skills[move[p].id] # NoRow
    /\ \A t \in todo[p] : skills[t] # NoRow
    /\ pc[p] = "write_old" => victim[p] \in todo[p] /\ seen[p] # NoRow
    /\ pc[p] = "write" => seen[p] # NoRow

Control == \A p \in Procs : ControlOf(p)

TypeInv == TypeOK /\ Control

-----------------------------------------------------------------------------
(* What the helpers return                                                 *)

\* An argument that replaces a current value has its type.
LEMMA GivenType ==
    ASSUME NEW S, NEW a \in S \cup {None}, NEW c \in S
    PROVE  Given(a, c) \in S
BY DEF Given

\* The UPDATE of _transition writes a well-typed row.
LEMMA TransitionedType ==
    ASSUME NEW row \in Row, NEW cur \in Row, NEW m \in Move
    PROVE  Transitioned(row, cur, m) \in Row
<1>1. Given(m.approval, cur.approval) \in Approvals
  BY GivenType DEF Row, Move
<1>2. Given(m.stage, cur.stage) \in Stages
  BY GivenType DEF Row, Move
<1>3. Given(m.immutable, cur.immutable) \in BOOLEAN
  BY GivenType DEF Row, Move
<1>4. Append(cur.notes, m.note) \in Seq(Note)
  BY DEF Row, Move
<1> QED
  BY <1>1, <1>2, <1>3, <1>4 DEF Transitioned, Row

\* The INSERT of register writes a well-typed row.
LEMMA NewRowType ==
    ASSUME NEW e \in Entry
    PROVE  NewRow(e) \in Row
<1>1. Validated(e.code) \in BOOLEAN
  BY DEF Validated
<1>2. <<>> \in Seq(Note)
  OBVIOUS
<1> QED
  BY <1>1, <1>2 DEF NewRow, Row, Entry, Approvals

\* The rows of an old file are well-typed.
LEMMA LegacyRowType == LegacyRows \subseteq Row
<1>1. ASSUME NEW c \in Codes, NEW a \in BOOLEAN
      PROVE  LegacyRow(c, a) \in Row
  <2>1. (IF a THEN <<[action |-> "approved", stage |-> None]>> ELSE <<>>) \in Seq(Note)
    <3>1. [action |-> "approved", stage |-> None] \in Note
      BY DEF Note
    <3> QED
      BY <3>1
  <2>2. (IF a THEN "approved" ELSE "draft") \in Approvals
    BY DEF Approvals
  <2>3. Validated(c) \in BOOLEAN
    BY DEF Validated
  <2> QED
    BY <2>1, <2>2, <2>3, ConstantsAssumption DEF LegacyRow, Row, Stages
<1> QED
  BY <1>1, ConstantsAssumption DEF LegacyRows

\* approve, deprecate and the replacement of a champion call _transition with
\* well-typed arguments.
LEMMA MoveTypes ==
    ASSUME NEW s \in SkillIds
    PROVE  /\ ApproveMove(s) \in Move
           /\ DeprecateMove(s) \in Move
           /\ ReplacedMove(s) \in Move
BY DEF ApproveMove, DeprecateMove, ReplacedMove, Move, Note, Approvals, Stages

\* So does promote.
LEMMA PromoteMoveType ==
    ASSUME NEW s \in SkillIds, NEW stage \in Stages
    PROVE  PromoteMove(s, stage) \in Move
<1>1. (skills[s].immutable \/ stage # "candidate") \in BOOLEAN
  OBVIOUS
<1> QED
  BY <1>1 DEF PromoteMove, Move, Note

\* The seeding calls register with well-typed arguments.
LEMMA SeedEntryType == SeedEntry \in Entry
BY ConstantsAssumption DEF SeedEntry, Entry, Stages

-----------------------------------------------------------------------------
(* Type correctness                                                        *)

\* No row is ever deleted.
RowsKept == \A s \in SkillIds : skills[s] # NoRow => skills'[s] # NoRow

\* The locals of the processes other than p.
OthersKept(p) ==
    \A q \in Procs \ {p} :
        /\ pc'[q] = pc[q] /\ entry'[q] = entry[q] /\ move'[q] = move[q]
        /\ todo'[q] = todo[q] /\ victim'[q] = victim[q] /\ seen'[q] = seen[q]

\* A step of p that deletes no row leaves the control of the others intact.
LEMMA ControlStep ==
    ASSUME TypeInv, NEW p \in Procs, OthersKept(p), RowsKept, ControlOf(p)'
    PROVE  Control'
<1> SUFFICES ASSUME NEW q \in Procs, q # p
             PROVE  ControlOf(q)'
  BY DEF Control
<1>1. /\ pc'[q] = pc[q] /\ entry'[q] = entry[q] /\ move'[q] = move[q]
      /\ todo'[q] = todo[q] /\ victim'[q] = victim[q] /\ seen'[q] = seen[q]
  BY DEF OthersKept
<1>2. ControlOf(q) /\ todo[q] \subseteq SkillIds
  BY DEF TypeInv, TypeOK, Control
<1>3. move[q] # None => move[q].id \in SkillIds
  BY DEF TypeInv, TypeOK, Move
<1> QED
  BY <1>1, <1>2, <1>3 DEF ControlOf, RowsKept

\* The end of a handler or of a create_app clears the locals.
LEMMA EndTyped ==
    ASSUME TypeInv, NEW p \in Procs, Return(p) \/ Raise(p),
           skills' \in [SkillIds -> Row \cup {NoRow}], RowsKept
    PROVE  TypeInv'
<1>1. TypeOK'
  BY DEF TypeInv, TypeOK, Return, Raise, Clear, Labels
<1>2. ControlOf(p)' /\ OthersKept(p)
  BY DEF TypeInv, TypeOK, Return, Raise, Clear, Labels, ControlOf, OthersKept
<1> QED
  BY <1>1, <1>2, ControlStep DEF TypeInv

\* _transition is called with well-typed arguments for a stored skill.
LEMMA CallTyped ==
    ASSUME TypeInv, NEW p \in Procs, NEW m \in Move, CallTransition(p, m),
           skills' \in [SkillIds -> Row \cup {NoRow}], RowsKept, skills'[m.id] # NoRow
    PROVE  TypeInv'
<1>1. TypeOK'
  BY DEF TypeInv, TypeOK, CallTransition, Goto, Labels
<1>2. OthersKept(p)
  BY DEF TypeInv, TypeOK, CallTransition, Goto, OthersKept
<1>3. ControlOf(p)'
  <2>1. pc'[p] = "read" /\ move'[p] = m /\ todo'[p] = todo[p] /\ m # None
    BY ConstantsAssumption DEF TypeInv, TypeOK, CallTransition, Goto
  <2>2. \A t \in todo[p] : skills'[t] # NoRow
    BY DEF TypeInv, TypeOK, Control, ControlOf, RowsKept
  <2> QED
    BY <2>1, <2>2 DEF ControlOf
<1> QED
  BY <1>1, <1>2, <1>3, ControlStep DEF TypeInv

\* What follows a registration keeps the types.
LEMMA RegisteredTyped ==
    ASSUME TypeInv, NEW p \in Procs, NEW s \in SkillIds, NEW v, Registered(p, s, v),
           skills' \in [SkillIds -> Row \cup {NoRow}], RowsKept, skills'[s] # NoRow
    PROVE  TypeInv'
<1>1. CASE Return(p)
  BY <1>1, EndTyped
<1>2. CASE CallTransition(p, ApproveMove(s))
  <2>1. ApproveMove(s) \in Move /\ ApproveMove(s).id = s
    BY MoveTypes DEF ApproveMove
  <2> QED
    BY <1>2, <2>1, CallTyped
<1> QED
  BY <1>1, <1>2 DEF Registered

\* The file before the first start.
LEMMA TypeInvInit == Init => TypeInv
<1> SUFFICES ASSUME Init PROVE TypeInv
  OBVIOUS
<1>1. skills \in [SkillIds -> Row \cup {NoRow}]
  BY LegacyRowType DEF Init
<1>2. TypeOK
  BY <1>1, ConstantsAssumption DEF Init, TypeOK, Labels
<1>3. Control
  BY DEF Init, Control, ControlOf
<1> QED
  BY <1>2, <1>3 DEF TypeInv

\* Starting a process and migrating the table.
LEMMA StartUpTyped ==
    ASSUME TypeInv, NEW p \in Procs, Start(p) \/ InitDb(p)
    PROVE  TypeInv'
<1>1. CASE Start(p)
  <2>1. TypeOK'
    BY <1>1, ConstantsAssumption DEF TypeInv, TypeOK, Start, locals, Labels
  <2>2. OthersKept(p) /\ RowsKept
    BY <1>1 DEF TypeInv, TypeOK, Start, locals, OthersKept, RowsKept
  <2>3. ControlOf(p)'
    BY <1>1 DEF TypeInv, TypeOK, Start, locals, Control, ControlOf
  <2> QED
    BY <2>1, <2>2, <2>3, ControlStep DEF TypeInv
<1>2. CASE InitDb(p)
  <2>1. \A s \in Stored : Normalised(s) \in Row
    <3> SUFFICES ASSUME NEW s \in Stored PROVE Normalised(s) \in Row
      OBVIOUS
    <3>1. skills[s] \in Row /\ s \in SkillIds
      BY DEF TypeInv, TypeOK, Stored
    <3>2. FamilyOf(s) \in Families
      BY <3>1, ConstantsAssumption DEF FamilyOf, Row
    <3>3. (skills[s].immutable \/ skills[s].approval \in {"approved", "deprecated"}) \in BOOLEAN
      OBVIOUS
    <3> QED
      BY <3>1, <3>2, <3>3 DEF Normalised, Row
  <2>2. skills' \in [SkillIds -> Row \cup {NoRow}]
    BY <1>2, <2>1 DEF InitDb
  <2>3. RowsKept
    BY <1>2, <2>1, ConstantsAssumption DEF InitDb, RowsKept, Stored
  <2>4. CASE Return(p)
    BY <2>2, <2>3, <2>4, EndTyped
  <2>5. CASE /\ Goto(p, "check")
             /\ entry' = [entry EXCEPT ![p] = SeedEntry]
             /\ UNCHANGED <<move, todo, victim, seen, prior>>
    <3>1. TypeOK'
      BY <2>2, <2>5, SeedEntryType DEF TypeInv, TypeOK, Goto, Labels
    <3>2. OthersKept(p)
      BY <2>5 DEF TypeInv, TypeOK, Goto, OthersKept
    <3>3. ControlOf(p)'
      <4>1. pc'[p] = "check" /\ entry'[p] # None
        BY <2>5, SeedEntryType, ConstantsAssumption DEF TypeInv, TypeOK, Goto
      <4> QED
        BY <2>3, <2>5, <4>1 DEF TypeInv, TypeOK, Control, ControlOf, RowsKept
    <3> QED
      BY <2>3, <3>1, <3>2, <3>3, ControlStep DEF TypeInv
  <2> QED
    BY <1>2, <2>4, <2>5 DEF InitDb
<1> QED
  BY <1>1, <1>2

\* A request is taken up: one entry or one move is set, the table is only read.
LEMMA AcceptedTyped ==
    ASSUME TypeInv, NEW p \in Procs, Accept(p),
           NEW l, pc' = [pc EXCEPT ![p] = l],
           \/ /\ l = "check"
              /\ \E e \in Entry : entry' = [entry EXCEPT ![p] = e]
              /\ UNCHANGED <<move, prior>>
           \/ /\ l \in {"guard", "champions", "read"}
              /\ \E m \in Move : /\ move' = [move EXCEPT ![p] = m]
                                 /\ skills[m.id] # NoRow
              /\ \/ UNCHANGED prior
                 \/ \E t \in SkillIds : prior' = [prior EXCEPT ![p] = t]
              /\ UNCHANGED entry
    PROVE  TypeInv'
<1>1. TypeOK'
  <2>1. pc' \in [Procs -> Labels] /\ requests' \in 0..MaxRequests
    BY ConstantsAssumption DEF TypeInv, TypeOK, Accept, Labels
  <2>2. /\ entry' \in [Procs -> Entry \cup {None}]
        /\ move' \in [Procs -> Move \cup {None}]
    BY DEF TypeInv, TypeOK
  <2>3. prior' \in [Procs -> SkillIds \cup {None}]
    BY DEF TypeInv, TypeOK
  <2> QED
    BY <2>1, <2>2, <2>3 DEF TypeInv, TypeOK, Accept
<1>2. OthersKept(p) /\ RowsKept
  BY DEF TypeInv, TypeOK, Accept, OthersKept, RowsKept
<1>3. ControlOf(p)'
  <2>1. skills' = skills /\ todo' = todo /\ pc'[p] = l /\ ControlOf(p)
    BY DEF TypeInv, TypeOK, Control, Accept
  <2>2. l = "check" => entry'[p] # None
    BY ConstantsAssumption DEF TypeInv, TypeOK
  <2>3. l # "check" => move'[p] # None /\ skills[move'[p].id] # NoRow
    BY ConstantsAssumption DEF TypeInv, TypeOK
  <2>4. l \in {"check", "guard", "champions", "read"}
    OBVIOUS
  <2> QED
    BY <2>1, <2>2, <2>3, <2>4 DEF ControlOf
<1> QED
  BY <1>1, <1>2, <1>3, ControlStep DEF TypeInv

\* The requests of the API.
LEMMA RequestTyped ==
    ASSUME TypeInv, NEW p \in Procs, Request(p)
    PROVE  TypeInv'
<1> USE DEF Stored
<1>1. CASE RegisterSkill(p)
  <2>1. PICK e \in Entry : entry' = [entry EXCEPT ![p] = e]
    BY <1>1, ConstantsAssumption DEF RegisterSkill, Entry
  <2> QED
    BY <1>1, <2>1, AcceptedTyped DEF RegisterSkill
<1>2. CASE CreateVersion(p)
  <2>1. \A t \in Stored : FamilyOf(t) \in Families
    BY ConstantsAssumption DEF TypeInv, TypeOK, FamilyOf, Row
  <2>2. PICK e \in Entry : entry' = [entry EXCEPT ![p] = e]
    BY <1>2, <2>1 DEF CreateVersion, Entry, Stages
  <2> QED
    BY <1>2, <2>2, AcceptedTyped DEF CreateVersion
<1>3. CASE ApproveSkill(p)
  <2>1. PICK s \in Stored : move' = [move EXCEPT ![p] = ApproveMove(s)]
    BY <1>3 DEF ApproveSkill
  <2>2. ApproveMove(s) \in Move /\ ApproveMove(s).id = s
    BY MoveTypes DEF ApproveMove
  <2> QED
    BY <1>3, <2>1, <2>2, AcceptedTyped DEF ApproveSkill
<1>4. CASE ApproveFromBacktest(p)
  <2>1. PICK s \in Stored : move' = [move EXCEPT ![p] = ApproveMove(s)]
    BY <1>4 DEF ApproveFromBacktest
  <2>2. ApproveMove(s) \in Move /\ ApproveMove(s).id = s
    BY MoveTypes DEF ApproveMove
  <2> QED
    BY <1>4, <2>1, <2>2, AcceptedTyped DEF ApproveFromBacktest
<1>5. CASE DeprecateSkill(p)
  <2>1. PICK s \in Stored : move' = [move EXCEPT ![p] = DeprecateMove(s)]
    BY <1>5 DEF DeprecateSkill
  <2>2. DeprecateMove(s) \in Move /\ DeprecateMove(s).id = s
    BY MoveTypes DEF DeprecateMove
  <2> QED
    BY <1>5, <2>1, <2>2, AcceptedTyped DEF DeprecateSkill
<1>6. CASE PromoteSkill(p)
  <2>1. PICK s \in Stored, stage \in PromoteStages :
           /\ move' = [move EXCEPT ![p] = PromoteMove(s, stage)]
           /\ pc' = [pc EXCEPT ![p] = IF stage = "champion" THEN "champions" ELSE "read"]
    BY <1>6 DEF PromoteSkill
  <2>2. PromoteMove(s, stage) \in Move /\ PromoteMove(s, stage).id = s
    BY PromoteMoveType, ConstantsAssumption DEF PromoteMove
  <2> QED
    BY <1>6, <2>1, <2>2, AcceptedTyped DEF PromoteSkill
<1>7. CASE Rollback(p)
  <2>1. PICK s \in Stored :
           /\ move' = [move EXCEPT ![p] = PromoteMove(s, "champion")]
           /\ \/ \E t \in CurrentChampions(s) : prior' = [prior EXCEPT ![p] = t]
              \/ CurrentChampions(s) = {} /\ UNCHANGED prior
    BY <1>7 DEF Rollback
  <2>2. PromoteMove(s, "champion") \in Move /\ PromoteMove(s, "champion").id = s
    BY PromoteMoveType DEF PromoteMove, Stages
  <2>3. CurrentChampions(s) \subseteq SkillIds
    BY DEF CurrentChampions
  <2> QED
    BY <1>7, <2>1, <2>2, <2>3, AcceptedTyped DEF Rollback
<1> QED
  BY <1>1, <1>2, <1>3, <1>4, <1>5, <1>6, <1>7 DEF Request

\* register: the SELECTs and the INSERT.
LEMMA RegisterTyped ==
    ASSUME TypeInv, NEW p \in Procs, RegisterCheck(p) \/ RegisterInsert(p)
    PROVE  TypeInv'
<1> DEFINE e == entry[p]
<1>1. e \in Entry /\ e.id \in SkillIds
  BY DEF TypeInv, TypeOK, Control, ControlOf, RegisterCheck, RegisterInsert, Entry
<1>2. CASE RegisterCheck(p)
  <2>1. skills' = skills /\ skills' \in [SkillIds -> Row \cup {NoRow}] /\ RowsKept
    BY <1>2 DEF RegisterCheck, TypeInv, TypeOK, RowsKept
  <2>2. CASE Raise(p)
    BY <2>1, <2>2, EndTyped
  <2>3. CASE \E t \in Stored : Registered(p, t, skills[t].validated)
    BY <2>1, <2>3, RegisteredTyped DEF Stored
  <2>4. CASE Goto(p, "insert") /\ UNCHANGED locals
    <3>1. TypeOK'
      BY <2>1, <2>4 DEF TypeInv, TypeOK, Goto, locals, Labels
    <3>2. OthersKept(p)
      BY <2>4 DEF TypeInv, TypeOK, Goto, locals, OthersKept
    <3>3. ControlOf(p)'
      BY <1>2, <2>1, <2>4 DEF TypeInv, TypeOK, Control, ControlOf, Goto, locals, RegisterCheck
    <3> QED
      BY <2>1, <3>1, <3>2, <3>3, ControlStep DEF TypeInv
  <2> QED
    BY <1>2, <2>2, <2>3, <2>4 DEF RegisterCheck, Duplicates
<1>3. CASE RegisterInsert(p)
  <2>1. CASE Raise(p) /\ UNCHANGED skills
    BY <2>1, EndTyped DEF TypeInv, TypeOK, RowsKept
  <2>2. CASE /\ skills' = [skills EXCEPT ![e.id] = NewRow(e)]
             /\ Registered(p, e.id, Validated(e.code))
    <3>1. NewRow(e) \in Row /\ NewRow(e) # NoRow
      BY <1>1, NewRowType, ConstantsAssumption
    <3>2. /\ skills' \in [SkillIds -> Row \cup {NoRow}]
          /\ skills'[e.id] # NoRow
          /\ RowsKept
      BY <1>1, <2>2, <3>1 DEF TypeInv, TypeOK, RowsKept
    <3> QED
      BY <1>1, <2>2, <3>2, RegisteredTyped
  <2> QED
    BY <1>3, <2>1, <2>2 DEF RegisterInsert
<1> QED
  BY <1>2, <1>3

\* promote up to the replacement of the champions, and the reads of _transition.
LEMMA PromoteTyped ==
    ASSUME TypeInv, NEW p \in Procs,
           RollbackGuard(p) \/ Champions(p) \/ ReadOld(p) \/ Read(p)
    PROVE  TypeInv'
<1> USE DEF TypeInv, TypeOK
<1>1. move[p] \in Move /\ move[p].id \in SkillIds /\ skills[move[p].id] \in Row
  BY DEF Control, ControlOf, RollbackGuard, Champions, ReadOld, Read, Move
<1>2. skills' = skills /\ skills' \in [SkillIds -> Row \cup {NoRow}] /\ RowsKept
  BY DEF RollbackGuard, Champions, ReadOld, Read, RowsKept
<1>3. CASE RollbackGuard(p)
  <2>1. CASE Raise(p)
    BY <1>2, <2>1, EndTyped
  <2>2. CASE /\ Goto(p, "champions")
             /\ move' = [move EXCEPT ![p] = PromoteMove(move[p].id, "champion")]
             /\ UNCHANGED <<entry, todo, victim, seen, prior>>
    <3>1. /\ PromoteMove(move[p].id, "champion") \in Move
          /\ PromoteMove(move[p].id, "champion").id = move[p].id
      BY <1>1, PromoteMoveType DEF PromoteMove, Stages
    <3>2. TypeOK'
      BY <1>2, <2>2, <3>1 DEF Goto, Labels
    <3>3. OthersKept(p)
      BY <2>2 DEF Goto, OthersKept
    <3>4. ControlOf(p)'
      <4>1. pc'[p] = "champions" /\ move'[p] # None /\ move'[p].id = move[p].id
        BY <2>2, <3>1, ConstantsAssumption DEF Goto
      <4> QED
        BY <1>1, <1>2, <2>2, <4>1, ConstantsAssumption DEF Control, ControlOf
    <3> QED
      BY <1>2, <3>2, <3>3, <3>4, ControlStep
  <2> QED
    BY <1>3, <2>1, <2>2 DEF RollbackGuard
<1>4. CASE Champions(p)
  <2>1. CurrentChampions(move[p].id) \subseteq Stored
    BY DEF CurrentChampions
  <2>2. TypeOK'
    BY <1>2, <1>4, <2>1 DEF Champions, Goto, Labels, Stored
  <2>3. OthersKept(p)
    BY <1>4 DEF Champions, Goto, OthersKept
  <2>4. ControlOf(p)'
    BY <1>1, <1>2, <1>4, <2>1, ConstantsAssumption
       DEF Champions, Goto, Control, ControlOf, Stored
  <2> QED
    BY <1>2, <2>2, <2>3, <2>4, ControlStep
<1>5. CASE ReadOld(p)
  <2>1. PICK t \in todo[p] : /\ victim' = [victim EXCEPT ![p] = t]
                             /\ seen' = [seen EXCEPT ![p] = skills[t]]
    BY <1>5 DEF ReadOld
  <2>2. skills[t] \in Row /\ skills[t] # NoRow /\ t \in SkillIds
    BY DEF Control, ControlOf
  <2>3. TypeOK'
    BY <1>2, <1>5, <2>1, <2>2 DEF ReadOld, Goto, Labels
  <2>4. OthersKept(p)
    BY <1>5, <2>1 DEF ReadOld, Goto, OthersKept
  <2>5. ControlOf(p)'
    BY <1>1, <1>2, <1>5, <2>1, <2>2, ConstantsAssumption
       DEF ReadOld, Goto, Control, ControlOf
  <2> QED
    BY <1>2, <2>3, <2>4, <2>5, ControlStep
<1>6. CASE Read(p)
  <2>1. TypeOK'
    BY <1>1, <1>2, <1>6 DEF Read, Goto, Labels
  <2>2. OthersKept(p)
    BY <1>6 DEF Read, Goto, OthersKept
  <2>3. ControlOf(p)'
    BY <1>1, <1>2, <1>6, ConstantsAssumption DEF Read, Goto, Control, ControlOf
  <2> QED
    BY <1>2, <2>1, <2>2, <2>3, ControlStep
<1> QED
  BY <1>3, <1>4, <1>5, <1>6

\* The UPDATEs of _transition.
LEMMA WriteTyped ==
    ASSUME TypeInv, NEW p \in Procs, WriteOld(p) \/ Write(p)
    PROVE  TypeInv'
<1> USE DEF TypeInv, TypeOK
<1>1. CASE WriteOld(p)
  <2> DEFINE t == victim[p]
             rest == todo[p] \ {t}
  <2>1. t \in SkillIds /\ skills[t] \in Row /\ seen[p] \in Row
    BY <1>1 DEF WriteOld, Control, ControlOf
  <2>2. Transitioned(skills[t], seen[p], ReplacedMove(t)) \in Row
    BY <2>1, MoveTypes, TransitionedType
  <2>3. skills' \in [SkillIds -> Row \cup {NoRow}] /\ RowsKept
    BY <1>1, <2>1, <2>2, ConstantsAssumption DEF WriteOld, RowsKept
  <2>4. TypeOK'
    BY <1>1, <2>3 DEF WriteOld, Goto, Labels
  <2>5. OthersKept(p)
    BY <1>1 DEF WriteOld, Goto, OthersKept
  <2>6. ControlOf(p)'
    <3>1. pc'[p] \in {"read", "read_old"} /\ todo'[p] = rest /\ move'[p] = move[p]
      BY <1>1 DEF WriteOld, Goto
    <3>2. move[p] # None /\ move[p].id \in SkillIds /\ skills[move[p].id] # NoRow
      BY <1>1 DEF WriteOld, Control, ControlOf, Move
    <3> QED
      BY <2>3, <3>1, <3>2 DEF Control, ControlOf, RowsKept
  <2> QED
    BY <2>3, <2>4, <2>5, <2>6, ControlStep
<1>2. CASE Write(p)
  <2> DEFINE s == move[p].id
  <2>1. move[p] \in Move /\ s \in SkillIds /\ skills[s] \in Row /\ seen[p] \in Row
    BY <1>2 DEF Write, Control, ControlOf, Move
  <2>2. Transitioned(skills[s], seen[p], move[p]) \in Row
    BY <2>1, TransitionedType
  <2>3. skills' \in [SkillIds -> Row \cup {NoRow}] /\ RowsKept
    BY <1>2, <2>1, <2>2, ConstantsAssumption DEF Write, RowsKept
  <2> QED
    BY <1>2, <2>3, EndTyped DEF Write
<1> QED
  BY <1>1, <1>2

\* A process dies or a write raises.
LEMMA FailureTyped ==
    ASSUME TypeInv, NEW p \in Procs, Crash(p) \/ WriteFails(p)
    PROVE  TypeInv'
<1>1. CASE Crash(p)
  <2>1. TypeOK'
    BY <1>1 DEF TypeInv, TypeOK, Crash, Clear, Labels
  <2>2. OthersKept(p) /\ RowsKept /\ ControlOf(p)'
    BY <1>1 DEF TypeInv, TypeOK, Crash, Clear, OthersKept, RowsKept, ControlOf
  <2> QED
    BY <2>1, <2>2, ControlStep DEF TypeInv
<1>2. CASE WriteFails(p)
  BY <1>2, EndTyped DEF WriteFails, TypeInv, TypeOK, RowsKept
<1> QED
  BY <1>1, <1>2

\* TypeInv is inductive.
LEMMA TypeInvStep == TypeInv /\ [Next]_vars => TypeInv'
<1> SUFFICES ASSUME TypeInv, [Next]_vars PROVE TypeInv'
  OBVIOUS
<1>1. CASE UNCHANGED vars
  BY <1>1 DEF vars, TypeInv, TypeOK, Control, ControlOf
<1>2. CASE Next
  <2>1. PICK p \in Procs :
           Start(p) \/ Request(p) \/ Continue(p) \/ Crash(p) \/ WriteFails(p)
    BY <1>2 DEF Next
  <2> QED
    BY <2>1, StartUpTyped, RequestTyped, RegisterTyped, PromoteTyped, WriteTyped,
       FailureTyped DEF Continue
<1> QED
  BY <1>1, <1>2

\* Every column and local keeps its type, with any number of processes, rows,
\* requests, crashes and failed writes.
THEOREM TypeCorrect == Spec => []TypeOK
<1>1. TypeInv => TypeOK
  BY DEF TypeInv
<1> QED
  BY <1>1, TypeInvInit, TypeInvStep, PTL DEF Spec

-----------------------------------------------------------------------------
(* Family and version name one skill, and a parent is a stored skill of the*)
(* same family: the UNIQUE index backs the SELECTs of register, and no     *)
(* operation changes these columns or deletes a row.                       *)

\* Labels before _init_db has run.
BeforeInitDb == {"down", "failed", "init_db"}

\* _init_db has filled the families before a process does anything else, and
\* an exception in it ends the start.
Migrated ==
    \A p \in Procs :
        /\ pc[p] \notin BeforeInitDb => \A s \in Stored : skills[s].family # None
        /\ pc[p] = "init_db" => boot[p] # 0

\* What register found out about the parent still holds at the INSERT.
ParentsKnown == \A p \in Procs : pc[p] = "insert" => ParentAccepted(entry[p])

IdentityInv ==
    TypeInv /\ Migrated /\ ParentsKnown /\ FamilyVersionIdentity /\ LineageSound

\* The family of skill s after a step.
NextFamily(s) == IF skills'[s].family = None THEN s ELSE skills'[s].family

\* The columns no operation changes.
IdentityKept(s) ==
    /\ skills'[s] # NoRow
    /\ skills'[s].version = skills[s].version
    /\ skills'[s].parent = skills[s].parent
    /\ skills'[s].code = skills[s].code
    /\ skills'[s].validated = skills[s].validated
    /\ NextFamily(s) = FamilyOf(s)
    /\ skills[s].family # None => skills'[s].family = skills[s].family

\* Process p inserts its registration.
Inserts(p) ==
    /\ pc[p] = "insert"
    /\ ConstraintsAllow(entry[p])
    /\ skills' = [skills EXCEPT ![entry[p].id] = NewRow(entry[p])]

\* The UPDATE of _transition leaves the identity of the row alone.
LEMMA UpdateKeeps ==
    ASSUME TypeInv, NEW s \in Stored, NEW t \in Stored, NEW cur \in Row, NEW m \in Move,
           skills' = [skills EXCEPT ![t] = Transitioned(skills[t], cur, m)]
    PROVE  IdentityKept(s) /\ skills'[s].family = skills[s].family
<1>1. s \in SkillIds /\ t \in SkillIds /\ skills[s] \in Row /\ skills[t] \in Row
  BY DEF TypeInv, TypeOK, Stored
<1>2. Transitioned(skills[t], cur, m) \in Row
  BY <1>1, TransitionedType
<1>3. CASE s # t
  <2>1. skills'[s] = skills[s]
    BY <1>1, <1>3
  <2> QED
    BY <2>1, <1>1, ConstantsAssumption DEF IdentityKept, FamilyOf, NextFamily, TypeInv, TypeOK
<1>4. CASE s = t
  <2>1. skills'[s] = Transitioned(skills[s], cur, m)
    BY <1>1, <1>4 DEF TypeInv, TypeOK
  <2>2. /\ skills'[s].version = skills[s].version
        /\ skills'[s].parent = skills[s].parent
        /\ skills'[s].code = skills[s].code
        /\ skills'[s].validated = skills[s].validated
        /\ skills'[s].family = skills[s].family
    BY <1>1, <2>1 DEF Transitioned, Row
  <2> QED
    BY <1>2, <1>4, <2>1, <2>2, ConstantsAssumption DEF IdentityKept, FamilyOf, NextFamily
<1> QED
  BY <1>3, <1>4

\* A step inserts one registration, or keeps the identity of every stored skill
\* and stores no other.
LEMMA TableStep ==
    ASSUME TypeInv, [Next]_vars
    PROVE  \/ \E p \in Procs : Inserts(p) /\ RegisterInsert(p)
           \/ /\ \A s \in Stored : IdentityKept(s)
              /\ Stored' = Stored
<1> DEFINE Same == (\A s \in Stored : IdentityKept(s)) /\ Stored' = Stored
<1>1. CASE UNCHANGED skills
  BY <1>1 DEF IdentityKept, FamilyOf, NextFamily, Stored
<1>2. ASSUME NEW p \in Procs, InitDb(p)
      PROVE  Same
  <2>1. \A s \in SkillIds : skills'[s] = IF s \in Stored THEN Normalised(s) ELSE NoRow
    BY <1>2 DEF InitDb
  <2>2. ASSUME NEW s \in Stored
        PROVE  IdentityKept(s)
    <3>1. skills[s] \in Row /\ s \in SkillIds /\ skills'[s] = Normalised(s)
      BY <2>1 DEF TypeInv, TypeOK, Stored
    <3>2. /\ skills'[s].family = FamilyOf(s)
          /\ skills'[s].version = skills[s].version
          /\ skills'[s].parent = skills[s].parent
          /\ skills'[s].code = skills[s].code
          /\ skills'[s].validated = skills[s].validated
      BY <3>1 DEF Normalised, Row
    <3>3. FamilyOf(s) # None
      BY <3>1, ConstantsAssumption DEF FamilyOf
    <3>4. skills'[s] # NoRow
      <4>1. FamilyOf(s) \in Families
        BY <3>1, ConstantsAssumption DEF FamilyOf, Row
      <4>2. (skills[s].immutable \/ skills[s].approval \in {"approved", "deprecated"}) \in BOOLEAN
        OBVIOUS
      <4>3. skills'[s] \in Row
        BY <3>1, <4>1, <4>2 DEF Normalised, Row
      <4> QED
        BY <4>3, ConstantsAssumption
    <3> QED
      BY <3>2, <3>3, <3>4 DEF IdentityKept, FamilyOf, NextFamily
  <2> QED
    BY <2>1, <2>2 DEF IdentityKept, Stored
<1>3. ASSUME NEW p \in Procs, WriteOld(p)
      PROVE  Same
  <2> DEFINE t == victim[p]
  <2>1. t \in Stored /\ seen[p] \in Row /\ ReplacedMove(t) \in Move
    BY <1>3, MoveTypes DEF WriteOld, TypeInv, TypeOK, Control, ControlOf, Stored
  <2>2. skills' = [skills EXCEPT ![t] = Transitioned(skills[t], seen[p], ReplacedMove(t))]
    BY <1>3 DEF WriteOld
  <2>3. \A s \in Stored : IdentityKept(s)
    BY <2>1, <2>2, UpdateKeeps
  <2> QED
    BY <2>1, <2>2, <2>3 DEF IdentityKept, Stored, TypeInv, TypeOK
<1>4. ASSUME NEW p \in Procs, Write(p)
      PROVE  Same
  <2> DEFINE t == move[p].id
  <2>1. t \in Stored /\ seen[p] \in Row /\ move[p] \in Move
    BY <1>4 DEF Write, TypeInv, TypeOK, Control, ControlOf, Stored, Move
  <2>2. skills' = [skills EXCEPT ![t] = Transitioned(skills[t], seen[p], move[p])]
    BY <1>4 DEF Write
  <2>3. \A s \in Stored : IdentityKept(s)
    BY <2>1, <2>2, UpdateKeeps
  <2> QED
    BY <2>1, <2>2, <2>3 DEF IdentityKept, Stored, TypeInv, TypeOK
<1>5. ASSUME NEW p \in Procs, RegisterInsert(p)
      PROVE  Inserts(p) \/ UNCHANGED skills
  BY <1>5 DEF RegisterInsert, Inserts
<1>6. CASE UNCHANGED vars
  BY <1>1, <1>6 DEF vars
<1>7. ASSUME NEW p \in Procs,
             \/ Start(p) \/ Request(p) \/ RegisterCheck(p) \/ RollbackGuard(p)
             \/ Champions(p) \/ ReadOld(p) \/ Read(p) \/ Crash(p) \/ WriteFails(p)
      PROVE  UNCHANGED skills
  BY <1>7 DEF Start, Request, RegisterSkill, CreateVersion, ApproveSkill,
       ApproveFromBacktest, DeprecateSkill, PromoteSkill, Rollback, Accept,
       RegisterCheck, RollbackGuard, Champions, ReadOld, Read, Crash, WriteFails
<1> QED
  BY <1>1, <1>2, <1>3, <1>4, <1>5, <1>6, <1>7 DEF Next, Continue

\* A process passes _init_db by running it, and is at the INSERT because register
\* has just checked the parent.
LEMMA LabelStep ==
    ASSUME TypeInv, Migrated, [Next]_vars, NEW q \in Procs
    PROVE  /\ pc'[q] \notin BeforeInitDb => pc[q] \notin BeforeInitDb \/ InitDb(q)
           /\ pc'[q] = "init_db" => boot'[q] # 0
           /\ pc'[q] = "insert" => \/ pc[q] = "insert" /\ entry'[q] = entry[q]
                                   \/ /\ ParentAccepted(entry[q])
                                      /\ entry'[q] = entry[q]
                                      /\ skills' = skills
<1> USE DEF BeforeInitDb
<1>1. CASE UNCHANGED vars
  BY <1>1 DEF vars, Migrated
<1>2. CASE Next
  <2>1. PICK p \in Procs :
           Start(p) \/ Request(p) \/ Continue(p) \/ Crash(p) \/ WriteFails(p)
    BY <1>2 DEF Next
  <2>2. CASE Start(p)
    BY <2>2 DEF Start, TypeInv, TypeOK, Migrated, locals
  <2>3. CASE Request(p)
    <3>1. /\ pc[p] = "idle" /\ UNCHANGED boot
          /\ \E l \in {"check", "read", "champions", "guard"} : pc' = [pc EXCEPT ![p] = l]
          /\ \/ \E e : entry' = [entry EXCEPT ![p] = e]
             \/ UNCHANGED entry
      BY <2>3 DEF Request, RegisterSkill, CreateVersion, ApproveSkill, ApproveFromBacktest,
           DeprecateSkill, PromoteSkill, Rollback, Accept
    <3> QED
      BY <3>1 DEF TypeInv, TypeOK, Migrated
  <2>4. CASE InitDb(p)
    BY <2>4 DEF InitDb, Return, Clear, Goto, TypeInv, TypeOK, Migrated
  <2>5. CASE RegisterCheck(p)
    <3>1. CASE Return(p) \/ Raise(p)
      BY <2>5, <3>1 DEF RegisterCheck, Return, Raise, Clear, TypeInv, TypeOK, Migrated
    <3>2. CASE \E m : CallTransition(p, m)
      BY <2>5, <3>2 DEF RegisterCheck, CallTransition, Goto, TypeInv, TypeOK, Migrated
    <3>3. CASE ParentAccepted(entry[p]) /\ Goto(p, "insert") /\ UNCHANGED <<skills, locals>>
      BY <2>5, <3>3 DEF RegisterCheck, Goto, TypeInv, TypeOK, Migrated, locals
    <3> QED
      BY <2>5, <3>1, <3>2, <3>3 DEF RegisterCheck, Registered
  <2>6. CASE RegisterInsert(p)
    <3>1. CASE Return(p) \/ Raise(p)
      BY <2>6, <3>1 DEF RegisterInsert, Return, Raise, Clear, TypeInv, TypeOK, Migrated
    <3>2. CASE \E m : CallTransition(p, m)
      BY <2>6, <3>2 DEF RegisterInsert, CallTransition, Goto, TypeInv, TypeOK, Migrated
    <3> QED
      BY <2>6, <3>1, <3>2 DEF RegisterInsert, Registered
  <2>7. CASE RollbackGuard(p) \/ Champions(p) \/ ReadOld(p) \/ WriteOld(p) \/ Read(p)
    BY <2>7 DEF RollbackGuard, Champions, ReadOld, WriteOld, Read, Raise, Clear, Goto,
         TypeInv, TypeOK, Migrated
  <2>8. CASE Write(p)
    BY <2>8 DEF Write, Return, Clear, TypeInv, TypeOK, Migrated
  <2>9. CASE Crash(p)
    BY <2>9 DEF Crash, Clear, TypeInv, TypeOK, Migrated
  <2>10. CASE WriteFails(p)
    BY <2>10 DEF WriteFails, Raise, Clear, TypeInv, TypeOK, Migrated
  <2> QED
    BY <2>1, <2>2, <2>3, <2>4, <2>5, <2>6, <2>7, <2>8, <2>9, <2>10 DEF Continue
<1> QED
  BY <1>1, <1>2

\* The inserted row and the rows that were there, seen after the INSERT.
LEMMA InsertStep ==
    ASSUME TypeInv, NEW p \in Procs, Inserts(p)
    PROVE  LET e == entry[p] IN
           /\ e \in Entry /\ e.id \in SkillIds \ Stored
           /\ Stored' = Stored \cup {e.id}
           /\ \A s \in Stored : skills'[s] = skills[s] /\ NextFamily(s) = FamilyOf(s)
           /\ skills'[e.id] = NewRow(e)
           /\ NextFamily(e.id) = e.family
           /\ e.family # None
<1> DEFINE e == entry[p]
<1>1. e \in Entry /\ e.id \in SkillIds /\ e.family \in Families
  BY DEF Inserts, TypeInv, TypeOK, Control, ControlOf, Entry
<1>2. e.id \notin Stored
  BY DEF Inserts, ConstraintsAllow
<1>3. NewRow(e) # NoRow /\ NewRow(e).family = e.family
  BY <1>1, NewRowType, ConstantsAssumption DEF NewRow
<1>4. skills'[e.id] = NewRow(e) /\ \A s \in SkillIds \ {e.id} : skills'[s] = skills[s]
  BY <1>1 DEF Inserts, TypeInv, TypeOK
<1>5. Stored' = Stored \cup {e.id}
  BY <1>1, <1>3, <1>4 DEF Stored
<1>6. \A s \in Stored : skills'[s] = skills[s] /\ NextFamily(s) = FamilyOf(s)
  BY <1>2, <1>4 DEF Stored, FamilyOf, NextFamily
<1>7. e.family # None
  BY <1>1, ConstantsAssumption
<1>8. NextFamily(e.id) = e.family
  BY <1>3, <1>4, <1>7 DEF NextFamily
<1> QED
  BY <1>1, <1>2, <1>4, <1>5, <1>6, <1>7, <1>8

\* The migration stays done.
LEMMA MigratedStep ==
    ASSUME TypeInv, Migrated, [Next]_vars
    PROVE  Migrated'
<1> SUFFICES ASSUME NEW q \in Procs
             PROVE  /\ pc'[q] \notin BeforeInitDb => \A s \in Stored' : skills'[s].family # None
                    /\ pc'[q] = "init_db" => boot'[q] # 0
  BY DEF Migrated, Stored
<1>1. pc'[q] = "init_db" => boot'[q] # 0
  BY LabelStep
<1>2. ASSUME pc'[q] \notin BeforeInitDb, NEW s \in Stored'
      PROVE  skills'[s].family # None
  <2>1. CASE InitDb(q)
    <3>1. s \in Stored /\ skills'[s] = Normalised(s) /\ s \in SkillIds
      BY <2>1, <1>2 DEF InitDb, Stored
    <3>2. skills'[s].family = FamilyOf(s)
      BY <3>1 DEF Normalised, TypeInv, TypeOK, Stored, Row
    <3> QED
      BY <3>1, <3>2, ConstantsAssumption DEF FamilyOf
  <2>2. CASE pc[q] \notin BeforeInitDb
    <3>1. \A t \in Stored : skills[t].family # None
      BY <2>2 DEF Migrated
    <3>2. CASE \E p \in Procs : Inserts(p)
      <4>1. PICK p \in Procs : Inserts(p)
        BY <3>2
      <4>2. CASE s \in Stored
        BY <3>1, <4>1, <4>2, InsertStep
      <4>3. CASE s = entry[p].id
        <5>1. skills'[s] = NewRow(entry[p]) /\ entry[p].family # None
          BY <4>1, <4>3, InsertStep
        <5> QED
          BY <5>1 DEF NewRow
      <4> QED
        BY <1>2, <4>1, <4>2, <4>3, InsertStep
    <3>3. CASE (\A t \in Stored : IdentityKept(t)) /\ Stored' = Stored
      BY <1>2, <3>1, <3>3 DEF IdentityKept
    <3> QED
      BY <3>2, <3>3, TableStep
  <2> QED
    BY <1>2, <2>1, <2>2, LabelStep
<1> QED
  BY <1>1, <1>2

\* A parent that register has accepted stays acceptable.
LEMMA ParentsKnownStep ==
    ASSUME TypeInv, Migrated, ParentsKnown, [Next]_vars
    PROVE  ParentsKnown'
<1> SUFFICES ASSUME NEW q \in Procs, pc'[q] = "insert"
             PROVE  ParentAccepted(entry[q])'
  BY DEF ParentsKnown
<1>1. entry'[q] = entry[q] /\ ParentAccepted(entry[q])
  BY LabelStep DEF ParentsKnown
<1>2. entry'[q] \in Entry
  BY TypeInvStep DEF TypeInv, TypeOK, Control, ControlOf
<1> DEFINE t == entry[q].parent
<1>3. CASE t = None
  BY <1>1, <1>3 DEF ParentAccepted
<1>4. CASE t # None
  <2>1. t \in Stored /\ skills[t].family = entry[q].family /\ entry[q].family # None
    BY <1>1, <1>2, <1>4, ConstantsAssumption DEF ParentAccepted, Entry
  <2>2. t \in Stored' /\ skills'[t].family = skills[t].family
    BY <2>1, TableStep, InsertStep DEF IdentityKept
  <2> QED
    BY <1>1, <2>1, <2>2 DEF ParentAccepted
<1> QED
  BY <1>3, <1>4

\* Family and version still name one skill, and parents are as they should be.
LEMMA LineageStep ==
    ASSUME IdentityInv, [Next]_vars
    PROVE  FamilyVersionIdentity' /\ LineageSound'
<1> USE DEF IdentityInv
<1>1. CASE (\A s \in Stored : IdentityKept(s)) /\ Stored' = Stored
  <2>1. FamilyVersionIdentity'
    <3> SUFFICES ASSUME NEW s \in Stored', NEW t \in Stored',
                        NextFamily(s) = NextFamily(t), skills'[s].version = skills'[t].version
                 PROVE  s = t
      BY DEF FamilyVersionIdentity, FamilyOf, NextFamily
    <3>1. s \in Stored /\ t \in Stored /\ IdentityKept(s) /\ IdentityKept(t)
      BY <1>1
    <3>2. FamilyOf(s) = FamilyOf(t) /\ skills[s].version = skills[t].version
      BY <3>1 DEF IdentityKept
    <3> QED
      BY <3>1, <3>2 DEF FamilyVersionIdentity
  <2>2. LineageSound'
    <3> SUFFICES ASSUME NEW s \in Stored', skills'[s].parent # None
                 PROVE  /\ skills'[s].parent \in Stored'
                        /\ skills'[s].parent # s
                        /\ NextFamily(skills'[s].parent) = NextFamily(s)
      BY DEF LineageSound, FamilyOf, NextFamily
    <3>1. s \in Stored /\ IdentityKept(s) /\ skills'[s].parent = skills[s].parent
      BY <1>1 DEF IdentityKept
    <3>2. /\ skills[s].parent \in Stored /\ skills[s].parent # s
          /\ FamilyOf(skills[s].parent) = FamilyOf(s)
      BY <3>1 DEF LineageSound
    <3>3. /\ NextFamily(skills[s].parent) = FamilyOf(skills[s].parent)
          /\ NextFamily(s) = FamilyOf(s)
      BY <1>1, <3>1, <3>2 DEF IdentityKept
    <3> QED
      BY <1>1, <3>1, <3>2, <3>3
  <2> QED
    BY <2>1, <2>2
<1>2. CASE \E p \in Procs : Inserts(p)
  <2>1. PICK p \in Procs : Inserts(p)
    BY <1>2
  <2> DEFINE e == entry[p]
  <2>2. /\ e \in Entry /\ e.id \in SkillIds \ Stored
        /\ Stored' = Stored \cup {e.id}
        /\ \A s \in Stored : skills'[s] = skills[s] /\ NextFamily(s) = FamilyOf(s)
        /\ skills'[e.id] = NewRow(e)
        /\ NextFamily(e.id) = e.family
        /\ e.family # None
    BY <2>1, InsertStep
  <2>3. skills'[e.id].version = e.version /\ skills'[e.id].parent = e.parent
    BY <2>2 DEF NewRow
  <2>4. \A s \in Stored : skills[s].family # None /\ FamilyOf(s) = skills[s].family
    BY <2>1 DEF Inserts, Migrated, BeforeInitDb, FamilyOf
  <2>5. \A s \in Stored : ~(FamilyOf(s) = e.family /\ skills[s].version = e.version)
    BY <2>1, <2>4 DEF Inserts, ConstraintsAllow, Duplicates
  <2>6. FamilyVersionIdentity'
    <3> SUFFICES ASSUME NEW s \in Stored', NEW t \in Stored',
                        NextFamily(s) = NextFamily(t), skills'[s].version = skills'[t].version
                 PROVE  s = t
      BY DEF FamilyVersionIdentity, FamilyOf, NextFamily
    <3> QED
      BY <2>2, <2>3, <2>5 DEF FamilyVersionIdentity
  <2>7. e.parent # None => e.parent \in Stored /\ FamilyOf(e.parent) = e.family
    BY <2>1, <2>4 DEF Inserts, ParentsKnown, ParentAccepted
  <2>8. LineageSound'
    <3> SUFFICES ASSUME NEW s \in Stored', skills'[s].parent # None
                 PROVE  /\ skills'[s].parent \in Stored'
                        /\ skills'[s].parent # s
                        /\ NextFamily(skills'[s].parent) = NextFamily(s)
      BY DEF LineageSound, FamilyOf, NextFamily
    <3>1. CASE s \in Stored
      <4>1. /\ skills[s].parent \in Stored /\ skills[s].parent # s
            /\ FamilyOf(skills[s].parent) = FamilyOf(s)
            /\ skills'[s].parent = skills[s].parent
        BY <2>2, <3>1 DEF LineageSound
      <4> QED
        BY <2>2, <3>1, <4>1
    <3>2. CASE s = e.id
      BY <2>2, <2>3, <2>7, <3>2
    <3> QED
      BY <2>2, <3>1, <3>2
  <2> QED
    BY <2>6, <2>8
<1> QED
  BY <1>1, <1>2, TableStep

\* An old file has one version per family and no parents.
LEMMA IdentityInit == Init => IdentityInv
<1> SUFFICES ASSUME Init PROVE IdentityInv
  OBVIOUS
<1>1. ASSUME NEW s \in Stored
      PROVE  FamilyOf(s) = s /\ skills[s].parent = None
  BY DEF Init, Stored, LegacyRows, LegacyRow, FamilyOf
<1>2. FamilyVersionIdentity /\ LineageSound
  BY <1>1 DEF FamilyVersionIdentity, LineageSound
<1>3. Migrated /\ ParentsKnown
  BY DEF Init, Migrated, ParentsKnown, BeforeInitDb
<1> QED
  BY <1>2, <1>3, TypeInvInit DEF IdentityInv

\* IdentityInv is inductive.
LEMMA IdentityStep == IdentityInv /\ [Next]_vars => IdentityInv'
<1> SUFFICES ASSUME IdentityInv, [Next]_vars PROVE IdentityInv'
  OBVIOUS
<1>1. TypeInv' /\ Migrated'
  BY TypeInvStep, MigratedStep DEF IdentityInv
<1>2. ParentsKnown'
  BY ParentsKnownStep DEF IdentityInv
<1> QED
  BY <1>1, <1>2, LineageStep DEF IdentityInv

\* Family and version name at most one skill, however many processes register
\* skills at the same time: register's INSERT is backed by the UNIQUE index.
THEOREM FamilyVersionUnique == Spec => []FamilyVersionIdentity
<1>1. IdentityInv => FamilyVersionIdentity
  BY DEF IdentityInv
<1> QED
  BY <1>1, IdentityInit, IdentityStep, PTL DEF Spec

\* The parent of a skill is another stored skill of the same family: what
\* register checked before its INSERT no other process can undo.
THEOREM ParentsAreFamily == Spec => []LineageSound
<1>1. IdentityInv => LineageSound
  BY DEF IdentityInv
<1> QED
  BY <1>1, IdentityInit, IdentityStep, PTL DEF Spec

-----------------------------------------------------------------------------
(* Every row.  Updates that overwrite one another break neither property,   *)
(* because _transition writes a whole row from one read.                    *)

\* What a step does to a stored row: nothing, the migration, the INSERT, or one
\* of the two UPDATEs.
RowWritten(s) ==
    \/ s \in Stored /\ skills'[s] = skills[s]
    \/ s \in Stored /\ skills'[s] = Normalised(s)
    \/ \E p \in Procs : Inserts(p) /\ s = entry[p].id /\ skills'[s] = NewRow(entry[p])
    \/ \E p \in Procs :
          /\ pc[p] = "write_old" /\ s = victim[p] /\ s \in Stored
          /\ skills'[s] = Transitioned(skills[s], seen[p], ReplacedMove(s))
    \/ \E p \in Procs :
          /\ pc[p] = "write" /\ s = move[p].id /\ s \in Stored
          /\ skills'[s] = Transitioned(skills[s], seen[p], move[p])

\* Every row of the table after a step comes from one of these writes.
LEMMA RowStep ==
    ASSUME TypeInv, [Next]_vars, NEW s \in Stored'
    PROVE  RowWritten(s)
<1> USE DEF TypeInv, TypeOK
<1>1. s \in SkillIds /\ skills'[s] # NoRow
  BY DEF Stored
<1>2. CASE UNCHANGED skills
  BY <1>1, <1>2 DEF Stored, RowWritten
<1>3. ASSUME NEW p \in Procs, InitDb(p)
      PROVE  RowWritten(s)
  BY <1>1, <1>3 DEF InitDb, RowWritten
<1>4. ASSUME NEW p \in Procs, RegisterInsert(p)
      PROVE  RowWritten(s)
  <2>1. CASE Inserts(p)
    <3>1. Stored' = Stored \cup {entry[p].id} /\ \A t \in Stored : skills'[t] = skills[t]
      BY <2>1, InsertStep
    <3>2. skills'[entry[p].id] = NewRow(entry[p])
      BY <2>1, InsertStep
    <3> QED
      BY <2>1, <3>1, <3>2 DEF RowWritten
  <2> QED
    BY <1>2, <1>4, <2>1 DEF RegisterInsert, Inserts
<1>5. ASSUME NEW p \in Procs, WriteOld(p)
      PROVE  RowWritten(s)
  BY <1>1, <1>5 DEF WriteOld, RowWritten, Control, ControlOf, Stored
<1>6. ASSUME NEW p \in Procs, Write(p)
      PROVE  RowWritten(s)
  <2>1. move[p].id \in Stored /\ pc[p] = "write"
    BY <1>6 DEF Write, Control, ControlOf, Stored, Move
  <2> QED
    BY <1>1, <1>6, <2>1 DEF Write, RowWritten, Stored
<1>7. ASSUME NEW p \in Procs,
             \/ Start(p) \/ Request(p) \/ RegisterCheck(p) \/ RollbackGuard(p)
             \/ Champions(p) \/ ReadOld(p) \/ Read(p) \/ Crash(p) \/ WriteFails(p)
      PROVE  UNCHANGED skills
  BY <1>7 DEF Start, Request, RegisterSkill, CreateVersion, ApproveSkill,
       ApproveFromBacktest, DeprecateSkill, PromoteSkill, Rollback, Accept,
       RegisterCheck, RollbackGuard, Champions, ReadOld, Read, Crash, WriteFails
<1> QED
  BY <1>2, <1>3, <1>4, <1>5, <1>6, <1>7 DEF Next, Continue, vars

\* What a handler asks of _transition, and the note that says so.
MoveShape(m) ==
    \/ /\ m.approval = "approved" /\ m.stage = None /\ m.immutable = TRUE
       /\ m.note = [action |-> "approved", stage |-> None]
    \/ /\ m.approval = "deprecated" /\ m.stage = "retired" /\ m.immutable = TRUE
       /\ m.note = [action |-> "deprecated", stage |-> None]
    \/ /\ m.approval = None /\ m.stage \in Stages
       /\ m.note = [action |-> "deployment_stage", stage |-> m.stage]

\* The calls that approve, deprecate, promote and rollback make.
LEMMA MoveShapes ==
    /\ \A s : MoveShape(ApproveMove(s)) /\ MoveShape(DeprecateMove(s))
    /\ \A s, stage : stage \in Stages => MoveShape(PromoteMove(s, stage))
BY DEF MoveShape, ApproveMove, DeprecateMove, PromoteMove

\* The end of a handler, in any step.
LEMMA EndLocals ==
    ASSUME TypeInv, NEW p \in Procs, NEW q \in Procs, Clear(p)
    PROVE  /\ move'[q] \in {move[q], None}
           /\ seen'[q] \in {seen[q], NoRow}
BY DEF TypeInv, TypeOK, Clear

\* A handler asks for nothing else, and what it has read is a row of the table.
LEMMA LocalsStep ==
    ASSUME TypeInv, [Next]_vars, NEW q \in Procs
    PROVE  /\ move'[q] \in {move[q], None} \/ MoveShape(move'[q])
           /\ seen'[q] \in {seen[q], NoRow} \/ \E t \in Stored : seen'[q] = skills[t]
<1> USE DEF TypeInv, TypeOK
<1> DEFINE Goal == /\ move'[q] \in {move[q], None} \/ MoveShape(move'[q])
                   /\ seen'[q] \in {seen[q], NoRow} \/ \E t \in Stored : seen'[q] = skills[t]
<1>1. CASE UNCHANGED vars
  BY <1>1 DEF vars
<1>2. ASSUME NEW p \in Procs, Clear(p)
      PROVE  Goal
  BY <1>2, EndLocals
<1>3. ASSUME NEW p \in Procs, NEW m, MoveShape(m), UNCHANGED seen,
             move' = [move EXCEPT ![p] = m]
      PROVE  Goal
  BY <1>3
<1>4. ASSUME NEW p \in Procs, NEW t, NEW v, Registered(p, t, v)
      PROVE  Goal
  <2>1. CASE CallTransition(p, ApproveMove(t))
    BY <2>1, <1>3, MoveShapes DEF CallTransition
  <2>2. CASE Return(p)
    BY <2>2, <1>2 DEF Return
  <2> QED
    BY <1>4, <2>1, <2>2 DEF Registered
<1>5. ASSUME NEW p \in Procs, Start(p) \/ Crash(p) \/ WriteFails(p)
      PROVE  Goal
  BY <1>2, <1>5 DEF Start, locals, Crash, WriteFails, Raise
<1>6. ASSUME NEW p \in Procs, Request(p)
      PROVE  Goal
  <2>1. UNCHANGED seen
    BY <1>6 DEF Request, RegisterSkill, CreateVersion, ApproveSkill, ApproveFromBacktest,
         DeprecateSkill, PromoteSkill, Rollback, Accept
  <2>2. UNCHANGED move \/ \E m : MoveShape(m) /\ move' = [move EXCEPT ![p] = m]
    <3>1. CASE RegisterSkill(p) \/ CreateVersion(p)
      BY <3>1 DEF RegisterSkill, CreateVersion
    <3>2. CASE ApproveSkill(p) \/ ApproveFromBacktest(p) \/ DeprecateSkill(p)
      BY <3>2, MoveShapes DEF ApproveSkill, ApproveFromBacktest, DeprecateSkill
    <3>3. CASE PromoteSkill(p)
      <4>1. PICK s \in Stored, stage \in PromoteStages :
               move' = [move EXCEPT ![p] = PromoteMove(s, stage)]
        BY <3>3 DEF PromoteSkill
      <4>2. MoveShape(PromoteMove(s, stage))
        BY MoveShapes, ConstantsAssumption
      <4> QED
        BY <4>1, <4>2
    <3>4. CASE Rollback(p)
      <4>1. PICK s \in Stored : move' = [move EXCEPT ![p] = PromoteMove(s, "champion")]
        BY <3>4 DEF Rollback
      <4>2. MoveShape(PromoteMove(s, "champion"))
        BY MoveShapes DEF Stages
      <4> QED
        BY <4>1, <4>2
    <3> QED
      BY <1>6, <3>1, <3>2, <3>3, <3>4 DEF Request
  <2> QED
    BY <1>3, <2>1, <2>2
<1>7. ASSUME NEW p \in Procs, InitDb(p)
      PROVE  Goal
  BY <1>2, <1>7 DEF InitDb, Return
<1>8. ASSUME NEW p \in Procs, RegisterCheck(p)
      PROVE  Goal
  <2>1. CASE Raise(p)
    BY <1>2, <2>1 DEF Raise
  <2>2. CASE \E t, v : Registered(p, t, v)
    BY <1>4, <2>2
  <2>3. CASE UNCHANGED locals
    BY <2>3 DEF locals
  <2> QED
    BY <1>8, <2>1, <2>2, <2>3 DEF RegisterCheck
<1>9. ASSUME NEW p \in Procs, RegisterInsert(p)
      PROVE  Goal
  <2>1. CASE Raise(p)
    BY <1>2, <2>1 DEF Raise
  <2>2. CASE \E t, v : Registered(p, t, v)
    BY <1>4, <2>2
  <2> QED
    BY <1>9, <2>1, <2>2 DEF RegisterInsert
<1>10. ASSUME NEW p \in Procs, RollbackGuard(p)
       PROVE  Goal
  <2>1. CASE Raise(p)
    BY <1>2, <2>1 DEF Raise
  <2>2. CASE /\ move' = [move EXCEPT ![p] = PromoteMove(move[p].id, "champion")]
             /\ UNCHANGED seen
    <3>1. MoveShape(PromoteMove(move[p].id, "champion"))
      BY MoveShapes DEF Stages
    <3> QED
      BY <1>3, <2>2, <3>1
  <2> QED
    BY <1>10, <2>1, <2>2 DEF RollbackGuard
<1>11. ASSUME NEW p \in Procs, Champions(p) \/ WriteOld(p)
       PROVE  Goal
  BY <1>11 DEF Champions, WriteOld
<1>12. ASSUME NEW p \in Procs, ReadOld(p) \/ Read(p)
       PROVE  Goal
  <2>1. PICK t \in Stored : seen' = [seen EXCEPT ![p] = skills[t]] /\ UNCHANGED move
    BY <1>12 DEF ReadOld, Read, Control, ControlOf, Stored, Move
  <2> QED
    BY <2>1
<1>13. ASSUME NEW p \in Procs, Write(p)
       PROVE  Goal
  BY <1>2, <1>13 DEF Write, Return
<1> QED
  BY <1>1, <1>5, <1>6, <1>7, <1>8, <1>9, <1>10, <1>11, <1>12, <1>13 DEF Next, Continue

-----------------------------------------------------------------------------
(* The notes explain the statuses                                          *)

ApprovalExplained(notes, x) ==
    \/ LastSetTo(notes, NoteApproval, x)
    \/ NeverSet(notes, NoteApproval) /\ x = "draft"

StageExplained(notes, x) ==
    \/ LastSetTo(notes, NoteStage, x)
    \/ NeverSet(notes, NoteStage) /\ x \in RegisterStages \cup {"candidate"}

Explained(row) ==
    ApprovalExplained(row.notes, row.approval) /\ StageExplained(row.notes, row.stage)

\* The rows of the table and the rows that handlers have read are explained, and
\* the moves under way say in their notes what they set.
AuditInv ==
    /\ TypeInv
    /\ \A s \in Stored : Explained(skills[s])
    /\ \A p \in Procs : seen[p] # NoRow => Explained(seen[p])
    /\ \A p \in Procs : move[p] # None => MoveShape(move[p])

\* One more note explains the approval it sets, or leaves the explanation as is.
LEMMA ApprovalNoted ==
    ASSUME NEW notes \in Seq(Note), NEW n \in Note, NEW x, ApprovalExplained(notes, x)
    PROVE  ApprovalExplained(Append(notes, n), Given(NoteApproval(n), x))
<1> DEFINE more == Append(notes, n)
           k == Len(notes) + 1
<1>1. /\ DOMAIN more = 1..k /\ DOMAIN notes = 1..Len(notes) /\ Len(notes) \in Nat
      /\ more[k] = n
      /\ \A i \in DOMAIN notes : more[i] = notes[i]
  OBVIOUS
<1> HIDE DEF more
<1>2. CASE NoteApproval(n) = None
  <2>1. CASE LastSetTo(notes, NoteApproval, x)
    <3>1. PICK i \in DOMAIN notes :
             /\ NoteApproval(notes[i]) = x
             /\ \A j \in DOMAIN notes : j > i => NoteApproval(notes[j]) = None
      BY <2>1 DEF LastSetTo
    <3>2. /\ i \in DOMAIN more /\ NoteApproval(more[i]) = x
          /\ \A j \in DOMAIN more : j > i => NoteApproval(more[j]) = None
      <4>1. \A j \in DOMAIN more : j \in DOMAIN notes \/ j = k
        BY <1>1
      <4>2. i \in DOMAIN more
        BY <1>1
      <4> QED
        BY <1>1, <1>2, <3>1, <4>1, <4>2
    <3>3. LastSetTo(more, NoteApproval, x)
      BY <3>2 DEF LastSetTo
    <3> QED
      BY <1>2, <3>3 DEF ApprovalExplained, Given, more
  <2>2. CASE NeverSet(notes, NoteApproval) /\ x = "draft"
    <3>1. \A j \in DOMAIN more : j \in DOMAIN notes \/ j = k
      BY <1>1
    <3>2. NeverSet(more, NoteApproval)
      BY <1>1, <1>2, <2>2, <3>1 DEF NeverSet
    <3> QED
      BY <1>2, <2>2, <3>2 DEF ApprovalExplained, Given, more
  <2> QED
    BY <2>1, <2>2 DEF ApprovalExplained
<1>3. CASE NoteApproval(n) # None
  <2>1. k \in DOMAIN more /\ \A j \in DOMAIN more : ~(j > k)
    BY <1>1
  <2>2. LastSetTo(more, NoteApproval, NoteApproval(n))
    BY <1>1, <2>1 DEF LastSetTo
  <2> QED
    BY <1>3, <2>2 DEF ApprovalExplained, Given, more
<1> QED
  BY <1>2, <1>3

\* The same for the stage.
LEMMA StageNoted ==
    ASSUME NEW notes \in Seq(Note), NEW n \in Note, NEW x, StageExplained(notes, x)
    PROVE  StageExplained(Append(notes, n), Given(NoteStage(n), x))
<1> DEFINE more == Append(notes, n)
           k == Len(notes) + 1
<1>1. /\ DOMAIN more = 1..k /\ DOMAIN notes = 1..Len(notes) /\ Len(notes) \in Nat
      /\ more[k] = n
      /\ \A i \in DOMAIN notes : more[i] = notes[i]
  OBVIOUS
<1> HIDE DEF more
<1>2. CASE NoteStage(n) = None
  <2>1. CASE LastSetTo(notes, NoteStage, x)
    <3>1. PICK i \in DOMAIN notes :
             /\ NoteStage(notes[i]) = x
             /\ \A j \in DOMAIN notes : j > i => NoteStage(notes[j]) = None
      BY <2>1 DEF LastSetTo
    <3>2. /\ i \in DOMAIN more /\ NoteStage(more[i]) = x
          /\ \A j \in DOMAIN more : j > i => NoteStage(more[j]) = None
      <4>1. \A j \in DOMAIN more : j \in DOMAIN notes \/ j = k
        BY <1>1
      <4>2. i \in DOMAIN more
        BY <1>1
      <4> QED
        BY <1>1, <1>2, <3>1, <4>1, <4>2
    <3>3. LastSetTo(more, NoteStage, x)
      BY <3>2 DEF LastSetTo
    <3> QED
      BY <1>2, <3>3 DEF StageExplained, Given, more
  <2>2. CASE NeverSet(notes, NoteStage) /\ x \in RegisterStages \cup {"candidate"}
    <3>1. \A j \in DOMAIN more : j \in DOMAIN notes \/ j = k
      BY <1>1
    <3>2. NeverSet(more, NoteStage)
      BY <1>1, <1>2, <2>2, <3>1 DEF NeverSet
    <3> QED
      BY <1>2, <2>2, <3>2 DEF StageExplained, Given, more
  <2> QED
    BY <2>1, <2>2 DEF StageExplained
<1>3. CASE NoteStage(n) # None
  <2>1. k \in DOMAIN more /\ \A j \in DOMAIN more : ~(j > k)
    BY <1>1
  <2>2. LastSetTo(more, NoteStage, NoteStage(n))
    BY <1>1, <2>1 DEF LastSetTo
  <2> QED
    BY <1>3, <2>2 DEF StageExplained, Given, more
<1> QED
  BY <1>2, <1>3

\* The note of a move says what the move sets.
LEMMA NotesSayMoves ==
    ASSUME NEW m, MoveShape(m) \/ \E t : m = ReplacedMove(t)
    PROVE  NoteApproval(m.note) = m.approval /\ NoteStage(m.note) = m.stage
BY DEF MoveShape, ReplacedMove, NoteApproval, NoteStage

\* The UPDATE of _transition leaves an explained row when the row it read was,
\* whatever row it overwrites.
LEMMA TransitionExplained ==
    ASSUME NEW row \in Row, NEW cur \in Row, NEW m \in Move, Explained(cur),
           MoveShape(m) \/ \E t : m = ReplacedMove(t)
    PROVE  Explained(Transitioned(row, cur, m))
<1> DEFINE new == Transitioned(row, cur, m)
<1>1. /\ new.notes = Append(cur.notes, m.note)
      /\ new.approval = Given(m.approval, cur.approval)
      /\ new.stage = Given(m.stage, cur.stage)
  BY DEF Transitioned, Row
<1>2. cur.notes \in Seq(Note) /\ m.note \in Note
  BY DEF Row, Move
<1>3. ApprovalExplained(new.notes, new.approval)
  BY <1>1, <1>2, NotesSayMoves, ApprovalNoted DEF Explained
<1>4. StageExplained(new.notes, new.stage)
  BY <1>1, <1>2, NotesSayMoves, StageNoted DEF Explained
<1> QED
  BY <1>3, <1>4 DEF Explained

\* A new registration and an old file are explained.
LEMMA FirstRowsExplained ==
    /\ \A e \in Entry : e.stage \in RegisterStages \cup {"candidate"} => Explained(NewRow(e))
    /\ \A row \in LegacyRows : Explained(row)
<1>1. ASSUME NEW e \in Entry, e.stage \in RegisterStages \cup {"candidate"}
      PROVE  Explained(NewRow(e))
  <2>1. NewRow(e).notes = <<>> /\ NewRow(e).approval = "draft" /\ NewRow(e).stage = e.stage
    BY DEF NewRow
  <2>2. DOMAIN <<>> = {}
    OBVIOUS
  <2> QED
    BY <1>1, <2>1, <2>2 DEF Explained, ApprovalExplained, StageExplained, NeverSet
<1>2. ASSUME NEW c \in Codes
      PROVE  Explained(LegacyRow(c, FALSE))
  <2>1. /\ LegacyRow(c, FALSE).notes = <<>> /\ LegacyRow(c, FALSE).approval = "draft"
        /\ LegacyRow(c, FALSE).stage = "candidate"
    BY DEF LegacyRow
  <2>2. DOMAIN <<>> = {}
    OBVIOUS
  <2> QED
    BY <2>1, <2>2 DEF Explained, ApprovalExplained, StageExplained, NeverSet
<1>3. ASSUME NEW c \in Codes
      PROVE  Explained(LegacyRow(c, TRUE))
  <2> DEFINE n == [action |-> "approved", stage |-> None]
             notes == <<n>>
  <2>1. /\ LegacyRow(c, TRUE).notes = notes /\ LegacyRow(c, TRUE).approval = "approved"
        /\ LegacyRow(c, TRUE).stage = "candidate"
    BY DEF LegacyRow
  <2>2. DOMAIN notes = {1} /\ notes[1] = n
    OBVIOUS
  <2>3. NoteApproval(n) = "approved" /\ NoteStage(n) = None
    BY DEF NoteApproval, NoteStage
  <2> HIDE DEF notes, n
  <2>4. ApprovalExplained(notes, "approved")
    BY <2>2, <2>3 DEF ApprovalExplained, LastSetTo
  <2>5. StageExplained(notes, "candidate")
    BY <2>2, <2>3 DEF StageExplained, NeverSet
  <2> QED
    BY <2>1, <2>4, <2>5 DEF Explained
<1>4. \A row \in LegacyRows : Explained(row)
  BY <1>2, <1>3, ConstantsAssumption DEF LegacyRows
<1> QED
  BY <1>1, <1>4

\* The stages register stores: those clients send, and candidate.
EntriesStaged ==
    \A p \in Procs : entry[p] # None => entry[p].stage \in RegisterStages \cup {"candidate"}

\* No other registration is ever under way.
LEMMA EntriesStep ==
    ASSUME TypeInv, EntriesStaged, [Next]_vars
    PROVE  EntriesStaged'
<1> USE DEF TypeInv, TypeOK
<1> SUFFICES ASSUME NEW q \in Procs
             PROVE  \/ entry'[q] \in {entry[q], None}
                    \/ entry'[q].stage \in RegisterStages \cup {"candidate"}
  BY DEF EntriesStaged
<1> DEFINE Goal == \/ entry'[q] \in {entry[q], None}
                   \/ entry'[q].stage \in RegisterStages \cup {"candidate"}
<1>1. CASE UNCHANGED entry
  BY <1>1
<1>2. ASSUME NEW p \in Procs, Clear(p)
      PROVE  Goal
  BY <1>2 DEF Clear
<1>3. ASSUME NEW p \in Procs, RegisterSkill(p) \/ CreateVersion(p) \/ InitDb(p)
      PROVE  Goal
  BY <1>2, <1>3 DEF RegisterSkill, CreateVersion, InitDb, SeedEntry, Return
<1>4. ASSUME NEW p \in Procs, NEW t, NEW v, Registered(p, t, v)
      PROVE  Goal
  BY <1>1, <1>2, <1>4 DEF Registered, CallTransition, Return
<1>5. ASSUME NEW p \in Procs, RegisterCheck(p)
      PROVE  Goal
  <2>1. CASE Raise(p)
    BY <1>2, <2>1 DEF Raise
  <2>2. CASE \E t, v : Registered(p, t, v)
    BY <1>4, <2>2
  <2>3. CASE UNCHANGED locals
    BY <1>1, <2>3 DEF locals
  <2> QED
    BY <1>5, <2>1, <2>2, <2>3 DEF RegisterCheck
<1>6. ASSUME NEW p \in Procs, RegisterInsert(p)
      PROVE  Goal
  <2>1. CASE Raise(p)
    BY <1>2, <2>1 DEF Raise
  <2>2. CASE \E t, v : Registered(p, t, v)
    BY <1>4, <2>2
  <2> QED
    BY <1>6, <2>1, <2>2 DEF RegisterInsert
<1>7. ASSUME NEW p \in Procs,
             \/ ApproveSkill(p) \/ ApproveFromBacktest(p) \/ DeprecateSkill(p)
             \/ PromoteSkill(p) \/ Rollback(p) \/ Start(p) \/ RollbackGuard(p)
             \/ Champions(p) \/ ReadOld(p) \/ WriteOld(p) \/ Read(p)
      PROVE  UNCHANGED entry \/ Clear(p)
  BY <1>7 DEF ApproveSkill, ApproveFromBacktest, DeprecateSkill, PromoteSkill, Rollback,
     Start, locals, RollbackGuard, Raise, Champions, ReadOld, WriteOld, Read
<1>8. ASSUME NEW p \in Procs, Write(p) \/ Crash(p) \/ WriteFails(p)
      PROVE  Clear(p)
  BY <1>8 DEF Write, Return, Crash, WriteFails, Raise
<1> QED
  BY <1>1, <1>2, <1>3, <1>5, <1>6, <1>7, <1>8 DEF Next, Request, Continue, vars

\* The table of an old file, and no handler.
LEMMA AuditInit == Init => AuditInv /\ EntriesStaged
<1> SUFFICES ASSUME Init PROVE AuditInv /\ EntriesStaged
  OBVIOUS
<1>1. \A s \in Stored : Explained(skills[s])
  BY FirstRowsExplained DEF Init, Stored
<1>2. /\ \A p \in Procs : seen[p] = NoRow /\ move[p] = None /\ entry[p] = None
  BY DEF Init
<1> QED
  BY <1>1, <1>2, TypeInvInit DEF AuditInv, EntriesStaged

\* AuditInv is inductive.
LEMMA AuditStep == AuditInv /\ EntriesStaged /\ [Next]_vars => (AuditInv /\ EntriesStaged)'
<1> SUFFICES ASSUME AuditInv, EntriesStaged, [Next]_vars
             PROVE  (AuditInv /\ EntriesStaged)'
  OBVIOUS
<1>1. TypeInv /\ TypeInv' /\ EntriesStaged'
  BY TypeInvStep, EntriesStep DEF AuditInv
<1>2. ASSUME NEW s \in Stored'
      PROVE  Explained(skills'[s])
  <2>0. s \in SkillIds /\ (s \in Stored => skills[s] \in Row)
    BY <1>1 DEF Stored, TypeInv, TypeOK
  <2>1. CASE s \in Stored /\ skills'[s] = skills[s]
    BY <2>1 DEF AuditInv
  <2>2. CASE s \in Stored /\ skills'[s] = Normalised(s)
    <3>1. /\ Normalised(s).notes = skills[s].notes
          /\ Normalised(s).approval = skills[s].approval
          /\ Normalised(s).stage = skills[s].stage
      BY <2>0, <2>2 DEF Normalised, Row
    <3> QED
      BY <2>2, <3>1 DEF AuditInv, Explained
  <2>3. ASSUME NEW p \in Procs, Inserts(p), skills'[s] = NewRow(entry[p])
        PROVE  Explained(skills'[s])
    <3>1. entry[p] \in Entry /\ entry[p] # None
      BY <1>1, <2>3, InsertStep, ConstantsAssumption
    <3> QED
      BY <2>3, <3>1, FirstRowsExplained DEF EntriesStaged
  <2>4. ASSUME NEW p \in Procs, pc[p] = "write_old", s \in Stored,
               skills'[s] = Transitioned(skills[s], seen[p], ReplacedMove(s))
        PROVE  Explained(skills'[s])
    <3>1. seen[p] \in Row /\ seen[p] # NoRow /\ ReplacedMove(s) \in Move
      BY <1>1, <2>0, <2>4, MoveTypes DEF TypeInv, TypeOK, Control, ControlOf
    <3> QED
      BY <2>0, <2>4, <3>1, TransitionExplained DEF AuditInv
  <2>5. ASSUME NEW p \in Procs, pc[p] = "write", s \in Stored,
               skills'[s] = Transitioned(skills[s], seen[p], move[p])
        PROVE  Explained(skills'[s])
    <3>1. seen[p] \in Row /\ seen[p] # NoRow /\ move[p] \in Move /\ move[p] # None
      BY <1>1, <2>5 DEF TypeInv, TypeOK, Control, ControlOf
    <3> QED
      BY <2>0, <2>5, <3>1, TransitionExplained DEF AuditInv
  <2> QED
    BY <1>1, <1>2, <2>1, <2>2, <2>3, <2>4, <2>5, RowStep DEF RowWritten
<1>3. ASSUME NEW q \in Procs
      PROVE  /\ seen'[q] # NoRow => Explained(seen'[q])
             /\ move'[q] # None => MoveShape(move'[q])
  BY <1>1, LocalsStep DEF AuditInv
<1> QED
  BY <1>1, <1>2, <1>3 DEF AuditInv

\* However many processes overwrite one another's updates, the notes of every
\* skill explain its approval and its stage.
THEOREM NotesExplainStatuses == Spec => []AuditTrailExplainsState
<1>1. AuditInv => AuditTrailExplainsState
  BY DEF AuditInv, AuditTrailExplainsState, Explained, ApprovalExplained, StageExplained
<1> QED
  BY <1>1, AuditInit, AuditStep, PTL DEF Spec

-----------------------------------------------------------------------------
(* Refused code                                                            *)

\* Clients register skills at stages that need no approval.
UndeployedRegistrations == RegisterStages \subseteq {"candidate", "retired"}

\* A row that is approved or deployed was validated.
Vetted(row) ==
    row.stage \notin {"candidate", "retired"} \/ row.approval = "approved" => row.validated

\* A move that approves or deploys its skill has seen it validated.
MoveVetted(m) ==
    m.approval = "approved" \/ m.stage \notin {None, "candidate", "retired"} =>
        skills[m.id].validated

\* What a handler has established when it is at its label: the row that it read is
\* a vetted one of the same skill, if not the current one.
Vetting(p) ==
    /\ pc[p] \in {"check", "insert"} => entry[p].stage \in {"candidate", "retired"}
    /\ pc[p] \in {"champions", "read_old", "write_old", "read", "write"} =>
           MoveVetted(move[p])
    /\ pc[p] = "write_old" =>
           Vetted(seen[p]) /\ seen[p].validated = skills[victim[p]].validated
    /\ pc[p] = "write" =>
           Vetted(seen[p]) /\ seen[p].validated = skills[move[p].id].validated

VettedInv ==
    /\ TypeInv
    /\ \A s \in Stored : Vetted(skills[s])
    /\ \A p \in Procs : Vetting(p)

\* The UPDATE of _transition leaves a vetted row, whatever row of the skill it
\* overwrites.
LEMMA TransitionVetted ==
    ASSUME NEW row \in Row, NEW cur \in Row, NEW m \in Move, Vetted(cur),
           cur.validated = row.validated,
           m.approval = "approved" \/ m.stage \notin {None, "candidate", "retired"} =>
               row.validated
    PROVE  Vetted(Transitioned(row, cur, m))
<1> DEFINE new == Transitioned(row, cur, m)
<1>1. new.validated = row.validated
  BY DEF Transitioned, Row
<1>2. new.approval = Given(m.approval, cur.approval) /\ new.stage = Given(m.stage, cur.stage)
  BY DEF Transitioned, Row
<1> HIDE DEF new
<1>3. Vetted(new)
  BY <1>1, <1>2 DEF Vetted, Given
<1> QED
  BY <1>3 DEF new

\* A step of one process leaves the locals of the others alone.
LEMMA OthersStep ==
    ASSUME TypeInv, NEW p \in Procs,
           Start(p) \/ Request(p) \/ Continue(p) \/ Crash(p) \/ WriteFails(p)
    PROVE  OthersKept(p)
<1> USE DEF TypeInv, TypeOK, OthersKept
<1>1. CASE Return(p) \/ Raise(p)
  BY <1>1 DEF Return, Raise, Clear
<1>2. CASE \E t, v : Registered(p, t, v)
  BY <1>1, <1>2 DEF Registered, CallTransition, Goto
<1>3. CASE Start(p) \/ Crash(p) \/ WriteFails(p)
  BY <1>1, <1>3 DEF Start, locals, Crash, Clear, WriteFails
<1>4. CASE Request(p)
  <2>1. CASE RegisterSkill(p) \/ CreateVersion(p)
    BY <2>1 DEF RegisterSkill, CreateVersion, Accept
  <2>2. CASE ApproveSkill(p) \/ ApproveFromBacktest(p) \/ DeprecateSkill(p)
    BY <2>2 DEF ApproveSkill, ApproveFromBacktest, DeprecateSkill, Accept
  <2>3. CASE PromoteSkill(p) \/ Rollback(p)
    BY <2>3 DEF PromoteSkill, Rollback, Accept
  <2> QED
    BY <1>4, <2>1, <2>2, <2>3 DEF Request
<1>5. CASE InitDb(p)
  BY <1>1, <1>5 DEF InitDb, Goto
<1>6. CASE RegisterCheck(p) \/ RegisterInsert(p)
  <2>1. CASE Goto(p, "insert") /\ UNCHANGED locals
    BY <2>1 DEF Goto, locals
  <2> QED
    BY <1>1, <1>2, <1>6, <2>1 DEF RegisterCheck, RegisterInsert
<1>7. CASE RollbackGuard(p) \/ Champions(p) \/ ReadOld(p) \/ WriteOld(p) \/ Read(p)
  BY <1>1, <1>7 DEF RollbackGuard, Champions, ReadOld, WriteOld, Read, Goto
<1>8. CASE Write(p)
  BY <1>1, <1>8 DEF Write
<1> QED
  BY <1>3, <1>4, <1>5, <1>6, <1>7, <1>8 DEF Continue

\* Validation is decided once: a step changes it for no stored skill.
LEMMA ValidationKept ==
    ASSUME TypeInv, [Next]_vars, NEW s \in Stored
    PROVE  s \in Stored' /\ skills'[s].validated = skills[s].validated
BY TableStep, InsertStep DEF IdentityKept

\* The process that takes a step finds out what it needs.
LEMMA VettingOfActor ==
    ASSUME UndeployedRegistrations, VettedInv, NEW p \in Procs, [Next]_vars,
           Start(p) \/ Request(p) \/ Continue(p) \/ Crash(p) \/ WriteFails(p)
    PROVE  Vetting(p)'
<1> USE DEF VettedInv, TypeInv, TypeOK
<1>0. /\ TypeInv
      /\ \A s \in Stored : s \in Stored' /\ skills'[s].validated = skills[s].validated
  BY ValidationKept
<1>1. ASSUME pc'[p] \in {"down", "failed", "init_db", "idle", "guard"}
      PROVE  Vetting(p)'
  BY <1>1 DEF Vetting
<1>2. CASE Return(p) \/ Raise(p)
  BY <1>1, <1>2 DEF Return, Raise
<1>3. ASSUME pc'[p] \in {"read", "champions", "read_old"}, MoveVetted(move[p])'
      PROVE  Vetting(p)'
  BY <1>3 DEF Vetting
<1>4. ASSUME NEW t \in SkillIds, NEW v, Registered(p, t, v), v => skills'[t].validated
      PROVE  Vetting(p)'
  <2>1. CASE v /\ CallTransition(p, ApproveMove(t))
    <3>1. pc'[p] = "read" /\ move'[p] = ApproveMove(t)
      BY <2>1 DEF CallTransition, Goto
    <3>2. MoveVetted(move[p])'
      BY <1>4, <2>1, <3>1 DEF MoveVetted, ApproveMove
    <3> QED
      BY <1>3, <3>1, <3>2
  <2> QED
    BY <1>2, <1>4, <2>1 DEF Registered
<1>5. CASE Start(p) \/ Crash(p) \/ WriteFails(p) \/ Rollback(p)
  BY <1>1, <1>2, <1>5 DEF Start, Crash, WriteFails, Rollback
<1>6. CASE RegisterSkill(p) \/ CreateVersion(p)
  <2>1. pc'[p] = "check" /\ entry'[p].stage \in {"candidate", "retired"}
    BY <1>6 DEF RegisterSkill, CreateVersion, UndeployedRegistrations
  <2> QED
    BY <2>1 DEF Vetting
<1>7. CASE ApproveSkill(p) \/ ApproveFromBacktest(p)
  <2>1. PICK s \in Stored : skills[s].validated /\ move' = [move EXCEPT ![p] = ApproveMove(s)]
    BY <1>7 DEF ApproveSkill, ApproveFromBacktest
  <2>2. pc'[p] = "read" /\ move'[p] = ApproveMove(s)
    BY <1>7, <2>1 DEF ApproveSkill, ApproveFromBacktest
  <2>3. MoveVetted(move[p])'
    BY <1>0, <2>1, <2>2 DEF MoveVetted, ApproveMove
  <2> QED
    BY <1>3, <2>2, <2>3
<1>8. CASE DeprecateSkill(p)
  <2>1. PICK s \in Stored : move' = [move EXCEPT ![p] = DeprecateMove(s)]
    BY <1>8 DEF DeprecateSkill
  <2>2. pc'[p] = "read" /\ move'[p] = DeprecateMove(s)
    BY <1>8, <2>1 DEF DeprecateSkill
  <2>3. MoveVetted(move[p])'
    BY <2>2 DEF MoveVetted, DeprecateMove
  <2> QED
    BY <1>3, <2>2, <2>3
<1>9. ASSUME NEW s \in Stored, NEW stage, PromoteAllowed(s, stage),
             move'[p] = PromoteMove(s, stage)
      PROVE  MoveVetted(move[p])'
  <2>1. stage \notin {"candidate", "retired"} => skills'[s].validated
    BY <1>0, <1>9 DEF PromoteAllowed
  <2>2. move'[p].id = s /\ move'[p].stage = stage /\ move'[p].approval = None
    BY <1>9 DEF PromoteMove
  <2>3. None # "approved"
    BY ConstantsAssumption DEF Approvals
  <2> QED
    BY <2>1, <2>2, <2>3 DEF MoveVetted
<1>10. CASE PromoteSkill(p)
  <2>1. PICK s \in Stored, stage \in PromoteStages :
           /\ PromoteAllowed(s, stage)
           /\ move' = [move EXCEPT ![p] = PromoteMove(s, stage)]
           /\ pc' = [pc EXCEPT ![p] = IF stage = "champion" THEN "champions" ELSE "read"]
    BY <1>10 DEF PromoteSkill
  <2>2. move'[p] = PromoteMove(s, stage) /\ pc'[p] \in {"read", "champions"}
    BY <2>1
  <2> QED
    BY <1>3, <1>9, <2>1, <2>2
<1>11. CASE InitDb(p)
  <2>1. CASE Goto(p, "check") /\ entry' = [entry EXCEPT ![p] = SeedEntry]
    <3>1. pc'[p] = "check" /\ entry'[p].stage = "candidate"
      BY <2>1 DEF Goto, SeedEntry
    <3> QED
      BY <3>1 DEF Vetting
  <2> QED
    BY <1>2, <1>11, <2>1 DEF InitDb
<1>12. CASE RegisterCheck(p)
  <2>1. CASE \E t \in Stored : Registered(p, t, skills[t].validated)
    BY <1>0, <1>4, <2>1 DEF Stored
  <2>2. CASE Goto(p, "insert") /\ UNCHANGED locals
    <3>1. pc[p] = "check" /\ pc'[p] = "insert" /\ entry'[p] = entry[p]
      BY <1>12, <2>2 DEF RegisterCheck, Goto, locals
    <3> QED
      BY <3>1 DEF Vetting
  <2> QED
    BY <1>2, <1>12, <2>1, <2>2 DEF RegisterCheck, Duplicates
<1>13. CASE RegisterInsert(p)
  <2>1. CASE Inserts(p) /\ Registered(p, entry[p].id, Validated(entry[p].code))
    <3>1. entry[p].id \in SkillIds /\ skills'[entry[p].id] = NewRow(entry[p])
      BY <1>0, <2>1, InsertStep
    <3>2. Validated(entry[p].code) => skills'[entry[p].id].validated
      BY <3>1 DEF NewRow
    <3> QED
      BY <1>4, <2>1, <3>1, <3>2
  <2> QED
    BY <1>2, <1>13, <2>1 DEF RegisterInsert, Inserts
<1>14. CASE RollbackGuard(p)
  <2>1. CASE /\ PromoteAllowed(move[p].id, "champion")
             /\ Goto(p, "champions")
             /\ move' = [move EXCEPT ![p] = PromoteMove(move[p].id, "champion")]
    <3>1. move[p].id \in Stored
      BY <1>14 DEF RollbackGuard, Control, ControlOf, Stored, Move
    <3>2. pc'[p] = "champions" /\ move'[p] = PromoteMove(move[p].id, "champion")
      BY <2>1 DEF Goto
    <3> QED
      BY <1>3, <1>9, <2>1, <3>1, <3>2
  <2> QED
    BY <1>2, <1>14, <2>1 DEF RollbackGuard
<1>15. ASSUME pc[p] \in {"champions", "read_old", "write_old", "read", "write"},
              move'[p] = move[p]
       PROVE  MoveVetted(move[p])'
  <2>1. move[p].id \in Stored /\ MoveVetted(move[p])
    BY <1>15 DEF Control, ControlOf, Stored, Move, Vetting
  <2> QED
    BY <1>0, <1>15, <2>1 DEF MoveVetted
<1>16. CASE Champions(p) \/ WriteOld(p)
  <2>1. /\ pc[p] \in {"champions", "write_old"} /\ move'[p] = move[p]
        /\ pc'[p] \in {"read", "read_old"}
    BY <1>16 DEF Champions, WriteOld, Goto
  <2> QED
    BY <1>3, <1>15, <2>1
<1>17. CASE ReadOld(p)
  <2>1. PICK t \in todo[p] : victim'[p] = t /\ seen'[p] = skills[t]
    BY <1>17 DEF ReadOld
  <2>2. t \in Stored /\ skills' = skills
    BY <1>17 DEF ReadOld, Control, ControlOf, Stored
  <2>3. pc[p] = "read_old" /\ pc'[p] = "write_old" /\ move'[p] = move[p]
    BY <1>17 DEF ReadOld, Goto
  <2>4. MoveVetted(move[p])'
    BY <1>15, <2>3
  <2> QED
    BY <2>1, <2>2, <2>3, <2>4 DEF Vetting, Vetted
<1>18. CASE Read(p)
  <2>1. pc[p] = "read" /\ pc'[p] = "write" /\ move'[p] = move[p] /\ skills' = skills
    BY <1>18 DEF Read, Goto
  <2>2. seen'[p] = skills[move[p].id] /\ move[p].id \in Stored
    BY <1>18 DEF Read, Control, ControlOf, Stored, Move
  <2>3. MoveVetted(move[p])'
    BY <1>15, <2>1
  <2> QED
    BY <2>1, <2>2, <2>3 DEF Vetting, Vetted
<1>19. CASE Write(p)
  BY <1>2, <1>19 DEF Write
<1> QED
  BY <1>5, <1>6, <1>7, <1>8, <1>10, <1>11, <1>12, <1>13, <1>14, <1>16, <1>17, <1>18, <1>19
  DEF Request, Continue

\* What the other processes have found out stays true.
LEMMA VettingOfOthers ==
    ASSUME VettedInv, [Next]_vars, NEW p \in Procs, OthersKept(p), NEW q \in Procs \ {p}
    PROVE  Vetting(q)'
<1>1. /\ pc'[q] = pc[q] /\ entry'[q] = entry[q] /\ move'[q] = move[q]
      /\ victim'[q] = victim[q] /\ seen'[q] = seen[q]
  BY DEF OthersKept
<1>2. TypeInv /\ Vetting(q) /\ ControlOf(q)
  BY DEF VettedInv, TypeInv, Control
<1>3. pc[q] \in {"champions", "read_old", "write_old", "read", "write"} => move[q].id \in Stored
  BY <1>2 DEF TypeInv, TypeOK, ControlOf, Stored, Move
<1>4. pc[q] = "write_old" => victim[q] \in Stored
  BY <1>2 DEF TypeInv, TypeOK, ControlOf, Stored
<1>5. \A s \in Stored : skills'[s].validated = skills[s].validated
  BY <1>2, ValidationKept
<1> QED
  BY <1>1, <1>2, <1>3, <1>4, <1>5 DEF Vetting, MoveVetted

\* Every write leaves a vetted row.
LEMMA RowsVetted ==
    ASSUME UndeployedRegistrations, VettedInv, [Next]_vars, NEW s \in Stored'
    PROVE  Vetted(skills'[s])
<1>1. TypeInv /\ s \in SkillIds /\ (s \in Stored => skills[s] \in Row /\ Vetted(skills[s]))
  BY DEF VettedInv, TypeInv, TypeOK, Stored
<1>2. CASE s \in Stored /\ skills'[s] = skills[s]
  BY <1>1, <1>2
<1>3. CASE s \in Stored /\ skills'[s] = Normalised(s)
  <2>1. Normalised(s).approval = skills[s].approval /\ Normalised(s).stage = skills[s].stage
    BY <1>1, <1>3 DEF Normalised, Row
  <2>2. Normalised(s).validated = skills[s].validated
    BY <1>1, <1>3 DEF Normalised, Row
  <2> QED
    BY <1>1, <1>3, <2>1, <2>2 DEF Vetted
<1>4. ASSUME NEW p \in Procs, Inserts(p), skills'[s] = NewRow(entry[p])
      PROVE  Vetted(skills'[s])
  <2>1. entry[p].stage \in {"candidate", "retired"}
    BY <1>4 DEF VettedInv, Vetting, Inserts
  <2> QED
    BY <1>4, <2>1 DEF Vetted, NewRow
<1>5. ASSUME NEW p \in Procs, pc[p] = "write_old", s = victim[p], s \in Stored,
             skills'[s] = Transitioned(skills[s], seen[p], ReplacedMove(s))
      PROVE  Vetted(skills'[s])
  <2>1. seen[p] \in Row /\ ReplacedMove(s) \in Move
    BY <1>1, <1>5, MoveTypes DEF TypeInv, TypeOK, Control, ControlOf
  <2>2. Vetted(seen[p]) /\ seen[p].validated = skills[s].validated
    BY <1>5 DEF VettedInv, Vetting
  <2>3. ReplacedMove(s).approval # "approved" /\ ReplacedMove(s).stage = "retired"
    BY ConstantsAssumption DEF ReplacedMove, Approvals
  <2> QED
    BY <1>1, <1>5, <2>1, <2>2, <2>3, TransitionVetted
<1>6. ASSUME NEW p \in Procs, pc[p] = "write", s = move[p].id, s \in Stored,
             skills'[s] = Transitioned(skills[s], seen[p], move[p])
      PROVE  Vetted(skills'[s])
  <2>1. seen[p] \in Row /\ move[p] \in Move
    BY <1>1, <1>6 DEF TypeInv, TypeOK, Control, ControlOf
  <2>2. Vetted(seen[p]) /\ seen[p].validated = skills[s].validated /\ MoveVetted(move[p])
    BY <1>6 DEF VettedInv, Vetting
  <2> QED
    BY <1>1, <1>6, <2>1, <2>2, TransitionVetted DEF MoveVetted
<1> QED
  BY <1>1, <1>2, <1>3, <1>4, <1>5, <1>6, RowStep DEF RowWritten

\* VettedInv is inductive.
LEMMA VettedStep ==
    ASSUME UndeployedRegistrations
    PROVE  VettedInv /\ [Next]_vars => VettedInv'
<1> SUFFICES ASSUME VettedInv, [Next]_vars PROVE VettedInv'
  OBVIOUS
<1>1. TypeInv' /\ \A s \in Stored' : Vetted(skills'[s])
  BY TypeInvStep, RowsVetted DEF VettedInv
<1>2. \A q \in Procs : Vetting(q)'
  <2>1. CASE UNCHANGED vars
    BY <2>1 DEF vars, VettedInv, Vetting, MoveVetted
  <2>2. CASE Next
    <3>1. PICK p \in Procs :
             Start(p) \/ Request(p) \/ Continue(p) \/ Crash(p) \/ WriteFails(p)
      BY <2>2 DEF Next
    <3>2. OthersKept(p) /\ Vetting(p)'
      BY <3>1, OthersStep, VettingOfActor DEF VettedInv
    <3> QED
      BY <3>2, VettingOfOthers
  <2> QED
    BY <2>1, <2>2
<1> QED
  BY <1>1, <1>2 DEF VettedInv

\* An old file: what was approved then was validated then.
LEMMA VettedInit == Init => VettedInv
<1> SUFFICES ASSUME Init PROVE VettedInv
  OBVIOUS
<1>1. \A c : Vetted(LegacyRow(c, FALSE)) /\ (c \in SafeCodes => Vetted(LegacyRow(c, TRUE)))
  <2> SUFFICES ASSUME NEW c, NEW a \in BOOLEAN, a => c \in SafeCodes
               PROVE  Vetted(LegacyRow(c, a))
    OBVIOUS
  <2>1. LegacyRow(c, a).stage = "candidate" /\ LegacyRow(c, a).validated = (c \in SafeCodes)
    BY DEF LegacyRow, Validated
  <2>2. LegacyRow(c, a).approval = IF a THEN "approved" ELSE "draft"
    BY DEF LegacyRow
  <2> QED
    BY <2>1, <2>2 DEF Vetted
<1>2. \A s \in Stored : Vetted(skills[s])
  BY <1>1 DEF Init, Stored, LegacyRows
<1>3. \A p \in Procs : Vetting(p)
  BY DEF Init, Vetting
<1> QED
  BY <1>2, <1>3, TypeInvInit DEF VettedInv

\* However many processes act on stale rows, code that the validator refused is
\* neither approved nor deployed.
THEOREM RefusedCodeStaysOut ==
    ASSUME UndeployedRegistrations
    PROVE  Spec => []UnsafeNeverDeployed
<1>1. VettedInv => UnsafeNeverDeployed
  BY DEF VettedInv, Vetted, UnsafeNeverDeployed, Deployed
<1> QED
  BY <1>1, VettedInit, VettedStep, PTL DEF Spec
=============================================================================
