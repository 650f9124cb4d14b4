-------------------------- MODULE FamilyChampions --------------------------
(***************************************************************************)
(* What the registry promises about champions, as its clients see it: a    *)
(* family has one champion or none, only an approved skill is made         *)
(* champion, a champion is replaced by first standing down, and a skill    *)
(* that is deprecated stands down in the same step.                        *)
(***************************************************************************)
CONSTANTS SkillIds, Families, None

VARIABLES
    champion,   \* the champion of each family
    approved    \* the approved skills

Init ==
    /\ champion = [f \in Families |-> None]
    /\ approved \in SUBSET SkillIds

Approve(s) ==
    /\ approved' = approved \cup {s}
    /\ UNCHANGED champion

Deprecate(s) ==
    /\ approved' = approved \ {s}
    /\ champion' = [f \in Families |-> IF champion[f] = s THEN None ELSE champion[f]]

\* The champion stands down, for a successor or for good.
StandDown(f) ==
    /\ champion[f] # None
    /\ champion' = [champion EXCEPT ![f] = None]
    /\ UNCHANGED approved

Crown(f, s) ==
    /\ champion[f] = None
    /\ s \in approved
    /\ \A g \in Families : champion[g] # s
    /\ champion' = [champion EXCEPT ![f] = s]
    /\ UNCHANGED approved

Next ==
    \/ \E s \in SkillIds : Approve(s) \/ Deprecate(s)
    \/ \E f \in Families : StandDown(f)
    \/ \E f \in Families, s \in SkillIds : Crown(f, s)

Spec == Init /\ [][Next]_<<champion, approved>>
=============================================================================
