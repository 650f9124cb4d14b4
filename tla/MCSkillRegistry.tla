-------------------------- MODULE MCSkillRegistry --------------------------
(***************************************************************************)
(* Constants of the SkillRegistry runs.                                    *)
(***************************************************************************)
EXTENDS SkillRegistry

\* The seeding always on, with and without the approval; or any setting.
AlwaysSeeded == {[seed |-> TRUE, approve |-> a] : a \in BOOLEAN}
SeededApproved == {[seed |-> TRUE, approve |-> TRUE]}
NeverSeeded == {[seed |-> FALSE, approve |-> FALSE]}
=============================================================================
