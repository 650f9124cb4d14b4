---------------------------- MODULE MCWorkerAuth ----------------------------
(***************************************************************************)
(* Constants of the WorkerAuth run.                                        *)
(***************************************************************************)
EXTENDS WorkerAuth, TLC

\* Requests are alike.
NonceSymmetry == Permutations(Nonces)
=============================================================================
