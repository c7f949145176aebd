---------------------------- MODULE MCWorkflow ----------------------------
(* Instances of Workflow for TLC. *)
EXTENDS Workflow, TLC

Symmetry == Permutations(Requests)
=============================================================================
