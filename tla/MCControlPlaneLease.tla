------------------------ MODULE MCControlPlaneLease ------------------------
(* Finite instances of ControlPlaneLease for TLC. *)
EXTENDS ControlPlaneLease, TLC

\* Processes are interchangeable; the liveness run does without the reduction.
Symmetry == Permutations(Instances)
=============================================================================
