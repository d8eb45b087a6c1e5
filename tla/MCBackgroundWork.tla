-------------------------- MODULE MCBackgroundWork --------------------------
(***************************************************************************)
(* BackgroundWork on small instances.  Processes, jobs and subjects are    *)
(* interchangeable, so the safety runs use their permutations.             *)
(***************************************************************************)
EXTENDS BackgroundWork, TLC

Symmetry == Permutations(Proc) \cup Permutations(Job) \cup Permutations(Subject)

=============================================================================
