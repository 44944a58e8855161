------------------------ MODULE MCRuntimeReconciler ------------------------
(***************************************************************************)
(* Instances of RuntimeReconciler for TLC.                                 *)
(***************************************************************************)
EXTENDS RuntimeReconciler, TLC

\* Callers and revisions are interchangeable.
ReconcilerSymmetry == Permutations(Caller) \cup Permutations(Revision)
=============================================================================
