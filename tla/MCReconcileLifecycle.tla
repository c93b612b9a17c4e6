------------------------ MODULE MCReconcileLifecycle ------------------------
(***************************************************************************)
(* Instances of ReconcileLifecycle for TLC.                                *)
(***************************************************************************)
EXTENDS ReconcileLifecycle, TLC

WorkerSymmetry == Permutations(Workers)
=============================================================================
