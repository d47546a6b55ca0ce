-------------------------- MODULE MCReconciliation --------------------------
(* Reconciliation for TLC: the requests users send in each run.  Handlers  *)
(* under way are interchangeable.                                          *)
EXTENDS Reconciliation, TLC

AllKinds == {"upload", "map", "type", "submit", "approve", "reopen", "undo", "delete",
             "match", "auto", "unmatch", "clear"}
RequestSymmetry == Permutations(Requests)
=============================================================================
