---------------------------- MODULE MCParseQueue ----------------------------
(* ParseQueue for TLC.  Runs and drainOnce calls are interchangeable. *)
EXTENDS ParseQueue, TLC

RunSymmetry == Permutations(Runs)

QueueSymmetry == RunSymmetry \cup Permutations(Drains)
=============================================================================
