----------------------------- MODULE MCOcrGate ------------------------------
(* OcrGate for TLC. Invocations are interchangeable. *)
EXTENDS OcrGate, TLC

CallSymmetry == Permutations(Calls)
=============================================================================
