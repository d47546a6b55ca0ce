----------------------------- MODULE MCBilling ------------------------------
(* Billing for TLC.  Handlers under way are interchangeable.               *)
EXTENDS Billing, TLC

RequestSymmetry == Permutations(Requests)

\* One paid plan.  Half a period is not a whole number of units of this price,
\* so the credit is rounded.
OnePrice == <<3>>
=============================================================================
