------------------------------ MODULE SignOff -------------------------------
(***************************************************************************)
(* What the review workflow promises the people who sign: the content of a *)
(* reconciliation changes only while the project is open, every submitted  *)
(* or completed project carries exactly the signatures of its stage, and   *)
(* the content that is approved is the content that was submitted.         *)
(* Reconciliation implements it while requests do not overlap.             *)
(***************************************************************************)
VARIABLES phase,    \* open, submitted, completed or deleted
          signed,   \* the signatures on the project
          imported, \* the imported rows
          matched   \* the confirmed matches

signOffVars == <<phase, signed, imported, matched>>

OpenInit == phase = "open" /\ signed = {}

Edit ==
  /\ phase = "open" /\ phase' = "open"
  /\ UNCHANGED signed

Submit ==
  /\ phase = "open" /\ phase' = "submitted"
  /\ signed' = {"prepared"}
  /\ UNCHANGED <<imported, matched>>

Approve ==
  /\ phase = "submitted" /\ phase' = "completed"
  /\ signed' = signed \cup {"reviewed", "approved"}
  /\ UNCHANGED <<imported, matched>>

\* Reopening takes every signature away; undoing takes the matches with it.
Reopen ==
  /\ phase \in {"submitted", "completed"} /\ phase' = "open"
  /\ signed' = {}
  /\ UNCHANGED imported
  /\ matched' \in {matched, {}}

Delete == phase # "deleted" /\ phase' = "deleted"

Workflow == Edit \/ Submit \/ Approve \/ Reopen \/ Delete

SignOffSpec == OpenInit /\ [][Workflow]_signOffVars

=============================================================================
