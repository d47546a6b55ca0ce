---------------------------- MODULE RollForward -----------------------------
(***************************************************************************)
(* The unpresented cheques a reconciliation carries into the next period:  *)
(* the chain of projects rolled forward one from another, and the cheques  *)
(* the bank reconciliation statement of each lists.                        *)
(*   api/src/services/brsRollForward.ts, brsCanonicalSchedule.ts,          *)
(*   api/src/routes/report.ts, projects.ts                                 *)
(* A cheque stands for a cheque number with an amount, the key under which *)
(* a payment and a bank line are linked across periods.  Levies, payments  *)
(* with no such key and workbook netting are left out.                     *)
(***************************************************************************)
EXTENDS Naturals

CONSTANTS
  Cheques,
  MaxPeriods   \* bound: projects ever created

ASSUME RollForwardAssumption == MaxPeriods \in Nat

VARIABLES
  format,   \* which bank classifier the organisation's account selects
  stage,    \* Project.status, as far as roll-forward reads it
  before,   \* rollForwardFromProjectId, 0 for none
  drawn,    \* cheques among the payments of each project's cash book
  onBank,   \* cheques with a line on each project's bank statement
  paired    \* payments that are an item of a match

booksVars == <<format, stage, before, drawn, onBank, paired>>

Periods == 1..MaxPeriods
Formats == {"gt_bank", "ecobank", "other"}
Live == {p \in Periods : stage[p] \in {"open", "completed"}}

BooksInit ==
  /\ format \in Formats
  /\ stage = [p \in Periods |-> "none"]
  /\ before = [p \in Periods |-> 0]
  /\ drawn = [p \in Periods |-> {}]
  /\ onBank = [p \in Periods |-> {}]
  /\ paired = [p \in Periods |-> {}]

-----------------------------------------------------------------------------
(* The work on the projects of the chain.                                  *)

\* POST /projects: a project can only be rolled forward from a completed one.
OpenPeriod(p, q) ==
  /\ stage[p] = "none" /\ \A n \in Periods : n < p => stage[n] # "none"
  /\ q # 0 => q \in Live /\ stage[q] = "completed"
  /\ stage' = [stage EXCEPT ![p] = "open"]
  /\ before' = [before EXCEPT ![p] = q]
  /\ UNCHANGED <<format, drawn, onBank, paired>>

\* Submitting and approving; reopening makes the books of an earlier period
\* change under the later ones.
Complete(p) ==
  /\ stage[p] = "open"
  /\ stage' = [stage EXCEPT ![p] = "completed"]
  /\ UNCHANGED <<format, before, drawn, onBank, paired>>

ReopenPeriod(p) ==
  /\ stage[p] = "completed"
  /\ stage' = [stage EXCEPT ![p] = "open"]
  /\ UNCHANGED <<format, before, drawn, onBank, paired>>

\* A mapping replaces the rows of the payments book; the items of the old rows go.
ImportPayments(p, cheques) ==
  /\ stage[p] = "open"
  /\ drawn' = [drawn EXCEPT ![p] = cheques]
  /\ paired' = [paired EXCEPT ![p] = {}]
  /\ UNCHANGED <<format, stage, before, onBank>>

\* It replaces those of a statement; a match of several rows outlives its bank side.
ImportStatement(p, cheques) ==
  /\ stage[p] = "open"
  /\ onBank' = [onBank EXCEPT ![p] = cheques]
  /\ \E kept \in SUBSET paired[p] : paired' = [paired EXCEPT ![p] = kept]
  /\ UNCHANGED <<format, stage, before, drawn>>

\* With any line of the statement: people pair rows the classifiers do not link.
Pair(p, c) ==
  /\ stage[p] = "open" /\ c \in drawn[p] \ paired[p]
  /\ paired' = [paired EXCEPT ![p] = @ \cup {c}]
  /\ UNCHANGED <<format, stage, before, drawn, onBank>>

Unpair(p, c) ==
  /\ stage[p] = "open" /\ c \in paired[p]
  /\ paired' = [paired EXCEPT ![p] = @ \ {c}]
  /\ UNCHANGED <<format, stage, before, drawn, onBank>>

\* The rows go with the project, and the next one is rolled forward from none.
DeletePeriod(p) ==
  /\ p \in Live
  /\ stage' = [stage EXCEPT ![p] = "deleted"]
  /\ before' = [q \in Periods |-> IF q = p \/ before[q] = p THEN 0 ELSE before[q]]
  /\ drawn' = [drawn EXCEPT ![p] = {}]
  /\ onBank' = [onBank EXCEPT ![p] = {}]
  /\ paired' = [paired EXCEPT ![p] = {}]
  /\ UNCHANGED format

BooksNext ==
  \E p \in Periods :
    \/ \E q \in 0..MaxPeriods : OpenPeriod(p, q)
    \/ Complete(p)
    \/ ReopenPeriod(p)
    \/ \E cheques \in SUBSET Cheques : ImportPayments(p, cheques) \/ ImportStatement(p, cheques)
    \/ \E c \in Cheques : Pair(p, c) \/ Unpair(p, c)
    \/ DeletePeriod(p)

BooksSpec == BooksInit /\ [][BooksNext]_booksVars

-----------------------------------------------------------------------------
(* What the reports compute.                                               *)

Unmatched(p) == drawn[p] \ paired[p]

\* computeSnapshotUnpresentedRows: only the Ecobank classifier takes away the
\* unmatched payments the bank shows.
Unpresented(p) == IF format = "ecobank" THEN Unmatched(p) \ onBank[p] ELSE Unmatched(p)

\* Mutant: the previous period only, as for lodgments.
PreviousOnly == [p \in 0..MaxPeriods |-> IF p = 0 THEN {} ELSE Unpresented(p)]

\* computeOutstandingAtEndOfChain, from the oldest period of p's chain to p.
OutstandingAt ==
  LET at[p \in 0..MaxPeriods] ==
        IF p = 0 THEN {} ELSE at[before[p]] \cup Unpresented(p)
  IN at

\* applyCurrentPeriodRollForwardFilter: not in this cash book nor on this statement.
BroughtForward(p) == OutstandingAt[before[p]] \ (drawn[p] \cup onBank[p])

\* The period's own cheques on the face of its statement: a match-first bank
\* lists every unmatched payment, the others those the bank does not show.
Face(p) == IF format = "gt_bank" THEN Unmatched(p) ELSE Unmatched(p) \ onBank[p]

-----------------------------------------------------------------------------
\* The projects p is rolled forward from, and p.
Chain ==
  LET up[p \in 0..MaxPeriods] == IF p = 0 THEN {} ELSE {p} \cup up[before[p]]
  IN up

\* Drawn in p's chain and left unmatched, not matched in p either, and on no
\* statement of the chain: nobody has seen this cheque cleared.
Owed(p, c) ==
  /\ \E q \in Chain[p] : c \in Unmatched(q)
  /\ c \notin paired[p]
  /\ \A q \in Chain[p] : c \notin onBank[q]

\* However periods are completed, reopened, imported again or deleted under a
\* later one, a cheque nobody has seen cleared is deducted once in the later
\* one's statement, as its own or as brought forward; and what is brought
\* forward is an unmatched payment of an earlier period of the chain.
OwedChequesAreDeductedOnce ==
  \A p \in Live :
    /\ \A c \in Cheques : Owed(p, c) => (c \in Face(p)) # (c \in BroughtForward(p))
    /\ \A c \in BroughtForward(p) : \E q \in Chain[p] \ {p} : c \in Unmatched(q)

\* The walk of the chain returns "all cheques outstanding at the newest period
\* end": a cheque an earlier period dropped, because it cleared on that period's
\* statement, is not brought forward from it again.  (It is: the walk hands one
\* period's list to the next without that period's books.)
SettledChequesLeave ==
  \A p \in Live : \A q \in Chain[before[p]] :
    OutstandingAt[before[q]] \cap onBank[q] \cap BroughtForward(p) = {}
=============================================================================
