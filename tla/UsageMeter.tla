----------------------------- MODULE UsageMeter -----------------------------
(***************************************************************************)
(* The monthly meter of imported transactions.  An import compares the     *)
(* rows it parsed with the rows the document has, asks the quota for the   *)
(* difference, replaces the rows and only then moves the meter; nothing    *)
(* holds the steps together, and the month may turn between any two.       *)
(* The meter is raised by an atomic increment and lowered by a read and a  *)
(* write.                                                                  *)
(***************************************************************************)
EXTENDS Integers, FiniteSets, FiniteSetsExt

CONSTANTS
    Documents,         \* documents of the workspace
    Importers,         \* imports that can be in flight together
    MaxRows,           \* bound: rows of one document
    Months,            \* bound: months the behaviour spans
    TransactionLimit   \* transactionsPerMonth of the plan

\* A plan without a limit (-1) asks for nothing: the limit here is a count.
ASSUME MeterAssumption ==
    /\ IsFiniteSet(Documents) /\ IsFiniteSet(Importers) /\ Importers # {}
    /\ {MaxRows, TransactionLimit} \subseteq Nat /\ Months \in Nat \ {0}

VARIABLES
    month,             \* the month now
    rows,              \* Transaction rows of each document
    meter,             \* transactionsCount of each month's UsageLog
    import,            \* what each import is doing
    disturbed,         \* history: imports met on a document, or one died before
                       \* it was metered
    lost               \* history: the meter was written over a change

meterVars == <<month, rows, meter, import, disturbed, lost>>

NotImporting == [step |-> "idle"]

MeterInit ==
    /\ month = 1
    /\ rows = [d \in Documents |-> 0]
    /\ meter = [m \in 1..Months |-> 0]
    /\ import = [i \in Importers |-> NotImporting]
    /\ disturbed = FALSE /\ lost = FALSE

Step(i, s) == import' = [import EXCEPT ![i].step = s]
Finish(i) == import' = [import EXCEPT ![i] = NotImporting]

----------------------------------------------------------------------------
(* One import                                                              *)

\* The parsed rows are in hand; the rows the document has now are counted.
\* Bound: once imports disturbed each other no further one is followed.
Begin(i, d, n) ==
    /\ import[i] = NotImporting /\ ~lost /\ ~disturbed
    /\ import' = [import EXCEPT ![i] =
          [step |-> "check", doc |-> d, new |-> n, delta |-> n - rows[d]]]
    /\ disturbed' = (disturbed \/ \E j \in Importers :
                        import[j] # NotImporting /\ import[j].doc = d)
    /\ UNCHANGED <<month, rows, meter, lost>>

FitsSoFar(used, more) == used <= TransactionLimit   \* mutant: the new rows are left out

Fits(used, more) == used + more <= TransactionLimit

\* Only growth is asked for; a refusal leaves the document as it was.
Check(i) ==
    /\ import[i].step = "check"
    /\ IF import[i].delta > 0 /\ ~Fits(meter[month], import[i].delta)
         THEN Finish(i)
         ELSE Step(i, "delete")
    /\ UNCHANGED <<month, rows, meter, disturbed, lost>>

DeleteRows(i) ==
    /\ import[i].step = "delete"
    /\ rows' = [rows EXCEPT ![import[i].doc] = 0]
    /\ Step(i, "create")
    /\ UNCHANGED <<month, meter, disturbed, lost>>

\* createMany adds to whatever is there by now.
CreateRows(i) ==
    /\ import[i].step = "create"
    /\ rows' = [rows EXCEPT ![import[i].doc] = @ + import[i].new]
    /\ IF import[i].delta = 0
         THEN Finish(i)
         ELSE import' = [import EXCEPT ![i] =
                [step |-> "adjust", doc |-> @.doc, delta |-> @.delta]]
    /\ UNCHANGED <<month, meter, disturbed, lost>>

\* The month is the one at this moment, not the one that was asked.
Increment(i) ==
    /\ import[i].step = "adjust" /\ import[i].delta > 0
    /\ meter' = [meter EXCEPT ![month] = @ + import[i].delta]
    /\ Finish(i)
    /\ UNCHANGED <<month, rows, disturbed, lost>>

ReadMeter(i) ==
    /\ import[i].step = "adjust" /\ import[i].delta < 0
    /\ import' = [import EXCEPT ![i] =
          [step |-> "write", doc |-> @.doc, delta |-> @.delta,
           period |-> month, read |-> meter[month]]]
    /\ UNCHANGED <<month, rows, meter, disturbed, lost>>

Lowered(i) == Max({0, import[i].read + import[i].delta})

WriteMeter(i) ==
    /\ import[i].step = "write"
    /\ lost' = (lost \/ meter[import[i].period] # import[i].read)
    /\ meter' = [meter EXCEPT ![import[i].period] = Lowered(i)]
    /\ Finish(i)
    /\ UNCHANGED <<month, rows, disturbed>>

----------------------------------------------------------------------------
(* Around the imports                                                      *)

\* mutant: the rows are taken off the meter of the month as well
ChangeTypeRefunding(d) ==
    /\ rows[d] > 0
    /\ rows' = [rows EXCEPT ![d] = 0]
    /\ meter' = [meter EXCEPT ![month] = Max({0, @ - 2 * rows[d]})]
    /\ UNCHANGED <<month, import, disturbed, lost>>

\* Changing the family of a document drops its rows; the meter keeps them, so
\* mapping it again is charged again.
ChangeType(d) ==
    /\ rows[d] > 0
    /\ rows' = [rows EXCEPT ![d] = 0]
    /\ UNCHANGED <<month, meter, import, disturbed, lost>>

\* A query fails or the process stops: the import ends where it is.
Die(i) ==
    /\ import[i] # NotImporting
    /\ disturbed' = (disturbed \/ (import[i].step = "adjust" /\ import[i].delta > 0))
    /\ Finish(i)
    /\ UNCHANGED <<month, rows, meter, lost>>

TurnMonth ==
    /\ month < Months
    /\ month' = month + 1
    /\ UNCHANGED <<rows, meter, import, disturbed, lost>>

MeterNext ==
    \/ \E i \in Importers :
         \/ \E d \in Documents, n \in 0..MaxRows : Begin(i, d, n)
         \/ Check(i) \/ DeleteRows(i) \/ CreateRows(i)
         \/ Increment(i) \/ ReadMeter(i) \/ WriteMeter(i) \/ Die(i)
    \/ \E d \in Documents : ChangeType(d)
    \/ TurnMonth

MeterSpec == MeterInit /\ [][MeterNext]_meterVars

----------------------------------------------------------------------------
(* What must hold                                                          *)

\* The meter never runs below zero, whatever the imports do to each other, and
\* a document never has more rows than the imports in flight can stack up.
MeterTypeOK ==
    /\ month \in 1..Months
    /\ \A m \in 1..Months : meter[m] \in Nat
    /\ \A d \in Documents : rows[d] \in 0..(MaxRows * Cardinality(Importers))
    /\ disturbed \in BOOLEAN /\ lost \in BOOLEAN

\* The quota is asked before the import and charged after it, perhaps in the
\* next month: while no reduction was written over another change, a month never
\* runs over its limit by more than what the other imports in flight can bring.
MonthOverrunBounded ==
    ~lost => \A m \in 1..Months :
        meter[m] <= TransactionLimit + (Cardinality(Importers) - 1) * MaxRows

\* "re-map safe": while every import ran alone on its document, was metered and
\* lost no meter write, the months together have been charged for every row
\* there is, however often the documents were mapped again and in whichever
\* month.
RowsAreMetered ==
    (~disturbed /\ ~lost /\ \A i \in Importers : import[i] = NotImporting) =>
        MapThenSumSet(LAMBDA d : rows[d], Documents)
            <= MapThenSumSet(LAMBDA m : meter[m], 1..Months)
=============================================================================
