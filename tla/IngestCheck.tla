---------------------------- MODULE IngestCheck ----------------------------
(***************************************************************************)
(* The balance check of an imported bank statement and its confirmation.   *)
(* Mapping a document stores the verdict on its rows in ingestMeta; a      *)
(* failed verdict on an unrecognised layout pauses matching until somebody *)
(* confirms the extract.  ingestMeta is one JSON value that everybody      *)
(* merges by reading and writing it back, and mapping stores the rows      *)
(* first and the verdict later, ignoring an error.                         *)
(*                                                                         *)
(* The documents are bank statements of one account whose layout is not    *)
(* recognised.  An extract is what its verdict says: "ties" (also: no      *)
(* labelled balances, so no check) or "fails".                             *)
(***************************************************************************)
EXTENDS Naturals, FiniteSets

CONSTANTS
    Statements,    \* documents of one account
    Desks          \* mappings and confirmations that can be in flight together

VARIABLES
    extract,       \* what the rows in the database would check as
    meta,          \* ingestMeta: the stored verdict and the confirmation
    parsed,        \* the background parse of the document has been through
    desk,          \* what each request or worker is doing
    astray         \* history: mappings met on the document, or a write of its
                   \* ingestMeta was lost

ingestVars == <<extract, meta, parsed, desk, astray>>

Free == [op |-> "idle"]
Unchecked == [checksum |-> "none", ack |-> FALSE]

IngestInit ==
    /\ extract = [d \in Statements |-> "none"]
    /\ meta = [d \in Statements |-> Unchecked]
    /\ parsed = [d \in Statements |-> FALSE]
    /\ desk = [j \in Desks |-> Free]
    /\ astray = [d \in Statements |-> FALSE]

----------------------------------------------------------------------------
(* The gate of the matching routes                                         *)

Blocks(d) == meta[d].checksum = "fails" /\ ~meta[d].ack

MatchingIsOpen == \A d \in Statements : ~Blocks(d)

----------------------------------------------------------------------------
(* Merging a patch into ingestMeta                                         *)

ReadMeta(j) ==
    /\ desk[j].op \in {"save", "confirm"} /\ desk[j].step = "read"
    /\ desk' = [desk EXCEPT ![j] = [op |-> @.op, step |-> "write", doc |-> @.doc,
                                    patch |-> @.patch, left |-> @.left,
                                    prev |-> meta[desk[j].doc]]]
    /\ UNCHANGED <<extract, meta, parsed, astray>>

\* mutant: the stored verdict wins over the new one
MergedOldFirst(prev, patch) ==
    [checksum |-> IF prev.checksum = "none" THEN patch.checksum ELSE prev.checksum,
     ack      |-> prev.ack \/ patch.ack]

\* mutant: a new verdict asks for a new confirmation
MergedAfresh(prev, patch) ==
    [checksum |-> IF patch.checksum = "none" THEN prev.checksum ELSE patch.checksum,
     ack      |-> patch.ack]

\* What the patch does not name keeps the value that was read.
Merged(prev, patch) ==
    [checksum |-> IF patch.checksum = "none" THEN prev.checksum ELSE patch.checksum,
     ack      |-> prev.ack \/ patch.ack]

MappingOf(j, d) == desk[j].op \in {"rows", "save"} /\ desk[j].doc = d

\* A confirmation goes on to the next statement of the account.
WriteMeta(j) ==
    LET d == desk[j].doc
    IN  /\ desk[j].op \in {"save", "confirm"} /\ desk[j].step = "write"
        /\ meta' = [meta EXCEPT ![d] = Merged(desk[j].prev, desk[j].patch)]
        /\ astray' = [astray EXCEPT ![d] = @ \/ meta[d] # desk[j].prev]
        /\ parsed' = [parsed EXCEPT ![d] = @ \/ desk[j].op = "save"]
        /\ IF desk[j].left = {}
             THEN desk' = [desk EXCEPT ![j] = Free]
             ELSE \E next \in desk[j].left :
                    desk' = [desk EXCEPT ![j] =
                       [op |-> "confirm", step |-> "read", doc |-> next,
                        patch |-> desk[j].patch, left |-> desk[j].left \ {next}]]
        /\ UNCHANGED extract

\* A mapping shrugs off a failed merge; a confirmation stops at it.
MergeFails(j) ==
    /\ desk[j].op \in {"save", "confirm"}
    /\ astray' = [astray EXCEPT ![desk[j].doc] = @ \/ desk[j].op = "save"]
    /\ parsed' = [parsed EXCEPT ![desk[j].doc] = @ \/ desk[j].op = "save"]
    /\ desk' = [desk EXCEPT ![j] = Free]
    /\ UNCHANGED <<extract, meta>>

----------------------------------------------------------------------------
(* Mapping a statement, by hand or by the background parse                 *)

\* The background parse runs until a document is parsed; a person may map again
\* at any time.
BeginMapping(j, d, x, byHand) ==
    /\ desk[j] = Free
    /\ byHand \/ ~parsed[d]
    /\ desk' = [desk EXCEPT ![j] = [op |-> "rows", doc |-> d, new |-> x, byHand |-> byHand]]
    /\ astray' = [astray EXCEPT ![d] = @ \/ \E k \in Desks : MappingOf(k, d)]
    /\ UNCHANGED <<extract, meta, parsed>>

Save(j) == desk' = [desk EXCEPT ![j] =
              [op |-> "save", step |-> "read", doc |-> desk[j].doc, left |-> {},
               patch |-> [checksum |-> desk[j].new, ack |-> FALSE]]]

StoreRows(j) ==
    /\ desk[j].op = "rows"
    /\ extract' = [extract EXCEPT ![desk[j].doc] = desk[j].new]
    /\ Save(j)
    /\ UNCHANGED <<meta, parsed, astray>>

\* A parse that is not mapped leaves its verdict all the same.
SkipRows(j) ==
    /\ desk[j].op = "rows" /\ ~desk[j].byHand
    /\ Save(j)
    /\ UNCHANGED <<extract, meta, parsed, astray>>

\* The quota refuses, or the import fails, before any row is stored.
MappingFails(j) ==
    /\ desk[j].op = "rows"
    /\ desk' = [desk EXCEPT ![j] = Free]
    /\ UNCHANGED <<extract, meta, parsed, astray>>

----------------------------------------------------------------------------
(* Confirming                                                              *)

\* The page offers it while a statement is blocked; it then covers every
\* statement of the account, in the order the database lists them.
BeginConfirm(j) ==
    /\ desk[j] = Free /\ ~MatchingIsOpen
    /\ \E first \in Statements :
         desk' = [desk EXCEPT ![j] =
            [op |-> "confirm", step |-> "read", doc |-> first,
             left |-> Statements \ {first}, patch |-> [checksum |-> "none", ack |-> TRUE]]]
    /\ UNCHANGED <<extract, meta, parsed, astray>>

IngestNext ==
    \E j \in Desks :
       \/ \E d \in Statements, x \in {"ties", "fails"}, byHand \in BOOLEAN :
            BeginMapping(j, d, x, byHand)
       \/ StoreRows(j) \/ SkipRows(j) \/ MappingFails(j)
       \/ ReadMeta(j) \/ WriteMeta(j) \/ MergeFails(j)
       \/ BeginConfirm(j)

IngestSpec == IngestInit /\ [][IngestNext]_ingestVars

----------------------------------------------------------------------------
(* What must hold                                                          *)

\* No mapping of the statement is under way, none met another one and no write
\* of its ingestMeta was lost.
Settled(d) == ~astray[d] /\ \A j \in Desks : ~MappingOf(j, d)

\* A statement whose stored rows do not tie pauses matching, unless somebody
\* confirmed the account: the verdict on file is the one on the rows in the
\* database, whatever parses and confirmations came before.
FailedExtractsPauseMatching ==
    MatchingIsOpen =>
        \A d \in Statements : Settled(d) /\ extract[d] = "fails" => meta[d].ack

\* A confirmation, once stored, is only undone by a merge that had read the
\* document before it was given.
ConfirmationsStick ==
    [][\A d \in Statements : meta[d].ack /\ ~meta'[d].ack =>
          \E j \in Desks : /\ MappingOf(j, d) /\ desk[j].op = "save"
                           /\ desk[j].step = "write" /\ ~desk[j].prev.ack]_ingestVars
=============================================================================
