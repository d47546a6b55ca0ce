--------------------------- MODULE Reconciliation ---------------------------
(***************************************************************************)
(* One project from upload to approval: its status and signatures, its     *)
(* documents, their imported rows and the matches between them, with every *)
(* request handler and background job that writes them.                    *)
(*   api/src/routes/projects.ts, reconcile.ts, documents.ts, upload.ts,    *)
(*   api/src/services/applyDocumentMapping.ts, purgeOrphanMatches.ts,      *)
(*   changeDocumentType.ts, autoCompleteMatching.ts, autoMapDocument.ts    *)
(* A handler reads the project, decides, and writes in later database      *)
(* calls.  One element of Requests is one handler (or job) under way; with *)
(* one element, requests do not overlap.                                   *)
(***************************************************************************)
EXTENDS Naturals, FiniteSets

CONSTANTS
  Docs,        \* the files uploaded to the project
  NoDoc,       \* not a document
  CashDocs,    \* those uploaded as cash books; the others as bank statements
  Requests,    \* handlers and jobs that may be under way at one time
  Kinds,       \* the requests users send
  DeferMap,    \* DEFER_AUTO_MAP_ON_UPLOAD
  AutoCorrect, \* AUTO_CORRECT_DOC_TYPE
  Careless,    \* may a client name the wrong side of a row?
  Faults,      \* may a handler die between two of its writes?
  RowCounts,   \* how many rows a mapping may import
  MaxRows,     \* bound: rows ever imported
  MaxMatches   \* bound: matches ever made

ASSUME ReconciliationAssumption ==
  /\ NoDoc \notin Docs
  /\ CashDocs \subseteq Docs
  /\ {DeferMap, AutoCorrect, Careless, Faults} \subseteq BOOLEAN
  /\ RowCounts \subseteq Nat
  /\ MaxRows \in Nat /\ MaxMatches \in Nat

VARIABLES
  status,     \* Project.status, "deleted" when the row is gone
  signOff,    \* which of preparedBy, reviewedBy, approvedBy are set
  uploaded,   \* documents that exist
  side,       \* family of each document's type
  autoMap,    \* documents whose deferred parse job has not started
  rowsOf,     \* Transaction ids of each document
  nextRow,    \* the next Transaction id
  matches,    \* Match rows with the transactions of their MatchItems, by side
  nextMatch,  \* the next Match id
  req         \* the handlers under way

projectVars == <<status, signOff>>
documentVars == <<uploaded, side, autoMap>>
rowVars == <<rowsOf, nextRow>>
matchVars == <<matches, nextMatch>>
vars == <<projectVars, documentVars, rowVars, matchVars, req>>

Statuses == {"draft", "mapping", "reconciling", "submitted_for_review", "completed", "deleted"}
Signatures == {"prepared", "reviewed", "approved"}
Sides == {"cash_book", "bank"}
RowIds == 1..MaxRows
MatchIds == 1..MaxMatches

\* LOCKED_STATUSES; nothing sets its third element, "approved".
Locked == {"submitted_for_review", "completed"}

\* isProjectEditable, of a project that is found.
Editable == status \notin Locked \cup {"deleted"}

AllRows == UNION {rowsOf[d] : d \in Docs}
Items(m) == m.cash \cup m.bank
ItemsOf(ms) == UNION {Items(m) : m \in ms}
Matched == ItemsOf(matches)

-----------------------------------------------------------------------------
(* Handlers under way.                                                     *)

NoLanes == [cash |-> {}, bank |-> {}]
Idle == [kind |-> "none", step |-> "idle", doc |-> NoDoc, rows |-> {}, ids |-> {},
         plan |-> {}, lanes |-> NoLanes, to |-> "none"]

Start(r, kind, step, d) ==
  /\ req[r] = Idle
  /\ req' = [req EXCEPT ![r].kind = kind, ![r].step = step, ![r].doc = d]

\* A user's request, on a project that is found.
Receive(r, kind, step, d) == kind \in Kinds /\ status # "deleted" /\ Start(r, kind, step, d)

At(r, step) == req[r].step = step
Goto(r, step) == req' = [req EXCEPT ![r].step = step]
Finish(r) == req' = [req EXCEPT ![r] = Idle]

\* The steps that follow a write the handler has already committed.
Midway == {"import", "purgeFind", "purgeDelete", "setMapping", "sweep", "flip"}

\* A 4xx after the first read, an error, a crash: the handler stops here.  An
\* update of a deleted project throws.
GiveUp(r) ==
  /\ req[r] # Idle
  /\ req[r].step \in Midway /\ req[r].kind # "auto" => Faults \/ status = "deleted"
  /\ Finish(r)
  /\ UNCHANGED <<projectVars, documentVars, rowVars, matchVars>>

-----------------------------------------------------------------------------
(* The review workflow: each handler reads the status, then writes.        *)

BeginSubmit(r) ==
  /\ Receive(r, "submit", "submit", NoDoc)
  /\ status \in {"reconciling", "mapping", "draft"}
  /\ UNCHANGED <<projectVars, documentVars, rowVars, matchVars>>

Submit(r) ==
  /\ At(r, "submit") /\ status # "deleted"
  /\ status' = "submitted_for_review"
  /\ signOff' = signOff \cup {"prepared"}
  /\ Finish(r)
  /\ UNCHANGED <<documentVars, rowVars, matchVars>>

\* The threshold check may still answer 403: GiveUp.
BeginApprove(r) ==
  /\ Receive(r, "approve", "approve", NoDoc)
  /\ status = "submitted_for_review"
  /\ UNCHANGED <<projectVars, documentVars, rowVars, matchVars>>

Approve(r) ==
  /\ At(r, "approve") /\ status # "deleted"
  /\ status' = "completed"
  /\ signOff' = signOff \cup {"reviewed", "approved"}
  /\ Finish(r)
  /\ UNCHANGED <<documentVars, rowVars, matchVars>>

BeginReopen(r) ==
  /\ Receive(r, "reopen", "reopen", NoDoc)
  /\ status \in Locked
  /\ UNCHANGED <<projectVars, documentVars, rowVars, matchVars>>

\* Mode "sources" or "reconcile".
Reopen(r) ==
  /\ At(r, "reopen") /\ status # "deleted"
  /\ status' \in {"mapping", "reconciling"}
  /\ signOff' = {}
  /\ Finish(r)
  /\ UNCHANGED <<documentVars, rowVars, matchVars>>

BeginUndo(r) ==
  /\ Receive(r, "undo", "undo", NoDoc)
  /\ status \in Locked
  /\ UNCHANGED <<projectVars, documentVars, rowVars, matchVars>>

\* One database transaction.
Undo(r) ==
  /\ At(r, "undo") /\ status # "deleted"
  /\ matches' = {}
  /\ status' = "reconciling"
  /\ signOff' = {}
  /\ Finish(r)
  /\ UNCHANGED <<documentVars, rowVars, nextMatch>>

BeginDelete(r) ==
  /\ Receive(r, "delete", "destroy", NoDoc)
  /\ UNCHANGED <<projectVars, documentVars, rowVars, matchVars>>

\* Mutant: the cascade stops short of the transactions.
DeleteKeepsRows(r) ==
  /\ At(r, "destroy") /\ status # "deleted"
  /\ status' = "deleted"
  /\ signOff' = {} /\ uploaded' = {} /\ autoMap' = {} /\ matches' = {}
  /\ Finish(r)
  /\ UNCHANGED <<side, rowVars, nextMatch>>

\* The cascade takes documents, rows, matches and queued jobs.
DeleteProject(r) ==
  /\ At(r, "destroy") /\ status # "deleted"
  /\ status' = "deleted"
  /\ signOff' = {} /\ uploaded' = {} /\ autoMap' = {} /\ matches' = {}
  /\ rowsOf' = [d \in Docs |-> {}]
  /\ Finish(r)
  /\ UNCHANGED <<side, nextRow, nextMatch>>

-----------------------------------------------------------------------------
(* Upload, mapping and the deferred job.                                   *)

\* A document is one upload of a file: the same file sent twice at once is two.
BeginUpload(r, d) ==
  /\ \A q \in Requests : ~(req[q].kind = "upload" /\ req[q].doc = d)
  /\ Receive(r, "upload", "document", d)
  /\ status \in {"draft", "mapping"}
  /\ d \notin uploaded
  /\ UNCHANGED <<projectVars, documentVars, rowVars, matchVars>>

\* The document is created; its mapping is queued or part of this request.
CreateDocument(r) ==
  /\ At(r, "document") /\ status # "deleted"
  /\ uploaded' = uploaded \cup {req[r].doc}
  /\ IF DeferMap
     THEN autoMap' = autoMap \cup {req[r].doc} /\ Finish(r)
     ELSE Goto(r, "correct") /\ UNCHANGED autoMap
  /\ UNCHANGED <<projectVars, side, rowVars, matchVars>>

\* The deferred job looks at no project status.
BeginJob(r, d) ==
  /\ d \in autoMap
  /\ Start(r, "job", "correct", d)
  /\ autoMap' = autoMap \ {d}
  /\ UNCHANGED <<projectVars, uploaded, side, rowVars, matchVars>>

\* tryAutoMapDocument may find that the file is of the other family.  It may also
\* stop here, unsure of the columns: GiveUp.
CorrectType(r) ==
  /\ At(r, "correct") /\ status # "deleted"
  /\ \E s \in IF AutoCorrect THEN Sides ELSE {side[req[r].doc]} :
       side' = [side EXCEPT ![req[r].doc] = s]
  /\ Goto(r, "discard")
  /\ UNCHANGED <<projectVars, uploaded, autoMap, rowVars, matchVars>>

BeginMap(r, d) ==
  /\ Receive(r, "map", "discard", d)
  /\ Editable /\ d \in uploaded
  /\ UNCHANGED <<projectVars, documentVars, rowVars, matchVars>>

\* Deleting a Transaction deletes its MatchItem, not the Match.
WithoutRows(gone) ==
  {[m EXCEPT !.cash = @ \ gone, !.bank = @ \ gone] : m \in matches}
WithoutIds(ids) == {m \in matches : m.id \notin ids}

\* Every row of document d goes, by deleteMany.
DiscardRows(d) ==
  /\ rowsOf' = [rowsOf EXCEPT ![d] = {}]
  /\ matches' = WithoutRows(rowsOf[d])
  /\ UNCHANGED <<nextRow, nextMatch>>

\* applyDocumentMapping, from its deleteMany on: no transaction holds it together.
MapDiscard(r) ==
  /\ At(r, "discard")
  /\ DiscardRows(req[r].doc)
  /\ Goto(r, "import")
  /\ UNCHANGED <<projectVars, documentVars>>

MapImport(r) ==
  /\ At(r, "import") /\ status # "deleted"
  /\ \E n \in RowCounts :
       /\ nextRow + n <= MaxRows + 1
       /\ rowsOf' = [rowsOf EXCEPT ![req[r].doc] = @ \cup nextRow..(nextRow + n - 1)]
       /\ nextRow' = nextRow + n
  /\ Goto(r, "purgeFind")
  /\ UNCHANGED <<projectVars, documentVars, matchVars>>

Orphaned(m) == Items(m) = {} \/ (m.type = "one_to_one" /\ Cardinality(Items(m)) # 2)

\* Mutant: only emptied matches count as orphans.
PurgeFindsEmpty(r) ==
  /\ At(r, "purgeFind")
  /\ req' = [req EXCEPT ![r].step = "purgeDelete",
                        ![r].ids = {m.id : m \in {x \in matches : Items(x) = {}}}]
  /\ UNCHANGED <<projectVars, documentVars, rowVars, matchVars>>

\* purgeOrphanMatches: findMany ...
PurgeFind(r) ==
  /\ At(r, "purgeFind")
  /\ req' = [req EXCEPT ![r].step = "purgeDelete",
                        ![r].ids = {m.id : m \in {x \in matches : Orphaned(x)}}]
  /\ UNCHANGED <<projectVars, documentVars, rowVars, matchVars>>

\* ... and deleteMany of what was found.
PurgeDelete(r) ==
  /\ At(r, "purgeDelete")
  /\ matches' = WithoutIds(req[r].ids)
  /\ req' = [req EXCEPT ![r].step = IF req[r].kind = "auto" THEN "plan" ELSE "setMapping",
                        ![r].ids = {}]
  /\ UNCHANGED <<projectVars, documentVars, rowVars, nextMatch>>

MapSetStatus(r) ==
  /\ At(r, "setMapping") /\ status # "deleted"
  /\ status' = "mapping"
  /\ Finish(r)
  /\ UNCHANGED <<signOff, documentVars, rowVars, matchVars>>

-----------------------------------------------------------------------------
(* changeDocumentType.                                                     *)

Other(s) == CHOOSE t \in Sides : t # s

BeginType(r, d) ==
  /\ "type" \in Kinds /\ Editable /\ d \in uploaded
  /\ req[r] = Idle
  /\ req' = [req EXCEPT ![r] = [Idle EXCEPT !.kind = "type", !.step = "typeRows",
                                            !.doc = d, !.to = Other(side[d])]]
  /\ UNCHANGED <<projectVars, documentVars, rowVars, matchVars>>

TypeRows(r) ==
  LET rows == rowsOf[req[r].doc] IN
  /\ At(r, "typeRows")
  /\ req' = [req EXCEPT ![r].rows = rows, ![r].step = IF rows = {} THEN "flip" ELSE "typeFind"]
  /\ UNCHANGED <<projectVars, documentVars, rowVars, matchVars>>

TypeFind(r) ==
  /\ At(r, "typeFind")
  /\ req' = [req EXCEPT ![r].step = "typeDiscard",
                        ![r].ids = {m.id : m \in {x \in matches : Items(x) \cap req[r].rows # {}}}]
  /\ UNCHANGED <<projectVars, documentVars, rowVars, matchVars>>

\* Mutant: the rows imported under the old type stay.
TypeKeepsRows(r) ==
  /\ At(r, "typeDiscard")
  /\ Goto(r, "sweep")
  /\ UNCHANGED <<projectVars, documentVars, rowVars, matchVars>>

TypeDiscard(r) ==
  /\ At(r, "typeDiscard")
  /\ DiscardRows(req[r].doc)
  /\ Goto(r, "sweep")
  /\ UNCHANGED <<projectVars, documentVars>>

\* For each match found: delete it when nothing is left of it.  A match that
\* somebody else deleted meanwhile also counts 0 items; its delete throws.
TypeSweep(r, id) ==
  LET left == {m \in matches : m.id = id} IN
  /\ At(r, "sweep") /\ id \in req[r].ids
  /\ matches' = matches \ {m \in left : Items(m) = {}}
  /\ IF left = {}
     THEN Finish(r)
     ELSE req' = [req EXCEPT ![r].ids = @ \ {id}]
  /\ UNCHANGED <<projectVars, documentVars, rowVars, nextMatch>>

\* The document's type is updated last.
TypeFlip(r) ==
  /\ At(r, "flip") \/ (At(r, "sweep") /\ req[r].ids = {})
  /\ status # "deleted"
  /\ side' = [side EXCEPT ![req[r].doc] = req[r].to]
  /\ Finish(r)
  /\ UNCHANGED <<projectVars, uploaded, autoMap, rowVars, matchVars>>

-----------------------------------------------------------------------------
(* Matching.  A plan is what one transaction creates: for each match, the  *)
(* rows it takes as cash book rows and those it takes as bank rows.        *)

RowsIn(ds) == UNION {rowsOf[d] : d \in ds}
On(s) == {d \in uploaded : side[d] = s}

Link(cash, bank) == [cash |-> cash, bank |-> bank]
Pairs(cash, bank) == {Link({c}, {b}) : c \in cash, b \in bank}
Apart(plan) == \A a, b \in plan : a # b => Items(a) \cap Items(b) = {}

\* POST /match and /match/bulk take pairs of different rows, /match/multi takes
\* one match with several rows on a side.  No handler compares a row's document
\* with the side the client names.
Payloads ==
  {plan \in SUBSET {p \in Pairs(AllRows, AllRows) : Cardinality(Items(p)) = 2} :
     plan # {} /\ Apart(plan)}
  \cup {{p} : p \in {l \in [cash : SUBSET AllRows, bank : SUBSET AllRows] :
                     l.cash \cap l.bank = {} /\ Cardinality(Items(l)) > 2}}

\* Mutant: POST /match does not look at the project's status.
BeginMatchAnyway(r) ==
  /\ Receive(r, "match", "check", NoDoc)
  /\ UNCHANGED <<projectVars, documentVars, rowVars, matchVars>>

BeginMatch(r) ==
  /\ Receive(r, "match", "check", NoDoc)
  /\ Editable
  /\ UNCHANGED <<projectVars, documentVars, rowVars, matchVars>>

InPlace(p) == p.cash \subseteq RowsIn(On("cash_book")) /\ p.bank \subseteq RowsIn(On("bank"))

\* findMany finds the rows, findAlreadyMatchedIds finds none of them matched.
CheckMatch(r) ==
  /\ At(r, "check")
  /\ \E plan \in Payloads :
       /\ \A p \in plan : p.cash # {} /\ p.bank # {} /\ Items(p) \subseteq AllRows \ Matched
       /\ Careless \/ \A p \in plan : InPlace(p)
       /\ req' = [req EXCEPT ![r].step = "write", ![r].plan = plan]
  /\ UNCHANGED <<projectVars, documentVars, rowVars, matchVars>>

\* The document lanes are read once, before the first round.
BeginAuto(r) ==
  /\ "auto" \in Kinds /\ Editable
  /\ req[r] = Idle
  /\ req' = [req EXCEPT ![r] = [Idle EXCEPT !.kind = "auto", !.step = "purgeFind",
                                !.lanes = [cash |-> On("cash_book"), bank |-> On("bank")]]]
  /\ UNCHANGED <<projectVars, documentVars, rowVars, matchVars>>

\* A round of runProjectAutoComplete: disjoint pairs of unmatched rows.
PlanRound(r) ==
  /\ At(r, "plan")
  /\ \E plan \in SUBSET Pairs(RowsIn(req[r].lanes.cash) \ Matched,
                              RowsIn(req[r].lanes.bank) \ Matched) :
       /\ plan # {} /\ Apart(plan)
       /\ req' = [req EXCEPT ![r].step = "recheck", ![r].plan = plan]
  /\ UNCHANGED <<projectVars, documentVars, rowVars, matchVars>>

\* createBulkMatches: pairs that lost a row are dropped, and nothing is created
\* when any of the rows has been matched meanwhile.
Recheck(r) ==
  LET there == {p \in req[r].plan : Items(p) \subseteq AllRows} IN
  /\ At(r, "recheck")
  /\ IF there = {} \/ ItemsOf(req[r].plan) \cap Matched # {}
     THEN Finish(r)
     ELSE req' = [req EXCEPT ![r].step = "write", ![r].plan = there]
  /\ UNCHANGED <<projectVars, documentVars, rowVars, matchVars>>

TypeOf(p) == IF Cardinality(Items(p)) = 2 THEN "one_to_one" ELSE "many"

\* The Match rows of a plan, numbered from nextMatch.
Numbered(plan) ==
  LET ids == nextMatch..(nextMatch + Cardinality(plan) - 1)
      number == CHOOSE f \in [plan -> ids] : \A p, q \in plan : p # q => f[p] # f[q]
  IN {[id |-> number[p], type |-> TypeOf(p), cash |-> p.cash, bank |-> p.bank] : p \in plan}

\* Mutant: match_items has no unique index on transaction_id.
WriteUnchecked(r) ==
  LET plan == req[r].plan IN
  /\ At(r, "write")
  /\ nextMatch + Cardinality(plan) <= MaxMatches + 1
  /\ IF ItemsOf(plan) \subseteq AllRows /\ status # "deleted"
     THEN /\ matches' = matches \cup Numbered(plan)
          /\ nextMatch' = nextMatch + Cardinality(plan)
          /\ status' = "reconciling"
          /\ req' = [req EXCEPT ![r] = IF @.kind = "auto"
                                       THEN [@ EXCEPT !.step = "plan", !.plan = {}] ELSE Idle]
     ELSE Finish(r) /\ UNCHANGED <<status, matchVars>>
  /\ UNCHANGED <<signOff, documentVars, rowVars>>

\* One database transaction: all the matches of the plan, or, when the foreign
\* key or the unique index on transaction_id refuses an item, none (409, 500).
WriteMatches(r) ==
  LET plan == req[r].plan IN
  /\ At(r, "write")
  /\ nextMatch + Cardinality(plan) <= MaxMatches + 1
  /\ IF ItemsOf(plan) \subseteq AllRows \ Matched /\ status # "deleted"
     THEN /\ matches' = matches \cup Numbered(plan)
          /\ nextMatch' = nextMatch + Cardinality(plan)
          /\ status' = "reconciling"
          /\ req' = [req EXCEPT ![r] = IF @.kind = "auto"
                                       THEN [@ EXCEPT !.step = "plan", !.plan = {}] ELSE Idle]
     ELSE Finish(r) /\ UNCHANGED <<status, matchVars>>
  /\ UNCHANGED <<signOff, documentVars, rowVars>>

BeginUnmatch(r) ==
  /\ Receive(r, "unmatch", "findMatch", NoDoc)
  /\ Editable
  /\ UNCHANGED <<projectVars, documentVars, rowVars, matchVars>>

FindMatch(r) ==
  /\ At(r, "findMatch")
  /\ \E m \in matches : req' = [req EXCEPT ![r].step = "remove", ![r].ids = {m.id}]
  /\ UNCHANGED <<projectVars, documentVars, rowVars, matchVars>>

RemoveMatch(r) ==
  /\ At(r, "remove")
  /\ matches' = WithoutIds(req[r].ids)
  /\ Finish(r)
  /\ UNCHANGED <<projectVars, documentVars, rowVars, nextMatch>>

BeginClear(r) ==
  /\ Receive(r, "clear", "clear", NoDoc)
  /\ Editable
  /\ UNCHANGED <<projectVars, documentVars, rowVars, matchVars>>

ClearMatches(r) ==
  /\ At(r, "clear")
  /\ matches' = {}
  /\ Finish(r)
  /\ UNCHANGED <<projectVars, documentVars, rowVars, nextMatch>>


-----------------------------------------------------------------------------
Init ==
  /\ status = "draft" /\ signOff = {}
  /\ uploaded = {} /\ autoMap = {}
  /\ side = [d \in Docs |-> IF d \in CashDocs THEN "cash_book" ELSE "bank"]
  /\ rowsOf = [d \in Docs |-> {}] /\ nextRow = 1
  /\ matches = {} /\ nextMatch = 1
  /\ req = [r \in Requests |-> Idle]

ReviewStep(r) ==
  \/ BeginSubmit(r) \/ Submit(r) \/ BeginApprove(r) \/ Approve(r)
  \/ BeginReopen(r) \/ Reopen(r) \/ BeginUndo(r) \/ Undo(r)
  \/ BeginDelete(r) \/ DeleteProject(r)

ImportStep(r) ==
  \/ \E d \in Docs : BeginUpload(r, d) \/ BeginJob(r, d) \/ BeginMap(r, d)
  \/ CreateDocument(r) \/ CorrectType(r)
  \/ MapDiscard(r) \/ MapImport(r) \/ PurgeFind(r) \/ PurgeDelete(r) \/ MapSetStatus(r)

TypeStep(r) ==
  \/ \E d \in Docs : BeginType(r, d)
  \/ TypeRows(r) \/ TypeFind(r) \/ TypeDiscard(r) \/ TypeFlip(r)
  \/ \E id \in MatchIds : TypeSweep(r, id)

MatchStep(r) ==
  \/ BeginMatch(r) \/ CheckMatch(r) \/ WriteMatches(r)
  \/ BeginAuto(r) \/ PlanRound(r) \/ Recheck(r)
  \/ BeginUnmatch(r) \/ FindMatch(r) \/ RemoveMatch(r)
  \/ BeginClear(r) \/ ClearMatches(r)

Next == \E r \in Requests : GiveUp(r) \/ ReviewStep(r) \/ ImportStep(r) \/ TypeStep(r) \/ MatchStep(r)

Spec == Init /\ [][Next]_vars

-----------------------------------------------------------------------------
(* Properties.                                                             *)

Steps == {"idle", "submit", "approve", "reopen", "undo", "destroy", "document", "correct",
          "discard", "setMapping", "typeRows", "typeFind", "typeDiscard", "plan", "recheck",
          "check", "write", "findMatch", "remove", "clear"} \cup Midway
Links == [cash : SUBSET RowIds, bank : SUBSET RowIds]

\* Every variable keeps its type, the ids in use are those already given out, and
\* what belongs to a document goes with it (onDelete: Cascade, schema.prisma).
TypeOK ==
  /\ status \in Statuses /\ signOff \subseteq Signatures
  /\ uploaded \subseteq Docs /\ autoMap \subseteq uploaded
  /\ side \in [Docs -> Sides]
  /\ nextRow \in 1..(MaxRows + 1) /\ rowsOf \in [Docs -> SUBSET (1..(nextRow - 1))]
  /\ \A d \in Docs \ uploaded : rowsOf[d] = {}
  /\ nextMatch \in 1..(MaxMatches + 1)
  /\ matches \subseteq [id : 1..(nextMatch - 1), type : {"one_to_one", "many"},
                        cash : SUBSET RowIds, bank : SUBSET RowIds]
  /\ \A r \in Requests :
       /\ req[r].kind \in Kinds \cup {"none", "job"} /\ req[r].step \in Steps
       /\ req[r].doc \in Docs \cup {NoDoc} /\ req[r].to \in Sides \cup {"none"}
       /\ req[r].rows \subseteq RowIds /\ req[r].ids \subseteq 1..(nextMatch - 1)
       /\ req[r].plan \subseteq Links
       /\ req[r].lanes \in [cash : SUBSET Docs, bank : SUBSET Docs]

\* A confirmed match never counts a transaction that another one already counts,
\* nor one that is gone, whatever requests overlap: the checks of the matching
\* handlers run before their transaction (reconcile.ts:1421-1464), the unique
\* index and the cascade (schema.prisma:384-397) decide inside it.
MatchesSound ==
  /\ \A m, n \in matches : m # n => m.id # n.id /\ Items(m) \cap Items(n) = {}
  /\ Matched \subseteq AllRows

\* The requests that will still purge match m.
WillPurge(r, m) ==
  \/ req[r].kind \in {"upload", "job", "map"} /\ req[r].step \in {"import", "purgeFind"}
  \/ req[r].step = "purgeDelete" /\ m.id \in req[r].ids

\* A remapping leaves no half of a one_to_one match behind: an orphan exists only
\* while a request that has yet to purge it is under way, although discarding the
\* rows and purging are separate calls and other requests match in between
\* (applyDocumentMapping.ts:224-230, purgeOrphanMatches.ts).
OrphansArePurged ==
  \A m \in matches : Orphaned(m) => \E r \in Requests : WillPurge(r, m)

\* A pair links a cash book row with a bank row, and the link stays one across
\* remappings and changes of a document's family (changeDocumentType.ts), as long
\* as the client that made it named the sides right.
PairsAcrossSides == \A m \in matches : ~Orphaned(m) => InPlace(m)

\* With no request under way, a match has rows on both sides: purgeOrphanMatches.ts:3
\* says what is removed is "matches left with missing sides after transaction remap".
NoOneSidedMatch ==
  (\A r \in Requests : req[r] = Idle) => \A m \in matches : m.cash # {} /\ m.bank # {}

\* A project that stays submitted or completed keeps its rows and matches:
\* "Preparer submits; no further edits until reopen"
\* (docs/GAP_IMPLEMENTATION_PHASES.md:180).
NoEditsWhileLocked ==
  [][{status, status'} \subseteq Locked
       => rowsOf' = rowsOf /\ matches' = matches /\ side' = side]_vars

\* The phase of the review workflow that a status stands for.
Phase ==
  CASE status = "deleted" -> "deleted"
    [] status = "submitted_for_review" -> "submitted"
    [] status = "completed" -> "completed"
    [] OTHER -> "open"

Flow == INSTANCE SignOff WITH
  phase <- Phase, signed <- signOff, imported <- <<rowsOf, side>>, matched <- matches

\* Requests that do not overlap implement the review workflow: what is approved is
\* what was submitted, under the signatures of its stage (projects.ts:363-562).
ImplementsSignOff == Flow!SignOffSpec

=============================================================================
