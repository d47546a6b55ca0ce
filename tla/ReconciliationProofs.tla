------------------------ MODULE ReconciliationProofs ------------------------
(***************************************************************************)
(* Proofs about Reconciliation, for any documents, any number of requests  *)
(* under way, with or without faults and careless clients.                 *)
(***************************************************************************)
EXTENDS Reconciliation, FiniteSetTheorems, TLAPS

ReqRecords(last) ==
  [kind : Kinds \cup {"none", "job"}, step : Steps, doc : Docs \cup {NoDoc},
   rows : SUBSET RowIds, ids : SUBSET (1..last), plan : SUBSET Links,
   lanes : [cash : SUBSET Docs, bank : SUBSET Docs], to : Sides \cup {"none"}]

\* The steps that still use the document of their request, and those that give it
\* a new family.
OnDocument == {"correct", "discard", "import", "typeRows", "typeFind", "typeDiscard", "sweep", "flip"}
Retyping == {"typeRows", "typeFind", "typeDiscard", "sweep", "flip"}

\* TypeOK is not inductive: a request could import rows into a document that is
\* gone, or give it no family.
AttachedAt(r) ==
  /\ req[r].step = "document" => req[r].doc \in Docs
  /\ req[r].step \in OnDocument =>
       req[r].doc \in Docs /\ (status = "deleted" \/ req[r].doc \in uploaded)
  /\ req[r].step \in Retyping => req[r].to \in Sides

Attached == \A r \in Requests : AttachedAt(r)

Typed == req \in [Requests -> ReqRecords(nextMatch - 1)]

\* The part of TypeOK that is about the database.
RowsTyped ==
  /\ status \in Statuses /\ signOff \subseteq Signatures
  /\ uploaded \subseteq Docs /\ autoMap \subseteq uploaded
  /\ side \in [Docs -> Sides]
  /\ nextRow \in 1..(MaxRows + 1) /\ rowsOf \in [Docs -> SUBSET (1..(nextRow - 1))]
  /\ \A d \in Docs \ uploaded : rowsOf[d] = {}
  /\ nextMatch \in 1..(MaxMatches + 1)
  /\ matches \subseteq [id : 1..(nextMatch - 1), type : {"one_to_one", "many"},
                        cash : SUBSET RowIds, bank : SUBSET RowIds]

TypeInv == RowsTyped /\ Typed /\ Attached

USE DEF At, Goto, Finish, Start, Receive

\* A handler that has ended holds nothing.
LEMMA IdleTyped == ASSUME NEW n \in Nat PROVE Idle \in ReqRecords(n)
  BY DEF ReqRecords, Idle, NoLanes, Steps

\* The inductive form is stronger than TypeOK.
LEMMA TypeInvType == TypeInv => TypeOK
  BY DEF TypeInv, TypeOK, RowsTyped, Typed, ReqRecords

\* A new project is well typed.
LEMMA InitTypeInv == Init => TypeInv
<1> SUFFICES ASSUME Init PROVE TypeInv
  OBVIOUS
<1>1. RowsTyped
  BY ReconciliationAssumption DEF Init, RowsTyped, Statuses, Signatures, Sides
<1>2. Typed
  BY IdleTyped DEF Init, Typed
<1>3. Attached
  BY DEF Init, Attached, AttachedAt, Idle, OnDocument, Retyping
<1> QED BY <1>1, <1>2, <1>3 DEF TypeInv

\* What a step of request r has to preserve.
LEMMA StepKeeps ==
  ASSUME TypeInv, NEW r \in Requests, RowsTyped',
         status = "deleted" => status' = "deleted",
         uploaded \subseteq uploaded' \/ status' = "deleted",
         req' \in [Requests -> ReqRecords(nextMatch' - 1)],
         \A q \in Requests : q # r => req'[q] = req[q],
         AttachedAt(r)'
  PROVE  TypeInv'
<1>1. ASSUME NEW q \in Requests PROVE AttachedAt(q)'
  BY DEF TypeInv, Attached, AttachedAt
<1> QED BY <1>1 DEF TypeInv, Attached, Typed

\* A step that touches only its request, and perhaps the project.
LEMMA RequestStepKeeps ==
  ASSUME TypeInv, NEW r \in Requests,
         UNCHANGED <<documentVars, rowVars, matchVars>>,
         status' \in Statuses, signOff' \subseteq Signatures,
         status = "deleted" => status' = "deleted",
         req' \in [Requests -> ReqRecords(nextMatch - 1)],
         \A q \in Requests : q # r => req'[q] = req[q],
         AttachedAt(r)'
  PROVE  TypeInv'
<1>1. RowsTyped' /\ uploaded' = uploaded /\ nextMatch' = nextMatch
  BY DEF TypeInv, RowsTyped, documentVars, rowVars, matchVars
<1> QED BY <1>1, StepKeeps

\* The request of r moves to a step that needs no document.
LEMMA MovedRequest ==
  ASSUME TypeInv, NEW r \in Requests, NEW s \in Steps \ (OnDocument \cup {"document"}),
         req' = [req EXCEPT ![r].step = s] \/ req' = [req EXCEPT ![r] = Idle]
  PROVE  /\ req' \in [Requests -> ReqRecords(nextMatch - 1)]
         /\ \A q \in Requests : q # r => req'[q] = req[q]
         /\ AttachedAt(r)'
<1>1. nextMatch - 1 \in Nat
  BY ReconciliationAssumption DEF TypeInv, RowsTyped
<1>2. req \in [Requests -> ReqRecords(nextMatch - 1)] /\ Idle \in ReqRecords(nextMatch - 1)
  BY <1>1, IdleTyped DEF TypeInv, Typed
<1>3. CASE req' = [req EXCEPT ![r].step = s]
  BY <1>2, <1>3 DEF ReqRecords, AttachedAt, OnDocument, Retyping
<1>4. CASE req' = [req EXCEPT ![r] = Idle]
  BY <1>2, <1>4 DEF AttachedAt, OnDocument, Retyping, Idle
<1> QED BY <1>3, <1>4

\* A handler or job that starts on document d, or on none.
LEMMA StartedRequest ==
  ASSUME TypeInv, NEW r \in Requests, req[r] = Idle,
         NEW k \in Kinds \cup {"job"}, NEW s \in Steps \ Retyping, NEW d \in Docs \cup {NoDoc},
         req' = [req EXCEPT ![r].kind = k, ![r].step = s, ![r].doc = d],
         s = "document" => d \in Docs,
         s \in OnDocument => d \in uploaded, uploaded' = uploaded
  PROVE  /\ req' \in [Requests -> ReqRecords(nextMatch - 1)]
         /\ \A q \in Requests : q # r => req'[q] = req[q]
         /\ AttachedAt(r)'
<1>1. req \in [Requests -> ReqRecords(nextMatch - 1)] /\ uploaded \subseteq Docs
  BY DEF TypeInv, Typed, RowsTyped
<1> DEFINE moved == [req[r] EXCEPT !.kind = k, !.step = s, !.doc = d]
<1>2. req' = [req EXCEPT ![r] = moved]
  BY <1>1
<1>3. moved \in ReqRecords(nextMatch - 1) /\ moved.step = s /\ moved.doc = d
  BY <1>1 DEF ReqRecords
<1> HIDE DEF moved
<1> QED BY <1>1, <1>2, <1>3 DEF AttachedAt

\* The review workflow keeps every type (projects.ts).
LEMMA ReviewKeepsTypes ==
  ASSUME TypeInv, NEW r \in Requests, ReviewStep(r)
  PROVE  TypeInv'
<1>0. status \in Statuses /\ signOff \subseteq Signatures
  BY DEF TypeInv, RowsTyped
<1>1. ASSUME NEW k \in {"submit", "approve", "reopen", "undo", "delete"},
             NEW s \in {"submit", "approve", "reopen", "undo", "destroy"},
             Receive(r, k, s, NoDoc),
             UNCHANGED <<projectVars, documentVars, rowVars, matchVars>>
      PROVE  TypeInv'
  <2>1. s \in Steps \ Retyping /\ s \notin OnDocument \cup {"document"}
    BY DEF Steps, Retyping, OnDocument
  <2>2. uploaded' = uploaded /\ status' = status /\ signOff' = signOff
    BY <1>1 DEF documentVars, projectVars
  <2>3. /\ req' \in [Requests -> ReqRecords(nextMatch - 1)]
        /\ \A q \in Requests : q # r => req'[q] = req[q]
        /\ AttachedAt(r)'
    BY <1>1, <2>1, <2>2, StartedRequest
  <2> QED BY <1>0, <1>1, <2>2, <2>3, RequestStepKeeps
<1>2. CASE BeginSubmit(r) \/ BeginApprove(r) \/ BeginReopen(r) \/ BeginUndo(r) \/ BeginDelete(r)
  BY <1>1, <1>2 DEF BeginSubmit, BeginApprove, BeginReopen, BeginUndo, BeginDelete
<1>3. ASSUME Finish(r)
      PROVE  /\ req' \in [Requests -> ReqRecords(nextMatch - 1)]
             /\ \A q \in Requests : q # r => req'[q] = req[q]
             /\ AttachedAt(r)'
  <2>1. "idle" \in Steps \ (OnDocument \cup {"document"})
    BY DEF Steps, OnDocument
  <2> QED BY <1>3, <2>1, MovedRequest
<1>4. CASE Submit(r) \/ Approve(r) \/ Reopen(r)
  <2>1. Finish(r) /\ status # "deleted" /\ UNCHANGED <<documentVars, rowVars, matchVars>>
    BY <1>4 DEF Submit, Approve, Reopen
  <2>2. status' \in Statuses /\ signOff' \subseteq Signatures
    BY <1>0, <1>4 DEF Submit, Approve, Reopen, Statuses, Signatures
  <2> QED BY <1>3, <2>1, <2>2, RequestStepKeeps
<1>5. CASE Undo(r)
  <2>1. RowsTyped' /\ uploaded' = uploaded /\ nextMatch' = nextMatch
    BY <1>5 DEF Undo, TypeInv, RowsTyped, Statuses, documentVars, rowVars
  <2> QED BY <1>3, <1>5, <2>1, StepKeeps DEF Undo
<1>6. CASE DeleteProject(r)
  <2>1. RowsTyped' /\ nextMatch' = nextMatch /\ status' = "deleted"
    BY <1>6 DEF DeleteProject, TypeInv, RowsTyped, Statuses
  <2> QED BY <1>3, <1>6, <2>1, StepKeeps DEF DeleteProject
<1> QED BY <1>2, <1>4, <1>5, <1>6 DEF ReviewStep

\* A request whose record becomes x.
LEMMA ChangedRequest ==
  ASSUME TypeInv, NEW r \in Requests, NEW x \in ReqRecords(nextMatch - 1),
         req' = [req EXCEPT ![r] = x],
         x.step = "document" => x.doc \in Docs,
         x.step \in OnDocument => x.doc \in Docs /\ (status' = "deleted" \/ x.doc \in uploaded'),
         x.step \in Retyping => x.to \in Sides
  PROVE  /\ req' \in [Requests -> ReqRecords(nextMatch - 1)]
         /\ \A q \in Requests : q # r => req'[q] = req[q]
         /\ AttachedAt(r)'
  BY DEF TypeInv, Typed, AttachedAt

\* A handler that stops keeps every type.
LEMMA GiveUpKeepsTypes ==
  ASSUME TypeInv, NEW r \in Requests, GiveUp(r)
  PROVE  TypeInv'
<1>1. "idle" \in Steps \ (OnDocument \cup {"document"})
  BY DEF Steps, OnDocument
<1>2. /\ req' \in [Requests -> ReqRecords(nextMatch - 1)]
      /\ \A q \in Requests : q # r => req'[q] = req[q]
      /\ AttachedAt(r)'
  BY <1>1, MovedRequest DEF GiveUp
<1>3. status \in Statuses /\ signOff \subseteq Signatures
  BY DEF TypeInv, RowsTyped
<1> QED BY <1>2, <1>3, RequestStepKeeps DEF GiveUp, projectVars

\* The rows of a document go, and their items with them.
LEMMA DiscardTyped ==
  ASSUME TypeInv, NEW d \in Docs, DiscardRows(d), UNCHANGED <<projectVars, documentVars>>
  PROVE  RowsTyped'
<1>1. /\ rowsOf \in [Docs -> SUBSET (1..(nextRow - 1))]
      /\ matches \subseteq [id : 1..(nextMatch - 1), type : {"one_to_one", "many"},
                            cash : SUBSET RowIds, bank : SUBSET RowIds]
  BY DEF TypeInv, RowsTyped
<1>2. ASSUME NEW m \in WithoutRows(rowsOf[d])
      PROVE  m \in [id : 1..(nextMatch - 1), type : {"one_to_one", "many"},
                    cash : SUBSET RowIds, bank : SUBSET RowIds]
  <2>1. PICK x \in matches : m = [x EXCEPT !.cash = @ \ rowsOf[d], !.bank = @ \ rowsOf[d]]
    BY <1>2 DEF WithoutRows
  <2> QED BY <1>1, <2>1
<1>3. rowsOf' \in [Docs -> SUBSET (1..(nextRow - 1))] /\ \A e \in Docs \ uploaded : rowsOf'[e] = {}
  BY <1>1 DEF DiscardRows, TypeInv, RowsTyped
<1> QED BY <1>2, <1>3 DEF DiscardRows, TypeInv, RowsTyped, projectVars, documentVars

\* Uploading and mapping keep every type (upload.ts, applyDocumentMapping.ts).
LEMMA ImportKeepsTypes ==
  ASSUME TypeInv, NEW r \in Requests, ImportStep(r)
  PROVE  TypeInv'
<1>0. /\ status \in Statuses /\ signOff \subseteq Signatures
      /\ uploaded \subseteq Docs /\ autoMap \subseteq uploaded
      /\ req \in [Requests -> ReqRecords(nextMatch - 1)]
      /\ req[r] \in ReqRecords(nextMatch - 1) /\ AttachedAt(r)
  BY DEF TypeInv, RowsTyped, Typed, Attached
<1>1. ASSUME NEW d \in Docs, BeginUpload(r, d) PROVE TypeInv'
  <2>1. "document" \in Steps \ Retyping /\ "document" \notin OnDocument
    BY DEF Steps, Retyping, OnDocument
  <2>2. /\ req' \in [Requests -> ReqRecords(nextMatch - 1)]
        /\ \A q \in Requests : q # r => req'[q] = req[q]
        /\ AttachedAt(r)'
    BY <1>1, <2>1, StartedRequest DEF BeginUpload, documentVars
  <2> QED BY <1>0, <1>1, <2>2, RequestStepKeeps DEF BeginUpload, projectVars
<1>2. ASSUME NEW d \in Docs, BeginMap(r, d) PROVE TypeInv'
  <2>1. "discard" \in Steps \ Retyping /\ "discard" # "document"
    BY DEF Steps, Retyping
  <2>2. /\ req' \in [Requests -> ReqRecords(nextMatch - 1)]
        /\ \A q \in Requests : q # r => req'[q] = req[q]
        /\ AttachedAt(r)'
    BY <1>2, <2>1, StartedRequest DEF BeginMap, documentVars
  <2> QED BY <1>0, <1>2, <2>2, RequestStepKeeps DEF BeginMap, projectVars
<1>3. ASSUME NEW d \in Docs, BeginJob(r, d) PROVE TypeInv'
  <2>1. "correct" \in Steps \ Retyping /\ "correct" # "document"
    BY DEF Steps, Retyping
  <2>2. /\ req' \in [Requests -> ReqRecords(nextMatch - 1)]
        /\ \A q \in Requests : q # r => req'[q] = req[q]
        /\ AttachedAt(r)'
    BY <1>0, <1>3, <2>1, StartedRequest DEF BeginJob
  <2>3. RowsTyped' /\ nextMatch' = nextMatch
    BY <1>3 DEF BeginJob, TypeInv, RowsTyped, projectVars, rowVars, matchVars
  <2> QED BY <1>3, <2>2, <2>3, StepKeeps DEF BeginJob, projectVars
<1>4. CASE CreateDocument(r)
  <2> DEFINE x == IF DeferMap THEN Idle ELSE [req[r] EXCEPT !.step = "correct"]
  <2>1. req' = [req EXCEPT ![r] = x]
    BY <1>0, <1>4 DEF CreateDocument
  <2>2. x \in ReqRecords(nextMatch - 1)
    <3>1. nextMatch - 1 \in Nat
      BY ReconciliationAssumption DEF TypeInv, RowsTyped
    <3>2. [req[r] EXCEPT !.step = "correct"] \in ReqRecords(nextMatch - 1)
      BY <1>0 DEF ReqRecords, Steps
    <3> QED BY <3>1, <3>2, IdleTyped
  <2>3. req[r].doc \in Docs /\ uploaded' = uploaded \cup {req[r].doc}
    BY <1>0, <1>4 DEF CreateDocument, AttachedAt
  <2>4. x.step \in {"idle", "correct"} /\ (x.step = "correct" => x.doc = req[r].doc)
    BY <1>0 DEF ReqRecords, Idle
  <2> HIDE DEF x
  <2>5. /\ req' \in [Requests -> ReqRecords(nextMatch - 1)]
        /\ \A q \in Requests : q # r => req'[q] = req[q]
        /\ AttachedAt(r)'
    BY <2>1, <2>2, <2>3, <2>4, ChangedRequest DEF OnDocument, Retyping
  <2>6. RowsTyped' /\ nextMatch' = nextMatch
    BY <1>4, <2>3 DEF CreateDocument, TypeInv, RowsTyped, projectVars, rowVars, matchVars
  <2> QED BY <1>4, <2>3, <2>5, <2>6, StepKeeps DEF CreateDocument, projectVars
<1>5. CASE CorrectType(r)
  <2> DEFINE x == [req[r] EXCEPT !.step = "discard"]
  <2>1. req' = [req EXCEPT ![r] = x]
    BY <1>0, <1>5 DEF CorrectType
  <2>2. x \in ReqRecords(nextMatch - 1) /\ x.step = "discard" /\ x.doc = req[r].doc
    BY <1>0 DEF ReqRecords, Steps
  <2>3. req[r].doc \in uploaded /\ req[r].doc \in Docs /\ uploaded' = uploaded
    BY <1>0, <1>5 DEF CorrectType, AttachedAt, OnDocument
  <2> HIDE DEF x
  <2>4. /\ req' \in [Requests -> ReqRecords(nextMatch - 1)]
        /\ \A q \in Requests : q # r => req'[q] = req[q]
        /\ AttachedAt(r)'
    BY <2>1, <2>2, <2>3, ChangedRequest DEF OnDocument, Retyping
  <2>5. side' \in [Docs -> Sides]
    BY <1>5, <2>3 DEF CorrectType, TypeInv, RowsTyped
  <2>6. RowsTyped' /\ nextMatch' = nextMatch
    BY <1>5, <2>5 DEF CorrectType, TypeInv, RowsTyped, projectVars, rowVars, matchVars
  <2> QED BY <1>5, <2>3, <2>4, <2>6, StepKeeps DEF CorrectType, projectVars
<1>6. CASE MapDiscard(r)
  <2> DEFINE x == [req[r] EXCEPT !.step = "import"]
  <2>1. req' = [req EXCEPT ![r] = x]
    BY <1>0, <1>6 DEF MapDiscard
  <2>2. x \in ReqRecords(nextMatch - 1) /\ x.step = "import" /\ x.doc = req[r].doc
    BY <1>0 DEF ReqRecords, Steps, Midway
  <2>3. /\ req[r].doc \in Docs /\ (status = "deleted" \/ req[r].doc \in uploaded)
        /\ uploaded' = uploaded /\ status' = status /\ nextMatch' = nextMatch
    BY <1>0, <1>6 DEF MapDiscard, AttachedAt, OnDocument, projectVars, documentVars, DiscardRows
  <2> HIDE DEF x
  <2>4. /\ req' \in [Requests -> ReqRecords(nextMatch - 1)]
        /\ \A q \in Requests : q # r => req'[q] = req[q]
        /\ AttachedAt(r)'
    BY <2>1, <2>2, <2>3, ChangedRequest DEF OnDocument, Retyping
  <2>5. RowsTyped'
    BY <1>6, <2>3, DiscardTyped DEF MapDiscard
  <2> QED BY <2>3, <2>4, <2>5, StepKeeps
<1>7. CASE MapImport(r)
  <2>1. Goto(r, "purgeFind") /\ UNCHANGED <<projectVars, documentVars, matchVars>>
    BY <1>7 DEF MapImport
  <2>2. "purgeFind" \in Steps \ (OnDocument \cup {"document"})
    BY DEF Steps, Midway, OnDocument
  <2>3. /\ req' \in [Requests -> ReqRecords(nextMatch - 1)]
        /\ \A q \in Requests : q # r => req'[q] = req[q]
        /\ AttachedAt(r)'
    BY <2>1, <2>2, MovedRequest
  <2>4. req[r].doc \in uploaded /\ req[r].doc \in Docs
    BY <1>0, <1>7 DEF MapImport, AttachedAt, OnDocument
  <2>5. PICK n \in RowCounts :
          /\ nextRow + n <= MaxRows + 1
          /\ rowsOf' = [rowsOf EXCEPT ![req[r].doc] = @ \cup nextRow..(nextRow + n - 1)]
          /\ nextRow' = nextRow + n
    BY <1>7 DEF MapImport
  <2>6. n \in Nat /\ MaxRows \in Nat /\ nextRow \in 1..(MaxRows + 1)
    BY ReconciliationAssumption DEF TypeInv, RowsTyped
  <2>7. rowsOf' \in [Docs -> SUBSET (1..(nextRow' - 1))] /\ nextRow' \in 1..(MaxRows + 1)
    <3>1. 1..(nextRow - 1) \subseteq 1..(nextRow' - 1)
          /\ nextRow..(nextRow + n - 1) \subseteq 1..(nextRow' - 1)
      BY <2>5, <2>6
    <3> QED BY <2>4, <2>5, <2>6, <3>1 DEF TypeInv, RowsTyped
  <2>8. \A e \in Docs \ uploaded : rowsOf'[e] = {}
    BY <2>4, <2>5 DEF TypeInv, RowsTyped
  <2>9. RowsTyped'
    BY <2>1, <2>7, <2>8 DEF TypeInv, RowsTyped, projectVars, documentVars, matchVars
  <2> QED BY <2>1, <2>3, <2>9, StepKeeps DEF projectVars, documentVars, matchVars
<1>8. CASE PurgeFind(r)
  <2> DEFINE found == {m.id : m \in {y \in matches : Orphaned(y)}}
             x == [req[r] EXCEPT !.step = "purgeDelete", !.ids = found]
  <2>1. req' = [req EXCEPT ![r] = x]
    BY <1>0, <1>8 DEF PurgeFind
  <2>2. found \subseteq 1..(nextMatch - 1)
    BY DEF TypeInv, RowsTyped
  <2> HIDE DEF found
  <2>3. x \in ReqRecords(nextMatch - 1) /\ x.step = "purgeDelete"
    BY <1>0, <2>2 DEF ReqRecords, Steps, Midway
  <2> HIDE DEF x
  <2>4. /\ req' \in [Requests -> ReqRecords(nextMatch - 1)]
        /\ \A q \in Requests : q # r => req'[q] = req[q]
        /\ AttachedAt(r)'
    BY <2>1, <2>3, ChangedRequest DEF OnDocument, Retyping
  <2> QED BY <1>0, <1>8, <2>4, RequestStepKeeps DEF PurgeFind, projectVars
<1>9. CASE PurgeDelete(r)
  <2> DEFINE s == IF req[r].kind = "auto" THEN "plan" ELSE "setMapping"
             x == [req[r] EXCEPT !.step = s, !.ids = {}]
  <2>1. req' = [req EXCEPT ![r] = x]
    BY <1>0, <1>9 DEF PurgeDelete
  <2>2. s \in {"plan", "setMapping"} /\ s \in Steps
    BY DEF Steps, Midway
  <2> HIDE DEF s
  <2>3. x \in ReqRecords(nextMatch - 1) /\ x.step = s
    BY <1>0, <2>2 DEF ReqRecords
  <2> HIDE DEF x
  <2>4. /\ req' \in [Requests -> ReqRecords(nextMatch - 1)]
        /\ \A q \in Requests : q # r => req'[q] = req[q]
        /\ AttachedAt(r)'
    BY <2>1, <2>2, <2>3, ChangedRequest DEF OnDocument, Retyping
  <2>5. matches' \subseteq matches
    BY <1>9 DEF PurgeDelete, WithoutIds
  <2>6. RowsTyped'
    BY <1>9, <2>5 DEF PurgeDelete, TypeInv, RowsTyped, projectVars, documentVars, rowVars
  <2> QED BY <1>9, <2>4, <2>6, StepKeeps DEF PurgeDelete, projectVars, documentVars
<1>10. CASE MapSetStatus(r)
  <2>1. "idle" \in Steps \ (OnDocument \cup {"document"})
    BY DEF Steps, OnDocument
  <2>2. /\ req' \in [Requests -> ReqRecords(nextMatch - 1)]
        /\ \A q \in Requests : q # r => req'[q] = req[q]
        /\ AttachedAt(r)'
    BY <1>10, <2>1, MovedRequest DEF MapSetStatus
  <2> QED BY <1>0, <1>10, <2>2, RequestStepKeeps DEF MapSetStatus, Statuses
<1> QED BY <1>1, <1>2, <1>3, <1>4, <1>5, <1>6, <1>7, <1>8, <1>9, <1>10 DEF ImportStep

\* A change of a document's family keeps every type, whatever happens between its
\* calls (changeDocumentType.ts).
LEMMA TypeKeepsTypes ==
  ASSUME TypeInv, NEW r \in Requests, TypeStep(r)
  PROVE  TypeInv'
<1>0. /\ status \in Statuses /\ signOff \subseteq Signatures
      /\ uploaded \subseteq Docs /\ autoMap \subseteq uploaded
      /\ rowsOf \in [Docs -> SUBSET RowIds] /\ side \in [Docs -> Sides]
      /\ req \in [Requests -> ReqRecords(nextMatch - 1)]
      /\ req[r] \in ReqRecords(nextMatch - 1) /\ AttachedAt(r)
      /\ nextMatch - 1 \in Nat
  <2>1. 1..(nextRow - 1) \subseteq RowIds
    BY ReconciliationAssumption DEF TypeInv, RowsTyped, RowIds
  <2> QED BY <2>1, ReconciliationAssumption DEF TypeInv, RowsTyped, Typed, Attached
<1>1. ASSUME NEW d \in Docs, BeginType(r, d) PROVE TypeInv'
  <2> DEFINE t == Other(side[d])
             x == [Idle EXCEPT !.kind = "type", !.step = "typeRows", !.doc = d, !.to = t]
  <2>1. req' = [req EXCEPT ![r] = x] /\ d \in uploaded /\ uploaded' = uploaded
    BY <1>1 DEF BeginType, documentVars
  <2>2. t \in Sides
    <3>1. \E u \in Sides : u # side[d]
      BY DEF Sides
    <3> QED BY <3>1 DEF Other
  <2> HIDE DEF t
  <2>3. x \in ReqRecords(nextMatch - 1) /\ x.step = "typeRows" /\ x.doc = d /\ x.to = t
    BY <1>0, <1>1, <2>2 DEF ReqRecords, Idle, NoLanes, Steps, BeginType
  <2> HIDE DEF x
  <2>4. /\ req' \in [Requests -> ReqRecords(nextMatch - 1)]
        /\ \A q \in Requests : q # r => req'[q] = req[q]
        /\ AttachedAt(r)'
    BY <2>1, <2>2, <2>3, ChangedRequest DEF OnDocument, Retyping
  <2> QED BY <1>0, <1>1, <2>4, RequestStepKeeps DEF BeginType, projectVars
<1>2. CASE TypeRows(r)
  <2> DEFINE rows == rowsOf[req[r].doc]
             s == IF rows = {} THEN "flip" ELSE "typeFind"
             x == [req[r] EXCEPT !.rows = rows, !.step = s]
  <2>1. req' = [req EXCEPT ![r] = x] /\ uploaded' = uploaded /\ status' = status
    BY <1>0, <1>2 DEF TypeRows, documentVars, projectVars
  <2>2. /\ req[r].doc \in Docs /\ (status = "deleted" \/ req[r].doc \in uploaded)
        /\ req[r].to \in Sides
    BY <1>0, <1>2 DEF TypeRows, AttachedAt, OnDocument, Retyping
  <2>3. s \in {"flip", "typeFind"} /\ s \in Steps /\ rows \in SUBSET RowIds
    BY <1>0, <2>2 DEF Steps, Midway
  <2> HIDE DEF s, rows
  <2>4. x \in ReqRecords(nextMatch - 1) /\ x.step = s /\ x.doc = req[r].doc /\ x.to = req[r].to
    BY <1>0, <2>3 DEF ReqRecords
  <2> HIDE DEF x
  <2>5. /\ req' \in [Requests -> ReqRecords(nextMatch - 1)]
        /\ \A q \in Requests : q # r => req'[q] = req[q]
        /\ AttachedAt(r)'
    BY <2>1, <2>2, <2>3, <2>4, ChangedRequest DEF OnDocument, Retyping
  <2> QED BY <1>0, <1>2, <2>5, RequestStepKeeps DEF TypeRows, projectVars
<1>3. CASE TypeFind(r)
  <2> DEFINE found == {m.id : m \in {y \in matches : Items(y) \cap req[r].rows # {}}}
             x == [req[r] EXCEPT !.step = "typeDiscard", !.ids = found]
  <2>1. req' = [req EXCEPT ![r] = x] /\ uploaded' = uploaded /\ status' = status
    BY <1>0, <1>3 DEF TypeFind, documentVars, projectVars
  <2>2. /\ req[r].doc \in Docs /\ (status = "deleted" \/ req[r].doc \in uploaded)
        /\ req[r].to \in Sides
    BY <1>0, <1>3 DEF TypeFind, AttachedAt, OnDocument, Retyping
  <2>3. found \subseteq 1..(nextMatch - 1)
    BY DEF TypeInv, RowsTyped
  <2> HIDE DEF found
  <2>4. /\ x \in ReqRecords(nextMatch - 1) /\ x.step = "typeDiscard"
        /\ x.doc = req[r].doc /\ x.to = req[r].to
    BY <1>0, <2>3 DEF ReqRecords, Steps
  <2> HIDE DEF x
  <2>5. /\ req' \in [Requests -> ReqRecords(nextMatch - 1)]
        /\ \A q \in Requests : q # r => req'[q] = req[q]
        /\ AttachedAt(r)'
    BY <2>1, <2>2, <2>4, ChangedRequest DEF OnDocument, Retyping
  <2> QED BY <1>0, <1>3, <2>5, RequestStepKeeps DEF TypeFind, projectVars
<1>4. CASE TypeDiscard(r)
  <2> DEFINE x == [req[r] EXCEPT !.step = "sweep"]
  <2>1. req' = [req EXCEPT ![r] = x]
    BY <1>0, <1>4 DEF TypeDiscard
  <2>2. /\ x \in ReqRecords(nextMatch - 1) /\ x.step = "sweep"
        /\ x.doc = req[r].doc /\ x.to = req[r].to
    BY <1>0 DEF ReqRecords, Steps, Midway
  <2>3. /\ req[r].doc \in Docs /\ (status = "deleted" \/ req[r].doc \in uploaded)
        /\ req[r].to \in Sides
        /\ uploaded' = uploaded /\ status' = status /\ nextMatch' = nextMatch
    BY <1>0, <1>4 DEF TypeDiscard, AttachedAt, OnDocument, Retyping, projectVars, documentVars,
       DiscardRows
  <2> HIDE DEF x
  <2>4. /\ req' \in [Requests -> ReqRecords(nextMatch - 1)]
        /\ \A q \in Requests : q # r => req'[q] = req[q]
        /\ AttachedAt(r)'
    BY <2>1, <2>2, <2>3, ChangedRequest DEF OnDocument, Retyping
  <2>5. RowsTyped'
    BY <1>4, <2>3, DiscardTyped DEF TypeDiscard
  <2> QED BY <2>3, <2>4, <2>5, StepKeeps
<1>5. ASSUME NEW id \in MatchIds, TypeSweep(r, id) PROVE TypeInv'
  <2> DEFINE x == IF {m \in matches : m.id = id} = {}
                  THEN Idle ELSE [req[r] EXCEPT !.ids = @ \ {id}]
  <2>1. req' = [req EXCEPT ![r] = x]
    BY <1>0, <1>5 DEF TypeSweep
  <2>2. x \in ReqRecords(nextMatch - 1)
    <3>1. [req[r] EXCEPT !.ids = @ \ {id}] \in ReqRecords(nextMatch - 1)
      BY <1>0 DEF ReqRecords
    <3> QED BY <1>0, <3>1, IdleTyped
  <2>3. /\ req[r].doc \in Docs /\ (status = "deleted" \/ req[r].doc \in uploaded)
        /\ req[r].to \in Sides /\ uploaded' = uploaded /\ status' = status
    BY <1>0, <1>5 DEF TypeSweep, AttachedAt, OnDocument, Retyping, documentVars, projectVars
  <2>4. x.step = "idle" \/ (x.doc = req[r].doc /\ x.to = req[r].to)
    BY <1>0 DEF ReqRecords, Idle
  <2> HIDE DEF x
  <2>5. /\ req' \in [Requests -> ReqRecords(nextMatch - 1)]
        /\ \A q \in Requests : q # r => req'[q] = req[q]
        /\ AttachedAt(r)'
    <3>1. "idle" \notin OnDocument /\ "idle" \notin Retyping
      BY DEF OnDocument, Retyping
    <3> QED BY <2>1, <2>2, <2>3, <2>4, <3>1, ChangedRequest
  <2>6. matches' \subseteq matches
    BY <1>5 DEF TypeSweep
  <2>7. RowsTyped' /\ nextMatch' = nextMatch
    BY <1>5, <2>6 DEF TypeSweep, TypeInv, RowsTyped, projectVars, documentVars, rowVars
  <2> QED BY <2>3, <2>5, <2>7, StepKeeps
<1>6. CASE TypeFlip(r)
  <2>1. req[r].to \in Sides
    BY <1>0, <1>6 DEF TypeFlip, AttachedAt, Retyping
  <2>2. side' \in [Docs -> Sides]
    BY <1>0, <1>6, <2>1 DEF TypeFlip
  <2>3. /\ RowsTyped' /\ nextMatch' = nextMatch /\ uploaded' = uploaded /\ status' = status
    BY <1>6, <2>2 DEF TypeFlip, TypeInv, RowsTyped, projectVars, rowVars, matchVars
  <2>4. "idle" \in Steps \ (OnDocument \cup {"document"})
    BY DEF Steps, OnDocument
  <2>5. /\ req' \in [Requests -> ReqRecords(nextMatch - 1)]
        /\ \A q \in Requests : q # r => req'[q] = req[q]
        /\ AttachedAt(r)'
    BY <1>6, <2>4, MovedRequest DEF TypeFlip
  <2> QED BY <2>3, <2>5, StepKeeps
<1> QED BY <1>1, <1>2, <1>3, <1>4, <1>5, <1>6 DEF TypeStep

\* The matches of a plan have the ids from nextMatch on, one each, and the rows
\* of the plan.
LEMMA NumberedMatches ==
  ASSUME TypeInv, NEW plan \in SUBSET Links
  PROVE  /\ Cardinality(plan) \in Nat
         /\ \A m \in Numbered(plan) :
              /\ m \in [id : nextMatch..(nextMatch + Cardinality(plan) - 1),
                        type : {"one_to_one", "many"},
                        cash : SUBSET RowIds, bank : SUBSET RowIds]
              /\ Link(m.cash, m.bank) \in plan
         /\ \A m, n \in Numbered(plan) :
              m # n => m.id # n.id /\ Link(m.cash, m.bank) # Link(n.cash, n.bank)
<1> DEFINE ids == nextMatch..(nextMatch + Cardinality(plan) - 1)
           Apt(f) == \A p, q \in plan : p # q => f[p] # f[q]
           number == CHOOSE f \in [plan -> ids] : Apt(f)
           rowSets == SUBSET RowIds
           linkOf == [s \in rowSets \X rowSets |-> Link(s[1], s[2])]
<1>1. IsFiniteSet(rowSets \X rowSets)
  <2>1. 1 \in Int /\ MaxRows \in Int
    BY ReconciliationAssumption
  <2>2. IsFiniteSet(RowIds)
    BY <2>1, FS_Interval DEF RowIds
  <2>3. IsFiniteSet(rowSets)
    BY <2>2, FS_SUBSET
  <2> QED BY <2>3, FS_Product
<1>2. linkOf \in Surjection(rowSets \X rowSets, Links)
  <2>1. linkOf \in [rowSets \X rowSets -> Links]
    BY DEF Link, Links
  <2>2. ASSUME NEW l \in Links PROVE \E s \in rowSets \X rowSets : linkOf[s] = l
    <3>1. <<l.cash, l.bank>> \in rowSets \X rowSets /\ linkOf[<<l.cash, l.bank>>] = l
      BY DEF Link, Links
    <3> QED BY <3>1
  <2> QED BY <2>1, <2>2 DEF Surjection
<1>3. IsFiniteSet(plan)
  BY <1>1, <1>2, FS_Surjection, FS_Subset
<1>4. Cardinality(plan) \in Nat /\ nextMatch \in Nat
  BY <1>3, FS_CardinalityType DEF TypeInv, RowsTyped
<1>5. IsFiniteSet(ids) /\ Cardinality(ids) = Cardinality(plan)
  <2> DEFINE last == nextMatch + Cardinality(plan) - 1
  <2>1. nextMatch \in Int /\ last \in Int
    BY <1>4
  <2>2. /\ IsFiniteSet(nextMatch..last)
        /\ Cardinality(nextMatch..last) = IF nextMatch > last THEN 0 ELSE last - nextMatch + 1
    <3> HIDE DEF last
    <3> QED BY <2>1, FS_Interval
  <2>3. (IF nextMatch > last THEN 0 ELSE last - nextMatch + 1) = Cardinality(plan)
    BY <1>4
  <2> QED BY <2>2, <2>3
<1>6. \E f \in [plan -> ids] : Apt(f)
  <2>1. PICK f : f \in Bijection(plan, ids)
    BY <1>3, <1>5, FS_SameCardinalityBij DEF ExistsBijection
  <2> QED BY <2>1 DEF Bijection, Injection, IsInjective
<1>7. number \in [plan -> ids] /\ Apt(number)
  BY <1>6
<1>8. Numbered(plan) =
        {[id |-> number[p], type |-> TypeOf(p), cash |-> p.cash, bank |-> p.bank] : p \in plan}
  BY DEF Numbered
<1> HIDE DEF number
<1>9. ASSUME NEW m \in Numbered(plan)
      PROVE  \E p \in plan : /\ m = [id |-> number[p], type |-> TypeOf(p),
                                     cash |-> p.cash, bank |-> p.bank]
                             /\ p = Link(m.cash, m.bank)
  <2>1. PICK p \in plan : m = [id |-> number[p], type |-> TypeOf(p),
                               cash |-> p.cash, bank |-> p.bank]
    BY <1>8, <1>9
  <2> QED BY <2>1 DEF Links, Link
<1>10. ASSUME NEW m \in Numbered(plan)
       PROVE  /\ m \in [id : ids, type : {"one_to_one", "many"}, cash : rowSets, bank : rowSets]
              /\ Link(m.cash, m.bank) \in plan
  <2>1. PICK p \in plan : /\ m = [id |-> number[p], type |-> TypeOf(p),
                                  cash |-> p.cash, bank |-> p.bank]
                          /\ p = Link(m.cash, m.bank)
    BY <1>9
  <2>2. TypeOf(p) \in {"one_to_one", "many"} /\ number[p] \in ids
    BY <1>7 DEF TypeOf
  <2> QED BY <2>1, <2>2 DEF Links
<1>11. ASSUME NEW m \in Numbered(plan), NEW n \in Numbered(plan), m # n
       PROVE  m.id # n.id /\ Link(m.cash, m.bank) # Link(n.cash, n.bank)
  <2>1. PICK p \in plan : /\ m = [id |-> number[p], type |-> TypeOf(p),
                                  cash |-> p.cash, bank |-> p.bank]
                          /\ p = Link(m.cash, m.bank)
    BY <1>9
  <2>2. PICK q \in plan : /\ n = [id |-> number[q], type |-> TypeOf(q),
                                  cash |-> q.cash, bank |-> q.bank]
                          /\ q = Link(n.cash, n.bank)
    BY <1>9
  <2>3. p # q
    BY <1>11, <2>1, <2>2
  <2> QED BY <1>7, <2>1, <2>2, <2>3
<1> QED BY <1>4, <1>10, <1>11

\* Ids once given out stay given out.
LEMMA EarlierIds ==
  ASSUME NEW a \in Nat, NEW b \in Nat, a <= b
  PROVE  1..(a - 1) \subseteq 1..(b - 1)
  OBVIOUS

\* What the transaction of WriteMatches leaves.
LEMMA WrittenTyped ==
  ASSUME TypeInv, NEW plan \in SUBSET Links,
         nextMatch + Cardinality(plan) <= MaxMatches + 1,
         matches' = matches \cup Numbered(plan),
         nextMatch' = nextMatch + Cardinality(plan),
         status' \in Statuses, UNCHANGED <<signOff, documentVars, rowVars>>
  PROVE  RowsTyped' /\ nextMatch \in Nat /\ nextMatch' \in Nat /\ nextMatch <= nextMatch'
<1>1. /\ Cardinality(plan) \in Nat /\ nextMatch \in Nat /\ MaxMatches \in Nat
      /\ nextMatch \in 1..(MaxMatches + 1)
  BY NumberedMatches, ReconciliationAssumption DEF TypeInv, RowsTyped
<1>2. nextMatch' \in 1..(MaxMatches + 1) /\ nextMatch <= nextMatch'
  BY <1>1
<1> DEFINE Row(ids) == [id : ids, type : {"one_to_one", "many"},
                        cash : SUBSET RowIds, bank : SUBSET RowIds]
           old == 1..(nextMatch - 1)
           new == nextMatch..(nextMatch + Cardinality(plan) - 1)
           all == 1..(nextMatch' - 1)
<1>3. old \subseteq all /\ new \subseteq all
  BY <1>1
<1>4. matches \subseteq Row(old) /\ Numbered(plan) \subseteq Row(new)
  BY NumberedMatches DEF TypeInv, RowsTyped
<1>5. matches' \subseteq Row(all)
  <2> HIDE DEF old, new, all
  <2> QED BY <1>3, <1>4
<1>6. UNCHANGED <<signOff, uploaded, autoMap, side, rowsOf, nextRow>>
  BY DEF documentVars, rowVars
<1>7. RowsTyped'
  BY <1>2, <1>5, <1>6 DEF TypeInv, RowsTyped
<1> QED BY <1>1, <1>2, <1>7

\* What a handler may plan are matches of rows, no two of which share a row.
LEMMA PlansAreLinks ==
  ASSUME TypeInv
  PROVE  /\ AllRows \subseteq RowIds
         /\ \A ds \in SUBSET Docs : RowsIn(ds) \subseteq RowIds
         /\ \A cash, bank \in SUBSET RowIds : Pairs(cash, bank) \subseteq Links
         /\ \A plan \in Payloads : plan \in SUBSET Links /\ Apart(plan)
<1>1. rowsOf \in [Docs -> SUBSET RowIds]
  <2>1. 1..(nextRow - 1) \subseteq RowIds
    BY ReconciliationAssumption DEF TypeInv, RowsTyped, RowIds
  <2> QED BY <2>1 DEF TypeInv, RowsTyped
<1>2. AllRows \subseteq RowIds
  BY <1>1 DEF AllRows
<1>3. \A ds \in SUBSET Docs : RowsIn(ds) \subseteq RowIds
  BY <1>1 DEF RowsIn
<1>4. ASSUME NEW cash \in SUBSET RowIds, NEW bank \in SUBSET RowIds
      PROVE  Pairs(cash, bank) \subseteq Links
  BY DEF Pairs, Links, Link
<1>5. ASSUME NEW plan \in Payloads PROVE plan \in SUBSET Links /\ Apart(plan)
  <2> DEFINE two == {p \in Pairs(AllRows, AllRows) : Cardinality(Items(p)) = 2}
             several == {l \in [cash : SUBSET AllRows, bank : SUBSET AllRows] :
                           l.cash \cap l.bank = {} /\ Cardinality(Items(l)) > 2}
  <2>1. CASE plan \in SUBSET two /\ Apart(plan)
    BY <2>1, <1>2, <1>4
  <2>2. CASE plan \in {{p} : p \in several}
    <3>1. PICK p \in several : plan = {p}
      BY <2>2
    <3>2. p \in Links
      BY <1>2 DEF Links
    <3> QED BY <3>1, <3>2 DEF Apart
  <2> QED BY <1>5, <2>1, <2>2 DEF Payloads
<1> QED BY <1>2, <1>3, <1>4, <1>5

\* The matching handlers keep every type (reconcile.ts, autoCompleteMatching.ts).
LEMMA MatchKeepsTypes ==
  ASSUME TypeInv, NEW r \in Requests, MatchStep(r)
  PROVE  TypeInv'
<1>0. /\ status \in Statuses /\ signOff \subseteq Signatures /\ uploaded \subseteq Docs
      /\ req \in [Requests -> ReqRecords(nextMatch - 1)]
      /\ req[r] \in ReqRecords(nextMatch - 1)
      /\ nextMatch - 1 \in Nat
  BY ReconciliationAssumption DEF TypeInv, RowsTyped, Typed, Attached
<1> DEFINE Free == Steps \ (OnDocument \cup {"document"})
           Kept == /\ req' \in [Requests -> ReqRecords(nextMatch - 1)]
                   /\ \A q \in Requests : q # r => req'[q] = req[q]
                   /\ AttachedAt(r)'
<1>1. ASSUME NEW k \in {"match", "unmatch", "clear"}, NEW s \in {"check", "findMatch", "clear"},
             Receive(r, k, s, NoDoc),
             UNCHANGED <<projectVars, documentVars, rowVars, matchVars>>
      PROVE  TypeInv'
  <2>1. s \in Steps \ Retyping /\ s \notin OnDocument \cup {"document"}
    BY DEF Steps, Retyping, OnDocument
  <2>2. uploaded' = uploaded /\ status' = status /\ signOff' = signOff
    BY <1>1 DEF documentVars, projectVars
  <2>3. Kept
    BY <1>1, <2>1, <2>2, StartedRequest
  <2> QED BY <1>0, <1>1, <2>2, <2>3, RequestStepKeeps
<1>2. CASE BeginMatch(r) \/ BeginUnmatch(r) \/ BeginClear(r)
  BY <1>1, <1>2 DEF BeginMatch, BeginUnmatch, BeginClear
<1>3. ASSUME NEW x \in ReqRecords(nextMatch - 1), x.step \in Free, req' = [req EXCEPT ![r] = x]
      PROVE  Kept
  <2>1. x.step \notin OnDocument /\ x.step # "document" /\ x.step \notin Retyping
    BY <1>3 DEF OnDocument, Retyping
  <2> QED BY <1>3, <2>1, ChangedRequest
<1>4. {"idle", "write", "recheck", "purgeFind", "remove", "plan"} \subseteq Free
  BY DEF Steps, Midway, OnDocument
<1> HIDE DEF Free
<1>5. Idle \in ReqRecords(nextMatch - 1) /\ Idle.step = "idle"
  BY <1>0, IdleTyped DEF Idle
<1>6. CASE CheckMatch(r)
  <2>1. PICK plan \in Payloads : req' = [req EXCEPT ![r].step = "write", ![r].plan = plan]
    BY <1>6 DEF CheckMatch
  <2> DEFINE x == [req[r] EXCEPT !.step = "write", !.plan = plan]
  <2>2. plan \in SUBSET Links
    BY PlansAreLinks
  <2>3. x \in ReqRecords(nextMatch - 1) /\ x.step = "write" /\ req' = [req EXCEPT ![r] = x]
    BY <1>0, <2>1, <2>2 DEF ReqRecords, Steps
  <2>4. Kept
    <3> HIDE DEF x
    <3> QED BY <2>3, <1>3, <1>4
  <2> QED BY <1>0, <1>6, <2>4, RequestStepKeeps DEF CheckMatch, projectVars
<1>7. CASE BeginAuto(r)
  <2> DEFINE x == [Idle EXCEPT !.kind = "auto", !.step = "purgeFind",
                               !.lanes = [cash |-> On("cash_book"), bank |-> On("bank")]]
  <2>1. On("cash_book") \subseteq Docs /\ On("bank") \subseteq Docs
    BY <1>0 DEF On
  <2>2. x \in ReqRecords(nextMatch - 1) /\ x.step = "purgeFind" /\ req' = [req EXCEPT ![r] = x]
    BY <1>0, <1>7, <2>1 DEF ReqRecords, Idle, Steps, Midway, BeginAuto
  <2>3. Kept
    <3> HIDE DEF x
    <3> QED BY <2>2, <1>3, <1>4
  <2> QED BY <1>0, <1>7, <2>3, RequestStepKeeps DEF BeginAuto, projectVars
<1>8. CASE PlanRound(r)
  <2> DEFINE cash == RowsIn(req[r].lanes.cash) \ Matched
             bank == RowsIn(req[r].lanes.bank) \ Matched
  <2>1. PICK plan \in SUBSET Pairs(cash, bank) :
             req' = [req EXCEPT ![r].step = "recheck", ![r].plan = plan]
    BY <1>8 DEF PlanRound
  <2> DEFINE x == [req[r] EXCEPT !.step = "recheck", !.plan = plan]
  <2>2. req[r].lanes.cash \subseteq Docs /\ req[r].lanes.bank \subseteq Docs
    BY <1>0 DEF ReqRecords
  <2>3. cash \in SUBSET RowIds /\ bank \in SUBSET RowIds
    BY <2>2, PlansAreLinks
  <2>4. plan \in SUBSET Links
    BY <2>1, <2>3, PlansAreLinks
  <2>5. x \in ReqRecords(nextMatch - 1) /\ x.step = "recheck" /\ req' = [req EXCEPT ![r] = x]
    BY <1>0, <2>1, <2>4 DEF ReqRecords, Steps
  <2>6. Kept
    <3> HIDE DEF x
    <3> QED BY <2>5, <1>3, <1>4
  <2> QED BY <1>0, <1>8, <2>6, RequestStepKeeps DEF PlanRound, projectVars
<1>9. CASE Recheck(r)
  <2> DEFINE there == {p \in req[r].plan : Items(p) \subseteq AllRows}
             y == [req[r] EXCEPT !.step = "write", !.plan = there]
             x == IF there = {} \/ ItemsOf(req[r].plan) \cap Matched # {} THEN Idle ELSE y
  <2>1. req' = [req EXCEPT ![r] = x]
    BY <1>0, <1>9 DEF Recheck
  <2>2. y \in ReqRecords(nextMatch - 1) /\ y.step = "write"
    BY <1>0 DEF ReqRecords, Steps
  <2>3. x \in ReqRecords(nextMatch - 1) /\ x.step \in {"idle", "write"}
    <3> HIDE DEF y, there
    <3> QED BY <1>5, <2>2
  <2>4. Kept
    <3> HIDE DEF x
    <3> QED BY <2>1, <2>3, <1>3, <1>4
  <2> QED BY <1>0, <1>9, <2>4, RequestStepKeeps DEF Recheck, projectVars
<1>10. CASE WriteMatches(r)
  <2> DEFINE plan == req[r].plan
             y == [req[r] EXCEPT !.step = "plan", !.plan = {}]
             x == IF req[r].kind = "auto" THEN y ELSE Idle
             writes == ItemsOf(plan) \subseteq AllRows \ Matched /\ status # "deleted"
  <2>1. y \in ReqRecords(nextMatch - 1) /\ y.step = "plan"
    BY <1>0 DEF ReqRecords, Steps
  <2>2. x \in ReqRecords(nextMatch - 1) /\ x.step \in {"idle", "plan"}
    <3> HIDE DEF y
    <3> QED BY <1>5, <2>1
  <2>3. CASE writes
    <3>1. req' = [req EXCEPT ![r] = x]
      BY <1>0, <1>10, <2>3 DEF WriteMatches
    <3>2. Kept
      <4> HIDE DEF x
      <4> QED BY <2>2, <3>1, <1>3, <1>4
    <3>3. plan \in SUBSET Links
      BY <1>0 DEF ReqRecords
    <3>4. /\ nextMatch + Cardinality(plan) <= MaxMatches + 1
          /\ matches' = matches \cup Numbered(plan)
          /\ nextMatch' = nextMatch + Cardinality(plan)
          /\ status' = "reconciling" /\ status # "deleted"
          /\ UNCHANGED <<signOff, documentVars, rowVars>> /\ uploaded' = uploaded
      BY <1>10, <2>3 DEF WriteMatches, documentVars
    <3>5. status' \in Statuses
      BY <3>4 DEF Statuses
    <3>6. RowsTyped' /\ nextMatch \in Nat /\ nextMatch' \in Nat /\ nextMatch <= nextMatch'
      <4> HIDE DEF plan
      <4> QED BY <3>3, <3>4, <3>5, WrittenTyped
    <3>7. 1..(nextMatch - 1) \subseteq 1..(nextMatch' - 1)
      BY <3>6, EarlierIds
    <3>8. req' \in [Requests -> ReqRecords(nextMatch' - 1)]
      <4>1. SUBSET (1..(nextMatch - 1)) \subseteq SUBSET (1..(nextMatch' - 1))
        BY <3>7
      <4>2. ReqRecords(nextMatch - 1) \subseteq ReqRecords(nextMatch' - 1)
        BY <4>1 DEF ReqRecords
      <4> QED BY <3>2, <4>2
    <3> QED BY <3>2, <3>4, <3>6, <3>8, StepKeeps
  <2>4. CASE ~writes
    <3>1. req' = [req EXCEPT ![r] = Idle] /\ UNCHANGED <<projectVars, documentVars, rowVars, matchVars>>
      BY <1>10, <2>4 DEF WriteMatches, projectVars
    <3>2. Kept
      BY <3>1, <1>3, <1>4, <1>5
    <3> QED BY <1>0, <3>1, <3>2, RequestStepKeeps DEF projectVars
  <2> QED BY <2>3, <2>4
<1>11. CASE FindMatch(r)
  <2>1. PICK m \in matches : req' = [req EXCEPT ![r].step = "remove", ![r].ids = {m.id}]
    BY <1>11 DEF FindMatch
  <2> DEFINE x == [req[r] EXCEPT !.step = "remove", !.ids = {m.id}]
  <2>2. m.id \in 1..(nextMatch - 1)
    BY DEF TypeInv, RowsTyped
  <2>3. x \in ReqRecords(nextMatch - 1) /\ x.step = "remove" /\ req' = [req EXCEPT ![r] = x]
    BY <1>0, <2>1, <2>2 DEF ReqRecords, Steps
  <2>4. Kept
    <3> HIDE DEF x
    <3> QED BY <2>3, <1>3, <1>4
  <2> QED BY <1>0, <1>11, <2>4, RequestStepKeeps DEF FindMatch, projectVars
<1>12. CASE RemoveMatch(r) \/ ClearMatches(r)
  <2>1. /\ matches' \subseteq matches /\ req' = [req EXCEPT ![r] = Idle] /\ nextMatch' = nextMatch
        /\ UNCHANGED <<projectVars, documentVars, rowVars>>
    BY <1>12 DEF RemoveMatch, ClearMatches, WithoutIds
  <2>2. Kept
    BY <2>1, <1>3, <1>4, <1>5
  <2>3. RowsTyped'
    BY <2>1 DEF TypeInv, RowsTyped, projectVars, documentVars, rowVars
  <2> QED BY <2>1, <2>2, <2>3, StepKeeps DEF projectVars, documentVars
<1> QED BY <1>2, <1>6, <1>7, <1>8, <1>9, <1>10, <1>11, <1>12 DEF MatchStep

\* The types survive every step.
LEMMA NextTypeInv == TypeInv /\ [Next]_vars => TypeInv'
<1>1. ASSUME TypeInv, Next PROVE TypeInv'
  BY <1>1, GiveUpKeepsTypes, ReviewKeepsTypes, ImportKeepsTypes, TypeKeepsTypes, MatchKeepsTypes
     DEF Next
<1>2. ASSUME TypeInv, UNCHANGED vars PROVE TypeInv'
  BY <1>2 DEF vars, projectVars, documentVars, rowVars, matchVars, TypeInv, RowsTyped, Typed,
     Attached, AttachedAt
<1> QED BY <1>1, <1>2

\* In every behaviour.
LEMMA TypeInvariant == Spec => []TypeInv
  BY InitTypeInv, NextTypeInv, PTL DEF Spec

\* However many handlers and jobs overlap and wherever they die, the database and
\* the handlers keep their types: no handler holds the id of a match that was
\* never made, and no row belongs to a document that is gone.
THEOREM ReconciliationTypes == Spec => []TypeOK
  BY TypeInvariant, TypeInvType, PTL

-----------------------------------------------------------------------------
(* MatchesSound needs to know that the matches a handler has planned share *)
(* no row either: the unique index compares them only with those there.    *)

PlansApart == \A r \in Requests : Apart(req[r].plan)

SoundInv == MatchesSound /\ PlansApart

\* A new project has no matches.
LEMMA InitSound == Init => SoundInv
  BY DEF Init, SoundInv, MatchesSound, PlansApart, Apart, Idle, Matched, ItemsOf

\* Matches go, rows come.
LEMMA FewerMatchesSound ==
  ASSUME MatchesSound, matches' \subseteq matches, AllRows \subseteq AllRows'
  PROVE  MatchesSound'
  BY DEF MatchesSound, Matched, ItemsOf

\* The cascade of DiscardRows takes a row's items with it.
LEMMA DiscardSound ==
  ASSUME TypeInv, MatchesSound, NEW d \in Docs, DiscardRows(d)
  PROVE  MatchesSound'
<1> DEFINE gone == rowsOf[d]
           Less(m) == [m EXCEPT !.cash = @ \ gone, !.bank = @ \ gone]
<1>1. \A m \in matches : Less(m).id = m.id /\ Items(Less(m)) = Items(m) \ gone
  BY DEF TypeInv, RowsTyped, Items
<1>2. matches' = {Less(m) : m \in matches}
  BY DEF DiscardRows, WithoutRows
<1>3. AllRows' = AllRows \ gone \/ AllRows \ gone \subseteq AllRows'
  <2>1. rowsOf' = [rowsOf EXCEPT ![d] = {}] /\ DOMAIN rowsOf = Docs
    BY DEF DiscardRows, TypeInv, RowsTyped
  <2> QED BY <2>1 DEF AllRows
<1> HIDE DEF Less, gone
<1>4. ASSUME NEW m \in matches', NEW n \in matches', m # n
      PROVE  m.id # n.id /\ Items(m) \cap Items(n) = {}
  <2>1. PICK x \in matches : m = Less(x)
    BY <1>2
  <2>2. PICK y \in matches : n = Less(y)
    BY <1>2
  <2>3. x # y
    BY <1>4, <2>1, <2>2
  <2> QED BY <1>1, <2>1, <2>2, <2>3 DEF MatchesSound
<1>5. Matched' \subseteq AllRows'
  <2>1. ASSUME NEW m \in matches' PROVE Items(m) \subseteq AllRows'
    <3>1. PICK x \in matches : m = Less(x)
      BY <1>2
    <3>2. Items(x) \subseteq AllRows
      BY DEF MatchesSound, Matched, ItemsOf
    <3> QED BY <1>1, <1>3, <3>1, <3>2
  <2> QED BY <2>1 DEF Matched, ItemsOf
<1> QED BY <1>4, <1>5 DEF MatchesSound

\* The transaction of WriteMatches adds matches of rows that no match has.
LEMMA WriteSound ==
  ASSUME TypeInv, MatchesSound, NEW plan \in SUBSET Links, Apart(plan),
         ItemsOf(plan) \subseteq AllRows \ Matched,
         matches' = matches \cup Numbered(plan), rowsOf' = rowsOf
  PROVE  MatchesSound'
<1> DEFINE new == Numbered(plan)
<1>0. \A m \in new : Items(Link(m.cash, m.bank)) = Items(m)
  BY DEF Link, Items
<1>1. \A m \in new : Items(m) \subseteq ItemsOf(plan)
  BY <1>0, NumberedMatches DEF ItemsOf
<1>2. \A m, n \in new : m # n => m.id # n.id /\ Items(m) \cap Items(n) = {}
  BY <1>0, NumberedMatches DEF Apart
<1>3. \A m \in matches, n \in new : m.id # n.id /\ Items(m) \cap Items(n) = {}
  <2>1. \A m \in matches : m.id \in 1..(nextMatch - 1)
    BY DEF TypeInv, RowsTyped
  <2>2. \A n \in new : n.id \in nextMatch..(nextMatch + Cardinality(plan) - 1)
    BY NumberedMatches
  <2>3. nextMatch \in Nat /\ Cardinality(plan) \in Nat
    BY NumberedMatches DEF TypeInv, RowsTyped
  <2>4. \A m \in matches, n \in new : m.id # n.id
    BY <2>1, <2>2, <2>3
  <2>5. \A m \in matches : Items(m) \subseteq Matched
    BY DEF Matched, ItemsOf
  <2> QED BY <1>1, <2>4, <2>5
<1>4. AllRows' = AllRows
  BY DEF AllRows
<1>5. Matched' \subseteq AllRows
  <2>1. Matched' = Matched \cup ItemsOf(new)
    BY DEF Matched, ItemsOf
  <2>2. ItemsOf(new) \subseteq ItemsOf(plan)
    BY <1>1 DEF ItemsOf
  <2> QED BY <2>1, <2>2 DEF MatchesSound
<1> QED BY <1>2, <1>3, <1>4, <1>5 DEF MatchesSound

\* A step of request r that plans nothing.
LEMMA PlanKept ==
  ASSUME PlansApart, NEW r \in Requests,
         \A q \in Requests : q # r => req'[q] = req[q],
         req'[r].plan = req[r].plan \/ req'[r].plan = {} \/ Apart(req'[r].plan)
  PROVE  PlansApart'
<1>1. Apart(req'[r].plan)
  BY DEF PlansApart, Apart
<1> QED BY <1>1 DEF PlansApart, Apart

\* Apart from the planning and the writing of matches, no step plans any, and no
\* step but the discarding of rows takes rows or adds matches.
LEMMA StepKeepsSound ==
  ASSUME TypeInv, SoundInv, NEW r \in Requests,
         GiveUp(r) \/ ReviewStep(r) \/ ImportStep(r) \/ TypeStep(r)
  PROVE  SoundInv'
<1> DEFINE Rec == ReqRecords(nextMatch - 1)
<1>0. req \in [Requests -> Rec] /\ req[r] \in Rec
  BY DEF TypeInv, Typed
<1> DEFINE Quiet == /\ \A q \in Requests : q # r => req'[q] = req[q]
                    /\ req'[r].plan = req[r].plan \/ req'[r].plan = {}
<1>1. Idle.plan = {}
  BY DEF Idle
<1>2. ASSUME Finish(r) PROVE Quiet
  BY <1>0, <1>1, <1>2
<1>3. ASSUME NEW s, Goto(r, s) PROVE Quiet
  BY <1>0, <1>3 DEF ReqRecords
<1>4. ASSUME NEW k, NEW s, NEW d, Start(r, k, s, d) PROVE Quiet
  BY <1>0, <1>4 DEF ReqRecords
<1>5. ASSUME NEW s, NEW rows, req' = [req EXCEPT ![r].rows = rows, ![r].step = s] PROVE Quiet
  BY <1>0, <1>5 DEF ReqRecords
<1>6. ASSUME NEW s, NEW ids, req' = [req EXCEPT ![r].step = s, ![r].ids = ids] PROVE Quiet
  BY <1>0, <1>6 DEF ReqRecords
<1>7. ASSUME NEW ids, req' = [req EXCEPT ![r].ids = ids] PROVE Quiet
  BY <1>0, <1>7 DEF ReqRecords
<1>8. ASSUME NEW x, x.plan = {}, req' = [req EXCEPT ![r] = x] PROVE Quiet
  BY <1>0, <1>8
<1>9. ASSUME Quiet PROVE PlansApart'
  BY <1>9, PlanKept DEF SoundInv
<1> HIDE DEF Quiet
<1>10. CASE GiveUp(r)
  <2>1. Quiet /\ matches' = matches /\ rowsOf' = rowsOf
    BY <1>2, <1>10 DEF GiveUp, rowVars, matchVars
  <2> QED BY <1>9, <2>1, FewerMatchesSound DEF SoundInv, AllRows
<1>11. CASE ReviewStep(r)
  <2>1. Quiet
    <3>1. CASE BeginSubmit(r) \/ BeginApprove(r) \/ BeginReopen(r) \/ BeginUndo(r) \/ BeginDelete(r)
      <4>1. PICK k, s : Start(r, k, s, NoDoc)
        BY <3>1 DEF BeginSubmit, BeginApprove, BeginReopen, BeginUndo, BeginDelete
      <4> QED BY <1>4, <4>1
    <3>2. CASE Submit(r) \/ Approve(r) \/ Reopen(r) \/ Undo(r) \/ DeleteProject(r)
      BY <1>2, <3>2 DEF Submit, Approve, Reopen, Undo, DeleteProject
    <3> QED BY <1>11, <3>1, <3>2 DEF ReviewStep
  <2>2. matches' = {} \/ (matches' = matches /\ rowsOf' = rowsOf)
    BY <1>11 DEF ReviewStep, BeginSubmit, Submit, BeginApprove, Approve, BeginReopen,
       Reopen, BeginUndo, Undo, BeginDelete, DeleteProject, rowVars, matchVars
  <2>3. CASE matches' = {}
    BY <1>9, <2>1, <2>3 DEF SoundInv, MatchesSound, Matched, ItemsOf
  <2>4. CASE matches' = matches /\ rowsOf' = rowsOf
    BY <1>9, <2>1, <2>4, FewerMatchesSound DEF SoundInv, AllRows
  <2> QED BY <2>2, <2>3, <2>4
<1>12. CASE ImportStep(r)
  <2>1. ASSUME NEW d \in Docs, BeginUpload(r, d) \/ BeginJob(r, d) \/ BeginMap(r, d) PROVE SoundInv'
    <3>1. Quiet /\ matches' = matches /\ rowsOf' = rowsOf
      BY <1>4, <2>1 DEF BeginUpload, BeginJob, BeginMap, rowVars, matchVars
    <3> QED BY <1>9, <3>1, FewerMatchesSound DEF SoundInv, AllRows
  <2>2. CASE CreateDocument(r) \/ CorrectType(r) \/ MapSetStatus(r)
    <3>1. Quiet /\ matches' = matches /\ rowsOf' = rowsOf
      BY <1>2, <1>3, <2>2 DEF CreateDocument, CorrectType, MapSetStatus, rowVars, matchVars
    <3> QED BY <1>9, <3>1, FewerMatchesSound DEF SoundInv, AllRows
  <2>3. CASE MapDiscard(r)
    <3>1. Quiet /\ DiscardRows(req[r].doc) /\ req[r].doc \in Docs
      BY <1>3, <2>3 DEF MapDiscard, TypeInv, Attached, AttachedAt, OnDocument
    <3> QED BY <1>9, <3>1, DiscardSound DEF SoundInv
  <2>4. CASE MapImport(r)
    <3>1. Quiet /\ matches' = matches
      BY <1>3, <2>4 DEF MapImport, matchVars
    <3>2. AllRows \subseteq AllRows'
      <4>1. DOMAIN rowsOf = Docs
        BY DEF TypeInv, RowsTyped
      <4>2. PICK new : rowsOf' = [rowsOf EXCEPT ![req[r].doc] = @ \cup new]
        BY <2>4 DEF MapImport
      <4>3. \A e \in Docs : rowsOf[e] \subseteq rowsOf'[e]
        BY <4>1, <4>2
      <4> QED BY <4>3 DEF AllRows
    <3> QED BY <1>9, <3>1, <3>2, FewerMatchesSound DEF SoundInv
  <2>5. CASE PurgeFind(r) \/ PurgeDelete(r)
    <3>1. Quiet
      BY <1>6, <2>5 DEF PurgeFind, PurgeDelete
    <3>2. matches' \subseteq matches /\ rowsOf' = rowsOf
      BY <2>5 DEF PurgeFind, PurgeDelete, WithoutIds, rowVars, matchVars
    <3> QED BY <1>9, <3>1, <3>2, FewerMatchesSound DEF SoundInv, AllRows
  <2> QED BY <1>12, <2>1, <2>2, <2>3, <2>4, <2>5 DEF ImportStep
<1>13. CASE TypeStep(r)
  <2>1. ASSUME NEW d \in Docs, BeginType(r, d) PROVE SoundInv'
    <3>1. Quiet
      BY <1>8, <2>1 DEF BeginType, Idle
    <3>2. matches' = matches /\ rowsOf' = rowsOf
      BY <2>1 DEF BeginType, rowVars, matchVars
    <3> QED BY <1>9, <3>1, <3>2, FewerMatchesSound DEF SoundInv, AllRows
  <2>2. CASE TypeRows(r) \/ TypeFind(r) \/ TypeFlip(r)
    <3>1. Quiet
      BY <1>2, <1>5, <1>6, <2>2 DEF TypeRows, TypeFind, TypeFlip
    <3>2. matches' = matches /\ rowsOf' = rowsOf
      BY <2>2 DEF TypeRows, TypeFind, TypeFlip, rowVars, matchVars
    <3> QED BY <1>9, <3>1, <3>2, FewerMatchesSound DEF SoundInv, AllRows
  <2>3. CASE TypeDiscard(r)
    <3>1. Quiet /\ DiscardRows(req[r].doc) /\ req[r].doc \in Docs
      BY <1>3, <2>3 DEF TypeDiscard, TypeInv, Attached, AttachedAt, OnDocument
    <3> QED BY <1>9, <3>1, DiscardSound DEF SoundInv
  <2>4. ASSUME NEW id \in MatchIds, TypeSweep(r, id) PROVE SoundInv'
    <3>1. Quiet
      BY <1>2, <1>7, <2>4 DEF TypeSweep
    <3>2. matches' \subseteq matches /\ rowsOf' = rowsOf
      BY <2>4 DEF TypeSweep, rowVars
    <3> QED BY <1>9, <3>1, <3>2, FewerMatchesSound DEF SoundInv, AllRows
  <2> QED BY <1>13, <2>1, <2>2, <2>3, <2>4 DEF TypeStep
<1> QED BY <1>10, <1>11, <1>12, <1>13

\* The matching handlers plan matches that share no row, and write them whole.
LEMMA MatchKeepsSound ==
  ASSUME TypeInv, SoundInv, NEW r \in Requests, MatchStep(r)
  PROVE  SoundInv'
<1>0. req \in [Requests -> ReqRecords(nextMatch - 1)] /\ req[r] \in ReqRecords(nextMatch - 1)
  BY DEF TypeInv, Typed
<1> DEFINE Others == \A q \in Requests : q # r => req'[q] = req[q]
<1>1. Idle.plan = {}
  BY DEF Idle
<1>2. ASSUME req' = [req EXCEPT ![r] = Idle] PROVE PlansApart'
  BY <1>0, <1>1, <1>2, PlanKept DEF SoundInv
<1>3. ASSUME NEW k, NEW s, NEW d, Start(r, k, s, d) PROVE PlansApart'
  <2>1. Others /\ req'[r].plan = req[r].plan
    BY <1>0, <1>3 DEF ReqRecords
  <2> QED BY <2>1, PlanKept DEF SoundInv
<1>4. ASSUME NEW s, NEW plan, Apart(plan),
             req' = [req EXCEPT ![r].step = s, ![r].plan = plan]
      PROVE  PlansApart'
  <2>1. Others /\ req'[r].plan = plan
    BY <1>0, <1>4 DEF ReqRecords
  <2> QED BY <1>4, <2>1, PlanKept DEF SoundInv
<1>5. ASSUME matches' \subseteq matches, rowsOf' = rowsOf PROVE MatchesSound'
  BY <1>5, FewerMatchesSound DEF SoundInv, AllRows
<1>6. CASE BeginMatch(r) \/ BeginUnmatch(r) \/ BeginClear(r)
  BY <1>3, <1>5, <1>6 DEF BeginMatch, BeginUnmatch, BeginClear, rowVars, matchVars, SoundInv
<1>7. CASE CheckMatch(r)
  <2>1. PICK plan \in Payloads : req' = [req EXCEPT ![r].step = "write", ![r].plan = plan]
    BY <1>7 DEF CheckMatch
  <2>2. Apart(plan)
    BY PlansAreLinks
  <2> QED BY <1>4, <1>5, <1>7, <2>1, <2>2 DEF CheckMatch, rowVars, matchVars, SoundInv
<1>8. CASE BeginAuto(r)
  <2>1. Others /\ req'[r].plan = {}
    BY <1>0, <1>8 DEF BeginAuto, Idle
  <2> QED BY <1>5, <1>8, <2>1, PlanKept DEF BeginAuto, rowVars, matchVars, SoundInv
<1>9. CASE PlanRound(r)
  <2>1. PICK plan : Apart(plan) /\ req' = [req EXCEPT ![r].step = "recheck", ![r].plan = plan]
    BY <1>9 DEF PlanRound
  <2> QED BY <1>4, <1>5, <1>9, <2>1 DEF PlanRound, rowVars, matchVars, SoundInv
<1>10. CASE Recheck(r)
  <2> DEFINE there == {p \in req[r].plan : Items(p) \subseteq AllRows}
  <2>1. Apart(there)
    BY DEF SoundInv, PlansApart, Apart
  <2>2. PlansApart'
    <3>1. \/ req' = [req EXCEPT ![r] = Idle]
          \/ req' = [req EXCEPT ![r].step = "write", ![r].plan = there]
      BY <1>10 DEF Recheck
    <3> HIDE DEF there
    <3> QED BY <1>2, <1>4, <2>1, <3>1
  <2> QED BY <1>5, <1>10, <2>2 DEF Recheck, rowVars, matchVars, SoundInv
<1>11. CASE WriteMatches(r)
  <2> DEFINE plan == req[r].plan
             writes == ItemsOf(plan) \subseteq AllRows \ Matched /\ status # "deleted"
  <2>1. CASE writes
    <3>1. /\ matches' = matches \cup Numbered(plan) /\ rowsOf' = rowsOf
          /\ req' = [req EXCEPT ![r] = IF @.kind = "auto"
                                       THEN [@ EXCEPT !.step = "plan", !.plan = {}] ELSE Idle]
      BY <1>11, <2>1 DEF WriteMatches, rowVars
    <3>2. plan \in SUBSET Links /\ Apart(plan)
      BY <1>0 DEF ReqRecords, SoundInv, PlansApart
    <3>3. MatchesSound'
      <4> HIDE DEF plan
      <4> QED BY <2>1, <3>1, <3>2, WriteSound DEF SoundInv
    <3>4. Others /\ req'[r].plan = {}
      BY <1>0, <1>1, <3>1 DEF ReqRecords
    <3> QED BY <3>3, <3>4, PlanKept DEF SoundInv
  <2>2. CASE ~writes
    <3>1. req' = [req EXCEPT ![r] = Idle] /\ matches' = matches /\ rowsOf' = rowsOf
      BY <1>11, <2>2 DEF WriteMatches, rowVars, matchVars
    <3> QED BY <1>2, <1>5, <3>1 DEF SoundInv
  <2> QED BY <2>1, <2>2
<1>12. CASE FindMatch(r)
  <2>1. PICK ids : req' = [req EXCEPT ![r].step = "remove", ![r].ids = ids]
    BY <1>12 DEF FindMatch
  <2>2. Others /\ req'[r].plan = req[r].plan
    BY <1>0, <2>1 DEF ReqRecords
  <2> QED BY <1>5, <1>12, <2>2, PlanKept DEF FindMatch, rowVars, matchVars, SoundInv
<1>13. CASE RemoveMatch(r) \/ ClearMatches(r)
  <2>1. matches' \subseteq matches /\ rowsOf' = rowsOf /\ req' = [req EXCEPT ![r] = Idle]
    BY <1>13 DEF RemoveMatch, ClearMatches, WithoutIds, rowVars
  <2> QED BY <1>2, <1>5, <2>1 DEF SoundInv
<1> QED BY <1>6, <1>7, <1>8, <1>9, <1>10, <1>11, <1>12, <1>13 DEF MatchStep

\* No step makes a match unsound, nor plans matches that share a row.
LEMMA NextSound == TypeInv /\ SoundInv /\ [Next]_vars => SoundInv'
<1>1. ASSUME TypeInv, SoundInv, Next PROVE SoundInv'
  BY <1>1, StepKeepsSound, MatchKeepsSound DEF Next
<1>2. ASSUME SoundInv, UNCHANGED vars PROVE SoundInv'
  BY <1>2 DEF vars, rowVars, matchVars, SoundInv, MatchesSound, Matched, ItemsOf, AllRows,
     PlansApart, Apart
<1> QED BY <1>1, <1>2

\* However many handlers, jobs and auto-complete rounds overlap and wherever they
\* die, no two confirmed matches count one transaction and none counts a
\* transaction that is gone: the database's index and cascade decide, whatever
\* the handlers checked before.
THEOREM MatchesAreSound == Spec => []MatchesSound
<1>1. SoundInv => MatchesSound
  BY DEF SoundInv
<1> QED BY <1>1, InitSound, NextSound, TypeInvariant, PTL DEF Spec

-----------------------------------------------------------------------------
(* OrphansArePurged counts every handler that holds an orphan's id, also    *)
(* the auto-complete, which may die before it deletes what it found.  What  *)
(* survives every step is that a handler that maps a document holds it.     *)

Mapping == {"upload", "job", "map"}
Purging == {"import", "purgeFind", "purgeDelete"}

Covers(r, m) ==
  /\ req[r].kind \in Mapping
  /\ req[r].step \in {"import", "purgeFind"} \/ (req[r].step = "purgeDelete" /\ m.id \in req[r].ids)

KindAt(r) ==
  /\ req[r].step \notin Retyping
  /\ req[r].step \in {"document", "correct", "discard", "import"} => req[r].kind \in Mapping
  /\ req[r].step \in {"purgeFind", "purgeDelete"} => req[r].kind \in Mapping \cup {"auto"}
  /\ \A p \in req[r].plan : Items(p) # {}

PurgeInv ==
  /\ \A m \in matches : Orphaned(m) => \E r \in Requests : Covers(r, m)
  /\ status = "deleted" => matches = {}
  /\ \A r \in Requests : KindAt(r)

\* A new project has no orphans.
LEMMA InitPurge == Init => PurgeInv
  BY DEF Init, PurgeInv, KindAt, Idle, Retyping

\* A step that makes no orphan and leaves those it had to purge to itself.
LEMMA PurgeKeeps ==
  ASSUME PurgeInv, NEW r \in Requests,
         \A q \in Requests : q # r => req'[q] = req[q],
         KindAt(r)',
         status' = "deleted" => status = "deleted" \/ matches' = {},
         status = "deleted" => matches' = {},
         \A m \in matches' : Orphaned(m) =>
            Covers(r, m)' \/ (m \in matches /\ (Covers(r, m) => Covers(r, m)'))
  PROVE  PurgeInv'
<1>1. ASSUME NEW m \in matches', Orphaned(m) PROVE \E q \in Requests : Covers(q, m)'
  <2>1. CASE Covers(r, m)'
    BY <2>1
  <2>2. CASE ~Covers(r, m)'
    <3>1. m \in matches /\ ~Covers(r, m)
      BY <1>1, <2>2
    <3>2. PICK q \in Requests : Covers(q, m)
      BY <1>1, <3>1 DEF PurgeInv
    <3>3. q # r /\ req'[q] = req[q]
      BY <3>1, <3>2
    <3> QED BY <3>2, <3>3 DEF Covers
  <2> QED BY <2>1, <2>2
<1>2. ASSUME NEW q \in Requests PROVE KindAt(q)'
  BY DEF PurgeInv, KindAt
<1>3. \A m \in matches' : Orphaned(m)' => \E q \in Requests : Covers(q, m)'
  BY <1>1 DEF Orphaned, Items
<1> QED BY <1>2, <1>3 DEF PurgeInv

\* A step of a handler that has nothing to purge, and makes no match.
LEMMA IdlePurgeKeeps ==
  ASSUME PurgeInv, NEW r \in Requests,
         \A q \in Requests : q # r => req'[q] = req[q],
         KindAt(r)', req[r].step \notin Purging \/ req[r].kind = "auto",
         status' = "deleted" => status = "deleted" \/ matches' = {},
         matches' \subseteq matches
  PROVE  PurgeInv'
<1>1. \A m \in matches' : m \in matches /\ ~Covers(r, m)
  BY DEF Covers, Purging, Mapping
<1>2. status = "deleted" => matches' = {}
  BY DEF PurgeInv
<1> QED BY <1>1, <1>2, PurgeKeeps

\* The review workflow.
LEMMA ReviewKeepsPurge ==
  ASSUME TypeInv, PurgeInv, NEW r \in Requests, ReviewStep(r)
  PROVE  PurgeInv'
<1>0. req \in [Requests -> ReqRecords(nextMatch - 1)]
  BY DEF TypeInv, Typed
<1>1. CASE BeginSubmit(r) \/ BeginApprove(r) \/ BeginReopen(r) \/ BeginUndo(r) \/ BeginDelete(r)
  <2>1. PICK k \in Kinds, s \in {"submit", "approve", "reopen", "undo", "destroy"} : Start(r, k, s, NoDoc)
    BY <1>1 DEF BeginSubmit, BeginApprove, BeginReopen, BeginUndo, BeginDelete, Receive
  <2>2. status' = status /\ matches' = matches
    BY <1>1 DEF BeginSubmit, BeginApprove, BeginReopen, BeginUndo, BeginDelete, projectVars, matchVars
  <2>3. /\ req[r].step \notin Purging /\ req'[r].step = s /\ req'[r].plan = {}
        /\ \A q \in Requests : q # r => req'[q] = req[q]
    BY <1>0, <2>1 DEF Idle, Purging, ReqRecords
  <2>4. KindAt(r)'
    BY <2>3 DEF KindAt, Retyping
  <2> QED BY <2>2, <2>3, <2>4, IdlePurgeKeeps
<1>2. CASE Submit(r) \/ Approve(r) \/ Reopen(r) \/ Undo(r) \/ DeleteProject(r)
  <2>1. /\ Finish(r) /\ req[r].step \notin Purging
        /\ status' = "deleted" => matches' = {}
        /\ matches' \subseteq matches
    BY <1>2 DEF Submit, Approve, Reopen, Undo, DeleteProject, Purging, matchVars
  <2>2. KindAt(r)' /\ \A q \in Requests : q # r => req'[q] = req[q]
    BY <1>0, <2>1 DEF KindAt, Idle, Retyping
  <2> QED BY <2>1, <2>2, IdlePurgeKeeps
<1> QED BY <1>1, <1>2 DEF ReviewStep

\* Importing: whoever discards rows goes on to purge what that orphans.
LEMMA ImportKeepsPurge ==
  ASSUME TypeInv, PurgeInv, NEW r \in Requests, ImportStep(r)
  PROVE  PurgeInv'
<1>0. req \in [Requests -> ReqRecords(nextMatch - 1)] /\ req[r] \in ReqRecords(nextMatch - 1)
  BY DEF TypeInv, Typed
<1> DEFINE Others == \A q \in Requests : q # r => req'[q] = req[q]
<1>1. ASSUME NEW s, Goto(r, s)
      PROVE  Others /\ req'[r].step = s /\ req'[r].kind = req[r].kind /\ req'[r].plan = req[r].plan
  BY <1>0, <1>1 DEF ReqRecords
<1>2. ASSUME Finish(r) PROVE Others /\ KindAt(r)'
  BY <1>0, <1>2 DEF KindAt, Idle, Retyping
<1>3. KindAt(r)
  BY DEF PurgeInv
<1>4. ASSUME NEW d \in Docs, BeginUpload(r, d) \/ BeginJob(r, d) \/ BeginMap(r, d) PROVE PurgeInv'
  <2>1. PICK k \in Mapping, s \in {"document", "correct", "discard"} : Start(r, k, s, d)
    BY <1>4 DEF BeginUpload, BeginJob, BeginMap, Receive, Mapping
  <2>2. status' = status /\ matches' = matches
    BY <1>4 DEF BeginUpload, BeginJob, BeginMap, projectVars, matchVars
  <2>3. Others /\ req[r].step \notin Purging /\ req'[r].step = s /\ req'[r].kind = k /\ req'[r].plan = {}
    BY <1>0, <2>1 DEF Idle, Purging, ReqRecords
  <2>4. KindAt(r)'
    BY <2>3 DEF KindAt, Retyping
  <2> QED BY <2>2, <2>3, <2>4, IdlePurgeKeeps
<1>5. CASE CreateDocument(r) \/ CorrectType(r)
  <2>1. \/ Goto(r, "correct") \/ Goto(r, "discard") \/ Finish(r)
    BY <1>5 DEF CreateDocument, CorrectType
  <2>2. req[r].step \in {"document", "correct"} /\ status' = status /\ matches' = matches
    BY <1>5 DEF CreateDocument, CorrectType, projectVars, matchVars
  <2>3. Others /\ KindAt(r)'
    BY <1>1, <1>2, <1>3, <2>1, <2>2 DEF KindAt, Retyping
  <2> QED BY <2>2, <2>3, IdlePurgeKeeps DEF Purging
<1>6. CASE MapDiscard(r)
  <2>1. req[r].step = "discard" /\ Goto(r, "import") /\ status' = status
    BY <1>6 DEF MapDiscard, projectVars
  <2>2. Others /\ KindAt(r)' /\ req'[r].step = "import" /\ req'[r].kind \in Mapping
    BY <1>1, <1>3, <2>1 DEF KindAt, Retyping
  <2>3. status = "deleted" => matches' = {}
    BY <1>6 DEF MapDiscard, DiscardRows, WithoutRows, PurgeInv
  <2>4. \A m \in matches' : Covers(r, m)'
    BY <2>2 DEF Covers
  <2> QED BY <2>1, <2>2, <2>3, <2>4, PurgeKeeps
<1>7. CASE MapImport(r)
  <2>1. /\ req[r].step = "import" /\ Goto(r, "purgeFind")
        /\ status' = status /\ status # "deleted"
    BY <1>7 DEF MapImport, projectVars
  <2>2. Others /\ KindAt(r)' /\ req'[r].step = "purgeFind" /\ req'[r].kind \in Mapping
    BY <1>1, <1>3, <2>1 DEF KindAt, Retyping
  <2>3. \A m \in matches' : Covers(r, m)'
    BY <2>2 DEF Covers
  <2> QED BY <2>1, <2>2, <2>3, PurgeKeeps
<1>8. CASE PurgeFind(r)
  <2> DEFINE found == {m.id : m \in {x \in matches : Orphaned(x)}}
  <2>1. /\ req[r].step = "purgeFind" /\ status' = status /\ matches' = matches
        /\ req' = [req EXCEPT ![r].step = "purgeDelete", ![r].ids = found]
    BY <1>8 DEF PurgeFind, projectVars, matchVars
  <2>2. \A m \in matches : Orphaned(m) => m.id \in found
    OBVIOUS
  <2> HIDE DEF found
  <2>3. /\ Others /\ req'[r].step = "purgeDelete" /\ req'[r].kind = req[r].kind
        /\ req'[r].ids = found /\ req'[r].plan = req[r].plan
    BY <1>0, <2>1 DEF ReqRecords
  <2>4. KindAt(r)'
    BY <1>3, <2>1, <2>3 DEF KindAt, Retyping
  <2>5. \A m \in matches : Orphaned(m) => (Covers(r, m) => Covers(r, m)')
    BY <2>2, <2>3 DEF Covers
  <2> QED BY <2>1, <2>3, <2>4, <2>5, PurgeKeeps DEF PurgeInv
<1>9. CASE PurgeDelete(r)
  <2> DEFINE s == IF req[r].kind = "auto" THEN "plan" ELSE "setMapping"
  <2>1. /\ req[r].step = "purgeDelete" /\ status' = status
        /\ matches' = {m \in matches : m.id \notin req[r].ids}
        /\ req' = [req EXCEPT ![r].step = s, ![r].ids = {}]
    BY <1>9 DEF PurgeDelete, projectVars, WithoutIds
  <2>2. s \in {"plan", "setMapping"}
    OBVIOUS
  <2> HIDE DEF s
  <2>3. Others /\ req'[r].step = s /\ req'[r].plan = req[r].plan
    BY <1>0, <2>1 DEF ReqRecords
  <2>4. KindAt(r)'
    BY <1>3, <2>2, <2>3 DEF KindAt, Retyping
  <2>5. \A m \in matches' : m \in matches /\ ~Covers(r, m)
    BY <2>1 DEF Covers
  <2> QED BY <2>1, <2>3, <2>4, <2>5, PurgeKeeps DEF PurgeInv
<1>10. CASE MapSetStatus(r)
  <2>1. /\ req[r].step = "setMapping" /\ Finish(r) /\ status' = "mapping" /\ matches' = matches
    BY <1>10 DEF MapSetStatus, matchVars
  <2> QED BY <1>2, <2>1, IdlePurgeKeeps DEF Purging
<1> QED BY <1>4, <1>5, <1>6, <1>7, <1>8, <1>9, <1>10 DEF ImportStep

\* The matches of a plan of links that take rows are no orphans.
LEMMA NumberedNotOrphaned ==
  ASSUME TypeInv, NEW plan \in SUBSET Links, \A p \in plan : Items(p) # {}
  PROVE  \A m \in Numbered(plan) : ~Orphaned(m)
<1> SUFFICES ASSUME NEW m \in Numbered(plan) PROVE ~Orphaned(m)
  OBVIOUS
<1>1. PICK p \in plan : m.type = TypeOf(p) /\ m.cash = p.cash /\ m.bank = p.bank
  BY DEF Numbered
<1>2. Items(m) = Items(p)
  BY <1>1 DEF Items
<1> QED BY <1>1, <1>2 DEF Orphaned, TypeOf

\* Matching makes no orphan, and the auto-complete purges besides.
LEMMA MatchKeepsPurge ==
  ASSUME TypeInv, PurgeInv, NEW r \in Requests, MatchStep(r)
  PROVE  PurgeInv'
<1>0. req \in [Requests -> ReqRecords(nextMatch - 1)] /\ req[r] \in ReqRecords(nextMatch - 1)
  BY DEF TypeInv, Typed
<1> DEFINE Others == \A q \in Requests : q # r => req'[q] = req[q]
<1>1. KindAt(r)
  BY DEF PurgeInv
<1>2. ASSUME req' = [req EXCEPT ![r] = Idle] PROVE Others /\ KindAt(r)'
  BY <1>0, <1>2 DEF KindAt, Idle, Retyping
<1>3. ASSUME NEW s \in {"write", "recheck"}, NEW plan, \A p \in plan : Items(p) # {},
             req' = [req EXCEPT ![r].step = s, ![r].plan = plan]
      PROVE  Others /\ KindAt(r)'
  <2>1. Others /\ req'[r].step = s /\ req'[r].plan = plan
    BY <1>0, <1>3 DEF ReqRecords
  <2> QED BY <1>3, <2>1 DEF KindAt, Retyping
<1>4. CASE BeginMatch(r) \/ BeginUnmatch(r) \/ BeginClear(r)
  <2>1. PICK k \in Kinds, s \in {"check", "findMatch", "clear"} : Start(r, k, s, NoDoc)
    BY <1>4 DEF BeginMatch, BeginUnmatch, BeginClear, Receive
  <2>2. status' = status /\ matches' = matches
    BY <1>4 DEF BeginMatch, BeginUnmatch, BeginClear, projectVars, matchVars
  <2>3. Others /\ req[r].step \notin Purging /\ req'[r].step = s /\ req'[r].plan = {}
    BY <1>0, <2>1 DEF Idle, Purging, ReqRecords
  <2>4. KindAt(r)'
    BY <2>3 DEF KindAt, Retyping
  <2> QED BY <2>2, <2>3, <2>4, IdlePurgeKeeps
<1>5. CASE CheckMatch(r)
  <2>1. PICK plan \in Payloads :
             /\ \A p \in plan : p.cash # {} /\ p.bank # {}
             /\ req' = [req EXCEPT ![r].step = "write", ![r].plan = plan]
    BY <1>5 DEF CheckMatch
  <2>2. \A p \in plan : Items(p) # {}
    BY <2>1 DEF Items
  <2>3. Others /\ KindAt(r)'
    BY <1>3, <2>1, <2>2
  <2>4. req[r].step = "check" /\ status' = status /\ matches' = matches
    BY <1>5 DEF CheckMatch, projectVars, matchVars
  <2> QED BY <2>3, <2>4, IdlePurgeKeeps DEF Purging
<1>6. CASE BeginAuto(r)
  <2>1. /\ req[r] = Idle /\ Others /\ req'[r].step = "purgeFind" /\ req'[r].kind = "auto"
        /\ req'[r].plan = {} /\ status' = status /\ matches' = matches
    BY <1>0, <1>6 DEF BeginAuto, Idle, projectVars, matchVars
  <2>2. KindAt(r)' /\ req[r].step \notin Purging
    BY <2>1 DEF KindAt, Retyping, Idle, Purging
  <2> QED BY <2>1, <2>2, IdlePurgeKeeps
<1>7. CASE PlanRound(r)
  <2> DEFINE cash == RowsIn(req[r].lanes.cash) \ Matched
             bank == RowsIn(req[r].lanes.bank) \ Matched
  <2>1. PICK plan \in SUBSET Pairs(cash, bank) :
             req' = [req EXCEPT ![r].step = "recheck", ![r].plan = plan]
    BY <1>7 DEF PlanRound
  <2>2. \A p \in plan : Items(p) # {}
    <3> HIDE DEF cash, bank
    <3> QED BY <2>1 DEF Pairs, Link, Items
  <2>3. Others /\ KindAt(r)'
    BY <1>3, <2>1, <2>2
  <2>4. req[r].step = "plan" /\ status' = status /\ matches' = matches
    BY <1>7 DEF PlanRound, projectVars, matchVars
  <2> QED BY <2>3, <2>4, IdlePurgeKeeps DEF Purging
<1>8. CASE Recheck(r)
  <2> DEFINE there == {p \in req[r].plan : Items(p) \subseteq AllRows}
  <2>1. \A p \in there : Items(p) # {}
    BY <1>1 DEF KindAt
  <2>2. Others /\ KindAt(r)'
    <3>1. \/ req' = [req EXCEPT ![r] = Idle]
          \/ req' = [req EXCEPT ![r].step = "write", ![r].plan = there]
      BY <1>8 DEF Recheck
    <3> HIDE DEF there
    <3> QED BY <1>2, <1>3, <2>1, <3>1
  <2>3. req[r].step = "recheck" /\ status' = status /\ matches' = matches
    BY <1>8 DEF Recheck, projectVars, matchVars
  <2> QED BY <2>2, <2>3, IdlePurgeKeeps DEF Purging
<1>9. CASE WriteMatches(r)
  <2> DEFINE plan == req[r].plan
             writes == ItemsOf(plan) \subseteq AllRows \ Matched /\ status # "deleted"
  <2>1. req[r].step = "write"
    BY <1>9 DEF WriteMatches
  <2>2. CASE writes
    <3>1. /\ matches' = matches \cup Numbered(plan) /\ status' = "reconciling" /\ status # "deleted"
          /\ req' = [req EXCEPT ![r] = IF @.kind = "auto"
                                       THEN [@ EXCEPT !.step = "plan", !.plan = {}] ELSE Idle]
      BY <1>9, <2>2 DEF WriteMatches
    <3>2. Others /\ req'[r].plan = {} /\ req'[r].step \in {"plan", "idle"}
      BY <1>0, <3>1 DEF ReqRecords, Idle
    <3>3. KindAt(r)'
      BY <3>2 DEF KindAt, Retyping
    <3>4. plan \in SUBSET Links /\ \A p \in plan : Items(p) # {}
      BY <1>0, <1>1 DEF ReqRecords, KindAt
    <3>5. \A m \in Numbered(plan) : ~Orphaned(m)
      <4> HIDE DEF plan
      <4> QED BY <3>4, NumberedNotOrphaned
    <3>6. \A m \in matches' : Orphaned(m) => m \in matches /\ ~Covers(r, m)
      BY <2>1, <3>1, <3>5 DEF Covers
    <3> QED BY <3>1, <3>2, <3>3, <3>6, PurgeKeeps
  <2>3. CASE ~writes
    <3>1. req' = [req EXCEPT ![r] = Idle] /\ matches' = matches /\ status' = status
      BY <1>9, <2>3 DEF WriteMatches, matchVars
    <3> QED BY <1>2, <2>1, <3>1, IdlePurgeKeeps DEF Purging
  <2> QED BY <2>2, <2>3
<1>10. CASE FindMatch(r)
  <2>1. PICK ids : req' = [req EXCEPT ![r].step = "remove", ![r].ids = ids]
    BY <1>10 DEF FindMatch
  <2>2. Others /\ req'[r].plan = req[r].plan /\ req'[r].step = "remove"
    BY <1>0, <2>1 DEF ReqRecords
  <2>3. KindAt(r)'
    BY <1>1, <2>2 DEF KindAt, Retyping
  <2>4. req[r].step = "findMatch" /\ status' = status /\ matches' = matches
    BY <1>10 DEF FindMatch, projectVars, matchVars
  <2> QED BY <2>2, <2>3, <2>4, IdlePurgeKeeps DEF Purging
<1>11. CASE RemoveMatch(r) \/ ClearMatches(r)
  <2>1. /\ matches' \subseteq matches /\ status' = status /\ req[r].step \in {"remove", "clear"}
        /\ req' = [req EXCEPT ![r] = Idle]
    BY <1>11 DEF RemoveMatch, ClearMatches, WithoutIds, projectVars
  <2> QED BY <1>2, <2>1, IdlePurgeKeeps DEF Purging
<1> QED BY <1>4, <1>5, <1>6, <1>7, <1>8, <1>9, <1>10, <1>11 DEF MatchStep

\* A handler gives up a purge only with the project.
LEMMA GiveUpKeepsPurge ==
  ASSUME TypeInv, PurgeInv, ~Faults, NEW r \in Requests, GiveUp(r)
  PROVE  PurgeInv'
<1>1. /\ \A q \in Requests : q # r => req'[q] = req[q]
      /\ KindAt(r)' /\ status' = status /\ matches' = matches
  BY DEF GiveUp, TypeInv, Typed, KindAt, Idle, Retyping, projectVars, matchVars
<1>2. req[r].step \in Purging => req[r].kind = "auto" \/ status = "deleted"
  BY DEF GiveUp, Midway, Purging
<1>3. CASE status = "deleted"
  BY <1>1, <1>3, PurgeKeeps DEF PurgeInv
<1>4. CASE req[r].step \notin Purging \/ req[r].kind = "auto"
  BY <1>1, <1>4, IdlePurgeKeeps
<1> QED BY <1>2, <1>3, <1>4

\* Without deaths and family changes, orphans stay covered.
LEMMA NextPurge ==
  ASSUME ~Faults, "type" \notin Kinds
  PROVE  TypeInv /\ PurgeInv /\ [Next]_vars => PurgeInv'
<1>1. ASSUME PurgeInv, NEW r \in Requests PROVE ~TypeStep(r)
  <2>1. req[r].step \notin Retyping
    BY <1>1 DEF PurgeInv, KindAt
  <2> QED BY <2>1 DEF TypeStep, BeginType, TypeRows, TypeFind, TypeDiscard, TypeSweep, TypeFlip, Retyping
<1>2. ASSUME TypeInv, PurgeInv, Next PROVE PurgeInv'
  BY <1>1, <1>2, GiveUpKeepsPurge, ReviewKeepsPurge, ImportKeepsPurge, MatchKeepsPurge DEF Next
<1>3. ASSUME PurgeInv, UNCHANGED vars PROVE PurgeInv'
  BY <1>3 DEF vars, projectVars, matchVars, PurgeInv, KindAt, Covers, Orphaned, Items
<1> QED BY <1>2, <1>3

\* However many remappings, jobs, matchings and auto-completes overlap, a match
\* that lost a row is one that a handler under way will still purge - provided no
\* handler dies midway and nobody changes a document's family meanwhile.
THEOREM OrphansGo ==
  ASSUME ~Faults, "type" \notin Kinds
  PROVE  Spec => []OrphansArePurged
<1>1. PurgeInv => OrphansArePurged
  BY DEF PurgeInv, OrphansArePurged, Covers, WillPurge, Mapping
<1>2. TypeInv /\ PurgeInv /\ [Next]_vars => PurgeInv'
  BY NextPurge
<1> QED BY <1>1, <1>2, InitPurge, TypeInvariant, PTL DEF Spec

-----------------------------------------------------------------------------
(* One request at a time, as the refinement of SignOff has it: a handler   *)
(* finds the project in the status it read.                                *)

Alone == \A q, r \in Requests : q = r

\* Where the project stands while a handler is between its read and its write.
StageAt(r) ==
  /\ req[r].step = "approve" => status = "submitted_for_review"
  /\ req[r].step \in {"reopen", "undo"} => status \in Locked
  /\ req[r].step \notin {"idle", "approve", "reopen", "undo", "destroy"} => Editable

StageInv ==
  /\ Editable => signOff = {}
  /\ autoMap = {}
  /\ \A r \in Requests : StageAt(r)

FlowStep == [Flow!Workflow]_(Flow!signOffVars)

\* What the status of the project stands for.
LEMMA PhaseOfStatus ==
  ASSUME status \in Statuses
  PROVE  /\ Phase = "open" <=> Editable
         /\ Phase = "submitted" <=> status = "submitted_for_review"
         /\ Phase = "completed" <=> status = "completed"
         /\ Phase = "deleted" <=> status = "deleted"
  BY DEF Phase, Editable, Locked, Statuses

\* A step of the only request that leaves the project, its rows and its matches alone.
LEMMA ReadStage ==
  ASSUME Alone, StageInv, NEW r \in Requests, StageAt(r)', autoMap' = {},
         UNCHANGED <<projectVars, side, rowVars, matchVars>>
  PROVE  StageInv' /\ FlowStep
<1>1. StageInv'
  <2>1. \A q \in Requests : q = r
    BY DEF Alone
  <2> QED BY <2>1 DEF StageInv, Editable, projectVars
<1>2. FlowStep
  BY DEF FlowStep, Flow!signOffVars, Phase, projectVars, rowVars, matchVars
<1> QED BY <1>1, <1>2

\* A step of the only request that changes rows, matches or families is an edit of
\* an open project.
LEMMA EditStage ==
  ASSUME Alone, StageInv, NEW r \in Requests, StageAt(r)', autoMap' = {},
         status \in Statuses, status' \in Statuses, Editable, Editable', signOff' = signOff
  PROVE  StageInv' /\ FlowStep
<1>1. StageInv'
  <2>1. \A q \in Requests : q = r
    BY DEF Alone
  <2> QED BY <2>1 DEF StageInv
<1>2. Phase = "open" /\ Phase' = "open"
  BY DEF Phase, Editable, Locked, Statuses
<1> QED BY <1>1, <1>2 DEF FlowStep, Flow!Workflow, Flow!Edit

\* The review workflow takes the steps it promises.
LEMMA ReviewStages ==
  ASSUME Alone, TypeInv, StageInv, NEW r \in Requests, ReviewStep(r)
  PROVE  StageInv' /\ FlowStep
<1>0. /\ req \in [Requests -> ReqRecords(nextMatch - 1)] /\ req[r] \in ReqRecords(nextMatch - 1)
      /\ status \in Statuses /\ StageAt(r) /\ autoMap = {} /\ \A q \in Requests : q = r
  BY DEF TypeInv, RowsTyped, Typed, StageInv, Alone
<1>1. ASSUME NEW k, NEW s, NEW d, Start(r, k, s, d) PROVE req'[r].step = s
  BY <1>0, <1>1 DEF ReqRecords
<1>2. ASSUME Finish(r) PROVE StageAt(r)'
  BY <1>0, <1>2 DEF StageAt, Idle
<1>3. CASE BeginSubmit(r) \/ BeginApprove(r) \/ BeginReopen(r) \/ BeginUndo(r) \/ BeginDelete(r)
  <2>1. StageAt(r)'
    <3>1. CASE BeginSubmit(r)
      <4>1. req'[r].step = "submit" /\ status' = status /\ Editable
        BY <1>1, <3>1 DEF BeginSubmit, projectVars, Editable, Locked
      <4> QED BY <4>1 DEF StageAt, Editable
    <3>2. CASE BeginApprove(r)
      <4>1. req'[r].step = "approve" /\ status' = "submitted_for_review"
        BY <1>1, <3>2 DEF BeginApprove, projectVars
      <4> QED BY <4>1 DEF StageAt
    <3>3. CASE BeginReopen(r) \/ BeginUndo(r)
      <4>1. req'[r].step \in {"reopen", "undo"} /\ status' \in Locked
        <5>1. \/ Start(r, "reopen", "reopen", NoDoc)
              \/ Start(r, "undo", "undo", NoDoc)
          BY <3>3 DEF BeginReopen, BeginUndo
        <5>2. status' \in Locked
          BY <3>3 DEF BeginReopen, BeginUndo, projectVars, Locked
        <5> HIDE DEF Start
        <5> QED BY <1>1, <5>1, <5>2
      <4> QED BY <4>1 DEF StageAt, Locked
    <3>4. CASE BeginDelete(r)
      BY <1>1, <3>4 DEF BeginDelete, StageAt
    <3> QED BY <1>3, <3>1, <3>2, <3>3, <3>4
  <2>2. UNCHANGED <<projectVars, documentVars, rowVars, matchVars>>
    BY <1>3 DEF BeginSubmit, BeginApprove, BeginReopen, BeginUndo, BeginDelete
  <2> QED BY <1>0, <2>1, <2>2, ReadStage DEF documentVars
<1>4. CASE Submit(r)
  <2>1. /\ Editable /\ status' = "submitted_for_review" /\ signOff' = signOff \cup {"prepared"}
        /\ UNCHANGED <<rowsOf, side, matches, autoMap>> /\ Finish(r)
    BY <1>0, <1>4 DEF Submit, StageAt, documentVars, rowVars, matchVars
  <2>2. StageAt(r)' /\ signOff = {}
    BY <1>2, <2>1 DEF StageInv
  <2>3. Phase = "open" /\ Phase' = "submitted"
    BY <1>0, <2>1 DEF Phase, Editable, Locked, Statuses
  <2>4. Flow!Submit
    BY <2>1, <2>2, <2>3 DEF Flow!Submit
  <2> QED BY <1>0, <2>1, <2>2, <2>4 DEF StageInv, FlowStep, Flow!Workflow, Editable, Locked
<1>5. CASE Approve(r)
  <2>1. /\ status = "submitted_for_review" /\ status' = "completed"
        /\ signOff' = signOff \cup {"reviewed", "approved"}
        /\ UNCHANGED <<rowsOf, side, matches, autoMap>> /\ Finish(r)
    BY <1>0, <1>5 DEF Approve, StageAt, documentVars, rowVars, matchVars
  <2>2. StageAt(r)' /\ Phase = "submitted" /\ Phase' = "completed"
    BY <1>2, <2>1 DEF Phase
  <2>3. Flow!Approve
    BY <2>1, <2>2 DEF Flow!Approve
  <2> QED BY <1>0, <2>1, <2>2, <2>3 DEF StageInv, FlowStep, Flow!Workflow, Editable, Locked
<1>6. CASE Reopen(r) \/ Undo(r)
  <2>1. /\ status \in Locked /\ status' \in {"mapping", "reconciling"} /\ signOff' = {}
        /\ UNCHANGED <<rowsOf, side, autoMap>> /\ matches' \in {matches, {}} /\ Finish(r)
    BY <1>0, <1>6 DEF Reopen, Undo, StageAt, documentVars, rowVars, matchVars
  <2>2. StageAt(r)' /\ Phase \in {"submitted", "completed"} /\ Phase' = "open"
    BY <1>2, <2>1 DEF Phase, Locked
  <2>3. Flow!Reopen
    BY <2>1, <2>2 DEF Flow!Reopen
  <2> QED BY <1>0, <2>1, <2>2, <2>3 DEF StageInv, FlowStep, Flow!Workflow
<1>7. CASE DeleteProject(r)
  <2>1. status # "deleted" /\ status' = "deleted" /\ signOff' = {} /\ autoMap' = {} /\ Finish(r)
    BY <1>7 DEF DeleteProject
  <2>2. StageAt(r)' /\ Phase # "deleted" /\ Phase' = "deleted"
    BY <1>2, <2>1 DEF Phase
  <2>3. Flow!Delete
    BY <2>2 DEF Flow!Delete
  <2> QED BY <1>0, <2>1, <2>2, <2>3 DEF StageInv, FlowStep, Flow!Workflow
<1> QED BY <1>3, <1>4, <1>5, <1>6, <1>7 DEF ReviewStep

\* Stopping changes nothing.
LEMMA GiveUpStages ==
  ASSUME Alone, TypeInv, StageInv, NEW r \in Requests, GiveUp(r)
  PROVE  StageInv' /\ FlowStep
<1>1. StageAt(r)'
  BY DEF GiveUp, TypeInv, Typed, StageAt, Idle
<1>2. UNCHANGED <<projectVars, documentVars, rowVars, matchVars>> /\ autoMap = {}
  BY DEF GiveUp, StageInv
<1> QED BY <1>1, <1>2, ReadStage DEF documentVars

\* Uploading, mapping, changing a family and matching edit a project that is open.
LEMMA EditStages ==
  ASSUME Alone, ~DeferMap, TypeInv, TypeInv', StageInv, NEW r \in Requests,
         ImportStep(r) \/ TypeStep(r) \/ MatchStep(r)
  PROVE  StageInv' /\ FlowStep
<1>0. /\ req \in [Requests -> ReqRecords(nextMatch - 1)] /\ req[r] \in ReqRecords(nextMatch - 1)
      /\ status \in Statuses /\ status' \in Statuses /\ StageAt(r) /\ autoMap = {}
  BY DEF TypeInv, RowsTyped, Typed, StageInv
<1>1. Editable
  <2>1. CASE req[r] = Idle
    <3>1. req[r].step = "idle"
      BY <2>1 DEF Idle
    <3>2. \/ \E d \in Docs : BeginUpload(r, d) \/ BeginMap(r, d) \/ BeginType(r, d)
          \/ BeginMatch(r) \/ BeginAuto(r) \/ BeginUnmatch(r) \/ BeginClear(r)
      BY <1>0, <3>1 DEF ImportStep, TypeStep, MatchStep, BeginJob,
         CreateDocument, CorrectType, MapDiscard, MapImport, PurgeFind, PurgeDelete, MapSetStatus,
         TypeRows, TypeFind, TypeDiscard, TypeFlip, TypeSweep, CheckMatch,
         WriteMatches, PlanRound, Recheck, FindMatch, RemoveMatch, ClearMatches
    <3>3. CASE \E d \in Docs : BeginUpload(r, d)
      BY <3>3 DEF BeginUpload, Editable, Locked
    <3> QED BY <3>2, <3>3 DEF BeginMap, BeginType, BeginMatch, BeginAuto, BeginUnmatch, BeginClear
  <2>2. CASE req[r] # Idle
    BY <2>2, <1>0 DEF ImportStep, TypeStep, MatchStep, BeginUpload, BeginJob, BeginMap,
       CreateDocument, CorrectType, MapDiscard, MapImport, PurgeFind, PurgeDelete, MapSetStatus,
       BeginType, TypeRows, TypeFind, TypeDiscard, TypeFlip, TypeSweep, BeginMatch, CheckMatch,
       WriteMatches, BeginAuto, PlanRound, Recheck, BeginUnmatch, FindMatch, RemoveMatch,
       BeginClear, ClearMatches, StageAt
  <2> QED BY <2>1, <2>2
<1>2. /\ status' \in {status, "mapping", "reconciling"} /\ signOff' = signOff
      /\ autoMap' \in {autoMap, {}}
  BY <1>0 DEF ImportStep, TypeStep, MatchStep, BeginUpload, BeginJob, BeginMap,
     CreateDocument, CorrectType, MapDiscard, MapImport, PurgeFind, PurgeDelete, MapSetStatus,
     BeginType, TypeRows, TypeFind, TypeDiscard, TypeFlip, TypeSweep, BeginMatch, CheckMatch,
     WriteMatches, BeginAuto, PlanRound, Recheck, BeginUnmatch, FindMatch, RemoveMatch,
     BeginClear, ClearMatches, projectVars, documentVars
<1>3. Editable' /\ autoMap' = {}
  BY <1>0, <1>1, <1>2 DEF Editable, Locked
<1>4. req'[r].step \notin {"approve", "reopen", "undo"}
  <2>1. ASSUME NEW k, NEW s, NEW d, Start(r, k, s, d) PROVE req'[r].step = s
    BY <1>0, <2>1 DEF ReqRecords
  <2>2. ASSUME NEW s, Goto(r, s) PROVE req'[r].step = s
    BY <1>0, <2>2 DEF ReqRecords
  <2>3. ASSUME req' = [req EXCEPT ![r] = Idle] PROVE req'[r].step = "idle"
    BY <1>0, <2>3 DEF Idle
  <2>4. CASE ImportStep(r)
    <3>1. ASSUME NEW d \in Docs, BeginUpload(r, d) \/ BeginJob(r, d) \/ BeginMap(r, d)
          PROVE  req'[r].step \in {"document", "correct", "discard"}
      BY <2>1, <3>1 DEF BeginUpload, BeginJob, BeginMap
    <3>2. CASE CreateDocument(r) \/ CorrectType(r) \/ MapDiscard(r) \/ MapImport(r) \/ MapSetStatus(r)
      BY <2>2, <2>3, <3>2 DEF CreateDocument, CorrectType, MapDiscard, MapImport, MapSetStatus
    <3>3. CASE PurgeFind(r) \/ PurgeDelete(r)
      <4>1. PICK s \in {"purgeDelete", "plan", "setMapping"} :
                 \E ids : req' = [req EXCEPT ![r].step = s, ![r].ids = ids]
        BY <3>3 DEF PurgeFind, PurgeDelete
      <4> QED BY <1>0, <4>1 DEF ReqRecords
    <3> QED BY <2>4, <3>1, <3>2, <3>3 DEF ImportStep
  <2>5. CASE TypeStep(r)
    <3>1. ASSUME NEW d \in Docs, BeginType(r, d) PROVE req'[r].step = "typeRows"
      BY <1>0, <3>1 DEF BeginType, Idle
    <3>2. CASE TypeRows(r)
      <4>1. PICK s \in {"flip", "typeFind"} :
                 \E rows : req' = [req EXCEPT ![r].rows = rows, ![r].step = s]
        BY <3>2 DEF TypeRows
      <4> QED BY <1>0, <4>1 DEF ReqRecords
    <3>3. CASE TypeFind(r)
      BY <1>0, <3>3 DEF TypeFind, ReqRecords
    <3>4. CASE TypeDiscard(r) \/ TypeFlip(r)
      BY <2>2, <2>3, <3>4 DEF TypeDiscard, TypeFlip
    <3>5. ASSUME NEW id \in MatchIds, TypeSweep(r, id) PROVE req'[r].step \in {"idle", "sweep"}
      <4>1. \/ req' = [req EXCEPT ![r] = Idle]
            \/ req' = [req EXCEPT ![r].ids = @ \ {id}]
        BY <3>5 DEF TypeSweep
      <4>2. req[r].step = "sweep"
        BY <3>5 DEF TypeSweep
      <4> QED BY <1>0, <2>3, <4>1, <4>2 DEF ReqRecords
    <3> QED BY <2>5, <3>1, <3>2, <3>3, <3>4, <3>5 DEF TypeStep
  <2>6. CASE MatchStep(r)
    <3>1. CASE BeginMatch(r) \/ BeginUnmatch(r) \/ BeginClear(r)
      <4>1. PICK s \in {"check", "findMatch", "clear"} : \E k, d : Start(r, k, s, d)
        BY <3>1 DEF BeginMatch, BeginUnmatch, BeginClear
      <4>2. PICK k, d : Start(r, k, s, d)
        BY <4>1
      <4>3. req'[r].step = s
        BY <2>1, <4>2
      <4> QED BY <4>3
    <3>2. CASE CheckMatch(r) \/ PlanRound(r)
      <4>1. PICK s \in {"write", "recheck"} :
                 \E plan : req' = [req EXCEPT ![r].step = s, ![r].plan = plan]
        BY <3>2 DEF CheckMatch, PlanRound
      <4> QED BY <1>0, <4>1 DEF ReqRecords
    <3>3. CASE Recheck(r)
      <4>1. \/ req' = [req EXCEPT ![r] = Idle]
            \/ \E plan : req' = [req EXCEPT ![r].step = "write", ![r].plan = plan]
        BY <3>3 DEF Recheck
      <4> QED BY <1>0, <2>3, <4>1 DEF ReqRecords
    <3>4. CASE WriteMatches(r)
      <4>1. \/ req' = [req EXCEPT ![r] = Idle]
            \/ req' = [req EXCEPT ![r] = [req[r] EXCEPT !.step = "plan", !.plan = {}]]
        BY <1>0, <3>4 DEF WriteMatches
      <4>2. [req[r] EXCEPT !.step = "plan", !.plan = {}].step = "plan"
        BY <1>0 DEF ReqRecords
      <4> QED BY <1>0, <2>3, <4>1, <4>2
    <3>5. CASE BeginAuto(r)
      BY <1>0, <3>5 DEF BeginAuto, Idle
    <3>6. CASE FindMatch(r)
      <4>1. PICK ids : req' = [req EXCEPT ![r].step = "remove", ![r].ids = ids]
        BY <3>6 DEF FindMatch
      <4> QED BY <1>0, <4>1 DEF ReqRecords
    <3>7. CASE RemoveMatch(r) \/ ClearMatches(r)
      BY <2>3, <3>7 DEF RemoveMatch, ClearMatches
    <3> QED BY <2>6, <3>1, <3>2, <3>3, <3>4, <3>5, <3>6, <3>7 DEF MatchStep
  <2> QED BY <2>4, <2>5, <2>6
<1>5. StageAt(r)'
  BY <1>3, <1>4 DEF StageAt
<1> QED BY <1>0, <1>1, <1>2, <1>3, <1>5, EditStage

\* No step of the only request leaves the workflow.
LEMMA NextStages ==
  ASSUME Alone, ~DeferMap
  PROVE  TypeInv /\ TypeInv' /\ StageInv /\ [Next]_vars => StageInv' /\ FlowStep
<1>1. ASSUME TypeInv, TypeInv', StageInv, Next PROVE StageInv' /\ FlowStep
  BY <1>1, GiveUpStages, ReviewStages, EditStages DEF Next
<1>2. ASSUME StageInv, UNCHANGED vars PROVE StageInv' /\ FlowStep
  <2>1. StageInv'
    BY <1>2 DEF vars, projectVars, documentVars, StageInv, StageAt, Editable
  <2>2. FlowStep
    BY <1>2 DEF vars, FlowStep, Flow!signOffVars, Phase, projectVars, documentVars, rowVars, matchVars
  <2> QED BY <2>1, <2>2
<1> QED BY <1>1, <1>2

\* Requests that do not overlap implement the review workflow: no edit of rows,
\* matches or families while the project is submitted or completed, each
\* signature only at its stage, and what is approved is what was submitted -
\* wherever a handler dies midway, and also for clients that name a wrong side.
\* DEFER_AUTO_MAP_ON_UPLOAD is off: a queued parse asks for no status.
THEOREM SerialRequestsImplementSignOff ==
  ASSUME Alone, ~DeferMap
  PROVE  Spec => ImplementsSignOff
<1>1. Init => StageInv /\ Flow!OpenInit
  BY DEF Init, StageInv, StageAt, Idle, Flow!OpenInit, Phase, Editable, Locked
<1>2. TypeInv /\ TypeInv' /\ StageInv /\ [Next]_vars => StageInv' /\ FlowStep
  BY NextStages
<1> QED BY <1>1, <1>2, TypeInvariant, PTL DEF Spec, ImplementsSignOff, Flow!SignOffSpec, FlowStep

-----------------------------------------------------------------------------
(* PairsAcrossSides is not inductive: a plan must still be in place when   *)
(* it is written, the lanes of an auto-complete must still be those of the *)
(* documents, and a document that gets a new family must have no rows.     *)

AutoSteps == {"purgeFind", "purgeDelete", "plan", "recheck", "write"}

PlacedAt(r) ==
  /\ req[r].step \in {"sweep", "flip"} => rowsOf[req[r].doc] = {}
  /\ req[r].kind = "auto" =>
       /\ req[r].step \in AutoSteps
       /\ req[r].lanes = [cash |-> On("cash_book"), bank |-> On("bank")]
  /\ req[r].step \in {"plan", "recheck"} => req[r].kind = "auto"
  /\ req[r].step \in {"recheck", "write"} => \A p \in req[r].plan : InPlace(p)

PlacedInv ==
  /\ \A m \in matches : InPlace(m)
  /\ \A r \in Requests : PlacedAt(r)

\* Rows that are in place stay there while documents and rows are only added.
LEMMA PlacesGrow ==
  ASSUME TypeInv, uploaded \subseteq uploaded', side' = side,
         \A d \in Docs : rowsOf[d] \subseteq rowsOf'[d], NEW p, InPlace(p)
  PROVE  InPlace(p)'
<1>1. uploaded \subseteq Docs
  BY DEF TypeInv, RowsTyped
<1>2. \A s : RowsIn(On(s)) \subseteq RowsIn(On(s))'
  BY <1>1 DEF RowsIn, On
<1> QED BY <1>2 DEF InPlace

\* A step of the only request that adds no match and moves no row.
LEMMA QuietPlaced ==
  ASSUME Alone, TypeInv, PlacedInv, NEW r \in Requests,
         uploaded \subseteq uploaded', side' = side,
         \A d \in Docs : rowsOf[d] \subseteq rowsOf'[d],
         matches' \subseteq matches, PlacedAt(r)'
  PROVE  PlacedInv'
<1>1. \A m \in matches' : InPlace(m)'
  BY PlacesGrow DEF PlacedInv
<1>2. \A q \in Requests : q = r
  BY DEF Alone
<1> QED BY <1>1, <1>2 DEF PlacedInv

\* A handler that has ended holds no plan.
LEMMA EndedPlaced ==
  ASSUME TypeInv, NEW r \in Requests, req' = [req EXCEPT ![r] = Idle]
  PROVE  PlacedAt(r)'
  BY DEF TypeInv, Typed, PlacedAt, Idle

\* A handler that moves on without a plan.
LEMMA MovedPlaced ==
  ASSUME PlacedInv, NEW r \in Requests,
         req[r].step \notin AutoSteps \/ req[r].kind # "auto", req'[r].kind = req[r].kind,
         req'[r].step \notin {"sweep", "flip", "plan", "recheck", "write"}
  PROVE  PlacedAt(r)'
  BY DEF PlacedInv, PlacedAt

\* A handler or job that starts.
LEMMA StartedPlaced ==
  ASSUME TypeInv, NEW r \in Requests, NEW k, k # "auto", NEW d,
         NEW s, s \notin {"sweep", "flip", "plan", "recheck", "write"}, Start(r, k, s, d)
  PROVE  PlacedAt(r)'
<1>1. req'[r].step = s /\ req'[r].kind = k
  BY DEF TypeInv, Typed, ReqRecords
<1> QED BY <1>1 DEF PlacedAt

\* The rows of a document that go, go from the matches too.
LEMMA DiscardPlaced ==
  ASSUME Alone, TypeInv, PlacedInv, NEW r \in Requests, NEW d \in Docs, DiscardRows(d),
         UNCHANGED documentVars, PlacedAt(r)'
  PROVE  PlacedInv'
<1>0. /\ uploaded \subseteq Docs /\ rowsOf \in [Docs -> SUBSET (1..(nextRow - 1))]
      /\ matches \subseteq [id : 1..(nextMatch - 1), type : {"one_to_one", "many"},
                            cash : SUBSET RowIds, bank : SUBSET RowIds]
      /\ uploaded' = uploaded /\ side' = side
  BY DEF TypeInv, RowsTyped, documentVars
<1>1. \A s : RowsIn(On(s)) \ rowsOf[d] \subseteq RowsIn(On(s))'
  <2>1. \A s : On(s)' = On(s) /\ On(s) \subseteq Docs
    BY <1>0 DEF On
  <2>2. \A e \in Docs : e # d => rowsOf'[e] = rowsOf[e]
    BY <1>0 DEF DiscardRows
  <2> QED BY <2>1, <2>2 DEF RowsIn
<1>2. ASSUME NEW m \in matches' PROVE InPlace(m)'
  <2>1. PICK x \in matches : m = [x EXCEPT !.cash = @ \ rowsOf[d], !.bank = @ \ rowsOf[d]]
    BY <1>2 DEF DiscardRows, WithoutRows
  <2>2. m.cash = x.cash \ rowsOf[d] /\ m.bank = x.bank \ rowsOf[d]
    BY <1>0, <2>1
  <2>3. InPlace(x)
    BY DEF PlacedInv
  <2> QED BY <1>1, <2>2, <2>3 DEF InPlace
<1>3. \A q \in Requests : q = r
  BY DEF Alone
<1> QED BY <1>2, <1>3 DEF PlacedInv

\* Stopping, reviewing, uploading and mapping.
LEMMA ImportPlaced ==
  ASSUME Alone, ~AutoCorrect, TypeInv, PlacedInv, NEW r \in Requests,
         GiveUp(r) \/ ReviewStep(r) \/ ImportStep(r)
  PROVE  PlacedInv'
<1>0. /\ req \in [Requests -> ReqRecords(nextMatch - 1)] /\ req[r] \in ReqRecords(nextMatch - 1)
      /\ rowsOf \in [Docs -> SUBSET (1..(nextRow - 1))] /\ side \in [Docs -> Sides]
      /\ PlacedAt(r) /\ AttachedAt(r)
  BY DEF TypeInv, Typed, RowsTyped, Attached, PlacedInv
<1>1. CASE GiveUp(r)
  <2>1. PlacedAt(r)'
    BY <1>1, EndedPlaced DEF GiveUp
  <2> QED BY <1>1, <2>1, QuietPlaced DEF GiveUp, documentVars, rowVars, matchVars
<1>2. CASE BeginSubmit(r) \/ BeginApprove(r) \/ BeginReopen(r) \/ BeginUndo(r) \/ BeginDelete(r)
  <2>1. PICK k \in {"submit", "approve", "reopen", "undo", "delete"},
             s \in {"submit", "approve", "reopen", "undo", "destroy"} : Start(r, k, s, NoDoc)
    BY <1>2 DEF BeginSubmit, BeginApprove, BeginReopen, BeginUndo, BeginDelete
  <2>2. PlacedAt(r)'
    BY <2>1, StartedPlaced
  <2>3. UNCHANGED <<documentVars, rowVars, matchVars>>
    BY <1>2 DEF BeginSubmit, BeginApprove, BeginReopen, BeginUndo, BeginDelete
  <2> QED BY <2>2, <2>3, QuietPlaced DEF documentVars, rowVars, matchVars
<1>3. CASE Submit(r) \/ Approve(r) \/ Reopen(r) \/ Undo(r)
  <2>1. /\ Finish(r) /\ matches' \in {matches, {}} /\ UNCHANGED <<documentVars, rowVars>>
    BY <1>3 DEF Submit, Approve, Reopen, Undo, matchVars
  <2>2. PlacedAt(r)'
    BY <2>1, EndedPlaced
  <2> QED BY <2>1, <2>2, QuietPlaced DEF documentVars, rowVars
<1>4. CASE DeleteProject(r)
  <2>1. matches' = {} /\ PlacedAt(r)'
    BY <1>4, EndedPlaced DEF DeleteProject
  <2> QED BY <2>1 DEF PlacedInv, Alone
<1>5. ASSUME NEW d \in Docs, BeginUpload(r, d) \/ BeginJob(r, d) \/ BeginMap(r, d) PROVE PlacedInv'
  <2>1. PICK k \in {"upload", "job", "map"}, s \in {"document", "correct", "discard"} : Start(r, k, s, d)
    BY <1>5 DEF BeginUpload, BeginJob, BeginMap
  <2>2. PlacedAt(r)'
    BY <2>1, StartedPlaced
  <2>3. UNCHANGED <<uploaded, side, rowVars, matchVars>>
    BY <1>5 DEF BeginUpload, BeginJob, BeginMap, documentVars
  <2> QED BY <2>2, <2>3, QuietPlaced DEF rowVars, matchVars
<1>6. CASE CreateDocument(r)
  <2>1. PlacedAt(r)'
    <3>1. Finish(r) \/ Goto(r, "correct")
      BY <1>6 DEF CreateDocument
    <3>2. req[r].step \notin AutoSteps
      BY <1>6 DEF CreateDocument, AutoSteps
    <3>3. CASE Goto(r, "correct")
      <4>1. req'[r].kind = req[r].kind /\ req'[r].step = "correct"
        BY <1>0, <3>3 DEF ReqRecords
      <4> QED BY <3>2, <4>1, MovedPlaced
    <3> QED BY <3>1, <3>3, EndedPlaced
  <2>2. uploaded \subseteq uploaded' /\ UNCHANGED <<side, rowVars, matchVars>>
    BY <1>6 DEF CreateDocument
  <2> QED BY <2>1, <2>2, QuietPlaced DEF rowVars, matchVars
<1>7. CASE CorrectType(r)
  <2>1. req[r].step \notin AutoSteps /\ Goto(r, "discard")
    BY <1>7 DEF CorrectType, AutoSteps
  <2>2. PlacedAt(r)'
    <3>1. req'[r].kind = req[r].kind /\ req'[r].step = "discard"
      BY <1>0, <2>1 DEF ReqRecords
    <3> QED BY <2>1, <3>1, MovedPlaced
  <2>3. side' = side
    BY <1>0, <1>7 DEF CorrectType
  <2> QED BY <1>7, <2>2, <2>3, QuietPlaced DEF CorrectType, rowVars, matchVars
<1>8. CASE MapDiscard(r)
  <2>1. req[r].step \notin AutoSteps /\ Goto(r, "import") /\ req[r].doc \in Docs
    BY <1>0, <1>8 DEF MapDiscard, AutoSteps, AttachedAt, OnDocument
  <2>2. PlacedAt(r)'
    <3>1. req'[r].kind = req[r].kind /\ req'[r].step = "import"
      BY <1>0, <2>1 DEF ReqRecords
    <3> QED BY <2>1, <3>1, MovedPlaced
  <2> QED BY <1>8, <2>1, <2>2, DiscardPlaced DEF MapDiscard
<1>9. CASE MapImport(r)
  <2>1. req[r].step \notin AutoSteps /\ Goto(r, "purgeFind")
    BY <1>9 DEF MapImport, AutoSteps
  <2>2. PlacedAt(r)'
    <3>1. req'[r].kind = req[r].kind /\ req'[r].step = "purgeFind"
      BY <1>0, <2>1 DEF ReqRecords
    <3> QED BY <2>1, <3>1, MovedPlaced
  <2>3. PICK new : rowsOf' = [rowsOf EXCEPT ![req[r].doc] = @ \cup new]
    BY <1>9 DEF MapImport
  <2>4. \A d \in Docs : rowsOf[d] \subseteq rowsOf'[d]
    BY <1>0, <2>3
  <2> QED BY <1>9, <2>2, <2>4, QuietPlaced DEF MapImport, documentVars, matchVars
<1>10. CASE PurgeFind(r) \/ PurgeDelete(r)
  <2>1. \E s \in {"purgeDelete", "plan", "setMapping"} : \E ids :
           req' = [req EXCEPT ![r].step = s, ![r].ids = ids]
    BY <1>10 DEF PurgeFind, PurgeDelete
  <2>2. /\ UNCHANGED <<documentVars, rowVars>> /\ matches' \subseteq matches
    BY <1>10 DEF PurgeFind, PurgeDelete, WithoutIds, matchVars
  <2>3. PlacedAt(r)'
    <3>1. CASE req[r].kind = "auto"
      <4>1. PICK s \in {"purgeDelete", "plan"} :
                 \E ids : req' = [req EXCEPT ![r].step = s, ![r].ids = ids]
        BY <1>10, <3>1 DEF PurgeFind, PurgeDelete
      <4>2. req'[r].step = s /\ req'[r].kind = "auto" /\ req'[r].lanes = req[r].lanes
        BY <1>0, <3>1, <4>1 DEF ReqRecords
      <4>3. On("cash_book")' = On("cash_book") /\ On("bank")' = On("bank")
        BY <2>2 DEF On, documentVars
      <4> QED BY <1>0, <3>1, <4>2, <4>3 DEF PlacedAt, AutoSteps
    <3>2. CASE req[r].kind # "auto"
      <4>1. PICK s \in {"purgeDelete", "setMapping"} :
                 \E ids : req' = [req EXCEPT ![r].step = s, ![r].ids = ids]
        BY <1>10, <3>2 DEF PurgeFind, PurgeDelete
      <4>2. req'[r].kind = req[r].kind /\ req'[r].step = s
        BY <1>0, <4>1 DEF ReqRecords
      <4> QED BY <3>2, <4>2, MovedPlaced
    <3> QED BY <3>1, <3>2
  <2> QED BY <2>2, <2>3, QuietPlaced DEF documentVars, rowVars
<1>11. CASE MapSetStatus(r)
  <2>1. PlacedAt(r)'
    BY <1>11, EndedPlaced DEF MapSetStatus
  <2> QED BY <1>11, <2>1, QuietPlaced DEF MapSetStatus, documentVars, rowVars, matchVars
<1> QED BY <1>1, <1>2, <1>3, <1>4, <1>5, <1>6, <1>7, <1>8, <1>9, <1>10, <1>11 DEF ReviewStep, ImportStep

\* A change of family discards the rows before it flips the document.
LEMMA TypePlaced ==
  ASSUME Alone, TypeInv, PlacedInv, NEW r \in Requests, TypeStep(r)
  PROVE  PlacedInv'
<1>0. /\ req \in [Requests -> ReqRecords(nextMatch - 1)] /\ req[r] \in ReqRecords(nextMatch - 1)
      /\ rowsOf \in [Docs -> SUBSET (1..(nextRow - 1))] /\ side \in [Docs -> Sides]
      /\ uploaded \subseteq Docs /\ PlacedAt(r) /\ AttachedAt(r)
  BY DEF TypeInv, Typed, RowsTyped, Attached, PlacedInv
<1>1. ASSUME UNCHANGED <<documentVars, rowVars>>, matches' \subseteq matches, PlacedAt(r)'
      PROVE  PlacedInv'
  BY <1>1, QuietPlaced DEF documentVars, rowVars
<1>2. ASSUME NEW d \in Docs, BeginType(r, d) PROVE PlacedInv'
  <2>1. req'[r].kind = "type" /\ req'[r].step = "typeRows"
    BY <1>0, <1>2 DEF BeginType, Idle
  <2>2. PlacedAt(r)'
    BY <2>1 DEF PlacedAt
  <2> QED BY <1>1, <1>2, <2>2 DEF BeginType, matchVars
<1>3. CASE TypeRows(r)
  <2>1. PICK s \in {"flip", "typeFind"} :
           /\ \E rows : req' = [req EXCEPT ![r].rows = rows, ![r].step = s]
           /\ s = "flip" => rowsOf[req[r].doc] = {}
    BY <1>3 DEF TypeRows
  <2>2. req[r].step = "typeRows" /\ UNCHANGED <<documentVars, rowVars, matchVars>>
    BY <1>3 DEF TypeRows
  <2>3. req'[r].step = s /\ req'[r].kind = req[r].kind /\ req'[r].doc = req[r].doc
    BY <1>0, <2>1 DEF ReqRecords
  <2>4. PlacedAt(r)'
    BY <1>0, <2>1, <2>2, <2>3 DEF PlacedAt, AutoSteps, rowVars
  <2> QED BY <1>1, <2>2, <2>4 DEF matchVars
<1>4. CASE TypeFind(r)
  <2>1. req[r].step \notin AutoSteps
    BY <1>4 DEF TypeFind, AutoSteps
  <2>2. \E ids : req' = [req EXCEPT ![r].step = "typeDiscard", ![r].ids = ids]
    BY <1>4 DEF TypeFind
  <2>3. PlacedAt(r)'
    <3>1. req'[r].kind = req[r].kind /\ req'[r].step = "typeDiscard"
      BY <1>0, <2>2 DEF ReqRecords
    <3> QED BY <2>1, <3>1, MovedPlaced
  <2> QED BY <1>1, <1>4, <2>3 DEF TypeFind, matchVars
<1>5. CASE TypeDiscard(r)
  <2>1. req[r].step = "typeDiscard" /\ Goto(r, "sweep") /\ DiscardRows(req[r].doc) /\ UNCHANGED documentVars
    BY <1>5 DEF TypeDiscard
  <2>2. req[r].doc \in Docs
    BY <1>0, <2>1 DEF AttachedAt, OnDocument
  <2>3. req'[r].step = "sweep" /\ req'[r].kind = req[r].kind /\ req'[r].doc = req[r].doc
    BY <1>0, <2>1 DEF ReqRecords
  <2>4. rowsOf'[req[r].doc] = {}
    BY <1>0, <2>1, <2>2 DEF DiscardRows
  <2>5. PlacedAt(r)'
    BY <1>0, <2>1, <2>3, <2>4 DEF PlacedAt, AutoSteps
  <2> QED BY <2>1, <2>2, <2>5, DiscardPlaced
<1>6. ASSUME NEW id \in MatchIds, TypeSweep(r, id) PROVE PlacedInv'
  <2>1. /\ req[r].step = "sweep" /\ UNCHANGED <<documentVars, rowVars>> /\ matches' \subseteq matches
        /\ Finish(r) \/ req' = [req EXCEPT ![r].ids = @ \ {id}]
    BY <1>6 DEF TypeSweep
  <2>2. CASE Finish(r)
    BY <1>1, <2>1, <2>2, EndedPlaced
  <2>3. CASE req' = [req EXCEPT ![r].ids = @ \ {id}]
    <3>1. req'[r].step = "sweep" /\ req'[r].kind = req[r].kind /\ req'[r].doc = req[r].doc
      BY <1>0, <2>1, <2>3 DEF ReqRecords
    <3>2. PlacedAt(r)'
      BY <1>0, <2>1, <3>1 DEF PlacedAt, AutoSteps, rowVars
    <3> QED BY <1>1, <2>1, <3>2
  <2> QED BY <2>1, <2>2, <2>3
<1>7. CASE TypeFlip(r)
  <2>1. /\ side' = [side EXCEPT ![req[r].doc] = req[r].to] /\ Finish(r)
        /\ rowsOf' = rowsOf /\ matches' = matches /\ uploaded' = uploaded
        /\ rowsOf[req[r].doc] = {}
    BY <1>0, <1>7 DEF TypeFlip, PlacedAt, rowVars, matchVars
  <2>2. \A s : RowsIn(On(s)) \subseteq RowsIn(On(s))'
    BY <1>0, <2>1 DEF RowsIn, On
  <2>3. \A m \in matches' : InPlace(m)'
    BY <2>1, <2>2 DEF PlacedInv, InPlace
  <2>4. PlacedAt(r)'
    BY <2>1, EndedPlaced
  <2> QED BY <2>3, <2>4 DEF PlacedInv, Alone
<1> QED BY <1>2, <1>3, <1>4, <1>5, <1>6, <1>7 DEF TypeStep

\* What is planned is in place when it is written.
LEMMA MatchPlaced ==
  ASSUME Alone, ~Careless, TypeInv, PlacedInv, NEW r \in Requests, MatchStep(r)
  PROVE  PlacedInv'
<1>0. /\ req \in [Requests -> ReqRecords(nextMatch - 1)] /\ req[r] \in ReqRecords(nextMatch - 1)
      /\ PlacedAt(r)
  BY DEF TypeInv, Typed, PlacedInv
<1>1. ASSUME UNCHANGED <<documentVars, rowVars>>, matches' \subseteq matches, PlacedAt(r)'
      PROVE  PlacedInv'
  BY <1>1, QuietPlaced DEF documentVars, rowVars
<1>2. ASSUME UNCHANGED <<documentVars, rowVars>>
      PROVE  /\ On("cash_book")' = On("cash_book") /\ On("bank")' = On("bank")
             /\ \A p : InPlace(p)' <=> InPlace(p)
  BY <1>2 DEF On, RowsIn, InPlace, documentVars, rowVars
<1>3. CASE BeginMatch(r) \/ BeginUnmatch(r) \/ BeginClear(r)
  <2>1. PICK k \in {"match", "unmatch", "clear"}, s \in {"check", "findMatch", "clear"} : Start(r, k, s, NoDoc)
    BY <1>3 DEF BeginMatch, BeginUnmatch, BeginClear
  <2>2. PlacedAt(r)'
    BY <2>1, StartedPlaced
  <2>3. UNCHANGED <<documentVars, rowVars, matchVars>>
    BY <1>3 DEF BeginMatch, BeginUnmatch, BeginClear
  <2> QED BY <1>1, <2>2, <2>3 DEF matchVars
<1>4. CASE CheckMatch(r)
  <2>1. PICK plan : /\ \A p \in plan : InPlace(p)
                    /\ req' = [req EXCEPT ![r].step = "write", ![r].plan = plan]
    BY <1>4 DEF CheckMatch
  <2>2. req[r].step = "check" /\ UNCHANGED <<documentVars, rowVars, matchVars>>
    BY <1>4 DEF CheckMatch
  <2>3. req'[r].step = "write" /\ req'[r].kind = req[r].kind /\ req'[r].plan = plan
    BY <1>0, <2>1 DEF ReqRecords
  <2>4. PlacedAt(r)'
    BY <1>0, <1>2, <2>1, <2>2, <2>3 DEF PlacedAt, AutoSteps
  <2> QED BY <1>1, <2>2, <2>4 DEF matchVars
<1>5. CASE BeginAuto(r)
  <2>1. /\ req'[r].kind = "auto" /\ req'[r].step = "purgeFind"
        /\ req'[r].lanes = [cash |-> On("cash_book"), bank |-> On("bank")]
    BY <1>0, <1>5 DEF BeginAuto, Idle
  <2>2. UNCHANGED <<documentVars, rowVars, matchVars>>
    BY <1>5 DEF BeginAuto
  <2>3. PlacedAt(r)'
    BY <1>2, <2>1, <2>2 DEF PlacedAt, AutoSteps
  <2> QED BY <1>1, <2>2, <2>3 DEF matchVars
<1>6. CASE PlanRound(r)
  <2> DEFINE cash == RowsIn(req[r].lanes.cash) \ Matched
             bank == RowsIn(req[r].lanes.bank) \ Matched
  <2>1. PICK plan \in SUBSET Pairs(cash, bank) :
             req' = [req EXCEPT ![r].step = "recheck", ![r].plan = plan]
    BY <1>6 DEF PlanRound
  <2>2. req[r].step = "plan" /\ UNCHANGED <<documentVars, rowVars, matchVars>>
    BY <1>6 DEF PlanRound
  <2>3. req[r].kind = "auto" /\ req[r].lanes = [cash |-> On("cash_book"), bank |-> On("bank")]
    BY <1>0, <2>2 DEF PlacedAt
  <2>4. cash \subseteq RowsIn(On("cash_book")) /\ bank \subseteq RowsIn(On("bank"))
    BY <2>3
  <2>5. \A p \in plan : InPlace(p)
    <3> HIDE DEF cash, bank
    <3> QED BY <2>1, <2>4 DEF Pairs, Link, InPlace
  <2>6. /\ req'[r].step = "recheck" /\ req'[r].kind = req[r].kind /\ req'[r].plan = plan
        /\ req'[r].lanes = req[r].lanes
    BY <1>0, <2>1 DEF ReqRecords
  <2>7. PlacedAt(r)'
    <3> HIDE DEF cash, bank
    <3> QED BY <1>2, <2>2, <2>3, <2>5, <2>6 DEF PlacedAt, AutoSteps
  <2> QED BY <1>1, <2>2, <2>7 DEF matchVars
<1>7. CASE Recheck(r)
  <2> DEFINE there == {p \in req[r].plan : Items(p) \subseteq AllRows}
  <2>1. /\ req[r].step = "recheck" /\ UNCHANGED <<documentVars, rowVars, matchVars>>
        /\ Finish(r) \/ req' = [req EXCEPT ![r].step = "write", ![r].plan = there]
    BY <1>7 DEF Recheck
  <2>2. CASE Finish(r)
    BY <1>1, <2>1, <2>2, EndedPlaced DEF matchVars
  <2>3. CASE req' = [req EXCEPT ![r].step = "write", ![r].plan = there]
    <3>1. \A p \in there : InPlace(p)
      BY <1>0, <2>1 DEF PlacedAt
    <3> HIDE DEF there
    <3>2. /\ req'[r].step = "write" /\ req'[r].kind = req[r].kind /\ req'[r].plan = there
          /\ req'[r].lanes = req[r].lanes
      BY <1>0, <2>3 DEF ReqRecords
    <3>3. PlacedAt(r)'
      BY <1>0, <1>2, <2>1, <3>1, <3>2 DEF PlacedAt, AutoSteps
    <3> QED BY <1>1, <2>1, <3>3 DEF matchVars
  <2> QED BY <2>1, <2>2, <2>3
<1>8. CASE WriteMatches(r)
  <2> DEFINE plan == req[r].plan
             done == [req[r] EXCEPT !.step = "plan", !.plan = {}]
  <2>1. /\ req[r].step = "write" /\ UNCHANGED <<documentVars, rowVars>>
        /\ \/ matches' = matches /\ Finish(r)
           \/ /\ matches' = matches \cup Numbered(plan)
              /\ req' = [req EXCEPT ![r] = IF req[r].kind = "auto" THEN done ELSE Idle]
    BY <1>0, <1>8 DEF WriteMatches, matchVars
  <2>2. PlacedAt(r)'
    <3>1. CASE req' = [req EXCEPT ![r] = Idle]
      BY <3>1, EndedPlaced
    <3>2. CASE req[r].kind = "auto" /\ req' = [req EXCEPT ![r] = done]
      <4>1. done.step = "plan" /\ done.kind = "auto" /\ done.lanes = req[r].lanes
        BY <1>0, <3>2 DEF ReqRecords
      <4>2. req'[r] = done
        BY <1>0, <3>2
      <4> HIDE DEF done
      <4> QED BY <1>0, <1>2, <2>1, <3>2, <4>1, <4>2 DEF PlacedAt, AutoSteps
    <3> QED BY <2>1, <3>1, <3>2
  <2>3. \A m \in Numbered(plan) : InPlace(m)
    <3>1. ASSUME NEW m \in Numbered(plan) PROVE InPlace(m)
      <4>1. PICK p \in plan : m.cash = p.cash /\ m.bank = p.bank
        BY DEF Numbered
      <4> QED BY <1>0, <2>1, <4>1 DEF PlacedAt, InPlace
    <3> QED BY <3>1
  <2>4. \A m \in matches' : InPlace(m)'
    <3> HIDE DEF plan
    <3> QED BY <1>2, <2>1, <2>3 DEF PlacedInv
  <2> QED BY <2>2, <2>4 DEF PlacedInv, Alone
<1>9. CASE FindMatch(r)
  <2>1. req[r].step \notin AutoSteps
    BY <1>9 DEF FindMatch, AutoSteps
  <2>2. \E ids : req' = [req EXCEPT ![r].step = "remove", ![r].ids = ids]
    BY <1>9 DEF FindMatch
  <2>3. PlacedAt(r)'
    <3>1. req'[r].kind = req[r].kind /\ req'[r].step = "remove"
      BY <1>0, <2>2 DEF ReqRecords
    <3> QED BY <2>1, <3>1, MovedPlaced
  <2> QED BY <1>1, <1>9, <2>3 DEF FindMatch, matchVars
<1>10. CASE RemoveMatch(r) \/ ClearMatches(r)
  <2>1. PlacedAt(r)'
    BY <1>10, EndedPlaced DEF RemoveMatch, ClearMatches
  <2> QED BY <1>1, <1>10, <2>1 DEF RemoveMatch, ClearMatches, WithoutIds
<1> QED BY <1>3, <1>4, <1>5, <1>6, <1>7, <1>8, <1>9, <1>10 DEF MatchStep

\* Requests that do not overlap and clients that name the sides right never link
\* two rows of one side, through every remapping and every change of a document's
\* family; AUTO_CORRECT_DOC_TYPE is off, since that one keeps the rows.
THEOREM SerialPairsCrossSides ==
  ASSUME Alone, ~Careless, ~AutoCorrect
  PROVE  Spec => []PairsAcrossSides
<1>1. Init => PlacedInv
  BY DEF Init, PlacedInv, PlacedAt, Idle
<1>2. TypeInv /\ PlacedInv /\ [Next]_vars => PlacedInv'
  <2>1. ASSUME TypeInv, PlacedInv, Next PROVE PlacedInv'
    BY <2>1, ImportPlaced, TypePlaced, MatchPlaced DEF Next
  <2>2. ASSUME PlacedInv, UNCHANGED vars PROVE PlacedInv'
    BY <2>2 DEF vars, documentVars, rowVars, matchVars, PlacedInv, PlacedAt, InPlace, On, RowsIn
  <2> QED BY <2>1, <2>2
<1>3. PlacedInv => PairsAcrossSides
  BY DEF PlacedInv, PairsAcrossSides
<1> QED BY <1>1, <1>2, <1>3, TypeInvariant, PTL DEF Spec
=============================================================================
