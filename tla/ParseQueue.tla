----------------------------- MODULE ParseQueue -----------------------------
(***************************************************************************)
(* The deferred parse / auto-map queue of the API: Document.parseStatus as *)
(* the durable queue, the DB poller, the BullMQ worker and the in-process  *)
(* kick that all claim from it, the runs they start, the upload handler    *)
(* that feeds it, the manual map handler beside it, and process crashes.   *)
(*   api/src/lib/parseJobQueue.ts, parseJobBullmq.ts, documentParseJob.ts, *)
(*   api/src/lib/deferredAutoMap.ts, api/src/worker/parseWorker.ts,        *)
(*   api/src/services/autoMapDocument.ts                                   *)
(* An action is the code between two database calls of one asynchronous    *)
(* function: everything else may run at each await.                        *)
(***************************************************************************)
EXTENDS Naturals, FiniteSets, Sequences

CONSTANTS
  Docs,        \* documents that get uploaded
  NoDoc,       \* not a document
  Procs,       \* node processes that run startParseJobWorker
  Api,         \* the process that serves HTTP; in Procs iff PARSE_JOB_IN_API
  Drains,      \* overlapping calls of drainOnce in one process
  Runs,        \* bound: executions of tryAutoMapDocument or /map at one time
  MaxActive,   \* PARSE_JOB_CONCURRENCY
  DeferMap,    \* DEFER_AUTO_MAP_ON_UPLOAD
  SlowJobs,    \* may a live run outlast PARSE_JOB_STALE_MS?
  ManualMaps,  \* may a user POST /documents/:id/map?
  MaxFaults    \* bound: process crashes and swallowed database errors

ASSUME QueueAssumption ==
  /\ NoDoc \notin Docs
  /\ MaxActive \in Nat \ {0}
  /\ MaxFaults \in Nat
  /\ IsFiniteSet(Runs) /\ IsFiniteSet(Drains)
  /\ {DeferMap, SlowJobs, ManualMaps} \subseteq BOOLEAN

VARIABLES
  parseStatus,  \* Document.parseStatus; "absent" before the row exists
  stale,        \* documents whose parseStartedAt is older than the cutoff
  arrived,      \* documents in order of createdAt
  upload,       \* how far the upload handler of a document has got
  jobs,         \* BullMQ jobs waiting, per document
  drain,        \* the drainOnce calls
  active,       \* the poller's count of its runs, per process
  run,          \* the runs
  copies,       \* how many times the file's rows are in Transaction
  faults,       \* faults so far
  overlapped    \* history: documents that ever had two live runs at once

docVars == <<parseStatus, stale>>
feedVars == <<arrived, upload, jobs>>
pollVars == <<drain, active>>
vars == <<docVars, feedVars, pollVars, run, copies, faults, overlapped>>

Statuses == {"absent", "ready", "pending", "processing", "failed"}
Settled  == {"ready", "failed"}

Free == [step |-> "free", doc |-> NoDoc, proc |-> Api, via |-> "api"]
RunRecords ==
  [step : {"free", "claiming", "handed", "begin", "parsing", "deleted", "created"},
   doc  : Docs \cup {NoDoc},
   proc : Procs \cup {Api},
   via  : {"poll", "bull", "api", "inline", "manual"}]

Idle == [step |-> "idle", pick |-> NoDoc]
DrainRecords ==
  [step : {"idle", "reclaim", "find", "claim", "spawn"}, pick : Docs \cup {NoDoc}]

Init ==
  /\ parseStatus = [d \in Docs |-> "absent"]
  /\ stale = {}
  /\ arrived = <<>>
  /\ upload = [d \in Docs |-> "none"]
  /\ jobs = [d \in Docs |-> 0]
  /\ drain = [p \in Procs |-> [k \in Drains |-> Idle]]
  /\ active = [p \in Procs |-> 0]
  /\ run = [r \in Runs |-> Free]
  /\ copies = [d \in Docs |-> 0]
  /\ faults = 0
  /\ overlapped = {}

\* The run has passed its claim, or never needed one.
Live(r) == run[r].step \notin {"free", "claiming"}

LiveOn(d) == {r \in Runs : Live(r) /\ run[r].doc = d}

SetStatus(d, s) == parseStatus' = [parseStatus EXCEPT ![d] = s]

\* A status update of d restarts or ends what parseStartedAt measures.
Restamp(d) == stale' = stale \ {d}

Occupy(r, step, d, p, via) ==
  /\ run[r] = Free
  /\ run' = [run EXCEPT ![r] = [step |-> step, doc |-> d, proc |-> p, via |-> via]]

Advance(r, step) == run' = [run EXCEPT ![r].step = step]

-----------------------------------------------------------------------------
(* The upload handler and scheduleDeferredAutoMap.                         *)

\* The Document row is created; its parseStatus defaults to "ready".
CreateDocument(d) ==
  /\ parseStatus[d] = "absent"
  /\ SetStatus(d, "ready")
  /\ arrived' = Append(arrived, d)
  /\ upload' = [upload EXCEPT ![d] = "created"]
  /\ UNCHANGED <<stale, jobs, pollVars, run, copies, faults>>

\* autoMapAfterUpload, deferred: markDocumentParsePending.
MarkPending(d) ==
  /\ upload[d] = "created" /\ DeferMap
  /\ SetStatus(d, "pending")
  /\ Restamp(d)
  /\ upload' = [upload EXCEPT ![d] = "queued"]
  /\ UNCHANGED <<arrived, jobs, pollVars, run, copies, faults>>

\* autoMapAfterUpload, not deferred: the run is part of the upload request.
MapInline(d, r) ==
  /\ upload[d] = "created" /\ ~DeferMap
  /\ Occupy(r, "begin", d, Api, "inline")
  /\ upload' = [upload EXCEPT ![d] = "done"]
  /\ UNCHANGED <<docVars, arrived, jobs, pollVars, copies, faults>>

\* scheduleDeferredAutoMap: the BullMQ add may fail, and the API process kicks
\* an immediate claim when it runs jobs itself.
Schedule(d, r) ==
  /\ upload[d] = "queued"
  /\ upload' = [upload EXCEPT ![d] = "done"]
  /\ \E added \in {0, 1} : jobs' = [jobs EXCEPT ![d] = @ + added]
  /\ IF Api \in Procs
     THEN Occupy(r, "claiming", d, Api, "api")
     ELSE UNCHANGED run
  /\ UNCHANGED <<docVars, arrived, pollVars, copies, faults>>

-----------------------------------------------------------------------------
(* Claims: BullMQ's worker, the immediate kick and the poller.             *)

BullRuns(p) == {r \in Runs : run[r].step # "free" /\ run[r].via = "bull" /\ run[r].proc = p}

BullTake(p, d, r) ==
  /\ jobs[d] > 0
  /\ Cardinality(BullRuns(p)) < MaxActive
  /\ jobs' = [jobs EXCEPT ![d] = @ - 1]
  /\ Occupy(r, "claiming", d, p, "bull")
  /\ UNCHANGED <<docVars, arrived, upload, pollVars, copies, faults>>

\* Mutant: read the status, then update without the status in the WHERE.
ClaimAnything(r) ==
  /\ run[r].step = "claiming"
  /\ SetStatus(run[r].doc, "processing")
  /\ Restamp(run[r].doc)
  /\ Advance(r, "begin")
  /\ UNCHANGED <<feedVars, pollVars, copies, faults>>

\* claimParseDocument: one conditional update, pending -> processing.  The
\* signal is dropped when the document is no longer pending.
ClaimSignalled(r) ==
  /\ run[r].step = "claiming"
  /\ IF parseStatus[run[r].doc] = "pending"
     THEN /\ SetStatus(run[r].doc, "processing")
          /\ Restamp(run[r].doc)
          /\ Advance(r, "begin")
     ELSE /\ run' = [run EXCEPT ![r] = Free]
          /\ UNCHANGED docVars
  /\ UNCHANGED <<feedVars, pollVars, copies, faults>>

SetDrain(p, k, step, d) ==
  drain' = [drain EXCEPT ![p][k] = [step |-> step, pick |-> d]]

\* drainOnce is called by the interval timer or the BRPOP loop, whether or not
\* an earlier call is still waiting for the database.
DrainStart(p, k) ==
  /\ drain[p][k].step = "idle"
  /\ active[p] < MaxActive
  /\ SetDrain(p, k, "reclaim", NoDoc)
  /\ UNCHANGED <<docVars, feedVars, active, run, copies, faults>>

\* Mutant: every processing document is taken for stale.
ReclaimAll(p, k) ==
  /\ drain[p][k].step = "reclaim"
  /\ parseStatus' = [d \in Docs |-> IF parseStatus[d] = "processing" THEN "pending"
                                    ELSE parseStatus[d]]
  /\ stale' = {}
  /\ SetDrain(p, k, "find", NoDoc)
  /\ UNCHANGED <<feedVars, active, run, copies, faults>>

\* Mutant: stale documents are never given back.
ReclaimNothing(p, k) ==
  /\ drain[p][k].step = "reclaim"
  /\ SetDrain(p, k, "find", NoDoc)
  /\ UNCHANGED <<docVars, feedVars, active, run, copies, faults>>

\* reclaimStaleProcessing: one conditional update over all documents.
DrainReclaim(p, k) ==
  /\ drain[p][k].step = "reclaim"
  /\ parseStatus' = [d \in Docs |-> IF d \in stale THEN "pending" ELSE parseStatus[d]]
  /\ stale' = {}
  /\ SetDrain(p, k, "find", NoDoc)
  /\ UNCHANGED <<feedVars, active, run, copies, faults>>

Pending == {i \in 1..Len(arrived) : parseStatus[arrived[i]] = "pending"}

\* The oldest pending document, or the end of this drainOnce.
DrainFind(p, k) ==
  /\ drain[p][k].step = "find"
  /\ IF Pending = {}
     THEN SetDrain(p, k, "idle", NoDoc)
     ELSE \E i \in Pending :
            /\ \A j \in Pending : i <= j
            /\ SetDrain(p, k, "claim", arrived[i])
  /\ UNCHANGED <<docVars, feedVars, active, run, copies, faults>>

\* The claim of what findFirst returned; a lost race ends this drainOnce.
DrainClaim(p, k, r) ==
  LET d == drain[p][k].pick IN
  /\ drain[p][k].step = "claim"
  /\ IF parseStatus[d] = "pending"
     THEN /\ SetStatus(d, "processing")
          /\ Restamp(d)
          /\ Occupy(r, "handed", d, p, "poll")
          /\ SetDrain(p, k, "spawn", d)
     ELSE /\ SetDrain(p, k, "idle", NoDoc)
          /\ UNCHANGED <<docVars, run>>
  /\ UNCHANGED <<feedVars, active, copies, faults>>

\* Mutant: the loop goes on without another look at the limit.
SpawnAndGoOn(p, k, r) ==
  /\ drain[p][k].step = "spawn"
  /\ run[r] = [step |-> "handed", doc |-> drain[p][k].pick, proc |-> p, via |-> "poll"]
  /\ active' = [active EXCEPT ![p] = @ + 1]
  /\ Advance(r, "begin")
  /\ SetDrain(p, k, "reclaim", NoDoc)
  /\ UNCHANGED <<docVars, feedVars, copies, faults>>

\* Only now is the run counted; the loop condition is then read again.
DrainSpawn(p, k, r) ==
  /\ drain[p][k].step = "spawn"
  /\ run[r] = [step |-> "handed", doc |-> drain[p][k].pick, proc |-> p, via |-> "poll"]
  /\ active' = [active EXCEPT ![p] = @ + 1]
  /\ Advance(r, "begin")
  /\ SetDrain(p, k, IF active[p] + 1 < MaxActive THEN "reclaim" ELSE "idle", NoDoc)
  /\ UNCHANGED <<docVars, feedVars, copies, faults>>

-----------------------------------------------------------------------------
(* tryAutoMapDocument, and the map handler from where it applies.          *)

\* Mutant: nothing counts a run out.
DoneUncounted(r) ==
  /\ run' = [run EXCEPT ![r] = Free]
  /\ active' = active

\* Mutant: every run counts itself out, whoever started it.
DoneAlwaysCounts(r) ==
  /\ run' = [run EXCEPT ![r] = Free]
  /\ active' = [active EXCEPT ![run[r].proc] = @ - 1]

\* The run ends; a poller's run is counted out in finally.
Done(r) ==
  /\ run' = [run EXCEPT ![r] = Free]
  /\ active' = IF run[r].via = "poll"
               THEN [active EXCEPT ![run[r].proc] = @ - 1]
               ELSE active

\* markDocumentParseProcessing: unconditional.
RunBegin(r) ==
  /\ run[r].step = "begin"
  /\ SetStatus(run[r].doc, "processing")
  /\ Restamp(run[r].doc)
  /\ Advance(r, "parsing")
  /\ UNCHANGED <<feedVars, pollVars, copies, faults>>

\* Auto-map is switched off, or is not sure of the columns: ready, unmapped.
RunSkip(r) ==
  /\ run[r].step \in {"begin", "parsing"} /\ run[r].via # "manual"
  /\ SetStatus(run[r].doc, "ready")
  /\ Restamp(run[r].doc)
  /\ Done(r)
  /\ UNCHANGED <<feedVars, drain, copies, faults>>

\* Parsing, the limit check or a write throws: markDocumentParseFailed, or a
\* 4xx/5xx of the map handler, which leaves the status alone.
RunFail(r) ==
  /\ run[r].step \in {"begin", "parsing", "deleted", "created"}
  /\ IF run[r].via = "manual"
     THEN UNCHANGED docVars
     ELSE SetStatus(run[r].doc, "failed") /\ Restamp(run[r].doc)
  /\ Done(r)
  /\ UNCHANGED <<feedVars, drain, copies, faults>>

\* Mutant: rows of an earlier mapping are not removed first.
RunKeepsOldRows(r) ==
  /\ run[r].step = "parsing"
  /\ Advance(r, "deleted")
  /\ UNCHANGED <<docVars, feedVars, pollVars, copies, faults>>

\* applyDocumentMapping: deleteMany ...
RunDelete(r) ==
  /\ run[r].step = "parsing"
  /\ copies' = [copies EXCEPT ![run[r].doc] = 0]
  /\ Advance(r, "deleted")
  /\ UNCHANGED <<docVars, feedVars, pollVars, faults>>

\* ... and createMany, which are not in one database transaction.
RunCreate(r) ==
  /\ run[r].step = "deleted"
  /\ copies' = [copies EXCEPT ![run[r].doc] = @ + 1]
  /\ Advance(r, "created")
  /\ UNCHANGED <<docVars, feedVars, pollVars, faults>>

\* markDocumentParseReady: unconditional.
RunReady(r) ==
  /\ run[r].step = "created"
  /\ SetStatus(run[r].doc, "ready")
  /\ Restamp(run[r].doc)
  /\ Done(r)
  /\ UNCHANGED <<feedVars, drain, copies, faults>>

\* The final status update fails and its error is swallowed by .catch.
RunLost(r) ==
  /\ run[r].step \in {"begin", "parsing", "deleted", "created"}
  /\ faults < MaxFaults
  /\ faults' = faults + 1
  /\ Done(r)
  /\ UNCHANGED <<docVars, feedVars, drain, copies>>

\* POST /documents/:id/map claims nothing and reads no parseStatus.
ManualMap(d, r) ==
  /\ ManualMaps
  /\ parseStatus[d] # "absent"
  /\ Occupy(r, "parsing", d, Api, "manual")
  /\ UNCHANGED <<docVars, feedVars, pollVars, copies, faults>>

-----------------------------------------------------------------------------
(* Time and crashes.                                                       *)

\* A document has been processing for longer than PARSE_JOB_STALE_MS.
GoStale(d) ==
  /\ parseStatus[d] = "processing" /\ d \notin stale
  /\ SlowJobs \/ LiveOn(d) = {}
  /\ stale' = stale \cup {d}
  /\ UNCHANGED <<parseStatus, feedVars, pollVars, run, copies, faults>>

\* Process p exits (SIGTERM, crash) and is restarted: its memory is lost, the
\* rows stay, BullMQ delivers the jobs it was working on again.
Crash(p) ==
  /\ faults < MaxFaults
  /\ faults' = faults + 1
  /\ run' = [r \in Runs |-> IF run[r].proc = p THEN Free ELSE run[r]]
  /\ jobs' = [d \in Docs |-> jobs[d] + Cardinality({r \in BullRuns(p) : run[r].doc = d})]
  /\ IF p \in Procs
     THEN /\ drain' = [drain EXCEPT ![p] = [k \in Drains |-> Idle]]
          /\ active' = [active EXCEPT ![p] = 0]
     ELSE UNCHANGED pollVars
  /\ upload' = IF p = Api
               THEN [d \in Docs |-> IF upload[d] = "none" THEN "none" ELSE "done"]
               ELSE upload
  /\ UNCHANGED <<docVars, arrived, copies>>

\* BullMQ takes a job for stalled whose worker is still at it (a parse that
\* blocks the event loop past the lock's renewal) and delivers it again.
Redeliver(r) ==
  /\ run[r].step # "free" /\ run[r].via = "bull"
  /\ faults < MaxFaults
  /\ faults' = faults + 1
  /\ jobs' = [jobs EXCEPT ![run[r].doc] = @ + 1]
  /\ UNCHANGED <<docVars, arrived, upload, pollVars, run, copies>>

-----------------------------------------------------------------------------
DrainStep(p, k) ==
  \/ DrainStart(p, k) \/ DrainReclaim(p, k) \/ DrainFind(p, k)
  \/ \E r \in Runs : DrainClaim(p, k, r) \/ DrainSpawn(p, k, r)

RunStep(r) ==
  \/ ClaimSignalled(r) \/ RunBegin(r) \/ RunSkip(r) \/ RunFail(r)
  \/ RunDelete(r) \/ RunCreate(r) \/ RunReady(r)

FeedStep(d) ==
  MarkPending(d) \/ \E r \in Runs : MapInline(d, r) \/ Schedule(d, r)

Step ==
  \/ \E p \in Procs : \E k \in Drains : DrainStep(p, k)
  \/ \E r \in Runs : RunStep(r) \/ RunLost(r) \/ Redeliver(r)
  \/ \E d \in Docs :
       \/ CreateDocument(d) \/ FeedStep(d) \/ GoStale(d)
       \/ \E r \in Runs : ManualMap(d, r) \/ \E p \in Procs : BullTake(p, d, r)
  \/ \E p \in Procs \cup {Api} : Crash(p)

Next ==
  /\ Step
  /\ overlapped' = overlapped \cup
       {d \in Docs : \E r, s \in Runs : r # s /\ r \in LiveOn(d)' /\ s \in LiveOn(d)'}

Spec == Init /\ [][Next]_vars

\* The event loop of a live process runs what is ready, the interval timer
\* keeps calling drainOnce, and time passes.  Users owe nothing.
FairSpec ==
  /\ Spec
  /\ \A p \in Procs : \A k \in Drains : WF_vars(DrainStep(p, k) /\ Next)
  /\ \A r \in Runs : WF_vars(RunStep(r) /\ Next)
  /\ \A d \in Docs : WF_vars(FeedStep(d) /\ Next) /\ WF_vars(GoStale(d) /\ Next)

-----------------------------------------------------------------------------
TypeOK ==
  /\ parseStatus \in [Docs -> Statuses]
  /\ stale \subseteq Docs
  /\ arrived \in Seq(Docs)
  /\ upload \in [Docs -> {"none", "created", "queued", "done"}]
  /\ jobs \in [Docs -> Nat]
  /\ drain \in [Procs -> [Drains -> DrainRecords]]
  /\ active \in [Procs -> Nat]
  /\ run \in [Runs -> RunRecords]
  /\ copies \in [Docs -> Nat]
  /\ faults \in 0..MaxFaults
  /\ overlapped \subseteq Docs

\* A document is worked on by one run at a time: of the poller of every
\* process, the BullMQ workers, redelivered jobs and the in-process kick, the
\* conditional update lets one through.
OneRunPerDocument ==
  \A r, s \in Runs : Live(r) /\ Live(s) /\ run[r].doc = run[s].doc => r = s

\* api/src/lib/parseJobBullmq.ts:64 says that the claim on Document.parseStatus
\* "prevents double-processing": no two runs that claimed a document are in it.
ClaimPreventsDoubleProcessing ==
  \A r, s \in Runs :
    /\ Live(r) /\ Live(s) /\ run[r].doc = run[s].doc
    /\ {run[r].via, run[s].via} \subseteq {"poll", "bull", "api"}
    => r = s

\* A document that clients see as ready, failed or pending has no run past its
\* claim that could still replace its rows (an inline run that has not marked
\* the document yet excepted).
OnlyProcessingIsWorkedOn ==
  \A r \in Runs :
    Live(r) => \/ parseStatus[run[r].doc] = "processing"
               \/ run[r].via = "inline" /\ run[r].step = "begin"

\* However runs interleave, crash and repeat, the file's rows are stored twice
\* only after two runs were inside the same document at once.
DoubleImportNeedsOverlap == \A d \in Docs : copies[d] > 1 => d \in overlapped

\* The poller's counter is the number of its runs, whatever way they ended.
ActiveCountsRuns ==
  \A p \in Procs :
    active[p] = Cardinality({r \in Runs : /\ run[r].step \notin {"free", "handed"}
                                          /\ run[r].via = "poll"
                                          /\ run[r].proc = p})

\* drainOnce checks the limit before it awaits the claim and counts after it:
\* the limit is overrun by at most one run for each further drainOnce call.
PollerOverrunBounded ==
  \A p \in Procs : active[p] < MaxActive + Cardinality(Drains)

\* A queued document ends up ready or failed, through crashes, lost status
\* updates, lost signals and lost races for the claim.
QueuedDocumentsSettle ==
  \A d \in Docs :
    parseStatus[d] \in {"pending", "processing"} ~> parseStatus[d] \in Settled

=============================================================================
