# Verification of the bank reconciliation service

TLA+ models, TLC runs and TLAPS proofs of the API in `src/api`: accountants upload
cash books and bank statements to a project, the service parses and imports them,
matches their rows, and carries the project through review; around that stand the
workspace's members, plan, payments and what it has learned.  This file is the
inventory, the correspondence with the code, what each run and proof shows, and the plan.

## 1. The system

| Part | State | Operations | Properties that make it correct |
|---|---|---|---|
| OCR gate (`lib/asyncSemaphore.ts`, `lib/ocrGate.ts`) | counter and queue, per process | acquire, wait timeout, recognise, OCR timeout, release | exact count, no idle slot, order, every call answered |
| Parse queue (`lib/parseJobQueue.ts`, `parseJobBullmq.ts`, `deferredAutoMap.ts`, `documentParseJob.ts`) | `Document.parseStatus`, BullMQ jobs, `active` per process | enqueue, claim, drain, reclaim stale, crash | one run per document, queued documents settle |
| Automatic mapping and import (`services/autoMapDocument.ts`, `applyDocumentMapping.ts`, `purgeOrphanMatches.ts`) | rows, document type, project status | correct type, replace rows, purge orphans | rows are not doubled, no orphan stays |
| Documents (`routes/upload.ts`, `documents.ts`, `services/changeDocumentType.ts`) | documents | upload, map, change family | edits only while the project is open |
| Matching (`routes/reconcile.ts`, `services/autoCompleteMatching.ts`) | `Match`, `MatchItem` | match, multi, bulk, auto-complete, unmatch, clear | no row in two matches, sides agree with documents |
| Review workflow (`routes/projects.ts`) | `Project.status`, signatures | submit, approve, reopen, undo, delete | what is approved is what was submitted |
| Extract check (`services/ingestMeta.ts`, `statementBalanceChecksum.ts`) | `Document.ingestMeta` | store a verdict, confirm, gate matching | a failed extract pauses matching, a confirmation stays |
| Billing (`routes/subscription.ts`, `services/paystackFulfillment.ts`, `planChange.ts`, `subscriptionState.ts`, `orgSubscriptionAccess.ts`) | payments, plan, scheduled change, access cache | checkout, fulfil, downgrade, cancel, ask for access | a plan is paid for, a credit is spent once, a payer gets in |
| Usage meter and caps (`services/usage.ts`, `planLimits.ts`, `routes/bank-accounts.ts`) | `UsageLog`, counted rows | check, charge, give back | limits overrun only by what races, meter agrees with rows |
| Members (`services/orgInvite.ts`, `routes/settings.ts`, `auth.ts`, `middleware/auth.ts`) | members, invitations | invite, add, accept, revoke, remove, change role | seats, nobody uninvited, somebody left |
| Roll-forward (`services/brsRollForward.ts`, `brsCanonicalSchedule.ts`, `routes/report.ts`) | chain of projects, read-only computation | open a period, import, pair, reopen, delete; report | an outstanding cheque is deducted once |
| Learned memory (`services/organizationMatchMemory.ts`, `documentLayoutMemory.ts`) | memories, last confirmed | learn, use, forget, prune | the cap settles, the newest survives |
| Parsers, suggestion heuristics, layout of reports, administration, web client | (none the above relies on) | | not modelled |

How they interact.  The upload handler creates a `Document` and, by default, marks it
`pending` and enqueues it.  A job is claimed by one conditional update, in the API
process or in the `parse-worker` process; it parses (through the OCR gate), imports
rows, purges orphan matches, sets the project's status, moves the meter and stores the
verdict on the extract.  Users meanwhile map documents by hand, confirm extracts, match,
submit and approve; every request passes the seat gate and the access decision.  All of
it shares the database: a handler is a sequence of separate calls, and only the creation
of matches, the undo, the acceptance of an invitation and the fulfilment of a payment
are database transactions.

What is hard here: check-then-act across awaits, non-transactional replacement of rows,
read-merge-write of one JSON value, jobs beside requests, crashes in the middle of a
job, a timeout that does not cancel what it timed out, redelivery by the queue and by
Paystack, a cache filled from an old read, and long sequences of legal requests (upload,
match, remap, change of family, submit, reopen, roll forward).  `PROJECT.json` lists
each hazard with its line and the properties that cover it.

## 2. Modules

| Module | Models | State and actions |
|---|---|---|
| `OcrGate` | the gate, one invocation per element of `Calls` | `active`, `queue` are the semaphore's; an action is the code between two awaits or a timer callback |
| `SlotPool` | abstract: a pool of slots with waiters | implemented by `OcrGate` (`ImplementsSlotPool`) |
| `ParseQueue` | the deferred queue, both processes, the effect of a run on the rows | `parseStatus`/`stale` are the row; `jobs` BullMQ; `drain`, `active` the poller; `run` the runs under way; `copies` how often the rows were imported |
| `Reconciliation` | one project, its documents, rows, matches and every handler that writes them | one action per database call that matters; `req` holds what handlers have read and not yet written |
| `SignOff` | abstract: the review workflow as its users know it | implemented by `Reconciliation` while requests do not overlap (`ImplementsSignOff`) |
| `Billing` | one organisation's payments and plan | `checkout` is what Paystack knows, `pay`/`rows` the `Payment` table in the order of `createdAt`, `schedule` and `cache` the setting and the cached decision; `req` the handlers |
| `Entitlement` | abstract: payments, the plan, the change to come | implemented by `Billing` while handlers do not meet (`ImplementsEntitlement`) |
| `Members` | invitations, memberships, the seat gate | `clerk` the handlers; ids stand for `createdAt` |
| `UsageMeter` | imports, the month's meter | `rows` per document, `meter` per month, `import` the handlers |
| `PlanQuotas` | caps on projects and bank accounts, identical files | `call` the handlers; numbers stand for `createdAt` |
| `IngestCheck` | verdict, confirmation, the gate of matching | `extract` is what the rows would check as, `meta` what is stored |
| `RollForward` | the chain of periods and what their statements list | the state is the books; `OutstandingAt`, `BroughtForward`, `Face` are the computations |
| `LearnedMemory` | learning, touching, forgetting, pruning | `recent` is the table in the order of the last confirmation |
| `MC*` | constants, symmetry and the composition `MCWorkspace` for TLC | |
| `*Proofs` | theorems and proofs of the module they are named for | |
| `WorkspaceProofs` | theorems and proofs of `RollForward`, `UsageMeter`, `LearnedMemory` and of `MCWorkspace` | |

`MCWorkspace` puts six modules that share no state into one specification: a behaviour
chooses the part it works on (`part`) and leaves the others as they began, so TLC visits
the sum of their states and not the product.

Definitions whose comment begins with `Mutant:` belong to no specification.  Each is a
plausible bug; putting it in place of the definition below it makes TLC refute a property
(`PROJECT.json`, `mutants`).

### Abstractions

*OcrGate*: timers fire at any time after they start; `LateSettle` is the recognition
that outlives its timeout.

*ParseQueue*: parsing is one step with the outcomes of `tryAutoMapDocument`; a document
is stale (`PARSE_JOB_STALE_MS`) when `GoStale` says so, for a run still alive only with
`SlowJobs`; the Redis list only wakes `drainOnce`, which may start at any time anyway; a
failed BullMQ add is a choice in `Schedule`; `Redeliver` is BullMQ's stalled check,
modelled from outside `src/`.  `copies[d] > 1` means rows imported twice.

*Reconciliation*: a document has a family (cash book or bank) and not the four types;
amounts, dates and text are gone; the suggestion engine and the client choose any
disjoint pairs or sets of rows; the match endpoints do not compare a row's document with
the side the client names, and neither does the model.  Early returns (validation,
quota, thresholds, checksum block) and crashes are `GiveUp`.  `Recheck`, `CheckMatch` and
`TypeSweep` merge reads that follow each other without a write; the transaction that
follows checks again through the unique index and the foreign key.

*Billing*: money is whole units, a plan is its place in the sort order, time is a clock
of ticks and a period has one length.  The introductory offer, contract plans, yearly and
quarterly periods, trials, operator overrides, a target plan that was made inactive and
the worker's own copy of the access cache are left out.  A charge that is delivered
again after it was recorded sets the plan again and clears the schedule, as the code
does; the history variable `disturbed` keeps that out of the refinement.

*Members*: the secret in the link is not kept (a replaced link finds no row); what the
plan allows varies through `OtherLimits` and not by a step of its own.  Adding a person
who has a pending invitation counts two seats, as in the code, and no guard keeps the
last admin from being demoted.  *UsageMeter*: an import is a number of rows; once
imports have met on a document or an update was lost (`disturbed`, `lost`) no further
one is followed.  *PlanQuotas*: one file is uploaded again and again; the account named
by an upload is not tied to the project, as in the code; clean exports are counted
exactly as projects are.  *IngestCheck*: the arithmetic of the check is a choice
between "ties" and "fails"; the parse method and the locale in the same JSON value are
left out.  *RollForward*: a cheque is a number with an amount; a match may use any bank
line, so cheques are independent; levies, payments without a key, netting in the
workbook, the visibility of seats and the GT EUR schedule are left out.
*LearnedMemory*: layouts and matches prune alike and share the model (`book` tells them
apart); a bulk learn is several learns.

## 3. Runs

| Run | Bounds | Shows |
|---|---|---|
| `ocr_gate` | 4 calls, 2 slots, fair | exact counter, no idle slot, queue = waiters, cap until a timeout, order, every call answered, implements `SlotPool` |
| `queue_jobs` | 1 document, API and worker, 3 runs, 2 faults, fair | one run per document; only `processing` documents are worked on; queued documents become ready or failed |
| `queue_poller` | API alone, 2 drains, 3 runs, slow jobs, manual maps, not deferred, 1 fault | `active` exact; overrun bounded by the drains in flight; rows double only after an overlap |
| `queue_slow` (violation) | slow jobs | a live job is reclaimed and processed twice |
| `project_serial` | 2 documents, 4 rows, 2 matches, all requests, one at a time, faults, clients that name sides right | implements `SignOff`; pairs stay between a cash book and a bank statement |
| `project_overlap` | 2 requests at once, 3 rows, 2 matches, any client | no row in two matches; orphans are purged |
| `project_lock` (violation) | 1 request at a time, deferred job | a job edits a submitted project |
| `project_remap` (violation) | 1 request at a time | a match with one side only survives a remap |
| `billing` | 2 handlers, 3 checkouts, one paid plan, a period of 2 in 3 ticks, 1 fault, replays | a plan was paid for; a credit is spent twice only side by side; a payer is let in; a payment admits; handlers that do not meet implement `Entitlement` |
| `billing_free` (violation) | 1 handler | a former subscriber on the Free plan is expired and shut out |
| `workspace` | 2 requests and 2 or 3 things per part | members, meter, caps, extract check, roll-forward, learned memory: see below |
| `roll_forward` (violation) | 1 cheque, 3 periods | a cheque that cleared in the second period is brought forward into the third |

What `workspace` checks, part by part.  Members: seats are overrun by less than the
requests in flight unless a count was torn between its two halves
(`SeatsOverrunBounded`); under every plan an admin is served before the others
(`AdminsKeepTheirSeats`); a workspace is emptied only by removals that counted side by
side (`EmptyOnlySideBySide`); nobody enters by a withdrawn invitation
(`NobodyJoinsUninvited`).  Meter: the month's overrun is bounded by the imports that
were admitted beside each other (`MonthOverrunBounded`), and a quiet meter agrees with
the rows unless the history says why (`RowsAreMetered`).  Caps: `CapsOverrunBounded`,
`UsedAccountsAreSeated`, `TwinsBounded`.  Extract check: `FailedExtractsPauseMatching`,
`ConfirmationsStick`.  Roll-forward: `OwedChequesAreDeductedOnce`.  Memory:
`PruningSettles`.

Why the bounds are enough to be interesting.  Four calls on two slots give a queue of
two, so a timeout can hit either end of it.  One document is enough for claims, since
they compete for the same row; three runs let a third signal meet two that overlap; two
drains are what races on `active`.  Three rows allow a one-to-many match, two competing
pairs, and a remap after a match; two match ids allow two matches to collide.  Three
checkouts are a payment, the credit it gives and a rival for that credit; the price is
odd and the period even, so the credit is rounded.  Three people and two seats let an
invitation, an addition and a removal compete; two projects and one account are limits
that two requests overrun; two months and two rows per document let a month turn inside
an import that grows, shrinks or ends a document.  Three periods are the least with a
middle one, and cheques do not influence each other.  A cap of one with three lessons
and two learners lets one pruning count what the other has already deleted.

The counters bounded in guards are `MaxRows`, `MaxMatches`, `MaxIds`, `MaxProjects`,
`MaxAccounts`, `MaxRefs`, `MaxPeriods` (ids or records ever given out), `MaxTime`,
`Months` (the clock) and `MaxFaults`; a behaviour that reaches one stops creating,
nothing else changes.

`CHECK_DEADLOCK FALSE` is set everywhere but in `ocr_gate`: these systems may go quiet,
with every document settled, the project deleted, nobody asking, or the bounds used up.

## 4. Fairness

`OcrGate!FairSpec`: the event loop runs what is ready and timers fire.  Tesseract owes
nothing: a recognition may hang, its timeout is what answers the caller.
`ParseQueue!FairSpec`: a live process runs its ready continuations, the interval timer
(`parseJobQueue.ts:267`) keeps calling `drainOnce`, a claimed run proceeds, and time
passes (`GoStale`).  No fairness is assumed of users, of BullMQ's delivery, of Paystack
or of faults; the other modules claim safety only, since what they wait for is a person.

## 5. What the code does against what it says

Each of these is a run that TLC refutes:

1. `parseJobBullmq.ts:64` says the status claim prevents double processing; the reclaim
   of a live slow job breaks it (`queue_slow`).  Without slow jobs it holds and is proved.
2. `docs/GAP_IMPLEMENTATION_PHASES.md:180` says there are no edits after submission; a
   deferred job does not look at the project (`project_lock`).  It then also sets the
   status back to `mapping`, with the signatures still there.
3. `purgeOrphanMatches.ts:3` says matches with a missing side are removed; one with
   several rows on the other side is kept (`project_remap`).
4. `subscriptionState.ts:35` says the Free plan stays active; once there has been a
   payment its period decides, and the workspace is closed after it (`billing_free`).
5. `brsRollForward.ts:331` says the walk returns all cheques outstanding at the newest
   period end; it hands one period's list to the next without taking away what that
   period's statement cleared (`roll_forward`).

Observations met while modelling, without a run of their own:

- `ocrGate.ts:5` promises at most `OCR_CONCURRENCY` parallel recognitions; a timeout
  frees the slot of one that goes on.  What does hold is `CapUntilTimeout`.
- With `AUTO_CORRECT_DOC_TYPE` on (the default is off) and deferred jobs, a job may flip
  the family of a document that was mapped by hand and matched, then stop before
  importing: `PairsAcrossSides` fails.
- An approval that read the status before a reopening completes the project without
  the preparer's signature.
- The confirmation of a failed extract covers the whole account and survives later
  remappings of the document; `docs/SUPPORTED_BANKS.md:46` speaks of the extract.
- Lodgments roll forward one level only, and are not dropped when the bank credits them
  (`report.ts:532-548`).  A match left one-sided by a remap (item 3) makes its cheque
  count as matched there.  Deleting a middle project cuts the chain.
- Two prunings that overlap, or a memory forgotten during one, delete more memories than
  the cap asks for; auto-complete learns and never prunes (`autoCompleteMatching.ts:405`).
- A bank account refused by the cap leaves the project it was to belong to, unmetered.

## 6. Proofs

TLAPS proves every safety invariant, action property and refinement that the passing runs
check, for every value of the constants that the named assumption of the module allows
(and the hypotheses of the theorem, given below where there are any).  Each proof module
gives inductive invariants, shows that they hold at the start and are kept by every
action, and derives the theorems from them; every one was model-checked first.

`OcrGateProofs` assumes `GateAssumption` (at least one slot, finitely many calls).  The
inductive invariant `GateInv` adds to `TypeOK` that the counter is the number of holders,
that the queue holds each waiter once and nothing else, and that nobody waits beside a
free slot.  The counter alone is not inductive: a hand-over keeps `active` only because
the head of the queue is a waiter and becomes a holder.  From it follow `GateTypes`,
`SlotsAccounted`, `SlotsNeverIdle`, `QueueHoldsTheWaiters`, `RecognitionsCapped`,
`GrantsInOrder`, and step simulation of the abstract pool, `GateImplementsPool`.

`ParseQueueProofs` assumes `QueueAssumption`.  `ActiveCounts` and `QueueTypes` rest on
`QueueInv`: type, well-formed hand-overs from a drain to its run, and the count.
`OverrunBounded` adds that a drain which saw room leaves it to the others that saw it
too; `DoubleImportIsOverlap` that a run between deleting and inserting has the document
empty unless another run was inside.  `ClaimsExclude` and `WorkIsClaimed` further assume
no slow job and no manual mapping, the two things `queue_slow` and `queue_poller` show to
break exclusion.  Their invariant `ClaimInv` says a live run owns its document (the
status is `processing`, and nobody else is live on it), that only abandoned documents are
stale, and that a document that is only just created is `ready`.  The claim is safe only
because a stale document has no live run, which is not a fact about the claim itself.

`ReconciliationProofs` assumes `ReconciliationAssumption`.  `TypeInv` adds to `TypeOK`
what handlers still hold: their document exists unless the project is deleted, the
family chosen is one of the two.  `SoundInv` adds that the matches of a plan share no
row; with it every overlap of matching, mapping and auto-complete keeps `MatchesSound`,
because the transaction decides and not the checks before it.  `PurgeInv` says more than
`OrphansArePurged`: every orphan is covered by a *mapping* handler, since auto-complete
also purges but may stop before it deletes.  It needs handlers that do not die midway
(`~Faults`) and no change of family meanwhile, whose sweep removes only empty matches.

Two theorems of that module are about one request at a time (`Alone`).
`SerialRequestsImplementSignOff`, with `~DeferMap`, takes every step to a step of
`SignOff` or a stutter, whether or not handlers die midway.  Its `StageInv` says at which
status each kind of handler can be under way, that an editable project has no signature,
and that no job is queued.  `SerialPairsCrossSides`, with `~Careless` and
`~AutoCorrect`, rests on `PlacedInv`: the rows of each match and of each pair a handler
plans are on the sides it says, and the lanes a handler read are still those of the
documents.  Section 5 says how deferred jobs break the first and the automatic correction
of families the second.

`BillingProofs` assumes `BillingAssumption`.  `BillingInv` is the conjunction of `TypeOK`;
`RowsOK` (a payment has one row, and the rows are in the order of `createdAt`);
`CheckoutsOK` (a credit comes from a payment that was there at pricing, and no payment
known at pricing had drawn the same credit); `HandlersOK` (one handler opens a checkout,
and a fulfilment that found no row meets no pending one); `PlansOK` (the plan in force,
and every plan a handler or the schedule is about to set, is one that was paid up to);
and `DoorOK` (while the organisation may enter, neither the cache nor a handler about to
fill it says no, unless an invalidation is due).  From it follow `BillingTypes`,
`PlansArePaidFor`, `CreditIsSpentOnce` and `PayersEnter`; `PaymentsOpen` follows from the
order of the rows, since the latest payment ends no earlier than the one just received.
`BillingKeepsPromise` is the step simulation of `Entitlement`.  Its `CalmInv` says that
until handlers met, at most one is busy and what it is about to do is what the plan, the
schedule and the clock asked for when it began; a downgrade about to be cleared counts as
cleared, so the two writes of a fulfilment are one step above.

`MembersProofs` assumes `MembersAssumption` (finitely many people and requests; the limits
are counts).  `MembersInv`: a handler holds the id of a row that was once given out, ids
are not given twice, and a removal that counted alone is the only one that has counted
and saw two members.  From it follow `MembersTypes`, `LastMemberStays` and
`InvitationsAdmit`.  `AdminsSeated` needs only that the members stand in one order, so
that who is seated is a part of its front.  `SeatsStayBounded` assumes besides that there
is a seat for the founder (`SeatLimit + Cardinality(Clerks) > 1`).  The number of requests
that have counted is not enough for it: one with half its count behind it may lag behind
what others wrote since, an acceptance may outlive the expiry of its invitation, and a
removal gives room to several half-done counts at once.  `SeatsWithin` therefore bounds,
for every part of the members that may remain, the pending invitations, the people who
remain or follow an invitation that is no longer pending, and the requests that may still
write with so many members.  Only a count torn between its halves breaks it, as the
property says.

`PlanQuotasProofs` assumes `QuotasAssumption`: the requests admitted and not yet written,
with what is there, stay within the bound (the argument of the poller's limit again);
from it `CapsHoldUpToRaces` and `TwinsNeedARace`.  `UsedAccountsKeepSeats` has `SeatInv`:
an upload that passed the seat check relies on an account number with fewer accounts
below it than the limit; new accounts get higher numbers, deletions only lower the count.

`IngestCheckProofs` assumes nothing.  A confirmation always carries the acknowledgement,
so only a verdict merged from an older read can take it back (`ConfirmationsStay`).
`FailedExtractsBlock` has `VerdictInv`: unless mappings met on a statement, the verdict on
file, or the one a mapping is about to file, is that of the rows; and a statement with
rows has been parsed or is being saved.

`WorkspaceProofs` assumes `RollForwardAssumption`, `MeterAssumption` and
`LearnedMemoryAssumption`.
- `OwedChequesDeducted`: `BooksInv` is that a period's predecessor is older.  The walk
  down the chain is a recursive function; that it returns a cheque nobody has seen
  cleared is shown along the numbers of the periods (`AllNumbers`).
- `OverrunStaysBounded`: what was granted and not charged is on top of the meter; one
  granted import counted a meter that left room for it, each of the others brings at most
  `MaxRows` (`Overrun`).
- `RowsStayMetered`: `Metered` gives a function that covers each document's rows, charges
  still under way included, and whose sum the months do not fall short of.  The sums are
  the fold of the community modules; two lemmas say what one more element and one changed
  value do to it.
- `MemorySettles`: a pruning under way still accounts for what exceeds the cap
  (`Trimmed`), and one that runs alone spares the last row (`Lasting`).
- `PartsRunAlone`: a behaviour of `MCWorkspace` is one of each part, so
  `WorkspaceKeepsItsPromises`, `WorkspaceMoves` and `WorkspaceTypes` state of the
  composition what the run `workspace` checks, with every hypothesis of the parts.

Only model-checked: liveness, `EveryCallAnswered` and `QueuedDocumentsSettle`, since the
prover has neither fairness nor ENABLED.  The properties of the runs that are expected to
fail are false and have no theorem.  The library's induction takes an operator as a
parameter, which the provers cannot instantiate; recursive functions, sums and filtered
sequences are therefore handled by the least counterexample (`LeastOf`) and by counting
up through a set of numbers (`AllNumbers`), for the one property of them each proof needs,
and not by a general theorem on what they compute.

## 7. Plan and what is not modelled

Done: all modules of section 2, their runs, and the proofs of section 6.  What is left,
in this order:

1. An abstract one-at-a-time queue that `ParseQueue` implements without slow jobs, and
   the proof of it from `ClaimInv`.
2. The same invariants under weaker hypotheses: `OrphansGo` with changes of family,
   `SerialRequestsImplementSignOff` with deferred jobs that find the project open.
3. Lodgments in `RollForward`; the introductory offer and longer periods in `Billing`.

Not modelled, and why.  The mapped code is a small share of the repository's lines
because most of them keep no shared state: the web client (`src/web`, more than half of
the lines) renders what the endpoints return; the parsers of statements and cash books,
the regional and bank-specific matchers and the suggestion scores are string and amount
heuristics over one file or one pair of lists, tested on specimens, and stand in the
models as nondeterministic choices of rows, outcomes and disjoint pairs; `report.ts` is,
but for the roll-forward, arithmetic and layout of values read once; authentication,
rate limits, e-mail, operator scripts and retention touch nothing the modelled parts
rely on.  Translating such code line by line would give definitions as long as the code
and no property over interleavings.
