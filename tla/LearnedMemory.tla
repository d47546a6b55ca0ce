--------------------------- MODULE LearnedMemory ----------------------------
(***************************************************************************)
(* What an organisation has taught the product and the cap on it: the      *)
(* match memories learned when people confirm matches, or the column       *)
(* layouts learned when they map documents.                                *)
(*   api/src/services/organizationMatchMemory.ts, documentLayoutMemory.ts, *)
(*   autoCompleteMatching.ts, api/src/routes/reconcile.ts, settings.ts     *)
(* A request upserts the memory, then prunes: count, read the oldest rows  *)
(* beyond the cap, delete them by id, in three database calls.  Other      *)
(* requests run between any two of them.                                   *)
(***************************************************************************)
EXTENDS Naturals, Sequences

CONSTANTS
  Lessons,   \* the unique keys a memory may have
  Nothing,   \* not a lesson
  Learners,  \* requests that may be under way at one time
  Cap        \* MATCH_MEMORY_CAP_PER_ORG, LAYOUT_MEMORY_CAP_PER_TYPE

ASSUME LearnedMemoryAssumption == Nothing \notin Lessons /\ Cap \in Nat \ {0}

VARIABLES
  book,      \* "matches" or "layouts"
  recent,    \* the rows, the one confirmed longest ago first
  learner,   \* the requests under way
  newest,    \* the lesson confirmed last, if nobody forgot it
  unpruned,  \* was something learned that no pruning has counted, or was one lost?
  crowded    \* was anything confirmed or forgotten while a pruning was under way?

memoryVars == <<book, recent, learner, newest, unpruned, crowded>>

Quiet == [step |-> "idle", excess |-> 0, stale |-> {}]
Pruning == \E r \in Learners : learner[r] # Quiet

MemoryInit ==
  /\ book \in {"matches", "layouts"}
  /\ recent = << >>
  /\ learner = [r \in Learners |-> Quiet]
  /\ newest = Nothing
  /\ unpruned = FALSE
  /\ crowded = FALSE

Held == {recent[i] : i \in 1..Len(recent)}

\* The rows that stay, in their order.
Without(gone) ==
  LET Kept[n \in 0..Len(recent)] ==
        IF n = 0 THEN << >>
        ELSE IF recent[n] \in gone THEN Kept[n - 1] ELSE Append(Kept[n - 1], recent[n])
  IN  Kept[Len(recent)]

\* The upsert: a new row, or one more confirmation of the row there is.
Confirm(k) ==
  /\ recent' = Append(Without({k}), k)
  /\ newest' = k
  /\ crowded' = Pruning

\* rememberOrganisationMatch, rememberDocumentLayout.  With a match the upsert is
\* part of the transaction that creates it and the pruning follows the commit.
Learn(r, k) ==
  /\ learner[r] = Quiet
  /\ Confirm(k)
  /\ learner' = [learner EXCEPT ![r].step = "count"]
  /\ UNCHANGED <<book, unpruned>>

\* Auto-complete passes prune: false, and nothing prunes after its commit.
LearnUnattended(k) ==
  /\ book = "matches"
  /\ Confirm(k)
  /\ unpruned' = TRUE
  /\ UNCHANGED <<book, learner>>

\* touchLayoutMemoryUse, of a layout that an automatic mapping used.
Touch(k) ==
  /\ book = "layouts" /\ k \in Held
  /\ Confirm(k)
  /\ UNCHANGED <<book, learner, unpruned>>

CountRows(r) ==
  /\ learner[r].step = "count"
  /\ learner' = [learner EXCEPT ![r] =
       IF Len(recent) <= Cap THEN Quiet
       ELSE [@ EXCEPT !.step = "find", !.excess = Len(recent) - Cap]]
  /\ unpruned' = FALSE
  /\ UNCHANGED <<book, recent, newest, crowded>>

Oldest(n) == {recent[i] : i \in {j \in 1..Len(recent) : j <= n}}

\* Mutant: one row short.
FindTooFew(r) ==
  /\ learner[r].step = "find"
  /\ learner' = [learner EXCEPT ![r].step = "delete", ![r].stale = Oldest(learner[r].excess - 1)]
  /\ UNCHANGED <<book, recent, newest, unpruned, crowded>>

FindStale(r) ==
  /\ learner[r].step = "find"
  /\ learner' = [learner EXCEPT ![r].step = "delete", ![r].stale = Oldest(learner[r].excess)]
  /\ UNCHANGED <<book, recent, newest, unpruned, crowded>>

\* A lesson learned again after its row is gone has a row of another id.
Discard(gone, learners) ==
  /\ recent' = Without(gone)
  /\ learner' = [r \in Learners |-> [learners[r] EXCEPT !.stale = @ \ gone]]

\* A row confirmed since it was found keeps its id and goes all the same.
DeleteStale(r) ==
  /\ learner[r].step = "delete"
  /\ Discard(learner[r].stale, [learner EXCEPT ![r] = Quiet])
  /\ UNCHANGED <<book, newest, unpruned, crowded>>

\* The callers swallow the error: the match is committed, the layout is kept.
PruneFails(r) ==
  /\ learner[r] # Quiet
  /\ learner' = [learner EXCEPT ![r] = Quiet]
  /\ unpruned' = TRUE
  /\ UNCHANGED <<book, recent, newest, crowded>>

\* DELETE /settings/match-memory/:id, /settings/layout-memory/:id.
Forget(k) ==
  /\ k \in Held
  /\ Discard({k}, learner)
  /\ newest' = IF newest = k THEN Nothing ELSE newest
  /\ crowded' = (crowded \/ Pruning)
  /\ UNCHANGED <<book, unpruned>>

MemoryNext ==
  \/ \E r \in Learners :
       \/ \E k \in Lessons : Learn(r, k)
       \/ CountRows(r)
       \/ FindStale(r)
       \/ DeleteStale(r)
       \/ PruneFails(r)
  \/ \E k \in Lessons : LearnUnattended(k) \/ Touch(k) \/ Forget(k)

MemorySpec == MemoryInit /\ [][MemoryNext]_memoryVars

-----------------------------------------------------------------------------
\* However requests that learn, prune and forget overlap, when no pruning is
\* under way the organisation holds no more memories than its cap, unless
\* auto-complete learned or a pruning failed since the last one that counted; and
\* it still holds the lesson confirmed last, unless a pruning was under way when
\* that was confirmed or another was forgotten.
PruningSettles ==
  ~Pruning =>
    /\ unpruned \/ Len(recent) <= Cap
    /\ crowded \/ newest \in Held \cup {Nothing}
=============================================================================
