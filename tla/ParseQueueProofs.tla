-------------------------- MODULE ParseQueueProofs --------------------------
(***************************************************************************)
(* Proofs about ParseQueue, for every set of documents, processes and      *)
(* drainOnce calls and every limit.  QueueInv needs no assumption about    *)
(* job lengths or users; ClaimInv, from which OneRunPerDocument follows,   *)
(* needs that no live run outlasts PARSE_JOB_STALE_MS and that nobody maps *)
(* by hand - the two ways in which the code lets two runs meet.            *)
(***************************************************************************)
EXTENDS ParseQueue, FiniteSetTheorems, SequenceTheorems, TLAPS

Steps == {"free", "claiming", "handed", "begin", "parsing", "deleted", "created"}

\* The poller's runs that are counted in active.
Counted(p) == {r \in Runs : /\ run[r].step \notin {"free", "handed"}
                            /\ run[r].via = "poll"
                            /\ run[r].proc = p}

\* What the records of runs and drainOnce calls mean beyond their types.
WellFormed ==
  /\ \A r \in Runs :
       /\ run[r].step # "free" => run[r].doc \in Docs
       /\ run[r].via = "poll" => run[r].proc \in Procs
       /\ run[r].step = "claiming" => run[r].via \in {"bull", "api"}
       /\ run[r].step = "handed" => run[r].via = "poll"
  /\ \A p \in Procs : \A k \in Drains :
       drain[p][k].step \in {"claim", "spawn"} => drain[p][k].pick \in Docs

QueueInv == TypeOK /\ WellFormed /\ ActiveCountsRuns

-----------------------------------------------------------------------------
\* A step of one run changes nothing else about the runs.
LEMMA AdvanceRuns ==
  ASSUME run \in [Runs -> RunRecords], NEW r \in Runs, NEW s \in Steps, Advance(r, s)
  PROVE  /\ run' \in [Runs -> RunRecords]
         /\ \A q \in Runs :
              /\ run'[q].doc = run[q].doc
              /\ run'[q].proc = run[q].proc
              /\ run'[q].via = run[q].via
              /\ run'[q].step = IF q = r THEN s ELSE run[q].step
  BY DEF Advance, RunRecords, Steps

\* A run that ends or is dropped leaves its slot as it was at the start.
LEMMA FreedRuns ==
  ASSUME run \in [Runs -> RunRecords], NEW r \in Runs, run' = [run EXCEPT ![r] = Free]
  PROVE  /\ run' \in [Runs -> RunRecords]
         /\ \A q \in Runs : run'[q] = IF q = r THEN Free ELSE run[q]
  BY DEF RunRecords, Free

\* The runs that count against the limit are finitely many.
LEMMA CountedFinite ==
  \A p : IsFiniteSet(Counted(p)) /\ Cardinality(Counted(p)) \in Nat
<1> TAKE p
<1>1. Counted(p) \in SUBSET Runs /\ IsFiniteSet(Runs)
  BY QueueAssumption DEF Counted
<1>2. IsFiniteSet(Counted(p))
  BY <1>1, FS_Subset
<1> QED BY <1>2, FS_CardinalityType

\* The counter, in terms of the runs that count.
LEMMA CountsByCounted ==
  ActiveCountsRuns <=> \A p \in Procs : active[p] = Cardinality(Counted(p))
  BY DEF ActiveCountsRuns, Counted

\* A step that counts nothing in or out keeps the counter right.
LEMMA CountsUnmoved ==
  ASSUME ActiveCountsRuns, UNCHANGED active,
         \A p \in Procs : Counted(p)' = Counted(p)
  PROVE  ActiveCountsRuns'
<1>1. \A p \in Procs : active'[p] = Cardinality(Counted(p)')
  BY CountsByCounted
<1> QED BY <1>1 DEF ActiveCountsRuns, Counted

-----------------------------------------------------------------------------
\* The invariant holds at the start.
LEMMA InitQueueInv == Init => QueueInv
<1> SUFFICES ASSUME Init PROVE QueueInv
  OBVIOUS
<1>1. TypeOK
  BY QueueAssumption DEF Init, TypeOK, Statuses, DrainRecords, RunRecords, Idle, Free
<1>2. WellFormed
  BY DEF Init, WellFormed, Idle, Free
<1>3. \A p \in Procs : Counted(p) = {}
  BY DEF Init, Counted, Free
<1>4. ActiveCountsRuns
  BY <1>3, CountsByCounted, FS_EmptySet DEF Init
<1> QED BY <1>1, <1>2, <1>4 DEF QueueInv

\* Steps that start, end or move no run.
LEMMA RunlessStepKeeps ==
  ASSUME QueueInv, overlapped' \in SUBSET Docs, run' = run, active' = active,
         \/ \E d \in Docs : CreateDocument(d) \/ MarkPending(d) \/ GoStale(d)
         \/ \E r \in Runs : Redeliver(r)
         \/ \E p \in Procs, k \in Drains :
              DrainStart(p, k) \/ DrainReclaim(p, k) \/ DrainFind(p, k)
  PROVE  QueueInv'
<1> USE DEF QueueInv
<1>1. \A p \in Procs : Counted(p)' = Counted(p)
  BY DEF Counted
<1>2. ActiveCountsRuns'
  BY <1>1, CountsUnmoved
<1>3. ASSUME NEW d \in Docs, CreateDocument(d) \/ MarkPending(d) \/ GoStale(d)
      PROVE  TypeOK' /\ WellFormed'
  <2>1. drain' = drain
    BY <1>3 DEF CreateDocument, MarkPending, GoStale, pollVars
  <2>2. WellFormed'
    BY <2>1 DEF WellFormed
  <2>3. /\ parseStatus' \in [Docs -> Statuses] /\ stale' \subseteq Docs
        /\ upload' \in [Docs -> {"none", "created", "queued", "done"}]
    BY <1>3 DEF CreateDocument, MarkPending, GoStale, SetStatus, Restamp, TypeOK, Statuses,
       feedVars
  <2>4. arrived' \in Seq(Docs)
    <3>1. arrived' = Append(arrived, d) \/ arrived' = arrived
      BY <1>3 DEF CreateDocument, MarkPending, GoStale, feedVars
    <3>2. arrived \in Seq(Docs)
      BY DEF TypeOK
    <3> QED BY <3>1, <3>2, AppendProperties
  <2>5. UNCHANGED <<jobs, copies, faults>>
    BY <1>3 DEF CreateDocument, MarkPending, GoStale, feedVars
  <2>6. TypeOK'
    BY <2>1, <2>3, <2>4, <2>5 DEF TypeOK
  <2> QED BY <2>2, <2>6
<1>4. ASSUME NEW r \in Runs, Redeliver(r) PROVE TypeOK' /\ WellFormed'
  <2>1. drain' = drain /\ run[r].doc \in Docs
    BY <1>4 DEF Redeliver, pollVars, WellFormed
  <2>2. WellFormed'
    BY <2>1 DEF WellFormed
  <2>3. TypeOK'
    BY <1>4, <2>1, QueueAssumption DEF Redeliver, TypeOK, docVars, pollVars
  <2> QED BY <2>2, <2>3
<1>5. ASSUME NEW p \in Procs, NEW k \in Drains,
             DrainStart(p, k) \/ DrainReclaim(p, k) \/ DrainFind(p, k)
      PROVE  TypeOK' /\ WellFormed'
  <2>1. PICK st \in {"idle", "reclaim", "find", "claim"}, d \in Docs \cup {NoDoc} :
          SetDrain(p, k, st, d) /\ (st = "claim" => d \in Docs)
    <3>1. CASE DrainFind(p, k)
      BY <3>1 DEF DrainFind, Pending, TypeOK
    <3>2. CASE DrainStart(p, k) \/ DrainReclaim(p, k)
      BY <3>2 DEF DrainStart, DrainReclaim
    <3> QED BY <1>5, <3>1, <3>2
  <2>2. drain' \in [Procs -> [Drains -> DrainRecords]]
    BY <2>1 DEF SetDrain, TypeOK, DrainRecords
  <2>3. WellFormed'
    BY <2>1, <2>2 DEF SetDrain, WellFormed, TypeOK, DrainRecords
  <2>4. TypeOK'
    BY <1>5, <2>2 DEF DrainStart, DrainReclaim, DrainFind, TypeOK, Statuses, docVars, feedVars
  <2> QED BY <2>3, <2>4
<1> QED BY <1>2, <1>3, <1>4, <1>5

\* Steps that start a run the poller does not count.
LEMMA NewRunKeeps ==
  ASSUME QueueInv, overlapped' \in SUBSET Docs, NEW d \in Docs, NEW r \in Runs,
         \/ MapInline(d, r) \/ Schedule(d, r) \/ ManualMap(d, r)
         \/ \E p \in Procs : BullTake(p, d, r)
  PROVE  QueueInv'
<1> USE DEF QueueInv
<1>1. \/ run' = run
      \/ \E p \in Procs \cup {Api} :
           \/ Occupy(r, "begin", d, p, "inline")
           \/ Occupy(r, "claiming", d, p, "api")
           \/ Occupy(r, "parsing", d, p, "manual")
           \/ Occupy(r, "claiming", d, p, "bull")
  BY DEF MapInline, Schedule, ManualMap, BullTake
<1>2. /\ run' \in [Runs -> RunRecords]
      /\ \A q \in Runs :
           \/ run'[q] = run[q]
           \/ /\ run[q].step = "free"
              /\ run'[q].step \in Steps
              /\ run'[q].doc = d
              /\ run'[q].step # "handed"
              /\ run'[q].via # "poll"
              /\ run'[q].step = "claiming" => run'[q].via \in {"bull", "api"}
  <2>1. CASE run' = run
    BY <2>1 DEF TypeOK
  <2>2. ASSUME NEW p \in Procs \cup {Api}, NEW s \in {"begin", "claiming", "parsing"},
               NEW v \in {"inline", "api", "manual", "bull"}, Occupy(r, s, d, p, v),
               s = "claiming" => v \in {"bull", "api"}
        PROVE  <1>2!1 /\ <1>2!2
    <3>1. s \in Steps /\ v \in {"poll", "bull", "api", "inline", "manual"}
      BY DEF Steps
    <3>2. /\ run' \in [Runs -> RunRecords]
          /\ run[r].step = "free"
          /\ \A q \in Runs :
               run'[q] = IF q = r THEN [step |-> s, doc |-> d, proc |-> p, via |-> v]
                                  ELSE run[q]
      <4>1. run \in [Runs -> RunRecords]
        BY DEF TypeOK
      <4> QED BY <2>2, <3>1, <4>1 DEF Occupy, RunRecords, Steps, Free
    <3>3. run'[r].step = s /\ run'[r].doc = d /\ run'[r].via = v
      BY <3>2
    <3> QED BY <2>2, <3>1, <3>2, <3>3
  <2> QED BY <1>1, <2>1, <2>2
<1>3. active' = active /\ drain' = drain
  BY DEF MapInline, Schedule, ManualMap, BullTake, pollVars
<1>4. \A p \in Procs : Counted(p)' = Counted(p)
  BY <1>2 DEF Counted
<1>5. ActiveCountsRuns'
  BY <1>3, <1>4, CountsUnmoved
<1>6. WellFormed'
  BY <1>2, <1>3 DEF WellFormed
<1>7. parseStatus' = parseStatus /\ stale' = stale /\ copies' = copies /\ faults' = faults
      /\ arrived' = arrived
  BY DEF MapInline, Schedule, ManualMap, BullTake, docVars, feedVars
<1>8. upload' \in [Docs -> {"none", "created", "queued", "done"}] /\ jobs' \in [Docs -> Nat]
  <2>1. CASE MapInline(d, r)
    BY <2>1 DEF MapInline, TypeOK
  <2>2. CASE ManualMap(d, r)
    BY <2>2 DEF ManualMap, feedVars, TypeOK
  <2>3. ASSUME NEW p \in Procs, BullTake(p, d, r)
        PROVE  <1>8!1 /\ <1>8!2
    <3>1. jobs[d] \in Nat /\ jobs[d] > 0 /\ jobs' = [jobs EXCEPT ![d] = jobs[d] - 1]
      BY <2>3 DEF BullTake, TypeOK
    <3>2. jobs[d] - 1 \in Nat
      BY <3>1
    <3>3. upload' = upload
      BY <2>3 DEF BullTake
    <3> QED BY <3>1, <3>2, <3>3 DEF TypeOK
  <2>4. CASE Schedule(d, r)
    <3>1. PICK added \in {0, 1} : jobs' = [jobs EXCEPT ![d] = jobs[d] + added]
      BY <2>4 DEF Schedule
    <3>2. jobs[d] + added \in Nat
      BY <3>1 DEF TypeOK
    <3> QED BY <2>4, <3>1, <3>2 DEF Schedule, TypeOK
  <2> QED BY <2>1, <2>2, <2>3, <2>4
<1>9. TypeOK'
  BY <1>2, <1>3, <1>7, <1>8 DEF TypeOK
<1> QED BY <1>5, <1>6, <1>9

\* Steps inside a run, and a signal whose claim succeeds.
LEMMA AdvanceKeeps ==
  ASSUME QueueInv, overlapped' \in SUBSET Docs, NEW r \in Runs,
         NEW s \in {"begin", "parsing", "deleted", "created"}, Advance(r, s),
         run[r].step \notin {"free", "handed"}, run[r].step = "claiming" => s = "begin",
         UNCHANGED <<feedVars, pollVars, faults>>,
         parseStatus' \in [Docs -> Statuses], stale' \subseteq Docs,
         copies' \in [Docs -> Nat]
  PROVE  QueueInv'
<1> USE DEF QueueInv
<1>1. run \in [Runs -> RunRecords] /\ s \in Steps
  BY DEF TypeOK, Steps
<1>2. /\ run' \in [Runs -> RunRecords]
      /\ \A q \in Runs :
           /\ run'[q].doc = run[q].doc
           /\ run'[q].proc = run[q].proc
           /\ run'[q].via = run[q].via
           /\ run'[q].step = IF q = r THEN s ELSE run[q].step
  BY <1>1, AdvanceRuns
<1>3. \A p \in Procs : Counted(p)' = Counted(p)
  <2> SUFFICES ASSUME NEW p \in Procs PROVE Counted(p)' = Counted(p)
    OBVIOUS
  <2>1. run[r].step = "claiming" => run[r].via # "poll"
    BY DEF WellFormed
  <2>2. s \notin {"free", "handed"}
    OBVIOUS
  <2> QED BY <1>2, <2>1, <2>2 DEF Counted
<1>4. active' = active /\ drain' = drain
  BY DEF pollVars
<1>5. ActiveCountsRuns'
  BY <1>3, <1>4, CountsUnmoved
<1>6. WellFormed'
  BY <1>2, <1>4 DEF WellFormed
<1>7. TypeOK'
  BY <1>2, <1>4 DEF TypeOK, feedVars
<1> QED BY <1>5, <1>6, <1>7

\* A run ends: the poller's counter follows.
LEMMA DoneKeeps ==
  ASSUME QueueInv, overlapped' \in SUBSET Docs, NEW r \in Runs, Done(r),
         run[r].step \notin {"free", "claiming", "handed"},
         UNCHANGED <<feedVars, drain, copies>>, faults' \in 0..MaxFaults,
         parseStatus' \in [Docs -> Statuses], stale' \subseteq Docs
  PROVE  QueueInv'
<1> USE DEF QueueInv
<1>1. /\ run \in [Runs -> RunRecords] /\ run' = [run EXCEPT ![r] = Free]
  BY DEF TypeOK, Done
<1>2. /\ run' \in [Runs -> RunRecords]
      /\ \A q \in Runs : run'[q] = IF q = r THEN Free ELSE run[q]
  BY <1>1, FreedRuns
<1>3. ASSUME NEW p \in Procs
      PROVE  active'[p] = Cardinality(Counted(p)') /\ active'[p] \in Nat
  <2>1. CASE run[r].via = "poll" /\ run[r].proc = p
    <3>1. r \in Counted(p)
      BY <2>1 DEF Counted
    <3>2. Counted(p)' = Counted(p) \ {r}
      BY <1>2, <2>1 DEF Counted, Free
    <3>3. /\ Cardinality(Counted(p) \ {r}) = Cardinality(Counted(p)) - 1
          /\ IsFiniteSet(Counted(p) \ {r})
      BY <3>1, CountedFinite, FS_RemoveElement
    <3>4. active'[p] = active[p] - 1
      BY <2>1 DEF Done, TypeOK
    <3>5. Cardinality(Counted(p)') \in Nat
      BY <3>2, <3>3, FS_CardinalityType
    <3> QED BY <3>2, <3>3, <3>4, <3>5, CountsByCounted
  <2>2. CASE ~(run[r].via = "poll" /\ run[r].proc = p)
    <3>1. Counted(p)' = Counted(p)
      BY <1>2, <2>2 DEF Counted, Free
    <3>2. active'[p] = active[p]
      BY <2>2 DEF Done, TypeOK
    <3> QED BY <3>1, <3>2, CountsByCounted, CountedFinite
  <2> QED BY <2>1, <2>2
<1>4. ActiveCountsRuns'
  BY <1>3 DEF ActiveCountsRuns, Counted
<1>5. active' \in [Procs -> Nat]
  <2>1. DOMAIN active' = Procs /\ active' = [p \in Procs |-> active'[p]]
    BY DEF Done, TypeOK
  <2> QED BY <2>1, <1>3
<1>6. WellFormed'
  BY <1>2 DEF WellFormed, Free
<1>7. TypeOK'
  BY <1>2, <1>5 DEF TypeOK, feedVars
<1> QED BY <1>4, <1>6, <1>7

\* The poller's claim: the run is handed over but not yet counted.
LEMMA DrainClaimKeeps ==
  ASSUME QueueInv, overlapped' \in SUBSET Docs, NEW p \in Procs, NEW k \in Drains,
         NEW r \in Runs, DrainClaim(p, k, r)
  PROVE  QueueInv'
<1> USE DEF QueueInv
<1> DEFINE d == drain[p][k].pick
<1>1. d \in Docs
  BY DEF DrainClaim, WellFormed
<1>2. active' = active /\ UNCHANGED <<feedVars, copies, faults>>
  BY DEF DrainClaim
<1>3. /\ drain' \in [Procs -> [Drains -> DrainRecords]]
      /\ \A q \in Procs : \A j \in Drains :
           drain'[q][j].step \in {"claim", "spawn"} => drain'[q][j].pick \in Docs
  <2>1. PICK st \in {"spawn", "idle"}, e \in Docs \cup {NoDoc} :
          SetDrain(p, k, st, e) /\ (st = "spawn" => e \in Docs)
    BY <1>1 DEF DrainClaim
  <2>2. drain' \in [Procs -> [Drains -> DrainRecords]]
    BY <2>1 DEF SetDrain, TypeOK, DrainRecords
  <2> QED BY <2>1, <2>2 DEF SetDrain, WellFormed, TypeOK, DrainRecords
<1>4. \/ run' = run /\ UNCHANGED docVars
      \/ /\ Occupy(r, "handed", d, p, "poll")
         /\ SetStatus(d, "processing") /\ Restamp(d)
  BY DEF DrainClaim
<1> HIDE DEF d
<1>5. /\ run' \in [Runs -> RunRecords]
      /\ \A q \in Runs :
           \/ run'[q] = run[q]
           \/ /\ run[q].step = "free"
              /\ run'[q] = [step |-> "handed", doc |-> d, proc |-> p, via |-> "poll"]
  <2>1. run \in [Runs -> RunRecords]
    BY DEF TypeOK
  <2> QED BY <1>1, <1>4, <2>1 DEF Occupy, RunRecords, Free
<1>6. \A q \in Procs : Counted(q)' = Counted(q)
  BY <1>5 DEF Counted
<1>7. ActiveCountsRuns'
  BY <1>2, <1>6, CountsUnmoved
<1>8. WellFormed'
  BY <1>1, <1>3, <1>5 DEF WellFormed
<1>9. parseStatus' \in [Docs -> Statuses] /\ stale' \subseteq Docs
  BY <1>1, <1>4 DEF SetStatus, Restamp, docVars, TypeOK, Statuses
<1>10. TypeOK'
  BY <1>2, <1>3, <1>5, <1>9 DEF TypeOK, feedVars
<1> QED BY <1>7, <1>8, <1>10

\* drainOnce counts the run it has claimed and starts it.
LEMMA DrainSpawnKeeps ==
  ASSUME QueueInv, overlapped' \in SUBSET Docs, NEW p \in Procs, NEW k \in Drains,
         NEW r \in Runs, DrainSpawn(p, k, r)
  PROVE  QueueInv'
<1> USE DEF QueueInv
<1>1. /\ run[r].step = "handed" /\ run[r].via = "poll" /\ run[r].proc = p
      /\ Advance(r, "begin") /\ run \in [Runs -> RunRecords] /\ "begin" \in Steps
      /\ active' = [active EXCEPT ![p] = active[p] + 1]
      /\ UNCHANGED <<docVars, feedVars, copies, faults>>
  BY DEF DrainSpawn, TypeOK, Steps
<1>2. /\ run' \in [Runs -> RunRecords]
      /\ \A q \in Runs :
           /\ run'[q].doc = run[q].doc
           /\ run'[q].proc = run[q].proc
           /\ run'[q].via = run[q].via
           /\ run'[q].step = IF q = r THEN "begin" ELSE run[q].step
  BY <1>1, AdvanceRuns
<1>3. \A q \in Procs : active'[q] = Cardinality(Counted(q)')
  <2>1. active'[p] = Cardinality(Counted(p)')
    <3>1. Counted(p)' = Counted(p) \cup {r} /\ r \notin Counted(p)
      BY <1>1, <1>2 DEF Counted
    <3>2. Cardinality(Counted(p) \cup {r}) = Cardinality(Counted(p)) + 1
      BY <3>1, CountedFinite, FS_AddElement
    <3>3. active'[p] = active[p] + 1
      BY <1>1 DEF TypeOK
    <3> QED BY <3>1, <3>2, <3>3, CountsByCounted
  <2>2. ASSUME NEW q \in Procs, q # p PROVE active'[q] = Cardinality(Counted(q)')
    <3>1. Counted(q)' = Counted(q)
      BY <1>1, <1>2, <2>2 DEF Counted
    <3> QED BY <1>1, <2>2, <3>1, CountsByCounted DEF TypeOK
  <2> QED BY <2>1, <2>2
<1>4. ActiveCountsRuns'
  BY <1>3 DEF ActiveCountsRuns, Counted
<1>5. active' \in [Procs -> Nat]
  BY <1>1 DEF TypeOK
<1>6. PICK st \in {"reclaim", "idle"} : SetDrain(p, k, st, NoDoc)
  BY DEF DrainSpawn
<1>7. drain' \in [Procs -> [Drains -> DrainRecords]]
  BY <1>6 DEF SetDrain, TypeOK, DrainRecords
<1>8. WellFormed'
  <2>1. \A q \in Procs : \A j \in Drains :
          drain'[q][j].step \in {"claim", "spawn"} => drain'[q][j].pick \in Docs
    BY <1>6 DEF SetDrain, WellFormed, TypeOK, DrainRecords
  <2> QED BY <1>1, <1>2, <2>1 DEF WellFormed
<1>9. TypeOK'
  BY <1>1, <1>2, <1>5, <1>7 DEF TypeOK, docVars, feedVars
<1> QED BY <1>4, <1>8, <1>9

\* A crash empties the process's memory and leaves every row as it is.
LEMMA CrashKeeps ==
  ASSUME QueueInv, overlapped' \in SUBSET Docs, NEW p \in Procs \cup {Api}, Crash(p)
  PROVE  QueueInv'
<1> USE DEF QueueInv
<1>1. /\ run' \in [Runs -> RunRecords]
      /\ \A q \in Runs : run'[q] = IF run[q].proc = p THEN Free ELSE run[q]
  BY DEF Crash, TypeOK, RunRecords, Free
<1>2. jobs' \in [Docs -> Nat]
  <2>1. ASSUME NEW d \in Docs
        PROVE  Cardinality({r \in BullRuns(p) : run[r].doc = d}) \in Nat
    <3>1. {r \in BullRuns(p) : run[r].doc = d} \in SUBSET Runs /\ IsFiniteSet(Runs)
      BY QueueAssumption DEF BullRuns
    <3> QED BY <3>1, FS_Subset, FS_CardinalityType
  <2> DEFINE again(d) == Cardinality({r \in BullRuns(p) : run[r].doc = d})
  <2>2. jobs' = [d \in Docs |-> jobs[d] + again(d)] /\ jobs \in [Docs -> Nat]
    BY DEF Crash, TypeOK
  <2>3. \A d \in Docs : again(d) \in Nat
    BY <2>1
  <2> HIDE DEF again
  <2> QED BY <2>2, <2>3
<1>3. ASSUME NEW q \in Procs
      PROVE  active'[q] = Cardinality(Counted(q)') /\ active'[q] \in Nat
  <2>1. CASE q = p
    <3>1. Counted(q)' = {}
      BY <1>1, <2>1 DEF Counted, Free
    <3>2. active'[q] = 0
      BY <2>1 DEF Crash, TypeOK
    <3> QED BY <3>1, <3>2, FS_EmptySet
  <2>2. CASE q # p
    <3>1. Counted(q)' = Counted(q)
      BY <1>1, <2>2 DEF Counted, Free
    <3>2. active'[q] = active[q]
      BY <2>2 DEF Crash, TypeOK, pollVars
    <3> QED BY <3>1, <3>2, CountsByCounted, CountedFinite
  <2> QED BY <2>1, <2>2
<1>4. ActiveCountsRuns'
  BY <1>3 DEF ActiveCountsRuns, Counted
<1>5. active' \in [Procs -> Nat]
  <2>1. active' = [q \in Procs |-> active'[q]]
    BY DEF Crash, TypeOK, pollVars
  <2> QED BY <2>1, <1>3
<1>6. /\ drain' \in [Procs -> [Drains -> DrainRecords]]
      /\ \A q \in Procs : \A j \in Drains :
           drain'[q][j] = drain[q][j] \/ drain'[q][j] = Idle
  <2>1. Idle \in DrainRecords /\ drain \in [Procs -> [Drains -> DrainRecords]]
    BY DEF DrainRecords, Idle, TypeOK
  <2>2. drain' = [drain EXCEPT ![p] = [k \in Drains |-> Idle]] \/ drain' = drain
    BY DEF Crash, pollVars
  <2> HIDE DEF QueueInv
  <2> QED BY <2>1, <2>2
<1>7. WellFormed'
  BY <1>1, <1>6 DEF WellFormed, Free, Idle
<1>8. upload' \in [Docs -> {"none", "created", "queued", "done"}]
  BY DEF Crash, TypeOK
<1>9. faults' \in 0..MaxFaults /\ UNCHANGED <<parseStatus, stale, arrived, copies>>
  BY QueueAssumption DEF Crash, TypeOK, docVars
<1>10. TypeOK'
  BY <1>1, <1>2, <1>5, <1>6, <1>8, <1>9 DEF TypeOK
<1> QED BY <1>4, <1>7, <1>10

\* A signal for a document that is no longer pending is dropped.
LEMMA DroppedSignalKeeps ==
  ASSUME QueueInv, overlapped' \in SUBSET Docs, NEW r \in Runs, ClaimSignalled(r),
         parseStatus[run[r].doc] # "pending"
  PROVE  QueueInv'
<1> USE DEF QueueInv
<1>1. /\ run' = [run EXCEPT ![r] = Free] /\ run \in [Runs -> RunRecords]
      /\ run[r].step = "claiming" /\ UNCHANGED <<docVars, feedVars, pollVars, copies, faults>>
  BY DEF ClaimSignalled, TypeOK
<1>2. /\ run' \in [Runs -> RunRecords]
      /\ \A q \in Runs : run'[q] = IF q = r THEN Free ELSE run[q]
  BY <1>1, FreedRuns
<1>3. \A p \in Procs : Counted(p)' = Counted(p)
  <2>1. run[r].via # "poll"
    BY <1>1 DEF WellFormed
  <2> QED BY <1>2, <2>1 DEF Counted, Free
<1>4. ActiveCountsRuns'
  BY <1>1, <1>3, CountsUnmoved DEF pollVars
<1>5. WellFormed'
  BY <1>1, <1>2 DEF WellFormed, Free, pollVars
<1>6. TypeOK'
  BY <1>1, <1>2 DEF TypeOK, docVars, feedVars, pollVars
<1> QED BY <1>4, <1>5, <1>6

\* Every step keeps the invariant, one case per action.
LEMMA NextQueueInv == QueueInv /\ [Next]_vars => QueueInv'
<1> SUFFICES ASSUME QueueInv, [Next]_vars PROVE QueueInv'
  OBVIOUS
<1>1. CASE UNCHANGED vars
  BY <1>1 DEF QueueInv, TypeOK, WellFormed, ActiveCountsRuns, vars, docVars, feedVars, pollVars
<1>2. CASE Next
  <2>1. overlapped' \in SUBSET Docs
    BY <1>2 DEF Next, QueueInv, TypeOK
  <2>2. ASSUME NEW d \in Docs, CreateDocument(d) \/ MarkPending(d) \/ GoStale(d)
        PROVE  QueueInv'
    <3>1. run' = run /\ active' = active
      BY <2>2 DEF CreateDocument, MarkPending, GoStale, pollVars
    <3> QED BY <2>1, <2>2, <3>1, RunlessStepKeeps
  <2>3. ASSUME NEW d \in Docs, NEW r \in Runs,
               \/ MapInline(d, r) \/ Schedule(d, r) \/ ManualMap(d, r)
               \/ \E p \in Procs : BullTake(p, d, r)
        PROVE  QueueInv'
    BY <2>1, <2>3, NewRunKeeps
  <2>4. ASSUME NEW r \in Runs, Redeliver(r) PROVE QueueInv'
    <3>1. run' = run /\ active' = active
      BY <2>4 DEF Redeliver, pollVars
    <3> QED BY <2>1, <2>4, <3>1, RunlessStepKeeps
  <2>5. ASSUME NEW r \in Runs,
               \/ RunBegin(r) \/ RunDelete(r) \/ RunCreate(r)
               \/ ClaimSignalled(r) /\ parseStatus[run[r].doc] = "pending"
        PROVE  QueueInv'
    <3>0. run[r].doc \in Docs
      BY <2>5 DEF QueueInv, WellFormed, RunBegin, RunDelete, RunCreate, ClaimSignalled
    <3>1. PICK s \in {"begin", "parsing", "deleted", "created"} : Advance(r, s)
            /\ (run[r].step = "claiming" => s = "begin")
      BY <2>5 DEF QueueInv, TypeOK, RunBegin, RunDelete, RunCreate, ClaimSignalled
    <3>2. parseStatus' \in [Docs -> Statuses] /\ stale' \subseteq Docs
      BY <2>5, <3>0 DEF QueueInv, TypeOK, Statuses, RunBegin, RunDelete, RunCreate,
         ClaimSignalled, SetStatus, Restamp, docVars
    <3>3. copies' \in [Docs -> Nat]
      BY <2>5, <3>0 DEF QueueInv, TypeOK, RunBegin, RunDelete, RunCreate, ClaimSignalled
    <3>4. run[r].step \notin {"free", "handed"} /\ UNCHANGED <<feedVars, pollVars, faults>>
      BY <2>5 DEF RunBegin, RunDelete, RunCreate, ClaimSignalled
    <3> QED BY <2>1, <3>1, <3>2, <3>3, <3>4, AdvanceKeeps
  <2>6. ASSUME NEW r \in Runs, ClaimSignalled(r), parseStatus[run[r].doc] # "pending"
        PROVE  QueueInv'
    BY <2>1, <2>6, DroppedSignalKeeps
  <2>7. ASSUME NEW r \in Runs, RunSkip(r) \/ RunFail(r) \/ RunReady(r) \/ RunLost(r)
        PROVE  QueueInv'
    <3>1. /\ Done(r) /\ run[r].step \notin {"free", "claiming", "handed"}
          /\ UNCHANGED <<feedVars, drain, copies>>
      BY <2>7 DEF RunSkip, RunFail, RunReady, RunLost
    <3>2. run[r].doc \in Docs
      BY <3>1 DEF QueueInv, WellFormed
    <3>3. parseStatus' \in [Docs -> Statuses] /\ stale' \subseteq Docs
      BY <2>7, <3>2 DEF RunSkip, RunFail, RunReady, RunLost, SetStatus, Restamp, docVars,
         QueueInv, TypeOK, Statuses
    <3>4. faults' \in 0..MaxFaults
      BY <2>7, QueueAssumption DEF RunSkip, RunFail, RunReady, RunLost, QueueInv, TypeOK
    <3> QED BY <2>1, <3>1, <3>3, <3>4, DoneKeeps
  <2>8. ASSUME NEW p \in Procs, NEW k \in Drains, DrainStep(p, k) PROVE QueueInv'
    <3>1. CASE DrainStart(p, k) \/ DrainReclaim(p, k) \/ DrainFind(p, k)
      <4>1. run' = run /\ active' = active
        BY <3>1 DEF DrainStart, DrainReclaim, DrainFind
      <4> QED BY <2>1, <3>1, <4>1, RunlessStepKeeps
    <3>2. CASE \E r \in Runs : DrainClaim(p, k, r) \/ DrainSpawn(p, k, r)
      BY <2>1, <3>2, DrainClaimKeeps, DrainSpawnKeeps
    <3> QED BY <2>8, <3>1, <3>2 DEF DrainStep
  <2>9. ASSUME NEW p \in Procs \cup {Api}, Crash(p) PROVE QueueInv'
    BY <2>1, <2>9, CrashKeeps
  <2>10. Step
    BY <1>2 DEF Next
  <2> QED
    BY <2>2, <2>3, <2>4, <2>5, <2>6, <2>7, <2>8, <2>9, <2>10 DEF Step, RunStep, FeedStep
<1> QED BY <1>1, <1>2

\* In every behaviour.
LEMMA QueueInvariant == Spec => []QueueInv
<1>1. QueueInv /\ [Next]_vars => QueueInv'
  BY NextQueueInv
<1> QED BY InitQueueInv, <1>1, PTL DEF Spec

\* The poller's counter equals the number of its unfinished runs, whatever the
\* number of processes and drainOnce calls, and whether runs succeed, fail,
\* lose their last update or die with their process.
THEOREM ActiveCounts == Spec => [](TypeOK /\ ActiveCountsRuns)
<1>1. QueueInv => TypeOK /\ ActiveCountsRuns
  BY DEF QueueInv
<1> QED BY <1>1, QueueInvariant, PTL

-----------------------------------------------------------------------------
(* One run per document.                                                   *)

\* A live run owns its document through the status "processing"; an inline run
\* owns a document whose upload it belongs to until it has set that status.
Ownership ==
  \A r \in Runs : Live(r) =>
    \/ parseStatus[run[r].doc] = "processing"
    \/ /\ run[r].via = "inline" /\ run[r].step = "begin"
       /\ parseStatus[run[r].doc] = "ready" /\ upload[run[r].doc] = "done"

\* What is reclaimed as stale has been abandoned.
StaleIsAbandoned ==
  \A d \in stale : parseStatus[d] = "processing" /\ LiveOn(d) = {}

\* Nothing happens to a document between its creation and its queueing.
CreatedIsReady == \A d \in Docs : upload[d] = "created" => parseStatus[d] = "ready"

ClaimInv == Ownership /\ OneRunPerDocument /\ StaleIsAbandoned /\ CreatedIsReady

\* Nobody works on a document that is pending or has just been created.
LEMMA UnownedHasNoRun ==
  ASSUME QueueInv, ClaimInv, NEW d \in Docs,
         parseStatus[d] \notin {"processing", "ready"} \/ upload[d] = "created"
  PROVE  LiveOn(d) = {}
  BY DEF ClaimInv, Ownership, CreatedIsReady, LiveOn

\* Starting or claiming a run on a document nobody works on.
LEMMA NewOwnerKeeps ==
  ASSUME QueueInv, ClaimInv, NEW r \in Runs, NEW d \in Docs, LiveOn(d) = {},
         \A q \in Runs : q # r => run'[q] = run[q],
         run'[r].doc = d,
         \/ parseStatus' = [parseStatus EXCEPT ![d] = "processing"] /\ upload' = upload
         \/ /\ run'[r].via = "inline" /\ run'[r].step = "begin"
            /\ parseStatus' = parseStatus /\ parseStatus[d] = "ready"
            /\ upload' = [upload EXCEPT ![d] = "done"],
         stale' = stale \ {d}, upload[d] = "created" => parseStatus' = parseStatus
  PROVE  ClaimInv'
<1> USE DEF ClaimInv
<1>1. \A q \in Runs : Live(q) => run[q].doc # d
  BY DEF LiveOn
<1>2. parseStatus \in [Docs -> Statuses] /\ upload \in [Docs -> {"none", "created", "queued", "done"}]
      /\ \A q \in Runs : Live(q) => run[q].doc \in Docs
  BY DEF QueueInv, TypeOK, WellFormed, Live
<1>3. \A e \in Docs : e # d => parseStatus'[e] = parseStatus[e] /\ upload'[e] = upload[e]
  BY <1>2
<1>4. \A q \in Runs : q # r => (Live(q)' <=> Live(q))
  BY DEF Live
<1>5. OneRunPerDocument'
  BY <1>1, <1>4 DEF OneRunPerDocument
<1>6. Ownership'
  <2>1. ASSUME NEW q \in Runs, q # r, Live(q)
        PROVE  /\ parseStatus'[run'[q].doc] = parseStatus[run[q].doc]
               /\ upload'[run'[q].doc] = upload[run[q].doc] /\ run'[q] = run[q]
    BY <2>1, <1>1, <1>2, <1>3
  <2>2. \/ parseStatus'[run'[r].doc] = "processing"
        \/ /\ run'[r].via = "inline" /\ run'[r].step = "begin"
           /\ parseStatus'[run'[r].doc] = "ready" /\ upload'[run'[r].doc] = "done"
    BY <1>2
  <2> QED BY <2>1, <2>2, <1>4 DEF Ownership
<1>7. StaleIsAbandoned'
  <2> SUFFICES ASSUME NEW e \in stale' PROVE parseStatus'[e] = "processing" /\ LiveOn(e)' = {}
    BY DEF StaleIsAbandoned
  <2>1. e \in stale /\ e # d /\ e \in Docs
    BY DEF QueueInv, TypeOK
  <2>2. LiveOn(e)' = {}
    BY <2>1, <1>4 DEF LiveOn, StaleIsAbandoned
  <2> QED BY <2>1, <2>2, <1>3 DEF StaleIsAbandoned
<1>8. CreatedIsReady'
  BY <1>2, <1>3 DEF CreatedIsReady
<1> QED BY <1>5, <1>6, <1>7, <1>8

\* A step inside a run that owns its document.
LEMMA OwnerStepKeeps ==
  ASSUME QueueInv, ClaimInv, NEW r \in Runs, Live(r),
         \A q \in Runs : q # r => run'[q] = run[q],
         \/ run'[r] = Free /\ \E s \in {"ready", "failed"} : SetStatus(run[r].doc, s)
         \/ run'[r] = Free /\ UNCHANGED parseStatus
         \/ run'[r].doc = run[r].doc /\ SetStatus(run[r].doc, "processing")
         \/ /\ run'[r].doc = run[r].doc /\ run'[r].via = run[r].via
            /\ run[r].step # "begin" \/ run'[r] = run[r]
            /\ UNCHANGED parseStatus,
         stale' = stale \/ stale' = stale \ {run[r].doc}, upload' = upload
  PROVE  ClaimInv'
<1> USE DEF ClaimInv
<1> DEFINE d == run[r].doc
<1>1. d \in Docs /\ parseStatus \in [Docs -> Statuses]
  BY DEF QueueInv, TypeOK, WellFormed, Live
<1>2. \A q \in Runs : q # r => (Live(q)' <=> Live(q)) /\ run'[q] = run[q]
  BY DEF Live
<1>3. Live(r)' => run'[r].doc = d
  BY DEF Live, Free
<1>4. \A q \in Runs : q # r /\ Live(q) => run[q].doc # d
  BY DEF OneRunPerDocument
<1>5. \A e \in Docs : e # d => parseStatus'[e] = parseStatus[e]
  BY <1>1 DEF SetStatus
<1>6. OneRunPerDocument'
  BY <1>2, <1>3, <1>4 DEF OneRunPerDocument
<1>7. Ownership'
  <2>1. ASSUME NEW q \in Runs, q # r, Live(q)
        PROVE  parseStatus'[run'[q].doc] = parseStatus[run[q].doc]
    BY <2>1, <1>2, <1>4, <1>5 DEF QueueInv, WellFormed, Live
  <2>2. \/ run'[r] = Free
        \/ parseStatus'[d] = "processing"
        \/ run'[r] = run[r] /\ UNCHANGED parseStatus
    <3>1. parseStatus[d] = "processing" \/ run[r].step = "begin"
      BY DEF Ownership
    <3>2. CASE run'[r] = Free
      BY <3>2
    <3>3. CASE SetStatus(d, "processing")
      <4>1. parseStatus' = [parseStatus EXCEPT ![d] = "processing"]
        BY <3>3 DEF SetStatus
      <4> QED BY <4>1, <1>1
    <3>4. CASE UNCHANGED parseStatus /\ (run[r].step # "begin" \/ run'[r] = run[r])
      BY <3>1, <3>4
    <3> QED BY <3>2, <3>3, <3>4
  <2>3. run'[r] = Free => ~Live(r)'
    BY DEF Live, Free
  <2> QED BY <2>1, <2>2, <2>3, <1>2, <1>3 DEF Ownership, Live
<1>8. StaleIsAbandoned'
  <2> SUFFICES ASSUME NEW e \in stale' PROVE parseStatus'[e] = "processing" /\ LiveOn(e)' = {}
    BY DEF StaleIsAbandoned
  <2>1. e \in stale /\ e \in Docs /\ LiveOn(e) = {} /\ parseStatus[e] = "processing"
    BY DEF QueueInv, TypeOK, StaleIsAbandoned
  <2>2. e # d
    BY <2>1 DEF LiveOn
  <2>3. LiveOn(e)' = {}
    BY <2>1, <2>2, <1>2, <1>3 DEF LiveOn
  <2> QED BY <2>1, <2>2, <2>3, <1>5
<1>9. CreatedIsReady'
  <2>1. upload[d] # "created" 
    BY <1>1, UnownedHasNoRun DEF LiveOn
  <2> QED BY <2>1, <1>5 DEF CreatedIsReady
<1> QED BY <1>6, <1>7, <1>8, <1>9

\* A step that leaves every run in place, or removes some, and keeps the
\* status of documents that are worked on.
LEMMA BystanderStepKeeps ==
  ASSUME QueueInv, ClaimInv,
         \A q \in Runs : run'[q] = run[q] \/ ~Live(q)',
         \A q \in Runs : Live(q) => /\ parseStatus'[run[q].doc] = parseStatus[run[q].doc]
                                   /\ \/ upload'[run[q].doc] = upload[run[q].doc]
                                      \/ upload'[run[q].doc] = "done",
         \A d \in stale' : parseStatus'[d] = "processing" /\ LiveOn(d) = {},
         \A d \in Docs : upload'[d] = "created" => parseStatus'[d] = "ready"
  PROVE  ClaimInv'
<1> USE DEF ClaimInv
<1>1. \A q \in Runs : Live(q)' => Live(q) /\ run'[q] = run[q]
  BY DEF Live
<1>2. OneRunPerDocument'
  BY <1>1 DEF OneRunPerDocument
<1>3. Ownership'
  BY <1>1 DEF Ownership
<1>4. \A d \in stale' : LiveOn(d)' = {}
  BY <1>1 DEF LiveOn
<1>5. StaleIsAbandoned'
  BY <1>4 DEF StaleIsAbandoned
<1>6. CreatedIsReady'
  BY DEF CreatedIsReady
<1> QED BY <1>2, <1>3, <1>5, <1>6

\* Nothing is claimed at the start.
LEMMA InitClaimInv == Init => ClaimInv
  BY DEF Init, ClaimInv, Ownership, OneRunPerDocument, StaleIsAbandoned, CreatedIsReady, Live, Free

\* Without slow jobs and manual mappings every step keeps ownership.
LEMMA NextClaimInv ==
  ASSUME ~SlowJobs, ~ManualMaps, QueueInv, ClaimInv, [Next]_vars
  PROVE  ClaimInv'
<1> DEFINE ups == {"none", "created", "queued", "done"}
<1>0. /\ parseStatus \in [Docs -> Statuses] /\ upload \in [Docs -> ups]
      /\ stale \subseteq Docs /\ run \in [Runs -> RunRecords]
      /\ \A r \in Runs : run[r].step # "free" => run[r].doc \in Docs
      /\ \A p \in Procs : \A k \in Drains : drain[p][k].step = "claim" => drain[p][k].pick \in Docs
  BY DEF QueueInv, TypeOK, WellFormed
<1>1. ASSUME NEW d \in Docs, CreateDocument(d) PROVE ClaimInv'
  <2>1. LiveOn(d) = {} /\ d \notin stale
    BY <1>1, UnownedHasNoRun DEF CreateDocument, ClaimInv, StaleIsAbandoned
  <2>2. /\ \A e \in Docs : e # d => parseStatus'[e] = parseStatus[e] /\ upload'[e] = upload[e]
        /\ parseStatus'[d] = "ready" /\ stale' = stale /\ run' = run
    BY <1>1, <1>0 DEF CreateDocument, SetStatus
  <2>3. \A q \in Runs : Live(q) => run[q].doc # d /\ run[q].doc \in Docs
    BY <2>1, <1>0 DEF LiveOn, Live
  <2>4. \A e \in Docs : upload'[e] = "created" => parseStatus'[e] = "ready"
    BY <2>2 DEF ClaimInv, CreatedIsReady
  <2>5. \A e \in stale' : parseStatus'[e] = "processing" /\ LiveOn(e) = {}
    BY <2>1, <2>2, <1>0 DEF ClaimInv, StaleIsAbandoned
  <2> QED BY <2>2, <2>3, <2>4, <2>5, BystanderStepKeeps
<1>2. ASSUME NEW d \in Docs, MarkPending(d) PROVE ClaimInv'
  <2>1. LiveOn(d) = {}
    BY <1>2, UnownedHasNoRun DEF MarkPending
  <2>2. /\ \A e \in Docs : e # d => parseStatus'[e] = parseStatus[e] /\ upload'[e] = upload[e]
        /\ upload'[d] = "queued" /\ stale' = stale \ {d} /\ run' = run
    BY <1>2, <1>0 DEF MarkPending, SetStatus, Restamp
  <2>3. \A q \in Runs : Live(q) => run[q].doc # d /\ run[q].doc \in Docs
    BY <2>1, <1>0 DEF LiveOn, Live
  <2>4. \A e \in Docs : upload'[e] = "created" => parseStatus'[e] = "ready"
    BY <2>2 DEF ClaimInv, CreatedIsReady
  <2>5. \A e \in stale' : parseStatus'[e] = "processing" /\ LiveOn(e) = {}
    BY <2>2, <1>0 DEF ClaimInv, StaleIsAbandoned
  <2> QED BY <2>2, <2>3, <2>4, <2>5, BystanderStepKeeps
<1>3. ASSUME NEW d \in Docs, NEW r \in Runs, MapInline(d, r) PROVE ClaimInv'
  <2>1. LiveOn(d) = {} /\ parseStatus[d] = "ready" /\ d \notin stale
    BY <1>3, UnownedHasNoRun DEF MapInline, ClaimInv, CreatedIsReady, StaleIsAbandoned
  <2>2. /\ \A q \in Runs : q # r => run'[q] = run[q]
        /\ run'[r].doc = d /\ run'[r].via = "inline" /\ run'[r].step = "begin"
    BY <1>3, <1>0 DEF MapInline, Occupy
  <2>3. /\ parseStatus' = parseStatus /\ stale' = stale \ {d}
        /\ upload' = [upload EXCEPT ![d] = "done"]
    BY <1>3, <2>1 DEF MapInline, docVars
  <2>4. upload[d] = "created" => parseStatus' = parseStatus
    BY <2>3
  <2> QED BY <2>1, <2>2, <2>3, <2>4, NewOwnerKeeps
<1>4. ASSUME NEW d \in Docs, NEW r \in Runs,
             Schedule(d, r) \/ \E p \in Procs : BullTake(p, d, r)
      PROVE  ClaimInv'
  <2>1. \A q \in Runs : run'[q] = run[q] \/ run'[q].step = "claiming"
    BY <1>4, <1>0 DEF Schedule, BullTake, Occupy
  <2>2. parseStatus' = parseStatus /\ stale' = stale
    BY <1>4 DEF Schedule, BullTake, docVars
  <2>3. \A e \in Docs : upload'[e] = upload[e] \/ upload'[e] = "done"
    BY <1>4, <1>0 DEF Schedule, BullTake
  <2>4. \A q \in Runs : Live(q) => run[q].doc \in Docs
    BY <1>0 DEF Live
  <2>5. \A q \in Runs : run'[q] = run[q] \/ ~Live(q)'
    BY <2>1 DEF Live
  <2>6. \A e \in Docs : upload'[e] = "created" => parseStatus'[e] = "ready"
    BY <2>2, <2>3 DEF ClaimInv, CreatedIsReady
  <2>7. \A e \in stale' : parseStatus'[e] = "processing" /\ LiveOn(e) = {}
    BY <2>2 DEF ClaimInv, StaleIsAbandoned
  <2> QED BY <2>2, <2>3, <2>4, <2>5, <2>6, <2>7, BystanderStepKeeps
<1>5. ASSUME NEW r \in Runs, ClaimSignalled(r) PROVE ClaimInv'
  <2> DEFINE d == run[r].doc
  <2>1. CASE parseStatus[d] = "pending"
    <3>1. d \in Docs /\ run[r].step = "claiming"
      BY <1>0, <1>5 DEF ClaimSignalled
    <3>2. LiveOn(d) = {} /\ upload[d] # "created"
      BY <3>1, <2>1, UnownedHasNoRun DEF ClaimInv, CreatedIsReady
    <3>3. /\ \A q \in Runs : q # r => run'[q] = run[q]
          /\ run'[r].doc = d
      BY <1>0, <1>5, <2>1 DEF ClaimSignalled, Advance, RunRecords
    <3>4. /\ parseStatus' = [parseStatus EXCEPT ![d] = "processing"]
          /\ upload' = upload /\ stale' = stale \ {d}
      BY <1>5, <2>1 DEF ClaimSignalled, SetStatus, Restamp, feedVars
    <3> HIDE DEF d
    <3> QED BY <3>1, <3>2, <3>3, <3>4, NewOwnerKeeps
  <2>2. CASE parseStatus[d] # "pending"
    <3>1. run' = [run EXCEPT ![r] = Free] /\ UNCHANGED <<parseStatus, stale, upload>>
      BY <1>5, <2>2 DEF ClaimSignalled, docVars, feedVars
    <3>2. \A q \in Runs : run'[q] = run[q] \/ ~Live(q)'
      BY <3>1, <1>0 DEF Live, Free
    <3> QED BY <3>1, <3>2, BystanderStepKeeps DEF ClaimInv, StaleIsAbandoned, CreatedIsReady
  <2> QED BY <2>1, <2>2
<1>6. ASSUME NEW p \in Procs, NEW k \in Drains, DrainStart(p, k) \/ DrainFind(p, k)
      PROVE  ClaimInv'
  <2>1. UNCHANGED <<parseStatus, stale, upload, run>>
    BY <1>6 DEF DrainStart, DrainFind, docVars, feedVars
  <2> QED BY <2>1, BystanderStepKeeps DEF ClaimInv, StaleIsAbandoned, CreatedIsReady
<1>7. ASSUME NEW p \in Procs, NEW k \in Drains, DrainReclaim(p, k) PROVE ClaimInv'
  <2>1. /\ \A d \in Docs : parseStatus'[d] = IF d \in stale THEN "pending" ELSE parseStatus[d]
        /\ stale' = {} /\ upload' = upload /\ run' = run
    BY <1>7 DEF DrainReclaim, feedVars
  <2>2. \A q \in Runs : Live(q) => run[q].doc \in Docs /\ run[q].doc \notin stale
    BY <1>0 DEF ClaimInv, StaleIsAbandoned, LiveOn, Live
  <2>3. \A q \in Runs : Live(q) => parseStatus'[run[q].doc] = parseStatus[run[q].doc]
    BY <2>1, <2>2
  <2>4. \A d \in Docs : upload'[d] = "created" => parseStatus'[d] = "ready"
    BY <2>1 DEF ClaimInv, CreatedIsReady, StaleIsAbandoned
  <2> QED BY <2>1, <2>3, <2>4, BystanderStepKeeps
<1>8. ASSUME NEW p \in Procs, NEW k \in Drains, NEW r \in Runs, DrainClaim(p, k, r)
      PROVE  ClaimInv'
  <2> DEFINE d == drain[p][k].pick
  <2>1. d \in Docs
    BY <1>0, <1>8 DEF DrainClaim
  <2>2. CASE parseStatus[d] = "pending"
    <3>1. LiveOn(d) = {} /\ upload[d] # "created"
      BY <2>1, <2>2, UnownedHasNoRun DEF ClaimInv, CreatedIsReady
    <3>2. Occupy(r, "handed", d, p, "poll")
      BY <1>8, <2>2 DEF DrainClaim
    <3>3. /\ parseStatus' = [parseStatus EXCEPT ![d] = "processing"]
          /\ upload' = upload /\ stale' = stale \ {d}
      BY <1>8, <2>2 DEF DrainClaim, SetStatus, Restamp, feedVars
    <3> HIDE DEF d
    <3>4. /\ \A q \in Runs : q # r => run'[q] = run[q]
          /\ run'[r].doc = d
      BY <1>0, <3>2 DEF Occupy
    <3> QED BY <2>1, <3>1, <3>3, <3>4, NewOwnerKeeps
  <2>3. CASE parseStatus[d] # "pending"
    <3>1. UNCHANGED <<parseStatus, stale, upload, run>>
      BY <1>8, <2>3 DEF DrainClaim, docVars, feedVars
    <3> QED BY <3>1, BystanderStepKeeps DEF ClaimInv, StaleIsAbandoned, CreatedIsReady
  <2> QED BY <2>2, <2>3
<1>9. ASSUME NEW p \in Procs, NEW k \in Drains, NEW r \in Runs, DrainSpawn(p, k, r)
      PROVE  ClaimInv'
  <2>1. /\ run[r].step = "handed" /\ run[r].via = "poll"
        /\ run' = [run EXCEPT ![r].step = "begin"] /\ UNCHANGED <<parseStatus, stale, upload>>
    BY <1>9 DEF DrainSpawn, Advance, docVars, feedVars
  <2>2. /\ \A q \in Runs : q # r => run'[q] = run[q]
        /\ run'[r].doc = run[r].doc /\ run'[r].via = run[r].via
    BY <2>1, <1>0 DEF RunRecords
  <2>3. Live(r) /\ run[r].step # "begin"
    BY <2>1 DEF Live
  <2> QED BY <2>1, <2>2, <2>3, OwnerStepKeeps
<1>10. ASSUME NEW d \in Docs, GoStale(d) PROVE ClaimInv'
  <2>1. /\ parseStatus[d] = "processing" /\ LiveOn(d) = {} /\ stale' = stale \cup {d}
        /\ UNCHANGED <<parseStatus, upload, run>>
    BY <1>10 DEF GoStale, feedVars
  <2> QED BY <2>1, BystanderStepKeeps DEF ClaimInv, StaleIsAbandoned, CreatedIsReady
<1>11. ASSUME NEW r \in Runs, RunBegin(r) \/ RunDelete(r) \/ RunCreate(r) PROVE ClaimInv'
  <2>1. PICK s \in Steps : run' = [run EXCEPT ![r].step = s]
    BY <1>11 DEF RunBegin, RunDelete, RunCreate, Advance, Steps
  <2>2. /\ \A q \in Runs : q # r => run'[q] = run[q]
        /\ run'[r].doc = run[r].doc /\ run'[r].via = run[r].via
    BY <2>1, <1>0 DEF RunRecords
  <2>3. Live(r)
    BY <1>11 DEF RunBegin, RunDelete, RunCreate, Live
  <2>4. \/ /\ SetStatus(run[r].doc, "processing") /\ stale' = stale \ {run[r].doc}
        \/ run[r].step # "begin" /\ UNCHANGED <<parseStatus, stale>>
    BY <1>11 DEF RunBegin, RunDelete, RunCreate, Restamp, docVars
  <2>5. upload' = upload
    BY <1>11 DEF RunBegin, RunDelete, RunCreate, feedVars
  <2> QED BY <2>2, <2>3, <2>4, <2>5, OwnerStepKeeps
<1>12. ASSUME NEW r \in Runs, RunSkip(r) \/ RunFail(r) \/ RunReady(r) \/ RunLost(r)
       PROVE  ClaimInv'
  <2>1. Live(r) /\ run' = [run EXCEPT ![r] = Free] /\ upload' = upload
    BY <1>12 DEF RunSkip, RunFail, RunReady, RunLost, Live, Done, feedVars
  <2>2. run'[r] = Free /\ \A q \in Runs : q # r => run'[q] = run[q]
    BY <2>1, <1>0
  <2>3. \/ /\ \E s \in {"ready", "failed"} : SetStatus(run[r].doc, s)
           /\ stale' = stale \ {run[r].doc}
        \/ UNCHANGED <<parseStatus, stale>>
    BY <1>12 DEF RunSkip, RunFail, RunReady, RunLost, Restamp, docVars
  <2> QED BY <2>1, <2>2, <2>3, OwnerStepKeeps
<1>13. ASSUME NEW r \in Runs, Redeliver(r) PROVE ClaimInv'
  <2>1. UNCHANGED <<parseStatus, stale, upload, run>>
    BY <1>13 DEF Redeliver, docVars
  <2> QED BY <2>1, BystanderStepKeeps DEF ClaimInv, StaleIsAbandoned, CreatedIsReady
<1>14. ASSUME NEW p \in Procs \cup {Api}, Crash(p) PROVE ClaimInv'
  <2>1. \A q \in Runs : run'[q] = run[q] \/ run'[q] = Free
    BY <1>14 DEF Crash
  <2>2. \A q \in Runs : run'[q] = run[q] \/ ~Live(q)'
    BY <2>1 DEF Live, Free
  <2>3. \A d \in Docs : upload'[d] = upload[d] \/ upload'[d] = "done"
    BY <1>14, <1>0 DEF Crash
  <2>4. parseStatus' = parseStatus /\ stale' = stale
    BY <1>14 DEF Crash, docVars
  <2>5. \A q \in Runs : Live(q) => run[q].doc \in Docs
    BY <1>0 DEF Live
  <2>6. \A d \in Docs : upload'[d] = "created" => parseStatus'[d] = "ready"
    BY <2>3, <2>4 DEF ClaimInv, CreatedIsReady
  <2>7. \A d \in stale' : parseStatus'[d] = "processing" /\ LiveOn(d) = {}
    BY <2>4 DEF ClaimInv, StaleIsAbandoned
  <2> QED BY <2>2, <2>3, <2>4, <2>5, <2>6, <2>7, BystanderStepKeeps
<1>15. CASE UNCHANGED vars
  <2>1. UNCHANGED <<parseStatus, stale, upload, run>>
    BY <1>15 DEF vars, docVars, feedVars
  <2> QED BY <2>1, BystanderStepKeeps DEF ClaimInv, StaleIsAbandoned, CreatedIsReady
<1>16. \A d \in Docs, r \in Runs : ~ManualMap(d, r)
  BY DEF ManualMap
<1>17. CASE Step
  BY <1>1, <1>2, <1>3, <1>4, <1>5, <1>6, <1>7, <1>8, <1>9, <1>10, <1>11, <1>12, <1>13,
     <1>14, <1>16, <1>17 DEF Step, RunStep, FeedStep, DrainStep
<1> QED BY <1>15, <1>17 DEF Next

\* However many processes, workers, pollers, redelivered jobs and crashes there
\* are, the conditional update lets one run into a document at a time, and only
\* while its status is "processing" - provided no live run outlasts
\* PARSE_JOB_STALE_MS and no one maps by hand beside it.
THEOREM ClaimsExclude ==
  ASSUME ~SlowJobs, ~ManualMaps
  PROVE  Spec => [](OneRunPerDocument /\ OnlyProcessingIsWorkedOn)
<1>1. QueueInv /\ QueueInv' /\ ClaimInv /\ [Next]_vars => ClaimInv'
  BY NextClaimInv
<1>2. Spec => []ClaimInv
  BY InitClaimInv, QueueInvariant, <1>1, PTL DEF Spec
<1>3. ClaimInv => OneRunPerDocument /\ OnlyProcessingIsWorkedOn
  BY DEF ClaimInv, Ownership, OnlyProcessingIsWorkedOn
<1> QED BY <1>2, <1>3, PTL

\* A document with a live run is one that says it is being processed, under the
\* same conditions.
THEOREM WorkIsClaimed ==
  ASSUME ~SlowJobs, ~ManualMaps
  PROVE  Spec => []OnlyProcessingIsWorkedOn
<1>1. OneRunPerDocument /\ OnlyProcessingIsWorkedOn => OnlyProcessingIsWorkedOn
  OBVIOUS
<1> QED BY <1>1, ClaimsExclude, PTL

\* Every variable of the queue keeps its type, whatever crashes and repeats.
THEOREM QueueTypes == Spec => []TypeOK
<1>1. QueueInv => TypeOK
  BY DEF QueueInv
<1> QED BY <1>1, QueueInvariant, PTL

-----------------------------------------------------------------------------
(* The poller's limit.  A drainOnce call that is under way has room for one *)
(* more run: it looked at the limit when it began, or when it went on.      *)

Busy(p) == {k \in Drains : drain[p][k].step # "idle"}

RoomLeft(p) == active[p] + Cardinality(Busy(p)) < MaxActive + Cardinality(Drains)

LimitInv == \A p \in Procs : RoomLeft(p)

\* Sets of drainOnce calls can be counted.
LEMMA BusyFinite ==
  \A p : IsFiniteSet(Busy(p)) /\ Cardinality(Busy(p)) \in Nat
         /\ Cardinality(Busy(p)) <= Cardinality(Drains) /\ Cardinality(Drains) \in Nat
<1> TAKE p
<1>1. Busy(p) \in SUBSET Drains /\ IsFiniteSet(Drains)
  BY QueueAssumption DEF Busy
<1> QED BY <1>1, FS_Subset, FS_CardinalityType

\* No drainOnce call begins and none counts a run in.
LEMMA QuietStepKeepsRoom ==
  ASSUME QueueInv, QueueInv', LimitInv,
         \A p \in Procs : active'[p] <= active[p] /\ Busy(p)' \subseteq Busy(p)
  PROVE  LimitInv'
<1> SUFFICES ASSUME NEW p \in Procs PROVE RoomLeft(p)'
  BY DEF LimitInv
<1>1. Cardinality(Busy(p)') <= Cardinality(Busy(p))
  <2>1. IsFiniteSet(Busy(p)) /\ Busy(p)' \in SUBSET Busy(p)
    BY BusyFinite
  <2> QED BY <2>1, FS_Subset
<1>2. /\ Cardinality(Busy(p)) \in Nat /\ Cardinality(Busy(p)') \in Nat
      /\ Cardinality(Drains) \in Nat
  <2>1. Busy(p)' \in SUBSET Busy(p) /\ IsFiniteSet(Busy(p))
    BY BusyFinite
  <2>2. IsFiniteSet(Busy(p)')
    BY <2>1, FS_Subset
  <2> QED BY <2>2, BusyFinite, FS_CardinalityType
<1>3. active[p] \in Nat /\ active'[p] \in Nat
  BY DEF QueueInv, TypeOK
<1> QED BY <1>1, <1>2, <1>3, QueueAssumption DEF LimitInv, RoomLeft

\* A drainOnce call moves on.
LEMMA DrainKeepsRoom ==
  ASSUME QueueInv, QueueInv', LimitInv, NEW p \in Procs, NEW k \in Drains, DrainStep(p, k)
  PROVE  LimitInv'
<1>0. /\ drain \in [Procs -> [Drains -> DrainRecords]] /\ active \in [Procs -> Nat]
      /\ MaxActive \in Nat /\ Cardinality(Drains) \in Nat
      /\ Cardinality(Busy(p)) \in Nat /\ IsFiniteSet(Busy(p))
      /\ Cardinality(Busy(p)) <= Cardinality(Drains)
  BY QueueAssumption, BusyFinite DEF QueueInv, TypeOK
<1>1. ASSUME NEW s, NEW d, SetDrain(p, k, s, d)
      PROVE  /\ \A q \in Procs : q # p => Busy(q)' = Busy(q)
             /\ Busy(p)' = IF s = "idle" THEN Busy(p) \ {k} ELSE Busy(p) \cup {k}
  <2>1. \A q \in Procs : q # p => drain'[q] = drain[q]
    BY <1>0, <1>1 DEF SetDrain
  <2>2. drain'[p] = [drain[p] EXCEPT ![k] = [step |-> s, pick |-> d]]
    BY <1>0, <1>1 DEF SetDrain
  <2>3. \A j \in Drains : drain'[p][j].step = IF j = k THEN s ELSE drain[p][j].step
    BY <1>0, <2>2 DEF DrainRecords
  <2> QED BY <2>1, <2>3 DEF Busy
<1>2. CASE DrainStart(p, k)
  <2>1. /\ active' = active /\ active[p] < MaxActive
        /\ \A q \in Procs : q # p => Busy(q)' = Busy(q)
        /\ Busy(p)' \subseteq Drains
    BY <1>1, <1>2 DEF DrainStart, Busy
  <2>2. Cardinality(Busy(p)') <= Cardinality(Drains) /\ Cardinality(Busy(p)') \in Nat
    <3>1. IsFiniteSet(Drains) /\ Busy(p)' \in SUBSET Drains
      BY <2>1, QueueAssumption
    <3> QED BY <3>1, FS_Subset, FS_CardinalityType
  <2>3. RoomLeft(p)'
    BY <1>0, <2>1, <2>2 DEF RoomLeft
  <2>4. \A q \in Procs : q # p => RoomLeft(q)'
    BY <2>1 DEF LimitInv, RoomLeft
  <2> QED BY <2>3, <2>4 DEF LimitInv
<1>3. CASE DrainReclaim(p, k) \/ DrainFind(p, k) \/ \E r \in Runs : DrainClaim(p, k, r)
  <2>1. k \in Busy(p) /\ active' = active
    BY <1>3 DEF DrainReclaim, DrainFind, DrainClaim, Busy
  <2>2. PICK s, d : SetDrain(p, k, s, d)
    BY <1>3 DEF DrainReclaim, DrainFind, DrainClaim
  <2>3. \A q \in Procs : active'[q] <= active[q] /\ Busy(q)' \subseteq Busy(q)
    BY <1>0, <1>1, <2>1, <2>2
  <2> QED BY <2>3, QuietStepKeepsRoom
<1>4. ASSUME NEW r \in Runs, DrainSpawn(p, k, r) PROVE LimitInv'
  <2>1. /\ k \in Busy(p) /\ active' = [active EXCEPT ![p] = @ + 1]
        /\ SetDrain(p, k, IF active[p] + 1 < MaxActive THEN "reclaim" ELSE "idle", NoDoc)
    BY <1>4 DEF DrainSpawn, Busy
  <2>2. /\ \A q \in Procs : q # p => Busy(q)' = Busy(q) /\ active'[q] = active[q]
        /\ Busy(p)' = IF active[p] + 1 < MaxActive THEN Busy(p) ELSE Busy(p) \ {k}
        /\ active'[p] = active[p] + 1
    <3>1. \A q \in Procs : q # p => active'[q] = active[q]
      BY <1>0, <2>1
    <3>2. active'[p] = active[p] + 1
      BY <1>0, <2>1
    <3>3. CASE active[p] + 1 < MaxActive
      <4>1. SetDrain(p, k, "reclaim", NoDoc)
        BY <2>1, <3>3
      <4>2. Busy(p)' = Busy(p) \cup {k} /\ \A q \in Procs : q # p => Busy(q)' = Busy(q)
        BY <1>1, <4>1
      <4> QED BY <2>1, <3>1, <3>2, <3>3, <4>2
    <3>4. CASE ~(active[p] + 1 < MaxActive)
      <4>1. SetDrain(p, k, "idle", NoDoc)
        BY <2>1, <3>4
      <4>2. Busy(p)' = Busy(p) \ {k} /\ \A q \in Procs : q # p => Busy(q)' = Busy(q)
        BY <1>1, <4>1
      <4> QED BY <3>1, <3>2, <3>4, <4>2
    <3> QED BY <3>3, <3>4
  <2>3. \A q \in Procs : q # p => RoomLeft(q)'
    BY <2>2 DEF LimitInv, RoomLeft
  <2>4. RoomLeft(p)'
    <3>1. CASE active[p] + 1 < MaxActive
      <4>1. Busy(p)' = Busy(p) /\ active'[p] < MaxActive /\ active'[p] \in Nat
        BY <1>0, <2>2, <3>1
      <4> QED BY <1>0, <4>1 DEF RoomLeft
    <3>2. CASE ~(active[p] + 1 < MaxActive)
      <4>1. Cardinality(Busy(p)') = Cardinality(Busy(p)) - 1
        BY <1>0, <2>1, <2>2, <3>2, FS_RemoveElement
      <4>2. RoomLeft(p)
        BY DEF LimitInv
      <4> QED BY <1>0, <2>2, <4>1, <4>2 DEF RoomLeft
    <3> QED BY <3>1, <3>2
  <2> QED BY <2>3, <2>4 DEF LimitInv
<1> QED BY <1>2, <1>3, <1>4 DEF DrainStep

\* No step takes the room of a drainOnce call under way.
LEMMA NextLimitInv == QueueInv /\ QueueInv' /\ LimitInv /\ [Next]_vars => LimitInv'
<1> SUFFICES ASSUME QueueInv, QueueInv', LimitInv, [Next]_vars PROVE LimitInv'
  OBVIOUS
<1>0. active \in [Procs -> Nat] /\ drain \in [Procs -> [Drains -> DrainRecords]]
  BY DEF QueueInv, TypeOK
<1>1. ASSUME active' = active, drain' = drain PROVE LimitInv'
  BY <1>0, <1>1, QuietStepKeepsRoom DEF Busy
<1>2. ASSUME NEW d \in Docs, CreateDocument(d) \/ FeedStep(d) \/ GoStale(d) PROVE LimitInv'
  BY <1>1, <1>2 DEF CreateDocument, FeedStep, MarkPending, MapInline, Schedule, GoStale, pollVars
<1>3. ASSUME NEW d \in Docs, NEW r \in Runs,
             ManualMap(d, r) \/ \E p \in Procs : BullTake(p, d, r)
      PROVE  LimitInv'
  BY <1>1, <1>3 DEF ManualMap, BullTake, pollVars
<1>4. ASSUME NEW r \in Runs,
             ClaimSignalled(r) \/ RunBegin(r) \/ RunDelete(r) \/ RunCreate(r) \/ Redeliver(r)
      PROVE  LimitInv'
  BY <1>1, <1>4 DEF ClaimSignalled, RunBegin, RunDelete, RunCreate, Redeliver, pollVars
<1>5. ASSUME NEW r \in Runs, RunSkip(r) \/ RunFail(r) \/ RunReady(r) \/ RunLost(r)
      PROVE  LimitInv'
  <2>1. Done(r) /\ drain' = drain
    BY <1>5 DEF RunSkip, RunFail, RunReady, RunLost
  <2>2. \A p \in Procs : active'[p] <= active[p]
    BY <1>0, <2>1 DEF Done
  <2> QED BY <2>1, <2>2, QuietStepKeepsRoom DEF Busy
<1>6. ASSUME NEW p \in Procs \cup {Api}, Crash(p) PROVE LimitInv'
  <2>1. CASE p \in Procs
    <3>1. drain' = [drain EXCEPT ![p] = [k \in Drains |-> Idle]] /\ active' = [active EXCEPT ![p] = 0]
      BY <1>6, <2>1 DEF Crash
    <3>2. \A q \in Procs : active'[q] <= active[q] /\ Busy(q)' \subseteq Busy(q)
      BY <1>0, <3>1 DEF Busy, Idle
    <3> QED BY <3>2, QuietStepKeepsRoom
  <2>2. CASE p \notin Procs
    BY <1>1, <1>6, <2>2 DEF Crash, pollVars
  <2> QED BY <2>1, <2>2
<1>7. CASE UNCHANGED vars
  BY <1>1, <1>7 DEF vars, pollVars
<1>8. CASE Next
  <2>1. Step
    BY <1>8 DEF Next
  <2> QED BY <1>2, <1>3, <1>4, <1>5, <1>6, <2>1, DrainKeepsRoom DEF Step, RunStep
<1> QED BY <1>7, <1>8

\* The poller's limit is overrun by less than the number of drainOnce calls that
\* may overlap, for every limit, every number of calls and any crashes.
THEOREM OverrunBounded == Spec => []PollerOverrunBounded
<1>1. Init => LimitInv
  <2> SUFFICES ASSUME Init, NEW p \in Procs PROVE RoomLeft(p)
    BY DEF LimitInv
  <2>1. Busy(p) = {} /\ active[p] = 0
    BY DEF Init, Busy, Idle
  <2> QED BY <2>1, FS_EmptySet, BusyFinite, QueueAssumption DEF RoomLeft
<1>2. QueueInv /\ LimitInv => PollerOverrunBounded
  <2> SUFFICES ASSUME QueueInv, LimitInv, NEW p \in Procs
               PROVE  active[p] < MaxActive + Cardinality(Drains)
    BY DEF PollerOverrunBounded
  <2>1. active[p] \in Nat /\ Cardinality(Busy(p)) \in Nat /\ Cardinality(Drains) \in Nat
    BY BusyFinite DEF QueueInv, TypeOK
  <2> QED BY <2>1, QueueAssumption DEF LimitInv, RoomLeft
<1>3. QueueInv /\ QueueInv' /\ LimitInv /\ [Next]_vars => LimitInv'
  BY NextLimitInv
<1> QED BY <1>1, <1>2, <1>3, QueueInvariant, PTL DEF Spec

-----------------------------------------------------------------------------
(* Rows stored twice.  While no two runs have met in a document, the one    *)
(* that is about to store its rows has just removed those stored before.    *)

StoredOnce(d) ==
  /\ copies[d] <= 1
  /\ \A r, s \in LiveOn(d) : r = s
  /\ \A r \in LiveOn(d) : run[r].step = "deleted" => copies[d] = 0

CopiesInv == \A d \in Docs \ overlapped : StoredOnce(d)

\* What one step does to the rows of a document.
LEMMA NextCopiesInv == QueueInv /\ QueueInv' /\ CopiesInv /\ [Next]_vars => CopiesInv'
<1> SUFFICES ASSUME QueueInv, QueueInv', CopiesInv, [Next]_vars PROVE CopiesInv'
  OBVIOUS
<1>0. /\ run \in [Runs -> RunRecords] /\ copies \in [Docs -> Nat]
      /\ overlapped \subseteq Docs
      /\ \A r \in Runs : Live(r) => run[r].doc \in Docs
  BY DEF QueueInv, TypeOK, WellFormed, Live
<1>1. CASE UNCHANGED vars
  BY <1>1 DEF vars, CopiesInv, StoredOnce, LiveOn, Live
<1>2. CASE Next
  <2> DEFINE Kept(q) == run'[q] = run[q] \/ run'[q].step # "deleted"
  <2>1. /\ overlapped \subseteq overlapped'
        /\ \A d \in Docs \ overlapped' : \A r, s \in LiveOn(d)' : r = s
    BY <1>2 DEF Next, LiveOn
  <2>2. ASSUME copies' = copies, \A q \in Runs : Kept(q) PROVE CopiesInv'
    <3> SUFFICES ASSUME NEW d \in Docs \ overlapped', NEW r \in LiveOn(d)', run'[r].step = "deleted"
                 PROVE  copies[d] = 0
      BY <2>1, <2>2 DEF CopiesInv, StoredOnce
    <3>1. run'[r] = run[r]
      BY <2>2 DEF LiveOn
    <3>2. r \in LiveOn(d) /\ run[r].step = "deleted"
      BY <3>1 DEF LiveOn, Live
    <3> QED BY <2>1, <3>2 DEF CopiesInv, StoredOnce
  <2>3. ASSUME NEW r \in Runs, NEW s, s # "deleted", Advance(r, s) PROVE \A q \in Runs : Kept(q)
    BY <1>0, <2>3 DEF Advance, RunRecords
  <2>4. ASSUME NEW r \in Runs, NEW s \in Steps, NEW d, NEW p, NEW via, s # "deleted",
               Occupy(r, s, d, p, via)
        PROVE  \A q \in Runs : Kept(q)
    BY <1>0, <2>4 DEF Occupy
  <2>5. ASSUME NEW r \in Runs, run' = [run EXCEPT ![r] = Free] PROVE \A q \in Runs : Kept(q)
    BY <1>0, <2>5 DEF Free
  <2>6. ASSUME run' = run PROVE \A q \in Runs : Kept(q)
    BY <2>6
  <2> HIDE DEF Kept
  <2>7. ASSUME NEW d \in Docs,
               \/ CreateDocument(d) \/ FeedStep(d) \/ GoStale(d)
               \/ \E r \in Runs : ManualMap(d, r) \/ \E p \in Procs : BullTake(p, d, r)
        PROVE  CopiesInv'
    <3>1. copies' = copies
      BY <2>7 DEF CreateDocument, FeedStep, MarkPending, MapInline, Schedule, GoStale, ManualMap,
         BullTake
    <3>2. \/ run' = run
          \/ \E p, via : \E r \in Runs, s \in {"begin", "claiming", "parsing"} :
               Occupy(r, s, d, p, via)
      BY <2>7 DEF CreateDocument, FeedStep, MarkPending, MapInline, Schedule, GoStale, ManualMap,
         BullTake
    <3>3. \A q \in Runs : Kept(q)
      BY <2>4, <2>6, <3>2 DEF Steps
    <3> QED BY <2>2, <3>1, <3>3
  <2>8. ASSUME NEW p \in Procs, NEW k \in Drains, DrainStep(p, k) PROVE CopiesInv'
    <3>1. copies' = copies
      BY <2>8 DEF DrainStep, DrainStart, DrainReclaim, DrainFind, DrainClaim, DrainSpawn
    <3>2. CASE run' = run
      BY <2>2, <2>6, <3>1, <3>2
    <3>3. CASE \E d : \E r \in Runs : Occupy(r, "handed", d, p, "poll")
      <4>1. \A q \in Runs : Kept(q)
        BY <2>4, <3>3 DEF Steps
      <4> QED BY <2>2, <3>1, <4>1
    <3>4. CASE \E r \in Runs : Advance(r, "begin")
      <4>1. \A q \in Runs : Kept(q)
        BY <2>3, <3>4
      <4> QED BY <2>2, <3>1, <4>1
    <3>5. \/ run' = run
          \/ \E d : \E r \in Runs : Occupy(r, "handed", d, p, "poll")
          \/ \E r \in Runs : Advance(r, "begin")
      BY <2>8 DEF DrainStep, DrainStart, DrainReclaim, DrainFind, DrainClaim, DrainSpawn
    <3> QED BY <3>2, <3>3, <3>4, <3>5
  <2>9. ASSUME NEW r \in Runs, ClaimSignalled(r) \/ RunBegin(r) \/ Redeliver(r) PROVE CopiesInv'
    <3>1. copies' = copies
      BY <2>9 DEF ClaimSignalled, RunBegin, Redeliver
    <3>2. \/ run' = run \/ run' = [run EXCEPT ![r] = Free]
          \/ Advance(r, "begin") \/ Advance(r, "parsing")
      BY <2>9 DEF ClaimSignalled, RunBegin, Redeliver
    <3>3. \A q \in Runs : Kept(q)
      BY <2>3, <2>5, <2>6, <3>2
    <3> QED BY <2>2, <3>1, <3>3
  <2>10. ASSUME NEW r \in Runs, RunSkip(r) \/ RunFail(r) \/ RunReady(r) \/ RunLost(r)
         PROVE  CopiesInv'
    <3>1. copies' = copies /\ run' = [run EXCEPT ![r] = Free]
      BY <2>10 DEF RunSkip, RunFail, RunReady, RunLost, Done
    <3> QED BY <2>2, <2>5, <3>1
  <2>11. ASSUME NEW p \in Procs \cup {Api}, Crash(p) PROVE CopiesInv'
    <3>1. copies' = copies
      BY <2>11 DEF Crash
    <3>2. \A q \in Runs : Kept(q)
      BY <2>11 DEF Crash, Kept, Free
    <3> QED BY <2>2, <3>1, <3>2
  <2>12. ASSUME NEW r \in Runs, RunDelete(r) PROVE CopiesInv'
    <3> DEFINE d == run[r].doc
    <3>1. d \in Docs /\ copies' = [copies EXCEPT ![d] = 0] /\ Advance(r, "deleted")
      BY <1>0, <2>12 DEF RunDelete, Live
    <3>2. \A q \in Runs : q # r => run'[q] = run[q]
      BY <1>0, <3>1 DEF Advance
    <3>3. run'[r].doc = d
      BY <1>0, <3>1 DEF Advance, RunRecords
    <3>4. ASSUME NEW e \in Docs \ overlapped' PROVE StoredOnce(e)'
      <4>1. \A q, s \in LiveOn(e)' : q = s
        BY <2>1
      <4>2. CASE e = d
        BY <1>0, <3>1, <4>1, <4>2 DEF StoredOnce
      <4>3. CASE e # d
        <5>1. copies'[e] = copies[e] /\ StoredOnce(e)
          BY <1>0, <2>1, <3>1, <4>3 DEF CopiesInv
        <5>2. \A q \in LiveOn(e)' : q # r /\ q \in LiveOn(e) /\ run'[q] = run[q]
          BY <3>2, <3>3, <4>3 DEF LiveOn, Live
        <5> QED BY <4>1, <5>1, <5>2 DEF StoredOnce
      <4> QED BY <4>2, <4>3
    <3> QED BY <3>4 DEF CopiesInv
  <2>13. ASSUME NEW r \in Runs, RunCreate(r) PROVE CopiesInv'
    <3> DEFINE d == run[r].doc
    <3>1. /\ d \in Docs /\ copies' = [copies EXCEPT ![d] = @ + 1] /\ Advance(r, "created")
          /\ run[r].step = "deleted" /\ r \in LiveOn(d)
      BY <1>0, <2>13 DEF RunCreate, Live, LiveOn
    <3>2. \A q \in Runs : q # r => run'[q] = run[q]
      BY <1>0, <3>1 DEF Advance
    <3>3. run'[r].doc = d /\ run'[r].step = "created"
      BY <1>0, <3>1 DEF Advance, RunRecords
    <3>4. ASSUME NEW e \in Docs \ overlapped' PROVE StoredOnce(e)'
      <4>1. \A q, s \in LiveOn(e)' : q = s
        BY <2>1
      <4>2. StoredOnce(e)
        BY <2>1 DEF CopiesInv
      <4>3. CASE e = d
        <5>1. copies[d] = 0
          BY <3>1, <4>2, <4>3 DEF StoredOnce
        <5>2. copies'[e] = 1
          BY <1>0, <3>1, <4>3, <5>1
        <5>3. r \in LiveOn(e)'
          BY <3>3, <4>3 DEF LiveOn, Live
        <5>4. \A q \in LiveOn(e)' : run'[q].step # "deleted"
          BY <3>3, <4>1, <5>3
        <5> QED BY <4>1, <5>2, <5>4 DEF StoredOnce
      <4>4. CASE e # d
        <5>1. copies'[e] = copies[e]
          BY <1>0, <3>1, <4>4
        <5>2. \A q \in LiveOn(e)' : q # r /\ q \in LiveOn(e) /\ run'[q] = run[q]
          BY <3>2, <3>3, <4>4 DEF LiveOn, Live
        <5> QED BY <4>1, <4>2, <5>1, <5>2 DEF StoredOnce
      <4> QED BY <4>3, <4>4
    <3> QED BY <3>4 DEF CopiesInv
  <2>14. Step
    BY <1>2 DEF Next
  <2> QED BY <2>7, <2>8, <2>9, <2>10, <2>11, <2>12, <2>13, <2>14 DEF Step, RunStep
<1> QED BY <1>1, <1>2

\* A file's rows are stored twice only after two runs were inside the document at
\* once: without that, no crash, repetition or failure of the two separate calls
\* deleteMany and createMany does it (applyDocumentMapping.ts).
THEOREM DoubleImportIsOverlap == Spec => []DoubleImportNeedsOverlap
<1>1. Init => CopiesInv
  BY DEF Init, CopiesInv, StoredOnce, LiveOn, Live, Free
<1>2. QueueInv /\ CopiesInv => DoubleImportNeedsOverlap
  <2> SUFFICES ASSUME QueueInv, CopiesInv, NEW d \in Docs, d \notin overlapped
               PROVE  ~(copies[d] > 1)
    BY DEF DoubleImportNeedsOverlap
  <2>1. copies[d] <= 1 /\ copies[d] \in Nat
    BY DEF CopiesInv, StoredOnce, QueueInv, TypeOK
  <2> QED BY <2>1
<1>3. QueueInv /\ QueueInv' /\ CopiesInv /\ [Next]_vars => CopiesInv'
  BY NextCopiesInv
<1> QED BY <1>1, <1>2, <1>3, QueueInvariant, PTL DEF Spec
=============================================================================
