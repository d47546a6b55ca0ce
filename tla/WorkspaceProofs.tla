--------------------------- MODULE WorkspaceProofs ---------------------------
(***************************************************************************)
(* Proofs about the parts of a workspace: the chain of its periods         *)
(* (RollForward), its meter (UsageMeter), what it has learned              *)
(* (LearnedMemory), and the behaviours of MCWorkspace, in which each part  *)
(* runs as it does alone.                                                  *)
(***************************************************************************)
EXTENDS MCWorkspace, MembersProofs, PlanQuotasProofs, IngestCheckProofs

-----------------------------------------------------------------------------
(* Roll-forward                                                            *)

\* A set of numbers that holds 0 and with each number the next holds them all.
LEMMA AllNumbers ==
    ASSUME NEW n \in Nat, NEW G, 0 \in G, \A k \in 0..n : k \in G /\ k + 1 <= n => k + 1 \in G
    PROVE  \A k \in 0..n : k \in G
<1> DEFINE T == {k \in 0..n : k \notin G}
<1> SUFFICES ASSUME T # {} PROVE FALSE
  OBVIOUS
<1>1. T \in SUBSET Nat
  OBVIOUS
<1>2. PICK x \in T : \A y \in T : x <= y
  BY <1>1, LeastOf
<1>3. x \in 0..n /\ x # 0 /\ x - 1 \in 0..n /\ x - 1 \notin T
  BY <1>2
<1>4. x - 1 \in G /\ (x - 1) + 1 = x
  BY <1>3
<1> QED BY <1>3, <1>4

\* A walk down a chain, gathering what lies on the way.
Walks(f, n, down, u) ==
    f = [p \in 0..n |-> IF p = 0 THEN {} ELSE f[down[p]] \cup u[p]]

\* There is such a walk when each place leads to an earlier one.
LEMMA WalkExists ==
    ASSUME NEW n \in Nat, NEW down, NEW u, \A p \in 1..n : down[p] \in 0..n /\ down[p] < p
    PROVE  \E f : Walks(f, n, down, u)
<1> DEFINE Body(f, p) == IF p = 0 THEN {} ELSE f[down[p]] \cup u[p]
           UpTo(f, k) == \A p \in 0..k : f[p] = Body(f, p)
           Built(k) == \E f : UpTo(f, k)
           G == {k \in 0..n : Built(k)}
<1>1. Built(0)
  <2> DEFINE f == [p \in 0..n |-> {}]
  <2>1. UpTo(f, 0)
    OBVIOUS
  <2> HIDE DEF f, UpTo
  <2> QED BY <2>1
<1>2. ASSUME NEW k \in 0..n, Built(k), k + 1 <= n PROVE Built(k + 1)
  <2>1. PICK f : UpTo(f, k)
    <3> HIDE DEF UpTo
    <3> QED BY <1>2
  <2> DEFINE g == [p \in 0..n |-> Body(f, p)]
  <2>2. ASSUME NEW p \in 0..k PROVE g[p] = f[p]
    <3>1. p \in 0..n
      BY k \in 0..n
    <3>2. g[p] = Body(f, p)
      BY <3>1
    <3>3. f[p] = Body(f, p)
      <4> HIDE DEF Body
      <4> QED BY <2>1
    <3> QED BY <3>2, <3>3
  <2>3. \A p \in 0..k+1 : p # 0 => down[p] \in 0..k
    BY <1>2
  <2>4. \A p \in 0..k+1 : g[p] = Body(g, p)
    <3> SUFFICES ASSUME NEW p \in 0..k+1 PROVE g[p] = Body(g, p)
      OBVIOUS
    <3>1. p \in 0..n /\ g[p] = Body(f, p)
      BY <1>2
    <3>2. p # 0 => g[down[p]] = f[down[p]]
      BY <2>2, <2>3
    <3> HIDE DEF g
    <3> QED BY <3>1, <3>2
  <2> HIDE DEF g
  <2>5. UpTo(g, k + 1)
    BY <2>4
  <2> HIDE DEF UpTo
  <2> QED BY <2>5
<1>3. Built(n)
  <2> HIDE DEF Built
  <2>1. 0 \in G /\ \A k \in 0..n : k \in G /\ k + 1 <= n => k + 1 \in G
    BY <1>1, <1>2
  <2> HIDE DEF G
  <2>2. \A k \in 0..n : k \in G
    BY <2>1, AllNumbers
  <2> QED BY <2>2 DEF G
<1>4. PICK f : UpTo(f, n)
  <2> HIDE DEF UpTo
  <2> QED BY <1>3
<1> DEFINE g == [p \in 0..n |-> f[p]]
<1>5. \A p \in 0..n : g[p] = Body(g, p)
  <2> SUFFICES ASSUME NEW p \in 0..n PROVE g[p] = Body(g, p)
    OBVIOUS
  <2>1. g[p] = Body(f, p)
    BY <1>4
  <2>2. p # 0 => g[down[p]] = f[down[p]]
    OBVIOUS
  <2> HIDE DEF g
  <2> QED BY <2>1, <2>2
<1>6. g = [p \in 0..n |-> g[p]]
  OBVIOUS
<1> HIDE DEF g
<1>7. [p \in 0..n |-> g[p]] = [p \in 0..n |-> Body(g, p)]
  BY <1>5
<1>8. Walks(g, n, down, u)
  BY <1>6, <1>7 DEF Walks
<1> HIDE DEF Body, UpTo
<1> QED BY <1>8

\* What the books keep: a period is rolled forward from an earlier one.
Earlier ==
  /\ before \in [Periods -> 0..MaxPeriods]
  /\ \A p \in Periods : before[p] < p

\* The periods there have been come before those there will be.
BooksInv ==
  /\ stage \in [Periods -> {"none", "open", "completed", "deleted"}]
  /\ Earlier
  /\ \A p, q \in Periods : stage[p] = "none" /\ stage[q] # "none" => q < p

LEMMA InitBooksInv == BooksInit => BooksInv
  BY RollForwardAssumption DEF BooksInit, BooksInv, Earlier, Periods

LEMMA NextBooksInv == BooksInv /\ [BooksNext]_booksVars => BooksInv'
<1> SUFFICES ASSUME BooksInv, [BooksNext]_booksVars PROVE BooksInv'
  OBVIOUS
<1>0. MaxPeriods \in Nat /\ Periods \subseteq 1..MaxPeriods
  BY RollForwardAssumption DEF Periods
<1>1. ASSUME UNCHANGED <<stage, before>> PROVE BooksInv'
  BY <1>1 DEF BooksInv, Earlier
<1>2. ASSUME NEW p \in Periods, NEW q \in 0..MaxPeriods, OpenPeriod(p, q) PROVE BooksInv'
  <2>1. /\ stage[p] = "none" /\ \A n \in Periods : n < p => stage[n] # "none"
        /\ q # 0 => q \in Periods /\ stage[q] = "completed"
        /\ stage' = [stage EXCEPT ![p] = "open"] /\ before' = [before EXCEPT ![p] = q]
    BY <1>2 DEF OpenPeriod, Live
  <2>2. q < p
    <3>1. q # 0 => q < p
      BY <2>1 DEF BooksInv
    <3> QED BY <1>0, <3>1
  <2>3. Earlier'
    BY <1>0, <2>1, <2>2 DEF BooksInv, Earlier
  <2>4. stage' \in [Periods -> {"none", "open", "completed", "deleted"}]
    BY <2>1 DEF BooksInv
  <2>5. ASSUME NEW k \in Periods, NEW m \in Periods, stage'[k] = "none", stage'[m] # "none"
        PROVE  m < k
    <3>1. k # p /\ stage[k] = "none"
      BY <2>1, <2>5 DEF BooksInv
    <3>2. ~(k < p)
      BY <2>1, <3>1
    <3>3. p < k
      BY <1>0, <3>1, <3>2
    <3>4. m = p \/ stage[m] # "none"
      BY <2>1, <2>5 DEF BooksInv
    <3> QED BY <3>1, <3>3, <3>4 DEF BooksInv
  <2> QED BY <2>3, <2>4, <2>5 DEF BooksInv
<1>3. ASSUME NEW p \in Periods, NEW s \in {"open", "completed", "deleted"}, stage[p] # "none",
             stage' = [stage EXCEPT ![p] = s], before' = before \/ \E q \in Periods : DeletePeriod(q)
      PROVE  BooksInv'
  <2>1. \A k \in Periods : stage'[k] = "none" <=> stage[k] = "none"
    BY <1>3 DEF BooksInv
  <2>2. stage' \in [Periods -> {"none", "open", "completed", "deleted"}]
    BY <1>3 DEF BooksInv
  <2>3. Earlier'
    <3>1. CASE before' = before
      BY <3>1 DEF BooksInv, Earlier
    <3>2. ASSUME NEW q \in Periods, DeletePeriod(q) PROVE Earlier'
      <4>1. before' = [k \in Periods |-> IF k = q \/ before[k] = q THEN 0 ELSE before[k]]
        BY <3>2 DEF DeletePeriod
      <4> QED BY <1>0, <4>1 DEF BooksInv, Earlier
    <3> QED BY <1>3, <3>1, <3>2
  <2> QED BY <2>1, <2>2, <2>3 DEF BooksInv
<1>4. ASSUME NEW p \in Periods, Complete(p) \/ ReopenPeriod(p) PROVE BooksInv'
  BY <1>3, <1>4 DEF Complete, ReopenPeriod
<1>5. ASSUME NEW p \in Periods, DeletePeriod(p) PROVE BooksInv'
  BY <1>3, <1>5 DEF DeletePeriod, Live
<1>6. CASE UNCHANGED booksVars
  BY <1>1, <1>6 DEF booksVars
<1> QED BY <1>1, <1>2, <1>4, <1>5, <1>6
    DEF BooksNext, ImportPayments, ImportStatement, Pair, Unpair

\* The walk over the outstanding cheques, as the equation it solves.
LEMMA OutstandingWalk ==
    ASSUME BooksInv, NEW p \in 0..MaxPeriods
    PROVE  OutstandingAt[p] = IF p = 0 THEN {} ELSE OutstandingAt[before[p]] \cup Unpresented(p)
<1> DEFINE u == [q \in Periods |-> Unpresented(q)]
           Carried(f) == [q \in 0..MaxPeriods |-> IF q = 0 THEN {} ELSE f[before[q]] \cup Unpresented(q)]
<1>1. \E f : Walks(f, MaxPeriods, before, u)
  <2>1. \A q \in 1..MaxPeriods : before[q] \in 0..MaxPeriods /\ before[q] < q
    BY DEF BooksInv, Earlier, Periods
  <2> QED BY <2>1, WalkExists, RollForwardAssumption
<1>2. PICK f : Walks(f, MaxPeriods, before, u)
  BY <1>1
<1>3. f = Carried(f)
  <2>1. f = [q \in 0..MaxPeriods |-> IF q = 0 THEN {} ELSE f[before[q]] \cup u[q]]
    BY <1>2 DEF Walks
  <2>2. \A q \in 0..MaxPeriods : q # 0 => u[q] = Unpresented(q)
    BY RollForwardAssumption DEF Periods
  <2> QED BY <2>1, <2>2
<1>4. OutstandingAt = CHOOSE g : g = Carried(g)
  BY DEF OutstandingAt
<1>5. OutstandingAt = Carried(OutstandingAt)
  <2> HIDE DEF Carried
  <2> QED BY <1>3, <1>4
<1> HIDE DEF OutstandingAt
<1> QED BY <1>5

\* The same of the chain.
LEMMA ChainWalk ==
    ASSUME BooksInv, NEW p \in 0..MaxPeriods
    PROVE  Chain[p] = IF p = 0 THEN {} ELSE {p} \cup Chain[before[p]]
<1> DEFINE u == [q \in Periods |-> {q}]
           Up(f) == [q \in 0..MaxPeriods |-> IF q = 0 THEN {} ELSE {q} \cup f[before[q]]]
<1>1. \E f : Walks(f, MaxPeriods, before, u)
  <2>1. \A q \in 1..MaxPeriods : before[q] \in 0..MaxPeriods /\ before[q] < q
    BY DEF BooksInv, Earlier, Periods
  <2> QED BY <2>1, WalkExists, RollForwardAssumption
<1>2. PICK f : Walks(f, MaxPeriods, before, u)
  BY <1>1
<1>3. f = Up(f)
  <2>1. f = [q \in 0..MaxPeriods |-> IF q = 0 THEN {} ELSE f[before[q]] \cup u[q]]
    BY <1>2 DEF Walks
  <2>2. \A q \in 0..MaxPeriods : q # 0 => u[q] = {q} /\ f[before[q]] \cup u[q] = {q} \cup f[before[q]]
    BY RollForwardAssumption DEF Periods
  <2> HIDE DEF u
  <2> QED BY <2>1, <2>2
<1>4. Chain = CHOOSE g : g = Up(g)
  BY DEF Chain
<1>5. Chain = Up(Chain)
  <2> HIDE DEF Up
  <2> QED BY <1>3, <1>4
<1> HIDE DEF Chain
<1> QED BY <1>5

\* What is outstanding was unpresented in a period of the chain, which is no later.
LEMMA OutstandingIsUnpresented ==
    ASSUME BooksInv, NEW p \in 0..MaxPeriods
    PROVE  /\ \A c : c \in OutstandingAt[p] <=> \E q \in Chain[p] : c \in Unpresented(q)
           /\ \A q \in Chain[p] : q \in Periods /\ q <= p
<1> DEFINE Right(k) == /\ \A c : c \in OutstandingAt[k] <=> \E q \in Chain[k] : c \in Unpresented(q)
                       /\ \A q \in Chain[k] : q \in Periods /\ q <= k
           T == {k \in 0..MaxPeriods : ~Right(k)}
<1> SUFFICES ASSUME T # {} PROVE FALSE
  OBVIOUS
<1>0. MaxPeriods \in Nat
  BY RollForwardAssumption
<1>1. T \in SUBSET Nat
  BY <1>0
<1>2. PICK k \in T : \A j \in T : k <= j
  <2> HIDE DEF T
  <2> QED BY <1>1, LeastOf
<1>3. k \in 0..MaxPeriods /\ ~Right(k)
  <2> HIDE DEF Right
  <2> QED BY <1>2
<1>4. CASE k = 0
  <2>1. OutstandingAt[k] = {} /\ Chain[k] = {}
    BY <1>3, <1>4, OutstandingWalk, ChainWalk
  <2> QED BY <1>3, <2>1
<1>5. CASE k # 0
  <2> DEFINE b == before[k]
  <2>1. k \in Periods /\ b \in 0..MaxPeriods /\ b < k /\ k \in Nat /\ b \in Nat
    BY <1>0, <1>3, <1>5 DEF BooksInv, Earlier, Periods
  <2>2. /\ OutstandingAt[k] = OutstandingAt[b] \cup Unpresented(k)
        /\ Chain[k] = {k} \cup Chain[b]
    BY <1>3, <1>5, OutstandingWalk, ChainWalk
  <2>3. Right(b)
    <3> HIDE DEF Right, b
    <3>1. b \notin T
      BY <1>2, <2>1
    <3> QED BY <2>1, <3>1
  <2> HIDE DEF b
  <2>4. \A c : c \in OutstandingAt[k] <=> \E q \in Chain[k] : c \in Unpresented(q)
    BY <2>2, <2>3
  <2>5. \A q \in Chain[k] : q \in Periods /\ q <= k
    <3> SUFFICES ASSUME NEW q \in Chain[k] PROVE q \in Periods /\ q <= k
      OBVIOUS
    <3>1. CASE q = k
      BY <2>1, <3>1
    <3>2. CASE q \in Chain[b]
      <4>1. q \in Periods /\ q <= b
        BY <2>3, <3>2
      <4>2. q \in Nat
        BY <1>0, <4>1 DEF Periods
      <4> QED BY <2>1, <4>1, <4>2
    <3> QED BY <2>2, <3>1, <3>2
  <2> QED BY <1>3, <2>4, <2>5
<1> QED BY <1>4, <1>5

\* However periods are completed, reopened, imported again or deleted under a later
\* one, a cheque nobody has seen cleared is deducted once in the later one's
\* statement, and what is brought forward is an unmatched payment of an earlier
\* period of the chain (brsRollForward.ts, brsCanonicalSchedule.ts).
THEOREM OwedChequesDeducted == BooksSpec => []OwedChequesAreDeductedOnce
<1>1. BooksInv => OwedChequesAreDeductedOnce
  <2> SUFFICES ASSUME BooksInv, NEW p \in Live
               PROVE  /\ \A c \in Cheques : Owed(p, c) => (c \in Face(p)) # (c \in BroughtForward(p))
                      /\ \A c \in BroughtForward(p) : \E q \in Chain[p] \ {p} : c \in Unmatched(q)
    BY DEF OwedChequesAreDeductedOnce
  <2> DEFINE b == before[p]
  <2>1. p \in Periods /\ p \in 0..MaxPeriods /\ p # 0 /\ b \in 0..MaxPeriods /\ b < p /\ p \in Nat
    BY RollForwardAssumption DEF Live, Periods, BooksInv, Earlier
  <2>2. Chain[p] = {p} \cup Chain[b]
    BY <2>1, ChainWalk
  <2>3. /\ \A c : c \in OutstandingAt[b] <=> \E q \in Chain[b] : c \in Unpresented(q)
        /\ p \notin Chain[b]
    <3>1. /\ \A c : c \in OutstandingAt[b] <=> \E q \in Chain[b] : c \in Unpresented(q)
          /\ \A q \in Chain[b] : q <= b
      BY <2>1, OutstandingIsUnpresented
    <3>2. ~(p <= b)
      BY <2>1
    <3> QED BY <3>1, <3>2
  <2> BroughtForward(p) = OutstandingAt[b] \ (drawn[p] \cup onBank[p])
    BY DEF BroughtForward
  <2> HIDE DEF b
  <2>4. \A q, c : c \in Unpresented(q) => c \in Unmatched(q)
    BY DEF Unpresented
  <2>5. ASSUME NEW c \in Cheques, Owed(p, c) PROVE (c \in Face(p)) # (c \in BroughtForward(p))
    <3>1. /\ \E q \in Chain[p] : c \in Unmatched(q)
          /\ c \notin paired[p]
          /\ \A q \in Chain[p] : c \notin onBank[q]
      BY <2>5 DEF Owed
    <3>2. \A q \in Chain[p] : c \in Unpresented(q) <=> c \in Unmatched(q)
      BY <3>1 DEF Unpresented
    <3>3. c \notin onBank[p]
      BY <2>2, <3>1
    <3>4. CASE c \in Unmatched(p)
      <4>1. c \in Face(p)
        BY <3>3, <3>4 DEF Face
      <4>2. c \in drawn[p]
        BY <3>4 DEF Unmatched
      <4> QED BY <4>1, <4>2
    <3>5. CASE c \notin Unmatched(p)
      <4>1. c \notin Face(p)
        BY <3>5 DEF Face
      <4>2. c \notin drawn[p]
        BY <3>1, <3>5 DEF Unmatched
      <4>3. \E q \in Chain[b] : c \in Unpresented(q)
        BY <2>2, <3>1, <3>2, <3>5
      <4>4. c \in OutstandingAt[b]
        BY <2>3, <4>3
      <4> QED BY <3>3, <4>1, <4>2, <4>4
    <3> QED BY <3>4, <3>5
  <2>6. ASSUME NEW c \in BroughtForward(p) PROVE \E q \in Chain[p] \ {p} : c \in Unmatched(q)
    <3>1. c \in OutstandingAt[b]
      OBVIOUS
    <3>2. PICK q \in Chain[b] : c \in Unpresented(q)
      BY <2>3, <3>1
    <3> QED BY <2>2, <2>3, <2>4, <3>2
  <2> QED BY <2>5, <2>6
<1> QED BY <1>1, InitBooksInv, NextBooksInv, PTL DEF BooksSpec

-----------------------------------------------------------------------------
(* Sums                                                                    *)

Total(f, S) == MapThenSumSet(LAMBDA x : f[x], S)

Pick(s) == CHOOSE x \in s : TRUE

\* The sums of f over the subsets of S, each from that of a smaller one.
Sums(it, f, S) ==
    it = [s \in SUBSET S |-> IF s = {} THEN 0 ELSE f[Pick(s)] + it[s \ {Pick(s)}]]

LEMMA TotalIs ==
    ASSUME NEW f, NEW S
    PROVE  Total(f, S) = (CHOOSE it : Sums(it, f, S))[S]
  BY DEF Total, MapThenSumSet, MapThenFoldSet, Sums, Pick

\* Taking one element out of a finite set.
LEMMA PickOut ==
    ASSUME NEW S, IsFiniteSet(S), NEW s \in SUBSET S
    PROVE  /\ Cardinality(s) \in Nat /\ Cardinality(s) <= Cardinality(S)
           /\ s = {} => Cardinality(s) = 0
           /\ s # {} => /\ Pick(s) \in s /\ s \ {Pick(s)} \in SUBSET S
                        /\ Cardinality(s \ {Pick(s)}) + 1 = Cardinality(s)
                        /\ Cardinality(s \ {Pick(s)}) \in Nat
<1>1. IsFiniteSet(s) /\ Cardinality(s) \in Nat /\ Cardinality(s) <= Cardinality(S)
  BY FS_Subset, FS_CardinalityType
<1>2. ASSUME s # {}
      PROVE  /\ Pick(s) \in s /\ s \ {Pick(s)} \in SUBSET S
             /\ Cardinality(s \ {Pick(s)}) + 1 = Cardinality(s)
             /\ Cardinality(s \ {Pick(s)}) \in Nat
  <2>1. Pick(s) \in s
    BY <1>2 DEF Pick
  <2>2. Cardinality(s \ {Pick(s)}) = Cardinality(s) - 1 /\ IsFiniteSet(s \ {Pick(s)})
    BY <1>1, <2>1, FS_RemoveElement
  <2>3. Cardinality(s \ {Pick(s)}) \in Nat
    BY <2>2, FS_CardinalityType
  <2> QED BY <1>1, <2>1, <2>2, <2>3
<1> QED BY <1>1, <1>2, FS_EmptySet

\* The sums exist.
LEMMA SumsExist ==
    ASSUME NEW S, IsFiniteSet(S), NEW f
    PROVE  \E it : Sums(it, f, S)
<1> DEFINE n == Cardinality(S)
           Body(it, s) == IF s = {} THEN 0 ELSE f[Pick(s)] + it[s \ {Pick(s)}]
           UpTo(it, k) == \A s \in SUBSET S : Cardinality(s) <= k => it[s] = Body(it, s)
           Built(k) == \E it : UpTo(it, k)
           G == {k \in 0..n : Built(k)}
<1>0. n \in Nat
  BY FS_CardinalityType
<1> HIDE DEF n
<1>1. Built(0)
  <2> DEFINE it == [s \in SUBSET S |-> 0]
  <2>1. UpTo(it, 0)
    <3> SUFFICES ASSUME NEW s \in SUBSET S, Cardinality(s) <= 0 PROVE it[s] = Body(it, s)
      OBVIOUS
    <3>1. s # {} => /\ Cardinality(s \ {Pick(s)}) \in Nat
                    /\ Cardinality(s \ {Pick(s)}) + 1 = Cardinality(s)
      BY PickOut
    <3>2. s = {}
      BY <3>1
    <3> QED BY <3>2
  <2> HIDE DEF it, UpTo
  <2> QED BY <2>1
<1>2. ASSUME NEW k \in 0..n, Built(k), k + 1 <= n PROVE Built(k + 1)
  <2>1. PICK it : UpTo(it, k)
    <3> HIDE DEF UpTo
    <3> QED BY <1>2
  <2> DEFINE next == [s \in SUBSET S |-> Body(it, s)]
  <2>2. ASSUME NEW s \in SUBSET S, Cardinality(s) <= k PROVE next[s] = it[s]
    <3>1. next[s] = Body(it, s)
      OBVIOUS
    <3>2. it[s] = Body(it, s)
      <4> HIDE DEF Body
      <4> QED BY <2>1, <2>2
    <3> QED BY <3>1, <3>2
  <2>3. ASSUME NEW s \in SUBSET S, Cardinality(s) <= k + 1 PROVE next[s] = Body(next, s)
    <3>1. next[s] = Body(it, s)
      OBVIOUS
    <3>2. s # {} => next[s \ {Pick(s)}] = it[s \ {Pick(s)}]
      <4>1. s # {} => /\ s \ {Pick(s)} \in SUBSET S
                      /\ Cardinality(s \ {Pick(s)}) <= k
        <5>1. s # {} => /\ Cardinality(s \ {Pick(s)}) \in Nat /\ s \ {Pick(s)} \in SUBSET S
                        /\ Cardinality(s \ {Pick(s)}) + 1 = Cardinality(s)
          BY PickOut
        <5> QED BY <1>0, <2>3, <5>1
      <4> HIDE DEF next
      <4> QED BY <2>2, <4>1
    <3> HIDE DEF next
    <3> QED BY <3>1, <3>2
  <2> HIDE DEF next
  <2>4. UpTo(next, k + 1)
    <3> HIDE DEF Body
    <3> QED BY <2>3
  <2> HIDE DEF UpTo
  <2> QED BY <2>4
<1>3. Built(n)
  <2> HIDE DEF Built
  <2>1. 0 \in G /\ \A k \in 0..n : k \in G /\ k + 1 <= n => k + 1 \in G
    BY <1>0, <1>1, <1>2
  <2> HIDE DEF G
  <2>2. \A k \in 0..n : k \in G
    BY <1>0, <2>1, AllNumbers
  <2> QED BY <1>0, <2>2 DEF G
<1>4. PICK it : UpTo(it, n)
  <2> HIDE DEF UpTo
  <2> QED BY <1>3
<1> DEFINE whole == [s \in SUBSET S |-> it[s]]
<1>5. ASSUME NEW s \in SUBSET S PROVE whole[s] = Body(whole, s)
  <2>1. it[s] = Body(it, s)
    <3>1. Cardinality(s) <= n
      BY PickOut DEF n
    <3> HIDE DEF Body
    <3> QED BY <1>4, <3>1
  <2>2. s # {} => whole[s \ {Pick(s)}] = it[s \ {Pick(s)}]
    OBVIOUS
  <2>3. whole[s] = it[s]
    OBVIOUS
  <2> HIDE DEF whole
  <2> QED BY <2>1, <2>2, <2>3
<1>6. whole = [s \in SUBSET S |-> whole[s]]
  OBVIOUS
<1> HIDE DEF whole
<1>7. [s \in SUBSET S |-> whole[s]] = [s \in SUBSET S |-> Body(whole, s)]
  <2> HIDE DEF Body
  <2> QED BY <1>5
<1>8. Sums(whole, f, S)
  BY <1>6, <1>7 DEF Sums
<1> HIDE DEF Body, UpTo
<1> QED BY <1>8

\* The sums of g, which is above f at most in d, from those of f.
LEMMA SumsCompare ==
    ASSUME NEW S, IsFiniteSet(S), NEW f \in [S -> Int], NEW g \in [S -> Int], NEW d \in S,
           \A e \in S \ {d} : g[e] <= f[e], NEW a, Sums(a, f, S), NEW b, Sums(b, g, S),
           NEW s \in SUBSET S
    PROVE  /\ a[s] \in Int /\ b[s] \in Int
           /\ b[s] <= a[s] + IF d \in s THEN g[d] - f[d] ELSE 0
<1> DEFINE Right(t) == /\ a[t] \in Int /\ b[t] \in Int
                       /\ b[t] <= a[t] + IF d \in t THEN g[d] - f[d] ELSE 0
           T == {k \in Nat : \E t \in SUBSET S : ~Right(t) /\ k = Cardinality(t)}
<1> SUFFICES ASSUME ~Right(s) PROVE FALSE
  OBVIOUS
<1>1. T # {}
  <2>1. Cardinality(s) \in Nat
    BY PickOut
  <2> HIDE DEF Right
  <2>2. Cardinality(s) \in T
    BY <2>1
  <2> QED BY <2>2
<1>2. PICK k \in T : \A j \in T : k <= j
  <2>1. T \in SUBSET Nat
    OBVIOUS
  <2> HIDE DEF T
  <2> QED BY <1>1, <2>1, LeastOf
<1>3. PICK t \in SUBSET S : ~Right(t) /\ k = Cardinality(t)
  <2> HIDE DEF Right
  <2> QED BY <1>2
<1>4. /\ a[t] = IF t = {} THEN 0 ELSE f[Pick(t)] + a[t \ {Pick(t)}]
      /\ b[t] = IF t = {} THEN 0 ELSE g[Pick(t)] + b[t \ {Pick(t)}]
  BY DEF Sums
<1>5. CASE t = {}
  BY <1>3, <1>4, <1>5
<1>6. CASE t # {}
  <2> DEFINE x == Pick(t)
             u == t \ {x}
  <2>1. /\ x \in t /\ u \in SUBSET S /\ Cardinality(u) \in Nat
        /\ Cardinality(u) + 1 = Cardinality(t) /\ Cardinality(t) \in Nat
    BY <1>6, PickOut
  <2>2. a[t] = f[x] + a[u] /\ b[t] = g[x] + b[u]
    BY <1>4, <1>6
  <2>3. x \notin u /\ t = u \cup {x}
    BY <2>1
  <2> HIDE DEF x, u
  <2>4. Right(u)
    <3> HIDE DEF Right
    <3>1. ~(k <= Cardinality(u))
      BY <1>3, <2>1
    <3>2. Cardinality(u) \notin T
      <4> HIDE DEF T
      <4> QED BY <1>2, <3>1
    <3> QED BY <2>1, <3>2
  <2>5. f[x] \in Int /\ g[x] \in Int /\ f[d] \in Int /\ g[d] \in Int
    BY <2>1
  <2>6. a[t] \in Int /\ b[t] \in Int
    BY <2>2, <2>4, <2>5
  <2>7. CASE x = d
    <3>1. d \in t /\ d \notin u
      BY <2>1, <2>3, <2>7
    <3>2. b[u] <= a[u] /\ a[u] \in Int /\ b[u] \in Int
      BY <2>4, <3>1
    <3>3. b[t] <= a[t] + (g[d] - f[d])
      BY <2>2, <2>5, <2>7, <3>2
    <3> QED BY <1>3, <2>6, <3>1, <3>3
  <2>8. CASE x # d
    <3>1. d \in t <=> d \in u
      BY <2>3, <2>8
    <3>2. g[x] <= f[x]
      BY <2>1, <2>8
    <3> DEFINE more == IF d \in u THEN g[d] - f[d] ELSE 0
    <3>3. b[u] <= a[u] + more /\ a[u] \in Int /\ b[u] \in Int /\ more \in Int
      BY <2>4, <2>5
    <3>4. more = IF d \in t THEN g[d] - f[d] ELSE 0
      BY <3>1
    <3> HIDE DEF more
    <3>5. b[t] <= a[t] + more
      BY <2>2, <2>5, <3>2, <3>3
    <3> QED BY <1>3, <2>6, <3>4, <3>5
  <2> QED BY <2>7, <2>8
<1> QED BY <1>5, <1>6

\* A total is a number, and raised at most in d it grows by no more than d does.
LEMMA TotalGrows ==
    ASSUME NEW S, IsFiniteSet(S), NEW f \in [S -> Int], NEW g \in [S -> Int], NEW d \in S,
           \A e \in S \ {d} : g[e] <= f[e]
    PROVE  /\ Total(f, S) \in Int /\ Total(g, S) \in Int
           /\ Total(g, S) <= Total(f, S) + (g[d] - f[d])
<1> DEFINE a == CHOOSE it : Sums(it, f, S)
           b == CHOOSE it : Sums(it, g, S)
<1>1. Sums(a, f, S) /\ Sums(b, g, S)
  BY SumsExist
<1>2. Total(f, S) = a[S] /\ Total(g, S) = b[S]
  BY TotalIs
<1> HIDE DEF a, b
<1>3. /\ a[S] \in Int /\ b[S] \in Int
      /\ b[S] <= a[S] + IF d \in S THEN g[d] - f[d] ELSE 0
  BY <1>1, SumsCompare
<1> QED BY <1>2, <1>3

-----------------------------------------------------------------------------
(* The usage meter                                                         *)

Loading == [step : {"check", "delete", "create"}, doc : Documents, new : 0..MaxRows, delta : Int]
Adjusting == [step : {"adjust"}, doc : Documents, delta : Int]
Lowering == [step : {"write"}, doc : Documents, delta : Int, period : 1..Months, read : Nat]
Imports == {NotImporting} \cup Loading \cup Adjusting \cup Lowering

\* An import grows the document by no more than its new rows, and lowers the
\* meter of a month that has begun.
ImportFits(x, m) ==
    /\ x.step \in {"check", "delete", "create"} => x.delta <= x.new
    /\ x.step = "adjust" => x.delta <= MaxRows
    /\ x.step = "write" => x.delta < 0 /\ x.period <= m

MeterShape ==
    /\ month \in 1..Months
    /\ rows \in [Documents -> Nat]
    /\ meter \in [1..Months -> Nat] /\ \A m \in 1..Months : m > month => meter[m] = 0
    /\ import \in [Importers -> Imports] /\ \A i \in Importers : ImportFits(import[i], month)
    /\ disturbed \in BOOLEAN /\ lost \in BOOLEAN

\* The imports about to write rows into a document have emptied it first.
Creators(d) == {i \in Importers : import[i].step = "create" /\ import[i].doc = d}
Times(n) == MaxRows * n
Stacked ==
    \A d \in Documents :
      rows[d] + Times(Cardinality(Creators(d))) <= Times(Cardinality(Importers))

\* What an import was granted and has not charged yet.
Due == [i \in Importers |->
          IF import[i].step \in {"delete", "create", "adjust"} /\ import[i].delta > 0
            THEN import[i].delta ELSE 0]

\* v stays within the bound when everything granted is charged on top of it: one
\* import had the whole limit to fit in, each other one brings its rows.
Bound == TransactionLimit + Times(Cardinality(Importers) - 1)
Granted(due) == {i \in Importers : due[i] > 0}
Within(v, due) ==
    /\ v <= Bound
    /\ Granted(due) # {} =>
         \E w \in Granted(due) : v + due[w] + Times(Cardinality(Granted(due) \ {w})) <= Bound

Overrun ==
    ~lost => /\ \A m \in 1..Months : meter[m] <= Bound
             /\ Within(meter[month], Due)
             /\ \A i \in Importers : Due[i] <= TransactionLimit

\* The rows an import stands for on the meter, until it is done.
Charge(i) == IF import[i].step \in {"check", "delete", "create"}
               THEN import[i].new - import[i].delta
               ELSE rows[import[i].doc] - import[i].delta
Working(i, d) == import[i] # NotImporting /\ import[i].doc = d

\* k holds at least what each document stands for.
Covers(k) ==
    /\ k \in [Documents -> Int]
    /\ \A d \in Documents :
         /\ \A i \in Importers : Working(i, d) => Charge(i) <= k[d]
         /\ (\A i \in Importers : ~Working(i, d)) => rows[d] <= k[d]

\* One import works on a document, and the rows it found have become no more.
Steady ==
    /\ \A i, j \in Importers, d \in Documents : Working(i, d) /\ Working(j, d) => i = j
    /\ \A i \in Importers :
         /\ import[i].step \in {"check", "delete"} =>
              rows[import[i].doc] <= import[i].new - import[i].delta
         /\ import[i].step = "create" => rows[import[i].doc] = 0

Metered ==
    ~disturbed /\ ~lost =>
        Steady /\ \E k : Covers(k) /\ Total(k, Documents) <= Total(meter, 1..Months)

\* What an import is, by its step.
LEMMA ImportKinds ==
    ASSUME NEW x \in Imports
    PROVE  /\ x.step \in {"idle", "check", "delete", "create", "adjust", "write"}
           /\ x = NotImporting <=> x.step = "idle"
           /\ x.step \in {"check", "delete", "create"} => x \in Loading
           /\ x.step = "adjust" => x \in Adjusting
           /\ x.step = "write" => x \in Lowering
           /\ x.step # "idle" => x.doc \in Documents /\ x.delta \in Int
           /\ x.step \in {"check", "delete", "create"} => x.new \in 0..MaxRows
  BY DEF Imports, Loading, Adjusting, Lowering, NotImporting

\* Multiples of the rows of one document.
LEMMA TimesGrow ==
    /\ \A a \in Nat : Times(a) \in Nat /\ Times(a + 1) = Times(a) + MaxRows
    /\ \A a, b \in Nat : a <= b => Times(a) <= Times(b)
    /\ Times(0) = 0
  BY MeterAssumption DEF Times

\* There is an import to count at all.
LEMMA SomeImporter ==
    Cardinality(Importers) \in Nat /\ Cardinality(Importers) - 1 \in Nat /\ Bound \in Nat
<1>1. Cardinality(Importers) \in Nat /\ Cardinality(Importers) # 0
  BY MeterAssumption, FS_CardinalityType, FS_EmptySet
<1>2. Cardinality(Importers) - 1 \in Nat
  BY <1>1
<1>3. Times(Cardinality(Importers) - 1) \in Nat /\ TransactionLimit \in Nat
  BY <1>2, TimesGrow, MeterAssumption
<1> QED BY <1>1, <1>2, <1>3 DEF Bound

\* The sets of imports counted here are finite.
LEMMA SomeImports ==
    ASSUME NEW X \in SUBSET Importers
    PROVE  /\ IsFiniteSet(X) /\ Cardinality(X) \in Nat /\ Cardinality(X) <= Cardinality(Importers)
           /\ \A i \in Importers : i \notin X =>
                /\ Cardinality(X \cup {i}) = Cardinality(X) + 1
                /\ Cardinality(X) <= Cardinality(Importers) - 1
           /\ \A i \in X : Cardinality(X \ {i}) + 1 = Cardinality(X) /\ Cardinality(X \ {i}) \in Nat
<1>1. /\ IsFiniteSet(X) /\ Cardinality(X) \in Nat /\ Cardinality(X) <= Cardinality(Importers)
  BY MeterAssumption, FS_Subset, FS_CardinalityType
<1>2. ASSUME NEW i \in Importers, i \notin X
      PROVE  /\ Cardinality(X \cup {i}) = Cardinality(X) + 1
             /\ Cardinality(X) <= Cardinality(Importers) - 1
  <2>1. Cardinality(X \cup {i}) = Cardinality(X) + 1
    BY <1>1, <1>2, FS_AddElement
  <2>2. Cardinality(X \cup {i}) <= Cardinality(Importers)
    <3>1. X \cup {i} \subseteq Importers
      OBVIOUS
    <3> QED BY <3>1, MeterAssumption, FS_Subset
  <2> QED BY <1>1, <2>1, <2>2, SomeImporter
<1>3. ASSUME NEW i \in X
      PROVE  Cardinality(X \ {i}) + 1 = Cardinality(X) /\ Cardinality(X \ {i}) \in Nat
  <2>1. Cardinality(X \ {i}) = Cardinality(X) - 1 /\ IsFiniteSet(X \ {i})
    BY <1>1, FS_RemoveElement
  <2> QED BY <1>1, <2>1, FS_CardinalityType
<1> QED BY <1>1, <1>2, <1>3

\* An import that fits is granted.
LEMMA GrantFits ==
    ASSUME NEW due \in [Importers -> Nat], NEW v \in Nat, Within(v, due), NEW i \in Importers,
           due[i] = 0, NEW x \in Nat \ {0}, v + x <= TransactionLimit
    PROVE  Within(v, [due EXCEPT ![i] = x])
<1> DEFINE new == [due EXCEPT ![i] = x]
<1>1. Granted(new) = Granted(due) \cup {i} /\ i \notin Granted(due) /\ new[i] = x
  BY DEF Granted
<1>2. Granted(new) \ {i} = Granted(due)
  BY <1>1
<1> HIDE DEF new
<1>3. /\ Cardinality(Granted(due)) \in Nat
      /\ Cardinality(Granted(due)) <= Cardinality(Importers) - 1
  BY <1>1, SomeImports DEF Granted
<1>4. Times(Cardinality(Granted(due))) <= Times(Cardinality(Importers) - 1)
  BY <1>3, TimesGrow, SomeImporter
<1>5. v + new[i] + Times(Cardinality(Granted(new) \ {i})) <= Bound
  <2> DEFINE a == Times(Cardinality(Granted(due)))
             b == Times(Cardinality(Importers) - 1)
  <2>1. a \in Nat /\ b \in Nat /\ a <= b
    BY <1>3, <1>4, TimesGrow, SomeImporter
  <2>2. Bound = TransactionLimit + b /\ TransactionLimit \in Nat
    BY MeterAssumption DEF Bound
  <2> HIDE DEF a, b
  <2>3. v + x + a <= Bound
    BY <2>1, <2>2
  <2> QED BY <1>1, <1>2, <2>3 DEF a
<1>6. v <= Bound
  BY DEF Within
<1>7. i \in Granted(new)
  BY <1>1
<1> HIDE DEF Within
<1> QED BY <1>5, <1>6, <1>7 DEF Within, new

\* An import that charges what it was granted, or gives it up, leaves room enough.
LEMMA ChargeFits ==
    ASSUME NEW due \in [Importers -> Nat], NEW v \in Nat, Within(v, due), NEW j \in Importers,
           \A i \in Importers : due[i] <= MaxRows,
           NEW u \in Nat, u <= v + due[j]
    PROVE  Within(u, [due EXCEPT ![j] = 0])
<1> DEFINE new == [due EXCEPT ![j] = 0]
           G == Granted(due)
           H == Granted(new)
           C(X) == Times(Cardinality(X))
<1>0. MaxRows \in Nat /\ Bound \in Nat
  BY MeterAssumption, SomeImporter
<1>1. H = G \ {j} /\ G \in SUBSET Importers /\ \A i \in H : new[i] = due[i]
  BY DEF Granted
<1>2. \A X \in SUBSET Importers :
        C(X) \in Nat /\ \A i \in X : C(X \ {i}) + MaxRows = C(X) /\ C(X \ {i}) \in Nat
  <2> SUFFICES ASSUME NEW X \in SUBSET Importers
               PROVE  C(X) \in Nat /\ \A i \in X : C(X \ {i}) + MaxRows = C(X) /\ C(X \ {i}) \in Nat
    OBVIOUS
  <2>1. C(X) \in Nat
    BY SomeImports, TimesGrow
  <2>2. ASSUME NEW i \in X PROVE C(X \ {i}) + MaxRows = C(X) /\ C(X \ {i}) \in Nat
    <3>1. Cardinality(X \ {i}) + 1 = Cardinality(X) /\ Cardinality(X \ {i}) \in Nat
      BY SomeImports
    <3> QED BY <3>1, TimesGrow
  <2> QED BY <2>1, <2>2
<1> HIDE DEF C
<1>3. CASE due[j] = 0
  <2>1. H = G /\ j \notin G /\ u <= v
    BY <1>1, <1>3 DEF Granted
  <2>2. u <= Bound
    BY <1>0, <2>1 DEF Within
  <2>3. ASSUME H # {} PROVE \E w \in H : u + new[w] + C(H \ {w}) <= Bound
    <3>1. PICK w \in G : v + due[w] + C(G \ {w}) <= Bound
      BY <2>1, <2>3 DEF Within, C
    <3>2. C(G \ {w}) \in Nat /\ due[w] \in Nat /\ new[w] = due[w]
      BY <1>1, <1>2, <2>1
    <3>3. u + new[w] + C(H \ {w}) <= Bound
      <4>1. C(H \ {w}) = C(G \ {w})
        BY <2>1
      <4> DEFINE c == C(G \ {w})
      <4>2. v + due[w] + c <= Bound /\ c \in Nat
        BY <3>1, <3>2
      <4> HIDE DEF c
      <4>3. u + due[w] + c <= Bound
        BY <1>0, <2>1, <3>2, <4>2
      <4> QED BY <3>2, <4>1, <4>3 DEF c
    <3> QED BY <2>1, <3>3
  <2> QED BY <2>2, <2>3 DEF Within, C
<1>4. CASE due[j] # 0
  <2>1. j \in G /\ due[j] \in Nat
    BY <1>4 DEF Granted
  <2>2. PICK w \in G : v + due[w] + C(G \ {w}) <= Bound
    BY <2>1 DEF Within, C
  <2>3. /\ C(G \ {w}) \in Nat /\ due[w] \in Nat /\ due[w] > 0 /\ C(H) \in Nat
        /\ C(H) + MaxRows = C(G)
    BY <1>1, <1>2, <2>1, <2>2 DEF Granted
  <2>4. CASE w = j
    <3>1. u + C(H) <= Bound
      <4> DEFINE c == C(H)
      <4>1. v + due[j] + c <= Bound /\ c \in Nat
        BY <1>1, <2>2, <2>3, <2>4
      <4> HIDE DEF c
      <4>2. u + c <= Bound
        BY <1>0, <2>1, <4>1
      <4> QED BY <4>2 DEF c
    <3>2. u <= Bound
      BY <1>0, <2>3, <3>1
    <3>3. ASSUME NEW x \in H PROVE u + new[x] + C(H \ {x}) <= Bound
      <4>1. C(H \ {x}) + MaxRows = C(H) /\ C(H \ {x}) \in Nat
        BY <1>1, <1>2
      <4>2. new[x] = due[x] /\ due[x] \in Nat /\ due[x] <= MaxRows
        BY <1>1
      <4> HIDE DEF new, H
      <4> QED BY <1>0, <2>3, <3>1, <4>1, <4>2
    <3> QED BY <3>2, <3>3 DEF Within, C
  <2>5. CASE w # j
    <3>1. w \in H /\ G \ {w} \in SUBSET Importers /\ j \in G \ {w}
      BY <1>1, <2>1, <2>5
    <3>2. C(H \ {w}) + MaxRows = C(H) /\ C(H \ {w}) \in Nat
      BY <1>1, <1>2, <3>1
    <3>3. C(G \ {w}) + MaxRows = C(G)
      BY <1>1, <1>2
    <3>4. new[w] = due[w] /\ due[j] <= MaxRows
      BY <1>1, <3>1
    <3> DEFINE a == C(H)
               b == C(H \ {w})
               c == C(G \ {w})
    <3>5. a \in Nat /\ b \in Nat /\ c \in Nat /\ b + MaxRows = a /\ c = a
      BY <1>0, <2>3, <3>2, <3>3
    <3>6. v + due[w] + c <= Bound
      BY <2>2
    <3> HIDE DEF a, b, c, new, H, G
    <3>7. u <= Bound /\ u + due[w] + b <= Bound
      BY <1>0, <2>1, <2>3, <3>4, <3>5, <3>6
    <3>8. u + new[w] + C(H \ {w}) <= Bound
      BY <3>4, <3>7 DEF b
    <3> QED BY <3>1, <3>7, <3>8 DEF Within, C, H, new
  <2> QED BY <2>4, <2>5
<1> QED BY <1>3, <1>4

\* A month that begins has room for everything granted in the last one.
LEMMA NewMonthFits ==
    ASSUME NEW due \in [Importers -> Nat],
           \A i \in Importers : due[i] <= TransactionLimit
    PROVE  Within(0, due)
<1>1. 0 <= Bound
  BY SomeImporter
<1>2. ASSUME NEW w \in Granted(due)
      PROVE  0 + due[w] + Times(Cardinality(Granted(due) \ {w})) <= Bound
  <2> DEFINE X == Granted(due) \ {w}
             a == Times(Cardinality(X))
             b == Times(Cardinality(Importers) - 1)
  <2>1. w \in Importers /\ X \in SUBSET Importers /\ w \notin X
    BY DEF Granted
  <2>2. Cardinality(X) \in Nat /\ Cardinality(X) <= Cardinality(Importers) - 1
    BY <2>1, SomeImports
  <2>3. a \in Nat /\ b \in Nat /\ a <= b
    BY <2>2, SomeImporter, TimesGrow
  <2>4. Bound = TransactionLimit + b /\ TransactionLimit \in Nat
    BY MeterAssumption DEF Bound
  <2>5. due[w] \in Nat /\ due[w] <= TransactionLimit
    BY <2>1
  <2> HIDE DEF a, b
  <2>6. 0 + due[w] + a <= Bound
    BY <2>3, <2>4, <2>5
  <2> QED BY <2>6 DEF a
<1> QED BY <1>1, <1>2 DEF Within

-----------------------------------------------------------------------------
(* The moves of one import                                                 *)

MeterInv == MeterShape /\ Stacked /\ Overrun /\ Metered

\* What is granted is a number, and no more than the rows of one document.
LEMMA DueIs ==
    ASSUME MeterShape
    PROVE  Due \in [Importers -> Nat] /\ \A i \in Importers : Due[i] <= MaxRows
<1>0. MaxRows \in Nat
  BY MeterAssumption
<1> SUFFICES ASSUME NEW i \in Importers PROVE Due[i] \in Nat /\ Due[i] <= MaxRows
  BY DEF Due
<1>1. import[i] \in Imports /\ ImportFits(import[i], month)
  BY DEF MeterShape
<1>2. CASE import[i].step \in {"delete", "create", "adjust"} /\ import[i].delta > 0
  <2>1. Due[i] = import[i].delta
    BY <1>2 DEF Due
  <2>2. import[i].delta \in Int /\ import[i].delta <= MaxRows
    BY <1>0, <1>1, <1>2, ImportKinds DEF ImportFits
  <2> QED BY <1>2, <2>1, <2>2
<1>3. CASE ~(import[i].step \in {"delete", "create", "adjust"} /\ import[i].delta > 0)
  <2>1. Due[i] = 0
    BY <1>3 DEF Due
  <2> QED BY <1>0, <2>1
<1> QED BY <1>2, <1>3

\* One import moves on.
LEMMA OneImport ==
    ASSUME MeterShape, NEW i \in Importers, NEW x \in Imports, import' = [import EXCEPT ![i] = x]
    PROVE  /\ import' \in [Importers -> Imports] /\ import'[i] = x
           /\ \A j \in Importers \ {i} : import'[j] = import[j]
           /\ Due' = [Due EXCEPT ![i] = IF x.step \in {"delete", "create", "adjust"} /\ x.delta > 0
                                          THEN x.delta ELSE 0]
<1>1. import \in [Importers -> Imports]
  BY DEF MeterShape
<1>2. /\ import' \in [Importers -> Imports] /\ import'[i] = x
      /\ \A j \in Importers \ {i} : import'[j] = import[j]
  BY <1>1
<1>3. Due' = [Due EXCEPT ![i] = IF x.step \in {"delete", "create", "adjust"} /\ x.delta > 0
                                  THEN x.delta ELSE 0]
  BY <1>2 DEF Due
<1> QED BY <1>2, <1>3

\* Fewer are about to write rows, and there are no more rows.
LEMMA StackedLess ==
    ASSUME MeterShape, MeterShape', Stacked,
           \A d \in Documents : rows'[d] <= rows[d] /\ Creators(d)' \subseteq Creators(d)
    PROVE  Stacked'
<1> SUFFICES ASSUME NEW d \in Documents
             PROVE  rows'[d] + Times(Cardinality(Creators(d)')) <= Times(Cardinality(Importers))
  BY DEF Stacked, Times
<1> DEFINE C == Creators(d)
           E == Creators(d)'
<1>1. C \in SUBSET Importers /\ E \in SUBSET C
  BY DEF Creators
<1>2. /\ Cardinality(C) \in Nat /\ Cardinality(E) \in Nat /\ Cardinality(E) <= Cardinality(C)
  <2>1. IsFiniteSet(C) /\ Cardinality(C) \in Nat
    BY <1>1, SomeImports
  <2> QED BY <1>1, <2>1, FS_Subset, FS_CardinalityType
<1>3. rows[d] + Times(Cardinality(C)) <= Times(Cardinality(Importers))
  BY DEF Stacked
<1>4. rows[d] \in Nat /\ rows'[d] \in Nat /\ rows'[d] <= rows[d]
  BY DEF MeterShape
<1> DEFINE a == Times(Cardinality(C))
           b == Times(Cardinality(E))
           n == Times(Cardinality(Importers))
<1>5. a \in Nat /\ b \in Nat /\ n \in Nat /\ b <= a
  BY <1>2, SomeImporter, TimesGrow
<1> HIDE DEF C, E, a, b, n
<1>6. rows[d] + a <= n
  BY <1>3 DEF a, n
<1>7. rows'[d] + b <= n
  BY <1>4, <1>5, <1>6
<1> QED BY <1>7 DEF b, n, E

\* The overrun of the months when what is granted stays, or is charged or given up.
LEMMA OverrunLess ==
    ASSUME MeterShape, MeterShape', Overrun, lost' = lost, month' = month,
           \A m \in 1..Months : meter'[m] <= meter[m], Due' = Due
    PROVE  Overrun'
<1> SUFFICES ASSUME ~lost PROVE Overrun'
  BY DEF Overrun
<1>1. month \in 1..Months /\ meter \in [1..Months -> Nat] /\ meter' \in [1..Months -> Nat]
      /\ Bound \in Nat
  BY SomeImporter DEF MeterShape
<1>2. \A m \in 1..Months : meter'[m] <= Bound
  <2>1. \A m \in 1..Months : meter[m] <= Bound
    BY DEF Overrun
  <2> QED BY <1>1, <2>1
<1>3. Within(meter'[month], Due)
  <2>1. Within(meter[month], Due)
    BY DEF Overrun
  <2>2. meter'[month] \in Nat /\ meter[month] \in Nat /\ meter'[month] <= meter[month]
    BY <1>1
  <2>3. ASSUME NEW w \in Granted(Due),
               meter[month] + Due[w] + Times(Cardinality(Granted(Due) \ {w})) <= Bound
        PROVE  meter'[month] + Due[w] + Times(Cardinality(Granted(Due) \ {w})) <= Bound
    <3> DEFINE t == Times(Cardinality(Granted(Due) \ {w}))
    <3>1. t \in Nat /\ Due[w] \in Nat
      <4>1. w \in Importers /\ Granted(Due) \ {w} \in SUBSET Importers
        BY DEF Granted
      <4> QED BY <4>1, SomeImports, TimesGrow, DueIs
    <3> HIDE DEF t
    <3>2. meter[month] + Due[w] + t <= Bound
      BY <2>3 DEF t
    <3>3. meter'[month] + Due[w] + t <= Bound
      BY <1>1, <2>2, <3>1, <3>2
    <3> QED BY <3>3 DEF t
  <2>4. meter'[month] <= Bound
    BY <1>1, <1>2
  <2> QED BY <2>1, <2>3, <2>4 DEF Within
<1>4. Bound' = Bound /\ Within(meter[month], Due)' = Within(meter'[month], Due)
  BY DEF Bound, Times, Within, Granted
<1> QED BY <1>2, <1>3, <1>4 DEF Overrun

\* The same when j charges its grant to the month that runs, or gives it up.
LEMMA OverrunCharged ==
    ASSUME MeterShape, MeterShape', Overrun, lost' = lost, month' = month, NEW j \in Importers,
           \A m \in 1..Months : m # month => meter'[m] <= meter[m],
           meter'[month] <= meter[month] + Due[j], Due' = [Due EXCEPT ![j] = 0]
    PROVE  Overrun'
<1> SUFFICES ASSUME ~lost PROVE Overrun'
  BY DEF Overrun
<1>1. /\ month \in 1..Months /\ meter \in [1..Months -> Nat] /\ meter' \in [1..Months -> Nat]
      /\ Bound \in Nat
      /\ Due \in [Importers -> Nat] /\ \A i \in Importers : Due[i] <= MaxRows
  BY SomeImporter, DueIs DEF MeterShape
<1>2. Within(meter'[month], [Due EXCEPT ![j] = 0])
  <2>1. Within(meter[month], Due)
    BY DEF Overrun
  <2>2. meter'[month] \in Nat /\ meter[month] \in Nat
    BY <1>1
  <2> QED BY <1>1, <2>1, <2>2, ChargeFits
<1>3. \A m \in 1..Months : meter'[m] <= Bound
  <2>1. \A m \in 1..Months : meter[m] <= Bound
    BY DEF Overrun
  <2>2. meter'[month] <= Bound
    BY <1>2 DEF Within
  <2> QED BY <1>1, <2>1, <2>2
<1>4. Bound' = Bound /\ Within(meter[month], Due)' = Within(meter'[month], [Due EXCEPT ![j] = 0])
  BY DEF Bound, Times, Within, Granted
<1>5. \A i \in Importers : Due'[i] <= TransactionLimit
  <2>1. \A i \in Importers : Due[i] <= TransactionLimit
    BY DEF Overrun
  <2>2. 0 <= TransactionLimit
    BY MeterAssumption
  <2> QED BY <1>1, <2>1, <2>2
<1> QED BY <1>2, <1>3, <1>4, <1>5 DEF Overrun

\* What becomes of the import i on d: it goes on as x, and h covers it.
Covered(i, x, d, h) ==
    /\ x = NotImporting \/ x.doc = d
    /\ x.step \in {"check", "delete"} => rows'[d] <= x.new - x.delta
    /\ x.step = "create" => rows'[d] = 0
    /\ x = NotImporting => rows'[d] <= h[d]
    /\ x # NotImporting => Charge(i)' <= h[d]

\* One import moves on and changes the rows of its own document only: it is the
\* only one there, so k need only cover what becomes of it.
LEMMA CoversMoves ==
    ASSUME MeterShape, MeterShape', Steady, NEW i \in Importers, import[i] # NotImporting,
           NEW x \in Imports, import' = [import EXCEPT ![i] = x],
           NEW d \in Documents, d = import[i].doc, \A e \in Documents \ {d} : rows'[e] = rows[e],
           NEW k, Covers(k), NEW h \in [Documents -> Int],
           \A e \in Documents \ {d} : h[e] = k[e], Covered(i, x, d, h)
    PROVE  Steady' /\ Covers(h)'
<1>0. /\ x = NotImporting \/ x.doc = d
      /\ x.step \in {"check", "delete"} => rows'[d] <= x.new - x.delta
      /\ x.step = "create" => rows'[d] = 0
      /\ x = NotImporting => rows'[d] <= h[d]
      /\ x # NotImporting => Charge(i)' <= h[d]
  BY DEF Covered
<1>1. /\ import'[i] = x /\ \A j \in Importers \ {i} : import'[j] = import[j]
  BY OneImport
<1>2. \A j \in Importers \ {i} : ~Working(j, d)
  BY DEF Steady, Working
<1>3. \A j \in Importers, e \in Documents : Working(j, e)' => Working(j, e)
  BY <1>0, <1>1 DEF Working
<1>4. \A j \in Importers \ {i}, e \in Documents : Working(j, e)' <=> Working(j, e)
  BY <1>1 DEF Working
<1>5. Working(i, d)' <=> x # NotImporting
  BY <1>0, <1>1 DEF Working
<1>6. ASSUME NEW j \in Importers \ {i}, import[j] # NotImporting
      PROVE  /\ import[j].doc \in Documents \ {d} /\ rows'[import[j].doc] = rows[import[j].doc]
             /\ Charge(j)' = Charge(j)
  <2>1. import[j].doc \in Documents
    BY <1>6, ImportKinds DEF MeterShape
  <2>2. import[j].doc # d
    BY <1>2, <1>6 DEF Working
  <2>3. rows'[import[j].doc] = rows[import[j].doc]
    BY <2>1, <2>2
  <2> QED BY <1>1, <2>1, <2>2, <2>3 DEF Charge
<1>7. Steady'
  <2>1. \A j, l \in Importers, e \in Documents : Working(j, e)' /\ Working(l, e)' => j = l
    BY <1>3 DEF Steady
  <2>2. ASSUME NEW j \in Importers
        PROVE  /\ import'[j].step \in {"check", "delete"} =>
                    rows'[import'[j].doc] <= import'[j].new - import'[j].delta
               /\ import'[j].step = "create" => rows'[import'[j].doc] = 0
    <3>1. CASE j = i
      <4>1. import'[j] = x /\ (x = NotImporting => x.step = "idle")
        BY <1>1, <3>1, ImportKinds
      <4> QED BY <1>0, <4>1
    <3>2. CASE j # i
      <4>1. import'[j] = import[j] /\ import[j] \in Imports
        BY <1>1, <3>2 DEF MeterShape
      <4>2. CASE import[j] = NotImporting
        BY <4>1, <4>2, ImportKinds
      <4>3. CASE import[j] # NotImporting
        <5>1. rows'[import[j].doc] = rows[import[j].doc]
          BY <1>6, <3>2, <4>3
        <5> QED BY <4>1, <5>1 DEF Steady
      <4> QED BY <4>2, <4>3
    <3> QED BY <3>1, <3>2
  <2> QED BY <2>1, <2>2 DEF Steady
<1>8. ASSUME NEW e \in Documents
      PROVE  /\ \A j \in Importers : Working(j, e)' => Charge(j)' <= h[e]
             /\ (\A j \in Importers : ~Working(j, e)') => rows'[e] <= h[e]
  <2>1. CASE e = d
    <3>1. \A j \in Importers : Working(j, e)' => j = i
      BY <1>2, <1>3, <2>1
    <3> QED BY <1>0, <1>5, <2>1, <3>1
  <2>2. CASE e # d
    <3>1. ~Working(i, e) /\ ~Working(i, e)'
      BY <1>3, <2>2 DEF Working
    <3>2. h[e] = k[e] /\ rows'[e] = rows[e]
      BY <2>2
    <3>3. \A j \in Importers : Working(j, e)' => Charge(j)' <= h[e]
      <4> SUFFICES ASSUME NEW j \in Importers, Working(j, e)' PROVE Charge(j)' <= h[e]
        OBVIOUS
      <4>1. j # i /\ Working(j, e) /\ import[j] # NotImporting
        BY <1>3, <3>1 DEF Working
      <4>2. Charge(j)' = Charge(j)
        BY <1>6, <4>1
      <4> QED BY <3>2, <4>1, <4>2 DEF Covers
    <3>4. (\A j \in Importers : ~Working(j, e)') => rows'[e] <= h[e]
      BY <1>4, <3>1, <3>2 DEF Covers
    <3> QED BY <3>3, <3>4
  <2> QED BY <2>1, <2>2
<1>9. Covers(h)'
  BY <1>8 DEF Covers
<1> QED BY <1>7, <1>9

-----------------------------------------------------------------------------
(* The actions                                                             *)

\* The types when one import moves on.
LEMMA ShapeMoves ==
    ASSUME MeterShape, NEW i \in Importers, NEW x \in Imports, ImportFits(x, month),
           import' = [import EXCEPT ![i] = x], month' = month, rows' \in [Documents -> Nat],
           meter' \in [1..Months -> Nat], \A m \in 1..Months : m > month => meter'[m] = 0,
           disturbed' \in BOOLEAN, lost' \in BOOLEAN
    PROVE  MeterShape'
<1>1. /\ import' \in [Importers -> Imports] /\ import'[i] = x
      /\ \A j \in Importers \ {i} : import'[j] = import[j]
  BY OneImport
<1>2. \A j \in Importers : ImportFits(import'[j], month')
  BY <1>1 DEF MeterShape
<1>3. \A j \in Importers : ImportFits(import[j], month)'
  BY <1>2 DEF ImportFits
<1> QED BY <1>1, <1>3 DEF MeterShape

\* The books of the meter stay kept by what covers them now.
LEMMA MeteredBy ==
    ASSUME Steady', NEW h, Covers(h)', Total(h, Documents) <= Total(meter', 1..Months)
    PROVE  Metered'
  BY DEF Metered

\* One import moves on, or ends, and writes nothing.
LEMMA QuietMove ==
    ASSUME MeterInv, NEW i \in Importers, import[i] # NotImporting, NEW x \in Imports,
           import' = [import EXCEPT ![i] = x], ImportFits(x, month),
           UNCHANGED <<month, rows, meter, lost>>, disturbed' \in BOOLEAN,
           x = NotImporting \/ x.doc = import[i].doc, x.step \notin {"check", "create"},
           x.step \in {"delete", "adjust"} /\ x.delta > 0 => Due[i] = x.delta,
           ~disturbed' =>
             /\ ~disturbed
             /\ Steady => /\ x = NotImporting => rows[import[i].doc] <= Charge(i)
                          /\ x # NotImporting => Charge(i)' = Charge(i)
                          /\ x.step = "delete" => rows[import[i].doc] <= x.new - x.delta
    PROVE  MeterInv'
<1>0. /\ MeterShape /\ Stacked /\ Overrun /\ Metered /\ import[i] \in Imports
      /\ rows \in [Documents -> Nat] /\ meter \in [1..Months -> Nat]
      /\ \A m \in 1..Months : m > month => meter[m] = 0
      /\ lost' \in BOOLEAN
  BY DEF MeterInv, MeterShape
<1> DEFINE d == import[i].doc
<1>1. d \in Documents
  BY <1>0, ImportKinds
<1>2. MeterShape'
  BY <1>0, ShapeMoves
<1>3. /\ import'[i] = x /\ \A j \in Importers \ {i} : import'[j] = import[j]
      /\ Due' = [Due EXCEPT ![i] = IF x.step \in {"delete", "create", "adjust"} /\ x.delta > 0
                                     THEN x.delta ELSE 0]
  BY <1>0, OneImport
<1>4. Stacked'
  <2>1. \A e \in Documents : rows'[e] <= rows[e] /\ Creators(e)' \subseteq Creators(e)
    BY <1>0, <1>3 DEF Creators
  <2> QED BY <1>0, <1>2, <2>1, StackedLess
<1>5. Overrun'
  <2>1. Due \in [Importers -> Nat]
    BY <1>0, DueIs
  <2>2. \A m \in 1..Months : meter'[m] <= meter[m]
    BY <1>0
  <2>3. CASE x.step \in {"delete", "create", "adjust"} /\ x.delta > 0
    <3>1. Due' = Due
      BY <1>3, <2>1, <2>3
    <3> QED BY <1>0, <1>2, <2>2, <3>1, OverrunLess
  <2>4. CASE ~(x.step \in {"delete", "create", "adjust"} /\ x.delta > 0)
    <3>1. Due' = [Due EXCEPT ![i] = 0]
      BY <1>3, <2>4
    <3>2. meter'[month] <= meter[month] + Due[i]
      <4>1. meter[month] \in Nat /\ Due[i] \in Nat /\ meter'[month] = meter[month]
        BY <1>0, <2>1 DEF MeterShape
      <4> QED BY <4>1
    <3> QED BY <1>0, <1>2, <2>2, <3>1, <3>2, OverrunCharged
  <2> QED BY <2>3, <2>4
<1>6. Metered'
  <2> SUFFICES ASSUME ~disturbed', ~lost' PROVE Metered'
    BY DEF Metered
  <2>1. ~disturbed /\ ~lost
    OBVIOUS
  <2>2. Steady /\ \E k : Covers(k) /\ Total(k, Documents) <= Total(meter, 1..Months)
    BY <1>0, <2>1 DEF Metered
  <2>3. PICK k : Covers(k) /\ Total(k, Documents) <= Total(meter, 1..Months)
    BY <2>2
  <2>4. /\ x = NotImporting => rows[d] <= Charge(i)
        /\ x # NotImporting => Charge(i)' = Charge(i)
        /\ x.step = "delete" => rows[d] <= x.new - x.delta
    BY <2>2
  <2>5. Charge(i) <= k[d] /\ k \in [Documents -> Int]
    BY <1>1, <2>3 DEF Covers, Working
  <2>6. Charge(i) \in Int
    BY <1>0, <1>1, ImportKinds DEF Charge
  <2>7. x = NotImporting => rows'[d] <= k[d]
    BY <1>0, <1>1, <2>4, <2>5, <2>6
  <2>8. x # NotImporting => Charge(i)' <= k[d]
    BY <2>4, <2>5
  <2>9. \A e \in Documents \ {d} : rows'[e] = rows[e] /\ k[e] = k[e]
    BY <1>0
  <2>10. Covered(i, x, d, k)
    BY <1>0, <2>4, <2>7, <2>8 DEF Covered
  <2> HIDE DEF d
  <2>11. Steady' /\ Covers(k)'
    BY <1>0, <1>1, <1>2, <2>2, <2>3, <2>5, <2>9, <2>10, CoversMoves DEF d
  <2> QED BY <2>3, <2>11, MeteredBy
<1> QED BY <1>2, <1>4, <1>5, <1>6 DEF MeterInv

\* The step of an import when it moves on.
LEMMA StepsTo ==
    ASSUME MeterShape, NEW i \in Importers, NEW s
    PROVE  /\ Step(i, s) => import' = [import EXCEPT ![i] = [import[i] EXCEPT !.step = s]]
           /\ Finish(i) => import' = [import EXCEPT ![i] = NotImporting]
           /\ NotImporting \in Imports /\ NotImporting.step = "idle"
           /\ ImportFits(NotImporting, month)
  BY DEF MeterShape, Step, Finish, Imports, NotImporting, ImportFits

\* Asking the quota: a refusal, or nothing to ask for, or a grant.
LEMMA CheckKeeps ==
    ASSUME MeterInv, NEW i \in Importers, Check(i)
    PROVE  MeterInv'
<1> DEFINE y == import[i]
           x == [y EXCEPT !.step = "delete"]
<1>0. /\ MeterShape /\ Stacked /\ Overrun /\ Metered /\ y \in Imports /\ y \in Loading
      /\ y # NotImporting /\ y.step = "check" /\ ImportFits(y, month)
      /\ rows \in [Documents -> Nat] /\ meter \in [1..Months -> Nat] /\ month \in 1..Months
      /\ \A m \in 1..Months : m > month => meter[m] = 0
      /\ lost \in BOOLEAN /\ disturbed \in BOOLEAN
  <2>1. MeterShape /\ Stacked /\ Overrun /\ Metered /\ y \in Imports /\ y.step = "check"
    BY DEF MeterInv, MeterShape, Check
  <2> QED BY <2>1, ImportKinds DEF MeterShape
<1>1. UNCHANGED <<month, rows, meter, disturbed, lost>>
  BY DEF Check
<1>2. /\ x \in Imports /\ x \in Loading /\ x.step = "delete" /\ x.doc = y.doc /\ x.new = y.new
      /\ x.delta = y.delta /\ ImportFits(x, month) /\ x # NotImporting
      /\ y.doc \in Documents /\ y.delta \in Int /\ y.new \in 0..MaxRows
  BY <1>0 DEF Imports, Loading, ImportFits, NotImporting
<1>3. CASE Finish(i)
  <2>1. import' = [import EXCEPT ![i] = NotImporting]
    BY <1>0, <1>3, StepsTo
  <2>2. /\ NotImporting \in Imports /\ NotImporting.step = "idle"
        /\ ImportFits(NotImporting, month)
    BY <1>0, StepsTo
  <2>3. Steady => rows[import[i].doc] <= Charge(i)
    BY <1>0 DEF Steady, Charge
  <2> HIDE DEF y, x
  <2> QED BY <1>0, <1>1, <2>1, <2>2, <2>3, QuietMove DEF y
<1>4. CASE Step(i, "delete") /\ y.delta <= 0
  <2>1. import' = [import EXCEPT ![i] = x] /\ import'[i] = x
    BY <1>0, <1>4, StepsTo DEF MeterShape
  <2>2. Charge(i)' = Charge(i)
    BY <1>0, <1>2, <2>1 DEF Charge
  <2>3. Steady => rows[import[i].doc] <= x.new - x.delta
    BY <1>0, <1>2 DEF Steady
  <2>4. ~(x.delta > 0)
    BY <1>2, <1>4
  <2> HIDE DEF x
  <2> QED BY <1>0, <1>1, <1>2, <2>1, <2>2, <2>3, <2>4, QuietMove
<1>5. CASE Step(i, "delete") /\ y.delta > 0 /\ Fits(meter[month], y.delta)
  <2>1. import' = [import EXCEPT ![i] = x] /\ import'[i] = x
    BY <1>0, <1>5, StepsTo DEF MeterShape
  <2>2. Charge(i)' = Charge(i)
    BY <1>0, <1>2, <2>1 DEF Charge
  <2>3. Steady => rows[import[i].doc] <= x.new - x.delta
    BY <1>0, <1>2 DEF Steady
  <2> HIDE DEF x
  <2>4. MeterShape'
    BY <1>0, <1>1, <1>2, <2>1, ShapeMoves
  <2>5. \A j \in Importers \ {i} : import'[j] = import[j]
    BY <1>0, <1>2, <2>1, OneImport
  <2>6. Stacked'
    <3>1. \A e \in Documents : rows'[e] <= rows[e] /\ Creators(e)' \subseteq Creators(e)
      BY <1>0, <1>1, <1>2, <2>1, <2>5 DEF Creators
    <3> QED BY <1>0, <2>4, <3>1, StackedLess
  <2>7. Overrun'
    <3> SUFFICES ASSUME ~lost PROVE Overrun'
      BY <1>1 DEF Overrun
    <3>1. /\ Due \in [Importers -> Nat] /\ Due[i] = 0 /\ Due' = [Due EXCEPT ![i] = y.delta]
      <4>1. Due[i] = 0
        BY <1>0 DEF Due
      <4>2. Due' = [Due EXCEPT ![i] = y.delta]
        <5>1. Due' = [Due EXCEPT ![i] =
                 IF x.step \in {"delete", "create", "adjust"} /\ x.delta > 0 THEN x.delta ELSE 0]
          BY <1>0, <1>2, <2>1, OneImport
        <5>2. x.step \in {"delete", "create", "adjust"} /\ x.delta > 0 /\ x.delta = y.delta
          BY <1>2, <1>5
        <5> QED BY <5>1, <5>2
      <4> QED BY <1>0, <4>1, <4>2, DueIs
    <3>2. y.delta \in Nat \ {0} /\ meter[month] + y.delta <= TransactionLimit
      BY <1>2, <1>5 DEF Fits
    <3>3. Within(meter[month], Due) /\ meter[month] \in Nat
      BY <1>0 DEF Overrun
    <3> HIDE DEF y
    <3>4. Within(meter[month], [Due EXCEPT ![i] = y.delta])
      BY <3>1, <3>2, <3>3, GrantFits
    <3>5. \A j \in Importers : Due'[j] <= TransactionLimit
      <4>1. y.delta <= TransactionLimit
        BY <3>2, <3>3, MeterAssumption
      <4>2. \A j \in Importers : Due[j] <= TransactionLimit
        BY <1>0 DEF Overrun
      <4> QED BY <3>1, <4>1, <4>2
    <3>6. /\ Bound' = Bound
          /\ Within(meter[month], Due)' = Within(meter[month], [Due EXCEPT ![i] = y.delta])
      BY <1>1, <3>1 DEF Bound, Times, Within, Granted
    <3> QED BY <1>0, <1>1, <3>4, <3>5, <3>6 DEF Overrun
  <2>8. Metered'
    <3> SUFFICES ASSUME ~disturbed, ~lost PROVE Metered'
      BY <1>1 DEF Metered
    <3>1. Steady /\ \E k : Covers(k) /\ Total(k, Documents) <= Total(meter, 1..Months)
      BY <1>0 DEF Metered
    <3>2. PICK k : Covers(k) /\ Total(k, Documents) <= Total(meter, 1..Months)
      BY <3>1
    <3> DEFINE d == y.doc
    <3>3. Charge(i) <= k[d] /\ k \in [Documents -> Int] /\ d \in Documents
      BY <1>0, <1>2, <3>2 DEF Covers, Working
    <3>4. rows'[d] <= x.new - x.delta /\ Charge(i)' <= k[d]
      BY <1>1, <2>2, <2>3, <3>1, <3>3
    <3>5. /\ import[i] # NotImporting /\ d = import[i].doc
          /\ \A e \in Documents \ {d} : rows'[e] = rows[e]
          /\ Covered(i, x, d, k)
      BY <1>0, <1>1, <1>2, <3>4 DEF Covered
    <3> HIDE DEF d, y
    <3>6. Steady' /\ Covers(k)'
      BY <1>0, <1>2, <2>1, <2>4, <3>1, <3>2, <3>3, <3>5, CoversMoves
    <3> QED BY <1>1, <3>2, <3>6, MeteredBy
  <2> QED BY <2>4, <2>6, <2>7, <2>8 DEF MeterInv
<1> QED BY <1>3, <1>4, <1>5, <1>2 DEF Check

\* What the books of the meter are kept by, while nothing disturbs them.
LEMMA KeptBy ==
    ASSUME MeterInv, ~disturbed, ~lost
    PROVE  Steady /\ \E k : Covers(k) /\ Total(k, Documents) <= Total(meter, 1..Months)
  BY DEF MeterInv, Metered

\* The document is emptied for the new rows.
LEMMA DeleteRowsKeeps ==
    ASSUME MeterInv, NEW i \in Importers, DeleteRows(i)
    PROVE  MeterInv'
<1> DEFINE y == import[i]
           d == y.doc
           x == [y EXCEPT !.step = "create"]
<1>0. /\ MeterShape /\ Stacked /\ Overrun /\ Metered /\ y \in Imports /\ y \in Loading
      /\ y # NotImporting /\ y.step = "delete" /\ ImportFits(y, month)
      /\ rows \in [Documents -> Nat] /\ meter \in [1..Months -> Nat] /\ month \in 1..Months
      /\ \A m \in 1..Months : m > month => meter[m] = 0
      /\ lost \in BOOLEAN /\ disturbed \in BOOLEAN
  <2>1. MeterShape /\ Stacked /\ Overrun /\ Metered /\ y \in Imports /\ y.step = "delete"
    BY DEF MeterInv, MeterShape, DeleteRows
  <2> QED BY <2>1, ImportKinds DEF MeterShape
<1>1. /\ UNCHANGED <<month, meter, disturbed, lost>> /\ rows' = [rows EXCEPT ![d] = 0]
      /\ import' = [import EXCEPT ![i] = x]
  BY <1>0, StepsTo DEF DeleteRows
<1>2. /\ x \in Imports /\ x \in Loading /\ x.step = "create" /\ x.doc = d /\ x.new = y.new
      /\ x.delta = y.delta /\ ImportFits(x, month) /\ x # NotImporting
      /\ d \in Documents /\ y.delta \in Int /\ y.new \in 0..MaxRows
  BY <1>0 DEF Imports, Loading, ImportFits, NotImporting
<1>3. rows' \in [Documents -> Nat] /\ rows'[d] = 0 /\ \A e \in Documents \ {d} : rows'[e] = rows[e]
  BY <1>0, <1>1, <1>2
<1> HIDE DEF x
<1>4. MeterShape'
  BY <1>0, <1>1, <1>2, <1>3, ShapeMoves
<1>5. /\ import'[i] = x /\ \A j \in Importers \ {i} : import'[j] = import[j]
      /\ Due' = [Due EXCEPT ![i] = IF x.step \in {"delete", "create", "adjust"} /\ x.delta > 0
                                     THEN x.delta ELSE 0]
  BY <1>0, <1>1, <1>2, OneImport
<1>6. Stacked'
  <2>1. ASSUME NEW e \in Documents
        PROVE  rows'[e] + Times(Cardinality(Creators(e)')) <= Times(Cardinality(Importers))
    <3>1. CASE e = d
      <4>1. Creators(e)' \in SUBSET Importers
        BY DEF Creators
      <4>2. /\ Cardinality(Creators(e)') \in Nat
            /\ Cardinality(Creators(e)') <= Cardinality(Importers)
        BY <4>1, SomeImports
      <4> DEFINE a == Times(Cardinality(Creators(e)'))
                 n == Times(Cardinality(Importers))
      <4>3. a \in Nat /\ n \in Nat /\ a <= n
        BY <4>2, SomeImporter, TimesGrow
      <4> HIDE DEF a, n
      <4>4. 0 + a <= n
        BY <4>3
      <4> QED BY <1>3, <3>1, <4>4 DEF a, n
    <3>2. CASE e # d
      <4>1. Creators(e)' = Creators(e)
        BY <1>0, <1>2, <1>5, <3>2 DEF Creators
      <4> QED BY <1>0, <1>3, <3>2, <4>1 DEF Stacked
    <3> QED BY <3>1, <3>2
  <2> QED BY <2>1 DEF Stacked, Times
<1>7. Overrun'
  <2>1. Due' = Due
    <3>1. Due[i] = IF y.delta > 0 THEN y.delta ELSE 0
      BY <1>0 DEF Due
    <3>2. Due' = [Due EXCEPT ![i] = IF y.delta > 0 THEN y.delta ELSE 0]
      BY <1>2, <1>5
    <3>3. Due \in [Importers -> Nat]
      BY <1>0, DueIs
    <3> QED BY <3>1, <3>2, <3>3
  <2>2. \A m \in 1..Months : meter'[m] <= meter[m]
    BY <1>0, <1>1
  <2> QED BY <1>0, <1>1, <1>4, <2>1, <2>2, OverrunLess
<1>8. Metered'
  <2> SUFFICES ASSUME ~disturbed, ~lost PROVE Metered'
    BY <1>1 DEF Metered
  <2>1. Steady
    BY KeptBy
  <2>2. PICK k : Covers(k) /\ Total(k, Documents) <= Total(meter, 1..Months)
    BY KeptBy
  <2>3. Charge(i) <= k[d] /\ k \in [Documents -> Int]
    BY <1>0, <1>2, <2>2 DEF Covers, Working
  <2>4. Charge(i)' = Charge(i)
    BY <1>0, <1>2, <1>5 DEF Charge
  <2>5. Charge(i)' <= k[d]
    BY <2>3, <2>4
  <2> HIDE DEF d
  <2>6. d = import[i].doc /\ import[i] # NotImporting /\ Covered(i, x, d, k)
    BY <1>0, <1>2, <1>3, <2>5 DEF d, Covered
  <2> HIDE DEF y
  <2>7. Steady' /\ Covers(k)'
    BY <1>0, <1>1, <1>2, <1>3, <1>4, <2>1, <2>2, <2>3, <2>6, CoversMoves
  <2> QED BY <1>1, <2>2, <2>7, MeteredBy
<1> QED BY <1>4, <1>6, <1>7, <1>8 DEF MeterInv

\* The new rows arrive.
LEMMA CreateRowsKeeps ==
    ASSUME MeterInv, NEW i \in Importers, CreateRows(i)
    PROVE  MeterInv'
<1> DEFINE y == import[i]
           d == y.doc
           z == [step |-> "adjust", doc |-> y.doc, delta |-> y.delta]
           x == IF y.delta = 0 THEN NotImporting ELSE z
<1>0. /\ MeterShape /\ Stacked /\ Overrun /\ Metered /\ y \in Imports /\ y \in Loading
      /\ y # NotImporting /\ y.step = "create" /\ ImportFits(y, month)
      /\ rows \in [Documents -> Nat] /\ meter \in [1..Months -> Nat] /\ month \in 1..Months
      /\ \A m \in 1..Months : m > month => meter[m] = 0
      /\ lost \in BOOLEAN /\ disturbed \in BOOLEAN /\ MaxRows \in Nat
  <2>1. MeterShape /\ Stacked /\ Overrun /\ Metered /\ y \in Imports /\ y.step = "create"
    BY DEF MeterInv, MeterShape, CreateRows
  <2> QED BY <2>1, ImportKinds, MeterAssumption DEF MeterShape
<1>1. /\ UNCHANGED <<month, meter, disturbed, lost>>
      /\ rows' = [rows EXCEPT ![d] = rows[d] + y.new]
      /\ import' = [import EXCEPT ![i] = x]
  <2>1. Finish(i) => import' = [import EXCEPT ![i] = NotImporting]
    BY DEF Finish
  <2>2. y.delta # 0 => import' = [import EXCEPT ![i] = z]
    BY DEF CreateRows
  <2> QED BY <1>0, <2>1, <2>2 DEF CreateRows
<1>2. /\ d \in Documents /\ y.delta \in Int /\ y.new \in 0..MaxRows /\ y.new \in Nat
      /\ y.new <= MaxRows /\ y.delta <= y.new
  BY <1>0 DEF Loading, ImportFits
<1>3. /\ z \in Imports /\ z.step = "adjust" /\ z.doc = d /\ z.delta = y.delta
      /\ ImportFits(z, month) /\ z # NotImporting
  BY <1>0, <1>2 DEF Imports, Adjusting, ImportFits, NotImporting
<1>4. /\ rows' \in [Documents -> Nat] /\ rows'[d] = rows[d] + y.new
      /\ \A e \in Documents \ {d} : rows'[e] = rows[e]
  BY <1>0, <1>1, <1>2
<1> HIDE DEF z
<1>5. /\ x \in Imports /\ ImportFits(x, month) /\ (x = NotImporting \/ x = z)
      /\ x.step \in {"idle", "adjust"}
      /\ (x = NotImporting => y.delta = 0)
      /\ (x # NotImporting => x = z)
  BY <1>0, <1>3, StepsTo
<1> HIDE DEF x
<1>6. MeterShape'
  BY <1>0, <1>1, <1>4, <1>5, ShapeMoves
<1>7. /\ import'[i] = x /\ \A j \in Importers \ {i} : import'[j] = import[j]
      /\ Due' = [Due EXCEPT ![i] = IF x.step \in {"delete", "create", "adjust"} /\ x.delta > 0
                                     THEN x.delta ELSE 0]
  BY <1>0, <1>1, <1>5, OneImport
<1>8. Stacked'
  <2>1. ASSUME NEW e \in Documents
        PROVE  rows'[e] + Times(Cardinality(Creators(e)')) <= Times(Cardinality(Importers))
    <3>0. rows[e] + Times(Cardinality(Creators(e))) <= Times(Cardinality(Importers))
      BY <1>0 DEF Stacked
    <3>1. CASE e = d
      <4>1. /\ Creators(e)' = Creators(e) \ {i} /\ i \in Creators(e)
            /\ Creators(e) \in SUBSET Importers
        BY <1>0, <1>5, <1>7, <3>1 DEF Creators
      <4>2. /\ Cardinality(Creators(e)') \in Nat
            /\ Cardinality(Creators(e)') + 1 = Cardinality(Creators(e))
        BY <4>1, SomeImports
      <4> DEFINE a == Times(Cardinality(Creators(e)'))
                 b == Times(Cardinality(Creators(e)))
                 n == Times(Cardinality(Importers))
      <4>3. a \in Nat /\ b \in Nat /\ n \in Nat /\ b = a + MaxRows
        BY <1>0, <4>2, SomeImporter, TimesGrow
      <4>4. rows[e] + b <= n /\ rows[e] \in Nat /\ rows'[e] = rows[e] + y.new
        BY <1>0, <1>4, <3>0, <3>1
      <4> HIDE DEF a, b, n
      <4>5. rows'[e] + a <= n
        BY <1>0, <1>2, <4>3, <4>4
      <4> QED BY <4>5 DEF a, n
    <3>2. CASE e # d
      <4>1. Creators(e)' = Creators(e)
        BY <1>0, <1>5, <1>7, <3>2 DEF Creators
      <4> QED BY <1>4, <3>0, <3>2, <4>1
    <3> QED BY <3>1, <3>2
  <2> QED BY <2>1 DEF Stacked, Times
<1>9. Overrun'
  <2>1. Due' = Due
    <3>1. Due[i] = IF y.delta > 0 THEN y.delta ELSE 0
      BY <1>0 DEF Due
    <3>2. Due' = [Due EXCEPT ![i] = IF y.delta > 0 THEN y.delta ELSE 0]
      <4>1. CASE x = NotImporting
        <5>1. x.step = "idle" /\ y.delta = 0
          BY <1>0, <1>5, <4>1, StepsTo
        <5> QED BY <1>7, <5>1
      <4>2. CASE x = z
        BY <1>3, <1>7, <4>2
      <4> QED BY <1>5, <4>1, <4>2
    <3>3. Due \in [Importers -> Nat]
      BY <1>0, DueIs
    <3> QED BY <3>1, <3>2, <3>3
  <2>2. \A m \in 1..Months : meter'[m] <= meter[m]
    BY <1>0, <1>1
  <2> QED BY <1>0, <1>1, <1>6, <2>1, <2>2, OverrunLess
<1>10. Metered'
  <2> SUFFICES ASSUME ~disturbed, ~lost PROVE Metered'
    BY <1>1 DEF Metered
  <2>1. Steady
    BY KeptBy
  <2>2. PICK k : Covers(k) /\ Total(k, Documents) <= Total(meter, 1..Months)
    BY KeptBy
  <2>3. y.new - y.delta <= k[d] /\ k \in [Documents -> Int]
    BY <1>0, <1>2, <2>2 DEF Covers, Working, Charge
  <2>4. rows'[d] = y.new
    <3>1. rows[d] = 0
      BY <1>0, <2>1 DEF Steady
    <3> QED BY <1>2, <1>4, <3>1
  <2>5. x = NotImporting => rows'[d] <= k[d]
    BY <1>2, <1>5, <2>3, <2>4
  <2>6. x # NotImporting => Charge(i)' <= k[d]
    <3> SUFFICES ASSUME x # NotImporting PROVE Charge(i)' <= k[d]
      OBVIOUS
    <3>1. import'[i] = z
      BY <1>5, <1>7
    <3>2. Charge(i)' = rows'[d] - y.delta
      BY <1>3, <3>1 DEF Charge
    <3> QED BY <1>2, <2>3, <2>4, <3>2
  <2>7. x = NotImporting \/ x.doc = d
    BY <1>3, <1>5
  <2> HIDE DEF d
  <2>8. d = import[i].doc /\ import[i] # NotImporting
    BY <1>0 DEF d
  <2>9. Covered(i, x, d, k)
    BY <1>4, <1>5, <2>5, <2>6, <2>7 DEF Covered
  <2> HIDE DEF y
  <2>10. Steady' /\ Covers(k)'
    BY <1>0, <1>1, <1>2, <1>4, <1>5, <1>6, <2>1, <2>2, <2>3, <2>8, <2>9, CoversMoves
  <2> QED BY <1>1, <2>2, <2>10, MeteredBy
<1> QED BY <1>6, <1>8, <1>9, <1>10 DEF MeterInv

\* A document and a month that move by the same rows keep the books of the meter.
LEMMA MoveTogether ==
    ASSUME MeterShape, NEW k \in [Documents -> Int], NEW d \in Documents, NEW c \in Int,
           meter' \in [1..Months -> Nat], NEW p \in 1..Months, meter[p] + c <= meter'[p],
           \A m \in 1..Months : m # p => meter[m] <= meter'[m],
           Total(k, Documents) <= Total(meter, 1..Months)
    PROVE  Total([k EXCEPT ![d] = k[d] + c], Documents) <= Total(meter', 1..Months)
<1> DEFINE h == [k EXCEPT ![d] = k[d] + c]
           M == 1..Months
           a == Total(k, Documents)
           b == Total(h, Documents)
           e == Total(meter, M)
           f == Total(meter', M)
<1>1. h \in [Documents -> Int] /\ h[d] = k[d] + c /\ \A x \in Documents \ {d} : h[x] <= k[x]
  OBVIOUS
<1> HIDE DEF h
<1>2. a \in Int /\ b \in Int /\ b <= a + (h[d] - k[d])
  BY <1>1, MeterAssumption, TotalGrows
<1>3. IsFiniteSet(M)
  BY MeterAssumption, FS_Interval
<1>4. meter \in [M -> Int] /\ meter' \in [M -> Int] /\ meter[p] \in Nat /\ meter'[p] \in Nat
  <2>1. meter \in [M -> Nat]
    BY DEF MeterShape
  <2>2. meter' \in [M -> Nat] /\ p \in M
    OBVIOUS
  <2> HIDE DEF M
  <2> QED BY <2>1, <2>2
<1>5. \A x \in M \ {p} : meter[x] <= meter'[x]
  OBVIOUS
<1> HIDE DEF M
<1>6. f \in Int /\ e \in Int /\ e <= f + (meter[p] - meter'[p])
  <2>1. p \in M
    BY DEF M
  <2> QED BY <1>3, <1>4, <1>5, <2>1, TotalGrows
<1> HIDE DEF a, b, e, f
<1>7. a <= e /\ k[d] \in Int
  BY DEF a, e, M
<1>8. b <= f
  <2> DEFINE u == meter[p]
             w == meter'[p]
             q == k[d]
  <2>1. u \in Int /\ w \in Int /\ q \in Int /\ u + c <= w
    BY <1>4, <1>7
  <2>2. h[d] = q + c /\ b <= a + (h[d] - q) /\ e <= f + (u - w)
    BY <1>1, <1>2, <1>6
  <2> HIDE DEF u, w, q
  <2>3. b <= a + c
    BY <1>2, <2>1, <2>2
  <2>4. e + c <= f
    BY <1>6, <2>1, <2>2
  <2> QED BY <1>2, <1>6, <1>7, <2>3, <2>4
<1> QED BY <1>8 DEF b, f, h, M

\* The meter moves by what the import changed, and the import is done.
LEMMA SettleKeeps ==
    ASSUME MeterInv, NEW i \in Importers, import[i].step \in {"adjust", "write"},
           import' = [import EXCEPT ![i] = NotImporting], UNCHANGED <<month, rows, disturbed>>,
           lost' \in BOOLEAN, meter' \in [1..Months -> Nat], NEW p \in 1..Months,
           \A m \in 1..Months : m > month => meter'[m] = 0,
           ~lost' =>
             /\ ~lost
             /\ \A m \in 1..Months : m # p => meter'[m] = meter[m]
             /\ meter[p] + import[i].delta <= meter'[p]
             /\ p # month => meter'[p] <= meter[p]
             /\ p = month => meter'[p] <= meter[p] + Due[i]
    PROVE  MeterInv'
<1> DEFINE y == import[i]
           d == y.doc
<1>0. /\ MeterShape /\ Stacked /\ Overrun /\ Metered /\ y \in Imports /\ y # NotImporting
      /\ rows \in [Documents -> Nat] /\ meter \in [1..Months -> Nat] /\ month \in 1..Months
      /\ disturbed' \in BOOLEAN /\ d \in Documents /\ y.delta \in Int
      /\ NotImporting \in Imports /\ NotImporting.step = "idle" /\ ImportFits(NotImporting, month)
      /\ lost \in BOOLEAN
  <2>1. MeterShape /\ Stacked /\ Overrun /\ Metered /\ y \in Imports /\ y.step # "idle"
    BY DEF MeterInv, MeterShape
  <2> QED BY <2>1, ImportKinds, StepsTo DEF MeterShape
<1>1. MeterShape'
  BY <1>0, ShapeMoves
<1>2. /\ import'[i] = NotImporting /\ \A j \in Importers \ {i} : import'[j] = import[j]
      /\ Due' = [Due EXCEPT ![i] = 0]
  BY <1>0, OneImport
<1>3. Stacked'
  <2>1. \A e \in Documents : rows'[e] <= rows[e] /\ Creators(e)' \subseteq Creators(e)
    BY <1>0, <1>2 DEF Creators
  <2> QED BY <1>0, <1>1, <2>1, StackedLess
<1>4. Overrun'
  <2> SUFFICES ASSUME ~lost' PROVE Overrun'
    BY DEF Overrun
  <2>1. lost' = lost /\ month' = month
    BY <1>0
  <2>2. Due[i] \in Nat
    BY <1>0, DueIs
  <2>3. meter'[month] <= meter[month] + Due[i]
    <3>1. CASE p = month
      BY <3>1
    <3>2. CASE p # month
      <4>1. meter'[month] = meter[month] /\ meter[month] \in Nat
        BY <1>0, <3>2
      <4> QED BY <2>2, <4>1
    <3> QED BY <3>1, <3>2
  <2>4. \A m \in 1..Months : m # month => meter'[m] <= meter[m]
    <3> SUFFICES ASSUME NEW m \in 1..Months, m # month PROVE meter'[m] <= meter[m]
      OBVIOUS
    <3>1. meter[m] \in Nat
      BY <1>0
    <3> QED BY <3>1
  <2> QED BY <1>0, <1>1, <1>2, <2>1, <2>3, <2>4, OverrunCharged
<1>5. Metered'
  <2> SUFFICES ASSUME ~disturbed, ~lost' PROVE Metered'
    BY DEF Metered
  <2>0. ~lost
    OBVIOUS
  <2>1. Steady
    BY <2>0, KeptBy
  <2>2. PICK k : Covers(k) /\ Total(k, Documents) <= Total(meter, 1..Months)
    BY <2>0, KeptBy
  <2>h. PICK h : h = [k EXCEPT ![d] = k[d] + y.delta]
    OBVIOUS
  <2>3. rows[d] - y.delta <= k[d] /\ k \in [Documents -> Int] /\ k[d] \in Int /\ rows[d] \in Nat
    BY <1>0, <2>2 DEF Covers, Working, Charge
  <2>4. /\ h \in [Documents -> Int] /\ h[d] = k[d] + y.delta
        /\ \A e \in Documents \ {d} : h[e] = k[e]
    BY <1>0, <2>3, <2>h
  <2>5. rows'[d] <= h[d]
    BY <1>0, <2>3, <2>4
  <2>6. Total(h, Documents) <= Total(meter', 1..Months)
    <3>1. \A m \in 1..Months : m # p => meter[m] <= meter'[m]
      <4> SUFFICES ASSUME NEW m \in 1..Months, m # p PROVE meter[m] <= meter'[m]
        OBVIOUS
      <4>1. meter[m] \in Nat
        BY <1>0
      <4> QED BY <4>1
    <3> QED BY <1>0, <2>2, <2>3, <2>h, <3>1, MoveTogether
  <2> HIDE DEF d
  <2>7. /\ MeterShape /\ d = import[i].doc /\ import[i] # NotImporting
        /\ d \in Documents /\ \A e \in Documents \ {d} : rows'[e] = rows[e]
        /\ NotImporting \in Imports /\ Covered(i, NotImporting, d, h)
    BY <1>0, <2>5 DEF d, Covered
  <2> HIDE DEF y
  <2>8. Steady' /\ Covers(h)'
    BY <1>1, <2>1, <2>2, <2>4, <2>5, <2>7, CoversMoves, ZenonT(60)
  <2> QED BY <2>6, <2>8, MeteredBy
<1> QED BY <1>1, <1>3, <1>4, <1>5 DEF MeterInv

\* The import charges what it was granted to the month it is by now.
LEMMA IncrementKeeps ==
    ASSUME MeterInv, NEW i \in Importers, Increment(i)
    PROVE  MeterInv'
<1> DEFINE y == import[i]
<1>1. /\ MeterShape /\ y \in Imports /\ y.step = "adjust" /\ y.delta > 0
      /\ meter \in [1..Months -> Nat] /\ month \in 1..Months /\ lost \in BOOLEAN
      /\ \A m \in 1..Months : m > month => meter[m] = 0
  BY DEF MeterInv, MeterShape, Increment
<1>2. y.delta \in Nat /\ Due[i] = y.delta
  BY <1>1, ImportKinds DEF Due
<1>3. /\ import' = [import EXCEPT ![i] = NotImporting] /\ UNCHANGED <<month, rows, disturbed, lost>>
      /\ meter' = [meter EXCEPT ![month] = meter[month] + y.delta]
  BY DEF Increment, Finish
<1>4. /\ meter' \in [1..Months -> Nat] /\ meter'[month] = meter[month] + y.delta
      /\ \A m \in 1..Months : m # month => meter'[m] = meter[m]
      /\ \A m \in 1..Months : m > month => meter'[m] = 0
  BY <1>1, <1>2, <1>3
<1>5. meter[month] \in Nat
  BY <1>1
<1>6. meter[month] + y.delta <= meter'[month] /\ meter'[month] <= meter[month] + Due[i]
  BY <1>2, <1>4, <1>5
<1> QED BY <1>1, <1>3, <1>4, <1>6, SettleKeeps

\* A smaller import reads the meter it is to lower.
LEMMA ReadMeterKeeps ==
    ASSUME MeterInv, NEW i \in Importers, ReadMeter(i)
    PROVE  MeterInv'
<1> DEFINE y == import[i]
           x == [step |-> "write", doc |-> y.doc, delta |-> y.delta,
                 period |-> month, read |-> meter[month]]
<1>1. /\ MeterShape /\ y \in Imports /\ y.step = "adjust" /\ y.delta < 0 /\ y # NotImporting
      /\ y.doc \in Documents /\ y.delta \in Int /\ disturbed \in BOOLEAN
      /\ import \in [Importers -> Imports] /\ month \in 1..Months /\ meter[month] \in Nat
  <2>1. MeterShape /\ y \in Imports /\ y.step = "adjust" /\ y.delta < 0
    BY DEF MeterInv, MeterShape, ReadMeter
  <2> QED BY <2>1, ImportKinds DEF MeterShape
<1>2. import' = [import EXCEPT ![i] = x] /\ UNCHANGED <<month, rows, meter, disturbed, lost>>
  BY DEF ReadMeter
<1>3. /\ x \in Imports /\ x.step = "write" /\ x.doc = y.doc /\ x.delta = y.delta
      /\ ImportFits(x, month) /\ x # NotImporting
  BY <1>1 DEF Imports, Lowering, ImportFits, NotImporting
<1> HIDE DEF x
<1>4. Charge(i)' = Charge(i)
  <2>1. import'[i] = x /\ rows' = rows
    BY <1>1, <1>2
  <2> QED BY <1>1, <1>3, <2>1 DEF Charge
<1>5. x.step \notin {"check", "create"} /\ x.step \notin {"delete", "adjust"}
  BY <1>3
<1> HIDE DEF y
<1>6. x.doc = import[i].doc /\ import[i] # NotImporting
  BY <1>1, <1>3 DEF y
<1> QED BY <1>1, <1>2, <1>3, <1>4, <1>5, <1>6, QuietMove

\* What the meter is lowered to.
LEMMA LoweredIs ==
    ASSUME NEW a \in Int
    PROVE  Max({0, a}) \in Nat /\ a <= Max({0, a}) /\ (a <= 0 => Max({0, a}) = 0)
           /\ (a >= 0 => Max({0, a}) = a)
<1>1. CASE a <= 0
  <2>1. 0 \in {0, a} /\ \A e \in {0, a} : 0 >= e
    BY <1>1
  <2>2. \A m \in {0, a} : (\A e \in {0, a} : m >= e) => m = 0
    BY <1>1
  <2>3. Max({0, a}) = 0
    BY <2>1, <2>2 DEF Max
  <2> QED BY <1>1, <2>3
<1>2. CASE a > 0
  <2>1. a \in {0, a} /\ \A e \in {0, a} : a >= e
    BY <1>2
  <2>2. \A m \in {0, a} : (\A e \in {0, a} : m >= e) => m = a
    BY <1>2
  <2>3. Max({0, a}) = a
    BY <2>1, <2>2 DEF Max
  <2> QED BY <1>2, <2>3
<1> QED BY <1>1, <1>2

\* The import lowers the month it read, by what it read.
LEMMA WriteMeterKeeps ==
    ASSUME MeterInv, NEW i \in Importers, WriteMeter(i)
    PROVE  MeterInv'
<1> DEFINE y == import[i]
           p == y.period
           v == Lowered(i)
<1>1. /\ MeterShape /\ y \in Lowering /\ y.step = "write" /\ y.delta < 0 /\ y.delta \in Int
      /\ p \in 1..Months /\ p <= month /\ y.read \in Nat
      /\ meter \in [1..Months -> Nat] /\ month \in 1..Months /\ lost \in BOOLEAN
      /\ \A m \in 1..Months : m > month => meter[m] = 0
      /\ Due \in [Importers -> Nat]
  <2>1. MeterShape /\ y \in Imports /\ y.step = "write" /\ ImportFits(y, month)
    BY DEF MeterInv, MeterShape, WriteMeter
  <2>2. y \in Lowering
    BY <2>1, ImportKinds
  <2> QED BY <2>1, <2>2, DueIs DEF MeterShape, ImportFits, Lowering
<1>2. v \in Nat /\ y.read + y.delta <= v /\ v <= y.read
  <2>1. y.read + y.delta \in Int /\ v = Max({0, y.read + y.delta})
    BY <1>1 DEF Lowered
  <2> DEFINE a == y.read + y.delta
  <2>2. v \in Nat /\ a <= v /\ (a <= 0 => v = 0) /\ (a >= 0 => v = a)
    BY <2>1, LoweredIs
  <2> HIDE DEF v
  <2> QED BY <1>1, <2>2
<1>3. /\ import' = [import EXCEPT ![i] = NotImporting] /\ UNCHANGED <<month, rows, disturbed>>
      /\ lost' = (lost \/ meter[p] # y.read) /\ meter' = [meter EXCEPT ![p] = v]
  BY DEF WriteMeter, Finish
<1> HIDE DEF v
<1>4. /\ meter' \in [1..Months -> Nat] /\ meter'[p] = v
      /\ \A m \in 1..Months : m # p => meter'[m] = meter[m]
  BY <1>1, <1>2, <1>3
<1>5. \A m \in 1..Months : m > month => meter'[m] = 0
  <2> SUFFICES ASSUME NEW m \in 1..Months, m > month PROVE meter'[m] = 0
    OBVIOUS
  <2>1. m # p
    BY <1>1
  <2> QED BY <1>1, <1>4, <2>1
<1>6. lost' \in BOOLEAN
  BY <1>3
<1>7. ASSUME ~lost'
      PROVE  /\ ~lost
             /\ meter[p] + import[i].delta <= meter'[p]
             /\ p # month => meter'[p] <= meter[p]
             /\ p = month => meter'[p] <= meter[p] + Due[i]
  <2>1. ~lost /\ meter[p] = y.read
    BY <1>3, <1>7
  <2>2. Due[i] \in Nat
    BY <1>1
  <2> QED BY <1>1, <1>2, <1>4, <2>1, <2>2
<1> HIDE DEF p
<1> QED BY <1>1, <1>3, <1>4, <1>5, <1>6, <1>7, SettleKeeps

\* An import that dies leaves the document as it stands.
LEMMA DieKeeps ==
    ASSUME MeterInv, NEW i \in Importers, Die(i)
    PROVE  MeterInv'
<1> DEFINE y == import[i]
<1>1. /\ MeterShape /\ y \in Imports /\ y # NotImporting /\ disturbed \in BOOLEAN
      /\ rows \in [Documents -> Nat] /\ y.doc \in Documents /\ y.delta \in Int
      /\ y.step \in {"check", "delete", "create"} => y.new \in Nat /\ y.delta <= y.new
      /\ y.step = "write" => y.delta < 0
      /\ y.step \in {"check", "delete", "create", "adjust", "write"}
  <2>1. MeterShape /\ y \in Imports /\ y # NotImporting /\ ImportFits(y, month)
    BY DEF MeterInv, MeterShape, Die
  <2>2. y.step # "idle"
    BY <2>1, ImportKinds
  <2> QED BY <2>1, <2>2, ImportKinds DEF MeterShape, ImportFits
<1>2. /\ import' = [import EXCEPT ![i] = NotImporting] /\ UNCHANGED <<month, rows, meter, lost>>
      /\ disturbed' = (disturbed \/ (y.step = "adjust" /\ y.delta > 0))
      /\ disturbed' \in BOOLEAN
  BY DEF Die, Finish
<1>3. ASSUME ~disturbed', Steady PROVE ~disturbed /\ rows[y.doc] <= Charge(i)
  <2>1. ~disturbed /\ ~(y.step = "adjust" /\ y.delta > 0)
    BY <1>2, <1>3
  <2>2. rows[y.doc] \in Nat
    BY <1>1
  <2>3. CASE y.step \in {"check", "delete"}
    BY <1>3, <2>1, <2>3 DEF Steady, Charge
  <2>4. CASE y.step = "create"
    <3>1. rows[y.doc] = 0 /\ Charge(i) = y.new - y.delta
      BY <1>3, <2>4 DEF Steady, Charge
    <3> QED BY <1>1, <2>1, <2>4, <3>1
  <2>5. CASE y.step \in {"adjust", "write"}
    <3>1. Charge(i) = rows[y.doc] - y.delta /\ y.delta <= 0
      BY <1>1, <2>1, <2>5 DEF Charge
    <3> QED BY <1>1, <2>1, <2>2, <3>1
  <2> QED BY <1>1, <2>3, <2>4, <2>5
<1>4. /\ NotImporting \in Imports /\ NotImporting.step = "idle" /\ ImportFits(NotImporting, month)
  BY <1>1, StepsTo
<1>5. ~disturbed' => ~disturbed
  BY <1>2
<1> QED BY <1>1, <1>2, <1>3, <1>4, <1>5, QuietMove

\* An import begins with the rows the document has now.
LEMMA BeginKeeps ==
    ASSUME MeterInv, NEW i \in Importers, NEW d \in Documents, NEW n \in 0..MaxRows, Begin(i, d, n)
    PROVE  MeterInv'
<1> DEFINE x == [step |-> "check", doc |-> d, new |-> n, delta |-> n - rows[d]]
<1>0. /\ MeterShape /\ Stacked /\ Overrun /\ Metered /\ import[i] = NotImporting
      /\ rows \in [Documents -> Nat] /\ meter \in [1..Months -> Nat] /\ month \in 1..Months
      /\ \A m \in 1..Months : m > month => meter[m] = 0
      /\ lost \in BOOLEAN /\ disturbed \in BOOLEAN /\ MaxRows \in Nat /\ n \in Nat
      /\ rows[d] \in Nat /\ ~lost /\ ~disturbed
  BY MeterAssumption DEF MeterInv, MeterShape, Begin
<1>1. /\ UNCHANGED <<month, rows, meter, lost>> /\ import' = [import EXCEPT ![i] = x]
      /\ disturbed' = \E j \in Importers : Working(j, d)
  BY <1>0 DEF Begin, Working
<1>2. /\ x \in Loading /\ x.step = "check" /\ x.doc = d /\ x.new = n /\ x.delta = n - rows[d]
      /\ x.delta <= n
  BY <1>0 DEF Loading
<1>3. x \in Imports /\ ImportFits(x, month)
  BY <1>2 DEF Imports, ImportFits
<1> HIDE DEF x
<1>4. disturbed' \in BOOLEAN
  BY <1>1
<1>5. MeterShape'
  BY <1>0, <1>1, <1>3, <1>4, ShapeMoves
<1>6. /\ import'[i] = x /\ \A j \in Importers \ {i} : import'[j] = import[j]
      /\ Due' = [Due EXCEPT ![i] = IF x.step \in {"delete", "create", "adjust"} /\ x.delta > 0
                                     THEN x.delta ELSE 0]
  BY <1>0, <1>1, <1>3, OneImport
<1>7. Stacked'
  <2>1. \A e \in Documents : rows'[e] <= rows[e] /\ Creators(e)' \subseteq Creators(e)
    BY <1>0, <1>1, <1>2, <1>6 DEF Creators
  <2> QED BY <1>0, <1>5, <2>1, StackedLess
<1>8. Overrun'
  <2>1. Due' = Due
    <3>1. Due[i] = 0
      BY <1>0, StepsTo DEF Due
    <3>2. Due' = [Due EXCEPT ![i] = 0]
      BY <1>2, <1>6
    <3>3. Due \in [Importers -> Nat]
      BY <1>0, DueIs
    <3> QED BY <3>1, <3>2, <3>3
  <2>2. \A m \in 1..Months : meter'[m] <= meter[m]
    BY <1>0, <1>1
  <2> QED BY <1>0, <1>1, <1>5, <2>1, <2>2, OverrunLess
<1>9. Metered'
  <2> SUFFICES ASSUME ~disturbed' PROVE Metered'
    BY DEF Metered
  <2>1. Steady
    BY <1>0, KeptBy
  <2>2. PICK k : Covers(k) /\ Total(k, Documents) <= Total(meter, 1..Months)
    BY <1>0, KeptBy
  <2>3. \A j \in Importers : ~Working(j, d)
    BY <1>1
  <2>4. /\ \A j \in Importers \ {i}, e \in Documents : Working(j, e)' <=> Working(j, e)
        /\ \A e \in Documents : Working(i, e)' => e = d
        /\ \A e \in Documents : ~Working(i, e)
    BY <1>0, <1>2, <1>6 DEF Working
  <2>5. Charge(i)' = rows[d]
    <3>1. Charge(i)' = n - (n - rows[d])
      BY <1>2, <1>6 DEF Charge
    <3> QED BY <1>0, <3>1
  <2>6. \A j \in Importers \ {i} : Charge(j)' = Charge(j)
    BY <1>1, <1>6 DEF Charge
  <2>7. Steady'
    <3>1. \A j, l \in Importers, e \in Documents : Working(j, e)' /\ Working(l, e)' => j = l
      BY <2>1, <2>3, <2>4 DEF Steady
    <3>2. ASSUME NEW j \in Importers
          PROVE  /\ import'[j].step \in {"check", "delete"} =>
                      rows'[import'[j].doc] <= import'[j].new - import'[j].delta
                 /\ import'[j].step = "create" => rows'[import'[j].doc] = 0
      <4>1. CASE j = i
        <5>1. rows'[d] <= n - (n - rows[d])
          BY <1>0, <1>1
        <5> QED BY <1>2, <1>6, <4>1, <5>1
      <4>2. CASE j # i
        <5>1. import'[j] = import[j] /\ rows' = rows
          BY <1>1, <1>6, <4>2
        <5> QED BY <2>1, <5>1 DEF Steady
      <4> QED BY <4>1, <4>2
    <3> QED BY <3>1, <3>2 DEF Steady
  <2>8. Covers(k)'
    <3>1. ASSUME NEW e \in Documents
          PROVE  /\ \A j \in Importers : Working(j, e)' => Charge(j)' <= k[e]
                 /\ (\A j \in Importers : ~Working(j, e)') => rows'[e] <= k[e]
      <4>1. ASSUME NEW j \in Importers, Working(j, e)' PROVE Charge(j)' <= k[e]
        <5>1. CASE j = i
          <6>1. e = d /\ rows[d] <= k[d]
            BY <2>2, <2>3, <2>4, <4>1, <5>1 DEF Covers
          <6> QED BY <2>5, <5>1, <6>1
        <5>2. CASE j # i
          BY <2>2, <2>4, <2>6, <4>1, <5>2 DEF Covers
        <5> QED BY <5>1, <5>2
      <4>2. ASSUME \A j \in Importers : ~Working(j, e)' PROVE rows'[e] <= k[e]
        <5>1. \A j \in Importers : ~Working(j, e)
          BY <2>4, <4>2
        <5> QED BY <1>1, <2>2, <5>1 DEF Covers
      <4> QED BY <4>1, <4>2
    <3> QED BY <2>2, <3>1 DEF Covers
  <2> QED BY <1>1, <2>2, <2>7, <2>8, MeteredBy
<1> QED BY <1>5, <1>7, <1>8, <1>9 DEF MeterInv

\* A document that changes its family loses its rows, and the meter keeps them.
LEMMA ChangeTypeKeeps ==
    ASSUME MeterInv, NEW d \in Documents, ChangeType(d)
    PROVE  MeterInv'
<1>0. /\ MeterShape /\ Stacked /\ Overrun /\ Metered
      /\ rows \in [Documents -> Nat] /\ meter \in [1..Months -> Nat] /\ month \in 1..Months
      /\ import \in [Importers -> Imports]
  BY DEF MeterInv, MeterShape
<1>1. UNCHANGED <<month, meter, import, disturbed, lost>> /\ rows' = [rows EXCEPT ![d] = 0]
  BY DEF ChangeType
<1>2. /\ rows' \in [Documents -> Nat]
      /\ \A e \in Documents : rows[e] \in Nat /\ rows'[e] <= rows[e] /\ (rows[e] = 0 => rows'[e] = 0)
  BY <1>0, <1>1
<1>3. MeterShape'
  BY <1>0, <1>1, <1>2 DEF MeterShape, ImportFits
<1>4. Stacked'
  <2>1. \A e \in Documents : Creators(e)' \subseteq Creators(e)
    BY <1>1 DEF Creators
  <2> QED BY <1>0, <1>2, <1>3, <2>1, StackedLess
<1>5. Overrun'
  <2>1. Due' = Due
    BY <1>1 DEF Due
  <2>2. \A m \in 1..Months : meter'[m] <= meter[m]
    BY <1>0, <1>1
  <2> QED BY <1>0, <1>1, <1>3, <2>1, <2>2, OverrunLess
<1>6. Metered'
  <2> SUFFICES ASSUME ~disturbed, ~lost PROVE Metered'
    BY <1>1 DEF Metered
  <2>1. Steady
    BY KeptBy
  <2>2. PICK k : Covers(k) /\ Total(k, Documents) <= Total(meter, 1..Months)
    BY KeptBy
  <2>3. \A j \in Importers, e \in Documents : Working(j, e)' <=> Working(j, e)
    BY <1>1 DEF Working
  <2>4. ASSUME NEW j \in Importers, NEW e \in Documents, Working(j, e)
        PROVE  Charge(j) \in Int /\ Charge(j)' \in Int /\ Charge(j)' <= Charge(j)
    <3>1. /\ import[j] \in Imports /\ import[j].step # "idle" /\ import[j].doc \in Documents
          /\ import'[j] = import[j] /\ import[j].delta \in Int
          /\ (import[j].step \in {"check", "delete", "create"} => import[j].new \in Nat)
      BY <1>0, <1>1, <2>4, ImportKinds DEF Working
    <3>2. CASE import[j].step \in {"check", "delete", "create"}
      BY <3>1, <3>2 DEF Charge
    <3>3. CASE import[j].step \notin {"check", "delete", "create"}
      <4> DEFINE f == import[j].doc
                 c == import[j].delta
      <4>1. Charge(j) = rows[f] - c /\ Charge(j)' = rows'[f] - c
        BY <3>1, <3>3 DEF Charge
      <4>2. rows[f] \in Nat /\ rows'[f] \in Nat /\ rows'[f] <= rows[f] /\ c \in Int
        BY <1>2, <3>1
      <4> QED BY <4>1, <4>2
    <3> QED BY <3>2, <3>3
  <2>5. Steady'
    <3>1. \A j, l \in Importers, e \in Documents : Working(j, e)' /\ Working(l, e)' => j = l
      BY <2>1, <2>3 DEF Steady
    <3>2. ASSUME NEW j \in Importers
          PROVE  /\ import'[j].step \in {"check", "delete"} =>
                      rows'[import'[j].doc] <= import'[j].new - import'[j].delta
                 /\ import'[j].step = "create" => rows'[import'[j].doc] = 0
      <4>1. import'[j] = import[j] /\ import[j] \in Imports
        BY <1>0, <1>1
      <4>2. CASE import[j].step \in {"check", "delete", "create"}
        <5> DEFINE f == import[j].doc
                   c == import[j].new - import[j].delta
        <5>1. /\ f \in Documents /\ c \in Int
              /\ import[j].step \in {"check", "delete"} => rows[f] <= c
              /\ import[j].step = "create" => rows[f] = 0
          BY <2>1, <4>1, <4>2, ImportKinds DEF Steady
        <5>2. rows[f] \in Nat /\ rows'[f] \in Nat /\ rows'[f] <= rows[f] /\ (rows[f] = 0 => rows'[f] = 0)
          BY <1>2, <5>1
        <5>3. rows[f] <= c => rows'[f] <= c
          BY <5>1, <5>2
        <5> QED BY <4>1, <5>1, <5>2, <5>3
      <4>3. CASE import[j].step \notin {"check", "delete", "create"}
        BY <4>1, <4>3
      <4> QED BY <4>2, <4>3
    <3> QED BY <3>1, <3>2 DEF Steady
  <2>6. Covers(k)'
    <3>1. ASSUME NEW e \in Documents
          PROVE  /\ \A j \in Importers : Working(j, e)' => Charge(j)' <= k[e]
                 /\ (\A j \in Importers : ~Working(j, e)') => rows'[e] <= k[e]
      <4>0. k[e] \in Int /\ rows[e] \in Nat /\ rows'[e] \in Nat /\ rows'[e] <= rows[e]
        BY <1>2, <2>2 DEF Covers
      <4>1. ASSUME NEW j \in Importers, Working(j, e)' PROVE Charge(j)' <= k[e]
        <5>1. Charge(j) <= k[e]
          BY <2>2, <2>3, <4>1 DEF Covers
        <5>2. Charge(j) \in Int /\ Charge(j)' \in Int /\ Charge(j)' <= Charge(j)
          BY <2>3, <2>4, <4>1
        <5> QED BY <4>0, <5>1, <5>2
      <4>2. ASSUME \A j \in Importers : ~Working(j, e)' PROVE rows'[e] <= k[e]
        <5>1. rows[e] <= k[e]
          BY <2>2, <2>3, <4>2 DEF Covers
        <5> QED BY <4>0, <5>1
      <4> QED BY <4>1, <4>2
    <3> QED BY <2>2, <3>1 DEF Covers
  <2> QED BY <1>1, <2>2, <2>5, <2>6, MeteredBy
<1> QED BY <1>3, <1>4, <1>5, <1>6 DEF MeterInv

\* A new month starts from nothing.
LEMMA TurnMonthKeeps ==
    ASSUME MeterInv, TurnMonth
    PROVE  MeterInv'
<1>0. /\ MeterShape /\ Stacked /\ Overrun /\ Metered
      /\ rows \in [Documents -> Nat] /\ meter \in [1..Months -> Nat] /\ month \in 1..Months
      /\ import \in [Importers -> Imports] /\ Months \in Nat
      /\ \A m \in 1..Months : m > month => meter[m] = 0
  BY MeterAssumption DEF MeterInv, MeterShape
<1>1. /\ UNCHANGED <<rows, meter, import, disturbed, lost>> /\ month' = month + 1
      /\ month' \in 1..Months /\ month < month'
  BY <1>0 DEF TurnMonth
<1>2. MeterShape'
  <2>1. \A m \in 1..Months : m > month' => meter[m] = 0
    BY <1>0, <1>1
  <2>2. \A i \in Importers : ImportFits(import[i], month')
    <3> SUFFICES ASSUME NEW i \in Importers PROVE ImportFits(import[i], month')
      OBVIOUS
    <3>1. ImportFits(import[i], month) /\ import[i] \in Imports
      BY <1>0 DEF MeterShape
    <3>2. import[i].step = "write" => import[i].period \in 1..Months
      BY <3>1, ImportKinds DEF Lowering
    <3> QED BY <1>0, <1>1, <3>1, <3>2 DEF ImportFits
  <2>3. \A i \in Importers : ImportFits(import[i], month)'
    BY <1>1, <2>2 DEF ImportFits
  <2> QED BY <1>0, <1>1, <2>1, <2>3 DEF MeterShape
<1>3. Stacked'
  BY <1>0, <1>1 DEF Stacked, Creators, Times
<1>4. Overrun'
  <2> SUFFICES ASSUME ~lost PROVE Overrun'
    BY <1>1 DEF Overrun
  <2>1. /\ \A m \in 1..Months : meter[m] <= Bound
        /\ \A i \in Importers : Due[i] <= TransactionLimit
    BY <1>0 DEF Overrun
  <2>2. Due \in [Importers -> Nat] /\ Due' = Due
    BY <1>0, <1>1, DueIs DEF Due
  <2>3. Within(0, Due)
    BY <2>1, <2>2, NewMonthFits
  <2>4. meter[month'] = 0
    BY <1>0, <1>1
  <2>5. Bound' = Bound /\ Within(meter[month], Due)' = Within(0, Due)
    BY <1>1, <2>2, <2>4 DEF Bound, Times, Within, Granted
  <2> QED BY <1>1, <2>1, <2>2, <2>3, <2>5 DEF Overrun
<1>5. Metered'
  <2>1. Steady' <=> Steady
    BY <1>1 DEF Steady, Working
  <2>2. \A k : Covers(k)' <=> Covers(k)
    BY <1>1 DEF Covers, Working, Charge
  <2> SUFFICES ASSUME ~disturbed, ~lost PROVE Metered'
    BY <1>1 DEF Metered
  <2>3. PICK k : Covers(k) /\ Total(k, Documents) <= Total(meter, 1..Months)
    BY KeptBy
  <2> QED BY <1>1, <2>1, <2>2, <2>3, KeptBy, MeteredBy
<1> QED BY <1>2, <1>3, <1>4, <1>5 DEF MeterInv

\* Nothing adds up to nothing.
LEMMA TotalOfNothing ==
    ASSUME NEW S, IsFiniteSet(S), NEW f \in [S -> Int], \A e \in S : f[e] = 0
    PROVE  Total(f, S) = 0
<1> DEFINE a == CHOOSE it : Sums(it, f, S)
           b == [s \in SUBSET S |-> 0]
<1>1. Sums(a, f, S) /\ Total(f, S) = a[S]
  BY SumsExist, TotalIs
<1>2. Sums(b, f, S)
  <2>1. ASSUME NEW s \in SUBSET S, s # {} PROVE f[Pick(s)] + b[s \ {Pick(s)}] = 0
    <3>1. Pick(s) \in S /\ s \ {Pick(s)} \in SUBSET S
      BY <2>1, PickOut
    <3> QED BY <3>1
  <2>2. b = [s \in SUBSET S |-> IF s = {} THEN 0 ELSE f[Pick(s)] + b[s \ {Pick(s)}]]
    BY <2>1
  <2> HIDE DEF b
  <2> QED BY <2>2 DEF Sums
<1>3. b[S] = 0
  OBVIOUS
<1> HIDE DEF a, b
<1>4. CASE S = {}
  <2>1. a[S] = 0
    BY <1>1, <1>4 DEF Sums
  <2> QED BY <1>1, <2>1
<1>5. ASSUME NEW d \in S PROVE Total(f, S) = 0
  <2>0. f[d] - f[d] = 0 /\ \A e \in S \ {d} : f[e] <= f[e]
    OBVIOUS
  <2>1. a[S] \in Int /\ b[S] \in Int /\ b[S] <= a[S] + IF d \in S THEN f[d] - f[d] ELSE 0
    BY <1>1, <1>2, <2>0, SumsCompare
  <2>2. a[S] <= b[S] + IF d \in S THEN f[d] - f[d] ELSE 0
    BY <1>1, <1>2, <2>0, SumsCompare
  <2> QED BY <1>1, <1>3, <2>0, <2>1, <2>2
<1> QED BY <1>4, <1>5

\* A total is a number.
LEMMA TotalIsNumber ==
    ASSUME NEW S, IsFiniteSet(S), NEW f \in [S -> Int]
    PROVE  Total(f, S) \in Int
<1>1. CASE S = {}
  <2>1. \A e \in S : f[e] = 0
    BY <1>1
  <2>2. Total(f, S) = 0
    BY <2>1, TotalOfNothing
  <2> QED BY <2>2
<1>2. ASSUME NEW d \in S PROVE Total(f, S) \in Int
  <2>1. \A e \in S \ {d} : f[e] <= f[e]
    OBVIOUS
  <2> QED BY <2>1, TotalGrows
<1> QED BY <1>1, <1>2

\* A total of less is less.
LEMMA TotalOfLess ==
    ASSUME NEW S, IsFiniteSet(S), NEW f \in [S -> Int], NEW g \in [S -> Int],
           \A e \in S : g[e] <= f[e], Total(f, S) \in Int
    PROVE  Total(g, S) <= Total(f, S)
<1>1. CASE S = {}
  <2>1. f = g
    BY <1>1
  <2> QED BY <2>1
<1>2. ASSUME NEW d \in S PROVE Total(g, S) <= Total(f, S)
  <2>1. Total(g, S) \in Int /\ Total(g, S) <= Total(f, S) + (g[d] - f[d])
    BY TotalGrows
  <2>2. f[d] \in Int /\ g[d] \in Int /\ g[d] <= f[d]
    OBVIOUS
  <2> QED BY <2>1, <2>2
<1> QED BY <1>1, <1>2

\* Nothing is metered at first.
LEMMA InitMeterInv == MeterInit => MeterInv
<1> SUFFICES ASSUME MeterInit PROVE MeterInv
  OBVIOUS
<1>0. /\ month = 1 /\ ~disturbed /\ ~lost /\ disturbed \in BOOLEAN /\ lost \in BOOLEAN
      /\ rows = [d \in Documents |-> 0] /\ meter = [m \in 1..Months |-> 0]
      /\ import = [i \in Importers |-> NotImporting]
  BY DEF MeterInit
<1>1. MeterShape
  <2>1. 1 \in 1..Months
    BY MeterAssumption
  <2> QED BY <1>0, <2>1 DEF MeterShape, Imports, ImportFits, NotImporting
<1>2. \A i \in Importers : import[i] = NotImporting /\ import[i].step = "idle"
  BY <1>0 DEF NotImporting
<1>3. Stacked
  <2> SUFFICES ASSUME NEW d \in Documents
               PROVE  rows[d] + Times(Cardinality(Creators(d))) <= Times(Cardinality(Importers))
    BY DEF Stacked
  <2>1. Creators(d) = {} /\ rows[d] = 0
    BY <1>0, <1>2 DEF Creators
  <2>2. Times(Cardinality(Creators(d))) = 0
    BY <2>1, FS_EmptySet, TimesGrow
  <2>3. 0 <= Times(Cardinality(Importers)) /\ Times(Cardinality(Importers)) \in Nat
    BY SomeImporter, TimesGrow
  <2> QED BY <2>1, <2>2, <2>3
<1>4. Overrun
  <2>1. Due \in [Importers -> Nat] /\ \A i \in Importers : Due[i] <= TransactionLimit
    <3>1. \A i \in Importers : Due[i] = 0
      BY <1>2 DEF Due
    <3>2. 0 <= TransactionLimit
      BY MeterAssumption
    <3> QED BY <1>1, <3>1, <3>2, DueIs
  <2>2. Within(meter[month], Due)
    <3>1. meter[month] = 0
      BY <1>0, <1>1 DEF MeterShape
    <3> QED BY <2>1, <3>1, NewMonthFits
  <2>3. \A m \in 1..Months : meter[m] <= Bound
    BY <1>0, SomeImporter
  <2> QED BY <2>1, <2>2, <2>3 DEF Overrun
<1>5. Metered
  <2>1. Steady
    BY <1>2 DEF Steady, Working
  <2>2. Covers(rows)
    <3>1. rows \in [Documents -> Int] /\ \A d \in Documents : rows[d] <= rows[d]
      BY <1>0
    <3> QED BY <1>2, <3>1 DEF Covers, Working
  <2>3. Total(rows, Documents) <= Total(meter, 1..Months)
    <3>1. IsFiniteSet(1..Months) /\ IsFiniteSet(Documents)
      BY MeterAssumption, FS_Interval
    <3>2. rows \in [Documents -> Int] /\ \A d \in Documents : rows[d] = 0
      BY <1>0
    <3>3. meter \in [1..Months -> Int] /\ \A m \in 1..Months : meter[m] = 0
      BY <1>0
    <3>4. Total(rows, Documents) = 0 /\ Total(meter, 1..Months) = 0
      BY <3>1, <3>2, <3>3, TotalOfNothing
    <3> QED BY <3>4
  <2> QED BY <2>1, <2>2, <2>3 DEF Metered
<1> QED BY <1>1, <1>3, <1>4, <1>5 DEF MeterInv

\* Every step keeps the books of the meter.
LEMMA NextMeterInv == MeterInv /\ [MeterNext]_meterVars => MeterInv'
<1> SUFFICES ASSUME MeterInv, [MeterNext]_meterVars PROVE MeterInv'
  OBVIOUS
<1>1. CASE UNCHANGED meterVars
  <2>1. UNCHANGED <<month, rows, meter, import, disturbed, lost>>
    BY <1>1 DEF meterVars
  <2>2. MeterShape' /\ Stacked'
    BY <2>1 DEF MeterInv, MeterShape, ImportFits, Stacked, Creators, Times
  <2>3. Overrun'
    BY <2>1 DEF MeterInv, Overrun, Bound, Times, Within, Granted, Due
  <2>4. Metered'
    BY <2>1 DEF MeterInv, Metered, Steady, Covers, Working, Charge
  <2> QED BY <2>2, <2>3, <2>4 DEF MeterInv
<1>2. ASSUME NEW i \in Importers, NEW d \in Documents, NEW n \in 0..MaxRows, Begin(i, d, n)
      PROVE  MeterInv'
  BY <1>2, BeginKeeps
<1>3. ASSUME NEW i \in Importers, Check(i) PROVE MeterInv'
  BY <1>3, CheckKeeps
<1>4. ASSUME NEW i \in Importers, DeleteRows(i) PROVE MeterInv'
  BY <1>4, DeleteRowsKeeps
<1>5. ASSUME NEW i \in Importers, CreateRows(i) PROVE MeterInv'
  BY <1>5, CreateRowsKeeps
<1>6. ASSUME NEW i \in Importers, Increment(i) PROVE MeterInv'
  BY <1>6, IncrementKeeps
<1>7. ASSUME NEW i \in Importers, ReadMeter(i) PROVE MeterInv'
  BY <1>7, ReadMeterKeeps
<1>8. ASSUME NEW i \in Importers, WriteMeter(i) PROVE MeterInv'
  BY <1>8, WriteMeterKeeps
<1>9. ASSUME NEW i \in Importers, Die(i) PROVE MeterInv'
  BY <1>9, DieKeeps
<1>10. ASSUME NEW d \in Documents, ChangeType(d) PROVE MeterInv'
  BY <1>10, ChangeTypeKeeps
<1>11. CASE TurnMonth
  BY <1>11, TurnMonthKeeps
<1> QED BY <1>1, <1>2, <1>3, <1>4, <1>5, <1>6, <1>7, <1>8, <1>9, <1>10, <1>11 DEF MeterNext

\* Every behaviour of the meter keeps its books.
THEOREM MeterInvariant == MeterSpec => []MeterInv
<1> QED BY InitMeterInv, NextMeterInv, PTL DEF MeterSpec

\* The meter never falls below zero, and a document holds no more rows than the
\* imports in flight can stack up.
THEOREM MeterTypes == MeterSpec => []MeterTypeOK
<1>1. MeterInv => MeterTypeOK
  <2> SUFFICES ASSUME MeterInv PROVE MeterTypeOK
    OBVIOUS
  <2>1. MeterShape /\ Stacked
    BY DEF MeterInv
  <2>2. ASSUME NEW d \in Documents PROVE rows[d] \in 0..(MaxRows * Cardinality(Importers))
    <3> DEFINE a == Times(Cardinality(Creators(d)))
               n == Times(Cardinality(Importers))
    <3>1. rows[d] + a <= n /\ rows[d] \in Nat
      BY <2>1 DEF Stacked, MeterShape
    <3>2. a \in Nat /\ n \in Nat
      <4>1. Creators(d) \in SUBSET Importers
        BY DEF Creators
      <4>2. Cardinality(Creators(d)) \in Nat
        BY <4>1, SomeImports
      <4> QED BY <4>2, SomeImporter, TimesGrow
    <3> HIDE DEF a, n
    <3>3. rows[d] \in 0..n
      BY <3>1, <3>2
    <3> QED BY <3>3 DEF n, Times
  <2> QED BY <2>1, <2>2 DEF MeterShape, MeterTypeOK
<1> QED BY <1>1, MeterInvariant, PTL

\* No month runs over its limit by more than what the other imports in flight
\* can bring, while no reduction was written over another change.
THEOREM OverrunStaysBounded == MeterSpec => []MonthOverrunBounded
<1>1. MeterInv => MonthOverrunBounded
  <2> SUFFICES ASSUME MeterInv, ~lost, NEW m \in 1..Months
               PROVE  meter[m] <= TransactionLimit + (Cardinality(Importers) - 1) * MaxRows
    BY DEF MonthOverrunBounded
  <2>1. meter[m] <= Bound
    BY DEF MeterInv, Overrun
  <2>2. Bound = TransactionLimit + (Cardinality(Importers) - 1) * MaxRows
    BY SomeImporter, MeterAssumption DEF Bound, Times
  <2> QED BY <2>1, <2>2
<1> QED BY <1>1, MeterInvariant, PTL

\* While every import ran alone on its document and was metered, the months
\* together have been charged for every row there is.
THEOREM RowsStayMetered == MeterSpec => []RowsAreMetered
<1>1. MeterInv => RowsAreMetered
  <2> SUFFICES ASSUME MeterInv, ~disturbed, ~lost, \A i \in Importers : import[i] = NotImporting
               PROVE  Total(rows, Documents) <= Total(meter, 1..Months)
    BY DEF RowsAreMetered, Total
  <2>1. PICK k : Covers(k) /\ Total(k, Documents) <= Total(meter, 1..Months)
    BY KeptBy
  <2>2. k \in [Documents -> Int] /\ \A d \in Documents : rows[d] <= k[d]
    BY <2>1 DEF Covers, Working
  <2>3. /\ rows \in [Documents -> Int] /\ meter \in [1..Months -> Int]
        /\ IsFiniteSet(Documents) /\ IsFiniteSet(1..Months)
    <3>1. rows \in [Documents -> Nat] /\ meter \in [1..Months -> Nat]
      BY DEF MeterInv, MeterShape
    <3>2. IsFiniteSet(1..Months) /\ IsFiniteSet(Documents)
      BY MeterAssumption, FS_Interval
    <3> DEFINE M == 1..Months
    <3>3. rows \in [Documents -> Int]
      BY <3>1
    <3>4. meter \in [M -> Nat]
      BY <3>1
    <3> HIDE DEF M
    <3>5. meter \in [M -> Int]
      BY <3>4
    <3> QED BY <3>2, <3>3, <3>5 DEF M
  <2>4. Total(rows, Documents) \in Int /\ Total(k, Documents) \in Int
    BY <2>2, <2>3, TotalIsNumber
  <2>5. Total(meter, 1..Months) \in Int
    BY <2>3, TotalIsNumber
  <2>6. Total(rows, Documents) <= Total(k, Documents)
    BY <2>2, <2>3, <2>4, TotalOfLess
  <2> QED BY <2>1, <2>4, <2>5, <2>6
<1> QED BY <1>1, MeterInvariant, PTL

-----------------------------------------------------------------------------
(* What is learned                                                         *)

Items(s) == {s[i] : i \in 1..Len(s)}
Distinct(s) == \A i, j \in 1..Len(s) : s[i] = s[j] => i = j

\* One more row at the end.
LEMMA OneMore ==
    ASSUME NEW S, NEW s \in Seq(S), NEW x \in S, Distinct(s), x \notin Items(s)
    PROVE  /\ Append(s, x) \in Seq(S) /\ Distinct(Append(s, x))
           /\ Items(Append(s, x)) = Items(s) \cup {x}
           /\ Append(s, x) # << >> /\ Append(s, x)[Len(Append(s, x))] = x
<1> DEFINE t == Append(s, x)
           n == Len(s)
<1>1. /\ t \in Seq(S) /\ Len(t) = n + 1 /\ n \in Nat /\ t[n + 1] = x
      /\ \A i \in 1..n : t[i] = s[i]
  OBVIOUS
<1>2. 1..(n + 1) = 1..n \cup {n + 1}
  BY <1>1
<1>3. t # << >>
  BY <1>1
<1>4. \A i \in 1..n : s[i] # x
  BY DEF Items
<1> HIDE DEF t
<1>5. Distinct(t)
  <2> SUFFICES ASSUME NEW i \in 1..Len(t), NEW j \in 1..Len(t), t[i] = t[j] PROVE i = j
    BY DEF Distinct
  <2>1. i \in 1..n \/ i = n + 1
    BY <1>1, <1>2
  <2>2. j \in 1..n \/ j = n + 1
    BY <1>1, <1>2
  <2>3. CASE i \in 1..n /\ j \in 1..n
    BY <1>1, <2>3 DEF Distinct
  <2>4. CASE i = n + 1 /\ j = n + 1
    BY <2>4
  <2>5. CASE i \in 1..n /\ j = n + 1
    BY <1>1, <1>4, <2>5
  <2>6. CASE i = n + 1 /\ j \in 1..n
    BY <1>1, <1>4, <2>6
  <2> QED BY <2>1, <2>2, <2>3, <2>4, <2>5, <2>6
<1>6. Items(t) = Items(s) \cup {x}
  BY <1>1, <1>2 DEF Items
<1> QED BY <1>1, <1>3, <1>5, <1>6 DEF t

\* A list of different rows has as many as there are.
LEMMA HowMany ==
    ASSUME NEW S, NEW s \in Seq(S), Distinct(s)
    PROVE  IsFiniteSet(Items(s)) /\ Cardinality(Items(s)) = Len(s)
<1> DEFINE f == [i \in 1..Len(s) |-> s[i]]
<1>1. Len(s) \in Nat
  OBVIOUS
<1>2. f \in Surjection(1..Len(s), Items(s))
  BY DEF Surjection, Items
<1>3. f \in Injection(1..Len(s), Items(s))
  BY <1>2 DEF Injection, IsInjective, Surjection, Distinct
<1>4. IsFiniteSet(1..Len(s)) /\ Cardinality(1..Len(s)) = Len(s)
  BY <1>1, FS_Interval
<1> HIDE DEF f
<1> QED BY <1>2, <1>3, <1>4, FS_Surjection

\* The steps of taking rows out of the list.
Keeps(f, gone) ==
    f = [n \in 0..Len(recent) |->
           IF n = 0 THEN << >>
           ELSE IF recent[n] \in gone THEN f[n - 1] ELSE Append(f[n - 1], recent[n])]

\* There are such steps.
LEMMA KeepsExist ==
    ASSUME Len(recent) \in Nat, NEW gone
    PROVE  \E f : Keeps(f, gone)
<1> DEFINE n == Len(recent)
           Body(f, p) == IF p = 0 THEN << >>
                         ELSE IF recent[p] \in gone THEN f[p - 1] ELSE Append(f[p - 1], recent[p])
           UpTo(f, k) == \A p \in 0..k : f[p] = Body(f, p)
           Built(k) == \E f : UpTo(f, k)
           G == {k \in 0..n : Built(k)}
<1>1. 0 \in G
  <2> DEFINE f == [p \in {0} |-> << >>]
  <2>1. UpTo(f, 0)
    OBVIOUS
  <2> HIDE DEF UpTo, f
  <2>2. Built(0)
    BY <2>1
  <2> QED BY <2>2
<1>2. ASSUME NEW k \in 0..n, k \in G, k + 1 <= n PROVE k + 1 \in G
  <2>1. PICK f : UpTo(f, k)
    <3> HIDE DEF UpTo
    <3> QED BY <1>2
  <2> DEFINE g == [p \in 0..(k + 1) |-> IF p = k + 1 THEN Body(f, k + 1) ELSE f[p]]
  <2>2. ASSUME NEW p \in 0..(k + 1) PROVE g[p] = Body(g, p)
    <3>1. p # 0 => p - 1 \in 0..(k + 1) /\ p - 1 # k + 1 /\ g[p - 1] = f[p - 1]
      OBVIOUS
    <3>2. g[p] = Body(f, p)
      <4>1. CASE p = k + 1
        BY <4>1
      <4>2. CASE p # k + 1
        <5>1. p \in 0..k /\ g[p] = f[p]
          BY <4>2
        <5> QED BY <2>1, <5>1
      <4> QED BY <4>1, <4>2
    <3> HIDE DEF g
    <3> QED BY <3>1, <3>2
  <2>3. UpTo(g, k + 1)
    <3> HIDE DEF g
    <3> QED BY <2>2
  <2> HIDE DEF UpTo, g
  <2>4. Built(k + 1)
    BY <2>3
  <2>5. k + 1 \in 0..n
    BY <1>2
  <2> QED BY <2>4, <2>5
<1>3. Built(n)
  <2>1. n \in 0..n /\ n \in Nat
    OBVIOUS
  <2> HIDE DEF Built, n
  <2>2. \A k \in 0..n : k \in G /\ k + 1 <= n => k + 1 \in G
    BY <1>2
  <2> HIDE DEF G
  <2>3. \A k \in 0..n : k \in G
    BY <1>1, <2>1, <2>2, AllNumbers
  <2> QED BY <2>1, <2>3 DEF G
<1>4. PICK f : UpTo(f, n)
  <2> HIDE DEF UpTo
  <2> QED BY <1>3
<1> DEFINE g == [p \in 0..n |-> f[p]]
<1>5. \A p \in 0..n : g[p] = Body(g, p)
  <2> SUFFICES ASSUME NEW p \in 0..n PROVE g[p] = Body(g, p)
    OBVIOUS
  <2>1. g[p] = Body(f, p)
    BY <1>4
  <2>2. p # 0 => g[p - 1] = f[p - 1]
    OBVIOUS
  <2> HIDE DEF g
  <2> QED BY <2>1, <2>2
<1>6. g = [p \in 0..n |-> g[p]]
  OBVIOUS
<1> HIDE DEF g
<1>7. [p \in 0..n |-> g[p]] = [p \in 0..n |-> Body(g, p)]
  BY <1>5
<1>8. Keeps(g, gone)
  BY <1>6, <1>7 DEF Keeps
<1> HIDE DEF Body, UpTo
<1> QED BY <1>8

\* Taking rows out leaves the others, in their order: the last one stays last.
LEMMA WhatStays ==
    ASSUME recent \in Seq(Lessons), Distinct(recent), NEW gone
    PROVE  /\ Without(gone) \in Seq(Lessons) /\ Distinct(Without(gone))
           /\ Items(Without(gone)) = Held \ gone
           /\ recent # << >> /\ recent[Len(recent)] \notin gone =>
                /\ Without(gone) # << >>
                /\ Without(gone)[Len(Without(gone))] = recent[Len(recent)]
<1> DEFINE f == CHOOSE x : Keeps(x, gone)
           n == Len(recent)
<1>1. n \in Nat /\ \A i \in 1..n : recent[i] \in Lessons
  OBVIOUS
<1>2. Keeps(f, gone) /\ Without(gone) = f[n]
  <2>1. Keeps(f, gone)
    BY <1>1, KeepsExist
  <2>2. Without(gone) = f[n]
    BY DEF Without, Keeps
  <2> QED BY <2>1, <2>2
<1> HIDE DEF f
<1> DEFINE Stay(m) == {recent[i] : i \in 1..m} \ gone
           Right(m) == /\ f[m] \in Seq(Lessons) /\ Distinct(f[m]) /\ Items(f[m]) = Stay(m)
                       /\ m # 0 /\ recent[m] \notin gone =>
                            f[m] # << >> /\ f[m][Len(f[m])] = recent[m]
           G == {m \in 0..n : Right(m)}
<1>3. f[0] = << >> /\ \A m \in 1..n : f[m] = IF recent[m] \in gone THEN f[m - 1]
                                            ELSE Append(f[m - 1], recent[m])
  <2>1. \A m \in 0..n : f[m] = IF m = 0 THEN << >>
                               ELSE IF recent[m] \in gone THEN f[m - 1] ELSE Append(f[m - 1], recent[m])
    BY <1>2 DEF Keeps
  <2>2. 0 \in 0..n /\ \A m \in 1..n : m \in 0..n /\ m # 0
    BY <1>1
  <2> QED BY <2>1, <2>2
<1>4. 0 \in G
  <2>1. 0 \in 0..n /\ f[0] \in Seq(Lessons) /\ Distinct(f[0])
    BY <1>1, <1>3 DEF Distinct
  <2>2. Items(f[0]) = Stay(0)
    BY <1>3 DEF Items
  <2> QED BY <2>1, <2>2
<1>5. ASSUME NEW k \in 0..n, Right(k), k + 1 <= n PROVE Right(k + 1)
  <2>1. k + 1 \in 1..n /\ (k + 1) - 1 = k /\ k + 1 # 0 /\ k \in Nat
    BY <1>1, <1>5
  <2>2. recent[k + 1] \in Lessons /\ \A i \in 1..k : recent[i] # recent[k + 1]
    <3>1. \A i \in 1..k : i \in 1..n /\ i # k + 1
      BY <1>1, <2>1
    <3> QED BY <1>1, <2>1, <3>1 DEF Distinct
  <2>3. 1..(k + 1) = 1..k \cup {k + 1}
    BY <2>1
  <2>4. CASE recent[k + 1] \in gone
    <3>1. f[k + 1] = f[k]
      BY <1>3, <2>1, <2>4
    <3>2. Stay(k + 1) = Stay(k)
      BY <2>3, <2>4
    <3> HIDE DEF Stay
    <3> QED BY <1>5, <2>4, <3>1, <3>2
  <2>5. CASE recent[k + 1] \notin gone
    <3>1. f[k + 1] = Append(f[k], recent[k + 1])
      BY <1>3, <2>1, <2>5
    <3>2. Stay(k + 1) = Stay(k) \cup {recent[k + 1]}
      BY <2>3, <2>5
    <3>3. recent[k + 1] \notin Stay(k)
      BY <2>2
    <3> HIDE DEF Stay
    <3>4. /\ f[k] \in Seq(Lessons) /\ Distinct(f[k]) /\ Items(f[k]) = Stay(k)
      BY <1>5
    <3> DEFINE s == f[k]
               x == recent[k + 1]
    <3>s. s \in Seq(Lessons) /\ x \in Lessons /\ Distinct(s) /\ x \notin Items(s)
      BY <2>2, <3>3, <3>4
    <3>t. f[k + 1] = Append(s, x)
      BY <3>1
    <3> HIDE DEF s, x, Right
    <3>u. /\ Append(s, x) \in Seq(Lessons) /\ Distinct(Append(s, x))
          /\ Items(Append(s, x)) = Items(s) \cup {x}
          /\ Append(s, x) # << >> /\ Append(s, x)[Len(Append(s, x))] = x
      BY <3>s, OneMore
    <3>5. /\ f[k + 1] \in Seq(Lessons) /\ Distinct(f[k + 1])
          /\ Items(f[k + 1]) = Items(f[k]) \cup {recent[k + 1]}
          /\ f[k + 1] # << >> /\ f[k + 1][Len(f[k + 1])] = recent[k + 1]
      BY <3>t, <3>u DEF s, x
    <3> QED BY <3>2, <3>4, <3>5 DEF Right
  <2> QED BY <2>4, <2>5
<1>6. Right(n)
  <2> HIDE DEF Right
  <2>1. \A k \in 0..n : k \in G /\ k + 1 <= n => k + 1 \in G
    <3> SUFFICES ASSUME NEW k \in 0..n, k \in G, k + 1 <= n PROVE k + 1 \in G
      OBVIOUS
    <3> QED BY <1>5
  <2> HIDE DEF G
  <2>2. \A k \in 0..n : k \in G
    BY <1>1, <1>4, <2>1, AllNumbers
  <2>3. n \in 0..n
    BY <1>1
  <2> QED BY <2>2, <2>3 DEF G
<1>7. Stay(n) = Held \ gone /\ (recent # << >> => n # 0)
  BY DEF Held
<1> QED BY <1>2, <1>6, <1>7

\* A request that learns is idle, or has yet to count, find or delete.
MemoryShape ==
    /\ recent \in Seq(Lessons) /\ Distinct(recent)
    /\ learner \in [Learners -> [step : {"idle", "count", "find", "delete"},
                                 excess : Nat, stale : SUBSET Lessons]]
    /\ \A r \in Learners : learner[r].step = "idle" => learner[r] = Quiet
    /\ unpruned \in BOOLEAN /\ crowded \in BOOLEAN

\* The pruning of r brings the rows down to the cap: it has yet to count them,
\* or it is to find or to delete as many as are too many.
Trimming(r) ==
    \/ learner[r].step = "count"
    \/ learner[r].step = "find" /\ Cardinality(Held) <= Cap + learner[r].excess
    \/ learner[r].step = "delete" /\ Cardinality(Held \ learner[r].stale) <= Cap

Trimmed == unpruned \/ Cardinality(Held) <= Cap \/ \E r \in Learners : Trimming(r)

\* Alone, a pruning spares the last row, which is the lesson confirmed last.
Lasting ==
    ~crowded =>
      /\ \A r, s \in Learners : learner[r] # Quiet /\ learner[s] # Quiet => r = s
      /\ newest # Nothing =>
           /\ recent # << >> /\ recent[Len(recent)] = newest
           /\ \A r \in Learners :
                /\ learner[r].step = "find" => learner[r].excess < Len(recent)
                /\ learner[r].step = "delete" => newest \notin learner[r].stale

MemoryInv == MemoryShape /\ Trimmed /\ Lasting

\* The rows are as many as there are lessons held.
LEMMA HeldIs ==
    ASSUME MemoryShape
    PROVE  /\ Held = Items(recent) /\ IsFiniteSet(Held) /\ Cardinality(Held) = Len(recent)
           /\ Len(recent) \in Nat /\ \A X \in SUBSET Held :
                Cardinality(X) \in Nat /\ Cardinality(X) <= Len(recent)
           /\ recent # << >> => recent[Len(recent)] \in Held
<1>1. Held = Items(recent)
  BY DEF Held, Items
<1>2. IsFiniteSet(Held) /\ Cardinality(Held) = Len(recent) /\ Len(recent) \in Nat
  BY <1>1, HowMany DEF MemoryShape
<1>3. \A X \in SUBSET Held : Cardinality(X) \in Nat /\ Cardinality(X) <= Len(recent)
  BY <1>2, FS_Subset, FS_CardinalityType
<1>4. recent # << >> => recent[Len(recent)] \in Held
  BY DEF MemoryShape, Held
<1> QED BY <1>1, <1>2, <1>3, <1>4

\* The upsert leaves its lesson last.
LEMMA ConfirmedIsLast ==
    ASSUME MemoryShape, NEW k \in Lessons, Confirm(k)
    PROVE  /\ recent' \in Seq(Lessons) /\ Distinct(recent') /\ Held' = Held \cup {k}
           /\ recent' # << >> /\ recent'[Len(recent')] = k
<1> DEFINE s == Without({k})
<1>1. recent \in Seq(Lessons) /\ Distinct(recent)
  BY DEF MemoryShape
<1>2. s \in Seq(Lessons) /\ Distinct(s) /\ Items(s) = Held \ {k}
  BY <1>1, WhatStays
<1>3. recent' = Append(s, k)
  BY DEF Confirm
<1> HIDE DEF s
<1>4. k \notin Items(s)
  BY <1>2
<1>5. /\ Append(s, k) \in Seq(Lessons) /\ Distinct(Append(s, k))
      /\ Items(Append(s, k)) = Items(s) \cup {k}
      /\ Append(s, k) # << >> /\ Append(s, k)[Len(Append(s, k))] = k
  BY <1>2, <1>4, OneMore
<1>6. Held' = Items(recent')
  BY DEF Held, Items
<1> QED BY <1>2, <1>3, <1>5, <1>6

\* What a request is to delete is the oldest rows, and leaves no more than the cap.
LEMMA OldestAreFew ==
    ASSUME MemoryShape, NEW n \in Nat
    PROVE  /\ Oldest(n) \in SUBSET Lessons
           /\ Len(recent) <= Cap + n => Cardinality(Held \ Oldest(n)) <= Cap
           /\ n < Len(recent) => recent[Len(recent)] \notin Oldest(n)
<1>0. /\ recent \in Seq(Lessons) /\ Distinct(recent) /\ Len(recent) \in Nat /\ Cap \in Nat
      /\ \A i \in 1..Len(recent) : recent[i] \in Lessons
  BY LearnedMemoryAssumption DEF MemoryShape
<1>1. Oldest(n) \in SUBSET Lessons
  BY <1>0 DEF Oldest
<1>2. ASSUME Len(recent) <= Cap + n PROVE Cardinality(Held \ Oldest(n)) <= Cap
  <2> DEFINE S == (n + 1)..Len(recent)
             T == Held \ Oldest(n)
             U == {recent[i] : i \in S}
             f == [i \in S |-> recent[i]]
  <2>1. T \subseteq U
    <3> SUFFICES ASSUME NEW x \in T PROVE x \in U
      OBVIOUS
    <3>1. PICK i \in 1..Len(recent) : x = recent[i]
      BY DEF Held
    <3>2. ~(i <= n)
      BY <3>1 DEF Oldest
    <3>3. i \in S
      BY <1>0, <3>2
    <3> QED BY <3>1, <3>3
  <2>2. IsFiniteSet(S) /\ Cardinality(S) = IF n + 1 <= Len(recent) THEN Len(recent) - n ELSE 0
    <3>1. /\ IsFiniteSet(S)
          /\ Cardinality(S) = IF n + 1 > Len(recent) THEN 0 ELSE Len(recent) - (n + 1) + 1
      <4> DEFINE a == n + 1
                 b == Len(recent)
      <4>1. a \in Int /\ b \in Int
        BY <1>0
      <4> HIDE DEF a, b
      <4>2. IsFiniteSet(a..b) /\ Cardinality(a..b) = IF a > b THEN 0 ELSE b - a + 1
        BY <4>1, FS_Interval
      <4> QED BY <4>2 DEF a, b
    <3> HIDE DEF S
    <3> QED BY <1>0, <3>1
  <2>3. f \in Surjection(S, U)
    BY DEF Surjection
  <2> HIDE DEF f, U, S
  <2>4. IsFiniteSet(U) /\ Cardinality(U) <= Cardinality(S)
    BY <2>2, <2>3, FS_Surjection
  <2>5. Cardinality(T) <= Cardinality(U) /\ Cardinality(T) \in Nat /\ Cardinality(U) \in Nat
    BY <2>1, <2>4, FS_Subset, FS_CardinalityType
  <2>6. Cardinality(S) <= Cap /\ Cardinality(S) \in Nat
    BY <1>0, <1>2, <2>2
  <2>7. Cardinality(T) <= Cap
    <3> HIDE DEF T
    <3> QED BY <1>0, <2>4, <2>5, <2>6
  <2> QED BY <2>7
<1>3. ASSUME n < Len(recent) PROVE recent[Len(recent)] \notin Oldest(n)
  <2> SUFFICES ASSUME NEW i \in 1..Len(recent), i <= n, recent[i] = recent[Len(recent)]
               PROVE  FALSE
    BY DEF Oldest
  <2>1. Len(recent) \in 1..Len(recent)
    BY <1>0, <1>3
  <2>2. i = Len(recent)
    BY <1>0, <2>1 DEF Distinct
  <2> QED BY <1>0, <1>3, <2>2
<1> QED BY <1>1, <1>2, <1>3

\* With no more rows a pruning still brings them down to the cap.
LEMMA StillTrimming ==
    ASSUME MemoryShape, MemoryShape', NEW r \in Learners, Trimming(r), Held' \subseteq Held,
           learner'[r].step = learner[r].step, learner'[r].excess = learner[r].excess,
           Held' \ learner'[r].stale \subseteq Held \ learner[r].stale
    PROVE  Trimming(r)'
<1>0. Cap \in Nat /\ learner[r].excess \in Nat
  BY LearnedMemoryAssumption DEF MemoryShape
<1>1. ASSUME NEW X, NEW Y \in SUBSET X, IsFiniteSet(X)
      PROVE  Cardinality(Y) \in Nat /\ Cardinality(X) \in Nat /\ Cardinality(Y) <= Cardinality(X)
  BY <1>1, FS_Subset, FS_CardinalityType
<1>2. IsFiniteSet(Held) /\ IsFiniteSet(Held \ learner[r].stale)
  BY HeldIs, FS_Subset
<1>3. /\ Cardinality(Held') \in Nat /\ Cardinality(Held) \in Nat
      /\ Cardinality(Held') <= Cardinality(Held)
  BY <1>1, <1>2
<1> DEFINE a == Cardinality(Held \ learner[r].stale)
           b == Cardinality(Held' \ learner'[r].stale)
<1>4. a \in Nat /\ b \in Nat /\ b <= a
  BY <1>1, <1>2
<1> HIDE DEF a, b
<1>5. a <= Cap => b <= Cap
  BY <1>0, <1>4
<1>6. Cardinality(Held) <= Cap + learner[r].excess => Cardinality(Held') <= Cap + learner[r].excess
  BY <1>0, <1>3
<1> QED BY <1>5, <1>6 DEF Trimming, a, b

\* Rows go by their id.
LEMMA DiscardIs ==
    ASSUME MemoryShape, NEW gone, NEW ls \in [Learners -> [step : {"idle", "count", "find", "delete"},
                                                         excess : Nat, stale : SUBSET Lessons]],
           \A r \in Learners : ls[r].step = "idle" => ls[r] = Quiet,
           Discard(gone, ls), unpruned' \in BOOLEAN, crowded' \in BOOLEAN
    PROVE  /\ MemoryShape' /\ Held' = Held \ gone
           /\ \A r \in Learners :
                /\ learner'[r].step = ls[r].step /\ learner'[r].excess = ls[r].excess
                /\ learner'[r].stale = ls[r].stale \ gone
                /\ learner'[r] # Quiet => ls[r] # Quiet
           /\ recent # << >> /\ recent[Len(recent)] \notin gone =>
                recent' # << >> /\ recent'[Len(recent')] = recent[Len(recent)]
<1>1. /\ recent' = Without(gone) /\ learner' = [r \in Learners |-> [ls[r] EXCEPT !.stale = @ \ gone]]
  BY DEF Discard
<1>2. recent \in Seq(Lessons) /\ Distinct(recent)
  BY DEF MemoryShape
<1>3. /\ recent' \in Seq(Lessons) /\ Distinct(recent') /\ Items(recent') = Held \ gone
      /\ recent # << >> /\ recent[Len(recent)] \notin gone =>
           recent' # << >> /\ recent'[Len(recent')] = recent[Len(recent)]
  BY <1>1, <1>2, WhatStays
<1>4. ASSUME NEW r \in Learners
      PROVE  /\ learner'[r] \in [step : {"idle", "count", "find", "delete"},
                                 excess : Nat, stale : SUBSET Lessons]
             /\ learner'[r].step = ls[r].step /\ learner'[r].excess = ls[r].excess
             /\ learner'[r].stale = ls[r].stale \ gone
             /\ ls[r] = Quiet => learner'[r] = Quiet
  <2>1. learner'[r] = [ls[r] EXCEPT !.stale = ls[r].stale \ gone]
    BY <1>1
  <2>2. ls[r] = Quiet => learner'[r] = Quiet
    <3> SUFFICES ASSUME ls[r] = Quiet PROVE learner'[r] = Quiet
      OBVIOUS
    <3>1. ls[r].stale \ gone = {}
      BY DEF Quiet
    <3>2. learner'[r] = [Quiet EXCEPT !.stale = {}]
      BY <2>1, <3>1
    <3> QED BY <3>2 DEF Quiet
  <2> QED BY <2>1, <2>2
<1>5. Held' = Items(recent')
  BY DEF Held, Items
<1>6. learner' \in [Learners -> [step : {"idle", "count", "find", "delete"},
                                 excess : Nat, stale : SUBSET Lessons]]
  BY <1>1, <1>4
<1>7. MemoryShape'
  BY <1>3, <1>4, <1>6 DEF MemoryShape, Distinct, Quiet
<1> QED BY <1>3, <1>4, <1>5, <1>7

\* One request moves on; the others wait.
LEMMA OneLearner ==
    ASSUME MemoryShape, NEW r \in Learners, recent' \in Seq(Lessons), Distinct(recent'),
           NEW l \in [step : {"idle", "count", "find", "delete"}, excess : Nat, stale : SUBSET Lessons],
           l.step = "idle" => l = Quiet, learner' = [learner EXCEPT ![r] = l],
           unpruned' \in BOOLEAN, crowded' \in BOOLEAN
    PROVE  /\ MemoryShape' /\ learner'[r] = l
           /\ \A s \in Learners \ {r} : learner'[s] = learner[s]
<1>1. /\ learner' \in [Learners -> [step : {"idle", "count", "find", "delete"},
                                    excess : Nat, stale : SUBSET Lessons]]
      /\ learner'[r] = l /\ \A s \in Learners \ {r} : learner'[s] = learner[s]
  BY DEF MemoryShape
<1>2. \A s \in Learners : learner'[s].step = "idle" => learner'[s] = Quiet
  BY <1>1 DEF MemoryShape
<1> QED BY <1>1, <1>2 DEF MemoryShape, Distinct, Quiet

\* A lesson is learned and its request is to prune.
LEMMA LearnKeeps ==
    ASSUME MemoryInv, NEW r \in Learners, NEW k \in Lessons, Learn(r, k)
    PROVE  MemoryInv'
<1> DEFINE l == [Quiet EXCEPT !.step = "count"]
<1>1. /\ MemoryShape /\ learner[r] = Quiet /\ Confirm(k) /\ learner' = [learner EXCEPT ![r] = l]
      /\ newest' = k /\ crowded' = Pruning /\ unpruned' = unpruned /\ unpruned \in BOOLEAN
  BY DEF MemoryInv, MemoryShape, Learn, Confirm
<1>2. /\ recent' \in Seq(Lessons) /\ Distinct(recent') /\ Held' = Held \cup {k}
      /\ recent' # << >> /\ recent'[Len(recent')] = k
  BY <1>1, ConfirmedIsLast
<1>3. /\ l \in [step : {"idle", "count", "find", "delete"}, excess : Nat, stale : SUBSET Lessons]
      /\ l.step = "count"
  BY DEF Quiet
<1>4. crowded' \in BOOLEAN
  BY <1>1 DEF Pruning
<1> HIDE DEF l
<1>5. /\ MemoryShape' /\ learner'[r] = l
      /\ \A s \in Learners \ {r} : learner'[s] = learner[s]
  BY <1>1, <1>2, <1>3, <1>4, OneLearner
<1>6. Trimmed'
  BY <1>3, <1>5 DEF Trimmed, Trimming
<1>7. Lasting'
  <2> SUFFICES ASSUME ~crowded' PROVE Lasting'
    BY DEF Lasting
  <2>1. \A s \in Learners : learner[s] = Quiet
    BY <1>1 DEF Pruning
  <2>2. \A s \in Learners \ {r} : learner'[s] = Quiet
    BY <1>5, <2>1
  <2>3. \A s \in Learners : learner'[s].step \in {"idle", "count"}
    BY <1>3, <1>5, <2>2 DEF Quiet
  <2>4. \A s, t \in Learners : learner'[s] # Quiet /\ learner'[t] # Quiet => s = t
    BY <2>2
  <2> QED BY <1>1, <1>2, <2>3, <2>4 DEF Lasting, Quiet
<1> QED BY <1>5, <1>6, <1>7 DEF MemoryInv

\* A row confirmed with nothing to prune after it.
LEMMA ConfirmKeeps ==
    ASSUME MemoryInv, NEW k \in Lessons, Confirm(k), learner' = learner, unpruned' \in BOOLEAN,
           unpruned' \/ (unpruned' = unpruned /\ k \in Held)
    PROVE  MemoryInv'
<1>1. /\ MemoryShape /\ Trimmed /\ newest' = k /\ crowded' = Pruning
  BY DEF MemoryInv, Confirm
<1>2. /\ recent' \in Seq(Lessons) /\ Distinct(recent') /\ Held' = Held \cup {k}
      /\ recent' # << >> /\ recent'[Len(recent')] = k
  BY <1>1, ConfirmedIsLast
<1>3. MemoryShape'
  BY <1>1, <1>2 DEF MemoryShape, Distinct, Quiet, Pruning
<1>4. Trimmed'
  <2>1. CASE unpruned'
    BY <2>1 DEF Trimmed
  <2>2. CASE ~unpruned'
    <3>1. ~unpruned /\ Held' = Held
      BY <1>2, <2>2
    <3>2. Cardinality(Held) <= Cap => Trimmed'
      BY <3>1 DEF Trimmed
    <3>3. ASSUME NEW r \in Learners, Trimming(r) PROVE Trimmed'
      <4>1. Trimming(r)'
        BY <1>1, <1>3, <3>1, <3>3, StillTrimming
      <4> QED BY <4>1 DEF Trimmed
    <3> QED BY <1>1, <3>1, <3>2, <3>3 DEF Trimmed
  <2> QED BY <2>1, <2>2
<1>5. Lasting'
  <2> SUFFICES ASSUME ~crowded' PROVE Lasting'
    BY DEF Lasting
  <2>1. \A s \in Learners : learner'[s] = Quiet
    BY <1>1 DEF Pruning
  <2>2. \A s \in Learners : learner'[s].step = "idle"
    BY <2>1 DEF Quiet
  <2>3. \A s, t \in Learners : learner'[s] # Quiet /\ learner'[t] # Quiet => s = t
    BY <2>1
  <2> QED BY <1>1, <1>2, <2>2, <2>3 DEF Lasting, Quiet
<1> QED BY <1>3, <1>4, <1>5 DEF MemoryInv

\* The rows are counted against the cap.
LEMMA CountKeeps ==
    ASSUME MemoryInv, NEW r \in Learners, CountRows(r)
    PROVE  MemoryInv'
<1> DEFINE n == Len(recent) - Cap
           l == IF Len(recent) <= Cap THEN Quiet
                ELSE [learner[r] EXCEPT !.step = "find", !.excess = n]
<1>1. /\ MemoryShape /\ Lasting /\ learner[r].step = "count" /\ learner' = [learner EXCEPT ![r] = l]
      /\ UNCHANGED <<recent, newest, crowded>> /\ ~unpruned' /\ unpruned' \in BOOLEAN
      /\ crowded' \in BOOLEAN /\ recent \in Seq(Lessons) /\ Distinct(recent)
      /\ learner[r] \in [step : {"idle", "count", "find", "delete"},
                         excess : Nat, stale : SUBSET Lessons]
  BY DEF MemoryInv, MemoryShape, CountRows
<1>2. /\ Cardinality(Held) = Len(recent) /\ Len(recent) \in Nat /\ Cap \in Nat /\ Cap # 0
  BY <1>1, HeldIs, LearnedMemoryAssumption
<1>3. ~(Len(recent) <= Cap) => /\ n \in Nat /\ n < Len(recent) /\ Cardinality(Held) <= Cap + n
                               /\ l.step = "find" /\ l.excess = n
  BY <1>1, <1>2
<1>4. Len(recent) <= Cap => l = Quiet /\ l.step = "idle"
  BY DEF Quiet
<1>5. l \in [step : {"idle", "count", "find", "delete"}, excess : Nat, stale : SUBSET Lessons]
  <2>1. Quiet \in [step : {"idle", "count", "find", "delete"}, excess : Nat, stale : SUBSET Lessons]
    BY DEF Quiet
  <2>2. ~(Len(recent) <= Cap) => n \in Nat
    BY <1>2
  <2> HIDE DEF n
  <2>3. CASE Len(recent) <= Cap
    BY <2>1, <2>3
  <2>4. CASE ~(Len(recent) <= Cap)
    BY <1>1, <2>2, <2>4
  <2> QED BY <2>3, <2>4
<1> HIDE DEF n, l
<1>6. l.step = "idle" => l = Quiet
  BY <1>3, <1>4
<1>7. /\ MemoryShape' /\ learner'[r] = l
      /\ \A s \in Learners \ {r} : learner'[s] = learner[s]
  BY <1>1, <1>5, <1>6, OneLearner
<1>8. Held' = Held
  BY <1>1 DEF Held
<1>9. Trimmed'
  <2>1. CASE Len(recent) <= Cap
    BY <1>2, <1>8, <2>1 DEF Trimmed
  <2>2. CASE ~(Len(recent) <= Cap)
    <3>1. learner'[r].step = "find" /\ Cardinality(Held') <= Cap + learner'[r].excess
      BY <1>3, <1>7, <1>8, <2>2
    <3>2. Trimming(r)'
      BY <3>1 DEF Trimming
    <3> QED BY <3>2 DEF Trimmed
  <2> QED BY <2>1, <2>2
<1>10. Lasting'
  <2> SUFFICES ASSUME ~crowded PROVE Lasting'
    BY <1>1 DEF Lasting
  <2>1. learner[r] # Quiet
    BY <1>1 DEF Quiet
  <2>2. \A s \in Learners : learner'[s] # Quiet => learner[s] # Quiet
    BY <1>7, <2>1
  <2>3. \A s, t \in Learners : learner'[s] # Quiet /\ learner'[t] # Quiet => s = t
    BY <1>1, <2>2 DEF Lasting
  <2>4. ASSUME newest # Nothing
        PROVE  /\ recent # << >> /\ recent[Len(recent)] = newest
               /\ \A s \in Learners :
                    /\ learner'[s].step = "find" => learner'[s].excess < Len(recent)
                    /\ learner'[s].step = "delete" => newest \notin learner'[s].stale
    <3>1. l.step # "delete" /\ (l.step = "find" => l.excess < Len(recent))
      BY <1>3, <1>4
    <3>2. /\ recent # << >> /\ recent[Len(recent)] = newest
          /\ \A s \in Learners :
               /\ learner[s].step = "find" => learner[s].excess < Len(recent)
               /\ learner[s].step = "delete" => newest \notin learner[s].stale
      BY <1>1, <2>4 DEF Lasting
    <3> QED BY <1>7, <3>1, <3>2
  <2> QED BY <1>1, <2>3, <2>4 DEF Lasting, Quiet
<1> QED BY <1>7, <1>9, <1>10 DEF MemoryInv

\* The oldest rows beyond the cap are found.
LEMMA FindKeeps ==
    ASSUME MemoryInv, NEW r \in Learners, FindStale(r)
    PROVE  MemoryInv'
<1> DEFINE n == learner[r].excess
           l == [learner[r] EXCEPT !.step = "delete", !.stale = Oldest(n)]
<1>1. /\ MemoryShape /\ Lasting /\ Trimmed /\ learner[r].step = "find"
      /\ UNCHANGED <<recent, newest, unpruned, crowded>> /\ unpruned' \in BOOLEAN
      /\ crowded' \in BOOLEAN /\ recent \in Seq(Lessons) /\ Distinct(recent)
      /\ learner[r] \in [step : {"idle", "count", "find", "delete"},
                         excess : Nat, stale : SUBSET Lessons]
      /\ learner' = [learner EXCEPT ![r].step = "delete", ![r].stale = Oldest(n)]
      /\ learner \in [Learners -> [step : {"idle", "count", "find", "delete"},
                                   excess : Nat, stale : SUBSET Lessons]]
  BY DEF MemoryInv, MemoryShape, FindStale
<1>2. n \in Nat
  BY <1>1
<1>3. /\ Oldest(n) \in SUBSET Lessons
      /\ Len(recent) <= Cap + n => Cardinality(Held \ Oldest(n)) <= Cap
      /\ n < Len(recent) => recent[Len(recent)] \notin Oldest(n)
  BY <1>1, <1>2, OldestAreFew
<1>4. /\ l \in [step : {"idle", "count", "find", "delete"}, excess : Nat, stale : SUBSET Lessons]
      /\ l.step = "delete" /\ l.stale = Oldest(n)
  BY <1>1, <1>3
<1>5. learner' = [learner EXCEPT ![r] = l]
  BY <1>1
<1> HIDE DEF l
<1>6. /\ MemoryShape' /\ learner'[r] = l
      /\ \A s \in Learners \ {r} : learner'[s] = learner[s]
  BY <1>1, <1>4, <1>5, OneLearner
<1>7. Held' = Held /\ Cardinality(Held) = Len(recent)
  BY <1>1, HeldIs DEF Held
<1>8. Trimmed'
  <2>1. ASSUME NEW s \in Learners, Trimming(s) PROVE Trimming(s)'
    <3>1. CASE s = r
      <4>1. Cardinality(Held \ Oldest(n)) <= Cap
        BY <1>1, <1>3, <1>7, <2>1, <3>1 DEF Trimming
      <4> QED BY <1>4, <1>6, <1>7, <3>1, <4>1 DEF Trimming
    <3>2. CASE s # r
      BY <1>6, <1>7, <2>1, <3>2 DEF Trimming
    <3> QED BY <3>1, <3>2
  <2> QED BY <1>1, <1>7, <2>1 DEF Trimmed
<1>9. Lasting'
  <2> SUFFICES ASSUME ~crowded PROVE Lasting'
    BY <1>1 DEF Lasting
  <2>1. learner[r] # Quiet
    BY <1>1 DEF Quiet
  <2>2. \A s \in Learners : learner'[s] # Quiet => learner[s] # Quiet
    BY <1>6, <2>1
  <2>3. \A s, t \in Learners : learner'[s] # Quiet /\ learner'[t] # Quiet => s = t
    BY <1>1, <2>2 DEF Lasting
  <2>4. ASSUME newest # Nothing
        PROVE  /\ recent # << >> /\ recent[Len(recent)] = newest
               /\ \A s \in Learners :
                    /\ learner'[s].step = "find" => learner'[s].excess < Len(recent)
                    /\ learner'[s].step = "delete" => newest \notin learner'[s].stale
    <3>1. /\ recent # << >> /\ recent[Len(recent)] = newest
          /\ \A s \in Learners :
               /\ learner[s].step = "find" => learner[s].excess < Len(recent)
               /\ learner[s].step = "delete" => newest \notin learner[s].stale
      BY <1>1, <2>4 DEF Lasting
    <3>2. newest \notin l.stale
      BY <1>1, <1>3, <1>4, <3>1
    <3> QED BY <1>4, <1>6, <3>1, <3>2
  <2> QED BY <1>1, <2>3, <2>4 DEF Lasting, Quiet
<1> QED BY <1>6, <1>8, <1>9 DEF MemoryInv

\* The rows found are deleted by their ids.
LEMMA DeleteStaleKeeps ==
    ASSUME MemoryInv, NEW r \in Learners, DeleteStale(r)
    PROVE  MemoryInv'
<1> DEFINE gone == learner[r].stale
           ls == [learner EXCEPT ![r] = Quiet]
<1>1. /\ MemoryShape /\ Lasting /\ Trimmed /\ learner[r].step = "delete"
      /\ UNCHANGED <<newest, unpruned, crowded>> /\ unpruned' \in BOOLEAN
      /\ crowded' \in BOOLEAN /\ Discard(gone, ls)
      /\ learner \in [Learners -> [step : {"idle", "count", "find", "delete"},
                                   excess : Nat, stale : SUBSET Lessons]]
      /\ \A s \in Learners : learner[s].step = "idle" => learner[s] = Quiet
  BY DEF MemoryInv, MemoryShape, DeleteStale
<1>2. Quiet \in [step : {"idle", "count", "find", "delete"}, excess : Nat, stale : SUBSET Lessons]
  BY DEF Quiet
<1>3. /\ ls \in [Learners -> [step : {"idle", "count", "find", "delete"},
                              excess : Nat, stale : SUBSET Lessons]]
      /\ ls[r] = Quiet /\ \A s \in Learners \ {r} : ls[s] = learner[s]
  BY <1>1, <1>2
<1>4. \A s \in Learners : ls[s].step = "idle" => ls[s] = Quiet
  BY <1>1, <1>3
<1> HIDE DEF ls
<1>5. /\ MemoryShape' /\ Held' = Held \ gone
      /\ \A s \in Learners :
           /\ learner'[s].step = ls[s].step /\ learner'[s].excess = ls[s].excess
           /\ learner'[s].stale = ls[s].stale \ gone
           /\ learner'[s] # Quiet => ls[s] # Quiet
      /\ recent # << >> /\ recent[Len(recent)] \notin gone =>
           recent' # << >> /\ recent'[Len(recent')] = recent[Len(recent)]
  BY <1>1, <1>3, <1>4, DiscardIs
<1>6. Trimmed'
  <2>1. ASSUME NEW s \in Learners, Trimming(s) PROVE Trimmed'
    <3>1. CASE s = r
      <4>1. Cardinality(Held \ gone) <= Cap
        BY <1>1, <2>1, <3>1 DEF Trimming
      <4> QED BY <1>5, <4>1 DEF Trimmed
    <3>2. CASE s # r
      <4>1. /\ learner'[s].step = learner[s].step /\ learner'[s].excess = learner[s].excess
            /\ learner'[s].stale = learner[s].stale \ gone
        BY <1>3, <1>5, <3>2
      <4>2. Held' \ learner'[s].stale \subseteq Held \ learner[s].stale /\ Held' \subseteq Held
        BY <1>5, <4>1
      <4>3. Trimming(s)'
        BY <1>1, <1>5, <2>1, <4>1, <4>2, StillTrimming
      <4> QED BY <4>3 DEF Trimmed
    <3> QED BY <3>1, <3>2
  <2>2. ASSUME Cardinality(Held) <= Cap PROVE Trimmed'
    <3>1. /\ Cardinality(Held') \in Nat /\ Cardinality(Held) \in Nat
          /\ Cardinality(Held') <= Cardinality(Held) /\ Cap \in Nat
      BY <1>1, <1>5, HeldIs, LearnedMemoryAssumption
    <3>2. Cardinality(Held') <= Cap
      BY <2>2, <3>1
    <3> QED BY <3>2 DEF Trimmed
  <2> QED BY <1>1, <2>1, <2>2 DEF Trimmed
<1>7. Lasting'
  <2> SUFFICES ASSUME ~crowded PROVE Lasting'
    BY <1>1 DEF Lasting
  <2>1. learner[r] # Quiet
    BY <1>1 DEF Quiet
  <2>2. \A s \in Learners : ls[s] = Quiet
    <3> SUFFICES ASSUME NEW s \in Learners, s # r PROVE learner[s] = Quiet
      BY <1>3
    <3> QED BY <1>1, <2>1 DEF Lasting
  <2>3. \A s \in Learners : learner'[s] = Quiet
    BY <1>5, <2>2
  <2>4. \A s \in Learners : learner'[s].step = "idle"
    BY <2>3 DEF Quiet
  <2>5. \A s, t \in Learners : learner'[s] # Quiet /\ learner'[t] # Quiet => s = t
    BY <2>3
  <2>6. newest # Nothing => recent' # << >> /\ recent'[Len(recent')] = newest
    BY <1>1, <1>5 DEF Lasting
  <2> QED BY <1>1, <2>4, <2>5, <2>6 DEF Lasting, Quiet
<1> QED BY <1>5, <1>6, <1>7 DEF MemoryInv

\* A pruning that fails is one the memory goes without.
LEMMA PruneFailsKeeps ==
    ASSUME MemoryInv, NEW r \in Learners, PruneFails(r)
    PROVE  MemoryInv'
<1>1. /\ MemoryShape /\ Lasting /\ learner[r] # Quiet /\ unpruned' /\ unpruned' \in BOOLEAN
      /\ UNCHANGED <<recent, newest, crowded>> /\ learner' = [learner EXCEPT ![r] = Quiet]
      /\ crowded' \in BOOLEAN /\ recent \in Seq(Lessons) /\ Distinct(recent)
  BY DEF MemoryInv, MemoryShape, PruneFails
<1>2. /\ Quiet \in [step : {"idle", "count", "find", "delete"}, excess : Nat, stale : SUBSET Lessons]
      /\ Quiet.step = "idle"
  BY DEF Quiet
<1>3. /\ MemoryShape' /\ learner'[r] = Quiet
      /\ \A s \in Learners \ {r} : learner'[s] = learner[s]
  <2> DEFINE l == Quiet
  <2>1. l.step = "idle" => l = Quiet
    OBVIOUS
  <2> HIDE DEF l
  <2>2. /\ MemoryShape' /\ learner'[r] = l
        /\ \A s \in Learners \ {r} : learner'[s] = learner[s]
    <3>1. /\ l \in [step : {"idle", "count", "find", "delete"}, excess : Nat, stale : SUBSET Lessons]
          /\ learner' = [learner EXCEPT ![r] = l]
      BY <1>1, <1>2 DEF l
    <3> QED BY <1>1, <2>1, <3>1, OneLearner
  <2> QED BY <2>2 DEF l
<1>4. Trimmed'
  BY <1>1 DEF Trimmed
<1>5. Lasting'
  <2> SUFFICES ASSUME ~crowded PROVE Lasting'
    BY <1>1 DEF Lasting
  <2>1. \A s \in Learners : learner'[s] = Quiet \/ learner'[s] = learner[s]
    BY <1>3
  <2>2. \A s, t \in Learners : learner'[s] # Quiet /\ learner'[t] # Quiet => s = t
    BY <1>1, <2>1 DEF Lasting
  <2>3. newest # Nothing =>
          /\ recent # << >> /\ recent[Len(recent)] = newest
          /\ \A s \in Learners :
               /\ learner'[s].step = "find" => learner'[s].excess < Len(recent)
               /\ learner'[s].step = "delete" => newest \notin learner'[s].stale
    BY <1>1, <1>2, <2>1 DEF Lasting
  <2> QED BY <1>1, <2>2, <2>3 DEF Lasting, Quiet
<1> QED BY <1>3, <1>4, <1>5 DEF MemoryInv

\* A row is deleted from the settings page.
LEMMA ForgetKeeps ==
    ASSUME MemoryInv, NEW k \in Lessons, Forget(k)
    PROVE  MemoryInv'
<1> DEFINE gone == {k}
<1>1. /\ MemoryShape /\ Lasting /\ Trimmed /\ unpruned' = unpruned /\ unpruned' \in BOOLEAN
      /\ newest' = (IF newest = k THEN Nothing ELSE newest)
      /\ crowded' = (crowded \/ Pruning) /\ crowded' \in BOOLEAN /\ Discard(gone, learner)
      /\ learner \in [Learners -> [step : {"idle", "count", "find", "delete"},
                                   excess : Nat, stale : SUBSET Lessons]]
      /\ \A s \in Learners : learner[s].step = "idle" => learner[s] = Quiet
  BY DEF MemoryInv, MemoryShape, Forget
<1> HIDE DEF gone
<1>2. /\ MemoryShape' /\ Held' = Held \ gone
      /\ \A s \in Learners :
           /\ learner'[s].step = learner[s].step /\ learner'[s].excess = learner[s].excess
           /\ learner'[s].stale = learner[s].stale \ gone
           /\ learner'[s] # Quiet => learner[s] # Quiet
      /\ recent # << >> /\ recent[Len(recent)] \notin gone =>
           recent' # << >> /\ recent'[Len(recent')] = recent[Len(recent)]
  BY <1>1, DiscardIs
<1>3. Trimmed'
  <2>1. ASSUME NEW s \in Learners, Trimming(s) PROVE Trimmed'
    <3>1. Held' \ learner'[s].stale \subseteq Held \ learner[s].stale /\ Held' \subseteq Held
      BY <1>2
    <3>2. Trimming(s)'
      BY <1>1, <1>2, <2>1, <3>1, StillTrimming
    <3> QED BY <3>2 DEF Trimmed
  <2>2. ASSUME Cardinality(Held) <= Cap PROVE Trimmed'
    <3>1. /\ Cardinality(Held') \in Nat /\ Cardinality(Held) \in Nat
          /\ Cardinality(Held') <= Cardinality(Held) /\ Cap \in Nat
      BY <1>1, <1>2, HeldIs, LearnedMemoryAssumption
    <3>2. Cardinality(Held') <= Cap
      BY <2>2, <3>1
    <3> QED BY <3>2 DEF Trimmed
  <2> QED BY <1>1, <2>1, <2>2 DEF Trimmed
<1>4. Lasting'
  <2> SUFFICES ASSUME ~crowded, ~Pruning PROVE Lasting'
    BY <1>1 DEF Lasting
  <2>1. \A s \in Learners : learner'[s] = Quiet
    BY <1>2 DEF Pruning
  <2>2. \A s \in Learners : learner'[s].step = "idle"
    BY <2>1 DEF Quiet
  <2>3. \A s, t \in Learners : learner'[s] # Quiet /\ learner'[t] # Quiet => s = t
    BY <2>1
  <2>4. newest' # Nothing => recent' # << >> /\ recent'[Len(recent')] = newest'
    <3> SUFFICES ASSUME newest' # Nothing PROVE recent' # << >> /\ recent'[Len(recent')] = newest'
      OBVIOUS
    <3>1. newest' = newest /\ newest # k /\ newest # Nothing
      BY <1>1
    <3>2. recent # << >> /\ recent[Len(recent)] = newest
      BY <1>1, <3>1 DEF Lasting
    <3>3. recent[Len(recent)] \notin gone
      BY <3>1, <3>2 DEF gone
    <3> QED BY <1>2, <3>1, <3>2, <3>3
  <2> QED BY <2>2, <2>3, <2>4 DEF Lasting, Quiet
<1> QED BY <1>2, <1>3, <1>4 DEF MemoryInv

\* Nothing is learned at first.
LEMMA InitMemoryInv == MemoryInit => MemoryInv
<1> SUFFICES ASSUME MemoryInit PROVE MemoryInv
  OBVIOUS
<1>1. /\ recent = << >> /\ learner = [r \in Learners |-> Quiet] /\ newest = Nothing
      /\ unpruned = FALSE /\ crowded = FALSE
  BY DEF MemoryInit
<1>2. /\ Quiet \in [step : {"idle", "count", "find", "delete"}, excess : Nat, stale : SUBSET Lessons]
  BY DEF Quiet
<1>3. MemoryShape
  <2>1. recent \in Seq(Lessons) /\ Distinct(recent)
    BY <1>1 DEF Distinct
  <2>2. learner \in [Learners -> [step : {"idle", "count", "find", "delete"},
                                  excess : Nat, stale : SUBSET Lessons]]
    BY <1>1, <1>2
  <2>3. \A r \in Learners : learner[r] = Quiet
    BY <1>1
  <2> QED BY <1>1, <2>1, <2>2, <2>3 DEF MemoryShape
<1>4. Trimmed
  <2>1. Cardinality(Held) = 0
    BY <1>1, <1>3, HeldIs
  <2> QED BY <2>1, LearnedMemoryAssumption DEF Trimmed
<1>5. Lasting
  BY <1>1 DEF Lasting
<1> QED BY <1>3, <1>4, <1>5 DEF MemoryInv

\* Every step keeps what is learned in order.
LEMMA NextMemoryInv == MemoryInv /\ [MemoryNext]_memoryVars => MemoryInv'
<1> SUFFICES ASSUME MemoryInv, [MemoryNext]_memoryVars PROVE MemoryInv'
  OBVIOUS
<1>1. CASE UNCHANGED memoryVars
  <2>1. UNCHANGED <<recent, learner, newest, unpruned, crowded>>
    BY <1>1 DEF memoryVars
  <2>2. MemoryShape'
    BY <2>1 DEF MemoryInv, MemoryShape, Distinct, Quiet
  <2>3. Trimmed'
    BY <2>1 DEF MemoryInv, Trimmed, Trimming, Held
  <2>4. Lasting'
    BY <2>1 DEF MemoryInv, Lasting, Quiet
  <2> QED BY <2>2, <2>3, <2>4 DEF MemoryInv
<1>2. ASSUME NEW r \in Learners, NEW k \in Lessons, Learn(r, k) PROVE MemoryInv'
  BY <1>2, LearnKeeps
<1>3. ASSUME NEW r \in Learners, CountRows(r) PROVE MemoryInv'
  BY <1>3, CountKeeps
<1>4. ASSUME NEW r \in Learners, FindStale(r) PROVE MemoryInv'
  BY <1>4, FindKeeps
<1>5. ASSUME NEW r \in Learners, DeleteStale(r) PROVE MemoryInv'
  BY <1>5, DeleteStaleKeeps
<1>6. ASSUME NEW r \in Learners, PruneFails(r) PROVE MemoryInv'
  BY <1>6, PruneFailsKeeps
<1>7. ASSUME NEW k \in Lessons, LearnUnattended(k) PROVE MemoryInv'
  BY <1>7, ConfirmKeeps DEF LearnUnattended
<1>8. ASSUME NEW k \in Lessons, Touch(k) PROVE MemoryInv'
  <2>1. unpruned' \in BOOLEAN
    BY <1>8 DEF Touch, MemoryInv, MemoryShape
  <2> QED BY <1>8, <2>1, ConfirmKeeps DEF Touch
<1>9. ASSUME NEW k \in Lessons, Forget(k) PROVE MemoryInv'
  BY <1>9, ForgetKeeps
<1> QED BY <1>1, <1>2, <1>3, <1>4, <1>5, <1>6, <1>7, <1>8, <1>9 DEF MemoryNext

\* When no pruning is under way the memory is within its cap and holds the lesson
\* confirmed last, however many requests learn, prune and forget, unless
\* something was learned that no pruning counted, or the last lesson came, or
\* another was forgotten, in the middle of a pruning.
THEOREM MemorySettles == MemorySpec => []PruningSettles
<1>1. MemoryInv => PruningSettles
  <2> SUFFICES ASSUME MemoryInv, ~Pruning
               PROVE  (unpruned \/ Len(recent) <= Cap) /\ (crowded \/ newest \in Held \cup {Nothing})
    BY DEF PruningSettles
  <2>1. \A r \in Learners : learner[r].step = "idle"
    BY DEF Pruning, Quiet
  <2>2. Cardinality(Held) = Len(recent) /\ (recent # << >> => recent[Len(recent)] \in Held)
    BY HeldIs DEF MemoryInv
  <2>3. unpruned \/ Cardinality(Held) <= Cap
    BY <2>1 DEF MemoryInv, Trimmed, Trimming
  <2>4. crowded \/ newest = Nothing \/ (recent # << >> /\ recent[Len(recent)] = newest)
    BY DEF MemoryInv, Lasting
  <2> QED BY <2>2, <2>3, <2>4
<1> QED BY <1>1, InitMemoryInv, NextMemoryInv, PTL DEF MemorySpec

-----------------------------------------------------------------------------
(* The parts together                                                      *)

\* A behaviour of the workspace is one of each of its parts: the parts share no
\* state, so what holds of each alone holds of them together.
THEOREM PartsRunAlone ==
    WorkspaceSpec => MembersSpec /\ MeterSpec /\ QuotasSpec /\ IngestSpec /\ BooksSpec /\ MemorySpec
<1>1. WorkspaceInit => /\ MembersInit /\ MeterInit /\ QuotasInit
                       /\ IngestInit /\ BooksInit /\ MemoryInit
  BY DEF WorkspaceInit
<1>2. [WorkspaceNext]_workspaceVars => [MembersNext]_membersVars /\ [MeterNext]_meterVars
  BY DEF WorkspaceNext, workspaceVars
<1>3. [WorkspaceNext]_workspaceVars => [QuotasNext]_quotaVars /\ [IngestNext]_ingestVars
  BY DEF WorkspaceNext, workspaceVars
<1>4. [WorkspaceNext]_workspaceVars => [BooksNext]_booksVars /\ [MemoryNext]_memoryVars
  BY DEF WorkspaceNext, workspaceVars
<1> QED BY <1>1, <1>2, <1>3, <1>4, PTL
      DEF WorkspaceSpec, MembersSpec, MeterSpec, QuotasSpec, IngestSpec, BooksSpec, MemorySpec

\* A person has one membership and the meter never falls below zero, however the
\* requests that write them overlap.
THEOREM WorkspaceTypes == WorkspaceSpec => []WorkspaceTypeOK
<1>1. MembersTypeOK /\ MeterTypeOK => WorkspaceTypeOK
  BY DEF WorkspaceTypeOK
<1> QED BY <1>1, PartsRunAlone, MembersTypes, MeterTypes, PTL

\* So the whole workspace keeps, in every state, what each of its parts promises of
\* seats, accounts, the meter, the mapping check, the chain of periods and what it
\* has learned, whichever of their requests come in whichever order.
THEOREM WorkspaceKeepsItsPromises ==
    ASSUME SeatLimit + Cardinality(Clerks) > 1
    PROVE  WorkspaceSpec => [](/\ SeatsOverrunBounded /\ AdminsKeepTheirSeats
                               /\ MonthOverrunBounded /\ RowsAreMetered
                               /\ CapsOverrunBounded /\ UsedAccountsAreSeated /\ TwinsBounded
                               /\ FailedExtractsPauseMatching
                               /\ OwedChequesAreDeductedOnce /\ PruningSettles)
<1>1. MembersSpec => []SeatsOverrunBounded
  BY SeatsStayBounded
<1>2. MembersSpec => []AdminsKeepTheirSeats
  BY AdminsSeated
<1>3. MeterSpec => []MonthOverrunBounded /\ []RowsAreMetered
  BY OverrunStaysBounded, RowsStayMetered
<1>4. QuotasSpec => []CapsOverrunBounded /\ []UsedAccountsAreSeated /\ []TwinsBounded
  BY CapsHoldUpToRaces, UsedAccountsKeepSeats, TwinsNeedARace
<1>5. IngestSpec => []FailedExtractsPauseMatching
  BY FailedExtractsBlock
<1>6. BooksSpec => []OwedChequesAreDeductedOnce
  BY OwedChequesDeducted
<1>7. MemorySpec => []PruningSettles
  BY MemorySettles
<1> QED BY <1>1, <1>2, <1>3, <1>4, <1>5, <1>6, <1>7, PartsRunAlone, PTL

\* And no step of any part empties a workspace but for removals side by side, lets
\* in somebody who was not asked, or undoes a confirmation but from an older read.
THEOREM WorkspaceMoves ==
    WorkspaceSpec => EmptyOnlySideBySide /\ NobodyJoinsUninvited /\ ConfirmationsStick
  BY PartsRunAlone, LastMemberStays, InvitationsAdmit, ConfirmationsStay
==============================================================================
