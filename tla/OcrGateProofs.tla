--------------------------- MODULE OcrGateProofs ----------------------------
(***************************************************************************)
(* Proofs about OcrGate, for every finite set of invocations and every     *)
(* limit.  The inductive invariant is GateInv: the counter, the queue and  *)
(* the program counters only make sense together.                          *)
(***************************************************************************)
EXTENDS OcrGate, FiniteSetTheorems, SequenceTheorems, TLAPS

\* A running recognition is its invocation's own, or one that OCR_TIMEOUT
\* left behind.
OrphansTimedOut ==
  \A c \in recognizing :
    \/ pc[c] = "recognizing"
    \/ pc[c] \in {"settling", "done"} /\ result[c] = "OCR_TIMEOUT"

GateInv ==
  TypeOK /\ SlotAccounting /\ NoIdleSlot /\ QueueIsTheWaiters /\ OrphansTimedOut

-----------------------------------------------------------------------------
\* Removing a waiter's entry from the queue: the entries before it stay, those
\* after it move up by one.
LEMMA SplicedElements ==
  ASSUME TypeOK, QueueIsTheWaiters, NEW c \in Calls, pc[c] = "waiting"
  PROVE  \E k \in 1..Len(queue) :
           /\ queue[k] = c
           /\ Spliced(c) \in Seq(Calls)
           /\ Len(Spliced(c)) = Len(queue) - 1
           /\ \A i \in 1..(Len(queue) - 1) :
                Spliced(c)[i] = IF i < k THEN queue[i] ELSE queue[i + 1]
<1> DEFINE k == CHOOSE i \in 1..Len(queue) : queue[i] = c
<1>1. k \in 1..Len(queue) /\ queue[k] = c
  BY DEF QueueIsTheWaiters
<1>2. queue \in Seq(Calls) /\ Len(queue) \in Nat
  BY DEF TypeOK
<1> DEFINE s == SubSeq(queue, 1, k - 1)
           t == SubSeq(queue, k + 1, Len(queue))
<1>3. Spliced(c) = s \o t
  BY DEF Spliced, RemoveAt
<1> HIDE DEF k
<1>4. s \in Seq(Calls) /\ Len(s) = k - 1 /\ \A i \in 1..(k - 1) : s[i] = queue[i]
  BY <1>1, <1>2
<1>5. /\ t \in Seq(Calls) /\ Len(t) = Len(queue) - k
      /\ \A i \in 1..(Len(queue) - k) : t[i] = queue[k + i]
  BY <1>1, <1>2
<1> HIDE DEF s, t
<1>6. /\ s \o t \in Seq(Calls) /\ Len(s \o t) = Len(s) + Len(t)
      /\ \A i \in 1..(Len(s) + Len(t)) :
           (s \o t)[i] = IF i <= Len(s) THEN s[i] ELSE t[i - Len(s)]
  BY <1>4, <1>5, ConcatProperties
<1>7. ASSUME NEW i \in 1..(Len(queue) - 1)
      PROVE  (s \o t)[i] = IF i < k THEN queue[i] ELSE queue[i + 1]
  <2>1. CASE i < k
    BY <2>1, <1>1, <1>2, <1>4, <1>5, <1>6
  <2>2. CASE ~(i < k)
    <3>1. (s \o t)[i] = t[i - (k - 1)]
      BY <2>2, <1>1, <1>2, <1>4, <1>5, <1>6
    <3>2. i - (k - 1) \in 1..(Len(queue) - k)
      BY <2>2, <1>1, <1>2
    <3>3. t[i - (k - 1)] = queue[k + (i - (k - 1))] /\ k + (i - (k - 1)) = i + 1
      BY <3>2, <1>5, <1>1, <1>2
    <3> QED BY <2>2, <3>1, <3>3
  <2> QED BY <2>1, <2>2
<1>8. Spliced(c) \in Seq(Calls) /\ Len(Spliced(c)) = Len(queue) - 1
  BY <1>1, <1>2, <1>3, <1>4, <1>5, <1>6
<1>9. \A i \in 1..(Len(queue) - 1) :
        Spliced(c)[i] = IF i < k THEN queue[i] ELSE queue[i + 1]
  BY <1>3, <1>7
<1> QED
  BY <1>1, <1>8, <1>9

\* There are finitely many holders to count.
LEMMA HoldersFinite ==
  ASSUME TypeOK PROVE IsFiniteSet(Holders) /\ Cardinality(Holders) \in Nat
<1>1. Holders \in SUBSET Calls /\ IsFiniteSet(Calls)
  BY GateAssumption DEF Holders
<1>2. IsFiniteSet(Holders)
  BY <1>1, FS_Subset
<1> QED BY <1>2, FS_CardinalityType

-----------------------------------------------------------------------------
\* The invariant holds at the start.
LEMMA InitGateInv == Init => GateInv
<1> SUFFICES ASSUME Init PROVE GateInv
  OBVIOUS
<1>1. Holders = {} /\ Cardinality(Holders) = 0
  BY FS_EmptySet DEF Init, Holders
<1> QED
  BY <1>1, GateAssumption DEF GateInv, Init, TypeOK, SlotAccounting, NoIdleSlot,
     QueueIsTheWaiters, OrphansTimedOut, Positions, Results

\* An invocation that finds a slot free is counted at once.
LEMMA AcquireFreeKeeps ==
  ASSUME GateInv, NEW c \in Calls, AcquireFree(c) PROVE GateInv'
<1> USE GateAssumption DEF GateInv
<1>1. TypeOK'
  BY DEF TypeOK, AcquireFree, Positions
<1>2. Holders' = Holders \cup {c} /\ c \notin Holders
  BY DEF Holders, AcquireFree, TypeOK
<1>3. SlotAccounting'
  BY <1>2, HoldersFinite, FS_AddElement DEF SlotAccounting, AcquireFree
<1>4. NoIdleSlot'
  BY DEF NoIdleSlot, AcquireFree, TypeOK
<1>5. QueueIsTheWaiters'
  BY DEF QueueIsTheWaiters, AcquireFree, TypeOK
<1>6. OrphansTimedOut'
  BY DEF OrphansTimedOut, AcquireFree, TypeOK
<1> QED BY <1>1, <1>3, <1>4, <1>5, <1>6

\* An invocation that finds none joins the end of the queue.
LEMMA AcquireWaitKeeps ==
  ASSUME GateInv, NEW c \in Calls, AcquireWait(c) PROVE GateInv'
<1> USE GateAssumption DEF GateInv
<1>1. TypeOK'
  BY DEF TypeOK, AcquireWait, Positions
<1>2. Holders' = Holders
  BY DEF Holders, AcquireWait, TypeOK
<1>3. SlotAccounting'
  BY <1>2 DEF SlotAccounting, AcquireWait
<1>4. NoIdleSlot'
  BY DEF NoIdleSlot, AcquireWait, TypeOK
<1>5. QueueIsTheWaiters'
  <2>1. /\ Len(queue') = Len(queue) + 1
        /\ \A i \in 1..Len(queue) : queue'[i] = queue[i]
        /\ queue'[Len(queue) + 1] = c
    BY DEF AcquireWait, TypeOK
  <2>2. \A i \in 1..Len(queue) : queue[i] # c
    BY DEF QueueIsTheWaiters, AcquireWait
  <2>3. Len(queue) \in Nat
    BY DEF TypeOK
  <2>4. \A d \in Calls : pc'[d] = "waiting" <=> d = c \/ pc[d] = "waiting"
    BY DEF AcquireWait, TypeOK
  <2> QED
    BY <2>1, <2>2, <2>3, <2>4 DEF QueueIsTheWaiters
<1>6. OrphansTimedOut'
  BY DEF OrphansTimedOut, AcquireWait, TypeOK
<1> QED BY <1>1, <1>3, <1>4, <1>5, <1>6

\* An invocation that gives up leaves the queue and touches no slot.
LEMMA WaitTimeoutKeeps ==
  ASSUME GateInv, NEW c \in Calls, WaitTimeout(c) PROVE GateInv'
<1> USE GateAssumption DEF GateInv
<1>1. PICK k \in 1..Len(queue) :
        /\ queue[k] = c
        /\ queue' \in Seq(Calls)
        /\ Len(queue') = Len(queue) - 1
        /\ \A i \in 1..(Len(queue) - 1) :
             queue'[i] = IF i < k THEN queue[i] ELSE queue[i + 1]
  BY SplicedElements DEF WaitTimeout
<1>2. TypeOK'
  BY <1>1 DEF TypeOK, WaitTimeout, Positions, Results
<1>3. Holders' = Holders
  BY DEF Holders, WaitTimeout, TypeOK
<1>4. SlotAccounting'
  BY <1>3 DEF SlotAccounting, WaitTimeout
<1>5. NoIdleSlot'
  <2>1. queue # <<>>
    BY <1>1
  <2> QED BY <2>1 DEF NoIdleSlot, WaitTimeout
<1>6. QueueIsTheWaiters'
  <2>1. Len(queue) \in Nat
    BY DEF TypeOK
  <2>2. \A d \in Calls : pc'[d] = "waiting" <=> d # c /\ pc[d] = "waiting"
    BY DEF WaitTimeout, TypeOK
  <2>3. ASSUME NEW d \in Calls, d # c, NEW i \in 1..Len(queue), queue[i] = d
        PROVE  \E j \in 1..Len(queue') : queue'[j] = d
    <3>1. CASE i < k
      BY <3>1, <2>1, <2>3, <1>1
    <3>2. CASE i > k
      <4>1. i - 1 \in 1..Len(queue') /\ queue'[i - 1] = queue[(i - 1) + 1]
        BY <3>2, <2>1, <1>1
      <4> QED BY <4>1, <2>3, <2>1
    <3>3. i # k
      BY <2>3, <1>1
    <3> QED BY <3>1, <3>2, <3>3, <2>1
  <2>4. ASSUME NEW i \in 1..Len(queue')
        PROVE  \E j \in 1..Len(queue) : j # k /\ queue'[i] = queue[j]
                                       /\ j = IF i < k THEN i ELSE i + 1
    BY <2>1, <1>1
  <2>5. ASSUME NEW i \in 1..Len(queue'), NEW j \in 1..Len(queue'), queue'[i] = queue'[j]
        PROVE  i = j
    BY <2>1, <2>4, <2>5, <1>1 DEF QueueIsTheWaiters
  <2>6. ASSUME NEW d \in Calls, NEW i \in 1..Len(queue'), queue'[i] = d
        PROVE  d # c /\ pc[d] = "waiting"
    BY <2>4, <2>6, <1>1 DEF QueueIsTheWaiters
  <2> QED
    BY <2>2, <2>3, <2>5, <2>6 DEF QueueIsTheWaiters
<1>7. OrphansTimedOut'
  BY DEF OrphansTimedOut, WaitTimeout, TypeOK
<1> QED BY <1>2, <1>4, <1>5, <1>6, <1>7

\* Between its grant and its release an invocation keeps its slot and the queue.
LEMMA HolderStepKeeps ==
  ASSUME GateInv, NEW c \in Calls,
         \/ StartRecognize(c) \/ RecognizeSettles(c) \/ OcrTimeout(c) \/ LateSettle(c)
  PROVE  GateInv'
<1> USE GateAssumption DEF GateInv
<1> USE DEF StartRecognize, RecognizeSettles, OcrTimeout, LateSettle
<1>1. TypeOK'
  BY DEF TypeOK, Positions, Results
<1>2. Holders' = Holders
  BY DEF Holders, TypeOK
<1>3. SlotAccounting'
  BY <1>2 DEF SlotAccounting
<1>4. NoIdleSlot'
  BY DEF NoIdleSlot
<1>5. QueueIsTheWaiters'
  <2>1. queue' = queue /\ \A d \in Calls : pc'[d] = "waiting" <=> pc[d] = "waiting"
    BY DEF TypeOK
  <2> QED BY <2>1 DEF QueueIsTheWaiters
<1>6. OrphansTimedOut'
  BY DEF OrphansTimedOut, TypeOK
<1> QED BY <1>1, <1>3, <1>4, <1>5, <1>6

\* release() with somebody waiting: the slot changes hands.
LEMMA HandOverKeeps ==
  ASSUME GateInv, NEW c \in Calls, Release(c), queue # <<>>
  PROVE  /\ GateInv'
         /\ Head(queue) \in Calls /\ pc[Head(queue)] = "waiting"
         /\ Holders' = (Holders \ {c}) \cup {Head(queue)}
<1> USE GateAssumption DEF GateInv
<1> DEFINE h == Head(queue)
<1>1. /\ Len(queue) \in Nat \ {0} /\ h = queue[1] /\ h \in Calls
      /\ Tail(queue) \in Seq(Calls) /\ Len(Tail(queue)) = Len(queue) - 1
      /\ \A i \in 1..(Len(queue) - 1) : Tail(queue)[i] = queue[i + 1]
  BY DEF TypeOK
<1>2. pc[h] = "waiting" /\ h # c
  BY <1>1 DEF QueueIsTheWaiters, Release
<1> HIDE DEF h
<1>3. /\ queue' = Tail(queue) /\ active' = active
      /\ pc' = [pc EXCEPT ![c] = "done", ![h] = "granted"]
      /\ pc[c] = "settling" /\ UNCHANGED <<result, recognizing>>
  BY DEF Release, h
<1>4. TypeOK'
  BY <1>1, <1>3 DEF TypeOK, Positions
<1>5. Holders' = (Holders \ {c}) \cup {h}
  BY <1>1, <1>2, <1>3 DEF Holders, TypeOK
<1>6. SlotAccounting'
  <2>1. c \in Holders /\ h \notin Holders
    BY <1>2, <1>3 DEF Holders
  <2>2. /\ IsFiniteSet(Holders \ {c})
        /\ Cardinality(Holders \ {c}) = Cardinality(Holders) - 1
    BY <2>1, HoldersFinite, FS_RemoveElement
  <2>3. Cardinality(Holders') = Cardinality(Holders \ {c}) + 1
    BY <1>5, <2>1, <2>2, FS_AddElement
  <2> QED BY <1>3, <2>2, <2>3, HoldersFinite DEF SlotAccounting
<1>7. NoIdleSlot'
  BY <1>3 DEF NoIdleSlot
<1>8. QueueIsTheWaiters'
  <2>1. \A d \in Calls : pc'[d] = "waiting" <=> d # h /\ pc[d] = "waiting"
    BY <1>2, <1>3 DEF TypeOK
  <2>2. ASSUME NEW d \in Calls, d # h, NEW i \in 1..Len(queue), queue[i] = d
        PROVE  \E j \in 1..Len(queue') : queue'[j] = d
    <3>1. i # 1
      BY <1>1, <2>2
    <3>2. i - 1 \in 1..Len(queue') /\ queue'[i - 1] = queue[(i - 1) + 1]
      BY <1>1, <1>3, <3>1
    <3> QED BY <2>2, <3>2, <1>1
  <2>3. ASSUME NEW i \in 1..Len(queue')
        PROVE  i + 1 \in 1..Len(queue) /\ queue'[i] = queue[i + 1] /\ i + 1 # 1
    BY <1>1, <1>3
  <2>4. ASSUME NEW i \in 1..Len(queue'), NEW j \in 1..Len(queue'), queue'[i] = queue'[j]
        PROVE  i = j
    BY <1>1, <2>3, <2>4 DEF QueueIsTheWaiters
  <2>5. ASSUME NEW d \in Calls, NEW i \in 1..Len(queue'), queue'[i] = d
        PROVE  d # h /\ pc[d] = "waiting"
    BY <1>1, <2>3, <2>5 DEF QueueIsTheWaiters
  <2> QED BY <2>1, <2>2, <2>4, <2>5 DEF QueueIsTheWaiters
<1>9. OrphansTimedOut'
  BY <1>2, <1>3 DEF OrphansTimedOut, TypeOK
<1> QED BY <1>1, <1>2, <1>4, <1>5, <1>6, <1>7, <1>8, <1>9 DEF h

\* release() with nobody waiting: the slot becomes free.
LEMMA FreeSlotKeeps ==
  ASSUME GateInv, NEW c \in Calls, Release(c), queue = <<>>
  PROVE  GateInv' /\ Holders' = Holders \ {c}
<1> USE GateAssumption DEF GateInv
<1>1. Holders' = Holders \ {c} /\ c \in Holders
  BY DEF Holders, Release, TypeOK
<1>2. /\ Cardinality(Holders \ {c}) = Cardinality(Holders) - 1
      /\ Cardinality(Holders \ {c}) \in Nat
  BY <1>1, HoldersFinite, FS_RemoveElement, FS_CardinalityType
<1>3. active > 0 /\ active' = active - 1
  BY <1>2, HoldersFinite DEF Release, SlotAccounting
<1>4. TypeOK'
  BY <1>3 DEF TypeOK, Release, Positions
<1>5. SlotAccounting'
  BY <1>1, <1>2, <1>3 DEF SlotAccounting
<1>6. NoIdleSlot' /\ QueueIsTheWaiters' /\ OrphansTimedOut'
  BY DEF NoIdleSlot, QueueIsTheWaiters, OrphansTimedOut, Release, TypeOK
<1> QED BY <1>1, <1>4, <1>5, <1>6

\* Every step keeps the invariant, one case per action.
LEMMA NextGateInv == GateInv /\ [Next]_vars => GateInv'
<1> SUFFICES ASSUME GateInv, [Next]_vars PROVE GateInv'
  OBVIOUS
<1>1. ASSUME NEW c \in Calls, AcquireFree(c) PROVE GateInv'
  BY <1>1, AcquireFreeKeeps
<1>2. ASSUME NEW c \in Calls, AcquireWait(c) PROVE GateInv'
  BY <1>2, AcquireWaitKeeps
<1>3. ASSUME NEW c \in Calls, WaitTimeout(c) PROVE GateInv'
  BY <1>3, WaitTimeoutKeeps
<1>4. ASSUME NEW c \in Calls,
             \/ StartRecognize(c) \/ RecognizeSettles(c) \/ OcrTimeout(c) \/ LateSettle(c)
      PROVE  GateInv'
  BY <1>4, HolderStepKeeps
<1>5. ASSUME NEW c \in Calls, Release(c) PROVE GateInv'
  BY <1>5, HandOverKeeps, FreeSlotKeeps
<1>6. CASE UNCHANGED vars
  BY <1>6 DEF vars, GateInv, TypeOK, SlotAccounting, Holders, NoIdleSlot,
     QueueIsTheWaiters, OrphansTimedOut
<1> QED
  BY <1>1, <1>2, <1>3, <1>4, <1>5, <1>6 DEF Next, Proceed, Quiet

\* The inductive invariant holds for every number of invocations and slots:
\* the counter is exact, no slot idles beside a waiter, the queue is the
\* waiters, and only timed-out recognitions outlive their invocation.
THEOREM GateInvariant == Spec => []GateInv
<1>1. Init => GateInv
  BY InitGateInv
<1>2. GateInv /\ [Next]_vars => GateInv'
  BY NextGateInv
<1> QED BY <1>1, <1>2, PTL DEF Spec

\* No path through recognizeWithOcrGate loses a slot or returns one twice.
THEOREM SlotsAccounted == Spec => [](TypeOK /\ SlotAccounting)
<1>1. GateInv => TypeOK /\ SlotAccounting
  BY DEF GateInv
<1> QED BY <1>1, GateInvariant, PTL

\* release() never strands a waiter: a slot is idle only with an empty queue.
THEOREM SlotsNeverIdle == Spec => []NoIdleSlot
<1>1. GateInv => NoIdleSlot
  BY DEF GateInv
<1> QED BY <1>1, GateInvariant, PTL

\* Until something times out, at most MaxConcurrent recognitions run.
THEOREM RecognitionsCapped == Spec => []CapUntilTimeout
<1> DEFINE heard == {c \in recognizing : result[c] # "OCR_TIMEOUT"}
<1>1. ASSUME GateInv PROVE CapUntilTimeout
  <2>1. heard \in SUBSET Holders
    BY <1>1 DEF GateInv, TypeOK, OrphansTimedOut, Holders
  <2>2. Cardinality(heard) <= Cardinality(Holders) /\ Cardinality(heard) \in Nat
    BY <1>1, <2>1, HoldersFinite, FS_Subset, FS_CardinalityType DEF GateInv
  <2>3. Cardinality(Holders) <= MaxConcurrent /\ Cardinality(Holders) \in Nat
    BY <1>1, HoldersFinite, GateAssumption DEF GateInv, TypeOK, SlotAccounting
  <2>4. Cardinality(heard) <= MaxConcurrent
    BY <2>2, <2>3, GateAssumption
  <2> QED BY <2>4 DEF CapUntilTimeout
<1> QED BY <1>1, GateInvariant, PTL

-----------------------------------------------------------------------------
\* Every step of the gate is a step of the abstract pool of slots, or none.
LEMMA StepIsPoolStep ==
  ASSUME GateInv, Next PROVE [Pool!PoolNext]_(Pool!poolVars)
<1> USE GateAssumption DEF GateInv, Pool!poolVars
<1> DEFINE waiting == {c \in Calls : pc[c] = "waiting"}
           gone    == {c \in Calls : pc[c] = "done"}
<1>1. ASSUME NEW c \in Calls, AcquireFree(c) PROVE Pool!Enter(c)
  <2>1. waiting = {}
    <3>1. queue = <<>>
      BY <1>1 DEF NoIdleSlot, AcquireFree, TypeOK
    <3> QED BY <3>1 DEF QueueIsTheWaiters
  <2>2. Cardinality(Holders) < MaxConcurrent
    BY <1>1 DEF AcquireFree, SlotAccounting
  <2>3. c \notin waiting \cup Holders \cup gone
    BY <1>1 DEF AcquireFree, Holders
  <2>4. waiting' = waiting /\ gone' = gone /\ Holders' = Holders \cup {c}
    BY <1>1 DEF AcquireFree, Holders, TypeOK
  <2> QED BY <2>1, <2>2, <2>3, <2>4 DEF Pool!Enter, Pool!Fresh, Pool!Cardinality, Cardinality
<1>2. ASSUME NEW c \in Calls, AcquireWait(c) PROVE Pool!Wait(c)
  <2>1. Cardinality(Holders) = MaxConcurrent
    BY <1>2 DEF AcquireWait, SlotAccounting, TypeOK
  <2>2. c \notin waiting \cup Holders \cup gone
    BY <1>2 DEF AcquireWait, Holders
  <2>3. waiting' = waiting \cup {c} /\ gone' = gone /\ Holders' = Holders
    BY <1>2 DEF AcquireWait, Holders, TypeOK
  <2> QED BY <2>1, <2>2, <2>3 DEF Pool!Wait, Pool!Fresh, Pool!Cardinality, Cardinality
<1>3. ASSUME NEW c \in Calls, WaitTimeout(c) PROVE Pool!GiveUp(c)
  <2>1. waiting' = waiting \ {c} /\ gone' = gone \cup {c} /\ Holders' = Holders
    BY <1>3 DEF WaitTimeout, Holders, TypeOK
  <2> QED BY <1>3, <2>1 DEF Pool!GiveUp, WaitTimeout
<1>4. ASSUME NEW c \in Calls,
             \/ StartRecognize(c) \/ RecognizeSettles(c) \/ OcrTimeout(c) \/ LateSettle(c)
      PROVE  UNCHANGED <<waiting, Holders, gone>>
  BY <1>4 DEF StartRecognize, RecognizeSettles, OcrTimeout, LateSettle, Holders, TypeOK
<1>5. ASSUME NEW c \in Calls, Release(c), queue # <<>>
      PROVE  \E d \in Calls : Pool!HandOver(c, d)
  <2> DEFINE h == Head(queue)
  <2>1. h \in Calls /\ pc[h] = "waiting" /\ Holders' = (Holders \ {c}) \cup {h}
    BY <1>5, HandOverKeeps
  <2>2. /\ pc[c] = "settling"
        /\ pc' = [pc EXCEPT ![c] = "done", ![h] = "granted"]
    BY <1>5 DEF Release
  <2> HIDE DEF h
  <2>3. waiting' = waiting \ {h} /\ gone' = gone \cup {c}
    BY <2>1, <2>2 DEF TypeOK
  <2>4. c \in Holders
    BY <2>2 DEF Holders
  <2> QED BY <2>1, <2>3, <2>4 DEF Pool!HandOver
<1>6. ASSUME NEW c \in Calls, Release(c), queue = <<>> PROVE Pool!Leave(c)
  <2>1. Holders' = Holders \ {c} /\ c \in Holders
    BY <1>6, FreeSlotKeeps DEF Release, Holders
  <2>2. waiting = {} /\ waiting' = waiting /\ gone' = gone \cup {c}
    BY <1>6 DEF Release, QueueIsTheWaiters, TypeOK
  <2> QED BY <2>1, <2>2 DEF Pool!Leave
<1>7. CASE Quiet
  BY <1>7 DEF Quiet, vars, Holders
<1>8. ASSUME NEW c \in Calls, AcquireFree(c) \/ AcquireWait(c) \/ WaitTimeout(c) \/ Release(c)
      PROVE  Pool!PoolNext
  BY <1>1, <1>2, <1>3, <1>5, <1>6, <1>8 DEF Pool!PoolNext
<1> QED BY <1>4, <1>7, <1>8 DEF Next, Proceed

\* The counter and the queue of asyncSemaphore implement a pool of slots that
\* has neither: whoever relies on the pool's promise may rely on the code.
THEOREM GateImplementsPool == Spec => ImplementsSlotPool
<1>1. Init => Pool!PoolInit
  BY DEF Init, Pool!PoolInit, Holders
<1>2. GateInv /\ [Next]_vars => [Pool!PoolNext]_(Pool!poolVars)
  <2>1. CASE Next
    BY <2>1, StepIsPoolStep
  <2>2. CASE UNCHANGED vars
    BY <2>2 DEF vars, Pool!poolVars, Holders
  <2> QED BY <2>1, <2>2
<1> QED BY <1>1, <1>2, GateInvariant, PTL DEF Spec, ImplementsSlotPool, Pool!PoolSpec

\* Slots are granted in the order in which the invocations began to wait.
THEOREM GrantsInOrder == Spec => FirstComeFirstServed
<1> DEFINE InOrder == \A c, d \in Calls :
             (pc[c] = "waiting" /\ Granted(d) /\ pc'[c] = "waiting")
               => \E i, j \in 1..Len(queue) : i < j /\ queue[i] = d /\ queue[j] = c
<1>1. ASSUME GateInv, Next PROVE InOrder
  <2> SUFFICES ASSUME NEW c \in Calls, NEW d \in Calls,
                      pc[c] = "waiting", Granted(d), pc'[c] = "waiting"
               PROVE  \E i, j \in 1..Len(queue) : i < j /\ queue[i] = d /\ queue[j] = c
    OBVIOUS
  <2>1. PICK j \in 1..Len(queue) : queue[j] = c
    BY <1>1 DEF GateInv, QueueIsTheWaiters
  <2>2. queue # <<>> /\ Len(queue) \in Nat
    BY <2>1, <1>1 DEF GateInv, TypeOK
  <2>3. ~AcquireFree(d)
    BY <2>2, <1>1, GateAssumption DEF GateInv, NoIdleSlot, TypeOK, AcquireFree
  <2>4. PICK b \in Calls : Release(b)
    BY <1>1, <2>3 DEF Next, Proceed, Quiet, vars, Granted, GateInv, TypeOK, AcquireFree,
       AcquireWait, WaitTimeout, StartRecognize, RecognizeSettles, OcrTimeout, LateSettle
  <2>5. pc' = [pc EXCEPT ![b] = "done", ![Head(queue)] = "granted"]
    BY <2>2, <2>4 DEF Release
  <2>6. d = Head(queue) /\ c # d
    BY <1>1, <2>5 DEF Granted, GateInv, TypeOK
  <2>7. Head(queue) = queue[1] /\ 1 \in 1..Len(queue)
    BY <2>2, <1>1 DEF GateInv, TypeOK
  <2>8. 1 < j
    BY <2>1, <2>2, <2>6, <2>7
  <2> QED BY <2>1, <2>6, <2>7, <2>8
<1>2. GateInv /\ [Next]_vars => [InOrder]_vars
  BY <1>1
<1> QED BY <1>2, GateInvariant, PTL DEF Spec, FirstComeFirstServed

\* The gate's variables keep their types: its counter never goes below zero nor
\* past the limit, and every waiter is a call.
THEOREM GateTypes == Spec => []TypeOK
<1>1. GateInv => TypeOK
  BY DEF GateInv
<1> QED BY <1>1, GateInvariant, PTL

\* No call waits without an entry in the queue and no entry outlives its call's
\* wait, whatever calls time out while others release (ocrGate.ts).
THEOREM QueueHoldsTheWaiters == Spec => []QueueIsTheWaiters
<1>1. GateInv => QueueIsTheWaiters
  BY DEF GateInv
<1> QED BY <1>1, GateInvariant, PTL
=============================================================================
