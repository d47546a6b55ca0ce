------------------------------ MODULE OcrGate -------------------------------
(***************************************************************************)
(* The process-wide gate in front of Tesseract: the asynchronous semaphore *)
(* of api/src/lib/asyncSemaphore.ts and recognizeWithOcrGate of            *)
(* api/src/lib/ocrGate.ts.  One element of Calls is one invocation of      *)
(* recognizeWithOcrGate.  JavaScript runs one callback at a time, so each  *)
(* action is the code between two points where the invocation yields: a    *)
(* promise it awaits, or a timer.                                          *)
(***************************************************************************)
EXTENDS Naturals, FiniteSets, SequencesExt

CONSTANTS Calls,         \* invocations of recognizeWithOcrGate
          MaxConcurrent  \* OCR_CONCURRENCY, at least 1

ASSUME GateAssumption == MaxConcurrent \in Nat \ {0} /\ IsFiniteSet(Calls)

VARIABLES
  active,       \* the semaphore's counter
  queue,        \* its queue of waiters, oldest first
  pc,           \* how far each invocation has got
  result,       \* what the invocation answered, or will answer
  recognizing   \* invocations whose Tesseract.recognize call is still running

vars == <<active, queue, pc, result, recognizing>>

Positions == {"new", "waiting", "granted", "recognizing", "settling", "done"}
Results   == {"none", "ok", "error", "OCR_BUSY", "OCR_TIMEOUT"}

Init ==
  /\ active = 0
  /\ queue = <<>>
  /\ pc = [c \in Calls |-> "new"]
  /\ result = [c \in Calls |-> "none"]
  /\ recognizing = {}

Holders == {c \in Calls : pc[c] \in {"granted", "recognizing", "settling"}}

-----------------------------------------------------------------------------
\* Mutant: the limit is compared with <=.
AcquireOneTooMany(c) ==
  /\ pc[c] = "new"
  /\ active <= MaxConcurrent
  /\ active' = active + 1
  /\ pc' = [pc EXCEPT ![c] = "granted"]
  /\ UNCHANGED <<queue, result, recognizing>>

\* acquire() with a slot free: counted at once.
AcquireFree(c) ==
  /\ pc[c] = "new"
  /\ active < MaxConcurrent
  /\ active' = active + 1
  /\ pc' = [pc EXCEPT ![c] = "granted"]
  /\ UNCHANGED <<queue, result, recognizing>>

\* acquire() with no slot free: the entry joins the queue and its timer starts.
AcquireWait(c) ==
  /\ pc[c] = "new"
  /\ active >= MaxConcurrent
  /\ queue' = Append(queue, c)
  /\ pc' = [pc EXCEPT ![c] = "waiting"]
  /\ UNCHANGED <<active, result, recognizing>>

\* The queue without the entry of a waiter that lost patience.
Spliced(c) == RemoveAt(queue, CHOOSE i \in 1..Len(queue) : queue[i] = c)

\* Mutant: acquire() moved inside the try block, so that finally also releases.
BusyReleases(c) ==
  /\ pc[c] = "waiting"
  /\ queue' = Spliced(c)
  /\ pc' = [pc EXCEPT ![c] = "settling"]
  /\ result' = [result EXCEPT ![c] = "OCR_BUSY"]
  /\ UNCHANGED <<active, recognizing>>

\* Mutant: the timer rejects without splicing its entry out of the queue.
BusyStaysQueued(c) ==
  /\ pc[c] = "waiting"
  /\ pc' = [pc EXCEPT ![c] = "done"]
  /\ result' = [result EXCEPT ![c] = "OCR_BUSY"]
  /\ UNCHANGED <<active, queue, recognizing>>

\* The entry's timer fires before a slot was handed to it.  acquire() rejects
\* outside the try block of recognizeWithOcrGate: there is nothing to release.
WaitTimeout(c) ==
  /\ pc[c] = "waiting"
  /\ queue' = Spliced(c)
  /\ pc' = [pc EXCEPT ![c] = "done"]
  /\ result' = [result EXCEPT ![c] = "OCR_BUSY"]
  /\ UNCHANGED <<active, recognizing>>

StartRecognize(c) ==
  /\ pc[c] = "granted"
  /\ pc' = [pc EXCEPT ![c] = "recognizing"]
  /\ recognizing' = recognizing \cup {c}
  /\ UNCHANGED <<active, queue, result>>

\* Tesseract answers or fails in time.
RecognizeSettles(c) ==
  /\ pc[c] = "recognizing"
  /\ pc' = [pc EXCEPT ![c] = "settling"]
  /\ \E r \in {"ok", "error"} : result' = [result EXCEPT ![c] = r]
  /\ recognizing' = recognizing \ {c}
  /\ UNCHANGED <<active, queue>>

\* Mutant: the recognition is awaited without withTimeout.
NeverTimesOut(c) == FALSE

\* withTimeout rejects.  Nothing cancels the Tesseract call it was racing.
OcrTimeout(c) ==
  /\ pc[c] = "recognizing"
  /\ pc' = [pc EXCEPT ![c] = "settling"]
  /\ result' = [result EXCEPT ![c] = "OCR_TIMEOUT"]
  /\ UNCHANGED <<active, queue, recognizing>>

\* A Tesseract call that outlived its invocation's timeout ends: nobody listens.
LateSettle(c) ==
  /\ c \in recognizing
  /\ pc[c] \in {"settling", "done"}
  /\ recognizing' = recognizing \ {c}
  /\ UNCHANGED <<active, queue, pc, result>>

\* Mutant: release() frees the slot before it looks at the queue.
ReleaseWakesNobody(c) ==
  /\ pc[c] = "settling"
  /\ active' = active - 1
  /\ pc' = [pc EXCEPT ![c] = "done"]
  /\ UNCHANGED <<queue, result, recognizing>>

\* Mutant: release() serves the newest waiter (pop instead of shift).
ReleaseNewest(c) ==
  /\ pc[c] = "settling"
  /\ IF queue # <<>>
     THEN /\ queue' = Front(queue)
          /\ pc' = [pc EXCEPT ![c] = "done", ![Last(queue)] = "granted"]
          /\ UNCHANGED active
     ELSE /\ active' = IF active > 0 THEN active - 1 ELSE 0
          /\ pc' = [pc EXCEPT ![c] = "done"]
          /\ UNCHANGED queue
  /\ UNCHANGED <<result, recognizing>>

\* The finally block: release() hands the slot to the oldest waiter, or frees it.
Release(c) ==
  /\ pc[c] = "settling"
  /\ IF queue # <<>>
     THEN /\ queue' = Tail(queue)
          /\ pc' = [pc EXCEPT ![c] = "done", ![Head(queue)] = "granted"]
          /\ UNCHANGED active
     ELSE /\ active' = IF active > 0 THEN active - 1 ELSE 0
          /\ pc' = [pc EXCEPT ![c] = "done"]
          /\ UNCHANGED queue
  /\ UNCHANGED <<result, recognizing>>

-----------------------------------------------------------------------------
\* What timers and the event loop do, once an invocation has begun.
Proceed(c) ==
  WaitTimeout(c) \/ StartRecognize(c) \/ OcrTimeout(c) \/ Release(c)

\* Every invocation has been answered and no recognition runs.
Quiet == /\ \A c \in Calls : pc[c] = "done"
         /\ recognizing = {}
         /\ UNCHANGED vars

Next ==
  \/ \E c \in Calls :
       \/ AcquireFree(c) \/ AcquireWait(c)
       \/ RecognizeSettles(c) \/ LateSettle(c)
       \/ Proceed(c)
  \/ Quiet

Spec == Init /\ [][Next]_vars

\* Timers fire and settled promises run their continuations.  Nothing is
\* assumed of Tesseract: a recognition may hang for ever.
FairSpec == Spec /\ \A c \in Calls : WF_vars(Proceed(c))

-----------------------------------------------------------------------------
TypeOK ==
  /\ active \in 0..MaxConcurrent
  /\ queue \in Seq(Calls)
  /\ pc \in [Calls -> Positions]
  /\ result \in [Calls -> Results]
  /\ recognizing \subseteq Calls

\* The counter is the number of invocations between their grant and their
\* release: no path out of recognizeWithOcrGate, the two timeouts included,
\* loses a slot or gives one back twice.
SlotAccounting == active = Cardinality(Holders)

\* A waiter is queued only while every slot is in use: release() never
\* leaves a slot idle beside a waiter it forgot to wake.
NoIdleSlot == queue # <<>> => active = MaxConcurrent

\* The queue holds each invocation that is still waiting, once, and no other:
\* an entry whose timer fired is gone from it, so release() cannot hand the
\* slot to an invocation that has already answered OCR_BUSY.
QueueIsTheWaiters ==
  /\ \A c \in Calls : pc[c] = "waiting" <=> \E i \in 1..Len(queue) : queue[i] = c
  /\ \A i, j \in 1..Len(queue) : queue[i] = queue[j] => i = j

Granted(c) == pc[c] # "granted" /\ pc'[c] = "granted"

\* Slots are granted in order of arrival: neither a later waiter nor a new
\* invocation gets one while an earlier waiter still waits.
FirstComeFirstServed ==
  [][\A c, d \in Calls :
       (pc[c] = "waiting" /\ Granted(d) /\ pc'[c] = "waiting")
         => \E i, j \in 1..Len(queue) : i < j /\ queue[i] = d /\ queue[j] = c]_vars

\* Of the recognitions whose invocation still listens, at most MaxConcurrent
\* run at once: the gate does cap Tesseract until the first OCR_TIMEOUT.
CapUntilTimeout ==
  Cardinality({c \in recognizing : result[c] # "OCR_TIMEOUT"}) <= MaxConcurrent

\* Every invocation is answered, even when Tesseract never returns: the two
\* timeouts bound the wait in the queue and the wait for the recognition.
EveryCallAnswered == \A c \in Calls : pc[c] # "new" ~> pc[c] = "done"

\* The counter and the queue implement the abstract pool of slots.
Pool == INSTANCE SlotPool
          WITH waiting <- {c \in Calls : pc[c] = "waiting"},
               holding <- Holders,
               gone    <- {c \in Calls : pc[c] = "done"}

ImplementsSlotPool == Pool!PoolSpec

=============================================================================
