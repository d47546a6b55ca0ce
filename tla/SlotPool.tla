------------------------------ MODULE SlotPool ------------------------------
(***************************************************************************)
(* What a counting semaphore with impatient waiters promises, with no      *)
(* counter and no queue: at most MaxConcurrent callers hold a slot, a slot *)
(* is never left unused while somebody waits for one, and a caller that    *)
(* gave up is never handed a slot.  OcrGate is shown to implement it.      *)
(***************************************************************************)
EXTENDS Naturals, FiniteSets

CONSTANTS Calls,         \* the callers, each of which asks once
          MaxConcurrent  \* the number of slots

VARIABLES waiting,  \* callers queued for a slot
          holding,  \* callers that own a slot
          gone      \* callers that have been answered

poolVars == <<waiting, holding, gone>>

PoolInit == waiting = {} /\ holding = {} /\ gone = {}

Fresh(c) == c \notin waiting \cup holding \cup gone

Enter(c) ==
  /\ Fresh(c)
  /\ Cardinality(holding) < MaxConcurrent
  /\ waiting = {}
  /\ holding' = holding \cup {c}
  /\ UNCHANGED <<waiting, gone>>

Wait(c) ==
  /\ Fresh(c)
  /\ Cardinality(holding) = MaxConcurrent
  /\ waiting' = waiting \cup {c}
  /\ UNCHANGED <<holding, gone>>

GiveUp(c) ==
  /\ c \in waiting
  /\ waiting' = waiting \ {c}
  /\ gone' = gone \cup {c}
  /\ UNCHANGED holding

Leave(c) ==
  /\ c \in holding
  /\ waiting = {}
  /\ holding' = holding \ {c}
  /\ gone' = gone \cup {c}
  /\ UNCHANGED waiting

\* c answers its own caller and its slot goes straight to the waiter d.
HandOver(c, d) ==
  /\ c \in holding
  /\ d \in waiting
  /\ waiting' = waiting \ {d}
  /\ holding' = (holding \ {c}) \cup {d}
  /\ gone' = gone \cup {c}

PoolNext ==
  \E c \in Calls :
    \/ Enter(c) \/ Wait(c) \/ GiveUp(c) \/ Leave(c)
    \/ \E d \in Calls : HandOver(c, d)

PoolSpec == PoolInit /\ [][PoolNext]_poolVars

=============================================================================
