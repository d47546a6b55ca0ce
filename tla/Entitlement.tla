---------------------------- MODULE Entitlement -----------------------------
(***************************************************************************)
(* What billing promises an organisation: its plan changes only when a     *)
(* payment for another plan is received, when a downgrade it asked for is  *)
(* due, or at once when no paid period is left to wait for.  Each payment  *)
(* counts once, and it calls off a downgrade that is still to come.        *)
(***************************************************************************)
EXTENDS Naturals

CONSTANTS
  Refs,        \* references of payments
  TopPlan,     \* plans are 0 (free) to TopPlan in their sort order
  MaxTime,     \* bound: the clock
  NoSchedule   \* no downgrade is to come

VARIABLES
  plan,      \* the plan in force
  schedule,  \* the downgrade to come: its plan and when it is due
  paid,      \* payments received
  now        \* the clock

vars == <<plan, schedule, paid, now>>

Plans == 0..TopPlan

Init ==
  /\ plan \in Plans
  /\ schedule = NoSchedule
  /\ paid \in SUBSET Refs
  /\ now = 0

Pay(ref) ==
  /\ ref \notin paid
  /\ paid' = paid \cup {ref}
  /\ plan' \in Plans \ {0}
  /\ schedule' = NoSchedule
  /\ UNCHANGED now

\* A lower plan from the end of the period.
ScheduleDowngrade ==
  /\ schedule' \in [plan : {p \in Plans : p < plan}, at : Nat]
  /\ schedule'.at > now
  /\ UNCHANGED <<plan, paid, now>>

DowngradeAtOnce ==
  /\ plan' \in Plans /\ plan' < plan
  /\ schedule' = NoSchedule
  /\ UNCHANGED <<paid, now>>

CancelDowngrade == schedule' = NoSchedule /\ UNCHANGED <<plan, paid, now>>

FallDue ==
  /\ schedule # NoSchedule /\ schedule.at <= now
  /\ plan' = schedule.plan
  /\ schedule' = NoSchedule
  /\ UNCHANGED <<paid, now>>

Tick == now < MaxTime /\ now' = now + 1 /\ UNCHANGED <<plan, schedule, paid>>

Next ==
  \/ \E ref \in Refs : Pay(ref)
  \/ ScheduleDowngrade \/ DowngradeAtOnce \/ CancelDowngrade \/ FallDue
  \/ Tick

Spec == Init /\ [][Next]_vars

=============================================================================
