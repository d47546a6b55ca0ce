------------------------------ MODULE Billing -------------------------------
(***************************************************************************)
(* The subscription of one organisation: checkouts and their proration     *)
(* credit, fulfilment by webhook and by verification, downgrades at the    *)
(* end of a period, and the cached decision whether the workspace is open. *)
(*   api/src/routes/subscription.ts, api/src/services/planChange.ts,       *)
(*   api/src/services/paystackFulfillment.ts, subscriptionState.ts,        *)
(*   api/src/services/orgSubscriptionAccess.ts                             *)
(* An action is the code between two awaits that another handler can tell  *)
(* apart; one element of Requests is one handler under way.                *)
(***************************************************************************)
EXTENDS Integers, FiniteSets, Sequences

CONSTANTS
  Requests,    \* handlers that may be under way at one time
  TopPlan,     \* plans are 0 (free) to TopPlan in their sort order
  Price,       \* list price of each paid plan, for one period
  Period,      \* length of a period in ticks of the clock
  MaxRefs,     \* bound: checkouts
  MaxTime,     \* bound: the clock
  MaxFaults,   \* bound: handlers that die between two database calls
  Replays,     \* may a charge be delivered again once it is recorded?
  NoSchedule   \* no downgrade is scheduled

ASSUME BillingAssumption ==
  /\ {MaxTime, MaxFaults} \subseteq Nat
  /\ {TopPlan, MaxRefs, Period} \subseteq Nat \ {0}
  /\ Price \in [1..TopPlan -> Nat]
  /\ Replays \in BOOLEAN
  /\ NoSchedule \notin [plan : 0..TopPlan, at : Nat]

VARIABLES
  plan,      \* Organization.plan
  schedule,  \* the org_scheduled_plan setting: target and effectiveAt
  checkout,  \* what Paystack knows of each reference, with its metadata
  pay,       \* Payment rows: status and createdAt
  rows,      \* references of the Payment rows in order of createdAt
  cache,     \* the cached access decision of the API process
  now,       \* the clock
  req,       \* handlers under way
  faults,    \* handlers that died
  disturbed  \* history: a handler met another, a cancel or a tick, one
             \* died, or a recorded charge came again

moneyVars == <<checkout, pay, rows>>
vars == <<plan, schedule, moneyVars, cache, now, req, faults, disturbed>>

Refs == 1..MaxRefs
Plans == 0..TopPlan

NoCheckout == [phase |-> "unused", plan |-> 0, amount |-> 0, from |-> 0, known |-> {}]
NoRow == [status |-> "absent", at |-> 0]
NoAnswer == [open |-> "unknown", missed |-> FALSE]
Idle == [step |-> "idle", ref |-> 0, to |-> 0, at |-> 0, found |-> FALSE, answer |-> NoAnswer]

\* A subscriber of the lowest paid plan, or an organisation that has never
\* paid: its first checkout was refused.
Init ==
  /\ \/ /\ plan = 1
        /\ checkout = [c \in Refs |-> IF c # 1 THEN NoCheckout ELSE
             [NoCheckout EXCEPT !.phase = "charged", !.plan = 1, !.amount = Price[1]]]
        /\ pay = [c \in Refs |-> IF c # 1 THEN NoRow ELSE [status |-> "success", at |-> 0]]
        /\ rows = <<1>>
     \/ /\ plan = 0
        /\ checkout = [c \in Refs |-> IF c # 1 THEN NoCheckout ELSE
             [NoCheckout EXCEPT !.phase = "opening", !.plan = 1, !.amount = Price[1]]]
        /\ pay = [c \in Refs |-> NoRow]
        /\ rows = <<>>
  /\ schedule = NoSchedule
  /\ cache = NoAnswer
  /\ now = 0
  /\ req = [r \in Requests |-> Idle]
  /\ faults = 0
  /\ disturbed = FALSE

At(r, step) == req[r].step = step
Start(r, record) == req[r] = Idle /\ req' = [req EXCEPT ![r] = record]
Goto(r, step) == req' = [req EXCEPT ![r].step = step]
Finish(r) == req' = [req EXCEPT ![r] = Idle]

-----------------------------------------------------------------------------
(* Payments, the snapshot of the subscription, and the proration credit.   *)

Succeeded(c) == pay[c].status = "success"
Paid == {c \in Refs : Succeeded(c)}

\* Mutant: ordered by createdAt the other way round.
EarliestPaid ==
  LET places == {i \in 1..Len(rows) : Succeeded(rows[i])} IN
  IF places = {} THEN 0 ELSE rows[CHOOSE i \in places : \A j \in places : i <= j]

\* The successful payment with the latest createdAt; 0 when there is none.
LatestPaid ==
  LET places == {i \in 1..Len(rows) : Succeeded(rows[i])} IN
  IF places = {} THEN 0 ELSE rows[CHOOSE i \in places : \A j \in places : j <= i]

PeriodEnd(c) == pay[c].at + Period

\* getSubscriptionSnapshot: is the status active?  Otherwise it is free or
\* expired, and both close the workspace.
Admits ==
  IF LatestPaid = 0 THEN plan = 0 ELSE now <= PeriodEnd(LatestPaid)

\* Math.round of a quotient.
RoundDiv(n, d) == (2 * n + d) \div (2 * d)

\* prorationCreditGhs: the unused part of the last charge, while the plan it
\* paid for is still the current one.
Credit(c, current) ==
  IF c = 0 \/ checkout[c].plan # current \/ now >= PeriodEnd(c) THEN 0
  ELSE RoundDiv(checkout[c].amount * (PeriodEnd(c) - now), Period)

\* checkoutAmountAfterCredit
Charge(list, credit) == IF credit >= list THEN 0 ELSE list - credit

-----------------------------------------------------------------------------
(* POST /subscription/initialize and Paystack.                             *)

\* The next reference.
Unused(c) ==
  /\ checkout[c].phase = "unused"
  /\ \A b \in 1..(c - 1) : checkout[b].phase # "unused"

\* The reads: a lower plan is refused, and the credit comes off the price.
\* Nothing left to charge is fulfilled at once, under a reference Paystack does
\* not know; otherwise Paystack opens a checkout.
CheckoutBegin(r, p, c) ==
  LET credit == Credit(LatestPaid, plan)
      charge == Charge(Price[p], credit) IN
  /\ p \in Plans \ {0} /\ p >= plan
  /\ Unused(c)
  /\ checkout' = [checkout EXCEPT ![c] =
       [phase |-> IF charge = 0 THEN "covered" ELSE "opening",
        plan |-> p, amount |-> charge,
        from |-> IF credit > 0 THEN LatestPaid ELSE 0, known |-> Paid]]
  /\ Start(r, [Idle EXCEPT !.step = IF charge = 0 THEN "commit" ELSE "send", !.ref = c])
  /\ UNCHANGED <<plan, schedule, pay, rows, cache, now, faults>>

\* The pending row, whose failure is swallowed; then the customer gets the URL.
CheckoutSend(r) ==
  LET c == req[r].ref IN
  /\ At(r, "send")
  /\ checkout' = [checkout EXCEPT ![c].phase = "sent"]
  /\ \/ /\ pay' = [pay EXCEPT ![c] = [status |-> "pending", at |-> now]]
        /\ rows' = Append(rows, c)
     \/ UNCHANGED <<pay, rows>>
  /\ Finish(r)
  /\ UNCHANGED <<plan, schedule, cache, now, faults>>

\* The customer pays, at any time after that.
CustomerPays(c) ==
  /\ checkout[c].phase = "sent"
  /\ checkout' = [checkout EXCEPT ![c].phase = "charged"]
  /\ UNCHANGED <<plan, schedule, pay, rows, cache, now, req, faults>>

-----------------------------------------------------------------------------
(* fulfillSuccessfulCharge, called by the webhook and by verification.     *)

\* The row is read before the transaction.
FulfilBegin(r, c) ==
  /\ checkout[c].phase = "charged"
  /\ ~Replays => ~Succeeded(c)
  /\ Start(r, [Idle EXCEPT !.step = "commit", !.ref = c,
                           !.found = pay[c].status # "absent"])
  /\ UNCHANGED <<plan, schedule, moneyVars, cache, now, faults>>

\* Plan and row in one database transaction.  A row created meanwhile violates
\* the unique reference: then the plan alone is written.
FulfilCommit(r) ==
  LET c == req[r].ref IN
  /\ At(r, "commit")
  /\ plan' = checkout[c].plan
  /\ CASE req[r].found ->
            /\ pay' = [pay EXCEPT ![c].status = "success"]
            /\ UNCHANGED rows
       [] ~req[r].found /\ pay[c].status = "absent" ->
            /\ pay' = [pay EXCEPT ![c] = [status |-> "success", at |-> now]]
            /\ rows' = Append(rows, c)
       [] OTHER -> UNCHANGED <<pay, rows>>
  /\ Goto(r, "clear")
  /\ UNCHANGED <<schedule, checkout, cache, now, faults>>

\* Drop the cached answer; fills whose reads are older will store it again.
InvalidateThen(r, record) ==
  /\ cache' = NoAnswer
  /\ req' = [s \in Requests |->
       IF s = r THEN record
       ELSE IF At(s, "store") THEN [req[s] EXCEPT !.answer.missed = TRUE] ELSE req[s]]

\* Mutant: the cache is left alone.
ClearKeepsCache(r) ==
  /\ At(r, "clear")
  /\ schedule' = NoSchedule
  /\ Finish(r)
  /\ UNCHANGED <<plan, moneyVars, cache, now, faults>>

\* Mutant: the scheduled downgrade survives the payment.
ClearKeepsSchedule(r) ==
  /\ At(r, "clear")
  /\ InvalidateThen(r, Idle)
  /\ UNCHANGED <<plan, schedule, moneyVars, now, faults>>

\* clearScheduledPlan and invalidateOrgSubscriptionCache.
Clear(r) ==
  /\ At(r, "clear")
  /\ schedule' = NoSchedule
  /\ InvalidateThen(r, Idle)
  /\ UNCHANGED <<plan, moneyVars, now, faults>>

-----------------------------------------------------------------------------
(* POST and DELETE /subscription/schedule-downgrade.                       *)

\* Mutant: the target may be any plan.
DowngradeAnywhere(r, p) ==
  /\ p \in Plans /\ p # plan
  /\ Start(r, [Idle EXCEPT !.step = "drop", !.to = p])
  /\ UNCHANGED <<plan, schedule, moneyVars, cache, now, faults>>

\* Mutant: one plan down, from free as well.
DowngradeByOne(r, p) ==
  /\ p \in Plans
  /\ Start(r, [Idle EXCEPT !.step = "drop", !.to = plan - 1])
  /\ UNCHANGED <<plan, schedule, moneyVars, cache, now, faults>>

\* The reads: only a lower plan, and waitsForPeriod.
DowngradeBegin(r, p) ==
  /\ p \in Plans /\ p < plan
  /\ Start(r, IF LatestPaid # 0 /\ PeriodEnd(LatestPaid) > now
              THEN [Idle EXCEPT !.step = "schedule", !.to = p, !.at = PeriodEnd(LatestPaid)]
              ELSE [Idle EXCEPT !.step = "drop", !.to = p])
  /\ UNCHANGED <<plan, schedule, moneyVars, cache, now, faults>>

DowngradeWrite(r) ==
  /\ At(r, "schedule")
  /\ schedule' = [plan |-> req[r].to, at |-> req[r].at]
  /\ Finish(r)
  /\ UNCHANGED <<plan, moneyVars, cache, now, faults>>

DowngradeNow(r) ==
  /\ At(r, "drop")
  /\ plan' = req[r].to
  /\ Goto(r, "clear")
  /\ UNCHANGED <<schedule, moneyVars, cache, now, faults>>

CancelDowngrade ==
  /\ schedule # NoSchedule
  /\ schedule' = NoSchedule
  /\ UNCHANGED <<plan, moneyVars, cache, now, req, faults>>

-----------------------------------------------------------------------------
(* getOrgSubscriptionStatus, before every request to the workspace, and    *)
(* GET /subscription/usage, which only applies what is due.                *)

\* The reads of the organisation and its latest payment, for the cache to keep.
Filling == [Idle EXCEPT !.step = "store", !.answer.open = IF Admits THEN "yes" ELSE "no"]

\* applyDueScheduledPlan reads the setting; with nothing due, an answer that is
\* not cached is computed.
AccessBegin(r) ==
  /\ IF schedule # NoSchedule /\ schedule.at <= now
     THEN Start(r, [Idle EXCEPT !.step = "apply", !.to = schedule.plan])
     ELSE cache = NoAnswer /\ Start(r, Filling)
  /\ UNCHANGED <<plan, schedule, moneyVars, cache, now, faults>>

ApplyDue(r) ==
  /\ At(r, "apply")
  /\ plan' = req[r].to
  /\ Goto(r, "applied")
  /\ UNCHANGED <<schedule, moneyVars, cache, now, faults>>

\* Whatever schedule is there by now is cleared.  GET /usage ends here.
ApplyClear(r) ==
  /\ At(r, "applied")
  /\ schedule' = NoSchedule
  /\ InvalidateThen(r, Idle) \/ InvalidateThen(r, Filling)
  /\ UNCHANGED <<plan, moneyVars, now, faults>>

AccessStore(r) ==
  /\ At(r, "store")
  /\ cache' = req[r].answer
  /\ Finish(r)
  /\ UNCHANGED <<plan, schedule, moneyVars, now, faults>>

\* SUBSCRIPTION_CACHE_TTL_MS
CacheExpires ==
  /\ cache # NoAnswer
  /\ cache' = NoAnswer
  /\ UNCHANGED <<plan, schedule, moneyVars, now, req, faults>>

-----------------------------------------------------------------------------
\* Paystack refuses the checkout; an error before the handler's first write.
GiveUp(r) ==
  /\ req[r].step \in {"send", "schedule", "drop", "apply", "store"}
  /\ Finish(r)
  /\ UNCHANGED <<plan, schedule, moneyVars, cache, now, faults>>

\* A fulfilment that fails, or a handler that dies after its first write.
Die(r) ==
  /\ req[r].step \in {"commit", "clear", "applied"} /\ faults < MaxFaults
  /\ faults' = faults + 1
  /\ Finish(r)
  /\ UNCHANGED <<plan, schedule, moneyVars, cache, now>>

Tick ==
  /\ now < MaxTime
  /\ now' = now + 1
  /\ UNCHANGED <<plan, schedule, moneyVars, cache, req, faults>>

Continue(r) ==
  \/ CheckoutSend(r) \/ FulfilCommit(r) \/ Clear(r)
  \/ DowngradeWrite(r) \/ DowngradeNow(r)
  \/ ApplyDue(r) \/ ApplyClear(r) \/ AccessStore(r)

Begin(r) ==
  \/ \E c \in Refs : FulfilBegin(r, c) \/ \E p \in Plans : CheckoutBegin(r, p, c)
  \/ \E p \in Plans : DowngradeBegin(r, p)
  \/ AccessBegin(r)

Step ==
  \/ \E r \in Requests : Begin(r) \/ Continue(r) \/ GiveUp(r) \/ Die(r)
  \/ \E c \in Refs : CustomerPays(c)
  \/ CancelDowngrade \/ CacheExpires \/ Tick

Busy == {r \in Requests : req[r] # Idle}

Next ==
  /\ Step
  /\ disturbed' = \/ disturbed
                  \/ Cardinality(Busy') > 1
                  \/ Busy # {} /\ req' = req /\ <<schedule, now>>' # <<schedule, now>>
                  \/ faults' # faults
                  \/ \E r \in Requests : At(r, "commit") /\ Succeeded(req[r].ref)

Spec == Init /\ [][Next]_vars

-----------------------------------------------------------------------------
Answers == [open : {"unknown", "yes", "no"}, missed : BOOLEAN]
Schedules == [plan : Plans, at : Nat]

TypeOK ==
  /\ plan \in Plans
  /\ schedule \in Schedules \cup {NoSchedule}
  /\ checkout \in [Refs -> [phase : {"unused", "covered", "opening", "sent", "charged"}, plan : Plans,
                            amount : Nat, from : Refs \cup {0}, known : SUBSET Refs]]
  /\ pay \in [Refs -> [status : {"absent", "pending", "success"}, at : Nat]]
  /\ rows \in Seq(Refs)
  /\ cache \in Answers
  /\ now \in 0..MaxTime
  /\ req \in [Requests ->
       [step : {"idle", "send", "commit", "clear", "schedule", "drop", "apply", "applied",
                "store"},
        ref : Refs \cup {0}, to : Plans, at : Nat, found : BOOLEAN, answer : Answers]]
  /\ faults \in 0..MaxFaults
  /\ disturbed \in BOOLEAN

\* Through races of payments, replays and downgrades no organisation is on a
\* plan above every plan it has paid for.
PlanWasPaidFor == plan = 0 \/ \E c \in Paid : checkout[c].plan >= plan

\* The unused part of one payment is credited to two others only when both were
\* priced before either was received: checkouts left open side by side.
CreditedTwiceOnlySideBySide ==
  \A c, d \in Paid :
    c # d /\ checkout[c].from = checkout[d].from /\ checkout[c].from # 0
      => c \notin checkout[d].known /\ d \notin checkout[c].known

\* A workspace whose subscription is active is not kept closed by the cache,
\* except by a fill that read before the cache was invalidated (until it
\* expires), by a handler about to invalidate it, or by one that died there.
PayerNotLockedOut ==
  cache.open = "no" /\ Admits
    => cache.missed \/ faults > 0 \/ \E r \in Requests : At(r, "clear") \/ At(r, "applied")

\* A payment received within a period of opening its checkout opens the
\* workspace, in whatever order checkouts are opened and paid.
PaymentAdmits ==
  [][\A c \in Refs :
       /\ pay[c].status # "success" /\ pay'[c].status = "success"
       /\ pay[c].status = "pending" => now <= PeriodEnd(c)
       => Admits']_vars

\* While handlers run one at a time and each charge is delivered once, the
\* organisation sees Entitlement.  A downgrade that is about to be cleared
\* counts as cleared.
Promise == INSTANCE Entitlement WITH
  schedule <- IF \E r \in Requests : At(r, "clear") \/ At(r, "applied")
              THEN NoSchedule ELSE schedule,
  paid <- Paid

ImplementsEntitlement ==
  Promise!Init /\ [][disturbed' \/ Promise!Next \/ UNCHANGED Promise!vars]_vars

\* "The Free plan stays active with its own limits" (subscriptionState.ts:35).
FreePlanStaysActive == plan = 0 => Admits

=============================================================================
