---------------------------- MODULE BillingProofs ----------------------------
(***************************************************************************)
(* Proofs about Billing, for any plans, prices, period and number of       *)
(* handlers under way.                                                     *)
(***************************************************************************)
EXTENDS Billing, WellFoundedInduction, FiniteSetTheorems, SequenceTheorems, TLAPS

\* Of some places there is a last one.
LEMMA LastPlace ==
    ASSUME NEW n \in Nat, NEW P \in SUBSET (1..n), P # {}
    PROVE  \E i \in P : \A j \in P : j <= i
<1> DEFINE T == {n - i : i \in P}
           R == OpToRel(<, Nat)
<1>1. T \subseteq Nat /\ T # {}
  <2>1. T \subseteq Nat
    <3> SUFFICES ASSUME NEW i \in P PROVE n - i \in Nat
      OBVIOUS
    <3>1. i \in 1..n
      OBVIOUS
    <3> QED BY <3>1
  <2>2. PICK i \in P : TRUE
    OBVIOUS
  <2>3. n - i \in T
    BY <2>2
  <2> QED BY <2>1, <2>3
<1>2. IsWellFoundedOn(R, Nat)
  BY NatLessThanWellFounded
<1>3. \A x, y \in Nat : y < x => <<y, x>> \in R
  BY DEF OpToRel
<1> HIDE DEF R
<1>4. PICK x \in T : \A y \in T : ~(<<y, x>> \in R)
  BY <1>1, <1>2, WFMin
<1>5. PICK i \in P : x = n - i
  BY <1>4
<1>6. \A j \in P : j <= i
  <2> SUFFICES ASSUME NEW j \in P, ~(j <= i) PROVE FALSE
    OBVIOUS
  <2>1. n - j \in T /\ n - j \in Nat /\ x \in Nat /\ n - j < x
    BY <1>5
  <2> QED BY <1>3, <1>4, <2>1
<1> QED BY <1>5, <1>6

-----------------------------------------------------------------------------
(* Types                                                                   *)

Phases == {"unused", "covered", "opening", "sent", "charged"}
Checkouts == [phase : Phases, plan : Plans, amount : Nat, from : Refs \cup {0}, known : SUBSET Refs]
PayRows == [status : {"absent", "pending", "success"}, at : Nat]
Steps == {"idle", "send", "commit", "clear", "schedule", "drop", "apply", "applied", "store"}
Handlers == [step : Steps, ref : Refs \cup {0}, to : Plans, at : Nat, found : BOOLEAN,
             answer : Answers]

\* The type invariant, with names for its record sets.
LEMMA TypesNamed ==
    TypeOK <=> /\ plan \in Plans /\ schedule \in Schedules \cup {NoSchedule}
               /\ checkout \in [Refs -> Checkouts] /\ pay \in [Refs -> PayRows]
               /\ rows \in Seq(Refs) /\ cache \in Answers /\ now \in 0..MaxTime
               /\ req \in [Requests -> Handlers] /\ faults \in 0..MaxFaults
               /\ disturbed \in BOOLEAN
  BY DEF TypeOK, Checkouts, PayRows, Steps, Handlers, Phases

\* The constants of the rest, with their types.
LEMMA Bounds ==
    /\ MaxTime \in Nat /\ MaxFaults \in Nat /\ MaxRefs \in Nat \ {0} /\ Period \in Nat \ {0}
    /\ TopPlan \in Nat \ {0} /\ Price \in [1..TopPlan -> Nat]
    /\ Refs \subseteq Nat \ {0} /\ 1 \in Refs /\ Plans \subseteq Nat /\ 0 \in Plans /\ 1 \in Plans
    /\ Price[1] \in Nat
  BY BillingAssumption DEF Refs, Plans

\* The idle handler and the empty records.
LEMMA Blanks ==
    /\ NoAnswer \in Answers /\ NoAnswer.open = "unknown"
    /\ Idle \in Handlers /\ Idle.step = "idle" /\ Idle.answer = NoAnswer
    /\ NoCheckout \in Checkouts /\ NoCheckout.phase = "unused" /\ NoCheckout.from = 0
    /\ NoCheckout.known = {}
    /\ NoRow \in PayRows /\ NoRow.status = "absent"
  BY Bounds DEF NoAnswer, Answers, Idle, Handlers, Steps, NoCheckout, Checkouts, Phases, NoRow,
     PayRows

\* The latest successful payment, found in the order of the rows.
Places == {i \in 1..Len(rows) : Succeeded(rows[i])}

\* It is the reference in the last of those places, or 0.
LEMMA LatestPaidIs ==
    ASSUME TypeOK
    PROVE  /\ Places = {} => LatestPaid = 0
           /\ Places # {} => \E i \in Places : LatestPaid = rows[i] /\ \A j \in Places : j <= i
           /\ LatestPaid \in Refs \cup {0}
<1>1. rows \in Seq(Refs) /\ Len(rows) \in Nat /\ \A i \in 1..Len(rows) : rows[i] \in Refs
  BY DEF TypeOK
<1>2. LatestPaid = IF Places = {} THEN 0 ELSE rows[CHOOSE i \in Places : \A j \in Places : j <= i]
  BY DEF LatestPaid, Places
<1>3. Places \in SUBSET (1..Len(rows))
  BY DEF Places
<1>4. CASE Places # {}
  <2>1. \E i \in Places : \A j \in Places : j <= i
    BY <1>1, <1>3, <1>4, LastPlace
  <2> DEFINE k == CHOOSE i \in Places : \A j \in Places : j <= i
  <2>2. k \in Places /\ \A j \in Places : j <= k
    BY <2>1
  <2>3. LatestPaid = rows[k]
    BY <1>2, <1>4
  <2> HIDE DEF k
  <2>4. rows[k] \in Refs
    BY <1>1, <1>3, <2>2
  <2> QED BY <1>4, <2>2, <2>3, <2>4
<1>5. CASE Places = {}
  BY <1>2, <1>5
<1> QED BY <1>4, <1>5

\* The last place of a successful payment holds the latest one.
LEMMA LatestPaidAt ==
    ASSUME TypeOK, NEW i \in Places, \A j \in Places : j <= i
    PROVE  LatestPaid = rows[i]
<1>1. PICK k \in Places : LatestPaid = rows[k] /\ \A j \in Places : j <= k
  BY LatestPaidIs
<1>2. i \in Nat /\ k \in Nat /\ i <= k /\ k <= i
  BY <1>1 DEF Places, TypeOK
<1>3. i = k
  BY <1>2
<1> QED BY <1>1, <1>3

\* What Paystack is asked to charge.
LEMMA ChargeIsMoney ==
    ASSUME TypeOK, NEW p \in Plans \ {0}
    PROVE  Charge(Price[p], Credit(LatestPaid, plan)) \in Nat
<1>1. Price[p] \in Nat
  BY Bounds DEF Plans
<1>2. Credit(LatestPaid, plan) \in Int
  <2> DEFINE c == LatestPaid
  <2>1. CASE c = 0 \/ checkout[c].plan # plan \/ now >= PeriodEnd(c)
    BY <2>1 DEF Credit
  <2>2. CASE ~(c = 0 \/ checkout[c].plan # plan \/ now >= PeriodEnd(c))
    <3>1. c \in Refs
      BY <2>2, LatestPaidIs
    <3>2. Period \in Nat \ {0} /\ now \in Int
      BY Bounds DEF TypeOK
    <3>3. checkout[c] \in Checkouts /\ pay[c] \in PayRows
      BY <3>1, TypesNamed
    <3> DEFINE a == checkout[c].amount
               e == PeriodEnd(c)
    <3>4. a \in Int /\ e \in Int
      BY <3>2, <3>3 DEF Checkouts, PayRows, PeriodEnd
    <3>5. Credit(c, plan) = RoundDiv(a * (e - now), Period)
      BY <2>2 DEF Credit
    <3> HIDE DEF a, e, c
    <3> DEFINE n == a * (e - now)
    <3>6. n \in Int
      BY <3>2, <3>4
    <3> HIDE DEF n
    <3>7. 2 * n + Period \in Int /\ 2 * Period \in Nat \ {0}
      BY <3>2, <3>6
    <3> DEFINE u == 2 * n + Period
               v == 2 * Period
    <3>8. RoundDiv(n, Period) = u \div v
      BY DEF RoundDiv
    <3> HIDE DEF u, v
    <3>9. u \div v \in Int
      BY <3>7 DEF u, v
    <3> QED BY <3>5, <3>8, <3>9 DEF n, c
  <2> QED BY <2>1, <2>2
<1> DEFINE credit == Credit(LatestPaid, plan)
<1> HIDE DEF credit
<1>3. Charge(Price[p], credit) \in Nat
  BY <1>1, <1>2 DEF Charge, credit
<1> QED BY <1>3 DEF credit

\* The types hold at the start.
LEMMA InitTypes == Init => TypeOK
<1> SUFFICES ASSUME Init PROVE TypeOK
  OBVIOUS
<1>1. /\ schedule = NoSchedule /\ cache \in Answers /\ now \in 0..MaxTime /\ faults \in 0..MaxFaults
      /\ disturbed \in BOOLEAN /\ req \in [Requests -> Handlers]
  <2>1. 0 \in 0..MaxTime /\ 0 \in 0..MaxFaults
    BY Bounds
  <2> QED BY <2>1, Blanks DEF Init
<1> DEFINE first(ph) == [NoCheckout EXCEPT !.phase = ph, !.plan = 1, !.amount = Price[1]]
<1>2. \A ph \in Phases : first(ph) \in Checkouts
  BY Bounds, Blanks DEF Checkouts, NoCheckout
<1>3. plan \in Plans /\ rows \in Seq(Refs)
  <2>1. rows = <<1>> \/ rows = << >>
    BY DEF Init
  <2>2. <<1>> \in Seq(Refs) /\ << >> \in Seq(Refs)
    BY Bounds
  <2> QED BY <2>1, <2>2, Bounds DEF Init
<1>4. checkout \in [Refs -> Checkouts]
  <2> HIDE DEF first
  <2>1. "charged" \in Phases /\ "opening" \in Phases
    BY DEF Phases
  <2>2. \/ checkout = [c \in Refs |-> IF c # 1 THEN NoCheckout ELSE first("charged")]
        \/ checkout = [c \in Refs |-> IF c # 1 THEN NoCheckout ELSE first("opening")]
    BY DEF Init, first
  <2> QED BY <1>2, <2>1, <2>2, Blanks
<1>5. pay \in [Refs -> PayRows]
  <2>1. \/ pay = [c \in Refs |-> IF c # 1 THEN NoRow ELSE [status |-> "success", at |-> 0]]
        \/ pay = [c \in Refs |-> NoRow]
    BY DEF Init
  <2>2. [status |-> "success", at |-> 0] \in PayRows
    BY DEF PayRows
  <2> QED BY <2>1, <2>2, Blanks
<1> QED BY <1>1, <1>3, <1>4, <1>5, TypesNamed

\* Beginning a handler, moving it and ending it.
LEMMA HandlerTypes ==
    ASSUME TypeOK, NEW r \in Requests
    PROVE  /\ req[r] \in Handlers
           /\ \A x \in Handlers : Start(r, x) => req' \in [Requests -> Handlers]
           /\ \A x \in Steps : Goto(r, x) => req' \in [Requests -> Handlers]
           /\ Finish(r) => req' \in [Requests -> Handlers]
           /\ \A x \in Handlers : InvalidateThen(r, x) =>
                req' \in [Requests -> Handlers] /\ cache' \in Answers
<1>1. req \in [Requests -> Handlers]
  BY TypesNamed
<1>2. \A x \in Handlers : Start(r, x) => req' \in [Requests -> Handlers]
  BY <1>1 DEF Start
<1>3. \A x \in Steps : [req[r] EXCEPT !.step = x] \in Handlers
  BY <1>1 DEF Handlers
<1>4. \A x \in Steps : Goto(r, x) => req' \in [Requests -> Handlers]
  BY <1>1, <1>3 DEF Goto
<1>5. Finish(r) => req' \in [Requests -> Handlers]
  BY <1>1, Blanks DEF Finish
<1>6. \A s \in Requests : [req[s] EXCEPT !.answer.missed = TRUE] \in Handlers
  BY <1>1 DEF Handlers, Answers
<1>7. ASSUME NEW x \in Handlers, InvalidateThen(r, x)
      PROVE  req' \in [Requests -> Handlers] /\ cache' \in Answers
  BY <1>1, <1>6, <1>7, Blanks DEF InvalidateThen
<1> QED BY <1>1, <1>2, <1>4, <1>5, <1>7

\* The handlers that begin.
LEMMA BeginTypes ==
    ASSUME TypeOK, NEW r \in Requests, Begin(r)
    PROVE  /\ checkout' \in [Refs -> Checkouts] /\ req' \in [Requests -> Handlers]
           /\ UNCHANGED <<plan, schedule, pay, rows, cache, now, faults>>
<1>0. /\ checkout \in [Refs -> Checkouts] /\ schedule \in Schedules \cup {NoSchedule}
      /\ now \in Nat /\ pay \in [Refs -> PayRows]
  BY TypesNamed, Bounds
<1>1. ASSUME NEW c \in Refs, FulfilBegin(r, c)
      PROVE  checkout' \in [Refs -> Checkouts] /\ req' \in [Requests -> Handlers]
             /\ UNCHANGED <<plan, schedule, pay, rows, cache, now, faults>>
  <2> DEFINE x == [Idle EXCEPT !.step = "commit", !.ref = c, !.found = pay[c].status # "absent"]
  <2>1. x \in Handlers
    BY Blanks DEF Handlers, Steps
  <2>2. Start(r, x) /\ UNCHANGED <<plan, schedule, moneyVars, cache, now, faults>>
    BY <1>1 DEF FulfilBegin
  <2> HIDE DEF x
  <2> QED BY <1>0, <2>1, <2>2, HandlerTypes DEF moneyVars
<1>2. ASSUME NEW c \in Refs, NEW p \in Plans, CheckoutBegin(r, p, c)
      PROVE  checkout' \in [Refs -> Checkouts] /\ req' \in [Requests -> Handlers]
             /\ UNCHANGED <<plan, schedule, pay, rows, cache, now, faults>>
  <2> DEFINE credit == Credit(LatestPaid, plan)
             charge == Charge(Price[p], credit)
             ph == IF charge = 0 THEN "covered" ELSE "opening"
             f == IF credit > 0 THEN LatestPaid ELSE 0
             new == [phase |-> ph, plan |-> p, amount |-> charge, from |-> f, known |-> Paid]
             st == IF charge = 0 THEN "commit" ELSE "send"
             x == [Idle EXCEPT !.step = st, !.ref = c]
  <2>1. /\ p # 0 /\ checkout' = [checkout EXCEPT ![c] = new] /\ Start(r, x)
        /\ UNCHANGED <<plan, schedule, pay, rows, cache, now, faults>>
    BY <1>2 DEF CheckoutBegin
  <2>2. charge \in Nat
    BY <2>1, ChargeIsMoney
  <2>3. ph \in Phases /\ st \in Steps /\ f \in Refs \cup {0} /\ Paid \in SUBSET Refs
    BY LatestPaidIs DEF Phases, Steps, Paid
  <2> HIDE DEF charge, ph, f, st
  <2>4. new \in Checkouts
    BY <2>2, <2>3 DEF Checkouts
  <2>5. x \in Handlers
    BY <2>3, Blanks DEF Handlers
  <2> HIDE DEF new, x
  <2> QED BY <1>0, <2>1, <2>4, <2>5, HandlerTypes
<1>3. ASSUME NEW p \in Plans, DowngradeBegin(r, p)
      PROVE  checkout' \in [Refs -> Checkouts] /\ req' \in [Requests -> Handlers]
             /\ UNCHANGED <<plan, schedule, pay, rows, cache, now, faults>>
  <2> DEFINE x == [Idle EXCEPT !.step = "schedule", !.to = p, !.at = PeriodEnd(LatestPaid)]
             y == [Idle EXCEPT !.step = "drop", !.to = p]
             waits == LatestPaid # 0 /\ PeriodEnd(LatestPaid) > now
  <2>1. /\ Start(r, IF waits THEN x ELSE y)
        /\ UNCHANGED <<plan, schedule, moneyVars, cache, now, faults>>
    BY <1>3 DEF DowngradeBegin
  <2>2. y \in Handlers
    BY Blanks DEF Handlers, Steps
  <2>3. waits => x \in Handlers
    <3>1. waits => LatestPaid \in Refs
      BY LatestPaidIs
    <3>2. waits => PeriodEnd(LatestPaid) \in Nat
      <4>1. waits => pay[LatestPaid].at \in Nat
        BY <1>0, <3>1 DEF PayRows
      <4> QED BY <4>1, Bounds DEF PeriodEnd
    <3> QED BY <3>2, Blanks DEF Handlers, Steps
  <2> HIDE DEF x, y, waits
  <2> QED BY <1>0, <2>1, <2>2, <2>3, HandlerTypes DEF moneyVars
<1>4. ASSUME AccessBegin(r)
      PROVE  checkout' \in [Refs -> Checkouts] /\ req' \in [Requests -> Handlers]
             /\ UNCHANGED <<plan, schedule, pay, rows, cache, now, faults>>
  <2> DEFINE x == [Idle EXCEPT !.step = "apply", !.to = schedule.plan]
  <2>1. /\ UNCHANGED <<plan, schedule, moneyVars, cache, now, faults>>
        /\ (schedule # NoSchedule /\ Start(r, x)) \/ Start(r, Filling)
    BY <1>4 DEF AccessBegin
  <2>2. Filling \in Handlers
    BY Blanks DEF Filling, Handlers, Steps, Answers
  <2>3. schedule # NoSchedule => x \in Handlers
    BY <1>0, Blanks DEF Handlers, Steps, Schedules
  <2> HIDE DEF x
  <2> QED BY <1>0, <2>1, <2>2, <2>3, HandlerTypes DEF moneyVars
<1> QED BY <1>1, <1>2, <1>3, <1>4 DEF Begin


\* The handlers of a checkout or a fulfilment name a reference.
RefsNamed == \A r \in Requests : req[r].step \in {"send", "commit"} => req[r].ref \in Refs

\* The handlers that continue.
LEMMA ContinueTypes ==
    ASSUME TypeOK, RefsNamed, NEW r \in Requests, Continue(r)
    PROVE  /\ plan' \in Plans /\ schedule' \in Schedules \cup {NoSchedule}
           /\ checkout' \in [Refs -> Checkouts] /\ pay' \in [Refs -> PayRows]
           /\ rows' \in Seq(Refs) /\ cache' \in Answers /\ req' \in [Requests -> Handlers]
           /\ UNCHANGED <<now, faults>>
<1> DEFINE Typed == /\ plan' \in Plans /\ schedule' \in Schedules \cup {NoSchedule}
                    /\ checkout' \in [Refs -> Checkouts] /\ pay' \in [Refs -> PayRows]
                    /\ rows' \in Seq(Refs) /\ cache' \in Answers /\ req' \in [Requests -> Handlers]
                    /\ UNCHANGED <<now, faults>>
<1>0. /\ plan \in Plans /\ schedule \in Schedules \cup {NoSchedule}
      /\ checkout \in [Refs -> Checkouts] /\ pay \in [Refs -> PayRows]
      /\ rows \in Seq(Refs) /\ cache \in Answers /\ now \in Nat
      /\ req[r].to \in Plans /\ req[r].at \in Nat /\ req[r].answer \in Answers
  BY TypesNamed, Bounds DEF Handlers
<1>1. "sent" \in Phases /\ {"clear", "applied"} \subseteq Steps /\ Idle \in Handlers
  BY Blanks DEF Phases, Steps
<1>2. ASSUME CheckoutSend(r) PROVE Typed
  <2>1. PICK c \in Refs : c = req[r].ref
    BY <1>2 DEF CheckoutSend, RefsNamed, At
  <2>2. /\ checkout' = [checkout EXCEPT ![c].phase = "sent"] /\ Finish(r)
        /\ \/ /\ pay' = [pay EXCEPT ![c] = [status |-> "pending", at |-> now]]
              /\ rows' = Append(rows, c)
           \/ UNCHANGED <<pay, rows>>
        /\ UNCHANGED <<plan, schedule, cache, now, faults>>
    BY <1>2, <2>1 DEF CheckoutSend
  <2>3. checkout' \in [Refs -> Checkouts]
    <3>1. [checkout[c] EXCEPT !.phase = "sent"] \in Checkouts
      BY <1>0, <1>1 DEF Checkouts
    <3> QED BY <1>0, <2>2, <3>1
  <2>4. pay' \in [Refs -> PayRows] /\ rows' \in Seq(Refs)
    <3>1. [status |-> "pending", at |-> now] \in PayRows
      BY <1>0 DEF PayRows
    <3>2. Append(rows, c) \in Seq(Refs)
      BY <1>0
    <3> QED BY <1>0, <2>2, <3>1, <3>2
  <2>5. req' \in [Requests -> Handlers]
    BY <2>2, HandlerTypes
  <2> QED BY <1>0, <2>2, <2>3, <2>4, <2>5
<1>3. ASSUME FulfilCommit(r) PROVE Typed
  <2>1. PICK c \in Refs : c = req[r].ref
    BY <1>3 DEF FulfilCommit, RefsNamed, At
  <2>2. /\ plan' = checkout[c].plan /\ Goto(r, "clear")
        /\ UNCHANGED <<schedule, checkout, cache, now, faults>>
        /\ \/ pay' = [pay EXCEPT ![c].status = "success"] /\ UNCHANGED rows
           \/ /\ pay' = [pay EXCEPT ![c] = [status |-> "success", at |-> now]]
              /\ rows' = Append(rows, c)
           \/ UNCHANGED <<pay, rows>>
    BY <1>3, <2>1 DEF FulfilCommit
  <2>3. pay' \in [Refs -> PayRows] /\ rows' \in Seq(Refs)
    <3>1. /\ [status |-> "success", at |-> now] \in PayRows
          /\ [pay[c] EXCEPT !.status = "success"] \in PayRows
      BY <1>0 DEF PayRows
    <3>2. Append(rows, c) \in Seq(Refs)
      BY <1>0
    <3> QED BY <1>0, <2>2, <3>1, <3>2
  <2>4. req' \in [Requests -> Handlers]
    BY <1>1, <2>2, HandlerTypes
  <2>5. plan' \in Plans
    BY <1>0, <2>2 DEF Checkouts
  <2> QED BY <1>0, <2>2, <2>3, <2>4, <2>5
<1>4. ASSUME Clear(r) PROVE Typed
  BY <1>0, <1>1, <1>4, HandlerTypes DEF Clear, moneyVars
<1>5. ASSUME DowngradeWrite(r) PROVE Typed
  <2>1. schedule' \in Schedules
    BY <1>0, <1>5 DEF DowngradeWrite, Schedules
  <2> QED BY <1>0, <1>5, <2>1, HandlerTypes DEF DowngradeWrite, moneyVars
<1>6. ASSUME DowngradeNow(r) \/ ApplyDue(r) PROVE Typed
  BY <1>0, <1>1, <1>6, HandlerTypes DEF DowngradeNow, ApplyDue, moneyVars
<1>7. ASSUME ApplyClear(r) PROVE Typed
  <2>1. Filling \in Handlers
    BY Blanks DEF Filling, Handlers, Steps, Answers
  <2> QED BY <1>0, <1>1, <1>7, <2>1, HandlerTypes DEF ApplyClear, moneyVars
<1>8. ASSUME AccessStore(r) PROVE Typed
  BY <1>0, <1>8, HandlerTypes DEF AccessStore, moneyVars
<1> QED BY <1>2, <1>3, <1>4, <1>5, <1>6, <1>7, <1>8 DEF Continue

\* Every step.
LEMMA NextTypes ==
    ASSUME TypeOK, RefsNamed, Next
    PROVE  TypeOK'
<1>0. /\ plan \in Plans /\ schedule \in Schedules \cup {NoSchedule}
      /\ checkout \in [Refs -> Checkouts] /\ pay \in [Refs -> PayRows]
      /\ rows \in Seq(Refs) /\ cache \in Answers /\ now \in 0..MaxTime
      /\ req \in [Requests -> Handlers] /\ faults \in 0..MaxFaults
  BY TypesNamed
<1>1. disturbed' \in BOOLEAN
  BY DEF Next, TypeOK
<1> DEFINE Typed == /\ plan' \in Plans /\ schedule' \in Schedules \cup {NoSchedule}
                    /\ checkout' \in [Refs -> Checkouts] /\ pay' \in [Refs -> PayRows]
                    /\ rows' \in Seq(Refs) /\ cache' \in Answers /\ now' \in 0..MaxTime
                    /\ req' \in [Requests -> Handlers] /\ faults' \in 0..MaxFaults
<1>2. ASSUME NEW r \in Requests, Begin(r) PROVE Typed
  BY <1>0, <1>2, BeginTypes
<1>3. ASSUME NEW r \in Requests, Continue(r) PROVE Typed
  BY <1>0, <1>3, ContinueTypes
<1>4. ASSUME NEW r \in Requests, GiveUp(r) PROVE Typed
  BY <1>0, <1>4, HandlerTypes DEF GiveUp, moneyVars
<1>5. ASSUME NEW r \in Requests, Die(r) PROVE Typed
  <2>1. faults' \in 0..MaxFaults
    BY <1>0, <1>5, Bounds DEF Die
  <2> QED BY <1>0, <1>5, <2>1, HandlerTypes DEF Die, moneyVars
<1>6. ASSUME NEW c \in Refs, CustomerPays(c) PROVE Typed
  BY <1>0, <1>6 DEF CustomerPays, Checkouts, Phases
<1>7. ASSUME CancelDowngrade \/ CacheExpires PROVE Typed
  BY <1>0, <1>7, Blanks DEF CancelDowngrade, CacheExpires, moneyVars
<1>8. ASSUME Tick PROVE Typed
  <2>1. now' \in 0..MaxTime
    BY <1>0, <1>8, Bounds DEF Tick
  <2> QED BY <1>0, <1>8, <2>1 DEF Tick, moneyVars
<1>9. Typed
  BY <1>2, <1>3, <1>4, <1>5, <1>6, <1>7, <1>8 DEF Next, Step
<1> QED BY <1>1, <1>9 DEF TypeOK, Checkouts, PayRows, Steps, Handlers, Phases

-----------------------------------------------------------------------------
(* The invariant                                                           *)

\* A payment has one row once it has one, and the rows are in the order of their
\* creation.
RowsOK ==
  /\ \A i, j \in 1..Len(rows) : rows[i] = rows[j] => i = j
  /\ \A c \in Refs : pay[c].status # "absent" <=> \E i \in 1..Len(rows) : rows[i] = c
  /\ \A i, j \in 1..Len(rows) : i <= j => pay[rows[i]].at <= pay[rows[j]].at
  /\ \A c \in Refs : pay[c].at <= now

\* A credit comes from a payment received before, whose row is older than that
\* of the checkout it was given to; and nobody who was paid when a checkout was
\* priced was given the same credit.
CheckoutsOK ==
  /\ \A c \in Refs : checkout[c].phase \in {"unused", "opening"} => pay[c].status = "absent"
  /\ \A c \in Refs : checkout[c].phase = "unused" => checkout[c].from = 0 /\ checkout[c].known = {}
  /\ \A c \in Refs : checkout[c].known \subseteq Paid
  /\ \A c \in Refs : checkout[c].from # 0 =>
       /\ checkout[c].from \in Paid
       /\ \A i, j \in 1..Len(rows) : rows[i] = checkout[c].from /\ rows[j] = c => i < j
  /\ \A c, d \in Refs : c \in checkout[d].known /\ checkout[d].from # 0 =>
       checkout[c].from # checkout[d].from

\* A checkout is opened by one handler; a fulfilment that found no row does not
\* meet one that is still to be paid.
HandlersOK ==
  \A r \in Requests :
    /\ At(r, "send") => /\ req[r].ref \in Refs /\ checkout[req[r].ref].phase = "opening"
                        /\ \A s \in Requests \ {r} : At(s, "send") => req[s].ref # req[r].ref
    /\ At(r, "commit") => /\ req[r].ref \in Refs
                          /\ checkout[req[r].ref].phase \in {"covered", "charged"}
                          /\ pay[req[r].ref].status # IF req[r].found THEN "absent" ELSE "pending"

\* Nothing leads to a plan above what was paid.
PaidUpTo(p) == p = 0 \/ \E c \in Paid : checkout[c].plan >= p
PlansOK ==
  /\ PaidUpTo(plan)
  /\ schedule # NoSchedule => PaidUpTo(schedule.plan)
  /\ \A r \in Requests : req[r].step \in {"schedule", "drop", "apply"} => PaidUpTo(req[r].to)

\* Nobody keeps a payer out, except until the invalidation that is due.
Shut(a) == a.open = "no" /\ ~a.missed
DoorOK ==
  /\ Admits
  /\ Shut(cache) \/ \E r \in Requests : At(r, "store") /\ Shut(req[r].answer)
  => faults > 0 \/ \E r \in Requests : At(r, "clear") \/ At(r, "applied")

BillingInv == TypeOK /\ RowsOK /\ CheckoutsOK /\ HandlersOK /\ PlansOK /\ DoorOK

\* A handler under way has a checkout of its own to work on.
LEMMA NamedFromHandlers == HandlersOK => RefsNamed
  BY DEF HandlersOK, RefsNamed, At

\* The invariant holds at the start.
LEMMA InitBillingInv == Init => BillingInv
<1> SUFFICES ASSUME Init PROVE BillingInv
  OBVIOUS
<1>1. TypeOK
  BY InitTypes
<1>2. /\ \A r \in Requests : req[r].step = "idle"
      /\ schedule = NoSchedule /\ cache.open = "unknown"
      /\ \A c \in Refs : checkout[c].from = 0 /\ checkout[c].known = {}
  <2>1. \A c \in Refs : checkout[c].from = 0 /\ checkout[c].known = {}
    <3> DEFINE first(ph) == [NoCheckout EXCEPT !.phase = ph, !.plan = 1, !.amount = Price[1]]
    <3>1. \A ph : first(ph).from = 0 /\ first(ph).known = {}
      BY DEF NoCheckout
    <3>2. \/ checkout = [c \in Refs |-> IF c # 1 THEN NoCheckout ELSE first("charged")]
          \/ checkout = [c \in Refs |-> IF c # 1 THEN NoCheckout ELSE first("opening")]
      BY DEF Init
    <3> HIDE DEF first
    <3> QED BY <3>1, <3>2, Blanks
  <2> QED BY <2>1, Blanks DEF Init
<1>3. HandlersOK /\ DoorOK
  BY <1>2 DEF HandlersOK, DoorOK, At, Shut
<1>4. 1 \in Refs /\ now = 0 /\ NoRow.status = "absent" /\ NoRow.at = 0
  BY Bounds DEF Init, NoRow
<1>5. CASE plan = 1
  <2>1. /\ pay = [c \in Refs |-> IF c # 1 THEN NoRow ELSE [status |-> "success", at |-> 0]]
        /\ rows = <<1>>
        /\ checkout = [c \in Refs |-> IF c # 1 THEN NoCheckout ELSE
             [NoCheckout EXCEPT !.phase = "charged", !.plan = 1, !.amount = Price[1]]]
    BY <1>5 DEF Init
  <2>2. /\ checkout[1].phase = "charged" /\ checkout[1].plan = 1
        /\ pay[1].status = "success" /\ \A c \in Refs : pay[c].at = 0
        /\ \A c \in Refs : c # 1 => pay[c].status = "absent" /\ checkout[c].phase = "unused"
    BY <1>4, <2>1 DEF NoCheckout
  <2>3. Len(rows) = 1 /\ rows[1] = 1
    BY <2>1
  <2>4. \A i \in 1..Len(rows) : i = 1 /\ rows[i] = 1
    BY <2>3
  <2>5. RowsOK
    <3>1. \A c \in Refs : pay[c].status # "absent" <=> \E i \in 1..Len(rows) : rows[i] = c
      BY <2>2, <2>3, <2>4
    <3> QED BY <1>4, <2>2, <2>4, <3>1 DEF RowsOK
  <2>6. CheckoutsOK
    BY <1>2, <2>2 DEF CheckoutsOK
  <2>7. PlansOK
    <3>1. 1 \in Paid /\ checkout[1].plan >= plan
      BY <1>4, <1>5, <2>2 DEF Paid, Succeeded
    <3> QED BY <1>2, <3>1 DEF PlansOK, PaidUpTo
  <2> QED BY <1>1, <1>3, <2>5, <2>6, <2>7 DEF BillingInv
<1>6. CASE plan = 0
  <2>1. pay = [c \in Refs |-> NoRow] /\ rows = << >>
    BY <1>6 DEF Init
  <2>2. \A c \in Refs : pay[c].status = "absent" /\ pay[c].at = 0
    BY <1>4, <2>1
  <2>3. Len(rows) = 0 /\ 1..Len(rows) = {}
    BY <2>1
  <2>4. RowsOK
    BY <1>4, <2>2, <2>3 DEF RowsOK
  <2>5. CheckoutsOK
    BY <1>2, <2>2 DEF CheckoutsOK
  <2>6. PlansOK
    BY <1>2, <1>6 DEF PlansOK, PaidUpTo
  <2> QED BY <1>1, <1>3, <2>4, <2>5, <2>6 DEF BillingInv
<1> QED BY <1>5, <1>6 DEF Init

-----------------------------------------------------------------------------
(* Rows and checkouts                                                      *)

\* A row is added, for a payment that had none, at the present time.
LEMMA RowAppended ==
    ASSUME TypeOK, RowsOK, NEW c \in Refs, pay[c].status = "absent",
           NEW st \in {"pending", "success"}, pay' = [pay EXCEPT ![c] = [status |-> st, at |-> now]],
           rows' = Append(rows, c), now' = now
    PROVE  /\ RowsOK'
           /\ Len(rows') = Len(rows) + 1 /\ Len(rows) \in Nat /\ rows'[Len(rows) + 1] = c
           /\ \A i \in 1..Len(rows) : rows'[i] = rows[i] /\ rows[i] # c /\ rows[i] \in Refs
           /\ \A d \in Refs : d # c => pay'[d] = pay[d]
           /\ pay'[c] = [status |-> st, at |-> now]
<1>1. rows \in Seq(Refs) /\ Len(rows) \in Nat /\ now \in Nat
  BY Bounds DEF TypeOK
<1>2. /\ Len(rows') = Len(rows) + 1 /\ rows'[Len(rows) + 1] = c
      /\ \A i \in 1..Len(rows) : rows'[i] = rows[i] /\ rows[i] \in Refs
  BY <1>1
<1>3. /\ \A d \in Refs : d # c => pay'[d] = pay[d]
      /\ pay'[c] = [status |-> st, at |-> now]
      /\ \A d \in Refs : pay'[d].at \in Nat
  BY <1>1 DEF TypeOK
<1>4. \A i \in 1..Len(rows) : rows[i] # c
  BY DEF RowsOK
<1>5. \A i \in 1..Len(rows') : i \in 1..Len(rows) \/ i = Len(rows) + 1
  BY <1>1, <1>2
<1>6. \A i \in 1..Len(rows) : pay'[rows'[i]] = pay[rows[i]] /\ pay[rows[i]].at <= now
  BY <1>2, <1>3, <1>4 DEF RowsOK
<1>7. \A i, j \in 1..Len(rows') : rows'[i] = rows'[j] => i = j
  BY <1>2, <1>4, <1>5 DEF RowsOK
<1>8. \A d \in Refs : pay'[d].status # "absent" <=> \E i \in 1..Len(rows') : rows'[i] = d
  <2>1. Len(rows) + 1 \in 1..Len(rows')
    BY <1>1, <1>2
  <2>2. \A i \in 1..Len(rows) : i \in 1..Len(rows')
    BY <1>1, <1>2
  <2>3. pay'[c].status # "absent"
    BY <1>3
  <2> QED BY <1>2, <1>3, <1>4, <1>5, <2>1, <2>2, <2>3 DEF RowsOK
<1>9. \A i, j \in 1..Len(rows') : i <= j => pay'[rows'[i]].at <= pay'[rows'[j]].at
  <2> SUFFICES ASSUME NEW i \in 1..Len(rows'), NEW j \in 1..Len(rows'), i <= j
               PROVE  pay'[rows'[i]].at <= pay'[rows'[j]].at
    OBVIOUS
  <2>1. CASE j \in 1..Len(rows)
    <3>1. i \in 1..Len(rows)
      BY <1>1, <2>1
    <3> QED BY <1>6, <2>1, <3>1 DEF RowsOK
  <2>2. CASE j = Len(rows) + 1
    <3>1. pay'[rows'[j]].at = now
      BY <1>2, <1>3, <2>2
    <3>2. pay'[rows'[i]].at <= now
      BY <1>1, <1>2, <1>3, <1>5, <1>6
    <3> QED BY <3>1, <3>2
  <2> QED BY <1>5, <2>1, <2>2
<1>10. \A d \in Refs : pay'[d].at <= now'
  BY <1>1, <1>3 DEF RowsOK
<1> QED BY <1>1, <1>2, <1>3, <1>4, <1>7, <1>8, <1>9, <1>10 DEF RowsOK

\* A row is added for a checkout that was sent or charged.
LEMMA AppendKeeps ==
    ASSUME TypeOK, RowsOK, CheckoutsOK, NEW c \in Refs, pay[c].status = "absent",
           NEW st \in {"pending", "success"}, pay' = [pay EXCEPT ![c] = [status |-> st, at |-> now]],
           rows' = Append(rows, c), now' = now,
           checkout'[c].phase \notin {"unused", "opening"},
           \A d \in Refs : /\ checkout'[d].from = checkout[d].from
                           /\ checkout'[d].known = checkout[d].known
                           /\ d # c => checkout'[d].phase = checkout[d].phase
    PROVE  RowsOK' /\ CheckoutsOK' /\ Paid \subseteq Paid' /\ (st = "success" => c \in Paid')
<1>1. /\ RowsOK'
      /\ Len(rows') = Len(rows) + 1 /\ Len(rows) \in Nat /\ rows'[Len(rows) + 1] = c
      /\ \A i \in 1..Len(rows) : rows'[i] = rows[i] /\ rows[i] # c /\ rows[i] \in Refs
      /\ \A d \in Refs : d # c => pay'[d] = pay[d]
      /\ pay'[c] = [status |-> st, at |-> now]
  BY RowAppended
<1>2. Paid \subseteq Paid' /\ (st = "success" => c \in Paid') /\ c \notin Paid
  BY <1>1 DEF Paid, Succeeded
<1>3. \A d \in Refs : checkout'[d].phase \in {"unused", "opening"} => pay'[d].status = "absent"
  BY <1>1 DEF CheckoutsOK
<1>4. \A d \in Refs : checkout'[d].phase = "unused" => checkout'[d].from = 0 /\ checkout'[d].known = {}
  BY DEF CheckoutsOK
<1>5. \A d \in Refs : checkout'[d].known \subseteq Paid'
  BY <1>2 DEF CheckoutsOK
<1>6. ASSUME NEW d \in Refs, checkout'[d].from # 0
      PROVE  /\ checkout'[d].from \in Paid'
             /\ \A i, j \in 1..Len(rows') : rows'[i] = checkout'[d].from /\ rows'[j] = d => i < j
  <2>1. checkout[d].from \in Paid
    BY <1>6 DEF CheckoutsOK
  <2> SUFFICES ASSUME NEW i \in 1..Len(rows'), NEW j \in 1..Len(rows'),
                      rows'[i] = checkout'[d].from, rows'[j] = d
               PROVE  i < j
    BY <1>2, <2>1
  <2>2. i \in 1..Len(rows)
    BY <1>1, <1>2, <2>1
  <2>3. CASE j \in 1..Len(rows)
    <3>1. rows[i] = checkout[d].from /\ rows[j] = d /\ checkout[d].from # 0
      BY <1>1, <1>6, <2>2, <2>3
    <3> QED BY <2>2, <2>3, <3>1 DEF CheckoutsOK
  <2>4. CASE j \notin 1..Len(rows)
    BY <1>1, <2>2, <2>4
  <2> QED BY <2>3, <2>4
<1>7. \A d, e \in Refs : d \in checkout'[e].known /\ checkout'[e].from # 0 =>
        checkout'[d].from # checkout'[e].from
  BY DEF CheckoutsOK
<1> QED BY <1>1, <1>2, <1>3, <1>4, <1>5, <1>6, <1>7 DEF CheckoutsOK

\* The row that is there is marked as paid.
LEMMA MarkKeeps ==
    ASSUME TypeOK, RowsOK, CheckoutsOK, NEW c \in Refs, pay[c].status # "absent",
           pay' = [pay EXCEPT ![c].status = "success"], UNCHANGED <<rows, checkout, now>>
    PROVE  RowsOK' /\ CheckoutsOK' /\ Paid \subseteq Paid' /\ c \in Paid'
<1>1. /\ \A d \in Refs : d # c => pay'[d] = pay[d]
      /\ pay'[c].status = "success" /\ pay'[c].at = pay[c].at
      /\ \A i \in 1..Len(rows) : rows[i] \in Refs
  BY DEF TypeOK
<1>2. \A d \in Refs : /\ pay'[d].at = pay[d].at
                      /\ pay'[d].status # "absent" <=> pay[d].status # "absent"
  BY <1>1
<1>3. RowsOK'
  BY <1>1, <1>2 DEF RowsOK
<1>4. Paid \subseteq Paid' /\ c \in Paid'
  BY <1>1 DEF Paid, Succeeded
<1>5. CheckoutsOK'
  <2>1. \A d \in Refs : checkout[d].phase \in {"unused", "opening"} => pay'[d].status = "absent"
    BY <1>2 DEF CheckoutsOK
  <2>2. \A d \in Refs : checkout[d].known \subseteq Paid' /\ (checkout[d].from \in Paid => checkout[d].from \in Paid')
    BY <1>4 DEF CheckoutsOK
  <2> QED BY <2>1, <2>2 DEF CheckoutsOK
<1> QED BY <1>3, <1>4, <1>5

\* Payments and rows stay as they are, and so does what checkouts say of credits.
LEMMA MoneyKept ==
    ASSUME TypeOK, RowsOK, CheckoutsOK, UNCHANGED <<pay, rows>>, now' \in Nat, now <= now',
           \A d \in Refs : /\ checkout'[d].from = checkout[d].from
                           /\ checkout'[d].known = checkout[d].known
                           /\ \/ checkout'[d].phase = checkout[d].phase
                              \/ checkout'[d].phase \notin {"unused", "opening"}
    PROVE  RowsOK' /\ CheckoutsOK' /\ Paid' = Paid
<1>1. Paid' = Paid
  BY DEF Paid, Succeeded
<1>2. \A d \in Refs : pay[d].at <= now'
  <2> SUFFICES ASSUME NEW d \in Refs PROVE pay[d].at <= now'
    OBVIOUS
  <2>1. pay[d].at <= now /\ pay[d].at \in Nat /\ now \in Nat
    BY Bounds DEF RowsOK, TypeOK
  <2> QED BY <2>1
<1>3. RowsOK'
  BY <1>2 DEF RowsOK
<1>4. CheckoutsOK'
  <2>1. \A d \in Refs : checkout'[d].phase \in {"unused", "opening"} => pay[d].status = "absent"
    BY DEF CheckoutsOK
  <2>2. \A d \in Refs : checkout'[d].phase = "unused" => checkout[d].from = 0 /\ checkout[d].known = {}
    BY DEF CheckoutsOK
  <2> QED BY <1>1, <2>1, <2>2 DEF CheckoutsOK
<1> QED BY <1>1, <1>3, <1>4

\* A checkout is priced: whoever had been given the credit of the latest payment
\* and has paid since would have a later row.
LEMMA PricingKeeps ==
    ASSUME TypeOK, RowsOK, CheckoutsOK, NEW c \in Refs, checkout[c].phase = "unused",
           NEW new, checkout' = [checkout EXCEPT ![c] = new],
           new.phase # "unused", new.from \in {0, LatestPaid}, new.known = Paid,
           UNCHANGED <<pay, rows, now>>
    PROVE  RowsOK' /\ CheckoutsOK' /\ Paid' = Paid
<1>1. Paid' = Paid /\ RowsOK'
  BY DEF Paid, Succeeded, RowsOK
<1>2. /\ \A d \in Refs : checkout'[d] = IF d = c THEN new ELSE checkout[d]
      /\ pay[c].status = "absent" /\ c \notin Paid
      /\ \A d \in Refs : c \notin checkout[d].known
      /\ \A i \in 1..Len(rows) : rows[i] # c /\ rows[i] \in Refs
      /\ Len(rows) \in Nat
  BY DEF TypeOK, CheckoutsOK, RowsOK, Paid, Succeeded
<1>3. new.from # 0 => \E i \in 1..Len(rows) :
        /\ new.from = rows[i] /\ Succeeded(rows[i])
        /\ \A j \in 1..Len(rows) : Succeeded(rows[j]) => j <= i
  BY LatestPaidIs DEF Places
<1>4. new.from # 0 => new.from \in Paid
  BY <1>2, <1>3 DEF Paid
<1>5. ASSUME NEW d \in Paid, new.from # 0 PROVE checkout[d].from # new.from
  <2> SUFFICES ASSUME checkout[d].from = new.from PROVE FALSE
    OBVIOUS
  <2>1. PICK i \in 1..Len(rows) :
          /\ new.from = rows[i]
          /\ \A j \in 1..Len(rows) : Succeeded(rows[j]) => j <= i
    BY <1>3, <1>5
  <2>2. PICK j \in 1..Len(rows) : rows[j] = d
    BY DEF RowsOK, Paid, Succeeded
  <2>3. i < j
    BY <1>5, <2>1, <2>2 DEF CheckoutsOK, Paid
  <2>4. j <= i
    BY <2>1, <2>2 DEF Paid
  <2> QED BY <1>2, <2>3, <2>4
<1>6. \A d \in Refs : checkout'[d].phase \in {"unused", "opening"} => pay[d].status = "absent"
  BY <1>2 DEF CheckoutsOK
<1>7. \A d \in Refs : checkout'[d].phase = "unused" => checkout'[d].from = 0 /\ checkout'[d].known = {}
  BY <1>2 DEF CheckoutsOK
<1>8. \A d \in Refs : checkout'[d].known \subseteq Paid
  BY <1>2 DEF CheckoutsOK
<1>9. \A d \in Refs : checkout'[d].from # 0 =>
        /\ checkout'[d].from \in Paid
        /\ \A i, j \in 1..Len(rows) : rows[i] = checkout'[d].from /\ rows[j] = d => i < j
  BY <1>2, <1>4 DEF CheckoutsOK
<1>10. ASSUME NEW d \in Refs, NEW e \in Refs, d \in checkout'[e].known, checkout'[e].from # 0
       PROVE  checkout'[d].from # checkout'[e].from
  <2>1. d \in Paid /\ d # c
    BY <1>2, <1>8, <1>10
  <2>2. CASE e = c
    BY <1>2, <1>5, <1>10, <2>1, <2>2
  <2>3. CASE e # c
    BY <1>2, <1>10, <2>1, <2>3 DEF CheckoutsOK
  <2> QED BY <2>2, <2>3
<1>11. CheckoutsOK'
  BY <1>1, <1>6, <1>7, <1>8, <1>9, <1>10 DEF CheckoutsOK
<1> QED BY <1>1, <1>11

-----------------------------------------------------------------------------
(* Handlers, plans and the door                                            *)

\* What the other handlers rely on while r moves.
LEMMA OthersKept ==
    ASSUME HandlersOK, NEW r \in Requests,
           \A s \in Requests \ {r} : /\ req'[s].step = req[s].step /\ req'[s].ref = req[s].ref
                                     /\ req'[s].found = req[s].found,
           \A c \in Refs :
             /\ checkout[c].phase \in {"covered", "charged"} => checkout'[c].phase = checkout[c].phase
             /\ checkout[c].phase = "opening" /\ checkout'[c].phase # "opening"
                  => At(r, "send") /\ req[r].ref = c
             /\ pay'[c].status = "absent" => pay[c].status = "absent"
             /\ pay'[c].status = "pending" => pay[c].status = "pending" \/ checkout[c].phase = "opening",
           At(r, "send")' => /\ req'[r].ref \in Refs /\ checkout'[req'[r].ref].phase = "opening"
                             /\ \A s \in Requests \ {r} : At(s, "send") => req[s].ref # req'[r].ref,
           At(r, "commit")' =>
             /\ req'[r].ref \in Refs
             /\ checkout'[req'[r].ref].phase \in {"covered", "charged"}
             /\ pay'[req'[r].ref].status # IF req'[r].found THEN "absent" ELSE "pending"
    PROVE  HandlersOK'
<1>1. ASSUME NEW s \in Requests, At(s, "send")'
      PROVE  /\ req'[s].ref \in Refs /\ checkout'[req'[s].ref].phase = "opening"
             /\ \A t \in Requests \ {s} : At(t, "send")' => req'[t].ref # req'[s].ref
  BY <1>1 DEF HandlersOK, At
<1>2. ASSUME NEW s \in Requests, At(s, "commit")'
      PROVE  /\ req'[s].ref \in Refs
             /\ checkout'[req'[s].ref].phase \in {"covered", "charged"}
             /\ pay'[req'[s].ref].status # IF req'[s].found THEN "absent" ELSE "pending"
  <2>1. CASE s = r
    BY <1>2, <2>1
  <2>2. CASE s # r
    <3>1. /\ At(s, "commit") /\ req[s].ref \in Refs
          /\ req'[s].ref = req[s].ref /\ req'[s].found = req[s].found
          /\ checkout[req[s].ref].phase \in {"covered", "charged"}
          /\ pay[req[s].ref].status # IF req[s].found THEN "absent" ELSE "pending"
      BY <1>2, <2>2 DEF HandlersOK, At
    <3> QED BY <3>1
  <2> QED BY <2>1, <2>2
<1> QED BY <1>1, <1>2 DEF HandlersOK

\* What was paid for stays paid for.
LEMMA PaidUpToKept ==
    ASSUME Paid \subseteq Paid', \A c \in Paid : checkout'[c].plan = checkout[c].plan
    PROVE  \A p : PaidUpTo(p) => PaidUpTo(p)'
  BY DEF PaidUpTo

\* No plan appears that was not paid for.
LEMMA PlansKept ==
    ASSUME PlansOK, NEW r \in Requests,
           Paid \subseteq Paid', \A c \in Paid : checkout'[c].plan = checkout[c].plan,
           plan' = plan \/ PaidUpTo(plan)',
           schedule' = schedule \/ schedule' = NoSchedule \/ PaidUpTo(schedule.plan)',
           \A s \in Requests \ {r} : req'[s].step = req[s].step /\ req'[s].to = req[s].to,
           req'[r].step \in {"schedule", "drop", "apply"} => PaidUpTo(req[r].to)'
    PROVE  PlansOK'
<1>1. \A p : PaidUpTo(p) => PaidUpTo(p)'
  BY PaidUpToKept
<1>2. PaidUpTo(plan)'
  <2>1. CASE plan' = plan
    BY <1>1, <2>1 DEF PlansOK, PaidUpTo
  <2> QED BY <2>1
<1>3. schedule' # NoSchedule => PaidUpTo(schedule.plan)'
  <2>1. CASE schedule' = schedule
    BY <1>1, <2>1 DEF PlansOK, PaidUpTo
  <2> QED BY <2>1
<1>4. ASSUME NEW s \in Requests, req'[s].step \in {"schedule", "drop", "apply"}
      PROVE  PaidUpTo(req[s].to)'
  <2>1. CASE s = r
    BY <1>4, <2>1
  <2>2. CASE s # r
    BY <1>1, <1>4, <2>2 DEF PlansOK, PaidUpTo
  <2> QED BY <2>1, <2>2
<1> QED BY <1>2, <1>3, <1>4 DEF PlansOK

\* Handlers that will store an answer that says no.
ShutFills == {r \in Requests : At(r, "store") /\ Shut(req[r].answer)}
Invalidators == {r \in Requests : At(r, "clear") \/ At(r, "applied")}

\* The same about the cache, with the handlers it speaks of as sets.
LEMMA DoorNamed ==
    DoorOK <=> (Admits /\ (Shut(cache) \/ ShutFills # {}) => faults > 0 \/ Invalidators # {})
  BY DEF DoorOK, ShutFills, Invalidators

\* Nothing is shut that was not, or it is shut for somebody who may not enter.
LEMMA DoorKept ==
    ASSUME DoorOK,
           \/ Invalidators' # {} \/ faults' > 0
           \/ ~Shut(cache)' /\ (ShutFills' = {} \/ ~Admits')
           \/ /\ Admits' => Admits
              /\ Shut(cache)' => Shut(cache) \/ ShutFills # {}
              /\ ShutFills' # {} /\ Admits' => Shut(cache) \/ ShutFills # {}
              /\ Invalidators = {} /\ ~(faults > 0)
    PROVE  DoorOK'
<1>1. Admits' /\ (Shut(cache)' \/ ShutFills' # {}) => faults' > 0 \/ Invalidators' # {}
  BY DoorNamed
<1> QED BY <1>1 DEF DoorOK, ShutFills, Invalidators

\* Who may enter depends on the plan, the rows and the clock alone.
LEMMA AdmitsSame ==
    ASSUME UNCHANGED <<plan, pay, rows, now>>
    PROVE  Admits' = Admits /\ LatestPaid' = LatestPaid
  BY DEF Admits, LatestPaid, PeriodEnd, Succeeded

\* A pending row does not change who may enter.
LEMMA AdmitsPending ==
    ASSUME TypeOK, RowsOK, NEW c \in Refs, pay[c].status = "absent",
           pay' = [pay EXCEPT ![c] = [status |-> "pending", at |-> now]],
           rows' = Append(rows, c), UNCHANGED <<plan, now>>, TypeOK'
    PROVE  Admits' => Admits
<1>1. /\ Len(rows') = Len(rows) + 1 /\ Len(rows) \in Nat /\ rows'[Len(rows) + 1] = c
      /\ \A i \in 1..Len(rows) : rows'[i] = rows[i] /\ rows[i] # c /\ rows[i] \in Refs
      /\ \A d \in Refs : d # c => pay'[d] = pay[d]
      /\ pay'[c] = [status |-> "pending", at |-> now]
  BY RowAppended
<1>2. \A i : i \in Places' <=> i \in Places
  <2>1. \A i \in 1..Len(rows') : i \in 1..Len(rows) \/ i = Len(rows) + 1
    BY <1>1
  <2>2. \A i \in 1..Len(rows) : i \in 1..Len(rows')
    BY <1>1
  <2>3. ~Succeeded(c)'
    BY <1>1 DEF Succeeded
  <2> QED BY <1>1, <2>1, <2>2, <2>3 DEF Places, Succeeded
<1>3. Places' = Places /\ Places \in SUBSET (1..Len(rows))
  BY <1>2 DEF Places
<1>4. /\ LatestPaid = IF Places = {} THEN 0 ELSE rows[CHOOSE i \in Places : \A j \in Places : j <= i]
      /\ LatestPaid' = IF Places' = {} THEN 0
                       ELSE rows'[CHOOSE i \in Places' : \A j \in Places' : j <= i]
  BY DEF LatestPaid, Places
<1>5. LatestPaid' = LatestPaid /\ (LatestPaid # 0 => pay'[LatestPaid] = pay[LatestPaid])
  <2>1. CASE Places = {}
    BY <1>3, <1>4, <2>1
  <2>2. CASE Places # {}
    <3>1. \E i \in Places : \A j \in Places : j <= i
      BY <1>1, <1>3, <2>2, LastPlace
    <3> DEFINE k == CHOOSE i \in Places : \A j \in Places : j <= i
    <3>2. k \in Places
      BY <3>1
    <3>3. LatestPaid = rows[k] /\ LatestPaid' = rows'[k]
      BY <1>3, <1>4, <2>2
    <3> HIDE DEF k
    <3>4. rows'[k] = rows[k] /\ rows[k] # c /\ rows[k] \in Refs
      BY <1>1, <1>3, <3>2
    <3> QED BY <1>1, <3>3, <3>4
  <2> QED BY <2>1, <2>2
<1> QED BY <1>5 DEF Admits, PeriodEnd

-----------------------------------------------------------------------------
(* Every step                                                              *)

\* A handler that moves on to no reference and no plan, while the money stays.
LEMMA QuietKept ==
    ASSUME BillingInv, NEW r \in Requests, UNCHANGED <<plan, pay, rows, checkout, now>>,
           schedule' \in {schedule, NoSchedule},
           \A s \in Requests \ {r} : /\ req'[s].step = req[s].step /\ req'[s].ref = req[s].ref
                                     /\ req'[s].found = req[s].found /\ req'[s].to = req[s].to,
           req'[r].step \notin {"send", "commit", "schedule", "drop", "apply"}
    PROVE  RowsOK' /\ CheckoutsOK' /\ HandlersOK' /\ PlansOK' /\ Admits' = Admits
<1>0. TypeOK /\ RowsOK /\ CheckoutsOK /\ HandlersOK /\ PlansOK /\ now \in Nat
  BY Bounds DEF BillingInv, TypeOK
<1>1. RowsOK' /\ CheckoutsOK' /\ Paid' = Paid
  BY <1>0, MoneyKept
<1>2. HandlersOK'
  BY <1>0, OthersKept DEF At
<1>3. PlansOK'
  BY <1>0, <1>1, PlansKept
<1> QED BY <1>1, <1>2, <1>3, AdmitsSame

\* What a handler and the others look like after it moved.
LEMMA MovedHandlers ==
    ASSUME TypeOK, NEW r \in Requests
    PROVE  /\ \A x \in Handlers : Start(r, x) \/ InvalidateThen(r, x) =>
                /\ req'[r] = x
                /\ \A s \in Requests \ {r} :
                     /\ req'[s].step = req[s].step /\ req'[s].ref = req[s].ref
                     /\ req'[s].found = req[s].found /\ req'[s].to = req[s].to
           /\ \A x \in Handlers : Start(r, x) =>
                req[r] = Idle /\ \A s \in Requests \ {r} : req'[s] = req[s]
           /\ \A x \in Handlers : InvalidateThen(r, x) =>
                /\ cache' = NoAnswer
                /\ \A s \in Requests \ {r} : At(s, "store")' => req'[s].answer.missed
           /\ \A x \in Steps : Goto(r, x) =>
                /\ req'[r] = [req[r] EXCEPT !.step = x] /\ req'[r].step = x
                /\ \A s \in Requests \ {r} : req'[s] = req[s]
           /\ Finish(r) => req'[r] = Idle /\ \A s \in Requests \ {r} : req'[s] = req[s]
<1>1. req \in [Requests -> Handlers]
  BY TypesNamed
<1>2. ASSUME NEW x \in Handlers, Start(r, x)
      PROVE  req[r] = Idle /\ req'[r] = x /\ \A s \in Requests \ {r} : req'[s] = req[s]
  BY <1>1, <1>2 DEF Start
<1>3. ASSUME NEW x \in Handlers, InvalidateThen(r, x)
      PROVE  /\ cache' = NoAnswer /\ req'[r] = x
             /\ \A s \in Requests \ {r} :
                  /\ req'[s].step = req[s].step /\ req'[s].ref = req[s].ref
                  /\ req'[s].found = req[s].found /\ req'[s].to = req[s].to
                  /\ At(s, "store")' => req'[s].answer.missed
  <2>1. /\ cache' = NoAnswer /\ req'[r] = x
        /\ \A s \in Requests \ {r} : req'[s] = IF At(s, "store")
               THEN [req[s] EXCEPT !.answer.missed = TRUE] ELSE req[s]
    BY <1>3 DEF InvalidateThen
  <2>2. \A s \in Requests :
          LET y == [req[s] EXCEPT !.answer.missed = TRUE]
          IN  /\ y.step = req[s].step /\ y.ref = req[s].ref /\ y.found = req[s].found
              /\ y.to = req[s].to /\ y.answer.missed
    BY <1>1 DEF Handlers, Answers
  <2> QED BY <2>1, <2>2 DEF At
<1>4. ASSUME NEW x \in Steps, Goto(r, x)
      PROVE  /\ req'[r] = [req[r] EXCEPT !.step = x] /\ req'[r].step = x
             /\ \A s \in Requests \ {r} : req'[s] = req[s]
  BY <1>1, <1>4 DEF Goto, Handlers
<1>5. ASSUME Finish(r) PROVE req'[r] = Idle /\ \A s \in Requests \ {r} : req'[s] = req[s]
  BY <1>1, <1>5 DEF Finish
<1> QED BY <1>2, <1>3, <1>4, <1>5

\* A handler that is about to invalidate nothing moves on without shutting out
\* anybody who may enter.
LEMMA DoorQuiet ==
    ASSUME DoorOK, NEW r \in Requests, req[r].step \notin {"clear", "applied"},
           Admits' => Admits, faults' = faults,
           Shut(cache)' => Shut(cache) \/ ShutFills # {},
           \A s \in Requests \ {r} : req'[s] = req[s],
           r \in ShutFills' => ~Admits
    PROVE  DoorOK'
<1>1. \A s \in Requests : s \in Invalidators => s \in Invalidators'
  BY DEF Invalidators, At
<1>2. \A s \in Requests \ {r} : s \in ShutFills' => s \in ShutFills
  BY DEF ShutFills, At, Shut
<1>3. ShutFills' \subseteq Requests /\ Invalidators \subseteq Requests
  BY DEF ShutFills, Invalidators
<1>4. ShutFills' # {} /\ Admits' => Shut(cache) \/ ShutFills # {}
  <2> SUFFICES ASSUME NEW s \in ShutFills', Admits' PROVE ShutFills # {}
    OBVIOUS
  <2>1. s # r /\ s \in Requests
    BY <1>3
  <2> QED BY <1>2, <2>1
<1>5. CASE Invalidators # {} \/ faults > 0
  BY <1>1, <1>3, <1>5, DoorKept
<1>6. CASE ~(Invalidators # {} \/ faults > 0)
  BY <1>4, <1>6, DoorKept
<1> QED BY <1>5, <1>6

\* A charge is about to be fulfilled.
LEMMA FulfilBeginKeeps ==
    ASSUME BillingInv, NEW r \in Requests, NEW c \in Refs, FulfilBegin(r, c)
    PROVE  RowsOK' /\ CheckoutsOK' /\ HandlersOK' /\ PlansOK' /\ DoorOK'
<1>0. TypeOK /\ RowsOK /\ CheckoutsOK /\ HandlersOK /\ PlansOK /\ DoorOK /\ now \in Nat
  BY Bounds DEF BillingInv, TypeOK
<1> DEFINE x == [Idle EXCEPT !.step = "commit", !.ref = c, !.found = pay[c].status # "absent"]
<1>1. /\ Start(r, x) /\ checkout[c].phase = "charged"
      /\ UNCHANGED <<plan, schedule, checkout, pay, rows, cache, now, faults>>
  BY DEF FulfilBegin, moneyVars
<1>2. x \in Handlers /\ x.step = "commit" /\ x.ref = c /\ x.found = (pay[c].status # "absent")
  BY Blanks DEF Handlers, Steps, Idle
<1> HIDE DEF x
<1>3. req'[r] = x /\ req[r] = Idle /\ \A s \in Requests \ {r} : req'[s] = req[s]
  BY <1>0, <1>1, <1>2, MovedHandlers
<1>4. RowsOK' /\ CheckoutsOK' /\ Paid' = Paid
  BY <1>0, <1>1, MoneyKept
<1>5. CheckoutsOK /\ pay[c].status # IF x.found THEN "absent" ELSE "pending"
  BY <1>0, <1>2
<1>6. HandlersOK'
  BY <1>0, <1>1, <1>2, <1>3, <1>5, OthersKept DEF At
<1>7. PlansOK'
  BY <1>0, <1>1, <1>2, <1>3, <1>4, PlansKept
<1>8. DoorOK'
  BY <1>0, <1>1, <1>2, <1>3, Blanks, AdmitsSame, DoorQuiet DEF ShutFills, At
<1> QED BY <1>4, <1>6, <1>7, <1>8

\* A checkout is priced.
LEMMA CheckoutBeginKeeps ==
    ASSUME BillingInv, NEW r \in Requests, NEW c \in Refs, NEW p \in Plans, CheckoutBegin(r, p, c)
    PROVE  RowsOK' /\ CheckoutsOK' /\ HandlersOK' /\ PlansOK' /\ DoorOK'
<1>0. /\ TypeOK /\ RowsOK /\ CheckoutsOK /\ HandlersOK /\ PlansOK /\ DoorOK /\ now \in Nat
      /\ checkout \in [Refs -> Checkouts]
  <2>1. TypeOK /\ RowsOK /\ CheckoutsOK /\ HandlersOK /\ PlansOK /\ DoorOK
    BY DEF BillingInv
  <2>2. checkout \in [Refs -> Checkouts] /\ now \in 0..MaxTime
    BY <2>1, TypesNamed
  <2>3. now \in Nat
    BY <2>2, Bounds
  <2> QED BY <2>1, <2>2, <2>3
<1> DEFINE credit == Credit(LatestPaid, plan)
           charge == Charge(Price[p], credit)
           ph == IF charge = 0 THEN "covered" ELSE "opening"
           f == IF credit > 0 THEN LatestPaid ELSE 0
           new == [phase |-> ph, plan |-> p, amount |-> charge, from |-> f, known |-> Paid]
           st == IF charge = 0 THEN "commit" ELSE "send"
           x == [Idle EXCEPT !.step = st, !.ref = c]
<1>1. /\ Unused(c) /\ checkout' = [checkout EXCEPT ![c] = new] /\ Start(r, x)
      /\ UNCHANGED <<plan, schedule, pay, rows, cache, now, faults>>
  BY DEF CheckoutBegin
<1>2. /\ f \in {0, LatestPaid}
      /\ \/ ph = "covered" /\ st = "commit"
         \/ ph = "opening" /\ st = "send"
  OBVIOUS
<1>3. x \in Handlers /\ x.step = st /\ x.ref = c /\ x.found = FALSE
  BY Blanks DEF Handlers, Steps, Idle
<1>4. new.phase = ph /\ new.from = f /\ new.known = Paid
  OBVIOUS
<1> HIDE DEF x, new, st, ph, f, charge, credit
<1>5. req'[r] = x /\ req[r] = Idle /\ \A s \in Requests \ {r} : req'[s] = req[s]
  BY <1>0, <1>1, <1>3, MovedHandlers
<1>6. checkout[c].phase = "unused" /\ new.phase # "unused"
  BY <1>1, <1>2, <1>4 DEF Unused
<1>7. RowsOK' /\ CheckoutsOK' /\ Paid' = Paid
  <2>1. UNCHANGED <<pay, rows, now>> /\ new.from \in {0, LatestPaid} /\ new.known = Paid
    BY <1>1, <1>2, <1>4
  <2> QED BY <1>0, <1>1, <1>6, <2>1, PricingKeeps
<1>8. /\ checkout'[c] = new /\ pay[c].status = "absent"
      /\ \A d \in Refs : d # c => checkout'[d] = checkout[d]
  BY <1>0, <1>1, <1>6 DEF CheckoutsOK
<1>9. HandlersOK'
  <2>1. \A d \in Refs :
          /\ checkout[d].phase \in {"covered", "charged"} => checkout'[d].phase = checkout[d].phase
          /\ ~(checkout[d].phase = "opening" /\ checkout'[d].phase # "opening")
    BY <1>6, <1>8
  <2>2. \A s \in Requests : At(s, "send") => req[s].ref # c
    BY <1>0, <1>6 DEF HandlersOK
  <2> QED BY <1>0, <1>1, <1>2, <1>3, <1>4, <1>5, <1>8, <2>1, <2>2, OthersKept DEF At
<1>10. PlansOK'
  <2>1. c \notin Paid
    BY <1>8 DEF Paid, Succeeded
  <2>2. \A d \in Paid : checkout'[d].plan = checkout[d].plan
    BY <1>8, <2>1 DEF Paid
  <2> QED BY <1>0, <1>1, <1>2, <1>3, <1>5, <1>7, <2>2, PlansKept
<1>11. DoorOK'
  BY <1>0, <1>1, <1>2, <1>3, <1>5, Blanks, AdmitsSame, DoorQuiet DEF ShutFills, At
<1> QED BY <1>7, <1>9, <1>10, <1>11

\* A lower plan is asked for, or the answer on access.
LEMMA AskingKeeps ==
    ASSUME BillingInv, NEW r \in Requests,
           (\E p \in Plans : DowngradeBegin(r, p)) \/ AccessBegin(r)
    PROVE  RowsOK' /\ CheckoutsOK' /\ HandlersOK' /\ PlansOK' /\ DoorOK'
<1>0. TypeOK /\ RowsOK /\ CheckoutsOK /\ HandlersOK /\ PlansOK /\ DoorOK /\ now \in Nat
  BY Bounds DEF BillingInv, TypeOK
<1>1. /\ req[r] = Idle /\ \A s \in Requests \ {r} : req'[s] = req[s]
      /\ UNCHANGED <<plan, schedule, checkout, pay, rows, cache, now, faults>>
      /\ req'[r].step \in {"schedule", "drop", "apply", "store"}
      /\ req'[r].step \in {"schedule", "drop", "apply"} => PaidUpTo(req'[r].to)
      /\ req'[r].step = "store" => req'[r] = Filling
  <2>1. ASSUME NEW p \in Plans, DowngradeBegin(r, p)
        PROVE  /\ req[r] = Idle /\ \A s \in Requests \ {r} : req'[s] = req[s]
               /\ req'[r].step \in {"schedule", "drop"} /\ req'[r].to = p /\ p < plan
               /\ UNCHANGED <<plan, schedule, checkout, pay, rows, cache, now, faults>>
    <3> DEFINE x == [Idle EXCEPT !.step = "schedule", !.to = p, !.at = PeriodEnd(LatestPaid)]
               y == [Idle EXCEPT !.step = "drop", !.to = p]
    <3>1. /\ p < plan /\ UNCHANGED <<plan, schedule, checkout, pay, rows, cache, now, faults>>
          /\ Start(r, x) \/ Start(r, y)
      BY <2>1 DEF DowngradeBegin, moneyVars
    <3>2. x.step = "schedule" /\ x.to = p /\ y.step = "drop" /\ y.to = p
      BY DEF Idle
    <3> HIDE DEF x, y
    <3>3. req \in [Requests -> Handlers]
      BY <1>0, TypesNamed
    <3> QED BY <3>1, <3>2, <3>3 DEF Start
  <2>2. ASSUME NEW p \in Plans, p < plan PROVE PaidUpTo(p)
    <3>1. plan \in Nat /\ p \in Nat /\ \A c \in Refs : checkout[c].plan \in Nat
      BY <1>0, Bounds DEF TypeOK
    <3>2. PaidUpTo(plan)
      BY <1>0 DEF PlansOK
    <3>3. PICK c \in Paid : checkout[c].plan >= plan
      BY <2>2, <3>1, <3>2 DEF PaidUpTo
    <3>4. checkout[c].plan >= p
      BY <2>2, <3>1, <3>3 DEF Paid
    <3> QED BY <3>3, <3>4 DEF PaidUpTo
  <2>3. ASSUME AccessBegin(r)
        PROVE  /\ req[r] = Idle /\ \A s \in Requests \ {r} : req'[s] = req[s]
               /\ UNCHANGED <<plan, schedule, checkout, pay, rows, cache, now, faults>>
               /\ \/ req'[r].step = "apply" /\ PaidUpTo(req'[r].to)
                  \/ req'[r].step = "store" /\ req'[r] = Filling
    <3> DEFINE x == [Idle EXCEPT !.step = "apply", !.to = schedule.plan]
    <3>1. /\ UNCHANGED <<plan, schedule, checkout, pay, rows, cache, now, faults>>
          /\ (schedule # NoSchedule /\ Start(r, x)) \/ Start(r, Filling)
      BY <2>3 DEF AccessBegin, moneyVars
    <3>2. x.step = "apply" /\ x.to = schedule.plan /\ Filling.step = "store"
      BY DEF Idle, Filling
    <3>3. schedule # NoSchedule => PaidUpTo(schedule.plan)
      BY <1>0 DEF PlansOK
    <3> HIDE DEF x
    <3>4. req \in [Requests -> Handlers]
      BY <1>0, TypesNamed
    <3> QED BY <3>1, <3>2, <3>3, <3>4 DEF Start
  <2> QED BY <2>1, <2>2, <2>3
<1>2. RowsOK' /\ CheckoutsOK' /\ Paid' = Paid
  BY <1>0, <1>1, MoneyKept
<1>3. HandlersOK'
  BY <1>0, <1>1, OthersKept DEF At
<1>4. PlansOK'
  <2>1. req'[r].step \in {"schedule", "drop", "apply"} => PaidUpTo(req[r].to)'
    BY <1>1, <1>2 DEF PaidUpTo
  <2> QED BY <1>0, <1>1, <1>2, <2>1, PlansKept
<1>5. DoorOK'
  <2>1. Filling.answer.open = "no" => ~Admits
    BY DEF Filling, Idle, NoAnswer
  <2>2. r \in ShutFills' => ~Admits
    BY <1>1, <2>1 DEF ShutFills, At, Shut
  <2> QED BY <1>0, <1>1, <2>2, Blanks, AdmitsSame, DoorQuiet
<1> QED BY <1>2, <1>3, <1>4, <1>5

\* The customer gets the link, and perhaps there is a pending row.
LEMMA CheckoutSendKeeps ==
    ASSUME BillingInv, TypeOK', NEW r \in Requests, CheckoutSend(r)
    PROVE  RowsOK' /\ CheckoutsOK' /\ HandlersOK' /\ PlansOK' /\ DoorOK'
<1>0. TypeOK /\ RowsOK /\ CheckoutsOK /\ HandlersOK /\ PlansOK /\ DoorOK
  BY DEF BillingInv
<1>1. checkout \in [Refs -> Checkouts] /\ now \in Nat /\ pay \in [Refs -> PayRows]
  BY <1>0, TypesNamed, Bounds
<1>2. At(r, "send") /\ Finish(r) /\ UNCHANGED <<plan, schedule, cache, now, faults>>
  BY DEF CheckoutSend
<1>3. PICK c \in Refs : /\ req[r].ref = c /\ checkout[c].phase = "opening"
                        /\ \A s \in Requests \ {r} : At(s, "send") => req[s].ref # c
  BY <1>0, <1>2 DEF HandlersOK
<1>4. /\ checkout' = [checkout EXCEPT ![c].phase = "sent"]
      /\ \/ /\ pay' = [pay EXCEPT ![c] = [status |-> "pending", at |-> now]]
            /\ rows' = Append(rows, c)
         \/ UNCHANGED <<pay, rows>>
  BY <1>3 DEF CheckoutSend
<1>5. req'[r] = Idle /\ \A s \in Requests \ {r} : req'[s] = req[s]
  BY <1>0, <1>2, MovedHandlers
<1>6. /\ checkout'[c].phase = "sent"
      /\ \A d \in Refs : /\ checkout'[d].from = checkout[d].from
                         /\ checkout'[d].known = checkout[d].known
                         /\ checkout'[d].plan = checkout[d].plan
                         /\ d # c => checkout'[d].phase = checkout[d].phase
  BY <1>1, <1>4 DEF Checkouts
<1>7. pay[c].status = "absent"
  BY <1>0, <1>3 DEF CheckoutsOK
<1>8. RowsOK' /\ CheckoutsOK' /\ Paid \subseteq Paid'
  <2>1. CASE UNCHANGED <<pay, rows>>
    BY <1>0, <1>1, <1>2, <1>6, <2>1, MoneyKept
  <2>2. CASE /\ pay' = [pay EXCEPT ![c] = [status |-> "pending", at |-> now]]
             /\ rows' = Append(rows, c)
    BY <1>0, <1>2, <1>6, <1>7, <2>2, AppendKeeps
  <2> QED BY <1>4, <2>1, <2>2
<1>9. HandlersOK'
  <2>1. \A d \in Refs : d # c => pay'[d] = pay[d]
    BY <1>1, <1>4
  <2>2. \A d \in Refs :
          /\ checkout[d].phase \in {"covered", "charged"} => checkout'[d].phase = checkout[d].phase
          /\ checkout[d].phase = "opening" /\ checkout'[d].phase # "opening" => d = c
          /\ pay'[d].status = "absent" => pay[d].status = "absent"
          /\ pay'[d].status = "pending" => pay[d].status = "pending" \/ checkout[d].phase = "opening"
    BY <1>3, <1>6, <1>7, <2>1
  <2> QED BY <1>0, <1>2, <1>3, <1>5, <2>2, Blanks, OthersKept DEF At
<1>10. PlansOK'
  BY <1>0, <1>2, <1>5, <1>6, <1>8, Blanks, PlansKept DEF Paid
<1>11. DoorOK'
  <2>1. Admits' => Admits
    <3>1. CASE UNCHANGED <<pay, rows>>
      BY <1>2, <3>1, AdmitsSame
    <3>2. CASE /\ pay' = [pay EXCEPT ![c] = [status |-> "pending", at |-> now]]
               /\ rows' = Append(rows, c)
      BY <1>0, <1>2, <1>7, <3>2, AdmitsPending
    <3> QED BY <1>4, <3>1, <3>2
  <2>2. r \notin ShutFills'
    BY <1>5, Blanks DEF ShutFills, At
  <2>3. req[r].step \notin {"clear", "applied"} /\ faults' = faults /\ (Shut(cache)' => Shut(cache))
    BY <1>2 DEF At, Shut
  <2> QED BY <1>0, <1>5, <2>1, <2>2, <2>3, DoorQuiet
<1> QED BY <1>8, <1>9, <1>10, <1>11

\* A charge is recorded and its plan is written.
LEMMA FulfilCommitKeeps ==
    ASSUME BillingInv, NEW r \in Requests, FulfilCommit(r)
    PROVE  RowsOK' /\ CheckoutsOK' /\ HandlersOK' /\ PlansOK' /\ DoorOK'
<1>0. TypeOK /\ RowsOK /\ CheckoutsOK /\ HandlersOK /\ PlansOK /\ DoorOK
  BY DEF BillingInv
<1>1. checkout \in [Refs -> Checkouts] /\ now \in Nat /\ pay \in [Refs -> PayRows]
  BY <1>0, TypesNamed, Bounds
<1>2. /\ At(r, "commit") /\ Goto(r, "clear")
      /\ UNCHANGED <<schedule, checkout, cache, now, faults>>
  BY DEF FulfilCommit
<1>3. PICK c \in Refs : /\ req[r].ref = c /\ checkout[c].phase \in {"covered", "charged"}
                        /\ pay[c].status # IF req[r].found THEN "absent" ELSE "pending"
  BY <1>0, <1>2 DEF HandlersOK
<1>4. /\ plan' = checkout[c].plan
      /\ \/ /\ req[r].found /\ pay' = [pay EXCEPT ![c].status = "success"]
            /\ UNCHANGED rows
         \/ /\ pay[c].status = "absent"
            /\ pay' = [pay EXCEPT ![c] = [status |-> "success", at |-> now]]
            /\ rows' = Append(rows, c)
         \/ /\ ~req[r].found /\ pay[c].status # "absent" /\ UNCHANGED <<pay, rows>>
  BY <1>3 DEF FulfilCommit
<1>5. req'[r].step = "clear" /\ \A s \in Requests \ {r} : req'[s] = req[s]
  <2>1. "clear" \in Steps
    BY DEF Steps
  <2> QED BY <1>0, <1>2, <2>1, MovedHandlers
<1>6. RowsOK' /\ CheckoutsOK' /\ Paid \subseteq Paid' /\ c \in Paid'
  <2>1. CASE req[r].found /\ pay' = [pay EXCEPT ![c].status = "success"] /\ UNCHANGED rows
    BY <1>0, <1>2, <1>3, <2>1, MarkKeeps
  <2>2. CASE /\ pay[c].status = "absent"
             /\ pay' = [pay EXCEPT ![c] = [status |-> "success", at |-> now]]
             /\ rows' = Append(rows, c)
    <3>1. checkout'[c].phase \notin {"unused", "opening"}
      BY <1>2, <1>3
    <3> QED BY <1>0, <1>2, <2>2, <3>1, AppendKeeps
  <2>3. CASE ~req[r].found /\ pay[c].status # "absent" /\ UNCHANGED <<pay, rows>>
    <3>1. c \in Paid
      BY <1>1, <1>3, <2>3 DEF Paid, Succeeded, PayRows
    <3> QED BY <1>0, <1>1, <1>2, <2>3, <3>1, MoneyKept
  <2> QED BY <1>4, <2>1, <2>2, <2>3
<1>7. HandlersOK'
  <2>1. \A d \in Refs : /\ d # c => pay'[d] = pay[d]
                        /\ pay'[d].status \in {"success", pay[d].status}
    <3>1. CASE pay' = [pay EXCEPT ![c].status = "success"]
      BY <1>1, <3>1 DEF PayRows
    <3>2. CASE pay' = [pay EXCEPT ![c] = [status |-> "success", at |-> now]]
      BY <1>1, <3>2
    <3>3. CASE pay' = pay
      BY <3>3
    <3> QED BY <1>4, <3>1, <3>2, <3>3
  <2>2. \A d \in Refs : /\ pay'[d].status = "absent" => pay[d].status = "absent"
                        /\ pay'[d].status = "pending" => pay[d].status = "pending"
    BY <2>1
  <2> QED BY <1>0, <1>2, <1>5, <2>2, OthersKept DEF At
<1>8. PlansOK'
  <2>1. PaidUpTo(plan)'
    <3>1. checkout'[c].plan >= plan' /\ c \in Paid'
      BY <1>1, <1>2, <1>4, <1>6, Bounds DEF Checkouts
    <3> QED BY <3>1 DEF PaidUpTo
  <2> QED BY <1>0, <1>2, <1>5, <1>6, <2>1, PlansKept DEF Paid
<1>9. DoorOK'
  <2>1. r \in Invalidators'
    BY <1>5 DEF Invalidators, At
  <2> QED BY <1>0, <2>1, DoorKept
<1> QED BY <1>6, <1>7, <1>8, <1>9

\* The cached answer and the older reads are dropped.
LEMMA InvalidatingKeeps ==
    ASSUME BillingInv, NEW r \in Requests, Clear(r) \/ ApplyClear(r)
    PROVE  RowsOK' /\ CheckoutsOK' /\ HandlersOK' /\ PlansOK' /\ DoorOK'
<1>0. TypeOK /\ RowsOK /\ CheckoutsOK /\ HandlersOK /\ PlansOK /\ DoorOK
  BY DEF BillingInv
<1>1. PICK x \in {Idle, Filling} : InvalidateThen(r, x)
  BY DEF Clear, ApplyClear
<1>2. schedule' = NoSchedule /\ UNCHANGED <<plan, checkout, pay, rows, now, faults>>
  BY DEF Clear, ApplyClear, moneyVars
<1>3. x \in Handlers /\ x.step \in {"idle", "store"} /\ (x.answer.open = "no" => ~Admits)
  <2>1. Filling \in Handlers /\ Filling.step = "store" /\ (Filling.answer.open = "no" => ~Admits)
    BY Blanks DEF Filling, Handlers, Steps, Answers
  <2>2. Idle \in Handlers /\ Idle.step = "idle" /\ Idle.answer.open = "unknown"
    BY Blanks
  <2> QED BY <2>1, <2>2
<1>4. /\ req'[r] = x /\ cache' = NoAnswer
      /\ \A s \in Requests \ {r} :
           /\ req'[s].step = req[s].step /\ req'[s].ref = req[s].ref
           /\ req'[s].found = req[s].found /\ req'[s].to = req[s].to
           /\ At(s, "store")' => req'[s].answer.missed
  BY <1>0, <1>1, <1>3, MovedHandlers
<1>5. RowsOK' /\ CheckoutsOK' /\ HandlersOK' /\ PlansOK' /\ Admits' = Admits
  BY <1>2, <1>3, <1>4, QuietKept
<1>6. DoorOK'
  <2>1. ~Shut(cache)'
    BY <1>4, Blanks DEF Shut
  <2>2. ShutFills' = {} \/ ~Admits'
    <3>1. ASSUME NEW s \in ShutFills' PROVE s = r
      BY <1>4, <3>1 DEF ShutFills, Shut
    <3>2. r \in ShutFills' => ~Admits
      BY <1>3, <1>4 DEF ShutFills, Shut
    <3> QED BY <1>5, <3>1, <3>2
  <2> QED BY <1>0, <2>1, <2>2, DoorKept
<1> QED BY <1>5, <1>6

\* A downgrade is written, at once, later, or because it is due.
LEMMA DowngradingKeeps ==
    ASSUME BillingInv, NEW r \in Requests, DowngradeWrite(r) \/ DowngradeNow(r) \/ ApplyDue(r)
    PROVE  RowsOK' /\ CheckoutsOK' /\ HandlersOK' /\ PlansOK' /\ DoorOK'
<1>0. TypeOK /\ RowsOK /\ CheckoutsOK /\ HandlersOK /\ PlansOK /\ DoorOK /\ now \in Nat
  BY Bounds DEF BillingInv, TypeOK
<1>1. UNCHANGED <<checkout, pay, rows, cache, now, faults>>
  BY DEF DowngradeWrite, DowngradeNow, ApplyDue, moneyVars
<1>2. RowsOK' /\ CheckoutsOK' /\ Paid' = Paid
  BY <1>0, <1>1, MoneyKept
<1>3. req[r].step \in {"schedule", "drop", "apply"} /\ PaidUpTo(req[r].to)
  BY <1>0 DEF DowngradeWrite, DowngradeNow, ApplyDue, At, PlansOK
<1>4. {"clear", "applied"} \subseteq Steps
  BY DEF Steps
<1>5. CASE DowngradeWrite(r)
  <2>1. /\ Finish(r) /\ plan' = plan /\ schedule' = [plan |-> req[r].to, at |-> req[r].at]
    BY <1>5 DEF DowngradeWrite
  <2>2. req'[r] = Idle /\ \A s \in Requests \ {r} : req'[s] = req[s]
    BY <1>0, <2>1, MovedHandlers
  <2>3. HandlersOK'
    BY <1>0, <1>1, <2>2, Blanks, OthersKept DEF At
  <2>4. PaidUpTo(schedule.plan)'
    BY <1>1, <1>2, <1>3, <2>1 DEF PaidUpTo
  <2>5. PlansOK'
    BY <1>0, <1>1, <1>2, <2>1, <2>2, <2>4, Blanks, PlansKept
  <2>6. DoorOK'
    <3>1. r \notin ShutFills' /\ (Shut(cache)' => Shut(cache)) /\ (Admits' => Admits)
      BY <1>1, <2>1, <2>2, Blanks, AdmitsSame DEF ShutFills, At, Shut
    <3> QED BY <1>0, <1>1, <1>3, <2>2, <3>1, DoorQuiet
  <2> QED BY <1>2, <2>3, <2>5, <2>6
<1>6. CASE DowngradeNow(r) \/ ApplyDue(r)
  <2>1. /\ plan' = req[r].to /\ schedule' = schedule
        /\ Goto(r, "clear") \/ Goto(r, "applied")
    BY <1>6 DEF DowngradeNow, ApplyDue
  <2>2. req'[r].step \in {"clear", "applied"} /\ \A s \in Requests \ {r} : req'[s] = req[s]
    BY <1>0, <1>4, <2>1, MovedHandlers
  <2>3. HandlersOK'
    BY <1>0, <1>1, <2>2, OthersKept DEF At
  <2>4. PaidUpTo(plan)'
    BY <1>1, <1>2, <1>3, <2>1 DEF PaidUpTo
  <2>5. PlansOK'
    BY <1>0, <1>1, <1>2, <2>1, <2>2, <2>4, PlansKept
  <2>6. r \in Invalidators'
    BY <2>2 DEF Invalidators, At
  <2>7. DoorOK'
    BY <1>0, <2>6, DoorKept
  <2> QED BY <1>2, <2>3, <2>5, <2>7
<1> QED BY <1>5, <1>6

\* An answer is stored, or a handler ends before its work is done.
LEMMA EndingKeeps ==
    ASSUME BillingInv, NEW r \in Requests, AccessStore(r) \/ GiveUp(r) \/ Die(r)
    PROVE  RowsOK' /\ CheckoutsOK' /\ HandlersOK' /\ PlansOK' /\ DoorOK'
<1>0. TypeOK /\ RowsOK /\ CheckoutsOK /\ HandlersOK /\ PlansOK /\ DoorOK
  BY DEF BillingInv
<1>1. Finish(r) /\ UNCHANGED <<plan, schedule, checkout, pay, rows, now>>
  BY DEF AccessStore, GiveUp, Die, moneyVars
<1>2. req'[r] = Idle /\ \A s \in Requests \ {r} : req'[s] = req[s]
  BY <1>0, <1>1, MovedHandlers
<1>3. RowsOK' /\ CheckoutsOK' /\ HandlersOK' /\ PlansOK' /\ Admits' = Admits
  BY <1>1, <1>2, Blanks, QuietKept
<1>4. r \notin ShutFills'
  BY <1>2, Blanks DEF ShutFills, At
<1>5. CASE Die(r)
  <2>1. faults' > 0
    <3>1. faults \in 0..MaxFaults /\ faults' = faults + 1
      BY <1>0, <1>5, TypesNamed DEF Die
    <3> QED BY <3>1, Bounds
  <2> QED BY <1>0, <1>3, <2>1, DoorKept
<1>6. CASE AccessStore(r) \/ GiveUp(r)
  <2>1. faults' = faults /\ req[r].step \notin {"clear", "applied"}
    BY <1>6 DEF AccessStore, GiveUp, At
  <2>2. Shut(cache)' => Shut(cache) \/ r \in ShutFills
    BY <1>6 DEF AccessStore, GiveUp, ShutFills, Shut
  <2> QED BY <1>0, <1>2, <1>3, <1>4, <2>1, <2>2, DoorQuiet
<1> QED BY <1>3, <1>5, <1>6

\* Paystack, the customer and the clock.
LEMMA OutsideKeeps ==
    ASSUME BillingInv,
           (\E c \in Refs : CustomerPays(c)) \/ CancelDowngrade \/ CacheExpires \/ Tick
    PROVE  RowsOK' /\ CheckoutsOK' /\ HandlersOK' /\ PlansOK' /\ DoorOK'
<1>0. TypeOK /\ RowsOK /\ CheckoutsOK /\ HandlersOK /\ PlansOK /\ DoorOK
  BY DEF BillingInv
<1>1. checkout \in [Refs -> Checkouts] /\ now \in Nat
  BY <1>0, TypesNamed, Bounds
<1>2. /\ UNCHANGED <<plan, pay, rows, req, faults>> /\ now' \in Nat /\ now <= now'
      /\ schedule' \in {schedule, NoSchedule} /\ cache' \in {cache, NoAnswer}
  BY <1>1 DEF CustomerPays, CancelDowngrade, CacheExpires, Tick, moneyVars
<1>3. \A d \in Refs : /\ checkout'[d].from = checkout[d].from
                      /\ checkout'[d].known = checkout[d].known
                      /\ checkout'[d].plan = checkout[d].plan
                      /\ \/ checkout'[d].phase = checkout[d].phase
                         \/ checkout[d].phase = "sent" /\ checkout'[d].phase = "charged"
  <2>1. ASSUME NEW c \in Refs, CustomerPays(c)
        PROVE  checkout[c].phase = "sent" /\ checkout' = [checkout EXCEPT ![c].phase = "charged"]
    BY <2>1 DEF CustomerPays
  <2>2. ASSUME NEW c \in Refs, NEW d \in Refs, checkout[c].phase = "sent",
               checkout' = [checkout EXCEPT ![c].phase = "charged"]
        PROVE  /\ checkout'[d].from = checkout[d].from
               /\ checkout'[d].known = checkout[d].known
               /\ checkout'[d].plan = checkout[d].plan
               /\ \/ checkout'[d].phase = checkout[d].phase
                  \/ checkout[d].phase = "sent" /\ checkout'[d].phase = "charged"
    BY <1>1, <2>2 DEF Checkouts
  <2>3. ASSUME CancelDowngrade \/ CacheExpires \/ Tick PROVE checkout' = checkout
    BY <2>3 DEF CancelDowngrade, CacheExpires, Tick, moneyVars
  <2> QED BY <2>1, <2>2, <2>3
<1>4. RowsOK' /\ CheckoutsOK' /\ Paid' = Paid
  BY <1>0, <1>2, <1>3, MoneyKept
<1>5. HandlersOK'
  BY <1>0, <1>2, <1>3 DEF HandlersOK, At
<1>6. PlansOK'
  <2>1. \A p : PaidUpTo(p) => PaidUpTo(p)'
    BY <1>3, <1>4, PaidUpToKept DEF Paid
  <2>2. PaidUpTo(plan)' /\ (schedule' # NoSchedule => PaidUpTo(schedule.plan)')
    BY <1>0, <1>2, <2>1 DEF PlansOK, PaidUpTo
  <2>3. \A r \in Requests : req'[r].step \in {"schedule", "drop", "apply"} => PaidUpTo(req[r].to)'
    BY <1>0, <1>2, <2>1 DEF PlansOK, PaidUpTo
  <2> QED BY <2>2, <2>3 DEF PlansOK
<1>7. DoorOK'
  <2>1. Admits' => Admits
    <3>1. LatestPaid' = LatestPaid
      BY <1>2 DEF LatestPaid, Succeeded
    <3>2. LatestPaid # 0 => PeriodEnd(LatestPaid) \in Nat /\ PeriodEnd(LatestPaid)' = PeriodEnd(LatestPaid)
      <4>1. LatestPaid \in Refs \cup {0}
        BY <1>0, LatestPaidIs
      <4>2. LatestPaid # 0 => pay[LatestPaid].at \in Nat
        BY <1>0, <4>1, TypesNamed DEF PayRows
      <4> QED BY <1>2, <3>1, <4>2, Bounds DEF PeriodEnd
    <3> QED BY <1>1, <1>2, <3>1, <3>2 DEF Admits
  <2>2. ShutFills' = ShutFills /\ Invalidators' = Invalidators /\ (Shut(cache)' => Shut(cache))
    BY <1>2, Blanks DEF ShutFills, Invalidators, Shut, At
  <2> QED BY <1>0, <1>2, <2>1, <2>2, DoorNamed DEF DoorOK, ShutFills, Invalidators
<1> QED BY <1>4, <1>5, <1>6, <1>7

\* Every step keeps the invariant, one case per action.
LEMMA NextBillingInv == BillingInv /\ [Next]_vars => BillingInv'
<1> SUFFICES ASSUME BillingInv, [Next]_vars PROVE BillingInv'
  OBVIOUS
<1>1. CASE Next
  <2>1. TypeOK'
    BY <1>1, NamedFromHandlers, NextTypes DEF BillingInv
  <2>2. RowsOK' /\ CheckoutsOK' /\ HandlersOK' /\ PlansOK' /\ DoorOK'
    <3>1. ASSUME NEW r \in Requests, Begin(r)
          PROVE  RowsOK' /\ CheckoutsOK' /\ HandlersOK' /\ PlansOK' /\ DoorOK'
      BY <3>1, FulfilBeginKeeps, CheckoutBeginKeeps, AskingKeeps DEF Begin
    <3>2. ASSUME NEW r \in Requests, Continue(r)
          PROVE  RowsOK' /\ CheckoutsOK' /\ HandlersOK' /\ PlansOK' /\ DoorOK'
      BY <2>1, <3>2, CheckoutSendKeeps, FulfilCommitKeeps, InvalidatingKeeps, DowngradingKeeps,
         EndingKeeps DEF Continue
    <3>3. ASSUME NEW r \in Requests, GiveUp(r) \/ Die(r)
          PROVE  RowsOK' /\ CheckoutsOK' /\ HandlersOK' /\ PlansOK' /\ DoorOK'
      BY <3>3, EndingKeeps
    <3>4. Step
      BY <1>1 DEF Next
    <3> QED BY <3>1, <3>2, <3>3, <3>4, OutsideKeeps DEF Step
  <2> QED BY <2>1, <2>2 DEF BillingInv
<1>2. CASE UNCHANGED vars
  <2>1. TypeOK' /\ RowsOK' /\ CheckoutsOK'
    BY <1>2 DEF vars, moneyVars, BillingInv, TypeOK, RowsOK, CheckoutsOK, Paid, Succeeded
  <2>2. HandlersOK' /\ PlansOK'
    BY <1>2 DEF vars, moneyVars, BillingInv, HandlersOK, PlansOK, PaidUpTo, Paid, Succeeded, At
  <2>3. DoorOK'
    <3>1. Admits' = Admits /\ faults' = faults /\ cache' = cache /\ req' = req
      BY <1>2, AdmitsSame DEF vars, moneyVars
    <3>2. Shut(cache)' = Shut(cache) /\ ShutFills' = ShutFills /\ Invalidators' = Invalidators
      BY <3>1 DEF Shut, ShutFills, Invalidators, At
    <3> QED BY <3>1, <3>2, DoorNamed DEF BillingInv, DoorOK, ShutFills, Invalidators
  <2> QED BY <2>1, <2>2, <2>3 DEF BillingInv
<1> QED BY <1>1, <1>2

\* In every behaviour.
LEMMA BillingInvariant == Spec => []BillingInv
  BY InitBillingInv, NextBillingInv, PTL DEF Spec

-----------------------------------------------------------------------------
(* What billing guarantees                                                 *)

\* The variables of billing keep their types: no charge is negative, whatever the
\* credit, and every row is of a checkout there is.
THEOREM BillingTypes == Spec => []TypeOK
<1>1. BillingInv => TypeOK
  BY DEF BillingInv
<1> QED BY <1>1, BillingInvariant, PTL

\* Through races of payments, replays and downgrades no organisation is on a plan
\* above every plan it has paid for (paystackFulfillment.ts, planChange.ts).
THEOREM PlansArePaidFor == Spec => []PlanWasPaidFor
<1>1. BillingInv => PlanWasPaidFor
  BY DEF BillingInv, PlansOK, PaidUpTo, PlanWasPaidFor
<1> QED BY <1>1, BillingInvariant, PTL

\* The unused part of one payment is credited twice only to checkouts left open
\* side by side (subscription.ts prices a checkout before it is paid).
THEOREM CreditIsSpentOnce == Spec => []CreditedTwiceOnlySideBySide
<1>1. BillingInv => CreditedTwiceOnlySideBySide
  BY DEF BillingInv, CheckoutsOK, CreditedTwiceOnlySideBySide, Paid
<1> QED BY <1>1, BillingInvariant, PTL

\* The access cache keeps no payer out beyond the invalidation that is due, except
\* by a fill that read before it (orgSubscriptionAccess.ts).
THEOREM PayersEnter == Spec => []PayerNotLockedOut
<1>1. BillingInv => PayerNotLockedOut
  BY DEF BillingInv, DoorOK, Shut, PayerNotLockedOut
<1> QED BY <1>1, BillingInvariant, PTL

\* The latest payment ends no earlier than any other that was received: the rows
\* are in the order of createdAt.
Runs == \A c \in Refs : Succeeded(c) /\ now <= PeriodEnd(c) => Admits

LEMMA RunsOn == TypeOK /\ RowsOK => Runs
<1> SUFFICES ASSUME TypeOK, RowsOK, NEW c \in Refs, Succeeded(c), now <= PeriodEnd(c)
             PROVE  Admits
  BY DEF Runs
<1>1. rows \in Seq(Refs) /\ pay \in [Refs -> PayRows] /\ now \in Nat /\ Period \in Nat /\ 0 \notin Refs
  BY TypesNamed, Bounds
<1>2. PICK i \in 1..Len(rows) : rows[i] = c
  BY DEF RowsOK, Succeeded
<1>3. i \in Places
  BY <1>2 DEF Places
<1>4. PICK k \in Places : LatestPaid = rows[k] /\ \A j \in Places : j <= k
  BY <1>3, LatestPaidIs
<1>5. i <= k /\ k \in 1..Len(rows)
  BY <1>3, <1>4 DEF Places
<1>6. pay[c].at <= pay[rows[k]].at
  BY <1>2, <1>5 DEF RowsOK
<1>7. rows[k] \in Refs
  BY <1>1, <1>5
<1>8. pay[c].at \in Nat /\ pay[rows[k]].at \in Nat
  BY <1>1, <1>7 DEF PayRows
<1>9. now <= PeriodEnd(LatestPaid) /\ LatestPaid # 0
  BY <1>1, <1>4, <1>6, <1>7, <1>8 DEF PeriodEnd
<1> QED BY <1>9 DEF Admits

\* A payment is received by a fulfilment, at once; its row is dated then, or was
\* pending since it was dated.
LEMMA Received ==
    ASSUME BillingInv, [Next]_vars, NEW c \in Refs,
           pay[c].status # "success", pay'[c].status = "success"
    PROVE  /\ now' = now
           /\ (pay[c].status = "pending" /\ pay'[c].at = pay[c].at) \/ pay'[c].at = now
<1>1. pay \in [Refs -> PayRows]
  BY TypesNamed DEF BillingInv
<1>2. PICK r \in Requests : FulfilCommit(r)
  <2>1. ASSUME NEW r \in Requests, Begin(r) PROVE FALSE
    BY <2>1 DEF Begin, FulfilBegin, CheckoutBegin, DowngradeBegin, AccessBegin, moneyVars
  <2>2. ASSUME NEW r \in Requests, CheckoutSend(r) PROVE FALSE
    <3>1. pay' = [pay EXCEPT ![req[r].ref] = [status |-> "pending", at |-> now]] \/ pay' = pay
      BY <2>2 DEF CheckoutSend
    <3> QED BY <1>1, <3>1
  <2>3. ASSUME NEW r \in Requests, Continue(r), ~FulfilCommit(r) PROVE FALSE
    BY <2>2, <2>3 DEF Continue, Clear, DowngradeWrite, DowngradeNow, ApplyDue, ApplyClear,
       AccessStore, moneyVars
  <2>4. ASSUME NEW r \in Requests, GiveUp(r) \/ Die(r) PROVE FALSE
    BY <2>4 DEF GiveUp, Die, moneyVars
  <2>5. Step
    BY DEF Next, vars, moneyVars
  <2> QED BY <2>1, <2>3, <2>4, <2>5 DEF Step, CustomerPays, CancelDowngrade, CacheExpires, Tick,
             moneyVars
<1>3. now' = now
  BY <1>2 DEF FulfilCommit
<1>4. PICK d : \/ pay' = [pay EXCEPT ![d].status = "success"] /\ pay[d].status # "absent"
               \/ pay' = [pay EXCEPT ![d] = [status |-> "success", at |-> now]]
               \/ pay' = pay
  <2>1. At(r, "commit") /\ (req[r].found => pay[req[r].ref].status # "absent")
    BY <1>2 DEF FulfilCommit, BillingInv, HandlersOK
  <2> QED BY <1>2, <2>1 DEF FulfilCommit
<1>5. d = c
  BY <1>1, <1>4
<1>6. pay[c].status \in {"absent", "pending"}
  BY <1>1 DEF PayRows
<1> QED BY <1>1, <1>3, <1>4, <1>5, <1>6 DEF PayRows

\* A payment received within a period of opening its checkout opens the workspace,
\* in whatever order checkouts are opened and paid and however fulfilments race
\* (subscriptionState.ts takes the latest payment by createdAt).
THEOREM PaymentsOpen == Spec => PaymentAdmits
<1> DEFINE Opens == \A c \in Refs :
              /\ pay[c].status # "success" /\ pay'[c].status = "success"
              /\ pay[c].status = "pending" => now <= PeriodEnd(c)
              => Admits'
<1>1. (TypeOK /\ RowsOK => Runs)'
  BY RunsOn, PTL
<1>2. BillingInv /\ BillingInv' /\ [Next]_vars => [Opens]_vars
  <2> SUFFICES ASSUME BillingInv, BillingInv', [Next]_vars, NEW c \in Refs,
                      pay[c].status # "success", pay'[c].status = "success",
                      pay[c].status = "pending" => now <= PeriodEnd(c)
               PROVE  Admits'
    OBVIOUS
  <2>1. now' = now /\ ((pay[c].status = "pending" /\ pay'[c].at = pay[c].at) \/ pay'[c].at = now)
    BY Received
  <2>2. now \in Nat /\ Period \in Nat
    BY TypesNamed, Bounds DEF BillingInv
  <2>3. Succeeded(c)' /\ now' <= PeriodEnd(c)'
    BY <2>1, <2>2 DEF Succeeded, PeriodEnd
  <2> QED BY <1>1, <2>3 DEF BillingInv, Runs
<1> QED BY <1>2, BillingInvariant, PTL DEF Spec, PaymentAdmits

-----------------------------------------------------------------------------
(* What the organisation sees while handlers run one at a time: the        *)
(* refinement of Entitlement.  A handler that is alone finds at its write  *)
(* what it read at its beginning.                                          *)

\* The downgrade to come, as the organisation sees it.
Seen == IF \E r \in Requests : At(r, "clear") \/ At(r, "applied") THEN NoSchedule ELSE schedule

\* No checkout is for the free plan.
Sold == \A c \in Refs : checkout[c].phase # "unused" => checkout[c].plan # 0

\* What a handler is about to write is still what it was asked for.
Asked(r) ==
  /\ req[r].step = "schedule" => req[r].to < plan /\ req[r].at > now
  /\ req[r].step = "drop" => req[r].to < plan
  /\ req[r].step = "apply" => /\ schedule # NoSchedule /\ schedule.at <= now
                              /\ req[r].to = schedule.plan

OneAtATime == \A r, s \in Busy : r = s
Calm == OneAtATime /\ \A r \in Requests : Asked(r)
CalmInv == IsFiniteSet(Busy) /\ Sold /\ (~disturbed => Calm)

Promised == Promise!Next \/ UNCHANGED Promise!vars

\* Nobody else is under way, before the step or after it.
Alone(r) == \A s \in Requests \ {r} : req[s] = Idle /\ req'[s] = Idle

\* A handler that moves leaves the idle ones idle; one that begins leaves all the
\* others as they are.
LEMMA OneMoves ==
    ASSUME TypeOK, NEW r \in Requests, Begin(r) \/ Continue(r) \/ GiveUp(r) \/ Die(r)
    PROVE  /\ \A s \in Requests \ {r} : req[s] = Idle => req'[s] = Idle
           /\ Begin(r) => /\ req'[r] # Idle
                          /\ \A s \in Requests \ {r} : req'[s] = req[s]
           /\ Continue(r) \/ GiveUp(r) => req[r] # Idle
<1>1. req \in [Requests -> Handlers] /\ Idle.step = "idle"
  BY TypesNamed, Blanks
<1>2. ASSUME NEW x, Start(r, x), x.step # "idle"
      PROVE  req'[r] # Idle /\ \A s \in Requests \ {r} : req'[s] = req[s]
  BY <1>1, <1>2 DEF Start
<1>3. ASSUME Begin(r)
      PROVE  req'[r] # Idle /\ \A s \in Requests \ {r} : req'[s] = req[s]
  <2>1. ASSUME NEW c \in Refs, FulfilBegin(r, c)
        PROVE  req'[r] # Idle /\ \A s \in Requests \ {r} : req'[s] = req[s]
    <3> DEFINE x == [Idle EXCEPT !.step = "commit", !.ref = c, !.found = pay[c].status # "absent"]
    <3>1. Start(r, x) /\ x.step = "commit"
      BY <2>1 DEF FulfilBegin, Idle
    <3> HIDE DEF x
    <3> QED BY <1>2, <3>1
  <2>2. ASSUME NEW c \in Refs, NEW p \in Plans, CheckoutBegin(r, p, c)
        PROVE  req'[r] # Idle /\ \A s \in Requests \ {r} : req'[s] = req[s]
    <3> DEFINE charge == Charge(Price[p], Credit(LatestPaid, plan))
               x == [Idle EXCEPT !.step = IF charge = 0 THEN "commit" ELSE "send", !.ref = c]
    <3>1. Start(r, x)
      BY <2>2 DEF CheckoutBegin
    <3>2. x.step # "idle"
      BY DEF Idle
    <3> HIDE DEF x
    <3> QED BY <1>2, <3>1, <3>2
  <2>3. ASSUME NEW p \in Plans, DowngradeBegin(r, p)
        PROVE  req'[r] # Idle /\ \A s \in Requests \ {r} : req'[s] = req[s]
    <3> DEFINE x == [Idle EXCEPT !.step = "schedule", !.to = p, !.at = PeriodEnd(LatestPaid)]
               y == [Idle EXCEPT !.step = "drop", !.to = p]
    <3>1. Start(r, x) \/ Start(r, y)
      BY <2>3 DEF DowngradeBegin
    <3>2. x.step = "schedule" /\ y.step = "drop"
      BY DEF Idle
    <3> HIDE DEF x, y
    <3> QED BY <1>2, <3>1, <3>2
  <2>4. ASSUME AccessBegin(r)
        PROVE  req'[r] # Idle /\ \A s \in Requests \ {r} : req'[s] = req[s]
    <3> DEFINE x == [Idle EXCEPT !.step = "apply", !.to = schedule.plan]
    <3>1. Start(r, x) \/ Start(r, Filling)
      BY <2>4 DEF AccessBegin
    <3>2. x.step = "apply" /\ Filling.step = "store"
      BY DEF Idle, Filling
    <3> HIDE DEF x
    <3> QED BY <1>2, <3>1, <3>2
  <2> QED BY <1>3, <2>1, <2>2, <2>3, <2>4 DEF Begin
<1>4. ASSUME Continue(r) \/ GiveUp(r) \/ Die(r), NEW s \in Requests \ {r}, req[s] = Idle
      PROVE  req'[s] = Idle
  <2>1. \A x : InvalidateThen(r, x) => req'[s] = Idle
    BY <1>1, <1>4 DEF InvalidateThen, At
  <2>2. \A x : Goto(r, x) => req'[s] = Idle
    BY <1>1, <1>4 DEF Goto
  <2>3. Finish(r) => req'[s] = Idle
    BY <1>1, <1>4 DEF Finish
  <2> QED BY <1>4, <2>1, <2>2, <2>3
      DEF Continue, GiveUp, Die, CheckoutSend, FulfilCommit, Clear, DowngradeWrite, DowngradeNow,
          ApplyDue, ApplyClear, AccessStore
<1>5. Continue(r) \/ GiveUp(r) => req[r] # Idle
  BY <1>1 DEF Continue, GiveUp, CheckoutSend, FulfilCommit, Clear, DowngradeWrite, DowngradeNow,
     ApplyDue, ApplyClear, AccessStore, At
<1> QED BY <1>3, <1>4, <1>5

\* Finitely many handlers are under way.
LEMMA BusyFinite ==
    ASSUME TypeOK, IsFiniteSet(Busy), Step
    PROVE  IsFiniteSet(Busy')
<1>1. CASE req' = req
  <2>1. Busy' = Busy
    BY <1>1 DEF Busy
  <2> QED BY <2>1
<1>2. ASSUME NEW r \in Requests, Begin(r) \/ Continue(r) \/ GiveUp(r) \/ Die(r)
      PROVE  IsFiniteSet(Busy')
  <2>1. Busy' \subseteq Busy \cup {r}
    BY <1>2, OneMoves DEF Busy
  <2>2. IsFiniteSet(Busy \cup {r})
    BY FS_AddElement
  <2> QED BY <2>1, <2>2, FS_Subset
<1> QED BY <1>1, <1>2 DEF Step, CustomerPays, CancelDowngrade, CacheExpires, Tick

\* Undisturbed, at most one is under way after a step.
LEMMA OneAfter ==
    ASSUME IsFiniteSet(Busy'), Next, ~disturbed'
    PROVE  OneAtATime' /\ ~disturbed
<1>1. ~(Cardinality(Busy') > 1) /\ ~disturbed
  BY DEF Next
<1>2. ASSUME NEW r \in Busy', NEW s \in Busy', r # s PROVE FALSE
  <2>1. {r, s} \subseteq Busy' /\ Cardinality({r, s}) = 2
    <3>1. IsFiniteSet({r}) /\ Cardinality({r}) = 1 /\ s \notin {r} /\ {r} \cup {s} = {r, s}
      BY <1>2, FS_Singleton
    <3>2. Cardinality({r} \cup {s}) = Cardinality({r}) + 1
      BY <3>1, FS_AddElement
    <3>3. {r, s} \subseteq Busy'
      BY <1>2
    <3> QED BY <3>1, <3>2, <3>3
  <2>2. 2 <= Cardinality(Busy') /\ Cardinality(Busy') \in Nat
    BY <2>1, FS_Subset, FS_CardinalityType
  <2> QED BY <1>1, <2>2
<1> QED BY <1>1, <1>2 DEF OneAtATime

\* So the one that moves is alone.
LEMMA MovesAlone ==
    ASSUME TypeOK, OneAtATime, OneAtATime', NEW r \in Requests,
           Begin(r) \/ Continue(r) \/ GiveUp(r)
    PROVE  Alone(r)
<1>1. CASE Begin(r)
  BY <1>1, OneMoves DEF OneAtATime, Busy, Alone
<1>2. CASE Continue(r) \/ GiveUp(r)
  BY <1>2, OneMoves DEF OneAtATime, Busy, Alone
<1> QED BY <1>1, <1>2

\* Of a handler alone, its step tells what the organisation sees.
LEMMA SeenAlone ==
    ASSUME NEW r \in Requests, Alone(r)
    PROVE  /\ Seen = IF req[r].step \in {"clear", "applied"} THEN NoSchedule ELSE schedule
           /\ Seen' = IF req'[r].step \in {"clear", "applied"} THEN NoSchedule ELSE schedule'
<1>1. Idle.step = "idle"
  BY Blanks
<1> QED BY <1>1 DEF Seen, Alone, At

\* Nobody under way, the organisation sees the schedule there is.
LEMMA SeenQuiet ==
    ASSUME Busy = {}
    PROVE  Seen = schedule /\ \A r \in Requests : req[r].step = "idle"
<1>1. Idle.step = "idle" /\ \A r \in Requests : req[r] = Idle
  BY Blanks DEF Busy
<1> QED BY <1>1 DEF Seen, At

\* What the organisation sees, spelled out.
LEMMA PromiseNamed ==
    /\ Promise!vars = <<plan, Seen, Paid, now>>
    /\ Promise!vars' = <<plan', Seen', Paid', now'>>
  BY DEF Promise!vars, Seen

LEMMA PromiseSteps ==
    /\ \A c \in Refs : /\ c \notin Paid /\ Paid' = Paid \cup {c} /\ plan' \in Plans \ {0}
                       /\ Seen' = NoSchedule /\ now' = now
                       => Promised
    /\ /\ Seen' \in [plan : {p \in Plans : p < plan}, at : Nat] /\ Seen'.at > now
       /\ plan' = plan /\ Paid' = Paid /\ now' = now
       => Promised
    /\ plan' \in Plans /\ plan' < plan /\ Seen' = NoSchedule /\ Paid' = Paid /\ now' = now => Promised
    /\ Seen' = NoSchedule /\ plan' = plan /\ Paid' = Paid /\ now' = now => Promised
    /\ /\ Seen # NoSchedule /\ Seen.at <= now /\ plan' = Seen.plan /\ Seen' = NoSchedule
       /\ Paid' = Paid /\ now' = now
       => Promised
    /\ now < MaxTime /\ now' = now + 1 /\ plan' = plan /\ Seen' = Seen /\ Paid' = Paid => Promised
    /\ plan' = plan /\ Seen' = Seen /\ Paid' = Paid /\ now' = now => Promised
<1>1. ASSUME NEW c \in Refs, c \notin Paid, Paid' = Paid \cup {c}, plan' \in Plans \ {0},
             Seen' = NoSchedule, now' = now
      PROVE  Promised
  <2>1. Promise!Pay(c)
    BY <1>1 DEF Promise!Pay, Promise!Plans, Plans, Seen
  <2> QED BY <2>1 DEF Promised, Promise!Next
<1>2. ASSUME Seen' \in [plan : {p \in Plans : p < plan}, at : Nat], Seen'.at > now,
             plan' = plan, Paid' = Paid, now' = now
      PROVE  Promised
  <2>1. Promise!ScheduleDowngrade
    BY <1>2 DEF Promise!ScheduleDowngrade, Promise!Plans, Plans, Seen
  <2> QED BY <2>1 DEF Promised, Promise!Next
<1>3. ASSUME plan' \in Plans, plan' < plan, Seen' = NoSchedule, Paid' = Paid, now' = now
      PROVE  Promised
  <2>1. Promise!DowngradeAtOnce
    BY <1>3 DEF Promise!DowngradeAtOnce, Promise!Plans, Plans, Seen
  <2> QED BY <2>1 DEF Promised, Promise!Next
<1>4. ASSUME Seen' = NoSchedule, plan' = plan, Paid' = Paid, now' = now
      PROVE  Promised
  <2>1. Promise!CancelDowngrade
    BY <1>4 DEF Promise!CancelDowngrade, Seen
  <2> QED BY <2>1 DEF Promised, Promise!Next
<1>5. ASSUME Seen # NoSchedule, Seen.at <= now, plan' = Seen.plan, Seen' = NoSchedule,
             Paid' = Paid, now' = now
      PROVE  Promised
  <2>1. Promise!FallDue
    BY <1>5 DEF Promise!FallDue, Seen
  <2> QED BY <2>1 DEF Promised, Promise!Next
<1>6. ASSUME now < MaxTime, now' = now + 1, plan' = plan, Seen' = Seen, Paid' = Paid
      PROVE  Promised
  <2>1. Promise!Tick
    BY <1>6 DEF Promise!Tick, Seen
  <2> QED BY <2>1 DEF Promised, Promise!Next
<1>7. ASSUME plan' = plan, Seen' = Seen, Paid' = Paid, now' = now PROVE Promised
  BY <1>7, PromiseNamed DEF Promised
<1> QED BY <1>1, <1>2, <1>3, <1>4, <1>5, <1>6, <1>7

\* What a handler that begins leaves for the organisation to see.
LEMMA BeginsCalm ==
    ASSUME BillingInv, CalmInv, NEW r \in Requests, Begin(r)
    PROVE  Sold' /\ (Alone(r) => Asked(r)' /\ Promised)
<1>0. /\ checkout \in [Refs -> Checkouts] /\ req \in [Requests -> Handlers] /\ plan \in Plans
      /\ Sold /\ Idle.step = "idle" /\ now \in Nat /\ pay \in [Refs -> PayRows]
  BY TypesNamed, Blanks, Bounds DEF BillingInv, CalmInv
<1>1. UNCHANGED <<plan, schedule, pay, rows, cache, now, faults>>
  BY BeginTypes DEF BillingInv
<1>2. Paid' = Paid
  BY <1>1 DEF Paid, Succeeded
<1>3. ASSUME NEW x, Start(r, x), x.step \in {"commit", "send", "store"}
      PROVE  Alone(r) => Asked(r)' /\ Promised
  <2>1. req[r].step = "idle" /\ req'[r].step = x.step
    BY <1>0, <1>3 DEF Start
  <2>2. Asked(r)'
    BY <1>3, <2>1 DEF Asked
  <2>3. Alone(r) => Seen = schedule /\ Seen' = schedule'
    BY <1>3, <2>1, SeenAlone
  <2> QED BY <1>1, <1>2, <2>2, <2>3, PromiseSteps
<1>4. ASSUME NEW c \in Refs, FulfilBegin(r, c) PROVE Sold' /\ (Alone(r) => Asked(r)' /\ Promised)
  <2> DEFINE x == [Idle EXCEPT !.step = "commit", !.ref = c, !.found = pay[c].status # "absent"]
  <2>1. Start(r, x) /\ x.step = "commit" /\ checkout' = checkout
    BY <1>4 DEF FulfilBegin, Idle, moneyVars
  <2>2. Sold'
    BY <1>0, <2>1 DEF Sold
  <2> HIDE DEF x
  <2> QED BY <1>3, <2>1, <2>2
<1>5. ASSUME NEW c \in Refs, NEW p \in Plans, CheckoutBegin(r, p, c)
      PROVE  Sold' /\ (Alone(r) => Asked(r)' /\ Promised)
  <2> DEFINE credit == Credit(LatestPaid, plan)
             charge == Charge(Price[p], credit)
             ph == IF charge = 0 THEN "covered" ELSE "opening"
             f == IF credit > 0 THEN LatestPaid ELSE 0
             new == [phase |-> ph, plan |-> p, amount |-> charge, from |-> f, known |-> Paid]
             x == [Idle EXCEPT !.step = IF charge = 0 THEN "commit" ELSE "send", !.ref = c]
  <2>1. p # 0 /\ checkout' = [checkout EXCEPT ![c] = new] /\ Start(r, x)
    BY <1>5 DEF CheckoutBegin
  <2>2. x.step \in {"commit", "send"} /\ new.plan = p
    BY DEF Idle
  <2> HIDE DEF x, new
  <2>3. Sold'
    BY <1>0, <2>1, <2>2 DEF Sold
  <2> QED BY <1>3, <2>1, <2>2, <2>3
<1>6. ASSUME NEW p \in Plans, DowngradeBegin(r, p)
      PROVE  Sold' /\ (Alone(r) => Asked(r)' /\ Promised)
  <2> DEFINE x == [Idle EXCEPT !.step = "schedule", !.to = p, !.at = PeriodEnd(LatestPaid)]
             y == [Idle EXCEPT !.step = "drop", !.to = p]
             waits == LatestPaid # 0 /\ PeriodEnd(LatestPaid) > now
  <2>1. p < plan /\ Start(r, IF waits THEN x ELSE y) /\ checkout' = checkout
    BY <1>6 DEF DowngradeBegin, moneyVars
  <2>2. /\ x.step = "schedule" /\ x.to = p /\ x.at = PeriodEnd(LatestPaid)
        /\ y.step = "drop" /\ y.to = p
    BY DEF Idle
  <2>3. Sold'
    BY <1>0, <2>1 DEF Sold
  <2> HIDE DEF x, y
  <2>4. req[r].step = "idle" /\ req'[r] = IF waits THEN x ELSE y
    BY <1>0, <2>1 DEF Start
  <2>5. Asked(r)'
    <3>1. CASE waits
      <4>1. req'[r].step = "schedule" /\ req'[r].to = p /\ req'[r].at > now
        BY <2>2, <2>4, <3>1
      <4> QED BY <1>1, <2>1, <4>1 DEF Asked
    <3>2. CASE ~waits
      <4>1. req'[r].step = "drop" /\ req'[r].to = p
        BY <2>2, <2>4, <3>2
      <4> QED BY <1>1, <2>1, <4>1 DEF Asked
    <3> QED BY <3>1, <3>2
  <2>6. req'[r].step \in {"schedule", "drop"}
    BY <2>2, <2>4
  <2>7. Alone(r) => Seen = schedule /\ Seen' = schedule'
    BY <2>4, <2>6, SeenAlone
  <2> QED BY <1>1, <1>2, <2>3, <2>5, <2>7, PromiseSteps
<1>7. ASSUME AccessBegin(r) PROVE Sold' /\ (Alone(r) => Asked(r)' /\ Promised)
  <2> DEFINE x == [Idle EXCEPT !.step = "apply", !.to = schedule.plan]
  <2>1. Sold'
    <3>1. checkout' = checkout
      BY <1>7 DEF AccessBegin, moneyVars
    <3> QED BY <1>0, <3>1 DEF Sold
  <2>2. CASE schedule # NoSchedule /\ schedule.at <= now
    <3>1. Start(r, x)
      BY <1>7, <2>2 DEF AccessBegin
    <3>2. x.step = "apply" /\ x.to = schedule.plan
      BY DEF Idle
    <3> HIDE DEF x
    <3>3. req[r].step = "idle" /\ req'[r].step = "apply" /\ req'[r].to = schedule.plan
      BY <1>0, <3>1, <3>2 DEF Start
    <3>4. Asked(r)'
      BY <1>1, <2>2, <3>3 DEF Asked
    <3>5. Alone(r) => Seen = schedule /\ Seen' = schedule'
      BY <3>3, SeenAlone
    <3> QED BY <1>1, <1>2, <2>1, <3>4, <3>5, PromiseSteps
  <2>3. CASE ~(schedule # NoSchedule /\ schedule.at <= now)
    <3>1. Start(r, Filling) /\ Filling.step = "store"
      BY <1>7, <2>3 DEF AccessBegin, Filling, Idle
    <3> QED BY <1>3, <2>1, <3>1
  <2> QED BY <2>2, <2>3
<1> QED BY <1>4, <1>5, <1>6, <1>7 DEF Begin

\* What a handler that goes on or gives up does to it.
LEMMA ContinuesCalm ==
    ASSUME BillingInv, BillingInv', CalmInv, NEW r \in Requests, Continue(r) \/ GiveUp(r)
    PROVE  /\ Sold'
           /\ Calm /\ Alone(r) /\ (At(r, "commit") => ~Succeeded(req[r].ref)) => Asked(r)' /\ Promised
<1>0. /\ checkout \in [Refs -> Checkouts] /\ req \in [Requests -> Handlers] /\ plan \in Plans
      /\ Sold /\ Idle.step = "idle" /\ now \in Nat /\ pay \in [Refs -> PayRows]
      /\ HandlersOK /\ CheckoutsOK
  BY TypesNamed, Blanks, Bounds DEF BillingInv, CalmInv
<1>1. now' = now
  BY DEF Continue, GiveUp, CheckoutSend, FulfilCommit, Clear, DowngradeWrite, DowngradeNow,
     ApplyDue, ApplyClear, AccessStore
<1> DEFINE Fine == Calm /\ Alone(r) /\ (At(r, "commit") => ~Succeeded(req[r].ref))
                     => Asked(r)' /\ Promised
<1>2. Finish(r) => req'[r].step = "idle"
  BY <1>0 DEF Finish
<1>3. \A x \in Steps : Goto(r, x) => req'[r].step = x
  BY <1>0 DEF Goto, Handlers
<1>4. \A x : InvalidateThen(r, x) => req'[r] = x
  BY DEF InvalidateThen
<1>5. req'[r].step \in {"idle", "clear", "applied", "store"} => Asked(r)'
  BY DEF Asked
<1>6. ASSUME CheckoutSend(r) PROVE Sold' /\ Fine
  <2>1. PICK c \in Refs : c = req[r].ref /\ checkout[c].phase = "opening"
    BY <1>0, <1>6 DEF CheckoutSend, HandlersOK, At
  <2>2. /\ checkout' = [checkout EXCEPT ![c].phase = "sent"] /\ Finish(r) /\ req[r].step = "send"
        /\ \/ pay' = [pay EXCEPT ![c] = [status |-> "pending", at |-> now]]
           \/ pay' = pay
        /\ plan' = plan /\ schedule' = schedule
    BY <1>6, <2>1 DEF CheckoutSend, At
  <2>3. Sold'
    BY <1>0, <2>1, <2>2 DEF Sold, Checkouts
  <2>4. Paid' = Paid
    <3>1. pay[c].status = "absent"
      BY <1>0, <2>1 DEF CheckoutsOK
    <3>2. \A d \in Refs : pay'[d].status = "success" <=> pay[d].status = "success"
      BY <1>0, <2>2, <3>1
    <3> QED BY <3>2 DEF Paid, Succeeded
  <2>5. req'[r].step = "idle"
    BY <1>2, <2>2
  <2>6. Alone(r) => Seen = schedule /\ Seen' = schedule'
    BY <2>2, <2>5, SeenAlone
  <2> QED BY <1>1, <1>5, <2>2, <2>3, <2>4, <2>5, <2>6, PromiseSteps
<1>7. ASSUME FulfilCommit(r) PROVE Sold' /\ Fine
  <2>1. PICK c \in Refs : /\ c = req[r].ref /\ checkout[c].phase \in {"covered", "charged"}
                          /\ pay[c].status # IF req[r].found THEN "absent" ELSE "pending"
    BY <1>0, <1>7 DEF FulfilCommit, HandlersOK, At
  <2>2. /\ req[r].step = "commit" /\ plan' = checkout[c].plan /\ Goto(r, "clear")
        /\ schedule' = schedule /\ checkout' = checkout
        /\ \/ pay' = [pay EXCEPT ![c].status = "success"] /\ req[r].found
           \/ pay' = [pay EXCEPT ![c] = [status |-> "success", at |-> now]] /\ ~req[r].found
           \/ pay' = pay /\ ~req[r].found /\ pay[c].status # "absent"
    BY <1>0, <1>7, <2>1 DEF FulfilCommit, At, Handlers
  <2>3. Sold'
    BY <1>0, <2>2 DEF Sold
  <2>4. plan' \in Plans \ {0}
    BY <1>0, <2>1, <2>2 DEF Sold, Checkouts
  <2>5. req'[r].step = "clear"
    BY <1>3, <2>2 DEF Steps
  <2>6. ASSUME ~Succeeded(c) PROVE c \notin Paid /\ Paid' = Paid \cup {c}
    <3>1. pay[c].status # "success" /\ pay[c].status \in {"absent", "pending", "success"}
      BY <1>0, <2>6 DEF Succeeded, PayRows
    <3>2. \/ pay' = [pay EXCEPT ![c].status = "success"]
          \/ pay' = [pay EXCEPT ![c] = [status |-> "success", at |-> now]]
      BY <2>1, <2>2, <3>1
    <3>3. \A d \in Refs : pay'[d].status = "success" <=> d = c \/ pay[d].status = "success"
      BY <1>0, <3>2 DEF PayRows
    <3> QED BY <2>6, <3>3 DEF Paid, Succeeded
  <2>7. Alone(r) => Seen' = NoSchedule
    BY <2>5, SeenAlone
  <2>8. ASSUME Alone(r), ~Succeeded(c) PROVE Promised
    BY <1>1, <2>4, <2>6, <2>7, <2>8, PromiseSteps
  <2> QED BY <1>5, <2>1, <2>2, <2>3, <2>5, <2>8 DEF At
<1>8. ASSUME Clear(r) \/ ApplyClear(r) PROVE Sold' /\ Fine
  <2>1. /\ UNCHANGED <<plan, checkout, pay, rows>> /\ schedule' = NoSchedule
        /\ req[r].step \in {"clear", "applied"}
        /\ InvalidateThen(r, Idle) \/ InvalidateThen(r, Filling)
    BY <1>8 DEF Clear, ApplyClear, moneyVars, At
  <2>2. req'[r].step \in {"idle", "store"}
    <3>1. Filling.step = "store"
      BY DEF Filling, Idle
    <3> QED BY <1>0, <1>4, <2>1, <3>1
  <2>3. Sold' /\ Paid' = Paid
    BY <1>0, <2>1 DEF Sold, Paid, Succeeded
  <2>4. Alone(r) => Seen = NoSchedule /\ Seen' = NoSchedule
    BY <2>1, <2>2, SeenAlone
  <2> QED BY <1>1, <1>5, <2>1, <2>2, <2>3, <2>4, PromiseSteps
<1>9. ASSUME DowngradeWrite(r) PROVE Sold' /\ Fine
  <2>1. /\ UNCHANGED <<plan, checkout, pay, rows>> /\ req[r].step = "schedule" /\ Finish(r)
        /\ schedule' = [plan |-> req[r].to, at |-> req[r].at]
    BY <1>9 DEF DowngradeWrite, moneyVars, At
  <2>2. Sold' /\ Paid' = Paid
    BY <1>0, <2>1 DEF Sold, Paid, Succeeded
  <2>3. req'[r].step = "idle" /\ req[r].to \in Plans /\ req[r].at \in Nat
    BY <1>0, <1>2, <2>1 DEF Handlers
  <2>4. ASSUME Calm, Alone(r) PROVE Promised
    <3>1. req[r].to < plan /\ req[r].at > now
      BY <2>1, <2>4 DEF Calm, Asked
    <3>2. Seen' = schedule'
      BY <2>3, <2>4, SeenAlone
    <3>3. Seen' \in [plan : {p \in Plans : p < plan}, at : Nat] /\ Seen'.at > now
      BY <2>1, <2>3, <3>1, <3>2
    <3> QED BY <1>1, <2>1, <2>2, <3>3, PromiseSteps
  <2> QED BY <1>5, <2>2, <2>3, <2>4
<1>10. ASSUME DowngradeNow(r) PROVE Sold' /\ Fine
  <2>1. /\ UNCHANGED <<schedule, checkout, pay, rows>> /\ req[r].step = "drop" /\ Goto(r, "clear")
        /\ plan' = req[r].to
    BY <1>10 DEF DowngradeNow, moneyVars, At
  <2>2. Sold' /\ Paid' = Paid
    BY <1>0, <2>1 DEF Sold, Paid, Succeeded
  <2>3. req'[r].step = "clear" /\ req[r].to \in Plans
    BY <1>0, <1>3, <2>1 DEF Handlers, Steps
  <2>4. ASSUME Calm, Alone(r) PROVE Promised
    <3>1. plan' \in Plans /\ plan' < plan
      BY <2>1, <2>3, <2>4 DEF Calm, Asked
    <3>2. Seen' = NoSchedule
      BY <2>3, <2>4, SeenAlone
    <3> QED BY <1>1, <2>2, <3>1, <3>2, PromiseSteps
  <2> QED BY <1>5, <2>2, <2>3, <2>4
<1>11. ASSUME ApplyDue(r) PROVE Sold' /\ Fine
  <2>1. /\ UNCHANGED <<schedule, checkout, pay, rows>> /\ req[r].step = "apply" /\ Goto(r, "applied")
        /\ plan' = req[r].to
    BY <1>11 DEF ApplyDue, moneyVars, At
  <2>2. Sold' /\ Paid' = Paid
    BY <1>0, <2>1 DEF Sold, Paid, Succeeded
  <2>3. req'[r].step = "applied"
    BY <1>3, <2>1 DEF Steps
  <2>4. ASSUME Calm, Alone(r) PROVE Promised
    <3>1. schedule # NoSchedule /\ schedule.at <= now /\ plan' = schedule.plan
      BY <2>1, <2>4 DEF Calm, Asked
    <3>2. Seen = schedule /\ Seen' = NoSchedule
      BY <2>1, <2>3, <2>4, SeenAlone
    <3> QED BY <1>1, <2>2, <3>1, <3>2, PromiseSteps
  <2> QED BY <1>5, <2>2, <2>3, <2>4
<1>12. ASSUME AccessStore(r) \/ GiveUp(r) PROVE Sold' /\ Fine
  <2>1. /\ UNCHANGED <<plan, schedule, checkout, pay, rows>> /\ Finish(r)
        /\ req[r].step \notin {"clear", "applied"}
    BY <1>12 DEF AccessStore, GiveUp, moneyVars, At
  <2>2. Sold' /\ Paid' = Paid
    BY <1>0, <2>1 DEF Sold, Paid, Succeeded
  <2>3. req'[r].step = "idle"
    BY <1>2, <2>1
  <2>4. Alone(r) => Seen = schedule /\ Seen' = schedule'
    BY <2>1, <2>3, SeenAlone
  <2> QED BY <1>1, <1>5, <2>1, <2>2, <2>3, <2>4, PromiseSteps
<1>13. Sold' /\ Fine
  <2> HIDE DEF Fine
  <2> QED BY <1>6, <1>7, <1>8, <1>9, <1>10, <1>11, <1>12 DEF Continue
<1> QED BY <1>13

\* Nobody can be under way while the schedule is called off or the clock moves.
LEMMA OutsideCalm ==
    ASSUME BillingInv, CalmInv, Next, ~disturbed',
           (\E c \in Refs : CustomerPays(c)) \/ CancelDowngrade \/ CacheExpires \/ Tick
    PROVE  Sold' /\ Calm' /\ Promised
<1>0. /\ checkout \in [Refs -> Checkouts] /\ Sold /\ Calm /\ ~disturbed /\ Busy' = Busy
      /\ now \in Nat
  <2>1. ~disturbed
    BY DEF Next
  <2>2. req' = req
    BY DEF CustomerPays, CancelDowngrade, CacheExpires, Tick
  <2> QED BY <2>1, <2>2, TypesNamed, Bounds DEF BillingInv, CalmInv, Busy
<1>1. UNCHANGED <<plan, pay, req>> /\ Paid' = Paid
  BY DEF CustomerPays, CancelDowngrade, CacheExpires, Tick, moneyVars, Paid, Succeeded
<1>2. OneAtATime'
  BY <1>0 DEF Calm, OneAtATime
<1>3. ASSUME UNCHANGED <<schedule, now>> PROVE Calm' /\ Promised
  <2>1. Seen' = Seen
    BY <1>1, <1>3 DEF Seen, At
  <2>2. \A r \in Requests : Asked(r)'
    BY <1>0, <1>1, <1>3 DEF Calm, Asked
  <2> QED BY <1>1, <1>2, <1>3, <2>1, <2>2, PromiseSteps DEF Calm
<1>4. ASSUME NEW c \in Refs, CustomerPays(c) PROVE Sold' /\ Calm' /\ Promised
  <2>1. checkout' = [checkout EXCEPT ![c].phase = "charged"] /\ checkout[c].phase = "sent"
    BY <1>4 DEF CustomerPays
  <2>2. Sold'
    BY <1>0, <2>1 DEF Sold, Checkouts
  <2> QED BY <1>3, <1>4, <2>2 DEF CustomerPays
<1>5. ASSUME CacheExpires PROVE Sold' /\ Calm' /\ Promised
  BY <1>0, <1>3, <1>5 DEF CacheExpires, moneyVars, Sold
<1>6. ASSUME CancelDowngrade \/ Tick PROVE Sold' /\ Calm' /\ Promised
  <2>1. <<schedule, now>>' # <<schedule, now>>
    BY <1>0, <1>6 DEF CancelDowngrade, Tick
  <2>2. Busy = {} /\ Busy' = {}
    BY <1>0, <1>1, <2>1 DEF Next
  <2>3. Seen = schedule /\ Seen' = schedule' /\ \A r \in Requests : req[r].step = "idle"
    BY <1>1, <2>2, SeenQuiet DEF Seen, At
  <2>4. Calm'
    BY <1>1, <1>2, <2>3 DEF Calm, Asked
  <2>5. Sold'
    BY <1>0, <1>6 DEF Sold, CancelDowngrade, Tick, moneyVars
  <2>6. Promised
    BY <1>1, <1>6, <2>3, PromiseSteps DEF CancelDowngrade, Tick
  <2> QED BY <2>4, <2>5, <2>6
<1> QED BY <1>4, <1>5, <1>6

\* Every step keeps the invariant and is one that was promised.
LEMMA NextCalmInv ==
    ASSUME BillingInv, BillingInv', CalmInv, Next
    PROVE  CalmInv' /\ (disturbed' \/ Promised)
<1>0. TypeOK /\ IsFiniteSet(Busy) /\ Sold /\ Step /\ checkout \in [Refs -> Checkouts]
  BY TypesNamed DEF BillingInv, CalmInv, Next
<1>1. IsFiniteSet(Busy')
  BY <1>0, BusyFinite
<1>2. Sold'
  <2>1. ASSUME UNCHANGED checkout PROVE Sold'
    BY <1>0, <2>1 DEF Sold
  <2>2. ASSUME NEW r \in Requests, Die(r) PROVE Sold'
    BY <2>1, <2>2 DEF Die, moneyVars
  <2>3. ASSUME NEW c \in Refs, CustomerPays(c) PROVE Sold'
    <3>1. checkout' = [checkout EXCEPT ![c].phase = "charged"] /\ checkout[c].phase = "sent"
      BY <2>3 DEF CustomerPays
    <3> QED BY <1>0, <3>1 DEF Sold, Checkouts
  <2> QED BY <1>0, <2>1, <2>2, <2>3, BeginsCalm, ContinuesCalm
      DEF Step, CancelDowngrade, CacheExpires, Tick, moneyVars
<1>3. ASSUME ~disturbed' PROVE Calm' /\ Promised
  <2>1. OneAtATime' /\ ~disturbed
    BY <1>1, <1>3, OneAfter
  <2>2. Calm /\ OneAtATime
    BY <2>1 DEF CalmInv, Calm
  <2>3. ASSUME NEW r \in Requests, Begin(r) \/ Continue(r) \/ GiveUp(r)
        PROVE  Calm' /\ Promised
    <3>1. Alone(r)
      BY <1>0, <2>1, <2>2, <2>3, MovesAlone
    <3>2. At(r, "commit") => ~Succeeded(req[r].ref)
      BY <1>3 DEF Next
    <3>3. Asked(r)' /\ Promised
      BY <2>2, <2>3, <3>1, <3>2, BeginsCalm, ContinuesCalm
    <3>4. \A s \in Requests : Asked(s)'
      <4>1. Idle.step = "idle"
        BY Blanks
      <4>2. \A s \in Requests \ {r} : req'[s].step = "idle"
        BY <3>1, <4>1 DEF Alone
      <4> QED BY <3>3, <4>2 DEF Asked
    <3> QED BY <2>1, <3>3, <3>4 DEF Calm
  <2>4. ASSUME NEW r \in Requests, Die(r) PROVE FALSE
    <3>1. faults' # faults
      BY <1>0, <2>4, Bounds DEF Die, TypeOK
    <3> QED BY <1>3, <3>1 DEF Next
  <2> QED BY <1>0, <1>3, <2>3, <2>4, OutsideCalm DEF Step
<1> QED BY <1>1, <1>2, <1>3 DEF CalmInv

\* While handlers run one at a time and each charge is delivered once, what the
\* organisation sees of its plan, its downgrade and its payments is what Entitlement
\* promises (subscription.ts, paystackFulfillment.ts, planChange.ts).
THEOREM BillingKeepsPromise == Spec => ImplementsEntitlement
<1>1. Init => CalmInv
  <2> SUFFICES ASSUME Init PROVE CalmInv
    OBVIOUS
  <2>1. Busy = {} /\ \A r \in Requests : req[r].step = "idle"
    BY Blanks DEF Init, Busy
  <2>2. Sold
    <3> DEFINE first(ph) == [NoCheckout EXCEPT !.phase = ph, !.plan = 1, !.amount = Price[1]]
    <3>0. \A ph : first(ph).plan = 1
      BY DEF NoCheckout
    <3>1. \A c \in Refs : checkout[c].plan = 1 \/ checkout[c] = NoCheckout
      <4> HIDE DEF first
      <4>1. \/ checkout = [c \in Refs |-> IF c # 1 THEN NoCheckout ELSE first("charged")]
            \/ checkout = [c \in Refs |-> IF c # 1 THEN NoCheckout ELSE first("opening")]
        BY DEF Init, first
      <4> QED BY <3>0, <4>1
    <3> QED BY <3>1, Blanks DEF Sold
  <2>3. IsFiniteSet(Busy)
    BY <2>1, FS_EmptySet
  <2> QED BY <2>1, <2>2, <2>3 DEF CalmInv, Calm, OneAtATime, Asked
<1>2. BillingInv /\ BillingInv' /\ CalmInv /\ [Next]_vars =>
        CalmInv' /\ [disturbed' \/ Promise!Next \/ UNCHANGED Promise!vars]_vars
  <2> SUFFICES ASSUME BillingInv, BillingInv', CalmInv, [Next]_vars
               PROVE  CalmInv' /\ (disturbed' \/ Promised \/ UNCHANGED vars)
    BY DEF Promised
  <2>1. CASE Next
    BY <2>1, NextCalmInv
  <2>2. CASE UNCHANGED vars
    <3>1. UNCHANGED <<plan, schedule, checkout, pay, rows, now, req, disturbed>>
      BY <2>2 DEF vars, moneyVars
    <3>2. Busy' = Busy /\ Sold' = Sold
      BY <3>1 DEF Busy, Sold
    <3>3. Calm' = Calm
      BY <3>1, <3>2 DEF Calm, OneAtATime, Asked
    <3> QED BY <2>2, <3>1, <3>2, <3>3 DEF CalmInv
  <2> QED BY <2>1, <2>2
<1>3. Init => Promise!Init
  <2> SUFFICES ASSUME Init PROVE Promise!Init
    OBVIOUS
  <2>1. plan \in Plans /\ schedule = NoSchedule /\ now = 0 /\ Paid \in SUBSET Refs
    BY Bounds DEF Init, Paid
  <2>2. Seen = NoSchedule
    BY <2>1 DEF Seen
  <2> QED BY <2>1, <2>2 DEF Promise!Init, Promise!Plans, Plans, Seen
<1> QED BY <1>1, <1>2, <1>3, BillingInvariant, PTL DEF Spec, ImplementsEntitlement
=============================================================================
