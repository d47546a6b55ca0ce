-------------------------- MODULE PlanQuotasProofs --------------------------
(***************************************************************************)
(* Proofs about PlanQuotas, for every limit and any number of requests in  *)
(* flight.  A request that was admitted and has not inserted yet has the   *)
(* room it was promised: what is there and what is promised, together, is  *)
(* within the bound.                                                       *)
(***************************************************************************)
EXTENDS PlanQuotas, FiniteSetTheorems, TLAPS

Named == [op : {"project"}, step : {"insert"}, named : BOOLEAN]
Inserted == [op : {"project"}, step : {"bank", "insert bank", "meter"}, project : Nat]
Adding == [op : {"account"}, step : {"insert"}, project : Nat, upload : BOOLEAN]
Uploading == [op : {"upload"}, step : {"seat", "twin", "store"}, account : 1..MaxAccounts]
CallRecords == {NoCall} \cup Named \cup Inserted \cup Adding \cup Uploading

Shape ==
    /\ projects \subseteq Nat
    /\ accounts \subseteq [no : 1..MaxAccounts, project : Nat] /\ IsFiniteSet(accounts)
    /\ copies \in [1..MaxAccounts -> Nat]
    /\ metered \in Nat /\ answered \in Nat
    /\ call \in [Callers -> CallRecords]
    /\ born \in [projects : Nat, accounts : 0..MaxAccounts]

\* The requests that were admitted and have yet to insert.
Creating == {c \in Callers : call[c].op = "project"}
Opening == {c \in Callers : \/ call[c].op = "account"
                            \/ call[c].op = "project" /\ call[c].step = "insert bank"}
Storing(a) == {c \in Callers : call[c].op = "upload" /\ call[c].step = "store" /\ call[c].account = a}

MeterRoom == metered + Cardinality(Creating) < ProjectLimit + Cardinality(Callers)
AccountRoom == Cardinality(accounts) + Cardinality(Opening) < AccountLimit + Cardinality(Callers)
CopyRoom(a) == copies[a] + Cardinality(Storing(a)) <= Cardinality(Callers)

QuotaInv ==
    /\ Shape /\ answered <= metered
    /\ MeterRoom /\ AccountRoom
    /\ \A a \in 1..MaxAccounts : CopyRoom(a)

\* Requests in flight can be counted, and one that leaves makes room.
LEMMA CountedCallers ==
    ASSUME NEW S \in SUBSET Callers, NEW T \in SUBSET S
    PROVE  /\ Cardinality(S) \in Nat /\ Cardinality(T) \in Nat
           /\ Cardinality(T) <= Cardinality(S)
           /\ Cardinality(S) <= Cardinality(Callers)
           /\ Cardinality(Callers) \in Nat \ {0}
           /\ \A c \in S : c \notin T => Cardinality(T) + 1 <= Cardinality(S)
<1>1. IsFiniteSet(Callers) /\ IsFiniteSet(S) /\ IsFiniteSet(T)
  BY QuotasAssumption, FS_Subset
<1>2. /\ Cardinality(S) \in Nat /\ Cardinality(T) \in Nat /\ Cardinality(Callers) \in Nat
      /\ Cardinality(T) <= Cardinality(S) /\ Cardinality(S) <= Cardinality(Callers)
  BY <1>1, FS_Subset, FS_CardinalityType
<1>3. Cardinality(Callers) # 0
  BY <1>1, QuotasAssumption, FS_EmptySet
<1>4. ASSUME NEW c \in S, c \notin T PROVE Cardinality(T) + 1 <= Cardinality(S)
  <2>1. T \in SUBSET (S \ {c}) /\ IsFiniteSet(S \ {c})
    BY <1>1, <1>4, FS_RemoveElement
  <2>2. Cardinality(S \ {c}) = Cardinality(S) - 1
    BY <1>1, FS_RemoveElement
  <2>3. Cardinality(T) <= Cardinality(S \ {c})
    BY <2>1, FS_Subset
  <2> QED BY <1>2, <2>2, <2>3
<1> QED BY <1>2, <1>3, <1>4

\* What one request's move does to the requests admitted.
LEMMA MovedCall ==
    ASSUME Shape, NEW c \in Callers, NEW x \in CallRecords, call' = [call EXCEPT ![c] = x]
    PROVE  /\ call' \in [Callers -> CallRecords]
           /\ Creating' \subseteq Creating \cup (IF x.op = "project" THEN {c} ELSE {})
           /\ Opening' \subseteq Opening \cup
                (IF x.op = "account" \/ (x.op = "project" /\ x.step = "insert bank")
                   THEN {c} ELSE {})
           /\ \A a : Storing(a)' \subseteq Storing(a) \cup
                (IF x.op = "upload" /\ x.step = "store" /\ x.account = a THEN {c} ELSE {})
           /\ c \in Creating' => x.op = "project"
           /\ c \in Opening' => x.op = "account" \/ (x.op = "project" /\ x.step = "insert bank")
           /\ \A a : c \in Storing(a)' => x.op = "upload" /\ x.step = "store" /\ x.account = a
<1>1. call \in [Callers -> CallRecords]
  BY DEF Shape
<1>2. call' \in [Callers -> CallRecords] /\ \A d \in Callers : call'[d] = IF d = c THEN x ELSE call[d]
  BY <1>1
<1> QED BY <1>2 DEF Creating, Opening, Storing

\* The meter of projects after a step.
LEMMA MeterRoomKept ==
    ASSUME QuotaInv, metered' \in Nat,
           \/ metered' = metered /\ Creating' \subseteq Creating
           \/ metered' = metered /\ metered < ProjectLimit
           \/ /\ metered' = metered + 1 /\ Creating' \subseteq Creating
              /\ \E c \in Creating : c \notin Creating'
    PROVE  MeterRoom'
<1>1. Creating \in SUBSET Callers /\ Creating' \in SUBSET Callers
  BY DEF Creating
<1>2. ProjectLimit \in Nat /\ metered \in Nat
  BY QuotasAssumption DEF QuotaInv, Shape
<1>3. CASE Creating' \subseteq Creating
  <2>1. /\ Cardinality(Creating') <= Cardinality(Creating)
        /\ \A c \in Creating : c \notin Creating' => Cardinality(Creating') + 1 <= Cardinality(Creating)
        /\ Cardinality(Creating) \in Nat /\ Cardinality(Creating') \in Nat
        /\ Cardinality(Creating) <= Cardinality(Callers) /\ Cardinality(Callers) \in Nat
    BY <1>1, <1>3, CountedCallers
  <2>2. Cardinality(Creating') <= Cardinality(Callers)
    BY <2>1
  <2> QED BY <1>2, <2>1, <2>2 DEF QuotaInv, MeterRoom
<1>4. CASE metered' = metered /\ metered < ProjectLimit
  <2>1. Cardinality(Creating') \in Nat /\ Cardinality(Creating') <= Cardinality(Callers)
        /\ Cardinality(Callers) \in Nat
    BY <1>1, CountedCallers
  <2> QED BY <1>2, <1>4, <2>1 DEF MeterRoom
<1> QED BY <1>3, <1>4

\* The accounts after a step.
LEMMA AccountRoomKept ==
    ASSUME QuotaInv, IsFiniteSet(accounts'),
           \/ accounts' \subseteq accounts /\ Opening' \subseteq Opening
           \/ accounts' = accounts /\ Cardinality(accounts) < AccountLimit
           \/ /\ \E x : accounts' = accounts \cup {x}
              /\ Opening' \subseteq Opening /\ \E c \in Opening : c \notin Opening'
    PROVE  AccountRoom'
<1>1. Opening \in SUBSET Callers /\ Opening' \in SUBSET Callers
  BY DEF Opening
<1>2. /\ AccountLimit \in Nat /\ IsFiniteSet(accounts)
      /\ Cardinality(accounts) \in Nat /\ Cardinality(accounts') \in Nat
  BY QuotasAssumption, FS_CardinalityType DEF QuotaInv, Shape
<1>3. ASSUME accounts' \subseteq accounts PROVE Cardinality(accounts') <= Cardinality(accounts)
  BY <1>2, <1>3, FS_Subset
<1>4. ASSUME NEW x, accounts' = accounts \cup {x}
      PROVE  Cardinality(accounts') <= Cardinality(accounts) + 1
  BY <1>2, <1>4, FS_AddElement
<1>5. CASE Opening' \subseteq Opening
  <2>1. /\ Cardinality(Opening') <= Cardinality(Opening)
        /\ \A c \in Opening : c \notin Opening' => Cardinality(Opening') + 1 <= Cardinality(Opening)
        /\ Cardinality(Opening) \in Nat /\ Cardinality(Opening') \in Nat
        /\ Cardinality(Opening) <= Cardinality(Callers) /\ Cardinality(Callers) \in Nat
    BY <1>1, <1>5, CountedCallers
  <2>2. CASE accounts' \subseteq accounts
    BY <1>2, <1>3, <2>1, <2>2 DEF QuotaInv, AccountRoom
  <2>3. CASE /\ \E x : accounts' = accounts \cup {x}
             /\ \E c \in Opening : c \notin Opening'
    <3>1. /\ Cardinality(accounts') <= Cardinality(accounts) + 1
          /\ Cardinality(Opening') + 1 <= Cardinality(Opening)
      BY <1>4, <2>1, <2>3
    <3> QED BY <1>2, <2>1, <3>1 DEF QuotaInv, AccountRoom
  <2> QED BY <2>2, <2>3
<1>6. CASE accounts' = accounts /\ Cardinality(accounts) < AccountLimit
  <2>1. Cardinality(Opening') \in Nat /\ Cardinality(Opening') <= Cardinality(Callers)
        /\ Cardinality(Callers) \in Nat
    BY <1>1, CountedCallers
  <2> QED BY <1>2, <1>6, <2>1 DEF AccountRoom
<1> QED BY <1>5, <1>6

\* The copies on one account after a step.
LEMMA CopyRoomKept ==
    ASSUME QuotaInv, NEW a \in 1..MaxAccounts, copies'[a] \in Nat,
           \/ copies'[a] <= copies[a] /\ Storing(a)' \subseteq Storing(a)
           \/ copies'[a] = 0
           \/ /\ copies'[a] <= copies[a] + 1 /\ Storing(a)' \subseteq Storing(a)
              /\ \E c \in Storing(a) : c \notin Storing(a)'
    PROVE  CopyRoom(a)'
<1>1. Storing(a) \in SUBSET Callers /\ Storing(a)' \in SUBSET Callers
  BY DEF Storing
<1>2. copies[a] \in Nat /\ CopyRoom(a)
  BY DEF QuotaInv, Shape
<1>3. CASE Storing(a)' \subseteq Storing(a)
  <2>1. /\ Cardinality(Storing(a)') <= Cardinality(Storing(a))
        /\ \A c \in Storing(a) : c \notin Storing(a)'
              => Cardinality(Storing(a)') + 1 <= Cardinality(Storing(a))
        /\ Cardinality(Storing(a)) \in Nat /\ Cardinality(Storing(a)') \in Nat
        /\ Cardinality(Storing(a)) <= Cardinality(Callers) /\ Cardinality(Callers) \in Nat
    BY <1>1, <1>3, CountedCallers
  <2>2. Cardinality(Storing(a)') <= Cardinality(Callers)
    BY <2>1
  <2> QED BY <1>2, <2>1, <2>2 DEF CopyRoom
<1>4. CASE copies'[a] = 0
  <2>1. Cardinality(Storing(a)') \in Nat /\ Cardinality(Storing(a)') <= Cardinality(Callers)
    BY <1>1, CountedCallers
  <2> QED BY <1>4, <2>1 DEF CopyRoom
<1> QED BY <1>3, <1>4

\* An empty workspace.
LEMMA InitQuotaInv == QuotasInit => QuotaInv
<1> SUFFICES ASSUME QuotasInit PROVE QuotaInv
  OBVIOUS
<1>1. Shape
  BY FS_EmptySet, QuotasAssumption DEF QuotasInit, Shape, CallRecords
<1>2. Creating = {} /\ Opening = {} /\ \A a : Storing(a) = {}
  BY DEF QuotasInit, Creating, Opening, Storing, NoCall
<1>3. Cardinality(Callers) \in Nat \ {0}
  BY CountedCallers
<1>4. Cardinality({}) = 0 /\ ProjectLimit \in Nat /\ AccountLimit \in Nat
  BY FS_EmptySet, QuotasAssumption
<1>5. MeterRoom /\ AccountRoom
  BY <1>2, <1>3, <1>4 DEF QuotasInit, MeterRoom, AccountRoom
<1>6. ASSUME NEW a \in 1..MaxAccounts PROVE CopyRoom(a)
  <2>1. copies[a] = 0 /\ Storing(a) = {}
    BY <1>2 DEF QuotasInit
  <2> QED BY <1>3, <1>4, <2>1 DEF CopyRoom
<1>7. answered <= metered
  BY DEF QuotasInit
<1> QED BY <1>1, <1>5, <1>6, <1>7 DEF QuotaInv

\* A request moves to x and nothing else happens; whoever is admitted has been
\* counted against the cap in the same step.
LEMMA AdmissionKeeps ==
    ASSUME QuotaInv, NEW c \in Callers, NEW x \in CallRecords, call' = [call EXCEPT ![c] = x],
           UNCHANGED <<projects, accounts, copies, metered, answered, born>>,
           x.op = "project" => call[c].op = "project" \/ metered < ProjectLimit,
           x.op = "account" \/ (x.op = "project" /\ x.step = "insert bank")
             => Cardinality(accounts) < AccountLimit,
           x.op = "upload" /\ x.step = "store" => copies[x.account] = 0
    PROVE  QuotaInv'
<1>1. Shape /\ call \in [Callers -> CallRecords]
  BY DEF QuotaInv, Shape
<1>2. Shape'
  BY <1>1, MovedCall DEF Shape
<1>3. Creating' \subseteq Creating \/ metered < ProjectLimit
  <2>1. CASE call[c].op = "project"
    BY <1>1, <2>1, MovedCall DEF Creating
  <2>2. CASE x.op # "project"
    BY <1>1, <2>2, MovedCall
  <2> QED BY <2>1, <2>2
<1>4. Opening' \subseteq Opening \/ Cardinality(accounts) < AccountLimit
  BY <1>1, MovedCall
<1>5. \A a \in 1..MaxAccounts : Storing(a)' \subseteq Storing(a) \/ copies[a] = 0
  BY <1>1, MovedCall
<1>6. MeterRoom'
  BY <1>1, <1>3, MeterRoomKept DEF Shape
<1>7. AccountRoom'
  BY <1>1, <1>4, AccountRoomKept DEF Shape
<1>8. ASSUME NEW a \in 1..MaxAccounts PROVE CopyRoom(a)'
  <2>1. copies'[a] = copies[a] /\ copies[a] \in Nat
    BY <1>1 DEF Shape
  <2>2. copies'[a] \in Nat /\ copies'[a] <= copies[a]
    BY ONLY <2>1
  <2>3. Storing(a)' \subseteq Storing(a) \/ copies'[a] = 0
    BY <1>5, <2>1
  <2>4. QuotaInv
    OBVIOUS
  <2> QED BY ONLY <2>2, <2>3, <2>4, CopyRoomKept
<1> QED BY <1>2, <1>6, <1>7, <1>8 DEF QuotaInv

\* A request that was admitted inserts an account, and moves on.
LEMMA InsertionKeeps ==
    ASSUME QuotaInv, NEW c \in Opening, NEW x \in CallRecords, call' = [call EXCEPT ![c] = x],
           NEW p \in Nat, InsertAccount(p), UNCHANGED <<projects, copies, metered, answered>>,
           x.op = "project" => call[c].op = "project" /\ x.step # "insert bank",
           x.op # "account", x.op = "upload" => x.step = "seat"
    PROVE  QuotaInv'
<1> DEFINE n == born.accounts + 1
           row == [no |-> n, project |-> p]
<1>1. /\ Shape /\ call \in [Callers -> CallRecords] /\ c \in Callers
      /\ born \in [projects : Nat, accounts : 0..MaxAccounts] /\ MaxAccounts \in Nat
  BY QuotasAssumption DEF QuotaInv, Shape, Opening
<1>2. /\ accounts' = accounts \cup {row} /\ born' = [born EXCEPT !.accounts = n]
      /\ n \in 1..MaxAccounts
  <2>1. /\ accounts' = accounts \cup {row} /\ born' = [born EXCEPT !.accounts = n]
        /\ born.accounts < MaxAccounts
    BY DEF InsertAccount
  <2>2. born.accounts \in 0..MaxAccounts
    BY <1>1
  <2>3. n \in 1..MaxAccounts
    <3>1. MaxAccounts \in Nat
      BY <1>1
    <3> QED BY ONLY <2>1, <2>2, <3>1
  <2> QED BY <2>1, <2>3
<1>3. IsFiniteSet(accounts')
  <2>1. IsFiniteSet(accounts)
    BY <1>1 DEF Shape
  <2> QED BY <1>2, <2>1, FS_AddElement
<1> HIDE DEF n
<1>4. Shape'
  <2>1. born' \in [projects : Nat, accounts : 0..MaxAccounts]
    <3>1. n \in 0..MaxAccounts
      BY ONLY <1>1, <1>2
    <3> QED BY <1>1, <1>2, <3>1
  <2>2. call' \in [Callers -> CallRecords]
    BY <1>1, MovedCall
  <2>3. row \in [no : 1..MaxAccounts, project : Nat]
    BY <1>2
  <2>4. accounts' \subseteq [no : 1..MaxAccounts, project : Nat]
    BY <1>1, <1>2, <2>3 DEF Shape
  <2> QED BY <1>1, <1>3, <2>1, <2>2, <2>4 DEF Shape
<1>5. Creating' \subseteq Creating
  BY <1>1, MovedCall DEF Creating
<1>6. Opening' \subseteq Opening /\ c \notin Opening'
  BY <1>1, MovedCall
<1>7. \A a : Storing(a)' \subseteq Storing(a)
  BY <1>1, MovedCall
<1>8. MeterRoom'
  BY <1>1, <1>5, MeterRoomKept DEF Shape
<1>9. AccountRoom'
  BY <1>2, <1>3, <1>6, AccountRoomKept
<1>10. ASSUME NEW a \in 1..MaxAccounts PROVE CopyRoom(a)'
  <2>1. copies'[a] = copies[a] /\ copies[a] \in Nat
    BY <1>1 DEF Shape
  <2>2. copies'[a] \in Nat /\ copies'[a] <= copies[a]
    BY ONLY <2>1
  <2>3. Storing(a)' \subseteq Storing(a)
    BY <1>7
  <2>4. QuotaInv
    OBVIOUS
  <2> QED BY ONLY <2>2, <2>3, <2>4, CopyRoomKept
<1> QED BY <1>4, <1>8, <1>9, <1>10 DEF QuotaInv

\* No request takes more room than it was promised.
LEMMA NextQuotaInv == QuotaInv /\ [QuotasNext]_quotaVars => QuotaInv'
<1> SUFFICES ASSUME QuotaInv, [QuotasNext]_quotaVars PROVE QuotaInv'
  OBVIOUS
<1>0. /\ Shape /\ call \in [Callers -> CallRecords] /\ \A c \in Callers : call[c] \in CallRecords
      /\ NoCall \in CallRecords /\ NoCall.op = "idle" /\ MaxAccounts \in Nat
  BY QuotasAssumption DEF QuotaInv, Shape, CallRecords, NoCall
<1>1. ASSUME NEW c \in Callers, Done(c),
             UNCHANGED <<projects, accounts, copies, metered, answered, born>>
      PROVE  QuotaInv'
  BY <1>0, <1>1, AdmissionKeeps DEF Done
<1>2. ASSUME NEW c \in Callers, NEW s \in {"bank", "insert bank", "meter"}, Goto(c, s),
             call[c].op = "project", call[c].step # "insert",
             s = "insert bank" => Cardinality(accounts) < AccountLimit,
             UNCHANGED <<projects, accounts, copies, metered, answered, born>>
      PROVE  QuotaInv'
  <2> DEFINE x == [call[c] EXCEPT !.step = s]
  <2>1. call[c] \in Inserted
    BY <1>0, <1>2 DEF CallRecords, NoCall, Named, Adding, Uploading
  <2>2. x \in Inserted /\ x.op = "project" /\ x.step = s
    BY <2>1 DEF Inserted
  <2>3. x \in CallRecords /\ call' = [call EXCEPT ![c] = x]
    BY <1>0, <1>2, <2>2 DEF CallRecords, Goto
  <2> HIDE DEF x
  <2> QED BY <1>2, <2>2, <2>3, AdmissionKeeps
<1>3. ASSUME NEW c \in Callers, NEW s \in {"twin", "store"}, Goto(c, s),
             call[c].op = "upload", s = "store" => copies[call[c].account] = 0,
             UNCHANGED <<projects, accounts, copies, metered, answered, born>>
      PROVE  QuotaInv'
  <2> DEFINE x == [call[c] EXCEPT !.step = s]
  <2>1. call[c] \in Uploading
    BY <1>0, <1>3 DEF CallRecords, NoCall, Named, Adding, Inserted
  <2>2. x \in Uploading /\ x.op = "upload" /\ x.step = s /\ x.account = call[c].account
    BY <2>1 DEF Uploading
  <2>3. x \in CallRecords /\ call' = [call EXCEPT ![c] = x]
    BY <1>0, <1>3, <2>2 DEF CallRecords, Goto
  <2> HIDE DEF x
  <2> QED BY <1>3, <2>2, <2>3, AdmissionKeeps
<1>4. ASSUME NEW c \in Callers, NEW named \in BOOLEAN, BeginProject(c, named) PROVE QuotaInv'
  <2> DEFINE x == [op |-> "project", step |-> "insert", named |-> named]
  <2>1. x \in CallRecords /\ x.op = "project" /\ x.step = "insert"
    BY DEF CallRecords, Named
  <2>2. /\ call' = [call EXCEPT ![c] = x] /\ metered < ProjectLimit
        /\ UNCHANGED <<projects, accounts, copies, metered, answered, born>>
    BY <1>4 DEF BeginProject
  <2> HIDE DEF x
  <2> QED BY <2>1, <2>2, AdmissionKeeps
<1>5. ASSUME NEW c \in Callers, InsertProject(c) PROVE QuotaInv'
  <2> DEFINE s == IF call[c].named THEN "bank" ELSE "meter"
             n == born.projects + 1
             x == [op |-> "project", step |-> s, project |-> n]
  <2>1. /\ call[c].op = "project" /\ call' = [call EXCEPT ![c] = x]
        /\ projects' = projects \cup {n} /\ born' = [born EXCEPT !.projects = @ + 1]
        /\ UNCHANGED <<accounts, copies, metered, answered>>
    BY <1>0, <1>5 DEF InsertProject, At
  <2>2. n \in Nat /\ born' \in [projects : Nat, accounts : 0..MaxAccounts]
    BY <1>0, <2>1 DEF Shape
  <2>3. s \in {"bank", "meter"}
    OBVIOUS
  <2> HIDE DEF s, n
  <2>4. x \in CallRecords /\ x.op = "project" /\ x.step = s
    BY <2>2, <2>3 DEF CallRecords, Inserted
  <2> HIDE DEF x
  <2>5. Shape'
    BY <1>0, <2>1, <2>2, <2>4, MovedCall DEF Shape
  <2>6. /\ Creating' \subseteq Creating /\ Opening' \subseteq Opening
        /\ \A a : Storing(a)' \subseteq Storing(a)
    BY <1>0, <2>1, <2>3, <2>4, MovedCall DEF Creating
  <2>7. MeterRoom' /\ AccountRoom'
    BY <1>0, <2>1, <2>6, MeterRoomKept, AccountRoomKept DEF Shape
  <2>8. ASSUME NEW a \in 1..MaxAccounts PROVE CopyRoom(a)'
    <3>1. copies'[a] = copies[a] /\ copies[a] \in Nat
      BY <1>0, <2>1 DEF Shape
    <3> QED BY <2>6, <3>1, CopyRoomKept
  <2> QED BY <2>1, <2>5, <2>7, <2>8 DEF QuotaInv
<1>6. ASSUME NEW c \in Callers, AskForBank(c) PROVE QuotaInv'
  <2>1. /\ call[c].op = "project" /\ call[c].step = "bank"
        /\ UNCHANGED <<projects, accounts, copies, metered, answered, born>>
        /\ \/ Done(c)
           \/ Goto(c, "insert bank") /\ Cardinality(accounts) < AccountLimit
    BY <1>6 DEF AskForBank, At, MayAddAccount
  <2> QED BY <1>1, <1>2, <2>1
<1>7. ASSUME NEW c \in Callers, InsertPrimaryBank(c) PROVE QuotaInv'
  <2>1. call[c].op = "project" /\ call[c].step = "insert bank" /\ c \in Opening
    BY <1>7 DEF InsertPrimaryBank, At, Opening
  <2>2. CASE call[c].project \in projects
    <3> DEFINE x == [call[c] EXCEPT !.step = "meter"]
    <3>1. call[c] \in Inserted
      BY <1>0, <2>1 DEF CallRecords, NoCall, Named, Adding, Uploading
    <3>2. x \in Inserted /\ x.op = "project" /\ x.step = "meter" /\ call[c].project \in Nat
      BY <3>1 DEF Inserted
    <3>3. x \in CallRecords /\ call' = [call EXCEPT ![c] = x]
      BY <1>0, <1>7, <2>2, <3>2 DEF CallRecords, Goto, InsertPrimaryBank
    <3>4. InsertAccount(call[c].project) /\ UNCHANGED <<projects, copies, metered, answered>>
      BY <1>7, <2>2 DEF InsertPrimaryBank
    <3> HIDE DEF x
    <3> QED BY <2>1, <3>2, <3>3, <3>4, InsertionKeeps
  <2>3. CASE call[c].project \notin projects
    BY <1>1, <1>7, <2>3 DEF InsertPrimaryBank
  <2> QED BY <2>2, <2>3
<1>8. ASSUME NEW c \in Callers, MeterProject(c) PROVE QuotaInv'
  <2>1. /\ call[c].op = "project" /\ call' = [call EXCEPT ![c] = NoCall]
        /\ metered' = metered + 1 /\ answered' = answered + 1
        /\ UNCHANGED <<projects, accounts, copies, born>>
    BY <1>8 DEF MeterProject, At, Done
  <2>2. /\ call' \in [Callers -> CallRecords]
        /\ Creating' \subseteq Creating /\ c \in Creating /\ c \notin Creating'
        /\ Opening' \subseteq Opening /\ \A a : Storing(a)' \subseteq Storing(a)
    BY <1>0, <2>1, MovedCall DEF Creating
  <2>3. Shape' /\ answered' <= metered'
    BY <1>0, <2>1, <2>2 DEF Shape, QuotaInv
  <2>4. MeterRoom' /\ AccountRoom'
    BY <1>0, <2>1, <2>2, <2>3, MeterRoomKept, AccountRoomKept DEF Shape
  <2>5. ASSUME NEW a \in 1..MaxAccounts PROVE CopyRoom(a)'
    <3>1. copies'[a] = copies[a] /\ copies[a] \in Nat
      BY <1>0, <2>1 DEF Shape
    <3> QED BY <2>2, <3>1, CopyRoomKept
  <2> QED BY <2>3, <2>4, <2>5 DEF QuotaInv
<1>9. ASSUME NEW c \in Callers, NEW p \in projects, NEW upload \in BOOLEAN,
             BeginAccount(c, p, upload)
      PROVE  QuotaInv'
  <2> DEFINE x == [op |-> "account", step |-> "insert", project |-> p, upload |-> upload]
  <2>1. x \in CallRecords /\ x.op = "account"
    BY <1>0 DEF CallRecords, Adding, Shape
  <2>2. /\ call' = [call EXCEPT ![c] = x] /\ Cardinality(accounts) < AccountLimit
        /\ UNCHANGED <<projects, accounts, copies, metered, answered, born>>
    BY <1>9 DEF BeginAccount, MayAddAccount
  <2> HIDE DEF x
  <2> QED BY <2>1, <2>2, AdmissionKeeps
<1>10. ASSUME NEW c \in Callers, InsertForCaller(c) PROVE QuotaInv'
  <2>1. call[c].op = "account" /\ c \in Opening
    BY <1>10 DEF InsertForCaller, At, Opening
  <2>2. CASE call[c].project \in projects
    <3> DEFINE y == [op |-> "upload", step |-> "seat", account |-> born.accounts + 1]
    <3>1. InsertAccount(call[c].project) /\ UNCHANGED <<projects, copies, metered, answered>>
      BY <1>10, <2>2 DEF InsertForCaller
    <3>2. y \in CallRecords /\ y.op = "upload" /\ y.step = "seat"
      <4>1. born.accounts + 1 \in 1..MaxAccounts
        BY <1>0, <3>1 DEF InsertAccount, Shape
      <4> QED BY <4>1 DEF CallRecords, Uploading
    <3>3. call[c].project \in Nat
      BY <1>0, <2>2 DEF Shape
    <3>4. call' = [call EXCEPT ![c] = y] \/ call' = [call EXCEPT ![c] = NoCall]
      BY <1>10, <2>2 DEF InsertForCaller, Done
    <3> HIDE DEF y
    <3> QED BY <1>0, <2>1, <3>1, <3>2, <3>3, <3>4, InsertionKeeps
  <2>3. CASE call[c].project \notin projects
    BY <1>1, <1>10, <2>3 DEF InsertForCaller
  <2> QED BY <2>2, <2>3
<1>11. ASSUME NEW c \in Callers, NEW a \in accounts, BeginUpload(c, a) PROVE QuotaInv'
  <2> DEFINE x == [op |-> "upload", step |-> "seat", account |-> a.no]
  <2>1. x \in CallRecords /\ x.op = "upload" /\ x.step = "seat"
    <3>1. a.no \in 1..MaxAccounts
      BY <1>0 DEF Shape
    <3> QED BY <3>1 DEF CallRecords, Uploading
  <2>2. /\ call' = [call EXCEPT ![c] = x]
        /\ UNCHANGED <<projects, accounts, copies, metered, answered, born>>
    BY <1>11 DEF BeginUpload
  <2> HIDE DEF x
  <2> QED BY <2>1, <2>2, AdmissionKeeps
<1>12. ASSUME NEW c \in Callers, CheckSeat(c) \/ CheckTwin(c) PROVE QuotaInv'
  <2>1. /\ call[c].op = "upload"
        /\ UNCHANGED <<projects, accounts, copies, metered, answered, born>>
        /\ \/ Done(c) \/ Goto(c, "twin")
           \/ Goto(c, "store") /\ ~(copies[call[c].account] > 0)
    BY <1>12 DEF CheckSeat, CheckTwin, At, IsTwin
  <2>2. copies[call[c].account] \in Nat
    <3>1. call[c].account \in 1..MaxAccounts
      BY <1>0, <2>1 DEF CallRecords, NoCall, Named, Inserted, Adding, Uploading
    <3> QED BY <1>0, <3>1 DEF Shape
  <2>3. Goto(c, "store") => copies[call[c].account] = 0 \/ Done(c) \/ Goto(c, "twin")
    BY <2>1, <2>2
  <2> QED BY <1>1, <1>3, <2>1, <2>3
<1>13. ASSUME NEW c \in Callers, InsertDocument(c) PROVE QuotaInv'
  <2>0. call[c].op = "upload" /\ call[c].step = "store"
    BY <1>13 DEF InsertDocument, At
  <2>2. PICK a \in 1..MaxAccounts : call[c].account = a
    BY <1>0, <2>0 DEF CallRecords, NoCall, Named, Inserted, Adding, Uploading
  <2>1. /\ call[c].op = "upload" /\ call[c].step = "store" /\ call[c].account = a
        /\ call' = [call EXCEPT ![c] = NoCall]
        /\ copies' = [copies EXCEPT ![a] = @ + 1] \/ copies' = copies
        /\ UNCHANGED <<projects, accounts, metered, answered, born>>
    BY <1>13, <2>0, <2>2 DEF InsertDocument, Done
  <2>3. /\ call' \in [Callers -> CallRecords]
        /\ Creating' \subseteq Creating /\ Opening' \subseteq Opening
        /\ \A b : Storing(b)' \subseteq Storing(b)
        /\ c \in Storing(a) /\ c \notin Storing(a)'
    <3>1. NoCall \in CallRecords /\ NoCall.op = "idle"
      BY <1>0
    <3>2. c \in Storing(a)
      BY <2>1 DEF Storing
    <3> QED BY <1>0, <2>1, <3>1, <3>2, MovedCall
  <2>4. Shape'
    BY <1>0, <2>1, <2>2, <2>3 DEF Shape
  <2>5. MeterRoom' /\ AccountRoom'
    BY <1>0, <2>1, <2>3, MeterRoomKept, AccountRoomKept DEF Shape
  <2>6. ASSUME NEW b \in 1..MaxAccounts PROVE CopyRoom(b)'
    <3>1. copies[b] \in Nat /\ copies'[b] \in Nat
      BY <1>0, <2>4 DEF Shape
    <3>2. CASE b = a
      <4>1. copies'[b] <= copies[b] + 1
        BY <1>0, <2>1, <2>2, <3>1, <3>2 DEF Shape
      <4>2. Storing(b)' \subseteq Storing(b) /\ \E d \in Storing(b) : d \notin Storing(b)'
        <5>1. Storing(b)' \subseteq Storing(b)
          BY <2>3
        <5>2. c \in Storing(b) /\ c \notin Storing(b)'
          BY <2>3, <3>2
        <5> QED BY <5>1, <5>2
      <4> QED BY <3>1, <4>1, <4>2, CopyRoomKept
    <3>3. CASE b # a
      <4>1. copies'[b] = copies[b]
        BY <1>0, <2>1, <3>3 DEF Shape
      <4> QED BY <2>3, <3>1, <4>1, CopyRoomKept
    <3> QED BY <3>2, <3>3
  <2> QED BY <2>1, <2>4, <2>5, <2>6 DEF QuotaInv
<1>14. ASSUME NEW c \in Callers, Fail(c) PROVE QuotaInv'
  BY <1>1, <1>14 DEF Fail
<1>15. ASSUME NEW p \in projects, DeleteProject(p) PROVE QuotaInv'
  <2>1. /\ projects' \subseteq projects /\ accounts' \subseteq accounts
        /\ copies' \in [1..MaxAccounts -> Nat]
        /\ \A a \in 1..MaxAccounts : copies'[a] = copies[a] \/ copies'[a] = 0
        /\ UNCHANGED <<metered, answered, call, born>>
    BY <1>0, <1>15 DEF DeleteProject, Shape
  <2>2. Creating' = Creating /\ Opening' = Opening /\ \A a : Storing(a)' = Storing(a)
    BY <2>1 DEF Creating, Opening, Storing
  <2>3. IsFiniteSet(accounts')
    <3>1. IsFiniteSet(accounts)
      BY <1>0 DEF Shape
    <3> QED BY <2>1, <3>1, FS_Subset
  <2>4. Shape'
    BY <1>0, <2>1, <2>3 DEF Shape
  <2>5. MeterRoom' /\ AccountRoom'
    BY <1>0, <2>1, <2>2, <2>3, MeterRoomKept, AccountRoomKept DEF Shape
  <2>6. ASSUME NEW a \in 1..MaxAccounts PROVE CopyRoom(a)'
    <3>1. copies[a] \in Nat /\ copies'[a] \in Nat
      BY <1>0, <2>4 DEF Shape
    <3> QED BY <2>1, <2>2, <3>1, CopyRoomKept
  <2> QED BY <2>1, <2>4, <2>5, <2>6 DEF QuotaInv
<1>16. CASE UNCHANGED quotaVars
  BY <1>16 DEF quotaVars, QuotaInv, Shape, MeterRoom, AccountRoom, CopyRoom, Creating, Opening,
     Storing
<1> QED BY <1>4, <1>5, <1>6, <1>7, <1>8, <1>9, <1>10, <1>11, <1>12, <1>13, <1>14, <1>15, <1>16
       DEF QuotasNext

\* In every behaviour.
LEMMA QuotaInvariant == QuotasSpec => []QuotaInv
  BY InitQuotaInv, NextQuotaInv, PTL DEF QuotasSpec

\* A plan's caps on projects and accounts are overrun by less than the number of
\* requests in flight, whatever those count before the others insert, and every
\* project that was answered is metered (usage.ts, bankAccountLimit.ts).
THEOREM CapsHoldUpToRaces == QuotasSpec => []CapsOverrunBounded
<1>1. QuotaInv => CapsOverrunBounded
  <2> SUFFICES ASSUME QuotaInv PROVE CapsOverrunBounded
    OBVIOUS
  <2>1. Creating \in SUBSET Callers /\ Opening \in SUBSET Callers
    BY DEF Creating, Opening
  <2>2. /\ Cardinality(Creating) \in Nat /\ Cardinality(Opening) \in Nat
        /\ Cardinality(Callers) \in Nat
    BY <2>1, CountedCallers
  <2>3. Cardinality(accounts) \in Nat /\ metered \in Nat
    BY FS_CardinalityType DEF QuotaInv, Shape
  <2>4. ProjectLimit \in Nat /\ AccountLimit \in Nat
    BY QuotasAssumption
  <2> QED BY <2>2, <2>3, <2>4 DEF QuotaInv, MeterRoom, AccountRoom, CapsOverrunBounded
<1> QED BY <1>1, QuotaInvariant, PTL

\* An account has at most as many copies of one file as requests can be in
\* flight: the search for a twin and the insert are apart (upload.ts).
THEOREM TwinsNeedARace == QuotasSpec => []TwinsBounded
<1>1. QuotaInv => TwinsBounded
  <2> SUFFICES ASSUME QuotaInv, NEW a \in 1..MaxAccounts PROVE copies[a] <= Cardinality(Callers)
    BY DEF TwinsBounded
  <2>1. Storing(a) \in SUBSET Callers /\ CopyRoom(a) /\ copies[a] \in Nat
    BY DEF Storing, QuotaInv, Shape
  <2>2. Cardinality(Storing(a)) \in Nat /\ Cardinality(Callers) \in Nat
    BY <2>1, CountedCallers
  <2> QED BY <2>1, <2>2 DEF CopyRoom
<1> QED BY <1>1, QuotaInvariant, PTL

----------------------------------------------------------------------------
(* UsedAccountsAreSeated is about accounts that hold documents; an upload  *)
(* that has found its account seated must be able to rely on it, although  *)
(* accounts come and go before it stores its document.                     *)

Below(n) == {b \in accounts : b.no < n}

\* Number n was given out and the plan keeps an account of that number open.
Roomy(n) == n <= born.accounts /\ Cardinality(Below(n)) < AccountLimit

Relying(c) == call[c].op = "upload" /\ call[c].step \in {"twin", "store"}

SeatInv ==
    /\ \A a \in accounts : a.no <= born.accounts
    /\ \A n \in 1..MaxAccounts : copies[n] > 0 => Roomy(n)
    /\ \A c \in Callers : Relying(c) => Roomy(call[c].account)

\* An upload is to an account whose number was given out.
LEMMA UploadsHaveAccounts ==
    ASSUME NEW x \in CallRecords, x.op = "upload"
    PROVE  x.account \in 1..MaxAccounts
<1>1. NoCall.op = "idle"
  BY DEF NoCall
<1>2. x \in Uploading
  BY <1>1 DEF CallRecords, Named, Inserted, Adding
<1> QED BY <1>2 DEF Uploading

\* An account keeps its seat: deletions only free seats, and who comes later is
\* seated later.
LEMMA RoomyKept ==
    ASSUME QuotaInv, QuotaInv', SeatInv,
           \/ accounts' \subseteq accounts /\ born' = born
           \/ \E p : InsertAccount(p)
           \/ accounts' = accounts /\ born'.accounts = born.accounts
    PROVE  /\ \A a \in accounts' : a.no <= born'.accounts
           /\ \A n \in 1..MaxAccounts : Roomy(n) => Roomy(n)'
<1>0. /\ accounts \subseteq [no : 1..MaxAccounts, project : Nat] /\ IsFiniteSet(accounts)
      /\ IsFiniteSet(accounts') /\ born \in [projects : Nat, accounts : 0..MaxAccounts]
      /\ AccountLimit \in Nat /\ MaxAccounts \in Nat
  BY QuotasAssumption DEF QuotaInv, Shape
<1>1. CASE accounts' \subseteq accounts /\ born'.accounts = born.accounts
  <2>1. ASSUME NEW n \in 1..MaxAccounts, Roomy(n) PROVE Roomy(n)'
    <3>1. Below(n)' \subseteq Below(n) /\ Below(n) \subseteq accounts
      BY <1>1 DEF Below
    <3>2. IsFiniteSet(Below(n))
      BY <1>0, <3>1, FS_Subset
    <3>3. /\ Cardinality(Below(n)') <= Cardinality(Below(n))
          /\ Cardinality(Below(n)') \in Nat /\ Cardinality(Below(n)) \in Nat
      BY <3>1, <3>2, FS_Subset, FS_CardinalityType
    <3> QED BY <1>0, <1>1, <2>1, <3>3 DEF Roomy
  <2> QED BY <1>1, <2>1 DEF SeatInv
<1>2. CASE \E p : InsertAccount(p)
  <2>1. PICK p : accounts' = accounts \cup {[no |-> born.accounts + 1, project |-> p]}
                 /\ born' = [born EXCEPT !.accounts = @ + 1]
    BY <1>2 DEF InsertAccount
  <2>2. born'.accounts = born.accounts + 1 /\ born.accounts \in Nat
    BY <1>0, <2>1
  <2>3. ASSUME NEW n \in 1..MaxAccounts, Roomy(n) PROVE Roomy(n)'
    <3>1. n <= born.accounts
      BY <2>3 DEF Roomy
    <3>2. Below(n)' = Below(n)
      BY <2>1, <2>2, <3>1 DEF Below
    <3> QED BY <2>2, <2>3, <3>1, <3>2 DEF Roomy
  <2>4. ASSUME NEW a \in accounts' PROVE a.no <= born'.accounts
    <3>1. CASE a \in accounts
      <4>1. a.no <= born.accounts /\ a.no \in 1..MaxAccounts
        BY <1>0, <3>1 DEF SeatInv
      <4> QED BY <2>2, <4>1
    <3>2. CASE a = [no |-> born.accounts + 1, project |-> p]
      BY <2>2, <3>2
    <3> QED BY <2>1, <3>1, <3>2
  <2> QED BY <2>3, <2>4
<1> QED BY <1>1, <1>2

\* A step that stores no document, and lets nobody rely on a seat.
LEMMA SeatsKept ==
    ASSUME QuotaInv, QuotaInv', SeatInv,
           \/ accounts' \subseteq accounts /\ born' = born
           \/ \E p : InsertAccount(p)
           \/ accounts' = accounts /\ born'.accounts = born.accounts,
           \A n \in 1..MaxAccounts : copies'[n] > 0 => copies[n] > 0 \/ Roomy(n),
           \A c \in Callers : Relying(c)' =>
              \/ Relying(c) /\ call'[c].account = call[c].account
              \/ Roomy(call'[c].account)
    PROVE  SeatInv'
<1>1. /\ \A a \in accounts' : a.no <= born'.accounts
      /\ \A n \in 1..MaxAccounts : Roomy(n) => Roomy(n)'
  BY RoomyKept
<1>2. \A n \in 1..MaxAccounts : copies'[n] > 0 => Roomy(n)'
  BY <1>1 DEF SeatInv
<1>3. ASSUME NEW c \in Callers, Relying(c)' PROVE Roomy(call[c].account)'
  <2>1. Roomy(call'[c].account)
    BY <1>3 DEF SeatInv
  <2>2. call'[c] \in CallRecords
    BY DEF QuotaInv, Shape
  <2>3. PICK n \in 1..MaxAccounts : n = call'[c].account
    BY <1>3, <2>2, UploadsHaveAccounts DEF Relying
  <2>4. Roomy(n)'
    BY <1>1, <2>1, <2>3
  <2> QED BY <2>3, <2>4 DEF Roomy, Below
<1> QED BY <1>1, <1>2, <1>3 DEF SeatInv

\* No step takes a seat from an account that is used or about to be.
LEMMA NextSeatInv == QuotaInv /\ QuotaInv' /\ SeatInv /\ [QuotasNext]_quotaVars => SeatInv'
<1> SUFFICES ASSUME QuotaInv, QuotaInv', SeatInv, [QuotasNext]_quotaVars PROVE SeatInv'
  OBVIOUS
<1>0. /\ call \in [Callers -> CallRecords] /\ NoCall.op = "idle"
      /\ copies \in [1..MaxAccounts -> Nat] /\ copies' \in [1..MaxAccounts -> Nat]
      /\ born \in [projects : Nat, accounts : 0..MaxAccounts]
  BY DEF QuotaInv, Shape, NoCall
<1> DEFINE Rely == \A c \in Callers : Relying(c)' =>
                     \/ Relying(c) /\ call'[c].account = call[c].account
                     \/ Roomy(call'[c].account)
           Books == \/ accounts' \subseteq accounts /\ born' = born
                    \/ \E p : InsertAccount(p)
                    \/ accounts' = accounts /\ born'.accounts = born.accounts
<1>1. ASSUME NEW c \in Callers, NEW x, call' = [call EXCEPT ![c] = x],
             x.op = "upload" /\ x.step \in {"twin", "store"} =>
                \/ Relying(c) /\ x.account = call[c].account
                \/ Roomy(x.account)
      PROVE  Rely
  <2>1. call'[c] = x /\ \A d \in Callers : d # c => call'[d] = call[d]
    BY <1>0, <1>1
  <2> QED BY <1>1, <2>1 DEF Relying
<1>2. ASSUME NEW c \in Callers, Done(c) PROVE Rely
  BY <1>0, <1>1, <1>2 DEF Done
<1>3. ASSUME NEW c \in Callers, NEW s, Goto(c, s), call[c].op # "upload" PROVE Rely
  <2> DEFINE x == [call[c] EXCEPT !.step = s]
  <2>1. call' = [call EXCEPT ![c] = x]
    BY <1>0, <1>3 DEF Goto
  <2>2. x.op = call[c].op
    BY <1>0 DEF CallRecords, NoCall, Named, Inserted, Adding, Uploading
  <2> HIDE DEF x
  <2> QED BY <1>1, <1>3, <2>1, <2>2
<1>4. ASSUME Rely, Books, copies' = copies PROVE SeatInv'
  BY <1>4, SeatsKept
<1> HIDE DEF Rely, Books
<1>5. ASSUME UNCHANGED <<accounts, born>> PROVE Books
  BY <1>5 DEF Books
<1>6. ASSUME NEW c \in Callers, NEW named \in BOOLEAN, BeginProject(c, named) PROVE SeatInv'
  <2> DEFINE x == [op |-> "project", step |-> "insert", named |-> named]
  <2>1. call' = [call EXCEPT ![c] = x] /\ UNCHANGED <<accounts, copies, born>> /\ x.op # "upload"
    BY <1>6 DEF BeginProject
  <2> HIDE DEF x
  <2> QED BY <1>1, <1>4, <1>5, <2>1
<1>7. ASSUME NEW c \in Callers, InsertProject(c) PROVE SeatInv'
  <2> DEFINE x == [op |-> "project", step |-> IF call[c].named THEN "bank" ELSE "meter",
                   project |-> born.projects + 1]
  <2>1. /\ call' = [call EXCEPT ![c] = x] /\ UNCHANGED <<accounts, copies>> /\ x.op # "upload"
        /\ born' = [born EXCEPT !.projects = @ + 1]
    BY <1>0, <1>7 DEF InsertProject
  <2>2. Books
    BY <1>0, <2>1 DEF Books
  <2> HIDE DEF x
  <2> QED BY <1>1, <1>4, <2>1, <2>2
<1>8. ASSUME NEW c \in Callers, AskForBank(c) PROVE SeatInv'
  <2>1. /\ call[c].op = "project" /\ UNCHANGED <<accounts, copies, born>>
        /\ Goto(c, "insert bank") \/ Done(c)
    BY <1>8 DEF AskForBank, At
  <2> QED BY <1>2, <1>3, <1>4, <1>5, <2>1
<1>9. ASSUME NEW c \in Callers, InsertPrimaryBank(c) PROVE SeatInv'
  <2>1. /\ call[c].op = "project" /\ copies' = copies
        /\ Goto(c, "meter") \/ Done(c)
        /\ InsertAccount(call[c].project) \/ UNCHANGED <<accounts, born>>
    BY <1>9 DEF InsertPrimaryBank, At
  <2>2. Books
    BY <2>1 DEF Books
  <2> QED BY <1>2, <1>3, <1>4, <2>1, <2>2
<1>10. ASSUME NEW c \in Callers, MeterProject(c) \/ Fail(c) PROVE SeatInv'
  <2>1. Done(c) /\ UNCHANGED <<accounts, copies, born>>
    BY <1>10 DEF MeterProject, Fail
  <2> QED BY <1>2, <1>4, <1>5, <2>1
<1>11. ASSUME NEW c \in Callers, NEW p \in projects, NEW upload \in BOOLEAN,
              BeginAccount(c, p, upload)
       PROVE  SeatInv'
  <2> DEFINE x == [op |-> "account", step |-> "insert", project |-> p, upload |-> upload]
  <2>1. call' = [call EXCEPT ![c] = x] /\ UNCHANGED <<accounts, copies, born>> /\ x.op # "upload"
    BY <1>11 DEF BeginAccount
  <2> HIDE DEF x
  <2> QED BY <1>1, <1>4, <1>5, <2>1
<1>12. ASSUME NEW c \in Callers, InsertForCaller(c) PROVE SeatInv'
  <2> DEFINE x == [op |-> "upload", step |-> "seat", account |-> born.accounts + 1]
  <2>1. /\ copies' = copies /\ x.step = "seat"
        /\ call' = [call EXCEPT ![c] = x] \/ Done(c)
        /\ InsertAccount(call[c].project) \/ UNCHANGED <<accounts, born>>
    BY <1>12 DEF InsertForCaller
  <2>2. Books
    BY <2>1 DEF Books
  <2> HIDE DEF x
  <2>3. Rely
    BY <1>1, <1>2, <2>1
  <2> QED BY <1>4, <2>1, <2>2, <2>3
<1>13. ASSUME NEW c \in Callers, NEW a \in accounts, BeginUpload(c, a) PROVE SeatInv'
  <2> DEFINE x == [op |-> "upload", step |-> "seat", account |-> a.no]
  <2>1. call' = [call EXCEPT ![c] = x] /\ UNCHANGED <<accounts, copies, born>> /\ x.step = "seat"
    BY <1>13 DEF BeginUpload
  <2> HIDE DEF x
  <2> QED BY <1>1, <1>4, <1>5, <2>1
<1>14. ASSUME NEW c \in Callers, CheckSeat(c) \/ CheckTwin(c) PROVE SeatInv'
  <2>1. call[c].op = "upload" /\ call[c].step \in {"seat", "twin"} /\ UNCHANGED <<accounts, copies, born>>
    BY <1>14 DEF CheckSeat, CheckTwin, At
  <2>2. PICK n \in 1..MaxAccounts : n = call[c].account
    BY <1>0, <2>1, UploadsHaveAccounts
  <2>3. CASE Done(c)
    BY <1>2, <1>4, <1>5, <2>1, <2>3
  <2>4. CASE ~Done(c)
    <3>1. Roomy(n)
      <4>1. CASE call[c].step = "twin"
        BY <2>1, <2>2, <4>1 DEF SeatInv, Relying
      <4>2. CASE call[c].step = "seat"
        <5>1. n \in SeatedAccounts
          BY <1>14, <2>2, <2>4, <4>2 DEF CheckSeat, CheckTwin, At
        <5>2. PICK a \in accounts : a.no = n /\ Cardinality({b \in accounts : b.no < a.no}) < AccountLimit
          BY <5>1 DEF SeatedAccounts
        <5> QED BY <5>2 DEF Roomy, Below, SeatInv
      <4> QED BY <2>1, <4>1, <4>2
    <3>2. PICK s \in {"twin", "store"} : Goto(c, s)
      BY <1>14, <2>4 DEF CheckSeat, CheckTwin
    <3> DEFINE x == [call[c] EXCEPT !.step = s]
    <3>3. call' = [call EXCEPT ![c] = x]
      BY <1>0, <3>2 DEF Goto
    <3>4. x.account = n
      BY <1>0, <2>1, <2>2 DEF CallRecords, NoCall, Named, Inserted, Adding, Uploading
    <3> HIDE DEF x
    <3> QED BY <1>1, <1>4, <1>5, <2>1, <3>1, <3>3, <3>4
  <2> QED BY <2>3, <2>4
<1>15. ASSUME NEW c \in Callers, InsertDocument(c) PROVE SeatInv'
  <2>1. Relying(c) /\ Done(c) /\ UNCHANGED <<accounts, born>>
    BY <1>15 DEF InsertDocument, At, Relying
  <2>2. PICK m \in 1..MaxAccounts : m = call[c].account /\ Roomy(m)
    <3>1. call[c] \in CallRecords
      BY <1>0
    <3>2. call[c].account \in 1..MaxAccounts
      BY <2>1, <3>1, UploadsHaveAccounts DEF Relying
    <3> QED BY <2>1, <3>2 DEF SeatInv
  <2>3. copies' = [copies EXCEPT ![m] = @ + 1] \/ copies' = copies
    BY <1>15, <2>2 DEF InsertDocument
  <2>4. \A n \in 1..MaxAccounts : copies'[n] > 0 => copies[n] > 0 \/ Roomy(n)
    BY <1>0, <2>2, <2>3
  <2>5. Rely /\ Books
    BY <1>2, <1>5, <2>1
  <2> QED BY <2>4, <2>5, SeatsKept DEF Rely, Books
<1>16. ASSUME NEW p \in projects, DeleteProject(p) PROVE SeatInv'
  <2>1. /\ accounts' \subseteq accounts /\ UNCHANGED <<call, born>>
        /\ \A n \in 1..MaxAccounts : copies'[n] = copies[n] \/ copies'[n] = 0
    BY <1>0, <1>16 DEF DeleteProject
  <2>2. \A n \in 1..MaxAccounts : copies'[n] > 0 => copies[n] > 0
    BY <1>0, <2>1
  <2> QED BY <2>1, <2>2, SeatsKept DEF Relying
<1>17. CASE UNCHANGED quotaVars
  BY <1>17 DEF quotaVars, SeatInv, Roomy, Below, Relying
<1> QED BY <1>6, <1>7, <1>8, <1>9, <1>10, <1>11, <1>12, <1>13, <1>14, <1>15, <1>16, <1>17 DEF QuotasNext

\* Whatever overran the cap on accounts and whatever was deleted since, the
\* accounts that hold documents are among the oldest the plan keeps open: the
\* seat is asked for before the file is stored, and nothing that happens in
\* between takes it away (bankAccountLimit.ts, upload.ts).
THEOREM UsedAccountsKeepSeats == QuotasSpec => []UsedAccountsAreSeated
<1>1. QuotasInit => SeatInv
  BY DEF QuotasInit, SeatInv, Relying, NoCall
<1>2. QuotaInv /\ QuotaInv' /\ SeatInv /\ [QuotasNext]_quotaVars => SeatInv'
  BY NextSeatInv
<1>3. QuotaInv /\ SeatInv => UsedAccountsAreSeated
  <2> SUFFICES ASSUME QuotaInv, SeatInv, NEW a \in accounts, copies[a.no] > 0
               PROVE  a.no \in SeatedAccounts
    BY DEF UsedAccountsAreSeated
  <2>1. a.no \in 1..MaxAccounts
    BY DEF QuotaInv, Shape
  <2>2. Roomy(a.no)
    BY <2>1 DEF SeatInv
  <2> QED BY <2>2 DEF Roomy, Below, SeatedAccounts
<1> QED BY <1>1, <1>2, <1>3, QuotaInvariant, PTL DEF QuotasSpec
=============================================================================
