----------------------------- MODULE PlanQuotas -----------------------------
(***************************************************************************)
(* What a plan caps by counting rows: projects of the month, bank accounts *)
(* of the workspace, and the uploads that need an account.  Each request   *)
(* counts, decides and inserts in separate database calls.                 *)
(*                                                                         *)
(* An account's number is its createdAt as well as its id.  One file is    *)
(* uploaded again and again, so only its copies on each account are kept.  *)
(* Full clean exports of the tools page are counted exactly as projects    *)
(* are (asked before the file is built, incremented after) and have no     *)
(* state of their own here.                                                *)
(***************************************************************************)
EXTENDS Integers, FiniteSets

CONSTANTS
    Callers,        \* requests that can be in flight together
    ProjectLimit,   \* projectsPerMonth of the plan
    AccountLimit,   \* bankAccounts of the plan, across the workspace
    MaxProjects,    \* bound: projects ever created
    MaxAccounts     \* bound: accounts ever created

ASSUME QuotasAssumption ==
    /\ IsFiniteSet(Callers) /\ Callers # {}
    /\ {ProjectLimit, AccountLimit, MaxProjects, MaxAccounts} \subseteq Nat

VARIABLES
    projects,       \* ids of the projects
    accounts,       \* BankAccount rows
    copies,         \* documents with the one file, per account number
    metered,        \* projectsCount of the month's UsageLog
    answered,       \* history: creations answered with 201
    call,           \* what each request is doing
    born            \* last project and account numbers given out

quotaVars == <<projects, accounts, copies, metered, answered, call, born>>

NoCall == [op |-> "idle"]

QuotasInit ==
    /\ projects = {} /\ accounts = {}
    /\ copies = [a \in 1..MaxAccounts |-> 0]
    /\ metered = 0 /\ answered = 0
    /\ call = [c \in Callers |-> NoCall]
    /\ born = [projects |-> 0, accounts |-> 0]

Done(c) == call' = [call EXCEPT ![c] = NoCall]
At(c, op, step) == call[c].op = op /\ call[c].step = step
Goto(c, s) == call' = [call EXCEPT ![c].step = s]

\* mutant: the newest accounts keep working
NewestAccounts ==
    {a.no : a \in {a \in accounts :
        Cardinality({b \in accounts : b.no > a.no}) < AccountLimit}}

\* The accounts the plan keeps open: the oldest ones.
SeatedAccounts ==
    {a.no : a \in {a \in accounts :
        Cardinality({b \in accounts : b.no < a.no}) < AccountLimit}}

MayAddAccount == Cardinality(accounts) < AccountLimit

InsertAccount(p) ==
    /\ born.accounts < MaxAccounts
    /\ born' = [born EXCEPT !.accounts = @ + 1]
    /\ accounts' = accounts \cup {[no |-> born.accounts + 1, project |-> p]}

----------------------------------------------------------------------------
(* Creating a project                                                      *)

\* `named` says that the body names a primary bank account.
BeginProject(c, named) ==
    /\ call[c] = NoCall
    /\ metered < ProjectLimit
    /\ call' = [call EXCEPT ![c] = [op |-> "project", step |-> "insert", named |-> named]]
    /\ UNCHANGED <<projects, accounts, copies, metered, answered, born>>

InsertProject(c) ==
    /\ At(c, "project", "insert")
    /\ born.projects < MaxProjects
    /\ born' = [born EXCEPT !.projects = @ + 1]
    /\ projects' = projects \cup {born.projects + 1}
    /\ call' = [call EXCEPT ![c] =
          [op |-> "project", step |-> IF @.named THEN "bank" ELSE "meter",
           project |-> born.projects + 1]]
    /\ UNCHANGED <<accounts, copies, metered, answered>>

\* The refusal comes after the project row, which stays and is not metered.
AskForBank(c) ==
    /\ At(c, "project", "bank")
    /\ IF MayAddAccount /\ call[c].project \in projects
         THEN Goto(c, "insert bank") ELSE Done(c)
    /\ UNCHANGED <<projects, accounts, copies, metered, answered, born>>

InsertPrimaryBank(c) ==
    /\ At(c, "project", "insert bank")
    /\ IF call[c].project \in projects
         THEN InsertAccount(call[c].project) /\ Goto(c, "meter")
         ELSE Done(c) /\ UNCHANGED <<accounts, born>>
    /\ UNCHANGED <<projects, copies, metered, answered>>

\* mutant: the answer goes out before the meter is moved
AnswerUnmetered(c) ==
    /\ At(c, "project", "meter")
    /\ answered' = answered + 1
    /\ Done(c)
    /\ UNCHANGED <<projects, accounts, copies, metered, born>>

\* The atomic increment, then the 201.
MeterProject(c) ==
    /\ At(c, "project", "meter")
    /\ metered' = metered + 1
    /\ answered' = answered + 1
    /\ Done(c)
    /\ UNCHANGED <<projects, accounts, copies, born>>

\* The accounts and documents of a project go with it; the meter stays.
DeleteProject(p) ==
    LET gone == {a.no : a \in {a \in accounts : a.project = p}}
    IN  /\ projects' = projects \ {p}
        /\ accounts' = {a \in accounts : a.project # p}
        /\ copies' = [a \in DOMAIN copies |-> IF a \in gone THEN 0 ELSE copies[a]]
        /\ UNCHANGED <<metered, answered, call, born>>

----------------------------------------------------------------------------
(* Adding an account, uploading a statement                                *)

\* POST /bank-accounts, or an upload that names an account nobody has yet.
BeginAccount(c, p, upload) ==
    /\ call[c] = NoCall
    /\ MayAddAccount
    /\ call' = [call EXCEPT ![c] =
          [op |-> "account", step |-> "insert", project |-> p, upload |-> upload]]
    /\ UNCHANGED <<projects, accounts, copies, metered, answered, born>>

InsertForCaller(c) ==
    /\ At(c, "account", "insert")
    /\ IF call[c].project \in projects
         THEN /\ InsertAccount(call[c].project)
              /\ IF call[c].upload
                   THEN call' = [call EXCEPT ![c] = [op |-> "upload", step |-> "seat",
                                                     account |-> born.accounts + 1]]
                   ELSE Done(c)
         ELSE Done(c) /\ UNCHANGED <<accounts, born>>
    /\ UNCHANGED <<projects, copies, metered, answered>>

\* An upload to an account the caller picked, or found by its name.
BeginUpload(c, a) ==
    /\ call[c] = NoCall
    /\ call' = [call EXCEPT ![c] = [op |-> "upload", step |-> "seat", account |-> a.no]]
    /\ UNCHANGED <<projects, accounts, copies, metered, answered, born>>

CheckSeat(c) ==
    /\ At(c, "upload", "seat")
    /\ IF call[c].account \in SeatedAccounts THEN Goto(c, "twin") ELSE Done(c)
    /\ UNCHANGED <<projects, accounts, copies, metered, answered, born>>

IsTwinNever(a) == FALSE        \* mutant: identical files are not looked for

IsTwin(a) == copies[a] > 0

CheckTwin(c) ==
    /\ At(c, "upload", "twin")
    /\ IF IsTwin(call[c].account) THEN Done(c) ELSE Goto(c, "store")
    /\ UNCHANGED <<projects, accounts, copies, metered, answered, born>>

\* Storing the file lies between the look-up and the row.
InsertDocument(c) ==
    /\ At(c, "upload", "store")
    /\ copies' = IF \E a \in accounts : a.no = call[c].account
                   THEN [copies EXCEPT ![call[c].account] = @ + 1] ELSE copies
    /\ Done(c)
    /\ UNCHANGED <<projects, accounts, metered, answered, born>>

----------------------------------------------------------------------------

\* A query fails or the process stops.
Fail(c) ==
    /\ call[c] # NoCall
    /\ Done(c)
    /\ UNCHANGED <<projects, accounts, copies, metered, answered, born>>

QuotasNext ==
    \/ \E c \in Callers :
         \/ \E named \in BOOLEAN : BeginProject(c, named)
         \/ InsertProject(c) \/ AskForBank(c) \/ InsertPrimaryBank(c) \/ MeterProject(c)
         \/ \E p \in projects, upload \in BOOLEAN : BeginAccount(c, p, upload)
         \/ InsertForCaller(c)
         \/ \E a \in accounts : BeginUpload(c, a)
         \/ CheckSeat(c) \/ CheckTwin(c) \/ InsertDocument(c) \/ Fail(c)
    \/ \E p \in projects : DeleteProject(p)

QuotasSpec == QuotasInit /\ [][QuotasNext]_quotaVars

----------------------------------------------------------------------------
(* What must hold                                                          *)

\* Counting first and inserting later lets callers run past a cap together, but
\* only by one each; and nobody is told a project was created that the month's
\* meter does not know of.
CapsOverrunBounded ==
    /\ answered <= metered
    /\ metered <= ProjectLimit + Cardinality(Callers) - 1
    /\ Cardinality(accounts) <= AccountLimit + Cardinality(Callers) - 1

\* However the cap on accounts was overrun and whatever was deleted since, the
\* accounts that hold documents are accounts the plan keeps open: no statement
\* was taken in on one above the limit.
UsedAccountsAreSeated ==
    {a.no : a \in {a \in accounts : copies[a.no] > 0}} \subseteq SeatedAccounts

\* The search for an identical file and the insert are apart: an account has
\* never more copies of one file than there were requests to race.
TwinsBounded ==
    \A a \in 1..MaxAccounts : copies[a] <= Cardinality(Callers)
=============================================================================
