---------------------------- MODULE MCWorkspace ----------------------------
(***************************************************************************)
(* The parts of a workspace that run beside the reconciliation: its        *)
(* members, its meter, the rows its plan counts, the check of its          *)
(* statements, the chain of its periods and what it has learned.  They     *)
(* share no state, so a behaviour works on one of them and leaves the      *)
(* others as they began: every state of each is reached, and none of the   *)
(* product of them all.                                                    *)
(***************************************************************************)
EXTENDS Members, UsageMeter, PlanQuotas, IngestCheck, RollForward, LearnedMemory, TLC

CONSTANTS Workers, Things    \* two requests and two things they work on

VARIABLE part    \* what this behaviour works on

WorkspaceInit ==
    /\ MembersInit /\ MeterInit /\ QuotasInit /\ IngestInit /\ BooksInit /\ MemoryInit
    /\ part \in {"members", "meter", "quotas", "ingest", "books", "memory"}
    /\ part # "books" => format = "other"
    /\ part # "memory" => book = "layouts"

WorkspaceNext ==
    /\ UNCHANGED part
    /\ \/ /\ part = "members" /\ MembersNext
          /\ UNCHANGED <<meterVars, quotaVars, ingestVars, booksVars, memoryVars>>
       \/ /\ part = "meter" /\ MeterNext
          /\ UNCHANGED <<membersVars, quotaVars, ingestVars, booksVars, memoryVars>>
       \/ /\ part = "quotas" /\ QuotasNext
          /\ UNCHANGED <<membersVars, meterVars, ingestVars, booksVars, memoryVars>>
       \/ /\ part = "ingest" /\ IngestNext
          /\ UNCHANGED <<membersVars, meterVars, quotaVars, booksVars, memoryVars>>
       \/ /\ part = "books" /\ BooksNext
          /\ UNCHANGED <<membersVars, meterVars, quotaVars, ingestVars, memoryVars>>
       \/ /\ part = "memory" /\ MemoryNext
          /\ UNCHANGED <<membersVars, meterVars, quotaVars, ingestVars, booksVars>>

workspaceVars ==
    <<part, membersVars, meterVars, quotaVars, ingestVars, booksVars, memoryVars>>

WorkspaceSpec == WorkspaceInit /\ [][WorkspaceNext]_workspaceVars

\* The parts share these model values, which keeps the group of permutations
\* small.
Symmetry == Permutations(Workers) \cup Permutations(Things)

\* A person has one membership and the meter never falls below zero, however the
\* requests that write them overlap.
WorkspaceTypeOK == MembersTypeOK /\ MeterTypeOK
=============================================================================
