----------------------------- MODULE MCHandlers -----------------------------
(***************************************************************************)
(* Worker threads over what outlives a turn, beside the chat itself: the   *)
(* permission to search with the questions awaiting it, the owner's        *)
(* teaching sessions, and the user memory with all its requests.  They     *)
(* share no state here, so a behaviour is of one of the three.             *)
(***************************************************************************)
EXTENDS InternetPolicy, Teaching, UserMemory, TLC

VARIABLE part

handlersVars == <<policyVars, teachingVars, memoryVars, part>>

HandlersInit ==
    /\ PolicyInit /\ TeachingInit /\ MemoryInit
    /\ part \in {"permission", "teaching", "memory"}

HandlersNext ==
    \/ part = "permission" /\ PolicyNext /\ UNCHANGED <<teachingVars, memoryVars, part>>
    \/ part = "teaching" /\ TeachingNext /\ UNCHANGED <<policyVars, memoryVars, part>>
    \/ part = "memory" /\ MemoryNext /\ UNCHANGED <<policyVars, teachingVars, part>>

HandlersSpec == HandlersInit /\ [][HandlersNext]_handlersVars

\* Runners and Workers are the same threads.
Symmetry == Permutations(Threads)
=============================================================================
