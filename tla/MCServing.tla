------------------------------ MODULE MCServing ------------------------------
(***************************************************************************)
(* The running system: a page with its server, or the scripts that start   *)
(* and stop the servers. They share no state here, so a behaviour is of    *)
(* one of the two, and only the steps of that one are owed to it.          *)
(***************************************************************************)
EXTENDS Serving, Launcher

VARIABLE part

runningVars == <<part, servingVars, launcherVars>>

RunningInit ==
    /\ ServingInit /\ LauncherInit
    /\ \/ part = "chat"
       \/ part = "launcher" /\ conf = [production |-> FALSE, preload |-> FALSE] /\ adapter = "absent"

RunningNext ==
    \/ part = "chat" /\ ServingNext /\ UNCHANGED <<part, launcherVars>>
    \/ part = "launcher" /\ LauncherNext /\ UNCHANGED <<part, servingVars>>

\* ServingFairness and LauncherFairness.
RunningFairness ==
    /\ \A t \in ServingThreads : WF_servingVars(part = "chat" /\ EngineStep(t))
    /\ \A r \in Requests : WF_servingVars(part = "chat" /\ RequestStep(r)) /\ WF_servingVars(part = "chat" /\ Receive(r))
    /\ WF_servingVars(part = "chat" /\ GiveUp) /\ WF_servingVars(part = "chat" /\ CountdownEnds)
    /\ WF_servingVars(part = "chat" /\ CheckHealth)
    /\ \A l \in Launches : WF_launcherVars(part = "launcher" /\ PythonStep(l))

RunningSpec == RunningInit /\ [][RunningNext]_runningVars /\ RunningFairness
=============================================================================
