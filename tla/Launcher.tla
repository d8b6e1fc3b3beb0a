------------------------------- MODULE Launcher -------------------------------
(***************************************************************************)
(* Starting and stopping the production service: the start script with its *)
(* pid file, the Python launcher that supervises the API and the web proxy *)
(* (start_rupsaa.py), and the stop script. Several owners may run the      *)
(* scripts; the two ports belong to whoever binds them first. A launcher   *)
(* is "none" before the start script forks, "forked" until the child runs  *)
(* Python, and goes on when its shell is killed.                           *)
(***************************************************************************)
EXTENDS Naturals, Sequences, FiniteSets

CONSTANTS
    Launches,   \* runs of the start script, numbers from 1
    MaxServerDeaths   \* bound: servers that die by themselves

ASSUME LauncherAssumption == Launches \subseteq Nat \ {0} /\ MaxServerDeaths \in Nat

VARIABLES
    shell,      \* the start script of each launch
    python,     \* its launcher: where it is, and the processes it has noted
    process,    \* the API and the web proxy of each launch
    pidfile,    \* run/rupsaa-production.pid: a launch, or 0
    stopper,    \* the stop script: where it is, the launch it found, and whether
                \* it saw the launcher's process
    faults,
    overlapped, \* history: has a script begun while another one was under way?
    slipped     \* history: processes that were being spawned as a signal came

launcherVars == <<shell, python, process, pidfile, stopper, faults, overlapped, slipped>>

Servers == {"api", "web"}
Alive(l, s) == process[l][s] \in {"starting", "serving"}
PortFree(s) == \A l \in Launches : process[l][s] # "serving"
\* kill -0: the shell is there as long as it waits for the launcher.
ShellAlive(l) == shell[l] \notin {"new", "ended"}
\* pgrep -f start_rupsaa.py: a forked child still has the command line of its shell.
Visible(l) == python[l].pc \notin {"none", "forked", "exited"}
Transient(l) == ShellAlive(l) /\ python[l].pc # "watch"

LauncherInit ==
    /\ shell = [l \in Launches |-> "new"]
    /\ python = [l \in Launches |-> [pc |-> "none", noted |-> {}]]
    /\ process = [l \in Launches |-> [s \in Servers |-> "none"]]
    /\ pidfile = 0
    /\ stopper = [pc |-> "idle", found |-> 0, child |-> FALSE]
    /\ faults = 0
    /\ overlapped = FALSE
    /\ slipped = {}

-----------------------------------------------------------------------------
(* The start script: another instance, the configuration, the pid file.    *)
Script(l, from, to) == shell[l] = from /\ shell' = [shell EXCEPT ![l] = to]

\* Mutant of End: an instance removes the pid file whoever owns it.
EndErasing(l) == shell' = [shell EXCEPT ![l] = "ended"] /\ pidfile' = 0

End(l) == shell' = [shell EXCEPT ![l] = "ended"] /\ UNCHANGED pidfile
CheckPidFile(l) ==
    /\ shell[l] = "new"
    /\ IF pidfile # 0 /\ ShellAlive(pidfile) THEN End(l)
       ELSE shell' = [shell EXCEPT ![l] = "validate"] /\ UNCHANGED pidfile
    /\ overlapped' = (overlapped \/ stopper.pc # "idle" \/ \E k \in Launches : Transient(k))
    /\ UNCHANGED <<python, process, stopper, faults, slipped>>

\* check_production_config.py: any problem, a port in use, a Rupsaa that runs; or --check, which starts nothing.
CheckConfiguration(l) ==
    /\ shell[l] = "validate"
    /\ \/ End(l)
       \/ /\ \A s \in Servers : PortFree(s)
          /\ \A k \in Launches : ~Visible(k) /\ \A s \in Servers : ~Alive(k, s)
          /\ shell' = [shell EXCEPT ![l] = "write"] /\ UNCHANGED pidfile
    /\ UNCHANGED <<python, process, stopper, faults, overlapped, slipped>>

WritePidFile(l) ==
    /\ Script(l, "write", "launch")
    /\ pidfile' = l
    /\ UNCHANGED <<python, process, stopper, faults, overlapped, slipped>>

\* The shell starts its child and waits for it; the child becomes Python a moment later.
Fork(l) ==
    /\ Script(l, "launch", "wait")
    /\ python' = [python EXCEPT ![l].pc = "forked"]
    /\ UNCHANGED <<process, pidfile, stopper, faults, overlapped, slipped>>

\* The launcher has exited: the script ends, and its trap removes the pid file, whosever it is.
Trap(l) ==
    /\ shell[l] = "wait" /\ python[l].pc = "exited"
    /\ EndErasing(l)
    /\ UNCHANGED <<python, process, stopper, faults, overlapped, slipped>>

-----------------------------------------------------------------------------
(* start_rupsaa.py: a process runs before it is noted in processes.        *)
Spawning == [api |-> "spawn api", web |-> "spawn web"]
Noting == [api |-> "note api", web |-> "note web"]
Looking == [api |-> "look api", web |-> "look web"]
PythonAt(l, from, to) == python[l].pc = from /\ python' = [python EXCEPT ![l].pc = to]
Exec(l) ==
    /\ PythonAt(l, "forked", "spawn api")
    /\ UNCHANGED <<shell, process, pidfile, stopper, faults, overlapped, slipped>>
Spawn(l, s) ==
    /\ PythonAt(l, Spawning[s], Noting[s])
    /\ process' = [process EXCEPT ![l][s] = "starting"]
    /\ UNCHANGED <<shell, pidfile, stopper, faults, overlapped, slipped>>
Note(l, s) ==
    /\ python[l].pc = Noting[s]
    /\ python' = [python EXCEPT ![l] = [pc |-> Looking[s], noted |-> @.noted \cup {s}]]
    /\ UNCHANGED <<shell, process, pidfile, stopper, faults, overlapped, slipped>>
\* After a moment: has it died? The next one, or the watch.
Look(l, s) ==
    /\ PythonAt(l, Looking[s], IF ~Alive(l, s) THEN "stop" ELSE IF s = "api" THEN "spawn web" ELSE "watch")
    /\ UNCHANGED <<shell, process, pidfile, stopper, faults, overlapped, slipped>>

\* Mutant of AnyExited: only the API is watched.
WatchApiOnly(l) == ~Alive(l, "api")

\* The watch: when either has exited, stop both.
AnyExited(l) == \E s \in Servers : ~Alive(l, s)
Watch(l) ==
    /\ AnyExited(l)
    /\ PythonAt(l, "watch", "stop")
    /\ UNCHANGED <<shell, process, pidfile, stopper, faults, overlapped, slipped>>
\* stop_all: terminate, wait up to five seconds, kill what still runs, exit.
TerminateAll(l) == process' = [process EXCEPT ![l] = [s \in Servers |-> IF s \in python[l].noted THEN "dead" ELSE @[s]]]
StopAll(l) ==
    /\ PythonAt(l, "stop", "exited")
    /\ TerminateAll(l)
    /\ UNCHANGED <<shell, pidfile, stopper, faults, overlapped, slipped>>

\* Ctrl+C or SIGTERM: the handler runs wherever the launcher is.
Signal(l) ==
    /\ python[l].pc \notin {"none", "stop", "exited"}
    /\ python' = [python EXCEPT ![l].pc = "stop"]
    /\ slipped' = slipped \cup {<<l, s>> : s \in {x \in Servers : python[l].pc = Noting[x]}}

\* The servers: each binds its port or dies; later it may die.
Bind(l, s) ==
    /\ process[l][s] = "starting"
    /\ process' = [process EXCEPT ![l][s] = IF PortFree(s) THEN "serving" ELSE "dead"]
    /\ UNCHANGED <<shell, python, pidfile, stopper, faults, overlapped, slipped>>
ServerDies(l, s) ==
    /\ Alive(l, s) /\ faults < MaxServerDeaths
    /\ faults' = faults + 1
    /\ process' = [process EXCEPT ![l][s] = "dead"]
    /\ UNCHANGED <<shell, python, pidfile, stopper, overlapped, slipped>>

-----------------------------------------------------------------------------
(* The stop script: its 30 seconds are more than stop_all needs.           *)
StopScript ==
    /\ stopper.pc = "idle"
    /\ \/ pidfile = 0 /\ stopper' = [stopper EXCEPT !.pc = "done"]
       \/ pidfile # 0 /\ ~ShellAlive(pidfile) /\ stopper' = [stopper EXCEPT !.pc = "remove"]
       \/ pidfile # 0 /\ ShellAlive(pidfile) /\ stopper' = [stopper EXCEPT !.pc = "look", !.found = pidfile]
    /\ overlapped' = (overlapped \/ \E l \in Launches : Transient(l))
    /\ UNCHANGED <<shell, python, process, pidfile, faults, slipped>>
\* CHILD: the launcher of the shell, if it is there yet.
FindChild ==
    /\ stopper.pc = "look"
    /\ stopper' = [stopper EXCEPT !.pc = "kill", !.child = Visible(stopper.found)]
    /\ UNCHANGED <<shell, python, process, pidfile, faults, overlapped, slipped>>
\* kill -TERM "${CHILD:-$PID}": the launcher's handler stops the servers; a shell
\* has none, dies at once, and its trap, if it is set by now, removes the pid file.
KillChild ==
    /\ stopper.pc = "kill" /\ stopper.child
    /\ Signal(stopper.found) \/ (python[stopper.found].pc = "stop" /\ UNCHANGED <<python, slipped>>)
    /\ stopper' = [stopper EXCEPT !.pc = "wait"]
    /\ UNCHANGED <<shell, process, pidfile, faults, overlapped>>
KillShell ==
    /\ stopper.pc = "kill" /\ ~stopper.child /\ ShellAlive(stopper.found)
    /\ EndErasing(stopper.found) \/ (shell[stopper.found] = "launch" /\ End(stopper.found))
    /\ stopper' = [stopper EXCEPT !.pc = "wait"]
    /\ UNCHANGED <<python, process, faults, overlapped, slipped>>
\* Nobody is there to be killed: under set -e the script ends with an error.
KillFails ==
    /\ stopper.pc = "kill"
    /\ IF stopper.child THEN python[stopper.found].pc = "exited" ELSE ~ShellAlive(stopper.found)
    /\ stopper' = [stopper EXCEPT !.pc = "done", !.found = 0]
    /\ UNCHANGED <<shell, python, process, pidfile, faults, overlapped, slipped>>

\* Mutant of StopWaits: the script does not wait for the instance to end.
StopWaitsNot == stopper.pc = "wait"

StopWaits == stopper.pc = "wait" /\ ~ShellAlive(stopper.found)
StopWaited ==
    /\ StopWaits
    /\ stopper' = [stopper EXCEPT !.pc = "remove"]
    /\ UNCHANGED <<shell, python, process, pidfile, faults, overlapped, slipped>>
RemovePidFile ==
    /\ stopper.pc = "remove"
    /\ pidfile' = 0
    /\ stopper' = [stopper EXCEPT !.pc = "done"]
    /\ UNCHANGED <<shell, python, process, faults, overlapped, slipped>>

CtrlC == \E l \in Launches : ShellAlive(l) /\ Signal(l) /\ UNCHANGED <<shell, process, pidfile, stopper, faults, overlapped>>

PythonStep(l) == Exec(l) \/ (\E s \in Servers : Spawn(l, s) \/ Note(l, s) \/ Look(l, s)) \/ Watch(l) \/ StopAll(l)

LauncherNext ==
    \/ \E l \in Launches : \/ CheckPidFile(l) \/ CheckConfiguration(l) \/ WritePidFile(l) \/ Fork(l) \/ Trap(l) \/ PythonStep(l)
                           \/ \E s \in Servers : Bind(l, s) \/ ServerDies(l, s)
    \/ StopScript \/ FindChild \/ KillChild \/ KillShell \/ KillFails \/ StopWaited \/ RemovePidFile
    \/ CtrlC

LauncherFairness == \A l \in Launches : WF_launcherVars(PythonStep(l))

LauncherSpec == LauncherInit /\ [][LauncherNext]_launcherVars /\ LauncherFairness
-----------------------------------------------------------------------------
(* When the stop script has ended, the instance whose launcher it found is *)
(* gone with both its servers, except one that was being spawned as the    *)
(* signal came.                                                            *)
StopMeansStopped ==
    stopper.pc = "done" /\ stopper.found # 0 /\ stopper.child =>
        \A s \in Servers : Alive(stopper.found, s) => <<stopper.found, s>> \in slipped

(* "stop a running instance cleanly" (start_rupsaa_production.sh): when the *)
(* script says "Rupsaa production stopped.", nothing of the instance it    *)
(* found runs. With no launcher yet it kills the shell, and the launcher   *)
(* goes on without it.                                                     *)
NothingRunsAfterStop ==
    stopper.pc = "done" /\ stopper.found # 0 => \A s \in Servers : ~Alive(stopper.found, s)

(* As long as no two scripts overlap, the pid file names the instance that *)
(* runs, so that the stop script finds it and a second start is refused.   *)
PidFileNamesRunning == ~overlapped => \A l \in Launches : python[l].pc = "watch" => pidfile = l

(* The stop script ends what runs, and finds it.                           *)
StopWorks == StopMeansStopped /\ PidFileNamesRunning

\* A supervised server runs without the other: the watch is to see it, and to stop it.
HalfService(l) ==
    /\ python[l].pc \in {"watch", "stop", "exited"}
    /\ \E s \in Servers : Alive(l, s) /\ <<l, s>> \notin slipped
    /\ \E s \in Servers : ~Alive(l, s)

(* The API never serves without the web proxy for good, nor the proxy      *)
(* without the API (the watch of main): both are stopped.                  *)
NoHalfService == (\E l \in Launches : HalfService(l)) ~> \A l \in Launches : ~HalfService(l)
=============================================================================
