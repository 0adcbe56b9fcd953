------------------------------ MODULE ConsoleRuns ------------------------------
(***************************************************************************)
(* Runs of the web console that have a child process, ROS experiments,     *)
(* downloads and extractions: the HTTP threads that start and stop them,   *)
(* the manager's threads that report them, and the manifests where the     *)
(* reports end up.  The server handles each request in a thread of its own *)
(* until the clean-up has ended and serve_forever returns.                 *)
(***************************************************************************)
EXTENDS RunStore, ProcessManager

ASSUME ConsoleAssumption == Runs \subseteq AllRuns

VARIABLES
  console,  \* up, or down once main has returned
  calls     \* number of calls of on_complete, for each run

vars == <<storeVars, managerVars, console, calls>>

ConsoleInit ==
  /\ StoreInit
  /\ ManagerInit
  /\ console = "up"
  /\ calls = [r \in Runs |-> 0]

Up == console = "up" /\ UNCHANGED console

OnlyManager == UNCHANGED <<storeVars, calls>>

KeepManagerBut == <<slotVars, markVars, explicit, fireVars, waiter, stopVars, childVars>>

-----------------------------------------------------------------------------
(* _api_ros_start and its like: the manifest, with its directory, then the   *)
(* child, and the status that says it was started.                           *)
BeginRun(r) ==
  /\ Up
  /\ Goes(r, "idle", "saved")
  /\ SaveRun(r, "starting")
  /\ UNCHANGED <<KeepManagerBut, calls>>

StartProcess(r) ==
  /\ Up
  /\ Reserve(r) \/ Conflict(r) \/ Popen(r) \/ PopenFails(r) \/ Register(r)
  /\ OnlyManager

\* Mutant: the status is advanced whatever the callback wrote meanwhile.
ReportStartedBlindly(r) ==
  /\ Up
  /\ Goes(r, "launched", "done")
  /\ IF manifest[r] # "none" THEN WriteStatus(r, "running") ELSE UNCHANGED storeVars
  /\ UNCHANGED <<KeepManagerBut, calls>>

ReportStarted(r) ==
  /\ Up
  /\ Goes(r, "launched", "done")
  /\ UpdateRunIfStatus(r, "starting", "running")
  /\ UNCHANGED <<KeepManagerBut, calls>>

ReportRejected(r) ==
  /\ Up
  /\ Goes(r, "rejected", "done")
  /\ FinalizeRun(r, "failed")
  /\ UNCHANGED <<KeepManagerBut, calls>>

-----------------------------------------------------------------------------
(* _on_complete.                                                             *)
Outcome(r) ==
  IF report[r].stopped THEN "stopped"
  ELSE IF report[r].code = "zero" THEN "completed"
  ELSE "failed"

OnComplete(r) ==
  /\ FinalizeRun(r, Outcome(r))
  /\ calls' = [calls EXCEPT ![r] = @ + 1]

WaiterStep(r) ==
  /\ Up
  /\ \/ (WaiterReaps(r) \/ WaiterMarks(r) \/ WaiterFires(r)) /\ OnlyManager
     \/ WaiterReturns(r) /\ OnComplete(r)

StopRequest(s, r) == Up /\ StopExperiment(s, r) /\ OnlyManager

StopStep(s) ==
  /\ Up
  /\ \/ /\ Flag(s) \/ Terminate(s) \/ AwaitEnds(s) \/ KillAtDeadline(s) \/ KillEnds(s)
            \/ StopMarks(s) \/ StopFires(s)
        /\ OnlyManager
     \/ StopReturns(s) /\ OnComplete(target[s])

BeginCleanup == Up /\ CleanupSnapshot /\ OnlyManager

CleanupStep == Up /\ (\E r \in Runs : CleanupNext(r)) /\ OnlyManager

(* shutdown ends serve_forever, main returns, and the other threads, all     *)
(* daemons, go with the process.                                             *)
ConsoleEnds ==
  /\ console = "up"
  /\ stopper[Cleaner] = "sweep" /\ sweep = {}
  /\ console' = "down"
  /\ UNCHANGED <<managerVars, storeVars, calls>>

ChildStep(r) == ChildExits(r) /\ OnlyManager /\ UNCHANGED console

ThreadOf(r) == StartProcess(r) \/ ReportStarted(r) \/ ReportRejected(r)

ConsoleNext ==
  \/ \E r \in Runs : BeginRun(r) \/ ThreadOf(r) \/ WaiterStep(r) \/ ChildStep(r)
  \/ \E s \in Stoppers, r \in Runs : StopRequest(s, r)
  \/ \E s \in Threads : StopStep(s)
  \/ BeginCleanup \/ CleanupStep \/ ConsoleEnds

ConsoleSpec == ConsoleInit /\ [][ConsoleNext]_vars

(* Threads are scheduled, and what was killed dies.  Requests, signals and   *)
(* the end of a child by itself are not fair.  No step can be repeated, so   *)
(* that fairness to all of them together is fairness to each.                *)
Scheduled ==
  \/ \E r \in Runs : ThreadOf(r) \/ WaiterStep(r) \/ (signal[r] = "kill" /\ ChildStep(r))
  \/ \E s \in Threads : StopStep(s)
  \/ CleanupStep \/ ConsoleEnds

FairConsoleSpec == ConsoleSpec /\ WF_vars(Scheduled)

-----------------------------------------------------------------------------
(* Conflicting experiments are rejected: as long as what is killed dies in   *)
(* time, two children never run at once, whoever starts and stops whom.      *)
OneChild == ~SlowToDie => Cardinality({ r \in Runs : child[r] = "alive" }) <= 1

(* The callback of a run is called by its waiter or by one of those who      *)
(* stop it, and by no second one.                                            *)
ReportedOnce == \A r \in Runs : calls[r] <= 1

(* The status of a run that was launched is that of its child: it has ended, *)
(* completed means that it succeeded, and stopped is what happened to every  *)
(* child that ended of a signal and to none that nobody stopped.             *)
StatusTellsOutcome ==
  \A r \in registered :
    manifest[r] \in Terminal =>
      /\ ~SlowToDie => child[r] = "reaped"
      /\ manifest[r] = "completed" => code[r] = "zero"
      /\ manifest[r] = "failed" => code[r] = "nonzero"
      /\ manifest[r] = "stopped" => r \in explicit

(* When the answer to a stop request is sent the child is gone.              *)
StopEndsChild ==
  [][\A s \in Threads, r \in Runs :
       target[s] = r /\ target'[s] # r /\ ~SlowToDie => child[r] # "alive"]_vars

Life ==
  [r \in AllRuns |-> IF manifest[r] # "none" THEN manifest[r]
                     ELSE IF r \in Runs /\ start[r] # "idle" THEN "evicted" ELSE "new"]

(* A record goes through starting and running to one terminal status and     *)
(* stays there, a fast child notwithstanding; at most MaxRuns are kept, and  *)
(* one that was removed does not come back.                                  *)
Lifecycle == INSTANCE RunLifecycle WITH Run <- AllRuns, Limit <- MaxRuns, life <- Life

ImplementsRunLifecycle == Lifecycle!LifecycleSpec

(* The end of every child is recorded, unless its record was evicted or the  *)
(* console goes down first.                                                  *)
EveryRunConcludes ==
  \A r \in Runs :
    (r \in registered /\ child[r] = "exited")
      ~> (manifest[r] \in Terminal \cup {"none"} \/ console = "down")

(* Stop requests are answered, and the clean-up ends.                        *)
StopsEnd ==
  /\ \A s \in Stoppers : (stopper[s] # "idle") ~> (stopper[s] = "done" \/ console = "down")
  /\ (stopper[Cleaner] # "idle") ~> (console = "down")

(* Nobody waits for a run for ever, who launched it or who stops it.         *)
RunsAndStopsEnd == EveryRunConcludes /\ StopsEnd

(* "Clean up all owned children on shutdown" (process_manager.py:11) asks    *)
(* that none is left running.  It does not hold: see the README.             *)
CleanupLeavesNone == console = "down" => \A r \in Runs : child[r] # "alive"
=============================================================================
