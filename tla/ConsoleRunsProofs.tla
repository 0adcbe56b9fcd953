--------------------------- MODULE ConsoleRunsProofs ---------------------------
(***************************************************************************)
(* Theorems about the console's runs, for any number of them and of        *)
(* requests that stop them.                                                *)
(***************************************************************************)
EXTENDS ConsoleRuns, RunStoreProofs

Stopping == {"flag", "terminate", "await", "reap", "mark", "fire", "callback"}

(* Where the threads are tells what is registered and marked.                *)
Places ==
  /\ \A r \in Runs :
       /\ start[r] \in {"idle", "saved", "reserved", "spawned", "rejected"} => r \notin registered
       /\ r \notin registered <=> waiter[r] = "none"
       /\ waiter[r] \in {"fire", "callback"} => r \in stopped
  /\ \A s \in Threads :
       /\ stopper[s] \in Stopping <=> target[s] # NoRun
       /\ stopper[s] \in {"fire", "callback"} => target[s] \in stopped

(* The slot is the reservation's or one active run's.                        *)
Slot ==
  /\ \A r \in Runs : start[r] \in {"reserved", "spawned"} <=> reserved = r
  /\ reserved # NoRun => Active = {}
  /\ \A q, r \in Active : q = r

(* A child that runs holds the slot: it is marked stopped only when it has   *)
(* been reaped.                                                              *)
Children ==
  /\ \A r \in Runs :
       /\ child[r] = "alive" => start[r] = "spawned" \/ r \in registered
       /\ waiter[r] = "mark" => child[r] = "reaped"
       /\ ~SlowToDie /\ child[r] = "alive" => r \notin stopped
  /\ \A s \in Threads :
       ~SlowToDie /\ stopper[s] = "mark" => child[target[s]] = "reaped"

(* Whoever is in the callback is the one who set the flag.                   *)
Calling(s, r) == stopper[s] = "callback" /\ target[s] = r

Reports ==
  \A r \in Runs :
    /\ calls[r] \in {0, 1}
    /\ r \notin fired =>
         calls[r] = 0 /\ waiter[r] # "callback" /\ \A s \in Threads : ~Calling(s, r)
    /\ waiter[r] = "callback" => calls[r] = 0 /\ \A s \in Threads : ~Calling(s, r)
    /\ \A s, t \in Threads :
         Calling(s, r) => calls[r] = 0 /\ (Calling(t, r) => s = t)

Inv == ManagerTypeOK /\ Places /\ Slot /\ Children /\ Reports
-----------------------------------------------------------------------------
(* No thread has begun and there is no child.                                *)
LEMMA Initially == ConsoleInit => Inv
BY ManagerAssumption DEF ConsoleInit, ManagerInit, Inv, ManagerTypeOK, Places, Slot, Children,
   Reports, Active, Calling, Stopping, NoReport, Codes

(* What _fire_completion captures is a report, and what was fired is marked. *)
LEMMA FireTypes ==
  ASSUME ManagerTypeOK, NEW r \in stopped, NEW c \in BOOLEAN, Fire(r, c)
  PROVE  /\ report' \in [Runs -> [code : Codes \cup {"none"}, stopped : BOOLEAN]]
         /\ fired' \subseteq stopped
<1>1. r \in Runs /\ (r \in explicit) \in BOOLEAN
  BY DEF ManagerTypeOK
<1>2. [code |-> exitCode[r], stopped |-> r \in explicit]
        \in [code : Codes \cup {"none"}, stopped : BOOLEAN]
  <2> DEFINE e == r \in explicit
  <2>1. e \in BOOLEAN
    BY <1>1
  <2>2. exitCode[r] \in Codes \cup {"none"}
    BY <1>1 DEF ManagerTypeOK
  <2> HIDE DEF e
  <2>3. [code |-> exitCode[r], stopped |-> e] \in [code : Codes \cup {"none"}, stopped : BOOLEAN]
    BY <2>1, <2>2
  <2> QED
    BY <2>3 DEF e
<1> DEFINE captured == [code |-> exitCode[r], stopped |-> r \in explicit]
<1>3. report' = [report EXCEPT ![r] = captured] \/ report' = report
  BY DEF Fire
<1>4. captured \in [code : Codes \cup {"none"}, stopped : BOOLEAN]
  BY <1>2
<1> HIDE DEF captured
<1>5. report' \in [Runs -> [code : Codes \cup {"none"}, stopped : BOOLEAN]]
  BY <1>1, <1>3, <1>4 DEF ManagerTypeOK
<1> QED
  BY <1>5 DEF ManagerTypeOK, Fire

(* The thread of the request that starts a run, and the child.               *)
LEMMA StartSteps ==
  ASSUME Inv, NEW r \in Runs, BeginRun(r) \/ ThreadOf(r) \/ ChildStep(r)
  PROVE  Inv'
<1> USE ManagerAssumption DEF Inv, ManagerTypeOK, Places, Slot, Children, Reports, Calling,
      Stopping, Active, slotVars, markVars, fireVars, stopVars, childVars
<1>1. CASE BeginRun(r)
  BY <1>1 DEF BeginRun, Goes, KeepManagerBut
<1>2. CASE StartProcess(r)
  <2> USE DEF Goes, SlotTaken, OnlyManager
  <2>1. CASE Reserve(r)
    BY <1>2, <2>1 DEF StartProcess, Reserve
  <2>2. CASE Conflict(r)
    BY <1>2, <2>2 DEF StartProcess, Conflict
  <2>3. CASE Popen(r)
    BY <1>2, <2>3 DEF StartProcess, Popen
  <2>4. CASE PopenFails(r)
    BY <1>2, <2>4 DEF StartProcess, PopenFails
  <2>5. CASE Register(r)
    BY <1>2, <2>5 DEF StartProcess, Register
  <2> QED
    BY <1>2, <2>1, <2>2, <2>3, <2>4, <2>5 DEF StartProcess
<1>3. CASE ReportStarted(r) \/ ReportRejected(r)
  <2>1. /\ start[r] \in {"launched", "rejected"} /\ start' = [start EXCEPT ![r] = "done"]
        /\ UNCHANGED <<KeepManagerBut, calls>>
    BY <1>3 DEF ReportStarted, ReportRejected, Goes
  <2> QED
    BY <2>1 DEF KeepManagerBut
<1>4. CASE ChildStep(r)
  BY <1>4 DEF ChildStep, ChildExits, OnlyManager, Codes
<1> QED
  BY <1>1, <1>2, <1>3, <1>4 DEF ThreadOf

(* The thread that waits for the child.                                      *)
LEMMA WaiterSteps ==
  ASSUME Inv, NEW r \in Runs, WaiterStep(r)
  PROVE  Inv'
<1> USE ManagerAssumption DEF Inv, Places, Slot, Children, Reports, Calling, Stopping, Active,
      WaiterGoes, slotVars, markVars, fireVars, stopVars, childVars
<1>1. CASE WaiterReaps(r) /\ OnlyManager
  BY <1>1 DEF WaiterReaps, OnlyManager, Reap, ManagerTypeOK
<1>2. CASE WaiterMarks(r) /\ OnlyManager
  BY <1>2 DEF WaiterMarks, OnlyManager, Mark, ManagerTypeOK
<1>3. CASE WaiterFires(r) /\ OnlyManager
  <2>1. PICK c \in BOOLEAN : WaiterGoes(r, "fire", IF c THEN "callback" ELSE "done") /\ Fire(r, c)
    BY <1>3 DEF WaiterFires
  <2>2. r \in stopped
    BY <2>1
  <2>3. ManagerTypeOK'
    <3>1. /\ report' \in [Runs -> [code : Codes \cup {"none"}, stopped : BOOLEAN]]
          /\ fired' \subseteq stopped
      BY <2>1, <2>2, FireTypes
    <3> QED
      BY <1>3, <2>1, <3>1 DEF WaiterFires, ManagerTypeOK
  <2>4. Places' /\ Slot' /\ Children'
    BY <1>3, <2>1 DEF WaiterFires, ManagerTypeOK
  <2>5. Reports'
    BY <1>3, <2>1 DEF WaiterFires, OnlyManager, Fire, ManagerTypeOK
  <2> QED
    BY <2>3, <2>4, <2>5
<1>4. CASE WaiterReturns(r) /\ OnComplete(r)
  BY <1>4 DEF WaiterReturns, OnComplete, NoReport, ManagerTypeOK
<1> QED
  BY <1>1, <1>2, <1>3, <1>4 DEF WaiterStep

(* A thread that stops a child.                                              *)
LEMMA StopSteps ==
  ASSUME Inv, NEW s \in Threads, StopStep(s)
  PROVE  Inv'
<1> USE ManagerAssumption DEF Inv, Places, Slot, Children, Reports, Calling, Stopping, Active,
      StopGoes, slotVars, markVars, fireVars, childVars
<1>1. CASE Flag(s) /\ OnlyManager
  BY <1>1 DEF Flag, OnlyManager, ManagerTypeOK
<1>2. CASE Terminate(s) /\ OnlyManager
  BY <1>2 DEF Terminate, Send, OnlyManager, ManagerTypeOK
<1>3. CASE AwaitEnds(s) /\ OnlyManager
  BY <1>3 DEF AwaitEnds, Reap, OnlyManager, ManagerTypeOK
<1>4. CASE KillAtDeadline(s) /\ OnlyManager
  BY <1>4 DEF KillAtDeadline, Send, OnlyManager, ManagerTypeOK
<1>5. CASE KillEnds(s) /\ OnlyManager
  <2>1. CASE Reap(target[s])
    BY <1>5, <2>1 DEF KillEnds, Reap, OnlyManager, ManagerTypeOK
  <2>2. CASE SlowToDie /\ UNCHANGED childVars
    BY <1>5, <2>2 DEF KillEnds, OnlyManager, ManagerTypeOK
  <2> QED
    BY <1>5, <2>1, <2>2 DEF KillEnds
<1>6. CASE StopMarks(s) /\ OnlyManager
  <2>1. CASE Reap(target[s])
    BY <1>6, <2>1 DEF StopMarks, Reap, OnlyManager, ManagerTypeOK
  <2>2. CASE child[target[s]] # "reaped" /\ UNCHANGED childVars
    <3>1. ManagerTypeOK' /\ Places' /\ Slot'
      BY <1>6, <2>2 DEF StopMarks, OnlyManager, ManagerTypeOK
    <3>2. Children' /\ Reports'
      BY <1>6, <2>2 DEF StopMarks, OnlyManager, ManagerTypeOK
    <3> QED
      BY <3>1, <3>2
  <2> QED
    BY <1>6, <2>1, <2>2 DEF StopMarks
<1>7. CASE StopFires(s) /\ OnlyManager
  <2>1. PICK c \in BOOLEAN :
          /\ IF c THEN StopGoes(s, "fire", "callback") /\ UNCHANGED target
                  ELSE StopEnds(s, "fire")
          /\ Fire(target[s], c)
    BY <1>7 DEF StopFires
  <2>2. target[s] \in stopped
    BY <2>1 DEF StopEnds
  <2>3. /\ report' \in [Runs -> [code : Codes \cup {"none"}, stopped : BOOLEAN]]
        /\ fired' \subseteq stopped
    BY <2>1, <2>2, FireTypes
  <2>4. /\ UNCHANGED <<slotVars, markVars, explicit, start, waiter, sweep, childVars>>
        /\ UNCHANGED calls
    BY <1>7 DEF StopFires, OnlyManager
  <2>5. CASE c
    <3>1. ManagerTypeOK'
      BY <2>1, <2>3, <2>4, <2>5, SMTT(30) DEF ManagerTypeOK
    <3>2. Places' /\ Slot' /\ Children'
      BY <2>1, <2>4, <2>5 DEF ManagerTypeOK
    <3>3. Reports'
      BY <2>1, <2>4, <2>5 DEF Fire, ManagerTypeOK
    <3> QED
      BY <3>1, <3>2, <3>3
  <2>6. CASE ~c
    <3>1. /\ stopper[s] = "fire" /\ target' = [target EXCEPT ![s] = NoRun]
          /\ \E place \in {"sweep", "done"} : stopper' = [stopper EXCEPT ![s] = place]
      BY <2>1, <2>6 DEF StopEnds
    <3>2. ManagerTypeOK'
      BY <2>3, <2>4, <3>1 DEF ManagerTypeOK
    <3>3. Places' /\ Slot' /\ Children'
      BY <2>4, <3>1 DEF ManagerTypeOK
    <3>4. Reports'
      BY <2>1, <2>2, <2>4, <2>6, <3>1 DEF Fire, ManagerTypeOK
    <3> QED
      BY <3>2, <3>3, <3>4
  <2> QED
    BY <2>5, <2>6
<1>8. CASE StopReturns(s) /\ OnComplete(target[s])
  BY <1>8 DEF StopReturns, StopEnds, OnComplete, NoReport, ManagerTypeOK
<1> QED
  BY <1>1, <1>2, <1>3, <1>4, <1>5, <1>6, <1>7, <1>8 DEF StopStep

(* Requests to stop, the clean-up, and the end of the console.               *)
LEMMA RequestSteps ==
  ASSUME Inv,
         \/ \E s \in Stoppers, r \in Runs : StopRequest(s, r)
         \/ BeginCleanup \/ CleanupStep \/ ConsoleEnds
  PROVE  Inv'
<1> USE ManagerAssumption DEF Inv, ManagerTypeOK, Places, Slot, Children, Reports, Calling,
      Stopping, Active, Threads, StopGoes, StopEnds, OnlyManager, slotVars, markVars, fireVars,
      childVars
<1>1. ASSUME NEW s \in Stoppers, NEW r \in Runs, StopRequest(s, r)
      PROVE  Inv'
  <2>1. CASE r \in stopped
    BY <1>1, <2>1, SMTT(30) DEF StopRequest, StopExperiment
  <2>2. CASE r \notin stopped
    <3>1. /\ r \in registered
          /\ s \in Threads /\ stopper[s] = "idle" /\ target[s] = NoRun /\ r # NoRun
          /\ stopper' = [stopper EXCEPT ![s] = "flag"]
          /\ target' = [target EXCEPT ![s] = r]
      BY <1>1, <2>2 DEF StopRequest, StopExperiment
    <3>2. /\ UNCHANGED <<slotVars, markVars, explicit, fireVars, start, waiter, sweep, childVars>>
          /\ UNCHANGED calls
      BY <1>1, <2>2 DEF StopRequest, StopExperiment
    <3>3. ManagerTypeOK'
      BY <3>1, <3>2
    <3>4. Places' /\ Slot' /\ Children' /\ Reports'
      BY <3>1, <3>2
    <3> QED
      BY <3>3, <3>4
  <2> QED
    BY <2>1, <2>2
<1>2. CASE BeginCleanup
  BY <1>2 DEF BeginCleanup, CleanupSnapshot
<1>3. CASE CleanupStep
  <2>1. PICK r \in Runs : CleanupNext(r)
    BY <1>3 DEF CleanupStep
  <2> QED
    BY <1>3, <2>1 DEF CleanupStep, CleanupNext
<1>4. CASE ConsoleEnds
  BY <1>4 DEF ConsoleEnds, managerVars, stopVars
<1> QED
  BY <1>1, <1>2, <1>3, <1>4

(* The invariant is inductive.                                               *)
LEMMA InvStep == Inv /\ [ConsoleNext]_vars => Inv'
<1> SUFFICES ASSUME Inv, [ConsoleNext]_vars PROVE Inv'
  OBVIOUS
<1>1. CASE UNCHANGED vars
  BY <1>1 DEF vars, managerVars, slotVars, markVars, fireVars, stopVars, childVars, Inv,
     ManagerTypeOK, Places, Slot, Children, Reports, Calling, Active
<1> QED
  BY <1>1, StartSteps, WaiterSteps, StopSteps, RequestSteps DEF ConsoleNext

(* It holds of every reachable state.                                        *)
LEMMA InvHolds == ConsoleSpec => []Inv
BY Initially, InvStep, PTL DEF ConsoleSpec

-----------------------------------------------------------------------------
(* start_ros_experiment lets one run in: its slot is taken from the          *)
(* reservation until the child is marked stopped, and by then it is dead     *)
(* unless it outlives the wait after SIGKILL.                                *)
THEOREM OneChildHolds == ConsoleSpec => []OneChild
<1>1. Inv => OneChild
  <2> SUFFICES ASSUME Inv, ~SlowToDie
               PROVE  Cardinality({ r \in Runs : child[r] = "alive" }) <= 1
    BY DEF OneChild
  <2> DEFINE alive == { r \in Runs : child[r] = "alive" }
  <2>1. ASSUME NEW q \in alive, NEW r \in alive
        PROVE  q = r
    BY <2>1, ManagerAssumption DEF Inv, ManagerTypeOK, Slot, Children, Active
  <2>2. alive = {} \/ \E r \in alive : alive = {r}
    <3> HIDE DEF alive
    <3> QED
      BY <2>1
  <2>3. Cardinality(alive) \in {0, 1}
    <3> HIDE DEF alive
    <3> QED
      BY <2>2, FS_EmptySet, FS_Singleton
  <2> QED
    BY <2>3
<1> QED
  BY <1>1, InvHolds, PTL

(* _callback_fired under the lock: of the waiter and of all who stop a run,  *)
(* however they interleave, one calls on_complete, and calls it once.        *)
THEOREM ReportedOnceHolds == ConsoleSpec => []ReportedOnce
<1>1. Inv => ReportedOnce
  BY DEF Inv, Reports, ReportedOnce
<1> QED
  BY <1>1, InvHolds, PTL

(* _stop_process lets go of a run, for the answer to the request or for the  *)
(* next run of the clean-up, only when its child has ended.                  *)
THEOREM StopEndsChildHolds == ConsoleSpec => StopEndsChild
<1> DEFINE LetGo == \A s \in Threads, r \in Runs :
                      target[s] = r /\ target'[s] # r /\ ~SlowToDie => child[r] # "alive"
<1>1. Inv /\ [ConsoleNext]_vars => LetGo
  <2> SUFFICES ASSUME Inv, [ConsoleNext]_vars,
                      NEW s \in Threads, NEW r \in Runs,
                      target[s] = r, target'[s] # r, ~SlowToDie
               PROVE  child[r] # "alive"
    OBVIOUS
  <2>1. r # NoRun /\ r \in registered /\ stopper[s] \in Stopping
    BY ManagerAssumption DEF Inv, ManagerTypeOK, Places
  <2>2. \/ \E t \in Threads : StopFires(t) \/ StopReturns(t)
        \/ \E t \in Stoppers, q \in Runs : StopExperiment(t, q)
        \/ \E q \in Runs : CleanupNext(q)
    <3>1. CASE \E q \in Runs : BeginRun(q) \/ ThreadOf(q) \/ WaiterStep(q) \/ ChildStep(q)
      <4>1. UNCHANGED target
        BY <3>1 DEF BeginRun, KeepManagerBut, ThreadOf, StartProcess, Reserve, Conflict, Popen,
           PopenFails, Register, ReportStarted, ReportRejected, WaiterStep, WaiterReaps,
           WaiterMarks, WaiterFires, WaiterReturns, ChildStep, ChildExits, stopVars
      <4> QED
        BY <4>1
    <3>2. CASE \E t \in Threads : StopStep(t)
      <4>1. PICK t \in Threads : StopStep(t)
        BY <3>2
      <4>2. StopFires(t) \/ StopReturns(t) \/ UNCHANGED target
        BY <4>1 DEF StopStep, Flag, Terminate, AwaitEnds, KillAtDeadline, KillEnds, StopMarks
      <4> QED
        BY <4>2
    <3>3. CASE BeginCleanup \/ ConsoleEnds \/ UNCHANGED vars
      <4>1. UNCHANGED target
        BY <3>3 DEF BeginCleanup, CleanupSnapshot, ConsoleEnds, vars, managerVars, stopVars
      <4> QED
        BY <4>1
    <3> QED
      BY <3>1, <3>2, <3>3 DEF ConsoleNext, StopRequest, CleanupStep
  <2>3. stopper[s] \in {"fire", "callback"}
    BY <2>1, <2>2, ManagerAssumption
       DEF StopFires, StopReturns, StopExperiment, CleanupNext, StopEnds, StopGoes, Stopping,
           Inv, ManagerTypeOK, Threads
  <2> QED
    BY <2>1, <2>3 DEF Inv, Places, Children
<1> QED
  BY <1>1, InvHolds, PTL DEF ConsoleSpec, StopEndsChild

-----------------------------------------------------------------------------
(* A record that is terminal says how the child of its run ended.            *)
Truth(r) ==
  /\ ~SlowToDie => child[r] = "reaped"
  /\ manifest[r] = "completed" => code[r] = "zero"
  /\ manifest[r] = "failed" => code[r] = "nonzero"
  /\ manifest[r] = "stopped" => r \in explicit

(* What is known of a child and of its exit code, before it is written.      *)
Known ==
  \A r \in Runs :
    /\ signal[r] # "none" \/ code[r] = "signalled" => r \in explicit
    /\ child[r] \in {"none", "alive"} <=> code[r] = "none"
    /\ exitCode[r] # "none" => exitCode[r] = code[r]
    /\ r \in stopped => \/ exitCode[r] # "none" /\ child[r] = "reaped"
                        \/ SlowToDie /\ r \in explicit
    /\ start[r] \in {"idle", "saved", "reserved"} => child[r] = "none"
    /\ start[r] = "spawned" \/ r \in registered => child[r] # "none"
    /\ waiter[r] = "mark" => child[r] = "reaped"

Flagged ==
  \A s \in Threads : stopper[s] \in Stopping \ {"flag"} => target[s] \in explicit

(* What was captured for the callback.                                       *)
Captured(r) ==
  /\ report[r].code # "none" => report[r].code = code[r]
  /\ IF report[r].stopped THEN r \in explicit
     ELSE report[r].code # "none" /\ code[r] # "signalled"

Told ==
  \A r \in Runs :
    /\ start[r] \in {"idle", "saved", "reserved", "spawned"} => manifest[r] \notin Terminal
    /\ r \in registered /\ manifest[r] \in Terminal => Truth(r)
    /\ waiter[r] = "callback" \/ (\E s \in Threads : Calling(s, r)) => Captured(r)

TellInv == Known /\ Flagged /\ Told /\ manifest \in Manifests

(* There is nothing to tell at first.                                        *)
LEMMA TellsInitially == ConsoleInit => TellInv
BY ConsoleAssumption, ManagerAssumption
   DEF ConsoleInit, StoreInit, ManagerInit, TellInv, Known, Flagged, Told, Calling, Stopping, Terminal,
       Statuses, Manifests

(* Recording the run, reserving the slot, starting the child.                *)
LEMMA StartTells ==
  ASSUME Inv, TellInv, NEW r \in Runs, BeginRun(r) \/ ThreadOf(r)
  PROVE  TellInv'
<1> USE ManagerAssumption DEF TellInv, Inv, Known, Flagged, Told, ManagerTypeOK, Places, Slot,
      Captured, Truth, Calling, Goes, slotVars, markVars, fireVars, stopVars, childVars
<1>1. CASE BeginRun(r)
  <2>1. /\ manifest' \in Manifests
        /\ \A q \in Runs : manifest'[q] \in {"none", "starting", manifest[q]}
    BY <1>1, Saved, ConsoleAssumption DEF BeginRun, Statuses
  <2>2. /\ start[r] = "idle" /\ start' = [start EXCEPT ![r] = "saved"]
        /\ UNCHANGED KeepManagerBut
    BY <1>1 DEF BeginRun
  <2>3. Known' /\ Flagged'
    BY <2>2 DEF KeepManagerBut
  <2>4. Told'
    BY <2>1, <2>2 DEF KeepManagerBut, Terminal
  <2> QED
    BY <2>1, <2>3, <2>4
<1>2. CASE StartProcess(r)
  <2> USE <1>2 DEF StartProcess, OnlyManager, storeVars
  <2>1. CASE Reserve(r) \/ Conflict(r) \/ PopenFails(r)
    BY <2>1 DEF Reserve, Conflict, PopenFails
  <2>2. CASE Popen(r)
    <3>1. /\ start[r] = "reserved" /\ r \notin registered /\ r \notin stopped
          /\ exitCode[r] = "none" /\ code[r] = "none" /\ child[r] = "none"
      BY <2>2 DEF Popen
    <3> QED
      BY <2>2, <3>1 DEF Popen
  <2>3. CASE Register(r)
    BY <2>3 DEF Register, Children
  <2> QED
    BY <2>1, <2>2, <2>3
<1>3. CASE ReportStarted(r) \/ ReportRejected(r)
  <2>1. /\ start[r] \in {"launched", "rejected"} /\ start' = [start EXCEPT ![r] = "done"]
        /\ UNCHANGED KeepManagerBut
        /\ start[r] = "rejected" => r \notin registered
    BY <1>3 DEF ReportStarted, ReportRejected
  <2>2. /\ manifest' \in Manifests
        /\ \A q \in Runs : \/ manifest'[q] = manifest[q]
                           \/ q = r /\ manifest'[q] = "running"
                           \/ q = r /\ start[r] = "rejected"
    <3>1. CASE ReportStarted(r)
      BY <3>1, ConsoleAssumption
         DEF ReportStarted, UpdateRunIfStatus, WriteStatus, storeVars, Statuses, Manifests
    <3>2. CASE ReportRejected(r)
      BY <3>2, Finalized, ConsoleAssumption DEF ReportRejected, Terminal, Statuses
    <3> QED
      BY <1>3, <3>1, <3>2
  <2>3. Known' /\ Flagged'
    BY <2>1 DEF KeepManagerBut
  <2>4. Told'
    BY <2>1, <2>2 DEF KeepManagerBut, Terminal
  <2> QED
    BY <2>2, <2>3, <2>4
<1> QED
  BY <1>1, <1>2, <1>3 DEF ThreadOf

(* A child that ends of a signal was sent one.                               *)
LEMMA ChildTells ==
  ASSUME Inv, TellInv, NEW r \in Runs, ChildStep(r)
  PROVE  TellInv'
BY DEF TellInv, Inv, Known, Flagged, Told, ManagerTypeOK, Places, Captured, Truth, Calling,
   ChildStep, ChildExits, OnlyManager, Codes, storeVars, slotVars, markVars, fireVars, stopVars

(* _fire_completion reads an exit code and a flag that stand for the end of  *)
(* the child, and they do not change any more.                               *)
LEMMA FireCaptures ==
  ASSUME Inv, TellInv, NEW r \in stopped, NEW c \in BOOLEAN, Fire(r, c),
         UNCHANGED <<explicit, code, exitCode>>
  PROVE  /\ c => Captured(r)'
         /\ \A q \in Runs : q # r \/ ~c => report'[q] = report[q]
<1>1. ASSUME c PROVE Captured(r)'
  <2>1. report'[r] = [code |-> exitCode[r], stopped |-> r \in explicit]
    BY <1>1 DEF Fire, Inv, ManagerTypeOK
  <2>2. report'[r].code = exitCode[r] /\ (report'[r].stopped = (r \in explicit))
    BY <2>1
  <2>3. CASE r \in explicit
    BY <2>2, <2>3 DEF Captured, Inv, ManagerTypeOK, TellInv, Known
  <2>4. CASE r \notin explicit
    BY <2>2, <2>4 DEF Captured, Inv, ManagerTypeOK, TellInv, Known
  <2> QED
    BY <2>3, <2>4
<1>2. ASSUME NEW q \in Runs, q # r \/ ~c PROVE report'[q] = report[q]
  BY <1>2 DEF Fire, Inv, ManagerTypeOK
<1> QED
  BY <1>1, <1>2

(* on_complete writes what was captured.                                     *)
LEMMA CompleteTells ==
  ASSUME Inv, TellInv, NEW r \in stopped, Captured(r), OnComplete(r),
         UNCHANGED <<child, code, explicit>>
  PROVE  /\ manifest' \in Manifests
         /\ \A q \in Runs : manifest'[q] # manifest[q] => q = r
         /\ manifest'[r] # manifest[r] => Truth(r)'
<1>1. r \in Runs /\ r \in AllRuns /\ Outcome(r) \in Terminal
  BY ConsoleAssumption DEF Inv, ManagerTypeOK, Outcome, Terminal
<1>2. /\ manifest' \in Manifests
      /\ \A q \in AllRuns : manifest'[q] = manifest[q] \/ (q = r /\ manifest'[q] = Outcome(r))
  BY <1>1, Finalized DEF OnComplete, TellInv, Statuses
<1>3. ASSUME manifest'[r] = Outcome(r) PROVE Truth(r)'
  <2>1. /\ ~SlowToDie => child[r] = "reaped"
        /\ code[r] \in Codes \cup {"none"}
    BY <1>1 DEF Inv, ManagerTypeOK, TellInv, Known
  <2>2. CASE report[r].stopped
    BY <1>1, <1>3, <2>1, <2>2 DEF Outcome, Captured, Truth
  <2>3. CASE ~report[r].stopped
    BY <1>1, <1>3, <2>1, <2>3 DEF Outcome, Captured, Truth, Codes
  <2> QED
    BY <2>2, <2>3
<1> QED
  BY <1>1, <1>2, <1>3, ConsoleAssumption

(* Reporting a child that was waited for.                                    *)
LEMMA WaiterTells ==
  ASSUME Inv, TellInv, NEW r \in Runs, WaiterStep(r)
  PROVE  TellInv'
<1> USE ManagerAssumption DEF WaiterGoes, OnlyManager, storeVars, slotVars, markVars, fireVars,
      stopVars, childVars
<1>1. CASE WaiterReaps(r) /\ OnlyManager
  BY <1>1 DEF WaiterReaps, Reap, TellInv, Inv, Known, Flagged, Told, Captured, Truth, Calling,
     ManagerTypeOK
<1>2. CASE WaiterMarks(r) /\ OnlyManager
  BY <1>2 DEF WaiterMarks, Mark, TellInv, Inv, Known, Flagged, Told, Captured, Truth, Calling,
     ManagerTypeOK
<1>3. CASE WaiterFires(r) /\ OnlyManager
  <2>1. PICK c \in BOOLEAN : WaiterGoes(r, "fire", IF c THEN "callback" ELSE "done") /\ Fire(r, c)
    BY <1>3 DEF WaiterFires
  <2>2. r \in stopped
    BY <2>1 DEF Inv, Places
  <2>3. /\ c => Captured(r)'
        /\ \A q \in Runs : q # r \/ ~c => report'[q] = report[q]
    BY <1>3, <2>1, <2>2, FireCaptures DEF WaiterFires
  <2>4. Known' /\ Flagged'
    BY <1>3, <2>1 DEF WaiterFires, TellInv, Known, Flagged, Inv, ManagerTypeOK
  <2>5. Told'
    BY <1>3, <2>1, <2>3
       DEF WaiterFires, TellInv, Told, Captured, Truth, Calling, Inv, Reports, Fire, ManagerTypeOK
  <2> QED
    BY <1>3, <2>4, <2>5 DEF TellInv
<1>4. CASE WaiterReturns(r) /\ OnComplete(r)
  <2>1. r \in stopped /\ Captured(r)
    BY <1>4 DEF WaiterReturns, Inv, Places, TellInv, Told
  <2>2. /\ manifest' \in Manifests
        /\ \A q \in Runs : manifest'[q] # manifest[q] => q = r
        /\ manifest'[r] # manifest[r] => Truth(r)'
    BY <1>4, <2>1, CompleteTells DEF WaiterReturns
  <2>3. Known' /\ Flagged'
    BY <1>4 DEF WaiterReturns, TellInv, Known, Flagged, Inv, ManagerTypeOK
  <2>4. Told'
    BY <1>4, <2>1, <2>2
       DEF WaiterReturns, TellInv, Told, Captured, Truth, Calling, Inv, Places, Reports,
           ManagerTypeOK
  <2> QED
    BY <2>2, <2>3, <2>4 DEF TellInv
<1> QED
  BY <1>1, <1>2, <1>3, <1>4 DEF WaiterStep

(* Stopping and reporting a child.                                           *)
LEMMA StopTells ==
  ASSUME Inv, TellInv, NEW s \in Threads, StopStep(s)
  PROVE  TellInv'
<1> USE ManagerAssumption DEF StopGoes, OnlyManager, Stopping, storeVars, slotVars, markVars,
      fireVars, childVars
<1>1. CASE OnlyManager /\ Flag(s)
  BY <1>1 DEF Flag, TellInv, Inv, Known, Flagged, Told, Captured, Truth, Calling, ManagerTypeOK
<1>2. CASE OnlyManager /\ (Terminate(s) \/ AwaitEnds(s) \/ KillAtDeadline(s))
  BY <1>2 DEF Terminate, AwaitEnds, KillAtDeadline, Send, Reap, TellInv, Inv, Known, Flagged, Told,
     Captured, Truth, Calling, ManagerTypeOK
<1>3. CASE OnlyManager /\ KillEnds(s)
  BY <1>3 DEF KillEnds, Reap, TellInv, Inv, Known, Flagged, Told, Captured, Truth, Calling,
     ManagerTypeOK
<1>4. CASE OnlyManager /\ StopMarks(s)
  BY <1>4 DEF StopMarks, Reap, TellInv, Inv, Children, Known, Flagged, Told, Captured, Truth,
     Calling, ManagerTypeOK
<1>5. CASE OnlyManager /\ StopFires(s)
  <2>1. PICK c \in BOOLEAN :
          /\ IF c THEN StopGoes(s, "fire", "callback") /\ UNCHANGED target
                  ELSE StopEnds(s, "fire")
          /\ Fire(target[s], c)
    BY <1>5 DEF StopFires
  <2>2. target[s] \in stopped
    BY <2>1 DEF StopEnds, Inv, Places
  <2>3. /\ c => Captured(target[s])'
        /\ \A q \in Runs : q # target[s] \/ ~c => report'[q] = report[q]
    BY <1>5, <2>1, <2>2, FireCaptures DEF StopFires
  <2>4. Known' /\ Flagged'
    BY <1>5, <2>1 DEF StopFires, StopEnds, TellInv, Known, Flagged, Inv, ManagerTypeOK
  <2>5. Told'
    BY <1>5, <2>1, <2>2, <2>3
       DEF StopFires, StopEnds, TellInv, Told, Captured, Truth, Calling, Inv, Reports, Fire,
           ManagerTypeOK
  <2> QED
    BY <1>5, <2>4, <2>5 DEF TellInv
<1>6. CASE StopReturns(s) /\ OnComplete(target[s])
  <2>1. PICK q \in stopped : q = target[s] /\ Captured(q)
    BY <1>6 DEF StopReturns, StopEnds, Inv, ManagerTypeOK, Places, TellInv, Told, Calling
  <2>2. /\ manifest' \in Manifests
        /\ \A r \in Runs : manifest'[r] # manifest[r] => r = q
        /\ manifest'[q] # manifest[q] => Truth(q)'
    <3>1. UNCHANGED <<child, code, explicit>>
      BY <1>6 DEF StopReturns
    <3> QED
      BY <1>6, <2>1, <3>1, CompleteTells
  <2>3. Known' /\ Flagged'
    BY <1>6 DEF StopReturns, StopEnds, TellInv, Known, Flagged, Inv, ManagerTypeOK
  <2>4. Told'
    <3>1. /\ q \in registered /\ start[q] \notin {"idle", "saved", "reserved", "spawned"}
          /\ UNCHANGED <<start, waiter, registered, child, code, explicit>>
      BY <1>6, <2>1 DEF StopReturns, Inv, ManagerTypeOK, Places
    <3>2. ASSUME NEW r \in Runs,
                 waiter'[r] = "callback" \/ \E t \in Threads : Calling(t, r)'
          PROVE  Captured(r)'
      <4>1. waiter[r] = "callback" \/ \E t \in Threads : Calling(t, r) /\ t # s
        BY <1>6, <3>1, <3>2 DEF StopReturns, StopEnds, Calling, Inv, ManagerTypeOK
      <4>2. r # q
        BY <1>6, <2>1, <4>1 DEF StopReturns, StopEnds, Calling, Inv, Reports, ManagerTypeOK
      <4> QED
        BY <1>6, <2>1, <3>1, <4>1, <4>2
           DEF StopReturns, TellInv, Told, Captured, Inv, ManagerTypeOK
    <3> QED
      BY <2>2, <3>1, <3>2 DEF TellInv, Told, Truth
  <2> QED
    BY <2>2, <2>3, <2>4 DEF TellInv
<1> QED
  BY <1>1, <1>2, <1>3, <1>4, <1>5, <1>6 DEF StopStep

(* Choosing what to stop tells nothing of any run.                           *)
LEMMA RequestTells ==
  ASSUME Inv, TellInv,
         \/ \E s \in Stoppers, r \in Runs : StopRequest(s, r)
         \/ BeginCleanup \/ CleanupStep \/ ConsoleEnds \/ UNCHANGED vars
  PROVE  TellInv'
<1>1. /\ UNCHANGED <<slotVars, markVars, explicit, fireVars, start, waiter, childVars, storeVars>>
      /\ \A s \in Threads :
           stopper'[s] \in Stopping \ {"flag"} => stopper'[s] = stopper[s] /\ target'[s] = target[s]
  BY ManagerAssumption
     DEF StopRequest, StopExperiment, BeginCleanup, CleanupSnapshot, CleanupStep, CleanupNext,
         ConsoleEnds, StopEnds, StopGoes, OnlyManager, vars, managerVars, stopVars, Stopping, Threads,
         Inv, ManagerTypeOK
<1> QED
  BY <1>1 DEF TellInv, Known, Flagged, Told, Captured, Truth, Calling, Stopping, storeVars,
     slotVars, markVars, fireVars, childVars

(* Whatever the threads of a run do in whatever order, its manifest never    *)
(* says of the child what is not so: on_complete is called with what         *)
(* _fire_completion read after the child was marked, the explicit flag was   *)
(* set before any signal, and no later status replaces a terminal one.       *)
THEOREM StatusTellsOutcomeHolds == ConsoleSpec => []StatusTellsOutcome
<1>1. Inv /\ TellInv /\ [ConsoleNext]_vars => TellInv'
  <2> SUFFICES ASSUME Inv, TellInv, [ConsoleNext]_vars PROVE TellInv'
    OBVIOUS
  <2> QED
    BY StartTells, ChildTells, WaiterTells, StopTells, RequestTells DEF ConsoleNext
<1>2. Inv /\ TellInv => StatusTellsOutcome
  BY DEF Inv, ManagerTypeOK, TellInv, Told, Truth, StatusTellsOutcome
<1> QED
  BY <1>1, <1>2, TellsInitially, InvHolds, PTL DEF ConsoleSpec
-----------------------------------------------------------------------------
(* The record of a run goes forward.  Only runs that began have one, and an  *)
(* experiment of the console's own kind never ends as cancelled.             *)
RecordInv ==
  /\ dirs \in Seq(AllRuns)
  /\ \A q \in AllRuns :
       manifest[q] # "none" =>
         manifest[q] # "cancelled" /\ q \in Runs /\ start[q] # "idle"

(* A step of the abstract specification, or none.                            *)
LifeMoves == Lifecycle!LifecycleNext \/ UNCHANGED Life

(* There is no record.                                                       *)
LEMMA RecordsInitially == ConsoleInit => RecordInv /\ Lifecycle!LifecycleInit
<1> SUFFICES ASSUME ConsoleInit PROVE RecordInv /\ Lifecycle!LifecycleInit
  OBVIOUS
<1>1. dirs \in Seq(AllRuns)
  <2>1. << >> \in Seq(AllRuns)
    OBVIOUS
  <2> QED
    BY <2>1 DEF ConsoleInit, StoreInit
<1> QED
  BY <1>1 DEF ConsoleInit, StoreInit, ManagerInit, RecordInv, Lifecycle!LifecycleInit, Life

(* Beginning a run records it, and evicts those whose directories go.        *)
LEMMA BeginRecords ==
  ASSUME Inv, TellInv, RecordInv, NEW r \in Runs, BeginRun(r)
  PROVE  RecordInv' /\ LifeMoves
<1>1. /\ r \in AllRuns /\ start[r] = "idle" /\ manifest[r] = "none"
      /\ start' = [start EXCEPT ![r] = "saved"]
      /\ SaveRun(r, "starting")
  BY ConsoleAssumption DEF BeginRun, Goes, RecordInv
<1>2. /\ dirs' \in Seq(AllRuns)
      /\ \E evicted \in SUBSET { q \in AllRuns : manifest[q] # "none" } :
           /\ Cardinality({ q \in AllRuns : manifest[q] # "none" } \ evicted) < MaxRuns
           /\ manifest' = [q \in AllRuns |-> IF q = r THEN "starting"
                                            ELSE IF q \in evicted THEN "none"
                                            ELSE manifest[q]]
  <2>1. "starting" \in Statuses /\ manifest \in Manifests /\ dirs \in Seq(AllRuns)
    BY DEF TellInv, RecordInv, Statuses
  <2> QED
    BY <1>1, <2>1, SavedAmongFew
<1>3. PICK evicted \in SUBSET { q \in AllRuns : manifest[q] # "none" } :
        /\ Cardinality({ q \in AllRuns : manifest[q] # "none" } \ evicted) < MaxRuns
        /\ manifest' = [q \in AllRuns |-> IF q = r THEN "starting"
                                         ELSE IF q \in evicted THEN "none"
                                         ELSE manifest[q]]
  BY <1>2
<1>4. Lifecycle!Recorded = { q \in AllRuns : manifest[q] # "none" }
  BY DEF Lifecycle!Recorded, Life, TellInv, Manifests, Statuses, Terminal
<1>5. RecordInv'
  BY <1>1, <1>2, <1>3 DEF RecordInv, Inv, ManagerTypeOK
<1>6. Lifecycle!Record(r, evicted, "starting")
  <2>1. Life[r] = "new"
    BY <1>1 DEF Life
  <2>2. Life' = [q \in AllRuns |-> IF q = r THEN "starting"
                                  ELSE IF q \in evicted THEN "evicted" ELSE Life[q]]
    BY <1>1, <1>3 DEF Life, RecordInv, Inv, ManagerTypeOK
  <2>3. evicted \subseteq Lifecycle!Recorded /\ Cardinality(Lifecycle!Recorded \ evicted) < MaxRuns
    BY <1>3, <1>4
  <2> QED
    BY <2>1, <2>2, <2>3, Zenon DEF Lifecycle!Record, Lifecycle!Cardinality, Cardinality
<1> QED
  BY <1>1, <1>3, <1>4, <1>5, <1>6 DEF LifeMoves, Lifecycle!LifecycleNext

(* A later status is written forward or not at all.                          *)
LEMMA StatusMoves ==
  ASSUME Inv, TellInv, RecordInv, NEW r \in Runs,
         \/ UpdateRunIfStatus(r, "starting", "running")
         \/ \E status \in Terminal : FinalizeRun(r, status),
         \A q \in Runs : start'[q] = "idle" <=> start[q] = "idle"
  PROVE  RecordInv' /\ LifeMoves
<1>1. r \in AllRuns /\ manifest \in Manifests
  BY ConsoleAssumption DEF TellInv
<1>2. CASE UNCHANGED storeVars
  BY <1>2 DEF storeVars, RecordInv, LifeMoves, Life
<1>3. ASSUME NEW status \in {"running"} \cup Terminal, WriteStatus(r, status),
             IF status = "running" THEN manifest[r] = "starting"
             ELSE manifest[r] \in {"starting", "running"}
      PROVE  RecordInv' /\ LifeMoves
  <2>1. /\ manifest' = [manifest EXCEPT ![r] = status]
        /\ dirs' \in Seq(AllRuns)
        /\ manifest[r] # "none" /\ status \notin {"none", "cancelled"}
    BY <1>1, <1>3, TouchedIsLast DEF WriteStatus, RecordInv, Terminal
  <2>2. RecordInv'
    BY <1>1, <2>1 DEF RecordInv, Manifests
  <2>3. /\ Life[r] = manifest[r]
        /\ Life' = [Life EXCEPT ![r] = status]
    BY <1>1, <2>1 DEF Life, Manifests
  <2>4. CASE status = "running"
    BY <1>1, <1>3, <2>2, <2>3, <2>4 DEF LifeMoves, Lifecycle!LifecycleNext, Lifecycle!Advance
  <2>5. CASE status # "running"
    <3>1. Lifecycle!Conclude(r, status) /\ status \in {"completed", "failed", "stopped"}
      BY <1>3, <2>3, <2>5 DEF Lifecycle!Conclude, Terminal
    <3> QED
      BY <1>1, <2>2, <3>1 DEF LifeMoves, Lifecycle!LifecycleNext
  <2> QED
    BY <2>4, <2>5
<1>4. CASE UpdateRunIfStatus(r, "starting", "running")
  BY <1>2, <1>3, <1>4 DEF UpdateRunIfStatus
<1>5. CASE \E status \in Terminal : FinalizeRun(r, status)
  <2>1. PICK status \in Terminal : FinalizeRun(r, status)
    BY <1>5
  <2>2. CASE manifest[r] \notin Terminal \cup {"none"} /\ WriteStatus(r, status)
    <3>1. manifest[r] \in {"starting", "running"} /\ status # "running"
      BY <1>1, <2>2 DEF RecordInv, Manifests, Statuses, Terminal
    <3> QED
      BY <1>3, <2>2, <3>1
  <2> QED
    BY <1>2, <2>1, <2>2 DEF FinalizeRun
<1> QED
  BY <1>4, <1>5

(* The other steps leave the records, and no run begins.                     *)
LEMMA OthersRecordNothing ==
  ASSUME Inv, RecordInv, UNCHANGED storeVars,
         \A q \in Runs : start'[q] = "idle" <=> start[q] = "idle"
  PROVE  RecordInv' /\ LifeMoves
BY DEF storeVars, RecordInv, LifeMoves, Life

LEMMA ConsoleMoves ==
  ASSUME Inv, TellInv, RecordInv, [ConsoleNext]_vars
  PROVE  RecordInv' /\ LifeMoves
<1>1. ASSUME NEW r \in Runs, StartProcess(r)
      PROVE  RecordInv' /\ LifeMoves
  <2>1. UNCHANGED storeVars /\ \A q \in Runs : start'[q] = "idle" <=> start[q] = "idle"
    BY <1>1 DEF StartProcess, OnlyManager, Reserve, Conflict, Popen, PopenFails, Register, Goes, Inv,
       ManagerTypeOK
  <2> QED
    BY <2>1, OthersRecordNothing
<1>2. ASSUME NEW r \in Runs, ReportStarted(r) \/ ReportRejected(r)
      PROVE  RecordInv' /\ LifeMoves
  <2>1. \A q \in Runs : start'[q] = "idle" <=> start[q] = "idle"
    BY <1>2 DEF ReportStarted, ReportRejected, Goes, Inv, ManagerTypeOK
  <2> QED
    BY <1>2, <2>1, StatusMoves DEF ReportStarted, ReportRejected, Terminal
<1>3. ASSUME NEW r \in Runs, OnComplete(r), UNCHANGED start
      PROVE  RecordInv' /\ LifeMoves
  <2>1. Outcome(r) \in Terminal
    BY DEF Outcome, Terminal
  <2> QED
    BY <1>3, <2>1, StatusMoves DEF OnComplete
<1>4. ASSUME NEW r \in Runs, WaiterStep(r)
      PROVE  RecordInv' /\ LifeMoves
  <2>1. CASE WaiterReturns(r) /\ OnComplete(r)
    BY <1>3, <2>1 DEF WaiterReturns
  <2>2. CASE (WaiterReaps(r) \/ WaiterMarks(r) \/ WaiterFires(r)) /\ OnlyManager
    <3>1. UNCHANGED <<storeVars, start>>
      BY <2>2 DEF OnlyManager, WaiterReaps, WaiterMarks, WaiterFires
    <3> QED
      BY <3>1, OthersRecordNothing
  <2> QED
    BY <1>4, <2>1, <2>2 DEF WaiterStep
<1>5. ASSUME NEW s \in Threads, StopStep(s)
      PROVE  RecordInv' /\ LifeMoves
  <2>1. CASE StopReturns(s) /\ OnComplete(target[s])
    <3>1. target[s] \in Runs /\ UNCHANGED start
      BY <2>1, ManagerAssumption
         DEF StopReturns, StopEnds, StopGoes, Inv, ManagerTypeOK, Places, Stopping
    <3> QED
      BY <1>3, <2>1, <3>1
  <2>2. CASE UNCHANGED <<storeVars, start>>
    BY <2>2, OthersRecordNothing
  <2> QED
    BY <1>5, <2>1, <2>2 DEF StopStep, OnlyManager, Flag, Terminate, AwaitEnds, KillAtDeadline, KillEnds,
       StopMarks, StopFires
<1>6. CASE \/ \E r \in Runs : ChildStep(r)
           \/ \E s \in Stoppers, r \in Runs : StopRequest(s, r)
           \/ BeginCleanup \/ CleanupStep \/ ConsoleEnds \/ UNCHANGED vars
  <2>1. UNCHANGED <<storeVars, start>>
    BY <1>6 DEF ChildStep, ChildExits, StopRequest, StopExperiment, BeginCleanup, CleanupSnapshot,
       CleanupStep, CleanupNext, ConsoleEnds, OnlyManager, vars, managerVars
  <2> QED
    BY <2>1, OthersRecordNothing
<1> QED
  BY <1>1, <1>2, <1>4, <1>5, <1>6, BeginRecords DEF ConsoleNext, ThreadOf

(* The manifests of the console's runs behave as RunLifecycle says: a run is *)
(* recorded before its child is started, no writer moves a status back or    *)
(* replaces a terminal one, and what eviction removed is not written again.  *)
THEOREM ConsoleImplementsRunLifecycle == ConsoleSpec => ImplementsRunLifecycle
<1>1. Inv /\ TellInv /\ [ConsoleNext]_vars => TellInv'
  <2> SUFFICES ASSUME Inv, TellInv, [ConsoleNext]_vars PROVE TellInv'
    OBVIOUS
  <2> QED
    BY StartTells, ChildTells, WaiterTells, StopTells, RequestTells DEF ConsoleNext
<1>2. Inv /\ TellInv /\ RecordInv /\ [ConsoleNext]_vars
        => RecordInv' /\ [Lifecycle!LifecycleNext]_Life
  BY ConsoleMoves DEF LifeMoves
<1> QED
  BY <1>1, <1>2, InvHolds, TellsInitially, RecordsInitially, PTL
     DEF ConsoleSpec, ImplementsRunLifecycle, Lifecycle!LifecycleSpec
=============================================================================
