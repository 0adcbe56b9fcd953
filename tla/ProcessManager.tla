---------------------------- MODULE ProcessManager ----------------------------
(***************************************************************************)
(* ProcessManager: the child processes the web console owns.  The threads  *)
(* of HTTP requests start and stop them, a waiter thread per child reaps   *)
(* it, and a clean-up thread stops all of them before the console ends.    *)
(* Whoever marks a child stopped goes on to report it, once.               *)
(*                                                                         *)
(* Each action is one critical section of _lock, one system call, or one   *)
(* wait.  A child is the leader of its process group; what its other       *)
(* members do, and the collection of logs, are left out.                   *)
(***************************************************************************)
EXTENDS Integers, FiniteSets

CONSTANTS
  Runs,       \* runs that have a child process, by id
  Stoppers,   \* threads of stop requests
  Cleaner,    \* the thread of shutdown_gracefully
  NoRun,
  SlowToDie   \* a killed child may outlive _KILL_WAIT_SECONDS

ASSUME ManagerAssumption ==
  /\ Cleaner \notin Stoppers
  /\ NoRun \notin Runs
  /\ SlowToDie \in BOOLEAN

VARIABLES
  reserved,    \* _reserved_ros_run_id
  registered,  \* the runs in _processes
  stopped,     \* those with mp.stopped,
  explicit,    \*   mp._explicitly_stopped
  fired,       \*   and mp._callback_fired
  exitCode,    \* mp.exit_code
  report,      \* what _fire_completion has captured for its callback
  start,       \* places of the threads: of the request that starts a run,
  waiter,      \*   of its _wait_proc,
  stopper,     \*   of a stop request or the clean-up,
  target,      \*   and the run it is stopping
  sweep,       \* runs that cleanup has yet to look at
  child,       \* each child: none, alive, exited, reaped
  code,        \* how it ended
  signal       \* the strongest signal it was sent and has not ended of yet

slotVars == <<reserved, registered>>
markVars == <<stopped, exitCode>>
fireVars == <<fired, report>>
stopVars == <<stopper, target, sweep>>
childVars == <<child, code, signal>>
managerVars ==
  <<slotVars, markVars, explicit, fireVars, start, waiter, stopVars, childVars>>

Threads == Stoppers \cup {Cleaner}

Codes == {"zero", "nonzero", "signalled"}

NoReport == [code |-> "none", stopped |-> FALSE]

ManagerInit ==
  /\ reserved = NoRun
  /\ registered = {} /\ stopped = {} /\ explicit = {} /\ fired = {}
  /\ exitCode = [r \in Runs |-> "none"]
  /\ report = [r \in Runs |-> NoReport]
  /\ start = [r \in Runs |-> "idle"]
  /\ waiter = [r \in Runs |-> "none"]
  /\ stopper = [s \in Threads |-> "idle"]
  /\ target = [s \in Threads |-> NoRun]
  /\ sweep = {}
  /\ child = [r \in Runs |-> "none"]
  /\ code = [r \in Runs |-> "none"]
  /\ signal = [r \in Runs |-> "none"]

-----------------------------------------------------------------------------
(* start_ros_experiment.                                                     *)

Goes(r, from, to) == start[r] = from /\ start' = [start EXCEPT ![r] = to]

Active == registered \ stopped

\* Mutant: only registered children count.
SlotTakenByActive == Active # {}

SlotTaken == Active # {} \/ reserved # NoRun

Reserve(r) ==
  /\ ~SlotTaken
  /\ Goes(r, "saved", "reserved")
  /\ reserved' = r
  /\ UNCHANGED <<registered, markVars, explicit, fireVars, waiter, stopVars, childVars>>

Conflict(r) ==
  /\ SlotTaken
  /\ Goes(r, "saved", "rejected")
  /\ UNCHANGED <<slotVars, markVars, explicit, fireVars, waiter, stopVars, childVars>>

Popen(r) ==
  /\ Goes(r, "reserved", "spawned")
  /\ child' = [child EXCEPT ![r] = "alive"]
  /\ UNCHANGED <<slotVars, markVars, explicit, fireVars, waiter, stopVars, code, signal>>

PopenFails(r) ==
  /\ Goes(r, "reserved", "rejected")
  /\ reserved' = NoRun
  /\ UNCHANGED <<registered, markVars, explicit, fireVars, waiter, stopVars, childVars>>

(* The threads that collect the output and wait start with the registration. *)
Register(r) ==
  /\ Goes(r, "spawned", "launched")
  /\ registered' = registered \cup {r}
  /\ reserved' = NoRun
  /\ waiter' = [waiter EXCEPT ![r] = "waiting"]
  /\ UNCHANGED <<markVars, explicit, fireVars, stopVars, childVars>>

-----------------------------------------------------------------------------
(* What either reporting thread does: poll, mark, report.                    *)

(* poll or wait by a thread that sees the child has exited.                  *)
Reap(r) ==
  /\ child[r] \in {"exited", "reaped"}
  /\ child' = [child EXCEPT ![r] = "reaped"]
  /\ UNCHANGED <<code, signal>>

Mark(r) ==
  /\ stopped' = stopped \cup {r}
  /\ exitCode' = [exitCode EXCEPT ![r] = IF child[r] = "reaped" THEN code[r] ELSE "none"]

(* The critical section of _fire_completion; says whether the callback is    *)
(* to be called.                                                             *)
\* Mutant: nobody looks whether the callback was fired.
FireTwice(r, calls) ==
  /\ calls
  /\ fired' = fired \cup {r}
  /\ report' = [report EXCEPT ![r] = [code |-> exitCode[r], stopped |-> r \in explicit]]

Fire(r, calls) ==
  /\ calls <=> r \notin fired
  /\ fired' = fired \cup {r}
  /\ IF calls
     THEN report' = [report EXCEPT ![r] = [code |-> exitCode[r], stopped |-> r \in explicit]]
     ELSE UNCHANGED report

-----------------------------------------------------------------------------
(* _wait_proc.                                                               *)

WaiterGoes(r, from, to) == waiter[r] = from /\ waiter' = [waiter EXCEPT ![r] = to]

WaiterReaps(r) ==
  /\ WaiterGoes(r, "waiting", "mark")
  /\ Reap(r)
  /\ UNCHANGED <<slotVars, markVars, explicit, fireVars, start, stopVars>>

WaiterMarks(r) ==
  /\ WaiterGoes(r, "mark", "fire")
  /\ Mark(r)
  /\ UNCHANGED <<slotVars, explicit, fireVars, start, stopVars, childVars>>

WaiterFires(r) ==
  /\ \E calls \in BOOLEAN :
       /\ WaiterGoes(r, "fire", IF calls THEN "callback" ELSE "done")
       /\ Fire(r, calls)
  /\ UNCHANGED <<slotVars, markVars, explicit, start, stopVars, childVars>>

WaiterReturns(r) ==
  /\ WaiterGoes(r, "callback", "done")
  /\ report' = [report EXCEPT ![r] = NoReport]
  /\ UNCHANGED <<slotVars, markVars, explicit, fired, start, stopVars, childVars>>

-----------------------------------------------------------------------------
(* stop_experiment and cleanup, and the _stop_process both call.             *)

StopGoes(s, from, to) == stopper[s] = from /\ stopper' = [stopper EXCEPT ![s] = to]

(* The thread of a request ends, the clean-up goes on.                       *)
StopEnds(s, from) ==
  /\ StopGoes(s, from, IF s = Cleaner THEN "sweep" ELSE "done")
  /\ target' = [target EXCEPT ![s] = NoRun]

(* An unknown run is a KeyError, and changes nothing.                        *)
StopExperiment(s, r) ==
  /\ r \in registered
  /\ IF r \in stopped
     THEN StopEnds(s, "idle")
     ELSE StopGoes(s, "idle", "flag") /\ target' = [target EXCEPT ![s] = r]
  /\ UNCHANGED <<slotVars, markVars, explicit, fireVars, start, waiter, sweep, childVars>>

CleanupSnapshot ==
  /\ StopGoes(Cleaner, "idle", "sweep")
  /\ sweep' = registered
  /\ UNCHANGED <<slotVars, markVars, explicit, fireVars, start, waiter, target, childVars>>

CleanupNext(r) ==
  /\ r \in sweep
  /\ sweep' = sweep \ {r}
  /\ IF r \in stopped
     THEN StopEnds(Cleaner, "sweep")
     ELSE StopGoes(Cleaner, "sweep", "flag") /\ target' = [target EXCEPT ![Cleaner] = r]
  /\ UNCHANGED <<slotVars, markVars, explicit, fireVars, start, waiter, childVars>>

\* Mutant: the flag is set on the way out, after the signals.
FlagNothing(s) ==
  /\ StopGoes(s, "flag", "terminate")
  /\ UNCHANGED <<slotVars, explicit, markVars, fireVars, start, waiter, target, sweep, childVars>>

Flag(s) ==
  /\ StopGoes(s, "flag", "terminate")
  /\ explicit' = explicit \cup {target[s]}
  /\ UNCHANGED <<slotVars, markVars, fireVars, start, waiter, target, sweep, childVars>>

(* killpg: nothing happens to a child that has exited.                       *)
Send(r, sig) ==
  /\ signal' = [signal EXCEPT ![r] = IF child[r] = "alive" THEN sig ELSE @]
  /\ UNCHANGED <<child, code>>

Terminate(s) ==
  /\ StopGoes(s, "terminate", "await")
  /\ Send(target[s], IF signal[target[s]] = "kill" THEN "kill" ELSE "term")
  /\ UNCHANGED <<slotVars, markVars, explicit, fireVars, start, waiter, target, sweep>>

(* A poll before the deadline, or the one after it, sees that it exited.     *)
AwaitEnds(s) ==
  /\ StopGoes(s, "await", "mark")
  /\ Reap(target[s])
  /\ UNCHANGED <<slotVars, markVars, explicit, fireVars, start, waiter, target, sweep>>

\* Mutant: giving up after SIGTERM.
GiveUpAtDeadline(s) ==
  /\ StopGoes(s, "await", "mark")
  /\ child[target[s]] = "alive"
  /\ UNCHANGED <<slotVars, markVars, explicit, fireVars, start, waiter, target, sweep, childVars>>

\* Mutant: polling without a deadline.
PollOn(s) ==
  /\ StopGoes(s, "await", "await")
  /\ child[target[s]] = "alive"
  /\ UNCHANGED <<slotVars, markVars, explicit, fireVars, start, waiter, target, sweep, childVars>>

(* The deadline has passed: killpg again.  A poll also says that the child   *)
(* runs while the waiter, inside waitpid, holds Popen's lock.                *)
KillAtDeadline(s) ==
  /\ StopGoes(s, "await", "reap")
  /\ child[target[s]] # "reaped"
  /\ Send(target[s], "kill")
  /\ UNCHANGED <<slotVars, markVars, explicit, fireVars, start, waiter, target, sweep>>

KillEnds(s) ==
  /\ StopGoes(s, "reap", "mark")
  /\ \/ Reap(target[s])
     \/ SlowToDie /\ child[target[s]] # "reaped" /\ UNCHANGED childVars
  /\ UNCHANGED <<slotVars, markVars, explicit, fireVars, start, waiter, target, sweep>>

(* exit_code is taken from one more poll.                                    *)
StopMarks(s) ==
  /\ StopGoes(s, "mark", "fire")
  /\ \/ Reap(target[s])
     \/ child[target[s]] # "reaped" /\ UNCHANGED childVars
  /\ stopped' = stopped \cup {target[s]}
  /\ exitCode' = [exitCode EXCEPT ![target[s]] =
                    IF child'[target[s]] = "reaped" THEN code[target[s]] ELSE "none"]
  /\ UNCHANGED <<slotVars, explicit, fireVars, start, waiter, target, sweep>>

\* Mutant: the callback is left to the waiter.
StopFiresSilently(s) ==
  /\ StopEnds(s, "fire")
  /\ fired' = fired \cup {target[s]}
  /\ UNCHANGED <<slotVars, markVars, explicit, report, start, waiter, sweep, childVars>>

StopFires(s) ==
  /\ \E calls \in BOOLEAN :
       /\ IF calls THEN StopGoes(s, "fire", "callback") /\ UNCHANGED target
                   ELSE StopEnds(s, "fire")
       /\ Fire(target[s], calls)
  /\ UNCHANGED <<slotVars, markVars, explicit, start, waiter, sweep, childVars>>

StopReturns(s) ==
  /\ StopEnds(s, "callback")
  /\ report' = [report EXCEPT ![target[s]] = NoReport]
  /\ UNCHANGED <<slotVars, markVars, explicit, fired, start, waiter, sweep, childVars>>

-----------------------------------------------------------------------------
(* The child: it may end by itself, or of a signal.                          *)
ChildExits(r) ==
  /\ child[r] = "alive"
  /\ child' = [child EXCEPT ![r] = "exited"]
  /\ \E c \in Codes :
       /\ c = "signalled" => signal[r] # "none"
       /\ signal[r] = "kill" => c = "signalled"
       /\ code' = [code EXCEPT ![r] = c]
  /\ signal' = [signal EXCEPT ![r] = "none"]
  /\ UNCHANGED <<slotVars, markVars, explicit, fireVars, start, waiter, stopVars>>

ManagerTypeOK ==
  /\ reserved \in Runs \cup {NoRun}
  /\ registered \subseteq Runs
  /\ stopped \subseteq registered /\ explicit \subseteq registered /\ fired \subseteq stopped
  /\ exitCode \in [Runs -> Codes \cup {"none"}]
  /\ report \in [Runs -> [code : Codes \cup {"none"}, stopped : BOOLEAN]]
  /\ start \in [Runs -> {"idle", "saved", "reserved", "spawned", "launched", "rejected",
                         "done"}]
  /\ waiter \in [Runs -> {"none", "waiting", "mark", "fire", "callback", "done"}]
  /\ stopper \in [Threads -> {"idle", "sweep", "flag", "terminate", "await", "reap", "mark",
                               "fire", "callback", "done"}]
  /\ target \in [Threads -> registered \cup {NoRun}]
  /\ sweep \subseteq registered
  /\ child \in [Runs -> {"none", "alive", "exited", "reaped"}]
  /\ code \in [Runs -> Codes \cup {"none"}]
  /\ signal \in [Runs -> {"none", "term", "kill"}]
=============================================================================
