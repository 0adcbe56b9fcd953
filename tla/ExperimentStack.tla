---------------------------- MODULE ExperimentStack ----------------------------
(***************************************************************************)
(* experiment_stack.sh: the script that starts and stops an inference      *)
(* server and a web console, and that knows them again by records of their *)
(* process number and start time.                                          *)
(*                                                                         *)
(* Its commands run one at a time and may be killed anywhere, while        *)
(* processes end, users start others and numbers are given again.  What a  *)
(* command checks before it changes anything (the environment, the model,  *)
(* binaries, the port) only keeps it from going on and is left out, as are *)
(* status and logs; restart is stop and start.                             *)
(***************************************************************************)
EXTENDS Integers

CONSTANTS
  Pids, NoPid,
  Engines,
  Paths, NoPath,  \* of sockets
  SlowToEnd,      \* a process may outlive SIGKILL by more than STOP_KILL_WAIT
  QuickReuse,     \* a number may be given again while a command holds it
  MaxBirths       \* bound: processes started

ASSUME StackAssumption ==
  /\ NoPid \notin Pids /\ NoPath \notin Paths
  /\ {SlowToEnd, QuickReuse} \subseteq BOOLEAN
  /\ MaxBirths \in Nat

VARIABLES
  procs,    \* the process that has a number
  sockets,  \* start time of the process that bound the file; 0: no file
  records,  \* SERVER_PID_FILE and CONSOLE_PID_FILE
  owner,    \* SOCKET_OWNER_FILE
  script,
  births

stackVars == <<procs, sockets, records, owner, script, births>>

Components == {"server", "console"}
NoProcess == [kind |-> "none"]
NoRecord == [pid |-> NoPid, start |-> 0]
Resting == [pc |-> "rest"]

StackInit ==
  /\ procs = [p \in Pids |-> NoProcess]
  /\ sockets = [path \in Paths |-> 0]
  /\ records = [c \in Components |-> NoRecord]
  /\ owner = NoPath
  /\ script = Resting
  /\ births = 0

Alive(p) == procs[p] # NoProcess

(* Ours is one that the script started and knows of.                         *)
Born(kind, ours) == [kind |-> kind, born |-> births + 1, sent |-> "none", ours |-> ours]

BornServer(engine, path, ours) ==
  [kind |-> "server", born |-> births + 1, sent |-> "none", ours |-> ours,
   engine |-> engine, path |-> path, bound |-> FALSE]

Holding == script.pc \in {"record", "term", "wait", "killed"}

Unused(p) == ~Alive(p) /\ (QuickReuse \/ ~(Holding /\ script.pid = p))

-----------------------------------------------------------------------------
(* Processes                                                                 *)
(* A server takes the path, whoever has it, and loads its engine only then.  *)
Bind(p) ==
  /\ procs[p].kind = "server" /\ ~procs[p].bound /\ procs[p].sent = "none"
  /\ procs' = [procs EXCEPT ![p].bound = TRUE]
  /\ sockets' = [sockets EXCEPT ![procs[p].path] = procs[p].born]
  /\ UNCHANGED <<records, owner, script, births>>

(* By itself or by a signal.  A server that was not killed removes the path, *)
(* be it its own or not.                                                     *)
ProcessEnds(p) ==
  /\ Alive(p)
  /\ procs' = [procs EXCEPT ![p] = NoProcess]
  /\ \/ UNCHANGED sockets
     \/ /\ procs[p].kind = "server" /\ procs[p].bound /\ procs[p].sent # "kill"
        /\ sockets' = [sockets EXCEPT ![procs[p].path] = 0]
  /\ UNCHANGED <<records, owner, script, births>>

UserStarts(p) ==
  /\ Unused(p) /\ births < MaxBirths
  /\ \/ procs' = [procs EXCEPT ![p] = Born("other", FALSE)]
     \/ \E engine \in Engines, path \in Paths :
          procs' = [procs EXCEPT ![p] = BornServer(engine, path, FALSE)]
  /\ births' = births + 1
  /\ UNCHANGED <<sockets, records, owner, script>>

-----------------------------------------------------------------------------
(* _socket_has_listener and _socket_listener_pid: the handler of a signal    *)
(* closes the socket at once.                                                *)
Listeners(path) ==
  {p \in Pids : Alive(p) /\ procs[p].born = sockets[path] /\ procs[p].sent = "none"}

\* Mutant: the number alone tells.
LivePidByNumber(c) ==
  LET p == records[c].pid
  IN  IF p # NoPid /\ records[c].start # 0 /\ Alive(p) THEN p ELSE NoPid

(* _live_pid                                                                 *)
LivePid(c) ==
  LET p == records[c].pid
  IN  IF p # NoPid /\ Alive(p) /\ procs[p].born = records[c].start THEN p ELSE NoPid

Step(pc) == script' = [script EXCEPT !.pc = pc]

\* Mutant: only the server is looked for.
ServerIsDown == LivePid("server") = NoPid

NothingRuns == \A c \in Components : LivePid(c) = NoPid

(* cmd_start: with a component that runs it does nothing.                    *)
Start(engine, path, external) ==
  /\ script = Resting /\ NothingRuns
  /\ script' = [op |-> "start", pc |-> "conflict", engine |-> engine, path |-> path,
                external |-> external, component |-> "server", started |-> FALSE, pid |-> NoPid]
  /\ UNCHANGED <<procs, sockets, records, owner, births>>

(* _check_socket_model_conflict: an external server of the engine asked for  *)
(* is used, any other, and one whose engine cannot be told, is a conflict.   *)
CheckConflict ==
  /\ script.pc = "conflict"
  /\ LET listeners == Listeners(script.path)
     IN  \/ /\ script.external \/ listeners = {}
            /\ Step("clean")
         \/ /\ ~script.external
            /\ \E p \in listeners : procs[p].engine = script.engine
            /\ script' = [script EXCEPT !.pc = "clean", !.external = TRUE]
         \/ /\ ~script.external /\ listeners # {}
            /\ Step("failed")
  /\ UNCHANGED <<procs, sockets, records, owner, births>>

(* _maybe_remove_stale_socket                                                *)
RemoveStaleSocket ==
  /\ script.pc = "clean"
  /\ IF sockets[script.path] # 0 /\ Listeners(script.path) = {} /\ owner = script.path
     THEN /\ sockets' = [sockets EXCEPT ![script.path] = 0]
          /\ owner' = NoPath
     ELSE UNCHANGED <<sockets, owner>>
  /\ script' = [script EXCEPT !.pc = "launch",
                              !.component = IF script.external THEN "console" ELSE "server"]
  /\ UNCHANGED <<procs, records, births>>

Launch(p) ==
  /\ script.pc = "launch"
  /\ ~Alive(p) /\ births < MaxBirths
  /\ procs' = [procs EXCEPT ![p] = IF script.component = "console" THEN Born("console", TRUE)
                                   ELSE BornServer(script.engine, script.path, TRUE)]
  /\ births' = births + 1
  /\ script' = [script EXCEPT !.pc = "record", !.pid = p]
  /\ UNCHANGED <<sockets, records, owner>>

(* _write_pid_file: without a start time if the process has ended already    *)
WriteRecord ==
  /\ script.pc = "record"
  /\ records' = [records EXCEPT ![script.component] =
                   [pid |-> script.pid,
                    start |-> IF Alive(script.pid) THEN procs[script.pid].born ELSE 0]]
  /\ Step(IF script.component = "server" THEN "own" ELSE "await")
  /\ UNCHANGED <<procs, sockets, owner, births>>

OwnSocket ==
  /\ script.pc = "own"
  /\ owner' = script.path
  /\ script' = [script EXCEPT !.pc = "await", !.started = TRUE]
  /\ UNCHANGED <<procs, sockets, records, births>>

(* _await_socket and _await_http: whoever listens, and whoever answers       *)
Ready ==
  /\ script.pc = "await"
  /\ \/ /\ script.component = "server" /\ Listeners(script.path) # {}
        /\ script' = [script EXCEPT !.pc = "launch", !.component = "console"]
     \/ /\ script.component = "console"
        /\ script' = Resting
  /\ UNCHANGED <<procs, sockets, records, owner, births>>

AwaitTimesOut ==
  /\ script.pc = "await"
  /\ Step("lookup")
  /\ UNCHANGED <<procs, sockets, records, owner, births>>

-----------------------------------------------------------------------------
(* cmd_stop: whether the server runs is looked up before the console stops.  *)
Stop ==
  /\ script = Resting
  /\ script' = [op |-> "stop", pc |-> "lookup", component |-> "console", pid |-> NoPid,
                found |-> LivePid("server") # NoPid]
  /\ UNCHANGED <<procs, sockets, records, owner, births>>

\* Mutant: a start that fails stops what it has started last.
AfterComponentLast ==
  CASE script.op = "stop" /\ script.component = "console" ->
         [script EXCEPT !.pc = "lookup", !.component = "server"]
    [] script.op = "stop" /\ script.component = "server" ->
         IF script.found THEN [script EXCEPT !.pc = "unlink"] ELSE Resting
    [] script.op = "start" -> [script EXCEPT !.pc = "failed"]

(* What follows a component in cmd_stop, and in the roll back of cmd_start   *)
AfterComponent ==
  CASE script.op = "stop" /\ script.component = "console" ->
         [script EXCEPT !.pc = "lookup", !.component = "server"]
    [] script.op = "stop" /\ script.component = "server" ->
         IF script.found THEN [script EXCEPT !.pc = "unlink"] ELSE Resting
    [] script.op = "start" /\ script.component = "console" /\ script.started ->
         [script EXCEPT !.pc = "lookup", !.component = "server"]
    [] OTHER -> [script EXCEPT !.pc = "failed"]

DropRecord == records' = [records EXCEPT ![script.component] = NoRecord]

(* _stop_component                                                           *)
LookUp ==
  /\ script.pc = "lookup"
  /\ LET p == LivePid(script.component)
     IN  IF p = NoPid
         THEN DropRecord /\ script' = AfterComponent
         ELSE /\ script' = [script EXCEPT !.pc = "term", !.pid = p]
              /\ UNCHANGED records
  /\ UNCHANGED <<procs, sockets, owner, births>>

Send(signal) ==
  procs' = IF Alive(script.pid) THEN [procs EXCEPT ![script.pid].sent = signal] ELSE procs

Terminate ==
  /\ script.pc = "term"
  /\ Send("term")
  /\ Step("wait")
  /\ UNCHANGED <<sockets, records, owner, births>>

(* STOP_TERM_WAIT has passed, and some process has the number.               *)
KillComponent ==
  /\ script.pc = "wait" /\ Alive(script.pid)
  /\ Send("kill")
  /\ Step("killed")
  /\ UNCHANGED <<sockets, records, owner, births>>

ComponentStopped ==
  /\ \/ script.pc \in {"wait", "killed"} /\ ~Alive(script.pid)
     \/ script.pc = "killed" /\ SlowToEnd
  /\ DropRecord
  /\ script' = AfterComponent
  /\ UNCHANGED <<procs, sockets, owner, births>>

RemoveSocket ==
  /\ script.pc = "unlink"
  /\ sockets' = IF owner = NoPath THEN sockets ELSE [sockets EXCEPT ![owner] = 0]
  /\ owner' = NoPath
  /\ script' = Resting
  /\ UNCHANGED <<procs, records, births>>

StartFailed ==
  /\ script.pc = "failed"
  /\ script' = Resting
  /\ UNCHANGED <<procs, sockets, records, owner, births>>

(* Killed, or ended by a failing write (set -e); a process that was not      *)
(* recorded by then is nobody's from now on.                                 *)
ScriptKilled ==
  /\ script # Resting
  /\ script' = Resting
  /\ procs' = IF script.pc = "record" /\ Alive(script.pid)
              THEN [procs EXCEPT ![script.pid].ours = FALSE] ELSE procs
  /\ UNCHANGED <<sockets, records, owner, births>>

StackNext ==
  \/ \E p \in Pids :
       Bind(p) \/ ProcessEnds(p) \/ Launch(p) \/ UserStarts(p)
  \/ \E engine \in Engines, path \in Paths, external \in BOOLEAN : Start(engine, path, external)
  \/ CheckConflict \/ RemoveStaleSocket \/ WriteRecord \/ OwnSocket
  \/ Ready \/ AwaitTimesOut
  \/ Stop \/ LookUp \/ Terminate \/ KillComponent \/ ComponentStopped
  \/ RemoveSocket \/ StartFailed \/ ScriptKilled

StackSpec == StackInit /\ [][StackNext]_stackVars

-----------------------------------------------------------------------------
(* A process that the script has started is found again for as long as it    *)
(* lives (cmd_start, _live_pid: records are overwritten and removed).        *)
OwnedAreRecorded ==
  \A p \in Pids : Alive(p) /\ procs[p].ours =>
    \/ \E c \in Components : records[c] = [pid |-> p, start |-> procs[p].born]
    \/ script.pc = "record" /\ script.pid = p

(* No other process is signalled, whatever number it was given (_live_pid,   *)
(* _stop_component).                                                         *)
SignalledAreOwned ==
  \A p \in Pids : Alive(p) /\ procs[p].sent # "none" => procs[p].ours

(* A start that fails leaves nothing it has started (cmd_start).             *)
FailedStartLeavesNone ==
  script.pc = "failed" => \A p \in Pids : Alive(p) => ~procs[p].ours

(* The script stops what it has started, all of it and nothing else.         *)
StackKnowsItsOwn == OwnedAreRecorded /\ SignalledAreOwned /\ FailedStartLeavesNone

(* A file that is removed has no listener ("Only removes sockets that are    *)
(* stale"): not so when somebody has started another server on the path of   *)
(* ours, which then is not stale when ours has stopped.                      *)
RemovedSocketsAreStale ==
  [][RemoveStaleSocket \/ RemoveSocket =>
       \A path \in Paths : sockets'[path] # sockets[path] => Listeners(path) = {}]_stackVars
=============================================================================
