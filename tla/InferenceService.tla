--------------------------- MODULE InferenceService ---------------------------
(***************************************************************************)
(* The IPC between IpcInferenceBackend clients (the ROS node, the CLI) and *)
(* edge_vlm_server, the process that owns the engines.  The server serves  *)
(* one connection at a time, a watchdog ends the process when an inference *)
(* overruns its deadline, and launch starts it again.                      *)
(*                                                                         *)
(* A connection is a stream in each direction.  Towards the server it      *)
(* holds nothing, the beginning of a request, or all of it; towards the    *)
(* client it holds a complete reply or none: a truncated one has the       *)
(* client close the connection exactly as an end of file does.  Both       *)
(* programs are built from one ipc_protocol.hpp, so what a client sends is *)
(* well-formed; what goes wrong is who has closed which end, and when.     *)
(*                                                                         *)
(* Time is counted in ticks.  A timer at its limit must go off, or be      *)
(* overtaken by what it waits for, before the next tick.                   *)
(***************************************************************************)
EXTENDS Naturals, Sequences, FiniteSets

CONSTANTS
  Clients,
  Conns,            \* bound: connections open on either side at a time
  NoConn,
  ConnectTimeout,   \* connect_timeout_seconds
  RequestTimeout,   \* request_timeout_seconds: SO_RCVTIMEO and SO_SNDTIMEO
  Deadline,         \* inference_deadline_seconds
  LoadTime,         \* how long backend.initialize() takes
  AcceptQueue,      \* connections the kernel queues behind listen(fd, 1)
  FitsBuffer,       \* a request fits the socket buffers
  Respawns,         \* launch restarts the server: respawn=True
  ClientsMayExit,   \* a client's process may end at any point
  Urgent,           \* whoever can act does so before time passes
  Faults,           \* bound: wedged inferences, failed loads and signals
  MaxId             \* bound: request ids, which wrap around

ASSUME ServiceAssumption ==
  /\ NoConn \notin Conns
  /\ ConnectTimeout \in Nat \ {0}
  /\ RequestTimeout \in Nat \ {0}
  /\ Deadline \in Nat \ {0}
  /\ LoadTime \in Nat
  /\ AcceptQueue \in Nat \ {0}
  /\ FitsBuffer \in BOOLEAN
  /\ Respawns \in BOOLEAN
  /\ ClientsMayExit \in BOOLEAN
  /\ Urgent \in BOOLEAN
  /\ Faults \in Nat
  /\ MaxId \in Nat \ {0}

VARIABLES
  \* The server process.
  server,     \* where main is
  serving,    \* client_fd
  reqId,      \* header.request_id
  wedged,     \* the current inference overruns its deadline
  serverClock,
  stopping,   \* g_stop: the handler has run and closed the descriptors
  exit,       \* why the last server process ended
  backlog,    \* connections waiting for accept4
  faults,     \* faults left
  \* Per client.
  phase,      \* where IpcInferenceBackend::infer is
  conn,       \* socket_fd_
  lastId,     \* the id of the last request sent
  clock,
  outcome,    \* how the last call ended
  failures,   \* its failed calls, counted up to one more than the faults
  \* Per connection.
  conns

serverVars == <<server, serving, reqId, wedged, serverClock, stopping, exit, backlog, faults>>
clientVars == <<phase, conn, lastId, clock, outcome, failures>>
vars == <<serverVars, clientVars, conns>>

Free == [toServer |-> "empty", id |-> 0, reply |-> 0,
         clientOpen |-> FALSE, serverOpen |-> FALSE]

ServiceInit ==
  /\ server = "down" /\ serving = NoConn /\ reqId = 0 /\ wedged = FALSE
  /\ serverClock = 0 /\ stopping = FALSE /\ exit = "none"
  /\ backlog = << >> /\ faults = Faults
  /\ phase = [c \in Clients |-> "idle"]
  /\ conn = [c \in Clients |-> NoConn]
  /\ lastId = [c \in Clients |-> 0]
  /\ clock = [c \in Clients |-> 0]
  /\ outcome = [c \in Clients |-> "none"]
  /\ failures = [c \in Clients |-> 0]
  /\ conns = [k \in Conns |-> Free]

-----------------------------------------------------------------------------
(* Closing one end.  What was sent can still be read by the other.           *)

ClientEndClosed(k) ==
  [conns EXCEPT ![k] = IF @.serverOpen
                       THEN [@ EXCEPT !.clientOpen = FALSE, !.reply = 0] ELSE Free]

ServerEndsClosed ==
  [k \in Conns |-> IF conns[k].clientOpen
                   THEN [conns[k] EXCEPT !.serverOpen = FALSE, !.toServer = "empty"]
                   ELSE Free]

ServerEndClosed(k) ==
  [conns EXCEPT ![k] = IF @.clientOpen
                       THEN [@ EXCEPT !.serverOpen = FALSE, !.toServer = "empty"]
                       ELSE Free]

-----------------------------------------------------------------------------
(* The server.  The socket is bound and listening before the engines load.   *)

ProcessEnds(why) ==
  /\ server' = "down"
  /\ exit' = why
  /\ serving' = NoConn /\ backlog' = << >>
  /\ reqId' = 0 /\ wedged' = FALSE /\ serverClock' = 0 /\ stopping' = FALSE
  /\ conns' = ServerEndsClosed
  /\ UNCHANGED clientVars

Start ==
  /\ server = "down"
  /\ Respawns \/ exit = "none"
  /\ server' = "loading"
  /\ serverClock' = 0
  /\ UNCHANGED <<serving, reqId, wedged, stopping, exit, backlog, faults, clientVars, conns>>

Loaded ==
  /\ server = "loading" /\ serverClock = LoadTime
  /\ server' = "accepting"
  /\ serverClock' = 0
  /\ UNCHANGED <<serving, reqId, wedged, stopping, exit, backlog, faults, clientVars, conns>>

LoadFails ==
  /\ server = "loading" /\ faults > 0
  /\ faults' = faults - 1
  /\ ProcessEnds("failed")

Accept ==
  /\ server = "accepting" /\ backlog # << >>
  /\ serving' = Head(backlog)
  /\ backlog' = Tail(backlog)
  /\ server' = "awaiting"
  /\ UNCHANGED <<reqId, wedged, serverClock, stopping, exit, faults, clientVars, conns>>

(* Once the handler has run, accept4 and the read of a header fail and both  *)
(* loops end; anything later in a request throws.                            *)
StopsBetweenRequests ==
  /\ server \in {"accepting", "awaiting"} /\ stopping
  /\ UNCHANGED faults
  /\ ProcessEnds("stopped")

StopsInRequest ==
  /\ server \in {"receiving", "responding"} /\ stopping
  /\ UNCHANGED faults
  /\ ProcessEnds("failed")

ReadHeader ==
  /\ server = "awaiting" /\ ~stopping
  /\ conns[serving].toServer # "empty"
  /\ server' = "receiving"
  /\ reqId' = conns[serving].id
  /\ UNCHANGED <<serving, wedged, serverClock, stopping, exit, backlog, faults, clientVars,
                 conns>>

(* A client that closed between requests just makes room for the next.       *)
ClientGone ==
  /\ server = "awaiting" /\ ~stopping
  /\ conns[serving].toServer = "empty" /\ ~conns[serving].clientOpen
  /\ conns' = ServerEndClosed(serving)
  /\ serving' = NoConn
  /\ server' = "accepting"
  /\ UNCHANGED <<reqId, wedged, serverClock, stopping, exit, backlog, faults, clientVars>>

(* The watchdog's thread starts when the request has been read.              *)
ReadPayload ==
  /\ server = "receiving" /\ ~stopping
  /\ conns[serving].toServer = "full"
  /\ conns' = [conns EXCEPT ![serving].toServer = "empty"]
  /\ server' = "inferring"
  /\ serverClock' = 0
  /\ \/ wedged' = FALSE /\ UNCHANGED faults
     \/ faults > 0 /\ faults' = faults - 1 /\ wedged' = TRUE
  /\ UNCHANGED <<serving, reqId, stopping, exit, backlog, clientVars>>

PayloadTruncated ==
  /\ server = "receiving" /\ ~stopping
  /\ conns[serving].toServer = "part" /\ ~conns[serving].clientOpen
  /\ UNCHANGED faults
  /\ ProcessEnds("failed")

(* The watchdog is cancelled, and its thread joined when the request ends.   *)
InferenceEnds ==
  /\ server = "inferring" /\ ~wedged
  /\ server' = "responding"
  /\ UNCHANGED <<serving, reqId, wedged, serverClock, stopping, exit, backlog, faults,
                 clientVars, conns>>

\* Mutant: the deadline is counted from the client's timeout.
WatchdogDueLate == server = "inferring" /\ serverClock = Deadline + RequestTimeout

WatchdogDue == server = "inferring" /\ serverClock = Deadline

\* Mutant: a signal disarms the watchdog.
WatchdogUnlessStopping ==
  /\ WatchdogDue /\ ~stopping
  /\ UNCHANGED faults
  /\ ProcessEnds("watchdog")

Watchdog ==
  /\ WatchdogDue
  /\ UNCHANGED faults
  /\ ProcessEnds("watchdog")

Respond ==
  /\ server = "responding" /\ ~stopping
  /\ conns[serving].clientOpen
  /\ conns' = [conns EXCEPT ![serving].reply = reqId]
  /\ server' = "awaiting"
  /\ UNCHANGED <<serving, reqId, wedged, serverClock, stopping, exit, backlog, faults,
                 clientVars>>

RespondFails ==
  /\ server = "responding" /\ ~stopping
  /\ ~conns[serving].clientOpen
  /\ UNCHANGED faults
  /\ ProcessEnds("failed")

(* SIGINT or SIGTERM: stop_handler closes both descriptors.                  *)
Signal ==
  /\ server # "down" /\ ~stopping /\ faults > 0
  /\ faults' = faults - 1
  /\ stopping' = TRUE
  /\ serving' = NoConn /\ backlog' = << >>
  /\ conns' = ServerEndsClosed
  /\ UNCHANGED <<server, reqId, wedged, serverClock, exit, clientVars>>

-----------------------------------------------------------------------------
(* A client's call of infer.                                                 *)

Listening == server # "down" /\ ~stopping

HasRoom == Len(backlog) < AcceptQueue

Ended(c, how) ==
  /\ phase' = [phase EXCEPT ![c] = "idle"]
  /\ outcome' = [outcome EXCEPT ![c] = how]
  /\ clock' = [clock EXCEPT ![c] = 0]
  /\ failures' = [failures EXCEPT ![c] = IF how = "failed" /\ @ <= Faults THEN @ + 1 ELSE @]

(* close_connection, then the exception.                                     *)
ClosesAndThrows(c) ==
  /\ Ended(c, "failed")
  /\ conn' = [conn EXCEPT ![c] = NoConn]
  /\ conns' = ClientEndClosed(conn[c])
  /\ UNCHANGED <<serverVars, lastId>>

Call(c) ==
  /\ phase[c] = "idle"
  /\ phase' = [phase EXCEPT ![c] = IF conn[c] = NoConn THEN "connecting" ELSE "ready"]
  /\ outcome' = [outcome EXCEPT ![c] = "pending"]
  /\ UNCHANGED <<serverVars, conn, lastId, clock, failures, conns>>

Connect(c) ==
  /\ phase[c] = "connecting" /\ Listening /\ HasRoom
  /\ \E k \in Conns :
       /\ conns[k] = Free
       /\ conns' = [conns EXCEPT ![k] = [Free EXCEPT !.clientOpen = TRUE, !.serverOpen = TRUE]]
       /\ conn' = [conn EXCEPT ![c] = k]
       /\ backlog' = Append(backlog, k)
  /\ phase' = [phase EXCEPT ![c] = "ready"]
  /\ clock' = [clock EXCEPT ![c] = 0]
  /\ UNCHANGED <<server, serving, reqId, wedged, serverClock, stopping, exit, faults, lastId,
                 outcome, failures>>

(* The deadline is looked at between attempts, and a refused attempt returns *)
(* at once.  One that finds the accept queue full blocks: the descriptor has *)
(* no timeout yet.                                                           *)
ConnectTimesOut(c) ==
  /\ phase[c] = "connecting" /\ (~Listening \/ HasRoom)
  /\ clock[c] = ConnectTimeout
  /\ Ended(c, "failed")
  /\ UNCHANGED <<serverVars, conn, lastId, conns>>

(* A request that breaks a limit is refused before anything is written, and  *)
(* the connection stays.                                                     *)
Reject(c) ==
  /\ phase[c] = "ready"
  /\ Ended(c, "rejected")
  /\ UNCHANGED <<serverVars, conn, lastId, conns>>

NextId(id) == (id % MaxId) + 1

SendHeader(c) ==
  /\ phase[c] = "ready" /\ conns[conn[c]].serverOpen
  /\ lastId' = [lastId EXCEPT ![c] = NextId(@)]
  /\ conns' = [conns EXCEPT ![conn[c]].toServer = "part", ![conn[c]].id = NextId(lastId[c])]
  /\ phase' = [phase EXCEPT ![c] = "sending"]
  /\ UNCHANGED <<serverVars, conn, clock, outcome, failures>>

(* Without room in the buffers the rest goes out as the server reads it.     *)
SendRest(c) ==
  /\ phase[c] = "sending" /\ conns[conn[c]].serverOpen
  /\ FitsBuffer \/ (server = "receiving" /\ serving = conn[c])
  /\ conns' = [conns EXCEPT ![conn[c]].toServer = "full"]
  /\ phase' = [phase EXCEPT ![c] = "waiting"]
  /\ clock' = [clock EXCEPT ![c] = 0]
  /\ UNCHANGED <<serverVars, conn, lastId, outcome, failures>>

\* Mutant: a failed write leaves the descriptor in place.
SendFailsStays(c) ==
  /\ phase[c] \in {"ready", "sending"} /\ ~conns[conn[c]].serverOpen
  /\ Ended(c, "failed")
  /\ UNCHANGED <<serverVars, conn, lastId, conns>>

SendFails(c) ==
  /\ phase[c] \in {"ready", "sending"} /\ ~conns[conn[c]].serverOpen
  /\ ClosesAndThrows(c)

SendTimesOut(c) ==
  /\ phase[c] = "sending" /\ conns[conn[c]].serverOpen
  /\ clock[c] = RequestTimeout
  /\ ClosesAndThrows(c)

(* The id of a reply is compared with that of the request.                   *)
Receive(c) ==
  /\ phase[c] = "waiting" /\ conns[conn[c]].reply # 0
  /\ IF conns[conn[c]].reply = lastId[c]
     THEN /\ Ended(c, "answered")
          /\ conns' = [conns EXCEPT ![conn[c]].reply = 0]
          /\ UNCHANGED <<serverVars, conn, lastId>>
     ELSE ClosesAndThrows(c)

\* Mutant: an end of file is read again.
ReceiveEofRetries(c) ==
  /\ phase[c] = "waiting" /\ conns[conn[c]].reply = 0
  /\ ~conns[conn[c]].serverOpen
  /\ UNCHANGED vars

\* Mutant: the descriptor of a connection at its end stays for the next call.
ReceiveEofStays(c) ==
  /\ phase[c] = "waiting" /\ conns[conn[c]].reply = 0
  /\ ~conns[conn[c]].serverOpen
  /\ Ended(c, "failed")
  /\ UNCHANGED <<serverVars, conn, lastId, conns>>

ReceiveEof(c) ==
  /\ phase[c] = "waiting" /\ conns[conn[c]].reply = 0
  /\ ~conns[conn[c]].serverOpen
  /\ ClosesAndThrows(c)

\* Mutant: the connection survives a timeout.
ReceiveTimesOutStays(c) ==
  /\ phase[c] = "waiting" /\ conns[conn[c]].reply = 0
  /\ conns[conn[c]].serverOpen
  /\ clock[c] = RequestTimeout
  /\ Ended(c, "failed")
  /\ UNCHANGED <<serverVars, conn, lastId, conns>>

ReceiveTimesOut(c) ==
  /\ phase[c] = "waiting" /\ conns[conn[c]].reply = 0
  /\ conns[conn[c]].serverOpen
  /\ clock[c] = RequestTimeout
  /\ ClosesAndThrows(c)

(* The process ends, wherever its call is; its descriptors close with it,    *)
(* and the next one numbers its requests from one again.                     *)
Exit(c) ==
  /\ ClientsMayExit
  /\ phase[c] # "idle" \/ conn[c] # NoConn
  /\ phase' = [phase EXCEPT ![c] = "idle"]
  /\ conn' = [conn EXCEPT ![c] = NoConn]
  /\ lastId' = [lastId EXCEPT ![c] = 0]
  /\ clock' = [clock EXCEPT ![c] = 0]
  /\ outcome' = [outcome EXCEPT ![c] = "none"]
  /\ conns' = IF conn[c] = NoConn THEN conns ELSE ClientEndClosed(conn[c])
  /\ UNCHANGED <<serverVars, failures>>

-----------------------------------------------------------------------------
(* Time.  An inference that is not wedged ends before its deadline.          *)

ServerCanAct ==
  \/ server = "down" /\ (Respawns \/ exit = "none")
  \/ server # "down" /\ stopping /\ server \notin {"loading", "inferring"}
  \/ server = "accepting" /\ backlog # << >>
  \/ /\ server \in {"awaiting", "receiving"} /\ serving # NoConn
     /\ \/ ~conns[serving].clientOpen
        \/ conns[serving].toServer = "full"
        \/ server = "awaiting" /\ conns[serving].toServer = "part"
  \/ server = "responding"

ClientCanAct(c) ==
  \/ phase[c] = "connecting" /\ Listening /\ HasRoom
  \/ phase[c] = "ready"
  \/ phase[c] = "sending" /\ (~conns[conn[c]].serverOpen \/ FitsBuffer)
  \/ phase[c] = "sending" /\ server = "receiving" /\ serving = conn[c]
  \/ phase[c] = "waiting" /\ (~conns[conn[c]].serverOpen \/ conns[conn[c]].reply # 0)

TimerDue ==
  \/ server = "loading" /\ serverClock = LoadTime
  \/ WatchdogDue
  \/ server = "inferring" /\ ~wedged /\ serverClock = Deadline - 1
  \/ \E c \in Clients :
       \/ phase[c] \in {"sending", "waiting"} /\ clock[c] = RequestTimeout
       \/ phase[c] = "connecting" /\ ~Listening /\ clock[c] = ConnectTimeout

Limit(c) == IF phase[c] = "connecting" THEN ConnectTimeout ELSE RequestTimeout

Tick ==
  /\ ~TimerDue
  /\ Urgent => ~ServerCanAct /\ \A c \in Clients : ~ClientCanAct(c)
  /\ serverClock' = IF server \in {"loading", "inferring"} THEN serverClock + 1 ELSE serverClock
  /\ clock' = [c \in Clients |->
                 IF phase[c] \in {"connecting", "sending", "waiting"} /\ clock[c] < Limit(c)
                 THEN clock[c] + 1 ELSE clock[c]]
  /\ UNCHANGED <<server, serving, reqId, wedged, stopping, exit, backlog, faults, phase, conn,
                 lastId, outcome, failures, conns>>

-----------------------------------------------------------------------------
ServerStep ==
  \/ Start \/ Loaded \/ Accept \/ ReadHeader \/ ClientGone \/ ReadPayload
  \/ PayloadTruncated \/ InferenceEnds \/ Watchdog \/ Respond \/ RespondFails
  \/ StopsBetweenRequests \/ StopsInRequest

CallStep(c) ==
  \/ Connect(c) \/ ConnectTimesOut(c) \/ Reject(c) \/ SendHeader(c) \/ SendRest(c)
  \/ SendFails(c) \/ SendTimesOut(c) \/ Receive(c) \/ ReceiveEof(c) \/ ReceiveTimesOut(c)

Next ==
  \/ ServerStep \/ LoadFails \/ Signal \/ Tick
  \/ \E c \in Clients : Call(c) \/ CallStep(c) \/ Exit(c)

Spec == ServiceInit /\ [][Next]_vars

(* Processes that can run do, time passes, and every client always has       *)
(* another frame to ask about, not all of which its own checks refuse.       *)
FairSpec ==
  /\ Spec
  /\ WF_vars(ServerStep)
  /\ WF_vars(Tick)
  /\ \A c \in Clients :
       /\ WF_vars(CallStep(c))
       /\ WF_vars(Call(c))
       /\ SF_vars(SendHeader(c) \/ SendFails(c))

-----------------------------------------------------------------------------
(* A connection a client keeps for its next call carries nothing of the      *)
(* calls before it, in either direction, and the server is not working on    *)
(* it: a late answer can never be taken for the next one's, nor the rest of  *)
(* an abandoned request for a header.  So the answer that a client finds is  *)
(* always the one to the request it waits for.                               *)
KeptConnectionIsClean ==
  \A c \in Clients :
    /\ phase[c] \in {"idle", "ready"} /\ conn[c] # NoConn =>
         /\ conns[conn[c]].toServer = "empty"
         /\ conns[conn[c]].reply = 0
         /\ serving = conn[c] => server = "awaiting"
    /\ phase[c] = "waiting" => conns[conn[c]].reply \in {0, lastId[c]}

(* A client whose request is being worked on is told of a wedged inference   *)
(* by the end of the process, never by its own timeout.                      *)
WedgeSeenAsEof ==
  [][\A c \in Clients :
       ReceiveTimesOut(c) => ~(server = "inferring" /\ serving = conn[c])]_vars

(* Each fault costs a client at most one failed call: it finds out, closes   *)
(* its connection, and the next call waits for the process that replaces     *)
(* the one that ended.                                                       *)
OneErrorPerFault == \A c \in Clients : failures[c] + faults <= Faults

(* Whatever goes wrong costs the call it meets, and that one ends as soon as *)
(* it can (infer, inference_watchdog.hpp).                                   *)
FaultsCostOneCall == []OneErrorPerFault /\ WedgeSeenAsEof

(* Clients keep getting answers whatever the bounded number of faults did.   *)
AnsweredAgain == \A c \in Clients : []<>(outcome[c] = "answered")

(* Every call returns.                                                       *)
CallsReturn == \A c \in Clients : (phase[c] # "idle") ~> (phase[c] = "idle")

(* A signal ends the process, even one that is wedged.                       *)
StopEnds == stopping ~> (server = "down")

(* All of it: whatever faults there were, who waits is served or told, and   *)
(* who stops the server sees it end.                                         *)
ServiceRecovers == AnsweredAgain /\ CallsReturn /\ StopEnds

(* No client can bring the server down.                                      *)
ServiceOutlivesClients == exit # "failed"
=============================================================================
