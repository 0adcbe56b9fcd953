---------------------------- MODULE TemporalWorker ----------------------------
(***************************************************************************)
(* The FlashRT worker process: it serves one connection after the other,   *)
(* each for as long as its client keeps it, and ends when an inference     *)
(* overruns its deadline.  Time is not counted: a deadline may pass as     *)
(* long as what it guards has not ended.                                   *)
(*                                                                         *)
(* A connection is who still has his end, the request in it, whole or in   *)
(* part, and the answer in it.  Frames are larger than what the kernel     *)
(* buffers, so that a request gets whole only while the worker reads it.   *)
(***************************************************************************)
EXTENDS Integers, Sequences

CONSTANTS
  Conns, NoConn,
  AcceptQueue,   \* connections that wait to be accepted: listen(1) lets two
  MaxDeaths      \* bound: times the worker ends

ASSUME WorkerAssumption ==
  /\ NoConn \notin Conns
  /\ AcceptQueue \in Nat \ {0}
  /\ MaxDeaths \in Nat

VARIABLES
  worker,    \* where the process is
  stopping,  \* set by the signal handler
  conns,
  queue,     \* connections that wait to be accepted
  serving,   \* client of serve()
  result,    \* what infer() came to
  deaths

workerVars == <<worker, stopping, conns, queue, serving, result, deaths>>

None == [id |-> 0]

Free == [open |-> FALSE, held |-> FALSE, request |-> None, whole |-> FALSE, answer |-> None]

WorkerInit ==
  /\ worker = "loading"
  /\ stopping = FALSE
  /\ conns = [k \in Conns |-> Free]
  /\ queue = << >>
  /\ serving = NoConn
  /\ result = "none"
  /\ deaths = 0

Held == { k \in Conns : conns[k].held }

(* Both ends gone, nothing of a connection is left.                          *)
Closed(k, end) ==
  LET c == [conns[k] EXCEPT ![end] = FALSE]
  IN  IF c.open \/ c.held THEN c ELSE Free

(* The process is gone, and its descriptors with it.                         *)
Ends ==
  /\ worker' = "down"
  /\ stopping' = FALSE
  /\ conns' = [k \in Conns |-> IF k \in Held THEN Closed(k, "held") ELSE conns[k]]
  /\ queue' = << >>
  /\ serving' = NoConn
  /\ result' = "none"
  /\ deaths' = deaths + 1

-----------------------------------------------------------------------------
(* serve(): load the engine, then take the place of any socket that was left *)
Load ==
  /\ worker = "loading"
  /\ worker' = "accepting"
  /\ UNCHANGED <<stopping, conns, queue, serving, result, deaths>>

Accept ==
  /\ worker = "accepting" /\ ~stopping /\ queue # << >>
  /\ serving' = Head(queue)
  /\ queue' = Tail(queue)
  /\ worker' = "serving"
  /\ UNCHANGED <<stopping, conns, result, deaths>>

(* The loop has seen that it is to stop.                                     *)
Leave ==
  /\ worker = "accepting" /\ stopping
  /\ Ends

(* The inner loop is left: the connection is closed.                         *)
Drop ==
  /\ conns' = [conns EXCEPT ![serving] = Closed(serving, "held")]
  /\ serving' = NoConn
  /\ worker' = "accepting"
  /\ UNCHANGED <<stopping, queue, result, deaths>>

(* The condition of the inner loop.                                          *)
Continue ==
  /\ worker = "serving" /\ ~stopping
  /\ worker' = "reading"
  /\ UNCHANGED <<stopping, conns, queue, serving, result, deaths>>

LeaveClient == worker = "serving" /\ stopping /\ Drop

Increasing(window) == \A i \in 1..(Len(window) - 1) : window[i].stamp < window[i + 1].stamp

(* read_request, which a signal does not interrupt: one whose stamps do not  *)
(* increase ends the connection as its end does.                             *)
ReadRequest ==
  /\ worker = "reading"
  /\ conns[serving].whole /\ Increasing(conns[serving].request.window)
  /\ worker' = "inferring"
  /\ UNCHANGED <<stopping, conns, queue, serving, result, deaths>>

Refuse ==
  /\ worker = "reading"
  /\ conns[serving].whole /\ ~Increasing(conns[serving].request.window)
  /\ Drop

\* Mutant: an end between two requests is taken for nothing read yet.
ReadEofInRequest ==
  /\ worker = "reading"
  /\ ~conns[serving].open /\ ~conns[serving].whole /\ conns[serving].request # None
  /\ Drop

ReadEof ==
  /\ worker = "reading"
  /\ ~conns[serving].open /\ ~conns[serving].whole
  /\ Drop

(* infer(): an answer or an exception.                                       *)
Infer ==
  /\ worker = "inferring"
  /\ result' \in {"text", "error"}
  /\ worker' = "answering"
  /\ UNCHANGED <<stopping, conns, queue, serving, deaths>>

(* DeadlineGuard                                                             *)
DeadlinePasses ==
  /\ worker = "inferring" /\ deaths < MaxDeaths
  /\ Ends

(* send_response                                                             *)
Answer ==
  /\ worker = "answering" /\ conns[serving].open
  /\ LET asked == conns[serving].request
     IN  conns' = [conns EXCEPT
           ![serving].answer = [id |-> asked.id, window |-> asked.window, ok |-> result = "text"],
           ![serving].request = None, ![serving].whole = FALSE]
  /\ worker' = "serving"
  /\ result' = "none"
  /\ UNCHANGED <<stopping, queue, serving, deaths>>

(* To a client that is gone not even the error can be sent: serve() raises.  *)
AnswerRaises ==
  /\ worker = "answering" /\ ~conns[serving].open
  /\ Ends

(* stop_handler: the listening socket is closed under those that wait.       *)
StopHandler ==
  /\ worker \notin {"down", "loading"} /\ ~stopping /\ deaths < MaxDeaths
  /\ stopping' = TRUE
  /\ conns' = [k \in Conns |-> IF \E i \in DOMAIN queue : queue[i] = k
                               THEN Closed(k, "held") ELSE conns[k]]
  /\ queue' = << >>
  /\ UNCHANGED <<worker, serving, result, deaths>>

(* A supervisor kills the worker, or starts it again.                        *)
Killed ==
  /\ worker # "down" /\ deaths < MaxDeaths
  /\ Ends

Supervise ==
  /\ worker = "down"
  /\ worker' = "loading"
  /\ UNCHANGED <<stopping, conns, queue, serving, result, deaths>>

WorkerServes ==
  \/ Load \/ Accept \/ Leave \/ Continue \/ LeaveClient \/ ReadRequest \/ Refuse \/ ReadEof
  \/ Infer \/ Answer \/ AnswerRaises

WorkerNext == WorkerServes \/ DeadlinePasses \/ StopHandler \/ Killed \/ Supervise
=============================================================================
