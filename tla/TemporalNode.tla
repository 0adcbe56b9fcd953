----------------------------- MODULE TemporalNode -----------------------------
(***************************************************************************)
(* The FlashRT temporal node: a window over the sampled camera frames, the *)
(* thread that hands the newest window to the worker, and its connection.  *)
(*                                                                         *)
(* A frame is its stamp and its number among the sampled ones.  The image  *)
(* callback runs on the thread that will also destroy the node, so that it *)
(* meets the other thread only where it holds cv.                          *)
(***************************************************************************)
EXTENDS TemporalWorker, FiniteSets

CONSTANTS
  WindowFrames,   \* temporal_window_frames
  RequireFull,    \* temporal_require_full_window
  SamplePeriod, MaxGap,
  Stamps,         \* stamps of the camera
  MaxImages       \* bound: images sampled

ASSUME TemporalAssumption ==
  /\ WindowFrames \in Nat \ {0}
  /\ RequireFull \in BOOLEAN
  /\ SamplePeriod \in Nat /\ MaxGap \in Nat
  /\ MaxGap > SamplePeriod
  /\ Stamps \subseteq Nat
  /\ MaxImages \in Nat

VARIABLES
  buffer,
  lastSampled,  \* last_sampled, as << >> or <<stamp>>
  sequence,
  pending,
  running,
  owner,        \* the thread that spins and then destroys the node
  npc,          \* where _worker_loop is
  window,       \* its window
  sock,         \* client.sock
  requestId,
  outcome,      \* what client.infer came to
  published     \* the last result

nodeVars == <<buffer, lastSampled, sequence, pending, running, owner, npc, window, sock,
              requestId, outcome, published>>

threadVars == <<npc, window, sock, requestId, outcome, published>>

temporalVars == <<workerVars, nodeVars>>

Frame == [stamp : Stamps, n : 1..MaxImages]

Failed == [ok |-> FALSE]

TemporalInit ==
  /\ WorkerInit
  /\ buffer = << >> /\ lastSampled = << >> /\ sequence = 0
  /\ pending = << >>
  /\ running = TRUE /\ owner = "spin"
  /\ npc = "wait" /\ window = << >>
  /\ sock = NoConn /\ requestId = 0
  /\ outcome = Failed
  /\ published = [n |-> 0, ok |-> FALSE]

LastOf(w) == w[Len(w)]

-----------------------------------------------------------------------------
(* _image_callback                                                           *)
Discontinuity(stamp) ==
  lastSampled # << >> /\ (stamp < lastSampled[1] \/ stamp - lastSampled[1] > MaxGap)

TooEarly(stamp) ==
  lastSampled # << >> /\ ~Discontinuity(stamp) /\ stamp - lastSampled[1] < SamplePeriod

\* Mutant: what waits for the worker survives the reset.
ResetBufferOnly(stamp) ==
  IF Discontinuity(stamp)
  THEN [buffer |-> << >>, last |-> << >>, pending |-> pending]
  ELSE [buffer |-> buffer, last |-> lastSampled, pending |-> pending]

\* Mutant: the buffer survives the reset.
ResetPendingOnly(stamp) ==
  IF Discontinuity(stamp)
  THEN [buffer |-> buffer, last |-> << >>, pending |-> << >>]
  ELSE [buffer |-> buffer, last |-> lastSampled, pending |-> pending]

(* _reset_temporal_window, if the stamp calls for it.                        *)
Reset(stamp) ==
  IF Discontinuity(stamp)
  THEN [buffer |-> << >>, last |-> << >>, pending |-> << >>]
  ELSE [buffer |-> buffer, last |-> lastSampled, pending |-> pending]

(* deque(maxlen)                                                             *)
Appended(b, f) ==
  LET all == Append(b, f)
  IN  SubSeq(all, IF Len(all) > WindowFrames THEN 2 ELSE 1, Len(all))

ImageCallback(stamp) ==
  /\ owner = "spin" /\ sequence < MaxImages
  /\ ~TooEarly(stamp)
  /\ LET r == Reset(stamp)
         b == Appended(r.buffer, [stamp |-> stamp, n |-> sequence + 1])
     IN  /\ buffer' = b
         /\ pending' = IF RequireFull /\ Len(b) < WindowFrames THEN r.pending ELSE b
  /\ lastSampled' = <<stamp>>
  /\ sequence' = sequence + 1
  /\ UNCHANGED <<workerVars, threadVars, running, owner>>

(* An image that cannot be converted still resets the window.                *)
ConversionFails(stamp) ==
  /\ owner = "spin"
  /\ Discontinuity(stamp)
  /\ LET r == Reset(stamp)
     IN  buffer' = r.buffer /\ lastSampled' = r.last /\ pending' = r.pending
  /\ UNCHANGED <<workerVars, threadVars, sequence, running, owner>>

-----------------------------------------------------------------------------
(* _worker_loop and IpcClient                                                *)
\* Mutant: the window stays pending.
TakeWindowCopy ==
  /\ npc = "wait" /\ pending # << >>
  /\ window' = pending
  /\ npc' = "connect"
  /\ UNCHANGED <<workerVars, buffer, lastSampled, sequence, pending, running, owner, sock,
                 requestId, outcome, published>>

TakeWindow ==
  /\ npc = "wait" /\ pending # << >>
  /\ window' = pending /\ pending' = << >>
  /\ npc' = "connect"
  /\ UNCHANGED <<workerVars, buffer, lastSampled, sequence, running, owner, sock, requestId,
                 outcome, published>>

ThreadReturns ==
  /\ npc = "wait" /\ ~running /\ pending = << >>
  /\ npc' = "exited"
  /\ UNCHANGED <<workerVars, buffer, lastSampled, sequence, pending, running, owner, window,
                 sock, requestId, outcome, published>>

Listening == worker \notin {"down", "loading"} /\ ~stopping

quietVars == <<buffer, lastSampled, sequence, pending, running, owner, window, published>>

Connect ==
  /\ npc = "connect" /\ sock = NoConn
  /\ Listening /\ Len(queue) < AcceptQueue
  /\ \E k \in Conns : conns[k] = Free
  /\ LET k == CHOOSE c \in Conns : conns[c] = Free
     IN  /\ conns' = [conns EXCEPT ![k].open = TRUE, ![k].held = TRUE]
         /\ queue' = Append(queue, k)
         /\ sock' = k
  /\ UNCHANGED <<quietVars, npc, requestId, outcome, worker, stopping, serving, result, deaths>>

ConnectFails ==
  /\ npc = "connect" /\ sock = NoConn
  /\ ~Listening \/ Len(queue) >= AcceptQueue
  /\ npc' = "publish" /\ outcome' = Failed
  /\ UNCHANGED <<workerVars, quietVars, sock, requestId>>

BeginSend ==
  /\ npc = "connect" /\ sock # NoConn
  /\ requestId' = requestId + 1
  /\ conns' = [conns EXCEPT ![sock].request = [id |-> requestId + 1, window |-> window]]
  /\ npc' = "send"
  /\ UNCHANGED <<quietVars, sock, outcome, worker, stopping, queue, serving, result, deaths>>

FinishSend ==
  /\ npc = "send"
  /\ worker = "reading" /\ serving = sock
  /\ conns' = [conns EXCEPT ![sock].whole = TRUE]
  /\ npc' = "await"
  /\ UNCHANGED <<quietVars, sock, requestId, outcome, worker, stopping, queue, serving, result,
                 deaths>>

(* An answer for this request, which may say that it failed.                 *)
Receive ==
  /\ npc = "await" /\ conns[sock].answer # None
  /\ conns[sock].answer.id = requestId
  /\ outcome' = conns[sock].answer
  /\ conns' = [conns EXCEPT ![sock].answer = None]
  /\ npc' = "publish"
  /\ UNCHANGED <<quietVars, sock, requestId, worker, stopping, queue, serving, result, deaths>>

\* Mutant: the connection is kept after an error.
AbandonOpen ==
  /\ outcome' = Failed /\ npc' = "publish"
  /\ UNCHANGED <<workerVars, quietVars, sock, requestId>>

(* The except block closes the connection.                                   *)
Abandon ==
  /\ conns' = [conns EXCEPT ![sock] = Closed(sock, "open")]
  /\ sock' = NoConn
  /\ outcome' = Failed /\ npc' = "publish"
  /\ UNCHANGED <<quietVars, requestId, worker, stopping, queue, serving, result, deaths>>

(* The socket times out.                                                     *)
TimeoutPasses ==
  /\ npc \in {"send", "await"} /\ conns[sock].held /\ conns[sock].answer = None
  /\ Abandon

\* Mutant: the end of the worker is noticed only by who waits for an answer.
InferRaisesInAnswer ==
  /\ npc = "await" /\ ~conns[sock].held /\ conns[sock].answer = None
  /\ Abandon

(* The worker has closed its end, or answers another request.                *)
InferRaises ==
  /\ npc \in {"send", "await"}
  /\ conns[sock].answer.id # requestId
  /\ conns[sock].held => conns[sock].answer # None
  /\ Abandon

Publish ==
  /\ npc = "publish" /\ running
  /\ published' = [n |-> LastOf(window).n, ok |-> outcome.ok]
  /\ npc' = "wait" /\ window' = << >> /\ outcome' = Failed
  /\ UNCHANGED <<workerVars, buffer, lastSampled, sequence, pending, running, owner, sock,
                 requestId>>

(* Too late: ROS is shut down.                                               *)
ThreadLeaves ==
  /\ npc = "publish" /\ owner # "spin"
  /\ npc' = "exited"
  /\ UNCHANGED <<workerVars, quietVars, sock, requestId, outcome>>

-----------------------------------------------------------------------------
(* main: spin ends, with ROS shut down by the signal or not.                 *)
SpinEnds ==
  /\ owner = "spin"
  /\ owner' = "destroy"
  /\ UNCHANGED <<workerVars, threadVars, buffer, lastSampled, sequence, pending, running>>

DestroyNode ==
  /\ owner = "destroy"
  /\ owner' = "join" /\ running' = FALSE
  /\ UNCHANGED <<workerVars, threadVars, buffer, lastSampled, sequence, pending>>

(* The join ends or gives up after five seconds; the process ends and with   *)
(* it the thread and the connection.                                         *)
ProcessExits ==
  /\ owner = "join"
  /\ owner' = "gone" /\ npc' = "exited"
  /\ sock' = NoConn
  /\ conns' = IF sock = NoConn THEN conns
              ELSE [conns EXCEPT ![sock] = Closed(sock, "open")]
  /\ UNCHANGED <<buffer, lastSampled, sequence, pending, running, window, requestId, outcome,
                 published, worker, stopping, queue, serving, result, deaths>>

ThreadStep ==
  \/ TakeWindow \/ ThreadReturns \/ Connect \/ ConnectFails \/ BeginSend \/ FinishSend
  \/ Receive \/ TimeoutPasses \/ InferRaises \/ Publish \/ ThreadLeaves

TemporalNext ==
  \/ \E stamp \in Stamps : ImageCallback(stamp) \/ ConversionFails(stamp)
  \/ ThreadStep
  \/ SpinEnds \/ DestroyNode \/ ProcessExits
  \/ WorkerNext /\ UNCHANGED nodeVars

TemporalSpec == TemporalInit /\ [][TemporalNext]_temporalVars

(* Both processes are scheduled, an inference ends (if only by its deadline) *)
(* and a join gives up; a worker that died need not be started again, and    *)
(* nothing makes a camera send or a node end.                                *)
FairTemporalSpec ==
  /\ TemporalSpec
  /\ WF_temporalVars(ThreadStep)
  /\ WF_temporalVars(DestroyNode)
  /\ WF_temporalVars(ProcessExits)
  /\ WF_temporalVars(WorkerServes /\ UNCHANGED nodeVars)

-----------------------------------------------------------------------------
(* Frames that follow one another in one stream.                             *)
OneStream(w) ==
  /\ Len(w) <= WindowFrames
  /\ \A i \in 1..(Len(w) - 1) :
       /\ w[i + 1].n = w[i].n + 1
       /\ w[i + 1].stamp - w[i].stamp \in SamplePeriod..MaxGap

(* What is handed to the model as one video is one stream: no frame is left  *)
(* out of it or in it from before a gap or a jump of the clock, and what     *)
(* waits for the thread is always what the node has sampled last             *)
(* (_image_callback, _reset_temporal_window: the buffer, last_sampled and    *)
(* pending change in three places).                                          *)
WindowIsOneStream ==
  /\ OneStream(buffer)
  /\ OneStream(window)
  /\ pending # << >> => pending = buffer
  /\ RequireFull => \A w \in {pending, window} : w = << >> \/ Len(w) = WindowFrames

(* A connection that the client keeps has nothing in it when the next        *)
(* request begins, so that no answer is ever that of an earlier window       *)
(* (IpcClient.infer closes it after every error, temporal_ros_node.py:147).  *)
IdleConnectionIsClean ==
  npc \in {"wait", "connect", "publish"} /\ sock # NoConn =>
    /\ conns[sock].request = None
    /\ ~conns[sock].whole
    /\ conns[sock].answer = None

(* Results come in the order of their windows, one for a window at most, and *)
(* a text is what the worker said of that very window.                       *)
ResultsFollowWindows ==
  [][published' # published =>
       /\ published'.n > published.n
       /\ published'.ok => outcome.window = window]_temporalVars

(* Every window that the thread takes comes to a result, whatever becomes of *)
(* the worker, unless the node ends first.                                   *)
WindowConcludes == npc = "connect" ~> (npc = "wait" \/ owner # "spin")

(* A worker told to stop stops once the node is gone.                        *)
WorkerStops == (stopping /\ owner = "gone") ~> worker = "down"

(* Neither side waits for the other for ever.                                *)
WindowsAndStopsEnd == WindowConcludes /\ WorkerStops
=============================================================================
