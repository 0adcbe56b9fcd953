-------------------------- MODULE TemporalNodeProofs --------------------------
(***************************************************************************)
(* The window of the temporal node is one stream, for any parameters of    *)
(* the node, any stamps of the camera and any fate of the worker.          *)
(***************************************************************************)
EXTENDS TemporalNode, SequenceTheorems, TLAPS

Sampled == [stamp : Nat, n : Nat]

WindowTypeOK ==
  /\ buffer \in Seq(Sampled) /\ pending \in Seq(Sampled) /\ window \in Seq(Sampled)
  /\ sequence \in Nat
  /\ lastSampled = << >> \/ \E t \in Nat : lastSampled = <<t>>

(* The last frame sampled is the last one of the buffer, which is empty when *)
(* nothing was sampled since the last reset.                                 *)
BufferEndsNow ==
  IF buffer = << >> THEN lastSampled = << >>
  ELSE /\ lastSampled = <<LastOf(buffer).stamp>>
       /\ LastOf(buffer).n = sequence

Inv == WindowTypeOK /\ BufferEndsNow /\ WindowIsOneStream

LEMMA ResetCases ==
  ASSUME WindowTypeOK, BufferEndsNow, NEW stamp \in Nat
  PROVE  \/ /\ Discontinuity(stamp)
            /\ Reset(stamp) = [buffer |-> << >>, last |-> << >>, pending |-> << >>]
         \/ /\ ~Discontinuity(stamp)
            /\ Reset(stamp) = [buffer |-> buffer, last |-> lastSampled, pending |-> pending]
            /\ buffer # << >> /\ ~TooEarly(stamp) =>
                 stamp - LastOf(buffer).stamp \in SamplePeriod..MaxGap
<1>1. CASE Discontinuity(stamp)
  BY <1>1 DEF Reset
<1>2. CASE ~Discontinuity(stamp)
  <2>1. Reset(stamp) = [buffer |-> buffer, last |-> lastSampled, pending |-> pending]
    BY <1>2 DEF Reset
  <2>2. ASSUME buffer # << >>, ~TooEarly(stamp)
        PROVE  stamp - LastOf(buffer).stamp \in SamplePeriod..MaxGap
    <3>0. lastSampled # << >>
      BY <2>2 DEF BufferEndsNow
    <3>1. PICK t \in Nat : lastSampled = <<t>>
      BY <3>0 DEF WindowTypeOK
    <3>2. lastSampled # << >> /\ lastSampled[1] = t /\ LastOf(buffer).stamp = t
      BY <2>2, <3>1 DEF BufferEndsNow
    <3>3. stamp >= t /\ stamp - t <= MaxGap /\ stamp - t >= SamplePeriod
      BY <1>2, <2>2, <3>2, TemporalAssumption DEF Discontinuity, TooEarly
    <3> QED
      BY <3>2, <3>3, TemporalAssumption
  <2> QED
    BY <1>2, <2>1, <2>2
<1> QED
  BY <1>1, <1>2

(* What a deque with a bound makes of a frame that is appended.              *)
LEMMA AppendedFrames ==
  ASSUME NEW b \in Seq(Sampled), NEW f \in Sampled, Len(b) <= WindowFrames
  PROVE  \E k \in {0, 1} :
           /\ Appended(b, f) \in Seq(Sampled)
           /\ Len(Appended(b, f)) = Len(b) + 1 - k
           /\ Len(Appended(b, f)) \in 1..WindowFrames
           /\ \A i \in 1..(Len(b) + 1 - k) :
                Appended(b, f)[i] = IF i + k = Len(b) + 1 THEN f ELSE b[i + k]
<1> DEFINE all == Append(b, f)
<1>1. all \in Seq(Sampled) /\ Len(all) = Len(b) + 1 /\ Len(b) \in Nat
  BY AppendProperties, LenProperties
<1>2. \A i \in 1..(Len(b) + 1) : all[i] = IF i = Len(b) + 1 THEN f ELSE b[i]
  BY AppendProperties, LenProperties
<1> HIDE DEF all
<1>3. WindowFrames \in Nat \ {0}
  BY TemporalAssumption
<1>4. CASE Len(all) > WindowFrames
  <2>1. Appended(b, f) = SubSeq(all, 2, Len(all))
    BY <1>4 DEF Appended, all
  <2>2. Appended(b, f) \in Seq(Sampled) /\ Len(Appended(b, f)) = Len(b)
    BY <1>1, <2>1
  <2>3. \A i \in 1..Len(b) : Appended(b, f)[i] = all[i + 1]
    BY <1>1, <2>1
  <2>4. Len(b) \in 1..WindowFrames
    BY <1>1, <1>3, <1>4
  <2>5. \A i \in 1..Len(b) : Appended(b, f)[i] = IF i + 1 = Len(b) + 1 THEN f ELSE b[i + 1]
    BY <1>1, <1>2, <2>3
  <2> QED
    BY <1>1, <2>2, <2>4, <2>5
<1>5. CASE ~(Len(all) > WindowFrames)
  <2>1. Appended(b, f) = SubSeq(all, 1, Len(all))
    BY <1>5 DEF Appended, all
  <2>2. Appended(b, f) \in Seq(Sampled) /\ Len(Appended(b, f)) = Len(b) + 1
    BY <1>1, <2>1
  <2>3. \A i \in 1..(Len(b) + 1) : Appended(b, f)[i] = all[i]
    BY <1>1, <2>1
  <2>4. Len(b) + 1 \in 1..WindowFrames
    BY <1>1, <1>3, <1>5
  <2> QED
    BY <1>1, <1>2, <2>2, <2>3, <2>4
<1> QED
  BY <1>4, <1>5

(* A frame that follows the last one of a stream makes a stream of it.       *)
LEMMA StreamGoesOn ==
  ASSUME NEW b \in Seq(Sampled), NEW f \in Sampled, OneStream(b),
         b # << >> => /\ f.n = LastOf(b).n + 1
                      /\ f.stamp - LastOf(b).stamp \in SamplePeriod..MaxGap
  PROVE  /\ OneStream(Appended(b, f))
         /\ Appended(b, f) \in Seq(Sampled) \ {<< >>}
         /\ LastOf(Appended(b, f)) = f
<1> DEFINE a == Appended(b, f)
<1>1. Len(b) <= WindowFrames /\ Len(b) \in Nat
  BY LenProperties DEF OneStream
<1>2. PICK k \in {0, 1} :
           /\ a \in Seq(Sampled)
           /\ Len(a) = Len(b) + 1 - k
           /\ Len(a) \in 1..WindowFrames
           /\ \A i \in 1..(Len(b) + 1 - k) : a[i] = IF i + k = Len(b) + 1 THEN f ELSE b[i + k]
  BY <1>1, AppendedFrames
<1> HIDE DEF a
<1>3. a[Len(a)] = f /\ a # << >>
  BY <1>1, <1>2
<1>4. ASSUME NEW i \in 1..(Len(a) - 1)
      PROVE  /\ a[i + 1].n = a[i].n + 1
             /\ a[i + 1].stamp - a[i].stamp \in SamplePeriod..MaxGap
  <2>1. i + k \in 1..Len(b) /\ a[i] = b[i + k] /\ i + k \in Nat
    BY <1>1, <1>2, SMTT(30)
  <2>2. CASE i + k = Len(b)
    <3>1. a[i + 1] = f /\ b # << >> /\ LastOf(b) = b[i + k]
      BY <1>1, <1>2, <2>1, <2>2 DEF LastOf
    <3> QED
      BY <2>1, <3>1
  <2>3. CASE i + k # Len(b)
    <3>1. i + k \in 1..(Len(b) - 1)
      BY <1>1, <2>1, <2>3
    <3>2. a[i + 1] = b[i + k + 1]
      BY <1>1, <1>2, <3>1
    <3> QED
      BY <2>1, <3>1, <3>2 DEF OneStream
  <2> QED
    BY <2>2, <2>3
<1>5. WindowFrames \in Nat
  BY TemporalAssumption
<1>6. OneStream(a)
  BY <1>2, <1>4, <1>5 DEF OneStream
<1> QED
  BY <1>2, <1>3, <1>6 DEF a, LastOf

LEMMA EmptyStream == OneStream(<< >>) /\ << >> \in Seq(Sampled)
<1>1. Len(<< >>) = 0 /\ << >> \in Seq(Sampled)
  BY EmptySeq
<1> QED
  BY <1>1, TemporalAssumption DEF OneStream

LEMMA InitInv == TemporalInit => Inv
BY EmptyStream DEF TemporalInit, Inv, WindowTypeOK, BufferEndsNow, WindowIsOneStream

(* The callback that samples a frame.                                        *)
LEMMA SampleInv ==
  ASSUME Inv, NEW stamp \in Stamps, ImageCallback(stamp)
  PROVE  Inv'
<1> DEFINE r == Reset(stamp)
           f == [stamp |-> stamp, n |-> sequence + 1]
           b == Appended(r.buffer, f)
<1>1. stamp \in Nat /\ f \in Sampled /\ f.n = sequence + 1 /\ f.stamp = stamp
  BY TemporalAssumption DEF Inv, WindowTypeOK, Sampled
<1>2. /\ buffer' = b /\ lastSampled' = <<stamp>> /\ sequence' = sequence + 1
      /\ pending' = IF RequireFull /\ Len(b) < WindowFrames THEN r.pending ELSE b
      /\ window' = window /\ ~TooEarly(stamp)
  BY DEF ImageCallback, threadVars
<1>3. /\ r.buffer \in Seq(Sampled) /\ OneStream(r.buffer)
      /\ r.buffer # << >> => /\ f.n = LastOf(r.buffer).n + 1
                             /\ f.stamp - LastOf(r.buffer).stamp \in SamplePeriod..MaxGap
      /\ r.pending = << >> \/ r.pending = r.buffer
      /\ r.pending = << >> \/ ~RequireFull \/ Len(r.pending) = WindowFrames
  <2>1. CASE Discontinuity(stamp)
    <3>1. r.buffer = << >> /\ r.pending = << >>
      BY <1>1, <2>1, ResetCases DEF Inv
    <3> QED
      BY <3>1, EmptyStream
  <2>2. CASE ~Discontinuity(stamp)
    <3>1. r.buffer = buffer /\ r.pending = pending
      BY <1>1, <2>2, ResetCases DEF Inv
    <3>2. buffer # << >> => stamp - LastOf(buffer).stamp \in SamplePeriod..MaxGap
      BY <1>1, <1>2, <2>2, ResetCases DEF Inv
    <3> QED
      BY <1>1, <3>1, <3>2 DEF Inv, BufferEndsNow, WindowIsOneStream, WindowTypeOK
  <2> QED
    BY <2>1, <2>2
<1>4. OneStream(b) /\ b \in Seq(Sampled) /\ b # << >> /\ LastOf(b) = f
  BY <1>1, <1>3, StreamGoesOn
<1>5. Len(b) \in Nat /\ Len(b) <= WindowFrames /\ WindowFrames \in Nat
  BY <1>4, LenProperties, TemporalAssumption DEF OneStream
<1>6. RequireFull /\ Len(b) < WindowFrames => r.pending = << >>
  <2> SUFFICES ASSUME RequireFull, Len(b) < WindowFrames, r.pending # << >>
               PROVE  FALSE
    OBVIOUS
  <2>1. Len(r.buffer) = WindowFrames /\ WindowFrames \in Nat
    BY <1>3, <1>5
  <2>2. PICK k \in {0, 1} : Len(b) = Len(r.buffer) + 1 - k
    <3>1. Len(r.buffer) <= WindowFrames
      BY <1>3 DEF OneStream
    <3> QED
      BY <1>1, <1>3, <3>1, AppendedFrames
  <2> QED
    BY <1>5, <2>1, <2>2
<1> HIDE DEF r, b
<1>7. WindowTypeOK'
  <2>1. pending' \in Seq(Sampled) /\ buffer' \in Seq(Sampled) /\ window' \in Seq(Sampled)
    BY <1>2, <1>4, <1>6, EmptyStream DEF Inv, WindowTypeOK
  <2>2. sequence' \in Nat /\ lastSampled' = <<stamp>>
    BY <1>2 DEF Inv, WindowTypeOK
  <2> QED
    BY <1>1, <2>1, <2>2 DEF WindowTypeOK
<1>8. BufferEndsNow'
  BY <1>1, <1>2, <1>4 DEF BufferEndsNow
<1>9. WindowIsOneStream'
  <2>1. pending' = << >> \/ pending' = b
    BY <1>2, <1>6
  <2>2. RequireFull => pending' = << >> \/ Len(pending') = WindowFrames
    BY <1>2, <1>5, <1>6
  <2> QED
    BY <1>2, <1>4, <2>1, <2>2 DEF Inv, WindowIsOneStream, OneStream
<1> QED
  BY <1>7, <1>8, <1>9 DEF Inv

(* A callback that can only reset.                                           *)
LEMMA ResetInv ==
  ASSUME Inv, NEW stamp \in Stamps, ConversionFails(stamp)
  PROVE  Inv'
<1>1. /\ buffer' = << >> /\ lastSampled' = << >> /\ pending' = << >>
      /\ window' = window /\ sequence' = sequence
  BY ResetCases, TemporalAssumption DEF Inv, ConversionFails, threadVars
<1> QED
  BY <1>1, EmptyStream DEF Inv, WindowTypeOK, BufferEndsNow, WindowIsOneStream, OneStream

(* Nothing else touches the window but the thread, which takes it and leaves *)
(* it.                                                                       *)
LEMMA ThreadInv ==
  ASSUME Inv,
         buffer' = buffer, lastSampled' = lastSampled, sequence' = sequence,
         \/ window' = pending /\ pending' = << >>
         \/ window' \in {window, << >>} /\ pending' = pending
  PROVE  Inv'
<1>1. WindowTypeOK' /\ BufferEndsNow'
  BY EmptyStream DEF Inv, WindowTypeOK, BufferEndsNow
<1>2. WindowIsOneStream'
  <2>1. OneStream(pending)
    BY EmptyStream DEF Inv, WindowIsOneStream
  <2> QED
    BY <2>1, EmptyStream DEF Inv, WindowIsOneStream, OneStream
<1> QED
  BY <1>1, <1>2 DEF Inv

LEMMA NextInv ==
  ASSUME Inv, [TemporalNext]_temporalVars
  PROVE  Inv'
<1>1. CASE \E stamp \in Stamps : ImageCallback(stamp) \/ ConversionFails(stamp)
  BY <1>1, SampleInv, ResetInv
<1>2. CASE ThreadStep
  <2>1. /\ buffer' = buffer /\ lastSampled' = lastSampled /\ sequence' = sequence
        /\ \/ window' = pending /\ pending' = << >>
           \/ window' \in {window, << >>} /\ pending' = pending
    BY <1>2 DEF ThreadStep, TakeWindow, ThreadReturns, Connect, ConnectFails, BeginSend,
      FinishSend, Receive, TimeoutPasses, InferRaises, Abandon, Publish, ThreadLeaves, quietVars
  <2> QED
    BY <2>1, ThreadInv
<1>3. CASE SpinEnds \/ DestroyNode \/ ProcessExits
  BY <1>3, ThreadInv DEF SpinEnds, DestroyNode, ProcessExits, threadVars
<1>4. CASE (WorkerNext /\ UNCHANGED nodeVars) \/ UNCHANGED temporalVars
  BY <1>4, ThreadInv DEF nodeVars, temporalVars
<1> QED
  BY <1>1, <1>2, <1>3, <1>4 DEF TemporalNext

(* Whatever the camera sends, whatever becomes of the worker and whenever    *)
(* its thread comes round, what the node hands over or keeps is one stream   *)
(* (_image_callback, _reset_temporal_window, _worker_loop).                  *)
THEOREM WindowsAreStreams == TemporalSpec => []WindowIsOneStream
<1>1. TemporalInit => Inv
  BY InitInv
<1>2. Inv /\ [TemporalNext]_temporalVars => Inv'
  BY NextInv
<1>3. Inv => WindowIsOneStream
  BY DEF Inv
<1> QED
  BY <1>1, <1>2, <1>3, PTL DEF TemporalSpec

-----------------------------------------------------------------------------
(* What the connections carry and what has become of the window.             *)

Requests == {None} \cup [id : Nat \ {0}, window : Seq(Sampled)]
Answers == [id : Nat \ {0}, window : Seq(Sampled), ok : BOOLEAN]
Connection ==
  [open : BOOLEAN, held : BOOLEAN, request : Requests, whole : BOOLEAN,
   answer : {None} \cup Answers]

TalkTypeOK ==
  /\ worker \in {"down", "loading", "accepting", "serving", "reading", "inferring", "answering"}
  /\ serving \in Conns \cup {NoConn} /\ sock \in Conns \cup {NoConn}
  /\ queue \in Seq(Conns)
  /\ npc \in {"wait", "connect", "send", "await", "publish", "exited"}
  /\ requestId \in Nat
  /\ outcome \in {Failed} \cup Answers
  /\ published \in [n : Nat, ok : BOOLEAN]
  /\ conns \in [Conns -> Connection]

(* The worker serves one of the connections it holds, and those that wait    *)
(* are others, each once.                                                    *)
WorkerHolds ==
  /\ serving # NoConn <=> worker \in {"serving", "reading", "inferring", "answering"}
  /\ serving # NoConn => conns[serving].held
  /\ \A i \in 1..Len(queue) : conns[queue[i]].held /\ queue[i] # serving
  /\ \A i, j \in 1..Len(queue) : queue[i] = queue[j] => i = j

(* The node has its end of one connection at most.                           *)
NodeHolds ==
  /\ npc \in {"send", "await"} => sock # NoConn
  /\ \A k \in Conns : conns[k].open <=> k = sock

(* How far the call has come: the connection carries nothing, the request,   *)
(* or the answer to it, and the worker is past reading only with a request   *)
(* that is whole.                                                            *)
Serves == serving = sock => worker \in {"serving", "reading"}

Clean ==
  conns[sock].request = None /\ ~conns[sock].whole /\ conns[sock].answer = None

Asking(whole) ==
  /\ conns[sock].request = [id |-> requestId, window |-> window]
  /\ conns[sock].whole = whole /\ conns[sock].answer = None

Answered ==
  /\ conns[sock].request = None /\ ~conns[sock].whole
  /\ \E ok \in BOOLEAN :
       conns[sock].answer = [id |-> requestId, window |-> window, ok |-> ok]

CallProgress ==
  sock # NoConn =>
    /\ npc \notin {"send", "await"} => Clean /\ Serves
    /\ npc \in {"send", "await"} => requestId # 0
    /\ npc = "send" => Asking(FALSE) /\ Serves
    /\ npc = "await" => Asking(TRUE) \/ (Answered /\ Serves)

(* The window that is worked on is newer than the last result, and what      *)
(* waits is newer still.                                                     *)
ResultsProgress ==
  /\ published.n <= sequence
  /\ npc \in {"connect", "send", "await", "publish"} => window # << >>
  /\ npc = "wait" => window = << >>
  /\ npc = "publish" /\ outcome.ok => outcome.window = window
  /\ window # << >> => LastOf(window).n \in (published.n + 1)..sequence
  /\ pending # << >> =>
       /\ published.n < sequence
       /\ window # << >> => LastOf(window).n < sequence

TalkInv == TalkTypeOK /\ WorkerHolds /\ NodeHolds /\ CallProgress /\ ResultsProgress

LEMMA NoneIsNoRecord ==
  /\ None \notin [id : Nat \ {0}, window : Seq(Sampled)]
  /\ None \notin Answers
<1>1. None.id = 0
  BY DEF None
<1> QED BY <1>1 DEF Answers

LEMMA FreeIsConnection ==
  /\ Free \in Connection
  /\ ~Free.open /\ ~Free.held /\ ~Free.whole /\ Free.request = None /\ Free.answer = None
BY DEF Free, Connection, Requests

(* An end that is closed leaves the other end, and what was sent to it.      *)
LEMMA ClosedEnds ==
  ASSUME conns \in [Conns -> Connection], NEW k \in Conns
  PROVE  /\ Closed(k, "held") \in Connection /\ Closed(k, "open") \in Connection
         /\ ~Closed(k, "held").held /\ Closed(k, "held").open = conns[k].open
         /\ ~Closed(k, "open").open /\ Closed(k, "open").held = conns[k].held
         /\ conns[k].open => /\ Closed(k, "held").request = conns[k].request
                             /\ Closed(k, "held").whole = conns[k].whole
                             /\ Closed(k, "held").answer = conns[k].answer
<1>1. conns[k] \in Connection
  OBVIOUS
<1>2. [conns[k] EXCEPT !["held"] = FALSE] = [conns[k] EXCEPT !.held = FALSE]
  OBVIOUS
<1>3. [conns[k] EXCEPT !["open"] = FALSE] = [conns[k] EXCEPT !.open = FALSE]
  OBVIOUS
<1>4. Closed(k, "held") = IF conns[k].open THEN [conns[k] EXCEPT !.held = FALSE] ELSE Free
  BY <1>1, <1>2 DEF Closed, Connection
<1>5. Closed(k, "open") = IF conns[k].held THEN [conns[k] EXCEPT !.open = FALSE] ELSE Free
  BY <1>1, <1>3 DEF Closed, Connection
<1> QED BY <1>1, <1>4, <1>5, FreeIsConnection DEF Connection

(* A step of the worker keeps the node's part if it leaves what is in the    *)
(* connection the node has an end of, and is past reading only as the call   *)
(* allows.                                                                   *)
LEMMA WorkerKeepsCall ==
  ASSUME TalkInv, UNCHANGED nodeVars, conns' \in [Conns -> Connection],
         \A k \in Conns : conns'[k].open = conns[k].open,
         \A k \in Conns : conns[k].open =>
           /\ conns'[k].request = conns[k].request
           /\ conns'[k].whole = conns[k].whole
           /\ conns'[k].answer = conns[k].answer,
         sock # NoConn /\ serving' = sock =>
           \/ worker' \in {"serving", "reading"}
           \/ /\ serving = sock
              /\ worker \in {"inferring", "answering"} \/ conns[sock].whole
  PROVE  NodeHolds' /\ CallProgress' /\ ResultsProgress'
<1> USE DEF TalkInv
<1>1. UNCHANGED <<sock, npc, requestId, window, outcome, published, sequence, pending>>
  BY DEF nodeVars
<1>2. NodeHolds' /\ ResultsProgress'
  BY <1>1 DEF NodeHolds, ResultsProgress
<1>3. CASE sock = NoConn
  BY <1>1, <1>2, <1>3 DEF CallProgress
<1>4. CASE sock # NoConn
  <2>1. /\ sock \in Conns /\ conns[sock].open
        /\ conns'[sock].request = conns[sock].request
        /\ conns'[sock].whole = conns[sock].whole
        /\ conns'[sock].answer = conns[sock].answer
    BY <1>4 DEF TalkTypeOK, NodeHolds
  <2>2. /\ Clean => Clean'
        /\ Asking(FALSE) => Asking(FALSE)'
        /\ Asking(TRUE) => Asking(TRUE)'
        /\ Answered => Answered'
    BY <1>1, <2>1 DEF Clean, Asking, Answered
  <2>3. Serves /\ ~conns[sock].whole => Serves'
    BY <1>1, <1>4 DEF Serves
  <2>4. Clean \/ Asking(FALSE) \/ Answered => ~conns[sock].whole
    BY DEF Clean, Asking, Answered
  <2>5. CASE npc = "send"
    BY <1>1, <1>2, <1>4, <2>2, <2>3, <2>4, <2>5 DEF CallProgress
  <2>6. CASE npc = "await"
    BY <1>1, <1>2, <1>4, <2>2, <2>3, <2>4, <2>6 DEF CallProgress
  <2>7. CASE npc \notin {"send", "await"}
    BY <1>1, <1>2, <1>4, <2>2, <2>3, <2>4, <2>7 DEF CallProgress
  <2> QED
    BY <2>5, <2>6, <2>7
<1> QED BY <1>3, <1>4, <1>2

LEMMA TalkInit == TemporalInit => TalkInv
<1> SUFFICES ASSUME TemporalInit PROVE TalkInv
  OBVIOUS
<1>1. TalkTypeOK
  BY EmptySeq, FreeIsConnection DEF TemporalInit, WorkerInit, TalkTypeOK
<1>2. WorkerHolds /\ NodeHolds /\ CallProgress
  BY FreeIsConnection, WorkerAssumption
  DEF TemporalInit, WorkerInit, WorkerHolds, NodeHolds, CallProgress
<1>3. ResultsProgress
  BY DEF TemporalInit, ResultsProgress, Failed
<1> QED BY <1>1, <1>2, <1>3 DEF TalkInv

(* The steps of the worker.                                                  *)
LEMMA EndsKeeps ==
  ASSUME TalkInv, Ends, UNCHANGED nodeVars
  PROVE  TalkInv'
<1> USE DEF TalkInv
<1>1. \A k \in Conns : conns'[k] = IF conns[k].held THEN Closed(k, "held") ELSE conns[k]
  BY DEF Ends, Held, TalkTypeOK
<1>2. ASSUME NEW k \in Conns
      PROVE  /\ conns'[k] \in Connection
             /\ conns'[k].open = conns[k].open
             /\ conns[k].open => /\ conns'[k].request = conns[k].request
                                 /\ conns'[k].whole = conns[k].whole
                                 /\ conns'[k].answer = conns[k].answer
  BY <1>1, ClosedEnds DEF TalkTypeOK
<1>3. conns' \in [Conns -> Connection]
  <2>1. conns' = [k \in Conns |-> conns'[k]]
    BY DEF Ends
  <2> QED BY <1>2, <2>1
<1>4. worker' = "down" /\ serving' = NoConn /\ queue' = << >>
  BY DEF Ends
<1>5. TalkTypeOK'
  BY <1>3, <1>4, EmptySeq DEF TalkTypeOK, nodeVars
<1>6. WorkerHolds'
  BY <1>4 DEF WorkerHolds
<1> QED BY <1>2, <1>3, <1>4, <1>5, <1>6, WorkerKeepsCall

LEMMA DropKeeps ==
  ASSUME TalkInv, Drop, UNCHANGED nodeVars, serving # NoConn
  PROVE  TalkInv'
<1> USE DEF TalkInv
<1>1. /\ serving \in Conns /\ conns' = [conns EXCEPT ![serving] = Closed(serving, "held")]
      /\ worker' = "accepting" /\ serving' = NoConn /\ queue' = queue
      /\ Closed(serving, "held") \in Connection
  BY ClosedEnds DEF Drop, TalkTypeOK
<1>2. ASSUME NEW k \in Conns
      PROVE  /\ conns'[k].open = conns[k].open
             /\ conns[k].open => /\ conns'[k].request = conns[k].request
                                 /\ conns'[k].whole = conns[k].whole
                                 /\ conns'[k].answer = conns[k].answer
             /\ k # serving => conns'[k] = conns[k]
  BY <1>1, ClosedEnds DEF TalkTypeOK
<1>3. conns' \in [Conns -> Connection]
  BY <1>1 DEF TalkTypeOK
<1>5. TalkTypeOK'
  BY <1>1, <1>3 DEF TalkTypeOK, nodeVars
<1>6. WorkerHolds'
  <2>1. \A i \in 1..Len(queue) : queue[i] \in Conns
    BY DEF TalkTypeOK
  <2> QED
    BY <1>1, <1>2, <2>1, WorkerAssumption DEF WorkerHolds
<1> QED BY <1>1, <1>2, <1>3, <1>5, <1>6, WorkerKeepsCall

LEMMA WorkerMoves ==
  ASSUME TalkInv, UNCHANGED nodeVars,
         Load \/ Continue \/ ReadRequest \/ Infer \/ Supervise
  PROVE  TalkInv'
<1> USE DEF TalkInv
<1>1. UNCHANGED <<conns, queue, serving>>
  BY DEF Load, Continue, ReadRequest, Infer, Supervise
<1>2. TalkTypeOK'
  BY <1>1 DEF TalkTypeOK, nodeVars, Load, Continue, ReadRequest, Infer, Supervise
<1>3. WorkerHolds'
  BY <1>1 DEF WorkerHolds, Load, Continue, ReadRequest, Infer, Supervise
<1>4. sock # NoConn /\ serving' = sock =>
        \/ worker' \in {"serving", "reading"}
        \/ /\ serving = sock
           /\ worker \in {"inferring", "answering"} \/ conns[sock].whole
  BY <1>1 DEF WorkerHolds, Load, Continue, ReadRequest, Infer, Supervise
<1> QED BY <1>1, <1>2, <1>3, <1>4, WorkerKeepsCall DEF TalkTypeOK

LEMMA AcceptKeeps ==
  ASSUME TalkInv, Accept, UNCHANGED nodeVars
  PROVE  TalkInv'
<1> USE DEF TalkInv
<1>1. /\ queue # << >> /\ serving = NoConn
      /\ serving' = Head(queue) /\ queue' = Tail(queue) /\ worker' = "serving"
      /\ UNCHANGED conns
  BY DEF Accept, WorkerHolds
<1>2. /\ Head(queue) = queue[1] /\ 1 \in 1..Len(queue) /\ queue[1] \in Conns
      /\ Tail(queue) \in Seq(Conns) /\ Len(Tail(queue)) = Len(queue) - 1
      /\ Len(queue) \in Nat
      /\ \A i \in 1..Len(Tail(queue)) :
           /\ Tail(queue)[i] = queue[i + 1]
           /\ i + 1 \in 1..Len(queue) /\ i + 1 # 1
  BY <1>1, HeadTailProperties, LenProperties DEF TalkTypeOK
<1>3. TalkTypeOK'
  BY <1>1, <1>2 DEF TalkTypeOK, nodeVars
<1>4. WorkerHolds'
  BY <1>1, <1>2, WorkerAssumption DEF WorkerHolds
<1> QED BY <1>1, <1>3, <1>4, WorkerKeepsCall DEF TalkTypeOK

LEMMA StopHandlerKeeps ==
  ASSUME TalkInv, StopHandler, UNCHANGED nodeVars
  PROVE  TalkInv'
<1> USE DEF TalkInv
<1>1. /\ UNCHANGED <<worker, serving>> /\ queue' = << >>
      /\ conns' = [k \in Conns |-> IF \E i \in DOMAIN queue : queue[i] = k
                                   THEN Closed(k, "held") ELSE conns[k]]
  BY DEF StopHandler
<1>2. ASSUME NEW k \in Conns
      PROVE  /\ conns'[k] \in Connection
             /\ conns'[k].open = conns[k].open
             /\ conns[k].open => /\ conns'[k].request = conns[k].request
                                 /\ conns'[k].whole = conns[k].whole
                                 /\ conns'[k].answer = conns[k].answer
  BY <1>1, ClosedEnds DEF TalkTypeOK
<1>3. conns' \in [Conns -> Connection]
  BY <1>1, <1>2
<1>4. TalkTypeOK'
  BY <1>1, <1>3, EmptySeq DEF TalkTypeOK, nodeVars
<1>5. WorkerHolds'
  <2>1. \A i \in DOMAIN queue : i \in 1..Len(queue)
    BY LenProperties DEF TalkTypeOK
  <2>2. serving # NoConn => conns'[serving] = conns[serving]
    BY <1>1, <2>1 DEF WorkerHolds, TalkTypeOK
  <2> QED
    BY <1>1, <2>2 DEF WorkerHolds
<1>6. sock # NoConn /\ serving' = sock =>
        \/ worker' \in {"serving", "reading"}
        \/ /\ serving = sock
           /\ worker \in {"inferring", "answering"} \/ conns[sock].whole
  BY <1>1 DEF WorkerHolds
<1> QED BY <1>2, <1>3, <1>4, <1>5, <1>6, WorkerKeepsCall

(* The answer is to the request that the connection carries.                 *)
LEMMA AnswerKeeps ==
  ASSUME TalkInv, Answer, UNCHANGED nodeVars
  PROVE  TalkInv'
<1> USE DEF TalkInv
<1>1. /\ worker = "answering" /\ worker' = "serving" /\ UNCHANGED <<serving, queue>>
      /\ serving # NoConn /\ serving \in Conns /\ conns[serving] \in Connection
      /\ sock = serving /\ npc = "await" /\ requestId # 0 /\ Asking(TRUE)
  <2>1. /\ worker = "answering" /\ worker' = "serving" /\ UNCHANGED <<serving, queue>>
        /\ conns[serving].open
    BY DEF Answer
  <2>2. serving # NoConn /\ serving \in Conns /\ conns[serving] \in Connection
    BY <2>1 DEF WorkerHolds, TalkTypeOK
  <2>3. sock = serving
    BY <2>1, <2>2 DEF NodeHolds
  <2>4. ~Serves
    BY <2>1, <2>3 DEF Serves
  <2>5. npc = "await" /\ requestId # 0 /\ Asking(TRUE)
    BY <2>2, <2>3, <2>4 DEF CallProgress
  <2> QED BY <2>1, <2>2, <2>3, <2>5
<1>2. PICK ok \in BOOLEAN : ok = (result = "text")
  OBVIOUS
<1>3. conns' = [conns EXCEPT ![sock] =
                  [@ EXCEPT !.answer = [id |-> requestId, window |-> window, ok |-> ok],
                            !.request = None, !.whole = FALSE]]
  BY <1>1, <1>2, SMTT(30) DEF Answer, Asking, TalkTypeOK, Connection
<1>4. [id |-> requestId, window |-> window, ok |-> ok] \in Answers /\ None \in Requests
  <2>1. [id |-> requestId, window |-> window] \in Requests
    BY <1>1 DEF Connection, Asking
  <2>2. None # [id |-> requestId, window |-> window]
    BY <1>1 DEF None
  <2>3. window \in Seq(Sampled) /\ requestId \in Nat \ {0}
    BY <2>1, <2>2 DEF Requests
  <2> QED BY <2>3 DEF Answers, Requests
<1>5. /\ conns'[sock] \in Connection
      /\ conns'[sock].answer = [id |-> requestId, window |-> window, ok |-> ok]
      /\ conns'[sock].request = None /\ ~conns'[sock].whole
      /\ conns'[sock].open = conns[sock].open /\ conns'[sock].held = conns[sock].held
      /\ \A k \in Conns : k # sock => conns'[k] = conns[k]
      /\ conns' \in [Conns -> Connection]
  BY <1>1, <1>3, <1>4 DEF TalkTypeOK, Connection
<1>6. UNCHANGED <<sock, npc, requestId, window, outcome, published, sequence, pending>>
  BY DEF nodeVars
<1>7. TalkTypeOK'
  BY <1>1, <1>5, <1>6 DEF TalkTypeOK
<1>8. WorkerHolds'
  <2>1. \A i \in 1..Len(queue) : queue[i] \in Conns
    BY DEF TalkTypeOK
  <2> QED
    BY <1>1, <1>5, <2>1 DEF WorkerHolds
<1>9. NodeHolds' /\ ResultsProgress'
  BY <1>1, <1>5, <1>6 DEF NodeHolds, ResultsProgress
<1>10. CallProgress'
  <2>1. Answered' /\ Serves'
    BY <1>1, <1>2, <1>5, <1>6 DEF Answered, Serves
  <2> QED
    BY <1>1, <1>6, <2>1 DEF CallProgress
<1> QED BY <1>7, <1>8, <1>9, <1>10

LEMMA WorkerKeepsTalk ==
  ASSUME TalkInv, WorkerNext, UNCHANGED nodeVars
  PROVE  TalkInv'
<1>1. CASE Load \/ Continue \/ ReadRequest \/ Infer \/ Supervise
  BY <1>1, WorkerMoves
<1>2. CASE Accept
  BY <1>2, AcceptKeeps
<1>3. CASE LeaveClient \/ Refuse \/ ReadEof
  <2>1. Drop /\ serving # NoConn
    BY <1>3 DEF LeaveClient, Refuse, ReadEof, TalkInv, WorkerHolds
  <2> QED BY <2>1, DropKeeps
<1>4. CASE Leave \/ AnswerRaises \/ DeadlinePasses \/ Killed
  BY <1>4, EndsKeeps DEF Leave, AnswerRaises, DeadlinePasses, Killed
<1>5. CASE Answer
  BY <1>5, AnswerKeeps
<1>6. CASE StopHandler
  BY <1>6, StopHandlerKeeps
<1> QED BY <1>1, <1>2, <1>3, <1>4, <1>5, <1>6 DEF WorkerNext, WorkerServes

(* The steps of the node: frames first, which only make what waits newer.    *)
LEMMA CallbackKeepsTalk ==
  ASSUME TalkInv, Inv, NEW stamp \in Stamps, ImageCallback(stamp) \/ ConversionFails(stamp)
  PROVE  TalkInv'
<1> USE DEF TalkInv
<1>1. UNCHANGED <<workerVars, threadVars>>
  BY DEF ImageCallback, ConversionFails
<1>2. TalkTypeOK' /\ WorkerHolds' /\ NodeHolds'
  BY <1>1 DEF TalkTypeOK, WorkerHolds, NodeHolds, workerVars, threadVars
<1>3. CallProgress'
  BY <1>1 DEF CallProgress, Clean, Asking, Answered, Serves, workerVars, threadVars
<1>4. ResultsProgress'
  <2>1. sequence \in Nat /\ published.n \in Nat /\ published.n <= sequence
    BY DEF Inv, WindowTypeOK, TalkTypeOK, ResultsProgress
  <2>2. CASE ImageCallback(stamp)
    <3>1. sequence' = sequence + 1
      BY <2>2 DEF ImageCallback
    <3> QED
      BY <1>1, <2>1, <3>1 DEF ResultsProgress, threadVars
  <2>3. CASE ConversionFails(stamp)
    <3>1. sequence' = sequence /\ pending' = << >>
      BY <2>3, ResetCases, TemporalAssumption DEF ConversionFails, Inv
    <3> QED
      BY <1>1, <3>1 DEF ResultsProgress, threadVars
  <2> QED BY <2>2, <2>3
<1> QED BY <1>2, <1>3, <1>4

LEMMA ShutdownKeepsTalk ==
  ASSUME TalkInv, SpinEnds \/ DestroyNode \/ UNCHANGED temporalVars
  PROVE  TalkInv'
<1> USE DEF TalkInv
<1>1. UNCHANGED <<workerVars, threadVars, sequence, pending>>
  BY DEF SpinEnds, DestroyNode, temporalVars, nodeVars, threadVars
<1>2. TalkTypeOK' /\ WorkerHolds' /\ NodeHolds' /\ ResultsProgress'
  BY <1>1 DEF TalkTypeOK, WorkerHolds, NodeHolds, ResultsProgress, workerVars, threadVars
<1>3. CallProgress'
  BY <1>1 DEF CallProgress, Clean, Asking, Answered, Serves, workerVars, threadVars
<1> QED BY <1>2, <1>3

(* Between two calls nothing is said.                                        *)
LEMMA ThreadMoves ==
  ASSUME TalkInv, Inv, TakeWindow \/ ThreadReturns \/ ConnectFails \/ Publish \/ ThreadLeaves
  PROVE  TalkInv'
<1> USE DEF TalkInv
<1>1. /\ UNCHANGED <<workerVars, sock, requestId, sequence>>
      /\ npc \in {"wait", "connect", "publish"}
      /\ npc' \in {"wait", "connect", "publish", "exited"}
  BY DEF TakeWindow, ThreadReturns, ConnectFails, Publish, ThreadLeaves, quietVars
<1>2. sequence \in Nat /\ published.n \in Nat /\ published.n <= sequence
  BY DEF Inv, WindowTypeOK, TalkTypeOK, ResultsProgress
<1>3. published' \in [n : Nat, ok : BOOLEAN] /\ outcome' \in {Failed} \cup Answers
  <2>1. CASE Publish
    <3>1. LastOf(window).n \in Nat
      BY <1>2, <2>1 DEF Publish, ResultsProgress
    <3>2. outcome.ok \in BOOLEAN
      <4>1. Failed.ok = FALSE /\ \A a \in Answers : a.ok \in BOOLEAN
        BY DEF Failed, Answers
      <4> QED BY <4>1 DEF TalkTypeOK
    <3> QED BY <2>1, <3>1, <3>2 DEF Publish
  <2>2. CASE TakeWindow \/ ThreadReturns \/ ConnectFails \/ ThreadLeaves
    BY <2>2 DEF TakeWindow, ThreadReturns, ConnectFails, ThreadLeaves, quietVars, TalkTypeOK
  <2> QED BY <2>1, <2>2
<1>4. TalkTypeOK' /\ WorkerHolds' /\ NodeHolds'
  BY <1>1, <1>3 DEF TalkTypeOK, WorkerHolds, NodeHolds, workerVars
<1>5. CallProgress'
  <2>1. /\ Clean => Clean'
        /\ Serves => Serves'
    BY <1>1 DEF Clean, Serves, workerVars
  <2> QED
    BY <1>1, <2>1 DEF CallProgress
<1>6. ResultsProgress'
  <2>1. CASE TakeWindow
    <3>1. /\ npc' = "connect" /\ window' = pending /\ pending' = << >> /\ published' = published
          /\ pending # << >>
      BY <2>1 DEF TakeWindow
    <3>2. LastOf(pending).n = sequence
      BY <3>1 DEF Inv, WindowIsOneStream, BufferEndsNow
    <3> QED
      BY <1>1, <1>2, <3>1, <3>2 DEF ResultsProgress, LastOf
  <2>2. CASE Publish
    <3>1. /\ npc = "publish" /\ npc' = "wait" /\ window' = << >> /\ pending' = pending
          /\ published'.n = LastOf(window).n
      BY <2>2 DEF Publish
    <3> QED
      BY <1>1, <1>2, <3>1 DEF ResultsProgress
  <2>3. CASE ThreadReturns \/ ThreadLeaves
    BY <1>1, <2>3 DEF ResultsProgress, ThreadReturns, ThreadLeaves, quietVars
  <2>4. CASE ConnectFails
    BY <1>1, <2>4 DEF ResultsProgress, ConnectFails, quietVars, Failed
  <2> QED BY <2>1, <2>2, <2>3, <2>4
<1> QED BY <1>4, <1>5, <1>6

LEMMA ConnectKeepsTalk ==
  ASSUME TalkInv, Connect
  PROVE  TalkInv'
<1> USE DEF TalkInv
<1>1. PICK k \in Conns :
        /\ conns[k] = Free
        /\ conns' = [conns EXCEPT ![k].open = TRUE, ![k].held = TRUE]
        /\ queue' = Append(queue, k) /\ sock' = k
  BY DEF Connect
<1>2. /\ npc = "connect" /\ sock = NoConn /\ worker \notin {"down", "loading"}
      /\ UNCHANGED <<worker, serving, npc, requestId, window, outcome, published, sequence,
                     pending>>
  BY DEF Connect, Listening, quietVars
<1>3. /\ conns' = [conns EXCEPT ![k] = [@ EXCEPT !.open = TRUE, !.held = TRUE]]
      /\ conns[k] \in Connection
  BY <1>1 DEF TalkTypeOK
<1>4. /\ conns'[k].open /\ conns'[k].held
      /\ conns'[k].request = None /\ ~conns'[k].whole /\ conns'[k].answer = None
      /\ \A j \in Conns : j # k => conns'[j] = conns[j]
      /\ ~conns[k].held
      /\ conns' \in [Conns -> Connection]
  BY <1>1, <1>3, FreeIsConnection DEF TalkTypeOK, Connection
<1>5. /\ Len(queue) \in Nat /\ Len(queue') = Len(queue) + 1
      /\ \A i \in 1..Len(queue) : queue'[i] = queue[i] /\ queue[i] \in Conns /\ queue[i] # k
      /\ queue'[Len(queue) + 1] = k
      /\ k # serving
      /\ queue' \in Seq(Conns)
  BY <1>1, <1>4, AppendProperties, LenProperties, WorkerAssumption DEF TalkTypeOK, WorkerHolds
<1>6. TalkTypeOK'
  BY <1>1, <1>2, <1>4, <1>5 DEF TalkTypeOK
<1>7. WorkerHolds'
  <2>1. \A i \in 1..Len(queue') : i = Len(queue) + 1 \/ i \in 1..Len(queue)
    BY <1>5
  <2>2. ASSUME NEW i \in 1..Len(queue')
        PROVE  conns'[queue'[i]].held /\ queue'[i] # serving
    <3>1. CASE i = Len(queue) + 1
      BY <1>4, <1>5, <3>1
    <3>2. CASE i \in 1..Len(queue)
      BY <1>4, <1>5, <3>2 DEF WorkerHolds
    <3> QED BY <2>1, <3>1, <3>2
  <2>3. \A i, j \in 1..Len(queue') : queue'[i] = queue'[j] => i = j
    BY <1>5, <2>1 DEF WorkerHolds
  <2>4. serving # NoConn => conns'[serving].held
    BY <1>4, <1>5 DEF WorkerHolds, TalkTypeOK
  <2> QED
    BY <1>2, <2>2, <2>3, <2>4 DEF WorkerHolds
<1>8. NodeHolds'
  BY <1>1, <1>2, <1>4, WorkerAssumption DEF NodeHolds
<1>9. CallProgress'
  BY <1>1, <1>2, <1>4, <1>5 DEF CallProgress, Clean, Serves
<1>10. ResultsProgress'
  BY <1>2 DEF ResultsProgress
<1> QED BY <1>6, <1>7, <1>8, <1>9, <1>10

(* The steps that change what is in the node's connection.                   *)
LEMMA ContentChanges ==
  ASSUME TalkInv, UNCHANGED <<worker, serving, queue, sock>>, sock # NoConn,
         NEW c \in Connection, conns' = [conns EXCEPT ![sock] = c],
         c.open = conns[sock].open, c.held = conns[sock].held,
         npc' \in {"send", "await", "publish"}
  PROVE  /\ conns'[sock] = c /\ conns' \in [Conns -> Connection]
         /\ WorkerHolds' /\ NodeHolds'
<1> USE DEF TalkInv
<1>1. /\ sock \in Conns /\ conns'[sock] = c
      /\ \A k \in Conns : k # sock => conns'[k] = conns[k]
      /\ conns' \in [Conns -> Connection]
  BY DEF TalkTypeOK
<1>2. WorkerHolds'
  <2>1. \A i \in 1..Len(queue) : queue[i] \in Conns
    BY DEF TalkTypeOK
  <2> QED
    BY <1>1, <2>1 DEF WorkerHolds, TalkTypeOK
<1>3. NodeHolds'
  BY <1>1 DEF NodeHolds
<1> QED BY <1>1, <1>2, <1>3

LEMMA BeginSendKeeps ==
  ASSUME TalkInv, Inv, BeginSend
  PROVE  TalkInv'
<1> USE DEF TalkInv
<1> DEFINE r == [id |-> requestId + 1, window |-> window]
           c == [conns[sock] EXCEPT !.request = r]
<1>1. /\ UNCHANGED <<worker, serving, queue, sock, outcome, window, published, sequence, pending>>
      /\ npc = "connect" /\ npc' = "send" /\ requestId' = requestId + 1 /\ requestId \in Nat
      /\ sock # NoConn /\ sock \in Conns /\ conns[sock] \in Connection
      /\ conns' = [conns EXCEPT ![sock] = c]
      /\ window \in Seq(Sampled)
  BY DEF BeginSend, quietVars, TalkTypeOK, Inv, WindowTypeOK
<1>2. c \in Connection /\ c.open = conns[sock].open /\ c.held = conns[sock].held
  <2>1. r \in Requests
    BY <1>1 DEF Requests
  <2> QED BY <1>1, <2>1 DEF Connection
<1>3. c.request = r /\ c.whole = conns[sock].whole /\ c.answer = conns[sock].answer
  BY <1>1 DEF Connection
<1>4. Clean /\ Serves
  BY <1>1 DEF CallProgress
<1> HIDE DEF c
<1>5. conns'[sock] = c /\ conns' \in [Conns -> Connection] /\ WorkerHolds' /\ NodeHolds'
  BY <1>1, <1>2, ContentChanges
<1>6. TalkTypeOK'
  BY <1>1, <1>5 DEF TalkTypeOK
<1>7. CallProgress'
  BY <1>1, <1>3, <1>4, <1>5 DEF CallProgress, Asking, Serves, Clean
<1>8. ResultsProgress'
  BY <1>1 DEF ResultsProgress
<1> QED BY <1>5, <1>6, <1>7, <1>8

LEMMA FinishSendKeeps ==
  ASSUME TalkInv, FinishSend
  PROVE  TalkInv'
<1> USE DEF TalkInv
<1> DEFINE c == [conns[sock] EXCEPT !.whole = TRUE]
<1>1. /\ UNCHANGED <<worker, serving, queue, sock, requestId, outcome, window, published,
                     sequence, pending>>
      /\ npc = "send" /\ npc' = "await"
      /\ sock # NoConn /\ sock \in Conns /\ conns[sock] \in Connection
      /\ conns' = [conns EXCEPT ![sock] = c]
  BY DEF FinishSend, quietVars, TalkTypeOK, NodeHolds
<1>2. c \in Connection /\ c.open = conns[sock].open /\ c.held = conns[sock].held
  BY <1>1 DEF Connection
<1>3. c.whole = TRUE /\ c.request = conns[sock].request /\ c.answer = conns[sock].answer
  BY <1>1 DEF Connection
<1>4. requestId # 0 /\ Asking(FALSE)
  BY <1>1 DEF CallProgress
<1> HIDE DEF c
<1>5. conns'[sock] = c /\ conns' \in [Conns -> Connection] /\ WorkerHolds' /\ NodeHolds'
  BY <1>1, <1>2, ContentChanges
<1>6. TalkTypeOK'
  BY <1>1, <1>5 DEF TalkTypeOK
<1>7. CallProgress'
  BY <1>1, <1>3, <1>4, <1>5 DEF CallProgress, Asking
<1>8. ResultsProgress'
  BY <1>1 DEF ResultsProgress
<1> QED BY <1>5, <1>6, <1>7, <1>8

(* What is received is the answer to the window that was sent.               *)
LEMMA ReceiveKeeps ==
  ASSUME TalkInv, Receive
  PROVE  TalkInv'
<1> USE DEF TalkInv
<1> DEFINE c == [conns[sock] EXCEPT !.answer = None]
<1>1. /\ UNCHANGED <<worker, serving, queue, sock, requestId, window, published, sequence,
                     pending>>
      /\ npc = "await" /\ npc' = "publish" /\ outcome' = conns[sock].answer
      /\ conns[sock].answer # None
      /\ sock # NoConn /\ sock \in Conns /\ conns[sock] \in Connection
      /\ conns' = [conns EXCEPT ![sock] = c]
  BY DEF Receive, quietVars, TalkTypeOK, NodeHolds
<1>2. c \in Connection /\ c.open = conns[sock].open /\ c.held = conns[sock].held
  BY <1>1 DEF Connection
<1>3. c.answer = None /\ c.request = conns[sock].request /\ c.whole = conns[sock].whole
  BY <1>1 DEF Connection
<1>4. Answered /\ Serves
  BY <1>1 DEF CallProgress, Asking
<1> HIDE DEF c
<1>5. conns'[sock] = c /\ conns' \in [Conns -> Connection] /\ WorkerHolds' /\ NodeHolds'
  BY <1>1, <1>2, ContentChanges
<1>6. outcome' \in Answers /\ outcome'.window = window
  BY <1>1, <1>4 DEF Answered, Connection
<1>7. TalkTypeOK'
  BY <1>1, <1>5, <1>6 DEF TalkTypeOK
<1>8. CallProgress'
  BY <1>1, <1>3, <1>4, <1>5 DEF CallProgress, Clean, Answered, Serves
<1>9. ResultsProgress'
  BY <1>1, <1>6 DEF ResultsProgress
<1> QED BY <1>5, <1>7, <1>8, <1>9

(* The node closes its end: no connection is its own any more.               *)
LEMMA NodeCloses ==
  ASSUME TalkInv, TimeoutPasses \/ InferRaises \/ ProcessExits
  PROVE  TalkInv'
<1> USE DEF TalkInv
<1>1. /\ UNCHANGED <<worker, serving, queue, requestId, window, published, sequence, pending>>
      /\ sock' = NoConn
      /\ \/ npc' = "exited" /\ outcome' = outcome
         \/ npc' = "publish" /\ outcome' = Failed /\ npc \in {"send", "await"}
  <2>1. CASE TimeoutPasses \/ InferRaises
    BY <2>1 DEF TimeoutPasses, InferRaises, Abandon, quietVars
  <2>2. CASE ProcessExits
    BY <2>2 DEF ProcessExits
  <2> QED BY <2>1, <2>2
<1>2. \/ conns' = conns /\ sock = NoConn
      \/ conns' = [conns EXCEPT ![sock] = Closed(sock, "open")]
  BY DEF TimeoutPasses, InferRaises, Abandon, ProcessExits
<1>3. /\ conns' \in [Conns -> Connection]
      /\ \A k \in Conns : ~conns'[k].open /\ conns'[k].held = conns[k].held
  <2>1. CASE sock = NoConn
    <3>1. conns' = conns
      BY <1>2, <2>1, WorkerAssumption DEF TalkTypeOK
    <3> QED BY <2>1, <3>1, WorkerAssumption DEF TalkTypeOK, NodeHolds
  <2>2. CASE sock # NoConn
    <3>1. sock \in Conns /\ conns' = [conns EXCEPT ![sock] = Closed(sock, "open")]
      BY <1>2, <2>2 DEF TalkTypeOK
    <3>2. /\ Closed(sock, "open") \in Connection /\ ~Closed(sock, "open").open
          /\ Closed(sock, "open").held = conns[sock].held
      BY <3>1, ClosedEnds DEF TalkTypeOK
    <3> QED BY <3>1, <3>2 DEF TalkTypeOK, NodeHolds
  <2> QED BY <2>1, <2>2
<1>4. TalkTypeOK'
  BY <1>1, <1>3 DEF TalkTypeOK
<1>5. WorkerHolds'
  <2>1. \A i \in 1..Len(queue) : queue[i] \in Conns
    BY DEF TalkTypeOK
  <2> QED
    BY <1>1, <1>3, <2>1 DEF WorkerHolds, TalkTypeOK
<1>6. NodeHolds' /\ CallProgress'
  BY <1>1, <1>3, WorkerAssumption DEF NodeHolds, CallProgress
<1>7. ResultsProgress'
  BY <1>1 DEF ResultsProgress, Failed
<1> QED BY <1>4, <1>5, <1>6, <1>7

LEMMA NextTalk ==
  ASSUME TalkInv, Inv, [TemporalNext]_temporalVars
  PROVE  TalkInv'
<1>1. CASE \E stamp \in Stamps : ImageCallback(stamp) \/ ConversionFails(stamp)
  BY <1>1, CallbackKeepsTalk
<1>2. CASE ThreadStep
  BY <1>2, ThreadMoves, ConnectKeepsTalk, BeginSendKeeps, FinishSendKeeps, ReceiveKeeps,
     NodeCloses
  DEF ThreadStep
<1>3. CASE SpinEnds \/ DestroyNode \/ UNCHANGED temporalVars
  BY <1>3, ShutdownKeepsTalk
<1>4. CASE ProcessExits
  BY <1>4, NodeCloses
<1>5. CASE WorkerNext /\ UNCHANGED nodeVars
  BY <1>5, WorkerKeepsTalk
<1> QED
  BY <1>1, <1>2, <1>3, <1>4, <1>5 DEF TemporalNext

(* The node and the worker agree on what their connection carries, and the   *)
(* windows follow one another, whatever becomes of either.                   *)
THEOREM TalkInvHolds == TemporalSpec => [](Inv /\ TalkInv)
<1>1. TemporalInit => Inv /\ TalkInv
  BY InitInv, TalkInit
<1>2. Inv /\ TalkInv /\ [TemporalNext]_temporalVars => Inv' /\ TalkInv'
  BY NextInv, NextTalk
<1> QED
  BY <1>1, <1>2, PTL DEF TemporalSpec

(* A connection that the node keeps has nothing in it when the next request  *)
(* begins (IpcClient.infer, serve).                                          *)
THEOREM IdleConnectionIsCleanHolds == TemporalSpec => []IdleConnectionIsClean
<1>1. TalkInv => IdleConnectionIsClean
  BY DEF TalkInv, CallProgress, Clean, IdleConnectionIsClean
<1> QED
  BY <1>1, TalkInvHolds, PTL

(* Results come in the order of their windows, one for a window at most, and *)
(* a text is what the worker said of that very window (_worker_loop).        *)
THEOREM ResultsFollowWindowsHold == TemporalSpec => ResultsFollowWindows
<1>1. ASSUME TalkInv, [TemporalNext]_temporalVars, published' # published
      PROVE  published'.n > published.n /\ (published'.ok => outcome.window = window)
  <2>1. Publish
    BY <1>1 DEF TemporalNext, ImageCallback, ConversionFails, ThreadStep, TakeWindow,
      ThreadReturns, Connect, ConnectFails, BeginSend, FinishSend, Receive, TimeoutPasses,
      InferRaises, Abandon, ThreadLeaves, SpinEnds, DestroyNode, ProcessExits, threadVars,
      quietVars, nodeVars, temporalVars
  <2>2. /\ npc = "publish" /\ published' = [n |-> LastOf(window).n, ok |-> outcome.ok]
    BY <2>1 DEF Publish
  <2>3. LastOf(window).n \in (published.n + 1)..sequence /\ published.n \in Nat
    BY <1>1, <2>2 DEF TalkInv, TalkTypeOK, ResultsProgress
  <2>4. outcome.ok => outcome.window = window
    BY <1>1, <2>2 DEF TalkInv, ResultsProgress
  <2> QED BY <2>2, <2>3, <2>4
<1> QED
  BY <1>1, TalkInvHolds, PTL DEF TemporalSpec, ResultsFollowWindows
=============================================================================
