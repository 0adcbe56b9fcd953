------------------------ MODULE InferenceServiceProofs ------------------------
(***************************************************************************)
(* What a connection between a client and the inference service carries,   *)
(* for any number of clients, connections, requests and faults.            *)
(***************************************************************************)
EXTENDS InferenceService, SequenceTheorems, TLAPS

Connection ==
  [toServer : {"empty", "part", "full"}, id : Nat, reply : Nat,
   clientOpen : BOOLEAN, serverOpen : BOOLEAN]

ConnectionsTypeOK ==
  /\ server \in {"down", "loading", "accepting", "awaiting", "receiving", "inferring",
                 "responding"}
  /\ serving \in Conns \cup {NoConn}
  /\ reqId \in Nat
  /\ stopping \in BOOLEAN
  /\ backlog \in Seq(Conns)
  /\ phase \in [Clients -> {"idle", "connecting", "ready", "sending", "waiting"}]
  /\ conn \in [Clients -> Conns \cup {NoConn}]
  /\ lastId \in [Clients -> Nat]
  /\ conns \in [Conns -> Connection]

(* A client has a connection of its own while a call needs one.              *)
ClientsHold ==
  /\ \A c \in Clients :
       /\ phase[c] \in {"ready", "sending", "waiting"} => conn[c] # NoConn
       /\ phase[c] = "connecting" => conn[c] = NoConn
       /\ conn[c] # NoConn => conns[conn[c]].clientOpen
  /\ \A c, d \in Clients : conn[c] # NoConn /\ conn[c] = conn[d] => c = d

(* The server serves one of the connections it holds, and it holds those     *)
(* that wait, each once.                                                     *)
ServerHolds ==
  /\ server \in {"down", "loading", "accepting"} => serving = NoConn
  /\ server \in {"awaiting", "receiving", "inferring", "responding"} /\ ~stopping =>
       serving # NoConn
  /\ stopping => serving = NoConn /\ backlog = << >>
  /\ serving # NoConn => conns[serving].serverOpen
  /\ \A i \in 1..Len(backlog) : conns[backlog[i]].serverOpen /\ backlog[i] # serving
  /\ \A i, j \in 1..Len(backlog) : backlog[i] = backlog[j] => i = j

(* How far a call has come, told by its connection and by the server.        *)
Serves(k, places) == serving = k => server \in places

BetweenCalls(k) ==
  conns[k].toServer = "empty" /\ conns[k].reply = 0 /\ Serves(k, {"awaiting"})

Sending(k, id) ==
  /\ conns[k].reply = 0
  /\ conns[k].serverOpen => conns[k].toServer = "part" /\ conns[k].id = id
  /\ ~conns[k].serverOpen => conns[k].toServer = "empty"
  /\ Serves(k, {"awaiting", "receiving"})
  /\ serving = k /\ server = "receiving" => reqId = id

Sent(k, id) ==
  /\ conns[k].toServer = "full" /\ conns[k].id = id /\ conns[k].reply = 0
  /\ Serves(k, {"awaiting", "receiving"})
  /\ serving = k /\ server = "receiving" => reqId = id

Taken(k, id) ==
  /\ conns[k].toServer = "empty"
  /\ \/ conns[k].reply \in {0, id} /\ Serves(k, {"awaiting"})
     \/ conns[k].reply = 0 /\ Serves(k, {"inferring", "responding"}) /\ reqId = id

CallsProgress ==
  \A c \in Clients :
    /\ phase[c] = "idle" /\ conn[c] # NoConn => BetweenCalls(conn[c])
    /\ phase[c] = "ready" => BetweenCalls(conn[c])
    /\ phase[c] = "sending" => Sending(conn[c], lastId[c])
    /\ phase[c] = "waiting" => Sent(conn[c], lastId[c]) \/ Taken(conn[c], lastId[c])

ConnectionsInv == ConnectionsTypeOK /\ ClientsHold /\ ServerHolds /\ CallsProgress

-----------------------------------------------------------------------------
(* The steps of the server.                                                  *)

LEMMA ServiceInitInv == ServiceInit => ConnectionsInv
<1> SUFFICES ASSUME ServiceInit PROVE ConnectionsInv
  OBVIOUS
<1>1. ConnectionsTypeOK
  BY EmptySeq DEF ServiceInit, ConnectionsTypeOK, Connection, Free
<1>2. ClientsHold
  BY DEF ServiceInit, ClientsHold
<1>3. ServerHolds
  BY ServiceAssumption DEF ServiceInit, ServerHolds
<1>4. CallsProgress
  BY DEF ServiceInit, CallsProgress
<1> QED BY <1>1, <1>2, <1>3, <1>4 DEF ConnectionsInv

(* When the server closes all its descriptors, what it holds is gone, and a  *)
(* client's call is wherever it was, on a connection that has one end left.  *)
LEMMA ServerClosesAll ==
  ASSUME ConnectionsInv, conns' = ServerEndsClosed, serving' = NoConn, backlog' = << >>,
         UNCHANGED clientVars, server' \in {"down", server}, reqId' \in {0, reqId},
         stopping' \in BOOLEAN,
         server' = "down" \/ stopping'
  PROVE  ConnectionsInv'
<1> USE DEF ConnectionsInv
<1>1. ConnectionsTypeOK'
  <2>1. ASSUME NEW k \in Conns PROVE ServerEndsClosed[k] \in Connection
    BY ZenonT(30) DEF ConnectionsTypeOK, Connection, ServerEndsClosed, Free
  <2>2. ServerEndsClosed \in [Conns -> Connection]
    BY <2>1 DEF ServerEndsClosed
  <2> QED
    BY <2>2, EmptySeq DEF ConnectionsTypeOK, clientVars
<1>2. \A k \in Conns :
        /\ conns'[k].clientOpen = conns[k].clientOpen
        /\ conns[k].clientOpen => /\ conns'[k].toServer = "empty"
                                  /\ conns'[k].reply = conns[k].reply
                                  /\ ~conns'[k].serverOpen
  BY DEF ConnectionsTypeOK, Connection, ServerEndsClosed, Free
<1>3. ClientsHold'
  BY <1>2 DEF ConnectionsTypeOK, ClientsHold, clientVars
<1>4. ServerHolds'
  BY DEF ServerHolds, ConnectionsTypeOK
<1>5. CallsProgress'
  <2> SUFFICES ASSUME NEW c \in Clients, conn[c] # NoConn
               PROVE  LET k == conn[c]  id == lastId[c]
                      IN /\ BetweenCalls(k) => BetweenCalls(k)'
                         /\ Sending(k, id) => Sending(k, id)'
                         /\ Sent(k, id) => Taken(k, id)'
                         /\ Taken(k, id) => Taken(k, id)'
    BY DEF CallsProgress, ClientsHold, clientVars
  <2>1. conn[c] \in Conns /\ conns[conn[c]].clientOpen
    BY DEF ClientsHold, ConnectionsTypeOK
  <2> QED
    BY <1>2, <2>1 DEF BetweenCalls, Sending, Sent, Taken, Serves, clientVars
<1> QED BY <1>1, <1>3, <1>4, <1>5

(* Steps that leave the connections, what waits for the server and what it   *)
(* serves alone.                                                             *)
LEMMA ServerMoves ==
  ASSUME ConnectionsInv, Start \/ Loaded \/ InferenceEnds \/ ReadHeader
  PROVE  ConnectionsInv'
<1> USE DEF ConnectionsInv
<1>1. UNCHANGED <<serving, stopping, backlog, clientVars, conns>>
  BY DEF Start, Loaded, InferenceEnds, ReadHeader
<1>2. ConnectionsTypeOK'
  <2>1. ReadHeader => serving \in Conns
    BY DEF ReadHeader, ServerHolds, ConnectionsTypeOK
  <2> QED
    BY <1>1, <2>1 DEF Start, Loaded, InferenceEnds, ReadHeader, ConnectionsTypeOK, Connection,
                      clientVars
<1>3. ClientsHold'
  BY <1>1 DEF ClientsHold, clientVars
<1>4. ServerHolds'
  BY <1>1 DEF Start, Loaded, InferenceEnds, ReadHeader, ServerHolds
<1>5. CallsProgress'
  <2>1. serving \in Conns => serving # NoConn
    BY ServiceAssumption
  <2> SUFFICES ASSUME NEW c \in Clients, conn[c] # NoConn
               PROVE  LET k == conn[c]  id == lastId[c]
                      IN /\ BetweenCalls(k) => BetweenCalls(k)'
                         /\ Sending(k, id) => Sending(k, id)'
                         /\ Sent(k, id) => Sent(k, id)'
                         /\ Taken(k, id) => Taken(k, id)'
    BY <1>1 DEF CallsProgress, ClientsHold, clientVars
  <2>2. CASE Start \/ Loaded
    <3>1. serving = NoConn
      BY <2>2 DEF Start, Loaded, ServerHolds
    <3> QED
      BY <1>1, <3>1 DEF BetweenCalls, Sending, Sent, Taken, Serves, clientVars
  <2>3. CASE InferenceEnds
    BY <1>1, <2>3 DEF InferenceEnds, BetweenCalls, Sending, Sent, Taken, Serves, clientVars
  <2>4. CASE ReadHeader
    BY <1>1, <2>4 DEF ReadHeader, BetweenCalls, Sending, Sent, Taken, Serves, ServerHolds,
                      clientVars
  <2> QED BY <2>2, <2>3, <2>4
<1> QED BY <1>2, <1>3, <1>4, <1>5

LEMMA AcceptKeeps ==
  ASSUME ConnectionsInv, Accept
  PROVE  ConnectionsInv'
<1> USE DEF ConnectionsInv
<1>1. /\ backlog # << >> /\ server = "accepting" /\ serving = NoConn /\ ~stopping
      /\ serving' = Head(backlog) /\ backlog' = Tail(backlog) /\ server' = "awaiting"
      /\ UNCHANGED <<reqId, stopping, clientVars, conns>>
  BY DEF Accept, ServerHolds, ConnectionsTypeOK
<1>2. /\ backlog \in Seq(Conns)
      /\ Head(backlog) = backlog[1] /\ 1 \in 1..Len(backlog) /\ backlog[1] \in Conns
      /\ Tail(backlog) \in Seq(Conns) /\ Len(Tail(backlog)) = Len(backlog) - 1
      /\ Len(backlog) \in Nat
      /\ \A i \in 1..Len(Tail(backlog)) :
           /\ Tail(backlog)[i] = backlog[i + 1]
           /\ i + 1 \in 1..Len(backlog) /\ i + 1 # 1
  BY <1>1, HeadTailProperties, LenProperties DEF ConnectionsTypeOK
<1>3. ConnectionsTypeOK'
  BY <1>1, <1>2 DEF ConnectionsTypeOK, clientVars
<1>4. ClientsHold'
  BY <1>1 DEF ClientsHold, clientVars
<1>5. ServerHolds'
  BY <1>1, <1>2, ServiceAssumption DEF ServerHolds
<1>6. CallsProgress'
  BY <1>1 DEF CallsProgress, BetweenCalls, Sending, Sent, Taken, Serves, clientVars
<1> QED BY <1>3, <1>4, <1>5, <1>6

(* The steps that change the connection the server works on.                 *)
LEMMA ServerServes ==
  ASSUME ConnectionsInv, ClientGone \/ ReadPayload \/ Respond
  PROVE  ConnectionsInv'
<1> USE DEF ConnectionsInv
<1>1. /\ serving \in Conns /\ serving # NoConn
      /\ conns[serving] \in Connection /\ conns[serving].serverOpen
      /\ ~stopping /\ UNCHANGED <<reqId, stopping, backlog, clientVars>>
  BY DEF ClientGone, ReadPayload, Respond, ServerHolds, ConnectionsTypeOK
<1>2. \A k \in Conns : k # serving => conns'[k] = conns[k]
  BY DEF ClientGone, ReadPayload, Respond, ServerEndClosed, ConnectionsTypeOK
<1>3. CASE ClientGone
  <2>1. /\ server' = "accepting" /\ serving' = NoConn
        /\ ~conns[serving].clientOpen /\ conns'[serving] = Free
    BY <1>1, <1>3 DEF ClientGone, ServerEndClosed, ConnectionsTypeOK
  <2>2. ConnectionsTypeOK'
    BY <1>1, <1>3, <2>1 DEF ClientGone, ConnectionsTypeOK, Connection, ServerEndClosed, Free,
                            clientVars
  <2>3. \A c \in Clients : conn[c] # NoConn => conn[c] # serving /\ conn[c] \in Conns
    BY <1>1, <2>1 DEF ClientsHold, ConnectionsTypeOK
  <2>4. ClientsHold'
    BY <1>1, <1>2, <2>3 DEF ClientsHold, clientVars
  <2>5. ServerHolds'
    <3>1. \A i \in 1..Len(backlog) : backlog[i] \in Conns
      BY DEF ConnectionsTypeOK
    <3> QED
      BY <1>1, <1>2, <2>1, <3>1, ServiceAssumption DEF ServerHolds
  <2>6. CallsProgress'
    <3> SUFFICES ASSUME NEW c \in Clients, conn[c] # NoConn
                 PROVE  LET k == conn[c]  id == lastId[c]
                        IN /\ BetweenCalls(k) => BetweenCalls(k)'
                           /\ Sending(k, id) => Sending(k, id)'
                           /\ Sent(k, id) => Sent(k, id)'
                           /\ Taken(k, id) => Taken(k, id)'
      BY <1>1 DEF CallsProgress, ClientsHold, clientVars
    <3> QED
      BY <1>1, <1>2, <2>1, <2>3 DEF BetweenCalls, Sending, Sent, Taken, Serves, clientVars
  <2> QED BY <2>2, <2>4, <2>5, <2>6
<1>4. CASE ReadPayload \/ Respond
  <2>1. /\ UNCHANGED serving
        /\ conns'[serving].clientOpen = conns[serving].clientOpen
        /\ conns'[serving].serverOpen
    <3>1. CASE ReadPayload
      BY <1>1, <3>1 DEF ReadPayload, ConnectionsTypeOK, Connection
    <3>2. CASE Respond
      BY <1>1, <3>2 DEF Respond, ConnectionsTypeOK, Connection
    <3> QED BY <1>4, <3>1, <3>2
  <2>2. ConnectionsTypeOK'
    <3>1. CASE ReadPayload
      <4>1. conns' = [conns EXCEPT ![serving] = [@ EXCEPT !.toServer = "empty"]]
        BY <3>1 DEF ReadPayload
      <4>2. conns' \in [Conns -> Connection]
        BY <1>1, <4>1 DEF ConnectionsTypeOK, Connection
      <4> QED BY <1>1, <3>1, <4>2 DEF ReadPayload, ConnectionsTypeOK, clientVars
    <3>2. CASE Respond
      <4>1. conns' = [conns EXCEPT ![serving] = [@ EXCEPT !.reply = reqId]]
        BY <3>2 DEF Respond
      <4>2. conns' \in [Conns -> Connection]
        BY <1>1, <4>1 DEF ConnectionsTypeOK, Connection
      <4> QED BY <1>1, <3>2, <4>2 DEF Respond, ConnectionsTypeOK, clientVars
    <3> QED BY <1>4, <3>1, <3>2
  <2>3. ClientsHold'
    BY <1>1, <1>2, <2>1 DEF ClientsHold, ConnectionsTypeOK, clientVars
  <2>4. ServerHolds'
    <3>1. \A i \in 1..Len(backlog) : backlog[i] \in Conns
      BY DEF ConnectionsTypeOK
    <3> QED
      BY <1>1, <1>2, <1>4, <2>1, <3>1 DEF ReadPayload, Respond, ServerHolds
  <2>5. CallsProgress'
    <3> SUFFICES ASSUME NEW c \in Clients, conn[c] # NoConn
                 PROVE  LET k == conn[c]  id == lastId[c]
                        IN /\ BetweenCalls(k) => BetweenCalls(k)'
                           /\ Sending(k, id) => Sending(k, id)'
                           /\ Sent(k, id) => (Sent(k, id)' \/ Taken(k, id)')
                           /\ Taken(k, id) => Taken(k, id)'
      BY <1>1 DEF CallsProgress, ClientsHold, clientVars
    <3>1. conn[c] \in Conns
      BY DEF ConnectionsTypeOK
    <3>2. CASE conn[c] # serving
      BY <1>1, <1>2, <1>4, <2>1, <3>1, <3>2
      DEF BetweenCalls, Sending, Sent, Taken, Serves, clientVars
    <3>3. CASE conn[c] = serving /\ ReadPayload
      <4>1. /\ conns[serving].toServer = "full" /\ conns'[serving].toServer = "empty"
            /\ conns'[serving].reply = conns[serving].reply
            /\ server = "receiving" /\ server' = "inferring"
        BY <1>1, <3>3 DEF ReadPayload, ConnectionsTypeOK, Connection
      <4> QED
        BY <1>1, <2>1, <3>3, <4>1 DEF BetweenCalls, Sending, Sent, Taken, Serves, clientVars
    <3>4. CASE conn[c] = serving /\ Respond
      <4>1. /\ conns'[serving].toServer = conns[serving].toServer
            /\ conns'[serving].reply = reqId
            /\ server = "responding" /\ server' = "awaiting"
        BY <1>1, <3>4 DEF Respond, ConnectionsTypeOK, Connection
      <4> QED
        BY <1>1, <2>1, <3>4, <4>1 DEF BetweenCalls, Sending, Sent, Taken, Serves, clientVars
    <3> QED BY <1>4, <3>2, <3>3, <3>4
  <2> QED BY <2>2, <2>3, <2>4, <2>5
<1> QED BY <1>3, <1>4

LEMMA ServerStepInv ==
  ASSUME ConnectionsInv, ServerStep \/ LoadFails \/ Signal
  PROVE  ConnectionsInv'
<1>1. CASE Start \/ Loaded \/ InferenceEnds \/ ReadHeader
  BY <1>1, ServerMoves
<1>2. CASE Accept
  BY <1>2, AcceptKeeps
<1>3. CASE ClientGone \/ ReadPayload \/ Respond
  BY <1>3, ServerServes
<1>4. ASSUME NEW why, ProcessEnds(why) PROVE ConnectionsInv'
  <2>1. /\ conns' = ServerEndsClosed /\ serving' = NoConn /\ backlog' = << >>
        /\ UNCHANGED clientVars /\ server' = "down" /\ reqId' = 0 /\ stopping' = FALSE
    BY <1>4 DEF ProcessEnds
  <2> QED BY <2>1, ServerClosesAll
<1>5. CASE LoadFails \/ Watchdog \/ PayloadTruncated \/ RespondFails \/ StopsBetweenRequests
           \/ StopsInRequest
  BY <1>4, <1>5 DEF LoadFails, Watchdog, PayloadTruncated, RespondFails,
                    StopsBetweenRequests, StopsInRequest
<1>6. CASE Signal
  <2>1. /\ conns' = ServerEndsClosed /\ serving' = NoConn /\ backlog' = << >>
        /\ UNCHANGED clientVars /\ UNCHANGED <<server, reqId>> /\ stopping' = TRUE
    BY <1>6 DEF Signal
  <2> QED BY <2>1, ServerClosesAll
<1> QED BY <1>1, <1>2, <1>3, <1>5, <1>6 DEF ServerStep

-----------------------------------------------------------------------------
(* The steps of a client.  Those of the others' connections stay as they are *)
(* because no two clients share one.                                         *)

LEMMA ClientCloses ==
  ASSUME ConnectionsInv, NEW c \in Clients, conn[c] # NoConn,
         conn' = [conn EXCEPT ![c] = NoConn], conns' = ClientEndClosed(conn[c]),
         phase' = [phase EXCEPT ![c] = "idle"],
         lastId' \in {lastId, [lastId EXCEPT ![c] = 0]},
         UNCHANGED serverVars
  PROVE  ConnectionsInv'
<1> USE DEF ConnectionsInv
<1>1. PICK k \in Conns : k = conn[c] /\ conns[k] \in Connection /\ conns[k].clientOpen
  BY DEF ConnectionsTypeOK, ClientsHold
<1>2. /\ conns' = [conns EXCEPT ![k] = conns'[k]] /\ conns'[k] \in Connection
      /\ \A j \in Conns : j # k => conns'[j] = conns[j]
      /\ conns'[k].serverOpen = conns[k].serverOpen
  BY <1>1 DEF ConnectionsTypeOK, Connection, ClientEndClosed, Free
<1>3. ConnectionsTypeOK'
  <2>1. conns' \in [Conns -> Connection]
    BY <1>2 DEF ConnectionsTypeOK
  <2>2. lastId' \in [Clients -> Nat]
    <3>1. lastId \in [Clients -> Nat] /\ [lastId EXCEPT ![c] = 0] \in [Clients -> Nat]
      BY DEF ConnectionsTypeOK
    <3> QED BY <3>1
  <2> QED
    BY <2>1, <2>2 DEF ConnectionsTypeOK, serverVars
<1>4. \A d \in Clients : d # c /\ conn[d] # NoConn => conn[d] \in Conns /\ conn[d] # k
  BY <1>1 DEF ConnectionsTypeOK, ClientsHold
<1>5. \A d \in Clients : d # c => conn'[d] = conn[d] /\ phase'[d] = phase[d]
                                  /\ lastId'[d] = lastId[d]
  BY DEF ConnectionsTypeOK
<1>6. conn'[c] = NoConn /\ phase'[c] = "idle"
  BY DEF ConnectionsTypeOK
<1>7. ClientsHold'
  BY <1>2, <1>4, <1>5, <1>6 DEF ClientsHold
<1>8. ServerHolds'
  <2>1. \A i \in 1..Len(backlog) : backlog[i] \in Conns
    BY DEF ConnectionsTypeOK
  <2> QED
    BY <1>1, <1>2, <2>1 DEF ServerHolds, ConnectionsTypeOK, serverVars
<1>9. CallsProgress'
  <2> SUFFICES ASSUME NEW d \in Clients, d # c, conn[d] # NoConn
               PROVE  LET j == conn[d]  id == lastId[d]
                      IN /\ BetweenCalls(j) => BetweenCalls(j)'
                         /\ Sending(j, id) => Sending(j, id)'
                         /\ Sent(j, id) => Sent(j, id)'
                         /\ Taken(j, id) => Taken(j, id)'
    BY <1>5, <1>6 DEF CallsProgress, ClientsHold
  <2> QED
    BY <1>2, <1>4, <1>5 DEF BetweenCalls, Sending, Sent, Taken, Serves, serverVars
<1> QED BY <1>3, <1>7, <1>8, <1>9

(* A call begins or ends where the connection, if any, stays.                *)
LEMMA ClientMoves ==
  ASSUME ConnectionsInv, NEW c \in Clients,
         \/ Call(c) \/ Reject(c) \/ ConnectTimesOut(c)
         \/ Exit(c) /\ conn[c] = NoConn
  PROVE  ConnectionsInv'
<1> USE DEF ConnectionsInv
<1>1. /\ UNCHANGED <<serverVars, conn, conns>>
      /\ \A d \in Clients : d # c => phase'[d] = phase[d] /\ lastId'[d] = lastId[d]
      /\ phase' \in [Clients -> {"idle", "connecting", "ready", "sending", "waiting"}]
      /\ lastId' \in [Clients -> Nat]
      /\ \/ phase'[c] \in {"idle", "connecting"} /\ conn[c] = NoConn
         \/ phase[c] \in {"idle", "ready"} /\ phase'[c] \in {"idle", "ready"} /\ conn[c] # NoConn
  <2>1. CASE Call(c)
    BY <2>1 DEF Call, ConnectionsTypeOK
  <2>2. CASE Reject(c)
    BY <2>2 DEF Reject, Ended, ConnectionsTypeOK, ClientsHold
  <2>3. CASE ConnectTimesOut(c)
    BY <2>3 DEF ConnectTimesOut, Ended, ConnectionsTypeOK, ClientsHold
  <2>4. CASE Exit(c) /\ conn[c] = NoConn
    <3>1. UNCHANGED <<serverVars, conns>>
      BY <2>4 DEF Exit
    <3>2. UNCHANGED conn
      BY <2>4 DEF Exit, ConnectionsTypeOK
    <3> QED
      BY <2>4, <3>1, <3>2 DEF Exit, ConnectionsTypeOK
  <2> QED BY <2>1, <2>2, <2>3, <2>4
<1>2. ConnectionsTypeOK'
  BY <1>1 DEF ConnectionsTypeOK, serverVars
<1>3. ClientsHold'
  BY <1>1 DEF ClientsHold
<1>4. ServerHolds'
  BY <1>1 DEF ServerHolds, serverVars
<1>5. CallsProgress'
  <2> SUFFICES ASSUME NEW d \in Clients, conn[d] # NoConn
               PROVE  /\ phase'[d] \in {"idle", "ready"} => BetweenCalls(conn[d])
                      /\ phase'[d] = "sending" => Sending(conn[d], lastId[d])
                      /\ phase'[d] = "waiting" =>
                           Sent(conn[d], lastId[d]) \/ Taken(conn[d], lastId[d])
    BY <1>1, <1>3
    DEF CallsProgress, ClientsHold, BetweenCalls, Sending, Sent, Taken, Serves, serverVars
  <2> QED
    BY <1>1 DEF CallsProgress
<1> QED BY <1>2, <1>3, <1>4, <1>5

LEMMA ConnectKeeps ==
  ASSUME ConnectionsInv, NEW c \in Clients, Connect(c)
  PROVE  ConnectionsInv'
<1> USE DEF ConnectionsInv
<1>1. PICK k \in Conns :
        /\ conns[k] = Free
        /\ conns' = [conns EXCEPT ![k] = [Free EXCEPT !.clientOpen = TRUE, !.serverOpen = TRUE]]
        /\ conn' = [conn EXCEPT ![c] = k]
        /\ backlog' = Append(backlog, k)
  BY DEF Connect
<1>2. /\ phase[c] = "connecting" /\ ~stopping /\ server # "down"
      /\ phase' = [phase EXCEPT ![c] = "ready"]
      /\ UNCHANGED <<server, serving, reqId, stopping, lastId>>
      /\ conn[c] = NoConn
  BY DEF Connect, Listening, ClientsHold
<1>3. /\ conns'[k] = [Free EXCEPT !.clientOpen = TRUE, !.serverOpen = TRUE]
      /\ \A j \in Conns : j # k => conns'[j] = conns[j]
      /\ ~conns[k].clientOpen /\ ~conns[k].serverOpen
      /\ conns'[k].clientOpen /\ conns'[k].serverOpen
      /\ conns'[k].toServer = "empty" /\ conns'[k].reply = 0
  BY <1>1 DEF ConnectionsTypeOK, Free
<1>4. /\ conn'[c] = k /\ phase'[c] = "ready" /\ k # NoConn
      /\ \A d \in Clients : d # c => conn'[d] = conn[d] /\ phase'[d] = phase[d]
      /\ \A d \in Clients : conn[d] # NoConn => conn[d] \in Conns /\ conn[d] # k
  BY <1>1, <1>2, <1>3, ServiceAssumption DEF ConnectionsTypeOK, ClientsHold
<1>5. /\ Len(backlog) \in Nat /\ Len(backlog') = Len(backlog) + 1
      /\ \A i \in 1..Len(backlog) : backlog'[i] = backlog[i] /\ backlog[i] \in Conns
                                   /\ backlog[i] # k
      /\ backlog'[Len(backlog) + 1] = k
      /\ k # serving
  BY <1>1, <1>3, <1>4, AppendProperties, LenProperties DEF ConnectionsTypeOK, ServerHolds
<1>6. ConnectionsTypeOK'
  <2>1. backlog' \in Seq(Conns)
    BY <1>1, AppendProperties DEF ConnectionsTypeOK
  <2>2. conns' \in [Conns -> Connection]
    BY <1>1 DEF ConnectionsTypeOK, Connection, Free
  <2> QED
    BY <1>1, <1>2, <2>1, <2>2 DEF ConnectionsTypeOK
<1>7. ClientsHold'
  <2>1. ASSUME NEW d \in Clients, conn'[d] # NoConn PROVE conns'[conn'[d]].clientOpen
    <3>1. CASE d = c
      BY <1>3, <1>4, <3>1
    <3>2. CASE d # c
      BY <1>3, <1>4, <2>1, <3>2 DEF ClientsHold
    <3> QED BY <3>1, <3>2
  <2>2. \A d, e \in Clients : conn'[d] # NoConn /\ conn'[d] = conn'[e] => d = e
    BY <1>4 DEF ClientsHold
  <2>3. \A d \in Clients :
          /\ phase'[d] \in {"ready", "sending", "waiting"} => conn'[d] # NoConn
          /\ phase'[d] = "connecting" => conn'[d] = NoConn
    BY <1>4 DEF ClientsHold
  <2> QED BY <2>1, <2>2, <2>3 DEF ClientsHold
<1>8. ServerHolds'
  <2>1. \A i \in 1..Len(backlog') : i = Len(backlog) + 1 \/ i \in 1..Len(backlog)
    BY <1>5
  <2>2. serving # NoConn => serving \in Conns
    BY DEF ConnectionsTypeOK
  <2>3. ASSUME NEW i \in 1..Len(backlog')
        PROVE  conns'[backlog'[i]].serverOpen /\ backlog'[i] # serving
    <3>1. CASE i = Len(backlog) + 1
      BY <1>3, <1>5, <3>1
    <3>2. CASE i \in 1..Len(backlog)
      BY <1>3, <1>5, <3>2 DEF ServerHolds
    <3> QED BY <2>1, <3>1, <3>2
  <2>4. \A i, j \in 1..Len(backlog') : backlog'[i] = backlog'[j] => i = j
    BY <1>5, <2>1 DEF ServerHolds
  <2>5. serving # NoConn => conns'[serving].serverOpen
    BY <1>3, <1>5, <2>2 DEF ServerHolds
  <2> QED
    BY <1>2, <2>3, <2>4, <2>5 DEF ServerHolds
<1>9. CallsProgress'
  <2>1. BetweenCalls(k)'
    BY <1>2, <1>3, <1>5 DEF BetweenCalls, Serves
  <2> SUFFICES ASSUME NEW d \in Clients, d # c, conn[d] # NoConn
               PROVE  LET j == conn[d]  id == lastId[d]
                      IN /\ BetweenCalls(j) => BetweenCalls(j)'
                         /\ Sending(j, id) => Sending(j, id)'
                         /\ Sent(j, id) => Sent(j, id)'
                         /\ Taken(j, id) => Taken(j, id)'
    BY <1>2, <1>4, <2>1 DEF CallsProgress, ClientsHold, BetweenCalls, Serves
  <2> QED
    BY <1>2, <1>3, <1>4 DEF BetweenCalls, Sending, Sent, Taken, Serves
<1> QED BY <1>6, <1>7, <1>8, <1>9

LEMMA NextIdPositive ==
  ASSUME NEW id \in Nat
  PROVE  NextId(id) \in Nat /\ NextId(id) # 0
BY ServiceAssumption DEF NextId

(* The steps that change what the client's connection carries.               *)
LEMMA ClientTalks ==
  ASSUME ConnectionsInv, NEW c \in Clients,
         \/ SendHeader(c) \/ SendRest(c)
         \/ Receive(c) /\ conns[conn[c]].reply = lastId[c]
  PROVE  ConnectionsInv'
<1> USE DEF ConnectionsInv
<1>1. PICK k \in Conns : k = conn[c] /\ conns[k] \in Connection
  BY DEF SendHeader, SendRest, Receive, ConnectionsTypeOK, ClientsHold
<1>2. /\ UNCHANGED <<serverVars, conn>>
      /\ \A d \in Clients : d # c => phase'[d] = phase[d] /\ lastId'[d] = lastId[d]
      /\ phase' \in [Clients -> {"idle", "connecting", "ready", "sending", "waiting"}]
      /\ lastId' \in [Clients -> Nat]
      /\ phase[c] # "connecting" /\ phase'[c] # "connecting" /\ k # NoConn
  <2>1. k # NoConn
    BY ServiceAssumption
  <2>2. CASE SendHeader(c)
    <3>1. /\ UNCHANGED <<serverVars, conn>> /\ phase[c] = "ready"
          /\ phase' = [phase EXCEPT ![c] = "sending"]
          /\ lastId' = [lastId EXCEPT ![c] = NextId(lastId[c])]
      BY <2>2 DEF SendHeader
    <3>2. NextId(lastId[c]) \in Nat
      BY NextIdPositive DEF ConnectionsTypeOK
    <3> QED BY <2>1, <3>1, <3>2 DEF ConnectionsTypeOK
  <2>3. CASE SendRest(c)
    BY <2>1, <2>3 DEF SendRest, ConnectionsTypeOK
  <2>4. CASE Receive(c) /\ conns[conn[c]].reply = lastId[c]
    BY <2>1, <2>4 DEF Receive, Ended, ConnectionsTypeOK
  <2> QED BY <2>2, <2>3, <2>4
<1>3. /\ conns'[k] \in Connection /\ conns' = [conns EXCEPT ![k] = conns'[k]]
      /\ \A j \in Conns : j # k => conns'[j] = conns[j]
      /\ conns'[k].clientOpen = conns[k].clientOpen
      /\ conns'[k].serverOpen = conns[k].serverOpen
  <2>1. CASE SendHeader(c)
    <3>1. conns' = [conns EXCEPT ![k] = [@ EXCEPT !.toServer = "part", !.id = NextId(lastId[c])]]
      BY <1>1, <2>1 DEF SendHeader, ConnectionsTypeOK, Connection
    <3>2. NextId(lastId[c]) \in Nat
      BY NextIdPositive DEF ConnectionsTypeOK
    <3> QED BY <1>1, <3>1, <3>2 DEF ConnectionsTypeOK, Connection
  <2>2. CASE SendRest(c)
    <3>1. conns' = [conns EXCEPT ![k] = [@ EXCEPT !.toServer = "full"]]
      BY <1>1, <2>2 DEF SendRest, ConnectionsTypeOK
    <3> QED BY <1>1, <3>1 DEF ConnectionsTypeOK, Connection
  <2>3. CASE Receive(c) /\ conns[conn[c]].reply = lastId[c]
    <3>1. conns' = [conns EXCEPT ![k] = [@ EXCEPT !.reply = 0]]
      BY <1>1, <2>3 DEF Receive, ConnectionsTypeOK
    <3> QED BY <1>1, <3>1 DEF ConnectionsTypeOK, Connection
  <2> QED BY <2>1, <2>2, <2>3
<1>4. ConnectionsTypeOK'
  <2>1. conns' \in [Conns -> Connection]
    BY <1>3 DEF ConnectionsTypeOK
  <2> QED
    BY <1>2, <2>1 DEF ConnectionsTypeOK, serverVars
<1>5. ClientsHold'
  BY <1>1, <1>2, <1>3 DEF ClientsHold, ConnectionsTypeOK
<1>6. ServerHolds'
  <2>1. \A i \in 1..Len(backlog) : backlog[i] \in Conns
    BY DEF ConnectionsTypeOK
  <2> QED
    BY <1>2, <1>3, <2>1, ZenonT(30) DEF ServerHolds, ConnectionsTypeOK, serverVars
<1>7. CallsProgress'
  <2>1. \/ phase'[c] = "idle" /\ BetweenCalls(k)'
        \/ phase'[c] = "sending" /\ Sending(k, lastId[c])'
        \/ phase'[c] = "waiting" /\ Sent(k, lastId[c])'
    <3>1. CASE SendHeader(c)
      <4>1. /\ phase[c] = "ready" /\ phase'[c] = "sending" /\ conns[k].serverOpen
            /\ conns'[k].toServer = "part" /\ conns'[k].id = lastId'[c]
            /\ conns'[k].reply = conns[k].reply
        BY <1>1, <3>1 DEF SendHeader, ConnectionsTypeOK, Connection
      <4>2. BetweenCalls(k)
        BY <1>1, <4>1 DEF CallsProgress
      <4> QED
        BY <1>2, <1>3, <4>1, <4>2 DEF BetweenCalls, Sending, Serves, serverVars
    <3>2. CASE SendRest(c)
      <4>1. /\ phase[c] = "sending" /\ phase'[c] = "waiting" /\ conns[k].serverOpen
            /\ conns'[k].toServer = "full" /\ conns'[k].id = conns[k].id
            /\ conns'[k].reply = conns[k].reply /\ lastId'[c] = lastId[c]
        BY <1>1, <3>2 DEF SendRest, ConnectionsTypeOK, Connection
      <4>2. Sending(k, lastId[c])
        BY <1>1, <4>1 DEF CallsProgress
      <4> QED
        BY <1>2, <1>3, <4>1, <4>2 DEF Sending, Sent, Serves, serverVars
    <3>3. CASE Receive(c) /\ conns[conn[c]].reply = lastId[c]
      <4>1. /\ phase[c] = "waiting" /\ phase'[c] = "idle" /\ conns[k].reply # 0
            /\ conns'[k].toServer = conns[k].toServer /\ conns'[k].reply = 0
        BY <1>1, <3>3 DEF Receive, Ended, ConnectionsTypeOK, Connection
      <4>2. Sent(k, lastId[c]) \/ Taken(k, lastId[c])
        BY <1>1, <4>1 DEF CallsProgress
      <4> QED
        BY <1>2, <1>3, <4>1, <4>2 DEF BetweenCalls, Sent, Taken, Serves, serverVars
    <3> QED BY <3>1, <3>2, <3>3
  <2>2. ASSUME NEW d \in Clients, d # c, conn[d] # NoConn
        PROVE  LET j == conn[d]  id == lastId[d]
               IN /\ BetweenCalls(j) => BetweenCalls(j)'
                  /\ Sending(j, id) => Sending(j, id)'
                  /\ Sent(j, id) => Sent(j, id)'
                  /\ Taken(j, id) => Taken(j, id)'
    <3>1. conn[d] \in Conns /\ conn[d] # k
      BY <1>1, <2>2 DEF ClientsHold, ConnectionsTypeOK
    <3>2. /\ conns'[conn[d]] = conns[conn[d]] /\ conn'[d] = conn[d]
          /\ lastId'[d] = lastId[d]
      BY <1>2, <1>3, <2>2, <3>1
    <3>3. server' = server /\ serving' = serving /\ reqId' = reqId
      BY <1>2 DEF serverVars
    <3> QED
      BY <3>2, <3>3, Zenon DEF BetweenCalls, Sending, Sent, Taken, Serves
  <2>3. ASSUME NEW d \in Clients, d # c
        PROVE  /\ phase'[d] = phase[d] /\ conn'[d] = conn[d] /\ lastId'[d] = lastId[d]
               /\ phase[d] \in {"ready", "sending", "waiting"} => conn[d] # NoConn
    BY <1>2, <2>3 DEF ClientsHold
  <2>4. ASSUME NEW d \in Clients, d # c
        PROVE  /\ phase'[d] = "idle" /\ conn'[d] # NoConn => BetweenCalls(conn[d])'
               /\ phase'[d] = "ready" => BetweenCalls(conn[d])'
               /\ phase'[d] = "sending" => Sending(conn[d], lastId[d])'
               /\ phase'[d] = "waiting" =>
                    Sent(conn[d], lastId[d])' \/ Taken(conn[d], lastId[d])'
    <3>1. /\ phase[d] = "idle" /\ conn[d] # NoConn => BetweenCalls(conn[d])
          /\ phase[d] = "ready" => BetweenCalls(conn[d])
          /\ phase[d] = "sending" => Sending(conn[d], lastId[d])
          /\ phase[d] = "waiting" => Sent(conn[d], lastId[d]) \/ Taken(conn[d], lastId[d])
      BY DEF CallsProgress
    <3> QED
      BY <2>2, <2>3, <2>4, <3>1, SMTT(20)
  <2>5. conn'[c] = k
    BY <1>1, <1>2
  <2>6. /\ phase'[c] = "idle" /\ conn'[c] # NoConn => BetweenCalls(conn[c])'
        /\ phase'[c] = "ready" => BetweenCalls(conn[c])'
        /\ phase'[c] = "sending" => Sending(conn[c], lastId[c])'
        /\ phase'[c] = "waiting" => Sent(conn[c], lastId[c])' \/ Taken(conn[c], lastId[c])'
    BY <2>1, <2>5 DEF BetweenCalls, Sending, Sent, Serves
  <2> QED
    BY <2>4, <2>6, Zenon DEF CallsProgress
<1> QED BY <1>4, <1>5, <1>6, <1>7

LEMMA ClientStepInv ==
  ASSUME ConnectionsInv, NEW c \in Clients, Call(c) \/ CallStep(c) \/ Exit(c)
  PROVE  ConnectionsInv'
<1>1. CASE Connect(c)
  BY <1>1, ConnectKeeps
<1>2. CASE \/ SendHeader(c) \/ SendRest(c)
           \/ Receive(c) /\ conns[conn[c]].reply = lastId[c]
  BY <1>2, ClientTalks
<1>3. CASE \/ Call(c) \/ Reject(c) \/ ConnectTimesOut(c)
           \/ Exit(c) /\ conn[c] = NoConn
  BY <1>3, ClientMoves
<1>4. ASSUME ClosesAndThrows(c), phase[c] \in {"ready", "sending", "waiting"}
      PROVE  ConnectionsInv'
  <2>1. /\ conn[c] # NoConn /\ conn' = [conn EXCEPT ![c] = NoConn]
        /\ conns' = ClientEndClosed(conn[c]) /\ phase' = [phase EXCEPT ![c] = "idle"]
        /\ lastId' = lastId /\ UNCHANGED serverVars
    BY <1>4 DEF ClosesAndThrows, Ended, ConnectionsInv, ClientsHold
  <2> QED BY <2>1, ClientCloses
<1>5. CASE \/ SendFails(c) \/ SendTimesOut(c) \/ ReceiveEof(c) \/ ReceiveTimesOut(c)
           \/ Receive(c) /\ conns[conn[c]].reply # lastId[c]
  <2>1. ClosesAndThrows(c)
    BY <1>5 DEF SendFails, SendTimesOut, ReceiveEof, ReceiveTimesOut, Receive
  <2>2. phase[c] \in {"ready", "sending", "waiting"}
    BY <1>5 DEF SendFails, SendTimesOut, ReceiveEof, ReceiveTimesOut, Receive
  <2> QED BY <1>4, <2>1, <2>2
<1>6. CASE Exit(c) /\ conn[c] # NoConn
  <2>1. /\ conn' = [conn EXCEPT ![c] = NoConn]
        /\ conns' = ClientEndClosed(conn[c]) /\ phase' = [phase EXCEPT ![c] = "idle"]
        /\ lastId' = [lastId EXCEPT ![c] = 0] /\ UNCHANGED serverVars
    BY <1>6 DEF Exit
  <2> QED BY <1>6, <2>1, ClientCloses
<1>7. \/ Connect(c) \/ ConnectTimesOut(c) \/ Reject(c) \/ SendHeader(c) \/ SendRest(c)
      \/ SendFails(c) \/ SendTimesOut(c) \/ Receive(c) \/ ReceiveEof(c) \/ ReceiveTimesOut(c)
      \/ Call(c) \/ Exit(c)
  BY DEF CallStep
<1> QED BY <1>1, <1>2, <1>3, <1>5, <1>6, <1>7

LEMMA ConnectionsNextInv == ConnectionsInv /\ [Next]_vars => ConnectionsInv'
<1> SUFFICES ASSUME ConnectionsInv, [Next]_vars PROVE ConnectionsInv'
  OBVIOUS
<1>1. CASE ServerStep \/ LoadFails \/ Signal
  BY <1>1, ServerStepInv
<1>2. ASSUME NEW c \in Clients, Call(c) \/ CallStep(c) \/ Exit(c) PROVE ConnectionsInv'
  BY <1>2, ClientStepInv
<1>3. CASE Tick \/ UNCHANGED vars
  <2>1. UNCHANGED <<server, serving, reqId, stopping, backlog, phase, conn, lastId, conns>>
    BY <1>3 DEF Tick, vars, serverVars, clientVars
  <2>2. /\ ConnectionsTypeOK => ConnectionsTypeOK'
        /\ ClientsHold => ClientsHold'
        /\ ServerHolds => ServerHolds'
    BY <2>1 DEF ConnectionsTypeOK, ClientsHold, ServerHolds
  <2>3. CallsProgress => CallsProgress'
    BY <2>1 DEF CallsProgress, BetweenCalls, Sending, Sent, Taken, Serves
  <2> QED BY <2>2, <2>3 DEF ConnectionsInv
<1> QED BY <1>1, <1>2, <1>3 DEF Next

(* What is assumed of a connection holds whatever the server, its clients    *)
(* and the signals have done.                                                *)
THEOREM ConnectionsInvHolds == Spec => []ConnectionsInv
<1> QED BY ServiceInitInv, ConnectionsNextInv, PTL DEF Spec

(* A connection that a client keeps for its next call carries nothing of the *)
(* calls before it and no work of the server is under way for it, so the     *)
(* answer a client finds is always the one to the request it waits for.      *)
THEOREM KeptConnectionIsCleanHolds == Spec => []KeptConnectionIsClean
<1>1. ConnectionsInv => KeptConnectionIsClean
  <2> SUFFICES ASSUME ConnectionsInv, NEW c \in Clients
               PROVE  /\ phase[c] \in {"idle", "ready"} /\ conn[c] # NoConn =>
                           /\ conns[conn[c]].toServer = "empty"
                           /\ conns[conn[c]].reply = 0
                           /\ serving = conn[c] => server = "awaiting"
                      /\ phase[c] = "waiting" => conns[conn[c]].reply \in {0, lastId[c]}
    BY DEF KeptConnectionIsClean
  <2> QED
    BY DEF ConnectionsInv, CallsProgress, BetweenCalls, Serves, Sent, Taken
<1> QED BY <1>1, ConnectionsInvHolds, PTL

-----------------------------------------------------------------------------
(* What a fault costs the one client of a server that is started again, where *)
(* whoever can act does before time passes: the server's timers together stay *)
(* below those of the client.                                                *)
OneClientInTime(c) ==
  /\ Clients = {c} /\ Urgent /\ Respawns /\ ~ClientsMayExit
  /\ LoadTime + Deadline < RequestTimeout
  /\ LoadTime < ConnectTimeout /\ Deadline < ConnectTimeout

TimersTypeOK ==
  /\ serverClock \in Nat /\ faults \in Nat /\ wedged \in BOOLEAN
  /\ clock \in [Clients -> Nat] /\ failures \in [Clients -> Nat]

Alive(c) == conn[c] # NoConn /\ conns[conn[c]].serverOpen

Lost(c) == conn[c] # NoConn /\ ~conns[conn[c]].serverOpen

(* The server has the client's connection, once, or none.                    *)
HoldsOnly(c) ==
  IF Alive(c)
  THEN \/ backlog = <<conn[c]>> /\ server \in {"loading", "accepting"}
       \/ /\ backlog = << >> /\ serving = conn[c]
          /\ server \in {"awaiting", "receiving", "inferring", "responding"}
  ELSE /\ backlog = << >> /\ serving = NoConn
       /\ stopping \/ server \in {"down", "loading", "accepting"}

(* A server that stops, or has ended, has closed it.                         *)
LosesIt(c) ==
  /\ stopping => ~Alive(c)
  /\ server = "down" => ~Alive(c) /\ ~stopping

TimersRun ==
  /\ server = "loading" => serverClock <= LoadTime
  /\ server = "inferring" => serverClock <= Deadline /\ (wedged \/ serverClock < Deadline)
  /\ wedged => server = "inferring"

(* Until it is answered, a request is on its way or being worked on.         *)
AnswerIsDue(c) ==
  /\ phase[c] \in {"sending", "waiting"} => lastId[c] # 0
  /\ phase[c] = "waiting" /\ Alive(c) =>
       \/ /\ conns[conn[c]].toServer = "full"
          /\ server \in {"loading", "accepting", "awaiting", "receiving"}
       \/ /\ conns[conn[c]].toServer = "empty" /\ conns[conn[c]].reply = 0
          /\ server \in {"inferring", "responding"}
       \/ /\ conns[conn[c]].toServer = "empty" /\ conns[conn[c]].reply # 0
          /\ server = "awaiting"

(* The client has waited no longer than the server has loaded and inferred.  *)
AnswerIsInTime(c) ==
  /\ phase[c] \in {"idle", "ready"} => clock[c] = 0
  /\ phase[c] \in {"sending", "waiting"} /\ Alive(c) =>
       /\ server = "loading" => clock[c] <= serverClock
       /\ conns[conn[c]].toServer # "empty" => clock[c] <= LoadTime
       /\ server = "inferring" => clock[c] <= LoadTime + serverClock
       /\ clock[c] <= LoadTime + Deadline

(* A fault the client has yet to find out about is spent.                    *)
FaultIsPaid(c) ==
  /\ failures[c] + faults <= Faults
  /\ Lost(c) \/ (wedged /\ ~stopping) => failures[c] + faults < Faults

(* Who connects has a fault to spare, or is in time for the server that stops *)
(* and the one that is started after it.                                     *)
ConnectIsInTime(c) ==
  phase[c] = "connecting" =>
    \/ failures[c] + faults < Faults
    \/ /\ clock[c] < ConnectTimeout
       /\ stopping /\ server \in {"loading", "inferring"} => clock[c] <= serverClock

FaultsInv(c) ==
  /\ TimersTypeOK /\ HoldsOnly(c) /\ LosesIt(c) /\ TimersRun
  /\ AnswerIsDue(c) /\ AnswerIsInTime(c) /\ FaultIsPaid(c) /\ ConnectIsInTime(c)

LEMMA FaultsInitInv ==
  ASSUME NEW c, OneClientInTime(c), ServiceInit
  PROVE  FaultsInv(c)
<1>1. /\ conn[c] = NoConn /\ phase[c] = "idle" /\ clock[c] = 0 /\ failures[c] = 0
      /\ faults = Faults /\ Faults \in Nat /\ ~wedged /\ server = "down" /\ ~stopping
      /\ backlog = << >> /\ serving = NoConn
  BY ServiceAssumption DEF OneClientInTime, ServiceInit
<1>2. TimersTypeOK
  BY ServiceAssumption DEF ServiceInit, TimersTypeOK
<1>3. ~Alive(c) /\ ~Lost(c)
  BY <1>1 DEF Alive, Lost
<1> QED
  BY <1>1, <1>2, <1>3 DEF FaultsInv, HoldsOnly, LosesIt, TimersRun, AnswerIsDue,
                          AnswerIsInTime, FaultIsPaid, ConnectIsInTime

LEMMA EndsClose ==
  ASSUME ConnectionsTypeOK, conns' = ServerEndsClosed
  PROVE  \A k \in Conns : conns[k].clientOpen => ~conns'[k].serverOpen
BY Zenon DEF ConnectionsTypeOK, Connection, ServerEndsClosed, Free

(* The server closes all that it holds.                                      *)
LEMMA ServerLoses ==
  ASSUME NEW c, OneClientInTime(c), ConnectionsInv, FaultsInv(c),
         conns' = ServerEndsClosed, serving' = NoConn, backlog' = << >>,
         UNCHANGED clientVars, serverClock' \in Nat, faults' \in Nat,
         \/ server' = "down" /\ stopping' = FALSE /\ wedged' = FALSE
         \/ stopping' = TRUE /\ server # "down" /\ UNCHANGED <<server, wedged, serverClock>>,
         failures[c] + faults' <= Faults,
         conn[c] # NoConn => failures[c] + faults' < Faults,
         phase[c] = "connecting" =>
           \/ failures[c] + faults' < Faults
           \/ server' = "down" /\ clock[c] < ConnectTimeout
  PROVE  FaultsInv(c)'
<1>1. c \in Clients /\ UNCHANGED <<phase, conn, lastId, clock, failures>>
  BY DEF OneClientInTime, clientVars
<1>2. ~Alive(c)'
  <2>1. conn[c] # NoConn => conn[c] \in Conns /\ conns[conn[c]].clientOpen
    BY <1>1 DEF ConnectionsInv, ConnectionsTypeOK, ClientsHold
  <2>2. \A k \in Conns : conns[k].clientOpen => ~conns'[k].serverOpen
    BY EndsClose DEF ConnectionsInv
  <2>3. conn' = conn
    BY <1>1
  <2> QED
    BY <2>1, <2>2, <2>3, Zenon DEF Alive
<1>3. TimersTypeOK'
  BY <1>1 DEF FaultsInv, TimersTypeOK
<1>4. HoldsOnly(c)' /\ LosesIt(c)'
  BY <1>2 DEF HoldsOnly, LosesIt
<1>5. TimersRun'
  BY DEF FaultsInv, TimersRun
<1>6. AnswerIsDue(c)' /\ AnswerIsInTime(c)'
  BY <1>1, <1>2 DEF FaultsInv, AnswerIsDue, AnswerIsInTime
<1>7. FaultIsPaid(c)'
  BY <1>1 DEF FaultsInv, FaultIsPaid, Lost
<1>8. ConnectIsInTime(c)'
  BY <1>1 DEF ConnectIsInTime
<1> QED
  BY <1>3, <1>4, <1>5, <1>6, <1>7, <1>8 DEF FaultsInv

LEMMA ServerEndsKeeps ==
  ASSUME NEW c, OneClientInTime(c), ConnectionsInv, FaultsInv(c),
         \/ LoadFails \/ Signal \/ Watchdog \/ StopsBetweenRequests \/ StopsInRequest
         \/ PayloadTruncated \/ RespondFails
  PROVE  FaultsInv(c)'
<1>1. /\ c \in Clients /\ faults \in Nat /\ failures[c] \in Nat /\ Faults \in Nat
      /\ serverClock \in Nat /\ wedged \in BOOLEAN
      /\ failures[c] + faults <= Faults
  BY ServiceAssumption DEF OneClientInTime, FaultsInv, TimersTypeOK, FaultIsPaid
<1>2. conn[c] # NoConn => Alive(c) \/ Lost(c)
  BY DEF Alive, Lost
<1>3. CASE LoadFails \/ Signal
  <2>1. /\ faults' = faults - 1 /\ faults > 0 /\ UNCHANGED clientVars
        /\ conns' = ServerEndsClosed /\ serving' = NoConn /\ backlog' = << >>
        /\ \/ server' = "down" /\ stopping' = FALSE /\ wedged' = FALSE /\ serverClock' = 0
           \/ stopping' = TRUE /\ server # "down" /\ UNCHANGED <<server, wedged, serverClock>>
    BY <1>3 DEF LoadFails, Signal, ProcessEnds
  <2>2. faults' \in Nat /\ serverClock' \in Nat /\ failures[c] + faults' < Faults
    BY <1>1, <2>1
  <2>3. failures[c] + faults' <= Faults
    BY <1>1, <2>2
  <2> QED
    BY <2>1, <2>2, <2>3, ServerLoses
<1>4. ASSUME NEW why, ProcessEnds(why), UNCHANGED faults, stopping \/ WatchdogDue
      PROVE  FaultsInv(c)'
  <2>1. /\ server' = "down" /\ stopping' = FALSE /\ wedged' = FALSE /\ serverClock' = 0
        /\ conns' = ServerEndsClosed /\ serving' = NoConn /\ backlog' = << >>
        /\ UNCHANGED <<clientVars, faults>>
    BY <1>4 DEF ProcessEnds
  <2>2. Lost(c) \/ (wedged /\ ~stopping) => failures[c] + faults < Faults
    BY DEF FaultsInv, FaultIsPaid
  <2>3. CASE stopping
    <3>1. ~Alive(c)
      BY <2>3 DEF FaultsInv, LosesIt
    <3>2. conn[c] # NoConn => failures[c] + faults < Faults
      BY <1>2, <2>2, <3>1
    <3>3. phase[c] = "connecting" => failures[c] + faults < Faults \/ clock[c] < ConnectTimeout
      BY DEF FaultsInv, ConnectIsInTime
    <3> QED
      BY <1>1, <2>1, <3>2, <3>3, ServerLoses
  <2>4. CASE ~stopping
    <3>1. server = "inferring" /\ serverClock = Deadline
      BY <1>4, <2>4 DEF WatchdogDue
    <3>2. wedged
      BY <1>1, <3>1, ServiceAssumption DEF FaultsInv, TimersRun
    <3>3. failures[c] + faults < Faults
      BY <2>2, <2>4, <3>2
    <3> QED
      BY <1>1, <2>1, <3>3, ServerLoses
  <2> QED
    BY <2>3, <2>4
<1>5. CASE Watchdog \/ StopsBetweenRequests \/ StopsInRequest
  BY <1>4, <1>5 DEF Watchdog, StopsBetweenRequests, StopsInRequest
<1>6. ~PayloadTruncated /\ ~RespondFails
  <2> SUFFICES ASSUME server \in {"receiving", "responding"}, ~stopping,
                      ~conns[serving].clientOpen
               PROVE  FALSE
    BY DEF PayloadTruncated, RespondFails
  <2>1. Alive(c) /\ serving = conn[c]
    BY DEF FaultsInv, HoldsOnly
  <2> QED
    BY <1>1, <2>1 DEF Alive, ConnectionsInv, ClientsHold
<1> QED
  BY <1>3, <1>5, <1>6

(* Steps of the server that leave the ends of the connections alone.         *)
LEMMA ServerMovesKeeps ==
  ASSUME NEW c, OneClientInTime(c), ConnectionsInv, FaultsInv(c),
         Start \/ Loaded \/ Accept \/ ReadHeader \/ InferenceEnds
  PROVE  FaultsInv(c)'
<1> USE DEF FaultsInv
<1>1. /\ c \in Clients /\ faults \in Nat /\ failures[c] \in Nat /\ Faults \in Nat
      /\ serverClock \in Nat /\ wedged \in BOOLEAN /\ clock[c] \in Nat
      /\ LoadTime \in Nat /\ Deadline \in Nat
  BY ServiceAssumption DEF OneClientInTime, TimersTypeOK
<1>2. UNCHANGED <<wedged, stopping, faults, clientVars, conns>>
  BY DEF Start, Loaded, Accept, ReadHeader, InferenceEnds
<1>3. /\ UNCHANGED <<phase, conn, lastId, clock, failures>>
      /\ Alive(c)' = Alive(c) /\ Lost(c)' = Lost(c)
  BY <1>2 DEF clientVars, Alive, Lost
<1>4. TimersTypeOK'
  BY <1>1, <1>2, <1>3 DEF TimersTypeOK, Start, Loaded, Accept, ReadHeader, InferenceEnds
<1>5. FaultIsPaid(c)'
  BY <1>2, <1>3 DEF FaultIsPaid
<1>6. CASE Start
  <2>1. server = "down" /\ server' = "loading" /\ serverClock' = 0 /\ UNCHANGED <<serving, backlog>>
    BY <1>6 DEF Start
  <2>2. ~Alive(c) /\ ~stopping
    BY <2>1 DEF LosesIt
  <2>3. HoldsOnly(c)' /\ LosesIt(c)' /\ TimersRun'
    BY <1>1, <1>2, <1>3, <2>1, <2>2 DEF HoldsOnly, LosesIt, TimersRun
  <2>4. AnswerIsDue(c)' /\ AnswerIsInTime(c)' /\ ConnectIsInTime(c)'
    BY <1>2, <1>3, <2>2 DEF AnswerIsDue, AnswerIsInTime, ConnectIsInTime
  <2> QED
    BY <1>4, <1>5, <2>3, <2>4
<1>7. CASE Loaded
  <2>1. /\ server = "loading" /\ server' = "accepting" /\ serverClock = LoadTime
        /\ UNCHANGED <<serving, backlog>>
    BY <1>7 DEF Loaded
  <2>2. HoldsOnly(c)' /\ LosesIt(c)' /\ TimersRun'
    BY <1>2, <1>3, <2>1 DEF HoldsOnly, LosesIt, TimersRun
  <2>3. AnswerIsDue(c)' /\ ConnectIsInTime(c)'
    BY <1>2, <1>3, <2>1 DEF AnswerIsDue, ConnectIsInTime
  <2>4. AnswerIsInTime(c)'
    BY <1>1, <1>2, <1>3, <2>1 DEF AnswerIsInTime
  <2> QED
    BY <1>4, <1>5, <2>2, <2>3, <2>4
<1>8. CASE Accept
  <2>1. /\ server = "accepting" /\ server' = "awaiting" /\ backlog # << >>
        /\ serving' = Head(backlog) /\ backlog' = Tail(backlog)
    BY <1>8 DEF Accept
  <2>2. Alive(c) /\ backlog = <<conn[c]>>
    BY <2>1 DEF HoldsOnly
  <2>3. serving' = conn[c] /\ backlog' = << >>
    BY <2>1, <2>2
  <2>4. HoldsOnly(c)' /\ LosesIt(c)' /\ TimersRun'
    BY <1>2, <1>3, <2>1, <2>2, <2>3 DEF HoldsOnly, LosesIt, TimersRun
  <2>5. AnswerIsDue(c)' /\ ConnectIsInTime(c)' /\ AnswerIsInTime(c)'
    BY <1>2, <1>3, <2>1 DEF AnswerIsDue, ConnectIsInTime, AnswerIsInTime
  <2> QED
    BY <1>4, <1>5, <2>4, <2>5
<1>9. CASE ReadHeader
  <2>1. /\ server = "awaiting" /\ server' = "receiving" /\ ~stopping
        /\ conns[serving].toServer # "empty" /\ UNCHANGED <<serving, backlog>>
    BY <1>9 DEF ReadHeader
  <2>2. Alive(c) /\ serving = conn[c]
    BY <2>1 DEF HoldsOnly
  <2>3. HoldsOnly(c)' /\ LosesIt(c)' /\ TimersRun'
    BY <1>2, <1>3, <2>1, <2>2 DEF HoldsOnly, LosesIt, TimersRun
  <2>4. AnswerIsDue(c)' /\ ConnectIsInTime(c)' /\ AnswerIsInTime(c)'
    BY <1>2, <1>3, <2>1, <2>2 DEF AnswerIsDue, ConnectIsInTime, AnswerIsInTime
  <2> QED
    BY <1>4, <1>5, <2>3, <2>4
<1>10. CASE InferenceEnds
  <2>1. /\ server = "inferring" /\ server' = "responding" /\ ~wedged
        /\ UNCHANGED <<serving, backlog>>
    BY <1>10 DEF InferenceEnds
  <2>2. HoldsOnly(c)' /\ LosesIt(c)' /\ TimersRun'
    BY <1>2, <1>3, <2>1 DEF HoldsOnly, LosesIt, TimersRun
  <2>3. AnswerIsDue(c)' /\ ConnectIsInTime(c)' /\ AnswerIsInTime(c)'
    BY <1>2, <1>3, <2>1 DEF AnswerIsDue, ConnectIsInTime, AnswerIsInTime
  <2> QED
    BY <1>4, <1>5, <2>2, <2>3
<1> QED
  BY <1>6, <1>7, <1>8, <1>9, <1>10

LEMMA ServerServesKeeps ==
  ASSUME NEW c, OneClientInTime(c), ConnectionsInv, FaultsInv(c),
         ClientGone \/ ReadPayload \/ Respond
  PROVE  FaultsInv(c)'
<1> USE DEF FaultsInv
<1>1. /\ c \in Clients /\ faults \in Nat /\ failures[c] \in Nat /\ Faults \in Nat
      /\ serverClock \in Nat /\ wedged \in BOOLEAN /\ clock[c] \in Nat
      /\ LoadTime \in Nat /\ Deadline \in Nat /\ Deadline > 0
  BY ServiceAssumption DEF OneClientInTime, TimersTypeOK
<1>2. Alive(c) /\ serving = conn[c] /\ backlog = << >> /\ ~stopping
  BY DEF HoldsOnly, ClientGone, ReadPayload, Respond
<1>3. PICK k \in Conns :
        /\ k = conn[c] /\ k = serving /\ conns[k] \in Connection
        /\ conns[k].clientOpen /\ conns[k].serverOpen
  BY <1>1, <1>2 DEF Alive, ConnectionsInv, ConnectionsTypeOK, ClientsHold
<1>4. ~ClientGone
  BY <1>3 DEF ClientGone
<1>5. UNCHANGED <<serving, stopping, backlog, clientVars>>
  BY <1>4 DEF ReadPayload, Respond
<1>6. UNCHANGED <<phase, conn, lastId, clock, failures>>
  BY <1>5 DEF clientVars
<1>7. /\ phase[c] = "idle" => BetweenCalls(k)
      /\ phase[c] = "ready" => BetweenCalls(k)
      /\ phase[c] = "sending" => Sending(k, lastId[c])
      /\ phase[c] = "waiting" => Sent(k, lastId[c]) \/ Taken(k, lastId[c])
      /\ phase[c] \in {"idle", "ready", "sending", "waiting"}
  BY <1>1, <1>2, <1>3
  DEF ConnectionsInv, CallsProgress, ClientsHold, ConnectionsTypeOK, Alive
<1>8. CASE ReadPayload
  <2>1. /\ server = "receiving" /\ server' = "inferring" /\ serverClock' = 0
        /\ conns[k].toServer = "full"
        /\ conns' = [conns EXCEPT ![k].toServer = "empty"]
        /\ \/ wedged' = FALSE /\ UNCHANGED faults
           \/ faults > 0 /\ faults' = faults - 1 /\ wedged' = TRUE
    BY <1>3, <1>8 DEF ReadPayload
  <2>2. /\ conns'[k].toServer = "empty" /\ conns'[k].reply = conns[k].reply
        /\ conns'[k].serverOpen = conns[k].serverOpen
    BY <1>3, <2>1 DEF ConnectionsInv, ConnectionsTypeOK, Connection
  <2>3. phase[c] = "waiting" /\ conns[k].reply = 0
    BY <1>3, <1>7, <2>1 DEF BetweenCalls, Sending, Sent, Taken
  <2>4. Alive(c)' /\ ~Lost(c)'
    BY <1>2, <1>3, <1>6, <2>2 DEF Alive, Lost
  <2>5. clock[c] <= LoadTime
    BY <1>2, <1>3, <2>1, <2>3 DEF AnswerIsInTime
  <2>6. TimersTypeOK'
    <3>1. wedged' \in BOOLEAN
      BY <2>1
    <3>2. faults' \in Nat
      BY <1>1, <2>1
    <3> QED
      BY <1>6, <2>1, <3>1, <3>2 DEF TimersTypeOK
  <2>7. HoldsOnly(c)' /\ LosesIt(c)'
    BY <1>2, <1>5, <1>6, <2>1, <2>4 DEF HoldsOnly, LosesIt
  <2>8. TimersRun'
    BY <1>1, <2>1 DEF TimersRun
  <2>9. AnswerIsDue(c)'
    BY <1>3, <1>6, <2>1, <2>2, <2>3 DEF AnswerIsDue
  <2>10. AnswerIsInTime(c)'
    BY <1>1, <1>3, <1>6, <2>1, <2>2, <2>3, <2>5 DEF AnswerIsInTime
  <2>11. FaultIsPaid(c)'
    <3>1. failures'[c] = failures[c] /\ failures[c] + faults <= Faults
      BY <1>6 DEF FaultIsPaid
    <3>2. CASE faults' = faults /\ wedged' = FALSE
      BY <2>4, <3>1, <3>2 DEF FaultIsPaid
    <3>3. CASE faults > 0 /\ faults' = faults - 1
      <4>1. failures'[c] + faults' < Faults
        BY <1>1, <3>1, <3>3
      <4> QED
        BY <1>1, <3>1, <3>3, <4>1 DEF FaultIsPaid
    <3> QED
      BY <2>1, <3>2, <3>3
  <2>12. ConnectIsInTime(c)'
    BY <1>6, <2>3 DEF ConnectIsInTime
  <2> QED
    BY <2>6, <2>7, <2>8, <2>9, <2>10, <2>11, <2>12
<1>9. CASE Respond
  <2>1. /\ server = "responding" /\ server' = "awaiting"
        /\ conns' = [conns EXCEPT ![k].reply = reqId]
        /\ UNCHANGED <<serverClock, wedged, faults>>
    BY <1>3, <1>9 DEF Respond
  <2>2. reqId \in Nat
    BY DEF ConnectionsInv, ConnectionsTypeOK
  <2>3. /\ conns'[k].toServer = conns[k].toServer /\ conns'[k].reply = reqId
        /\ conns'[k].serverOpen = conns[k].serverOpen
    BY <1>3, <2>1, <2>2 DEF ConnectionsInv, ConnectionsTypeOK, Connection
  <2>4. /\ phase[c] = "waiting" /\ conns[k].toServer = "empty"
        /\ reqId = lastId[c] /\ lastId[c] # 0
    BY <1>3, <1>7, <2>1 DEF BetweenCalls, Sending, Sent, Taken, Serves, AnswerIsDue
  <2>5. Alive(c)' /\ ~Lost(c)'
    BY <1>2, <1>3, <1>6, <2>3 DEF Alive, Lost
  <2>6. TimersTypeOK'
    BY <1>6, <2>1 DEF TimersTypeOK
  <2>7. HoldsOnly(c)' /\ LosesIt(c)' /\ TimersRun'
    BY <1>2, <1>5, <1>6, <2>1, <2>5 DEF HoldsOnly, LosesIt, TimersRun
  <2>8. AnswerIsDue(c)'
    BY <1>3, <1>6, <2>1, <2>3, <2>4 DEF AnswerIsDue
  <2>9. AnswerIsInTime(c)'
    BY <1>2, <1>3, <1>6, <2>1, <2>3, <2>4 DEF AnswerIsInTime
  <2>10. FaultIsPaid(c)' /\ ConnectIsInTime(c)'
    BY <1>5, <1>6, <2>1, <2>4, <2>5 DEF FaultIsPaid, ConnectIsInTime
  <2> QED
    BY <2>6, <2>7, <2>8, <2>9, <2>10
<1> QED
  BY <1>4, <1>8, <1>9

LEMMA EndedFacts ==
  ASSUME NEW c \in Clients, NEW how, ConnectionsTypeOK, TimersTypeOK, Ended(c, how)
  PROVE  /\ phase'[c] = "idle" /\ clock'[c] = 0
         /\ clock' \in [Clients -> Nat] /\ failures' \in [Clients -> Nat]
         /\ \/ failures'[c] = failures[c]
            \/ how = "failed" /\ failures'[c] = failures[c] + 1
<1>1. phase'[c] = "idle" /\ clock'[c] = 0 /\ clock' \in [Clients -> Nat]
  BY DEF ConnectionsTypeOK, TimersTypeOK, Ended
<1>2. PICK n \in Nat : n = failures[c]
  BY DEF TimersTypeOK
<1>3. PICK m \in Nat : /\ failures' = [failures EXCEPT ![c] = m]
                       /\ m = n \/ (how = "failed" /\ m = n + 1)
  <2>1. PICK m : m = IF how = "failed" /\ n <= Faults THEN n + 1 ELSE n
    OBVIOUS
  <2>2. failures' = [failures EXCEPT ![c] = m]
    BY <1>2, <2>1 DEF Ended
  <2>3. m \in Nat /\ (m = n \/ (how = "failed" /\ m = n + 1))
    BY <1>2, <2>1
  <2> QED
    BY <2>2, <2>3
<1> QED
  BY <1>1, <1>2, <1>3 DEF TimersTypeOK

(* The call ends, or goes on without the server.                             *)
LEMMA CallMovesKeeps ==
  ASSUME NEW c, OneClientInTime(c), ConnectionsInv, FaultsInv(c),
         Call(c) \/ Reject(c) \/ ConnectTimesOut(c)
  PROVE  FaultsInv(c)'
<1> USE DEF FaultsInv
<1>1. /\ c \in Clients /\ faults \in Nat /\ failures[c] \in Nat /\ Faults \in Nat
      /\ serverClock \in Nat /\ clock[c] \in Nat /\ ConnectTimeout \in Nat \ {0}
  BY ServiceAssumption DEF OneClientInTime, TimersTypeOK
<1>2. UNCHANGED <<serverVars, conn, conns, lastId>>
  BY DEF Call, Reject, ConnectTimesOut
<1>3. /\ UNCHANGED <<server, serving, wedged, serverClock, stopping, backlog, faults>>
      /\ Alive(c)' = Alive(c) /\ Lost(c)' = Lost(c)
  BY <1>2 DEF serverVars, Alive, Lost
<1>4. HoldsOnly(c)' /\ LosesIt(c)' /\ TimersRun'
  BY <1>2, <1>3 DEF HoldsOnly, LosesIt, TimersRun
<1>5. CASE Call(c)
  <2>1. /\ phase[c] = "idle" /\ phase'[c] \in {"connecting", "ready"}
        /\ UNCHANGED <<clock, failures>> /\ clock[c] = 0
    BY <1>1, <1>5 DEF Call, ConnectionsInv, ConnectionsTypeOK, AnswerIsInTime
  <2>2. TimersTypeOK'
    BY <1>3, <2>1 DEF TimersTypeOK
  <2>3. FaultIsPaid(c)'
    <3>1. failures' = failures /\ faults' = faults /\ wedged' = wedged /\ stopping' = stopping
      BY <1>3, <2>1
    <3>2. Lost(c)' <=> Lost(c)
      BY <1>3
    <3> QED
      BY <3>1, <3>2 DEF FaultIsPaid
  <2>4. AnswerIsDue(c)' /\ AnswerIsInTime(c)'
    BY <2>1 DEF AnswerIsDue, AnswerIsInTime
  <2>5. ConnectIsInTime(c)'
    BY <1>1, <1>3, <2>1 DEF ConnectIsInTime
  <2> QED
    BY <1>4, <2>2, <2>3, <2>4, <2>5
<1>6. CASE Reject(c) \/ ConnectTimesOut(c)
  <2>1. /\ phase'[c] = "idle" /\ clock'[c] = 0 /\ clock' \in [Clients -> Nat]
        /\ failures' \in [Clients -> Nat]
    BY <1>1, <1>6, EndedFacts DEF Reject, ConnectTimesOut, ConnectionsInv
  <2>2. \/ failures'[c] = failures[c]
        \/ /\ failures'[c] = failures[c] + 1 /\ failures[c] + faults < Faults
           /\ conn[c] = NoConn
    <3>1. CASE Reject(c)
      BY <1>1, <3>1, EndedFacts DEF Reject, ConnectionsInv
    <3>2. CASE ConnectTimesOut(c)
      <4>1. phase[c] = "connecting" /\ clock[c] = ConnectTimeout /\ conn[c] = NoConn
        BY <1>1, <3>2 DEF ConnectTimesOut, ConnectionsInv, ClientsHold
      <4>2. failures[c] + faults < Faults
        BY <1>1, <4>1 DEF ConnectIsInTime
      <4> QED
        BY <1>1, <3>2, <4>1, <4>2, EndedFacts DEF ConnectTimesOut, ConnectionsInv
    <3> QED
      BY <1>6, <3>1, <3>2
  <2>3. TimersTypeOK'
    BY <1>3, <2>1 DEF TimersTypeOK
  <2>4. FaultIsPaid(c)'
    <3>1. CASE failures'[c] = failures[c]
      BY <1>3, <3>1 DEF FaultIsPaid
    <3>2. CASE failures'[c] = failures[c] + 1 /\ failures[c] + faults < Faults /\ conn[c] = NoConn
      <4>1. ~Alive(c) /\ ~Lost(c)
        BY <3>2 DEF Alive, Lost
      <4>2. wedged => stopping
        BY <4>1 DEF HoldsOnly, TimersRun
      <4> QED
        BY <1>1, <1>3, <3>2, <4>1, <4>2 DEF FaultIsPaid
    <3> QED
      BY <2>2, <3>1, <3>2
  <2>5. AnswerIsDue(c)' /\ AnswerIsInTime(c)' /\ ConnectIsInTime(c)'
    BY <2>1 DEF AnswerIsDue, AnswerIsInTime, ConnectIsInTime
  <2> QED
    BY <1>4, <2>3, <2>4, <2>5
<1> QED
  BY <1>5, <1>6

LEMMA ConnectKeepsTime ==
  ASSUME NEW c, OneClientInTime(c), ConnectionsInv, FaultsInv(c), Connect(c)
  PROVE  FaultsInv(c)'
<1> USE DEF FaultsInv
<1>1. /\ c \in Clients /\ faults \in Nat /\ failures[c] \in Nat /\ Faults \in Nat
  BY ServiceAssumption DEF OneClientInTime, TimersTypeOK
<1>2. PICK k \in Conns :
        /\ conns' = [conns EXCEPT ![k] = [Free EXCEPT !.clientOpen = TRUE, !.serverOpen = TRUE]]
        /\ conn' = [conn EXCEPT ![c] = k]
        /\ backlog' = Append(backlog, k)
  BY DEF Connect
<1>3. /\ phase[c] = "connecting" /\ ~stopping /\ server # "down"
      /\ phase' = [phase EXCEPT ![c] = "ready"] /\ clock' = [clock EXCEPT ![c] = 0]
      /\ UNCHANGED <<server, serving, wedged, serverClock, stopping, faults, failures>>
  BY DEF Connect, Listening
<1>4. conn[c] = NoConn /\ ~Alive(c) /\ k # NoConn
  BY <1>1, <1>3, ServiceAssumption DEF ConnectionsInv, ClientsHold, Alive
<1>5. /\ conn'[c] = k /\ phase'[c] = "ready" /\ clock'[c] = 0
      /\ clock' \in [Clients -> Nat] /\ conns'[k].serverOpen
  BY <1>1, <1>2, <1>3 DEF ConnectionsInv, ConnectionsTypeOK, TimersTypeOK, Free
<1>6. Alive(c)' /\ ~Lost(c)'
  BY <1>4, <1>5 DEF Alive, Lost
<1>7. backlog = << >> /\ server \in {"loading", "accepting"} /\ ~wedged
  BY <1>3, <1>4 DEF HoldsOnly, TimersRun
<1>8. backlog' = <<k>>
  BY <1>2, <1>7
<1>9. TimersTypeOK'
  BY <1>3, <1>5 DEF TimersTypeOK
<1>10. HoldsOnly(c)' /\ LosesIt(c)' /\ TimersRun'
  BY <1>3, <1>5, <1>6, <1>7, <1>8 DEF HoldsOnly, LosesIt, TimersRun
<1>11. AnswerIsDue(c)' /\ AnswerIsInTime(c)' /\ ConnectIsInTime(c)'
  BY <1>5 DEF AnswerIsDue, AnswerIsInTime, ConnectIsInTime
<1>12. FaultIsPaid(c)'
  BY <1>3, <1>6, <1>7 DEF FaultIsPaid
<1> QED
  BY <1>9, <1>10, <1>11, <1>12

(* The client sends a part of its request, or has its answer.                *)
LEMMA TalkKeepsTime ==
  ASSUME NEW c, OneClientInTime(c), ConnectionsInv, FaultsInv(c),
         \/ SendHeader(c) \/ SendRest(c)
         \/ Receive(c) /\ conns[conn[c]].reply = lastId[c]
  PROVE  FaultsInv(c)'
<1> USE DEF FaultsInv
<1>1. /\ c \in Clients /\ faults \in Nat /\ failures[c] \in Nat /\ Faults \in Nat
      /\ serverClock \in Nat /\ LoadTime \in Nat /\ Deadline \in Nat
      /\ phase[c] \in {"ready", "sending", "waiting"}
  BY ServiceAssumption DEF OneClientInTime, TimersTypeOK, SendHeader, SendRest, Receive
<1>2. PICK k \in Conns : k = conn[c] /\ conns[k] \in Connection /\ k # NoConn
  BY <1>1 DEF ConnectionsInv, ConnectionsTypeOK, ClientsHold
<1>3. UNCHANGED <<serverVars, conn>>
  BY DEF SendHeader, SendRest, Receive
<1>4. /\ UNCHANGED <<server, serving, wedged, serverClock, stopping, backlog, faults>>
      /\ conn' = conn
  BY <1>3 DEF serverVars
<1>5. PICK r \in Connection :
        /\ conns' = [conns EXCEPT ![k] = r] /\ r.serverOpen = conns[k].serverOpen
        /\ SendHeader(c) => r.toServer = "part"
        /\ SendRest(c) => r.toServer = "full"
  <2>1. CASE SendHeader(c)
    <3>1. PICK r : r = [conns[k] EXCEPT !.toServer = "part", !.id = NextId(lastId[c])]
      OBVIOUS
    <3>2. NextId(lastId[c]) \in Nat
      BY <1>1, NextIdPositive DEF ConnectionsInv, ConnectionsTypeOK
    <3>3. r \in Connection /\ r.serverOpen = conns[k].serverOpen /\ r.toServer = "part"
      BY <1>2, <3>1, <3>2 DEF Connection
    <3>4. conns' = [conns EXCEPT ![k] = r] /\ ~SendRest(c)
      BY <1>2, <2>1, <3>1 DEF SendHeader, SendRest, ConnectionsInv, ConnectionsTypeOK
    <3> QED
      BY <3>3, <3>4
  <2>2. CASE SendRest(c)
    <3>1. PICK r : r = [conns[k] EXCEPT !.toServer = "full"]
      OBVIOUS
    <3>2. r \in Connection /\ r.serverOpen = conns[k].serverOpen /\ r.toServer = "full"
      BY <1>2, <3>1 DEF Connection
    <3>3. conns' = [conns EXCEPT ![k] = r] /\ ~SendHeader(c)
      BY <1>2, <2>2, <3>1 DEF SendHeader, SendRest, ConnectionsInv, ConnectionsTypeOK
    <3> QED
      BY <3>2, <3>3
  <2>3. CASE Receive(c) /\ conns[conn[c]].reply = lastId[c]
    <3>1. PICK r : r = [conns[k] EXCEPT !.reply = 0]
      OBVIOUS
    <3>2. r \in Connection /\ r.serverOpen = conns[k].serverOpen
      BY <1>2, <3>1 DEF Connection
    <3>3. conns' = [conns EXCEPT ![k] = r] /\ ~SendHeader(c) /\ ~SendRest(c)
      BY <1>2, <2>3, <3>1
      DEF SendHeader, SendRest, Receive, ConnectionsInv, ConnectionsTypeOK
    <3> QED
      BY <3>2, <3>3
  <2> QED
    BY <2>1, <2>2, <2>3
<1>6. conns'[k] = r /\ conn'[c] = k
  BY <1>2, <1>4, <1>5 DEF ConnectionsInv, ConnectionsTypeOK
<1>7. Alive(c)' = Alive(c) /\ Lost(c)' = Lost(c)
  BY <1>2, <1>5, <1>6 DEF Alive, Lost
<1>8. HoldsOnly(c)' /\ LosesIt(c)' /\ TimersRun'
  BY <1>2, <1>4, <1>6, <1>7 DEF HoldsOnly, LosesIt, TimersRun
<1>9. CASE SendHeader(c)
  <2>1. /\ phase'[c] = "sending" /\ lastId'[c] = NextId(lastId[c])
        /\ UNCHANGED <<clock, failures>> /\ clock[c] = 0
    BY <1>1, <1>9 DEF SendHeader, AnswerIsInTime, ConnectionsInv, ConnectionsTypeOK
  <2>2. lastId'[c] # 0
    BY <1>1, <2>1, NextIdPositive DEF ConnectionsInv, ConnectionsTypeOK
  <2>3. TimersTypeOK'
    BY <1>4, <2>1 DEF TimersTypeOK
  <2>4. FaultIsPaid(c)'
    BY <1>4, <1>7, <2>1 DEF FaultIsPaid
  <2>5. AnswerIsDue(c)' /\ ConnectIsInTime(c)'
    BY <2>1, <2>2 DEF AnswerIsDue, ConnectIsInTime
  <2>6. AnswerIsInTime(c)'
    BY <1>1, <1>4, <2>1 DEF AnswerIsInTime
  <2> QED
    BY <1>8, <2>3, <2>4, <2>5, <2>6
<1>10. CASE SendRest(c)
  <2>1. /\ phase[c] = "sending" /\ phase'[c] = "waiting" /\ lastId'[c] = lastId[c]
        /\ clock'[c] = 0 /\ clock' \in [Clients -> Nat] /\ UNCHANGED failures
        /\ conns[k].serverOpen
    BY <1>1, <1>2, <1>10 DEF SendRest, TimersTypeOK, ConnectionsInv, ConnectionsTypeOK
  <2>2. Sending(k, lastId[c])
    BY <1>1, <1>2, <2>1 DEF ConnectionsInv, CallsProgress
  <2>3. server \in {"loading", "accepting", "awaiting", "receiving"}
    BY <1>2, <2>1, <2>2 DEF Sending, Serves, HoldsOnly, Alive
  <2>4. TimersTypeOK'
    BY <1>4, <2>1 DEF TimersTypeOK
  <2>5. FaultIsPaid(c)'
    BY <1>4, <1>7, <2>1 DEF FaultIsPaid
  <2>6. AnswerIsDue(c)' /\ ConnectIsInTime(c)'
    BY <1>4, <1>5, <1>6, <1>10, <2>1, <2>3 DEF AnswerIsDue, ConnectIsInTime
  <2>7. AnswerIsInTime(c)'
    BY <1>1, <1>4, <2>1 DEF AnswerIsInTime
  <2> QED
    BY <1>8, <2>4, <2>5, <2>6, <2>7
<1>11. CASE Receive(c) /\ conns[conn[c]].reply = lastId[c]
  <2>1. Ended(c, "answered")
    BY <1>11 DEF Receive
  <2>2. /\ phase'[c] = "idle" /\ clock'[c] = 0 /\ clock' \in [Clients -> Nat]
        /\ failures' \in [Clients -> Nat] /\ failures'[c] = failures[c]
    BY <1>1, <2>1, EndedFacts DEF ConnectionsInv
  <2>3. TimersTypeOK'
    BY <1>4, <2>2 DEF TimersTypeOK
  <2>4. FaultIsPaid(c)'
    BY <1>4, <1>7, <2>2 DEF FaultIsPaid
  <2>5. AnswerIsDue(c)' /\ AnswerIsInTime(c)' /\ ConnectIsInTime(c)'
    BY <2>2 DEF AnswerIsDue, AnswerIsInTime, ConnectIsInTime
  <2> QED
    BY <1>8, <2>3, <2>4, <2>5
<1> QED
  BY <1>9, <1>10, <1>11

(* No timeout is reached, and no answer is another request's: a call fails   *)
(* when the server has closed the connection.                                *)
LEMMA TimeoutsAreNotReached ==
  ASSUME NEW c, OneClientInTime(c), ConnectionsInv, FaultsInv(c)
  PROVE  /\ ~SendTimesOut(c) /\ ~ReceiveTimesOut(c) /\ ~Exit(c)
         /\ Receive(c) => conns[conn[c]].reply = lastId[c]
<1>1. c \in Clients /\ clock[c] \in Nat /\ LoadTime \in Nat /\ Deadline \in Nat
  BY ServiceAssumption DEF OneClientInTime, FaultsInv, TimersTypeOK
<1>2. phase[c] \in {"sending", "waiting"} => conn[c] # NoConn
  BY <1>1 DEF ConnectionsInv, ClientsHold
<1>3. phase[c] \in {"sending", "waiting"} /\ conns[conn[c]].serverOpen => clock[c] < RequestTimeout
  BY <1>1, <1>2, ServiceAssumption DEF OneClientInTime, FaultsInv, AnswerIsInTime, Alive
<1>4. ~SendTimesOut(c) /\ ~ReceiveTimesOut(c)
  BY <1>1, <1>3 DEF SendTimesOut, ReceiveTimesOut
<1>5. Receive(c) => conns[conn[c]].reply = lastId[c]
  BY <1>1 DEF Receive, ConnectionsInv, CallsProgress, Sent, Taken
<1> QED
  BY <1>4, <1>5 DEF Exit, OneClientInTime

LEMMA ClosesKeepsTime ==
  ASSUME NEW c, OneClientInTime(c), ConnectionsInv, FaultsInv(c),
         SendFails(c) \/ ReceiveEof(c)
  PROVE  FaultsInv(c)'
<1> USE DEF FaultsInv
<1>1. /\ c \in Clients /\ faults \in Nat /\ failures[c] \in Nat /\ Faults \in Nat
  BY ServiceAssumption DEF OneClientInTime, TimersTypeOK
<1>2. /\ phase[c] \in {"ready", "sending", "waiting"} /\ ~conns[conn[c]].serverOpen
      /\ ClosesAndThrows(c)
  BY DEF SendFails, ReceiveEof
<1>3. Lost(c) /\ ~Alive(c)
  BY <1>1, <1>2 DEF ConnectionsInv, ClientsHold, Lost, Alive
<1>4. /\ UNCHANGED <<server, serving, wedged, serverClock, stopping, backlog, faults>>
      /\ conn' = [conn EXCEPT ![c] = NoConn] /\ Ended(c, "failed")
  BY <1>2 DEF ClosesAndThrows, serverVars
<1>5. /\ phase'[c] = "idle" /\ clock'[c] = 0 /\ clock' \in [Clients -> Nat]
      /\ failures' \in [Clients -> Nat]
      /\ failures'[c] = failures[c] \/ failures'[c] = failures[c] + 1
  BY <1>1, <1>4, EndedFacts DEF ConnectionsInv
<1>6. ~Alive(c)' /\ ~Lost(c)'
  <2>1. conn'[c] = NoConn
    BY <1>1, <1>4 DEF ConnectionsInv, ConnectionsTypeOK
  <2> QED
    BY <2>1 DEF Alive, Lost
<1>7. wedged => stopping
  BY <1>3 DEF HoldsOnly, TimersRun
<1>8. TimersTypeOK'
  BY <1>4, <1>5 DEF TimersTypeOK
<1>9. HoldsOnly(c)' /\ LosesIt(c)' /\ TimersRun'
  BY <1>3, <1>4, <1>6 DEF HoldsOnly, LosesIt, TimersRun
<1>10. AnswerIsDue(c)' /\ AnswerIsInTime(c)' /\ ConnectIsInTime(c)'
  BY <1>5 DEF AnswerIsDue, AnswerIsInTime, ConnectIsInTime
<1>11. FaultIsPaid(c)'
  <2>1. failures[c] + faults < Faults
    BY <1>3 DEF FaultIsPaid
  <2>2. failures'[c] + faults <= Faults
    BY <1>1, <1>5, <2>1
  <2> QED
    BY <1>4, <1>6, <1>7, <2>2 DEF FaultIsPaid
<1> QED
  BY <1>8, <1>9, <1>10, <1>11

(* Time passes only while the server loads or infers, or between calls.      *)
LEMMA OnlyLoadingTakesTime ==
  ASSUME NEW c, OneClientInTime(c), ConnectionsInv, FaultsInv(c),
         ~ServerCanAct, ~ClientCanAct(c)
  PROVE  /\ phase[c] # "ready"
         /\ phase[c] = "connecting" => stopping /\ server \in {"loading", "inferring"}
         /\ phase[c] \in {"sending", "waiting"} =>
              /\ Alive(c)
              /\ \/ server = "loading"
                 \/ server = "inferring" /\ conns[conn[c]].toServer = "empty"
<1> USE DEF FaultsInv
<1>1. c \in Clients /\ AcceptQueue \in Nat \ {0} /\ Respawns
  BY ServiceAssumption DEF OneClientInTime
<1>2. phase[c] # "ready" /\ server # "down"
  BY <1>1 DEF ClientCanAct, ServerCanAct
<1>3. ASSUME phase[c] = "connecting" PROVE stopping /\ server \in {"loading", "inferring"}
  <2>1. ~Alive(c)
    BY <1>1, <1>3 DEF Alive, ConnectionsInv, ClientsHold
  <2>2. HasRoom
    BY <1>1, <2>1 DEF HasRoom, HoldsOnly
  <2>3. stopping
    BY <1>2, <1>3, <2>2 DEF ClientCanAct, Listening
  <2> QED
    BY <1>2, <2>3 DEF ServerCanAct
<1>4. ASSUME phase[c] \in {"sending", "waiting"}
      PROVE  /\ Alive(c)
             /\ \/ server = "loading"
                \/ server = "inferring" /\ conns[conn[c]].toServer = "empty"
  <2>1. Alive(c)
    BY <1>1, <1>4 DEF Alive, ClientCanAct, ConnectionsInv, ClientsHold
  <2>2. ~stopping /\ server \notin {"accepting", "responding"}
    BY <2>1 DEF LosesIt, HoldsOnly, ServerCanAct
  <2>3. PICK k : k = conn[c]
    OBVIOUS
  <2>4. CASE phase[c] = "sending"
    <3>1. Sending(k, lastId[c]) /\ conns[k].serverOpen
      BY <1>1, <2>1, <2>3, <2>4 DEF ConnectionsInv, CallsProgress, Alive
    <3>2. server \in {"awaiting", "receiving"} => serving = k /\ serving # NoConn
      BY <2>1, <2>3 DEF HoldsOnly, Alive
    <3>3. server # "receiving"
      BY <2>3, <2>4, <3>2 DEF ClientCanAct
    <3>4. server # "awaiting"
      BY <3>1, <3>2 DEF ServerCanAct, Sending
    <3>5. server \notin {"inferring", "responding"}
      BY <2>1, <2>3, <3>1 DEF HoldsOnly, Sending, Serves
    <3> QED
      BY <2>1, <2>2, <3>3, <3>4, <3>5 DEF HoldsOnly
  <2>5. CASE phase[c] = "waiting"
    <3>1. conns[k].reply = 0
      BY <2>3, <2>5 DEF ClientCanAct
    <3>2. server \in {"awaiting", "receiving"} => serving = k /\ serving # NoConn
      BY <2>1, <2>3 DEF HoldsOnly, Alive
    <3>3. conns[k].toServer = "full" => server \notin {"awaiting", "receiving"}
      BY <3>2 DEF ServerCanAct
    <3> QED
      BY <2>1, <2>2, <2>3, <2>5, <3>1, <3>3 DEF AnswerIsDue
  <2> QED
    BY <1>4, <2>4, <2>5
<1> QED
  BY <1>2, <1>3, <1>4

LEMMA TickKeeps ==
  ASSUME NEW c, OneClientInTime(c), ConnectionsInv, FaultsInv(c), Tick
  PROVE  FaultsInv(c)'
<1> USE DEF FaultsInv
<1>1. /\ c \in Clients /\ Urgent /\ LoadTime \in Nat /\ Deadline \in Nat
      /\ ConnectTimeout \in Nat /\ LoadTime < ConnectTimeout /\ Deadline < ConnectTimeout
  BY ServiceAssumption DEF OneClientInTime
<1>2. PICK now \in Nat, waited \in Nat : now = serverClock /\ waited = clock[c]
  BY <1>1 DEF TimersTypeOK
<1>3. /\ UNCHANGED <<server, serving, wedged, stopping, backlog, faults, phase, conn, lastId,
                     failures, conns>>
      /\ Alive(c)' = Alive(c) /\ Lost(c)' = Lost(c)
  BY DEF Tick, Alive, Lost
<1>4. PICK next \in Nat :
        /\ next = serverClock'
        /\ next = IF server \in {"loading", "inferring"} THEN now + 1 ELSE now
  BY <1>2 DEF Tick
<1>5. PICK later \in Nat :
        /\ later = clock'[c]
        /\ later = waited \/ later = waited + 1
        /\ phase[c] = "idle" => later = waited
  BY <1>1, <1>2 DEF Tick
<1>6. clock' \in [Clients -> Nat]
  <2>1. ASSUME NEW d \in Clients PROVE clock[d] + 1 \in Nat /\ clock[d] \in Nat
    BY DEF TimersTypeOK
  <2> QED
    BY <2>1 DEF Tick
<1>7. /\ phase[c] # "ready"
      /\ phase[c] = "connecting" => stopping /\ server \in {"loading", "inferring"}
      /\ phase[c] \in {"sending", "waiting"} =>
           /\ Alive(c)
           /\ \/ server = "loading"
              \/ server = "inferring" /\ conns[conn[c]].toServer = "empty"
  BY <1>1, OnlyLoadingTakesTime DEF Tick
<1>8. /\ server = "loading" => now < LoadTime
      /\ server = "inferring" => now < Deadline /\ (wedged \/ now + 1 < Deadline)
  <2>1. /\ server = "loading" => now # LoadTime
        /\ server = "inferring" => now # Deadline
        /\ server = "inferring" /\ ~wedged => now # Deadline - 1
    BY <1>2 DEF Tick, TimerDue, WatchdogDue
  <2>2. /\ server = "loading" => now <= LoadTime
        /\ server = "inferring" => now <= Deadline /\ (wedged \/ now < Deadline)
    BY <1>2 DEF TimersRun
  <2> QED
    BY <1>1, <1>2, <2>1, <2>2
<1>9. TimersTypeOK'
  BY <1>3, <1>4, <1>6 DEF TimersTypeOK
<1>10. HoldsOnly(c)' /\ LosesIt(c)'
  BY <1>3 DEF HoldsOnly, LosesIt
<1>11. TimersRun'
  <2>1. server = "loading" => next <= LoadTime
    BY <1>1, <1>4, <1>8
  <2>2. server = "inferring" => next <= Deadline /\ (wedged \/ next < Deadline)
    BY <1>1, <1>4, <1>8
  <2> QED
    BY <1>3, <1>4, <2>1, <2>2 DEF TimersRun
<1>12. AnswerIsDue(c)' /\ FaultIsPaid(c)'
  BY <1>3 DEF AnswerIsDue, FaultIsPaid
<1>13. AnswerIsInTime(c)'
  <2>1. phase[c] \in {"idle", "ready"} => later = 0
    BY <1>2, <1>5, <1>7 DEF AnswerIsInTime
  <2>2. ASSUME phase[c] \in {"sending", "waiting"}, server = "loading"
        PROVE  later <= next /\ later <= LoadTime
    <3>1. waited <= now
      BY <1>2, <1>7, <2>2 DEF AnswerIsInTime
    <3> QED
      BY <1>1, <1>4, <1>5, <1>8, <2>2, <3>1
  <2>3. ASSUME phase[c] \in {"sending", "waiting"}, server = "inferring"
        PROVE  later <= LoadTime + next /\ next <= Deadline
    <3>1. waited <= LoadTime + now
      BY <1>2, <1>7, <2>3 DEF AnswerIsInTime
    <3> QED
      BY <1>1, <1>4, <1>5, <1>8, <2>3, <3>1
  <2>4. ASSUME phase[c] \in {"sending", "waiting"} PROVE later <= LoadTime + Deadline
    BY <1>1, <1>7, <2>2, <2>3, <2>4
  <2> QED
    BY <1>3, <1>4, <1>5, <1>7, <2>1, <2>2, <2>3, <2>4 DEF AnswerIsInTime
<1>14. ConnectIsInTime(c)'
  <2> SUFFICES ASSUME phase[c] = "connecting", ~(failures[c] + faults < Faults)
               PROVE  later < ConnectTimeout /\ later <= next
    BY <1>3, <1>4, <1>5 DEF ConnectIsInTime
  <2>1. waited <= now /\ server \in {"loading", "inferring"}
    BY <1>2, <1>7 DEF ConnectIsInTime
  <2> QED
    BY <1>1, <1>4, <1>5, <1>8, <2>1
<1> QED
  BY <1>9, <1>10, <1>11, <1>12, <1>13, <1>14

LEMMA FaultsNextInv ==
  ASSUME NEW c, OneClientInTime(c), ConnectionsInv, FaultsInv(c), [Next]_vars
  PROVE  FaultsInv(c)'
<1>1. CASE ServerStep \/ LoadFails \/ Signal
  BY <1>1, ServerEndsKeeps, ServerMovesKeeps, ServerServesKeeps DEF ServerStep
<1>2. CASE Tick
  BY <1>2, TickKeeps
<1>3. CASE Call(c) \/ CallStep(c) \/ Exit(c)
  BY <1>3, CallMovesKeeps, ConnectKeepsTime, TalkKeepsTime, TimeoutsAreNotReached,
     ClosesKeepsTime DEF CallStep
<1>4. CASE UNCHANGED vars
  <2>1. UNCHANGED <<server, serving, wedged, serverClock, stopping, backlog, faults, phase, conn,
                    lastId, clock, failures, conns>>
    BY <1>4 DEF vars, serverVars, clientVars
  <2> QED
    BY <2>1 DEF FaultsInv, TimersTypeOK, HoldsOnly, LosesIt, TimersRun, AnswerIsDue,
                AnswerIsInTime, FaultIsPaid, ConnectIsInTime, Alive, Lost
<1> QED
  BY <1>1, <1>2, <1>3, <1>4 DEF Next, OneClientInTime

(* Each fault costs the client at most one failed call, and a wedged          *)
(* inference is told by the end of the process before the client gives up:   *)
(* whenever loading and the watchdog's deadline are together shorter than    *)
(* the request timeout, and each shorter than the connect timeout            *)
(* (inference_watchdog.hpp, IpcInferenceBackend).                            *)
THEOREM FaultsCostOneCallHolds ==
  ASSUME NEW only, OneClientInTime(only)
  PROVE  Spec => FaultsCostOneCall
<1>1. ServiceInit => FaultsInv(only)
  BY FaultsInitInv
<1>2. ConnectionsInv /\ FaultsInv(only) /\ [Next]_vars => FaultsInv(only)'
  BY FaultsNextInv
<1>3. FaultsInv(only) => OneErrorPerFault
  BY DEF FaultsInv, FaultIsPaid, OneErrorPerFault, OneClientInTime
<1>4. ConnectionsInv /\ FaultsInv(only) =>
        \A c \in Clients : ReceiveTimesOut(c) => ~(server = "inferring" /\ serving = conn[c])
  BY TimeoutsAreNotReached DEF OneClientInTime
<1>5. Spec => []FaultsInv(only)
  BY <1>1, <1>2, ConnectionsInvHolds, PTL DEF Spec
<1>6. Spec => []OneErrorPerFault
  BY <1>3, <1>5, PTL
<1>7. Spec => WedgeSeenAsEof
  BY <1>4, <1>5, ConnectionsInvHolds, PTL DEF Spec, WedgeSeenAsEof
<1> QED
  BY <1>6, <1>7 DEF FaultsCostOneCall
=============================================================================
