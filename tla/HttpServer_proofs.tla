--------------------------- MODULE HttpServer_proofs ---------------------------
(***************************************************************************)
(* Proofs about HttpServer, for every set of clients and descriptors: the  *)
(* types as long as no second websocket is asked for, and that descriptors *)
(* are neither lost nor used by two if moreover nobody else runs between   *)
(* the two closes of the websocket thread.                                 *)
(***************************************************************************)
EXTENDS HttpServer, WellFoundedInduction, TLAPS

-----------------------------------------------------------------------------
(* The inductive invariants.                                               *)

Things == {Nothing, File, Foreign} \cup {Socket(c) : c \in Clients}
ClientStates ==
    [conn : {"none", "queued", "open"}, asked : BOOLEAN,
     answer : {"none", "upgraded", "answered", "bad"}, gone : BOOLEAN, inbox : BOOLEAN]
HttpStates == [at : HttpLabels, client_fd : Fds \cup {0}, file : Fds \cup {0}]
WsStates == [at : WsLabels, client_fd : Fds \cup {0}]
ServesStates == [http : Clients \cup {NoClient}, ws : Clients \cup {NoClient}]

\* The types, of the functions and records as such,
ValueTypes ==
    /\ fd \in [Fds -> Things] /\ client \in [Clients -> ClientStates]
    /\ http \in HttpStates /\ ws \in WsStates /\ serves \in ServesStates
    /\ websocket_connected \in BOOLEAN /\ websocket_client_fd \in Fds \cup {0} /\ due \in BOOLEAN
    /\ foreign \in SUBSET Fds

\* what a thread uses is a descriptor, and given to it with a connection,
InUse ==
    /\ http.at # "accept" => http.client_fd \in Fds /\ serves.http \in Clients
    /\ http.at = "send" => http.file \in Fds
    /\ http.at # "send" => http.file = 0
    /\ ws.at # "none" => ws.client_fd \in Fds /\ serves.ws \in Clients

\* and a connection is handed to a thread that is not there yet, as long as a second
\* websocket is not asked for.
HandOver ==
    /\ http.at \in {"handshake", "create"} => ws.at = "none"
    /\ websocket_connected <=> ws.at \in {"select", "publish", "close", "clear"}

TypeInv == ValueTypes /\ InUse /\ HandOver

\* What an owner takes for its own is what the descriptor stands for; between its two
\* closes the descriptor of the websocket thread is not given out again.
WsHolds == {"start", "select", "publish", "close"}

Owned ==
    /\ http.at # "accept" => fd[http.client_fd] = Socket(serves.http)
    /\ http.at = "send" => fd[http.file] = File
    /\ ws.at \in WsHolds => fd[ws.client_fd] = Socket(serves.ws)
    /\ ws.at \in {"clear", "close_again"} => fd[ws.client_fd] = Nothing
    /\ \A f \in foreign : fd[f] = Foreign

\* What a descriptor stands for has an owner, or is the connection of a bad request,
NoneLost ==
    \A f \in Fds :
        /\ fd[f] = File => http.at = "send" /\ f = http.file
        /\ fd[f] = Foreign => f \in foreign
        /\ \A c \in Clients : fd[f] = Socket(c) =>
              /\ client[c].conn = "open"
              /\ \/ http.at # "accept" /\ f = http.client_fd
                 \/ ws.at \in WsHolds /\ f = ws.client_fd
                 \/ client[c].answer = "bad"

\* a connection has one socket,
OneSocket == \A f, g \in Fds, c \in Clients : fd[f] = Socket(c) /\ fd[g] = Socket(c) => f = g

\* and how far its answer is tells which of the threads serves it.
Answers ==
    /\ \A c \in Clients : client[c].conn # "open" => client[c].answer = "none"
    /\ http.at \in {"recv", "bad", "reject", "status", "stat", "send", "handshake"} =>
          client[serves.http].answer = "none"
    /\ http.at = "close" => client[serves.http].answer \in {"none", "answered"}
    /\ http.at = "create" => client[serves.http].answer = "upgraded"
    /\ ws.at \in WsHolds => client[serves.ws].answer = "upgraded"

OwnInv == Owned /\ NoneLost /\ OneSocket /\ Answers

-----------------------------------------------------------------------------
(* Descriptors.                                                            *)

\* A set of numbers that is not empty has a least one,
LEMMA LeastOfNumbers ==
    ASSUME NEW S \in SUBSET Nat, S # {}
    PROVE  Min(S) \in S
<1>1. PICK i \in S : \A j \in S : ~(<<j, i>> \in OpToRel(<, Nat))
  BY NatLessThanWellFounded, WFMin, Zenon
<1>2. \A j \in S : ~(j < i)
  BY <1>1 DEF OpToRel
<1>3. \E k \in S : \A j \in S : k =< j
  BY <1>2
<1> QED
  BY <1>3 DEF Min

\* so the descriptor that is given out is a free one.
LEMMA LowestIsFree ==
    ASSUME Free # {}
    PROVE  Lowest \in Fds /\ fd[Lowest] = Nothing
<1>1. Free \in SUBSET Nat
  BY HttpConstants DEF Free
<1>2. Lowest \in Free
  BY <1>1, LeastOfNumbers DEF Lowest
<1> QED
  BY <1>2 DEF Free

\* The things a descriptor can stand for are told apart, and a socket tells its client.
LEMMA ThingsDiffer ==
    /\ Nothing # File /\ Nothing # Foreign /\ File # Foreign
    /\ Nothing.kind = "nothing" /\ File.kind = "file" /\ Foreign.kind = "foreign"
    /\ \A c : /\ Socket(c) \notin {Nothing, File, Foreign}
              /\ Socket(c).kind = "socket" /\ Socket(c).of = c
              /\ \A d : Socket(c) = Socket(d) => c = d
<1>1. Nothing.kind = "nothing" /\ File.kind = "file" /\ Foreign.kind = "foreign"
  BY DEF Nothing, File, Foreign
<1>2. \A c : Socket(c).kind = "socket" /\ Socket(c).of = c
  BY DEF Socket
<1> QED
  BY <1>1, <1>2

\* Closing frees the descriptor; the client of a socket is gone.
LEMMA Closes ==
    ASSUME ValueTypes, NEW f \in Fds, Close(f)
    PROVE  /\ fd' \in [Fds -> Things] /\ client' \in [Clients -> ClientStates]
           /\ fd'[f] = Nothing /\ \A g \in Fds \ {f} : fd'[g] = fd[g]
           /\ \A c \in Clients : client'[c] = IF fd[f] = Socket(c) THEN Absent ELSE client[c]
<1>1. Absent \in ClientStates
  BY DEF Absent, ClientStates
<1>2. Nothing \in Things
  BY DEF Things
<1>3. /\ fd' \in [Fds -> Things]
      /\ fd'[f] = Nothing /\ \A g \in Fds \ {f} : fd'[g] = fd[g]
  BY <1>2 DEF Close, ValueTypes
<1>4. fd[f] \in Things
  BY DEF ValueTypes
<1>5. CASE fd[f].kind = "socket"
  <2>1. PICK d \in Clients : fd[f] = Socket(d) /\ fd[f].of = d
    BY <1>4, <1>5, ThingsDiffer DEF Things
  <2>2. client' = [client EXCEPT ![d] = Absent]
    BY <1>5, <2>1 DEF Close
  <2>3. \A c \in Clients : fd[f] = Socket(c) <=> c = d
    BY <2>1, ThingsDiffer
  <2>4. client' \in [Clients -> ClientStates]
    BY <1>1, <2>2 DEF ValueTypes
  <2>5. \A c \in Clients : client'[c] = IF c = d THEN Absent ELSE client[c]
    BY <2>2 DEF ValueTypes
  <2> QED
    BY <1>3, <2>3, <2>4, <2>5
<1>6. CASE fd[f].kind # "socket"
  <2>1. \A c \in Clients : fd[f] # Socket(c)
    BY <1>6, ThingsDiffer
  <2>2. client' = client
    BY <1>6 DEF Close
  <2> QED
    BY <1>3, <2>1, <2>2 DEF ValueTypes
<1> QED
  BY <1>5, <1>6

\* What is sent answers the client whose socket it is sent to, if any.
LEMMA Sends ==
    ASSUME ValueTypes, NEW f \in Fds, NEW what \in {"upgraded", "answered", "bad"}, Send(f, what)
    PROVE  /\ client' \in [Clients -> ClientStates]
           /\ \A c \in Clients :
                /\ client'[c].conn = client[c].conn
                /\ client'[c].answer = IF fd[f] = Socket(c) THEN what ELSE client[c].answer
<1>1. fd[f] \in Things
  BY DEF ValueTypes
<1>2. CASE fd[f].kind = "socket"
  <2>1. PICK d \in Clients : fd[f] = Socket(d) /\ fd[f].of = d
    BY <1>1, <1>2, ThingsDiffer DEF Things
  <2>2. client' = [client EXCEPT ![d].answer = what]
    BY <1>2, <2>1 DEF Send
  <2>3. \A c \in Clients : fd[f] = Socket(c) <=> c = d
    BY <2>1, ThingsDiffer
  <2>4. client' \in [Clients -> ClientStates]
    BY <2>2 DEF ValueTypes, ClientStates
  <2>5. \A c \in Clients : /\ client'[c].conn = client[c].conn
                           /\ client'[c].answer = IF c = d THEN what ELSE client[c].answer
    BY <2>2 DEF ValueTypes, ClientStates
  <2> QED
    BY <2>3, <2>4, <2>5
<1>3. CASE fd[f].kind # "socket"
  <2>1. \A c \in Clients : fd[f] # Socket(c)
    BY <1>3, ThingsDiffer
  <2>2. client' = client
    BY <1>3 DEF Send
  <2> QED
    BY <2>1, <2>2 DEF ValueTypes
<1> QED
  BY <1>2, <1>3

-----------------------------------------------------------------------------
(* Types.                                                                  *)

\* Every step keeps the types.
LEMMA TypesStep ==
    ASSUME "second_upgrade" \notin Env, TypeInv, [Next]_vars
    PROVE  TypeInv'
<1> USE DEF TypeInv, websocket
<1>t. /\ 0 \in Fds \cup {0} /\ Fds \subseteq Fds \cup {0}
      /\ Nothing \in Things /\ File \in Things /\ Foreign \in Things /\ \A c \in Clients : Socket(c) \in Things
  BY DEF Things
<1>1. ASSUME NEW c \in Clients, Accept(c)
      PROVE  TypeInv'
  <2>u. UNCHANGED <<ws, websocket_connected, websocket_client_fd, due, foreign>>
    BY <1>1 DEF Accept
  <2>1. ValueTypes'
    <3>a. CASE Free # {}
      <4>1. Lowest \in Fds /\ Lowest \in Fds \cup {0} /\ Socket(c) \in Things
        BY <1>t, <3>a, LowestIsFree
      <4>2. http' \in HttpStates /\ serves' \in ServesStates
        BY <1>1, <3>a, <4>1 DEF Accept, ValueTypes, HttpStates, HttpLabels, ServesStates
      <4>3. fd' \in [Fds -> Things]
        BY <1>1, <3>a, <4>1 DEF Accept, ValueTypes
      <4>4. client' \in [Clients -> ClientStates]
        BY <1>1, <3>a DEF Accept, ValueTypes, ClientStates
      <4> QED
        BY <2>u, <4>2, <4>3, <4>4 DEF ValueTypes
    <3>b. CASE Free = {}
      <4>1. Absent \in ClientStates
        BY DEF Absent, ClientStates
      <4>2. client' \in [Clients -> ClientStates]
        BY <1>1, <3>b, <4>1 DEF Accept, ValueTypes
      <4>3. UNCHANGED <<fd, http, serves>>
        BY <1>1, <3>b DEF Accept
      <4> QED
        BY <2>u, <4>2, <4>3 DEF ValueTypes
    <3> QED
      BY <3>a, <3>b
  <2>2. InUse'
    BY LowestIsFree, <1>1 DEF InUse, Accept, ValueTypes, HttpAt, HttpStates, WsStates, ServesStates
  <2>3. HandOver'
    BY <1>1 DEF HandOver, Accept, HttpAt, ValueTypes, HttpStates, WsStates
  <2> QED
    BY <2>1, <2>2, <2>3
<1>2. CASE ProcessRequest
  <2>1. ValueTypes'
    BY <1>t, <1>2 DEF ValueTypes, ProcessRequest, HttpAt, HttpGoto, Route, Requests, Asked, HttpStates, HttpLabels
  <2>2. InUse'
    BY <1>2 DEF InUse, ProcessRequest, ValueTypes, HttpAt, HttpGoto, Route, Requests, Asked, HttpStates, WsStates, ServesStates
  <2>3. HandOver'
    BY <1>2 DEF HandOver, ProcessRequest, HttpAt, HttpGoto, Route, Requests, Asked, ValueTypes, HttpStates, WsStates
  <2> QED
    BY <2>1, <2>2, <2>3
<1>3. CASE BadRequest
  <2>0. client' \in [Clients -> ClientStates]
    BY <1>3, Sends DEF BadRequest, HttpAt, ValueTypes, InUse
  <2>1. ValueTypes'
    BY <1>t, <2>0, <1>3 DEF ValueTypes, BadRequest, HttpAt, HttpGoto, HttpStates, HttpLabels
  <2>2. InUse'
    BY <1>3 DEF InUse, BadRequest, ValueTypes, HttpAt, HttpGoto, HttpStates, WsStates, ServesStates
  <2>3. HandOver'
    BY <1>3 DEF HandOver, BadRequest, HttpAt, HttpGoto, ValueTypes, HttpStates, WsStates
  <2> QED
    BY <2>1, <2>2, <2>3
<1>4. CASE Reject
  <2>0. client' \in [Clients -> ClientStates]
    BY <1>4, Sends DEF Reject, HttpAt, ValueTypes, InUse
  <2>1. ValueTypes'
    BY <1>t, <2>0, <1>4 DEF ValueTypes, Reject, HttpAt, HttpGoto, HttpStates, HttpLabels
  <2>2. InUse'
    BY <1>4 DEF InUse, Reject, ValueTypes, HttpAt, HttpGoto, HttpStates, WsStates, ServesStates
  <2>3. HandOver'
    BY <1>4 DEF HandOver, Reject, HttpAt, HttpGoto, ValueTypes, HttpStates, WsStates
  <2> QED
    BY <2>1, <2>2, <2>3
<1>5. CASE HandleStatusRequest
  <2>0. client' \in [Clients -> ClientStates]
    BY <1>5, Sends DEF HandleStatusRequest, HttpAt, ValueTypes, InUse
  <2>1. ValueTypes'
    BY <1>t, <2>0, <1>5 DEF ValueTypes, HandleStatusRequest, HttpAt, HttpGoto, HttpStates, HttpLabels
  <2>2. InUse'
    BY <1>5 DEF InUse, HandleStatusRequest, ValueTypes, HttpAt, HttpGoto, HttpStates, WsStates, ServesStates
  <2>3. HandOver'
    BY <1>5 DEF HandOver, HandleStatusRequest, HttpAt, HttpGoto, ValueTypes, HttpStates, WsStates
  <2> QED
    BY <2>1, <2>2, <2>3
<1>6. CASE OpenFile
  <2>0. client' \in [Clients -> ClientStates]
    BY <1>6, Sends DEF OpenFile, HttpAt, ValueTypes, InUse
  <2>a. http' \in HttpStates
    BY <1>t, <1>6, LowestIsFree DEF OpenFile, HttpGoto, ValueTypes, HttpStates, HttpLabels
  <2>b. fd' \in [Fds -> Things]
    BY <1>t, <1>6, LowestIsFree DEF OpenFile, ValueTypes
  <2>1. ValueTypes'
    BY <1>6, <2>0, <2>a, <2>b DEF OpenFile, ValueTypes
  <2>2. InUse'
    BY LowestIsFree, <1>6 DEF InUse, OpenFile, ValueTypes, HttpAt, HttpGoto, HttpStates, WsStates, ServesStates
  <2>3. HandOver'
    BY <1>6 DEF HandOver, OpenFile, HttpAt, HttpGoto, ValueTypes, HttpStates, WsStates
  <2> QED
    BY <2>1, <2>2, <2>3
<1>7. CASE SendFile
  <2>0. client' \in [Clients -> ClientStates]
    BY <1>7, Sends DEF SendFile, HttpAt, ValueTypes, InUse
  <2>1. ValueTypes'
    BY <1>t, <2>0, <1>7 DEF ValueTypes, SendFile, HttpAt, HttpStates, HttpLabels
  <2>2. InUse'
    BY <1>7 DEF InUse, SendFile, ValueTypes, HttpAt, HttpStates, WsStates, ServesStates
  <2>3. HandOver'
    BY <1>7 DEF HandOver, SendFile, HttpAt, ValueTypes, HttpStates, WsStates
  <2> QED
    BY <2>1, <2>2, <2>3
<1>8. CASE CloseClient
  <2>0. client' \in [Clients -> ClientStates] /\ fd' \in [Fds -> Things]
    BY <1>8, Closes DEF CloseClient, HttpAt, InUse
  <2>1. ValueTypes'
    BY <1>t, <2>0, <1>8 DEF ValueTypes, CloseClient, HttpAt, HttpGoto, HttpStates, HttpLabels
  <2>2. InUse'
    BY <1>8 DEF InUse, CloseClient, ValueTypes, HttpAt, HttpGoto, HttpStates, WsStates, ServesStates
  <2>3. HandOver'
    BY <1>8 DEF HandOver, CloseClient, HttpAt, HttpGoto, ValueTypes, HttpStates, WsStates
  <2> QED
    BY <2>1, <2>2, <2>3
<1>9. CASE ProcessWebsocketHandshake
  <2>0. client' \in [Clients -> ClientStates]
    BY <1>9, Sends DEF ProcessWebsocketHandshake, HttpAt, ValueTypes, InUse
  <2>1. ValueTypes'
    BY <1>t, <2>0, <1>9 DEF ValueTypes, ProcessWebsocketHandshake, HttpAt, HttpGoto, HttpStates, HttpLabels
  <2>2. InUse'
    BY <1>9 DEF InUse, ProcessWebsocketHandshake, ValueTypes, HttpAt, HttpGoto, HttpStates, WsStates, ServesStates
  <2>3. HandOver'
    BY <1>9 DEF HandOver, ProcessWebsocketHandshake, HttpAt, HttpGoto, ValueTypes, HttpStates, WsStates
  <2> QED
    BY <2>1, <2>2, <2>3
<1>10. CASE CreateWebsocketThread
  <2>1. ValueTypes'
    BY <1>t, <1>10 DEF ValueTypes, CreateWebsocketThread, HttpAt, HttpGoto, HttpStates, HttpLabels, WsStates, WsLabels, ServesStates, InUse
  <2>2. InUse'
    BY <1>10 DEF InUse, CreateWebsocketThread, ValueTypes, HttpAt, HttpGoto, HttpStates, WsStates, ServesStates
  <2>3. HandOver'
    BY <1>10 DEF HandOver, CreateWebsocketThread, HttpAt, HttpGoto, ValueTypes, HttpStates, WsStates
  <2> QED
    BY <2>1, <2>2, <2>3
<1>11. CASE WsConnected
  <2>1. ValueTypes'
    BY <1>t, <1>11 DEF ValueTypes, WsConnected, WsGoto, WsStates, WsLabels
  <2>2. InUse'
    BY <1>11 DEF InUse, WsConnected, ValueTypes, WsGoto, HttpStates, WsStates, ServesStates
  <2>3. HandOver'
    BY <1>11 DEF HandOver, WsConnected, WsGoto, ValueTypes, HttpStates, WsStates
  <2> QED
    BY <2>1, <2>2, <2>3
<1>12. CASE WsReceive
  <2>a. ws' \in WsStates
    BY <1>12 DEF WsReceive, WsGoto, ValueTypes, WsStates, WsLabels
  <2>b. client' \in [Clients -> ClientStates]
    <3>1. PICK c : c = fd[ws.client_fd].of
      OBVIOUS
    <3>2. client' = client \/ client' = [client EXCEPT ![c].inbox = FALSE]
      BY <1>12, <3>1 DEF WsReceive, Received
    <3>3. [client EXCEPT ![c].inbox = FALSE] \in [Clients -> ClientStates]
      BY DEF ValueTypes, ClientStates
    <3> QED
      BY <3>2, <3>3 DEF ValueTypes
  <2>1. ValueTypes'
    BY <1>12, <2>a, <2>b DEF WsReceive, ValueTypes
  <2>2. InUse'
    BY <1>12 DEF InUse, WsReceive, ValueTypes, WsGoto, HttpStates, WsStates, ServesStates
  <2>3. HandOver'
    BY <1>12 DEF HandOver, WsReceive, WsGoto, ValueTypes, HttpStates, WsStates
  <2> QED
    BY <2>1, <2>2, <2>3
<1>13. CASE SendStatusUpdate
  <2>1. ValueTypes'
    BY <1>t, <1>13 DEF ValueTypes, SendStatusUpdate, WsGoto, WsStates, WsLabels
  <2>2. InUse'
    BY <1>13 DEF InUse, SendStatusUpdate, ValueTypes, WsGoto, HttpStates, WsStates, ServesStates
  <2>3. HandOver'
    BY <1>13 DEF HandOver, SendStatusUpdate, WsGoto, ValueTypes, HttpStates, WsStates
  <2> QED
    BY <2>1, <2>2, <2>3
<1>14. CASE WsClose
  <2>0. client' \in [Clients -> ClientStates] /\ fd' \in [Fds -> Things]
    BY <1>14, Closes DEF WsClose, HttpAt, InUse
  <2>1. ValueTypes'
    BY <1>t, <2>0, <1>14 DEF ValueTypes, WsClose, WsGoto, WsStates, WsLabels
  <2>2. InUse'
    BY <1>14 DEF InUse, WsClose, ValueTypes, WsGoto, HttpStates, WsStates, ServesStates
  <2>3. HandOver'
    BY <1>14 DEF HandOver, WsClose, WsGoto, ValueTypes, HttpStates, WsStates
  <2> QED
    BY <2>1, <2>2, <2>3
<1>15. CASE WsClear
  <2>1. ValueTypes'
    BY <1>t, <1>15 DEF ValueTypes, WsClear, WsGoto, WsStates, WsLabels
  <2>2. InUse'
    BY <1>15 DEF InUse, WsClear, ValueTypes, WsGoto, HttpStates, WsStates, ServesStates
  <2>3. HandOver'
    BY <1>15 DEF HandOver, WsClear, WsGoto, ValueTypes, HttpStates, WsStates
  <2> QED
    BY <2>1, <2>2, <2>3
<1>16. CASE WsCloseAgain
  <2>0. client' \in [Clients -> ClientStates] /\ fd' \in [Fds -> Things]
    BY <1>16, Closes DEF WsCloseAgain, HttpAt, InUse
  <2>1. ValueTypes'
    BY <1>t, <2>0, <1>16 DEF ValueTypes, WsCloseAgain, WsGoto, WsStates, WsLabels
  <2>2. InUse'
    BY <1>16 DEF InUse, WsCloseAgain, ValueTypes, WsGoto, HttpStates, WsStates, ServesStates
  <2>3. HandOver'
    BY <1>16 DEF HandOver, WsCloseAgain, WsGoto, ValueTypes, HttpStates, WsStates
  <2> QED
    BY <2>1, <2>2, <2>3
<1>17. ASSUME NEW c \in Clients, Connect(c)
      PROVE  TypeInv'
  <2>1. ValueTypes'
    BY <1>t, <1>17 DEF ValueTypes, Connect, Quiet, ClientStates, Absent, Received
  <2>2. InUse'
    BY <1>17 DEF InUse, Connect, ValueTypes, Quiet, HttpStates, WsStates, ServesStates
  <2>3. HandOver'
    BY <1>17 DEF HandOver, Connect, Quiet, ValueTypes, HttpStates, WsStates
  <2> QED
    BY <2>1, <2>2, <2>3
<1>18. ASSUME NEW c \in Clients, Ask(c)
      PROVE  TypeInv'
  <2>1. ValueTypes'
    BY <1>t, <1>18 DEF ValueTypes, Ask, Quiet, ClientStates, Absent, Received
  <2>2. InUse'
    BY <1>18 DEF InUse, Ask, ValueTypes, Quiet, HttpStates, WsStates, ServesStates
  <2>3. HandOver'
    BY <1>18 DEF HandOver, Ask, Quiet, ValueTypes, HttpStates, WsStates
  <2> QED
    BY <2>1, <2>2, <2>3
<1>19. ASSUME NEW c \in Clients, SendFrame(c)
      PROVE  TypeInv'
  <2>1. ValueTypes'
    BY <1>t, <1>19 DEF ValueTypes, SendFrame, Quiet, ClientStates, Absent, Received
  <2>2. InUse'
    BY <1>19 DEF InUse, SendFrame, ValueTypes, Quiet, HttpStates, WsStates, ServesStates
  <2>3. HandOver'
    BY <1>19 DEF HandOver, SendFrame, Quiet, ValueTypes, HttpStates, WsStates
  <2> QED
    BY <2>1, <2>2, <2>3
<1>20. ASSUME NEW c \in Clients, Leave(c)
      PROVE  TypeInv'
  <2>1. ValueTypes'
    BY <1>t, <1>20 DEF ValueTypes, Leave, Quiet, ClientStates, Absent, Received
  <2>2. InUse'
    BY <1>20 DEF InUse, Leave, ValueTypes, Quiet, HttpStates, WsStates, ServesStates
  <2>3. HandOver'
    BY <1>20 DEF HandOver, Leave, Quiet, ValueTypes, HttpStates, WsStates
  <2> QED
    BY <2>1, <2>2, <2>3
<1>21. CASE IntervalPasses
  <2>1. ValueTypes'
    BY <1>t, <1>21 DEF ValueTypes, IntervalPasses
  <2>2. InUse'
    BY <1>21 DEF InUse, IntervalPasses, ValueTypes, HttpStates, WsStates, ServesStates
  <2>3. HandOver'
    BY <1>21 DEF HandOver, IntervalPasses, ValueTypes, HttpStates, WsStates
  <2> QED
    BY <2>1, <2>2, <2>3
<1>22. CASE OpenForeign
  <2>1. ValueTypes'
    BY <1>t, LowestIsFree, <1>22 DEF ValueTypes, OpenForeign
  <2>2. InUse'
    BY LowestIsFree, <1>22 DEF InUse, OpenForeign, ValueTypes, HttpStates, WsStates, ServesStates
  <2>3. HandOver'
    BY <1>22 DEF HandOver, OpenForeign, ValueTypes, HttpStates, WsStates
  <2> QED
    BY <2>1, <2>2, <2>3
<1>23. ASSUME NEW f \in Fds, CloseForeign(f)
      PROVE  TypeInv'
  <2>0. client' \in [Clients -> ClientStates] /\ fd' \in [Fds -> Things]
    BY <1>23, Closes DEF CloseForeign, HttpAt, InUse
  <2>1. ValueTypes'
    BY <1>t, <2>0, <1>23 DEF ValueTypes, CloseForeign
  <2>2. InUse'
    BY <1>23 DEF InUse, CloseForeign, ValueTypes, HttpStates, WsStates, ServesStates
  <2>3. HandOver'
    BY <1>23 DEF HandOver, CloseForeign, ValueTypes, HttpStates, WsStates
  <2> QED
    BY <2>1, <2>2, <2>3
<1>24. CASE UNCHANGED vars
  BY <1>24 DEF vars, ValueTypes, InUse, HandOver
<1> QED
  BY <1>1, <1>2, <1>3, <1>4, <1>5, <1>6, <1>7, <1>8, <1>9, <1>10, <1>11, <1>12, <1>13, <1>14, <1>15, <1>16, <1>17, <1>18, <1>19, <1>20, <1>21, <1>22, <1>23, <1>24
     DEF Next, PlcHttpServer, PlcWebsocketServer, Client

\* TypeOK follows from the types.
LEMMA TypesGive ==
    ASSUME TypeInv
    PROVE  TypeOK
<1>1. ValueTypes /\ HandOver
  BY DEF TypeInv
<1>2. serves \in [{"http", "ws"} -> Clients \cup {NoClient}]
  BY <1>1 DEF ValueTypes, ServesStates
<1>3. \A f \in Fds : fd[f] \in {Nothing, File, Foreign} \cup {Socket(c) : c \in Clients}
  BY <1>1 DEF ValueTypes, Things
<1>4. websocket_connected = (ws.at \in {"select", "publish", "close", "clear"})
  BY <1>1 DEF ValueTypes, HandOver
<1> QED
  BY <1>1, <1>2, <1>3, <1>4 DEF TypeOK, ValueTypes, ClientStates, HttpStates, WsStates

\* They hold at the start.
LEMMA TypesStart ==
    ASSUME Init
    PROVE  TypeInv
<1>1. Nothing \in Things /\ Absent \in ClientStates
  BY DEF Things, Absent, ClientStates
<1>2. ValueTypes
  BY <1>1 DEF Init, ValueTypes, HttpStates, HttpLabels, WsStates, WsLabels, ServesStates
<1>3. InUse /\ HandOver
  BY DEF Init, InUse, HandOver
<1> QED
  BY <1>2, <1>3 DEF TypeInv

\* As long as no second websocket is asked for, every variable keeps its type, and
\* the flag websocket_connected tells where the websocket thread is.
THEOREM TypesKept ==
    ASSUME "second_upgrade" \notin Env
    PROVE  Spec => []TypeOK
<1>1. Init => TypeInv
  BY TypesStart
<1>2. TypeInv /\ [Next]_vars => TypeInv'
  BY TypesStep
<1>3. TypeInv => TypeOK
  BY TypesGive
<1> QED
  BY <1>1, <1>2, <1>3, PTL DEF Spec

-----------------------------------------------------------------------------
(* Owners.                                                                 *)

\* Every step keeps the account of the descriptors, if no second websocket is asked
\* for and a thread only loses the processor where it blocks.
LEMMA OwnersStep ==
    ASSUME "second_upgrade" \notin Env, "preempted" \notin Env, TypeInv, OwnInv, [Next]_vars
    PROVE  OwnInv'
<1> USE DEF websocket
<1>0. /\ ValueTypes /\ InUse /\ HandOver /\ Owned /\ NoneLost /\ OneSocket /\ Answers
      /\ TypeInv'
  BY TypesStep DEF TypeInv, OwnInv
<1>d. /\ Nothing # File /\ Nothing # Foreign /\ File # Foreign
      /\ \A c \in Clients : Socket(c) # Nothing /\ Socket(c) # File /\ Socket(c) # Foreign
      /\ \A c, d \in Clients : Socket(c) = Socket(d) => c = d
  BY ThingsDiffer
<1>h. http.at # "accept" =>
        /\ http.client_fd \in Fds /\ serves.http \in Clients
        /\ fd[http.client_fd] = Socket(serves.http)
        /\ \A c \in Clients : fd[http.client_fd] = Socket(c) <=> c = serves.http
        /\ \A f \in Fds : fd[f] = Socket(serves.http) => f = http.client_fd
        /\ client[serves.http].conn = "open"
  BY <1>0, <1>d DEF InUse, Owned, OneSocket, NoneLost
<1>w. ws.at \in WsHolds =>
        /\ ws.client_fd \in Fds /\ serves.ws \in Clients
        /\ fd[ws.client_fd] = Socket(serves.ws)
        /\ \A c \in Clients : fd[ws.client_fd] = Socket(c) <=> c = serves.ws
        /\ \A f \in Fds : fd[f] = Socket(serves.ws) => f = ws.client_fd
        /\ client[serves.ws].conn = "open"
  BY <1>0, <1>d DEF InUse, Owned, OneSocket, NoneLost, WsHolds
<1>f. /\ http.at = "send" => http.file \in Fds /\ fd[http.file] = File
      /\ ws.at # "none" => ws.client_fd \in Fds
      /\ \A f \in foreign : f \in Fds /\ fd[f] = Foreign
  BY <1>0 DEF InUse, Owned, ValueTypes
<1>a. http.at # "accept" /\ ws.at \in WsHolds => serves.http # serves.ws /\ http.client_fd # ws.client_fd
  <2>1. http.at # "accept" /\ ws.at \in WsHolds => serves.http # serves.ws
    BY <1>0 DEF Answers, HandOver, WsHolds, ValueTypes, HttpStates, HttpLabels
  <2> QED
    BY <1>h, <1>w, <2>1
<1>p. \A t \in {"http", "client", "time", "foreign"} : Runs(t) => ws.at \notin {"clear", "close_again"}
  BY DEF Runs
<1>1. CASE ProcessRequest
  <2>e. /\ http.at = "recv" /\ http'.at \in {"bad", "reject", "status", "stat", "handshake"}
        /\ http'.client_fd = http.client_fd /\ UNCHANGED <<fd, client, ws, serves, foreign>>
    BY <1>0, <1>p, <1>1 DEF ProcessRequest, Requests, Route, HttpAt, HttpGoto, ValueTypes, HttpStates
  <2>1. Owned'
    BY <1>0, <1>d, <1>h, <1>w, <1>a, <1>f, <2>e DEF Owned, WsHolds
  <2>2. NoneLost'
    BY <1>0, <1>d, <1>h, <1>w, <1>a, <1>f, <2>e DEF NoneLost, WsHolds
  <2>3. OneSocket'
    BY <1>0, <1>d, <1>h, <1>w, <1>a, <1>f, <2>e DEF OneSocket, WsHolds
  <2>4. Answers'
    BY <1>0, <1>d, <1>h, <1>w, <1>a, <1>f, <2>e DEF Answers, WsHolds
  <2> QED
    BY <2>1, <2>2, <2>3, <2>4 DEF OwnInv
<1>2. CASE BadRequest
  <2>s. /\ \A c \in Clients : client'[c].conn = client[c].conn
        /\ client'[serves.http].answer = "bad"
        /\ \A c \in Clients \ {serves.http} : client'[c].answer = client[c].answer
    BY <1>0, <1>h, <1>2, Sends DEF BadRequest, HttpAt
  <2>e. /\ http.at = "bad" /\ http'.at = "accept" /\ http'.client_fd = http.client_fd
        /\ UNCHANGED <<fd, ws, serves, foreign>>
    BY <1>0, <1>p, <1>2 DEF BadRequest, HttpAt, HttpGoto, ValueTypes, HttpStates
  <2>1. Owned'
    BY <1>0, <1>d, <1>h, <1>w, <1>a, <1>f, <2>e, <2>s DEF Owned, WsHolds
  <2>2. NoneLost'
    BY <1>0, <1>d, <1>h, <1>w, <1>a, <1>f, <2>e, <2>s DEF NoneLost, WsHolds
  <2>3. OneSocket'
    BY <1>0, <1>d, <1>h, <1>w, <1>a, <1>f, <2>e, <2>s DEF OneSocket, WsHolds
  <2>4. Answers'
    BY <1>0, <1>d, <1>h, <1>w, <1>a, <1>f, <2>e, <2>s DEF Answers, WsHolds
  <2> QED
    BY <2>1, <2>2, <2>3, <2>4 DEF OwnInv
<1>3. CASE Reject
  <2>s. /\ \A c \in Clients : client'[c].conn = client[c].conn
        /\ client'[serves.http].answer = "answered"
        /\ \A c \in Clients \ {serves.http} : client'[c].answer = client[c].answer
    BY <1>0, <1>h, <1>3, Sends DEF Reject, HttpAt
  <2>e. /\ http.at = "reject" /\ http'.at = "close" /\ http'.client_fd = http.client_fd
        /\ UNCHANGED <<fd, ws, serves, foreign>>
    BY <1>0, <1>p, <1>3 DEF Reject, HttpAt, HttpGoto, ValueTypes, HttpStates
  <2>1. Owned'
    BY <1>0, <1>d, <1>h, <1>w, <1>a, <1>f, <2>e, <2>s DEF Owned, WsHolds
  <2>2. NoneLost'
    BY <1>0, <1>d, <1>h, <1>w, <1>a, <1>f, <2>e, <2>s DEF NoneLost, WsHolds
  <2>3. OneSocket'
    BY <1>0, <1>d, <1>h, <1>w, <1>a, <1>f, <2>e, <2>s DEF OneSocket, WsHolds
  <2>4. Answers'
    BY <1>0, <1>d, <1>h, <1>w, <1>a, <1>f, <2>e, <2>s DEF Answers, WsHolds
  <2> QED
    BY <2>1, <2>2, <2>3, <2>4 DEF OwnInv
<1>4. CASE ProcessWebsocketHandshake
  <2>s. /\ \A c \in Clients : client'[c].conn = client[c].conn
        /\ client'[serves.http].answer = "upgraded"
        /\ \A c \in Clients \ {serves.http} : client'[c].answer = client[c].answer
    BY <1>0, <1>h, <1>4, Sends DEF ProcessWebsocketHandshake, HttpAt
  <2>e. /\ http.at = "handshake" /\ http'.at = "create" /\ http'.client_fd = http.client_fd
        /\ UNCHANGED <<fd, ws, serves, foreign>>
    BY <1>0, <1>p, <1>4 DEF ProcessWebsocketHandshake, HttpAt, HttpGoto, ValueTypes, HttpStates
  <2>1. Owned'
    BY <1>0, <1>d, <1>h, <1>w, <1>a, <1>f, <2>e, <2>s DEF Owned, WsHolds
  <2>2. NoneLost'
    BY <1>0, <1>d, <1>h, <1>w, <1>a, <1>f, <2>e, <2>s DEF NoneLost, WsHolds
  <2>3. OneSocket'
    BY <1>0, <1>d, <1>h, <1>w, <1>a, <1>f, <2>e, <2>s DEF OneSocket, WsHolds
  <2>4. Answers'
    BY <1>0, <1>d, <1>h, <1>w, <1>a, <1>f, <2>e, <2>s DEF Answers, WsHolds
  <2> QED
    BY <2>1, <2>2, <2>3, <2>4 DEF OwnInv
<1>5. CASE HandleStatusRequest
  <2>s. /\ \A c \in Clients : client'[c].conn = client[c].conn
        /\ client'[serves.http].answer \in {"answered", client[serves.http].answer}
        /\ \A c \in Clients \ {serves.http} : client'[c].answer = client[c].answer
    BY <1>0, <1>h, <1>5, Sends DEF HandleStatusRequest, HttpAt
  <2>e. /\ http.at = "status" /\ http'.at = "close" /\ http'.client_fd = http.client_fd
        /\ UNCHANGED <<fd, ws, serves, foreign>>
    BY <1>0, <1>p, <1>5 DEF HandleStatusRequest, HttpAt, HttpGoto, ValueTypes, HttpStates
  <2>1. Owned'
    BY <1>0, <1>d, <1>h, <1>w, <1>a, <1>f, <2>e, <2>s DEF Owned, WsHolds
  <2>2. NoneLost'
    BY <1>0, <1>d, <1>h, <1>w, <1>a, <1>f, <2>e, <2>s DEF NoneLost, WsHolds
  <2>3. OneSocket'
    BY <1>0, <1>d, <1>h, <1>w, <1>a, <1>f, <2>e, <2>s DEF OneSocket, WsHolds
  <2>4. Answers'
    BY <1>0, <1>d, <1>h, <1>w, <1>a, <1>f, <2>e, <2>s DEF Answers, WsHolds
  <2> QED
    BY <2>1, <2>2, <2>3, <2>4 DEF OwnInv
<1>6. CASE CloseClient
  <2>o. http.at # "accept" /\ http.client_fd \in Fds
    BY <1>0, <1>6 DEF CloseClient, HttpAt, InUse
  <2>d. /\ fd'[http.client_fd] = Nothing /\ \A g \in Fds \ {http.client_fd} : fd'[g] = fd[g]
        /\ \A c \in Clients : client'[c] = IF fd[http.client_fd] = Socket(c) THEN Absent ELSE client[c]
    BY <1>0, <1>6, <2>o, Closes DEF CloseClient, HttpAt
  <2>c. /\ fd'[http.client_fd] = Nothing /\ \A g \in Fds \ {http.client_fd} : fd'[g] = fd[g]
        /\ client'[serves.http].answer = "none" /\ \A c \in Clients \ {serves.http} : client'[c] = client[c]
    BY <1>h, <1>6, <2>o, <2>d DEF Absent, WsHolds, CloseClient, HttpAt
  <2>e. /\ http.at = "close" /\ http'.at = "accept" /\ UNCHANGED <<ws, serves, foreign>>
        /\ ws.at \notin {"clear", "close_again"}
    BY <1>0, <1>p, <1>6 DEF CloseClient, HttpAt, HttpGoto, ValueTypes, HttpStates
  <2>1. Owned'
    BY <1>0, <1>d, <1>h, <1>w, <1>a, <1>f, <2>e, <2>c DEF Owned, WsHolds
  <2>2. NoneLost'
    BY <1>0, <1>d, <1>h, <1>w, <1>a, <1>f, <2>e, <2>c DEF NoneLost, WsHolds
  <2>3. OneSocket'
    BY <1>0, <1>d, <1>h, <1>w, <1>a, <1>f, <2>e, <2>c DEF OneSocket, WsHolds
  <2>4. Answers'
    BY <1>0, <1>d, <1>h, <1>w, <1>a, <1>f, <2>e, <2>c DEF Answers, WsHolds
  <2> QED
    BY <2>1, <2>2, <2>3, <2>4 DEF OwnInv
<1>7. CASE WsClose
  <2>o. ws.at # "none" /\ ws.client_fd \in Fds
    BY <1>0, <1>7 DEF WsClose, HttpAt, InUse
  <2>d. /\ fd'[ws.client_fd] = Nothing /\ \A g \in Fds \ {ws.client_fd} : fd'[g] = fd[g]
        /\ \A c \in Clients : client'[c] = IF fd[ws.client_fd] = Socket(c) THEN Absent ELSE client[c]
    BY <1>0, <1>7, <2>o, Closes DEF WsClose, HttpAt
  <2>c. /\ fd'[ws.client_fd] = Nothing /\ \A g \in Fds \ {ws.client_fd} : fd'[g] = fd[g]
        /\ client'[serves.ws].answer = "none" /\ \A c \in Clients \ {serves.ws} : client'[c] = client[c]
    BY <1>w, <1>7, <2>o, <2>d DEF Absent, WsHolds, WsClose, HttpAt
  <2>e. /\ ws.at = "close" /\ ws'.at = "clear" /\ ws'.client_fd = ws.client_fd /\ UNCHANGED <<http, serves, foreign>>
    BY <1>0, <1>p, <1>7 DEF WsClose, WsGoto, ValueTypes, WsStates
  <2>1. Owned'
    BY <1>0, <1>d, <1>h, <1>w, <1>a, <1>f, <2>e, <2>c DEF Owned, WsHolds
  <2>2. NoneLost'
    BY <1>0, <1>d, <1>h, <1>w, <1>a, <1>f, <2>e, <2>c DEF NoneLost, WsHolds
  <2>3. OneSocket'
    BY <1>0, <1>d, <1>h, <1>w, <1>a, <1>f, <2>e, <2>c DEF OneSocket, WsHolds
  <2>4. Answers'
    BY <1>0, <1>d, <1>h, <1>w, <1>a, <1>f, <2>e, <2>c DEF Answers, WsHolds
  <2> QED
    BY <2>1, <2>2, <2>3, <2>4 DEF OwnInv
<1>8. CASE WsCloseAgain
  <2>o. ws.at # "none" /\ ws.client_fd \in Fds
    BY <1>0, <1>8 DEF WsCloseAgain, HttpAt, InUse
  <2>d. /\ fd'[ws.client_fd] = Nothing /\ \A g \in Fds \ {ws.client_fd} : fd'[g] = fd[g]
        /\ \A c \in Clients : client'[c] = IF fd[ws.client_fd] = Socket(c) THEN Absent ELSE client[c]
    BY <1>0, <1>8, <2>o, Closes DEF WsCloseAgain, HttpAt
  <2>c. /\ fd'[ws.client_fd] = Nothing /\ \A g \in Fds \ {ws.client_fd} : fd'[g] = fd[g]
        /\ \A c \in Clients : client'[c] = client[c]
    <3>1. fd[ws.client_fd] = Nothing
      BY <1>0, <1>8 DEF Owned, WsCloseAgain
    <3> QED
      BY <1>d, <2>d, <3>1
  <2>e. /\ ws.at = "close_again" /\ ws'.at = "none" /\ ws'.client_fd = ws.client_fd /\ UNCHANGED <<http, serves, foreign>>
    BY <1>0, <1>p, <1>8 DEF WsCloseAgain, WsGoto, ValueTypes, WsStates
  <2>1. Owned'
    BY <1>0, <1>d, <1>h, <1>w, <1>a, <1>f, <2>e, <2>c DEF Owned, WsHolds
  <2>2. NoneLost'
    BY <1>0, <1>d, <1>h, <1>w, <1>a, <1>f, <2>e, <2>c DEF NoneLost, WsHolds
  <2>3. OneSocket'
    BY <1>0, <1>d, <1>h, <1>w, <1>a, <1>f, <2>e, <2>c DEF OneSocket, WsHolds
  <2>4. Answers'
    BY <1>0, <1>d, <1>h, <1>w, <1>a, <1>f, <2>e, <2>c DEF Answers, WsHolds
  <2> QED
    BY <2>1, <2>2, <2>3, <2>4 DEF OwnInv
<1>9. CASE WsConnected
  <2>e. /\ ws.at = "start" /\ ws'.at = "select" /\ ws'.client_fd = ws.client_fd
        /\ UNCHANGED <<fd, client, http, serves, foreign>>
    BY <1>0, <1>p, <1>9 DEF WsConnected, WsGoto, ValueTypes, WsStates
  <2>1. Owned'
    BY <1>0, <1>d, <1>h, <1>w, <1>a, <1>f, <2>e DEF Owned, WsHolds
  <2>2. NoneLost'
    BY <1>0, <1>d, <1>h, <1>w, <1>a, <1>f, <2>e DEF NoneLost, WsHolds
  <2>3. OneSocket'
    BY <1>0, <1>d, <1>h, <1>w, <1>a, <1>f, <2>e DEF OneSocket, WsHolds
  <2>4. Answers'
    BY <1>0, <1>d, <1>h, <1>w, <1>a, <1>f, <2>e DEF Answers, WsHolds
  <2> QED
    BY <2>1, <2>2, <2>3, <2>4 DEF OwnInv
<1>10. CASE WsReceive
  <2>s. \A c \in Clients : client'[c].conn = client[c].conn /\ client'[c].answer = client[c].answer
    <3>1. PICK c : c = fd[ws.client_fd].of
      OBVIOUS
    <3>2. client' = client \/ client' = [client EXCEPT ![c].inbox = FALSE]
      BY <1>10, <3>1 DEF WsReceive, Received
    <3> QED
      BY <1>0, <3>2 DEF ValueTypes, ClientStates
  <2>e. /\ ws.at = "select" /\ ws'.at \in {"publish", "close"} /\ ws'.client_fd = ws.client_fd
        /\ UNCHANGED <<fd, http, serves, foreign>>
    BY <1>0, <1>p, <1>10 DEF WsReceive, WsGoto, ValueTypes, WsStates
  <2>1. Owned'
    BY <1>0, <1>d, <1>h, <1>w, <1>a, <1>f, <2>e, <2>s DEF Owned, WsHolds
  <2>2. NoneLost'
    BY <1>0, <1>d, <1>h, <1>w, <1>a, <1>f, <2>e, <2>s DEF NoneLost, WsHolds
  <2>3. OneSocket'
    BY <1>0, <1>d, <1>h, <1>w, <1>a, <1>f, <2>e, <2>s DEF OneSocket, WsHolds
  <2>4. Answers'
    BY <1>0, <1>d, <1>h, <1>w, <1>a, <1>f, <2>e, <2>s DEF Answers, WsHolds
  <2> QED
    BY <2>1, <2>2, <2>3, <2>4 DEF OwnInv
<1>11. CASE SendStatusUpdate
  <2>e. /\ ws.at = "publish" /\ ws'.at = "select" /\ ws'.client_fd = ws.client_fd
        /\ UNCHANGED <<fd, client, http, serves, foreign>>
    BY <1>0, <1>p, <1>11 DEF SendStatusUpdate, WsGoto, ValueTypes, WsStates
  <2>1. Owned'
    BY <1>0, <1>d, <1>h, <1>w, <1>a, <1>f, <2>e DEF Owned, WsHolds
  <2>2. NoneLost'
    BY <1>0, <1>d, <1>h, <1>w, <1>a, <1>f, <2>e DEF NoneLost, WsHolds
  <2>3. OneSocket'
    BY <1>0, <1>d, <1>h, <1>w, <1>a, <1>f, <2>e DEF OneSocket, WsHolds
  <2>4. Answers'
    BY <1>0, <1>d, <1>h, <1>w, <1>a, <1>f, <2>e DEF Answers, WsHolds
  <2> QED
    BY <2>1, <2>2, <2>3, <2>4 DEF OwnInv
<1>12. CASE WsClear
  <2>e. /\ ws.at = "clear" /\ ws'.at = "close_again" /\ ws'.client_fd = ws.client_fd
        /\ UNCHANGED <<fd, client, http, serves, foreign>>
    BY <1>0, <1>p, <1>12 DEF WsClear, WsGoto, ValueTypes, WsStates
  <2>1. Owned'
    BY <1>0, <1>d, <1>h, <1>w, <1>a, <1>f, <2>e DEF Owned, WsHolds
  <2>2. NoneLost'
    BY <1>0, <1>d, <1>h, <1>w, <1>a, <1>f, <2>e DEF NoneLost, WsHolds
  <2>3. OneSocket'
    BY <1>0, <1>d, <1>h, <1>w, <1>a, <1>f, <2>e DEF OneSocket, WsHolds
  <2>4. Answers'
    BY <1>0, <1>d, <1>h, <1>w, <1>a, <1>f, <2>e DEF Answers, WsHolds
  <2> QED
    BY <2>1, <2>2, <2>3, <2>4 DEF OwnInv
<1>13. CASE CreateWebsocketThread
  <2>e. /\ http.at = "create" /\ http'.at = "accept" /\ ws.at = "none"
        /\ ws'.at = "start" /\ ws'.client_fd = http.client_fd
        /\ serves'.ws = serves.http /\ serves'.http = serves.http /\ UNCHANGED <<fd, client, foreign>>
    BY <1>0, <1>p, <1>13 DEF CreateWebsocketThread, ServesStates, HandOver, HttpAt, HttpGoto, ValueTypes, HttpStates
  <2>1. Owned'
    BY <1>0, <1>d, <1>h, <1>w, <1>a, <1>f, <2>e DEF Owned, WsHolds
  <2>2. NoneLost'
    BY <1>0, <1>d, <1>h, <1>w, <1>a, <1>f, <2>e DEF NoneLost, WsHolds
  <2>3. OneSocket'
    BY <1>0, <1>d, <1>h, <1>w, <1>a, <1>f, <2>e DEF OneSocket, WsHolds
  <2>4. Answers'
    BY <1>0, <1>d, <1>h, <1>w, <1>a, <1>f, <2>e DEF Answers, WsHolds
  <2> QED
    BY <2>1, <2>2, <2>3, <2>4 DEF OwnInv
<1>14. ASSUME NEW c \in Clients, Connect(c)
      PROVE  OwnInv'
  <2>s. \A d \in Clients : /\ client'[d].answer = client[d].answer
                           /\ client'[d].conn = "open" <=> client[d].conn = "open"
    BY <1>0, <1>14 DEF Connect, ValueTypes, ClientStates
  <2>e. UNCHANGED <<fd, http, ws, serves, foreign>>
    BY <1>0, <1>p, <1>14 DEF Connect, Quiet
  <2>1. Owned'
    BY <1>0, <1>d, <1>h, <1>w, <1>a, <1>f, <2>e, <2>s DEF Owned, WsHolds
  <2>2. NoneLost'
    BY <1>0, <1>d, <1>h, <1>w, <1>a, <1>f, <2>e, <2>s DEF NoneLost, WsHolds
  <2>3. OneSocket'
    BY <1>0, <1>d, <1>h, <1>w, <1>a, <1>f, <2>e, <2>s DEF OneSocket, WsHolds
  <2>4. Answers'
    <3>1. \A d \in Clients : client'[d].conn # "open" => client'[d].answer = "none"
      BY <1>0, <2>s DEF Answers
    <3>2. /\ http.at # "accept" => client'[serves.http].answer = client[serves.http].answer
          /\ ws.at \in WsHolds => client'[serves.ws].answer = client[serves.ws].answer
      BY <1>h, <1>w, <2>s
    <3> QED
      BY <1>0, <2>e, <3>1, <3>2 DEF Answers, WsHolds
  <2> QED
    BY <2>1, <2>2, <2>3, <2>4 DEF OwnInv
<1>15. ASSUME NEW c \in Clients, Ask(c)
      PROVE  OwnInv'
  <2>s. \A d \in Clients : client'[d].answer = client[d].answer /\ client'[d].conn = client[d].conn
    BY <1>0, <1>15 DEF Ask, ValueTypes, ClientStates
  <2>e. UNCHANGED <<fd, http, ws, serves, foreign>>
    BY <1>0, <1>p, <1>15 DEF Ask, Quiet
  <2>1. Owned'
    BY <1>0, <1>d, <1>h, <1>w, <1>a, <1>f, <2>e, <2>s DEF Owned, WsHolds
  <2>2. NoneLost'
    BY <1>0, <1>d, <1>h, <1>w, <1>a, <1>f, <2>e, <2>s DEF NoneLost, WsHolds
  <2>3. OneSocket'
    BY <1>0, <1>d, <1>h, <1>w, <1>a, <1>f, <2>e, <2>s DEF OneSocket, WsHolds
  <2>4. Answers'
    BY <1>0, <1>d, <1>h, <1>w, <1>a, <1>f, <2>e, <2>s DEF Answers, WsHolds
  <2> QED
    BY <2>1, <2>2, <2>3, <2>4 DEF OwnInv
<1>16. ASSUME NEW c \in Clients, SendFrame(c)
      PROVE  OwnInv'
  <2>s. \A d \in Clients : client'[d].answer = client[d].answer /\ client'[d].conn = client[d].conn
    BY <1>0, <1>16 DEF SendFrame, ValueTypes, ClientStates
  <2>e. UNCHANGED <<fd, http, ws, serves, foreign>>
    BY <1>0, <1>p, <1>16 DEF SendFrame, Quiet
  <2>1. Owned'
    BY <1>0, <1>d, <1>h, <1>w, <1>a, <1>f, <2>e, <2>s DEF Owned, WsHolds
  <2>2. NoneLost'
    BY <1>0, <1>d, <1>h, <1>w, <1>a, <1>f, <2>e, <2>s DEF NoneLost, WsHolds
  <2>3. OneSocket'
    BY <1>0, <1>d, <1>h, <1>w, <1>a, <1>f, <2>e, <2>s DEF OneSocket, WsHolds
  <2>4. Answers'
    BY <1>0, <1>d, <1>h, <1>w, <1>a, <1>f, <2>e, <2>s DEF Answers, WsHolds
  <2> QED
    BY <2>1, <2>2, <2>3, <2>4 DEF OwnInv
<1>17. ASSUME NEW c \in Clients, Leave(c)
      PROVE  OwnInv'
  <2>s. \A d \in Clients : client'[d].answer = client[d].answer /\ client'[d].conn = client[d].conn
    BY <1>0, <1>17 DEF Leave, ValueTypes, ClientStates
  <2>e. UNCHANGED <<fd, http, ws, serves, foreign>>
    BY <1>0, <1>p, <1>17 DEF Leave, Quiet
  <2>1. Owned'
    BY <1>0, <1>d, <1>h, <1>w, <1>a, <1>f, <2>e, <2>s DEF Owned, WsHolds
  <2>2. NoneLost'
    BY <1>0, <1>d, <1>h, <1>w, <1>a, <1>f, <2>e, <2>s DEF NoneLost, WsHolds
  <2>3. OneSocket'
    BY <1>0, <1>d, <1>h, <1>w, <1>a, <1>f, <2>e, <2>s DEF OneSocket, WsHolds
  <2>4. Answers'
    BY <1>0, <1>d, <1>h, <1>w, <1>a, <1>f, <2>e, <2>s DEF Answers, WsHolds
  <2> QED
    BY <2>1, <2>2, <2>3, <2>4 DEF OwnInv
<1>18. CASE IntervalPasses
  <2>e. UNCHANGED <<fd, client, http, ws, serves, foreign>>
    BY <1>0, <1>p, <1>18 DEF IntervalPasses
  <2>1. Owned'
    BY <1>0, <1>d, <1>h, <1>w, <1>a, <1>f, <2>e DEF Owned, WsHolds
  <2>2. NoneLost'
    BY <1>0, <1>d, <1>h, <1>w, <1>a, <1>f, <2>e DEF NoneLost, WsHolds
  <2>3. OneSocket'
    BY <1>0, <1>d, <1>h, <1>w, <1>a, <1>f, <2>e DEF OneSocket, WsHolds
  <2>4. Answers'
    BY <1>0, <1>d, <1>h, <1>w, <1>a, <1>f, <2>e DEF Answers, WsHolds
  <2> QED
    BY <2>1, <2>2, <2>3, <2>4 DEF OwnInv
<1>19. CASE UNCHANGED vars
  <2>e. UNCHANGED <<fd, client, http, ws, serves, foreign>>
    BY <1>0, <1>p, <1>19 DEF vars
  <2>1. Owned'
    BY <1>0, <1>d, <1>h, <1>w, <1>a, <1>f, <2>e DEF Owned, WsHolds
  <2>2. NoneLost'
    BY <1>0, <1>d, <1>h, <1>w, <1>a, <1>f, <2>e DEF NoneLost, WsHolds
  <2>3. OneSocket'
    BY <1>0, <1>d, <1>h, <1>w, <1>a, <1>f, <2>e DEF OneSocket, WsHolds
  <2>4. Answers'
    BY <1>0, <1>d, <1>h, <1>w, <1>a, <1>f, <2>e DEF Answers, WsHolds
  <2> QED
    BY <2>1, <2>2, <2>3, <2>4 DEF OwnInv
<1>20. CASE OpenForeign
  <2>n. PICK n \in Fds : n = Lowest /\ fd[n] = Nothing
    BY <1>20, LowestIsFree DEF OpenForeign
  <2>e. /\ UNCHANGED <<client, http, ws, serves>> /\ ws.at \notin {"clear", "close_again"}
        /\ foreign' = foreign \cup {n} /\ fd'[n] = Foreign /\ \A g \in Fds \ {n} : fd'[g] = fd[g]
    BY <1>0, <1>p, <1>20, <2>n DEF OpenForeign, ValueTypes
  <2>1. Owned'
    BY <1>0, <1>d, <1>h, <1>w, <1>a, <1>f, <2>e, <2>n DEF Owned, WsHolds
  <2>2. NoneLost'
    BY <1>0, <1>d, <1>h, <1>w, <1>a, <1>f, <2>e, <2>n DEF NoneLost, WsHolds
  <2>3. OneSocket'
    BY <1>0, <1>d, <1>h, <1>w, <1>a, <1>f, <2>e, <2>n DEF OneSocket, WsHolds
  <2>4. Answers'
    BY <1>0, <1>d, <1>h, <1>w, <1>a, <1>f, <2>e, <2>n DEF Answers, WsHolds
  <2> QED
    BY <2>1, <2>2, <2>3, <2>4 DEF OwnInv
<1>21. ASSUME NEW f \in Fds, CloseForeign(f)
      PROVE  OwnInv'
  <2>c. /\ fd'[f] = Nothing /\ \A g \in Fds \ {f} : fd'[g] = fd[g]
        /\ \A c \in Clients : client'[c] = client[c]
    BY <1>0, <1>d, <1>21, Closes DEF CloseForeign, Owned
  <2>e. /\ UNCHANGED <<http, ws, serves>> /\ ws.at \notin {"clear", "close_again"}
        /\ foreign' = foreign \ {f} /\ f \in foreign /\ fd[f] = Foreign
    BY <1>0, <1>p, <1>21, <2>c DEF CloseForeign, Owned
  <2>1. Owned'
    BY <1>0, <1>d, <1>h, <1>w, <1>a, <1>f, <2>e, <2>c DEF Owned, WsHolds
  <2>2. NoneLost'
    BY <1>0, <1>d, <1>h, <1>w, <1>a, <1>f, <2>e, <2>c DEF NoneLost, WsHolds
  <2>3. OneSocket'
    BY <1>0, <1>d, <1>h, <1>w, <1>a, <1>f, <2>e, <2>c DEF OneSocket, WsHolds
  <2>4. Answers'
    BY <1>0, <1>d, <1>h, <1>w, <1>a, <1>f, <2>e, <2>c DEF Answers, WsHolds
  <2> QED
    BY <2>1, <2>2, <2>3, <2>4 DEF OwnInv
<1>22. CASE SendFile
  <2>s. /\ \A c \in Clients : client'[c].conn = client[c].conn
        /\ client'[serves.http].answer = "answered"
        /\ \A c \in Clients \ {serves.http} : client'[c].answer = client[c].answer
    BY <1>0, <1>h, <1>22, Sends DEF SendFile, HttpAt
  <2>e. /\ http.at = "send" /\ http'.at = "close" /\ http'.client_fd = http.client_fd
        /\ http.file \in Fds /\ fd'[http.file] = Nothing /\ \A g \in Fds \ {http.file} : fd'[g] = fd[g]
        /\ UNCHANGED <<ws, serves, foreign>>
    BY <1>0, <1>p, <1>22 DEF SendFile, InUse, HttpAt, HttpGoto, ValueTypes, HttpStates
  <2>1. Owned'
    BY <1>0, <1>d, <1>h, <1>w, <1>a, <1>f, <2>e, <2>s DEF Owned, WsHolds
  <2>2. NoneLost'
    BY <1>0, <1>d, <1>h, <1>w, <1>a, <1>f, <2>e, <2>s DEF NoneLost, WsHolds
  <2>3. OneSocket'
    BY <1>0, <1>d, <1>h, <1>w, <1>a, <1>f, <2>e, <2>s DEF OneSocket, WsHolds
  <2>4. Answers'
    BY <1>0, <1>d, <1>h, <1>w, <1>a, <1>f, <2>e, <2>s DEF Answers, WsHolds
  <2> QED
    BY <2>1, <2>2, <2>3, <2>4 DEF OwnInv
<1>23. CASE OpenFile
  <2>u. http.at = "stat" /\ ws.at \notin {"clear", "close_again"} /\ UNCHANGED <<ws, serves, foreign>>
    BY <1>23, <1>p DEF OpenFile, HttpAt
  <2>a. CASE Send(http.client_fd, "answered") /\ HttpGoto("close") /\ UNCHANGED fd
    <3>s. /\ \A c \in Clients : client'[c].conn = client[c].conn
          /\ client'[serves.http].answer = "answered"
          /\ \A c \in Clients \ {serves.http} : client'[c].answer = client[c].answer
      BY <1>0, <1>h, <2>a, <2>u, Sends
    <3>e. http'.at = "close" /\ http'.client_fd = http.client_fd /\ UNCHANGED fd
      BY <1>0, <2>a DEF HttpGoto, ValueTypes, HttpStates
    <3>1. Owned'
      BY <1>0, <1>d, <1>h, <1>w, <1>a, <1>f, <2>u, <3>s, <3>e DEF Owned, WsHolds
    <3>2. NoneLost'
      BY <1>0, <1>d, <1>h, <1>w, <1>a, <1>f, <2>u, <3>s, <3>e DEF NoneLost, WsHolds
    <3>3. OneSocket'
      BY <1>0, <1>d, <1>h, <1>w, <1>a, <1>f, <2>u, <3>s, <3>e DEF OneSocket, WsHolds
    <3>4. Answers'
      BY <1>0, <1>d, <1>h, <1>w, <1>a, <1>f, <2>u, <3>s, <3>e DEF Answers, WsHolds
    <3> QED
      BY <3>1, <3>2, <3>3, <3>4 DEF OwnInv
  <2>b. CASE Free # {} /\ fd' = [fd EXCEPT ![Lowest] = File]
             /\ http' = [http EXCEPT !.at = "send", !.file = Lowest] /\ UNCHANGED client
    <3>n. PICK n \in Fds : n = Lowest /\ fd[n] = Nothing
      BY <2>b, LowestIsFree
    <3>e. /\ fd'[n] = File /\ \A g \in Fds \ {n} : fd'[g] = fd[g]
          /\ http'.at = "send" /\ http'.file = n /\ http'.client_fd = http.client_fd /\ UNCHANGED client
      BY <1>0, <2>b, <3>n DEF ValueTypes, HttpStates
    <3>1. Owned'
      BY <1>0, <1>d, <1>h, <1>w, <1>a, <1>f, <2>u, <3>n, <3>e DEF Owned, WsHolds
    <3>2. NoneLost'
      BY <1>0, <1>d, <1>h, <1>w, <1>a, <1>f, <2>u, <3>n, <3>e DEF NoneLost, WsHolds
    <3>3. OneSocket'
      BY <1>0, <1>d, <1>h, <1>w, <1>a, <1>f, <2>u, <3>n, <3>e DEF OneSocket, WsHolds
    <3>4. Answers'
      BY <1>0, <1>d, <1>h, <1>w, <1>a, <1>f, <2>u, <3>n, <3>e DEF Answers, WsHolds
    <3> QED
      BY <3>1, <3>2, <3>3, <3>4 DEF OwnInv
  <2> QED
    BY <1>23, <2>a, <2>b DEF OpenFile
<1>24. ASSUME NEW c \in Clients, Accept(c)
      PROVE  OwnInv'
  <2>u. /\ http.at = "accept" /\ ws.at \notin {"clear", "close_again"} /\ client[c].conn = "queued"
        /\ UNCHANGED <<ws, foreign>>
    BY <1>24, <1>p DEF Accept, HttpAt
  <2>a. CASE Free # {}
    <3>n. PICK n \in Fds : n = Lowest /\ fd[n] = Nothing
      BY <2>a, LowestIsFree
    <3>f. fd' = [fd EXCEPT ![n] = Socket(c)] /\ client' = [client EXCEPT ![c].conn = "open"]
      BY <1>24, <2>a, <3>n DEF Accept
    <3>e. /\ fd'[n] = Socket(c) /\ \A g \in Fds \ {n} : fd'[g] = fd[g]
          /\ client'[c].conn = "open" /\ client'[c].answer = client[c].answer
          /\ \A d \in Clients \ {c} : client'[d] = client[d]
      BY <1>0, <3>f DEF ValueTypes, ClientStates
    <3>h. /\ http'.at = "recv" /\ http'.client_fd = n /\ serves'.http = c /\ serves'.ws = serves.ws
      BY <1>0, <1>24, <2>a, <3>n DEF Accept, ValueTypes, HttpStates, ServesStates
    <3>o. \A g \in Fds : fd[g] # Socket(c)
      BY <1>0, <2>u DEF NoneLost
    <3>1. Owned'
      BY <1>0, <1>d, <1>h, <1>w, <1>a, <1>f, <2>u, <3>n, <3>e, <3>h, <3>o DEF Owned, WsHolds
    <3>2. NoneLost'
      BY <1>0, <1>d, <1>h, <1>w, <1>a, <1>f, <2>u, <3>n, <3>e, <3>h, <3>o DEF NoneLost, WsHolds
    <3>3. OneSocket'
      BY <1>0, <1>d, <1>h, <1>w, <1>a, <1>f, <2>u, <3>n, <3>e, <3>h, <3>o DEF OneSocket, WsHolds
    <3>4. Answers'
      BY <1>0, <1>d, <1>h, <1>w, <1>a, <1>f, <2>u, <3>n, <3>e, <3>h, <3>o DEF Answers, WsHolds
    <3> QED
      BY <3>1, <3>2, <3>3, <3>4 DEF OwnInv
  <2>b. CASE Free = {}
    <3>1. UNCHANGED <<fd, http, serves>> /\ client' = [client EXCEPT ![c] = Absent]
      BY <1>24, <2>b DEF Accept
    <3>e. /\ client'[c] = Absent /\ Absent.conn = "none" /\ Absent.answer = "none"
          /\ \A d \in Clients \ {c} : client'[d] = client[d]
      BY <1>0, <3>1 DEF ValueTypes, Absent
    <3>o. \A g \in Fds : fd[g] # Socket(c)
      BY <1>0, <2>u DEF NoneLost
    <3>p. UNCHANGED <<fd, http, serves>>
      BY <3>1
    <3>x1. Owned'
      BY <1>0, <1>d, <1>h, <1>w, <1>a, <1>f, <2>u, <3>p, <3>e, <3>o DEF Owned, WsHolds
    <3>x2. NoneLost'
      BY <1>0, <1>d, <1>h, <1>w, <1>a, <1>f, <2>u, <3>p, <3>e, <3>o DEF NoneLost, WsHolds
    <3>x3. OneSocket'
      BY <1>0, <1>d, <1>h, <1>w, <1>a, <1>f, <2>u, <3>p, <3>e, <3>o DEF OneSocket, WsHolds
    <3>x4. Answers'
      BY <1>0, <1>d, <1>h, <1>w, <1>a, <1>f, <2>u, <3>p, <3>e, <3>o DEF Answers, WsHolds
    <3> QED
      BY <3>x1, <3>x2, <3>x3, <3>x4 DEF OwnInv
  <2> QED
    BY <2>a, <2>b
<1> QED
  BY <1>1, <1>2, <1>3, <1>4, <1>5, <1>6, <1>7, <1>8, <1>9, <1>10, <1>11, <1>12, <1>13, <1>14, <1>15, <1>16, <1>17, <1>18, <1>19, <1>20, <1>21, <1>22, <1>23, <1>24
     DEF Next, PlcHttpServer, PlcWebsocketServer, Client

\* At the start nothing is open.
LEMMA OwnersStart ==
    ASSUME Init
    PROVE  OwnInv
<1> USE ThingsDiffer DEF Init
<1>1. \A c \in Clients : client[c] = Absent
  OBVIOUS
<1>2. Absent.answer = "none"
  BY DEF Absent
<1>3. \A f \in Fds : fd[f] = Nothing
  OBVIOUS
<1> QED
  BY <1>1, <1>2, <1>3 DEF OwnInv, Owned, NoneLost, OneSocket, Answers, WsHolds

\* DescriptorsOwned says the same of the set of all descriptors that are open.
LEMMA OwnersGive ==
    ASSUME TypeInv, OwnInv
    PROVE  DescriptorsOwned
<1> USE ThingsDiffer
<1>0. ValueTypes /\ InUse /\ Owned /\ NoneLost
  BY DEF TypeInv, OwnInv
<1> DEFINE Open == {<<f, fd[f]>> : f \in Fds \ Free}
<1>o. \A f \in Fds : fd[f] # Nothing => <<f, fd[f]>> \in Open
  BY DEF Free
<1>1. ASSUME NEW h \in Holdings  PROVE h \in Open
  <2>1. CASE http.at # "accept" /\ h = <<http.client_fd, Socket(serves.http)>>
    <3>1. http.client_fd \in Fds /\ fd[http.client_fd] = Socket(serves.http)
      BY <1>0, <2>1 DEF InUse, Owned
    <3> QED
      BY <1>o, <2>1, <3>1
  <2>2. CASE http.file # 0 /\ h = <<http.file, File>>
    <3>1. http.file \in Fds /\ fd[http.file] = File
      BY <1>0, <2>2 DEF InUse, Owned
    <3> QED
      BY <1>o, <2>2, <3>1
  <2>3. CASE ws.at \in WsHolds /\ h = <<ws.client_fd, Socket(serves.ws)>>
    <3>1. ws.client_fd \in Fds /\ fd[ws.client_fd] = Socket(serves.ws)
      BY <1>0, <2>3 DEF InUse, Owned, WsHolds
    <3> QED
      BY <1>o, <2>3, <3>1
  <2>4. ASSUME NEW f \in foreign, h = <<f, Foreign>>
        PROVE  h \in Open
    <3>1. f \in Fds /\ fd[f] = Foreign
      BY <1>0 DEF ValueTypes, Owned
    <3> QED
      BY <1>o, <2>4, <3>1
  <2> QED
    BY <2>1, <2>2, <2>3, <2>4 DEF Holdings, WsHolds
<1>2. ASSUME NEW h \in LeftOpen  PROVE h \in Open
  <2>1. PICK f \in Fds : h = <<f, fd[f]>> /\ fd[f].kind = "socket"
    BY DEF LeftOpen
  <2> QED
    BY <1>o, <2>1
<1>3. ASSUME NEW h \in Open  PROVE h \in Holdings \cup LeftOpen
  <2>1. PICK f \in Fds : h = <<f, fd[f]>> /\ fd[f] # Nothing
    BY DEF Free
  <2>2. fd[f] \in Things
    BY <1>0 DEF ValueTypes
  <2>3. CASE fd[f] = File
    <3>1. http.file = f /\ f # 0
      BY <1>0, <2>3, HttpConstants DEF NoneLost
    <3> QED
      BY <2>1, <2>3, <3>1 DEF Holdings
  <2>4. CASE fd[f] = Foreign
    <3>1. f \in foreign
      BY <1>0, <2>4 DEF NoneLost
    <3> QED
      BY <2>1, <2>4, <3>1 DEF Holdings
  <2>5. ASSUME NEW c \in Clients, fd[f] = Socket(c)
        PROVE  h \in Holdings \cup LeftOpen
    <3>1. CASE http.at # "accept" /\ f = http.client_fd
      <4>1. fd[f] = Socket(serves.http)
        BY <1>0, <3>1 DEF Owned
      <4> QED
        BY <2>1, <3>1, <4>1 DEF Holdings
    <3>2. CASE ws.at \in WsHolds /\ f = ws.client_fd
      <4>1. fd[f] = Socket(serves.ws)
        BY <1>0, <3>2 DEF Owned
      <4> QED
        BY <2>1, <3>2, <4>1 DEF Holdings, WsHolds
    <3>3. CASE client[c].answer = "bad"
      <4>1. fd[f].kind = "socket" /\ fd[f].of = c
        BY <2>5
      <4> QED
        BY <2>1, <3>3, <4>1 DEF LeftOpen
    <3> QED
      BY <1>0, <2>5, <3>1, <3>2, <3>3 DEF NoneLost
  <2> QED
    BY <2>1, <2>2, <2>3, <2>4, <2>5 DEF Things
<1> HIDE DEF Open
<1>4. Holdings \cup LeftOpen = Open
  BY <1>1, <1>2, <1>3
<1> QED
  BY <1>4 DEF DescriptorsOwned, Open

\* Descriptors are neither lost nor used by two, for any number of clients, descriptors
\* and descriptors of others: but for the connections of bad requests each that is open
\* is what one owner takes it for.  That takes that no second websocket is asked for,
\* and that nobody runs between the two closes of the websocket thread.
THEOREM OwnersKept ==
    ASSUME "second_upgrade" \notin Env, "preempted" \notin Env
    PROVE  Spec => []DescriptorsOwned
<1> DEFINE Inv == TypeInv /\ OwnInv
<1>1. Init => Inv
  BY TypesStart, OwnersStart
<1>2. Inv /\ [Next]_vars => Inv'
  BY TypesStep, OwnersStep
<1>3. Inv => DescriptorsOwned
  BY OwnersGive
<1> HIDE DEF Inv
<1> QED
  BY <1>1, <1>2, <1>3, PTL DEF Spec
=============================================================================
