------------------------------- MODULE HttpServer -------------------------------
(***************************************************************************)
(* The HTTP and WebSocket server of plc_http.c: the thread plc_http takes  *)
(* one connection at a time and answers one request on it; a connection    *)
(* that asks for an upgrade is handed to the thread websocket_thread.      *)
(*                                                                         *)
(* Connections and open files share the descriptors of the process, which  *)
(* are given out lowest first.  A third party, the other threads that open *)
(* files and connections, takes part in that.  A client asks for one of    *)
(*   file           a file, which may be missing                           *)
(*   dotdot         a path with ".." in it                                 *)
(*   status         the status as JSON                                     *)
(*   upgrade        the websocket                                          *)
(*   bad            anything else, an upgrade without its headers included *)
(*                                                                         *)
(* Env names what may happen beyond orderly clients:                       *)
(*   bad_request     a request is bad, or a client leaves before it asks   *)
(*   silent          a client neither asks nor leaves                      *)
(*   second_upgrade  an upgrade while a websocket is open                  *)
(*   preempted       a thread loses the processor between blocking calls   *)
(***************************************************************************)
EXTENDS Naturals, FiniteSets, FiniteSetsExt

CONSTANTS
    Clients,        \* the connections there are at a time
    Fds,            \* the descriptors
    NoClient,
    Env

EnvNames == {"bad_request", "silent", "second_upgrade", "preempted"}

ASSUME HttpConstants ==
    /\ Fds \subseteq Nat \ {0} /\ IsFiniteSet(Fds)
    /\ NoClient \notin Clients
    /\ Env \subseteq EnvNames

Requests == {"file", "dotdot", "status", "upgrade", "bad"}

Nothing == [kind |-> "nothing", of |-> NoClient]
Socket(c) == [kind |-> "socket", of |-> c]
File == [kind |-> "file", of |-> NoClient]
Foreign == [kind |-> "foreign", of |-> NoClient]

VARIABLES
    fd,         \* what a descriptor stands for
    client,     \* of each connection: where it is, what was asked and answered
    http,       \* plc_http: its statement, client_fd, and the descriptor of the file
    ws,         \* websocket_thread: its statement and client_fd
    serves,     \* history: the connection each thread was given
    websocket_connected, websocket_client_fd,   \* the second is 0 for -1
    due,        \* STATUS_PUBLISH_INTERVAL has passed
    foreign     \* the descriptors of the third party

websocket == <<websocket_connected, websocket_client_fd, due>>
vars == <<fd, client, http, ws, serves, websocket, foreign>>

\* conn is "none", "queued" or "open"; answer is "none", "upgraded", "answered" or, at the
\* end of process_request, "bad"; the client has asked, has left (gone), has sent a frame
\* that has not been received (inbox).
Absent == [conn |-> "none", asked |-> FALSE, answer |-> "none", gone |-> FALSE, inbox |-> FALSE]

-----------------------------------------------------------------------------
(* Descriptors *)

Free == {f \in Fds : fd[f] = Nothing}
Lowest == Min(Free)

\* close(): of a descriptor that is not open it does nothing.
Close(f) ==
    /\ fd' = [fd EXCEPT ![f] = Nothing]
    /\ client' = IF fd[f].kind = "socket" THEN [client EXCEPT ![fd[f].of] = Absent] ELSE client

\* send() of an answer, whose result nobody looks at, to whatever the descriptor stands for.
Send(f, what) ==
    client' = IF fd[f].kind = "socket" THEN [client EXCEPT ![fd[f].of].answer = what] ELSE client

\* Between its two calls of close the websocket thread calls nothing that blocks.
Runs(t) == "preempted" \in Env \/ t = "ws" \/ ws.at \notin {"clear", "close_again"}

-----------------------------------------------------------------------------
(* plc_http *)

HttpGoto(at) == http' = [http EXCEPT !.at = at]
HttpAt(at) == http.at = at /\ Runs("http")

Accept(c) ==
    /\ HttpAt("accept") /\ client[c].conn = "queued"
    /\ \/ /\ Free # {}
          /\ fd' = [fd EXCEPT ![Lowest] = Socket(c)]
          /\ client' = [client EXCEPT ![c].conn = "open"]
          /\ http' = [http EXCEPT !.at = "recv", !.client_fd = Lowest]
          /\ serves' = [serves EXCEPT !.http = c]
       \/ /\ Free = {}
          /\ client' = [client EXCEPT ![c] = Absent]
          /\ UNCHANGED <<fd, http, serves>>
    /\ UNCHANGED <<ws, websocket, foreign>>

\* What is read from the connection, and the statement it leads to.
Asked(c, r) ==
    /\ client[c].asked \/ (client[c].gone /\ r = "bad")
    /\ r = "bad" => "bad_request" \in Env
    /\ r = "upgrade" => "second_upgrade" \in Env \/ ws.at = "none"

Route == [file |-> "stat", dotdot |-> "reject", status |-> "status", upgrade |-> "handshake", bad |-> "bad"]

ProcessRequest ==
    /\ HttpAt("recv")
    /\ \E r \in Requests : Asked(serves.http, r) /\ HttpGoto(Route[r])
    /\ UNCHANGED <<fd, client, ws, serves, websocket, foreign>>

\* The answer at the end of process_request, which does not close the connection.
BadRequest ==
    /\ HttpAt("bad")
    /\ Send(http.client_fd, "bad")
    /\ HttpGoto("accept")
    /\ UNCHANGED <<fd, ws, serves, websocket, foreign>>

Reject ==
    /\ HttpAt("reject")
    /\ Send(http.client_fd, "answered")
    /\ HttpGoto("close")
    /\ UNCHANGED <<fd, ws, serves, websocket, foreign>>

\* Without memory for the JSON or the response there is no answer.
HandleStatusRequest ==
    /\ HttpAt("status")
    /\ Send(http.client_fd, "answered") \/ UNCHANGED client
    /\ HttpGoto("close")
    /\ UNCHANGED <<fd, ws, serves, websocket, foreign>>

\* send_file: the file is looked for and opened, or the answer is 404 or 500.
OpenFile ==
    /\ HttpAt("stat")
    /\ \/ Send(http.client_fd, "answered") /\ HttpGoto("close") /\ UNCHANGED fd
       \/ /\ Free # {}
          /\ fd' = [fd EXCEPT ![Lowest] = File]
          /\ http' = [http EXCEPT !.at = "send", !.file = Lowest]
          /\ UNCHANGED client
    /\ UNCHANGED <<ws, serves, websocket, foreign>>

\* send_file: the header and the content are sent and the file is closed.
SendFile ==
    /\ HttpAt("send")
    /\ Send(http.client_fd, "answered")
    /\ fd' = [fd EXCEPT ![http.file] = Nothing]
    /\ http' = [http EXCEPT !.at = "close", !.file = 0]
    /\ UNCHANGED <<ws, serves, websocket, foreign>>

CloseClient ==
    /\ HttpAt("close")
    /\ Close(http.client_fd)
    /\ HttpGoto("accept")
    /\ UNCHANGED <<ws, serves, websocket, foreign>>

ProcessWebsocketHandshake ==
    /\ HttpAt("handshake")
    /\ Send(http.client_fd, "upgraded")
    /\ HttpGoto("create")
    /\ UNCHANGED <<fd, ws, serves, websocket, foreign>>

\* plc_websocket_server_data is used again whether or not its thread still runs; if
\* it does that thread is gone, its connection with nobody to close it.
CreateWebsocketThread ==
    /\ HttpAt("create")
    /\ ws' = [at |-> "start", client_fd |-> http.client_fd]
    /\ serves' = [serves EXCEPT !.ws = serves.http]
    /\ HttpGoto("accept")
    /\ UNCHANGED <<fd, client, websocket, foreign>>

PlcHttpServer ==
    \/ \E c \in Clients : Accept(c)
    \/ ProcessRequest \/ BadRequest \/ Reject \/ HandleStatusRequest \/ OpenFile \/ SendFile
    \/ CloseClient \/ ProcessWebsocketHandshake \/ CreateWebsocketThread

-----------------------------------------------------------------------------
(* websocket_thread *)

WsGoto(at) == ws' = [ws EXCEPT !.at = at]

WsConnectedByPointer ==
    /\ ws.at = "start"
    /\ websocket_connected' = TRUE /\ websocket_client_fd' = http.client_fd /\ due' = FALSE
    /\ ws' = [at |-> "select", client_fd |-> http.client_fd]
    /\ UNCHANGED <<fd, client, http, serves, foreign>>

WsConnected ==
    /\ ws.at = "start"
    /\ websocket_connected' = TRUE /\ websocket_client_fd' = ws.client_fd /\ due' = FALSE
    /\ WsGoto("select")
    /\ UNCHANGED <<fd, client, http, serves, foreign>>

Received(c) == client' = [client EXCEPT ![c].inbox = FALSE]

WsReceiveNoEnd ==
    /\ ws.at = "select"
    /\ fd[ws.client_fd].kind = "socket" /\ Received(fd[ws.client_fd].of) /\ WsGoto("publish")
    /\ UNCHANGED <<fd, http, serves, websocket, foreign>>

\* select and recv: a frame, nothing, or the end of the connection.  A frame is parsed
\* and a ping or close answered in kind; the connection stays open also after a close,
\* until the client closes it.
WsReceive ==
    /\ ws.at = "select"
    /\ LET s == fd[ws.client_fd]
           open == s.kind = "socket"
       IN  \/ open /\ client[s.of].inbox /\ Received(s.of) /\ WsGoto("publish")
           \/ /\ ~(open /\ client[s.of].inbox)
              /\ WsGoto(IF open /\ ~client[s.of].gone THEN "publish" ELSE "close")
              /\ UNCHANGED client
    /\ UNCHANGED <<fd, http, serves, websocket, foreign>>

\* send_status_update, to the descriptor in websocket_client_fd.
SendStatusUpdate ==
    /\ ws.at = "publish"
    /\ IF due /\ websocket_connected
       THEN due' = FALSE
       ELSE UNCHANGED due
    /\ WsGoto("select")
    /\ UNCHANGED <<fd, client, http, serves, websocket_connected, websocket_client_fd, foreign>>

WsClose ==
    /\ ws.at = "close"
    /\ Close(ws.client_fd)
    /\ WsGoto("clear")
    /\ UNCHANGED <<http, serves, websocket, foreign>>

WsClearConnected ==
    /\ ws.at = "clear"
    /\ websocket_client_fd' = 0
    /\ WsGoto("close_again")
    /\ UNCHANGED <<fd, client, http, serves, websocket_connected, due, foreign>>

WsClear ==
    /\ ws.at = "clear"
    /\ websocket_connected' = FALSE /\ websocket_client_fd' = 0
    /\ WsGoto("close_again")
    /\ UNCHANGED <<fd, client, http, serves, due, foreign>>

\* plc_websocket_server closes the descriptor once more.
WsCloseAgain ==
    /\ ws.at = "close_again"
    /\ Close(ws.client_fd)
    /\ WsGoto("none")
    /\ UNCHANGED <<http, serves, websocket, foreign>>

PlcWebsocketServer ==
    WsConnected \/ WsReceive \/ SendStatusUpdate \/ WsClose \/ WsClear \/ WsCloseAgain

-----------------------------------------------------------------------------
(* Clients, time and the third party *)

Quiet == UNCHANGED <<fd, http, ws, serves, websocket, foreign>>

Connect(c) ==
    /\ Runs("client") /\ client[c].conn = "none"
    /\ client' = [client EXCEPT ![c].conn = "queued"]
    /\ Quiet

Ask(c) ==
    /\ Runs("client") /\ client[c].conn # "none" /\ ~client[c].asked /\ ~client[c].gone
    /\ client' = [client EXCEPT ![c].asked = TRUE]
    /\ Quiet

SendFrame(c) ==
    /\ Runs("client") /\ client[c].answer = "upgraded" /\ ~client[c].gone /\ ~client[c].inbox
    /\ client' = [client EXCEPT ![c].inbox = TRUE]
    /\ Quiet

\* A client leaves its websocket, or before it has asked.  That it leaves while it is
\* answered makes no difference.
Leave(c) ==
    /\ Runs("client") /\ client[c].conn # "none" /\ ~client[c].gone
    /\ \/ client[c].answer = "upgraded"
       \/ ~client[c].asked /\ "bad_request" \in Env
    /\ client' = [client EXCEPT ![c].gone = TRUE]
    /\ Quiet

IntervalPasses ==
    /\ Runs("time") /\ websocket_connected /\ ~due
    /\ due' = TRUE
    /\ UNCHANGED <<fd, client, http, ws, serves, websocket_connected, websocket_client_fd, foreign>>

OpenForeign ==
    /\ Runs("foreign") /\ Free # {}
    /\ fd' = [fd EXCEPT ![Lowest] = Foreign] /\ foreign' = foreign \cup {Lowest}
    /\ UNCHANGED <<client, http, ws, serves, websocket>>

CloseForeign(f) ==
    /\ Runs("foreign") /\ f \in foreign
    /\ Close(f) /\ foreign' = foreign \ {f}
    /\ UNCHANGED <<http, ws, serves, websocket>>

-----------------------------------------------------------------------------

Init ==
    /\ fd = [f \in Fds |-> Nothing]
    /\ client = [c \in Clients |-> Absent]
    /\ http = [at |-> "accept", client_fd |-> 0, file |-> 0]
    /\ ws = [at |-> "none", client_fd |-> 0]
    /\ serves = [http |-> NoClient, ws |-> NoClient]
    /\ websocket_connected = FALSE /\ websocket_client_fd = 0 /\ due = FALSE
    /\ foreign = {}

Client(c) == Connect(c) \/ SendFrame(c) \/ Leave(c) \/ Ask(c)

Next ==
    \/ PlcHttpServer \/ PlcWebsocketServer
    \/ \E c \in Clients : Client(c)
    \/ IntervalPasses \/ OpenForeign \/ \E f \in Fds : CloseForeign(f)

Spec == Init /\ [][Next]_vars

\* The threads run, time passes, and a client that has connected asks for something
\* unless it is silent.
Fairness ==
    /\ WF_vars(PlcHttpServer) /\ \A c \in Clients : SF_vars(Accept(c))
    /\ WF_vars(PlcWebsocketServer) /\ WF_vars(IntervalPasses)
    /\ "silent" \notin Env => \A c \in Clients : WF_vars(Ask(c))

FairSpec == Spec /\ Fairness

-----------------------------------------------------------------------------
(* Properties *)

HttpLabels == {"accept", "recv", "bad", "reject", "status", "stat", "send", "close", "handshake", "create"}
WsLabels == {"none", "start", "select", "publish", "close", "clear", "close_again"}

\* The variables have their types, and the flag websocket_connected is set exactly
\* while the websocket thread is between its two statements that assign it.
TypeOK ==
    /\ \A f \in Fds : fd[f] \in {Nothing, File, Foreign} \cup {Socket(c) : c \in Clients}
    /\ client \in [Clients -> [conn : {"none", "queued", "open"}, asked : BOOLEAN,
                              answer : {"none", "upgraded", "answered", "bad"}, gone : BOOLEAN, inbox : BOOLEAN]]
    /\ http \in [at : HttpLabels, client_fd : Fds \cup {0}, file : Fds \cup {0}]
    /\ ws \in [at : WsLabels, client_fd : Fds \cup {0}]
    /\ serves \in [{"http", "ws"} -> Clients \cup {NoClient}]
    /\ websocket_connected = (ws.at \in {"select", "publish", "close", "clear"})
    /\ websocket_client_fd \in Fds \cup {0} /\ due \in BOOLEAN
    /\ foreign \subseteq Fds

\* What each thread and the third party take for open and theirs to close: plc_http
\* its connection, until it hands it over, and its file, the websocket thread its
\* connection.
Holdings ==
    (IF http.at # "accept" THEN {<<http.client_fd, Socket(serves.http)>>} ELSE {})
    \cup (IF http.file # 0 THEN {<<http.file, File>>} ELSE {})
    \cup (IF ws.at \in {"start", "select", "publish", "close"} THEN {<<ws.client_fd, Socket(serves.ws)>>} ELSE {})
    \cup (foreign \X {Foreign})

\* Connections that have been answered as a bad request, which are left open.
LeftOpen == {<<f, fd[f]>> : f \in {f \in Fds : fd[f].kind = "socket" /\ client[fd[f].of].answer = "bad"}}

\* Descriptors are neither lost nor used by two: but for the bad requests every open
\* one has an owner that will close it, and what an owner takes for its own still is.
\* (plc_http.c:579, 757 and 823: the closes of two threads on numbers given out again)
DescriptorsOwned == Holdings \cup LeftOpen = {<<f, fd[f]>> : f \in Fds \ Free}

\* Whoever connects is answered or turned away, a websocket is closed when its client
\* has left, and the status is sent when it is due.
ClientsServed ==
    /\ \A c \in Clients :
        /\ (client[c].conn = "queued") ~> (client[c].conn = "none" \/ client[c].answer # "none")
        /\ (client[c].answer = "upgraded" /\ client[c].gone) ~> (client[c].conn = "none")
    /\ due ~> (~due \/ ~websocket_connected)
=============================================================================
