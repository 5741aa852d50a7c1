---- MODULE SrtSockets ----
(***************************************************************************)
(* The sockets of SRT and the programs that use them: SRT processes on     *)
(* several client nodes and one server node, each with its TCB table, its  *)
(* seghandler, which finds the TCB of a segment by port, and the main      *)
(* function of an application.                                             *)
(*                                                                         *)
(* SrtClient and SrtServer have every step of one connection; here is what *)
(* they leave out, several ports and peers.  So send passes one segment    *)
(* per connection, and what the payload is to be told apart by is who sent *)
(* it.  As there is one server node, svr_nodeID is -1 exactly when         *)
(* svr_portNum is 0.  A client that fails a call exits, as the programs do.*)
(***************************************************************************)
EXTENDS Integers, Sequences, SequencesExt, FiniteSetsExt

CONSTANTS
    Clients,                \* the client nodes
    Server,                 \* the server node
    Sockets,                \* the programs' variables for sockets
    Deployments,            \* what the processes may run: sequences of calls
    MAX_TRANSPORT_CONNECTIONS,
    SYN_MAX_RETRY,
    FIN_MAX_RETRY,
    MaxToServer,            \* bound: segments on their way from one client
    MaxToClient             \* bound: segments on their way to one client

ASSUME SocketsAssumption ==
    /\ Server \notin Clients
    /\ MAX_TRANSPORT_CONNECTIONS \in Nat
    /\ SYN_MAX_RETRY \in Nat /\ FIN_MAX_RETRY \in Nat

VARIABLES
    program,                \* the calls each process has still to make
    at,                     \* where its main thread is
    sockfds,                \* what its calls of sock have returned, 0 before
    retry,                  \* retries left in connect or disconnect
    ctcb,                   \* the TCB tables of the clients
    stcb,                   \* the TCB table of the server
    toServer,               \* segments on their way from each client
    toClient                \* segments on their way to each client

appVars == <<program, at, sockfds, retry>>
vars == <<appVars, ctcb, stcb, toServer, toClient>>

Processes == Clients \cup {Server}

\* Entries of a TCB table; NULL is an entry not in use.
Entries == 1..MAX_TRANSPORT_CONNECTIONS
NULL == [state |-> "NULL"]

Seg(type, src_port, dest_port) ==
    [type |-> type, src_port |-> src_port, dest_port |-> dest_port]

\* snp_sendseg; the path is lossy, and may as well drop what exceeds the bound.
Enqueue(queue, bound, seg) ==
    IF Len(queue) < bound THEN Append(queue, seg) ELSE queue

\* The fields sock sets; portNum is the process's own port.  svr_portNum 0 is
\* that of a client not connected; holding: its send buffer is not empty.
ClientTcb(port) ==
    [portNum |-> port, svr_portNum |-> 0, state |-> "CLOSED", holding |-> FALSE]

\* client is client_nodeID and client_portNum; expect: the data has not been
\* accepted yet; recvBuf has the senders of the data it holds.
ServerTcb(port) ==
    [portNum |-> port, client |-> << >>, state |-> "CLOSED",
     expect |-> TRUE, recvBuf |-> << >>]

\* tcbtable_gettcbFromPort: the entries, at most one, with this port.
EntriesOfPort(table, port) ==
    {i \in Entries : table[i] /= NULL /\ table[i].portNum = port}

\* tcbtable_newtcb: 0 when the port is in use or the table is full.
NewTcb(table, port) ==
    LET unused == {i \in Entries : table[i] = NULL}
    IN  IF EntriesOfPort(table, port) /= {} \/ unused = {} THEN 0 ELSE Min(unused)

Init ==
    /\ program \in Deployments
    /\ at = [n \in Processes |-> "main"]
    /\ sockfds = [n \in Processes |-> [s \in Sockets |-> 0]]
    /\ retry = [c \in Clients |-> 0]
    /\ ctcb = [c \in Clients |-> [i \in Entries |-> NULL]]
    /\ stcb = [i \in Entries |-> NULL]
    /\ toServer = [c \in Clients |-> << >>]
    /\ toClient = [c \in Clients |-> << >>]
----
(* Programs.  A call is an operation, the variable of the socket it is     *)
(* for, and a port.  A program creates a socket before it uses it.         *)

Call(op, sock, port) == [op |-> op, sock |-> sock, port |-> port]

Operations ==
    {"sock", "connect", "send", "disconnect", "accept", "recv", "close"}
CallTypes == [op : Operations, sock : Sockets, port : Nat]

ASSUME DeploymentsAssumption ==
    /\ Deployments \subseteq [Processes -> Seq(CallTypes)]
    /\ \A d \in Deployments, n \in Processes :
         \A k \in DOMAIN d[n] :
           \E j \in 1..k : d[n][j].op = "sock" /\ d[n][j].sock = d[n][k].sock

\* app_simple_client: two connections, data on each.
SimpleClient ==
    << Call("sock", 1, 87), Call("connect", 1, 88),
       Call("sock", 2, 89), Call("connect", 2, 90),
       Call("send", 1, 0), Call("send", 2, 0),
       Call("disconnect", 1, 0), Call("close", 1, 0),
       Call("disconnect", 2, 0), Call("close", 2, 0) >>

\* app_stress_client: one connection.
StressClient ==
    << Call("sock", 1, 87), Call("connect", 1, 88), Call("send", 1, 0),
       Call("disconnect", 1, 0), Call("close", 1, 0) >>

\* app_simple_server: the second socket is created after the first accept.
SimpleServer ==
    << Call("sock", 1, 88), Call("accept", 1, 0),
       Call("sock", 2, 90), Call("accept", 2, 0),
       Call("recv", 1, 0), Call("recv", 2, 0),
       Call("close", 1, 0), Call("close", 2, 0) >>

\* app_stress_server
StressServer ==
    << Call("sock", 1, 88), Call("accept", 1, 0), Call("recv", 1, 0),
       Call("close", 1, 0) >>

Calls(n, op) == at[n] = "main" /\ program[n] /= << >> /\ Head(program[n]).op = op

Socket(n) == sockfds[n][Head(program[n]).sock]

Returns(n) ==
    /\ program' = [program EXCEPT ![n] = Tail(@)]
    /\ at' = [at EXCEPT ![n] = "main"]

\* The call goes on at another place.
Goes(n, place) == at' = [at EXCEPT ![n] = place] /\ UNCHANGED program

\* exit, or the end of main: the process is gone, and its tables with it.
Exits(n) ==
    /\ program' = [program EXCEPT ![n] = << >>]
    /\ at' = [at EXCEPT ![n] = "gone"]
    /\ IF n = Server
       THEN stcb' = [i \in Entries |-> NULL] /\ UNCHANGED ctcb
       ELSE /\ ctcb' = [ctcb EXCEPT ![n] = [i \in Entries |-> NULL]]
            /\ UNCHANGED stcb

\* The end of main: disconnectToNetwork.
Finish(n) ==
    /\ at[n] = "main" /\ program[n] = << >>
    /\ Exits(n)
    /\ UNCHANGED <<sockfds, retry, toServer, toClient>>

\* srt_client_sock, srt_server_sock; the programs exit when it fails.
Sock(n) ==
    /\ Calls(n, "sock")
    /\ LET table == IF n = Server THEN stcb ELSE ctcb[n]
           port  == Head(program[n]).port
           i     == NewTcb(table, port)
       IN  IF i = 0
           THEN Exits(n) /\ UNCHANGED sockfds
           ELSE /\ sockfds' = [sockfds EXCEPT ![n][Head(program[n]).sock] = i]
                /\ Returns(n)
                /\ IF n = Server
                   THEN stcb' = [stcb EXCEPT ![i] = ServerTcb(port)]
                        /\ UNCHANGED ctcb
                   ELSE ctcb' = [ctcb EXCEPT ![n][i] = ClientTcb(port)]
                        /\ UNCHANGED stcb
    /\ UNCHANGED <<retry, toServer, toClient>>
----
(* The client's calls *)

State(c) == ctcb[c][Socket(c)].state
SetState(c, state) == ctcb' = [ctcb EXCEPT ![c][Socket(c)].state = state]

SendFromSocket(c, type) ==
    LET tcb == ctcb'[c][Socket(c)]
    IN  toServer' = [toServer EXCEPT ![c] =
                       Enqueue(@, MaxToServer, Seg(type, tcb.portNum, tcb.svr_portNum))]

\* connect on a socket that is not CLOSED, disconnect on one that is not
\* CONNECTED: -1.
CallFails(c) ==
    /\ \E call \in {<<"connect", "CLOSED">>, <<"disconnect", "CONNECTED">>} :
         Calls(c, call[1]) /\ State(c) /= call[2]
    /\ Exits(c)
    /\ UNCHANGED <<sockfds, retry, toServer, toClient>>

Connect(c) ==
    /\ Calls(c, "connect") /\ State(c) = "CLOSED"
    /\ ctcb' = [ctcb EXCEPT ![c][Socket(c)].svr_portNum = Head(program[c]).port,
                            ![c][Socket(c)].state = "SYNSENT"]
    /\ SendFromSocket(c, "SYN")
    /\ retry' = [retry EXCEPT ![c] = SYN_MAX_RETRY]
    /\ Goes(c, "connect")
    /\ UNCHANGED <<sockfds, stcb, toClient>>

Disconnect(c) ==
    /\ Calls(c, "disconnect") /\ State(c) = "CONNECTED"
    /\ SetState(c, "FINWAIT")
    /\ SendFromSocket(c, "FIN")
    /\ retry' = [retry EXCEPT ![c] = FIN_MAX_RETRY]
    /\ Goes(c, "disconnect")
    /\ UNCHANGED <<sockfds, stcb, toClient>>

\* After a timeout: the answer has come and the call returns 1.
ConnectReturns(c) ==
    /\ at[c] = "connect" /\ retry[c] > 0 /\ State(c) = "CONNECTED"
    /\ Returns(c)
    /\ retry' = [retry EXCEPT ![c] = 0]
    /\ UNCHANGED <<sockfds, ctcb, stcb, toServer, toClient>>

DisconnectReturns(c) ==
    /\ at[c] = "disconnect" /\ retry[c] > 0 /\ State(c) = "CLOSED"
    /\ ctcb' = [ctcb EXCEPT ![c][Socket(c)].svr_portNum = 0,
                            ![c][Socket(c)].holding = FALSE]
    /\ Returns(c)
    /\ retry' = [retry EXCEPT ![c] = 0]
    /\ UNCHANGED <<sockfds, stcb, toServer, toClient>>

\* It had not come when the state was tested, and the SYN or FIN is sent
\* again; it may come before that is done.
TimesOut(c) ==
    /\ retry[c] > 0
    /\ \/ at[c] = "connect" /\ State(c) /= "CONNECTED" /\ Goes(c, "sendSyn")
       \/ at[c] = "disconnect" /\ State(c) /= "CLOSED" /\ Goes(c, "sendFin")
    /\ UNCHANGED <<sockfds, retry, ctcb, stcb, toServer, toClient>>

SendAgain(c) ==
    /\ UNCHANGED <<sockfds, ctcb, stcb, toClient>>
    /\ \/ at[c] = "sendSyn" /\ Goes(c, "connect") /\ SendFromSocket(c, "SYN")
       \/ at[c] = "sendFin" /\ Goes(c, "disconnect") /\ SendFromSocket(c, "FIN")
    /\ retry' = [retry EXCEPT ![c] = @ - 1]

\* Out of retries: CLOSED whatever has come since, and -1.
GivesUp(c) ==
    /\ at[c] \in {"connect", "disconnect"} /\ retry[c] = 0
    /\ Exits(c)
    /\ UNCHANGED <<sockfds, retry, toServer, toClient>>

\* srt_client_send; the programs ignore what it returns.
Send(c) ==
    /\ Calls(c, "send")
    /\ IF State(c) = "CONNECTED"
       THEN /\ ctcb' = [ctcb EXCEPT ![c][Socket(c)].holding = TRUE]
            /\ SendFromSocket(c, "DATA")
       ELSE UNCHANGED <<ctcb, toServer>>
    /\ Returns(c)
    /\ UNCHANGED <<sockfds, retry, stcb, toClient>>

\* sendBuf_timeout, until the data is acknowledged or the buffer cleared.
SendTimeout(c, i) ==
    /\ ctcb[c][i] /= NULL /\ ctcb[c][i].holding
    /\ toServer' = [toServer EXCEPT ![c] = Enqueue(@, MaxToServer,
                      Seg("DATA", ctcb[c][i].portNum, ctcb[c][i].svr_portNum))]
    /\ UNCHANGED <<appVars, ctcb, stcb, toClient>>

\* srt_client_close, srt_server_close; the programs exit when it fails.
Close(n) ==
    LET tcb == IF n = Server THEN stcb[Socket(n)] ELSE ctcb[n][Socket(n)]
    IN  /\ Calls(n, "close")
        /\ IF tcb.state /= "CLOSED"
           THEN Exits(n)
           ELSE /\ Returns(n)
                /\ IF n = Server
                   THEN stcb' = [stcb EXCEPT ![Socket(n)] = NULL] /\ UNCHANGED ctcb
                   ELSE ctcb' = [ctcb EXCEPT ![n][Socket(n)] = NULL] /\ UNCHANGED stcb
        /\ UNCHANGED <<sockfds, retry, toServer, toClient>>
----
(* The client's seghandler: the TCB whose port is dest_port handles the    *)
(* segment if it comes from its svr_portNum and its state awaits the type. *)

AnyAckCloses(state, type) ==                                           \* mutant
    CASE state = "SYNSENT" /\ type = "SYNACK"    -> "CONNECTED"
      [] state = "CONNECTED" /\ type = "DATAACK" -> "CONNECTED"
      [] state = "FINWAIT"                       -> "CLOSED"
      [] OTHER                                   -> "ignored"
NextState(state, type) ==
    CASE state = "SYNSENT" /\ type = "SYNACK"    -> "CONNECTED"
      [] state = "CONNECTED" /\ type = "DATAACK" -> "CONNECTED"
      [] state = "FINWAIT" /\ type = "FINACK"    -> "CLOSED"
      [] OTHER                                   -> "ignored"

FromItsServer(tcb, seg) == tcb.svr_portNum = seg.src_port

ClientHandler(c) ==
    LET seg == Head(toClient[c])
        handles(i) == /\ FromItsServer(ctcb[c][i], seg)
                      /\ NextState(ctcb[c][i].state, seg.type) /= "ignored"
        handler == {i \in EntriesOfPort(ctcb[c], seg.dest_port) : handles(i)}
        after(tcb) == [tcb EXCEPT !.state = NextState(@, seg.type),
                                  !.holding = @ /\ seg.type /= "DATAACK"]
    IN  /\ toClient[c] /= << >>
        /\ toClient' = [toClient EXCEPT ![c] = Tail(@)]
        /\ ctcb' = [ctcb EXCEPT ![c] = [i \in Entries |->
             IF i \in handler THEN after(ctcb[c][i]) ELSE ctcb[c][i]]]
        /\ UNCHANGED <<appVars, stcb, toServer>>
----
(* The server's calls *)

\* srt_server_accept; the programs ignore what it returns.
Accept ==
    /\ Calls(Server, "accept")
    /\ IF stcb[Socket(Server)].state = "CLOSED"
       THEN /\ stcb' = [stcb EXCEPT ![Socket(Server)].state = "LISTENING"]
            /\ Goes(Server, "accept")
       ELSE Returns(Server) /\ UNCHANGED stcb
    /\ UNCHANGED <<sockfds, retry, ctcb, toServer, toClient>>

AcceptReturns ==
    /\ at[Server] = "accept" /\ stcb[Socket(Server)].state = "CONNECTED"
    /\ Returns(Server)
    /\ UNCHANGED <<sockfds, retry, ctcb, stcb, toServer, toClient>>

\* srt_server_recv: the state is tested once; then recv polls for data.
Recv ==
    /\ Calls(Server, "recv")
    /\ IF stcb[Socket(Server)].state = "CONNECTED"
       THEN Goes(Server, "recv")
       ELSE Returns(Server)
    /\ UNCHANGED <<sockfds, retry, ctcb, stcb, toServer, toClient>>

RecvReturns ==
    /\ at[Server] = "recv" /\ stcb[Socket(Server)].recvBuf /= << >>
    /\ stcb' = [stcb EXCEPT ![Socket(Server)].recvBuf = Tail(@)]
    /\ Returns(Server)
    /\ UNCHANGED <<sockfds, retry, ctcb, toServer, toClient>>
----
(* The server's seghandler for a segment of client c: the TCB of dest_port *)
(* takes a SYN from anyone in LISTENING, and later only segments of its    *)
(* client, the node and the port of that SYN.                              *)

FromAnyNode(tcb, c, seg) == tcb.client[2] = seg.src_port               \* mutant
FromItsClient(tcb, c, seg) == tcb.client = <<c, seg.src_port>>

EchoesType(c, type, seg) ==                                            \* mutant
    toClient' = [toClient EXCEPT ![c] =
                   Enqueue(@, MaxToClient, Seg(seg.type, seg.dest_port, seg.src_port))]
Answer(c, type, seg) ==
    toClient' = [toClient EXCEPT ![c] =
                   Enqueue(@, MaxToClient, Seg(type, seg.dest_port, seg.src_port))]

\* The types of segment of c that TCB i is to act on.
Awaited(i, c, seg) ==
    CASE stcb[i].state = "LISTENING" -> {"SYN"}
      [] stcb[i].state = "CONNECTED" /\ FromItsClient(stcb[i], c, seg) ->
            {"SYN", "DATA", "FIN"}
      [] stcb[i].state = "CLOSEWAIT" /\ FromItsClient(stcb[i], c, seg) -> {"FIN"}
      [] OTHER -> {}

Takes(i, c, type) ==
    /\ toServer[c] /= << >>
    /\ LET seg == Head(toServer[c])
       IN  /\ seg.type = type
           /\ i \in EntriesOfPort(stcb, seg.dest_port)
           /\ type \in Awaited(i, c, seg)
    /\ toServer' = [toServer EXCEPT ![c] = Tail(@)]
    /\ UNCHANGED <<appVars, ctcb>>

\* syn_received: opens the connection, or is a duplicate.
SynReceived(i, c) ==
    /\ Takes(i, c, "SYN")
    /\ stcb' = [stcb EXCEPT
                  ![i].client = <<c, Head(toServer[c]).src_port>>,
                  ![i].expect = TRUE,
                  ![i].state = "CONNECTED"]
    /\ Answer(c, "SYNACK", Head(toServer[c]))

\* data_received: accepted once, acknowledged always.
DataReceived(i, c) ==
    /\ Takes(i, c, "DATA")
    /\ stcb' = [stcb EXCEPT
                  ![i].recvBuf = IF stcb[i].expect
                                 THEN Append(@, <<c, Head(toServer[c]).src_port>>)
                                 ELSE @,
                  ![i].expect = FALSE]
    /\ Answer(c, "DATAACK", Head(toServer[c]))

\* fin_received; the first FIN also starts the closewait thread.
FinReceived(i, c) ==
    /\ Takes(i, c, "FIN")
    /\ stcb' = [stcb EXCEPT ![i].state = "CLOSEWAIT"]
    /\ Answer(c, "FINACK", Head(toServer[c]))

\* No TCB has the port, or the one that has it does not act on the segment.
Ignore(c) ==
    /\ toServer[c] /= << >>
    /\ LET seg == Head(toServer[c])
       IN  \A i \in EntriesOfPort(stcb, seg.dest_port) : seg.type \notin Awaited(i, c, seg)
    /\ toServer' = [toServer EXCEPT ![c] = Tail(@)]
    /\ UNCHANGED <<appVars, ctcb, stcb, toClient>>

\* closewait, after CLOSEWAIT_TIMEOUT.
CloseWaitKeepsBuffer(i) ==                                             \* mutant
    /\ stcb[i].state = "CLOSEWAIT"
    /\ stcb' = [stcb EXCEPT ![i].state = "CLOSED"]
    /\ UNCHANGED <<appVars, ctcb, toServer, toClient>>
CloseWaitExpires(i) ==
    /\ stcb[i].state = "CLOSEWAIT"
    /\ stcb' = [stcb EXCEPT ![i].state = "CLOSED", ![i].recvBuf = << >>]
    /\ UNCHANGED <<appVars, ctcb, toServer, toClient>>

\* seglost, on either side.
Lose(c) ==
    /\ \/ /\ toServer[c] /= << >>
          /\ toServer' = [toServer EXCEPT ![c] = Tail(@)]
          /\ UNCHANGED toClient
       \/ /\ toClient[c] /= << >>
          /\ toClient' = [toClient EXCEPT ![c] = Tail(@)]
          /\ UNCHANGED toServer
    /\ UNCHANGED <<appVars, ctcb, stcb>>
----
ClientNext(c) ==
    \/ Connect(c) \/ ConnectReturns(c) \/ Disconnect(c) \/ DisconnectReturns(c)
    \/ CallFails(c) \/ TimesOut(c) \/ SendAgain(c) \/ GivesUp(c)
    \/ Send(c) \/ \E i \in Entries : SendTimeout(c, i)
    \/ ClientHandler(c)

ServerNext ==
    \/ Accept \/ AcceptReturns \/ Recv \/ RecvReturns
    \/ \E i \in Entries : CloseWaitExpires(i)
    \/ \E c \in Clients :
         \/ \E i \in Entries : SynReceived(i, c) \/ DataReceived(i, c) \/ FinReceived(i, c)
         \/ Ignore(c)

Next ==
    \/ \E n \in Processes : Sock(n) \/ Close(n) \/ Finish(n)
    \/ \E c \in Clients : ClientNext(c) \/ Lose(c)
    \/ ServerNext

Spec == Init /\ [][Next]_vars
----
Places == {"main", "connect", "sendSyn", "disconnect", "sendFin", "accept",
           "recv", "gone"}

ClientTcbs ==
    [portNum : Nat, svr_portNum : Nat,
     state : {"CLOSED", "SYNSENT", "CONNECTED", "FINWAIT"}, holding : BOOLEAN]

ServerTcbs ==
    [portNum : Nat, client : (Clients \X Nat) \cup {<< >>},
     state : {"CLOSED", "LISTENING", "CONNECTED", "CLOSEWAIT"},
     expect : BOOLEAN, recvBuf : Seq(Clients \X Nat)]

Segments(types) == [type : types, src_port : Nat, dest_port : Nat]

TypeOK ==
    /\ program \in [Processes -> Seq(CallTypes)]
    /\ at \in [Processes -> Places]
    /\ sockfds \in [Processes -> [Sockets -> Entries \cup {0}]]
    /\ retry \in [Clients -> Nat]
    /\ ctcb \in [Clients -> [Entries -> ClientTcbs \cup {NULL}]]
    /\ stcb \in [Entries -> ServerTcbs \cup {NULL}]
    /\ toServer \in [Clients -> Seq(Segments({"SYN", "DATA", "FIN"}))]
    /\ toClient \in [Clients -> Seq(Segments({"SYNACK", "DATAACK", "FINACK"}))]

\* The server has a TCB connected to the client's TCB.
Served(c, tcb) ==
    \E i \in Entries :
      /\ stcb[i].state = "CONNECTED"
      /\ stcb[i].portNum = tcb.svr_portNum
      /\ stcb[i].client = <<c, tcb.portNum>>

\* A socket that is CONNECTED is the one its server answers, as long as that
\* process runs: not two clients at one port, not one client's SYNACK for
\* another socket, no FIN of one client that closes the connection of another
\* (the demultiplexing of both seghandlers).
RightPeer ==
    \A c \in Clients, i \in Entries :
      ctcb[c][i].state = "CONNECTED" /\ at[Server] /= "gone" => Served(c, ctcb[c][i])

\* When disconnect sees the FINACK, the server has left that connection: it
\* was not the answer to the FIN of another socket or of an earlier server.
ServerHasLeft ==
    \A c \in Clients :
      at[c] = "disconnect" /\ State(c) = "CLOSED" => ~Served(c, ctcb[c][Socket(c)])

\* What recv can return while a connection is open was sent on it, although
\* the buffer and the port were another client's before (data_received,
\* closewait).
OwnData ==
    \A i \in Entries :
      stcb[i].state = "CONNECTED" => ToSet(stcb[i].recvBuf) \subseteq {stcb[i].client}
====
