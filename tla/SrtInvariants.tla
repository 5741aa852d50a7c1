---- MODULE SrtInvariants ----
(***************************************************************************)
(* The inductive invariant behind the safety properties of Srt, for an     *)
(* application that does not reuse a socket whose disconnect failed.       *)
(*                                                                         *)
(* Its core is an order on segments.  A connection has two ages: its SYNs  *)
(* and SYNACKs, and everything later.  Read the path as a ring, from the   *)
(* client's end of toClient round to the client's end of toServer: the age *)
(* never falls, because each queue is FIFO and the server answers what it  *)
(* takes with segments of the same age.  So once the client has seen the   *)
(* SYNACK or the FINACK of a connection nothing older is left anywhere.    *)
(***************************************************************************)
EXTENDS Srt

Age(seg) == 2 * seg.conn + (IF seg.type \in {"SYN", "SYNACK"} THEN 0 ELSE 1)

Indices(queue) == 1..Len(queue)

RingOrdered ==
    /\ \A i, j \in Indices(toServer) :
         i < j => Age(toServer[i]) <= Age(toServer[j])
    /\ \A i, j \in Indices(toClient) :
         i < j => Age(toClient[i]) <= Age(toClient[j])
    /\ \A i \in Indices(toClient), j \in Indices(toServer) :
         Age(toClient[i]) <= Age(toServer[j])
----
(* Where the client is *)

\* No data was written on this connection yet: the socket is new or its last
\* disconnect returned 1, and connect has not returned 1 since.
Opening ==
    \/ cPc \in {"synPoll", "synResend"}
    \/ cPc = "idle" /\ cState /= "CONNECTED" /\ ~dirty

\* The client has sent a FIN on this connection.
FinSent == cPc \in {"finPoll", "finResend"} \/ dirty

SynAckSeen ==
    \/ handler = "synack"
    \/ cState \in {"CONNECTED", "FINWAIT"}
    \/ FinSent

FinAckSeen ==
    \/ handler = "finack"
    \/ cPc \in {"finPoll", "finResend"} /\ cState = "CLOSED"

ClientPhases ==
    /\ cPc \in {"synPoll", "synResend"} =>
         cState \in {"SYNSENT", "CONNECTED"} /\ ~dirty /\ retry > 0
    /\ cPc = "idle" => cState \in {"CLOSED", "CONNECTED", "FREE"}
    /\ cPc \in {"addSeg", "send"} => cState = "CONNECTED" /\ ~dirty
    /\ cPc = "addSeg" => pending > 0
    /\ cPc \in {"finPoll", "finResend"} =>
         cState \in {"FINWAIT", "CLOSED"} /\ ~dirty /\ retry > 0
    /\ cPc = "clear" =>
         cState = "CLOSED" /\ handler = "recv" /\ ~svrKnown /\ ~dirty /\ conn > 0
    /\ dirty => cPc = "idle" /\ cState \in {"CLOSED", "FREE"}
    /\ handler = "synack" => Opening
    /\ handler = "finack" => FinSent
    /\ handler = "send" => ~Opening
    /\ cState = "CONNECTED" => handler \in {"recv", "send"}
    /\ cState = "CLOSED" /\ FinSent /\ ~dirty => handler = "recv"
----
(* What is on the path *)

Oldest == IF FinAckSeen THEN 2 * conn + 1
          ELSE IF SynAckSeen THEN 2 * conn ELSE 2 * conn - 1

Newest == IF Opening THEN 2 * conn
          ELSE IF cPc = "clear" THEN 2 * conn - 1 ELSE 2 * conn + 1

AgesInRange ==
    /\ \A i \in Indices(toServer) : Age(toServer[i]) \in Oldest..Newest
    /\ \A i \in Indices(toClient) : Age(toClient[i]) \in Oldest..Newest

Contents ==
    /\ \A i \in Indices(toServer) :
         /\ toServer[i].type \in {"SYN", "FIN", "DATA"}
         /\ toServer[i].type = "SYN" => toServer[i].seq_num = 0
         /\ toServer[i].type = "DATA" => toServer[i].length > 0
         /\ ~FinSent /\ toServer[i].type = "FIN" => toServer[i].conn /= conn
    /\ \A i \in Indices(toClient) :
         toClient[i].type \in {"SYNACK", "FINACK", "DATAACK"}
----
(* The send buffer *)

SendBufferSorted ==
    /\ \A i \in Indices(sendBuf) :
         /\ sendBuf[i].type = "DATA"
         /\ sendBuf[i].length > 0
         /\ sendBuf[i].conn = IF cPc = "clear" THEN conn - 1 ELSE conn
         /\ cPc /= "clear" =>
              sendBuf[i].seq_num + sendBuf[i].length <= next_seqNum
    /\ \A i, j \in Indices(sendBuf) :
         i < j => sendBuf[i].seq_num + sendBuf[i].length <= sendBuf[j].seq_num
    /\ Opening => sendBuf = << >> /\ next_seqNum = 0 /\ unAck_segNum = 0
    /\ cPc = "clear" => next_seqNum = 0

FirstUnsent == IF unSent = 0 THEN next_seqNum ELSE sendBuf[unSent].seq_num

\* Where an acknowledgement may point: below the buffer, at a segment that
\* waits for one, or at the first segment not yet sent.
Boundary(n) ==
    \/ n <= FirstHeld
    \/ n = FirstUnsent
    \/ \E i \in 1..unAck_segNum : n = sendBuf[i].seq_num

BoundariesOnPath ==
    /\ \A i \in Indices(toServer) :
         toServer[i].type = "DATA" /\ toServer[i].conn = conn
           => Boundary(toServer[i].seq_num + toServer[i].length)
    /\ \A i \in Indices(toClient) :
         toClient[i].type = "DATAACK" /\ toClient[i].conn = conn
           => /\ Boundary(toClient[i].ack_num)
              /\ sState = "CONNECTED" => toClient[i].ack_num <= expect_seqNum
----
(* The server *)

SynAckOnPath ==
    \E i \in Indices(toClient) :
        toClient[i].type = "SYNACK" /\ toClient[i].conn = conn

FinAckOnPath ==
    \E i \in Indices(toClient) :
        toClient[i].type = "FINACK" /\ toClient[i].conn = conn

ServerConnected ==
    sState = "CONNECTED" =>
      /\ sConn = conn
      /\ ~FinAckSeen /\ ~FinAckOnPath /\ cPc /= "clear"
      /\ \A i \in Indices(toServer) : Age(toServer[i]) >= 2 * conn
      /\ expect_seqNum > 0 =>
           ~Opening /\ \A i \in Indices(toServer) : Age(toServer[i]) > 2 * conn
      /\ Boundary(expect_seqNum)

ServerOpened ==
    ~FinSent /\ (handler = "synack" \/ cState = "CONNECTED" \/ SynAckOnPath)
      => sState = "CONNECTED"

ServerStream ==
    /\ sState \notin {"CONNECTED", "CLOSEWAIT"} => recvBuf = << >>
    /\ sState \in {"CONNECTED", "CLOSEWAIT"} => Len(Stream) = expect_seqNum
----
Ind ==
    /\ TypeOK
    /\ ClientPhases
    /\ RingOrdered
    /\ AgesInRange
    /\ Contents
    /\ SendBufferSorted
    /\ SendBufferOK
    /\ TimerCoversUnacked
    /\ BoundariesOnPath
    /\ ServerConnected
    /\ ServerOpened
    /\ ServerStream
    /\ StreamIntegrity
    /\ FreedWasAccepted
====
