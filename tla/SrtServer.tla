---- MODULE SrtServer ----
(***************************************************************************)
(* The server side of SRT (server/srt_server.c) for one transport control  *)
(* block: the application thread inside the API calls, the seghandler      *)
(* thread and the closewait thread.  Only seghandler moves the state from  *)
(* LISTENING to CONNECTED to CLOSEWAIT, so the handling of one segment is  *)
(* one action; recv and closewait interleave with it.                      *)
(***************************************************************************)
EXTENDS SrtSegments

CONSTANTS
    RECEIVE_BUF_SIZE,
    RecvLengths             \* the lengths the application passes to recv

ASSUME ServerAssumption ==
    /\ RECEIVE_BUF_SIZE \in Nat \ {0}
    /\ RecvLengths \subseteq Nat \ {0}

VARIABLES
    sState,                 \* svrtcb->state; FREE once the TCB is freed
    expect_seqNum,
    recvBuf,                \* the bytes of recvBuf; usedBufLen is its length
    sPc,                    \* where the application thread is
    request,                \* the length passed to the recv that is running
    sCrashed,               \* the server process was killed by a fault
    delivered,              \* history: bytes recv returned on this connection
    sConn                   \* history: the connection of the SYN accepted last

serverVars == <<sState, expect_seqNum, recvBuf, sPc, request, sCrashed,
                delivered, sConn>>

ServerStates == {"FREE", "CLOSED", "LISTENING", "CONNECTED", "CLOSEWAIT"}

ServerPcs == {"idle", "accept", "recv", "copy"}

\* srt_server_init and srt_server_sock.
ServerInit ==
    /\ sState = "CLOSED"
    /\ expect_seqNum = 0
    /\ recvBuf = << >>
    /\ sPc = "idle"
    /\ request = 0
    /\ sCrashed = FALSE
    /\ delivered = << >>
    /\ sConn = 0

ServerTypeOK ==
    /\ sState \in ServerStates
    /\ expect_seqNum \in Nat
    /\ recvBuf \in Seq(Nat \X Nat)
    /\ Len(recvBuf) < RECEIVE_BUF_SIZE
    /\ sPc \in ServerPcs
    /\ request \in Nat
    /\ sCrashed \in BOOLEAN
    /\ delivered \in Seq(Nat \X Nat)
    /\ sConn \in Nat
----
(* srt_server_accept *)

Accept ==
    /\ sPc = "idle" /\ sState = "CLOSED"
    /\ sState' = "LISTENING"
    /\ sPc' = "accept"
    /\ UNCHANGED <<path, expect_seqNum, recvBuf, request, sCrashed,
                   delivered, sConn>>

\* The busy wait sees CONNECTED; in any other state it sleeps again.
AcceptReturn ==
    /\ sPc = "accept" /\ sState = "CONNECTED"
    /\ sPc' = "idle"
    /\ UNCHANGED <<path, sState, expect_seqNum, recvBuf, request, sCrashed,
                   delivered, sConn>>
----
(* srt_server_recv *)

Recv(length) ==
    /\ sPc = "idle" /\ sState = "CONNECTED"
    /\ request' = length
    /\ sPc' = "recv"
    /\ UNCHANGED <<path, sState, expect_seqNum, recvBuf, sCrashed,
                   delivered, sConn>>

\* usedBufLen is tested without bufMutex, in whatever state the TCB is now.
AvailableAbove == Len(recvBuf) > request                        \* mutant
Available == Len(recvBuf) >= request
RecvPoll ==
    /\ sPc = "recv" /\ Available
    /\ sPc' = "copy"
    /\ UNCHANGED <<path, sState, expect_seqNum, recvBuf, request, sCrashed,
                   delivered, sConn>>

RecvCopy ==
    /\ sPc = "copy" /\ Len(recvBuf) >= request
    /\ delivered' = delivered \o SubSeq(recvBuf, 1, request)
    /\ recvBuf' = SubSeq(recvBuf, request + 1, Len(recvBuf))
    /\ sPc' = "idle"
    /\ UNCHANGED <<path, sState, expect_seqNum, request, sCrashed, sConn>>

\* closewait emptied the buffer after the test: usedBufLen - length is
\* negative, as an unsigned length of the memcpy about 2^32, and it faults.
RecvFault ==
    /\ sPc = "copy" /\ Len(recvBuf) < request
    /\ sCrashed' = TRUE
    /\ UNCHANGED <<path, sState, expect_seqNum, recvBuf, sPc, request,
                   delivered, sConn>>

\* srt_server_close
ServerClose ==
    /\ sPc = "idle" /\ sState = "CLOSED"
    /\ sState' = "FREE"
    /\ UNCHANGED <<path, expect_seqNum, recvBuf, sPc, request, sCrashed,
                   delivered, sConn>>
----
(* seghandler: take a segment, change the TCB, send the reply *)

ServerReceives(type) ==
    /\ toServer /= << >>
    /\ Head(toServer).type = type
    /\ toServer' = Tail(toServer)

\* The test of data_received on the sequence number.
AcceptsAny == TRUE                                              \* mutant
Expected == Head(toServer).seq_num = expect_seqNum

\* The test of savedata: one byte of the buffer always stays free.
HasRoom == Head(toServer).length + Len(recvBuf) < RECEIVE_BUF_SIZE

Reply(seg) == toClient' = Enqueue(toClient, <<seg>>)

\* syn_received: in LISTENING it opens a connection; in CONNECTED it is a
\* duplicate, answered, and expect_seqNum is set again.
SynReceived ==
    /\ sState \in {"LISTENING", "CONNECTED"}
    /\ ServerReceives("SYN")
    /\ expect_seqNum' = Head(toServer).seq_num
    /\ sConn' = Head(toServer).conn
    /\ delivered' = IF sState = "LISTENING" THEN << >> ELSE delivered
    /\ sState' = "CONNECTED"
    /\ Reply(Control("SYNACK", Head(toServer).conn))
    /\ UNCHANGED <<recvBuf, sPc, request, sCrashed>>

\* data_received and savedata: the expected segment, and room for it.
SaveData ==
    /\ sState = "CONNECTED"
    /\ ServerReceives("DATA")
    /\ Expected /\ HasRoom
    /\ recvBuf' = recvBuf \o Payload(Head(toServer))
    /\ expect_seqNum' = Head(toServer).length + Head(toServer).seq_num
    /\ Reply(DataAck(expect_seqNum', Head(toServer).conn))
    /\ UNCHANGED <<sState, sPc, request, sCrashed, delivered, sConn>>

\* data_received: another segment; the old expect_seqNum is acknowledged.
RepeatAck ==
    /\ sState = "CONNECTED"
    /\ ServerReceives("DATA")
    /\ ~Expected
    /\ Reply(DataAck(expect_seqNum, Head(toServer).conn))
    /\ UNCHANGED serverVars

\* fin_received: the first FIN also starts the closewait thread.
FinReceived ==
    /\ sState \in {"CONNECTED", "CLOSEWAIT"}
    /\ ServerReceives("FIN")
    /\ sState' = "CLOSEWAIT"
    /\ Reply(Control("FINACK", Head(toServer).conn))
    /\ UNCHANGED <<expect_seqNum, recvBuf, sPc, request, sCrashed,
                   delivered, sConn>>

\* The default branches, and the expected segment with no room for it.
ServerIgnore ==
    /\ \E type \in SegTypes : ServerReceives(type)
    /\ \/ sState \in {"FREE", "CLOSED"}
       \/ sState = "LISTENING" /\ Head(toServer).type /= "SYN"
       \/ sState = "CLOSEWAIT" /\ Head(toServer).type /= "FIN"
       \/ /\ sState = "CONNECTED" /\ Head(toServer).type = "DATA"
          /\ Expected /\ ~HasRoom
    /\ UNCHANGED <<toClient, serverVars>>

\* The closewait thread after CLOSEWAIT_TIMEOUT; it exists in CLOSEWAIT only.
CloseWaitKeepsBuffer ==                                         \* mutant
    sState = "CLOSEWAIT" /\ sState' = "CLOSED"
      /\ UNCHANGED <<path, expect_seqNum, recvBuf, sPc, request, sCrashed,
                     delivered, sConn>>
CloseWaitExpire ==
    /\ sState = "CLOSEWAIT"
    /\ recvBuf' = << >>
    /\ sState' = "CLOSED"
    /\ UNCHANGED <<path, expect_seqNum, sPc, request, sCrashed,
                   delivered, sConn>>
----
ServerApp ==
    \/ Accept \/ AcceptReturn
    \/ (\E length \in RecvLengths : Recv(length))
    \/ RecvPoll \/ RecvCopy \/ RecvFault
    \/ ServerClose

ServerHandler ==
    \/ SynReceived \/ SaveData \/ RepeatAck \/ FinReceived \/ ServerIgnore

\* A fault ends all threads of the process.
ServerNext == ~sCrashed /\ (ServerApp \/ ServerHandler \/ CloseWaitExpire)
====
