---- MODULE SrtProofs ----
(***************************************************************************)
(* The theorems about Srt: for all values of the constants, if no socket   *)
(* is reused after a disconnect that failed, every safety property that    *)
(* the runs check holds, and the protocol implements ByteStream.           *)
(***************************************************************************)
EXTENDS SrtClientProofs, SrtServerProofs, TLAPS

USE DEF path, buffer, timers, history, clientVars, serverVars

----
(* Ind is inductive *)

\* Two new sockets on an empty path satisfy the invariant.
LEMMA InitInd == Init => Ind
<1> SUFFICES ASSUME Init PROVE Ind
  OBVIOUS
<1> USE DEF Init, PathInit, ClientInit, ServerInit
<1>1. TypeOK
  <2>1. 0 < RECEIVE_BUF_SIZE /\ MaxInFlight > 0
    BY ServerAssumption, MaxInFlightAssumption
  <2>2. PathTypeOK
    BY <2>1, MaxInFlightAssumption DEF PathTypeOK
  <2>3. ClientTypeOK
    <3>1. sendBuf \in Seq(Segments)
      OBVIOUS
    <3>2. svrKnown \in BOOLEAN /\ cCrashed \in BOOLEAN /\ dirty \in BOOLEAN
      OBVIOUS
    <3> QED
      BY <3>1, <3>2 DEF ClientTypeOK, ClientStates, ClientPcs, HandlerPcs
  <2>4. ServerTypeOK
    <3>1. recvBuf \in Seq(Nat \X Nat) /\ Len(recvBuf) = 0
      OBVIOUS
    <3>2. delivered \in Seq(Nat \X Nat)
      OBVIOUS
    <3>3. sCrashed \in BOOLEAN
      OBVIOUS
    <3> QED
      BY <2>1, <3>1, <3>2, <3>3 DEF ServerTypeOK, ServerStates, ServerPcs
  <2> QED
    BY <2>2, <2>3, <2>4 DEF TypeOK
<1>2. ClientPhases
  BY DEF ClientPhases
<1>3. RingOrdered /\ AgesInRange /\ Contents /\ BoundariesOnPath
  BY DEF RingOrdered, AgesInRange, Contents, BoundariesOnPath, Indices
<1>4. SendBufferSorted /\ SendBufferOK /\ TimerCoversUnacked
  BY ClientAssumption
     DEF SendBufferSorted, SendBufferOK, TimerCoversUnacked, Indices, Opening
<1>5. ServerConnected /\ ServerStream /\ FreedWasAccepted
  BY DEF ServerConnected, ServerStream, FreedWasAccepted
<1>6. ServerOpened
  BY DEF ServerOpened, SynAckOnPath, Indices
<1>7. StreamIntegrity
  BY DEF StreamIntegrity, Stream
<1> QED
  BY <1>1, <1>2, <1>3, <1>4, <1>5, <1>6, <1>7 DEF Ind

\* Nothing changes.
LEMMA StutterStep ==
    ASSUME Ind, UNCHANGED vars
    PROVE  Ind'
<1> USE DEF vars
<1>1. TypeOK'
  BY DEF Ind, PathTypeOK, ClientTypeOK, ServerTypeOK, ClientStates,
     ClientPcs, HandlerPcs, ServerStates, ServerPcs, TypeOK
<1>2. ClientPhases'
  BY DEF Ind, ClientPhases, Opening, FinSent
<1>3. RingOrdered'
  BY DEF Ind, RingOrdered
<1>4. AgesInRange'
  BY DEF Ind, AgesInRange, Oldest, Newest, Opening, FinSent, SynAckSeen,
     FinAckSeen
<1>5. Contents'
  BY DEF Ind, Contents, FinSent
<1>6. SendBufferSorted'
  BY DEF Ind, SendBufferSorted, Opening
<1>7. SendBufferOK'
  BY DEF Ind, SendBufferOK
<1>8. TimerCoversUnacked'
  BY DEF Ind, TimerCoversUnacked
<1>9. BoundariesOnPath'
  BY DEF Ind, BoundariesOnPath, Boundary, FirstHeld, FirstUnsent
<1>10. ServerConnected'
  BY DEF Ind, ServerConnected, FinAckSeen, FinAckOnPath, Opening, Boundary,
     FirstHeld, FirstUnsent
<1>11. ServerOpened'
  BY DEF Ind, ServerOpened, FinSent, SynAckOnPath
<1>12. ServerStream'
  BY DEF Ind, ServerStream, Stream
<1>13. StreamIntegrity'
  BY DEF Ind, StreamIntegrity, Stream
<1>14. FreedWasAccepted'
  BY DEF Ind, FreedWasAccepted, FirstHeld, Stream
<1> QED
  BY <1>1, <1>2, <1>3, <1>4, <1>5, <1>6, <1>7, <1>8, <1>9, <1>10, <1>11,
     <1>12, <1>13, <1>14 DEF Ind

\* The application thread of the client.
LEMMA ClientAppStep ==
    ASSUME ~ReuseAfterFailure, Ind, ClientApp, UNCHANGED serverVars
    PROVE  Ind'
<1>1. CASE ConnectStart
  BY <1>1, ConnectStartStep
<1>2. CASE ConnectPoll
  BY <1>2, ConnectPollStep
<1>3. CASE ConnectResend
  BY <1>3, ConnectResendStep
<1>4. CASE \E length \in SendLengths : SendStart(length)
  BY <1>4, SendStartStep
<1>5. CASE AddSeg
  BY <1>5, AddSegStep
<1>6. CASE SendReturn
  BY <1>6, SendBufSendStep
<1>7. CASE DisconnectStart
  BY <1>7, DisconnectStartStep
<1>8. CASE DisconnectPoll
  BY <1>8, DisconnectPollStep
<1>9. CASE SendBufClear
  BY <1>9, SendBufClearStep
<1>10. CASE DisconnectResend
  BY <1>10, DisconnectResendStep
<1>11. CASE ClientClose
  BY <1>11, ClientCloseStep
<1> QED
  BY <1>1, <1>2, <1>3, <1>4, <1>5, <1>6, <1>7, <1>8, <1>9, <1>10, <1>11
     DEF ClientApp

\* The seghandler and timer threads of the client.
LEMMA ClientThreadStep ==
    ASSUME Ind, ClientHandler \/ ClientTimer, UNCHANGED serverVars
    PROVE  Ind'
<1>1. CASE ReceiveSynAck
  BY <1>1, ReceiveSynAckStep
<1>2. CASE ReceiveFinAck
  BY <1>2, ReceiveFinAckStep
<1>3. CASE SetState
  BY <1>3, SetStateStep
<1>4. CASE ReceiveDataAck
  BY <1>4, ReceiveDataAckStep
<1>5. CASE HandlerSend
  BY <1>5, SendBufSendStep
<1>6. CASE ClientIgnore
  <2>1. LoseToClient /\ UNCHANGED clientVars
    BY <1>6 DEF ClientIgnore, ClientReceives, LoseToClient
  <2> QED
    BY <2>1, LoseToClientStep
<1>7. CASE TimerPoll
  BY <1>7, TimerPollStep
<1>8. CASE TimerResend
  BY <1>8, TimerResendStep
<1>9. CASE TimerFault
  BY <1>9, TimerFaultStep
<1>10. CASE UseAfterFree
  BY <1>10, UseAfterFreeStep
<1> QED
  BY <1>1, <1>2, <1>3, <1>4, <1>5, <1>6, <1>7, <1>8, <1>9, <1>10
     DEF ClientHandler, ClientTimer

\* All threads of the server.
LEMMA ServerStep ==
    ASSUME Ind, ServerNext, UNCHANGED clientVars
    PROVE  Ind'
<1>1. CASE Accept
  BY <1>1, AcceptStep
<1>2. CASE AcceptReturn
  BY <1>2, AcceptReturnStep
<1>3. CASE \E length \in RecvLengths : Recv(length)
  BY <1>3, RecvStep
<1>4. CASE RecvPoll
  BY <1>4, RecvPollStep
<1>5. CASE RecvCopy
  BY <1>5, RecvCopyStep
<1>6. CASE RecvFault
  BY <1>6, RecvFaultStep
<1>7. CASE ServerClose
  BY <1>7, ServerCloseStep
<1>8. CASE SynReceived
  BY <1>8, SynReceivedStep
<1>9. CASE SaveData
  BY <1>9, SaveDataStep
<1>10. CASE RepeatAck
  BY <1>10, RepeatAckStep
<1>11. CASE FinReceived
  BY <1>11, FinReceivedStep
<1>12. CASE ServerIgnore
  <2>1. LoseToServer /\ UNCHANGED serverVars
    BY <1>12 DEF ServerIgnore, ServerReceives, LoseToServer
  <2> QED
    BY <2>1, LoseToServerStep
<1>13. CASE CloseWaitExpire
  BY <1>13, CloseWaitExpireStep
<1> QED
  BY <1>1, <1>2, <1>3, <1>4, <1>5, <1>6, <1>7, <1>8, <1>9, <1>10, <1>11,
     <1>12, <1>13 DEF ServerNext, ServerApp, ServerHandler

\* Every step of the two ends and of the path between them.
LEMMA NextInd ==
    ASSUME ~ReuseAfterFailure, Ind, [Next]_vars
    PROVE  Ind'
<1>1. CASE ClientNext /\ UNCHANGED serverVars
  BY <1>1, ClientAppStep, ClientThreadStep DEF ClientNext
<1>2. CASE ServerNext /\ UNCHANGED clientVars
  BY <1>2, ServerStep
<1>3. CASE LoseToServer /\ UNCHANGED <<clientVars, serverVars>>
  BY <1>3, LoseToServerStep
<1>4. CASE LoseToClient /\ UNCHANGED <<clientVars, serverVars>>
  BY <1>4, LoseToClientStep
<1>5. CASE UNCHANGED vars
  BY <1>5, StutterStep
<1> QED
  BY <1>1, <1>2, <1>3, <1>4, <1>5 DEF Next

\* Ind holds in every state the protocol reaches.
THEOREM Invariance ==
    ASSUME ~ReuseAfterFailure
    PROVE  Spec => []Ind
<1>1. Init => Ind
  BY InitInd
<1>2. Ind /\ [Next]_vars => Ind'
  BY NextInd
<1> QED
  BY <1>1, <1>2, PTL DEF Spec
----
(* What follows from Ind *)

\* Every variable of both ends and of the path keeps its type; recvBuf never
\* fills its last byte (savedata).
THEOREM TypeCorrect ==
    ASSUME ~ReuseAfterFailure
    PROVE  Spec => []TypeOK
<1>1. Ind => TypeOK
  BY DEF Ind
<1> QED
  BY <1>1, Invariance, PTL

\* What recv returns, followed by what waits in recvBuf, is the beginning of
\* what was written on the connection, whatever is lost, sent again or late.
THEOREM InOrderDelivery ==
    ASSUME ~ReuseAfterFailure
    PROVE  Spec => []StreamIntegrity
<1>1. Ind => StreamIntegrity
  BY DEF Ind
<1> QED
  BY <1>1, Invariance, PTL

\* The pointers and the sequence numbers of the send buffer always agree.
THEOREM BufferConsistent ==
    ASSUME ~ReuseAfterFailure
    PROVE  Spec => []SendBufferOK
<1>1. Ind => SendBufferOK
  BY DEF Ind
<1> QED
  BY <1>1, Invariance, PTL

\* Whatever waits for an acknowledgement is watched by a timer thread.
THEOREM AlwaysTimed ==
    ASSUME ~ReuseAfterFailure
    PROVE  Spec => []TimerCoversUnacked
<1>1. Ind => TimerCoversUnacked
  BY DEF Ind
<1> QED
  BY <1>1, Invariance, PTL

\* sendBuf_recvAck never frees a byte that savedata has not accepted.
THEOREM NothingFreedEarly ==
    ASSUME ~ReuseAfterFailure
    PROVE  Spec => []FreedWasAccepted
<1>1. Ind => FreedWasAccepted
  BY DEF Ind
<1> QED
  BY <1>1, Invariance, PTL

\* A connected client has a server connected to it, on the same connection.
THEOREM BothEndsOpen ==
    ASSUME ~ReuseAfterFailure
    PROVE  Spec => []PeerConnected
<1>1. Ind => PeerConnected
  BY DEF Ind, PeerConnected, ServerOpened, ServerConnected, ClientPhases, FinSent
<1> QED
  BY <1>1, Invariance, PTL

\* When disconnect moves on to return 1, the server no longer answers this
\* connection.
THEOREM CleanDisconnect ==
    ASSUME ~ReuseAfterFailure
    PROVE  Spec => DisconnectMeansClosed
<1>1. Ind /\ [Next]_vars
        => [conn' > conn => ~(sState = "CONNECTED" /\ sConn = conn)]_vars
  <2> SUFFICES ASSUME Ind, Next, conn' > conn
               PROVE  ~(sState = "CONNECTED" /\ sConn = conn)
    BY DEF vars
  <2>1. conn \in Nat
    BY DEF Ind, TypeOK, ClientTypeOK
  <2>2. ConnectStart \/ DisconnectPoll
    BY <2>1 DEF Next, ClientNext, ClientApp, ClientHandler, ClientTimer,
         ConnectPoll, ConnectResend, SendStart, AddSeg, SendReturn,
         DisconnectStart, SendBufClear, DisconnectResend, ClientClose,
         ReceiveSynAck, ReceiveFinAck, SetState, ReceiveDataAck, HandlerSend,
         ClientIgnore, TimerPoll, TimerResend, TimerFault, UseAfterFree
  <2>3. ~ConnectStart
    BY <2>1 DEF ConnectStart
  <2>4. cPc = "finPoll" /\ cState = "CLOSED"
    BY <2>1, <2>2, <2>3 DEF DisconnectPoll
  <2> QED
    BY <2>4 DEF Ind, ServerConnected, FinAckSeen
<1> QED
  BY <1>1, Invariance, PTL DEF Spec, DisconnectMeansClosed

\* A duplicate SYN that sets expect_seqNum to 0 again finds it at 0.
LEMMA LateSynIsHarmless ==
    ASSUME Ind, SynReceived, sState = "CONNECTED"
    PROVE  expect_seqNum = 0
<1>1. /\ 1 \in Indices(toServer) /\ toServer[1] \in Segments
      /\ toServer[1].type = "SYN"
  BY TailFacts DEF SynReceived, ServerReceives, Ind, TypeOK, PathTypeOK
<1>2. /\ Age(toServer[1]) = 2 * toServer[1].conn
      /\ toServer[1].conn \in Nat /\ conn \in Nat /\ expect_seqNum \in Nat
  BY <1>1 DEF Age, Segments, Ind, TypeOK, ClientTypeOK, ServerTypeOK
<1>3. Age(toServer[1]) <= 2 * conn + 1
  BY <1>1, <1>2 DEF Ind, AgesInRange, Oldest, Newest
<1>4. expect_seqNum > 0 => Age(toServer[1]) > 2 * conn
  BY <1>1 DEF Ind, ServerConnected
<1> QED
  BY <1>2, <1>3, <1>4

\* expect_seqNum never goes back while the server stays connected.
THEOREM ExpectMonotone ==
    ASSUME ~ReuseAfterFailure
    PROVE  Spec => ExpectNeverGoesBack
<1>1. Ind /\ [Next]_vars
        => [sState = "CONNECTED" /\ sState' = "CONNECTED"
              => expect_seqNum' >= expect_seqNum]_vars
  <2> SUFFICES ASSUME Ind, Next, sState = "CONNECTED", sState' = "CONNECTED"
               PROVE  expect_seqNum' >= expect_seqNum
    BY DEF vars
  <2>1. expect_seqNum \in Nat /\ toServer \in Seq(Segments)
    BY DEF Ind, TypeOK, ServerTypeOK, PathTypeOK
  <2>2. CASE SynReceived
    <3>1. expect_seqNum = 0
      BY <2>2, LateSynIsHarmless
    <3>2. toServer[1] \in Segments /\ Head(toServer) = toServer[1]
      BY <2>1, <2>2, TailFacts DEF SynReceived, ServerReceives
    <3> QED
      BY <2>2, <3>1, <3>2 DEF SynReceived, Segments
  <2>3. CASE SaveData
    <3>1. toServer[1] \in Segments /\ Head(toServer) = toServer[1]
      BY <2>1, <2>3, TailFacts DEF SaveData, ServerReceives
    <3> QED
      BY <2>1, <2>3, <3>1 DEF SaveData, Segments, Expected
  <2>4. CASE ~SynReceived /\ ~SaveData
    <3>1. expect_seqNum' = expect_seqNum
      BY <2>4 DEF Next, ServerNext, ServerApp, ServerHandler, Accept,
           AcceptReturn, Recv, RecvPoll, Available, RecvCopy, RecvFault, ServerClose,
           RepeatAck, FinReceived, ServerIgnore, CloseWaitExpire
    <3> QED
      BY <2>1, <3>1
  <2> QED
    BY <2>2, <2>3, <2>4
<1> QED
  BY <1>1, Invariance, PTL DEF Spec, ExpectNeverGoesBack
----
(* Srt implements ByteStream *)

\* The steps of the client: they leave the server's stream alone, and write
\* bytes, move to the next connection, or change nothing the reader sees.
LEMMA ClientRefines ==
    ASSUME ~ReuseAfterFailure, Ind, ClientNext, UNCHANGED serverVars
    PROVE  [Bytes!StreamNext]_(Bytes!streamVars)
<1> USE DEF Bytes!StreamNext, Bytes!streamVars
<1>1. Stream' = Stream /\ sConn' = sConn
  BY DEF Stream
<1>2. conn \in Nat /\ next_seqNum \in Nat /\ pending \in Nat
  BY DEF Ind, TypeOK, ClientTypeOK
<1>3. CASE AddSeg
  <2>1. next_seqNum' > next_seqNum /\ conn' = conn
    BY <1>2, <1>3, ClientAssumption DEF AddSeg, Ind, ClientPhases
  <2> QED
    BY <1>1, <2>1 DEF Bytes!Write
<1>4. CASE DisconnectPoll
  BY <1>1, <1>4 DEF DisconnectPoll, Bytes!NextConnection
<1>5. CASE ~AddSeg /\ ~DisconnectPoll
  <2>1. next_seqNum' = next_seqNum /\ conn' = conn
    BY <1>5 DEF ClientNext, ClientApp, ClientHandler, ClientTimer,
         ConnectStart, ConnectPoll, ConnectResend, SendStart, SendReturn,
         DisconnectStart, SendBufClear, DisconnectResend, ClientClose,
         ReceiveSynAck, ReceiveFinAck, SetState, ReceiveDataAck, HandlerSend,
         SendBufSend, ClientIgnore, TimerPoll, TimerResend, TimerFault,
         UseAfterFree
  <2> QED
    BY <1>1, <2>1
<1> QED
  BY <1>3, <1>4, <1>5

\* A SYN taken in LISTENING starts the connection the client is on; one
\* taken in CONNECTED changes nothing the reader sees.
LEMMA SynRefines ==
    ASSUME Ind, SynReceived, UNCHANGED clientVars
    PROVE  [Bytes!StreamNext]_(Bytes!streamVars)
<1>1. Ind'
  BY SynReceivedStep
<1>2. sConn' = conn /\ conn' = conn /\ next_seqNum' = next_seqNum
  BY <1>1 DEF SynReceived, Ind, ServerConnected
<1>3. CASE sState = "CONNECTED"
  <2>1. sConn = conn
    BY <1>3 DEF Ind, ServerConnected
  <2>2. Stream' = Stream
    BY <1>3 DEF SynReceived, Stream
  <2> QED
    BY <1>2, <2>1, <2>2 DEF Bytes!streamVars
<1>4. CASE sState = "LISTENING"
  <2>1. Stream = << >>
    BY <1>4 DEF Stream
  <2>2. recvBuf = << >>
    BY <1>4 DEF Ind, ServerStream
  <2>3. sState' = "CONNECTED" /\ delivered' = << >> /\ recvBuf' = << >>
    BY <1>4, <2>2 DEF SynReceived
  <2>4. Stream' = << >> \o << >>
    BY <2>3 DEF Stream
  <2>5. Stream' = << >>
    BY <2>4
  <2> QED
    BY <1>2, <2>1, <2>5 DEF Bytes!StreamNext, Bytes!TakeUp
<1> QED
  BY <1>3, <1>4 DEF SynReceived

\* Every boundary lies below the next byte to be written.
LEMMA BoundaryWritten ==
    ASSUME Ind, cPc /= "clear", NEW n \in Nat, Boundary(n)
    PROVE  n <= next_seqNum
<1>1. /\ next_seqNum \in Nat /\ unAck_segNum \in Nat /\ Len(sendBuf) \in Nat
      /\ unAck_segNum <= Len(sendBuf)
      /\ unSent = 0 \/ unSent \in 1..Len(sendBuf)
  BY BufferFacts
<1>2. \A i \in 1..Len(sendBuf) :
        sendBuf[i].seq_num \in Nat /\ sendBuf[i].seq_num <= next_seqNum
  <2> SUFFICES ASSUME NEW i \in 1..Len(sendBuf)
               PROVE  sendBuf[i].seq_num \in Nat /\ sendBuf[i].seq_num <= next_seqNum
    OBVIOUS
  <2>1. sendBuf[i].seq_num \in Nat /\ sendBuf[i].length \in Nat
    BY BufferFacts
  <2>2. sendBuf[i].seq_num + sendBuf[i].length <= next_seqNum
    BY DEF Ind, SendBufferSorted, Indices
  <2> QED
    BY <1>1, <2>1, <2>2
<1>3. FirstHeld \in Nat /\ FirstHeld <= next_seqNum
  <2>1. CASE sendBuf = << >>
    BY <1>1, <2>1 DEF FirstHeld
  <2>2. CASE sendBuf /= << >>
    <3>1. 1 \in 1..Len(sendBuf)
      BY <2>2, BufferFacts
    <3> QED
      BY <1>2, <2>2, <3>1 DEF FirstHeld
  <2> QED
    BY <2>1, <2>2
<1>4. FirstUnsent \in Nat /\ FirstUnsent <= next_seqNum
  BY <1>1, <1>2 DEF FirstUnsent
<1>5. \A i \in 1..unAck_segNum : sendBuf[i].seq_num <= next_seqNum
  BY <1>1, <1>2
<1> QED
  BY <1>1, <1>3, <1>4, <1>5 DEF Boundary

\* A stream that is a beginning of the connection before and after, and is
\* longer after, has grown by the next bytes.
LEMMA StreamsGrow ==
    ASSUME NEW c, NEW m \in Nat, NEW n \in Nat, m <= n,
           NEW s, s = [i \in 1..m |-> <<c, i - 1>>],
           NEW t, t = [i \in 1..n |-> <<c, i - 1>>]
    PROVE  /\ Len(s) = m /\ Len(t) = n
           /\ t = s \o [i \in 1..(Len(t) - Len(s)) |-> <<c, Len(s) + i - 1>>]
  OBVIOUS

\* A segment that is saved appends the next bytes of the connection.
LEMMA SaveRefines ==
    ASSUME Ind, SaveData, UNCHANGED clientVars
    PROVE  [Bytes!StreamNext]_(Bytes!streamVars)
<1>1. Ind'
  BY SaveDataStep
<1>2. /\ sConn = conn /\ sConn' = conn /\ conn' = conn
      /\ next_seqNum' = next_seqNum /\ cPc /= "clear" /\ cPc' /= "clear"
      /\ sState = "CONNECTED" /\ sState' = "CONNECTED"
  BY DEF SaveData, Ind, ServerConnected
<1>3. /\ Len(Stream) = expect_seqNum /\ Len(Stream') = expect_seqNum'
      /\ expect_seqNum \in Nat /\ expect_seqNum' \in Nat
  BY <1>1, <1>2 DEF Ind, ServerStream, TypeOK, ServerTypeOK
<1>4. /\ toServer[1] \in Segments /\ Head(toServer) = toServer[1]
      /\ 1 \in Indices(toServer) /\ toServer[1].type = "DATA"
  BY TailFacts DEF SaveData, ServerReceives, Ind, TypeOK, PathTypeOK
<1>5. /\ toServer[1].length > 0
      /\ toServer[1].length \in Nat /\ toServer[1].seq_num \in Nat
      /\ toServer[1].conn \in Nat /\ conn \in Nat
  BY <1>4 DEF Ind, Contents, Segments, TypeOK, ClientTypeOK
<1>6. /\ expect_seqNum' > expect_seqNum
      /\ expect_seqNum' = toServer[1].seq_num + toServer[1].length
  BY <1>3, <1>4, <1>5 DEF SaveData, Expected
<1>7. expect_seqNum' <= next_seqNum
  <2>1. Age(toServer[1]) = 2 * toServer[1].conn + 1
    BY <1>4, <1>5 DEF Age
  <2>2. 2 * conn <= Age(toServer[1]) /\ Age(toServer[1]) <= 2 * conn + 1
    BY <1>2, <1>4, <1>5, <2>1
       DEF Ind, ServerConnected, AgesInRange, Oldest, Newest
  <2>3. toServer[1].conn = conn
    BY <1>5, <2>1, <2>2
  <2>4. Boundary(expect_seqNum')
    BY <1>4, <1>6, <2>3 DEF Ind, BoundariesOnPath
  <2> QED
    BY <1>2, <1>3, <2>4, BoundaryWritten
<1>8. /\ Stream = [i \in 1..expect_seqNum |-> <<conn, i - 1>>]
      /\ Stream' = [i \in 1..expect_seqNum' |-> <<conn, i - 1>>]
  BY <1>1, <1>2, <1>3 DEF Ind, StreamIntegrity
<1>9. Stream' = Stream \o [i \in 1..(Len(Stream') - Len(Stream)) |->
                             <<sConn, Len(Stream) + i - 1>>]
  BY <1>2, <1>3, <1>6, <1>8, StreamsGrow
<1> QED
  BY <1>2, <1>3, <1>6, <1>7, <1>9 DEF Bytes!StreamNext, Bytes!Grow

\* The stream is fixed by the connection and by expect_seqNum.
LEMMA SameStream ==
    ASSUME Ind, Ind', sConn' = sConn, expect_seqNum' = expect_seqNum,
           sState \in {"CONNECTED", "CLOSEWAIT"},
           sState' \in {"CONNECTED", "CLOSEWAIT"}
    PROVE  Stream' = Stream
<1>1. Len(Stream) = expect_seqNum /\ Len(Stream') = expect_seqNum
  BY DEF Ind, ServerStream
<1>2. /\ Stream = [i \in 1..expect_seqNum |-> <<sConn, i - 1>>]
      /\ Stream' = [i \in 1..expect_seqNum |-> <<sConn, i - 1>>]
  BY <1>1 DEF Ind, StreamIntegrity
<1> QED
  BY <1>2

\* The other steps of the server keep the stream or end it.
LEMMA ServerRefines ==
    ASSUME Ind, ServerNext, UNCHANGED clientVars
    PROVE  [Bytes!StreamNext]_(Bytes!streamVars)
<1>1. CASE SynReceived
  BY <1>1, SynRefines
<1>2. CASE SaveData
  BY <1>2, SaveRefines
<1>3. CASE CloseWaitExpire
  <2>1. Stream' = << >> /\ sConn' = sConn
    BY <1>3 DEF CloseWaitExpire, Stream
  <2> QED
    BY <2>1 DEF Bytes!StreamNext, Bytes!Stop
<1>4. CASE RecvCopy \/ FinReceived
  <2>1. Ind' /\ sConn' = sConn /\ expect_seqNum' = expect_seqNum
    BY <1>4, RecvCopyStep, FinReceivedStep DEF RecvCopy, FinReceived
  <2>2. CASE sState \in {"CONNECTED", "CLOSEWAIT"}
    <3>1. sState' \in {"CONNECTED", "CLOSEWAIT"}
      BY <1>4, <2>2 DEF RecvCopy, FinReceived
    <3>2. Stream' = Stream
      BY <2>1, <2>2, <3>1, SameStream
    <3> QED
      BY <2>1, <3>2 DEF Bytes!streamVars
  <2>3. CASE sState \notin {"CONNECTED", "CLOSEWAIT"}
    <3>1. Stream' = Stream
      BY <1>4, <2>3 DEF RecvCopy, FinReceived, Stream
    <3> QED
      BY <2>1, <3>1 DEF Bytes!streamVars
  <2> QED
    BY <2>2, <2>3
<1>5. CASE Accept \/ ServerClose
  <2>1. Stream' = Stream /\ sConn' = sConn
    BY <1>5 DEF Accept, ServerClose, Stream
  <2> QED
    BY <2>1 DEF Bytes!streamVars
<1>6. CASE \/ AcceptReturn \/ (\E length \in RecvLengths : Recv(length))
           \/ RecvPoll \/ RecvFault \/ RepeatAck \/ ServerIgnore
  <2>1. UNCHANGED <<sState, delivered, recvBuf, sConn>>
    BY <1>6 DEF AcceptReturn, Recv, RecvPoll, Available, RecvFault, RepeatAck, ServerIgnore
  <2> QED
    BY <2>1 DEF Stream, Bytes!streamVars
<1> QED
  BY <1>1, <1>2, <1>3, <1>4, <1>5, <1>6
     DEF ServerNext, ServerApp, ServerHandler

\* What the client has written and what the server has received behave like
\* the abstract byte stream: no loss, repetition or mixing of connections is
\* visible above the send and receive calls.
THEOREM Refinement ==
    ASSUME ~ReuseAfterFailure
    PROVE  Spec => ImplementsByteStream
<1>1. Init => Bytes!StreamInit
  BY DEF Init, ClientInit, ServerInit, Stream, Bytes!StreamInit
<1>2. Ind /\ [Next]_vars => [Bytes!StreamNext]_(Bytes!streamVars)
  <2> SUFFICES ASSUME Ind, [Next]_vars
               PROVE  [Bytes!StreamNext]_(Bytes!streamVars)
    OBVIOUS
  <2>1. CASE ClientNext /\ UNCHANGED serverVars
    BY <2>1, ClientRefines
  <2>2. CASE ServerNext /\ UNCHANGED clientVars
    BY <2>2, ServerRefines
  <2>3. CASE \/ (LoseToServer \/ LoseToClient) /\ UNCHANGED <<clientVars, serverVars>>
             \/ UNCHANGED vars
    <3>1. UNCHANGED <<conn, next_seqNum, sState, delivered, recvBuf, sConn>>
      BY <2>3 DEF vars
    <3> QED
      BY <3>1 DEF Stream, Bytes!streamVars
  <2> QED
    BY <2>1, <2>2, <2>3 DEF Next
<1> QED
  BY <1>1, <1>2, Invariance, PTL
     DEF Spec, ImplementsByteStream, Bytes!StreamSpec
====
