---- MODULE SrtServerProofs ----
(***************************************************************************)
(* Every step of the server preserves Ind.                                 *)
(***************************************************************************)
EXTENDS SrtLemmas, SequenceTheorems

USE DEF path, buffer, timers, history, clientVars, serverVars

----
(* Sequences of bytes *)

\* Concatenation may be read either way.
LEMMA Regroup ==
    ASSUME NEW S, NEW d \in Seq(S), NEW a \in Seq(S), NEW b \in Seq(S)
    PROVE  /\ d \o a \in Seq(S)
           /\ (d \o a) \o b = d \o (a \o b)
<1>1. d \o a \in Seq(S)
  BY ConcatProperties
<1>2. (d \o a) \o b = d \o (a \o b)
  BY SMTT(30), ConcatAssociative
<1> QED
  BY <1>1, <1>2

\* A sequence cut in two after n elements is both pieces joined.
LEMMA SplitWhole ==
    ASSUME NEW S, NEW r \in Seq(S), NEW n \in 0..Len(r)
    PROVE  /\ SubSeq(r, 1, n) \in Seq(S)
           /\ SubSeq(r, n + 1, Len(r)) \in Seq(S)
           /\ Len(SubSeq(r, n + 1, Len(r))) = Len(r) - n
           /\ SubSeq(r, 1, n) \o SubSeq(r, n + 1, Len(r)) = r
<1> DEFINE a == SubSeq(r, 1, n)
           b == SubSeq(r, n + 1, Len(r))
<1>1. /\ Len(r) \in Nat /\ n \in Nat /\ n <= Len(r)
      /\ \A i \in 1..Len(r) : r[i] \in S
  BY LenProperties
<1>2. a \in Seq(S) /\ Len(a) = n /\ \A i \in 1..n : a[i] = r[i]
  BY <1>1
<1>3. /\ b \in Seq(S) /\ Len(b) = Len(r) - n
      /\ \A i \in 1..(Len(r) - n) : b[i] = r[i + n]
  BY <1>1
<1> HIDE DEF a, b
<1>4. /\ a \o b \in Seq(S) /\ Len(a \o b) = Len(r)
      /\ \A i \in 1..Len(r) : (a \o b)[i] = IF i <= n THEN a[i] ELSE b[i - n]
  <2>1. /\ a \o b \in Seq(S) /\ Len(a \o b) = Len(a) + Len(b)
        /\ \A i \in 1..(Len(a) + Len(b)) :
             (a \o b)[i] = IF i <= Len(a) THEN a[i] ELSE b[i - Len(a)]
    BY <1>2, <1>3, ConcatProperties
  <2>2. Len(a) = n /\ Len(a) + Len(b) = Len(r)
    BY <1>1, <1>2, <1>3
  <2> QED
    BY <2>1, <2>2
<1>5. \A i \in 1..Len(r) : (a \o b)[i] = r[i]
  <2>1. SUFFICES ASSUME NEW i \in 1..Len(r) PROVE (a \o b)[i] = r[i]
    OBVIOUS
  <2>2. CASE i <= n
    <3>1. i \in 1..n
      BY <1>1, <2>2
    <3> QED
      BY <1>2, <1>4, <2>2, <3>1
  <2>3. CASE ~(i <= n)
    <3>1. i - n \in 1..(Len(r) - n) /\ (i - n) + n = i
      BY <1>1, <2>3
    <3> QED
      BY <1>3, <1>4, <2>3, <3>1
  <2> QED
    BY <2>2, <2>3
<1>6. a \o b = r
  BY <1>4, <1>5, SeqEqual
<1> QED
  BY <1>2, <1>3, <1>6 DEF a, b

\* What leaves one sequence for the end of the one before it is not lost.
LEMMA Moved ==
    ASSUME NEW S, NEW d \in Seq(S), NEW a \in Seq(S), NEW b \in Seq(S)
    PROVE  \A r, x, y : r = a \o b /\ x = d \o a /\ y = b
             => x \in Seq(S) /\ x \o y = d \o r
<1>1. d \o a \in Seq(S) /\ (d \o a) \o b = d \o (a \o b)
  BY SMTT(30), Regroup
<1> QED
  BY <1>1

\* The server's variables have their types and the stream is a sequence.
LEMMA StreamFacts ==
    ASSUME Ind
    PROVE  /\ recvBuf \in Seq(Nat \X Nat) /\ delivered \in Seq(Nat \X Nat)
           /\ Stream \in Seq(Nat \X Nat) /\ Len(Stream) \in Nat
           /\ expect_seqNum \in Nat /\ sConn \in Nat /\ conn \in Nat
           /\ cState = "CONNECTED" => sState = "CONNECTED" /\ ~FinSent
<1>1. /\ recvBuf \in Seq(Nat \X Nat) /\ delivered \in Seq(Nat \X Nat)
      /\ expect_seqNum \in Nat /\ sConn \in Nat /\ conn \in Nat
  BY DEF Ind, TypeOK, ServerTypeOK, ClientTypeOK
<1>2. Stream \in Seq(Nat \X Nat) /\ Len(Stream) \in Nat
  BY <1>1 DEF Stream
<1>3. cState = "CONNECTED" => ~FinSent
  BY DEF Ind, ClientPhases, FinSent
<1>4. cState = "CONNECTED" => sState = "CONNECTED"
  BY <1>3 DEF Ind, ServerOpened
<1> QED
  BY <1>1, <1>2, <1>3, <1>4

----
(* Steps that leave the path alone *)

\* accept starts to listen.
LEMMA AcceptStep ==
    ASSUME Ind, Accept, UNCHANGED clientVars
    PROVE  Ind'
<1>1. TypeOK'
  BY DEF Ind, Accept, PathTypeOK, ClientTypeOK, ServerTypeOK, ClientStates,
     ClientPcs, HandlerPcs, ServerStates, ServerPcs, ClientPhases, TypeOK
<1>2. ClientPhases'
  BY DEF Ind, Accept, ClientPhases, Opening, FinSent, TypeOK, ClientTypeOK
<1>3. RingOrdered'
  BY DEF Ind, Accept, RingOrdered, ClientPhases, TypeOK, ClientTypeOK
<1>4. AgesInRange'
  BY DEF Ind, Accept, AgesInRange, Oldest, Newest, Opening, FinSent,
     SynAckSeen, FinAckSeen, ClientPhases, TypeOK, ClientTypeOK
<1>5. Contents'
  BY DEF Ind, Accept, Contents, FinSent, ClientPhases, TypeOK, ClientTypeOK
<1>6. SendBufferSorted'
  BY DEF Ind, Accept, SendBufferSorted, Opening, ClientPhases, TypeOK,
     ClientTypeOK
<1>7. SendBufferOK'
  BY DEF Ind, Accept, SendBufferOK, ClientPhases, TypeOK, ClientTypeOK
<1>8. TimerCoversUnacked'
  BY DEF Ind, Accept, TimerCoversUnacked, ClientPhases, TypeOK, ClientTypeOK
<1>9. BoundariesOnPath'
  BY DEF Ind, Accept, BoundariesOnPath, Boundary, FirstHeld, FirstUnsent,
     ClientPhases, TypeOK, ClientTypeOK
<1>10. ServerConnected'
  BY DEF Ind, Accept, ServerConnected, FinAckSeen, FinAckOnPath, Opening,
     Boundary, FirstHeld, FirstUnsent, ClientPhases, TypeOK, ClientTypeOK
<1>11. ServerOpened'
  BY DEF Ind, Accept, ServerOpened, FinSent, SynAckOnPath, ClientPhases,
     TypeOK, ClientTypeOK
<1>12. ServerStream'
  BY DEF Ind, Accept, ServerStream, Stream, ClientPhases, TypeOK,
     ClientTypeOK
<1>13. StreamIntegrity'
  BY DEF Ind, Accept, StreamIntegrity, Stream, ClientPhases, TypeOK,
     ClientTypeOK
<1>14. FreedWasAccepted'
  BY DEF Ind, Accept, FreedWasAccepted, FirstHeld, Stream, ClientPhases,
     TypeOK, ClientTypeOK
<1> QED
  BY <1>1, <1>2, <1>3, <1>4, <1>5, <1>6, <1>7, <1>8, <1>9, <1>10, <1>11,
     <1>12, <1>13, <1>14 DEF Ind

\* accept finds the connection open.
LEMMA AcceptReturnStep ==
    ASSUME Ind, AcceptReturn, UNCHANGED clientVars
    PROVE  Ind'
<1>1. TypeOK'
  BY DEF Ind, AcceptReturn, PathTypeOK, ClientTypeOK, ServerTypeOK,
     ClientStates, ClientPcs, HandlerPcs, ServerStates, ServerPcs,
     ClientPhases, TypeOK
<1>2. ClientPhases'
  BY DEF Ind, AcceptReturn, ClientPhases, Opening, FinSent, TypeOK,
     ClientTypeOK
<1>3. RingOrdered'
  BY DEF Ind, AcceptReturn, RingOrdered, ClientPhases, TypeOK, ClientTypeOK
<1>4. AgesInRange'
  BY DEF Ind, AcceptReturn, AgesInRange, Oldest, Newest, Opening, FinSent,
     SynAckSeen, FinAckSeen, ClientPhases, TypeOK, ClientTypeOK
<1>5. Contents'
  BY DEF Ind, AcceptReturn, Contents, FinSent, ClientPhases, TypeOK,
     ClientTypeOK
<1>6. SendBufferSorted'
  BY DEF Ind, AcceptReturn, SendBufferSorted, Opening, ClientPhases, TypeOK,
     ClientTypeOK
<1>7. SendBufferOK'
  BY DEF Ind, AcceptReturn, SendBufferOK, ClientPhases, TypeOK, ClientTypeOK
<1>8. TimerCoversUnacked'
  BY DEF Ind, AcceptReturn, TimerCoversUnacked, ClientPhases, TypeOK,
     ClientTypeOK
<1>9. BoundariesOnPath'
  BY DEF Ind, AcceptReturn, BoundariesOnPath, Boundary, FirstHeld,
     FirstUnsent, ClientPhases, TypeOK, ClientTypeOK
<1>10. ServerConnected'
  BY DEF Ind, AcceptReturn, ServerConnected, FinAckSeen, FinAckOnPath,
     Opening, Boundary, FirstHeld, FirstUnsent, ClientPhases, TypeOK,
     ClientTypeOK
<1>11. ServerOpened'
  BY DEF Ind, AcceptReturn, ServerOpened, FinSent, SynAckOnPath,
     ClientPhases, TypeOK, ClientTypeOK
<1>12. ServerStream'
  BY DEF Ind, AcceptReturn, ServerStream, Stream, ClientPhases, TypeOK,
     ClientTypeOK
<1>13. StreamIntegrity'
  BY DEF Ind, AcceptReturn, StreamIntegrity, Stream, ClientPhases, TypeOK,
     ClientTypeOK
<1>14. FreedWasAccepted'
  BY DEF Ind, AcceptReturn, FreedWasAccepted, FirstHeld, Stream,
     ClientPhases, TypeOK, ClientTypeOK
<1> QED
  BY <1>1, <1>2, <1>3, <1>4, <1>5, <1>6, <1>7, <1>8, <1>9, <1>10, <1>11,
     <1>12, <1>13, <1>14 DEF Ind

\* recv finds enough bytes.
LEMMA RecvPollStep ==
    ASSUME Ind, RecvPoll, UNCHANGED clientVars
    PROVE  Ind'
<1>1. TypeOK'
  BY DEF Ind, RecvPoll, Available, PathTypeOK, ClientTypeOK, ServerTypeOK,
     ClientStates, ClientPcs, HandlerPcs, ServerStates, ServerPcs,
     ClientPhases, TypeOK
<1>2. ClientPhases'
  BY DEF Ind, RecvPoll, Available, ClientPhases, Opening, FinSent, TypeOK, ClientTypeOK
<1>3. RingOrdered'
  BY DEF Ind, RecvPoll, Available, RingOrdered, ClientPhases, TypeOK, ClientTypeOK
<1>4. AgesInRange'
  BY DEF Ind, RecvPoll, Available, AgesInRange, Oldest, Newest, Opening, FinSent,
     SynAckSeen, FinAckSeen, ClientPhases, TypeOK, ClientTypeOK
<1>5. Contents'
  BY DEF Ind, RecvPoll, Available, Contents, FinSent, ClientPhases, TypeOK,
     ClientTypeOK
<1>6. SendBufferSorted'
  BY DEF Ind, RecvPoll, Available, SendBufferSorted, Opening, ClientPhases, TypeOK,
     ClientTypeOK
<1>7. SendBufferOK'
  BY DEF Ind, RecvPoll, Available, SendBufferOK, ClientPhases, TypeOK, ClientTypeOK
<1>8. TimerCoversUnacked'
  BY DEF Ind, RecvPoll, Available, TimerCoversUnacked, ClientPhases, TypeOK,
     ClientTypeOK
<1>9. BoundariesOnPath'
  BY DEF Ind, RecvPoll, Available, BoundariesOnPath, Boundary, FirstHeld, FirstUnsent,
     ClientPhases, TypeOK, ClientTypeOK
<1>10. ServerConnected'
  BY DEF Ind, RecvPoll, Available, ServerConnected, FinAckSeen, FinAckOnPath, Opening,
     Boundary, FirstHeld, FirstUnsent, ClientPhases, TypeOK, ClientTypeOK
<1>11. ServerOpened'
  BY DEF Ind, RecvPoll, Available, ServerOpened, FinSent, SynAckOnPath, ClientPhases,
     TypeOK, ClientTypeOK
<1>12. ServerStream'
  BY DEF Ind, RecvPoll, Available, ServerStream, Stream, ClientPhases, TypeOK,
     ClientTypeOK
<1>13. StreamIntegrity'
  BY DEF Ind, RecvPoll, Available, StreamIntegrity, Stream, ClientPhases, TypeOK,
     ClientTypeOK
<1>14. FreedWasAccepted'
  BY DEF Ind, RecvPoll, Available, FreedWasAccepted, FirstHeld, Stream, ClientPhases,
     TypeOK, ClientTypeOK
<1> QED
  BY <1>1, <1>2, <1>3, <1>4, <1>5, <1>6, <1>7, <1>8, <1>9, <1>10, <1>11,
     <1>12, <1>13, <1>14 DEF Ind

\* recv faults.
LEMMA RecvFaultStep ==
    ASSUME Ind, RecvFault, UNCHANGED clientVars
    PROVE  Ind'
<1>1. TypeOK'
  BY DEF Ind, RecvFault, PathTypeOK, ClientTypeOK, ServerTypeOK,
     ClientStates, ClientPcs, HandlerPcs, ServerStates, ServerPcs,
     ClientPhases, TypeOK
<1>2. ClientPhases'
  BY DEF Ind, RecvFault, ClientPhases, Opening, FinSent, TypeOK,
     ClientTypeOK
<1>3. RingOrdered'
  BY DEF Ind, RecvFault, RingOrdered, ClientPhases, TypeOK, ClientTypeOK
<1>4. AgesInRange'
  BY DEF Ind, RecvFault, AgesInRange, Oldest, Newest, Opening, FinSent,
     SynAckSeen, FinAckSeen, ClientPhases, TypeOK, ClientTypeOK
<1>5. Contents'
  BY DEF Ind, RecvFault, Contents, FinSent, ClientPhases, TypeOK,
     ClientTypeOK
<1>6. SendBufferSorted'
  BY DEF Ind, RecvFault, SendBufferSorted, Opening, ClientPhases, TypeOK,
     ClientTypeOK
<1>7. SendBufferOK'
  BY DEF Ind, RecvFault, SendBufferOK, ClientPhases, TypeOK, ClientTypeOK
<1>8. TimerCoversUnacked'
  BY DEF Ind, RecvFault, TimerCoversUnacked, ClientPhases, TypeOK,
     ClientTypeOK
<1>9. BoundariesOnPath'
  BY DEF Ind, RecvFault, BoundariesOnPath, Boundary, FirstHeld, FirstUnsent,
     ClientPhases, TypeOK, ClientTypeOK
<1>10. ServerConnected'
  BY DEF Ind, RecvFault, ServerConnected, FinAckSeen, FinAckOnPath, Opening,
     Boundary, FirstHeld, FirstUnsent, ClientPhases, TypeOK, ClientTypeOK
<1>11. ServerOpened'
  BY DEF Ind, RecvFault, ServerOpened, FinSent, SynAckOnPath, ClientPhases,
     TypeOK, ClientTypeOK
<1>12. ServerStream'
  BY DEF Ind, RecvFault, ServerStream, Stream, ClientPhases, TypeOK,
     ClientTypeOK
<1>13. StreamIntegrity'
  BY DEF Ind, RecvFault, StreamIntegrity, Stream, ClientPhases, TypeOK,
     ClientTypeOK
<1>14. FreedWasAccepted'
  BY DEF Ind, RecvFault, FreedWasAccepted, FirstHeld, Stream, ClientPhases,
     TypeOK, ClientTypeOK
<1> QED
  BY <1>1, <1>2, <1>3, <1>4, <1>5, <1>6, <1>7, <1>8, <1>9, <1>10, <1>11,
     <1>12, <1>13, <1>14 DEF Ind

\* close frees the TCB.
LEMMA ServerCloseStep ==
    ASSUME Ind, ServerClose, UNCHANGED clientVars
    PROVE  Ind'
<1>1. TypeOK'
  BY DEF Ind, ServerClose, PathTypeOK, ClientTypeOK, ServerTypeOK,
     ClientStates, ClientPcs, HandlerPcs, ServerStates, ServerPcs,
     ClientPhases, TypeOK
<1>2. ClientPhases'
  BY DEF Ind, ServerClose, ClientPhases, Opening, FinSent, TypeOK,
     ClientTypeOK
<1>3. RingOrdered'
  BY DEF Ind, ServerClose, RingOrdered, ClientPhases, TypeOK, ClientTypeOK
<1>4. AgesInRange'
  BY DEF Ind, ServerClose, AgesInRange, Oldest, Newest, Opening, FinSent,
     SynAckSeen, FinAckSeen, ClientPhases, TypeOK, ClientTypeOK
<1>5. Contents'
  BY DEF Ind, ServerClose, Contents, FinSent, ClientPhases, TypeOK,
     ClientTypeOK
<1>6. SendBufferSorted'
  BY DEF Ind, ServerClose, SendBufferSorted, Opening, ClientPhases, TypeOK,
     ClientTypeOK
<1>7. SendBufferOK'
  BY DEF Ind, ServerClose, SendBufferOK, ClientPhases, TypeOK, ClientTypeOK
<1>8. TimerCoversUnacked'
  BY DEF Ind, ServerClose, TimerCoversUnacked, ClientPhases, TypeOK,
     ClientTypeOK
<1>9. BoundariesOnPath'
  BY DEF Ind, ServerClose, BoundariesOnPath, Boundary, FirstHeld,
     FirstUnsent, ClientPhases, TypeOK, ClientTypeOK
<1>10. ServerConnected'
  BY DEF Ind, ServerClose, ServerConnected, FinAckSeen, FinAckOnPath,
     Opening, Boundary, FirstHeld, FirstUnsent, ClientPhases, TypeOK,
     ClientTypeOK
<1>11. ServerOpened'
  BY DEF Ind, ServerClose, ServerOpened, FinSent, SynAckOnPath,
     ClientPhases, TypeOK, ClientTypeOK
<1>12. ServerStream'
  BY DEF Ind, ServerClose, ServerStream, Stream, ClientPhases, TypeOK,
     ClientTypeOK
<1>13. StreamIntegrity'
  BY DEF Ind, ServerClose, StreamIntegrity, Stream, ClientPhases, TypeOK,
     ClientTypeOK
<1>14. FreedWasAccepted'
  BY DEF Ind, ServerClose, FreedWasAccepted, FirstHeld, Stream,
     ClientPhases, TypeOK, ClientTypeOK
<1> QED
  BY <1>1, <1>2, <1>3, <1>4, <1>5, <1>6, <1>7, <1>8, <1>9, <1>10, <1>11,
     <1>12, <1>13, <1>14 DEF Ind

\* recv is called.
LEMMA RecvStep ==
    ASSUME Ind, NEW length \in RecvLengths, Recv(length),
           UNCHANGED clientVars
    PROVE  Ind'
<1>1. TypeOK'
  BY ServerAssumption DEF Ind, Recv, PathTypeOK, ClientTypeOK, ServerTypeOK,
     ClientStates, ClientPcs, HandlerPcs, ServerStates, ServerPcs,
     ClientPhases, TypeOK
<1>2. ClientPhases'
  BY DEF Ind, Recv, ClientPhases, Opening, FinSent, TypeOK, ClientTypeOK
<1>3. RingOrdered'
  BY DEF Ind, Recv, RingOrdered, ClientPhases, TypeOK, ClientTypeOK
<1>4. AgesInRange'
  BY DEF Ind, Recv, AgesInRange, Oldest, Newest, Opening, FinSent,
     SynAckSeen, FinAckSeen, ClientPhases, TypeOK, ClientTypeOK
<1>5. Contents'
  BY DEF Ind, Recv, Contents, FinSent, ClientPhases, TypeOK, ClientTypeOK
<1>6. SendBufferSorted'
  BY DEF Ind, Recv, SendBufferSorted, Opening, ClientPhases, TypeOK,
     ClientTypeOK
<1>7. SendBufferOK'
  BY DEF Ind, Recv, SendBufferOK, ClientPhases, TypeOK, ClientTypeOK
<1>8. TimerCoversUnacked'
  BY DEF Ind, Recv, TimerCoversUnacked, ClientPhases, TypeOK, ClientTypeOK
<1>9. BoundariesOnPath'
  BY DEF Ind, Recv, BoundariesOnPath, Boundary, FirstHeld, FirstUnsent,
     ClientPhases, TypeOK, ClientTypeOK
<1>10. ServerConnected'
  BY DEF Ind, Recv, ServerConnected, FinAckSeen, FinAckOnPath, Opening,
     Boundary, FirstHeld, FirstUnsent, ClientPhases, TypeOK, ClientTypeOK
<1>11. ServerOpened'
  BY DEF Ind, Recv, ServerOpened, FinSent, SynAckOnPath, ClientPhases,
     TypeOK, ClientTypeOK
<1>12. ServerStream'
  BY DEF Ind, Recv, ServerStream, Stream, ClientPhases, TypeOK, ClientTypeOK
<1>13. StreamIntegrity'
  BY DEF Ind, Recv, StreamIntegrity, Stream, ClientPhases, TypeOK,
     ClientTypeOK
<1>14. FreedWasAccepted'
  BY DEF Ind, Recv, FreedWasAccepted, FirstHeld, Stream, ClientPhases,
     TypeOK, ClientTypeOK
<1> QED
  BY <1>1, <1>2, <1>3, <1>4, <1>5, <1>6, <1>7, <1>8, <1>9, <1>10, <1>11,
     <1>12, <1>13, <1>14 DEF Ind

\* recv moves bytes from the buffer to the application.
LEMMA RecvCopyStep ==
    ASSUME Ind, RecvCopy, UNCHANGED clientVars
    PROVE  Ind'
<1>1. /\ delivered' = delivered \o SubSeq(recvBuf, 1, request)
      /\ recvBuf' = SubSeq(recvBuf, request + 1, Len(recvBuf))
      /\ sPc' = "idle" /\ request \in 0..Len(recvBuf)
      /\ UNCHANGED <<path, sState, expect_seqNum, request, sCrashed, sConn>>
  BY DEF RecvCopy, Ind, TypeOK, ServerTypeOK
<1>2. /\ delivered' \in Seq(Nat \X Nat) /\ recvBuf' \in Seq(Nat \X Nat)
      /\ Len(recvBuf') = Len(recvBuf) - request
      /\ delivered' \o recvBuf' = delivered \o recvBuf
  <2> DEFINE B == Nat \X Nat
             a == SubSeq(recvBuf, 1, request)
             b == SubSeq(recvBuf, request + 1, Len(recvBuf))
  <2>1. delivered \in Seq(B)
    BY StreamFacts
  <2>2. recvBuf \in Seq(B) /\ request \in 0..Len(recvBuf)
    BY <1>1, StreamFacts
  <2>3. delivered' = delivered \o a /\ recvBuf' = b
    BY <1>1
  <2> HIDE DEF B
  <2>4. a \in Seq(B) /\ b \in Seq(B)
    BY <2>2, SplitWhole
  <2>5. Len(b) = Len(recvBuf) - request /\ recvBuf = a \o b
    BY <2>2, SplitWhole
  <2> HIDE DEF a, b
  <2>6. \A r, x, y : r = a \o b /\ x = delivered \o a /\ y = b
          => x \in Seq(B) /\ x \o y = delivered \o r
    BY <2>1, <2>4, Moved
  <2>7. delivered' \in Seq(B) /\ delivered' \o recvBuf' = delivered \o recvBuf
    BY <2>3, <2>5, <2>6
  <2> QED
    BY <2>3, <2>4, <2>5, <2>7 DEF B
<1>3. Stream' = Stream
  BY <1>1, <1>2 DEF Stream
<1>4. recvBuf = << >> => recvBuf' = << >>
  BY <1>1, <1>2, StreamFacts
<1>5. TypeOK'
  <2>1. Len(recvBuf') < RECEIVE_BUF_SIZE
    BY <1>1, <1>2, ServerAssumption DEF Ind, TypeOK, ServerTypeOK
  <2> QED
    BY <1>1, <1>2, <2>1 DEF Ind, TypeOK, PathTypeOK, ClientTypeOK, ServerTypeOK, ServerPcs
<1>6. ClientPhases'
  BY DEF Ind, ClientPhases, Opening, FinSent, TypeOK, ClientTypeOK
<1>7. RingOrdered'
  BY <1>1 DEF Ind, RingOrdered, ClientPhases, TypeOK, ClientTypeOK
<1>8. AgesInRange'
  BY <1>1 DEF Ind, AgesInRange, Oldest, Newest, Opening, FinSent,
     SynAckSeen, FinAckSeen, ClientPhases, TypeOK, ClientTypeOK
<1>9. Contents'
  BY <1>1 DEF Ind, Contents, FinSent, ClientPhases, TypeOK, ClientTypeOK
<1>10. SendBufferSorted'
  BY DEF Ind, SendBufferSorted, Opening, ClientPhases, TypeOK, ClientTypeOK
<1>11. SendBufferOK'
  BY DEF Ind, SendBufferOK, ClientPhases, TypeOK, ClientTypeOK
<1>12. TimerCoversUnacked'
  BY DEF Ind, TimerCoversUnacked, ClientPhases, TypeOK, ClientTypeOK
<1>13. BoundariesOnPath'
  BY <1>1 DEF Ind, BoundariesOnPath, Boundary, FirstHeld, FirstUnsent
<1>14. ServerConnected'
  BY <1>1 DEF Ind, ServerConnected, FinAckSeen, FinAckOnPath, Opening, Boundary, FirstHeld, FirstUnsent
<1>15. ServerOpened'
  BY <1>1 DEF Ind, ServerOpened, FinSent, SynAckOnPath
<1>16. ServerStream'
  BY <1>1, <1>3, <1>4 DEF Ind, ServerStream
<1>17. StreamIntegrity'
  BY <1>1, <1>3 DEF Ind, StreamIntegrity
<1>18. FreedWasAccepted'
  BY <1>3 DEF Ind, FreedWasAccepted, FirstHeld
<1> QED
  BY <1>5, <1>6, <1>7, <1>8, <1>9, <1>10, <1>11, <1>12, <1>13, <1>14, <1>15,
     <1>16, <1>17, <1>18 DEF Ind

\* closewait empties the buffer and closes the server's end.
LEMMA CloseWaitExpireStep ==
    ASSUME Ind, CloseWaitExpire, UNCHANGED clientVars
    PROVE  Ind'
<1>1. TypeOK'
  <2>1. recvBuf' \in Seq(Nat \X Nat) /\ Len(recvBuf') < RECEIVE_BUF_SIZE
    BY ServerAssumption DEF CloseWaitExpire
  <2> QED
    BY <2>1 DEF CloseWaitExpire, Ind, TypeOK, PathTypeOK, ClientTypeOK, ServerTypeOK, ServerStates
<1>2. ClientPhases'
  BY DEF Ind, CloseWaitExpire, ClientPhases, Opening, FinSent, TypeOK,
     ClientTypeOK
<1>3. RingOrdered'
  BY DEF Ind, CloseWaitExpire, RingOrdered, ClientPhases, TypeOK,
     ClientTypeOK
<1>4. AgesInRange'
  BY DEF Ind, CloseWaitExpire, AgesInRange, Oldest, Newest, Opening,
     FinSent, SynAckSeen, FinAckSeen, ClientPhases, TypeOK, ClientTypeOK
<1>5. Contents'
  BY DEF Ind, CloseWaitExpire, Contents, FinSent, ClientPhases, TypeOK,
     ClientTypeOK
<1>6. SendBufferSorted'
  BY DEF Ind, CloseWaitExpire, SendBufferSorted, Opening, ClientPhases,
     TypeOK, ClientTypeOK
<1>7. SendBufferOK'
  BY DEF Ind, CloseWaitExpire, SendBufferOK, ClientPhases, TypeOK,
     ClientTypeOK
<1>8. TimerCoversUnacked'
  BY DEF Ind, CloseWaitExpire, TimerCoversUnacked, ClientPhases, TypeOK,
     ClientTypeOK
<1>9. BoundariesOnPath'
  BY DEF Ind, CloseWaitExpire, BoundariesOnPath, Boundary, FirstHeld,
     FirstUnsent, ClientPhases, TypeOK, ClientTypeOK
<1>10. ServerConnected'
  BY DEF Ind, CloseWaitExpire, ServerConnected, FinAckSeen, FinAckOnPath,
     Opening, Boundary, FirstHeld, FirstUnsent, ClientPhases, TypeOK,
     ClientTypeOK
<1>11. ServerOpened'
  BY DEF Ind, CloseWaitExpire, ServerOpened, FinSent, SynAckOnPath,
     ClientPhases, TypeOK, ClientTypeOK
<1>12. ServerStream'
  BY DEF Ind, CloseWaitExpire, ServerStream, Stream, ClientPhases, TypeOK,
     ClientTypeOK
<1>13. StreamIntegrity'
  BY DEF Ind, CloseWaitExpire, StreamIntegrity, Stream, ClientPhases,
     TypeOK, ClientTypeOK
<1>14. FreedWasAccepted'
  BY StreamFacts DEF CloseWaitExpire, FreedWasAccepted
<1> QED
  BY <1>1, <1>2, <1>3, <1>4, <1>5, <1>6, <1>7, <1>8, <1>9, <1>10, <1>11,
     <1>12, <1>13, <1>14 DEF Ind

----
(* Steps that take a segment from the path *)

\* The network loses a segment on its way to the server, or seghandler
\* ignores it.
LEMMA LoseToServerStep ==
    ASSUME Ind, LoseToServer, UNCHANGED <<clientVars, serverVars>>
    PROVE  Ind'
<1>1. /\ toServer' \in Seq(Segments) /\ Len(toServer') <= MaxInFlight
      /\ \A i \in Indices(toServer') :
           i + 1 \in Indices(toServer) /\ toServer'[i] = toServer[i + 1]
      /\ RingOrdered'
  BY ServerTakes DEF LoseToServer
<1>2. toClient' = toClient
  BY DEF LoseToServer
<1>3. \A m : Boundary(m)' <=> Boundary(m)
  BY DEF Boundary, FirstHeld, FirstUnsent
<1>4. TypeOK'
  BY <1>1, <1>2 DEF Ind, PathTypeOK, ClientTypeOK, ServerTypeOK,
     ClientStates, ClientPcs, HandlerPcs, ServerStates, ServerPcs,
     ClientPhases, TypeOK
<1>5. ClientPhases'
  BY DEF Ind, ClientPhases, Opening, FinSent, TypeOK, ClientTypeOK
<1>6. RingOrdered'
  BY <1>1 DEF Ind, RingOrdered, ClientPhases, TypeOK, ClientTypeOK
<1>7. AgesInRange'
  BY <1>1, <1>2 DEF Ind, AgesInRange, Oldest, Newest, Opening, FinSent, SynAckSeen, FinAckSeen
<1>8. Contents'
  BY <1>1, <1>2 DEF Ind, Contents, FinSent
<1>9. SendBufferSorted'
  BY DEF Ind, SendBufferSorted, Opening, ClientPhases, TypeOK, ClientTypeOK
<1>10. SendBufferOK'
  BY DEF Ind, SendBufferOK, ClientPhases, TypeOK, ClientTypeOK
<1>11. TimerCoversUnacked'
  BY DEF Ind, TimerCoversUnacked, ClientPhases, TypeOK, ClientTypeOK
<1>12. BoundariesOnPath'
  <2>1. BoundariesOnPath
    BY DEF Ind
  <2> QED
    BY <1>1, <1>2, <1>3, <2>1 DEF BoundariesOnPath
<1>13. ServerConnected'
  <2>1. FinAckOnPath' <=> FinAckOnPath
    BY <1>2 DEF FinAckOnPath
  <2> QED
    BY <1>1, <1>3, <2>1 DEF Ind, ServerConnected, Opening, FinAckSeen
<1>14. ServerOpened'
  BY <1>2 DEF Ind, ServerOpened, FinSent, SynAckOnPath
<1>15. ServerStream'
  BY DEF Ind, ServerStream, Stream, ClientPhases, TypeOK, ClientTypeOK
<1>16. StreamIntegrity'
  BY DEF Ind, StreamIntegrity, Stream, ClientPhases, TypeOK, ClientTypeOK
<1>17. FreedWasAccepted'
  BY DEF Ind, FreedWasAccepted, FirstHeld, Stream, ClientPhases, TypeOK,
     ClientTypeOK
<1> QED
  BY <1>4, <1>5, <1>6, <1>7, <1>8, <1>9, <1>10, <1>11, <1>12, <1>13, <1>14,
     <1>15, <1>16, <1>17 DEF Ind

\* seghandler answers a FIN.
LEMMA FinReceivedStep ==
    ASSUME Ind, FinReceived, UNCHANGED clientVars
    PROVE  Ind'
<1> DEFINE first == toServer[1]
           seg == Control("FINACK", first.conn)
<1>1. /\ toServer /= << >> /\ Head(toServer) = first /\ 1 \in Indices(toServer)
      /\ first \in Segments /\ first.type = "FIN"
      /\ toServer' = Tail(toServer) /\ toClient' = Enqueue(toClient, <<seg>>)
  BY PathAges, TailFacts DEF FinReceived, ServerReceives, Reply
<1>2. /\ sState \in {"CONNECTED", "CLOSEWAIT"} /\ sState' = "CLOSEWAIT"
      /\ UNCHANGED <<expect_seqNum, recvBuf, sPc, request, sCrashed, delivered, sConn>>
  BY DEF FinReceived
<1>3. /\ seg \in Segments /\ seg.type = "FINACK" /\ seg.conn = first.conn
      /\ Age(seg) = Age(Head(toServer))
      /\ Age(first) = 2 * first.conn + 1 /\ first.conn \in Nat
  <2>1. first.conn \in Nat /\ "FINACK" \in SegTypes
    BY <1>1 DEF Segments, SegTypes
  <2>2. seg \in Segments /\ seg.type = "FINACK" /\ seg.conn = first.conn
    BY <2>1, SegmentFacts
  <2> QED
    BY <1>1, <2>1, <2>2 DEF Age
<1> HIDE DEF seg, first
<1>4. /\ toServer' \in Seq(Segments) /\ Len(toServer') <= MaxInFlight
      /\ toClient' \in Seq(Segments) /\ Len(toClient') <= MaxInFlight
      /\ \A i \in Indices(toServer') :
           i + 1 \in Indices(toServer) /\ toServer'[i] = toServer[i + 1]
      /\ \A i \in Indices(toServer') : Age(seg) <= Age(toServer'[i])
      /\ \A i \in Indices(toClient') :
           \/ i \in Indices(toClient) /\ toClient'[i] = toClient[i]
           \/ toClient'[i] = seg
      /\ RingOrdered'
  BY <1>1, <1>3, ServerAnswers
<1>5. /\ \A m : Boundary(m)' <=> Boundary(m)
      /\ FinSent' = FinSent /\ FinAckSeen' = FinAckSeen /\ Opening' = Opening
      /\ Newest' = Newest /\ Oldest' = Oldest
  BY DEF Boundary, FirstHeld, FirstUnsent, FinSent, FinAckSeen, Opening, Newest, Oldest,
     SynAckSeen
<1>6. sState = "CONNECTED" => FinSent
  <2>1. SUFFICES ASSUME sState = "CONNECTED" PROVE FinSent
    OBVIOUS
  <2>2. Newest <= 2 * conn + 1 /\ conn \in Nat
    BY StreamFacts DEF Newest
  <2>3. Age(first) >= 2 * conn /\ Age(first) <= Newest
    BY <1>1, <2>1, PathAges DEF Ind, ServerConnected, first
  <2>4. first.conn = conn
    BY <1>3, <2>2, <2>3, PathAges
  <2> QED
    BY <1>1, <2>4 DEF Ind, Contents, first
<1>7. Stream' = Stream
  BY <1>2 DEF Stream
<1>8. TypeOK'
  BY <1>2, <1>4 DEF Ind, PathTypeOK, ClientTypeOK, ServerTypeOK,
     ClientStates, ClientPcs, HandlerPcs, ServerStates, ServerPcs,
     ClientPhases, TypeOK
<1>9. ClientPhases'
  BY DEF Ind, ClientPhases, Opening, FinSent, TypeOK, ClientTypeOK
<1>10. RingOrdered'
  BY <1>4 DEF Ind, RingOrdered, ClientPhases, TypeOK, ClientTypeOK
<1>11. AgesInRange'
  <2>1. Age(seg) \in Oldest..Newest /\ Oldest \in Int /\ Newest \in Int
    BY <1>1, <1>3, PathAges
  <2> QED
    BY <1>4, <1>5, <2>1, PathAges DEF Ind, AgesInRange
<1>12. Contents'
  BY <1>3, <1>4, <1>5 DEF Ind, Contents
<1>13. SendBufferSorted'
  BY DEF Ind, SendBufferSorted, Opening, ClientPhases, TypeOK, ClientTypeOK
<1>14. SendBufferOK'
  BY DEF Ind, SendBufferOK, ClientPhases, TypeOK, ClientTypeOK
<1>15. TimerCoversUnacked'
  BY DEF Ind, TimerCoversUnacked, ClientPhases, TypeOK, ClientTypeOK
<1>16. BoundariesOnPath'
  BY <1>2, <1>3, <1>4, <1>5 DEF Ind, BoundariesOnPath
<1>17. ServerConnected'
  BY <1>2 DEF ServerConnected
<1>18. ServerOpened'
  <2>1. SynAckOnPath' => SynAckOnPath
    BY <1>3, <1>4 DEF SynAckOnPath
  <2> QED
    BY <1>2, <1>5, <1>6, <2>1 DEF Ind, ServerOpened
<1>19. ServerStream'
  BY <1>2, <1>7 DEF Ind, ServerStream
<1>20. StreamIntegrity'
  BY <1>2, <1>7 DEF Ind, StreamIntegrity
<1>21. FreedWasAccepted'
  BY <1>7 DEF Ind, FreedWasAccepted, FirstHeld
<1> QED
  BY <1>8, <1>9, <1>10, <1>11, <1>12, <1>13, <1>14, <1>15, <1>16, <1>17,
     <1>18, <1>19, <1>20, <1>21 DEF Ind

\* seghandler acknowledges again what it expects.
LEMMA RepeatAckStep ==
    ASSUME Ind, RepeatAck, UNCHANGED clientVars
    PROVE  Ind'
<1> DEFINE first == toServer[1]
           seg == DataAck(expect_seqNum, first.conn)
<1>1. /\ toServer /= << >> /\ Head(toServer) = first /\ 1 \in Indices(toServer)
      /\ first \in Segments /\ first.type = "DATA"
      /\ toServer' = Tail(toServer) /\ toClient' = Enqueue(toClient, <<seg>>)
  BY PathAges, TailFacts DEF RepeatAck, ServerReceives, Reply
<1>2. /\ sState = "CONNECTED" /\ UNCHANGED serverVars
  BY DEF RepeatAck
<1>3. /\ seg \in Segments /\ seg.type = "DATAACK" /\ seg.conn = first.conn
      /\ seg.ack_num = expect_seqNum /\ Age(seg) = Age(Head(toServer))
      /\ Age(first) = 2 * first.conn + 1 /\ first.conn \in Nat
  <2>1. first.conn \in Nat
    BY <1>1 DEF Segments
  <2>2. /\ seg \in Segments /\ seg.type = "DATAACK" /\ seg.conn = first.conn
        /\ seg.ack_num = expect_seqNum
    <3>1. expect_seqNum \in Nat
      BY StreamFacts
    <3> QED
      BY <2>1, <3>1, SegmentFacts
  <2> QED
    BY <1>1, <2>1, <2>2 DEF Age
<1> HIDE DEF seg, first
<1>4. /\ toServer' \in Seq(Segments) /\ Len(toServer') <= MaxInFlight
      /\ toClient' \in Seq(Segments) /\ Len(toClient') <= MaxInFlight
      /\ \A i \in Indices(toServer') :
           i + 1 \in Indices(toServer) /\ toServer'[i] = toServer[i + 1]
      /\ \A i \in Indices(toServer') : Age(seg) <= Age(toServer'[i])
      /\ \A i \in Indices(toClient') :
           \/ i \in Indices(toClient) /\ toClient'[i] = toClient[i]
           \/ toClient'[i] = seg
      /\ RingOrdered'
  BY <1>1, <1>3, ServerAnswers
<1>5. /\ \A m : Boundary(m)' <=> Boundary(m)
      /\ FinSent' = FinSent /\ FinAckSeen' = FinAckSeen /\ Opening' = Opening
      /\ Newest' = Newest /\ Oldest' = Oldest
  BY DEF Boundary, FirstHeld, FirstUnsent, FinSent, FinAckSeen, Opening, Newest, Oldest,
     SynAckSeen
<1>6. first.conn = conn /\ Age(first) = 2 * conn + 1 /\ Newest = 2 * conn + 1 /\ ~Opening
  <2>1. Newest <= 2 * conn + 1 /\ conn \in Nat
    BY StreamFacts DEF Newest
  <2>2. Age(first) >= 2 * conn /\ Age(first) <= Newest /\ Newest \in Int
    BY <1>1, <1>2, PathAges DEF Ind, ServerConnected, first
  <2>3. first.conn = conn
    BY <1>3, <2>1, <2>2
  <2>4. Newest = 2 * conn + 1
    BY <1>3, <2>1, <2>2, <2>3
  <2> QED
    BY <1>3, <2>1, <2>3, <2>4 DEF Newest
<1>7. TypeOK'
  BY <1>2, <1>4 DEF Ind, PathTypeOK, ClientTypeOK, ServerTypeOK,
     ClientStates, ClientPcs, HandlerPcs, ServerStates, ServerPcs,
     ClientPhases, TypeOK
<1>8. ClientPhases'
  BY DEF Ind, ClientPhases, Opening, FinSent, TypeOK, ClientTypeOK
<1>9. RingOrdered'
  BY <1>4 DEF Ind, RingOrdered, ClientPhases, TypeOK, ClientTypeOK
<1>10. AgesInRange'
  <2>1. Age(seg) \in Oldest..Newest /\ Oldest \in Int /\ Newest \in Int
    BY <1>1, <1>3, PathAges
  <2> QED
    BY <1>4, <1>5, <2>1, PathAges DEF Ind, AgesInRange
<1>11. Contents'
  BY <1>3, <1>4, <1>5 DEF Ind, Contents
<1>12. SendBufferSorted'
  BY DEF Ind, SendBufferSorted, Opening, ClientPhases, TypeOK, ClientTypeOK
<1>13. SendBufferOK'
  BY DEF Ind, SendBufferOK, ClientPhases, TypeOK, ClientTypeOK
<1>14. TimerCoversUnacked'
  BY DEF Ind, TimerCoversUnacked, ClientPhases, TypeOK, ClientTypeOK
<1>15. BoundariesOnPath'
  <2>1. Boundary(expect_seqNum) /\ expect_seqNum <= expect_seqNum
    BY <1>2, StreamFacts DEF Ind, ServerConnected
  <2>2. BoundariesOnPath
    BY DEF Ind
  <2> QED
    BY <1>2, <1>3, <1>4, <1>5, <2>1, <2>2 DEF BoundariesOnPath
<1>16. ServerConnected'
  <2>1. FinAckOnPath' => FinAckOnPath
    BY <1>3, <1>4 DEF FinAckOnPath
  <2> QED
    BY <1>2, <1>4, <1>5, <2>1 DEF Ind, ServerConnected
<1>17. ServerOpened'
  BY <1>2 DEF ServerOpened
<1>18. ServerStream'
  BY <1>2 DEF Ind, ServerStream, Stream, ClientPhases, TypeOK, ClientTypeOK
<1>19. StreamIntegrity'
  BY <1>2 DEF Ind, StreamIntegrity, Stream, ClientPhases, TypeOK,
     ClientTypeOK
<1>20. FreedWasAccepted'
  BY <1>2 DEF Ind, FreedWasAccepted, FirstHeld, Stream, ClientPhases,
     TypeOK, ClientTypeOK
<1> QED
  BY <1>7, <1>8, <1>9, <1>10, <1>11, <1>12, <1>13, <1>14, <1>15, <1>16,
     <1>17, <1>18, <1>19, <1>20 DEF Ind

\* seghandler saves the expected bytes and acknowledges them.
LEMMA SaveDataStep ==
    ASSUME Ind, SaveData, UNCHANGED clientVars
    PROVE  Ind'
<1> DEFINE first == toServer[1]
           seg == DataAck(expect_seqNum', first.conn)
           bytes == Payload(first)
<1>1. /\ toServer /= << >> /\ Head(toServer) = first /\ 1 \in Indices(toServer)
      /\ first \in Segments /\ first.type = "DATA"
      /\ toServer' = Tail(toServer) /\ toClient' = Enqueue(toClient, <<seg>>)
  BY PathAges, TailFacts DEF SaveData, ServerReceives, Reply
<1>2. /\ sState = "CONNECTED" /\ sState' = "CONNECTED"
      /\ first.seq_num = expect_seqNum
      /\ first.length + Len(recvBuf) < RECEIVE_BUF_SIZE
      /\ recvBuf' = recvBuf \o bytes
      /\ expect_seqNum' = first.length + first.seq_num
      /\ UNCHANGED <<sPc, request, sCrashed, delivered, sConn>>
  BY <1>1 DEF SaveData, Expected, HasRoom
<1>3. /\ seg \in Segments /\ seg.type = "DATAACK" /\ seg.conn = first.conn
      /\ seg.ack_num = expect_seqNum' /\ Age(seg) = Age(Head(toServer))
      /\ Age(first) = 2 * first.conn + 1 /\ first.conn \in Nat
      /\ first.length \in Nat /\ expect_seqNum' \in Nat
      /\ expect_seqNum' = expect_seqNum + first.length
  <2>1. first.conn \in Nat /\ first.length \in Nat /\ first.seq_num \in Nat
    BY <1>1 DEF Segments
  <2>2. expect_seqNum' \in Nat /\ expect_seqNum' = expect_seqNum + first.length
    BY <1>2, <2>1
  <2>3. /\ seg \in Segments /\ seg.type = "DATAACK" /\ seg.conn = first.conn
        /\ seg.ack_num = expect_seqNum'
    <3> DEFINE c == first.conn
               m == expect_seqNum'
    <3>1. c \in Nat /\ m \in Nat
      BY <2>1, <2>2
    <3> HIDE DEF c, m
    <3>2. /\ DataAck(m, c) \in Segments /\ DataAck(m, c).type = "DATAACK"
          /\ DataAck(m, c).conn = c /\ DataAck(m, c).ack_num = m
      BY <3>1, SegmentFacts
    <3> QED
      BY <3>2 DEF c, m
  <2> QED
    BY <1>1, <2>1, <2>2, <2>3 DEF Age
<1> HIDE DEF seg
<1>4. /\ toServer' \in Seq(Segments) /\ Len(toServer') <= MaxInFlight
      /\ toClient' \in Seq(Segments) /\ Len(toClient') <= MaxInFlight
      /\ \A i \in Indices(toServer') :
           i + 1 \in Indices(toServer) /\ toServer'[i] = toServer[i + 1]
      /\ \A i \in Indices(toServer') : Age(seg) <= Age(toServer'[i])
      /\ \A i \in Indices(toClient') :
           \/ i \in Indices(toClient) /\ toClient'[i] = toClient[i]
           \/ toClient'[i] = seg
      /\ RingOrdered'
  BY <1>1, <1>3, ServerAnswers
<1>5. /\ \A m : Boundary(m)' <=> Boundary(m)
      /\ FinSent' = FinSent /\ FinAckSeen' = FinAckSeen /\ Opening' = Opening
      /\ Newest' = Newest /\ Oldest' = Oldest
  BY DEF Boundary, FirstHeld, FirstUnsent, FinSent, FinAckSeen, Opening, Newest, Oldest,
     SynAckSeen
<1>6. first.conn = conn /\ Age(first) = 2 * conn + 1 /\ Newest = 2 * conn + 1 /\ ~Opening
  <2>1. Newest <= 2 * conn + 1 /\ conn \in Nat
    BY StreamFacts DEF Newest
  <2>2. Age(first) >= 2 * conn /\ Age(first) <= Newest /\ Newest \in Int
    BY <1>1, <1>2, PathAges DEF Ind, ServerConnected
  <2>3. first.conn = conn
    BY <1>3, <2>1, <2>2
  <2>4. Newest = 2 * conn + 1
    BY <1>3, <2>1, <2>2, <2>3
  <2> QED
    BY <1>3, <2>1, <2>3, <2>4 DEF Newest
<1>7. /\ bytes \in Seq(Nat \X Nat) /\ Len(bytes) = first.length
      /\ \A i \in 1..first.length : bytes[i] = <<conn, expect_seqNum + i - 1>>
  <2>1. bytes = [i \in 1..first.length |-> <<conn, expect_seqNum + i - 1>>]
    BY <1>2, <1>6 DEF Payload
  <2>2. \A i \in 1..first.length : <<conn, expect_seqNum + i - 1>> \in Nat \X Nat
    BY SMTT(30), <1>3, StreamFacts
  <2> QED
    BY SMTT(30), <1>3, <2>1, <2>2
<1> HIDE DEF bytes, first
<1>8. /\ recvBuf' \in Seq(Nat \X Nat)
      /\ Len(recvBuf') = Len(recvBuf) + first.length
      /\ Stream' = Stream \o bytes
      /\ Len(Stream') = Len(Stream) + first.length
  <2>1. recvBuf' \in Seq(Nat \X Nat) /\ Len(recvBuf') = Len(recvBuf) + first.length
    <3>1. recvBuf \in Seq(Nat \X Nat) /\ bytes \in Seq(Nat \X Nat)
      BY <1>7, StreamFacts
    <3>2. /\ recvBuf \o bytes \in Seq(Nat \X Nat)
          /\ Len(recvBuf \o bytes) = Len(recvBuf) + Len(bytes)
      BY <3>1, ConcatProperties, Zenon
    <3> QED
      BY <1>2, <1>7, <3>2
  <2>2. Stream = delivered \o recvBuf /\ Stream' = delivered \o (recvBuf \o bytes)
    BY <1>2 DEF Stream
  <2>3. Stream' = Stream \o bytes
    <3> DEFINE B == Nat \X Nat
    <3>1. delivered \in Seq(B) /\ recvBuf \in Seq(B) /\ bytes \in Seq(B)
      BY <1>7, StreamFacts
    <3> HIDE DEF B
    <3>2. (delivered \o recvBuf) \o bytes = delivered \o (recvBuf \o bytes)
      BY <3>1, ConcatAssociative
    <3> QED
      BY <2>2, <3>2
  <2>4. Len(Stream \o bytes) = Len(Stream) + Len(bytes)
    BY <1>7, StreamFacts, ConcatProperties
  <2> QED
    BY <1>7, <2>1, <2>3, <2>4
<1>9. Len(Stream) = expect_seqNum /\ sConn = conn
  BY <1>2 DEF Ind, ServerStream, ServerConnected
<1>10. TypeOK'
  BY <1>2, <1>3, <1>4, <1>8, StreamFacts, ServerAssumption DEF Ind,
     PathTypeOK, ClientTypeOK, ServerTypeOK, ClientStates, ClientPcs,
     HandlerPcs, ServerStates, ServerPcs, ClientPhases, TypeOK
<1>11. ClientPhases'
  BY DEF Ind, ClientPhases, Opening, FinSent, TypeOK, ClientTypeOK
<1>12. RingOrdered'
  BY <1>4 DEF Ind, RingOrdered, ClientPhases, TypeOK, ClientTypeOK
<1>13. AgesInRange'
  <2>1. Age(seg) \in Oldest..Newest /\ Oldest \in Int /\ Newest \in Int
    BY <1>1, <1>3, PathAges
  <2> QED
    BY <1>4, <1>5, <2>1, PathAges DEF Ind, AgesInRange
<1>14. Contents'
  BY <1>3, <1>4, <1>5 DEF Ind, Contents
<1>15. SendBufferSorted'
  BY DEF Ind, SendBufferSorted, Opening, ClientPhases, TypeOK, ClientTypeOK
<1>16. SendBufferOK'
  BY DEF Ind, SendBufferOK, ClientPhases, TypeOK, ClientTypeOK
<1>17. TimerCoversUnacked'
  BY DEF Ind, TimerCoversUnacked, ClientPhases, TypeOK, ClientTypeOK
<1>18. BoundariesOnPath'
  <2>1. Boundary(expect_seqNum')
    BY <1>1, <1>2, <1>3, <1>6 DEF Ind, BoundariesOnPath, first
  <2>2. BoundariesOnPath
    BY DEF Ind
  <2>3. expect_seqNum <= expect_seqNum' /\ expect_seqNum' <= expect_seqNum'
    BY <1>3, StreamFacts
  <2>4. \A i \in Indices(toClient) : toClient[i].ack_num \in Nat
    <3>1. \A x \in Segments : x.ack_num \in Nat
      BY DEF Segments
    <3> QED
      BY <3>1, PathAges, IndexFacts
  <2>5. ASSUME NEW i \in Indices(toClient'), toClient'[i].type = "DATAACK",
               toClient'[i].conn = conn
        PROVE  Boundary(toClient'[i].ack_num) /\ toClient'[i].ack_num <= expect_seqNum'
    <3>1. CASE i \in Indices(toClient) /\ toClient'[i] = toClient[i]
      <4>1. Boundary(toClient[i].ack_num) /\ toClient[i].ack_num <= expect_seqNum
        BY <1>2, <2>2, <2>5, <3>1 DEF BoundariesOnPath
      <4> QED
        BY <1>3, <2>3, <2>4, <3>1, <4>1, StreamFacts
    <3>2. CASE toClient'[i] = seg
      BY <1>3, <2>1, <2>3, <3>2
    <3> QED
      BY <1>4, <3>1, <3>2
  <2> QED
    BY <1>4, <1>5, <2>2, <2>5 DEF BoundariesOnPath
<1>19. ServerConnected'
  <2>1. FinAckOnPath' => FinAckOnPath
    BY <1>3, <1>4 DEF FinAckOnPath
  <2>2. Boundary(expect_seqNum')
    BY <1>1, <1>2, <1>3, <1>6 DEF Ind, BoundariesOnPath, first
  <2>3. \A i \in Indices(toServer') :
          Age(toServer'[i]) >= 2 * conn /\ Age(toServer'[i]) > 2 * conn
    <3>1. Age(seg) = 2 * conn + 1 /\ conn \in Nat
      BY <1>1, <1>3, <1>6, StreamFacts
    <3>2. \A i \in Indices(toServer') : Age(toServer'[i]) \in Int
      BY <1>4, PathAges
    <3> QED
      BY <1>4, <3>1, <3>2
  <2> QED
    BY <1>2, <1>4, <1>5, <1>6, <2>1, <2>2, <2>3 DEF Ind, ServerConnected
<1>20. ServerOpened'
  BY <1>2 DEF ServerOpened
<1>21. ServerStream'
  BY <1>2, <1>3, <1>8, <1>9 DEF ServerStream
<1>22. StreamIntegrity'
  <2>1. /\ \A i \in 1..Len(Stream) : Stream[i] = <<conn, i - 1>>
        /\ Len(Stream') = Len(Stream) + first.length
    BY <1>8, <1>9 DEF Ind, StreamIntegrity
  <2>5. \A i \in 1..Len(Stream') :
          Stream'[i] = IF i <= Len(Stream) THEN Stream[i] ELSE bytes[i - Len(Stream)]
    <3>1. \A i \in 1..(Len(Stream) + Len(bytes)) : (Stream \o bytes)[i] =
            IF i <= Len(Stream) THEN Stream[i] ELSE bytes[i - Len(Stream)]
      BY <1>7, StreamFacts, ConcatProperties
    <3> QED
      BY <1>7, <1>8, <3>1
  <2>6. Len(Stream) \in Nat /\ first.length \in Nat /\ conn \in Nat
    BY <1>3, StreamFacts
  <2>2. ASSUME NEW i \in 1..Len(Stream') PROVE Stream'[i] = <<conn, i - 1>>
    <3>1. CASE i <= Len(Stream)
      <4>1. i \in 1..Len(Stream)
        BY <2>6, <3>1
      <4> QED
        BY <2>1, <2>5, <3>1, <4>1
    <3>2. CASE i > Len(Stream)
      <4>1. i - Len(Stream) \in 1..first.length /\ expect_seqNum + (i - Len(Stream)) - 1 = i - 1
        BY <1>9, <2>1, <2>6, <3>2
      <4>2. Stream'[i] = bytes[i - Len(Stream)]
        BY <2>5, <2>6, <3>2
      <4> QED
        BY <1>7, <4>1, <4>2
    <3> QED
      BY <2>6, <3>1, <3>2
  <2>3. Stream' \in Seq(Nat \X Nat)
    BY <1>7, <1>8, StreamFacts, ConcatProperties
  <2>4. Stream' = [i \in 1..Len(Stream') |-> <<conn, i - 1>>]
    <3> DEFINE t == Stream'
    <3>1. t \in Seq(Nat \X Nat) /\ \A i \in 1..Len(t) : t[i] = <<conn, i - 1>>
      BY <2>2, <2>3
    <3> HIDE DEF t
    <3>2. t = [i \in 1..Len(t) |-> <<conn, i - 1>>]
      <4>1. t \in [1..Len(t) -> Nat \X Nat]
        BY <3>1, LenProperties, Zenon
      <4>2. t = [i \in 1..Len(t) |-> t[i]]
        BY <4>1, Zenon
      <4> QED
        BY <3>1, <4>2, Zenon
    <3> QED
      BY <3>2 DEF t
  <2> QED
    BY <1>2, <1>9, <2>4 DEF StreamIntegrity
<1>23. FreedWasAccepted'
  <2>1. FirstHeld \in Nat
    <3>1. sendBuf /= << >> => sendBuf[1] \in Segments
      BY DEF Ind, TypeOK, ClientTypeOK
    <3> QED
      BY <3>1 DEF FirstHeld, Ind, TypeOK, ClientTypeOK, Segments
  <2>2. FirstHeld' = FirstHeld
    BY DEF FirstHeld
  <2> QED
    BY <1>3, <1>8, <2>1, <2>2, StreamFacts DEF Ind, FreedWasAccepted
<1> QED
  BY <1>10, <1>11, <1>12, <1>13, <1>14, <1>15, <1>16, <1>17, <1>18, <1>19,
     <1>20, <1>21, <1>22, <1>23 DEF Ind

\* seghandler answers a SYN: it is the one of the client's connection, and a
\* duplicate comes before any data.
LEMMA SynReceivedStep ==
    ASSUME Ind, SynReceived, UNCHANGED clientVars
    PROVE  Ind'
<1> DEFINE first == toServer[1]
           seg == Control("SYNACK", first.conn)
<1>1. /\ toServer /= << >> /\ Head(toServer) = first /\ 1 \in Indices(toServer)
      /\ first \in Segments /\ first.type = "SYN"
      /\ toServer' = Tail(toServer) /\ toClient' = Enqueue(toClient, <<seg>>)
  BY PathAges, TailFacts DEF SynReceived, ServerReceives, Reply
<1>2. /\ sState \in {"LISTENING", "CONNECTED"} /\ sState' = "CONNECTED"
      /\ expect_seqNum' = first.seq_num /\ sConn' = first.conn
      /\ delivered' = IF sState = "LISTENING" THEN << >> ELSE delivered
      /\ UNCHANGED <<recvBuf, sPc, request, sCrashed>>
  BY <1>1 DEF SynReceived
<1>3. /\ seg \in Segments /\ seg.type = "SYNACK" /\ seg.conn = first.conn
      /\ Age(seg) = Age(Head(toServer))
      /\ Age(first) = 2 * first.conn /\ first.conn \in Nat
  <2>1. first.conn \in Nat /\ "SYNACK" \in SegTypes
    BY <1>1 DEF Segments, SegTypes
  <2>2. seg \in Segments /\ seg.type = "SYNACK" /\ seg.conn = first.conn
    BY <2>1, SegmentFacts
  <2> QED
    BY <1>1, <2>1, <2>2 DEF Age
<1> HIDE DEF seg
<1>4. /\ toServer' \in Seq(Segments) /\ Len(toServer') <= MaxInFlight
      /\ toClient' \in Seq(Segments) /\ Len(toClient') <= MaxInFlight
      /\ \A i \in Indices(toServer') :
           i + 1 \in Indices(toServer) /\ toServer'[i] = toServer[i + 1]
      /\ \A i \in Indices(toServer') : Age(seg) <= Age(toServer'[i])
      /\ \A i \in Indices(toClient') :
           \/ i \in Indices(toClient) /\ toClient'[i] = toClient[i]
           \/ toClient'[i] = seg
      /\ RingOrdered'
  BY <1>1, <1>3, ServerAnswers
<1>5. /\ \A m : Boundary(m)' <=> Boundary(m)
      /\ FinSent' = FinSent /\ FinAckSeen' = FinAckSeen /\ Opening' = Opening
      /\ Newest' = Newest /\ Oldest' = Oldest
  BY DEF Boundary, FirstHeld, FirstUnsent, FinSent, FinAckSeen, Opening, Newest, Oldest,
     SynAckSeen
<1>6. /\ first.conn = conn /\ Age(first) = 2 * conn
      /\ ~FinAckSeen /\ cPc /= "clear"
  <2>1. /\ conn \in Nat /\ 2 * conn - 1 <= Oldest /\ Newest <= 2 * conn + 1
        /\ FinAckSeen => Oldest = 2 * conn + 1
        /\ cPc = "clear" => Newest = 2 * conn - 1
    BY StreamFacts DEF Oldest, Newest, Opening
  <2>2. Oldest <= Age(first) /\ Age(first) <= Newest /\ Oldest \in Int /\ Newest \in Int
    BY <1>1, PathAges DEF first
  <2>3. first.conn = conn
    BY <1>3, <2>1, <2>2
  <2> QED
    BY <1>3, <2>1, <2>2, <2>3
<1>7. \A i \in Indices(toClient) : Age(toClient[i]) <= 2 * conn
  BY <1>1, <1>6 DEF Ind, RingOrdered, first
<1>8. expect_seqNum' = 0 /\ (sState = "CONNECTED" => expect_seqNum = 0)
  <2>1. first.seq_num = 0
    BY <1>1 DEF Ind, Contents, first
  <2>2. sState = "CONNECTED" => ~(expect_seqNum > 0)
    <3>1. ~(2 * conn > 2 * conn)
      BY StreamFacts
    <3> QED
      BY <1>1, <1>6, <3>1 DEF Ind, ServerConnected, first
  <2> QED
    BY <1>2, <2>1, <2>2, StreamFacts
<1>9. Stream' = << >>
  <2>1. CASE sState = "LISTENING"
    <3>1. recvBuf = << >>
      BY <2>1 DEF Ind, ServerStream
    <3> QED
      BY <1>2, <2>1, <3>1 DEF Stream
  <2>2. CASE sState = "CONNECTED"
    <3>1. Stream' = Stream /\ Len(Stream) = 0
      BY <1>2, <1>8, <2>2 DEF Ind, ServerStream, Stream
    <3> QED
      BY <3>1, StreamFacts
  <2> QED
    BY <1>2, <2>1, <2>2
<1> HIDE DEF first
<1>10. TypeOK'
  <2>1. delivered' \in Seq(Nat \X Nat) /\ expect_seqNum' \in Nat /\ sConn' \in Nat
    BY <1>2, <1>3, <1>8, StreamFacts
  <2> QED
    BY <1>2, <1>4, <2>1 DEF Ind, TypeOK, PathTypeOK, ClientTypeOK, ServerTypeOK, ServerStates
<1>11. ClientPhases'
  BY DEF Ind, ClientPhases, Opening, FinSent, TypeOK, ClientTypeOK
<1>12. RingOrdered'
  BY <1>4 DEF Ind, RingOrdered, ClientPhases, TypeOK, ClientTypeOK
<1>13. AgesInRange'
  <2>1. Age(seg) \in Oldest..Newest /\ Oldest \in Int /\ Newest \in Int
    BY <1>1, <1>3, PathAges
  <2> QED
    BY <1>4, <1>5, <2>1, PathAges DEF Ind, AgesInRange
<1>14. Contents'
  BY <1>3, <1>4, <1>5 DEF Ind, Contents
<1>15. SendBufferSorted'
  BY DEF Ind, SendBufferSorted, Opening, ClientPhases, TypeOK, ClientTypeOK
<1>16. SendBufferOK'
  BY DEF Ind, SendBufferOK, ClientPhases, TypeOK, ClientTypeOK
<1>17. TimerCoversUnacked'
  BY DEF Ind, TimerCoversUnacked, ClientPhases, TypeOK, ClientTypeOK
<1>18. BoundariesOnPath'
  <2>1. \A i \in Indices(toClient) :
          ~(toClient[i].type = "DATAACK" /\ toClient[i].conn = conn)
    <3>1. SUFFICES ASSUME NEW i \in Indices(toClient), toClient[i].type = "DATAACK",
                          toClient[i].conn = conn
                   PROVE  FALSE
      OBVIOUS
    <3>2. Age(toClient[i]) = 2 * conn + 1
      BY <3>1 DEF Age
    <3> QED
      BY <1>7, <3>1, <3>2, StreamFacts
  <2>2. BoundariesOnPath
    BY DEF Ind
  <2> QED
    BY <1>3, <1>4, <1>5, <2>1, <2>2 DEF BoundariesOnPath
<1>19. ServerConnected'
  <2>1. ~FinAckOnPath'
    <3>1. SUFFICES ASSUME NEW i \in Indices(toClient'), toClient'[i].type = "FINACK",
                          toClient'[i].conn = conn
                   PROVE  FALSE
      BY DEF FinAckOnPath
    <3>2. i \in Indices(toClient) /\ toClient'[i] = toClient[i]
      BY <1>3, <1>4, <3>1
    <3>3. Age(toClient[i]) = 2 * conn + 1
      BY <3>1, <3>2 DEF Age
    <3> QED
      BY <1>7, <3>2, <3>3, StreamFacts
  <2>2. Boundary(0)
    <3>1. FirstHeld \in Nat
      <4>1. sendBuf /= << >> => sendBuf[1] \in Segments
        BY DEF Ind, TypeOK, ClientTypeOK
      <4> QED
        BY <4>1 DEF FirstHeld, Ind, TypeOK, ClientTypeOK, Segments
    <3> QED
      BY <3>1 DEF Boundary
  <2>3. Age(seg) = 2 * conn
    BY <1>1, <1>3, <1>6
  <2> QED
    BY <1>2, <1>4, <1>5, <1>6, <1>8, <2>1, <2>2, <2>3, StreamFacts DEF ServerConnected
<1>20. ServerOpened'
  BY <1>2 DEF ServerOpened
<1>21. ServerStream'
  BY <1>2, <1>8, <1>9 DEF ServerStream
<1>22. StreamIntegrity'
  BY <1>9 DEF StreamIntegrity
<1>23. FreedWasAccepted'
  <2>1. cState = "CONNECTED" => Len(Stream) = 0
    BY <1>8, StreamFacts DEF Ind, ServerStream
  <2>2. FirstHeld' = FirstHeld /\ Len(Stream') = 0
    BY <1>9 DEF FirstHeld
  <2> QED
    BY <2>1, <2>2 DEF Ind, FreedWasAccepted
<1> QED
  BY <1>10, <1>11, <1>12, <1>13, <1>14, <1>15, <1>16, <1>17, <1>18, <1>19,
     <1>20, <1>21, <1>22, <1>23 DEF Ind
====
