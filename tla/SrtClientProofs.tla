---- MODULE SrtClientProofs ----
(***************************************************************************)
(* Every step of the client preserves Ind.                                 *)
(***************************************************************************)
EXTENDS SrtLemmas

USE DEF path, buffer, timers, history, clientVars, serverVars

----
(* Steps that change neither the path nor the send buffer *)

\* connect on a fresh socket opens a connection and sends its first SYN.
LEMMA ConnectStartStep ==
    ASSUME ~ReuseAfterFailure, Ind, ConnectStart, UNCHANGED serverVars
    PROVE  Ind'
<1> DEFINE seg == Control("SYN", conn)
<1>1. /\ seg \in Segments /\ seg.type = "SYN" /\ seg.seq_num = 0
      /\ seg.conn = conn /\ Age(seg) = 2 * conn
  <2>1. conn \in Nat /\ "SYN" \in SegTypes
    BY DEF Ind, TypeOK, ClientTypeOK, SegTypes
  <2> QED
    BY <2>1, SegmentFacts DEF Age
<1>2. Newest <= Age(seg)
  BY <1>1 DEF Ind, ClientPhases, TypeOK, ClientTypeOK, Newest, Opening, ConnectStart
<1>3. toServer' = Enqueue(toServer, <<seg>>) /\ toClient' = toClient
  BY DEF ConnectStart
<1> HIDE DEF seg
<1>4. /\ toServer' \in Seq(Segments) /\ Len(toServer') <= MaxInFlight
      /\ RingOrdered'
      /\ \A i \in Indices(toServer') :
           \/ i \in Indices(toServer) /\ toServer'[i] = toServer[i]
           \/ toServer'[i] = seg
  BY <1>1, <1>2, <1>3, SendOne
<1>5. TypeOK'
  BY <1>4, ClientAssumption DEF Ind, ConnectStart, PathTypeOK, ClientTypeOK,
     ServerTypeOK, ClientStates, ClientPcs, HandlerPcs, ServerStates,
     ServerPcs, ClientPhases, TypeOK
<1>6. ClientPhases'
  BY ClientAssumption DEF Ind, ConnectStart, ClientPhases, Opening, FinSent,
     TypeOK, ClientTypeOK
<1>7. RingOrdered'
  BY <1>4 DEF Ind, ConnectStart, RingOrdered, ClientPhases, TypeOK,
     ClientTypeOK
<1>8. AgesInRange'
  <2>1. Oldest' <= Oldest /\ Newest <= Newest' /\ Age(seg) \in Oldest'..Newest'
    BY <1>1 DEF ConnectStart, RetriesLeft, Ind, ClientPhases, Newest, Oldest, Opening,
       FinSent, SynAckSeen, FinAckSeen, TypeOK, ClientTypeOK
  <2>2. toClient' = toClient /\ Newest' \in Int /\ Oldest' \in Int
    BY DEF ConnectStart, Newest, Oldest, Ind, TypeOK, ClientTypeOK
  <2> QED
    BY <1>4, <2>1, <2>2, PathAges DEF AgesInRange
<1>9. Contents'
  BY <1>1, <1>4 DEF Ind, ConnectStart, Contents, FinSent, ClientPhases,
     TypeOK, ClientTypeOK
<1>10. SendBufferSorted'
  BY DEF Ind, ConnectStart, SendBufferSorted, Opening, ClientPhases, TypeOK,
     ClientTypeOK
<1>11. SendBufferOK'
  BY DEF Ind, ConnectStart, SendBufferOK, ClientPhases, TypeOK, ClientTypeOK
<1>12. TimerCoversUnacked'
  BY DEF Ind, ConnectStart, TimerCoversUnacked, ClientPhases, TypeOK,
     ClientTypeOK
<1>13. BoundariesOnPath'
  BY SMTT(30), <1>1, <1>4 DEF Ind, ConnectStart, BoundariesOnPath, Boundary,
     FirstHeld, FirstUnsent, ClientPhases, TypeOK, ClientTypeOK
<1>14. ServerConnected'
  <2>1. SUFFICES ASSUME sState = "CONNECTED"
                 PROVE  ServerConnected'
    BY DEF ServerConnected
  <2>2. /\ conn' = conn /\ Opening' = Opening /\ cPc' /= "clear"
        /\ FinAckSeen' => FinAckSeen
    BY <2>1 DEF ConnectStart, RetriesLeft, Ind, ClientPhases, Opening, FinAckSeen, ServerConnected
  <2>3. Boundary(expect_seqNum)' <=> Boundary(expect_seqNum)
    BY DEF ConnectStart, Boundary, FirstHeld, FirstUnsent
  <2>4. FinAckOnPath' <=> FinAckOnPath
    BY DEF ConnectStart, FinAckOnPath
  <2>5. expect_seqNum > 0 => Age(seg) > 2 * conn
    BY <1>1, <2>1 DEF ConnectStart, Ind, TypeOK, ClientTypeOK, ClientPhases, ServerConnected, Opening
  <2>6. \A i \in Indices(toServer') :
          /\ Age(toServer'[i]) >= 2 * conn
          /\ expect_seqNum > 0 => Age(toServer'[i]) > 2 * conn
    BY <1>1, <1>4, <2>1, <2>5 DEF Ind, ServerConnected, TypeOK, ClientTypeOK
  <2> QED
    BY <2>1, <2>2, <2>3, <2>4, <2>6 DEF ConnectStart, Ind, ServerConnected
<1>15. ServerOpened'
  BY DEF Ind, ConnectStart, ServerOpened, FinSent, SynAckOnPath,
     ClientPhases, TypeOK, ClientTypeOK
<1>16. ServerStream'
  BY DEF Ind, ConnectStart, ServerStream, Stream, ClientPhases, TypeOK,
     ClientTypeOK
<1>17. StreamIntegrity'
  BY DEF Ind, ConnectStart, StreamIntegrity, Stream, ClientPhases, TypeOK,
     ClientTypeOK
<1>18. FreedWasAccepted'
  BY DEF Ind, ConnectStart, FreedWasAccepted, FirstHeld, Stream,
     ClientPhases, TypeOK, ClientTypeOK
<1> QED
  BY <1>5, <1>6, <1>7, <1>8, <1>9, <1>10, <1>11, <1>12, <1>13, <1>14, <1>15,
     <1>16, <1>17, <1>18 DEF Ind

\* connect sends its SYN again, or gives up.
LEMMA ConnectResendStep ==
    ASSUME ~ReuseAfterFailure, Ind, ConnectResend, UNCHANGED serverVars
    PROVE  Ind'
<1> DEFINE seg == Control("SYN", conn)
<1>1. /\ seg \in Segments /\ seg.type = "SYN" /\ seg.seq_num = 0
      /\ seg.conn = conn /\ Age(seg) = 2 * conn
  <2>1. conn \in Nat /\ "SYN" \in SegTypes
    BY DEF Ind, TypeOK, ClientTypeOK, SegTypes
  <2> QED
    BY <2>1, SegmentFacts DEF Age
<1>2. Newest <= Age(seg)
  BY <1>1 DEF Ind, ClientPhases, TypeOK, ClientTypeOK, Newest, Opening, ConnectResend
<1>3. toServer' = Enqueue(toServer, <<seg>>) /\ toClient' = toClient
  BY DEF ConnectResend
<1> HIDE DEF seg
<1>4. /\ toServer' \in Seq(Segments) /\ Len(toServer') <= MaxInFlight
      /\ RingOrdered'
      /\ \A i \in Indices(toServer') :
           \/ i \in Indices(toServer) /\ toServer'[i] = toServer[i]
           \/ toServer'[i] = seg
  BY <1>1, <1>2, <1>3, SendOne
<1>5. TypeOK'
  BY <1>4 DEF Ind, ConnectResend, RetriesLeft, PathTypeOK, ClientTypeOK,
     ServerTypeOK, ClientStates, ClientPcs, HandlerPcs, ServerStates,
     ServerPcs, ClientPhases, TypeOK
<1>6. ClientPhases'
  BY DEF Ind, ConnectResend, RetriesLeft, ClientPhases, Opening, FinSent,
     TypeOK, ClientTypeOK
<1>7. RingOrdered'
  BY <1>4 DEF Ind, ConnectResend, RetriesLeft, RingOrdered, ClientPhases,
     TypeOK, ClientTypeOK
<1>8. AgesInRange'
  <2>1. Oldest' <= Oldest /\ Newest <= Newest' /\ Age(seg) \in Oldest'..Newest'
    BY <1>1 DEF ConnectResend, RetriesLeft, Ind, ClientPhases, Newest, Oldest, Opening,
       FinSent, SynAckSeen, FinAckSeen, TypeOK, ClientTypeOK
  <2>2. toClient' = toClient /\ Newest' \in Int /\ Oldest' \in Int
    BY DEF ConnectResend, Newest, Oldest, Ind, TypeOK, ClientTypeOK
  <2> QED
    BY <1>4, <2>1, <2>2, PathAges DEF AgesInRange
<1>9. Contents'
  <2>1. toClient' = toClient /\ conn' = conn /\ (FinSent => FinSent')
    BY DEF ConnectResend, RetriesLeft, FinSent, Ind, ClientPhases, TypeOK, ClientTypeOK
  <2>2. seg.type = "FIN" => FinSent'
    BY <1>1 DEF ConnectResend, RetriesLeft, FinSent, Ind, ClientPhases, TypeOK, ClientTypeOK
  <2> QED
    BY <1>1, <1>4, <2>1, <2>2 DEF Ind, Contents
<1>10. SendBufferSorted'
  BY DEF Ind, ConnectResend, RetriesLeft, SendBufferSorted, Opening,
     ClientPhases, TypeOK, ClientTypeOK
<1>11. SendBufferOK'
  BY DEF Ind, ConnectResend, RetriesLeft, SendBufferOK, ClientPhases,
     TypeOK, ClientTypeOK
<1>12. TimerCoversUnacked'
  BY DEF Ind, ConnectResend, RetriesLeft, TimerCoversUnacked, ClientPhases,
     TypeOK, ClientTypeOK
<1>13. BoundariesOnPath'
  BY <1>1, <1>4 DEF Ind, ConnectResend, RetriesLeft, BoundariesOnPath,
     Boundary, FirstHeld, FirstUnsent, ClientPhases, TypeOK, ClientTypeOK
<1>14. ServerConnected'
  <2>1. SUFFICES ASSUME sState = "CONNECTED"
                 PROVE  ServerConnected'
    BY DEF ServerConnected
  <2>2. /\ conn' = conn /\ Opening' = Opening /\ cPc' /= "clear"
        /\ FinAckSeen' => FinAckSeen
    BY <2>1 DEF ConnectResend, RetriesLeft, Ind, ClientPhases, Opening, FinAckSeen, ServerConnected
  <2>3. Boundary(expect_seqNum)' <=> Boundary(expect_seqNum)
    BY DEF ConnectResend, Boundary, FirstHeld, FirstUnsent
  <2>4. FinAckOnPath' <=> FinAckOnPath
    BY DEF ConnectResend, FinAckOnPath
  <2>5. expect_seqNum > 0 => Age(seg) > 2 * conn
    BY <1>1, <2>1 DEF ConnectResend, Ind, TypeOK, ClientTypeOK, ClientPhases, ServerConnected, Opening
  <2>6. \A i \in Indices(toServer') :
          /\ Age(toServer'[i]) >= 2 * conn
          /\ expect_seqNum > 0 => Age(toServer'[i]) > 2 * conn
    BY <1>1, <1>4, <2>1, <2>5 DEF Ind, ServerConnected, TypeOK, ClientTypeOK
  <2> QED
    BY <2>1, <2>2, <2>3, <2>4, <2>6 DEF ConnectResend, Ind, ServerConnected
<1>15. ServerOpened'
  BY DEF Ind, ConnectResend, RetriesLeft, ServerOpened, FinSent,
     SynAckOnPath, ClientPhases, TypeOK, ClientTypeOK
<1>16. ServerStream'
  BY DEF Ind, ConnectResend, RetriesLeft, ServerStream, Stream,
     ClientPhases, TypeOK, ClientTypeOK
<1>17. StreamIntegrity'
  BY DEF Ind, ConnectResend, RetriesLeft, StreamIntegrity, Stream,
     ClientPhases, TypeOK, ClientTypeOK
<1>18. FreedWasAccepted'
  BY DEF Ind, ConnectResend, RetriesLeft, FreedWasAccepted, FirstHeld,
     Stream, ClientPhases, TypeOK, ClientTypeOK
<1> QED
  BY <1>5, <1>6, <1>7, <1>8, <1>9, <1>10, <1>11, <1>12, <1>13, <1>14, <1>15,
     <1>16, <1>17, <1>18 DEF Ind

\* disconnect sends its first FIN.
LEMMA DisconnectStartStep ==
    ASSUME ~ReuseAfterFailure, Ind, DisconnectStart, UNCHANGED serverVars
    PROVE  Ind'
<1> DEFINE seg == Control("FIN", conn)
<1>1. /\ seg \in Segments /\ seg.type = "FIN" /\ seg.seq_num = 0
      /\ seg.conn = conn /\ Age(seg) = 2 * conn + 1
  <2>1. conn \in Nat /\ "FIN" \in SegTypes
    BY DEF Ind, TypeOK, ClientTypeOK, SegTypes
  <2> QED
    BY <2>1, SegmentFacts DEF Age
<1>2. Newest <= Age(seg)
  BY <1>1 DEF Ind, ClientPhases, TypeOK, ClientTypeOK, Newest, Opening, DisconnectStart
<1>3. toServer' = Enqueue(toServer, <<seg>>) /\ toClient' = toClient
  BY DEF DisconnectStart
<1> HIDE DEF seg
<1>4. /\ toServer' \in Seq(Segments) /\ Len(toServer') <= MaxInFlight
      /\ RingOrdered'
      /\ \A i \in Indices(toServer') :
           \/ i \in Indices(toServer) /\ toServer'[i] = toServer[i]
           \/ toServer'[i] = seg
  BY <1>1, <1>2, <1>3, SendOne
<1>5. TypeOK'
  BY <1>4, ClientAssumption DEF Ind, DisconnectStart, PathTypeOK,
     ClientTypeOK, ServerTypeOK, ClientStates, ClientPcs, HandlerPcs,
     ServerStates, ServerPcs, ClientPhases, TypeOK
<1>6. ClientPhases'
  BY ClientAssumption DEF Ind, DisconnectStart, ClientPhases, Opening,
     FinSent, TypeOK, ClientTypeOK
<1>7. RingOrdered'
  BY <1>4 DEF Ind, DisconnectStart, RingOrdered, ClientPhases, TypeOK,
     ClientTypeOK
<1>8. AgesInRange'
  <2>1. Oldest' <= Oldest /\ Newest <= Newest' /\ Age(seg) \in Oldest'..Newest'
    BY <1>1 DEF DisconnectStart, RetriesLeft, Ind, ClientPhases, Newest, Oldest, Opening,
       FinSent, SynAckSeen, FinAckSeen, TypeOK, ClientTypeOK
  <2>2. toClient' = toClient /\ Newest' \in Int /\ Oldest' \in Int
    BY DEF DisconnectStart, Newest, Oldest, Ind, TypeOK, ClientTypeOK
  <2> QED
    BY <1>4, <2>1, <2>2, PathAges DEF AgesInRange
<1>9. Contents'
  <2>1. toClient' = toClient /\ conn' = conn /\ (FinSent => FinSent')
    BY DEF DisconnectStart, FinSent, Ind, ClientPhases, TypeOK, ClientTypeOK
  <2>2. seg.type = "FIN" => FinSent'
    BY <1>1 DEF DisconnectStart, FinSent, Ind, ClientPhases, TypeOK, ClientTypeOK
  <2> QED
    BY <1>1, <1>4, <2>1, <2>2 DEF Ind, Contents
<1>10. SendBufferSorted'
  BY DEF Ind, DisconnectStart, SendBufferSorted, Opening, ClientPhases,
     TypeOK, ClientTypeOK
<1>11. SendBufferOK'
  BY DEF Ind, DisconnectStart, SendBufferOK, ClientPhases, TypeOK,
     ClientTypeOK
<1>12. TimerCoversUnacked'
  BY DEF Ind, DisconnectStart, TimerCoversUnacked, ClientPhases, TypeOK,
     ClientTypeOK
<1>13. BoundariesOnPath'
  BY SMTT(30), <1>1, <1>4 DEF Ind, DisconnectStart, BoundariesOnPath, Boundary,
     FirstHeld, FirstUnsent, ClientPhases, TypeOK, ClientTypeOK
<1>14. ServerConnected'
  <2>1. SUFFICES ASSUME sState = "CONNECTED"
                 PROVE  ServerConnected'
    BY DEF ServerConnected
  <2>2. /\ conn' = conn /\ Opening' = Opening /\ cPc' /= "clear"
        /\ FinAckSeen' => FinAckSeen
    BY <2>1 DEF DisconnectStart, RetriesLeft, Ind, ClientPhases, Opening, FinAckSeen, ServerConnected
  <2>3. Boundary(expect_seqNum)' <=> Boundary(expect_seqNum)
    BY DEF DisconnectStart, Boundary, FirstHeld, FirstUnsent
  <2>4. FinAckOnPath' <=> FinAckOnPath
    BY DEF DisconnectStart, FinAckOnPath
  <2>5. expect_seqNum > 0 => Age(seg) > 2 * conn
    BY <1>1, <2>1 DEF DisconnectStart, Ind, TypeOK, ClientTypeOK, ClientPhases, ServerConnected, Opening
  <2>6. \A i \in Indices(toServer') :
          /\ Age(toServer'[i]) >= 2 * conn
          /\ expect_seqNum > 0 => Age(toServer'[i]) > 2 * conn
    BY <1>1, <1>4, <2>1, <2>5 DEF Ind, ServerConnected, TypeOK, ClientTypeOK
  <2> QED
    BY <2>1, <2>2, <2>3, <2>4, <2>6 DEF DisconnectStart, Ind, ServerConnected
<1>15. ServerOpened'
  BY DEF Ind, DisconnectStart, ServerOpened, FinSent, SynAckOnPath,
     ClientPhases, TypeOK, ClientTypeOK
<1>16. ServerStream'
  BY DEF Ind, DisconnectStart, ServerStream, Stream, ClientPhases, TypeOK,
     ClientTypeOK
<1>17. StreamIntegrity'
  BY DEF Ind, DisconnectStart, StreamIntegrity, Stream, ClientPhases,
     TypeOK, ClientTypeOK
<1>18. FreedWasAccepted'
  BY DEF Ind, DisconnectStart, FreedWasAccepted, FirstHeld, Stream,
     ClientPhases, TypeOK, ClientTypeOK
<1> QED
  BY <1>5, <1>6, <1>7, <1>8, <1>9, <1>10, <1>11, <1>12, <1>13, <1>14, <1>15,
     <1>16, <1>17, <1>18 DEF Ind

\* disconnect sends its FIN again, or gives up and leaves everything as it
\* is.
LEMMA DisconnectResendStep ==
    ASSUME ~ReuseAfterFailure, Ind, DisconnectResend, UNCHANGED serverVars
    PROVE  Ind'
<1> DEFINE seg == Control("FIN", conn)
<1>1. /\ seg \in Segments /\ seg.type = "FIN" /\ seg.seq_num = 0
      /\ seg.conn = conn /\ Age(seg) = 2 * conn + 1
  <2>1. conn \in Nat /\ "FIN" \in SegTypes
    BY DEF Ind, TypeOK, ClientTypeOK, SegTypes
  <2> QED
    BY <2>1, SegmentFacts DEF Age
<1>2. Newest <= Age(seg)
  BY <1>1 DEF Ind, ClientPhases, TypeOK, ClientTypeOK, Newest, Opening, DisconnectResend
<1>3. toServer' = Enqueue(toServer, <<seg>>) /\ toClient' = toClient
  BY DEF DisconnectResend
<1> HIDE DEF seg
<1>4. /\ toServer' \in Seq(Segments) /\ Len(toServer') <= MaxInFlight
      /\ RingOrdered'
      /\ \A i \in Indices(toServer') :
           \/ i \in Indices(toServer) /\ toServer'[i] = toServer[i]
           \/ toServer'[i] = seg
  BY <1>1, <1>2, <1>3, SendOne
<1>5. TypeOK'
  <2>1. PathTypeOK' /\ ServerTypeOK'
    BY <1>4 DEF DisconnectResend, Ind, TypeOK, PathTypeOK, ServerTypeOK
  <2>2. retry' \in Nat /\ cState' \in ClientStates /\ cPc' \in ClientPcs
    BY DEF DisconnectResend, RetriesLeft, Ind, TypeOK, ClientTypeOK, ClientPhases,
       ClientStates, ClientPcs
  <2>3. dirty' \in BOOLEAN
    BY DEF DisconnectResend, Ind, TypeOK, ClientTypeOK
  <2> QED
    BY <2>1, <2>2, <2>3 DEF DisconnectResend, Ind, TypeOK, ClientTypeOK
<1>6. ClientPhases'
  BY DEF Ind, DisconnectResend, RetriesLeft, ClientPhases, Opening, FinSent,
     TypeOK, ClientTypeOK
<1>7. RingOrdered'
  BY <1>4 DEF Ind, DisconnectResend, RetriesLeft, RingOrdered, ClientPhases,
     TypeOK, ClientTypeOK
<1>8. AgesInRange'
  <2>1. Oldest' <= Oldest /\ Newest <= Newest' /\ Age(seg) \in Oldest'..Newest'
    BY <1>1 DEF DisconnectResend, RetriesLeft, Ind, ClientPhases, Newest, Oldest, Opening,
       FinSent, SynAckSeen, FinAckSeen, TypeOK, ClientTypeOK
  <2>2. toClient' = toClient /\ Newest' \in Int /\ Oldest' \in Int
    BY DEF DisconnectResend, Newest, Oldest, Ind, TypeOK, ClientTypeOK
  <2> QED
    BY <1>4, <2>1, <2>2, PathAges DEF AgesInRange
<1>9. Contents'
  <2>1. toClient' = toClient /\ conn' = conn /\ (FinSent => FinSent')
    BY DEF DisconnectResend, RetriesLeft, FinSent, Ind, ClientPhases, TypeOK, ClientTypeOK
  <2>2. seg.type = "FIN" => FinSent'
    BY <1>1 DEF DisconnectResend, RetriesLeft, FinSent, Ind, ClientPhases, TypeOK, ClientTypeOK
  <2> QED
    BY <1>1, <1>4, <2>1, <2>2 DEF Ind, Contents
<1>10. SendBufferSorted'
  BY DEF Ind, DisconnectResend, RetriesLeft, SendBufferSorted, Opening,
     ClientPhases, TypeOK, ClientTypeOK
<1>11. SendBufferOK'
  BY DEF Ind, DisconnectResend, RetriesLeft, SendBufferOK, ClientPhases,
     TypeOK, ClientTypeOK
<1>12. TimerCoversUnacked'
  BY DEF Ind, DisconnectResend, RetriesLeft, TimerCoversUnacked,
     ClientPhases, TypeOK, ClientTypeOK
<1>13. BoundariesOnPath'
  <2>1. \A n : Boundary(n)' <=> Boundary(n)
    BY DEF DisconnectResend, Boundary, FirstHeld, FirstUnsent
  <2> QED
    BY <1>1, <1>4, <2>1 DEF DisconnectResend, Ind, BoundariesOnPath
<1>14. ServerConnected'
  <2>1. SUFFICES ASSUME sState = "CONNECTED"
                 PROVE  ServerConnected'
    BY DEF ServerConnected
  <2>2. /\ conn' = conn /\ Opening' = Opening /\ cPc' /= "clear"
        /\ FinAckSeen' => FinAckSeen
    BY <2>1 DEF DisconnectResend, RetriesLeft, Ind, ClientPhases, Opening, FinAckSeen, ServerConnected
  <2>3. Boundary(expect_seqNum)' <=> Boundary(expect_seqNum)
    BY DEF DisconnectResend, Boundary, FirstHeld, FirstUnsent
  <2>4. FinAckOnPath' <=> FinAckOnPath
    BY DEF DisconnectResend, FinAckOnPath
  <2>5. expect_seqNum > 0 => Age(seg) > 2 * conn
    BY <1>1, <2>1 DEF DisconnectResend, Ind, TypeOK, ClientTypeOK, ClientPhases, ServerConnected, Opening
  <2>6. \A i \in Indices(toServer') :
          /\ Age(toServer'[i]) >= 2 * conn
          /\ expect_seqNum > 0 => Age(toServer'[i]) > 2 * conn
    BY <1>1, <1>4, <2>1, <2>5 DEF Ind, ServerConnected, TypeOK, ClientTypeOK
  <2> QED
    BY <2>1, <2>2, <2>3, <2>4, <2>6 DEF DisconnectResend, Ind, ServerConnected
<1>15. ServerOpened'
  BY DEF Ind, DisconnectResend, RetriesLeft, ServerOpened, FinSent,
     SynAckOnPath, ClientPhases, TypeOK, ClientTypeOK
<1>16. ServerStream'
  BY DEF Ind, DisconnectResend, RetriesLeft, ServerStream, Stream,
     ClientPhases, TypeOK, ClientTypeOK
<1>17. StreamIntegrity'
  BY DEF Ind, DisconnectResend, RetriesLeft, StreamIntegrity, Stream,
     ClientPhases, TypeOK, ClientTypeOK
<1>18. FreedWasAccepted'
  BY DEF Ind, DisconnectResend, RetriesLeft, FreedWasAccepted, FirstHeld,
     Stream, ClientPhases, TypeOK, ClientTypeOK
<1> QED
  BY <1>5, <1>6, <1>7, <1>8, <1>9, <1>10, <1>11, <1>12, <1>13, <1>14, <1>15,
     <1>16, <1>17, <1>18 DEF Ind

\* connect wakes up.
LEMMA ConnectPollStep ==
    ASSUME Ind, ConnectPoll, UNCHANGED serverVars
    PROVE  Ind'
<1>1. TypeOK'
  BY DEF Ind, ConnectPoll, PathTypeOK, ClientTypeOK, ServerTypeOK,
     ClientStates, ClientPcs, HandlerPcs, ServerStates, ServerPcs,
     ClientPhases, TypeOK
<1>2. ClientPhases'
  BY DEF Ind, ConnectPoll, ClientPhases, Opening, FinSent, TypeOK,
     ClientTypeOK
<1>3. RingOrdered'
  BY DEF Ind, ConnectPoll, RingOrdered, ClientPhases, TypeOK, ClientTypeOK
<1>4. AgesInRange'
  BY DEF Ind, ConnectPoll, AgesInRange, Oldest, Newest, Opening, FinSent,
     SynAckSeen, FinAckSeen, ClientPhases, TypeOK, ClientTypeOK
<1>5. Contents'
  BY DEF Ind, ConnectPoll, Contents, FinSent, ClientPhases, TypeOK,
     ClientTypeOK
<1>6. SendBufferSorted'
  BY DEF Ind, ConnectPoll, SendBufferSorted, Opening, ClientPhases, TypeOK,
     ClientTypeOK
<1>7. SendBufferOK'
  BY DEF Ind, ConnectPoll, SendBufferOK, ClientPhases, TypeOK, ClientTypeOK
<1>8. TimerCoversUnacked'
  BY DEF Ind, ConnectPoll, TimerCoversUnacked, ClientPhases, TypeOK,
     ClientTypeOK
<1>9. BoundariesOnPath'
  BY DEF Ind, ConnectPoll, BoundariesOnPath, Boundary, FirstHeld,
     FirstUnsent, ClientPhases, TypeOK, ClientTypeOK
<1>10. ServerConnected'
  BY DEF Ind, ConnectPoll, ServerConnected, FinAckSeen, FinAckOnPath,
     Opening, Boundary, FirstHeld, FirstUnsent, ClientPhases, TypeOK,
     ClientTypeOK
<1>11. ServerOpened'
  BY DEF Ind, ConnectPoll, ServerOpened, FinSent, SynAckOnPath,
     ClientPhases, TypeOK, ClientTypeOK
<1>12. ServerStream'
  BY DEF Ind, ConnectPoll, ServerStream, Stream, ClientPhases, TypeOK,
     ClientTypeOK
<1>13. StreamIntegrity'
  BY DEF Ind, ConnectPoll, StreamIntegrity, Stream, ClientPhases, TypeOK,
     ClientTypeOK
<1>14. FreedWasAccepted'
  BY DEF Ind, ConnectPoll, FreedWasAccepted, FirstHeld, Stream,
     ClientPhases, TypeOK, ClientTypeOK
<1> QED
  BY <1>1, <1>2, <1>3, <1>4, <1>5, <1>6, <1>7, <1>8, <1>9, <1>10, <1>11,
     <1>12, <1>13, <1>14 DEF Ind

\* A timer thread wakes up: an exit leaves nothing unacknowledged behind.
LEMMA TimerPollStep ==
    ASSUME Ind, TimerPoll, UNCHANGED serverVars
    PROVE  Ind'
<1>1. TypeOK'
  BY DEF Ind, TimerPoll, PathTypeOK, ClientTypeOK, ServerTypeOK,
     ClientStates, ClientPcs, HandlerPcs, ServerStates, ServerPcs,
     ClientPhases, TypeOK
<1>2. ClientPhases'
  BY DEF Ind, TimerPoll, ClientPhases, Opening, FinSent, TypeOK,
     ClientTypeOK
<1>3. RingOrdered'
  BY DEF Ind, TimerPoll, RingOrdered, ClientPhases, TypeOK, ClientTypeOK
<1>4. AgesInRange'
  BY DEF Ind, TimerPoll, AgesInRange, Oldest, Newest, Opening, FinSent,
     SynAckSeen, FinAckSeen, ClientPhases, TypeOK, ClientTypeOK
<1>5. Contents'
  BY DEF Ind, TimerPoll, Contents, FinSent, ClientPhases, TypeOK,
     ClientTypeOK
<1>6. SendBufferSorted'
  BY DEF Ind, TimerPoll, SendBufferSorted, Opening, ClientPhases, TypeOK,
     ClientTypeOK
<1>7. SendBufferOK'
  BY DEF Ind, TimerPoll, SendBufferOK, ClientPhases, TypeOK, ClientTypeOK
<1>8. TimerCoversUnacked'
  BY DEF Ind, TimerPoll, TimerCoversUnacked, ClientPhases, TypeOK,
     ClientTypeOK
<1>9. BoundariesOnPath'
  BY DEF Ind, TimerPoll, BoundariesOnPath, Boundary, FirstHeld, FirstUnsent,
     ClientPhases, TypeOK, ClientTypeOK
<1>10. ServerConnected'
  BY DEF Ind, TimerPoll, ServerConnected, FinAckSeen, FinAckOnPath, Opening,
     Boundary, FirstHeld, FirstUnsent, ClientPhases, TypeOK, ClientTypeOK
<1>11. ServerOpened'
  BY DEF Ind, TimerPoll, ServerOpened, FinSent, SynAckOnPath, ClientPhases,
     TypeOK, ClientTypeOK
<1>12. ServerStream'
  BY DEF Ind, TimerPoll, ServerStream, Stream, ClientPhases, TypeOK,
     ClientTypeOK
<1>13. StreamIntegrity'
  BY DEF Ind, TimerPoll, StreamIntegrity, Stream, ClientPhases, TypeOK,
     ClientTypeOK
<1>14. FreedWasAccepted'
  BY DEF Ind, TimerPoll, FreedWasAccepted, FirstHeld, Stream, ClientPhases,
     TypeOK, ClientTypeOK
<1> QED
  BY <1>1, <1>2, <1>3, <1>4, <1>5, <1>6, <1>7, <1>8, <1>9, <1>10, <1>11,
     <1>12, <1>13, <1>14 DEF Ind

\* A timer thread faults.
LEMMA TimerFaultStep ==
    ASSUME Ind, TimerFault, UNCHANGED serverVars
    PROVE  Ind'
<1>1. TypeOK'
  BY DEF Ind, TimerFault, PathTypeOK, ClientTypeOK, ServerTypeOK,
     ClientStates, ClientPcs, HandlerPcs, ServerStates, ServerPcs,
     ClientPhases, TypeOK
<1>2. ClientPhases'
  BY DEF Ind, TimerFault, ClientPhases, Opening, FinSent, TypeOK,
     ClientTypeOK
<1>3. RingOrdered'
  BY DEF Ind, TimerFault, RingOrdered, ClientPhases, TypeOK, ClientTypeOK
<1>4. AgesInRange'
  BY DEF Ind, TimerFault, AgesInRange, Oldest, Newest, Opening, FinSent,
     SynAckSeen, FinAckSeen, ClientPhases, TypeOK, ClientTypeOK
<1>5. Contents'
  BY DEF Ind, TimerFault, Contents, FinSent, ClientPhases, TypeOK,
     ClientTypeOK
<1>6. SendBufferSorted'
  BY DEF Ind, TimerFault, SendBufferSorted, Opening, ClientPhases, TypeOK,
     ClientTypeOK
<1>7. SendBufferOK'
  BY DEF Ind, TimerFault, SendBufferOK, ClientPhases, TypeOK, ClientTypeOK
<1>8. TimerCoversUnacked'
  BY DEF Ind, TimerFault, TimerCoversUnacked, ClientPhases, TypeOK,
     ClientTypeOK
<1>9. BoundariesOnPath'
  BY DEF Ind, TimerFault, BoundariesOnPath, Boundary, FirstHeld,
     FirstUnsent, ClientPhases, TypeOK, ClientTypeOK
<1>10. ServerConnected'
  BY DEF Ind, TimerFault, ServerConnected, FinAckSeen, FinAckOnPath,
     Opening, Boundary, FirstHeld, FirstUnsent, ClientPhases, TypeOK,
     ClientTypeOK
<1>11. ServerOpened'
  BY DEF Ind, TimerFault, ServerOpened, FinSent, SynAckOnPath, ClientPhases,
     TypeOK, ClientTypeOK
<1>12. ServerStream'
  BY DEF Ind, TimerFault, ServerStream, Stream, ClientPhases, TypeOK,
     ClientTypeOK
<1>13. StreamIntegrity'
  BY DEF Ind, TimerFault, StreamIntegrity, Stream, ClientPhases, TypeOK,
     ClientTypeOK
<1>14. FreedWasAccepted'
  BY DEF Ind, TimerFault, FreedWasAccepted, FirstHeld, Stream, ClientPhases,
     TypeOK, ClientTypeOK
<1> QED
  BY <1>1, <1>2, <1>3, <1>4, <1>5, <1>6, <1>7, <1>8, <1>9, <1>10, <1>11,
     <1>12, <1>13, <1>14 DEF Ind

\* A thread reads the freed TCB.
LEMMA UseAfterFreeStep ==
    ASSUME Ind, UseAfterFree, UNCHANGED serverVars
    PROVE  Ind'
<1>1. TypeOK'
  BY DEF Ind, UseAfterFree, PathTypeOK, ClientTypeOK, ServerTypeOK,
     ClientStates, ClientPcs, HandlerPcs, ServerStates, ServerPcs,
     ClientPhases, TypeOK
<1>2. ClientPhases'
  BY DEF Ind, UseAfterFree, ClientPhases, Opening, FinSent, TypeOK,
     ClientTypeOK
<1>3. RingOrdered'
  BY DEF Ind, UseAfterFree, RingOrdered, ClientPhases, TypeOK, ClientTypeOK
<1>4. AgesInRange'
  BY DEF Ind, UseAfterFree, AgesInRange, Oldest, Newest, Opening, FinSent,
     SynAckSeen, FinAckSeen, ClientPhases, TypeOK, ClientTypeOK
<1>5. Contents'
  BY DEF Ind, UseAfterFree, Contents, FinSent, ClientPhases, TypeOK,
     ClientTypeOK
<1>6. SendBufferSorted'
  BY DEF Ind, UseAfterFree, SendBufferSorted, Opening, ClientPhases, TypeOK,
     ClientTypeOK
<1>7. SendBufferOK'
  BY DEF Ind, UseAfterFree, SendBufferOK, ClientPhases, TypeOK, ClientTypeOK
<1>8. TimerCoversUnacked'
  BY DEF Ind, UseAfterFree, TimerCoversUnacked, ClientPhases, TypeOK,
     ClientTypeOK
<1>9. BoundariesOnPath'
  BY DEF Ind, UseAfterFree, BoundariesOnPath, Boundary, FirstHeld,
     FirstUnsent, ClientPhases, TypeOK, ClientTypeOK
<1>10. ServerConnected'
  BY DEF Ind, UseAfterFree, ServerConnected, FinAckSeen, FinAckOnPath,
     Opening, Boundary, FirstHeld, FirstUnsent, ClientPhases, TypeOK,
     ClientTypeOK
<1>11. ServerOpened'
  BY DEF Ind, UseAfterFree, ServerOpened, FinSent, SynAckOnPath,
     ClientPhases, TypeOK, ClientTypeOK
<1>12. ServerStream'
  BY DEF Ind, UseAfterFree, ServerStream, Stream, ClientPhases, TypeOK,
     ClientTypeOK
<1>13. StreamIntegrity'
  BY DEF Ind, UseAfterFree, StreamIntegrity, Stream, ClientPhases, TypeOK,
     ClientTypeOK
<1>14. FreedWasAccepted'
  BY DEF Ind, UseAfterFree, FreedWasAccepted, FirstHeld, Stream,
     ClientPhases, TypeOK, ClientTypeOK
<1> QED
  BY <1>1, <1>2, <1>3, <1>4, <1>5, <1>6, <1>7, <1>8, <1>9, <1>10, <1>11,
     <1>12, <1>13, <1>14 DEF Ind

\* close frees the TCB.
LEMMA ClientCloseStep ==
    ASSUME Ind, ClientClose, UNCHANGED serverVars
    PROVE  Ind'
<1>1. TypeOK'
  BY DEF Ind, ClientClose, PathTypeOK, ClientTypeOK, ServerTypeOK,
     ClientStates, ClientPcs, HandlerPcs, ServerStates, ServerPcs,
     ClientPhases, TypeOK
<1>2. ClientPhases'
  BY DEF Ind, ClientClose, ClientPhases, Opening, FinSent, TypeOK,
     ClientTypeOK
<1>3. RingOrdered'
  BY DEF Ind, ClientClose, RingOrdered, ClientPhases, TypeOK, ClientTypeOK
<1>4. AgesInRange'
  BY DEF Ind, ClientClose, AgesInRange, Oldest, Newest, Opening, FinSent,
     SynAckSeen, FinAckSeen, ClientPhases, TypeOK, ClientTypeOK
<1>5. Contents'
  BY DEF Ind, ClientClose, Contents, FinSent, ClientPhases, TypeOK,
     ClientTypeOK
<1>6. SendBufferSorted'
  BY DEF Ind, ClientClose, SendBufferSorted, Opening, ClientPhases, TypeOK,
     ClientTypeOK
<1>7. SendBufferOK'
  BY DEF Ind, ClientClose, SendBufferOK, ClientPhases, TypeOK, ClientTypeOK
<1>8. TimerCoversUnacked'
  BY DEF Ind, ClientClose, TimerCoversUnacked, ClientPhases, TypeOK,
     ClientTypeOK
<1>9. BoundariesOnPath'
  BY DEF Ind, ClientClose, BoundariesOnPath, Boundary, FirstHeld,
     FirstUnsent, ClientPhases, TypeOK, ClientTypeOK
<1>10. ServerConnected'
  BY DEF Ind, ClientClose, ServerConnected, FinAckSeen, FinAckOnPath,
     Opening, Boundary, FirstHeld, FirstUnsent, ClientPhases, TypeOK,
     ClientTypeOK
<1>11. ServerOpened'
  BY DEF Ind, ClientClose, ServerOpened, FinSent, SynAckOnPath,
     ClientPhases, TypeOK, ClientTypeOK
<1>12. ServerStream'
  BY DEF Ind, ClientClose, ServerStream, Stream, ClientPhases, TypeOK,
     ClientTypeOK
<1>13. StreamIntegrity'
  BY DEF Ind, ClientClose, StreamIntegrity, Stream, ClientPhases, TypeOK,
     ClientTypeOK
<1>14. FreedWasAccepted'
  BY DEF Ind, ClientClose, FreedWasAccepted, FirstHeld, Stream,
     ClientPhases, TypeOK, ClientTypeOK
<1> QED
  BY <1>1, <1>2, <1>3, <1>4, <1>5, <1>6, <1>7, <1>8, <1>9, <1>10, <1>11,
     <1>12, <1>13, <1>14 DEF Ind

\* send is called.
LEMMA SendStartStep ==
    ASSUME Ind, NEW length \in SendLengths, SendStart(length),
           UNCHANGED serverVars
    PROVE  Ind'
<1>1. TypeOK'
  BY ClientAssumption DEF Ind, SendStart, PathTypeOK, ClientTypeOK,
     ServerTypeOK, ClientStates, ClientPcs, HandlerPcs, ServerStates,
     ServerPcs, ClientPhases, TypeOK
<1>2. ClientPhases'
  BY ClientAssumption DEF Ind, SendStart, ClientPhases, Opening, FinSent,
     TypeOK, ClientTypeOK
<1>3. RingOrdered'
  BY DEF Ind, SendStart, RingOrdered, ClientPhases, TypeOK, ClientTypeOK
<1>4. AgesInRange'
  BY DEF Ind, SendStart, AgesInRange, Oldest, Newest, Opening, FinSent,
     SynAckSeen, FinAckSeen, ClientPhases, TypeOK, ClientTypeOK
<1>5. Contents'
  BY DEF Ind, SendStart, Contents, FinSent, ClientPhases, TypeOK,
     ClientTypeOK
<1>6. SendBufferSorted'
  BY DEF Ind, SendStart, SendBufferSorted, Opening, ClientPhases, TypeOK,
     ClientTypeOK
<1>7. SendBufferOK'
  BY DEF Ind, SendStart, SendBufferOK, ClientPhases, TypeOK, ClientTypeOK
<1>8. TimerCoversUnacked'
  BY DEF Ind, SendStart, TimerCoversUnacked, ClientPhases, TypeOK,
     ClientTypeOK
<1>9. BoundariesOnPath'
  BY DEF Ind, SendStart, BoundariesOnPath, Boundary, FirstHeld, FirstUnsent,
     ClientPhases, TypeOK, ClientTypeOK
<1>10. ServerConnected'
  BY DEF Ind, SendStart, ServerConnected, FinAckSeen, FinAckOnPath, Opening,
     Boundary, FirstHeld, FirstUnsent, ClientPhases, TypeOK, ClientTypeOK
<1>11. ServerOpened'
  BY DEF Ind, SendStart, ServerOpened, FinSent, SynAckOnPath, ClientPhases,
     TypeOK, ClientTypeOK
<1>12. ServerStream'
  BY DEF Ind, SendStart, ServerStream, Stream, ClientPhases, TypeOK,
     ClientTypeOK
<1>13. StreamIntegrity'
  BY DEF Ind, SendStart, StreamIntegrity, Stream, ClientPhases, TypeOK,
     ClientTypeOK
<1>14. FreedWasAccepted'
  BY DEF Ind, SendStart, FreedWasAccepted, FirstHeld, Stream, ClientPhases,
     TypeOK, ClientTypeOK
<1> QED
  BY <1>1, <1>2, <1>3, <1>4, <1>5, <1>6, <1>7, <1>8, <1>9, <1>10, <1>11,
     <1>12, <1>13, <1>14 DEF Ind

----
(* Steps that take a segment from the path *)

\* The network loses a segment on its way to the client, or seghandler
\* ignores it.
LEMMA LoseToClientStep ==
    ASSUME Ind, LoseToClient, UNCHANGED <<clientVars, serverVars>>
    PROVE  Ind'
<1>1. /\ Head(toClient) = toClient[1]
      /\ 1 \in Indices(toClient) /\ toClient[1] \in Segments
      /\ toClient' \in Seq(Segments) /\ Len(toClient') <= MaxInFlight
      /\ \A i \in Indices(toClient') :
           i + 1 \in Indices(toClient) /\ toClient'[i] = toClient[i + 1]
      /\ \A i \in Indices(toClient') : Age(toClient[1]) <= Age(toClient'[i])
      /\ \A i \in Indices(toServer) : Age(toClient[1]) <= Age(toServer[i])
      /\ RingOrdered'
  BY ClientTakes DEF LoseToClient
<1>2. conn \in Nat
  BY DEF Ind, TypeOK, ClientTypeOK

<1>3. toServer' = toServer
  BY DEF LoseToClient
<1>4. TypeOK'
  BY <1>1 DEF Ind, PathTypeOK, ClientTypeOK, ServerTypeOK, ClientStates,
     ClientPcs, HandlerPcs, ServerStates, ServerPcs, ClientPhases, TypeOK,
     LoseToClient
<1>5. ClientPhases'
  BY DEF Ind, ClientPhases, Opening, FinSent, TypeOK, ClientTypeOK
<1>6. RingOrdered'
  BY <1>1 DEF Ind, RingOrdered, ClientPhases, TypeOK, ClientTypeOK
<1>7. AgesInRange'
  BY <1>1, <1>3 DEF Ind, AgesInRange, Oldest, Newest, Opening, FinSent, SynAckSeen, FinAckSeen
<1>8. Contents'
  BY <1>1, <1>3 DEF Ind, Contents, FinSent
<1>9. SendBufferSorted'
  BY DEF Ind, SendBufferSorted, Opening, ClientPhases, TypeOK, ClientTypeOK
<1>10. SendBufferOK'
  BY DEF Ind, SendBufferOK, ClientPhases, TypeOK, ClientTypeOK
<1>11. TimerCoversUnacked'
  BY DEF Ind, TimerCoversUnacked, ClientPhases, TypeOK, ClientTypeOK
<1>12. BoundariesOnPath'
  <2>1. BoundariesOnPath
    BY DEF Ind
  <2>2. \A m : Boundary(m)' <=> Boundary(m)
    BY <1>3 DEF Boundary, FirstHeld, FirstUnsent
  <2> QED
    BY <1>1, <1>3, <2>1, <2>2 DEF BoundariesOnPath
<1>13. ServerConnected'
  <2>1. FinAckOnPath' => FinAckOnPath
    BY <1>1 DEF FinAckOnPath
  <2>2. \A m : Boundary(m)' <=> Boundary(m)
    BY <1>3 DEF Boundary, FirstHeld, FirstUnsent
  <2> QED
    BY <1>3, <2>1, <2>2 DEF Ind, ServerConnected, Opening, FinAckSeen
<1>14. ServerOpened'
  <2>1. SynAckOnPath' => SynAckOnPath
    BY <1>1 DEF SynAckOnPath
  <2> QED
    BY <1>3, <2>1 DEF Ind, ServerOpened, FinSent
<1>15. ServerStream'
  BY DEF Ind, ServerStream, Stream, ClientPhases, TypeOK, ClientTypeOK
<1>16. StreamIntegrity'
  BY DEF Ind, StreamIntegrity, Stream, ClientPhases, TypeOK, ClientTypeOK
<1>17. FreedWasAccepted'
  BY DEF Ind, FreedWasAccepted, FirstHeld, Stream, ClientPhases, TypeOK,
     ClientTypeOK
<1> QED
  BY <1>4, <1>5, <1>6, <1>7, <1>8, <1>9, <1>10, <1>11, <1>12, <1>13, <1>14,
     <1>15, <1>16, <1>17 DEF Ind

\* seghandler receives the SYNACK that connect waits for; it is the one of
\* this connection, and the server that sent it is still there.
LEMMA ReceiveSynAckStep ==
    ASSUME Ind, ReceiveSynAck, UNCHANGED serverVars
    PROVE  Ind'
<1>1. /\ Head(toClient) = toClient[1]
      /\ 1 \in Indices(toClient) /\ toClient[1] \in Segments
      /\ toClient' \in Seq(Segments) /\ Len(toClient') <= MaxInFlight
      /\ \A i \in Indices(toClient') :
           i + 1 \in Indices(toClient) /\ toClient'[i] = toClient[i + 1]
      /\ \A i \in Indices(toClient') : Age(toClient[1]) <= Age(toClient'[i])
      /\ \A i \in Indices(toServer) : Age(toClient[1]) <= Age(toServer[i])
      /\ RingOrdered'
  BY ClientTakes DEF ReceiveSynAck, ClientReceives
<1>2. conn \in Nat
  BY DEF Ind, TypeOK, ClientTypeOK

<1>3. /\ cState = "SYNSENT" /\ toClient[1].type = "SYNACK"
      /\ handler = "recv" /\ handler' = "synack"
      /\ UNCHANGED <<toServer, cState, svrKnown, buffer, cPc, retry, pending>>
      /\ UNCHANGED <<timers, cCrashed, history>>
  BY <1>1 DEF ReceiveSynAck, ClientReceives, AwaitsSynAck
<1>4. /\ Opening /\ ~FinSent /\ cPc /= "clear"
      /\ cPc \in {"synPoll", "synResend"}
      /\ Newest = 2 * conn /\ Oldest = 2 * conn - 1
  BY <1>2, <1>3 DEF Ind, ClientPhases, TypeOK, ClientTypeOK, ClientPcs, Opening, FinSent,
     Newest, Oldest, SynAckSeen, FinAckSeen
<1>5. sState = "CONNECTED" /\ Age(toClient[1]) = 2 * conn
  <2>1. Age(toClient[1]) = 2 * toClient[1].conn
    BY <1>1, <1>3 DEF Age, Segments
  <2>2. toClient[1].conn = conn
    BY SMTT(30), <1>1, <1>2, <1>4, <2>1, PathConns, PathAges
  <2>3. SynAckOnPath
    BY <1>1, <1>3, <2>2 DEF SynAckOnPath
  <2> QED
    BY <1>4, <2>1, <2>2, <2>3 DEF Ind, ServerOpened
<1>6. Oldest' = 2 * conn /\ Newest' = 2 * conn
  BY <1>2, <1>3, <1>4 DEF Opening, FinSent, Newest, Oldest, SynAckSeen, FinAckSeen
<1>7. TypeOK'
  BY <1>1, <1>3 DEF Ind, PathTypeOK, ClientTypeOK, ServerTypeOK,
     ClientStates, ClientPcs, HandlerPcs, ServerStates, ServerPcs,
     ClientPhases, TypeOK
<1>8. ClientPhases'
  BY <1>3, <1>4 DEF Ind, ClientPhases, Opening, FinSent
<1>9. RingOrdered'
  BY <1>1 DEF Ind, RingOrdered, ClientPhases, TypeOK, ClientTypeOK
<1>10. AgesInRange'
  BY <1>1, <1>2, <1>3, <1>4, <1>5, <1>6, PathAges DEF AgesInRange
<1>11. Contents'
  BY <1>1, <1>3 DEF Ind, Contents, FinSent
<1>12. SendBufferSorted'
  BY <1>3 DEF Ind, SendBufferSorted, Opening, ClientPhases, TypeOK,
     ClientTypeOK
<1>13. SendBufferOK'
  BY <1>3 DEF Ind, SendBufferOK, ClientPhases, TypeOK, ClientTypeOK
<1>14. TimerCoversUnacked'
  BY <1>3 DEF Ind, TimerCoversUnacked, ClientPhases, TypeOK, ClientTypeOK
<1>15. BoundariesOnPath'
  <2>1. BoundariesOnPath
    BY DEF Ind
  <2>2. \A m : Boundary(m)' <=> Boundary(m)
    BY <1>3 DEF Boundary, FirstHeld, FirstUnsent
  <2> QED
    BY <1>1, <1>3, <2>1, <2>2 DEF BoundariesOnPath
<1>16. ServerConnected'
  <2>1. FinAckOnPath' => FinAckOnPath
    BY <1>1, <1>3 DEF FinAckOnPath
  <2>2. \A m : Boundary(m)' <=> Boundary(m)
    BY <1>3 DEF Boundary, FirstHeld, FirstUnsent
  <2> QED
    BY <1>3, <1>5, <2>1, <2>2 DEF Ind, ServerConnected, Opening, FinAckSeen
<1>17. ServerOpened'
  BY <1>3, <1>5 DEF ServerOpened
<1>18. ServerStream'
  BY <1>3 DEF Ind, ServerStream, Stream, ClientPhases, TypeOK, ClientTypeOK
<1>19. StreamIntegrity'
  BY <1>3 DEF Ind, StreamIntegrity, Stream, ClientPhases, TypeOK,
     ClientTypeOK
<1>20. FreedWasAccepted'
  BY <1>3 DEF Ind, FreedWasAccepted, FirstHeld, Stream, ClientPhases,
     TypeOK, ClientTypeOK
<1> QED
  BY <1>7, <1>8, <1>9, <1>10, <1>11, <1>12, <1>13, <1>14, <1>15, <1>16,
     <1>17, <1>18, <1>19, <1>20 DEF Ind

\* seghandler receives the FINACK that disconnect waits for; it is the one of
\* this connection, and the server that sent it has left.
LEMMA ReceiveFinAckStep ==
    ASSUME Ind, ReceiveFinAck, UNCHANGED serverVars
    PROVE  Ind'
<1>1. /\ Head(toClient) = toClient[1]
      /\ 1 \in Indices(toClient) /\ toClient[1] \in Segments
      /\ toClient' \in Seq(Segments) /\ Len(toClient') <= MaxInFlight
      /\ \A i \in Indices(toClient') :
           i + 1 \in Indices(toClient) /\ toClient'[i] = toClient[i + 1]
      /\ \A i \in Indices(toClient') : Age(toClient[1]) <= Age(toClient'[i])
      /\ \A i \in Indices(toServer) : Age(toClient[1]) <= Age(toServer[i])
      /\ RingOrdered'
  BY ClientTakes DEF ReceiveFinAck, ClientReceives
<1>2. conn \in Nat
  BY DEF Ind, TypeOK, ClientTypeOK

<1>3. /\ cState = "FINWAIT" /\ toClient[1].type = "FINACK"
      /\ handler = "recv" /\ handler' = "finack"
      /\ UNCHANGED <<toServer, cState, svrKnown, buffer, cPc, retry, pending>>
      /\ UNCHANGED <<timers, cCrashed, history>>
  BY <1>1 DEF ReceiveFinAck, ClientReceives
<1>4. /\ ~Opening /\ FinSent /\ cPc \in {"finPoll", "finResend"} /\ ~dirty
      /\ Newest = 2 * conn + 1 /\ Oldest = 2 * conn
  BY <1>2, <1>3 DEF Ind, ClientPhases, TypeOK, ClientTypeOK, ClientPcs, Opening, FinSent,
     Newest, Oldest, SynAckSeen, FinAckSeen
<1>5. sState /= "CONNECTED" /\ Age(toClient[1]) = 2 * conn + 1
  <2>1. Age(toClient[1]) = 2 * toClient[1].conn + 1
    BY <1>1, <1>3 DEF Age, Segments
  <2>2. toClient[1].conn = conn
    BY <1>1, <1>2, <1>4, <2>1, PathConns, PathAges
  <2>3. FinAckOnPath
    BY <1>1, <1>3, <2>2 DEF FinAckOnPath
  <2> QED
    BY <1>4, <2>1, <2>2, <2>3 DEF Ind, ServerConnected
<1>6. Oldest' = 2 * conn + 1 /\ Newest' = 2 * conn + 1
  BY <1>2, <1>3, <1>4 DEF Opening, FinSent, Newest, Oldest, SynAckSeen, FinAckSeen
<1>7. TypeOK'
  BY <1>1, <1>3 DEF Ind, PathTypeOK, ClientTypeOK, ServerTypeOK,
     ClientStates, ClientPcs, HandlerPcs, ServerStates, ServerPcs,
     ClientPhases, TypeOK
<1>8. ClientPhases'
  BY <1>3, <1>4 DEF Ind, ClientPhases, Opening, FinSent
<1>9. RingOrdered'
  BY <1>1 DEF Ind, RingOrdered, ClientPhases, TypeOK, ClientTypeOK
<1>10. AgesInRange'
  BY <1>1, <1>2, <1>3, <1>4, <1>5, <1>6, PathAges DEF AgesInRange
<1>11. Contents'
  BY <1>1, <1>3 DEF Ind, Contents, FinSent
<1>12. SendBufferSorted'
  BY <1>3 DEF Ind, SendBufferSorted, Opening, ClientPhases, TypeOK,
     ClientTypeOK
<1>13. SendBufferOK'
  BY <1>3 DEF Ind, SendBufferOK, ClientPhases, TypeOK, ClientTypeOK
<1>14. TimerCoversUnacked'
  BY <1>3 DEF Ind, TimerCoversUnacked, ClientPhases, TypeOK, ClientTypeOK
<1>15. BoundariesOnPath'
  <2>1. BoundariesOnPath
    BY DEF Ind
  <2>2. \A m : Boundary(m)' <=> Boundary(m)
    BY <1>3 DEF Boundary, FirstHeld, FirstUnsent
  <2> QED
    BY <1>1, <1>3, <2>1, <2>2 DEF BoundariesOnPath
<1>16. ServerConnected'
  BY <1>3, <1>5 DEF ServerConnected
<1>17. ServerOpened'
  BY <1>3, <1>4 DEF ServerOpened, FinSent
<1>18. ServerStream'
  BY <1>3 DEF Ind, ServerStream, Stream, ClientPhases, TypeOK, ClientTypeOK
<1>19. StreamIntegrity'
  BY <1>3 DEF Ind, StreamIntegrity, Stream, ClientPhases, TypeOK,
     ClientTypeOK
<1>20. FreedWasAccepted'
  BY <1>3 DEF Ind, FreedWasAccepted, FirstHeld, Stream, ClientPhases,
     TypeOK, ClientTypeOK
<1> QED
  BY <1>7, <1>8, <1>9, <1>10, <1>11, <1>12, <1>13, <1>14, <1>15, <1>16,
     <1>17, <1>18, <1>19, <1>20 DEF Ind

\* seghandler sets the state it had decided on.
LEMMA SetStateStep ==
    ASSUME Ind, SetState, UNCHANGED serverVars
    PROVE  Ind'
<1>1. conn \in Nat /\ expect_seqNum \in Nat /\ next_seqNum \in Nat
  BY DEF Ind, TypeOK, ClientTypeOK, ServerTypeOK
<1>2. /\ cState /= "FREE" /\ handler' = "recv"
      /\ \/ handler = "synack" /\ cState' = "CONNECTED" /\ Opening
         \/ handler = "finack" /\ cState' = "CLOSED" /\ FinSent
  BY DEF SetState, Ind, ClientPhases
<1>3. TypeOK'
  BY DEF Ind, SetState, PathTypeOK, ClientTypeOK, ServerTypeOK,
     ClientStates, ClientPcs, HandlerPcs, ServerStates, ServerPcs,
     ClientPhases, TypeOK
<1>4. ClientPhases'
  BY DEF Ind, SetState, ClientPhases, Opening, FinSent, TypeOK, ClientTypeOK
<1>5. RingOrdered'
  BY DEF Ind, SetState, RingOrdered, ClientPhases, TypeOK, ClientTypeOK
<1>6. AgesInRange'
  <2>1. Oldest' <= Oldest /\ Newest <= Newest'
    <3>1. CASE handler = "synack"
      BY <1>1, <1>2, <3>1 DEF SetState, Ind, ClientPhases, Oldest, Newest, Opening, FinSent, SynAckSeen, FinAckSeen
    <3>2. CASE handler = "finack"
      BY <1>1, <1>2, <3>2 DEF SetState, Ind, ClientPhases, Oldest, Newest, Opening, FinSent, SynAckSeen, FinAckSeen
    <3> QED
      BY <1>2, <3>1, <3>2
  <2>2. Newest' \in Int /\ Oldest' \in Int /\ UNCHANGED path
    BY <1>1 DEF SetState, Oldest, Newest
  <2> QED
    BY <2>1, <2>2, PathAges DEF AgesInRange
<1>7. Contents'
  BY DEF Ind, SetState, Contents, FinSent, ClientPhases, TypeOK,
     ClientTypeOK
<1>8. SendBufferSorted'
  BY DEF Ind, SetState, SendBufferSorted, Opening, ClientPhases, TypeOK,
     ClientTypeOK
<1>9. SendBufferOK'
  BY DEF Ind, SetState, SendBufferOK, ClientPhases, TypeOK, ClientTypeOK
<1>10. TimerCoversUnacked'
  BY DEF Ind, SetState, TimerCoversUnacked, ClientPhases, TypeOK,
     ClientTypeOK
<1>11. BoundariesOnPath'
  BY DEF Ind, SetState, BoundariesOnPath, Boundary, FirstHeld, FirstUnsent,
     ClientPhases, TypeOK, ClientTypeOK
<1>12. ServerConnected'
  BY DEF Ind, SetState, ServerConnected, FinAckSeen, FinAckOnPath, Opening,
     Boundary, FirstHeld, FirstUnsent, ClientPhases, TypeOK, ClientTypeOK
<1>13. ServerOpened'
  BY DEF Ind, SetState, ServerOpened, FinSent, SynAckOnPath, ClientPhases,
     TypeOK, ClientTypeOK
<1>14. ServerStream'
  BY DEF Ind, SetState, ServerStream, Stream, ClientPhases, TypeOK,
     ClientTypeOK
<1>15. StreamIntegrity'
  BY DEF Ind, SetState, StreamIntegrity, Stream, ClientPhases, TypeOK,
     ClientTypeOK
<1>16. FreedWasAccepted'
  <2>1. SUFFICES ASSUME cState' = "CONNECTED"
                 PROVE  FirstHeld' <= Len(Stream')
    BY DEF FreedWasAccepted
  <2>2. handler = "synack" /\ Opening /\ ~FinSent
    BY <1>2, <2>1 DEF Ind, ClientPhases, Opening, FinSent
  <2>3. FirstHeld' = 0
    BY <2>2 DEF SetState, Ind, SendBufferSorted, FirstHeld
  <2>4. sState = "CONNECTED"
    BY <2>2 DEF Ind, ServerOpened
  <2>5. Len(Stream') = expect_seqNum
    BY <2>4 DEF SetState, Ind, ServerStream, Stream
  <2> QED
    BY <1>1, <2>3, <2>5
<1> QED
  BY <1>3, <1>4, <1>5, <1>6, <1>7, <1>8, <1>9, <1>10, <1>11, <1>12, <1>13,
     <1>14, <1>15, <1>16 DEF Ind

----
(* Steps that change or send what the send buffer holds *)

\* Boundaries are integers, and a sent segment ends at the next boundary.
LEMMA BufferFacts ==
    ASSUME Ind
    PROVE  /\ sendBuf \in Seq(Segments) /\ Len(sendBuf) \in Nat /\ conn \in Nat
           /\ unAck_segNum \in Nat /\ unSent \in Nat /\ next_seqNum \in Nat
           /\ unAck_segNum <= Len(sendBuf) /\ unAck_segNum <= GBN_WINDOW
           /\ unSent = IF unAck_segNum < Len(sendBuf)
                       THEN unAck_segNum + 1 ELSE 0
           /\ \A i \in 1..Len(sendBuf) :
                /\ sendBuf[i] \in Segments /\ sendBuf[i].type = "DATA"
                /\ sendBuf[i].seq_num \in Nat /\ sendBuf[i].length \in Nat \ {0}
                /\ sendBuf[i].conn = IF cPc = "clear" THEN conn - 1 ELSE conn
           /\ cPc /= "clear" => \A i \in 1..Len(sendBuf) :
                sendBuf[i].seq_num + sendBuf[i].length =
                  IF i < Len(sendBuf) THEN sendBuf[i + 1].seq_num ELSE next_seqNum
           /\ \A i, j \in 1..Len(sendBuf) : i < j =>
                sendBuf[i].seq_num + sendBuf[i].length <= sendBuf[j].seq_num
<1>1. ClientTypeOK /\ SendBufferOK /\ SendBufferSorted
  BY DEF Ind, TypeOK
<1>2. \A i \in 1..Len(sendBuf) :
        /\ sendBuf[i] \in Segments
        /\ sendBuf[i].seq_num \in Nat /\ sendBuf[i].length \in Nat
  <2>1. \A i \in 1..Len(sendBuf) : sendBuf[i] \in Segments
    BY <1>1 DEF ClientTypeOK
  <2> QED
    BY <2>1 DEF Segments
<1> QED
  BY <1>1, <1>2 DEF ClientTypeOK, SendBufferOK, SendBufferSorted, Indices

\* sendBuf_send, called by send or by seghandler after an acknowledgement.
LEMMA SendBufSendStep ==
    ASSUME Ind, SendReturn \/ HandlerSend, UNCHANGED serverVars
    PROVE  Ind'
<1> DEFINE n == SendCount
<1>1. /\ SendBufSend /\ toClient' = toClient /\ ~Opening /\ cPc /= "clear"
      /\ UNCHANGED <<cState, svrKnown, retry, pending, cCrashed, conn, dirty>>
      /\ \/ cPc = "send" /\ cPc' = "idle" /\ handler' = handler
         \/ handler = "send" /\ handler' = "recv" /\ cPc' = cPc
  BY DEF SendReturn, HandlerSend, Ind, ClientPhases, Opening
<1>2. /\ n \in Nat
      /\ n > 0 => unSent = unAck_segNum + 1
      /\ unAck_segNum + n <= Len(sendBuf) /\ unAck_segNum + n <= GBN_WINDOW
  <2>1. /\ unAck_segNum \in Nat /\ unSent \in Nat /\ Len(sendBuf) \in Nat
        /\ unAck_segNum <= Len(sendBuf) /\ unAck_segNum <= GBN_WINDOW
        /\ unSent = IF unAck_segNum < Len(sendBuf) THEN unAck_segNum + 1 ELSE 0
        /\ GBN_WINDOW \in Nat
    BY BufferFacts, ClientAssumption
  <2> QED
    BY <2>1 DEF SendCount
<1> HIDE DEF n
<1>3. /\ toServer' = Enqueue(toServer, SubSeq(sendBuf, unSent, unSent + n - 1))
      /\ unAck_segNum' = unAck_segNum + n
      /\ unSent' = IF n > 0 /\ unSent + n > Len(sendBuf) THEN 0 ELSE unSent + n
      /\ asleep' = IF n > 0 /\ unAck_segNum = 0 THEN asleep + 1 ELSE asleep
      /\ UNCHANGED <<next_seqNum, sendBuf, awake>>
  BY <1>1 DEF n, SendBufSend, UnsentAfter, StartsTimer
<1>4. /\ toServer' \in Seq(Segments) /\ Len(toServer') <= MaxInFlight
      /\ \A i \in Indices(toServer') :
           \/ i \in Indices(toServer) /\ toServer'[i] = toServer[i]
           \/ \E k \in unSent..(unSent + n - 1) : toServer'[i] = sendBuf[k]
      /\ RingOrdered'
  <2>1. /\ unSent \in Int /\ unSent + n - 1 \in Int
        /\ unSent <= unSent + n - 1 =>
             1 <= unSent /\ unSent + n - 1 <= Len(sendBuf)
    BY <1>2, BufferFacts
  <2> QED
    BY <1>1, <1>3, <2>1, SendHeld
<1>5. unSent' = IF unAck_segNum' < Len(sendBuf) THEN unAck_segNum' + 1 ELSE 0
  BY <1>2, <1>3, BufferFacts
<1>6. \A k \in unSent..(unSent + n - 1) :
        /\ k \in 1..Len(sendBuf) /\ k <= unAck_segNum'
        /\ sendBuf[k].type = "DATA" /\ sendBuf[k].length > 0
        /\ sendBuf[k].conn = conn /\ Age(sendBuf[k]) = 2 * conn + 1
        /\ Boundary(sendBuf[k].seq_num + sendBuf[k].length)'
  <2>1. SUFFICES ASSUME NEW k \in unSent..(unSent + n - 1)
        PROVE /\ k \in 1..Len(sendBuf) /\ k <= unAck_segNum'
              /\ sendBuf[k].type = "DATA" /\ sendBuf[k].length > 0
              /\ sendBuf[k].conn = conn /\ Age(sendBuf[k]) = 2 * conn + 1
              /\ Boundary(sendBuf[k].seq_num + sendBuf[k].length)'
    OBVIOUS
  <2>2. k \in 1..Len(sendBuf) /\ k <= unAck_segNum'
    BY SMTT(30), <1>2, <1>3, BufferFacts
  <2>3. /\ sendBuf[k].type = "DATA" /\ sendBuf[k].length > 0
        /\ sendBuf[k].conn = conn /\ Age(sendBuf[k]) = 2 * conn + 1
    BY <1>1, <2>2, BufferFacts DEF Age
  <2>4. sendBuf[k].seq_num + sendBuf[k].length =
          IF k < Len(sendBuf) THEN sendBuf[k + 1].seq_num ELSE next_seqNum
    BY <1>1, <2>2, BufferFacts
  <2>5. Boundary(sendBuf[k].seq_num + sendBuf[k].length)'
    <3>1. CASE k < unAck_segNum'
      <4>1. k + 1 \in 1..unAck_segNum' /\ k < Len(sendBuf)
        BY SMTT(30), <1>2, <1>3, <2>2, <3>1, BufferFacts
      <4>2. sendBuf[k].seq_num + sendBuf[k].length = sendBuf'[k + 1].seq_num
        BY <1>3, <2>4, <4>1
      <4> QED
        BY <1>3, <4>1, <4>2 DEF Boundary
    <3>2. CASE k = unAck_segNum'
      BY SMTT(30), <1>2, <1>3, <1>5, <2>2, <2>4, <3>2, BufferFacts DEF Boundary, FirstUnsent
    <3> QED
      BY <1>2, <1>3, <2>2, <3>1, <3>2, BufferFacts
  <2> QED
    BY <2>2, <2>3, <2>5
<1>7. \A m : Boundary(m) => Boundary(m)'
  <2>1. SUFFICES ASSUME NEW m, Boundary(m) PROVE Boundary(m)'
    OBVIOUS
  <2>2. FirstHeld' = FirstHeld
    BY <1>3 DEF FirstHeld
  <2>3. CASE n = 0
    <3>1. unSent' = unSent /\ unAck_segNum' = unAck_segNum
      BY <1>3, <2>3, BufferFacts
    <3> QED
      BY <1>3, <2>1, <2>2, <3>1 DEF Boundary, FirstUnsent
  <2>4. CASE n > 0
    <3>1. /\ unSent \in 1..unAck_segNum' /\ FirstUnsent = sendBuf'[unSent].seq_num
          /\ \A i \in 1..unAck_segNum : i \in 1..unAck_segNum'
      BY <1>2, <1>3, <2>4, BufferFacts DEF FirstUnsent
    <3> QED
      BY <1>3, <2>1, <2>2, <3>1 DEF Boundary
  <2> QED
    BY <1>2, <2>3, <2>4
<1>8. /\ Opening' = Opening /\ FinSent' = FinSent /\ Newest' = Newest
      /\ Oldest' = Oldest /\ FinAckSeen' = FinAckSeen /\ cPc' /= "clear"
      /\ Newest = 2 * conn + 1 /\ Oldest <= 2 * conn + 1
  BY <1>1, BufferFacts DEF Opening, FinSent, Newest, Oldest, SynAckSeen, FinAckSeen,
     Ind, ClientPhases
<1>9. TypeOK'
  <2>1. unAck_segNum' \in Nat /\ unSent' \in Nat /\ asleep' \in Nat
    BY <1>2, <1>3, <1>5, BufferFacts DEF Ind, TypeOK, ClientTypeOK
  <2> QED
    BY <1>1, <1>3, <1>4, <2>1
       DEF Ind, TypeOK, PathTypeOK, ClientTypeOK, ServerTypeOK, ClientPcs, HandlerPcs
<1>10. ClientPhases'
  BY <1>1, <1>8 DEF Ind, ClientPhases, Opening, FinSent, TypeOK,
     ClientTypeOK
<1>11. RingOrdered'
  BY <1>4 DEF Ind, RingOrdered, ClientPhases, TypeOK, ClientTypeOK
<1>12. AgesInRange'
  <2>1. Oldest' \in Int /\ Newest' \in Int
    BY <1>8, PathAges
  <2> QED
    BY <1>1, <1>4, <1>6, <1>8, <2>1, PathAges DEF AgesInRange
<1>13. Contents'
  BY <1>1, <1>4, <1>6, <1>8 DEF Ind, Contents, FinSent, ClientPhases,
     TypeOK, ClientTypeOK
<1>14. SendBufferSorted'
  BY <1>1, <1>3, <1>8 DEF Ind, SendBufferSorted, Opening, ClientPhases,
     TypeOK, ClientTypeOK
<1>15. SendBufferOK'
  BY <1>1, <1>2, <1>3, <1>5 DEF Ind, SendBufferOK, ClientPhases, TypeOK,
     ClientTypeOK
<1>16. TimerCoversUnacked'
  BY <1>1, <1>2, <1>3, BufferFacts DEF Ind, TimerCoversUnacked,
     ClientPhases, TypeOK, ClientTypeOK
<1>17. BoundariesOnPath'
  <2>1. BoundariesOnPath
    BY DEF Ind
  <2> QED
    BY <1>1, <1>3, <1>4, <1>6, <1>7, <2>1 DEF BoundariesOnPath
<1>18. ServerConnected'
  <2>1. FinAckOnPath' <=> FinAckOnPath
    BY <1>1 DEF FinAckOnPath
  <2>2. \A k \in unSent..(unSent + n - 1) :
          Age(sendBuf[k]) >= 2 * conn /\ Age(sendBuf[k]) > 2 * conn
    BY <1>6, BufferFacts
  <2> QED
    BY <1>1, <1>4, <1>7, <1>8, <2>1, <2>2 DEF Ind, ServerConnected
<1>19. ServerOpened'
  BY <1>1, <1>8 DEF Ind, ServerOpened, FinSent, SynAckOnPath, ClientPhases,
     TypeOK, ClientTypeOK
<1>20. ServerStream'
  BY <1>1 DEF Ind, ServerStream, Stream, ClientPhases, TypeOK, ClientTypeOK
<1>21. StreamIntegrity'
  BY <1>1 DEF Ind, StreamIntegrity, Stream, ClientPhases, TypeOK,
     ClientTypeOK
<1>22. FreedWasAccepted'
  BY <1>1, <1>3 DEF Ind, FreedWasAccepted, FirstHeld, Stream, ClientPhases,
     TypeOK, ClientTypeOK
<1> QED
  BY <1>9, <1>10, <1>11, <1>12, <1>13, <1>14, <1>15, <1>16, <1>17, <1>18,
     <1>19, <1>20, <1>21, <1>22 DEF Ind

\* A timer thread resends what waits for an acknowledgement, or does not.
LEMMA TimerResendStep ==
    ASSUME Ind, TimerResend, UNCHANGED serverVars
    PROVE  Ind'
<1>1. /\ UNCHANGED <<toClient, cState, svrKnown, buffer, cPc, retry, pending>>
      /\ UNCHANGED <<handler, cCrashed, history>>
      /\ Opening' = Opening /\ FinSent' = FinSent /\ Newest' = Newest
      /\ Oldest' = Oldest /\ FinAckSeen' = FinAckSeen
      /\ \A m : Boundary(m)' <=> Boundary(m)
  BY DEF TimerResend, Opening, FinSent, Newest, Oldest, SynAckSeen, FinAckSeen,
     Boundary, FirstHeld, FirstUnsent
<1>2. /\ toServer' \in Seq(Segments) /\ Len(toServer') <= MaxInFlight
      /\ \A i \in Indices(toServer') :
           \/ i \in Indices(toServer) /\ toServer'[i] = toServer[i]
           \/ /\ cPc /= "clear" /\ ~Opening
              /\ \E k \in 1..unAck_segNum : toServer'[i] = sendBuf[k]
      /\ RingOrdered'
  <2>1. ~Opening
    BY DEF TimerResend, Ind, SendBufferSorted
  <2>2. CASE svrKnown /\ toServer' = Enqueue(toServer, TimeoutSegments)
    <3>1. cPc /= "clear"
      BY <2>2 DEF Ind, ClientPhases
    <3> QED
      BY <1>1, <2>1, <2>2, <3>1, BufferFacts, SendHeld DEF TimeoutSegments
  <2>3. CASE toServer' = toServer
    BY <1>1, <2>3, PathAges DEF Ind, RingOrdered
  <2> QED
    BY <2>2, <2>3 DEF TimerResend
<1>3. cPc /= "clear" => \A k \in 1..unAck_segNum :
        /\ sendBuf[k].type = "DATA" /\ sendBuf[k].length > 0
        /\ sendBuf[k].conn = conn /\ Age(sendBuf[k]) = 2 * conn + 1
        /\ Boundary(sendBuf[k].seq_num + sendBuf[k].length)
  <2>1. SUFFICES ASSUME cPc /= "clear", NEW k \in 1..unAck_segNum
        PROVE /\ sendBuf[k].type = "DATA" /\ sendBuf[k].length > 0
              /\ sendBuf[k].conn = conn /\ Age(sendBuf[k]) = 2 * conn + 1
              /\ Boundary(sendBuf[k].seq_num + sendBuf[k].length)
    OBVIOUS
  <2>2. /\ sendBuf[k].type = "DATA" /\ sendBuf[k].length > 0
        /\ sendBuf[k].conn = conn /\ Age(sendBuf[k]) = 2 * conn + 1
    BY SMTT(30), <2>1, BufferFacts DEF Age
  <2>3. sendBuf[k].seq_num + sendBuf[k].length =
          IF k < Len(sendBuf) THEN sendBuf[k + 1].seq_num ELSE next_seqNum
    <3>1. k \in 1..Len(sendBuf)
      BY <2>1, BufferFacts
    <3> QED
      BY <2>1, <3>1, BufferFacts
  <2>4. Boundary(sendBuf[k].seq_num + sendBuf[k].length)
    <3>1. CASE k < unAck_segNum
      <4>1. k + 1 \in 1..unAck_segNum /\ k < Len(sendBuf)
        BY <2>1, <3>1, BufferFacts
      <4> QED
        BY <2>3, <4>1 DEF Boundary
    <3>2. CASE k = unAck_segNum
      BY <2>1, <2>3, <3>2, BufferFacts DEF Boundary, FirstUnsent
    <3> QED
      BY <3>1, <3>2, BufferFacts
  <2> QED
    BY <2>2, <2>4
<1>4. ~Opening /\ cPc /= "clear" => Newest = 2 * conn + 1 /\ Oldest <= 2 * conn + 1
  BY BufferFacts DEF Newest, Oldest
<1>5. TypeOK'
  BY <1>1, <1>2 DEF Ind, PathTypeOK, ClientTypeOK, ServerTypeOK,
     ClientStates, ClientPcs, HandlerPcs, ServerStates, ServerPcs,
     ClientPhases, TypeOK, TimerResend
<1>6. ClientPhases'
  BY <1>1 DEF Ind, ClientPhases, Opening, FinSent, TypeOK, ClientTypeOK
<1>7. RingOrdered'
  BY <1>2 DEF Ind, RingOrdered, ClientPhases, TypeOK, ClientTypeOK
<1>8. AgesInRange'
  BY <1>1, <1>2, <1>3, <1>4, PathAges DEF AgesInRange
<1>9. Contents'
  BY <1>1, <1>2, <1>3 DEF Ind, Contents, FinSent, ClientPhases, TypeOK,
     ClientTypeOK
<1>10. SendBufferSorted'
  BY <1>1 DEF Ind, SendBufferSorted, Opening, ClientPhases, TypeOK,
     ClientTypeOK
<1>11. SendBufferOK'
  BY <1>1 DEF Ind, SendBufferOK, ClientPhases, TypeOK, ClientTypeOK
<1>12. TimerCoversUnacked'
  BY <1>1 DEF Ind, TimerCoversUnacked, ClientPhases, TypeOK, ClientTypeOK,
     TimerResend
<1>13. BoundariesOnPath'
  <2>1. BoundariesOnPath
    BY DEF Ind
  <2> QED
    BY <1>1, <1>2, <1>3, <2>1 DEF BoundariesOnPath
<1>14. ServerConnected'
  <2>1. FinAckOnPath' <=> FinAckOnPath
    BY <1>1 DEF FinAckOnPath
  <2>2. cPc /= "clear" => \A k \in 1..unAck_segNum :
          Age(sendBuf[k]) >= 2 * conn /\ Age(sendBuf[k]) > 2 * conn
    BY <1>3, BufferFacts
  <2> QED
    BY <1>1, <1>2, <2>1, <2>2 DEF Ind, ServerConnected
<1>15. ServerOpened'
  BY <1>1 DEF Ind, ServerOpened, FinSent, SynAckOnPath, ClientPhases,
     TypeOK, ClientTypeOK
<1>16. ServerStream'
  BY <1>1 DEF Ind, ServerStream, Stream, ClientPhases, TypeOK, ClientTypeOK
<1>17. StreamIntegrity'
  BY <1>1 DEF Ind, StreamIntegrity, Stream, ClientPhases, TypeOK,
     ClientTypeOK
<1>18. FreedWasAccepted'
  BY <1>1 DEF Ind, FreedWasAccepted, FirstHeld, Stream, ClientPhases,
     TypeOK, ClientTypeOK
<1> QED
  BY <1>5, <1>6, <1>7, <1>8, <1>9, <1>10, <1>11, <1>12, <1>13, <1>14, <1>15,
     <1>16, <1>17, <1>18 DEF Ind

\* sendBuf_addSeg appends the next segment of the bytes that send was given.
LEMMA AddSegStep ==
    ASSUME Ind, AddSeg, UNCHANGED serverVars
    PROVE  Ind'
<1> DEFINE length == IF pending < MAX_SEG_LEN THEN pending ELSE MAX_SEG_LEN
           seg == Data(next_seqNum, length, conn)
<1>1. /\ cPc = "addSeg" /\ cState = "CONNECTED" /\ ~dirty
      /\ pending \in Nat /\ pending > 0
      /\ length \in Nat \ {0} /\ length <= pending
  BY ClientAssumption DEF AddSeg, Ind, ClientPhases, TypeOK, ClientTypeOK
<1>2. /\ sendBuf' = Append(sendBuf, seg) /\ next_seqNum' = next_seqNum + length
      /\ unSent' = IF unSent = 0 THEN Len(sendBuf) + 1 ELSE unSent
      /\ pending' = pending - length
      /\ cPc' = IF pending = length THEN "send" ELSE "addSeg"
      /\ UNCHANGED <<path, cState, svrKnown, unAck_segNum, retry, handler>>
      /\ UNCHANGED <<timers, cCrashed, history>>
  BY DEF AddSeg
<1> HIDE DEF length
<1>3. /\ seg \in Segments /\ seg.type = "DATA" /\ seg.seq_num = next_seqNum
      /\ seg.length = length /\ seg.conn = conn
  <2>1. next_seqNum \in Nat /\ length \in Nat /\ conn \in Nat
    BY <1>1, BufferFacts
  <2> QED
    BY <2>1, SegmentFacts
<1> HIDE DEF seg
<1>4. /\ sendBuf' \in Seq(Segments) /\ Len(sendBuf') = Len(sendBuf) + 1
      /\ \A i \in 1..Len(sendBuf) : sendBuf'[i] = sendBuf[i]
      /\ sendBuf'[Len(sendBuf) + 1] = seg
      /\ next_seqNum' \in Nat /\ pending' \in Nat /\ unSent' \in Nat
      /\ cPc' \in {"addSeg", "send"}
  <2>1. /\ sendBuf \in Seq(Segments) /\ next_seqNum \in Nat
        /\ unSent \in Nat /\ Len(sendBuf) \in Nat
    BY BufferFacts
  <2> QED
    BY <1>1, <1>2, <1>3, <2>1
<1>5. unSent' = IF unAck_segNum < Len(sendBuf') THEN unAck_segNum + 1 ELSE 0
  BY <1>2, <1>4, BufferFacts
<1>6. FirstHeld' = FirstHeld
  <2>1. CASE sendBuf = << >>
    <3>1. Len(sendBuf) = 0
      BY <2>1
    <3>2. Len(sendBuf') = 1 /\ sendBuf'[1] = seg
      BY <1>4, <3>1
    <3>3. sendBuf' /= << >>
      BY <3>2
    <3>4. sendBuf'[1].seq_num = next_seqNum
      BY <1>3, <3>2
    <3> QED
      BY <2>1, <3>3, <3>4 DEF FirstHeld
  <2>2. CASE sendBuf /= << >>
    <3>1. sendBuf' /= << >> /\ sendBuf'[1] = sendBuf[1]
      BY <1>4, <2>2, BufferFacts
    <3> QED
      BY <2>2, <3>1 DEF FirstHeld
  <2> QED
    BY <2>1, <2>2
<1>7. FirstUnsent' = FirstUnsent
  <2>1. CASE unSent = 0
    <3>1. unSent' = Len(sendBuf) + 1 /\ unSent' /= 0
      BY <1>2, <2>1, BufferFacts
    <3> QED
      BY <1>3, <1>4, <2>1, <3>1 DEF FirstUnsent
  <2>2. CASE unSent /= 0
    <3>1. unSent' = unSent /\ unSent \in 1..Len(sendBuf)
      BY <1>2, <2>2, BufferFacts
    <3> QED
      BY <1>4, <2>2, <3>1 DEF FirstUnsent
  <2> QED
    BY <2>1, <2>2
<1>8. \A m : Boundary(m)' <=> Boundary(m)
  <2>1. \A i \in 1..unAck_segNum : sendBuf'[i] = sendBuf[i]
    BY <1>4, BufferFacts
  <2> QED
    BY <1>2, <1>6, <1>7, <2>1 DEF Boundary
<1>9. /\ ~Opening /\ ~Opening' /\ FinSent' = FinSent /\ FinAckSeen' = FinAckSeen
      /\ Newest' = Newest /\ Oldest' = Oldest
  BY <1>1, <1>2, <1>4 DEF Opening, FinSent, FinAckSeen, SynAckSeen, Newest, Oldest
<1>10. TypeOK'
  BY <1>2, <1>4 DEF Ind, PathTypeOK, ClientTypeOK, ServerTypeOK,
     ClientStates, ClientPcs, HandlerPcs, ServerStates, ServerPcs,
     ClientPhases, TypeOK
<1>11. ClientPhases'
  BY <1>1, <1>2, <1>9 DEF Ind, ClientPhases, FinSent
<1>12. RingOrdered'
  BY <1>2 DEF Ind, RingOrdered, ClientPhases, TypeOK, ClientTypeOK
<1>13. AgesInRange'
  BY <1>2, <1>9 DEF Ind, AgesInRange
<1>14. Contents'
  BY <1>2, <1>9 DEF Ind, Contents
<1>15. SendBufferSorted'
  <2>1. \A i \in 1..Len(sendBuf) :
          sendBuf[i].seq_num + sendBuf[i].length <= next_seqNum
    BY <1>1 DEF Ind, SendBufferSorted, Indices
  <2>2. \A i \in 1..Len(sendBuf') : i \in 1..Len(sendBuf) \/ i = Len(sendBuf) + 1
    BY <1>4, BufferFacts
  <2>3. ASSUME NEW i \in 1..Len(sendBuf')
        PROVE  /\ sendBuf'[i].type = "DATA" /\ sendBuf'[i].length > 0
               /\ sendBuf'[i].conn = conn
               /\ sendBuf'[i].seq_num + sendBuf'[i].length <= next_seqNum'
    <3>1. CASE i \in 1..Len(sendBuf)
      <4>1. /\ sendBuf[i].seq_num \in Nat /\ sendBuf[i].length \in Nat \ {0}
            /\ sendBuf[i].type = "DATA" /\ sendBuf[i].conn = conn /\ next_seqNum \in Nat
        BY <1>1, <3>1, BufferFacts
      <4> QED
        BY <1>1, <1>2, <1>4, <2>1, <3>1, <4>1
    <3>2. CASE i = Len(sendBuf) + 1
      BY <1>1, <1>2, <1>3, <1>4, <3>2, BufferFacts
    <3> QED
      BY <2>2, <3>1, <3>2
  <2>4. ASSUME NEW i \in 1..Len(sendBuf'), NEW j \in 1..Len(sendBuf'), i < j
        PROVE  sendBuf'[i].seq_num + sendBuf'[i].length <= sendBuf'[j].seq_num
    <3>1. i \in 1..Len(sendBuf)
      BY <1>4, <2>4, BufferFacts
    <3>2. CASE j \in 1..Len(sendBuf)
      BY <1>4, <2>4, <3>1, <3>2, BufferFacts
    <3>3. CASE j = Len(sendBuf) + 1
      BY <1>3, <1>4, <2>1, <3>1, <3>3
    <3> QED
      BY <2>2, <3>2, <3>3
  <2> QED
    BY <1>2, <1>4, <1>9, <2>3, <2>4 DEF SendBufferSorted, Indices
<1>16. SendBufferOK'
  <2>1. ASSUME NEW i \in 1..Len(sendBuf')
        PROVE  sendBuf'[i].seq_num + sendBuf'[i].length =
                 IF i < Len(sendBuf') THEN sendBuf'[i + 1].seq_num ELSE next_seqNum'
    <3>1. CASE i < Len(sendBuf)
      <4>1. i \in 1..Len(sendBuf) /\ i + 1 \in 1..Len(sendBuf) /\ i < Len(sendBuf')
        BY <1>4, <3>1, BufferFacts
      <4> QED
        BY <1>1, <1>4, <3>1, <4>1, BufferFacts
    <3>2. CASE i = Len(sendBuf)
      <4>1. i \in 1..Len(sendBuf) /\ i < Len(sendBuf')
        BY <1>4, <3>2, BufferFacts
      <4>2. sendBuf[i].seq_num + sendBuf[i].length = next_seqNum
        BY <1>1, <3>2, <4>1, BufferFacts
      <4> QED
        BY <1>3, <1>4, <3>2, <4>1, <4>2
    <3>3. CASE i = Len(sendBuf) + 1
      BY <1>1, <1>2, <1>3, <1>4, <3>3, BufferFacts
    <3> QED
      BY <1>4, <3>1, <3>2, <3>3, BufferFacts
  <2>2. unAck_segNum <= GBN_WINDOW /\ unAck_segNum <= Len(sendBuf')
    BY <1>4, BufferFacts, ClientAssumption
  <2> QED
    BY <1>2, <1>5, <2>1, <2>2 DEF SendBufferOK
<1>17. TimerCoversUnacked'
  BY <1>2 DEF Ind, TimerCoversUnacked
<1>18. BoundariesOnPath'
  <2>1. BoundariesOnPath
    BY DEF Ind
  <2> QED
    BY <1>2, <1>8, <2>1 DEF BoundariesOnPath
<1>19. ServerConnected'
  <2>1. FinAckOnPath' <=> FinAckOnPath
    BY <1>2 DEF FinAckOnPath
  <2> QED
    BY <1>2, <1>4, <1>8, <1>9, <2>1 DEF Ind, ServerConnected
<1>20. ServerOpened'
  BY <1>2, <1>9 DEF Ind, ServerOpened, SynAckOnPath
<1>21. ServerStream'
  BY DEF Ind, ServerStream, Stream
<1>22. StreamIntegrity'
  BY DEF Ind, StreamIntegrity, Stream
<1>23. FreedWasAccepted'
  BY <1>2, <1>6 DEF Ind, FreedWasAccepted, Stream
<1> QED
  BY <1>10, <1>11, <1>12, <1>13, <1>14, <1>15, <1>16, <1>17, <1>18, <1>19,
     <1>20, <1>21, <1>22, <1>23 DEF Ind

\* disconnect wakes up: with the FINACK received it leaves the connection
\* behind.
LEMMA DisconnectPollStep ==
    ASSUME Ind, DisconnectPoll, UNCHANGED serverVars
    PROVE  Ind'
<1>1. cState = "CLOSED" => sState /= "CONNECTED"
  BY DEF DisconnectPoll, Ind, ServerConnected, FinAckSeen
<1>2. Newest = 2 * conn + 1 /\ conn \in Nat
  BY DEF DisconnectPoll, Newest, Opening, Ind, ClientPhases, TypeOK, ClientTypeOK
<1>3. cState = "CLOSED" => Oldest = 2 * conn + 1
  BY DEF DisconnectPoll, Oldest, FinAckSeen
<1>4. TypeOK'
  <2>1. next_seqNum' \in Nat /\ conn' \in Nat
    BY <1>2, BufferFacts DEF DisconnectPoll
  <2>2. cPc' \in ClientPcs
    BY DEF DisconnectPoll, ClientPcs
  <2>3. svrKnown' \in BOOLEAN
    BY DEF DisconnectPoll, Ind, TypeOK, ClientTypeOK
  <2> QED
    BY <2>1, <2>2, <2>3 DEF DisconnectPoll, Ind, TypeOK, PathTypeOK, ClientTypeOK, ServerTypeOK
<1>5. ClientPhases'
  BY DEF Ind, DisconnectPoll, ClientPhases, Opening, FinSent, TypeOK,
     ClientTypeOK
<1>6. RingOrdered'
  BY DEF Ind, DisconnectPoll, RingOrdered, ClientPhases, TypeOK,
     ClientTypeOK
<1>7. AgesInRange'
  <2>1. Newest = 2 * conn + 1 /\ conn \in Nat
    BY <1>2
  <2>2. Oldest' = Oldest /\ Newest' = Newest
    <3>1. CASE cState = "CLOSED"
      BY <2>1, <3>1 DEF DisconnectPoll, Ind, ClientPhases, Newest, Oldest, Opening, FinSent,
         SynAckSeen, FinAckSeen
    <3>2. CASE cState /= "CLOSED"
      BY <2>1, <3>2 DEF DisconnectPoll, Ind, ClientPhases, Newest, Oldest, Opening, FinSent,
         SynAckSeen, FinAckSeen
    <3> QED
      BY <3>1, <3>2
  <2> QED
    BY <2>2 DEF DisconnectPoll, Ind, AgesInRange
<1>8. Contents'
  <2>1. \A i \in Indices(toServer) : toServer[i].conn <= conn
    BY <1>2, PathConns
  <2> QED
    BY <2>1, BufferFacts DEF DisconnectPoll, Ind, Contents, FinSent
<1>9. SendBufferSorted'
  BY SMTT(30), BufferFacts DEF Ind, DisconnectPoll, SendBufferSorted, Opening,
     ClientPhases, TypeOK, ClientTypeOK
<1>10. SendBufferOK'
  BY DEF Ind, DisconnectPoll, SendBufferOK, ClientPhases, TypeOK,
     ClientTypeOK
<1>11. TimerCoversUnacked'
  BY DEF Ind, DisconnectPoll, TimerCoversUnacked, ClientPhases, TypeOK,
     ClientTypeOK
<1>12. BoundariesOnPath'
  <2>1. CASE cState = "CLOSED"
    <3>1. \A i \in Indices(toServer) : toServer[i].conn <= conn
      BY <1>2, PathConns
    <3>2. \A i \in Indices(toClient) : toClient[i].conn <= conn
      BY <1>2, PathConns
    <3> QED
      BY <2>1, <3>1, <3>2, BufferFacts DEF DisconnectPoll, BoundariesOnPath
  <2>2. CASE cState /= "CLOSED"
    <3>1. \A m : Boundary(m)' <=> Boundary(m)
      BY <2>2 DEF DisconnectPoll, Boundary, FirstHeld, FirstUnsent
    <3> QED
      BY <2>2, <3>1 DEF DisconnectPoll, Ind, BoundariesOnPath
  <2> QED
    BY <2>1, <2>2
<1>13. ServerConnected'
  <2>1. CASE cState = "CLOSED"
    BY <1>1, <2>1 DEF DisconnectPoll, ServerConnected
  <2>2. CASE cState /= "CLOSED"
    <3>1. \A m : Boundary(m)' <=> Boundary(m)
      BY <2>2 DEF DisconnectPoll, Boundary, FirstHeld, FirstUnsent
    <3>2. FinAckOnPath' <=> FinAckOnPath
      BY <2>2 DEF DisconnectPoll, FinAckOnPath
    <3> QED
      BY <2>2, <3>1, <3>2 DEF DisconnectPoll, Ind, ServerConnected, Opening, FinAckSeen
  <2> QED
    BY <2>1, <2>2
<1>14. ServerOpened'
  <2>1. CASE cState = "CLOSED"
    <3>1. \A i \in Indices(toClient) : toClient[i].conn /= conn + 1
      BY <1>2, PathConns
    <3>2. ~SynAckOnPath'
      BY <2>1, <3>1 DEF DisconnectPoll, SynAckOnPath
    <3> QED
      BY <2>1, <3>2 DEF DisconnectPoll, Ind, ClientPhases, ServerOpened, FinSent
  <2>2. CASE cState /= "CLOSED"
    BY <2>2 DEF DisconnectPoll, Ind, ClientPhases, ServerOpened, FinSent, SynAckOnPath
  <2> QED
    BY <2>1, <2>2
<1>15. ServerStream'
  BY DEF Ind, DisconnectPoll, ServerStream, Stream, ClientPhases, TypeOK,
     ClientTypeOK
<1>16. StreamIntegrity'
  BY DEF Ind, DisconnectPoll, StreamIntegrity, Stream, ClientPhases, TypeOK,
     ClientTypeOK
<1>17. FreedWasAccepted'
  BY DEF Ind, DisconnectPoll, FreedWasAccepted, FirstHeld, Stream,
     ClientPhases, TypeOK, ClientTypeOK
<1> QED
  BY <1>4, <1>5, <1>6, <1>7, <1>8, <1>9, <1>10, <1>11, <1>12, <1>13, <1>14,
     <1>15, <1>16, <1>17 DEF Ind

\* disconnect clears the send buffer.
LEMMA SendBufClearStep ==
    ASSUME Ind, SendBufClear, UNCHANGED serverVars
    PROVE  Ind'
<1>1. /\ cPc = "clear" /\ cPc' = "idle" /\ conn \in Nat
      /\ Newest = 2 * conn - 1 /\ Opening' /\ ~FinSent /\ ~FinSent'
  BY BufferFacts DEF SendBufClear, Ind, ClientPhases, Newest, Opening, FinSent
<1>2. /\ \A i \in Indices(toServer) : toServer[i].conn < conn
      /\ \A i \in Indices(toClient) : toClient[i].conn < conn
  BY <1>1, PathConns
<1>3. TypeOK'
  BY DEF Ind, SendBufClear, PathTypeOK, ClientTypeOK, ServerTypeOK,
     ClientStates, ClientPcs, HandlerPcs, ServerStates, ServerPcs,
     ClientPhases, TypeOK
<1>4. ClientPhases'
  BY DEF Ind, SendBufClear, ClientPhases, Opening, FinSent, TypeOK,
     ClientTypeOK
<1>5. RingOrdered'
  BY DEF Ind, SendBufClear, RingOrdered, ClientPhases, TypeOK, ClientTypeOK
<1>6. AgesInRange'
  <2>1. Oldest' = Oldest /\ Newest <= Newest' /\ Oldest' \in Int /\ Newest' \in Int
    BY <1>1 DEF SendBufClear, Ind, ClientPhases, Oldest, Newest, SynAckSeen, FinAckSeen, FinSent
  <2>2. UNCHANGED path
    BY DEF SendBufClear
  <2> QED
    BY <2>1, <2>2, PathAges DEF AgesInRange
<1>7. Contents'
  BY <1>1 DEF SendBufClear, Ind, Contents
<1>8. SendBufferSorted'
  <2>1. next_seqNum = 0
    BY DEF SendBufClear, Ind, SendBufferSorted
  <2> QED
    BY <2>1 DEF SendBufClear, SendBufferSorted, Indices
<1>9. SendBufferOK'
  BY ClientAssumption DEF SendBufClear, SendBufferOK
<1>10. TimerCoversUnacked'
  BY DEF Ind, SendBufClear, TimerCoversUnacked, ClientPhases, TypeOK,
     ClientTypeOK
<1>11. BoundariesOnPath'
  BY <1>1, <1>2 DEF SendBufClear, BoundariesOnPath
<1>12. ServerConnected'
  BY DEF SendBufClear, Ind, ServerConnected
<1>13. ServerOpened'
  <2>1. ~SynAckOnPath'
    BY <1>1, <1>2 DEF SendBufClear, SynAckOnPath
  <2> QED
    BY <1>1, <2>1 DEF SendBufClear, Ind, ClientPhases, ServerOpened
<1>14. ServerStream'
  BY DEF Ind, SendBufClear, ServerStream, Stream, ClientPhases, TypeOK,
     ClientTypeOK
<1>15. StreamIntegrity'
  BY DEF Ind, SendBufClear, StreamIntegrity, Stream, ClientPhases, TypeOK,
     ClientTypeOK
<1>16. FreedWasAccepted'
  BY DEF Ind, SendBufClear, FreedWasAccepted, FirstHeld, Stream,
     ClientPhases, TypeOK, ClientTypeOK
<1> QED
  BY <1>3, <1>4, <1>5, <1>6, <1>7, <1>8, <1>9, <1>10, <1>11, <1>12, <1>13,
     <1>14, <1>15, <1>16 DEF Ind

\* Where the segment at position p of the send buffer starts, or would start.
Start(p) == IF p <= Len(sendBuf) THEN sendBuf[p].seq_num ELSE next_seqNum

\* An acknowledgement points to where a segment starts, so what is freed is what
\* was sent, and the buffer then starts where the acknowledgement points.
LEMMA AcknowledgedFacts ==
    ASSUME Ind, cPc /= "clear", sendBuf /= << >>,
           NEW ack \in Nat, Boundary(ack), ack >= sendBuf[1].seq_num,
           NEW n \in 0..Len(sendBuf), Acknowledges(n, ack)
    PROVE  n <= unAck_segNum /\ Start(n + 1) = ack
<1>1. /\ \A i \in 1..Len(sendBuf) : sendBuf[i].seq_num \in Nat
      /\ \A i \in 1..Len(sendBuf) : sendBuf[i].seq_num < next_seqNum
      /\ \A i, j \in 1..Len(sendBuf) :
           i < j => sendBuf[i].seq_num < sendBuf[j].seq_num
      /\ Len(sendBuf) \in Nat \ {0} /\ 1 \in 1..Len(sendBuf)
  <2>1. \A i \in 1..Len(sendBuf) :
          sendBuf[i].seq_num + sendBuf[i].length <= next_seqNum
    BY DEF Ind, SendBufferSorted, Indices
  <2>2. Len(sendBuf) \in Nat \ {0} /\ next_seqNum \in Nat
    BY BufferFacts
  <2>3. \A i \in 1..Len(sendBuf) :
          sendBuf[i].seq_num \in Nat /\ sendBuf[i].length \in Nat \ {0}
    BY BufferFacts
  <2>4. \A i, j \in 1..Len(sendBuf) : i < j =>
                sendBuf[i].seq_num + sendBuf[i].length <= sendBuf[j].seq_num
    BY BufferFacts
  <2>5. \A i, j \in 1..Len(sendBuf) :
           i < j => sendBuf[i].seq_num < sendBuf[j].seq_num
    <3>1. SUFFICES ASSUME NEW i \in 1..Len(sendBuf), NEW j \in 1..Len(sendBuf), i < j
                   PROVE  sendBuf[i].seq_num < sendBuf[j].seq_num
      OBVIOUS
    <3>2. sendBuf[i].seq_num + sendBuf[i].length <= sendBuf[j].seq_num
      BY <2>4, <3>1
    <3>3. /\ sendBuf[i].seq_num \in Nat /\ sendBuf[i].length \in Nat \ {0}
          /\ sendBuf[j].seq_num \in Nat
      BY <2>3
    <3> QED
      BY <3>2, <3>3
  <2> QED
    BY <2>1, <2>2, <2>3, <2>5
<1>2. PICK p \in 1..(unAck_segNum + 1) : ack = Start(p)
  <2>1. CASE ack <= FirstHeld
    <3>1. ack = Start(1) /\ 1 \in 1..(unAck_segNum + 1)
      BY <1>1, <2>1, BufferFacts DEF FirstHeld, Start
    <3> QED
      BY <3>1
  <2>2. CASE ack = FirstUnsent
    <3>1. ack = Start(unAck_segNum + 1) /\ unAck_segNum + 1 \in 1..(unAck_segNum + 1)
      BY <2>2, BufferFacts DEF FirstUnsent, Start
    <3> QED
      BY <3>1
  <2>3. CASE \E i \in 1..unAck_segNum : ack = sendBuf[i].seq_num
    BY <2>3, BufferFacts DEF Start
  <2> QED
    BY <2>1, <2>2, <2>3 DEF Boundary
<1>3. /\ \A i \in 1..n : sendBuf[i].seq_num < ack
      /\ n < Len(sendBuf) => sendBuf[n + 1].seq_num >= ack
      /\ n \in Nat /\ p \in Nat \ {0} /\ p <= unAck_segNum + 1
      /\ unAck_segNum \in Nat /\ unAck_segNum <= Len(sendBuf)
  BY BufferFacts DEF Acknowledges
<1>4. ~(p <= n)
  BY <1>1, <1>2, <1>3 DEF Start
<1>5. ~(n + 1 < p)
  <2>1. SUFFICES ASSUME n + 1 < p PROVE FALSE
    OBVIOUS
  <2>2. n + 1 \in 1..Len(sendBuf) /\ n < Len(sendBuf)
    BY <1>3, <2>1
  <2>3. sendBuf[n + 1].seq_num < Start(p)
    BY <1>1, <1>3, <2>1, <2>2 DEF Start
  <2> QED
    BY <1>1, <1>2, <1>3, <2>2, <2>3
<1>6. p = n + 1
  BY <1>3, <1>4, <1>5
<1> QED
  BY <1>2, <1>3, <1>6

\* seghandler receives an acknowledgement and frees what it covers.
LEMMA ReceiveDataAckStep ==
    ASSUME Ind, ReceiveDataAck, UNCHANGED serverVars
    PROVE  Ind'
<1> DEFINE ack == Head(toClient).ack_num
<1>1. /\ cState = "CONNECTED" /\ sendBuf /= << >> /\ handler = "recv" /\ handler' = "send"
      /\ toClient /= << >> /\ toClient' = Tail(toClient) /\ toServer' = toServer
      /\ Head(toClient).type = "DATAACK" /\ ack >= sendBuf[1].seq_num
      /\ UNCHANGED <<cState, svrKnown, next_seqNum, cPc, retry, pending>>
      /\ UNCHANGED <<timers, cCrashed, history>>
  BY DEF ReceiveDataAck, ClientReceives
<1>2. PICK n \in 0..Len(sendBuf) :
        /\ Acknowledges(n, ack)
        /\ sendBuf' = SubSeq(sendBuf, n + 1, Len(sendBuf))
        /\ unAck_segNum' = unAck_segNum - n
        /\ unSent' = IF unSent = 0 THEN 0 ELSE unSent - n
  BY DEF ReceiveDataAck
<1>3. /\ Head(toClient) = toClient[1]
      /\ 1 \in Indices(toClient) /\ toClient[1] \in Segments
      /\ toClient' \in Seq(Segments) /\ Len(toClient') <= MaxInFlight
      /\ \A i \in Indices(toClient') :
           i + 1 \in Indices(toClient) /\ toClient'[i] = toClient[i + 1]
      /\ RingOrdered'
  BY <1>1, ClientTakes
<1>4. ~Opening /\ cPc /= "clear" /\ ~FinSent /\ conn \in Nat
  BY <1>1, BufferFacts DEF Ind, ClientPhases, SendBufferSorted, FinSent
<1>5. toClient[1].conn = conn
  <2>1. Newest = 2 * conn + 1 /\ 2 * conn <= Oldest /\ Oldest \in Int
    BY <1>1, <1>4 DEF Newest, Oldest, SynAckSeen
  <2>2. Age(toClient[1]) = 2 * toClient[1].conn + 1
    BY <1>1, <1>3 DEF Age
  <2> QED
    BY SMTT(30), <1>3, <1>4, <2>1, <2>2, PathConns, PathAges
<1>6. ack \in Nat /\ Boundary(ack) /\ ack <= expect_seqNum /\ sState = "CONNECTED"
  <2>1. sState = "CONNECTED"
    BY <1>1, <1>4 DEF Ind, ServerOpened
  <2>2. ack \in Nat
    BY <1>3 DEF Segments
  <2> QED
    BY <1>1, <1>3, <1>5, <2>1, <2>2 DEF Ind, BoundariesOnPath
<1>7. n <= unAck_segNum /\ Start(n + 1) = ack
  BY <1>1, <1>2, <1>4, <1>6, AcknowledgedFacts
<1> HIDE DEF ack
<1>8. /\ sendBuf' \in Seq(Segments) /\ Len(sendBuf') = Len(sendBuf) - n
      /\ Len(sendBuf') \in Nat /\ n \in Nat
      /\ \A i \in 1..Len(sendBuf') :
           i + n \in 1..Len(sendBuf) /\ sendBuf'[i] = sendBuf[i + n]
  <2>1. sendBuf \in Seq(Segments) /\ Len(sendBuf) \in Nat
    BY BufferFacts
  <2> QED
    BY <1>2, <2>1
<1>9. unSent' = IF unAck_segNum' < Len(sendBuf') THEN unAck_segNum' + 1 ELSE 0
  BY <1>2, <1>7, <1>8, BufferFacts
<1>10. unAck_segNum' \in Nat /\ unSent' \in Nat
  BY SMTT(30), <1>2, <1>7, <1>8, <1>9, BufferFacts
<1>11. FirstHeld' = ack
  <2>1. CASE n < Len(sendBuf)
    <3>1. Len(sendBuf') > 0 /\ sendBuf'[1] = sendBuf[n + 1]
      BY <1>8, <2>1
    <3>2. sendBuf' /= << >>
      BY <3>1
    <3> QED
      BY <1>7, <1>8, <2>1, <3>1, <3>2 DEF FirstHeld, Start
  <2>2. CASE n = Len(sendBuf)
    <3>1. sendBuf' = << >>
      BY <1>8, <2>2
    <3> QED
      BY <1>1, <1>7, <1>8, <2>2, <3>1 DEF FirstHeld, Start
  <2> QED
    BY <1>2, <2>1, <2>2
<1>12. FirstUnsent' = FirstUnsent
  <2>1. CASE unSent = 0
    BY <1>1, <1>2, <2>1 DEF FirstUnsent
  <2>2. CASE unSent /= 0
    <3>1. unSent' /= 0 /\ unSent' \in 1..Len(sendBuf') /\ unSent' + n = unSent
      BY SMTT(30), <1>2, <1>7, <1>8, <1>9, <2>2, BufferFacts
    <3> QED
      BY <1>8, <2>2, <3>1 DEF FirstUnsent
  <2> QED
    BY <2>1, <2>2
<1>13. ASSUME NEW m \in Nat, Boundary(m) PROVE Boundary(m)'
  <2>1. CASE m <= FirstHeld
    <3>1. FirstHeld <= ack
      BY <1>1 DEF FirstHeld, ack
    <3>2. FirstHeld \in Nat
      <4>1. 1 \in 1..Len(sendBuf)
        BY <1>1, BufferFacts
      <4> QED
        BY <1>1, <4>1, BufferFacts DEF FirstHeld
    <3> QED
      BY <1>6, <1>11, <2>1, <3>1, <3>2 DEF Boundary
  <2>2. CASE m = FirstUnsent
    BY <1>12, <2>2 DEF Boundary
  <2>3. ASSUME NEW i \in 1..unAck_segNum, m = sendBuf[i].seq_num
        PROVE  Boundary(m)'
    <3>1. CASE i <= n
      <4>1. m < ack
        BY <1>2, <1>8, <2>3, <3>1 DEF Acknowledges
      <4> QED
        BY <1>6, <1>11, <4>1 DEF Boundary
    <3>2. CASE i > n
      <4>1. i - n \in 1..unAck_segNum' /\ i - n \in 1..Len(sendBuf') /\ (i - n) + n = i
        BY SMTT(30), <1>2, <1>8, <2>3, <3>2, BufferFacts
      <4>2. m = sendBuf'[i - n].seq_num
        BY <1>8, <2>3, <4>1
      <4> QED
        BY <4>1, <4>2 DEF Boundary
    <3> QED
      BY <1>8, <2>3, <3>1, <3>2
  <2> QED
    BY <1>13, <2>1, <2>2, <2>3 DEF Boundary
<1>14. /\ Opening' = Opening /\ FinSent' = FinSent /\ FinAckSeen' = FinAckSeen
       /\ Newest' = Newest /\ Oldest' = Oldest
  BY <1>1 DEF Opening, FinSent, FinAckSeen, SynAckSeen, Newest, Oldest
<1>15. \A i \in Indices(toServer) :
         /\ toServer[i].seq_num + toServer[i].length \in Nat
         /\ toServer[i].ack_num \in Nat
  <2>1. \A seg \in Segments : seg.seq_num + seg.length \in Nat /\ seg.ack_num \in Nat
    BY DEF Segments
  <2> QED
    BY <2>1, PathAges, IndexFacts
<1>16. \A i \in Indices(toClient) : toClient[i].ack_num \in Nat
  <2>1. \A seg \in Segments : seg.ack_num \in Nat
    BY DEF Segments
  <2> QED
    BY <2>1, PathAges, IndexFacts
<1>17. TypeOK'
  BY <1>1, <1>3, <1>8, <1>10 DEF Ind, PathTypeOK, ClientTypeOK,
     ServerTypeOK, ClientStates, ClientPcs, HandlerPcs, ServerStates,
     ServerPcs, ClientPhases, TypeOK
<1>18. ClientPhases'
  BY <1>1, <1>4, <1>14 DEF Ind, ClientPhases
<1>19. RingOrdered'
  BY <1>3 DEF Ind, RingOrdered, ClientPhases, TypeOK, ClientTypeOK
<1>20. AgesInRange'
  BY <1>1, <1>3, <1>14 DEF Ind, AgesInRange
<1>21. Contents'
  BY <1>1, <1>3, <1>14 DEF Ind, Contents
<1>22. SendBufferSorted'
  <2>1. \A i \in 1..Len(sendBuf) :
          sendBuf[i].seq_num + sendBuf[i].length <= next_seqNum
    BY <1>4 DEF Ind, SendBufferSorted, Indices
  <2>2. \A i \in 1..Len(sendBuf') :
          /\ sendBuf'[i].type = "DATA" /\ sendBuf'[i].length > 0
          /\ sendBuf'[i].conn = conn
          /\ sendBuf'[i].seq_num + sendBuf'[i].length <= next_seqNum
    BY SMTT(30), <1>4, <1>8, <2>1, BufferFacts
  <2>3. ASSUME NEW i \in 1..Len(sendBuf'), NEW j \in 1..Len(sendBuf'), i < j
        PROVE  sendBuf'[i].seq_num + sendBuf'[i].length <= sendBuf'[j].seq_num
    <3>1. /\ i + n \in 1..Len(sendBuf) /\ j + n \in 1..Len(sendBuf) /\ i + n < j + n
          /\ sendBuf'[i] = sendBuf[i + n] /\ sendBuf'[j] = sendBuf[j + n]
      BY <1>8, <2>3
    <3> QED
      BY <3>1, BufferFacts
  <2> QED
    BY <1>1, <1>4, <1>14, <2>2, <2>3 DEF SendBufferSorted, Indices
<1>23. SendBufferOK'
  <2>1. ASSUME NEW i \in 1..Len(sendBuf')
        PROVE  sendBuf'[i].seq_num + sendBuf'[i].length =
                 IF i < Len(sendBuf') THEN sendBuf'[i + 1].seq_num ELSE next_seqNum
    <3>1. sendBuf[i + n].seq_num + sendBuf[i + n].length =
                 IF i + n < Len(sendBuf) THEN sendBuf[i + n + 1].seq_num ELSE next_seqNum
      BY <1>4, <1>8, <2>1, BufferFacts
    <3>2. CASE i < Len(sendBuf')
      <4>1. i + 1 \in 1..Len(sendBuf') /\ (i + 1) + n = i + n + 1 /\ i + n < Len(sendBuf)
        BY <1>8, <2>1, <3>2
      <4> QED
        BY <1>8, <2>1, <3>1, <3>2, <4>1
    <3>3. CASE i = Len(sendBuf')
      <4>1. ~(i + n < Len(sendBuf))
        BY <1>8, <2>1, <3>3, BufferFacts
      <4> QED
        BY <1>8, <2>1, <3>1, <3>3, <4>1
    <3> QED
      BY <1>8, <2>1, <3>2, <3>3
  <2>2. unAck_segNum' <= GBN_WINDOW /\ unAck_segNum' <= Len(sendBuf')
    BY <1>2, <1>7, <1>8, BufferFacts, ClientAssumption
  <2> QED
    BY <1>1, <1>9, <2>1, <2>2 DEF SendBufferOK
<1>24. TimerCoversUnacked'
  BY <1>1, <1>2, <1>8, BufferFacts DEF Ind, TimerCoversUnacked
<1>25. BoundariesOnPath'
  <2>1. BoundariesOnPath
    BY DEF Ind
  <2> QED
    BY <1>1, <1>3, <1>13, <1>15, <1>16, <2>1 DEF BoundariesOnPath
<1>26. ServerConnected'
  <2>1. FinAckOnPath' => FinAckOnPath
    BY <1>1, <1>3 DEF FinAckOnPath
  <2>2. expect_seqNum \in Nat
    BY DEF Ind, TypeOK, ServerTypeOK
  <2> QED
    BY <1>1, <1>13, <1>14, <2>1, <2>2 DEF Ind, ServerConnected
<1>27. ServerOpened'
  BY <1>6 DEF ServerOpened
<1>28. ServerStream'
  BY DEF Ind, ServerStream, Stream
<1>29. StreamIntegrity'
  BY DEF Ind, StreamIntegrity, Stream
<1>30. FreedWasAccepted'
  BY <1>6, <1>11 DEF Ind, FreedWasAccepted, ServerStream, Stream
<1> QED
  BY <1>17, <1>18, <1>19, <1>20, <1>21, <1>22, <1>23, <1>24, <1>25, <1>26,
     <1>27, <1>28, <1>29, <1>30 DEF Ind
====
