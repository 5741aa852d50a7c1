---- MODULE Srt ----
(***************************************************************************)
(* One SRT client and one SRT server joined by the lossy FIFO path, and    *)
(* what the two promise together.                                          *)
(***************************************************************************)
EXTENDS SrtClient, SrtServer

vars == <<path, clientVars, serverVars>>

Init == PathInit /\ ClientInit /\ ServerInit

Next ==
    \/ ClientNext /\ UNCHANGED serverVars
    \/ ServerNext /\ UNCHANGED clientVars
    \/ (LoseToServer \/ LoseToClient) /\ UNCHANGED <<clientVars, serverVars>>

Spec == Init /\ [][Next]_vars

TypeOK == PathTypeOK /\ ClientTypeOK /\ ServerTypeOK
----
(* Fairness.  Threads that are inside a call or a handler keep running and *)
(* the polling threads wake up.  A segment sent or answered again and      *)
(* again gets through in the end: seglost draws each loss independently.   *)
(* The application starts calls as it likes, except that the server's goes *)
(* on receiving while it is connected.                                     *)

ClientContinues ==
    \/ ConnectPoll \/ ConnectResend \/ AddSeg \/ SendReturn
    \/ DisconnectPoll \/ SendBufClear \/ DisconnectResend

ServerContinues ==
    \/ AcceptReturn \/ (\E length \in RecvLengths : Recv(length))
    \/ RecvPoll \/ RecvCopy \/ RecvFault

Alone(ClientAction) == ~cCrashed /\ ClientAction /\ UNCHANGED serverVars
AtServer(ServerAction) == ~sCrashed /\ ServerAction /\ UNCHANGED clientVars

Fairness ==
    /\ WF_vars(Alone(ClientContinues))
    /\ WF_vars(Alone(ClientHandler))
    /\ WF_vars(Alone(TimerPoll))
    /\ WF_vars(Alone(TimerFault))
    /\ WF_vars(AtServer(ServerContinues))
    /\ WF_vars(AtServer(ServerHandler))
    /\ WF_vars(AtServer(CloseWaitExpire))
    /\ SF_vars(Alone(TimerResend /\ toServer' /= toServer))
    /\ SF_vars(AtServer(SaveData))
    /\ SF_vars(AtServer(RepeatAck /\ toClient' /= toClient))
    /\ SF_vars(Alone(ReceiveDataAck /\ sendBuf' /= sendBuf))

FairSpec == Spec /\ Fairness
----
(* Safety *)

\* What the server side has of the connection: the bytes recv has returned
\* and those that wait in recvBuf.
Stream == IF sState \in {"CONNECTED", "CLOSEWAIT"}
          THEN delivered \o recvBuf ELSE << >>

\* The server's stream is the beginning of what was written on the connection
\* it answers: no byte is missing, repeated, out of order or left over from an
\* earlier connection, whatever is lost, resent or acknowledged late
\* (data_received, savedata, syn_received, closewait, sendBuf_timeout).
StreamIntegrity ==
    Stream = [i \in 1..Len(Stream) |-> <<sConn, i - 1>>]

\* The pointers of the send buffer agree: the unAck_segNum segments in front
\* were sent, at most GBN_WINDOW of them, sendBufunSent is the next one or
\* NULL, and the buffer is a contiguous run of sequence numbers that ends at
\* next_seqNum, however addSeg, send and recvAck interleave.  disconnect
\* resets next_seqNum before it clears the buffer.
SendBufferOK ==
    /\ unAck_segNum <= GBN_WINDOW
    /\ unAck_segNum <= Len(sendBuf)
    /\ unSent = IF unAck_segNum < Len(sendBuf) THEN unAck_segNum + 1 ELSE 0
    /\ \A i \in 1..Len(sendBuf) :
         cPc /= "clear" => sendBuf[i].seq_num + sendBuf[i].length =
             IF i < Len(sendBuf) THEN sendBuf[i + 1].seq_num ELSE next_seqNum

\* While a segment waits for its acknowledgement some timer thread is alive:
\* the thread that finds unAck_segNum = 0 without the lock and exits leaves
\* nothing behind that nobody resends (sendBuf_timer, sendBuf_send).
TimerCoversUnacked ==
    unAck_segNum > 0 /\ cState /= "FREE" => asleep + awake > 0

\* A client that is CONNECTED talks to a server that is CONNECTED to it, on
\* the same connection: a late SYNACK or FINACK of an earlier attempt never
\* opens one end alone (srt_client_connect, seghandler on both sides).
PeerConnected ==
    cState = "CONNECTED" => sState = "CONNECTED" /\ sConn = conn

FirstHeld == IF sendBuf = << >> THEN next_seqNum ELSE sendBuf[1].seq_num

\* sendBuf_recvAck frees a segment only after savedata has accepted it: what
\* the client no longer holds the server has.
FreedWasAccepted ==
    cState = "CONNECTED" => FirstHeld <= Len(Stream)

\* While a server stays connected expect_seqNum does not go back: a duplicate
\* SYN, which sets it to 0 again, never comes after data (syn_received).
ExpectNeverGoesBack ==
    [][sState = "CONNECTED" /\ sState' = "CONNECTED"
         => expect_seqNum' >= expect_seqNum]_vars

\* When disconnect goes on to return 1 the server has left the connection it
\* answers, not only an earlier one whose FINACK came late.
DisconnectMeansClosed ==
    [][conn' > conn => ~(sState = "CONNECTED" /\ sConn = conn)]_vars

\* The two ends together are a byte stream.
Bytes == INSTANCE ByteStream WITH
    wconn <- conn, written <- next_seqNum, rconn <- sConn, stream <- Stream

\* Every behaviour of the protocol is one of the abstract byte stream.
ImplementsByteStream == Bytes!StreamSpec
----
(* Liveness *)

\* While the connection stays open and no process faults, what the client
\* holds is acknowledged in the end: go-back-N and its timers never leave the
\* two ends waiting for each other.
DataIsAcknowledged ==
    (cState = "CONNECTED" /\ sendBuf /= << >>)
      ~> (sendBuf = << >> \/ cState /= "CONNECTED" \/ cCrashed \/ sCrashed)

Connected == cState = "CONNECTED" /\ sState = "CONNECTED"

\* While the connection stays open, recv catches up with what send has taken
\* at the other end: the chain from the send buffer through window,
\* timers, receive buffer and the polls of recv has no place where a byte stays
\* (sendBuf_send, sendBuf_timeout, savedata, srt_server_recv).
BytesAreReceived ==
    (Connected /\ Len(delivered) < next_seqNum)
      ~> (Len(delivered) = next_seqNum \/ ~Connected \/ cCrashed \/ sCrashed)

\* Every call of the client returns: connect and disconnect give up after
\* their retries, send never waits for the window.
ClientCallsReturn == (cPc /= "idle") ~> (cPc = "idle" \/ cCrashed)

====
