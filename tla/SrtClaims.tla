---- MODULE SrtClaims ----
(***************************************************************************)
(* What the comments and the README of the repository say of SRT and the   *)
(* code does not keep.  Each property is checked by a run that TLC refutes *)
(* with a behaviour of the code; README.md tells each of them.             *)
(***************************************************************************)
EXTENDS Srt

\* srt_client.c:524 "if unAck_segNum is 0, means no segments left in the send
\* buffer, exit": a timer thread that goes on finds a segment at the head of
\* the buffer.  The test is made without bufMutex and the head read after it.
TimerFindsHead == awake > 0 /\ cState /= "FREE" => sendBuf /= << >>

\* srt_server.c:136-139 accept waits "for the state transition ... and to return
\* 1 when the state change happens", srt_server.c:172-175 recv "keeps polling
\* ... until the requested data is available ...  If the function fails, return
\* -1": accept returns once seghandler has set CONNECTED, and a recv does not
\* wait on a connection that is over.
AcceptReturns ==
    (sPc = "accept" /\ sState = "CONNECTED") ~> (sPc /= "accept" \/ sCrashed)
RecvReturns ==
    (sPc = "recv" /\ sState = "CLOSED") ~> (sPc /= "recv" \/ sCrashed)
ServerCallsReturn == AcceptReturns /\ RecvReturns

\* README.md:4 "reliable in-order byte streams", srt_client.c:495-497 "this
\* function is called when clienttcb transitions to CLOSED state": what one
\* server connection receives never holds a byte twice.  disconnect that
\* returns -1 keeps the buffer and its timer, and the next connect meets them.
NoByteTwice ==
    \A i, j \in 1..Len(Stream) : i /= j => Stream[i] /= Stream[j]
====
