---- MODULE SrtClient ----
(***************************************************************************)
(* The client side of SRT (client/srt_client.c) for one transport control  *)
(* block: the application thread inside the API calls, the seghandler      *)
(* thread and the sendBuf_timer threads.  They share the TCB; sendBuf and  *)
(* its pointers are written under bufMutex, everything else without lock.  *)
(*                                                                         *)
(* The granularity is that of the source: the code between two accesses of *)
(* state another thread can change is one action, and a section under      *)
(* bufMutex is one action.                                                 *)
(***************************************************************************)
EXTENDS SrtSegments

CONSTANTS
    GBN_WINDOW,             \* window of sent and not acknowledged segments
    MAX_SEG_LEN,            \* payload bytes of a segment
    SYN_MAX_RETRY,
    FIN_MAX_RETRY,
    SendLengths,            \* the lengths the application passes to send
    MaxBytes,               \* bound: bytes written on one connection
    MaxConns,               \* bound: connections that are ended and reopened
    ReuseAfterFailure       \* whether the application calls connect again on
                            \* a socket whose disconnect returned -1

ASSUME ClientAssumption ==
    /\ GBN_WINDOW \in Nat \ {0}
    /\ MAX_SEG_LEN \in Nat \ {0}
    /\ SYN_MAX_RETRY \in Nat \ {0}
    /\ FIN_MAX_RETRY \in Nat \ {0}
    /\ SendLengths \subseteq Nat \ {0}
    /\ MaxBytes \in Nat
    /\ MaxConns \in Nat
    /\ ReuseAfterFailure \in BOOLEAN

VARIABLES
    cState,                 \* clienttcb->state; FREE once the TCB is freed
    svrKnown,               \* clienttcb->svr_nodeID is not -1
    next_seqNum,
    sendBuf,                \* the send buffer list, from sendBufHead to sendBufTail
    unSent,                 \* sendBufunSent: a position in sendBuf, 0 for NULL
    unAck_segNum,
    cPc,                    \* where the application thread is
    retry,                  \* retries left in connect or disconnect
    pending,                \* bytes of this send call not yet in sendBuf
    handler,                \* what seghandler is about to do
    asleep,                 \* timer threads in select
    awake,                  \* timer threads past the test of unAck_segNum
    cCrashed,               \* the client process was killed by a fault
    conn,                   \* history: connections ended before this one
    dirty                   \* history: some disconnect returned -1

buffer  == <<next_seqNum, sendBuf, unSent, unAck_segNum>>
timers  == <<asleep, awake>>
history == <<conn, dirty>>

clientVars == <<cState, svrKnown, buffer, cPc, retry, pending, handler,
                timers, cCrashed, history>>

ClientStates == {"FREE", "CLOSED", "SYNSENT", "CONNECTED", "FINWAIT"}

\* idle: outside the API.  The others name the statement reached in connect
\* (poll, resend), send (addSeg, send) and disconnect (poll, resend, clear).
ClientPcs == {"idle", "synPoll", "synResend", "addSeg", "send",
              "finPoll", "finResend", "clear"}

HandlerPcs == {"recv", "synack", "finack", "send"}

\* srt_client_init and srt_client_sock.
ClientInit ==
    /\ cState = "CLOSED"
    /\ svrKnown = FALSE
    /\ next_seqNum = 0
    /\ sendBuf = << >>
    /\ unSent = 0
    /\ unAck_segNum = 0
    /\ cPc = "idle"
    /\ retry = 0
    /\ pending = 0
    /\ handler = "recv"
    /\ asleep = 0
    /\ awake = 0
    /\ cCrashed = FALSE
    /\ conn = 0
    /\ dirty = FALSE

ClientTypeOK ==
    /\ cState \in ClientStates
    /\ svrKnown \in BOOLEAN
    /\ next_seqNum \in Nat
    /\ sendBuf \in Seq(Segments)
    /\ unSent \in Nat
    /\ unAck_segNum \in Nat
    /\ cPc \in ClientPcs
    /\ retry \in Nat
    /\ pending \in Nat
    /\ handler \in HandlerPcs
    /\ asleep \in Nat
    /\ awake \in Nat
    /\ cCrashed \in BOOLEAN
    /\ conn \in Nat
    /\ dirty \in BOOLEAN

\* The segments sendBuf_send can send now: those from sendBufunSent on, as
\* many as the window has room for.
SendCount ==
    LET room   == IF unAck_segNum < GBN_WINDOW
                  THEN GBN_WINDOW - unAck_segNum ELSE 0
        unsent == IF unSent = 0 THEN 0 ELSE Len(sendBuf) - unSent + 1
    IN  IF room < unsent THEN room ELSE unsent

\* sendBufunSent after n more segments were sent: the next one, NULL after the
\* last.
UnsentUnbounded(n) == unSent + n                                \* mutant
UnsentAfter(n) == IF n > 0 /\ unSent + n > Len(sendBuf) THEN 0 ELSE unSent + n

\* The first segment of an empty window starts a timer thread, whether or not
\* an older one is still asleep.
StartsTimerInSend(n) == n > 0 /\ unAck_segNum = 0 /\ cPc = "send"   \* mutant
StartsTimer(n) == n > 0 /\ unAck_segNum = 0

\* sendBuf_send, under bufMutex.
SendBufSend ==
    LET n == SendCount
    IN  /\ toServer' = Enqueue(toServer, SubSeq(sendBuf, unSent, unSent + n - 1))
        /\ unAck_segNum' = unAck_segNum + n
        /\ unSent' = UnsentAfter(n)
        /\ asleep' = IF StartsTimer(n) THEN asleep + 1 ELSE asleep
        /\ UNCHANGED <<next_seqNum, sendBuf, awake>>
\* retry-- after a SYN or FIN was sent again.
RetriesNotCounted == retry                                      \* mutant
RetriesLeft == retry - 1
----
(* srt_client_connect *)

\* The SYN leaves and the state becomes SYNSENT.  A SYNACK that arrives in
\* between is dropped, which is no different from losing it.
ConnectStart ==
    /\ cPc = "idle" /\ cState = "CLOSED"
    /\ conn < MaxConns
    /\ dirty => ReuseAfterFailure
    /\ svrKnown' = TRUE
    /\ conn' = IF dirty THEN conn + 1 ELSE conn
    /\ toServer' = Enqueue(toServer, <<Control("SYN", conn')>>)
    /\ cState' = "SYNSENT"
    /\ retry' = SYN_MAX_RETRY
    /\ cPc' = "synPoll"
    /\ UNCHANGED <<toClient, buffer, pending, handler, timers, cCrashed, dirty>>

ConnectPoll ==
    /\ cPc = "synPoll"
    /\ cPc' = IF cState = "CONNECTED" THEN "idle" ELSE "synResend"
    /\ UNCHANGED <<path, cState, svrKnown, buffer, retry, pending, handler,
                   timers, cCrashed, history>>

\* The resent SYN may leave after seghandler has set CONNECTED, and after the
\* last one the state is CLOSED whatever seghandler set it to.
ConnectResend ==
    /\ cPc = "synResend"
    /\ toServer' = Enqueue(toServer, <<Control("SYN", conn)>>)
    /\ retry' = RetriesLeft
    /\ IF retry' = 0
       THEN cPc' = "idle" /\ cState' = "CLOSED"
       ELSE cPc' = "synPoll" /\ UNCHANGED cState
    /\ UNCHANGED <<toClient, svrKnown, buffer, pending, handler, timers,
                   cCrashed, history>>
----
(* srt_client_send *)

SendStart(length) ==
    /\ cPc = "idle" /\ cState = "CONNECTED"
    /\ next_seqNum + length <= MaxBytes
    /\ pending' = length
    /\ cPc' = "addSeg"
    /\ UNCHANGED <<path, cState, svrKnown, buffer, retry, handler, timers,
                   cCrashed, history>>

\* One turn of the loop of srt_client_send: sendBuf_addSeg under bufMutex.
AddSeg ==
    LET length == IF pending < MAX_SEG_LEN THEN pending ELSE MAX_SEG_LEN
    IN  /\ cPc = "addSeg"
        /\ sendBuf' = Append(sendBuf, Data(next_seqNum, length, conn))
        /\ next_seqNum' = next_seqNum + length
        /\ unSent' = IF unSent = 0 THEN Len(sendBuf) + 1 ELSE unSent
        /\ pending' = pending - length
        /\ cPc' = IF pending = length THEN "send" ELSE "addSeg"
        /\ UNCHANGED <<path, cState, svrKnown, unAck_segNum, retry, handler,
                       timers, cCrashed, history>>

SendReturn ==
    /\ cPc = "send"
    /\ SendBufSend
    /\ cPc' = "idle"
    /\ UNCHANGED <<toClient, cState, svrKnown, retry, pending, handler,
                   cCrashed, history>>
----
(* srt_client_disconnect *)

DisconnectStart ==
    /\ cPc = "idle" /\ cState = "CONNECTED"
    /\ toServer' = Enqueue(toServer, <<Control("FIN", conn)>>)
    /\ cState' = "FINWAIT"
    /\ retry' = FIN_MAX_RETRY
    /\ cPc' = "finPoll"
    /\ UNCHANGED <<toClient, svrKnown, buffer, pending, handler, timers,
                   cCrashed, history>>

\* CLOSED means that seghandler has seen the FINACK: the connection is over.
DisconnectPoll ==
    /\ cPc = "finPoll"
    /\ IF cState = "CLOSED"
       THEN /\ svrKnown' = FALSE
            /\ next_seqNum' = 0
            /\ conn' = conn + 1
            /\ cPc' = "clear"
       ELSE /\ cPc' = "finResend"
            /\ UNCHANGED <<svrKnown, next_seqNum, conn>>
    /\ UNCHANGED <<path, cState, sendBuf, unSent, unAck_segNum, retry,
                   pending, handler, timers, cCrashed, dirty>>

\* sendBuf_clear, under bufMutex, and disconnect returns 1.
SendBufClear ==
    /\ cPc = "clear"
    /\ sendBuf' = << >>
    /\ unSent' = 0
    /\ unAck_segNum' = 0
    /\ cPc' = "idle"
    /\ UNCHANGED <<path, cState, svrKnown, next_seqNum, retry, pending,
                   handler, timers, cCrashed, history>>

\* After the last FIN the state is CLOSED and disconnect returns -1: the send
\* buffer, next_seqNum and svr_nodeID stay as they are.
DisconnectResend ==
    /\ cPc = "finResend"
    /\ toServer' = Enqueue(toServer, <<Control("FIN", conn)>>)
    /\ retry' = RetriesLeft
    /\ IF retry' = 0
       THEN cPc' = "idle" /\ cState' = "CLOSED" /\ dirty' = TRUE
       ELSE cPc' = "finPoll" /\ UNCHANGED <<cState, dirty>>
    /\ UNCHANGED <<toClient, svrKnown, buffer, pending, handler, timers,
                   cCrashed, conn>>

\* srt_client_close: the TCB is freed, with whatever still refers to it.
ClientClose ==
    /\ cPc = "idle" /\ cState = "CLOSED"
    /\ cState' = "FREE"
    /\ UNCHANGED <<path, svrKnown, buffer, cPc, retry, pending, handler,
                   timers, cCrashed, history>>
----
(* seghandler.  It tests the state, and writes the state or takes bufMutex *)
(* later; the application thread may run in between.                       *)

\* The segment seghandler takes from the path, when it is not handling one.
ClientReceivesAny(type) ==                                      \* mutant
    handler = "recv" /\ toClient /= << >> /\ toClient' = Tail(toClient)
ClientReceives(type) ==
    /\ handler = "recv"
    /\ toClient /= << >>
    /\ Head(toClient).type = type
    /\ toClient' = Tail(toClient)

OpensLate == cState \in {"SYNSENT", "CLOSED"}                   \* mutant
AwaitsSynAck == cState = "SYNSENT"

ReceiveSynAck ==
    /\ AwaitsSynAck
    /\ ClientReceives("SYNACK")
    /\ handler' = "synack"
    /\ UNCHANGED <<toServer, cState, svrKnown, buffer, cPc, retry, pending,
                   timers, cCrashed, history>>

ReceiveFinAck ==
    /\ cState = "FINWAIT"
    /\ ClientReceives("FINACK")
    /\ handler' = "finack"
    /\ UNCHANGED <<toServer, cState, svrKnown, buffer, cPc, retry, pending,
                   timers, cCrashed, history>>

\* The write of the state, which the application may have set to CLOSED, and
\* then to SYNSENT again, since it was tested.
SetState ==
    /\ cState /= "FREE"
    /\ \/ handler = "synack" /\ cState' = "CONNECTED"
       \/ handler = "finack" /\ cState' = "CLOSED"
    /\ handler' = "recv"
    /\ UNCHANGED <<path, svrKnown, buffer, cPc, retry, pending, timers,
                   cCrashed, history>>

\* sendBuf_recvAck frees the n leading segments numbered below ack.
AcknowledgesEqual(n, ack) ==                                    \* mutant
    /\ \A i \in 1..n : sendBuf[i].seq_num <= ack
    /\ n < Len(sendBuf) => sendBuf[n + 1].seq_num > ack
Acknowledges(n, ack) ==
    /\ \A i \in 1..n : sendBuf[i].seq_num < ack
    /\ n < Len(sendBuf) => sendBuf[n + 1].seq_num >= ack

\* The guard of sendBuf_recvAck and, under bufMutex, sendBuf_recvAck.  Other
\* threads cannot remove from the buffer in between, so they are one action.
ReceiveDataAck ==
    /\ cState = "CONNECTED"
    /\ sendBuf /= << >>
    /\ ClientReceives("DATAACK")
    /\ Head(toClient).ack_num >= sendBuf[1].seq_num
    /\ \E n \in 0..Len(sendBuf) :
         /\ Acknowledges(n, Head(toClient).ack_num)
         /\ sendBuf' = SubSeq(sendBuf, n + 1, Len(sendBuf))
         /\ unAck_segNum' = unAck_segNum - n
         /\ unSent' = IF unSent = 0 THEN 0 ELSE unSent - n
    /\ handler' = "send"
    /\ UNCHANGED <<toServer, cState, svrKnown, next_seqNum, cPc, retry,
                   pending, timers, cCrashed, history>>

\* sendBuf_send after sendBuf_recvAck; the state may be FINWAIT by now.
HandlerSend ==
    /\ handler = "send"
    /\ cState /= "FREE"
    /\ SendBufSend
    /\ handler' = "recv"
    /\ UNCHANGED <<toClient, cState, svrKnown, cPc, retry, pending,
                   cCrashed, history>>

\* The default branches: seghandler reads the segment and does nothing.
ClientIgnore ==
    /\ \E type \in SegTypes : ClientReceives(type)
    /\ ~ \/ cState = "SYNSENT" /\ Head(toClient).type = "SYNACK"
         \/ cState = "FINWAIT" /\ Head(toClient).type = "FINACK"
         \/ /\ cState = "CONNECTED" /\ Head(toClient).type = "DATAACK"
            /\ sendBuf /= << >>
            /\ Head(toClient).ack_num >= sendBuf[1].seq_num
    /\ UNCHANGED <<toServer, clientVars>>
----
(* sendBuf_timer *)

\* After the polling interval, without bufMutex: no segment is waiting for an
\* acknowledgement and the thread ends, or it goes on to read the head.
TimerPoll ==
    /\ asleep > 0 /\ cState /= "FREE"
    /\ asleep' = asleep - 1
    /\ awake' = IF unAck_segNum = 0 THEN awake ELSE awake + 1
    /\ UNCHANGED <<path, cState, svrKnown, buffer, cPc, retry, pending,
                   handler, cCrashed, history>>

\* What sendBuf_timeout sends again: all segments that wait for an
\* acknowledgement, from the head on.
TimeoutSkipsHead == SubSeq(sendBuf, 2, unAck_segNum)            \* mutant
TimeoutSegments == SubSeq(sendBuf, 1, unAck_segNum)

\* sendBufHead->sentTime, still without bufMutex, and sendBuf_timeout under
\* it, or nothing if the head is not old enough or not sent.  After disconnect
\* has reset svr_nodeID the segments go to node -1, nowhere.
TimerResend ==
    /\ awake > 0 /\ cState /= "FREE"
    /\ sendBuf /= << >>
    /\ \/ svrKnown /\ toServer' = Enqueue(toServer, TimeoutSegments)
       \/ toServer' = toServer
    /\ awake' = awake - 1
    /\ asleep' = asleep + 1
    /\ UNCHANGED <<toClient, cState, svrKnown, buffer, cPc, retry, pending,
                   handler, cCrashed, history>>

\* sendBufHead became NULL after the test of unAck_segNum: a fault.
TimerFault ==
    /\ awake > 0 /\ cState /= "FREE"
    /\ sendBuf = << >>
    /\ cCrashed' = TRUE
    /\ UNCHANGED <<path, cState, svrKnown, buffer, cPc, retry, pending,
                   handler, timers, history>>

\* A thread that reads the freed TCB: it ends, goes on, or faults.
UseAfterFree ==
    /\ cState = "FREE"
    /\ \/ asleep > 0 /\ asleep' = asleep - 1 /\ UNCHANGED <<awake, handler>>
       \/ awake > 0 /\ awake' = awake - 1 /\ UNCHANGED <<asleep, handler>>
       \/ handler /= "recv" /\ handler' = "recv" /\ UNCHANGED timers
    /\ cCrashed' \in BOOLEAN
    /\ UNCHANGED <<path, cState, svrKnown, buffer, cPc, retry, pending, history>>
----
ClientApp ==
    \/ ConnectStart \/ ConnectPoll \/ ConnectResend
    \/ (\E length \in SendLengths : SendStart(length))
    \/ AddSeg \/ SendReturn
    \/ DisconnectStart \/ DisconnectPoll \/ SendBufClear \/ DisconnectResend
    \/ ClientClose

ClientHandler ==
    \/ ReceiveSynAck \/ ReceiveFinAck \/ SetState
    \/ ReceiveDataAck \/ HandlerSend \/ ClientIgnore

ClientTimer == TimerPoll \/ TimerResend \/ TimerFault \/ UseAfterFree

\* A fault ends all threads of the process.
ClientNext == ~cCrashed /\ (ClientApp \/ ClientHandler \/ ClientTimer)
====
