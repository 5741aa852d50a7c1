---- MODULE Framing ----
(***************************************************************************)
(* A frame on a TCP connection: snp_sendseg, forwardsegToSRT,              *)
(* overlay_sendpkt, forwardpktToSNP and sendpkt write the start mark !&,   *)
(* the body and the end mark !# with a send each; snp_recvseg,             *)
(* getsegToSend, overlay_recvpkt, getpktToSend and recvpkt read them byte  *)
(* by byte with one automaton, written out five times.  Several threads of *)
(* the writing process share the connection and no lock.  The receivers    *)
(* keep a body in an array on their stack.                                 *)
(***************************************************************************)
EXTENDS Naturals, FiniteSets, SequencesExt

CONSTANTS
    Writers,    \* the threads that write to the connection
    Bodies,     \* bodies, as sequences of bytes
    BufSize,    \* bytes in buf: a body of the greatest size and the end mark
    MaxFrames,  \* bound: frames that are started
    MaxCloses   \* bound: how often the writing process goes away

\* "x" stands for every byte that is not part of a mark.
Bytes == {"!", "&", "#", "x"}

\* A body starts with a node ID: it is not empty and no end mark begins it.
\* It is no larger than the struct by whose size the array is declared.
ASSUME BodiesAssumption ==
    \A body \in Bodies :
      /\ body \in Seq(Bytes) /\ body /= << >>
      /\ Len(body) + 2 <= BufSize
      /\ body[1] = "!" /\ Len(body) > 1 => body[2] /= "#"
ASSUME BoundsAssumption ==
    BufSize \in Nat /\ MaxFrames \in Nat /\ MaxCloses \in Nat

VARIABLES
    at,       \* what each writer has sent of its frame
    frame,    \* the frame it is sending
    stream,   \* bytes on their way, each with the frame it belongs to
    closed,   \* the writing process has closed the connection
    state,    \* state of the receiving function, 0 to 3
    buf,      \* its buf, up to idx
    overrun,  \* it has stored a byte behind the end of buf
    received, \* bodies it has returned, on this connection
    bodies,   \* history: the body of each frame started so far
    alone,    \* history: frames no other frame has met
    closes    \* bound

writerVars == <<at, frame, closed, bodies, alone, closes>>
readerVars == <<state, buf, overrun, received>>
vars == <<stream, writerVars, readerVars>>

Tagged(bytes, f) == [i \in DOMAIN bytes |-> [byte |-> bytes[i], of |-> f]]

Open == {w \in Writers : at[w] /= "idle"}
Frames == DOMAIN bodies

Init ==
    /\ at = [w \in Writers |-> "idle"]
    /\ frame = [w \in Writers |-> 0]
    /\ stream = << >> /\ closed = FALSE
    /\ state = 0 /\ buf = << >> /\ overrun = FALSE /\ received = << >>
    /\ bodies = << >> /\ alone = {} /\ closes = 0
----
(* The three sends of a frame *)

Send(bytes, f) == stream' = stream \o Tagged(bytes, f)

SendStart(w, body) ==
    /\ at[w] = "idle" /\ ~closed
    /\ Len(bodies) < MaxFrames
    /\ bodies' = Append(bodies, body)
    /\ frame' = [frame EXCEPT ![w] = Len(bodies')]
    /\ alone' = IF Open = {} THEN alone \cup {Len(bodies')}
                ELSE alone \ {frame[v] : v \in Open}
    /\ Send(<<"!", "&">>, Len(bodies'))
    /\ at' = [at EXCEPT ![w] = "start"]
    /\ UNCHANGED <<closed, closes, readerVars>>

SendBody(w) ==
    /\ at[w] = "start" /\ ~closed
    /\ Send(bodies[frame[w]], frame[w])
    /\ at' = [at EXCEPT ![w] = "body"]
    /\ UNCHANGED <<frame, closed, bodies, alone, closes, readerVars>>

SendEnd(w) ==
    /\ at[w] = "body" /\ ~closed
    /\ Send(<<"!", "#">>, frame[w])
    /\ at' = [at EXCEPT ![w] = "idle"]
    /\ UNCHANGED <<frame, closed, bodies, alone, closes, readerVars>>

\* The writing process goes away, in the middle of a frame or not.
Close ==
    /\ ~closed /\ closes < MaxCloses
    /\ closed' = TRUE /\ closes' = closes + 1
    /\ UNCHANGED <<at, frame, stream, bodies, alone, readerVars>>
----
(* One turn of the loop around recv, by state *)

Take(c) ==
    /\ ~overrun
    /\ stream /= << >> /\ c = Head(stream).byte
    /\ stream' = Tail(stream)
    /\ UNCHANGED overrun

\* buf[idx] = c; idx++, where idx is an index of the array.
HasRoom == Len(buf) < BufSize
Keep ==
    /\ HasRoom
    /\ buf' = Append(buf, Head(stream))
    /\ UNCHANGED received

\* State 0: wait for "!".
AwaitStart ==
    /\ state = 0
    /\ \E c \in Bytes : Take(c) /\ state' = IF c = "!" THEN 1 ELSE 0
    /\ UNCHANGED <<writerVars, buf, received>>

\* State 1: "&" opens a frame; any other byte, "!" among them, starts again.
AwaitBody ==
    /\ state = 1
    /\ \E c \in Bytes : Take(c) /\ state' = IF c = "&" THEN 2 ELSE 0
    /\ UNCHANGED <<writerVars, buf, received>>

\* State 2, and state 3 with another byte than "#": a byte of the body, and
\* after a "!" the next one may end it.
AfterByteForgets(c) == IF c = "!" /\ state = 2 THEN 3 ELSE 2      \* mutant
AfterByte(c) == IF c = "!" THEN 3 ELSE 2
Collect ==
    /\ state \in {2, 3}
    /\ \E c \in Bytes :
        /\ Take(c)
        /\ ~(state = 3 /\ c = "#")
        /\ state' = AfterByte(c)
    /\ Keep
    /\ UNCHANGED writerVars

\* State 3 and "#": the body is what was kept before the "!", and the
\* function returns 1; the next call begins in state 0, though the comment on
\* the states lists a state 4.  "#" is stored in buf as well.
KeepsIdx == UNCHANGED buf                                         \* mutant
ResetsIdx == buf' = << >>
StaysFinished == state' = 4                                       \* mutant
ReturnsToStart == state' = 0
Complete ==
    /\ state = 3
    /\ Take("#")
    /\ HasRoom
    /\ received' = Append(received, Front(buf))
    /\ ResetsIdx
    /\ ReturnsToStart
    /\ UNCHANGED writerVars

\* idx is not tested: with the array full the byte goes behind it, on the stack
\* of the function.  What the process does then is undefined, and nothing more
\* is said of it.
Overrun ==
    /\ ~overrun /\ state \in {2, 3} /\ stream /= << >>
    /\ ~HasRoom
    /\ overrun' = TRUE
    /\ UNCHANGED <<stream, writerVars, state, buf, received>>

\* recv finds the connection closed: the function returns -1 and what it had
\* kept of a frame is forgotten.  Another process may connect then.
KeepsBuffer == UNCHANGED <<state, buf>>                           \* mutant
ForgetsFrame == state' = 0 /\ buf' = << >>
ReturnError ==
    /\ closed /\ stream = << >> /\ ~overrun
    /\ ForgetsFrame
    /\ received' = << >>
    /\ closed' = FALSE
    /\ at' = [w \in Writers |-> "idle"]
    /\ alone' = {}
    /\ UNCHANGED <<stream, overrun, frame, bodies, closes>>
----
Write(w) ==
    \/ \E body \in Bodies : SendStart(w, body)
    \/ SendBody(w) \/ SendEnd(w)

Read ==
    AwaitStart \/ AwaitBody \/ Collect \/ Complete \/ Overrun \/ ReturnError

Next == (\E w \in Writers : Write(w)) \/ Close \/ Read

Spec == Init /\ [][Next]_vars
----
Byte == [byte : Bytes, of : 1..MaxFrames]

TypeOK ==
    /\ at \in [Writers -> {"idle", "start", "body"}]
    /\ frame \in [Writers -> 0..MaxFrames]
    /\ \A w \in Writers : at[w] /= "idle" => frame[w] \in Frames
    /\ stream \in Seq(Byte)
    /\ closed \in BOOLEAN
    /\ state \in 0..3
    /\ buf \in Seq(Byte) /\ Len(buf) <= BufSize
    /\ overrun \in BOOLEAN
    /\ received \in Seq(Seq(Byte))
    /\ \A i \in DOMAIN received : Len(received[i]) + 2 <= BufSize
    /\ bodies \in Seq(Bodies) /\ Len(bodies) <= MaxFrames
    /\ alone \subseteq Frames
    /\ closes \in 0..MaxCloses

(***************************************************************************)
(* However frames were mixed up, and unless they have overrun the array,   *)
(* the automaton is back in its first state when no writer is inside a     *)
(* frame and every byte is read: a damaged frame that fits never takes the *)
(* one after it with it.  The second "!" in a row must not lose the end    *)
(* mark, and a "!" alone must not open a frame.                            *)
(***************************************************************************)
Quiet == Open = {} /\ ~closed /\ stream = << >> /\ ~overrun

Resynchronised == Quiet => state = 0 /\ buf = << >>

\* A body up to the end mark in it, if it has one: the bytes are not stuffed.
EndMarks(body) ==
    {i \in 1..(Len(body) - 1) : body[i] = "!" /\ body[i + 1] = "#"}
Cut(body) ==
    IF EndMarks(body) = {} THEN body
    ELSE SubSeq(body, 1, (CHOOSE i \in EndMarks(body) :
                             \A j \in EndMarks(body) : i <= j) - 1)

(***************************************************************************)
(* A frame that met no other on the connection is returned, whole unless   *)
(* its body has an end mark in it, and then only once; and such frames are *)
(* returned in the order they were sent, after mixed frames that did not   *)
(* overrun the array and after the writing process broke off in a frame.   *)
(***************************************************************************)
Whole(f) == Tagged(Cut(bodies[f]), f)
Passed(f) ==
    /\ \A w \in Open : frame[w] /= f
    /\ \A i \in DOMAIN stream : stream[i].of /= f

LoneFramesArrive == ~overrun =>
    /\ \A f \in alone : Passed(f) =>
         \E i \in DOMAIN received :
           /\ received[i] = Whole(f)
           /\ EndMarks(bodies[f]) = {} =>
                \A j \in DOMAIN received : received[j] = Whole(f) => j = i
    /\ \A i, j \in DOMAIN received : \A f, g \in alone :
         received[i] = Whole(f) /\ received[j] = Whole(g) /\ f < g => i < j

(***************************************************************************)
(* Only mixed frames overrun the array: for every byte of a frame that met *)
(* no other there is room, whatever mixed frames left in the array before  *)
(* it, also where its body holds marks.                                    *)
(***************************************************************************)
LoneFrameFits ==
    stream /= << >> /\ state \in {2, 3} /\ Head(stream).of \in alone => HasRoom

(***************************************************************************)
(* pkt.c:67, 143, 299 "Return 1 if ... is received successfully": what is  *)
(* returned is a body that was sent.  Two threads inside their sends mix   *)
(* their frames.                                                           *)
(***************************************************************************)
FramesIntact ==
    \A i \in DOMAIN received : \E f \in Frames : received[i] = Whole(f)
====
