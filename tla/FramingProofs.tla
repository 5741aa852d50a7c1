---- MODULE FramingProofs ----
(***************************************************************************)
(* Whatever the bodies are and however many threads mix their frames, the  *)
(* receiving automaton finds its way back to the start of a frame, and a   *)
(* frame that is alone on the connection is returned whole and in order,   *)
(* as long as no mixture of frames has overrun the array of the receiver;  *)
(* and a frame that is alone never does.                                   *)
(***************************************************************************)
EXTENDS Framing, SequenceTheorems, WellFoundedInduction, TLAPS

(***************************************************************************)
(* What is left to read when no writer is inside a frame ends with an end  *)
(* mark, and the automaton has not read past the first byte of it in a     *)
(* state from which "#" does not lead to the start.                        *)
(***************************************************************************)
EndsWithMark ==
    Open = {} /\ ~closed =>
        /\ stream = << >> => state = 0
        /\ Len(stream) = 1 => stream[1].byte = "#" /\ state \in {0, 1, 3}
        /\ Len(stream) >= 2 => /\ stream[Len(stream) - 1].byte = "!"
                               /\ stream[Len(stream)].byte = "#"

BufInFrame ==
    /\ state \in {0, 1} => buf = << >>
    /\ state = 3 => buf /= << >>

IInv == TypeOK /\ EndsWithMark /\ BufInFrame

LEMMA TaggedType ==
    ASSUME NEW bytes \in Seq(Bytes), NEW f \in 1..MaxFrames
    PROVE  /\ Tagged(bytes, f) \in Seq(Byte)
           /\ Len(Tagged(bytes, f)) = Len(bytes)
           /\ \A i \in 1..Len(bytes) : Tagged(bytes, f)[i].byte = bytes[i]
<1>1. Tagged(bytes, f) = [i \in 1..Len(bytes) |-> [byte |-> bytes[i], of |-> f]]
  BY DEF Tagged
<1>2. \A i \in 1..Len(bytes) : [byte |-> bytes[i], of |-> f] \in Byte
  BY DEF Byte
<1> QED
  BY <1>1, <1>2

LEMMA InitIInv == Init => IInv
<1> SUFFICES ASSUME Init PROVE IInv
  OBVIOUS
<1>1. TypeOK
  <2>1. /\ << >> \in Seq(Byte) /\ << >> \in Seq(Seq(Byte))
        /\ << >> \in Seq(Bodies) /\ Len(<< >>) = 0 /\ DOMAIN << >> = {}
    OBVIOUS
  <2>2. /\ at \in [Writers -> {"idle", "start", "body"}]
        /\ frame \in [Writers -> 0..MaxFrames]
        /\ \A w \in Writers : at[w] = "idle"
    BY BoundsAssumption DEF Init
  <2>3. closed \in BOOLEAN /\ overrun \in BOOLEAN
    BY DEF Init
  <2>4. /\ buf \in Seq(Byte) /\ Len(buf) <= BufSize
        /\ received \in Seq(Seq(Byte)) /\ DOMAIN received = {}
    BY <2>1, BoundsAssumption DEF Init
  <2> QED
    BY <2>1, <2>2, <2>3, <2>4, BoundsAssumption DEF Init, TypeOK
<1>2. EndsWithMark
  BY DEF Init, EndsWithMark
<1>3. BufInFrame
  BY DEF Init, BufInFrame
<1> QED
  BY <1>1, <1>2, <1>3 DEF IInv

LEMMA SendStartStep ==
    ASSUME IInv, NEW w \in Writers, NEW body \in Bodies, SendStart(w, body)
    PROVE  IInv'
<1>1. bodies' = Append(bodies, body) /\ Len(bodies') = Len(bodies) + 1
      /\ Len(bodies') \in 1..MaxFrames /\ bodies' \in Seq(Bodies)
      /\ Frames \subseteq Frames' /\ Len(bodies') \in Frames'
  BY BoundsAssumption DEF IInv, TypeOK, SendStart, Frames
<1>2. stream' \in Seq(Byte)
  <2>1. <<"!", "&">> \in Seq(Bytes)
    BY DEF Bytes
  <2>2. Tagged(<<"!", "&">>, Len(bodies')) \in Seq(Byte)
    BY <1>1, <2>1, TaggedType
  <2> QED
    BY <2>2 DEF IInv, TypeOK, SendStart, Send
<1>3. \A v \in Open : frame[v] \in Frames
  BY DEF IInv, TypeOK, Open
<1>4. alone' \subseteq Frames'
  BY <1>1, <1>3 DEF IInv, TypeOK, SendStart
<1>5. /\ at' \in [Writers -> {"idle", "start", "body"}]
      /\ frame' \in [Writers -> 0..MaxFrames]
  BY <1>1 DEF IInv, TypeOK, SendStart
<1>6. \A v \in Writers : at'[v] /= "idle" => frame'[v] \in Frames'
  BY <1>1 DEF IInv, TypeOK, SendStart
<1>7. TypeOK'
  BY <1>1, <1>2, <1>4, <1>5, <1>6 DEF IInv, TypeOK, SendStart, readerVars
<1>8. w \in Open'
  BY <1>5 DEF SendStart, Open, IInv, TypeOK
<1>9. EndsWithMark'
  BY <1>8 DEF EndsWithMark
<1>10. BufInFrame'
  BY DEF IInv, BufInFrame, SendStart, readerVars
<1> QED
  BY <1>7, <1>9, <1>10 DEF IInv

LEMMA SendBodyStep ==
    ASSUME IInv, NEW w \in Writers, SendBody(w)
    PROVE  IInv'
<1>1. frame[w] \in 1..MaxFrames /\ bodies[frame[w]] \in Seq(Bytes)
  BY BodiesAssumption DEF IInv, TypeOK, SendBody, Frames
<1>2. stream' \in Seq(Byte)
  <2>1. Tagged(bodies[frame[w]], frame[w]) \in Seq(Byte)
    BY <1>1, TaggedType
  <2> QED
    BY <2>1 DEF IInv, TypeOK, SendBody, Send
<1>3. TypeOK'
  BY <1>2 DEF IInv, TypeOK, SendBody, readerVars, Frames
<1>4. w \in Open'
  BY DEF SendBody, Open, IInv, TypeOK
<1>5. EndsWithMark'
  BY <1>4 DEF EndsWithMark
<1>6. BufInFrame'
  BY DEF IInv, BufInFrame, SendBody, readerVars
<1> QED
  BY <1>3, <1>5, <1>6 DEF IInv

LEMMA SendEndStep ==
    ASSUME IInv, NEW w \in Writers, SendEnd(w)
    PROVE  IInv'
<1>1. frame[w] \in 1..MaxFrames
  <2>1. frame[w] \in DOMAIN bodies
    BY DEF IInv, TypeOK, SendEnd, Frames
  <2>2. bodies \in Seq(Bodies) /\ Len(bodies) <= MaxFrames
    BY DEF IInv, TypeOK
  <2> QED
    BY <2>1, <2>2, BoundsAssumption
<1> DEFINE mark == Tagged(<<"!", "#">>, frame[w])
<1>2. mark \in Seq(Byte) /\ Len(mark) = 2
      /\ mark[1].byte = "!" /\ mark[2].byte = "#"
  <2>1. /\ <<"!", "#">> \in Seq(Bytes) /\ Len(<<"!", "#">>) = 2
        /\ <<"!", "#">>[1] = "!" /\ <<"!", "#">>[2] = "#"
    BY DEF Bytes
  <2>2. /\ mark \in Seq(Byte) /\ Len(mark) = 2
        /\ \A i \in 1..2 : mark[i].byte = <<"!", "#">>[i]
    BY <1>1, <2>1, TaggedType
  <2> QED
    BY <2>1, <2>2
<1>3. stream' = stream \o mark /\ stream \in Seq(Byte)
  BY DEF IInv, TypeOK, SendEnd, Send
<1> HIDE DEF mark
<1>4. /\ stream' \in Seq(Byte) /\ Len(stream') = Len(stream) + 2
      /\ Len(stream) \in Nat
      /\ stream'[Len(stream) + 1] = mark[1]
      /\ stream'[Len(stream) + 2] = mark[2]
  <2>1. mark \in Seq(Byte) /\ stream \in Seq(Byte) /\ Len(stream) \in Nat
    BY <1>2, <1>3
  <2>2. /\ stream' \in Seq(Byte) /\ Len(stream') = Len(stream) + Len(mark)
        /\ \A i \in 1..(Len(stream) + Len(mark)) :
             stream'[i] = IF i <= Len(stream) THEN stream[i]
                          ELSE mark[i - Len(stream)]
    BY <1>3, <2>1, ConcatProperties
  <2> DEFINE n == Len(stream)
  <2> HIDE DEF n
  <2>3. n \in Nat /\ Len(mark) = 2
        /\ \A i \in 1..(n + 2) : stream'[i] = IF i <= n THEN stream[i]
                                              ELSE mark[i - n]
    BY <1>2, <2>1, <2>2 DEF n
  <2>4. stream'[n + 1] = mark[1] /\ stream'[n + 2] = mark[2]
    BY <2>3
  <2> QED
    BY <1>2, <2>1, <2>2, <2>4 DEF n
<1>5. TypeOK'
  BY <1>4 DEF IInv, TypeOK, SendEnd, readerVars, Frames
<1>6. stream' /= << >>
  BY <1>4
<1>7. Len(stream') >= 2 /\ Len(stream') /= 1
      /\ Len(stream') - 1 = Len(stream) + 1 /\ Len(stream') = Len(stream) + 2
  BY <1>4
<1>8. EndsWithMark'
  BY <1>2, <1>4, <1>6, <1>7 DEF EndsWithMark
<1>9. BufInFrame'
  BY DEF IInv, BufInFrame, SendEnd, readerVars
<1> QED
  BY <1>5, <1>8, <1>9 DEF IInv

(***************************************************************************)
(* Reading a byte.  What a state does with it: "!" leads to 1 or 3 from 0, *)
(* 2 and 3 and from 1 to 0, and "#" then leads to 0.                       *)
(***************************************************************************)
LEMMA TakeFacts ==
    ASSUME TypeOK, NEW c, Take(c)
    PROVE  /\ stream' \in Seq(Byte)
           /\ Len(stream) \in Nat \ {0}
           /\ Len(stream') = Len(stream) - 1
           /\ \A i \in 1..Len(stream') : stream'[i] = stream[i + 1]
           /\ c = stream[1].byte /\ Head(stream) = stream[1]
           /\ stream[1] \in Byte
BY DEF TypeOK, Take

LEMMA TakeKeepsMark ==
    ASSUME IInv, NEW c \in Bytes, Take(c), UNCHANGED <<at, closed>>,
           state' \in 0..3,
           c = "#" => state' = (IF state = 2 THEN 2 ELSE 0),
           c = "!" => state' \in {0, 1, 3}
    PROVE  EndsWithMark'
<1>1. TypeOK
  BY DEF IInv
<1>2. SUFFICES ASSUME Open = {}, ~closed
               PROVE  /\ stream' = << >> => state' = 0
                      /\ Len(stream') = 1 => stream'[1].byte = "#"
                                             /\ state' \in {0, 1, 3}
                      /\ Len(stream') >= 2 =>
                           /\ stream'[Len(stream') - 1].byte = "!"
                           /\ stream'[Len(stream')].byte = "#"
  BY DEF EndsWithMark, Open
<1>3. /\ Len(stream) = 1 => stream[1].byte = "#" /\ state \in {0, 1, 3}
      /\ Len(stream) >= 2 => /\ stream[Len(stream) - 1].byte = "!"
                             /\ stream[Len(stream)].byte = "#"
  BY <1>2 DEF IInv, EndsWithMark
<1>4. ASSUME stream' = << >> PROVE state' = 0
  <2>1. Len(stream) = 1
    BY <1>1, <1>4, TakeFacts
  <2> QED
    BY <1>1, <1>3, <2>1, TakeFacts
<1>5. ASSUME Len(stream') = 1
      PROVE  stream'[1].byte = "#" /\ state' \in {0, 1, 3}
  <2>1. Len(stream) = 2
    BY <1>1, <1>5, TakeFacts
  <2>2. stream[1].byte = "!" /\ stream[2].byte = "#"
    BY <1>3, <2>1
  <2>3. stream'[1] = stream[2] /\ c = "!"
    BY <1>1, <1>5, <2>2, TakeFacts
  <2> QED
    BY <2>2, <2>3
<1>6. ASSUME Len(stream') >= 2
      PROVE  /\ stream'[Len(stream') - 1].byte = "!"
             /\ stream'[Len(stream')].byte = "#"
  <2>1. Len(stream') = Len(stream) - 1 /\ Len(stream) \in Nat
        /\ \A i \in 1..Len(stream') : stream'[i] = stream[i + 1]
    BY <1>1, TakeFacts
  <2>2. /\ stream'[Len(stream')] = stream[Len(stream)]
        /\ stream'[Len(stream') - 1] = stream[Len(stream) - 1]
    BY <1>6, <2>1
  <2> QED
    BY <1>3, <1>6, <2>1, <2>2
<1> QED
  BY <1>4, <1>5, <1>6

LEMMA AwaitStartStep == ASSUME IInv, AwaitStart PROVE IInv'
<1>1. PICK c \in Bytes : Take(c) /\ state' = IF c = "!" THEN 1 ELSE 0
  BY DEF AwaitStart
<1>2. state' \in 0..3 /\ UNCHANGED <<at, closed>>
  BY <1>1 DEF AwaitStart, writerVars
<1>3. EndsWithMark'
  BY <1>1, <1>2, TakeKeepsMark DEF AwaitStart
<1>4. stream' \in Seq(Byte)
  BY <1>1, TakeFacts DEF IInv
<1>5. TypeOK'
  BY <1>1, <1>2, <1>4 DEF IInv, TypeOK, AwaitStart, Take, writerVars, Frames
<1>6. BufInFrame'
  BY <1>1 DEF IInv, BufInFrame, AwaitStart
<1> QED
  BY <1>3, <1>5, <1>6 DEF IInv

LEMMA AwaitBodyStep == ASSUME IInv, AwaitBody PROVE IInv'
<1>1. PICK c \in Bytes : Take(c) /\ state' = IF c = "&" THEN 2 ELSE 0
  BY DEF AwaitBody
<1>2. state' \in 0..3 /\ UNCHANGED <<at, closed>>
  BY <1>1 DEF AwaitBody, writerVars
<1>3. EndsWithMark'
  BY <1>1, <1>2, TakeKeepsMark DEF AwaitBody
<1>4. stream' \in Seq(Byte)
  BY <1>1, TakeFacts DEF IInv
<1>5. TypeOK'
  BY <1>1, <1>2, <1>4 DEF IInv, TypeOK, AwaitBody, Take, writerVars, Frames
<1>6. BufInFrame'
  BY <1>1 DEF IInv, BufInFrame, AwaitBody
<1> QED
  BY <1>3, <1>5, <1>6 DEF IInv

LEMMA CollectStep == ASSUME IInv, Collect PROVE IInv'
<1>1. PICK c \in Bytes : Take(c) /\ ~(state = 3 /\ c = "#")
                         /\ state' = AfterByte(c)
  BY DEF Collect
<1>2. state' \in {2, 3} /\ UNCHANGED <<at, closed>>
  BY <1>1 DEF Collect, AfterByte, writerVars
<1>3. /\ c = "#" => state' = (IF state = 2 THEN 2 ELSE 0)
      /\ c = "!" => state' \in {0, 1, 3}
  BY <1>1 DEF Collect, AfterByte
<1>4. EndsWithMark'
  BY <1>1, <1>2, <1>3, TakeKeepsMark
<1>5. stream' \in Seq(Byte) /\ Head(stream) \in Byte
  BY <1>1, TakeFacts DEF IInv
<1>6. buf' \in Seq(Byte) /\ Len(buf') <= BufSize /\ buf' /= << >>
  <2>1. buf' = Append(buf, Head(stream)) /\ Len(buf) < BufSize /\ buf \in Seq(Byte)
    BY DEF IInv, TypeOK, Collect, Keep, HasRoom
  <2>2. buf' \in Seq(Byte) /\ Len(buf') = Len(buf) + 1 /\ Len(buf) \in Nat
    BY <1>5, <2>1
  <2> QED
    BY <2>1, <2>2, BoundsAssumption
<1>7. TypeOK'
  BY <1>1, <1>2, <1>5, <1>6 DEF IInv, TypeOK, Collect, Keep, Take, writerVars, Frames
<1>8. BufInFrame'
  BY <1>2, <1>6 DEF BufInFrame
<1> QED
  BY <1>4, <1>7, <1>8 DEF IInv

LEMMA CompleteStep == ASSUME IInv, Complete PROVE IInv'
<1>1. Take("#") /\ "#" \in Bytes
  BY DEF Complete, Bytes
<1>2. state = 3 /\ state' = 0 /\ buf' = << >> /\ UNCHANGED <<at, closed>>
  BY DEF Complete, ReturnsToStart, ResetsIdx, writerVars
<1>3. EndsWithMark'
  BY <1>1, <1>2, TakeKeepsMark
<1>4. stream' \in Seq(Byte)
  BY <1>1, TakeFacts DEF IInv
<1>5. Front(buf) \in Seq(Byte) /\ Len(Front(buf)) + 2 <= BufSize
  <2>1. buf \in Seq(Byte) /\ Len(buf) < BufSize
    BY DEF IInv, TypeOK, Complete, HasRoom
  <2>2. buf /= << >>
    BY <1>2 DEF IInv, BufInFrame
  <2>3. Len(buf) \in Nat \ {0} /\ Front(buf) \in Seq(Byte) /\ Len(Front(buf)) = Len(buf) - 1
    BY <2>1, <2>2 DEF Front
  <2> QED
    BY <2>1, <2>3, BoundsAssumption
<1>6. received' \in Seq(Seq(Byte)) /\ \A i \in DOMAIN received' : Len(received'[i]) + 2 <= BufSize
  <2>1. /\ received \in Seq(Seq(Byte)) /\ received' = Append(received, Front(buf))
        /\ \A i \in DOMAIN received : Len(received[i]) + 2 <= BufSize
    BY DEF IInv, TypeOK, Complete
  <2>2. received' \in Seq(Seq(Byte))
        /\ \A i \in DOMAIN received' :
             \/ i \in DOMAIN received /\ received'[i] = received[i]
             \/ received'[i] = Front(buf)
    BY <1>5, <2>1
  <2> QED
    BY <1>5, <2>1, <2>2
<1>7. TypeOK'
  BY <1>1, <1>2, <1>4, <1>6, BoundsAssumption DEF IInv, TypeOK, Complete, Take, writerVars, Frames
<1>8. BufInFrame'
  BY <1>2 DEF BufInFrame
<1> QED
  BY <1>3, <1>7, <1>8 DEF IInv

LEMMA OverrunStep == ASSUME IInv, Overrun PROVE IInv'
<1>1. TypeOK'
  BY DEF IInv, TypeOK, Overrun, writerVars, Frames
<1>2. EndsWithMark' /\ BufInFrame'
  BY DEF IInv, EndsWithMark, BufInFrame, Overrun, writerVars, Open
<1> QED
  BY <1>1, <1>2 DEF IInv

LEMMA ReturnErrorStep == ASSUME IInv, ReturnError PROVE IInv'
<1>1. state' = 0 /\ buf' = << >> /\ stream' = << >>
  BY DEF ReturnError, ForgetsFrame
<1>2. EndsWithMark'
  BY <1>1 DEF EndsWithMark
<1>3. TypeOK'
  <2>1. /\ << >> \in Seq(Byte) /\ << >> \in Seq(Seq(Byte))
        /\ Len(<< >>) = 0 /\ DOMAIN << >> = {}
    OBVIOUS
  <2>2. /\ at' \in [Writers -> {"idle", "start", "body"}]
        /\ \A w \in Writers : at'[w] = "idle"
    BY DEF ReturnError
  <2>3. closed' \in BOOLEAN
    BY DEF ReturnError
  <2> QED
    BY <1>1, <2>1, <2>2, <2>3, BoundsAssumption DEF IInv, TypeOK, ReturnError
<1>4. BufInFrame'
  BY <1>1 DEF BufInFrame
<1> QED
  BY <1>2, <1>3, <1>4 DEF IInv

LEMMA CloseStep == ASSUME IInv, Close PROVE IInv'
<1>1. TypeOK'
  BY BoundsAssumption DEF IInv, TypeOK, Close, readerVars, Frames
<1>2. EndsWithMark'
  BY DEF EndsWithMark, Close
<1>3. BufInFrame'
  BY DEF IInv, BufInFrame, Close, readerVars
<1> QED
  BY <1>1, <1>2, <1>3 DEF IInv

LEMMA StutterStep == ASSUME IInv, UNCHANGED vars PROVE IInv'
BY DEF IInv, TypeOK, EndsWithMark, BufInFrame, Open, Frames, vars, writerVars,
       readerVars

(***************************************************************************)
(* The automaton and its connection keep the invariant, for any number of  *)
(* threads, frames and broken connections and for any bodies.              *)
(***************************************************************************)
THEOREM Invariance == Spec => []IInv
<1>1. IInv /\ [Next]_vars => IInv'
  <2> SUFFICES ASSUME IInv, [Next]_vars PROVE IInv'
    OBVIOUS
  <2>1. ASSUME NEW w \in Writers, Write(w) PROVE IInv'
    BY <2>1, SendStartStep, SendBodyStep, SendEndStep DEF Write
  <2>2. CASE Close
    BY <2>2, CloseStep
  <2>3. CASE Read
    BY <2>3, AwaitStartStep, AwaitBodyStep, CollectStep, CompleteStep,
       OverrunStep, ReturnErrorStep DEF Read
  <2>4. CASE UNCHANGED vars
    BY <2>4, StutterStep
  <2> QED
    BY <2>1, <2>2, <2>3, <2>4 DEF Next
<1> QED
  BY InitIInv, <1>1, PTL DEF Spec

(***************************************************************************)
(* Types: the automaton never leaves its four states, and what it keeps    *)
(* and returns is no longer than the array and the struct.                 *)
(***************************************************************************)
THEOREM TypeCorrect == Spec => []TypeOK
<1>1. IInv => TypeOK
  BY DEF IInv
<1> QED
  BY <1>1, Invariance, PTL

(***************************************************************************)
(* When nobody is inside a frame and all is read, the receiving function   *)
(* waits for a start mark, whatever the bodies held and however the frames *)
(* of the threads were mixed, unless a mixture has overrun its array.      *)
(***************************************************************************)
THEOREM AlwaysResynchronised == Spec => []Resynchronised
<1>1. IInv => Resynchronised
  BY DEF IInv, EndsWithMark, BufInFrame, Resynchronised, Quiet
<1> QED
  BY <1>1, Invariance, PTL
----
(***************************************************************************)
(* A frame that met no other.  LoneAt says where its bytes are: the first  *)
(* r have been read, and the receiver is in it, or has it behind it; the   *)
(* others follow without a gap after p bytes of other frames, which end as *)
(* EndsWithMark says.  Every step of the writers and of the receiver moves *)
(* p and r along.                                                          *)
(***************************************************************************)
\* Byte i of frame f: its marks around its body.
TextByte(f, i) ==
    IF i = 1 THEN "!"
    ELSE IF i = 2 THEN "&"
    ELSE IF i <= Len(bodies[f]) + 2 THEN bodies[f][i - 2]
    ELSE IF i = Len(bodies[f]) + 3 THEN "!" ELSE "#"

TaggedByte(f, i) == [byte |-> TextByte(f, i), of |-> f]

\* How much of it is sent.
IsOpen(f) == \E w \in Open : frame[w] = f
Sent(f) ==
    IF \E w \in Open : frame[w] = f /\ at[w] = "start" THEN 2
    ELSE IF IsOpen(f) THEN Len(bodies[f]) + 2 ELSE Len(bodies[f]) + 4

\* The byte with which the receiver takes it to be complete.
End(f) == Len(Cut(bodies[f])) + 4

HasTag(bytes, f) == \E i \in DOMAIN bytes : bytes[i].of = f
InReceived(f) == \E j \in DOMAIN received : HasTag(received[j], f)

\* What is to be read before a lone frame ends as EndsWithMark says.
MarkBefore(p) ==
    /\ p = 0 => state = 0
    /\ p = 1 => stream[1].byte = "#" /\ state \in {0, 1, 3}
    /\ p >= 2 => stream[p - 1].byte = "!" /\ stream[p].byte = "#"

\* It is returned, and only once if nothing of it is left then.
Returned(f) ==
    \E i \in DOMAIN received :
      /\ received[i] = Whole(f)
      /\ EndMarks(bodies[f]) = {} =>
           /\ ~HasTag(buf, f)
           /\ \A j \in DOMAIN received : HasTag(received[j], f) => j = i

\* The receiver when it has read the first r bytes of f.
Receiver(f, r) ==
    /\ r = 0 => ~HasTag(buf, f)
    /\ r = 1 => state = 1
    /\ r >= 2 /\ r < End(f) =>
         /\ state = IF r > 2 /\ TextByte(f, r) = "!" THEN 3 ELSE 2
         /\ buf = [i \in 1..(r - 2) |-> TaggedByte(f, i + 2)]
    /\ r < End(f) => ~InReceived(f)
    /\ r >= End(f) => Returned(f)
    /\ r >= End(f) /\ r < Len(bodies[f]) + 4 => Len(buf) <= r - End(f)

\* r bytes of f have been read, and the others follow after p bytes.
LoneAt(f, p, r) ==
    /\ r <= Sent(f) /\ p + Sent(f) - r <= Len(stream)
    /\ r > 0 => p = 0
    /\ IsOpen(f) => p + Sent(f) - r = Len(stream)
    /\ \A i \in DOMAIN stream :
         /\ stream[i].of = f <=> p < i /\ i <= p + Sent(f) - r
         /\ stream[i].of = f => stream[i].byte = TextByte(f, i - p + r)
    /\ r = 0 => MarkBefore(p)
    /\ Receiver(f, r)

Lone == \A f \in alone : \E p \in 0..Len(stream), r \in 0..Sent(f) : LoneAt(f, p, r)

\* Only one writer sends a frame, and while it sends a lone one no other does.
OneWriter ==
    /\ \A v, w \in Open : frame[v] = frame[w] => v = w
    /\ \A f \in alone, w \in Open : frame[w] = f => Open = {w}

\* No byte is of a frame that is yet to be started.
TagsStarted ==
    /\ \A i \in DOMAIN stream : stream[i].of \in Frames
    /\ \A i \in DOMAIN buf : buf[i].of \in Frames
    /\ \A j \in DOMAIN received : \A i \in DOMAIN received[j] : received[j][i].of \in Frames

\* The bytes of two lone frames do not overtake each other.
Before(f, g) ==
    /\ \A i, j \in DOMAIN stream : stream[i].of = f /\ stream[j].of = g => i < j
    /\ HasTag(buf, g) \/ InReceived(g) => ~HasTag(stream, f)
    /\ InReceived(g) => ~HasTag(buf, f)
    /\ \A i, j \in DOMAIN received :
         HasTag(received[i], f) /\ HasTag(received[j], g) => i <= j

Ordered ==
    \A f, g \in alone : f < g => ~IsOpen(f) /\ Before(f, g)

LoneInv == Lone /\ OneWriter /\ TagsStarted /\ Ordered

(***************************************************************************)
(* A body and its end marks                                                *)
(***************************************************************************)

\* Cut stops before the first end mark.
LEMMA CutFacts ==
    ASSUME NEW body \in Seq(Bytes)
    PROVE  /\ Cut(body) \in Seq(Bytes) /\ Len(Cut(body)) \in Nat
           /\ Len(Cut(body)) <= Len(body)
           /\ \A i \in 1..Len(Cut(body)) : Cut(body)[i] = body[i]
           /\ Len(Cut(body)) = Len(body) <=> EndMarks(body) = {}
           /\ EndMarks(body) /= {} => Len(Cut(body)) + 1 \in EndMarks(body)
           /\ \A i \in EndMarks(body) : i > Len(Cut(body))
<1>1. Len(body) \in Nat /\ DOMAIN body = 1..Len(body)
  OBVIOUS
<1>2. CASE EndMarks(body) = {}
  BY <1>1, <1>2 DEF Cut
<1>3. CASE EndMarks(body) /= {}
  <2> DEFINE E == EndMarks(body)
             first == CHOOSE i \in E : \A j \in E : i <= j
  <2>1. E \subseteq Nat /\ \A i \in E : i >= 1 /\ i + 1 <= Len(body)
    BY <1>1 DEF EndMarks
  <2>2. \E i \in E : \A j \in E : i <= j
    <3> HIDE DEF E
    <3>0. E /= {}
      BY <1>3 DEF E
    <3>1. PICK i \in E : \A j \in E : ~(<<j, i>> \in OpToRel(<, Nat))
      BY <2>1, <3>0, NatLessThanWellFounded, WFMin
    <3>2. ASSUME NEW j \in E PROVE i <= j
      <4>1. i \in Nat /\ j \in Nat
        BY <2>1
      <4>2. j < i => <<j, i>> \in OpToRel(<, Nat)
        BY <4>1, Zenon DEF OpToRel
      <4>3. ~(j < i)
        BY <3>1, <4>2, Zenon
      <4> QED
        BY <4>1, <4>3
    <3> QED
      BY <3>2
  <2>3. first \in E /\ \A j \in E : first <= j
    <3> HIDE DEF E
    <3> QED
      BY <2>2, Zenon
  <2>4. Cut(body) = SubSeq(body, 1, first - 1)
    BY <1>3 DEF Cut
  <2> HIDE DEF first
  <2>5. first \in Nat /\ first >= 1 /\ first + 1 <= Len(body)
    BY <2>1, <2>3
  <2>6. /\ Cut(body) \in Seq(Bytes) /\ Len(Cut(body)) = first - 1
        /\ \A i \in 1..(first - 1) : Cut(body)[i] = body[i]
    BY <1>1, <2>4, <2>5
  <2>7. \A j \in E : j > first - 1
    BY <2>1, <2>3, <2>5
  <2> QED
    BY <1>1, <1>3, <2>3, <2>5, <2>6, <2>7
<1> QED
  BY <1>2, <1>3

\* Where the first end mark of a frame is, and what the receiver returns.
LEMMA TextFacts ==
    ASSUME TypeOK, NEW f \in Frames
    PROVE  /\ Len(bodies[f]) \in Nat \ {0} /\ f \in Nat
           /\ Sent(f) \in {2, Len(bodies[f]) + 2, Len(bodies[f]) + 4}
           /\ ~IsOpen(f) => Sent(f) = Len(bodies[f]) + 4
           /\ End(f) \in 5..(Len(bodies[f]) + 4)
           /\ End(f) = Len(bodies[f]) + 4 <=> EndMarks(bodies[f]) = {}
           /\ TextByte(f, 1) = "!" /\ TextByte(f, 2) = "&"
           /\ TextByte(f, End(f) - 1) = "!" /\ TextByte(f, End(f)) = "#"
           /\ \A r \in Nat : r > 2 /\ r + 1 < End(f) =>
                ~(TextByte(f, r) = "!" /\ TextByte(f, r + 1) = "#")
           /\ \A i \in Nat \ {0} : TextByte(f, i) \in Bytes
           /\ Whole(f) = [i \in 1..(End(f) - 4) |-> TaggedByte(f, i + 2)]
<1>1. bodies[f] \in Bodies /\ f \in Nat
  BY DEF TypeOK, Frames
<1>0. PICK body \in Bodies : body = bodies[f]
  BY <1>1
<1>2. body \in Seq(Bytes) /\ body /= << >> /\ (body[1] = "!" /\ Len(body) > 1 => body[2] /= "#")
  BY BodiesAssumption
<1>3. Len(body) \in Nat \ {0} /\ DOMAIN body = 1..Len(body) /\ \A i \in 1..Len(body) : body[i] \in Bytes
  BY <1>2
<1>4. 1 \notin EndMarks(body)
  BY <1>2, <1>3 DEF EndMarks
<1>a. PICK c \in Nat : c = Len(Cut(body))
  BY <1>2, CutFacts
<1>5. /\ c \in Nat /\ c <= Len(body) /\ Cut(body) \in Seq(Bytes)
      /\ \A i \in 1..c : Cut(body)[i] = body[i]
      /\ c = Len(body) <=> EndMarks(body) = {}
      /\ EndMarks(body) /= {} => c + 1 \in EndMarks(body)
      /\ \A i \in EndMarks(body) : i > c
  BY <1>a, <1>2, CutFacts
<1>6. c /= 0
  <2>1. SUFFICES ASSUME c = 0 PROVE FALSE
    OBVIOUS
  <2>2. EndMarks(body) /= {}
    BY <1>3, <1>5, <2>1
  <2>3. c + 1 \in EndMarks(body)
    BY <1>5, <2>2
  <2>4. c + 1 = 1
    BY <2>1
  <2> QED
    BY <1>4, <2>3, <2>4
<1>7. End(f) = c + 4
  BY <1>0, <1>a DEF End
<1>8. \A i : TextByte(f, i) = IF i = 1 THEN "!" ELSE IF i = 2 THEN "&"
                              ELSE IF i <= Len(body) + 2 THEN body[i - 2]
                              ELSE IF i = Len(body) + 3 THEN "!" ELSE "#"
  BY <1>0 DEF TextByte
<1>9. \A i \in 1..(Len(body) - 1) : i \in EndMarks(body) <=> body[i] = "!" /\ body[i + 1] = "#"
  BY DEF EndMarks
<1>10. TextByte(f, c + 3) = "!" /\ TextByte(f, c + 4) = "#"
  <2>1. CASE c = Len(body)
    BY <1>3, <1>5, <1>6, <1>8, <2>1
  <2>2. CASE c /= Len(body)
    <3>1. c + 1 \in EndMarks(body) /\ c + 1 \in 1..(Len(body) - 1)
      BY <1>5, <2>2 DEF EndMarks
    <3>2. body[c + 1] = "!" /\ body[c + 1 + 1] = "#"
      BY <1>9, <3>1
    <3>3. /\ c + 3 - 2 = c + 1 /\ c + 4 - 2 = c + 1 + 1
          /\ c + 3 <= Len(body) + 2 /\ c + 4 <= Len(body) + 2
          /\ c + 3 /= 1 /\ c + 3 /= 2 /\ c + 4 /= 1 /\ c + 4 /= 2
      <4>1. c + 1 <= Len(body) - 1 /\ Len(body) \in Nat
        BY <1>3, <3>1
      <4> QED
        BY <4>1
    <3>4. TextByte(f, c + 3) = body[c + 1] /\ TextByte(f, c + 4) = body[c + 1 + 1]
      BY <1>8, <3>3
    <3> QED
      BY <3>2, <3>4
  <2> QED
    BY <2>1, <2>2
<1>11. ASSUME NEW r \in Nat, r > 2, r + 1 < c + 4, TextByte(f, r) = "!", TextByte(f, r + 1) = "#"
       PROVE  FALSE
  <2>1. r <= Len(body) + 2 /\ r /= 1 /\ r /= 2
    BY <1>3, <1>5, <1>11
  <2>2. body[r - 2] = "!"
    BY <1>8, <1>11, <2>1
  <2>3. CASE r = Len(body) + 2
    BY <1>3, <1>8, <1>11, <2>3
  <2>4. CASE r < Len(body) + 2
    <3>1. r + 1 <= Len(body) + 2 /\ r + 1 - 2 = r - 2 + 1
      BY <1>3, <2>4
    <3>2. body[r - 2 + 1] = "#"
      BY <1>8, <1>11, <3>1
    <3>3. r - 2 \in 1..(Len(body) - 1)
      BY <1>3, <1>11, <2>4
    <3>4. r - 2 \in EndMarks(body)
      BY <1>9, <2>2, <3>2, <3>3
    <3>5. r - 2 > c
      BY <1>5, <3>4
    <3> QED
      BY <1>5, <1>11, <3>5
  <2> QED
    BY <1>3, <2>1, <2>3, <2>4
<1>12. \A i \in Nat \ {0} : TextByte(f, i) \in Bytes
  <2> SUFFICES ASSUME NEW i \in Nat \ {0} PROVE TextByte(f, i) \in Bytes
    OBVIOUS
  <2>1. i > 2 /\ i <= Len(body) + 2 => i - 2 \in 1..Len(body)
    BY <1>3
  <2> QED
    BY <1>3, <1>8, <2>1 DEF Bytes
<1>13. Whole(f) = [i \in 1..c |-> TaggedByte(f, i + 2)]
  <2>1. DOMAIN Cut(body) = 1..c
    BY <1>5, <1>a
  <2>2. Whole(f) = [i \in 1..c |-> [byte |-> Cut(body)[i], of |-> f]]
    BY <1>0, <2>1 DEF Whole, Tagged
  <2>3. ASSUME NEW i \in 1..c PROVE Cut(body)[i] = TextByte(f, i + 2)
    <3>1. i + 2 <= Len(body) + 2 /\ i + 2 /= 1 /\ i + 2 /= 2 /\ i + 2 - 2 = i
      <4>1. c <= Len(body) /\ Len(body) \in Nat
        BY <1>3, <1>5
      <4> QED
        BY <4>1
    <3>2. Cut(body)[i] = body[i]
      BY <1>5
    <3> QED
      BY <1>8, <3>1, <3>2
  <2> QED
    BY <2>2, <2>3 DEF TaggedByte
<1>14. Sent(f) \in {2, Len(body) + 2, Len(body) + 4} /\ (~IsOpen(f) => Sent(f) = Len(body) + 4)
  BY <1>0 DEF Sent, IsOpen
<1>b. c <= Len(body) /\ Len(body) \in Nat
  BY <1>3, <1>5
<1>15. c + 4 - 1 = c + 3 /\ c + 4 - 4 = c /\ c + 4 \in 5..(Len(body) + 4)
       /\ (c + 4 = Len(body) + 4 <=> c = Len(body))
  BY <1>b, <1>6
<1>16. TextByte(f, 1) = "!" /\ TextByte(f, 2) = "&"
  BY <1>8
<1> QED
  BY <1>0, <1>1, <1>3, <1>5, <1>7, <1>10, <1>11, <1>12, <1>13, <1>14, <1>15, <1>16

\* How much of a frame is sent is a number.
LEMMA SentType ==
    ASSUME TypeOK, NEW f \in Frames
    PROVE  Sent(f) \in Nat /\ Len(bodies[f]) \in Nat /\ Sent(f) <= Len(bodies[f]) + 4
BY TextFacts

(***************************************************************************)
(* The writers                                                             *)
(***************************************************************************)

\* What is said of a frame does not depend on other frames' bodies.
LEMMA SameText ==
    ASSUME NEW f, bodies'[f] = bodies[f]
    PROVE  /\ \A i : TextByte(f, i)' = TextByte(f, i) /\ TaggedByte(f, i)' = TaggedByte(f, i)
           /\ End(f)' = End(f) /\ Whole(f)' = Whole(f)
           /\ EndMarks(bodies[f])' = EndMarks(bodies[f])
BY DEF TextByte, TaggedByte, End, Whole

\* The receiver stays as it is while frames are written.
LEMMA SameReceiver ==
    ASSUME NEW f, bodies'[f] = bodies[f], UNCHANGED readerVars, NEW r, Receiver(f, r)
    PROVE  Receiver(f, r)'
<1>1. /\ state' = state /\ buf' = buf /\ received' = received
  BY DEF readerVars
<1>2. HasTag(buf, f)' = HasTag(buf, f) /\ InReceived(f)' = InReceived(f)
  BY <1>1 DEF HasTag, InReceived
<1>3. Returned(f)' = Returned(f)
  BY <1>1, SameText DEF Returned, HasTag
<1> QED
  BY <1>1, <1>2, <1>3, SameText DEF Receiver

\* The bytes that are read next stay where they are when some are appended.
LEMMA AppendedBytes ==
    ASSUME TypeOK, NEW new \in Seq(Byte), stream' = stream \o new
    PROVE  /\ Len(stream) \in Nat /\ Len(new) \in Nat
           /\ Len(stream') = Len(stream) + Len(new) /\ stream' \in Seq(Byte)
           /\ DOMAIN stream = 1..Len(stream) /\ DOMAIN new = 1..Len(new)
           /\ DOMAIN stream' = 1..Len(stream')
           /\ \A i \in DOMAIN stream : stream'[i] = stream[i] /\ i \in DOMAIN stream'
           /\ \A i \in DOMAIN stream' : i \notin DOMAIN stream =>
                i - Len(stream) \in DOMAIN new /\ stream'[i] = new[i - Len(stream)]
<1>1. stream \in Seq(Byte)
  BY DEF TypeOK
<1>2. /\ stream' \in Seq(Byte) /\ Len(stream') = Len(stream) + Len(new)
      /\ \A i \in 1..(Len(stream) + Len(new)) :
           stream'[i] = IF i <= Len(stream) THEN stream[i] ELSE new[i - Len(stream)]
  BY <1>1, ConcatProperties
<1>3. Len(stream) \in Nat /\ Len(new) \in Nat /\ DOMAIN stream = 1..Len(stream)
      /\ DOMAIN new = 1..Len(new) /\ DOMAIN stream' = 1..Len(stream')
  BY <1>1, <1>2
<1>4. \A i \in 1..(Len(stream) + Len(new)) : i > Len(stream) => i - Len(stream) \in 1..Len(new)
  BY <1>3
<1> QED
  BY <1>2, <1>3, <1>4

\* The end mark before a lone frame stays where it is.
LEMMA MarkStays ==
    ASSUME TypeOK, NEW new \in Seq(Byte), stream' = stream \o new, state' = state,
           NEW p \in 0..Len(stream), MarkBefore(p)
    PROVE  MarkBefore(p)'
<1>1. /\ Len(stream) \in Nat
      /\ \A i \in 1..Len(stream) : stream'[i] = stream[i]
  BY AppendedBytes
<1>2. p = 1 => 1 \in 1..Len(stream)
  BY <1>1
<1>3. p >= 2 => p \in 1..Len(stream) /\ p - 1 \in 1..Len(stream)
  BY <1>1
<1> QED
  BY <1>1, <1>2, <1>3 DEF MarkBefore

\* Another frame's bytes do not matter to a lone one that is sent.
LEMMA OtherAppends ==
    ASSUME TypeOK, NEW f \in Frames, NEW p \in 0..Len(stream), NEW r \in 0..Sent(f),
           LoneAt(f, p, r), UNCHANGED readerVars, bodies'[f] = bodies[f],
           NEW new \in Seq(Byte), stream' = stream \o new,
           \A i \in DOMAIN new : new[i].of /= f,
           Sent(f)' = Sent(f), ~IsOpen(f)'
    PROVE  LoneAt(f, p, r)' /\ p \in 0..Len(stream') /\ r \in 0..Sent(f)'
<1>1. /\ Len(stream) \in Nat /\ Len(new) \in Nat /\ Len(stream') = Len(stream) + Len(new)
      /\ \A i \in DOMAIN stream : stream'[i] = stream[i] /\ i \in 1..Len(stream)
      /\ \A i \in DOMAIN stream' : i \notin DOMAIN stream =>
           stream'[i].of /= f /\ i \in Nat /\ i > Len(stream)
  BY AppendedBytes
<1>2. Sent(f) \in Nat /\ r \in Nat /\ p \in Nat /\ p <= Len(stream)
  BY <1>1, TextFacts
<1>3. p + Sent(f) - r <= Len(stream) /\ p + Sent(f) - r \in Int
  BY <1>2 DEF LoneAt
<1>4. ASSUME NEW i \in DOMAIN stream'
      PROVE  /\ stream'[i].of = f <=> p < i /\ i <= p + Sent(f) - r
             /\ stream'[i].of = f => stream'[i].byte = TextByte(f, i - p + r)
  <2>1. CASE i \in DOMAIN stream
    BY <1>1, <2>1 DEF LoneAt
  <2>2. CASE i \notin DOMAIN stream
    BY <1>1, <1>3, <2>2
  <2> QED
    BY <2>1, <2>2
<1>5. r = 0 => MarkBefore(p)'
  BY MarkStays DEF LoneAt, readerVars
<1>6. Receiver(f, r)'
  BY SameReceiver DEF LoneAt
<1>7. p + Sent(f) - r <= Len(stream')
  BY <1>1, <1>3
<1>8. /\ r <= Sent(f) /\ (r > 0 => p = 0)
  BY DEF LoneAt
<1>9. /\ \A i : TextByte(f, i)' = TextByte(f, i)
  BY SameText
<1>10. LoneAt(f, p, r)'
  BY <1>4, <1>5, <1>6, <1>7, <1>8, <1>9 DEF LoneAt
<1> QED
  BY <1>1, <1>2, <1>10

\* The next bytes of a lone frame go behind those of it that are there.
LEMMA OwnAppends ==
    ASSUME TypeOK, NEW f \in Frames, NEW p \in 0..Len(stream), NEW r \in 0..Sent(f),
           LoneAt(f, p, r), UNCHANGED readerVars, bodies' = bodies, IsOpen(f),
           NEW new \in Seq(Byte), stream' = stream \o new,
           Sent(f)' = Sent(f) + Len(new),
           \A i \in DOMAIN new : new[i] = TaggedByte(f, Sent(f) + i)
    PROVE  LoneAt(f, p, r)' /\ p \in 0..Len(stream') /\ r \in 0..Sent(f)'
<1>1. /\ Len(stream) \in Nat /\ Len(new) \in Nat /\ Len(stream') = Len(stream) + Len(new)
      /\ DOMAIN stream = 1..Len(stream) /\ DOMAIN stream' = 1..Len(stream')
      /\ \A i \in DOMAIN stream : stream'[i] = stream[i]
      /\ \A i \in DOMAIN stream' : i \notin DOMAIN stream =>
           i - Len(stream) \in DOMAIN new /\ stream'[i] = new[i - Len(stream)]
  BY AppendedBytes
<1>0. Len(stream) \in Nat /\ Len(new) \in Nat /\ Len(stream') = Len(stream) + Len(new)
  BY <1>1
<1>2. Sent(f) \in Nat /\ r \in Nat /\ p \in Nat /\ p <= Len(stream) /\ r <= Sent(f)
  <2>1. Sent(f) \in Nat
    BY SentType, Zenon
  <2> QED
    BY <1>0, <2>1
<1>3. p + Sent(f) - r = Len(stream)
  BY DEF LoneAt
<1>4. p + (Sent(f) + Len(new)) - r = Len(stream')
  <2>1. PICK s \in Nat : s = Sent(f)
    BY <1>2
  <2>2. PICK n \in Nat : n = Len(new)
    BY <1>0
  <2>3. PICK m \in Nat : m = Len(stream)
    BY <1>0
  <2>4. p + s - r = m /\ p \in Nat /\ r \in Nat
    BY <1>2, <1>3, <2>1, <2>3
  <2>5. p + (s + n) - r = m + n
    BY <2>4
  <2> QED
    BY <1>0, <2>1, <2>2, <2>3, <2>5
<1>5. ASSUME NEW i \in DOMAIN stream'
      PROVE  /\ stream'[i].of = f <=> p < i /\ i <= Len(stream')
             /\ stream'[i].of = f => stream'[i].byte = TextByte(f, i - p + r)
  <2>1. CASE i \in DOMAIN stream
    <3>1. i <= Len(stream) /\ i <= Len(stream')
      BY <1>1, <2>1
    <3>2. /\ stream[i].of = f <=> p < i /\ i <= p + Sent(f) - r
          /\ stream[i].of = f => stream[i].byte = TextByte(f, i - p + r)
      BY <2>1 DEF LoneAt
    <3> QED
      BY <1>1, <1>3, <2>1, <3>1, <3>2
  <2>2. CASE i \notin DOMAIN stream
    <3>1. i \in Nat /\ i > Len(stream) /\ i <= Len(stream')
      BY <1>1, <2>2
    <3>2. stream'[i] = TaggedByte(f, Sent(f) + (i - Len(stream)))
      BY <1>1, <2>2
    <3>3. Sent(f) + (i - Len(stream)) = i - p + r
      BY <1>1, <1>2, <1>3, <3>1
    <3>4. stream'[i].of = f /\ stream'[i].byte = TextByte(f, i - p + r)
      BY <3>2, <3>3 DEF TaggedByte
    <3> QED
      BY <1>2, <1>1, <3>1, <3>4
  <2> QED
    BY <2>1, <2>2
<1>6. r = 0 => MarkBefore(p)'
  BY MarkStays DEF LoneAt, readerVars
<1>7. Receiver(f, r)'
  BY SameReceiver DEF LoneAt
<1>8. r > 0 => p = 0
  BY DEF LoneAt
<1>9. /\ \A i : TextByte(f, i)' = TextByte(f, i)
  BY SameText
<1>10. r <= Sent(f)' /\ p <= Len(stream')
  BY <1>1, <1>2
<1>11. LoneAt(f, p, r)'
  BY <1>4, <1>5, <1>6, <1>7, <1>8, <1>9, <1>10 DEF LoneAt
<1> QED
  BY <1>1, <1>2, <1>10, <1>11

\* An order of two frames stays when bytes are written that are not of the first.
LEMMA BeforeAppends ==
    ASSUME TypeOK, NEW f, NEW g, Before(f, g), UNCHANGED readerVars,
           NEW new \in Seq(Byte), stream' = stream \o new,
           \A i \in DOMAIN new : new[i].of /= f
    PROVE  Before(f, g)'
<1>1. /\ \A i \in DOMAIN stream : stream'[i] = stream[i] /\ i \in DOMAIN stream' /\ i \in 1..Len(stream)
      /\ \A i \in DOMAIN stream' : i \notin DOMAIN stream =>
           stream'[i].of /= f /\ i > Len(stream) /\ i \in Nat
      /\ Len(stream) \in Nat
  BY AppendedBytes
<1>2. ASSUME NEW i \in DOMAIN stream', NEW j \in DOMAIN stream',
             stream'[i].of = f, stream'[j].of = g
      PROVE  i < j
  <2>1. i \in DOMAIN stream
    BY <1>1, <1>2
  <2>2. CASE j \in DOMAIN stream
    BY <1>1, <1>2, <2>1, <2>2 DEF Before
  <2>3. CASE j \notin DOMAIN stream
    BY <1>1, <2>1, <2>3
  <2> QED
    BY <2>2, <2>3
<1>3. HasTag(stream, f)' => HasTag(stream, f)
  BY <1>1 DEF HasTag
<1>4. /\ HasTag(buf, f)' = HasTag(buf, f) /\ HasTag(buf, g)' = HasTag(buf, g)
      /\ InReceived(f)' = InReceived(f) /\ InReceived(g)' = InReceived(g)
      /\ received' = received
  BY DEF HasTag, InReceived, readerVars
<1>5. \A i, j \in DOMAIN received' :
         HasTag(received[i], f)' /\ HasTag(received[j], g)' => i <= j
  BY <1>4 DEF Before, HasTag
<1> QED
  BY <1>2, <1>3, <1>4, <1>5 DEF Before

\* While the frames in the hands of writers only get fewer, each stays in one.
LEMMA FewerOpen ==
    ASSUME OneWriter, UNCHANGED <<frame, alone>>, Open' \subseteq Open
    PROVE  OneWriter'
BY DEF OneWriter

\* Tags of bytes that are appended.
LEMMA TagsAppended ==
    ASSUME TypeOK, TagsStarted, UNCHANGED readerVars, Frames \subseteq Frames',
           NEW new \in Seq(Byte), stream' = stream \o new,
           \A i \in DOMAIN new : new[i].of \in Frames'
    PROVE  TagsStarted'
<1>1. \A i \in DOMAIN stream' : stream'[i].of \in Frames'
  <2>1. /\ \A i \in DOMAIN stream : stream'[i] = stream[i]
        /\ \A i \in DOMAIN stream' : i \notin DOMAIN stream =>
             i - Len(stream) \in DOMAIN new /\ stream'[i] = new[i - Len(stream)]
    BY AppendedBytes
  <2> QED
    BY <2>1 DEF TagsStarted
<1>2. buf' = buf /\ received' = received
  BY DEF readerVars
<1> QED
  BY <1>1, <1>2 DEF TagsStarted

\* A writer goes on with its frame.
LEMMA GoesOn ==
    ASSUME TypeOK, LoneInv, NEW w \in Open, UNCHANGED <<frame, alone, bodies, readerVars>>,
           NEW a \in {"body", "idle"}, at' = [at EXCEPT ![w] = a],
           NEW new \in Seq(Byte), stream' = stream \o new,
           \A i \in DOMAIN new : new[i].of = frame[w],
           frame[w] \in alone =>
             /\ Sent(frame[w])' = Sent(frame[w]) + Len(new)
             /\ \A i \in DOMAIN new : new[i] = TaggedByte(frame[w], Sent(frame[w]) + i)
    PROVE  LoneInv'
<1>1. Open' \subseteq Open /\ \A v \in Writers : v /= w => at'[v] = at[v]
  BY DEF TypeOK, Open
<1>2. Frames' = Frames /\ frame[w] \in Frames /\ alone \subseteq Frames
  BY DEF Frames, TypeOK, Open
<1>3. ASSUME NEW f \in alone, f /= frame[w]
      PROVE  ~IsOpen(f) /\ ~IsOpen(f)' /\ Sent(f)' = Sent(f)
  <2>1. ~IsOpen(f)
    BY <1>3 DEF LoneInv, OneWriter, IsOpen
  <2>2. ~IsOpen(f)'
    BY <1>1, <2>1 DEF IsOpen
  <2> QED
    BY <2>1, <2>2 DEF Sent, IsOpen
<1>4. Lone'
  <2> SUFFICES ASSUME NEW f \in alone
               PROVE  \E p \in 0..Len(stream'), r \in 0..Sent(f)' : LoneAt(f, p, r)'
    BY DEF Lone
  <2>1. PICK p \in 0..Len(stream), r \in 0..Sent(f) : LoneAt(f, p, r)
    BY DEF LoneInv, Lone
  <2>2. CASE f = frame[w]
    <3>1. IsOpen(f)
      BY <2>2 DEF IsOpen
    <3>2. LoneAt(f, p, r)' /\ p \in 0..Len(stream') /\ r \in 0..Sent(f)'
      BY <1>2, <2>1, <2>2, <3>1, OwnAppends
    <3> QED
      BY <3>2
  <2>3. CASE f /= frame[w]
    <3>1. LoneAt(f, p, r)' /\ p \in 0..Len(stream') /\ r \in 0..Sent(f)'
      BY <1>2, <1>3, <2>1, <2>3, OtherAppends
    <3> QED
      BY <3>1
  <2> QED
    BY <2>2, <2>3
<1>5. OneWriter'
  BY <1>1, FewerOpen DEF LoneInv
<1>6. TagsStarted'
  BY <1>2, TagsAppended DEF LoneInv
<1>7. Ordered'
  <2> SUFFICES ASSUME NEW f \in alone, NEW g \in alone, f < g
               PROVE  ~IsOpen(f)' /\ Before(f, g)'
    BY DEF Ordered
  <2>1. ~IsOpen(f) /\ Before(f, g)
    BY DEF LoneInv, Ordered
  <2>2. f /= frame[w]
    BY <2>1 DEF IsOpen
  <2> QED
    BY <1>3, <2>1, <2>2, BeforeAppends
<1> QED
  BY <1>4, <1>5, <1>6, <1>7 DEF LoneInv

\* Bytes of a frame as they are sent.
LEMMA TaggedBytes ==
    ASSUME NEW bytes \in Seq(Bytes), NEW f \in 1..MaxFrames
    PROVE  /\ Tagged(bytes, f) \in Seq(Byte) /\ Len(Tagged(bytes, f)) = Len(bytes)
           /\ DOMAIN Tagged(bytes, f) = 1..Len(bytes)
           /\ \A i \in 1..Len(bytes) : Tagged(bytes, f)[i] = [byte |-> bytes[i], of |-> f]
BY TaggedType DEF Tagged

\* The same of a mark.
LEMMA TaggedMark ==
    ASSUME NEW b \in Bytes, NEW c \in Bytes, NEW f \in 1..MaxFrames,
           NEW new, new = Tagged(<<b, c>>, f)
    PROVE  /\ new \in Seq(Byte) /\ Len(new) = 2 /\ DOMAIN new = 1..2
           /\ new[1] = [byte |-> b, of |-> f] /\ new[2] = [byte |-> c, of |-> f]
<1>1. /\ <<b, c>> \in Seq(Bytes) /\ Len(<<b, c>>) = 2 /\ <<b, c>>[1] = b /\ <<b, c>>[2] = c
  OBVIOUS
<1> DEFINE mark == <<b, c>>
<1> HIDE DEF mark
<1>2. /\ new \in Seq(Byte) /\ Len(new) = 2 /\ DOMAIN new = 1..2
      /\ \A i \in 1..2 : new[i] = [byte |-> mark[i], of |-> f]
  BY <1>1, TaggedBytes DEF mark
<1>3. 1 \in 1..2 /\ 2 \in 1..2
  OBVIOUS
<1>4. new[1] = [byte |-> mark[1], of |-> f] /\ new[2] = [byte |-> mark[2], of |-> f]
  BY <1>2, <1>3
<1> QED
  BY <1>1, <1>2, <1>4 DEF mark

\* What of its frame a writer has sent.
LEMMA SentOfWriter ==
    ASSUME TypeOK, OneWriter, NEW w \in Open
    PROVE  /\ at[w] = "start" => Sent(frame[w]) = 2
           /\ at[w] = "body" => Sent(frame[w]) = Len(bodies[frame[w]]) + 2
BY DEF OneWriter, Sent, IsOpen

\* The three sends.
LEMMA LoneSendBody == ASSUME TypeOK, LoneInv, NEW w \in Writers, SendBody(w) PROVE LoneInv'
<1> DEFINE f == frame[w]
           body == bodies[f]
           new == Tagged(body, f)
<1>1. w \in Open /\ at[w] = "start"
  BY DEF SendBody, Open
<1>2. f \in Frames /\ f \in 1..MaxFrames /\ body \in Seq(Bytes) /\ Len(body) \in Nat
  BY <1>1, BodiesAssumption DEF TypeOK, Frames, Open
<1>3. /\ stream' = stream \o new /\ at' = [at EXCEPT ![w] = "body"]
      /\ UNCHANGED <<frame, alone, bodies, readerVars>>
  BY DEF SendBody, Send
<1>4. /\ new \in Seq(Byte) /\ Len(new) = Len(body) /\ DOMAIN new = 1..Len(body)
      /\ \A i \in 1..Len(body) : new[i] = [byte |-> body[i], of |-> f]
  BY <1>2, TaggedBytes
<1> HIDE DEF new
<1>5. Sent(f) = 2
  BY <1>1, SentOfWriter DEF LoneInv
<1>6. Sent(f)' = Len(body) + 2
  <2>1. \A v \in Open : frame[v] = f => v = w
    BY <1>1 DEF LoneInv, OneWriter
  <2>2. /\ w \in Open' /\ at'[w] = "body" /\ frame'[w] = f
        /\ \A v \in Open' : frame'[v] = f => v = w
    BY <1>1, <1>3, <2>1 DEF Open, TypeOK
  <2>3. IsOpen(f)' /\ ~\E v \in Open' : frame'[v] = f /\ at'[v] = "start"
    BY <2>2 DEF IsOpen
  <2> QED
    BY <1>3, <2>3 DEF Sent
<1>7. ASSUME NEW i \in 1..Len(body)
      PROVE  new[i] = TaggedByte(f, Sent(f) + i)
  <2>1. TextByte(f, 2 + i) = body[i]
    <3>1. 2 + i /= 1 /\ 2 + i /= 2 /\ 2 + i <= Len(body) + 2 /\ 2 + i - 2 = i
      BY <1>2
    <3> QED
      BY <3>1 DEF TextByte
  <2> QED
    BY <1>4, <1>5, <2>1 DEF TaggedByte
<1>8. Sent(f)' = Sent(f) + Len(new)
  BY <1>2, <1>4, <1>5, <1>6
<1>9. \A i \in DOMAIN new : new[i].of = f /\ new[i] = TaggedByte(f, Sent(f) + i)
  BY <1>4, <1>7 DEF TaggedByte
<1> QED
  BY <1>1, <1>3, <1>4, <1>8, <1>9, GoesOn

LEMMA LoneSendEnd == ASSUME TypeOK, LoneInv, NEW w \in Writers, SendEnd(w) PROVE LoneInv'
<1> DEFINE f == frame[w]
           n == Len(bodies[f])
           new == Tagged(<<"!", "#">>, f)
<1>1. w \in Open /\ at[w] = "body"
  BY DEF SendEnd, Open
<1>2. f \in Frames /\ f \in 1..MaxFrames /\ n \in Nat \ {0}
  BY <1>1, TextFacts DEF TypeOK, Frames, Open
<1>3. /\ stream' = stream \o new /\ at' = [at EXCEPT ![w] = "idle"]
      /\ UNCHANGED <<frame, alone, bodies, readerVars>>
  BY DEF SendEnd, Send
<1>4. /\ new \in Seq(Byte) /\ Len(new) = 2 /\ DOMAIN new = 1..2
      /\ new[1] = [byte |-> "!", of |-> f] /\ new[2] = [byte |-> "#", of |-> f]
  <2>1. "!" \in Bytes /\ "#" \in Bytes
    BY DEF Bytes
  <2> QED
    BY <1>2, <2>1, TaggedMark
<1> HIDE DEF new
<1>5. Sent(f) = n + 2
  BY <1>1, SentOfWriter DEF LoneInv
<1>6. Sent(f)' = n + 4
  <2>1. \A v \in Open : frame[v] = f => v = w
    BY <1>1 DEF LoneInv, OneWriter
  <2>2. w \notin Open' /\ Open' \subseteq Open
    BY <1>1, <1>3 DEF Open, TypeOK
  <2>3. ~IsOpen(f)' /\ ~\E v \in Open' : frame'[v] = f /\ at'[v] = "start"
    BY <1>3, <2>1, <2>2 DEF IsOpen
  <2> QED
    BY <1>3, <2>3 DEF Sent
<1>7. TextByte(f, n + 2 + 1) = "!" /\ TextByte(f, n + 2 + 2) = "#"
  BY <1>2 DEF TextByte
<1>8. Sent(f)' = Sent(f) + Len(new)
  BY <1>2, <1>4, <1>5, <1>6
<1>9. \A i \in DOMAIN new : new[i].of = f /\ new[i] = TaggedByte(f, Sent(f) + i)
  <2>1. new[1] = TaggedByte(f, Sent(f) + 1) /\ new[2] = TaggedByte(f, Sent(f) + 2)
    BY <1>4, <1>5, <1>7 DEF TaggedByte
  <2>2. \A i \in DOMAIN new : i = 1 \/ i = 2
    BY <1>4
  <2> QED
    BY <1>4, <2>1, <2>2
<1> QED
  BY <1>1, <1>3, <1>4, <1>8, <1>9, GoesOn

LEMMA LoneSendStart ==
    ASSUME IInv, LoneInv, NEW w \in Writers, NEW body \in Bodies, SendStart(w, body)
    PROVE  LoneInv'
<1>k. PICK k \in Nat : k = Len(bodies')
  BY BoundsAssumption DEF IInv, TypeOK, SendStart
<1> DEFINE new == Tagged(<<"!", "&">>, k)
<1>0. TypeOK
  BY DEF IInv
<1>1. /\ k \in 1..MaxFrames /\ Frames' = Frames \cup {k} /\ k \notin Frames
      /\ bodies'[k] = body /\ \A f \in Frames : bodies'[f] = bodies[f]
  BY BoundsAssumption, <1>0, <1>k DEF TypeOK, SendStart, Frames
<1>2. /\ stream' = stream \o new
      /\ UNCHANGED readerVars
      /\ Open' = Open \cup {w} /\ w \notin Open
      /\ \A v \in Open : frame'[v] = frame[v] /\ at'[v] = at[v]
      /\ frame'[w] = k /\ at'[w] = "start"
  BY <1>0, <1>k DEF SendStart, Send, Open, TypeOK
<1>3. \A v \in Open : frame[v] \in Frames
  BY <1>0 DEF TypeOK, Open
<1>4. /\ new \in Seq(Byte) /\ Len(new) = 2 /\ DOMAIN new = 1..2
      /\ new[1] = [byte |-> "!", of |-> k] /\ new[2] = [byte |-> "&", of |-> k]
  <2>1. "!" \in Bytes /\ "&" \in Bytes
    BY DEF Bytes
  <2> QED
    BY <1>1, <2>1, TaggedMark
<1> HIDE DEF new
<1>5. \A i \in DOMAIN new : new[i].of = k
  BY <1>4
<1>6. /\ alone \subseteq Frames
      /\ \A f \in alone' : f \in alone \/ f = k
      /\ k \in alone' => Open = {}
      /\ \A f \in alone' : f \in alone => \A v \in Open : frame[v] /= f
  BY <1>0, <1>1, <1>k DEF SendStart, TypeOK
<1>7. ASSUME NEW f \in alone, f \in alone'
      PROVE  ~IsOpen(f) /\ ~IsOpen(f)' /\ Sent(f)' = Sent(f)
  <2>1. f /= k
    BY <1>1, <1>6
  <2>2. ~IsOpen(f)
    BY <1>6, <1>7 DEF IsOpen
  <2>3. ~IsOpen(f)'
    BY <1>2, <2>1, <2>2 DEF IsOpen
  <2>4. bodies'[f] = bodies[f]
    BY <1>1, <1>6
  <2> QED
    BY <2>2, <2>3, <2>4 DEF Sent, IsOpen
<1>8. OneWriter'
  <2>1. ASSUME NEW v \in Open', NEW u \in Open', frame'[v] = frame'[u] PROVE v = u
    BY <1>1, <1>2, <1>3, <2>1 DEF LoneInv, OneWriter
  <2>2. ASSUME NEW f \in alone', NEW v \in Open', frame'[v] = f PROVE Open' = {v}
    BY <1>1, <1>2, <1>6, <2>2
  <2> QED
    BY <2>1, <2>2 DEF OneWriter
<1>9. TagsStarted'
  BY <1>0, <1>1, <1>2, <1>4, <1>5, TagsAppended DEF LoneInv
<1>10. ~HasTag(stream, k) /\ ~HasTag(buf, k) /\ ~InReceived(k)
  BY <1>1 DEF LoneInv, TagsStarted, HasTag, InReceived
<1>11. Ordered'
  <2> SUFFICES ASSUME NEW f \in alone', NEW g \in alone', f < g
               PROVE  ~IsOpen(f)' /\ Before(f, g)'
    BY DEF Ordered
  <2>1. f \in alone
    <3>1. k \in Nat /\ \A e \in Frames : e \in Nat /\ e < k
      BY <1>0, <1>k, BoundsAssumption DEF TypeOK, SendStart, Frames
    <3>2. g \in Nat /\ g <= k
      <4>1. g \in Frames \/ g = k
        BY <1>6
      <4> QED
        BY <3>1, <4>1
    <3>3. f /= k
      BY <3>1, <3>2
    <3> QED
      BY <1>6, <3>3
  <2>2. f /= k
    BY <1>1, <1>6, <2>1
  <2>3. Before(f, g)
    <3>1. CASE g = k
      BY <1>10, <3>1 DEF Before, HasTag, InReceived
    <3>2. CASE g \in alone
      BY <2>1, <3>2 DEF LoneInv, Ordered
    <3> QED
      BY <1>6, <3>1, <3>2
  <2> QED
    BY <1>0, <1>2, <1>4, <1>5, <1>7, <2>1, <2>2, <2>3, BeforeAppends
<1>12. Lone'
  <2> SUFFICES ASSUME NEW f \in alone'
               PROVE  \E p \in 0..Len(stream'), r \in 0..Sent(f)' : LoneAt(f, p, r)'
    BY DEF Lone
  <2>1. CASE f \in alone
    <3>1. PICK p \in 0..Len(stream), r \in 0..Sent(f) : LoneAt(f, p, r)
      BY <2>1 DEF LoneInv, Lone
    <3>2. f \in Frames /\ f /= k /\ bodies'[f] = bodies[f]
      BY <1>1, <1>6, <2>1
    <3>3. LoneAt(f, p, r)' /\ p \in 0..Len(stream') /\ r \in 0..Sent(f)'
      BY <1>0, <1>2, <1>4, <1>5, <1>7, <2>1, <3>1, <3>2, OtherAppends
    <3> QED
      BY <3>3
  <2>2. CASE f = k
    <3>1. Open = {} /\ ~closed
      BY <1>6, <2>2 DEF SendStart
    <3>2. PICK p \in Nat : p = Len(stream)
      BY <1>0 DEF TypeOK
    <3>3. MarkBefore(p)
      <4>1. p = 0 => stream = << >>
        <5>1. stream \in Seq(Byte)
          BY <1>0 DEF TypeOK
        <5> QED
          BY <3>2, <5>1, EmptySeq
      <4> QED
        BY <3>1, <3>2, <4>1 DEF IInv, EndsWithMark, MarkBefore
    <3>4. MarkBefore(p)'
      <4>1. state' = state /\ p \in 0..Len(stream)
        BY <1>2, <3>2 DEF readerVars
      <4> QED
        BY <1>0, <1>2, <1>4, <3>3, <4>1, MarkStays
    <3>5. IsOpen(k)' /\ Sent(k)' = 2
      BY <1>2 DEF IsOpen, Sent
    <3>6. Receiver(k, 0)'
      <4>1. ~HasTag(buf, k)' /\ ~InReceived(k)'
        BY <1>2, <1>10 DEF HasTag, InReceived, readerVars
      <4>2. 0 < End(k)' /\ End(k)' \in Nat
        <5>1. Len(Cut(body)) \in Nat
          BY BodiesAssumption, CutFacts
        <5> QED
          BY <1>1, <5>1 DEF End
      <4> QED
        BY <4>1, <4>2 DEF Receiver
    <3>7. /\ Len(stream') = p + 2
          /\ \A i \in DOMAIN stream' : i \in Nat /\ i <= p + 2 /\ i > 0
          /\ \A i \in DOMAIN stream' : i <= p => stream'[i].of /= k
          /\ \A i \in DOMAIN stream' : i > p => stream'[i] = new[i - p]
      <4>1. /\ Len(stream') = Len(stream) + 2
            /\ DOMAIN stream = 1..Len(stream) /\ DOMAIN stream' = 1..Len(stream')
            /\ \A i \in DOMAIN stream : stream'[i] = stream[i]
            /\ \A i \in DOMAIN stream' : i \notin DOMAIN stream =>
                 stream'[i] = new[i - Len(stream)]
        BY <1>0, <1>2, <1>4, AppendedBytes
      <4> QED
        BY <1>10, <3>2, <4>1 DEF HasTag
    <3>8. ASSUME NEW i \in DOMAIN stream'
          PROVE  /\ stream'[i].of = k <=> p < i /\ i <= p + 2 - 0
                 /\ stream'[i].of = k => stream'[i].byte = TextByte(k, i - p + 0)'
      <4>1. CASE i <= p
        BY <3>7, <4>1
      <4>2. CASE i = p + 1
        <5>1. i - p = 1 /\ i > p /\ i - p + 0 = 1
          BY <4>2
        <5>2. stream'[i] = [byte |-> "!", of |-> k]
          BY <1>4, <3>7, <5>1
        <5> QED
          BY <4>2, <5>1, <5>2 DEF TextByte
      <4>3. CASE i = p + 2
        <5>1. i - p = 2 /\ i > p /\ i - p + 0 = 2
          BY <4>3
        <5>2. stream'[i] = [byte |-> "&", of |-> k]
          BY <1>4, <3>7, <5>1
        <5> QED
          BY <4>3, <5>1, <5>2 DEF TextByte
      <4> QED
        BY <3>7, <4>1, <4>2, <4>3
    <3>9. /\ 0 <= Sent(k)' /\ p + Sent(k)' - 0 <= Len(stream')
          /\ p + Sent(k)' - 0 = Len(stream')
      BY <3>5, <3>7
    <3>10. LoneAt(k, p, 0)'
      BY <3>4, <3>5, <3>6, <3>8, <3>9 DEF LoneAt
    <3>11. p \in 0..Len(stream') /\ 0 \in 0..Sent(k)'
      BY <3>5, <3>7
    <3> QED
      BY <2>2, <3>10, <3>11
  <2> QED
    BY <1>6, <2>1, <2>2
<1> QED
  BY <1>8, <1>9, <1>11, <1>12 DEF LoneInv

(***************************************************************************)
(* Reading                                                                 *)
(***************************************************************************)

\* One turn of the loop: byte c is read.
Turn(c) ==
    /\ c \in Bytes /\ Take(c) /\ UNCHANGED writerVars
    /\ \/ state = 0 /\ state' = (IF c = "!" THEN 1 ELSE 0) /\ UNCHANGED <<buf, received>>
       \/ state = 1 /\ state' = (IF c = "&" THEN 2 ELSE 0) /\ UNCHANGED <<buf, received>>
       \/ /\ state \in {2, 3} /\ ~(state = 3 /\ c = "#")
          /\ state' = (IF c = "!" THEN 3 ELSE 2)
          /\ buf' = Append(buf, stream[1]) /\ UNCHANGED received
       \/ /\ state = 3 /\ c = "#" /\ state' = 0
          /\ buf' = << >> /\ received' = Append(received, Front(buf))

\* The four states of the loop are such a turn.
LEMMA Turns ==
    ASSUME TypeOK, AwaitStart \/ AwaitBody \/ Collect \/ Complete
    PROVE  \E c \in Bytes : Turn(c)
<1>1. CASE AwaitStart
  BY <1>1 DEF AwaitStart, Turn
<1>2. CASE AwaitBody
  BY <1>2 DEF AwaitBody, Turn
<1>3. CASE Collect
  <2>1. PICK c \in Bytes : /\ Take(c) /\ ~(state = 3 /\ c = "#")
                           /\ state' = AfterByte(c)
    BY <1>3 DEF Collect
  <2>2. Head(stream) = stream[1]
    BY <2>1, TakeFacts
  <2> QED
    BY <1>3, <2>1, <2>2 DEF Collect, Keep, AfterByte, Turn
<1>4. CASE Complete
  <2>1. "#" \in Bytes
    BY DEF Bytes
  <2> QED
    BY <1>4, <2>1 DEF Complete, ReturnsToStart, ResetsIdx, Turn
<1> QED
  BY <1>1, <1>2, <1>3, <1>4

\* What is returned is buf without the "!" at its end.
LEMMA FrontFacts ==
    ASSUME TypeOK
    PROVE  /\ DOMAIN Front(buf) = 1..(Len(buf) - 1) /\ Len(buf) \in Nat
           /\ \A i \in DOMAIN Front(buf) : i \in DOMAIN buf /\ Front(buf)[i] = buf[i]
           /\ Front(buf) = [i \in 1..(Len(buf) - 1) |-> buf[i]]
BY DEF TypeOK, Front

\* Bytes pass from the connection to buf and from there to what is returned.
LEMMA ReadTags ==
    ASSUME TypeOK, NEW c, Turn(c), NEW f
    PROVE  /\ HasTag(stream, f)' => HasTag(stream, f)
           /\ HasTag(buf, f)' => HasTag(buf, f) \/ stream[1].of = f
           /\ \A i \in DOMAIN received : i \in DOMAIN received' /\ received'[i] = received[i]
           /\ \A i \in DOMAIN received' : i \notin DOMAIN received =>
                /\ \A j \in DOMAIN received' : j <= i
                /\ buf' = << >> /\ received'[i] = Front(buf)
           /\ HasTag(Front(buf), f) => HasTag(buf, f)
           /\ InReceived(f)' => InReceived(f) \/ (HasTag(buf, f) /\ buf' = << >>)
<1>1. HasTag(Front(buf), f) => HasTag(buf, f)
  BY FrontFacts DEF HasTag
<1>2. HasTag(stream, f)' => HasTag(stream, f)
  <2>1. /\ Len(stream) \in Nat /\ Len(stream') = Len(stream) - 1
        /\ \A i \in 1..Len(stream') : stream'[i] = stream[i + 1]
        /\ DOMAIN stream' = 1..Len(stream') /\ DOMAIN stream = 1..Len(stream)
    BY TakeFacts DEF Turn, TypeOK
  <2>2. \A i \in DOMAIN stream' : i + 1 \in DOMAIN stream /\ stream'[i] = stream[i + 1]
    BY <2>1
  <2> QED
    BY <2>2 DEF HasTag
<1>3. HasTag(buf, f)' => HasTag(buf, f) \/ stream[1].of = f
  <2>1. buf' = buf \/ buf' = Append(buf, stream[1]) \/ buf' = << >>
    BY DEF Turn
  <2>2. CASE buf' = Append(buf, stream[1])
    <3>1. /\ DOMAIN buf' = 1..(Len(buf) + 1) /\ Len(buf) \in Nat /\ DOMAIN buf = 1..Len(buf)
          /\ \A i \in 1..(Len(buf) + 1) :
               buf'[i] = IF i <= Len(buf) THEN buf[i] ELSE stream[1]
      BY <2>2 DEF TypeOK
    <3>2. \A i \in DOMAIN buf' : buf'[i] = stream[1] \/ (i \in DOMAIN buf /\ buf'[i] = buf[i])
      BY <3>1
    <3> QED
      BY <3>2 DEF HasTag
  <2> QED
    BY <2>1, <2>2 DEF HasTag
<1>4. /\ \A i \in DOMAIN received : i \in DOMAIN received' /\ received'[i] = received[i]
      /\ \A i \in DOMAIN received' : i \notin DOMAIN received =>
           /\ \A j \in DOMAIN received' : j <= i
           /\ buf' = << >> /\ received'[i] = Front(buf)
  <2>1. CASE UNCHANGED received
    BY <2>1
  <2>2. CASE buf' = << >> /\ received' = Append(received, Front(buf))
    <3>1. /\ DOMAIN received = 1..Len(received) /\ Len(received) \in Nat
          /\ DOMAIN received' = 1..(Len(received) + 1)
          /\ \A i \in 1..Len(received) : received'[i] = received[i]
          /\ received'[Len(received) + 1] = Front(buf)
      BY <2>2 DEF TypeOK
    <3>2. \A i \in DOMAIN received' : i \notin DOMAIN received => i = Len(received) + 1
      BY <3>1
    <3> QED
      BY <2>2, <3>1, <3>2
  <2> QED
    BY <2>1, <2>2 DEF Turn
<1>5. InReceived(f)' => InReceived(f) \/ (HasTag(buf, f) /\ buf' = << >>)
  <2> SUFFICES ASSUME NEW i \in DOMAIN received', HasTag(received'[i], f)
               PROVE  InReceived(f) \/ (HasTag(buf, f) /\ buf' = << >>)
    BY DEF InReceived, HasTag
  <2>1. CASE i \in DOMAIN received
    BY <1>4, <2>1 DEF InReceived
  <2>2. CASE i \notin DOMAIN received
    BY <1>1, <1>4, <2>2
  <2> QED
    BY <2>1, <2>2
<1> QED
  BY <1>1, <1>2, <1>3, <1>4, <1>5

\* Reading keeps the order of two frames.
LEMMA OrderedTurn ==
    ASSUME TypeOK, NEW c, Turn(c), NEW f, NEW g, Before(f, g)
    PROVE  Before(f, g)'
<1>1. /\ Len(stream) \in Nat \ {0} /\ 1 \in DOMAIN stream
      /\ \A i \in DOMAIN stream' : i \in Nat /\ i >= 1 /\ i + 1 \in DOMAIN stream /\ stream'[i] = stream[i + 1]
  <2>1. /\ Len(stream) \in Nat \ {0} /\ Len(stream') = Len(stream) - 1
        /\ \A i \in 1..Len(stream') : stream'[i] = stream[i + 1]
        /\ DOMAIN stream' = 1..Len(stream') /\ DOMAIN stream = 1..Len(stream)
    BY TakeFacts DEF Turn, TypeOK
  <2> QED
    BY <2>1
<1>2. ASSUME NEW i \in DOMAIN stream', NEW j \in DOMAIN stream',
             stream'[i].of = f, stream'[j].of = g
      PROVE  i < j
  <2>1. i + 1 < j + 1
    BY <1>1, <1>2 DEF Before
  <2> QED
    BY <1>1, <2>1
<1>3. stream[1].of = g => ~HasTag(stream, f)'
  <2> SUFFICES ASSUME stream[1].of = g, NEW i \in DOMAIN stream', stream'[i].of = f
               PROVE  FALSE
    BY DEF HasTag
  <2>1. i + 1 < 1
    BY <1>1 DEF Before
  <2> QED
    BY <1>1, <2>1
<1>4. HasTag(buf, g)' \/ InReceived(g)' => ~HasTag(stream, f)'
  BY <1>3, ReadTags DEF Before
<1>5. InReceived(g)' => ~HasTag(buf, f)'
  <2>1. CASE InReceived(g)
    <3>1. ~HasTag(stream, f) /\ ~HasTag(buf, f)
      BY <2>1 DEF Before
    <3>2. stream[1].of /= f
      BY <1>1, <3>1 DEF HasTag
    <3> QED
      BY <3>1, <3>2, ReadTags
  <2>2. CASE buf' = << >>
    BY <2>2 DEF HasTag
  <2> QED
    BY <2>1, <2>2, ReadTags
<1>6. ASSUME NEW i \in DOMAIN received', NEW j \in DOMAIN received',
             HasTag(received'[i], f), HasTag(received'[j], g)
      PROVE  i <= j
  <2>1. CASE j \notin DOMAIN received
    BY <2>1, ReadTags
  <2>2. CASE i \in DOMAIN received /\ j \in DOMAIN received
    BY <1>6, <2>2, ReadTags DEF Before
  <2>3. CASE i \notin DOMAIN received /\ j \in DOMAIN received
    <3>1. InReceived(g)
      BY <1>6, <2>3, ReadTags DEF InReceived
    <3>2. HasTag(buf, f)
      BY <1>6, <2>3, ReadTags
    <3> QED
      BY <3>1, <3>2 DEF Before
  <2> QED
    BY <2>1, <2>2, <2>3
<1> QED
  BY <1>2, <1>4, <1>5, <1>6 DEF Before, HasTag

\* Reading leaves the writers and what is said of them alone.
LEMMA SameWriters ==
    ASSUME NEW f, UNCHANGED writerVars
    PROVE  /\ \A i : TextByte(f, i)' = TextByte(f, i) /\ TaggedByte(f, i)' = TaggedByte(f, i)
           /\ Sent(f)' = Sent(f) /\ IsOpen(f)' = IsOpen(f)
           /\ End(f)' = End(f) /\ Whole(f)' = Whole(f)
           /\ EndMarks(bodies[f])' = EndMarks(bodies[f])
           /\ bodies' = bodies /\ alone' = alone /\ Frames' = Frames /\ Open' = Open /\ frame' = frame
BY DEF writerVars, TextByte, TaggedByte, Sent, IsOpen, End, Whole, Open, Frames

\* The bytes move up by one.
LEMMA StreamTurn ==
    ASSUME TypeOK, NEW c, Turn(c)
    PROVE  /\ Len(stream) \in Nat \ {0} /\ Len(stream') = Len(stream) - 1
           /\ DOMAIN stream = 1..Len(stream) /\ 1 \in DOMAIN stream
           /\ \A i \in DOMAIN stream' : i \in Nat \ {0} /\ i <= Len(stream')
           /\ \A i \in 1..Len(stream') : stream'[i] = stream[i + 1] /\ i + 1 \in DOMAIN stream
           /\ \A i \in DOMAIN stream' : stream'[i] = stream[i + 1] /\ i + 1 \in DOMAIN stream
           /\ c = stream[1].byte /\ stream[1] \in Byte
<1>1. /\ Len(stream) \in Nat \ {0} /\ Len(stream') = Len(stream) - 1
      /\ \A i \in 1..Len(stream') : stream'[i] = stream[i + 1]
      /\ DOMAIN stream' = 1..Len(stream') /\ DOMAIN stream = 1..Len(stream)
      /\ c = stream[1].byte /\ stream[1] \in Byte
  BY TakeFacts DEF Turn, TypeOK
<1> QED
  BY <1>1

\* A returned frame stays returned; a byte of it can still come only if it was
\* cut at an end mark in its body.
LEMMA ReturnedStays ==
    ASSUME TypeOK, NEW c, Turn(c), NEW f, Returned(f),
           EndMarks(bodies[f]) = {} => stream[1].of /= f
    PROVE  Returned(f)'
<1>1. PICK i \in DOMAIN received :
        /\ received[i] = Whole(f)
        /\ EndMarks(bodies[f]) = {} =>
             /\ ~HasTag(buf, f)
             /\ \A j \in DOMAIN received : HasTag(received[j], f) => j = i
  BY DEF Returned
<1>2. i \in DOMAIN received' /\ received'[i] = Whole(f)'
  BY <1>1, ReadTags, SameWriters DEF Turn
<1>3. ASSUME EndMarks(bodies[f]) = {}
      PROVE  /\ ~HasTag(buf, f)'
             /\ \A j \in DOMAIN received' : HasTag(received'[j], f) => j = i
  <2>1. ~HasTag(buf, f)'
    BY <1>1, <1>3, ReadTags
  <2>2. ASSUME NEW j \in DOMAIN received', HasTag(received'[j], f) PROVE j = i
    <3>1. j \in DOMAIN received
      BY <1>1, <1>3, <2>2, ReadTags
    <3> QED
      BY <1>1, <1>3, <2>2, <3>1, ReadTags
  <2> QED
    BY <2>1, <2>2
<1>4. EndMarks(bodies[f])' = EndMarks(bodies[f])
  BY SameWriters DEF Turn
<1> QED
  BY <1>2, <1>3, <1>4 DEF Returned, HasTag

\* A byte before a lone frame is read.
LEMMA TurnBefore ==
    ASSUME TypeOK, NEW c, Turn(c), NEW f \in Frames, NEW p \in Nat \ {0}, LoneAt(f, p, 0)
    PROVE  LoneAt(f, p - 1, 0)' /\ p - 1 \in 0..Len(stream') /\ 0 \in 0..Sent(f)'
<1>1. Sent(f) \in Nat /\ Sent(f)' = Sent(f)
  BY SentType, SameWriters DEF Turn
<1>2. p + Sent(f) <= Len(stream) /\ (IsOpen(f) => p + Sent(f) = Len(stream))
  BY <1>1 DEF LoneAt
<1>3. /\ Len(stream) \in Nat \ {0} /\ Len(stream') = Len(stream) - 1
      /\ DOMAIN stream = 1..Len(stream) /\ 1 \in DOMAIN stream
      /\ \A i \in DOMAIN stream' : i \in Nat \ {0} /\ stream'[i] = stream[i + 1] /\ i + 1 \in DOMAIN stream
      /\ \A i \in 1..Len(stream') : stream'[i] = stream[i + 1]
  BY StreamTurn
<1>4. stream[1].of /= f
  <2>1. ~(p < 1)
    OBVIOUS
  <2> QED
    BY <1>3, <2>1 DEF LoneAt
<1>5. ASSUME NEW i \in DOMAIN stream'
      PROVE  /\ stream'[i].of = f <=> p - 1 < i /\ i <= p - 1 + Sent(f) - 0
             /\ stream'[i].of = f => stream'[i].byte = TextByte(f, i - (p - 1) + 0)
  <2>1. /\ stream[i + 1].of = f <=> p < i + 1 /\ i + 1 <= p + Sent(f) - 0
        /\ stream[i + 1].of = f => stream[i + 1].byte = TextByte(f, i + 1 - p + 0)
    BY <1>3 DEF LoneAt
  <2>2. /\ i \in Nat /\ (p < i + 1 <=> p - 1 < i)
        /\ (i + 1 <= p + Sent(f) - 0 <=> i <= p - 1 + Sent(f) - 0)
        /\ i + 1 - p + 0 = i - (p - 1) + 0
    BY <1>1, <1>3
  <2> QED
    BY <1>3, <2>1, <2>2
<1>6. MarkBefore(p - 1)'
  <2>1. /\ p = 1 => stream[1].byte = "#" /\ state \in {0, 1, 3}
        /\ p >= 2 => stream[p - 1].byte = "!" /\ stream[p].byte = "#"
    BY DEF LoneAt, MarkBefore
  <2>2. c = stream[1].byte
    BY StreamTurn
  <2>3. p = 1 => state' = 0
    BY <2>1, <2>2 DEF Turn
  <2>4. p = 2 => stream'[1].byte = "#" /\ state' \in {0, 1, 3}
    <3>1. p = 2 => 1 \in 1..Len(stream') /\ stream[1].byte = "!" /\ stream[2].byte = "#"
      BY <1>1, <1>2, <1>3, <2>1
    <3>2. p = 2 => stream'[1].byte = "#"
      BY <1>3, <3>1
    <3> QED
      BY <2>2, <3>1, <3>2 DEF Turn
  <2>5. p >= 3 => stream'[p - 2].byte = "!" /\ stream'[p - 1].byte = "#"
    <3>1. p >= 3 => p - 2 \in 1..Len(stream') /\ p - 1 \in 1..Len(stream')
                    /\ p - 2 + 1 = p - 1 /\ p - 1 + 1 = p
      BY <1>1, <1>2, <1>3
    <3>2. p >= 3 => stream'[p - 2] = stream[p - 2 + 1] /\ stream'[p - 1] = stream[p - 1 + 1]
      BY <1>3, <3>1
    <3>3. p >= 3 => stream'[p - 2] = stream[p - 1] /\ stream'[p - 1] = stream[p]
      BY <3>1, <3>2, Zenon
    <3>4. p >= 3 => p >= 2
      OBVIOUS
    <3> QED
      BY <2>1, <3>3, <3>4, Zenon
  <2>6. /\ p - 1 = 0 <=> p = 1
        /\ p - 1 = 1 <=> p = 2
        /\ p - 1 >= 2 <=> p >= 3
        /\ p - 1 - 1 = p - 2
    OBVIOUS
  <2> QED
    BY <2>3, <2>4, <2>5, <2>6 DEF MarkBefore
<1>7. Receiver(f, 0)'
  <2>1. End(f)' = End(f) /\ End(f) \in Nat /\ End(f) > 0
    BY TextFacts, SameWriters DEF Turn
  <2>2. ~HasTag(buf, f) /\ ~InReceived(f)
    BY <2>1 DEF LoneAt, Receiver
  <2>3. ~HasTag(buf, f)' /\ ~InReceived(f)'
    BY <1>4, <2>2, ReadTags
  <2> QED
    BY <2>1, <2>3 DEF Receiver
<1>8. /\ \A i : TextByte(f, i)' = TextByte(f, i)
      /\ IsOpen(f)' = IsOpen(f)
  BY SameWriters DEF Turn
<1>9. /\ 0 <= Sent(f) /\ p - 1 + Sent(f) - 0 <= Len(stream')
      /\ IsOpen(f) => p - 1 + Sent(f) - 0 = Len(stream')
      /\ p - 1 \in 0..Len(stream') /\ 0 \in 0..Sent(f)
  BY <1>1, <1>2, <1>3
<1> QED
  BY <1>1, <1>5, <1>6, <1>7, <1>8, <1>9 DEF LoneAt

\* A byte after a lone frame is read.
LEMMA TurnAfter ==
    ASSUME TypeOK, NEW c, Turn(c), NEW f \in Frames, LoneAt(f, 0, Sent(f))
    PROVE  LoneAt(f, 0, Sent(f))' /\ 0 \in 0..Len(stream') /\ Sent(f)' \in 0..Sent(f)'
<1>1. Sent(f) \in Nat /\ Sent(f)' = Sent(f)
  BY SentType, SameWriters DEF Turn
<1>2. /\ Len(stream) \in Nat \ {0} /\ Len(stream') = Len(stream) - 1
      /\ DOMAIN stream = 1..Len(stream) /\ 1 \in DOMAIN stream
      /\ \A i \in DOMAIN stream' : i \in Nat \ {0} /\ stream'[i] = stream[i + 1] /\ i + 1 \in DOMAIN stream
  BY StreamTurn
<1>3. ASSUME NEW i \in DOMAIN stream PROVE stream[i].of /= f
  <2>1. stream[i].of = f => 0 < i /\ i <= 0 + Sent(f) - Sent(f)
    BY DEF LoneAt
  <2>2. ~(0 < i /\ i <= 0 + Sent(f) - Sent(f))
    BY <1>1, <1>2
  <2> QED
    BY <2>1, <2>2
<1>4. ~IsOpen(f)
  BY <1>1, <1>2 DEF LoneAt
<1>5. Sent(f) >= End(f) /\ Sent(f) > 0 /\ End(f) \in Nat /\ End(f) >= 5
  BY <1>4, TextFacts
<1>6. Returned(f)
  BY <1>5 DEF LoneAt, Receiver
<1>7. Returned(f)'
  BY <1>2, <1>3, <1>6, ReturnedStays
<1>8. /\ \A i : TextByte(f, i)' = TextByte(f, i)
      /\ IsOpen(f)' = IsOpen(f) /\ End(f)' = End(f)
  BY SameWriters DEF Turn
<1>9. \A i \in DOMAIN stream' : stream'[i].of /= f /\ ~(0 < i /\ i <= 0 + Sent(f) - Sent(f))
  BY <1>1, <1>2, <1>3
<1>10. Receiver(f, Sent(f))'
  <2>1. Sent(f) = Len(bodies[f]) + 4 /\ bodies' = bodies /\ Len(bodies[f]) \in Nat
    BY <1>4, TextFacts, SameWriters DEF Turn
  <2>2. ~(Sent(f) < Len(bodies[f]) + 4)
    BY <1>1, <2>1
  <2> QED
    BY <1>1, <1>5, <1>7, <1>8, <2>1, <2>2 DEF Receiver
<1>11. 0 + Sent(f) - Sent(f) = 0 /\ 0 <= Len(stream') /\ Len(stream') \in Nat
  BY <1>1, <1>2
<1> QED
  BY <1>1, <1>4, <1>5, <1>8, <1>9, <1>10, <1>11 DEF LoneAt

\* A byte of a lone frame is read: the receiver follows the frame to its end.
LEMMA ReceiverTurn ==
    ASSUME TypeOK, BufInFrame, NEW c, Turn(c), NEW f \in Frames, NEW r \in Nat,
           r < Sent(f), Receiver(f, r), r = 0 => state = 0,
           stream[1] = TaggedByte(f, r + 1), c = TextByte(f, r + 1)
    PROVE  Receiver(f, r + 1)'
<1>1. /\ End(f)' = End(f) /\ Whole(f)' = Whole(f)
      /\ \A i : TextByte(f, i)' = TextByte(f, i) /\ TaggedByte(f, i)' = TaggedByte(f, i)
      /\ EndMarks(bodies[f])' = EndMarks(bodies[f])
  BY SameWriters DEF Turn
<1>2. End(f) \in Nat /\ End(f) >= 5
  BY TextFacts
<1>3. CASE r = 0
  <2>1. c = "!" /\ state = 0
    BY <1>3, TextFacts
  <2>2. state' = 1 /\ received' = received
    BY <2>1 DEF Turn
  <2>3. ~InReceived(f)
    BY <1>2, <1>3 DEF Receiver
  <2>4. ~InReceived(f)'
    BY <2>2, <2>3 DEF InReceived, HasTag
  <2> QED
    BY <1>1, <1>2, <1>3, <2>2, <2>4 DEF Receiver
<1>4. CASE r = 1
  <2>1. c = "&" /\ state = 1
    BY <1>4, TextFacts DEF Receiver
  <2>2. state' = 2 /\ received' = received /\ buf' = << >>
    BY <2>1 DEF Turn, BufInFrame
  <2>3. ~InReceived(f)
    BY <1>2, <1>4 DEF Receiver
  <2>4. ~InReceived(f)'
    BY <2>2, <2>3 DEF InReceived, HasTag
  <2>5. buf' = [i \in 1..(r + 1 - 2) |-> TaggedByte(f, i + 2)]
    BY <1>4, <2>2
  <2> QED
    BY <1>1, <1>2, <1>4, <2>2, <2>4, <2>5 DEF Receiver
<1>5. CASE r >= 2 /\ r < End(f)
  <2>1. /\ state = IF r > 2 /\ TextByte(f, r) = "!" THEN 3 ELSE 2
        /\ buf = [i \in 1..(r - 2) |-> TaggedByte(f, i + 2)]
        /\ ~InReceived(f)
    BY <1>5 DEF Receiver
  <2>2. CASE r + 1 < End(f)
    <3>1. ~(state = 3 /\ c = "#")
      BY <1>5, <2>1, <2>2, TextFacts
    <3>2. /\ state' = (IF c = "!" THEN 3 ELSE 2)
          /\ buf' = Append(buf, stream[1]) /\ received' = received
      <4>1. state \in {2, 3}
        BY <2>1
      <4> QED
        BY <3>1, <4>1 DEF Turn
    <3>3. buf' = [i \in 1..(r + 1 - 2) |-> TaggedByte(f, i + 2)]
      <4>1. Len(buf) = r - 2 /\ r - 2 \in Nat
        BY <1>5, <2>1 DEF TypeOK
      <4>2. buf' = [i \in 1..(r - 2 + 1) |-> IF i <= r - 2 THEN buf[i] ELSE stream[1]]
        BY <3>2, <4>1 DEF TypeOK
      <4>3. r - 2 + 1 = r + 1 - 2 /\ r - 2 + 1 + 2 = r + 1
        OBVIOUS
      <4>4. ASSUME NEW i \in 1..(r - 2 + 1)
            PROVE  (IF i <= r - 2 THEN buf[i] ELSE stream[1]) = TaggedByte(f, i + 2)
        <5>1. CASE i <= r - 2
          BY <2>1, <4>1, <5>1
        <5>2. CASE i = r - 2 + 1
          BY <4>1, <4>3, <5>2
        <5> QED
          BY <4>1, <5>1, <5>2
      <4> QED
        BY <4>2, <4>3, <4>4
    <3>4. ~InReceived(f)'
      BY <2>1, <3>2 DEF InReceived, HasTag
    <3>5. r + 1 > 2 /\ r + 1 /= 0 /\ r + 1 /= 1 /\ ~(r + 1 >= End(f))
      BY <1>2, <1>5, <2>2
    <3> QED
      BY <1>1, <3>2, <3>3, <3>4, <3>5 DEF Receiver
  <2>3. CASE r + 1 = End(f)
    <3>1. TextByte(f, r) = "!" /\ c = "#" /\ r > 2
      BY <1>2, <2>3, TextFacts
    <3>2. buf' = << >> /\ received' = Append(received, Front(buf))
      BY <2>1, <3>1 DEF Turn
    <3>3. Front(buf) = Whole(f)
      <4>1. Len(buf) = r - 2 /\ r - 2 \in Nat
        BY <1>5, <2>1 DEF TypeOK
      <4>2. Front(buf) = [i \in 1..(r - 2 - 1) |-> buf[i]]
        BY <4>1, FrontFacts
      <4>3. Whole(f) = [i \in 1..(End(f) - 4) |-> TaggedByte(f, i + 2)]
        BY TextFacts
      <4>4. End(f) - 4 = r - 2 - 1 /\ \A i \in 1..(r - 2 - 1) : i \in 1..(r - 2)
        BY <1>2, <2>3, <4>1
      <4> QED
        BY <2>1, <4>2, <4>3, <4>4
    <3>4. /\ Len(received) \in Nat /\ DOMAIN received = 1..Len(received)
          /\ DOMAIN received' = 1..(Len(received) + 1)
          /\ \A i \in 1..Len(received) : received'[i] = received[i]
          /\ received'[Len(received) + 1] = Whole(f)
      BY <3>2, <3>3 DEF TypeOK
    <3>5. \A j \in DOMAIN received' : HasTag(received'[j], f) => j = Len(received) + 1
      <4> SUFFICES ASSUME NEW j \in DOMAIN received', HasTag(received'[j], f), j \in DOMAIN received
                   PROVE  FALSE
        BY <3>4
      <4> QED
        BY <2>1, <3>4 DEF InReceived
    <3>6. Returned(f)'
      <4>1. ~HasTag(buf, f)'
        BY <3>2 DEF HasTag
      <4>2. Len(received) + 1 \in DOMAIN received'
        BY <3>4
      <4>3. received'[Len(received) + 1] = Whole(f)'
        BY <1>1, <3>4
      <4>4. \A j \in DOMAIN received' : HasTag(received[j], f)' => j = Len(received) + 1
        BY <3>5 DEF HasTag
      <4> QED
        BY <4>1, <4>2, <4>3, <4>4 DEF Returned
    <3>7. r + 1 /= 0 /\ r + 1 /= 1 /\ ~(r + 1 < End(f))
      BY <1>2, <2>3
    <3>8. Len(buf') = 0 /\ 0 <= r + 1 - End(f)
      BY <1>2, <2>3, <3>2
    <3> QED
      BY <1>1, <1>2, <3>6, <3>7, <3>8 DEF Receiver
  <2> QED
    BY <1>2, <1>5, <2>2, <2>3
<1>6. CASE r >= End(f)
  <2>1. Returned(f)
    BY <1>6 DEF Receiver
  <2>2. EndMarks(bodies[f]) /= {}
    <3>1. Sent(f) \in Nat /\ Sent(f) <= Len(bodies[f]) + 4 /\ Len(bodies[f]) \in Nat
      BY SentType, Zenon
    <3>2. End(f) /= Len(bodies[f]) + 4
      BY <1>2, <1>6, <3>1
    <3> QED
      BY <3>2, TextFacts
  <2>3. Returned(f)'
    BY <2>1, <2>2, ReturnedStays
  <2>4. r + 1 /= 0 /\ r + 1 /= 1 /\ ~(r + 1 < End(f))
    BY <1>2, <1>6
  <2>5. r < Len(bodies[f]) + 4 => Len(buf') <= r + 1 - End(f)
    <3> SUFFICES ASSUME r < Len(bodies[f]) + 4 PROVE Len(buf') <= r + 1 - End(f)
      OBVIOUS
    <3>1. Len(buf) <= r - End(f) /\ buf \in Seq(Byte) /\ Len(buf) \in Nat
      BY <1>6 DEF Receiver, TypeOK
    <3>2. stream[1] \in Byte
      BY StreamTurn
    <3>3. buf' = buf \/ buf' = Append(buf, stream[1]) \/ buf' = << >>
      BY DEF Turn
    <3>4. Len(buf') <= Len(buf) + 1 /\ Len(buf') \in Nat
      BY <3>1, <3>2, <3>3
    <3> QED
      BY <1>2, <3>1, <3>4
  <2>6. /\ bodies' = bodies /\ Len(bodies[f]) \in Nat
        /\ r + 1 < Len(bodies[f]) + 4 => r < Len(bodies[f]) + 4
    BY SentType, SameWriters DEF Turn
  <2>7. Len(buf') \in Nat
    BY DEF TypeOK, Turn
  <2> QED
    BY <1>1, <1>2, <2>3, <2>4, <2>5, <2>6, <2>7 DEF Receiver
<1> QED
  BY <1>2, <1>3, <1>4, <1>5, <1>6

\* The position in the frame moves along.
LEMMA TurnIn ==
    ASSUME TypeOK, BufInFrame, NEW c, Turn(c), NEW f \in Frames, NEW r \in Nat,
           r < Sent(f), LoneAt(f, 0, r)
    PROVE  LoneAt(f, 0, r + 1)' /\ 0 \in 0..Len(stream') /\ r + 1 \in 0..Sent(f)'
<1>1. Sent(f) \in Nat /\ Sent(f)' = Sent(f)
  BY SentType, SameWriters DEF Turn
<1>2. Sent(f) - r <= Len(stream) /\ (IsOpen(f) => Sent(f) - r = Len(stream))
  BY <1>1 DEF LoneAt
<1>3. /\ Len(stream) \in Nat \ {0} /\ Len(stream') = Len(stream) - 1
      /\ DOMAIN stream = 1..Len(stream) /\ 1 \in DOMAIN stream
      /\ \A i \in DOMAIN stream' : i \in Nat \ {0} /\ stream'[i] = stream[i + 1] /\ i + 1 \in DOMAIN stream
      /\ c = stream[1].byte /\ stream[1] \in Byte
  BY StreamTurn
<1>4. stream[1] = TaggedByte(f, r + 1) /\ c = TextByte(f, r + 1)
  <2>1. /\ stream[1].of = f <=> 0 < 1 /\ 1 <= 0 + Sent(f) - r
        /\ stream[1].of = f => stream[1].byte = TextByte(f, 1 - 0 + r)
    BY <1>3 DEF LoneAt
  <2>2. 1 <= 0 + Sent(f) - r /\ 1 - 0 + r = r + 1
    BY <1>1
  <2>3. stream[1].of = f /\ stream[1].byte = TextByte(f, r + 1)
    BY <2>1, <2>2
  <2> QED
    BY <1>3, <2>3 DEF TaggedByte, Byte
<1>5. ASSUME NEW i \in DOMAIN stream'
      PROVE  /\ stream'[i].of = f <=> 0 < i /\ i <= 0 + Sent(f) - (r + 1)
             /\ stream'[i].of = f => stream'[i].byte = TextByte(f, i - 0 + (r + 1))
  <2>1. /\ stream[i + 1].of = f <=> 0 < i + 1 /\ i + 1 <= 0 + Sent(f) - r
        /\ stream[i + 1].of = f => stream[i + 1].byte = TextByte(f, i + 1 - 0 + r)
    BY <1>3 DEF LoneAt
  <2>2. /\ i \in Nat /\ 0 < i /\ 0 < i + 1
        /\ (i + 1 <= 0 + Sent(f) - r <=> i <= 0 + Sent(f) - (r + 1))
        /\ i + 1 - 0 + r = i - 0 + (r + 1)
    <3>1. PICK s \in Nat : s = Sent(f)
      BY <1>1
    <3>2. i \in Nat \ {0}
      BY <1>3
    <3>3. i + 1 <= 0 + s - r <=> i <= 0 + s - (r + 1)
      BY <3>2
    <3>4. 0 < i /\ 0 < i + 1 /\ i + 1 - 0 + r = i - 0 + (r + 1)
      BY <3>2
    <3> QED
      BY <3>1, <3>2, <3>3, <3>4
  <2> QED
    BY <1>3, <2>1, <2>2
<1>6. Receiver(f, r + 1)'
  BY <1>4, ReceiverTurn DEF LoneAt, MarkBefore
<1>7. /\ \A i : TextByte(f, i)' = TextByte(f, i)
      /\ IsOpen(f)' = IsOpen(f)
  BY SameWriters DEF Turn
<1>8. /\ r + 1 <= Sent(f) /\ 0 + Sent(f) - (r + 1) <= Len(stream')
      /\ IsOpen(f) => 0 + Sent(f) - (r + 1) = Len(stream')
      /\ 0 \in 0..Len(stream') /\ r + 1 \in 0..Sent(f) /\ r + 1 /= 0
  BY <1>1, <1>2, <1>3
<1> QED
  BY <1>1, <1>5, <1>6, <1>7, <1>8 DEF LoneAt

\* A turn moves every lone frame along.
LEMMA LoneTurn == ASSUME IInv, LoneInv, NEW c, Turn(c) PROVE LoneInv'
<1>0. TypeOK /\ BufInFrame
  BY DEF IInv
<1>1. /\ alone' = alone /\ Frames' = Frames /\ Open' = Open /\ frame' = frame
      /\ alone \subseteq Frames
      /\ \A f : Sent(f)' = Sent(f) /\ IsOpen(f)' = IsOpen(f)
  BY <1>0, SameWriters DEF Turn, TypeOK
<1>2. Lone'
  <2> SUFFICES ASSUME NEW f \in alone
               PROVE  \E p \in 0..Len(stream'), r \in 0..Sent(f)' : LoneAt(f, p, r)'
    BY <1>1 DEF Lone
  <2>1. PICK p \in 0..Len(stream), r \in 0..Sent(f) : LoneAt(f, p, r)
    BY DEF LoneInv, Lone
  <2>2. f \in Frames /\ Sent(f) \in Nat /\ p \in Nat /\ r \in Nat
    <3>1. f \in Frames /\ Len(stream) \in Nat
      BY <1>0, <1>1 DEF TypeOK
    <3>2. Sent(f) \in Nat
      BY <1>0, <3>1, SentType, Zenon
    <3> QED
      BY <3>1, <3>2
  <2>3. CASE p /= 0
    <3>1. r = 0
      BY <2>1, <2>2, <2>3 DEF LoneAt
    <3>2. LoneAt(f, p - 1, 0)' /\ p - 1 \in 0..Len(stream') /\ 0 \in 0..Sent(f)'
      BY <1>0, <2>1, <2>2, <2>3, <3>1, TurnBefore
    <3> QED
      BY <3>2
  <2>4. CASE p = 0 /\ r < Sent(f)
    <3>1. LoneAt(f, 0, r + 1)' /\ 0 \in 0..Len(stream') /\ r + 1 \in 0..Sent(f)'
      BY <1>0, <2>1, <2>2, <2>4, TurnIn
    <3> QED
      BY <3>1
  <2>5. CASE p = 0 /\ r = Sent(f)
    <3>1. LoneAt(f, 0, Sent(f))' /\ 0 \in 0..Len(stream') /\ Sent(f)' \in 0..Sent(f)'
      BY <1>0, <2>1, <2>2, <2>5, TurnAfter
    <3> QED
      BY <1>1, <2>5, <3>1
  <2> QED
    BY <2>1, <2>2, <2>3, <2>4, <2>5
<1>3. OneWriter'
  BY <1>1, FewerOpen DEF LoneInv
<1>4. TagsStarted'
  <2>1. stream[1].of \in Frames
    BY <1>0, StreamTurn DEF LoneInv, TagsStarted
  <2>2. \A f : HasTag(stream, f) \/ HasTag(buf, f) \/ InReceived(f) => f \in Frames
    BY DEF LoneInv, TagsStarted, HasTag, InReceived
  <2>3. \A f : HasTag(stream, f)' \/ HasTag(buf, f)' \/ InReceived(f)' => f \in Frames
    BY <1>0, <2>1, <2>2, ReadTags
  <2> QED
    BY <1>1, <2>3 DEF TagsStarted, HasTag, InReceived
<1>5. Ordered'
  BY <1>0, <1>1, OrderedTurn DEF LoneInv, Ordered
<1> QED
  BY <1>2, <1>3, <1>4, <1>5 DEF LoneInv

\* With the connection all frames are forgotten.
LEMMA LoneReturnError == ASSUME ReturnError PROVE LoneInv'
<1>1. /\ alone' = {} /\ stream' = << >> /\ buf' = << >> /\ received' = << >>
      /\ Open' = {}
  BY DEF ReturnError, ForgetsFrame, Open
<1> QED
  BY <1>1 DEF LoneInv, Lone, OneWriter, TagsStarted, Ordered

LEMMA LoneStutter ==
    ASSUME LoneInv, UNCHANGED <<at, frame, stream, state, buf, received, bodies, alone>>
    PROVE  LoneInv'
<1>1. /\ Lone' = Lone
      /\ Open' = Open /\ Frames' = Frames /\ \A f : IsOpen(f)' = IsOpen(f)
      /\ \A f, g : Before(f, g)' = Before(f, g)
  BY DEF Lone, LoneAt, Receiver, Returned, MarkBefore, InReceived, HasTag, End, Sent,
         IsOpen, TaggedByte, TextByte, Whole, Open, Frames, Before
<1> QED
  BY <1>1 DEF LoneInv, OneWriter, TagsStarted, Ordered

LEMMA LoneInit == Init => LoneInv
BY DEF Init, LoneInv, Lone, OneWriter, TagsStarted, Ordered, Open

(***************************************************************************)
(* Where the bytes of the lone frames are, for any number of threads,      *)
(* frames and broken connections.                                          *)
(***************************************************************************)
THEOREM LoneInvariance == Spec => []LoneInv
<1>1. IInv /\ LoneInv /\ [Next]_vars => LoneInv'
  <2> SUFFICES ASSUME IInv, LoneInv, [Next]_vars PROVE LoneInv'
    OBVIOUS
  <2>0. TypeOK
    BY DEF IInv
  <2>1. ASSUME NEW w \in Writers, Write(w) PROVE LoneInv'
    BY <2>0, <2>1, LoneSendStart, LoneSendBody, LoneSendEnd DEF Write
  <2>2. CASE Close
    BY <2>2, LoneStutter DEF Close, readerVars
  <2>3. CASE Read
    <3>1. CASE Overrun
      BY <3>1, LoneStutter DEF Overrun, writerVars
    <3> QED
      BY <2>0, <2>3, <3>1, Turns, LoneTurn, LoneReturnError DEF Read
  <2>4. CASE UNCHANGED vars
    BY <2>4, LoneStutter DEF vars, writerVars, readerVars
  <2> QED
    BY <2>1, <2>2, <2>3, <2>4 DEF Next
<1> QED
  BY LoneInit, <1>1, Invariance, PTL DEF Spec

(***************************************************************************)
(* A frame that met no other is returned, whole unless its body has an end *)
(* mark in it, and then only once, and such frames in the order they were  *)
(* sent: any bodies that begin with a node ID, wherever an earlier         *)
(* connection broke, and after mixed frames as long as none of them has    *)
(* overrun the array.                                                      *)
(***************************************************************************)
THEOREM LoneFrames == Spec => []LoneFramesArrive
<1>1. IInv /\ LoneInv => LoneFramesArrive
  <2> SUFFICES ASSUME IInv, LoneInv PROVE LoneFramesArrive
    OBVIOUS
  <2>0. TypeOK
    BY DEF IInv
  <2>1. ASSUME NEW f \in alone
        PROVE  /\ f \in Frames /\ 1 \in DOMAIN Whole(f) /\ Whole(f)[1].of = f
               /\ HasTag(Whole(f), f)
    <3>1. f \in Frames
      BY <2>0 DEF TypeOK
    <3>2. Whole(f) = [i \in 1..(End(f) - 4) |-> TaggedByte(f, i + 2)] /\ End(f) \in Nat /\ End(f) >= 5
      BY <2>0, <3>1, TextFacts
    <3>3. 1 \in DOMAIN Whole(f) /\ Whole(f)[1] = TaggedByte(f, 1 + 2)
      BY <3>2
    <3> QED
      BY <3>1, <3>3 DEF TaggedByte, HasTag
  <2>2. ASSUME NEW f \in alone, Passed(f)
        PROVE  \E i \in DOMAIN received :
                 /\ received[i] = Whole(f)
                 /\ EndMarks(bodies[f]) = {} =>
                      \A j \in DOMAIN received : received[j] = Whole(f) => j = i
    <3>1. PICK p \in 0..Len(stream), r \in 0..Sent(f) : LoneAt(f, p, r)
      BY DEF LoneInv, Lone
    <3>2. Len(stream) \in Nat /\ DOMAIN stream = 1..Len(stream)
      BY <2>0 DEF TypeOK
    <3>3. ~IsOpen(f)
      BY <2>2 DEF Passed, IsOpen
    <3>4. Sent(f) \in Nat /\ End(f) \in Nat /\ End(f) <= Sent(f)
      <4>1. f \in Frames
        BY <2>1
      <4>2. Len(bodies[f]) \in Nat /\ Sent(f) = Len(bodies[f]) + 4
        BY <2>0, <3>3, <4>1, TextFacts
      <4>3. End(f) \in 5..(Len(bodies[f]) + 4)
        BY <2>0, <4>1, TextFacts
      <4> QED
        BY <4>2, <4>3
    <3>5. r = Sent(f)
      <4>1. p + Sent(f) - r <= Len(stream)
        BY <3>1 DEF LoneAt
      <4>2. p + 1 \in DOMAIN stream => ~(p < p + 1 /\ p + 1 <= p + Sent(f) - r)
        BY <2>2, <3>1 DEF LoneAt, Passed
      <4> QED
        BY <3>2, <3>4, <4>1, <4>2
    <3>6. Returned(f)
      BY <3>1, <3>4, <3>5 DEF LoneAt, Receiver
    <3> QED
      BY <2>1, <3>6 DEF Returned
  <2>3. ASSUME NEW i \in DOMAIN received, NEW j \in DOMAIN received,
               NEW f \in alone, NEW g \in alone,
               received[i] = Whole(f), received[j] = Whole(g), f < g
        PROVE  i < j
    <3>1. i <= j
      BY <2>1, <2>3 DEF LoneInv, Ordered, Before
    <3>2. i /= j
      <4>1. f = g => FALSE
        BY <2>0, <2>3 DEF TypeOK, Frames
      <4> QED
        BY <2>1, <2>3, <4>1
    <3>3. i \in Nat /\ j \in Nat
      BY <2>0 DEF TypeOK
    <3> QED
      BY <3>1, <3>2, <3>3
  <2> QED
    BY <2>2, <2>3 DEF LoneFramesArrive
<1> QED
  BY <1>1, Invariance, LoneInvariance, PTL

(***************************************************************************)
(* A frame that met no other never overruns the array, for any bodies of   *)
(* the size it is declared for: when the receiver comes to it the array is *)
(* empty, and it holds no more than the frame's own bytes while it reads   *)
(* on, also behind an end mark in the body.                                *)
(***************************************************************************)
THEOREM LoneFramesFit == Spec => []LoneFrameFits
<1>1. IInv /\ LoneInv => LoneFrameFits
  <2> SUFFICES ASSUME IInv, LoneInv, stream /= << >>, state \in {2, 3},
                      Head(stream).of \in alone
               PROVE  HasRoom
    BY DEF LoneFrameFits
  <2> DEFINE f == Head(stream).of
  <2>0. TypeOK
    BY DEF IInv
  <2>1. /\ Len(stream) \in Nat /\ 1 \in DOMAIN stream /\ Head(stream) = stream[1]
        /\ stream[1].of = f /\ f \in alone /\ f \in Frames
    BY <2>0 DEF TypeOK
  <2>2. PICK p \in 0..Len(stream), r \in 0..Sent(f) : LoneAt(f, p, r)
    BY <2>1 DEF LoneInv, Lone
  <2> HIDE DEF f
  <2>3. /\ Sent(f) \in Nat /\ Len(bodies[f]) \in Nat /\ Sent(f) <= Len(bodies[f]) + 4
        /\ End(f) \in 5..(Len(bodies[f]) + 4)
        /\ Len(bodies[f]) + 2 <= BufSize
    <3>1. bodies[f] \in Bodies
      BY <2>0, <2>1 DEF TypeOK, Frames
    <3>2. Len(bodies[f]) + 2 <= BufSize
      BY <3>1, BodiesAssumption
    <3>3. /\ Sent(f) \in Nat /\ Len(bodies[f]) \in Nat /\ Sent(f) <= Len(bodies[f]) + 4
      BY <2>0, <2>1, SentType, Zenon
    <3>4. End(f) \in 5..(Len(bodies[f]) + 4)
      BY <2>0, <2>1, TextFacts
    <3> QED
      BY <3>2, <3>3, <3>4
  <2>4. p = 0 /\ r \in Nat /\ r < Sent(f)
    <3>1. p < 1 /\ 1 <= p + Sent(f) - r
      BY <2>1, <2>2 DEF LoneAt
    <3> QED
      BY <2>1, <2>3, <3>1
  <2>5. r /= 0 /\ r /= 1
    BY <2>2, <2>4 DEF LoneAt, MarkBefore, Receiver
  <2>6. Len(buf) \in Nat /\ BufSize \in Nat
    BY <2>0, BoundsAssumption DEF TypeOK
  <2>7. CASE r < End(f)
    <3>1. buf = [i \in 1..(r - 2) |-> TaggedByte(f, i + 2)]
      BY <2>2, <2>4, <2>5, <2>7 DEF LoneAt, Receiver
    <3>2. r - 2 \in Nat
      BY <2>4, <2>5
    <3>3. Len(buf) = r - 2
      BY <2>0, <3>1, <3>2 DEF TypeOK
    <3> QED
      BY <2>3, <2>4, <2>6, <2>7, <3>3 DEF HasRoom
  <2>8. CASE r >= End(f)
    <3>1. Len(buf) <= r - End(f)
      BY <2>2, <2>3, <2>4, <2>8 DEF LoneAt, Receiver
    <3> QED
      BY <2>3, <2>4, <2>6, <3>1 DEF HasRoom
  <2> QED
    BY <2>3, <2>4, <2>7, <2>8
<1> QED
  BY <1>1, Invariance, LoneInvariance, PTL
====
