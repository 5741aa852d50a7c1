---- MODULE SrtSocketsProofs ----
(***************************************************************************)
(* The ports and nodes keep the connections of SRT apart, whatever the     *)
(* processes run and however many clients, sockets and segments there are. *)
(***************************************************************************)
EXTENDS SrtSockets, WellFoundedInduction, TLAPS

(***************************************************************************)
(* Queues of segments                                                      *)
(***************************************************************************)
Holds(queue, seg) == \E k \in DOMAIN queue : queue[k] = seg

\* No a comes after a b.
NeverAfter(queue, a, b) ==
    \A j, k \in DOMAIN queue : queue[j] = b /\ queue[k] = a => k < j

\* What is said of a queue by denying that it holds a segment, or that one
\* comes after another, is still true of new, unless it is about seg.
Quieter(new, queue, seg) ==
    \A a, b : a /= seg =>
      /\ Holds(new, a) => Holds(queue, a)
      /\ NeverAfter(queue, a, b) => NeverAfter(new, a, b)

\* Taking the head of a queue says nothing new about it, and nothing is left
\* that was not to come after that head.
LEMMA QuieterTail ==
    ASSUME NEW S, NEW queue \in Seq(S), queue /= << >>
    PROVE  /\ Tail(queue) \in Seq(S) /\ Head(queue) \in S
           /\ Holds(queue, Head(queue))
           /\ \A a, b :
                /\ Holds(Tail(queue), a) => Holds(queue, a)
                /\ NeverAfter(queue, a, b) =>
                     /\ NeverAfter(Tail(queue), a, b)
                     /\ Head(queue) = b => ~Holds(Tail(queue), a)
           /\ \A seg : Quieter(Tail(queue), queue, seg)
<1>1. /\ Tail(queue) \in Seq(S) /\ Head(queue) = queue[1] /\ 1 \in DOMAIN queue
      /\ Head(queue) \in S
      /\ \A k \in DOMAIN Tail(queue) :
           k \in Nat /\ k > 0 /\ k + 1 \in DOMAIN queue /\ Tail(queue)[k] = queue[k + 1]
  OBVIOUS
<1>2. ASSUME NEW a, Holds(Tail(queue), a) PROVE Holds(queue, a)
  BY <1>1, <1>2 DEF Holds
<1>3. ASSUME NEW a, NEW b, NeverAfter(queue, a, b) PROVE NeverAfter(Tail(queue), a, b)
  <2>1. SUFFICES ASSUME NEW j \in DOMAIN Tail(queue), NEW k \in DOMAIN Tail(queue),
                        Tail(queue)[j] = b, Tail(queue)[k] = a
                 PROVE  k < j
    BY DEF NeverAfter
  <2>2. k + 1 < j + 1 /\ k \in Nat /\ j \in Nat
    BY <1>1, <1>3, <2>1 DEF NeverAfter
  <2> QED
    BY <2>2
<1>4. ASSUME NEW a, NEW b, NeverAfter(queue, a, b), Head(queue) = b, Holds(Tail(queue), a)
      PROVE  FALSE
  <2>1. PICK k \in DOMAIN Tail(queue) : Tail(queue)[k] = a
    BY <1>4 DEF Holds
  <2>2. k + 1 < 1 /\ k \in Nat
    BY <1>1, <1>4, <2>1 DEF NeverAfter
  <2> QED
    BY <2>2
<1>5. Holds(queue, Head(queue))
  BY <1>1 DEF Holds
<1> QED
  BY <1>1, <1>2, <1>3, <1>4, <1>5 DEF Quieter

\* Nor does sending seg, but of seg; and seg is not after what is not there.
LEMMA QuieterEnqueue ==
    ASSUME NEW S, NEW queue \in Seq(S), NEW seg \in S, NEW bound
    PROVE  /\ Enqueue(queue, bound, seg) \in Seq(S)
           /\ Quieter(Enqueue(queue, bound, seg), queue, seg)
           /\ \A b : b /= seg /\ ~Holds(queue, b) =>
                NeverAfter(Enqueue(queue, bound, seg), seg, b)
           /\ \A a : Holds(Enqueue(queue, bound, seg), a) => Holds(queue, a) \/ a = seg
<1> DEFINE new == Append(queue, seg)
<1>1. /\ new \in Seq(S)
      /\ \A k \in DOMAIN new :
           \/ k \in DOMAIN queue /\ new[k] = queue[k]
           \/ k = Len(queue) + 1 /\ new[k] = seg
      /\ \A k \in DOMAIN queue : k < Len(queue) + 1
  OBVIOUS
<1> HIDE DEF new
<1>2. ASSUME NEW a, a /= seg, Holds(new, a) PROVE Holds(queue, a)
  BY <1>1, <1>2 DEF Holds
<1>3. ASSUME NEW a, NEW b, a /= seg, NeverAfter(queue, a, b) PROVE NeverAfter(new, a, b)
  BY <1>1, <1>3 DEF NeverAfter
<1>4. ASSUME NEW b, b /= seg, ~Holds(queue, b)
      PROVE  NeverAfter(new, seg, b) /\ NeverAfter(queue, seg, b)
  BY <1>1, <1>4 DEF NeverAfter, Holds
<1>5. Enqueue(queue, bound, seg) = queue \/ Enqueue(queue, bound, seg) = new
  BY DEF Enqueue, new
<1>6. Quieter(new, queue, seg) /\ Quieter(queue, queue, seg)
  BY <1>2, <1>3 DEF Quieter
<1>7. \A a : Holds(new, a) => Holds(queue, a) \/ a = seg
  BY <1>2
<1> QED
  BY <1>1, <1>4, <1>5, <1>6, <1>7

\* Nor does doing nothing.
LEMMA QuieterSame ==
    ASSUME NEW queue, NEW seg PROVE Quieter(queue, queue, seg)
  BY DEF Quieter

\* Nothing is after a segment that is not there.
LEMMA NotHeld ==
    ASSUME NEW queue, NEW a, NEW b, ~Holds(queue, b) PROVE NeverAfter(queue, a, b)
  BY DEF Holds, NeverAfter

(***************************************************************************)
(* The inductive invariant                                                 *)
(***************************************************************************)

\* A port is that of one socket of a process.
DistinctPorts(table) ==
    \A i, j \in Entries :
      (/\ table[i] /= NULL /\ table[j] /= NULL
       /\ table[i].portNum = table[j].portNum) => i = j

OnePort == DistinctPorts(stcb) /\ \A c \in Clients : DistinctPorts(ctcb[c])

\* The calls that are left use sockets that were created or will be by then.
CreatedFor(n) ==
    \A k \in DOMAIN program[n] :
      \/ sockfds[n][program[n][k].sock] /= 0
      \/ \E j \in 1..k : program[n][j].op = "sock" /\ program[n][j].sock = program[n][k].sock

Created == \A n \in Processes : CreatedFor(n)

\* Where a process is in a call, and in which states its socket is there.
InCallOf(n) ==
    /\ at[n] \notin {"main", "gone"} => program[n] /= << >> /\ Head(program[n]).op /= "sock"
    /\ n \in Clients =>
         /\ at[n] \notin {"accept", "recv"}
         /\ at[n] \in {"connect", "sendSyn"} => State(n) \in {"SYNSENT", "CONNECTED"}
         /\ at[n] \in {"disconnect", "sendFin"} => State(n) \in {"FINWAIT", "CLOSED"}
         /\ at[n] \in {"sendSyn", "sendFin"} => retry[n] > 0
    /\ n = Server =>
         /\ at[n] \in {"main", "accept", "recv", "gone"}
         /\ at[n] \in {"accept", "recv"} => stcb[Socket(n)] /= NULL

InCall == \A n \in Processes : InCallOf(n)

\* Only a connection fills the receive buffer, with its client's data.
Buffers ==
    \A i \in Entries :
      /\ stcb[i].state \in {"CLOSED", "LISTENING"} => stcb[i].recvBuf = << >>
      /\ stcb[i].state \in {"CONNECTED", "CLOSEWAIT"} =>
           \A k \in DOMAIN stcb[i].recvBuf : stcb[i].recvBuf[k] = stcb[i].client

\* A socket with port p of client c that is, or was, connected to port q.
Attached == {"SYNSENT", "CONNECTED", "FINWAIT"}
Mine(c, p, q) ==
    \E i \in Entries : /\ ctcb[c][i].state \in Attached
                       /\ ctcb[c][i].portNum = p /\ ctcb[c][i].svr_portNum = q

\* The server's port q is connected to port p of client c.
ServedAt(c, p, q) ==
    \E i \in Entries : /\ stcb[i].state = "CONNECTED"
                       /\ stcb[i].portNum = q /\ stcb[i].client = <<c, p>>

\* What opens or is a connection belongs to a socket that is not CLOSED.
OnlyAttached(c) ==
    \A p, q \in Nat :
      (\/ Holds(toServer[c], Seg("SYN", p, q))
       \/ Holds(toClient[c], Seg("SYNACK", q, p))
       \/ ServedAt(c, p, q)) => Mine(c, p, q)

\* connect: no FIN of an earlier connection can reach the new one, and the
\* answer is not one to an earlier SYN.
Opening(c, p, q) ==
    /\ NeverAfter(toServer[c], Seg("FIN", p, q), Seg("SYN", p, q))
    /\ ServedAt(c, p, q) => ~Holds(toServer[c], Seg("FIN", p, q))
    /\ Holds(toClient[c], Seg("SYNACK", q, p)) => ServedAt(c, p, q)
    /\ NeverAfter(toClient[c], Seg("FINACK", q, p), Seg("SYNACK", q, p))

\* Connected: nothing on the way can end it.
Open(c, p, q) ==
    /\ ServedAt(c, p, q)
    /\ ~Holds(toServer[c], Seg("FIN", p, q))
    /\ ~Holds(toClient[c], Seg("FINACK", q, p))

\* disconnect: once the server has answered a FIN no SYN opens it again.
Closing(c, p, q) ==
    /\ NeverAfter(toServer[c], Seg("SYN", p, q), Seg("FIN", p, q))
    /\ NeverAfter(toClient[c], Seg("SYNACK", q, p), Seg("FINACK", q, p))
    /\ Holds(toClient[c], Seg("FINACK", q, p)) =>
         ~ServedAt(c, p, q) /\ ~Holds(toServer[c], Seg("SYN", p, q))

InState(c, state, p, q) ==
    /\ state = "SYNSENT" => Opening(c, p, q)
    /\ state = "CONNECTED" => Open(c, p, q)
    /\ state = "FINWAIT" => Closing(c, p, q)

Consistent(c) ==
    /\ OnlyAttached(c)
    /\ \A i \in Entries : ctcb[c][i] /= NULL =>
         InState(c, ctcb[c][i].state, ctcb[c][i].portNum, ctcb[c][i].svr_portNum)

\* Both ends agree on every connection, as long as they run.
Agreed ==
    at[Server] /= "gone" => \A c \in Clients : at[c] /= "gone" => Consistent(c)

\* The inductive invariant.
IInv == TypeOK /\ OnePort /\ Created /\ InCall /\ Buffers /\ Agreed

(***************************************************************************)
(* What of that a step leaves alone                                        *)
(***************************************************************************)

\* An entry in use is a TCB, which NULL is not.
LEMMA TcbTypes ==
    ASSUME TypeOK
    PROVE  /\ \A c \in Clients, i \in Entries : ctcb[c][i] /= NULL =>
                ctcb[c][i] \in ClientTcbs
           /\ \A i \in Entries : stcb[i] /= NULL => stcb[i] \in ServerTcbs
           /\ NULL.state = "NULL"
           /\ \A t \in ClientTcbs \cup ServerTcbs : t /= NULL
  BY DEF TypeOK, NULL, ClientTcbs, ServerTcbs

\* The socket of the call that a program has come to exists.
LEMMA SocketExists ==
    ASSUME TypeOK, Created, NEW n \in Processes, program[n] /= << >>,
           Head(program[n]).op /= "sock"
    PROVE  Socket(n) \in Entries
<1>1. program[n] \in Seq(CallTypes)
  BY DEF TypeOK
<1>2. 1 \in DOMAIN program[n] /\ Head(program[n]) = program[n][1] /\ Head(program[n]) \in CallTypes
  BY <1>1
<1>3. sockfds[n][program[n][1].sock] /= 0
  BY <1>2 DEF Created, CreatedFor
<1>4. sockfds[n] \in [Sockets -> Entries \cup {0}] /\ program[n][1].sock \in Sockets
  BY <1>2 DEF TypeOK, CallTypes
<1> QED
  BY <1>2, <1>3, <1>4 DEF Socket

\* A call returns: its successors still have their sockets.
LEMMA CreatedAfter ==
    ASSUME TypeOK, NEW n \in Processes, CreatedFor(n), program[n] /= << >>,
           program'[n] = Tail(program[n]),
           \/ /\ Head(program[n]).op /= "sock" /\ sockfds'[n] = sockfds[n]
           \/ /\ sockfds'[n][Head(program[n]).sock] /= 0
              /\ \A s \in Sockets : sockfds[n][s] /= 0 => sockfds'[n][s] /= 0
    PROVE  CreatedFor(n)'
<1> DEFINE prog == program[n]
<1>1. prog \in Seq(CallTypes) /\ prog /= << >>
  BY DEF TypeOK
<1>2. /\ Head(prog) = prog[1]
      /\ \A k \in DOMAIN Tail(prog) : /\ k \in Nat /\ k > 0 /\ k + 1 \in DOMAIN prog
                                      /\ Tail(prog)[k] = prog[k + 1]
                                      /\ prog[k + 1] \in CallTypes
      /\ \A k \in DOMAIN Tail(prog) : \A j \in 1..(k + 1) :
           j /= 1 => j - 1 \in 1..k /\ j - 1 \in DOMAIN Tail(prog) /\ Tail(prog)[j - 1] = prog[j]
  BY <1>1
<1> SUFFICES ASSUME NEW k \in DOMAIN Tail(prog),
                    ~(\E j \in 1..k : /\ Tail(prog)[j].op = "sock"
                                      /\ Tail(prog)[j].sock = Tail(prog)[k].sock)
             PROVE  sockfds'[n][Tail(prog)[k].sock] /= 0
  BY DEF CreatedFor
<1>3. \/ sockfds[n][prog[k + 1].sock] /= 0
      \/ \E j \in 1..(k + 1) : prog[j].op = "sock" /\ prog[j].sock = prog[k + 1].sock
  BY <1>2 DEF CreatedFor
<1>4. prog[k + 1].sock \in Sockets /\ Tail(prog)[k] = prog[k + 1]
  BY <1>2 DEF CallTypes
<1> HIDE DEF prog
<1>5. CASE sockfds[n][prog[k + 1].sock] /= 0
  BY <1>4, <1>5
<1>6. CASE \E j \in 1..(k + 1) : prog[j].op = "sock" /\ prog[j].sock = prog[k + 1].sock
  <2>1. PICK j \in 1..(k + 1) : prog[j].op = "sock" /\ prog[j].sock = prog[k + 1].sock
    BY <1>6
  <2>2. j = 1
    BY <1>2, <1>4, <2>1
  <2> QED
    BY <1>2, <1>4, <2>1, <2>2 DEF prog
<1> QED
  BY <1>3, <1>5, <1>6

(***************************************************************************)
(* What a step has to leave alone for a connection to stay as it is        *)
(***************************************************************************)

\* A TCB that is still as connected as it was, and to whom it was.
SameTcb(t, u) ==
    /\ t.state = u.state /\ (t = NULL <=> u = NULL)
    /\ u /= NULL => t.portNum = u.portNum /\ t.svr_portNum = u.svr_portNum

\* The server serves client c as before.
SameServed(c) == \A p, q \in Nat : ServedAt(c, p, q)' <=> ServedAt(c, p, q)

\* A segment that a socket in this state, with these ports, does not mind on
\* its way to the server, or to the client.
Harmless(x, state, p, q) ==
    /\ state \in {"SYNSENT", "CONNECTED"} => x /= Seg("FIN", p, q)
    /\ state = "FINWAIT" => x /= Seg("SYN", p, q)
HarmlessBack(y, state, p, q) ==
    /\ state \in {"SYNSENT", "FINWAIT"} => y /= Seg("SYNACK", q, p)
    /\ state \in Attached => y /= Seg("FINACK", q, p)

\* What a socket relies on, with its ports and its state, survives a step that
\* sends at most x to the server and y to the client, if it does not mind those
\* and the server serves its ports as before.
LEMMA StateKept ==
    ASSUME NEW c \in Clients, NEW state, NEW p, NEW q, NEW x, NEW y,
           Quieter(toServer'[c], toServer[c], x), Harmless(x, state, p, q),
           Quieter(toClient'[c], toClient[c], y), HarmlessBack(y, state, p, q),
           state \in Attached => (ServedAt(c, p, q)' <=> ServedAt(c, p, q)),
           InState(c, state, p, q)
    PROVE  InState(c, state, p, q)'
<1>0. \A a, b : a /= x =>
        /\ Holds(toServer'[c], a) => Holds(toServer[c], a)
        /\ NeverAfter(toServer[c], a, b) => NeverAfter(toServer'[c], a, b)
  BY DEF Quieter
<1>1. \A a, b : a /= y =>
        /\ Holds(toClient'[c], a) => Holds(toClient[c], a)
        /\ NeverAfter(toClient[c], a, b) => NeverAfter(toClient'[c], a, b)
  BY DEF Quieter
<1>2. CASE state = "SYNSENT"
  <2>1. /\ x /= Seg("FIN", p, q) /\ y /= Seg("SYNACK", q, p) /\ y /= Seg("FINACK", q, p)
        /\ ServedAt(c, p, q)' <=> ServedAt(c, p, q)
        /\ Opening(c, p, q)
    BY <1>2 DEF Harmless, HarmlessBack, Attached, InState
  <2>2. Opening(c, p, q)'
    BY <1>0, <1>1, <2>1 DEF Opening
  <2> QED
    BY <1>2, <2>2 DEF InState
<1>3. CASE state = "CONNECTED"
  <2>1. /\ x /= Seg("FIN", p, q) /\ y /= Seg("FINACK", q, p)
        /\ ServedAt(c, p, q)' <=> ServedAt(c, p, q)
        /\ Open(c, p, q)
    BY <1>3 DEF Harmless, HarmlessBack, Attached, InState
  <2>2. Open(c, p, q)'
    BY <1>0, <1>1, <2>1 DEF Open
  <2> QED
    BY <1>3, <2>2 DEF InState
<1>4. CASE state = "FINWAIT"
  <2>1. /\ x /= Seg("SYN", p, q) /\ y /= Seg("SYNACK", q, p) /\ y /= Seg("FINACK", q, p)
        /\ ServedAt(c, p, q)' <=> ServedAt(c, p, q)
        /\ Closing(c, p, q)
    BY <1>4 DEF Harmless, HarmlessBack, Attached, InState
  <2>2. Closing(c, p, q)'
    BY <1>0, <1>1, <2>1 DEF Closing
  <2> QED
    BY <1>4, <2>2 DEF InState
<1> QED
  BY <1>2, <1>3, <1>4 DEF InState

\* The segments that open a connection and the server's part of it are still
\* those of sockets that are not CLOSED.
LEMMA AttachedKept ==
    ASSUME NEW c \in Clients, OnlyAttached(c), NEW x, NEW y,
           Quieter(toServer'[c], toServer[c], x), Quieter(toClient'[c], toClient[c], y),
           \A p, q \in Nat :
             /\ Mine(c, p, q) => Mine(c, p, q)'
             /\ x = Seg("SYN", p, q) \/ y = Seg("SYNACK", q, p) => Mine(c, p, q)'
             /\ ServedAt(c, p, q)' => ServedAt(c, p, q) \/ Mine(c, p, q)'
    PROVE  OnlyAttached(c)'
<1> SUFFICES ASSUME NEW p \in Nat, NEW q \in Nat,
                    \/ Holds(toServer'[c], Seg("SYN", p, q))
                    \/ Holds(toClient'[c], Seg("SYNACK", q, p))
                    \/ ServedAt(c, p, q)'
             PROVE  Mine(c, p, q)'
  BY DEF OnlyAttached
<1>1. CASE Holds(toServer'[c], Seg("SYN", p, q)) /\ x /= Seg("SYN", p, q)
  BY <1>1 DEF OnlyAttached, Quieter
<1>2. CASE Holds(toClient'[c], Seg("SYNACK", q, p)) /\ y /= Seg("SYNACK", q, p)
  BY <1>2 DEF OnlyAttached, Quieter
<1>3. CASE ServedAt(c, p, q)'
  BY <1>3 DEF OnlyAttached
<1> QED
  BY <1>1, <1>2, <1>3

\* The same sockets have the same connections.
LEMMA SameMine ==
    ASSUME NEW c \in Clients, \A i \in Entries : SameTcb(ctcb'[c][i], ctcb[c][i])
    PROVE  \A p, q : Mine(c, p, q)' <=> Mine(c, p, q)
<1>1. \A i \in Entries : ctcb[c][i].state \in Attached => ctcb[c][i] /= NULL
  BY DEF Attached, NULL
<1> QED
  BY <1>1 DEF Mine, SameTcb

\* A client none of whose connections the step is about.
LEMMA ConsistentKept ==
    ASSUME NEW c \in Clients, TypeOK, Consistent(c), NEW x, NEW y,
           Quieter(toServer'[c], toServer[c], x), Quieter(toClient'[c], toClient[c], y),
           \A i \in Entries : SameTcb(ctcb'[c][i], ctcb[c][i]),
           SameServed(c),
           \A p, q \in Nat : x = Seg("SYN", p, q) \/ y = Seg("SYNACK", q, p) => Mine(c, p, q),
           \A i \in Entries : ctcb[c][i] /= NULL =>
             /\ Harmless(x, ctcb[c][i].state, ctcb[c][i].portNum, ctcb[c][i].svr_portNum)
             /\ HarmlessBack(y, ctcb[c][i].state, ctcb[c][i].portNum, ctcb[c][i].svr_portNum)
    PROVE  Consistent(c)'
<1>1. OnlyAttached(c)'
  BY SameMine, AttachedKept DEF Consistent, SameServed
<1>2. ASSUME NEW i \in Entries, ctcb'[c][i] /= NULL
      PROVE  InState(c, ctcb[c][i].state, ctcb[c][i].portNum, ctcb[c][i].svr_portNum)'
  <2>1. PICK state, p, q : /\ state = ctcb[c][i].state /\ p = ctcb[c][i].portNum
                           /\ q = ctcb[c][i].svr_portNum
    OBVIOUS
  <2>2. /\ state = ctcb'[c][i].state /\ p = ctcb'[c][i].portNum
        /\ q = ctcb'[c][i].svr_portNum /\ ctcb[c][i] /= NULL
    BY <1>2, <2>1 DEF SameTcb
  <2>3. p \in Nat /\ q \in Nat
    <3>1. ctcb[c][i] \in ClientTcbs
      BY <2>2, TcbTypes
    <3> QED
      BY <2>1, <3>1 DEF ClientTcbs
  <2>4. /\ Harmless(x, state, p, q) /\ HarmlessBack(y, state, p, q)
        /\ ServedAt(c, p, q)' <=> ServedAt(c, p, q)
    BY <2>1, <2>2, <2>3 DEF SameServed
  <2>5. InState(c, state, p, q)
    BY <2>1, <2>2 DEF Consistent
  <2>6. InState(c, state, p, q)'
    BY <2>4, <2>5, StateKept
  <2> QED
    BY <2>2, <2>6
<1> QED
  BY <1>1, <1>2 DEF Consistent

\* A step after which only data, or less, is on the way.
DataOnly(c) ==
    \E x, y : /\ x.type = "DATA" /\ y.type = "DATAACK"
              /\ Quieter(toServer'[c], toServer[c], x)
              /\ Quieter(toClient'[c], toClient[c], y)

\* Data is nobody's concern.
LEMMA DataAlone ==
    ASSUME NEW c \in Clients, TypeOK, Consistent(c), DataOnly(c),
           \A i \in Entries : SameTcb(ctcb'[c][i], ctcb[c][i]),
           SameServed(c)
    PROVE  Consistent(c)'
<1>1. PICK x, y : /\ x.type = "DATA" /\ y.type = "DATAACK"
                  /\ Quieter(toServer'[c], toServer[c], x)
                  /\ Quieter(toClient'[c], toClient[c], y)
  BY DEF DataOnly
<1>2. \A p, q : /\ x /= Seg("SYN", p, q) /\ x /= Seg("FIN", p, q)
                /\ y /= Seg("SYNACK", q, p) /\ y /= Seg("FINACK", q, p)
  BY <1>1 DEF Seg
<1> QED
  BY <1>1, <1>2, ConsistentKept DEF Harmless, HarmlessBack

(***************************************************************************)
(* Steps that open and end no connection                                   *)
(***************************************************************************)

\* The threads beside main: what it is doing, and with which socket, remains.
LEMMA MainStays ==
    ASSUME IInv, UNCHANGED appVars,
           \A c \in Clients, i \in Entries :
             \/ ctcb'[c][i].state = ctcb[c][i].state
             \/ ctcb[c][i].state = "SYNSENT" /\ ctcb'[c][i].state = "CONNECTED"
             \/ ctcb[c][i].state = "FINWAIT" /\ ctcb'[c][i].state = "CLOSED",
           \A i \in Entries : stcb[i] /= NULL => stcb'[i] /= NULL
    PROVE  Created' /\ InCall'
<1>1. /\ program' = program /\ at' = at /\ sockfds' = sockfds /\ retry' = retry
      /\ TypeOK /\ Created /\ InCall
  BY DEF IInv, appVars
<1>2. Created'
  BY <1>1 DEF Created, CreatedFor
<1>3. ASSUME NEW n \in Processes PROVE InCallOf(n)'
  <2>1. InCallOf(n) /\ Socket(n)' = Socket(n)
    BY <1>1 DEF InCall, Socket
  <2>2. CASE at[n] \in {"main", "gone"}
    BY <1>1, <2>1, <2>2 DEF InCallOf
  <2>3. CASE at[n] \notin {"main", "gone"}
    <3>1. program[n] /= << >> /\ Head(program[n]).op /= "sock"
      BY <2>1, <2>3 DEF InCallOf
    <3>2. Socket(n) \in Entries
      BY <1>1, <3>1, SocketExists
    <3>3. n \in Clients =>
            \/ State(n)' = State(n)
            \/ State(n) = "SYNSENT" /\ State(n)' = "CONNECTED"
            \/ State(n) = "FINWAIT" /\ State(n)' = "CLOSED"
      BY <2>1, <3>2 DEF State
    <3>4. stcb[Socket(n)] /= NULL => stcb'[Socket(n)'] /= NULL
      BY <2>1, <3>2
    <3> QED
      BY <1>1, <2>1, <3>1, <3>3, <3>4 DEF InCallOf
  <2> QED
    BY <2>2, <2>3
<1> QED
  BY <1>2, <1>3 DEF InCall

\* The sockets are the ones that were there, with the same ports.
SameClientPorts == \A c \in Clients, i \in Entries : SameTcb(ctcb'[c][i], ctcb[c][i])
SameServerPorts ==
    \A i \in Entries : /\ stcb'[i] = NULL <=> stcb[i] = NULL
                       /\ stcb[i] /= NULL => stcb'[i].portNum = stcb[i].portNum

\* Sockets that keep their ports have ports of their own.
LEMMA OnePortKept ==
    ASSUME OnePort, SameClientPorts, SameServerPorts PROVE OnePort'
  BY DEF OnePort, DistinctPorts, SameClientPorts, SameServerPorts, SameTcb

\* A step of such a thread that opens and ends no connection.
LEMMA DataStep ==
    ASSUME IInv, UNCHANGED appVars, TypeOK', Buffers', SameClientPorts, SameServerPorts,
           \A c \in Clients : DataOnly(c) /\ SameServed(c)
    PROVE  IInv'
<1>1. Created' /\ InCall'
  BY MainStays DEF SameClientPorts, SameServerPorts, SameTcb
<1>2. OnePort'
  BY OnePortKept DEF IInv
<1>3. Agreed'
  <2>1. at' = at /\ TypeOK /\ Agreed
    BY DEF appVars, IInv
  <2>2. ASSUME NEW c \in Clients, at[c] /= "gone", at[Server] /= "gone" PROVE Consistent(c)'
    <3>1. Consistent(c)
      BY <2>1, <2>2 DEF Agreed
    <3> QED
      BY <2>1, <3>1, DataAlone DEF SameClientPorts
  <2> QED
    BY <2>1, <2>2 DEF Agreed
<1> QED
  BY <1>1, <1>2, <1>3 DEF IInv

\* What depends on the server's table only.
LEMMA SameStcb ==
    ASSUME TypeOK, stcb' = stcb
    PROVE  SameServerPorts /\ (Buffers => Buffers') /\ \A c : SameServed(c)
  BY DEF SameServerPorts, Buffers, SameServed, ServedAt

\* What depends on the clients' tables only.
LEMMA SameCtcb == ASSUME ctcb' = ctcb PROVE SameClientPorts
  BY DEF SameClientPorts, SameTcb

\* Queues that are as they were, or have lost their heads, or gained data.
LEMMA QueuesShrink ==
    ASSUME TypeOK, NEW c \in Clients,
           \/ toServer'[c] = toServer[c]
           \/ toServer[c] /= << >> /\ toServer'[c] = Tail(toServer[c])
           \/ \E x \in Segments({"DATA"}) :
                toServer'[c] = Enqueue(toServer[c], MaxToServer, x),
           \/ toClient'[c] = toClient[c]
           \/ toClient[c] /= << >> /\ toClient'[c] = Tail(toClient[c])
           \/ \E y \in Segments({"DATAACK"}) :
                toClient'[c] = Enqueue(toClient[c], MaxToClient, y)
    PROVE  /\ DataOnly(c)
           /\ toServer'[c] \in Seq(Segments({"SYN", "DATA", "FIN"}))
           /\ toClient'[c] \in Seq(Segments({"SYNACK", "DATAACK", "FINACK"}))
<1>1. /\ toServer[c] \in Seq(Segments({"SYN", "DATA", "FIN"}))
      /\ toClient[c] \in Seq(Segments({"SYNACK", "DATAACK", "FINACK"}))
  BY DEF TypeOK
<1>2. \E x : /\ x.type = "DATA" /\ Quieter(toServer'[c], toServer[c], x)
             /\ toServer'[c] \in Seq(Segments({"SYN", "DATA", "FIN"}))
  <2>1. Seg("DATA", 0, 0).type = "DATA"
    BY DEF Seg
  <2>2. CASE toServer'[c] = toServer[c]
    BY <1>1, <2>1, <2>2, QuieterSame
  <2>3. CASE toServer[c] /= << >> /\ toServer'[c] = Tail(toServer[c])
    BY <1>1, <2>1, <2>3, QuieterTail
  <2>4. CASE \E x \in Segments({"DATA"}) :
               toServer'[c] = Enqueue(toServer[c], MaxToServer, x)
    <3>1. PICK x \in Segments({"DATA"}) :
                 toServer'[c] = Enqueue(toServer[c], MaxToServer, x)
      BY <2>4
    <3>2. x.type = "DATA" /\ x \in Segments({"SYN", "DATA", "FIN"})
      BY DEF Segments
    <3> QED
      BY <1>1, <3>1, <3>2, QuieterEnqueue
  <2> QED
    BY <2>2, <2>3, <2>4
<1>3. \E y : /\ y.type = "DATAACK" /\ Quieter(toClient'[c], toClient[c], y)
             /\ toClient'[c] \in Seq(Segments({"SYNACK", "DATAACK", "FINACK"}))
  <2>1. Seg("DATAACK", 0, 0).type = "DATAACK"
    BY DEF Seg
  <2>2. CASE toClient'[c] = toClient[c]
    BY <1>1, <2>1, <2>2, QuieterSame
  <2>3. CASE toClient[c] /= << >> /\ toClient'[c] = Tail(toClient[c])
    BY <1>1, <2>1, <2>3, QuieterTail
  <2>4. CASE \E y \in Segments({"DATAACK"}) :
               toClient'[c] = Enqueue(toClient[c], MaxToClient, y)
    <3>1. PICK y \in Segments({"DATAACK"}) :
                 toClient'[c] = Enqueue(toClient[c], MaxToClient, y)
      BY <2>4
    <3>2. y.type = "DATAACK" /\ y \in Segments({"SYNACK", "DATAACK", "FINACK"})
      BY DEF Segments
    <3> QED
      BY <1>1, <3>1, <3>2, QuieterEnqueue
  <2> QED
    BY <2>2, <2>3, <2>4
<1> QED
  BY <1>2, <1>3 DEF DataOnly

\* Nothing happens.
LEMMA StutterStep == ASSUME IInv, UNCHANGED vars PROVE IInv'
<1>1. TypeOK /\ Buffers /\ UNCHANGED appVars /\ TypeOK' /\ ctcb' = ctcb /\ stcb' = stcb
      /\ toServer' = toServer /\ toClient' = toClient
  BY DEF IInv, vars, appVars, TypeOK
<1>2. \A c \in Clients : DataOnly(c)
  BY <1>1, QueuesShrink
<1> QED
  BY <1>1, <1>2, SameStcb, SameCtcb, DataStep

\* A segment is lost, or ignored by the server.
LEMMA LoseStep == ASSUME IInv, NEW c \in Clients, Lose(c) \/ Ignore(c) PROVE IInv'
<1>1. TypeOK /\ Buffers /\ UNCHANGED appVars /\ ctcb' = ctcb /\ stcb' = stcb
  BY DEF IInv, Lose, Ignore
<1>2. \/ /\ toServer[c] /= << >> /\ toServer' = [toServer EXCEPT ![c] = Tail(@)]
         /\ toClient' = toClient
      \/ /\ toClient[c] /= << >> /\ toClient' = [toClient EXCEPT ![c] = Tail(@)]
         /\ toServer' = toServer
  BY DEF Lose, Ignore
<1>3. \A d \in Clients :
        /\ \/ toServer'[d] = toServer[d]
           \/ toServer[d] /= << >> /\ toServer'[d] = Tail(toServer[d])
        /\ \/ toClient'[d] = toClient[d]
           \/ toClient[d] /= << >> /\ toClient'[d] = Tail(toClient[d])
  BY <1>1, <1>2 DEF TypeOK
<1>4. \A d \in Clients :
        /\ DataOnly(d)
        /\ toServer'[d] \in Seq(Segments({"SYN", "DATA", "FIN"}))
        /\ toClient'[d] \in Seq(Segments({"SYNACK", "DATAACK", "FINACK"}))
  BY <1>1, <1>3, QueuesShrink
<1>5. TypeOK'
  <2>1. /\ toServer' = [d \in Clients |-> toServer'[d]]
        /\ toClient' = [d \in Clients |-> toClient'[d]]
    BY <1>1, <1>2 DEF TypeOK
  <2>2. /\ toServer' \in [Clients -> Seq(Segments({"SYN", "DATA", "FIN"}))]
        /\ toClient' \in [Clients -> Seq(Segments({"SYNACK", "DATAACK", "FINACK"}))]
    BY <1>4, <2>1
  <2> QED
    BY <1>1, <2>2 DEF TypeOK, appVars
<1> QED
  BY <1>1, <1>4, <1>5, SameStcb, SameCtcb, DataStep

(***************************************************************************)
(* The threads beside main: the send timer, data_received, closewait       *)
(***************************************************************************)

\* What a segment that a TCB of the server acts on tells.
LEMMA Taken ==
    ASSUME TypeOK, NEW i \in Entries, NEW c \in Clients, NEW type, Takes(i, c, type)
    PROVE  \E p, q \in Nat :
             /\ toServer[c] /= << >> /\ Head(toServer[c]) = Seg(type, p, q)
             /\ Seg(type, p, q).src_port = p /\ Seg(type, p, q).dest_port = q
             /\ stcb[i] \in ServerTcbs /\ stcb[i].portNum = q
             /\ toServer' = [toServer EXCEPT ![c] = Tail(toServer[c])]
             /\ UNCHANGED <<appVars, ctcb>>
             /\ type \in {"SYN", "DATA", "FIN"}
             /\ type = "SYN" =>
                  \/ stcb[i].state = "LISTENING"
                  \/ stcb[i].state = "CONNECTED" /\ stcb[i].client = <<c, p>>
             /\ type = "DATA" => stcb[i].state = "CONNECTED" /\ stcb[i].client = <<c, p>>
             /\ type = "FIN" =>
                  stcb[i].state \in {"CONNECTED", "CLOSEWAIT"} /\ stcb[i].client = <<c, p>>
<1>1. /\ toServer[c] /= << >> /\ Head(toServer[c]).type = type
      /\ i \in EntriesOfPort(stcb, Head(toServer[c]).dest_port)
      /\ type \in Awaited(i, c, Head(toServer[c]))
      /\ toServer' = [toServer EXCEPT ![c] = Tail(toServer[c])]
      /\ UNCHANGED <<appVars, ctcb>>
  BY DEF Takes
<1>2. PICK seg \in Segments({"SYN", "DATA", "FIN"}) : seg = Head(toServer[c])
  BY <1>1, QuieterTail DEF TypeOK
<1>3. PICK p, q \in Nat : p = seg.src_port /\ q = seg.dest_port
  BY <1>2 DEF Segments
<1>4. seg = Seg(type, p, q) /\ type \in {"SYN", "DATA", "FIN"}
      /\ Seg(type, p, q).src_port = p /\ Seg(type, p, q).dest_port = q
  BY <1>1, <1>2, <1>3 DEF Segments, Seg
<1>5. stcb[i] /= NULL /\ stcb[i].portNum = q /\ stcb[i] \in ServerTcbs
  BY <1>1, <1>2, <1>3, TcbTypes DEF EntriesOfPort
<1>6. type \in Awaited(i, c, seg)
  BY <1>1, <1>2
<1>7. CASE stcb[i].state = "LISTENING"
  <2>1. type = "SYN"
    BY <1>6, <1>7 DEF Awaited
  <2> QED
    BY <1>1, <1>2, <1>3, <1>4, <1>5, <1>7, <2>1
<1>8. CASE stcb[i].state = "CONNECTED"
  <2>1. stcb[i].client = <<c, p>>
    BY <1>3, <1>6, <1>8 DEF Awaited, FromItsClient
  <2> QED
    BY <1>1, <1>2, <1>3, <1>4, <1>5, <1>8, <2>1
<1>9. CASE stcb[i].state = "CLOSEWAIT"
  <2>1. stcb[i].client = <<c, p>> /\ type = "FIN"
    BY <1>3, <1>6, <1>9 DEF Awaited, FromItsClient
  <2> QED
    BY <1>1, <1>2, <1>3, <1>4, <1>5, <1>9, <2>1
<1>10. CASE stcb[i].state = "CLOSED"
  BY <1>6, <1>10 DEF Awaited
<1> QED
  BY <1>5, <1>7, <1>8, <1>9, <1>10 DEF ServerTcbs

\* The send timer of a client sends data again.
LEMMA SendTimeoutStep ==
    ASSUME IInv, NEW c \in Clients, NEW i \in Entries, SendTimeout(c, i)
    PROVE  IInv'
<1>1. TypeOK /\ Buffers /\ UNCHANGED appVars /\ ctcb' = ctcb /\ stcb' = stcb
      /\ toClient' = toClient /\ ctcb[c][i] \in ClientTcbs
  BY TcbTypes DEF IInv, SendTimeout
<1>2. PICK x \in Segments({"DATA"}) :
        toServer' = [toServer EXCEPT ![c] = Enqueue(toServer[c], MaxToServer, x)]
  <2>1. Seg("DATA", ctcb[c][i].portNum, ctcb[c][i].svr_portNum) \in Segments({"DATA"})
    BY <1>1 DEF ClientTcbs, Segments, Seg
  <2> QED
    BY <2>1 DEF SendTimeout
<1>3. /\ toServer'[c] = Enqueue(toServer[c], MaxToServer, x)
      /\ \A d \in Clients : d /= c => toServer'[d] = toServer[d]
  BY <1>1, <1>2 DEF TypeOK
<1>4. ASSUME NEW d \in Clients
      PROVE  DataOnly(d) /\ toServer'[d] \in Seq(Segments({"SYN", "DATA", "FIN"}))
  <2>1. CASE d = c
    BY <1>1, <1>3, <2>1, QueuesShrink
  <2>2. CASE d /= c
    BY <1>1, <1>3, <2>2, QueuesShrink
  <2> QED
    BY <2>1, <2>2
<1>5. TypeOK'
  <2>1. toServer' = [d \in Clients |-> toServer'[d]]
    BY <1>1, <1>2 DEF TypeOK
  <2>2. toServer' \in [Clients -> Seq(Segments({"SYN", "DATA", "FIN"}))]
    BY <1>4, <2>1
  <2> QED
    BY <1>1, <2>2 DEF TypeOK, appVars
<1> QED
  BY <1>1, <1>4, <1>5, SameStcb, SameCtcb, DataStep

\* The server's TCB i becomes t; the queues of client c change as well.
LEMMA ServerTypeOK ==
    ASSUME TypeOK, NEW i \in Entries, NEW t \in ServerTcbs \cup {NULL}, NEW c \in Clients,
           stcb' = [stcb EXCEPT ![i] = t],
           UNCHANGED <<appVars, ctcb>>,
           NEW s \in Seq(Segments({"SYN", "DATA", "FIN"})),
           toServer' = [toServer EXCEPT ![c] = s],
           NEW r \in Seq(Segments({"SYNACK", "DATAACK", "FINACK"})),
           toClient' = [toClient EXCEPT ![c] = r]
    PROVE  TypeOK'
<1>1. stcb' \in [Entries -> ServerTcbs \cup {NULL}]
  BY DEF TypeOK
<1>2. /\ toServer' \in [Clients -> Seq(Segments({"SYN", "DATA", "FIN"}))]
      /\ toClient' \in [Clients -> Seq(Segments({"SYNACK", "DATAACK", "FINACK"}))]
  BY DEF TypeOK
<1> QED
  BY <1>1, <1>2 DEF TypeOK, appVars

\* Data goes into the buffer of the connection it was sent on.
LEMMA DataReceivedStep ==
    ASSUME IInv, NEW i \in Entries, NEW c \in Clients, DataReceived(i, c)
    PROVE  IInv'
<1>0. TypeOK /\ Buffers
  BY DEF IInv
<1>1. PICK p, q \in Nat :
        /\ toServer[c] /= << >> /\ Head(toServer[c]) = Seg("DATA", p, q)
        /\ Seg("DATA", p, q).src_port = p /\ Seg("DATA", p, q).dest_port = q
        /\ stcb[i] \in ServerTcbs
        /\ toServer' = [toServer EXCEPT ![c] = Tail(toServer[c])]
        /\ UNCHANGED <<appVars, ctcb>>
        /\ stcb[i].state = "CONNECTED" /\ stcb[i].client = <<c, p>>
  BY <1>0, Taken DEF DataReceived
<1>2. PICK y \in Segments({"DATAACK"}) :
        toClient' = [toClient EXCEPT ![c] = Enqueue(toClient[c], MaxToClient, y)]
  <2>1. Seg("DATAACK", q, p) \in Segments({"DATAACK"})
    BY DEF Seg, Segments
  <2>2. toClient' = [toClient EXCEPT ![c] =
                       Enqueue(toClient[c], MaxToClient, Seg("DATAACK", q, p))]
    BY <1>1 DEF DataReceived, Answer
  <2> QED
    BY <2>1, <2>2
<1>3. PICK t \in ServerTcbs :
        /\ stcb' = [stcb EXCEPT ![i] = t]
        /\ t.portNum = stcb[i].portNum /\ t.state = "CONNECTED" /\ t.client = <<c, p>>
        /\ t.recvBuf = stcb[i].recvBuf \/ t.recvBuf = Append(stcb[i].recvBuf, <<c, p>>)
  <2> DEFINE t == [stcb[i] EXCEPT
                     !.recvBuf = IF stcb[i].expect THEN Append(@, <<c, p>>) ELSE @,
                     !.expect = FALSE]
  <2>1. stcb' = [stcb EXCEPT ![i] = t]
    BY <1>0, <1>1 DEF DataReceived, TypeOK
  <2>2. /\ stcb[i].recvBuf \in Seq(Clients \X Nat)
        /\ Append(stcb[i].recvBuf, <<c, p>>) \in Seq(Clients \X Nat)
    BY <1>1 DEF ServerTcbs
  <2>3. t \in ServerTcbs /\ t.portNum = stcb[i].portNum /\ t.state = stcb[i].state
        /\ t.client = stcb[i].client
        /\ (t.recvBuf = stcb[i].recvBuf \/ t.recvBuf = Append(stcb[i].recvBuf, <<c, p>>))
    BY <1>1, <2>2 DEF ServerTcbs
  <2> QED
    BY <1>1, <2>1, <2>3
<1>4. /\ stcb'[i] = t /\ \A j \in Entries : j /= i => stcb'[j] = stcb[j]
      /\ toServer'[c] = Tail(toServer[c])
      /\ toClient'[c] = Enqueue(toClient[c], MaxToClient, y)
      /\ \A d \in Clients : d /= c => toServer'[d] = toServer[d] /\ toClient'[d] = toClient[d]
  BY <1>0, <1>1, <1>2, <1>3 DEF TypeOK
<1>5. DataOnly(c) /\ toServer'[c] \in Seq(Segments({"SYN", "DATA", "FIN"}))
      /\ toClient'[c] \in Seq(Segments({"SYNACK", "DATAACK", "FINACK"}))
  BY <1>0, <1>1, <1>4, QueuesShrink
<1>6. \A d \in Clients : d /= c => DataOnly(d)
  BY <1>0, <1>4, QueuesShrink
<1>7. TypeOK'
  <2>1. PICK s \in Seq(Segments({"SYN", "DATA", "FIN"})) : s = Tail(toServer[c])
    BY <1>4, <1>5
  <2>2. PICK r \in Seq(Segments({"SYNACK", "DATAACK", "FINACK"})) :
           r = Enqueue(toClient[c], MaxToClient, y)
    BY <1>4, <1>5
  <2> QED
    BY <1>0, <1>1, <1>2, <1>3, <2>1, <2>2, ServerTypeOK
<1>8. Buffers'
  <2>1. \A k \in DOMAIN t.recvBuf : t.recvBuf[k] = <<c, p>>
    <3>1. /\ stcb[i].recvBuf \in Seq(Clients \X Nat)
          /\ \A k \in DOMAIN stcb[i].recvBuf : stcb[i].recvBuf[k] = <<c, p>>
      BY <1>0, <1>1 DEF ServerTcbs, Buffers
    <3>2. PICK buf : buf = stcb[i].recvBuf
      OBVIOUS
    <3>3. buf \in Seq(Clients \X Nat) /\ \A k \in DOMAIN buf : buf[k] = <<c, p>>
      BY <3>1, <3>2
    <3>4. <<c, p>> \in Clients \X Nat
      OBVIOUS
    <3>5. \A k \in DOMAIN Append(buf, <<c, p>>) : Append(buf, <<c, p>>)[k] = <<c, p>>
      BY <3>3, <3>4
    <3> QED
      BY <1>3, <3>2, <3>3, <3>5
  <2> QED
    BY <1>0, <1>3, <1>4, <2>1 DEF Buffers
<1>9. SameServerPorts /\ \A d \in Clients : SameServed(d)
  <2>1. stcb[i] /= NULL /\ t /= NULL
    BY <1>1, <1>3, TcbTypes, <1>0
  <2> QED
    BY <1>1, <1>3, <1>4, <2>1 DEF SameServerPorts, SameServed, ServedAt
<1> QED
  BY <1>1, <1>5, <1>6, <1>7, <1>8, <1>9, SameCtcb, DataStep

\* closewait: the buffer is emptied before anyone else can connect.
LEMMA CloseWaitStep ==
    ASSUME IInv, NEW i \in Entries, CloseWaitExpires(i)
    PROVE  IInv'
<1>0. TypeOK /\ Buffers /\ UNCHANGED <<appVars, ctcb, toServer, toClient>>
      /\ stcb[i].state = "CLOSEWAIT" /\ stcb[i] \in ServerTcbs
  BY TcbTypes DEF IInv, CloseWaitExpires
<1>1. PICK t \in ServerTcbs :
        /\ stcb' = [stcb EXCEPT ![i] = t]
        /\ t.portNum = stcb[i].portNum /\ t.state = "CLOSED" /\ t.recvBuf = << >>
  <2> DEFINE t == [stcb[i] EXCEPT !.state = "CLOSED", !.recvBuf = << >>]
  <2>1. stcb' = [stcb EXCEPT ![i] = t]
    BY <1>0 DEF CloseWaitExpires, TypeOK
  <2>2. << >> \in Seq(Clients \X Nat)
    OBVIOUS
  <2>3. t \in ServerTcbs /\ t.portNum = stcb[i].portNum /\ t.state = "CLOSED"
        /\ t.recvBuf = << >>
    BY <1>0, <2>2 DEF ServerTcbs
  <2> QED
    BY <2>1, <2>3
<1>2. stcb'[i] = t /\ \A j \in Entries : j /= i => stcb'[j] = stcb[j]
  BY <1>0, <1>1 DEF TypeOK
<1>3. TypeOK'
  BY <1>0, <1>1 DEF TypeOK, appVars
<1>4. Buffers'
  BY <1>0, <1>1, <1>2 DEF Buffers
<1>5. SameServerPorts /\ \A d \in Clients : SameServed(d)
  <2>1. stcb[i] /= NULL /\ t /= NULL
    BY <1>0, <1>1, TcbTypes
  <2> QED
    BY <1>0, <1>1, <1>2, <2>1 DEF SameServerPorts, SameServed, ServedAt
<1>6. \A c \in Clients : DataOnly(c)
  BY <1>0, QueuesShrink
<1> QED
  BY <1>0, <1>3, <1>4, <1>5, <1>6, SameCtcb, DataStep

(***************************************************************************)
(* The threads beside main: syn_received, fin_received                     *)
(***************************************************************************)

\* Consistent, proved socket by socket, when the client's table stays.
LEMMA SocketBySocket ==
    ASSUME TypeOK, NEW c \in Clients, ctcb' = ctcb, OnlyAttached(c)',
           \A i \in Entries : \A state : \A p, q \in Nat :
             (/\ ctcb[c][i] /= NULL /\ ctcb[c][i].state = state
              /\ ctcb[c][i].portNum = p /\ ctcb[c][i].svr_portNum = q) =>
             InState(c, state, p, q)'
    PROVE  Consistent(c)'
<1> SUFFICES ASSUME NEW i \in Entries, ctcb[c][i] /= NULL
             PROVE  InState(c, ctcb[c][i].state, ctcb[c][i].portNum,
                            ctcb[c][i].svr_portNum)'
  BY DEF Consistent
<1>1. PICK state, p, q : /\ state = ctcb[c][i].state /\ p = ctcb[c][i].portNum
                         /\ q = ctcb[c][i].svr_portNum
  OBVIOUS
<1>2. p \in Nat /\ q \in Nat
  BY <1>1, TcbTypes DEF ClientTcbs
<1>3. InState(c, state, p, q)'
  BY <1>1, <1>2
<1>4. /\ state = ctcb'[c][i].state /\ p = ctcb'[c][i].portNum
      /\ q = ctcb'[c][i].svr_portNum
  BY <1>1
<1> QED
  BY <1>3, <1>4

\* A step of a thread beside main that is about a connection of client c.
LEMMA OneClientStep ==
    ASSUME IInv, NEW c \in Clients, UNCHANGED <<appVars, ctcb>>, TypeOK', Buffers',
           SameServerPorts,
           \A d \in Clients : d /= c => SameServed(d) /\ DataOnly(d),
           Consistent(c) => Consistent(c)'
    PROVE  IInv'
<1>1. SameClientPorts
  BY SameCtcb
<1>2. Created' /\ InCall'
  BY <1>1, MainStays DEF SameClientPorts, SameServerPorts, SameTcb
<1>3. OnePort'
  BY <1>1, OnePortKept DEF IInv
<1>4. Agreed'
  <2>1. at' = at /\ TypeOK /\ Agreed
    BY DEF appVars, IInv
  <2>2. ASSUME NEW d \in Clients, at[d] /= "gone", at[Server] /= "gone" PROVE Consistent(d)'
    <3>1. Consistent(d)
      BY <2>1, <2>2 DEF Agreed
    <3>2. CASE d = c
      BY <3>1, <3>2
    <3>3. CASE d /= c
      BY <1>1, <2>1, <3>1, <3>3, DataAlone DEF SameClientPorts
    <3> QED
      BY <3>2, <3>3
  <2> QED
    BY <2>1, <2>2 DEF Agreed
<1> QED
  BY <1>2, <1>3, <1>4 DEF IInv

\* A SYN opens the connection of the socket that sent it, or finds it open: the
\* answer is for that socket, and so is the connection.  A socket that waits
\* for the answer to its FIN has had none yet, as its SYN was still on the way.
LEMMA SynReceivedStep ==
    ASSUME IInv, NEW i \in Entries, NEW c \in Clients, SynReceived(i, c)
    PROVE  IInv'
<1>0. TypeOK /\ Buffers
  BY DEF IInv
<1>1. PICK p, q \in Nat :
        /\ toServer[c] /= << >> /\ Head(toServer[c]) = Seg("SYN", p, q)
        /\ Seg("SYN", p, q).src_port = p /\ Seg("SYN", p, q).dest_port = q
        /\ stcb[i] \in ServerTcbs /\ stcb[i].portNum = q
        /\ toServer' = [toServer EXCEPT ![c] = Tail(toServer[c])]
        /\ UNCHANGED <<appVars, ctcb>>
        /\ \/ stcb[i].state = "LISTENING"
           \/ stcb[i].state = "CONNECTED" /\ stcb[i].client = <<c, p>>
  BY <1>0, Taken DEF SynReceived
<1>2. PICK y \in Segments({"SYNACK", "DATAACK", "FINACK"}) :
        /\ y = Seg("SYNACK", q, p)
        /\ toClient' = [toClient EXCEPT ![c] = Enqueue(toClient[c], MaxToClient, y)]
  <2>1. Seg("SYNACK", q, p) \in Segments({"SYNACK", "DATAACK", "FINACK"})
    BY DEF Seg, Segments
  <2>2. toClient' = [toClient EXCEPT ![c] =
                       Enqueue(toClient[c], MaxToClient, Seg("SYNACK", q, p))]
    BY <1>1 DEF SynReceived, Answer
  <2> QED
    BY <2>1, <2>2
<1>3. PICK t \in ServerTcbs :
        /\ stcb' = [stcb EXCEPT ![i] = t]
        /\ t.portNum = q /\ t.state = "CONNECTED" /\ t.client = <<c, p>>
        /\ t.recvBuf = stcb[i].recvBuf
  <2> DEFINE t == [stcb[i] EXCEPT !.client = <<c, p>>, !.expect = TRUE,
                                  !.state = "CONNECTED"]
  <2>1. stcb' = [stcb EXCEPT ![i] = t]
    BY <1>0, <1>1 DEF SynReceived, TypeOK
  <2>2. t \in ServerTcbs /\ t.portNum = q /\ t.state = "CONNECTED"
        /\ t.client = <<c, p>> /\ t.recvBuf = stcb[i].recvBuf
    BY <1>1 DEF ServerTcbs
  <2> QED
    BY <2>1, <2>2
<1>4. /\ stcb'[i] = t /\ \A j \in Entries : j /= i => stcb'[j] = stcb[j]
      /\ toServer'[c] = Tail(toServer[c])
      /\ toClient'[c] = Enqueue(toClient[c], MaxToClient, y)
      /\ \A d \in Clients : d /= c => toServer'[d] = toServer[d] /\ toClient'[d] = toClient[d]
  BY <1>0, <1>1, <1>2, <1>3 DEF TypeOK
<1>5. /\ toServer[c] \in Seq(Segments({"SYN", "DATA", "FIN"}))
      /\ toClient[c] \in Seq(Segments({"SYNACK", "DATAACK", "FINACK"}))
  BY <1>0 DEF TypeOK
<1>6. TypeOK'
  <2>1. PICK s \in Seq(Segments({"SYN", "DATA", "FIN"})) : s = Tail(toServer[c])
    BY <1>1, <1>5, QuieterTail
  <2>2. PICK r \in Seq(Segments({"SYNACK", "DATAACK", "FINACK"})) :
           r = Enqueue(toClient[c], MaxToClient, y)
    BY <1>5, QuieterEnqueue
  <2> QED
    BY <1>0, <1>1, <1>2, <1>3, <2>1, <2>2, ServerTypeOK
<1>7. Buffers'
  <2>1. \A k \in DOMAIN t.recvBuf : t.recvBuf[k] = <<c, p>>
    <3>1. CASE stcb[i].state = "LISTENING"
      BY <1>0, <1>3, <3>1 DEF Buffers
    <3>2. CASE stcb[i].state = "CONNECTED" /\ stcb[i].client = <<c, p>>
      BY <1>0, <1>3, <3>2 DEF Buffers
    <3> QED
      BY <1>1, <3>1, <3>2
  <2> QED
    BY <1>0, <1>3, <1>4, <2>1 DEF Buffers
<1>8. SameServerPorts
  <2>1. stcb[i] /= NULL /\ t /= NULL
    BY <1>0, <1>1, TcbTypes
  <2> QED
    BY <1>1, <1>3, <1>4, <2>1 DEF SameServerPorts
<1>9. /\ \A d \in Clients : \A a, b \in Nat : <<d, a, b>> /= <<c, p, q>> =>
           (ServedAt(d, a, b)' <=> ServedAt(d, a, b))
      /\ ServedAt(c, p, q)'
      /\ stcb[i].state = "CONNECTED" => ServedAt(c, p, q)
  BY <1>1, <1>3, <1>4 DEF ServedAt
<1>10. \A d \in Clients : d /= c => SameServed(d) /\ DataOnly(d)
  <2>1. \A d \in Clients : d /= c => SameServed(d)
    BY <1>9 DEF SameServed
  <2> QED
    BY <1>0, <1>4, <2>1, QueuesShrink
<1>11. ASSUME Consistent(c) PROVE Consistent(c)'
  <2> DEFINE x == Seg("DATA", 0, 0)
  <2>1. /\ Quieter(toServer'[c], toServer[c], x)
        /\ Quieter(toClient'[c], toClient[c], y)
        /\ Holds(toServer[c], Seg("SYN", p, q))
        /\ \A a, b : NeverAfter(toServer[c], a, b) =>
                       /\ NeverAfter(toServer'[c], a, b)
                       /\ b = Seg("SYN", p, q) => ~Holds(toServer'[c], a)
        /\ \A b : b /= y /\ ~Holds(toClient[c], b) => NeverAfter(toClient'[c], y, b)
    BY <1>1, <1>4, <1>5, QuieterTail, QuieterEnqueue
  <2>2. /\ \A a, b : /\ x /= Seg("SYN", a, b) /\ x /= Seg("FIN", a, b)
                     /\ y /= Seg("FINACK", b, a)
                     /\ y = Seg("SYNACK", b, a) => a = p /\ b = q
    BY <1>2 DEF Seg
  <2>3. OnlyAttached(c) /\ ctcb' = ctcb
    BY <1>1, <1>11 DEF Consistent
  <2>4. \A a, b : Mine(c, a, b)' <=> Mine(c, a, b)
    BY <2>3 DEF Mine
  <2>5. Mine(c, p, q)
    BY <2>1, <2>3 DEF OnlyAttached
  <2> HIDE DEF x
  <2>6. OnlyAttached(c)'
    <3>1. \A a, b \in Nat :
             /\ Mine(c, a, b) => Mine(c, a, b)'
             /\ x = Seg("SYN", a, b) \/ y = Seg("SYNACK", b, a) => Mine(c, a, b)'
             /\ ServedAt(c, a, b)' => ServedAt(c, a, b) \/ Mine(c, a, b)'
      BY <1>9, <2>2, <2>4, <2>5
    <3> QED
      BY <2>1, <2>3, <3>1, AttachedKept
  <2>7. ASSUME NEW j \in Entries, NEW state, NEW a \in Nat, NEW b \in Nat,
               ctcb[c][j] /= NULL, ctcb[c][j].state = state,
               ctcb[c][j].portNum = a, ctcb[c][j].svr_portNum = b
        PROVE  InState(c, state, a, b)'
    <3>1. InState(c, state, a, b)
      BY <1>11, <2>7 DEF Consistent
    <3>2. CASE (a = p /\ b = q) => state = "CONNECTED"
      <4>1. Harmless(x, state, a, b) /\ HarmlessBack(y, state, a, b)
        BY <2>2, <3>2 DEF Harmless, HarmlessBack
      <4>2. state \in Attached => (ServedAt(c, a, b)' <=> ServedAt(c, a, b))
        <5>1. CASE a = p /\ b = q
          BY <1>9, <3>1, <3>2, <5>1 DEF InState, Open
        <5>2. CASE ~(a = p /\ b = q)
          BY <1>9, <5>2
        <5> QED
          BY <5>1, <5>2
      <4> QED
        BY <2>1, <3>1, <4>1, <4>2, StateKept
    <3>3. CASE a = p /\ b = q /\ state = "SYNSENT"
      <4>1. Opening(c, p, q)
        BY <3>1, <3>3 DEF InState
      <4>2. /\ NeverAfter(toServer'[c], Seg("FIN", p, q), Seg("SYN", p, q))
            /\ ~Holds(toServer'[c], Seg("FIN", p, q))
        BY <2>1, <4>1 DEF Opening
      <4>3. NeverAfter(toClient'[c], Seg("FINACK", q, p), Seg("SYNACK", q, p))
        BY <2>1, <2>2, <4>1 DEF Opening, Quieter
      <4>4. Opening(c, p, q)'
        BY <1>9, <4>2, <4>3 DEF Opening
      <4> QED
        BY <3>3, <4>4 DEF InState
    <3>4. CASE a = p /\ b = q /\ state = "FINWAIT"
      <4>1. Closing(c, p, q)
        BY <3>1, <3>4 DEF InState
      <4>2. ~Holds(toClient[c], Seg("FINACK", q, p))
        BY <2>1, <4>1 DEF Closing
      <4>3. NeverAfter(toServer'[c], Seg("SYN", p, q), Seg("FIN", p, q))
        BY <2>1, <4>1 DEF Closing
      <4>4. /\ NeverAfter(toClient'[c], Seg("SYNACK", q, p), Seg("FINACK", q, p))
            /\ ~Holds(toClient'[c], Seg("FINACK", q, p))
        BY <1>2, <2>1, <2>2, <4>2 DEF Quieter
      <4>5. Closing(c, p, q)'
        BY <4>3, <4>4 DEF Closing
      <4> QED
        BY <3>4, <4>5 DEF InState
    <3>5. CASE state \notin Attached
      BY <3>5 DEF InState, Attached
    <3> QED
      BY <3>2, <3>3, <3>4, <3>5 DEF Attached
  <2> QED
    BY <1>0, <2>3, <2>6, <2>7, SocketBySocket
<1> QED
  BY <1>1, <1>6, <1>7, <1>8, <1>10, <1>11, OneClientStep

\* A FIN ends the connection of the socket that sent it, and no other.  A new
\* socket with the same ports has no answer on the way, and expects none before
\* its own SYN arrives; one that is connected has no FIN on the way.
LEMMA FinReceivedStep ==
    ASSUME IInv, NEW i \in Entries, NEW c \in Clients, FinReceived(i, c)
    PROVE  IInv'
<1>0. TypeOK /\ Buffers /\ OnePort
  BY DEF IInv
<1>1. PICK p, q \in Nat :
        /\ toServer[c] /= << >> /\ Head(toServer[c]) = Seg("FIN", p, q)
        /\ Seg("FIN", p, q).src_port = p /\ Seg("FIN", p, q).dest_port = q
        /\ stcb[i] \in ServerTcbs /\ stcb[i].portNum = q
        /\ toServer' = [toServer EXCEPT ![c] = Tail(toServer[c])]
        /\ UNCHANGED <<appVars, ctcb>>
        /\ stcb[i].state \in {"CONNECTED", "CLOSEWAIT"} /\ stcb[i].client = <<c, p>>
  BY <1>0, Taken DEF FinReceived
<1>2. PICK y \in Segments({"SYNACK", "DATAACK", "FINACK"}) :
        /\ y = Seg("FINACK", q, p)
        /\ toClient' = [toClient EXCEPT ![c] = Enqueue(toClient[c], MaxToClient, y)]
  <2>1. Seg("FINACK", q, p) \in Segments({"SYNACK", "DATAACK", "FINACK"})
    BY DEF Seg, Segments
  <2>2. toClient' = [toClient EXCEPT ![c] =
                       Enqueue(toClient[c], MaxToClient, Seg("FINACK", q, p))]
    BY <1>1 DEF FinReceived, Answer
  <2> QED
    BY <2>1, <2>2
<1>3. PICK t \in ServerTcbs :
        /\ stcb' = [stcb EXCEPT ![i] = t]
        /\ t.portNum = q /\ t.state = "CLOSEWAIT" /\ t.client = <<c, p>>
        /\ t.recvBuf = stcb[i].recvBuf
  <2> DEFINE t == [stcb[i] EXCEPT !.state = "CLOSEWAIT"]
  <2>1. stcb' = [stcb EXCEPT ![i] = t]
    BY <1>0, <1>1 DEF FinReceived, TypeOK
  <2>2. t \in ServerTcbs /\ t.portNum = q /\ t.state = "CLOSEWAIT"
        /\ t.client = <<c, p>> /\ t.recvBuf = stcb[i].recvBuf
    BY <1>1 DEF ServerTcbs
  <2> QED
    BY <2>1, <2>2
<1>4. /\ stcb'[i] = t /\ \A j \in Entries : j /= i => stcb'[j] = stcb[j]
      /\ toServer'[c] = Tail(toServer[c])
      /\ toClient'[c] = Enqueue(toClient[c], MaxToClient, y)
      /\ \A d \in Clients : d /= c => toServer'[d] = toServer[d] /\ toClient'[d] = toClient[d]
  BY <1>0, <1>1, <1>2, <1>3 DEF TypeOK
<1>5. /\ toServer[c] \in Seq(Segments({"SYN", "DATA", "FIN"}))
      /\ toClient[c] \in Seq(Segments({"SYNACK", "DATAACK", "FINACK"}))
  BY <1>0 DEF TypeOK
<1>6. TypeOK'
  <2>1. PICK s \in Seq(Segments({"SYN", "DATA", "FIN"})) : s = Tail(toServer[c])
    BY <1>1, <1>5, QuieterTail
  <2>2. PICK r \in Seq(Segments({"SYNACK", "DATAACK", "FINACK"})) :
           r = Enqueue(toClient[c], MaxToClient, y)
    BY <1>5, QuieterEnqueue
  <2> QED
    BY <1>0, <1>1, <1>2, <1>3, <2>1, <2>2, ServerTypeOK
<1>7. Buffers'
  <2>1. \A k \in DOMAIN t.recvBuf : t.recvBuf[k] = <<c, p>>
    BY <1>0, <1>1, <1>3 DEF Buffers
  <2> QED
    BY <1>0, <1>3, <1>4, <2>1 DEF Buffers
<1>8. SameServerPorts
  <2>1. stcb[i] /= NULL /\ t /= NULL
    BY <1>0, <1>1, TcbTypes
  <2> QED
    BY <1>1, <1>3, <1>4, <2>1 DEF SameServerPorts
<1>9. /\ \A d \in Clients : \A a, b \in Nat : <<d, a, b>> /= <<c, p, q>> =>
           (ServedAt(d, a, b)' <=> ServedAt(d, a, b))
      /\ ~ServedAt(c, p, q)'
  <2>1. \A d \in Clients : \A a, b \in Nat : <<d, a, b>> /= <<c, p, q>> =>
           (ServedAt(d, a, b)' <=> ServedAt(d, a, b))
    BY <1>1, <1>3, <1>4 DEF ServedAt
  <2>2. \A j \in Entries : stcb[j].state = "CONNECTED" /\ stcb[j].portNum = q => j = i
    <3>1. \A j \in Entries : stcb[j].state = "CONNECTED" => stcb[j] /= NULL
      BY DEF NULL
    <3>2. stcb[i] /= NULL
      BY <1>0, <1>1, TcbTypes
    <3> QED
      BY <1>0, <1>1, <3>1, <3>2 DEF OnePort, DistinctPorts
  <2>3. ~ServedAt(c, p, q)'
    BY <1>3, <1>4, <2>2 DEF ServedAt
  <2> QED
    BY <2>1, <2>3
<1>10. \A d \in Clients : d /= c => SameServed(d) /\ DataOnly(d)
  <2>1. \A d \in Clients : d /= c => SameServed(d)
    BY <1>9 DEF SameServed
  <2> QED
    BY <1>0, <1>4, <2>1, QueuesShrink
<1>11. ASSUME Consistent(c) PROVE Consistent(c)'
  <2> DEFINE x == Seg("DATA", 0, 0)
  <2>1. /\ Quieter(toServer'[c], toServer[c], x)
        /\ Quieter(toClient'[c], toClient[c], y)
        /\ Holds(toServer[c], Seg("FIN", p, q))
        /\ \A a, b : NeverAfter(toServer[c], a, b) =>
                       /\ NeverAfter(toServer'[c], a, b)
                       /\ b = Seg("FIN", p, q) => ~Holds(toServer'[c], a)
        /\ \A b : b /= y /\ ~Holds(toClient[c], b) => NeverAfter(toClient'[c], y, b)
    BY <1>1, <1>4, <1>5, QuieterTail, QuieterEnqueue
  <2>2. /\ \A a, b : /\ x /= Seg("SYN", a, b) /\ x /= Seg("FIN", a, b)
                     /\ y /= Seg("SYNACK", b, a)
                     /\ y = Seg("FINACK", b, a) => a = p /\ b = q
    BY <1>2 DEF Seg
  <2>3. OnlyAttached(c) /\ ctcb' = ctcb
    BY <1>1, <1>11 DEF Consistent
  <2>4. \A a, b : Mine(c, a, b)' <=> Mine(c, a, b)
    BY <2>3 DEF Mine
  <2> HIDE DEF x
  <2>6. OnlyAttached(c)'
    <3>1. \A a, b \in Nat :
             /\ Mine(c, a, b) => Mine(c, a, b)'
             /\ x = Seg("SYN", a, b) \/ y = Seg("SYNACK", b, a) => Mine(c, a, b)'
             /\ ServedAt(c, a, b)' => ServedAt(c, a, b) \/ Mine(c, a, b)'
      BY <1>9, <2>2, <2>4
    <3> QED
      BY <2>1, <2>3, <3>1, AttachedKept
  <2>7. ASSUME NEW j \in Entries, NEW state, NEW a \in Nat, NEW b \in Nat,
               ctcb[c][j] /= NULL, ctcb[c][j].state = state,
               ctcb[c][j].portNum = a, ctcb[c][j].svr_portNum = b
        PROVE  InState(c, state, a, b)'
    <3>1. InState(c, state, a, b)
      BY <1>11, <2>7 DEF Consistent
    <3>2. CASE ~(a = p /\ b = q)
      <4>1. Harmless(x, state, a, b) /\ HarmlessBack(y, state, a, b)
        BY <2>2, <3>2 DEF Harmless, HarmlessBack
      <4>2. ServedAt(c, a, b)' <=> ServedAt(c, a, b)
        BY <1>9, <3>2
      <4> QED
        BY <2>1, <3>1, <4>1, <4>2, StateKept
    <3>3. CASE a = p /\ b = q /\ state = "SYNSENT"
      <4>1. Opening(c, p, q)
        BY <3>1, <3>3 DEF InState
      <4>2. ~ServedAt(c, p, q) /\ ~Holds(toClient[c], Seg("SYNACK", q, p))
        BY <2>1, <4>1 DEF Opening
      <4>3. NeverAfter(toServer'[c], Seg("FIN", p, q), Seg("SYN", p, q))
        BY <2>1, <4>1 DEF Opening
      <4>4. /\ NeverAfter(toClient'[c], Seg("FINACK", q, p), Seg("SYNACK", q, p))
            /\ ~Holds(toClient'[c], Seg("SYNACK", q, p))
        BY <1>2, <2>1, <2>2, <4>2 DEF Quieter
      <4>5. Opening(c, p, q)'
        BY <1>9, <4>3, <4>4 DEF Opening
      <4> QED
        BY <3>3, <4>5 DEF InState
    <3>4. CASE a = p /\ b = q /\ state = "CONNECTED"
      BY <2>1, <3>1, <3>4 DEF InState, Open
    <3>5. CASE a = p /\ b = q /\ state = "FINWAIT"
      <4>1. Closing(c, p, q)
        BY <3>1, <3>5 DEF InState
      <4>2. /\ NeverAfter(toServer'[c], Seg("SYN", p, q), Seg("FIN", p, q))
            /\ ~Holds(toServer'[c], Seg("SYN", p, q))
        BY <2>1, <4>1 DEF Closing
      <4>3. NeverAfter(toClient'[c], Seg("SYNACK", q, p), Seg("FINACK", q, p))
        BY <2>1, <2>2, <4>1 DEF Closing, Quieter
      <4>4. Closing(c, p, q)'
        BY <1>9, <4>2, <4>3 DEF Closing
      <4> QED
        BY <3>5, <4>4 DEF InState
    <3>6. CASE state \notin Attached
      BY <3>6 DEF InState, Attached
    <3> QED
      BY <3>2, <3>3, <3>4, <3>5, <3>6 DEF Attached
  <2> QED
    BY <1>0, <2>3, <2>6, <2>7, SocketBySocket
<1> QED
  BY <1>1, <1>6, <1>7, <1>8, <1>10, <1>11, OneClientStep

(***************************************************************************)
(* The client's seghandler                                                 *)
(***************************************************************************)

\* What the client's seghandler does to the TCBs of its table.
LEMMA Handled ==
    ASSUME TypeOK, NEW c \in Clients, ClientHandler(c)
    PROVE  \E type \in {"SYNACK", "DATAACK", "FINACK"}, p, q \in Nat :
             /\ toClient[c] /= << >> /\ Head(toClient[c]) = Seg(type, q, p)
             /\ toClient' = [toClient EXCEPT ![c] = Tail(toClient[c])]
             /\ UNCHANGED <<appVars, stcb, toServer>>
             /\ ctcb' \in [Clients -> [Entries -> ClientTcbs \cup {NULL}]]
             /\ \A d \in Clients : d /= c => ctcb'[d] = ctcb[d]
             /\ \A j \in Entries :
                  \/ SameTcb(ctcb'[c][j], ctcb[c][j])
                  \/ /\ ctcb[c][j] /= NULL /\ ctcb'[c][j] /= NULL
                     /\ ctcb[c][j].portNum = p /\ ctcb[c][j].svr_portNum = q
                     /\ ctcb'[c][j].portNum = p /\ ctcb'[c][j].svr_portNum = q
                     /\ \/ /\ type = "SYNACK" /\ ctcb[c][j].state = "SYNSENT"
                           /\ ctcb'[c][j].state = "CONNECTED"
                        \/ /\ type = "FINACK" /\ ctcb[c][j].state = "FINWAIT"
                           /\ ctcb'[c][j].state = "CLOSED"
<1>1. PICK seg \in Segments({"SYNACK", "DATAACK", "FINACK"}) : seg = Head(toClient[c])
  BY QuieterTail DEF TypeOK, ClientHandler
<1>2. PICK type \in {"SYNACK", "DATAACK", "FINACK"}, p, q \in Nat :
        /\ type = seg.type /\ q = seg.src_port /\ p = seg.dest_port
        /\ seg = Seg(type, q, p)
  BY <1>1 DEF Segments, Seg
<1> DEFINE handles(i) == /\ FromItsServer(ctcb[c][i], seg)
                         /\ NextState(ctcb[c][i].state, seg.type) /= "ignored"
<1>3. PICK handler : /\ handler = {i \in EntriesOfPort(ctcb[c], p) : handles(i)}
  OBVIOUS
<1> DEFINE after(tcb) == [tcb EXCEPT !.state = NextState(@, seg.type),
                                    !.holding = @ /\ seg.type /= "DATAACK"]
<1>4. PICK table : table = [i \in Entries |->
             IF i \in handler THEN after(ctcb[c][i]) ELSE ctcb[c][i]]
  OBVIOUS
<1>5. /\ toClient[c] /= << >>
      /\ toClient' = [toClient EXCEPT ![c] = Tail(toClient[c])]
      /\ UNCHANGED <<appVars, stcb, toServer>>
      /\ ctcb' = [ctcb EXCEPT ![c] = table]
  BY <1>1, <1>2, <1>3, <1>4 DEF ClientHandler
<1>6. ASSUME NEW j \in Entries, j \in handler
      PROVE  /\ ctcb[c][j] \in ClientTcbs
             /\ ctcb[c][j].portNum = p /\ ctcb[c][j].svr_portNum = q
             /\ \/ /\ type = "SYNACK" /\ ctcb[c][j].state = "SYNSENT"
                   /\ NextState(ctcb[c][j].state, type) = "CONNECTED"
                \/ /\ type = "DATAACK" /\ ctcb[c][j].state = "CONNECTED"
                   /\ NextState(ctcb[c][j].state, type) = "CONNECTED"
                \/ /\ type = "FINACK" /\ ctcb[c][j].state = "FINWAIT"
                   /\ NextState(ctcb[c][j].state, type) = "CLOSED"
  <2>1. /\ ctcb[c][j] /= NULL /\ ctcb[c][j].portNum = p
        /\ NextState(ctcb[c][j].state, type) /= "ignored"
        /\ ctcb[c][j].svr_portNum = q
    BY <1>2, <1>3, <1>6 DEF EntriesOfPort, FromItsServer
  <2>2. ctcb[c][j] \in ClientTcbs
    BY <2>1, TcbTypes
  <2> QED
    BY <2>1, <2>2 DEF NextState
<1>7. ASSUME NEW j \in Entries, j \in handler
      PROVE  /\ table[j] \in ClientTcbs
             /\ table[j].portNum = ctcb[c][j].portNum
             /\ table[j].svr_portNum = ctcb[c][j].svr_portNum
             /\ table[j].state = NextState(ctcb[c][j].state, type)
  <2>1. PICK t \in ClientTcbs : t = ctcb[c][j]
    BY <1>6, <1>7
  <2>2. PICK state : state = NextState(t.state, type)
    OBVIOUS
  <2>3. state \in {"CONNECTED", "CLOSED"}
    BY <1>6, <1>7, <2>1, <2>2
  <2>4. table[j] = [t EXCEPT !.state = state, !.holding = t.holding /\ type /= "DATAACK"]
    BY <1>2, <1>4, <1>7, <2>1, <2>2
  <2> QED
    BY <2>1, <2>2, <2>3, <2>4 DEF ClientTcbs
<1>8. ASSUME NEW j \in Entries, j \notin handler PROVE table[j] = ctcb[c][j]
  BY <1>4, <1>8
<1>9. table \in [Entries -> ClientTcbs \cup {NULL}]
  <2>1. \A j \in Entries : table[j] \in ClientTcbs \cup {NULL}
    BY <1>7, <1>8 DEF TypeOK
  <2>2. table = [j \in Entries |-> table[j]]
    BY <1>4
  <2> QED
    BY <2>1, <2>2
<1>10. /\ ctcb' \in [Clients -> [Entries -> ClientTcbs \cup {NULL}]]
       /\ ctcb'[c] = table
       /\ \A d \in Clients : d /= c => ctcb'[d] = ctcb[d]
  BY <1>5, <1>9 DEF TypeOK
<1>11. ASSUME NEW j \in Entries
       PROVE  \/ SameTcb(ctcb'[c][j], ctcb[c][j])
              \/ /\ ctcb[c][j] /= NULL /\ ctcb'[c][j] /= NULL
                 /\ ctcb[c][j].portNum = p /\ ctcb[c][j].svr_portNum = q
                 /\ ctcb'[c][j].portNum = p /\ ctcb'[c][j].svr_portNum = q
                 /\ \/ /\ type = "SYNACK" /\ ctcb[c][j].state = "SYNSENT"
                       /\ ctcb'[c][j].state = "CONNECTED"
                    \/ /\ type = "FINACK" /\ ctcb[c][j].state = "FINWAIT"
                       /\ ctcb'[c][j].state = "CLOSED"
  <2>1. CASE j \notin handler
    BY <1>8, <1>10, <2>1 DEF SameTcb
  <2>2. CASE j \in handler
    <3>1. ctcb[c][j] /= NULL /\ table[j] /= NULL
      BY <1>6, <1>7, <2>2, TcbTypes
    <3> QED
      BY <1>6, <1>7, <1>10, <2>2, <3>1 DEF SameTcb
  <2> QED
    BY <2>1, <2>2
<1>12. Head(toClient[c]) = Seg(type, q, p)
  BY <1>1, <1>2
<1> QED
  BY <1>5, <1>10, <1>11, <1>12

\* An answer reaches its socket.  One that opens the socket finds it served; one
\* that closes it leaves nothing behind that could open a connection.
LEMMA ClientHandlerStep ==
    ASSUME IInv, NEW c \in Clients, ClientHandler(c)
    PROVE  IInv'
<1>0. TypeOK /\ Buffers /\ OnePort /\ Agreed
  BY DEF IInv
<1>1. PICK type \in {"SYNACK", "DATAACK", "FINACK"}, p, q \in Nat :
        /\ toClient[c] /= << >> /\ Head(toClient[c]) = Seg(type, q, p)
        /\ toClient' = [toClient EXCEPT ![c] = Tail(toClient[c])]
        /\ UNCHANGED <<appVars, stcb, toServer>>
        /\ ctcb' \in [Clients -> [Entries -> ClientTcbs \cup {NULL}]]
        /\ \A d \in Clients : d /= c => ctcb'[d] = ctcb[d]
        /\ \A j \in Entries :
             \/ SameTcb(ctcb'[c][j], ctcb[c][j])
             \/ /\ ctcb[c][j] /= NULL /\ ctcb'[c][j] /= NULL
                /\ ctcb[c][j].portNum = p /\ ctcb[c][j].svr_portNum = q
                /\ ctcb'[c][j].portNum = p /\ ctcb'[c][j].svr_portNum = q
                /\ \/ /\ type = "SYNACK" /\ ctcb[c][j].state = "SYNSENT"
                      /\ ctcb'[c][j].state = "CONNECTED"
                   \/ /\ type = "FINACK" /\ ctcb[c][j].state = "FINWAIT"
                      /\ ctcb'[c][j].state = "CLOSED"
  BY <1>0, Handled
<1>2. /\ toClient'[c] = Tail(toClient[c])
      /\ \A d \in Clients : d /= c => toClient'[d] = toClient[d]
      /\ toClient[c] \in Seq(Segments({"SYNACK", "DATAACK", "FINACK"}))
  BY <1>0, <1>1 DEF TypeOK
<1>3. \A d \in Clients : SameServed(d)
  BY <1>0, <1>1, SameStcb
<1>4. TypeOK'
  <2>1. PICK r \in Seq(Segments({"SYNACK", "DATAACK", "FINACK"})) : r = Tail(toClient[c])
    BY <1>1, <1>2, QuieterTail
  <2>2. toClient' \in [Clients -> Seq(Segments({"SYNACK", "DATAACK", "FINACK"}))]
    BY <1>0, <1>1, <2>1 DEF TypeOK
  <2> QED
    BY <1>0, <1>1, <2>2 DEF TypeOK, appVars
<1>5. Buffers'
  BY <1>0, <1>1 DEF Buffers
<1>6. Created' /\ InCall'
  <2>1. \A d \in Clients, j \in Entries :
          \/ ctcb'[d][j].state = ctcb[d][j].state
          \/ ctcb[d][j].state = "SYNSENT" /\ ctcb'[d][j].state = "CONNECTED"
          \/ ctcb[d][j].state = "FINWAIT" /\ ctcb'[d][j].state = "CLOSED"
    BY <1>1 DEF SameTcb
  <2> QED
    BY <1>1, <2>1, MainStays
<1>7. OnePort'
  <2>1. \A d \in Clients, j \in Entries :
           /\ ctcb'[d][j] = NULL <=> ctcb[d][j] = NULL
           /\ ctcb[d][j] /= NULL => ctcb'[d][j].portNum = ctcb[d][j].portNum
    BY <1>1 DEF SameTcb
  <2> QED
    BY <1>0, <1>1, <2>1 DEF OnePort, DistinctPorts
<1>8. ASSUME Consistent(c) PROVE Consistent(c)'
  <2> DEFINE x == Seg("DATA", 0, 0)
  <2>1. /\ Quieter(toServer'[c], toServer[c], x)
        /\ Quieter(toClient'[c], toClient[c], x)
        /\ Holds(toClient[c], Seg(type, q, p))
        /\ \A a, b : NeverAfter(toClient[c], a, b) /\ b = Seg(type, q, p) =>
                       ~Holds(toClient'[c], a)
        /\ \A a : Holds(toClient'[c], a) => Holds(toClient[c], a)
    <3>1. toServer'[c] = toServer[c] /\ toClient'[c] = Tail(toClient[c])
          /\ Head(toClient[c]) = Seg(type, q, p) /\ toClient[c] /= << >>
          /\ toClient[c] \in Seq(Segments({"SYNACK", "DATAACK", "FINACK"}))
      BY <1>1, <1>2
    <3>2. Quieter(toServer'[c], toServer[c], x)
      BY <3>1, QuieterSame
    <3>3. /\ Quieter(Tail(toClient[c]), toClient[c], x)
          /\ Holds(toClient[c], Head(toClient[c]))
          /\ \A a, b : NeverAfter(toClient[c], a, b) /\ Head(toClient[c]) = b =>
                         ~Holds(Tail(toClient[c]), a)
          /\ \A a : Holds(Tail(toClient[c]), a) => Holds(toClient[c], a)
      BY <3>1, QuieterTail
    <3> QED
      BY <3>1, <3>2, <3>3
  <2>2. /\ \A a, b : /\ x /= Seg("SYN", a, b) /\ x /= Seg("FIN", a, b)
                     /\ x /= Seg("SYNACK", b, a) /\ x /= Seg("FINACK", b, a)
    BY DEF Seg
  <2> HIDE DEF x
  <2>3. OnlyAttached(c)
    BY <1>8 DEF Consistent
  <2>4. ASSUME type = "FINACK", NEW j \in Entries, ctcb[c][j] /= NULL,
               ctcb[c][j].state = "FINWAIT",
               ctcb[c][j].portNum = p, ctcb[c][j].svr_portNum = q
        PROVE  /\ ~Holds(toServer'[c], Seg("SYN", p, q))
               /\ ~Holds(toClient'[c], Seg("SYNACK", q, p))
               /\ ~ServedAt(c, p, q)'
    <3>1. Closing(c, p, q)
      BY <1>8, <2>4 DEF Consistent, InState
    <3> QED
      BY <1>1, <1>3, <2>1, <2>4, <3>1 DEF Closing, SameServed
  <2>5. OnlyAttached(c)'
    <3>1. SUFFICES ASSUME NEW a \in Nat, NEW b \in Nat,
                          \/ Holds(toServer'[c], Seg("SYN", a, b))
                          \/ Holds(toClient'[c], Seg("SYNACK", b, a))
                          \/ ServedAt(c, a, b)'
                   PROVE  Mine(c, a, b)'
      BY DEF OnlyAttached
    <3>2. Mine(c, a, b)
      BY <1>1, <1>3, <2>1, <2>3, <3>1 DEF OnlyAttached, SameServed
    <3>3. PICK j \in Entries : /\ ctcb[c][j].state \in Attached
                               /\ ctcb[c][j].portNum = a /\ ctcb[c][j].svr_portNum = b
      BY <3>2 DEF Mine
    <3>4. ctcb[c][j] /= NULL
      BY <3>3 DEF Attached, NULL
    <3>5. CASE SameTcb(ctcb'[c][j], ctcb[c][j])
      BY <3>3, <3>4, <3>5 DEF SameTcb, Mine
    <3>6. CASE ctcb'[c][j].state = "CONNECTED" /\ ctcb'[c][j].portNum = p
               /\ ctcb'[c][j].svr_portNum = q /\ a = p /\ b = q
      BY <3>6 DEF Mine, Attached
    <3>7. CASE type = "FINACK" /\ ctcb[c][j].state = "FINWAIT" /\ a = p /\ b = q
      BY <2>4, <3>1, <3>3, <3>4, <3>7
    <3> QED
      BY <1>1, <3>3, <3>5, <3>6, <3>7
  <2>6. ASSUME NEW j \in Entries, ctcb'[c][j] /= NULL,
               NEW state, NEW a \in Nat, NEW b \in Nat,
               ctcb'[c][j].state = state,
               ctcb'[c][j].portNum = a, ctcb'[c][j].svr_portNum = b
        PROVE  InState(c, state, a, b)'
    <3>1. CASE SameTcb(ctcb'[c][j], ctcb[c][j])
      <4>1. InState(c, state, a, b)
        BY <1>8, <2>6, <3>1 DEF Consistent, SameTcb
      <4>2. Harmless(x, state, a, b) /\ HarmlessBack(x, state, a, b)
        BY <2>2 DEF Harmless, HarmlessBack
      <4>3. ServedAt(c, a, b)' <=> ServedAt(c, a, b)
        BY <1>3 DEF SameServed
      <4> QED
        BY <2>1, <4>1, <4>2, <4>3, StateKept
    <3>2. CASE /\ type = "SYNACK" /\ ctcb[c][j] /= NULL /\ ctcb[c][j].state = "SYNSENT"
               /\ state = "CONNECTED"
               /\ ctcb[c][j].portNum = p /\ ctcb[c][j].svr_portNum = q
               /\ a = p /\ b = q
      <4>1. Opening(c, p, q)
        BY <1>8, <3>2 DEF Consistent, InState
      <4>2. ServedAt(c, p, q) /\ ~Holds(toServer[c], Seg("FIN", p, q))
        BY <2>1, <3>2, <4>1 DEF Opening
      <4>3. ~Holds(toClient'[c], Seg("FINACK", q, p))
        BY <2>1, <3>2, <4>1 DEF Opening
      <4>4. Open(c, p, q)'
        BY <1>1, <1>3, <4>2, <4>3 DEF Open, SameServed
      <4> QED
        BY <3>2, <4>4 DEF InState
    <3>3. CASE state = "CLOSED"
      BY <3>3 DEF InState
    <3> QED
      BY <1>1, <2>6, <3>1, <3>2, <3>3
  <2>7. ASSUME NEW j \in Entries, ctcb'[c][j] /= NULL
        PROVE  InState(c, ctcb[c][j].state, ctcb[c][j].portNum,
                       ctcb[c][j].svr_portNum)'
    <3>1. PICK state, a, b : /\ ctcb'[c][j].state = state
                             /\ ctcb'[c][j].portNum = a /\ ctcb'[c][j].svr_portNum = b
      OBVIOUS
    <3>2. a \in Nat /\ b \in Nat
      <4>1. ctcb'[c][j] \in ClientTcbs
        BY <1>1, <2>7
      <4> QED
        BY <3>1, <4>1 DEF ClientTcbs
    <3>3. InState(c, state, a, b)'
      BY <2>6, <2>7, <3>1, <3>2
    <3> QED
      BY <3>1, <3>3
  <2> QED
    BY <2>5, <2>7 DEF Consistent
<1>9. Agreed'
  <2>1. at' = at
    BY <1>1 DEF appVars
  <2>2. ASSUME NEW d \in Clients, at[d] /= "gone", at[Server] /= "gone" PROVE Consistent(d)'
    <3>1. Consistent(d)
      BY <1>0, <2>2 DEF Agreed
    <3>2. CASE d = c
      BY <1>8, <3>1, <3>2
    <3>3. CASE d /= c
      <4>1. \A j \in Entries : SameTcb(ctcb'[d][j], ctcb[d][j])
        BY <1>1, <3>3 DEF SameTcb
      <4>2. DataOnly(d)
        BY <1>0, <1>1, <1>2, <3>3, QueuesShrink
      <4> QED
        BY <1>0, <1>3, <3>1, <4>1, <4>2, DataAlone
    <3> QED
      BY <3>2, <3>3
  <2> QED
    BY <2>1, <2>2 DEF Agreed
<1> QED
  BY <1>4, <1>5, <1>6, <1>7, <1>9 DEF IInv

(***************************************************************************)
(* The server's calls                                                      *)
(***************************************************************************)

\* A call of process n returns.
LEMMA ReturnsTo ==
    ASSUME TypeOK, Created, NEW n \in Processes, program[n] /= << >>,
           Head(program[n]).op /= "sock", Returns(n), sockfds' = sockfds
    PROVE  /\ program' \in [Processes -> Seq(CallTypes)]
           /\ at' \in [Processes -> Places]
           /\ at'[n] = "main"
           /\ \A m \in Processes : m /= n => program'[m] = program[m] /\ at'[m] = at[m]
           /\ CreatedFor(n)' /\ InCallOf(n)'
<1>1. program[n] \in Seq(CallTypes) /\ Tail(program[n]) \in Seq(CallTypes)
  BY DEF TypeOK
<1>2. PICK rest \in Seq(CallTypes) : rest = Tail(program[n])
  BY <1>1
<1>3. /\ program' = [program EXCEPT ![n] = rest]
      /\ at' = [at EXCEPT ![n] = "main"]
  BY <1>2 DEF Returns
<1>4. /\ program' \in [Processes -> Seq(CallTypes)]
      /\ program'[n] = rest
      /\ \A m \in Processes : m /= n => program'[m] = program[m]
  BY <1>3 DEF TypeOK
<1>5. /\ at' \in [Processes -> Places]
      /\ at'[n] = "main"
      /\ \A m \in Processes : m /= n => at'[m] = at[m]
  BY <1>3 DEF TypeOK, Places
<1>6. CreatedFor(n)'
  BY <1>2, <1>4, CreatedAfter DEF Created
<1>7. InCallOf(n)'
  BY <1>5 DEF InCallOf
<1> QED
  BY <1>4, <1>5, <1>6, <1>7

\* A call of process n comes to another place.
LEMMA GoesTo ==
    ASSUME TypeOK, Created, NEW n \in Processes, NEW place \in Places, Goes(n, place),
           sockfds' = sockfds
    PROVE  /\ program' \in [Processes -> Seq(CallTypes)]
           /\ at' \in [Processes -> Places]
           /\ at'[n] = place
           /\ \A m \in Processes : m /= n => program'[m] = program[m] /\ at'[m] = at[m]
           /\ CreatedFor(n)' /\ program' = program /\ Socket(n)' = Socket(n)
<1>1. program' = program /\ at' = [at EXCEPT ![n] = place]
  BY DEF Goes
<1>2. CreatedFor(n)'
  BY <1>1 DEF Created, CreatedFor
<1>3. Socket(n)' = Socket(n)
  BY <1>1 DEF Socket
<1> QED
  BY <1>1, <1>2, <1>3 DEF TypeOK

\* What the other processes do in the meantime stays as it is.
LEMMA OthersStay ==
    ASSUME Created, InCall, NEW n \in Processes, CreatedFor(n)', InCallOf(n)',
           \A m \in Processes : m /= n =>
             /\ program'[m] = program[m] /\ at'[m] = at[m] /\ sockfds'[m] = sockfds[m]
             /\ m \in Clients => retry'[m] = retry[m] /\ ctcb'[m] = ctcb[m],
           n /= Server => stcb' = stcb
    PROVE  Created' /\ InCall'
<1>1. ASSUME NEW m \in Processes, m /= n PROVE CreatedFor(m)' /\ InCallOf(m)'
  <2>1. /\ program'[m] = program[m] /\ at'[m] = at[m] /\ sockfds'[m] = sockfds[m]
        /\ m \in Clients => retry'[m] = retry[m] /\ ctcb'[m] = ctcb[m]
        /\ m = Server => stcb' = stcb
        /\ CreatedFor(m) /\ InCallOf(m)
    BY <1>1 DEF Created, InCall
  <2>2. CreatedFor(m)'
    BY <2>1 DEF CreatedFor
  <2>3. Socket(m)' = Socket(m) /\ (m \in Clients => State(m)' = State(m))
    BY <2>1 DEF Socket, State
  <2> QED
    BY <2>1, <2>2, <2>3 DEF InCallOf
<1> QED
  BY <1>1 DEF Created, InCall

\* A step of the server's main that opens and ends no connection.
LEMMA ServerMain ==
    ASSUME IInv, UNCHANGED <<retry, ctcb, toServer, toClient>>,
           program' \in [Processes -> Seq(CallTypes)], at' \in [Processes -> Places],
           sockfds' \in [Processes -> [Sockets -> Entries \cup {0}]],
           \A m \in Processes : m /= Server =>
             program'[m] = program[m] /\ at'[m] = at[m] /\ sockfds'[m] = sockfds[m],
           CreatedFor(Server)', InCallOf(Server)', at[Server] /= "gone",
           stcb' \in [Entries -> ServerTcbs \cup {NULL}], Buffers', DistinctPorts(stcb'),
           \A c \in Clients : SameServed(c)
    PROVE  IInv'
<1>1. TypeOK /\ OnePort /\ Created /\ InCall /\ Agreed
  BY DEF IInv
<1>2. TypeOK'
  BY <1>1 DEF TypeOK
<1>3. OnePort'
  BY <1>1 DEF OnePort
<1>4. Created' /\ InCall'
  BY <1>1, OthersStay DEF Processes
<1>5. Agreed'
  <2>1. ASSUME NEW c \in Clients, at'[c] /= "gone" PROVE Consistent(c)'
    <3>1. Consistent(c)
      BY <1>1, <2>1, SocketsAssumption DEF Agreed, Processes
    <3>2. \A i \in Entries : SameTcb(ctcb'[c][i], ctcb[c][i])
      BY DEF SameTcb
    <3>3. DataOnly(c)
      BY <1>1, QueuesShrink
    <3> QED
      BY <1>1, <3>1, <3>2, <3>3, DataAlone
  <2> QED
    BY <2>1 DEF Agreed
<1> QED
  BY <1>2, <1>3, <1>4, <1>5 DEF IInv

\* One that creates and removes no socket.
LEMMA ServerMainStep ==
    ASSUME IInv, UNCHANGED <<sockfds, retry, ctcb, toServer, toClient>>,
           program' \in [Processes -> Seq(CallTypes)], at' \in [Processes -> Places],
           \A m \in Processes : m /= Server => program'[m] = program[m] /\ at'[m] = at[m],
           CreatedFor(Server)', InCallOf(Server)', at[Server] /= "gone",
           stcb' \in [Entries -> ServerTcbs \cup {NULL}], Buffers', SameServerPorts,
           \A c \in Clients : SameServed(c)
    PROVE  IInv'
<1>1. sockfds' \in [Processes -> [Sockets -> Entries \cup {0}]] /\ OnePort
  BY DEF IInv, TypeOK
<1>2. DistinctPorts(stcb')
  BY <1>1 DEF OnePort, DistinctPorts, SameServerPorts
<1> QED
  BY <1>1, <1>2, ServerMain

\* accept: the socket listens, or the call returns.
LEMMA AcceptStep == ASSUME IInv, Accept PROVE IInv'
<1>1. TypeOK /\ Created /\ Buffers /\ InCall
  BY DEF IInv
<1>2. /\ Server \in Processes /\ program[Server] /= << >>
      /\ Head(program[Server]).op = "accept" /\ at[Server] = "main"
      /\ UNCHANGED <<sockfds, retry, ctcb, toServer, toClient>>
  BY DEF Accept, Calls, Processes
<1>3. PICK i \in Entries : i = Socket(Server)
  BY <1>1, <1>2, SocketExists
<1>4. CASE stcb[i].state = "CLOSED"
  <2>1. PICK tcb \in ServerTcbs : tcb = stcb[i]
    BY <1>1, <1>4, TcbTypes
  <2>2. PICK t \in ServerTcbs :
          /\ stcb' = [stcb EXCEPT ![i] = t]
          /\ t.state = "LISTENING" /\ t.portNum = tcb.portNum /\ t.recvBuf = << >>
    <3> DEFINE t == [tcb EXCEPT !.state = "LISTENING"]
    <3>1. stcb' = [stcb EXCEPT ![i] = t]
      BY <1>3, <1>4, <2>1 DEF Accept
    <3>2. tcb.recvBuf = << >>
      BY <1>1, <1>4, <2>1 DEF Buffers
    <3>3. t \in ServerTcbs /\ t.state = "LISTENING" /\ t.portNum = tcb.portNum
          /\ t.recvBuf = tcb.recvBuf
      BY DEF ServerTcbs
    <3> QED
      BY <3>1, <3>2, <3>3
  <2>3. stcb' = [stcb EXCEPT ![i] = t] /\ Goes(Server, "accept")
    BY <1>3, <1>4, <2>2 DEF Accept
  <2>4. /\ stcb' \in [Entries -> ServerTcbs \cup {NULL}]
        /\ stcb'[i] = t /\ \A j \in Entries : j /= i => stcb'[j] = stcb[j]
    BY <1>1, <2>3 DEF TypeOK
  <2>5. tcb /= NULL /\ t /= NULL
    BY <1>1, TcbTypes
  <2>6. /\ program' \in [Processes -> Seq(CallTypes)] /\ at' \in [Processes -> Places]
        /\ at'[Server] = "accept" /\ program' = program
        /\ \A m \in Processes : m /= Server => program'[m] = program[m] /\ at'[m] = at[m]
        /\ CreatedFor(Server)' /\ Socket(Server)' = i
    BY <1>1, <1>2, <1>3, <2>3, GoesTo DEF Places
  <2>7. InCallOf(Server)'
    BY <1>2, <2>4, <2>5, <2>6, SocketsAssumption DEF InCallOf
  <2>8. Buffers'
    BY <1>1, <2>2, <2>4 DEF Buffers
  <2>9. SameServerPorts
    BY <2>1, <2>2, <2>4, <2>5 DEF SameServerPorts
  <2>10. \A c \in Clients : SameServed(c)
    BY <1>4, <2>2, <2>4 DEF SameServed, ServedAt
  <2> QED
    BY <1>2, <2>4, <2>6, <2>7, <2>8, <2>9, <2>10, ServerMainStep
<1>5. CASE stcb[i].state /= "CLOSED"
  <2>1. stcb' = stcb /\ Returns(Server)
    BY <1>3, <1>5 DEF Accept
  <2>2. /\ program' \in [Processes -> Seq(CallTypes)] /\ at' \in [Processes -> Places]
        /\ \A m \in Processes : m /= Server => program'[m] = program[m] /\ at'[m] = at[m]
        /\ CreatedFor(Server)' /\ InCallOf(Server)'
    BY <1>1, <1>2, <2>1, ReturnsTo
  <2>3. stcb' \in [Entries -> ServerTcbs \cup {NULL}]
    BY <1>1, <2>1 DEF TypeOK
  <2> QED
    BY <1>1, <1>2, <2>1, <2>2, <2>3, SameStcb, ServerMainStep
<1> QED
  BY <1>4, <1>5

\* accept has its connection, or recv its data, or recv finds the state wrong.
LEMMA ServerReturnsStep ==
    ASSUME IInv, AcceptReturns \/ RecvReturns \/ Recv PROVE IInv'
<1>1. TypeOK /\ Created /\ Buffers /\ InCall
  BY DEF IInv
<1>2. UNCHANGED <<sockfds, retry, ctcb, toServer, toClient>> /\ Server \in Processes
  BY DEF AcceptReturns, RecvReturns, Recv, Processes
<1>3. /\ program[Server] /= << >> /\ Head(program[Server]).op /= "sock"
      /\ at[Server] \in {"main", "accept", "recv"}
  BY <1>1, <1>2 DEF AcceptReturns, RecvReturns, Recv, Calls, InCall, InCallOf
<1>4. PICK i \in Entries : i = Socket(Server)
  BY <1>1, <1>2, <1>3, SocketExists
<1>5. /\ stcb' \in [Entries -> ServerTcbs \cup {NULL}]
      /\ Buffers' /\ SameServerPorts /\ \A c \in Clients : SameServed(c)
      /\ stcb'[i] = NULL <=> stcb[i] = NULL
  <2>1. CASE stcb' = stcb
    <3>1. stcb' \in [Entries -> ServerTcbs \cup {NULL}]
      BY <1>1, <2>1 DEF TypeOK
    <3> QED
      BY <1>1, <2>1, <3>1, SameStcb
  <2>2. CASE RecvReturns
    <3>1. stcb[i] /= NULL /\ stcb[i].recvBuf /= << >>
      BY <1>1, <1>2, <1>4, <2>2 DEF RecvReturns, InCall, InCallOf
    <3>2. PICK tcb \in ServerTcbs : tcb = stcb[i]
      BY <1>1, <3>1, TcbTypes
    <3>3. PICK buf \in Seq(Clients \X Nat) : buf = tcb.recvBuf /\ buf /= << >>
      BY <3>1, <3>2 DEF ServerTcbs
    <3>4. /\ Tail(buf) \in Seq(Clients \X Nat)
          /\ \A k \in DOMAIN Tail(buf) : k + 1 \in DOMAIN buf /\ Tail(buf)[k] = buf[k + 1]
      BY <3>3
    <3>5. PICK rest \in Seq(Clients \X Nat) : rest = Tail(buf)
      BY <3>4
    <3>6. PICK t \in ServerTcbs :
            /\ stcb' = [stcb EXCEPT ![i] = t]
            /\ t.state = tcb.state /\ t.portNum = tcb.portNum
            /\ t.client = tcb.client /\ t.recvBuf = rest
      <4> DEFINE t == [tcb EXCEPT !.recvBuf = rest]
      <4>1. stcb' = [stcb EXCEPT ![i] = t]
        BY <1>4, <2>2, <3>2, <3>3, <3>5 DEF RecvReturns
      <4>2. t \in ServerTcbs /\ t.state = tcb.state /\ t.portNum = tcb.portNum
            /\ t.client = tcb.client /\ t.recvBuf = rest
        BY DEF ServerTcbs
      <4> QED
        BY <4>1, <4>2
    <3>7. stcb' = [stcb EXCEPT ![i] = t]
      BY <3>6
    <3>8. /\ stcb' \in [Entries -> ServerTcbs \cup {NULL}]
          /\ stcb'[i] = t /\ \A j \in Entries : j /= i => stcb'[j] = stcb[j]
      BY <1>1, <3>7 DEF TypeOK
    <3>9. tcb /= NULL /\ t /= NULL
      BY <1>1, TcbTypes
    <3>10. Buffers'
      <4>1. t.state \notin {"CLOSED", "LISTENING"}
        BY <1>1, <3>2, <3>3, <3>6 DEF Buffers
      <4>2. t.state \in {"CONNECTED", "CLOSEWAIT"} =>
              \A k \in DOMAIN rest : rest[k] = t.client
        BY <1>1, <3>2, <3>3, <3>4, <3>5, <3>6 DEF Buffers
      <4>3. ASSUME NEW j \in Entries
            PROVE  /\ stcb'[j].state \in {"CLOSED", "LISTENING"} => stcb'[j].recvBuf = << >>
                   /\ stcb'[j].state \in {"CONNECTED", "CLOSEWAIT"} =>
                        \A k \in DOMAIN stcb'[j].recvBuf :
                          stcb'[j].recvBuf[k] = stcb'[j].client
        <5>1. CASE j = i
          BY <3>6, <3>8, <4>1, <4>2, <5>1
        <5>2. CASE j /= i
          BY <1>1, <3>8, <5>2 DEF Buffers
        <5> QED
          BY <5>1, <5>2
      <4> QED
        BY <4>3 DEF Buffers
    <3>11. \A j \in Entries :
             /\ stcb'[j].state = stcb[j].state /\ stcb'[j].portNum = stcb[j].portNum
             /\ stcb'[j].client = stcb[j].client /\ (stcb'[j] = NULL <=> stcb[j] = NULL)
      BY <3>2, <3>6, <3>8, <3>9
    <3>12. SameServerPorts /\ \A c \in Clients : SameServed(c)
      BY <3>11 DEF SameServerPorts, SameServed, ServedAt
    <3> QED
      BY <3>8, <3>10, <3>11, <3>12
  <2> QED
    BY <2>1, <2>2 DEF AcceptReturns, Recv
<1>6. CASE Returns(Server)
  <2>1. /\ program' \in [Processes -> Seq(CallTypes)] /\ at' \in [Processes -> Places]
        /\ \A m \in Processes : m /= Server => program'[m] = program[m] /\ at'[m] = at[m]
        /\ CreatedFor(Server)' /\ InCallOf(Server)'
    BY <1>1, <1>2, <1>3, <1>6, ReturnsTo
  <2> QED
    BY <1>2, <1>3, <1>5, <2>1, ServerMainStep
<1>7. CASE Goes(Server, "recv") /\ stcb[i].state = "CONNECTED"
  <2>1. /\ program' \in [Processes -> Seq(CallTypes)] /\ at' \in [Processes -> Places]
        /\ at'[Server] = "recv" /\ program' = program
        /\ \A m \in Processes : m /= Server => program'[m] = program[m] /\ at'[m] = at[m]
        /\ CreatedFor(Server)' /\ Socket(Server)' = i
    BY <1>1, <1>2, <1>4, <1>7, GoesTo DEF Places
  <2>2. stcb'[i] /= NULL
    BY <1>5, <1>7 DEF NULL
  <2>3. InCallOf(Server)'
    BY <1>3, <2>1, <2>2, SocketsAssumption DEF InCallOf
  <2> QED
    BY <1>2, <1>3, <1>5, <2>1, <2>3, ServerMainStep
<1> QED
  BY <1>4, <1>6, <1>7 DEF AcceptReturns, RecvReturns, Recv

(***************************************************************************)
(* The client's calls                                                      *)
(***************************************************************************)

\* A step of the main of client c.
LEMMA ClientMain ==
    ASSUME IInv, NEW c \in Clients, UNCHANGED <<stcb, toClient>>,
           program' \in [Processes -> Seq(CallTypes)], at' \in [Processes -> Places],
           sockfds' \in [Processes -> [Sockets -> Entries \cup {0}]],
           \A m \in Processes : m /= c =>
             program'[m] = program[m] /\ at'[m] = at[m] /\ sockfds'[m] = sockfds[m],
           CreatedFor(c)', InCallOf(c)', at[c] /= "gone",
           retry' \in [Clients -> Nat],
           ctcb' \in [Clients -> [Entries -> ClientTcbs \cup {NULL}]],
           toServer' \in [Clients -> Seq(Segments({"SYN", "DATA", "FIN"}))],
           \A d \in Clients : d /= c =>
             retry'[d] = retry[d] /\ ctcb'[d] = ctcb[d] /\ toServer'[d] = toServer[d],
           DistinctPorts(ctcb'[c]),
           Consistent(c) => Consistent(c)'
    PROVE  IInv'
<1>1. TypeOK /\ OnePort /\ Created /\ InCall /\ Buffers /\ Agreed
  BY DEF IInv
<1>2. TypeOK'
  BY <1>1 DEF TypeOK
<1>3. OnePort'
  <2>1. ASSUME NEW d \in Clients PROVE DistinctPorts(ctcb'[d])
    <3>1. CASE d /= c
      BY <1>1, <3>1 DEF OnePort
    <3> QED
      BY <3>1
  <2> QED
    BY <1>1, <2>1 DEF OnePort
<1>4. Created' /\ InCall'
  BY <1>1, OthersStay DEF Processes
<1>5. Buffers' /\ \A d : SameServed(d)
  BY <1>1, SameStcb
<1>6. Agreed'
  <2>1. /\ Server \in Processes /\ Server /= c /\ \A d \in Clients : d \in Processes
    BY SocketsAssumption DEF Processes
  <2>2. ASSUME NEW d \in Clients, at'[d] /= "gone", at'[Server] /= "gone"
        PROVE  Consistent(d)'
    <3>1. Consistent(d)
      BY <1>1, <2>1, <2>2 DEF Agreed
    <3>2. CASE d = c
      BY <3>1, <3>2
    <3>3. CASE d /= c
      <4>1. \A i \in Entries : SameTcb(ctcb'[d][i], ctcb[d][i])
        BY <3>3 DEF SameTcb
      <4>2. DataOnly(d)
        BY <1>1, <3>3, QueuesShrink
      <4> QED
        BY <1>1, <1>5, <3>1, <4>1, <4>2, DataAlone
    <3> QED
      BY <3>2, <3>3
  <2> QED
    BY <2>2 DEF Agreed
<1> QED
  BY <1>2, <1>3, <1>4, <1>5, <1>6 DEF IInv

\* One that creates and removes no socket.
LEMMA ClientMainStep ==
    ASSUME IInv, NEW c \in Clients, UNCHANGED <<sockfds, stcb, toClient>>,
           program' \in [Processes -> Seq(CallTypes)], at' \in [Processes -> Places],
           \A m \in Processes : m /= c => program'[m] = program[m] /\ at'[m] = at[m],
           CreatedFor(c)', InCallOf(c)', at[c] /= "gone",
           retry' \in [Clients -> Nat],
           ctcb' \in [Clients -> [Entries -> ClientTcbs \cup {NULL}]],
           toServer' \in [Clients -> Seq(Segments({"SYN", "DATA", "FIN"}))],
           \A d \in Clients : d /= c =>
             retry'[d] = retry[d] /\ ctcb'[d] = ctcb[d] /\ toServer'[d] = toServer[d],
           \A i \in Entries :
             /\ ctcb'[c][i] = NULL <=> ctcb[c][i] = NULL
             /\ ctcb[c][i] /= NULL => ctcb'[c][i].portNum = ctcb[c][i].portNum,
           Consistent(c) => Consistent(c)'
    PROVE  IInv'
<1>1. sockfds' \in [Processes -> [Sockets -> Entries \cup {0}]] /\ OnePort
  BY DEF IInv, TypeOK
<1>2. DistinctPorts(ctcb'[c])
  <2>1. DistinctPorts(ctcb[c])
    BY <1>1 DEF OnePort
  <2> QED
    BY <2>1 DEF DistinctPorts
<1> QED
  BY <1>1, <1>2, ClientMain

\* The socket of the call that a client is in.
LEMMA ClientsCall ==
    ASSUME IInv, NEW c \in Clients,
           \/ \E op \in Operations \ {"sock"} : Calls(c, op)
           \/ at[c] \notin {"main", "gone"}
    PROVE  /\ c \in Processes /\ c /= Server /\ at[c] /= "gone"
           /\ program[c] /= << >> /\ Head(program[c]).op /= "sock"
           /\ \E i \in Entries : i = Socket(c)
           /\ State(c) \in {"SYNSENT", "CONNECTED", "FINWAIT", "CLOSED"} =>
                ctcb[c][Socket(c)] \in ClientTcbs
<1>1. TypeOK /\ Created /\ InCall
  BY DEF IInv
<1>2. c \in Processes /\ c /= Server
  BY SocketsAssumption DEF Processes
<1>3. at[c] /= "gone" /\ program[c] /= << >> /\ Head(program[c]).op /= "sock"
  BY <1>1, <1>2 DEF Calls, InCall, InCallOf
<1>4. Socket(c) \in Entries
  BY <1>1, <1>2, <1>3, SocketExists
<1>5. ctcb[c][Socket(c)] \in ClientTcbs \cup {NULL}
  BY <1>1, <1>4 DEF TypeOK
<1>6. State(c) \in {"SYNSENT", "CONNECTED", "FINWAIT", "CLOSED"} =>
        ctcb[c][Socket(c)] /= NULL
  BY DEF State, NULL
<1> QED
  BY <1>2, <1>3, <1>4, <1>5, <1>6

\* A segment has been sent to the server.
LEMMA Sent ==
    ASSUME TypeOK, NEW c \in Clients, NEW x \in Segments({"SYN", "DATA", "FIN"}),
           toServer' = [toServer EXCEPT ![c] = Enqueue(toServer[c], MaxToServer, x)]
    PROVE  /\ toServer' \in [Clients -> Seq(Segments({"SYN", "DATA", "FIN"}))]
           /\ \A d \in Clients : d /= c => toServer'[d] = toServer[d]
           /\ Quieter(toServer'[c], toServer[c], x)
           /\ \A b : b /= x /\ ~Holds(toServer[c], b) => NeverAfter(toServer'[c], x, b)
<1>1. toServer[c] \in Seq(Segments({"SYN", "DATA", "FIN"}))
  BY DEF TypeOK
<1>2. PICK queue \in Seq(Segments({"SYN", "DATA", "FIN"})) :
        /\ queue = Enqueue(toServer[c], MaxToServer, x)
        /\ Quieter(queue, toServer[c], x)
        /\ \A b : b /= x /\ ~Holds(toServer[c], b) => NeverAfter(queue, x, b)
  BY <1>1, QuieterEnqueue
<1>3. toServer' = [toServer EXCEPT ![c] = queue]
  BY <1>2
<1>4. /\ toServer' \in [Clients -> Seq(Segments({"SYN", "DATA", "FIN"}))]
      /\ toServer'[c] = queue
      /\ \A d \in Clients : d /= c => toServer'[d] = toServer[d]
  BY <1>3 DEF TypeOK
<1> QED
  BY <1>2, <1>4

\* The answer has come, or has not.
LEMMA WaitStep ==
    ASSUME IInv, NEW c \in Clients, ConnectReturns(c) \/ TimesOut(c) PROVE IInv'
<1>1. TypeOK /\ Created /\ InCall
  BY DEF IInv
<1>2. /\ UNCHANGED <<sockfds, ctcb, stcb, toServer, toClient>>
      /\ at[c] \in {"connect", "disconnect"}
  BY DEF ConnectReturns, TimesOut
<1>3. PICK i \in Entries : i = Socket(c)
  BY <1>2, ClientsCall
<1>4. /\ c \in Processes /\ c /= Server /\ at[c] /= "gone"
      /\ program[c] /= << >> /\ Head(program[c]).op /= "sock"
  BY <1>2, ClientsCall
<1>5. Consistent(c) => Consistent(c)'
  <2>1. \A j \in Entries : SameTcb(ctcb'[c][j], ctcb[c][j])
    BY <1>2 DEF SameTcb
  <2>2. DataOnly(c) /\ SameServed(c)
    BY <1>1, <1>2, QueuesShrink, SameStcb
  <2> QED
    BY <1>1, <2>1, <2>2, DataAlone
<1>6. /\ ctcb' \in [Clients -> [Entries -> ClientTcbs \cup {NULL}]]
      /\ toServer' \in [Clients -> Seq(Segments({"SYN", "DATA", "FIN"}))]
      /\ retry' \in [Clients -> Nat] /\ \A d \in Clients : d /= c => retry'[d] = retry[d]
  <2>1. /\ ctcb' \in [Clients -> [Entries -> ClientTcbs \cup {NULL}]]
        /\ toServer' \in [Clients -> Seq(Segments({"SYN", "DATA", "FIN"}))]
    BY <1>1, <1>2 DEF TypeOK
  <2>2. retry' = retry \/ retry' = [retry EXCEPT ![c] = 0]
    BY DEF ConnectReturns, TimesOut
  <2>3. retry \in [Clients -> Nat] /\ toServer' = toServer /\ ctcb' = ctcb
    BY <1>1, <1>2 DEF TypeOK
  <2>4. retry' \in [Clients -> Nat] /\ \A d \in Clients : d /= c => retry'[d] = retry[d]
    BY <2>2, <2>3
  <2> QED
    BY <2>1, <2>4
<1>7. /\ program' \in [Processes -> Seq(CallTypes)] /\ at' \in [Processes -> Places]
      /\ \A m \in Processes : m /= c => program'[m] = program[m] /\ at'[m] = at[m]
      /\ CreatedFor(c)' /\ InCallOf(c)'
  <2>1. CASE ConnectReturns(c)
    BY <1>1, <1>4, <2>1, ReturnsTo DEF ConnectReturns
  <2>2. CASE TimesOut(c)
    <3>1. PICK place \in {"sendSyn", "sendFin"} :
            /\ Goes(c, place) /\ retry[c] > 0 /\ retry' = retry
            /\ at[c] = IF place = "sendSyn" THEN "connect" ELSE "disconnect"
      BY <2>2 DEF TimesOut
    <3>2. /\ program' \in [Processes -> Seq(CallTypes)] /\ at' \in [Processes -> Places]
          /\ at'[c] = place /\ program' = program /\ Socket(c)' = Socket(c)
          /\ \A m \in Processes : m /= c => program'[m] = program[m] /\ at'[m] = at[m]
          /\ CreatedFor(c)'
      BY <1>1, <1>2, <1>4, <3>1, GoesTo DEF Places
    <3>3. State(c)' = State(c)
      BY <1>2, <3>2 DEF State
    <3>4. InCallOf(c)
      BY <1>1, <1>4 DEF InCall
    <3>5. retry'[c] > 0
      BY <3>1
    <3>6. CASE place = "sendSyn"
      <4>1. State(c)' \in {"SYNSENT", "CONNECTED"}
        BY <1>4, <3>1, <3>3, <3>4, <3>6 DEF InCallOf
      <4> QED
        BY <1>4, <3>2, <3>5, <3>6, <4>1 DEF InCallOf
    <3>7. CASE place = "sendFin"
      <4>1. State(c)' \in {"FINWAIT", "CLOSED"}
        BY <1>4, <3>1, <3>3, <3>4, <3>7 DEF InCallOf
      <4> QED
        BY <1>4, <3>2, <3>5, <3>7, <4>1 DEF InCallOf
    <3>8. InCallOf(c)'
      BY <3>1, <3>6, <3>7
    <3> QED
      BY <3>2, <3>8
  <2> QED
    BY <2>1, <2>2
<1> QED
  BY <1>2, <1>4, <1>5, <1>6, <1>7, ClientMainStep

\* A connection whose socket is neither i nor has i's port.
LEMMA OtherPort ==
    ASSUME OnePort, NEW c \in Clients, NEW i \in Entries, ctcb[c][i] /= NULL,
           NEW j \in Entries, j /= i, ctcb[c][j] /= NULL
    PROVE  ctcb[c][j].portNum /= ctcb[c][i].portNum
  BY DEF OnePort, DistinctPorts

\* The SYN or the FIN again: the socket is still in a state for it.
LEMMA SendAgainStep ==
    ASSUME IInv, NEW c \in Clients, SendAgain(c) PROVE IInv'
<1>1. TypeOK /\ Created /\ InCall /\ OnePort
  BY DEF IInv
<1>2. PICK type \in {"SYN", "FIN"}, place \in {"connect", "disconnect"} :
        /\ at[c] = IF type = "SYN" THEN "sendSyn" ELSE "sendFin"
        /\ place = IF type = "SYN" THEN "connect" ELSE "disconnect"
        /\ Goes(c, place) /\ SendFromSocket(c, type)
        /\ UNCHANGED <<sockfds, ctcb, stcb, toClient>>
        /\ retry' = [retry EXCEPT ![c] = retry[c] - 1]
  BY DEF SendAgain
<1>3. PICK i \in Entries : i = Socket(c)
  BY <1>2, ClientsCall
<1>4. /\ c \in Processes /\ c /= Server /\ at[c] /= "gone"
      /\ program[c] /= << >> /\ Head(program[c]).op /= "sock"
  BY <1>2, ClientsCall
<1>5. /\ retry[c] > 0
      /\ type = "SYN" => State(c) \in {"SYNSENT", "CONNECTED"}
      /\ type = "FIN" => State(c) \in {"FINWAIT", "CLOSED"}
  BY <1>1, <1>2, <1>4 DEF InCall, InCallOf
<1>6. PICK tcb \in ClientTcbs : tcb = ctcb[c][i] /\ tcb /= NULL /\ tcb.state = State(c)
  BY <1>1, <1>2, <1>3, <1>5, ClientsCall, TcbTypes DEF State
<1>7. PICK p, q \in Nat : p = tcb.portNum /\ q = tcb.svr_portNum
  BY DEF ClientTcbs
<1>8. PICK x \in Segments({"SYN", "DATA", "FIN"}) : x = Seg(type, p, q)
  BY DEF Segments, Seg
<1>9. toServer' = [toServer EXCEPT ![c] = Enqueue(toServer[c], MaxToServer, x)]
  BY <1>2, <1>3, <1>6, <1>7, <1>8 DEF SendFromSocket
<1>10. /\ toServer' \in [Clients -> Seq(Segments({"SYN", "DATA", "FIN"}))]
       /\ \A d \in Clients : d /= c => toServer'[d] = toServer[d]
       /\ Quieter(toServer'[c], toServer[c], x)
  BY <1>1, <1>9, Sent
<1>11. Consistent(c) => Consistent(c)'
  <2> DEFINE y == Seg("DATA", 0, 0)
  <2>1. Quieter(toClient'[c], toClient[c], y)
    BY <1>2, QuieterSame
  <2>2. \A a, b : /\ y /= Seg("SYNACK", b, a) /\ y /= Seg("FINACK", b, a)
                  /\ x = Seg("SYN", a, b) => type = "SYN" /\ a = p /\ b = q
                  /\ x = Seg("FIN", a, b) => type = "FIN" /\ a = p /\ b = q
    BY <1>8 DEF Seg
  <2> HIDE DEF y
  <2>3. \A j \in Entries : SameTcb(ctcb'[c][j], ctcb[c][j])
    BY <1>2 DEF SameTcb
  <2>4. SameServed(c)
    BY <1>1, <1>2, SameStcb
  <2>5. \A a, b \in Nat : x = Seg("SYN", a, b) \/ y = Seg("SYNACK", b, a) => Mine(c, a, b)
    <3>1. type = "SYN" => Mine(c, p, q)
      BY <1>5, <1>6, <1>7 DEF Mine, Attached
    <3> QED
      BY <2>2, <3>1
  <2>6. ASSUME NEW j \in Entries, ctcb[c][j] /= NULL
        PROVE  /\ Harmless(x, ctcb[c][j].state, ctcb[c][j].portNum, ctcb[c][j].svr_portNum)
               /\ HarmlessBack(y, ctcb[c][j].state, ctcb[c][j].portNum,
                               ctcb[c][j].svr_portNum)
    <3>1. CASE j /= i
      <4>1. ctcb[c][j].portNum /= p
        BY <1>1, <1>6, <1>7, <2>6, <3>1, OtherPort
      <4> QED
        BY <2>2, <4>1 DEF Harmless, HarmlessBack
    <3>2. CASE j = i
      BY <1>5, <1>6, <2>2, <3>2 DEF Harmless, HarmlessBack
    <3> QED
      BY <3>1, <3>2
  <2> QED
    BY <1>1, <1>10, <2>1, <2>3, <2>4, <2>5, <2>6, ConsistentKept
<1>12. /\ ctcb' \in [Clients -> [Entries -> ClientTcbs \cup {NULL}]]
       /\ retry' \in [Clients -> Nat] /\ \A d \in Clients : d /= c => retry'[d] = retry[d]
  <2>1. retry \in [Clients -> Nat] /\ retry[c] - 1 \in Nat
    BY <1>1, <1>5 DEF TypeOK
  <2> QED
    BY <1>1, <1>2, <2>1 DEF TypeOK
<1>13. /\ program' \in [Processes -> Seq(CallTypes)] /\ at' \in [Processes -> Places]
       /\ at'[c] = place /\ program' = program /\ Socket(c)' = Socket(c)
       /\ \A m \in Processes : m /= c => program'[m] = program[m] /\ at'[m] = at[m]
       /\ CreatedFor(c)'
  BY <1>1, <1>2, <1>4, GoesTo DEF Places
<1>14. InCallOf(c)'
  <2>1. State(c)' = State(c)
    BY <1>2, <1>13 DEF State
  <2>2. type \in {"SYN", "FIN"}
    OBVIOUS
  <2>3. CASE type = "SYN"
    BY <1>2, <1>4, <1>5, <1>13, <2>1, <2>3 DEF InCallOf
  <2>4. CASE type = "FIN"
    BY <1>2, <1>4, <1>5, <1>13, <2>1, <2>4 DEF InCallOf
  <2> QED
    BY <2>2, <2>3, <2>4
<1>15. sockfds' = sockfds /\ ctcb' = ctcb /\ stcb' = stcb /\ toClient' = toClient
  BY <1>2
<1> QED
  BY <1>4, <1>10, <1>11, <1>12, <1>13, <1>14, <1>15, ClientMainStep

\* send: data for the server, if the socket is connected.
LEMMA SendStep == ASSUME IInv, NEW c \in Clients, Send(c) PROVE IInv'
<1>1. TypeOK /\ Created /\ InCall
  BY DEF IInv
<1>2. /\ UNCHANGED <<sockfds, retry, stcb, toClient>> /\ Returns(c) /\ Calls(c, "send")
      /\ "send" \in Operations \ {"sock"}
  BY DEF Send, Operations
<1>3. PICK i \in Entries : i = Socket(c)
  BY <1>2, ClientsCall
<1>4. /\ c \in Processes /\ c /= Server /\ at[c] /= "gone"
      /\ program[c] /= << >> /\ Head(program[c]).op /= "sock"
  BY <1>2, ClientsCall
<1>5. /\ program' \in [Processes -> Seq(CallTypes)] /\ at' \in [Processes -> Places]
      /\ \A m \in Processes : m /= c => program'[m] = program[m] /\ at'[m] = at[m]
      /\ CreatedFor(c)' /\ InCallOf(c)'
  BY <1>1, <1>2, <1>4, ReturnsTo
<1>6. /\ ctcb' \in [Clients -> [Entries -> ClientTcbs \cup {NULL}]]
      /\ toServer' \in [Clients -> Seq(Segments({"SYN", "DATA", "FIN"}))]
      /\ \A d \in Clients : d /= c => ctcb'[d] = ctcb[d] /\ toServer'[d] = toServer[d]
      /\ \A j \in Entries : SameTcb(ctcb'[c][j], ctcb[c][j])
      /\ \E x : x.type = "DATA" /\ Quieter(toServer'[c], toServer[c], x)
  <2>1. CASE State(c) = "CONNECTED"
    <3>1. PICK tcb \in ClientTcbs : tcb = ctcb[c][i]
      BY <1>2, <1>3, <2>1, ClientsCall
    <3>2. PICK t \in ClientTcbs :
            /\ ctcb' = [ctcb EXCEPT ![c][i] = t]
            /\ t.state = tcb.state /\ t.portNum = tcb.portNum
            /\ t.svr_portNum = tcb.svr_portNum
      <4> DEFINE t == [tcb EXCEPT !.holding = TRUE]
      <4>1. ctcb' = [ctcb EXCEPT ![c][i] = t]
        BY <1>3, <2>1, <3>1 DEF Send
      <4>2. t \in ClientTcbs /\ t.state = tcb.state /\ t.portNum = tcb.portNum
            /\ t.svr_portNum = tcb.svr_portNum
        BY DEF ClientTcbs
      <4> QED
        BY <4>1, <4>2
    <3>3. /\ ctcb' \in [Clients -> [Entries -> ClientTcbs \cup {NULL}]]
          /\ ctcb'[c][i] = t
          /\ \A j \in Entries : j /= i => ctcb'[c][j] = ctcb[c][j]
          /\ \A d \in Clients : d /= c => ctcb'[d] = ctcb[d]
      BY <1>1, <3>2 DEF TypeOK
    <3>4. \A j \in Entries : SameTcb(ctcb'[c][j], ctcb[c][j])
      <4>1. t /= NULL /\ tcb /= NULL
        BY <1>1, TcbTypes
      <4> QED
        BY <3>1, <3>2, <3>3, <4>1 DEF SameTcb
    <3>5. PICK x \in Segments({"SYN", "DATA", "FIN"}) :
            x = Seg("DATA", t.portNum, t.svr_portNum) /\ x.type = "DATA"
      <4>1. PICK p, q \in Nat : p = t.portNum /\ q = t.svr_portNum
        BY DEF ClientTcbs
      <4>2. Seg("DATA", p, q) \in Segments({"SYN", "DATA", "FIN"})
            /\ Seg("DATA", p, q).type = "DATA"
        BY DEF Segments, Seg
      <4> QED
        BY <4>1, <4>2
    <3>6. toServer' = [toServer EXCEPT ![c] = Enqueue(toServer[c], MaxToServer, x)]
      BY <1>3, <2>1, <3>3, <3>5 DEF Send, SendFromSocket
    <3>7. /\ toServer' \in [Clients -> Seq(Segments({"SYN", "DATA", "FIN"}))]
          /\ \A d \in Clients : d /= c => toServer'[d] = toServer[d]
          /\ Quieter(toServer'[c], toServer[c], x)
      BY <1>1, <3>6, Sent
    <3> QED
      BY <3>3, <3>4, <3>5, <3>7
  <2>2. CASE State(c) /= "CONNECTED"
    <3>1. ctcb' = ctcb /\ toServer' = toServer
      BY <2>2 DEF Send
    <3>2. Seg("DATA", 0, 0).type = "DATA"
      BY DEF Seg
    <3>3. Quieter(toServer'[c], toServer[c], Seg("DATA", 0, 0))
      BY <3>1, QuieterSame
    <3> QED
      BY <1>1, <3>1, <3>2, <3>3 DEF SameTcb, TypeOK
  <2> QED
    BY <2>1, <2>2
<1>7. DataOnly(c)
  <2>1. Seg("DATAACK", 0, 0).type = "DATAACK"
    BY DEF Seg
  <2>2. Quieter(toClient'[c], toClient[c], Seg("DATAACK", 0, 0))
    BY <1>2, QuieterSame
  <2> QED
    BY <1>6, <2>1, <2>2 DEF DataOnly
<1>8. Consistent(c) => Consistent(c)'
  BY <1>1, <1>2, <1>6, <1>7, SameStcb, DataAlone
<1>9. \A j \in Entries :
        /\ ctcb'[c][j] = NULL <=> ctcb[c][j] = NULL
        /\ ctcb[c][j] /= NULL => ctcb'[c][j].portNum = ctcb[c][j].portNum
  BY <1>6 DEF SameTcb
<1>10. retry' \in [Clients -> Nat] /\ retry' = retry
  BY <1>1, <1>2 DEF TypeOK
<1>11. sockfds' = sockfds /\ stcb' = stcb /\ toClient' = toClient
  BY <1>2
<1> QED
  BY <1>4, <1>5, <1>6, <1>8, <1>9, <1>10, <1>11, ClientMainStep

\* Socket i of client c goes on to TCB t, and x is sent: no other socket minds.
LEMMA SocketMoves ==
    ASSUME TypeOK, OnePort, NEW c \in Clients, Consistent(c), NEW i \in Entries,
           NEW tcb \in ClientTcbs, ctcb[c][i] = tcb, tcb /= NULL,
           NEW t \in ClientTcbs, ctcb'[c][i] = t, t.portNum = tcb.portNum,
           \A j \in Entries : j /= i => ctcb'[c][j] = ctcb[c][j],
           tcb.state \in Attached =>
             t.state \in Attached /\ t.svr_portNum = tcb.svr_portNum,
           NEW x, \A a, b : \/ x = Seg("SYN", a, b) \/ x = Seg("FIN", a, b) =>
                              a = tcb.portNum,
           \A a, b \in Nat : x = Seg("SYN", a, b) => Mine(c, a, b)',
           Quieter(toServer'[c], toServer[c], x), toClient' = toClient, stcb' = stcb,
           NEW state, NEW p \in Nat, NEW q \in Nat,
           state = t.state, p = t.portNum, q = t.svr_portNum, InState(c, state, p, q)'
    PROVE  Consistent(c)'
<1> DEFINE y == Seg("DATA", 0, 0)
<1>1. \A a, b : y /= Seg("SYNACK", b, a) /\ y /= Seg("FINACK", b, a)
  BY DEF Seg
<1> HIDE DEF y
<1>2. Quieter(toClient'[c], toClient[c], y)
  BY QuieterSame
<1>3. SameServed(c)
  BY SameStcb
<1>4. OnlyAttached(c)'
  <2>1. \A a, b : Mine(c, a, b) => Mine(c, a, b)'
    BY DEF Mine
  <2>2. \A a, b \in Nat :
          /\ Mine(c, a, b) => Mine(c, a, b)'
          /\ x = Seg("SYN", a, b) \/ y = Seg("SYNACK", b, a) => Mine(c, a, b)'
          /\ ServedAt(c, a, b)' => ServedAt(c, a, b) \/ Mine(c, a, b)'
    BY <1>1, <1>3, <2>1 DEF SameServed
  <2>3. OnlyAttached(c)
    BY DEF Consistent
  <2> QED
    BY <1>2, <2>2, <2>3, AttachedKept
<1>5. ASSUME NEW j \in Entries, ctcb'[c][j] /= NULL
      PROVE  InState(c, ctcb[c][j].state, ctcb[c][j].portNum, ctcb[c][j].svr_portNum)'
  <2>1. CASE j = i
    <3>1. state = ctcb'[c][j].state /\ p = ctcb'[c][j].portNum /\ q = ctcb'[c][j].svr_portNum
      BY <2>1
    <3> QED
      BY <3>1
  <2>2. CASE j /= i
    <3>1. ctcb'[c][j] = ctcb[c][j]
      BY <2>2
    <3>2. PICK s, a, b : /\ s = ctcb[c][j].state /\ a = ctcb[c][j].portNum
                         /\ b = ctcb[c][j].svr_portNum
      OBVIOUS
    <3>3. InState(c, s, a, b)
      BY <1>5, <3>1, <3>2 DEF Consistent
    <3>4. a \in Nat /\ b \in Nat /\ a /= tcb.portNum
      <4>1. ctcb[c][j] \in ClientTcbs /\ ctcb[c][j] /= NULL
        BY <1>5, <3>1, TcbTypes
      <4>2. ctcb[c][j].portNum /= ctcb[c][i].portNum
        BY <2>2, <4>1, OtherPort
      <4> QED
        BY <3>2, <4>1, <4>2 DEF ClientTcbs
    <3>5. Harmless(x, s, a, b) /\ HarmlessBack(y, s, a, b)
      BY <1>1, <3>4 DEF Harmless, HarmlessBack
    <3>6. ServedAt(c, a, b)' <=> ServedAt(c, a, b)
      BY <1>3, <3>4 DEF SameServed
    <3>7. InState(c, s, a, b)'
      BY <1>2, <3>3, <3>5, <3>6, StateKept
    <3>8. s = ctcb'[c][j].state /\ a = ctcb'[c][j].portNum /\ b = ctcb'[c][j].svr_portNum
      BY <3>1, <3>2
    <3> QED
      BY <3>7, <3>8
  <2> QED
    BY <2>1, <2>2
<1> QED
  BY <1>4, <1>5 DEF Consistent

\* The main of client c sends x for its socket, TCB t from now on.
LEMMA SocketSends ==
    ASSUME TypeOK, NEW c \in Clients, NEW t \in ClientTcbs, ctcb'[c][Socket(c)] = t,
           NEW type \in {"SYN", "FIN"}, SendFromSocket(c, type),
           NEW x, x = Seg(type, t.portNum, t.svr_portNum)
    PROVE  /\ toServer' \in [Clients -> Seq(Segments({"SYN", "DATA", "FIN"}))]
           /\ \A d \in Clients : d /= c => toServer'[d] = toServer[d]
           /\ Quieter(toServer'[c], toServer[c], x)
<1>1. x \in Segments({"SYN", "DATA", "FIN"})
  <2>1. PICK p, q \in Nat : p = t.portNum /\ q = t.svr_portNum
    BY DEF ClientTcbs
  <2> QED
    BY <2>1 DEF Segments, Seg
<1>2. toServer' = [toServer EXCEPT ![c] = Enqueue(toServer[c], MaxToServer, x)]
  BY DEF SendFromSocket
<1> QED
  BY <1>1, <1>2, Sent

\* connect: no connection, and no segment that opens one, has this port, as the
\* port is that of no other socket.
LEMMA ConnectStep == ASSUME IInv, NEW c \in Clients, Connect(c) PROVE IInv'
<1>1. TypeOK /\ Created /\ InCall /\ OnePort
  BY DEF IInv
<1>2. /\ UNCHANGED <<sockfds, stcb, toClient>> /\ Goes(c, "connect") /\ Calls(c, "connect")
      /\ State(c) = "CLOSED" /\ SendFromSocket(c, "SYN")
      /\ retry' = [retry EXCEPT ![c] = SYN_MAX_RETRY]
      /\ "connect" \in Operations \ {"sock"}
  BY DEF Connect, Operations
<1>3. PICK i \in Entries : i = Socket(c)
  BY <1>2, ClientsCall
<1>4. /\ c \in Processes /\ c /= Server /\ at[c] /= "gone"
      /\ program[c] /= << >> /\ Head(program[c]).op /= "sock"
      /\ ctcb[c][i] \in ClientTcbs
  BY <1>2, <1>3, ClientsCall
<1>5. PICK tcb \in ClientTcbs : tcb = ctcb[c][i] /\ tcb /= NULL /\ tcb.state = "CLOSED"
  BY <1>1, <1>2, <1>3, <1>4, TcbTypes DEF State
<1>6. PICK port \in Nat : port = Head(program[c]).port
  <2>1. Head(program[c]) \in CallTypes
    BY <1>1, <1>4 DEF TypeOK
  <2> QED
    BY <2>1 DEF CallTypes
<1>7. PICK t \in ClientTcbs :
        /\ ctcb' = [ctcb EXCEPT ![c][i] = t]
        /\ t.state = "SYNSENT" /\ t.portNum = tcb.portNum /\ t.svr_portNum = port
        /\ t /= NULL
  <2> DEFINE t == [tcb EXCEPT !.svr_portNum = port, !.state = "SYNSENT"]
  <2>1. ctcb' = [ctcb EXCEPT ![c][i] = t]
    BY <1>1, <1>3, <1>5, <1>6 DEF Connect, TypeOK
  <2>2. t \in ClientTcbs /\ t.state = "SYNSENT" /\ t.portNum = tcb.portNum
        /\ t.svr_portNum = port
    BY DEF ClientTcbs
  <2>3. t /= NULL
    BY <1>1, <2>2, TcbTypes
  <2> QED
    BY <2>1, <2>2, <2>3
<1>8. PICK p, q \in Nat : p = t.portNum /\ q = t.svr_portNum
  BY DEF ClientTcbs
<1>9. PICK x : x = Seg("SYN", p, q)
  OBVIOUS
<1>10. /\ \A a, b : /\ x = Seg("SYN", a, b) => a = p /\ b = q
                    /\ x /= Seg("FIN", a, b)
       /\ ctcb' \in [Clients -> [Entries -> ClientTcbs \cup {NULL}]]
       /\ ctcb'[c][i] = t /\ \A j \in Entries : j /= i => ctcb'[c][j] = ctcb[c][j]
       /\ toServer' \in [Clients -> Seq(Segments({"SYN", "DATA", "FIN"}))]
       /\ \A d \in Clients : d /= c => ctcb'[d] = ctcb[d] /\ toServer'[d] = toServer[d]
       /\ Quieter(toServer'[c], toServer[c], x)
  <2>1. \A a, b : /\ x = Seg("SYN", a, b) => a = p /\ b = q
                  /\ x /= Seg("FIN", a, b)
    BY <1>9 DEF Seg
  <2>2. /\ ctcb' \in [Clients -> [Entries -> ClientTcbs \cup {NULL}]]
        /\ ctcb'[c][i] = t /\ \A j \in Entries : j /= i => ctcb'[c][j] = ctcb[c][j]
        /\ \A d \in Clients : d /= c => ctcb'[d] = ctcb[d]
    BY <1>1, <1>7 DEF TypeOK
  <2>3. PICK type \in {"SYN", "FIN"} : type = "SYN"
    OBVIOUS
  <2>4. SendFromSocket(c, type) /\ x = Seg(type, t.portNum, t.svr_portNum)
        /\ ctcb'[c][Socket(c)] = t
    BY <1>2, <1>3, <1>8, <1>9, <2>2, <2>3
  <2>5. /\ toServer' \in [Clients -> Seq(Segments({"SYN", "DATA", "FIN"}))]
        /\ \A d \in Clients : d /= c => toServer'[d] = toServer[d]
        /\ Quieter(toServer'[c], toServer[c], x)
    BY <1>1, <2>4, SocketSends
  <2> QED
    BY <2>1, <2>2, <2>5
<1>11. ASSUME Consistent(c) PROVE Consistent(c)'
  <2>1. ~Mine(c, p, q)
    <3>1. SUFFICES ASSUME NEW j \in Entries, ctcb[c][j].state \in Attached,
                          ctcb[c][j].portNum = p
                   PROVE  FALSE
      BY DEF Mine
    <3>2. ctcb[c][j] /= NULL /\ j /= i
      BY <1>5, <3>1 DEF Attached, NULL
    <3> QED
      BY <1>1, <1>5, <1>7, <1>8, <3>1, <3>2, OtherPort
  <2>2. /\ ~Holds(toServer[c], Seg("SYN", p, q)) /\ ~Holds(toClient[c], Seg("SYNACK", q, p))
        /\ ~ServedAt(c, p, q)
    BY <1>11, <2>1 DEF Consistent, OnlyAttached
  <2>3. NeverAfter(toServer'[c], Seg("FIN", p, q), Seg("SYN", p, q))
    <3>1. NeverAfter(toServer[c], Seg("FIN", p, q), Seg("SYN", p, q))
      BY <2>2, NotHeld
    <3> QED
      BY <1>9, <1>10, <3>1 DEF Quieter
  <2>4. NeverAfter(toClient[c], Seg("FINACK", q, p), Seg("SYNACK", q, p))
    BY <2>2, NotHeld
  <2>5. toClient' = toClient /\ stcb' = stcb
    BY <1>2
  <2>6. ~ServedAt(c, p, q)'
    BY <2>2, <2>5 DEF ServedAt
  <2>7. Opening(c, p, q)'
    BY <2>2, <2>3, <2>4, <2>5, <2>6 DEF Opening
  <2>8. PICK state : state = "SYNSENT"
    OBVIOUS
  <2>9. InState(c, state, p, q)'
    BY <2>7, <2>8 DEF InState
  <2>10. \A a, b \in Nat : x = Seg("SYN", a, b) => Mine(c, a, b)'
    <3>1. Mine(c, p, q)'
      BY <1>7, <1>10, <1>8 DEF Mine, Attached
    <3> QED
      BY <1>10, <3>1
  <2>11. tcb.state \in Attached => t.state \in Attached /\ t.svr_portNum = tcb.svr_portNum
    BY <1>5 DEF Attached
  <2>12. \A a, b : \/ x = Seg("SYN", a, b) \/ x = Seg("FIN", a, b) => a = tcb.portNum
    BY <1>7, <1>10, <1>8
  <2>13. /\ ctcb[c][i] = tcb /\ tcb /= NULL /\ ctcb'[c][i] = t /\ t.portNum = tcb.portNum
         /\ \A j \in Entries : j /= i => ctcb'[c][j] = ctcb[c][j]
         /\ Quieter(toServer'[c], toServer[c], x)
         /\ state = t.state /\ p = t.portNum /\ q = t.svr_portNum
    BY <1>5, <1>7, <1>8, <1>10, <2>8
  <2> QED
    BY <1>1, <1>11, <2>5, <2>9, <2>10, <2>11, <2>12, <2>13, SocketMoves
<1>12. /\ program' \in [Processes -> Seq(CallTypes)] /\ at' \in [Processes -> Places]
       /\ at'[c] = "connect" /\ program' = program /\ Socket(c)' = i
       /\ \A m \in Processes : m /= c => program'[m] = program[m] /\ at'[m] = at[m]
       /\ CreatedFor(c)'
  BY <1>1, <1>2, <1>3, <1>4, GoesTo DEF Places
<1>13. InCallOf(c)'
  <2>1. State(c)' = "SYNSENT"
    BY <1>7, <1>10, <1>12 DEF State
  <2> QED
    BY <1>4, <1>12, <2>1 DEF InCallOf
<1>14. retry' \in [Clients -> Nat] /\ \A d \in Clients : d /= c => retry'[d] = retry[d]
  BY <1>1, <1>2, SocketsAssumption DEF TypeOK
<1>15. \A j \in Entries :
         /\ ctcb'[c][j] = NULL <=> ctcb[c][j] = NULL
         /\ ctcb[c][j] /= NULL => ctcb'[c][j].portNum = ctcb[c][j].portNum
  BY <1>5, <1>7, <1>10
<1>16. sockfds' = sockfds /\ stcb' = stcb /\ toClient' = toClient
  BY <1>2
<1> QED
  BY <1>4, <1>10, <1>11, <1>12, <1>13, <1>14, <1>15, <1>16, ClientMainStep

\* disconnect: the connection is open and no FIN of it is on the way but this.
LEMMA DisconnectStep == ASSUME IInv, NEW c \in Clients, Disconnect(c) PROVE IInv'
<1>1. TypeOK /\ Created /\ InCall /\ OnePort
  BY DEF IInv
<1>2. /\ UNCHANGED <<sockfds, stcb, toClient>> /\ Goes(c, "disconnect")
      /\ Calls(c, "disconnect") /\ State(c) = "CONNECTED" /\ SendFromSocket(c, "FIN")
      /\ retry' = [retry EXCEPT ![c] = FIN_MAX_RETRY]
      /\ "disconnect" \in Operations \ {"sock"}
  BY DEF Disconnect, Operations
<1>3. PICK i \in Entries : i = Socket(c)
  BY <1>2, ClientsCall
<1>4. /\ c \in Processes /\ c /= Server /\ at[c] /= "gone"
      /\ program[c] /= << >> /\ Head(program[c]).op /= "sock"
      /\ ctcb[c][i] \in ClientTcbs
  BY <1>2, <1>3, ClientsCall
<1>5. PICK tcb \in ClientTcbs : tcb = ctcb[c][i] /\ tcb /= NULL /\ tcb.state = "CONNECTED"
  BY <1>1, <1>2, <1>3, <1>4, TcbTypes DEF State
<1>6. PICK t \in ClientTcbs :
        /\ ctcb' = [ctcb EXCEPT ![c][i] = t]
        /\ t.state = "FINWAIT" /\ t.portNum = tcb.portNum
        /\ t.svr_portNum = tcb.svr_portNum /\ t /= NULL
  <2> DEFINE t == [tcb EXCEPT !.state = "FINWAIT"]
  <2>1. ctcb' = [ctcb EXCEPT ![c][i] = t]
    BY <1>1, <1>3, <1>5 DEF Disconnect, SetState, TypeOK
  <2>2. t \in ClientTcbs /\ t.state = "FINWAIT" /\ t.portNum = tcb.portNum
        /\ t.svr_portNum = tcb.svr_portNum
    BY DEF ClientTcbs
  <2>3. t /= NULL
    BY <1>1, <2>2, TcbTypes
  <2> QED
    BY <2>1, <2>2, <2>3
<1>7. PICK p, q \in Nat : p = t.portNum /\ q = t.svr_portNum
  BY DEF ClientTcbs
<1>8. PICK x : x = Seg("FIN", p, q)
  OBVIOUS
<1>9. /\ \A a, b : /\ x = Seg("FIN", a, b) => a = p
                   /\ x /= Seg("SYN", a, b)
      /\ ctcb' \in [Clients -> [Entries -> ClientTcbs \cup {NULL}]]
      /\ ctcb'[c][i] = t /\ \A j \in Entries : j /= i => ctcb'[c][j] = ctcb[c][j]
      /\ toServer' \in [Clients -> Seq(Segments({"SYN", "DATA", "FIN"}))]
      /\ \A d \in Clients : d /= c => ctcb'[d] = ctcb[d] /\ toServer'[d] = toServer[d]
      /\ Quieter(toServer'[c], toServer[c], x)
  <2>1. \A a, b : /\ x = Seg("FIN", a, b) => a = p
                  /\ x /= Seg("SYN", a, b)
    BY <1>8 DEF Seg
  <2>2. /\ ctcb' \in [Clients -> [Entries -> ClientTcbs \cup {NULL}]]
        /\ ctcb'[c][i] = t /\ \A j \in Entries : j /= i => ctcb'[c][j] = ctcb[c][j]
        /\ \A d \in Clients : d /= c => ctcb'[d] = ctcb[d]
    BY <1>1, <1>6 DEF TypeOK
  <2>3. PICK type \in {"SYN", "FIN"} : type = "FIN"
    OBVIOUS
  <2>4. SendFromSocket(c, type) /\ x = Seg(type, t.portNum, t.svr_portNum)
        /\ ctcb'[c][Socket(c)] = t
    BY <1>2, <1>3, <1>7, <1>8, <2>2, <2>3
  <2>5. /\ toServer' \in [Clients -> Seq(Segments({"SYN", "DATA", "FIN"}))]
        /\ \A d \in Clients : d /= c => toServer'[d] = toServer[d]
        /\ Quieter(toServer'[c], toServer[c], x)
    BY <1>1, <2>4, SocketSends
  <2> QED
    BY <2>1, <2>2, <2>5
<1>10. ASSUME Consistent(c) PROVE Consistent(c)'
  <2>1. Open(c, p, q)
    <3>1. InState(c, tcb.state, tcb.portNum, tcb.svr_portNum)
      BY <1>5, <1>10 DEF Consistent
    <3> QED
      BY <1>5, <1>6, <1>7, <3>1 DEF InState
  <2>2. NeverAfter(toServer'[c], Seg("SYN", p, q), Seg("FIN", p, q))
    <3>1. NeverAfter(toServer[c], Seg("SYN", p, q), Seg("FIN", p, q))
      BY <2>1, NotHeld DEF Open
    <3> QED
      BY <1>9, <3>1 DEF Quieter
  <2>3. NeverAfter(toClient[c], Seg("SYNACK", q, p), Seg("FINACK", q, p))
    BY <2>1, NotHeld DEF Open
  <2>4. toClient' = toClient /\ stcb' = stcb
    BY <1>2
  <2>5. Closing(c, p, q)'
    BY <2>1, <2>2, <2>3, <2>4 DEF Open, Closing
  <2>6. PICK state : state = "FINWAIT"
    OBVIOUS
  <2>7. InState(c, state, p, q)'
    BY <2>5, <2>6 DEF InState
  <2>8. \A a, b \in Nat : x = Seg("SYN", a, b) => Mine(c, a, b)'
    BY <1>9
  <2>9. tcb.state \in Attached => t.state \in Attached /\ t.svr_portNum = tcb.svr_portNum
    BY <1>6 DEF Attached
  <2>10. \A a, b : \/ x = Seg("SYN", a, b) \/ x = Seg("FIN", a, b) => a = tcb.portNum
    BY <1>6, <1>7, <1>9
  <2>11. /\ ctcb[c][i] = tcb /\ tcb /= NULL /\ ctcb'[c][i] = t /\ t.portNum = tcb.portNum
         /\ \A j \in Entries : j /= i => ctcb'[c][j] = ctcb[c][j]
         /\ Quieter(toServer'[c], toServer[c], x)
         /\ state = t.state /\ p = t.portNum /\ q = t.svr_portNum
    BY <1>5, <1>6, <1>7, <1>9, <2>6
  <2> QED
    BY <1>1, <1>10, <2>4, <2>7, <2>8, <2>9, <2>10, <2>11, SocketMoves
<1>11. /\ program' \in [Processes -> Seq(CallTypes)] /\ at' \in [Processes -> Places]
       /\ at'[c] = "disconnect" /\ program' = program /\ Socket(c)' = i
       /\ \A m \in Processes : m /= c => program'[m] = program[m] /\ at'[m] = at[m]
       /\ CreatedFor(c)'
  BY <1>1, <1>2, <1>3, <1>4, GoesTo DEF Places
<1>12. InCallOf(c)'
  <2>1. State(c)' = "FINWAIT"
    BY <1>6, <1>9, <1>11 DEF State
  <2> QED
    BY <1>4, <1>11, <2>1 DEF InCallOf
<1>13. retry' \in [Clients -> Nat] /\ \A d \in Clients : d /= c => retry'[d] = retry[d]
  BY <1>1, <1>2, SocketsAssumption DEF TypeOK
<1>14. \A j \in Entries :
         /\ ctcb'[c][j] = NULL <=> ctcb[c][j] = NULL
         /\ ctcb[c][j] /= NULL => ctcb'[c][j].portNum = ctcb[c][j].portNum
  BY <1>5, <1>6, <1>9
<1>15. sockfds' = sockfds /\ stcb' = stcb /\ toClient' = toClient
  BY <1>2
<1> QED
  BY <1>4, <1>9, <1>10, <1>11, <1>12, <1>13, <1>14, <1>15, ClientMainStep

\* disconnect has its answer and forgets the port of the server.
LEMMA DisconnectReturnsStep ==
    ASSUME IInv, NEW c \in Clients, DisconnectReturns(c) PROVE IInv'
<1>1. TypeOK /\ Created /\ InCall /\ OnePort
  BY DEF IInv
<1>2. /\ UNCHANGED <<sockfds, stcb, toServer, toClient>> /\ Returns(c)
      /\ at[c] = "disconnect" /\ State(c) = "CLOSED"
      /\ retry' = [retry EXCEPT ![c] = 0]
  BY DEF DisconnectReturns
<1>3. PICK i \in Entries : i = Socket(c)
  BY <1>2, ClientsCall
<1>4. /\ c \in Processes /\ c /= Server /\ at[c] /= "gone"
      /\ program[c] /= << >> /\ Head(program[c]).op /= "sock"
      /\ ctcb[c][i] \in ClientTcbs
  BY <1>2, <1>3, ClientsCall
<1>5. PICK tcb \in ClientTcbs : tcb = ctcb[c][i] /\ tcb /= NULL /\ tcb.state = "CLOSED"
  BY <1>1, <1>2, <1>3, <1>4, TcbTypes DEF State
<1>6. PICK t \in ClientTcbs :
        /\ ctcb' = [ctcb EXCEPT ![c][i] = t]
        /\ t.state = "CLOSED" /\ t.portNum = tcb.portNum /\ t /= NULL
  <2> DEFINE t == [tcb EXCEPT !.svr_portNum = 0, !.holding = FALSE]
  <2>1. ctcb' = [ctcb EXCEPT ![c][i] = t]
    BY <1>1, <1>3, <1>5 DEF DisconnectReturns, TypeOK
  <2>2. t \in ClientTcbs /\ t.state = "CLOSED" /\ t.portNum = tcb.portNum
    BY <1>5 DEF ClientTcbs
  <2>3. t /= NULL
    BY <1>1, <2>2, TcbTypes
  <2> QED
    BY <2>1, <2>2, <2>3
<1>7. PICK p, q \in Nat : p = t.portNum /\ q = t.svr_portNum
  BY DEF ClientTcbs
<1>8. /\ ctcb' \in [Clients -> [Entries -> ClientTcbs \cup {NULL}]]
      /\ ctcb'[c][i] = t /\ \A j \in Entries : j /= i => ctcb'[c][j] = ctcb[c][j]
      /\ \A d \in Clients : d /= c => ctcb'[d] = ctcb[d]
  BY <1>1, <1>6 DEF TypeOK
<1>9. ASSUME Consistent(c) PROVE Consistent(c)'
  <2>1. PICK x : x = Seg("DATA", 0, 0)
    OBVIOUS
  <2>2. \A a, b : x /= Seg("SYN", a, b) /\ x /= Seg("FIN", a, b)
    BY <2>1 DEF Seg
  <2>3. toServer' = toServer /\ toClient' = toClient /\ stcb' = stcb
    BY <1>2
  <2>4. Quieter(toServer'[c], toServer[c], x)
    BY <2>3, QuieterSame
  <2>5. PICK state : state = "CLOSED"
    OBVIOUS
  <2>6. InState(c, state, p, q)'
    BY <2>5 DEF InState
  <2>7. tcb.state \in Attached => t.state \in Attached /\ t.svr_portNum = tcb.svr_portNum
    BY <1>5 DEF Attached
  <2>8. /\ \A a, b : \/ x = Seg("SYN", a, b) \/ x = Seg("FIN", a, b) => a = tcb.portNum
        /\ \A a, b \in Nat : x = Seg("SYN", a, b) => Mine(c, a, b)'
    BY <2>2
  <2>9. /\ ctcb[c][i] = tcb /\ tcb /= NULL /\ ctcb'[c][i] = t /\ t.portNum = tcb.portNum
        /\ \A j \in Entries : j /= i => ctcb'[c][j] = ctcb[c][j]
        /\ state = t.state /\ p = t.portNum /\ q = t.svr_portNum
    BY <1>5, <1>6, <1>7, <1>8, <2>5
  <2> QED
    BY <1>1, <1>9, <2>3, <2>4, <2>6, <2>7, <2>8, <2>9, SocketMoves
<1>10. /\ program' \in [Processes -> Seq(CallTypes)] /\ at' \in [Processes -> Places]
       /\ \A m \in Processes : m /= c => program'[m] = program[m] /\ at'[m] = at[m]
       /\ CreatedFor(c)' /\ InCallOf(c)'
  BY <1>1, <1>2, <1>4, ReturnsTo
<1>11. /\ retry' \in [Clients -> Nat] /\ \A d \in Clients : d /= c => retry'[d] = retry[d]
       /\ toServer' \in [Clients -> Seq(Segments({"SYN", "DATA", "FIN"}))]
  BY <1>1, <1>2 DEF TypeOK
<1>12. \A j \in Entries :
         /\ ctcb'[c][j] = NULL <=> ctcb[c][j] = NULL
         /\ ctcb[c][j] /= NULL => ctcb'[c][j].portNum = ctcb[c][j].portNum
  BY <1>5, <1>6, <1>8
<1>13. /\ sockfds' = sockfds /\ stcb' = stcb /\ toClient' = toClient /\ toServer' = toServer
  BY <1>2
<1> QED
  BY <1>4, <1>8, <1>9, <1>10, <1>11, <1>12, <1>13, ClientMainStep

(***************************************************************************)
(* Sockets that come and go, and processes that end                        *)
(***************************************************************************)

\* A process ends: no socket of its is left to be wrong about.
LEMMA ExitStep ==
    ASSUME IInv, NEW n \in Processes, Exits(n),
           UNCHANGED <<sockfds, retry, toServer, toClient>>
    PROVE  IInv'
<1>1. TypeOK /\ OnePort /\ Created /\ InCall /\ Buffers /\ Agreed
  BY DEF IInv
<1>2. /\ program' \in [Processes -> Seq(CallTypes)] /\ program'[n] = << >>
      /\ \A m \in Processes : m /= n => program'[m] = program[m]
  <2>1. PICK none \in Seq(CallTypes) : none = << >>
    <3>1. << >> \in Seq(CallTypes)
      OBVIOUS
    <3> QED
      BY <3>1
  <2>2. program' = [program EXCEPT ![n] = none]
    BY <2>1 DEF Exits
  <2> QED
    BY <1>1, <2>1, <2>2 DEF TypeOK
<1>3. /\ at' \in [Processes -> Places] /\ at'[n] = "gone"
      /\ \A m \in Processes : m /= n => at'[m] = at[m]
  BY <1>1 DEF Exits, TypeOK, Places
<1>4. PICK none : none = [i \in Entries |-> NULL]
  OBVIOUS
<1>5. /\ none \in [Entries -> ClientTcbs \cup {NULL}]
      /\ none \in [Entries -> ServerTcbs \cup {NULL}]
      /\ \A i \in Entries : none[i] = NULL
  BY <1>4
<1>6. \/ n = Server /\ stcb' = none /\ ctcb' = ctcb
      \/ n \in Clients /\ n /= Server /\ ctcb' = [ctcb EXCEPT ![n] = none] /\ stcb' = stcb
  BY <1>4 DEF Exits, Processes
<1>7. /\ ctcb' \in [Clients -> [Entries -> ClientTcbs \cup {NULL}]]
      /\ stcb' \in [Entries -> ServerTcbs \cup {NULL}]
      /\ \A d \in Clients : d /= n => ctcb'[d] = ctcb[d]
      /\ n \in Clients => ctcb'[n] = none
      /\ n /= Server => stcb' = stcb
      /\ n = Server => stcb' = none
  BY <1>1, <1>5, <1>6, SocketsAssumption DEF TypeOK
<1>8. TypeOK'
  BY <1>1, <1>2, <1>3, <1>7 DEF TypeOK
<1>9. OnePort'
  <2>1. DistinctPorts(none)
    BY <1>5 DEF DistinctPorts
  <2>2. DistinctPorts(stcb')
    BY <1>1, <1>7, <2>1 DEF OnePort
  <2>3. ASSUME NEW d \in Clients PROVE DistinctPorts(ctcb'[d])
    BY <1>1, <1>7, <2>1 DEF OnePort
  <2> QED
    BY <2>2, <2>3 DEF OnePort
<1>10. Created' /\ InCall'
  <2>1. CreatedFor(n)'
    BY <1>2 DEF CreatedFor
  <2>2. InCallOf(n)'
    BY <1>3 DEF InCallOf
  <2> QED
    BY <1>1, <1>2, <1>3, <1>7, <2>1, <2>2, OthersStay
<1>11. Buffers'
  <2>1. CASE n = Server
    BY <1>5, <1>7, <2>1 DEF Buffers, NULL
  <2>2. CASE n /= Server
    BY <1>1, <1>7, <2>2 DEF Buffers
  <2> QED
    BY <2>1, <2>2
<1>12. Agreed'
  <2>1. /\ Server \in Processes /\ \A d \in Clients : d \in Processes
    BY DEF Processes
  <2>2. ASSUME NEW d \in Clients, at'[d] /= "gone", at'[Server] /= "gone"
        PROVE  Consistent(d)'
    <3>1. d /= n /\ n /= Server
      BY <1>3, <2>2
    <3>2. Consistent(d)
      BY <1>1, <1>3, <2>1, <2>2, <3>1 DEF Agreed
    <3>3. \A i \in Entries : SameTcb(ctcb'[d][i], ctcb[d][i])
      BY <1>7, <3>1 DEF SameTcb
    <3>4. DataOnly(d) /\ SameServed(d)
      BY <1>1, <1>7, <3>1, QueuesShrink, SameStcb
    <3> QED
      BY <1>1, <3>2, <3>3, <3>4, DataAlone
  <2> QED
    BY <2>2 DEF Agreed
<1> QED
  BY <1>8, <1>9, <1>10, <1>11, <1>12 DEF IInv

\* A client's socket that is not connected comes or goes.
LEMMA SocketAlone ==
    ASSUME TypeOK, NEW c \in Clients, Consistent(c), NEW i \in Entries,
           ctcb[c][i].state \notin Attached,
           ctcb'[c][i].state \in {"CLOSED", "NULL"},
           \A j \in Entries : j /= i => ctcb'[c][j] = ctcb[c][j],
           stcb' = stcb, toServer'[c] = toServer[c], toClient'[c] = toClient[c]
    PROVE  Consistent(c)'
<1>1. PICK x : x = Seg("DATA", 0, 0)
  OBVIOUS
<1>2. \A a, b : /\ x /= Seg("SYN", a, b) /\ x /= Seg("FIN", a, b)
                /\ x /= Seg("SYNACK", b, a) /\ x /= Seg("FINACK", b, a)
  BY <1>1 DEF Seg
<1>3. /\ Quieter(toServer'[c], toServer[c], x)
      /\ Quieter(toClient'[c], toClient[c], x)
  BY QuieterSame
<1>4. SameServed(c)
  BY SameStcb
<1>5. OnlyAttached(c)'
  <2>1. \A a, b : Mine(c, a, b) => Mine(c, a, b)'
    BY DEF Mine
  <2>2. \A a, b \in Nat :
          /\ Mine(c, a, b) => Mine(c, a, b)'
          /\ x = Seg("SYN", a, b) \/ x = Seg("SYNACK", b, a) => Mine(c, a, b)'
          /\ ServedAt(c, a, b)' => ServedAt(c, a, b) \/ Mine(c, a, b)'
    BY <1>2, <1>4, <2>1 DEF SameServed
  <2>3. OnlyAttached(c)
    BY DEF Consistent
  <2> QED
    BY <1>3, <2>2, <2>3, AttachedKept
<1>6. ASSUME NEW j \in Entries, ctcb'[c][j] /= NULL
      PROVE  InState(c, ctcb[c][j].state, ctcb[c][j].portNum, ctcb[c][j].svr_portNum)'
  <2>1. PICK s, a, b : /\ s = ctcb'[c][j].state /\ a = ctcb'[c][j].portNum
                       /\ b = ctcb'[c][j].svr_portNum
    OBVIOUS
  <2>2. CASE j = i
    <3>1. s \in {"CLOSED", "NULL"}
      BY <2>1, <2>2
    <3>2. InState(c, s, a, b)'
      BY <3>1 DEF InState
    <3> QED
      BY <2>1, <3>2
  <2>3. CASE j /= i
    <3>1. /\ ctcb[c][j] /= NULL /\ s = ctcb[c][j].state /\ a = ctcb[c][j].portNum
          /\ b = ctcb[c][j].svr_portNum
      BY <1>6, <2>1, <2>3
    <3>2. InState(c, s, a, b)
      BY <3>1 DEF Consistent
    <3>3. a \in Nat /\ b \in Nat
      BY <3>1, TcbTypes DEF ClientTcbs
    <3>4. Harmless(x, s, a, b) /\ HarmlessBack(x, s, a, b)
      BY <1>2 DEF Harmless, HarmlessBack
    <3>5. ServedAt(c, a, b)' <=> ServedAt(c, a, b)
      BY <1>4, <3>3 DEF SameServed
    <3>6. InState(c, s, a, b)'
      BY <1>3, <3>2, <3>4, <3>5, StateKept
    <3> QED
      BY <2>1, <3>6
  <2> QED
    BY <2>2, <2>3
<1> QED
  BY <1>5, <1>6 DEF Consistent

\* close: the socket is CLOSED, or the process ends.
LEMMA CloseStep == ASSUME IInv, NEW n \in Processes, Close(n) PROVE IInv'
<1>1. TypeOK /\ OnePort /\ Created /\ InCall /\ Buffers
  BY DEF IInv
<1>2. /\ UNCHANGED <<sockfds, retry, toServer, toClient>> /\ Calls(n, "close")
  BY DEF Close
<1>3. at[n] /= "gone" /\ program[n] /= << >> /\ Head(program[n]).op /= "sock"
  BY <1>2 DEF Calls
<1>4. PICK i \in Entries : i = Socket(n)
  BY <1>1, <1>3, SocketExists
<1>5. CASE Exits(n)
  BY <1>2, <1>5, ExitStep
<1>6. ASSUME ~Exits(n), n = Server PROVE IInv'
  <2>1. /\ Returns(Server) /\ ctcb' = ctcb /\ stcb[i].state = "CLOSED"
        /\ stcb' = [stcb EXCEPT ![i] = NULL]
    BY <1>4, <1>6 DEF Close
  <2>2. /\ program' \in [Processes -> Seq(CallTypes)] /\ at' \in [Processes -> Places]
        /\ \A m \in Processes : m /= Server => program'[m] = program[m] /\ at'[m] = at[m]
        /\ CreatedFor(Server)' /\ InCallOf(Server)'
    BY <1>1, <1>2, <1>3, <1>6, <2>1, ReturnsTo
  <2>3. /\ stcb' \in [Entries -> ServerTcbs \cup {NULL}]
        /\ stcb'[i] = NULL /\ \A j \in Entries : j /= i => stcb'[j] = stcb[j]
    BY <1>1, <2>1 DEF TypeOK
  <2>4. DistinctPorts(stcb')
    BY <1>1, <2>3 DEF OnePort, DistinctPorts
  <2>5. Buffers'
    BY <1>1, <2>3 DEF Buffers, NULL
  <2>6. \A c \in Clients : SameServed(c)
    BY <2>1, <2>3 DEF SameServed, ServedAt, NULL
  <2>7. sockfds' \in [Processes -> [Sockets -> Entries \cup {0}]] /\ sockfds' = sockfds
    BY <1>1, <1>2 DEF TypeOK
  <2>8. retry' = retry /\ ctcb' = ctcb /\ toServer' = toServer /\ toClient' = toClient
    BY <1>2, <2>1
  <2> QED
    BY <1>3, <1>6, <2>2, <2>3, <2>4, <2>5, <2>6, <2>7, <2>8, ServerMain
<1>7. ASSUME ~Exits(n), n /= Server PROVE IInv'
  <2>1. PICK c \in Clients : c = n
    BY <1>7 DEF Processes
  <2>2. /\ Returns(c) /\ stcb' = stcb /\ ctcb[c][i].state = "CLOSED"
        /\ ctcb' = [ctcb EXCEPT ![c][i] = NULL]
    BY <1>4, <1>7, <2>1 DEF Close
  <2>3. /\ program' \in [Processes -> Seq(CallTypes)] /\ at' \in [Processes -> Places]
        /\ \A m \in Processes : m /= c => program'[m] = program[m] /\ at'[m] = at[m]
        /\ CreatedFor(c)' /\ InCallOf(c)'
    BY <1>1, <1>2, <1>3, <2>1, <2>2, ReturnsTo
  <2>4. /\ ctcb' \in [Clients -> [Entries -> ClientTcbs \cup {NULL}]]
        /\ ctcb'[c][i] = NULL /\ \A j \in Entries : j /= i => ctcb'[c][j] = ctcb[c][j]
        /\ \A d \in Clients : d /= c => ctcb'[d] = ctcb[d]
    BY <1>1, <2>2 DEF TypeOK
  <2>5. DistinctPorts(ctcb'[c])
    <3>1. DistinctPorts(ctcb[c])
      BY <1>1 DEF OnePort
    <3> QED
      BY <2>4, <3>1 DEF DistinctPorts
  <2>6. stcb' = stcb /\ toServer' = toServer /\ toClient' = toClient /\ retry' = retry
    BY <1>2, <2>2
  <2>7. Consistent(c) => Consistent(c)'
    <3>1. ctcb[c][i].state \notin Attached /\ ctcb'[c][i].state \in {"CLOSED", "NULL"}
      BY <2>2, <2>4 DEF Attached, NULL
    <3> QED
      BY <1>1, <2>4, <2>6, <3>1, SocketAlone
  <2>8. /\ sockfds' \in [Processes -> [Sockets -> Entries \cup {0}]] /\ sockfds' = sockfds
        /\ retry' \in [Clients -> Nat]
        /\ toServer' \in [Clients -> Seq(Segments({"SYN", "DATA", "FIN"}))]
    BY <1>1, <1>2 DEF TypeOK
  <2>9. at[c] /= "gone"
    BY <1>3, <2>1
  <2> QED
    BY <2>3, <2>4, <2>5, <2>6, <2>7, <2>8, <2>9, ClientMain
<1> QED
  BY <1>5, <1>6, <1>7

\* The calls that fail, the retries that run out, and the end of main.
LEMMA FailStep ==
    ASSUME IInv, NEW c \in Clients, CallFails(c) \/ GivesUp(c) PROVE IInv'
<1>1. c \in Processes
  BY DEF Processes
<1>2. Exits(c) /\ UNCHANGED <<sockfds, retry, toServer, toClient>>
  BY DEF CallFails, GivesUp
<1> QED
  BY <1>1, <1>2, ExitStep

\* The end of main.
LEMMA FinishStep == ASSUME IInv, NEW n \in Processes, Finish(n) PROVE IInv'
  BY ExitStep DEF Finish

\* tcbtable_newtcb: an entry not in use, for a port not in use, if any.
LEMMA NewTcbIsNew ==
    ASSUME NEW table, NEW port, NewTcb(table, port) /= 0
    PROVE  /\ NewTcb(table, port) \in Entries /\ table[NewTcb(table, port)] = NULL
           /\ \A j \in Entries : table[j] /= NULL => table[j].portNum /= port
<1> DEFINE unused == {i \in Entries : table[i] = NULL}
<1>1. /\ unused /= {} /\ EntriesOfPort(table, port) = {}
      /\ NewTcb(table, port) = Min(unused)
  BY DEF NewTcb
<1>2. \E x \in unused : \A y \in unused : x =< y
  <2>1. PICK S : S = unused /\ S \subseteq Nat /\ S /= {}
    BY <1>1, SocketsAssumption DEF Entries
  <2>2. PICK x \in S : \A y \in S : ~(<<y, x>> \in OpToRel(<, Nat))
    BY <2>1, NatLessThanWellFounded, WFMin
  <2>3. ASSUME NEW y \in S PROVE x =< y
    <3>1. x \in Nat /\ y \in Nat
      BY <2>1
    <3>2. y < x => <<y, x>> \in OpToRel(<, Nat)
      BY <3>1 DEF OpToRel
    <3>3. ~(y < x)
      BY <2>2, <3>2
    <3> QED
      BY <3>1, <3>3
  <2> QED
    BY <2>1, <2>3
<1>3. Min(unused) \in unused
  <2> HIDE DEF unused
  <2> QED
    BY <1>2 DEF Min
<1> QED
  BY <1>1, <1>3 DEF EntriesOfPort

\* sock: a new socket has a port of its own.
LEMMA SockStep == ASSUME IInv, NEW n \in Processes, Sock(n) PROVE IInv'
<1>1. TypeOK /\ OnePort /\ Created /\ InCall /\ Buffers
  BY DEF IInv
<1>2. /\ UNCHANGED <<retry, toServer, toClient>> /\ Calls(n, "sock")
  BY DEF Sock
<1>3. at[n] /= "gone" /\ program[n] /= << >>
  BY <1>2 DEF Calls
<1>4. PICK s \in Sockets, port \in Nat :
        s = Head(program[n]).sock /\ port = Head(program[n]).port
  <2>1. Head(program[n]) \in CallTypes
    BY <1>1, <1>3 DEF TypeOK
  <2> QED
    BY <2>1 DEF CallTypes
<1>5. PICK table : table = IF n = Server THEN stcb ELSE ctcb[n]
  OBVIOUS
<1>6. PICK i : i = NewTcb(table, port)
  OBVIOUS
<1>7. CASE i = 0
  <2>1. Exits(n) /\ sockfds' = sockfds
    BY <1>4, <1>5, <1>6, <1>7 DEF Sock
  <2> QED
    BY <1>2, <2>1, ExitStep
<1>8. ASSUME i /= 0 PROVE IInv'
  <2>1. /\ sockfds' = [sockfds EXCEPT ![n][s] = i] /\ Returns(n)
        /\ n = Server => stcb' = [stcb EXCEPT ![i] = ServerTcb(port)] /\ ctcb' = ctcb
        /\ n /= Server => ctcb' = [ctcb EXCEPT ![n][i] = ClientTcb(port)] /\ stcb' = stcb
    BY <1>4, <1>5, <1>6, <1>8 DEF Sock
  <2>2. /\ i \in Entries /\ table[i] = NULL
        /\ \A j \in Entries : table[j] /= NULL => table[j].portNum /= port
    BY <1>6, <1>8, NewTcbIsNew
  <2>3. /\ sockfds' \in [Processes -> [Sockets -> Entries \cup {0}]]
        /\ \A m \in Processes : m /= n => sockfds'[m] = sockfds[m]
        /\ sockfds'[n][s] = i /\ \A u \in Sockets : u /= s => sockfds'[n][u] = sockfds[n][u]
    BY <1>1, <2>1, <2>2 DEF TypeOK
  <2>4. /\ program' \in [Processes -> Seq(CallTypes)] /\ at' \in [Processes -> Places]
        /\ at'[n] = "main" /\ program'[n] = Tail(program[n])
        /\ \A m \in Processes : m /= n => program'[m] = program[m] /\ at'[m] = at[m]
    <3>1. Tail(program[n]) \in Seq(CallTypes)
      BY <1>1, <1>3 DEF TypeOK
    <3>2. PICK rest \in Seq(CallTypes) : rest = Tail(program[n])
      BY <3>1
    <3>3. /\ program' = [program EXCEPT ![n] = rest]
          /\ at' = [at EXCEPT ![n] = "main"]
      BY <2>1, <3>2 DEF Returns
    <3> QED
      BY <1>1, <3>2, <3>3 DEF TypeOK, Places
  <2>5. CreatedFor(n)'
    <3>1. CreatedFor(n)
      BY <1>1 DEF Created
    <3>2. /\ sockfds'[n][Head(program[n]).sock] /= 0
          /\ \A u \in Sockets : sockfds[n][u] /= 0 => sockfds'[n][u] /= 0
      BY <1>4, <1>8, <2>3
    <3> QED
      BY <1>1, <1>3, <2>4, <3>1, <3>2, CreatedAfter
  <2>6. InCallOf(n)'
    BY <2>4 DEF InCallOf
  <2>7. ASSUME n = Server PROVE IInv'
    <3>1. PICK t \in ServerTcbs : /\ t = ServerTcb(port) /\ t.portNum = port
                                  /\ t.state = "CLOSED" /\ t.recvBuf = << >>
      <4>1. << >> \in Seq(Clients \X Nat)
        OBVIOUS
      <4>2. /\ ServerTcb(port) \in ServerTcbs /\ ServerTcb(port).portNum = port
            /\ ServerTcb(port).state = "CLOSED" /\ ServerTcb(port).recvBuf = << >>
        BY <4>1 DEF ServerTcbs, ServerTcb
      <4> QED
        BY <4>2
    <3>2. stcb' = [stcb EXCEPT ![i] = t] /\ ctcb' = ctcb /\ table = stcb
      BY <1>5, <2>1, <2>7, <3>1
    <3>3. /\ stcb' \in [Entries -> ServerTcbs \cup {NULL}]
          /\ stcb'[i] = t /\ \A j \in Entries : j /= i => stcb'[j] = stcb[j]
      BY <1>1, <2>2, <3>2 DEF TypeOK
    <3>4. DistinctPorts(stcb')
      BY <1>1, <2>2, <3>1, <3>2, <3>3 DEF OnePort, DistinctPorts
    <3>5. Buffers'
      BY <1>1, <3>1, <3>3 DEF Buffers
    <3>6. \A c \in Clients : SameServed(c)
      BY <2>2, <3>1, <3>2, <3>3 DEF SameServed, ServedAt, NULL
    <3>7. retry' = retry /\ ctcb' = ctcb /\ toServer' = toServer /\ toClient' = toClient
      BY <1>2, <3>2
    <3> QED
      BY <1>3, <2>3, <2>4, <2>5, <2>6, <2>7, <3>3, <3>4, <3>5, <3>6, <3>7, ServerMain
  <2>8. ASSUME n /= Server PROVE IInv'
    <3>1. PICK c \in Clients : c = n
      BY <2>8 DEF Processes
    <3>2. PICK t \in ClientTcbs : /\ t = ClientTcb(port) /\ t.portNum = port
                                  /\ t.state = "CLOSED"
      <4>1. /\ ClientTcb(port) \in ClientTcbs /\ ClientTcb(port).portNum = port
            /\ ClientTcb(port).state = "CLOSED"
        BY DEF ClientTcbs, ClientTcb
      <4> QED
        BY <4>1
    <3>3. ctcb' = [ctcb EXCEPT ![c][i] = t] /\ stcb' = stcb /\ table = ctcb[c]
      BY <1>5, <2>1, <2>8, <3>1, <3>2
    <3>4. /\ ctcb' \in [Clients -> [Entries -> ClientTcbs \cup {NULL}]]
          /\ ctcb'[c][i] = t /\ \A j \in Entries : j /= i => ctcb'[c][j] = ctcb[c][j]
          /\ \A d \in Clients : d /= c => ctcb'[d] = ctcb[d]
      BY <1>1, <2>2, <3>3 DEF TypeOK
    <3>5. DistinctPorts(ctcb'[c])
      <4>1. DistinctPorts(ctcb[c])
        BY <1>1 DEF OnePort
      <4> QED
        BY <2>2, <3>2, <3>3, <3>4, <4>1 DEF DistinctPorts
    <3>6. stcb' = stcb /\ toServer' = toServer /\ toClient' = toClient /\ retry' = retry
      BY <1>2, <3>3
    <3>7. Consistent(c) => Consistent(c)'
      <4>1. ctcb[c][i].state \notin Attached /\ ctcb'[c][i].state \in {"CLOSED", "NULL"}
        BY <2>2, <3>2, <3>3, <3>4 DEF Attached, NULL
      <4> QED
        BY <1>1, <2>2, <3>4, <3>6, <4>1, SocketAlone
    <3>8. /\ retry' \in [Clients -> Nat]
          /\ toServer' \in [Clients -> Seq(Segments({"SYN", "DATA", "FIN"}))]
      BY <1>1, <1>2 DEF TypeOK
    <3>9. /\ CreatedFor(c)' /\ InCallOf(c)' /\ at[c] /= "gone"
          /\ \A m \in Processes : m /= c =>
               program'[m] = program[m] /\ at'[m] = at[m] /\ sockfds'[m] = sockfds[m]
      BY <1>3, <2>3, <2>4, <2>5, <2>6, <3>1
    <3> QED
      BY <2>3, <2>4, <3>4, <3>5, <3>6, <3>7, <3>8, <3>9, ClientMain
  <2> QED
    BY <2>7, <2>8
<1> QED
  BY <1>7, <1>8

(***************************************************************************)
(* The theorems                                                            *)
(***************************************************************************)

\* The processes start: no sockets, no segments.
LEMMA InitIInv == ASSUME Init PROVE IInv
<1>1. TypeOK
  <2>1. program \in [Processes -> Seq(CallTypes)]
    BY DeploymentsAssumption DEF Init
  <2>2. at \in [Processes -> Places]
    BY DEF Init, Places
  <2>3. sockfds \in [Processes -> [Sockets -> Entries \cup {0}]] /\ retry \in [Clients -> Nat]
    BY DEF Init
  <2>4. /\ ctcb \in [Clients -> [Entries -> ClientTcbs \cup {NULL}]]
        /\ stcb \in [Entries -> ServerTcbs \cup {NULL}]
    BY DEF Init
  <2>5. toServer \in [Clients -> Seq(Segments({"SYN", "DATA", "FIN"}))]
    <3>1. << >> \in Seq(Segments({"SYN", "DATA", "FIN"}))
      OBVIOUS
    <3> QED
      BY <3>1 DEF Init
  <2>6. toClient \in [Clients -> Seq(Segments({"SYNACK", "DATAACK", "FINACK"}))]
    <3>1. << >> \in Seq(Segments({"SYNACK", "DATAACK", "FINACK"}))
      OBVIOUS
    <3> QED
      BY <3>1 DEF Init
  <2> QED
    BY <2>1, <2>2, <2>3, <2>4, <2>5, <2>6 DEF TypeOK
<1>2. /\ \A i \in Entries : stcb[i] = NULL
      /\ \A c \in Clients : /\ toServer[c] = << >> /\ toClient[c] = << >>
                            /\ \A i \in Entries : ctcb[c][i] = NULL
      /\ \A n \in Processes : at[n] = "main"
  BY DEF Init
<1>3. OnePort
  BY <1>2 DEF OnePort, DistinctPorts
<1>4. Created
  BY DeploymentsAssumption DEF Init, Created, CreatedFor
<1>5. InCall
  BY <1>2 DEF InCall, InCallOf
<1>6. Buffers
  BY <1>2 DEF Buffers, NULL
<1>7. Agreed
  <2>1. ASSUME NEW c \in Clients PROVE Consistent(c)
    <3>1. \A seg : ~Holds(toServer[c], seg) /\ ~Holds(toClient[c], seg)
      BY <1>2 DEF Holds
    <3>2. \A p, q : ~ServedAt(c, p, q)
      BY <1>2 DEF ServedAt, NULL
    <3> QED
      BY <1>2, <3>1, <3>2 DEF Consistent, OnlyAttached
  <2> QED
    BY <2>1 DEF Agreed
<1> QED
  BY <1>1, <1>3, <1>4, <1>5, <1>6, <1>7 DEF IInv

\* Every step preserves the invariant.
LEMMA StepIInv == ASSUME IInv, [Next]_vars PROVE IInv'
<1>1. CASE UNCHANGED vars
  BY <1>1, StutterStep
<1>2. CASE \E n \in Processes : Sock(n) \/ Close(n) \/ Finish(n)
  BY <1>2, SockStep, CloseStep, FinishStep
<1>3. ASSUME NEW c \in Clients, ClientNext(c) \/ Lose(c) PROVE IInv'
  <2>1. CASE Connect(c) \/ ConnectReturns(c) \/ TimesOut(c) \/ SendAgain(c)
    BY <2>1, ConnectStep, WaitStep, SendAgainStep
  <2>2. CASE Disconnect(c) \/ DisconnectReturns(c) \/ CallFails(c) \/ GivesUp(c)
    BY <2>2, DisconnectStep, DisconnectReturnsStep, FailStep
  <2>3. CASE Send(c) \/ (\E i \in Entries : SendTimeout(c, i)) \/ ClientHandler(c)
    BY <2>3, SendStep, SendTimeoutStep, ClientHandlerStep
  <2>4. CASE Lose(c)
    BY <2>4, LoseStep
  <2> QED
    BY <1>3, <2>1, <2>2, <2>3, <2>4 DEF ClientNext
<1>4. CASE ServerNext
  <2>1. CASE Accept \/ AcceptReturns \/ Recv \/ RecvReturns
    BY <2>1, AcceptStep, ServerReturnsStep
  <2>2. CASE \E i \in Entries : CloseWaitExpires(i)
    BY <2>2, CloseWaitStep
  <2>3. ASSUME NEW c \in Clients, NEW i \in Entries,
               SynReceived(i, c) \/ DataReceived(i, c) \/ FinReceived(i, c)
        PROVE  IInv'
    BY <2>3, SynReceivedStep, DataReceivedStep, FinReceivedStep
  <2>4. ASSUME NEW c \in Clients, Ignore(c) PROVE IInv'
    BY <2>4, LoseStep
  <2> QED
    BY <1>4, <2>1, <2>2, <2>3, <2>4 DEF ServerNext
<1> QED
  BY <1>1, <1>2, <1>3, <1>4 DEF Next

(***************************************************************************)
(* The inductive invariant holds in every reachable state, whatever the    *)
(* deployments run.                                                        *)
(***************************************************************************)
THEOREM Invariance == Spec => []IInv
<1>1. Init => IInv
  BY InitIInv
<1>2. IInv /\ [Next]_vars => IInv'
  BY StepIInv
<1> QED
  BY <1>1, <1>2, PTL DEF Spec

(***************************************************************************)
(* Every variable keeps its type: no call works on a socket that was not   *)
(* created, no table holds anything but TCBs (the operations of            *)
(* srt_client.c and srt_server.c).                                         *)
(***************************************************************************)
THEOREM TypeCorrect == Spec => []TypeOK
<1>1. IInv => TypeOK
  BY DEF IInv
<1> QED
  BY <1>1, Invariance, PTL

\* A process that has ended has no sockets left.
Ended ==
    /\ \A c \in Clients : at[c] = "gone" => \A i \in Entries : ctcb[c][i] = NULL
    /\ at[Server] = "gone" => \A i \in Entries : stcb[i] = NULL

\* One process's main step, which ends it or not.
LEMMA EndedByMain ==
    ASSUME TypeOK, Ended, NEW n \in Processes,
           \/ Exits(n)
           \/ \E place \in Places \ {"gone"} : at' = [at EXCEPT ![n] = place],
           \A d \in Clients : d /= n => ctcb'[d] = ctcb[d],
           n /= Server => stcb' = stcb
    PROVE  Ended'
<1>1. CASE Exits(n)
  <2>1. PICK none : none = [i \in Entries |-> NULL]
    OBVIOUS
  <2>2. /\ n = Server => stcb' = none /\ ctcb' = ctcb
        /\ n /= Server => ctcb' = [ctcb EXCEPT ![n] = none]
        /\ at' = [at EXCEPT ![n] = "gone"]
    BY <1>1, <2>1 DEF Exits
  <2>3. /\ \A i \in Entries : none[i] = NULL
        /\ n \in Clients => ctcb'[n] = none
        /\ \A m \in Processes : m /= n => at'[m] = at[m]
    BY <2>1, <2>2, SocketsAssumption DEF TypeOK
  <2> QED
    BY <2>2, <2>3, SocketsAssumption DEF Ended, Processes
<1>2. CASE \E place \in Places \ {"gone"} : at' = [at EXCEPT ![n] = place]
  <2>1. at'[n] /= "gone" /\ \A m \in Processes : m /= n => at'[m] = at[m]
    BY <1>2 DEF TypeOK
  <2> QED
    BY <2>1 DEF Ended, Processes
<1> QED
  BY <1>1, <1>2

\* The steps of a client whose process has ended have no socket to work on.
LEMMA EndedByClient ==
    ASSUME TypeOK, Ended, NEW c \in Clients, ClientNext(c) PROVE Ended'
<1>1. c \in Processes /\ c /= Server
  BY SocketsAssumption DEF Processes
<1>2. CASE ClientHandler(c)
  <2>1. /\ UNCHANGED <<appVars, stcb>>
        /\ \A d \in Clients : d /= c => ctcb'[d] = ctcb[d]
        /\ \A j \in Entries : ctcb[c][j] = NULL => ctcb'[c][j] = NULL
    BY <1>2, Handled DEF SameTcb
  <2> QED
    BY <2>1 DEF Ended, appVars
<1>3. CASE \E i \in Entries : SendTimeout(c, i)
  <2>1. UNCHANGED <<appVars, ctcb, stcb>>
    BY <1>3 DEF SendTimeout
  <2> QED
    BY <2>1 DEF Ended, appVars
<1>4. CASE CallFails(c) \/ GivesUp(c)
  <2>1. Exits(c)
    BY <1>4 DEF CallFails, GivesUp
  <2>2. stcb' = stcb /\ \A d \in Clients : d /= c => ctcb'[d] = ctcb[d]
    BY <1>1, <2>1 DEF Exits, TypeOK
  <2> QED
    BY <1>1, <2>1, <2>2, EndedByMain
<1>5. CASE \/ Connect(c) \/ ConnectReturns(c) \/ Disconnect(c) \/ DisconnectReturns(c)
           \/ TimesOut(c) \/ SendAgain(c) \/ Send(c)
  <2>1. PICK place \in {"main", "connect", "disconnect", "sendSyn", "sendFin"} :
          at' = [at EXCEPT ![c] = place]
    BY <1>5 DEF Connect, ConnectReturns, Disconnect, DisconnectReturns, TimesOut,
                SendAgain, Send, Goes, Returns
  <2>2. stcb' = stcb
    BY <1>5 DEF Connect, ConnectReturns, Disconnect, DisconnectReturns, TimesOut,
                SendAgain, Send
  <2>3. ctcb' = ctcb \/ \E table : ctcb' = [ctcb EXCEPT ![c] = table]
    BY <1>5 DEF Connect, ConnectReturns, Disconnect, SetState, DisconnectReturns, TimesOut,
                SendAgain, Send
  <2>4. \A d \in Clients : d /= c => ctcb'[d] = ctcb[d]
    BY <2>3 DEF TypeOK
  <2>5. place \in Places \ {"gone"}
    BY DEF Places
  <2> QED
    BY <1>1, <2>1, <2>2, <2>4, <2>5, EndedByMain
<1> QED
  BY <1>2, <1>3, <1>4, <1>5 DEF ClientNext

\* Nor have those of the server.
LEMMA EndedByServer ==
    ASSUME TypeOK, Ended, ServerNext PROVE Ended'
<1>1. Server \in Processes
  BY DEF Processes
<1>2. CASE Accept \/ AcceptReturns \/ Recv \/ RecvReturns
  <2>1. ctcb' = ctcb
    BY <1>2 DEF Accept, AcceptReturns, Recv, RecvReturns
  <2>2. PICK place \in {"main", "accept", "recv"} : at' = [at EXCEPT ![Server] = place]
    BY <1>2 DEF Accept, AcceptReturns, Recv, RecvReturns, Goes, Returns
  <2>3. place \in Places \ {"gone"}
    BY DEF Places
  <2> QED
    BY <1>1, <2>1, <2>2, <2>3, EndedByMain
<1>3. ASSUME ctcb' = ctcb, at' = at,
             \A i \in Entries : stcb[i] = NULL => stcb'[i] = NULL
      PROVE  Ended'
  BY <1>3 DEF Ended
<1>4. ASSUME NEW i \in Entries, CloseWaitExpires(i) PROVE Ended'
  <2>1. stcb[i] /= NULL
    BY <1>4 DEF CloseWaitExpires, NULL
  <2>2. \A j \in Entries : j /= i => stcb'[j] = stcb[j]
    BY <1>4 DEF CloseWaitExpires, TypeOK
  <2> QED
    BY <1>3, <1>4, <2>1, <2>2 DEF CloseWaitExpires, appVars
<1>5. ASSUME NEW c \in Clients, NEW i \in Entries,
             SynReceived(i, c) \/ DataReceived(i, c) \/ FinReceived(i, c)
      PROVE  Ended'
  <2>1. UNCHANGED <<appVars, ctcb>> /\ i \in EntriesOfPort(stcb, Head(toServer[c]).dest_port)
    BY <1>5 DEF SynReceived, DataReceived, FinReceived, Takes
  <2>2. stcb[i] /= NULL
    BY <2>1 DEF EntriesOfPort
  <2>3. \E t : stcb' = [stcb EXCEPT ![i] = t]
    BY <1>5 DEF SynReceived, DataReceived, FinReceived
  <2>4. \A j \in Entries : j /= i => stcb'[j] = stcb[j]
    BY <2>3 DEF TypeOK
  <2> QED
    BY <1>3, <2>1, <2>2, <2>4 DEF appVars
<1>6. ASSUME NEW c \in Clients, Ignore(c) PROVE Ended'
  BY <1>6, <1>3 DEF Ignore, appVars
<1> QED
  BY <1>2, <1>4, <1>5, <1>6 DEF ServerNext

\* sock, close and the end of main are steps of the main of a process.
LEMMA EndedByAny ==
    ASSUME TypeOK, Ended, NEW n \in Processes, Sock(n) \/ Close(n) \/ Finish(n) PROVE Ended'
<1>1. Exits(n) \/ at' = [at EXCEPT ![n] = "main"]
  BY DEF Sock, Close, Finish, Returns
<1>2. /\ ctcb' = ctcb \/ \E table : ctcb' = [ctcb EXCEPT ![n] = table]
      /\ n = Server => ctcb' = ctcb
      /\ n /= Server => stcb' = stcb
  BY DEF Sock, Close, Finish, Exits
<1>3. \A d \in Clients : d /= n => ctcb'[d] = ctcb[d]
  BY <1>2 DEF TypeOK
<1>4. "main" \in Places \ {"gone"}
  BY DEF Places
<1> QED
  BY <1>1, <1>2, <1>3, <1>4, EndedByMain

(***************************************************************************)
(* A process that has ended has no TCB left, and none of its threads       *)
(* brings one back (exit, the end of main).                                *)
(***************************************************************************)
THEOREM EndedAlways == Spec => []Ended
<1>1. Init => Ended
  BY DEF Init, Ended, Processes
<1>2. TypeOK /\ Ended /\ [Next]_vars => Ended'
  <2>1. ASSUME TypeOK, Ended, UNCHANGED vars PROVE Ended'
    BY <2>1 DEF Ended, vars, appVars
  <2>2. ASSUME TypeOK, Ended, NEW c \in Clients, Lose(c) PROVE Ended'
    BY <2>2 DEF Ended, Lose, appVars
  <2> QED
    BY <2>1, <2>2, EndedByClient, EndedByServer, EndedByAny DEF Next
<1> QED
  BY <1>1, <1>2, TypeCorrect, PTL DEF Spec

\* A TCB of the server that serves a client's TCB serves its ports.
LEMMA ServedIsServedAt ==
    ASSUME NEW c, NEW tcb, NEW p, NEW q, p = tcb.portNum, q = tcb.svr_portNum
    PROVE  Served(c, tcb) <=> ServedAt(c, p, q)
  BY DEF Served, ServedAt

(***************************************************************************)
(* A CONNECTED socket of a client is the one that a CONNECTED TCB of the   *)
(* server answers, as long as the server runs: neither seghandler takes    *)
(* the segments of one connection for those of another, for any number of  *)
(* clients, sockets, ports and segments on the way.                        *)
(***************************************************************************)
THEOREM RightSocket == Spec => []RightPeer
<1>1. ASSUME IInv, Ended PROVE RightPeer
  <2>1. SUFFICES ASSUME NEW c \in Clients, NEW i \in Entries,
                        ctcb[c][i].state = "CONNECTED", at[Server] /= "gone"
                 PROVE  Served(c, ctcb[c][i])
    BY DEF RightPeer
  <2>2. ctcb[c][i] /= NULL
    BY <2>1 DEF NULL
  <2>3. at[c] /= "gone"
    BY <1>1, <2>2 DEF Ended
  <2>4. Consistent(c)
    BY <1>1, <2>1, <2>3 DEF IInv, Agreed
  <2>5. PICK p, q : p = ctcb[c][i].portNum /\ q = ctcb[c][i].svr_portNum
    OBVIOUS
  <2>6. ServedAt(c, p, q)
    BY <2>1, <2>2, <2>4, <2>5 DEF Consistent, InState, Open
  <2> QED
    BY <2>5, <2>6, ServedIsServedAt
<1> QED
  BY <1>1, Invariance, EndedAlways, PTL

(***************************************************************************)
(* When disconnect finds its socket CLOSED, the server has left that       *)
(* connection: the FINACK that closed it was the answer to its own FIN     *)
(* (srt_client_disconnect, fin_received).                                  *)
(***************************************************************************)
THEOREM ServerLeft == Spec => []ServerHasLeft
<1>1. ASSUME IInv, Ended PROVE ServerHasLeft
  <2>1. SUFFICES ASSUME NEW c \in Clients, at[c] = "disconnect", State(c) = "CLOSED",
                        Served(c, ctcb[c][Socket(c)])
                 PROVE  FALSE
    BY DEF ServerHasLeft
  <2>2. TypeOK /\ OnePort
    BY <1>1 DEF IInv
  <2>3. PICK i \in Entries : i = Socket(c) /\ ctcb[c][i] \in ClientTcbs
    BY <1>1, <2>1, ClientsCall
  <2>4. PICK p, q \in Nat : p = ctcb[c][i].portNum /\ q = ctcb[c][i].svr_portNum
    BY <2>3 DEF ClientTcbs
  <2>5. ServedAt(c, p, q)
    BY <2>1, <2>3, <2>4, ServedIsServedAt
  <2>6. at[Server] /= "gone"
    BY <1>1, <2>5 DEF Ended, ServedAt, NULL
  <2>7. Mine(c, p, q)
    BY <1>1, <2>1, <2>5, <2>6 DEF IInv, Agreed, Consistent, OnlyAttached
  <2>8. PICK j \in Entries : ctcb[c][j].state \in Attached /\ ctcb[c][j].portNum = p
    BY <2>7 DEF Mine
  <2>9. j /= i /\ ctcb[c][j] /= NULL /\ ctcb[c][i] /= NULL
    BY <2>1, <2>2, <2>3, <2>8, TcbTypes DEF State, Attached, NULL
  <2> QED
    BY <2>2, <2>4, <2>8, <2>9, OtherPort
<1> QED
  BY <1>1, Invariance, EndedAlways, PTL

(***************************************************************************)
(* recv on an open connection returns only what was sent on it, although   *)
(* the buffer was that of another client before (data_received,            *)
(* closewait).                                                             *)
(***************************************************************************)
THEOREM OnlyOwnData == Spec => []OwnData
<1>1. ASSUME IInv PROVE OwnData
  BY <1>1 DEF IInv, Buffers, OwnData, ToSet
<1> QED
  BY <1>1, Invariance, PTL
====
