---- MODULE Overlay ----
(***************************************************************************)
(* The start of the overlay: the ON processes connect to each other, the   *)
(* one with the larger node ID to the one with the smaller, then wait for  *)
(* their SNP processes.  Processes are started at any time, may be stopped *)
(* and started again.                                                      *)
(***************************************************************************)
EXTENDS Topology, FiniteSets

CONSTANTS
    MaxStarts,  \* bound: how often the process of a node is started
    MaxStops    \* bound: how many processes are stopped

ASSUME BoundsAssumption == MaxStarts \in Nat /\ MaxStops \in Nat

Nodes == ToSet(topology_getNodeArray)

VARIABLES
    onPc,       \* main thread of the ON process
    listening,  \* waitNbrs has opened CONNECTION_PORT
    awaited,    \* waitNbrs: where its loop over nt is, 0 before it listens
    backlog,    \* connections the kernel has accepted for it
    nt,         \* the conn fields of the neighbour table
    connecting, \* connectNbrs: where its loop over nt is
    snpUp,      \* the local SNP process is connected
    starts, stops,  \* bounds
    late        \* history: a connect was refused, or a process was stopped

nodeVars == <<onPc, listening, awaited, nt, connecting, snpUp>>
vars == <<nodeVars, backlog, starts, stops, late>>

\* A connection is named by its ends: the node that asked for it and its
\* peer, and which of their processes, first, second ..., these were.
NoConn == << >>

Alive(n) == onPc[n] \notin {"off", "gone"}

Live(c) ==
    c /= NoConn /\ \A k \in 1..2 : Alive(c[k]) /\ starts[c[k]] = c[k + 2]

\* The entries of the neighbour table, in the order of topology.dat, and
\* those the loops of waitNbrs and connectNbrs do not pass over.
NbrArray == [n \in Nodes |-> topology_getNbrArray(n)]
WaitsForAll == [n \in Nodes |-> DOMAIN NbrArray[n]]                \* mutant
LargerNbrs ==
    [n \in Nodes |-> {i \in DOMAIN NbrArray[n] : NbrArray[n][i] > n}]
SmallerNbrs ==
    [n \in Nodes |-> {i \in DOMAIN NbrArray[n] : NbrArray[n][i] < n}]

\* Entry i is the next of these that a loop at position from comes to.
IsNext(i, entries, from) ==
    i >= from /\ \A j \in entries : j >= from => i <= j
AllPast(entries, from) == \A i \in entries : i < from

EmptyTable == [m \in Nodes |-> NoConn]

Init ==
    /\ onPc = [n \in Nodes |-> "off"]
    /\ listening = [n \in Nodes |-> FALSE]
    /\ awaited = [n \in Nodes |-> 0]
    /\ backlog = [n \in Nodes |-> << >>]
    /\ nt = [n \in Nodes |-> EmptyTable]
    /\ connecting = [n \in Nodes |-> 1]
    /\ snpUp = [n \in Nodes |-> FALSE]
    /\ starts = [n \in Nodes |-> 0] /\ stops = 0
    /\ late = FALSE
----
\* main: the neighbour table is created, waitNbrs started, and main sleeps.
StartOverlay(n) ==
    /\ ~Alive(n) /\ starts[n] < MaxStarts
    /\ onPc' = [onPc EXCEPT ![n] = "connect"]
    /\ starts' = [starts EXCEPT ![n] = @ + 1]
    /\ nt' = [nt EXCEPT ![n] = EmptyTable]
    /\ UNCHANGED <<listening, awaited, backlog, connecting, snpUp, stops, late>>

\* waitNbrs: from now on the kernel accepts connections.
Listen(n) ==
    /\ Alive(n) /\ awaited[n] = 0
    /\ listening' = [listening EXCEPT ![n] = TRUE]
    /\ awaited' = [awaited EXCEPT ![n] = 1]
    /\ UNCHANGED <<onPc, backlog, nt, connecting, snpUp, starts,
                   stops, late>>

\* A process started again may find the port in use; waitNbrs returns then.
ListenFails(n) ==
    /\ Alive(n) /\ awaited[n] = 0
    /\ starts[n] > 1
    /\ awaited' = [awaited EXCEPT ![n] = Len(NbrArray[n]) + 1]
    /\ late' = TRUE
    /\ UNCHANGED <<onPc, listening, backlog, nt, connecting, snpUp, starts,
                   stops>>

\* waitNbrs: one connection for each larger neighbour.  It is entered for
\* the node its address belongs to, whichever the loop has come to.
EntryAtIndex(i, n, c) == NbrArray[n][i]                           \* mutant
EntryByAddress(i, n, c) == c[1]
AcceptNbr(n) ==
    /\ Alive(n) /\ listening[n] /\ backlog[n] /= << >>
    /\ \E i \in LargerNbrs[n] :
        /\ IsNext(i, LargerNbrs[n], awaited[n])
        /\ LET c == Head(backlog[n])
           IN  nt' = [nt EXCEPT ![n][EntryByAddress(i, n, c)] = c]
        /\ awaited' = [awaited EXCEPT ![n] = i + 1]
    /\ backlog' = [backlog EXCEPT ![n] = Tail(@)]
    /\ UNCHANGED <<onPc, listening, connecting, snpUp, starts, stops, late>>

\* connectNbrs, the next smaller neighbour.  OVERLAY_START_DELAY, for which
\* main sleeps before the first, may end before or after the others start.
ResultNotTested(m) == TRUE                                        \* mutant
Answers(m) == Alive(m) /\ listening[m]
ConnectNbr(n) ==
    /\ onPc[n] = "connect"
    /\ \E i \in SmallerNbrs[n] :
        /\ IsNext(i, SmallerNbrs[n], connecting[n])
        /\ LET m == NbrArray[n][i]
               c == <<n, m, starts[n], starts[m]>> IN
           /\ Answers(m)
           /\ nt' = [nt EXCEPT ![n][m] = c]
           /\ backlog' = [backlog EXCEPT ![m] = Append(@, c)]
        /\ connecting' = [connecting EXCEPT ![n] = i + 1]
    /\ UNCHANGED <<onPc, listening, awaited, snpUp, starts, stops, late>>

\* connectNbrs returns -1 at the first neighbour that does not answer, and
\* main does not look at what it returns.
ConnectRefused(n) ==
    /\ onPc[n] = "connect"
    /\ \E i \in SmallerNbrs[n] :
        /\ IsNext(i, SmallerNbrs[n], connecting[n])
        /\ ~Answers(NbrArray[n][i])
    /\ onPc' = [onPc EXCEPT ![n] = "join"]
    /\ late' = TRUE
    /\ UNCHANGED <<listening, awaited, backlog, nt, connecting, snpUp,
                   starts, stops>>

ConnectDone(n) ==
    /\ onPc[n] = "connect" /\ AllPast(SmallerNbrs[n], connecting[n])
    /\ onPc' = [onPc EXCEPT ![n] = "join"]
    /\ UNCHANGED <<listening, awaited, backlog, nt, connecting, snpUp,
                   starts, stops, late>>

\* pthread_join: main goes on when waitNbrs has returned.  It starts the
\* threads that listen to the neighbours and waits for the SNP process.
NoJoin(n) == TRUE                                                 \* mutant
WaitNbrsReturned(n) == awaited[n] > 0 /\ AllPast(LargerNbrs[n], awaited[n])
JoinWaitNbrs(n) ==
    /\ onPc[n] = "join" /\ WaitNbrsReturned(n)
    /\ onPc' = [onPc EXCEPT ![n] = "network"]
    /\ UNCHANGED <<listening, awaited, backlog, nt, connecting, snpUp,
                   starts, stops, late>>

\* connectToOverlay and the accept of waitNetwork.  An SNP process that comes
\* before that exits, and is started again.
StartNetwork(n) ==
    /\ onPc[n] = "network"
    /\ onPc' = [onPc EXCEPT ![n] = "serve"]
    /\ snpUp' = [snpUp EXCEPT ![n] = TRUE]
    /\ UNCHANGED <<listening, awaited, backlog, nt, connecting, starts,
                   stops, late>>

\* listen_to_neighbor: recvpkt fails on a connection whose other end is gone.
NeighborClosed(n, m) ==
    /\ onPc[n] \in {"network", "serve"}
    /\ nt[n][m] /= NoConn /\ ~Live(nt[n][m])
    /\ nt' = [nt EXCEPT ![n][m] = NoConn]
    /\ UNCHANGED <<onPc, listening, awaited, backlog, connecting, snpUp,
                   starts, stops, late>>

\* overlay_stop, or waitNetwork returns, because the SNP process has gone or its
\* port is in use: the process and all it had is gone.
StopOverlay(n) ==
    /\ Alive(n) /\ stops < MaxStops
    /\ onPc' = [onPc EXCEPT ![n] = "gone"]
    /\ listening' = [listening EXCEPT ![n] = FALSE]
    /\ backlog' = [backlog EXCEPT ![n] = << >>]
    /\ snpUp' = [snpUp EXCEPT ![n] = FALSE]
    /\ nt' = [nt EXCEPT ![n] = EmptyTable]
    /\ awaited' = [awaited EXCEPT ![n] = 0]
    /\ connecting' = [connecting EXCEPT ![n] = 1]
    /\ stops' = stops + 1
    /\ late' = TRUE
    /\ UNCHANGED starts
----
waitNbrs(n) == Listen(n) \/ ListenFails(n) \/ AcceptNbr(n)
connectNbrs(n) == ConnectNbr(n) \/ ConnectRefused(n) \/ ConnectDone(n)

Continues(n) ==
    \/ waitNbrs(n) \/ connectNbrs(n) \/ JoinWaitNbrs(n)
    \/ StartNetwork(n)

Next ==
    \E n \in Nodes :
        \/ StartOverlay(n) \/ Continues(n) \/ StopOverlay(n)
        \/ \E m \in Nodes : NeighborClosed(n, m)

Spec == Init /\ [][Next]_vars

(***************************************************************************)
(* Fairness: every ON process is started, its threads go on, and its SNP   *)
(* process is started once it listens for it.                              *)
(***************************************************************************)
Fairness ==
    \A n \in Nodes :
        /\ WF_vars(starts[n] = 0 /\ StartOverlay(n))
        /\ WF_vars(waitNbrs(n))
        /\ WF_vars(connectNbrs(n) \/ JoinWaitNbrs(n)
                     \/ StartNetwork(n))

FairSpec == Spec /\ Fairness
----
Conns == (Nodes \X Nodes \X (1..MaxStarts) \X (1..MaxStarts)) \cup {NoConn}

TypeOK ==
    /\ onPc \in [Nodes -> {"off", "connect", "join", "network",
                           "serve", "gone"}]
    /\ listening \in [Nodes -> BOOLEAN]
    /\ awaited \in [Nodes -> Nat] /\ connecting \in [Nodes -> Nat]
    /\ backlog \in [Nodes -> Seq(Conns)]
    /\ nt \in [Nodes -> [Nodes -> Conns]]
    /\ \A n \in Nodes : /\ awaited[n] \in 0..(Len(NbrArray[n]) + 1)
                        /\ connecting[n] \in 1..(Len(NbrArray[n]) + 1)
    /\ snpUp \in [Nodes -> BOOLEAN]
    /\ starts \in [Nodes -> 0..MaxStarts] /\ stops \in 0..MaxStops
    /\ late \in BOOLEAN

Nbrs(n) == ToSet(NbrArray[n])
Joined(n) == onPc[n] \in {"network", "serve"}

(***************************************************************************)
(* overlay.c:243 "at this point, all connections to the neighbors are      *)
(* created": where main goes on after pthread_join every neighbour has its *)
(* connection, and the neighbour is there, if all were started in time and *)
(* none was stopped.                                                       *)
(***************************************************************************)
ConnectedAtJoin ==
    \A n \in Nodes : Joined(n) /\ ~late =>
        \A m \in Nbrs(n) : Live(nt[n][m])

(***************************************************************************)
(* An entry of the neighbour table is a connection with that neighbour,    *)
(* though waitNbrs accepts in any order and main enters the other entries  *)
(* at the same time; and as long as no process was started again, two      *)
(* neighbours that are past the join hold the same connection.             *)
(***************************************************************************)
SameConnection ==
    \A n, m \in Nodes :
        /\ nt[n][m] /= NoConn =>
             {nt[n][m][1], nt[n][m][2]} = {n, m}
        /\ Joined(n) /\ Joined(m) /\ Live(nt[n][m])
             /\ (\A k \in Nodes : starts[k] <= 1)
             => nt[m][n] = nt[n][m]

(***************************************************************************)
(* All nodes come up, with their SNP processes: the order in which the     *)
(* nodes accept and connect never leaves them waiting for each other,      *)
(* unless one was late or was stopped.                                     *)
(***************************************************************************)
AllComeUp == <>(late \/ \A n \in Nodes : snpUp[n])
====
