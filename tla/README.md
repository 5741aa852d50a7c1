# Verification of SRT and SNP

This directory holds TLA+ models of the Simple Reliable Transport protocol
(SRT), of the network layer beneath it (SNP), of the overlay's start and of the
frames between the processes, the TLC runs that check them on small instances,
and proofs, checked by TLAPS, of safety properties of all of them for all values of
the constants.

## 1. The system

| Component | Source | State | Operations | What makes it correct |
|---|---|---|---|---|
| SRT client | `client/srt_client.c` | one control block per socket: state, send buffer (list, first unsent, count of unacknowledged), next sequence number | `connect`, `send`, `disconnect`, `close`; `seghandler` thread; one `sendBuf_timer` thread per non-empty window | what is freed was received; what waits is resent; every call returns |
| SRT server | `server/srt_server.c` | one control block per socket: state, expected sequence number, receive buffer | `accept`, `recv`, `close`; `seghandler` thread; `closewait` thread | the buffer holds exactly the next bytes written by the client |
| Segments | `common/seg.c` | none (TCP stream to the SNP process) | `snp_sendseg`, `snp_recvseg`, `getsegToSend`, `forwardsegToSRT`, `seglost`, checksum | a frame arrives whole or not at all |
| SNP process | `network/network.c` | neighbour costs, distance vectors, routing table, two mutexes | `routeupdate_daemon`, `pkthandler`, `waitTransport` | routes lead to their destination, cheapest in the end |
| SNP tables | `network/*table.c` | arrays and a hash table | create, set, get | a lookup returns what was stored last |
| Topology | `topology/topology.c` | the file `topology.dat` | node, neighbour and cost queries | the same answers for as long as the process runs |
| Packets | `common/pkt.c` | none (TCP streams) | `overlay_sendpkt`, `overlay_recvpkt`, `getpktToSend`, `forwardpktToSNP`, `sendpkt`, `recvpkt` | as for segments |
| Overlay process | `overlay/overlay.c`, `overlay/neighbortable.c` | neighbour table with connections | `waitNbrs`, `connectNbrs`, `listen_to_neighbor`, `waitNetwork` | every neighbour is connected before packets flow |
| Applications | `client/app_*.c`, `server/app_*.c` | none | sequences of API calls | two connections of one program, and two programs at one server, do not disturb each other |

A segment written by `srt_client_send` goes over a local TCP connection to the
SNP process, which looks up the next hop and hands the packet over another
local TCP connection to the overlay process, and so from node to node to the
SRT server, whose `seghandler` reads it with `snp_recvseg`. `snp_recvseg`
loses or corrupts one segment in ten on purpose. The SRT processes are
multi-threaded with little locking: the send and receive buffers have a mutex,
the connection state has none. One `seghandler` serves all sockets of a
process: it finds the control block by the destination port.

What is hard in this code: the application, the handler and the timers of one
process interleave between any two accesses to the control block; segments are
lost, resent and answered late; a connection may start while segments of the
one before are still on their way; calls give up after some retries while the
other end believes the opposite; several clients talk to one port; distance
vectors are exchanged asynchronously; the threads of a process write to one TCP
connection without a lock; the overlay's nodes connect to each other in any
order, and each waits for others.
`PROJECT.json` lists each of these hazards at its line, with the properties
that would catch it.

## 2. Modules

| Module | What it is |
|---|---|
| `SrtSegments` | segments and the lossy path in both directions |
| `SrtClient` | the client: application thread, `seghandler`, timers |
| `SrtServer` | the server: application thread, `seghandler`, `closewait` |
| `Srt` | both ends and the path together; fairness; the properties |
| `ByteStream` | the abstract specification: what SRT promises |
| `SrtClaims` | claims of comments and README that the code does not keep |
| `SrtInvariants` | the inductive invariant of `Srt` |
| `SrtLemmas` | lemmas about queues and about the invariant |
| `SrtClientProofs`, `SrtServerProofs` | each step preserves the invariant |
| `SrtProofs` | the theorems about SRT |
| `SrtSockets` | the TCB tables, ports and peers of several client processes and a server process, and the programs that use them |
| `MCSrtSockets` | the deployments of `SrtSockets` that TLC runs |
| `SrtSocketsProofs` | the theorems about sockets, ports and peers |
| `Snp` | the network layer: one SNP process per node, and the overlay as queues between neighbours |
| `SnpInvariants` | what vectors, tables and packets keep true of one another; the cheapest paths as a reference |
| `MCSnp` | instances for TLC, the liveness properties |
| `SnpProofs` | the theorems about SNP |
| `SnpHost` | one SNP process: its file descriptors and the SRT processes it serves one after the other |
| `Framing`, `MCFraming` | frames on one TCP connection: the writers' sends and the receiving automaton |
| `FramingProofs` | the theorems about framing |
| `Topology` | the queries of `topology.c` as functions of the lines of `topology.dat` |
| `Overlay`, `MCOverlay` | the start of the ON processes: who accepts, who connects, who waits |
| `OverlayProofs` | what the queries of `Topology` return, as `Snp` and `Overlay` need it, and the theorems about the start |

The layers are modelled apart. What SRT needs of SNP is a path that loses
segments and keeps their order, which is `SrtSegments`; what SNP does with a
segment is the same whatever is in it. What SNP needs of the overlay is that
neighbours are connected, which is what `Overlay` checks, and of the topology
that costs are positive and the same both ways; both are proved in
`OverlayProofs`. What all of them need of a TCP connection is that a frame
arrives or is lost whole; `Framing` shows where that holds and where it does not.

### How the SRT modules correspond to the code

`SrtClient` and `SrtServer` keep the names of the control block fields. A
control block is a set of variables; `FREE` is its state after `close` freed
it. `cPc` and `sPc` say where the application thread is inside an API call,
`handler` what `seghandler` will do next, `asleep` and `awake` count timer
threads before and after their test of `unAck_segNum`. A section under
`bufMutex` is one action. Outside it, each access to something another thread
may change is an action of its own, with these merges:

* `connect` sends the SYN (line 165) and then sets `SYNSENT` (169);
  `disconnect` sends the FIN (279) and then sets `FINWAIT` (282). An answer
  that comes in between is ignored by `seghandler`, as if it had been lost,
  which the path may do anyway.
* `seghandler` tests the head of the send buffer (377) before
  `sendBuf_recvAck` takes the mutex (478). Only `seghandler` itself removes
  from the buffer in state `CONNECTED`, and `sendBuf_addSeg` only appends, so
  nothing the test depends on changes in between.
* The timer reads `sendBufHead->sentTime` (528) and calls `sendBuf_timeout`
  (529). The dangerous part, that `sendBufHead` is `NULL` by then, is
  `TimerFault`; otherwise the two are one action. Whether the head is old
  enough is left open (`TimerResend` may resend or not): `sendBuf_send` and
  `sendBuf_timeout` compute `sentTime` in different units, so any answer is
  possible.
* The server's `seghandler` handles one segment in one action: no other thread
  changes the state while it is `LISTENING` or `CONNECTED`, and the buffer only
  shrinks under it.
* `closewait` empties the buffer and then sets `CLOSED` (337-340); in between
  `seghandler` only answers FINs, which it might have done before.

Other abstractions:

* A payload byte is the pair of the connection it was written on and its
  sequence number. `conn`, `dirty`, `sConn` and `delivered` are history
  variables: no guard of the code depends on them. `delivered` holds what
  `recv` has copied to the application on this connection.
* The path is FIFO: every hop is a TCP stream and the model takes routes as
  settled, which `NETWORK_WAITTIME` (network.c:10) is there for. A segment
  that `seglost` drops, or corrupts so that `checkchecksum` drops it, is lost.
  The path holds at most `MaxInFlight` segments in each direction; what does
  not fit is dropped, which is again a loss.
* One client socket and one server socket, and no ports or node IDs;
  `SrtSockets` has those. `svrKnown` says whether `svr_nodeID` is set, because a timer may
  resend after `disconnect` has reset it.
* `ReuseAfterFailure` says whether the application calls `connect` again on a
  socket whose `disconnect` returned -1. The safety results assume that it
  does not; the run `srt_reuse` shows what happens if it does.

### How `SrtSockets` corresponds to the code

`ctcb[c]` and `stcb` are the arrays `tcbtable` of the client and server
processes, with `NULL` entries; `NewTcb` and `EntriesOfPort` are
`tcbtable_newtcb` and `tcbtable_gettcbFromPort`. `sockfds[n]` are the program's
variables for what `sock` returned, one for each name in `Sockets`. `program[n]` is what is left of
the `main` of the process on node `n`, one record per API call, and `at[n]` the
call it is in. A process whose call fails ends, as the programs do with
`exit(1)`; segments for it are then ignored. The handlers find the block by
`dest_port` and compare port and node before they act, as the conditions of
srt_client.c:367-389 and srt_server.c:270-307 do.

The module leaves to `SrtClient` and `SrtServer` what one connection does inside:
sequence numbers, windows and the unlocked accesses. One `send` puts one
segment into the buffer, which is sent again until it is acknowledged or the
buffer is cleared; the server keeps one bit, `expect`, of its sequence number;
and recvBuf holds who sent the data, which is what the properties tell apart.
A FIN is sent and `FINWAIT` set in one action, with the reason given above for
`SrtClient`. Two of the five deployments use programs the API allows and the
repository does not have: a client that takes a socket to one port after another,
and a server that accepts on a socket twice.

### How `Snp` corresponds to the code

| In `Snp` | In the code |
|---|---|
| `dv[n]` | `dvt[0]` of node n |
| `rows[n][m]` | the other rows of `dvt`, by neighbour |
| `routingtable[n]` | what `routingtable_getnextnode` returns, by destination |
| `pktRouteUpdt[n]` | the copy `routeupdate_daemon` has made and not sent |
| `links[m][n]` | packets on the three TCP connections from the SNP process of m through the two ON processes to the SNP process of n |
| `status[n]` | the SNP process of n not yet connected, running, or gone with its ON process |

`HandleUpdate` is one action because `pkthandler` holds `dv_mutex` from the
first `dvtable_setcost` to the last change of the routing table (125-140); the
daemon's copy is an action under the same mutex and its broadcast another one
after it. `ForwardPacket` and `SendSegment` look up and send under
`routingtable_mutex`. While every call succeeds no cost rises: the code has no way to
withdraw a route.

Each query of `topology.c` leaves a descriptor open, so in the end `openDat` fails
(`SnpHost`). `starved` has the nodes whose SNP process is that far, `RunOut` brings
one there at any moment, and `MayStarve` names those it may happen to in a run.
The handler of such a node is `HandleUpdateStarved`: of the calls it makes for an
update any may fail, since `waitTransport` gives its own descriptor back now and then. A
`dvtable_setcost` that fails stores nothing; a `nbrcosttable_getcost` that fails
returns `INFINITE_COST`. With all of them failing the update is ignored. If the call in the
comparison (network.c:134) succeeds and the one in the assignment (135) fails, 999
plus a cost is written over an entry that was better, and the next hop is changed with
it. A process that faults after running out is a `Stop`.

* `links[m][n]` is one queue for three connections because the ON processes
  keep no packet: each thread takes a packet from one connection and writes it
  to the next. A node takes packets of different neighbours in any order.
* A packet is handed over whole. In the code a frame is three `send` calls
  and two threads of a process may write to one connection; that is `Framing`,
  and a packet that is damaged there would here be another packet.
* `entry[i]` of an update is taken for `dvEntry[i]` (network.c:133-134), which
  is right as long as all nodes read the same `topology.dat` in the same order:
  a vector is a function on the nodes, and that order is assumed.
* The overlay is connected before the first SNP process starts
  (`Overlay!ConnectedAtJoin`). A node that
  stops does not come back: `waitNetwork` and `waitNbrs` accept once. A process
  that dies of writing to a closed connection is a `Stop`.
* `left` in a packet is a history variable: no guard of the code reads it. It
  starts as the vector entry of the source when it sends, and every link
  takes its cost off.
* `sent` and `failures` bound the runs (`MaxPackets`, `MaxFailures`: a `Stop` or a
  `RunOut`), and `MaxUpdates` the updates on each link of a node. The daemon waits when a link is full of updates,
  as it would in `send`.

### How the other modules correspond to the code

`Framing`. `snp_sendseg`, `forwardsegToSRT`, `overlay_sendpkt`,
`forwardpktToSNP` and `sendpkt` are three `send` calls each: `SendStart`,
`SendBody`, `SendEnd`. Each `send` is one action and appends all its bytes;
between two of them other threads may write. (A `send` that waits for room in
the TCP buffer could be split as well; that mixes frames no worse.) The five
receiving functions contain the same automaton, and one iteration of it is one
action, by `state`. `snp_recvseg` after `seglost` or a bad checksum goes on in
its loop; it is in state 0 with `idx = 0` then, as after a return and a new
call. A byte is one of the three mark characters or `"x"`. It carries the number of its frame (`of`), which the automaton does not read;
`alone` has the frames that no other frame has met, and both are history.

`buf` is an array on the stack of the receiving function, as large as the
struct and two bytes (seg.c:52, 134; pkt.c:70, 146, 302). `BufSize` is that size,
and `BodiesAssumption` says that a body is at most the struct. The index is not
tested. `HasRoom` is that it is inside the array; without it the turn of the loop is
`Overrun`, after which the receiver does nothing more: the code has undefined behaviour
there. The `memcpy` of `idx - 2` bytes then stays inside the struct, because `idx` is at
most `BufSize`.
`Close` is the writing process going away (`network_stop`, exit of a program) and
`ReturnError` the receiver's `recv` that says so.

`Topology`. `Lines` are the lines of the file, host names replaced by node IDs.
The loops over the file are folds and selections over `Lines` in its order; two
processes that read the same file get the same arrays.

`Overlay`. `onPc[n]` is the main thread of the ON process of `n`; `awaited[n]` and
`connecting[n]` are the loops of `waitNbrs` and `connectNbrs`, over the
neighbours in the order of the table that `nt_create` fills. `backlog[n]` is the
kernel's queue: a `connect` succeeds as soon as the other side listens, before
its `accept`. `nt[n][m]` is the `conn` field of the entry for `m`; a connection is
named by its ends and by which of their processes these were, so that a connection
with a process that was stopped is told from one with its successor. `late` is
history: a `connect` was refused, a port was in use or a process was stopped.

`SnpHost`. `open` counts the descriptors of an SNP process. A ROUTE_UPDATE opens
`topology.dat` for each entry twice in `dvtable_setcost` and once or twice in
`nbrcosttable_getcost`, and nothing closes it. `waits` is the loop of
`waitTransport`. What the code does after an `accept` that returned -1 is a
choice: it faults, or it comes round to `accept` again.

## 3. Runs

| Run | Instance | What it checks |
|---|---|---|
| `srt_transfer` | window 2, three one-byte segments per `send`, two connections on the same sockets, one SYN retry and one FIN retry | the inductive invariant `Ind` of the proofs, `TypeOK`, `StreamIntegrity`, `SendBufferOK`, `TimerCoversUnacked`, `FreedWasAccepted`, `PeerConnected`, `ExpectNeverGoesBack`, `DisconnectMeansClosed`, and that `Srt` implements `ByteStream` |
| `srt_live` | window 1, two bytes, fairness | `DataIsAcknowledged`, `BytesAreReceived`, `ClientCallsReturn` |
| `snp_routes` | triangle whose direct link is dearer than the detour, all running, one packet, one node that may stop, up to two updates on a link | `VectorsInOrder`, `VectorIsMinimum`, `RouteAttains`, `NeverUnderestimates`, `SettledIsShortest`, `RoundByRound`, `NoLoops`, `WithinBudget`, `NoDeadEnd` |
| `snp_live` | three nodes in a line, fairness: with a packet, starting at any time; or without, all running, and one that may stop or the middle one run out of descriptors | `TypeOK`, `NeverUnderestimates`, `RightForGood`, `Converges`, `PacketsArrive` |
| `frames` | two writers, three frames, bodies that end in `!` or contain an end mark and a start mark, an array of eight bytes, a writing process that goes away once | `TypeOK`, `Resynchronised`, `LoneFramesArrive`, `LoneFrameFits` |
| `overlay` | the four hosts and five links of `network/topology.dat`, one stop and one restart, fairness | `TypeOK`, `ConnectedAtJoin`, `SameConnection`, `AllComeUp` |
| `sockets` | two client nodes and a server node, tables of two entries, one retry, five deployments of programs | `TypeOK`, `RightPeer`, `ServerHasLeft`, `OwnData` |
| `srt_timer` | as small as possible | refutes `TimerFindsHead` |
| `srt_reuse` | sockets reused after a failed `disconnect` | refutes `NoByteTwice` |
| `srt_calls` | one connection, fairness | refutes `ServerCallsReturn` |
| `frames_writers` | two writers, plain bodies | refutes `FramesIntact` |
| `snp_descriptors` | twenty descriptors, updates of two entries, fairness | refutes `NextIsServed` |

What the properties say, and why a test would hardly tell:

* `StreamIntegrity`, `ImplementsByteStream`: what the server has of a connection
  is the beginning of what was written on it. A counterexample needs a segment of
  an earlier connection or an early acknowledgement at the one moment it hurts.
* `TimerCoversUnacked`, `DataIsAcknowledged`, `BytesAreReceived`: a byte that was
  taken by `send` is always somebody's to resend; timers come and go on a test of
  `unAck_segNum` that is not locked.
* `PeerConnected`, `DisconnectMeansClosed`, and for several clients `RightPeer`,
  `ServerHasLeft`, `OwnData`: the two ends' opinions of the connection agree where
  the application relies on them, although duplicates of every segment arrive at
  every later time, also from another node or for another socket.
* `NoLoops`, `NoDeadEnd`, `WithinBudget`: at each moment of the convergence, not
  only at its end, and for a packet that is already under way.
* `RoundByRound`: convergence without a clock. However old the updates are that arrive,
  a node that has heard good ones from all its neighbours is one link better off.
* `RightForGood`: an entry that is right is never touched again, also by a handler
  whose calls fail. So running out of descriptors does not spoil routes that are there.
* `Resynchronised`, `LoneFramesArrive`: damage done by two threads to each other's
  frames, or by a process that ends inside a frame, stays with these frames, as long
  as what they leave fits into the receiver's array.
* `LoneFrameFits`: nothing but frames that were mixed overruns that array. It would fail if
  a frame that broke off, or one with marks in its body, left an index behind.
* `ConnectedAtJoin`, `SameConnection`, `AllComeUp`: the comment at overlay.c:243,
  and that the larger-to-smaller rule of connecting leaves no circle of waiting.

### Bounds

With a window of two there are always a first, a middle and a last
segment: a partial acknowledgement, a full window with a segment behind it, and
an empty window each occur. Two segments in each direction let a duplicate and
its original be on their way together, and a segment of the old connection
ahead of one of the new. Two connections are enough for every confusion of an
old with a new one; the third would meet only segments of the second, since the
ring order of section 5 leaves at most two adjacent ages on the path. A receive
buffer of three bytes holds two, so it fills up. `srt_live` has a window of one, in
which every acknowledgement moves the window and starts the next timer. Every
SRT run switches deadlock checking off because the system may stop: sockets are
closed, processes fault, retries and connections run out. The SNP runs check it.

In `sockets` two clients use the same port numbers on different nodes, so that only
the node tells them apart, and one client has two sockets to one server, so that
only the ports do; a table of two entries is full with the second socket, and
`Repeater` asks for a port in use. Two segments from each client, one towards it
and one retry let a SYN, a FIN or an answer survive the call that sent it. The run
stops when the programs have ended.

In `frames` a third frame meets what two mixed ones have left behind. The marks in
bodies are the shortest ones that could cut a frame or hide the next; longer
bodies add only more of the same bytes. The array of eight bytes has room for the
longest body and its end mark, as in the code, and is too small for most mixtures. `overlay` uses the repository's own
topology, in which one node has a larger and two smaller neighbours. In both
the system may stop: frames are used up, all nodes are up.

A triangle with a dear link has a route that changes while updates and packets
are under way. With three nodes the initial vectors already contain every path of
two links; vectors computed from vectors computed from vectors, for longer paths,
are the proofs' part (`NeverBelowCheapest`, `RestIsShortest`, `LoopFree`). Two updates
of A, whose vector changes, let one overtake the other, if queues allowed it; the
second is on its way only before the packet and before the failure (`SecondUpdateAlone`),
which keeps the run small. `snp_routes` begins with all nodes running (`RunningSpec`).

`snp_live` has two kinds of executions (`StartSpec`). In one no node runs at first, so
updates and packets arrive where no process listens yet. In the other a node fails:
the middle one has two neighbours to hear from, any moment may be the one at which it
runs out of descriptors, and any combination of its calls may fail then. On a line the next hops
of the middle node never change, so `PacketsArrive` is about progress there; that a change of
next hops does no harm to a packet on its way is `WithinBudget` and `NoDeadEnd` on the
triangle. The reference
`Shortest` of `SnpInvariants` computes cheapest paths by their number of links, from
the costs alone.

### Fairness

`Srt!Fairness`. Threads inside a call or a handler go on (weak
fairness: each is a running thread or one in `select`/`sleep` with a finite
timeout). `seghandler`'s steps and the timers' polls likewise. A segment that
is sent or answered for ever gets through in the end (strong fairness of the
resend, of saving the expected segment, of the answer and of its receipt):
`seglost` draws each loss independently. The applications are free to start
calls or not, except that the server's goes on receiving while it is connected;
without that a full receive buffer would rightly block the client.

`Snp!Fairness`. Weak fairness of starting each node's process, of
each daemon, whose `sleep` ends, and of the handler for each neighbour: the ON
process has a thread per neighbour. Nothing is assumed of the stop of a node, of
`RunOut` or of segments to send.

Fairness of the handler means that what has arrived is taken in the end. That it
has an effect is true only while `topology.dat` can be opened: the leak of section 4 ends
that for every SNP process. So `Converges` and `PacketsArrive` end where a process runs
out (`Interrupted`); they say what happens if the descriptors last long enough. How long that is, `RoundByRound` tells without a clock: as
many rounds of updates as there are nodes. A round takes `ROUTEUPDATE_INTERVAL` (5 s),
and an update costs a process three or four descriptors per entry. With the four nodes of
the repository's `topology.dat` a process that hears three neighbours uses at most 48 in
a round, so four rounds need fewer than 200. A node that is started after its
neighbours have run out is never learned.

`Overlay!Fairness`. Each node's process is started once, its threads go on, and
its SNP process is started when the ON process listens for it. Nothing is assumed
of a second start, which is somebody's decision.

`SnpHost!Fairness`. Updates come (every neighbour sends one each
`ROUTEUPDATE_INTERVAL`), and `waitTransport` goes on where it can; nothing is
assumed of the SRT processes. `NextIsServed` is refuted under it, so it is not the
lack of a step that keeps a process waiting.

## 4. What the code does not keep

* `srt_timer`: `sendBuf_timer` tests `unAck_segNum` (525) and dereferences
  `sendBufHead` (528) without the mutex. If `seghandler` frees the last
  acknowledged segment in between the client faults.
* `srt_reuse`: `srt_client_disconnect` that gives up (302-303) leaves
  `sendBufHead`, `unAck_segNum` and `next_seqNum`; its timers live on. After
  the next `connect` they resend the old segments on the new connection, where
  `expect_seqNum` starts at 0 again, and the server takes bytes that it had before.
* `srt_calls`: `accept` polls for `CONNECTED` only; a connection that is
  opened and closed between two polls leaves it waiting. `recv` looks at the state
  once; on a connection that is closed with fewer bytes than requested it polls
  for ever. `ServerCallsReturn` says neither happens; the two halves are
  `AcceptReturns` and `RecvReturns`.
* `frames_writers`: `routeupdate_daemon` sends without `routingtable_mutex`,
  `listen_to_neighbor` threads all write to `network_conn`, application, handler
  and timers of SRT to theirs. Two frames that are sent at the same time mix, and
  the receiver returns as a packet what nobody sent. If they are long, such as DATA of a
  timer (srt_client.c:465) and the FIN of `disconnect` (279), the mixture does not even fit
  into the 230 bytes of its array (seg.c:134), and it writes over its stack (`Overrun`).
* `snp_descriptors`: queries of `topology.c` leave `topology.dat` open. Some updates
  later `accept` fails in `waitTransport`, its result is not tested, and no further
  SRT process is served. (`topology_getMyNodeID`, called next, needs a descriptor too and
  may fault instead; `NextIsServed` does not count that.)

## 5. Proofs

### SRT

`SrtProofs` proves, for all values of the constants and under
`~ReuseAfterFailure`, that every safety property of the run `srt_transfer` holds
and that `Srt` implements `ByteStream` (theorem `Refinement`).

The properties are not inductive. `StreamIntegrity` alone does not exclude an
old DATA segment with the right sequence number; that it never meets a new
connection is a fact about the whole path. `SrtInvariants!Ind` adds:

* `RingOrdered`. The age of a segment is twice its connection, plus one unless
  it is a SYN or SYNACK. Read as a ring from the client's end of `toClient`
  round to the client's end of `toServer`, ages never fall: both queues are
  FIFO, the client appends segments of the newest age, and the server answers
  the segment it takes with one of the same age.
* `AgesInRange`. Once the client has seen the SYNACK of its connection nothing
  older than that connection is left on the path; once it has seen the FINACK
  no SYN or SYNACK of it either.
* `ServerConnected`, `ServerOpened`. A connected server is on the client's
  connection; if the client has a SYNACK, or one is on its way, and no FIN was
  sent, the server is connected; once the server expects a byte other than the
  first no SYN is on its way.
* `SendBufferSorted`, `BoundariesOnPath`. Whatever is acknowledged is a segment
  boundary of the send buffer: below the head, at a segment that waits, or at
  the first unsent one. That is why an acknowledgement frees only what was sent
  and accepted.
* `ServerStream`, `ClientPhases`, `Contents`: what each end holds in each of
  its states, and what kinds of segments travel in which direction.

`SrtLemmas` proves what appending to and taking from a queue does to this
order. `SrtClientProofs` and `SrtServerProofs` have one lemma per action, with one step per conjunct of `Ind`. `SrtProofs` combines them:
`InitInd`, `NextInd`, `Invariance`, and then one theorem per property. The
assumptions are the named `ASSUME`s of `SrtSegments`, `SrtClient` and
`SrtServer`: the sizes are positive integers.

### SNP

`SnpProofs` proves the invariants of `SnpInvariants` for every topology that
meets `CostAssumption` (costs are the same in both directions, 0 only from a
node to itself, at most `INFINITE_COST`), any number of packets, of updates in
flight and of stops. Those of them that a failing table function breaks are stated
as long as every process can open `topology.dat`: `[](starved = {} => ...)`. These are
`VectorsInOrder`, `VectorIsMinimum`, `RouteAttains`, `WithinBudget`, `NoLoops`, `NoDeadEnd`,
`SettledIsShortest` and `RoundByRound`. `TypeOK`, `NeverUnderestimates` and `RightForGood` hold
in any case. `starved` never shrinks (`StarvedStays`), so the first part is an induction over the
steps of the other actions. `IInv` is the conjunction of `Bounded` (no cost exceeds
`INFINITE_COST`), `VectorsInOrder`, `VectorIsMinimum`, `RouteAttains` and `WithinBudget`. The
argument:

* Costs only fall and the links are FIFO, hence `VectorsInOrder`: what a node
  holds of a neighbour, what is on its way and what the daemon has copied are
  each at least the neighbour's own vector. (`NoNewUpdate` and `OrderKept`
  treat all the steps that send no update.)
* `VectorIsMinimum` and `RouteAttains` follow for `HandleUpdate` because the
  new row is below the old one, and `dv[n]` is lowered to what it offers.
* Together they give `RouteDescends`: the vector of the next hop is lower by
  at least the link. So a packet that is forwarded keeps its budget
  (`BudgetAfterHop`), whatever changed since it was sent. And along a loop the
  costs would strictly fall: in any set of nodes the one with the least cost,
  which exists because the naturals are well-founded, points out of the set
  (`LoopsExcluded`). A finite budget means a finite cost, hence a next hop
  (`DeadEndsExcluded`).

Correctness of the costs. The reference `Dist` is what the cheapest paths cost,
computed by their number of links. The proofs reach it by way of `Potentials`,
the tables that are 0 from a node to itself and are bounded by every link and by
every link followed by the neighbour's entry.
`NeverTooCheap` proves that no vector ever falls below any of them. Its invariant
`Sound(D)` says more: neither vectors nor the daemons' copies nor updates on their way are below
the table `D`. What a handler makes of an update that is not below `D` is not below it
either (`OfferAbove`), whichever of its calls fail, because a failing
`nbrcosttable_getcost` returns more than any link costs; so `Sound` needs no assumption on
descriptors, and no order of updates. `RightStaysRight` follows: nothing that arrives can be
below an entry that equals `Dist`, so the comparison fails. `SettledSolves` proves that the vectors of a network at rest are such a table
themselves, and that along the next hops the way costs exactly what they say.
`DistIsGreatest` ties both to the reference, for any finite set of nodes
(`NodesAssumption`): `Dist` is one of the `Potentials` and no other is above it. A
greatest one exists (`GreatestExists`, entry by entry), and each of its entries is the
link or the offer of some neighbour (`GreatestAttained`). No round of the recursion
gets below it (`RoundsAbove`). That as many rounds as there are nodes reach it is the
hard half (`RoundsReach`): after k rounds the entry of a node is final if k or fewer
others are nearer to the destination, because the neighbour whose offer it is is
nearer, links costing more than 0. These are inductions over the naturals, spelled out
with `Least`, the least number of a set. `NeverBelowCheapest` (`NeverUnderestimates`) and
`RestIsShortest` (`SettledIsShortest`) follow. `ConvergesByRounds` needs
`VectorIsMinimum`: a vector is at most what each row offers, and a round of the recursion is
the minimum of just these offers (`RoundsSupported`); where the costs are as low as `Dist`
they are equal to it, and the next hops are on cheapest paths (`RightWhenLow`).

`OverlayProofs!CostsSuitRouting` proves `CostAssumption` of what
`topology_getCost` returns, from a `topology.dat` whose lines join two different
hosts at a positive cost of at most `INFINITE_COST` (`WellFormed`), even if a pair
of hosts has several lines, in either order.

### Sockets

`SrtSocketsProofs` proves the four properties of the run `sockets` for any number of
clients, table entries, ports, retries and segments on the way, and for any programs
that create a socket before they use it (`DeploymentsAssumption`;
`SocketsAssumption` says that the server is no client and that the sizes are
numbers). `IInv` is `TypeOK` and

* `OnePort`: no two TCBs of a table have the same port, because `NewTcb` refuses a
  port in use. That `NewTcb` finds the first free entry if there is one is proved
  from the well-foundedness of the naturals.
* `Created`, `InCall`: the calls that are left use sockets that exist by then, and a
  process inside a call has its socket in one of the states that call waits in.
* `Buffers`: only a connection fills a receive buffer, with its client's data.
* `Agreed`: for each client that runs, while the server does, `Consistent`.

`Consistent` is about order on the way, for each pair of ports (`NeverAfter`,
`Holds`), and depends on the state of the client's socket.

* `Opening` (SYNSENT): no FIN of an earlier connection comes behind a SYN of this
  one, and none is on its way once the server is connected; a SYNACK means that the
  server is; no FINACK comes behind it.
* `Open` (CONNECTED): the server is connected and neither a FIN nor a FINACK
  between these ports is on its way.
* `Closing` (FINWAIT): no SYN comes behind the FIN, no SYNACK behind the FINACK,
  and once the server has answered a FIN no SYN that is left could open the
  connection again.
* `OnlyAttached`: a SYN, a SYNACK and a connected TCB of the server all belong to a
  socket of the client that is not CLOSED. This is what makes a port free to be
  used again by the client's next socket.

`RightPeer`, `ServerHasLeft` and `OwnData` need them because a duplicate of each
segment may arrive at every later time. `Ended`, which is proved apart, says that a
process that is gone has no TCB left. The lemmas up to `Quieter` say which of these
facts taking from a queue, appending to it and dropping from it keep.

### Overlay

`OverlayProofs` proves `TypeOK`, `ConnectedAtJoin` and `SameConnection` for every
`topology.dat` that names each link once (`LinksOnce`), any number of starts and
stops, and any order of the processes' steps. First `TablesMatch`: each neighbour
is in a node's table once, the node itself never, and m is in the table of n just
when n is in that of m. It is about loops over the file, which are folds in
`Topology`. `LoopRuns` shows that a fold is a run of a loop, and what holds of the
run after each line is proved by `Induction`, an induction over a set of naturals.

The inductive invariant says, apart from types and program counters:

* `ConnsOK`: what is in the backlog or the table of a node is a connection between it
  and the node that it is entered for.
* `InTime`: as long as nobody was late or stopped, every process was started at most
  once and went through the whole of `connectNbrs`.
* `IfStartedOnce`: as long as no process was started twice, a smaller neighbour that
  was dealt with and runs is in the table (`EnteredBelow`), and so is a larger one
  that has connected and is no longer in the backlog (`EnteredAbove`).
* `AcceptsCounted`: `waitNbrs` has not gone past more entries than there are larger
  neighbours whose connection has left the backlog. A node past the join has gone past
  all of them, hence each one of them is entered. This is the counting the code
  relies on: it accepts as many connections as it has larger neighbours and does not
  ask beforehand whose they are.

### Framing

`FramingProofs` proves the four properties of the run `frames` for any number of
writers, of frames and of crashes. Of the bodies it assumes that they are not empty
and do not begin with `!#`, and that `BufSize` leaves room for each and an end mark
(`BodiesAssumption`): each begins with a node ID, which is
the last number of an address, -1 or `BROADCAST_NODEID` (9999), as four bytes, so
its second byte is never `#`. A body that did begin so would be returned as an empty
one, which says no longer whose it was.

`Resynchronised` speaks of the
moment when all is read. The strengthening `IInv` says what must be true before:
when no writer is inside a frame, what is left to read ends in `!#`
(`EndsWithMark`), and if only the last `#` is left the automaton is not in state 2,
from which it would not be an end. `SendEndStep` establishes it, `TakeKeepsMark` is
what reading a byte does to it, and each state of the automaton has a lemma.
`BufInFrame` is that nothing is kept between frames.

`LoneFramesArrive` needs to know where the bytes of a frame that met no other are at
every moment (`LoneInv`):

* `Lone`: r bytes of the frame have been read and the rest follows without a gap
  after p bytes of other frames, or has still to be sent. As long as p is not 0
  what comes before ends like the stream in `EndsWithMark` (`MarkBefore`), which
  the frame's start inherits from it. While r is between the start mark and the
  first end mark, `buf` is exactly what was read of the body and the state is 3
  just after a `!` (`Receiver`); afterwards the frame is among the returned ones.
* `OneWriter`: one thread sends it and no other is inside a frame.
* `Ordered`: the bytes of two such frames do not overtake each other, on the
  connection, in `buf` and among the returned ones. `TagsStarted` says that bytes belong
  to frames that were started.

`GoesOn` and `LoneSendStart` are the writers' steps, `TurnBefore`, `TurnIn` and
`TurnAfter` a byte read before, in and after the frame. Where the first end mark
of a body is, and that the receiver stops there, is `CutFacts` and `TextFacts`.

Nothing is said of a receiver that has written behind its array: it stops in the model,
and `Resynchronised` and `LoneFramesArrive` have `~overrun` as a premise. That no frame on
its own does it is `LoneFramesFit`: when the receiver comes to a frame that met no other
the array is empty, and then it holds no more than what was read of its body; behind an end
mark in the body, no more than what was read since that mark (last part of `Receiver`).

### Only model-checked

The liveness properties, which need fairness, and the five refuted claims. (Of the
convergence of SNP the part that needs no fairness is proved, as `ConvergesByRounds`.) Every
invariant and every action property that a passing run checks is a theorem.

## 6. Not modelled

* The arithmetic of `checksum` and `checkchecksum`. A corrupted segment is
  dropped in the models. If a bit of `length` flips, `checkchecksum` reads memory
  behind the segment (seg.c:325), and what it finds there is no part of any model.
* What a process does after it has written behind the array of a receiving function
  (`Framing!Overrun`): its index, its state and its return address may be lost. The results
  about frames hold up to that moment. Nor what the fields of a mixed frame do that
  fits and is taken for a packet: a wild `header.length` is the length of the `memcpy` in
  network.c:123 and 109, and `Snp` has only packets that somebody sent.
* Routes after the descriptors have run out. Updates are ignored, and one that is half
  applied may raise a cost (network.c:134 succeeds, 135 fails); from then on a loop is
  possible. `NeverUnderestimates` and `RightForGood` are what is left, and the other
  properties of `Snp` are not claimed.
* TCP buffers that are full. `pkthandler` sends with `routingtable_mutex` held
  (network.c:115), so two SNP and two ON processes whose buffers are all full
  would wait for each other. That needs many kilobytes on four connections at once.
* A path that reorders. While routes change a later segment may overtake an
  earlier one (network.c:137). SRT numbers the bytes of each connection from 0, so
  an old DATA segment with the right number would be taken; the results of section
  5 hold for settled routes.
* Node -1. Between lines 290 and 293 of srt_client.c a timer may send to node -1,
  and `routingtable_getnextnode` reads `hash[-1]`. `Srt` takes the segment as lost;
  that the SNP process may fault there is listed as a hazard.
* 32-bit wrap-around of sequence numbers (4 GB on one connection), and the units in
  which `sentTime` is computed: the timers of `Srt` resend or not at every poll.
* The chains of the routing table's hash; the table is a function. More than 20
  hosts in `topology.dat`. DNS lookups.
* In `SrtSockets`: two application threads in one process, several server nodes,
  a server process that is started again. A client that is started again would be
  the next client on that node.
* Printing, reading and writing the test file, freeing of memory at the end of a
  process.
