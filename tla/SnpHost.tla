---- MODULE SnpHost ----
(***************************************************************************)
(* The file descriptors of one SNP process (network/network.c).            *)
(* waitTransport takes one for each SRT process and gives it back; every   *)
(* query of topology.c the tables make opens topology.dat and does not     *)
(* close it.                                                               *)
(***************************************************************************)
EXTENDS Integers

CONSTANTS
    OPEN_MAX,       \* descriptors a process may have
    StartUp,        \* those open once waitTransport is in its first accept:
                    \* overlay_conn, listenfd, the one accept has taken, and
                    \* what creating and printing the tables has left open
    EntryNum        \* entries of a route update

VARIABLES
    open,           \* descriptors in use
    waits,          \* waitTransport: about to call accept, in accept, serving
    srt             \* the local SRT process

vars == <<open, waits, srt>>

Init == open = StartUp /\ waits = "accept" /\ srt = "none"

\* The table functions pkthandler calls for one ROUTE_UPDATE open the file
\* twice per entry in dvtable_setcost and once or twice in
\* nbrcosttable_getcost; openDat fails when there is no descriptor left.
HandleUpdate ==
    /\ \E opened \in 3 * EntryNum .. 4 * EntryNum :
         open' = IF open + opened <= OPEN_MAX THEN open + opened ELSE OPEN_MAX
    /\ UNCHANGED <<waits, srt>>

\* accept takes its descriptor first and then waits for a connection; a kernel
\* may do it the other way round, which leaves updates more time to take it.
CallAccept ==
    /\ waits = "calling" /\ open < OPEN_MAX
    /\ open' = open + 1
    /\ waits' = "accept"
    /\ UNCHANGED srt

\* Without a descriptor it returns -1, which is not tested: getMyNodeID, which
\* needs one as well, may dereference NULL, or getsegToSend fails on
\* descriptor -1, and the loop calls accept again.
AcceptFails ==
    /\ waits = "calling" /\ open = OPEN_MAX
    /\ waits' \in {"calling", "faulted"}
    /\ UNCHANGED <<open, srt>>

Accept ==
    /\ waits = "accept" /\ srt = "connecting"
    /\ waits' = "serving" /\ srt' = "served"
    /\ UNCHANGED open

\* getsegToSend returns -1 when the SRT process has closed the connection.
CloseTransport ==
    /\ waits = "serving" /\ srt = "closed"
    /\ open' = open - 1
    /\ waits' = "calling" /\ srt' = "none"

\* The SRT process: connectToNetwork and disconnectToNetwork.
ConnectToNetwork == srt = "none" /\ srt' = "connecting" /\ UNCHANGED <<open, waits>>
DisconnectToNetwork == srt = "served" /\ srt' = "closed" /\ UNCHANGED <<open, waits>>

waitTransport == CallAccept \/ AcceptFails \/ Accept \/ CloseTransport

Next ==
    /\ waits /= "faulted"
    /\ HandleUpdate \/ waitTransport \/ ConnectToNetwork \/ DisconnectToNetwork

\* Both threads of the SNP process go on: updates come every
\* ROUTEUPDATE_INTERVAL, and waitTransport takes what there is to take.  It may
\* call accept in vain for ever.
Fairness ==
    /\ WF_vars(HandleUpdate)
    /\ WF_vars(CallAccept) /\ WF_vars(Accept) /\ WF_vars(CloseTransport)

Spec == Init /\ [][Next]_vars /\ Fairness

\* "When a local SRT process is disconnected, this function waits for the next
\* SRT process to connect": one that connects is served, unless the process
\* has faulted.
NextIsServed ==
    (srt = "connecting") ~> (srt = "served" \/ waits = "faulted")
====
