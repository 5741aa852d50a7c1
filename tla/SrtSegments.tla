---- MODULE SrtSegments ----
(***************************************************************************)
(* The segments of the Simple Reliable Transport (SRT) protocol and the    *)
(* path they travel (common/seg.h, common/seg.c).                          *)
(*                                                                         *)
(* A segment keeps the header fields the two protocol machines branch on.  *)
(* Its payload is abstracted to the connection it was written on: the byte *)
(* with sequence number p written on connection c is the pair <<c, p>>, so *)
(* two payload bytes are equal exactly if they are the same byte.          *)
(*                                                                         *)
(* The path is SRT -> local SNP process -> overlay ... -> SNP -> SRT, TCP  *)
(* streams all the way, so it is FIFO while routes do not change; seglost  *)
(* then discards a segment, or flips one of its bits and checkchecksum     *)
(* discards it.  Both are the loss of the segment at the head.             *)
(***************************************************************************)
EXTENDS Integers, Sequences

CONSTANT MaxInFlight        \* bound: segments on their way in one direction

ASSUME MaxInFlightAssumption == MaxInFlight \in Nat \ {0}

VARIABLES
    toServer,               \* segments on their way from client to server
    toClient                \* segments on their way from server to client

path == <<toServer, toClient>>

SegTypes == {"SYN", "SYNACK", "FIN", "FINACK", "DATA", "DATAACK"}

Segments == [type : SegTypes, seq_num : Nat, ack_num : Nat,
             length : Nat, conn : Nat]

\* SYN, SYNACK, FIN and FINACK: bzero and then the type; no payload.
Control(type, conn) ==
    [type |-> type, seq_num |-> 0, ack_num |-> 0, length |-> 0, conn |-> conn]

Data(seq, length, conn) ==
    [type |-> "DATA", seq_num |-> seq, ack_num |-> 0,
     length |-> length, conn |-> conn]

DataAck(ack, conn) ==
    [type |-> "DATAACK", seq_num |-> 0, ack_num |-> ack,
     length |-> 0, conn |-> conn]

\* The bytes a DATA segment carries.
Payload(seg) == [i \in 1..seg.length |-> <<seg.conn, seg.seq_num + i - 1>>]

\* snp_sendseg of each of segs in turn.  The path is lossy, so dropping what
\* does not fit under the bound is one of the things seglost may do anyway.
EnqueueInFront(queue, segs) ==                                  \* mutant
    LET all == segs \o queue
    IN  SubSeq(all, 1, IF Len(all) < MaxInFlight THEN Len(all) ELSE MaxInFlight)
Enqueue(queue, segs) ==
    LET all == queue \o segs
    IN  SubSeq(all, 1, IF Len(all) < MaxInFlight THEN Len(all) ELSE MaxInFlight)

PathInit ==
    /\ toServer = << >>
    /\ toClient = << >>

\* snp_recvseg on either side: seglost drops the segment or corrupts it.
LoseToServer ==
    /\ toServer /= << >>
    /\ toServer' = Tail(toServer)
    /\ UNCHANGED toClient

LoseToClient ==
    /\ toClient /= << >>
    /\ toClient' = Tail(toClient)
    /\ UNCHANGED toServer

PathTypeOK ==
    /\ toServer \in Seq(Segments)
    /\ toClient \in Seq(Segments)
    /\ Len(toServer) <= MaxInFlight
    /\ Len(toClient) <= MaxInFlight
====
