---- MODULE ByteStream ----
(***************************************************************************)
(* What SRT promises (README.md: "reliable in-order byte streams"): the    *)
(* writer opens one connection after another and writes bytes on it; the   *)
(* reader takes up a connection and its stream grows by the next bytes     *)
(* written on it, none missing, none repeated, none of another connection. *)
(* The reader may stop at any time, and may never get the last bytes.      *)
(***************************************************************************)
EXTENDS Integers, Sequences

VARIABLES
    wconn,                  \* the connection the writer is on
    written,                \* bytes written on it
    rconn,                  \* the connection the reader is on
    stream                  \* the bytes the reader's side has

streamVars == <<wconn, written, rconn, stream>>

StreamInit ==
    /\ wconn = 0 /\ written = 0
    /\ rconn = 0 /\ stream = << >>

Write ==
    /\ written' > written
    /\ UNCHANGED <<wconn, rconn, stream>>

NextConnection ==
    /\ wconn' = wconn + 1
    /\ written' = 0
    /\ UNCHANGED <<rconn, stream>>

\* The reader starts on the writer's connection with nothing received.
TakeUp ==
    /\ stream = << >>
    /\ rconn' = wconn
    /\ UNCHANGED <<wconn, written, stream>>

\* The next bytes of the connection, as far as they have been written.
Grow ==
    /\ rconn = wconn
    /\ Len(stream) < Len(stream')
    /\ Len(stream') <= written
    /\ stream' = stream \o [i \in 1..(Len(stream') - Len(stream)) |->
                               <<rconn, Len(stream) + i - 1>>]
    /\ UNCHANGED <<wconn, written, rconn>>

Stop ==
    /\ stream' = << >>
    /\ UNCHANGED <<wconn, written, rconn>>

StreamNext == Write \/ NextConnection \/ TakeUp \/ Grow \/ Stop

StreamSpec == StreamInit /\ [][StreamNext]_streamVars
====
