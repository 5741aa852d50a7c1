---- MODULE MCSrtSockets ----
(***************************************************************************)
(* Two clients and a server.  They run the four applications, and two      *)
(* programs more that the API allows: a client that takes one socket to    *)
(* two ports in turn, and a server that accepts on one socket again.  The  *)
(* last call of each of the two fails.                                     *)
(***************************************************************************)
EXTENDS SrtSockets

CONSTANTS first, second, server

BothClients == {first, second}

Switcher ==
    << Call("sock", 1, 87), Call("connect", 1, 88), Call("send", 1, 0),
       Call("disconnect", 1, 0), Call("connect", 1, 90),
       Call("disconnect", 1, 0), Call("disconnect", 1, 0) >>

Repeater ==
    << Call("sock", 1, 88), Call("accept", 1, 0), Call("accept", 1, 0),
       Call("sock", 2, 88) >>

Deploy(program1, program2, serverProgram) ==
    [n \in {first, second, server} |->
       CASE n = first -> program1 [] n = second -> program2 [] n = server -> serverProgram]

MCDeployments ==
    { Deploy(StressClient, StressClient, StressServer),
      Deploy(SimpleClient, StressClient, SimpleServer),
      Deploy(Switcher, StressClient, SimpleServer),
      Deploy(SimpleClient, Switcher, SimpleServer),
      Deploy(Switcher, StressClient, Repeater) }
====
