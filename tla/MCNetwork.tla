----------------------------- MODULE MCNetwork -----------------------------
(* Small programs on one loop: a server with one, two and three connections  *)
(* for three descriptors, one of which is the server's own, and a server     *)
(* next to a client or a UDP socket.                                         *)
EXTENDS Network

Program(kinds, ports, messages, posts, asks) ==
    [kinds |-> kinds, ports |-> ports, messages |-> messages, posts |-> posts, asks |-> asks]

MCPrograms ==
    {Program(<<"accepted", "none", "none">>, BOOLEAN, 2, 1, 3),
     Program(<<"accepted", "accepted", "none">>, {TRUE}, 1, 1, 2),
     Program(<<"accepted", "accepted", "accepted">>, {TRUE}, 1, 0, 1),
     Program(<<"none", "client", "none">>, {TRUE}, 1, 1, 2),
     Program(<<"accepted", "client", "none">>, {TRUE}, 1, 0, 1),
     Program(<<"accepted", "udpserver", "none">>, {TRUE}, 1, 1, 2),
     Program(<<"none", "udpserver", "none">>, {TRUE}, 1, 1, 2),
     Program(<<"none", "udpclient", "none">>, {TRUE}, 1, 1, 3)}
=============================================================================
