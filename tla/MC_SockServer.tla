---------------------------- MODULE MC_SockServer ----------------------------
(* SockServer with two clients. *)
EXTENDS SockServer

CONSTANTS c1, c2

MCClients == {c1, c2}

=============================================================================
