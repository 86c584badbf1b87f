------------------------------- MODULE MCHub --------------------------------
(* Hub on a small instance. *)
EXTENDS Hub

CONSTANTS c1, u1, feed

\* The connection is of the user u1.
MCUserOf == [c \in Clients |-> u1]
MCUserRoom == [u \in Users |-> <<"user", u>>]
=============================================================================
