------------------------------ MODULE MCLibcFd ------------------------------
(* LibcFd with one standard descriptor, for TLC. *)
EXTENDS LibcFd

CONSTANT u0
MCStdUid == [f \in {0} |-> u0]
=============================================================================
