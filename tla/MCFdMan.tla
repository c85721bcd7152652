------------------------------ MODULE MCFdMan ------------------------------
(* FdMan with one standard descriptor, for TLC. *)
EXTENDS FdMan

CONSTANT h0
MCStdHandle == [f \in {0} |-> h0]
=============================================================================
