------------------------------ MODULE FdTable ------------------------------
(***************************************************************************)
(* What a program may expect of descriptors: open hands out a descriptor   *)
(* that nobody holds, bound to a kernel handle that no other descriptor    *)
(* names; the binding never changes until the program closes it.           *)
(***************************************************************************)
CONSTANTS FD, Handles, StdHandle, None

VARIABLE table   \* [FD -> Handles \cup {None}]: the handle a descriptor names

Init == table = [f \in FD |-> IF f \in DOMAIN StdHandle THEN StdHandle[f]
                                                        ELSE None]

Open(f, h) ==
  /\ table[f] = None
  /\ \A g \in FD : table[g] # h
  /\ table' = [table EXCEPT ![f] = h]

Close(f) ==
  /\ table[f] # None
  /\ table' = [table EXCEPT ![f] = None]

Next == \E f \in FD : Close(f) \/ \E h \in Handles : Open(f, h)

Spec == Init /\ [][Next]_table
=============================================================================
