------------------------------ MODULE MCLflash ------------------------------
(* Lflash with two formatted blocks, one in a scrambled partition and one  *)
(* in a partition with the code 0, and a block that was never formatted.   *)
EXTENDS Lflash

CONSTANTS a, b, k1, k2
MCRuns == [l \in Lb |-> IF l = a THEN {{1}, {0, 1}} ELSE {{}}]
MCScramble == [l \in Lb |-> CASE l = a -> k1 [] l = b -> NoCode [] OTHER -> k2]
=============================================================================
