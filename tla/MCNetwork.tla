------------------------------- MODULE MCNetwork -------------------------------
(****************************************************************************)
(* Instances of Network for TLC.  Two of the messages take two segments,    *)
(* so that their segments interleave in the table; the third takes one, or  *)
(* three where a packet too long for the receiver is wanted.                *)
(****************************************************************************)
EXTENDS Network, TLC

CONSTANTS m1, m2, m3

ShortSegCount == [m \in Messages |-> IF m = m3 THEN 1 ELSE 2]
LongSegCount  == [m \in Messages |-> IF m = m3 THEN 3 ELSE 2]

Symmetry == Permutations(Messages \ {m3})
================================================================================
