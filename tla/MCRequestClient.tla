---------------------------- MODULE MCRequestClient ----------------------------
(* Instances of RequestClient: three requests. *)
EXTENDS RequestClient

CONSTANTS r1, r2, r3

ThreeDraws == <<r1, r2, r3>>
BothWays == {-1, 2}
================================================================================
