-------------------------------- MODULE MCRadio --------------------------------
(* Radio with three configurations: one of each band, and one of the        *)
(* sub-GHz band with a channel that this band does not have.                *)
EXTENDS Radio

CONSTANTS first, second, refused

OneOfEach == [c \in Configs |-> IF c = second THEN "24" ELSE "09"]
================================================================================
