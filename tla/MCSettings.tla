------------------------------ MODULE MCSettings ------------------------------
EXTENDS Settings

C(f, ch, w) == [freq |-> f, spacing |-> 200, channel |-> ch, filter |-> w]

(* Narrow with a filter, the other band without one, on a channel that gRPC *)
(* cuts to 5, and a frequency between the bands.                            *)
SomeConfigs == {C(869, 5, 0), C(2450, 300, 0), C(915, 65541, 1), C(1500, 5, 2)}

(* The first, which only gRPC carries, comes to option 0. *)
SomeModulations == {[phy |-> "qpsk", opt |-> 5, power |-> 40], [phy |-> "fsk", opt |-> 0, power |-> 0]}

FewConfigs == {C(869, 5, 0)}
FewModulations == {[phy |-> "off", opt |-> 0, power |-> 0]}
================================================================================
