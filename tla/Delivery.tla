-------------------------------- MODULE Delivery -------------------------------
(****************************************************************************)
(* What the segmentation layer of kaonic-net promises to the code above it: *)
(* every frame handed up is one transmitted message, whole, in order and    *)
(* unmixed with any other.  Messages may be lost, repeated and reordered.   *)
(****************************************************************************)
EXTENDS Naturals, Sequences

CONSTANTS
  Messages,       \* calls of Network::transmit
  Renderings      \* for each message, the frames that are readings of it

VARIABLES
  sent,           \* messages transmitted so far
  delivered       \* frames handed to the receiver, in order

Init ==
  /\ sent = {}
  /\ delivered = <<>>

Transmit(m) ==
  /\ sent' = sent \cup {m}
  /\ UNCHANGED delivered

Deliver(m) ==
  /\ m \in sent
  /\ \E f \in Renderings[m] : delivered' = Append(delivered, f)
  /\ UNCHANGED sent

Next == \E m \in Messages : Transmit(m) \/ Deliver(m)

Spec == Init /\ [][Next]_<<sent, delivered>>
================================================================================
