--------------------------------- MODULE Muxer ---------------------------------
(****************************************************************************)
(* The reassembly table of kaonic-net (kaonic-net/src/muxer.rs).            *)
(*                                                                          *)
(* A table of Q slots (struct Muxer), each collecting up to R segments of   *)
(* one packet (struct PacketMuxer).  A slot is an array of R packets and a  *)
(* count: releasing a slot only zeroes the count, so the entries behind it  *)
(* keep whatever an earlier packet left there.  The operators below are the *)
(* methods of the two structs, as functions of the slot or of the table.    *)
(****************************************************************************)
EXTENDS Naturals, FiniteSetsExt

CONSTANTS
  R,        \* segments a slot can hold (const generic R)
  Q,        \* slots of the table (const generic Q)
  Timeout   \* milliseconds, here ticks, a slot survives without a new segment

(* Header::pack keeps seq and seq_count in four bits each, so no            *)
(* instantiation with more than 15 segments can be told apart on the wire.  *)
ASSUME RAssumption       == R \in 1..15
ASSUME QAssumption       == Q \in Nat \ {0}
ASSUME TimeoutAssumption == Timeout \in Nat

Slots == 1..Q

--------------------------------------------------------------------------------
(* PacketMuxer.  A packet is a record with at least id, seq and seq_count;  *)
(* it stands for its payload too.                                           *)

EmptySlot(blank) ==
  [packets |-> [i \in 1..R |-> blank], count |-> 0, last_update_time |-> 0]

IsEmpty(slot) == slot.count = 0

(* The collected entries, those below the count. *)
Collected(slot) == {slot.packets[i] : i \in 1..slot.count}

(* Mutant: a segment already collected is taken again. *)
AcceptsRepeats(slot, p) ==
  /\ slot.count < R
  /\ p.seq_count <= R
  /\ \A i \in 1..slot.count : slot.packets[i].id = p.id

(* push takes a packet unless the slot is full, the packet needs more       *)
(* segments than a slot has, or an entry is of another packet or is a       *)
(* segment already collected.                                               *)
Accepts(slot, p) ==
  /\ slot.count < R
  /\ p.seq_count <= R
  /\ \A i \in 1..slot.count :
       slot.packets[i].id = p.id /\ slot.packets[i].seq # p.seq

Pushed(slot, now, p) ==
  [packets          |-> [slot.packets EXCEPT ![slot.count + 1] = p],
   count            |-> slot.count + 1,
   last_update_time |-> now]

(* The packets array is not cleared. *)
Released(slot) == [slot EXCEPT !.count = 0, !.last_update_time = 0]

(* network_time_elapsed is strict. *)
TimedOut(slot, now) == now > slot.last_update_time + Timeout

(* Mutant: one segment early. *)
CanAssembleEarly(slot) ==
  slot.count # 0 /\ slot.count + 1 >= slot.packets[1].seq_count

CanAssemble(slot) ==
  /\ slot.count # 0
  /\ slot.count >= slot.packets[1].seq_count

(* assemble looks for segment k in the whole array, stale entries included, *)
(* and takes the first match.                                               *)
Matches(slot, k) == {i \in 1..R : slot.packets[i].seq = k}

AssembleSucceeds(slot) ==
  \A k \in 0..(slot.count - 1) : Matches(slot, k) # {}

Assembled(slot) ==
  [k \in 0..(slot.count - 1) |-> slot.packets[Min(Matches(slot, k))]]

--------------------------------------------------------------------------------
(* Muxer. *)

(* The slots the first loop of multiplex tries: those collecting the same   *)
(* packet whose push accepts it.                                            *)
Joinable(queue, p) ==
  {i \in Slots : /\ ~IsEmpty(queue[i])
                 /\ queue[i].packets[1].id = p.id
                 /\ Accepts(queue[i], p)}

(* The slots the second loop can use: empty, or timed out and then released. *)
Reusable(queue, now) ==
  {i \in Slots : IsEmpty(queue[i]) \/ TimedOut(queue[i], now)}

(* release_expired; the second loop of multiplex runs through the whole     *)
(* table the same way when no slot takes the packet.                        *)
ReleaseExpired(queue, now) ==
  [i \in Slots |-> IF TimedOut(queue[i], now) THEN Released(queue[i])
                                              ELSE queue[i]]

(* An oversized packet is refused by every slot, after the second loop has  *)
(* released every expired one; when no slot is free the packet is dropped   *)
(* (TryAgain, which Network::receive ignores).                              *)
Multiplex(queue, now, p) ==
  LET join  == Joinable(queue, p)
      reuse == Reusable(queue, now)
  IN  IF join # {}
      THEN [queue EXCEPT ![Min(join)] = Pushed(@, now, p)]
      ELSE IF p.seq_count > R
      THEN ReleaseExpired(queue, now)
      ELSE IF reuse # {}
      THEN [queue EXCEPT ![Min(reuse)] = Pushed(Released(@), now, p)]
      ELSE queue

Ready(queue) == {i \in Slots : CanAssemble(queue[i])}

(* process tries the first complete slot only. *)
ProcessYields(queue) ==
  /\ Ready(queue) # {}
  /\ AssembleSucceeds(queue[Min(Ready(queue))])

(* Mutant: process does not release the slot. *)
ProcessKeepsSlot(queue) == queue

Process(queue) ==
  IF ProcessYields(queue)
  THEN [queue EXCEPT ![Min(Ready(queue))] = Released(@)]
  ELSE queue

ProcessFrame(queue) == Assembled(queue[Min(Ready(queue))])
================================================================================
