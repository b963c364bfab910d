----------------------------- MODULE NetworkProofs -----------------------------
(****************************************************************************)
(* Theorems about Network, for every set of messages, every table size and  *)
(* timeout, every bound on copies and time, and a medium that may lose,     *)
(* duplicate, reorder and damage datagrams while the clock may be set back. *)
(*                                                                          *)
(* The argument: the collected entries of a slot are datagrams of one sent  *)
(* message with pairwise different sequence numbers (WellFormed).  A slot   *)
(* whose count reaches seq_count therefore holds every sequence number once *)
(* (pigeonhole), so assemble succeeds, finds each segment below the count   *)
(* and never reads a stale entry.  A receive fills at most one slot, and    *)
(* process empties it in the same call, so no complete slot is ever left.   *)
(* What a frame takes from the table, the table has collected from arrivals *)
(* (ReceivePays).  Without duplicates only one slot collects a message, so  *)
(* the last missing segment finds it (UniqueInv, LastSegmentStep).          *)
(****************************************************************************)
EXTENDS Network, FiniteSetTheorems, WellFoundedInduction, TLAPS

SlotType == [packets : [1..R -> Datagrams \cup {Blank}],
             count : 0..R,
             last_update_time : 0..MaxTime]

(* A slot that collects segments of one message of S, each at most once. *)
WellFormed(slot, S) ==
  /\ slot \in SlotType
  /\ \A i \in 1..slot.count :
       slot.packets[i] \in Datagrams /\ slot.packets[i].id \in S
  /\ \A i, j \in 1..slot.count :
       /\ slot.packets[i].id = slot.packets[j].id
       /\ i # j => slot.packets[i].seq # slot.packets[j].seq

(* The slot has collected segment k of message m.                           *)
Holds(slot, m, k) == \E p \in Collected(slot) : p.id = m /\ p.seq = k

QueueInv  == queue \in [Slots -> SlotType] /\ \A i \in Slots : WellFormed(queue[i], sent)
MediumInv == \A d \in Datagrams : inflight[d] > 0 => d.id \in sent

(* The inductive invariant. *)
IInv == TypeOK /\ QueueInv /\ MediumInv /\ DeliveredWhole /\ NoBacklog

--------------------------------------------------------------------------------
(* Least elements, the choice the loops over the table and the array make. *)
LEMMA MinIsLeast ==
  ASSUME NEW S \in SUBSET Nat, S # {}
  PROVE  Min(S) \in S /\ \A y \in S : Min(S) <= y
<1>1. PICK x \in S : \A y \in S : ~(<<y, x>> \in OpToRel(<, Nat))
  BY NatLessThanWellFounded, WFMin
<1>2. \A y \in S : x <= y
  <2> TAKE y \in S
  <2>1. SUFFICES ASSUME y < x PROVE FALSE
    OBVIOUS
  <2>2. <<y, x>> \in OpToRel(<, Nat)
    BY <2>1, Zenon DEF OpToRel
  <2>3. QED
    BY <1>1, <2>2
<1>3. QED
  BY <1>2 DEF Min

LEMMA DatagramFields ==
  ASSUME NEW d \in Datagrams
  PROVE  /\ d.id \in Messages
         /\ SegCount[d.id] \in Nat
         /\ d.seq \in 0..(SegCount[d.id] - 1)
         /\ d.seq_count = SegCount[d.id]
         /\ d.intact \in Intactness
         /\ d = Segment(d.id, d.seq, d.intact)
<1>1. PICK m \in Messages : \E k \in 0..(SegCount[m] - 1), ok \in Intactness : d = Segment(m, k, ok)
  BY DEF Datagrams
<1>2. PICK k \in 0..(SegCount[m] - 1), ok \in Intactness : d = Segment(m, k, ok)
  BY <1>1
<1>3. QED
  BY <1>2, SegCountAssumption DEF Segment

LEMMA SegmentIsDatagram ==
  ASSUME NEW m \in Messages, NEW k \in 0..(SegCount[m] - 1), NEW ok \in Intactness
  PROVE  Segment(m, k, ok) \in Datagrams
<1> DEFINE segments(n) == {Segment(n, j, o) : j \in 0..(SegCount[n] - 1), o \in Intactness}
<1>1. Segment(m, k, ok) \in segments(m)
  OBVIOUS
<1>2. Datagrams = UNION {segments(n) : n \in Messages}
  BY DEF Datagrams
<1> HIDE DEF segments
<1>3. QED
  BY <1>1, <1>2

(* A complete slot holds every segment of its message below the count, and  *)
(* assembling it yields the message (muxer.rs, can_assemble and assemble).  *)
LEMMA CompleteSlotAssembles ==
  ASSUME NEW S \in SUBSET Messages, NEW slot, WellFormed(slot, S), CanAssemble(slot)
  PROVE  LET m == slot.packets[1].id
         IN  /\ AssembleSucceeds(slot)
             /\ m \in S
             /\ Assembled(slot) \in Rendering(m)
             /\ Assembled(slot)[0].id = m
             /\ \A k \in 0..(SegCount[m] - 1) : Holds(slot, m, k)
<1> DEFINE n == slot.count
           m == slot.packets[1].id
           seqOf == [i \in 1..n |-> slot.packets[i].seq]
<1>1. n \in 1..R /\ R \in 1..15 /\ slot.packets \in [1..R -> Datagrams \cup {Blank}]
  BY RAssumption DEF WellFormed, SlotType, CanAssemble
<1>2. ASSUME NEW i \in 1..n
      PROVE  /\ slot.packets[i] \in Datagrams
             /\ slot.packets[i].id = m
             /\ slot.packets[i].seq \in 0..(SegCount[m] - 1)
  BY <1>1, DatagramFields DEF WellFormed
<1>3. m \in S /\ SegCount[m] \in Nat /\ n >= SegCount[m]
  <2>1. slot.packets[1] \in Datagrams /\ m \in S
    BY <1>1 DEF WellFormed
  <2>2. slot.packets[1].seq_count = SegCount[m] /\ SegCount[m] \in Nat
    BY <2>1, DatagramFields
  <2>3. QED
    BY <2>1, <2>2 DEF CanAssemble
<1>4. seqOf \in Injection(1..n, 0..(SegCount[m] - 1))
  <2>1. seqOf \in [1..n -> 0..(SegCount[m] - 1)]
    BY <1>2
  <2>2. \A i, j \in 1..n : seqOf[i] = seqOf[j] => i = j
    BY DEF WellFormed
  <2>3. QED
    BY <2>1, <2>2 DEF Injection, IsInjective
<1>5. /\ IsFiniteSet(0..(SegCount[m] - 1)) /\ Cardinality(0..(SegCount[m] - 1)) = SegCount[m]
      /\ IsFiniteSet(1..n) /\ Cardinality(1..n) = n
  <2>1. 0 \in Int /\ 1 \in Int /\ SegCount[m] - 1 \in Int /\ n \in Int /\ n >= 1
    BY <1>1, <1>3
  <2>2. Cardinality(0..(SegCount[m] - 1)) = IF 0 > SegCount[m] - 1 THEN 0 ELSE SegCount[m] - 1 - 0 + 1
    BY <2>1, FS_Interval
  <2>3. Cardinality(1..n) = IF 1 > n THEN 0 ELSE n - 1 + 1
    BY <2>1, FS_Interval
  <2>4. IsFiniteSet(0..(SegCount[m] - 1)) /\ IsFiniteSet(1..n)
    BY <2>1, FS_Interval
  <2>5. QED
    BY <2>1, <2>2, <2>3, <2>4, <1>3
<1>6. n = SegCount[m] /\ seqOf \in Surjection(1..n, 0..(SegCount[m] - 1))
  <2>1. /\ Cardinality(1..n) <= Cardinality(0..(SegCount[m] - 1))
        /\ Cardinality(1..n) = Cardinality(0..(SegCount[m] - 1))
             <=> seqOf \in Surjection(1..n, 0..(SegCount[m] - 1))
    BY <1>4, <1>5, FS_Injection
  <2>2. QED
    BY <2>1, <1>1, <1>3, <1>5
<1>7. ASSUME NEW k \in 0..(n - 1)
      PROVE  /\ Matches(slot, k) # {}
             /\ slot.packets[Min(Matches(slot, k))] \in Datagrams
             /\ slot.packets[Min(Matches(slot, k))].id = m
             /\ slot.packets[Min(Matches(slot, k))].seq = k
  <2>1. PICK i \in 1..n : seqOf[i] = k
    BY <1>6 DEF Surjection
  <2>2. i \in Matches(slot, k)
    BY <2>1, <1>1 DEF Matches
  <2>3. Matches(slot, k) \in SUBSET Nat
    BY <1>1 DEF Matches
  <2>4. Min(Matches(slot, k)) \in Matches(slot, k) /\ Min(Matches(slot, k)) <= i
    BY <2>2, <2>3, MinIsLeast
  <2>5. Min(Matches(slot, k)) \in 1..n
    BY <2>4, <1>1 DEF Matches
  <2>6. QED
    BY <2>2, <2>4, <2>5, <1>2 DEF Matches
<1>8. AssembleSucceeds(slot)
  BY <1>7 DEF AssembleSucceeds
<1>9. Assembled(slot) \in Rendering(m)
  <2> DEFINE ok == [k \in 0..(SegCount[m] - 1) |-> slot.packets[Min(Matches(slot, k))].intact]
  <2>1. ASSUME NEW k \in 0..(SegCount[m] - 1)
        PROVE  /\ slot.packets[Min(Matches(slot, k))] = Segment(m, k, ok[k])
               /\ ok[k] \in Intactness
    BY <1>6, <1>7, DatagramFields
  <2>2. ok \in [0..(SegCount[m] - 1) -> Intactness]
    BY <2>1
  <2>3. Assembled(slot) = [k \in 0..(SegCount[m] - 1) |-> Segment(m, k, ok[k])]
    BY <2>1, <1>6 DEF Assembled
  <2>4. QED
    BY <2>2, <2>3 DEF Rendering
<1>10. Assembled(slot)[0].id = m
  BY <1>1, <1>7 DEF Assembled
<1>11. ASSUME NEW k \in 0..(SegCount[m] - 1) PROVE Holds(slot, m, k)
  <2>1. PICK i \in 1..n : seqOf[i] = k
    BY <1>6 DEF Surjection
  <2>2. slot.packets[i] \in Collected(slot) /\ slot.packets[i].seq = k
    BY <2>1 DEF Collected
  <2>3. QED
    BY <2>2, <1>2 DEF Holds
<1>12. QED
  BY <1>3, <1>8, <1>9, <1>10, <1>11

--------------------------------------------------------------------------------
(* The methods of PacketMuxer keep a slot well formed. *)
LEMMA BlankSlot ==
  ASSUME NEW S
  PROVE  WellFormed(EmptySlot(Blank), S) /\ ~CanAssemble(EmptySlot(Blank))
BY RAssumption, MaxTimeAssumption DEF WellFormed, EmptySlot, SlotType, CanAssemble

LEMMA ReleasedSlot ==
  ASSUME NEW S, NEW slot, WellFormed(slot, S)
  PROVE  /\ WellFormed(Released(slot), S)
         /\ IsEmpty(Released(slot))
         /\ ~CanAssemble(Released(slot))
<1> DEFINE new == Released(slot)
<1>1. slot \in SlotType /\ 0 \in 0..R /\ 0 \in 0..MaxTime
  BY RAssumption, MaxTimeAssumption DEF WellFormed
<1>2. new \in SlotType /\ new.count = 0
  BY <1>1 DEF Released, SlotType
<1>3. QED
  BY <1>2 DEF WellFormed, CanAssemble, IsEmpty

LEMMA PushedSlot ==
  ASSUME NEW S, NEW slot, WellFormed(slot, S), NEW t \in 0..MaxTime,
         NEW p \in Datagrams, p.id \in S, Accepts(slot, p)
  PROVE  WellFormed(Pushed(slot, t, p), S)
<1> DEFINE new == Pushed(slot, t, p)
<1>1. /\ slot \in SlotType /\ slot.count \in 0..R /\ slot.count < R
      /\ slot.packets \in [1..R -> Datagrams \cup {Blank}]
      /\ R \in Nat
  BY RAssumption DEF WellFormed, SlotType, Accepts
<1>2. new.count = slot.count + 1 /\ new.count \in 1..R /\ new.last_update_time = t
  BY <1>1 DEF Pushed
<1>3. new.packets = [slot.packets EXCEPT ![slot.count + 1] = p]
  BY DEF Pushed
<1>4. new \in SlotType
  <2>1. new.packets \in [1..R -> Datagrams \cup {Blank}]
    BY <1>1, <1>3
  <2>2. new = [packets |-> new.packets, count |-> new.count,
               last_update_time |-> new.last_update_time]
    BY DEF Pushed
  <2>3. QED
    BY <2>1, <2>2, <1>2 DEF SlotType
<1>5. /\ new.packets[slot.count + 1] = p
      /\ \A i \in 1..slot.count : new.packets[i] = slot.packets[i]
  BY <1>1, <1>3
<1>6. \A i \in 1..new.count : i \in 1..slot.count \/ i = slot.count + 1
  BY <1>1, <1>2
<1>7. \A i \in 1..new.count : new.packets[i] \in Datagrams /\ new.packets[i].id \in S
  BY <1>5, <1>6 DEF WellFormed
<1>8. ASSUME NEW i \in 1..new.count, NEW j \in 1..new.count
      PROVE  /\ new.packets[i].id = new.packets[j].id
             /\ i # j => new.packets[i].seq # new.packets[j].seq
  <2>1. CASE i \in 1..slot.count /\ j \in 1..slot.count
    BY <2>1, <1>5 DEF WellFormed
  <2>2. CASE i \in 1..slot.count /\ j = slot.count + 1
    BY <2>2, <1>5 DEF Accepts
  <2>3. CASE i = slot.count + 1 /\ j \in 1..slot.count
    BY <2>3, <1>5 DEF Accepts
  <2>4. CASE i = slot.count + 1 /\ j = slot.count + 1
    BY <2>4
  <2>5. QED
    BY <2>1, <2>2, <2>3, <2>4, <1>6
<1>9. QED
  BY <1>4, <1>7, <1>8 DEF WellFormed

(* The methods of Muxer: multiplex fills at most one slot, process empties  *)
(* it if it is complete.                                                    *)
WellFormedTable(q, S) == q \in [Slots -> SlotType] /\ \A i \in Slots : WellFormed(q[i], S)

LEMMA ExpiredTable ==
  ASSUME NEW S, NEW q, WellFormedTable(q, S), NEW t
  PROVE  /\ WellFormedTable(ReleaseExpired(q, t), S)
         /\ Ready(ReleaseExpired(q, t)) \subseteq Ready(q)
<1>1. ASSUME NEW i \in Slots
      PROVE  /\ WellFormed(ReleaseExpired(q, t)[i], S)
             /\ CanAssemble(ReleaseExpired(q, t)[i]) => CanAssemble(q[i])
  BY ReleasedSlot DEF ReleaseExpired, WellFormedTable
<1>2. ReleaseExpired(q, t) \in [Slots -> SlotType]
  <2>1. ASSUME NEW i \in Slots PROVE ReleaseExpired(q, t)[i] \in SlotType
    BY <1>1 DEF WellFormed
  <2>2. QED
    BY <2>1 DEF ReleaseExpired
<1>3. QED
  BY <1>1, <1>2 DEF Ready, WellFormedTable

LEMMA UpdatedTable ==
  ASSUME NEW S, NEW q, WellFormedTable(q, S), NEW i \in Slots,
         NEW slot, WellFormed(slot, S),
         NEW new, new = [q EXCEPT ![i] = slot]
  PROVE  /\ WellFormedTable(new, S)
         /\ Ready(new) \subseteq Ready(q) \cup {i}
         /\ ~CanAssemble(slot) => i \notin Ready(new)
<1>1. new[i] = slot /\ \A j \in Slots : j # i => new[j] = q[j]
  BY DEF WellFormedTable
<1>2. new \in [Slots -> SlotType]
  BY DEF WellFormedTable, WellFormed
<1>3. WellFormedTable(new, S)
  BY <1>1, <1>2 DEF WellFormedTable
<1>4. \A j \in Slots : j # i => (CanAssemble(new[j]) <=> CanAssemble(q[j]))
  BY <1>1
<1>5. CanAssemble(new[i]) <=> CanAssemble(slot)
  BY <1>1
<1>6. QED
  BY <1>3, <1>4, <1>5 DEF Ready

LEMMA MultiplexTable ==
  ASSUME NEW S, NEW q, WellFormedTable(q, S), Ready(q) = {},
         NEW t \in 0..MaxTime, NEW p \in Datagrams, p.id \in S
  PROVE  /\ WellFormedTable(Multiplex(q, t, p), S)
         /\ \E i \in Slots : Ready(Multiplex(q, t, p)) \subseteq {i}
<1> DEFINE join  == Joinable(q, p)
           reuse == Reusable(q, t)
<1>1. Slots \in SUBSET Nat /\ 1 \in Slots
  BY QAssumption DEF Slots
<1>2. CASE join # {}
  <2>1. Min(join) \in join /\ Min(join) \in Slots
    BY <1>1, <1>2, MinIsLeast DEF Joinable
  <2>2. WellFormed(Pushed(q[Min(join)], t, p), S)
    BY <2>1, PushedSlot DEF Joinable, WellFormedTable
  <2>3. Multiplex(q, t, p) = [q EXCEPT ![Min(join)] = Pushed(q[Min(join)], t, p)]
    BY <1>2 DEF Multiplex
  <2>4. /\ WellFormedTable(Multiplex(q, t, p), S)
        /\ Ready(Multiplex(q, t, p)) \subseteq Ready(q) \cup {Min(join)}
    <3>1. PICK slot : slot = Pushed(q[Min(join)], t, p)
      OBVIOUS
    <3>2. PICK new : new = Multiplex(q, t, p)
      OBVIOUS
    <3>3. PICK i \in Slots : i = Min(join)
      BY <2>1
    <3>4. WellFormed(slot, S) /\ new = [q EXCEPT ![i] = slot]
      BY <3>1, <3>2, <3>3, <2>2, <2>3
    <3>5. WellFormedTable(new, S) /\ Ready(new) \subseteq Ready(q) \cup {i}
      BY <3>4, UpdatedTable
    <3>6. QED
      BY <3>2, <3>3, <3>5
  <2>5. QED
    BY <2>1, <2>4
<1>3. CASE join = {} /\ p.seq_count > R
  <2>1. Multiplex(q, t, p) = ReleaseExpired(q, t)
    BY <1>3 DEF Multiplex
  <2>2. QED
    BY <2>1, <1>1, ExpiredTable
<1>4. CASE join = {} /\ ~(p.seq_count > R) /\ reuse # {}
  <2>1. Min(reuse) \in Slots
    BY <1>1, <1>4, MinIsLeast DEF Reusable
  <2>2. WellFormed(Released(q[Min(reuse)]), S) /\ IsEmpty(Released(q[Min(reuse)]))
    BY <2>1, ReleasedSlot DEF WellFormedTable
  <2>3. p.seq_count \in Nat
    BY DatagramFields
  <2>4. Accepts(Released(q[Min(reuse)]), p)
    BY <2>2, <2>3, <1>4, RAssumption DEF Accepts, IsEmpty
  <2>5. WellFormed(Pushed(Released(q[Min(reuse)]), t, p), S)
    BY <2>2, <2>4, PushedSlot
  <2>6. Multiplex(q, t, p) = [q EXCEPT ![Min(reuse)] = Pushed(Released(q[Min(reuse)]), t, p)]
    BY <1>4 DEF Multiplex
  <2>7. /\ WellFormedTable(Multiplex(q, t, p), S)
        /\ Ready(Multiplex(q, t, p)) \subseteq Ready(q) \cup {Min(reuse)}
    <3>1. PICK slot : slot = Pushed(Released(q[Min(reuse)]), t, p)
      OBVIOUS
    <3>2. PICK new : new = Multiplex(q, t, p)
      OBVIOUS
    <3>3. PICK i \in Slots : i = Min(reuse)
      BY <2>1
    <3>4. WellFormed(slot, S) /\ new = [q EXCEPT ![i] = slot]
      BY <3>1, <3>2, <3>3, <2>5, <2>6
    <3>5. WellFormedTable(new, S) /\ Ready(new) \subseteq Ready(q) \cup {i}
      BY <3>4, UpdatedTable
    <3>6. QED
      BY <3>2, <3>3, <3>5
  <2>8. QED
    BY <2>1, <2>7
<1>5. CASE join = {} /\ ~(p.seq_count > R) /\ reuse = {}
  <2>1. Multiplex(q, t, p) = q
    BY <1>5 DEF Multiplex
  <2>2. QED
    BY <2>1, <1>1
<1>6. QED
  BY <1>2, <1>3, <1>4, <1>5

LEMMA ProcessTable ==
  ASSUME NEW S \in SUBSET Messages, NEW q, WellFormedTable(q, S),
         NEW i \in Slots, Ready(q) \subseteq {i}
  PROVE  /\ WellFormedTable(Process(q), S)
         /\ Ready(Process(q)) = {}
         /\ ProcessYields(q) => \E m \in S : ProcessFrame(q) \in Rendering(m)
<1>1. CASE Ready(q) = {}
  BY <1>1 DEF Process, ProcessYields
<1>2. CASE Ready(q) # {}
  <2>1. Ready(q) = {i} /\ Min(Ready(q)) = i
    BY <1>2, MinIsLeast, QAssumption DEF Slots, Ready
  <2>2. CanAssemble(q[i]) /\ WellFormed(q[i], S)
    BY <2>1 DEF Ready, WellFormedTable
  <2>3. AssembleSucceeds(q[i]) /\ \E m \in S : Assembled(q[i]) \in Rendering(m)
    BY <2>2, CompleteSlotAssembles
  <2>4. Process(q) = [q EXCEPT ![i] = Released(q[i])]
    BY <2>1, <2>3, <1>2 DEF Process, ProcessYields
  <2>5. WellFormed(Released(q[i]), S) /\ ~CanAssemble(Released(q[i]))
    BY <2>2, ReleasedSlot
  <2>6. /\ WellFormedTable(Process(q), S)
        /\ Ready(Process(q)) \subseteq {i}
        /\ i \notin Ready(Process(q))
    <3>1. PICK slot : slot = Released(q[i])
      OBVIOUS
    <3>2. PICK new : new = Process(q)
      OBVIOUS
    <3>3. WellFormed(slot, S) /\ ~CanAssemble(slot) /\ new = [q EXCEPT ![i] = slot]
      BY <3>1, <3>2, <2>4, <2>5
    <3>4. WellFormedTable(new, S) /\ Ready(new) \subseteq Ready(q) \cup {i} /\ i \notin Ready(new)
      BY <3>3, UpdatedTable
    <3>5. QED
      BY <3>2, <3>4, <2>1
  <2>7. QED
    BY <2>1, <2>3, <2>6 DEF ProcessFrame
<1>3. QED
  BY <1>1, <1>2

--------------------------------------------------------------------------------
(* The invariant holds initially and every action keeps it. *)
LEMMA InitIInv == Init => IInv
<1> SUFFICES ASSUME Init PROVE IInv
  OBVIOUS
<1>1. ASSUME NEW i \in Slots
      PROVE  WellFormed(queue[i], sent) /\ ~CanAssemble(queue[i]) /\ queue[i] \in SlotType
  <2>1. queue[i] = EmptySlot(Blank)
    BY DEF Init
  <2>2. WellFormed(EmptySlot(Blank), sent) /\ ~CanAssemble(EmptySlot(Blank))
    BY BlankSlot
  <2>3. QED
    BY <2>1, <2>2 DEF WellFormed
<1>2. queue \in [Slots -> SlotType]
  BY <1>1 DEF Init
<1>3. TypeOK
  BY <1>2, MaxTimeAssumption DEF Init, TypeOK, SlotType
<1>4. MediumInv /\ DeliveredWhole
  BY DEF Init, MediumInv, DeliveredWhole
<1>5. NoBacklog
  BY <1>1 DEF NoBacklog, Ready
<1>6. QED
  BY <1>1, <1>2, <1>3, <1>4, <1>5 DEF IInv, QueueInv

LEMMA WellFormedMono ==
  ASSUME NEW S, NEW T, S \subseteq T, NEW slot, WellFormed(slot, S)
  PROVE  WellFormed(slot, T)
BY DEF WellFormed

(* An action that leaves the receiver alone. *)
LEMMA MediumStep ==
  ASSUME IInv, sent \subseteq sent', sent' \subseteq Messages,
         inflight' \in [Datagrams -> Nat],
         \A d \in Datagrams : inflight'[d] > 0 => inflight[d] > 0 \/ d.id \in sent',
         now' \in 0..MaxTime,
         UNCHANGED <<arrived, queue, delivered>>
  PROVE  IInv'
<1>1. TypeOK'
  BY DEF IInv, TypeOK
<1>2. QueueInv'
  BY WellFormedMono DEF IInv, QueueInv
<1>3. MediumInv'
  BY DEF IInv, MediumInv
<1>4. DeliveredWhole' /\ NoBacklog'
  BY DEF IInv, DeliveredWhole, NoBacklog
<1>5. QED
  BY <1>1, <1>2, <1>3, <1>4 DEF IInv

LEMMA ReceiveStep ==
  ASSUME IInv, NEW d \in Datagrams, Receive(d)
  PROVE  /\ IInv'
         /\ \/ UNCHANGED <<sent, delivered>>
            \/ \E m \in sent : \E f \in Rendering(m) :
                 delivered' = Append(delivered, f) /\ UNCHANGED sent
<1> DEFINE muxed == Multiplex(queue, now, d)
<1>1. /\ sent \in SUBSET Messages /\ now \in 0..MaxTime /\ d.id \in sent
      /\ WellFormedTable(queue, sent) /\ Ready(queue) = {}
  BY DEF IInv, TypeOK, QueueInv, MediumInv, NoBacklog, WellFormedTable, Receive
<1>2. WellFormedTable(muxed, sent) /\ \E i \in Slots : Ready(muxed) \subseteq {i}
  BY <1>1, MultiplexTable
<1> HIDE DEF muxed
<1>3. /\ WellFormedTable(Process(muxed), sent) /\ Ready(Process(muxed)) = {}
      /\ ProcessYields(muxed) => \E m \in sent : ProcessFrame(muxed) \in Rendering(m)
  BY <1>1, <1>2, ProcessTable
<1>4. /\ queue' = ReleaseExpired(Process(muxed), now) /\ sent' = sent /\ now' = now
      /\ delivered' = IF ProcessYields(muxed) THEN Append(delivered, ProcessFrame(muxed))
                                              ELSE delivered
      /\ inflight' = [inflight EXCEPT ![d] = @ - 1]
      /\ arrived' = [arrived EXCEPT ![d] = @ + 1]
      /\ inflight[d] > 0
  BY DEF Receive, muxed
<1>5. WellFormedTable(queue', sent) /\ Ready(queue') = {}
  BY <1>3, <1>4, ExpiredTable
<1>6. inflight' \in [Datagrams -> Nat] /\ arrived' \in [Datagrams -> Nat]
  BY <1>4 DEF IInv, TypeOK
<1>7. \/ delivered' = delivered
      \/ \E m \in sent : \E f \in Rendering(m) : delivered' = Append(delivered, f)
  BY <1>3, <1>4
<1>8. /\ delivered' \in Seq(UNION {Rendering(m) : m \in Messages})
      /\ \A i \in 1..Len(delivered') : \E m \in sent : delivered'[i] \in Rendering(m)
  <2>1. /\ delivered \in Seq(UNION {Rendering(m) : m \in Messages})
        /\ \A i \in 1..Len(delivered) : \E m \in sent : delivered[i] \in Rendering(m)
    BY DEF IInv, TypeOK, DeliveredWhole
  <2>2. CASE delivered' = delivered
    BY <2>1, <2>2
  <2>3. ASSUME NEW m \in sent, NEW f \in Rendering(m), delivered' = Append(delivered, f)
        PROVE  /\ delivered' \in Seq(UNION {Rendering(x) : x \in Messages})
               /\ \A i \in 1..Len(delivered') : \E x \in sent : delivered'[i] \in Rendering(x)
    <3>1. f \in UNION {Rendering(x) : x \in Messages}
      BY <2>3, <1>1
    <3>2. /\ Len(delivered') = Len(delivered) + 1
          /\ delivered'[Len(delivered) + 1] = f
          /\ \A i \in 1..Len(delivered) : delivered'[i] = delivered[i]
      BY <2>1, <2>3, <3>1
    <3>3. QED
      BY <2>1, <2>3, <3>1, <3>2
  <2>4. QED
    BY <2>2, <2>3, <1>7
<1>9. TypeOK'
  BY <1>1, <1>4, <1>5, <1>6, <1>8 DEF TypeOK, WellFormedTable, SlotType
<1>10. QueueInv' /\ NoBacklog'
  BY <1>4, <1>5 DEF QueueInv, NoBacklog, WellFormedTable
<1>11. MediumInv' /\ DeliveredWhole'
  BY <1>4, <1>8 DEF IInv, TypeOK, MediumInv, DeliveredWhole
<1>12. QED
  BY <1>4, <1>7, <1>9, <1>10, <1>11 DEF IInv

LEMMA NextIInv == IInv /\ [Next]_vars => IInv'
<1> SUFFICES ASSUME IInv, [Next]_vars PROVE IInv'
  OBVIOUS
<1> USE DEF IInv, TypeOK, MediumInv
<1>1. ASSUME NEW m \in Messages, Transmit(m) PROVE IInv'
  <2>1. inflight' \in [Datagrams -> Nat]
    BY <1>1 DEF Transmit
  <2>2. \A d \in Datagrams : inflight'[d] > 0 => inflight[d] > 0 \/ d.id \in sent'
    BY <1>1 DEF Transmit
  <2>3. sent \subseteq sent' /\ sent' \subseteq Messages /\ now' \in 0..MaxTime
    BY <1>1 DEF Transmit
  <2>4. QED
    BY <1>1, <2>1, <2>2, <2>3, MediumStep DEF Transmit
<1>2. ASSUME NEW d \in Datagrams, Lose(d) PROVE IInv'
  <2>1. /\ inflight' \in [Datagrams -> Nat]
        /\ \A e \in Datagrams : inflight'[e] > 0 => inflight[e] > 0
    BY <1>2 DEF Lose
  <2>2. QED
    BY <1>2, <2>1, MediumStep DEF Lose
<1>3. ASSUME NEW d \in Datagrams, Duplicate(d) PROVE IInv'
  <2>1. /\ inflight' \in [Datagrams -> Nat]
        /\ \A e \in Datagrams : inflight'[e] > 0 => inflight[e] > 0
    BY <1>3 DEF Duplicate
  <2>2. QED
    BY <1>3, <2>1, MediumStep DEF Duplicate
<1>4. ASSUME NEW d \in Datagrams, Corrupt(d) PROVE IInv'
  <2> DEFINE damaged == Segment(d.id, d.seq, FALSE)
  <2>1. damaged.id = d.id
    BY DEF Segment
  <2>2. damaged \in Datagrams
    <3>1. d.id \in Messages /\ d.seq \in 0..(SegCount[d.id] - 1) /\ FALSE \in Intactness
      BY <1>4, DatagramFields DEF Corrupt, Intactness
    <3>2. QED
      BY <3>1, SegmentIsDatagram
  <2>3. inflight' = [inflight EXCEPT ![d] = @ - 1, ![damaged] = @ + 1] /\ inflight[d] > 0
    BY <1>4 DEF Corrupt
  <2> HIDE DEF damaged
  <2>4. inflight' \in [Datagrams -> Nat]
    BY <2>2, <2>3
  <2>5. \A e \in Datagrams : inflight'[e] > 0 => inflight[e] > 0 \/ e.id \in sent
    BY <2>1, <2>2, <2>3
  <2>6. QED
    BY <1>4, <2>4, <2>5, MediumStep DEF Corrupt
<1>5. ASSUME NEW d \in Datagrams, Receive(d) PROVE IInv'
  BY <1>5, ReceiveStep
<1>6. CASE Tick
  BY <1>6, MediumStep, MaxTimeAssumption DEF Tick
<1>7. CASE SetClockBack
  BY <1>7, MediumStep DEF SetClockBack
<1>8. CASE UNCHANGED vars
  BY <1>8, MediumStep DEF vars
<1>9. QED
  BY <1>1, <1>2, <1>3, <1>4, <1>5, <1>6, <1>7, <1>8 DEF Next

--------------------------------------------------------------------------------
(* What the methods do to what the slots have collected. *)
LEMMA SlotContents ==
  ASSUME NEW slot \in SlotType
  PROVE  /\ Collected(Released(slot)) = {}
         /\ slot.count < R =>
              \A t, p : Collected(Pushed(slot, t, p)) = Collected(slot) \cup {p}
<1>1. Collected(Released(slot)) = {}
  BY DEF Collected, Released, SlotType
<1>2. ASSUME NEW t, NEW p, slot.count < R
      PROVE  Collected(Pushed(slot, t, p)) = Collected(slot) \cup {p}
  <2> DEFINE new == Pushed(slot, t, p)
  <2>1. /\ slot.count \in 0..R /\ R \in Nat
        /\ slot.packets \in [1..R -> Datagrams \cup {Blank}]
    BY RAssumption DEF SlotType
  <2>2. new.count = slot.count + 1 /\ new.packets = [slot.packets EXCEPT ![slot.count + 1] = p]
    BY DEF Pushed
  <2>3. /\ new.packets[slot.count + 1] = p
        /\ \A i \in 1..slot.count : new.packets[i] = slot.packets[i]
    BY <1>2, <2>1, <2>2
  <2>4. 1..new.count = 1..slot.count \cup {slot.count + 1}
    BY <2>1, <2>2
  <2> HIDE DEF new
  <2>5. Collected(new) = Collected(slot) \cup {p}
    BY <2>3, <2>4 DEF Collected
  <2>6. QED
    BY <2>5 DEF new
<1>3. QED
  BY <1>1, <1>2

(* No slot of r has collected anything that q's had not. *)
Within(r, q) == \A i \in Slots : Collected(r[i]) \subseteq Collected(q[i])

(* Slot j of r may have collected p beside. *)
GainsAt(r, q, j, p) ==
  \A i \in Slots : Collected(r[i]) \subseteq Collected(q[i]) \cup (IF i = j THEN {p} ELSE {})

LEMMA ExpiredWithin ==
  ASSUME NEW q \in [Slots -> SlotType], NEW t
  PROVE  Within(ReleaseExpired(q, t), q)
BY SlotContents DEF Within, ReleaseExpired

LEMMA MultiplexGains ==
  ASSUME NEW q \in [Slots -> SlotType], NEW t, NEW p
  PROVE  \E j \in Slots : GainsAt(Multiplex(q, t, p), q, j, p)
<1> DEFINE join  == Joinable(q, p)
           reuse == Reusable(q, t)
<1>1. Slots \in SUBSET Nat /\ 1 \in Slots
  BY QAssumption DEF Slots
<1>2. CASE join # {}
  <2>1. Min(join) \in join /\ Min(join) \in Slots
    BY <1>1, <1>2, MinIsLeast DEF Joinable
  <2>2. PICK j \in Slots : j = Min(join)
    BY <2>1
  <2>3. q[j].count < R
    BY <2>1, <2>2 DEF Joinable, Accepts
  <2>4. Multiplex(q, t, p) = [q EXCEPT ![j] = Pushed(q[j], t, p)]
    BY <1>2, <2>2 DEF Multiplex
  <2>5. Collected(Pushed(q[j], t, p)) = Collected(q[j]) \cup {p}
    BY <2>3, SlotContents
  <2>6. QED
    BY <2>4, <2>5 DEF GainsAt
<1>3. CASE join = {} /\ p.seq_count > R
  <2>1. Multiplex(q, t, p) = ReleaseExpired(q, t)
    BY <1>3 DEF Multiplex
  <2>2. QED
    BY <2>1, <1>1, ExpiredWithin DEF Within, GainsAt
<1>4. CASE join = {} /\ ~(p.seq_count > R) /\ reuse # {}
  <2>1. Min(reuse) \in Slots
    BY <1>1, <1>4, MinIsLeast DEF Reusable
  <2>2. PICK j \in Slots : j = Min(reuse)
    BY <2>1
  <2>3. Released(q[j]) \in SlotType /\ Released(q[j]).count < R
    <3>1. q[j] \in SlotType /\ 0 \in 0..R /\ 0 < R /\ 0 \in 0..MaxTime
      BY RAssumption, MaxTimeAssumption
    <3>2. QED
      BY <3>1 DEF Released, SlotType
  <2>4. Multiplex(q, t, p) = [q EXCEPT ![j] = Pushed(Released(q[j]), t, p)]
    BY <1>4, <2>2 DEF Multiplex
  <2>5. Collected(Pushed(Released(q[j]), t, p)) = {p}
    <3>1. Collected(Pushed(Released(q[j]), t, p)) = Collected(Released(q[j])) \cup {p}
      BY <2>3, SlotContents
    <3>2. QED
      BY <3>1, SlotContents
  <2>6. QED
    BY <2>4, <2>5 DEF GainsAt
<1>5. CASE join = {} /\ ~(p.seq_count > R) /\ reuse = {}
  <2>1. Multiplex(q, t, p) = q
    BY <1>5 DEF Multiplex
  <2>2. QED
    BY <2>1, <1>1 DEF GainsAt
<1>6. QED
  BY <1>2, <1>3, <1>4, <1>5

(* A frame is paid for by the slot it comes from, which held each of its    *)
(* segments and holds none of them afterwards.                              *)
LEMMA ProcessPays ==
  ASSUME NEW S \in SUBSET Messages, NEW q, WellFormedTable(q, S)
  PROVE  /\ Within(Process(q), q)
         /\ ProcessYields(q) =>
              \E i \in Slots :
                /\ Collected(Process(q)[i]) = {}
                /\ \A k \in 0..(SegCount[ProcessFrame(q)[0].id] - 1) :
                     Holds(q[i], ProcessFrame(q)[0].id, k)
<1>1. CASE ~ProcessYields(q)
  BY <1>1 DEF Process, Within
<1>2. CASE ProcessYields(q)
  <2>1. Min(Ready(q)) \in Ready(q)
    BY <1>2, MinIsLeast, QAssumption DEF ProcessYields, Slots, Ready
  <2>2. PICK i \in Slots : i = Min(Ready(q))
    BY <2>1 DEF Ready
  <2>3. CanAssemble(q[i]) /\ WellFormed(q[i], S)
    BY <2>1, <2>2 DEF Ready, WellFormedTable
  <2>4. Process(q) = [q EXCEPT ![i] = Released(q[i])] /\ ProcessFrame(q) = Assembled(q[i])
    BY <1>2, <2>2 DEF Process, ProcessFrame
  <2>5. q \in [Slots -> SlotType] /\ Collected(Released(q[i])) = {}
    BY <2>3, SlotContents DEF WellFormed, WellFormedTable
  <2>6. /\ Assembled(q[i])[0].id = q[i].packets[1].id
        /\ \A k \in 0..(SegCount[q[i].packets[1].id] - 1) : Holds(q[i], q[i].packets[1].id, k)
    BY <2>3, CompleteSlotAssembles
  <2>7. QED
    BY <2>4, <2>5, <2>6 DEF Within
<1>3. QED
  BY <1>1, <1>2

--------------------------------------------------------------------------------
(* Copies, in two parts. *)
HoldersOf(q, m, k) == {i \in Slots : Holds(q[i], m, k)}
FramesOf(s, m)     == {i \in DOMAIN s : s[i][0].id = m}

LEMMA CopiesParts ==
  ASSUME NEW m, NEW k
  PROVE  Copies(m, k) = Cardinality(FramesOf(delivered, m)) + Cardinality(HoldersOf(queue, m, k))
BY DEF Copies, FramesOf, HoldersOf, Holds

LEMMA SlotsFinite ==
  ASSUME NEW T \in SUBSET Slots
  PROVE  IsFiniteSet(T) /\ Cardinality(T) \in Nat
<1>1. IsFiniteSet(1..Q)
  BY QAssumption, FS_Interval
<1>2. QED
  BY <1>1, FS_Subset, FS_CardinalityType DEF Slots

LEMMA FewerHolders ==
  ASSUME NEW q, NEW r, Within(r, q), NEW m, NEW k
  PROVE  Cardinality(HoldersOf(r, m, k)) <= Cardinality(HoldersOf(q, m, k))
<1>1. HoldersOf(r, m, k) \in SUBSET HoldersOf(q, m, k)
  BY DEF HoldersOf, Holds, Within
<1>2. IsFiniteSet(HoldersOf(q, m, k))
  BY SlotsFinite DEF HoldersOf
<1>3. QED
  BY <1>1, <1>2, FS_Subset

LEMMA OneMoreHolder ==
  ASSUME NEW q, NEW r, NEW j \in Slots, NEW p, GainsAt(r, q, j, p), NEW m, NEW k
  PROVE  Cardinality(HoldersOf(r, m, k))
           <= Cardinality(HoldersOf(q, m, k)) + (IF p.id = m /\ p.seq = k THEN 1 ELSE 0)
<1> DEFINE A == HoldersOf(q, m, k)
           B == HoldersOf(r, m, k)
<1>1. IsFiniteSet(A) /\ Cardinality(A) \in Nat /\ Cardinality(B) \in Nat
  BY SlotsFinite DEF HoldersOf
<1>2. CASE p.id = m /\ p.seq = k
  <2>1. B \in SUBSET (A \cup {j})
    BY DEF HoldersOf, Holds, GainsAt
  <2>2. IsFiniteSet(A \cup {j}) /\ Cardinality(A \cup {j}) \in {Cardinality(A), Cardinality(A) + 1}
    BY <1>1, FS_AddElement
  <2> HIDE DEF A, B
  <2>3. Cardinality(B) <= Cardinality(A \cup {j})
    BY <2>1, <2>2, FS_Subset
  <2>4. Cardinality(B) <= Cardinality(A) + 1
    BY <2>2, <2>3, <1>1
  <2>5. QED
    BY <2>4, <1>2 DEF A, B
<1>3. CASE ~(p.id = m /\ p.seq = k)
  <2>1. B \in SUBSET A
    BY <1>3 DEF HoldersOf, Holds, GainsAt
  <2> HIDE DEF A, B
  <2>2. Cardinality(B) <= Cardinality(A)
    BY <2>1, <1>1, FS_Subset
  <2>3. QED
    BY <2>2, <1>1, <1>3 DEF A, B
<1>4. QED
  BY <1>2, <1>3

(* Arrivals grow with each segment that arrives. *)
LEMMA OneMoreArrival ==
  ASSUME NEW d \in Datagrams, arrived \in [Datagrams -> Nat],
         arrived' = [arrived EXCEPT ![d] = @ + 1],
         NEW m \in Messages, NEW k \in 0..(SegCount[m] - 1)
  PROVE  /\ ArrivalsOf(m, k) \in Nat
         /\ ArrivalsOf(m, k)' = ArrivalsOf(m, k) + (IF d.id = m /\ d.seq = k THEN 1 ELSE 0)
<1> DEFINE good == Segment(m, k, TRUE)
           bad  == Segment(m, k, FALSE)
<1>1. good \in Datagrams /\ (MayCorrupt => bad \in Datagrams)
  BY SegmentIsDatagram DEF Intactness
<1>2. good # bad /\ good.id = m /\ good.seq = k /\ bad.id = m /\ bad.seq = k
  BY DEF Segment
<1>3. (d.id = m /\ d.seq = k) => d \in {good, bad} /\ (~MayCorrupt => d = good)
  <2>1. d = Segment(d.id, d.seq, d.intact) /\ d.intact \in Intactness
    BY DatagramFields
  <2>2. d.intact \in BOOLEAN /\ (~MayCorrupt => d.intact \in {TRUE})
    BY <2>1, Zenon DEF Intactness
  <2>3. QED
    BY <2>1, <2>2
<1>4. ArrivalsOf(m, k) = arrived[good] + (IF MayCorrupt THEN arrived[bad] ELSE 0)
  BY DEF ArrivalsOf
<1>5. ArrivalsOf(m, k)' = arrived'[good] + (IF MayCorrupt THEN arrived'[bad] ELSE 0)
  BY DEF ArrivalsOf
<1> HIDE DEF good, bad
<1>6. QED
  BY <1>1, <1>2, <1>3, <1>4, <1>5

(* One message more is handed up, or none. *)
LEMMA OneMoreFrame ==
  ASSUME NEW X, NEW s \in Seq(X), NEW f, NEW m
  PROVE  /\ Cardinality(FramesOf(s, m)) \in Nat
         /\ Cardinality(FramesOf(Append(s, f), m))
              = Cardinality(FramesOf(s, m)) + (IF f[0].id = m THEN 1 ELSE 0)
<1> DEFINE A == FramesOf(s, m)
           n == Len(s)
<1>1. n \in Nat /\ DOMAIN s = 1..n /\ IsFiniteSet(1..n)
  BY FS_Interval
<1>2. IsFiniteSet(A) /\ Cardinality(A) \in Nat /\ n + 1 \notin A
  BY <1>1, FS_Subset, FS_CardinalityType DEF FramesOf
<1>3. /\ DOMAIN Append(s, f) = 1..(n + 1)
      /\ \A i \in 1..n : Append(s, f)[i] = s[i]
      /\ Append(s, f)[n + 1] = f
  BY <1>1
<1>4. FramesOf(Append(s, f), m) = IF f[0].id = m THEN A \cup {n + 1} ELSE A
  BY <1>1, <1>3 DEF FramesOf
<1>5. Cardinality(A \cup {n + 1}) = Cardinality(A) + 1
  BY <1>2, FS_AddElement
<1>6. QED
  BY <1>2, <1>4, <1>5

(* The copies of a segment in the table and in frames grow only with its    *)
(* arrival: what process moves from the table to a frame is paid for.       *)
LEMMA ReceivePays ==
  ASSUME IInv, DeliveriesPaidFor, NEW d \in Datagrams, Receive(d)
  PROVE  DeliveriesPaidFor'
<1> DEFINE muxed == Multiplex(queue, now, d)
<1>1. /\ sent \in SUBSET Messages /\ now \in 0..MaxTime /\ d.id \in sent
      /\ WellFormedTable(queue, sent) /\ Ready(queue) = {}
      /\ queue \in [Slots -> SlotType]
  BY DEF IInv, TypeOK, QueueInv, MediumInv, NoBacklog, WellFormedTable, Receive
<1>2. WellFormedTable(muxed, sent) /\ \E i \in Slots : Ready(muxed) \subseteq {i}
  BY <1>1, MultiplexTable
<1>3. PICK j \in Slots : GainsAt(muxed, queue, j, d)
  BY <1>1, MultiplexGains
<1> DEFINE frame == ProcessFrame(muxed)
<1>4. /\ queue' = ReleaseExpired(Process(muxed), now)
      /\ delivered' = IF ProcessYields(muxed) THEN Append(delivered, frame) ELSE delivered
      /\ arrived' = [arrived EXCEPT ![d] = @ + 1]
  BY DEF Receive
<1> HIDE DEF muxed
<1>5. Process(muxed) \in [Slots -> SlotType]
  BY <1>2, ProcessTable, <1>1 DEF WellFormedTable
<1>6. Within(queue', Process(muxed)) /\ Within(Process(muxed), muxed)
  BY <1>1, <1>2, <1>4, <1>5, ExpiredWithin, ProcessPays
<1> HIDE DEF frame
<1>7. ASSUME NEW m \in Messages, NEW k \in 0..(SegCount[m] - 1)
      PROVE  Copies(m, k)' <= ArrivalsOf(m, k)'
  <2> DEFINE hit == IF d.id = m /\ d.seq = k THEN 1 ELSE 0
             F   == Cardinality(FramesOf(delivered, m))
             H   == Cardinality(HoldersOf(queue, m, k))
             H1  == Cardinality(HoldersOf(muxed, m, k))
             H2  == Cardinality(HoldersOf(Process(muxed), m, k))
             H3  == Cardinality(HoldersOf(queue', m, k))
  <2>1. Copies(m, k) = F + H /\ Copies(m, k)' = F' + H3
    <3>1. Copies(m, k) = F + H
      BY CopiesParts
    <3>2. QED
      BY <3>1 DEF Copies, FramesOf, HoldersOf, Holds
  <2>2. ArrivalsOf(m, k) \in Nat /\ ArrivalsOf(m, k)' = ArrivalsOf(m, k) + hit
    BY <1>4, OneMoreArrival DEF IInv, TypeOK
  <2>3. H \in Nat /\ H1 \in Nat /\ H2 \in Nat /\ H3 \in Nat
    BY SlotsFinite DEF HoldersOf
  <2>4. H1 <= H + hit
    BY <1>3, OneMoreHolder
  <2>5. H2 <= H1 /\ H3 <= H2
    BY <1>6, FewerHolders
  <2>6. F + H <= ArrivalsOf(m, k)
    BY <2>1 DEF DeliveriesPaidFor
  <2>7. F \in Nat /\ (ProcessYields(muxed) => F' = F + (IF frame[0].id = m THEN 1 ELSE 0))
    <3>1. delivered \in Seq(UNION {Rendering(x) : x \in Messages})
      BY DEF IInv, TypeOK
    <3>2. F \in Nat /\ Cardinality(FramesOf(Append(delivered, frame), m))
                         = F + (IF frame[0].id = m THEN 1 ELSE 0)
      BY <3>1, OneMoreFrame
    <3>3. ProcessYields(muxed) => FramesOf(delivered, m)' = FramesOf(Append(delivered, frame), m)
      BY <1>4 DEF FramesOf
    <3>4. QED
      BY <3>2, <3>3
  <2>8. ProcessYields(muxed) /\ frame[0].id = m => H2 + 1 <= H1
    <3> SUFFICES ASSUME ProcessYields(muxed), frame[0].id = m PROVE H2 + 1 <= H1
      OBVIOUS
    <3>1. PICK i \in Slots : Collected(Process(muxed)[i]) = {} /\ Holds(muxed[i], m, k)
      BY <1>1, <1>2, ProcessPays DEF frame
    <3> DEFINE A == HoldersOf(muxed, m, k)
               B == HoldersOf(Process(muxed), m, k)
    <3>2. B \in SUBSET (A \ {i}) /\ i \in A
      BY <3>1, <1>6 DEF HoldersOf, Holds, Within
    <3>3. IsFiniteSet(A) /\ Cardinality(A) \in Nat /\ Cardinality(B) \in Nat
      BY SlotsFinite DEF HoldersOf
    <3> HIDE DEF A, B
    <3>4. IsFiniteSet(A \ {i}) /\ Cardinality(A \ {i}) = Cardinality(A) - 1
      BY <3>2, <3>3, FS_RemoveElement
    <3>5. Cardinality(B) <= Cardinality(A \ {i})
      BY <3>2, <3>4, FS_Subset
    <3>6. Cardinality(B) + 1 <= Cardinality(A)
      BY <3>3, <3>4, <3>5
    <3>7. QED
      BY <3>6 DEF A, B
  <2>9. ~ProcessYields(muxed) => F' = F
    BY <1>4 DEF FramesOf
  <2>10. hit \in 0..1
    OBVIOUS
  <2> HIDE DEF F, H, H1, H2, H3, hit
  <2>11. F' + H3 <= ArrivalsOf(m, k) + hit
    <3>1. CASE ProcessYields(muxed) /\ frame[0].id = m
      BY <3>1, <2>2, <2>3, <2>4, <2>5, <2>6, <2>7, <2>8, <2>10
    <3>2. CASE ~(ProcessYields(muxed) /\ frame[0].id = m)
      BY <3>2, <2>2, <2>3, <2>4, <2>5, <2>6, <2>7, <2>9, <2>10
    <3>3. QED
      BY <3>1, <3>2
  <2>12. QED
    BY <2>1, <2>2, <2>11
<1>8. QED
  BY <1>7 DEF DeliveriesPaidFor

LEMMA InitPaid == Init => DeliveriesPaidFor
<1> SUFFICES ASSUME Init, NEW m \in Messages, NEW k \in 0..(SegCount[m] - 1)
             PROVE  Copies(m, k) <= ArrivalsOf(m, k)
  BY DEF DeliveriesPaidFor
<1>1. FramesOf(delivered, m) = {}
  BY DEF Init, FramesOf
<1>2. HoldersOf(queue, m, k) = {}
  <2>1. \A i \in Slots : Collected(queue[i]) = {}
    BY DEF Init, EmptySlot, Collected
  <2>2. QED
    BY <2>1 DEF HoldersOf, Holds
<1>3. Copies(m, k) = 0
  BY <1>1, <1>2, CopiesParts, FS_EmptySet
<1>4. Segment(m, k, TRUE) \in Datagrams /\ (MayCorrupt => Segment(m, k, FALSE) \in Datagrams)
  BY SegmentIsDatagram DEF Intactness
<1>5. ArrivalsOf(m, k) = 0
  <2>1. arrived[Segment(m, k, TRUE)] = 0 /\ (MayCorrupt => arrived[Segment(m, k, FALSE)] = 0)
    BY <1>4 DEF Init
  <2>2. QED
    <3>1. CASE MayCorrupt
      <4>1. ArrivalsOf(m, k) = arrived[Segment(m, k, TRUE)] + arrived[Segment(m, k, FALSE)]
        BY <3>1, Zenon DEF ArrivalsOf
      <4>2. arrived[Segment(m, k, TRUE)] = 0 /\ arrived[Segment(m, k, FALSE)] = 0
        BY <2>1, <3>1, Zenon
      <4>3. QED
        BY <4>1, <4>2
    <3>2. CASE ~MayCorrupt
      BY <2>1, <3>2 DEF ArrivalsOf
    <3>3. QED
      BY <3>1, <3>2
<1>6. QED
  BY <1>3, <1>5

LEMMA NextPaid == IInv /\ DeliveriesPaidFor /\ [Next]_vars => DeliveriesPaidFor'
<1> SUFFICES ASSUME IInv, DeliveriesPaidFor, [Next]_vars PROVE DeliveriesPaidFor'
  OBVIOUS
<1>1. ASSUME UNCHANGED <<arrived, queue, delivered>> PROVE DeliveriesPaidFor'
  BY <1>1 DEF DeliveriesPaidFor, Copies, ArrivalsOf
<1>2. ASSUME NEW d \in Datagrams, Receive(d) PROVE DeliveriesPaidFor'
  BY <1>2, ReceivePays
<1>3. QED
  BY <1>1, <1>2 DEF Next, vars, Transmit, Lose, Duplicate, Corrupt, Tick, SetClockBack

--------------------------------------------------------------------------------
(* Without duplicates: of each segment there is one copy at most, intact or *)
(* damaged, and no two slots collect the same message.                      *)
Total(d) == inflight[d] + arrived[d]

OnceInv ==
  /\ \A d \in Datagrams : Total(d) <= 1 /\ (arrived[d] > 0 => d.id \in sent)
  /\ \A d, e \in Datagrams :
       d.id = e.id /\ d.seq = e.seq /\ d # e => Total(d) + Total(e) <= 1

OneSlot(q) ==
  \A i, j \in Slots :
    ~IsEmpty(q[i]) /\ ~IsEmpty(q[j]) /\ q[i].packets[1].id = q[j].packets[1].id => i = j

UniqueInv == IInv /\ DeliveriesPaidFor /\ OnceInv /\ OneSlot(queue)

LEMMA InitUnique == Init => UniqueInv
<1> SUFFICES ASSUME Init PROVE UniqueInv
  OBVIOUS
<1>1. OnceInv
  BY DEF Init, OnceInv, Total
<1>2. OneSlot(queue)
  BY DEF Init, OneSlot, EmptySlot, IsEmpty
<1>3. QED
  BY <1>1, <1>2, InitIInv, InitPaid DEF UniqueInv

LEMMA OnceStep ==
  ASSUME MaxCopies <= 1, IInv, OnceInv, [Next]_vars
  PROVE  OnceInv'
<1>1. inflight \in [Datagrams -> Nat] /\ arrived \in [Datagrams -> Nat]
  BY DEF IInv, TypeOK
<1>2. ASSUME NEW m \in Messages, Transmit(m) PROVE OnceInv'
  <2>1. /\ m \notin sent /\ sent' = sent \cup {m} /\ arrived' = arrived
        /\ \A d \in Datagrams : inflight'[d] = IF d.id = m /\ d.intact THEN inflight[d] + 1
                                                                       ELSE inflight[d]
    BY <1>2 DEF Transmit
  <2>2. \A d \in Datagrams : d.id = m => inflight[d] = 0 /\ arrived[d] = 0
    BY <1>1, <2>1 DEF IInv, MediumInv, OnceInv
  <2>3. \A d, e \in Datagrams : d.id = e.id /\ d.seq = e.seq /\ d.intact /\ e.intact => d = e
    <3> SUFFICES ASSUME NEW d \in Datagrams, NEW e \in Datagrams,
                        d.id = e.id, d.seq = e.seq, d.intact, e.intact
                 PROVE  d = e
      OBVIOUS
    <3>1. d.intact \in BOOLEAN /\ e.intact \in BOOLEAN
      BY DatagramFields DEF Intactness
    <3>2. d.intact = e.intact
      BY <3>1
    <3>3. d = Segment(d.id, d.seq, d.intact) /\ e = Segment(e.id, e.seq, e.intact)
      BY DatagramFields
    <3>4. d = Segment(e.id, e.seq, e.intact)
      BY <3>2, <3>3 DEF Segment
    <3>5. QED
      BY <3>3, <3>4
  <2>4. \A d \in Datagrams : /\ d.id # m => Total(d)' = Total(d)
                             /\ d.id = m /\ d.intact => Total(d)' = 1
                             /\ d.id = m /\ ~d.intact => Total(d)' = 0
    BY <1>1, <2>1, <2>2 DEF Total
  <2>5. \A d \in Datagrams : Total(d)' <= 1 /\ (arrived'[d] > 0 => d.id \in sent')
    BY <1>1, <2>1, <2>4 DEF OnceInv
  <2>6. ASSUME NEW d \in Datagrams, NEW e \in Datagrams, d.id = e.id, d.seq = e.seq, d # e
        PROVE  Total(d)' + Total(e)' <= 1
    <3>1. CASE d.id # m
      BY <2>4, <2>6, <3>1 DEF OnceInv
    <3>2. CASE d.id = m
      <4>1. e.id = m
        BY <2>6, <3>2
      <4>2. Total(d)' \in {0, 1} /\ Total(e)' \in {0, 1}
        BY <2>4, <3>2, <4>1, Zenon
      <4>3. ~(d.intact /\ e.intact)
        BY <2>3, <2>6, Zenon
      <4>4. Total(d)' = 0 \/ Total(e)' = 0
        BY <2>4, <3>2, <4>1, <4>3, Zenon
      <4>5. QED
        BY <4>2, <4>4
    <3>3. QED
      BY <3>1, <3>2
  <2>7. QED
    BY <2>5, <2>6 DEF OnceInv
<1>3. ASSUME NEW d \in Datagrams, Lose(d) PROVE OnceInv'
  BY <1>1, <1>3 DEF Lose, OnceInv, Total
<1>4. ASSUME NEW d \in Datagrams, Duplicate(d) PROVE FALSE
  BY <1>1, <1>4, MaxCopiesAssumption DEF Duplicate
<1>5. ASSUME NEW d \in Datagrams, Corrupt(d) PROVE OnceInv'
  <2> DEFINE damaged == Segment(d.id, d.seq, FALSE)
  <2>1. damaged.id = d.id /\ damaged.seq = d.seq /\ damaged # d
    BY <1>5 DEF Segment, Corrupt
  <2>2. damaged \in Datagrams
    <3>1. d.id \in Messages /\ d.seq \in 0..(SegCount[d.id] - 1) /\ FALSE \in Intactness
      BY <1>5, DatagramFields DEF Corrupt, Intactness
    <3>2. QED
      BY <3>1, SegmentIsDatagram
  <2>3. /\ inflight' = [inflight EXCEPT ![d] = @ - 1, ![damaged] = @ + 1] /\ inflight[d] > 0
        /\ arrived' = arrived /\ sent' = sent
    BY <1>5 DEF Corrupt
  <2> HIDE DEF damaged
  <2>4. Total(d) = 1 /\ Total(damaged) = 0
    BY <1>1, <2>1, <2>2, <2>3 DEF OnceInv, Total
  <2>5. \A e \in Datagrams : /\ e = d => Total(e)' = 0
                             /\ e = damaged => Total(e)' = 1
                             /\ e \notin {d, damaged} => Total(e)' = Total(e)
    BY <1>1, <2>1, <2>2, <2>3, <2>4 DEF Total
  <2>6. \A e \in Datagrams : Total(e) \in Nat
    BY <1>1 DEF Total
  <2>7. \A e \in Datagrams : e.id = d.id /\ e.seq = d.seq /\ e # d => Total(e) = 0
    BY <2>4, <2>6 DEF OnceInv
  <2>8. QED
    BY <2>1, <2>2, <2>3, <2>4, <2>5, <2>6, <2>7 DEF OnceInv
<1>6. ASSUME NEW d \in Datagrams, Receive(d) PROVE OnceInv'
  <2>1. d.id \in sent /\ sent' = sent
    BY <1>6 DEF IInv, MediumInv, Receive
  <2>2. /\ arrived' = [arrived EXCEPT ![d] = @ + 1]
        /\ inflight' = [inflight EXCEPT ![d] = @ - 1] /\ inflight[d] > 0
    BY <1>6 DEF Receive
  <2>3. \A e \in Datagrams : Total(e)' = Total(e) /\ (arrived'[e] > 0 => e.id \in sent)
    BY <1>1, <2>1, <2>2 DEF Total, OnceInv
  <2>4. QED
    BY <2>1, <2>3 DEF OnceInv
<1>7. ASSUME UNCHANGED <<sent, inflight, arrived>> PROVE OnceInv'
  BY <1>7 DEF OnceInv, Total
<1>8. QED
  BY <1>2, <1>3, <1>4, <1>5, <1>6, <1>7 DEF Next, vars, Tick, SetClockBack

(* A segment on its way has not been collected.                             *)
LEMMA FirstArrival ==
  ASSUME UniqueInv, NEW d \in Datagrams, inflight[d] > 0, NEW i \in Slots
  PROVE  ~Holds(queue[i], d.id, d.seq)
<1> SUFFICES ASSUME Holds(queue[i], d.id, d.seq) PROVE FALSE
  OBVIOUS
<1> DEFINE m    == d.id
           k    == d.seq
           good == Segment(m, k, TRUE)
           bad  == Segment(m, k, FALSE)
<1>1. m \in Messages /\ k \in 0..(SegCount[m] - 1)
  BY DatagramFields
<1>2. good \in Datagrams /\ (MayCorrupt => bad \in Datagrams)
  BY <1>1, SegmentIsDatagram DEF Intactness
<1>3. good.id = m /\ good.seq = k /\ bad.id = m /\ bad.seq = k
  BY DEF Segment
<1>4. \A e \in Datagrams : e.id = m /\ e.seq = k => arrived[e] = 0
  BY DEF UniqueInv, OnceInv, Total, IInv, TypeOK
<1>5. ArrivalsOf(m, k) = 0
  <2>1. arrived[good] = 0 /\ (MayCorrupt => arrived[bad] = 0)
    BY <1>2, <1>3, <1>4
  <2>2. CASE MayCorrupt
    <3>1. ArrivalsOf(m, k) = arrived[good] + arrived[bad]
      BY <2>2, Zenon DEF ArrivalsOf
    <3>2. arrived[bad] = 0
      BY <2>1, <2>2, Zenon
    <3>3. QED
      BY <2>1, <3>1, <3>2
  <2>3. CASE ~MayCorrupt
    BY <2>1, <2>3 DEF ArrivalsOf
  <2>4. QED
    BY <2>2, <2>3
<1>6. Copies(m, k) <= 0
  BY <1>1, <1>5 DEF UniqueInv, DeliveriesPaidFor
<1> HIDE DEF m, k
<1>7. Cardinality(FramesOf(delivered, m)) \in Nat
  <2>1. delivered \in Seq(UNION {Rendering(x) : x \in Messages})
    BY DEF UniqueInv, IInv, TypeOK
  <2>2. QED
    BY <2>1, OneMoreFrame
<1>8. i \in HoldersOf(queue, m, k)
  BY DEF HoldersOf, m, k
<1>9. IsFiniteSet(HoldersOf(queue, m, k)) /\ Cardinality(HoldersOf(queue, m, k)) \in Nat
  BY SlotsFinite DEF HoldersOf
<1>10. Cardinality(HoldersOf(queue, m, k)) # 0
  BY <1>8, <1>9, FS_EmptySet
<1>11. QED
  BY <1>6, <1>7, <1>9, <1>10, CopiesParts

LEMMA JoinsItsSlot ==
  ASSUME UniqueInv, NEW d \in Datagrams, inflight[d] > 0, d.seq_count <= R,
         NEW i \in Slots, ~IsEmpty(queue[i]), queue[i].packets[1].id = d.id
  PROVE  i \in Joinable(queue, d)
<1> DEFINE slot == queue[i]
<1>1. WellFormed(slot, sent) /\ ~CanAssemble(slot)
  BY DEF UniqueInv, IInv, QueueInv, NoBacklog, Ready
<1>2. slot.count \in 0..R /\ slot.count # 0 /\ R \in Nat
  BY <1>1, RAssumption DEF WellFormed, SlotType, IsEmpty
<1>3. slot.packets[1] \in Datagrams
  BY <1>1, <1>2 DEF WellFormed
<1>4. slot.packets[1].seq_count = d.seq_count /\ d.seq_count \in Nat
  BY <1>3, DatagramFields
<1>5. slot.count < R
  BY <1>1, <1>2, <1>4 DEF CanAssemble
<1>6. ASSUME NEW l \in 1..slot.count
      PROVE  slot.packets[l].id = d.id /\ slot.packets[l].seq # d.seq
  <2>1. slot.packets[l].id = d.id
    BY <1>1, <1>2 DEF WellFormed
  <2>2. slot.packets[l] \in Collected(slot)
    BY DEF Collected
  <2>3. QED
    BY <2>1, <2>2, FirstArrival DEF Holds
<1>7. QED
  BY <1>5, <1>6 DEF Joinable, Accepts

(* Slots are left as they are or emptied. *)
Shrinks(r, q) == \A i \in Slots : IsEmpty(r[i]) \/ r[i] = q[i]

LEMMA ShrunkOneSlot ==
  ASSUME NEW q, NEW r, OneSlot(q), Shrinks(r, q)
  PROVE  OneSlot(r)
<1> SUFFICES ASSUME NEW i \in Slots, NEW j \in Slots, ~IsEmpty(r[i]), ~IsEmpty(r[j]),
                    r[i].packets[1].id = r[j].packets[1].id
             PROVE  i = j
  BY DEF OneSlot
<1>1. r[i] = q[i] /\ r[j] = q[j]
  BY DEF Shrinks
<1>2. QED
  BY <1>1 DEF OneSlot

LEMMA ReleasedShrinks ==
  ASSUME NEW S, NEW q, WellFormedTable(q, S), NEW t
  PROVE  Shrinks(ReleaseExpired(q, t), q) /\ Shrinks(Process(q), q)
<1>1. \A i \in Slots : IsEmpty(Released(q[i]))
  BY ReleasedSlot DEF WellFormedTable
<1>2. Shrinks(ReleaseExpired(q, t), q)
  BY <1>1 DEF Shrinks, ReleaseExpired
<1>3. Shrinks(Process(q), q)
  BY <1>1 DEF Shrinks, Process, WellFormedTable
<1>4. QED
  BY <1>2, <1>3

LEMMA MultiplexOneSlot ==
  ASSUME UniqueInv, NEW d \in Datagrams, inflight[d] > 0
  PROVE  OneSlot(Multiplex(queue, now, d))
<1> DEFINE join  == Joinable(queue, d)
           reuse == Reusable(queue, now)
<1>1. /\ Slots \in SUBSET Nat
      /\ queue \in [Slots -> SlotType] /\ WellFormedTable(queue, sent) /\ OneSlot(queue)
  BY QAssumption DEF Slots, UniqueInv, IInv, QueueInv, WellFormedTable
<1>2. CASE join # {}
  <2>1. Min(join) \in join /\ Min(join) \in Slots
    BY <1>1, <1>2, MinIsLeast DEF Joinable
  <2>2. PICK j \in Slots : j = Min(join)
    BY <2>1
  <2> DEFINE new == Pushed(queue[j], now, d)
  <2>3. Multiplex(queue, now, d) = [queue EXCEPT ![j] = new]
    BY <1>2, <2>2 DEF Multiplex
  <2>4. ~IsEmpty(queue[j]) /\ queue[j].count \in 0..R /\ R \in Nat
        /\ queue[j].packets \in [1..R -> Datagrams \cup {Blank}]
    <3>1. ~IsEmpty(queue[j])
      BY <2>1, <2>2 DEF Joinable
    <3>2. queue[j] \in SlotType
      BY <1>1
    <3>3. QED
      BY <3>1, <3>2, RAssumption DEF SlotType
  <2>5. new.packets[1] = queue[j].packets[1]
    BY <2>4 DEF Pushed, IsEmpty
  <2> HIDE DEF new
  <2>6. QED
    BY <1>1, <2>3, <2>4, <2>5 DEF OneSlot
<1>3. CASE join = {} /\ d.seq_count > R
  <2>1. Multiplex(queue, now, d) = ReleaseExpired(queue, now)
    BY <1>3 DEF Multiplex
  <2>2. QED
    BY <2>1, <1>1, ReleasedShrinks, ShrunkOneSlot
<1>4. CASE join = {} /\ ~(d.seq_count > R) /\ reuse # {}
  <2>1. Min(reuse) \in Slots
    BY <1>1, <1>4, MinIsLeast DEF Reusable
  <2>2. PICK j \in Slots : j = Min(reuse)
    BY <2>1
  <2> DEFINE new == Pushed(Released(queue[j]), now, d)
  <2>3. Multiplex(queue, now, d) = [queue EXCEPT ![j] = new]
    BY <1>4, <2>2 DEF Multiplex
  <2>4. new.packets[1] = d
    <3>1. queue[j] \in SlotType /\ 1 \in 1..R
      BY <1>1, RAssumption
    <3>2. /\ Released(queue[j]).packets \in [1..R -> Datagrams \cup {Blank}]
          /\ Released(queue[j]).count = 0
      BY <3>1 DEF Released, SlotType
    <3>3. QED
      <4>1. new.packets = [Released(queue[j]).packets EXCEPT ![1] = d]
        BY <3>2 DEF Pushed
      <4>2. QED
        BY <3>1, <3>2, <4>1
  <2>5. d.seq_count <= R
    BY <1>4, DatagramFields, RAssumption
  <2>6. \A i \in Slots : ~IsEmpty(queue[i]) => queue[i].packets[1].id # d.id
    BY <1>4, <2>5, JoinsItsSlot
  <2> HIDE DEF new
  <2>7. QED
    BY <1>1, <2>3, <2>4, <2>6 DEF OneSlot
<1>5. CASE join = {} /\ ~(d.seq_count > R) /\ reuse = {}
  BY <1>1, <1>5 DEF Multiplex
<1>6. QED
  BY <1>2, <1>3, <1>4, <1>5

LEMMA NextUnique ==
  ASSUME MaxCopies <= 1, UniqueInv, [Next]_vars
  PROVE  UniqueInv'
<1>1. IInv' /\ DeliveriesPaidFor' /\ OnceInv'
  BY NextIInv, NextPaid, OnceStep DEF UniqueInv
<1>2. ASSUME NEW d \in Datagrams, Receive(d) PROVE OneSlot(queue)'
  <2> DEFINE muxed == Multiplex(queue, now, d)
  <2>1. /\ sent \in SUBSET Messages /\ now \in 0..MaxTime /\ d.id \in sent
        /\ WellFormedTable(queue, sent) /\ Ready(queue) = {} /\ inflight[d] > 0
    BY <1>2 DEF UniqueInv, IInv, TypeOK, QueueInv, MediumInv, NoBacklog, WellFormedTable, Receive
  <2>2. WellFormedTable(muxed, sent) /\ \E i \in Slots : Ready(muxed) \subseteq {i}
    BY <2>1, MultiplexTable
  <2>3. OneSlot(muxed)
    BY <2>1, MultiplexOneSlot
  <2>4. queue' = ReleaseExpired(Process(muxed), now)
    BY <1>2 DEF Receive
  <2> HIDE DEF muxed
  <2>5. WellFormedTable(Process(muxed), sent)
    BY <2>1, <2>2, ProcessTable
  <2>6. OneSlot(Process(muxed))
    BY <2>2, <2>3, ReleasedShrinks, ShrunkOneSlot
  <2>7. OneSlot(queue')
    BY <2>4, <2>5, <2>6, ReleasedShrinks, ShrunkOneSlot
  <2>8. QED
    BY <2>7 DEF OneSlot
<1>3. ASSUME queue' = queue PROVE OneSlot(queue)'
  BY <1>3 DEF OneSlot, UniqueInv
<1>4. OneSlot(queue)'
  BY <1>2, <1>3 DEF Next, vars, Transmit, Lose, Duplicate, Corrupt, Tick, SetClockBack
<1>5. QED
  BY <1>1, <1>4 DEF UniqueInv

(* A slot that holds every segment of its message is complete.              *)
LEMMA FullSlot ==
  ASSUME NEW S \in SUBSET Messages, NEW slot, WellFormed(slot, S), slot.count # 0,
         \A k \in 0..(SegCount[slot.packets[1].id] - 1) : Holds(slot, slot.packets[1].id, k)
  PROVE  CanAssemble(slot)
<1> DEFINE n == slot.count
           m == slot.packets[1].id
           seqOf == [i \in 1..n |-> slot.packets[i].seq]
<1>1. n \in 1..R /\ R \in Nat
  BY RAssumption DEF WellFormed, SlotType
<1>2. ASSUME NEW i \in 1..n
      PROVE  /\ slot.packets[i].seq \in 0..(SegCount[m] - 1)
             /\ slot.packets[i].seq_count = SegCount[m] /\ SegCount[m] \in Nat
  <2>1. slot.packets[i] \in Datagrams /\ slot.packets[i].id = m
    BY <1>1 DEF WellFormed
  <2>2. QED
    BY <2>1, DatagramFields
<1>3. seqOf \in Surjection(1..n, 0..(SegCount[m] - 1))
  <2>1. seqOf \in [1..n -> 0..(SegCount[m] - 1)]
    BY <1>2
  <2>2. ASSUME NEW k \in 0..(SegCount[m] - 1) PROVE \E i \in 1..n : seqOf[i] = k
    BY DEF Holds, Collected
  <2>3. QED
    BY <2>1, <2>2 DEF Surjection
<1>4. SegCount[m] \in Nat /\ slot.packets[1].seq_count = SegCount[m]
  BY <1>1, <1>2
<1>5. IsFiniteSet(1..n) /\ Cardinality(1..n) = n
  <2>1. 1 \in Int /\ n \in Int /\ n >= 1
    BY <1>1
  <2>2. IsFiniteSet(1..n) /\ Cardinality(1..n) = IF 1 > n THEN 0 ELSE n - 1 + 1
    BY <2>1, FS_Interval
  <2>3. QED
    BY <2>1, <2>2
<1>6. Cardinality(0..(SegCount[m] - 1)) = SegCount[m]
  <2>1. 0 \in Int /\ SegCount[m] - 1 \in Int
    BY <1>4
  <2>2. Cardinality(0..(SegCount[m] - 1)) = IF 0 > SegCount[m] - 1 THEN 0 ELSE SegCount[m] - 1 - 0 + 1
    BY <2>1, FS_Interval
  <2>3. QED
    BY <2>2, <1>4
<1>7. Cardinality(0..(SegCount[m] - 1)) <= Cardinality(1..n)
  BY <1>3, <1>5, FS_Surjection
<1>8. QED
  BY <1>1, <1>4, <1>5, <1>6, <1>7 DEF CanAssemble

LEMMA LastSegmentStep ==
  ASSUME UniqueInv, NEW d \in Datagrams, Receive(d),
         NEW i \in Slots, Completes(queue[i], d)
  PROVE  /\ Len(delivered') = Len(delivered) + 1
         /\ delivered'[Len(delivered')] \in Rendering(d.id)
<1> DEFINE slot  == queue[i]
           new   == Pushed(queue[i], now, d)
           muxed == Multiplex(queue, now, d)
           m     == d.id
<1>1. /\ sent \in SUBSET Messages /\ now \in 0..MaxTime /\ m \in sent
      /\ WellFormedTable(queue, sent) /\ Ready(queue) = {} /\ inflight[d] > 0
      /\ queue \in [Slots -> SlotType] /\ WellFormed(slot, sent)
  BY DEF UniqueInv, IInv, TypeOK, QueueInv, MediumInv, NoBacklog, WellFormedTable, Receive
<1>2. /\ \A k \in 0..(SegCount[m] - 1) : k # d.seq => Holds(slot, m, k)
      /\ SegCount[m] \in 2..R /\ d.seq_count = SegCount[m] /\ d.seq \in 0..(SegCount[m] - 1)
  BY DatagramFields DEF Completes, Holds
<1>3. PICK k \in 0..(SegCount[m] - 1) : k # d.seq
  <2>1. 0 \in 0..(SegCount[m] - 1) /\ 1 \in 0..(SegCount[m] - 1)
    BY <1>2
  <2>2. QED
    BY <2>1
<1>4. ~IsEmpty(slot) /\ slot.packets[1].id = m
  <2>1. slot.count \in 0..R /\ R \in Nat
    BY <1>1, RAssumption DEF SlotType
  <2>2. PICK l \in 1..slot.count : slot.packets[l].id = m
    BY <1>2, <1>3 DEF Holds, Collected
  <2>3. slot.count # 0 /\ 1 \in 1..slot.count
    BY <2>1, <2>2
  <2>4. QED
    BY <1>1, <2>2, <2>3 DEF WellFormed, IsEmpty
<1>5. d.seq_count <= R
  BY <1>2
<1>6. i \in Joinable(queue, d)
  BY <1>1, <1>4, <1>5, JoinsItsSlot
<1>7. \A j \in Joinable(queue, d) : j = i
  BY <1>4 DEF UniqueInv, OneSlot, Joinable
<1>8. Min(Joinable(queue, d)) = i
  <2>1. Joinable(queue, d) \in SUBSET Nat
    BY QAssumption DEF Joinable, Slots
  <2>2. Min(Joinable(queue, d)) \in Joinable(queue, d)
    BY <1>6, <2>1, MinIsLeast
  <2>3. QED
    BY <2>2, <1>7
<1>9. muxed = [queue EXCEPT ![i] = new]
  BY <1>6, <1>8 DEF Multiplex
<1>10. Accepts(slot, d)
  BY <1>6 DEF Joinable
<1>11. WellFormed(new, sent)
  BY <1>1, <1>10, PushedSlot
<1>12. new.count # 0 /\ new.packets[1].id = m
  <2>1. slot.count \in 0..R /\ R \in Nat /\ slot.packets \in [1..R -> Datagrams \cup {Blank}]
    BY <1>1, RAssumption DEF SlotType
  <2>2. QED
    BY <2>1, <1>4 DEF Pushed, IsEmpty
<1>13. Collected(new) = Collected(slot) \cup {d}
  BY <1>1, <1>10, SlotContents DEF Accepts
<1> HIDE DEF new, slot
<1>14. \A j \in 0..(SegCount[m] - 1) : Holds(new, m, j)
  BY <1>2, <1>13 DEF Holds
<1>15. CanAssemble(new)
  BY <1>1, <1>11, <1>12, <1>14, FullSlot
<1>16. muxed[i] = new
  BY <1>1, <1>9
<1>17. Ready(muxed) \subseteq {i}
  BY <1>1, <1>9, <1>11, UpdatedTable
<1>18. Ready(muxed) = {i}
  BY <1>15, <1>16, <1>17 DEF Ready
<1>19. Min(Ready(muxed)) = i
  <2>1. Ready(muxed) \in SUBSET Nat
    BY QAssumption DEF Ready, Slots
  <2>2. QED
    BY <2>1, <1>18, MinIsLeast
<1>20. AssembleSucceeds(new) /\ Assembled(new) \in Rendering(m)
  BY <1>1, <1>11, <1>12, <1>15, CompleteSlotAssembles
<1>21. ProcessYields(muxed) /\ ProcessFrame(muxed) = Assembled(new)
  BY <1>16, <1>18, <1>19, <1>20 DEF ProcessYields, ProcessFrame
<1>22. delivered' = Append(delivered, Assembled(new))
  BY <1>21 DEF Receive
<1>23. delivered \in Seq(UNION {Rendering(x) : x \in Messages})
  BY DEF UniqueInv, IInv, TypeOK
<1>24. QED
  BY <1>20, <1>22, <1>23

--------------------------------------------------------------------------------
(* Every state is well typed: no slot counts past its array and no frame    *)
(* handed up is anything but a reading of a message.                        *)
THEOREM TypeCorrect == Spec => []TypeOK
<1>1. IInv => TypeOK
  BY DEF IInv
<1>2. QED
  BY <1>1, InitIInv, NextIInv, PTL DEF Spec

(* Every frame ControllerNetwork::receive hands up is all the segments of   *)
(* one transmitted message in order, whatever stale entries the slot held.  *)
THEOREM DeliveredWholeAlways == Spec => []DeliveredWhole
<1>1. IInv => DeliveredWhole
  BY DEF IInv
<1>2. QED
  BY <1>1, InitIInv, NextIInv, PTL DEF Spec

(* No complete message is ever left in the table after a receive, so one    *)
(* call of Muxer::process per datagram is enough.                           *)
THEOREM NoBacklogAlways == Spec => []NoBacklog
<1>1. IInv => NoBacklog
  BY DEF IInv
<1>2. QED
  BY <1>1, InitIInv, NextIInv, PTL DEF Spec

(* A message comes up no more often than each of its segments arrived,      *)
(* counting those still collected: however datagrams are repeated, damaged, *)
(* lost and reordered, and whatever the table has room for.                 *)
THEOREM PaidForAlways == Spec => []DeliveriesPaidFor
<1>1. IInv /\ DeliveriesPaidFor /\ [Next]_vars => (IInv /\ DeliveriesPaidFor)'
  BY NextIInv, NextPaid
<1>2. QED
  BY <1>1, InitIInv, InitPaid, PTL DEF Spec

(* When no datagram is duplicated, the last missing segment delivers its    *)
(* message in the call that receives it: only one slot collects the message *)
(* then, and it takes the segment whatever the clock says.                  *)
THEOREM LastSegmentAlwaysDelivers ==
  ASSUME MaxCopies <= 1
  PROVE  Spec => LastSegmentDelivers
<1> DEFINE Completed(d) ==
             /\ arrived'[d] = arrived[d] + 1
             /\ \E i \in Slots : Completes(queue[i], d)
             => /\ Len(delivered') = Len(delivered) + 1
                /\ delivered'[Len(delivered')] \in Rendering(d.id)
<1>1. UniqueInv /\ [Next]_vars => [\A d \in Datagrams : Completed(d)]_vars
  <2> SUFFICES ASSUME UniqueInv, [Next]_vars, NEW d \in Datagrams,
                      arrived'[d] = arrived[d] + 1,
                      NEW i \in Slots, Completes(queue[i], d)
               PROVE  /\ Len(delivered') = Len(delivered) + 1
                      /\ delivered'[Len(delivered')] \in Rendering(d.id)
    OBVIOUS
  <2>1. arrived \in [Datagrams -> Nat]
    BY DEF UniqueInv, IInv, TypeOK
  <2>2. arrived' # arrived
    BY <2>1
  <2>3. PICK e \in Datagrams : Receive(e)
    BY <2>2 DEF Next, vars, Transmit, Lose, Duplicate, Corrupt, Tick, SetClockBack
  <2>4. e = d
    BY <2>1, <2>3 DEF Receive
  <2>5. QED
    BY <2>3, <2>4, LastSegmentStep
<1>2. UniqueInv /\ [Next]_vars => UniqueInv'
  BY NextUnique
<1>3. QED
  BY <1>1, <1>2, InitUnique, PTL DEF Spec, LastSegmentDelivers

(* The segmentation layer implements the abstract channel: every step is a  *)
(* transmission, the delivery of a transmitted message, or a stutter.       *)
THEOREM ImplementsDelivery == Spec => DeliversMessages
<1>1. Init => Promise!Init
  BY DEF Init, Promise!Init
<1>2. IInv /\ [Next]_vars => [Promise!Next]_<<sent, delivered>>
  <2> SUFFICES ASSUME IInv, [Next]_vars
               PROVE  [Promise!Next]_<<sent, delivered>>
    OBVIOUS
  <2>1. ASSUME NEW m \in Messages, Transmit(m)
        PROVE  Promise!Next
    BY <2>1 DEF Transmit, Promise!Next, Promise!Transmit
  <2>2. ASSUME NEW d \in Datagrams, Lose(d) \/ Duplicate(d) \/ Corrupt(d)
        PROVE  UNCHANGED <<sent, delivered>>
    BY <2>2 DEF Lose, Duplicate, Corrupt
  <2>3. ASSUME NEW d \in Datagrams, Receive(d)
        PROVE  Promise!Next \/ UNCHANGED <<sent, delivered>>
    <3>1. CASE UNCHANGED <<sent, delivered>>
      BY <3>1
    <3>2. ASSUME NEW m \in sent, NEW f \in Rendering(m),
                 delivered' = Append(delivered, f), UNCHANGED sent
          PROVE  Promise!Next
      <4>1. m \in Messages
        BY DEF IInv, TypeOK
      <4>2. Promise!Deliver(m)
        BY <3>2, <4>1 DEF Promise!Deliver
      <4>3. QED
        BY <4>1, <4>2 DEF Promise!Next
    <3>3. QED
      BY <2>3, <3>1, <3>2, ReceiveStep
  <2>4. CASE Tick \/ SetClockBack \/ UNCHANGED vars
    BY <2>4 DEF Tick, SetClockBack, vars
  <2>5. QED
    BY <2>1, <2>2, <2>3, <2>4 DEF Next
<1>3. QED
  BY <1>1, <1>2, InitIInv, NextIInv, PTL DEF Spec, DeliversMessages, Promise!Spec
================================================================================
