-------------------------------- MODULE Network --------------------------------
(****************************************************************************)
(* Segmented messages from a sender to a receiver over UDP: the sender's    *)
(* Network::transmit (kaonic-net/src/network.rs, demuxer.rs), a medium that *)
(* loses, duplicates, reorders and corrupts payloads, and the receiver's    *)
(* ControllerNetwork::receive (kaonic-ctrl/src/network.rs), which decodes a *)
(* datagram, multiplexes it, and processes the table once.                  *)
(*                                                                          *)
(* A packet is its header fields id, seq and seq_count, and whether its     *)
(* payload is the bytes that were sent; id and seq say which bytes those    *)
(* are.  The id is the message: Generator::generate_packet_id draws 32      *)
(* random bits and messages in flight together are assumed to differ.  Each *)
(* packet carries the Segmented flag (demuxer.rs), so the NotSupported      *)
(* return of multiplex is never taken.                                      *)
(****************************************************************************)
EXTENDS Muxer, FiniteSets, Sequences

CONSTANTS
  Messages,       \* the calls of Network::transmit
  SegCount,       \* the number of segments each message is split into
  TxR,            \* the sender's R: its demuxer refuses longer messages
  MaxCopies,      \* bound: times one datagram exists in all
  MaxTime,        \* bound: the clock stops there
  MayCorrupt,     \* the medium damages payloads
  ClockSteps      \* the receiver's wall clock may be set back

ASSUME SegCountAssumption == SegCount \in [Messages -> Nat]
ASSUME TxRAssumption      == TxR \in 1..15
ASSUME MaxCopiesAssumption == MaxCopies \in Nat
ASSUME MaxTimeAssumption  == MaxTime \in Nat
ASSUME FlagsAssumption    == MayCorrupt \in BOOLEAN /\ ClockSteps \in BOOLEAN

VARIABLES
  sent,        \* messages transmitted
  inflight,    \* copies of each datagram in the medium
  arrived,     \* copies of each datagram received (history)
  now,         \* the receiver's wall clock, system_time()
  queue,       \* the receiver's reassembly table
  delivered    \* frames handed to the message decoder, in order (history)

vars == <<sent, inflight, arrived, now, queue, delivered>>

Intactness == IF MayCorrupt THEN BOOLEAN ELSE {TRUE}

Segment(m, k, ok) == [id |-> m, seq |-> k, seq_count |-> SegCount[m], intact |-> ok]

(* Packet::new(): nothing is read of it but its sequence number. *)
Blank == [id |-> "none", seq |-> 0, seq_count |-> 0, intact |-> TRUE]

Datagrams ==
  UNION {{Segment(m, k, ok) : k \in 0..(SegCount[m] - 1), ok \in Intactness} :
            m \in Messages}

(* The frames that are readings of a message: its segments, all of them, in *)
(* order, damaged only if the medium damages payloads.                      *)
Rendering(m) ==
  {[k \in 0..(SegCount[m] - 1) |-> Segment(m, k, ok[k])] :
      ok \in [0..(SegCount[m] - 1) -> Intactness]}

--------------------------------------------------------------------------------
Init ==
  /\ sent = {}
  /\ inflight = [d \in Datagrams |-> 0]
  /\ arrived = [d \in Datagrams |-> 0]
  /\ now = 0
  /\ queue = [i \in Slots |-> EmptySlot(Blank)]
  /\ delivered = <<>>

(* Demuxer::demultiplex and the send loop of Peer::serve; a message that    *)
(* does not fit is refused (PayloadTooBig) and nothing is sent.             *)
Transmit(m) ==
  /\ m \notin sent
  /\ SegCount[m] <= TxR
  /\ sent' = sent \cup {m}
  /\ inflight' = [d \in Datagrams |->
                    IF d.id = m /\ d.intact THEN inflight[d] + 1 ELSE inflight[d]]
  /\ UNCHANGED <<arrived, now, queue, delivered>>

Lose(d) ==
  /\ inflight[d] > 0
  /\ inflight' = [inflight EXCEPT ![d] = @ - 1]
  /\ UNCHANGED <<sent, arrived, now, queue, delivered>>

Duplicate(d) ==
  /\ inflight[d] > 0
  /\ inflight[d] + arrived[d] < MaxCopies
  /\ inflight' = [inflight EXCEPT ![d] = @ + 1]
  /\ UNCHANGED <<sent, arrived, now, queue, delivered>>

(* Payloads only, which the packet's CRC covers.  Nothing covers the header *)
(* (packet.rs): damage there makes a segment of another message, or of      *)
(* none, and is left out.                                                   *)
Corrupt(d) ==
  /\ MayCorrupt
  /\ inflight[d] > 0
  /\ d.intact
  /\ LET damaged == Segment(d.id, d.seq, FALSE)
     IN inflight' = [inflight EXCEPT ![d] = @ - 1, ![damaged] = @ + 1]
  /\ UNCHANGED <<sent, arrived, now, queue, delivered>>

(* Mutant: release_expired before multiplex. *)
ReceiveExpiringFirst(d) ==
  LET muxed == Multiplex(ReleaseExpired(queue, now), now, d)
  IN  /\ inflight[d] > 0
      /\ inflight' = [inflight EXCEPT ![d] = @ - 1]
      /\ arrived' = [arrived EXCEPT ![d] = @ + 1]
      /\ queue' = Process(muxed)
      /\ delivered' = IF ProcessYields(muxed)
                      THEN Append(delivered, ProcessFrame(muxed))
                      ELSE delivered
      /\ UNCHANGED <<sent, now>>

(* ControllerNetwork::receive. *)
Receive(d) ==
  LET muxed == Multiplex(queue, now, d)
  IN  /\ inflight[d] > 0
      /\ inflight' = [inflight EXCEPT ![d] = @ - 1]
      /\ arrived' = [arrived EXCEPT ![d] = @ + 1]
      /\ queue' = ReleaseExpired(Process(muxed), now)
      /\ delivered' = IF ProcessYields(muxed)
                      THEN Append(delivered, ProcessFrame(muxed))
                      ELSE delivered
      /\ UNCHANGED <<sent, now>>

Tick ==
  /\ now < MaxTime
  /\ now' = now + 1
  /\ UNCHANGED <<sent, inflight, arrived, queue, delivered>>

(* The clock is SystemTime::now(), which an administrator or NTP may set    *)
(* back; it is set forward by several Ticks.                                *)
SetClockBack ==
  /\ ClockSteps
  /\ \E t \in 0..MaxTime : t < now /\ now' = t
  /\ UNCHANGED <<sent, inflight, arrived, queue, delivered>>

Next ==
  \/ \E m \in Messages : Transmit(m)
  \/ \E d \in Datagrams : Lose(d) \/ Duplicate(d) \/ Corrupt(d) \/ Receive(d)
  \/ Tick
  \/ SetClockBack

Spec == Init /\ [][Next]_vars

--------------------------------------------------------------------------------
TypeOK ==
  /\ sent \subseteq Messages
  /\ inflight \in [Datagrams -> Nat]
  /\ arrived \in [Datagrams -> Nat]
  /\ now \in 0..MaxTime
  /\ queue \in [Slots -> [packets : [1..R -> Datagrams \cup {Blank}],
                          count : 0..R,
                          last_update_time : 0..MaxTime]]
  /\ delivered \in Seq(UNION {Rendering(m) : m \in Messages})

(* Every frame handed up is one transmitted message: all its segments, in   *)
(* order, none of another message and none left over in the slot from an    *)
(* earlier one (muxer.rs assemble searches the whole array, release does    *)
(* not clear it).                                                           *)
DeliveredWhole ==
  \A i \in 1..Len(delivered) : \E m \in sent : delivered[i] \in Rendering(m)

(* Between two receives no slot holds a complete packet: process runs once  *)
(* per datagram and only tries the first complete slot, so a second one     *)
(* would wait for unrelated traffic and block the slots behind it.          *)
NoBacklog == Ready(queue) = {}

(* Every delivery of a message is paid for by an arrival of each of its     *)
(* segments, and so is every segment still collected: a duplicate opens a   *)
(* second slot with the same id, but a message comes up twice only if every *)
(* segment came twice.                                                      *)
Copies(m, k) ==
  Cardinality({i \in DOMAIN delivered : delivered[i][0].id = m})
  + Cardinality({i \in Slots : \E p \in Collected(queue[i]) : p.id = m /\ p.seq = k})

ArrivalsOf(m, k) ==
  LET good == Segment(m, k, TRUE)
      bad  == Segment(m, k, FALSE)
  IN  arrived[good] + (IF MayCorrupt THEN arrived[bad] ELSE 0)

DeliveriesPaidFor ==
  \A m \in Messages : \A k \in 0..(SegCount[m] - 1) :
    Copies(m, k) <= ArrivalsOf(m, k)

(* When a slot holds all segments of a message but one, the arrival of that *)
(* one delivers the message in the same call, however late it is: the first *)
(* loop of multiplex does not look at the clock, and process runs before    *)
(* release_expired.  (Only without duplicates: a duplicate's slot that is   *)
(* earlier in the table would take the segment.)                            *)
Completes(slot, d) ==
  /\ \A k \in 0..(SegCount[d.id] - 1) :
       k # d.seq => \E p \in Collected(slot) : p.id = d.id /\ p.seq = k
  /\ SegCount[d.id] \in 2..R

LastSegmentDelivers ==
  [][\A d \in Datagrams :
       /\ arrived'[d] = arrived[d] + 1
       /\ \E i \in Slots : Completes(queue[i], d)
       => /\ Len(delivered') = Len(delivered) + 1
          /\ delivered'[Len(delivered')] \in Rendering(d.id)]_vars

(* The promise to the code above. *)
Promise == INSTANCE Delivery WITH
  Renderings <- [m \in Messages |-> Rendering(m)]

DeliversMessages == Promise!Spec
================================================================================
