----------------------------- MODULE PartsProofs ------------------------------
(****************************************************************************)
(* Proofs about the parts that MCParts puts side by side: the demultiplexer *)
(* (Demuxer), the monitor's table of sessions (Sessions), the client's event *)
(* stream (ClientEvents), the terminal client's form (Form), the checksums  *)
(* (Hasher), the terminal client's two tasks (Tui) and the round-trip       *)
(* measurement (Iperf).  The parts share no state, so each theorem is about *)
(* the part's own specification, but for the last one.                      *)
(****************************************************************************)
EXTENDS MCParts, ChannelsProofs, FiniteSetTheorems

--------------------------------------------------------------------------------
(****************************************************************************)
(* Demultiplexed, for every segment size, payload and number of packets.    *)
(*                                                                          *)
(* Tiling speaks of neighbours and is not inductive as it stands: what the  *)
(* loop's steps preserve is where each packet lies, the i-th at i - 1 whole *)
(* segments (Placed), and how far the loop has come (Reached).  The number  *)
(* of packets then follows from what DivRoundUp bounds.                     *)
(****************************************************************************)
Packets == [seq : Nat, seq_count : Nat, offset : Nat, len : Nat]

DemuxTypeInv ==
  /\ total_len \in Lengths
  /\ offset \in Nat
  /\ packets \in Seq(Packets)
  /\ seq = Len(packets)
  /\ result \in {"splitting", "Ok", "PayloadTooBig"}

(* Past the checks unless refused; nothing is split of a refused payload.   *)
Checked ==
  /\ result # "PayloadTooBig" => ~Refused(total_len)
  /\ result = "PayloadTooBig" => packets = <<>>

(* All packets so far are whole, or the payload is used up.                 *)
Reached ==
  \/ offset = seq * SegmentSize /\ offset <= total_len
  \/ /\ offset = total_len /\ seq > 0
     /\ (seq - 1) * SegmentSize < total_len /\ total_len <= seq * SegmentSize

PlacedAt(p, i) ==
  /\ p.seq = i - 1
  /\ p.seq_count = SeqCount
  /\ p.offset = (i - 1) * SegmentSize
  /\ (i - 1) * SegmentSize < total_len
  /\ p.len = IF i * SegmentSize < total_len THEN SegmentSize
             ELSE total_len - (i - 1) * SegmentSize

Placed == \A i \in 1..Len(packets) : PlacedAt(packets[i], i)

DemuxInv == DemuxTypeInv /\ Checked /\ Reached /\ Placed /\ (result = "Ok" => offset = total_len)

--------------------------------------------------------------------------------
(* DivRoundUp is the least number of d's that hold n.                       *)
LEMMA RoundUpBounds ==
  ASSUME NEW n \in Nat, NEW d \in Nat \ {0}
  PROVE  /\ DivRoundUp(n, d) \in Nat
         /\ n <= DivRoundUp(n, d) * d
         /\ DivRoundUp(n, d) * d < n + d
  <1> DEFINE q == n \div d
             r == n % d
  <1>1. q \in Nat /\ r \in Nat /\ r < d /\ n = d * q + r
    BY SMTT(20)
  <1> HIDE DEF q, r
  <1>2. (q + 1) * d = d * q + d /\ (q + 0) * d = d * q
    BY <1>1, SMT
  <1>3. DivRoundUp(n, d) = q + (IF r # 0 THEN 1 ELSE 0)
    BY DEF DivRoundUp, q, r
  <1>4. CASE r = 0
    BY <1>1, <1>2, <1>3, <1>4
  <1>5. CASE r # 0
    BY <1>1, <1>2, <1>3, <1>5
  <1> QED BY <1>4, <1>5

(* Multiples keep their order, by a whole d. *)
LEMMA Multiples ==
  ASSUME NEW a \in Nat, NEW b \in Nat, NEW d \in Nat \ {0}, a < b
  PROVE  a * d + d <= b * d
  <1>1. PICK k \in Nat : b = a + 1 + k
    <2> WITNESS b - a - 1 \in Nat
    <2> QED OBVIOUS
  <1>2. b * d = a * d + d + k * d
    BY <1>1
  <1>3. k * d \in Nat /\ a * d \in Nat
    OBVIOUS
  <1> QED BY <1>2, <1>3

(* One multiple more. *)
LEMMA OneMultipleMore ==
  ASSUME NEW a \in Nat, NEW d \in Nat
  PROVE  a * d \in Nat /\ (a + 1) * d = a * d + d /\ (a + 1 - 1) * d = a * d
  BY SMT

(* What the loop must not do is further than SeqCount packets.              *)
LEMMA NotBeyond ==
  ASSUME DemuxTypeInv, Reached, Looping
  PROVE  offset = seq * SegmentSize /\ seq < SeqCount /\ seq \in Nat
  <1>0. SegmentSize \in Nat \ {0} /\ total_len \in Nat /\ seq \in Nat
    BY SizesAssumption DEF DemuxTypeInv
  <1>1. offset = seq * SegmentSize /\ seq * SegmentSize < total_len
    BY <1>0 DEF Reached, Looping
  <1>2. SeqCount \in Nat /\ total_len <= SeqCount * SegmentSize
    BY <1>0, RoundUpBounds DEF SeqCount
  <1>3. CASE SeqCount < seq
    BY <1>0, <1>1, <1>2, <1>3, Multiples, OneMultipleMore
  <1>4. CASE SeqCount = seq
    BY <1>0, <1>1, <1>2, <1>4
  <1> QED BY <1>0, <1>1, <1>2, <1>3, <1>4

(* When the payload is used up there are SeqCount packets.                  *)
LEMMA AllSent ==
  ASSUME DemuxTypeInv, Reached, offset = total_len
  PROVE  seq = SeqCount
  <1>0. SegmentSize \in Nat \ {0} /\ total_len \in Nat /\ seq \in Nat
    BY SizesAssumption DEF DemuxTypeInv
  <1>1. /\ SeqCount \in Nat
        /\ total_len <= SeqCount * SegmentSize /\ SeqCount * SegmentSize < total_len + SegmentSize
    BY <1>0, RoundUpBounds DEF SeqCount
  <1>2. total_len <= seq * SegmentSize /\ seq * SegmentSize < total_len + SegmentSize
    <2>1. CASE offset = seq * SegmentSize
      BY <1>0, <2>1
    <2>2. CASE offset # seq * SegmentSize
      <3>1. seq - 1 \in Nat /\ (seq - 1) * SegmentSize < total_len /\ total_len <= seq * SegmentSize
        BY <1>0, <2>2 DEF Reached
      <3>2. (seq - 1 + 1) * SegmentSize = (seq - 1) * SegmentSize + SegmentSize
        BY <1>0, <3>1, OneMultipleMore
      <3>3. (seq - 1) * SegmentSize \in Nat
        BY <1>0, <3>1, OneMultipleMore
      <3> QED BY <1>0, <3>1, <3>2, <3>3
    <2> QED BY <2>1, <2>2
  <1>3. SeqCount * SegmentSize \in Nat /\ seq * SegmentSize \in Nat
    BY <1>0, <1>1, OneMultipleMore
  <1>4. CASE SeqCount < seq
    <2>1. SeqCount * SegmentSize + SegmentSize <= seq * SegmentSize
      BY <1>0, <1>1, <1>4, Multiples
    <2> QED BY <1>0, <1>1, <1>2, <1>3, <2>1
  <1>5. CASE seq < SeqCount
    <2>1. seq * SegmentSize + SegmentSize <= SeqCount * SegmentSize
      BY <1>0, <1>1, <1>5, Multiples
    <2> QED BY <1>0, <1>1, <1>2, <1>3, <2>1
  <1> QED BY <1>0, <1>1, <1>4, <1>5

--------------------------------------------------------------------------------
LEMMA DemuxInvInit == DemuxInit => DemuxInv
  <1> SUFFICES ASSUME DemuxInit PROVE DemuxInv
    OBVIOUS
  <1>1. DemuxTypeInv /\ Checked /\ Placed
    BY DEF DemuxInit, DemuxTypeInv, Checked, Placed, Packets
  <1>2. Reached
    BY SizesAssumption DEF DemuxInit, Reached
  <1> QED BY <1>1, <1>2 DEF DemuxInv, DemuxInit

LEMMA DemuxInvSplit ==
  ASSUME DemuxInv, Split
  PROVE  DemuxInv'
  <1> DEFINE p == [seq |-> seq, seq_count |-> SeqCount, offset |-> offset, len |-> ChunkLen]
  <1>0. /\ SegmentSize \in Nat \ {0} /\ total_len \in Nat /\ seq \in Nat /\ offset \in Nat
        /\ offset < total_len /\ SeqCount \in Nat
    BY SizesAssumption, RoundUpBounds DEF DemuxInv, DemuxTypeInv, Split, Looping, SeqCount
  <1>1. offset = seq * SegmentSize
    BY NotBeyond DEF DemuxInv, Split
  <1>2. ChunkLen \in 1..SegmentSize
    BY <1>0 DEF ChunkLen
  <1>3. p \in Packets
    BY <1>0, <1>2 DEF Packets
  <1>4. DemuxTypeInv'
    BY <1>0, <1>2, <1>3 DEF DemuxInv, DemuxTypeInv, Split
  <1>5. Checked'
    BY DEF DemuxInv, Checked, Split, Looping, Refused
  <1>6. (seq + 1) * SegmentSize = offset + SegmentSize /\ (seq + 1 - 1) * SegmentSize = offset
    BY <1>0, <1>1, OneMultipleMore
  <1>7. Reached'
    <2>1. CASE offset + SegmentSize < total_len
      BY <1>0, <1>6, <2>1 DEF Reached, Split, ChunkLen
    <2>2. CASE ~(offset + SegmentSize < total_len)
      BY <1>0, <1>6, <2>2 DEF Reached, Split, ChunkLen
    <2> QED BY <2>1, <2>2
  <1>8. Placed'
    <2> SUFFICES ASSUME NEW i \in 1..Len(packets')
                 PROVE  PlacedAt(packets[i], i)'
      BY DEF Placed
    <2>1. packets' = Append(packets, p) /\ total_len' = total_len /\ Len(packets) = seq
      BY DEF DemuxInv, DemuxTypeInv, Split
    <2>2. CASE i \in 1..Len(packets)
      <3>1. packets'[i] = packets[i]
        BY <2>1, <2>2 DEF DemuxInv, DemuxTypeInv
      <3>2. PlacedAt(packets[i], i)
        BY <2>2 DEF DemuxInv, Placed
      <3> QED BY <2>1, <3>1, <3>2 DEF PlacedAt, SeqCount
    <2>3. CASE i = Len(packets) + 1
      <3>1. packets'[i] = p /\ i = seq + 1
        BY <2>1, <2>3 DEF DemuxInv, DemuxTypeInv
      <3>2. i - 1 = seq /\ (i - 1) * SegmentSize = offset /\ i * SegmentSize = offset + SegmentSize
        <4>1. i - 1 = seq
          BY <1>0, <3>1
        <4>2. (i - 1) * SegmentSize = offset
          BY <1>1, <4>1, Zenon
        <4>3. i * SegmentSize = offset + SegmentSize
          BY <1>6, <3>1, Zenon
        <4> QED BY <4>1, <4>2, <4>3
      <3>3. /\ p.seq = i - 1 /\ p.seq_count = SeqCount /\ p.offset = (i - 1) * SegmentSize
            /\ p.len = IF i * SegmentSize < total_len THEN SegmentSize
                       ELSE total_len - (i - 1) * SegmentSize
        BY <1>0, <3>2 DEF ChunkLen
      <3>4. SeqCount' = SeqCount
        BY <2>1 DEF SeqCount
      <3> HIDE DEF p
      <3> QED BY <1>0, <2>1, <3>1, <3>2, <3>3, <3>4 DEF PlacedAt
    <2> QED BY <2>1, <2>2, <2>3 DEF DemuxInv, DemuxTypeInv
  <1>9. (result = "Ok" => offset = total_len)'
    BY DEF Split, Looping
  <1> QED BY <1>4, <1>5, <1>7, <1>8, <1>9 DEF DemuxInv

LEMMA DemuxInvReturn ==
  ASSUME DemuxInv, Return
  PROVE  DemuxInv'
  <1>1. /\ DemuxTypeInv' /\ Reached' /\ Checked'
    BY DEF DemuxInv, DemuxTypeInv, Reached, Checked, Return, Refused
  <1>2. Placed'
    BY DEF DemuxInv, Placed, PlacedAt, Return, SeqCount
  <1>3. offset <= total_len
    BY SizesAssumption DEF DemuxInv, DemuxTypeInv, Reached
  <1>4. (offset = total_len)'
    BY <1>3, SizesAssumption DEF DemuxInv, DemuxTypeInv, Return
  <1> QED BY <1>1, <1>2, <1>4 DEF DemuxInv

LEMMA DemuxInvNext == DemuxInv /\ [DemuxNext]_demuxVars => DemuxInv'
  <1> SUFFICES ASSUME DemuxInv, [DemuxNext]_demuxVars PROVE DemuxInv'
    OBVIOUS
  <1>1. CASE Split
    BY <1>1, DemuxInvSplit
  <1>2. CASE Return
    BY <1>2, DemuxInvReturn
  <1>3. CASE UNCHANGED demuxVars
    BY <1>3 DEF DemuxInv, DemuxTypeInv, Checked, Refused, Reached, Placed, PlacedAt, SeqCount, demuxVars
  <1> QED BY <1>1, <1>2, <1>3 DEF DemuxNext

LEMMA DemuxInvAlways == DemuxSpec => []DemuxInv
  BY DemuxInvInit, DemuxInvNext, PTL DEF DemuxSpec

--------------------------------------------------------------------------------
(* DemuxTypeOK for all sizes. *)
THEOREM DemuxTypeCorrect == DemuxSpec => []DemuxTypeOK
  <1>1. ASSUME DemuxInv PROVE DemuxTypeOK
    <2>1. SegmentSize \in Nat \ {0} /\ total_len \in Nat /\ offset \in Nat /\ packets \in Seq(Packets)
      BY SizesAssumption, <1>1 DEF DemuxInv, DemuxTypeInv
    <2>2. offset \in 0..total_len
      BY <1>1, <2>1 DEF DemuxInv, Reached
    <2>3. \A i \in DOMAIN packets :
            packets[i] \in [seq : Nat, seq_count : Nat, offset : Nat, len : Nat]
      <3>1. \A i \in DOMAIN packets : packets[i] \in Packets
        BY <2>1
      <3> QED BY <3>1 DEF Packets
    <2> QED BY <1>1, <2>2, <2>3 DEF DemuxInv, DemuxTypeInv, DemuxTypeOK
  <1> QED BY <1>1, DemuxInvAlways, PTL

LEMMA DemuxInvTiling == DemuxInv => Tiling
  <1> SUFFICES ASSUME DemuxInv PROVE Tiling
    OBVIOUS
  <1>0. /\ SegmentSize \in Nat \ {0} /\ total_len \in Nat /\ seq \in Nat /\ seq = Len(packets)
        /\ packets \in Seq(Packets) /\ offset \in Nat
    BY SizesAssumption DEF DemuxInv, DemuxTypeInv
  <1>1. ASSUME NEW i \in DOMAIN packets
        PROVE  /\ packets[i].seq = i - 1
               /\ packets[i].len \in 1..SegmentSize
               /\ packets[i].offset = IF i = 1 THEN 0 ELSE packets[i - 1].offset + packets[i - 1].len
    <2>1. i \in 1..Len(packets) /\ PlacedAt(packets[i], i)
      BY <1>0 DEF DemuxInv, Placed
    <2>2. /\ i - 1 \in Nat /\ (i - 1) * SegmentSize \in Nat
          /\ (i - 1 + 1) * SegmentSize = (i - 1) * SegmentSize + SegmentSize
      BY <1>0, <2>1, OneMultipleMore
    <2>3. packets[i].len \in 1..SegmentSize
      BY <1>0, <2>1, <2>2 DEF PlacedAt
    <2>4. CASE i = 1
      BY <1>0, <2>1, <2>4 DEF PlacedAt
    <2>5. CASE i # 1
      <3>1. i - 1 \in 1..Len(packets) /\ PlacedAt(packets[i - 1], i - 1)
        BY <2>1, <2>5 DEF DemuxInv, Placed
      <3>2. i - 2 \in Nat /\ (i - 2 + 1) * SegmentSize = (i - 2) * SegmentSize + SegmentSize
        BY <1>0, <2>1, <2>5, OneMultipleMore
      <3>3. (i - 1) - 1 = i - 2 /\ i - 2 + 1 = i - 1 /\ (i - 2) * SegmentSize \in Nat
        BY <1>0, <2>1, <3>2, OneMultipleMore
      <3>4. packets[i - 1].offset = (i - 2) * SegmentSize /\ packets[i - 1].len = SegmentSize
        BY <1>0, <2>1, <3>1, <3>3 DEF PlacedAt
      <3> QED BY <2>1, <2>5, <2>3, <3>2, <3>3, <3>4 DEF PlacedAt
    <2> QED BY <2>1, <2>3, <2>4, <2>5 DEF PlacedAt
  <1>2. offset = IF packets = <<>> THEN 0
                 ELSE packets[Len(packets)].offset + packets[Len(packets)].len
    <2>1. CASE packets = <<>>
      BY <1>0, <2>1 DEF DemuxInv, Reached
    <2>2. CASE packets # <<>>
      <3>1. seq \in 1..Len(packets) /\ PlacedAt(packets[seq], seq)
        BY <1>0, <2>2 DEF DemuxInv, Placed
      <3>2. /\ seq - 1 \in Nat /\ (seq - 1) * SegmentSize \in Nat
            /\ seq * SegmentSize = (seq - 1) * SegmentSize + SegmentSize
        <4>1. seq - 1 \in Nat /\ seq = (seq - 1) + 1 /\ SegmentSize \in Nat
          BY <1>0, <3>1
        <4>2. /\ (seq - 1) * SegmentSize \in Nat
              /\ ((seq - 1) + 1) * SegmentSize = (seq - 1) * SegmentSize + SegmentSize
          BY <4>1, OneMultipleMore, Zenon
        <4>3. seq * SegmentSize = (seq - 1) * SegmentSize + SegmentSize
          BY <4>1, <4>2, Zenon
        <4> QED BY <4>1, <4>2, <4>3
      <3>3. packets[seq].offset + packets[seq].len
              = IF seq * SegmentSize < total_len THEN seq * SegmentSize ELSE total_len
        BY <1>0, <3>1, <3>2 DEF PlacedAt
      <3>4. offset = IF seq * SegmentSize < total_len THEN seq * SegmentSize ELSE total_len
        BY <1>0, <3>2 DEF DemuxInv, Reached
      <3> QED BY <1>0, <2>2, <3>3, <3>4
    <2> QED BY <2>1, <2>2
  <1>3. Looping => seq < SeqCount /\ SeqCount <= Buffers
    <2> SUFFICES ASSUME Looping PROVE seq < SeqCount /\ SeqCount <= Buffers
      OBVIOUS
    <2>1. seq < SeqCount
      BY NotBeyond DEF DemuxInv
    <2>2. ~(DivRoundUp(total_len, SegmentSize) > Buffers)
      BY DEF DemuxInv, Checked, Refused, Looping
    <2>3. SeqCount \in Nat /\ Buffers \in Nat
      BY <1>0, RoundUpBounds, SizesAssumption DEF SeqCount
    <2> QED BY <2>1, <2>2, <2>3 DEF SeqCount
  <1> QED BY <1>1, <1>2, <1>3 DEF Tiling

(* Min({n}) is n. *)
LEMMA MinOfOne ==
  ASSUME NEW n \in Nat
  PROVE  Min({n, n}) = n
  BY DEF Min

LEMMA DemuxInvSurvives == DemuxInv => SurvivesTheWire
  <1> SUFFICES ASSUME DemuxInv, result = "Ok" PROVE SurvivesTheWire
    BY DEF SurvivesTheWire
  <1>0. /\ SegmentSize \in Nat \ {0} /\ total_len \in Nat /\ seq \in Nat /\ seq = Len(packets)
        /\ packets \in Seq(Packets) /\ R \in Nat /\ SeqValues \in Nat \ {0} /\ LenValues \in Nat \ {0}
    BY SizesAssumption DEF DemuxInv, DemuxTypeInv
  <1>1. offset = total_len /\ seq = SeqCount
    BY AllSent DEF DemuxInv
  <1>2. total_len <= SegmentSize * R /\ SegmentSize < LenValues
    BY <1>0 DEF DemuxInv, Checked, Refused
  <1>3. SeqCount <= R
    <2>1. SeqCount \in Nat /\ SeqCount * SegmentSize < total_len + SegmentSize
      BY <1>0, RoundUpBounds DEF SeqCount
    <2>2. CASE R < SeqCount
      <3>1. R * SegmentSize + SegmentSize <= SeqCount * SegmentSize
        BY <1>0, <2>1, <2>2, Multiples
      <3>2. R * SegmentSize = SegmentSize * R /\ R * SegmentSize \in Nat /\ SeqCount * SegmentSize \in Nat
        BY <1>0, <2>1
      <3> QED BY <1>0, <1>2, <2>1, <3>1, <3>2
    <2> QED BY <1>0, <2>1, <2>2
  <1>4. ASSUME NEW i \in DOMAIN packets
        PROVE  Decoded(packets[i]) = packets[i] /\ (CompleteAfter(i) => i = Len(packets))
    <2>1. i \in 1..Len(packets) /\ PlacedAt(packets[i], i) /\ PlacedAt(packets[1], 1)
      BY <1>0 DEF DemuxInv, Placed
    <2>2. packets[i] \in Packets /\ packets[1] \in Packets
      BY <1>0, <2>1
    <2>3. packets[i].len \in 0..SegmentSize
      BY <1>0, DemuxInvTiling DEF Tiling
    <2>4. packets[i].seq \in 0..(SeqValues - 1) /\ packets[i].seq_count \in 0..(SeqValues - 1)
      BY <1>0, <1>1, <1>3, <2>1, HeaderAssumption DEF PlacedAt
    <2>5. /\ packets[i].seq % SeqValues = packets[i].seq
          /\ packets[i].seq_count % SeqValues = packets[i].seq_count
      <3>1. \A x \in 0..(SeqValues - 1) : x % SeqValues = x  BY ONLY <1>0
      <3> QED BY ONLY <2>4, <3>1, Zenon
    <2>6. packets[i].len % LenValues = packets[i].len /\ packets[i].len \in Nat
      BY <1>0, <1>2, <2>3
    <2>7. Min({packets[i].len, packets[i].len % LenValues}) = packets[i].len
      BY <2>6, MinOfOne
    <2>8. Decoded(packets[i]) = packets[i]
      BY <2>2, <2>5, <2>7 DEF Decoded, Packets
    <2>9. CompleteAfter(i) => i = Len(packets)
      <3>1. packets[1].seq_count = SeqCount /\ SeqCount \in 0..(SeqValues - 1)
        BY <1>0, <1>1, <1>3, <2>1, HeaderAssumption DEF PlacedAt
      <3>2. packets[1].seq_count % SeqValues = SeqCount
        BY <1>0, <3>1
      <3> QED BY <1>0, <1>1, <2>1, <3>1, <3>2 DEF CompleteAfter, Decoded
    <2> QED BY <2>8, <2>9
  <1> QED BY <1>0, <1>1, <1>4 DEF SurvivesTheWire

(* Every payload that is not refused is tiled by its packets, and what a    *)
(* receiver reads from their headers (packet.rs) is the packets: the loop's *)
(* own bound check, one too lax, is never needed.                           *)
THEOREM DemultiplexedAlways == DemuxSpec => []Demultiplexed
  <1>1. DemuxInv => Demultiplexed
    BY DemuxInvTiling, DemuxInvSurvives DEF Demultiplexed
  <1> QED BY <1>1, DemuxInvAlways, PTL

--------------------------------------------------------------------------------
(****************************************************************************)
(* The invariants of Sessions, for every number of clients and any periods. *)
(*                                                                          *)
(* ListenersKept is not inductive: it says nothing of how old an entry may  *)
(* be.  Aged relates the age of a listener's entry to the losses and to the *)
(* time since the client was last active, and is what the cleanup's test    *)
(* preserves; Fresh bounds every entry's age by the cleanup's own clock.    *)
(****************************************************************************)
SessionsTypeInv ==
  /\ running \subseteq Clients /\ clients \subseteq Clients /\ heard \subseteq running
  /\ idle \in [Clients -> 0..KeepaliveIdle]
  /\ unseen \in [Clients -> 0..(ClientTimeout + CleanupPeriod)]
  /\ phase \in 0..CleanupPeriod
  /\ losses \in [Clients -> 0..MaxLosses]

(* An entry is younger than CLIENT_TIMEOUT and the time since the cleanup.  *)
Fresh == \A c \in clients : unseen[c] < ClientTimeout + phase

(* The age of a listener's entry, while the losses cannot have removed it.  *)
Covered(c) == ClientTimeout <= KeepaliveIdle * (losses[c] + 1)

Aged ==
  \A c \in heard : Covered(c) \/ (c \in clients /\ unseen[c] <= KeepaliveIdle * losses[c] + idle[c])

SessionsInv == SessionsTypeInv /\ Fresh /\ Aged

--------------------------------------------------------------------------------
LEMMA OneMore ==
  ASSUME NEW k \in Nat, NEW n \in Nat
  PROVE  k * n \in Nat /\ k * (n + 1) = k * n + k
  BY SMT

LEMMA SessionsInvInit == SessionsInit => SessionsInv
  BY SessionsAssumption DEF SessionsInit, SessionsInv, SessionsTypeInv, Fresh, Aged, Covered

(* A datagram of a listener, delivered or lost, with its idle time reset.   *)
LEMMA SessionsInvDatagram ==
  ASSUME SessionsInv, NEW c \in Clients, running' = running \cup {c}, c \in heard => c \in running,
         idle' = [idle EXCEPT ![c] = 0], Datagram(c), phase' = phase
  PROVE  SessionsInv'
  <1>0. /\ KeepaliveIdle \in Nat \ {0} /\ ClientTimeout \in Nat \ {0}
        /\ CleanupPeriod \in Nat \ {0} /\ MaxLosses \in Nat
    BY SessionsAssumption
  <1>1. SessionsTypeInv'
    BY <1>0 DEF SessionsInv, SessionsTypeInv, Datagram, Arrives, IsLost
  <1>2. Fresh'
    BY <1>0 DEF SessionsInv, SessionsTypeInv, Fresh, Datagram, Arrives, IsLost
  <1>3. Aged'
    <2> SUFFICES ASSUME NEW d \in heard'
                 PROVE  (Covered(d) \/ (d \in clients /\ unseen[d] <= KeepaliveIdle * losses[d] + idle[d]))'
      BY DEF Aged
    <2>1. d \in Clients
      BY DEF SessionsInv, SessionsTypeInv, Datagram, Arrives, IsLost
    <2>2. CASE d = c /\ Arrives(c)
      BY <1>0, <2>2, OneMore DEF SessionsInv, SessionsTypeInv, Arrives
    <2>3. CASE d = c /\ IsLost(c)
      <3>1. losses[c] \in Nat /\ losses'[c] = losses[c] + 1 /\ idle[c] \in 0..KeepaliveIdle /\ idle'[c] = 0
        BY <2>3 DEF SessionsInv, SessionsTypeInv, IsLost
      <3>2. /\ KeepaliveIdle * losses'[c] = KeepaliveIdle * losses[c] + KeepaliveIdle
            /\ KeepaliveIdle * (losses'[c] + 1) = KeepaliveIdle * losses'[c] + KeepaliveIdle
            /\ KeepaliveIdle * (losses[c] + 1) = KeepaliveIdle * losses[c] + KeepaliveIdle
            /\ KeepaliveIdle * losses[c] \in Nat /\ KeepaliveIdle * losses'[c] \in Nat
        <4> DEFINE n == losses'[c]
        <4>1. n = losses[c] + 1 /\ n \in Nat /\ losses[c] \in Nat /\ KeepaliveIdle \in Nat
          BY ONLY <1>0, <3>1
        <4> HIDE DEF n
        <4>2. KeepaliveIdle * (n + 1) = KeepaliveIdle * n + KeepaliveIdle /\ KeepaliveIdle * n \in Nat
          BY ONLY <4>1, OneMore
        <4>3. /\ KeepaliveIdle * (losses[c] + 1) = KeepaliveIdle * losses[c] + KeepaliveIdle
              /\ KeepaliveIdle * losses[c] \in Nat
          BY ONLY <4>1, OneMore
        <4> QED BY ONLY <4>1, <4>2, <4>3 DEF n
      <3>3. c \in heard /\ clients' = clients /\ unseen' = unseen /\ unseen[c] \in Nat
        BY <2>3 DEF SessionsInv, SessionsTypeInv, IsLost
      <3>4. CASE Covered(c)
        <4>1. ClientTimeout <= KeepaliveIdle * (losses'[c] + 1)
          BY <1>0, <3>2, <3>4 DEF Covered
        <4> QED BY <4>1, <2>3 DEF Covered
      <3>5. CASE c \in clients /\ unseen[c] <= KeepaliveIdle * losses[c] + idle[c]
        <4>1. unseen'[c] <= KeepaliveIdle * losses'[c] + idle'[c]
          BY <1>0, <3>1, <3>2, <3>3, <3>5
        <4> QED BY <4>1, <3>3, <3>5, <2>3
      <3> QED BY <3>3, <3>4, <3>5 DEF SessionsInv, Aged
    <2>4. CASE d # c
      BY <2>1, <2>4 DEF SessionsInv, SessionsTypeInv, Aged, Covered, Datagram, Arrives, IsLost
    <2> QED BY <2>2, <2>3, <2>4 DEF Datagram
  <1> QED BY <1>1, <1>2, <1>3 DEF SessionsInv

LEMMA SessionsInvStop ==
  ASSUME SessionsInv, NEW c \in Clients, Stop(c)
  PROVE  SessionsInv'
  BY DEF SessionsInv, SessionsTypeInv, Fresh, Aged, Covered, Stop

(* What the cleanup removes is a listener only if the losses cover it.      *)
LEMMA SessionsInvCleanup ==
  ASSUME SessionsInv, CleanupTick
  PROVE  SessionsInv'
  <1>0. /\ KeepaliveIdle \in Nat \ {0} /\ ClientTimeout \in Nat \ {0} /\ CleanupPeriod \in Nat \ {0}
    BY SessionsAssumption
  <1>1. SessionsTypeInv' /\ Fresh'
    BY <1>0 DEF SessionsInv, SessionsTypeInv, Fresh, CleanupTick, Retained
  <1>2. Aged'
    <2> SUFFICES ASSUME NEW d \in heard
                 PROVE  Covered(d) \/ (d \in clients' /\ unseen[d] <= KeepaliveIdle * losses[d] + idle[d])
      BY DEF Aged, Covered, CleanupTick
    <2>1. losses[d] \in Nat /\ idle[d] \in 0..KeepaliveIdle /\ unseen[d] \in Nat
      BY DEF SessionsInv, SessionsTypeInv
    <2>2. KeepaliveIdle * (losses[d] + 1) = KeepaliveIdle * losses[d] + KeepaliveIdle /\ KeepaliveIdle * losses[d] \in Nat
      BY <1>0, <2>1, OneMore
    <2>3. CASE Covered(d)
      BY <2>3
    <2>4. CASE d \in clients /\ unseen[d] <= KeepaliveIdle * losses[d] + idle[d]
      <3>1. CASE unseen[d] < ClientTimeout
        BY <2>4, <3>1 DEF CleanupTick, Retained
      <3>2. CASE ClientTimeout <= unseen[d]
        BY <1>0, <2>1, <2>2, <2>4, <3>2 DEF Covered
      <3> QED BY <1>0, <2>1, <3>1, <3>2
    <2> QED BY <2>3, <2>4 DEF SessionsInv, Aged
  <1> QED BY <1>1, <1>2 DEF SessionsInv

LEMMA SessionsInvRestart ==
  ASSUME SessionsInv, RestartServer
  PROVE  SessionsInv'
  BY SessionsAssumption DEF SessionsInv, SessionsTypeInv, Fresh, Aged, RestartServer

LEMMA SessionsInvTick ==
  ASSUME SessionsInv, Tick
  PROVE  SessionsInv'
  <1>0. /\ KeepaliveIdle \in Nat \ {0} /\ ClientTimeout \in Nat \ {0} /\ CleanupPeriod \in Nat \ {0}
    BY SessionsAssumption
  <1>1. SessionsTypeInv' /\ Fresh'
    BY <1>0 DEF SessionsInv, SessionsTypeInv, Fresh, Tick
  <1>2. Aged'
    <2> SUFFICES ASSUME NEW d \in heard
                 PROVE  (Covered(d) \/ (d \in clients /\ unseen[d] <= KeepaliveIdle * losses[d] + idle[d]))'
      BY DEF Aged, Tick
    <2>1. /\ losses[d] \in Nat /\ idle[d] \in Nat /\ unseen[d] \in Nat
          /\ idle'[d] = idle[d] + 1 /\ clients' = clients /\ losses' = losses
          /\ d \in clients => unseen'[d] = unseen[d] + 1
      BY DEF SessionsInv, SessionsTypeInv, Tick
    <2>2. KeepaliveIdle * losses[d] \in Nat
      BY <1>0, <2>1, OneMore
    <2>3. CASE Covered(d)
      BY <2>1, <2>3 DEF Covered
    <2>4. CASE d \in clients /\ unseen[d] <= KeepaliveIdle * losses[d] + idle[d]
      <3>1. unseen'[d] <= KeepaliveIdle * losses[d] + idle'[d]
        BY <2>1, <2>2, <2>4
      <3> QED BY <2>1, <2>4, <3>1
    <2> QED BY <2>3, <2>4 DEF SessionsInv, Aged
  <1> QED BY <1>1, <1>2 DEF SessionsInv

LEMMA SessionsInvNext == SessionsInv /\ [SessionsNext]_sessionsVars => SessionsInv'
  <1> SUFFICES ASSUME SessionsInv, [SessionsNext]_sessionsVars PROVE SessionsInv'
    OBVIOUS
  <1>1. ASSUME NEW c \in Clients, Start(c) PROVE SessionsInv'
    BY <1>1, SessionsInvDatagram DEF Start, SessionsInv, SessionsTypeInv
  <1>2. ASSUME NEW c \in Clients, Request(c) \/ Ping(c) PROVE SessionsInv'
    <2>1. running' = running \cup {c}
      BY <1>2 DEF Request, Ping
    <2> QED BY <1>2, <2>1, SessionsInvDatagram DEF Request, Ping
  <1>3. ASSUME NEW c \in Clients, Stop(c) PROVE SessionsInv'
    BY <1>3, SessionsInvStop
  <1>4. CASE CleanupTick
    BY <1>4, SessionsInvCleanup
  <1>5. CASE RestartServer
    BY <1>5, SessionsInvRestart
  <1>6. CASE Tick
    BY <1>6, SessionsInvTick
  <1>7. CASE UNCHANGED sessionsVars
    BY <1>7 DEF sessionsVars, SessionsInv, SessionsTypeInv, Fresh, Aged, Covered
  <1> QED BY <1>1, <1>2, <1>3, <1>4, <1>5, <1>6, <1>7 DEF SessionsNext

LEMMA SessionsInvAlways == SessionsSpec => []SessionsInv
  BY SessionsInvInit, SessionsInvNext, PTL DEF SessionsSpec

--------------------------------------------------------------------------------
(* The registry and the keepalive clocks keep their types and bounds: no    *)
(* entry of Peer::serve's map outlives CLIENT_TIMEOUT by more than a period *)
(* of the cleanup.                                                          *)
THEOREM SessionsTypeCorrect == SessionsSpec => []SessionsTypeOK
  <1>1. SessionsInv => SessionsTypeOK
    BY DEF SessionsInv, SessionsTypeInv, SessionsTypeOK
  <1> QED BY <1>1, SessionsInvAlways, PTL

(* A listener that only pings stays in the server's map while the datagrams *)
(* it lost in a row leave its entry younger than CLIENT_TIMEOUT.            *)
THEOREM ListenersKeptAlways == SessionsSpec => []ListenersKept
  <1>1. SessionsInv => ListenersKept
    <2> SUFFICES ASSUME SessionsInv, NEW c \in running \cap heard,
                        KeepaliveIdle * (losses[c] + 1) < ClientTimeout
                 PROVE  c \in clients
      BY DEF ListenersKept
    <2>1. KeepaliveIdle * (losses[c] + 1) \in Nat /\ ClientTimeout \in Nat
      <3>1. losses[c] + 1 \in Nat /\ KeepaliveIdle \in Nat
        BY SessionsAssumption DEF SessionsInv, SessionsTypeInv
      <3> QED BY <3>1, OneMore, SessionsAssumption
    <2>2. ~Covered(c)
      BY <2>1 DEF Covered
    <2> QED BY <2>2 DEF SessionsInv, Aged
  <1> QED BY <1>1, SessionsInvAlways, PTL

(* Right after a cleanup no client is left that was silent for              *)
(* CLIENT_TIMEOUT.                                                          *)
THEOREM StaleForgottenAlways == SessionsSpec => []StaleForgotten
  <1>1. SessionsInv => StaleForgotten
    BY SessionsAssumption DEF SessionsInv, SessionsTypeInv, Fresh, StaleForgotten
  <1> QED BY <1>1, SessionsInvAlways, PTL

(* RegistryRight holds: both halves do. *)
THEOREM RegistryRightAlways == SessionsSpec => []RegistryRight
  BY ListenersKeptAlways, StaleForgottenAlways, PTL DEF RegistryRight

--------------------------------------------------------------------------------
(****************************************************************************)
(* What the client's three broadcast channels promise, for any capacities   *)
(* and any number of messages: a frame that arrived is yielded, on its way  *)
(* in its order, or overwritten, and a response is handed to the request    *)
(* table or still will be unless manage_responses is deaf.                  *)
(*                                                                          *)
(* The channels and what was yielded are read as one sequence.  A task      *)
(* between two channels takes the head of one and publishes it to the next, *)
(* which can drop the oldest message there, in the middle of the sequence   *)
(* (PublishedInside); a response that listen_events ignores was never       *)
(* counted.                                                                 *)
(****************************************************************************)
(* x is one of the messages of s.                                           *)
Holds(s, x) == \E k \in DOMAIN s : s[k] = x

EventsTypeInv ==
  /\ arrived \in Seq(Messages) /\ Len(arrived) <= Count
  /\ \A i \in DOMAIN arrived : arrived[i] \in Kinds \X {i}
  /\ peer_rx \in ChannelOf(Messages, PeerCap)
  /\ client_rx \in ChannelOf(Messages, ClientCap)
  /\ module_rx \in ChannelOf(FrameMessages, ModuleCap)
  /\ yielded \in Seq(FrameMessages)
  /\ deaf \in BOOLEAN
  /\ answered \subseteq {"response"} \X (1..Count)
  /\ lost \subseteq Messages

--------------------------------------------------------------------------------
LEMMA FrameIsMessage ==
  /\ FrameMessages \subseteq Messages
  /\ \A m \in FrameMessages : m[2] \in 1..Count /\ m[2] \in Nat /\ m[1] = "frame"
  /\ \A m \in Messages : m[1] \in Kinds /\ m[2] \in 1..Count /\ m = <<m[1], m[2]>>
  /\ \A m \in Messages : m[1] = "frame" => m \in FrameMessages
  /\ \A m \in Messages : m[1] # "frame" => m \notin FrameMessages /\ m[1] = "response"
BY DEF FrameMessages, Messages, Kinds

LEMMA EventsConstants ==
  /\ Count \in Nat /\ PeerCap \in Nat \ {0} /\ ClientCap \in Nat \ {0}
  /\ ModuleCap \in Nat \ {0} /\ PeerCap \in Nat /\ ClientCap \in Nat /\ ModuleCap \in Nat
BY ClientCapsAssumption

LEMMA Pieces ==
  ASSUME EventsTypeInv
  PROVE  /\ yielded \in Seq(Messages) /\ module_rx.buf \in Seq(Messages)
         /\ client_rx.buf \in Seq(Messages) /\ peer_rx.buf \in Seq(Messages)
         /\ module_rx \in ChannelOf(Messages, ModuleCap)
<1>1. yielded \in Seq(Messages)
  BY FrameIsMessage, SeqMonotonic DEF EventsTypeInv
<1>2. module_rx \in ChannelOf(Messages, ModuleCap)
  BY EventsConstants, FrameIsMessage, Widened DEF EventsTypeInv
<1>3. QED
  BY <1>1, <1>2 DEF EventsTypeInv, ChannelOf

LEMMA EventsTypeInit == Init => EventsTypeInv
<1> SUFFICES ASSUME Init PROVE EventsTypeInv
  OBVIOUS
<1>1. \A S : <<>> \in Seq(S) /\ Len(<<>>) = 0
  BY EmptySeq
<1>2. \A S : Quiet \in [buf : Seq(S), lagged : BOOLEAN] /\ Len(Quiet.buf) = 0
  BY <1>1 DEF Quiet
<1>3. /\ peer_rx \in ChannelOf(Messages, PeerCap)
      /\ client_rx \in ChannelOf(Messages, ClientCap)
      /\ module_rx \in ChannelOf(FrameMessages, ModuleCap)
  BY <1>2, EventsConstants DEF Init, ChannelOf
<1>4. arrived \in Seq(Messages) /\ Len(arrived) <= Count /\ yielded \in Seq(FrameMessages)
  BY <1>1, EventsConstants DEF Init
<1>5. DOMAIN arrived = {}
  BY DEF Init
<1>6. QED
  BY <1>3, <1>4, <1>5 DEF Init, EventsTypeInv

LEMMA EventsTypeStep ==
  ASSUME EventsTypeInv, Next
  PROVE  EventsTypeInv'
<1>t. /\ peer_rx \in ChannelOf(Messages, PeerCap)
      /\ client_rx \in ChannelOf(Messages, ClientCap)
      /\ module_rx \in ChannelOf(FrameMessages, ModuleCap)
      /\ lost \subseteq Messages /\ yielded \in Seq(FrameMessages)
      /\ arrived \in Seq(Messages) /\ Len(arrived) <= Count
  BY DEF EventsTypeInv
<1>1. ASSUME NEW kind \in Kinds, PeerReceive(kind) PROVE EventsTypeInv'
  <2> DEFINE m == <<kind, Len(arrived) + 1>>
  <2>1. Len(arrived) \in Nat /\ Len(arrived) < Count /\ DOMAIN arrived = 1..Len(arrived)
    BY <1>1, <1>t, LenProperties DEF PeerReceive
  <2>2. m \in Messages /\ m \in Kinds \X {Len(arrived) + 1}
    BY <2>1, EventsConstants DEF Messages
  <2>3. /\ arrived' = Append(arrived, m) /\ peer_rx' = Published(peer_rx, PeerCap, m)
        /\ lost' = lost \cup Overwritten(peer_rx, PeerCap)
        /\ UNCHANGED <<deaf, client_rx, module_rx, answered, yielded>>
    BY <1>1 DEF PeerReceive
  <2> HIDE DEF m
  <2>4. /\ peer_rx' \in ChannelOf(Messages, PeerCap)
        /\ Overwritten(peer_rx, PeerCap) \subseteq Messages
    BY <1>t, <2>2, <2>3, EventsConstants, PublishedTyped
  <2>5. /\ arrived' \in Seq(Messages) /\ Len(arrived') = Len(arrived) + 1
        /\ \A i \in 1..Len(arrived) : arrived'[i] = arrived[i]
        /\ arrived'[Len(arrived) + 1] = m
    BY <1>t, <2>2, <2>3, AppendProperties
  <2>6. DOMAIN arrived' = 1..(Len(arrived) + 1)
    BY <2>5, LenProperties
  <2>7. \A i \in DOMAIN arrived' : arrived'[i] \in Kinds \X {i}
    <3>1. ASSUME NEW i \in 1..(Len(arrived) + 1) PROVE arrived'[i] \in Kinds \X {i}
      <4>1. CASE i \in 1..Len(arrived)
        BY <2>1, <2>5, <4>1 DEF EventsTypeInv
      <4>2. CASE i = Len(arrived) + 1
        BY <2>2, <2>5, <4>2
      <4>3. QED
        BY <2>1, <4>1, <4>2
    <3>2. QED
      BY <2>6, <3>1
  <2>8. Len(arrived') <= Count
    BY <2>1, <2>5, EventsConstants
  <2>9. QED
    BY <1>t, <2>3, <2>4, <2>5, <2>7, <2>8 DEF EventsTypeInv
<1>2. CASE ManageResponse
  <2> DEFINE m == Head(peer_rx.buf)
  <2>1. m \in Messages /\ Taken(peer_rx) \in ChannelOf(Messages, PeerCap)
    BY <1>2, <1>t, EventsConstants, TakenChannel DEF ManageResponse, HasMessage
  <2>2. /\ client_rx' = Published(client_rx, ClientCap, m) /\ peer_rx' = Taken(peer_rx)
        /\ lost' = lost \cup Overwritten(client_rx, ClientCap)
        /\ answered' = IF m[1] = "response" THEN answered \cup {m} ELSE answered
        /\ UNCHANGED <<arrived, deaf, module_rx, yielded>>
    BY <1>2 DEF ManageResponse
  <2> HIDE DEF m
  <2>3. /\ client_rx' \in ChannelOf(Messages, ClientCap)
        /\ Overwritten(client_rx, ClientCap) \subseteq Messages
    BY <1>t, <2>1, <2>2, EventsConstants, PublishedTyped
  <2>4. answered' \subseteq {"response"} \X (1..Count)
    <3>1. CASE m[1] = "response"
      <4>1. m \in {"response"} \X (1..Count)
        BY <2>1, <3>1 DEF Messages
      <4>2. QED
        BY <2>2, <3>1, <4>1 DEF EventsTypeInv
    <3>2. CASE m[1] # "response"
      BY <2>2, <3>2 DEF EventsTypeInv
    <3>3. QED
      BY <3>1, <3>2
  <2>5. lost' \subseteq Messages
    BY <1>t, <2>2, <2>3
  <2>6. peer_rx' \in ChannelOf(Messages, PeerCap)
    BY <2>1, <2>2
  <2>7. QED
    BY <2>2, <2>3, <2>4, <2>5, <2>6 DEF EventsTypeInv
<1>3. CASE MeetLag
  <2>1. peer_rx' \in ChannelOf(Messages, PeerCap)
    BY <1>3, <1>t, EventsConstants, TakenChannel DEF MeetLag
  <2>2. QED
    BY <1>3, <2>1 DEF MeetLag, EventsTypeInv
<1>4. CASE ListenEvent
  <2> DEFINE m == Head(client_rx.buf)
  <2>1. m \in Messages /\ Taken(client_rx) \in ChannelOf(Messages, ClientCap)
    BY <1>4, <1>t, EventsConstants, TakenChannel DEF ListenEvent, HasMessage
  <2>2. /\ m[1] = "frame" =>
             /\ module_rx' = Published(module_rx, ModuleCap, m)
             /\ lost' = lost \cup Overwritten(module_rx, ModuleCap)
        /\ m[1] # "frame" => UNCHANGED <<module_rx, lost>>
        /\ client_rx' = Taken(client_rx)
        /\ UNCHANGED <<arrived, peer_rx, deaf, answered, yielded>>
    BY <1>4 DEF ListenEvent
  <2> HIDE DEF m
  <2>3. module_rx' \in ChannelOf(FrameMessages, ModuleCap) /\ lost' \subseteq Messages
    <3>1. CASE m[1] = "frame"
      <4>1. m \in FrameMessages
        BY <2>1, <3>1, FrameIsMessage
      <4>2. /\ Published(module_rx, ModuleCap, m) \in ChannelOf(FrameMessages, ModuleCap)
            /\ Overwritten(module_rx, ModuleCap) \subseteq FrameMessages
        BY <1>t, <4>1, EventsConstants, PublishedTyped
      <4>3. QED
        BY <1>t, <2>2, <3>1, <4>2, FrameIsMessage
    <3>2. CASE m[1] # "frame"
      BY <1>t, <2>2, <3>2
    <3>3. QED
      BY <3>1, <3>2
  <2>4. client_rx' \in ChannelOf(Messages, ClientCap)
    BY <2>1, <2>2
  <2>5. QED
    BY <2>2, <2>3, <2>4 DEF EventsTypeInv
<1>5. CASE ListenLag
  <2>1. client_rx' \in ChannelOf(Messages, ClientCap)
    BY <1>5, <1>t, EventsConstants, TakenChannel DEF ListenLag
  <2>2. QED
    BY <1>5, <2>1 DEF ListenLag, EventsTypeInv
<1>6. CASE Yield
  <2>1. /\ module_rx' \in ChannelOf(FrameMessages, ModuleCap)
        /\ Head(module_rx.buf) \in FrameMessages
    BY <1>6, <1>t, EventsConstants, TakenChannel DEF Yield, HasMessage
  <2>2. yielded' \in Seq(FrameMessages)
    BY <1>6, <1>t, <2>1, AppendProperties DEF Yield
  <2>3. QED
    BY <1>6, <2>1, <2>2 DEF Yield, EventsTypeInv
<1>7. CASE SubscriberLag
  <2>1. module_rx' \in ChannelOf(FrameMessages, ModuleCap)
    BY <1>7, <1>t, EventsConstants, TakenChannel DEF SubscriberLag
  <2>2. QED
    BY <1>7, <2>1 DEF SubscriberLag, EventsTypeInv
<1>8. QED
  BY <1>1, <1>2, <1>3, <1>4, <1>5, <1>6, <1>7 DEF Next, Managing, Listening, Subscriber

LEMMA EventsTypeAlways == Spec => []EventsTypeInv
<1>1. EventsTypeInv /\ UNCHANGED vars => EventsTypeInv'
  BY DEF EventsTypeInv, vars
<1>2. EventsTypeInv /\ [Next]_vars => EventsTypeInv'
  BY <1>1, EventsTypeStep
<1>3. QED
  BY <1>2, EventsTypeInit, PTL DEF Spec

(* Every message keeps its number, which is its place in the order of       *)
(* arrival, and the channels hold no more than their capacities.            *)
THEOREM EventsTypeCorrect == Spec => []TypeOK
<1>1. EventsTypeInv => TypeOK
  <2> SUFFICES ASSUME EventsTypeInv PROVE TypeOK
    OBVIOUS
  <2>1. /\ IsChannel(peer_rx, Messages, PeerCap) /\ IsChannel(client_rx, Messages, ClientCap)
        /\ IsChannel(module_rx, FrameMessages, ModuleCap)
    BY EventsConstants, ChannelTyped DEF EventsTypeInv
  <2>2. QED
    BY <2>1 DEF EventsTypeInv, TypeOK
<1>2. QED
  BY <1>1, EventsTypeAlways, PTL

--------------------------------------------------------------------------------
(* FramesAccountedFor of a path, a set of lost messages and the numbers of  *)
(* the frames that arrived, so that it can be said of two states.           *)
Accounted(path, over, came) ==
  /\ Rising(path, FrameMessages)
  /\ Numbers(path, FrameMessages) \cap SetNumbers(over, FrameMessages) = {}
  /\ Numbers(path, FrameMessages) \cup SetNumbers(over, FrameMessages) = came

Came == Numbers(arrived, FrameMessages)

LEMMA FramesSaid == FramesAccountedFor <=> Accounted(FramePath, lost, Came)
BY DEF FramesAccountedFor, Accounted, Came

LEMMA FramesSaidNext == FramesAccountedFor' <=> Accounted(FramePath', lost', Came')
BY DEF FramesAccountedFor, Accounted, Came

(* A task drops a message that is not a frame, or passes a frame on.        *)
LEMMA PassedOn ==
  ASSUME NEW p, NEW q, NEW over, NEW came, SameOrder(p, q, FrameMessages),
         Accounted(p, over, came)
  PROVE  Accounted(q, over, came)
<1>1. /\ Numbers(q, FrameMessages) = Numbers(p, FrameMessages)
      /\ Rising(p, FrameMessages) <=> Rising(q, FrameMessages)
  BY DEF SameOrder
<1>2. QED
  BY <1>1 DEF Accounted

(* A task publishes what it took, and may overwrite an older message.       *)
LEMMA Republished ==
  ASSUME NEW p, NEW q, NEW over, NEW gone, NEW came, Accounted(p, over, came),
         Rising(q, FrameMessages),
         Renewed(Numbers(p, FrameMessages), SetNumbers(gone, FrameMessages), {},
                 Numbers(q, FrameMessages))
  PROVE  Accounted(q, over \cup gone, came)
<1>1. SetNumbers(over \cup gone, FrameMessages)
        = SetNumbers(over, FrameMessages) \cup SetNumbers(gone, FrameMessages)
  BY JoinedNumbers
<1>2. /\ SetNumbers(gone, FrameMessages) \subseteq Numbers(p, FrameMessages)
      /\ Numbers(q, FrameMessages)
           = Numbers(p, FrameMessages) \ SetNumbers(gone, FrameMessages)
  BY DEF Renewed
<1>3. QED
  BY <1>1, <1>2 DEF Accounted

(* The frames that arrived are numbered below the next message.             *)
LEMMA CameBefore ==
  ASSUME EventsTypeInv
  PROVE  \A x \in Came : x \in 1..Len(arrived)
<1>1. Len(arrived) \in Nat /\ DOMAIN arrived = 1..Len(arrived)
  BY LenProperties DEF EventsTypeInv
<1>2. \A i \in DOMAIN arrived : arrived[i][2] = i
  BY DEF EventsTypeInv
<1>3. QED
  BY <1>1, <1>2 DEF Came, Numbers

LEMMA FramesInit == Init => FramesAccountedFor
<1> SUFFICES ASSUME Init PROVE FramesAccountedFor
  OBVIOUS
<1>1. <<>> \o <<>> = <<>>
  BY EmptySeq, ConcatEmptySeq
<1>2. FramePath = <<>> /\ arrived = <<>> /\ lost = {}
  BY <1>1 DEF Init, Quiet, FramePath
<1>3. Numbers(<<>>, FrameMessages) = {} /\ Rising(<<>>, FrameMessages)
  BY FewMessages
<1>4. SetNumbers({}, FrameMessages) = {}
  BY DEF SetNumbers
<1>5. Accounted(<<>>, {}, {})
  BY <1>3, <1>4 DEF Accounted
<1>6. QED
  BY <1>2, <1>3, <1>5, FramesSaid DEF Came

LEMMA FramesStep ==
  ASSUME EventsTypeInv, FramesAccountedFor, Next
  PROVE  FramesAccountedFor'
<1> DEFINE C == FrameMessages
           Y == yielded
           M == module_rx.buf
           K == client_rx.buf
           P == peer_rx.buf
<1>a. Accounted(FramePath, lost, Came)
  BY FramesSaid
<1>t. /\ peer_rx \in ChannelOf(Messages, PeerCap)
      /\ client_rx \in ChannelOf(Messages, ClientCap)
      /\ module_rx \in ChannelOf(Messages, ModuleCap)
  BY Pieces DEF EventsTypeInv
<1>s. /\ Y \in Seq(Messages) /\ M \in Seq(Messages)
      /\ K \in Seq(Messages) /\ P \in Seq(Messages)
  BY Pieces
<1>p. FramePath = ((Y \o M) \o K) \o P /\ FramePath' = ((Y' \o M') \o K') \o P'
  BY DEF FramePath
<1>c. (\A x \in C : x[2] \in Nat)
  BY FrameIsMessage
<1>o. Y \o M \in Seq(Messages) /\ (Y \o M) \o K \in Seq(Messages)
  BY <1>s, ConcatProperties
<1>x. \A s, t, u \in Seq(Messages) : (s \o t) \o u = s \o (t \o u)
  BY ConcatAssociative
<1> HIDE DEF C, Y, M, K, P
<1>1. ASSUME NEW kind \in Kinds, PeerReceive(kind) PROVE FramesAccountedFor'
  <2> DEFINE m == <<kind, Len(arrived) + 1>>
             F == (Y \o M) \o K
             G == SetNumbers(Overwritten(peer_rx, PeerCap), FrameMessages)
             N == SetNumbers({m}, FrameMessages)
             new == Published(peer_rx, PeerCap, m).buf
  <2>1. Len(arrived) \in Nat /\ Len(arrived) < Count
    BY <1>1, LenProperties DEF PeerReceive, EventsTypeInv
  <2>2. m \in Messages /\ m[2] = Len(arrived) + 1
    BY <2>1, EventsConstants DEF Messages
  <2>3. /\ arrived' = Append(arrived, m) /\ peer_rx' = Published(peer_rx, PeerCap, m)
        /\ lost' = lost \cup Overwritten(peer_rx, PeerCap)
        /\ UNCHANGED <<Y, M, K>>
    BY <1>1 DEF PeerReceive, Y, M, K
  <2>4. FramePath = F \o peer_rx.buf /\ FramePath' = F \o new
    BY <1>p, <2>3 DEF P
  <2>5. F \in Seq(Messages)
    BY <1>o
  <2>6. N \subseteq {Len(arrived) + 1} /\ (m \in C => N = {Len(arrived) + 1})
    BY <2>2 DEF SetNumbers, C
  <2>7. Came' = Came \cup N
    <3> DEFINE t == <<m>>
    <3>1. t \in Seq(Messages) /\ arrived \in Seq(Messages) /\ arrived' = arrived \o t
      BY <2>2, <2>3, AppendIsConcat DEF EventsTypeInv
    <3>2. Numbers(t, FrameMessages) = N
      BY FewMessages
    <3> HIDE DEF t, N
    <3>3. Numbers(arrived \o t, FrameMessages)
            = Numbers(arrived, FrameMessages) \cup Numbers(t, FrameMessages)
      BY <3>1, ConcatOrder
    <3>4. QED
      BY <3>1, <3>2, <3>3 DEF Came
  <2> HIDE DEF m, F, new
  <2>8. /\ Rising(F \o peer_rx.buf, C)
        /\ Numbers(F \o peer_rx.buf, C) \subseteq Came
    BY <1>a, <2>4 DEF Accounted, C
  <2>9. m \in C => \A a \in Numbers(F \o peer_rx.buf, C) : a < m[2]
    BY <2>1, <2>2, <2>8, CameBefore
  <2>10. /\ Rising(F \o Published(peer_rx, PeerCap, m).buf, C)
         /\ Renewed(Numbers(F \o peer_rx.buf, C),
                    SetNumbers(Overwritten(peer_rx, PeerCap), C), SetNumbers({m}, C),
                    Numbers(F \o Published(peer_rx, PeerCap, m).buf, C))
    BY <1>t, <1>c, <2>2, <2>5, <2>8, <2>9, EventsConstants, PublishedOrder
  <2>11. /\ Rising(FramePath', FrameMessages) /\ G \subseteq Numbers(FramePath, FrameMessages)
         /\ Numbers(FramePath', FrameMessages)
              = (Numbers(FramePath, FrameMessages) \ G) \cup N
    BY <2>4, <2>10 DEF new, C, Renewed
  <2>12. SetNumbers(lost', FrameMessages) = SetNumbers(lost, FrameMessages) \cup G
    BY <2>3, JoinedNumbers
  <2> HIDE DEF G, N
  <2>13. \A x \in N : x \notin Came
    BY <2>1, <2>6, CameBefore
  <2>14. Accounted(FramePath', lost', Came')
    BY <1>a, <2>7, <2>11, <2>12, <2>13 DEF Accounted
  <2>15. QED
    BY <2>14, FramesSaidNext
<1>2. CASE ManageResponse
  <2> DEFINE m == Head(peer_rx.buf)
             F == Y \o M
             t == Tail(peer_rx.buf)
             new == Published(client_rx, ClientCap, m).buf
  <2>1. /\ m \in Messages /\ t \in Seq(Messages) /\ <<m>> \o t = P
        /\ Taken(peer_rx).buf = t
    <3>1. peer_rx.buf # <<>> /\ peer_rx.buf \in Seq(Messages)
      BY <1>2, <1>s DEF ManageResponse, HasMessage, P
    <3>2. m \in Messages /\ t \in Seq(Messages) /\ <<m>> \o t = peer_rx.buf
      BY <3>1, HeadFirst
    <3>3. Taken(peer_rx).buf = t
      BY <1>t, <3>1, EventsConstants, TakenChannel
    <3>4. QED
      BY <3>2, <3>3 DEF P
  <2>2. /\ client_rx' = Published(client_rx, ClientCap, m) /\ peer_rx' = Taken(peer_rx)
        /\ lost' = lost \cup Overwritten(client_rx, ClientCap)
        /\ UNCHANGED <<arrived, Y, M>>
    BY <1>2 DEF ManageResponse, Y, M
  <2>3. F \in Seq(Messages)
    BY <1>o
  <2>4. FramePath = (F \o client_rx.buf) \o (<<m>> \o t) /\ FramePath' = (F \o new) \o t
    BY <1>p, <2>1, <2>2 DEF K, P
  <2> HIDE DEF m, F, t, new
  <2>5. Rising((F \o client_rx.buf) \o (<<m>> \o t), C)
    BY <1>a, <2>4 DEF Accounted, C
  <2>6. /\ Rising((F \o Published(client_rx, ClientCap, m).buf) \o t, C)
        /\ Renewed(Numbers((F \o client_rx.buf) \o (<<m>> \o t), C),
                   SetNumbers(Overwritten(client_rx, ClientCap), C), {},
                   Numbers((F \o Published(client_rx, ClientCap, m).buf) \o t, C))
    BY <1>t, <1>c, <2>1, <2>3, <2>5, EventsConstants, PublishedInside
  <2>7. /\ Rising(FramePath', FrameMessages)
        /\ Renewed(Numbers(FramePath, FrameMessages),
                   SetNumbers(Overwritten(client_rx, ClientCap), FrameMessages), {},
                   Numbers(FramePath', FrameMessages))
    BY <2>4, <2>6 DEF new, C
  <2>8. Came' = Came
    BY <2>2 DEF Came
  <2>9. Accounted(FramePath', lost \cup Overwritten(client_rx, ClientCap), Came)
    BY <1>a, <2>7, Republished
  <2>10. QED
    BY <2>2, <2>8, <2>9, FramesSaidNext
<1>3. CASE ListenEvent
  <2> DEFINE m == Head(client_rx.buf)
             t == Tail(client_rx.buf)
             new == Published(module_rx, ModuleCap, m).buf
  <2>1. /\ m \in Messages /\ t \in Seq(Messages) /\ <<m>> \o t = K
        /\ Taken(client_rx).buf = t
    <3>1. client_rx.buf # <<>> /\ client_rx.buf \in Seq(Messages)
      BY <1>3, <1>s DEF ListenEvent, HasMessage, K
    <3>2. m \in Messages /\ t \in Seq(Messages) /\ <<m>> \o t = client_rx.buf
      BY <3>1, HeadFirst
    <3>3. Taken(client_rx).buf = t
      BY <1>t, <3>1, EventsConstants, TakenChannel
    <3>4. QED
      BY <3>2, <3>3 DEF K
  <2>2. /\ m[1] = "frame" =>
             /\ module_rx' = Published(module_rx, ModuleCap, m)
             /\ lost' = lost \cup Overwritten(module_rx, ModuleCap)
        /\ m[1] # "frame" => UNCHANGED <<module_rx, lost>>
        /\ client_rx' = Taken(client_rx)
        /\ UNCHANGED <<arrived, Y, P>>
    BY <1>3 DEF ListenEvent, Y, P
  <2>3. K' = t
    BY <2>1, <2>2 DEF K
  <2>4. Came' = Came
    BY <2>2 DEF Came
  <2>5. t \o P \in Seq(Messages) /\ <<m>> \in Seq(Messages)
    BY <1>s, <2>1, ConcatProperties
  <2>6. FramePath = (Y \o M) \o (<<m>> \o (t \o P))
    <3> DEFINE F == Y \o M
               h == <<m>>
    <3>1. FramePath = (F \o (h \o t)) \o P
      BY <1>p, <2>1
    <3>2. F \in Seq(Messages) /\ h \in Seq(Messages) /\ t \in Seq(Messages) /\ P \in Seq(Messages)
      BY <1>o, <1>s, <2>1, <2>5
    <3> HIDE DEF F, h, t
    <3>3. (F \o (h \o t)) \o P = F \o (h \o (t \o P))
      <4> DEFINE g == h \o t
      <4>1. g \in Seq(Messages)
        BY <3>2, ConcatProperties
      <4>2. g \o P = h \o (t \o P)
        BY ONLY <3>2, ConcatAssociative
      <4> HIDE DEF g
      <4>3. (F \o g) \o P = F \o (g \o P)
        BY ONLY <3>2, <4>1, <1>x
      <4>4. QED
        BY <4>2, <4>3 DEF g
    <3>4. QED
      BY <3>1, <3>3 DEF F, h
  <2>7. CASE m[1] = "frame"
    <3> DEFINE r == t \o P
    <3>1. M' = new /\ lost' = lost \cup Overwritten(module_rx, ModuleCap)
      BY <2>2, <2>7 DEF M
    <3>2. FramePath' = (Y \o new) \o r
      <4>1. Published(module_rx, ModuleCap, m) \in ChannelOf(Messages, ModuleCap)
        BY <1>t, <2>1, EventsConstants, PublishedTyped
      <4>2. Y \o new \in Seq(Messages)
        <5>1. new \in Seq(Messages)
          BY <4>1 DEF ChannelOf
        <5>2. QED
          BY <1>s, <5>1, ConcatProperties
      <4>3. FramePath' = ((Y \o new) \o t) \o P
        BY <1>p, <2>2, <2>3, <3>1
      <4>4. t \in Seq(Messages) /\ P \in Seq(Messages)
        BY <1>s, <2>1
      <4> DEFINE g == Y \o new
      <4> HIDE DEF new, t, g
      <4>5. (g \o t) \o P = g \o (t \o P)
        BY ONLY <4>2, <4>4, ConcatAssociative DEF g
      <4>6. QED
        BY <4>3, <4>5 DEF g
    <3>3. FramePath = (Y \o module_rx.buf) \o (<<m>> \o r)
      BY <2>6 DEF M
    <3>4. r \in Seq(Messages)
      BY <2>5
    <3> HIDE DEF m, t, new, r
    <3>5. Rising((Y \o module_rx.buf) \o (<<m>> \o r), C)
      BY <1>a, <3>3 DEF Accounted, C
    <3>6. /\ Rising((Y \o Published(module_rx, ModuleCap, m).buf) \o r, C)
          /\ Renewed(Numbers((Y \o module_rx.buf) \o (<<m>> \o r), C),
                     SetNumbers(Overwritten(module_rx, ModuleCap), C), {},
                     Numbers((Y \o Published(module_rx, ModuleCap, m).buf) \o r, C))
      BY <1>s, <1>t, <1>c, <2>1, <3>4, <3>5, EventsConstants, PublishedInside
    <3>7. /\ Rising(FramePath', FrameMessages)
          /\ Renewed(Numbers(FramePath, FrameMessages),
                     SetNumbers(Overwritten(module_rx, ModuleCap), FrameMessages), {},
                     Numbers(FramePath', FrameMessages))
      BY <3>2, <3>3, <3>6 DEF new, C
    <3>8. Accounted(FramePath', lost \cup Overwritten(module_rx, ModuleCap), Came)
      BY <1>a, <3>7, Republished
    <3>9. QED
      BY <2>4, <3>1, <3>8, FramesSaidNext
  <2>8. CASE m[1] # "frame"
    <3> DEFINE F == Y \o M
               r == t \o P
    <3>1. M' = M /\ lost' = lost
      BY <2>2, <2>8 DEF M
    <3>2. m \notin FrameMessages
      BY <2>1, <2>8, FrameIsMessage
    <3>3. F \in Seq(Messages) /\ r \in Seq(Messages)
      BY <1>o, <2>5
    <3>4. FramePath' = F \o r
      <4>1. FramePath' = (F \o t) \o P
        BY <1>p, <2>2, <2>3, <3>1
      <4> HIDE DEF F, t
      <4>2. F \in Seq(Messages) /\ t \in Seq(Messages) /\ P \in Seq(Messages)
        BY <1>s, <2>1, <3>3
      <4>3. (F \o t) \o P = F \o (t \o P)
        BY <1>x, <4>2
      <4>4. QED
        BY <4>1, <4>3
    <3>5. FramePath = (F \o <<m>>) \o r
      <4> DEFINE h == <<m>>
      <4>1. FramePath = F \o (h \o r) /\ h \in Seq(Messages)
        BY <2>5, <2>6
      <4> HIDE DEF F, r, h
      <4>2. (F \o h) \o r = F \o (h \o r)
        BY <1>x, <3>3, <4>1
      <4>3. QED
        BY <4>1, <4>2 DEF h
    <3> HIDE DEF m, F, r
    <3>6. SameOrder(F, F \o <<m>>, FrameMessages)
      BY <2>1, <3>2, <3>3, UncountedMessage
    <3>7. SameOrder(F \o <<m>>, F, FrameMessages) /\ F \o <<m>> \in Seq(Messages)
      BY <2>5, <3>3, <3>6, ConcatProperties DEF SameOrder
    <3>8. SameOrder((F \o <<m>>) \o r, F \o r, FrameMessages)
      <4> DEFINE h == F \o <<m>>
      <4>1. h \in Seq(Messages) /\ SameOrder(h, F, FrameMessages)
        BY <3>7
      <4> HIDE DEF h
      <4>2. SameOrder(h \o r, F \o r, FrameMessages)
        BY <3>3, <4>1, SameOrderConcat
      <4>3. QED
        BY <4>2 DEF h
    <3>9. Accounted(FramePath', lost, Came)
      BY <1>a, <3>4, <3>5, <3>8, PassedOn
    <3>10. QED
      BY <2>4, <3>1, <3>9, FramesSaidNext
  <2>9. QED
    BY <2>7, <2>8
<1>4. CASE Yield
  <2>1. /\ M # <<>> /\ Head(M) \in Messages /\ M' = Tail(M) /\ Y' = Append(Y, Head(M))
    BY <1>4, <1>t, EventsConstants, TakenChannel DEF Yield, HasMessage, M, Y
  <2>2. UNCHANGED <<K, P, lost, Came>>
    BY <1>4 DEF Yield, K, P, Came
  <2>3. Y' = Y \o <<Head(M)>>
    BY <1>s, <2>1, AppendIsConcat
  <2>4. (Y \o <<Head(M)>>) \o Tail(M) = Y \o M
    BY <1>s, <2>1, Passed
  <2>5. FramePath' = FramePath
    BY <1>p, <2>1, <2>2, <2>3, <2>4
  <2>6. QED
    BY <1>a, <2>2, <2>5, FramesSaidNext
<1>5. CASE MeetLag \/ ListenLag \/ SubscriberLag
  <2>1. /\ LagSeen(peer_rx).buf = peer_rx.buf /\ LagSeen(client_rx).buf = client_rx.buf
        /\ LagSeen(module_rx).buf = module_rx.buf
    BY <1>t, EventsConstants, TakenChannel
  <2>2. UNCHANGED <<Y, M, K, P, lost, Came>>
    BY <1>5, <2>1 DEF MeetLag, ListenLag, SubscriberLag, Y, M, K, P, Came
  <2>3. FramePath' = FramePath
    BY <1>p, <2>2
  <2>4. QED
    BY <1>a, <2>2, <2>3, FramesSaidNext
<1>6. QED
  BY <1>1, <1>2, <1>3, <1>4, <1>5 DEF Next, Managing, Listening, Subscriber

--------------------------------------------------------------------------------
LEMMA HeldBehind ==
  ASSUME NEW S, NEW s \in Seq(S), s # <<>>
  PROVE  \A x : Holds(s, x) => Holds(Tail(s), x) \/ x = Head(s)
<1>1. /\ Tail(s) \in Seq(S) /\ Len(Tail(s)) = Len(s) - 1 /\ Head(s) = s[1]
      /\ \A i \in 1..Len(Tail(s)) : Tail(s)[i] = s[i + 1]
      /\ Len(s) \in Nat /\ DOMAIN s = 1..Len(s)
  BY HeadTailProperties, LenProperties
<1>2. DOMAIN Tail(s) = 1..(Len(s) - 1)
  BY <1>1, LenProperties
<1>3. ASSUME NEW k \in 1..Len(s), k # 1 PROVE Holds(Tail(s), s[k])
  <2>1. k - 1 \in 1..(Len(s) - 1) /\ (k - 1) + 1 = k
    BY <1>1, <1>3
  <2>2. Tail(s)[k - 1] = s[k]
    BY <1>1, <2>1
  <2>3. QED
    BY <1>2, <2>1, <2>2 DEF Holds
<1>4. QED
  BY <1>1, <1>3 DEF Holds

(* Which messages a channel holds after it is published to or read.         *)
LEMMA HeldAfter ==
  ASSUME NEW S, NEW n \in Nat \ {0}, NEW ch \in ChannelOf(S, n), NEW m \in S
  PROVE  /\ Holds(Published(ch, n, m).buf, m)
         /\ \A x : Holds(ch.buf, x) =>
              Holds(Published(ch, n, m).buf, x) \/ x \in Overwritten(ch, n)
<1> DEFINE rest == IF Full(ch, n) THEN Tail(ch.buf) ELSE ch.buf
           new  == Published(ch, n, m).buf
<1>1. ch.buf \in Seq(S)
  BY DEF ChannelOf
<1>2. rest \in Seq(S) /\ \A x : Holds(ch.buf, x) => Holds(rest, x) \/ x \in Overwritten(ch, n)
  <2>1. CASE Full(ch, n)
    <3>1. ch.buf # <<>> /\ rest = Tail(ch.buf) /\ Overwritten(ch, n) = {Head(ch.buf)}
      BY <1>1, <2>1 DEF Full, Overwritten
    <3>2. \A x : Holds(ch.buf, x) => Holds(Tail(ch.buf), x) \/ x = Head(ch.buf)
      BY <1>1, <3>1, HeldBehind
    <3>3. Tail(ch.buf) \in Seq(S)
      BY <1>1, <3>1, HeadTailProperties
    <3>4. QED
      BY <3>1, <3>2, <3>3
  <2>2. CASE ~Full(ch, n)
    BY <1>1, <2>2
  <2>3. QED
    BY <2>1, <2>2
<1>3. new = Append(rest, m)
  <2>1. CASE Full(ch, n)
    BY <2>1 DEF Published
  <2>2. CASE ~Full(ch, n)
    BY <2>2 DEF Published, ChannelOf
  <2>3. QED
    BY <2>1, <2>2
<1> HIDE DEF rest, new
<1>4. /\ new \in Seq(S) /\ Len(new) = Len(rest) + 1 /\ Len(rest) \in Nat
      /\ \A i \in 1..Len(rest) : new[i] = rest[i]
      /\ new[Len(rest) + 1] = m
  BY <1>2, <1>3, AppendProperties, LenProperties
<1>5. DOMAIN new = 1..(Len(rest) + 1) /\ DOMAIN rest = 1..Len(rest)
  BY <1>2, <1>4, LenProperties
<1>6. Holds(new, m)
  BY <1>4, <1>5 DEF Holds
<1>7. \A x : Holds(rest, x) => Holds(new, x)
  <2>1. ASSUME NEW x, NEW k \in 1..Len(rest), rest[k] = x PROVE Holds(new, x)
    <3>1. k \in 1..(Len(rest) + 1) /\ new[k] = x
      BY <1>4, <2>1
    <3>2. QED
      BY <1>5, <3>1 DEF Holds
  <2>2. QED
    BY <1>5, <2>1 DEF Holds
<1>8. QED
  BY <1>2, <1>6, <1>7 DEF new

LEMMA ResponsesStep ==
  ASSUME EventsTypeInv, ResponsesAnswered, Next
  PROVE  ResponsesAnswered'
<1>t. /\ peer_rx \in ChannelOf(Messages, PeerCap)
      /\ arrived \in Seq(Messages) /\ DOMAIN arrived = 1..Len(arrived) /\ Len(arrived) \in Nat
  BY LenProperties DEF EventsTypeInv
<1>a. ~deaf =>
        \A i \in DOMAIN arrived :
          arrived[i][1] = "response" =>
            arrived[i] \in answered \/ Holds(peer_rx.buf, arrived[i]) \/ arrived[i] \in lost
  BY DEF ResponsesAnswered, Holds
<1>b. (~deaf' =>
         \A i \in DOMAIN arrived' :
           arrived'[i][1] = "response" =>
             arrived'[i] \in answered' \/ Holds(peer_rx'.buf, arrived'[i]) \/ arrived'[i] \in lost')
      => ResponsesAnswered'
  BY DEF ResponsesAnswered, Holds
<1>1. ASSUME NEW kind \in Kinds, PeerReceive(kind) PROVE ResponsesAnswered'
  <2> DEFINE m == <<kind, Len(arrived) + 1>>
  <2>1. m \in Messages
    BY <1>1, <1>t, EventsConstants DEF PeerReceive, Messages
  <2>2. /\ arrived' = Append(arrived, m) /\ peer_rx' = Published(peer_rx, PeerCap, m)
        /\ lost' = lost \cup Overwritten(peer_rx, PeerCap)
        /\ UNCHANGED <<deaf, answered>>
    BY <1>1 DEF PeerReceive
  <2> HIDE DEF m
  <2>3. /\ Holds(peer_rx'.buf, m)
        /\ \A x : Holds(peer_rx.buf, x) =>
             Holds(peer_rx'.buf, x) \/ x \in Overwritten(peer_rx, PeerCap)
    BY <1>t, <2>1, <2>2, EventsConstants, HeldAfter
  <2>4. /\ arrived' \in Seq(Messages) /\ Len(arrived') = Len(arrived) + 1
        /\ \A i \in 1..Len(arrived) : arrived'[i] = arrived[i]
        /\ arrived'[Len(arrived) + 1] = m
    BY <1>t, <2>1, <2>2, AppendProperties
  <2>5. DOMAIN arrived' = 1..(Len(arrived) + 1)
    BY <2>4, LenProperties
  <2>6. ASSUME ~deaf, NEW i \in 1..(Len(arrived) + 1), arrived'[i][1] = "response"
        PROVE  arrived'[i] \in answered' \/ Holds(peer_rx'.buf, arrived'[i]) \/ arrived'[i] \in lost'
    <3>1. CASE i = Len(arrived) + 1
      BY <2>3, <2>4, <3>1
    <3>2. CASE i \in 1..Len(arrived)
      <4>1. arrived'[i] = arrived[i] /\ i \in DOMAIN arrived
        BY <1>t, <2>4, <3>2
      <4>2. arrived[i] \in answered \/ Holds(peer_rx.buf, arrived[i]) \/ arrived[i] \in lost
        BY <1>a, <2>6, <4>1
      <4>3. QED
        BY <2>2, <2>3, <4>1, <4>2
    <3>3. QED
      BY <1>t, <3>1, <3>2
  <2>7. QED
    BY <1>b, <2>2, <2>5, <2>6
<1>2. CASE ManageResponse
  <2> DEFINE m == Head(peer_rx.buf)
  <2>1. peer_rx.buf # <<>> /\ peer_rx.buf \in Seq(Messages) /\ peer_rx'.buf = Tail(peer_rx.buf)
    <3>1. peer_rx.buf # <<>> /\ peer_rx' = Taken(peer_rx)
      BY <1>2 DEF ManageResponse, HasMessage
    <3>2. peer_rx.buf \in Seq(Messages)
      BY <1>t DEF ChannelOf
    <3>3. Taken(peer_rx).buf = Tail(peer_rx.buf)
      BY <1>t, <3>1, EventsConstants, TakenChannel
    <3>4. QED
      BY <3>1, <3>2, <3>3
  <2>2. /\ lost' = lost \cup Overwritten(client_rx, ClientCap)
        /\ answered' = IF m[1] = "response" THEN answered \cup {m} ELSE answered
        /\ UNCHANGED <<arrived, deaf>>
    BY <1>2 DEF ManageResponse
  <2>3. \A x : Holds(peer_rx.buf, x) => Holds(peer_rx'.buf, x) \/ x = m
    BY <2>1, HeldBehind
  <2> HIDE DEF m
  <2>4. answered \subseteq answered' /\ lost \subseteq lost'
        /\ (m[1] = "response" => m \in answered')
    BY <2>2
  <2>5. QED
    BY <1>a, <1>b, <2>2, <2>3, <2>4
<1>3. CASE MeetLag
  BY <1>3 DEF MeetLag, ResponsesAnswered
<1>4. CASE ListenEvent
  <2>1. lost \subseteq lost' /\ UNCHANGED <<arrived, peer_rx, deaf, answered>>
    BY <1>4 DEF ListenEvent
  <2>2. QED
    BY <1>a, <1>b, <2>1
<1>5. CASE ListenLag \/ Yield \/ SubscriberLag
  <2>1. UNCHANGED <<arrived, peer_rx, deaf, answered, lost>>
    BY <1>5 DEF ListenLag, Yield, SubscriberLag
  <2>2. QED
    BY <1>a, <1>b, <2>1
<1>6. QED
  BY <1>1, <1>2, <1>3, <1>4, <1>5 DEF Next, Managing, Listening, Subscriber

(* Every frame that arrived is yielded, on its way in its order or was      *)
(* overwritten, and unless manage_responses is deaf every response is       *)
(* handed to the request table, waits for it or was overwritten.            *)
THEOREM AccountedForAlways == Spec => []MessagesAccountedFor
<1>1. Init => FramesAccountedFor /\ ResponsesAnswered
  <2>1. Init => ResponsesAnswered
    BY DEF Init, ResponsesAnswered
  <2>2. QED
    BY <2>1, FramesInit
<1>2. FramesAccountedFor /\ ResponsesAnswered /\ UNCHANGED vars =>
        FramesAccountedFor' /\ ResponsesAnswered'
  <2> SUFFICES ASSUME FramesAccountedFor, ResponsesAnswered, UNCHANGED vars
               PROVE  FramesAccountedFor' /\ ResponsesAnswered'
    OBVIOUS
  <2>1. UNCHANGED <<FramePath, lost, Came>>
    BY DEF vars, FramePath, Came
  <2>2. FramesAccountedFor'
    BY <2>1, FramesSaid, FramesSaidNext
  <2>3. ResponsesAnswered'
    BY DEF vars, ResponsesAnswered
  <2>4. QED
    BY <2>2, <2>3
<1>3. /\ EventsTypeInv /\ FramesAccountedFor /\ ResponsesAnswered /\ [Next]_vars
      => FramesAccountedFor' /\ ResponsesAnswered'
  BY <1>2, FramesStep, ResponsesStep
<1>4. FramesAccountedFor /\ ResponsesAnswered => MessagesAccountedFor
  BY DEF MessagesAccountedFor
<1>5. QED
  BY <1>1, <1>3, <1>4, EventsTypeAlways, PTL DEF Spec


--------------------------------------------------------------------------------
(* The form.  What CursorOnForm says of the keys follows from the cursor    *)
(* being on a field that is shown; that it stays there when the modulation, *)
(* and with it the form, changes is because the cursor stands on ModType,   *)
(* one of the seven fields of every form.                                   *)
BaseFields == {"ServerAddr", "Module", "FreqMhz", "Channel", "ChannelSpacingKhz", "BwFilter", "ModType"}
CycledFields == Enums \cup {"Module", "BwFilter", "ModType", "TxPower"}
AllFields == TextFields \cup CycledFields
Mods == {"Off", "Ofdm", "Qpsk", "Fsk"}

PickedRight(p) ==
  /\ DOMAIN p = CycledFields
  /\ \A f \in Enums : p[f] \in 0..(Sizes[f] - 1)
  /\ p["BwFilter"] \in 0..1
  /\ p["ModType"] \in 0..3
  /\ p["TxPower"] \in 0..PowerMax
  /\ p["Module"] \in 0..(MaxModules - 1)

FormInv ==
  /\ PickedRight(picked)
  /\ focused \in Visible
  /\ editing \in BOOLEAN
  /\ editing => focused \in TextFields /\ compose = NoCompose
  /\ typed \in [TextFields -> BOOLEAN]
  /\ compose \in {NoCompose} \cup 0..MaxCompose
  /\ module_count \in 0..MaxModules
  /\ ConfiguredWhenValid

LEMMA Joined ==
  ASSUME NEW S, NEW s \in Seq(S), NEW t \in Seq(S)
  PROVE  /\ s \o t \in Seq(S) /\ Len(s \o t) = Len(s) + Len(t) /\ Len(t) \in Nat
         /\ \A i \in 1..Len(s) : (s \o t)[i] = s[i]
  OBVIOUS

LEMMA FormOf ==
  ASSUME NEW mod \in Mods
  PROVE  /\ VisibleFields(mod) \in Seq(AllFields) /\ Len(VisibleFields(mod)) \in Nat \ {0}
         /\ BaseFields \subseteq {VisibleFields(mod)[i] : i \in DOMAIN VisibleFields(mod)}
<1> DEFINE base == <<"ServerAddr", "Module", "FreqMhz", "Channel", "ChannelSpacingKhz", "BwFilter", "ModType">>
           more == CASE mod = "Ofdm" -> <<"OfdmMcs", "OfdmOpt", "TxPower">>
                     [] mod = "Qpsk" -> <<"QpskFchip", "QpskMode", "TxPower">>
                     [] OTHER        -> <<>>
           all == base \o more
<1>1. VisibleFields(mod) = all  BY DEF VisibleFields
<1>2. base \in Seq(AllFields) /\ Len(base) = 7  BY DEF AllFields, TextFields, CycledFields
<1>3. \A f \in BaseFields : \E i \in 1..7 : base[i] = f
  <2>1. /\ base[1] = "ServerAddr" /\ base[2] = "Module" /\ base[3] = "FreqMhz" /\ base[4] = "Channel"
        /\ base[5] = "ChannelSpacingKhz" /\ base[6] = "BwFilter" /\ base[7] = "ModType"
    OBVIOUS
  <2> HIDE DEF base
  <2> QED BY <2>1 DEF BaseFields
<1>4. more \in Seq(AllFields)
  <2>1. CASE mod = "Ofdm"
    <3>1. more = <<"OfdmMcs", "OfdmOpt", "TxPower">>  BY <2>1, Zenon
    <3>2. {"OfdmMcs", "OfdmOpt", "TxPower"} \subseteq AllFields
      BY DEF AllFields, CycledFields, Enums
    <3> HIDE DEF more
    <3> QED BY ONLY <3>1, <3>2
  <2>2. CASE mod = "Qpsk"
    <3>1. "Qpsk" # "Ofdm"  OBVIOUS
    <3>2. more = <<"QpskFchip", "QpskMode", "TxPower">>  BY <2>2, <3>1, Zenon
    <3>3. {"QpskFchip", "QpskMode", "TxPower"} \subseteq AllFields
      BY DEF AllFields, CycledFields, Enums
    <3> HIDE DEF more
    <3> QED BY ONLY <3>2, <3>3
  <2>3. CASE mod # "Ofdm" /\ mod # "Qpsk"
    <3>1. more = <<>>  BY <2>3, Zenon
    <3> QED BY <3>1
  <2> QED BY <2>1, <2>2, <2>3
<1> HIDE DEF base, more
<1>5. /\ all \in Seq(AllFields) /\ Len(all) \in Nat /\ Len(all) >= 7
      /\ \A i \in 1..7 : all[i] = base[i]
  <2>1. base \in Seq(AllFields) /\ Len(base) = 7 /\ more \in Seq(AllFields)  BY <1>2, <1>4
  <2>2. /\ base \o more \in Seq(AllFields) /\ Len(base \o more) = Len(base) + Len(more)
        /\ Len(more) \in Nat /\ \A i \in 1..Len(base) : (base \o more)[i] = base[i]
    BY ONLY <2>1, Joined
  <2>3. all = base \o more  OBVIOUS
  <2> HIDE DEF all
  <2> QED BY ONLY <2>1, <2>2, <2>3
<1>6. DOMAIN all = 1..Len(all) /\ 1..7 \subseteq DOMAIN all  BY <1>5
<1> HIDE DEF all
<1>7. BaseFields \subseteq {all[i] : i \in DOMAIN all}
  <2> SUFFICES ASSUME NEW f \in BaseFields PROVE \E i \in DOMAIN all : all[i] = f  OBVIOUS
  <2>1. PICK i \in 1..7 : base[i] = f  BY <1>3
  <2> QED BY <1>5, <1>6, <2>1
<1> QED BY <1>1, <1>5, <1>7

LEMMA FieldsAre ==
  ASSUME picked["ModType"] \in 0..3
  PROVE  /\ Fields \in Seq(AllFields) /\ Len(Fields) \in Nat \ {0}
         /\ Visible = {Fields[i] : i \in 1..Len(Fields)}
         /\ BaseFields \subseteq Visible /\ Visible \subseteq AllFields
<1> DEFINE mod == ModTypes[picked["ModType"] + 1]
<1>1. mod \in Mods
  <2>1. ModTypes[1] = "Off" /\ ModTypes[2] = "Ofdm" /\ ModTypes[3] = "Qpsk" /\ ModTypes[4] = "Fsk"
    BY DEF ModTypes
  <2>2. picked["ModType"] \in {0, 1, 2, 3}  OBVIOUS
  <2> QED BY <2>1, <2>2 DEF Mods
<1> HIDE DEF mod
<1>2. Fields = VisibleFields(mod)  BY DEF Fields, mod
<1>3. Fields \in Seq(AllFields) /\ Len(Fields) \in Nat \ {0}  BY <1>1, <1>2, FormOf
<1>4. Visible = {Fields[i] : i \in DOMAIN Fields}  BY DEF Visible
<1>5. BaseFields \subseteq Visible  BY <1>1, <1>2, <1>4, FormOf
<1>6. DOMAIN Fields = 1..Len(Fields)  BY <1>3
<1>7. Visible \subseteq AllFields  BY <1>3, <1>4, <1>6
<1> QED BY <1>3, <1>4, <1>5, <1>6, <1>7

LEMMA InRange ==
  ASSUME NEW x \in Int, NEW n \in Nat \ {0}
  PROVE  x % n \in 0..(n - 1)
  OBVIOUS

LEMMA Wraps ==
  ASSUME NEW n \in Nat \ {0}, NEW i \in 1..n, NEW j \in 1..n
  PROVE  \E k \in 1..n : ((i - 1 + k) % n) + 1 = j
<1>1. \A x \in 0..(n - 1) : x % n = x /\ (x + n) % n = x
  <2> SUFFICES ASSUME NEW x \in 0..(n - 1) PROVE x % n = x /\ (x + n) % n = x  OBVIOUS
  <2>1. x % n = x  OBVIOUS
  <2>2. (x + n) % n = x  OBVIOUS
  <2> QED BY <2>1, <2>2
<1>2. CASE i < j
  <2> DEFINE k == j - i
  <2>1. k \in 1..n /\ i - 1 + k = j - 1 /\ j - 1 \in 0..(n - 1)  BY <1>2
  <2> HIDE DEF k
  <2>2. (i - 1 + k) % n = j - 1  BY <1>1, <2>1
  <2>3. (j - 1) + 1 = j  OBVIOUS
  <2> QED BY <2>1, <2>2, <2>3
<1>3. CASE j <= i
  <2> DEFINE k == j - i + n
  <2>1. k \in 1..n /\ i - 1 + k = (j - 1) + n /\ j - 1 \in 0..(n - 1)  BY <1>3
  <2> HIDE DEF k
  <2>2. (i - 1 + k) % n = j - 1  BY <1>1, <2>1
  <2>3. (j - 1) + 1 = j  OBVIOUS
  <2> QED BY <2>1, <2>2, <2>3
<1> QED BY <1>2, <1>3

LEMMA Cursor ==
  ASSUME picked["ModType"] \in 0..3
  PROVE  /\ FocusedIndex \in 1..Len(Fields)
         /\ \A k \in Int : Step(k) \in Visible
         /\ {Step(n) : n \in 1..Len(Fields)} = Visible
<1> DEFINE n == Len(Fields)
           i == FocusedIndex
<1>1. n \in Nat \ {0} /\ Visible = {Fields[k] : k \in 1..n} /\ DOMAIN Fields = 1..n  BY FieldsAre
<1>2. i \in 1..n
  <2>1. CASE focused \in Visible
    <3>1. \E k \in DOMAIN Fields : Fields[k] = focused  BY <1>1, <2>1
    <3>2. i = CHOOSE k \in DOMAIN Fields : Fields[k] = focused  BY <2>1 DEF FocusedIndex
    <3>3. i \in DOMAIN Fields  BY <3>1, <3>2
    <3> QED BY <1>1, <3>3
  <2>2. CASE focused \notin Visible
    <3>1. i = 1  BY <2>2 DEF FocusedIndex
    <3> QED BY <1>1, <3>1
  <2> QED BY <2>1, <2>2
<1>3. \A k : Step(k) = Fields[((i - 1 + k) % n) + 1]  BY DEF Step
<1> HIDE DEF n, i
<1>4. \A k \in Int : ((i - 1 + k) % n) + 1 \in 1..n
  <2> SUFFICES ASSUME NEW k \in Int PROVE ((i - 1 + k) % n) + 1 \in 1..n  OBVIOUS
  <2>1. i - 1 + k \in Int  BY <1>2
  <2>2. (i - 1 + k) % n \in 0..(n - 1)  BY <1>1, <2>1, InRange
  <2> QED BY <1>1, <2>2
<1>5. \A k \in Int : Step(k) \in Visible  BY <1>1, <1>3, <1>4
<1>6. Visible \subseteq {Step(k) : k \in 1..n}
  <2> SUFFICES ASSUME NEW j \in 1..n PROVE \E k \in 1..n : Step(k) = Fields[j]  BY <1>1
  <2>1. PICK k \in 1..n : ((i - 1 + k) % n) + 1 = j  BY <1>1, <1>2, Wraps
  <2> QED BY <1>3, <2>1
<1>7. 1..n \subseteq Int  BY <1>1
<1> QED BY <1>2, <1>5, <1>6, <1>7 DEF n, i

LEMMA FormInvInit == FormInit => FormInv
<1> SUFFICES ASSUME FormInit PROVE FormInv  OBVIOUS
<1>0. /\ Sizes \in [Enums -> Nat \ {0}] /\ PowerMax \in Nat /\ MaxModules \in Nat \ {0}
      /\ MaxCompose \in Nat
  BY FormAssumption
<1> DEFINE Begun(f) == CASE f = "ModType" -> 1
                         [] f = "OfdmMcs" -> Sizes[f] - 1
                         [] f = "TxPower" -> PowerMax \div 2
                         [] OTHER         -> 0
<1>1. picked = [f \in CycledFields |-> Begun(f)]  BY DEF FormInit, CycledFields
<1>2. /\ Begun("ModType") = 1
      /\ Begun("OfdmMcs") = Sizes["OfdmMcs"] - 1
      /\ Begun("TxPower") = PowerMax \div 2
      /\ Begun("OfdmOpt") = 0 /\ Begun("QpskFchip") = 0 /\ Begun("QpskMode") = 0
      /\ Begun("BwFilter") = 0 /\ Begun("Module") = 0
  <2>1. "OfdmMcs" # "ModType" /\ "TxPower" # "ModType" /\ "TxPower" # "OfdmMcs"  OBVIOUS
  <2>2. \A f \in {"OfdmOpt", "QpskFchip", "QpskMode", "BwFilter", "Module"} :
          f # "ModType" /\ f # "OfdmMcs" /\ f # "TxPower"
    OBVIOUS
  <2>3. Begun("ModType") = 1  BY <2>1, Zenon
  <2>4. Begun("OfdmMcs") = Sizes["OfdmMcs"] - 1  BY <2>1, Zenon
  <2>5. Begun("TxPower") = PowerMax \div 2  BY <2>1, Zenon
  <2>6. \A f : f # "ModType" /\ f # "OfdmMcs" /\ f # "TxPower" => Begun(f) = 0  BY Zenon
  <2> HIDE DEF Begun
  <2> QED BY <2>2, <2>3, <2>4, <2>5, <2>6
<1> HIDE DEF Begun
<1>3. CycledFields = {"OfdmMcs", "OfdmOpt", "QpskFchip", "QpskMode", "Module", "BwFilter", "ModType", "TxPower"}
  BY DEF CycledFields, Enums
<1>4. \A f \in CycledFields : picked[f] = Begun(f)  BY <1>1
<1>5. PickedRight(picked)
  <2>1. DOMAIN picked = CycledFields  BY <1>1
  <2>2. \A f \in Enums : picked[f] \in 0..(Sizes[f] - 1)
    BY <1>0, <1>2, <1>3, <1>4 DEF Enums
  <2>3. PowerMax \div 2 \in 0..PowerMax  BY <1>0
  <2>4. /\ picked["BwFilter"] = 0 /\ picked["ModType"] = 1
        /\ picked["TxPower"] = PowerMax \div 2 /\ picked["Module"] = 0
    BY <1>2, <1>3, <1>4
  <2> QED BY <1>0, <2>1, <2>2, <2>3, <2>4 DEF PickedRight
<1>6. focused \in Visible
  <2>1. "Module" \in BaseFields  BY DEF BaseFields
  <2> QED BY <1>5, <2>1, FieldsAre DEF FormInit, PickedRight
<1>7. typed \in [TextFields -> BOOLEAN]  BY DEF FormInit
<1>8. compose = NoCompose /\ module_count = 0 /\ sent = "nothing"  BY DEF FormInit
<1>9. editing \in BOOLEAN /\ ~editing  BY Zenon DEF FormInit
<1>10. ConfiguredWhenValid  BY ONLY <1>8 DEF ConfiguredWhenValid
<1>11. compose \in {NoCompose} \cup 0..MaxCompose /\ module_count \in 0..MaxModules
  BY ONLY <1>0, <1>8
<1> QED BY ONLY <1>5, <1>6, <1>7, <1>9, <1>10, <1>11, Zenon DEF FormInv

LEMMA SameForm ==
  ASSUME picked'["ModType"] = picked["ModType"]
  PROVE  Visible' = Visible
  BY DEF Visible, Fields

(* cycle_up and cycle_down keep every field within its values.              *)
LEMMA CycledRight ==
  ASSUME PickedRight(picked), module_count \in 0..MaxModules,
         NEW by \in {-1, 1}, NEW f \in CycledFields
  PROVE  PickedRight([picked EXCEPT ![f] = Cycled(f, @, by)])
<1> DEFINE v == picked[f]
           w == Cycled(f, v, by)
           p == [picked EXCEPT ![f] = w]
<1> SUFFICES PickedRight(p)  OBVIOUS
<1>0. /\ Sizes \in [Enums -> Nat \ {0}] /\ PowerMax \in Nat /\ MaxModules \in Nat \ {0}
  BY FormAssumption
<1>1. /\ DOMAIN p = CycledFields /\ p[f] = w
      /\ \A g \in CycledFields : g # f => p[g] = picked[g]
  BY DEF PickedRight
<1>2. CycledFields = {"OfdmMcs", "OfdmOpt", "QpskFchip", "QpskMode", "Module", "BwFilter", "ModType", "TxPower"}
  BY DEF CycledFields, Enums
<1>3. Enums = {"OfdmMcs", "OfdmOpt", "QpskFchip", "QpskMode"}  BY DEF Enums
<1>4. /\ \A g \in Enums : picked[g] \in 0..(Sizes[g] - 1)
      /\ picked["BwFilter"] \in 0..1 /\ picked["ModType"] \in 0..3
      /\ picked["TxPower"] \in 0..PowerMax /\ picked["Module"] \in 0..(MaxModules - 1)
  BY DEF PickedRight
<1>5. CASE f \in Enums
  <2>1. f # "Module" /\ f # "BwFilter" /\ f # "ModType" /\ f # "TxPower"  BY <1>3, <1>5
  <2>2. w = (v + by) % Sizes[f]  BY <2>1, Zenon DEF Cycled
  <2>3. v + by \in Int /\ Sizes[f] \in Nat \ {0}  BY <1>0, <1>4, <1>5
  <2>4. w \in 0..(Sizes[f] - 1)  BY <2>2, <2>3, InRange
  <2> HIDE DEF w, p
  <2> QED BY <1>1, <1>2, <1>3, <1>4, <1>5, <2>1, <2>4 DEF PickedRight
<1>6. CASE f = "Module"
  <2>1. w = IF module_count = 0 THEN v ELSE IF by = 1 THEN (v + 1) % module_count
            ELSE IF v = 0 THEN module_count - 1 ELSE v - 1
    BY <1>6, Zenon DEF Cycled
  <2>2. w \in 0..(MaxModules - 1)
    <3>1. CASE module_count = 0  BY <1>4, <1>6, <2>1, <3>1
    <3>2. CASE module_count # 0 /\ by = 1
      <4>1. v + 1 \in Int /\ module_count \in Nat \ {0}  BY <1>0, <1>4, <1>6, <3>2
      <4>2. (v + 1) % module_count \in 0..(module_count - 1)  BY <4>1, InRange
      <4>3. w = (v + 1) % module_count  BY <2>1, <3>2
      <4> HIDE DEF w, v
      <4> QED BY <1>0, <4>1, <4>2, <4>3
    <3>3. CASE module_count # 0 /\ by # 1
      <4>1. v \in 0..(MaxModules - 1)  BY <1>4, <1>6
      <4>2. w = IF v = 0 THEN module_count - 1 ELSE v - 1  BY <2>1, <3>3
      <4> HIDE DEF w, v
      <4> QED BY <1>0, <3>3, <4>1, <4>2
    <3> QED BY <3>1, <3>2, <3>3
  <2> HIDE DEF w, p
  <2> QED BY <1>1, <1>2, <1>3, <1>4, <1>6, <2>2 DEF PickedRight
<1>7. CASE f = "BwFilter"
  <2>1. "BwFilter" # "Module"  OBVIOUS
  <2>2. w = 1 - v  BY <1>7, <2>1, Zenon DEF Cycled
  <2>3. w \in 0..1  BY <1>4, <1>7, <2>2
  <2> HIDE DEF w, p
  <2> QED BY <1>1, <1>2, <1>3, <1>4, <1>7, <2>3 DEF PickedRight
<1>8. CASE f = "ModType"
  <2>1. "ModType" # "Module" /\ "ModType" # "BwFilter"  OBVIOUS
  <2>2. w = (v + by) % Len(ModTypes)  BY <1>8, <2>1, Zenon DEF Cycled
  <2>3. Len(ModTypes) = 4  BY DEF ModTypes
  <2>4. w \in 0..3  BY <1>4, <1>8, <2>2, <2>3
  <2> HIDE DEF w, p
  <2> QED BY <1>1, <1>2, <1>3, <1>4, <1>8, <2>4 DEF PickedRight
<1>9. CASE f = "TxPower"
  <2>1. "TxPower" # "Module" /\ "TxPower" # "BwFilter" /\ "TxPower" # "ModType"  OBVIOUS
  <2>2. w = IF v + by \in 0..PowerMax THEN v + by ELSE v  BY <1>9, <2>1, Zenon DEF Cycled
  <2>3. w \in 0..PowerMax  BY <1>4, <1>9, <2>2
  <2> HIDE DEF w, p
  <2> QED BY <1>1, <1>2, <1>3, <1>4, <1>9, <2>3 DEF PickedRight
<1> QED BY <1>2, <1>3, <1>5, <1>6, <1>7, <1>8, <1>9

LEMMA BaseShown == (picked["ModType"] \in 0..3)' => (BaseFields \subseteq Visible)'
<1>1. picked["ModType"] \in 0..3 => BaseFields \subseteq Visible  BY FieldsAre
<1> QED BY <1>1, PTL

LEMMA FormInvStep == FormInv /\ [FormNext]_formVars => FormInv'
<1> SUFFICES ASSUME FormInv, [FormNext]_formVars PROVE FormInv'  OBVIOUS
<1>0. picked["ModType"] \in 0..3  BY DEF FormInv, PickedRight
<1>1. CASE MoveFocus
  <2>1. PICK by \in {-1, 1} : focused' = Step(by)  BY <1>1 DEF MoveFocus
  <2>2. by \in Int  OBVIOUS
  <2>3. focused' \in Visible  BY <1>0, <2>1, <2>2, Cursor
  <2>4. UNCHANGED <<picked, typed, editing, compose, module_count>> /\ ~editing /\ sent' = "nothing"
    BY <1>1 DEF MoveFocus, Normal
  <2>5. Visible' = Visible  BY <2>4, SameForm
  <2> QED BY <2>3, <2>4, <2>5 DEF FormInv, ConfiguredWhenValid
<1>2. CASE Cycle
  <2>1. PICK by \in {-1, 1} : picked' = [picked EXCEPT ![focused] = Cycled(focused, @, by)]
    BY <1>2 DEF Cycle
  <2>2. focused \in CycledFields  BY <1>0, <1>2, FieldsAre DEF FormInv, AllFields, Cycle
  <2>3. PickedRight(picked')  BY <2>1, <2>2, CycledRight DEF FormInv
  <2>4. UNCHANGED <<focused, typed, editing, compose, module_count>> /\ ~editing /\ sent' = "nothing"
    BY <1>2 DEF Cycle, Normal
  <2>5. focused' \in Visible'
    <3>1. CASE focused = "ModType"
      <4>1. "ModType" \in BaseFields  BY DEF BaseFields
      <4>2. picked'["ModType"] \in 0..3  BY <2>3 DEF PickedRight
      <4>3. BaseFields \subseteq Visible'  BY <4>2, BaseShown DEF BaseFields
      <4> QED BY <2>4, <3>1, <4>1, <4>3
    <3>2. CASE focused # "ModType"
      <4>1. picked'["ModType"] = picked["ModType"]  BY <2>1, <3>2 DEF FormInv, PickedRight
      <4>2. Visible' = Visible  BY <4>1, SameForm
      <4> QED BY <2>4, <4>2 DEF FormInv
    <3> QED BY <3>1, <3>2
  <2> QED BY <2>3, <2>4, <2>5 DEF FormInv, ConfiguredWhenValid
<1>3. ASSUME UNCHANGED <<focused, picked>>,
             typed' \in [TextFields -> BOOLEAN], editing' \in BOOLEAN,
             editing' => focused \in TextFields /\ compose' = NoCompose,
             compose' \in {NoCompose} \cup 0..MaxCompose, module_count' \in 0..MaxModules,
             sent' = "Configure" => compose' = NoCompose /\ ~editing'
                                    /\ \A f \in TextFields \ {"ServerAddr"} : typed'[f]
      PROVE  FormInv'
  <2>1. Visible' = Visible  BY <1>3, SameForm
  <2>2. ConfiguredWhenValid'  BY <1>3 DEF ConfiguredWhenValid, Normal
  <2>3. PickedRight(picked') /\ focused' \in Visible'  BY <1>3, <2>1 DEF FormInv
  <2> QED BY <1>3, <2>2, <2>3 DEF FormInv
<1>4. /\ MaxModules \in Nat /\ MaxCompose \in Nat /\ "Configure" # "nothing" /\ NoCompose = -1
      /\ "Configure" # "Reconnect" /\ "Configure" # "Transmit"
  BY FormAssumption DEF NoCompose
<1>5. CASE BeginEdit
  BY <1>3, <1>4, <1>5 DEF BeginEdit, Normal, FormInv
<1>6. CASE EditText
  <2>1. PICK ok \in {TRUE, focused = "ServerAddr"} : typed' = [typed EXCEPT ![focused] = ok]
    BY <1>6 DEF EditText
  <2>2. ok \in BOOLEAN  BY Zenon
  <2>3. typed' \in [TextFields -> BOOLEAN]
    <3>1. typed \in [TextFields -> BOOLEAN]  BY DEF FormInv
    <3> QED BY ONLY <2>1, <2>2, <3>1
  <2>4. /\ UNCHANGED <<focused, picked, editing, compose, module_count>> /\ sent' = "nothing"
    BY <1>6 DEF EditText
  <2> QED BY <1>3, <1>4, <2>3, <2>4 DEF FormInv
<1>7. CASE EndEdit
  <2>1. sent' # "Configure" /\ module_count' \in {0, module_count}  BY <1>4, <1>7 DEF EndEdit
  <2>2. UNCHANGED <<focused, picked, typed, compose>>  BY <1>7 DEF EndEdit
  <2>3. editing' \in BOOLEAN /\ ~editing'  BY <1>7, Zenon DEF EndEdit
  <2>4. module_count' \in 0..MaxModules  BY <1>4, <2>1 DEF FormInv
  <2>5. typed' \in [TextFields -> BOOLEAN] /\ compose' \in {NoCompose} \cup 0..MaxCompose
    BY <2>2 DEF FormInv
  <2> QED BY ONLY <1>3, <2>1, <2>2, <2>3, <2>4, <2>5, Zenon
<1>8. CASE Apply
  <2>1. sent' = "Configure" => AllParse  BY <1>4, <1>8 DEF Apply
  <2>2. UNCHANGED <<focused, picked, typed, editing, compose, module_count>> /\ Normal
    BY <1>8 DEF Apply
  <2> QED BY <1>3, <2>1, <2>2 DEF FormInv, Normal, AllParse
<1>9. CASE OpenCompose
  BY <1>3, <1>4, <1>9 DEF OpenCompose, Normal, FormInv
<1>10. CASE ComposeKey
  BY <1>3, <1>4, <1>10 DEF ComposeKey, FormInv
<1>11. CASE CloseCompose
  <2>1. sent' # "Configure"  BY <1>4, <1>11 DEF CloseCompose
  <2> QED BY <1>3, <1>4, <1>11, <2>1 DEF CloseCompose, FormInv
<1>12. CASE Connected
  BY <1>3, <1>4, <1>12 DEF Connected, FormInv
<1>13. CASE UNCHANGED formVars
  <2>1. Visible' = Visible  BY <1>13, SameForm DEF formVars
  <2>2. ConfiguredWhenValid' <=> ConfiguredWhenValid
    BY <1>13 DEF formVars, ConfiguredWhenValid, Normal
  <2> QED BY <1>13, <2>1, <2>2 DEF formVars, FormInv
<1> QED BY <1>1, <1>2, <1>5, <1>6, <1>7, <1>8, <1>9, <1>10, <1>11, <1>12, <1>13 DEF FormNext

LEMMA FormInvAlways == FormSpec => []FormInv
  BY FormInvInit, FormInvStep, PTL DEF FormSpec

(* Every field of the form holds one of its values, whatever number of      *)
(* modules the servers report between two keys.                             *)
THEOREM FormTypeCorrect == FormSpec => []FormTypeOK
<1>1. FormInv => FormTypeOK
  <2> SUFFICES ASSUME FormInv PROVE FormTypeOK  OBVIOUS
  <2>1. focused \in TextFields \cup DOMAIN picked
    BY FieldsAre DEF FormInv, PickedRight, AllFields
  <2> QED BY <2>1 DEF FormInv, FormTypeOK, PickedRight
<1> QED BY <1>1, FormInvAlways, PTL

(* The cursor is on a field that is shown and can reach every other, text   *)
(* goes into text fields only, and only numbers that parse are sent.        *)
THEOREM FormInOrderAlways == FormSpec => []FormInOrder
<1>1. FormInv => FormInOrder
  BY Cursor DEF FormInv, PickedRight, FormInOrder, CursorOnForm
<1> QED BY <1>1, FormInvAlways, PTL

--------------------------------------------------------------------------------
(****************************************************************************)
(* Checksums, for messages of any length, cut anywhere, and for any number  *)
(* of failing calls.                                                        *)
(*                                                                          *)
(* A kernel that passes the probe is the right one (ProbePasses).  With     *)
(* that kernel, the hash a socket has open, followed by what is still to be *)
(* sent of a checksum or is buffered of a stream, is always the message     *)
(* (Digesting, Held), so the digest read at the end is the message's.       *)
(****************************************************************************)
OneShots == {"crc32", "hw"}
StreamCalls == {"update", "finalize"}

(* What the next send to a socket goes on with. *)
Hashing(s) == IF s.more THEN s.absorbed ELSE <<>>

SocketRecord(s) == DOMAIN s = {"open", "more", "absorbed"}

SocketShape(s) ==
  /\ SocketRecord(s)
  /\ s.open \in BOOLEAN /\ s.more \in BOOLEAN
  /\ s.absorbed \in Seq(Nat)

JobShape(j) ==
  /\ DOMAIN j = {"what", "sock", "more", "last", "closed", "tail", "msg"}
  /\ j.what \in {"idle"} \cup OneShots \cup StreamCalls
  /\ j.more \in Seq(Nat) /\ j.last \in Seq(Nat) /\ j.tail \in Seq(Nat)
  /\ j.closed \in BOOLEAN
  /\ j.what = "idle" => ~j.closed

Digesting(j, s) ==
  /\ j.closed => s.absorbed = j.msg /\ ~s.more /\ j.more = <<>>
  /\ ~j.closed => Hashing(s) \o (j.more \o j.last) = j.msg

SlotOk(s, j) ==
  /\ SocketShape(s)
  /\ j.what \in OneShots => j.sock = "slot" /\ Digesting(j, s)
  /\ j.what \notin OneShots => ~s.more

Held(h, s) ==
  /\ Hashing(s) \o h.held = Message(h.told)
  /\ Len(h.held) <= SendChunk
  /\ h.flushed => h.held # <<>>
  /\ ~h.flushed => ~s.more

StreamOk(s, h, j) ==
  /\ SocketShape(s)
  /\ h.impl = "Hardware" <=> s.open
  /\ j.what \in StreamCalls => h.impl = "Hardware" /\ j.sock = "stream"
  /\ j.what = "update" =>
       /\ ~j.closed
       /\ Hashing(s) \o (j.more \o j.tail) = Message(h.told)
       /\ Len(j.tail) <= SendChunk /\ j.tail # <<>>
  /\ j.what = "finalize" => j.more = <<>> /\ Digesting(j, s) /\ j.msg = Message(h.told)
  /\ j.what \notin StreamCalls /\ h.impl = "Hardware" /\ ~h.failed => Held(h, s)

HasherOk(h, n) ==
  /\ DOMAIN h = {"impl", "held", "flushed", "failed", "told"}
  /\ h.impl \in {"none", "Software", "Pending", "Hardware"}
  /\ h.held \in Seq(Nat) /\ h.told \in 0..MaxLen
  /\ h.flushed \in BOOLEAN /\ h.failed \in BOOLEAN
  /\ h.failed => n > 0
  /\ h.impl \in {"Software", "Pending"} => h.held = Message(h.told)
  /\ h.impl = "Pending" => Len(h.held) < MinHwLen
  /\ h.impl = "none" => h.told = 0

KernelOk(k, t, sl, st, j) ==
  /\ k \in Kernels /\ t \in {"unset", "none", "open"}
  /\ t = "open" => k = "right"
  /\ sl.open \/ st.open \/ j.what # "idle" => t = "open"

HasherInv ==
  /\ DOMAIN sock = {"slot", "stream"}
  /\ JobShape(job)
  /\ SlotOk(sock["slot"], job)
  /\ StreamOk(sock["stream"], hasher, job)
  /\ HasherOk(hasher, faults)
  /\ KernelOk(kernel, tfm, sock["slot"], sock["stream"], job)
  /\ faults \in 0..MaxFaults
  /\ RightOrPoisoned

--------------------------------------------------------------------------------
(* Messages. *)
LEMMA Messages0 == Message(0) = <<>> /\ \A n \in Nat : Message(n) \in Seq(Nat) /\ Len(Message(n)) = n
  BY DEF Message

LEMMA Split0 ==
  ASSUME NEW s \in Seq(Nat), NEW k \in 0..Len(s)
  PROVE  /\ SubSeq(s, 1, k) \in Seq(Nat) /\ SubSeq(s, k + 1, Len(s)) \in Seq(Nat)
         /\ SubSeq(s, 1, k) \o SubSeq(s, k + 1, Len(s)) = s
         /\ Len(SubSeq(s, k + 1, Len(s))) = Len(s) - k
<1> DEFINE a == SubSeq(s, 1, k)
           b == SubSeq(s, k + 1, Len(s))
<1>1. /\ a \in Seq(Nat) /\ Len(a) = k /\ \A i \in 1..k : a[i] = s[i]
  BY SubSeqProperties
<1>2. /\ b \in Seq(Nat) /\ Len(b) = Len(s) - k /\ \A i \in 1..(Len(s) - k) : b[i] = s[k + i]
  BY SubSeqProperties
<1> HIDE DEF a, b
<1>3. a \o b = s
  <2>1. /\ a \o b \in Seq(Nat) /\ Len(a \o b) = Len(a) + Len(b)
        /\ \A i \in 1..(Len(a) + Len(b)) : (a \o b)[i] = IF i <= Len(a) THEN a[i] ELSE b[i - Len(a)]
    BY <1>1, <1>2, ConcatProperties
  <2>2. \A i \in 1..Len(s) : (a \o b)[i] = s[i]  BY <1>1, <1>2, <2>1
  <2>3. Len(a \o b) = Len(s)  BY <1>1, <1>2, <2>1
  <2> DEFINE c == a \o b
  <2> HIDE DEF c
  <2>4. c \in Seq(Nat) /\ Len(c) = Len(s) /\ \A i \in 1..Len(c) : c[i] = s[i]
    BY ONLY <2>1, <2>2, <2>3 DEF c
  <2>5. c = s  BY ONLY <2>4, s \in Seq(Nat), SeqEqual
  <2> QED BY <2>5 DEF c
<1> QED BY <1>1, <1>2, <1>3 DEF a, b

LEMMA MessageGrows ==
  ASSUME NEW m \in Nat, NEW n \in Nat
  PROVE  LET d == [i \in 1..n |-> m + i]
         IN d \in Seq(Nat) /\ Len(d) = n /\ Message(m) \o d = Message(m + n)
<1> DEFINE d == [i \in 1..n |-> m + i]
           a == Message(m)
           b == Message(m + n)
<1>1. d \in Seq(Nat) /\ Len(d) = n /\ \A i \in 1..n : d[i] = m + i  OBVIOUS
<1>2. a \in Seq(Nat) /\ Len(a) = m /\ \A i \in 1..m : a[i] = i  BY DEF Message
<1>3. b \in Seq(Nat) /\ Len(b) = m + n /\ \A i \in 1..(m + n) : b[i] = i  BY DEF Message
<1> HIDE DEF a, b, d
<1>4. /\ a \o d \in Seq(Nat) /\ Len(a \o d) = Len(a) + Len(d)
      /\ \A i \in 1..(Len(a) + Len(d)) : (a \o d)[i] = IF i <= Len(a) THEN a[i] ELSE d[i - Len(a)]
  BY <1>1, <1>2, ConcatProperties
<1>5. \A i \in 1..Len(b) : (a \o d)[i] = b[i]  BY <1>1, <1>2, <1>3, <1>4
<1>6. a \o d = b  BY <1>1, <1>2, <1>3, <1>4, <1>5, SeqEqual
<1> QED BY <1>1, <1>6 DEF a, b, d

LEMMA Assoc ==
  ASSUME NEW a \in Seq(Nat), NEW b \in Seq(Nat), NEW c \in Seq(Nat)
  PROVE  (a \o b) \o c = a \o (b \o c) /\ a \o b \in Seq(Nat) /\ <<>> \o a = a /\ a \o <<>> = a
         /\ <<>> \in Seq(Nat)
  BY ConcatAssociative, ConcatEmptySeq, ConcatProperties

--------------------------------------------------------------------------------
(* The kernel that passes self_check. *)
LEMMA Absorbing ==
  ASSUME NEW k, NEW s, SocketRecord(s), NEW u, NEW m
  PROVE  /\ SocketRecord(Absorb(k, s, u, m))
         /\ Continues(k, s) => Absorb(k, s, u, m).absorbed = s.absorbed \o u
         /\ ~Continues(k, s) => Absorb(k, s, u, m).absorbed = <<>> \o u
         /\ Absorb(k, s, u, m).more = m
         /\ Absorb(k, s, u, m).open = s.open
  BY DEF Absorb, SocketRecord

LEMMA AbsorbedRecord ==
  \A k, s, u, m : SocketRecord(s) => SocketRecord(Absorb(k, s, u, m))
  BY DEF Absorb, SocketRecord

LEMMA AbsorbedMore ==
  \A k, s, u, m : SocketRecord(s) => Absorb(k, s, u, m).more = m
  BY DEF Absorb, SocketRecord

LEMMA Starts ==
  /\ SocketRecord(Closed) /\ ~Closed.more /\ ~Closed.open /\ Closed.absorbed = <<>>
  /\ SocketRecord(Accepted) /\ ~Accepted.more /\ Accepted.open /\ Accepted.absorbed = <<>>
  /\ SocketShape(Closed) /\ SocketShape(Accepted)
<1>1. Closed = [open |-> FALSE, more |-> FALSE, absorbed |-> <<>>]  BY DEF Closed
<1>2. \A f : SocketRecord(f) => /\ SocketRecord([f EXCEPT !.open = TRUE])
                               /\ [f EXCEPT !.open = TRUE].open = TRUE
                               /\ [f EXCEPT !.open = TRUE].more = f.more
                               /\ [f EXCEPT !.open = TRUE].absorbed = f.absorbed
  BY DEF SocketRecord
<1>3. /\ SocketRecord(Closed) /\ Closed.more = FALSE /\ Closed.open = FALSE
      /\ Closed.absorbed = <<>>
  BY <1>1 DEF SocketRecord
<1>4. /\ SocketRecord(Accepted) /\ Accepted.more = FALSE /\ Accepted.open = TRUE
      /\ Accepted.absorbed = <<>>
  BY <1>2, <1>3, Zenon DEF Accepted
<1>5. <<>> \in Seq(Nat)  OBVIOUS
<1>6. SocketShape(Closed)  BY <1>3, <1>5, Zenon DEF SocketShape
<1>7. SocketShape(Accepted)  BY <1>4, <1>5, Zenon DEF SocketShape
<1> QED BY <1>3, <1>4, <1>6, <1>7, Zenon

LEMMA Going ==
  /\ \A s : ~Continues("restarting", s)
  /\ \A s : Continues("sticky", s)
  /\ \A s : Continues("right", s) <=> s.more
<1>1. "sticky" # "restarting" /\ "right" # "restarting" /\ "right" # "sticky"  OBVIOUS
<1> QED BY <1>1, Zenon DEF Continues

LEMMA ProbePasses ==
  ASSUME NEW k \in Kernels, SelfCheck(k)
  PROVE  k = "right"
<1>0. k \in {"right", "other", "restarting", "sticky"}  BY HasherAssumption
<1> DEFINE a == AfterKnownAnswer(k)
           b == AfterCrossCheck(k)
           d == AfterStreaming(k)
<1>1. Digest(k, b) = Crc(CheckBuffer) /\ Digest(k, d) = Crc(CheckBuffer)  BY DEF SelfCheck
<1>2. SocketRecord(a)  BY Absorbing, Starts DEF AfterKnownAnswer
<1>3. SocketRecord(b)  BY <1>2, Absorbing DEF AfterCrossCheck
<1>4. k # "other"
  <2> SUFFICES ASSUME k = "other" PROVE FALSE  OBVIOUS
  <2>1. Digest(k, b) = [kind |-> k, of |-> b.absorbed]  BY DEF Digest
  <2>2. Digest(k, b).kind = "other" /\ Crc(CheckBuffer).kind = "crc"  BY <2>1 DEF Crc
  <2> QED BY <1>1, <2>2
<1>5. b.absorbed = CheckBuffer /\ d.absorbed = CheckBuffer
  <2>1. Digest(k, b) = Crc(b.absorbed) /\ Digest(k, d) = Crc(d.absorbed)  BY <1>4 DEF Digest
  <2>2. \A m : Crc(m).of = m  BY DEF Crc
  <2> HIDE DEF b, d
  <2> QED BY <1>1, <2>1, <2>2
<1>6. k # "sticky"
  <2> SUFFICES ASSUME k = "sticky" PROVE FALSE  OBVIOUS
  <2>1. a.absorbed = Accepted.absorbed \o KnownInput
    <3>1. Continues(k, Accepted) /\ SocketRecord(Accepted)  BY Going, Starts
    <3>2. \A u, m : Absorb(k, Accepted, u, m).absorbed = Accepted.absorbed \o u  BY ONLY <3>1, Absorbing
    <3> QED BY <3>2 DEF AfterKnownAnswer
  <2>2. b.absorbed = a.absorbed \o CheckBuffer
    <3>1. Continues(k, a)  BY Going
    <3> HIDE DEF a
    <3>2. \A u, m : Absorb(k, a, u, m).absorbed = a.absorbed \o u  BY ONLY <1>2, <3>1, Absorbing
    <3>3. b = Absorb(k, a, CheckBuffer, FALSE)  BY DEF AfterCrossCheck, a
    <3> HIDE DEF b
    <3> QED BY <3>2, <3>3
  <2>3. <<1>> \in Seq(Nat) /\ <<1, 2>> \in Seq(Nat) /\ Len(<<1>>) = 1 /\ Len(<<1, 2>>) = 2  OBVIOUS
  <2>4. a.absorbed = <<1>>  BY <2>1, <2>3, Assoc, Starts DEF KnownInput
  <2>5. b.absorbed = <<1>> \o <<1, 2>>  BY <2>2, <2>4, Going DEF CheckBuffer
  <2>6. Len(<<1>> \o <<1, 2>>) = 3  OBVIOUS
  <2> HIDE DEF b
  <2> QED BY <1>5, <2>3, <2>5, <2>6 DEF CheckBuffer
<1>7. k # "restarting"
  <2> SUFFICES ASSUME k = "restarting" PROVE FALSE  OBVIOUS
  <2> DEFINE c1 == Absorb(k, b, <<1>>, TRUE)
             c2 == Absorb(k, c1, <<2>>, TRUE)
  <2>1. d = Absorb(k, c2, <<>>, FALSE)  BY DEF AfterStreaming
  <2>2. SocketRecord(c1)  BY <1>3, Absorbing
  <2> HIDE DEF c1
  <2>3. SocketRecord(c2)  BY <2>2, Absorbing
  <2> HIDE DEF c2, d
  <2>4. ~Continues(k, c2)  BY Going
  <2>5. d.absorbed = <<>> \o <<>>
    <3>1. \A u, m : Absorb(k, c2, u, m).absorbed = <<>> \o u  BY ONLY <2>3, <2>4, Absorbing
    <3> QED BY ONLY <2>1, <3>1
  <2>6. d.absorbed = <<>>  BY <2>5
  <2> QED BY <1>5, <2>6 DEF CheckBuffer
<1> QED BY <1>0, <1>4, <1>6, <1>7

LEMMA AbsorbRight ==
  ASSUME NEW s, SocketShape(s), NEW u \in Seq(Nat)
  PROVE  /\ LET t == Absorb("right", s, u, TRUE)
            IN SocketShape(t) /\ (t.open <=> s.open) /\ t.more /\ t.absorbed = Hashing(s) \o u
         /\ LET t == Absorb("right", s, u, FALSE)
            IN SocketShape(t) /\ (t.open <=> s.open) /\ ~t.more /\ t.absorbed = Hashing(s) \o u
<1>1. SocketRecord(s) /\ s.absorbed \in Seq(Nat) /\ s.open \in BOOLEAN
  BY Zenon DEF SocketShape
<1>2. Continues("right", s) <=> s.more  BY Going
<1>3. /\ Hashing(s) \in Seq(Nat)
      /\ s.more => Hashing(s) = s.absorbed
      /\ ~s.more => Hashing(s) = <<>>
  <2>1. <<>> \in Seq(Nat)  OBVIOUS
  <2> QED BY <1>1, <2>1, Zenon DEF Hashing
<1>4. Hashing(s) \o u \in Seq(Nat)  BY <1>3, Assoc
<1> DEFINE t == Absorb("right", s, u, TRUE)
           v == Absorb("right", s, u, FALSE)
<1>5. SocketRecord(t) /\ t.more = TRUE /\ t.open = s.open
  <2>1. SocketRecord(t)  BY ONLY <1>1, AbsorbedRecord, Zenon DEF t
  <2>2. t.more = TRUE  BY ONLY <1>1, AbsorbedMore, Zenon DEF t
  <2>3. \A m : Absorb("right", s, u, m).open = s.open  BY ONLY <1>1 DEF Absorb, SocketRecord
  <2>4. t.open = s.open  BY ONLY <2>3, Zenon DEF t
  <2> QED BY ONLY <2>1, <2>2, <2>4, Zenon
<1>6. SocketRecord(v) /\ v.more = FALSE /\ v.open = s.open
  <2>1. SocketRecord(v)  BY ONLY <1>1, AbsorbedRecord, Zenon DEF v
  <2>2. v.more = FALSE  BY ONLY <1>1, AbsorbedMore, Zenon DEF v
  <2>3. \A m : Absorb("right", s, u, m).open = s.open  BY ONLY <1>1 DEF Absorb, SocketRecord
  <2>4. v.open = s.open  BY ONLY <2>3, Zenon DEF v
  <2> QED BY ONLY <2>1, <2>2, <2>4, Zenon
<1>7. t.absorbed = Hashing(s) \o u /\ v.absorbed = Hashing(s) \o u
  <2>1. CASE s.more
    <3>1. Continues("right", s) /\ Hashing(s) = s.absorbed  BY <1>2, <1>3, <2>1
    <3>2. \A m : Absorb("right", s, u, m).absorbed = s.absorbed \o u  BY ONLY <1>1, <3>1, Absorbing
    <3> QED BY ONLY <3>1, <3>2, Zenon DEF t, v
  <2>2. CASE ~s.more
    <3>1. ~Continues("right", s) /\ Hashing(s) = <<>>  BY <1>2, <1>3, <2>2
    <3>2. \A m : Absorb("right", s, u, m).absorbed = <<>> \o u  BY ONLY <1>1, <3>1, Absorbing
    <3> QED BY ONLY <3>1, <3>2, Zenon DEF t, v
  <2> QED BY <2>1, <2>2
<1> HIDE DEF t, v
<1>8. SocketShape(t) /\ (t.open <=> s.open) /\ t.more
  BY ONLY <1>1, <1>4, <1>5, <1>7, Zenon DEF SocketShape
<1>9. SocketShape(v) /\ (v.open <=> s.open) /\ ~v.more
  BY ONLY <1>1, <1>4, <1>6, <1>7, Zenon DEF SocketShape
<1> QED BY ONLY <1>7, <1>8, <1>9, Zenon DEF t, v

(* The jobs. *)
LEMMA NoJobIs ==
  /\ JobShape(NoJob) /\ NoJob.what = "idle" /\ ~NoJob.closed
  /\ NoJob.what \notin OneShots /\ NoJob.what \notin StreamCalls
<1>1. <<>> \in Seq(Nat)  OBVIOUS
<1>2. /\ DOMAIN NoJob = {"what", "sock", "more", "last", "closed", "tail", "msg"}
      /\ NoJob.what = "idle" /\ NoJob.more = <<>> /\ NoJob.last = <<>> /\ NoJob.tail = <<>>
  BY DEF NoJob
<1>3. NoJob.closed = FALSE  BY DEF NoJob
<1>4. NoJob.what \notin OneShots /\ NoJob.what \notin StreamCalls
  BY <1>2 DEF OneShots, StreamCalls
<1> QED BY <1>1, <1>2, <1>3, <1>4, Zenon DEF JobShape

LEMMA ChecksumIs ==
  ASSUME NEW via \in OneShots, NEW n \in Nat
  PROVE  LET j == Checksum(via, n)
         IN /\ JobShape(j) /\ j.what = via /\ j.sock = "slot" /\ ~j.closed
            /\ j.more \o j.last = Message(n) /\ j.msg = Message(n)
<1> DEFINE split == IF n <= SendChunk THEN 0 ELSE n - SendChunk
           a == SubSeq(Message(n), 1, split)
           b == SubSeq(Message(n), split + 1, n)
           j == Checksum(via, n)
<1>1. split \in 0..n  BY HasherAssumption
<1>2. Message(n) \in Seq(Nat) /\ Len(Message(n)) = n  BY Messages0
<1> HIDE DEF split
<1>3. a \in Seq(Nat) /\ b \in Seq(Nat) /\ a \o b = Message(n)  BY <1>1, <1>2, Split0
<1>4. j = [NoJob EXCEPT !.what = via, !.msg = Message(n), !.more = a, !.last = b]
  BY DEF Checksum, split
<1> HIDE DEF a, b, j
<1>5. /\ DOMAIN j = {"what", "sock", "more", "last", "closed", "tail", "msg"}
      /\ j.what = via /\ j.sock = "slot" /\ j.more = a /\ j.last = b /\ j.tail = <<>>
      /\ j.msg = Message(n)
  BY ONLY <1>4 DEF NoJob
<1>6. j.closed = FALSE  BY ONLY <1>4 DEF NoJob
<1>7. <<>> \in Seq(Nat) /\ via # "idle" /\ via \in {"idle"} \cup OneShots \cup StreamCalls
  BY DEF OneShots
<1>8. JobShape(j)  BY <1>3, <1>5, <1>6, <1>7, Zenon DEF JobShape
<1>9. ~j.closed  BY <1>6, Zenon
<1> QED BY ONLY <1>3, <1>5, <1>8, <1>9, Zenon DEF j

UpdatingJob(m, t) == [NoJob EXCEPT !.what = "update", !.sock = "stream", !.more = m, !.tail = t]
FinalizingJob(l, m) == [NoJob EXCEPT !.what = "finalize", !.sock = "stream", !.last = l, !.msg = m]

LEMMA UpdateJob ==
  ASSUME NEW m \in Seq(Nat), NEW t \in Seq(Nat)
  PROVE  LET j == UpdatingJob(m, t)
         IN /\ JobShape(j) /\ j.what = "update" /\ j.sock = "stream" /\ ~j.closed
            /\ j.more = m /\ j.tail = t
<1> DEFINE j == UpdatingJob(m, t)
<1>1. /\ DOMAIN j = {"what", "sock", "more", "last", "closed", "tail", "msg"}
      /\ j.what = "update" /\ j.sock = "stream" /\ j.more = m /\ j.last = <<>> /\ j.tail = t
  BY DEF NoJob, UpdatingJob
<1>2. j.closed = FALSE  BY DEF NoJob, UpdatingJob
<1> HIDE DEF j
<1>3. <<>> \in Seq(Nat) /\ "update" # "idle" /\ "update" \in {"idle"} \cup OneShots \cup StreamCalls
  BY DEF StreamCalls
<1>4. JobShape(j)  BY <1>1, <1>2, <1>3, Zenon DEF JobShape
<1> QED BY ONLY <1>1, <1>2, <1>4, Zenon DEF j

LEMMA FinalizeJob ==
  ASSUME NEW l \in Seq(Nat), NEW m
  PROVE  LET j == FinalizingJob(l, m)
         IN /\ JobShape(j) /\ j.what = "finalize" /\ j.sock = "stream" /\ ~j.closed
            /\ j.more = <<>> /\ j.last = l /\ j.msg = m
<1> DEFINE j == FinalizingJob(l, m)
<1>1. /\ DOMAIN j = {"what", "sock", "more", "last", "closed", "tail", "msg"}
      /\ j.what = "finalize" /\ j.sock = "stream" /\ j.more = <<>> /\ j.last = l /\ j.tail = <<>>
      /\ j.msg = m
  BY DEF NoJob, FinalizingJob
<1>2. j.closed = FALSE  BY DEF NoJob, FinalizingJob
<1> HIDE DEF j
<1>3. <<>> \in Seq(Nat) /\ "finalize" # "idle" /\ "finalize" \in {"idle"} \cup OneShots \cup StreamCalls
  BY DEF StreamCalls
<1>4. JobShape(j)  BY <1>1, <1>2, <1>3, Zenon DEF JobShape
<1>5. j.closed \in BOOLEAN /\ ~j.closed  BY <1>2, Zenon
<1> QED BY ONLY <1>1, <1>4, <1>5, Zenon DEF j

(* A job of which part was sent, and one whose hash was closed. *)
WithMore(i, r) == [i EXCEPT !.more = r]
HashClosed(i) == [i EXCEPT !.closed = TRUE]

LEMMA SentJob ==
  ASSUME NEW i, JobShape(i), NEW r \in Seq(Nat)
  PROVE  LET j == WithMore(i, r)
         IN /\ JobShape(j) /\ j.what = i.what /\ j.sock = i.sock /\ (j.closed <=> i.closed)
            /\ j.more = r /\ j.last = i.last /\ j.tail = i.tail /\ j.msg = i.msg
<1> DEFINE j == WithMore(i, r)
<1>1. DOMAIN i = {"what", "sock", "more", "last", "closed", "tail", "msg"}  BY Zenon DEF JobShape
<1>2. /\ DOMAIN j = {"what", "sock", "more", "last", "closed", "tail", "msg"}
      /\ j.what = i.what /\ j.sock = i.sock /\ j.more = r /\ j.last = i.last /\ j.tail = i.tail
      /\ j.msg = i.msg
  BY <1>1 DEF WithMore
<1>3. j.closed = i.closed  BY <1>1 DEF WithMore
<1> HIDE DEF j
<1>4. JobShape(j)
  <2>1. j.closed \in BOOLEAN  BY <1>3, Zenon DEF JobShape
  <2> QED BY <1>2, <1>3, <2>1, Zenon DEF JobShape
<1>5. j.closed <=> i.closed  BY ONLY <1>3, Zenon
<1> QED BY ONLY <1>2, <1>4, <1>5, Zenon DEF j

LEMMA ClosedJob ==
  ASSUME NEW i, JobShape(i), i.what # "idle"
  PROVE  LET j == HashClosed(i)
         IN /\ JobShape(j) /\ j.what = i.what /\ j.sock = i.sock /\ j.closed
            /\ j.more = i.more /\ j.last = i.last /\ j.tail = i.tail /\ j.msg = i.msg
<1> DEFINE j == HashClosed(i)
<1>1. DOMAIN i = {"what", "sock", "more", "last", "closed", "tail", "msg"}  BY Zenon DEF JobShape
<1>2. /\ DOMAIN j = {"what", "sock", "more", "last", "closed", "tail", "msg"}
      /\ j.what = i.what /\ j.sock = i.sock /\ j.more = i.more /\ j.last = i.last /\ j.tail = i.tail
      /\ j.msg = i.msg
  BY <1>1 DEF HashClosed
<1>3. j.closed = TRUE  BY <1>1 DEF HashClosed
<1> HIDE DEF j
<1>4. JobShape(j)  BY <1>2, <1>3, Zenon DEF JobShape
<1> QED BY ONLY <1>2, <1>3, <1>4, Zenon DEF j

LEMMA HasherConstants ==
  /\ SendChunk \in Nat /\ MinHwLen \in Nat /\ 1 <= MinHwLen /\ MinHwLen <= SendChunk
  /\ MaxLen \in Nat /\ MaxFaults \in Nat
  /\ \A k \in Kernels : k \in {"right", "other", "restarting", "sticky"}
  BY HasherAssumption

LEMMA HasherInvInit == HasherInit => HasherInv
<1> SUFFICES ASSUME HasherInit PROVE HasherInv  OBVIOUS
<1>1. /\ DOMAIN sock = {"slot", "stream"} /\ sock["slot"] = Closed /\ sock["stream"] = Closed
      /\ job = NoJob /\ hasher = NoHasher /\ tfm = "unset" /\ kernel \in Kernels /\ faults = 0
      /\ answer = NoAnswer
  BY DEF HasherInit
<1>2. SlotOk(sock["slot"], job)  BY <1>1, NoJobIs, Starts, Zenon DEF SlotOk
<1>3. HasherOk(NoHasher, 0) /\ NoHasher.impl = "none"
  <2>1. /\ DOMAIN NoHasher = {"impl", "held", "flushed", "failed", "told"}
        /\ NoHasher.impl = "none" /\ NoHasher.held = <<>> /\ NoHasher.told = 0
    BY DEF NoHasher
  <2>2. NoHasher.flushed = FALSE /\ NoHasher.failed = FALSE  BY DEF NoHasher
  <2>3. <<>> \in Seq(Nat) /\ 0 \in 0..MaxLen /\ "none" \in {"none", "Software", "Pending", "Hardware"}
        /\ "none" \notin {"Software", "Pending"} /\ "none" # "Pending"
    BY HasherConstants
  <2> QED BY <2>1, <2>2, <2>3, Zenon DEF HasherOk
<1>4. StreamOk(sock["stream"], hasher, job)
  <2>1. "none" # "Hardware" /\ "idle" # "update" /\ "idle" # "finalize"  OBVIOUS
  <2> QED BY <1>1, <1>3, <2>1, NoJobIs, Starts, Zenon DEF StreamOk
<1>5. KernelOk(kernel, tfm, sock["slot"], sock["stream"], job)
  <2>1. "unset" # "open" /\ "unset" \in {"unset", "none", "open"}  OBVIOUS
  <2> QED BY <1>1, <2>1, NoJobIs, Starts, Zenon DEF KernelOk
<1>6. faults \in 0..MaxFaults  BY <1>1, HasherConstants
<1>7. RightOrPoisoned  BY <1>1 DEF RightOrPoisoned, NoAnswer
<1> QED BY <1>1, <1>2, <1>3, <1>4, <1>5, <1>6, <1>7, NoJobIs DEF HasherInv

LEMMA ProbedRight ==
  ASSUME KernelOk(kernel, tfm, sock["slot"], sock["stream"], job)
  PROVE  \A p \in Probed : /\ KernelOk(kernel, p, sock["slot"], sock["stream"], job)
                           /\ p = "open" => kernel = "right"
<1> SUFFICES ASSUME NEW p \in Probed
             PROVE  /\ KernelOk(kernel, p, sock["slot"], sock["stream"], job)
                    /\ p = "open" => kernel = "right"
  OBVIOUS
<1>1. CASE tfm # "unset"
  <2>1. p = tfm  BY <1>1 DEF Probed
  <2> QED BY <2>1, Zenon DEF KernelOk
<1>2. CASE tfm = "unset"
  <2>1. p \in {"none", "open"} /\ (p = "open" => SelfCheck(kernel))  BY <1>2 DEF Probed
  <2>0. kernel \in Kernels  BY Zenon DEF KernelOk
  <2>2. p = "open" => kernel = "right"  BY <2>0, <2>1, ProbePasses
  <2>3. p \in {"unset", "none", "open"} /\ tfm # "open"  BY <1>2, <2>1
  <2> QED BY <2>2, <2>3, Zenon DEF KernelOk
<1> QED BY <1>1, <1>2

LEMMA OpenKernel ==
  ASSUME NEW k \in Kernels, k = "right", NEW t, t = "open", NEW a, NEW b, NEW j
  PROVE  KernelOk(k, t, a, b, j)
<1>1. t \in {"unset", "none", "open"}  OBVIOUS
<1> QED BY <1>1, Zenon DEF KernelOk

(* What a call that starts no system call needs: the probe's outcome and    *)
(* the answer.                                                              *)
LEMMA Answered ==
  ASSUME NEW via, NEW m, NEW v, Answer(via, m, v),
         \/ v = Crc(m)
         \/ via = "hw" /\ v = NoValue
         \/ via = "finalize" /\ v = Poisoned /\ faults' > 0
  PROVE  RightOrPoisoned'
  BY DEF Answer, RightOrPoisoned

LEMMA Silent ==
  ASSUME answer' = NoAnswer
  PROVE  RightOrPoisoned'
  BY DEF NoAnswer, RightOrPoisoned

LEMMA StillRight ==
  ASSUME RightOrPoisoned, answer' = answer, faults \in Nat, faults' = faults \/ faults' = faults + 1
  PROVE  RightOrPoisoned'
  BY DEF RightOrPoisoned

LEMMA InSoftwareKeeps ==
  ASSUME HasherInv, NEW n \in 0..MaxLen, InSoftware(n)
  PROVE  HasherInv'
<1>1. RightOrPoisoned'  BY Answered DEF InSoftware
<1> QED BY <1>1 DEF HasherInv, InSoftware

LEMMA EmptyInHardwareKeeps ==
  ASSUME HasherInv, EmptyInHardware
  PROVE  HasherInv'
<1>1. PICK p \in Probed : tfm' = p /\ Answer("hw", <<>>, IF p = "open" THEN Crc(<<>>) ELSE NoValue)
  BY DEF EmptyInHardware
<1>2. RightOrPoisoned'
  <2>1. CASE p = "open"  BY <1>1, <2>1, Answered
  <2>2. CASE p # "open"  BY <1>1, <2>2, Answered
  <2> QED BY <2>1, <2>2
<1>3. KernelOk(kernel, tfm', sock["slot"], sock["stream"], job)
  BY <1>1, ProbedRight DEF HasherInv
<1> QED BY <1>2, <1>3 DEF HasherInv, EmptyInHardware

(* With no checksum under way, the thread's socket has no hash open; with   *)
(* one under way in that socket, the stream is as it was.                   *)
LEMMA IdleIs ==
  ASSUME HasherInv, Idle
  PROVE  /\ ~sock["slot"].more /\ SocketShape(sock["slot"])
         /\ Hashing(sock["slot"]) = <<>>
         /\ job.what \notin OneShots /\ job.what \notin StreamCalls
<1>1. job.what \notin OneShots /\ job.what \notin StreamCalls
  BY DEF Idle, OneShots, StreamCalls
<1>2. SlotOk(sock["slot"], job)  BY DEF HasherInv
<1>3. ~sock["slot"].more /\ SocketShape(sock["slot"])  BY <1>1, <1>2, Zenon DEF SlotOk
<1>4. Hashing(sock["slot"]) = <<>>  BY <1>3, Zenon DEF Hashing
<1> QED BY <1>1, <1>3, <1>4

LEMMA StreamStays ==
  ASSUME NEW s, NEW h, NEW i, NEW j, StreamOk(s, h, i),
         i.what \notin StreamCalls, j.what \notin StreamCalls
  PROVE  StreamOk(s, h, j)
<1>1. "update" \in StreamCalls /\ "finalize" \in StreamCalls  BY DEF StreamCalls
<1> QED BY <1>1, Zenon DEF StreamOk

LEMMA SlotStays ==
  ASSUME NEW s, NEW i, NEW j, SlotOk(s, i), i.what \notin OneShots, j.what \notin OneShots
  PROVE  SlotOk(s, j)
  BY Zenon DEF SlotOk

LEMMA FaultCounted ==
  ASSUME NEW h, NEW n \in 0..MaxFaults, HasherOk(h, n)
  PROVE  HasherOk(h, n + 1) /\ (n < MaxFaults => n + 1 \in 0..MaxFaults)
<1>1. n + 1 > 0 /\ (n < MaxFaults => n + 1 \in 0..MaxFaults)  BY HasherConstants
<1> QED BY <1>1, Zenon DEF HasherOk

LEMMA OneShotKeeps ==
  ASSUME HasherInv, NEW n \in 0..MaxLen, NEW via \in OneShots, OneShot(via, n)
  PROVE  HasherInv'
<1>0. n \in Nat /\ Idle /\ tfm' \in Probed /\ kernel' = kernel /\ hasher' = hasher
  BY HasherConstants DEF OneShot
<1>a. /\ DOMAIN sock = {"slot", "stream"} /\ JobShape(job) /\ SlotOk(sock["slot"], job)
      /\ StreamOk(sock["stream"], hasher, job) /\ HasherOk(hasher, faults)
      /\ KernelOk(kernel, tfm, sock["slot"], sock["stream"], job) /\ faults \in 0..MaxFaults
  BY DEF HasherInv
<1>b. \/ Fallback(via, Message(n)) = Crc(Message(n))
      \/ via = "hw" /\ Fallback(via, Message(n)) = NoValue
  <2>1. via = "crc32" => Fallback(via, Message(n)) = Crc(Message(n))  BY Zenon DEF Fallback
  <2>2. via # "crc32" => Fallback(via, Message(n)) = NoValue  BY Zenon DEF Fallback
  <2>3. via = "crc32" \/ via = "hw"  BY DEF OneShots
  <2>4. "hw" # "crc32"  OBVIOUS
  <2> QED BY ONLY <2>1, <2>2, <2>3, <2>4, Zenon
<1>c. KernelOk(kernel, tfm', sock["slot"], sock["stream"], job) /\ (tfm' = "open" => kernel = "right")
  BY <1>0, <1>a, ProbedRight
<1>1. CASE Unavailable(via, n)
  <2>1. RightOrPoisoned'  BY <1>1, <1>b, Answered DEF Unavailable
  <2> QED BY <1>0, <1>1, <1>a, <1>c, <2>1 DEF Unavailable, HasherInv
<1>2. CASE CannotAccept(via, n)
  <2>1. RightOrPoisoned'  BY <1>2, <1>b, Answered DEF CannotAccept
  <2>2. HasherOk(hasher, faults') /\ faults' \in 0..MaxFaults
    BY <1>2, <1>a, FaultCounted DEF CannotAccept, AcceptFails
  <2> QED BY <1>0, <1>2, <1>a, <1>c, <2>1, <2>2 DEF CannotAccept, HasherInv
<1>3. CASE BeginChecksum(via, n)
  <2> DEFINE j == Checksum(via, n)
             s == IF sock["slot"].open THEN sock["slot"] ELSE Accepted
  <2>1. JobShape(j) /\ j.what = via /\ j.sock = "slot" /\ ~j.closed
        /\ j.more \o j.last = Message(n) /\ j.msg = Message(n)
    BY <1>0, ChecksumIs
  <2>2. SocketShape(s) /\ Hashing(s) = <<>> /\ ~s.more
    <3>1. Hashing(Accepted) = <<>>  BY Starts, Zenon DEF Hashing
    <3> QED BY <1>0, <3>1, IdleIs, Starts
  <2>3. /\ tfm' = "open" /\ job' = j /\ answer' = NoAnswer /\ faults' = faults
        /\ sock' = [sock EXCEPT !["slot"] = s]
    BY <1>3 DEF BeginChecksum, AcceptOk
  <2> HIDE DEF j, s
  <2>4. sock'["slot"] = s /\ sock'["stream"] = sock["stream"] /\ DOMAIN sock' = {"slot", "stream"}
    BY <1>a, <2>3
  <2>5. SlotOk(s, j)
    <3>1. Hashing(s) \o (j.more \o j.last) = j.msg
      <4>1. Message(n) \in Seq(Nat)  BY <1>0, Messages0
      <4>2. <<>> \o Message(n) = Message(n)  BY <4>1, Assoc
      <4> QED BY ONLY <2>1, <2>2, <4>2
    <3>2. Digesting(j, s)  BY <2>1, <3>1, Zenon DEF Digesting
    <3> QED BY <2>1, <2>2, <3>2, Zenon DEF SlotOk
  <2>6. StreamOk(sock["stream"], hasher, j)
    <3>1. via \notin StreamCalls  BY DEF OneShots, StreamCalls
    <3> QED BY <1>0, <1>a, <2>1, <3>1, IdleIs, StreamStays
  <2>7. KernelOk(kernel, tfm', s, sock["stream"], j)
    <3>1. kernel \in Kernels  BY <1>a, Zenon DEF KernelOk
    <3> QED BY <1>c, <2>3, <3>1, OpenKernel
  <2>8. RightOrPoisoned'  BY <2>3, Silent
  <2> QED BY <1>0, <1>a, <2>1, <2>3, <2>4, <2>5, <2>6, <2>7, <2>8 DEF HasherInv
<1> QED BY <1>1, <1>2, <1>3 DEF OneShot

LEMMA WarmUpKeeps ==
  ASSUME HasherInv, WarmUp
  PROVE  HasherInv'
<1>0. /\ Idle /\ tfm' \in Probed /\ kernel' = kernel /\ hasher' = hasher /\ job' = job
      /\ answer' = answer /\ faults' = faults
  BY DEF WarmUp
<1>a. /\ DOMAIN sock = {"slot", "stream"} /\ JobShape(job) /\ SlotOk(sock["slot"], job)
      /\ StreamOk(sock["stream"], hasher, job) /\ HasherOk(hasher, faults)
      /\ KernelOk(kernel, tfm, sock["slot"], sock["stream"], job) /\ faults \in 0..MaxFaults
      /\ RightOrPoisoned
  BY DEF HasherInv
<1>c. KernelOk(kernel, tfm', sock["slot"], sock["stream"], job) /\ (tfm' = "open" => kernel = "right")
  BY <1>0, <1>a, ProbedRight
<1>d. RightOrPoisoned'  BY <1>0, <1>a, StillRight
<1>1. CASE tfm' = "open" /\ sock' = [sock EXCEPT !["slot"] = Accepted]
  <2>1. sock'["slot"] = Accepted /\ sock'["stream"] = sock["stream"] /\ DOMAIN sock' = {"slot", "stream"}
    BY <1>a, <1>1
  <2>2. SlotOk(Accepted, job)  BY <1>0, IdleIs, Starts, Zenon DEF SlotOk
  <2>3. KernelOk(kernel, tfm', Accepted, sock["stream"], job)
    <3>1. kernel \in Kernels  BY <1>a, Zenon DEF KernelOk
    <3> QED BY <1>c, <1>1, <3>1, OpenKernel
  <2> QED BY <1>0, <1>a, <1>d, <2>1, <2>2, <2>3 DEF HasherInv
<1>2. CASE sock' = sock  BY <1>0, <1>a, <1>c, <1>d, <1>2 DEF HasherInv
<1> QED BY <1>1, <1>2 DEF WarmUp

NewHasherRecord(impl) == [NoHasher EXCEPT !.impl = impl]

LEMMA NewHasherIs ==
  ASSUME NEW impl \in {"none", "Software", "Pending"}, NEW n
  PROVE  HasherOk(NewHasherRecord(impl), n) /\ NewHasherRecord(impl).impl = impl
<1> DEFINE h == NewHasherRecord(impl)
<1>1. /\ DOMAIN h = {"impl", "held", "flushed", "failed", "told"}
      /\ h.impl = impl /\ h.held = <<>> /\ h.told = 0
  BY DEF NoHasher, NewHasherRecord
<1>2. h.flushed = FALSE /\ h.failed = FALSE  BY DEF NoHasher, NewHasherRecord
<1>3. <<>> \in Seq(Nat) /\ Len(<<>>) < MinHwLen /\ 0 \in 0..MaxLen
      /\ impl \in {"none", "Software", "Pending", "Hardware"}
  BY HasherConstants
<1>4. Message(0) = <<>>  BY Messages0
<1> HIDE DEF h
<1> QED BY <1>1, <1>2, <1>3, <1>4, Zenon DEF HasherOk, h

LEMMA NoHasherIs ==
  ASSUME NEW n
  PROVE  HasherOk(NoHasher, n) /\ NoHasher.impl = "none"
<1>1. NewHasherRecord("none") = NoHasher  BY DEF NewHasherRecord, NoHasher
<1> QED BY <1>1, NewHasherIs

LEMMA NoStream ==
  ASSUME NEW s, SocketShape(s), ~s.open, NEW h, h.impl # "Hardware", NEW j, j.what \notin StreamCalls
  PROVE  StreamOk(s, h, j)
<1>1. "update" \in StreamCalls /\ "finalize" \in StreamCalls  BY DEF StreamCalls
<1> QED BY <1>1, Zenon DEF StreamOk

LEMMA NewHasherKeeps ==
  ASSUME HasherInv, NewHasher
  PROVE  HasherInv'
<1>0. /\ Idle /\ tfm' \in Probed /\ kernel' = kernel /\ sock' = sock /\ job' = job
      /\ answer' = NoAnswer /\ faults' = faults /\ hasher.impl = "none"
  BY DEF NewHasher
<1>a. /\ DOMAIN sock = {"slot", "stream"} /\ JobShape(job) /\ SlotOk(sock["slot"], job)
      /\ StreamOk(sock["stream"], hasher, job) /\ HasherOk(hasher, faults)
      /\ KernelOk(kernel, tfm, sock["slot"], sock["stream"], job) /\ faults \in 0..MaxFaults
  BY DEF HasherInv
<1>c. KernelOk(kernel, tfm', sock["slot"], sock["stream"], job)
  BY <1>0, <1>a, ProbedRight
<1>d. RightOrPoisoned'  BY <1>0, Silent
<1> DEFINE impl == IF tfm' = "open" THEN "Pending" ELSE "Software"
<1>1. hasher' = NewHasherRecord(impl)  BY DEF NewHasher, NewHasherRecord
<1>2. impl \in {"none", "Software", "Pending"} /\ impl # "Hardware"  OBVIOUS
<1> HIDE DEF impl
<1>3. HasherOk(hasher', faults) /\ hasher'.impl # "Hardware"
  BY <1>1, <1>2, NewHasherIs
<1>4. StreamOk(sock["stream"], hasher', job)
  <2>1. SocketShape(sock["stream"]) /\ ~sock["stream"].open
    <3>1. "none" # "Hardware"  OBVIOUS
    <3> QED BY <1>0, <1>a, <3>1, Zenon DEF StreamOk
  <2> QED BY <1>0, <1>3, <2>1, IdleIs, NoStream
<1> QED BY <1>0, <1>a, <1>c, <1>d, <1>3, <1>4 DEF HasherInv

--------------------------------------------------------------------------------
(* The ends of a stream. *)
LEMMA FinalizeAtOnceKeeps ==
  ASSUME HasherInv, FinalizeAtOnce
  PROVE  HasherInv'
<1>0. /\ Idle /\ tfm' = tfm /\ kernel' = kernel /\ sock' = [sock EXCEPT !["stream"] = Closed]
      /\ job' = job /\ hasher' = NoHasher /\ faults' = faults
  BY DEF FinalizeAtOnce
<1>a. /\ DOMAIN sock = {"slot", "stream"} /\ JobShape(job) /\ SlotOk(sock["slot"], job)
      /\ StreamOk(sock["stream"], hasher, job) /\ HasherOk(hasher, faults)
      /\ KernelOk(kernel, tfm, sock["slot"], sock["stream"], job) /\ faults \in 0..MaxFaults
  BY DEF HasherInv
<1>1. sock'["slot"] = sock["slot"] /\ sock'["stream"] = Closed /\ DOMAIN sock' = {"slot", "stream"}
  BY <1>0, <1>a
<1>2. RightOrPoisoned'
  <2>1. CASE hasher.impl \in {"Software", "Pending"} /\ Answer("finalize", Told, Crc(hasher.held))
    <3>1. hasher.held = Told  BY <1>a, <2>1, Zenon DEF HasherOk, Told
    <3> QED BY <2>1, <3>1, Answered
  <2>2. CASE hasher.failed /\ Answer("finalize", Told, Poisoned)
    <3>1. faults > 0  BY <1>a, <2>2, Zenon DEF HasherOk
    <3> QED BY <1>0, <2>2, <3>1, Answered
  <2>3. CASE /\ hasher.impl = "Hardware" /\ ~hasher.failed /\ hasher.held = <<>> /\ ~hasher.flushed
             /\ Answer("finalize", Told, Crc(<<>>))
    <3>1. Held(hasher, sock["stream"])  BY <1>0, <1>a, <2>3, IdleIs, Zenon DEF StreamOk
    <3>2. Hashing(sock["stream"]) \o hasher.held = Told /\ ~sock["stream"].more
      BY <2>3, <3>1, Zenon DEF Held, Told
    <3>3. Hashing(sock["stream"]) = <<>>  BY <3>2, Zenon DEF Hashing
    <3>4. <<>> \o <<>> = <<>>  BY Assoc
    <3>5. Told = <<>>  BY ONLY <2>3, <3>2, <3>3, <3>4
    <3> QED BY <2>3, <3>5, Answered
  <2> QED BY <2>1, <2>2, <2>3 DEF FinalizeAtOnce
<1>3. "none" # "Hardware"  OBVIOUS
<1>4. HasherOk(hasher', faults) /\ StreamOk(Closed, hasher', job)
  BY <1>0, <1>3, NoHasherIs, NoStream, Starts, IdleIs
<1>5. KernelOk(kernel, tfm, sock["slot"], Closed, job)
  BY <1>a, Starts, Zenon DEF KernelOk
<1> QED BY <1>0, <1>a, <1>1, <1>2, <1>4, <1>5 DEF HasherInv

LEMMA FinalizeKeeps ==
  ASSUME HasherInv, Finalize
  PROVE  HasherInv'
<1>0. /\ Idle /\ tfm' = tfm /\ kernel' = kernel /\ sock' = sock /\ hasher' = hasher
      /\ faults' = faults /\ answer' = NoAnswer /\ hasher.impl = "Hardware" /\ ~hasher.failed
  BY DEF Finalize
<1>a. /\ DOMAIN sock = {"slot", "stream"} /\ JobShape(job) /\ SlotOk(sock["slot"], job)
      /\ StreamOk(sock["stream"], hasher, job) /\ HasherOk(hasher, faults)
      /\ KernelOk(kernel, tfm, sock["slot"], sock["stream"], job) /\ faults \in 0..MaxFaults
  BY DEF HasherInv
<1> DEFINE j == FinalizingJob(hasher.held, Told)
           s == sock["stream"]
<1>1. job' = j  BY DEF Finalize, FinalizingJob
<1>2. hasher.held \in Seq(Nat)  BY <1>a, Zenon DEF HasherOk
<1>3. /\ JobShape(j) /\ j.what = "finalize" /\ j.sock = "stream" /\ ~j.closed
      /\ j.more = <<>> /\ j.last = hasher.held /\ j.msg = Told
  BY <1>2, FinalizeJob
<1> HIDE DEF j
<1>4. SocketShape(s) /\ (hasher.impl = "Hardware" <=> s.open) /\ Held(hasher, s)
  BY <1>0, <1>a, IdleIs, Zenon DEF StreamOk
<1>5. Digesting(j, s)
  <2>1. Hashing(s) \o hasher.held = Told  BY <1>4, Zenon DEF Held, Told
  <2>2. <<>> \o hasher.held = hasher.held  BY <1>2, Assoc
  <2>3. Hashing(s) \o (j.more \o j.last) = j.msg  BY ONLY <1>3, <2>1, <2>2
  <2> QED BY <1>3, <2>3, Zenon DEF Digesting
<1>6. StreamOk(s, hasher, j)
  <2>1. "finalize" \in StreamCalls /\ "finalize" # "update"  BY DEF StreamCalls
  <2> QED BY <1>0, <1>3, <1>4, <1>5, <2>1, Zenon DEF StreamOk, Told
<1>7. SlotOk(sock["slot"], j)
  <2>1. "finalize" \notin OneShots  BY DEF OneShots
  <2> QED BY <1>0, <1>a, <1>3, <2>1, IdleIs, SlotStays
<1>8. KernelOk(kernel, tfm, sock["slot"], s, j)  BY <1>0, <1>4, <1>a, Zenon DEF KernelOk
<1>9. RightOrPoisoned'  BY <1>0, Silent
<1> QED BY <1>0, <1>a, <1>1, <1>3, <1>6, <1>7, <1>8, <1>9 DEF HasherInv

LEMMA ChunkIs ==
  ASSUME NEW s \in Seq(Nat), s # <<>>, NEW n \in 1..Min({SendChunk, Len(s)})
  PROVE  n \in 0..Len(s)
<1>1. Len(s) \in Nat /\ SendChunk \in Nat  BY HasherConstants
<1>2. Min({SendChunk, Len(s)}) <= Len(s) /\ Min({SendChunk, Len(s)}) \in Nat
  <2> DEFINE l == Len(s)
             c == SendChunk
  <2>1. l \in Nat /\ c \in Nat  BY <1>1
  <2> HIDE DEF l, c
  <2>2. \E x \in {c, l} : \A y \in {c, l} : x <= y  BY <2>1
  <2>3. Min({c, l}) \in {c, l} /\ \A y \in {c, l} : Min({c, l}) <= y  BY <2>2 DEF Min
  <2> QED BY <2>1, <2>3 DEF l, c
<1> QED BY <1>1, <1>2

(* Which socket a job has, and what it says of it. *)
LEMMA Busy ==
  ASSUME HasherInv, ~Idle
  PROVE  /\ kernel = "right" /\ tfm = "open" /\ kernel \in Kernels
         /\ job.what \in OneShots \/ job.what \in StreamCalls
         /\ job.what \in OneShots =>
              job.what \notin StreamCalls /\ job.sock = "slot" /\ Digesting(job, sock["slot"])
         /\ job.what \in StreamCalls =>
              /\ job.what \notin OneShots /\ job.sock = "stream" /\ hasher.impl = "Hardware"
              /\ sock["stream"].open
              /\ job.what = "finalize" => Digesting(job, sock["stream"]) /\ job.msg = Told
         /\ SocketShape(sock["slot"]) /\ SocketShape(sock["stream"])
<1>a. /\ JobShape(job) /\ SlotOk(sock["slot"], job) /\ StreamOk(sock["stream"], hasher, job)
      /\ KernelOk(kernel, tfm, sock["slot"], sock["stream"], job)
  BY DEF HasherInv
<1>1. kernel = "right" /\ tfm = "open" /\ kernel \in Kernels
  BY <1>a, Zenon DEF KernelOk, Idle
<1>2. job.what \in OneShots \/ job.what \in StreamCalls
  BY <1>a, Zenon DEF JobShape, Idle
<1>3. \A w : ~(w \in OneShots /\ w \in StreamCalls)  BY DEF OneShots, StreamCalls
<1>4. SocketShape(sock["slot"]) /\ SocketShape(sock["stream"])
  BY <1>a, Zenon DEF SlotOk, StreamOk
<1>5. job.what \in OneShots => job.sock = "slot" /\ Digesting(job, sock["slot"])
  BY <1>a, Zenon DEF SlotOk
<1>6. job.what \in StreamCalls =>
              /\ job.sock = "stream" /\ hasher.impl = "Hardware"
              /\ sock["stream"].open
              /\ job.what = "finalize" => Digesting(job, sock["stream"]) /\ job.msg = Told
  BY <1>a, Zenon DEF StreamOk, Told
<1> QED BY <1>1, <1>2, <1>3, <1>4, <1>5, <1>6, Zenon

Grouped(h, a, b, c) == (h \o a) \o (b \o c) = h \o ((a \o b) \o c)

Associates(a, b, c) == (a \o b) \o c = a \o (b \o c)

LEMMA Associated ==
  \A a, b, c \in Seq(Nat) : Associates(a, b, c) /\ b \o c \in Seq(Nat)
<1> SUFFICES ASSUME NEW a \in Seq(Nat), NEW b \in Seq(Nat), NEW c \in Seq(Nat)
             PROVE  Associates(a, b, c) /\ b \o c \in Seq(Nat)
  OBVIOUS
<1> QED BY Assoc DEF Associates

LEMMA Regrouped ==
  \A h, a, b, c \in Seq(Nat) : Grouped(h, a, b, c)
<1>1. ASSUME NEW h, NEW a, NEW b, NEW c, Associates(a, b, c), Associates(h, a, b \o c)
      PROVE  Grouped(h, a, b, c)
  BY <1>1, Zenon DEF Associates, Grouped
<1> QED BY <1>1, Associated, Zenon

(* A part of what a checksum is over is sent.                               *)
LEMMA PartSent ==
  ASSUME NEW s, SocketShape(s), NEW more \in Seq(Nat), NEW n \in 0..Len(more), NEW last \in Seq(Nat)
  PROVE  LET t == Absorb("right", s, SubSeq(more, 1, n), TRUE)
         IN /\ SocketShape(t) /\ (t.open <=> s.open)
            /\ SubSeq(more, n + 1, Len(more)) \in Seq(Nat)
            /\ Hashing(t) \o (SubSeq(more, n + 1, Len(more)) \o last)
                 = Hashing(s) \o (more \o last)
<1> DEFINE a == SubSeq(more, 1, n)
           b == SubSeq(more, n + 1, Len(more))
           t == Absorb("right", s, a, TRUE)
           h == Hashing(s)
<1>1. a \in Seq(Nat) /\ b \in Seq(Nat) /\ a \o b = more  BY Split0
<1> HIDE DEF a, b, t
<1>2. SocketShape(t) /\ (t.open <=> s.open) /\ t.more /\ t.absorbed = h \o a
  BY <1>1, AbsorbRight DEF t
<1>3. Hashing(t) = h \o a  BY <1>2, Zenon DEF Hashing
<1>4. h \in Seq(Nat)
  <2>1. <<>> \in Seq(Nat)  OBVIOUS
  <2> QED BY <2>1, Zenon DEF Hashing, SocketShape
<1> HIDE DEF h
<1>5. (h \o a) \o (b \o last) = h \o (more \o last)
  <2>1. Grouped(h, a, b, last)
    <3>1. a \in Seq(Nat) /\ b \in Seq(Nat) /\ h \in Seq(Nat) /\ last \in Seq(Nat)  BY <1>1, <1>4
    <3> QED BY ONLY <3>1, Regrouped, Zenon
  <2> QED BY ONLY <1>1, <2>1 DEF Grouped
<1> QED BY <1>1, <1>2, <1>3, <1>5 DEF a, b, t, h

LEMMA SendMoreKeeps ==
  ASSUME HasherInv, SendMore
  PROVE  HasherInv'
<1>0. /\ ~Idle /\ job.more # <<>> /\ tfm' = tfm /\ kernel' = kernel /\ hasher' = hasher
      /\ faults' = faults /\ answer' = answer
  BY DEF SendMore, SendSome
<1>a. /\ DOMAIN sock = {"slot", "stream"} /\ JobShape(job) /\ SlotOk(sock["slot"], job)
      /\ StreamOk(sock["stream"], hasher, job) /\ HasherOk(hasher, faults)
      /\ KernelOk(kernel, tfm, sock["slot"], sock["stream"], job) /\ faults \in 0..MaxFaults
      /\ RightOrPoisoned
  BY DEF HasherInv
<1>b. job.more \in Seq(Nat) /\ job.last \in Seq(Nat) /\ job.tail \in Seq(Nat)
  BY <1>a, Zenon DEF JobShape
<1>1. PICK n \in 1..Min({SendChunk, Len(job.more)}) :
        /\ sock' = [sock EXCEPT ![job.sock] = Absorb(kernel, @, SubSeq(job.more, 1, n), TRUE)]
        /\ job' = [job EXCEPT !.more = SubSeq(@, n + 1, Len(@))]
  BY DEF SendMore, SendSome
<1>2. n \in 0..Len(job.more)  BY <1>0, <1>b, ChunkIs
<1> DEFINE r == SubSeq(job.more, n + 1, Len(job.more))
           t == Absorb("right", sock[job.sock], SubSeq(job.more, 1, n), TRUE)
           j == WithMore(job, r)
<1>3. job' = j
  <2>1. "more" \in DOMAIN job  BY <1>a, Zenon DEF JobShape
  <2> QED BY <1>1, <2>1 DEF WithMore
<1>4. sock' = [sock EXCEPT ![job.sock] = t]  BY <1>0, <1>1, Busy
<1>5. r \in Seq(Nat)  BY <1>b, <1>2, Split0
<1> HIDE DEF r, t
<1>6. /\ JobShape(j) /\ j.what = job.what /\ j.sock = job.sock /\ (j.closed <=> job.closed)
      /\ j.more = r /\ j.last = job.last /\ j.tail = job.tail /\ j.msg = job.msg
  BY <1>5, <1>a, SentJob
<1> HIDE DEF j
<1>7. RightOrPoisoned'  BY <1>0, <1>a, StillRight
<1>8. \A l \in Seq(Nat) : SocketShape(sock[job.sock]) =>
         /\ SocketShape(t) /\ (t.open <=> sock[job.sock].open)
         /\ Hashing(t) \o (r \o l) = Hashing(sock[job.sock]) \o (job.more \o l)
  BY <1>b, <1>2, PartSent DEF r, t
<1>9. \A s : Digesting(job, s) /\ Hashing(t) \o (r \o job.last) = Hashing(s) \o (job.more \o job.last)
         => Digesting(j, t)
  BY <1>0, <1>6, Zenon DEF Digesting
<1>10. \A a, b : KernelOk(kernel, tfm, a, b, j)  BY <1>0, Busy, OpenKernel
<1>11. CASE job.what \in OneShots
  <2>1. job.sock = "slot" /\ Digesting(job, sock["slot"]) /\ SocketShape(sock["slot"])
        /\ job.what \notin StreamCalls
    BY <1>0, <1>11, Busy
  <2>2. sock'["slot"] = t /\ sock'["stream"] = sock["stream"] /\ DOMAIN sock' = {"slot", "stream"}
    BY <1>a, <1>4, <2>1
  <2>3. SocketShape(t) /\ Digesting(j, t)  BY <1>8, <1>9, <1>b, <2>1
  <2>4. SlotOk(t, j)  BY <1>6, <1>11, <2>1, <2>3, Zenon DEF SlotOk
  <2>5. StreamOk(sock["stream"], hasher, j)  BY <1>a, <1>6, <2>1, StreamStays
  <2> QED BY <1>0, <1>a, <1>3, <1>6, <1>7, <1>10, <2>2, <2>4, <2>5 DEF HasherInv
<1>12. CASE job.what \in StreamCalls
  <2>1. job.sock = "stream" /\ hasher.impl = "Hardware" /\ sock["stream"].open
        /\ SocketShape(sock["stream"]) /\ job.what \notin OneShots
        /\ (job.what = "finalize" => Digesting(job, sock["stream"]) /\ job.msg = Told)
    BY <1>0, <1>12, Busy
  <2>2. sock'["slot"] = sock["slot"] /\ sock'["stream"] = t /\ DOMAIN sock' = {"slot", "stream"}
    BY <1>a, <1>4, <2>1
  <2>3. SocketShape(t) /\ t.open  BY <1>8, <1>b, <2>1
  <2>4. job.what # "finalize"
    <3> SUFFICES ASSUME job.what = "finalize" PROVE FALSE  OBVIOUS
    <3>1. job.more = <<>>  BY <1>a, <1>12, Zenon DEF StreamOk
    <3> QED BY <1>0, <3>1
  <2>5. job.what = "update"  BY <1>12, <2>4 DEF StreamCalls
  <2>6. ~job.closed /\ Hashing(sock["stream"]) \o (job.more \o job.tail) = Message(hasher.told)
        /\ Len(job.tail) <= SendChunk /\ job.tail # <<>>
    BY <1>a, <2>5, Zenon DEF StreamOk
  <2>7. Hashing(t) \o (r \o job.tail) = Message(hasher.told)  BY <1>8, <1>b, <2>1, <2>6
  <2>8. StreamOk(t, hasher, j)
    <3>1. j.what = "update" /\ j.what # "finalize" /\ j.sock = "stream"  BY <1>6, <2>1, <2>4, <2>5
    <3> QED BY <1>6, <1>12, <2>1, <2>3, <2>6, <2>7, <3>1, Zenon DEF StreamOk
  <2>9. SlotOk(sock["slot"], j)  BY <1>a, <1>6, <2>1, SlotStays
  <2> QED BY <1>0, <1>a, <1>3, <1>6, <1>7, <1>10, <2>2, <2>8, <2>9 DEF HasherInv
<1> QED BY <1>0, <1>11, <1>12, Busy

LEMMA UpdateDoneKeeps ==
  ASSUME HasherInv, UpdateDone
  PROVE  HasherInv'
<1>0. /\ job.what = "update" /\ job.more = <<>> /\ tfm' = tfm /\ kernel' = kernel /\ sock' = sock
      /\ faults' = faults /\ answer' = answer /\ job' = NoJob
  BY DEF UpdateDone
<1>a. /\ DOMAIN sock = {"slot", "stream"} /\ JobShape(job) /\ SlotOk(sock["slot"], job)
      /\ StreamOk(sock["stream"], hasher, job) /\ HasherOk(hasher, faults)
      /\ KernelOk(kernel, tfm, sock["slot"], sock["stream"], job) /\ faults \in 0..MaxFaults
      /\ RightOrPoisoned
  BY DEF HasherInv
<1> DEFINE h == [hasher EXCEPT !.held = job.tail, !.flushed = TRUE]
           s == sock["stream"]
<1>1. hasher' = h  BY DEF UpdateDone
<1>2. DOMAIN hasher = {"impl", "held", "flushed", "failed", "told"}  BY <1>a, Zenon DEF HasherOk
<1>3. /\ DOMAIN h = {"impl", "held", "flushed", "failed", "told"} /\ h.impl = hasher.impl
      /\ h.held = job.tail /\ h.told = hasher.told /\ h.flushed = TRUE /\ h.failed = hasher.failed
  BY <1>2
<1> HIDE DEF h
<1>4. /\ hasher.impl = "Hardware" /\ SocketShape(s) /\ (hasher.impl = "Hardware" <=> s.open)
      /\ Hashing(s) \o (job.more \o job.tail) = Message(hasher.told)
      /\ Len(job.tail) <= SendChunk /\ job.tail # <<>>
  <2>1. "update" \in StreamCalls  BY DEF StreamCalls
  <2> QED BY <1>0, <1>a, <2>1, Zenon DEF StreamOk
<1>5. job.tail \in Seq(Nat)  BY <1>a, Zenon DEF JobShape
<1>6. Held(h, s)
  <2>1. <<>> \o job.tail = job.tail  BY <1>5, Assoc
  <2>2. Hashing(s) \o h.held = Message(h.told)  BY ONLY <1>0, <1>3, <1>4, <2>1
  <2> QED BY <1>3, <1>4, <2>2, Zenon DEF Held
<1>7. HasherOk(h, faults)
  <2>1. "Hardware" \notin {"Software", "Pending"} /\ "Hardware" # "Pending" /\ "Hardware" # "none"
        /\ "Hardware" \in {"none", "Software", "Pending", "Hardware"}
    OBVIOUS
  <2> QED BY <1>a, <1>3, <1>4, <1>5, <2>1, Zenon DEF HasherOk
<1>8. StreamOk(s, h, NoJob)
  <2>1. "update" # "idle" /\ "finalize" # "idle"  OBVIOUS
  <2> QED BY <1>3, <1>4, <1>6, <2>1, NoJobIs, Zenon DEF StreamOk
<1>9. SlotOk(sock["slot"], NoJob)
  <2>1. "update" \notin OneShots  BY DEF OneShots
  <2> QED BY <1>0, <1>a, <2>1, NoJobIs, SlotStays
<1>10. KernelOk(kernel, tfm, sock["slot"], s, NoJob)  BY <1>a, NoJobIs, Zenon DEF KernelOk
<1>11. RightOrPoisoned'  BY <1>0, <1>a, StillRight
<1> QED BY <1>0, <1>a, <1>1, <1>7, <1>8, <1>9, <1>10, <1>11, NoJobIs DEF HasherInv

(* What is left of a checksum closes the hash.                              *)
LEMMA LastSent ==
  ASSUME NEW i, JobShape(i), i.what # "idle", i.more = <<>>, ~i.closed,
         NEW s, SocketShape(s), Digesting(i, s)
  PROVE  /\ SocketShape(Absorb("right", s, i.last, FALSE))
         /\ Absorb("right", s, i.last, FALSE).open <=> s.open
         /\ Digesting(HashClosed(i), Absorb("right", s, i.last, FALSE))
<1> DEFINE t == Absorb("right", s, i.last, FALSE)
           j == HashClosed(i)
<1>1. i.last \in Seq(Nat)  BY Zenon DEF JobShape
<1>2. SocketShape(t) /\ (t.open <=> s.open) /\ ~t.more /\ t.absorbed = Hashing(s) \o i.last
  BY <1>1, AbsorbRight
<1>3. /\ j.closed /\ j.more = i.more /\ j.msg = i.msg  BY ClosedJob
<1>4. Hashing(s) \o (i.more \o i.last) = i.msg  BY Zenon DEF Digesting
<1>5. <<>> \o i.last = i.last /\ i.more = <<>>  BY <1>1, Assoc
<1> HIDE DEF t, j
<1>6. t.absorbed = j.msg  BY ONLY <1>2, <1>3, <1>4, <1>5
<1>7. Digesting(j, t)  BY <1>2, <1>3, <1>6, Zenon DEF Digesting
<1>8. SocketShape(t) /\ (t.open <=> s.open) /\ Digesting(j, t)  BY ONLY <1>2, <1>7, Zenon
<1>9. QED BY ONLY <1>8, Zenon DEF t, j

LEMMA CloseKeeps ==
  ASSUME HasherInv, Close
  PROVE  HasherInv'
<1>0. /\ job.what \in {"crc32", "hw", "finalize"} /\ job.more = <<>> /\ ~job.closed
      /\ tfm' = tfm /\ kernel' = kernel /\ hasher' = hasher /\ faults' = faults /\ answer' = answer
      /\ sock' = [sock EXCEPT ![job.sock] = Absorb(kernel, @, job.last, FALSE)]
      /\ job' = HashClosed(job)
  BY DEF Close, HashClosed
<1>a. /\ DOMAIN sock = {"slot", "stream"} /\ JobShape(job) /\ SlotOk(sock["slot"], job)
      /\ StreamOk(sock["stream"], hasher, job) /\ HasherOk(hasher, faults)
      /\ KernelOk(kernel, tfm, sock["slot"], sock["stream"], job) /\ faults \in 0..MaxFaults
      /\ RightOrPoisoned
  BY DEF HasherInv
<1>b. ~Idle /\ job.what # "idle" /\ job.what # "update"  BY <1>0 DEF Idle
<1> DEFINE t == Absorb("right", sock[job.sock], job.last, FALSE)
           j == HashClosed(job)
<1>1. sock' = [sock EXCEPT ![job.sock] = t]  BY <1>0, <1>b, Busy
<1>2. /\ JobShape(j) /\ j.what = job.what /\ j.sock = job.sock /\ j.closed
      /\ j.more = job.more /\ j.last = job.last /\ j.tail = job.tail /\ j.msg = job.msg
  BY <1>a, <1>b, ClosedJob
<1>3. SocketShape(sock[job.sock]) /\ Digesting(job, sock[job.sock])
        => SocketShape(t) /\ (t.open <=> sock[job.sock].open) /\ Digesting(j, t)
  BY ONLY <1>0, <1>a, <1>b, LastSent, Zenon DEF t, j
<1> HIDE DEF t, j
<1>4. RightOrPoisoned'  BY <1>0, <1>a, StillRight
<1>5. \A a, b : KernelOk(kernel, tfm, a, b, j)  BY <1>b, Busy, OpenKernel
<1>6. job' = j  BY <1>0 DEF j
<1>11. CASE job.what \in OneShots
  <2>1. job.sock = "slot" /\ Digesting(job, sock["slot"]) /\ SocketShape(sock["slot"])
        /\ job.what \notin StreamCalls
    BY <1>b, <1>11, Busy
  <2>2. sock'["slot"] = t /\ sock'["stream"] = sock["stream"] /\ DOMAIN sock' = {"slot", "stream"}
    BY <1>a, <1>1, <2>1
  <2>3. SlotOk(t, j)  BY <1>2, <1>3, <1>11, <2>1, Zenon DEF SlotOk
  <2>4. StreamOk(sock["stream"], hasher, j)  BY <1>a, <1>2, <2>1, StreamStays
  <2> QED BY <1>0, <1>a, <1>2, <1>4, <1>5, <1>6, <2>2, <2>3, <2>4 DEF HasherInv
<1>12. CASE job.what \in StreamCalls
  <2>1. job.what = "finalize"  BY <1>b, <1>12 DEF StreamCalls
  <2>2. job.sock = "stream" /\ hasher.impl = "Hardware" /\ sock["stream"].open
        /\ SocketShape(sock["stream"]) /\ job.what \notin OneShots
        /\ Digesting(job, sock["stream"]) /\ job.msg = Told
    BY <1>b, <1>12, <2>1, Busy
  <2>3. sock'["slot"] = sock["slot"] /\ sock'["stream"] = t /\ DOMAIN sock' = {"slot", "stream"}
    BY <1>a, <1>1, <2>2
  <2>4. StreamOk(t, hasher, j)
    <3>1. j.what = "finalize" /\ j.what # "update" /\ j.what \in StreamCalls /\ j.sock = "stream"
          /\ j.more = <<>> /\ j.msg = Message(hasher.told)
      BY <1>0, <1>2, <1>12, <2>1, <2>2 DEF Told
    <3>2. SocketShape(t) /\ t.open /\ Digesting(j, t)  BY <1>3, <2>2
    <3> QED BY <2>2, <3>1, <3>2, Zenon DEF StreamOk
  <2>5. SlotOk(sock["slot"], j)  BY <1>a, <1>2, <2>2, SlotStays
  <2> QED BY <1>0, <1>a, <1>2, <1>4, <1>5, <1>6, <2>3, <2>4, <2>5 DEF HasherInv
<1> QED BY <1>b, <1>11, <1>12, Busy

LEMMA ReadDigestKeeps ==
  ASSUME HasherInv, ReadDigest
  PROVE  HasherInv'
<1>0. /\ job.closed /\ Answer(job.what, job.msg, Digest(kernel, sock[job.sock])) /\ job' = NoJob
      /\ tfm' = tfm /\ kernel' = kernel /\ faults' = faults
  BY DEF ReadDigest
<1>a. /\ DOMAIN sock = {"slot", "stream"} /\ JobShape(job) /\ SlotOk(sock["slot"], job)
      /\ StreamOk(sock["stream"], hasher, job) /\ HasherOk(hasher, faults)
      /\ KernelOk(kernel, tfm, sock["slot"], sock["stream"], job) /\ faults \in 0..MaxFaults
  BY DEF HasherInv
<1>b. ~Idle  BY <1>0, <1>a, Zenon DEF Idle, JobShape
<1>1. \A s : Digesting(job, s) => s.absorbed = job.msg /\ ~s.more
  BY <1>0, Zenon DEF Digesting
<1>2. \A s : Digest(kernel, s) = Crc(s.absorbed)
  <2>1. kernel # "other"  BY <1>b, Busy
  <2> QED BY <2>1, Zenon DEF Digest
<1>11. CASE job.what \in OneShots
  <2>1. job.sock = "slot" /\ Digesting(job, sock["slot"]) /\ SocketShape(sock["slot"])
        /\ job.what \notin StreamCalls
    BY <1>b, <1>11, Busy
  <2>2. sock' = sock /\ hasher' = hasher  BY <2>1 DEF ReadDigest
  <2>3. Digest(kernel, sock[job.sock]) = Crc(job.msg) /\ ~sock["slot"].more  BY <1>1, <1>2, <2>1
  <2>4. RightOrPoisoned'  BY <1>0, <2>3, Answered
  <2>5. SlotOk(sock["slot"], NoJob)  BY <2>1, <2>3, NoJobIs, Zenon DEF SlotOk
  <2>6. StreamOk(sock["stream"], hasher, NoJob)  BY <1>a, <2>1, NoJobIs, StreamStays
  <2>7. KernelOk(kernel, tfm, sock["slot"], sock["stream"], NoJob)
    BY <1>a, NoJobIs, Zenon DEF KernelOk
  <2> QED BY <1>0, <1>a, <2>2, <2>4, <2>5, <2>6, <2>7, NoJobIs DEF HasherInv
<1>12. CASE job.what \in StreamCalls
  <2>1. job.sock = "stream" /\ job.what \notin OneShots  BY <1>b, <1>12, Busy
  <2>2. job.what # "update"
    <3> SUFFICES ASSUME job.what = "update" PROVE FALSE  OBVIOUS
    <3>1. ~job.closed  BY <1>a, Zenon DEF StreamOk
    <3> QED BY <1>0, <3>1, Zenon
  <2>3. Digesting(job, sock["stream"])  BY <1>b, <1>12, <2>2, Busy DEF StreamCalls
  <2>4. Digest(kernel, sock[job.sock]) = Crc(job.msg)  BY <1>1, <1>2, <2>1, <2>3
  <2>5. RightOrPoisoned'  BY <1>0, <2>4, Answered
  <2>6. sock' = [sock EXCEPT !["stream"] = Closed] /\ hasher' = NoHasher  BY <2>1 DEF ReadDigest
  <2>7. sock'["slot"] = sock["slot"] /\ sock'["stream"] = Closed /\ DOMAIN sock' = {"slot", "stream"}
    BY <1>a, <2>6
  <2>8. "none" # "Hardware"  OBVIOUS
  <2>9. HasherOk(hasher', faults) /\ StreamOk(Closed, hasher', NoJob)
    BY <2>6, <2>8, NoHasherIs, NoStream, Starts, NoJobIs
  <2>10. SlotOk(sock["slot"], NoJob)  BY <1>a, <2>1, NoJobIs, SlotStays
  <2>11. KernelOk(kernel, tfm, sock["slot"], Closed, NoJob)
    BY <1>a, NoJobIs, Starts, Zenon DEF KernelOk
  <2> QED BY <1>0, <1>a, <2>5, <2>7, <2>9, <2>10, <2>11, NoJobIs DEF HasherInv
<1> QED BY <1>b, <1>11, <1>12, Busy

LEMMA CallFailsKeeps ==
  ASSUME HasherInv, CallFails
  PROVE  HasherInv'
<1>0. /\ ~Idle /\ faults < MaxFaults /\ faults' = faults + 1 /\ job' = NoJob /\ tfm' = tfm
      /\ kernel' = kernel
  BY DEF CallFails
<1>a. /\ DOMAIN sock = {"slot", "stream"} /\ JobShape(job) /\ SlotOk(sock["slot"], job)
      /\ StreamOk(sock["stream"], hasher, job) /\ HasherOk(hasher, faults)
      /\ KernelOk(kernel, tfm, sock["slot"], sock["stream"], job) /\ faults \in 0..MaxFaults
      /\ RightOrPoisoned
  BY DEF HasherInv
<1>b. /\ faults' \in 0..MaxFaults /\ faults' > 0 /\ faults' = faults + 1 /\ faults \in Nat
  BY <1>0, <1>a, HasherConstants
<1>c. HasherOk(hasher, faults')  BY <1>0, <1>a, FaultCounted
<1>d. job.what # "update" => sock' = [sock EXCEPT ![job.sock] = Closed]
  BY DEF CallFails, SocketAfterFailure
<1>e. \A a, b : KernelOk(kernel, tfm, a, b, NoJob)  BY <1>0, Busy, OpenKernel
<1>1. CASE job.what = "update"
  <2>1. "update" \in StreamCalls /\ "update" \notin OneShots  BY DEF StreamCalls, OneShots
  <2>2. job.sock = "stream" /\ hasher.impl = "Hardware" /\ sock["stream"].open
        /\ SocketShape(sock["stream"])
    BY <1>0, <1>1, <2>1, Busy
  <2>3. sock'["slot"] = sock["slot"] /\ sock'["stream"] = sock["stream"] /\ DOMAIN sock' = {"slot", "stream"}
    <3>1. sock' = [sock EXCEPT !["stream"] = sock["stream"]]
      BY <1>1, <2>2 DEF CallFails, SocketAfterFailure
    <3> QED BY <1>a, <3>1
  <2> DEFINE h == [hasher EXCEPT !.failed = TRUE]
  <2>4. hasher' = h /\ answer' = answer  BY <1>1, Zenon DEF CallFails
  <2>5. DOMAIN hasher = {"impl", "held", "flushed", "failed", "told"}  BY <1>a, Zenon DEF HasherOk
  <2>6. /\ DOMAIN h = {"impl", "held", "flushed", "failed", "told"} /\ h.impl = hasher.impl
        /\ h.held = hasher.held /\ h.told = hasher.told /\ h.flushed = hasher.flushed /\ h.failed = TRUE
    BY <2>5
  <2> HIDE DEF h
  <2>7. HasherOk(h, faults')
    <3>1. "Hardware" \notin {"Software", "Pending"} /\ "Hardware" # "Pending" /\ "Hardware" # "none"
          /\ "Hardware" \in {"none", "Software", "Pending", "Hardware"}
      OBVIOUS
    <3> QED BY <1>a, <1>b, <2>2, <2>6, <3>1, Zenon DEF HasherOk
  <2>8. StreamOk(sock["stream"], h, NoJob)
    <3>1. "update" # "idle" /\ "finalize" # "idle"  OBVIOUS
    <3> QED BY <2>2, <2>6, <3>1, NoJobIs, Zenon DEF StreamOk
  <2>9. SlotOk(sock["slot"], NoJob)  BY <1>1, <1>a, <2>1, NoJobIs, SlotStays
  <2>10. RightOrPoisoned'  BY <1>b, <1>a, <2>4, StillRight
  <2> QED BY <1>0, <1>a, <1>b, <1>e, <2>3, <2>4, <2>7, <2>8, <2>9, <2>10, NoJobIs DEF HasherInv
<1>2. CASE job.what = "finalize"
  <2>1. "finalize" \in StreamCalls /\ "finalize" \notin OneShots /\ "finalize" # "update"
    BY DEF StreamCalls, OneShots
  <2>2. job.sock = "stream" /\ job.msg = Told  BY <1>0, <1>2, <2>1, Busy
  <2>3. hasher' = NoHasher /\ Answer("finalize", job.msg, Poisoned)
    BY <1>2, <2>1, Zenon DEF CallFails
  <2>4. sock'["slot"] = sock["slot"] /\ sock'["stream"] = Closed /\ DOMAIN sock' = {"slot", "stream"}
    BY <1>a, <1>d, <1>2, <2>1, <2>2
  <2>5. "none" # "Hardware"  OBVIOUS
  <2>6. HasherOk(NoHasher, faults') /\ StreamOk(Closed, NoHasher, NoJob)
    BY <2>5, NoHasherIs, NoStream, Starts, NoJobIs
  <2>7. SlotOk(sock["slot"], NoJob)  BY <1>a, <1>2, <2>1, NoJobIs, SlotStays
  <2>8. RightOrPoisoned'  BY <1>b, <2>3, Answered
  <2> QED BY <1>0, <1>a, <1>b, <1>e, <2>3, <2>4, <2>6, <2>7, <2>8, NoJobIs DEF HasherInv
<1>3. CASE job.what # "update" /\ job.what # "finalize"
  <2>1. job.what \in OneShots /\ job.what \notin StreamCalls
    BY <1>0, <1>3, Busy DEF StreamCalls
  <2>2. job.sock = "slot"  BY <1>0, <2>1, Busy
  <2>3. hasher' = hasher /\ Answer(job.what, job.msg, Fallback(job.what, job.msg))
    BY <1>3, Zenon DEF CallFails
  <2>4. sock'["slot"] = Closed /\ sock'["stream"] = sock["stream"] /\ DOMAIN sock' = {"slot", "stream"}
    BY <1>a, <1>d, <1>3, <2>2
  <2>5. SlotOk(Closed, NoJob)  BY NoJobIs, Starts, Zenon DEF SlotOk
  <2>6. StreamOk(sock["stream"], hasher, NoJob)  BY <1>a, <2>1, NoJobIs, StreamStays
  <2>7. RightOrPoisoned'
    <3>1. job.what = "crc32" => Fallback(job.what, job.msg) = Crc(job.msg)  BY Zenon DEF Fallback
    <3>2. job.what # "crc32" => Fallback(job.what, job.msg) = NoValue  BY Zenon DEF Fallback
    <3>3. job.what = "crc32" \/ job.what = "hw"  BY <2>1 DEF OneShots
    <3>4. \/ Fallback(job.what, job.msg) = Crc(job.msg)
          \/ job.what = "hw" /\ Fallback(job.what, job.msg) = NoValue
      BY <3>1, <3>2, <3>3, Zenon
    <3> QED BY <2>3, <3>4, Answered
  <2> QED BY <1>0, <1>a, <1>b, <1>c, <1>e, <2>3, <2>4, <2>5, <2>6, <2>7, NoJobIs DEF HasherInv
<1> QED BY <1>1, <1>2, <1>3

--------------------------------------------------------------------------------
(* Updates of a stream. *)
LEMMA TailIs ==
  ASSUME NEW n \in Nat, n >= 1
  PROVE  TailLen(n) \in 1..SendChunk /\ n - TailLen(n) \in 0..n
<1>1. SendChunk \in Nat \ {0}  BY HasherConstants
<1> DEFINE x == n - 1
           r == x % SendChunk
<1>2. x \in Nat  OBVIOUS
<1> HIDE DEF x
<1>3. r \in 0..(SendChunk - 1)  BY <1>1, <1>2
<1>4. r <= x
  <2>1. CASE x <= SendChunk - 1
    <3>1. \A y \in 0..(SendChunk - 1) : y % SendChunk = y  BY ONLY <1>1
    <3>2. x \in 0..(SendChunk - 1)  BY <1>1, <1>2, <2>1
    <3> QED BY <1>2, <3>1, <3>2
  <2>2. CASE x > SendChunk - 1
    <3> HIDE DEF r
    <3> QED BY <1>1, <1>2, <1>3, <2>2
  <2> QED BY <1>1, <1>2, <2>1, <2>2
<1>5. TailLen(n) = r + 1  BY DEF TailLen, x
<1> HIDE DEF r
<1>6. r \in Nat /\ r + 1 <= SendChunk  BY <1>1, <1>3
<1> QED BY <1>1, <1>2, <1>4, <1>5, <1>6 DEF x

HasherRecord(h) ==
  /\ DOMAIN h = {"impl", "held", "flushed", "failed", "told"}
  /\ h.held \in Seq(Nat) /\ h.told \in 0..MaxLen
  /\ h.flushed \in BOOLEAN /\ h.failed \in BOOLEAN

LEMMA HardwareOk ==
  ASSUME NEW h, HasherRecord(h), h.impl = "Hardware", NEW n, h.failed => n > 0
  PROVE  HasherOk(h, n)
<1>1. "Hardware" \notin {"Software", "Pending"} /\ "Hardware" # "Pending" /\ "Hardware" # "none"
      /\ "Hardware" \in {"none", "Software", "Pending", "Hardware"}
  OBVIOUS
<1> QED BY <1>1, Zenon DEF HasherOk, HasherRecord

WithHeld(h, s) == [h EXCEPT !.held = s]

LEMMA HeldRecord ==
  ASSUME NEW h, HasherRecord(h), NEW s \in Seq(Nat)
  PROVE  LET g == WithHeld(h, s)
         IN /\ HasherRecord(g) /\ g.held = s /\ g.impl = h.impl /\ g.told = h.told
            /\ (g.flushed <=> h.flushed) /\ (g.failed <=> h.failed)
<1> DEFINE g == WithHeld(h, s)
<1>1. DOMAIN h = {"impl", "held", "flushed", "failed", "told"}  BY Zenon DEF HasherRecord
<1>2. /\ DOMAIN g = {"impl", "held", "flushed", "failed", "told"} /\ g.held = s /\ g.impl = h.impl
      /\ g.told = h.told /\ g.flushed = h.flushed /\ g.failed = h.failed
  BY <1>1 DEF WithHeld
<1> HIDE DEF g
<1>3. HasherRecord(g)  BY <1>2, Zenon DEF HasherRecord
<1>4. (g.flushed <=> h.flushed) /\ (g.failed <=> h.failed)  BY ONLY <1>2, Zenon
<1> QED BY ONLY <1>2, <1>3, <1>4, Zenon DEF g

Data(m, n) == [i \in 1..n |-> m + i]

(* HwHasher::update, whether it buffers the data or sends them.             *)
LEMMA HwUpdateRight ==
  ASSUME NEW h, HasherRecord(h), h.impl = "Hardware", NEW m \in Nat, NEW n \in Nat, h.told = m + n,
         h.failed => faults' > 0, NEW s, SocketShape(s), s.open, Idle, JobShape(job),
         ~h.failed => /\ Hashing(s) \o h.held = Message(m) /\ Len(h.held) <= SendChunk
                      /\ h.flushed => Len(h.held) + n > 0
                      /\ ~h.flushed => ~s.more,
         HwUpdate(h, Data(m, n))
  PROVE  /\ HasherOk(hasher', faults') /\ JobShape(job') /\ StreamOk(s, hasher', job')
         /\ job'.what \notin OneShots
<1> DEFINE d == Data(m, n)
           fits == h.failed \/ Len(h.held) + Len(d) <= SendChunk
<1>1. d \in Seq(Nat) /\ Len(d) = n /\ Message(m) \o d = Message(m + n)
  BY MessageGrows DEF Data
<1>2. h.held \in Seq(Nat)  BY Zenon DEF HasherRecord
<1>3. Hashing(s) \in Seq(Nat)
  <2>1. <<>> \in Seq(Nat)  OBVIOUS
  <2> QED BY <2>1, Zenon DEF Hashing, SocketShape
<1>4. job.what \notin OneShots /\ job.what \notin StreamCalls /\ job.what = "idle"
  BY DEF Idle, OneShots, StreamCalls
<1>5. "update" # "idle" /\ "finalize" # "idle" /\ "update" # "finalize"
      /\ "update" \in StreamCalls /\ "update" \notin OneShots
  BY DEF StreamCalls, OneShots
<1> HIDE DEF d
<1>6. ~h.failed => Hashing(s) \o (h.held \o d) = Message(m + n) /\ h.held \o d \in Seq(Nat)
  <2> SUFFICES ASSUME ~h.failed PROVE Hashing(s) \o (h.held \o d) = Message(m + n) /\ h.held \o d \in Seq(Nat)
    OBVIOUS
  <2>1. Associates(Hashing(s), h.held, d) /\ h.held \o d \in Seq(Nat)
    BY ONLY <1>1, <1>2, <1>3, Associated, Zenon
  <2>2. Hashing(s) \o h.held = Message(m)  OBVIOUS
  <2> QED BY ONLY <1>1, <2>1, <2>2 DEF Associates
<1>7. CASE h.failed
  <2>1. hasher' = h /\ job' = job  BY <1>7, Zenon DEF HwUpdate
  <2>2. StreamOk(s, h, job)  BY <1>4, <1>5, <1>7, Zenon DEF StreamOk
  <2> QED BY <1>4, <2>1, <2>2, HardwareOk
<1>8. CASE ~h.failed /\ Len(h.held) + Len(d) <= SendChunk
  <2> DEFINE c == h.held \o d
             g == WithHeld(h, c)
  <2>1. hasher' = g /\ job' = job
    <3>1. HwUpdate(h, d)  BY DEF d
    <3>2. "held" \in DOMAIN h  BY Zenon DEF HasherRecord
    <3>3. hasher' = IF h.failed THEN h ELSE [h EXCEPT !.held = @ \o d]  BY <1>8, <3>1, Zenon DEF HwUpdate
    <3>4. hasher' = [h EXCEPT !.held = @ \o d]  BY <1>8, <3>3, Zenon
    <3>5. job' = job  BY <1>8, <3>1, Zenon DEF HwUpdate
    <3> QED BY <3>2, <3>4, <3>5 DEF WithHeld
  <2>2. c \in Seq(Nat) /\ Hashing(s) \o c = Message(h.told) /\ Len(c) = Len(h.held) + n
    <3> DEFINE e == h.held
    <3>0. e \in Seq(Nat) /\ d \in Seq(Nat)  BY <1>1, <1>2
    <3> HIDE DEF e
    <3>1. Len(e \o d) = Len(e) + Len(d)  BY ONLY <3>0, Joined
    <3>2. Len(h.held \o d) = Len(h.held) + Len(d)  BY ONLY <3>1 DEF e
    <3> QED BY <1>1, <1>6, <1>8, <3>2
  <2> HIDE DEF c
  <2>3. /\ HasherRecord(g) /\ g.held = c /\ g.impl = h.impl /\ g.told = h.told
        /\ (g.flushed <=> h.flushed) /\ (g.failed <=> h.failed)
    BY <2>2, HeldRecord
  <2> HIDE DEF g
  <2>4. HasherOk(g, faults')  BY <1>8, <2>3, HardwareOk
  <2>5. Held(g, s)
    <3>1. h.flushed => c # <<>>  BY <1>8, <2>2
    <3>2. Len(c) <= SendChunk  BY <1>1, <1>8, <2>2
    <3> QED BY <1>8, <2>2, <2>3, <3>1, <3>2, Zenon DEF Held
  <2>6. StreamOk(s, g, job)  BY <1>4, <1>5, <2>3, <2>5, Zenon DEF StreamOk
  <2> QED BY <1>4, <2>1, <2>4, <2>6
<1>9. CASE ~h.failed /\ ~(Len(h.held) + Len(d) <= SendChunk)
  <2> DEFINE cut == Len(d) - TailLen(Len(d))
             a == SubSeq(d, 1, cut)
             b == SubSeq(d, cut + 1, Len(d))
             more == h.held \o a
             j == UpdatingJob(more, b)
  <2>1. Len(h.held) \in Nat /\ Len(h.held) <= SendChunk /\ SendChunk \in Nat
    BY <1>2, <1>9, HasherConstants
  <2>2. Len(d) \in Nat /\ Len(d) >= 1  BY <1>1, <1>9, <2>1
  <2>3. cut \in 0..Len(d) /\ Len(d) - cut \in 1..SendChunk
    <3> DEFINE l == Len(d)
               t == TailLen(l)
    <3>1. l \in Nat /\ l >= 1  BY <2>2
    <3> HIDE DEF l
    <3>2. t \in 1..SendChunk /\ l - t \in 0..l  BY ONLY <3>1, TailIs
    <3> HIDE DEF t
    <3>3. SendChunk \in Nat  BY HasherConstants
    <3>4. l - (l - t) = t  BY ONLY <3>1, <3>2, <3>3
    <3>5. l - t \in 0..l /\ l - (l - t) \in 1..SendChunk  BY ONLY <3>2, <3>4
    <3>6. cut = l - t  BY ONLY TRUE DEF cut, l, t
    <3> QED BY ONLY <3>5, <3>6 DEF l
  <2>4. hasher' = h /\ job' = j
    <3>1. HwUpdate(h, d)  BY DEF d
    <3> QED BY <1>9, <3>1, Zenon DEF HwUpdate, UpdatingJob
  <2> HIDE DEF cut
  <2>5. a \in Seq(Nat) /\ b \in Seq(Nat) /\ a \o b = d /\ Len(b) = Len(d) - cut
    BY <1>1, <2>3, Split0
  <2> HIDE DEF a, b
  <2>6. b # <<>> /\ Len(b) <= SendChunk  BY <2>3, <2>5, HasherConstants
  <2>7. more \in Seq(Nat) /\ Hashing(s) \o (more \o b) = Message(h.told)
    <3>1. Associates(h.held, a, b) /\ more \in Seq(Nat)
      BY ONLY <1>2, <2>5, Associated, Zenon DEF more
    <3>2. more \o b = h.held \o d  BY ONLY <2>5, <3>1 DEF Associates, more
    <3> HIDE DEF more
    <3> QED BY <1>6, <1>9, <3>1, <3>2
  <2> HIDE DEF more
  <2>8. /\ JobShape(j) /\ j.what = "update" /\ j.sock = "stream" /\ ~j.closed
        /\ j.more = more /\ j.tail = b
    BY <2>5, <2>7, UpdateJob
  <2> HIDE DEF j
  <2>9. StreamOk(s, h, j)
    <3>1. Hashing(s) \o (j.more \o j.tail) = Message(h.told)  BY ONLY <2>7, <2>8
    <3> QED BY <1>5, <2>6, <2>8, <3>1, Zenon DEF StreamOk
  <2>10. HasherOk(h, faults')  BY <1>9, HardwareOk
  <2> QED BY <1>5, <2>4, <2>8, <2>9, <2>10
<1> QED BY <1>7, <1>8, <1>9, Zenon

ToldMore(h, n) == [h EXCEPT !.told = @ + n]
AsImpl(h, i) == [h EXCEPT !.impl = i]

LEMMA ToldRecord ==
  ASSUME NEW h, HasherRecord(h), NEW n \in Nat, h.told + n <= MaxLen
  PROVE  LET g == ToldMore(h, n)
         IN /\ HasherRecord(g) /\ g.held = h.held /\ g.impl = h.impl /\ g.told = h.told + n
            /\ (g.flushed <=> h.flushed) /\ (g.failed <=> h.failed)
<1> DEFINE g == ToldMore(h, n)
<1>1. DOMAIN h = {"impl", "held", "flushed", "failed", "told"}  BY Zenon DEF HasherRecord
<1>2. /\ DOMAIN g = {"impl", "held", "flushed", "failed", "told"} /\ g.held = h.held /\ g.impl = h.impl
      /\ g.told = h.told + n /\ g.flushed = h.flushed /\ g.failed = h.failed
  BY <1>1 DEF ToldMore
<1>3. h.told \in 0..MaxLen  BY Zenon DEF HasherRecord
<1>4. h.told + n \in 0..MaxLen  BY <1>3, HasherConstants
<1> HIDE DEF g
<1>5. HasherRecord(g)  BY <1>2, <1>4, Zenon DEF HasherRecord
<1>6. (g.flushed <=> h.flushed) /\ (g.failed <=> h.failed)  BY ONLY <1>2, Zenon
<1> QED BY ONLY <1>2, <1>5, <1>6, Zenon DEF g

LEMMA ImplRecord ==
  ASSUME NEW h, HasherRecord(h), NEW i
  PROVE  LET g == AsImpl(h, i)
         IN /\ HasherRecord(g) /\ g.held = h.held /\ g.impl = i /\ g.told = h.told
            /\ (g.flushed <=> h.flushed) /\ (g.failed <=> h.failed)
<1> DEFINE g == AsImpl(h, i)
<1>1. DOMAIN h = {"impl", "held", "flushed", "failed", "told"}  BY Zenon DEF HasherRecord
<1>2. /\ DOMAIN g = {"impl", "held", "flushed", "failed", "told"} /\ g.held = h.held /\ g.impl = i
      /\ g.told = h.told /\ g.flushed = h.flushed /\ g.failed = h.failed
  BY <1>1 DEF AsImpl
<1> HIDE DEF g
<1>3. HasherRecord(g)  BY <1>2, Zenon DEF HasherRecord
<1>4. (g.flushed <=> h.flushed) /\ (g.failed <=> h.failed)  BY ONLY <1>2, Zenon
<1> QED BY ONLY <1>2, <1>3, <1>4, Zenon DEF g

(* A hasher that holds in its buffer everything it was told.                *)
LEMMA HoldingOk ==
  ASSUME NEW h, HasherRecord(h), h.impl \in {"Software", "Pending"}, h.held = Message(h.told),
         h.impl = "Pending" => Len(h.held) < MinHwLen, NEW k, h.failed => k > 0
  PROVE  HasherOk(h, k)
<1>1. h.impl \in {"none", "Software", "Pending", "Hardware"} /\ h.impl # "none"  OBVIOUS
<1> QED BY <1>1, Zenon DEF HasherOk, HasherRecord

(* Crc32Hasher::update, when the data stay in the buffer.                   *)
LEMMA HoldsMore ==
  ASSUME NEW h, HasherRecord(h), h.impl \in {"Software", "Pending"}, NEW m \in Nat, NEW n \in Nat,
         h.told = m + n, h.held = Message(m), h.impl = "Pending" => m + n < MinHwLen,
         NEW k, h.failed => k > 0
  PROVE  LET g == WithHeld(h, h.held \o Data(m, n))
         IN HasherOk(g, k) /\ g.impl # "Hardware" /\ g.impl = h.impl
<1> DEFINE c == h.held \o Data(m, n)
           g == WithHeld(h, c)
<1>1. c = Message(m + n)  BY MessageGrows DEF Data
<1>2. c \in Seq(Nat) /\ Len(c) = m + n  BY <1>1, Messages0
<1> HIDE DEF c
<1>3. /\ HasherRecord(g) /\ g.held = c /\ g.impl = h.impl /\ g.told = h.told
      /\ (g.flushed <=> h.flushed) /\ (g.failed <=> h.failed)
  BY <1>2, HeldRecord
<1> HIDE DEF g
<1>4. HasherOk(g, k)
  <2>1. g.impl \in {"Software", "Pending"} /\ g.held = Message(g.told)  BY <1>1, <1>3
  <2>2. g.impl = "Pending" => Len(g.held) < MinHwLen  BY <1>2, <1>3
  <2>3. g.failed => k > 0  BY <1>3, Zenon
  <2> QED BY <1>3, <2>1, <2>2, <2>3, HoldingOk
<1>5. g.impl # "Hardware"  BY <1>3
<1> QED BY ONLY <1>3, <1>4, <1>5 DEF g, c

(* A stream is given a kernel socket only when the kernel's crc32 is right. *)
PendingOpen == hasher.impl = "Pending" => tfm = "open"

LEMMA UpdateKeeps ==
  ASSUME HasherInv, PendingOpen, NEW n \in 0..MaxLen, Update(n)
  PROVE  HasherInv'
<1> DEFINE m == hasher.told
           d == Data(m, n)
           h == ToldMore(hasher, n)
           sl == sock["slot"]
           st == sock["stream"]
<1>0. /\ Idle /\ hasher.impl # "none" /\ kernel' = kernel /\ tfm' = tfm /\ answer' = NoAnswer
      /\ m + n <= MaxLen
  BY DEF Update
<1>z. \/ /\ \/ hasher.impl = "Software"
            \/ hasher.impl = "Pending" /\ Len(hasher.held) + n < MinHwLen
         /\ hasher' = [h EXCEPT !.held = @ \o d]
         /\ UNCHANGED <<sock, job, faults>>
      \/ /\ hasher.impl = "Pending" /\ Len(hasher.held) + n >= MinHwLen
         /\ \/ /\ AcceptOk
               /\ sock' = [sock EXCEPT !["stream"] = Accepted]
               /\ HwUpdate(AsImpl(h, "Hardware"), d)
            \/ /\ AcceptFails
               /\ hasher' = [h EXCEPT !.impl = "Software", !.held = @ \o d]
               /\ UNCHANGED <<sock, job>>
      \/ /\ hasher.impl = "Hardware"
         /\ HwUpdate(h, d)
         /\ UNCHANGED <<sock, faults>>
  BY Zenon DEF Update, Data, ToldMore, AsImpl
<1>a. /\ DOMAIN sock = {"slot", "stream"} /\ JobShape(job) /\ SlotOk(sl, job)
      /\ StreamOk(st, hasher, job) /\ HasherOk(hasher, faults)
      /\ KernelOk(kernel, tfm, sl, st, job) /\ faults \in 0..MaxFaults
  BY DEF HasherInv
<1>b. RightOrPoisoned'  BY <1>0, Silent
<1>c. job.what \notin OneShots /\ job.what \notin StreamCalls  BY <1>0, IdleIs
<1>d. n \in Nat /\ MinHwLen \in Nat /\ SendChunk \in Nat /\ 1 <= MinHwLen /\ MinHwLen <= SendChunk
  BY HasherConstants
<1>e. HasherRecord(hasher)  BY <1>a, Zenon DEF HasherOk, HasherRecord
<1>f. m \in Nat  BY <1>e, HasherConstants DEF HasherRecord
<1>g. /\ HasherRecord(h) /\ h.held = hasher.held /\ h.impl = hasher.impl /\ h.told = m + n
      /\ (h.flushed <=> hasher.flushed) /\ (h.failed <=> hasher.failed)
  BY <1>0, <1>d, <1>e, ToldRecord
<1> HIDE DEF h
<1>h. hasher.failed => faults > 0  BY <1>a, Zenon DEF HasherOk
<1>i. hasher.impl \in {"Software", "Pending"} => hasher.held = Message(m) /\ Len(hasher.held) = m
  <2>1. hasher.impl \in {"Software", "Pending"} => hasher.held = Message(m)
    BY <1>a, Zenon DEF HasherOk
  <2>2. Len(Message(m)) = m  BY <1>f, Messages0
  <2> QED BY ONLY <2>1, <2>2
<1>j. SocketShape(st) /\ (hasher.impl = "Hardware" <=> st.open)  BY <1>a, Zenon DEF StreamOk
<1>k. kernel \in Kernels /\ (tfm = "open" => kernel = "right") /\ (st.open => tfm = "open")
  BY <1>a, Zenon DEF KernelOk
<1>1. CASE /\ \/ hasher.impl = "Software"
              \/ hasher.impl = "Pending" /\ Len(hasher.held) + n < MinHwLen
           /\ hasher' = [h EXCEPT !.held = @ \o d]
           /\ UNCHANGED <<sock, job, faults>>
  <2>1. hasher' = WithHeld(h, h.held \o d)
    <3>1. "held" \in DOMAIN h  BY <1>g, Zenon DEF HasherRecord
    <3> QED BY <1>1, <3>1 DEF WithHeld
  <2>2. h.impl \in {"Software", "Pending"} /\ h.held = Message(m)  BY <1>1, <1>g, <1>i
  <2>3. h.impl = "Pending" => m + n < MinHwLen  BY <1>1, <1>g, <1>i
  <2>4. h.failed => faults > 0  BY <1>g, <1>h, Zenon
  <2>5. HasherOk(hasher', faults) /\ hasher'.impl # "Hardware"
    BY <1>d, <1>f, <1>g, <2>1, <2>2, <2>3, <2>4, HoldsMore
  <2>6. ~st.open  BY <1>1, <1>j
  <2>7. StreamOk(st, hasher', job)  BY <1>c, <1>j, <2>5, <2>6, NoStream
  <2> QED BY <1>0, <1>1, <1>a, <1>b, <2>5, <2>7 DEF HasherInv
<1>2. CASE /\ hasher.impl = "Pending" /\ Len(hasher.held) + n >= MinHwLen
           /\ AcceptOk
           /\ sock' = [sock EXCEPT !["stream"] = Accepted]
           /\ HwUpdate(AsImpl(h, "Hardware"), d)
  <2> DEFINE g == AsImpl(h, "Hardware")
  <2>1. /\ HasherRecord(g) /\ g.held = hasher.held /\ g.impl = "Hardware" /\ g.told = m + n
        /\ (g.flushed <=> hasher.flushed) /\ (g.failed <=> hasher.failed)
    <3>1. /\ HasherRecord(g) /\ g.held = h.held /\ g.impl = "Hardware" /\ g.told = h.told
          /\ (g.flushed <=> h.flushed) /\ (g.failed <=> h.failed)
      BY <1>g, ImplRecord
    <3> HIDE DEF g
    <3> QED BY <1>g, <3>1, Zenon
  <2>2. HwUpdate(g, d) /\ faults' = faults  BY <1>2 DEF AcceptOk
  <2> HIDE DEF g
  <2>3. hasher.held = Message(m) /\ Len(hasher.held) = m /\ Message(m) \in Seq(Nat)
    BY <1>2, <1>f, <1>i, Messages0
  <2>4. SocketShape(Accepted) /\ Accepted.open /\ ~Accepted.more  BY Starts
  <2>5. Hashing(Accepted) \o g.held = Message(m)
    <3>1. Hashing(Accepted) = <<>>  BY <2>4, Zenon DEF Hashing
    <3> QED BY <2>1, <2>3, <3>1, Assoc
  <2>6. Len(g.held) <= SendChunk /\ Len(g.held) + n > 0
    <3>1. Len(hasher.held) < MinHwLen  BY <1>2, <1>a, Zenon DEF HasherOk
    <3> QED BY <1>2, <1>d, <1>f, <2>1, <2>3, <3>1
  <2>7. g.failed => faults' > 0  BY <1>h, <2>1, <2>2, Zenon
  <2>8. /\ HasherOk(hasher', faults') /\ JobShape(job') /\ StreamOk(Accepted, hasher', job')
        /\ job'.what \notin OneShots
    <3>1. HwUpdate(g, Data(m, n))  BY <2>2
    <3> HIDE DEF d
    <3> QED BY <1>0, <1>a, <1>d, <1>f, <2>1, <2>4, <2>5, <2>6, <2>7, <3>1, HwUpdateRight
  <2>9. /\ sock'["slot"] = sl /\ sock'["stream"] = Accepted /\ DOMAIN sock' = {"slot", "stream"}
    BY <1>2, <1>a
  <2>10. SlotOk(sl, job')  BY <1>a, <1>c, <2>8, SlotStays
  <2>11. KernelOk(kernel, tfm, sl, Accepted, job')
    BY <1>2, <1>k, OpenKernel DEF PendingOpen
  <2> QED BY <1>0, <1>a, <1>b, <2>2, <2>8, <2>9, <2>10, <2>11 DEF HasherInv
<1>3. CASE /\ hasher.impl = "Pending" /\ AcceptFails
           /\ hasher' = [h EXCEPT !.impl = "Software", !.held = @ \o d]
           /\ UNCHANGED <<sock, job>>
  <2> DEFINE g == AsImpl(h, "Software")
  <2>1. /\ HasherRecord(g) /\ g.held = hasher.held /\ g.impl = "Software" /\ g.told = m + n
        /\ (g.failed <=> hasher.failed)
    <3>1. /\ HasherRecord(g) /\ g.held = h.held /\ g.impl = "Software" /\ g.told = h.told
          /\ (g.flushed <=> h.flushed) /\ (g.failed <=> h.failed)
      BY <1>g, ImplRecord
    <3> HIDE DEF g
    <3> QED BY <1>g, <3>1, Zenon
  <2>2. hasher' = WithHeld(g, g.held \o d)
    <3>1. DOMAIN h = {"impl", "held", "flushed", "failed", "told"}  BY <1>g, Zenon DEF HasherRecord
    <3> QED BY <1>3, <3>1 DEF WithHeld, AsImpl
  <2> HIDE DEF g
  <2>3. hasher.held = Message(m)  BY <1>3, <1>i
  <2>4. faults' = faults + 1 /\ faults' \in 0..MaxFaults /\ faults' > 0
    BY <1>3, <1>a, HasherConstants DEF AcceptFails
  <2>5. HasherOk(hasher', faults') /\ hasher'.impl # "Hardware"
    BY <1>d, <1>f, <2>1, <2>2, <2>3, <2>4, HoldsMore
  <2>6. ~st.open  BY <1>3, <1>j
  <2>7. StreamOk(st, hasher', job)  BY <1>c, <1>j, <2>5, <2>6, NoStream
  <2> QED BY <1>0, <1>3, <1>a, <1>b, <2>4, <2>5, <2>7 DEF HasherInv
<1>4. CASE /\ hasher.impl = "Hardware"
           /\ HwUpdate(h, d)
           /\ UNCHANGED <<sock, faults>>
  <2>1. ~h.failed => /\ Hashing(st) \o h.held = Message(m) /\ Len(h.held) <= SendChunk
                     /\ h.flushed => Len(h.held) + n > 0
                     /\ ~h.flushed => ~st.more
    <3> SUFFICES ASSUME ~h.failed
                 PROVE  /\ Hashing(st) \o h.held = Message(m) /\ Len(h.held) <= SendChunk
                        /\ h.flushed => Len(h.held) + n > 0
                        /\ ~h.flushed => ~st.more
      OBVIOUS
    <3>1. Held(hasher, st)  BY <1>4, <1>a, <1>c, <1>g, Zenon DEF StreamOk
    <3>2. /\ Hashing(st) \o hasher.held = Message(m) /\ Len(hasher.held) <= SendChunk
          /\ hasher.flushed => hasher.held # <<>>
          /\ ~hasher.flushed => ~st.more
      BY <3>1, Zenon DEF Held
    <3>3. hasher.held \in Seq(Nat)  BY <1>e, Zenon DEF HasherRecord
    <3>4. hasher.held # <<>> => Len(hasher.held) + n > 0  BY <1>d, <3>3
    <3> QED BY <1>g, <3>2, <3>4, Zenon
  <2>2. st.open  BY <1>4, <1>j
  <2>3. h.failed => faults' > 0  BY <1>4, <1>g, <1>h, Zenon
  <2>4. /\ HasherOk(hasher', faults') /\ JobShape(job') /\ StreamOk(st, hasher', job')
        /\ job'.what \notin OneShots
    <3>1. HwUpdate(h, Data(m, n)) /\ h.impl = "Hardware"  BY <1>4, <1>g
    <3> QED BY <1>0, <1>a, <1>d, <1>f, <1>g, <1>j, <2>1, <2>2, <2>3, <3>1, HwUpdateRight
  <2>5. SlotOk(sl, job')  BY <1>a, <1>c, <2>4, SlotStays
  <2>6. KernelOk(kernel, tfm, sl, st, job')  BY <1>k, <2>2, OpenKernel
  <2> QED BY <1>0, <1>4, <1>a, <1>b, <2>4, <2>5, <2>6 DEF HasherInv
<1> HIDE DEF d
<1> QED BY ONLY <1>z, <1>1, <1>2, <1>3, <1>4, Zenon

LEMMA ProbeStays == tfm = "open" /\ tfm' \in Probed => tfm' = "open"
  BY DEF Probed

LEMMA KeepsImpl ==
  ASSUME NEW h, HasherRecord(h), NEW a, NEW b
  PROVE  /\ [h EXCEPT !.held = a].impl = h.impl
         /\ [h EXCEPT !.held = a, !.flushed = b].impl = h.impl
         /\ [h EXCEPT !.failed = b].impl = h.impl
<1>1. DOMAIN h = {"impl", "held", "flushed", "failed", "told"}  BY Zenon DEF HasherRecord
<1> QED BY <1>1

LEMMA UpdatedImpl ==
  ASSUME NEW h, HasherRecord(h), NEW d, HwUpdate(h, d)
  PROVE  hasher'.impl = h.impl
<1>1. \/ hasher' = h
      \/ hasher' = [h EXCEPT !.held = @ \o d]
  BY Zenon DEF HwUpdate
<1>2. CASE hasher' = h  BY <1>2
<1>3. CASE hasher' = [h EXCEPT !.held = @ \o d]  BY <1>3, KeepsImpl
<1> QED BY ONLY <1>1, <1>2, <1>3, Zenon

LEMMA UpdatePending ==
  ASSUME HasherInv, PendingOpen, NEW n \in 0..MaxLen, Update(n)
  PROVE  PendingOpen'
<1> DEFINE d == Data(hasher.told, n)
           h == ToldMore(hasher, n)
<1>1. HasherRecord(hasher)  BY Zenon DEF HasherInv, HasherOk, HasherRecord
<1>2. n \in Nat /\ hasher.told + n <= MaxLen /\ tfm' = tfm  BY DEF Update
<1>3. HasherRecord(h) /\ h.impl = hasher.impl  BY <1>1, <1>2, ToldRecord
<1>4. HasherRecord(AsImpl(h, "Hardware")) /\ AsImpl(h, "Hardware").impl = "Hardware"
  BY <1>3, ImplRecord
<1>z. \/ hasher' = [h EXCEPT !.held = @ \o d]
      \/ HwUpdate(AsImpl(h, "Hardware"), d)
      \/ hasher' = [h EXCEPT !.impl = "Software", !.held = @ \o d]
      \/ HwUpdate(h, d)
  BY Zenon DEF Update, Data, ToldMore, AsImpl
<1> HIDE DEF h, d
<1>5. CASE hasher' = [h EXCEPT !.held = @ \o d]
  <2>1. hasher'.impl = h.impl  BY <1>3, <1>5, KeepsImpl
  <2> QED BY <1>2, <1>3, <2>1 DEF PendingOpen
<1>6. CASE HwUpdate(AsImpl(h, "Hardware"), d)
  <2>1. hasher'.impl = "Hardware"  BY <1>4, <1>6, UpdatedImpl
  <2> QED BY <2>1 DEF PendingOpen
<1>7. CASE hasher' = [h EXCEPT !.impl = "Software", !.held = @ \o d]
  <2>1. DOMAIN h = {"impl", "held", "flushed", "failed", "told"}  BY <1>3, Zenon DEF HasherRecord
  <2>2. hasher'.impl = "Software"  BY <1>7, <2>1
  <2> QED BY <2>2 DEF PendingOpen
<1>8. CASE HwUpdate(h, d)
  <2>1. hasher'.impl = h.impl  BY <1>3, <1>8, UpdatedImpl
  <2> QED BY <1>2, <1>3, <2>1 DEF PendingOpen
<1> QED BY ONLY <1>z, <1>5, <1>6, <1>7, <1>8, Zenon

LEMMA PendingStep ==
  ASSUME HasherInv, PendingOpen, [HasherNext]_hasherVars
  PROVE  PendingOpen'
<1>1. HasherRecord(hasher)  BY Zenon DEF HasherInv, HasherOk, HasherRecord
<1>2. ASSUME hasher' = hasher, tfm' = tfm \/ tfm' \in Probed PROVE PendingOpen'
  BY <1>2, ProbeStays DEF PendingOpen
<1>3. ASSUME hasher' = NoHasher PROVE PendingOpen'
  <2>1. NoHasher.impl = "none"  BY DEF NoHasher
  <2> QED BY <1>3, <2>1 DEF PendingOpen
<1>4. ASSUME NEW n \in 0..MaxLen, InSoftware(n) PROVE PendingOpen'
  BY <1>2, <1>4 DEF InSoftware
<1>5. ASSUME NEW n \in 0..MaxLen, NEW via, OneShot(via, n) PROVE PendingOpen'
  BY <1>2, <1>5 DEF OneShot
<1>6. CASE EmptyInHardware  BY <1>2, <1>6 DEF EmptyInHardware
<1>7. CASE WarmUp  BY <1>2, <1>7 DEF WarmUp
<1>8. CASE NewHasher
  <2>1. hasher' = NewHasherRecord(IF tfm' = "open" THEN "Pending" ELSE "Software")
    BY <1>8 DEF NewHasher, NewHasherRecord
  <2>2. hasher'.impl = IF tfm' = "open" THEN "Pending" ELSE "Software"
    BY <2>1 DEF NewHasherRecord, NoHasher
  <2> QED BY <2>2 DEF PendingOpen
<1>9. CASE FinalizeAtOnce  BY <1>3, <1>9 DEF FinalizeAtOnce
<1>10. CASE Finalize  BY <1>2, <1>10 DEF Finalize
<1>11. CASE SendMore  BY <1>2, <1>11 DEF SendMore, SendSome
<1>12. CASE UpdateDone
  <2>1. hasher' = [hasher EXCEPT !.held = job.tail, !.flushed = TRUE] /\ tfm' = tfm
    BY <1>12 DEF UpdateDone
  <2>2. hasher'.impl = hasher.impl  BY <1>1, <2>1, KeepsImpl
  <2> QED BY <2>1, <2>2 DEF PendingOpen
<1>13. CASE Close  BY <1>2, <1>13 DEF Close
<1>14. CASE ReadDigest
  <2>1. (hasher' = hasher /\ tfm' = tfm) \/ hasher' = NoHasher  BY <1>14 DEF ReadDigest
  <2> QED BY <1>2, <1>3, <2>1
<1>15. CASE CallFails
  <2>0. tfm' = tfm  BY <1>15 DEF CallFails
  <2>1. \/ hasher' = [hasher EXCEPT !.failed = TRUE]
        \/ hasher' = NoHasher
        \/ hasher' = hasher
    BY <1>15 DEF CallFails
  <2>2. hasher' = [hasher EXCEPT !.failed = TRUE] => hasher'.impl = hasher.impl
    BY <1>1, KeepsImpl
  <2>3. CASE hasher' = [hasher EXCEPT !.failed = TRUE]  BY <2>0, <2>2, <2>3 DEF PendingOpen
  <2>4. CASE hasher' = hasher  BY <1>2, <2>0, <2>4
  <2> QED BY <1>3, <2>1, <2>3, <2>4
<1>16. CASE UNCHANGED hasherVars  BY <1>2, <1>16 DEF hasherVars
<1> QED BY <1>4, <1>5, <1>6, <1>7, <1>8, <1>9, <1>10, <1>11, <1>12, <1>13, <1>14, <1>15, <1>16,
           UpdatePending
        DEF HasherNext, SystemCall

LEMMA HasherInvStep ==
  ASSUME HasherInv, PendingOpen, [HasherNext]_hasherVars
  PROVE  HasherInv'
<1>1. ASSUME NEW n \in 0..MaxLen, InSoftware(n) PROVE HasherInv'  BY <1>1, InSoftwareKeeps
<1>2. ASSUME NEW n \in 0..MaxLen, Update(n) PROVE HasherInv'  BY <1>2, UpdateKeeps
<1>3. ASSUME NEW n \in 0..MaxLen, NEW via \in {"crc32", "hw"}, OneShot(via, n) PROVE HasherInv'
  <2>1. via \in OneShots  BY DEF OneShots
  <2> QED BY <1>3, <2>1, OneShotKeeps
<1>4. CASE EmptyInHardware  BY <1>4, EmptyInHardwareKeeps
<1>5. CASE WarmUp  BY <1>5, WarmUpKeeps
<1>6. CASE NewHasher  BY <1>6, NewHasherKeeps
<1>7. CASE FinalizeAtOnce  BY <1>7, FinalizeAtOnceKeeps
<1>8. CASE Finalize  BY <1>8, FinalizeKeeps
<1>9. CASE SystemCall
  <2>1. CASE SendMore  BY <2>1, SendMoreKeeps
  <2>2. CASE UpdateDone  BY <2>2, UpdateDoneKeeps
  <2>3. CASE Close  BY <2>3, CloseKeeps
  <2>4. CASE ReadDigest  BY <2>4, ReadDigestKeeps
  <2>5. CASE CallFails  BY <2>5, CallFailsKeeps
  <2> QED BY <1>9, <2>1, <2>2, <2>3, <2>4, <2>5 DEF SystemCall
<1>10. CASE UNCHANGED hasherVars
  BY <1>10 DEF hasherVars, HasherInv, RightOrPoisoned
<1> QED BY <1>1, <1>2, <1>3, <1>4, <1>5, <1>6, <1>7, <1>8, <1>9, <1>10 DEF HasherNext

LEMMA HasherInvAlways == HasherSpec => [](HasherInv /\ PendingOpen)
<1>1. HasherInit => HasherInv /\ PendingOpen
  <2>1. NoHasher.impl = "none"  BY DEF NoHasher
  <2> QED BY <2>1, HasherInvInit DEF HasherInit, PendingOpen
<1>2. HasherInv /\ PendingOpen /\ [HasherNext]_hasherVars => (HasherInv /\ PendingOpen)'
  BY HasherInvStep, PendingStep
<1> QED BY <1>1, <1>2, PTL DEF HasherSpec

LEMMA InvChecksums == HasherInv => ChecksumsRight
<1> SUFFICES ASSUME HasherInv PROVE ChecksumsRight  OBVIOUS
<1>1. RightOrPoisoned  BY DEF HasherInv
<1>2. SlotBetweenHashes  BY IdleIs DEF SlotBetweenHashes
<1>3. TailIsKept
  <2> SUFFICES ASSUME Idle, hasher.impl = "Hardware", ~hasher.failed
               PROVE  Len(hasher.held) <= SendChunk /\ (hasher.flushed => hasher.held # <<>>)
    BY DEF TailIsKept
  <2>1. StreamOk(sock["stream"], hasher, job)  BY DEF HasherInv
  <2>2. job.what \notin StreamCalls  BY IdleIs
  <2>3. Held(hasher, sock["stream"])  BY <2>1, <2>2, Zenon DEF StreamOk
  <2> QED BY <2>3, Zenon DEF Held
<1> QED BY <1>1, <1>2, <1>3 DEF ChecksumsRight

LEMMA InvHasherTypes == HasherInv => HasherTypeOK
<1> SUFFICES ASSUME HasherInv PROVE HasherTypeOK  OBVIOUS
<1>a. /\ DOMAIN sock = {"slot", "stream"} /\ JobShape(job) /\ SlotOk(sock["slot"], job)
      /\ StreamOk(sock["stream"], hasher, job) /\ HasherOk(hasher, faults)
      /\ KernelOk(kernel, tfm, sock["slot"], sock["stream"], job) /\ faults \in 0..MaxFaults
  BY DEF HasherInv
<1>1. kernel \in Kernels /\ tfm \in {"unset", "none", "open"}  BY <1>a, Zenon DEF KernelOk
<1>2. \A s \in DOMAIN sock : sock[s].open \in BOOLEAN /\ sock[s].more \in BOOLEAN
  <2>1. SocketShape(sock["slot"])  BY <1>a, Zenon DEF SlotOk
  <2>2. SocketShape(sock["stream"])  BY <1>a, Zenon DEF StreamOk
  <2>3. ASSUME NEW s \in DOMAIN sock PROVE sock[s].open \in BOOLEAN /\ sock[s].more \in BOOLEAN
    <3>1. s = "slot" \/ s = "stream"  BY <1>a
    <3> QED BY <2>1, <2>2, <3>1, Zenon DEF SocketShape
  <2> QED BY <2>3
<1>3. hasher.impl \in {"none", "Software", "Pending", "Hardware"} /\ hasher.told \in 0..MaxLen
  BY <1>a, Zenon DEF HasherOk
<1>4. hasher.impl = "Hardware" <=> sock["stream"].open  BY <1>a, Zenon DEF StreamOk
<1>5. job.what \in {"idle", "crc32", "hw", "update", "finalize"}
  <2>1. job.what \in {"idle"} \cup OneShots \cup StreamCalls  BY <1>a, Zenon DEF JobShape
  <2> QED BY <2>1 DEF OneShots, StreamCalls
<1> QED BY <1>a, <1>1, <1>2, <1>3, <1>4, <1>5, Zenon DEF HasherTypeOK

(* The probe's outcome, the sockets and the job stay among their values, and *)
(* a hasher has a socket just as long as it is a hardware one.               *)
THEOREM HasherTypeCorrect == HasherSpec => []HasherTypeOK
BY HasherInvAlways, InvHasherTypes, PTL

(* No checksum that the crate returns is wrong, whatever the kernel computes, *)
(* however a message is cut and whichever system calls fail.                  *)
THEOREM ChecksumsRightAlways == HasherSpec => []ChecksumsRight
BY HasherInvAlways, InvChecksums, PTL

--------------------------------------------------------------------------------
(****************************************************************************)
(* The terminal client's two tasks, for any capacities of their channels    *)
(* and any number of keys, connections and items.                           *)
(*                                                                          *)
(* The last report on the way says whether the task has a connection, or    *)
(* the TUI shows it if none is on the way, but for a Reconnect that will    *)
(* end it or was refused (ConnOk); likewise for the address and the last    *)
(* Reconnect on the way (AddrOk).  A stream's items on the way are those    *)
(* between the last shown and the last sent, in order (FeedOk).             *)
(****************************************************************************)
Statuses == {"Connected", "Disconnected"}
Reconnects == {"Reconnect"}
Commands ==
  {Call} \cup {Reconnect(a) : a \in Servers} \cup {Subscribe(k) : k \in {"rx", "tx"}}
Items == [kind : {"Item"}, feed : Nat, number : Nat]
Events == {Status(k) : k \in Statuses \cup {"Result"}} \cup Items
Feeds == [conn : Nat, what : {"statistics", "rx", "tx"}, sent : Nat, shown : Nat]

(* What the task has to tell next. *)
OutIs(p, e) ==
  /\ p = "tellConnected" => e = Status("Connected")
  /\ p \in {"tellOffline", "tellLeft"} => e = Status("Disconnected")
  /\ p \in {"connect", "offline"} => e = NoEvent
  /\ p = "serve" => e \in {NoEvent, Status("Result")}

AppOk(a) ==
  /\ DOMAIN a = {"connected", "addr", "editing", "subs"}
  /\ a.connected \in BOOLEAN /\ a.addr \in Servers /\ a.editing \in BOOLEAN
  /\ a.subs \in Seq({"rx", "tx"})

TaskOk(t) ==
  /\ DOMAIN t = {"phase", "addr", "conn", "out"}
  /\ t.phase \in {"connect", "tellConnected", "tellOffline", "tellLeft", "serve", "offline"}
  /\ t.addr \in Servers /\ t.conn \in Nat
  /\ OutIs(t.phase, t.out)
  /\ t.phase \in {"tellConnected", "serve"} => t.conn > 0

TuiShape ==
  /\ AppOk(app)
  /\ keys \in 0..MaxKeys
  /\ cmds \in Seq(Commands) /\ Len(cmds) <= CmdCap
  /\ evts \in Seq(Events) /\ Len(evts) <= EvtCap
  /\ TaskOk(task)
  /\ feeds \in Seq(Feeds) /\ \A i \in DOMAIN feeds : feeds[i].conn \in 1..task.conn

LastOf(q, K, i) ==
  /\ i \in DOMAIN q /\ q[i].kind \in K
  /\ \A j \in DOMAIN q : j > i => q[j].kind \notin K

None(q, K) == \A i \in DOMAIN q : q[i].kind \notin K

Tells(p) == p \in {"serve", "tellLeft"}

ConnOk(q, c, told, leaving) ==
  /\ \A i \in DOMAIN q : LastOf(q, Statuses, i) => (q[i].kind = "Connected" <=> told)
  /\ None(q, Statuses) => (c => told) /\ (told => c \/ leaving)

AddrOk(q, a, t) ==
  /\ \A i \in DOMAIN q : LastOf(q, Reconnects, i) => q[i].addr = a
  /\ None(q, Reconnects) => a = t

Leaving == refused \/ ~None(cmds, Reconnects) \/ task.phase = "tellLeft"

ItemAt(q, n, i) == n \in DOMAIN q /\ q[n].kind = "Item" /\ q[n].feed = i

FeedOk(q, i, f) ==
  /\ f.shown <= f.sent
  /\ \A n \in DOMAIN q : ItemAt(q, n, i) => q[n].number \in (f.shown + 1)..f.sent
  /\ \A k \in (f.shown + 1)..f.sent : \E n \in DOMAIN q : ItemAt(q, n, i) /\ q[n].number = k
  /\ \A m, n \in DOMAIN q : ItemAt(q, m, i) /\ ItemAt(q, n, i) /\ m < n => q[m].number < q[n].number

(* What is shown for the address is what was last asked for until a key    *)
(* changes it.                                                              *)
TypedOn(shown, a, key) == a \in Servers /\ key \in BOOLEAN /\ (key \/ shown = a)

TuiInv ==
  /\ TuiShape
  /\ ConnOk(evts, app.connected, Tells(task.phase), Leaving)
  /\ ~refused => AddrOk(cmds, asked, task.addr)
  /\ TypedOn(app.addr, asked, edited)
  /\ \A n \in DOMAIN evts : evts[n].kind = "Item" => evts[n].feed \in DOMAIN feeds
  /\ \A i \in DOMAIN feeds : FeedOk(evts, i, feeds[i])

(* Queues: what is sent comes last, what is taken was first.                *)
LEMMA Grows ==
  ASSUME NEW S, NEW q \in Seq(S), NEW e \in S
  PROVE  /\ Append(q, e) \in Seq(S) /\ Len(Append(q, e)) = Len(q) + 1 /\ Len(q) \in Nat
         /\ DOMAIN q = 1..Len(q) /\ DOMAIN Append(q, e) = 1..(Len(q) + 1)
         /\ \A i \in 1..Len(q) : Append(q, e)[i] = q[i]
         /\ Append(q, e)[Len(q) + 1] = e
  OBVIOUS

LEMMA Shrinks ==
  ASSUME NEW S, NEW q \in Seq(S), q # <<>>
  PROVE  /\ Tail(q) \in Seq(S) /\ Len(Tail(q)) = Len(q) - 1 /\ Len(q) \in Nat /\ Len(q) >= 1
         /\ DOMAIN q = 1..Len(q) /\ DOMAIN Tail(q) = 1..(Len(q) - 1)
         /\ \A i \in 1..(Len(q) - 1) : Tail(q)[i] = q[i + 1]
         /\ Head(q) = q[1] /\ Head(q) \in S
  OBVIOUS

LEMMA SentOther ==
  ASSUME NEW S, NEW q \in Seq(S), NEW e \in S, NEW K, e.kind \notin K
  PROVE  /\ \A i \in DOMAIN Append(q, e) :
              LastOf(Append(q, e), K, i) => LastOf(q, K, i) /\ i \in DOMAIN q /\ Append(q, e)[i] = q[i]
         /\ None(Append(q, e), K) => None(q, K)
<1> DEFINE r == Append(q, e)
           l == Len(q)
<1>1. /\ l \in Nat /\ DOMAIN q = 1..l /\ DOMAIN r = 1..(l + 1)
      /\ (\A i \in 1..l : r[i] = q[i]) /\ r[l + 1] = e
  BY Grows
<1> HIDE DEF r, l
<1>2. ASSUME NEW i \in DOMAIN r, LastOf(r, K, i)
      PROVE  LastOf(q, K, i) /\ i \in DOMAIN q /\ r[i] = q[i]
  <2>1. i \in 1..l  BY <1>1, <1>2 DEF LastOf
  <2>2. \A j \in 1..l : j \in DOMAIN r /\ r[j] = q[j]  BY <1>1
  <2> QED BY <1>1, <1>2, <2>1, <2>2 DEF LastOf
<1>3. None(r, K) => None(q, K)  BY <1>1 DEF None
<1> QED BY <1>2, <1>3 DEF r

LEMMA SentLast ==
  ASSUME NEW S, NEW q \in Seq(S), NEW e \in S, NEW K, e.kind \in K
  PROVE  /\ \A i \in DOMAIN Append(q, e) : LastOf(Append(q, e), K, i) => Append(q, e)[i] = e
         /\ ~None(Append(q, e), K)
<1> DEFINE r == Append(q, e)
           l == Len(q)
<1>1. /\ l \in Nat /\ DOMAIN q = 1..l /\ DOMAIN r = 1..(l + 1)
      /\ (\A i \in 1..l : r[i] = q[i]) /\ r[l + 1] = e
  BY Grows
<1> HIDE DEF r, l
<1>2. ASSUME NEW i \in DOMAIN r, LastOf(r, K, i) PROVE r[i] = e
  <2>1. i \in 1..(l + 1) /\ l + 1 \in DOMAIN r  BY <1>1
  <2>2. i = l + 1  BY <1>1, <1>2, <2>1 DEF LastOf
  <2> QED BY <1>1, <2>2
<1>3. ~None(r, K)  BY <1>1 DEF None
<1> QED BY <1>2, <1>3 DEF r

LEMMA TakenOne ==
  ASSUME NEW S, NEW q \in Seq(S), q # <<>>, NEW K
  PROVE  /\ \A i \in DOMAIN Tail(q) :
              LastOf(Tail(q), K, i) =>
                i + 1 \in DOMAIN q /\ LastOf(q, K, i + 1) /\ Tail(q)[i] = q[i + 1]
         /\ Head(q).kind \notin K /\ None(Tail(q), K) => None(q, K)
         /\ Head(q).kind \in K /\ None(Tail(q), K) =>
              1 \in DOMAIN q /\ LastOf(q, K, 1) /\ q[1] = Head(q)
<1> DEFINE r == Tail(q)
           l == Len(q)
           h == Head(q)
<1>1. /\ l \in Nat /\ l >= 1 /\ DOMAIN q = 1..l /\ DOMAIN r = 1..(l - 1)
      /\ (\A i \in 1..(l - 1) : r[i] = q[i + 1]) /\ h = q[1]
  BY Shrinks
<1> HIDE DEF r, l, h
<1>2. \A j \in DOMAIN q : j = 1 \/ (j - 1 \in DOMAIN r /\ r[j - 1] = q[j])
  <2> TAKE j \in DOMAIN q
  <2>1. j \in 1..l  BY <1>1
  <2>2. j # 1 => j - 1 \in 1..(l - 1) /\ (j - 1) + 1 = j  BY <1>1, <2>1
  <2> QED BY <1>1, <2>2
<1>3. ASSUME NEW i \in DOMAIN r, LastOf(r, K, i)
      PROVE  i + 1 \in DOMAIN q /\ LastOf(q, K, i + 1) /\ r[i] = q[i + 1]
  <2>1. i \in 1..(l - 1) /\ i + 1 \in DOMAIN q /\ r[i] = q[i + 1]  BY <1>1
  <2>2. ASSUME NEW j \in DOMAIN q, j > i + 1 PROVE q[j].kind \notin K
    <3>1. j \in Nat /\ j # 1 /\ j - 1 > i  BY <1>1, <2>1, <2>2
    <3> QED BY <1>2, <1>3, <3>1 DEF LastOf
  <2>3. q[i + 1].kind \in K  BY <1>3, <2>1 DEF LastOf
  <2> QED BY <2>1, <2>2, <2>3 DEF LastOf
<1>4. h.kind \notin K /\ None(r, K) => None(q, K)  BY <1>1, <1>2 DEF None
<1>5. h.kind \in K /\ None(r, K) => 1 \in DOMAIN q /\ LastOf(q, K, 1) /\ q[1] = h
  <2> SUFFICES ASSUME h.kind \in K, None(r, K) PROVE 1 \in DOMAIN q /\ LastOf(q, K, 1) /\ q[1] = h
    OBVIOUS
  <2>1. ASSUME NEW j \in DOMAIN q, j > 1 PROVE q[j].kind \notin K
    <3>1. j # 1  BY <1>1, <2>1
    <3> QED BY <1>2, <3>1 DEF None
  <2> QED BY <1>1, <2>1 DEF LastOf
<1> QED BY <1>3, <1>4, <1>5 DEF r, h

(* How the reports on the way go with what the TUI shows. *)
LEMMA ConnOther ==
  ASSUME NEW S, NEW q \in Seq(S), NEW e \in S, e.kind \notin Statuses, NEW c, NEW t, NEW v, ConnOk(q, c, t, v)
  PROVE  ConnOk(Append(q, e), c, t, v)
<1> DEFINE r == Append(q, e)
<1>1. /\ \A i \in DOMAIN r : LastOf(r, Statuses, i) => LastOf(q, Statuses, i) /\ i \in DOMAIN q /\ r[i] = q[i]
      /\ None(r, Statuses) => None(q, Statuses)
  BY SentOther
<1> HIDE DEF r
<1>2. ASSUME NEW i \in DOMAIN r, LastOf(r, Statuses, i) PROVE r[i].kind = "Connected" <=> t
  <2>1. LastOf(q, Statuses, i) /\ i \in DOMAIN q /\ r[i] = q[i]  BY <1>1, <1>2, Zenon
  <2>2. q[i].kind = "Connected" <=> t  BY <2>1, Zenon DEF ConnOk
  <2> QED BY <2>1, <2>2, Zenon
<1>3. None(r, Statuses) => (c => t) /\ (t => c \/ v)  BY <1>1, Zenon DEF ConnOk
<1> QED BY ONLY <1>2, <1>3, Zenon DEF ConnOk, r

LEMMA ConnTold ==
  ASSUME NEW S, NEW q \in Seq(S), NEW e \in S, e.kind \in Statuses, NEW c, NEW t, NEW v,
         e.kind = "Connected" <=> t
  PROVE  ConnOk(Append(q, e), c, t, v)
<1> DEFINE r == Append(q, e)
<1>1. /\ \A i \in DOMAIN r : LastOf(r, Statuses, i) => r[i] = e
      /\ ~None(r, Statuses)
  BY SentLast
<1> HIDE DEF r
<1>2. ASSUME NEW i \in DOMAIN r, LastOf(r, Statuses, i) PROVE r[i].kind = "Connected" <=> t
  <2>1. r[i] = e  BY <1>1, <1>2, Zenon
  <2> QED BY <2>1, Zenon
<1> QED BY ONLY <1>1, <1>2, Zenon DEF ConnOk, r

(* What the TUI shows after it takes e. *)
Shows(e, c, d) == IF e.kind \in Statuses THEN d <=> e.kind = "Connected" ELSE d <=> c

LEMMA ConnTaken ==
  \A S : \A q \in Seq(S) : q # <<>> =>
    \A c, t, v, d : ConnOk(q, c, t, v) /\ Shows(Head(q), c, d) => ConnOk(Tail(q), d, t, v)
<1> SUFFICES ASSUME NEW S, NEW q \in Seq(S), q # <<>>, NEW c, NEW t, NEW v, NEW d, ConnOk(q, c, t, v),
                    Shows(Head(q), c, d)
             PROVE  ConnOk(Tail(q), d, t, v)
  OBVIOUS
<1> DEFINE r == Tail(q)
           h == Head(q)
<1>1. /\ \A i \in DOMAIN r :
           LastOf(r, Statuses, i) => i + 1 \in DOMAIN q /\ LastOf(q, Statuses, i + 1) /\ r[i] = q[i + 1]
      /\ h.kind \notin Statuses /\ None(r, Statuses) => None(q, Statuses)
      /\ h.kind \in Statuses /\ None(r, Statuses) => 1 \in DOMAIN q /\ LastOf(q, Statuses, 1) /\ q[1] = h
  BY TakenOne
<1>d. IF h.kind \in Statuses THEN d <=> h.kind = "Connected" ELSE d <=> c  BY Zenon DEF Shows
<1> HIDE DEF r, h
<1>2. ASSUME NEW i \in DOMAIN r, LastOf(r, Statuses, i) PROVE r[i].kind = "Connected" <=> t
  <2>1. i + 1 \in DOMAIN q /\ LastOf(q, Statuses, i + 1) /\ r[i] = q[i + 1]  BY <1>1, <1>2, Zenon
  <2>2. q[i + 1].kind = "Connected" <=> t  BY <2>1, Zenon DEF ConnOk
  <2> QED BY <2>1, <2>2, Zenon
<1>3. None(r, Statuses) => (d => t) /\ (t => d \/ v)
  <2> SUFFICES ASSUME None(r, Statuses) PROVE (d => t) /\ (t => d \/ v)  OBVIOUS
  <2>1. CASE h.kind \in Statuses
    <3>1. 1 \in DOMAIN q /\ LastOf(q, Statuses, 1) /\ q[1] = h  BY <1>1, <2>1, Zenon
    <3>2. q[1].kind = "Connected" <=> t  BY <3>1, Zenon DEF ConnOk
    <3>3. h.kind = "Connected" <=> t  BY <3>1, <3>2, Zenon
    <3> QED BY <1>d, <2>1, <3>3, Zenon
  <2>2. CASE h.kind \notin Statuses
    <3>1. None(q, Statuses)  BY <1>1, <2>2, Zenon
    <3>2. (c => t) /\ (t => c \/ v)  BY <3>1, Zenon DEF ConnOk
    <3> QED BY <1>d, <2>2, <3>2, Zenon
  <2> QED BY <2>1, <2>2, Zenon
<1> QED BY ONLY <1>2, <1>3, Zenon DEF ConnOk, r

(* How the Reconnects on the way go with the address that the TUI shows. *)
LEMMA AddrOther ==
  ASSUME NEW S, NEW q \in Seq(S), NEW e \in S, e.kind \notin Reconnects, NEW a, NEW t, AddrOk(q, a, t)
  PROVE  AddrOk(Append(q, e), a, t) /\ (~None(q, Reconnects) <=> ~None(Append(q, e), Reconnects))
<1> DEFINE r == Append(q, e)
<1>1. /\ \A i \in DOMAIN r : LastOf(r, Reconnects, i) => LastOf(q, Reconnects, i) /\ i \in DOMAIN q /\ r[i] = q[i]
      /\ None(r, Reconnects) => None(q, Reconnects)
  BY SentOther
<1>2. None(q, Reconnects) => None(r, Reconnects)
  <2>1. \A i \in DOMAIN r : r[i] = e \/ (i \in DOMAIN q /\ r[i] = q[i])
    <3>1. /\ Len(q) \in Nat /\ DOMAIN q = 1..Len(q) /\ DOMAIN r = 1..(Len(q) + 1)
          /\ (\A i \in 1..Len(q) : r[i] = q[i]) /\ r[Len(q) + 1] = e
      BY Grows
    <3> HIDE DEF r
    <3> QED BY <3>1
  <2> HIDE DEF r
  <2> QED BY <2>1 DEF None
<1> HIDE DEF r
<1>3. AddrOk(r, a, t)  BY <1>1 DEF AddrOk
<1> QED BY <1>1, <1>2, <1>3 DEF r

LEMMA AddrAsked ==
  ASSUME NEW S, NEW q \in Seq(S), NEW e \in S, e.kind \in Reconnects, NEW t
  PROVE  AddrOk(Append(q, e), e.addr, t) /\ ~None(Append(q, e), Reconnects)
<1> DEFINE r == Append(q, e)
<1>1. (\A i \in DOMAIN r : LastOf(r, Reconnects, i) => r[i] = e) /\ ~None(r, Reconnects)
  BY SentLast
<1> HIDE DEF r
<1>2. AddrOk(r, e.addr, t)  BY <1>1 DEF AddrOk
<1> QED BY <1>1, <1>2 DEF r

LEMMA AddrTaken ==
  ASSUME NEW S, NEW q \in Seq(S), q # <<>>, NEW a, NEW t, AddrOk(q, a, t),
         NEW u, IF Head(q).kind \in Reconnects THEN u = Head(q).addr ELSE u = t
  PROVE  AddrOk(Tail(q), a, u)
<1> DEFINE r == Tail(q)
           h == Head(q)
<1>1. /\ \A i \in DOMAIN r :
           LastOf(r, Reconnects, i) => i + 1 \in DOMAIN q /\ LastOf(q, Reconnects, i + 1) /\ r[i] = q[i + 1]
      /\ h.kind \notin Reconnects /\ None(r, Reconnects) => None(q, Reconnects)
      /\ h.kind \in Reconnects /\ None(r, Reconnects) =>
           1 \in DOMAIN q /\ LastOf(q, Reconnects, 1) /\ q[1] = h
  BY TakenOne
<1>2. IF h.kind \in Reconnects THEN u = h.addr ELSE u = t  OBVIOUS
<1> HIDE DEF r, h
<1>3. ASSUME NEW i \in DOMAIN r, LastOf(r, Reconnects, i) PROVE r[i].addr = a
  <2>1. i + 1 \in DOMAIN q /\ LastOf(q, Reconnects, i + 1) /\ r[i] = q[i + 1]  BY <1>1, <1>3, Zenon
  <2>2. q[i + 1].addr = a  BY <2>1, Zenon DEF AddrOk
  <2> QED BY <2>1, <2>2
<1>4. None(r, Reconnects) => a = u  BY <1>1, <1>2 DEF AddrOk
<1> QED BY ONLY <1>3, <1>4 DEF AddrOk, r

(* What a queue of which one is taken, or that another is sent to, holds.   *)
LEMMA NoneTaken ==
  ASSUME NEW S, NEW q \in Seq(S), q # <<>>, NEW K, Head(q).kind \notin K
  PROVE  None(Tail(q), K) => None(q, K)
  BY TakenOne

(* One stream's items on the way: the numbers from the first that is not    *)
(* shown to the last that was sent, in order.                               *)
IsItemOf(e, i) == e.kind = "Item" /\ e.feed = i

LEMMA FeedOther ==
  ASSUME NEW S, NEW q \in Seq(S), NEW e \in S, NEW i, ~IsItemOf(e, i), NEW f \in Feeds, FeedOk(q, i, f)
  PROVE  FeedOk(Append(q, e), i, f)
<1> DEFINE r == Append(q, e)
           l == Len(q)
<1>1. /\ l \in Nat /\ DOMAIN q = 1..l /\ DOMAIN r = 1..(l + 1)
      /\ (\A n \in 1..l : r[n] = q[n]) /\ r[l + 1] = e
  BY Grows
<1> HIDE DEF r, l
<1>2. \A n \in DOMAIN r : ItemAt(r, n, i) => ItemAt(q, n, i) /\ n \in DOMAIN q /\ r[n] = q[n]
  BY <1>1 DEF ItemAt, IsItemOf
<1>3. \A n \in DOMAIN q : ItemAt(q, n, i) => ItemAt(r, n, i) /\ n \in DOMAIN r /\ r[n] = q[n]
  BY <1>1 DEF ItemAt
<1>4. FeedOk(r, i, f)  BY <1>2, <1>3 DEF FeedOk
<1> QED BY <1>4 DEF r

LEMMA FeedSent ==
  ASSUME NEW S, NEW q \in Seq(S), NEW e \in S, NEW i, NEW f \in Feeds, FeedOk(q, i, f),
         IsItemOf(e, i), e.number = f.sent + 1, NEW g, g.sent = f.sent + 1, g.shown = f.shown
  PROVE  FeedOk(Append(q, e), i, g)
<1> DEFINE r == Append(q, e)
           l == Len(q)
           a == f.shown
           b == f.sent
<1>1. /\ l \in Nat /\ DOMAIN q = 1..l /\ DOMAIN r = 1..(l + 1)
      /\ (\A n \in 1..l : r[n] = q[n]) /\ r[l + 1] = e
  BY Grows
<1>2. a \in Nat /\ b \in Nat /\ g.sent = b + 1 /\ g.shown = a /\ e.number = b + 1  BY DEF Feeds
<1>3. /\ a <= b
      /\ \A n \in DOMAIN q : ItemAt(q, n, i) => q[n].number \in (a + 1)..b
      /\ \A k \in (a + 1)..b : \E n \in DOMAIN q : ItemAt(q, n, i) /\ q[n].number = k
      /\ \A m, n \in DOMAIN q : ItemAt(q, m, i) /\ ItemAt(q, n, i) /\ m < n => q[m].number < q[n].number
  BY DEF FeedOk
<1> HIDE DEF r, l, a, b
<1>4. \A n \in DOMAIN r : ItemAt(r, n, i) => n = l + 1 \/ (ItemAt(q, n, i) /\ n \in DOMAIN q /\ r[n] = q[n])
  BY <1>1 DEF ItemAt
<1>5. \A n \in DOMAIN q : ItemAt(q, n, i) => ItemAt(r, n, i) /\ n \in DOMAIN r /\ r[n] = q[n]
  BY <1>1 DEF ItemAt
<1>6. l + 1 \in DOMAIN r /\ ItemAt(r, l + 1, i) /\ r[l + 1].number = b + 1
  BY <1>1, <1>2 DEF ItemAt, IsItemOf
<1>7. \A n \in DOMAIN r : ItemAt(r, n, i) => r[n].number \in (a + 1)..(b + 1)
  BY <1>2, <1>3, <1>4, <1>6
<1>8. ASSUME NEW k \in (a + 1)..(b + 1) PROVE \E n \in DOMAIN r : ItemAt(r, n, i) /\ r[n].number = k
  <2>1. CASE k = b + 1  BY <1>6, <2>1
  <2>2. CASE k # b + 1
    <3>1. k \in (a + 1)..b  BY <1>2, <2>2
    <3> QED BY <1>3, <1>5, <3>1
  <2> QED BY <2>1, <2>2
<1>9. ASSUME NEW m \in DOMAIN r, NEW n \in DOMAIN r, ItemAt(r, m, i), ItemAt(r, n, i), m < n
      PROVE  r[m].number < r[n].number
  <2>1. m \in 1..l /\ n \in 1..(l + 1)  BY <1>1, <1>9
  <2>2. ItemAt(q, m, i) /\ m \in DOMAIN q /\ r[m] = q[m] /\ q[m].number \in (a + 1)..b
    BY <1>1, <1>3, <1>4, <1>9, <2>1
  <2>3. CASE n = l + 1  BY <1>2, <1>6, <2>2, <2>3
  <2>4. CASE n # l + 1  BY <1>3, <1>4, <1>9, <2>2, <2>4
  <2> QED BY <2>3, <2>4
<1>10. g.shown <= g.sent  BY <1>2, <1>3
<1> QED BY ONLY <1>2, <1>7, <1>8, <1>9, <1>10 DEF FeedOk, r

LEMMA FeedTaken ==
  ASSUME NEW S, NEW q \in Seq(S), q # <<>>, NEW i, NEW f \in Feeds, FeedOk(q, i, f), NEW g, g.sent = f.sent,
         IF IsItemOf(Head(q), i) THEN g.shown = Head(q).number ELSE g.shown = f.shown
  PROVE  FeedOk(Tail(q), i, g)
<1> DEFINE r == Tail(q)
           l == Len(q)
           h == Head(q)
           a == f.shown
           b == f.sent
<1>1. /\ l \in Nat /\ l >= 1 /\ DOMAIN q = 1..l /\ DOMAIN r = 1..(l - 1)
      /\ (\A n \in 1..(l - 1) : r[n] = q[n + 1]) /\ h = q[1]
  BY Shrinks
<1>2. a \in Nat /\ b \in Nat /\ g.sent = b /\ (IF IsItemOf(h, i) THEN g.shown = h.number ELSE g.shown = a)
  BY DEF Feeds
<1>3. /\ a <= b
      /\ \A n \in DOMAIN q : ItemAt(q, n, i) => q[n].number \in (a + 1)..b
      /\ \A k \in (a + 1)..b : \E n \in DOMAIN q : ItemAt(q, n, i) /\ q[n].number = k
      /\ \A m, n \in DOMAIN q : ItemAt(q, m, i) /\ ItemAt(q, n, i) /\ m < n => q[m].number < q[n].number
  BY DEF FeedOk
<1> HIDE DEF r, l, h, a, b
<1>4. \A n \in DOMAIN r : n + 1 \in DOMAIN q /\ n + 1 > 1 /\ r[n] = q[n + 1] /\ n \in Nat
  BY <1>1
<1>5. \A n \in DOMAIN q : n = 1 \/ (n - 1 \in DOMAIN r /\ (n - 1) + 1 = n /\ r[n - 1] = q[n])
  <2> TAKE n \in DOMAIN q
  <2>1. n \in 1..l  BY <1>1
  <2>2. n # 1 => n - 1 \in 1..(l - 1) /\ (n - 1) + 1 = n  BY <1>1, <2>1
  <2> QED BY <1>1, <2>2
<1>6. \A n \in DOMAIN r : ItemAt(r, n, i) => ItemAt(q, n + 1, i)  BY <1>4 DEF ItemAt
<1>7. \A n \in DOMAIN q : ItemAt(q, n, i) /\ n # 1 => ItemAt(r, n - 1, i)  BY <1>5 DEF ItemAt
<1>8. ItemAt(q, 1, i) <=> IsItemOf(h, i)  BY <1>1 DEF ItemAt, IsItemOf
<1>9. \A m, n \in DOMAIN r : ItemAt(r, m, i) /\ ItemAt(r, n, i) /\ m < n => r[m].number < r[n].number
  <2> SUFFICES ASSUME NEW m \in DOMAIN r, NEW n \in DOMAIN r, ItemAt(r, m, i), ItemAt(r, n, i), m < n
               PROVE  r[m].number < r[n].number
    OBVIOUS
  <2>1. m + 1 < n + 1  BY <1>4
  <2> QED BY <1>3, <1>4, <1>6, <2>1
<1>10. CASE ~IsItemOf(h, i)
  <2>1. \A n \in DOMAIN r : ItemAt(r, n, i) => r[n].number \in (a + 1)..b  BY <1>3, <1>4, <1>6
  <2>2. ASSUME NEW k \in (a + 1)..b PROVE \E n \in DOMAIN r : ItemAt(r, n, i) /\ r[n].number = k
    <3>1. PICK n \in DOMAIN q : ItemAt(q, n, i) /\ q[n].number = k  BY <1>3
    <3>2. n # 1  BY <1>8, <1>10, <3>1
    <3> QED BY <1>5, <1>7, <3>1, <3>2
  <2>3. g.shown = a  BY <1>2, <1>10
  <2> QED BY ONLY <1>2, <1>3, <1>9, <2>1, <2>2, <2>3 DEF FeedOk, r
<1>11. CASE IsItemOf(h, i)
  <2>1. 1 \in DOMAIN q /\ ItemAt(q, 1, i) /\ q[1] = h /\ h.number \in (a + 1)..b
    BY <1>1, <1>3, <1>8, <1>11
  <2>2. h.number = a + 1
    <3>1. a + 1 \in (a + 1)..b  BY <1>2, <2>1
    <3>2. PICK n \in DOMAIN q : ItemAt(q, n, i) /\ q[n].number = a + 1  BY <1>3, <3>1
    <3>3. n = 1 \/ n > 1  BY <1>1
    <3>4. n > 1 => q[1].number < a + 1  BY <1>3, <2>1, <3>2
    <3> QED BY <1>2, <2>1, <3>2, <3>3, <3>4
  <2>3. \A n \in DOMAIN r : ItemAt(r, n, i) => r[n].number \in (a + 2)..b
    <3> SUFFICES ASSUME NEW n \in DOMAIN r, ItemAt(r, n, i) PROVE r[n].number \in (a + 2)..b
      OBVIOUS
    <3>1. n + 1 \in DOMAIN q /\ 1 < n + 1 /\ ItemAt(q, n + 1, i) /\ r[n] = q[n + 1]  BY <1>4, <1>6
    <3>2. q[n + 1].number \in (a + 1)..b /\ q[1].number < q[n + 1].number  BY <1>3, <2>1, <3>1
    <3> QED BY <1>2, <2>1, <2>2, <3>1, <3>2
  <2>4. ASSUME NEW k \in (a + 2)..b PROVE \E n \in DOMAIN r : ItemAt(r, n, i) /\ r[n].number = k
    <3>1. k \in (a + 1)..b /\ k # a + 1  BY <1>2
    <3>2. PICK n \in DOMAIN q : ItemAt(q, n, i) /\ q[n].number = k  BY <1>3, <3>1
    <3>3. n # 1  BY <2>1, <2>2, <3>1, <3>2
    <3> QED BY <1>5, <1>7, <3>2, <3>3
  <2>5. g.shown = a + 1 /\ g.shown + 1 = a + 2 /\ g.shown <= g.sent  BY <1>2, <1>11, <2>1, <2>2
  <2> QED BY ONLY <1>2, <1>9, <2>3, <2>4, <2>5 DEF FeedOk, r
<1> QED BY <1>10, <1>11

LEMMA FeedNew ==
  ASSUME NEW q, NEW i, \A n \in DOMAIN q : ~ItemAt(q, n, i), NEW f, f.sent = 0, f.shown = 0
  PROVE  FeedOk(q, i, f)
  BY DEF FeedOk

LEMMA TuiConstants ==
  /\ FirstServer \in Servers /\ CmdCap \in Nat /\ CmdCap > 0 /\ EvtCap \in Nat /\ EvtCap > 0
  /\ MaxKeys \in Nat /\ MaxItems \in Nat
  BY TuiAssumption

LEMMA CommandsAre ==
  /\ Call \in Commands /\ Call.kind = "Call"
  /\ \A a \in Servers :
       Reconnect(a) \in Commands /\ Reconnect(a).kind = "Reconnect" /\ Reconnect(a).addr = a
  /\ \A k \in {"rx", "tx"} :
       Subscribe(k) \in Commands /\ Subscribe(k).kind = "Subscribe" /\ Subscribe(k).what = k
  /\ \A c \in Commands : /\ c.kind \in {"Call", "Reconnect", "Subscribe"}
                         /\ c.kind = "Reconnect" => c.addr \in Servers
                         /\ c.kind = "Subscribe" => c.what \in {"rx", "tx"}
<1>1. Call.kind = "Call" /\ Call \in Commands  BY DEF Call, Commands
<1>2. \A a : Reconnect(a).kind = "Reconnect" /\ Reconnect(a).addr = a  BY DEF Reconnect
<1>3. \A k : Subscribe(k).kind = "Subscribe" /\ Subscribe(k).what = k  BY DEF Subscribe
<1>4. \A c \in Commands : \/ c = Call
                          \/ \E a \in Servers : c = Reconnect(a)
                          \/ \E k \in {"rx", "tx"} : c = Subscribe(k)
  BY Zenon DEF Commands
<1>5. /\ \A a \in Servers : Reconnect(a) \in Commands
      /\ \A k \in {"rx", "tx"} : Subscribe(k) \in Commands
  BY DEF Commands
<1>6. ASSUME NEW c \in Commands
      PROVE  /\ c.kind \in {"Call", "Reconnect", "Subscribe"}
             /\ c.kind = "Reconnect" => c.addr \in Servers
             /\ c.kind = "Subscribe" => c.what \in {"rx", "tx"}
  <2>1. CASE c = Call  BY <1>1, <2>1
  <2>2. ASSUME NEW a \in Servers, c = Reconnect(a)
        PROVE  c.kind = "Reconnect" /\ c.addr \in Servers
    BY <1>2, <2>2
  <2>3. ASSUME NEW k \in {"rx", "tx"}, c = Subscribe(k)
        PROVE  c.kind = "Subscribe" /\ c.what \in {"rx", "tx"}
    BY <1>3, <2>3
  <2> QED BY <1>4, <2>1, <2>2, <2>3
<1> QED BY <1>1, <1>2, <1>3, <1>5, <1>6

LEMMA EventsAre ==
  /\ \A k \in Statuses \cup {"Result"} : Status(k) \in Events /\ Status(k).kind = k /\ Status(k) # NoEvent
  /\ \A i, n \in Nat : /\ Item(i, n) \in Events /\ Item(i, n).kind = "Item"
                       /\ Item(i, n).feed = i /\ Item(i, n).number = n
  /\ \A e \in Events : /\ e.kind \in {"Connected", "Disconnected", "Result", "Item"}
                       /\ e.kind = "Item" => e.feed \in Nat /\ e.number \in Nat
<1>1. \A k : Status(k).kind = k  BY DEF Status
<1>2. NoEvent.kind = "none"  BY <1>1 DEF NoEvent
<1>3. \A i, n \in Nat : /\ Item(i, n) \in Items /\ Item(i, n).kind = "Item"
                       /\ Item(i, n).feed = i /\ Item(i, n).number = n
  BY DEF Item, Items
<1>4. \A e \in Items : e.kind = "Item" /\ e.feed \in Nat /\ e.number \in Nat  BY DEF Items
<1>5. \A e \in Events : e \in Items \/ \E k \in Statuses \cup {"Result"} : e = Status(k)
  BY Zenon DEF Events
<1>6. \A k \in Statuses \cup {"Result"} : Status(k) \in Events  BY DEF Events
<1>7. \A e \in Items : e \in Events  BY DEF Events
<1>8. \A k \in Statuses \cup {"Result"} : k \in {"Connected", "Disconnected", "Result", "Item"} /\ k # "Item" /\ k # "none"
  BY DEF Statuses
<1>9. \A k \in Statuses \cup {"Result"} : Status(k) # NoEvent  BY <1>1, <1>2, <1>8
<1>10. ASSUME NEW e \in Events
       PROVE  /\ e.kind \in {"Connected", "Disconnected", "Result", "Item"}
              /\ e.kind = "Item" => e.feed \in Nat /\ e.number \in Nat
  <2>1. CASE e \in Items  BY <1>4, <2>1
  <2>2. ASSUME NEW k \in Statuses \cup {"Result"}, e = Status(k)
        PROVE  e.kind \in {"Connected", "Disconnected", "Result", "Item"} /\ e.kind # "Item"
    BY <1>1, <1>8, <2>2
  <2> QED BY <1>5, <2>1, <2>2
<1> QED BY <1>1, <1>3, <1>6, <1>7, <1>9, <1>10

LEMMA KindsAre ==
  /\ "Connected" \in Statuses /\ "Disconnected" \in Statuses /\ "Result" \notin Statuses /\ "Item" \notin Statuses
  /\ "Call" \notin Reconnects /\ "Subscribe" \notin Reconnects /\ "Reconnect" \in Reconnects
  /\ "Connected" # "Disconnected"
  BY DEF Statuses, Reconnects

LEMMA NoneSent ==
  ASSUME NEW S, NEW q \in Seq(S), NEW e \in S, NEW K, ~None(q, K)
  PROVE  ~None(Append(q, e), K)
  BY SentOther, SentLast

LEMMA ConnWeaker ==
  ASSUME NEW q, NEW c, NEW t, NEW v, ConnOk(q, c, t, v), NEW w, v => w
  PROVE  ConnOk(q, c, t, w)
  BY Zenon DEF ConnOk

LEMMA ConnLeft ==
  ASSUME NEW q, NEW c, NEW t, NEW v, ConnOk(q, c, t, v), NEW w, w
  PROVE  ConnOk(q, FALSE, t, w)
  BY Zenon DEF ConnOk

LEMMA TuiInit_Inv == TuiInit => TuiInv
<1> SUFFICES ASSUME TuiInit PROVE TuiInv  OBVIOUS
<1>1. /\ app = [connected |-> FALSE, addr |-> FirstServer, editing |-> FALSE, subs |-> <<>>]
      /\ keys = 0 /\ cmds = <<>> /\ evts = <<>> /\ feeds = <<>> /\ refused = FALSE
      /\ asked = FirstServer /\ edited = FALSE
      /\ task = [phase |-> "connect", addr |-> app.addr, conn |-> 0, out |-> NoEvent]
  BY DEF TuiInit
<1>2. AppOk(app) /\ app.connected = FALSE /\ app.addr = FirstServer
  <2>1. /\ DOMAIN app = {"connected", "addr", "editing", "subs"} /\ app.connected = FALSE /\ app.addr = FirstServer
        /\ app.subs = <<>> /\ app.editing = FALSE
    BY <1>1
  <2>2. <<>> \in Seq({"rx", "tx"})  OBVIOUS
  <2> QED BY <2>1, <2>2, TuiConstants, Zenon DEF AppOk
<1>3. TaskOk(task) /\ task.phase = "connect" /\ task.addr = FirstServer /\ task.conn = 0
  <2>1. /\ DOMAIN task = {"phase", "addr", "conn", "out"} /\ task.phase = "connect"
        /\ task.addr = FirstServer /\ task.conn = 0 /\ task.out = NoEvent
    BY <1>1, <1>2
  <2>2. OutIs(task.phase, task.out)  BY <2>1 DEF OutIs
  <2> QED BY <2>1, <2>2, TuiConstants DEF TaskOk
<1>4. TuiShape  BY <1>1, <1>2, <1>3, TuiConstants DEF TuiShape
<1>5. ConnOk(evts, app.connected, Tells(task.phase), Leaving)
  <2>1. ~Tells(task.phase)  BY <1>3 DEF Tells
  <2>2. DOMAIN evts = {}  BY <1>1
  <2>3. ~app.connected  BY <1>2, Zenon
  <2> QED BY <2>1, <2>2, <2>3, Zenon DEF ConnOk
<1>6. AddrOk(cmds, asked, task.addr)
  <2>1. DOMAIN cmds = {}  BY <1>1
  <2> QED BY <1>1, <1>3, <2>1 DEF AddrOk
<1>7. DOMAIN evts = {} /\ DOMAIN feeds = {}  BY <1>1
<1>8. TypedOn(app.addr, asked, edited)  BY <1>1, <1>2, TuiConstants DEF TypedOn
<1> QED BY <1>4, <1>5, <1>6, <1>7, <1>8 DEF TuiInv

(* Keys. *)
LEMMA TuiParts ==
  ASSUME TuiInv
  PROVE  /\ AppOk(app) /\ keys \in 0..MaxKeys /\ TaskOk(task)
         /\ cmds \in Seq(Commands) /\ Len(cmds) <= CmdCap
         /\ evts \in Seq(Events) /\ Len(evts) <= EvtCap
         /\ feeds \in Seq(Feeds) /\ \A i \in DOMAIN feeds : feeds[i].conn \in 1..task.conn
         /\ ConnOk(evts, app.connected, Tells(task.phase), Leaving)
         /\ ~refused => AddrOk(cmds, asked, task.addr)
         /\ TypedOn(app.addr, asked, edited)
         /\ \A n \in DOMAIN evts : evts[n].kind = "Item" => evts[n].feed \in DOMAIN feeds
         /\ \A i \in DOMAIN feeds : FeedOk(evts, i, feeds[i])
  BY Zenon DEF TuiInv, TuiShape

LEMMA PressCommandKeeps ==
  ASSUME TuiInv, PressCommand
  PROVE  TuiInv'
<1>0. /\ keys < MaxKeys /\ keys' = keys + 1 /\ app' = app /\ evts' = evts /\ task' = task
      /\ feeds' = feeds
      /\ refused' = refused /\ asked' = asked /\ edited' = edited
      /\ cmds' = IF CmdRoom THEN Append(cmds, Call) ELSE cmds
  BY DEF PressCommand, TrySend, typing
<1>1. keys' \in 0..MaxKeys  BY <1>0, TuiParts, TuiConstants
<1>2. Call \in Commands /\ Call.kind \notin Reconnects  BY CommandsAre, KindsAre
<1>3. CASE CmdRoom
  <2>1. cmds' = Append(cmds, Call)  BY <1>0, <1>3
  <2>2. cmds' \in Seq(Commands) /\ Len(cmds') <= CmdCap
    BY <1>2, <1>3, <2>1, TuiParts, Grows, TuiConstants DEF CmdRoom
  <2>3. ~refused => AddrOk(cmds', asked, task.addr)
    BY <1>2, <2>1, TuiParts, AddrOther
  <2>4. Leaving => Leaving'  BY <1>0, <1>2, <2>1, TuiParts, NoneSent DEF Leaving
  <2>5. ConnOk(evts, app.connected, Tells(task.phase), Leaving')
    BY <2>4, TuiParts, ConnWeaker, Zenon
  <2> QED BY <1>0, <1>1, <2>2, <2>3, <2>5, TuiParts DEF TuiInv, TuiShape
<1>4. CASE ~CmdRoom
  <2>1. cmds' = cmds  BY <1>0, <1>4
  <2> QED BY <1>0, <1>1, <2>1 DEF TuiInv, TuiShape, Leaving
<1> QED BY <1>3, <1>4

(* Typing: only Enter concerns the task.                                    *)
LEMMA EditKeeps ==
  ASSUME TuiInv, NEW on \in BOOLEAN, app' = [app EXCEPT !.editing = on],
         UNCHANGED <<keys, cmds, evts, task, feeds, refused, typing>>
  PROVE  TuiInv'
<1>0. /\ keys' = keys /\ cmds' = cmds /\ evts' = evts /\ task' = task /\ feeds' = feeds
      /\ refused' = refused /\ asked' = asked /\ edited' = edited
  BY DEF typing
<1>1. /\ DOMAIN app = {"connected", "addr", "editing", "subs"} /\ app.connected \in BOOLEAN
      /\ app.addr \in Servers /\ app.subs \in Seq({"rx", "tx"})
  BY TuiParts, Zenon DEF AppOk
<1>2. /\ DOMAIN app' = {"connected", "addr", "editing", "subs"} /\ app'.connected = app.connected
      /\ app'.addr = app.addr /\ app'.subs = app.subs /\ app'.editing = on
  BY <1>1
<1>3. AppOk(app')  BY <1>1, <1>2, Zenon DEF AppOk
<1>4. TypedOn(app'.addr, asked, edited)  BY <1>2, TuiParts, Zenon
<1>5. ConnOk(evts, app'.connected, Tells(task.phase), Leaving)  BY <1>2, TuiParts, Zenon
<1> QED BY <1>0, <1>3, <1>4, <1>5, TuiParts DEF TuiInv, TuiShape, Leaving

LEMMA TypeAddressKeeps ==
  ASSUME TuiInv, NEW a \in Servers, TypeAddress(a)
  PROVE  TuiInv'
<1>0. /\ keys' = keys /\ cmds' = cmds /\ evts' = evts /\ task' = task /\ feeds' = feeds
      /\ refused' = refused /\ asked' = asked /\ edited' = TRUE
      /\ app' = [app EXCEPT !.addr = a]
  BY DEF TypeAddress
<1>1. /\ DOMAIN app = {"connected", "addr", "editing", "subs"} /\ app.connected \in BOOLEAN
      /\ app.editing \in BOOLEAN /\ app.subs \in Seq({"rx", "tx"})
  BY TuiParts, Zenon DEF AppOk
<1>2. /\ DOMAIN app' = {"connected", "addr", "editing", "subs"} /\ app'.connected = app.connected
      /\ app'.addr = a /\ app'.subs = app.subs /\ app'.editing = app.editing
  BY <1>0, <1>1
<1>3. AppOk(app')  BY <1>1, <1>2, Zenon DEF AppOk
<1>4. TypedOn(app'.addr, asked', edited')  BY <1>0, TuiParts DEF TypedOn
<1>5. ConnOk(evts, app'.connected, Tells(task.phase), Leaving)  BY <1>2, TuiParts, Zenon
<1> QED BY <1>0, <1>3, <1>4, <1>5, TuiParts DEF TuiInv, TuiShape, Leaving

LEMMA PressEnterKeeps ==
  ASSUME TuiInv, PressEnter
  PROVE  TuiInv'
<1> DEFINE a == app.addr
<1>0. /\ keys < MaxKeys /\ keys' = keys + 1 /\ evts' = evts /\ task' = task /\ feeds' = feeds
      /\ app' = [app EXCEPT !.editing = FALSE, !.connected = FALSE]
      /\ cmds' = IF CmdRoom THEN Append(cmds, Reconnect(a)) ELSE cmds
      /\ refused' = ~CmdRoom /\ asked' = a /\ edited' = FALSE
  BY DEF PressEnter, TrySend
<1>1. keys' \in 0..MaxKeys  BY <1>0, TuiParts, TuiConstants
<1>2. AppOk(app') /\ app'.connected = FALSE /\ app'.addr = a /\ a \in Servers
  <2>1. /\ DOMAIN app = {"connected", "addr", "editing", "subs"} /\ app.addr \in Servers
        /\ app.subs \in Seq({"rx", "tx"})
    BY TuiParts, Zenon DEF AppOk
  <2>2. /\ DOMAIN app' = {"connected", "addr", "editing", "subs"} /\ app'.connected = FALSE
        /\ app'.addr = app.addr /\ app'.subs = app.subs /\ app'.editing = FALSE
    BY <1>0, <2>1
  <2> QED BY <2>1, <2>2, Zenon DEF AppOk
<1> HIDE DEF a
<1>3. Reconnect(a) \in Commands /\ Reconnect(a).kind \in Reconnects /\ Reconnect(a).addr = a
  BY <1>2, CommandsAre, KindsAre
<1>4. Leaving' => ConnOk(evts, app'.connected, Tells(task.phase), Leaving')
  <2>1. Leaving' => ConnOk(evts, FALSE, Tells(task.phase), Leaving')
    BY TuiParts, ConnLeft, Zenon
  <2> QED BY <1>2, <2>1, Zenon
<1>7. TypedOn(app'.addr, asked', edited')  BY <1>0, <1>2 DEF TypedOn
<1>5. CASE CmdRoom
  <2>1. cmds' = Append(cmds, Reconnect(a))  BY <1>0, <1>5
  <2>2. cmds' \in Seq(Commands) /\ Len(cmds') <= CmdCap
    BY <1>3, <1>5, <2>1, TuiParts, Grows, TuiConstants DEF CmdRoom
  <2>3. AddrOk(cmds', asked', task.addr) /\ ~None(cmds', Reconnects)
    BY <1>0, <1>3, <2>1, TuiParts, AddrAsked
  <2>4. Leaving'  BY <2>3 DEF Leaving
  <2> QED BY <1>0, <1>1, <1>2, <1>4, <1>7, <2>2, <2>3, <2>4, TuiParts DEF TuiInv, TuiShape
<1>6. CASE ~CmdRoom
  <2>1. cmds' = cmds /\ refused'  BY <1>0, <1>6
  <2>2. Leaving'  BY <2>1 DEF Leaving
  <2> QED BY <1>0, <1>1, <1>2, <1>4, <1>7, <2>1, <2>2, TuiParts DEF TuiInv, TuiShape
<1> QED BY <1>5, <1>6

LEMMA SendSubscribeKeeps ==
  ASSUME TuiInv, SendSubscribe
  PROVE  TuiInv'
<1> DEFINE c == Subscribe(Head(app.subs))
<1>0. /\ app.subs # <<>> /\ CmdRoom /\ cmds' = Append(cmds, c)
      /\ app' = [app EXCEPT !.subs = Tail(app.subs)]
      /\ keys' = keys /\ evts' = evts /\ task' = task /\ feeds' = feeds
      /\ refused' = refused /\ asked' = asked /\ edited' = edited
  BY DEF SendSubscribe, Selecting, typing
<1>1. /\ DOMAIN app = {"connected", "addr", "editing", "subs"} /\ app.connected \in BOOLEAN
      /\ app.addr \in Servers /\ app.editing \in BOOLEAN /\ app.subs \in Seq({"rx", "tx"})
  BY TuiParts, Zenon DEF AppOk
<1>2. Tail(app.subs) \in Seq({"rx", "tx"}) /\ Head(app.subs) \in {"rx", "tx"}  BY <1>0, <1>1
<1>3. AppOk(app') /\ (app'.connected = app.connected) /\ app'.addr = app.addr
  <2>1. /\ DOMAIN app' = {"connected", "addr", "editing", "subs"} /\ app'.connected = app.connected
        /\ app'.addr = app.addr /\ app'.subs = Tail(app.subs) /\ app'.editing = app.editing
    BY <1>0, <1>1
  <2> QED BY <1>1, <1>2, <2>1, Zenon DEF AppOk
<1>4. c \in Commands /\ c.kind \notin Reconnects  BY <1>2, CommandsAre, KindsAre
<1> HIDE DEF c
<1>5. cmds' \in Seq(Commands) /\ Len(cmds') <= CmdCap
  BY <1>0, <1>4, TuiParts, Grows, TuiConstants DEF CmdRoom
<1>6. ~refused => AddrOk(cmds', asked, task.addr)  BY <1>0, <1>4, TuiParts, AddrOther
<1>7. Leaving => Leaving'  BY <1>0, <1>4, TuiParts, NoneSent DEF Leaving
<1>8. ConnOk(evts, app'.connected, Tells(task.phase), Leaving')
  <2>1. ConnOk(evts, app.connected, Tells(task.phase), Leaving')  BY <1>7, TuiParts, ConnWeaker, Zenon
  <2> QED BY <1>3, <2>1, Zenon
<1> QED BY <1>0, <1>3, <1>5, <1>6, <1>8, TuiParts DEF TuiInv, TuiShape

--------------------------------------------------------------------------------
(* The task. *)
LEMMA TaskIs ==
  ASSUME NEW t, DOMAIN t = {"phase", "addr", "conn", "out"}, NEW u, DOMAIN u = DOMAIN t,
         u.phase \in {"connect", "tellConnected", "tellOffline", "tellLeft", "serve", "offline"},
         u.addr \in Servers, u.conn \in Nat, OutIs(u.phase, u.out),
         u.phase \in {"tellConnected", "serve"} => u.conn > 0
  PROVE  TaskOk(u)
  BY DEF TaskOk

LEMMA ConnectKeeps ==
  ASSUME TuiInv, Connect
  PROVE  TuiInv'
<1>0. /\ task.phase = "connect" /\ app' = app /\ keys' = keys /\ cmds' = cmds /\ evts' = evts
      /\ feeds' = feeds
      /\ refused' = refused /\ asked' = asked /\ edited' = edited
      /\ \/ task' = [task EXCEPT !.phase = "tellConnected", !.conn = task.conn + 1,
                                 !.out = Status("Connected")]
         \/ task' = [task EXCEPT !.phase = "tellOffline", !.out = Status("Disconnected")]
  BY DEF Connect, typing
<1>1. /\ DOMAIN task = {"phase", "addr", "conn", "out"} /\ task.addr \in Servers /\ task.conn \in Nat
  BY TuiParts DEF TaskOk
<1>2. /\ TaskOk(task') /\ task'.addr = task.addr /\ task'.conn \in Nat /\ task'.conn >= task.conn
      /\ task'.phase \in {"tellConnected", "tellOffline"}
  <2>1. CASE task' = [task EXCEPT !.phase = "tellConnected", !.conn = task.conn + 1,
                                  !.out = Status("Connected")]
    <3>1. /\ DOMAIN task' = DOMAIN task /\ task'.phase = "tellConnected" /\ task'.addr = task.addr
          /\ task'.conn = task.conn + 1 /\ task'.out = Status("Connected")
      BY <1>1, <2>1
    <3>2. OutIs(task'.phase, task'.out)  BY <3>1 DEF OutIs
    <3>3. TaskOk(task')  BY <1>1, <3>1, <3>2, TaskIs
    <3> QED BY <1>1, <3>1, <3>3
  <2>2. CASE task' = [task EXCEPT !.phase = "tellOffline", !.out = Status("Disconnected")]
    <3>1. /\ DOMAIN task' = DOMAIN task /\ task'.phase = "tellOffline" /\ task'.addr = task.addr
          /\ task'.conn = task.conn /\ task'.out = Status("Disconnected")
      BY <1>1, <2>2
    <3>2. OutIs(task'.phase, task'.out)  BY <3>1 DEF OutIs
    <3>3. TaskOk(task')  BY <1>1, <3>1, <3>2, TaskIs
    <3> QED BY <1>1, <3>1, <3>3
  <2> QED BY <1>0, <2>1, <2>2
<1>3. ~Tells(task.phase) /\ ~Tells(task'.phase)  BY <1>0, <1>2 DEF Tells
<1>4. ConnOk(evts, app.connected, Tells(task'.phase), Leaving')
  <2>1. ConnOk(evts, app.connected, Tells(task.phase), Leaving)  BY TuiParts
  <2> QED BY <1>3, <2>1, Zenon DEF ConnOk
<1>5. \A i \in DOMAIN feeds : feeds[i].conn \in 1..task'.conn  BY <1>1, <1>2, TuiParts
<1> QED BY <1>0, <1>2, <1>4, <1>5, TuiParts DEF TuiInv, TuiShape

(* A stream or the poll starts. *)
LEMMA FeedStarts ==
  ASSUME TuiInv, NEW w \in {"statistics", "rx", "tx"}, task.conn > 0, feeds' = Append(feeds, NewFeed(w)),
         NEW c \in Nat, c >= task.conn
  PROVE  /\ feeds' \in Seq(Feeds) /\ \A i \in DOMAIN feeds' : feeds'[i].conn \in 1..c
         /\ DOMAIN feeds \subseteq DOMAIN feeds'
         /\ \A i \in DOMAIN feeds' : FeedOk(evts, i, feeds'[i])
<1> DEFINE f == NewFeed(w)
           l == Len(feeds)
<1>1. task.conn \in Nat  BY TuiParts DEF TaskOk
<1>2. f \in Feeds /\ f.conn = task.conn /\ f.sent = 0 /\ f.shown = 0  BY <1>1 DEF NewFeed, Feeds
<1>3. /\ l \in Nat /\ DOMAIN feeds = 1..l /\ DOMAIN feeds' = 1..(l + 1) /\ feeds' \in Seq(Feeds)
      /\ (\A n \in 1..l : feeds'[n] = feeds[n]) /\ feeds'[l + 1] = f
  <2> HIDE DEF f
  <2> QED BY <1>2, TuiParts, Grows DEF f
<1> HIDE DEF f, l
<1>4. ASSUME NEW i \in DOMAIN feeds' PROVE feeds'[i].conn \in 1..c
  <2>1. CASE i = l + 1  BY <1>1, <1>2, <1>3, <2>1
  <2>2. CASE i # l + 1
    <3>1. i \in DOMAIN feeds /\ feeds'[i] = feeds[i]  BY <1>3, <2>2
    <3>2. feeds[i].conn \in 1..task.conn  BY <3>1, TuiParts
    <3> QED BY <1>1, <3>1, <3>2
  <2> QED BY <2>1, <2>2
<1>5. ASSUME NEW i \in DOMAIN feeds' PROVE FeedOk(evts, i, feeds'[i])
  <2>1. CASE i = l + 1
    <3>1. i \notin DOMAIN feeds  BY <1>3, <2>1
    <3>2. \A n \in DOMAIN evts : ~ItemAt(evts, n, i)  BY <3>1, TuiParts DEF ItemAt
    <3> QED BY <1>2, <1>3, <2>1, <3>2, FeedNew
  <2>2. CASE i # l + 1
    <3>1. i \in DOMAIN feeds /\ feeds'[i] = feeds[i]  BY <1>3, <2>2
    <3> QED BY <3>1, TuiParts
  <2> QED BY <2>1, <2>2
<1>6. DOMAIN feeds \subseteq DOMAIN feeds'  BY <1>3
<1> QED BY <1>3, <1>4, <1>5, <1>6

(* A report that is sent. *)
LEMMA ReportSent ==
  ASSUME TuiInv, NEW e \in Events, e.kind # "Item", EvtRoom
  PROVE  /\ Append(evts, e) \in Seq(Events) /\ Len(Append(evts, e)) <= EvtCap
         /\ \A n \in DOMAIN Append(evts, e) :
              Append(evts, e)[n].kind = "Item" => Append(evts, e)[n].feed \in DOMAIN feeds
         /\ \A i : \A f \in Feeds : FeedOk(evts, i, f) => FeedOk(Append(evts, e), i, f)
<1> DEFINE r == Append(evts, e)
           l == Len(evts)
<1>1. /\ l \in Nat /\ DOMAIN evts = 1..l /\ DOMAIN r = 1..(l + 1) /\ r \in Seq(Events) /\ Len(r) = l + 1
      /\ (\A n \in 1..l : r[n] = evts[n]) /\ r[l + 1] = e
  BY TuiParts, Grows
<1>2. l + 1 <= EvtCap  BY <1>1, TuiConstants DEF EvtRoom
<1>3. \A i : \A f \in Feeds : FeedOk(evts, i, f) => FeedOk(r, i, f)
  BY TuiParts, FeedOther DEF IsItemOf
<1> HIDE DEF r, l
<1>4. \A n \in DOMAIN r : r[n].kind = "Item" => r[n].feed \in DOMAIN feeds
  BY <1>1, TuiParts
<1> QED BY <1>1, <1>2, <1>3, <1>4 DEF r

LEMMA EventSentKeeps ==
  ASSUME TuiInv, EventSent
  PROVE  TuiInv'
<1> DEFINE e == task.out
           p == task.phase
<1>0. /\ e # NoEvent /\ EvtRoom /\ evts' = Append(evts, e) /\ app' = app /\ keys' = keys /\ cmds' = cmds
      /\ refused' = refused /\ asked' = asked /\ edited' = edited
  BY DEF EventSent, typing
<1>1. /\ DOMAIN task = {"phase", "addr", "conn", "out"} /\ task.addr \in Servers /\ task.conn \in Nat
      /\ OutIs(p, e) /\ (p \in {"tellConnected", "serve"} => task.conn > 0)
      /\ p \in {"connect", "tellConnected", "tellOffline", "tellLeft", "serve", "offline"}
  BY TuiParts DEF TaskOk
<1>2. /\ p = "tellConnected" => e = Status("Connected")
      /\ p \in {"tellOffline", "tellLeft"} => e = Status("Disconnected")
      /\ p = "serve" => e = Status("Result")
      /\ p \in {"tellConnected", "tellOffline", "tellLeft", "serve"}
  BY <1>0, <1>1 DEF OutIs
<1> DEFINE next == CASE p = "tellConnected" -> "serve" [] p = "tellOffline" -> "offline"
                     [] p = "tellLeft" -> "connect" [] p = "serve" -> "serve"
<1>3. /\ task' = [task EXCEPT !.phase = next, !.out = NoEvent]
      /\ IF p = "tellConnected" THEN feeds' = Append(feeds, NewFeed("statistics")) ELSE feeds' = feeds
  <2>1. CASE p = "tellConnected"
    <3>1. /\ task' = [task EXCEPT !.phase = "serve", !.out = NoEvent]
          /\ feeds' = Append(feeds, NewFeed("statistics"))
      BY <2>1 DEF EventSent
    <3> QED BY <2>1, <3>1
  <2>2. CASE p = "tellOffline"
    <3>1. task' = [task EXCEPT !.phase = "offline", !.out = NoEvent] /\ feeds' = feeds
      BY <2>2 DEF EventSent
    <3> QED BY <2>2, <3>1
  <2>3. CASE p = "tellLeft"
    <3>1. task' = [task EXCEPT !.phase = "connect", !.out = NoEvent] /\ feeds' = feeds
      BY <2>3 DEF EventSent
    <3> QED BY <2>3, <3>1
  <2>4. CASE p = "serve"
    <3>1. task' = [task EXCEPT !.out = NoEvent] /\ feeds' = feeds
      BY <2>4 DEF EventSent
    <3>2. [task EXCEPT !.out = NoEvent] = [task EXCEPT !.phase = "serve", !.out = NoEvent]
      BY <1>1, <2>4
    <3> QED BY <2>4, <3>1, <3>2
  <2> QED BY <1>2, <2>1, <2>2, <2>3, <2>4
<1>4. /\ next \in {"serve", "offline", "connect"}
      /\ next = "serve" => p \in {"tellConnected", "serve"}
      /\ p \in {"tellConnected", "serve"} => next = "serve"
  BY <1>2
<1> HIDE DEF next
<1>5. /\ DOMAIN task' = DOMAIN task /\ task'.phase = next /\ task'.addr = task.addr
      /\ task'.conn = task.conn /\ task'.out = NoEvent
  BY <1>1, <1>3
<1>6. TaskOk(task')
  <2>1. OutIs(task'.phase, task'.out)  BY <1>4, <1>5 DEF OutIs
  <2>2. task'.phase \in {"tellConnected", "serve"} => task'.conn > 0  BY <1>1, <1>4, <1>5
  <2> QED BY <1>1, <1>4, <1>5, <2>1, <2>2, TaskIs
<1>7. /\ e \in Events /\ e.kind # "Item"
      /\ e.kind \in Statuses <=> p # "serve"
      /\ e.kind \in Statuses => (e.kind = "Connected" <=> next = "serve")
  <2>1. CASE p = "tellConnected"
    <3>1. e = Status("Connected")  BY <1>2, <2>1
    <3>2. e \in Events /\ e.kind = "Connected"  BY <3>1, EventsAre, KindsAre
    <3> QED BY <1>4, <2>1, <3>2, KindsAre
  <2>2. CASE p \in {"tellOffline", "tellLeft"}
    <3>1. e = Status("Disconnected")  BY <1>2, <2>2
    <3>2. e \in Events /\ e.kind = "Disconnected"  BY <3>1, EventsAre, KindsAre
    <3>3. next # "serve"  BY <1>4, <2>2
    <3> QED BY <2>2, <3>2, <3>3, KindsAre
  <2>3. CASE p = "serve"
    <3>1. e = Status("Result")  BY <1>2, <2>3
    <3>2. e \in Events /\ e.kind = "Result"  BY <3>1, EventsAre
    <3> QED BY <2>3, <3>2, KindsAre
  <2> QED BY <1>2, <2>1, <2>2, <2>3
<1> HIDE DEF e
<1>8. /\ evts' \in Seq(Events) /\ Len(evts') <= EvtCap
      /\ \A n \in DOMAIN evts' : evts'[n].kind = "Item" => evts'[n].feed \in DOMAIN feeds
      /\ \A i : \A f \in Feeds : FeedOk(evts, i, f) => FeedOk(evts', i, f)
  BY <1>0, <1>7, ReportSent
<1>9. ConnOk(evts', app.connected, Tells(task'.phase), Leaving')
  <2>1. Tells(task'.phase) <=> next = "serve"  BY <1>4, <1>5 DEF Tells
  <2>2. CASE p # "serve"
    <3>1. e.kind \in Statuses /\ (e.kind = "Connected" <=> Tells(task'.phase))  BY <1>7, <2>1, <2>2, Zenon
    <3>2. evts \in Seq(Events)  BY TuiParts
    <3>3. ConnOk(Append(evts, e), app.connected, Tells(task'.phase), Leaving')
      BY <1>7, <3>1, <3>2, ConnTold, Zenon
    <3> QED BY <1>0, <3>3, Zenon
  <2>3. CASE p = "serve"
    <3>1. e.kind \notin Statuses  BY <1>7, <2>3
    <3>2. evts \in Seq(Events) /\ ConnOk(evts, app.connected, Tells(task.phase), Leaving)  BY TuiParts
    <3>3. ConnOk(Append(evts, e), app.connected, Tells(task.phase), Leaving)
      BY <1>7, <3>1, <3>2, ConnOther, Zenon
    <3>4. task'.phase = "serve" /\ task.phase = "serve"  BY <1>4, <1>5, <2>3
    <3>5. Leaving => Leaving'
      <4>1. task.phase # "tellLeft"  BY <3>4
      <4> QED BY <1>0, <4>1, Zenon DEF Leaving
    <3>6. ConnOk(Append(evts, e), app.connected, Tells(task'.phase), Leaving)  BY <3>3, <3>4, Zenon
    <3>7. ConnOk(evts', app.connected, Tells(task'.phase), Leaving)  BY <1>0, <3>6, Zenon
    <3> QED BY ONLY <3>5, <3>7, Zenon DEF ConnOk
  <2> QED BY <2>2, <2>3
<1>10. /\ feeds' \in Seq(Feeds) /\ \A i \in DOMAIN feeds' : feeds'[i].conn \in 1..task'.conn
       /\ DOMAIN feeds \subseteq DOMAIN feeds'
       /\ \A i \in DOMAIN feeds' : FeedOk(evts, i, feeds'[i])
  <2>1. CASE p = "tellConnected"
    <3>1. task.conn > 0 /\ task'.conn \in Nat /\ task'.conn >= task.conn  BY <1>1, <1>5, <2>1
    <3>2. feeds' = Append(feeds, NewFeed("statistics"))  BY <1>3, <2>1
    <3> QED BY <3>1, <3>2, FeedStarts
  <2>2. CASE p # "tellConnected"
    <3>1. feeds' = feeds  BY <1>3, <2>2
    <3> QED BY <1>5, <3>1, TuiParts
  <2> QED BY <2>1, <2>2
<1>11. \A i \in DOMAIN feeds' : FeedOk(evts', i, feeds'[i])
  <2> TAKE i \in DOMAIN feeds'
  <2>1. feeds'[i] \in Feeds  BY <1>10, ElementOfSeq
  <2> QED BY <1>8, <1>10, <2>1
<1>12. \A n \in DOMAIN evts' : evts'[n].kind = "Item" => evts'[n].feed \in DOMAIN feeds'
  BY <1>8, <1>10
<1>13. ~refused => AddrOk(cmds, asked, task'.addr)  BY <1>5, TuiParts
<1> QED BY <1>0, <1>6, <1>8, <1>9, <1>10, <1>11, <1>12, <1>13, TuiParts DEF TuiInv, TuiShape

LEMMA TuiHandleKeeps ==
  ASSUME TuiInv, HandleEvent
  PROVE  TuiInv'
<1> DEFINE e == Head(evts)
<1>0. /\ evts # <<>> /\ evts' = Tail(evts) /\ keys' = keys /\ cmds' = cmds /\ task' = task
      /\ refused' = refused /\ asked' = asked /\ edited' = edited
  BY DEF HandleEvent, typing
<1>1. /\ evts' \in Seq(Events) /\ Len(evts') <= EvtCap /\ e \in Events
      /\ \A n \in DOMAIN evts' : evts'[n].kind = "Item" => evts'[n].feed \in DOMAIN feeds
      /\ e.kind = "Item" => e.feed \in DOMAIN feeds /\ e.number \in Nat
  <2> DEFINE r == Tail(evts)
             l == Len(evts)
  <2>1. /\ r \in Seq(Events) /\ Len(r) = l - 1 /\ l \in Nat /\ l >= 1 /\ DOMAIN evts = 1..l
        /\ DOMAIN r = 1..(l - 1) /\ (\A i \in 1..(l - 1) : r[i] = evts[i + 1])
        /\ e = evts[1] /\ e \in Events /\ l <= EvtCap
    BY <1>0, TuiParts, Shrinks
  <2>2. e.kind = "Item" => e.number \in Nat  BY <2>1, EventsAre
  <2> HIDE DEF r, l, e
  <2>3. \A n \in DOMAIN r : n + 1 \in DOMAIN evts /\ r[n] = evts[n + 1]  BY <2>1
  <2>4. \A n \in DOMAIN r : r[n].kind = "Item" => r[n].feed \in DOMAIN feeds  BY <2>3, TuiParts
  <2>5. e.kind = "Item" => e.feed \in DOMAIN feeds
    <3>1. 1 \in DOMAIN evts  BY <2>1
    <3>2. evts[1].kind = "Item" => evts[1].feed \in DOMAIN feeds  BY <3>1, TuiParts
    <3> QED BY <2>1, <3>2
  <2>6. Len(r) <= EvtCap  BY <2>1, TuiConstants
  <2> QED BY <1>0, <2>1, <2>2, <2>4, <2>5, <2>6 DEF r
<1>2. e.kind \in {"Connected", "Disconnected", "Result", "Item"}  BY <1>1, EventsAre
<1>3. /\ DOMAIN app = {"connected", "addr", "editing", "subs"} /\ app.connected \in BOOLEAN
      /\ app.addr \in Servers /\ app.editing \in BOOLEAN /\ app.subs \in Seq({"rx", "tx"})
  BY TuiParts, Zenon DEF AppOk
<1>4. /\ e.kind = "Connected" => /\ app' = [app EXCEPT !.connected = TRUE, !.subs = <<"rx", "tx">>]
                                 /\ feeds' = feeds
      /\ e.kind = "Disconnected" => app' = [app EXCEPT !.connected = FALSE] /\ feeds' = feeds
      /\ e.kind = "Item" => app' = app /\ feeds' = [feeds EXCEPT ![e.feed].shown = e.number]
      /\ e.kind = "Result" => app' = app /\ feeds' = feeds
  <2>1. CASE e.kind = "Connected"  BY <2>1 DEF HandleEvent
  <2>2. CASE e.kind = "Disconnected"  BY <2>2 DEF HandleEvent
  <2>3. CASE e.kind = "Item"  BY <2>3 DEF HandleEvent
  <2>4. CASE e.kind = "Result"  BY <2>4 DEF HandleEvent
  <2> QED BY <1>2, <2>1, <2>2, <2>3, <2>4
<1> HIDE DEF e
<1>5. /\ AppOk(app') /\ app'.addr = app.addr
      /\ IF e.kind \in Statuses THEN app'.connected <=> e.kind = "Connected"
         ELSE app'.connected <=> app.connected
  <2>1. CASE e.kind = "Connected"
    <3>1. /\ DOMAIN app' = {"connected", "addr", "editing", "subs"} /\ app'.connected = TRUE
          /\ app'.addr = app.addr /\ app'.subs = <<"rx", "tx">> /\ app'.editing = app.editing
      BY <1>3, <1>4, <2>1
    <3>2. <<"rx", "tx">> \in Seq({"rx", "tx"})  OBVIOUS
    <3> QED BY <1>3, <2>1, <3>1, <3>2, KindsAre, Zenon DEF AppOk
  <2>2. CASE e.kind = "Disconnected"
    <3>1. /\ DOMAIN app' = {"connected", "addr", "editing", "subs"} /\ app'.connected = FALSE
          /\ app'.addr = app.addr /\ app'.subs = app.subs /\ app'.editing = app.editing
      BY <1>3, <1>4, <2>2
    <3> QED BY <1>3, <2>2, <3>1, KindsAre, Zenon DEF AppOk
  <2>3. CASE e.kind \in {"Item", "Result"}
    <3>1. app' = app /\ e.kind \notin Statuses  BY <1>4, <2>3, KindsAre
    <3> QED BY <3>1, TuiParts, Zenon
  <2> QED BY <1>2, <2>1, <2>2, <2>3
<1>6. ConnOk(evts', app'.connected, Tells(task.phase), Leaving)
  <2>1. evts \in Seq(Events) /\ ConnOk(evts, app.connected, Tells(task.phase), Leaving)  BY TuiParts
  <2>2. Shows(Head(evts), app.connected, app'.connected)  BY <1>5, Zenon DEF e, Shows
  <2>3. ConnOk(Tail(evts), app'.connected, Tells(task.phase), Leaving)
    BY <1>0, <2>1, <2>2, ConnTaken, Zenon
  <2> QED BY <1>0, <2>3, Zenon
<1>7. (Leaving <=> Leaving')  BY <1>0, Zenon DEF Leaving
<1>8. ConnOk(evts', app'.connected, Tells(task.phase), Leaving')  BY ONLY <1>6, <1>7, Zenon DEF ConnOk
<1>9. /\ feeds' \in Seq(Feeds) /\ DOMAIN feeds' = DOMAIN feeds
      /\ \A i \in DOMAIN feeds : /\ feeds'[i].conn = feeds[i].conn /\ feeds'[i].sent = feeds[i].sent
                                 /\ IF IsItemOf(e, i) THEN feeds'[i].shown = e.number
                                    ELSE feeds'[i].shown = feeds[i].shown
  <2>1. CASE e.kind # "Item"
    <3>1. feeds' = feeds  BY <1>2, <1>4, <2>1
    <3> QED BY <2>1, <3>1, TuiParts DEF IsItemOf
  <2>2. CASE e.kind = "Item"
    <3> DEFINE k == e.feed
               g == [feeds[k] EXCEPT !.shown = e.number]
    <3>1. k \in DOMAIN feeds /\ e.number \in Nat  BY <1>1, <2>2
    <3>2. feeds \in Seq(Feeds) /\ feeds[k] \in Feeds  BY <3>1, TuiParts
    <3>3. /\ g \in Feeds /\ g.conn = feeds[k].conn /\ g.sent = feeds[k].sent /\ g.shown = e.number
      BY <3>1, <3>2 DEF Feeds
    <3>4. feeds' = [feeds EXCEPT ![k] = g]  BY <1>4, <2>2
    <3> HIDE DEF g
    <3>5. feeds' \in Seq(Feeds) /\ DOMAIN feeds' = DOMAIN feeds  BY <3>1, <3>2, <3>3, <3>4
    <3>6. feeds'[k] = g /\ \A i \in DOMAIN feeds : i # k => feeds'[i] = feeds[i]  BY <3>1, <3>2, <3>4
    <3>7. \A i : IsItemOf(e, i) <=> i = k  BY <2>2 DEF IsItemOf
    <3> HIDE DEF k
    <3> QED BY <3>3, <3>5, <3>6, <3>7
  <2> QED BY <2>1, <2>2
<1>10. ASSUME NEW i \in DOMAIN feeds' PROVE FeedOk(evts', i, feeds'[i]) /\ feeds'[i].conn \in 1..task.conn
  <2>1. feeds[i] \in Feeds /\ FeedOk(evts, i, feeds[i]) /\ feeds[i].conn \in 1..task.conn
    BY <1>9, TuiParts
  <2>2. IF IsItemOf(Head(evts), i) THEN feeds'[i].shown = Head(evts).number
        ELSE feeds'[i].shown = feeds[i].shown
    BY <1>9 DEF e
  <2>3. FeedOk(Tail(evts), i, feeds'[i])  BY <1>0, <1>9, <2>1, <2>2, TuiParts, FeedTaken
  <2> QED BY <1>0, <1>9, <2>1, <2>3
<1>11. ~refused => AddrOk(cmds, asked, task.addr)  BY <1>5, TuiParts
<1> QED BY <1>0, <1>1, <1>5, <1>8, <1>9, <1>10, <1>11, TuiParts DEF TuiInv, TuiShape

LEMMA CommandTaken ==
  ASSUME TuiInv, TakeCommand
  PROVE  /\ cmds # <<>> /\ cmds' = Tail(cmds)
         /\ cmds' \in Seq(Commands) /\ Len(cmds') <= CmdCap /\ Head(cmds) \in Commands
         /\ Head(cmds).kind \notin Reconnects => (None(cmds', Reconnects) => None(cmds, Reconnects))
<1>1. cmds # <<>> /\ cmds' = Tail(cmds)  BY DEF TakeCommand
<1>2. /\ Tail(cmds) \in Seq(Commands) /\ Len(Tail(cmds)) = Len(cmds) - 1 /\ Len(cmds) \in Nat
      /\ Len(cmds) <= CmdCap /\ Head(cmds) \in Commands
  BY <1>1, TuiParts, Shrinks
<1>3. Head(cmds).kind \notin Reconnects => (None(Tail(cmds), Reconnects) => None(cmds, Reconnects))
  BY <1>1, TuiParts, NoneTaken
<1> QED BY <1>1, <1>2, <1>3, TuiConstants

LEMMA ExecuteKeeps ==
  ASSUME TuiInv, Execute
  PROVE  TuiInv'
<1> DEFINE c == Head(cmds)
<1>0. /\ task.phase = "serve" /\ task.out = NoEvent /\ TakeCommand
      /\ app' = app /\ keys' = keys /\ evts' = evts /\ refused' = refused /\ asked' = asked /\ edited' = edited
  BY DEF Execute, typing
<1>1. /\ cmds # <<>> /\ cmds' = Tail(cmds)
      /\ cmds' \in Seq(Commands) /\ Len(cmds') <= CmdCap /\ c \in Commands
      /\ c.kind \notin Reconnects => (None(cmds', Reconnects) => None(cmds, Reconnects))
  BY <1>0, CommandTaken
<1>2. /\ c.kind \in {"Call", "Reconnect", "Subscribe"}
      /\ c.kind = "Reconnect" => c.addr \in Servers
      /\ c.kind = "Subscribe" => c.what \in {"rx", "tx"}
  BY <1>1, CommandsAre
<1>3. /\ DOMAIN task = {"phase", "addr", "conn", "out"} /\ task.addr \in Servers /\ task.conn \in Nat
      /\ task.conn > 0
  BY <1>0, TuiParts DEF TaskOk
<1>4. /\ c.kind = "Reconnect" =>
           /\ task' = [task EXCEPT !.phase = "tellLeft", !.addr = c.addr, !.out = Status("Disconnected")]
           /\ feeds' = feeds
      /\ c.kind = "Call" => task' = [task EXCEPT !.out = Status("Result")] /\ feeds' = feeds
      /\ c.kind = "Subscribe" => task' = task /\ feeds' = Append(feeds, NewFeed(c.what))
  <2>1. CASE c.kind = "Reconnect"  BY <2>1 DEF Execute, Leave
  <2>2. CASE c.kind = "Call"  BY <2>2 DEF Execute, CallAnswered
  <2>3. CASE c.kind = "Subscribe"  BY <2>3 DEF Execute
  <2> QED BY <1>2, <2>1, <2>2, <2>3
<1> HIDE DEF c
<1>5. /\ TaskOk(task') /\ task'.conn = task.conn
      /\ task'.phase \in {"serve", "tellLeft"}
      /\ IF c.kind = "Reconnect" THEN task'.addr = c.addr /\ task'.phase = "tellLeft"
         ELSE task'.addr = task.addr
  <2>1. CASE c.kind = "Reconnect"
    <3>1. /\ DOMAIN task' = DOMAIN task /\ task'.phase = "tellLeft" /\ task'.addr = c.addr
          /\ task'.conn = task.conn /\ task'.out = Status("Disconnected")
      BY <1>3, <1>4, <2>1
    <3>2. OutIs(task'.phase, task'.out)  BY <3>1 DEF OutIs
    <3>3. TaskOk(task')  BY <1>2, <1>3, <2>1, <3>1, <3>2, TaskIs
    <3> QED BY <2>1, <3>1, <3>3
  <2>2. CASE c.kind = "Call"
    <3>1. /\ DOMAIN task' = DOMAIN task /\ task'.phase = "serve" /\ task'.addr = task.addr
          /\ task'.conn = task.conn /\ task'.out = Status("Result")
      BY <1>0, <1>3, <1>4, <2>2
    <3>2. OutIs(task'.phase, task'.out)  BY <3>1 DEF OutIs
    <3>3. TaskOk(task')  BY <1>3, <3>1, <3>2, TaskIs
    <3> QED BY <2>2, <3>1, <3>3
  <2>3. CASE c.kind = "Subscribe"  BY <1>0, <1>4, <2>3, TuiParts
  <2> QED BY <1>2, <2>1, <2>2, <2>3
<1>6. Tells(task.phase) /\ Tells(task'.phase)  BY <1>0, <1>5 DEF Tells
<1>7. Leaving => Leaving'
  <2>1. CASE c.kind = "Reconnect"
    <3>1. task'.phase = "tellLeft"  BY <1>5, <2>1
    <3> QED BY <3>1, Zenon DEF Leaving
  <2>2. CASE c.kind # "Reconnect"
    <3>1. c.kind \notin Reconnects /\ task.phase # "tellLeft"  BY <1>0, <2>2 DEF Reconnects
    <3> QED BY <1>0, <1>1, <3>1, Zenon DEF Leaving
  <2> QED BY <2>1, <2>2
<1>8. ConnOk(evts, app.connected, Tells(task'.phase), Leaving')
  <2>1. ConnOk(evts, app.connected, Tells(task.phase), Leaving)  BY TuiParts
  <2> QED BY ONLY <1>6, <1>7, <2>1, Zenon DEF ConnOk
<1>9. ~refused => AddrOk(cmds', asked, task'.addr)
  <2> SUFFICES ASSUME ~refused PROVE AddrOk(cmds', asked, task'.addr)  OBVIOUS
  <2>1. IF c.kind \in Reconnects THEN task'.addr = c.addr ELSE task'.addr = task.addr
    BY <1>5 DEF Reconnects
  <2>2. AddrOk(cmds, asked, task.addr) /\ cmds \in Seq(Commands)  BY TuiParts
  <2> QED BY <1>1, <2>1, <2>2, AddrTaken DEF c
<1>10. /\ feeds' \in Seq(Feeds) /\ \A i \in DOMAIN feeds' : feeds'[i].conn \in 1..task'.conn
       /\ DOMAIN feeds \subseteq DOMAIN feeds'
       /\ \A i \in DOMAIN feeds' : FeedOk(evts, i, feeds'[i])
  <2>1. CASE c.kind = "Subscribe"
    <3>1. c.what \in {"statistics", "rx", "tx"}  BY <1>2, <2>1
    <3>2. feeds' = Append(feeds, NewFeed(c.what))  BY <1>4, <2>1
    <3> QED BY <1>3, <1>5, <3>1, <3>2, FeedStarts
  <2>2. CASE c.kind # "Subscribe"
    <3>1. feeds' = feeds  BY <1>2, <1>4, <2>2
    <3> QED BY <1>5, <3>1, TuiParts
  <2> QED BY <2>1, <2>2
<1>11. \A n \in DOMAIN evts : evts[n].kind = "Item" => evts[n].feed \in DOMAIN feeds'
  BY <1>10, TuiParts
<1> QED BY <1>0, <1>1, <1>5, <1>8, <1>9, <1>10, <1>11, TuiParts DEF TuiInv, TuiShape

LEMMA ExecuteOfflineKeeps ==
  ASSUME TuiInv, ExecuteOffline
  PROVE  TuiInv'
<1> DEFINE c == Head(cmds)
<1>0. /\ task.phase = "offline" /\ TakeCommand
      /\ task' = IF c.kind = "Reconnect" THEN [task EXCEPT !.phase = "connect", !.addr = c.addr] ELSE task
      /\ app' = app /\ keys' = keys /\ evts' = evts /\ feeds' = feeds
      /\ refused' = refused /\ asked' = asked /\ edited' = edited
  BY DEF ExecuteOffline, typing
<1>1. /\ cmds # <<>> /\ cmds' = Tail(cmds)
      /\ cmds' \in Seq(Commands) /\ Len(cmds') <= CmdCap /\ c \in Commands
  BY <1>0, CommandTaken
<1>2. c.kind = "Reconnect" => c.addr \in Servers  BY <1>1, CommandsAre
<1>3. /\ DOMAIN task = {"phase", "addr", "conn", "out"} /\ task.addr \in Servers /\ task.conn \in Nat
      /\ task.out = NoEvent
  BY <1>0, TuiParts DEF TaskOk, OutIs
<1> HIDE DEF c
<1>4. /\ TaskOk(task') /\ task'.conn = task.conn
      /\ task'.phase \in {"connect", "offline"}
      /\ IF c.kind = "Reconnect" THEN task'.addr = c.addr ELSE task'.addr = task.addr
  <2>1. CASE c.kind = "Reconnect"
    <3>1. /\ DOMAIN task' = DOMAIN task /\ task'.phase = "connect" /\ task'.addr = c.addr
          /\ task'.conn = task.conn /\ task'.out = NoEvent
      BY <1>0, <1>3, <2>1
    <3>2. OutIs(task'.phase, task'.out)  BY <3>1 DEF OutIs
    <3>3. TaskOk(task')  BY <1>2, <1>3, <2>1, <3>1, <3>2, TaskIs
    <3> QED BY <2>1, <3>1, <3>3
  <2>2. CASE c.kind # "Reconnect"  BY <1>0, <2>2, TuiParts
  <2> QED BY <2>1, <2>2
<1>5. ~Tells(task.phase) /\ ~Tells(task'.phase)  BY <1>0, <1>4 DEF Tells
<1>6. ConnOk(evts, app.connected, Tells(task'.phase), Leaving')
  <2>1. ConnOk(evts, app.connected, Tells(task.phase), Leaving)  BY TuiParts
  <2> QED BY <1>5, <2>1, Zenon DEF ConnOk
<1>7. ~refused => AddrOk(cmds', asked, task'.addr)
  <2> SUFFICES ASSUME ~refused PROVE AddrOk(cmds', asked, task'.addr)  OBVIOUS
  <2>1. IF c.kind \in Reconnects THEN task'.addr = c.addr ELSE task'.addr = task.addr
    BY <1>4 DEF Reconnects
  <2>2. AddrOk(cmds, asked, task.addr) /\ cmds \in Seq(Commands)  BY TuiParts
  <2> QED BY <1>1, <2>1, <2>2, AddrTaken DEF c
<1> QED BY <1>0, <1>1, <1>4, <1>6, <1>7, TuiParts DEF TuiInv, TuiShape

LEMMA FeedSendsKeeps ==
  ASSUME TuiInv, NEW k \in DOMAIN feeds, FeedSends(k)
  PROVE  TuiInv'
<1> DEFINE f == feeds[k]
           e == Item(k, f.sent + 1)
           g == [f EXCEPT !.sent = f.sent + 1]
           l == Len(evts)
<1>0. /\ EvtRoom /\ evts' = Append(evts, e) /\ feeds' = [feeds EXCEPT ![k] = g]
      /\ app' = app /\ keys' = keys /\ cmds' = cmds /\ task' = task /\ refused' = refused /\ asked' = asked /\ edited' = edited
  BY DEF FeedSends, typing
<1>1. feeds \in Seq(Feeds) /\ f \in Feeds /\ k \in Nat  BY TuiParts
<1>2. /\ g \in Feeds /\ g.conn = f.conn /\ g.sent = f.sent + 1 /\ g.shown = f.shown /\ f.sent \in Nat
  <2>1. ASSUME NEW h \in Feeds
        PROVE  LET d == [h EXCEPT !.sent = h.sent + 1]
               IN d \in Feeds /\ d.conn = h.conn /\ d.sent = h.sent + 1 /\ d.shown = h.shown /\ h.sent \in Nat
    BY DEF Feeds
  <2> HIDE DEF f
  <2> QED BY <1>1, <2>1
<1>3. /\ e \in Events /\ e.kind = "Item" /\ e.feed = k /\ e.number = f.sent + 1
  BY <1>1, <1>2, EventsAre
<1> HIDE DEF g, e
<1>4. /\ feeds' \in Seq(Feeds) /\ DOMAIN feeds' = DOMAIN feeds
      /\ feeds'[k] = g /\ \A i \in DOMAIN feeds : i # k => feeds'[i] = feeds[i]
  BY <1>0, <1>1, <1>2
<1>5. /\ l \in Nat /\ DOMAIN evts = 1..l /\ DOMAIN evts' = 1..(l + 1) /\ evts' \in Seq(Events)
      /\ Len(evts') = l + 1 /\ (\A n \in 1..l : evts'[n] = evts[n]) /\ evts'[l + 1] = e
  BY <1>0, <1>3, TuiParts, Grows
<1>6. Len(evts') <= EvtCap  BY <1>0, <1>5, TuiConstants DEF EvtRoom
<1>7. \A n \in DOMAIN evts' : evts'[n].kind = "Item" => evts'[n].feed \in DOMAIN feeds'
  <2> HIDE DEF l
  <2> TAKE n \in DOMAIN evts'
  <2>1. CASE n = l + 1  BY <1>3, <1>4, <1>5, <2>1
  <2>2. CASE n # l + 1
    <3>1. n \in DOMAIN evts /\ evts'[n] = evts[n]  BY <1>5, <2>2
    <3>2. evts[n].kind = "Item" => evts[n].feed \in DOMAIN feeds  BY <3>1, TuiParts
    <3> QED BY <1>4, <3>1, <3>2
  <2> QED BY <2>1, <2>2
<1>8. ASSUME NEW i \in DOMAIN feeds' PROVE FeedOk(evts', i, feeds'[i]) /\ feeds'[i].conn \in 1..task.conn
  <2>1. feeds[i] \in Feeds /\ FeedOk(evts, i, feeds[i]) /\ feeds[i].conn \in 1..task.conn
    BY <1>4, TuiParts
  <2>2. CASE i = k
    <3>1. FeedOk(Append(evts, e), k, g)
      BY <1>1, <1>2, <1>3, <2>1, <2>2, TuiParts, FeedSent DEF IsItemOf
    <3> QED BY <1>0, <1>2, <1>4, <2>1, <2>2, <3>1
  <2>3. CASE i # k
    <3>1. FeedOk(Append(evts, e), i, feeds[i])
      BY <1>3, <2>1, <2>3, TuiParts, FeedOther DEF IsItemOf
    <3> QED BY <1>0, <1>4, <2>1, <2>3, <3>1
  <2> QED BY <2>2, <2>3
<1>9. ConnOk(evts', app.connected, Tells(task.phase), Leaving')
  <2>1. e.kind \notin Statuses  BY <1>3, KindsAre
  <2>2. evts \in Seq(Events) /\ ConnOk(evts, app.connected, Tells(task.phase), Leaving)  BY TuiParts
  <2>3. ConnOk(Append(evts, e), app.connected, Tells(task.phase), Leaving)
    BY <1>3, <2>1, <2>2, ConnOther, Zenon
  <2>4. Leaving <=> Leaving'  BY <1>0, Zenon DEF Leaving
  <2>5. ConnOk(evts', app.connected, Tells(task.phase), Leaving)  BY <1>0, <2>3, Zenon
  <2> QED BY ONLY <2>4, <2>5, Zenon DEF ConnOk
<1> QED BY <1>0, <1>4, <1>5, <1>6, <1>7, <1>8, <1>9, TuiParts DEF TuiInv, TuiShape

LEMMA TuiInvStep ==
  ASSUME TuiInv, [TuiNext]_tuiVars
  PROVE  TuiInv'
<1>1. CASE PressCommand  BY <1>1, PressCommandKeeps
<1>2. ASSUME NEW a \in Servers, TypeAddress(a) PROVE TuiInv'  BY <1>2, TypeAddressKeeps
<1>7. CASE PressEnter  BY <1>7, PressEnterKeeps
<1>8. CASE StartEdit  BY <1>8, EditKeeps DEF StartEdit
<1>9. CASE PressEsc  BY <1>9, EditKeeps DEF PressEsc
<1>3. CASE TuiTurn  BY <1>3, TuiHandleKeeps, SendSubscribeKeeps DEF TuiTurn
<1>4. CASE TaskTurn
  BY <1>4, ConnectKeeps, EventSentKeeps, ExecuteKeeps, ExecuteOfflineKeeps DEF TaskTurn
<1>5. ASSUME NEW i \in DOMAIN feeds, Feed(i) PROVE TuiInv'
  <2>1. FeedSends(i)  BY <1>5 DEF Feed
  <2> QED BY <2>1, FeedSendsKeeps
<1>6. CASE UNCHANGED tuiVars
  BY <1>6 DEF tuiVars, typing, TuiInv, TuiShape, Leaving
<1> QED BY <1>1, <1>2, <1>3, <1>4, <1>5, <1>6, <1>7, <1>8, <1>9 DEF TuiNext

LEMMA TuiInvAlways == TuiSpec => []TuiInv
  BY TuiInit_Inv, TuiInvStep, PTL DEF TuiSpec

LEMMA InvShown == TuiInv => ShownAsItIs
<1> SUFFICES ASSUME TuiInv PROVE ShownAsItIs  OBVIOUS
<1>1. ViewAgrees
  <2> SUFFICES ASSUME Settled, ~refused
               PROVE  /\ app.connected <=> task.phase = "serve"
                      /\ asked = task.addr
                      /\ edited \/ app.addr = task.addr
    BY DEF ViewAgrees
  <2>1. None(evts, Statuses) /\ None(cmds, Reconnects)
    BY DEF Settled, Pending, None, Statuses, Reconnects
  <2>2. task.phase \in {"serve", "offline"}  BY DEF Settled
  <2>3. ~Leaving  BY <2>1, <2>2 DEF Leaving
  <2>4. Tells(task.phase) <=> task.phase = "serve"  BY <2>2 DEF Tells
  <2>5. ConnOk(evts, app.connected, Tells(task.phase), Leaving)  BY TuiParts
  <2>6. app.connected <=> task.phase = "serve"  BY <2>1, <2>3, <2>4, <2>5, Zenon DEF ConnOk
  <2>7. asked = task.addr  BY <2>1, TuiParts DEF AddrOk
  <2>8. edited \/ app.addr = task.addr  BY <2>7, TuiParts DEF TypedOn
  <2> QED BY <2>6, <2>7, <2>8, Zenon
<1>2. FeedsInOrder
  <2> SUFFICES ASSUME NEW i \in DOMAIN feeds
               PROVE  LET coming == {n \in DOMAIN evts : evts[n].kind = "Item" /\ evts[n].feed = i}
                      IN /\ feeds[i].shown <= feeds[i].sent
                         /\ {evts[n].number : n \in coming} = (feeds[i].shown + 1)..feeds[i].sent
                         /\ \A m, n \in coming : m < n => evts[m].number < evts[n].number
    BY DEF FeedsInOrder
  <2>1. FeedOk(evts, i, feeds[i])  BY TuiParts
  <2> QED BY <2>1 DEF FeedOk, ItemAt
<1> QED BY <1>1, <1>2 DEF ShownAsItIs

LEMMA InvTuiTypes == TuiInv => TuiTypeOK
<1> SUFFICES ASSUME TuiInv PROVE TuiTypeOK  OBVIOUS
<1>1. app.connected \in BOOLEAN /\ app.addr \in Servers /\ app.editing \in BOOLEAN
  BY TuiParts, Zenon DEF AppOk
<1>2. /\ task.phase \in {"connect", "tellConnected", "tellOffline", "tellLeft", "serve", "offline"}
      /\ task.addr \in Servers
  BY TuiParts, Zenon DEF TaskOk
<1> QED BY <1>1, <1>2, TuiParts, Zenon DEF TuiTypeOK

(* The channels keep within their capacities, and the task's phase and the  *)
(* streams' connections among their values.                                 *)
THEOREM TuiTypeCorrect == TuiSpec => []TuiTypeOK
BY TuiInvAlways, InvTuiTypes, PTL

(* Once no Reconnect and no report of one is under way, the TUI shows       *)
(* whether the task has a connection, the task has the address last asked   *)
(* for and the TUI shows it if nobody typed on it since, and every stream's *)
(* items come in order and none is skipped.                                 *)
THEOREM ShownAsItIsAlways == TuiSpec => []ShownAsItIs
BY TuiInvAlways, InvShown, PTL

--------------------------------------------------------------------------------
(****************************************************************************)
(* The round-trip measurement, for any number of transmissions, strays and  *)
(* damaged frames, and any capacity of the channels.                        *)
(*                                                                          *)
(* A transmission is in one place: on the air, in the client's channel, in  *)
(* the server's, or lost (PlacesOk), and all that were made but those read  *)
(* are in one, so a place is left for every wait that read nothing.  While  *)
(* no frame of another module was read the numbers of a probe and of its    *)
(* transmission go together (AllStraight), which is why a reply taken for   *)
(* its own is its own.                                                      *)
(****************************************************************************)
Counters == {"timeouts", "crc_errors", "foreign", "failed", "skipped", "alien"}
Measurements == [seq : Nat, send : Nat, at : Nat]
SendsIn(q) == Sends({q[i] : i \in DOMAIN q})
AirSends(a) == {p[2].send : p \in a}

InFlight(p) == IF p \in {"sending", "refused", "waiting"} THEN 1 ELSE 0

IperfShape ==
  /\ ph \in {"top", "sending", "refused", "waiting", "done"}
  /\ sends \in 0..MaxSends /\ seqn \in Nat
  /\ inbox \in ChannelOf(IperfFrames, InboxCap)
  /\ DOMAIN server = {"up", "rx"} /\ server.rx \in ChannelOf(IperfFrames, InboxCap)
  /\ air \subseteq {"server", "client"} \X IperfFrames
  /\ measured \in Seq(Measurements)
  /\ tally \in [Counters -> Nat]

Counted ==
  /\ seqn = Len(measured) + tally.timeouts + tally.crc_errors + tally.failed
            + tally.skipped + tally.alien
  /\ sends = seqn + tally.foreign + InFlight(ph)

EachOnce(q) ==
  \A i, j \in DOMAIN q : IsProbe(q[i]) /\ IsProbe(q[j]) /\ q[i].send = q[j].send => i = j

Apart(A, I, X, L) ==
  A \cap I = {} /\ A \cap X = {} /\ A \cap L = {} /\ I \cap X = {} /\ I \cap L = {} /\ X \cap L = {}

Places(A, I, X, L) == A \cup I \cup X \cup L

Fit(A, I, X, L, n, r) ==
  /\ Apart(A, I, X, L)
  /\ Places(A, I, X, L) \subseteq 1..n
  /\ Cardinality(Places(A, I, X, L)) + r = n

PlacesOk(a, i, x, L, n, r) ==
  /\ \A p, q \in a : p[2].send = q[2].send => p = q
  /\ \A p \in a : IsProbe(p[2])
  /\ EachOnce(i) /\ EachOnce(x)
  /\ \A k \in DOMAIN x : IsProbe(x[k])
  /\ Fit(AirSends(a), SendsIn(i), SendsIn(x), L, n, r)

Read == Len(measured) + tally.crc_errors + tally.skipped

Straight(f) == IsProbe(f) => f.seq + 1 = f.send

StraightIn(q) == \A k \in DOMAIN q : Straight(q[k])

AllStraight ==
  /\ \A p \in air : Straight(p[2])
  /\ StraightIn(inbox.buf) /\ StraightIn(server.rx.buf)

MeasuredOk ==
  /\ \A i, j \in DOMAIN measured : i < j => measured[i].seq < measured[j].seq
  /\ \A i \in DOMAIN measured : measured[i].seq < seqn
  /\ tally.foreign = 0 => \A i \in DOMAIN measured : measured[i].send = measured[i].at

IperfInv ==
  /\ IperfShape
  /\ Counted
  /\ PlacesOk(air, inbox.buf, server.rx.buf, lostEchoes, sends, Read)
  /\ tally.foreign = 0 => AllStraight
  /\ MeasuredOk

(* What a channel's messages are before and after one is taken or sent.     *)
LEMMA SendsOf ==
  /\ \A f, k : k \in Sends({f}) <=> IsProbe(f) /\ k = f.send
  /\ \A q, k : k \in SendsIn(q) <=> \E i \in DOMAIN q : IsProbe(q[i]) /\ q[i].send = k
  /\ Sends({}) = {} /\ SendsIn(<<>>) = {}
  BY DEF Sends, SendsIn

LEMMA QueueSent ==
  ASSUME NEW S, NEW q \in Seq(S), NEW m \in S, EachOnce(q), Sends({m}) \cap SendsIn(q) = {}
  PROVE  /\ EachOnce(Append(q, m)) /\ SendsIn(Append(q, m)) = SendsIn(q) \cup Sends({m})
         /\ \A i \in DOMAIN Append(q, m) : Append(q, m)[i] = m \/ \E j \in DOMAIN q : Append(q, m)[i] = q[j]
<1> DEFINE r == Append(q, m)
           l == Len(q)
<1>1. /\ l \in Nat /\ DOMAIN q = 1..l /\ DOMAIN r = 1..(l + 1)
      /\ (\A i \in 1..l : r[i] = q[i]) /\ r[l + 1] = m
  OBVIOUS
<1> HIDE DEF r, l
<1>2. \A i \in DOMAIN q : IsProbe(q[i]) => ~(IsProbe(m) /\ q[i].send = m.send)
  <2> TAKE i \in DOMAIN q
  <2> HAVE IsProbe(q[i])
  <2>1. q[i].send \in SendsIn(q)  BY SendsOf
  <2>2. IsProbe(m) => m.send \in Sends({m})  BY SendsOf
  <2> QED BY <2>1, <2>2
<1>3. EachOnce(r)  BY <1>1, <1>2 DEF EachOnce
<1>4. SendsIn(r) = SendsIn(q) \cup Sends({m})
  <2>1. ASSUME NEW k \in SendsIn(r) PROVE k \in SendsIn(q) \cup Sends({m})
    <3>1. PICK i \in DOMAIN r : IsProbe(r[i]) /\ r[i].send = k  BY <2>1, SendsOf
    <3>2. CASE i = l + 1  BY <1>1, <3>1, <3>2, SendsOf
    <3>3. CASE i # l + 1
      <4>1. i \in DOMAIN q /\ r[i] = q[i]  BY <1>1, <3>3
      <4> QED BY <3>1, <4>1, SendsOf
    <3> QED BY <3>2, <3>3
  <2>2. ASSUME NEW k \in SendsIn(q) PROVE k \in SendsIn(r)
    <3>1. PICK i \in DOMAIN q : IsProbe(q[i]) /\ q[i].send = k  BY <2>2, SendsOf
    <3>2. i \in DOMAIN r /\ r[i] = q[i]  BY <1>1
    <3> QED BY <3>1, <3>2, SendsOf
  <2>3. ASSUME NEW k \in Sends({m}) PROVE k \in SendsIn(r)
    <3>1. IsProbe(m) /\ k = m.send  BY <2>3, SendsOf
    <3>2. l + 1 \in DOMAIN r /\ r[l + 1] = m  BY <1>1
    <3> QED BY <3>1, <3>2, SendsOf
  <2> QED BY <2>1, <2>2, <2>3
<1>5. \A i \in DOMAIN r : r[i] = m \/ \E j \in DOMAIN q : r[i] = q[j]
  <2> TAKE i \in DOMAIN r
  <2>1. CASE i = l + 1  BY <1>1, <2>1
  <2>2. CASE i # l + 1
    <3>1. i \in DOMAIN q /\ r[i] = q[i]  BY <1>1, <2>2
    <3> QED BY <3>1
  <2> QED BY <2>1, <2>2
<1> QED BY <1>3, <1>4, <1>5 DEF r

LEMMA QueueTaken ==
  ASSUME NEW S, NEW q \in Seq(S), q # <<>>, EachOnce(q)
  PROVE  /\ EachOnce(Tail(q)) /\ SendsIn(q) = SendsIn(Tail(q)) \cup Sends({Head(q)})
         /\ SendsIn(Tail(q)) \cap Sends({Head(q)}) = {}
         /\ \A i \in DOMAIN Tail(q) : \E j \in DOMAIN q : Tail(q)[i] = q[j]
         /\ 1 \in DOMAIN q /\ Head(q) = q[1] /\ Head(q) \in S
<1> DEFINE r == Tail(q)
           l == Len(q)
           h == Head(q)
<1>1. /\ l \in Nat /\ l >= 1 /\ DOMAIN q = 1..l /\ DOMAIN r = 1..(l - 1)
      /\ (\A i \in 1..(l - 1) : r[i] = q[i + 1]) /\ h = q[1] /\ h \in S
  OBVIOUS
<1> HIDE DEF r, l, h
<1>2. 1 \in DOMAIN q /\ \A i \in DOMAIN r : i + 1 \in DOMAIN q /\ i + 1 # 1 /\ r[i] = q[i + 1] /\ i \in Nat
  BY <1>1
<1>3. \A j \in DOMAIN q : j = 1 \/ (j - 1 \in DOMAIN r /\ r[j - 1] = q[j])
  <2> TAKE j \in DOMAIN q
  <2>1. j \in 1..l  BY <1>1
  <2>2. j # 1 => j - 1 \in 1..(l - 1) /\ (j - 1) + 1 = j  BY <1>1, <2>1
  <2> QED BY <1>1, <2>2
<1>4. EachOnce(r)
  <2> SUFFICES ASSUME NEW i \in DOMAIN r, NEW j \in DOMAIN r, IsProbe(r[i]), IsProbe(r[j]), r[i].send = r[j].send
               PROVE  i = j
    BY DEF EachOnce
  <2>1. i + 1 = j + 1  BY <1>2 DEF EachOnce
  <2> QED BY <1>2, <2>1
<1>5. SendsIn(r) \cap Sends({h}) = {}
  <2> SUFFICES ASSUME NEW k \in SendsIn(r), k \in Sends({h}) PROVE FALSE  OBVIOUS
  <2>1. PICK i \in DOMAIN r : IsProbe(r[i]) /\ r[i].send = k  BY SendsOf
  <2>2. IsProbe(h) /\ h.send = k  BY SendsOf
  <2>3. i + 1 = 1  BY <1>1, <1>2, <2>1, <2>2 DEF EachOnce
  <2> QED BY <1>2, <2>3
<1>6. SendsIn(q) = SendsIn(r) \cup Sends({h})
  <2>1. ASSUME NEW k \in SendsIn(q) PROVE k \in SendsIn(r) \cup Sends({h})
    <3>1. PICK j \in DOMAIN q : IsProbe(q[j]) /\ q[j].send = k  BY <2>1, SendsOf
    <3>2. CASE j = 1  BY <1>1, <3>1, <3>2, SendsOf
    <3>3. CASE j # 1
      <4>1. j - 1 \in DOMAIN r /\ r[j - 1] = q[j]  BY <1>3, <3>3
      <4> QED BY <3>1, <4>1, SendsOf
    <3> QED BY <3>2, <3>3
  <2>2. ASSUME NEW k \in SendsIn(r) PROVE k \in SendsIn(q)
    <3>1. PICK i \in DOMAIN r : IsProbe(r[i]) /\ r[i].send = k  BY <2>2, SendsOf
    <3> QED BY <1>2, <3>1, SendsOf
  <2>3. ASSUME NEW k \in Sends({h}) PROVE k \in SendsIn(q)
    <3>1. IsProbe(h) /\ k = h.send  BY <2>3, SendsOf
    <3> QED BY <1>1, <1>2, <3>1, SendsOf
  <2> QED BY <2>1, <2>2, <2>3
<1>7. \A i \in DOMAIN r : \E j \in DOMAIN q : r[i] = q[j]  BY <1>2
<1> QED BY <1>1, <1>2, <1>4, <1>5, <1>6, <1>7 DEF r, h

LEMMA PublishedPlace ==
  ASSUME NEW S, NEW n \in Nat \ {0}, NEW ch \in ChannelOf(S, n), NEW m \in S, EachOnce(ch.buf),
         Sends({m}) \cap SendsIn(ch.buf) = {}
  PROVE  LET c == Published(ch, n, m)
             O == Sends(Overwritten(ch, n))
         IN /\ c \in ChannelOf(S, n) /\ EachOnce(c.buf)
            /\ O \subseteq SendsIn(ch.buf) /\ SendsIn(c.buf) = (SendsIn(ch.buf) \ O) \cup Sends({m})
            /\ \A i \in DOMAIN c.buf : c.buf[i] = m \/ \E j \in DOMAIN ch.buf : c.buf[i] = ch.buf[j]
<1> DEFINE c == Published(ch, n, m)
           O == Sends(Overwritten(ch, n))
           b == ch.buf
<1>1. c \in ChannelOf(S, n)  BY PublishedTyped
<1>2. b \in Seq(S) /\ ch \in [buf : Seq(S), lagged : BOOLEAN]  BY DEF ChannelOf
<1>3. CASE Full(ch, n)
  <2>1. c.buf = Append(Tail(b), m) /\ Overwritten(ch, n) = {Head(b)}  BY <1>3 DEF Published, Overwritten
  <2>2. b # <<>>  BY <1>2, <1>3 DEF Full
  <2> HIDE DEF b
  <2>3. /\ EachOnce(Tail(b)) /\ SendsIn(b) = SendsIn(Tail(b)) \cup Sends({Head(b)})
        /\ SendsIn(Tail(b)) \cap Sends({Head(b)}) = {}
        /\ \A i \in DOMAIN Tail(b) : \E j \in DOMAIN b : Tail(b)[i] = b[j]
    BY <1>2, <2>2, QueueTaken DEF b
  <2>4. Tail(b) \in Seq(S)  BY <1>2, <2>2
  <2>5. /\ EachOnce(c.buf) /\ SendsIn(c.buf) = SendsIn(Tail(b)) \cup Sends({m})
        /\ \A i \in DOMAIN c.buf : c.buf[i] = m \/ \E j \in DOMAIN Tail(b) : c.buf[i] = Tail(b)[j]
    <3> DEFINE t == Tail(b)
    <3>1. Sends({m}) \cap SendsIn(t) = {}  BY <2>3 DEF b
    <3>2. t \in Seq(S) /\ EachOnce(t) /\ c.buf = Append(t, m)  BY <2>1, <2>3, <2>4
    <3> HIDE DEF c, t
    <3>3. /\ EachOnce(Append(t, m)) /\ SendsIn(Append(t, m)) = SendsIn(t) \cup Sends({m})
          /\ \A i \in DOMAIN Append(t, m) :
               Append(t, m)[i] = m \/ \E j \in DOMAIN t : Append(t, m)[i] = t[j]
      BY <3>1, <3>2, QueueSent
    <3>4. /\ EachOnce(c.buf) /\ SendsIn(c.buf) = SendsIn(t) \cup Sends({m})
          /\ \A i \in DOMAIN c.buf : c.buf[i] = m \/ \E j \in DOMAIN t : c.buf[i] = t[j]
      BY <3>2, <3>3
    <3> QED BY <3>4 DEF t
  <2>6. O = Sends({Head(b)})  BY <2>1
  <2>7. Sends({m}) \cap SendsIn(b) = {}  BY DEF b
  <2> HIDE DEF c, O
  <2>8. O \subseteq SendsIn(b) /\ SendsIn(c.buf) = (SendsIn(b) \ O) \cup Sends({m})
    BY <2>3, <2>5, <2>6, <2>7
  <2>9. \A i \in DOMAIN c.buf : c.buf[i] = m \/ \E j \in DOMAIN b : c.buf[i] = b[j]
    BY <2>3, <2>5
  <2> QED BY <1>1, <2>5, <2>8, <2>9 DEF b, c, O
<1>4. CASE ~Full(ch, n)
  <2>1. c.buf = Append(b, m) /\ Overwritten(ch, n) = {}  BY <1>2, <1>4 DEF Published, Overwritten
  <2>2. O = {}  BY <2>1, SendsOf
  <2>3. /\ EachOnce(c.buf) /\ SendsIn(c.buf) = SendsIn(b) \cup Sends({m})
        /\ \A i \in DOMAIN c.buf : c.buf[i] = m \/ \E j \in DOMAIN b : c.buf[i] = b[j]
    <3>1. b \in Seq(S) /\ EachOnce(b) /\ Sends({m}) \cap SendsIn(b) = {}  BY <1>2
    <3> HIDE DEF b, c
    <3>2. /\ EachOnce(Append(b, m)) /\ SendsIn(Append(b, m)) = SendsIn(b) \cup Sends({m})
          /\ \A i \in DOMAIN Append(b, m) :
               Append(b, m)[i] = m \/ \E j \in DOMAIN b : Append(b, m)[i] = b[j]
      BY <3>1, QueueSent
    <3> QED BY <2>1, <3>2
  <2> HIDE DEF b, c, O
  <2> QED BY <1>1, <2>2, <2>3 DEF b, c, O
<1> QED BY <1>3, <1>4

(* The frames on the air, by the transmission they carry.                   *)
LEMMA AirLeft ==
  ASSUME NEW a, NEW p \in a, \A q, s \in a : q[2].send = s[2].send => q = s
  PROVE  /\ AirSends(a \ {p}) = AirSends(a) \ {p[2].send}
         /\ p[2].send \in AirSends(a)
BY DEF AirSends

LEMMA AirJoined ==
  ASSUME NEW a, NEW p, \A q, s \in a : q[2].send = s[2].send => q = s,
         p[2].send \notin AirSends(a)
  PROVE  /\ AirSends(a \cup {p}) = AirSends(a) \cup {p[2].send}
         /\ \A q, s \in a \cup {p} : q[2].send = s[2].send => q = s
BY DEF AirSends

(* A transmission is in one place, and it is counted wherever it goes.      *)
LEMMA FitAll ==
  ASSUME NEW A, NEW I, NEW X, NEW L, NEW n \in Nat, NEW r \in Nat, Fit(A, I, X, L, n, r)
  PROVE  /\ IsFiniteSet(Places(A, I, X, L)) /\ Cardinality(Places(A, I, X, L)) \in Nat
         /\ n + 1 \notin Places(A, I, X, L)
<1>1. IsFiniteSet(1..n)  BY FS_Interval
<1>2. IsFiniteSet(Places(A, I, X, L))  BY <1>1, FS_Subset DEF Fit
<1>3. n + 1 \notin 1..n  OBVIOUS
<1> QED BY <1>2, <1>3, FS_CardinalityType DEF Fit

LEMMA FitSent ==
  ASSUME NEW A, NEW I, NEW X, NEW L, NEW n \in Nat, NEW r \in Nat, Fit(A, I, X, L, n, r)
  PROVE  /\ Fit(A \cup {n + 1}, I, X, L, n + 1, r) /\ Fit(A, I, X, L \cup {n + 1}, n + 1, r)
         /\ n + 1 \notin A
<1> DEFINE U == Places(A, I, X, L)
           W == U \cup {n + 1}
<1>1. IsFiniteSet(U) /\ Cardinality(U) \in Nat /\ n + 1 \notin U  BY FitAll
<1>2. Cardinality(W) = Cardinality(U) + 1
  <2> HIDE DEF U
  <2> QED BY <1>1, FS_AddElement
<1>3. Cardinality(W) + r = n + 1  BY <1>1, <1>2 DEF Fit
<1>4. W \subseteq 1..(n + 1)  BY DEF Fit
<1>5. /\ Places(A \cup {n + 1}, I, X, L) = W /\ Places(A, I, X, L \cup {n + 1}) = W
  BY DEF Places
<1>6. /\ Apart(A \cup {n + 1}, I, X, L) /\ Apart(A, I, X, L \cup {n + 1}) /\ n + 1 \notin A
  BY <1>1 DEF Fit, Apart, Places
<1> HIDE DEF W
<1> QED BY <1>3, <1>4, <1>5, <1>6 DEF Fit

LEMMA FitRead ==
  ASSUME NEW A, NEW I, NEW X, NEW L, NEW n \in Nat, NEW r \in Nat, Fit(A, I, X, L, n, r),
         NEW k \in I
  PROVE  Fit(A, I \ {k}, X, L, n, r + 1)
<1> DEFINE U == Places(A, I, X, L)
           W == U \ {k}
<1>1. IsFiniteSet(U) /\ Cardinality(U) \in Nat  BY FitAll
<1>2. k \in U  BY DEF Places
<1>3. Cardinality(W) = Cardinality(U) - 1
  <2> HIDE DEF U
  <2> QED BY <1>1, <1>2, FS_RemoveElement
<1>4. Cardinality(W) + (r + 1) = n  BY <1>1, <1>3 DEF Fit
<1>5. W \subseteq 1..n  BY DEF Fit
<1>6. Places(A, I \ {k}, X, L) = W /\ Apart(A, I \ {k}, X, L)  BY DEF Fit, Apart, Places
<1> HIDE DEF W
<1> QED BY <1>4, <1>5, <1>6 DEF Fit

LEMMA FitArrived ==
  ASSUME NEW A, NEW I, NEW X, NEW L, NEW n, NEW r, Fit(A, I, X, L, n, r), NEW k, k \in A, NEW O
  PROVE  /\ O \subseteq I => Fit(A \ {k}, (I \ O) \cup {k}, X, L \cup O, n, r)
         /\ O \subseteq X => Fit(A \ {k}, I, (X \ O) \cup {k}, L \cup O, n, r)
<1>1. Apart(A, I, X, L)  BY DEF Fit
<1>2. ASSUME O \subseteq I PROVE Fit(A \ {k}, (I \ O) \cup {k}, X, L \cup O, n, r)
  <2>1. Apart(A \ {k}, (I \ O) \cup {k}, X, L \cup O)  BY <1>1, <1>2 DEF Apart
  <2>2. Places(A \ {k}, (I \ O) \cup {k}, X, L \cup O) = Places(A, I, X, L)
    BY <1>2 DEF Places
  <2> QED BY <2>1, <2>2 DEF Fit
<1>3. ASSUME O \subseteq X PROVE Fit(A \ {k}, I, (X \ O) \cup {k}, L \cup O, n, r)
  <2>1. Apart(A \ {k}, I, (X \ O) \cup {k}, L \cup O)  BY <1>1, <1>3 DEF Apart
  <2>2. Places(A \ {k}, I, (X \ O) \cup {k}, L \cup O) = Places(A, I, X, L)
    BY <1>3 DEF Places
  <2> QED BY <2>1, <2>2 DEF Fit
<1> QED BY <1>2, <1>3

LEMMA FitMoved ==
  ASSUME NEW A, NEW I, NEW X, NEW L, NEW n, NEW r, Fit(A, I, X, L, n, r)
  PROVE  /\ \A k \in A : k \notin I /\ k \notin X
         /\ \A k \in A : Fit(A \ {k}, I, X, L \cup {k}, n, r)
         /\ \A O : O \subseteq I => Fit(A, I \ O, X, L \cup O, n, r)
         /\ \A k \in X : Fit(A \cup {k}, I, X \ {k}, L, n, r) /\ k \notin A
         /\ \A k \in X : Fit(A, I, X \ {k}, L \cup {k}, n, r)
         /\ Fit(A, I, {}, L \cup X, n, r)
<1> DEFINE U == Places(A, I, X, L)
<1>1. ASSUME NEW A2, NEW I2, NEW X2, NEW L2, Apart(A2, I2, X2, L2), Places(A2, I2, X2, L2) = U
      PROVE  Fit(A2, I2, X2, L2, n, r)
  BY <1>1 DEF Fit
<1>2. Apart(A, I, X, L)  BY DEF Fit
<1>3. \A k \in A : k \notin I /\ k \notin X  BY <1>2 DEF Apart
<1>4. ASSUME NEW k \in A PROVE Fit(A \ {k}, I, X, L \cup {k}, n, r)
  <2>1. Apart(A \ {k}, I, X, L \cup {k})  BY <1>2 DEF Apart
  <2>2. Places(A \ {k}, I, X, L \cup {k}) = U  BY DEF Places
  <2> QED BY <1>1, <2>1, <2>2
<1>5. ASSUME NEW O, O \subseteq I PROVE Fit(A, I \ O, X, L \cup O, n, r)
  <2>1. Apart(A, I \ O, X, L \cup O)  BY <1>2, <1>5 DEF Apart
  <2>2. Places(A, I \ O, X, L \cup O) = U  BY <1>5 DEF Places
  <2> QED BY <1>1, <2>1, <2>2
<1>6. ASSUME NEW k \in X PROVE Fit(A \cup {k}, I, X \ {k}, L, n, r) /\ k \notin A
  <2>1. Apart(A \cup {k}, I, X \ {k}, L)  BY <1>2 DEF Apart
  <2>2. Places(A \cup {k}, I, X \ {k}, L) = U  BY DEF Places
  <2> QED BY <1>1, <1>3, <2>1, <2>2
<1>7. ASSUME NEW k \in X PROVE Fit(A, I, X \ {k}, L \cup {k}, n, r)
  <2>1. Apart(A, I, X \ {k}, L \cup {k})  BY <1>2 DEF Apart
  <2>2. Places(A, I, X \ {k}, L \cup {k}) = U  BY DEF Places
  <2> QED BY <1>1, <2>1, <2>2
<1>8. Fit(A, I, {}, L \cup X, n, r)
  <2>1. Apart(A, I, {}, L \cup X)  BY <1>2 DEF Apart
  <2>2. Places(A, I, {}, L \cup X) = U  BY DEF Places
  <2> QED BY <1>1, <2>1, <2>2
<1> QED BY <1>3, <1>4, <1>5, <1>6, <1>7, <1>8

(* The places of the transmissions after each thing that can happen to one. *)
LEMMA PlacesSent ==
  ASSUME NEW a, NEW i, NEW x, NEW L, NEW n \in Nat, NEW r \in Nat, PlacesOk(a, i, x, L, n, r),
         NEW p, p[2].send = n + 1
  PROVE  /\ PlacesOk(a \cup {p}, i, x, L, n + 1, r)
         /\ PlacesOk(a, i, x, L \cup {n + 1}, n + 1, r)
<1> DEFINE A == AirSends(a)
           I == SendsIn(i)
           X == SendsIn(x)
<1>1. Fit(A, I, X, L, n, r)  BY DEF PlacesOk
<1>2. /\ Fit(A \cup {n + 1}, I, X, L, n + 1, r) /\ Fit(A, I, X, L \cup {n + 1}, n + 1, r)
      /\ n + 1 \notin A
  <2> HIDE DEF A, I, X
  <2> QED BY <1>1, FitSent
<1>3. /\ AirSends(a \cup {p}) = A \cup {n + 1}
      /\ \A q, s \in a \cup {p} : q[2].send = s[2].send => q = s
  <2>1. p[2].send \notin AirSends(a)  BY <1>2
  <2>2. \A q, s \in a : q[2].send = s[2].send => q = s  BY DEF PlacesOk
  <2>3. /\ AirSends(a \cup {p}) = AirSends(a) \cup {p[2].send}
        /\ \A q, s \in a \cup {p} : q[2].send = s[2].send => q = s
    BY ONLY <2>1, <2>2, AirJoined
  <2> QED BY <2>3
<1>4. IsProbe(p[2])  BY DEF IsProbe
<1>5. PlacesOk(a \cup {p}, i, x, L, n + 1, r)  BY <1>2, <1>3, <1>4 DEF PlacesOk
<1>6. PlacesOk(a, i, x, L \cup {n + 1}, n + 1, r)  BY <1>2 DEF PlacesOk
<1> QED BY <1>5, <1>6

LEMMA PlacesVanished ==
  ASSUME NEW a, NEW i, NEW x, NEW L, NEW n, NEW r, PlacesOk(a, i, x, L, n, r), NEW p \in a
  PROVE  PlacesOk(a \ {p}, i, x, L \cup {p[2].send}, n, r)
<1> DEFINE A == AirSends(a)
           I == SendsIn(i)
           X == SendsIn(x)
           k == p[2].send
<1>1. Fit(A, I, X, L, n, r)  BY DEF PlacesOk
<1>2. AirSends(a \ {p}) = A \ {k} /\ k \in A  BY AirLeft DEF PlacesOk
<1>3. Fit(A \ {k}, I, X, L \cup {k}, n, r)
  <2> HIDE DEF A, I, X, k
  <2> QED BY <1>1, <1>2, FitMoved
<1> QED BY <1>2, <1>3 DEF PlacesOk

LEMMA PlacesHeard ==
  ASSUME NEW a, NEW i, NEW x, NEW L, NEW n, NEW r, PlacesOk(a, i, x, L, n, r), NEW p \in a,
         NEW S, NEW cap \in Nat \ {0}, NEW ch \in ChannelOf(S, cap), ch.buf = i,
         NEW m \in S, m.send = p[2].send
  PROVE  PlacesOk(a \ {p}, Published(ch, cap, m).buf, x, L \cup Sends(Overwritten(ch, cap)), n, r)
<1> DEFINE A == AirSends(a)
           I == SendsIn(i)
           X == SendsIn(x)
           k == p[2].send
           c == Published(ch, cap, m)
           O == Sends(Overwritten(ch, cap))
<1>1. Fit(A, I, X, L, n, r)  BY DEF PlacesOk
<1>2. AirSends(a \ {p}) = A \ {k} /\ k \in A  BY AirLeft DEF PlacesOk
<1>3. IsProbe(m)  BY DEF PlacesOk, IsProbe
<1>4. Sends({m}) = {k}
  <2>1. \A s : s \in Sends({m}) <=> s = k  BY <1>3, SendsOf
  <2> HIDE DEF k
  <2> QED BY <2>1
<1>5. k \notin I
  <2> HIDE DEF A, I, X, k
  <2> QED BY <1>1, <1>2, FitMoved
<1>6. /\ EachOnce(c.buf) /\ O \subseteq I /\ SendsIn(c.buf) = (I \ O) \cup {k}
  <2>1. Sends({m}) \cap SendsIn(ch.buf) = {} /\ EachOnce(ch.buf)  BY <1>4, <1>5 DEF PlacesOk
  <2>2. /\ EachOnce(c.buf)
        /\ O \subseteq SendsIn(ch.buf) /\ SendsIn(c.buf) = (SendsIn(ch.buf) \ O) \cup Sends({m})
    BY <2>1, PublishedPlace
  <2> HIDE DEF c, O
  <2> QED BY <2>2, <1>4
<1>7. Fit(A \ {k}, (I \ O) \cup {k}, X, L \cup O, n, r)
  <2>1. k \in A /\ O \subseteq I  BY <1>2, <1>6
  <2> HIDE DEF A, I, X, k, O
  <2> QED BY <1>1, <2>1, FitArrived
<1> HIDE DEF c, O
<1>8. PlacesOk(a \ {p}, c.buf, x, L \cup O, n, r)  BY <1>2, <1>6, <1>7 DEF PlacesOk
<1> QED BY <1>8 DEF c, O

LEMMA PlacesServed ==
  ASSUME NEW a, NEW i, NEW x, NEW L, NEW n, NEW r, PlacesOk(a, i, x, L, n, r), NEW p \in a,
         NEW S, NEW cap \in Nat \ {0}, NEW ch \in ChannelOf(S, cap), ch.buf = x,
         NEW m \in S, m.send = p[2].send
  PROVE  PlacesOk(a \ {p}, i, Published(ch, cap, m).buf, L \cup Sends(Overwritten(ch, cap)), n, r)
<1> DEFINE A == AirSends(a)
           I == SendsIn(i)
           X == SendsIn(x)
           k == p[2].send
           c == Published(ch, cap, m)
           O == Sends(Overwritten(ch, cap))
<1>1. Fit(A, I, X, L, n, r)  BY DEF PlacesOk
<1>2. AirSends(a \ {p}) = A \ {k} /\ k \in A  BY AirLeft DEF PlacesOk
<1>3. IsProbe(m)  BY DEF PlacesOk, IsProbe
<1>4. Sends({m}) = {k}
  <2>1. \A s : s \in Sends({m}) <=> s = k  BY <1>3, SendsOf
  <2> HIDE DEF k
  <2> QED BY <2>1
<1>5. k \notin X
  <2> HIDE DEF A, I, X, k
  <2> QED BY <1>1, <1>2, FitMoved
<1>6. /\ EachOnce(c.buf) /\ O \subseteq X /\ SendsIn(c.buf) = (X \ O) \cup {k}
      /\ \A j \in DOMAIN c.buf : c.buf[j] = m \/ \E l \in DOMAIN x : c.buf[j] = x[l]
  <2>1. Sends({m}) \cap SendsIn(ch.buf) = {} /\ EachOnce(ch.buf)  BY <1>4, <1>5 DEF PlacesOk
  <2>2. /\ EachOnce(c.buf)
        /\ O \subseteq SendsIn(ch.buf) /\ SendsIn(c.buf) = (SendsIn(ch.buf) \ O) \cup Sends({m})
        /\ \A j \in DOMAIN c.buf : c.buf[j] = m \/ \E l \in DOMAIN ch.buf : c.buf[j] = ch.buf[l]
    BY <2>1, PublishedPlace
  <2> HIDE DEF c, O
  <2> QED BY <2>2, <1>4
<1>7. Fit(A \ {k}, I, (X \ O) \cup {k}, L \cup O, n, r)
  <2>1. k \in A /\ O \subseteq X  BY <1>2, <1>6
  <2> HIDE DEF A, I, X, k, O
  <2> QED BY <1>1, <2>1, FitArrived
<1>8. \A j \in DOMAIN c.buf : IsProbe(c.buf[j])
  <2> HIDE DEF c
  <2>1. \A j \in DOMAIN x : IsProbe(x[j])  BY DEF PlacesOk
  <2> QED BY <1>3, <1>6, <2>1
<1> HIDE DEF c, O
<1>9. PlacesOk(a \ {p}, i, c.buf, L \cup O, n, r)  BY <1>2, <1>6, <1>7, <1>8 DEF PlacesOk
<1> QED BY <1>9 DEF c, O

LEMMA PlacesDisturbed ==
  ASSUME NEW a, NEW i, NEW x, NEW L, NEW n, NEW r, PlacesOk(a, i, x, L, n, r),
         NEW S, NEW cap \in Nat \ {0}, NEW ch \in ChannelOf(S, cap), ch.buf = i,
         NEW m \in S, ~IsProbe(m)
  PROVE  PlacesOk(a, Published(ch, cap, m).buf, x, L \cup Sends(Overwritten(ch, cap)), n, r)
<1> DEFINE A == AirSends(a)
           I == SendsIn(i)
           X == SendsIn(x)
           c == Published(ch, cap, m)
           O == Sends(Overwritten(ch, cap))
<1>1. Fit(A, I, X, L, n, r)  BY DEF PlacesOk
<1>2. Sends({m}) = {}  BY SendsOf
<1>3. /\ EachOnce(c.buf) /\ O \subseteq I /\ SendsIn(c.buf) = I \ O
  <2>1. Sends({m}) \cap SendsIn(ch.buf) = {} /\ EachOnce(ch.buf)  BY <1>2 DEF PlacesOk
  <2>2. /\ EachOnce(c.buf)
        /\ O \subseteq SendsIn(ch.buf) /\ SendsIn(c.buf) = (SendsIn(ch.buf) \ O) \cup Sends({m})
    BY <2>1, PublishedPlace
  <2> HIDE DEF c, O
  <2> QED BY <2>2, <1>2
<1>4. Fit(A, I \ O, X, L \cup O, n, r)
  <2> HIDE DEF A, I, X, O
  <2> QED BY <1>1, <1>3, FitMoved
<1> HIDE DEF c, O
<1>5. PlacesOk(a, c.buf, x, L \cup O, n, r)  BY <1>3, <1>4 DEF PlacesOk
<1> QED BY <1>5 DEF c, O

LEMMA PlacesEchoed ==
  ASSUME NEW a, NEW i, NEW x, NEW L, NEW n, NEW r, PlacesOk(a, i, x, L, n, r),
         NEW S, x \in Seq(S), x # <<>>, NEW p, p[2] = Head(x)
  PROVE  /\ PlacesOk(a \cup {p}, i, Tail(x), L, n, r)
         /\ PlacesOk(a, i, Tail(x), L \cup {Head(x).send}, n, r)
<1> DEFINE A == AirSends(a)
           I == SendsIn(i)
           X == SendsIn(x)
           h == Head(x)
           t == Tail(x)
           k == h.send
<1>1. Fit(A, I, X, L, n, r)  BY DEF PlacesOk
<1>2. /\ EachOnce(t) /\ X = SendsIn(t) \cup Sends({h}) /\ SendsIn(t) \cap Sends({h}) = {}
      /\ \A j \in DOMAIN t : \E l \in DOMAIN x : t[j] = x[l]
      /\ 1 \in DOMAIN x /\ h = x[1]
  BY QueueTaken DEF PlacesOk
<1>3. IsProbe(h) /\ \A j \in DOMAIN t : IsProbe(t[j])
  <2> HIDE DEF h, t
  <2> QED BY <1>2 DEF PlacesOk
<1> HIDE DEF h, t
<1>4. Sends({h}) = {k}
  <2>1. \A s : s \in Sends({h}) <=> s = k  BY <1>3, SendsOf
  <2> HIDE DEF k
  <2> QED BY <2>1
<1>5. k \in X /\ SendsIn(t) = X \ {k}
  <2> HIDE DEF X, k
  <2> QED BY <1>2, <1>4
<1>6. /\ Fit(A \cup {k}, I, X \ {k}, L, n, r) /\ k \notin A
      /\ Fit(A, I, X \ {k}, L \cup {k}, n, r)
  <2> HIDE DEF A, I, X, k
  <2> QED BY <1>1, <1>5, FitMoved
<1>7. /\ AirSends(a \cup {p}) = A \cup {k}
      /\ \A q, s \in a \cup {p} : q[2].send = s[2].send => q = s
  BY <1>6, AirJoined DEF PlacesOk, h
<1>8. IsProbe(p[2])  BY <1>3 DEF h
<1>9. PlacesOk(a \cup {p}, i, t, L, n, r)  BY <1>2, <1>3, <1>5, <1>6, <1>7, <1>8 DEF PlacesOk
<1>10. PlacesOk(a, i, t, L \cup {k}, n, r)  BY <1>2, <1>3, <1>5, <1>6 DEF PlacesOk
<1> QED BY <1>9, <1>10 DEF h, t

LEMMA PlacesEnded ==
  ASSUME NEW a, NEW i, NEW x, NEW L, NEW n, NEW r, PlacesOk(a, i, x, L, n, r)
  PROVE  PlacesOk(a, i, <<>>, L \cup SendsIn(x), n, r)
<1> DEFINE A == AirSends(a)
           I == SendsIn(i)
           X == SendsIn(x)
<1>1. Fit(A, I, X, L, n, r)  BY DEF PlacesOk
<1>2. Fit(A, I, {}, L \cup X, n, r)
  <2> HIDE DEF A, I, X
  <2> QED BY <1>1, FitMoved
<1>3. SendsIn(<<>>) = {} /\ EachOnce(<<>>) /\ \A k \in DOMAIN <<>> : IsProbe(<<>>[k])
  BY SendsOf DEF EachOnce
<1> QED BY <1>2, <1>3 DEF PlacesOk

LEMMA PlacesRead ==
  ASSUME NEW a, NEW i, NEW x, NEW L, NEW n \in Nat, NEW r \in Nat, PlacesOk(a, i, x, L, n, r),
         NEW S, i \in Seq(S), i # <<>>
  PROVE  PlacesOk(a, Tail(i), x, L, n, IF IsProbe(Head(i)) THEN r + 1 ELSE r)
<1> DEFINE A == AirSends(a)
           I == SendsIn(i)
           X == SendsIn(x)
           h == Head(i)
           t == Tail(i)
           k == h.send
<1>1. Fit(A, I, X, L, n, r)  BY DEF PlacesOk
<1>2. EachOnce(t) /\ I = SendsIn(t) \cup Sends({h}) /\ SendsIn(t) \cap Sends({h}) = {}
  BY QueueTaken DEF PlacesOk
<1> HIDE DEF h, t
<1>3. CASE IsProbe(h)
  <2>1. Sends({h}) = {k}
    <3>1. \A s : s \in Sends({h}) <=> s = k  BY <1>3, SendsOf
    <3> HIDE DEF k
    <3> QED BY <3>1
  <2>2. k \in I /\ SendsIn(t) = I \ {k}
    <3> HIDE DEF I, k
    <3> QED BY <1>2, <2>1
  <2>3. Fit(A, I \ {k}, X, L, n, r + 1)
    <3> HIDE DEF A, I, X, k
    <3> QED BY <1>1, <2>2, FitRead
  <2>4. PlacesOk(a, t, x, L, n, r + 1)  BY <1>2, <2>2, <2>3 DEF PlacesOk
  <2> QED BY <1>3, <2>4 DEF h, t
<1>4. CASE ~IsProbe(h)
  <2>1. Sends({h}) = {}  BY <1>4, SendsOf
  <2>2. SendsIn(t) = I
    <3> HIDE DEF I
    <3> QED BY <1>2, <2>1
  <2>3. PlacesOk(a, t, x, L, n, r)  BY <1>1, <1>2, <2>2 DEF PlacesOk
  <2> QED BY <1>4, <2>3 DEF h, t
<1> QED BY <1>3, <1>4

(* One count goes up, the others stay.                                      *)
LEMMA Tallied ==
  ASSUME tally \in [Counters -> Nat], NEW w \in Counters, Tally(w)
  PROVE  /\ tally' \in [Counters -> Nat]
         /\ tally'[w] = tally[w] + 1
         /\ \A v \in Counters : v # w => tally'[v] = tally[v]
BY DEF Tally

LEMMA TallyFields ==
  ASSUME tally \in [Counters -> Nat]
  PROVE  /\ tally.timeouts \in Nat /\ tally.crc_errors \in Nat /\ tally.foreign \in Nat
         /\ tally.failed \in Nat /\ tally.skipped \in Nat /\ tally.alien \in Nat
BY DEF Counters

(* The frames of a channel after a message is sent or taken are that one    *)
(* and some of those before.                                                *)
LEMMA PublishedStraight ==
  ASSUME NEW S, NEW n \in Nat \ {0}, NEW ch \in ChannelOf(S, n), NEW m \in S,
         StraightIn(ch.buf), Straight(m)
  PROVE  StraightIn(Published(ch, n, m).buf)
<1> DEFINE b == ch.buf
           c == Published(ch, n, m)
<1>1. b \in Seq(S) /\ ch \in [buf : Seq(S), lagged : BOOLEAN]  BY DEF ChannelOf
<1>2. CASE Full(ch, n)
  <2>1. c.buf = Append(Tail(b), m)  BY <1>2 DEF Published
  <2>2. b # <<>>  BY <1>1, <1>2 DEF Full
  <2> DEFINE t == Tail(b)
             l == Len(t)
  <2>3. t \in Seq(S) /\ l \in Nat /\ DOMAIN t = 1..l /\ \A k \in 1..l : k + 1 \in DOMAIN b /\ t[k] = b[k + 1]
    BY <1>1, <2>2
  <2>4. DOMAIN c.buf = 1..(l + 1) /\ c.buf[l + 1] = m /\ \A k \in 1..l : c.buf[k] = t[k]
    <3> HIDE DEF t
    <3> QED BY <2>1, <2>3 DEF t
  <2> HIDE DEF t, l, c, b
  <2>5. ASSUME NEW k \in DOMAIN c.buf PROVE Straight(c.buf[k])
    <3>1. CASE k = l + 1  BY <2>4, <3>1
    <3>2. CASE k # l + 1
      <4>1. k \in 1..l  BY <2>3, <2>4, <2>5, <3>2
      <4> QED BY <2>3, <2>4, <4>1 DEF StraightIn, b
    <3> QED BY <3>1, <3>2
  <2>6. StraightIn(c.buf)  BY <2>5 DEF StraightIn
  <2> QED BY <2>6 DEF c
<1>3. CASE ~Full(ch, n)
  <2> DEFINE l == Len(b)
  <2>1. c.buf = Append(b, m)  BY <1>1, <1>3 DEF Published
  <2>2. /\ l \in Nat /\ DOMAIN b = 1..l /\ DOMAIN c.buf = 1..(l + 1) /\ c.buf[l + 1] = m
        /\ \A k \in 1..l : c.buf[k] = b[k]
    <3> HIDE DEF b, c
    <3> QED BY <1>1, <2>1
  <2> HIDE DEF l, c, b
  <2>3. ASSUME NEW k \in DOMAIN c.buf PROVE Straight(c.buf[k])
    <3>1. CASE k = l + 1  BY <2>2, <3>1
    <3>2. CASE k # l + 1
      <4>1. k \in 1..l  BY <2>2, <2>3, <3>2
      <4> QED BY <2>2, <4>1 DEF StraightIn, b
    <3> QED BY <3>1, <3>2
  <2>4. StraightIn(c.buf)  BY <2>3 DEF StraightIn
  <2> QED BY <2>4 DEF c
<1> QED BY <1>2, <1>3

LEMMA TakenStraight ==
  ASSUME NEW S, NEW q \in Seq(S), q # <<>>, StraightIn(q)
  PROVE  Straight(Head(q)) /\ StraightIn(Tail(q))
<1> DEFINE t == Tail(q)
           l == Len(t)
<1>1. /\ l \in Nat /\ DOMAIN t = 1..l /\ (\A k \in 1..l : k + 1 \in DOMAIN q /\ t[k] = q[k + 1])
      /\ 1 \in DOMAIN q /\ Head(q) = q[1]
  OBVIOUS
<1> HIDE DEF t, l
<1>2. StraightIn(t)  BY <1>1 DEF StraightIn
<1> QED BY <1>1, <1>2 DEF StraightIn, t

(* What the invariant says of the state, for the steps below.               *)
LEMMA IperfFacts ==
  ASSUME IperfInv
  PROVE  /\ sends \in 0..MaxSends /\ sends \in Nat /\ seqn \in Nat /\ Len(measured) \in Nat
         /\ seqn <= sends /\ seqn + InFlight(ph) <= sends /\ Read \in Nat
         /\ tally.foreign = 0 => sends = seqn + InFlight(ph)
         /\ InboxCap \in Nat \ {0} /\ MaxSends \in Nat
         /\ inbox.buf \in Seq(IperfFrames) /\ server.rx.buf \in Seq(IperfFrames)
         /\ \A p \in air : /\ p[2] \in IperfFrames /\ p[2].send \in 1..MaxSends
                           /\ IsProbe(p[2]) /\ p[2].ours = TRUE
<1>1. MaxSends \in Nat /\ InboxCap \in Nat \ {0}  BY IperfAssumption DEF IperfAssumption
<1>2. sends \in 0..MaxSends /\ sends \in Nat /\ seqn \in Nat /\ Len(measured) \in Nat
  BY <1>1 DEF IperfInv, IperfShape
<1>3. /\ tally.timeouts \in Nat /\ tally.crc_errors \in Nat /\ tally.foreign \in Nat
      /\ tally.failed \in Nat /\ tally.skipped \in Nat /\ tally.alien \in Nat
  BY TallyFields DEF IperfInv, IperfShape
<1>4. InFlight(ph) \in {0, 1}  BY DEF InFlight
<1>5. Read \in Nat  BY <1>2, <1>3 DEF Read
<1>6. /\ seqn <= sends /\ seqn + InFlight(ph) <= sends
      /\ tally.foreign = 0 => sends = seqn + InFlight(ph)
  <2> DEFINE g == tally.foreign
             i == InFlight(ph)
  <2>1. g \in Nat /\ i \in {0, 1} /\ sends = seqn + g + i  BY <1>3, <1>4 DEF IperfInv, Counted
  <2> HIDE DEF g, i
  <2>2. seqn <= sends /\ seqn + i <= sends /\ (g = 0 => sends = seqn + i)
    BY ONLY <1>2, <2>1
  <2> QED BY <2>2 DEF g, i
<1>7. inbox.buf \in Seq(IperfFrames) /\ server.rx.buf \in Seq(IperfFrames)
  BY DEF IperfInv, IperfShape, ChannelOf
<1>8. ASSUME NEW p \in air
      PROVE  p[2] \in IperfFrames /\ p[2].send \in 1..MaxSends /\ IsProbe(p[2]) /\ p[2].ours = TRUE
  <2>1. p[2] \in IperfFrames /\ IsProbe(p[2])  BY DEF IperfInv, IperfShape, PlacesOk
  <2>2. \A m \in BOOLEAN : ~IsProbe(Stray(m))  BY DEF IsProbe, Stray
  <2>3. p[2] \in Probes
    BY <2>1, <2>2 DEF IperfFrames
  <2> QED BY <2>1, <2>3 DEF IsProbe, Probes
<1> QED BY <1>1, <1>2, <1>5, <1>6, <1>7, <1>8

(* Whoever hears a frame, damaged or not, only its place changes.           *)
LEMMA HeardKeeps ==
  ASSUME IperfInv, NEW p \in air, NEW m \in IperfFrames, m.send = p[2].send, m.seq = p[2].seq,
         air' = air \ {p}, Publish(p[1], m), UNCHANGED <<ph, seqn, sends, measured, tally>>
  PROVE  IperfInv'
<1>1. IperfShape /\ PlacesOk(air, inbox.buf, server.rx.buf, lostEchoes, sends, Read)
  BY DEF IperfInv
<1>2. /\ inbox \in ChannelOf(IperfFrames, InboxCap) /\ server.rx \in ChannelOf(IperfFrames, InboxCap)
      /\ DOMAIN server = {"up", "rx"} /\ InboxCap \in Nat \ {0}
  BY <1>1, IperfFacts DEF IperfShape
<1>3. /\ air' = air \ {p} /\ ph' = ph /\ seqn' = seqn /\ sends' = sends
      /\ measured' = measured /\ tally' = tally
  OBVIOUS
<1>4. Read' = Read  BY <1>3 DEF Read
<1>5. Straight(p[2]) => Straight(m)  BY DEF Straight, IsProbe
<1>6. Counted' /\ MeasuredOk'  BY <1>3 DEF IperfInv, Counted, MeasuredOk
<1>7. CASE p[1] = "client"
  <2> DEFINE c == Published(inbox, InboxCap, m)
             o == lostEchoes \cup Sends(Overwritten(inbox, InboxCap))
  <2>1. inbox' = c /\ server' = server /\ lostEchoes' = o  BY <1>7 DEF Publish
  <2>2. c \in ChannelOf(IperfFrames, InboxCap)  BY <1>2, PublishedTyped
  <2>3. PlacesOk(air \ {p}, c.buf, server.rx.buf, o, sends, Read)
    <3> DEFINE b == inbox.buf
               x == server.rx.buf
               S == IperfFrames
    <3>1. PlacesOk(air, b, x, lostEchoes, sends, Read) /\ inbox.buf = b  BY <1>1
    <3> HIDE DEF b, x, S
    <3>2. inbox \in ChannelOf(S, InboxCap) /\ m \in S /\ InboxCap \in Nat \ {0}  BY <1>2 DEF S
    <3>3. PlacesOk(air \ {p}, c.buf, x, o, sends, Read)  BY <3>1, <3>2, PlacesHeard
    <3> QED BY <3>3 DEF x
  <2>4. AllStraight => StraightIn(c.buf)
    <3>1. AllStraight => StraightIn(inbox.buf) /\ Straight(m)  BY <1>5 DEF AllStraight
    <3> QED BY <1>2, <3>1, PublishedStraight
  <2> HIDE DEF c, o
  <2>5. IperfShape'  BY <1>1, <1>3, <2>1, <2>2 DEF IperfShape
  <2>6. PlacesOk(air, inbox.buf, server.rx.buf, lostEchoes, sends, Read)'
    BY <1>3, <1>4, <2>1, <2>3
  <2>7. AllStraight => AllStraight'  BY <1>3, <2>1, <2>4 DEF AllStraight
  <2> QED BY <1>3, <1>6, <2>5, <2>6, <2>7 DEF IperfInv
<1>8. CASE p[1] # "client"
  <2> DEFINE c == Published(server.rx, InboxCap, m)
             o == lostEchoes \cup Sends(Overwritten(server.rx, InboxCap))
  <2>1. inbox' = inbox /\ server' = [server EXCEPT !.rx = c] /\ lostEchoes' = o
    BY <1>8 DEF Publish
  <2>2. c \in ChannelOf(IperfFrames, InboxCap)  BY <1>2, PublishedTyped
  <2>3. PlacesOk(air \ {p}, inbox.buf, c.buf, o, sends, Read)
    <3> DEFINE b == inbox.buf
               x == server.rx.buf
               S == IperfFrames
               rx == server.rx
    <3>1. PlacesOk(air, b, x, lostEchoes, sends, Read) /\ rx.buf = x  BY <1>1
    <3>2. rx \in ChannelOf(S, InboxCap) /\ m \in S /\ InboxCap \in Nat \ {0}  BY <1>2
    <3> HIDE DEF b, x, S, rx
    <3>3. PlacesOk(air \ {p}, b, Published(rx, InboxCap, m).buf,
                   lostEchoes \cup Sends(Overwritten(rx, InboxCap)), sends, Read)
      BY <3>1, <3>2, PlacesServed
    <3> QED BY <3>3 DEF b, rx
  <2>4. AllStraight => StraightIn(c.buf)
    <3>1. AllStraight => StraightIn(server.rx.buf) /\ Straight(m)  BY <1>5 DEF AllStraight
    <3> QED BY <1>2, <3>1, PublishedStraight
  <2> HIDE DEF c, o
  <2>5. server'.rx = c /\ DOMAIN server' = {"up", "rx"}  BY <1>2, <2>1
  <2>6. IperfShape'  BY <1>1, <1>3, <2>1, <2>2, <2>5 DEF IperfShape
  <2>7. PlacesOk(air, inbox.buf, server.rx.buf, lostEchoes, sends, Read)'
    BY <1>3, <1>4, <2>1, <2>3, <2>5
  <2>8. AllStraight => AllStraight'  BY <1>3, <2>1, <2>4, <2>5 DEF AllStraight
  <2> QED BY <1>3, <1>6, <2>6, <2>7, <2>8 DEF IperfInv
<1> QED BY <1>7, <1>8

LEMMA ArriveWholeKeeps == IperfInv /\ ArriveWhole => IperfInv'
<1> SUFFICES ASSUME IperfInv, ArriveWhole PROVE IperfInv'  OBVIOUS
<1>1. PICK p \in air : air' = air \ {p} /\ Publish(p[1], p[2])  BY DEF ArriveWhole
<1>2. p[2] \in IperfFrames  BY IperfFacts
<1>3. UNCHANGED <<ph, seqn, sends, measured, tally>>  BY DEF ArriveWhole
<1> QED BY <1>1, <1>2, <1>3, HeardKeeps

LEMMA ArriveDamagedKeeps == IperfInv /\ ArriveDamaged => IperfInv'
<1> SUFFICES ASSUME IperfInv, ArriveDamaged PROVE IperfInv'  OBVIOUS
<1>1. PICK p \in air, e \in ParseErrors : air' = air \ {p} /\ Publish(p[1], Hit(p[2], e))
  BY DEF ArriveDamaged
<1>2. p[2] \in IperfFrames /\ p[2].send \in 1..MaxSends  BY IperfFacts
<1>3. p[2] \in Probes
  <2>1. p[2].send \notin {0}  BY <1>2
  <2>2. \A m \in BOOLEAN : Stray(m).send = 0  BY DEF Stray
  <2> QED BY <1>2, <2>1, <2>2 DEF IperfFrames
<1> DEFINE m == Hit(p[2], e)
<1>4. m \in IperfFrames /\ m.send = p[2].send /\ m.seq = p[2].seq
  BY <1>3 DEF Hit, IperfFrames, Probes
<1>5. UNCHANGED <<ph, seqn, sends, measured, tally>>  BY DEF ArriveDamaged
<1>6. Publish(p[1], m)  BY <1>1
<1> HIDE DEF m
<1> QED BY <1>1, <1>4, <1>5, <1>6, HeardKeeps

LEMMA VanishKeeps == IperfInv /\ Vanish => IperfInv'
<1> SUFFICES ASSUME IperfInv, Vanish PROVE IperfInv'  OBVIOUS
<1>1. PICK p \in air : air' = air \ {p} /\ lostEchoes' = lostEchoes \cup {p[2].send}  BY DEF Vanish
<1>2. /\ ph' = ph /\ seqn' = seqn /\ sends' = sends /\ inbox' = inbox /\ server' = server
      /\ measured' = measured /\ tally' = tally
  BY DEF Vanish
<1>3. Read' = Read  BY <1>2 DEF Read
<1>4. PlacesOk(air, inbox.buf, server.rx.buf, lostEchoes, sends, Read)'
  <2> DEFINE b == inbox.buf
             x == server.rx.buf
             r == Read
  <2>1. PlacesOk(air, b, x, lostEchoes, sends, r)  BY DEF IperfInv
  <2> HIDE DEF b, x, r
  <2>2. PlacesOk(air \ {p}, b, x, lostEchoes \cup {p[2].send}, sends, r)
    BY <2>1, PlacesVanished
  <2> QED BY <1>1, <1>2, <1>3, <2>2 DEF b, x, r
<1>5. IperfShape'  BY <1>1, <1>2 DEF IperfInv, IperfShape
<1>6. Counted' /\ MeasuredOk'  BY <1>2 DEF IperfInv, Counted, MeasuredOk
<1>7. AllStraight => AllStraight'  BY <1>1, <1>2 DEF AllStraight
<1> QED BY <1>2, <1>4, <1>5, <1>6, <1>7 DEF IperfInv

LEMMA StrayArrivesKeeps == IperfInv /\ StrayArrives => IperfInv'
<1> SUFFICES ASSUME IperfInv, StrayArrives PROVE IperfInv'  OBVIOUS
<1>1. PICK ours \in BOOLEAN : inbox' = Published(inbox, InboxCap, Stray(ours))
  BY DEF StrayArrives
<1> DEFINE m == Stray(ours)
           o == lostEchoes \cup Sends(Overwritten(inbox, InboxCap))
           c == Published(inbox, InboxCap, m)
<1>2. m \in IperfFrames /\ ~IsProbe(m)
  <2>1. m \in {Stray(q) : q \in BOOLEAN}  BY Zenon
  <2>2. ~IsProbe(m)  BY DEF IsProbe, Stray
  <2> HIDE DEF m
  <2> QED BY <2>1, <2>2, Zenon DEF IperfFrames
<1>3. /\ ph' = ph /\ seqn' = seqn /\ sends' = sends /\ air' = air /\ server' = server
      /\ measured' = measured /\ tally' = tally /\ inbox' = c /\ lostEchoes' = o
  BY <1>1 DEF StrayArrives
<1>4. Read' = Read  BY <1>3 DEF Read
<1>5. inbox \in ChannelOf(IperfFrames, InboxCap) /\ InboxCap \in Nat \ {0}
  BY IperfFacts DEF IperfInv, IperfShape
<1> HIDE DEF m
<1>6. c \in ChannelOf(IperfFrames, InboxCap)  BY <1>2, <1>5, PublishedTyped
<1>7. PlacesOk(air, c.buf, server.rx.buf, o, sends, Read)
  <2> DEFINE b == inbox.buf
             x == server.rx.buf
             r == Read
             S == IperfFrames
  <2>1. PlacesOk(air, b, x, lostEchoes, sends, r) /\ inbox.buf = b  BY DEF IperfInv
  <2>2. m \in S /\ inbox \in ChannelOf(S, InboxCap)  BY <1>2, <1>5
  <2> HIDE DEF b, x, r, S
  <2>3. PlacesOk(air, c.buf, x, o, sends, r)
    BY <1>2, <1>5, <2>1, <2>2, PlacesDisturbed
  <2> QED BY <2>3 DEF x, r
<1>8. AllStraight => StraightIn(c.buf)
  <2>1. AllStraight => StraightIn(inbox.buf) /\ Straight(m)  BY <1>2 DEF AllStraight, Straight
  <2> QED BY <1>2, <1>5, <2>1, PublishedStraight
<1> HIDE DEF c, o
<1>9. IperfShape'  BY <1>3, <1>6 DEF IperfInv, IperfShape
<1>10. PlacesOk(air, inbox.buf, server.rx.buf, lostEchoes, sends, Read)'  BY <1>3, <1>4, <1>7
<1>11. Counted' /\ MeasuredOk'  BY <1>3 DEF IperfInv, Counted, MeasuredOk
<1>12. AllStraight => AllStraight'  BY <1>3, <1>8 DEF AllStraight
<1> QED BY <1>3, <1>9, <1>10, <1>11, <1>12 DEF IperfInv

LEMMA EchoKeeps == IperfInv /\ Echo => IperfInv'
<1> SUFFICES ASSUME IperfInv, Echo PROVE IperfInv'  OBVIOUS
<1> DEFINE rx == server.rx
           x == rx.buf
           h == Head(x)
           p == <<"client", h>>
           b == inbox.buf
           r == Read
           S == IperfFrames
<1>1. /\ ph' = ph /\ seqn' = seqn /\ sends' = sends /\ inbox' = inbox
      /\ measured' = measured /\ tally' = tally
      /\ server' = [server EXCEPT !.rx = Taken(rx)] /\ x # <<>>
  BY DEF Echo, HasMessage
<1>2. \/ air' = air \cup {p} /\ lostEchoes' = lostEchoes
      \/ air' = air /\ lostEchoes' = lostEchoes \cup {h.send}
  BY DEF Echo
<1>3. /\ IperfShape /\ PlacesOk(air, b, x, lostEchoes, sends, r)
      /\ rx \in ChannelOf(S, InboxCap) /\ DOMAIN server = {"up", "rx"} /\ InboxCap \in Nat
      /\ x \in Seq(S) /\ h \in S
  <2>1. rx \in ChannelOf(S, InboxCap) /\ InboxCap \in Nat  BY IperfFacts DEF IperfInv, IperfShape
  <2>2. x \in Seq(S)  BY IperfFacts
  <2>3. h \in S  BY <1>1, <2>2, HeadFirst
  <2> QED BY <2>1, <2>2, <2>3 DEF IperfInv, IperfShape
<1>4. /\ Taken(rx) \in ChannelOf(S, InboxCap) /\ Taken(rx).buf = Tail(x)
  <2> HIDE DEF rx, S
  <2> QED BY <1>1, <1>3, TakenChannel
<1>5. server'.rx = Taken(rx) /\ DOMAIN server' = {"up", "rx"}
  <2> HIDE DEF rx
  <2> QED BY <1>1, <1>3
<1>6. Read' = Read  BY <1>1 DEF Read
<1>7. PlacesOk(air, inbox.buf, server.rx.buf, lostEchoes, sends, Read)'
  <2>1. p[2] = Head(x)  OBVIOUS
  <2> HIDE DEF b, x, r, p, S
  <2>2. /\ PlacesOk(air \cup {p}, b, Tail(x), lostEchoes, sends, r)
        /\ PlacesOk(air, b, Tail(x), lostEchoes \cup {Head(x).send}, sends, r)
    BY <1>1, <1>3, <2>1, PlacesEchoed
  <2>3. server'.rx.buf = Tail(x)  BY <1>4, <1>5
  <2> QED BY <1>1, <1>2, <1>6, <2>2, <2>3 DEF b, r
<1>8. AllStraight => AllStraight'
  <2> SUFFICES ASSUME AllStraight PROVE AllStraight'  OBVIOUS
  <2>1. Straight(h) /\ StraightIn(Tail(x))
    <3>1. StraightIn(x)  BY DEF AllStraight
    <3> HIDE DEF x, S
    <3> QED BY <1>1, <1>3, <3>1, TakenStraight
  <2>2. p[2] = h  OBVIOUS
  <2>3. \A q \in air' : Straight(q[2])
    <3> HIDE DEF p, h
    <3> QED BY <1>2, <2>1, <2>2 DEF AllStraight
  <2>4. StraightIn(inbox'.buf) /\ StraightIn(server'.rx.buf)
    <3> HIDE DEF x, rx
    <3> QED BY <1>1, <1>4, <1>5, <2>1 DEF AllStraight
  <2> QED BY <2>3, <2>4 DEF AllStraight
<1>9. air' \subseteq {"server", "client"} \X IperfFrames
  <2>1. p \in {"server", "client"} \X IperfFrames  BY <1>3
  <2> HIDE DEF p
  <2> QED BY <1>2, <1>3, <2>1 DEF IperfShape
<1>10. IperfShape'  BY <1>1, <1>3, <1>4, <1>5, <1>9 DEF IperfShape
<1>11. Counted' /\ MeasuredOk'  BY <1>1 DEF IperfInv, Counted, MeasuredOk
<1>12. tally'.foreign = tally.foreign  BY <1>1
<1> QED BY <1>7, <1>8, <1>10, <1>11, <1>12 DEF IperfInv

(* The server's channel is emptied and nobody will read what was in it.     *)
LEMMA ServerGone ==
  ASSUME IperfInv, DOMAIN server' = {"up", "rx"}, server'.rx = Quiet,
         lostEchoes' = lostEchoes \cup SendsIn(server.rx.buf),
         UNCHANGED <<ph, seqn, sends, inbox, air, measured, tally, strays, damage>>
  PROVE  IperfInv'
<1>1. /\ ph' = ph /\ seqn' = seqn /\ sends' = sends /\ inbox' = inbox /\ air' = air
      /\ measured' = measured /\ tally' = tally
  OBVIOUS
<1>2. Quiet.buf = <<>> /\ Quiet \in ChannelOf(IperfFrames, InboxCap)
  <2>1. InboxCap \in Nat  BY IperfFacts
  <2> QED BY <2>1 DEF Quiet, ChannelOf
<1>3. Read' = Read  BY <1>1 DEF Read
<1>4. PlacesOk(air, inbox.buf, server.rx.buf, lostEchoes, sends, Read)'
  <2> DEFINE b == inbox.buf
             x == server.rx.buf
             r == Read
  <2>1. PlacesOk(air, b, x, lostEchoes, sends, r)  BY DEF IperfInv
  <2> HIDE DEF b, x, r
  <2>2. PlacesOk(air, b, <<>>, lostEchoes \cup SendsIn(x), sends, r)  BY <2>1, PlacesEnded
  <2> QED BY <1>1, <1>2, <1>3, <2>2 DEF b, x, r
<1>5. IperfShape'  BY <1>1, <1>2 DEF IperfInv, IperfShape
<1>6. Counted' /\ MeasuredOk'  BY <1>1 DEF IperfInv, Counted, MeasuredOk
<1>7. AllStraight => AllStraight'
  <2>1. StraightIn(<<>>)  BY DEF StraightIn
  <2> QED BY <1>1, <1>2, <2>1 DEF AllStraight
<1> QED BY <1>1, <1>4, <1>5, <1>6, <1>7 DEF IperfInv

LEMMA ServerEndsKeeps == IperfInv /\ ServerEnds => IperfInv'
<1> SUFFICES ASSUME IperfInv, ServerEnds PROVE IperfInv'  OBVIOUS
<1>1. /\ server' = [server EXCEPT !.up = FALSE, !.rx = Quiet]
      /\ lostEchoes' = lostEchoes \cup SendsIn(server.rx.buf)
      /\ UNCHANGED <<ph, seqn, sends, inbox, air, measured, tally, strays, damage>>
  BY DEF ServerEnds, SendsIn
<1>2. DOMAIN server = {"up", "rx"}  BY DEF IperfInv, IperfShape
<1>3. DOMAIN server' = {"up", "rx"} /\ server'.rx = Quiet  BY <1>1, <1>2
<1> QED BY <1>1, <1>3, ServerGone

LEMMA NobodyListensKeeps == IperfInv /\ NobodyListens => IperfInv'
<1> SUFFICES ASSUME IperfInv, NobodyListens PROVE IperfInv'  OBVIOUS
<1>1. /\ server' = [server EXCEPT !.rx = Quiet]
      /\ lostEchoes' = lostEchoes \cup SendsIn(server.rx.buf)
      /\ UNCHANGED <<ph, seqn, sends, inbox, air, measured, tally, strays, damage>>
  BY DEF NobodyListens, SendsIn
<1>2. DOMAIN server = {"up", "rx"}  BY DEF IperfInv, IperfShape
<1>3. DOMAIN server' = {"up", "rx"} /\ server'.rx = Quiet  BY <1>1, <1>2
<1> QED BY <1>1, <1>3, ServerGone

(* The client's steps that read nothing.                                    *)
LEMMA TransmitKeeps == IperfInv /\ Transmit => IperfInv'
<1> SUFFICES ASSUME IperfInv, Transmit PROVE IperfInv'  OBVIOUS
<1> DEFINE f == Probe(seqn, sends + 1)
           p == <<"server", f>>
<1>1. /\ ph = "top" /\ sends < MaxSends /\ sends' = sends + 1
      /\ seqn' = seqn /\ inbox' = inbox /\ server' = server
      /\ measured' = measured /\ tally' = tally
  BY DEF Transmit
<1>2. \/ air' = air \cup {p} /\ lostEchoes' = lostEchoes /\ ph' = "sending"
      \/ air' = air /\ lostEchoes' = lostEchoes \cup {sends + 1} /\ ph' = "refused"
  BY DEF Transmit
<1>3. /\ sends \in Nat /\ seqn \in Nat /\ MaxSends \in Nat /\ seqn <= sends /\ Read \in Nat
      /\ tally.foreign = 0 => sends = seqn + InFlight(ph)
  BY IperfFacts
<1>4. InFlight(ph) = 0 /\ InFlight(ph') = 1  BY <1>1, <1>2 DEF InFlight
<1>5. Read' = Read  BY <1>1 DEF Read
<1>6. p[2].send = sends + 1 /\ p[2] = f /\ f.seq = seqn /\ f.send = sends + 1  BY DEF Probe
<1>7. p \in {"server", "client"} \X IperfFrames
  <2>1. f \in Probes
    BY <1>1, <1>3 DEF Probe, Probes
  <2>2. f \in IperfFrames  BY <2>1, Zenon DEF IperfFrames
  <2> HIDE DEF f
  <2> QED BY <2>2
<1> HIDE DEF p, f
<1>8. PlacesOk(air, inbox.buf, server.rx.buf, lostEchoes, sends, Read)'
  <2> DEFINE b == inbox.buf
             x == server.rx.buf
             r == Read
  <2>1. PlacesOk(air, b, x, lostEchoes, sends, r) /\ r \in Nat  BY <1>3 DEF IperfInv
  <2> HIDE DEF b, x, r
  <2>2. /\ PlacesOk(air \cup {p}, b, x, lostEchoes, sends + 1, r)
        /\ PlacesOk(air, b, x, lostEchoes \cup {sends + 1}, sends + 1, r)
    BY <1>3, <1>6, <2>1, PlacesSent
  <2> QED BY <1>1, <1>2, <1>5, <2>2 DEF b, x, r
<1>9. IperfShape'
  <2>1. sends' \in 0..MaxSends  BY <1>1, <1>3
  <2>2. air' \subseteq {"server", "client"} \X IperfFrames
    BY <1>2, <1>7 DEF IperfInv, IperfShape
  <2> QED BY <1>1, <1>2, <2>1, <2>2 DEF IperfInv, IperfShape
<1>10. Counted'
  <2>1. tally.foreign \in Nat  BY TallyFields DEF IperfInv, IperfShape
  <2> QED BY <1>1, <1>3, <1>4, <2>1 DEF IperfInv, Counted
<1>11. MeasuredOk'  BY <1>1 DEF IperfInv, MeasuredOk
<1>12. (tally.foreign = 0 => AllStraight)'
  <2> SUFFICES ASSUME tally'.foreign = 0 PROVE AllStraight'  OBVIOUS
  <2>1. AllStraight /\ sends = seqn  BY <1>1, <1>3, <1>4 DEF IperfInv
  <2>2. Straight(p[2])  BY <1>6, <2>1 DEF Straight
  <2>3. \A q \in air' : Straight(q[2])  BY <1>2, <2>1, <2>2 DEF AllStraight
  <2> QED BY <1>1, <2>1, <2>3 DEF AllStraight
<1> QED BY <1>8, <1>9, <1>10, <1>11, <1>12 DEF IperfInv

LEMMA TransmitOkKeeps == IperfInv /\ TransmitOk => IperfInv'
<1> SUFFICES ASSUME IperfInv, TransmitOk PROVE IperfInv'  OBVIOUS
<1>1. /\ ph = "sending" /\ ph' = "waiting" /\ seqn' = seqn /\ sends' = sends /\ inbox' = inbox
      /\ server' = server /\ air' = air /\ measured' = measured /\ tally' = tally
      /\ lostEchoes' = lostEchoes
  BY DEF TransmitOk
<1>2. InFlight(ph) = 1 /\ InFlight(ph') = 1  BY <1>1 DEF InFlight
<1>3. IperfShape'  BY <1>1 DEF IperfInv, IperfShape
<1>4. Counted' /\ MeasuredOk'  BY <1>1, <1>2 DEF IperfInv, Counted, MeasuredOk
<1>5. PlacesOk(air, inbox.buf, server.rx.buf, lostEchoes, sends, Read)'
  BY <1>1 DEF IperfInv, Read
<1>6. AllStraight => AllStraight'  BY <1>1 DEF AllStraight
<1> QED BY <1>1, <1>3, <1>4, <1>5, <1>6 DEF IperfInv

LEMMA TestOverKeeps == IperfInv /\ TestOver => IperfInv'
<1> SUFFICES ASSUME IperfInv, TestOver PROVE IperfInv'  OBVIOUS
<1>1. /\ ph = "top" /\ ph' = "done" /\ seqn' = seqn /\ sends' = sends /\ inbox' = inbox
      /\ server' = server /\ air' = air /\ measured' = measured /\ tally' = tally
      /\ lostEchoes' = lostEchoes
  BY DEF TestOver
<1>2. InFlight(ph) = 0 /\ InFlight(ph') = 0  BY <1>1 DEF InFlight
<1>3. IperfShape'  BY <1>1 DEF IperfInv, IperfShape
<1>4. Counted' /\ MeasuredOk'  BY <1>1, <1>2 DEF IperfInv, Counted, MeasuredOk
<1>5. PlacesOk(air, inbox.buf, server.rx.buf, lostEchoes, sends, Read)'
  BY <1>1 DEF IperfInv, Read
<1>6. AllStraight => AllStraight'  BY <1>1 DEF AllStraight
<1> QED BY <1>1, <1>3, <1>4, <1>5, <1>6 DEF IperfInv

LEMMA OneCounted ==
  ASSUME tally \in [Counters -> Nat], NEW w \in Counters, Tally(w)
  PROVE  /\ tally' \in [Counters -> Nat]
         /\ tally'.timeouts = IF w = "timeouts" THEN tally.timeouts + 1 ELSE tally.timeouts
         /\ tally'.crc_errors = IF w = "crc_errors" THEN tally.crc_errors + 1 ELSE tally.crc_errors
         /\ tally'.foreign = IF w = "foreign" THEN tally.foreign + 1 ELSE tally.foreign
         /\ tally'.failed = IF w = "failed" THEN tally.failed + 1 ELSE tally.failed
         /\ tally'.skipped = IF w = "skipped" THEN tally.skipped + 1 ELSE tally.skipped
         /\ tally'.alien = IF w = "alien" THEN tally.alien + 1 ELSE tally.alien
<1>1. /\ tally' \in [Counters -> Nat] /\ tally'[w] = tally[w] + 1
      /\ \A v \in Counters : v # w => tally'[v] = tally[v]
  BY Tallied
<1>2. \A v \in Counters : tally'[v] = IF w = v THEN tally[v] + 1 ELSE tally[v]
  BY <1>1
<1>3. /\ "timeouts" \in Counters /\ "crc_errors" \in Counters /\ "foreign" \in Counters
      /\ "failed" \in Counters /\ "skipped" \in Counters /\ "alien" \in Counters
  BY DEF Counters
<1> QED BY <1>1, <1>2, <1>3

(* The sum of the counts, when one of them goes up.                         *)
Total(a, b, c, d, e, g) == a + b + c + d + e + g

Counts == Total(Len(measured), tally.timeouts, tally.crc_errors,
                tally.failed, tally.skipped, tally.alien)

LEMMA CountsNext ==
  ASSUME Len(measured) \in Nat, tally \in [Counters -> Nat]
  PROVE
  /\ Total(Len(measured) + 1, tally.timeouts, tally.crc_errors,
                  tally.failed, tally.skipped, tally.alien)
       = Counts + 1
  /\ Total(Len(measured), tally.timeouts + 1, tally.crc_errors,
                  tally.failed, tally.skipped, tally.alien)
       = Counts + 1
  /\ Total(Len(measured), tally.timeouts, tally.crc_errors + 1,
                  tally.failed, tally.skipped, tally.alien)
       = Counts + 1
  /\ Total(Len(measured), tally.timeouts, tally.crc_errors,
                  tally.failed + 1, tally.skipped, tally.alien)
       = Counts + 1
  /\ Total(Len(measured), tally.timeouts, tally.crc_errors,
                  tally.failed, tally.skipped + 1, tally.alien)
       = Counts + 1
  /\ Total(Len(measured), tally.timeouts, tally.crc_errors,
                  tally.failed, tally.skipped, tally.alien + 1)
       = Counts + 1
<1> DEFINE n == Len(measured)
           t == tally.timeouts
           c == tally.crc_errors
           d == tally.failed
           l == tally.skipped
           z == tally.alien
<1>1. n \in Nat /\ t \in Nat /\ c \in Nat /\ d \in Nat /\ l \in Nat /\ z \in Nat
  BY TallyFields
<1>2. Counts = Total(n, t, c, d, l, z)  BY DEF Counts
<1> HIDE DEF n, t, c, d, l, z
<1>3. /\ Total(n + 1, t, c, d, l, z) = Total(n, t, c, d, l, z) + 1
      /\ Total(n, t + 1, c, d, l, z) = Total(n, t, c, d, l, z) + 1
      /\ Total(n, t, c + 1, d, l, z) = Total(n, t, c, d, l, z) + 1
      /\ Total(n, t, c, d + 1, l, z) = Total(n, t, c, d, l, z) + 1
      /\ Total(n, t, c, d, l + 1, z) = Total(n, t, c, d, l, z) + 1
      /\ Total(n, t, c, d, l, z + 1) = Total(n, t, c, d, l, z) + 1
  BY ONLY <1>1 DEF Total
<1> QED BY ONLY <1>2, <1>3, Zenon DEF n, t, c, d, l, z

LEMMA CountedTotal ==
  /\ Counted <=> /\ seqn = Total(Len(measured), tally.timeouts, tally.crc_errors,
                               tally.failed, tally.skipped, tally.alien)
                 /\ sends = seqn + tally.foreign + InFlight(ph)
  /\ Counted' <=> /\ seqn' = Total(Len(measured'), tally'.timeouts, tally'.crc_errors,
                                tally'.failed, tally'.skipped, tally'.alien)
                  /\ sends' = seqn' + tally'.foreign + InFlight(ph')
BY DEF Counted, Total

LEMMA ProbeFrames ==
  \A f \in IperfFrames : IsProbe(f) =>
    /\ f.ours = TRUE /\ f.send \in 1..MaxSends /\ f.seq \in 0..MaxSends
    /\ f.send \in Nat /\ f.seq \in Nat
<1> SUFFICES ASSUME NEW f \in IperfFrames, IsProbe(f)
             PROVE  /\ f.ours = TRUE /\ f.send \in 1..MaxSends /\ f.seq \in 0..MaxSends
                    /\ f.send \in Nat /\ f.seq \in Nat
  OBVIOUS
<1>1. \A m \in BOOLEAN : ~IsProbe(Stray(m))  BY DEF IsProbe, Stray
<1>2. f \in Probes
  BY <1>1 DEF IperfFrames
<1>3. f.ours = TRUE  BY <1>2 DEF Probes
<1>4. f.send \in 1..MaxSends /\ f.seq \in 0..MaxSends  BY <1>2 DEF Probes
<1>5. MaxSends \in Nat  BY IperfAssumption DEF IperfAssumption
<1>6. f.send \in Nat /\ f.seq \in Nat  BY ONLY <1>4, <1>5
<1> QED BY <1>3, <1>4, <1>6

LEMMA TransmitFailsKeeps == IperfInv /\ TransmitFails => IperfInv'
<1> SUFFICES ASSUME IperfInv, TransmitFails PROVE IperfInv'  OBVIOUS
<1>1. /\ ph \in {"sending", "refused"} /\ ph' = "top" /\ seqn' = seqn + 1 /\ Tally("failed")
      /\ sends' = sends /\ inbox' = inbox /\ server' = server /\ air' = air
      /\ measured' = measured /\ lostEchoes' = lostEchoes
  BY DEF TransmitFails, NextSeq
<1>2. IperfShape /\ tally \in [Counters -> Nat]  BY DEF IperfInv, IperfShape
<1>3. /\ tally' \in [Counters -> Nat] /\ tally'.failed = tally.failed + 1
      /\ tally'.timeouts = tally.timeouts /\ tally'.crc_errors = tally.crc_errors
      /\ tally'.foreign = tally.foreign /\ tally'.skipped = tally.skipped /\ tally'.alien = tally.alien
  <2>1. "failed" \in Counters  BY DEF Counters
  <2> QED BY <1>1, <1>2, <2>1, OneCounted
<1>4. InFlight(ph) = 1 /\ InFlight(ph') = 0  BY <1>1 DEF InFlight
<1>5. seqn \in Nat /\ sends \in Nat /\ Len(measured) \in Nat  BY IperfFacts
<1>6. IperfShape'  BY <1>1, <1>2, <1>3, <1>5 DEF IperfShape
<1>7. Counted'
  <2>1. /\ tally.timeouts \in Nat /\ tally.crc_errors \in Nat /\ tally.foreign \in Nat
        /\ tally.failed \in Nat /\ tally.skipped \in Nat /\ tally.alien \in Nat
    BY <1>2, TallyFields
  <2>2. Counted  BY DEF IperfInv
  <2>3. /\ seqn' = seqn + 1 /\ sends' = sends /\ Len(measured') = Len(measured)  BY <1>1
  <2>4. seqn' = Total(Len(measured'), tally'.timeouts, tally'.crc_errors,
                      tally'.failed, tally'.skipped, tally'.alien)
    <3>1. /\ tally'.timeouts = tally.timeouts /\ tally'.crc_errors = tally.crc_errors
          /\ tally'.failed = tally.failed + 1 /\ tally'.skipped = tally.skipped
          /\ tally'.alien = tally.alien
      BY <1>3
    <3>2. seqn = Total(Len(measured), tally.timeouts, tally.crc_errors,
                       tally.failed, tally.skipped, tally.alien)
      BY <2>2, CountedTotal
    <3>3. Total(Len(measured), tally.timeouts, tally.crc_errors,
                tally.failed + 1, tally.skipped, tally.alien)
          = Counts + 1
      BY ONLY <1>2, <1>5, CountsNext
    <3> QED BY ONLY <2>3, <3>1, <3>2, <3>3, Zenon DEF Counts
  <2>5. sends' = seqn' + tally'.foreign + InFlight(ph')
    <3>1. tally'.foreign = tally.foreign  BY <1>3
    <3>2. sends = seqn + tally.foreign + InFlight(ph)  BY <2>2, CountedTotal
    <3> DEFINE g == tally.foreign
    <3>3. g \in Nat /\ sends = seqn + g + 1  BY ONLY <1>4, <2>1, <3>2
    <3>4. tally'.foreign = g  BY <3>1
    <3> HIDE DEF g
    <3> QED BY ONLY <1>4, <1>5, <2>3, <3>3, <3>4
  <2> QED BY <2>4, <2>5, CountedTotal
<1>8. MeasuredOk'
  <2>1. \A k \in DOMAIN measured : measured[k].seq \in Nat
    <3>1. measured \in Seq(Measurements)  BY <1>2 DEF IperfShape
    <3>2. \A k \in DOMAIN measured : measured[k] \in Measurements  BY <3>1
    <3> QED BY <3>2 DEF Measurements
  <2> QED BY <1>1, <1>3, <1>5, <2>1 DEF IperfInv, MeasuredOk
<1>9. PlacesOk(air, inbox.buf, server.rx.buf, lostEchoes, sends, Read)'
  BY <1>1, <1>3 DEF IperfInv, Read
<1>10. AllStraight => AllStraight'  BY <1>1 DEF AllStraight
<1> QED BY <1>3, <1>6, <1>7, <1>8, <1>9, <1>10 DEF IperfInv

LEMMA ResponseTimeoutKeeps == IperfInv /\ ResponseTimeout => IperfInv'
<1> SUFFICES ASSUME IperfInv, ResponseTimeout PROVE IperfInv'  OBVIOUS
<1>1. /\ ph = "waiting" /\ ph' = "top" /\ seqn' = seqn + 1 /\ Tally("timeouts")
      /\ sends' = sends /\ server' = server /\ air' = air
      /\ measured' = measured /\ lostEchoes' = lostEchoes
      /\ inbox' = LagSeen(inbox) \/ inbox' = inbox
  BY DEF ResponseTimeout, NextSeq
<1>2. IperfShape /\ tally \in [Counters -> Nat]  BY DEF IperfInv, IperfShape
<1>3. /\ tally' \in [Counters -> Nat] /\ tally'.timeouts = tally.timeouts + 1
      /\ tally'.failed = tally.failed /\ tally'.crc_errors = tally.crc_errors
      /\ tally'.foreign = tally.foreign /\ tally'.skipped = tally.skipped /\ tally'.alien = tally.alien
  <2>1. "timeouts" \in Counters  BY DEF Counters
  <2> QED BY <1>1, <1>2, <2>1, OneCounted
<1>4. InFlight(ph) = 1 /\ InFlight(ph') = 0  BY <1>1 DEF InFlight
<1>5. seqn \in Nat /\ sends \in Nat /\ Len(measured) \in Nat  BY IperfFacts
<1>6. inbox' \in ChannelOf(IperfFrames, InboxCap) /\ inbox'.buf = inbox.buf
  <2>1. inbox \in ChannelOf(IperfFrames, InboxCap) /\ InboxCap \in Nat
    BY <1>2, IperfFacts DEF IperfShape
  <2>2. LagSeen(inbox) \in ChannelOf(IperfFrames, InboxCap) /\ LagSeen(inbox).buf = inbox.buf
    BY <2>1, TakenChannel
  <2> QED BY <1>1, <2>1, <2>2
<1>7. IperfShape'  BY <1>1, <1>2, <1>3, <1>5, <1>6 DEF IperfShape
<1>8. Counted'
  <2>1. /\ tally.timeouts \in Nat /\ tally.crc_errors \in Nat /\ tally.foreign \in Nat
        /\ tally.failed \in Nat /\ tally.skipped \in Nat /\ tally.alien \in Nat
    BY <1>2, TallyFields
  <2>2. Counted  BY DEF IperfInv
  <2>3. /\ seqn' = seqn + 1 /\ sends' = sends /\ Len(measured') = Len(measured)  BY <1>1
  <2>4. seqn' = Total(Len(measured'), tally'.timeouts, tally'.crc_errors,
                      tally'.failed, tally'.skipped, tally'.alien)
    <3>1. /\ tally'.timeouts = tally.timeouts + 1 /\ tally'.crc_errors = tally.crc_errors
          /\ tally'.failed = tally.failed /\ tally'.skipped = tally.skipped
          /\ tally'.alien = tally.alien
      BY <1>3
    <3>2. seqn = Total(Len(measured), tally.timeouts, tally.crc_errors,
                       tally.failed, tally.skipped, tally.alien)
      BY <2>2, CountedTotal
    <3>3. Total(Len(measured), tally.timeouts + 1, tally.crc_errors,
                tally.failed, tally.skipped, tally.alien)
          = Counts + 1
      BY ONLY <1>2, <1>5, CountsNext
    <3> QED BY ONLY <2>3, <3>1, <3>2, <3>3, Zenon DEF Counts
  <2>5. sends' = seqn' + tally'.foreign + InFlight(ph')
    <3>1. tally'.foreign = tally.foreign  BY <1>3
    <3>2. sends = seqn + tally.foreign + InFlight(ph)  BY <2>2, CountedTotal
    <3> DEFINE g == tally.foreign
    <3>3. g \in Nat /\ sends = seqn + g + 1  BY ONLY <1>4, <2>1, <3>2
    <3>4. tally'.foreign = g  BY <3>1
    <3> HIDE DEF g
    <3> QED BY ONLY <1>4, <1>5, <2>3, <3>3, <3>4
  <2> QED BY <2>4, <2>5, CountedTotal
<1>9. MeasuredOk'
  <2>1. \A k \in DOMAIN measured : measured[k].seq \in Nat
    <3>1. measured \in Seq(Measurements)  BY <1>2 DEF IperfShape
    <3>2. \A k \in DOMAIN measured : measured[k] \in Measurements  BY <3>1
    <3> QED BY <3>2 DEF Measurements
  <2> QED BY <1>1, <1>3, <1>5, <2>1 DEF IperfInv, MeasuredOk
<1>10. PlacesOk(air, inbox.buf, server.rx.buf, lostEchoes, sends, Read)'
  BY <1>1, <1>3, <1>6 DEF IperfInv, Read
<1>11. AllStraight => AllStraight'  BY <1>1, <1>6 DEF AllStraight
<1> QED BY <1>3, <1>7, <1>8, <1>9, <1>10, <1>11 DEF IperfInv

(* What was read is counted once, as what it was taken for.                 *)
LEMMA FrameCounted ==
  ASSUME IperfInv, ReceiveFrame
  PROVE  LET f == Head(inbox.buf)
         IN /\ tally' \in [Counters -> Nat]
            /\ tally.foreign \in Nat
            /\ Read' = IF IsProbe(f) THEN Read + 1 ELSE Read
            /\ Counted'
            /\ \/ measured' = measured /\ seqn' \in {seqn, seqn + 1}
               \/ /\ measured' = Append(measured, [seq |-> seqn, send |-> f.send, at |-> sends])
                  /\ seqn' = seqn + 1 /\ IsProbe(f) /\ f.seq = seqn
            /\ tally'.foreign = 0 => tally.foreign = 0
<1> DEFINE f == Head(inbox.buf)
           e == [seq |-> seqn, send |-> f.send, at |-> sends]
<1>1. ph = "waiting" /\ ph' = "top" /\ sends' = sends
  BY DEF ReceiveFrame, NextSeq, SameSeq
<1>2. IperfShape /\ tally \in [Counters -> Nat]  BY DEF IperfInv, IperfShape
<1>3. /\ tally.timeouts \in Nat /\ tally.crc_errors \in Nat /\ tally.foreign \in Nat
      /\ tally.failed \in Nat /\ tally.skipped \in Nat /\ tally.alien \in Nat
  BY <1>2, TallyFields
<1>4. InFlight(ph) = 1 /\ InFlight(ph') = 0  BY <1>1 DEF InFlight
<1>5. /\ seqn \in Nat /\ sends \in Nat /\ Len(measured) \in Nat /\ measured \in Seq(Measurements)
      /\ inbox.buf \in Seq(IperfFrames)
  BY <1>2, IperfFacts DEF IperfShape
<1>16. seqn \in Nat /\ sends \in Nat /\ Len(measured) \in Nat  BY <1>5
<1>6. f \in IperfFrames
  <2>1. inbox.buf # <<>>  BY DEF ReceiveFrame, HasMessage
  <2> QED BY <1>5, <2>1, HeadFirst
<1>7. IsProbe(f) => f.ours  BY <1>6, ProbeFrames, Zenon
<1>17. f.parse = "CrcMismatch" => IsProbe(f)
  <2>1. \A m \in BOOLEAN : Stray(m).parse = "Ignored"  BY DEF Stray
  <2>2. f \in Probes \/ f.parse = "Ignored"  BY <1>6, <2>1 DEF IperfFrames
  <2> HIDE DEF f
  <2>3. f \in Probes => IsProbe(f)  BY DEF Probes, IsProbe
  <2> QED BY <2>2, <2>3
<1>8. \/ ~IsProbe(f) /\ Tally("foreign") /\ seqn' = seqn /\ measured' = measured
      \/ IsProbe(f) /\ Tally("crc_errors") /\ seqn' = seqn + 1 /\ measured' = measured
      \/ IsProbe(f) /\ f.seq = seqn /\ seqn' = seqn + 1 /\ measured' = Append(measured, e)
         /\ tally' = tally
      \/ IsProbe(f) /\ Tally("skipped") /\ seqn' = seqn + 1 /\ measured' = measured
      \/ ~IsProbe(f) /\ Tally("alien") /\ seqn' = seqn + 1 /\ measured' = measured
  <2>1. \/ ~f.ours /\ Tally("foreign") /\ SameSeq /\ measured' = measured
        \/ f.parse = "CrcMismatch" /\ Tally("crc_errors") /\ NextSeq /\ measured' = measured
        \/ IsReply(f) /\ measured' = Append(measured, e) /\ NextSeq
           /\ tally' = tally
        \/ /\ Tally(IF IsProbe(f) THEN "skipped" ELSE "alien") /\ NextSeq
           /\ measured' = measured
    BY Zenon DEF ReceiveFrame
  <2>2. IsProbe(f) => (IF IsProbe(f) THEN "skipped" ELSE "alien") = "skipped"  OBVIOUS
  <2>3. ~IsProbe(f) => (IF IsProbe(f) THEN "skipped" ELSE "alien") = "alien"  OBVIOUS
  <2> DEFINE w == IF IsProbe(f) THEN "skipped" ELSE "alien"
  <2>4. /\ IsProbe(f) /\ Tally(w) => Tally("skipped")
        /\ ~IsProbe(f) /\ Tally(w) => Tally("alien")
    BY <2>2, <2>3 DEF Tally
  <2> HIDE DEF f, e
  <2> QED BY <1>7, <1>17, <2>1, <2>4, Zenon DEF SameSeq, NextSeq, IsReply, w
<1>9. /\ "foreign" \in Counters /\ "crc_errors" \in Counters /\ "skipped" \in Counters
      /\ "alien" \in Counters
  BY DEF Counters
<1> HIDE DEF f
<1>10. Len(Append(measured, e)) = Len(measured) + 1  BY <1>5
<1> HIDE DEF e
<1>11. CASE ~IsProbe(f) /\ Tally("foreign") /\ seqn' = seqn /\ measured' = measured
  <2>1. /\ tally' \in [Counters -> Nat] /\ tally'.foreign = tally.foreign + 1
        /\ tally'.timeouts = tally.timeouts /\ tally'.crc_errors = tally.crc_errors
        /\ tally'.failed = tally.failed /\ tally'.skipped = tally.skipped /\ tally'.alien = tally.alien
    BY <1>2, <1>9, <1>11, OneCounted
  <2>2. Read' = Read  BY <1>11, <2>1 DEF Read
  <2>3. Counted'
    <3>1. /\ seqn' = seqn /\ sends' = sends /\ Len(measured') = Len(measured)
          /\ tally'.foreign = tally.foreign + 1
      BY <1>1, <1>11, <2>1
    <3>2. /\ tally'.timeouts = tally.timeouts /\ tally'.crc_errors = tally.crc_errors
          /\ tally'.failed = tally.failed /\ tally'.skipped = tally.skipped
          /\ tally'.alien = tally.alien
      BY <2>1
    <3>3. /\ seqn = Total(Len(measured), tally.timeouts, tally.crc_errors,
                          tally.failed, tally.skipped, tally.alien)
          /\ sends = seqn + tally.foreign + InFlight(ph)
      BY CountedTotal DEF IperfInv
    <3>4. seqn' = Total(Len(measured'), tally'.timeouts, tally'.crc_errors,
                        tally'.failed, tally'.skipped, tally'.alien)
      BY ONLY <3>1, <3>2, <3>3, Zenon
    <3>5. sends' = seqn' + tally'.foreign + InFlight(ph')
      <4> DEFINE g == tally.foreign
      <4>1. g \in Nat /\ sends = seqn + g + 1  BY ONLY <1>3, <1>4, <3>3
      <4>2. tally'.foreign = g + 1 /\ seqn' = seqn /\ sends' = sends  BY <3>1
      <4> HIDE DEF g
      <4> QED BY ONLY <1>4, <1>16, <4>1, <4>2
    <3> QED BY <3>4, <3>5, CountedTotal
  <2>4. tally'.foreign = 0 => tally.foreign = 0  BY <1>3, <2>1
  <2> QED BY <1>3, <1>11, <2>1, <2>2, <2>3, <2>4 DEF f
<1>12. CASE IsProbe(f) /\ Tally("crc_errors") /\ seqn' = seqn + 1 /\ measured' = measured
  <2>1. /\ tally' \in [Counters -> Nat] /\ tally'.crc_errors = tally.crc_errors + 1
        /\ tally'.timeouts = tally.timeouts /\ tally'.foreign = tally.foreign
        /\ tally'.failed = tally.failed /\ tally'.skipped = tally.skipped /\ tally'.alien = tally.alien
    BY <1>2, <1>9, <1>12, OneCounted
  <2>2. Read' = Read + 1  BY <1>3, <1>5, <1>12, <2>1 DEF Read
  <2>3. Counted'
    <3>1. /\ seqn' = seqn + 1 /\ sends' = sends /\ Len(measured') = Len(measured)
          /\ tally'.foreign = tally.foreign
      BY <1>1, <1>12, <2>1
    <3>2. /\ tally'.timeouts = tally.timeouts /\ tally'.crc_errors = tally.crc_errors + 1
          /\ tally'.failed = tally.failed /\ tally'.skipped = tally.skipped
          /\ tally'.alien = tally.alien
      BY <2>1
    <3>3. /\ seqn = Total(Len(measured), tally.timeouts, tally.crc_errors,
                          tally.failed, tally.skipped, tally.alien)
          /\ sends = seqn + tally.foreign + InFlight(ph)
      BY CountedTotal DEF IperfInv
    <3>4. seqn' = Total(Len(measured'), tally'.timeouts, tally'.crc_errors,
                        tally'.failed, tally'.skipped, tally'.alien)
      <4>1. Total(Len(measured), tally.timeouts, tally.crc_errors + 1,
                  tally.failed, tally.skipped, tally.alien)
            = Counts + 1
        BY ONLY <1>2, <1>16, CountsNext
      <4> QED BY ONLY <3>1, <3>2, <3>3, <4>1, Zenon DEF Counts
    <3>5. sends' = seqn' + tally'.foreign + InFlight(ph')
      <4> DEFINE g == tally.foreign
      <4>1. g \in Nat /\ sends = seqn + g + 1  BY ONLY <1>3, <1>4, <3>3
      <4>2. tally'.foreign = g /\ seqn' = seqn + 1 /\ sends' = sends  BY <3>1
      <4> HIDE DEF g
      <4> QED BY ONLY <1>4, <1>16, <4>1, <4>2
    <3> QED BY <3>4, <3>5, CountedTotal
  <2> QED BY <1>3, <1>12, <2>1, <2>2, <2>3 DEF f
<1>13. CASE IsProbe(f) /\ f.seq = seqn /\ seqn' = seqn + 1 /\ measured' = Append(measured, e)
            /\ tally' = tally
  <2>1. Len(measured') = Len(measured) + 1  BY <1>10, <1>13
  <2>2. Read' = Read + 1
    <3>1. tally' = tally  BY <1>13
    <3>2. Read' = (Len(measured) + 1) + tally.crc_errors + tally.skipped  BY <2>1, <3>1 DEF Read
    <3>3. (Len(measured) + 1) + tally.crc_errors + tally.skipped
            = (Len(measured) + tally.crc_errors + tally.skipped) + 1
      <4> DEFINE n == Len(measured)
                 c == tally.crc_errors
                 l == tally.skipped
      <4>1. n \in Nat /\ c \in Nat /\ l \in Nat  BY <1>3, <1>16
      <4> HIDE DEF n, c, l
      <4>2. (n + 1) + c + l = (n + c + l) + 1  BY ONLY <4>1
      <4> QED BY ONLY <4>2, Zenon DEF n, c, l
    <3> QED BY ONLY <3>2, <3>3, Zenon DEF Read
  <2>3. Counted'
    <3>1. /\ seqn' = seqn + 1 /\ sends' = sends /\ Len(measured') = Len(measured) + 1
          /\ tally'.foreign = tally.foreign
      BY <1>1, <1>10, <1>13
    <3>2. /\ tally'.timeouts = tally.timeouts /\ tally'.crc_errors = tally.crc_errors
          /\ tally'.failed = tally.failed /\ tally'.skipped = tally.skipped
          /\ tally'.alien = tally.alien
      BY <1>13
    <3>3. /\ seqn = Total(Len(measured), tally.timeouts, tally.crc_errors,
                          tally.failed, tally.skipped, tally.alien)
          /\ sends = seqn + tally.foreign + InFlight(ph)
      BY CountedTotal DEF IperfInv
    <3>4. seqn' = Total(Len(measured'), tally'.timeouts, tally'.crc_errors,
                        tally'.failed, tally'.skipped, tally'.alien)
      <4>1. Total(Len(measured) + 1, tally.timeouts, tally.crc_errors,
                  tally.failed, tally.skipped, tally.alien)
            = Counts + 1
        BY ONLY <1>2, <1>16, CountsNext
      <4> QED BY ONLY <3>1, <3>2, <3>3, <4>1, Zenon DEF Counts
    <3>5. sends' = seqn' + tally'.foreign + InFlight(ph')
      <4> DEFINE g == tally.foreign
      <4>1. g \in Nat /\ sends = seqn + g + 1  BY ONLY <1>3, <1>4, <3>3
      <4>2. tally'.foreign = g /\ seqn' = seqn + 1 /\ sends' = sends  BY <3>1
      <4> HIDE DEF g
      <4> QED BY ONLY <1>4, <1>16, <4>1, <4>2
    <3> QED BY <3>4, <3>5, CountedTotal
  <2> QED BY <1>2, <1>3, <1>13, <2>2, <2>3 DEF f, e
<1>14. CASE IsProbe(f) /\ Tally("skipped") /\ seqn' = seqn + 1 /\ measured' = measured
  <2>1. /\ tally' \in [Counters -> Nat] /\ tally'.skipped = tally.skipped + 1
        /\ tally'.timeouts = tally.timeouts /\ tally'.foreign = tally.foreign
        /\ tally'.failed = tally.failed /\ tally'.crc_errors = tally.crc_errors
        /\ tally'.alien = tally.alien
    BY <1>2, <1>9, <1>14, OneCounted
  <2>2. Read' = Read + 1  BY <1>3, <1>5, <1>14, <2>1 DEF Read
  <2>3. Counted'
    <3>1. /\ seqn' = seqn + 1 /\ sends' = sends /\ Len(measured') = Len(measured)
          /\ tally'.foreign = tally.foreign
      BY <1>1, <1>14, <2>1
    <3>2. /\ tally'.timeouts = tally.timeouts /\ tally'.crc_errors = tally.crc_errors
          /\ tally'.failed = tally.failed /\ tally'.skipped = tally.skipped + 1
          /\ tally'.alien = tally.alien
      BY <2>1
    <3>3. /\ seqn = Total(Len(measured), tally.timeouts, tally.crc_errors,
                          tally.failed, tally.skipped, tally.alien)
          /\ sends = seqn + tally.foreign + InFlight(ph)
      BY CountedTotal DEF IperfInv
    <3>4. seqn' = Total(Len(measured'), tally'.timeouts, tally'.crc_errors,
                        tally'.failed, tally'.skipped, tally'.alien)
      <4>1. Total(Len(measured), tally.timeouts, tally.crc_errors,
                  tally.failed, tally.skipped + 1, tally.alien)
            = Counts + 1
        BY ONLY <1>2, <1>16, CountsNext
      <4> QED BY ONLY <3>1, <3>2, <3>3, <4>1, Zenon DEF Counts
    <3>5. sends' = seqn' + tally'.foreign + InFlight(ph')
      <4> DEFINE g == tally.foreign
      <4>1. g \in Nat /\ sends = seqn + g + 1  BY ONLY <1>3, <1>4, <3>3
      <4>2. tally'.foreign = g /\ seqn' = seqn + 1 /\ sends' = sends  BY <3>1
      <4> HIDE DEF g
      <4> QED BY ONLY <1>4, <1>16, <4>1, <4>2
    <3> QED BY <3>4, <3>5, CountedTotal
  <2> QED BY <1>3, <1>14, <2>1, <2>2, <2>3 DEF f
<1>15. CASE ~IsProbe(f) /\ Tally("alien") /\ seqn' = seqn + 1 /\ measured' = measured
  <2>1. /\ tally' \in [Counters -> Nat] /\ tally'.alien = tally.alien + 1
        /\ tally'.timeouts = tally.timeouts /\ tally'.foreign = tally.foreign
        /\ tally'.failed = tally.failed /\ tally'.crc_errors = tally.crc_errors
        /\ tally'.skipped = tally.skipped
    BY <1>2, <1>9, <1>15, OneCounted
  <2>2. Read' = Read  BY <1>15, <2>1 DEF Read
  <2>3. Counted'
    <3>1. /\ seqn' = seqn + 1 /\ sends' = sends /\ Len(measured') = Len(measured)
          /\ tally'.foreign = tally.foreign
      BY <1>1, <1>15, <2>1
    <3>2. /\ tally'.timeouts = tally.timeouts /\ tally'.crc_errors = tally.crc_errors
          /\ tally'.failed = tally.failed /\ tally'.skipped = tally.skipped
          /\ tally'.alien = tally.alien + 1
      BY <2>1
    <3>3. /\ seqn = Total(Len(measured), tally.timeouts, tally.crc_errors,
                          tally.failed, tally.skipped, tally.alien)
          /\ sends = seqn + tally.foreign + InFlight(ph)
      BY CountedTotal DEF IperfInv
    <3>4. seqn' = Total(Len(measured'), tally'.timeouts, tally'.crc_errors,
                        tally'.failed, tally'.skipped, tally'.alien)
      <4>1. Total(Len(measured), tally.timeouts, tally.crc_errors,
                  tally.failed, tally.skipped, tally.alien + 1)
            = Counts + 1
        BY ONLY <1>2, <1>16, CountsNext
      <4> QED BY ONLY <3>1, <3>2, <3>3, <4>1, Zenon DEF Counts
    <3>5. sends' = seqn' + tally'.foreign + InFlight(ph')
      <4> DEFINE g == tally.foreign
      <4>1. g \in Nat /\ sends = seqn + g + 1  BY ONLY <1>3, <1>4, <3>3
      <4>2. tally'.foreign = g /\ seqn' = seqn + 1 /\ sends' = sends  BY <3>1
      <4> HIDE DEF g
      <4> QED BY ONLY <1>4, <1>16, <4>1, <4>2
    <3> QED BY <3>4, <3>5, CountedTotal
  <2> QED BY <1>3, <1>15, <2>1, <2>2, <2>3 DEF f
<1> QED BY <1>8, <1>11, <1>12, <1>13, <1>14, <1>15

(* A probe measured is later than those before, and a straight echo is its  *)
(* own transmission's.                                                      *)
LEMMA MeasuredNext ==
  ASSUME IperfInv, NEW s \in Nat,
         measured' = Append(measured, [seq |-> seqn, send |-> s, at |-> sends]),
         seqn' = seqn + 1, tally'.foreign = 0 => tally.foreign = 0 /\ s = sends
  PROVE  measured' \in Seq(Measurements) /\ MeasuredOk'
<1> DEFINE e == [seq |-> seqn, send |-> s, at |-> sends]
           l == Len(measured)
<1>1. measured \in Seq(Measurements) /\ seqn \in Nat /\ sends \in Nat
  BY IperfFacts DEF IperfInv, IperfShape
<1>2. e \in Measurements  BY <1>1 DEF Measurements
<1>3. e.seq = seqn /\ e.send = s /\ e.at = sends  OBVIOUS
<1>4. measured' = Append(measured, e)  OBVIOUS
<1> HIDE DEF e
<1>5. /\ measured' \in Seq(Measurements) /\ l \in Nat /\ DOMAIN measured = 1..l
      /\ DOMAIN measured' = 1..(l + 1) /\ measured'[l + 1] = e
      /\ \A k \in 1..l : measured'[k] = measured[k] /\ measured[k].seq \in Nat
  <2>1. /\ measured' \in Seq(Measurements) /\ l \in Nat /\ DOMAIN measured = 1..l
        /\ DOMAIN measured' = 1..(l + 1) /\ measured'[l + 1] = e
        /\ \A k \in 1..l : measured'[k] = measured[k] /\ measured[k] \in Measurements
    BY <1>1, <1>2, <1>4
  <2> QED BY <2>1 DEF Measurements
<1> HIDE DEF l
<1>6. MeasuredOk  BY DEF IperfInv
<1>7. ASSUME NEW i \in DOMAIN measured', NEW j \in DOMAIN measured', i < j
      PROVE  measured'[i].seq < measured'[j].seq
  <2>1. i \in 1..l  BY <1>5, <1>7
  <2>2. CASE j = l + 1  BY <1>3, <1>5, <1>6, <2>1, <2>2 DEF MeasuredOk
  <2>3. CASE j # l + 1
    <3>1. j \in 1..l  BY <1>5, <1>7, <2>3
    <3> QED BY <1>5, <1>6, <1>7, <2>1, <3>1 DEF MeasuredOk
  <2> QED BY <2>2, <2>3
<1>8. ASSUME NEW i \in DOMAIN measured' PROVE measured'[i].seq < seqn'
  <2>1. CASE i = l + 1  BY <1>1, <1>3, <1>5, <2>1
  <2>2. CASE i # l + 1
    <3>1. i \in 1..l  BY <1>5, <1>8, <2>2
    <3>2. measured[i].seq < seqn  BY <1>5, <1>6, <3>1 DEF MeasuredOk
    <3> QED BY <1>1, <1>5, <3>1, <3>2
  <2> QED BY <2>1, <2>2
<1>9. ASSUME tally'.foreign = 0, NEW i \in DOMAIN measured'
      PROVE  measured'[i].send = measured'[i].at
  <2>1. CASE i = l + 1  BY <1>3, <1>5, <1>9, <2>1
  <2>2. CASE i # l + 1
    <3>1. i \in 1..l  BY <1>5, <1>9, <2>2
    <3> QED BY <1>5, <1>6, <1>9, <3>1 DEF MeasuredOk
  <2> QED BY <2>1, <2>2
<1>10. MeasuredOk'  BY <1>7, <1>8, <1>9 DEF MeasuredOk
<1> QED BY <1>5, <1>10

LEMMA ReceiveFrameKeeps == IperfInv /\ ReceiveFrame => IperfInv'
<1> SUFFICES ASSUME IperfInv, ReceiveFrame PROVE IperfInv'  OBVIOUS
<1> DEFINE b == inbox.buf
           f == Head(b)
           S == IperfFrames
<1>1. /\ ph' = "top" /\ inbox' = Taken(inbox) /\ b # <<>>
      /\ sends' = sends /\ server' = server /\ air' = air /\ lostEchoes' = lostEchoes
  BY DEF ReceiveFrame, NextSeq, SameSeq, ReadOne, HasMessage
<1>2. /\ tally' \in [Counters -> Nat] /\ tally.foreign \in Nat
      /\ Read' = IF IsProbe(f) THEN Read + 1 ELSE Read
      /\ Counted'
      /\ \/ measured' = measured /\ seqn' \in {seqn, seqn + 1}
         \/ /\ measured' = Append(measured, [seq |-> seqn, send |-> f.send, at |-> sends])
            /\ seqn' = seqn + 1 /\ IsProbe(f) /\ f.seq = seqn
      /\ tally'.foreign = 0 => tally.foreign = 0
  BY FrameCounted
<1>3. /\ IperfShape /\ inbox \in ChannelOf(S, InboxCap) /\ InboxCap \in Nat /\ b \in Seq(S)
      /\ seqn \in Nat /\ sends \in Nat /\ Read \in Nat
      /\ tally.foreign = 0 => sends = seqn + InFlight(ph)
  BY IperfFacts DEF IperfInv, IperfShape
<1>4. Taken(inbox) \in ChannelOf(S, InboxCap) /\ Taken(inbox).buf = Tail(b) /\ f \in S
  <2> HIDE DEF S
  <2> QED BY <1>1, <1>3, TakenChannel
<1>5. InFlight(ph) = 1
  <2>1. ph = "waiting"  BY DEF ReceiveFrame
  <2> QED BY <2>1 DEF InFlight
<1>6. AllStraight => Straight(f) /\ StraightIn(Tail(b))
  <2>1. AllStraight => StraightIn(b)  BY DEF AllStraight
  <2> HIDE DEF b, S
  <2> QED BY <1>1, <1>3, <2>1, TakenStraight DEF f
<1>7. PlacesOk(air, inbox.buf, server.rx.buf, lostEchoes, sends, Read)'
  <2> DEFINE x == server.rx.buf
             r == Read
  <2>1. PlacesOk(air, b, x, lostEchoes, sends, r) /\ r \in Nat  BY <1>3 DEF IperfInv
  <2> HIDE DEF b, f, x, r, S
  <2>2. PlacesOk(air, Tail(b), x, lostEchoes, sends, IF IsProbe(Head(b)) THEN r + 1 ELSE r)
    BY <1>1, <1>3, <2>1, PlacesRead
  <2>3. Read' = (IF IsProbe(Head(b)) THEN r + 1 ELSE r) /\ inbox'.buf = Tail(b)
        /\ server'.rx.buf = x
    BY <1>1, <1>2, <1>4 DEF f, r, x
  <2> QED BY <1>1, <2>2, <2>3
<1>8. measured' \in Seq(Measurements) /\ MeasuredOk'
  <2>1. CASE measured' = measured /\ seqn' \in {seqn, seqn + 1}
    <3>1. measured \in Seq(Measurements)  BY <1>3 DEF IperfShape
    <3>2. \A k \in DOMAIN measured : measured[k].seq \in Nat
      <4>1. \A k \in DOMAIN measured : measured[k] \in Measurements  BY <3>1
      <4> QED BY <4>1 DEF Measurements
    <3> QED BY <1>2, <1>3, <2>1, <3>1, <3>2 DEF IperfInv, MeasuredOk
  <2>2. CASE /\ measured' = Append(measured, [seq |-> seqn, send |-> f.send, at |-> sends])
             /\ seqn' = seqn + 1 /\ IsProbe(f) /\ f.seq = seqn
    <3>1. f.send \in Nat  BY <1>4, <2>2, ProbeFrames
    <3>2. tally'.foreign = 0 => tally.foreign = 0 /\ f.send = sends
      BY <1>2, <1>3, <1>5, <1>6, <2>2 DEF IperfInv, Straight
    <3> HIDE DEF f
    <3> QED BY <2>2, <3>1, <3>2, MeasuredNext
  <2> QED BY <1>2, <2>1, <2>2
<1> HIDE DEF b, f, S
<1>9. IperfShape'
  <2>1. seqn' \in Nat  BY <1>2, <1>3
  <2> QED BY <1>1, <1>2, <1>3, <1>4, <1>8, <2>1 DEF IperfShape, S
<1>10. AllStraight => AllStraight'  BY <1>1, <1>4, <1>6 DEF AllStraight
<1> QED BY <1>2, <1>7, <1>8, <1>9, <1>10 DEF IperfInv

LEMMA IperfInit_Inv == IperfInit => IperfInv
<1> SUFFICES ASSUME IperfInit PROVE IperfInv  OBVIOUS
<1>1. /\ ph = "top" /\ seqn = 0 /\ sends = 0 /\ inbox = Quiet /\ server = [up |-> TRUE, rx |-> Quiet]
      /\ air = {} /\ measured = <<>> /\ lostEchoes = {}
      /\ tally = [timeouts |-> 0, crc_errors |-> 0, foreign |-> 0, failed |-> 0,
                  skipped |-> 0, alien |-> 0]
  BY DEF IperfInit
<1>2. MaxSends \in Nat /\ InboxCap \in Nat \ {0}  BY IperfAssumption DEF IperfAssumption
<1>3. Quiet.buf = <<>> /\ Quiet \in ChannelOf(IperfFrames, InboxCap)
  BY <1>2 DEF Quiet, ChannelOf
<1>4. DOMAIN server = {"up", "rx"} /\ server.rx = Quiet  BY <1>1
<1>5. tally \in [Counters -> Nat]  BY <1>1 DEF Counters
<1>6. /\ tally.timeouts = 0 /\ tally.crc_errors = 0 /\ tally.foreign = 0
      /\ tally.failed = 0 /\ tally.skipped = 0 /\ tally.alien = 0
  BY <1>1
<1>7. Len(measured) = 0 /\ DOMAIN measured = {} /\ measured \in Seq(Measurements)
  BY <1>1
<1>8. IperfShape  BY <1>1, <1>2, <1>3, <1>4, <1>5, <1>7 DEF IperfShape
<1>9. InFlight(ph) = 0  BY <1>1 DEF InFlight
<1>10. Counted
  <2>1. Counts = 0  BY <1>6, <1>7 DEF Counts, Total
  <2> QED BY <1>1, <1>6, <1>9, <2>1, CountedTotal DEF Counts
<1>11. Read = 0  BY <1>6, <1>7 DEF Read
<1>12. PlacesOk(air, inbox.buf, server.rx.buf, lostEchoes, sends, Read)
  <2>1. AirSends({}) = {}  BY DEF AirSends
  <2>2. SendsIn(<<>>) = {} /\ EachOnce(<<>>) /\ \A k \in DOMAIN <<>> : IsProbe(<<>>[k])
    BY SendsOf DEF EachOnce
  <2>3. Fit({}, {}, {}, {}, 0, 0)
    <3>1. Places({}, {}, {}, {}) = {} /\ Apart({}, {}, {}, {})  BY DEF Places, Apart
    <3>2. Cardinality({}) = 0  BY FS_EmptySet
    <3> QED BY <3>1, <3>2 DEF Fit
  <2>4. PlacesOk({}, <<>>, <<>>, {}, 0, 0)  BY <2>1, <2>2, <2>3 DEF PlacesOk
  <2> QED BY <1>1, <1>3, <1>4, <1>11, <2>4
<1>13. AllStraight
  <2>1. StraightIn(<<>>)  BY DEF StraightIn
  <2> QED BY <1>1, <1>3, <1>4, <2>1 DEF AllStraight
<1>14. MeasuredOk  BY <1>7 DEF MeasuredOk
<1> QED BY <1>8, <1>10, <1>12, <1>13, <1>14 DEF IperfInv

LEMMA IperfInvStep == IperfInv /\ [IperfNext]_iperfVars => IperfInv'
<1> SUFFICES ASSUME IperfInv, [IperfNext]_iperfVars PROVE IperfInv'  OBVIOUS
<1>1. CASE Transmit  BY <1>1, TransmitKeeps
<1>2. CASE TransmitOk  BY <1>2, TransmitOkKeeps
<1>3. CASE TransmitFails  BY <1>3, TransmitFailsKeeps
<1>4. CASE ReceiveFrame  BY <1>4, ReceiveFrameKeeps
<1>5. CASE ResponseTimeout  BY <1>5, ResponseTimeoutKeeps
<1>6. CASE TestOver  BY <1>6, TestOverKeeps
<1>7. CASE ArriveWhole  BY <1>7, ArriveWholeKeeps
<1>8. CASE ArriveDamaged  BY <1>8, ArriveDamagedKeeps
<1>9. CASE Vanish  BY <1>9, VanishKeeps
<1>10. CASE StrayArrives  BY <1>10, StrayArrivesKeeps
<1>11. CASE Echo  BY <1>11, EchoKeeps
<1>12. CASE ServerEnds  BY <1>12, ServerEndsKeeps
<1>13. CASE NobodyListens  BY <1>13, NobodyListensKeeps
<1>14. CASE UNCHANGED iperfVars
  <2>1. /\ ph' = ph /\ seqn' = seqn /\ sends' = sends /\ inbox' = inbox /\ server' = server
        /\ air' = air /\ measured' = measured /\ tally' = tally /\ lostEchoes' = lostEchoes
    BY <1>14 DEF iperfVars
  <2>2. IperfShape'  BY <2>1 DEF IperfInv, IperfShape
  <2>3. Counted' /\ MeasuredOk'  BY <2>1 DEF IperfInv, Counted, MeasuredOk
  <2>4. PlacesOk(air, inbox.buf, server.rx.buf, lostEchoes, sends, Read)'
    BY <2>1 DEF IperfInv, Read
  <2>5. AllStraight => AllStraight'  BY <2>1 DEF AllStraight
  <2> QED BY <2>1, <2>2, <2>3, <2>4, <2>5 DEF IperfInv
<1> QED BY <1>1, <1>2, <1>3, <1>4, <1>5, <1>6, <1>7, <1>8, <1>9, <1>10, <1>11, <1>12, <1>13, <1>14,
           Zenon DEF IperfNext, ClientTurn

LEMMA IperfInvAlways == IperfSpec => []IperfInv
<1>1. IperfInit => IperfInv  BY IperfInit_Inv
<1>2. IperfInv /\ [IperfNext]_iperfVars => IperfInv'  BY IperfInvStep
<1> QED BY <1>1, <1>2, PTL DEF IperfSpec

(* The transmissions whose echo may still come are those in the three       *)
(* places, which have none in common with the lost ones.                    *)
LEMMA OutstandingPlaces ==
  ASSUME IperfInv
  PROVE  /\ IsFiniteSet(Outstanding) /\ IsFiniteSet(lostEchoes)
         /\ Cardinality(Outstanding) \in Nat /\ Cardinality(lostEchoes) \in Nat
         /\ Cardinality(Outstanding) + Cardinality(lostEchoes) + Read = sends
<1> DEFINE A == AirSends(air)
           I == SendsIn(inbox.buf)
           X == SendsIn(server.rx.buf)
           L == lostEchoes
<1>1. Fit(A, I, X, L, sends, Read) /\ \A p \in air : IsProbe(p[2])  BY DEF IperfInv, PlacesOk
<1>2. Outstanding = A \cup I \cup X
  <2>1. \A fs, k : k \in Sends(fs) <=> \E f \in fs : IsProbe(f) /\ f.send = k  BY DEF Sends
  <2> DEFINE F == {p[2] : p \in air}
             G == {inbox.buf[i] : i \in DOMAIN inbox.buf}
             H == {server.rx.buf[i] : i \in DOMAIN server.rx.buf}
  <2>2. Outstanding = Sends(F \cup G \cup H)  BY DEF Outstanding, Listed
  <2>3. I = Sends(G) /\ X = Sends(H)  BY DEF SendsIn
  <2>4. A = Sends(F)
    <3>1. ASSUME NEW k \in A PROVE k \in Sends(F)
      <4>1. PICK p \in air : p[2].send = k  BY <3>1 DEF AirSends
      <4> QED BY <1>1, <2>1, <4>1
    <3>2. ASSUME NEW k \in Sends(F) PROVE k \in A
      <4>1. PICK f \in F : IsProbe(f) /\ f.send = k  BY <2>1, <3>2
      <4> QED BY <4>1 DEF AirSends
    <3> QED BY <3>1, <3>2
  <2> HIDE DEF F, G, H
  <2>5. Sends(F \cup G \cup H) = Sends(F) \cup Sends(G) \cup Sends(H)  BY <2>1
  <2> QED BY <2>2, <2>3, <2>4, <2>5
<1>3. sends \in Nat /\ Read \in Nat  BY IperfFacts
<1> HIDE DEF A, I, X, L
<1>4. IsFiniteSet(Places(A, I, X, L))  BY <1>1, <1>3, FitAll
<1> DEFINE O == A \cup I \cup X
<1>5. O \cap L = {} /\ O \cup L = Places(A, I, X, L)  BY <1>1 DEF Fit, Apart, Places
<1>6. O \subseteq Places(A, I, X, L) /\ L \subseteq Places(A, I, X, L)  BY <1>5
<1>7. IsFiniteSet(O) /\ IsFiniteSet(L)  BY <1>4, <1>6, FS_Subset
<1> HIDE DEF O
<1>8. Cardinality(O) \in Nat /\ Cardinality(L) \in Nat  BY <1>7, FS_CardinalityType
<1>9. Cardinality(O \cup L) = Cardinality(O) + Cardinality(L)
  <2>1. Cardinality(O \cup L) = Cardinality(O) + Cardinality(L) - Cardinality(O \cap L)
    BY <1>7, FS_Union
  <2>2. Cardinality(O \cap L) = 0  BY <1>5, FS_EmptySet
  <2> QED BY <1>8, <2>1, <2>2
<1>10. Cardinality(O \cup L) + Read = sends  BY <1>1, <1>5 DEF Fit
<1> QED BY <1>2, <1>7, <1>8, <1>9, <1>10 DEF O, L

LEMMA InvResults == IperfInv => ResultsHold
<1> SUFFICES ASSUME IperfInv PROVE ResultsHold  OBVIOUS
<1> DEFINE n == Len(measured)
           t == tally.timeouts
           c == tally.crc_errors
           d == tally.failed
           l == tally.skipped
           z == tally.alien
           g == tally.foreign
           o == Cardinality(Outstanding)
           k == Cardinality(lostEchoes)
<1>1. /\ n \in Nat /\ t \in Nat /\ c \in Nat /\ d \in Nat /\ l \in Nat /\ z \in Nat /\ g \in Nat
      /\ seqn \in Nat /\ sends \in Nat
  BY IperfFacts, TallyFields DEF IperfInv, IperfShape
<1>2. Read = n + c + l  BY DEF Read
<1>3. o \in Nat /\ k \in Nat /\ o + k + Read = sends  BY OutstandingPlaces
<1>4. seqn = n + t + c + d + l + z /\ sends = seqn + g + InFlight(ph)  BY DEF IperfInv, Counted
<1>5. ph \in {"top", "done"} => InFlight(ph) = 0  BY DEF InFlight
<1>6. MeasuredOnce  BY DEF IperfInv, MeasuredOk, MeasuredOnce
<1> HIDE DEF n, t, c, d, l, z, g, o, k
<1>7. ph \in {"top", "done"} => sends = seqn + g  BY ONLY <1>1, <1>4, <1>5
<1>8. ResultsAddUp  BY <1>4, <1>7 DEF ResultsAddUp, n, t, c, d, l, z, g
<1>9. ph = "top" => o + k = t + d + g + z  BY ONLY <1>1, <1>2, <1>3, <1>4, <1>7
<1>10. NeverCatchesUp  BY <1>9 DEF NeverCatchesUp, o, k, t, d, g, z
<1> QED BY <1>6, <1>8, <1>10 DEF ResultsHold

LEMMA InvIperfTypes == IperfInv => IperfTypeOK
<1> SUFFICES ASSUME IperfInv PROVE IperfTypeOK  OBVIOUS
<1>1. IperfShape  BY DEF IperfInv
<1>2. seqn \in 0..sends /\ sends \in 0..MaxSends /\ InboxCap \in Nat /\ MaxSends \in Nat
  BY IperfFacts
<1>3. IsChannel(inbox, IperfFrames, InboxCap) /\ IsChannel(server.rx, IperfFrames, InboxCap)
  BY <1>1, <1>2, ChannelTyped DEF IperfShape
<1>4. lostEchoes \subseteq 1..MaxSends
  <2>1. lostEchoes \subseteq 1..sends  BY DEF IperfInv, PlacesOk, Fit, Places
  <2> QED BY <1>2, <2>1
<1> QED BY <1>1, <1>2, <1>3, <1>4 DEF IperfShape, IperfTypeOK

(* The client's phase, its numbers, both channels within their capacity and *)
(* the frames on the air stay among their values, for any number of         *)
(* transmissions and any capacity (Iperf!IperfTypeOK).                      *)
THEOREM IperfTypeCorrect == IperfSpec => []IperfTypeOK
<1>1. IperfInv => IperfTypeOK  BY InvIperfTypes
<1> QED BY <1>1, IperfInvAlways, PTL

(* The results of a test add up, no probe is measured twice nor by another  *)
(* one's echo unless a frame of another module came between, and every wait *)
(* that ended without an echo leaves one to be read later or lost           *)
(* (run_client and print_results of main.rs).                               *)
THEOREM ResultsHoldAlways == IperfSpec => []ResultsHold
<1>1. IperfInv => ResultsHold  BY InvResults
<1> QED BY <1>1, IperfInvAlways, PTL

--------------------------------------------------------------------------------
(****************************************************************************)
(* The parts put together: a behaviour of all is a behaviour of each.       *)
(****************************************************************************)
LEMMA PartsStart ==
  PartsInit => /\ DemuxInit /\ HasherInit /\ Init /\ SessionsInit /\ IperfInit /\ TuiInit
               /\ FormInit
BY DEF PartsInit

LEMMA PartsStep ==
  [PartsNext]_partsVars =>
    /\ [DemuxNext]_demuxVars /\ [HasherNext]_hasherVars /\ [Next]_vars
    /\ [SessionsNext]_sessionsVars /\ [IperfNext]_iperfVars /\ [TuiNext]_tuiVars
    /\ [FormNext]_formVars
<1>1. PartsNext =>
        /\ [DemuxNext]_demuxVars /\ [HasherNext]_hasherVars /\ [Next]_vars
        /\ [SessionsNext]_sessionsVars /\ [IperfNext]_iperfVars /\ [TuiNext]_tuiVars
        /\ [FormNext]_formVars
  BY Zenon DEF PartsNext
<1>2. UNCHANGED partsVars =>
        /\ UNCHANGED demuxVars /\ UNCHANGED hasherVars /\ UNCHANGED vars
        /\ UNCHANGED sessionsVars /\ UNCHANGED iperfVars /\ UNCHANGED tuiVars
        /\ UNCHANGED formVars
  BY DEF partsVars
<1> QED BY <1>1, <1>2, Zenon

(* Every part keeps its types and its bounds, in the run of all parts as in *)
(* its own specification (PartsTypeOK).                                     *)
THEOREM PartsTypeCorrect == PartsSpec => []PartsTypeOK
<1>1. PartsSpec => DemuxSpec /\ HasherSpec /\ Spec /\ IperfSpec /\ FormSpec
  BY PartsStart, PartsStep, PTL DEF PartsSpec, DemuxSpec, HasherSpec, Spec, IperfSpec, FormSpec
<1>2. PartsSpec => []SessionsInv /\ []TuiInv
  <2>1. TuiInv /\ [TuiNext]_tuiVars => TuiInv'  BY TuiInvStep
  <2> QED BY PartsStart, PartsStep, SessionsInvInit, SessionsInvNext, TuiInit_Inv, <2>1, PTL
          DEF PartsSpec
<1>3. SessionsInv => SessionsTypeOK  BY DEF SessionsInv, SessionsTypeInv, SessionsTypeOK
<1>4. /\ DemuxTypeOK /\ HasherTypeOK /\ TypeOK /\ SessionsTypeOK /\ IperfTypeOK /\ TuiTypeOK
      /\ FormTypeOK
      => PartsTypeOK
  BY DEF PartsTypeOK
<1> QED BY <1>1, <1>2, <1>3, <1>4, InvTuiTypes, DemuxTypeCorrect, HasherTypeCorrect,
           EventsTypeCorrect, IperfTypeCorrect, FormTypeCorrect, PTL
================================================================================
