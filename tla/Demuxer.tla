-------------------------------- MODULE Demuxer --------------------------------
(****************************************************************************)
(* Splitting a payload into segments (kaonic-net/src/demuxer.rs) and what   *)
(* is left of a segment's header after Header::pack and Header::unpack      *)
(* (packet.rs): seq and seq_count keep their low four bits, len its low     *)
(* sixteen, and the decoder cuts the payload to len (coder.rs).             *)
(*                                                                          *)
(* A payload is its length; a segment stands for the bytes from its offset  *)
(* on.  One step is one turn of the loop of demultiplex.                    *)
(****************************************************************************)
EXTENDS Integers, Sequences, FiniteSetsExt

CONSTANTS
  R,             \* const generic R: total_size is segment_size * R
  SegmentSize,   \* the coder's MAX_PAYLOAD_SIZE
  Buffers,       \* packets.len(), the packets the caller offers
  Lengths,       \* payload lengths
  SeqValues,     \* values of a four-bit field
  LenValues      \* values of a u16

ASSUME SizesAssumption ==
  /\ R \in Nat /\ Buffers \in Nat
  /\ SegmentSize \in Nat \ {0}
  /\ Lengths \subseteq Nat
  /\ SeqValues \in Nat \ {0} /\ LenValues \in Nat \ {0}

(* The code instantiates R with 5 and 6; a full packet of 16 segments would *)
(* announce none.                                                           *)
ASSUME HeaderAssumption == R < SeqValues

VARIABLES
  total_len,   \* payload_data.len()
  offset,      \* bytes split so far
  seq,         \* index of the next packet
  packets,     \* the packets built so far
  result       \* what demultiplex returns, or "splitting"

demuxVars == <<total_len, offset, seq, packets, result>>

DivRoundUp(n, d) == n \div d + (IF n % d # 0 THEN 1 ELSE 0)

(* Mutant: the remainder forgotten. *)
SeqCountTruncated == total_len \div SegmentSize

SeqCount == DivRoundUp(total_len, SegmentSize)

(* The three checks before the loop. *)
Refused(len) ==
  \/ len > SegmentSize * R
  \/ SegmentSize > LenValues - 1
  \/ DivRoundUp(len, SegmentSize) > Buffers

DemuxInit ==
  /\ total_len \in Lengths
  /\ offset = 0
  /\ seq = 0
  /\ packets = <<>>
  /\ result = IF Refused(total_len) THEN "PayloadTooBig" ELSE "splitting"

Looping == result = "splitting" /\ offset < total_len

ChunkLen == IF offset + SegmentSize < total_len THEN SegmentSize ELSE total_len - offset

Split ==
  /\ Looping
  /\ seq < Buffers
  /\ packets' = Append(packets, [seq       |-> seq,
                                 seq_count |-> SeqCount,
                                 offset    |-> offset,
                                 len       |-> ChunkLen])
  /\ offset' = offset + ChunkLen
  /\ seq' = seq + 1
  /\ UNCHANGED <<total_len, result>>

Return ==
  /\ result = "splitting"
  /\ offset >= total_len
  /\ result' = "Ok"
  /\ UNCHANGED <<total_len, offset, seq, packets>>

DemuxNext == Split \/ Return

DemuxSpec == DemuxInit /\ [][DemuxNext]_demuxVars

--------------------------------------------------------------------------------
(* What the receiver reads from the header of a packet: pack masks seq and  *)
(* seq_count, unpack reads len, and decode resizes the payload to it.       *)
Decoded(p) ==
  [seq       |-> p.seq % SeqValues,
   seq_count |-> p.seq_count % SeqValues,
   offset    |-> p.offset,
   len       |-> Min({p.len, p.len % LenValues})]

(* The receiver's decision that it holds the packet, and what it assembles  *)
(* (muxer.rs): as soon as it holds seq_count segments.                      *)
CompleteAfter(n) ==
  n >= 1 /\ n >= Decoded(packets[1]).seq_count

DemuxTypeOK ==
  /\ total_len \in Lengths
  /\ offset \in 0..total_len
  /\ seq = Len(packets)
  /\ result \in {"splitting", "Ok", "PayloadTooBig"}
  /\ \A i \in DOMAIN packets :
       packets[i] \in [seq : Nat, seq_count : Nat, offset : Nat, len : Nat]

(* The packets tile the payload: each starts where the one before ends,     *)
(* none is empty or longer than a frame, and there are at most seq_count of *)
(* them, so the packets array is never indexed past its end and the loop's  *)
(* own bound, which is one too lax (demuxer.rs:59), is never needed.        *)
Tiling ==
  /\ \A i \in DOMAIN packets :
       /\ packets[i].seq = i - 1
       /\ packets[i].len \in 1..SegmentSize
       /\ packets[i].offset = IF i = 1 THEN 0 ELSE packets[i - 1].offset + packets[i - 1].len
  /\ offset = IF packets = <<>> THEN 0
              ELSE packets[Len(packets)].offset + packets[Len(packets)].len
  /\ Looping => seq < SeqCount /\ SeqCount <= Buffers

(* What a receiver decodes from the finished packets is the payload: the    *)
(* positions and lengths survive the header's narrow fields, the count it   *)
(* waits for is the number of packets sent, and it does not stop before the *)
(* last one.                                                                *)
SurvivesTheWire ==
  result = "Ok" =>
    /\ offset = total_len
    /\ Len(packets) = SeqCount
    /\ \A i \in DOMAIN packets :
         /\ Decoded(packets[i]) = packets[i]
         /\ CompleteAfter(i) => i = Len(packets)

(* The split as the receiver sees it: the payload tiled, and all of it read. *)
Demultiplexed == Tiling /\ SurvivesTheWire
================================================================================
