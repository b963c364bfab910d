--------------------------------- MODULE Iperf ---------------------------------
(****************************************************************************)
(* The round-trip measurement of kaonic-iperf (main.rs): run_client sends   *)
(* numbered probes and takes the next frame it receives for the reply;      *)
(* run_server, at another radio, sends back every valid probe.              *)
(*                                                                          *)
(* A frame is a probe with its seq and the number of the transmission that  *)
(* put it on the air, what parse_packet makes of it and whether it came     *)
(* from the module under test; any other traffic, which is taken to be no   *)
(* other iperf's, is a Stray.  One step is one turn of a loop up to its     *)
(* next await.                                                              *)
(****************************************************************************)
EXTENDS Channels, FiniteSets

CONSTANTS
  MaxSends,    \* bound: transmissions, in place of the test's duration
  MaxStrays,   \* bound: other frames
  MaxDamage,   \* bound: probes damaged on the air
  InboxCap     \* the module_receive channel

ASSUME IperfAssumption ==
  /\ {MaxSends, MaxStrays, MaxDamage} \subseteq Nat
  /\ InboxCap \in Nat \ {0}

VARIABLES
  ph,          \* the client: "top", "sending", "refused", "waiting" or "done"
  seqn,        \* seq
  sends,       \* transmissions made so far
  inbox,       \* module_rx of the client
  server,      \* module_rx of the server, and whether its loop still runs
  air,         \* frames on the air: their destination and the frame
  measured,    \* the probes whose RTT was taken, in order
  tally,       \* timeouts, crc_errors, and what the results do not show
  lostEchoes,  \* transmissions nobody will answer any more (history)
  strays,      \* other frames so far
  damage       \* frames damaged so far

iperfVars == <<ph, seqn, sends, inbox, server, air, measured, tally, lostEchoes,
             strays, damage>>

(* parse_packet: its errors TooShort and BadMagic are both "Ignored".        *)
ParseErrors == {"CrcMismatch", "Ignored"}

Stray(m) == [seq |-> 0, send |-> 0, parse |-> "Ignored", ours |-> m]
Probe(n, k) == [seq |-> n, send |-> k, parse |-> "Ok", ours |-> TRUE]
IsProbe(f) == f.send > 0

Probes == [seq : 0..MaxSends, send : 1..MaxSends, parse : {"Ok"} \cup ParseErrors, ours : {TRUE}]
IperfFrames == {Stray(m) : m \in BOOLEAN} \cup Probes

IperfInit ==
  /\ ph = "top" /\ seqn = 0 /\ sends = 0
  /\ inbox = Quiet
  /\ server = [up |-> TRUE, rx |-> Quiet]
  /\ air = {}
  /\ measured = <<>>
  /\ tally = [timeouts |-> 0, crc_errors |-> 0, foreign |-> 0, failed |-> 0,
              skipped |-> 0, alien |-> 0]
  /\ lostEchoes = {}
  /\ strays = 0 /\ damage = 0

Tally(what) == tally' = [tally EXCEPT ![what] = @ + 1]

Sends(fs) == {f.send : f \in {g \in fs : IsProbe(g)}}

--------------------------------------------------------------------------------
(* The client. *)

NextSeq == ph' = "top" /\ seqn' = seqn + 1

SameSeq == ph' = "top" /\ seqn' = seqn

(* fill_packet and the call of transmit: the probe goes on the air, or the  *)
(* server refuses it; either way the answer is awaited.                     *)
Transmit ==
  /\ ph = "top" /\ sends < MaxSends
  /\ sends' = sends + 1
  /\ \/ /\ air' = air \cup {<<"server", Probe(seqn, sends + 1)>>}
        /\ UNCHANGED lostEchoes
        /\ ph' = "sending"
     \/ /\ air' = air /\ lostEchoes' = lostEchoes \cup {sends + 1}
        /\ ph' = "refused"
  /\ UNCHANGED <<seqn, inbox, server, measured, tally, strays, damage>>

TransmitOk ==
  /\ ph = "sending"
  /\ ph' = "waiting"
  /\ UNCHANGED <<seqn, sends, inbox, server, air, measured, tally, lostEchoes, strays, damage>>

(* An error, of a probe that may have gone out nevertheless (the answer was *)
(* late), skips the wait.                                                   *)
TransmitFails ==
  /\ ph \in {"sending", "refused"}
  /\ NextSeq
  /\ Tally("failed")
  /\ UNCHANGED <<sends, inbox, server, air, measured, lostEchoes, strays, damage>>

(* Mutant: any probe will do. *)
AnyProbe(f) == IsProbe(f)

IsReply(f) == IsProbe(f) /\ f.seq = seqn

ReadOne == inbox' = Taken(inbox)

(* The next frame, whatever it is, ends the wait.  Only a measurement and a *)
(* CRC error are counted: a probe that comes late, one damaged so that it   *)
(* is none any more, and other traffic are passed over.                     *)
ReceiveFrame ==
  /\ ph = "waiting" /\ HasMessage(inbox)
  /\ LET f == Head(inbox.buf)
         replies == f.parse = "Ok" /\ IsReply(f)
     IN \/ /\ ~f.ours
           /\ Tally("foreign") /\ SameSeq
           /\ UNCHANGED measured
        \/ /\ f.ours /\ f.parse = "CrcMismatch"
           /\ Tally("crc_errors") /\ NextSeq
           /\ UNCHANGED measured
        \/ /\ f.ours /\ replies
           /\ measured' = Append(measured, [seq |-> seqn, send |-> f.send, at |-> sends])
           /\ NextSeq
           /\ UNCHANGED tally
        \/ /\ f.ours /\ f.parse # "CrcMismatch" /\ ~replies
           /\ Tally(IF IsProbe(f) THEN "skipped" ELSE "alien") /\ NextSeq
           /\ UNCHANGED measured
  /\ ReadOne
  /\ UNCHANGED <<sends, server, air, lostEchoes, strays, damage>>

(* recv returns Lagged, or RESPONSE_TIMEOUT_MS pass without a frame. *)
ResponseTimeout ==
  /\ ph = "waiting"
  /\ \/ HasLagged(inbox) /\ inbox' = LagSeen(inbox)
     \/ ~HasLagged(inbox) /\ ~HasMessage(inbox) /\ UNCHANGED inbox
  /\ Tally("timeouts") /\ NextSeq
  /\ UNCHANGED <<sends, server, air, measured, lostEchoes, strays, damage>>

(* The duration is over; it is looked at between two turns only. *)
TestOver ==
  /\ ph = "top"
  /\ ph' = "done"
  /\ UNCHANGED <<seqn, sends, inbox, server, air, measured, tally, lostEchoes, strays, damage>>

--------------------------------------------------------------------------------
(* The air: a frame arrives at its receiver's channel in any order, or is   *)
(* lost; a probe may arrive damaged.                                        *)

Publish(to, f) ==
  IF to = "client"
  THEN /\ inbox' = Published(inbox, InboxCap, f)
       /\ lostEchoes' = lostEchoes \cup Sends(Overwritten(inbox, InboxCap))
       /\ UNCHANGED server
  ELSE /\ server' = [server EXCEPT !.rx = Published(@, InboxCap, f)]
       /\ lostEchoes' = lostEchoes \cup Sends(Overwritten(server.rx, InboxCap))
       /\ UNCHANGED inbox

(* Damage, which may reach the magic bytes or the length.                   *)
Hit(f, e) == [f EXCEPT !.parse = e]

ArriveWhole ==
  /\ \E p \in air : air' = air \ {p} /\ Publish(p[1], p[2])
  /\ UNCHANGED <<ph, seqn, sends, measured, tally, strays, damage>>

ArriveDamaged ==
  /\ damage < MaxDamage /\ damage' = damage + 1
  /\ \E p \in air, e \in ParseErrors : air' = air \ {p} /\ Publish(p[1], Hit(p[2], e))
  /\ UNCHANGED <<ph, seqn, sends, measured, tally, strays>>

Vanish ==
  /\ \E p \in air : air' = air \ {p} /\ lostEchoes' = lostEchoes \cup {p[2].send}
  /\ UNCHANGED <<ph, seqn, sends, inbox, server, measured, tally, strays, damage>>

(* Somebody else's frame, on this module or another one of the client's. *)
StrayArrives ==
  /\ strays < MaxStrays
  /\ \E ours \in BOOLEAN : inbox' = Published(inbox, InboxCap, Stray(ours))
  /\ lostEchoes' = lostEchoes \cup Sends(Overwritten(inbox, InboxCap))
  /\ strays' = strays + 1
  /\ UNCHANGED <<ph, seqn, sends, server, air, measured, tally, damage>>

--------------------------------------------------------------------------------
(* The server: a valid probe is transmitted as it came, which may fail;     *)
(* anything else is counted; at Lagged the program ends.                    *)

Parses(f) == f.parse = "Ok"

Echo ==
  /\ server.up /\ HasMessage(server.rx)
  /\ LET f == Head(server.rx.buf)
     IN \/ /\ Parses(f)
           /\ air' = air \cup {<<"client", f>>} /\ UNCHANGED lostEchoes
        \/ /\ air' = air /\ lostEchoes' = lostEchoes \cup {f.send}
  /\ server' = [server EXCEPT !.rx = Taken(@)]
  /\ UNCHANGED <<ph, seqn, sends, inbox, measured, tally, strays, damage>>

ServerEnds ==
  /\ server.up /\ HasLagged(server.rx)
  /\ server' = [server EXCEPT !.up = FALSE, !.rx = Quiet]
  /\ lostEchoes' = lostEchoes \cup Sends({server.rx.buf[i] : i \in DOMAIN server.rx.buf})
  /\ UNCHANGED <<ph, seqn, sends, inbox, air, measured, tally, strays, damage>>

(* A probe that comes after the end is heard by nobody. *)
NobodyListens ==
  /\ ~server.up
  /\ server.rx.buf # <<>>
  /\ lostEchoes' = lostEchoes \cup Sends({server.rx.buf[i] : i \in DOMAIN server.rx.buf})
  /\ server' = [server EXCEPT !.rx = Quiet]
  /\ UNCHANGED <<ph, seqn, sends, inbox, air, measured, tally, strays, damage>>

ClientTurn ==
  Transmit \/ TransmitOk \/ TransmitFails \/ ReceiveFrame \/ ResponseTimeout \/ TestOver

IperfNext ==
  \/ ClientTurn
  \/ ArriveWhole \/ ArriveDamaged \/ Vanish \/ StrayArrives
  \/ Echo \/ ServerEnds \/ NobodyListens

IperfSpec == IperfInit /\ [][IperfNext]_iperfVars

--------------------------------------------------------------------------------
Listed(ch) == {ch.buf[i] : i \in DOMAIN ch.buf}

(* Transmissions whose echo may still be read. *)
Outstanding == Sends({p[2] : p \in air} \cup Listed(inbox) \cup Listed(server.rx))

IperfTypeOK ==
  /\ ph \in {"top", "sending", "refused", "waiting", "done"}
  /\ sends \in 0..MaxSends /\ seqn \in 0..sends
  /\ IsChannel(inbox, IperfFrames, InboxCap)
  /\ IsChannel(server.rx, IperfFrames, InboxCap)
  /\ air \subseteq {"server", "client"} \X IperfFrames
  /\ lostEchoes \subseteq 1..MaxSends

(* The number of packets reported as sent is what the results show of them, *)
(* measured, timed out or with a CRC error, and the transmissions that      *)
(* failed and the frames that were passed over, which they do not show: so  *)
(* the subtraction behind the packet loss never goes below zero.  Only a    *)
(* frame of another module sends a probe that is not in that number.        *)
ResultsAddUp ==
  ph \in {"top", "done"} =>
    /\ seqn = Len(measured) + tally.timeouts + tally.crc_errors + tally.failed
            + tally.skipped + tally.alien
    /\ sends = seqn + tally.foreign

(* No seq is measured twice, though a frame of another module makes the     *)
(* client send one again, and an echo counts for its own transmission       *)
(* unless that happened.                                                    *)
MeasuredOnce ==
  /\ \A i, j \in DOMAIN measured : i < j => measured[i].seq < measured[j].seq
  /\ tally.foreign = 0 => \A i \in DOMAIN measured : measured[i].send = measured[i].at

(* The client never catches up: every wait that ended without an echo (a    *)
(* timeout, a refusal, a frame of other traffic) leaves one that is still   *)
(* to be read as the reply to a later probe, unless it was lost.            *)
NeverCatchesUp ==
  ph = "top" =>
    Cardinality(Outstanding) + Cardinality(lostEchoes)
      = tally.timeouts + tally.failed + tally.foreign + tally.alien

(* What the results of a test can be taken for. *)
ResultsHold == ResultsAddUp /\ MeasuredOnce /\ NeverCatchesUp
================================================================================
