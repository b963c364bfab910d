------------------------------ MODULE RadioProofs ------------------------------
(****************************************************************************)
(* The invariants of Radio, for any configurations of the two bands, tries, *)
(* requests, frames on either band and edges that the kernel queues.        *)
(*                                                                          *)
(* Where the runtime's thread is decides what may be on, and which status   *)
(* registers have been read: Transmitting says it of the transceivers,      *)
(* PolledSoFar of the polls, EdgeKept of the interrupt line and Counted of  *)
(* the frames of each band.                                                 *)
(****************************************************************************)
EXTENDS Radio, SequenceTheorems, TLAPS

TurnInv ==
  /\ pc = "update" \/ turn \in 1..2
  /\ pc \in {"idle", "receive", "polled", "load", "assess", "wait"} => turn = 1

(* A flag that is set, seen or unseen, is of a frame in the buffer.         *)
FrameKept ==
  /\ \A b \in Bands : Unseen(b) => buffer[b] > 0
  /\ pc = "load" => buffer[Tuned] > 0
  /\ pc = "frame" => held > 0

TypeInv == TypeOK /\ TurnInv /\ FrameKept

(* While the driver waits, the two bits tell how the measurement ended, and *)
(* the baseband is on again when it went to send.                           *)
Waiting ==
  \/ chip[Tuned] = "Cca" /\ rf[Tuned] = {} /\ ~bben[Tuned]
  \/ chip[Tuned] \in {"Tx", "TrxPrep"} /\ rf[Tuned] = {"TRXRDY"} /\ bben[Tuned]
  \/ chip[Tuned] = "Rx" /\ rf[Tuned] = {"TRXERR"} /\ ~bben[Tuned]

Transmitting ==
  /\ pc = "wait" => Waiting
  /\ pc = "transmitted" => bben[Tuned]
  /\ pc \in {"transmitted", "unanswered"} /\ turn = 2 =>
       chip["09"] \in {"Rx", "Cca", "Tx"} \/ bb["09"] # {}

(* A poll of the tuned band follows update_event, or the time is over; a    *)
(* flag in the driver's mask waits for one.                                 *)
PolledSoFar ==
  /\ pc = "update" => unpolled = Bands
  /\ pc = "receive" => unpolled = Bands \/ Tuned \notin unpolled
  /\ pc \in {"polled", "load", "frame"} => Tuned \notin unpolled
  /\ \A b \in Bands : mask[b] => b \in unpolled

(* The radio's registers that update_event has read stay empty, unless a    *)
(* measurement that was given up ends, and the basebands' are read by the   *)
(* polls, unless a band is not polled; after the polls the next bit to be   *)
(* set raises the line.                                                     *)
EdgeKept ==
  \/ Told \/ late
  \/ CASE pc = "update" -> (turn > 1 => rf["09"] = {}) /\ (turn > 3 => rf["24"] = {})
       [] pc = "receive" /\ Tuned \in unpolled -> \A b \in Bands : rf[b] = {}
       [] OTHER -> ~Pending(rf, bb) \/ Overlooked

(* Every frame that ended on a band is published, or in hand, or announced  *)
(* by a flag, or lost to a newer one; the buffer holds the newest.          *)
InHand(b)    == IF pc \in {"load", "frame"} /\ b = Tuned THEN 1 ELSE 0
Announced(b) == IF Unseen(b) THEN 1 ELSE 0

CountedOn(b) ==
  /\ buffer[b] = ended[b]
  /\ Len(published[b]) + InHand(b) + Announced(b) <= ended[b]
  /\ pc = "frame" /\ b = Tuned =>
       /\ Len(published[b]) < held /\ held <= ended[b]
       /\ \A i \in DOMAIN published[b] : published[b][i] <= held
  /\ \A i \in DOMAIN published[b] : published[b][i] <= ended[b]

Counted == \A b \in Bands : CountedOn(b)

RadioInv == TypeInv /\ Transmitting /\ PolledSoFar /\ EdgeKept /\ Counted /\ PublishedInOrder

--------------------------------------------------------------------------------
(* The register that update_event reads in each turn, and the band that     *)
(* start_receive puts on in each.                                           *)
LEMMA RegisterRead ==
  ASSUME turn \in 1..4, UpdateEvent
  PROVE  LET b == IF turn \in 1..2 THEN "09" ELSE "24"
         IN  /\ turn \in {1, 3} => rf' = [rf EXCEPT ![b] = {}] /\ UNCHANGED <<bb, mask>>
             /\ turn \in {2, 4} =>
                  /\ mask' = [mask EXCEPT ![b] = @ \/ "RXFE" \in bb[b]]
                  /\ bb' = [bb EXCEPT ![b] = {}] /\ UNCHANGED rf
             /\ pc = "update"
             /\ IF turn = 4 THEN pc' = "receive" /\ turn' = 1
                            ELSE turn' = turn + 1 /\ UNCHANGED pc
             /\ UNCHANGED <<edges, chips, events, tries, held, requests, unpolled, late, history>>
<1>1. /\ turn = 1 => Order[(turn + 1) \div 2] = "09" /\ turn % 2 = 1
      /\ turn = 2 => Order[(turn + 1) \div 2] = "09" /\ turn % 2 = 0
      /\ turn = 3 => Order[(turn + 1) \div 2] = "24" /\ turn % 2 = 1
      /\ turn = 4 => Order[(turn + 1) \div 2] = "24" /\ turn % 2 = 0
  BY DEF Order
<1>2. CASE turn = 1
  BY <1>1, <1>2 DEF UpdateEvent
<1>3. CASE turn = 2
  BY <1>1, <1>3 DEF UpdateEvent
<1>4. CASE turn = 3
  BY <1>1, <1>4 DEF UpdateEvent
<1>5. CASE turn = 4
  BY <1>1, <1>5 DEF UpdateEvent
<1>6. QED
  BY <1>2, <1>3, <1>4, <1>5

LEMMA TurnedOn ==
  ASSUME turn \in 1..2, StartReceive
  PROVE  LET b == IF turn = 1 THEN "09" ELSE "24"
         IN  /\ pc \in {"frame", "timeout", "transmitted", "unanswered"}
             /\ chip' = [chip EXCEPT ![b] = IF @ = "Cca" THEN @ ELSE "Rx"]
             /\ rf' = SwitchedOn({b})
             /\ Interrupt(rf', bb)
             /\ turn = 2 => /\ turn' = 1
                            /\ pc' = IF pc = "frame" THEN "receive" ELSE "idle"
                            /\ held' = 0
                            /\ published' = IF pc = "frame"
                                            THEN [published EXCEPT ![Tuned] = Append(@, held)]
                                            ELSE published
             /\ turn = 1 => turn' = 2 /\ UNCHANGED <<pc, held, published>>
             /\ UNCHANGED <<bb, bben, buffer, events, tries, requests, handling, ended>>
<1>1. /\ turn = 1 => Order[turn] = "09"
      /\ turn = 2 => Order[turn] = "24"
  BY DEF Order
<1>2. CASE turn = 1
  BY <1>1, <1>2 DEF StartReceive
<1>3. CASE turn = 2
  BY <1>1, <1>3 DEF StartReceive
<1>4. QED
  BY <1>2, <1>3

--------------------------------------------------------------------------------
(* The driver starts with every receiver on and nothing to say.             *)
LEMMA InitInv == Init => RadioInv
<1> SUFFICES ASSUME Init PROVE RadioInv
  OBVIOUS
<1>1. <<>> \in Seq(1..Frames) /\ Len(<<>>) = 0 /\ DOMAIN <<>> = {}
  OBVIOUS
<1>2. published \in [Bands -> Seq(1..Frames)] /\ \A b \in Bands : published[b] = <<>>
  BY <1>1 DEF Init
<1>3. /\ 0 \in 0..Frames /\ 0 \in 0..MaxEdges /\ 0 \in 0..Tries /\ 0 \in 0..MaxRequests
      /\ 1 \in 1..4
  BY RadioAssumption
<1>4. TypeOK
  BY RadioAssumption, <1>2, <1>3 DEF Init, TypeOK
<1>5. TypeInv /\ Transmitting /\ PolledSoFar /\ EdgeKept
  BY <1>4 DEF Init, TypeInv, TurnInv, FrameKept, Unseen, Bands, Transmitting,
     PolledSoFar, EdgeKept, Pending
<1>6. Counted /\ PublishedInOrder
  BY <1>1, <1>2 DEF Init, Counted, CountedOn, InHand, Announced, Unseen, PublishedInOrder
<1>7. QED
  BY <1>5, <1>6 DEF RadioInv

LEMMA EdgesBounded ==
  ASSUME NEW r, NEW f, edges \in 0..MaxEdges, Interrupt(r, f)
  PROVE  edges' \in 0..MaxEdges
  BY RadioAssumption DEF Interrupt

LEMMA SwitchedOnStatus ==
  ASSUME rf \in [Bands -> SUBSET {"TRXRDY", "TRXERR"}], NEW bs
  PROVE  SwitchedOn(bs) \in [Bands -> SUBSET {"TRXRDY", "TRXERR"}]
  BY DEF SwitchedOn

(* Every step keeps the types: a held frame is numbered, so that it may be  *)
(* published.                                                               *)
LEMMA TypeStep ==
  ASSUME TypeInv, [Next]_vars
  PROVE  TypeInv'
<1>1. /\ Tuned \in Bands /\ turn \in 1..4
      /\ Frames \in Nat /\ Tries \in Nat \ {0} /\ MaxEdges \in Nat /\ MaxRequests \in Nat
  BY RadioAssumption DEF TypeInv, TypeOK, Tuned
<1>2. ASSUME NEW b \in Bands, FrameEnds(b) PROVE TypeInv'
  <2>1. /\ ended[b] \in Nat /\ ended["09"] \in Nat /\ ended["24"] \in Nat
        /\ ended[b] + 1 <= Frames
    BY <1>2, <1>1 DEF FrameEnds, TypeInv, TypeOK, Bands
  <2>2. ended[b] + 1 \in 1..Frames
    BY <1>1, <2>1
  <2>3. edges' \in 0..MaxEdges
    BY <1>2, EdgesBounded DEF FrameEnds, TypeInv, TypeOK
  <2>4. /\ ended' \in [Bands -> 0..Frames] /\ buffer' \in [Bands -> 0..Frames]
        /\ bb' \in [Bands -> SUBSET {"RXFE", "TXFE"}]
        /\ chip' \in [Bands -> {"TrxOff", "TrxPrep", "Rx", "Cca", "Tx"}]
        /\ UNCHANGED <<bben, rf, events, runtime, requests, handling, published>>
    BY <1>2, <1>1, <2>1, <2>2 DEF FrameEnds, TypeInv, TypeOK
  <2>5. TypeOK'
    BY <2>3, <2>4 DEF TypeInv, TypeOK, events, runtime, requests, handling
  <2>7. \A h \in Bands : Unseen(h)' => buffer'[h] > 0
    BY <1>2, <1>1, <2>2, <2>4 DEF FrameEnds, TypeInv, TypeOK, FrameKept, Unseen, handling
  <2>8. buffer[Tuned] > 0 => buffer'[Tuned] > 0
    BY <1>2, <1>1, <2>2 DEF FrameEnds, TypeInv, TypeOK
  <2>9. (TurnInv /\ FrameKept)'
    BY <2>4, <2>7, <2>8 DEF TypeInv, TurnInv, FrameKept, Tuned, runtime, requests
  <2>6. QED
    BY <2>5, <2>9 DEF TypeInv
<1>3. ASSUME NEW b \in Bands, ChannelIsClear(b) PROVE TypeInv'
  BY RadioAssumption, <1>1, <1>3 DEF TypeInv, TypeOK, TurnInv, FrameKept, Tuned,
     Unseen, Bands, ChannelIsClear, events, runtime, requests, history,
     Interrupt, MeasurementEnds, Pending
<1>4. ASSUME NEW b \in Bands, ChannelIsBusy(b) PROVE TypeInv'
  BY RadioAssumption, <1>1, <1>4 DEF TypeInv, TypeOK, TurnInv, FrameKept, Tuned,
     Unseen, Bands, ChannelIsBusy, events, runtime, requests, history,
     Interrupt, MeasurementEnds, Pending
<1>5. ASSUME NEW b \in Bands, TransmissionEnds(b) PROVE TypeInv'
  BY RadioAssumption, <1>1, <1>5 DEF TypeInv, TypeOK, TurnInv, FrameKept, Tuned,
     Unseen, Bands, TransmissionEnds, events, runtime, requests, handling,
     history, Interrupt, Pending
<1>6. CASE TakeEdge
  BY RadioAssumption, <1>1, <1>6 DEF TypeInv, TypeOK, TurnInv, FrameKept, Tuned,
     Unseen, Bands, TakeEdge, chips, runtime, requests, handling, history
<1>7. CASE Notify
  BY RadioAssumption, <1>1, <1>7 DEF TypeInv, TypeOK, TurnInv, FrameKept, Tuned,
     Unseen, Bands, Notify, status, chips, runtime, requests, handling, history
<1>8. CASE WakeManager
  BY RadioAssumption, <1>1, <1>8 DEF TypeInv, TypeOK, TurnInv, FrameKept, Tuned,
     Unseen, Bands, WakeManager, status, chips, requests, history
<1>9. CASE UpdateEvent
  <2>1. pc = "update" /\ turn' \in 1..4 /\ pc' \in {"update", "receive"}
        /\ (pc' = "receive" => turn' = 1)
    BY <1>9, <1>1, RegisterRead
  <2>2. /\ rf' \in [Bands -> SUBSET {"TRXRDY", "TRXERR"}]
        /\ bb' \in [Bands -> SUBSET {"RXFE", "TXFE"}]
        /\ mask' \in [Bands -> BOOLEAN]
        /\ \A b \in Bands : Unseen(b)' => Unseen(b)
    <3>1. CASE turn \in {1, 3}
      BY <1>9, <1>1, <3>1, RegisterRead DEF TypeInv, TypeOK, Unseen
    <3>2. CASE turn \in {2, 4}
      BY <1>9, <1>1, <3>2, RegisterRead DEF TypeInv, TypeOK, Unseen
    <3>3. QED
      BY <1>1, <3>1, <3>2
  <2>3. UNCHANGED <<edges, chips, events, tries, held, requests, unpolled, late, history>>
    BY <1>9, <1>1, RegisterRead
  <2>4. TypeOK'
    BY <2>1, <2>2, <2>3 DEF TypeInv, TypeOK, chips, events, requests, history
  <2>5. (TurnInv /\ FrameKept)'
    BY <2>1, <2>2, <2>3 DEF TypeInv, TurnInv, FrameKept, chips
  <2>6. QED
    BY <2>4, <2>5 DEF TypeInv
<1>10. CASE Poll
  BY RadioAssumption, <1>1, <1>10 DEF TypeInv, TypeOK, TurnInv, FrameKept,
     Tuned, Unseen, Bands, Poll, chips, events, requests, history
<1>11. CASE LoadRx
  BY RadioAssumption, <1>1, <1>11 DEF TypeInv, TypeOK, TurnInv, FrameKept,
     Tuned, Unseen, Bands, LoadRx, status, chips, events, requests, handling,
     history
<1>12. CASE ReceiveTimeout
  BY RadioAssumption, <1>1, <1>12 DEF TypeInv, TypeOK, TurnInv, FrameKept,
     Tuned, Unseen, Bands, ReceiveTimeout, status, chips, events, requests,
     handling, history
<1>13. CASE StartReceive
  <2>1. turn \in 1..2 /\ pc \in {"frame", "timeout", "transmitted", "unanswered"}
    BY <1>13, <1>1 DEF StartReceive, TypeInv, TurnInv
  <2>2. /\ chip' \in [Bands -> {"TrxOff", "TrxPrep", "Rx", "Cca", "Tx"}]
        /\ rf' \in [Bands -> SUBSET {"TRXRDY", "TRXERR"}]
    <3>1. PICK b \in Bands : /\ chip' = [chip EXCEPT ![b] = IF @ = "Cca" THEN @ ELSE "Rx"]
                             /\ rf' = SwitchedOn({b})
      BY <1>13, <2>1, TurnedOn DEF Bands
    <3>2. QED
      BY <3>1, SwitchedOnStatus DEF TypeInv, TypeOK
  <2>3. /\ UNCHANGED <<bb, bben, buffer, events, tries, requests, handling, ended>>
        /\ edges' \in 0..MaxEdges
    BY <1>13, <1>1, <2>1, TurnedOn, EdgesBounded DEF TypeInv, TypeOK
  <2>4. CASE turn = 1
    <3>1. turn' = 2 /\ UNCHANGED <<pc, held, published>>
      BY <1>13, <2>1, <2>4, TurnedOn
    <3>2. QED
      BY <2>1, <2>2, <2>3, <3>1
      DEF TypeInv, TypeOK, TurnInv, FrameKept, Unseen, events, requests, handling
  <2>5. CASE turn = 2
    <3>1. /\ turn' = 1 /\ held' = 0 /\ pc' \in {"receive", "idle"}
          /\ published' = IF pc = "frame" THEN [published EXCEPT ![Tuned] = Append(@, held)]
                                         ELSE published
      BY <1>13, <2>1, <2>5, TurnedOn
    <3>2. pc = "frame" => held \in 1..Frames
      BY <1>1 DEF TypeInv, TypeOK, FrameKept
    <3>3. published' \in [Bands -> Seq(1..Frames)]
      <4>1. published \in [Bands -> Seq(1..Frames)] /\ published[Tuned] \in Seq(1..Frames)
        BY <1>1 DEF TypeInv, TypeOK
      <4>2. CASE pc = "frame"
        <5>1. Append(published[Tuned], held) \in Seq(1..Frames)
          BY <3>2, <4>1, <4>2, AppendProperties
        <5>2. QED
          BY <3>1, <4>1, <4>2, <5>1
      <4>3. CASE pc # "frame"
        BY <3>1, <4>1, <4>3
      <4>4. QED
        BY <4>2, <4>3
    <3>4. TypeOK'
      BY <1>1, <2>2, <2>3, <3>1, <3>3 DEF TypeInv, TypeOK, events, requests, handling
    <3>5. (TurnInv /\ FrameKept)'
      BY <2>3, <3>1 DEF TypeInv, TurnInv, FrameKept, Unseen, handling
    <3>6. QED
      BY <3>4, <3>5 DEF TypeInv
  <2>6. QED
    BY <2>1, <2>4, <2>5
<1>14. CASE Transmit
  BY RadioAssumption, <1>1, <1>14 DEF TypeInv, TypeOK, TurnInv, FrameKept,
     Tuned, Unseen, Bands, Transmit, status, chips, events, handling, history,
     Handle
<1>15. CASE Assess
  BY RadioAssumption, <1>1, <1>15 DEF TypeInv, TypeOK, TurnInv, FrameKept,
     Tuned, Unseen, Bands, Assess, events, requests, handling, history,
     Interrupt, SwitchedOn, Pending
<1>16. CASE SeeTransmitted
  BY RadioAssumption, <1>1, <1>16 DEF TypeInv, TypeOK, TurnInv, FrameKept,
     Tuned, Unseen, Bands, SeeTransmitted, chips, events, requests, handling,
     history
<1>17. CASE SeeBusy
  BY RadioAssumption, <1>1, <1>17 DEF TypeInv, TypeOK, TurnInv, FrameKept,
     Tuned, Unseen, Bands, SeeBusy, events, requests, handling, history
<1>18. CASE SeeNothing
  BY RadioAssumption, <1>1, <1>18 DEF TypeInv, TypeOK, TurnInv, FrameKept,
     Tuned, Unseen, Bands, SeeNothing, status, chips, events, requests,
     handling, history
<1>19. ASSUME NEW c \in Configs, SetConfig(c) PROVE TypeInv'
  BY RadioAssumption, <1>1, <1>19 DEF TypeInv, TypeOK, TurnInv, FrameKept,
     Tuned, Unseen, Bands, SetConfig, status, events, runtime, handling,
     history, Interrupt, Handle, Pending
<1>20. ASSUME NEW s \in BOOLEAN, SetModulation(s) PROVE TypeInv'
  <2>1. /\ rf' \in [Bands -> SUBSET {"TRXRDY", "TRXERR"}]
        /\ chip' \in [Bands -> {"TrxOff", "TrxPrep", "Rx", "Cca", "Tx"}]
        /\ bben' \in [Bands -> BOOLEAN]
    <3>1. "09" \in Bands
      BY DEF Bands
    <3>2. CASE s
      <4>1. /\ rf' = [b \in Bands |-> rf[b] \cup {"TRXRDY"}]
            /\ chip' = [b \in Bands |-> "Rx"] /\ bben' = [b \in Bands |-> TRUE]
        BY <1>20, <3>2, Zenon DEF SetModulation
      <4>2. \A b \in Bands : rf[b] \cup {"TRXRDY"} \in SUBSET {"TRXRDY", "TRXERR"}
        BY DEF TypeInv, TypeOK
      <4>3. QED
        BY <4>1, <4>2
    <3>3. CASE ~s
      BY <1>20, <3>1, <3>3 DEF TypeInv, TypeOK, SetModulation
    <3>4. QED
      BY <3>2, <3>3
  <2>2. /\ UNCHANGED <<bb, buffer, events, runtime, config, handling, history>>
        /\ answer' \in {"none", "Ok", "IncorrectConfig"} /\ edges' \in 0..MaxEdges
        /\ handled' \in 0..MaxRequests
    BY <1>20, <1>1, EdgesBounded DEF TypeInv, TypeOK, SetModulation, Handle
  <2>3. TypeOK'
    BY <2>1, <2>2 DEF TypeInv, TypeOK, events, runtime, handling, history
  <2>4. (TurnInv /\ FrameKept)'
    BY <2>2 DEF TypeInv, TurnInv, FrameKept, Tuned, Unseen, runtime, handling
  <2>5. QED
    BY <2>3, <2>4 DEF TypeInv
<1>21. CASE UNCHANGED vars
  BY RadioAssumption, <1>1, <1>21 DEF TypeInv, TypeOK, TurnInv, FrameKept,
     Tuned, Unseen, Bands, vars, status, chips, events, runtime, requests,
     handling, history
<1>22. QED
  BY <1>2, <1>3, <1>4, <1>5, <1>6, <1>7, <1>8, <1>9, <1>10, <1>11, <1>12, <1>13,
     <1>14, <1>15, <1>16, <1>17, <1>18, <1>19, <1>20, <1>21 DEF Next,
     EventThread, Handling, Sending

(* Every step keeps what may be on: transmit goes on when the chip says how *)
(* the measurement ended, or when the time is over.                         *)
LEMMA TransmittingStep ==
  ASSUME TypeInv, Transmitting, [Next]_vars
  PROVE  Transmitting'
<1>1. Tuned \in Bands /\ turn \in 1..4
  BY RadioAssumption DEF TypeInv, TypeOK, Tuned
<1>2. ASSUME NEW b \in Bands, FrameEnds(b) PROVE Transmitting'
  BY <1>1, <1>2 DEF TypeInv, TypeOK, TurnInv, Transmitting, Waiting, Tuned,
     Bands, FrameEnds, events, runtime, requests, handling, Pending
<1>3. ASSUME NEW b \in Bands, ChannelIsClear(b) PROVE Transmitting'
  BY <1>1, <1>3 DEF TypeInv, TypeOK, TurnInv, Transmitting, Waiting, Tuned,
     Bands, ChannelIsClear, events, runtime, requests, history, MeasurementEnds,
     Pending
<1>4. ASSUME NEW b \in Bands, ChannelIsBusy(b) PROVE Transmitting'
  BY <1>1, <1>4 DEF TypeInv, TypeOK, TurnInv, Transmitting, Waiting, Tuned,
     Bands, ChannelIsBusy, events, runtime, requests, history, MeasurementEnds,
     Pending
<1>5. ASSUME NEW b \in Bands, TransmissionEnds(b) PROVE Transmitting'
  BY <1>1, <1>5 DEF TypeInv, TypeOK, TurnInv, Transmitting, Waiting, Tuned,
     Bands, TransmissionEnds, events, runtime, requests, handling, history,
     Pending
<1>6. CASE TakeEdge
  BY <1>1, <1>6 DEF TypeInv, TypeOK, TurnInv, Transmitting, Waiting, Tuned,
     Bands, TakeEdge, chips, runtime, requests, handling, history
<1>7. CASE Notify
  BY <1>1, <1>7 DEF TypeInv, TypeOK, TurnInv, Transmitting, Waiting, Tuned,
     Bands, Notify, status, chips, runtime, requests, handling, history
<1>8. CASE WakeManager
  BY <1>1, <1>8 DEF TypeInv, TypeOK, TurnInv, Transmitting, Waiting, Tuned,
     Bands, WakeManager, status, chips, requests, history
<1>9. CASE UpdateEvent
  BY <1>1, <1>9, RegisterRead DEF TypeInv, TypeOK, TurnInv, Transmitting, Waiting,
     Tuned, Bands, chips, events, requests
<1>10. CASE Poll
  BY <1>1, <1>10 DEF TypeInv, TypeOK, TurnInv, Transmitting, Waiting, Tuned,
     Bands, Poll, chips, events, requests, history
<1>11. CASE LoadRx
  BY <1>1, <1>11 DEF TypeInv, TypeOK, TurnInv, Transmitting, Waiting, Tuned,
     Bands, LoadRx, status, chips, events, requests, handling, history
<1>12. CASE ReceiveTimeout
  BY <1>1, <1>12 DEF TypeInv, TypeOK, TurnInv, Transmitting, Waiting, Tuned,
     Bands, ReceiveTimeout, status, chips, events, requests, handling, history
<1>13. CASE StartReceive
  <2>1. /\ turn \in 1..2 /\ UNCHANGED <<config, bb, bben>>
        /\ pc \in {"frame", "timeout", "transmitted", "unanswered"}
    BY <1>1, <1>13 DEF StartReceive, TypeInv, TurnInv, requests
  <2>2. UNCHANGED Tuned
    BY <2>1 DEF Tuned
  <2>3. CASE turn = 1
    <3>1. /\ chip' = [chip EXCEPT !["09"] = IF @ = "Cca" THEN @ ELSE "Rx"]
          /\ turn' = 2 /\ pc' = pc
      BY <1>13, <2>1, <2>3, TurnedOn
    <3>2. chip'["09"] \in {"Rx", "Cca"}
      BY <3>1 DEF TypeInv, TypeOK, Bands
    <3>3. pc' # "wait" /\ (pc' = "transmitted" => bben'[Tuned'])
      BY <2>1, <2>2, <3>1 DEF Transmitting
    <3>4. QED
      BY <3>2, <3>3 DEF Transmitting
  <2>4. CASE turn = 2
    <3>1. pc' \in {"receive", "idle"}
      BY <1>13, <2>1, <2>4, TurnedOn
    <3>2. QED
      BY <3>1 DEF Transmitting
  <2>5. QED
    BY <2>1, <2>3, <2>4
<1>14. CASE Transmit
  BY <1>1, <1>14 DEF TypeInv, TypeOK, TurnInv, Transmitting, Waiting, Tuned,
     Bands, Transmit, status, chips, events, handling, history, Handle
<1>15. CASE Assess
  BY <1>1, <1>15 DEF TypeInv, TypeOK, TurnInv, Transmitting, Waiting, Tuned,
     Bands, Assess, events, requests, handling, history, SwitchedOn, Pending
<1>16. CASE SeeTransmitted
  BY <1>1, <1>16 DEF TypeInv, TypeOK, TurnInv, Transmitting, Waiting, Tuned,
     Bands, SeeTransmitted, chips, events, requests, handling, history
<1>17. CASE SeeBusy
  BY <1>1, <1>17 DEF TypeInv, TypeOK, TurnInv, Transmitting, Waiting, Tuned,
     Bands, SeeBusy, events, requests, handling, history
<1>18. CASE SeeNothing
  BY <1>1, <1>18 DEF TypeInv, TypeOK, TurnInv, Transmitting, Waiting, Tuned,
     Bands, SeeNothing, status, chips, events, requests, handling, history
<1>19. ASSUME NEW c \in Configs, SetConfig(c) PROVE Transmitting'
  BY <1>1, <1>19 DEF TypeInv, TypeOK, TurnInv, Transmitting, Waiting, Tuned,
     Bands, SetConfig, status, events, runtime, handling, history, Handle,
     Pending
<1>20. ASSUME NEW s \in BOOLEAN, SetModulation(s) PROVE Transmitting'
  BY <1>1, <1>20 DEF TypeInv, TypeOK, TurnInv, Transmitting, Waiting, Tuned,
     Bands, SetModulation, events, runtime, handling, history, Handle, Pending
<1>21. CASE UNCHANGED vars
  BY <1>1, <1>21 DEF TypeInv, TypeOK, TurnInv, Transmitting, Waiting, Tuned,
     Bands, vars, status, chips, events, runtime, requests, handling, history
<1>22. QED
  BY <1>2, <1>3, <1>4, <1>5, <1>6, <1>7, <1>8, <1>9, <1>10, <1>11, <1>12, <1>13,
     <1>14, <1>15, <1>16, <1>17, <1>18, <1>19, <1>20, <1>21 DEF Next,
     EventThread, Handling, Sending

--------------------------------------------------------------------------------
(* Radio::transmit ends with its start_receive, which put the first band on *)
(* in the step before.                                                      *)
LEMMA TransmitEnds ==
  ASSUME TypeInv, Transmitting, [Next]_vars,
         pc \in {"transmitted", "unanswered"}, pc' = "idle"
  PROVE  /\ \A b \in Bands : chip'[b] \in {"Rx", "Cca", "Tx"} \/ bb'[b] # {}
         /\ pc = "unanswered" \/ bben'[Tuned]
<1>1. StartReceive
  BY DEF Next, EventThread, Handling, Sending, FrameEnds, ChannelIsClear,
     ChannelIsBusy, TransmissionEnds, TakeEdge, Notify, WakeManager, UpdateEvent,
     Poll, LoadRx, ReceiveTimeout, Transmit, Assess, SeeTransmitted, SeeBusy,
     SeeNothing, SetConfig, SetModulation, vars, runtime
<1>2. turn = 2
  BY <1>1, TurnedOn DEF TypeInv, TurnInv
<1>3. /\ chip' = [chip EXCEPT !["24"] = IF @ = "Cca" THEN @ ELSE "Rx"]
      /\ UNCHANGED <<bb, bben>>
  BY <1>1, <1>2, TurnedOn
<1>4. chip'["24"] \in {"Rx", "Cca"} /\ chip'["09"] = chip["09"]
  BY <1>3 DEF TypeInv, TypeOK, Bands
<1>5. QED
  BY <1>2, <1>3, <1>4 DEF Transmitting, Bands

(* Every step keeps what has been polled.                                   *)
LEMMA PolledStep ==
  ASSUME TypeInv, PolledSoFar, [Next]_vars
  PROVE  PolledSoFar'
<1>1. Tuned \in Bands /\ turn \in 1..4
  BY RadioAssumption DEF TypeInv, TypeOK, Tuned
<1>2. ASSUME NEW b \in Bands, FrameEnds(b) PROVE PolledSoFar'
  BY <1>1, <1>2 DEF TypeInv, TypeOK, TurnInv, PolledSoFar, Tuned, Bands,
     FrameEnds, events, runtime, requests, handling, Pending
<1>3. ASSUME NEW b \in Bands, ChannelIsClear(b) PROVE PolledSoFar'
  BY <1>1, <1>3 DEF TypeInv, TypeOK, TurnInv, PolledSoFar, Tuned, Bands,
     ChannelIsClear, events, runtime, requests, history, MeasurementEnds,
     Pending
<1>4. ASSUME NEW b \in Bands, ChannelIsBusy(b) PROVE PolledSoFar'
  BY <1>1, <1>4 DEF TypeInv, TypeOK, TurnInv, PolledSoFar, Tuned, Bands,
     ChannelIsBusy, events, runtime, requests, history, MeasurementEnds, Pending
<1>5. ASSUME NEW b \in Bands, TransmissionEnds(b) PROVE PolledSoFar'
  BY <1>1, <1>5 DEF TypeInv, TypeOK, TurnInv, PolledSoFar, Tuned, Bands,
     TransmissionEnds, events, runtime, requests, handling, history, Pending
<1>6. CASE TakeEdge
  BY <1>1, <1>6 DEF TypeInv, TypeOK, TurnInv, PolledSoFar, Tuned, Bands,
     TakeEdge, chips, runtime, requests, handling, history
<1>7. CASE Notify
  BY <1>1, <1>7 DEF TypeInv, TypeOK, TurnInv, PolledSoFar, Tuned, Bands, Notify,
     status, chips, runtime, requests, handling, history
<1>8. CASE WakeManager
  BY <1>1, <1>8 DEF TypeInv, TypeOK, TurnInv, PolledSoFar, Tuned, Bands,
     WakeManager, status, chips, requests, history
<1>9. CASE UpdateEvent
  <2>1. /\ pc = "update" /\ pc' \in {"update", "receive"}
        /\ unpolled' = unpolled /\ mask' \in [Bands -> BOOLEAN]
    <3>1. CASE turn \in {1, 3}
      BY <1>9, <1>1, <3>1, RegisterRead DEF TypeInv, TypeOK
    <3>2. CASE turn \in {2, 4}
      BY <1>9, <1>1, <3>2, RegisterRead DEF TypeInv, TypeOK
    <3>3. QED
      BY <1>1, <3>1, <3>2
  <2>2. QED
    BY <2>1 DEF PolledSoFar
<1>10. CASE Poll
  BY <1>1, <1>10 DEF TypeInv, TypeOK, TurnInv, PolledSoFar, Tuned, Bands, Poll,
     chips, events, requests, history
<1>11. CASE LoadRx
  BY <1>1, <1>11 DEF TypeInv, TypeOK, TurnInv, PolledSoFar, Tuned, Bands,
     LoadRx, status, chips, events, requests, handling, history
<1>12. CASE ReceiveTimeout
  BY <1>1, <1>12 DEF TypeInv, TypeOK, TurnInv, PolledSoFar, Tuned, Bands,
     ReceiveTimeout, status, chips, events, requests, handling, history
<1>13. CASE StartReceive
  <2>1. /\ turn \in 1..2 /\ UNCHANGED <<config, unpolled, mask>>
        /\ pc \in {"frame", "timeout", "transmitted", "unanswered"}
    BY <1>1, <1>13 DEF StartReceive, TypeInv, TurnInv, requests, handling
  <2>2. pc' = pc \/ pc' = (IF pc = "frame" THEN "receive" ELSE "idle")
    BY <1>13, <2>1, TurnedOn
  <2>3. QED
    BY <2>1, <2>2 DEF PolledSoFar, Tuned
<1>14. CASE Transmit
  BY <1>1, <1>14 DEF TypeInv, TypeOK, TurnInv, PolledSoFar, Tuned, Bands,
     Transmit, status, chips, events, handling, history, Handle
<1>15. CASE Assess
  BY <1>1, <1>15 DEF TypeInv, TypeOK, TurnInv, PolledSoFar, Tuned, Bands,
     Assess, events, requests, handling, history, SwitchedOn, Pending
<1>16. CASE SeeTransmitted
  BY <1>1, <1>16 DEF TypeInv, TypeOK, TurnInv, PolledSoFar, Tuned, Bands,
     SeeTransmitted, chips, events, requests, handling, history
<1>17. CASE SeeBusy
  BY <1>1, <1>17 DEF TypeInv, TypeOK, TurnInv, PolledSoFar, Tuned, Bands,
     SeeBusy, events, requests, handling, history
<1>18. CASE SeeNothing
  BY <1>1, <1>18 DEF TypeInv, TypeOK, TurnInv, PolledSoFar, Tuned, Bands,
     SeeNothing, status, chips, events, requests, handling, history
<1>19. ASSUME NEW c \in Configs, SetConfig(c) PROVE PolledSoFar'
  BY <1>1, <1>19 DEF TypeInv, TypeOK, TurnInv, PolledSoFar, Tuned, Bands,
     SetConfig, status, events, runtime, handling, history, Handle, Pending
<1>20. ASSUME NEW s \in BOOLEAN, SetModulation(s) PROVE PolledSoFar'
  BY <1>1, <1>20 DEF TypeInv, TypeOK, TurnInv, PolledSoFar, Tuned, Bands,
     SetModulation, events, runtime, handling, history, Handle, Pending
<1>21. CASE UNCHANGED vars
  BY <1>1, <1>21 DEF TypeInv, TypeOK, TurnInv, PolledSoFar, Tuned, Bands, vars,
     status, chips, events, runtime, requests, handling, history
<1>22. QED
  BY <1>2, <1>3, <1>4, <1>5, <1>6, <1>7, <1>8, <1>9, <1>10, <1>11, <1>12, <1>13,
     <1>14, <1>15, <1>16, <1>17, <1>18, <1>19, <1>20, <1>21 DEF Next,
     EventThread, Handling, Sending

--------------------------------------------------------------------------------
LEMMA EdgeQueued ==
  ASSUME NEW r, NEW f, edges \in 0..MaxEdges, Interrupt(r, f)
  PROVE  /\ edges > 0 => edges' > 0
         /\ Pending(r, f) => edges' > 0 \/ Pending(rf, bb)
  BY RadioAssumption DEF Interrupt

(* When no handling is between update_event and its first poll, the edge is *)
(* told or the line is low, unless a bit was overlooked.                    *)
Reading == pc = "update" \/ (pc = "receive" /\ Tuned \in unpolled)
Settled == Told \/ late \/ ~Pending(rf, bb) \/ Overlooked

LEMMA SettledKept ==
  ASSUME edges \in 0..MaxEdges, Settled,
         bb \in [Bands -> SUBSET {"RXFE", "TXFE"}],
         \A b \in Bands : bb[b] \subseteq bb'[b],
         UNCHANGED events, UNCHANGED unpolled, unpolled \subseteq Bands, late => late',
         NEW r, Interrupt(r, bb'),
         \A b \in Bands : rf'[b] \subseteq r[b]
  PROVE  Settled'
<1>1. Told => Told'
  BY EdgeQueued DEF Told, events
<1>2. Overlooked => Overlooked'
  <2>1. ASSUME NEW b \in unpolled, bb[b] # {}, b \in Bands PROVE bb'[b] # {} /\ b \in unpolled'
    BY <2>1
  <2>2. QED
    BY <2>1 DEF Overlooked
<1>3. Pending(rf', bb') => Pending(r, bb')
  BY DEF Pending
<1>4. Pending(r, bb') => edges' > 0 \/ Pending(rf, bb)
  BY EdgeQueued
<1>5. QED
  BY <1>1, <1>2, <1>3, <1>4 DEF Settled, Told

(* Every step keeps the edge: a bit that is set while the runtime reads is  *)
(* read by it, or overlooked, or is the first and raises the line.          *)
LEMMA EdgeStep ==
  ASSUME TypeInv, PolledSoFar, EdgeKept, [Next]_vars
  PROVE  EdgeKept'
<1>1. /\ Tuned \in Bands /\ turn \in 1..4
      /\ MaxEdges \in Nat /\ edges \in 0..MaxEdges
      /\ rf \in [Bands -> SUBSET {"TRXRDY", "TRXERR"}]
      /\ bb \in [Bands -> SUBSET {"RXFE", "TXFE"}] /\ unpolled \subseteq Bands
  BY RadioAssumption DEF TypeInv, TypeOK, Tuned
<1>2. ASSUME NEW b \in Bands, FrameEnds(b) PROVE EdgeKept'
  <2>1. /\ Interrupt(rf', bb') /\ UNCHANGED <<pc, turn, events, unpolled, config>>
        /\ \A b0 \in Bands : bb[b0] \subseteq bb'[b0]
        /\ late => late'
    BY <1>1, <1>2 DEF FrameEnds, runtime, requests, handling
  <2>2. \/ pc \in {"update", "receive"} /\ late'
        \/ rf' = rf
        \/ pc \notin {"update", "receive"}
    BY <1>2 DEF FrameEnds, runtime, requests, handling
  <2>3. Told => Told'
    BY <1>1, <2>1, EdgeQueued DEF Told, events
  <2>4. CASE Reading
    BY <2>1, <2>2, <2>3, <2>4 DEF EdgeKept, Reading, Tuned
  <2>5. CASE ~Reading
    <3>1. Settled
      BY <2>5 DEF EdgeKept, Reading, Settled
    <3>2. Settled'
      BY <1>1, <2>1, <3>1, SettledKept
    <3>3. QED
      BY <2>1, <2>5, <3>2 DEF EdgeKept, Reading, Settled, Tuned
  <2>6. QED
    BY <2>4, <2>5
<1>3. ASSUME NEW b \in Bands, ChannelIsClear(b) PROVE EdgeKept'
  <2>1. /\ Interrupt(rf', bb') /\ UNCHANGED <<pc, turn, events, unpolled, config>>
        /\ \A b0 \in Bands : bb[b0] \subseteq bb'[b0]
        /\ late => late'
    BY <1>1, <1>3 DEF ChannelIsClear, MeasurementEnds, runtime, requests
  <2>2. \/ pc \in {"update", "receive"} /\ late'
        \/ rf' = rf
        \/ pc \notin {"update", "receive"}
    BY <1>3 DEF ChannelIsClear, MeasurementEnds, runtime, requests
  <2>3. Told => Told'
    BY <1>1, <2>1, EdgeQueued DEF Told, events
  <2>4. CASE Reading
    BY <2>1, <2>2, <2>3, <2>4 DEF EdgeKept, Reading, Tuned
  <2>5. CASE ~Reading
    <3>1. Settled
      BY <2>5 DEF EdgeKept, Reading, Settled
    <3>2. Settled'
      BY <1>1, <2>1, <3>1, SettledKept
    <3>3. QED
      BY <2>1, <2>5, <3>2 DEF EdgeKept, Reading, Settled, Tuned
  <2>6. QED
    BY <2>4, <2>5
<1>4. ASSUME NEW b \in Bands, ChannelIsBusy(b) PROVE EdgeKept'
  <2>1. /\ Interrupt(rf', bb') /\ UNCHANGED <<pc, turn, events, unpolled, config>>
        /\ \A b0 \in Bands : bb[b0] \subseteq bb'[b0]
        /\ late => late'
    BY <1>1, <1>4 DEF ChannelIsBusy, MeasurementEnds, runtime, requests
  <2>2. \/ pc \in {"update", "receive"} /\ late'
        \/ rf' = rf
        \/ pc \notin {"update", "receive"}
    BY <1>4 DEF ChannelIsBusy, MeasurementEnds, runtime, requests
  <2>3. Told => Told'
    BY <1>1, <2>1, EdgeQueued DEF Told, events
  <2>4. CASE Reading
    BY <2>1, <2>2, <2>3, <2>4 DEF EdgeKept, Reading, Tuned
  <2>5. CASE ~Reading
    <3>1. Settled
      BY <2>5 DEF EdgeKept, Reading, Settled
    <3>2. Settled'
      BY <1>1, <2>1, <3>1, SettledKept
    <3>3. QED
      BY <2>1, <2>5, <3>2 DEF EdgeKept, Reading, Settled, Tuned
  <2>6. QED
    BY <2>4, <2>5
<1>5. ASSUME NEW b \in Bands, TransmissionEnds(b) PROVE EdgeKept'
  <2>1. /\ Interrupt(rf', bb') /\ UNCHANGED <<pc, turn, events, unpolled, config>>
        /\ \A b0 \in Bands : bb[b0] \subseteq bb'[b0]
        /\ late => late'
    BY <1>1, <1>5 DEF TransmissionEnds, runtime, requests, handling
  <2>2. \/ pc \in {"update", "receive"} /\ late'
        \/ rf' = rf
        \/ pc \notin {"update", "receive"}
    BY <1>5 DEF TransmissionEnds, runtime, requests, handling
  <2>3. Told => Told'
    BY <1>1, <2>1, EdgeQueued DEF Told, events
  <2>4. CASE Reading
    BY <2>1, <2>2, <2>3, <2>4 DEF EdgeKept, Reading, Tuned
  <2>5. CASE ~Reading
    <3>1. Settled
      BY <2>5 DEF EdgeKept, Reading, Settled
    <3>2. Settled'
      BY <1>1, <2>1, <3>1, SettledKept
    <3>3. QED
      BY <2>1, <2>5, <3>2 DEF EdgeKept, Reading, Settled, Tuned
  <2>6. QED
    BY <2>4, <2>5
<1>6. CASE TakeEdge
  BY <1>1, <1>6 DEF EdgeKept, Told, Overlooked, Tuned, TakeEdge, chips, runtime,
     requests, handling, history
<1>7. CASE Notify
  BY <1>1, <1>7 DEF EdgeKept, Told, Overlooked, Tuned, Notify, status, chips,
     runtime, requests, handling, history
<1>8. CASE WakeManager
  BY <1>8 DEF WakeManager, EdgeKept
<1>9. CASE UpdateEvent
  <2>1. /\ pc = "update" /\ unpolled = Bands /\ UNCHANGED <<edges, events, unpolled, late>>
        /\ IF turn = 4 THEN pc' = "receive" /\ turn' = 1 ELSE turn' = turn + 1 /\ pc' = pc
    BY <1>1, <1>9, RegisterRead DEF PolledSoFar
  <2>2. /\ Told' <=> Told
        /\ late' <=> late
    BY <2>1 DEF Told, events
  <2>3. CASE Told \/ late
    BY <2>2, <2>3 DEF EdgeKept
  <2>4. CASE ~(Told \/ late)
    <3>1. /\ turn > 1 => rf["09"] = {}
          /\ turn > 3 => rf["24"] = {}
      BY <2>1, <2>4 DEF EdgeKept
    <3>2. /\ rf'["09"] = {}
          /\ turn > 2 => rf'["24"] = {}
      <4>1. CASE turn \in {1, 3}
        BY <1>1, <1>9, <3>1, <4>1, RegisterRead DEF Bands
      <4>2. CASE turn \in {2, 4}
        BY <1>1, <1>9, <3>1, <4>2, RegisterRead
      <4>3. QED
        BY <1>1, <4>1, <4>2
    <3>3. CASE turn = 4
      <4>1. Tuned' \in unpolled' /\ \A b \in Bands : rf'[b] = {}
        BY <1>1, <1>9, <2>1, <3>2, <3>3, RegisterRead DEF Bands, Tuned, requests
      <4>2. QED
        BY <2>1, <3>3, <4>1 DEF EdgeKept
    <3>4. CASE turn # 4
      BY <1>1, <2>1, <3>2, <3>4 DEF EdgeKept
    <3>5. QED
      BY <3>3, <3>4
  <2>5. QED
    BY <2>3, <2>4
<1>10. CASE Poll
  <2>1. /\ pc \in {"receive", "polled"} /\ pc' \in {"load", "polled"}
        /\ bb' = [bb EXCEPT ![Tuned] = {}] /\ unpolled' = unpolled \ {Tuned}
        /\ UNCHANGED <<rf, edges, events, late>>
    BY <1>10 DEF Poll
  <2>2. (Told \/ late) => (Told \/ late)'
    BY <2>1 DEF Told, events
  <2>3. CASE Told \/ late
    BY <2>2, <2>3 DEF EdgeKept
  <2>4. CASE ~(Told \/ late) /\ Tuned \in unpolled
    <3>1. pc = "receive" /\ unpolled = Bands
      BY <2>1, <2>4 DEF PolledSoFar
    <3>2. \A b \in Bands : rf[b] = {}
      BY <2>4, <3>1 DEF EdgeKept
    <3>3. ~Pending(rf', bb') \/ Overlooked'
      BY <1>1, <2>1, <3>1, <3>2 DEF Pending, Overlooked
    <3>4. QED
      BY <2>1, <3>3 DEF EdgeKept
  <2>5. CASE ~(Told \/ late) /\ Tuned \notin unpolled
    <3>1. ~Pending(rf, bb) \/ Overlooked
      BY <2>1, <2>5 DEF EdgeKept
    <3>2. ~Pending(rf, bb) => ~Pending(rf', bb')
      BY <1>1, <2>1 DEF Pending
    <3>3. Overlooked => Overlooked'
      BY <1>1, <2>1, <2>5 DEF Overlooked, TypeInv, TypeOK
    <3>4. QED
      BY <2>1, <3>1, <3>2, <3>3 DEF EdgeKept
  <2>6. QED
    BY <2>3, <2>4, <2>5
<1>11. CASE LoadRx
  BY <1>1, <1>11 DEF EdgeKept, Told, Overlooked, Tuned, LoadRx, status, chips,
     events, requests, handling, history
<1>12. CASE ReceiveTimeout
  <2>1. /\ pc \in {"receive", "polled"} /\ pc' = "timeout"
        /\ UNCHANGED <<status, events, unpolled, late>>
    BY <1>12 DEF ReceiveTimeout, handling
  <2>2. /\ Told' <=> Told
        /\ Overlooked' <=> Overlooked
        /\ Pending(rf', bb') <=> Pending(rf, bb)
    BY <2>1 DEF Told, Overlooked, Pending, status, events
  <2>3. pc = "receive" /\ Tuned \in unpolled => unpolled = Bands
    BY DEF PolledSoFar
  <2>4. (\A b \in Bands : rf[b] = {}) /\ unpolled = Bands => ~Pending(rf, bb) \/ Overlooked
    BY DEF Pending, Overlooked
  <2>5. Told \/ late \/ ~Pending(rf, bb) \/ Overlooked
    BY <2>1, <2>3, <2>4 DEF EdgeKept
  <2>6. QED
    BY <2>1, <2>2, <2>5 DEF EdgeKept
<1>13. CASE StartReceive
  <2>1. /\ pc \in {"frame", "timeout", "transmitted", "unanswered"}
        /\ UNCHANGED <<bb, events, unpolled, late, config>>
        /\ Interrupt(rf', bb)
    BY <1>1, <1>13 DEF StartReceive, handling, requests
  <2>2. Settled'
    <3>1. Settled
      BY <2>1 DEF EdgeKept, Settled
    <3>2. QED
      BY <1>1, <2>1, <3>1, SettledKept
  <2>3. pc' # "update" /\ (pc' = "receive" => pc = "frame")
    <3>1. turn \in 1..2
      BY <2>1 DEF TypeInv, TurnInv
    <3>2. pc' = pc \/ pc' = (IF pc = "frame" THEN "receive" ELSE "idle")
      BY <1>13, <3>1, TurnedOn
    <3>3. QED
      BY <2>1, <3>2
  <2>4. pc' = "receive" => Tuned' \notin unpolled'
    BY <2>1, <2>3 DEF PolledSoFar, Tuned
  <2>5. QED
    BY <2>2, <2>3, <2>4 DEF EdgeKept, Settled
<1>14. CASE Transmit
  BY <1>1, <1>14 DEF EdgeKept, Told, Overlooked, Tuned, Transmit, status, chips,
     events, handling, history, Handle
<1>15. CASE Assess
  <2>1. /\ pc = "assess" /\ pc' = "wait" /\ UNCHANGED <<bb, events, unpolled, late>>
        /\ Interrupt(SwitchedOn({Tuned}), bb) /\ rf' = [rf EXCEPT ![Tuned] = {}]
    BY <1>15 DEF Assess, handling
  <2>2. \A b \in Bands : rf'[b] \subseteq SwitchedOn({Tuned})[b]
    BY <1>1, <2>1 DEF SwitchedOn
  <2>3. Settled
    BY <2>1 DEF EdgeKept, Settled
  <2>4. Settled'
    BY <1>1, <2>1, <2>2, <2>3, SettledKept
  <2>5. QED
    BY <2>1, <2>4 DEF EdgeKept, Settled
<1>16. CASE SeeTransmitted
  <2>1. /\ pc = "wait" /\ pc' \in {"transmitted"}
        /\ UNCHANGED <<bb, edges, events, unpolled, late>>
        /\ rf' = [rf EXCEPT ![Tuned] = {}]
    BY <1>16 DEF SeeTransmitted, handling, chips
  <2>2. /\ Told' <=> Told
        /\ Overlooked' <=> Overlooked
        /\ ~Pending(rf, bb) => ~Pending(rf', bb')
    BY <1>1, <2>1 DEF Told, Overlooked, Pending, events
  <2>3. QED
    BY <2>1, <2>2 DEF EdgeKept
<1>17. CASE SeeBusy
  <2>1. /\ pc = "wait" /\ pc' \in {"assess", "transmitted"}
        /\ UNCHANGED <<bb, edges, events, unpolled, late>>
        /\ rf' = [rf EXCEPT ![Tuned] = {}]
    BY <1>17 DEF SeeBusy, handling, chips
  <2>2. /\ Told' <=> Told
        /\ Overlooked' <=> Overlooked
        /\ ~Pending(rf, bb) => ~Pending(rf', bb')
    BY <1>1, <2>1 DEF Told, Overlooked, Pending, events
  <2>3. QED
    BY <2>1, <2>2 DEF EdgeKept
<1>18. CASE SeeNothing
  BY <1>1, <1>18 DEF EdgeKept, Told, Overlooked, Tuned, SeeNothing, status,
     chips, events, requests, handling, history
<1>19. ASSUME NEW c \in Configs, SetConfig(c) PROVE EdgeKept'
  <2>1. /\ pc = "idle" /\ pc' = "idle" /\ UNCHANGED <<bb, events, unpolled, late>>
    BY <1>19 DEF SetConfig, handling, runtime, status
  <2>2. Settled
    BY <2>1 DEF EdgeKept, Settled
  <2>3. Interrupt(rf', bb') \/ UNCHANGED <<rf, edges>>
    BY <1>19 DEF SetConfig, status
  <2>4. Settled'
    <3>1. CASE Interrupt(rf', bb')
      BY <1>1, <2>1, <2>2, <3>1, SettledKept
    <3>2. CASE UNCHANGED <<rf, edges>>
      BY <2>1, <2>2, <3>2 DEF Settled, Told, Overlooked, events
    <3>3. QED
      BY <2>3, <3>1, <3>2
  <2>5. QED
    BY <2>1, <2>4 DEF EdgeKept, Settled
<1>20. ASSUME NEW s \in BOOLEAN, SetModulation(s) PROVE EdgeKept'
  <2>1. /\ pc = "idle" /\ pc' = "idle" /\ UNCHANGED <<bb, events, unpolled, late>>
    BY <1>20 DEF SetModulation, handling, runtime, status
  <2>2. Settled
    BY <2>1 DEF EdgeKept, Settled
  <2>3. Interrupt(rf', bb') \/ UNCHANGED <<rf, edges>>
    BY <1>20 DEF SetModulation, status
  <2>4. Settled'
    <3>1. CASE Interrupt(rf', bb')
      BY <1>1, <2>1, <2>2, <3>1, SettledKept
    <3>2. CASE UNCHANGED <<rf, edges>>
      BY <2>1, <2>2, <3>2 DEF Settled, Told, Overlooked, events
    <3>3. QED
      BY <2>3, <3>1, <3>2
  <2>5. QED
    BY <2>1, <2>4 DEF EdgeKept, Settled
<1>21. CASE UNCHANGED vars
  BY <1>1, <1>21 DEF EdgeKept, Told, Overlooked, Tuned, vars, status, chips,
     events, runtime, requests, handling, history
<1>22. QED
  BY <1>2, <1>3, <1>4, <1>5, <1>6, <1>7, <1>8, <1>9, <1>10, <1>11, <1>12, <1>13,
     <1>14, <1>15, <1>16, <1>17, <1>18, <1>19, <1>20, <1>21 DEF Next,
     EventThread, Handling, Sending

--------------------------------------------------------------------------------
(* A step that neither ends nor publishes a frame keeps the count of a band *)
(* when it puts no frame in hand that a flag did not announce.              *)
LEMMA CountKept ==
  ASSUME NEW b \in Bands, TypeInv, CountedOn(b),
         UNCHANGED <<buffer, ended, published, held>>,
         InHand(b)' + Announced(b)' <= InHand(b) + Announced(b),
         pc' = "frame" /\ b = Tuned' => pc = "frame" /\ b = Tuned
  PROVE  CountedOn(b)'
<1>1. /\ ended[b] \in Nat /\ Len(published[b]) \in Nat
      /\ InHand(b) \in 0..1 /\ InHand(b)' \in 0..1
      /\ Announced(b) \in 0..1 /\ Announced(b)' \in 0..1
  BY RadioAssumption DEF TypeInv, TypeOK, InHand, Announced
<1>2. QED
  BY <1>1 DEF CountedOn

(* Every step keeps the count: a frame that ends raises a flag, a flag that *)
(* is taken puts a frame in hand, and a frame in hand is published.         *)
LEMMA CountedStep ==
  ASSUME TypeInv, Counted, [Next]_vars
  PROVE  Counted'
<1> SUFFICES ASSUME NEW h \in Bands PROVE CountedOn(h)'
  BY DEF Counted
<1>1. /\ Tuned \in Bands /\ turn \in 1..4 /\ CountedOn(h)
      /\ Len(published[h]) \in Nat /\ ended[h] \in Nat /\ held \in Nat
      /\ InHand(h) \in 0..1 /\ Announced(h) \in 0..1
      /\ published[h] \in Seq(1..Frames)
  BY RadioAssumption DEF TypeInv, TypeOK, Tuned, Counted, InHand, Announced
<1>0. \A i \in DOMAIN published[h] : published[h][i] \in Nat
  <2>1. Frames \in Nat
    BY RadioAssumption
  <2>2. QED
    BY <1>1, <2>1, ElementOfSeq, LenProperties
<1>2. ASSUME NEW b \in Bands, FrameEnds(b) PROVE CountedOn(h)'
  <2>1. /\ ended' = [ended EXCEPT ![b] = @ + 1] /\ buffer' = [buffer EXCEPT ![b] = ended[b] + 1]
        /\ bb' = [bb EXCEPT ![b] = @ \cup {"RXFE"}]
        /\ UNCHANGED <<pc, held, config, mask, published>>
    BY <1>2 DEF FrameEnds, runtime, requests, handling
  <2>2. InHand(h)' = InHand(h) /\ Tuned' = Tuned
    BY <2>1 DEF InHand, Tuned
  <2>3. CASE h = b
    <3>1. /\ buffer'[h] = ended[h] + 1 /\ ended'[h] = ended[h] + 1
          /\ Announced(h)' \in 0..1
      BY <2>1, <2>3 DEF TypeInv, TypeOK, Announced
    <3>2. QED
      BY <1>0, <1>1, <2>1, <2>2, <3>1 DEF CountedOn
  <2>4. CASE h # b
    <3>1. /\ buffer'[h] = buffer[h] /\ ended'[h] = ended[h]
          /\ Announced(h)' = Announced(h)
      BY <2>1, <2>4 DEF TypeInv, TypeOK, Announced, Unseen
    <3>2. QED
      BY <1>1, <2>1, <2>2, <3>1 DEF CountedOn
  <2>5. QED
    BY <2>3, <2>4
<1>3. ASSUME NEW b \in Bands, ChannelIsClear(b) PROVE CountedOn(h)'
  BY <1>1, <1>3, CountKept DEF InHand, Announced, Unseen, Tuned, ChannelIsClear,
     events, runtime, requests, history, MeasurementEnds
<1>4. ASSUME NEW b \in Bands, ChannelIsBusy(b) PROVE CountedOn(h)'
  BY <1>1, <1>4, CountKept DEF InHand, Announced, Unseen, Tuned, ChannelIsBusy,
     events, runtime, requests, history, MeasurementEnds
<1>5. ASSUME NEW b \in Bands, TransmissionEnds(b) PROVE CountedOn(h)'
  <2>1. /\ UNCHANGED <<pc, held, config, mask, buffer, history>>
        /\ Unseen(h)' <=> Unseen(h)
    BY <1>5 DEF TransmissionEnds, TypeInv, TypeOK, Unseen, runtime, requests, handling
  <2>2. QED
    BY <1>1, <2>1, CountKept DEF InHand, Announced, Tuned, history
<1>6. CASE TakeEdge
  BY <1>1, <1>6, CountKept DEF InHand, Announced, Unseen, Tuned, TakeEdge, chips,
     runtime, requests, handling, history
<1>7. CASE Notify
  BY <1>1, <1>7, CountKept DEF InHand, Announced, Unseen, Tuned, Notify, status,
     chips, runtime, requests, handling, history
<1>8. CASE WakeManager
  BY <1>1, <1>8, CountKept DEF InHand, Announced, Unseen, Tuned, WakeManager,
     status, chips, requests, history
<1>9. CASE UpdateEvent
  <2>1. /\ pc = "update" /\ pc' \in {"update", "receive"}
        /\ UNCHANGED <<chips, held, requests, history>>
    BY <1>1, <1>9, RegisterRead
  <2>2. Unseen(h)' => Unseen(h)
    <3>1. CASE turn \in {1, 3}
      BY <1>1, <1>9, <3>1, RegisterRead DEF Unseen
    <3>2. CASE turn \in {2, 4}
      BY <1>1, <1>9, <3>2, RegisterRead DEF TypeInv, TypeOK, Unseen
    <3>3. QED
      BY <1>1, <3>1, <3>2
  <2>3. InHand(h)' + Announced(h)' <= InHand(h) + Announced(h)
    BY <2>1, <2>2 DEF Announced, InHand
  <2>4. QED
    BY <1>1, <2>1, <2>3, CountKept DEF chips, history
<1>10. CASE Poll
  <2>1. /\ pc \in {"receive", "polled"} /\ UNCHANGED <<chips, held, requests, history>>
        /\ pc' = IF Unseen(Tuned) THEN "load" ELSE "polled"
        /\ bb' = [bb EXCEPT ![Tuned] = {}] /\ mask' = [mask EXCEPT ![Tuned] = FALSE]
    BY <1>10 DEF Poll
  <2>2. Tuned' = Tuned
    BY <2>1 DEF Tuned, requests
  <2>3. InHand(h)' + Announced(h)' <= InHand(h) + Announced(h)
    <3>1. CASE h = Tuned
      <4>1. ~Unseen(h)'
        BY <1>1, <2>1, <2>2, <3>1 DEF Unseen, TypeInv, TypeOK
      <4>2. QED
        BY <2>1, <2>2, <3>1, <4>1 DEF InHand, Announced
    <3>2. CASE h # Tuned
      <4>1. Unseen(h)' <=> Unseen(h)
        BY <1>1, <2>1, <3>2 DEF Unseen, TypeInv, TypeOK
      <4>2. QED
        BY <2>1, <2>2, <3>2, <4>1 DEF InHand, Announced
    <3>3. QED
      BY <3>1, <3>2
  <2>4. QED
    BY <1>1, <2>1, <2>3, CountKept DEF chips, history
<1>11. CASE LoadRx
  <2>1. /\ pc = "load" /\ pc' = "frame" /\ held' = buffer[Tuned]
        /\ UNCHANGED <<chips, requests, handling, history, bb>>
    BY <1>11 DEF LoadRx, status
  <2>2. Tuned' = Tuned /\ InHand(h)' = InHand(h) /\ Announced(h)' = Announced(h)
    BY <2>1 DEF Tuned, InHand, Announced, Unseen, requests, handling
  <2>3. h = Tuned => InHand(h) = 1 /\ held' = ended[h]
    BY <2>1 DEF InHand, Counted, CountedOn
  <2>4. QED
    BY <1>0, <1>1, <2>1, <2>2, <2>3 DEF CountedOn, chips, history
<1>12. CASE ReceiveTimeout
  BY <1>1, <1>12, CountKept DEF InHand, Announced, Unseen, Tuned, ReceiveTimeout,
     status, chips, events, requests, handling, history
<1>13. CASE StartReceive
  <2>1. /\ turn \in 1..2 /\ pc \in {"frame", "timeout", "transmitted", "unanswered"}
        /\ UNCHANGED <<bb, mask, buffer, ended, config>>
    BY <1>1, <1>13 DEF StartReceive, TypeInv, TurnInv, handling, requests
  <2>2. Announced(h)' = Announced(h) /\ Tuned' = Tuned
    BY <2>1 DEF Announced, Unseen, Tuned
  <2>3. CASE turn = 2 /\ pc = "frame" /\ h = Tuned
    <3>1. pc' = "receive" /\ published' = [published EXCEPT ![Tuned] = Append(@, held)]
      BY <1>13, <2>3, TurnedOn
    <3>2. published'[h] = Append(published[h], held)
      BY <1>1, <2>3, <3>1 DEF TypeInv, TypeOK
    <3>3. /\ Len(published'[h]) = Len(published[h]) + 1
          /\ DOMAIN published'[h] = 1..(Len(published[h]) + 1)
          /\ \A i \in 1..Len(published[h]) : published'[h][i] = published[h][i]
          /\ published'[h][Len(published[h]) + 1] = held
          /\ DOMAIN published[h] = 1..Len(published[h])
      BY <1>1, <3>2
    <3>4. InHand(h) = 1 /\ InHand(h)' = 0
      BY <2>3, <3>1 DEF InHand
    <3>5. QED
      BY <1>1, <2>1, <2>2, <2>3, <3>1, <3>3, <3>4 DEF CountedOn
  <2>4. CASE turn = 2 /\ pc = "frame" /\ h # Tuned
    <3>1. pc' = "receive" /\ published' = [published EXCEPT ![Tuned] = Append(@, held)]
      BY <1>13, <2>4, TurnedOn
    <3>2. published'[h] = published[h] /\ InHand(h)' = InHand(h)
      BY <1>1, <2>2, <2>4, <3>1 DEF TypeInv, TypeOK, InHand
    <3>3. QED
      BY <1>1, <2>1, <2>2, <3>1, <3>2 DEF CountedOn
  <2>5. CASE turn = 2 /\ pc # "frame"
    <3>1. pc' = "idle" /\ UNCHANGED published
      BY <1>13, <2>5, TurnedOn
    <3>2. InHand(h)' = 0
      BY <3>1 DEF InHand
    <3>3. QED
      BY <1>1, <2>1, <2>2, <3>1, <3>2 DEF CountedOn
  <2>6. CASE turn = 1
    <3>1. UNCHANGED <<pc, held, published>>
      BY <1>13, <2>6, TurnedOn
    <3>2. InHand(h)' = InHand(h)
      BY <2>2, <3>1 DEF InHand
    <3>3. QED
      BY <1>1, <2>1, <2>2, <3>1, <3>2, CountKept
  <2>7. QED
    BY <2>1, <2>3, <2>4, <2>5, <2>6
<1>14. CASE Transmit
  BY <1>1, <1>14, CountKept DEF InHand, Announced, Unseen, Tuned, Transmit, status,
     chips, events, handling, history
<1>15. CASE Assess
  BY <1>1, <1>15, CountKept DEF InHand, Announced, Unseen, Tuned, Assess, events,
     requests, handling, history
<1>16. CASE SeeTransmitted
  BY <1>1, <1>16, CountKept DEF InHand, Announced, Unseen, Tuned, SeeTransmitted,
     chips, events, requests, handling, history
<1>17. CASE SeeBusy
  BY <1>1, <1>17, CountKept DEF InHand, Announced, Unseen, Tuned, SeeBusy, events,
     requests, handling, history
<1>18. CASE SeeNothing
  BY <1>1, <1>18, CountKept DEF InHand, Announced, Unseen, Tuned, SeeNothing,
     status, chips, events, requests, handling, history
<1>19. ASSUME NEW c \in Configs, SetConfig(c) PROVE CountedOn(h)'
  <2>1. pc = "idle" /\ UNCHANGED <<pc, bb, mask, buffer, held, history>>
    BY <1>19 DEF SetConfig, status, runtime, handling
  <2>2. QED
    BY <1>1, <2>1, CountKept DEF InHand, Announced, Unseen, history
<1>20. ASSUME NEW s \in BOOLEAN, SetModulation(s) PROVE CountedOn(h)'
  BY <1>1, <1>20, CountKept DEF InHand, Announced, Unseen, Tuned, SetModulation,
     events, runtime, handling, history
<1>21. CASE UNCHANGED vars
  BY <1>1, CountKept, <1>21 DEF InHand, Announced, Unseen, Tuned, vars, status,
     chips, events, runtime, requests, handling, history
<1>22. QED
  BY <1>2, <1>3, <1>4, <1>5, <1>6, <1>7, <1>8, <1>9, <1>10, <1>11, <1>12, <1>13,
     <1>14, <1>15, <1>16, <1>17, <1>18, <1>19, <1>20, <1>21 DEF Next,
     EventThread, Handling, Sending

(* Every step keeps the order in which the frames of a band are published.  *)
LEMMA OrderStep ==
  ASSUME TypeInv, Counted, PublishedInOrder, [Next]_vars
  PROVE  PublishedInOrder'
<1>1. Tuned \in Bands /\ turn \in 1..4 /\ held \in Nat
  BY RadioAssumption DEF TypeInv, TypeOK, Tuned
<1>2. CASE UNCHANGED published
  BY <1>2 DEF PublishedInOrder
<1>3. CASE StartReceive /\ turn = 2 /\ pc = "frame"
  <2>1. published' = [published EXCEPT ![Tuned] = Append(@, held)]
    BY <1>3, TurnedOn
  <2>2. SUFFICES ASSUME NEW b \in Bands
                 PROVE  \A i \in DOMAIN published'[b] :
                          /\ published'[b][i] >= i
                          /\ \A j \in 1..i : published'[b][j] <= published'[b][i]
    BY DEF PublishedInOrder
  <2>3. CASE b # Tuned
    BY <1>1, <2>1, <2>3 DEF TypeInv, TypeOK, PublishedInOrder
  <2>4. CASE b = Tuned
    <3>1. published[b] \in Seq(1..Frames) /\ published'[b] = Append(published[b], held)
      BY <1>1, <2>1, <2>4 DEF TypeInv, TypeOK
    <3>2. /\ DOMAIN published'[b] = 1..(Len(published[b]) + 1)
          /\ \A i \in 1..Len(published[b]) : published'[b][i] = published[b][i]
          /\ published'[b][Len(published[b]) + 1] = held
          /\ DOMAIN published[b] = 1..Len(published[b]) /\ Len(published[b]) \in Nat
      BY <3>1
    <3>3. /\ Len(published[b]) < held
          /\ \A i \in DOMAIN published[b] : published[b][i] <= held
      BY <1>3, <2>4 DEF Counted, CountedOn
    <3>4. \A i \in DOMAIN published[b] :
            /\ published[b][i] >= i
            /\ \A j \in 1..i : published[b][j] <= published[b][i]
      BY DEF PublishedInOrder
    <3>5. ASSUME NEW i \in DOMAIN published'[b], i # Len(published[b]) + 1
          PROVE  /\ published'[b][i] >= i
                 /\ \A j \in 1..i : published'[b][j] <= published'[b][i]
      <4>1. i \in DOMAIN published[b] /\ \A j \in 1..i : j \in DOMAIN published[b]
        BY <3>2, <3>5
      <4>2. QED
        BY <3>2, <3>4, <4>1
    <3>6. ASSUME NEW i \in DOMAIN published'[b], i = Len(published[b]) + 1
          PROVE  /\ published'[b][i] >= i
                 /\ \A j \in 1..i : published'[b][j] <= published'[b][i]
      <4>1. \A j \in 1..i : j \in DOMAIN published[b] \/ j = i
        BY <3>2, <3>6
      <4>2. published'[b][i] = held /\ held >= i
        BY <1>1, <3>2, <3>3, <3>6
      <4>3. QED
        BY <1>1, <3>2, <3>3, <4>1, <4>2
    <3>7. QED
      BY <3>5, <3>6
  <2>5. QED
    BY <2>3, <2>4
<1>4. CASE StartReceive /\ ~(turn = 2 /\ pc = "frame")
  <2>1. turn \in 1..2
    BY <1>4 DEF StartReceive, TypeInv, TurnInv
  <2>2. QED
    BY <1>2, <1>4, <2>1, TurnedOn
<1>5. StartReceive \/ UNCHANGED published
  BY DEF Next, EventThread, Handling, Sending, FrameEnds, ChannelIsClear,
     ChannelIsBusy, TransmissionEnds, TakeEdge, Notify, WakeManager, UpdateEvent,
     Poll, LoadRx, ReceiveTimeout, Transmit, Assess, SeeTransmitted, SeeBusy,
     SeeNothing, SetConfig, SetModulation, vars, history
<1>6. QED
  BY <1>2, <1>3, <1>4, <1>5

--------------------------------------------------------------------------------
(* Everything that has been shown of a step, for the theorems.              *)
LEMMA RadioCorrect == Spec => []RadioInv
<1>1. RadioInv /\ [Next]_vars => RadioInv'
  BY TypeStep, TransmittingStep, PolledStep, EdgeStep, CountedStep, OrderStep DEF RadioInv
<1>2. QED
  BY InitInv, <1>1, PTL DEF Spec

(* The types of Radio's state.                                              *)
THEOREM TypeCorrect == Spec => []TypeOK
<1>1. RadioInv => TypeOK
  BY DEF RadioInv, TypeInv
<1>2. QED
  BY <1>1, RadioCorrect, PTL

(* After transmit, whatever was refused before and whether the measurements *)
(* were answered or not, each band receives, or ends a measurement that was *)
(* given up, or has an interrupt to be handled; the tuned band's baseband   *)
(* is on when the last measurement was answered.                            *)
THEOREM ReceiverRestored == Spec => TransmitRestoresReceiver
<1>1. RadioInv /\ [Next]_vars
        => [(pc \in {"transmitted", "unanswered"} /\ pc' = "idle")
              => /\ \A b \in Bands : chip'[b] \in {"Rx", "Cca", "Tx"} \/ bb'[b] # {}
                 /\ pc = "unanswered" \/ bben'[Tuned]]_vars
  BY TransmitEnds DEF RadioInv
<1>2. QED
  BY <1>1, RadioCorrect, PTL DEF Spec, TransmitRestoresReceiver

(* When the runtime is free and the line is high, its edge is queued, or    *)
(* being told, or told, unless a bit was set behind update_event on a band  *)
(* that is not polled, or by a measurement given up: whatever the chip does *)
(* between the reads, no other rising edge is missed.                       *)
THEOREM InterruptKept == Spec => []NoLostInterrupt
<1>1. RadioInv => NoLostInterrupt
  BY DEF RadioInv, EdgeKept, Overlooked, NoLostInterrupt
<1>2. QED
  BY <1>1, RadioCorrect, PTL

(* A flag that outlives the handling of its interrupt in the driver's mask  *)
(* is one of a band that the handling did not poll.                         *)
THEOREM MaskIsEmptied == Spec => []NoStaleFlag
<1>1. RadioInv => NoStaleFlag
  BY DEF RadioInv, PolledSoFar, NoStaleFlag
<1>2. QED
  BY <1>1, RadioCorrect, PTL

(* The frames of each band are published in the order in which they ended,  *)
(* and no more often than frames ended there.                               *)
THEOREM FramesInOrder == Spec => []PublishedInOrder
<1>1. RadioInv => PublishedInOrder
  BY DEF RadioInv
<1>2. QED
  BY <1>1, RadioCorrect, PTL

================================================================================
