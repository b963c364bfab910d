--------------------------------- MODULE Radio ---------------------------------
(****************************************************************************)
(* One radio of the daemon: the two bands of its RF215, the interrupt line, *)
(* the thread that waits for the line's rising edge (radio_event_thread),   *)
(* and the runtime's only thread (main.rs:20), on which manage_radio        *)
(* (kaonic-commd/src/radio_server.rs) and the handlers of requests run the  *)
(* driver (kaonic-radio/src/platform/kaonic1s/mod.rs, radio-rf215).  None   *)
(* of the driver's methods awaits, so they exclude each other; the chip and *)
(* the event thread go on beside them, between any two register accesses.   *)
(*                                                                          *)
(* The chip is external, as the driver relies on it: reading a status       *)
(* register clears it, the line is high while a status bit is set, and a    *)
(* band that has received a frame stays in TRXPREP until it is told to      *)
(* receive again.  The frames of a band are numbered as they end.  Errors   *)
(* of the bus are left out, and the end of an energy measurement, whose bit *)
(* comes with the outcome of the measurement and is not used.               *)
(****************************************************************************)
EXTENDS Naturals, Sequences

CONSTANTS
  Configs,       \* configurations that set_config is called with
  BandOf,        \* the band that each selects
  Valid,         \* those that Radio::set_frequency does not refuse
  Start,         \* the one applied when the daemon starts
  Heard,         \* the bands on which frames are received
  Tries,         \* attempts to transmit: 4 in the code
  Frames,        \* bound: frames received
  MaxEdges,      \* bound: edges the kernel queues
  MaxRequests    \* bound: requests that change something

Bands == {"09", "24"}
Order == <<"09", "24">>    \* in which Rf215 visits its transceivers

ASSUME RadioAssumption ==
  /\ BandOf \in [Configs -> Bands]
  /\ Valid \subseteq Configs /\ Start \in Valid
  /\ Heard \subseteq Bands
  /\ Tries \in Nat \ {0} /\ Frames \in Nat /\ MaxEdges \in Nat \ {0}
  /\ MaxRequests \in Nat

VARIABLES
  chip,          \* the transceivers' states; "Cca" is Rx measuring for CCATX
  bben,          \* the basebands are enabled (PC.BBEN)
  rf, bb,        \* status registers of radio and baseband: bits set, not read
  buffer,        \* the basebands' receive buffers: the last frame
  edges,         \* edges queued for the event thread
  thread,        \* "waiting" or "notifying"
  notified,      \* the watch channel holds a value manage_radio has not seen
  config,        \* Rf215::freq_config
  mask,          \* Baseband::irqs holds ReceiverFrameEnd
  pc, turn,      \* where the runtime's thread is
  tries,         \* attempts made to transmit
  held,          \* the frame that receive is about to return, of the tuned band
  answer,        \* what the last set_config or set_modulation returned
  handled,       \* requests handled that may have changed something
  unpolled,      \* bands that no poll has read since the manager woke (history)
  late,          \* a measurement that was given up ended in update_event (history)
  ended,         \* frames received by the chip on each band (history)
  published      \* those of each band sent to module_rx (history)

status   == <<rf, bb, edges>>
chips    == <<chip, bben, buffer>>
events   == <<thread, notified>>
runtime  == <<pc, turn, tries, held>>
requests == <<config, answer, handled>>
handling == <<mask, unpolled, late>>
history  == <<ended, published>>
vars     == <<status, chips, events, runtime, requests, handling, history>>

Tuned == BandOf[config]

Pending(r, f) == \E b \in Bands : r[b] # {} \/ f[b] # {}

(* The line rises, and the kernel queues an edge, when the first bit is set. *)
Interrupt(r, f) ==
  edges' = IF ~Pending(rf, bb) /\ Pending(r, f) /\ edges < MaxEdges THEN edges + 1 ELSE edges

(* The bits radio.rs receive leaves when it puts the bands bs on: they pass *)
(* through TRXPREP unless they are there or in RX already.                  *)
SwitchedOn(bs) ==
  [b \in Bands |-> IF b \in bs /\ chip[b] \in {"TrxOff", "Tx"}
                   THEN rf[b] \cup {"TRXRDY"} ELSE rf[b]]

Unseen(b) == "RXFE" \in bb[b] \/ mask[b]

--------------------------------------------------------------------------------
Init ==
  /\ chip = [b \in Bands |-> "Rx"] /\ bben = [b \in Bands |-> TRUE]
  /\ rf = [b \in Bands |-> {}] /\ bb = [b \in Bands |-> {}]
  /\ buffer = [b \in Bands |-> 0] /\ mask = [b \in Bands |-> FALSE]
  /\ edges = 0 /\ thread = "waiting" /\ notified = FALSE
  /\ config = Start /\ answer = "none" /\ handled = 0
  /\ pc = "idle" /\ turn = 1 /\ tries = 0 /\ held = 0
  /\ unpolled = {} /\ late = FALSE
  /\ ended = [b \in Bands |-> 0] /\ published = [b \in Bands |-> <<>>]

(* The chip. *)
FrameEnds(b) ==
  /\ b \in Heard /\ chip[b] = "Rx" /\ bben[b]
  /\ ended["09"] + ended["24"] < Frames
  /\ ended' = [ended EXCEPT ![b] = @ + 1]
  /\ buffer' = [buffer EXCEPT ![b] = ended[b] + 1]
  /\ chip' = [chip EXCEPT ![b] = "TrxPrep"]
  /\ bb' = [bb EXCEPT ![b] = @ \cup {"RXFE"}]
  /\ Interrupt(rf, bb')
  /\ UNCHANGED <<bben, rf, events, runtime, requests, handling, published>>

(* A measurement may end when the driver has given it up, in any of its     *)
(* states: late says that it did when update_event may have read the        *)
(* register already.                                                        *)
MeasurementEnds ==
  /\ late' = (late \/ pc \in {"update", "receive"})
  /\ UNCHANGED <<mask, unpolled>>

ChannelIsClear(b) ==
  /\ chip[b] = "Cca"
  /\ chip' = [chip EXCEPT ![b] = "Tx"]
  /\ bben' = [bben EXCEPT ![b] = TRUE]
  /\ rf' = [rf EXCEPT ![b] = @ \cup {"TRXRDY"}]
  /\ Interrupt(rf', bb) /\ MeasurementEnds
  /\ UNCHANGED <<bb, buffer, events, runtime, requests, history>>

ChannelIsBusy(b) ==
  /\ chip[b] = "Cca"
  /\ chip' = [chip EXCEPT ![b] = "Rx"]
  /\ rf' = [rf EXCEPT ![b] = @ \cup {"TRXERR"}]
  /\ Interrupt(rf', bb) /\ MeasurementEnds
  /\ UNCHANGED <<bb, bben, buffer, events, runtime, requests, history>>

TransmissionEnds(b) ==
  /\ chip[b] = "Tx"
  /\ chip' = [chip EXCEPT ![b] = "TrxPrep"]
  /\ bb' = [bb EXCEPT ![b] = @ \cup {"TXFE"}]
  /\ Interrupt(rf, bb')
  /\ UNCHANGED <<rf, bben, buffer, events, runtime, requests, handling, history>>

(* The event thread: wait_for_event, then the watch channel. *)
TakeEdge ==
  /\ thread = "waiting" /\ edges > 0
  /\ edges' = edges - 1
  /\ thread' = "notifying"
  /\ UNCHANGED <<rf, bb, chips, notified, runtime, requests, handling, history>>

Notify ==
  /\ thread = "notifying"
  /\ notified' = TRUE
  /\ thread' = "waiting"
  /\ UNCHANGED <<status, chips, runtime, requests, handling, history>>

--------------------------------------------------------------------------------
(* manage_radio. *)
WakeManager ==
  /\ pc = "idle" /\ notified
  /\ notified' = FALSE
  /\ pc' = "update" /\ turn' = 1
  /\ unpolled' = Bands /\ late' = FALSE
  /\ UNCHANGED <<status, chips, thread, tries, held, requests, mask, history>>

(* Mutant: only the first band's registers are read. *)
UpdateFirstBand ==
  /\ pc = "update"
  /\ IF turn = 1
     THEN rf' = [rf EXCEPT !["09"] = {}] /\ UNCHANGED <<bb, mask>>
     ELSE /\ mask' = [mask EXCEPT !["09"] = @ \/ "RXFE" \in bb["09"]]
          /\ bb' = [bb EXCEPT !["09"] = {}] /\ UNCHANGED rf
  /\ IF turn = 2 THEN pc' = "receive" /\ turn' = 1 ELSE turn' = turn + 1 /\ UNCHANGED pc
  /\ UNCHANGED <<edges, chips, events, tries, held, requests, unpolled, late, history>>

(* update_event reads the four status registers in turn, and adds what it   *)
(* reads to the driver's masks.  (That of the radio is reset before it is   *)
(* used, by clear_irqs.)                                                    *)
UpdateEvent ==
  LET b == Order[(turn + 1) \div 2]
  IN  /\ pc = "update"
      /\ IF turn % 2 = 1
         THEN rf' = [rf EXCEPT ![b] = {}] /\ UNCHANGED <<bb, mask>>
         ELSE /\ mask' = [mask EXCEPT ![b] = @ \/ "RXFE" \in bb[b]]
              /\ bb' = [bb EXCEPT ![b] = {}] /\ UNCHANGED rf
      /\ IF turn = 4 THEN pc' = "receive" /\ turn' = 1 ELSE turn' = turn + 1 /\ UNCHANGED pc
      /\ UNCHANGED <<edges, chips, events, tries, held, requests, unpolled, late, history>>

(* Mutant: the flag is looked at and not taken. *)
PollKeepingFlag ==
  /\ pc \in {"receive", "polled"}
  /\ bb' = [bb EXCEPT ![Tuned] = {}]
  /\ mask' = [mask EXCEPT ![Tuned] = Unseen(Tuned)]
  /\ unpolled' = unpolled \ {Tuned}
  /\ pc' = IF Unseen(Tuned) THEN "load" ELSE "polled"
  /\ UNCHANGED <<rf, edges, chips, events, turn, tries, held, requests, late, history>>

(* Mutant: only what this poll has read is looked at. *)
PollFreshBits ==
  /\ pc \in {"receive", "polled"}
  /\ bb' = [bb EXCEPT ![Tuned] = {}]
  /\ unpolled' = unpolled \ {Tuned}
  /\ pc' = IF "RXFE" \in bb[Tuned] THEN "load" ELSE "polled"
  /\ UNCHANGED <<rf, edges, chips, events, turn, tries, held, requests, mask, late, history>>

(* A turn of Baseband::wait_irqs in bb_receive: of the tuned band's only. *)
Poll ==
  /\ pc \in {"receive", "polled"}
  /\ bb' = [bb EXCEPT ![Tuned] = {}]
  /\ mask' = [mask EXCEPT ![Tuned] = FALSE]
  /\ unpolled' = unpolled \ {Tuned}
  /\ pc' = IF Unseen(Tuned) THEN "load" ELSE "polled"
  /\ UNCHANGED <<rf, edges, chips, events, turn, tries, held, requests, late, history>>

LoadRx ==
  /\ pc = "load"
  /\ held' = buffer[Tuned]
  /\ pc' = "frame"
  /\ UNCHANGED <<status, chips, events, turn, tries, requests, handling, history>>

(* Mutant: the notification is marked as seen after the handling. *)
TimeoutMarksSeen ==
  /\ pc \in {"receive", "polled"}
  /\ pc' = "timeout"
  /\ notified' = FALSE
  /\ UNCHANGED <<status, chips, thread, turn, tries, held, requests, handling, history>>

(* The deadline is looked at before each poll, the first one included. *)
ReceiveTimeout ==
  /\ pc \in {"receive", "polled"}
  /\ pc' = "timeout"
  /\ UNCHANGED <<status, chips, events, turn, tries, held, requests, handling, history>>

(* start_receive on both bands, at the end of receive and of transmit; a    *)
(* transmission that takes more than 100 ms is cut off (radio.rs:427), and  *)
(* a measurement that was given up goes on: its state reads as Rx.  Then a  *)
(* frame is published and the loop of manage_radio goes on.                 *)
StartReceive ==
  LET b == Order[turn]
  IN  /\ pc \in {"frame", "timeout", "transmitted", "unanswered"}
      /\ chip' = [chip EXCEPT ![b] = IF @ = "Cca" THEN @ ELSE "Rx"]
      /\ rf' = SwitchedOn({b})
      /\ Interrupt(rf', bb)
      /\ IF turn = 2
         THEN /\ turn' = 1
              /\ pc' = IF pc = "frame" THEN "receive" ELSE "idle"
              /\ held' = 0
              /\ published' = IF pc = "frame"
                              THEN [published EXCEPT ![Tuned] = Append(@, held)]
                              ELSE published
         ELSE turn' = 2 /\ UNCHANGED <<pc, held, published>>
      /\ UNCHANGED <<bb, bben, buffer, events, tries, requests, handling, ended>>

--------------------------------------------------------------------------------
Handle == handled < MaxRequests /\ handled' = handled + 1

(* Requests.  transmit tries bb_transmit_cca up to four times. *)
Transmit ==
  /\ pc = "idle" /\ Handle
  /\ pc' = "assess" /\ tries' = 1
  /\ UNCHANGED <<status, chips, events, turn, held, config, answer, handling, history>>

(* bb_transmit_cca up to the wait, in one step: the baseband off, the       *)
(* receiver on, the radio's status cleared, the measurement started.        *)
Assess ==
  /\ pc = "assess"
  /\ pc' = "wait"
  /\ bben' = [bben EXCEPT ![Tuned] = FALSE]
  /\ chip' = [chip EXCEPT ![Tuned] = "Cca"]
  /\ Interrupt(SwitchedOn({Tuned}), bb)
  /\ rf' = [rf EXCEPT ![Tuned] = {}]
  /\ UNCHANGED <<bb, buffer, events, turn, tries, held, requests, handling, history>>

(* wait_any_irq. *)
SeeTransmitted ==
  /\ pc = "wait" /\ "TRXRDY" \in rf[Tuned]
  /\ rf' = [rf EXCEPT ![Tuned] = {}]
  /\ pc' = "transmitted"
  /\ UNCHANGED <<bb, edges, chips, events, turn, tries, held, requests, handling, history>>

(* Mutant: the baseband stays off. *)
SeeBusyOnly ==
  /\ pc = "wait" /\ "TRXERR" \in rf[Tuned]
  /\ rf' = [rf EXCEPT ![Tuned] = {}]
  /\ IF tries < Tries THEN pc' = "assess" /\ tries' = tries + 1
                      ELSE pc' = "transmitted" /\ UNCHANGED tries
  /\ UNCHANGED <<bb, edges, chips, events, turn, held, requests, handling, history>>

(* Mutant: one try too many. *)
SeeBusyOnceMore ==
  /\ pc = "wait" /\ "TRXERR" \in rf[Tuned]
  /\ rf' = [rf EXCEPT ![Tuned] = {}]
  /\ bben' = [bben EXCEPT ![Tuned] = TRUE]
  /\ IF tries <= Tries THEN pc' = "assess" /\ tries' = tries + 1
                       ELSE pc' = "transmitted" /\ UNCHANGED tries
  /\ UNCHANGED <<bb, edges, chip, buffer, events, turn, held, requests, handling, history>>

SeeBusy ==
  /\ pc = "wait" /\ "TRXERR" \in rf[Tuned]
  /\ rf' = [rf EXCEPT ![Tuned] = {}]
  /\ bben' = [bben EXCEPT ![Tuned] = TRUE]
  /\ IF tries < Tries THEN pc' = "assess" /\ tries' = tries + 1
                      ELSE pc' = "transmitted" /\ UNCHANGED tries
  /\ UNCHANGED <<bb, edges, chip, buffer, events, turn, held, requests, handling, history>>

(* The 500 ms pass, which are looked at before the status: this try fails   *)
(* too, and the baseband is left as it is.                                  *)
SeeNothing ==
  /\ pc = "wait"
  /\ IF tries < Tries THEN pc' = "assess" /\ tries' = tries + 1
                      ELSE pc' = "unanswered" /\ UNCHANGED tries
  /\ UNCHANGED <<status, chips, events, turn, held, requests, handling, history>>

(* set_config: nothing when the configuration is the cached one; otherwise  *)
(* its band is turned off, and stays off if the values are refused.         *)
SetConfig(c) ==
  /\ pc = "idle"
  /\ IF c = config
     THEN answer' = "Ok" /\ UNCHANGED <<status, chip, config, handled>>
     ELSE /\ Handle
          /\ chip' = [chip EXCEPT ![BandOf[c]] = IF c \in Valid THEN "Rx" ELSE "TrxOff"]
          /\ IF c \in Valid
             THEN /\ answer' = "Ok" /\ config' = c
                  /\ rf' = [rf EXCEPT ![BandOf[c]] = @ \cup {"TRXRDY"}]
             ELSE answer' = "IncorrectConfig" /\ UNCHANGED <<config, rf>>
          /\ Interrupt(rf', bb) /\ UNCHANGED bb
  /\ UNCHANGED <<bben, buffer, events, runtime, handling, history>>

(* set_modulation configures both bands; FSK is refused by the first, which *)
(* is then off, with its baseband disabled.                                 *)
SetModulation(supported) ==
  /\ pc = "idle" /\ Handle
  /\ IF supported
     THEN /\ answer' = "Ok"
          /\ chip' = [b \in Bands |-> "Rx"] /\ bben' = [b \in Bands |-> TRUE]
          /\ rf' = [b \in Bands |-> rf[b] \cup {"TRXRDY"}]
     ELSE /\ answer' = "IncorrectConfig"
          /\ chip' = [chip EXCEPT !["09"] = "TrxOff"]
          /\ bben' = [bben EXCEPT !["09"] = FALSE]
          /\ UNCHANGED rf
  /\ Interrupt(rf', bb)
  /\ UNCHANGED <<bb, buffer, events, runtime, config, handling, history>>

EventThread == TakeEdge \/ Notify
Handling    == UpdateEvent \/ Poll \/ LoadRx \/ ReceiveTimeout \/ StartReceive
Sending     == Assess \/ SeeTransmitted \/ SeeBusy \/ SeeNothing

Next ==
  \/ \E b \in Bands :
       FrameEnds(b) \/ ChannelIsClear(b) \/ ChannelIsBusy(b) \/ TransmissionEnds(b)
  \/ EventThread
  \/ WakeManager \/ Handling
  \/ Transmit \/ Sending
  \/ \E c \in Configs : SetConfig(c)
  \/ \E supported \in BOOLEAN : SetModulation(supported)

Spec == Init /\ [][Next]_vars

(* The two threads run, a receive ends at its deadline, and the runtime's   *)
(* queue of tasks is fair to manage_radio.  The chip need not do anything.  *)
FairSpec ==
  /\ Spec
  /\ WF_vars(EventThread) /\ WF_vars(Handling) /\ SF_vars(ReceiveTimeout)
  /\ SF_vars(WakeManager) /\ WF_vars(Sending)

--------------------------------------------------------------------------------
TypeOK ==
  /\ chip \in [Bands -> {"TrxOff", "TrxPrep", "Rx", "Cca", "Tx"}]
  /\ bben \in [Bands -> BOOLEAN] /\ mask \in [Bands -> BOOLEAN]
  /\ rf \in [Bands -> SUBSET {"TRXRDY", "TRXERR"}]
  /\ bb \in [Bands -> SUBSET {"RXFE", "TXFE"}]
  /\ buffer \in [Bands -> 0..Frames]
  /\ edges \in 0..MaxEdges
  /\ thread \in {"waiting", "notifying"} /\ notified \in BOOLEAN
  /\ config \in Valid /\ answer \in {"none", "Ok", "IncorrectConfig"}
  /\ handled \in 0..MaxRequests
  /\ pc \in {"idle", "update", "receive", "polled", "load", "frame", "timeout",
             "assess", "wait", "transmitted", "unanswered"}
  /\ turn \in 1..4 /\ tries \in 0..Tries
  /\ unpolled \subseteq Bands /\ late \in BOOLEAN
  /\ held \in 0..Frames /\ ended \in [Bands -> 0..Frames]
  /\ published \in [Bands -> Seq(1..Frames)]

(* An edge that nobody has taken up yet.                                    *)
Told == edges > 0 \/ thread = "notifying" \/ notified

(* A bit was set in a register behind update_event, while the line was high *)
(* for another, and the polls that followed did not read it.                *)
Overlooked == late \/ \E b \in unpolled : bb[b] # {}

(* When the runtime is free and the line is high, its edge is queued, or    *)
(* being told, or told: only rising edges are waited for (linux.rs:62), so  *)
(* a bit set while another was unread is seen only if update_event and the  *)
(* polls after it read everything.  They miss a bit that is set behind      *)
(* update_event on a band that is not polled after it (the polls are of the *)
(* tuned band, lib.rs:229, and there is none if the 2 ms are over at the    *)
(* first look at the clock, baseband.rs:287), or by a measurement given up: *)
(* the line then stays high.  Nothing else makes the radio deaf.            *)
NoLostInterrupt == pc = "idle" /\ Pending(rf, bb) => Told \/ Overlooked

(* A flag that outlives the handling of its interrupt is one of a band that *)
(* the handling did not poll: the polls leave none in the driver's mask.    *)
NoStaleFlag == pc = "idle" => \A b \in Bands : mask[b] => b \in unpolled

(* The frames of a band are published in the order in which they ended, and *)
(* no more often than frames ended, whichever flags wait for a poll while   *)
(* the other band is tuned.  A frame may be published twice: when the       *)
(* receiver is put on while a flag is unseen, the next frame may end        *)
(* between the look at the flag and load_rx; the frame before it is lost.   *)
PublishedInOrder ==
  \A b \in Bands : \A i \in DOMAIN published[b] :
    /\ published[b][i] >= i
    /\ \A j \in 1..i : published[b][j] <= published[b][i]

(* Again and again each band is caught up: the last frame that ended on it  *)
(* is published, or a newer one, whatever is transmitted and configured     *)
(* meanwhile; a frame is lost to a newer one only, in the receive buffer.   *)
(* Two things excuse: the band is not polled any more, because the other    *)
(* one was tuned before the manager woke or because the 2 ms were over      *)
(* first; or the line is stuck.                                             *)
NotPolled(b) == <>[](b \in unpolled)
LineStuck    == <>[](Pending(rf, bb) /\ Overlooked /\ ~Told)
CaughtUp(b)  == ended[b] > 0 => \E i \in DOMAIN published[b] : published[b][i] >= ended[b]
LatestFramePublished == \A b \in Bands : []<>CaughtUp(b) \/ NotPolled(b) \/ LineStuck

(* After transmit, whatever was refused before, each band receives, or      *)
(* ends a measurement that was given up, or has an interrupt to be handled, *)
(* which puts its receiver on.  The tuned band's baseband is on when the    *)
(* chip told how the last measurement ended.                                *)
TransmitRestoresReceiver ==
  [][(pc \in {"transmitted", "unanswered"} /\ pc' = "idle")
       => /\ \A b \in Bands : chip'[b] \in {"Rx", "Cca", "Tx"} \/ bb'[b] # {}
          /\ pc = "unanswered" \/ bben'[Tuned]]_vars

(* "Applies a new frequency/channel configuration to the radio hardware"    *)
(* (kaonic-radio/src/radio.rs:37): when set_config or set_modulation was    *)
(* the last to be called and returned Ok, the tuned band is not off.        *)
AppliedMeansOn ==
  pc = "idle" /\ answer = "Ok" => chip[Tuned] # "TrxOff" /\ bben[Tuned]
================================================================================
