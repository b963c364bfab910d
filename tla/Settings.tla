-------------------------------- MODULE Settings --------------------------------
(****************************************************************************)
(* The settings of the daemon's radios: the two interfaces that change them *)
(* (kaonic-commd: radio_server.rs over UDP, grpc_server.rs), the platform   *)
(* (kaonic1s/mod.rs) and the driver (radio-rf215) down to the registers,    *)
(* pins and the FPGA's supply.                                              *)
(*                                                                          *)
(* All handlers run on one thread and none awaits with a radio locked, so a *)
(* request is one step.  What it does to the hardware is the sequence of    *)
(* its writes; a bus or a pin that fails cuts the sequence short, anywhere. *)
(* Lengths of frames and the counters of get_statistics are left out.       *)
(****************************************************************************)
EXTENDS Integers, Sequences, FiniteSetsExt

CONSTANTS
  Modules,       \* radios found at the start
  Configs,       \* RadioConfig messages: freq (MHz), spacing (kHz), channel, filter
  Modulations,   \* RadioModulation messages: phy, opt, power
  HasAnt24,      \* the board has a switch for the 2.4 GHz antenna
  HasFpga,       \* the FPGA was found
  MaxFaults      \* bound: operations that a failing bus or pin cuts short

Bands == {"09", "24"}

(* Bounds, in MHz and kHz: beyond them set_frequency's 32 bits do not hold  *)
(* a frequency or a spacing of 64.                                          *)
MaxFreq == 4000
MaxSpacing == 100000

ASSUME SettingsAssumption ==
  /\ Modules \subseteq {0, 1} /\ MaxFaults \in Nat
  /\ Configs \subseteq [freq : 1..MaxFreq, spacing : 1..MaxSpacing,
                         channel : Nat, filter : 0..2]
  /\ Modulations \subseteq [phy : {"off", "fsk", "ofdm", "qpsk"}, opt : Nat, power : Nat]

VARIABLES
  hw,            \* registers and pins of each radio
  fpga,          \* the FPGA's supply, which the radios share
  freq_config,   \* Rf215::freq_config
  config, modulation, accelerator,   \* Kaonic1SRadio
  ant_24_sel,    \* Kaonic1SRadioFem
  answer,        \* what the last request was answered
  faults,
  sure           \* history: what the radio's last settings leave no doubt of, see below

(* In sure[i]: "set", a set_config has succeeded; "pins", the last one did; *)
(* "channel", none was refused or cut short since one wrote the channel's   *)
(* registers; "modulation", "accelerator" and "antenna", the last attempt   *)
(* succeeded; "on", nothing that failed since may have left a band off.     *)
vars == <<hw, fpga, freq_config, config, modulation, accelerator, ant_24_sel, answer, faults,
          sure>>

--------------------------------------------------------------------------------
(* Messages and what the daemon makes of them.  Over UDP a setting comes as *)
(* it is; over gRPC in wider integers, cut to size, and an enum that is not *)
(* known becomes its default.                                               *)
FromProto(c) == [c EXCEPT !.channel = @ % 2^16, !.filter = IF @ = 1 THEN 1 ELSE 0]

OptionFromProto(opt) == IF opt <= 3 THEN opt ELSE 0

ModulationFromProto(m) == [m EXCEPT !.opt = OptionFromProto(@), !.power = @ % 2^8]

Received(via, c) == IF via = "grpc" THEN FromProto(c) ELSE c
ReceivedModulation(via, m) == IF via = "grpc" THEN ModulationFromProto(m) ELSE m

(* What each interface can carry at all. *)
Carries(via, c) == via = "udp" => c.channel < 2^16 /\ c.filter \in {0, 1}
CarriesModulation(via, m) == via = "udp" => m.opt <= 3 /\ m.power < 2^8

DefaultConfig == [freq |-> 869, spacing |-> 200, channel |-> 10, filter |-> 0]
DefaultModulation == [phy |-> "ofdm", opt |-> 0, power |-> 10]

--------------------------------------------------------------------------------
(* The driver: its operations as sequences of writes <<place, value>>.      *)

At(b, reg) == <<b, reg>>
Pin(p) == <<"pin", p>>
Mode == <<"chip", "IQIFC1">>
Wait == << <<"none", "">>, "" >>     \* reads, at which an operation may end

Places == {At(b, r) : b \in Bands,
             r \in {"state", "bben", "phy", "mod", "tx", "rx", "pac", "cs", "ccf0", "cnl", "cnm"}}
          \cup {Pin(p) : p \in {"v1", "v2", "ant_24"}} \cup {Mode}

(* The first n writes of an operation. *)
Applied(h, ops, n) ==
  [p \in DOMAIN h |->
     LET at == {i \in 1..n : ops[i][1] = p} IN IF at = {} THEN h[p] ELSE ops[Max(at)][2]]

InBand(b, f) == IF b = "09" THEN 390 <= f /\ f <= 1020 ELSE 2400 <= f /\ f <= 2483
BandOf(c) == IF InBand("09", c.freq) THEN "09" ELSE "24"
Offset(b) == IF b = "09" THEN 0 ELSE 1500
MaxChannel(b) == IF b = "09" THEN 255 ELSE 511

Accepted(b, c) == InBand(b, c.freq) /\ c.channel <= MaxChannel(b) /\ c.spacing \div 25 <= 255

(* radio.rs receive, from TRXOFF. *)
Receive(b) == << <<At(b, "state"), "TrxPrep">>, <<At(b, "state"), "Rx">>, Wait >>

ChannelWrites(b, c) ==
  << <<At(b, "cs"), c.spacing \div 25>>, <<At(b, "ccf0"), (c.freq - Offset(b)) * 40>>,
     <<At(b, "cnl"), c.channel % 256>>, <<At(b, "cnm"), c.channel \div 256>> >>

SwitchOff(b) == << <<At(b, "state"), "TrxOff">>, Wait >>

(* Transreceiver::set_frequency switches the band off, then checks. *)
SetFrequency(b, c) ==
  SwitchOff(b) \o (IF Accepted(b, c) THEN ChannelWrites(b, c) \o Receive(b) ELSE <<>>)

(* create_modulation_config: the recommended front end of each band, told   *)
(* apart by modulation and option; PAC holds at most 31.                    *)
Frontend09(m) == IF m.phy \in {"ofdm", "qpsk"} THEN <<"09", m.phy, m.opt>> ELSE <<"default">>
Frontend24(m) == IF m.phy \in {"ofdm", "qpsk"} THEN <<"24", m.phy, m.opt>> ELSE <<"default">>
Frontend(b, m) == IF b = "09" THEN Frontend09(m) ELSE Frontend24(m)

(* Mutant: the power is not capped. *)
PowerUncapped(m) == IF m.phy \in {"ofdm", "qpsk"} THEN m.power ELSE 1

Power(m) == IF m.phy \in {"ofdm", "qpsk"} THEN Min({31, m.power}) ELSE 1

FrontendWrites(b, m) ==
  << <<At(b, "tx"), Frontend(b, m)>>, <<At(b, "pac"), Power(m)>>, <<At(b, "rx"), Frontend(b, m)>> >>

(* configure_ofdm and configure_qpsk: the registers of the option. *)
OptionWrites(b, m) ==
  IF m.phy \in {"ofdm", "qpsk"} THEN << <<At(b, "mod"), <<m.phy, m.opt>> >> >> ELSE <<>>

(* Baseband::configure: FSK is refused once the type is written. *)
BasebandWrites(b, m) == << <<At(b, "phy"), m.phy>> >> \o OptionWrites(b, m)

Enable(b) == << <<At(b, "bben"), "on">> >>
Disable(b) == << <<At(b, "bben"), "off">> >>

(* Transreceiver::configure. *)
ConfigureBand(b, m) ==
  SwitchOff(b) \o Disable(b) \o FrontendWrites(b, m) \o BasebandWrites(b, m)
  \o (IF m.phy = "fsk" THEN <<>> ELSE Enable(b) \o Receive(b))

Configure(m) == ConfigureBand("09", m) \o (IF m.phy = "fsk" THEN <<>> ELSE ConfigureBand("24", m))

(* start_receive, from whatever state each band is in. *)
StartReceive(h) ==
  LET On(b) == IF h[At(b, "state")] = "Rx" THEN <<Wait>> ELSE Receive(b)
  IN On("09") \o On("24")

--------------------------------------------------------------------------------
(* The platform. *)

(* The filter pins a configuration asks for: some narrow ones ask nothing.  *)
FilterPins(c) ==
  CASE c.filter = 1 \/ c.freq < 862 \/ (902 <= c.freq /\ c.freq <= 928) -> <<"high", "low">>
    [] c.filter = 0 /\ 862 <= c.freq /\ c.freq <= 876                   -> <<"low", "high">>
    [] OTHER                                                            -> <<>>

FilterWrites(c) ==
  IF FilterPins(c) = <<>> THEN <<>>
  ELSE << <<Pin("v1"), FilterPins(c)[1]>>, <<Pin("v2"), FilterPins(c)[2]>> >>

AntennaPin(a) == IF a = "External" THEN "high" ELSE "low"

ApplyAnt24(a) == IF HasAnt24 THEN << <<Pin("ant_24"), AntennaPin(a)>> >> ELSE <<>>

Adjust(a, c) == ApplyAnt24(a) \o FilterWrites(c)

(* The state in which create_radio hands a radio over. *)
BootConfig(i) == [DefaultConfig EXCEPT !.channel = (i + 1) * 5]
BootModulation == [DefaultModulation EXCEPT !.power = 18]

Reset == [p \in Places |->
            CASE p = Mode             -> "BasebandRadio"
              [] p[1] = "pin"         -> "low"
              [] p[2] = "state"       -> "TrxOff"
              [] p[2] = "bben"        -> "on"
              [] p[2] = "phy"         -> "off"
              [] p[2] \in {"mod", "tx", "rx"} -> <<>>
              [] OTHER                -> 0]

Boot(i) == SetFrequency("09", DefaultConfig) \o SetFrequency("09", BootConfig(i))
           \o Configure(BootModulation)

Init ==
  /\ hw = [i \in Modules |-> Applied(Reset, Boot(i), Len(Boot(i)))]
  /\ fpga = "low"
  /\ freq_config = [i \in Modules |-> BootConfig(i)]
  /\ config = [i \in Modules |-> DefaultConfig]
  /\ modulation = [i \in Modules |-> DefaultModulation]
  /\ accelerator = [i \in Modules |-> "Native"]
  /\ ant_24_sel = [i \in Modules |-> "Internal"]
  /\ answer = "none" /\ faults = 0
  /\ sure = [i \in Modules |-> {"accelerator", "antenna", "channel", "on"}]

--------------------------------------------------------------------------------
(* Requests. *)

(* An operation's writes reach radio i, all of them or, with a fault, some; *)
(* it returns whether it succeeded, unless it is refused at their end.      *)
Does(i, ops, n) == hw' = [hw EXCEPT ![i] = Applied(@, ops, n)]

Completes(i, ops) == Does(i, ops, Len(ops)) /\ faults' = faults

Breaks(i, ops, n) ==
  /\ faults < MaxFaults /\ faults' = faults + 1
  /\ Does(i, ops, n)

Answer(ok) == answer' = IF ok THEN "done" ELSE "failed"

(* radio_server.rs ignores what the first three settings return. *)
Acknowledge(via, what, ok) ==
  Answer(ok \/ (via = "udp" /\ what \in {"config", "modulation", "accelerator"}))

Surer(i, what) == sure' = [sure EXCEPT ![i] = @ \cup what]
LessSure(i, what) == sure' = [sure EXCEPT ![i] = @ \ what]

(* Mutant: the driver compares only the channels' numbers. *)
DriverByChannel(i, c) ==
  IF freq_config[i].channel # c.channel THEN SetFrequency(BandOf(c), c) ELSE <<>>

(* Rf215::set_frequency skips what it believes is set already. *)
DriverSetFrequency(i, c) ==
  IF freq_config[i] # c THEN SetFrequency(BandOf(c), c) ELSE <<>>

SetConfig(via, i, request) ==
  LET c == Received(via, request)
      pins == Adjust(ant_24_sel[i], c)
      ops == pins \o DriverSetFrequency(i, c)
      refused == freq_config[i] # c /\ ~Accepted(BandOf(c), c)
      Switched(n) == IF HasAnt24 /\ n > 0 THEN {"antenna"} ELSE {}
  IN /\ Carries(via, request)
     /\ \/ /\ Completes(i, ops) /\ ~refused
           /\ freq_config' = [freq_config EXCEPT ![i] = c]
           /\ config' = [config EXCEPT ![i] = c]
           /\ Acknowledge(via, "config", TRUE)
           /\ Surer(i, {"set", "pins"} \cup Switched(1)
                       \cup (IF freq_config[i] # c THEN {"channel"} ELSE {}))
        \/ /\ Completes(i, ops) /\ refused
           /\ Acknowledge(via, "config", FALSE)
           /\ sure' = [sure EXCEPT ![i] = (@ \ {"pins", "channel", "on"}) \cup Switched(1)]
           /\ UNCHANGED <<freq_config, config>>
        \/ /\ \E n \in 0..(Len(ops) - 1) :
                /\ Breaks(i, ops, n)
                /\ sure' = [sure EXCEPT ![i] = (@ \ {"pins", "channel", "on"}) \cup Switched(n)]
           /\ Acknowledge(via, "config", FALSE)
           /\ UNCHANGED <<freq_config, config>>
     /\ UNCHANGED <<fpga, modulation, accelerator, ant_24_sel>>

SetModulation(via, i, request) ==
  LET m == ReceivedModulation(via, request)
      ops == Configure(m)
  IN /\ CarriesModulation(via, request)
     /\ \/ /\ Completes(i, ops) /\ m.phy # "fsk"
           /\ modulation' = [modulation EXCEPT ![i] = m]
           /\ Acknowledge(via, "modulation", TRUE)
           /\ Surer(i, {"modulation", "on"})
        \/ /\ \/ Completes(i, ops) /\ m.phy = "fsk"
              \/ \E n \in 0..(Len(ops) - 1) : Breaks(i, ops, n)
           /\ Acknowledge(via, "modulation", FALSE)
           /\ LessSure(i, {"modulation", "on"})
           /\ UNCHANGED modulation
     /\ UNCHANGED <<fpga, freq_config, config, accelerator, ant_24_sel>>

(* The FPGA is powered last, and is not needed to leave it. *)
FpgaWrite(a) == IF a = "Hardware" THEN "high" ELSE "low"

ModeWrites(a) ==
  IF a = "Hardware" THEN << <<Mode, "Radio">> >> ELSE << <<Mode, "BasebandRadio">>, Wait >>

SetAccelerator(via, i, a) ==
  /\ \/ /\ a = "Hardware" /\ ~HasFpga
        /\ Acknowledge(via, "accelerator", FALSE)
        /\ UNCHANGED <<hw, faults, fpga, accelerator, sure>>
     \/ /\ a = "Native" \/ HasFpga
        /\ Completes(i, ModeWrites(a))
        /\ fpga' = IF HasFpga THEN FpgaWrite(a) ELSE fpga
        /\ accelerator' = [accelerator EXCEPT ![i] = a]
        /\ Acknowledge(via, "accelerator", TRUE)
        /\ Surer(i, {"accelerator"})
     \/ /\ a = "Native" \/ HasFpga
        /\ \E n \in 0..Len(ModeWrites(a)) :
             (n = Len(ModeWrites(a)) => HasFpga) /\ Breaks(i, ModeWrites(a), n)
        /\ Acknowledge(via, "accelerator", FALSE)
        /\ LessSure(i, {"accelerator"})
        /\ UNCHANGED <<fpga, accelerator>>
  /\ UNCHANGED <<freq_config, config, modulation, ant_24_sel>>

SelectWrites(a) == ApplyAnt24(a)

(* The choice is remembered before the pin is written. *)
SetAntenna(via, i, b, a) ==
  /\ IF b = "09" \/ (~HasAnt24 /\ a = "External")
     THEN /\ Acknowledge(via, "antenna", b = "09" /\ a = "Internal")
          /\ UNCHANGED <<hw, faults, ant_24_sel, sure>>
     ELSE /\ ant_24_sel' = [ant_24_sel EXCEPT ![i] = a]
          /\ \/ /\ Completes(i, SelectWrites(a))
                /\ Acknowledge(via, "antenna", TRUE) /\ Surer(i, {"antenna"})
             \/ /\ HasAnt24 /\ Breaks(i, SelectWrites(a), 0)
                /\ Acknowledge(via, "antenna", FALSE) /\ LessSure(i, {"antenna"})
  /\ UNCHANGED <<fpga, freq_config, config, modulation, accelerator>>

(* start_receive, after hardware i came to be h; its result is ignored. *)
ThenStartReceive(i, h) ==
  LET ops == StartReceive(h)
  IN \/ /\ hw' = [hw EXCEPT ![i] = Applied(h, ops, Len(ops))]
        /\ faults' = faults /\ LessSure(i, {})
     \/ /\ faults < MaxFaults /\ faults' = faults + 1
        /\ \E n \in 0..(Len(ops) - 1) : hw' = [hw EXCEPT ![i] = Applied(h, ops, n)]
        /\ LessSure(i, {"on"})

(* transmit: the tuned band's baseband is off while it listens and comes on *)
(* when it sends or finds the channel busy; four attempts that the bus      *)
(* fails, or that are never answered, leave it off.                         *)
Transmit(via, i) ==
  LET b == BandOf(freq_config[i])
  IN /\ \/ \E ok \in BOOLEAN :
             /\ ThenStartReceive(i, [hw[i] EXCEPT ![At(b, "bben")] = "on",
                                     ![At(b, "state")] = IF ok THEN "TrxPrep" ELSE "Rx"])
             /\ Acknowledge(via, "transmit", ok)
        \/ /\ faults < MaxFaults /\ faults' = faults + 1
           /\ \E ops \in {<<>>, Disable(b), Disable(b) \o Receive(b)} :
                LET h == Applied(hw[i], ops, Len(ops))
                IN hw' = [hw EXCEPT ![i] = Applied(h, StartReceive(h), Len(StartReceive(h)))]
           /\ Acknowledge(via, "transmit", FALSE)
           /\ LessSure(i, {"on"})
     /\ UNCHANGED <<fpga, freq_config, config, modulation, accelerator, ant_24_sel>>

(* The end of Kaonic1SRadio::receive, after an interrupt: a band that has   *)
(* received a frame waits in TRXPREP to be told to receive again.           *)
Listen(i) ==
  /\ \E ended \in SUBSET {b \in Bands : hw[i][At(b, "state")] = "Rx" /\ hw[i][At(b, "bben")] = "on"} :
       ThenStartReceive(i, [p \in Places |-> IF \E b \in ended : p = At(b, "state") THEN "TrxPrep"
                                             ELSE hw[i][p]])
  /\ UNCHANGED <<fpga, freq_config, config, modulation, accelerator, ant_24_sel, answer>>

(* The getters answer from what the platform remembers, and change nothing. *)
Get(i, what) ==
  CASE what = "config"      -> config[i]
    [] what = "modulation"  -> modulation[i]
    [] what = "accelerator" -> accelerator[i]
    [] what = "09"          -> "Internal"
    [] what = "24"          -> ant_24_sel[i]

(* A module that does not exist is refused by both interfaces. *)
NoSuchModule ==
  /\ Answer(FALSE)
  /\ UNCHANGED <<hw, fpga, freq_config, config, modulation, accelerator, ant_24_sel, faults, sure>>

Next ==
  \/ \E i \in Modules, via \in {"udp", "grpc"} :
       \/ \E c \in Configs : SetConfig(via, i, c)
       \/ \E m \in Modulations : SetModulation(via, i, m)
       \/ \E a \in {"Native", "Hardware"} : SetAccelerator(via, i, a)
       \/ \E b \in Bands, a \in {"Internal", "External"} : SetAntenna(via, i, b, a)
       \/ Transmit(via, i)
  \/ \E i \in Modules : Listen(i)
  \/ NoSuchModule

Spec == Init /\ [][Next]_vars

--------------------------------------------------------------------------------
TypeOK ==
  /\ fpga \in {"low", "high"} /\ faults \in 0..MaxFaults
  /\ \A i \in Modules :
       /\ hw[i][Mode] \in {"BasebandRadio", "Radio"}
       /\ \A b \in Bands : /\ hw[i][At(b, "state")] \in {"TrxOff", "TrxPrep", "Rx"}
                           /\ hw[i][At(b, "bben")] \in {"on", "off"}
                           /\ hw[i][At(b, "pac")] \in 0..31
                           /\ hw[i][At(b, "ccf0")] \in 0..(2^16 - 1)
                           /\ {hw[i][At(b, r)] : r \in {"cs", "cnl", "cnm"}} \subseteq 0..255
       /\ Accepted(BandOf(freq_config[i]), freq_config[i])

(* The configuration that get_config tells is the one in the tuned band's   *)
(* registers for as long as every set_config succeeds, repeated or not, and *)
(* again once one that is no repetition has succeeded after others were     *)
(* refused or cut short; the filter is that of the last that succeeded.     *)
(* Until then the driver's memory can hide a write that is needed: when B   *)
(* is cut short after its registers were written, A is still remembered     *)
(* (lib.rs:182), and setting A again writes nothing and answers Ok          *)
(* (lib.rs:172), though the registers hold B and get_config tells A.        *)
TunedAsReported ==
  \A i \in Modules :
    LET c == freq_config[i]
    IN /\ "set" \in sure[i] => Get(i, "config") = c
       /\ "channel" \in sure[i] =>
            \A k \in 1..4 : LET w == ChannelWrites(BandOf(c), c)[k] IN hw[i][w[1]] = w[2]
       /\ {"set", "pins"} \subseteq sure[i] =>
            \A k \in DOMAIN FilterWrites(c) : LET w == FilterWrites(c)[k] IN hw[i][w[1]] = w[2]

(* Both bands are modulated as get_modulation tells, so that a change of    *)
(* band by set_config does not change the modulation, and both receive.     *)
BothBandsModulated ==
  \A i \in Modules :
    /\ "modulation" \in sure[i] =>
         LET m == Get(i, "modulation")
         IN \A b \in Bands : /\ hw[i][At(b, "phy")] = m.phy
                            /\ hw[i][At(b, "tx")] = Frontend(b, m)
                            /\ hw[i][At(b, "rx")] = Frontend(b, m)
                            /\ hw[i][At(b, "pac")] = Power(m)
    /\ "on" \in sure[i] =>
         \A b \in Bands : hw[i][At(b, "state")] = "Rx" /\ hw[i][At(b, "bben")] = "on"

(* The chip's mode is the accelerator's, and the antenna is the one that    *)
(* get_antenna tells, which a set_config applies if set_antenna could not.  *)
ModeAndAntennaFollow ==
  \A i \in Modules :
    /\ "accelerator" \in sure[i] =>
         hw[i][Mode] = IF Get(i, "accelerator") = "Hardware" THEN "Radio" ELSE "BasebandRadio"
    /\ "antenna" \in sure[i] /\ HasAnt24 =>
         hw[i][Pin("ant_24")] = AntennaPin(Get(i, "24"))

(* What the getters tell is what the radio is set to. *)
AsReported == TunedAsReported /\ BothBandsModulated /\ ModeAndAntennaFollow

(* kaonic.proto:137: a radio that is accelerated has the external FPGA.     *)
AcceleratedHasFpga ==
  \A i \in Modules :
    "accelerator" \in sure[i] /\ accelerator[i] = "Hardware" => fpga = "high"
================================================================================
