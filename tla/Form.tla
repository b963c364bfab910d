---------------------------------- MODULE Form ---------------------------------
(****************************************************************************)
(* The form of the terminal client (kaonic-commd-cli/src/app.rs) and the    *)
(* keys that work it (events.rs): a cursor over the fields that the chosen  *)
(* modulation shows, fields that are typed and fields that are cycled, and  *)
(* the compose window on top.                                               *)
(*                                                                          *)
(* A cycled field is the index of its value; a typed one is whether what    *)
(* stands in it parses, as a key may make or break it.                      *)
(****************************************************************************)
EXTENDS Integers, Sequences

CONSTANTS
  Sizes,       \* how many values OfdmMcs, OfdmOpt, QpskFchip, QpskMode have
  PowerMax,    \* TX_POWER_MAX; TX_POWER_MIN is 0
  MaxModules,  \* bound: modules a server reports
  MaxCompose   \* bound: keys in the compose window

(* The fields that show an enum; cycled through ALL by index and from_index. *)
Enums == {"OfdmMcs", "OfdmOpt", "QpskFchip", "QpskMode"}

ASSUME FormAssumption ==
  /\ Sizes \in [Enums -> Nat \ {0}]
  /\ {PowerMax, MaxCompose} \subseteq Nat /\ MaxModules \in Nat \ {0}

VARIABLES
  focused,       \* focused_field
  picked,        \* the cycled fields
  typed,         \* the typed fields: whether they parse
  editing,       \* text goes into the focused field
  compose,       \* keys in the compose window, or NoCompose
  module_count,  \* what the server reported last
  sent           \* what the last key sent: nothing, or a command

formVars == <<focused, picked, typed, editing, compose, module_count, sent>>

ModTypes == <<"Off", "Ofdm", "Qpsk", "Fsk">>
TextFields == {"ServerAddr", "FreqMhz", "Channel", "ChannelSpacingKhz"}
NoCompose == -1

VisibleFields(mod) ==
  <<"ServerAddr", "Module", "FreqMhz", "Channel", "ChannelSpacingKhz", "BwFilter", "ModType">>
  \o CASE mod = "Ofdm" -> <<"OfdmMcs", "OfdmOpt", "TxPower">>
       [] mod = "Qpsk" -> <<"QpskFchip", "QpskMode", "TxPower">>
       [] OTHER        -> <<>>

Fields == VisibleFields(ModTypes[picked["ModType"] + 1])
Visible == {Fields[i] : i \in DOMAIN Fields}

FormInit ==
  /\ focused = "Module"
  /\ picked = [f \in Enums \cup {"Module", "BwFilter", "ModType", "TxPower"} |->
                 CASE f = "ModType" -> 1
                   [] f = "OfdmMcs" -> Sizes[f] - 1
                   [] f = "TxPower" -> PowerMax \div 2
                   [] OTHER         -> 0]
  /\ typed = [f \in TextFields |-> TRUE]
  /\ editing = FALSE /\ compose = NoCompose
  /\ module_count = 0
  /\ sent = "nothing"

Normal == compose = NoCompose /\ ~editing

--------------------------------------------------------------------------------
(* focused_index; a field that is not shown counts as the first. *)
FocusedIndex ==
  IF focused \in Visible THEN CHOOSE i \in DOMAIN Fields : Fields[i] = focused ELSE 1

(* Mutant: the cursor moves over one field too few. *)
StepShort(by) == Fields[((FocusedIndex - 1 + by) % (Len(Fields) - 1)) + 1]

Step(by) == Fields[((FocusedIndex - 1 + by) % Len(Fields)) + 1]

(* Down and Up. *)
MoveFocus ==
  /\ Normal
  /\ \E by \in {-1, 1} : focused' = Step(by)
  /\ sent' = "nothing"
  /\ UNCHANGED <<picked, typed, editing, compose, module_count>>

(* cycle_up, by = 1, and cycle_down, by = -1. *)
Cycled(f, v, by) ==
  CASE f = "Module"   -> IF module_count = 0 THEN v
                         ELSE IF by = 1 THEN (v + 1) % module_count
                         ELSE IF v = 0 THEN module_count - 1 ELSE v - 1
    [] f = "BwFilter" -> 1 - v
    [] f = "ModType"  -> (v + by) % Len(ModTypes)
    [] f = "TxPower"  -> IF v + by \in 0..PowerMax THEN v + by ELSE v
    [] OTHER          -> (v + by) % Sizes[f]

Cycle ==
  /\ Normal /\ focused \notin TextFields
  /\ \E by \in {-1, 1} : picked' = [picked EXCEPT ![focused] = Cycled(focused, @, by)]
  /\ sent' = "nothing"
  /\ UNCHANGED <<focused, typed, editing, compose, module_count>>

(* clamp_focused_field never moves the cursor: it stands on ModType, which  *)
(* is always shown.                                                         *)

(* Enter on a typed field. *)
BeginEdit ==
  /\ Normal /\ focused \in TextFields
  /\ editing' = TRUE
  /\ sent' = "nothing"
  /\ UNCHANGED <<focused, picked, typed, compose, module_count>>

(* Backspace or a character; any address will do. *)
EditText ==
  /\ editing
  /\ \E ok \in {TRUE, focused = "ServerAddr"} : typed' = [typed EXCEPT ![focused] = ok]
  /\ sent' = "nothing"
  /\ UNCHANGED <<focused, picked, editing, compose, module_count>>

(* Esc leaves; Enter leaves too and, on the address, reconnects. *)
EndEdit ==
  /\ editing
  /\ editing' = FALSE
  /\ \/ sent' = "nothing" /\ UNCHANGED module_count
     \/ focused = "ServerAddr" /\ sent' = "Reconnect" /\ module_count' = 0
  /\ UNCHANGED <<focused, picked, typed, compose>>

(* configure_from_app. *)
AllParse == \A f \in TextFields \ {"ServerAddr"} : typed[f]

Apply ==
  /\ Normal
  /\ sent' = IF AllParse THEN "Configure" ELSE "nothing"
  /\ UNCHANGED <<focused, picked, typed, editing, compose, module_count>>

OpenCompose ==
  /\ Normal
  /\ compose' = 0 /\ sent' = "nothing"
  /\ UNCHANGED <<focused, picked, typed, editing, module_count>>

ComposeKey ==
  /\ compose # NoCompose
  /\ compose' \in {compose - 1, compose + 1} \cap 0..MaxCompose
  /\ sent' = "nothing"
  /\ UNCHANGED <<focused, picked, typed, editing, module_count>>

(* Esc closes; Enter closes and sends what was typed, if anything was. *)
CloseCompose ==
  /\ compose # NoCompose
  /\ compose' = NoCompose
  /\ sent' \in {"nothing"} \cup (IF compose > 0 THEN {"Transmit"} ELSE {})
  /\ UNCHANGED <<focused, picked, typed, editing, module_count>>

(* handle_grpc_event, Connected: the selected module stays. *)
Connected ==
  /\ module_count' \in 0..MaxModules
  /\ sent' = "nothing"
  /\ UNCHANGED <<focused, picked, typed, editing, compose>>

FormNext ==
  \/ MoveFocus \/ Cycle \/ BeginEdit \/ EditText \/ EndEdit \/ Apply
  \/ OpenCompose \/ ComposeKey \/ CloseCompose
  \/ Connected

FormSpec == FormInit /\ [][FormNext]_formVars

--------------------------------------------------------------------------------
FormTypeOK ==
  /\ focused \in TextFields \cup DOMAIN picked
  /\ \A f \in Enums : picked[f] \in 0..(Sizes[f] - 1)
  /\ picked["BwFilter"] \in 0..1
  /\ picked["ModType"] \in 0..3
  /\ picked["TxPower"] \in 0..PowerMax
  /\ picked["Module"] \in 0..(MaxModules - 1)
  /\ typed \in [TextFields -> BOOLEAN]
  /\ compose \in {NoCompose} \cup 0..MaxCompose
  /\ module_count \in 0..MaxModules

(* The cursor is always on a field that is shown, text is typed into a      *)
(* typed field only, and from where the cursor is every field shown can be  *)
(* reached with the one key as with the other.                              *)
CursorOnForm ==
  /\ focused \in Visible
  /\ editing => focused \in TextFields /\ compose = NoCompose
  /\ {Step(n) : n \in 1..Len(Fields)} = Visible

(* Only Enter in the form configures, and only numbers that parse. *)
ConfiguredWhenValid ==
  sent = "Configure" => Normal /\ \A f \in TextFields \ {"ServerAddr"} : typed[f]

(* The keys work the field the user sees, and send what it holds. *)
FormInOrder == CursorOnForm /\ ConfiguredWhenValid
================================================================================
