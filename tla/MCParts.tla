-------------------------------- MODULE MCParts --------------------------------
(****************************************************************************)
(* The parts that are modelled by themselves, checked in one run: a         *)
(* behaviour is a behaviour of one of them, which "part" names, and leaves  *)
(* the variables of the others as they are.                                 *)
(****************************************************************************)
EXTENDS Demuxer, Hasher, ClientEvents, Sessions, Iperf, Tui, Form

VARIABLE part

Parts == {"demuxer", "hasher", "events", "sessions", "iperf", "tui", "form"}

PartsInit ==
  /\ part \in Parts
  /\ IF part = "demuxer" THEN DemuxInit ELSE DemuxInit /\ total_len = 50
  /\ IF part = "hasher" THEN HasherInit ELSE HasherInit /\ kernel = "right"
  /\ Init /\ SessionsInit /\ IperfInit /\ TuiInit /\ FormInit

partsVars == <<part, demuxVars, hasherVars, vars, sessionsVars, iperfVars, tuiVars, formVars>>

PartsNext ==
  /\ UNCHANGED part
  /\ IF part = "demuxer" THEN DemuxNext ELSE UNCHANGED demuxVars
  /\ IF part = "hasher" THEN HasherNext ELSE UNCHANGED hasherVars
  /\ IF part = "events" THEN Next ELSE UNCHANGED vars
  /\ IF part = "sessions" THEN SessionsNext ELSE UNCHANGED sessionsVars
  /\ IF part = "iperf" THEN IperfNext ELSE UNCHANGED iperfVars
  /\ IF part = "tui" THEN TuiNext ELSE UNCHANGED tuiVars
  /\ IF part = "form" THEN FormNext ELSE UNCHANGED formVars

(* The fairness of each part's own specification. *)
PartsFairness ==
  /\ WF_vars(part = "events" /\ Managing)
  /\ WF_vars(part = "events" /\ Listening)
  /\ WF_vars(part = "events" /\ Subscriber)
  /\ WF_sessionsVars(part = "sessions" /\ Tick)
  /\ WF_sessionsVars(part = "sessions" /\ CleanupTick)
  /\ \A c \in Clients : WF_sessionsVars(part = "sessions" /\ Ping(c))
  /\ WF_tuiVars(part = "tui" /\ TuiTurn)
  /\ WF_tuiVars(part = "tui" /\ TaskTurn)

PartsSpec == PartsInit /\ [][PartsNext]_partsVars /\ PartsFairness

(* Each part's state keeps its type and its bounds. *)
PartsTypeOK ==
  DemuxTypeOK /\ HasherTypeOK /\ TypeOK /\ SessionsTypeOK /\ IperfTypeOK /\ TuiTypeOK /\ FormTypeOK

AllLengths == 0..50
SmallSizes ==
  [f \in {"OfdmMcs", "OfdmOpt", "QpskFchip", "QpskMode"} |->
     IF f = "OfdmMcs" THEN 2 ELSE 1]
================================================================================
