---------------------------------- MODULE Tui ----------------------------------
(****************************************************************************)
(* The terminal client (kaonic-commd-cli): the loop of run (main.rs), which *)
(* draws, reads keys and takes events; the gRPC task of spawn (grpc.rs),    *)
(* which connects and executes commands; and the tasks it spawns, one per   *)
(* subscription and one that polls the statistics.  Commands and events go  *)
(* through two mpsc channels of 32 and 64.                                  *)
(*                                                                          *)
(* A server has one module; its address is the server.  A connection is its *)
(* number.  One step goes up to the next await.                             *)
(****************************************************************************)
EXTENDS Naturals, Sequences, Functions

CONSTANTS
  Servers,     \* addresses that may be typed
  FirstServer, \* the address given on the command line
  CmdCap,      \* the command channel
  EvtCap,      \* the event channel
  MaxKeys,     \* bound: keys that send a command
  MaxItems     \* bound: items the streams and the poll yield, together

ASSUME TuiAssumption ==
  /\ FirstServer \in Servers
  /\ {CmdCap, EvtCap} \subseteq Nat \ {0}
  /\ {MaxKeys, MaxItems} \subseteq Nat

VARIABLES
  app,         \* connected, server_addr, whether it is edited, what is left to subscribe
  keys,        \* keys pressed so far
  cmds,        \* the command channel
  evts,        \* the event channel
  task,        \* the gRPC task: phase, address, connection, event to be sent
  feeds,       \* the spawned tasks: connection, kind, items sent, last item shown
  refused,     \* the last Reconnect found the command channel full (history)
  asked,       \* the address of the last Reconnect, sent or refused (history)
  edited       \* the address was typed on since (history)

typing  == <<asked, edited>>
tuiVars == <<app, keys, cmds, evts, task, feeds, refused, typing>>

Reconnect(a) == [kind |-> "Reconnect", addr |-> a]
Call         == [kind |-> "Call"]
Subscribe(k) == [kind |-> "Subscribe", what |-> k]

Status(k)  == [kind |-> k]
Item(i, n) == [kind |-> "Item", feed |-> i, number |-> n]
NoEvent    == Status("none")

TuiInit ==
  /\ app = [connected |-> FALSE, addr |-> FirstServer, editing |-> FALSE, subs |-> <<>>]
  /\ keys = 0
  /\ cmds = <<>> /\ evts = <<>>
  /\ task = [phase |-> "connect", addr |-> app.addr, conn |-> 0, out |-> NoEvent]
  /\ feeds = <<>>
  /\ refused = FALSE /\ asked = FirstServer /\ edited = FALSE

CmdRoom == Len(cmds) < CmdCap
EvtRoom == Len(evts) < EvtCap

--------------------------------------------------------------------------------
(* The TUI.  A key's command is tried, and dropped if there is no room. *)

Selecting == app.subs = <<>>

TrySend(c) == cmds' = IF CmdRoom THEN Append(cmds, c) ELSE cmds

(* Configure and Transmit. *)
PressCommand ==
  /\ Selecting /\ ~app.editing /\ keys < MaxKeys
  /\ keys' = keys + 1
  /\ TrySend(Call)
  /\ UNCHANGED <<app, evts, task, feeds, refused, typing>>

(* The server address is edited in place, key by key: any text, here any    *)
(* address, may be in it until Enter asks for it or Esc leaves it there.    *)
StartEdit ==
  /\ Selecting /\ ~app.editing /\ keys < MaxKeys
  /\ app' = [app EXCEPT !.editing = TRUE]
  /\ UNCHANGED <<keys, cmds, evts, task, feeds, refused, typing>>

TypeAddress(a) ==
  /\ Selecting /\ app.editing
  /\ app' = [app EXCEPT !.addr = a]
  /\ edited' = TRUE
  /\ UNCHANGED <<keys, cmds, evts, task, feeds, refused, asked>>

PressEnter ==
  /\ Selecting /\ app.editing /\ keys < MaxKeys
  /\ keys' = keys + 1
  /\ app' = [app EXCEPT !.editing = FALSE, !.connected = FALSE]
  /\ TrySend(Reconnect(app.addr))
  /\ refused' = ~CmdRoom /\ asked' = app.addr /\ edited' = FALSE
  /\ UNCHANGED <<evts, task, feeds>>

PressEsc ==
  /\ Selecting /\ app.editing
  /\ app' = [app EXCEPT !.editing = FALSE]
  /\ UNCHANGED <<keys, cmds, evts, task, feeds, refused, typing>>

(* handle_grpc_event; Connected goes on to subscribe, and waits for room.   *)
HandleEvent ==
  /\ Selecting /\ evts # <<>>
  /\ LET e == Head(evts)
     IN CASE e.kind = "Connected" ->
               /\ app' = [app EXCEPT !.connected = TRUE, !.subs = <<"rx", "tx">>]
               /\ UNCHANGED feeds
          [] e.kind = "Disconnected" ->
               /\ app' = [app EXCEPT !.connected = FALSE]
               /\ UNCHANGED feeds
          [] e.kind = "Item" ->
               /\ feeds' = [feeds EXCEPT ![e.feed].shown = e.number]
               /\ UNCHANGED app
          [] e.kind = "Result" -> UNCHANGED <<app, feeds>>
  /\ evts' = Tail(evts)
  /\ UNCHANGED <<keys, cmds, task, refused, typing>>

SendSubscribe ==
  /\ ~Selecting /\ CmdRoom
  /\ cmds' = Append(cmds, Subscribe(Head(app.subs)))
  /\ app' = [app EXCEPT !.subs = Tail(@)]
  /\ UNCHANGED <<keys, evts, task, feeds, refused, typing>>

--------------------------------------------------------------------------------
(* The gRPC task. *)

TakeCommand == cmds # <<>> /\ cmds' = Tail(cmds)

(* Endpoint::from_shared, connect and get_info. *)
Connect ==
  /\ task.phase = "connect"
  /\ task' \in {[task EXCEPT !.phase = "tellConnected", !.conn = @ + 1,
                             !.out = Status("Connected")],
                [task EXCEPT !.phase = "tellOffline", !.out = Status("Disconnected")]}
  /\ UNCHANGED <<app, keys, cmds, evts, feeds, refused, typing>>

NewFeed(what) == [conn |-> task.conn, what |-> what, sent |-> 0, shown |-> 0]

(* evt_tx.send returns: the event has found room. *)
EventSent ==
  /\ task.out # NoEvent /\ EvtRoom
  /\ evts' = Append(evts, task.out)
  /\ CASE task.phase = "tellConnected" ->   \* get_info again, and the poll starts
            /\ task' = [task EXCEPT !.phase = "serve", !.out = NoEvent]
            /\ feeds' = Append(feeds, NewFeed("statistics"))
       [] task.phase = "tellOffline" ->
            /\ task' = [task EXCEPT !.phase = "offline", !.out = NoEvent]
            /\ UNCHANGED feeds
       [] task.phase = "tellLeft" ->
            /\ task' = [task EXCEPT !.phase = "connect", !.out = NoEvent]
            /\ UNCHANGED feeds
       [] task.phase = "serve" ->
            /\ task' = [task EXCEPT !.out = NoEvent]
            /\ UNCHANGED feeds
  /\ UNCHANGED <<app, keys, cmds, refused, typing>>

(* Mutant: the address is taken, but not left. *)
LeaveSilently(a) == task' = [task EXCEPT !.addr = a]

Leave(a) ==
  task' = [task EXCEPT !.phase = "tellLeft", !.addr = a, !.out = Status("Disconnected")]

(* Mutant: a call that fails ends the task. *)
CallEndsTask == task' = [task EXCEPT !.phase = "ended"]

(* A call is answered after any time, also when it fails. *)
CallAnswered == task' = [task EXCEPT !.out = Status("Result")]

(* Commands of a connection. *)
Execute ==
  /\ task.phase = "serve" /\ task.out = NoEvent
  /\ TakeCommand
  /\ LET c == Head(cmds)
     IN CASE c.kind = "Reconnect" -> Leave(c.addr) /\ UNCHANGED feeds
          [] c.kind = "Call" ->
               CallAnswered /\ UNCHANGED feeds
          [] c.kind = "Subscribe" ->
               feeds' = Append(feeds, NewFeed(c.what)) /\ UNCHANGED task
  /\ UNCHANGED <<app, keys, evts, refused, typing>>

(* Without a connection everything but Reconnect is thrown away. *)
ExecuteOffline ==
  /\ task.phase = "offline"
  /\ TakeCommand
  /\ LET c == Head(cmds)
     IN task' = IF c.kind = "Reconnect"
                THEN [task EXCEPT !.phase = "connect", !.addr = c.addr] ELSE task
  /\ UNCHANGED <<app, keys, evts, feeds, refused, typing>>

--------------------------------------------------------------------------------
(* The spawned tasks.  They keep their connection, and end with it, not     *)
(* with the TUI's; when a stream ends nobody is told.                       *)

ItemsSent == FoldFunction(LAMBDA f, n : f.sent + n, 0, feeds)

FeedSends(i) ==
  /\ EvtRoom
  /\ feeds' = [feeds EXCEPT ![i].sent = @ + 1]
  /\ evts' = Append(evts, Item(i, feeds[i].sent + 1))
  /\ UNCHANGED <<app, keys, cmds, task, refused, typing>>

Feed(i) == ItemsSent < MaxItems /\ FeedSends(i)

TuiTurn  == HandleEvent \/ SendSubscribe
TaskTurn == Connect \/ EventSent \/ Execute \/ ExecuteOffline

TuiNext ==
  \/ PressCommand \/ StartEdit \/ PressEnter \/ PressEsc
  \/ \E a \in Servers : TypeAddress(a)
  \/ TuiTurn \/ TaskTurn
  \/ \E i \in DOMAIN feeds : Feed(i)

TuiSpec ==
  /\ TuiInit /\ [][TuiNext]_tuiVars
  /\ WF_tuiVars(TuiTurn) /\ WF_tuiVars(TaskTurn)

--------------------------------------------------------------------------------
TuiTypeOK ==
  /\ app.connected \in BOOLEAN /\ app.addr \in Servers /\ app.editing \in BOOLEAN
  /\ keys \in 0..MaxKeys
  /\ Len(cmds) <= CmdCap /\ Len(evts) <= EvtCap
  /\ task.phase \in {"connect", "tellConnected", "tellOffline", "tellLeft", "serve", "offline"}
  /\ task.addr \in Servers
  /\ \A i \in DOMAIN feeds : feeds[i].conn \in 1..task.conn

Pending(q, k) == \E i \in DOMAIN q : q[i].kind = k

Settled ==
  /\ Selecting /\ task.phase \in {"serve", "offline"}
  /\ ~Pending(cmds, "Reconnect")
  /\ ~Pending(evts, "Connected") /\ ~Pending(evts, "Disconnected")

(* When no Reconnect and no report of one is under way, the TUI shows       *)
(* whether the task has a connection, and the task has the address that was *)
(* last asked for, unless that Reconnect was dropped for want of room:      *)
(* whatever the order in which keys, commands and late reports crossed.     *)
(* The header then shows that address too, if it was not typed on since;    *)
(* what is typed and not asked for it shows as connected (ui.rs:73).        *)
ViewAgrees ==
  Settled /\ ~refused =>
    /\ app.connected <=> task.phase = "serve"
    /\ asked = task.addr
    /\ edited \/ app.addr = task.addr

(* Every stream's items reach the log in order and none is skipped, however *)
(* full the event channel, and however many connections were made since.    *)
FeedsInOrder ==
  \A i \in DOMAIN feeds :
    LET coming == {n \in DOMAIN evts : evts[n].kind = "Item" /\ evts[n].feed = i}
    IN /\ feeds[i].shown <= feeds[i].sent
       /\ {evts[n].number : n \in coming} = (feeds[i].shown + 1)..feeds[i].sent
       /\ \A m, n \in coming : m < n => evts[m].number < evts[n].number

(* What the user sees: the connection, and the log of its streams. *)
ShownAsItIs == ViewAgrees /\ FeedsInOrder

(* The TUI waits for room for a command, and the task for room for an event *)
(* that only the TUI would make.                                            *)
CircularWait == ~Selecting /\ ~CmdRoom /\ task.out # NoEvent /\ ~EvtRoom

(* The TUI, which neither draws nor reads keys while it subscribes, always  *)
(* gets back to it unless the two wait for each other.                      *)
BackToKeys == ~Selecting ~> (Selecting \/ CircularWait)

(* The address asked for last is the one connected to, or tried, in the     *)
(* end, unless it was refused or the two wait for each other.               *)
LastAddressWins ==
  <>[](asked = task.addr \/ refused \/ CircularWait)

(* Neither of the two tasks stops the other but by waiting for each other.  *)
TuiGoesOn == BackToKeys /\ LastAddressWins
================================================================================
