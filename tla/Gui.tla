---------------------------------- MODULE Gui ----------------------------------
(****************************************************************************)
(* The desktop GUI (kaonic-gui): the window's thread, the iperf threads it  *)
(* starts, the transmit worker and the receive tasks, and the three locks   *)
(* they share: `state` (AppState) and `client` (GrpcClient), mutexes of     *)
(* parking_lot, and the async mutex around the RadioClient.  A task that    *)
(* waits for a mutex of parking_lot keeps the runtime's worker thread it    *)
(* runs on; with all of them waiting, nothing of the runtime goes on.       *)
(*                                                                          *)
(* A critical section that takes no other lock and waits for nothing is one *)
(* step, enabled when its lock is free; the others hold their locks from    *)
(* step to step.  In `match client.lock().tx_send_blocking(..)` the guard   *)
(* lives to the end of the match: the Err arm runs with `client` held.      *)
(****************************************************************************)
EXTENDS Naturals, Sequences, FiniteSets

CONSTANTS
  Senders, Monitors,   \* threads that start_client and start_server_monitor make
  Tasks,               \* receive tasks
  Workers,             \* worker threads of the tokio runtime
  QueueSize,           \* capacity of the transmit queue
  StreamSize,          \* capacity of a task's broadcast receiver
  MaxRxEvents,         \* max_rx_events
  MaxPresses,          \* bound: what the user does
  MaxFrames,           \* bound: frames the radio receives
  MaxSends             \* bound: frames an iperf sender sends

Threads == Senders \cup Monitors
Frames == 1..MaxFrames
Kinds == {"iperf", "foreign", "short"}

ASSUME GuiAssumption ==
  /\ Senders \cap Monitors = {}
  /\ \A n \in {QueueSize, MaxRxEvents, MaxPresses, MaxFrames, MaxSends} : n \in Nat
  /\ StreamSize \in Nat \ {0} /\ Workers \in Nat \ {0}

VARIABLES
  owner,       \* who holds "state", "client" and "radio"
  ui,          \* where the window's thread is: "frame", or in a handler
  presses,     \* bound
  connected, active,      \* AppState: connected, rx_stream_active
  running,     \* AppState: iperf_client_running, iperf_server_running
  rx_events,   \* AppState
  receiver, inbox,        \* rx_receiver: Some or None, and what its channel holds
  radio,       \* the RadioClient: "None" or "Some"
  rx_started,  \* GrpcClient
  task,        \* the receive tasks
  thread,      \* the iperf threads
  queue, worker,          \* the transmit queue and the request in work, by who awaits its answer
  status,      \* the window's status tasks whose answer came: to run, and blocked on a worker
  frames,      \* kinds of the frames received so far
  switched, lagged        \* history: the module was switched, a task lagged since Connect

lockVars == <<owner, ui, presses>>
appVars == <<connected, active, running, rx_events>>
streamVars == <<receiver, inbox, radio, rx_started, task, frames, switched, lagged>>
threadVars == <<thread, queue, worker, status>>
vars == <<lockVars, appVars, streamVars, threadVars>>

NoTask == [at |-> "none", fed |-> FALSE, stream |-> <<>>, lag |-> FALSE]
NoThread == [at |-> "off", resp |-> "none", last_index |-> 0, batch |-> <<>>,
             sent |-> 0, echoed |-> [f \in Frames |-> 0]]

Init ==
  /\ owner = [l \in {"state", "client", "radio"} |-> "free"]
  /\ ui = "frame" /\ presses = 0
  /\ connected = FALSE /\ active = FALSE
  /\ running = [k \in {"sender", "monitor"} |-> FALSE]
  /\ rx_events = <<>> /\ receiver = FALSE /\ inbox = <<>>
  /\ radio = "None" /\ rx_started = FALSE
  /\ task = [t \in Tasks |-> NoTask]
  /\ thread = [t \in Threads |-> NoThread]
  /\ queue = <<>> /\ worker = "idle" /\ status = [woken |-> 0, blocked |-> 0]
  /\ frames = <<>> /\ switched = FALSE /\ lagged = FALSE

Free(l) == owner[l] = "free"
Take(l, who) == Free(l) /\ owner' = [owner EXCEPT ![l] = who]
Release(ls) == owner' = [l \in DOMAIN owner |-> IF l \in ls THEN "free" ELSE owner[l]]
Kind(t) == IF t \in Senders THEN "sender" ELSE "monitor"

(* A worker thread of the runtime is free: its tasks and timers go on.      *)
RuntimeRuns == status.blocked < Workers

(* The window's thread is between two handlers, and the user does something.*)
Press == ui = "frame" /\ presses < MaxPresses /\ presses' = presses + 1

(* A dropped or replaced channel: no task feeds the window any more.        *)
Unfed == [t \in Tasks |-> [task[t] EXCEPT !.fed = FALSE]]

--------------------------------------------------------------------------------
(* The window's thread: what it does every frame. *)

(* Mutant: one too many is kept. *)
TrimmedLate(events) ==
  IF Len(events) > MaxRxEvents + 1 THEN Tail(events) ELSE events

(* render(): the channel is emptied into rx_events, which keep the newest.  *)
Trimmed(events) ==
  IF Len(events) > MaxRxEvents THEN SubSeq(events, Len(events) - MaxRxEvents + 1, Len(events))
  ELSE events

Drain ==
  /\ ui = "frame" /\ receiver /\ inbox # <<>>
  /\ Free("state")
  /\ rx_events' = Trimmed(rx_events \o inbox)
  /\ inbox' = <<>>
  /\ UNCHANGED <<lockVars, connected, active, running, receiver, radio, rx_started, task,
                 frames, switched, lagged, threadVars>>

(* draw_connection_panel's end: receiving starts by itself once connected.  *)
AutoStart ==
  /\ ui = "frame" /\ connected /\ ~active /\ Free("state")
  /\ ui' = "starting"
  /\ UNCHANGED <<owner, presses, appVars, streamVars, threadVars>>

(* start_receiving: a new channel, and under the state lock three calls     *)
(* through the client lock, the first of which may start a receive task.    *)
StartReceiving ==
  /\ ui = "starting"
  /\ IF connected /\ ~active
     THEN /\ Take("state", "ui")
          /\ receiver' = TRUE /\ inbox' = <<>> /\ task' = Unfed
          /\ ui' = "subscribing A"
     ELSE /\ Free("state") /\ ui' = "frame"
          /\ UNCHANGED <<owner, receiver, inbox, task>>
  /\ UNCHANGED <<presses, appVars, radio, rx_started, frames, switched, lagged, threadVars>>

(* Mutant: a task for every module. *)
StartStreamForEach ==
  /\ rx_started' = TRUE
  /\ \E t \in Tasks :
       /\ task[t].at = "none"
       /\ task' = [task EXCEPT ![t] = [NoTask EXCEPT !.at = "spawned", !.fed = TRUE]]

(* start_receive_stream: a task only if none was started on this connection.*)
StartReceiveStream ==
  IF rx_started THEN UNCHANGED <<rx_started, task>>
  ELSE /\ rx_started' = TRUE
       /\ \E t \in Tasks :
            /\ task[t].at = "none"
            /\ task' = [task EXCEPT ![t] = [NoTask EXCEPT !.at = "spawned", !.fed = TRUE]]

Subscribe ==
  /\ Free("client")
  /\ \/ ui = "subscribing A" /\ ui' = "subscribing B"
     \/ ui = "subscribing B" /\ ui' = "subscribing network"
  /\ StartReceiveStream
  /\ UNCHANGED <<owner, presses, appVars, receiver, inbox, radio, frames, switched, lagged,
                 threadVars>>

SubscribeNetwork ==
  /\ ui = "subscribing network" /\ Free("client")
  /\ active' = TRUE
  /\ Release({"state"}) /\ ui' = "frame"
  /\ UNCHANGED <<presses, connected, running, rx_events, streamVars, threadVars>>

--------------------------------------------------------------------------------
(* What the user does. *)

(* Connect: set_server_addr under the client lock ...                       *)
PressConnect ==
  /\ Press /\ ~connected
  /\ Take("client", "ui") /\ ui' = "addressing"
  /\ UNCHANGED <<appVars, streamVars, threadVars>>

(* ... cancels the client there is, and its tasks hear of no more frames;   *)
SetServerAddr ==
  /\ ui = "addressing" /\ Free("radio")
  /\ radio' = "None" /\ rx_started' = FALSE
  /\ task' = [t \in Tasks |-> IF task[t].at = "listening" THEN [task[t] EXCEPT !.at = "closing"]
                              ELSE task[t]]
  /\ Release({"client"}) /\ ui' = "locking state"
  /\ UNCHANGED <<presses, appVars, receiver, inbox, frames, switched, lagged, threadVars>>

(* ... then the state lock is taken, and under it the client lock, for a    *)
LockForInfo ==
  /\ \/ ui = "locking state" /\ Take("state", "ui") /\ ui' = "locking client"
     \/ /\ ui = "locking client" /\ Take("client", "ui")
        /\ ui' \in {"getting info", "bad address"}
  /\ UNCHANGED <<presses, appVars, streamVars, threadVars>>

(* ... get_device_info, which stores the new RadioClient, or fails: at once *)
(* with an address it cannot use, else in the runtime, after its timeout.   *)
GetDeviceInfo ==
  /\ \/ /\ ui = "getting info" /\ RuntimeRuns /\ Free("radio")
        /\ radio' = "Some" /\ rx_started' = FALSE /\ connected' = TRUE
        /\ switched' = FALSE /\ lagged' = FALSE
     \/ /\ ui = "bad address" \/ (ui = "getting info" /\ RuntimeRuns)
        /\ connected' = FALSE
        /\ UNCHANGED <<radio, rx_started, switched, lagged>>
  /\ Release({"state", "client"}) /\ ui' = "frame"
  /\ UNCHANGED <<presses, active, running, rx_events, receiver, inbox, task, frames, threadVars>>

(* Mutant: rx_stream_active stays. *)
DisconnectActive ==
  /\ Press /\ connected /\ Free("state")
  /\ connected' = FALSE
  /\ receiver' = FALSE /\ inbox' = <<>> /\ task' = Unfed
  /\ UNCHANGED <<owner, ui, active, running, rx_events, radio, rx_started, frames, switched,
                 lagged, threadVars>>

PressDisconnect ==
  /\ Press /\ connected /\ Free("state")
  /\ connected' = FALSE /\ active' = FALSE
  /\ receiver' = FALSE /\ inbox' = <<>> /\ task' = Unfed
  /\ UNCHANGED <<owner, ui, running, rx_events, radio, rx_started, frames, switched, lagged,
                 threadVars>>

(* draw_radio_config_panel: another module is selected. *)
SelectModule ==
  /\ Press /\ Free("state")
  /\ connected /\ active
  /\ active' = FALSE /\ switched' = TRUE
  /\ receiver' = FALSE /\ inbox' = <<>> /\ task' = Unfed
  /\ ui' = "starting"
  /\ UNCHANGED <<owner, connected, running, rx_events, radio, rx_started, frames, lagged,
                 threadVars>>

(* Configure Radio holds the state lock while it takes the client lock and  *)
PressConfigure ==
  /\ Press /\ connected
  /\ Take("state", "ui") /\ ui' = "configuring"
  /\ UNCHANGED <<appVars, streamVars, threadVars>>

LockForConfigure ==
  /\ \/ ui = "configuring" /\ Take("client", "ui") /\ ui' = "locking radio"
     \/ ui = "locking radio" /\ Take("radio", "ui") /\ ui' = "applying"
  /\ UNCHANGED <<presses, appVars, streamVars, threadVars>>

(* ... until the two requests are answered, or time out.                    *)
ConfigureRadio ==
  /\ ui = "applying" /\ RuntimeRuns
  /\ Release({"state", "client", "radio"}) /\ ui' = "frame"
  /\ UNCHANGED <<presses, appVars, streamVars, threadVars>>

(* Transmit Once, and a turn of Continuous TX: the request is queued under  *)
(* the client lock, and if the queue is full the state lock is taken too;   *)
(* else a status task is spawned, which awaits the answer.                  *)
TransmitOnce ==
  /\ Press /\ connected
  /\ Free("client") /\ Free("state")
  /\ queue' = IF Len(queue) < QueueSize THEN Append(queue, "ui") ELSE queue
  /\ UNCHANGED <<owner, ui, appVars, streamVars, thread, worker, status>>

Clear ==
  /\ Press /\ Free("state")
  /\ rx_events' = <<>>
  /\ UNCHANGED <<owner, ui, connected, active, running, streamVars, threadVars>>

StopIperf(k) ==
  /\ Press /\ running[k] /\ Free("state")
  /\ running' = [running EXCEPT ![k] = FALSE]
  /\ UNCHANGED <<owner, ui, connected, active, rx_events, streamVars, threadVars>>

StartIperf(t) ==
  /\ Press /\ ~running[Kind(t)] /\ Free("state")
  /\ thread[t].at = "off"
  /\ running' = [running EXCEPT ![Kind(t)] = TRUE]
  /\ thread' = [thread EXCEPT ![t] = [NoThread EXCEPT !.at = "checking"]]
  /\ UNCHANGED <<owner, ui, connected, active, rx_events, streamVars, queue, worker, status>>

--------------------------------------------------------------------------------
(* The iperf threads (iperf.rs). *)

At(t, where) == thread' = [thread EXCEPT ![t].at = where]

(* Mutant: only the sender looks at its flag. *)
CheckSenderOnly(t) ==
  /\ thread[t].at = "checking" /\ Free("state")
  /\ \/ t \in Senders /\ ~running[Kind(t)] /\ At(t, "finishing")
     \/ t \in Senders /\ thread[t].sent = MaxSends /\ At(t, "finishing")
     \/ running[Kind(t)] /\ t \in Senders /\ thread[t].sent < MaxSends /\ At(t, "sending")
  /\ UNCHANGED <<lockVars, appVars, streamVars, queue, worker, status>>

(* The loop's condition, and for the monitor the events it has not seen: it *)
(* remembers how many it has, while the window trims and clears the list.   *)
Check(t) ==
  /\ thread[t].at = "checking" /\ Free("state")
  /\ \/ ~running[Kind(t)] /\ At(t, "finishing")
     \/ t \in Senders /\ thread[t].sent = MaxSends /\ At(t, "finishing")
     \/ running[Kind(t)] /\ t \in Senders /\ thread[t].sent < MaxSends /\ At(t, "sending")
     \/ /\ running[Kind(t)] /\ t \in Monitors
        /\ thread[t].last_index < Len(rx_events)
        /\ thread' = [thread EXCEPT ![t].at = "echoing",
                        ![t].batch = SubSeq(rx_events, thread[t].last_index + 1, Len(rx_events))]
  /\ UNCHANGED <<lockVars, appVars, streamVars, queue, worker, status>>

(* Mutant: the flag stays set. *)
FinishFlagged(t) ==
  /\ thread[t].at = "finishing" /\ Free("state")
  /\ At(t, "off")
  /\ UNCHANGED <<lockVars, appVars, streamVars, queue, worker, status>>

Finish(t) ==
  /\ thread[t].at = "finishing" /\ Free("state")
  /\ running' = [running EXCEPT ![Kind(t)] = FALSE]
  /\ At(t, "off")
  /\ UNCHANGED <<lockVars, connected, active, rx_events, streamVars, queue, worker, status>>

(* The monitor's turn for one event: a foreign key is skipped with continue,*)
(* past the increment of last_index.                                        *)
SkipEvent(t) ==
  /\ thread[t].at = "echoing" /\ thread[t].batch # <<>>
  /\ LET k == frames[Head(thread[t].batch)]
     IN /\ k # "iperf"
        /\ thread' = [thread EXCEPT ![t].batch = Tail(@),
                        ![t].last_index = IF k = "foreign" THEN @ ELSE @ + 1]
  /\ UNCHANGED <<lockVars, appVars, streamVars, queue, worker, status>>

BatchDone(t) ==
  /\ thread[t].at = "echoing" /\ thread[t].batch = <<>> /\ Free("state")
  /\ At(t, "checking")
  /\ UNCHANGED <<lockVars, appVars, streamVars, queue, worker, status>>

(* tx_send_blocking, under the client lock: queue, and wait for the answer. *)
Send(t) ==
  /\ \/ thread[t].at = "sending"
     \/ thread[t].at = "echoing" /\ thread[t].batch # <<>>
        /\ frames[Head(thread[t].batch)] = "iperf"
  /\ Take("client", t)
  /\ IF Len(queue) < QueueSize
     THEN /\ queue' = Append(queue, t)
          /\ thread' = [thread EXCEPT ![t].at = "awaiting", ![t].resp = "none"]
     ELSE At(t, "failed") /\ UNCHANGED queue
  /\ UNCHANGED <<ui, presses, appVars, streamVars, worker, status>>

Sent(t) ==
  IF t \in Senders
  THEN [thread EXCEPT ![t].at = "checking", ![t].resp = "none", ![t].sent = @ + 1]
  ELSE [thread EXCEPT ![t].at = "echoing", ![t].resp = "none", ![t].batch = Tail(@),
                      ![t].last_index = @ + 1, ![t].echoed[Head(thread[t].batch)] = @ + 1]

AnswerOk(t) ==
  /\ thread[t].at = "awaiting" /\ thread[t].resp = "Ok"
  /\ thread' = Sent(t) /\ Release({"client"})
  /\ UNCHANGED <<ui, presses, appVars, streamVars, queue, worker, status>>

(* An error, or five seconds without an answer, which the runtime counts:   *)
(* the worker's answer will find nobody.                                    *)
AnswerFails(t) ==
  /\ thread[t].at = "awaiting"
  /\ thread[t].resp = "Err" \/ (thread[t].resp = "none" /\ RuntimeRuns)
  /\ At(t, "failed")
  /\ queue' = [i \in DOMAIN queue |-> IF queue[i] = t THEN "nobody" ELSE queue[i]]
  /\ worker' = IF worker = t THEN "nobody" ELSE worker
  /\ UNCHANGED <<lockVars, appVars, streamVars, status>>

(* The Err arm, with the client lock held, takes the state lock.            *)
Fail(t) ==
  /\ thread[t].at = "failed" /\ Free("state")
  /\ thread' = Sent(t) /\ Release({"client"})
  /\ UNCHANGED <<ui, presses, appVars, streamVars, queue, worker, status>>

ThreadStep(t) ==
  \/ Check(t) \/ Finish(t) \/ SkipEvent(t) \/ BatchDone(t)
  \/ Send(t) \/ AnswerOk(t) \/ AnswerFails(t) \/ Fail(t)

--------------------------------------------------------------------------------
(* The transmit worker and the receive tasks (grpc_client.rs). *)

WorkerTake ==
  /\ worker = "idle" /\ queue # <<>> /\ RuntimeRuns
  /\ Take("radio", "worker")
  /\ worker' = Head(queue) /\ queue' = Tail(queue)
  /\ UNCHANGED <<ui, presses, appVars, streamVars, thread, status>>

(* The answer goes to the iperf thread that waits for it, or wakes the      *)
(* status task of the window's request.                                     *)
Answered(res) ==
  /\ radio = "None" => res = "Err"
  /\ thread' = IF worker \in Threads THEN [thread EXCEPT ![worker].resp = res] ELSE thread
  /\ status' = IF worker = "ui" THEN [status EXCEPT !.woken = @ + 1] ELSE status

(* Mutant: the RadioClient stays locked after a request. *)
WorkerAnswerLocked ==
  /\ worker # "idle" /\ RuntimeRuns
  /\ \E res \in {"Ok", "Err"} : Answered(res)
  /\ worker' = "idle"
  /\ UNCHANGED <<lockVars, appVars, streamVars, queue>>

WorkerAnswer ==
  /\ worker # "idle" /\ RuntimeRuns
  /\ \E res \in {"Ok", "Err"} : Answered(res)
  /\ worker' = "idle" /\ Release({"radio"})
  /\ UNCHANGED <<ui, presses, appVars, streamVars, queue>>

(* A status task writes the answer under the state lock, for which it keeps *)
(* its worker thread waiting.                                               *)
StatusStarts ==
  /\ status.woken > 0 /\ RuntimeRuns
  /\ status' = [woken |-> status.woken - 1, blocked |-> status.blocked + 1]
  /\ UNCHANGED <<lockVars, appVars, streamVars, thread, queue, worker>>

StatusSets ==
  /\ status.blocked > 0 /\ Free("state")
  /\ status' = [status EXCEPT !.blocked = @ - 1]
  /\ UNCHANGED <<lockVars, appVars, streamVars, thread, queue, worker>>

TaskListens(t) ==
  /\ task[t].at = "spawned" /\ Free("radio") /\ RuntimeRuns
  /\ task' = [task EXCEPT ![t] = IF radio = "None" THEN NoTask ELSE [@ EXCEPT !.at = "listening"]]
  /\ UNCHANGED <<lockVars, appVars, receiver, inbox, radio, rx_started, frames, switched, lagged,
                 threadVars>>

(* A frame for the RadioClient in place, and its broadcast channel.         *)
Received(tk, f) ==
  IF tk.at # "listening" THEN tk
  ELSE IF Len(tk.stream) < StreamSize THEN [tk EXCEPT !.stream = Append(@, f)]
  ELSE [tk EXCEPT !.stream = Append(Tail(@), f), !.lag = TRUE]

FrameArrives(k) ==
  /\ radio = "Some" /\ Len(frames) < MaxFrames /\ RuntimeRuns
  /\ frames' = Append(frames, k)
  /\ task' = [t \in Tasks |-> Received(task[t], Len(frames'))]
  /\ UNCHANGED <<lockVars, appVars, receiver, inbox, radio, rx_started, switched, lagged,
                 threadVars>>

(* A task whose channel is gone ends at the next frame.                     *)
Forward(t) ==
  /\ task[t].at \in {"listening", "closing"} /\ ~task[t].lag /\ task[t].stream # <<>>
  /\ RuntimeRuns
  /\ IF task[t].fed
     THEN /\ inbox' = Append(inbox, Head(task[t].stream))
          /\ task' = [task EXCEPT ![t].stream = Tail(@)]
     ELSE /\ task' = [task EXCEPT ![t] = NoTask]
          /\ UNCHANGED inbox
  /\ UNCHANGED <<lockVars, appVars, receiver, radio, rx_started, frames, switched, lagged,
                 threadVars>>

(* recv answers Lagged or Closed: either ends the task. *)
TaskEnds(t) ==
  /\ RuntimeRuns
  /\ \/ task[t].lag
     \/ task[t].at = "closing" /\ task[t].stream = <<>>
  /\ task' = [task EXCEPT ![t] = NoTask]
  /\ lagged' = (lagged \/ (task[t].lag /\ task[t].fed))
  /\ UNCHANGED <<lockVars, appVars, receiver, inbox, radio, rx_started, frames, switched,
                 threadVars>>

UiStep == Drain \/ AutoStart \/ StartReceiving \/ Subscribe \/ SubscribeNetwork
          \/ SetServerAddr \/ LockForInfo \/ GetDeviceInfo \/ LockForConfigure \/ ConfigureRadio

WorkerStep == WorkerTake \/ WorkerAnswer

StatusStep == StatusStarts \/ StatusSets

TaskStep(t) == TaskListens(t) \/ Forward(t) \/ TaskEnds(t)

Presses == PressConnect \/ PressDisconnect \/ SelectModule \/ PressConfigure \/ TransmitOnce
           \/ Clear \/ (\E k \in DOMAIN running : StopIperf(k)) \/ (\E t \in Threads : StartIperf(t))

Next ==
  \/ UiStep \/ Presses \/ WorkerStep \/ StatusStep
  \/ \E t \in Threads : ThreadStep(t)
  \/ \E t \in Tasks : TaskStep(t)
  \/ \E k \in Kinds : FrameArrives(k)

Spec ==
  /\ Init /\ [][Next]_vars
  /\ WF_vars(UiStep) /\ WF_vars(WorkerStep) /\ WF_vars(StatusStarts) /\ WF_vars(StatusSets)
  /\ \A t \in Threads : WF_vars(ThreadStep(t))
  /\ WF_vars(\E t \in Tasks : TaskStep(t))

--------------------------------------------------------------------------------
TypeOK ==
  /\ \A l \in DOMAIN owner : owner[l] \in {"free", "ui", "worker"} \cup Threads
  /\ presses \in 0..MaxPresses
  /\ Len(queue) <= QueueSize /\ worker \in {"idle", "ui", "nobody"} \cup Threads
  /\ status.woken \in Nat /\ status.blocked \in 0..Workers
  /\ Len(rx_events) <= MaxRxEvents
  /\ receiver \in BOOLEAN /\ (inbox # <<>> => receiver)
  /\ \A t \in Tasks : task[t].at \in {"none", "spawned", "listening", "closing"}
  /\ \A t \in Threads :
       thread[t].at \in {"off", "checking", "sending", "echoing", "awaiting", "failed", "finishing"}

(* No frame is shown twice or out of order: however often the user connects *)
(* and switches, at most one task feeds the window, and what is shown, what *)
(* waits in the channel and what that task still has go on from each other. *)
ShownOnceInOrder ==
  /\ Cardinality({t \in Tasks : task[t].fed}) <= 1
  /\ \A t \in Tasks : task[t].fed =>
       LET all == rx_events \o inbox \o task[t].stream
       IN \A i, j \in DOMAIN all : i < j => all[i] < all[j]

(* While the window says it receives, a task feeds it, unless the module    *)
(* was switched on this connection or the task lagged.                      *)
FedUnlessSwitched ==
  connected /\ active /\ ui = "frame" /\ ~switched /\ ~lagged =>
    \E t \in Tasks : task[t].fed /\ task[t].at \in {"spawned", "listening"}

(* An iperf that is said to run has a thread: however often it is stopped   *)
(* and started again, the flag does not stay set after the last one ended.  *)
RunningHasThread ==
  \A k \in DOMAIN running : running[k] => \E t \in Threads : Kind(t) = k /\ thread[t].at # "off"

(* A monitor echoes an iperf frame once, as long as no foreign frame came:  *)
(* trimming and clearing the list make it miss frames, never repeat them.   *)
EchoedOnce ==
  (\A f \in DOMAIN frames : frames[f] # "foreign") =>
    \A t \in Monitors, f \in Frames : thread[t].echoed[f] <= 1

(* A frame counts once, in the window as for the monitor. *)
FramesOnce == ShownOnceInOrder /\ EchoedOnce

(* The window's thread waits for the client lock with the state lock held,  *)
(* and the thread that holds the client lock waits for the state lock.      *)
LockCycle ==
  /\ owner["state"] = "ui"
  /\ owner["client"] \in Threads /\ thread[owner["client"]].at = "failed"

(* Status tasks wait for the state lock on every worker thread of the       *)
(* runtime, and the window's thread, which holds it, waits for the runtime: *)
(* for its own request, or for the client lock of a thread that does.       *)
RuntimeStalled ==
  /\ ~RuntimeRuns /\ owner["state"] = "ui"
  /\ \/ ui \in {"getting info", "locking radio", "applying"}
     \/ \E t \in Threads : owner["client"] = t /\ thread[t].at = "awaiting" /\ thread[t].resp = "none"

Deadlocked == LockCycle \/ RuntimeStalled

(* The window comes back to its frame, whatever the network does, unless    *)
(* one of those cycles closes: they are the only ways the locks stop it.    *)
WindowComesBack == []<>(ui = "frame") \/ <>[]Deadlocked

(* An iperf that stays stopped ends, unless a cycle closes. *)
StoppedIperfEnds ==
  \A t \in Threads : []<>(thread[t].at = "off" \/ running[Kind(t)] \/ Deadlocked)

(* ui.rs:236 and ui.rs:870: the window stays responsive, without deadlocks. *)
WindowResponsive == []<>(ui = "frame")
================================================================================
