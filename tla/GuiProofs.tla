------------------------------- MODULE GuiProofs -------------------------------
(****************************************************************************)
(* What the GUI keeps, for any number of iperf threads, monitors, receive   *)
(* tasks, frames and presses: no frame is shown or echoed twice, a window   *)
(* that says it receives is fed, and a flag that is set has its thread.     *)
(*                                                                          *)
(* FedInv follows the one task that feeds the window from the press that    *)
(* starts it to the press that stops it; OrderInv says that the events,     *)
(* the channel and that task go on from each other; MonitorInv is about the *)
(* monitor's last_index: past the events it counts, the list holds nothing  *)
(* that the monitor has had, though the window trims and clears that list.  *)
(****************************************************************************)
EXTENDS Gui, SequenceTheorems, FiniteSetTheorems, TLAPS

Places == {"frame", "starting", "subscribing A", "subscribing B", "subscribing network",
           "addressing", "locking state", "locking client", "getting info", "bad address",
           "configuring", "locking radio", "applying"}

TaskRecord == [at : {"none", "spawned", "listening", "closing"}, fed : BOOLEAN,
               stream : Seq(Nat), lag : BOOLEAN]
ThreadRecord ==
  [at : {"off", "checking", "sending", "echoing", "awaiting", "failed", "finishing"},
   resp : {"none", "Ok", "Err"}, last_index : Nat, batch : Seq(Nat), sent : Nat,
   echoed : [Frames -> Nat]]

LockType ==
  /\ owner \in [{"state", "client", "radio"} -> {"free", "ui", "worker"} \cup Threads]
  /\ ui \in Places /\ presses \in 0..MaxPresses

AppType ==
  /\ connected \in BOOLEAN /\ active \in BOOLEAN
  /\ running \in [{"sender", "monitor"} -> BOOLEAN]
  /\ rx_events \in Seq(Nat) /\ Len(rx_events) <= MaxRxEvents

StreamType ==
  /\ receiver \in BOOLEAN /\ inbox \in Seq(Nat)
  /\ radio \in {"None", "Some"} /\ rx_started \in BOOLEAN
  /\ task \in [Tasks -> TaskRecord]
  /\ frames \in Seq(Kinds) /\ Len(frames) <= MaxFrames
  /\ switched \in BOOLEAN /\ lagged \in BOOLEAN

ThreadType ==
  /\ thread \in [Threads -> ThreadRecord]
  /\ queue \in Seq({"ui", "nobody"} \cup Threads) /\ Len(queue) <= QueueSize
  /\ worker \in {"idle", "ui", "nobody"} \cup Threads
  /\ status \in [woken : Nat, blocked : 0..Workers]

TypeInv == LockType /\ AppType /\ StreamType /\ ThreadType

(* The tasks that feed the window, and when it has asked for one. *)
Fed == {t \in Tasks : task[t].fed}
Subscribed == active \/ ui \in {"subscribing B", "subscribing network"}

FedInv ==
  /\ inbox # <<>> => receiver
  /\ \A t, u \in Fed : t = u
  /\ \A t \in Fed : connected /\ receiver /\ task[t].at \in {"spawned", "listening"}
  /\ ui \in {"addressing", "locking state", "locking client", "getting info", "bad address"}
       => ~connected
  /\ ui \in {"starting", "subscribing A", "subscribing B", "subscribing network"}
       => connected /\ ~active
  /\ ui \in {"subscribing A", "subscribing B", "subscribing network"} => receiver
  /\ ui = "subscribing A" => Fed = {}
  /\ ui = "subscribing B" => rx_started
  /\ active => connected
  /\ connected => radio = "Some"
  /\ connected /\ rx_started /\ ~switched => Subscribed
  /\ connected /\ Subscribed /\ ~switched /\ ~lagged => Fed # {}

(* Frames are numbered as they come: Known ones have come. *)
Increasing(s) == \A i, j \in 1..Len(s) : i < j => s[i] < s[j]
Before(s, r) == \A i \in 1..Len(s), j \in 1..Len(r) : s[i] < r[j]
Known(s) == \A i \in 1..Len(s) : s[i] \in 1..Len(frames)

OrderInv ==
  /\ Increasing(rx_events) /\ Known(rx_events)
  /\ Increasing(inbox) /\ Known(inbox) /\ Before(rx_events, inbox)
  /\ \A t \in Tasks : Increasing(task[t].stream) /\ Known(task[t].stream)
  /\ \A t \in Fed : Before(rx_events, task[t].stream) /\ Before(inbox, task[t].stream)
  /\ \A t \in Threads : Known(thread[t].batch)

(* Where a thread is and what it has of its batch go together.              *)
BusyInv ==
  \A t \in Threads :
    /\ thread[t].at \in {"off", "checking", "finishing", "sending"} => thread[t].batch = <<>>
    /\ t \in Monitors => /\ thread[t].at # "sending"
                         /\ thread[t].at \in {"awaiting", "failed"} => thread[t].batch # <<>>
    /\ t \in Senders => thread[t].batch = <<>>


NoForeign == \A f \in DOMAIN frames : frames[f] # "foreign"
(* A monitor r has neither echoed x nor what came after it, nor has it any  *)
(* of them in its batch.                                                    *)
UnseenBy(r, x) ==
  /\ \A f \in Frames : r.echoed[f] > 0 => f < x
  /\ \A i \in 1..Len(r.batch) : r.batch[i] < x

(* The monitor t has echoed each frame once at most, and before its batch.  *)
EchoedInOrder(t) ==
  /\ Increasing(thread[t].batch)
  /\ \A f \in Frames : /\ thread[t].echoed[f] <= 1
                       /\ thread[t].echoed[f] > 0 =>
                            /\ f <= Len(frames)
                            /\ \A i \in 1..Len(thread[t].batch) : f < thread[t].batch[i]

(* What t has still to see is new to it: past the events it counts, in the  *)
(* channel and with the task that feeds it.                                 *)
UnseenAhead(t) ==
  /\ \A i \in 1..Len(rx_events) :
       i > thread[t].last_index + Len(thread[t].batch) => UnseenBy(thread[t], rx_events[i])
  /\ \A i \in 1..Len(inbox) : UnseenBy(thread[t], inbox[i])
  /\ \A u \in Fed : \A i \in 1..Len(task[u].stream) : UnseenBy(thread[t], task[u].stream[i])

MonitorInv == NoForeign => \A t \in Monitors : EchoedInOrder(t) /\ UnseenAhead(t)
--------------------------------------------------------------------------------
LEMMA Bounds ==
  /\ QueueSize \in Nat /\ MaxRxEvents \in Nat /\ MaxPresses \in Nat /\ MaxFrames \in Nat
  /\ StreamSize \in Nat \ {0} /\ Workers \in Nat \ {0}
BY GuiAssumption

LEMMA TypeInit == Init => TypeInv
<1> SUFFICES ASSUME Init PROVE TypeInv
  OBVIOUS
<1>1. LockType
  BY Bounds DEF Init, LockType, Places
<1>2. /\ <<>> \in Seq(Nat) /\ <<>> \in Seq(Kinds) /\ <<>> \in Seq({"ui", "nobody"} \cup Threads)
      /\ Len(<<>>) = 0
  BY EmptySeq
<1>a. Len(<<>>) <= MaxRxEvents /\ Len(<<>>) <= QueueSize /\ Len(<<>>) <= MaxFrames
  BY <1>2, Bounds
<1>b. running \in [{"sender", "monitor"} -> BOOLEAN]
  BY DEF Init
<1>3. AppType
  BY <1>2, <1>a, <1>b DEF Init, AppType
<1>4. NoTask \in TaskRecord
  BY <1>2 DEF NoTask, TaskRecord
<1>5. StreamType
  <2>1. task \in [Tasks -> TaskRecord]
    BY <1>4 DEF Init
  <2>2. QED
    BY <1>2, <1>a, <2>1 DEF Init, StreamType
<1>6. NoThread \in ThreadRecord
  BY <1>2 DEF NoThread, ThreadRecord
<1>7. ThreadType
  <2>1. thread \in [Threads -> ThreadRecord]
    BY <1>6 DEF Init
  <2>2. status \in [woken : Nat, blocked : 0..Workers]
    BY Bounds DEF Init
  <2>3. QED
    BY <1>2, <1>a, <2>1, <2>2 DEF Init, ThreadType
<1>8. QED
  BY <1>1, <1>3, <1>5, <1>7 DEF TypeInv

LEMMA LockTypeStep ==
  ASSUME TypeInv, Next
  PROVE  LockType'
<1> USE Bounds DEF TypeInv, LockType, Take, Free, Release, Press, lockVars, Places
<1>1. ASSUME UiStep PROVE LockType'
  <2>1. CASE Drain \/ AutoStart
    BY <2>1 DEF Drain, AutoStart
  <2>2. CASE StartReceiving
    BY <2>2 DEF StartReceiving
  <2>3. CASE Subscribe \/ SubscribeNetwork
    BY <2>3 DEF Subscribe, SubscribeNetwork
  <2>4. CASE SetServerAddr
    BY <2>4 DEF SetServerAddr
  <2>5. CASE LockForInfo
    BY <2>5 DEF LockForInfo
  <2>6. CASE GetDeviceInfo
    BY <2>6 DEF GetDeviceInfo
  <2>7. CASE LockForConfigure
    BY <2>7 DEF LockForConfigure
  <2>8. CASE ConfigureRadio
    BY <2>8 DEF ConfigureRadio
  <2>9. QED
    BY <1>1, <2>1, <2>2, <2>3, <2>4, <2>5, <2>6, <2>7, <2>8 DEF UiStep
<1>2. ASSUME Presses PROVE LockType'
  <2>0. Press
    BY <1>2, Zenon DEF Presses, PressConnect, PressDisconnect, SelectModule, PressConfigure,
       TransmitOnce, Clear, StopIperf, StartIperf
  <2>1. presses' \in 0..MaxPresses
    BY <2>0
  <2>2. (ui' = ui \/ ui' \in Places)
        /\ (owner' = owner \/ \E l \in {"state", "client", "radio"} :
                                owner' = [owner EXCEPT ![l] = "ui"])
    BY <1>2 DEF Presses, PressConnect, PressDisconnect, SelectModule, PressConfigure, TransmitOnce,
       Clear, StopIperf, StartIperf
  <2>3. QED
    BY <2>1, <2>2
<1>3. ASSUME WorkerStep \/ StatusStep PROVE LockType'
  BY <1>3 DEF WorkerStep, WorkerTake, WorkerAnswer, StatusStep, StatusStarts, StatusSets
<1>4. ASSUME NEW t \in Threads, ThreadStep(t) PROVE LockType'
  BY <1>4 DEF ThreadStep, Check, Finish, SkipEvent, BatchDone, Send, AnswerOk, AnswerFails, Fail
<1>5. ASSUME NEW t \in Tasks, TaskStep(t) PROVE LockType'
  BY <1>5 DEF TaskStep, TaskListens, Forward, TaskEnds
<1>6. ASSUME NEW k \in Kinds, FrameArrives(k) PROVE LockType'
  BY <1>6 DEF FrameArrives
<1>7. QED
  BY <1>1, <1>2, <1>3, <1>4, <1>5, <1>6 DEF Next

LEMMA TrimmedEvents ==
  ASSUME NEW events \in Seq(Nat)
  PROVE  /\ Trimmed(events) \in Seq(Nat) /\ Len(Trimmed(events)) <= MaxRxEvents
         /\ Len(Trimmed(events)) <= Len(events)
         /\ \A i \in 1..Len(Trimmed(events)) :
              Trimmed(events)[i] = events[i + (Len(events) - Len(Trimmed(events)))]
<1> DEFINE n == Len(events)
<1>0. n \in Nat /\ MaxRxEvents \in Nat /\ \A i \in 1..n : events[i] \in Nat
  BY Bounds, LenProperties
<1>1. CASE n > MaxRxEvents
  <2> DEFINE m == n - MaxRxEvents + 1
  <2>1. m \in Int /\ m >= 1
    BY <1>0, <1>1
  <2>2. /\ SubSeq(events, m, n) \in Seq(Nat)
        /\ Len(SubSeq(events, m, n)) = IF m <= n THEN n - m + 1 ELSE 0
        /\ \A i \in 1..n - m + 1 : SubSeq(events, m, n)[i] = events[m + i - 1]
    <3>1. \A i \in m..n : events[i] \in Nat
      BY <1>0, <2>1
    <3>2. QED
      BY <1>0, <2>1, <3>1, SubSeqProperties
  <2>3. Trimmed(events) = SubSeq(events, m, n)
    BY <1>1 DEF Trimmed
  <2>4. Len(Trimmed(events)) = MaxRxEvents
    BY <1>0, <1>1, <2>2, <2>3
  <2>5. \A i \in 1..MaxRxEvents : i \in 1..n - m + 1 /\ m + i - 1 = i + (n - MaxRxEvents)
    BY <1>0, <1>1
  <2>6. \A i \in 1..Len(Trimmed(events)) :
          Trimmed(events)[i] = events[i + (n - Len(Trimmed(events)))]
    BY <2>2, <2>3, <2>4, <2>5
  <2>7. QED
    BY <1>0, <1>1, <2>2, <2>3, <2>4, <2>6
<1>2. CASE ~(n > MaxRxEvents)
  <2>1. Trimmed(events) = events
    BY <1>2 DEF Trimmed
  <2>2. \A i \in 1..n : i + (n - n) = i
    BY <1>0
  <2>3. QED
    BY <1>0, <1>2, <2>1, <2>2
<1>3. QED
  BY <1>1, <1>2

LEMMA AppTypeStep ==
  ASSUME TypeInv, Next
  PROVE  AppType'
<1> USE DEF TypeInv, AppType, appVars
<1>1. ASSUME UiStep PROVE AppType'
  <2>1. CASE Drain
    <3>1. rx_events \o inbox \in Seq(Nat)
      BY ConcatProperties DEF StreamType
    <3>2. QED
      BY <2>1, <3>1, TrimmedEvents DEF Drain
  <2>2. QED
    BY <1>1, <2>1 DEF UiStep, AutoStart, StartReceiving, Subscribe, SubscribeNetwork,
       SetServerAddr, LockForInfo, GetDeviceInfo, LockForConfigure, ConfigureRadio
<1>2. ASSUME Presses PROVE AppType'
  <2>1. CASE Clear
    <3>1. rx_events' \in Seq(Nat) /\ Len(rx_events') <= MaxRxEvents
      BY <2>1, EmptySeq, Bounds DEF Clear
    <3>2. QED
      BY <2>1, <3>1 DEF Clear
  <2>2. ASSUME NEW k \in DOMAIN running, StopIperf(k) PROVE AppType'
    BY <2>2 DEF StopIperf
  <2>3. ASSUME NEW t \in Threads, StartIperf(t) PROVE AppType'
    BY <2>3 DEF StartIperf
  <2>4. QED
    BY <1>2, <2>1, <2>2, <2>3 DEF Presses, PressConnect, PressDisconnect, SelectModule,
       PressConfigure, TransmitOnce
<1>3. ASSUME WorkerStep \/ StatusStep PROVE AppType'
  BY <1>3 DEF WorkerStep, WorkerTake, WorkerAnswer, StatusStep, StatusStarts, StatusSets
<1>4. ASSUME NEW t \in Threads, ThreadStep(t) PROVE AppType'
  BY <1>4 DEF ThreadStep, Check, Finish, SkipEvent, BatchDone, Send, AnswerOk, AnswerFails, Fail
<1>5. ASSUME NEW t \in Tasks, TaskStep(t) PROVE AppType'
  BY <1>5 DEF TaskStep, TaskListens, Forward, TaskEnds
<1>6. ASSUME NEW k \in Kinds, FrameArrives(k) PROVE AppType'
  BY <1>6 DEF FrameArrives
<1>7. QED
  BY <1>1, <1>2, <1>3, <1>4, <1>5, <1>6 DEF Next

(* What a step does to one task keeps it a task.                            *)
LEMMA TaskChanges ==
  ASSUME task \in [Tasks -> TaskRecord]
  PROVE  /\ Unfed \in [Tasks -> TaskRecord]
         /\ NoTask \in TaskRecord
         /\ \A tk \in TaskRecord :
              /\ [tk EXCEPT !.at = "listening"] \in TaskRecord
              /\ [tk EXCEPT !.at = "closing"] \in TaskRecord
              /\ \A f \in Nat : Received(tk, f) \in TaskRecord
              /\ tk.stream # <<>> => /\ Head(tk.stream) \in Nat
                                     /\ [tk EXCEPT !.stream = Tail(@)] \in TaskRecord
<1>1. NoTask \in TaskRecord
  BY EmptySeq DEF NoTask, TaskRecord
<1>2. Unfed \in [Tasks -> TaskRecord]
  BY DEF Unfed, TaskRecord
<1>3. ASSUME NEW tk \in TaskRecord, tk.stream # <<>>
      PROVE  Head(tk.stream) \in Nat /\ [tk EXCEPT !.stream = Tail(@)] \in TaskRecord
  <2>1. tk.stream \in Seq(Nat)
    BY DEF TaskRecord
  <2>2. Head(tk.stream) \in Nat /\ Tail(tk.stream) \in Seq(Nat)
    BY <1>3, <2>1, HeadTailProperties
  <2>3. QED
    BY <2>2 DEF TaskRecord
<1>4. ASSUME NEW tk \in TaskRecord, NEW f \in Nat
      PROVE  Received(tk, f) \in TaskRecord
  <2>1. tk.stream \in Seq(Nat)
    BY DEF TaskRecord
  <2>2. Append(tk.stream, f) \in Seq(Nat)
    BY <2>1, AppendProperties
  <2>3. CASE Len(tk.stream) < StreamSize
    BY <2>2, <2>3 DEF Received, TaskRecord
  <2>4. CASE ~(Len(tk.stream) < StreamSize)
    <3>1. tk.stream # <<>>
      BY <2>4, Bounds, EmptySeq
    <3>2. Tail(tk.stream) \in Seq(Nat)
      BY <2>1, <3>1, HeadTailProperties
    <3>3. Append(Tail(tk.stream), f) \in Seq(Nat)
      BY <3>2, AppendProperties
    <3>4. QED
      BY <2>4, <3>3 DEF Received, TaskRecord
  <2>5. QED
    BY <2>3, <2>4
<1>5. \A tk \in TaskRecord : /\ [tk EXCEPT !.at = "listening"] \in TaskRecord
                             /\ [tk EXCEPT !.at = "closing"] \in TaskRecord
  BY DEF TaskRecord
<1>6. QED
  BY <1>1, <1>2, <1>3, <1>4, <1>5

LEMMA StreamTypeStep ==
  ASSUME TypeInv, Next
  PROVE  StreamType'
<1> USE DEF TypeInv, StreamType, streamVars
<1>e. <<>> \in Seq(Nat)
  BY EmptySeq
<1>t. Unfed \in [Tasks -> TaskRecord] /\ NoTask \in TaskRecord
  BY TaskChanges
<1>1. ASSUME UiStep PROVE StreamType'
  <2>1. CASE Subscribe
    <3>1. rx_started' \in BOOLEAN /\ task' \in [Tasks -> TaskRecord]
      <4>1. CASE rx_started
        BY <2>1, <4>1 DEF Subscribe, StartReceiveStream
      <4>2. CASE ~rx_started
        <5>1. rx_started' = TRUE
          BY <2>1, <4>2 DEF Subscribe, StartReceiveStream
        <5>2. [NoTask EXCEPT !.at = "spawned", !.fed = TRUE] \in TaskRecord
          BY <1>t DEF TaskRecord
        <5>3. PICK t \in Tasks :
                task' = [task EXCEPT ![t] = [NoTask EXCEPT !.at = "spawned", !.fed = TRUE]]
          BY <2>1, <4>2 DEF Subscribe, StartReceiveStream
        <5>4. QED
          BY <5>1, <5>2, <5>3
      <4>3. QED
        BY <4>1, <4>2
    <3>2. QED
      BY <2>1, <3>1 DEF Subscribe
  <2>2. CASE SetServerAddr
    <3>1. task' \in [Tasks -> TaskRecord]
      BY <2>2, TaskChanges DEF SetServerAddr
    <3>2. QED
      BY <2>2, <3>1 DEF SetServerAddr
  <2>3. CASE StartReceiving
    BY <1>t, <1>e, <2>3 DEF StartReceiving
  <2>4. CASE Drain
    BY <1>e, <2>4 DEF Drain
  <2>5. CASE GetDeviceInfo
    BY <2>5 DEF GetDeviceInfo
  <2>6. QED
    BY <1>1, <2>1, <2>2, <2>3, <2>4, <2>5 DEF UiStep, AutoStart, SubscribeNetwork,
       LockForInfo, LockForConfigure, ConfigureRadio
<1>2. ASSUME Presses PROVE StreamType'
  <2>1. CASE PressDisconnect \/ SelectModule
    BY <1>t, <1>e, <2>1 DEF PressDisconnect, SelectModule
  <2>2. QED
    BY <1>2, <2>1 DEF Presses, PressConnect,
       PressConfigure, TransmitOnce, Clear, StopIperf, StartIperf
<1>3. ASSUME WorkerStep \/ StatusStep PROVE StreamType'
  BY <1>3 DEF WorkerStep, WorkerTake, WorkerAnswer, StatusStep, StatusStarts, StatusSets
<1>4. ASSUME NEW t \in Threads, ThreadStep(t) PROVE StreamType'
  BY <1>4 DEF ThreadStep, Check, Finish, SkipEvent, BatchDone, Send, AnswerOk, AnswerFails, Fail
<1>5. ASSUME NEW t \in Tasks, TaskStep(t) PROVE StreamType'
  <2>1. CASE TaskListens(t)
    <3>1. task' \in [Tasks -> TaskRecord]
      BY <2>1, TaskChanges DEF TaskListens
    <3>2. QED
      BY <2>1, <3>1 DEF TaskListens
  <2>2. CASE Forward(t)
    <3>1. task[t] \in TaskRecord /\ task[t].stream # <<>>
      BY <2>2 DEF Forward
    <3>2. Append(inbox, Head(task[t].stream)) \in Seq(Nat)
      BY <3>1, TaskChanges, AppendProperties
    <3>3. inbox' \in Seq(Nat)
      BY <2>2, <3>2 DEF Forward
    <3>4. task' \in [Tasks -> TaskRecord]
      BY <2>2, <3>1, <1>t, TaskChanges DEF Forward
    <3>5. QED
      BY <2>2, <3>3, <3>4 DEF Forward
  <2>3. CASE TaskEnds(t)
    BY <1>t, <2>3 DEF TaskEnds
  <2>4. QED
    BY <1>5, <2>1, <2>2, <2>3 DEF TaskStep
<1>6. ASSUME NEW k \in Kinds, FrameArrives(k) PROVE StreamType'
  <2>1. frames' \in Seq(Kinds) /\ Len(frames') \in Nat /\ Len(frames') <= MaxFrames
    BY <1>6, Bounds, AppendProperties, LenProperties DEF FrameArrives
  <2>2. task' \in [Tasks -> TaskRecord]
    BY <1>6, <2>1, TaskChanges DEF FrameArrives
  <2>3. QED
    BY <1>6, <2>1, <2>2 DEF FrameArrives
<1>7. QED
  BY <1>1, <1>2, <1>3, <1>4, <1>5, <1>6 DEF Next

LEMMA ThreadTypeStep ==
  ASSUME TypeInv, BusyInv, Next
  PROVE  ThreadType'
<1> USE DEF TypeInv, ThreadType, threadVars
<1>q. \A who \in {"ui", "nobody"} \cup Threads : Len(queue) < QueueSize =>
         /\ Append(queue, who) \in Seq({"ui", "nobody"} \cup Threads)
         /\ Len(Append(queue, who)) <= QueueSize
  BY Bounds, AppendProperties, LenProperties
<1>1. ASSUME UiStep PROVE ThreadType'
  BY <1>1 DEF UiStep, Drain, AutoStart, StartReceiving, Subscribe, SubscribeNetwork,
     SetServerAddr, LockForInfo, GetDeviceInfo, LockForConfigure, ConfigureRadio
<1>2. ASSUME Presses PROVE ThreadType'
  <2>1. CASE TransmitOnce
    BY <1>q, <2>1 DEF TransmitOnce
  <2>2. ASSUME NEW t \in Threads, StartIperf(t) PROVE ThreadType'
    <3>1. [NoThread EXCEPT !.at = "checking"] \in ThreadRecord
      BY EmptySeq DEF NoThread, ThreadRecord
    <3>2. QED
      BY <2>2, <3>1 DEF StartIperf
  <2>3. QED
    BY <1>2, <2>1, <2>2 DEF Presses, PressConnect, PressDisconnect, SelectModule, PressConfigure,
       Clear, StopIperf
<1>3. ASSUME WorkerStep \/ StatusStep PROVE ThreadType'
  <2>1. CASE WorkerTake
    <3>1. /\ Head(queue) \in {"ui", "nobody"} \cup Threads
          /\ Tail(queue) \in Seq({"ui", "nobody"} \cup Threads) /\ Len(Tail(queue)) = Len(queue) - 1
      BY <2>1, HeadTailProperties DEF WorkerTake
    <3>2. Len(Tail(queue)) <= QueueSize
      BY <3>1, Bounds, LenProperties
    <3>3. QED
      BY <2>1, <3>1, <3>2 DEF WorkerTake
  <2>2. CASE WorkerAnswer
    <3>1. PICK res \in {"Ok", "Err"} : Answered(res)
      BY <2>2 DEF WorkerAnswer
    <3>2. thread' \in [Threads -> ThreadRecord]
      <4>1. CASE worker \in Threads
        <5>1. [thread[worker] EXCEPT !.resp = res] \in ThreadRecord
          BY <4>1 DEF ThreadRecord
        <5>2. thread' = [thread EXCEPT ![worker] = [thread[worker] EXCEPT !.resp = res]]
          BY <3>1, <4>1 DEF Answered
        <5>3. QED
          BY <4>1, <5>1, <5>2
      <4>2. CASE worker \notin Threads
        BY <3>1, <4>2 DEF Answered
      <4>3. QED
        BY <4>1, <4>2
    <3>s. status' \in [woken : Nat, blocked : 0..Workers]
      BY <3>1 DEF Answered
    <3>3. QED
      BY <2>2, <3>2, <3>s DEF WorkerAnswer
  <2>3. CASE StatusStarts
    <3>1. status.woken - 1 \in Nat /\ status.blocked + 1 \in 0..Workers
      BY <2>3, Bounds DEF StatusStarts, RuntimeRuns
    <3>2. QED
      BY <2>3, <3>1 DEF StatusStarts
  <2>4. CASE StatusSets
    <3>1. status.blocked - 1 \in 0..Workers
      BY <2>4, Bounds DEF StatusSets
    <3>2. QED
      BY <2>4, <3>1 DEF StatusSets
  <2>5. QED
    BY <1>3, <2>1, <2>2, <2>3, <2>4 DEF WorkerStep, StatusStep
<1>4. ASSUME NEW t \in Threads, ThreadStep(t) PROVE ThreadType'
  <2>r. /\ thread[t] \in ThreadRecord /\ thread[t].batch \in Seq(Nat)
        /\ thread[t].last_index \in Nat
    BY DEF ThreadRecord
  <2>b. thread[t].batch # <<>> =>
          Head(thread[t].batch) \in Nat /\ Tail(thread[t].batch) \in Seq(Nat)
    BY <2>r, HeadTailProperties
  <2>a. ASSUME NEW where \in {"off", "checking", "sending", "echoing", "awaiting", "failed",
                              "finishing"}, At(t, where)
        PROVE  thread' \in [Threads -> ThreadRecord]
    BY <2>r, <2>a DEF At, ThreadRecord
  <2>s. ASSUME t \in Senders \/ thread[t].batch # <<>>, thread' = Sent(t)
        PROVE  thread' \in [Threads -> ThreadRecord]
    <3>1. CASE t \in Senders
      <4>1. thread' = [thread EXCEPT ![t].at = "checking", ![t].resp = "none", ![t].sent = @ + 1]
        BY <2>s, <3>1 DEF Sent
      <4>2. thread[t].sent + 1 \in Nat
        BY <2>r DEF ThreadRecord
      <4>3. [thread[t] EXCEPT !.at = "checking", !.resp = "none", !.sent = thread[t].sent + 1]
              \in ThreadRecord
        BY <2>r, <4>2 DEF ThreadRecord
      <4>4. thread' = [thread EXCEPT ![t] = [thread[t] EXCEPT !.at = "checking", !.resp = "none",
                                                               !.sent = thread[t].sent + 1]]
        BY <4>1
      <4>5. QED
        BY <4>3, <4>4
    <3>2. CASE t \notin Senders
      <4>1. PICK h : h = Head(thread[t].batch)
        OBVIOUS
      <4>2. PICK e : e = [thread[t].echoed EXCEPT ![h] = thread[t].echoed[h] + 1]
        OBVIOUS
      <4>3. e \in [Frames -> Nat]
        <5>1. thread[t].echoed \in [Frames -> Nat]
          BY <2>r DEF ThreadRecord
        <5>2. \A f \in Frames : f = h => thread[t].echoed[h] + 1 \in Nat
          BY <5>1
        <5>3. QED
          BY <4>2, <5>1, <5>2
      <4>n. PICK n \in Nat : n = thread[t].last_index + 1
        BY <2>r
      <4>b. PICK b \in Seq(Nat) : b = Tail(thread[t].batch)
        BY <2>s, <2>b, <3>2
      <4>4. [thread[t] EXCEPT !.at = "echoing", !.resp = "none", !.batch = b,
                              !.last_index = n, !.echoed = e] \in ThreadRecord
        BY <2>r, <4>3 DEF ThreadRecord
      <4>5. thread' = [thread EXCEPT ![t].at = "echoing", ![t].resp = "none", ![t].batch = b,
                                     ![t].last_index = n, ![t].echoed = e]
        BY <2>s, <2>r, <3>2, <4>1, <4>2, <4>n, <4>b DEF Sent, ThreadRecord
      <4>6. thread' = [thread EXCEPT ![t] =
                         [thread[t] EXCEPT !.at = "echoing", !.resp = "none", !.batch = b,
                                           !.last_index = n, !.echoed = e]]
        BY <4>5
      <4>7. QED
        BY <4>4, <4>6
    <3>3. QED
      BY <3>1, <3>2
  <2>1. CASE Check(t)
    <3>1. CASE \E where \in {"finishing", "sending"} : At(t, where)
      BY <2>1, <2>a, <3>1 DEF Check
    <3>2. CASE /\ thread[t].last_index < Len(rx_events)
               /\ thread' = [thread EXCEPT ![t].at = "echoing",
                        ![t].batch = SubSeq(rx_events, thread[t].last_index + 1, Len(rx_events))]
      <4>1. SubSeq(rx_events, thread[t].last_index + 1, Len(rx_events)) \in Seq(Nat)
        BY <2>r, LenProperties, SubSeqProperties DEF AppType
      <4>2. PICK b \in Seq(Nat) : b = SubSeq(rx_events, thread[t].last_index + 1, Len(rx_events))
        BY <4>1
      <4>3. [thread[t] EXCEPT !.at = "echoing", !.batch = b] \in ThreadRecord
        BY <2>r DEF ThreadRecord
      <4>4. thread' = [thread EXCEPT ![t] = [thread[t] EXCEPT !.at = "echoing", !.batch = b]]
        BY <3>2, <4>2
      <4>5. thread' \in [Threads -> ThreadRecord]
        BY <4>3, <4>4
      <4>6. QED
        BY <2>1, <4>5 DEF Check
    <3>3. QED
      BY <2>1, <3>1, <3>2 DEF Check
  <2>2. CASE Finish(t) \/ BatchDone(t)
    BY <2>2, <2>a DEF Finish, BatchDone
  <2>3. CASE SkipEvent(t)
    <3>0. PICK n : /\ n = IF frames[Head(thread[t].batch)] = "foreign" THEN thread[t].last_index
                          ELSE thread[t].last_index + 1
                   /\ n \in Nat
      BY <2>r
    <3>1. thread' = [thread EXCEPT ![t].batch = Tail(thread[t].batch), ![t].last_index = n]
      BY <2>3, <2>r, <3>0 DEF SkipEvent, ThreadRecord
    <3>2. [thread[t] EXCEPT !.batch = Tail(thread[t].batch), !.last_index = n] \in ThreadRecord
      BY <2>3, <2>b, <2>r, <3>0 DEF SkipEvent, ThreadRecord
    <3>3. thread' = [thread EXCEPT ![t] = [thread[t] EXCEPT !.batch = Tail(thread[t].batch),
                                                            !.last_index = n]]
      BY <3>1
    <3>4. thread' \in [Threads -> ThreadRecord]
      BY <3>2, <3>3
    <3>5. QED
      BY <2>3, <3>4 DEF SkipEvent
  <2>4. CASE Send(t)
    <3>1. CASE Len(queue) < QueueSize
      <4>1. thread' \in [Threads -> ThreadRecord]
        <5>1. thread' = [thread EXCEPT ![t] = [thread[t] EXCEPT !.at = "awaiting", !.resp = "none"]]
          BY <2>4, <3>1 DEF Send
        <5>2. [thread[t] EXCEPT !.at = "awaiting", !.resp = "none"] \in ThreadRecord
          BY <2>r DEF ThreadRecord
        <5>3. QED
          BY <5>1, <5>2
      <4>2. QED
        BY <2>4, <3>1, <4>1, <1>q DEF Send
    <3>2. CASE ~(Len(queue) < QueueSize)
      BY <2>4, <2>a, <3>2 DEF Send
    <3>3. QED
      BY <3>1, <3>2
  <2>5. CASE AnswerFails(t)
    <3>1. /\ queue' \in Seq({"ui", "nobody"} \cup Threads) /\ Len(queue') = Len(queue)
      <4>1. DOMAIN queue = 1..Len(queue) /\ Len(queue) \in Nat
            /\ \A i \in 1..Len(queue) : queue[i] \in {"ui", "nobody"} \cup Threads
        BY LenProperties
      <4>2. queue' = [i \in 1..Len(queue) |-> IF queue[i] = t THEN "nobody" ELSE queue[i]]
        BY <2>5, <4>1 DEF AnswerFails
      <4>3. QED
        BY <4>1, <4>2
    <3>2. QED
      BY <2>5, <2>a, <3>1 DEF AnswerFails
  <2>6. CASE AnswerOk(t) \/ Fail(t)
    <3>1. t \in Senders \/ thread[t].batch # <<>>
      BY <2>6 DEF AnswerOk, Fail, BusyInv, Threads
    <3>2. QED
      BY <2>6, <2>s, <3>1 DEF AnswerOk, Fail
  <2>7. QED
    BY <1>4, <2>1, <2>2, <2>3, <2>4, <2>5, <2>6 DEF ThreadStep
<1>5. ASSUME NEW t \in Tasks, TaskStep(t) PROVE ThreadType'
  BY <1>5 DEF TaskStep, TaskListens, Forward, TaskEnds
<1>6. ASSUME NEW k \in Kinds, FrameArrives(k) PROVE ThreadType'
  BY <1>6 DEF FrameArrives
<1>7. QED
  BY <1>1, <1>2, <1>3, <1>4, <1>5, <1>6 DEF Next

(* What a step does to the place and the batch of a thread.                 *)
Others(t) == \A u \in Threads : u # t => thread'[u] = thread[u]
Goes(t, from, to) == thread[t].at \in from /\ thread'[t].at \in to
SameWork(t) ==
  /\ thread'[t].batch = thread[t].batch /\ thread'[t].last_index = thread[t].last_index
  /\ thread'[t].echoed = thread[t].echoed
TakesBatch(t) ==
  /\ Goes(t, {"checking"}, {"echoing"}) /\ t \in Monitors
  /\ thread[t].last_index < Len(rx_events)
  /\ thread'[t].batch = SubSeq(rx_events, thread[t].last_index + 1, Len(rx_events))
  /\ thread'[t].last_index = thread[t].last_index /\ thread'[t].echoed = thread[t].echoed
Skips(t) ==
  /\ Goes(t, {"echoing"}, {"echoing"}) /\ thread[t].batch # <<>>
  /\ thread'[t].batch = Tail(thread[t].batch) /\ thread'[t].echoed = thread[t].echoed
  /\ frames[Head(thread[t].batch)] # "foreign" =>
       thread'[t].last_index = thread[t].last_index + 1
Echoes(t) ==
  /\ Goes(t, {"awaiting", "failed"}, {"echoing"}) /\ t \notin Senders
  /\ thread'[t].batch = Tail(thread[t].batch)
  /\ thread'[t].last_index = thread[t].last_index + 1
  /\ thread'[t].echoed = [thread[t].echoed EXCEPT ![Head(thread[t].batch)] =
                             thread[t].echoed[Head(thread[t].batch)] + 1]

Moves(t) ==
  \/ Goes(t, {"checking"}, {"finishing"}) /\ SameWork(t) /\ UNCHANGED running
  \/ Goes(t, {"checking"}, {"sending"}) /\ t \in Senders /\ SameWork(t) /\ UNCHANGED running
  \/ TakesBatch(t) /\ UNCHANGED running
  \/ /\ Goes(t, {"finishing"}, {"off"}) /\ SameWork(t)
     /\ running' = [running EXCEPT ![Kind(t)] = FALSE]
  \/ Skips(t) /\ UNCHANGED running
  \/ /\ Goes(t, {"echoing"}, {"checking"}) /\ thread[t].batch = <<>> /\ SameWork(t)
     /\ UNCHANGED running
  \/ /\ Goes(t, {"sending", "echoing"}, {"awaiting", "failed"}) /\ SameWork(t)
     /\ thread[t].at = "echoing" => thread[t].batch # <<>>
     /\ UNCHANGED running
  \/ Goes(t, {"awaiting"}, {"failed"}) /\ SameWork(t) /\ UNCHANGED running
  \/ /\ Goes(t, {"awaiting", "failed"}, {"checking"}) /\ t \in Senders /\ SameWork(t)
     /\ UNCHANGED running
  \/ Echoes(t) /\ UNCHANGED running

LEMMA ThreadMoves ==
  ASSUME TypeInv, NEW t \in Threads, ThreadStep(t)
  PROVE  Moves(t) /\ Others(t) /\ UNCHANGED <<rx_events, streamVars>>
<1>t. thread \in [Threads -> ThreadRecord]
  BY DEF TypeInv, ThreadType
<1>r. /\ thread[t] \in ThreadRecord /\ thread[t].batch \in Seq(Nat)
      /\ thread[t].last_index \in Nat
  BY <1>t DEF ThreadRecord
<1>a. ASSUME NEW where, At(t, where)
      PROVE  thread'[t].at = where /\ SameWork(t) /\ Others(t)
  BY <1>t, <1>a DEF At, SameWork, Others, ThreadRecord
<1>u. UNCHANGED <<rx_events, streamVars>>
  BY DEF ThreadStep, Check, Finish, SkipEvent, BatchDone, Send, AnswerOk, AnswerFails, Fail, appVars
<1>s. ASSUME thread' = Sent(t)
      PROVE  /\ Others(t)
             /\ t \in Senders => thread'[t].at = "checking" /\ SameWork(t)
             /\ t \notin Senders =>
                  /\ thread'[t].at = "echoing"
                  /\ thread'[t].batch = Tail(thread[t].batch)
                  /\ thread'[t].last_index = thread[t].last_index + 1
                  /\ thread'[t].echoed = [thread[t].echoed EXCEPT ![Head(thread[t].batch)] =
                             thread[t].echoed[Head(thread[t].batch)] + 1]
  <2>1. CASE t \in Senders
    BY <1>t, <1>s, <2>1 DEF Sent, SameWork, Others, ThreadRecord
  <2>2. CASE t \notin Senders
    BY <1>t, <1>s, <2>2 DEF Sent, SameWork, Others, ThreadRecord
  <2>3. QED
    BY <2>1, <2>2
<1>1. CASE Check(t)
  <2>1. CASE At(t, "finishing")
    BY <1>1, <1>a, <1>u, <2>1 DEF Check, Moves, Goes, appVars
  <2>2. CASE At(t, "sending") /\ t \in Senders
    BY <1>1, <1>a, <1>u, <2>2 DEF Check, Moves, Goes, appVars
  <2>3. CASE /\ t \in Monitors /\ thread[t].last_index < Len(rx_events)
             /\ thread' = [thread EXCEPT ![t].at = "echoing",
                      ![t].batch = SubSeq(rx_events, thread[t].last_index + 1, Len(rx_events))]
    <3>1. PICK b : b = SubSeq(rx_events, thread[t].last_index + 1, Len(rx_events))
      OBVIOUS
    <3>2. thread' = [thread EXCEPT ![t].at = "echoing", ![t].batch = b]
      BY <2>3, <3>1
    <3>3. /\ thread'[t].at = "echoing" /\ thread'[t].batch = b /\ Others(t)
          /\ thread'[t].last_index = thread[t].last_index /\ thread'[t].echoed = thread[t].echoed
      BY <1>t, <3>2 DEF Others, ThreadRecord
    <3>4. TakesBatch(t) /\ Others(t)
      BY <1>1, <2>3, <3>1, <3>3 DEF Check, TakesBatch, Goes
    <3>5. QED
      BY <1>1, <1>u, <3>4 DEF Check, Moves, appVars
  <2>4. QED
    BY <1>1, <2>1, <2>2, <2>3 DEF Check
<1>2. CASE Finish(t)
  BY <1>2, <1>a, <1>u DEF Finish, Moves, Goes
<1>3. CASE BatchDone(t)
  BY <1>3, <1>a, <1>u DEF BatchDone, Moves, Goes, appVars
<1>4. CASE SkipEvent(t)
  <2>1. PICK n : n = IF frames[Head(thread[t].batch)] = "foreign" THEN thread[t].last_index
                     ELSE thread[t].last_index + 1
    OBVIOUS
  <2>2. thread' = [thread EXCEPT ![t].batch = Tail(thread[t].batch), ![t].last_index = n]
    BY <1>4, <1>t, <2>1 DEF SkipEvent, ThreadRecord
  <2>3. /\ thread'[t].at = thread[t].at /\ thread'[t].batch = Tail(thread[t].batch) /\ Others(t)
        /\ thread'[t].last_index = n /\ thread'[t].echoed = thread[t].echoed
    BY <1>t, <2>2 DEF Others, ThreadRecord
  <2>4. Skips(t)
    BY <1>4, <2>1, <2>3 DEF SkipEvent, Skips, Goes
  <2>5. QED
    BY <1>4, <1>u, <2>3, <2>4 DEF SkipEvent, Moves, appVars
<1>5. CASE Send(t)
  <2>1. Others(t) /\ SameWork(t) /\ thread'[t].at \in {"awaiting", "failed"}
    <3>1. CASE Len(queue) < QueueSize
      <4>1. thread' = [thread EXCEPT ![t].at = "awaiting", ![t].resp = "none"]
        BY <1>5, <3>1 DEF Send
      <4>2. QED
        BY <1>t, <4>1 DEF Others, SameWork, ThreadRecord
    <3>2. CASE ~(Len(queue) < QueueSize)
      BY <1>5, <1>a, <3>2 DEF Send
    <3>3. QED
      BY <3>1, <3>2
  <2>2. Goes(t, {"sending", "echoing"}, {"awaiting", "failed"})
        /\ (thread[t].at = "echoing" => thread[t].batch # <<>>)
    BY <1>5, <2>1 DEF Send, Goes
  <2>3. QED
    BY <1>5, <1>u, <2>1, <2>2 DEF Send, Moves, appVars
<1>6. CASE AnswerFails(t)
  BY <1>6, <1>a, <1>u DEF AnswerFails, Moves, Goes, appVars
<1>7. CASE AnswerOk(t) \/ Fail(t)
  <2>1. thread[t].at \in {"awaiting", "failed"} /\ thread' = Sent(t) /\ UNCHANGED running
    BY <1>7 DEF AnswerOk, Fail, appVars
  <2>2. QED
    BY <1>s, <1>u, <2>1 DEF Moves, Goes, Echoes
<1>8. QED
  BY <1>1, <1>2, <1>3, <1>4, <1>5, <1>6, <1>7 DEF ThreadStep

LEMMA WorkerMoves ==
  ASSUME TypeInv, WorkerStep \/ StatusStep
  PROVE  \A t \in Threads : thread'[t].at = thread[t].at /\ SameWork(t)
<1>t. thread \in [Threads -> ThreadRecord]
  BY DEF TypeInv, ThreadType
<1>1. CASE WorkerTake
  BY <1>1 DEF WorkerTake, SameWork
<1>2. CASE WorkerAnswer
  <2>1. PICK res : Answered(res)
    BY <1>2 DEF WorkerAnswer
  <2>2. CASE worker \in Threads
    BY <1>t, <2>1, <2>2 DEF Answered, SameWork, ThreadRecord
  <2>3. CASE worker \notin Threads
    BY <2>1, <2>3 DEF Answered, SameWork
  <2>4. QED
    BY <2>2, <2>3
<1>3. CASE StatusStep
  BY <1>3 DEF StatusStep, StatusStarts, StatusSets, SameWork
<1>4. QED
  BY <1>1, <1>2, <1>3 DEF WorkerStep

LEMMA StartMoves ==
  ASSUME TypeInv, NEW t \in Threads, StartIperf(t)
  PROVE  /\ Others(t) /\ thread'[t] = [NoThread EXCEPT !.at = "checking"]
         /\ thread'[t].at = "checking" /\ thread'[t].batch = <<>> /\ thread'[t].last_index = 0
         /\ thread'[t].echoed = [f \in Frames |-> 0]
BY DEF TypeInv, ThreadType, StartIperf, NoThread, Others

LEMMA BusyStep ==
  ASSUME TypeInv, BusyInv, Next
  PROVE  BusyInv'
<1> USE DEF BusyInv
<1>t. thread \in [Threads -> ThreadRecord]
  BY DEF TypeInv, ThreadType
<1>c. Monitors \cap Senders = {}
  BY GuiAssumption
<1>u. ASSUME thread' = thread PROVE BusyInv'
  BY <1>u
<1>1. ASSUME UiStep PROVE BusyInv'
  BY <1>1, <1>u DEF UiStep, Drain, AutoStart, StartReceiving, Subscribe, SubscribeNetwork,
     SetServerAddr, LockForInfo, GetDeviceInfo, LockForConfigure, ConfigureRadio, threadVars
<1>2. ASSUME Presses PROVE BusyInv'
  <2>1. ASSUME NEW t \in Threads, StartIperf(t) PROVE BusyInv'
    BY <1>t, <2>1 DEF StartIperf, NoThread
  <2>2. QED
    BY <1>2, <1>u, <2>1 DEF Presses, PressConnect, PressDisconnect, SelectModule, PressConfigure,
       TransmitOnce, Clear, StopIperf, threadVars
<1>3. ASSUME WorkerStep \/ StatusStep PROVE BusyInv'
  BY <1>3, WorkerMoves DEF SameWork
<1>4. ASSUME NEW t \in Threads, ThreadStep(t) PROVE BusyInv'
  <2>1. Moves(t) /\ Others(t)
    BY <1>4, ThreadMoves
  <2>2. QED
    BY <1>c, <2>1 DEF Others, Moves, Goes, SameWork, TakesBatch, Skips, Echoes, Threads
<1>5. ASSUME NEW t \in Tasks, TaskStep(t) PROVE BusyInv'
  BY <1>5, <1>u DEF TaskStep, TaskListens, Forward, TaskEnds, threadVars
<1>6. ASSUME NEW k \in Kinds, FrameArrives(k) PROVE BusyInv'
  BY <1>6, <1>u DEF FrameArrives, threadVars
<1>7. QED
  BY <1>1, <1>2, <1>3, <1>4, <1>5, <1>6 DEF Next

(* The flag of an iperf goes down in the step in which its thread ends.     *)
LEMMA RunningStep ==
  ASSUME TypeInv, RunningHasThread, Next
  PROVE  RunningHasThread'
<1> USE DEF RunningHasThread
<1>t. thread \in [Threads -> ThreadRecord] /\ running \in [{"sender", "monitor"} -> BOOLEAN]
  BY DEF TypeInv, ThreadType, AppType
<1>u. ASSUME running' = running, \A t \in Threads : thread[t].at # "off" => thread'[t].at # "off"
      PROVE  RunningHasThread'
  BY <1>u DEF Kind
<1>1. ASSUME UiStep PROVE RunningHasThread'
  BY <1>1, <1>u DEF UiStep, Drain, AutoStart, StartReceiving, Subscribe, SubscribeNetwork,
     SetServerAddr, LockForInfo, GetDeviceInfo, LockForConfigure, ConfigureRadio, threadVars,
     appVars
<1>2. ASSUME Presses PROVE RunningHasThread'
  <2>1. ASSUME NEW t \in Threads, StartIperf(t) PROVE RunningHasThread'
    BY <1>t, <2>1 DEF StartIperf, NoThread, Kind
  <2>2. ASSUME NEW k \in DOMAIN running, StopIperf(k) PROVE RunningHasThread'
    BY <1>t, <2>2 DEF StopIperf, Kind, threadVars
  <2>3. QED
    BY <1>2, <1>u, <2>1, <2>2 DEF Presses, PressConnect, PressDisconnect, SelectModule,
       PressConfigure, TransmitOnce, Clear, threadVars, appVars
<1>3. ASSUME WorkerStep \/ StatusStep PROVE RunningHasThread'
  BY <1>3, <1>u, WorkerMoves DEF WorkerStep, WorkerTake, WorkerAnswer, StatusStep, StatusStarts, StatusSets,
     appVars
<1>4. ASSUME NEW t \in Threads, ThreadStep(t) PROVE RunningHasThread'
  <2>1. Moves(t) /\ Others(t)
    BY <1>4, ThreadMoves
  <2>2. CASE running' = [running EXCEPT ![Kind(t)] = FALSE]
    BY <1>t, <2>1, <2>2 DEF Others, Kind
  <2>3. CASE running' = running /\ thread'[t].at # "off"
    BY <1>u, <2>1, <2>3 DEF Others
  <2>4. QED
    BY <2>1, <2>2, <2>3 DEF Moves, Goes, TakesBatch, Skips, Echoes
<1>5. ASSUME NEW t \in Tasks, TaskStep(t) PROVE RunningHasThread'
  BY <1>5, <1>u DEF TaskStep, TaskListens, Forward, TaskEnds, threadVars, appVars
<1>6. ASSUME NEW k \in Kinds, FrameArrives(k) PROVE RunningHasThread'
  BY <1>6, <1>u DEF FrameArrives, threadVars, appVars
<1>7. QED
  BY <1>1, <1>2, <1>3, <1>4, <1>5, <1>6 DEF Next

--------------------------------------------------------------------------------
(* What the steps do to the receive tasks. *)

LEMMA UnfedTasks ==
  ASSUME TypeInv, task' = Unfed
  PROVE  /\ Fed' = {}
         /\ \A u \in Tasks : task'[u].stream = task[u].stream
<1>1. task \in [Tasks -> TaskRecord]
  BY DEF TypeInv, StreamType
<1>2. \A u \in Tasks : task'[u].fed = FALSE /\ task'[u].stream = task[u].stream
  BY <1>1 DEF Unfed, TaskRecord
<1>3. QED
  BY <1>2 DEF Fed

(* Subscribe starts one task, or leaves them.                               *)
LEMMA SubscribedTasks ==
  ASSUME TypeInv, Subscribe
  PROVE  /\ rx_started => UNCHANGED <<task, rx_started>>
         /\ ~rx_started =>
              /\ rx_started' = TRUE
              /\ \E t \in Tasks :
                   /\ Fed' = Fed \cup {t} /\ task'[t].at = "spawned" /\ task'[t].stream = <<>>
                   /\ \A u \in Tasks : u # t => task'[u] = task[u]
<1>1. task \in [Tasks -> TaskRecord]
  BY DEF TypeInv, StreamType
<1>2. CASE rx_started
  BY <1>2 DEF Subscribe, StartReceiveStream
<1>3. CASE ~rx_started
  <2>1. PICK t \in Tasks : task' = [task EXCEPT ![t] = [NoTask EXCEPT !.at = "spawned", !.fed = TRUE]]
    BY <1>3 DEF Subscribe, StartReceiveStream
  <2>2. /\ task'[t].at = "spawned" /\ task'[t].stream = <<>> /\ task'[t].fed = TRUE
        /\ \A u \in Tasks : u # t => task'[u] = task[u]
    BY <1>1, <2>1 DEF NoTask
  <2>3. Fed' = Fed \cup {t}
    BY <2>2 DEF Fed
  <2>4. QED
    BY <1>3, <2>2, <2>3 DEF Subscribe, StartReceiveStream
<1>4. QED
  BY <1>2, <1>3

LEMMA AddressedTasks ==
  ASSUME TypeInv, SetServerAddr
  PROVE  Fed' = Fed /\ \A u \in Tasks : task'[u].stream = task[u].stream
<1>1. task \in [Tasks -> TaskRecord]
  BY DEF TypeInv, StreamType
<1>2. \A u \in Tasks : task'[u].fed = task[u].fed /\ task'[u].stream = task[u].stream
  BY <1>1 DEF SetServerAddr, TaskRecord
<1>3. QED
  BY <1>2 DEF Fed

LEMMA ListeningTasks ==
  ASSUME TypeInv, NEW t \in Tasks, TaskListens(t)
  PROVE  /\ \A u \in Tasks : u # t => task'[u] = task[u]
         /\ Fed' \subseteq Fed
         /\ task'[t].stream = task[t].stream \/ task'[t].stream = <<>>
         /\ radio = "Some" => Fed' = Fed /\ task'[t].at = "listening"
<1>1. task \in [Tasks -> TaskRecord]
  BY DEF TypeInv, StreamType
<1>2. CASE radio = "None"
  <2>1. task' = [task EXCEPT ![t] = NoTask]
    BY <1>1, <1>2 DEF TaskListens
  <2>2. task'[t].fed = FALSE /\ task'[t].stream = <<>>
        /\ \A u \in Tasks : u # t => task'[u] = task[u]
    BY <1>1, <2>1 DEF NoTask
  <2>3. QED
    BY <1>2, <2>2 DEF Fed
<1>3. CASE radio # "None"
  <2>1. task' = [task EXCEPT ![t].at = "listening"]
    BY <1>1, <1>3 DEF TaskListens
  <2>2. /\ task'[t].fed = task[t].fed /\ task'[t].stream = task[t].stream
        /\ task'[t].at = "listening"
        /\ \A u \in Tasks : u # t => task'[u] = task[u]
    BY <1>1, <2>1 DEF TaskRecord
  <2>3. QED
    BY <2>2 DEF Fed
<1>4. QED
  BY <1>2, <1>3

LEMMA ForwardingTasks ==
  ASSUME TypeInv, NEW t \in Tasks, Forward(t)
  PROVE  /\ \A u \in Tasks : u # t => task'[u] = task[u]
         /\ Fed' = Fed
         /\ task[t].stream # <<>>
         /\ t \in Fed => /\ task'[t].stream = Tail(task[t].stream) /\ task'[t].at = task[t].at
                         /\ inbox' = Append(inbox, Head(task[t].stream))
         /\ t \notin Fed => inbox' = inbox /\ task'[t].stream = <<>>
<1>1. task \in [Tasks -> TaskRecord]
  BY DEF TypeInv, StreamType
<1>2. CASE t \in Fed
  <2>1. task[t].fed
    BY <1>2 DEF Fed
  <2>2. /\ task' = [task EXCEPT ![t].stream = Tail(@)]
        /\ inbox' = Append(inbox, Head(task[t].stream))
    BY <2>1 DEF Forward
  <2>3. /\ task'[t].fed = task[t].fed /\ task'[t].stream = Tail(task[t].stream)
        /\ task'[t].at = task[t].at
        /\ \A u \in Tasks : u # t => task'[u] = task[u]
    BY <1>1, <2>2 DEF TaskRecord
  <2>4. QED
    BY <1>2, <2>2, <2>3 DEF Fed, Forward
<1>3. CASE t \notin Fed
  <2>1. ~task[t].fed
    BY <1>3 DEF Fed
  <2>2. task' = [task EXCEPT ![t] = NoTask] /\ inbox' = inbox
    BY <2>1 DEF Forward
  <2>3. task'[t].fed = FALSE /\ task'[t].stream = <<>>
        /\ \A u \in Tasks : u # t => task'[u] = task[u]
    BY <1>1, <2>2 DEF NoTask
  <2>4. QED
    BY <1>3, <2>2, <2>3 DEF Fed, Forward
<1>4. QED
  BY <1>2, <1>3

LEMMA EndingTasks ==
  ASSUME TypeInv, NEW t \in Tasks, TaskEnds(t)
  PROVE  /\ \A u \in Tasks : u # t => task'[u] = task[u]
         /\ Fed' = Fed \ {t} /\ task'[t].stream = <<>>
         /\ t \in Fed /\ task[t].at # "closing" => lagged'
         /\ lagged => lagged'
<1>1. task \in [Tasks -> TaskRecord]
  BY DEF TypeInv, StreamType
<1>2. task'[t].fed = FALSE /\ task'[t].stream = <<>> /\ \A u \in Tasks : u # t => task'[u] = task[u]
  BY <1>1 DEF TaskEnds, NoTask
<1>3. Fed' = Fed \ {t}
  BY <1>2 DEF Fed
<1>4. t \in Fed /\ task[t].at # "closing" => lagged'
  BY Zenon DEF TaskEnds, Fed
<1>5. lagged => lagged'
  BY Zenon DEF TaskEnds
<1>6. QED
  BY <1>2, <1>3, <1>4, <1>5

LEMMA ArrivingFrame ==
  ASSUME TypeInv, NEW k \in Kinds, FrameArrives(k)
  PROVE  /\ Fed' = Fed /\ \A u \in Tasks : task'[u].at = task[u].at
         /\ Len(frames') = Len(frames) + 1 /\ frames' = Append(frames, k)
         /\ \A u \in Tasks :
              \/ task'[u].stream = task[u].stream
              \/ task'[u].stream = Append(task[u].stream, Len(frames) + 1)
              \/ /\ task[u].stream # <<>>
                 /\ task'[u].stream = Append(Tail(task[u].stream), Len(frames) + 1)
<1>1. task \in [Tasks -> TaskRecord] /\ frames \in Seq(Kinds)
  BY DEF TypeInv, StreamType
<1>2. frames' = Append(frames, k) /\ Len(frames') = Len(frames) + 1
  BY <1>1, AppendProperties DEF FrameArrives
<1>3. PICK f : f = Len(frames) + 1
  OBVIOUS
<1>4. \A u \in Tasks : task'[u] = Received(task[u], f)
  BY <1>2, <1>3 DEF FrameArrives
<1>5. ASSUME NEW u \in Tasks
      PROVE  /\ task'[u].at = task[u].at /\ task'[u].fed = task[u].fed
             /\ \/ task'[u].stream = task[u].stream
                \/ task'[u].stream = Append(task[u].stream, f)
                \/ /\ task[u].stream # <<>>
                   /\ task'[u].stream = Append(Tail(task[u].stream), f)
  <2>1. task[u] \in TaskRecord /\ task[u].stream \in Seq(Nat)
    BY <1>1 DEF TaskRecord
  <2>2. CASE task[u].at # "listening"
    BY <1>4, <2>2 DEF Received
  <2>3. CASE task[u].at = "listening" /\ Len(task[u].stream) < StreamSize
    BY <1>4, <2>1, <2>3 DEF Received, TaskRecord
  <2>4. CASE task[u].at = "listening" /\ ~(Len(task[u].stream) < StreamSize)
    <3>1. task[u].stream # <<>>
      BY <2>4, Bounds, EmptySeq
    <3>2. QED
      BY <1>4, <2>1, <2>4, <3>1 DEF Received, TaskRecord
  <2>5. QED
    BY <2>2, <2>3, <2>4
<1>6. Fed' = Fed
  BY <1>5 DEF Fed
<1>7. QED
  BY <1>2, <1>3, <1>5, <1>6

LEMMA FedInit == Init => FedInv
BY DEF Init, FedInv, Fed, NoTask, Subscribed

LEMMA FedStep ==
  ASSUME TypeInv, FedInv, Next
  PROVE  FedInv'
<1> USE DEF Subscribed
<1>b. /\ connected \in BOOLEAN /\ active \in BOOLEAN /\ receiver \in BOOLEAN
      /\ rx_started \in BOOLEAN /\ switched \in BOOLEAN /\ lagged \in BOOLEAN
      /\ radio \in {"None", "Some"}
  BY DEF TypeInv, AppType, StreamType
<1>u. ASSUME UNCHANGED <<inbox, receiver, task, ui, connected, active, radio, rx_started,
                         switched, lagged>>
      PROVE  FedInv'
  BY <1>u DEF FedInv, Fed
<1>m. task' = task => Fed' = Fed
  BY DEF Fed
<1>1. ASSUME UiStep PROVE FedInv'
  <2>1. CASE Drain
    BY <2>1 DEF Drain, FedInv, Fed, lockVars
  <2>2. CASE AutoStart
    BY <2>2 DEF AutoStart, FedInv, Fed, appVars, streamVars
  <2>3. CASE StartReceiving
    <3>1. CASE connected /\ ~active
      <4>1. Fed' = {}
        BY <2>3, <3>1, UnfedTasks DEF StartReceiving
      <4>2. QED
        BY <2>3, <3>1, <4>1 DEF StartReceiving, FedInv, appVars
    <3>2. CASE ~(connected /\ ~active)
      BY <2>3, <3>2 DEF StartReceiving, FedInv, Fed, appVars
    <3>3. QED
      BY <3>1, <3>2
  <2>4. CASE Subscribe
    <3>1. CASE rx_started
      <4>1. UNCHANGED <<task, rx_started>>
        BY <2>4, <3>1, SubscribedTasks
      <4>2. QED
        BY <2>4, <3>1, <4>1 DEF Subscribe, FedInv, Fed, appVars
    <3>2. CASE ~rx_started
      <4>0. ui = "subscribing A" /\ ui' = "subscribing B" /\ Fed = {}
        BY <2>4, <3>2 DEF Subscribe, FedInv
      <4>1. PICK t \in Tasks : Fed' = {t} /\ task'[t].at = "spawned"
        BY <2>4, <3>2, <4>0, SubscribedTasks
      <4>2. rx_started' = TRUE
        BY <2>4, <3>2, SubscribedTasks
      <4>3. QED
        BY <2>4, <4>0, <4>1, <4>2 DEF Subscribe, FedInv, appVars
    <3>3. QED
      BY <3>1, <3>2
  <2>5. CASE SubscribeNetwork
    BY <2>5, <1>b DEF SubscribeNetwork, FedInv, Fed, streamVars
  <2>6. CASE SetServerAddr
    <3>1. Fed' = {}
      BY <2>6, AddressedTasks DEF SetServerAddr, FedInv
    <3>2. QED
      BY <2>6, <3>1 DEF SetServerAddr, FedInv, appVars
  <2>7. CASE LockForInfo \/ LockForConfigure
    <3>1. /\ UNCHANGED <<inbox, receiver, task, connected, active, radio, rx_started, switched,
                         lagged>>
          /\ \/ ui = "locking state" /\ ui' = "locking client"
             \/ ui = "locking client" /\ ui' \in {"getting info", "bad address"}
             \/ ui = "configuring" /\ ui' = "locking radio"
             \/ ui = "locking radio" /\ ui' = "applying"
      BY <2>7 DEF LockForInfo, LockForConfigure, appVars, streamVars
    <3>2. QED
      BY <1>m, <3>1 DEF FedInv
  <2>8. CASE GetDeviceInfo
    <3>1. Fed = {} /\ Fed' = {} /\ ~active
      BY <2>8 DEF GetDeviceInfo, FedInv, Fed
    <3>2. QED
      BY <2>8, <3>1 DEF GetDeviceInfo, FedInv
  <2>9. CASE ConfigureRadio
    BY <2>9 DEF ConfigureRadio, FedInv, Fed, appVars, streamVars
  <2>10. QED
    BY <1>1, <2>1, <2>2, <2>3, <2>4, <2>5, <2>6, <2>7, <2>8, <2>9 DEF UiStep
<1>2. ASSUME Presses PROVE FedInv'
  <2>1. CASE PressConnect \/ PressConfigure
    <3>1. /\ UNCHANGED <<inbox, receiver, task, connected, active, radio, rx_started, switched,
                         lagged>>
          /\ \/ ui = "frame" /\ ui' = "addressing" /\ ~connected
             \/ ui = "frame" /\ ui' = "configuring"
      BY <2>1 DEF PressConnect, PressConfigure, Press, appVars, streamVars
    <3>2. QED
      BY <1>m, <3>1 DEF FedInv
  <2>2. CASE PressDisconnect
    <3>1. Fed' = {}
      BY <2>2, UnfedTasks DEF PressDisconnect
    <3>2. QED
      BY <2>2, <3>1 DEF PressDisconnect, Press, FedInv
  <2>3. CASE SelectModule
    <3>1. Fed' = {}
      BY <2>3, UnfedTasks DEF SelectModule
    <3>2. QED
      BY <2>3, <3>1 DEF SelectModule, FedInv
  <2>4. QED
    BY <1>2, <1>u, <2>1, <2>2, <2>3 DEF Presses, TransmitOnce, Clear, StopIperf, StartIperf,
       appVars, streamVars
<1>3. ASSUME WorkerStep \/ StatusStep PROVE FedInv'
  BY <1>3, <1>u DEF WorkerStep, WorkerTake, WorkerAnswer, StatusStep, StatusStarts, StatusSets,
     lockVars, appVars, streamVars
<1>4. ASSUME NEW t \in Threads, ThreadStep(t) PROVE FedInv'
  BY <1>4, <1>u DEF ThreadStep, Check, Finish, SkipEvent, BatchDone, Send, AnswerOk, AnswerFails,
     Fail, lockVars, appVars, streamVars
<1>5. ASSUME NEW t \in Tasks, TaskStep(t) PROVE FedInv'
  <2>f. UNCHANGED <<ui, connected, active, receiver, radio, rx_started, switched>>
    BY <1>5 DEF TaskStep, TaskListens, Forward, TaskEnds, lockVars, appVars
  <2>1. CASE TaskListens(t)
    <3>0. inbox' = inbox /\ lagged' = lagged
      BY <2>1 DEF TaskListens
    <3>1. CASE radio = "Some"
      <4>1. Fed' = Fed /\ \A u \in Fed : task'[u].at \in {"spawned", "listening"}
        BY <2>1, <3>1, ListeningTasks DEF FedInv, Fed
      <4>2. QED
        BY <2>f, <3>0, <4>1 DEF FedInv
    <3>2. CASE radio # "Some"
      <4>1. ~connected /\ Fed = {}
        BY <3>2 DEF FedInv
      <4>2. Fed' = {}
        BY <2>1, <4>1, ListeningTasks
      <4>3. QED
        BY <2>f, <3>0, <4>1, <4>2 DEF FedInv
    <3>3. QED
      BY <3>1, <3>2
  <2>2. CASE Forward(t)
    <3>1. Fed' = Fed /\ lagged' = lagged /\ \A u \in Fed : task'[u].at = task[u].at
      BY <2>2, ForwardingTasks DEF Forward, Fed
    <3>2. inbox' # <<>> => receiver
      BY <2>2, ForwardingTasks DEF FedInv
    <3>3. QED
      BY <2>f, <3>1, <3>2 DEF FedInv
  <2>3. CASE TaskEnds(t)
    <3>0. inbox' = inbox
      BY <2>3 DEF TaskEnds
    <3>1. /\ Fed' = Fed \ {t} /\ \A u \in Fed' : task'[u].at = task[u].at
          /\ t \in Fed => lagged'
          /\ lagged => lagged'
      BY <2>3, EndingTasks DEF FedInv, Fed
    <3>2. QED
      BY <2>f, <3>0, <3>1 DEF FedInv
  <2>4. QED
    BY <1>5, <2>1, <2>2, <2>3 DEF TaskStep
<1>6. ASSUME NEW k \in Kinds, FrameArrives(k) PROVE FedInv'
  <2>1. UNCHANGED <<ui, connected, active, receiver, radio, rx_started, switched, inbox, lagged>>
    BY <1>6 DEF FrameArrives, lockVars, appVars
  <2>2. Fed' = Fed /\ \A u \in Fed : task'[u].at = task[u].at
    BY <1>6, ArrivingFrame DEF Fed
  <2>3. QED
    BY <2>1, <2>2 DEF FedInv
<1>7. QED
  BY <1>1, <1>2, <1>3, <1>4, <1>5, <1>6 DEF Next

LEMMA FedMeansFed == FedInv => FedUnlessSwitched
BY DEF FedInv, FedUnlessSwitched, Fed, Subscribed

--------------------------------------------------------------------------------
(* Increasing sequences of frames. *)

LEMMA EmptyOrder ==
  ASSUME NEW s
  PROVE  Increasing(<<>>) /\ Known(<<>>) /\ Before(s, <<>>) /\ Before(<<>>, s)
BY DEF Increasing, Known, Before

LEMMA ConcatOrder ==
  ASSUME NEW s \in Seq(Nat), NEW r \in Seq(Nat), Increasing(s), Increasing(r), Before(s, r)
  PROVE  Increasing(s \o r)
<1>1. /\ Len(s) \in Nat /\ Len(r) \in Nat /\ Len(s \o r) = Len(s) + Len(r)
      /\ \A i \in 1..Len(s) + Len(r) :
           (s \o r)[i] = IF i <= Len(s) THEN s[i] ELSE r[i - Len(s)]
  BY ConcatProperties, LenProperties
<1>2. SUFFICES ASSUME NEW i \in 1..Len(s) + Len(r), NEW j \in 1..Len(s) + Len(r), i < j
               PROVE  (s \o r)[i] < (s \o r)[j]
  BY <1>1 DEF Increasing
<1>3. CASE j <= Len(s)
  BY <1>1, <1>2, <1>3 DEF Increasing
<1>4. CASE i <= Len(s) /\ ~(j <= Len(s))
  <2>1. i \in 1..Len(s) /\ j - Len(s) \in 1..Len(r)
    BY <1>1, <1>2, <1>4
  <2>2. QED
    BY <1>1, <1>2, <1>4, <2>1 DEF Before
<1>5. CASE ~(i <= Len(s)) /\ ~(j <= Len(s))
  <2>1. i - Len(s) \in 1..Len(r) /\ j - Len(s) \in 1..Len(r) /\ i - Len(s) < j - Len(s)
    BY <1>1, <1>2, <1>5
  <2>2. QED
    BY <1>1, <1>2, <1>5, <2>1 DEF Increasing
<1>6. QED
  BY <1>1, <1>2, <1>3, <1>4, <1>5

LEMMA ConcatMembers ==
  ASSUME NEW s \in Seq(Nat), NEW r \in Seq(Nat)
  PROVE  \A i \in 1..Len(s \o r) :
           \/ i \in 1..Len(s) /\ (s \o r)[i] = s[i]
           \/ i - Len(s) \in 1..Len(r) /\ (s \o r)[i] = r[i - Len(s)]
<1>1. /\ Len(s) \in Nat /\ Len(r) \in Nat /\ Len(s \o r) = Len(s) + Len(r)
      /\ \A i \in 1..Len(s) + Len(r) :
           (s \o r)[i] = IF i <= Len(s) THEN s[i] ELSE r[i - Len(s)]
  BY ConcatProperties, LenProperties
<1>2. QED
  BY <1>1

(* Each of new is one of r, or one of s that was no nearer the front. *)
KeptOf(new, s, r) ==
  \A i \in 1..Len(new) : \/ \E j \in 1..Len(s) : j >= i /\ new[i] = s[j]
                         \/ \E j \in 1..Len(r) : new[i] = r[j]

(* What the window keeps of what it had and what came: each event has moved *)
(* to the front by as much as was dropped.                                  *)
LEMMA KeptEvents ==
  ASSUME NEW s \in Seq(Nat), NEW r \in Seq(Nat), NEW new, new = Trimmed(s \o r)
  PROVE  /\ new \in Seq(Nat)
         /\ KeptOf(new, s, r)
         /\ Increasing(s) /\ Increasing(r) /\ Before(s, r) => Increasing(new)
<1>1. PICK all \in Seq(Nat) : all = s \o r
  BY ConcatProperties
<1>2. PICK d : d = Len(all) - Len(new)
  OBVIOUS
<1>3. /\ new \in Seq(Nat) /\ d \in Nat /\ Len(all) \in Nat /\ Len(new) \in Nat
      /\ Len(new) <= Len(all)
      /\ \A i \in 1..Len(new) : new[i] = all[i + d]
  <2>1. new = Trimmed(all)
    BY <1>1
  <2>2. /\ new \in Seq(Nat) /\ Len(new) <= Len(all)
        /\ \A i \in 1..Len(new) : new[i] = all[i + (Len(all) - Len(new))]
    BY <2>1, TrimmedEvents
  <2>3. Len(new) \in Nat /\ Len(all) \in Nat
    BY <2>2, LenProperties
  <2>4. QED
    BY <1>2, <2>2, <2>3
<1>4. \A i \in 1..Len(new) : i + d \in 1..Len(all) /\ i + d >= i
  BY <1>2, <1>3
<1>5. KeptOf(new, s, r)
  <2>1. SUFFICES ASSUME NEW i \in 1..Len(new)
                 PROVE  \/ \E j \in 1..Len(s) : j >= i /\ new[i] = s[j]
                        \/ \E j \in 1..Len(r) : new[i] = r[j]
    BY DEF KeptOf
  <2>2. PICK k : k = i + d /\ k \in 1..Len(all) /\ k >= i /\ new[i] = all[k]
    BY <1>3, <1>4
  <2>3. \/ k \in 1..Len(s) /\ all[k] = s[k]
        \/ k - Len(s) \in 1..Len(r) /\ all[k] = r[k - Len(s)]
    BY <1>1, <2>2, ConcatMembers
  <2>4. QED
    BY <2>2, <2>3
<1>6. ASSUME Increasing(s), Increasing(r), Before(s, r)
      PROVE  Increasing(new)
  <2>1. Increasing(all)
    BY <1>1, <1>6, ConcatOrder
  <2>2. \A i, j \in 1..Len(new) : i < j => i + d < j + d
    BY <1>3
  <2>3. QED
    BY <1>3, <1>4, <2>1, <2>2 DEF Increasing
<1>7. QED
  BY <1>3, <1>5, <1>6

LEMMA TailOrder ==
  ASSUME NEW s \in Seq(Nat), s # <<>>
  PROVE  /\ Head(s) \in Nat /\ Tail(s) \in Seq(Nat) /\ 1 \in 1..Len(s) /\ Head(s) = s[1]
         /\ Len(Tail(s)) = Len(s) - 1
         /\ \A i \in 1..Len(Tail(s)) : i + 1 \in 1..Len(s) /\ Tail(s)[i] = s[i + 1]
         /\ Increasing(s) => /\ Increasing(Tail(s))
                             /\ \A i \in 1..Len(Tail(s)) : Head(s) < Tail(s)[i]
<1>1. /\ Head(s) \in Nat /\ Tail(s) \in Seq(Nat) /\ Len(Tail(s)) = Len(s) - 1
      /\ \A i \in 1..Len(Tail(s)) : Tail(s)[i] = s[i + 1]
      /\ Len(s) \in Nat \ {0}
  BY HeadTailProperties, EmptySeq
<1>2. Head(s) = s[1] /\ 1 \in 1..Len(s)
  BY <1>1
<1>3. \A i \in 1..Len(Tail(s)) : i + 1 \in 1..Len(s) /\ i + 1 > 1
  BY <1>1
<1>4. \A i, j \in 1..Len(Tail(s)) : i < j => i + 1 < j + 1
  BY <1>1
<1>5. Increasing(s) => /\ Increasing(Tail(s))
                       /\ \A i \in 1..Len(Tail(s)) : Head(s) < Tail(s)[i]
  BY <1>1, <1>2, <1>3, <1>4 DEF Increasing
<1>6. QED
  BY <1>1, <1>2, <1>3, <1>5

LEMMA AppendOrder ==
  ASSUME NEW s \in Seq(Nat), NEW n \in Nat, \A i \in 1..Len(s) : s[i] < n
  PROVE  /\ Append(s, n) \in Seq(Nat)
         /\ \A i \in 1..Len(Append(s, n)) :
              (i \in 1..Len(s) /\ Append(s, n)[i] = s[i]) \/ Append(s, n)[i] = n
         /\ Increasing(s) => Increasing(Append(s, n))
<1>1. /\ Append(s, n) \in Seq(Nat) /\ Len(Append(s, n)) = Len(s) + 1 /\ Len(s) \in Nat
      /\ \A i \in 1..Len(s) : Append(s, n)[i] = s[i]
      /\ Append(s, n)[Len(s) + 1] = n
  BY AppendProperties, LenProperties
<1>2. \A i \in 1..Len(s) + 1 : i \in 1..Len(s) \/ i = Len(s) + 1
  BY <1>1
<1>3. \A i, j \in 1..Len(s) + 1 : i < j => i \in 1..Len(s)
  BY <1>1
<1>4. Increasing(s) => Increasing(Append(s, n))
  BY <1>1, <1>2, <1>3 DEF Increasing
<1>5. QED
  BY <1>1, <1>2, <1>4

LEMMA SubSeqOrder ==
  ASSUME NEW s \in Seq(Nat), NEW n \in Nat, n < Len(s), NEW b, b = SubSeq(s, n + 1, Len(s))
  PROVE  /\ b \in Seq(Nat) /\ Len(b) = Len(s) - n
         /\ \A i \in 1..Len(b) : n + i \in 1..Len(s) /\ n + i > n /\ b[i] = s[n + i]
<1>1. Len(s) \in Nat /\ \A i \in 1..Len(s) : s[i] \in Nat
  BY LenProperties
<1>2. /\ b \in Seq(Nat) /\ Len(b) = Len(s) - n
      /\ \A i \in 1..Len(b) : b[i] = s[n + i]
  <2>1. /\ SubSeq(s, n + 1, Len(s)) \in Seq(Nat)
        /\ Len(SubSeq(s, n + 1, Len(s))) = IF n + 1 <= Len(s) THEN Len(s) - (n + 1) + 1 ELSE 0
        /\ \A i \in 1..Len(s) - (n + 1) + 1 : SubSeq(s, n + 1, Len(s))[i] = s[n + 1 + i - 1]
    <3>1. \A i \in n + 1 .. Len(s) : s[i] \in Nat
      BY <1>1
    <3>2. n + 1 \in Int /\ Len(s) \in Int
      BY <1>1
    <3>3. QED
      BY <3>1, <3>2, SubSeqProperties
  <2>2. Len(b) = Len(s) - n /\ Len(s) - (n + 1) + 1 = Len(s) - n
    BY <1>1, <2>1
  <2>3. \A i \in 1..Len(s) - n : n + 1 + i - 1 = n + i
    BY <1>1
  <2>4. QED
    BY <2>1, <2>2, <2>3
<1>3. \A i \in 1..Len(b) : n + i \in 1..Len(s) /\ n + i > n
  BY <1>1, <1>2
<1>4. QED
  BY <1>2, <1>3

--------------------------------------------------------------------------------
(* The frames in the window, in the channel, with the tasks and the monitors*)

LEMMA SequencesTyped ==
  ASSUME TypeInv
  PROVE  /\ rx_events \in Seq(Nat) /\ inbox \in Seq(Nat) /\ Len(frames) \in Nat
         /\ \A u \in Tasks : task[u].stream \in Seq(Nat)
         /\ \A t \in Threads : thread[t].batch \in Seq(Nat) /\ thread[t].last_index \in Nat
                               /\ thread[t].echoed \in [Frames -> Nat]
<1>1. \A u \in Tasks : task[u].stream \in Seq(Nat)
  BY DEF TypeInv, StreamType, TaskRecord
<1>2. \A t \in Threads : thread[t].batch \in Seq(Nat) /\ thread[t].last_index \in Nat
                         /\ thread[t].echoed \in [Frames -> Nat]
  BY DEF TypeInv, ThreadType, ThreadRecord
<1>3. Len(frames) \in Nat
  BY LenProperties DEF TypeInv, StreamType
<1>4. QED
  BY <1>1, <1>2, <1>3 DEF TypeInv, AppType, StreamType

LEMMA OrderInit == Init => OrderInv
<1> SUFFICES ASSUME Init PROVE OrderInv
  OBVIOUS
<1>1. \A t \in Tasks : task[t].stream = <<>>
  BY DEF Init, NoTask
<1>2. \A t \in Threads : thread[t].batch = <<>>
  BY DEF Init, NoThread
<1>3. QED
  BY <1>1, <1>2, EmptyOrder DEF Init, OrderInv

(* What changes neither the window's events nor the channel, nor what a fed *)
(* task holds, and gives the other tasks nothing, keeps the order.          *)
LEMMA OrderKept ==
  ASSUME OrderInv,
         UNCHANGED <<rx_events, frames>>,
         inbox' = inbox \/ inbox' = <<>>,
         \A u \in Fed' : task'[u].stream = <<>> \/ u \in Fed,
         \A u \in Tasks : task'[u].stream = task[u].stream \/ task'[u].stream = <<>>,
         \A t \in Threads : thread'[t].batch = thread[t].batch \/ thread'[t].batch = <<>>
  PROVE  OrderInv'
<1>k. \A s : Known(s) => Known(s)'
  BY DEF Known
<1>1. (Increasing(rx_events) /\ Known(rx_events))'
  BY DEF OrderInv, Known
<1>2. (Increasing(inbox) /\ Known(inbox) /\ Before(rx_events, inbox))'
  <2>1. CASE inbox' = inbox
    BY <2>1 DEF OrderInv, Known
  <2>2. CASE inbox' = <<>>
    BY <2>2, EmptyOrder DEF Known, Increasing, Before
  <2>3. QED
    BY <2>1, <2>2
<1>3. ASSUME NEW u \in Tasks
      PROVE  (Increasing(task[u].stream) /\ Known(task[u].stream))'
  <2>1. CASE task'[u].stream = task[u].stream
    BY <2>1 DEF OrderInv, Known
  <2>2. CASE task'[u].stream = <<>>
    BY <2>2, EmptyOrder DEF Known, Increasing
  <2>3. QED
    BY <2>1, <2>2
<1>4. ASSUME NEW u \in Fed'
      PROVE  (Before(rx_events, task[u].stream) /\ Before(inbox, task[u].stream))'
  <2>1. CASE task'[u].stream = <<>>
    BY <2>1, EmptyOrder DEF Before
  <2>2. CASE task'[u].stream # <<>>
    <3>1. u \in Fed /\ task'[u].stream = task[u].stream
      BY <1>4, <2>2 DEF Fed
    <3>2. QED
      BY <3>1 DEF OrderInv, Before
  <2>3. QED
    BY <2>1, <2>2
<1>5. ASSUME NEW t \in Threads PROVE Known(thread[t].batch)'
  <2>1. CASE thread'[t].batch = thread[t].batch
    BY <2>1 DEF OrderInv, Known
  <2>2. CASE thread'[t].batch = <<>>
    BY <2>2 DEF Known
  <2>3. QED
    BY <2>1, <2>2
<1>6. QED
  BY <1>1, <1>2, <1>3, <1>4, <1>5 DEF OrderInv

LEMMA OrderUi ==
  ASSUME TypeInv, FedInv, OrderInv, UiStep
  PROVE  OrderInv'
<1>s. /\ rx_events \in Seq(Nat) /\ inbox \in Seq(Nat)
      /\ \A u \in Tasks : task[u].stream \in Seq(Nat)
  BY SequencesTyped
<1>m. task' = task => Fed' = Fed
  BY DEF Fed
<1>1. CASE Drain
  <2>1. /\ rx_events' = Trimmed(rx_events \o inbox) /\ inbox' = <<>>
        /\ UNCHANGED <<frames, task, thread>>
    BY <1>1 DEF Drain, threadVars
  <2>2. /\ \A i \in 1..Len(rx_events') :
             \/ \E j \in 1..Len(rx_events) : rx_events'[i] = rx_events[j]
             \/ \E j \in 1..Len(inbox) : rx_events'[i] = inbox[j]
        /\ Increasing(rx_events')
    <3>1. Increasing(rx_events) /\ Increasing(inbox) /\ Before(rx_events, inbox)
      BY DEF OrderInv
    <3>2. PICK new : new = Trimmed(rx_events \o inbox)
      OBVIOUS
    <3>3. KeptOf(new, rx_events, inbox)
      BY <1>s, <3>2, KeptEvents
    <3>4. Increasing(new)
      BY <1>s, <3>1, <3>2, KeptEvents
    <3>5. QED
      BY <2>1, <3>2, <3>3, <3>4 DEF KeptOf
  <2>3. Known(rx_events)'
    BY <2>1, <2>2 DEF OrderInv, Known
  <2>4. (Increasing(inbox) /\ Known(inbox) /\ Before(rx_events, inbox))'
    BY <2>1, EmptyOrder DEF Known, Increasing, Before
  <2>5. \A t \in Tasks : (Increasing(task[t].stream) /\ Known(task[t].stream))'
    BY <2>1 DEF OrderInv, Known
  <2>6. \A t \in Fed' : (Before(rx_events, task[t].stream) /\ Before(inbox, task[t].stream))'
    BY <1>m, <2>1, <2>2, EmptyOrder DEF OrderInv, Before
  <2>7. \A t \in Threads : Known(thread[t].batch)'
    BY <2>1 DEF OrderInv, Known
  <2>8. Increasing(rx_events)'
    BY <2>2 DEF Increasing
  <2>9. QED
    BY <2>3, <2>4, <2>5, <2>6, <2>7, <2>8 DEF OrderInv
<1>2. CASE Subscribe
  <2>1. UNCHANGED <<rx_events, frames, inbox, thread>>
    BY <1>2 DEF Subscribe, appVars, threadVars
  <2>2. /\ \A u \in Tasks : task'[u].stream = task[u].stream \/ task'[u].stream = <<>>
        /\ \A u \in Fed' : task'[u].stream = <<>> \/ u \in Fed
    BY <1>2, <1>m, SubscribedTasks
  <2>3. QED
    BY <2>1, <2>2, OrderKept
<1>3. CASE SetServerAddr
  <2>1. UNCHANGED <<rx_events, frames, inbox, thread>>
    BY <1>3 DEF SetServerAddr, appVars, threadVars
  <2>2. QED
    BY <1>3, <2>1, AddressedTasks, OrderKept
<1>4. CASE StartReceiving
  <2>1. UNCHANGED <<rx_events, frames, thread>> /\ (inbox' = inbox \/ inbox' = <<>>)
    BY <1>4 DEF StartReceiving, appVars, threadVars
  <2>2. /\ \A u \in Tasks : task'[u].stream = task[u].stream
        /\ \A u \in Fed' : u \in Fed
    BY <1>4, <1>m, UnfedTasks DEF StartReceiving
  <2>3. QED
    BY <2>1, <2>2, OrderKept
<1>5. CASE AutoStart \/ SubscribeNetwork \/ LockForInfo \/ GetDeviceInfo \/ LockForConfigure
           \/ ConfigureRadio
  <2>1. UNCHANGED <<rx_events, frames, inbox, thread, task>>
    BY <1>5 DEF AutoStart, SubscribeNetwork, LockForInfo, GetDeviceInfo, LockForConfigure,
       ConfigureRadio, appVars, streamVars, threadVars
  <2>2. QED
    BY <1>m, <2>1, OrderKept
<1>6. QED
  BY <1>1, <1>2, <1>3, <1>4, <1>5 DEF UiStep

LEMMA OrderPresses ==
  ASSUME TypeInv, OrderInv, Presses
  PROVE  OrderInv'
<1>m. task' = task => Fed' = Fed
  BY DEF Fed
<1>1. CASE PressDisconnect \/ SelectModule
  <2>1. UNCHANGED <<rx_events, frames, thread>> /\ inbox' = <<>> /\ task' = Unfed
    BY <1>1 DEF PressDisconnect, SelectModule, threadVars
  <2>2. QED
    BY <2>1, UnfedTasks, OrderKept
<1>2. ASSUME NEW t \in Threads, StartIperf(t) PROVE OrderInv'
  <2>1. UNCHANGED <<rx_events, frames, inbox, task>>
    BY <1>2 DEF StartIperf, streamVars
  <2>2. \A u \in Threads : thread'[u].batch = thread[u].batch \/ thread'[u].batch = <<>>
    BY <1>2, StartMoves DEF Others
  <2>3. QED
    BY <1>m, <2>1, <2>2, OrderKept
<1>3. CASE Clear
  <2>1. rx_events' = <<>> /\ UNCHANGED <<frames, inbox, task, thread>>
    BY <1>3 DEF Clear, streamVars, threadVars
  <2>2. (Increasing(rx_events) /\ Known(rx_events) /\ Before(rx_events, inbox))'
    BY <2>1, EmptyOrder DEF Known, Increasing, Before
  <2>3. (Increasing(inbox) /\ Known(inbox))'
    BY <2>1 DEF OrderInv, Known
  <2>4. \A t \in Tasks : (Increasing(task[t].stream) /\ Known(task[t].stream))'
    BY <2>1 DEF OrderInv, Known
  <2>5. \A t \in Fed' : (Before(rx_events, task[t].stream) /\ Before(inbox, task[t].stream))'
    BY <1>m, <2>1 DEF OrderInv, Before
  <2>6. \A t \in Threads : Known(thread[t].batch)'
    BY <2>1 DEF OrderInv, Known
  <2>7. QED
    BY <2>2, <2>3, <2>4, <2>5, <2>6 DEF OrderInv
<1>4. CASE PressConnect \/ PressConfigure \/ TransmitOnce \/ \E k \in DOMAIN running : StopIperf(k)
  <2>1. UNCHANGED <<rx_events, frames, inbox, task, thread>>
    BY <1>4 DEF PressConnect, PressConfigure, TransmitOnce, StopIperf, appVars, streamVars,
       threadVars
  <2>2. QED
    BY <1>m, <2>1, OrderKept
<1>5. QED
  BY <1>1, <1>2, <1>3, <1>4 DEF Presses

LEMMA OrderThreads ==
  ASSUME TypeInv, BusyInv, OrderInv, NEW t \in Threads, ThreadStep(t)
  PROVE  OrderInv'
<1>1. Moves(t) /\ Others(t) /\ UNCHANGED <<rx_events, frames, inbox, task>>
  BY ThreadMoves DEF streamVars
<1>s. rx_events \in Seq(Nat) /\ thread[t].batch \in Seq(Nat) /\ thread[t].last_index \in Nat
  BY SequencesTyped
<1>2. Known(thread'[t].batch)
  <2>1. CASE TakesBatch(t)
    <3>1. PICK b : b = thread'[t].batch
      OBVIOUS
    <3>2. \A i \in 1..Len(b) : \E j \in 1..Len(rx_events) : b[i] = rx_events[j]
      <4>1. PICK n \in Nat : n = thread[t].last_index
        BY <1>s
      <4>2. n < Len(rx_events) /\ b = SubSeq(rx_events, n + 1, Len(rx_events))
        BY <2>1, <3>1, <4>1 DEF TakesBatch
      <4>3. \A i \in 1..Len(b) : n + i \in 1..Len(rx_events) /\ b[i] = rx_events[n + i]
        BY <1>s, <4>2, SubSeqOrder
      <4>4. QED
        BY <4>3
    <3>3. QED
      BY <3>1, <3>2 DEF OrderInv, Known
  <2>2. CASE Skips(t) \/ Echoes(t)
    <3>1. thread[t].batch # <<>> /\ thread'[t].batch = Tail(thread[t].batch)
      BY <2>2, GuiAssumption DEF Skips, Echoes, BusyInv, Goes, Threads
    <3>2. QED
      BY <1>s, <3>1, TailOrder DEF OrderInv, Known
  <2>3. CASE SameWork(t)
    BY <2>3 DEF SameWork, OrderInv
  <2>4. QED
    BY <1>1, <2>1, <2>2, <2>3 DEF Moves
<1>3. \A u \in Threads : Known(thread[u].batch)'
  BY <1>1, <1>2 DEF Others, OrderInv, Known
<1>4. Fed' = Fed
  BY <1>1 DEF Fed
<1>5. (Increasing(rx_events) /\ Known(rx_events)
       /\ Increasing(inbox) /\ Known(inbox) /\ Before(rx_events, inbox))'
  BY <1>1 DEF OrderInv, Known
<1>6. /\ \A u \in Tasks : (Increasing(task[u].stream) /\ Known(task[u].stream))'
      /\ \A u \in Fed' : (Before(rx_events, task[u].stream) /\ Before(inbox, task[u].stream))'
  BY <1>1, <1>4 DEF OrderInv, Known, Before
<1>7. QED
  BY <1>3, <1>5, <1>6 DEF OrderInv

LEMMA OrderTasks ==
  ASSUME TypeInv, FedInv, OrderInv, NEW t \in Tasks, TaskStep(t)
  PROVE  OrderInv'
<1>u. UNCHANGED <<rx_events, frames, thread>>
  BY DEF TaskStep, TaskListens, Forward, TaskEnds, appVars, threadVars
<1>s. /\ rx_events \in Seq(Nat) /\ inbox \in Seq(Nat)
      /\ \A u \in Tasks : task[u].stream \in Seq(Nat)
  BY SequencesTyped
<1>1. CASE TaskListens(t)
  <2>1. inbox' = inbox
    BY <1>1 DEF TaskListens
  <2>2. \A u \in Tasks : task'[u].stream = task[u].stream \/ task'[u].stream = <<>>
    BY <1>1, ListeningTasks
  <2>3. \A u \in Fed' : u \in Fed
    BY <1>1, ListeningTasks
  <2>4. QED
    BY <1>u, <2>1, <2>2, <2>3, OrderKept
<1>2. CASE TaskEnds(t)
  <2>1. inbox' = inbox
    BY <1>2 DEF TaskEnds
  <2>2. /\ \A u \in Tasks : task'[u].stream = task[u].stream \/ task'[u].stream = <<>>
        /\ \A u \in Fed' : u \in Fed
    BY <1>2, EndingTasks
  <2>3. QED
    BY <1>u, <2>1, <2>2, OrderKept
<1>3. CASE Forward(t) /\ t \notin Fed
  <2>1. /\ inbox' = inbox
        /\ \A u \in Tasks : task'[u].stream = task[u].stream \/ task'[u].stream = <<>>
        /\ \A u \in Fed' : u \in Fed
    BY <1>3, ForwardingTasks
  <2>2. QED
    BY <1>u, <2>1, OrderKept
<1>4. CASE Forward(t) /\ t \in Fed
  <2>1. PICK s \in Seq(Nat) : s = task[t].stream
    BY <1>s
  <2>2. /\ \A u \in Tasks : u # t => task'[u] = task[u]
        /\ Fed' = Fed /\ s # <<>> /\ task'[t].stream = Tail(s)
        /\ inbox' = Append(inbox, Head(s))
    BY <1>4, <2>1, ForwardingTasks
  <2>3. Increasing(s) /\ Known(s) /\ Before(rx_events, s) /\ Before(inbox, s)
    BY <1>4, <2>1 DEF OrderInv
  <2>4. /\ Head(s) \in Nat /\ Tail(s) \in Seq(Nat) /\ 1 \in 1..Len(s) /\ Head(s) = s[1]
        /\ \A i \in 1..Len(Tail(s)) : i + 1 \in 1..Len(s) /\ Tail(s)[i] = s[i + 1]
        /\ Increasing(Tail(s)) /\ \A i \in 1..Len(Tail(s)) : Head(s) < Tail(s)[i]
    BY <2>2, <2>3, TailOrder
  <2>5. \A i \in 1..Len(inbox) : inbox[i] < Head(s)
    BY <2>3, <2>4 DEF Before
  <2>6. PICK new : new = Append(inbox, Head(s))
    OBVIOUS
  <2>7. /\ \A i \in 1..Len(new) : (i \in 1..Len(inbox) /\ new[i] = inbox[i]) \/ new[i] = Head(s)
        /\ Increasing(new)
    BY <1>s, <2>4, <2>5, <2>6, AppendOrder DEF OrderInv
  <2>8. Known(new) /\ Known(Tail(s))
    BY <2>3, <2>4, <2>7 DEF OrderInv, Known
  <2>9. /\ Before(rx_events, new) /\ Before(rx_events, Tail(s))
    BY <2>3, <2>4, <2>7 DEF OrderInv, Before
  <2>10. Before(new, Tail(s))
    BY <2>3, <2>4, <2>7 DEF Before
  <2>11. \A u \in Fed : u = t
    BY <1>4 DEF FedInv
  <2>12. (Increasing(rx_events) /\ Known(rx_events)
          /\ Increasing(inbox) /\ Known(inbox) /\ Before(rx_events, inbox))'
    BY <1>u, <2>2, <2>6, <2>7, <2>8, <2>9 DEF OrderInv, Known
  <2>13. \A u \in Tasks : (Increasing(task[u].stream) /\ Known(task[u].stream))'
    BY <1>u, <2>2, <2>4, <2>8 DEF OrderInv, Known
  <2>14. \A u \in Fed' : (Before(rx_events, task[u].stream) /\ Before(inbox, task[u].stream))'
    BY <1>u, <2>2, <2>6, <2>9, <2>10, <2>11
  <2>15. \A u \in Threads : Known(thread[u].batch)'
    BY <1>u DEF OrderInv, Known
  <2>16. QED
    BY <2>12, <2>13, <2>14, <2>15 DEF OrderInv
<1>5. QED
  BY <1>1, <1>2, <1>3, <1>4 DEF TaskStep

LEMMA OrderFrame ==
  ASSUME TypeInv, OrderInv, NEW k \in Kinds, FrameArrives(k)
  PROVE  OrderInv'
<1>u. UNCHANGED <<rx_events, inbox, thread>>
  BY DEF FrameArrives, appVars, threadVars
<1>s. /\ rx_events \in Seq(Nat) /\ inbox \in Seq(Nat) /\ Len(frames) \in Nat
      /\ \A u \in Tasks : task[u].stream \in Seq(Nat)
  BY SequencesTyped
<1>f. PICK f \in Nat : f = Len(frames) + 1 /\ f = Len(frames') /\ f \in 1..Len(frames')
  BY <1>s, ArrivingFrame
<1>k. ASSUME NEW s, Known(s)
      PROVE  Known(s)' /\ \A i \in 1..Len(s) : s[i] < f
  <2>1. \A i \in 1..Len(s) : s[i] \in 1..Len(frames)
    BY <1>k DEF Known
  <2>2. \A x \in 1..Len(frames) : x < f /\ x \in 1..Len(frames')
    BY <1>s, <1>f
  <2>3. QED
    BY <2>1, <2>2 DEF Known
<1>1. ASSUME NEW u \in Tasks, NEW q \in Seq(Nat), q = task[u].stream \/ q = Tail(task[u].stream),
             q # task[u].stream => task[u].stream # <<>>
      PROVE  /\ Increasing(q) /\ Known(q)
             /\ u \in Fed => Before(rx_events, q) /\ Before(inbox, q)
  <2>1. CASE q = task[u].stream
    BY <2>1 DEF OrderInv
  <2>2. CASE q # task[u].stream
    <3>1. PICK s \in Seq(Nat) : s = task[u].stream /\ s # <<>> /\ q = Tail(s)
      BY <1>s, <1>1, <2>2
    <3>2. /\ \A i \in 1..Len(q) : i + 1 \in 1..Len(s) /\ q[i] = s[i + 1]
          /\ Increasing(s) => Increasing(q)
      BY <3>1, TailOrder
    <3>3. Increasing(q) /\ Known(q)
      BY <3>1, <3>2 DEF OrderInv, Known
    <3>4. u \in Fed => Before(rx_events, q) /\ Before(inbox, q)
      BY <3>1, <3>2 DEF OrderInv, Before
    <3>5. QED
      BY <3>3, <3>4
  <2>3. QED
    BY <2>1, <2>2
<1>2. ASSUME NEW u \in Tasks
      PROVE  /\ (Increasing(task[u].stream) /\ Known(task[u].stream))'
             /\ u \in Fed => (Before(rx_events, task[u].stream) /\ Before(inbox, task[u].stream))'
  <2>1. CASE task'[u].stream = task[u].stream
    <3>1. PICK q : q = task[u].stream
      OBVIOUS
    <3>2. Known(q)'
      BY <1>k, <3>1 DEF OrderInv
    <3>3. Increasing(q) /\ (u \in Fed => Before(rx_events, q) /\ Before(inbox, q))
      BY <3>1 DEF OrderInv
    <3>4. QED
      BY <1>u, <2>1, <3>1, <3>2, <3>3 DEF Known
  <2>2. CASE task'[u].stream # task[u].stream
    <3>1. PICK q \in Seq(Nat) : /\ task'[u].stream = Append(q, f)
                                /\ q = task[u].stream \/ q = Tail(task[u].stream)
                                /\ q # task[u].stream => task[u].stream # <<>>
      <4>1. CASE task'[u].stream = Append(task[u].stream, f)
        BY <1>s, <4>1
      <4>2. CASE task[u].stream # <<>> /\ task'[u].stream = Append(Tail(task[u].stream), f)
        BY <1>s, <4>2, TailOrder
      <4>3. QED
        BY <1>f, <2>2, <4>1, <4>2, ArrivingFrame
    <3>2. /\ Increasing(q) /\ Known(q)
          /\ u \in Fed => Before(rx_events, q) /\ Before(inbox, q)
      BY <1>1, <3>1
    <3>3. Known(q)' /\ \A i \in 1..Len(q) : q[i] < f
      BY <1>k, <3>2
    <3>4. PICK new : new = Append(q, f)
      OBVIOUS
    <3>5. /\ \A i \in 1..Len(new) : (i \in 1..Len(q) /\ new[i] = q[i]) \/ new[i] = f
          /\ Increasing(new)
      BY <3>2, <3>3, <3>4, AppendOrder
    <3>6. Known(new)'
      BY <1>f, <3>3, <3>5 DEF Known
    <3>7. /\ \A i \in 1..Len(rx_events) : rx_events[i] < f
          /\ \A i \in 1..Len(inbox) : inbox[i] < f
      BY <1>k DEF OrderInv
    <3>8. u \in Fed => Before(rx_events, new) /\ Before(inbox, new)
      BY <3>2, <3>5, <3>7 DEF Before
    <3>9. QED
      BY <1>u, <3>1, <3>4, <3>5, <3>6, <3>8 DEF Known
  <2>3. QED
    BY <2>1, <2>2
<1>3. (Known(rx_events) /\ Known(inbox))' /\ \A t \in Threads : Known(thread[t].batch)'
  BY <1>u, <1>k DEF OrderInv, Known
<1>4. (Increasing(rx_events) /\ Increasing(inbox) /\ Before(rx_events, inbox))'
  BY <1>u DEF OrderInv
<1>5. Fed' = Fed /\ Fed \subseteq Tasks
  BY ArrivingFrame DEF Fed
<1>6. QED
  BY <1>2, <1>3, <1>4, <1>5 DEF OrderInv

LEMMA OrderStep ==
  ASSUME TypeInv, BusyInv, FedInv, OrderInv, Next
  PROVE  OrderInv'
<1>1. CASE WorkerStep \/ StatusStep
  <2>1. UNCHANGED <<rx_events, frames, inbox, task>>
    BY <1>1 DEF WorkerStep, WorkerTake, WorkerAnswer, StatusStep, StatusStarts, StatusSets,
     appVars, streamVars
  <2>2. Fed' = Fed /\ \A t \in Threads : thread'[t].batch = thread[t].batch
    BY <1>1, <2>1, WorkerMoves DEF Fed, SameWork
  <2>3. QED
    BY <2>1, <2>2, OrderKept
<1>2. QED
  BY <1>1, OrderUi, OrderPresses, OrderThreads, OrderTasks, OrderFrame DEF Next

--------------------------------------------------------------------------------
(* What a monitor has echoed and what it has still to see *)

LEMMA MonitorInit == Init => MonitorInv
<1> SUFFICES ASSUME Init, NEW t \in Monitors PROVE EchoedInOrder(t) /\ UnseenAhead(t)
  BY DEF MonitorInv
<1>1. thread[t].batch = <<>> /\ \A f \in Frames : thread[t].echoed[f] = 0
  BY DEF Init, NoThread, Threads
<1>2. Fed = {} /\ rx_events = <<>> /\ inbox = <<>>
  BY DEF Init, NoTask, Fed
<1>3. QED
  BY <1>1, <1>2, EmptyOrder DEF EchoedInOrder, UnseenAhead, UnseenBy

(* A step that leaves the monitor and brings it no new event.               *)
LEMMA MonitorKept ==
  ASSUME NEW t \in Monitors, EchoedInOrder(t), UnseenAhead(t), SameWork(t),
         UNCHANGED frames,
         rx_events' = rx_events \/ rx_events' = <<>>,
         inbox' = inbox \/ inbox' = <<>>,
         \A u \in Fed' : task'[u].stream = <<>> \/ (u \in Fed /\ task'[u].stream = task[u].stream)
  PROVE  EchoedInOrder(t)' /\ UnseenAhead(t)'
<1>1. EchoedInOrder(t)'
  BY DEF EchoedInOrder, SameWork, Increasing
<1>2. \A x : UnseenBy(thread[t], x) => UnseenBy(thread'[t], x)
  BY DEF UnseenBy, SameWork
<1>3. \A i \in 1..Len(rx_events') :
        i > thread'[t].last_index + Len(thread'[t].batch) => UnseenBy(thread'[t], rx_events'[i])
  <2>1. CASE rx_events' = rx_events
    BY <1>2, <2>1 DEF UnseenAhead, SameWork
  <2>2. CASE rx_events' = <<>>
    BY <2>2
  <2>3. QED
    BY <2>1, <2>2
<1>4. \A i \in 1..Len(inbox') : UnseenBy(thread'[t], inbox'[i])
  <2>1. CASE inbox' = inbox
    BY <1>2, <2>1 DEF UnseenAhead
  <2>2. CASE inbox' = <<>>
    BY <2>2
  <2>3. QED
    BY <2>1, <2>2
<1>5. ASSUME NEW u \in Fed', NEW i \in 1..Len(task'[u].stream)
      PROVE  UnseenBy(thread'[t], task'[u].stream[i])
  <2>1. u \in Fed /\ task'[u].stream = task[u].stream
    BY <1>5
  <2>2. QED
    BY <1>2, <1>5, <2>1 DEF UnseenAhead
<1>6. UnseenAhead(t)'
  BY <1>3, <1>4, <1>5 DEF UnseenAhead
<1>7. QED
  BY <1>1, <1>6

LEMMA MonitorUi ==
  ASSUME TypeInv, FedInv, OrderInv, UiStep, NEW t \in Monitors, EchoedInOrder(t), UnseenAhead(t)
  PROVE  EchoedInOrder(t)' /\ UnseenAhead(t)'
<1>s. rx_events \in Seq(Nat) /\ inbox \in Seq(Nat)
  BY SequencesTyped
<1>m. task' = task => Fed' = Fed
  BY DEF Fed
<1>w. UNCHANGED <<frames, thread>> /\ SameWork(t)
  BY DEF UiStep, Drain, AutoStart, StartReceiving, Subscribe, SubscribeNetwork, SetServerAddr,
     LockForInfo, GetDeviceInfo, LockForConfigure, ConfigureRadio, streamVars, threadVars, SameWork
<1>1. CASE Drain
  <2>1. /\ rx_events' = Trimmed(rx_events \o inbox) /\ inbox' = <<>> /\ UNCHANGED task
    BY <1>1 DEF Drain
  <2>2. KeptOf(rx_events', rx_events, inbox)
    <3>1. PICK new : new = Trimmed(rx_events \o inbox)
      OBVIOUS
    <3>2. KeptOf(new, rx_events, inbox)
      BY <1>s, <3>1, KeptEvents
    <3>3. QED
      BY <2>1, <3>1, <3>2
  <2>3. ASSUME NEW i \in 1..Len(rx_events'), i > thread[t].last_index + Len(thread[t].batch)
        PROVE  UnseenBy(thread[t], rx_events'[i])
    <3>1. CASE \E j \in 1..Len(rx_events) : j >= i /\ rx_events'[i] = rx_events[j]
      <4>1. PICK j \in 1..Len(rx_events) : j >= i /\ rx_events'[i] = rx_events[j]
        BY <3>1
      <4>2. thread[t].last_index \in Nat /\ Len(thread[t].batch) \in Nat
        BY SequencesTyped, LenProperties DEF Threads
      <4>3. j > thread[t].last_index + Len(thread[t].batch)
        BY <2>3, <4>1, <4>2
      <4>4. QED
        BY <4>1, <4>3 DEF UnseenAhead
    <3>2. CASE \E j \in 1..Len(inbox) : rx_events'[i] = inbox[j]
      BY <3>2 DEF UnseenAhead
    <3>3. QED
      BY <2>2, <2>3, <3>1, <3>2 DEF KeptOf
  <2>4. EchoedInOrder(t)'
    BY <1>w DEF EchoedInOrder
  <2>5. UnseenAhead(t)'
    BY <1>w, <1>m, <2>1, <2>3 DEF UnseenAhead
  <2>6. QED
    BY <2>4, <2>5
<1>2. CASE Subscribe
  <2>1. UNCHANGED <<rx_events, inbox>>
    BY <1>2 DEF Subscribe, appVars
  <2>2. \A u \in Fed' : task'[u].stream = <<>> \/ (u \in Fed /\ task'[u].stream = task[u].stream)
    <3>1. CASE rx_started
      <4>1. UNCHANGED task
        BY <1>2, <3>1, SubscribedTasks
      <4>2. QED
        BY <1>m, <4>1
    <3>2. CASE ~rx_started
      <4>1. PICK v \in Tasks : /\ Fed' = Fed \cup {v} /\ task'[v].stream = <<>>
                               /\ \A u \in Tasks : u # v => task'[u] = task[u]
        BY <1>2, <3>2, SubscribedTasks
      <4>2. ASSUME NEW u \in Fed', u # v
            PROVE  u \in Fed /\ task'[u].stream = task[u].stream
        <5>1. u \in Fed /\ u \in Tasks
          BY <4>1, <4>2 DEF Fed
        <5>2. QED
          BY <4>1, <4>2, <5>1
      <4>3. SUFFICES ASSUME NEW u \in Fed'
                     PROVE  task'[u].stream = <<>> \/ (u \in Fed /\ task'[u].stream = task[u].stream)
        OBVIOUS
      <4>4. CASE u = v
        BY <4>1, <4>4
      <4>5. CASE u # v
        BY <4>2, <4>5
      <4>6. QED
        BY <4>4, <4>5
    <3>3. QED
      BY <3>1, <3>2
  <2>3. QED
    BY <1>w, <2>1, <2>2, MonitorKept
<1>3. CASE SetServerAddr
  <2>1. UNCHANGED <<rx_events, inbox>>
    BY <1>3 DEF SetServerAddr, appVars
  <2>2. \A u \in Fed' : u \in Fed /\ task'[u].stream = task[u].stream
    BY <1>3, AddressedTasks DEF Fed
  <2>3. QED
    BY <1>w, <2>1, <2>2, MonitorKept
<1>4. CASE StartReceiving
  <2>1. UNCHANGED rx_events /\ (inbox' = inbox \/ inbox' = <<>>)
    BY <1>4 DEF StartReceiving, appVars
  <2>2. \A u \in Fed' : u \in Fed /\ task'[u].stream = task[u].stream
    BY <1>4, <1>m, UnfedTasks DEF StartReceiving, Fed
  <2>3. QED
    BY <1>w, <2>1, <2>2, MonitorKept
<1>5. CASE AutoStart \/ SubscribeNetwork \/ LockForInfo \/ GetDeviceInfo \/ LockForConfigure
           \/ ConfigureRadio
  <2>1. UNCHANGED <<rx_events, inbox, task>>
    BY <1>5 DEF AutoStart, SubscribeNetwork, LockForInfo, GetDeviceInfo, LockForConfigure,
       ConfigureRadio, appVars, streamVars
  <2>2. QED
    BY <1>w, <1>m, <2>1, MonitorKept
<1>6. QED
  BY <1>1, <1>2, <1>3, <1>4, <1>5 DEF UiStep

LEMMA MonitorPresses ==
  ASSUME TypeInv, OrderInv, Presses, NEW t \in Monitors, EchoedInOrder(t), UnseenAhead(t)
  PROVE  EchoedInOrder(t)' /\ UnseenAhead(t)'
<1>m. task' = task => Fed' = Fed
  BY DEF Fed
<1>f. UNCHANGED frames
  BY DEF Presses, PressConnect, PressDisconnect, SelectModule, PressConfigure, TransmitOnce,
     Clear, StopIperf, StartIperf, streamVars
<1>1. CASE PressDisconnect \/ SelectModule
  <2>1. UNCHANGED <<rx_events, thread>> /\ inbox' = <<>> /\ task' = Unfed
    BY <1>1 DEF PressDisconnect, SelectModule, threadVars
  <2>2. QED
    BY <1>f, <2>1, UnfedTasks, MonitorKept DEF SameWork
<1>2. ASSUME NEW u \in Threads, StartIperf(u) PROVE EchoedInOrder(t)' /\ UnseenAhead(t)'
  <2>1. UNCHANGED <<rx_events, inbox, task>>
    BY <1>2 DEF StartIperf, streamVars
  <2>2. CASE u = t
    <3>1. thread'[t].batch = <<>> /\ \A f \in Frames : thread'[t].echoed[f] = 0
      BY <1>2, <2>2, StartMoves
    <3>2. EchoedInOrder(t)'
      BY <3>1, EmptyOrder DEF EchoedInOrder, Increasing
    <3>3. \A x : UnseenBy(thread'[t], x)
      BY <3>1 DEF UnseenBy
    <3>4. QED
      BY <3>2, <3>3 DEF UnseenAhead
  <2>3. CASE u # t
    <3>1. thread'[t] = thread[t]
      BY <1>2, <2>3, StartMoves DEF Others, Threads
    <3>2. QED
      BY <1>f, <1>m, <2>1, <3>1, MonitorKept DEF SameWork
  <2>4. QED
    BY <2>2, <2>3
<1>3. CASE Clear \/ PressConnect \/ PressConfigure \/ TransmitOnce
           \/ \E k \in DOMAIN running : StopIperf(k)
  <2>1. UNCHANGED <<inbox, task, thread>> /\ (rx_events' = rx_events \/ rx_events' = <<>>)
    BY <1>3 DEF Clear, PressConnect, PressConfigure, TransmitOnce, StopIperf, appVars, streamVars,
       threadVars
  <2>2. QED
    BY <1>f, <1>m, <2>1, MonitorKept DEF SameWork
<1>4. QED
  BY <1>1, <1>2, <1>3 DEF Presses

(* One event of the batch is done with, and counted in last_index.          *)
LEMMA BatchShrinks ==
  ASSUME TypeInv, NEW t \in Monitors, UnseenAhead(t), EchoedInOrder(t),
         UNCHANGED <<rx_events, inbox, task, frames>>,
         thread[t].batch # <<>>, thread'[t].batch = Tail(thread[t].batch),
         thread'[t].last_index = thread[t].last_index + 1,
         \A f \in Frames : thread'[t].echoed[f] > 0 =>
            thread[t].echoed[f] > 0 \/ f = Head(thread[t].batch)
  PROVE  UnseenAhead(t)' /\ Increasing(thread'[t].batch)
<1>t. t \in Threads
  BY DEF Threads
<1>1. PICK s \in Seq(Nat) : s = thread[t].batch
  BY <1>t, SequencesTyped
<1>2. PICK n \in Nat : n = thread[t].last_index
  BY <1>t, SequencesTyped
<1>3. /\ 1 \in 1..Len(s) /\ Head(s) = s[1] /\ Len(Tail(s)) = Len(s) - 1 /\ Len(s) \in Nat
      /\ \A i \in 1..Len(Tail(s)) : i + 1 \in 1..Len(s) /\ Tail(s)[i] = s[i + 1]
      /\ Increasing(s) => Increasing(Tail(s))
  BY <1>1, TailOrder, LenProperties
<1>4. n + 1 + Len(Tail(s)) = n + Len(s)
  BY <1>2, <1>3
<1>5. \A x : UnseenBy(thread[t], x) => UnseenBy(thread'[t], x)
  BY <1>1, <1>3 DEF UnseenBy
<1>6. Fed' = Fed
  BY DEF Fed
<1>7. UnseenAhead(t)'
  BY <1>1, <1>2, <1>4, <1>5, <1>6 DEF UnseenAhead
<1>8. QED
  BY <1>1, <1>3, <1>7 DEF EchoedInOrder

LEMMA MonitorTakes ==
  ASSUME TypeInv, BusyInv, OrderInv, NEW t \in Monitors, EchoedInOrder(t), UnseenAhead(t),
         TakesBatch(t), UNCHANGED <<rx_events, inbox, task, frames>>
  PROVE  EchoedInOrder(t)' /\ UnseenAhead(t)'
<1>t. t \in Threads
  BY DEF Threads
<1>1. thread[t].batch = <<>>
  BY <1>t DEF TakesBatch, Goes, BusyInv
<1>2. PICK n \in Nat : n = thread[t].last_index
  BY <1>t, SequencesTyped
<1>3. PICK b : b = SubSeq(rx_events, n + 1, Len(rx_events))
  OBVIOUS
<1>4. /\ n < Len(rx_events) /\ thread'[t].batch = b /\ thread'[t].last_index = n
      /\ thread'[t].echoed = thread[t].echoed
  BY <1>2, <1>3 DEF TakesBatch
<1>5. /\ b \in Seq(Nat) /\ Len(b) = Len(rx_events) - n
      /\ \A i \in 1..Len(b) : n + i \in 1..Len(rx_events) /\ n + i > n /\ b[i] = rx_events[n + i]
      /\ Increasing(b)
  <2>1. rx_events \in Seq(Nat) /\ n < Len(rx_events) /\ Increasing(rx_events)
    BY <1>4, SequencesTyped DEF OrderInv
  <2>2. b \in Seq(Nat) /\ Len(b) = Len(rx_events) - n
    BY <1>3, <2>1, SubSeqOrder
  <2>a. Increasing(b)
    <3>1. \A i, j \in 1..Len(b) : i < j => n + i < n + j
      BY <1>2, <2>1, <2>2
    <3>2. \A i \in 1..Len(b) : n + i \in 1..Len(rx_events) /\ b[i] = rx_events[n + i]
      BY <1>3, <2>1, SubSeqOrder
    <3>3. QED
      BY <2>1, <3>1, <3>2 DEF Increasing
  <2>3. \A i \in 1..Len(b) : n + i \in 1..Len(rx_events) /\ n + i > n /\ b[i] = rx_events[n + i]
    BY <1>3, <2>1, SubSeqOrder
  <2>4. QED
    BY <2>2, <2>a, <2>3
<1>6. Len(rx_events) \in Nat /\ n + Len(b) = Len(rx_events) /\ n + 0 = n
  <2>1. Len(rx_events) \in Nat
    BY SequencesTyped, LenProperties
  <2>2. QED
    BY <1>2, <1>5, <2>1
<1>7. \A i \in 1..Len(b) : UnseenBy(thread[t], b[i])
  <2>1. \A j \in 1..Len(rx_events) : j > n => UnseenBy(thread[t], rx_events[j])
    BY <1>1, <1>2, <1>6 DEF UnseenAhead
  <2>2. QED
    BY <1>5, <2>1
<1>8. EchoedInOrder(t)'
  BY <1>4, <1>5, <1>7 DEF EchoedInOrder, UnseenBy, Increasing
<1>9. Fed' = Fed
  BY DEF Fed
<1>10. ASSUME NEW x, UnseenBy(thread[t], x), \A j \in 1..Len(rx_events) : rx_events[j] < x
       PROVE  UnseenBy(thread'[t], x)
  BY <1>4, <1>5, <1>10 DEF UnseenBy
<1>11. \A i \in 1..Len(inbox) : UnseenBy(thread'[t], inbox[i])
  BY <1>10 DEF UnseenAhead, OrderInv, Before
<1>12. \A u \in Fed : \A i \in 1..Len(task[u].stream) : UnseenBy(thread'[t], task[u].stream[i])
  BY <1>10 DEF UnseenAhead, OrderInv, Before
<1>13. \A i \in 1..Len(rx_events) : ~(i > n + Len(b))
  BY <1>6
<1>14. UnseenAhead(t)'
  BY <1>4, <1>9, <1>11, <1>12, <1>13 DEF UnseenAhead
<1>15. QED
  BY <1>8, <1>14

LEMMA MonitorSkips ==
  ASSUME TypeInv, OrderInv, NoForeign, NEW t \in Monitors, EchoedInOrder(t), UnseenAhead(t),
         Skips(t), UNCHANGED <<rx_events, inbox, task, frames>>
  PROVE  EchoedInOrder(t)' /\ UnseenAhead(t)'
<1>t. t \in Threads
  BY DEF Threads
<1>1. PICK s \in Seq(Nat) : s = thread[t].batch /\ s # <<>>
  BY <1>t, SequencesTyped DEF Skips
<1>2. /\ 1 \in 1..Len(s) /\ Head(s) = s[1]
      /\ \A i \in 1..Len(Tail(s)) : i + 1 \in 1..Len(s) /\ Tail(s)[i] = s[i + 1]
      /\ Increasing(s) => Increasing(Tail(s))
  BY <1>1, TailOrder
<1>3. Head(s) \in DOMAIN frames
  <2>1. DOMAIN frames = 1..Len(frames)
    BY LenProperties DEF TypeInv, StreamType
  <2>2. QED
    BY <1>1, <1>2, <1>t, <2>1 DEF OrderInv, Known
<1>4. /\ thread'[t].batch = Tail(s) /\ thread'[t].last_index = thread[t].last_index + 1
      /\ thread'[t].echoed = thread[t].echoed
  BY <1>1, <1>3 DEF Skips, NoForeign
<1>5. UnseenAhead(t)' /\ Increasing(thread'[t].batch)
  BY <1>1, <1>4, BatchShrinks
<1>6. EchoedInOrder(t)'
  <2>1. \A f \in Frames : thread'[t].echoed[f] <= 1
    BY <1>4 DEF EchoedInOrder
  <2>2. \A f \in Frames : thread'[t].echoed[f] > 0 =>
          f <= Len(frames) /\ \A i \in 1..Len(Tail(s)) : f < Tail(s)[i]
    BY <1>1, <1>2, <1>4 DEF EchoedInOrder
  <2>3. QED
    BY <1>4, <1>5, <2>1, <2>2 DEF EchoedInOrder, Increasing
<1>7. QED
  BY <1>5, <1>6

LEMMA MonitorEchoes ==
  ASSUME TypeInv, BusyInv, OrderInv, NEW t \in Monitors, EchoedInOrder(t), UnseenAhead(t),
         Echoes(t), UNCHANGED <<rx_events, inbox, task, frames>>
  PROVE  EchoedInOrder(t)' /\ UnseenAhead(t)'
<1>t. t \in Threads
  BY DEF Threads
<1>1. PICK s \in Seq(Nat) : s = thread[t].batch /\ s # <<>>
  BY <1>t, SequencesTyped DEF Echoes, BusyInv, Goes
<1>2. PICK h \in Nat : h = Head(s)
  BY <1>1, TailOrder
<1>3. /\ 1 \in 1..Len(s) /\ h = s[1]
      /\ \A i \in 1..Len(Tail(s)) : i + 1 \in 1..Len(s) /\ Tail(s)[i] = s[i + 1]
      /\ \A i \in 1..Len(Tail(s)) : h < Tail(s)[i]
  BY <1>1, <1>2, TailOrder DEF EchoedInOrder
<1>4. PICK e \in [Frames -> Nat] : e = thread[t].echoed
  BY <1>t, SequencesTyped
<1>5. /\ thread'[t].batch = Tail(s) /\ thread'[t].last_index = thread[t].last_index + 1
      /\ thread'[t].echoed = [e EXCEPT ![h] = e[h] + 1]
  BY <1>1, <1>2, <1>4 DEF Echoes
<1>6. \A f \in Frames : thread'[t].echoed[f] = IF f = h THEN e[f] + 1 ELSE e[f]
  BY <1>5
<1>7. UnseenAhead(t)' /\ Increasing(thread'[t].batch)
  <2>1. \A f \in Frames : thread'[t].echoed[f] > 0 => e[f] > 0 \/ f = h
    BY <1>6
  <2>2. QED
    BY <1>1, <1>2, <1>4, <1>5, <2>1, BatchShrinks
<1>8. EchoedInOrder(t)'
  <2>1. h \in 1..Len(frames)
    BY <1>1, <1>3, <1>t DEF OrderInv, Known
  <2>2. ~(e[h] > 0) \/ h \notin Frames
    <3>1. \A f \in Frames : e[f] > 0 => f < s[1]
      BY <1>1, <1>3, <1>4 DEF EchoedInOrder
    <3>2. QED
      BY <1>2, <1>3, <3>1
  <2>3. \A f \in Frames : e[f] \in Nat /\ e[f] <= 1
    BY <1>4 DEF EchoedInOrder
  <2>4. \A f \in Frames : thread'[t].echoed[f] <= 1
    BY <1>6, <2>2, <2>3
  <2>5. \A f \in Frames : e[f] > 0 =>
          f <= Len(frames) /\ \A i \in 1..Len(Tail(s)) : f < Tail(s)[i]
    BY <1>1, <1>3, <1>4 DEF EchoedInOrder
  <2>6. h <= Len(frames)
    BY <1>2, <2>1
  <2>7. \A f \in Frames : thread'[t].echoed[f] > 0 =>
          f <= Len(frames) /\ \A i \in 1..Len(Tail(s)) : f < Tail(s)[i]
    BY <1>3, <1>6, <2>5, <2>6
  <2>8. QED
    BY <1>5, <1>7, <2>4, <2>7 DEF EchoedInOrder, Increasing
<1>9. QED
  BY <1>7, <1>8

LEMMA MonitorThreads ==
  ASSUME TypeInv, BusyInv, OrderInv, NoForeign, NEW t \in Monitors,
         EchoedInOrder(t), UnseenAhead(t), NEW u \in Threads, ThreadStep(u)
  PROVE  EchoedInOrder(t)' /\ UnseenAhead(t)'
<1>1. Moves(u) /\ Others(u) /\ UNCHANGED <<rx_events, inbox, task, frames>>
  BY ThreadMoves DEF streamVars
<1>2. ASSUME SameWork(t) PROVE EchoedInOrder(t)' /\ UnseenAhead(t)'
  <2>1. Fed' = Fed
    BY <1>1 DEF Fed
  <2>2. QED
    BY <1>1, <1>2, <2>1, MonitorKept
<1>3. CASE u # t
  <2>1. thread'[t] = thread[t]
    BY <1>1, <1>3 DEF Others, Threads
  <2>2. QED
    BY <1>2, <2>1 DEF SameWork
<1>4. CASE u = t
  <2>1. SameWork(t) \/ TakesBatch(t) \/ Skips(t) \/ Echoes(t)
    BY <1>1, <1>4 DEF Moves
  <2>2. QED
    BY <1>1, <1>2, <2>1, MonitorTakes, MonitorSkips, MonitorEchoes
<1>5. QED
  BY <1>3, <1>4

LEMMA MonitorTasks ==
  ASSUME TypeInv, FedInv, OrderInv, NEW t \in Monitors, EchoedInOrder(t), UnseenAhead(t),
         NEW u \in Tasks, TaskStep(u)
  PROVE  EchoedInOrder(t)' /\ UnseenAhead(t)'
<1>u. UNCHANGED <<rx_events, frames, thread>> /\ SameWork(t)
  BY DEF TaskStep, TaskListens, Forward, TaskEnds, appVars, threadVars, SameWork
<1>1. CASE TaskListens(u) \/ TaskEnds(u) \/ (Forward(u) /\ u \notin Fed)
  <2>1. inbox' = inbox
    BY <1>1, ForwardingTasks DEF TaskListens, TaskEnds
  <2>2. /\ \A v \in Fed' : v \in Fed
        /\ \A v \in Tasks : v # u => task'[v] = task[v]
        /\ task'[u].stream = task[u].stream \/ task'[u].stream = <<>>
    BY <1>1, ListeningTasks, EndingTasks, ForwardingTasks
  <2>3. \A v \in Fed' : task'[v].stream = <<>> \/ (v \in Fed /\ task'[v].stream = task[v].stream)
    <3>1. SUFFICES ASSUME NEW v \in Fed'
                   PROVE  task'[v].stream = <<>> \/ (v \in Fed /\ task'[v].stream = task[v].stream)
      OBVIOUS
    <3>2. v \in Fed /\ v \in Tasks
      BY <2>2 DEF Fed
    <3>3. QED
      BY <2>2, <3>2
  <2>4. QED
    BY <1>u, <2>1, <2>3, MonitorKept
<1>2. CASE Forward(u) /\ u \in Fed
  <2>1. PICK s \in Seq(Nat) : s = task[u].stream
    BY SequencesTyped
  <2>2. /\ \A v \in Tasks : v # u => task'[v] = task[v]
        /\ Fed' = Fed /\ s # <<>> /\ task'[u].stream = Tail(s)
        /\ inbox' = Append(inbox, Head(s))
    BY <1>2, <2>1, ForwardingTasks
  <2>3. /\ Head(s) \in Nat /\ 1 \in 1..Len(s) /\ Head(s) = s[1]
        /\ \A i \in 1..Len(Tail(s)) : i + 1 \in 1..Len(s) /\ Tail(s)[i] = s[i + 1]
    BY <2>2, TailOrder
  <2>4. \A i \in 1..Len(s) : UnseenBy(thread[t], s[i])
    BY <1>2, <2>1 DEF UnseenAhead
  <2>5. \A v \in Fed : v = u
    BY <1>2 DEF FedInv
  <2>6. PICK new : new = Append(inbox, Head(s))
    OBVIOUS
  <2>7. \A i \in 1..Len(new) : (i \in 1..Len(inbox) /\ new[i] = inbox[i]) \/ new[i] = Head(s)
    <3>1. \A i \in 1..Len(inbox) : inbox[i] < Head(s)
      BY <1>2, <2>1, <2>3 DEF OrderInv, Before
    <3>2. inbox \in Seq(Nat)
      BY SequencesTyped
    <3>3. QED
      BY <2>3, <2>6, <3>1, <3>2, AppendOrder
  <2>8. \A i \in 1..Len(new) : UnseenBy(thread[t], new[i])
    BY <2>3, <2>4, <2>7 DEF UnseenAhead
  <2>9. \A i \in 1..Len(Tail(s)) : UnseenBy(thread[t], Tail(s)[i])
    BY <2>3, <2>4
  <2>10. UnseenAhead(t)'
    BY <1>u, <2>2, <2>5, <2>6, <2>8, <2>9 DEF UnseenAhead
  <2>11. EchoedInOrder(t)'
    BY <1>u DEF EchoedInOrder
  <2>12. QED
    BY <2>10, <2>11
<1>3. QED
  BY <1>1, <1>2 DEF TaskStep

LEMMA MonitorFrame ==
  ASSUME TypeInv, OrderInv, NEW t \in Monitors, EchoedInOrder(t), UnseenAhead(t),
         NEW k \in Kinds, FrameArrives(k)
  PROVE  EchoedInOrder(t)' /\ UnseenAhead(t)'
<1>t. t \in Threads
  BY DEF Threads
<1>u. UNCHANGED <<rx_events, inbox, thread>>
  BY DEF FrameArrives, appVars, threadVars
<1>s. Len(frames) \in Nat /\ Frames \subseteq Nat
  BY SequencesTyped, Bounds DEF Frames
<1>f. PICK f \in Nat : f = Len(frames) + 1 /\ Len(frames') = f
  BY <1>s, ArrivingFrame
<1>1. UnseenBy(thread[t], f)
  <2>1. \A i \in 1..Len(thread[t].batch) : thread[t].batch[i] < f
    BY <1>f, <1>s, <1>t DEF OrderInv, Known
  <2>2. ASSUME NEW g \in Frames, thread[t].echoed[g] > 0
        PROVE  g < f
    <3>1. g <= Len(frames) /\ g \in Nat
      BY <1>s, <2>2 DEF EchoedInOrder
    <3>2. QED
      BY <1>f, <1>s, <3>1
  <2>3. QED
    BY <2>1, <2>2 DEF UnseenBy
<1>2. EchoedInOrder(t)'
  <2>1. \A g \in Frames : g <= Len(frames) => g <= Len(frames')
    BY <1>f, <1>s
  <2>2. QED
    BY <1>u, <2>1 DEF EchoedInOrder
<1>3. ASSUME NEW v \in Fed
      PROVE  \A i \in 1..Len(task'[v].stream) : UnseenBy(thread[t], task'[v].stream[i])
  <2>1. v \in Tasks /\ task[v].stream \in Seq(Nat)
    BY SequencesTyped DEF Fed
  <2>2. ASSUME NEW q \in Seq(Nat), \A i \in 1..Len(q) : UnseenBy(thread[t], q[i]),
               task'[v].stream = Append(q, f)
        PROVE  \A i \in 1..Len(task'[v].stream) : UnseenBy(thread[t], task'[v].stream[i])
    <3>1. /\ Len(Append(q, f)) = Len(q) + 1 /\ Len(q) \in Nat
          /\ \A i \in 1..Len(q) : Append(q, f)[i] = q[i]
          /\ Append(q, f)[Len(q) + 1] = f
      BY AppendProperties, LenProperties
    <3>2. \A i \in 1..Len(q) + 1 : i \in 1..Len(q) \/ i = Len(q) + 1
      BY <3>1
    <3>3. QED
      BY <1>1, <2>2, <3>1, <3>2
  <2>3. CASE task'[v].stream = task[v].stream
    BY <2>3 DEF UnseenAhead
  <2>4. CASE task'[v].stream = Append(task[v].stream, f)
    BY <2>1, <2>2, <2>4 DEF UnseenAhead
  <2>5. CASE task[v].stream # <<>> /\ task'[v].stream = Append(Tail(task[v].stream), f)
    <3>1. PICK s \in Seq(Nat) : s = task[v].stream /\ s # <<>>
      BY <2>1, <2>5
    <3>2. /\ Tail(s) \in Seq(Nat)
          /\ \A i \in 1..Len(Tail(s)) : i + 1 \in 1..Len(s) /\ Tail(s)[i] = s[i + 1]
      BY <3>1, TailOrder
    <3>3. \A i \in 1..Len(Tail(s)) : UnseenBy(thread[t], Tail(s)[i])
      BY <3>1, <3>2 DEF UnseenAhead
    <3>4. QED
      BY <2>2, <2>5, <3>1, <3>2, <3>3
  <2>6. QED
    BY <1>f, <2>1, <2>3, <2>4, <2>5, ArrivingFrame
<1>4. Fed' = Fed
  BY ArrivingFrame
<1>5. UnseenAhead(t)'
  BY <1>u, <1>3, <1>4 DEF UnseenAhead
<1>6. QED
  BY <1>2, <1>5

LEMMA MonitorStep ==
  ASSUME TypeInv, BusyInv, FedInv, OrderInv, MonitorInv, Next
  PROVE  MonitorInv'
<1> SUFFICES ASSUME NoForeign', NEW t \in Monitors
             PROVE  EchoedInOrder(t)' /\ UnseenAhead(t)'
  BY DEF MonitorInv
<1>1. NoForeign
  <2>1. CASE frames' = frames
    BY <2>1 DEF NoForeign
  <2>2. ASSUME NEW k \in Kinds, FrameArrives(k) PROVE NoForeign
    <3>1. frames \in Seq(Kinds) /\ frames' = Append(frames, k)
      BY <2>2, ArrivingFrame DEF TypeInv, StreamType
    <3>2. /\ DOMAIN frames = 1..Len(frames) /\ DOMAIN frames' = 1..Len(frames) + 1
          /\ Len(frames) \in Nat /\ \A i \in 1..Len(frames) : frames'[i] = frames[i]
      BY <3>1, AppendProperties, LenProperties
    <3>3. QED
      BY <3>2 DEF NoForeign
  <2>3. QED
    BY <2>1, <2>2 DEF Next, UiStep, Drain, AutoStart, StartReceiving, Subscribe, SubscribeNetwork,
       SetServerAddr, LockForInfo, GetDeviceInfo, LockForConfigure, ConfigureRadio,
       Presses, PressConnect, PressDisconnect, SelectModule, PressConfigure, TransmitOnce, Clear,
       StopIperf, StartIperf, WorkerStep, WorkerTake, WorkerAnswer, StatusStep, StatusStarts, StatusSets,
       ThreadStep, Check, Finish,
       SkipEvent, BatchDone, Send, AnswerOk, AnswerFails, Fail, TaskStep, TaskListens, Forward,
       TaskEnds, streamVars
<1>2. EchoedInOrder(t) /\ UnseenAhead(t)
  BY <1>1 DEF MonitorInv
<1>3. CASE WorkerStep \/ StatusStep
  <2>1. UNCHANGED <<rx_events, frames, inbox, task>>
    BY <1>3 DEF WorkerStep, WorkerTake, WorkerAnswer, StatusStep, StatusStarts, StatusSets,
     appVars, streamVars
  <2>2. Fed' = Fed /\ SameWork(t)
    BY <1>3, <2>1, WorkerMoves DEF Fed, Threads
  <2>3. QED
    BY <1>2, <2>1, <2>2, MonitorKept
<1>4. QED
  BY <1>1, <1>2, <1>3, MonitorUi, MonitorPresses, MonitorThreads, MonitorTasks, MonitorFrame DEF Next

--------------------------------------------------------------------------------
(* The inductive invariant: TypeInv and BusyInv type the steps, FedInv finds*)
(* the task that feeds the window, and the rest are about its frames.       *)
Inv == TypeInv /\ BusyInv /\ FedInv /\ OrderInv /\ MonitorInv /\ RunningHasThread

(* In every state that the window, the iperf threads, the worker and the    *)
(* receive tasks reach together (ui.rs, iperf.rs, grpc_client.rs).          *)
THEOREM Invariance == Spec => []Inv
<1>1. Init => Inv
  <2>1. Init => BusyInv /\ RunningHasThread
    BY DEF Init, BusyInv, RunningHasThread, NoThread
  <2>2. QED
    BY <2>1, TypeInit, FedInit, OrderInit, MonitorInit DEF Inv
<1>2. Inv /\ [Next]_vars => Inv'
  <2> SUFFICES ASSUME Inv, [Next]_vars PROVE Inv'
    OBVIOUS
  <2>1. CASE Next
    BY <2>1, LockTypeStep, AppTypeStep, StreamTypeStep, ThreadTypeStep, BusyStep, FedStep, OrderStep,
       MonitorStep, RunningStep DEF Inv, TypeInv
  <2>2. CASE UNCHANGED vars
    <3>1. UNCHANGED <<owner, ui, presses, connected, active, running, rx_events, receiver, inbox,
                      radio, rx_started, task, thread, queue, worker, status, frames,
                      switched, lagged>>
      BY <2>2 DEF vars, lockVars, appVars, streamVars, threadVars
    <3>2. TypeInv'
      BY <3>1 DEF Inv, TypeInv, LockType, AppType, StreamType, ThreadType
    <3>3. BusyInv' /\ RunningHasThread'
      BY <3>1 DEF Inv, BusyInv, RunningHasThread
    <3>4. FedInv'
      BY <3>1 DEF Inv, FedInv, Fed, Subscribed
    <3>5. OrderInv'
      BY <3>1 DEF Inv, OrderInv, Fed, Known
    <3>6. MonitorInv'
      BY <3>1 DEF Inv, MonitorInv, NoForeign, EchoedInOrder, UnseenAhead, Fed
    <3>7. QED
      BY <3>2, <3>3, <3>4, <3>5, <3>6 DEF Inv
  <2>3. QED
    BY <2>1, <2>2
<1>3. QED
  BY <1>1, <1>2, PTL DEF Spec

(* Every variable has its type, the list of events its bound, and a channel *)
(* that was dropped holds nothing.                                          *)
THEOREM TypeCorrect == Spec => []TypeOK
<1>1. Inv => TypeOK
  <2> SUFFICES ASSUME Inv PROVE TypeOK
    OBVIOUS
  <2>1. \A l \in DOMAIN owner : owner[l] \in {"free", "ui", "worker"} \cup Threads
    BY DEF Inv, TypeInv, LockType
  <2>2. \A t \in Tasks : task[t].at \in {"none", "spawned", "listening", "closing"}
    BY DEF Inv, TypeInv, StreamType, TaskRecord
  <2>3. \A t \in Threads :
          thread[t].at \in {"off", "checking", "sending", "echoing", "awaiting", "failed",
                            "finishing"}
    BY DEF Inv, TypeInv, ThreadType, ThreadRecord
  <2>4. QED
    BY <2>1, <2>2, <2>3 DEF Inv, TypeInv, LockType, AppType, StreamType, ThreadType, FedInv, TypeOK
<1>2. QED
  BY <1>1, Invariance, PTL

LEMMA OrderShown ==
  ASSUME TypeInv, FedInv, OrderInv
  PROVE  ShownOnceInOrder
<1>1. Cardinality({t \in Tasks : task[t].fed}) <= 1
  <2>1. CASE Fed = {}
    <3>1. Cardinality(Fed) = 0
      BY <2>1, FS_EmptySet
    <3>2. QED
      BY <3>1 DEF Fed
  <2>2. CASE Fed # {}
    <3>1. PICK t \in Fed : Fed = {t}
      BY <2>2 DEF FedInv
    <3>2. Cardinality(Fed) = 1
      BY <3>1, FS_Singleton
    <3>3. QED
      BY <3>2 DEF Fed
  <2>3. QED
    BY <2>1, <2>2
<1>2. ASSUME NEW t \in Tasks, task[t].fed, NEW all, all = rx_events \o inbox \o task[t].stream
      PROVE  \A i, j \in DOMAIN all : i < j => all[i] < all[j]
  <2>1. t \in Fed
    BY <1>2 DEF Fed
  <2>2. PICK s \in Seq(Nat) : s = task[t].stream
    BY SequencesTyped
  <2>3. PICK r \in Seq(Nat) : r = rx_events \o inbox
    BY SequencesTyped, ConcatProperties
  <2>4. Increasing(r)
    BY <2>3, SequencesTyped, ConcatOrder DEF OrderInv
  <2>5. Before(r, s)
    <3>1. \A i \in 1..Len(r) : \/ \E j \in 1..Len(rx_events) : r[i] = rx_events[j]
                               \/ \E j \in 1..Len(inbox) : r[i] = inbox[j]
      BY <2>3, SequencesTyped, ConcatMembers
    <3>2. QED
      BY <2>1, <2>2, <3>1 DEF OrderInv, Before
  <2>6. Increasing(s)
    BY <2>2 DEF OrderInv
  <2>7. Increasing(r \o s) /\ r \o s \in Seq(Nat)
    BY <2>4, <2>5, <2>6, ConcatOrder, ConcatProperties
  <2>8. Increasing(all) /\ all \in Seq(Nat)
    BY <1>2, <2>2, <2>3, <2>7
  <2>9. QED
    BY <2>8, LenProperties DEF Increasing
<1>3. QED
  BY <1>1, <1>2 DEF ShownOnceInOrder

(* However the user connects, switches, clears and starts the monitor:      *)
(* no frame is shown twice or out of order, and, while no foreign frame     *)
(* came, the monitor answers none twice.                                    *)
THEOREM FramesCountOnce == Spec => []FramesOnce
<1>1. Inv => ShownOnceInOrder
  BY OrderShown DEF Inv
<1>2. Inv => EchoedOnce
  BY DEF Inv, MonitorInv, EchoedInOrder, NoForeign, EchoedOnce
<1>3. Inv => FramesOnce
  BY <1>1, <1>2 DEF FramesOnce
<1>4. QED
  BY <1>3, Invariance, PTL

(* While the window says it receives, a live task feeds it, unless the      *)
(* module was switched on this connection or the task lagged.               *)
THEOREM ReceivingIsFed == Spec => []FedUnlessSwitched
<1>1. Inv => FedUnlessSwitched
  BY FedMeansFed DEF Inv
<1>2. QED
  BY <1>1, Invariance, PTL

(* An iperf that is said to run has a thread, however often it is stopped   *)
(* and started again.                                                       *)
THEOREM RunningIperfsHaveThreads == Spec => []RunningHasThread
<1>1. Inv => RunningHasThread
  BY DEF Inv
<1>2. QED
  BY <1>1, Invariance, PTL
================================================================================
