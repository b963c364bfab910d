# A verification project for kaonic-radio

kaonic-radio drives the RF215 transceivers of a small Linux computer and offers
them to programs on the network. A daemon (`kaonic-commd`) owns the radios; a
program talks to it over UDP (`kaonic-ctrl` over `kaonic-net`) or gRPC, sends
frames, and is sent every frame a radio receives. This directory holds TLA+
modules that model the code, TLC configurations that check them, and TLAPS
proofs. Paths below are relative to the root of the repository.

## The system

| part | state it keeps | operations | talks to |
|---|---|---|---|
| `kaonic-net` demuxer, packet, coder | none across calls | split a payload into at most R packets, pack and unpack a 22-byte header, LDPC (unused outside tests) | muxer, peer |
| `kaonic-net` muxer, network | table of Q slots of R packets, last update time per slot | multiplex, process, release_expired | `kaonic-ctrl/network.rs` gives it the wall clock |
| `kaonic-net` request | table of 16 requests: id, start time, timeout, responder | request, receive (of an answer) | client |
| `kaonic-ctrl` peer | one mpsc channel of messages to send, one broadcast channel of messages received, the registry of known clients with the time each was last seen | `serve`: a select over receiving, transmitting, cleanup every 30 s and cancellation | UDP socket, client, server |
| `kaonic-ctrl` client | the request table behind a mutex, a broadcast channel | `request` (waits for an answer or the timeout), `manage_responses` | peer, radio client |
| `kaonic-ctrl` radio | a broadcast channel of frames per subscriber, last activity | requests by kind, `listen_events`, `keepalive_task` | client |
| `kaonic-ctrl` server | none but its channels | `manage_requests`: serve a request, broadcast a frame | peer, handler |
| `kaonic-commd` radio server | per radio: the radio behind a mutex, statistics, a broadcast channel, a watch for interrupts | `manage_radio`, `manage_module_receive`, `manage_module_transmit`, `handle_message` | radio platform, server |
| `kaonic-commd` gRPC server | counters of its own | one handler per call, two streams | the same radios and channels |
| `kaonic-radio` platform | cached configuration and modulation, frame buffer, pins | set_config, set_modulation, set_accelerator, transmit, receive, update_event | RF215 driver |
| `radio-rf215` | interrupt bits read and not yet used, cached frequency | states of the transceiver, baseband, frame buffers | SPI bus, interrupt pin |
| `kaonic-crc` | a kernel socket or a software digest | update, finalise | kernel crypto |
| `kaonic-iperf` | a sequence number and counters | send a probe and wait for its echo; echo probes | `kaonic-ctrl` |
| `kaonic-gui` | the window's state behind a mutex, the client behind another, a transmit queue | a window's thread, iperf threads, a transmit worker, receive tasks | `kaonic-ctrl` |
| `kaonic-commd-cli` | the form, the log, two channels | a loop of keys and events, a gRPC task, one task per stream | gRPC |
| `kaonic-factory` | none | tests that run shell commands | |

What is hard about it:

* *The network.* Datagrams are lost, repeated, reordered and damaged; one
  message is up to R of them. The reassembly table is small, measures time by
  a clock that may be set, and never clears its packet arrays.
* *Requests.* An answer races with its timeout, comes late, comes twice, or
  meets a slot that another request has taken.
* *Channels.* Every task hands on to the next through a bounded channel. Those
  of kind mpsc make the sender wait; those of kind broadcast overwrite, and the
  receiver is told once (`Lagged`). Each loop treats that differently.
* *The hardware.* An interrupt edge, a flag that reading clears, one frame
  buffer, a transceiver whose states are changed by several callers and by a
  driver that may fail halfway, after which memories of what was set, registers
  and pins must still agree with what the getters tell.
* *The programs.* Threads that share locks, tasks that wait for each other's
  channels, flags that a thread polls, replies that come after their timeout.
* *The kernel.* A hash that may fail between two system calls, with a socket that
  is used again.

What would make each part correct, and the code lines where it may go wrong,
are the `hazards` of `PROJECT.json`; the properties below are aimed at them.

## The modules

| module | models | composes |
|---|---|---|
| `Muxer` | `kaonic-net/src/muxer.rs`, both structs, as operators on a slot and on the table | |
| `Delivery` | the abstract promise of the segmentation layer | |
| `Network` | sender, medium, receiver (`network.rs` of both crates) | `Muxer`; implements `Delivery` |
| `NetworkProofs` | the theorems about `Network` | `Network` |
| `Demuxer` | `demuxer.rs`, and the header's narrow fields (`packet.rs`, `coder.rs`) | |
| `RequestClient` | `request.rs`, `Client::request`, `manage_responses`, `AsyncRequest` | |
| `RequestClientProofs` | the theorems about `RequestClient` | `RequestClient` |
| `Channels` | the tokio channels, as `src/` uses them (external) | |
| `ChannelsProofs` | lemmas about channels and the messages in them | `Channels` |
| `ServerLoop` | the daemon's tasks between radio and socket | `Channels` |
| `ServerLoopProofs` | the theorems about `ServerLoop` | `ServerLoop`, `ChannelsProofs` |
| `ClientEvents` | the client's tasks between socket and subscriber | `Channels` |
| `Radio` | `manage_radio`, `radio_event_thread`, the RF215 driver's receive, transmit and reconfiguration, and the chip (external) | |
| `RadioProofs` | the theorems about `Radio` | `Radio` |
| `Sessions` | the server's registry of clients and the clients' keepalive (`peer.rs`, `radio.rs` of `kaonic-ctrl`) | |
| `Settings` | the requests that set a radio, from both front ends through the platform to the driver's register writes | |
| `SettingsProofs` | the theorems about `Settings` | `Settings` |
| `Hasher` | `kaonic-crc`, with the kernel (external) | |
| `Iperf` | the loops of `kaonic-iperf` over a link (external) | `Channels` |
| `Gui` | the threads, tasks and locks of `kaonic-gui` | |
| `GuiProofs` | the theorems about `Gui` | `Gui` |
| `Tui`, `Form` | `kaonic-commd-cli`: its channels and connections; its form and keys | |
| `MCParts` | the choice of one of seven parts that share no state | `Demuxer`, `Hasher`, `ClientEvents`, `Sessions`, `Iperf`, `Tui`, `Form` |
| `PartsProofs` | the theorems about `Demuxer`, `ClientEvents`, `Sessions`, `Form`, `Hasher`, `Tui` and `Iperf`, and about the seven parts together | `MCParts`, `ChannelsProofs` |
| `MCNetwork`, `MCRequestClient`, `MCRadio`, `MCSettings` | values of constants for TLC | |

### Muxer, Network, Delivery

A packet is a record of the header fields that the code reads (`id`, `seq`,
`seq_count`) and a bit that says whether the payload is the bytes that were
sent; `id` and `seq` say which bytes those are. A slot is `packets` (an array
of R), `count` and `last_update_time`, exactly the fields of `PacketMuxer`.
`Released` zeroes the count and the time and leaves the array alone, as the
code does, and `Assembled` searches the whole array, as the code does: stale
entries can be taken for live ones if anything goes wrong. Each operator is one
method; `Receive` is one call of `ControllerNetwork::receive`: `multiplex`,
then `process`, then `release_expired`, with one reading of the clock.

`Lose`, `Duplicate`, `Corrupt` and the free choice of the datagram to `Receive`
are the medium. `Corrupt` damages payloads only: nothing covers a packet's header, and damage
there, which makes a segment of another message or of none, is left out. `Tick` and `SetClockBack` are the receiver's wall clock
(`system_time`). `Transmit` includes the demuxer's refusal of a message with
more than `TxR` segments; `TxR` may be larger than the receiver's `R`, so the
receiver's own refusal is reached.

Abstractions: two messages in flight do not draw the same random 32-bit id;
messages with no segment do not exist (the demuxer makes none of an empty
payload). `DeliveredWhole` would fail without the first.

`Delivery` says what the layer promises: every frame handed up is a reading of
a transmitted message, whole, in order and unmixed; it may come more than once
or not at all. `Promise` instantiates it with the variables of `Network`, and
`DeliversMessages` says that `Network` implements it.

### Demuxer

One step is one turn of the loop of `demultiplex`. A payload is its length, a
packet the piece of it that it carries. `Decoded` is what a receiver reads
after `Header::pack` and `unpack`: four bits of `seq` and of `seq_count`,
sixteen of `len`.

### RequestClient

`Request` is `Client::request` up to the release of the lock: purge, then take
the first free slot or return `Busy`. `Send` hands the message to the peer.
The biased select of `AsyncRequest::response` is three actions, because an
answer may come between its look at the channel and its look at the timer.
`Receive` is a turn of `manage_responses`. Messages on the way are sets, so they
are lost (never taken), late, repeated and reordered. Only differences of
times are kept: the wall clock against a slot's `start_time` (`age`), the
monotonic clock against the start of the wait (`slept`). `SetClock` sets the
wall clock, `Drop` drops the future, `Cancel` cancels the token, after which the
peer and `manage_responses` stop, each in its own time.

### Channels, ServerLoop, ClientEvents

A broadcast channel is seen by one receiver: what it still can read, and whether
its next `recv` returns `Lagged`. A message is its kind and its number in order
of arrival, so losing, repeating and reordering can be told.

`ServerLoop` follows a frame from `manage_radio` through
`manage_module_receive` and `manage_requests` to the peer, and a request from
the peer through `manage_requests` back to the peer. A task that waits for room
in a channel holds its message (`forwarding`, `sending`). In `manage_requests`
the pattern `Ok(request) = ...` does not match `Lagged`, which disables that
branch until the select ends: `manager = "deaf"`. In the server another branch,
the frames, ends it; in `ClientEvents` the only other branch of
`manage_responses` is the cancellation.

### Radio

One radio: a chip with two bands, its interrupt line, the thread that waits for
the line's rising edge, and the daemon's runtime. The runtime has one thread
(`kaonic-commd/src/main.rs:20`; `README.md:111` calls it multi-threaded), and no
driver method awaits, so `manage_radio` and the handlers of requests exclude
each other (`pc = "idle"` is where a request may start). The chip and the event
thread run beside them, and may step between any two register accesses.

`UpdateEvent` is one of the four register reads of `update_event`; `Poll` one
turn of `wait_irqs`; `LoadRx` and `ReceiveTimeout` the two ends of `bb_receive`;
`StartReceive` one band of `start_receive`; `Assess`, `SeeTransmitted` and
`SeeBusy` are `bb_transmit_cca`; `SetConfig` and `SetModulation` a whole call,
since nothing that happens during one can be told from its happening after.
Reading a status register clears it (`rf`, `bb`), what was read and not yet used
is in the driver's mask (`mask`), and an edge is queued when the first bit of any
register is set while all were clear.

The chip is external, and modelled as the driver relies on it; beside that only
bus errors are left out. Frames end on both bands. A measurement may take longer than the 500 ms that
the driver waits (`SeeNothing`): the try then fails with the baseband off, and the
measurement ends when it does (`MeasurementEnds`), perhaps while an interrupt is
handled. `ReceiveTimeout` may come before the first `Poll`, because the deadline is looked at
before each. `unpolled` and `late` are history: which bands no poll has read since
the manager woke, and whether a measurement that was given up ended meanwhile. The
properties use them to name the cases in which the code does lose an interrupt or keep a flag.

### Sessions

`Arrives` is what the receive branch of `Peer::serve` does with the sender of any
datagram, `CleanupTick` the branch of `cleanup_tick`, `Ping` and `Request` the two
ways `activity` changes. A tick is ten seconds, so the code's 30, 120 and 30
seconds are 3, 12 and 3. What is due happens before time goes on.
`losses` and `heard` are history: what was lost in a row, and whom the server
that now runs has heard.

### Settings

All handlers run on the daemon's one thread and none awaits while a radio is
locked, so a request is one step. Within it, what the driver does is a sequence of writes
`<<place, value>>`, in the order of the code; `Breaks` applies any prefix of it,
which is what a bus or pin that fails leaves behind, and returns before the
assignments that follow the `?`. Both memories are kept: the driver's
(`freq_config`), which decides whether `set_frequency` writes at all, and the
platform's (`config`, `modulation`, `accelerator`, `ant_24_sel`), which the
getters read. `sure` is history: what the
last attempts at each setting leave no doubt of. A success that the driver's memory made without a write
adds nothing to it, so `TunedAsReported` ends with a `set_config` that was cut short and begins again with the
next that writes; what the driver's memory can hide in between is told with the findings. `Received` and `ReceivedModulation` are the conversions of the gRPC
server, which cuts integers to width and replaces unknown enums; `Carries` is
what UDP can carry. Modulation registers hold a name of the table row they are written
from; power and channel registers are numbers of their real width.

### Hasher

A message is the sequence of its units, and its checksum is the message itself;
a step is one system call, or a call into the crate up to its first. The kernel is one
of four: right, computing something else, beginning anew with each send,
going on with a closed hash. The last two answer a one-shot checksum right, and it
takes the probe's third check to find them out.

### Iperf

`air` is a set of frames, so they come in any order, late or never, and damaged
ones fail the CRC, or the magic or the length, which the program passes over without
counting; `tally` counts them, so that the sum can be stated. The probe carries its transmission's number (history), so
a reply can be told from a late one.

### Gui

A critical section that takes no further lock is one step; those that do, and
those that wait, are several. `owner` is who holds `state`, `client` and the
async mutex around the `RadioClient`. A guard that is a temporary in the
scrutinee of a `match` lives to the end of the match, as in
Rust: `Fail` takes `state` with `client` held. Those mutexes are parking_lot's, so a task that
waits for one keeps a worker thread of the runtime: the window's status tasks
(`StatusStarts`, `StatusSets`) wait so for `state`, and with all `Workers` waiting no
request, task or timer of the runtime goes on (`RuntimeRuns`). An address that cannot
be parsed fails without the runtime (`bad address`). `Senders` and `Monitors` are the threads the
Start buttons make; one more may be started when a stopped one has not
looked at its flag yet.

### Tui, Form

`Tui` has the two bounded channels; the task's `await`s on a full event channel are
phases (`tellConnected`, ...), and the TUI's on a full command channel are
`app.subs`, what is left to subscribe. The address is edited in place, key by key; only
Enter asks for it (`asked`), and what is typed and left with Esc stays in the header, where
`ui.rs:73` shows it as the address connected to (`edited`). A stream's task is never ended by the code,
and `feeds` keeps them all. `Form` is one step per key: which window it goes to,
what it does there, what is sent.

## What is checked

Every run is exhaustive at its bounds. Each property has a mutant of the code in
`PROJECT.json` that TLC finds it violated by.

| run | shows |
|---|---|
| `network_dup` | two messages of two segments, each datagram up to twice, loss, reordering, the clock set back: every delivered frame is one whole message (`DeliveredWhole`); no complete slot is left behind (`NoBacklog`), though `process` runs once per datagram and tries one slot; no message comes up more often than its segments came (`DeliveriesPaidFor`) |
| `network_lossy` | three messages for two slots, one too long for the receiver, loss, damage, expiry: the last missing segment delivers its message in the call that receives it, however late (`LastSegmentDelivers`); `DeliversMessages` |
| `parts` | seven small models, each in its own behaviours (`part` names it); `PartsTypeOK` is the conjunction of their type invariants. *Demuxer*, for all payload lengths up to beyond what 15 segments hold, `Demultiplexed`: the packets tile the payload, the narrow fields lose nothing and the receiver does not stop early. *Hasher*, `ChecksumsRight`: whatever the kernel is and whichever call fails, the answer is right, or said not to be; a failed checksum leaves nothing in the socket used again; a stream keeps a tail to close with. *ClientEvents*, `MessagesAccountedFor`: frames are yielded once and in order, only overwritten ones are missing, and responses do not depend on the channels behind `manage_responses`; `YieldedUnlessDeaf`: the last frame of a burst arrives unless `manage_responses` is deaf. *Sessions*, `RegistryRight`: a listener that only pings is kept while fewer datagrams are lost in a row than the timeout allows, and the silent are forgotten; `ListenersReturn`: a listener is found again after a restart. *Iperf*, `ResultsHold`: the counts, those the program does not print among them, add up, no probe is measured twice, and every wait that ended early makes a later reading late. *Tui*, `ShownAsItIs`: once nothing is under way the TUI shows whether it is connected, to the address last asked for, and shows that address unless it was typed on since, and no stream's event is lost; `TuiGoesOn`: the TUI comes back to its keys, and the last address wins, unless the two tasks wait for each other. *Form*, `FormInOrder`: the cursor is on a field that is shown and reaches all of them, and only valid numbers are sent |
| `requests` | dropped futures, cancellation, answers late, lost, repeated, the wall clock set both ways: a late answer never reaches another request, even in the same slot (`AnswersItsRequest`), and a waiting request keeps its slot (`KeepsItsSlot`); two slots are enough for requests made one after the other unless one was dropped or the clock was set back (`NeverBusy`); every request ends (`EveryRequestEnds`) |
| `server` | all four channels at their limits: what came in is sent, on its way in order, or overwritten by something newer (`NothingLostButByLag`); the newest frame is sent (`LatestFrameSent`) and the newest request answered (`LatestRequestAnswered`) |
| `client_burst` | *finding*, see below |
| `radio` | chip, event thread and runtime interleaved at each register access, frames on both bands, either tuned: when the runtime is free and the line high, an edge is on its way, unless a bit came behind `update_event` where nothing polls (`NoLostInterrupt`); a flag left in the driver's mask is one of a band that was not polled (`NoStaleFlag`); each band's frames are published in order (`PublishedInOrder`); after every transmission the bands receive again, with the baseband on if the measurement was answered (`TransmitRestoresReceiver`); the newest frame of each band is published, unless the band is never polled again or the line is stuck (`LatestFramePublished`) |
| `radio_refused` | *finding*, see below |
| `gui` | frames are shown, and echoed by a monitor, once and in order (`FramesOnce`, which excepts echoes after a foreign frame); while the window says it receives a task feeds it, but for two cases the property names (`FedUnlessSwitched`); the flag of a test does not outlive its thread (`RunningHasThread`); the window comes back to its frame (`WindowComesBack`) and a stopped test ends (`StoppedIperfEnds`) unless one of two cycles closes, which are thereby the only ones: that of two locks, and that of the runtime whose worker threads all wait for a lock |
| `gui_deadlock` | *finding*, see below |
| `settings` | over settings refused, repeated, cut to width and cut short at any write, `AsReported`: the tuned band's registers and the filter are what `get_config` tells where the last that wrote them was not refused or cut short (`TunedAsReported`), both bands are modulated as `get_modulation` tells (`BothBandsModulated`), the chip's mode and the antenna follow (`ModeAndAntennaFollow`) |
| `settings_fpga` | *finding*, see below |

### Bounds

* `Network`: two slots of two segments is the smallest table in which two
  messages interleave, a third one finds no room, an expired slot is reused
  with stale entries behind its count, and a duplicate opens a second slot with
  the same id. `Timeout` 1 with `MaxTime` 2 gives an age below, at and above the
  strict comparison. `MaxCopies` 2 is what a repeated message needs.
  `LastSegmentDelivers` is checked without duplicates: with two slots of one id
  the last segment may go to the less complete one, and the property fails.
* `Demuxer`: a segment of three bytes gives every remainder; `LenValues` 4 is
  the smallest power of two that a segment fits in, as 65536 is for real ones;
  `R` 15 is the largest the header can count. (The code is instantiated with
  5 and with 6 segments.)
* `RequestClient`: `MaxBack` bounds how far the clock is set back, and ages are
  clipped one beyond `MaxTimeout`, the longest timeout, where no timeout can tell them apart. Two slots stand for 16; three ids
  let one answer be late, the next request reuse the slot, and a third follow.
* `ServerLoop`, `ClientEvents`: capacities of 1 to 3 for 256, 16, 128, 128 and
  512. Every channel fills and every broadcast channel lags. In `ServerLoop`
  frames beyond `Frames` share a number; the radio may go on or fall silent after any frame.
* `Sessions`: the code's periods; one client, because clients share nothing but
  the cleanup. Four losses in a row are one more than the timeout forgives.
* `Hasher`: seven units against a chunk of three and a hardware minimum of
  two: messages below, at and above both, and an update that is a whole number
  of chunks. Two failures let a second checksum follow a failed one and fail, too.
* `Iperf`: three transmissions, one stray frame, one damaged, channels of one: a
  late echo has one probe to be mistaken for and another to follow; the second
  unread frame overflows a channel, which ends the server before the third probe.
* `Tui`: a command channel of 2 and an event channel of 1 for 32 and 64, two keys that send
  (typing is not bounded) and two items: both channels fill, two connections overlap.
* `Form`: tables of one and two values for the enums, a power of 0 or 1. `MaxModules`
  is at least 1: the module field shows one value though no server was heard.
* `Gui`: a sender and a monitor, three presses, three frames, a queue and a stream of one, a
  list of two, and one worker thread for as many as there are cores: every queue fills,
  the monitor's batches overlap with trimming, and three presses (connect,
  transmit, connect or configure) close either cycle. With one sender a test is started again
  when its thread has ended, not before; `RunningHasThread` and `FramesOnce` are proved for any
  number of senders, so the run need not have a second.
* `Settings`: four configurations (a narrow filter, the other band, a
  channel that gRPC cuts, a frequency of neither band) and two modulations, one
  of them refused; one failure. `MaxFreq` and `MaxSpacing` keep frequencies below 4 GHz and
  spacings below 100 MHz, what the code's 32 bits hold. `settings_fpga` has the second radio and no
  failure.
* `Radio`: two frames, on either band or one on each, let one wait in the buffer and
  one overwrite it, or both bands be pending; two attempts at transmitting stand for four; two edges for the
  kernel's queue of 16; two requests that change something (leave a band, or refuse a
  configuration and transmit); `radio_refused` has three (the refused one, and the
  one before it again).

### Fairness

* `RequestClient`: time passes (`Tick`), and the runtime polls the caller
  (`Send`, `Poll`). Nothing is assumed of the network, the server, the peer or
  `manage_responses`.
* `ServerLoop`: weak fairness for each task, as a runtime gives it, and for the
  peer's transmit branch, whose select is not biased. `TakeFrame` has strong
  fairness: after `Lagged` the loop calls `recv` again within the same poll, so a
  radio that goes on overwriting cannot keep it from reading. Neither frames nor
  requests need come. `LatestRequestAnswered` alone has the hypothesis `FramesKeepComing`,
  because a deaf `manage_requests` is woken by a frame.
* `ClientEvents`: weak fairness for each task.
* `Sessions`: time passes, and what is due is done. `Tui`: the loop and the gRPC task are polled; neither keys nor the
  streams' items need come. `Demuxer`, `Hasher`, `Iperf` and `Form` claim safety only.
* `Gui`: weak fairness for the window's thread, each iperf thread, the worker, the
  receive tasks and the status tasks: each goes on when it can, those of the runtime when
  it has a free worker thread. A lock may be taken by another
  first; parking_lot's are fair only now and then, and nothing more is assumed.
* `MCParts` has each part's own fairness, restricted to the behaviours of
  that part.
* `Radio`: weak fairness for the event thread and for the steps of a receive and of a
  transmission. `ReceiveTimeout` has strong
  fairness, because the 2 ms pass though each poll enables another; so has
  `WakeManager`, because the runtime's queue of tasks is first come, first
  served, and requests cannot keep `manage_radio` from its turn. Of the chip nothing is
  assumed: no frame, measurement or transmission need end.

`CHECK_DEADLOCK FALSE` is set where the system may stop: all messages sent and
gone, the payload split, no more requests to make. `ServerLoop` and `Radio` never
stop and are checked for deadlock.

## What is proved

`NetworkProofs` proves, for any number of messages, segments, slots, copies and
ticks, from the named assumptions of `Muxer` and `Network` and nothing else:

* `TypeCorrect`: `Spec => []TypeOK`;
* `DeliveredWholeAlways`: `Spec => []DeliveredWhole`;
* `NoBacklogAlways`: `Spec => []NoBacklog`;
* `ImplementsDelivery`: `Spec => DeliversMessages`;
* `PaidForAlways`: `Spec => []DeliveriesPaidFor`;
* `LastSegmentAlwaysDelivers`: `Spec => LastSegmentDelivers`, if `MaxCopies <= 1`: with
  duplicates it does not hold (see Bounds).

`DeliveredWhole` is not inductive: it says nothing of the table. `IInv` adds
`QueueInv` and `MediumInv`: each slot is `WellFormed` (the entries below the
count are segments of one sent message with different sequence numbers, and
the entries beyond it are anything at all) and only sent messages are in the
medium. The heart is `CompleteSlotAssembles`: a slot with `seq_count` different
sequence numbers below `seq_count` has each of them, by counting, so `assemble`
finds every segment, and the first match it takes is the right one. For that,
the slots's count must equal `seq_count`, never exceed it, which is again by
counting. `MinIsLeast` says what `Min` of the community modules returns,
`MultiplexTable` that a datagram makes at most one slot complete,
`ProcessTable` that one call of `process` then leaves none, and `ReceiveStep` puts
them together. The invariants hold whatever the clock does: no lemma about the
table mentions it.

`DeliveriesPaidFor` is inductive beside `IInv`. In one receive a segment is collected in at
most one slot more (`MultiplexGains`), and the slot that `process` turns into a frame
held every segment of it and holds none afterwards (`ProcessPays`), so the
sum of frames and slots grows only with an arrival. `LastSegmentDelivers` needs more:
`UniqueInv` adds that no two copies of a segment exist (`OnceInv`) and no two slots
collect one message (`OneSlot`). The slots that could take a last segment are then only the
one that waits for it, and it accepts the segment, because it is not complete
(`NoBacklog`) and has not collected it (`DeliveriesPaidFor`). TLC has checked
`OnceInv` and `OneSlot` in the instance of `network_lossy`.

`PartsProofs` proves of `Sessions`, for any set of clients and any periods, from
`SessionsAssumption`:

* `SessionsTypeCorrect`: `SessionsSpec => []SessionsTypeOK`, with it that no entry grows
  older than the timeout and one period of the cleanup;
* `ListenersKeptAlways`: `SessionsSpec => []ListenersKept`;
* `StaleForgottenAlways`: `SessionsSpec => []StaleForgotten`;
* `RegistryRightAlways`: `SessionsSpec => []RegistryRight`, the two together.

`ListenersKept` says only whether a client is in the map. `SessionsInv` adds `Aged`: the
age of a listener's entry is at most the idle period times its losses in a
row plus the time since its last datagram, so what `CleanupTick` compares with the timeout
is below it as long as the product is; and `Fresh`, which bounds every
age by the cleanup's own clock.

Of `Demuxer` it proves, for any segment size, payload, number of packets and
widths of the header's fields, from `SizesAssumption` and `HeaderAssumption`
(`R < SeqValues`: a packet of 16 segments would announce none; the code has 5
and 6):

* `DemuxTypeCorrect`: `DemuxSpec => []DemuxTypeOK`;
* `DemultiplexedAlways`: `DemuxSpec => []Demultiplexed`, the tiling and what the
  receiver reads of it.

`Tiling` relates neighbours. `DemuxInv` says instead where each packet lies, the i-th
at i - 1 whole segments (`Placed`), and how far the loop is (`Reached`): after
whole packets, or at the end with the last one begun before it. With what
`DivRoundUp` bounds, that makes the number of packets `SeqCount`, at most `R`.

`RequestClientProofs` proves, for any set of ids, any number of slots, requests and
timeouts, from `RequestAssumption` (no id is drawn twice, nor is it the name of an error;
timeouts are positive and at most `MaxTimeout`):

* `TypeCorrect`: `Spec => []TypeOK`;
* `SlotKept`: `Spec => []KeepsItsSlot`;
* `OwnAnswer`: `Spec => AnswersItsRequest`, an action property;
* `RoomForTheNext`: `Q >= 2 /\ Spec => []NeverBusy`.

`KeepsItsSlot` says nothing of the ids in other slots, on the way or in the
mailbox. `Inv` adds which ids were drawn (`UsedInv`), that those in the table are among
them and no two slots hold one (`TableInv`), and what the caller's phase says of its slot and its mailbox
(`WaitInv`). For `NeverBusy`, `SteadyInv` and `AgeInv` say that a slot which no
request waits for has reached its timeout, and that one tick of the next wait
makes it purgeable, so at most one is in the way of the next request.

`ServerLoopProofs` and, of `ClientEvents`, `PartsProofs` prove, for any capacities and any
number of messages, from `CapsAssumption` and `ClientCapsAssumption` (each channel holds
at least one message):

* `TypeCorrect` and `EventsTypeCorrect`: `Spec => []TypeOK`, of each;
* `NothingLost`: `Spec => []NothingLostButByLag`;
* `AccountedForAlways`: `Spec => []MessagesAccountedFor`.

All channels and hands that a message goes through are read as one sequence, its
path, last place first. A task that passes a message on moves it across the boundary of two
neighbours and leaves the path as it is (`HeadFirst`, `Passed`); a
broadcast channel that is full drops its oldest message from the middle, or the
end, of the path (`PublishedOrder`, `PublishedInside`), which keeps the order
and is counted. The other kind's messages on a shared channel are not in the
sequence (`UncountedMessage`). The properties are inductive once `TypeInv` says
which channel holds which kind. `ChannelsProofs` has these lemmas, and what they
need of sequences.

`RadioProofs` proves, for any configurations and any number of frames, tries and queued edges, from
`RadioAssumption`:

* `TypeCorrect`: `Spec => []TypeOK`;
* `ReceiverRestored`: `Spec => TransmitRestoresReceiver`, an action property;
* `InterruptKept`, `MaskIsEmptied`, `FramesInOrder`: `NoLostInterrupt`, `NoStaleFlag` and
  `PublishedInOrder` always hold, with frames on both bands and configurations of either.

None of the three is inductive: they speak of the moment when the runtime is
free. `EdgeKept` says at every step of a handler what the line's
edge has become: queued, being told, told, still to be read, or read and about to
be polled, unless a bit was overlooked. `PolledSoFar` says which bands a poll has read at that step, and with it what
the mask may hold, `Counted` which frame is in each band's
buffer and which were published. `TypeInv` and `Transmitting` tie the phase of
the runtime to the states of the bands; while the driver waits, `Waiting` gives the three ways a
measurement may stand.

`SettingsProofs` proves, for any configurations and modulations and any number of
operations cut short, from `SettingsAssumption`:

* `TypeCorrect`: `Spec => []TypeOK`;
* `SettingsAsReported`: `Spec => []AsReported`, as far as `sure` goes: not what a skipped
  repetition leaves after a setting was cut short.

An operation is the sequence of its writes, of which a failing bus lets a first part
happen. The lemmas say what such a sequence leaves at a place: the value of its last
write there (`Leaves`), or what was there if it writes elsewhere (`PlacesIn`); both are
known of a concatenation from its parts, so each operation of the driver is taken
apart as the code composes it. `Inv` adds to `AsReported` what every register can
hold and what the driver remembers of each band.

`GuiProofs` proves, for any number of senders, monitors, receive tasks, presses and
frames, from `GuiAssumption`:

* `TypeCorrect`: `Spec => []TypeOK`;
* `FramesCountOnce`: `Spec => []FramesOnce`;
* `ReceivingIsFed`: `Spec => []FedUnlessSwitched`;
* `RunningIperfsHaveThreads`: `Spec => []RunningHasThread`.

`FedInv` says at each step of connecting, subscribing and disconnecting that there is
one task at most that feeds the window, and when there must be one. `OrderInv` says that the
window's list, its channel and that task's stream go on from each other in the frames'
order. `MonitorInv` is about `last_index`, with which a monitor counts into a list that
the window trims and clears: whatever the list lost, what lies past `last_index` and
the batch is new to the monitor. A foreign frame is skipped without being counted, so
once one was received an event may be seen again, and the property says so.

Of `Form`, `PartsProofs` proves, for any tables of values, powers and numbers of modules, from
`FormAssumption`:

* `FormTypeCorrect`: `FormSpec => []FormTypeOK`;
* `FormInOrderAlways`: `FormSpec => []FormInOrder`.

That the cursor stays on the form when the modulation, and with it the form, changes
follows from where the cursor then is: on the modulation's own field, which every form
has. That stepping reaches every field is the arithmetic of `%` (`InRange`, `Wraps`).

Of `Hasher`, `PartsProofs` proves, for messages of any length and any number of failing
calls, from `HasherAssumption` (a stream that goes to the kernel has at least one unit, and
at most a chunk of it is held back):

* `HasherTypeCorrect`: `HasherSpec => []HasherTypeOK`;
* `ChecksumsRightAlways`: `HasherSpec => []ChecksumsRight`.

A kernel that passes the probe is the right one (`ProbePasses`); each check of the probe
excludes a kind of wrong kernel. `HasherInv` then says that the hash a socket has open,
followed by what a checksum still has to send, is the message (`Digesting`), and likewise
for a stream's buffer and what the stream was told (`Held`), so no cut of the data
matters (`HwUpdateRight`, `PartSent`). The thread's socket has no hash open between two
checksums because a call that fails empties it.

Of `Tui`, `PartsProofs` proves, for any addresses, capacities of the two channels and
numbers of keys and items, from `TuiAssumption`:

* `TuiTypeCorrect`: `TuiSpec => []TuiTypeOK`;
* `ShownAsItIsAlways`: `TuiSpec => []ShownAsItIs`.

`ViewAgrees` speaks of moments when nothing is under way. `TuiInv` says what holds
meanwhile: the last report in the event channel says whether the task has a connection,
and where there is none the view shows it already, but for a `Reconnect` that will end it
(`ConnOk`); the last `Reconnect` in the command channel carries the address asked for, and
where there is none the task has it (`AddrOk`); the header shows that address until it is
typed on (`TypedOn`); and the items of a stream in the event
channel are those between the last shown and the last sent (`FeedOk`).

Of `Iperf`, `PartsProofs` proves, for any number of transmissions, strays and damaged
frames and channels of any capacity, from `IperfAssumption`:

* `IperfTypeCorrect`: `IperfSpec => []IperfTypeOK`;
* `ResultsHoldAlways`: `IperfSpec => []ResultsHold`.

`ResultsHold` speaks of the moments between two turns of the client's loop.
`IperfInv` says at each step of a turn what the counts sum to, the probe under way
included (`Counted`). A transmission that was not read is in one place: on the air, in
the client's channel, in the server's, or among the lost (`PlacesOk`). `NeverCatchesUp`
is then counting: what was made, less what was read. As long as no frame of another
module was read, the number of a probe and that of its transmission go together
(`AllStraight`), so a reply with the right `seq` is the reply to the last
transmission; after one, a number is sent twice, and the property says so.

Last, `PartsTypeCorrect`: `PartsSpec => []PartsTypeOK`. The parts share no state, and a
behaviour of `PartsSpec` is one of each part (`PartsStart`, `PartsStep`).

Every invariant and action property of the passing runs is thereby a theorem. Only
model-checked: liveness under fairness (`EveryRequestEnds`, `LatestFrameSent`,
`LatestRequestAnswered`, `LatestFramePublished`, `WindowComesBack`,
`StoppedIperfEnds`, `YieldedUnlessDeaf`, `ListenersReturn`, `TuiGoesOn`), which is out of
the prover's reach: it reasons neither about `ENABLED` nor about `WF_` and `SF_`.

## Findings

* `client_burst`: after a burst longer than the peer's channel,
  `manage_responses` never reads again: the disabled branch leaves only the
  cancellation. No frame is yielded and no request answered until the client is
  made anew; `kaonic-ctrl/src/radio.rs:96` says the receiver "yields incoming
  `ReceiveModule` frames".

* `radio_refused`: `set_frequency` turns the band off before it checks the values
  (`radio-rf215/src/transceiver.rs:60`). After a refused configuration the band
  is off, and because the driver's cache still holds the previous
  configuration, setting that again does nothing and answers `Ok`
  (`radio-rf215/src/lib.rs:172`). The next transmission or received interrupt turns the
  band on again, with the previous frequency.
  `kaonic-radio/src/radio.rs:37` says "Applies a new frequency/channel
  configuration to the radio hardware." FSK, which
  `README.md:160` lists, is refused by `Baseband::configure` in the same way, and leaves
  the baseband disabled too.

* `gui_deadlock`: Connect holds `state` (`kaonic-gui/src/ui.rs:378`) while it takes
  `client`. When an iperf sender's transmission fails, it holds `client`, a
  temporary of the match at `kaonic-gui/src/iperf.rs:81`, and takes `state` at line 86. If both
  happen at once neither goes on, and the window is frozen; `ui.rs:236` says
  "Enqueue non-blocking and await response in background to keep UI
  responsive", `ui.rs:870` "Snapshot state to avoid holding the mutex while rendering
  UI (prevents deadlocks)".

* `settings_fpga`: the radios share one FPGA (`machine.rs:221`), and setting one of
  them to Native disables it (`kaonic1s/mod.rs:362`) though the other is set to Hardware. That
  one stays in I/Q mode without the "external FPGA accelerator" of
  `kaonic-commd/proto/kaonic/kaonic.proto:137`.

### What the properties except

Where the code does not do what one would wish, a property that holds names the
exception. Each of these cases is reached in a passing run.

* *A missed interrupt* (`NoLostInterrupt`, `LatestFramePublished`). `update_event` reads four registers
  one after the other, and only the tuned band is polled after it
  (`radio-rf215/src/lib.rs:229`), or none, when the 2 ms are over at the first look at the
  clock (`baseband.rs:287`). A bit set behind `update_event` on a band that is not
  polled keeps the line high. Only rising edges are waited for (`linux.rs:62`), so
  the radio is deaf until a transmission or a poll happens to read that
  register, though `kaonic-radio/src/radio.rs:34` says "Processes pending hardware
  interrupt events (e.g. IRQ flags)". A measurement given up leaves its bit in the same way;
  nothing else does.
* *A measurement that is not answered* (`TransmitRestoresReceiver`). After 500 ms `bb_transmit_cca`
  returns with the baseband off (`transceiver.rs:164`). If that was the last try and the channel is
  then found busy, the radio is in RX with its baseband off until the next
  transmission or modulation; `transceiver.rs:172` says that "the baseband needs to be enabled again".
* *A setting that is skipped* (`TunedAsReported`). A is set, setting B is cut short after B's
  registers were written (`freq_config` stays A, `radio-rf215/src/lib.rs:182`), and A is set
  again: nothing is written, the answer is `Ok`, `get_config` tells A, and the registers hold
  B, against `kaonic-radio/src/radio.rs:37` and `:40`.
* *The runtime's cycle* (`WindowComesBack`). The status task of a transmission waits for `state` on
  a worker thread of the runtime (`ui.rs:249`, and 711, 740), while Connect and Configure
  hold `state` and wait in `block_on` for the runtime (`ui.rs:378-379`, `578-615`). When as
  many answers come meanwhile as there are worker threads, nothing of the runtime
  goes on, its timers included, and the window is frozen.
* *Another module* (`FedUnlessSwitched`). Selecting one makes a new channel, but
  `start_receive_stream` returns at once because `rx_started` is still set
  (`grpc_client.rs:353`), and the old task ends at the next frame: the window shows
  "Receive stream started" and receives nothing until it is connected anew.
* *A foreign key* (`FramesOnce`). The monitor's `continue` (`iperf.rs:188`) passes over
  `last_index += 1` (line 216); the next turn takes an event it has processed for a new one,
  and a probe is answered and counted twice.
* *Equal neighbours* (`PublishedInOrder`). A frame that ends while the receiver is put on again may
  be lost and its successor published twice; a frame of a band that is no
  longer tuned when the manager wakes waits, and a newer one overwrites it, until
  that band is tuned again.

No property is about three more. A stopped iperf client clears `iperf_client_running`
when it ends (`iperf.rs:151`), and ends a test that was started meanwhile. A transmission
that takes longer than 100 ms is cut off by `start_receive` and answered `Ok`. And the receive
path never calls `Packet::validate`: `Network` delivers a damaged segment as it is, and
`DeliveredWhole` says which segments a frame is made of, not that none was damaged.

## What is not modelled

* The LDPC coder, which has no caller outside its tests; serde and CBOR; the
  values of register tables beyond what the properties tell apart; drawing; the
  GUI's firmware update; the factory tests, which run shell commands
  one after the other; scripts.
* Of the radio: bus errors during reception (`Settings` has them during requests),
  RSSI, noise, the scan, register contents beyond the states.
* Of the front ends: the statistics' counters, device information, the gRPC streams
  (which forward the broadcast channels of `ServerLoop` and have no state of
  their own). `manage_module_transmit` forwards nothing: its body is under
  `if false`.
* `Settings` takes a request to be one step, because nothing awaits while a radio
  is locked; what the chip does meanwhile is in `Radio`.

## Plan

1. `Muxer`, `Network`, `Delivery` and their proofs; `Demuxer`; `RequestClient`;
   `Channels`, `ServerLoop`, `ClientEvents`; `Radio` (done).
2. `Sessions` and its proofs; `Settings`; `Hasher`; `Iperf`; `Gui`; `Tui`, `Form`
   (done).
3. `Radio` with bus errors; the statistics of the front ends.
4. The theorems about `RequestClient`, `ServerLoop`, `ClientEvents` and `Radio` (done).
5. Those about `Network`'s `DeliveriesPaidFor` and `LastSegmentDelivers`, `Settings`,
   `Gui`, `Form`, `Hasher`, `Tui` and `Iperf` (done).
