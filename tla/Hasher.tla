-------------------------------- MODULE Hasher --------------------------------
(****************************************************************************)
(* CRC-32 computed by the kernel's crypto API or, failing that, in software *)
(* (kaonic-crc/src/lib.rs, af_alg.rs): the probe, the one-shot checksums    *)
(* with the thread's cached operation socket, and the streaming hasher with *)
(* a socket of its own.                                                     *)
(*                                                                          *)
(* A message is the sequence of its units, numbered from 1; its checksum is *)
(* the message itself, so two checksums agree when the messages do.  One    *)
(* step is one call into the crate up to its first system call, or one      *)
(* system call.  A call interrupted by a signal is made again and changes   *)
(* nothing, so it is not a step.                                            *)
(****************************************************************************)
EXTENDS Naturals, Sequences, FiniteSetsExt

CONSTANTS
  MinHwLen,    \* MIN_HW_LEN, in units
  SendChunk,   \* SEND_CHUNK, in units
  MaxLen,      \* bound: the longest message
  MaxFaults,   \* bound: system calls that fail or fall short
  Kernels      \* the kernels the probe may meet, see Continues

ASSUME HasherAssumption ==
  /\ SendChunk \in Nat /\ MinHwLen \in 1..SendChunk
  /\ MaxLen \in Nat /\ MaxFaults \in Nat
  /\ Kernels \subseteq {"right", "other", "restarting", "sticky"}

VARIABLES
  kernel,    \* which crc32 the kernel has
  tfm,       \* TFM: "unset", "none" or "open"
  sock,      \* the sockets: "slot", this thread's OP_FD, and "stream", the hasher's
  hasher,    \* the Crc32Hasher in use
  job,       \* the checksum under way
  answer,    \* what the last call returned, and what it should have
  faults     \* system calls failed so far

hasherVars == <<kernel, tfm, sock, hasher, job, answer, faults>>

Message(n) == [i \in 1..n |-> i]

Crc(m) == [kind |-> "crc", of |-> m]
Poisoned == [kind |-> "POISONED", of |-> <<>>]
NoValue == [kind |-> "None", of |-> <<>>]

Closed == [open |-> FALSE, more |-> FALSE, absorbed |-> <<>>]
Accepted == [Closed EXCEPT !.open = TRUE]

NoJob == [what |-> "idle", sock |-> "slot", more |-> <<>>, last |-> <<>>,
          closed |-> FALSE, tail |-> <<>>, msg |-> <<>>]
NoHasher == [impl |-> "none", held |-> <<>>, flushed |-> FALSE, failed |-> FALSE, told |-> 0]
NoAnswer == [via |-> "none", of |-> <<>>, value |-> NoValue]

Idle == job.what = "idle"

--------------------------------------------------------------------------------
(* The kernel.  A send goes on with the hash the socket has open, or begins *)
(* one.  A wrong kernel may begin anew with every send ("restarting"), go   *)
(* on with a hash that was closed ("sticky"), or compute something else.    *)
Continues(k, s) == CASE k = "restarting" -> FALSE
                     [] k = "sticky"     -> TRUE
                     [] OTHER            -> s.more

Absorb(k, s, units, more) ==
  [s EXCEPT !.absorbed = (IF Continues(k, s) THEN @ ELSE <<>>) \o units, !.more = more]

Digest(k, s) == IF k = "other" THEN [kind |-> k, of |-> s.absorbed] ELSE Crc(s.absorbed)

(* Tfm::self_check: a known answer, a buffer at once, and the same buffer   *)
(* in two pieces, all through one socket.                                   *)
KnownInput == <<1>>
CheckBuffer == <<1, 2>>

AfterKnownAnswer(k) == Absorb(k, Accepted, KnownInput, FALSE)
AfterCrossCheck(k) == Absorb(k, AfterKnownAnswer(k), CheckBuffer, FALSE)
AfterStreaming(k) ==
  Absorb(k, Absorb(k, Absorb(k, AfterCrossCheck(k), <<1>>, TRUE), <<2>>, TRUE), <<>>, FALSE)

(* Mutant: without the third check. *)
SelfCheckOneShot(k) ==
  /\ Digest(k, AfterKnownAnswer(k)) = Crc(KnownInput)
  /\ Digest(k, AfterCrossCheck(k)) = Crc(CheckBuffer)

SelfCheck(k) ==
  /\ Digest(k, AfterKnownAnswer(k)) = Crc(KnownInput)
  /\ Digest(k, AfterCrossCheck(k)) = Crc(CheckBuffer)
  /\ Digest(k, AfterStreaming(k)) = Crc(CheckBuffer)

(* tfm(): the first caller opens and probes; a system call of the probe may *)
(* fail, and the outcome stands for the life of the process.                *)
Probed == IF tfm # "unset" THEN {tfm}
          ELSE {"none"} \cup (IF SelfCheck(kernel) THEN {"open"} ELSE {})

HasherInit ==
  /\ kernel \in Kernels
  /\ tfm = "unset"
  /\ sock = [s \in {"slot", "stream"} |-> Closed]
  /\ hasher = NoHasher
  /\ job = NoJob
  /\ answer = NoAnswer
  /\ faults = 0

Answer(via, m, v) == answer' = [via |-> via, of |-> m, value |-> v]

(* accept4 gives an operation socket, or fails. *)
AcceptOk == faults' = faults
AcceptFails == faults < MaxFaults /\ faults' = faults + 1

--------------------------------------------------------------------------------
(* One-shot checksums: crc32, which goes by the length and falls back to    *)
(* software, and hw_crc32, which does neither.                              *)

Fallback(via, m) == IF via = "crc32" THEN Crc(m) ELSE NoValue

InSoftware(n) ==
  /\ Idle
  /\ n < MinHwLen
  /\ Answer("crc32", Message(n), Crc(Message(n)))
  /\ UNCHANGED <<kernel, tfm, sock, hasher, job, faults>>

EmptyInHardware ==
  /\ Idle
  /\ \E p \in Probed :
       /\ tfm' = p
       /\ Answer("hw", <<>>, IF p = "open" THEN Crc(<<>>) ELSE NoValue)
  /\ UNCHANGED <<kernel, sock, hasher, job, faults>>

(* checksum: all but the last SendChunk units are streamed. *)
Checksum(via, n) ==
  LET split == IF n <= SendChunk THEN 0 ELSE n - SendChunk
  IN [NoJob EXCEPT !.what = via, !.msg = Message(n),
                   !.more = SubSeq(Message(n), 1, split),
                   !.last = SubSeq(Message(n), split + 1, n)]

Unavailable(via, n) ==
  /\ tfm' = "none"
  /\ Answer(via, Message(n), Fallback(via, Message(n)))
  /\ UNCHANGED <<sock, job, faults>>

CannotAccept(via, n) ==
  /\ tfm' = "open" /\ ~sock["slot"].open
  /\ AcceptFails
  /\ Answer(via, Message(n), Fallback(via, Message(n)))
  /\ UNCHANGED <<sock, job>>

BeginChecksum(via, n) ==
  /\ tfm' = "open"
  /\ sock' = [sock EXCEPT !["slot"] = IF @.open THEN @ ELSE Accepted]
  /\ job' = Checksum(via, n)
  /\ answer' = NoAnswer
  /\ AcceptOk

OneShot(via, n) ==
  /\ Idle
  /\ n > 0 /\ (via = "crc32" => n >= MinHwLen)
  /\ tfm' \in Probed
  /\ Unavailable(via, n) \/ CannotAccept(via, n) \/ BeginChecksum(via, n)
  /\ UNCHANGED <<kernel, hasher>>

(* init(): probe and open the thread's socket beforehand. *)
WarmUp ==
  /\ Idle
  /\ tfm' \in Probed
  /\ \/ /\ tfm' = "open" /\ ~sock["slot"].open
        /\ sock' = [sock EXCEPT !["slot"] = Accepted]
     \/ sock' = sock
  /\ UNCHANGED <<kernel, hasher, job, answer, faults>>

--------------------------------------------------------------------------------
(* The streaming hasher. *)

NewHasher ==
  /\ Idle /\ hasher.impl = "none"
  /\ tfm' \in Probed
  /\ hasher' = [NoHasher EXCEPT !.impl = IF tfm' = "open" THEN "Pending" ELSE "Software"]
  /\ answer' = NoAnswer
  /\ UNCHANGED <<kernel, sock, job, faults>>

TailLen(n) == ((n - 1) % SendChunk) + 1

(* HwHasher::update: what fits is buffered; otherwise the buffer and all    *)
(* but a tail of the data go to the kernel, and the tail is buffered.       *)
HwUpdate(h, data) ==
  IF h.failed \/ Len(h.held) + Len(data) <= SendChunk
  THEN /\ hasher' = IF h.failed THEN h ELSE [h EXCEPT !.held = @ \o data]
       /\ UNCHANGED job
  ELSE LET cut == Len(data) - TailLen(Len(data))
       IN /\ hasher' = h
          /\ job' = [NoJob EXCEPT !.what = "update", !.sock = "stream",
                                  !.more = h.held \o SubSeq(data, 1, cut),
                                  !.tail = SubSeq(data, cut + 1, Len(data))]

(* Crc32Hasher::update: a stream is held back until it is long enough, then *)
(* replayed into a hardware hasher, or a software one if none is to be had. *)
Update(n) ==
  LET data == [i \in 1..n |-> hasher.told + i]
      told == [hasher EXCEPT !.told = @ + n]
  IN /\ Idle /\ hasher.impl # "none"
     /\ hasher.told + n <= MaxLen
     /\ \/ /\ \/ hasher.impl = "Software"
              \/ hasher.impl = "Pending" /\ Len(hasher.held) + n < MinHwLen
           /\ hasher' = [told EXCEPT !.held = @ \o data]
           /\ UNCHANGED <<sock, job, faults>>
        \/ /\ hasher.impl = "Pending" /\ Len(hasher.held) + n >= MinHwLen
           /\ \/ /\ AcceptOk
                 /\ sock' = [sock EXCEPT !["stream"] = Accepted]
                 /\ HwUpdate([told EXCEPT !.impl = "Hardware"], data)
              \/ /\ AcceptFails
                 /\ hasher' = [told EXCEPT !.impl = "Software", !.held = @ \o data]
                 /\ UNCHANGED <<sock, job>>
        \/ /\ hasher.impl = "Hardware"
           /\ HwUpdate(told, data)
           /\ UNCHANGED <<sock, faults>>
     /\ answer' = NoAnswer
     /\ UNCHANGED <<kernel, tfm>>

Told == Message(hasher.told)

(* finalize, when no system call is needed: a software checksum, a stream   *)
(* that stayed short or empty, or one that is poisoned.                     *)
FinalizeAtOnce ==
  /\ Idle /\ hasher.impl # "none"
  /\ \/ hasher.impl \in {"Software", "Pending"} /\ Answer("finalize", Told, Crc(hasher.held))
     \/ hasher.impl = "Hardware" /\ hasher.failed /\ Answer("finalize", Told, Poisoned)
     \/ /\ hasher.impl = "Hardware" /\ ~hasher.failed
        /\ hasher.held = <<>> /\ ~hasher.flushed
        /\ Answer("finalize", Told, Crc(<<>>))
  /\ hasher' = NoHasher
  /\ sock' = [sock EXCEPT !["stream"] = Closed]
  /\ UNCHANGED <<kernel, tfm, job, faults>>

(* finalize, when the kernel holds the hash: the buffered tail closes it,   *)
(* or a send of nothing does.                                               *)
Finalize ==
  /\ Idle /\ hasher.impl = "Hardware" /\ ~hasher.failed
  /\ hasher.held # <<>> \/ hasher.flushed
  /\ job' = [NoJob EXCEPT !.what = "finalize", !.sock = "stream", !.last = hasher.held,
                          !.msg = Told]
  /\ answer' = NoAnswer
  /\ UNCHANGED <<kernel, tfm, sock, hasher, faults>>

--------------------------------------------------------------------------------
(* The system calls of a checksum under way. *)

(* send_all: the kernel may take fewer units than it is given. *)
SendSome(k) ==
  /\ ~Idle /\ job.more # <<>> /\ Len(job.more) >= k
  /\ \E n \in k..Min({SendChunk, Len(job.more)}) :
       /\ sock' = [sock EXCEPT ![job.sock] =
                     Absorb(kernel, @, SubSeq(job.more, 1, n), TRUE)]
       /\ job' = [job EXCEPT !.more = SubSeq(@, n + 1, Len(@))]
  /\ UNCHANGED <<kernel, tfm, hasher, answer, faults>>

SendMore == SendSome(1)

UpdateDone ==
  /\ job.what = "update" /\ job.more = <<>>
  /\ hasher' = [hasher EXCEPT !.held = job.tail, !.flushed = TRUE]
  /\ job' = NoJob
  /\ UNCHANGED <<kernel, tfm, sock, answer, faults>>

(* send_final, and the empty send of finish. *)
Close ==
  /\ job.what \in {"crc32", "hw", "finalize"} /\ job.more = <<>> /\ ~job.closed
  /\ sock' = [sock EXCEPT ![job.sock] = Absorb(kernel, @, job.last, FALSE)]
  /\ job' = [job EXCEPT !.closed = TRUE]
  /\ UNCHANGED <<kernel, tfm, hasher, answer, faults>>

ReadDigest ==
  /\ job.closed
  /\ Answer(job.what, job.msg, Digest(kernel, sock[job.sock]))
  /\ job' = NoJob
  /\ IF job.sock = "slot" THEN UNCHANGED <<sock, hasher>>
     ELSE /\ sock' = [sock EXCEPT !["stream"] = Closed]
          /\ hasher' = NoHasher
  /\ UNCHANGED <<kernel, tfm, faults>>

(* What becomes of the sockets: a stream keeps its own until it ends, the   *)
(* thread's slot is emptied, as its state is unknown.                       *)
SocketAfterFailure(left) ==
  [sock EXCEPT ![job.sock] = IF job.what = "update" THEN left ELSE Closed]

(* A system call fails, or closes the hash over fewer units than were given *)
(* (send_final): a one-shot checksum falls back, a stream is poisoned.      *)
CallFails ==
  /\ ~Idle /\ faults < MaxFaults
  /\ faults' = faults + 1
  /\ \/ sock' = SocketAfterFailure(sock[job.sock])
     \/ /\ job.more = <<>> /\ ~job.closed /\ job.what # "update"
        /\ \E n \in 0..(Len(job.last) - 1) :
             sock' = SocketAfterFailure(
                       Absorb(kernel, sock[job.sock], SubSeq(job.last, 1, n), FALSE))
  /\ job' = NoJob
  /\ CASE job.what = "update"   -> /\ job.more # <<>>
                                   /\ hasher' = [hasher EXCEPT !.failed = TRUE]
                                   /\ UNCHANGED answer
       [] job.what = "finalize" -> /\ hasher' = NoHasher
                                   /\ Answer("finalize", job.msg, Poisoned)
       [] OTHER                 -> /\ Answer(job.what, job.msg, Fallback(job.what, job.msg))
                                   /\ UNCHANGED hasher
  /\ UNCHANGED <<kernel, tfm>>

SystemCall == SendMore \/ UpdateDone \/ Close \/ ReadDigest \/ CallFails

HasherNext ==
  \/ \E n \in 0..MaxLen : InSoftware(n) \/ Update(n)
  \/ \E n \in 0..MaxLen, via \in {"crc32", "hw"} : OneShot(via, n)
  \/ EmptyInHardware \/ WarmUp \/ NewHasher
  \/ FinalizeAtOnce \/ Finalize
  \/ SystemCall

HasherSpec == HasherInit /\ [][HasherNext]_hasherVars

--------------------------------------------------------------------------------
HasherTypeOK ==
  /\ kernel \in Kernels
  /\ tfm \in {"unset", "none", "open"}
  /\ \A s \in DOMAIN sock : sock[s].open \in BOOLEAN /\ sock[s].more \in BOOLEAN
  /\ hasher.impl \in {"none", "Software", "Pending", "Hardware"}
  /\ hasher.impl = "Hardware" <=> sock["stream"].open
  /\ hasher.told \in 0..MaxLen
  /\ job.what \in {"idle", "crc32", "hw", "update", "finalize"}
  /\ faults \in 0..MaxFaults

(* Whatever the kernel computes and whichever system call fails, crc32      *)
(* returns the checksum of its input; hw_crc32 that or nothing; and the     *)
(* streaming hasher that of everything it was told, however it was cut, or  *)
(* the poisoned sentinel, which it returns only after a failed call.        *)
RightOrPoisoned ==
  answer.via # "none" =>
    \/ answer.value = Crc(answer.of)
    \/ answer.via = "hw" /\ answer.value = NoValue
    \/ answer.via = "finalize" /\ answer.value = Poisoned /\ faults > 0

(* Between two one-shot checksums the thread's socket, which is used again, *)
(* has no hash open, so no unit of a failed checksum gets into the next.    *)
SlotBetweenHashes == Idle => ~sock["slot"].more

(* The hasher's buffer never grows past SendChunk and, once anything went   *)
(* to the kernel, is never empty: finalize always closes the hash with data.*)
TailIsKept ==
  Idle /\ hasher.impl = "Hardware" /\ ~hasher.failed =>
    /\ Len(hasher.held) <= SendChunk
    /\ hasher.flushed => hasher.held # <<>>

(* kaonic-crc returns no wrong checksum, and no call leaves behind what     *)
(* would make a later one wrong.                                            *)
ChecksumsRight == RightOrPoisoned /\ SlotBetweenHashes /\ TailIsKept
================================================================================
