-------------------------------- MODULE Sessions -------------------------------
(****************************************************************************)
(* Who receives the server's broadcasts: the clients map of Peer::serve     *)
(* (kaonic-ctrl/src/peer.rs), kept up by any datagram and cleaned every     *)
(* thirty seconds, and the keepalive task of RadioClient (radio.rs), which  *)
(* pings after thirty seconds without a request.                            *)
(*                                                                          *)
(* Time goes in ticks of ten seconds; what is due happens before the next   *)
(* tick.  A datagram arrives within its tick or never.  The server may be   *)
(* restarted.                                                               *)
(****************************************************************************)
EXTENDS Naturals

CONSTANTS
  Clients,        \* addresses
  KeepaliveIdle,  \* KEEPALIVE_IDLE_TIMEOUT, in ticks
  ClientTimeout,  \* CLIENT_TIMEOUT
  CleanupPeriod,  \* the period of cleanup_tick
  MaxLosses,      \* bound: datagrams of one client lost in a row
  MaxRestarts     \* bound: restarts of the server

ASSUME SessionsAssumption ==
  /\ {KeepaliveIdle, ClientTimeout, CleanupPeriod} \subseteq Nat \ {0}
  /\ {MaxLosses, MaxRestarts} \subseteq Nat

VARIABLES
  running,      \* clients with a RadioClient
  idle,         \* ticks since activity_recv changed
  clients,      \* the server's map: the addresses in it
  unseen,       \* ticks since last_seen (meaningless outside the map)
  phase,        \* ticks since cleanup_tick
  losses,       \* datagrams of a client lost in a row (history)
  heard,        \* clients heard since they, and the server, started (history)
  restarts      \* restarts so far

sessionsVars == <<running, idle, clients, unseen, phase, losses, heard, restarts>>

SessionsInit ==
  /\ running = {} /\ clients = {}
  /\ idle = [c \in Clients |-> 0]
  /\ unseen = [c \in Clients |-> 0]
  /\ phase = 0
  /\ losses = [c \in Clients |-> 0]
  /\ heard = {}
  /\ restarts = 0

--------------------------------------------------------------------------------
(* Mutant: a known sender is not noted again. *)
NotedOnce(c) ==
  /\ clients' = clients \cup {c}
  /\ unseen' = [unseen EXCEPT ![c] = IF c \in clients THEN @ ELSE 0]
  /\ losses' = [losses EXCEPT ![c] = 0]
  /\ heard' = heard \cup {c}

(* A datagram reaches the server, which notes its sender whatever it holds, *)
(* or is lost.                                                              *)
Arrives(c) ==
  /\ clients' = clients \cup {c}
  /\ unseen' = [unseen EXCEPT ![c] = 0]
  /\ losses' = [losses EXCEPT ![c] = 0]
  /\ heard' = heard \cup {c}

IsLost(c) ==
  /\ losses[c] < MaxLosses
  /\ losses' = [losses EXCEPT ![c] = @ + 1]
  /\ UNCHANGED <<clients, unseen, heard>>

Datagram(c) == Arrives(c) \/ IsLost(c)

(* RadioClient::new and its first request. *)
Start(c) ==
  /\ c \notin running
  /\ running' = running \cup {c}
  /\ idle' = [idle EXCEPT ![c] = 0]
  /\ Datagram(c)
  /\ UNCHANGED <<phase, restarts>>

(* request: touch_activity, then the datagram. *)
Request(c) ==
  /\ c \in running
  /\ idle' = [idle EXCEPT ![c] = 0]
  /\ Datagram(c)
  /\ UNCHANGED <<running, phase, restarts>>

(* Mutant: the ping is not sent, and nothing else happens. *)
SkipPing(c) ==
  /\ c \in running
  /\ idle[c] = KeepaliveIdle
  /\ idle' = [idle EXCEPT ![c] = 0]
  /\ UNCHANGED <<running, clients, unseen, phase, losses, heard, restarts>>

(* keepalive_task: nothing has touched the watch for the timeout.  Its own  *)
(* touch wakes it once more, and changes nothing.                           *)
Ping(c) ==
  /\ c \in running
  /\ idle[c] = KeepaliveIdle
  /\ idle' = [idle EXCEPT ![c] = 0]
  /\ Datagram(c)
  /\ UNCHANGED <<running, phase, restarts>>

(* cancel: the client is silent from now on. *)
Stop(c) ==
  /\ c \in running
  /\ running' = running \ {c}
  /\ heard' = heard \ {c}
  /\ UNCHANGED <<idle, clients, unseen, phase, losses, restarts>>

(* Mutant: nothing is removed. *)
RetainedAll == clients

Retained == {c \in clients : unseen[c] < ClientTimeout}

CleanupTick ==
  /\ phase = CleanupPeriod
  /\ phase' = 0
  /\ clients' = Retained
  /\ UNCHANGED <<running, idle, unseen, losses, heard, restarts>>

RestartServer ==
  /\ restarts < MaxRestarts /\ restarts' = restarts + 1
  /\ clients' = {} /\ heard' = {}
  /\ phase' = 0
  /\ UNCHANGED <<running, idle, unseen, losses>>

(* Ten seconds. *)
Tick ==
  /\ \A c \in running : idle[c] < KeepaliveIdle
  /\ phase < CleanupPeriod
  /\ idle' = [c \in Clients |-> IF c \in running THEN idle[c] + 1 ELSE 0]
  /\ unseen' = [c \in Clients |-> IF c \in clients THEN unseen[c] + 1 ELSE 0]
  /\ phase' = phase + 1
  /\ UNCHANGED <<running, clients, losses, heard, restarts>>

SessionsNext ==
  \/ \E c \in Clients : Start(c) \/ Request(c) \/ Ping(c) \/ Stop(c)
  \/ CleanupTick \/ RestartServer \/ Tick

(* Time passes, and what is due is done. *)
SessionsSpec ==
  /\ SessionsInit /\ [][SessionsNext]_sessionsVars
  /\ WF_sessionsVars(Tick) /\ WF_sessionsVars(CleanupTick)
  /\ \A c \in Clients : WF_sessionsVars(Ping(c))

--------------------------------------------------------------------------------
SessionsTypeOK ==
  /\ running \subseteq Clients /\ clients \subseteq Clients
  /\ \A c \in Clients :
       /\ idle[c] \in 0..KeepaliveIdle
       /\ unseen[c] \in 0..(ClientTimeout + CleanupPeriod)
  /\ phase \in 0..CleanupPeriod
  /\ losses \in [Clients -> 0..MaxLosses]

(* A server that has heard a running client keeps it, so that broadcasts    *)
(* reach a listener that never asks for anything, as long as the datagrams  *)
(* lost in a row and the one not yet due leave its entry younger than       *)
(* CLIENT_TIMEOUT.                                                          *)
ListenersKept ==
  \A c \in running \cap heard :
    KeepaliveIdle * (losses[c] + 1) < ClientTimeout => c \in clients

(* A client that stopped is sent nothing any more after CLIENT_TIMEOUT and  *)
(* one period of the cleanup.                                               *)
StaleForgotten == \A c \in clients : phase = 0 => unseen[c] < ClientTimeout

(* The registry of clients: the listening are in it, the silent leave it.   *)
RegistryRight == ListenersKept /\ StaleForgotten

(* A listener the server has forgotten, or lost by a restart, is in its map *)
(* again, if not every datagram is lost.                                    *)
ListenersReturn ==
  \A c \in Clients : c \in running ~> c \in clients \/ c \notin running
================================================================================
