----------------------------- MODULE PeerNetwork -----------------------------
(***************************************************************************)
(* The peers of a storage server: the libp2p task (server/src/p2p.rs) and  *)
(* the discovery task (server/src/main.rs) that tells it whom to dial.     *)
(*                                                                         *)
(* They share a bounded command channel and a read-write lock on P2pState. *)
(* The model starts where run has set up the swarm and enters its loop.    *)
(* The event loop takes the write lock between receiving a swarm event and *)
(* applying it; the discovery task keeps the read lock while it waits for  *)
(* room in the channel.  Every other user of the lock (GET /peers, the     *)
(* registration task) holds it without waiting for anything, so its        *)
(* critical section is no step of its own.                                 *)
(***************************************************************************)
EXTENDS Integers, Sequences, FiniteSets

CONSTANTS
  Peers,             \* the other servers
  Addrs,             \* the multiaddrs they may publish
  Owner,             \* whose address it is
  Capacity,          \* size of the command channel
  MaxConnections,    \* bound of the simultaneous connections to a peer
  Interfaces,        \* the addresses the server comes to listen on
  NoAddr, NoEvent

Events == [type : {"established", "closed", "identified"}, peer : Peers]
          \cup [type : {"listening"}, addr : Interfaces]

ASSUME PeerAssumption ==
  /\ Owner \in [Addrs -> Peers]
  /\ Capacity \in Nat \ {0} /\ MaxConnections \in Nat
  /\ NoAddr \notin Addrs /\ NoEvent \notin Events

VARIABLES
  published,      \* p2p_addrs in the metadata of the registered providers
  known,          \* known_addrs of the discovery task
  toVisit,        \* the answer of get_all_providers it is going through
  sending,        \* the address it holds the read lock for, or NoAddr
  commands,       \* the channel
  event,          \* the swarm event the loop waits to apply, or NoEvent
  dialed,         \* the addresses the loop has handed to the swarm
  rejected,       \* those that do not parse, or that the swarm refused to dial
  dialing,        \* those whose attempt is still open
  connections,    \* the swarm's connections to each peer
  listenAddrs,    \* the shared list of listen addresses
  connectedPeers, \* the shared map: its keys
  identified      \* the keys whose agent_version is known
vars == <<published, known, toVisit, sending, commands, event, dialed, rejected, dialing,
          connections, listenAddrs, connectedPeers, identified>>

discoveryVars == <<known, toVisit, sending>>
peerVars      == <<listenAddrs, connectedPeers, identified>>

Init ==
  /\ published \in SUBSET Addrs
  /\ known = {} /\ toVisit = {} /\ sending = NoAddr
  /\ commands = <<>> /\ event = NoEvent
  /\ dialed = {} /\ rejected = {}
  /\ dialing \in SUBSET Addrs      \* dialed at start-up: bootstrap peers, published ones
  /\ connections = [p \in Peers |-> 0]
  /\ listenAddrs = {} /\ connectedPeers = {} /\ identified = {}

(* Another provider registers or updates its metadata. *)
Publish(a) ==
  /\ a \notin published
  /\ published' = published \cup {a}
  /\ UNCHANGED <<discoveryVars, commands, event, dialed, rejected, dialing,
                 connections, peerVars>>

-----------------------------------------------------------------------------
(* The discovery task *)

(* get_all_providers answered; an error leaves the task asleep. *)
Query ==
  /\ toVisit = {} /\ sending = NoAddr
  /\ toVisit' = published
  /\ UNCHANGED <<published, known, sending, commands, event, dialed, rejected, dialing,
                 connections, peerVars>>

SkipKnown(a) ==
  /\ sending = NoAddr /\ a \in toVisit /\ a \in known
  /\ toVisit' = toVisit \ {a}
  /\ UNCHANGED <<published, known, sending, commands, event, dialed, rejected, dialing,
                 connections, peerVars>>

(* mutant: addresses that are known are sent again *)
TakeReadLockAgain(a) ==
  /\ sending = NoAddr /\ a \in toVisit
  /\ event = NoEvent
  /\ known' = known \cup {a}
  /\ toVisit' = toVisit \ {a}
  /\ sending' = a
  /\ UNCHANGED <<published, commands, event, dialed, rejected, dialing, connections, peerVars>>

(* mutant: try_read, and the address is passed over if a writer waits *)
TryReadLock(a) ==
  /\ sending = NoAddr /\ a \in toVisit /\ a \notin known
  /\ known' = known \cup {a}
  /\ toVisit' = toVisit \ {a}
  /\ sending' = IF event = NoEvent THEN a ELSE NoAddr
  /\ UNCHANGED <<published, commands, event, dialed, rejected, dialing, connections, peerVars>>

(* A new address: remembered first, then the read lock is taken.  The lock *)
(* is fair, so a reader queues behind a writer that waits already.         *)
TakeReadLock(a) ==
  /\ sending = NoAddr /\ a \in toVisit /\ a \notin known
  /\ event = NoEvent
  /\ known' = known \cup {a}
  /\ toVisit' = toVisit \ {a}
  /\ sending' = a
  /\ UNCHANGED <<published, commands, event, dialed, rejected, dialing, connections, peerVars>>

(* P2pState::dial: the send waits for room, then the guard is dropped. *)
SendDial ==
  /\ sending # NoAddr
  /\ Len(commands) < Capacity
  /\ commands' = Append(commands, sending)
  /\ sending' = NoAddr
  /\ UNCHANGED <<published, known, toVisit, event, dialed, rejected, dialing,
                 connections, peerVars>>

-----------------------------------------------------------------------------
(* The event loop: one branch of the select! at a time *)

(* An address that does not parse, or that swarm.dial answers with an      *)
(* error, is given up with a warning.                                      *)
HandleDial ==
  /\ event = NoEvent /\ commands # <<>>
  /\ commands' = Tail(commands)
  /\ \/ /\ dialed' = dialed \cup {Head(commands)}
        /\ dialing' = dialing \cup {Head(commands)}
        /\ UNCHANGED rejected
     \/ /\ rejected' = rejected \cup {Head(commands)}
        /\ UNCHANGED <<dialed, dialing>>
  /\ UNCHANGED <<published, discoveryVars, event, connections, peerVars>>

(* The attempt fails; the loop ignores the event and nobody tries again. *)
DialFails(a) ==
  /\ event = NoEvent /\ a \in dialing
  /\ dialing' = dialing \ {a}
  /\ UNCHANGED <<published, discoveryVars, commands, event, dialed, rejected,
                 connections, peerVars>>

(* ConnectionEstablished: our own dial, or one of the peer's. *)
PollOutgoing(a) ==
  /\ event = NoEvent /\ a \in dialing
  /\ connections[Owner[a]] < MaxConnections
  /\ dialing' = dialing \ {a}
  /\ connections' = [connections EXCEPT ![Owner[a]] = @ + 1]
  /\ event' = [type |-> "established", peer |-> Owner[a]]
  /\ UNCHANGED <<published, discoveryVars, commands, dialed, rejected, peerVars>>

PollIncoming(p) ==
  /\ event = NoEvent
  /\ connections[p] < MaxConnections
  /\ connections' = [connections EXCEPT ![p] = @ + 1]
  /\ event' = [type |-> "established", peer |-> p]
  /\ UNCHANGED <<published, discoveryVars, commands, dialed, rejected, dialing, peerVars>>

PollClosed(p) ==
  /\ event = NoEvent /\ connections[p] > 0
  /\ connections' = [connections EXCEPT ![p] = @ - 1]
  /\ event' = [type |-> "closed", peer |-> p]
  /\ UNCHANGED <<published, discoveryVars, commands, dialed, rejected, dialing, peerVars>>

PollIdentified(p) ==
  /\ event = NoEvent /\ connections[p] > 0
  /\ event' = [type |-> "identified", peer |-> p]
  /\ UNCHANGED <<published, discoveryVars, commands, dialed, rejected, dialing,
                 connections, peerVars>>

PollListening(i) ==
  /\ event = NoEvent /\ i \notin listenAddrs
  /\ event' = [type |-> "listening", addr |-> i]
  /\ UNCHANGED <<published, discoveryVars, commands, dialed, rejected, dialing,
                 connections, peerVars>>

(* mutant: the entry of a peer that is gone stays *)
KeysAfterNoRemove(e) ==
  IF e.type = "established" THEN connectedPeers \cup {e.peer} ELSE connectedPeers

(* insert, remove, or get_mut: the keys of the map once e is applied *)
KeysAfter(e) ==
  CASE e.type = "established" -> connectedPeers \cup {e.peer}
    [] e.type = "closed"      -> connectedPeers \ {e.peer}
    [] OTHER                  -> connectedPeers

(* An insert forgets the agent version of an entry it replaces. *)
IdentifiedAfter(e) ==
  CASE e.type = "identified" -> identified \cup ({e.peer} \cap connectedPeers)
    [] e.type = "listening"  -> identified
    [] OTHER                 -> identified \ {e.peer}

ListenAddrsAfter(e) ==
  IF e.type = "listening" THEN listenAddrs \cup {e.addr} ELSE listenAddrs

(* state.write().await was granted: no reader holds the lock. *)
ApplyEvent ==
  /\ event # NoEvent
  /\ sending = NoAddr
  /\ connectedPeers' = KeysAfter(event)
  /\ identified' = IdentifiedAfter(event)
  /\ listenAddrs' = ListenAddrsAfter(event)
  /\ event' = NoEvent
  /\ UNCHANGED <<published, discoveryVars, commands, dialed, rejected, dialing, connections>>

Next ==
  \/ \E a \in Addrs : Publish(a) \/ SkipKnown(a) \/ TakeReadLock(a)
                      \/ DialFails(a) \/ PollOutgoing(a)
  \/ \E p \in Peers : PollIncoming(p) \/ PollClosed(p) \/ PollIdentified(p)
  \/ \E i \in Interfaces : PollListening(i)
  \/ Query \/ SendDial \/ HandleDial \/ ApplyEvent

-----------------------------------------------------------------------------
(* Fairness: the runtime keeps running both tasks, and the registry        *)
(* answers again and again.  select! picks a ready branch at random, so a  *)
(* command that stays in the channel is picked sooner or later; the fair   *)
(* lock serves the discovery task between two events.                      *)
Fairness ==
  /\ WF_vars(Query)
  /\ \A a \in Addrs : WF_vars(SkipKnown(a)) /\ SF_vars(TakeReadLock(a))
  /\ WF_vars(SendDial)
  /\ SF_vars(HandleDial)
  /\ WF_vars(ApplyEvent)

Spec == Init /\ [][Next]_vars /\ Fairness

TypeOK ==
  /\ published \subseteq Addrs /\ known \subseteq Addrs /\ toVisit \subseteq Addrs
  /\ sending \in Addrs \cup {NoAddr}
  /\ commands \in Seq(Addrs) /\ Len(commands) <= Capacity
  /\ event \in Events \cup {NoEvent}
  /\ dialed \subseteq Addrs /\ rejected \subseteq Addrs /\ dialing \subseteq Addrs
  /\ connections \in [Peers -> 0 .. MaxConnections]
  /\ listenAddrs \subseteq Interfaces
  /\ connectedPeers \subseteq Peers /\ identified \subseteq Peers

(* GET /peers lists no peer that is gone: between two events every entry   *)
(* of the map, and every agent version in it, belongs to a peer the swarm  *)
(* is connected to, however many connections come and go                   *)
(* (ConnectionEstablished, ConnectionClosed, Identify).                    *)
NoGhostPeers ==
  event = NoEvent =>
    /\ identified \subseteq connectedPeers
    /\ \A p \in connectedPeers : connections[p] > 0

Queued == {commands[i] : i \in 1 .. Len(commands)}
Held   == {sending} \ {NoAddr}

(* The addresses whose command the loop has carried out *)
Handled == dialed \cup rejected

(* Every address the discovery task marked as known is on its way exactly  *)
(* once: being sent, in the channel once, dialed, or given up with a       *)
(* warning.  Known addresses are never looked at again, so one that got    *)
(* lost here would never be dialed (run, the discovery task).              *)
KnownOnItsWay ==
  /\ known = Queued \cup Held \cup Handled
  /\ \A i, j \in 1 .. Len(commands) : commands[i] = commands[j] => i = j
  /\ Queued \cap Held = {} /\ (Queued \cup Held) \cap Handled = {}
  /\ dialed \cap rejected = {}

(* The discovery task never waits for room while it holds the lock, as     *)
(* long as the registry names no more addresses than the channel has room  *)
(* for: without it the two tasks can wait for each other (P2pState::dial   *)
(* under the read guard, state.write() in the event loop).                 *)
RoomUnderLock == sending # NoAddr => Len(commands) < Capacity

(* Every address a provider publishes is dialed in the end, unless it does *)
(* not parse or the swarm refuses it: "Peer discovery via smart contract   *)
(* registry" (p2p.rs:5).                                                   *)
PublishedIsDialed == \A a \in Addrs : a \in published ~> a \in Handled

-----------------------------------------------------------------------------
(* "Event loop - handle both swarm events and dial commands"               *)
(* (p2p.rs:203): a command in the channel is handled.  With more new       *)
(* addresses than the channel has room for, the discovery task waits for   *)
(* room and holds the lock the loop waits for.                             *)
CommandsHandled == \A a \in Addrs : (\E i \in DOMAIN commands : commands[i] = a) ~> a \in Handled
=============================================================================
