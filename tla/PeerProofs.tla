------------------------------ MODULE PeerProofs ------------------------------
(***************************************************************************)
(* The peers a server lists and the addresses it remembers, for any number *)
(* of peers, addresses and connections and any size of the channel.        *)
(***************************************************************************)
EXTENDS PeerNetwork, FiniteSetTheorems, TLAPS

Safe == [][Next]_vars

LEMMA SpecIsSafe == Spec => Init /\ Safe
BY PTL DEF Spec, Safe

(* An event that is waiting, of one type *)
Pending(type, p) == event # NoEvent /\ event.type = type /\ event.peer = p

LEMMA InitPeerType == Init => TypeOK
BY PeerAssumption DEF Init, TypeOK

LEMMA StepPeerType == TypeOK /\ [Next]_vars => TypeOK'
<1> SUFFICES ASSUME TypeOK, [Next]_vars PROVE TypeOK'
  OBVIOUS
<1> USE PeerAssumption DEF TypeOK, discoveryVars, peerVars
<1>1. ASSUME NEW a \in Addrs, Publish(a) \/ SkipKnown(a) \/ TakeReadLock(a)
      PROVE  TypeOK'
  BY <1>1 DEF Publish, SkipKnown, TakeReadLock
<1>2. ASSUME NEW a \in Addrs, DialFails(a)
      PROVE  TypeOK'
  BY <1>2 DEF DialFails
<1>3. ASSUME NEW a \in Addrs, PollOutgoing(a)
      PROVE  TypeOK'
  BY <1>3 DEF PollOutgoing, Events
<1>4. ASSUME NEW p \in Peers, PollIncoming(p) \/ PollClosed(p) \/ PollIdentified(p)
      PROVE  TypeOK'
  <2>1. CASE PollIncoming(p)
    BY <2>1 DEF PollIncoming, Events
  <2>2. CASE PollClosed(p)
    BY <2>2 DEF PollClosed, Events
  <2>3. CASE PollIdentified(p)
    BY <2>3 DEF PollIdentified, Events
  <2>4. QED
    BY <1>4, <2>1, <2>2, <2>3
<1>5. ASSUME NEW i \in Interfaces, PollListening(i)
      PROVE  TypeOK'
  BY <1>5 DEF PollListening, Events
<1>6. CASE Query
  BY <1>6 DEF Query
<1>7. CASE SendDial
  BY <1>7 DEF SendDial
<1>8. CASE HandleDial
  BY <1>8 DEF HandleDial
<1>9. CASE ApplyEvent
  <2>1. event \in Events
    BY <1>9 DEF ApplyEvent
  <2>2. connectedPeers' \subseteq Peers
    BY <1>9, <2>1 DEF ApplyEvent, KeysAfter, Events
  <2>3. identified' \subseteq Peers
    BY <1>9, <2>1 DEF ApplyEvent, IdentifiedAfter, Events
  <2>4. listenAddrs' \subseteq Interfaces
    BY <1>9, <2>1 DEF ApplyEvent, ListenAddrsAfter, Events
  <2>5. QED
    BY <1>9, <2>2, <2>3, <2>4 DEF ApplyEvent
<1>10. CASE UNCHANGED vars
  BY <1>10 DEF vars
<1>11. QED
  BY <1>1, <1>2, <1>3, <1>4, <1>5, <1>6, <1>7, <1>8, <1>9, <1>10 DEF Next

(* The shared state and the two tasks keep their shapes; the channel never *)
(* holds more than it has room for.                                        *)
THEOREM PeerTypeCorrect == Spec => []TypeOK
<1>1. Init /\ Safe => []TypeOK
  BY InitPeerType, StepPeerType, PTL DEF Safe
<1>2. QED
  BY <1>1, SpecIsSafe, PTL

-----------------------------------------------------------------------------
(* Peers *)

(* NoGhostPeers at every moment: the event that waits says what the map    *)
(* does not say yet.                                                       *)
GhostInv ==
  /\ identified \subseteq connectedPeers
  /\ \A p \in connectedPeers : connections[p] > 0 \/ Pending("closed", p)
  /\ \A p \in Peers : Pending("established", p) => connections[p] > 0

LEMMA StepGhost == TypeOK /\ GhostInv /\ [Next]_vars => GhostInv'
<1> SUFFICES ASSUME TypeOK, GhostInv, [Next]_vars PROVE GhostInv'
  OBVIOUS
<1> USE DEF discoveryVars, peerVars
<1>1. CASE UNCHANGED <<connections, event, connectedPeers, identified>>
  BY <1>1 DEF GhostInv, Pending
<1>2. ASSUME NEW p \in Peers, event = NoEvent, UNCHANGED <<connectedPeers, identified>>,
             connections' = [connections EXCEPT ![p] = @ + 1],
             event' = [type |-> "established", peer |-> p]
      PROVE  GhostInv'
  BY <1>2, PeerAssumption DEF GhostInv, Pending, TypeOK
<1>3. ASSUME NEW p \in Peers, PollClosed(p)
      PROVE  GhostInv'
  <2>1. /\ event' = [type |-> "closed", peer |-> p] /\ event' # NoEvent
        /\ UNCHANGED <<connectedPeers, identified>>
    BY <1>3, PeerAssumption DEF PollClosed, Events
  <2>2. \A q \in Peers : q # p => connections'[q] = connections[q]
    BY <1>3 DEF PollClosed, TypeOK
  <2>3. \A q \in connectedPeers : connections[q] > 0
    BY <1>3 DEF PollClosed, GhostInv, Pending
  <2>4. \A q \in connectedPeers' : connections'[q] > 0 \/ Pending("closed", q)'
    BY <2>1, <2>2, <2>3 DEF TypeOK, Pending
  <2>5. \A q \in Peers : Pending("established", q)' => connections'[q] > 0
    BY <2>1 DEF Pending
  <2>6. QED
    BY <2>1, <2>4, <2>5 DEF GhostInv
<1>4. ASSUME NEW p \in Peers, PollIdentified(p)
      PROVE  GhostInv'
  BY <1>4 DEF GhostInv, Pending, TypeOK, PollIdentified
<1>5. ASSUME NEW i \in Interfaces, PollListening(i)
      PROVE  GhostInv'
  BY <1>5 DEF GhostInv, Pending, TypeOK, PollListening
<1>6. CASE ApplyEvent
  <2>1. event \in Events /\ event' = NoEvent /\ UNCHANGED connections
    BY <1>6 DEF ApplyEvent, TypeOK
  <2>2. identified' \subseteq connectedPeers'
    BY <1>6, <2>1 DEF ApplyEvent, KeysAfter, IdentifiedAfter, GhostInv, Events
  <2>3. \A p \in connectedPeers' : connections'[p] > 0
    BY <1>6, <2>1 DEF ApplyEvent, KeysAfter, GhostInv, Events, Pending
  <2>4. QED
    BY <2>1, <2>2, <2>3 DEF GhostInv, Pending
<1>7. ASSUME NEW a \in Addrs, PollOutgoing(a)
      PROVE  GhostInv'
  BY <1>2, <1>7, PeerAssumption DEF PollOutgoing
<1>8. ASSUME NEW p \in Peers, PollIncoming(p)
      PROVE  GhostInv'
  BY <1>2, <1>8 DEF PollIncoming
<1>9. QED
  BY <1>1, <1>3, <1>4, <1>5, <1>6, <1>7, <1>8
     DEF Next, vars, Publish, SkipKnown, TakeReadLock, DialFails, Query, SendDial, HandleDial

(* GET /peers never lists a peer without a connection between two events.  *)
THEOREM NoGhostPeersCorrect == Spec => []NoGhostPeers
<1>1. Init => GhostInv
  BY DEF Init, GhostInv, Pending
<1>2. GhostInv => NoGhostPeers
  BY DEF GhostInv, NoGhostPeers, Pending
<1>3. Init /\ Safe => []NoGhostPeers
  BY <1>1, <1>2, InitPeerType, StepPeerType, StepGhost, PTL DEF Safe
<1>4. QED
  BY <1>3, SpecIsSafe, PTL

-----------------------------------------------------------------------------
(* Addresses *)

LEMMA InitOnItsWay == Init => KnownOnItsWay
BY DEF Init, KnownOnItsWay, Queued, Held, Handled

LEMMA StepOnItsWay == TypeOK /\ KnownOnItsWay /\ [Next]_vars => KnownOnItsWay'
<1> SUFFICES ASSUME TypeOK, KnownOnItsWay, [Next]_vars PROVE KnownOnItsWay'
  OBVIOUS
<1>1. CASE UNCHANGED <<known, commands, sending, dialed, rejected>>
  BY <1>1 DEF KnownOnItsWay, Queued, Held, Handled
<1>2. ASSUME NEW a \in Addrs, TakeReadLock(a)
      PROVE  KnownOnItsWay'
  <2>1. Queued' = Queued /\ Held = {} /\ Held' = {a} /\ a \notin known
    BY <1>2, PeerAssumption DEF TakeReadLock, Queued, Held
  <2>2. QED
    BY <1>2, <2>1 DEF TakeReadLock, KnownOnItsWay, Handled
<1>3. CASE SendDial
  <2>1. /\ commands' \in Seq(Addrs) /\ Len(commands') = Len(commands) + 1
        /\ commands'[Len(commands) + 1] = sending
        /\ \A i \in 1 .. Len(commands) : commands'[i] = commands[i]
    BY <1>3 DEF SendDial, TypeOK
  <2>2. Len(commands) \in Nat
    BY DEF TypeOK
  <2>3. Queued' = Queued \cup {sending} /\ Held = {sending} /\ Held' = {}
    BY <1>3, <2>1, <2>2 DEF SendDial, Queued, Held
  <2>4. \A i, j \in 1 .. Len(commands') : commands'[i] = commands'[j] => i = j
    BY <2>1, <2>2, <2>3 DEF KnownOnItsWay, Queued
  <2>5. QED
    BY <1>3, <2>3, <2>4 DEF SendDial, KnownOnItsWay, Handled
<1>4. CASE HandleDial
  <2>1. /\ commands' \in Seq(Addrs) /\ Len(commands') = Len(commands) - 1
        /\ \A i \in 1 .. Len(commands') : commands'[i] = commands[i + 1]
        /\ Len(commands) \in Nat \ {0} /\ Head(commands) = commands[1]
    BY <1>4 DEF HandleDial, TypeOK
  <2>2. Queued' = Queued \ {commands[1]}
    <3>1. \A i \in 1 .. Len(commands') : i + 1 \in 1 .. Len(commands) /\ i + 1 # 1
      BY <2>1
    <3>2. \A i \in 1 .. Len(commands) : i # 1 =>
            i - 1 \in 1 .. Len(commands') /\ commands'[i - 1] = commands[i]
      BY <2>1
    <3>3. 1 \in 1 .. Len(commands)
      BY <2>1
    <3>4. Queued' \subseteq Queued \ {commands[1]}
      BY <2>1, <3>1, <3>3 DEF Queued, KnownOnItsWay
    <3>5. Queued \ {commands[1]} \subseteq Queued'
      BY <3>2 DEF Queued
    <3>6. QED
      BY <3>4, <3>5
  <2>3. commands[1] \in Queued
    BY <2>1 DEF Queued
  <2>4. \A i, j \in 1 .. Len(commands') : commands'[i] = commands'[j] => i = j
    BY <2>1 DEF KnownOnItsWay
  <2>5. /\ Held' = Held /\ known' = known
        /\ \/ dialed' = dialed \cup {commands[1]} /\ rejected' = rejected
           \/ dialed' = dialed /\ rejected' = rejected \cup {commands[1]}
    BY <1>4, <2>1 DEF HandleDial, Held, discoveryVars
  <2>6. Handled' = Handled \cup {commands[1]} /\ (dialed \cap rejected)' = {}
    BY <2>3, <2>5 DEF KnownOnItsWay, Handled
  <2>7. QED
    BY <2>2, <2>3, <2>4, <2>5, <2>6 DEF KnownOnItsWay
<1>5. QED
  BY <1>1, <1>2, <1>3, <1>4
     DEF Next, vars, discoveryVars, Publish, SkipKnown, DialFails, Query, PollOutgoing,
         PollIncoming, PollClosed, PollIdentified, PollListening, ApplyEvent

(* No known address is lost or sent twice, whatever the swarm does.        *)
THEOREM OnItsWayCorrect == Spec => []KnownOnItsWay
<1>1. Init /\ Safe => []KnownOnItsWay
  BY InitOnItsWay, StepOnItsWay, InitPeerType, StepPeerType, PTL DEF Safe
<1>2. QED
  BY <1>1, SpecIsSafe, PTL

(* The commands in the channel are distinct addresses, the one being sent  *)
(* is another one, so all of them together are no more than there are.     *)
LEMMA CommandsCounted ==
  ASSUME TypeOK, KnownOnItsWay, IsFiniteSet(Addrs), sending # NoAddr
  PROVE  Len(commands) < Cardinality(Addrs)
<1>1. Len(commands) \in Nat /\ commands \in [1 .. Len(commands) -> Addrs]
  BY DEF TypeOK
<1>2. commands \in Bijection(1 .. Len(commands), Queued)
  BY <1>1, Z3 DEF KnownOnItsWay, Queued, Bijection, Injection, Surjection, IsInjective
<1>3. IsFiniteSet(1 .. Len(commands)) /\ Cardinality(1 .. Len(commands)) = Len(commands)
  BY <1>1, FS_Interval
<1>4. IsFiniteSet(Queued) /\ Cardinality(Queued) = Len(commands)
  BY <1>2, <1>3, FS_Bijection DEF ExistsBijection
<1>5. Queued \subseteq Addrs /\ sending \in Addrs /\ sending \notin Queued
  BY <1>1 DEF TypeOK, Queued, Held, KnownOnItsWay
<1>6. Cardinality(Queued) <= Cardinality(Addrs) /\ Cardinality(Queued) # Cardinality(Addrs)
  BY <1>5, FS_Subset
<1>7. Cardinality(Addrs) \in Nat
  BY FS_CardinalityType
<1>8. QED
  BY <1>1, <1>4, <1>6, <1>7

(* With no more addresses than the channel has room for, the discovery     *)
(* task never waits while it holds the lock the event loop may need.       *)
THEOREM RoomCorrect ==
  ASSUME IsFiniteSet(Addrs), Cardinality(Addrs) <= Capacity
  PROVE  Spec => []RoomUnderLock
<1>1. TypeOK /\ KnownOnItsWay => RoomUnderLock
  <2> SUFFICES ASSUME TypeOK, KnownOnItsWay, sending # NoAddr
               PROVE  Len(commands) < Capacity
    BY DEF RoomUnderLock
  <2>1. Len(commands) < Cardinality(Addrs)
    BY CommandsCounted
  <2>2. Len(commands) \in Nat /\ Cardinality(Addrs) \in Nat
    BY FS_CardinalityType DEF TypeOK
  <2>3. QED
    BY <2>1, <2>2, PeerAssumption
<1>2. QED
  BY <1>1, PeerTypeCorrect, OnItsWayCorrect, PTL
=============================================================================
