CONSTANTS
  p1 = p1
  a1 = a1
  a2 = a2
  Peers = {p1, p2}
  Addrs = {a1, a2}
  Owner <- MCOwner
  Capacity = 2
  MaxConnections = 2
  Interfaces = {i1}
  NoAddr = NoAddr
  NoEvent = NoEvent
SPECIFICATION Spec
INVARIANTS NoGhostPeers KnownOnItsWay RoomUnderLock
 
