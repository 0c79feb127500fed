--------------------------- MODULE ProviderDirectory ---------------------------
(***************************************************************************)
(* What the contract promises about who provides storage, without saying   *)
(* how it is stored: a set of members and their number.  A provider joins  *)
(* once; it may leave, and then stays known and does not come back         *)
(* (registerStorageNode refuses an address that has a record,              *)
(* unregisterStorageNode keeps the record).                                *)
(***************************************************************************)
EXTENDS Integers

CONSTANT Providers

VARIABLES
  members,   \* the active providers
  known,     \* everyone who ever joined
  count      \* how many members there are

directory == <<members, known, count>>

Init == members = {} /\ known = {} /\ count = 0

Join(a) ==
  /\ a \notin known
  /\ members' = members \cup {a} /\ known' = known \cup {a}
  /\ count' = count + 1

Leave(a) ==
  /\ a \in members
  /\ members' = members \ {a} /\ known' = known
  /\ count' = count - 1

Next == \E a \in Providers : Join(a) \/ Leave(a)

Spec == Init /\ [][Next]_directory
=============================================================================
