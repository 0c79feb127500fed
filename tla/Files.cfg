CONSTANTS
  alice = alice
  bob = bob
  f1 = f1
  g1 = g1
  Users = {alice, bob}
  Nobody = Nobody
  Files = {f1, g1}
  OwnerOf <- MCOwnerOf
  Hosted = {f1, g1}
  Slots = {s1, s2}
  NoPayment = NoPayment
  NoDialog = NoDialog
SPECIFICATION Spec
INVARIANTS NothingLostNorRevived MonthsArePaid PaidIsExtended OwnFilesOnly
SYMMETRY SlotSymmetry
