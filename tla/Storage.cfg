CONSTANTS
  Uploads = {u1, u2, u3}
  Names = {n1, n2, n3}
  Sizes = {1, 2}
  Threads = {t1, t2}
  StorageLimit = 3
  MetaSize = 1
  NoFile = NoFile
  Empty = Empty
  Mixed = Mixed
  NoUpload = NoUpload
  NoRequest = NoRequest
SPECIFICATION Spec
INVARIANTS OvershootBounded StoredIntact ListedAfterData
SYMMETRY Symmetric
