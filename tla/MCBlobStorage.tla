---------------------------- MODULE MCBlobStorage ----------------------------
(* BlobStorage on a few uploads; uploads, names and threads are symmetric. *)
EXTENDS BlobStorage, TLC

Symmetric == Permutations(Uploads) \cup Permutations(Names) \cup Permutations(Threads)
=============================================================================
