----------------------------- MODULE MCHostedFiles -----------------------------
(* Two accounts with an entry each.                                        *)
EXTENDS HostedFiles, TLC

CONSTANTS alice, bob, f1, g1

SlotSymmetry == Permutations(Slots)

MCOwnerOf == (f1 :> alice) @@ (g1 :> bob)
=============================================================================
