---------------------------- MODULE MCWalletSession ----------------------------
(* Two wallets with two accounts each; one address is in both.             *)
EXTENDS WalletSession, TLC

CONSTANTS station, bearby, s1, s2, b1, b2, addr1, addr2, addr3

MCWalletOf  == (s1 :> station) @@ (s2 :> station) @@ (b1 :> bearby) @@ (b2 :> bearby)
MCAddressOf == (s1 :> addr1) @@ (s2 :> addr2) @@ (b1 :> addr1) @@ (b2 :> addr3)
=============================================================================
