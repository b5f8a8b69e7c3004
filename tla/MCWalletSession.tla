--------------------------- MODULE MCWalletSession ---------------------------
(* A small instance of WalletSession. *)
EXTENDS WalletSession, TLC

CONSTANTS a1, a2

Accounts == Permutations({a1, a2})
=============================================================================
