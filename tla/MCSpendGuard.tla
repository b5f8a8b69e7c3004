---------------------------- MODULE MCSpendGuard ----------------------------
(* Small instances of SpendGuard for TLC. *)
EXTENDS SpendGuard, TLC

Servers == Permutations(Server) \cup Permutations(Call)

(* Orders that fit twice, once, and not at all; a size that is none.       *)
AllSizes == {2, 3, 5}
TwoSizes == {2, 3}
OneSize == {0, 3}

(* The file is absent, unreadable, or holds yesterday's exhausted budget.  *)
AnyBootDisk == {Missing, Corrupt, Valid(0, DailyLimitUsd)}
CorruptBootDisk == {Corrupt}
MissingBootDisk == {Missing}
=============================================================================
