---------------------------- MODULE MCLendingPool -----------------------------
(* Small instances of LendingPool for TLC: WAD = 20 makes every division   *)
(* of the contract round, so the dust of each operation is exercised.      *)
EXTENDS LendingPool, TLC

Symmetry == Permutations(Accounts)

===============================================================================
