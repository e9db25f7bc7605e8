-------------------------- MODULE MCReconciliation --------------------------
(* Bank rows are only compared for equality, so they are symmetric.        *)
EXTENDS Reconciliation, TLC

BankSymmetry == Permutations(Banks)
=============================================================================
