-------------------------- MODULE MCReconciliation --------------------------
(* An instance of Reconciliation: three balances in a batch of two chunks, sent up to twice. *)
EXTENDS ReconciliationProperties

CONSTANTS b1, b2, b3, w1, w2

MCOrders == {<<b1, b2, b3>>}

WorkerSymmetry == Permutations({w1, w2})
=============================================================================
