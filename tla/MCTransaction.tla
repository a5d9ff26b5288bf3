----------------------------- MODULE MCTransaction -----------------------------
(***************************************************************************)
(* Transaction for TLC: two transactions and plain statements share one    *)
(* connection.  The transactions are interchangeable.                      *)
(***************************************************************************)
EXTENDS Transaction, TLC

Permute == Permutations(Txns)
===============================================================================
