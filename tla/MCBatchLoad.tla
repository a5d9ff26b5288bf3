------------------------------ MODULE MCBatchLoad ------------------------------
(* Batches of TLC runs for BatchLoad.                                      *)
EXTENDS BatchLoad, TLC

CONSTANTS b1, b2

\* A batch with an order of its rows, and one to disturb it.
TwoAndOne == (b1 :> 2) @@ (b2 :> 1)
JustTwo == b1 :> 2
===============================================================================
