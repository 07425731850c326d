------------------------------ MODULE MCTxPath ------------------------------
(* TxPath for TLC: a slow format that takes one byte per launch and a fast   *)
(* one that takes two.                                                       *)
EXTENDS TxPath

MCFormats == {"slow", "fast"}
MCBudget  == [slow |-> 1, fast |-> 2]
=============================================================================
