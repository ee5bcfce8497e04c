---------------------------- MODULE MCLLMClient ----------------------------
(* LLMClient for TLC: the usage block of a response is read as a whole, up *)
(* to its completion count, or not at all.                                 *)
EXTENDS LLMClient

MCBill == [in |-> 1, out |-> 2, cost |-> 3]

MCUsages == [bill : {MCBill}, counted : {Totals, {"in"}}]
=============================================================================
