---------------------------- MODULE MCRecommend ----------------------------
(* Recommend for TLC; no property of its runs depends on the usage.        *)
EXTENDS Recommend

MCUsages == {[bill |-> [k \in Totals |-> 0], counted |-> Totals]}
=============================================================================
