---------------------------- MODULE MC_StakeStore ----------------------------
(* StakeStore on a small instance: one funded account. *)
EXTENDS StakeStore, TLC

CONSTANTS a, b

MCBalance == [x \in Addresses |-> IF x = a THEN 1 ELSE 0]
=============================================================================
