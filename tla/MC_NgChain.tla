----------------------------- MODULE MC_NgChain -----------------------------
(* Instances of NgChain for TLC. *)
EXTENDS NgChain

\* Equal weights: with two generators the miner needs the other one's vote.
EqualBalance == [g \in Generators |-> 1]

\* Unequal weights: generator 1 is two thirds on its own.
UnequalBalance == [g \in Generators |-> g + 1]

MCVotings ==
  {NoVoting} \cup {[valid |-> {g}, conflict |-> {}] : g \in Generators}
             \cup {[valid |-> {}, conflict |-> {g}] : g \in Generators}
=============================================================================
