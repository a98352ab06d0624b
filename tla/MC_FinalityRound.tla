-------------------------- MODULE MC_FinalityRound --------------------------
(* Instances of FinalityRound for TLC. *)
EXTENDS FinalityRound

\* Me is generator 0: 1 finalizes with it, and when 1 turns out to be in conflict
\* finality is lost until 2 endorses.  3 is too poor to matter, and fills the
\* places of richer endorsers until they come.
MCBalance == [g \in Generators |-> CASE g = 0 -> 2 [] g = 1 -> 5 [] g = 2 -> 3 [] OTHER -> 1]

\* BlockEndorser makes the filters.
MCFilters == {}
============================================================================
