------------------------- MODULE MC_GenerationStore -------------------------
(* Small instances of GenerationStore. *)
EXTENDS GenerationStore

CONSTANTS alice, bob

\* Both committed in the genesis block, bob with just enough to do so
MCGenesisCommitted == <<alice, bob>>

MCInitialBalance == [x \in Addresses |-> IF x = alice THEN 4 ELSE 2]
\* bob spends all it can
MCTransfers == {[from |-> bob, to |-> alice, amount |-> 1]}
=============================================================================
