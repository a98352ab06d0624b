-------------------------- MODULE MC_ExtensionLoader --------------------------
(* Instances of ExtensionLoader for TLC. *)
EXTENDS ExtensionLoader

CONSTANTS a, b, rogue

Genesis == [by |-> None, micro |-> 0]

Slot(p) == [by |-> p, micro |-> 0]

\* The node is at genesis, a ahead of it by two blocks
Ahead == [p \in Peers |-> <<Genesis, Slot(a), Slot(a)>>]

AtGenesis == <<Genesis>>

\* The node is on the fork of b, which has an invalid block on top; a has the same height
Forked == [p \in Peers |-> IF p = a THEN <<Genesis, Slot(a), Slot(a)>> ELSE <<Genesis, Slot(b), Slot(b), Slot(rogue)>>]

OnFork == <<Genesis, Slot(b), Slot(b)>>
=============================================================================
