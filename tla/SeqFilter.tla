------------------------------ MODULE SeqFilter ------------------------------
EXTENDS Naturals, Sequences

\* filter of the collections library, for a set of wanted elements: those of s that
\* are in S, in their order.  A recursive function, so that facts about it can be proved.
KeepIn(s, S) ==
  LET kept[i \in 0 .. Len(s)] ==
        IF i = 0 THEN <<>> ELSE IF s[i] \in S THEN Append(kept[i - 1], s[i]) ELSE kept[i - 1]
  IN  kept[Len(s)]
=============================================================================
