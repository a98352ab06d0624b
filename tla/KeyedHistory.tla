---------------------------- MODULE KeyedHistory ----------------------------
(***************************************************************************)
(* A height-keyed ledger entry of RocksDBWriter: the heights it was        *)
(* written at, newest first, and the value put at each of them.  Every     *)
(* write prunes what no rollback can need any more.                        *)
(***************************************************************************)
EXTENDS Integers, Sequences, Functions, SeqFilter

EmptyLedger == [history |-> <<>>, value |-> <<>>]

fromHistory(ledger, default) ==
  IF ledger.history = <<>> THEN default ELSE ledger.value[Head(ledger.history)]

\* Heights at or above the threshold stay, and of those below it the newest.
keptHistory(history, threshold) ==
  LET recent == KeepIn(history, {h \in Range(history) : h >= threshold})
      older  == KeepIn(history, {h \in Range(history) : h < threshold})
  IN  recent \o (IF older = <<>> THEN <<>> ELSE <<Head(older)>>)

\* Fault: of the heights below the threshold none is kept
updateHistory_recent(history, height, threshold) ==
  <<height>> \o KeepIn(history, {h \in Range(history) : h >= threshold})

updateHistory(history, height, threshold) == <<height>> \o keptHistory(history, threshold)

writeKeyed(ledger, height, threshold, v) ==
  LET history == updateHistory(ledger.history, height, threshold)
  IN  [history |-> history,
       value   |-> [h \in Range(history) |-> IF h = height THEN v ELSE ledger.value[h]]]

\* Nothing was written at a height that is not in the history.
rollbackKeyed(ledger, height) ==
  LET history == KeepIn(ledger.history, Range(ledger.history) \ {height})
  IN  [history |-> history, value |-> [h \in Range(history) |-> ledger.value[h]]]
=============================================================================
