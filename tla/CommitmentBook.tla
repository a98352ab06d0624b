--------------------------- MODULE CommitmentBook ---------------------------
(***************************************************************************)
(* What the storage of commitments promises: every height has a book, the  *)
(* committed generators of each period in the order of their commitments.  *)
(* A block commits generators for the period after its own, at the end of  *)
(* the list, each of them once; the only way to lose a commitment is to    *)
(* undo the block that has it.                                             *)
(***************************************************************************)
EXTENDS GenerationPeriod, FiniteSets, Sequences, Functions

CONSTANTS
  Addresses,        \* accounts
  GenesisCommitted, \* the generators of the first period
  Periods           \* starts of the periods

VARIABLE books  \* by height

Last(bs) == bs[Len(bs)]

Front(bs) == SubSeq(bs, 1, Len(bs) - 1)

\* What one block can commit: no address more than once
Lists == UNION {[1 .. n -> Addresses] : n \in 0 .. Cardinality(Addresses)}

\* The book after a block at height h adds the commitments
Committed(book, h, commits) == [book EXCEPT ![nextPeriod(periodOf(h))] = @ \o commits]

\* Commitments a block at height h may add to the book
Fresh(book, h, commits) ==
  /\ nextPeriod(periodOf(h)) \in Periods
  /\ IsInjective(book[nextPeriod(periodOf(h))] \o commits)

Init == books = <<[p \in Periods |-> IF p = 1 THEN GenesisCommitted ELSE <<>>]>>

\* A block on top of the last one
NewBlock(old, new) ==
  \E commits \in Lists :
    /\ Fresh(Last(old), Len(old) + 1, commits)
    /\ new = Append(old, Committed(Last(old), Len(old) + 1, commits))

\* A commitment in a microblock of the last block
Commit(old, new) ==
  \E a \in Addresses :
    /\ Len(old) > 1
    /\ Fresh(Last(old), Len(old), <<a>>)
    /\ new = Append(Front(old), Committed(Last(old), Len(old), <<a>>))

\* The last block gives way to another one
Replace(old, new) ==
  /\ Len(old) > 1
  /\ new = Append(Front(old), old[Len(old) - 1])

\* Blocks are undone
Undo(old, new) == \E target \in 1 .. Len(old) : new = SubSeq(old, 1, target)

Next ==
  \E old \in {books}, new \in {books'} :
    NewBlock(old, new) \/ Commit(old, new) \/ Replace(old, new) \/ Undo(old, new)

Spec == Init /\ [][Next]_books

-----------------------------------------------------------------------------
(* What a reader of the book may rely on. *)

\* An address is committed to a period once, at whatever height the book is read
\* (CommitToGenerationTransactionDiff refuses a second commitment), so that an
\* index in a voting names one generator and an address has one deposit a period.
OncePerPeriod == \A h \in 1 .. Len(books), p \in Periods : IsInjective(books[h][p])

\* The committee of a period is closed when the period begins: every later block
\* of the chain sees the same generators under the same indexes.
ClosedWhenBegun ==
  \A h \in 1 .. Len(books) : \A k \in 1 .. h, p \in Periods : p <= periodOf(k) => books[h][p] = books[k][p]
=============================================================================
