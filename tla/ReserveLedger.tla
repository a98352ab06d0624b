---------------------------- MODULE ReserveLedger ----------------------------
(***************************************************************************)
(* What a client reserves with a miner: Reserve locks an asset, Settle     *)
(* retires part of it against an enclave's cumulative counter, Withdraw    *)
(* asks for the rest back and is paid at the first block of the period     *)
(* after next.  One (client, miner, asset) is modelled: the ledgers of two *)
(* of them share no entry.  The enclave is registered throughout, its      *)
(* validator committed, and fees are left out.                             *)
(*                                                                         *)
(* The four ledgers live in RocksDBWriter as height-keyed entries with a   *)
(* pruned history, under a liquid block; the index of payouts due is       *)
(* stored beside them.  Balances and the validator's work, summed over the *)
(* periods, are kept per height in the chain.                              *)
(***************************************************************************)
EXTENDS GenerationPeriod, KeyedHistory

CONSTANTS
  Quantity,                \* what the client owns of the asset
  Amounts,                 \* amounts of a Reserve or a Withdraw
  Counters,                \* cumulative counters an enclave may sign
  exactSettleSplitHeight,  \* functionality-settings.exact-settle-split-height
  MaxRollbackDepth,        \* db.max-rollback-depth
  MaxHeight                \* bound: height of the tip

ASSUME ReserveAssumption ==
  /\ Quantity \in Nat
  /\ Amounts \subseteq Nat \ {0} /\ Counters \subseteq Nat
  /\ exactSettleSplitHeight \in Nat /\ MaxRollbackDepth \in Nat /\ MaxHeight \in Nat

VARIABLES
  height,              \* persisted height
  safeRollbackHeight,  \* lowest height the store can still return to
  chain,               \* what the ledgers and balances are after each persisted block
  ledger,              \* the keyed entries of the store, by family
  withdrawalDue,       \* heights the store has a payout index entry for
  liquid               \* the liquid block, NoBlock right after a rollback

storeVars == <<height, safeRollbackHeight, chain, ledger, withdrawalDue>>

vars == <<storeVars, liquid>>

Families == {"reserved", "settled", "withdrawn", "pending"}

\* 0 for no request, as payoutAt is a height.
NoPending == [amount |-> 0, payoutAt |-> 0]

EmptyView ==
  [client |-> Quantity, miner |-> 0, work |-> 0,
   reserved |-> 0, settled |-> 0, withdrawn |-> 0, pending |-> NoPending]

\* view is what the block's snapshot makes of the ledgers, writes the families it has entries of.
NoBlock == [height |-> 0, view |-> EmptyView, writes |-> {}]

-----------------------------------------------------------------------------
(* Reads, through the liquid block and below it. *)

default(family) == EmptyView[family]

storedView ==
  [f \in DOMAIN EmptyView |->
     IF f \in Families THEN fromHistory(ledger[f], default(f)) ELSE chain[height][f]]

tip == IF liquid = NoBlock THEN storedView ELSE liquid.view

tipHeight == IF liquid = NoBlock THEN height ELSE liquid.height

settleableAmount(v) == v.reserved - v.withdrawn

unsettledAmount(v) == settleableAmount(v) - v.settled

\* Whether the request is among those due at a height: the stored index less
\* what the liquid block cleared, and what the liquid block scheduled.
isWithdrawalDue(h) ==
  LET restated == "pending" \in liquid.writes
  IN  \/ h \in withdrawalDue /\ ~(restated /\ liquid.view.pending = NoPending)
      \/ restated /\ liquid.view.pending.payoutAt = h

-----------------------------------------------------------------------------
(* Transactions, applied to the liquid block. *)

\* A part p[1] / p[2] of an amount, multiplying or dividing first.
floorOf(p, l) == (l * p[1]) \div p[2]

Fraction(p, l) == (l \div p[2]) * p[1]

\* Fault: the share of each settlement rounded up
share_up(p, exact, previouslySettled, newCumulative) ==
  (p[1] * (newCumulative - previouslySettled) + p[2] - 1) \div p[2]

\* The growth of the share of the counter; each delta's own share below
\* exactSettleSplitHeight.
share(p, exact, previouslySettled, newCumulative) ==
  IF exact THEN floorOf(p, newCumulative) - floorOf(p, previouslySettled)
  ELSE Fraction(p, newCumulative - previouslySettled)

ServingNodeCredPart == <<3, 10>>

BurnedWorkPart == <<6, 10>>

Apply(view, families) ==
  /\ liquid' = [liquid EXCEPT !.view = view, !.writes = @ \cup families]
  /\ UNCHANGED storeVars

Reserve(amount) ==
  /\ liquid # NoBlock
  /\ amount <= tip.client
  /\ Apply([tip EXCEPT !.client = @ - amount, !.reserved = @ + amount], {"reserved"})

Withdraw(amount) ==
  /\ liquid # NoBlock
  /\ tip.reserved > 0
  /\ tip.pending = NoPending
  /\ amount <= unsettledAmount(tip)
  /\ Apply([tip EXCEPT !.pending = [amount |-> amount, payoutAt |-> nextPeriod(nextPeriod(periodOf(tipHeight)))]],
           {"pending"})

Settle(newCumulative) ==
  LET exact == tipHeight >= exactSettleSplitHeight
  IN  /\ liquid # NoBlock
      /\ tip.reserved > 0
      /\ newCumulative >= tip.settled
      /\ newCumulative <= settleableAmount(tip)
      /\ Apply([tip EXCEPT !.settled = newCumulative,
                           !.miner = @ + share(ServingNodeCredPart, exact, tip.settled, newCumulative),
                           !.work = @ + share(BurnedWorkPart, exact, tip.settled, newCumulative)],
               {"settled"})

-----------------------------------------------------------------------------
(* Blocks. *)

MinOf(x, y) == IF x <= y THEN x ELSE y

\* Fault: pays what was asked for, whatever was settled since
payable_asked(v) == v.pending.amount

\* What the payout returns: the request, up to what is still unsettled.
payable(v) == MinOf(v.pending.amount, unsettledAmount(v))

\* WithdrawalPayout.atPeriodBoundary: the view the new block starts from.
paidOut(h) ==
  IF isPeriodStart(h) /\ isWithdrawalDue(h) /\ tip.pending.payoutAt = h
  THEN [height |-> h,
        view   |-> [tip EXCEPT !.client = @ + payable(tip), !.withdrawn = @ + payable(tip), !.pending = NoPending],
        writes |-> {"pending"} \cup (IF payable(tip) > 0 THEN {"withdrawn"} ELSE {})]
  ELSE [height |-> h, view |-> tip, writes |-> {}]

\* What a persisted block does to the index of payouts due: only the payout
\* clears a request, at its own height.
indexed(due, block) ==
  IF "pending" \notin block.writes THEN due
  ELSE IF block.view.pending = NoPending THEN due \ {block.height}
  ELSE due \cup {block.view.pending.payoutAt}

\* RocksDBWriter.doAppend of a block.
doAppend(block) ==
  LET threshold == block.height - MaxRollbackDepth
  IN  /\ height' = block.height
      /\ safeRollbackHeight' = IF safeRollbackHeight < threshold THEN threshold ELSE safeRollbackHeight
      /\ chain' = Append(chain, block.view)
      /\ ledger' = [f \in Families |->
           IF f \in block.writes THEN writeKeyed(ledger[f], block.height, threshold, block.view[f]) ELSE ledger[f]]
      /\ withdrawalDue' = indexed(withdrawalDue, block)

KeyBlock ==
  /\ tipHeight < MaxHeight
  /\ liquid' = paidOut(tipHeight + 1)
  /\ IF liquid = NoBlock THEN UNCHANGED storeVars ELSE doAppend(liquid)

\* Fault: the payout of a discarded block is not due again
unindexed_cleared(due, entry, h) ==
  IF h \notin DOMAIN entry.value THEN due ELSE due \ {entry.value[h].payoutAt}

\* What discarding a block does to the index, while its entry can still be read.
unindexed(due, entry, h) ==
  IF h \notin DOMAIN entry.value THEN due
  ELSE IF entry.value[h] = NoPending THEN due \cup {h}
  ELSE due \ {entry.value[h].payoutAt}

\* RocksDBWriter.doRollback: the blocks above the target are undone one by one,
\* newest first.
doRollback(target) ==
  LET undo[h \in target .. height] ==
        IF h = height THEN [ledger |-> ledger, due |-> withdrawalDue]
        ELSE [ledger |-> [f \in Families |-> rollbackKeyed(undo[h + 1].ledger[f], h + 1)],
              due    |-> unindexed(undo[h + 1].due, undo[h + 1].ledger["pending"], h + 1)]
  IN  undo[target]

\* BlockchainUpdaterImpl.removeAfter a persisted block: the liquid block goes,
\* then persisted ones.
removeAfter(target) ==
  /\ target >= safeRollbackHeight
  /\ liquid # NoBlock \/ target < height
  /\ height' = target
  /\ chain' = SubSeq(chain, 1, target)
  /\ ledger' = doRollback(target).ledger
  /\ withdrawalDue' = doRollback(target).due
  /\ liquid' = NoBlock
  /\ UNCHANGED safeRollbackHeight

-----------------------------------------------------------------------------
Init ==
  /\ height = 1
  /\ safeRollbackHeight = 1
  /\ chain = <<EmptyView>>
  /\ ledger = [f \in Families |-> EmptyLedger]
  /\ withdrawalDue = {}
  /\ liquid = NoBlock

Next ==
  \/ \E amount \in Amounts : Reserve(amount)
  \/ \E amount \in Amounts : Withdraw(amount)
  \/ \E counter \in Counters : Settle(counter)
  \/ KeyBlock
  \/ \E target \in 1 .. height : removeAfter(target)

Spec == Init /\ [][Next]_vars

-----------------------------------------------------------------------------
(* Properties. *)

\* Every read of a ledger answers what the blocks of the chain made of it,
\* however much of its history was pruned and however far it was rolled back.
LedgerFollowsChain ==
  \A f \in Families : fromHistory(ledger[f], default(f)) = chain[height][f]

\* settled + withdrawn <= reserved (Blockchain.settleableAmount), and what the
\* client holds and what it has locked add up to what it had.
ReservationCovered ==
  /\ tip.settled + tip.withdrawn <= tip.reserved
  /\ tip.client + tip.reserved - tip.withdrawn = Quantity

\* A request is paid by the first block of the period after next at the latest:
\* none is left pending at or below the tip, even when the boundary block was
\* discarded and made again.
PaidInTime ==
  tip.pending # NoPending => tip.pending.payoutAt > tipHeight

\* However a spend is split over settlements, and on whichever side of
\* exactSettleSplitHeight, the miner and the validator never get more than
\* their share of the counter.
SharesBounded ==
  /\ tip.miner <= floorOf(ServingNodeCredPart, tip.settled)
  /\ tip.work <= floorOf(BurnedWorkPart, tip.settled)
=============================================================================
