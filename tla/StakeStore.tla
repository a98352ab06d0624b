----------------------------- MODULE StakeStore -----------------------------
(***************************************************************************)
(* HRTH stakes: the transaction that sets one, the spending lock it puts   *)
(* on its sender, the per-address stake history RocksDBWriter keeps, the   *)
(* index of candidates the payout at a period boundary walks, and what     *)
(* rolling persisted blocks back does to all of them.                      *)
(*                                                                         *)
(* The tip is a liquid block over the persisted chain (SnapshotBlockchain  *)
(* over RocksDBWriter).  A stake set at height h is in force for every     *)
(* period that starts above h; nothing is stored per period.  Fees, leases *)
(* and generation deposits are left out: they only shrink what can be      *)
(* spent.  HRTH balances are kept per height, which is what the balance    *)
(* history of the store amounts to.                                        *)
(***************************************************************************)
EXTENDS GenerationPeriod, FiniteSets, FiniteSetsExt, Sequences

CONSTANTS
  Addresses,       \* accounts
  InitialBalance,  \* HRTH each of them starts with
  Amounts,         \* amounts of a stake or a transfer
  Works,           \* work a finished period may have accumulated
  MaxHeight,       \* bound: height of the tip
  MaxStakes,       \* bound: stake transactions in a liquid block
  MaxRollbackDepth \* storage: db.max-rollback-depth

ASSUME StakeAssumption ==
  /\ InitialBalance \in [Addresses -> Nat]
  /\ Amounts \subseteq Nat /\ Works \subseteq Nat
  /\ MaxHeight \in Nat \ {0} /\ MaxStakes \in Nat /\ MaxRollbackDepth \in Nat

VARIABLES
  height,          \* persisted height
  safeRollbackHeight, \* lowest height the store can still return to
  hearth,          \* HRTH balances, by persisted height
  stakeBalance,    \* CurrentStake of an address
  stakeBalanceAt,  \* StakeNode written at a height
  activeStake,     \* candidate index: height of the last change, 0 for no entry
  stakingPayout,   \* payout record of a period, NoPayout where there is none
  blocks,          \* persisted blocks: the stakes they set and the payout they made
  liquid           \* the liquid block, NoBlock right after a rollback

storeVars == <<height, safeRollbackHeight, hearth, stakeBalance, stakeBalanceAt, activeStake, stakingPayout, blocks>>

vars == <<storeVars, liquid>>

Heights == 1 .. MaxHeight

\* A stake as the transaction declares it.
StakeCommitment == [address : Addresses, periodStart : Nat, amount : Amounts \cup {0}]

NoPayout == [issued |-> 0, credited |-> [a \in Addresses |-> 0]]

NoBlock == [height |-> 0, nextStakes |-> <<>>, hearth |-> <<>>, payout |-> NoPayout]

EmptyStake == [amount |-> 0, height |-> 0, prevHeight |-> 0]

\* What the store reads for a height nothing was written at.
EmptyNode == [amount |-> 0, prevHeight |-> 0]

-----------------------------------------------------------------------------
(* RocksDBWriter: reading a stake. *)

nodeAt(a, h) == IF h = 0 THEN EmptyNode ELSE stakeBalanceAt[a][h]

\* The stake set by the last write below the start of a period, walking down
\* the prevHeight chain from a height.
stakeBefore(a, start, period) ==
  LET walk[h \in 0 .. MaxHeight] ==
        IF h = 0 THEN 0
        ELSE IF h < period THEN nodeAt(a, h).amount
        ELSE walk[nodeAt(a, h).prevHeight]
  IN  walk[start]

storedStakeAt(a, period) ==
  IF stakeBalance[a].height < period
  THEN stakeBalance[a].amount
  ELSE stakeBefore(a, stakeBalance[a].prevHeight, period)

\* Fault: candidates that are resolved by their current amount
loadStakes_current(period) ==
  [a \in {b \in Addresses : activeStake[b] # 0 /\ stakeBalance[b].amount > 0} |-> stakeBalance[a].amount]

\* Every stake in force for a period, by address, among the candidates only.
loadStakes(period) ==
  [a \in {b \in Addresses : activeStake[b] # 0 /\ storedStakeAt(b, period) > 0} |-> storedStakeAt(a, period)]

-----------------------------------------------------------------------------
(* SnapshotBlockchain: the same two reads through the liquid block. *)

tipHeight == IF liquid = NoBlock THEN height ELSE liquid.height

hearthOf(a) == IF liquid = NoBlock THEN hearth[height][a] ELSE liquid.hearth[a]

\* Positions of the liquid block's commitments of an address that reach a period.
restatements(a, period) ==
  {i \in DOMAIN liquid.nextStakes :
     liquid.nextStakes[i].address = a /\ period >= liquid.nextStakes[i].periodStart}

stakeAt(a, period) ==
  LET restated == restatements(a, period)
  IN  IF restated = {} THEN storedStakeAt(a, period)
      ELSE liquid.nextStakes[Max(restated)].amount

stakes(period) ==
  LET stored   == loadStakes(period)
      restated == {a \in Addresses : restatements(a, period) # {}}
      staking  == (DOMAIN stored \ restated) \cup {a \in restated : stakeAt(a, period) > 0}
  IN  [a \in staking |-> IF a \in restated THEN stakeAt(a, period) ELSE stored[a]]

StakeLock(inForce, latestSet) == IF inForce >= latestSet THEN inForce ELSE latestSet

\* Fault: a cut or a release unlocks at once
lockedStake_latest(a) == stakeAt(a, nextPeriod(periodOf(tipHeight)))

lockedStake(a) ==
  LET period == periodOf(tipHeight)
  IN  StakeLock(stakeAt(a, period), stakeAt(a, nextPeriod(period)))

-----------------------------------------------------------------------------
(* Transactions, applied to the liquid block. *)

\* BalanceDiffValidation for a stake: a raise has to be covered.
coversStake(a, amount) ==
  hearthOf(a) >= StakeLock(stakeAt(a, periodOf(tipHeight)), amount)

StakeTransaction(a, amount) ==
  /\ liquid # NoBlock
  /\ Len(liquid.nextStakes) < MaxStakes
  /\ ~(amount = 0 /\ lockedStake(a) = 0)
  /\ coversStake(a, amount)
  /\ liquid' = [liquid EXCEPT !.nextStakes = Append(@,
                  [address |-> a, periodStart |-> nextPeriod(periodOf(tipHeight)), amount |-> amount])]
  /\ UNCHANGED storeVars

\* BalanceDiffValidation for a sender: locked HRTH is not spendable.
Transfer(a, b, amount) ==
  /\ liquid # NoBlock
  /\ a # b /\ amount > 0
  /\ hearthOf(a) - amount >= lockedStake(a)
  /\ liquid' = [liquid EXCEPT !.hearth[a] = @ - amount, !.hearth[b] = @ + amount]
  /\ UNCHANGED storeVars

-----------------------------------------------------------------------------
(* Appending: the next key block persists the liquid block and pays the     *)
(* finished period out when it is the first of a new one.                   *)

distribute(issued, staked) ==
  LET total == MapThenSumSet(LAMBDA a : staked[a], DOMAIN staked)
  IN  IF issued > 0 /\ total > 0
      THEN [issued   |-> issued,
            credited |-> [a \in Addresses |-> IF a \in DOMAIN staked THEN (issued * staked[a]) \div total ELSE 0]]
      ELSE NoPayout

\* StakingPayout.atPeriodBoundary, on the chain the new block is put on.
payoutAt(newHeight, work) ==
  LET finished == prevPeriod(newHeight)
  IN  IF isPeriodStart(newHeight) /\ finished # 0
      THEN distribute(work, stakes(finished))
      ELSE NoPayout

\* The last commitment of each address in a block, written the way a balance is.
stakedIn(block) == {block.nextStakes[i].address : i \in DOMAIN block.nextStakes}

lastIn(block, a) == block.nextStakes[Max({i \in DOMAIN block.nextStakes : block.nextStakes[i].address = a})].amount

\* The candidates dropped at the first block of a period.  The batch reads the
\* store as it was before the block, so a stake the block itself sets is not seen.
pruneActiveStakes(h) ==
  {a \in Addresses : isPeriodStart(h) /\ activeStake[a] # 0 /\ activeStake[a] < h /\ stakeBalance[a].amount = 0}

\* The node Caches.append makes of it, linked to the previous write.
stakeNode(block, a, h) == [amount |-> lastIn(block, a), prevHeight |-> stakeBalance[a].height]

\* RocksDBWriter.doAppend of a block.
doAppend(block) ==
  LET h == height + 1
      written == stakedIn(block)
  IN  /\ height' = h
      /\ safeRollbackHeight' = Max({safeRollbackHeight, h - MaxRollbackDepth})
      /\ hearth' = Append(hearth, block.hearth)
      /\ stakeBalance' = [a \in Addresses |->
           IF a \in written
           THEN [amount |-> lastIn(block, a), height |-> h, prevHeight |-> stakeNode(block, a, h).prevHeight]
           ELSE stakeBalance[a]]
      /\ stakeBalanceAt' = [a \in Addresses |->
           IF a \in written
           THEN [stakeBalanceAt[a] EXCEPT ![h] = stakeNode(block, a, h)]
           ELSE stakeBalanceAt[a]]
      /\ activeStake' = [a \in Addresses |->
           IF a \in pruneActiveStakes(h) THEN 0 ELSE IF a \in written THEN h ELSE activeStake[a]]
      /\ stakingPayout' = IF block.payout = NoPayout THEN stakingPayout
                          ELSE [stakingPayout EXCEPT ![prevPeriod(h)] = block.payout]
      /\ blocks' = Append(blocks, [nextStakes |-> block.nextStakes, payout |-> block.payout])

KeyBlock(work) ==
  /\ tipHeight < MaxHeight
  /\ liquid' = [height     |-> tipHeight + 1,
                nextStakes |-> <<>>,
                hearth     |-> [a \in Addresses |-> hearthOf(a)],
                payout     |-> payoutAt(tipHeight + 1, work)]
  /\ IF liquid = NoBlock THEN UNCHANGED storeVars ELSE doAppend(liquid)

-----------------------------------------------------------------------------
(* Rolling back. *)

\* Fault: the restored stake forgets what it followed
rollbackStake_unlinked(stake, node, h) ==
  IF stake.height = h
  THEN [amount |-> node[stake.prevHeight].amount, height |-> stake.prevHeight, prevHeight |-> 0]
  ELSE stake

\* node maps heights, 0 included, to stake nodes.
rollbackStake(stake, node, h) ==
  IF stake.height = h
  THEN [amount |-> node[stake.prevHeight].amount, height |-> stake.prevHeight,
        prevHeight |-> node[stake.prevHeight].prevHeight]
  ELSE stake

\* The candidate entry that goes with it.
rollbackCandidate(stake, candidate, h) == IF stake.height = h THEN stake.prevHeight ELSE candidate

rollbackStakingPayout(payouts, h) ==
  IF isPeriodStart(h) /\ prevPeriod(h) # 0 THEN [payouts EXCEPT ![prevPeriod(h)] = NoPayout] ELSE payouts

\* One height of RocksDBWriter.doRollback, on the persisted part of the state.
rollbackHeight(db) ==
  LET h == db.height
      node(a) == [g \in 0 .. MaxHeight |-> IF g = 0 THEN EmptyNode ELSE db.stakeBalanceAt[a][g]]
  IN  [height         |-> h - 1,
       stakeBalance   |-> [a \in Addresses |-> rollbackStake(db.stakeBalance[a], node(a), h)],
       stakeBalanceAt |-> [a \in Addresses |->
                             IF db.stakeBalance[a].height = h
                             THEN [db.stakeBalanceAt[a] EXCEPT ![h] = EmptyNode] ELSE db.stakeBalanceAt[a]],
       activeStake    |-> [a \in Addresses |-> rollbackCandidate(db.stakeBalance[a], db.activeStake[a], h)],
       stakingPayout  |-> rollbackStakingPayout(db.stakingPayout, h)]

\* RocksDBWriter.doRollback: the blocks above the target are undone one by one,
\* newest first.
doRollback(target) ==
  LET undo[h \in target .. height] ==
        IF h = height
        THEN [height |-> height, stakeBalance |-> stakeBalance, stakeBalanceAt |-> stakeBalanceAt,
              activeStake |-> activeStake, stakingPayout |-> stakingPayout]
        ELSE rollbackHeight(undo[h + 1])
  IN  undo[target]

\* BlockchainUpdaterImpl.removeAfter a persisted block: the liquid block goes,
\* then persisted ones.
removeAfter(target) ==
  /\ target >= safeRollbackHeight
  /\ liquid # NoBlock \/ target < height
  /\ height' = target
  /\ UNCHANGED safeRollbackHeight
  /\ hearth' = SubSeq(hearth, 1, target)
  /\ stakeBalance' = doRollback(target).stakeBalance
  /\ stakeBalanceAt' = doRollback(target).stakeBalanceAt
  /\ activeStake' = doRollback(target).activeStake
  /\ stakingPayout' = doRollback(target).stakingPayout
  /\ blocks' = SubSeq(blocks, 1, target)
  /\ liquid' = NoBlock

-----------------------------------------------------------------------------
Init ==
  /\ height = 1
  /\ safeRollbackHeight = 1
  /\ hearth = <<InitialBalance>>
  /\ stakeBalance = [a \in Addresses |-> EmptyStake]
  /\ stakeBalanceAt = [a \in Addresses |-> [h \in Heights |-> EmptyNode]]
  /\ activeStake = [a \in Addresses |-> 0]
  /\ stakingPayout = [p \in {h \in Heights : isPeriodStart(h)} |-> NoPayout]
  /\ blocks = <<[nextStakes |-> <<>>, payout |-> NoPayout]>>
  /\ liquid = NoBlock

Next ==
  \/ \E a \in Addresses, amount \in Amounts \cup {0} : StakeTransaction(a, amount)
  \/ \E a, b \in Addresses, amount \in Amounts : Transfer(a, b, amount)
  \/ \E work \in Works : KeyBlock(work)
  \/ \E target \in 1 .. height : removeAfter(target)

Spec == Init /\ [][Next]_vars

-----------------------------------------------------------------------------
(* Properties. *)

\* The stakes set by the block at a height of the whole chain, the liquid block included.
commitmentsAt(h) ==
  IF h <= height THEN blocks[h].nextStakes
  ELSE IF h = liquid.height THEN liquid.nextStakes ELSE <<>>

\* The amount an address set last at a height below a period's start, read off
\* the blocks of the chain: what a stake means.
LastSet(a, period) ==
  LET set == {x \in (1 .. tipHeight) \X (1 .. MaxStakes) :
                x[1] < period /\ x[2] \in DOMAIN commitmentsAt(x[1]) /\ commitmentsAt(x[1])[x[2]].address = a}
      last == CHOOSE x \in set : \A y \in set : x[1] > y[1] \/ (x[1] = y[1] /\ x[2] >= y[2])
  IN  IF set = {} THEN 0 ELSE commitmentsAt(last[1])[last[2]].amount

Periods == {h \in 1 .. nextPeriod(periodOf(tipHeight)) : isPeriodStart(h)}

\* Blockchain.stakeAt answers, for every period up to the next one, the amount
\* set last before the period began, whatever was restated inside it, rolled
\* back and appended again.
StakeAtIsLastSet ==
  \A a \in Addresses, period \in Periods : stakeAt(a, period) = LastSet(a, period)

\* The balance of an address covers the stake it earns on in this period and
\* the one it has set for the next, through spending, releases and rollbacks.
StakeBacked ==
  \A a \in Addresses :
    LET period == periodOf(tipHeight)
    IN  /\ hearthOf(a) >= LastSet(a, period)
        /\ hearthOf(a) >= LastSet(a, nextPeriod(period))

\* Blockchain.stakes never shares a period's issuance with an address that had
\* no stake in it, nor by another amount than the one in force.
PayoutOnlyOwed ==
  \A period \in Periods :
    \A a \in DOMAIN stakes(period) : stakes(period)[a] > 0 /\ stakes(period)[a] = LastSet(a, period)

\* Everyone staked in the period that the next block pays out is found by the
\* scan of the candidates, those who released during it included.
PayoutComplete ==
  LET finished == prevPeriod(tipHeight + 1)
  IN  isPeriodStart(tipHeight + 1) /\ finished # 0 =>
        \A a \in Addresses : LastSet(a, finished) > 0 => a \in DOMAIN stakes(finished)
=============================================================================
