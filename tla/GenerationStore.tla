--------------------------- MODULE GenerationStore ---------------------------
(***************************************************************************)
(* Who may generate: commitments to the next generation period with the    *)
(* deposit they lock, generators found in conflict and the penalty the     *)
(* next block takes from them, generators without a commitment that fill   *)
(* in when no committed one can, and how the store keeps all of it, per    *)
(* height below and in caches by period above, through rollback and        *)
(* restart.                                                                *)
(*                                                                         *)
(* The tip is a liquid block over the persisted chain.  A transfer stands  *)
(* for every transaction that spends; fees, leases, stakes and work boosts *)
(* are left out, and so is the proof of stake: any eligible generator may  *)
(* be the next.  Balances are kept per height, which is what the balance   *)
(* history of the store amounts to, and the window of the generating       *)
(* balance (1000 blocks) is longer than the chain.                         *)
(***************************************************************************)
EXTENDS GenerationPeriod, FiniteSets, FiniteSetsExt, Sequences, SequencesExt

CONSTANTS
  Addresses,        \* accounts
  GenesisCommitted, \* the generators committed in the genesis block
  InitialBalance,   \* HRTH each account starts with
  DepositInEmbers,  \* what a commitment locks and a conflict costs
  MinimalEffectiveBalanceForGenerator,
  BlockReward,      \* reward of a block
  Transfers,        \* the transfers that may be made: sender, recipient, amount
  MaxHeight,        \* bound: height of the tip
  MaxMicroBlocks,   \* bound: microblocks of a liquid block
  MaxRollbackDepth, \* storage: db.max-rollback-depth
  None

ASSUME GenerationAssumption ==
  /\ Range(GenesisCommitted) \subseteq Addresses
  /\ InitialBalance \in [Addresses -> Nat]
  /\ DepositInEmbers \in Nat /\ BlockReward \in Nat
  /\ MinimalEffectiveBalanceForGenerator \in Nat
  /\ Transfers \subseteq [from : Addresses, to : Addresses, amount : Nat]
  /\ MaxHeight \in Nat /\ MaxMicroBlocks \in Nat /\ MaxRollbackDepth \in Nat

VARIABLES
  blocks,                   \* the persisted blocks
  safeRollbackHeight,       \* lowest height the store can still return to
  committedAt,              \* Keys.committedGenerators, by height
  conflictAt,               \* Keys.conflictGenerators, by height
  implicitAt,               \* Keys.implicitGenerator, by height
  committedGeneratorsCache, \* Caches, by period; None is not loaded
  conflictGeneratorsCache,
  implicitGeneratorsCache,
  liquid,                   \* the liquid block, None right after a rollback
  dropped                   \* blocks the extension appender still has to put back

vars == <<blocks, safeRollbackHeight, committedAt, conflictAt, implicitAt, committedGeneratorsCache,
          conflictGeneratorsCache, implicitGeneratorsCache, liquid, dropped>>

Heights == 1 .. MaxHeight

\* Periods that a block of the model can commit to
Periods == {p \in 1 .. nextPeriod(periodOf(MaxHeight)) : isPeriodStart(p)}

height == Len(blocks)

NoCommitments == [period |-> 1, generators |-> <<>>]

NoConflicts == [h \in Heights |-> {}]

Unloaded == [p \in Periods |-> None]

\* A block as the properties need it: its miner, whether its header declares a
\* VRF key, the commitments and the conflicts in it, and the balances and the
\* HRTH supply after it.
Block(m, declares, hearth, supply) ==
  [miner |-> m, declares |-> declares, commits |-> <<>>, conflict |-> {}, hearth |-> hearth, supply |-> supply,
   micros |-> 0]

Init ==
  LET genesis == [Block(None, FALSE, InitialBalance, MapThenSumSet(LAMBDA a : InitialBalance[a], Addresses))
                    EXCEPT !.commits = GenesisCommitted]
  IN  /\ blocks = <<genesis>>
      /\ safeRollbackHeight = 1
      /\ committedAt = [h \in Heights |-> IF h = 1 THEN [period |-> 1, generators |-> GenesisCommitted]
                                                   ELSE NoCommitments]
      /\ conflictAt = NoConflicts
      /\ implicitAt = [h \in Heights |-> None]
      /\ committedGeneratorsCache = Unloaded
      /\ conflictGeneratorsCache = Unloaded
      /\ implicitGeneratorsCache = Unloaded
      /\ liquid = None
      /\ dropped = <<>>

-----------------------------------------------------------------------------
(* The persisted state: RocksDBWriter and the caches over it. *)

loadCommittedGenerators(p) ==
  FlattenSeq([h \in Heights |-> IF committedAt[h].period = p THEN committedAt[h].generators ELSE <<>>])

\* ConflictGenerators: the indexes of a period per height
conflictsIn(entries, p) == [h \in Heights |-> IF periodOf(h) = p THEN entries[h] ELSE {}]

loadConflictGenerators(p) == conflictsIn(conflictAt, p)

loadImplicitGenerators(p) ==
  SelectSeq([h \in Heights |-> IF periodOf(h) = p THEN implicitAt[h] ELSE None], LAMBDA a : a # None)

\* The periods whose commitments and conflicts are cached; of implicit
\* generators only the current period is.
cachedPeriods == {periodOf(height), nextPeriod(periodOf(height))}

cached(cache, p, loaded) == IF p \in cachedPeriods /\ cache[p] # None THEN cache[p] ELSE loaded

storedCommitted(p) == cached(committedGeneratorsCache, p, loadCommittedGenerators(p))

storedConflict(p) == cached(conflictGeneratorsCache, p, loadConflictGenerators(p))

storedImplicit(p) ==
  IF p = periodOf(height) THEN cached(implicitGeneratorsCache, p, loadImplicitGenerators(p))
  ELSE loadImplicitGenerators(p)

-----------------------------------------------------------------------------
(* SnapshotBlockchain: the store with a liquid block v on top, or None. *)

heightOf(v) == IF v = None THEN height ELSE height + 1

top(v) == IF v = None THEN blocks[height] ELSE v

\* Fault: the commitments of the liquid block come before the persisted ones
committedGenerators_liquidFirst(v, p) ==
  (IF v # None /\ p = nextPeriod(periodOf(heightOf(v))) THEN v.commits ELSE <<>>) \o storedCommitted(p)

committedGenerators(v, p) ==
  storedCommitted(p) \o (IF v # None /\ p = nextPeriod(periodOf(heightOf(v))) THEN v.commits ELSE <<>>)

conflictGenerators(v, p) ==
  IF v = None \/ p < periodOf(heightOf(v)) THEN storedConflict(p)
  ELSE IF p > periodOf(heightOf(v)) THEN NoConflicts
  ELSE [storedConflict(p) EXCEPT ![heightOf(v)] = v.conflict]

implicitGenerators(v, p) ==
  storedImplicit(p) \o (IF v # None /\ v.declares /\ p = periodOf(heightOf(v)) THEN <<v.miner>> ELSE <<>>)

upTo(conflicts, h) == UNION {conflicts[k] : k \in {k \in Heights : k <= h}}

\* Fault: the deposit is released in the block that reports the conflict
generationDeposit_early(v, a) ==
  LET p == periodOf(heightOf(v))
      onCurrent == {i \in DOMAIN committedGenerators(v, p) : committedGenerators(v, p)[i] = a}
      onNext == a \in Range(committedGenerators(v, nextPeriod(p)))
  IN  DepositInEmbers * ((IF onCurrent \ upTo(conflictGenerators(v, p), heightOf(v)) # {} THEN 1 ELSE 0)
                         + (IF onNext THEN 1 ELSE 0))

generationDeposit(v, a) ==
  LET p == periodOf(heightOf(v))
      onCurrent == {i \in DOMAIN committedGenerators(v, p) : committedGenerators(v, p)[i] = a}
      onNext == a \in Range(committedGenerators(v, nextPeriod(p)))
  IN  DepositInEmbers * ((IF onCurrent \ upTo(conflictGenerators(v, p), heightOf(v) - 1) # {} THEN 1 ELSE 0)
                         + (IF onNext THEN 1 ELSE 0))

\* The commitments of a up to the next period, in the order of the keys
committedHeights(a) ==
  LET heights == {h \in Heights : a \in Range(committedAt[h].generators)}
      commitment(h) == LET gs == loadCommittedGenerators(committedAt[h].period)
                       IN  [period |-> committedAt[h].period, height |-> h, index |-> CHOOSE i \in DOMAIN gs : gs[i] = a]
  IN  [k \in 1 .. Cardinality(heights) |-> commitment(SetToSortSeq(heights, <)[k])]

\* collectGenerationDepositChanges: number of deposits added and released at each
\* height.  The release overwrites what is already noted for its height.
depositDiffs(a) ==
  LET release(c) == LET hs == {h \in Heights : c.index \in storedConflict(c.period)[h]}
                    IN  IF hs = {} THEN nextPeriod(c.period) ELSE Min(hs) + 1
      note(diffs, c) == [diffs EXCEPT ![c.height] = @ + 1, ![release(c)] = -1]
  IN  FoldLeft(note, [h \in 1 .. nextPeriod(nextPeriod(periodOf(MaxHeight))) |-> 0], committedHeights(a))

depositAt(diffs, h) == DepositInEmbers * MapThenSumSet(LAMBDA k : diffs[k], 1 .. h)

\* balanceSnapshots and the least of them: the window covers the whole chain
generatingBalance(v, a) ==
  LET diffs == depositDiffs(a)
      stored == {blocks[h].hearth[a] - depositAt(diffs, h) : h \in 1 .. height}
  IN  Min(stored \cup (IF v = None THEN {} ELSE {v.hearth[a] - generationDeposit(v, a)}))

-----------------------------------------------------------------------------
(* GeneratorEligibility for the block after the view v. *)

mayGenerate(v, a) == generatingBalance(v, a) >= MinimalEffectiveBalanceForGenerator

\* Indexes of the committed generators that are neither poor nor in conflict
eligibleGenerators(v) ==
  LET h == heightOf(v) + 1
      gs == committedGenerators(v, periodOf(h))
      inConflict == upTo(conflictGenerators(v, periodOf(h)), h)
  IN  {i \in DOMAIN gs \ inConflict : mayGenerate(v, gs[i])}

eligibility(v, a) ==
  LET p == periodOf(heightOf(v) + 1)
      gs == committedGenerators(v, p)
      generatorSet == eligibleGenerators(v)
  IN  IF \E i \in generatorSet : gs[i] = a THEN "Committed"
      ELSE IF a \in Range(gs) THEN "Denied"
      ELSE IF a \in Range(implicitGenerators(v, p)) THEN "Implicit"
      ELSE IF generatorSet = {} THEN "Uncommitted" ELSE "Denied"

-----------------------------------------------------------------------------
(* Writing: Caches.append with RocksDBWriter.doAppend, and Caches.rollbackTo. *)

\* A cache after a read of the given periods, stored being what they hold on disk
afterRead(cache, periods, stored) ==
  [p \in Periods |-> IF p \in periods \cap cachedPeriods /\ cache[p] = None THEN stored[p] ELSE cache[p]]

readCommitted(periods) ==
  afterRead(committedGeneratorsCache, periods, [p \in Periods |-> loadCommittedGenerators(p)])

readConflict(periods) ==
  afterRead(conflictGeneratorsCache, periods, [p \in Periods |-> loadConflictGenerators(p)])

readImplicit(periods) ==
  afterRead(implicitGeneratorsCache, periods \cap {periodOf(height)}, [p \in Periods |-> loadImplicitGenerators(p)])

orElse(entry, empty) == IF entry = None THEN empty ELSE entry

evict(cache, period) == [p \in Periods |-> IF p < period THEN None ELSE cache[p]]

\* Persist block b over caches that hold what was read before.  The finalization
\* state of the new liquid block then reads the conflicts of its period.
append(b, committed, conflict, implicit) ==
  LET h == height + 1
      period == periodOf(h)
      next == nextPeriod(period)
      written == [conflictAt EXCEPT ![h] = b.conflict]
      appended == IF b.conflict = {} THEN conflict
                  ELSE [conflict EXCEPT ![period] = [orElse(@, NoConflicts) EXCEPT ![h] = b.conflict]]
  IN  /\ blocks' = Append(blocks, b)
      /\ safeRollbackHeight' = Max({safeRollbackHeight, h - MaxRollbackDepth})
      /\ committedAt' = IF b.commits = <<>> THEN committedAt
                        ELSE [committedAt EXCEPT ![h] = [period |-> next, generators |-> b.commits]]
      /\ conflictAt' = written
      /\ implicitAt' = [implicitAt EXCEPT ![h] = IF b.declares THEN b.miner ELSE None]
      /\ committedGeneratorsCache' =
           evict(IF b.commits = <<>> THEN committed
                 ELSE [committed EXCEPT ![next] = orElse(@, <<>>) \o b.commits], period)
      /\ conflictGeneratorsCache' =
           [evict(appended, period) EXCEPT ![periodOf(h + 1)] = orElse(@, conflictsIn(written, periodOf(h + 1)))]
      /\ implicitGeneratorsCache' =
           evict(IF b.declares THEN [implicit EXCEPT ![period] = Append(orElse(@, <<>>), b.miner)] ELSE implicit, period)

Persisted == <<blocks, safeRollbackHeight, committedAt, conflictAt, implicitAt>>

Caches == <<committedGeneratorsCache, conflictGeneratorsCache, implicitGeneratorsCache>>

\* Fault: the conflicts survive a rollback
clearCaches_butConflicts ==
  /\ committedGeneratorsCache' = Unloaded
  /\ implicitGeneratorsCache' = Unloaded
  /\ UNCHANGED conflictGeneratorsCache

clearCaches ==
  /\ committedGeneratorsCache' = Unloaded
  /\ conflictGeneratorsCache' = Unloaded
  /\ implicitGeneratorsCache' = Unloaded

rollbackTo(target) ==
  /\ blocks' = SubSeq(blocks, 1, target)
  /\ committedAt' = [h \in Heights |-> IF h > target THEN NoCommitments ELSE committedAt[h]]
  /\ conflictAt' = [h \in Heights |-> IF h > target THEN {} ELSE conflictAt[h]]
  /\ implicitAt' = [h \in Heights |-> IF h > target THEN None ELSE implicitAt[h]]
  /\ clearCaches
  /\ UNCHANGED safeRollbackHeight

-----------------------------------------------------------------------------
(* The initial snapshot of a block on the view v. *)

\* Indexes of generators are unique per period, so each address is punished once
calculatePenalties(v) ==
  LET punished == {committedGenerators(v, periodOf(heightOf(v)))[i] : i \in top(v).conflict}
  IN  [a \in Addresses |-> IF a \in punished THEN DepositInEmbers ELSE 0]

\* packTransactionsForKeyBlock passes no previous block
minerPenalties(v) == [a \in Addresses |-> 0]

\* Fault: the penalties are left out, as the miner does
mkInitialSnapshot_unpunished(v, m, penalties) ==
  [a \in Addresses |-> top(v).hearth[a] + (IF a = m THEN BlockReward ELSE 0)]

mkInitialSnapshot(v, m, penalties) ==
  [a \in Addresses |-> top(v).hearth[a] + (IF a = m THEN BlockReward ELSE 0) - penalties[a]]

\* The header of a block by m on v, and the balances it starts with.  The supply
\* is what Caches.append records when the block is persisted.
newBlock(v, m) ==
  Block(m, eligibility(v, m) = "Uncommitted", mkInitialSnapshot(v, m, calculatePenalties(v)),
        top(v).supply + BlockReward - DepositInEmbers * Cardinality(top(v).conflict))

\* Periods read to find the generators of the block after v
readFor(v) == {periodOf(heightOf(v)), nextPeriod(periodOf(heightOf(v))), periodOf(heightOf(v) + 1)}

-----------------------------------------------------------------------------
(* Actions *)

\* Nothing else is applied while the extension appender puts blocks back
Ready == dropped = <<>>

\* A key block by m on the tip: the liquid block it references is persisted.
KeyBlock(m) ==
  /\ Ready /\ heightOf(liquid) < MaxHeight
  /\ eligibility(liquid, m) # "Denied" /\ mayGenerate(liquid, m)
  /\ liquid' = newBlock(liquid, m)
  /\ IF liquid = None
     THEN /\ committedGeneratorsCache' = readCommitted(readFor(liquid))
          /\ conflictGeneratorsCache' = readConflict(readFor(liquid))
          /\ implicitGeneratorsCache' = readImplicit(readFor(liquid))
          /\ UNCHANGED Persisted
     ELSE append(liquid, readCommitted(readFor(liquid)), readConflict(readFor(liquid)), readImplicit(readFor(liquid)))
  /\ UNCHANGED dropped

\* A better competitor on the same parent replaces the liquid block.
BetterKeyBlock(m) ==
  /\ Ready /\ liquid # None /\ m # liquid.miner
  /\ eligibility(None, m) # "Denied" /\ mayGenerate(None, m)
  /\ liquid' = newBlock(None, m)
  /\ committedGeneratorsCache' = readCommitted(readFor(None))
  /\ conflictGeneratorsCache' = readConflict(readFor(None))
  /\ implicitGeneratorsCache' = readImplicit(readFor(None))
  /\ UNCHANGED <<Persisted, dropped>>

\* What every microblock needs, and the reads of its validation
MicroBlock(b) ==
  /\ liquid' = [b EXCEPT !.micros = @ + 1]
  /\ committedGeneratorsCache' = readCommitted(readFor(liquid))
  /\ conflictGeneratorsCache' = readConflict({periodOf(heightOf(liquid))})
  /\ UNCHANGED <<Persisted, implicitGeneratorsCache, dropped>>

MayGrow == Ready /\ liquid # None /\ liquid.micros < MaxMicroBlocks

CommitToGeneration(a) ==
  LET after == [liquid EXCEPT !.commits = Append(@, a)]
  IN  /\ MayGrow
      /\ a \notin Range(committedGenerators(liquid, nextPeriod(periodOf(heightOf(liquid)))))
      /\ mayGenerate(after, a)
      /\ liquid.hearth[a] >= generationDeposit(liquid, a) + DepositInEmbers
      /\ MicroBlock(after)

\* Fault: a deposit may be spent
Transfer_deposit(tx) ==
  /\ MayGrow
  /\ liquid.hearth[tx.from] - tx.amount >= 0
  /\ MicroBlock([liquid EXCEPT !.hearth[tx.from] = @ - tx.amount, !.hearth[tx.to] = @ + tx.amount])

Transfer(tx) ==
  /\ MayGrow
  /\ liquid.hearth[tx.from] - tx.amount >= generationDeposit(liquid, tx.from)
  /\ MicroBlock([liquid EXCEPT !.hearth[tx.from] = @ - tx.amount, !.hearth[tx.to] = @ + tx.amount])

\* A voting that reports generator i.  Votings start at height 3.
ReportConflict(i) ==
  /\ MayGrow /\ heightOf(liquid) >= 3
  /\ i \in eligibleGenerators(None) \ liquid.conflict
  /\ committedGenerators(liquid, periodOf(heightOf(liquid)))[i] # liquid.miner
  /\ MicroBlock([liquid EXCEPT !.conflict = @ \cup {i}])

\* Back to a persisted block, for good: a fork or a forced rollback
RemoveAfter(target) ==
  /\ Ready /\ target \in safeRollbackHeight .. height
  /\ rollbackTo(target)
  /\ liquid' = None
  /\ UNCHANGED dropped

\* An extension that forks at target is declined: what it replaced is put back.
DeclineExtension(target) ==
  /\ Ready /\ target \in safeRollbackHeight .. height
  /\ rollbackTo(target)
  /\ liquid' = None
  /\ dropped' = SubSeq(blocks, target + 1, height) \o (IF liquid = None THEN <<>> ELSE <<liquid>>)

\* processBlock on a dropped block: its transactions are executed, the generator
\* is not checked again.  Executing a commitment reads the generators of the next
\* period; the new liquid block reads the conflicts of its period.
RestoreBlock ==
  LET b == Head(dropped)
      h == heightOf(liquid) + 1
      executed == IF b.commits = <<>> THEN {} ELSE {periodOf(h), nextPeriod(periodOf(h))}
  IN  /\ dropped # <<>>
      /\ dropped' = Tail(dropped)
      /\ liquid' = b
      /\ IF liquid = None
         THEN /\ committedGeneratorsCache' = readCommitted(executed)
              /\ conflictGeneratorsCache' = readConflict({periodOf(h)})
              /\ UNCHANGED <<Persisted, implicitGeneratorsCache>>
         ELSE append(liquid, readCommitted(executed), conflictGeneratorsCache, implicitGeneratorsCache)

\* The liquid block is not persisted; neither are the caches.
Restart ==
  /\ liquid' = None
  /\ dropped' = <<>>
  /\ clearCaches
  /\ UNCHANGED Persisted

Next ==
  \/ \E m \in Addresses : KeyBlock(m) \/ BetterKeyBlock(m) \/ CommitToGeneration(m)
  \/ \E tx \in Transfers : Transfer(tx)
  \/ \E i \in 1 .. Cardinality(Addresses) : ReportConflict(i)
  \/ \E target \in Heights : RemoveAfter(target) \/ DeclineExtension(target)
  \/ RestoreBlock
  \/ Restart

Spec == Init /\ [][Next]_vars

-----------------------------------------------------------------------------
(* Properties *)

\* The persisted blocks and the liquid block, as a chain.
chain == IF liquid = None THEN blocks ELSE Append(blocks, liquid)

\* The generators of the period p by the blocks of the chain
Committee(p) ==
  FlattenSeq([h \in DOMAIN chain |->
                IF p = IF h = 1 THEN 1 ELSE nextPeriod(periodOf(h)) THEN chain[h].commits ELSE <<>>])

\* The deposit of a at height h by the blocks of the chain: one for each period it
\* is committed to by then, from the commitment to the end of the period or to
\* the block that reports it, whichever comes first.
Held(a, h) ==
  LET holds(p) == /\ h < nextPeriod(p)
                  /\ \E c \in 1 .. h : a \in Range(chain[c].commits) /\ p = IF c = 1 THEN 1 ELSE nextPeriod(periodOf(c))
                  /\ ~\E c \in {c \in 1 .. h - 1 : periodOf(c) = p} : \E i \in chain[c].conflict : Committee(p)[i] = a
  IN  DepositInEmbers * Cardinality({p \in Periods : holds(p)})

\* What the caches hold for the periods they answer for is what the store would
\* load, whatever was persisted, rolled back, put back or lost in a restart before:
\* Caches.append extends an entry it may not have loaded.  The cache of implicit
\* generators is left out: an entry of it may start in the middle of a period.
CachesFollowStore ==
  \A p \in cachedPeriods :
    /\ committedGeneratorsCache[p] \in {None, loadCommittedGenerators(p)}
    /\ conflictGeneratorsCache[p] \in {None, loadConflictGenerators(p)}

\* The two ways to a deposit agree with each other and with the chain: the scan
\* of the store that generating balances use (collectGenerationDepositChanges), at
\* every height, and Blockchain.generationDeposit that spending is checked with.
DepositsAgree ==
  \A a \in Addresses :
    LET diffs == depositDiffs(a)
    IN  /\ \A h \in 1 .. height : depositAt(diffs, h) = Held(a, h)
        /\ generationDeposit(liquid, a) = Held(a, heightOf(liquid))

\* A locked deposit is always there to be taken: no sequence of spending,
\* committing again and being punished leaves a balance below the deposit, even
\* where a penalty and the release of another deposit fall on one block.
DepositBacked ==
  \A a \in Addresses : top(liquid).hearth[a] >= generationDeposit(liquid, a)

\* The recorded supply, which Caches.append derives from the number of conflicts
\* in the last block, is the sum of the balances, which the differ changes by
\* looking the punished generators up.
SupplyIsSum ==
  \A h \in DOMAIN chain : chain[h].supply = MapThenSumSet(LAMBDA a : chain[h].hearth[a], Addresses)

\* The committed generators of each period at height h, as reads answer it at the
\* tip and as they would if the blocks above h were undone
bookAt(h) ==
  [p \in Periods |->
     IF h = heightOf(liquid) THEN committedGenerators(liquid, p)
     ELSE FlattenSeq([k \in 1 .. h |-> IF committedAt[k].period = p THEN committedAt[k].generators ELSE <<>>])]

Book == INSTANCE CommitmentBook WITH books <- [h \in 1 .. heightOf(liquid) |-> bookAt(h)]

\* The store, its caches and the liquid block implement a book of commitments:
\* each is for the next period, once per address and in the order the blocks make
\* them, so that the indexes in votings keep their meaning, and is lost only with
\* its block (CommitToGenerationTransactionDiff, Caches, SnapshotBlockchain).
CommitmentsKept == Book!Spec

\* BlockChallenger: the penalties of the parent "land in the initial snapshot: the
\* differ applies the same ones when this block is appended, and the state hash
\* computed here has to match what it arrives at".  Miner.packTransactionsForKeyBlock
\* computes the state hash of a key block from an initial snapshot too.
MinerHashMatches ==
  \A m \in Addresses :
    mkInitialSnapshot(liquid, m, minerPenalties(liquid)) = mkInitialSnapshot(liquid, m, calculatePenalties(liquid))
=============================================================================
