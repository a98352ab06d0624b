------------------------------- MODULE NgChain -------------------------------
(***************************************************************************)
(* The chain of one node: the persisted blocks (RocksDBWriter), the liquid *)
(* block that microblocks still grow (NgState), and the handlers that move *)
(* both: BlockAppender, MicroblockAppender, ExtensionAppender, rollback    *)
(* and restart.  All of them run on the one appender scheduler, so a       *)
(* handler is never interleaved with another one; an extension is applied  *)
(* in several steps because a crash can fall between them.                 *)
(*                                                                         *)
(* A block id commits to the block and to all of its ancestors.  It is the *)
(* sequence of the slots from genesis on, one per height; a slot holds the *)
(* generator, the timestamp (ranked among the competitors of one height),  *)
(* the number of parts (the key block and its microblocks, standing for    *)
(* their transactions) and the finalization voting of the header.  What    *)
(* transactions do to the state is not in this module.                     *)
(***************************************************************************)
EXTENDS Finalization, Sequences, Functions

CONSTANTS
  Timestamps,        \* timestamp ranks of competing key blocks
  Votings,           \* the votings miners put in key blocks and microblocks
  MaxHeight,         \* bound: no block above this height
  MaxParts,          \* bound: key block and microblocks in one block
  MaxVotings,        \* bound: blocks with a voting on one chain
  MaxExtension,      \* bound: blocks of one extension, 0 for none
  MaxRollbackDepth   \* db.max-rollback-depth

ASSUME NgChainAssumption ==
  /\ Timestamps \subseteq Nat
  /\ Votings \subseteq Voting /\ NoVoting \in Votings
  /\ MaxHeight \in Nat \ {0}
  /\ MaxParts \in Nat \ {0}
  /\ MaxVotings \in Nat
  /\ MaxExtension \in Nat
  /\ MaxRollbackDepth \in Nat
  /\ MaxRollbackDepth >= MaxExtension

VARIABLES
  persisted,           \* the persisted blocks, with finalizedHeightAt each of them
  finalizedHeight,     \* Keys.finalizedHeight, 0 for None
  safeRollbackHeight,  \* Keys.safeRollbackHeight
  ngState,             \* the liquid block
  extension            \* the extension the appender is working on

vars == <<persisted, finalizedHeight, safeRollbackHeight, ngState, extension>>

-----------------------------------------------------------------------------
(* Blocks. *)

Slot == [generator : Generators, timestamp : Nat, parts : Nat, voting : Voting]

BlockId == Seq(Slot)

Block == [id : BlockId, voting : Voting, finalizedHeight : Nat]

reference(id) == SubSeq(id, 1, Len(id) - 1)

slotOf(id) == id[Len(id)]

generator(id) == slotOf(id).generator

timestamp(id) == slotOf(id).timestamp

headerVoting(id) == slotOf(id).voting

\* NgState.createTotalBlockId: the id of the block grown by a microblock
createTotalBlockId(id, voting) ==
  Append(reference(id), [slotOf(id) EXCEPT !.parts = @ + 1, !.voting = voting])

Genesis == <<[generator |-> CHOOSE g \in Generators : TRUE, timestamp |-> 0, parts |-> 1, voting |-> NoVoting]>>

votingsOf(id) == Cardinality({h \in DOMAIN id : id[h].voting # NoVoting})

\* The blocks of at most n parts a generator may sign on top of the block ref
Children(ref, n) ==
  IF Len(ref) >= MaxHeight THEN {}
  ELSE { Append(ref, slot) : slot \in
           [generator : Generators, timestamp : Timestamps, parts : 1..n,
            voting : IF votingsOf(ref) < MaxVotings THEN Votings ELSE {NoVoting}] }

-----------------------------------------------------------------------------
(* The views of the chain. *)

NoNg == [base |-> <<>>]

NoExtension == [phase |-> "none"]

LiquidState == [base : BlockId, microSnapshots : Seq(Block), finalizationState : FinalizationState]

liquidIds == IF ngState = NoNg THEN {} ELSE {ngState.base} \cup {m.id : m \in Range(ngState.microSnapshots)}

persistedIds == {b.id : b \in Range(persisted)}

containsBlock(id) == id \in liquidIds \cup persistedIds

chainHeight == Len(persisted) + (IF ngState = NoNg THEN 0 ELSE 1)

\* Fault: the voting accumulated so far instead of the one of the id
liquidBlockOf_current(ng, id) ==
  LET block == IF id = ng.base
               THEN [id |-> id, voting |-> NoVoting, finalizedHeight |-> ng.finalizationState.baseFinalizedHeight]
               ELSE CHOOSE m \in Range(ng.microSnapshots) : m.id = id
  IN  [block EXCEPT !.voting = ng.finalizationState.accFinalizationVoting]

\* NgState.forgeBlock and snapshotFor: the block a liquid id stands for and the
\* height final with it
liquidBlockOf(ng, id) ==
  IF id = ng.base
  THEN [id |-> id, voting |-> headerVoting(id), finalizedHeight |-> ng.finalizationState.baseFinalizedHeight]
  ELSE CHOOSE m \in Range(ng.microSnapshots) : m.id = id

bestLiquidBlockId(ng) ==
  IF ng.microSnapshots = <<>> THEN ng.base ELSE ng.microSnapshots[Len(ng.microSnapshots)].id

tipId ==
  IF ngState # NoNg THEN bestLiquidBlockId(ngState)
  ELSE IF persisted = <<>> THEN <<>> ELSE persisted[Len(persisted)].id

conflictGenerators(chain) == UNION {b.voting.conflict : b \in Range(chain)}

\* Fault: the referenced liquid block's own conflicts forgotten
conflictsWith_persisted(id) == conflictGenerators(persisted)

\* The conflicts a view whose liquid block is the one of id has on record
conflictsWith(id) ==
  conflictGenerators(persisted) \cup
    (IF id \in liquidIds THEN liquidBlockOf(ngState, id).voting.conflict ELSE {})

eligibleGenerators(conflicts) == Generators \ conflicts

syncBoundary == finalizedHeightOrFallback(chainHeight, finalizedHeight)

isLastBlockId(id) == IF ngState = NoNg THEN id = tipId ELSE id \in liquidIds

-----------------------------------------------------------------------------
(* BlockchainUpdaterImpl *)

newNgState(chain, b, generatorSet) ==
  LET parentHeight == Len(chain)
      latest       == IF chain = <<>> THEN 0 ELSE chain[parentHeight].finalizedHeight
  IN  [base |-> b, microSnapshots |-> <<>>,
       finalizationState |->
         FinalizationInit(generatorSet, conflictGenerators(chain) \cup headerVoting(b).conflict, generator(b),
                          headerVoting(b), parentHeight, finalizedHeightOrFallback(parentHeight + 1, latest))]

\* Fault: safeRollbackHeight follows the height down as well as up
doAppend_noMax(block) ==
  /\ persisted' = Append(persisted, block)
  /\ finalizedHeight' = block.finalizedHeight
  /\ safeRollbackHeight' = Len(persisted) + 1 - MaxRollbackDepth

doAppend(block) ==
  /\ persisted' = Append(persisted, block)
  /\ finalizedHeight' = block.finalizedHeight
  /\ safeRollbackHeight' = MaxOf(safeRollbackHeight, Len(persisted) + 1 - MaxRollbackDepth)

\* Fault: finalizedHeight not rewound
doRollback_keep(h) ==
  /\ persisted' = SubSeq(persisted, 1, h)
  /\ UNCHANGED <<finalizedHeight, safeRollbackHeight>>

doRollback(h) ==
  /\ persisted' = SubSeq(persisted, 1, h)
  /\ finalizedHeight' = IF h < finalizedHeight THEN persisted[h].finalizedHeight ELSE finalizedHeight
  /\ UNCHANGED safeRollbackHeight

\* No liquid block: b has to reference the last persisted block.
ProcessFirst(b, generatorSet) ==
  /\ ngState = NoNg
  /\ persisted # <<>> => tipId = reference(b)
  /\ ngState' = newNgState(persisted, b, generatorSet)
  /\ UNCHANGED <<persisted, finalizedHeight, safeRollbackHeight>>

\* A competitor of the liquid block wins with an earlier timestamp.
ProcessBetter(b, generatorSet) ==
  /\ ngState # NoNg
  /\ reference(b) = reference(ngState.base)
  /\ timestamp(b) < timestamp(ngState.base)
  /\ ngState' = newNgState(persisted, b, generatorSet)
  /\ UNCHANGED <<persisted, finalizedHeight, safeRollbackHeight>>

\* Fault: the best liquid block persisted, whichever id is referenced
ProcessNext_best(b, generatorSet) ==
  /\ ngState # NoNg
  /\ reference(b) # reference(ngState.base)
  /\ reference(b) \in liquidIds
  /\ doAppend(liquidBlockOf(ngState, bestLiquidBlockId(ngState)))
  /\ ngState' = newNgState(persisted', b, generatorSet)

\* b is on a new height: the liquid block is persisted as it was at the id b
\* references, later microblocks are discarded.
ProcessNext(b, generatorSet) ==
  /\ ngState # NoNg
  /\ reference(b) # reference(ngState.base)
  /\ reference(b) \in liquidIds
  /\ doAppend(liquidBlockOf(ngState, reference(b)))
  /\ ngState' = newNgState(persisted', b, generatorSet)

processBlock(b, generatorSet) ==
  \/ ProcessFirst(b, generatorSet)
  \/ ProcessBetter(b, generatorSet)
  \/ ProcessNext(b, generatorSet)

\* Fault: newest block first
discardedBlocks_newestFirst(h) ==
  (IF ngState = NoNg THEN <<>> ELSE <<bestLiquidBlockId(ngState)>>) \o
    [i \in 1..(Len(persisted) - h) |-> persisted[Len(persisted) + 1 - i].id]

\* Fault: the liquid block kept without its microblocks
discardedBlocks_base(h) ==
  [i \in 1..(Len(persisted) - h) |-> persisted[h + i].id] \o
    (IF ngState = NoNg THEN <<>> ELSE <<ngState.base>>)

discardedBlocks(h) ==
  [i \in 1..(Len(persisted) - h) |-> persisted[h + i].id] \o
    (IF ngState = NoNg THEN <<>> ELSE <<bestLiquidBlockId(ngState)>>)

canRemoveAfter(id) ==
  \/ id \in liquidIds
  \/ id \in persistedIds /\ Len(id) >= safeRollbackHeight

\* A liquid id needs no rollback, and then nothing is dropped: not even the
\* microblocks after it.
removeAfter(id) ==
  \/ /\ id \in liquidIds
     /\ UNCHANGED <<persisted, finalizedHeight, safeRollbackHeight, ngState>>
  \/ /\ id \notin liquidIds
     /\ canRemoveAfter(id)
     /\ doRollback(Len(id))
     /\ ngState' = NoNg

-----------------------------------------------------------------------------
(* The handlers. *)

Init ==
  /\ persisted = <<>>
  /\ finalizedHeight = 0
  /\ safeRollbackHeight = 0
  /\ ngState = newNgState(<<>>, Genesis, {})
  /\ extension = NoExtension

\* findBlockAndGetGenerators and validateBlock against a view that has the given
\* conflicts on record: the parent is known, the generator eligible, the voting valid.
validateBlock(b, conflicts) ==
  /\ containsBlock(reference(b))
  /\ generator(b) \in eligibleGenerators(conflicts)
  /\ validateFinalizationVoting(headerVoting(b), Len(b), generator(b), eligibleGenerators(conflicts), {}, conflicts)

\* The generator set processBlock gets: the eligible ones without the block's conflicts
generatorSetFor(b, conflicts) == eligibleGenerators(conflicts) \ headerVoting(b).conflict

\* BlockAppender: a key block from the network or from the node's own miner,
\* validated against the state its reference stands for.
AppendKeyBlock(b) ==
  LET conflicts == conflictsWith(reference(b))
  IN  /\ extension = NoExtension
      /\ ~isLastBlockId(b)
      /\ isLastBlockId(reference(b)) \/ reference(b) = reference(tipId)
      /\ validateBlock(b, conflicts)
      /\ processBlock(b, generatorSetFor(b, conflicts))
      /\ UNCHANGED extension

\* MicroblockAppender: a microblock on the best liquid block.  The voting of the
\* grown block as a whole is validated, against the persisted chain.
AppendMicroBlock(voting) ==
  /\ extension = NoExtension
  /\ ngState # NoNg
  /\ slotOf(tipId).parts < MaxParts
  /\ LET accepted == liquidBlockOf(ngState, tipId).voting
         total    == combine(accepted, voting)
         st       == FinalizationAppend(ngState.finalizationState, voting,
                                        ngState.finalizationState.generatorSet \ total.conflict)
         id       == createTotalBlockId(tipId, st.accFinalizationVoting)
     IN  /\ votingsOf(id) <= MaxVotings
         /\ voting.conflict \cap accepted.conflict = {}
         /\ validateFinalizationVoting(total, Len(tipId), generator(tipId), ngState.finalizationState.generatorSet,
                                       accepted.conflict, conflictGenerators(persisted))
         /\ ngState' = [ngState EXCEPT
                !.microSnapshots = Append(@, [id |-> id, voting |-> st.accFinalizationVoting,
                                              finalizedHeight |-> st.finalizedHeight]),
                !.finalizationState = st]
  /\ UNCHANGED <<persisted, finalizedHeight, safeRollbackHeight, extension>>

\* Fault: the sync boundary not checked
isFork_anywhere(b) ==
  /\ MaxExtension > 0
  /\ extension = NoExtension
  /\ ~containsBlock(b)
  /\ containsBlock(reference(b))

\* What ExtensionAppender checks before it touches the chain; b is the first
\* block of the extension the node does not have.
isFork(b) ==
  /\ MaxExtension > 0
  /\ extension = NoExtension
  /\ ~containsBlock(b)
  /\ containsBlock(reference(b))
  /\ Len(reference(b)) >= syncBoundary

\* The remote score is whatever the peer declared, so any fork may come.
StartExtension(b) ==
  LET common == reference(b)
      isRollback == Len(common) < chainHeight
  IN  /\ isFork(b)
      /\ IF isRollback
         THEN removeAfter(common)
         ELSE UNCHANGED <<persisted, finalizedHeight, safeRollbackHeight, ngState>>
      /\ extension' = [phase |-> "apply", common |-> common, first |-> b, applied |-> 0,
                       tip |-> tipId,
                       dropped |-> IF isRollback THEN discardedBlocks(Len(common)) ELSE <<>>]

\* The block to apply next: the first one was compared with the chain as it was
\* before the rollback, the others build on the one applied before.
nextExtensionBlocks ==
  IF extension.applied = 0 THEN {extension.first}
  ELSE IF extension.applied < MaxExtension THEN Children(ngState.base, MaxParts) ELSE {}

\* Extension blocks are validated against the best liquid block, whichever
\* liquid id they reference.
ApplyExtensionBlock(b) ==
  LET conflicts == conflictsWith(tipId)
  IN  /\ extension.phase = "apply"
      /\ validateBlock(b, conflicts)
      /\ processBlock(b, generatorSetFor(b, conflicts))
      /\ extension' = [extension EXCEPT !.applied = @ + 1]

FinishExtension ==
  /\ extension.phase = "apply"
  /\ extension.applied > 0
  /\ extension' = NoExtension
  /\ UNCHANGED <<persisted, finalizedHeight, safeRollbackHeight, ngState>>

Restoring(dropped) ==
  IF dropped = <<>> THEN NoExtension ELSE [extension EXCEPT !.phase = "restore", !.dropped = dropped]

\* Any block of an extension can turn out to be invalid: the fork is removed.
DeclineExtensionBlock ==
  /\ extension.phase = "apply"
  /\ removeAfter(extension.common)
  /\ extension' = Restoring(extension.dropped)

\* DiscardedBlock.generatorSet is empty.
RestoreDroppedBlock ==
  /\ extension.phase = "restore"
  /\ processBlock(Head(extension.dropped), {})
  /\ extension' = Restoring(Tail(extension.dropped))

\* /debug/rollback and the importer
ForcedRollback(id) ==
  /\ extension = NoExtension
  /\ id \notin liquidIds
  /\ removeAfter(id)
  /\ UNCHANGED extension

\* What is in memory is lost.  A node without a persisted block starts from genesis.
restart(chain) == IF chain = <<>> THEN newNgState(<<>>, Genesis, {}) ELSE NoNg

Crash ==
  /\ ngState' = restart(persisted)
  /\ extension' = NoExtension
  /\ UNCHANGED <<persisted, finalizedHeight, safeRollbackHeight>>

\* doRollback commits one write batch per height.
CrashInRollback(b, h) ==
  /\ isFork(b)
  /\ reference(b) \notin liquidIds
  /\ canRemoveAfter(reference(b))
  /\ h \in (Len(reference(b)) + 1)..(Len(persisted) - 1)
  /\ doRollback(h)
  /\ ngState' = NoNg
  /\ UNCHANGED extension

\* The ids on the node's chain, on which blocks are built
knownIds == liquidIds \cup persistedIds

Next ==
  \/ \E ref \in liquidIds \cup {tipId, reference(tipId)} : \E b \in Children(ref, 1) : AppendKeyBlock(b)
  \/ \E v \in Votings : AppendMicroBlock(v)
  \/ \E ref \in knownIds : \E b \in Children(ref, MaxParts) : StartExtension(b)
  \/ extension.phase = "apply" /\ \E b \in nextExtensionBlocks : ApplyExtensionBlock(b)
  \/ FinishExtension
  \/ DeclineExtensionBlock
  \/ RestoreDroppedBlock
  \/ \E id \in persistedIds : ForcedRollback(id)
  \/ Crash
  \/ \E ref \in knownIds : \E b \in Children(ref, 1), h \in 1..MaxHeight : CrashInRollback(b, h)

Spec == Init /\ [][Next]_vars

-----------------------------------------------------------------------------
(* Properties. *)

\* Types of the persisted chain, the liquid block and the extension at work.
TypeOK ==
  /\ persisted \in Seq(Block)
  /\ finalizedHeight \in Nat
  /\ safeRollbackHeight \in Nat
  /\ ngState # NoNg => ngState \in LiquidState
  /\ extension # NoExtension =>
       extension \in [phase : {"apply", "restore"}, common : BlockId, first : BlockId, applied : Nat,
                     tip : BlockId, dropped : Seq(BlockId)]

\* Persisted blocks are linked, the liquid block references the last one, and
\* every microblock grows the block of that height: a key block that references
\* an earlier microblock, a better competitor, a fork or a crash never leaves a
\* block on top of something it does not reference.
ChainLinked ==
  /\ \A h \in 1..Len(persisted) :
       /\ Len(persisted[h].id) = h
       /\ h > 1 => reference(persisted[h].id) = persisted[h - 1].id
  /\ persisted = <<>> => ngState # NoNg
  /\ ngState # NoNg =>
       /\ Len(ngState.base) = Len(persisted) + 1
       /\ persisted # <<>> => reference(ngState.base) = persisted[Len(persisted)].id
       /\ \A i \in 1..Len(ngState.microSnapshots) :
            /\ Len(ngState.microSnapshots[i].id) = Len(persisted) + 1
            /\ reference(ngState.microSnapshots[i].id) = reference(ngState.base)

\* The voting a block is persisted with (and that of every block NgState can
\* forge) is the one its id commits to, whatever microblocks came after it.
ForgedMatchesId ==
  /\ \A h \in 1..Len(persisted) : persisted[h].voting = headerVoting(persisted[h].id)
  /\ \A id \in liquidIds : liquidBlockOf(ngState, id).voting = headerVoting(id)

\* The finality records agree with the chain: no block below height 2 above
\* genesis claims itself final, a later block never has less final than an
\* earlier one, the liquid block never less than its parent, and the node-wide
\* finalizedHeight is never behind the last block nor above the persisted chain,
\* through forks, restores, forced rollbacks and crashes between their steps.
FinalityHistory ==
  /\ \A h \in 1..Len(persisted) : persisted[h].finalizedHeight \in 1..MaxOf(1, h - 1)
  /\ \A i, j \in 1..Len(persisted) : i <= j => persisted[i].finalizedHeight <= persisted[j].finalizedHeight
  /\ persisted # <<>> => finalizedHeight \in persisted[Len(persisted)].finalizedHeight..Len(persisted)
  /\ ngState # NoNg => \A id \in liquidIds :
       liquidBlockOf(ngState, id).finalizedHeight
         \in (IF persisted = <<>> THEN 1 ELSE persisted[Len(persisted)].finalizedHeight)..MaxOf(1, Len(persisted))

\* A generator found in conflict is out for the rest of the period: on the node's
\* chain, liquid block included, it generates no later block, is counted as
\* endorser of none, and is reported (and so punished) only once.
ConflictedStayOut ==
  LET chain == tipId
  IN  \A i, j \in DOMAIN chain : i < j =>
        LET out == chain[i].voting.conflict
        IN  /\ chain[j].generator \notin out
            /\ chain[j].voting.valid \cap out = {}
            /\ chain[j].voting.conflict \cap out = {}

\* ExtensionAppender may call explicitGet: while a fork is applied the common
\* block can still be rolled back to, and each dropped block attaches to the
\* chain when its turn to be restored comes.
RestoreApplicable ==
  /\ extension.phase = "apply" => canRemoveAfter(extension.common)
  /\ extension.phase = "restore" =>
       /\ reference(Head(extension.dropped)) = tipId
       /\ ngState # NoNg => tipId = ngState.base

\* A declined extension gives the node its tip back; only a fork from an earlier
\* state of the liquid block, which drops nothing, may leave it at the fork point.
DeclinedExtensionKeepsTip ==
  [][ (DeclineExtensionBlock \/ RestoreDroppedBlock) /\ extension' = NoExtension =>
        \/ tipId' = extension.tip
        \/ extension.dropped = <<>> /\ tipId' = extension.common ]_vars

\* Starting an extension, or crashing in its rollback, keeps every persisted
\* block up to the finalized height; only a forced rollback goes below it.
ForkKeepsFinalized ==
  [][ extension = NoExtension /\ ~(\E id \in persistedIds : ForcedRollback(id)) =>
        \A h \in 1..Len(persisted) : h <= finalizedHeight => h <= Len(persisted') /\ persisted'[h] = persisted[h] ]_vars
=============================================================================
