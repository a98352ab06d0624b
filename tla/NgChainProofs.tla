---------------------------- MODULE NgChainProofs ----------------------------
(***************************************************************************)
(* Proofs about NgChain for every set of generators, every weight and every *)
(* depth: types, linking, votings and the finality records.  The inductive *)
(* invariant NgInv states them part by part (chain, node-wide finalized    *)
(* height, liquid block, extension) as predicates of values, so that the   *)
(* lemmas about a part are about values too and know nothing of actions.   *)
(***************************************************************************)
EXTENDS NgChain, SequenceTheorems, TLAPS

lastFinal(chain) == IF chain = <<>> THEN 1 ELSE chain[Len(chain)].finalizedHeight

FinalRange(chain) == lastFinal(chain)..MaxOf(1, Len(chain))

ChainOK(chain) ==
  /\ chain \in Seq(Block)
  /\ \A h \in 1..Len(chain) :
       /\ Len(chain[h].id) = h
       /\ h > 1 => reference(chain[h].id) = chain[h - 1].id
       /\ chain[h].voting = headerVoting(chain[h].id)
       /\ chain[h].finalizedHeight \in 1..MaxOf(1, h - 1)
  /\ \A i, j \in 1..Len(chain) : i <= j => chain[i].finalizedHeight <= chain[j].finalizedHeight

FinalOK(chain, final) ==
  /\ final \in Nat
  /\ chain # <<>> => final \in lastFinal(chain)..Len(chain)

\* A block that can become the next one of the chain
NextOK(chain, block) ==
  /\ block \in Block
  /\ Len(block.id) = Len(chain) + 1
  /\ chain # <<>> => reference(block.id) = chain[Len(chain)].id
  /\ block.voting = headerVoting(block.id)
  /\ block.finalizedHeight \in FinalRange(chain)

LiquidOK(chain, ng) ==
  /\ ng \in LiquidState
  /\ Len(ng.base) = Len(chain) + 1
  /\ chain # <<>> => reference(ng.base) = chain[Len(chain)].id
  /\ chain = <<>> => ng.finalizationState.generatorSet = {}
  /\ ng.finalizationState.parentHeight = Len(chain)
  /\ ng.finalizationState.baseFinalizedHeight \in FinalRange(chain)
  /\ ng.finalizationState.finalizedHeight \in FinalRange(chain)
  /\ \A i \in 1..Len(ng.microSnapshots) :
       /\ NextOK(chain, ng.microSnapshots[i])
       /\ reference(ng.microSnapshots[i].id) = reference(ng.base)

Above1(id) == id \in BlockId /\ Len(id) > 1

ExtensionOK(ext) ==
  /\ ext.phase \in {"apply", "restore"}
  /\ ext \in [phase : {"apply", "restore"}, common : BlockId, first : BlockId, applied : Nat,
              tip : BlockId, dropped : Seq(BlockId)]
  /\ Above1(ext.first)
  /\ \A i \in 1..Len(ext.dropped) : Above1(ext.dropped[i])
  /\ ext.phase = "restore" => ext.dropped # <<>>

CoreInv ==
  /\ ChainOK(persisted)
  /\ FinalOK(persisted, finalizedHeight)
  /\ safeRollbackHeight \in Nat
  /\ ngState # NoNg => LiquidOK(persisted, ngState)
  /\ persisted = <<>> => ngState # NoNg

NgInv ==
  /\ CoreInv
  /\ extension # NoExtension => ExtensionOK(extension)

-----------------------------------------------------------------------------
(* Blocks *)

\* The reference of a block is one shorter than its id.
LEMMA ReferenceLen ==
  ASSUME NEW b \in BlockId, b # <<>>
  PROVE  reference(b) \in BlockId /\ Len(reference(b)) = Len(b) - 1 /\ Len(b) \in Nat \ {0}
<1>1. Len(b) \in Nat \ {0}
  BY EmptySeq, LenProperties DEF BlockId
<1> DEFINE n == Len(b) - 1
<1>2. n \in Int /\ \A i \in 1..n : b[i] \in Slot
  BY <1>1, ElementOfSeq DEF BlockId
<1> HIDE DEF n
<1>3. SubSeq(b, 1, n) \in Seq(Slot) /\ Len(SubSeq(b, 1, n)) = IF 1 <= n THEN n - 1 + 1 ELSE 0
  BY <1>2, SubSeqProperties
<1>4. reference(b) = SubSeq(b, 1, n)
  BY DEF reference, n
<1>5. n \in Nat /\ n = Len(b) - 1
  BY <1>1 DEF n
<1>6. Len(SubSeq(b, 1, n)) = n
  BY <1>3, <1>5
<1> QED
  BY <1>1, <1>3, <1>4, <1>5, <1>6 DEF BlockId

\* A microblock leaves a slot a slot.
LEMMA GrownSlot ==
  ASSUME NEW slot \in Slot, NEW v \in Voting
  PROVE  /\ [slot EXCEPT !.parts = @ + 1, !.voting = v] \in Slot
         /\ [slot EXCEPT !.parts = @ + 1, !.voting = v].voting = v
<1>1. slot.parts \in Nat
  BY DEF Slot
<1> DEFINE n == slot.parts + 1
<1>2. n \in Nat
  BY <1>1
<1> HIDE DEF n
<1>3. [slot EXCEPT !.parts = n] \in Slot
  BY <1>2 DEF Slot
<1> DEFINE s == [slot EXCEPT !.parts = n]
<1> HIDE DEF s
<1>4. s \in Slot
  BY <1>3 DEF s
<1>5. [s EXCEPT !.voting = v] \in Slot /\ [s EXCEPT !.voting = v].voting = v
  BY <1>4 DEF Slot
<1>6. [slot EXCEPT !.parts = @ + 1, !.voting = v] = [s EXCEPT !.voting = v]
  BY DEF s, n
<1> QED
  BY <1>5, <1>6

\* A block built on ref references ref and sits one height above it.
LEMMA AppendSlot ==
  ASSUME NEW ref \in BlockId, NEW slot \in Slot
  PROVE  /\ Append(ref, slot) \in BlockId
         /\ Append(ref, slot) # <<>>
         /\ Len(Append(ref, slot)) = Len(ref) + 1
         /\ slotOf(Append(ref, slot)) = slot
         /\ reference(Append(ref, slot)) = ref
<1> DEFINE id == Append(ref, slot)
<1>1. id \in BlockId /\ id # <<>> /\ Len(id) = Len(ref) + 1 /\ slotOf(id) = slot
  BY AppendProperties, LenProperties DEF BlockId, slotOf
<1>2. \A i \in 1..Len(ref) : id[i] = ref[i]
  BY AppendProperties DEF BlockId
<1>3. Len(ref) \in Nat
  BY LenProperties DEF BlockId
<1>4. \A i \in 1..Len(ref) : id[i] \in Slot
  BY <1>2, ElementOfSeq DEF BlockId
<1>5. SubSeq(id, 1, Len(ref)) = ref
  <2>1. /\ SubSeq(id, 1, Len(ref)) \in Seq(Slot)
        /\ Len(SubSeq(id, 1, Len(ref))) = IF 1 <= Len(ref) THEN Len(ref) - 1 + 1 ELSE 0
        /\ \A i \in 1..(Len(ref) - 1 + 1) : SubSeq(id, 1, Len(ref))[i] = id[1 + i - 1]
    BY <1>3, <1>4, SubSeqProperties
  <2>2. Len(SubSeq(id, 1, Len(ref))) = Len(ref)
    BY <2>1, <1>3
  <2>3. \A i \in 1..Len(ref) : SubSeq(id, 1, Len(ref))[i] = ref[i]
    BY <2>1, <1>2, <1>3
  <2> QED
    BY <2>1, <2>2, <2>3, SeqEqual DEF BlockId
<1> QED
  BY <1>1, <1>3, <1>5 DEF reference

\* The blocks signed on top of a block of the chain are above height 1.
LEMMA ChildrenAbove1 ==
  ASSUME NEW ref \in BlockId, NEW n \in Nat, NEW b \in Children(ref, n)
  PROVE  b \in BlockId /\ b # <<>> /\ reference(b) = ref /\ Len(b) = Len(ref) + 1
<1>1. PICK slot \in [generator : Generators, timestamp : Timestamps, parts : 1..n,
                     voting : IF votingsOf(ref) < MaxVotings THEN Votings ELSE {NoVoting}] :
        b = Append(ref, slot)
  BY DEF Children
<1>2. (IF votingsOf(ref) < MaxVotings THEN Votings ELSE {NoVoting}) \subseteq Voting /\ 1..n \subseteq Nat
  BY NgChainAssumption
<1>3. slot \in Slot
  BY <1>1, <1>2, NgChainAssumption, Zenon DEF Slot
<1>4. /\ Append(ref, slot) \in BlockId
      /\ Append(ref, slot) # <<>>
      /\ Len(Append(ref, slot)) = Len(ref) + 1
      /\ reference(Append(ref, slot)) = ref
  BY <1>3, AppendSlot
<1> QED
  BY <1>1, <1>4

-----------------------------------------------------------------------------
(* Persisted chains *)

\* The bounds of the finalized height are heights.
LEMMA FinalRangeNat ==
  ASSUME NEW chain, ChainOK(chain)
  PROVE  /\ Len(chain) \in Nat
         /\ lastFinal(chain) \in Nat \ {0}
         /\ lastFinal(chain) <= MaxOf(1, Len(chain))
         /\ chain # <<>> => Len(chain) > 0 /\ lastFinal(chain) <= Len(chain)
         /\ chain = <<>> => Len(chain) = 0
<1>1. Len(chain) \in Nat /\ (chain # <<>> => Len(chain) > 0) /\ (chain = <<>> => Len(chain) = 0)
  BY EmptySeq, LenProperties DEF ChainOK
<1>2. CASE chain = <<>>
  BY <1>1, <1>2 DEF lastFinal, MaxOf
<1>3. CASE chain # <<>>
  <2>1. chain[Len(chain)].finalizedHeight \in 1..MaxOf(1, Len(chain) - 1)
    BY <1>1, <1>3 DEF ChainOK
  <2> QED
    BY <1>1, <1>3, <2>1 DEF lastFinal, MaxOf
<1> QED
  BY <1>2, <1>3

\* Persisting a block that fits keeps the chain and its finality records right.
LEMMA AppendBlock ==
  ASSUME NEW chain, ChainOK(chain), NEW block, NextOK(chain, block)
  PROVE  /\ ChainOK(Append(chain, block))
         /\ FinalOK(Append(chain, block), block.finalizedHeight)
         /\ Append(chain, block) # <<>>
         /\ Len(Append(chain, block)) = Len(chain) + 1
         /\ Append(chain, block)[Len(chain) + 1] = block
<1> DEFINE new == Append(chain, block)
<1>1. /\ new \in Seq(Block) /\ new # <<>> /\ Len(new) = Len(chain) + 1
      /\ \A i \in 1..Len(chain) : new[i] = chain[i]
      /\ new[Len(chain) + 1] = block
  BY AppendProperties DEF ChainOK, NextOK
<1>2. /\ Len(chain) \in Nat /\ lastFinal(chain) \in Nat \ {0}
      /\ chain # <<>> => Len(chain) > 0
      /\ chain = <<>> => Len(chain) = 0
  BY FinalRangeNat
<1>3. block.finalizedHeight \in Nat /\ block.finalizedHeight \in lastFinal(chain)..MaxOf(1, Len(chain))
  BY DEF NextOK, FinalRange, Block
<1> HIDE DEF new
<1>4. ASSUME NEW h \in 1..Len(new)
      PROVE  /\ Len(new[h].id) = h
             /\ h > 1 => reference(new[h].id) = new[h - 1].id
             /\ new[h].voting = headerVoting(new[h].id)
             /\ new[h].finalizedHeight \in 1..MaxOf(1, h - 1)
  <2>1. CASE h \in 1..Len(chain)
    <3>1. new[h] = chain[h] /\ (h > 1 => new[h - 1] = chain[h - 1])
      BY <1>1, <1>2, <2>1
    <3> QED
      BY <2>1, <3>1 DEF ChainOK
  <2>2. CASE h = Len(chain) + 1
    <3>1. new[h] = block /\ (h > 1 => new[h - 1] = chain[Len(chain)] /\ chain # <<>>)
      BY <1>1, <1>2, <2>2
    <3>2. new[h].finalizedHeight \in 1..MaxOf(1, h - 1)
      BY <1>2, <1>3, <2>2, <3>1 DEF MaxOf
    <3> QED
      BY <2>2, <3>1, <3>2 DEF NextOK
  <2> QED
    BY <1>1, <1>2, <2>1, <2>2
<1>5. ASSUME NEW i \in 1..Len(new), NEW j \in 1..Len(new), i <= j
      PROVE  new[i].finalizedHeight <= new[j].finalizedHeight
  <2>1. CASE j \in 1..Len(chain)
    <3>1. i \in 1..Len(chain) /\ new[i] = chain[i] /\ new[j] = chain[j]
      BY <1>1, <1>2, <1>5, <2>1
    <3> QED
      BY <1>5, <2>1, <3>1 DEF ChainOK
  <2>2. CASE j = Len(chain) + 1 /\ i = j
    <3>1. new[i] = block /\ new[j] = block
      BY <1>1, <2>2
    <3> QED
      BY <1>3, <3>1
  <2>3. CASE j = Len(chain) + 1 /\ i \in 1..Len(chain)
    <3>1. new[i] = chain[i] /\ new[j] = block /\ chain # <<>>
      BY <1>1, <1>2, <2>3
    <3>2. Len(chain) \in 1..Len(chain) /\ i <= Len(chain)
      BY <1>2, <2>3
    <3>3. chain[i].finalizedHeight <= lastFinal(chain) /\ chain[i].finalizedHeight \in Nat
      BY <2>3, <3>1, <3>2 DEF ChainOK, lastFinal
    <3> QED
      BY <1>2, <1>3, <3>1, <3>3
  <2> QED
    BY <1>1, <1>2, <1>5, <2>1, <2>2, <2>3
<1>6. ChainOK(new)
  BY <1>1, <1>4, <1>5 DEF ChainOK
<1>7. lastFinal(new) = block.finalizedHeight
  BY <1>1 DEF lastFinal
<1>8. block.finalizedHeight <= Len(new)
  BY <1>1, <1>2, <1>3 DEF MaxOf
<1> QED
  BY <1>1, <1>2, <1>3, <1>6, <1>7, <1>8 DEF FinalOK, new

\* So does cutting it, with the finalized height rewound as doRollback does.
LEMMA CutChain ==
  ASSUME NEW chain, ChainOK(chain), NEW final, FinalOK(chain, final), NEW h \in 1..Len(chain)
  PROVE  /\ ChainOK(SubSeq(chain, 1, h))
         /\ FinalOK(SubSeq(chain, 1, h), IF h < final THEN chain[h].finalizedHeight ELSE final)
         /\ SubSeq(chain, 1, h) # <<>>
<1> DEFINE new == SubSeq(chain, 1, h)
<1>1. Len(chain) \in Nat /\ h \in Nat \ {0} /\ h <= Len(chain)
  BY FinalRangeNat
<1>2. \A i \in 1..h : chain[i] \in Block
  BY <1>1, ElementOfSeq DEF ChainOK
<1>3. new \in Seq(Block) /\ Len(new) = h /\ \A i \in 1..h : new[i] = chain[i]
  <2>1. /\ new \in Seq(Block)
        /\ Len(new) = IF 1 <= h THEN h - 1 + 1 ELSE 0
        /\ \A i \in 1..(h - 1 + 1) : new[i] = chain[1 + i - 1]
    BY <1>1, <1>2, SubSeqProperties
  <2> QED
    BY <1>1, <2>1
<1> HIDE DEF new
<1>4. new # <<>>
  BY <1>1, <1>3, EmptySeq
<1>5. ChainOK(new)
  <2>1. \A k \in 1..h : k \in 1..Len(chain) /\ (k > 1 => k - 1 \in 1..h)
    BY <1>1
  <2> QED
    BY <1>1, <1>3, <2>1, Zenon DEF ChainOK
<1>6. lastFinal(new) = chain[h].finalizedHeight
  BY <1>1, <1>3, <1>4 DEF lastFinal
<1>7. chain[h].finalizedHeight \in 1..MaxOf(1, h - 1)
  BY DEF ChainOK
<1>8. chain[h].finalizedHeight \in Nat /\ chain[h].finalizedHeight <= h
  BY <1>1, <1>7 DEF MaxOf
<1>9. chain # <<>> /\ chain[h].finalizedHeight <= lastFinal(chain)
  <2>1. Len(chain) \in 1..Len(chain) /\ chain # <<>>
    BY <1>1, EmptySeq
  <2> QED
    BY <1>1, <2>1 DEF ChainOK, lastFinal
<1>10. final \in Nat /\ final \in lastFinal(chain)..Len(chain) /\ lastFinal(chain) \in Nat
  BY <1>9, FinalRangeNat DEF FinalOK
<1> QED
  BY <1>1, <1>3, <1>4, <1>5, <1>6, <1>8, <1>9, <1>10 DEF FinalOK, new

-----------------------------------------------------------------------------
(* Liquid blocks *)

\* A voting decides finality only for a non-empty generator set.
LEMMA FinalizedNeedsGenerators ==
  ASSUME NEW knownConflict, NEW miner, NEW voting
  PROVE  /\ ~isParentFinalized({}, knownConflict, miner, voting)
         /\ \A gs : isParentFinalized(gs, knownConflict, miner, voting) \in BOOLEAN
BY DEF isParentFinalized

\* What processBlock installs as the liquid block fits the chain below it.
LEMMA NewLiquid ==
  ASSUME NEW chain, ChainOK(chain),
         NEW b \in BlockId, Len(b) = Len(chain) + 1,
         chain # <<>> => reference(b) = chain[Len(chain)].id,
         NEW gs \in SUBSET Generators, chain = <<>> => gs = {}
  PROVE  LiquidOK(chain, newNgState(chain, b, gs))
<1> DEFINE ng == newNgState(chain, b, gs)
           conflicts == conflictGenerators(chain) \cup headerVoting(b).conflict
           latest == IF chain = <<>> THEN 0 ELSE chain[Len(chain)].finalizedHeight
           fallback == finalizedHeightOrFallback(Len(chain) + 1, latest)
           finalized == isParentFinalized(gs, conflicts, generator(b), headerVoting(b))
           updated == IF finalized THEN Len(chain) ELSE fallback
           fs == [miner |-> generator(b), generatorSet |-> gs, parentHeight |-> Len(chain),
                  baseFinalizedHeight |-> updated, accFinalizationVoting |-> headerVoting(b),
                  finalizedHeight |-> updated, parentFinalized |-> finalized]
<1>1. /\ Len(chain) \in Nat /\ lastFinal(chain) \in Nat \ {0}
      /\ lastFinal(chain) <= MaxOf(1, Len(chain))
      /\ chain # <<>> => Len(chain) > 0 /\ lastFinal(chain) <= Len(chain)
      /\ chain = <<>> => Len(chain) = 0
  BY FinalRangeNat
<1>2. b[Len(b)] \in Slot
  BY <1>1, ElementOfSeq DEF BlockId
<1>3. generator(b) \in Generators /\ headerVoting(b) \in Voting
  BY <1>2 DEF generator, headerVoting, slotOf, Slot
<1>4. fallback \in FinalRange(chain)
  <2>1. latest \in Nat /\ (IF latest = 0 THEN lastFinal(chain) = 1 ELSE latest = lastFinal(chain))
    BY <1>1 DEF lastFinal
  <2> QED
    BY <1>1, <2>1, FinalizationAssumption
       DEF finalizedHeightOrFallback, FinalRange, MaxOf, GenesisBlockHeight
<1>5. finalized => chain # <<>>
  BY FinalizedNeedsGenerators, Zenon
<1>6. finalized \in BOOLEAN
  BY FinalizedNeedsGenerators, Zenon
<1>7. ng = [base |-> b, microSnapshots |-> <<>>, finalizationState |-> fs]
  BY DEF newNgState, FinalizationInit
<1> HIDE DEF finalized, fallback
<1>8. updated \in FinalRange(chain) /\ updated \in Nat
  BY <1>1, <1>4, <1>5, <1>6 DEF FinalRange, MaxOf
<1> HIDE DEF updated, ng
<1>9. fs \in FinalizationState
  BY <1>1, <1>3, <1>6, <1>8 DEF FinalizationState
<1>10. ng \in LiquidState
  BY <1>7, <1>9, EmptySeq DEF LiquidState
<1>11. Len(ng.microSnapshots) = 0
  BY <1>7, EmptySeq
<1>12. /\ ng.base = b
       /\ ng.finalizationState.generatorSet = gs
       /\ ng.finalizationState.parentHeight = Len(chain)
       /\ ng.finalizationState.baseFinalizedHeight = updated
       /\ ng.finalizationState.finalizedHeight = updated
  BY <1>7
<1>13. LiquidOK(chain, ng)
  BY <1>8, <1>10, <1>11, <1>12 DEF LiquidOK
<1> QED
  BY <1>13 DEF ng

\* A node that starts on an empty store has the genesis block as its liquid block.
LEMMA GenesisLiquid ==
  LiquidOK(<<>>, newNgState(<<>>, Genesis, {}))
<1>1. ChainOK(<<>>)
  BY EmptySeq DEF ChainOK
<1>2. Genesis \in BlockId /\ Len(Genesis) = 1
  <2>1. (CHOOSE g \in Generators : TRUE) \in Generators
    BY FinalizationAssumption
  <2>2. NoVoting \in Voting
    BY DEF NoVoting, Voting
  <2>3. Genesis[1] \in Slot
    BY <2>1, <2>2 DEF Genesis, Slot
  <2> QED
    BY <2>3 DEF Genesis, BlockId
<1>3. Len(Genesis) = Len(<<>>) + 1
  BY <1>2, EmptySeq
<1> QED
  BY <1>1, <1>2, <1>3, NewLiquid, Zenon

\* Every id NgState knows stands for a block that fits the chain, and all of
\* them have the same parent.
LEMMA LiquidBlock ==
  ASSUME NEW chain, ChainOK(chain), NEW ng, LiquidOK(chain, ng),
         NEW id \in {ng.base} \cup {m.id : m \in Range(ng.microSnapshots)}
  PROVE  /\ NextOK(chain, liquidBlockOf(ng, id))
         /\ liquidBlockOf(ng, id).id = id
         /\ reference(id) = reference(ng.base)
         /\ id \in BlockId /\ Len(id) = Len(chain) + 1
<1>1. ng.base \in BlockId /\ Len(ng.base) = Len(chain) + 1 /\ Len(chain) \in Nat
  BY FinalRangeNat DEF LiquidOK, LiquidState
<1>2. CASE id = ng.base
  <2>1. ng.base[Len(ng.base)] \in Slot
    BY <1>1, ElementOfSeq DEF BlockId
  <2>2. headerVoting(id) \in Voting
    BY <1>2, <2>1 DEF headerVoting, slotOf, Slot
  <2>3. ng.finalizationState.baseFinalizedHeight \in Nat
    BY DEF LiquidOK, LiquidState, FinalizationState
  <2> QED
    BY <1>1, <1>2, <2>2, <2>3 DEF liquidBlockOf, NextOK, LiquidOK, Block
<1>3. CASE id # ng.base
  <2>1. \E m \in Range(ng.microSnapshots) : m.id = id
    BY <1>3
  <2> DEFINE found == CHOOSE m \in Range(ng.microSnapshots) : m.id = id
  <2>2. found \in Range(ng.microSnapshots) /\ found.id = id
    BY <2>1
  <2>3. liquidBlockOf(ng, id) = found
    BY <1>3 DEF liquidBlockOf
  <2> HIDE DEF found
  <2>4. PICK i \in 1..Len(ng.microSnapshots) : found = ng.microSnapshots[i]
    BY <2>2, LenProperties DEF Range, LiquidOK, LiquidState
  <2>5. NextOK(chain, found) /\ reference(found.id) = reference(ng.base)
    BY <2>4 DEF LiquidOK
  <2> QED
    BY <2>2, <2>3, <2>5 DEF NextOK, Block
<1> QED
  BY <1>2, <1>3

-----------------------------------------------------------------------------
(* What the handlers are made of *)

\* The ids the node knows are ids of blocks, at heights of its chain.
LEMMA KnownIds ==
  ASSUME CoreInv, NEW id, containsBlock(id)
  PROVE  /\ id \in BlockId
         /\ Len(id) \in 1..chainHeight
         /\ id \notin liquidIds => Len(id) \in 1..Len(persisted) /\ persisted[Len(id)].id = id
<1>1. Len(persisted) \in Nat
  BY FinalRangeNat DEF CoreInv
<1>2. CASE id \in liquidIds
  <2>1. ngState # NoNg /\ LiquidOK(persisted, ngState)
    BY <1>2 DEF liquidIds, CoreInv
  <2>2. id \in BlockId /\ Len(id) = Len(persisted) + 1
    BY <1>2, <2>1, LiquidBlock DEF liquidIds, CoreInv
  <2> QED
    BY <1>1, <1>2, <2>1, <2>2 DEF chainHeight
<1>3. CASE id \notin liquidIds
  <2>1. PICK h \in 1..Len(persisted) : id = persisted[h].id
    BY <1>3, LenProperties DEF containsBlock, persistedIds, Range, CoreInv, ChainOK
  <2>2. Len(id) = h
    BY <2>1 DEF CoreInv, ChainOK
  <2>3. persisted[h] \in Block
    BY ElementOfSeq DEF CoreInv, ChainOK
  <2> QED
    BY <1>1, <2>1, <2>2, <2>3 DEF Block, chainHeight
<1> QED
  BY <1>2, <1>3

\* The best liquid block is one of the liquid ones.
LEMMA BestIsLiquid ==
  ASSUME NEW chain, NEW ng, LiquidOK(chain, ng)
  PROVE  bestLiquidBlockId(ng) \in {ng.base} \cup {m.id : m \in Range(ng.microSnapshots)}
<1>1. ng.microSnapshots \in Seq(Block)
  BY DEF LiquidOK, LiquidState
<1>2. CASE ng.microSnapshots = <<>>
  BY <1>2 DEF bestLiquidBlockId
<1>3. CASE ng.microSnapshots # <<>>
  <2>1. Len(ng.microSnapshots) \in DOMAIN ng.microSnapshots
    BY <1>1, <1>3, EmptySeq, LenProperties
  <2> QED
    BY <1>3, <2>1 DEF bestLiquidBlockId, Range
<1> QED
  BY <1>2, <1>3

\* The tip is a block the node knows.
LEMMA TipKnown ==
  ASSUME CoreInv
  PROVE  /\ containsBlock(tipId)
         /\ ngState # NoNg => tipId \in liquidIds /\ Len(tipId) = Len(persisted) + 1
<1>1. CASE ngState # NoNg
  <2>1. LiquidOK(persisted, ngState)
    BY <1>1 DEF CoreInv
  <2>2. tipId \in liquidIds
    BY <1>1, <2>1, BestIsLiquid DEF tipId, liquidIds
  <2>3. Len(tipId) = Len(persisted) + 1
    BY <1>1, <2>1, <2>2, LiquidBlock, Zenon DEF liquidIds, CoreInv
  <2> QED
    BY <2>2, <2>3 DEF containsBlock
<1>2. CASE ngState = NoNg
  <2>1. persisted # <<>> /\ persisted \in Seq(Block)
    BY <1>2 DEF CoreInv, ChainOK
  <2>2. Len(persisted) \in DOMAIN persisted
    BY <2>1, EmptySeq, LenProperties
  <2> QED
    BY <1>2, <2>1, <2>2 DEF tipId, containsBlock, persistedIds, Range
<1> QED
  BY <1>1, <1>2

\* processBlock keeps the chain right in each of its three cases.
LEMMA ProcessBlockInv ==
  ASSUME CoreInv, NEW b, Above1(b), NEW gs \in SUBSET Generators, processBlock(b, gs)
  PROVE  CoreInv'
<1>1. /\ b \in BlockId /\ b # <<>> /\ Len(b) \in Nat /\ Len(b) > 1
      /\ reference(b) \in BlockId /\ Len(reference(b)) = Len(b) - 1
  <2>1. b \in BlockId /\ Len(b) > 1
    BY DEF Above1
  <2>2. b # <<>>
    BY <2>1, EmptySeq
  <2> QED
    BY <2>1, <2>2, ReferenceLen
<1>2. /\ ChainOK(persisted) /\ Len(persisted) \in Nat
      /\ persisted # <<>> => Len(persisted) > 0
      /\ persisted = <<>> => Len(persisted) = 0
  BY FinalRangeNat DEF CoreInv
<1>3. CASE ProcessFirst(b, gs)
  <2>1. persisted # <<>> /\ reference(b) = persisted[Len(persisted)].id
    BY <1>3 DEF ProcessFirst, CoreInv, tipId
  <2>2. Len(reference(b)) = Len(persisted)
    BY <1>2, <2>1 DEF ChainOK
  <2>3. LiquidOK(persisted, newNgState(persisted, b, gs))
    BY <1>1, <1>2, <2>1, <2>2, NewLiquid
  <2> QED
    BY <1>3, <2>1, <2>3 DEF ProcessFirst, CoreInv
<1>4. CASE ProcessBetter(b, gs)
  <2>1. LiquidOK(persisted, ngState) /\ reference(b) = reference(ngState.base)
    BY <1>4 DEF ProcessBetter, CoreInv
  <2>2. ngState.base \in BlockId /\ Len(ngState.base) = Len(persisted) + 1
    BY <2>1 DEF LiquidOK, LiquidState
  <2>3. ngState.base # <<>>
    BY <1>2, <2>2, EmptySeq
  <2>4. Len(reference(ngState.base)) = Len(persisted)
    BY <1>2, <2>2, <2>3, ReferenceLen
  <2>5. persisted # <<>> /\ Len(b) = Len(persisted) + 1
    BY <1>1, <1>2, <2>1, <2>4
  <2>6. reference(b) = persisted[Len(persisted)].id
    BY <2>1, <2>5 DEF LiquidOK
  <2>7. LiquidOK(persisted, newNgState(persisted, b, gs))
    BY <1>1, <1>2, <2>5, <2>6, NewLiquid
  <2> QED
    BY <1>4, <2>5, <2>7 DEF ProcessBetter, CoreInv
<1>5. CASE ProcessNext(b, gs)
  <2> DEFINE block == liquidBlockOf(ngState, reference(b))
             new == Append(persisted, block)
  <2>1. LiquidOK(persisted, ngState) /\ reference(b) \in liquidIds /\ ngState # NoNg
    BY <1>5 DEF ProcessNext, CoreInv
  <2>2. NextOK(persisted, block) /\ block.id = reference(b) /\ Len(reference(b)) = Len(persisted) + 1
    BY <1>2, <2>1, LiquidBlock DEF liquidIds
  <2> HIDE DEF block
  <2>3. /\ ChainOK(new) /\ FinalOK(new, block.finalizedHeight) /\ new # <<>>
        /\ Len(new) = Len(persisted) + 1 /\ new[Len(new)] = block
    BY <1>2, <2>2, AppendBlock
  <2>4. /\ persisted' = new /\ finalizedHeight' = block.finalizedHeight
        /\ ngState' = newNgState(new, b, gs)
        /\ safeRollbackHeight' = MaxOf(safeRollbackHeight, Len(persisted) + 1 - MaxRollbackDepth)
    BY <1>5 DEF ProcessNext, doAppend, block
  <2> HIDE DEF new
  <2>5. Len(b) = Len(new) + 1
    BY <1>1, <1>2, <2>2, <2>3
  <2>6. LiquidOK(new, newNgState(new, b, gs))
    BY <1>1, <2>2, <2>3, <2>5, NewLiquid
  <2>7. safeRollbackHeight' \in Nat
    BY <1>2, <2>4, NgChainAssumption DEF CoreInv, MaxOf
  <2> QED
    BY <2>3, <2>4, <2>6, <2>7 DEF CoreInv
<1> QED
  BY <1>3, <1>4, <1>5 DEF processBlock

\* doRollback, to any height of the chain and whatever happens to the liquid
\* block, keeps the chain and the finality records right.
LEMMA RollbackInv ==
  ASSUME CoreInv, NEW h \in 1..Len(persisted), doRollback(h), ngState' = NoNg
  PROVE  CoreInv'
<1>1. /\ ChainOK(persisted') /\ persisted' # <<>>
      /\ FinalOK(persisted', finalizedHeight')
  BY CutChain, Zenon DEF CoreInv, doRollback
<1> QED
  BY <1>1 DEF CoreInv, doRollback

\* removeAfter keeps the chain right, whether the id is liquid or persisted.
LEMMA RemoveAfterInv ==
  ASSUME CoreInv, NEW id, removeAfter(id)
  PROVE  CoreInv'
<1>1. CASE UNCHANGED <<persisted, finalizedHeight, safeRollbackHeight, ngState>>
  BY <1>1 DEF CoreInv
<1>2. CASE id \notin liquidIds /\ canRemoveAfter(id) /\ doRollback(Len(id)) /\ ngState' = NoNg
  <2>1. containsBlock(id)
    BY <1>2 DEF canRemoveAfter, containsBlock
  <2>2. Len(id) \in 1..Len(persisted)
    BY <1>2, <2>1, KnownIds
  <2> QED
    BY <1>2, <2>2, RollbackInv
<1> QED
  BY <1>1, <1>2 DEF removeAfter

\* A microblock grows the liquid block in place.
LEMMA MicroBlockInv ==
  ASSUME CoreInv, NEW voting \in Votings, AppendMicroBlock(voting)
  PROVE  CoreInv'
<1> DEFINE ng == ngState
           fs == ng.finalizationState
           total == combine(liquidBlockOf(ngState, tipId).voting, voting)
           gs == fs.generatorSet \ total.conflict
           st == FinalizationAppend(fs, voting, gs)
           id == createTotalBlockId(tipId, st.accFinalizationVoting)
           block == [id |-> id, voting |-> st.accFinalizationVoting, finalizedHeight |-> st.finalizedHeight]
<1>1. ngState # NoNg /\ LiquidOK(persisted, ng) /\ ChainOK(persisted)
  BY DEF AppendMicroBlock, CoreInv
<1>2. /\ ngState' = [ngState EXCEPT !.microSnapshots = Append(@, block), !.finalizationState = st]
      /\ UNCHANGED <<persisted, finalizedHeight, safeRollbackHeight>>
  BY DEF AppendMicroBlock
<1>3. /\ ng \in LiquidState /\ fs \in FinalizationState /\ fs.parentHeight = Len(persisted)
      /\ fs.finalizedHeight \in FinalRange(persisted)
      /\ fs.baseFinalizedHeight \in FinalRange(persisted)
      /\ persisted = <<>> => fs.generatorSet = {}
  BY <1>1 DEF LiquidOK, LiquidState
<1>4. voting \in Voting
  BY NgChainAssumption
<1>5. gs \in SUBSET Generators /\ (persisted = <<>> => gs = {})
  BY <1>3 DEF FinalizationState
<1> HIDE DEF fs, gs
<1>6. /\ st \in FinalizationState
      /\ st.generatorSet = gs
      /\ st.parentHeight = fs.parentHeight
      /\ st.baseFinalizedHeight = fs.baseFinalizedHeight
      /\ st.finalizedHeight \in FinalRange(persisted)
      /\ st.accFinalizationVoting \in Voting
  <2> DEFINE kept == voting = NoVoting \/ (fs.parentFinalized /\ voting.conflict = {})
             recount == isParentFinalized(gs, voting.conflict, fs.miner, voting)
             finalized == IF kept THEN fs.parentFinalized ELSE recount
             acc == combine(fs.accFinalizationVoting, voting)
             height == IF ~kept /\ finalized THEN fs.parentHeight ELSE fs.finalizedHeight
  <2>1. st = [fs EXCEPT !.generatorSet = gs, !.accFinalizationVoting = acc,
                        !.finalizedHeight = height, !.parentFinalized = finalized]
    BY DEF FinalizationAppend
  <2>2. acc \in Voting
    BY <1>3, <1>4 DEF combine, Voting, FinalizationState
  <2>3. recount \in BOOLEAN /\ (recount => persisted # <<>>)
    BY <1>5, FinalizedNeedsGenerators, Zenon
  <2> HIDE DEF recount, acc
  <2>4. finalized \in BOOLEAN
    BY <1>3, <2>3 DEF FinalizationState
  <2>5. height = fs.finalizedHeight \/ (height = Len(persisted) /\ persisted # <<>>)
    BY <1>3, <2>3
  <2> HIDE DEF finalized, height
  <2>6. /\ Len(persisted) \in Nat /\ lastFinal(persisted) \in Nat
        /\ persisted # <<>> => Len(persisted) > 0 /\ lastFinal(persisted) <= Len(persisted)
    BY <1>1, FinalRangeNat
  <2>7. height \in FinalRange(persisted)
    BY <1>3, <2>5, <2>6 DEF FinalRange, MaxOf
  <2>8. height \in Nat
    BY <1>3, <2>5, <2>6 DEF FinalizationState
  <2> QED
    BY <1>3, <1>5, <2>1, <2>2, <2>4, <2>7, <2>8, Zenon DEF FinalizationState
<1> HIDE DEF st
<1>7. tipId \in liquidIds /\ tipId \in BlockId /\ Len(tipId) = Len(persisted) + 1 /\ tipId # <<>>
  <2>1. containsBlock(tipId) /\ tipId \in liquidIds /\ Len(tipId) = Len(persisted) + 1
    BY <1>1, TipKnown
  <2>2. tipId \in BlockId /\ Len(persisted) \in Nat
    BY <1>1, <2>1, KnownIds, FinalRangeNat
  <2> QED
    BY <2>1, <2>2, EmptySeq
<1>8. reference(tipId) = reference(ng.base)
  BY <1>1, <1>7, LiquidBlock DEF liquidIds
<1>9. /\ id \in BlockId /\ Len(id) = Len(persisted) + 1
      /\ reference(id) = reference(tipId)
      /\ headerVoting(id) = st.accFinalizationVoting
  <2> DEFINE slot == [slotOf(tipId) EXCEPT !.parts = @ + 1, !.voting = st.accFinalizationVoting]
  <2>1. Len(tipId) \in Nat \ {0} /\ reference(tipId) \in BlockId /\ Len(reference(tipId)) = Len(tipId) - 1
    BY <1>7, ReferenceLen
  <2>2. slotOf(tipId) \in Slot
    BY <1>7, <2>1, ElementOfSeq DEF slotOf, BlockId
  <2>3. slot \in Slot /\ slot.voting = st.accFinalizationVoting
    BY <1>6, <2>2, GrownSlot, Zenon
  <2> HIDE DEF slot
  <2>4. id = Append(reference(tipId), slot)
    BY DEF createTotalBlockId, slot
  <2>5. /\ id \in BlockId /\ Len(id) = Len(reference(tipId)) + 1
        /\ slotOf(id) = slot /\ reference(id) = reference(tipId)
    BY <2>1, <2>3, <2>4, AppendSlot
  <2> QED
    BY <1>7, <2>1, <2>3, <2>5 DEF headerVoting
<1> HIDE DEF id
<1>10. NextOK(persisted, block) /\ reference(block.id) = reference(ng.base) /\ block \in Block
  <2>1. block \in Block
    BY <1>6, <1>9 DEF Block, FinalizationState
  <2>2. persisted # <<>> => reference(id) = persisted[Len(persisted)].id
    BY <1>1, <1>8, <1>9 DEF LiquidOK
  <2> QED
    BY <1>6, <1>8, <1>9, <2>1, <2>2 DEF NextOK
<1> HIDE DEF block
<1> DEFINE micros == Append(ng.microSnapshots, block)
<1>11. /\ micros \in Seq(Block) /\ Len(micros) = Len(ng.microSnapshots) + 1
       /\ Len(ng.microSnapshots) \in Nat
       /\ \A i \in 1..Len(ng.microSnapshots) : micros[i] = ng.microSnapshots[i]
       /\ micros[Len(ng.microSnapshots) + 1] = block
  BY <1>3, <1>10, AppendProperties, LenProperties DEF LiquidState
<1>12. ASSUME NEW i \in 1..Len(micros)
       PROVE  NextOK(persisted, micros[i]) /\ reference(micros[i].id) = reference(ng.base)
  <2>1. CASE i \in 1..Len(ng.microSnapshots)
    BY <1>1, <1>11, <2>1 DEF LiquidOK
  <2>2. CASE i = Len(ng.microSnapshots) + 1
    BY <1>10, <1>11, <2>2
  <2> QED
    BY <1>11, <2>1, <2>2
<1> HIDE DEF micros
<1>13. /\ ngState' = [ngState EXCEPT !.microSnapshots = micros, !.finalizationState = st]
       /\ ngState'.base = ng.base /\ ngState'.microSnapshots = micros
       /\ ngState'.finalizationState = st /\ ngState' \in LiquidState
  BY <1>2, <1>3, <1>6, <1>11, Zenon DEF LiquidState, micros
<1>14. LiquidOK(persisted, ngState')
  BY <1>1, <1>3, <1>5, <1>6, <1>12, <1>13 DEF LiquidOK
<1>15. ngState'.base # <<>>
  <2>1. Len(ng.base) = Len(persisted) + 1 /\ Len(persisted) \in Nat
    BY <1>1, FinalRangeNat DEF LiquidOK
  <2> QED
    BY <1>13, <2>1, EmptySeq
<1>16. ngState' # NoNg
  BY <1>15 DEF NoNg
<1> QED
  BY <1>2, <1>14, <1>16 DEF CoreInv

-----------------------------------------------------------------------------
(* The specification *)

\* The inductive invariant holds when the node starts for the first time.
LEMMA InitInv == Init => NgInv
<1> SUFFICES ASSUME Init PROVE NgInv
  OBVIOUS
<1>1. ChainOK(<<>>) /\ FinalOK(<<>>, 0)
  BY EmptySeq DEF ChainOK, FinalOK
<1>2. LiquidOK(<<>>, ngState) /\ ngState.base = Genesis
  BY GenesisLiquid DEF Init, newNgState
<1>3. ngState # NoNg
  BY <1>2, EmptySeq DEF NoNg, Genesis
<1> QED
  BY <1>1, <1>2, <1>3 DEF Init, NgInv, CoreInv

\* The blocks removeAfter drops are above height 1.
LEMMA DroppedAbove1 ==
  ASSUME CoreInv, NEW h \in 1..Len(persisted)
  PROVE  /\ discardedBlocks(h) \in Seq(BlockId)
         /\ \A i \in 1..Len(discardedBlocks(h)) : Above1(discardedBlocks(h)[i])
<1> DEFINE A == {id \in BlockId : Len(id) > 1}
           old == [i \in 1..(Len(persisted) - h) |-> persisted[h + i].id]
           liquid == IF ngState = NoNg THEN <<>> ELSE <<bestLiquidBlockId(ngState)>>
<1>1. Len(persisted) \in Nat /\ Len(persisted) > 0 /\ h \in Nat
  BY FinalRangeNat DEF CoreInv
<1>2. old \in Seq(A)
  <2>1. \A i \in 1..(Len(persisted) - h) : persisted[h + i].id \in A
    <3> SUFFICES ASSUME NEW i \in 1..(Len(persisted) - h) PROVE persisted[h + i].id \in A
      OBVIOUS
    <3>1. h + i \in 1..Len(persisted) /\ h + i > 1
      BY <1>1
    <3>2. persisted[h + i] \in Block /\ Len(persisted[h + i].id) = h + i
      BY <3>1, ElementOfSeq, SMTT(30) DEF CoreInv, ChainOK
    <3> QED
      BY <3>1, <3>2 DEF Block
  <2>2. Len(persisted) - h \in Nat
    BY <1>1
  <2>3. old \in [1..(Len(persisted) - h) -> A]
    BY <2>1
  <2> QED
    BY <2>2, <2>3, SeqDef, Zenon
<1>3. liquid \in Seq(A)
  <2>1. CASE ngState = NoNg
    BY <2>1, EmptySeq
  <2>2. CASE ngState # NoNg
    <3>1. tipId = bestLiquidBlockId(ngState)
      BY <2>2 DEF tipId
    <3>2. tipId \in BlockId /\ Len(tipId) = Len(persisted) + 1
      BY <2>2, TipKnown, KnownIds
    <3>3. tipId \in A
      BY <1>1, <3>2
    <3> QED
      BY <2>2, <3>1, <3>3
  <2> QED
    BY <2>1, <2>2
<1> HIDE DEF A, old, liquid
<1>4. old \o liquid \in Seq(A)
  BY <1>2, <1>3, ConcatProperties
<1>5. discardedBlocks(h) \in Seq(A)
  BY <1>4 DEF discardedBlocks, old, liquid
<1>6. discardedBlocks(h) \in Seq(BlockId)
  BY <1>5, SeqMonotonic DEF A
<1>7. \A i \in 1..Len(discardedBlocks(h)) : discardedBlocks(h)[i] \in A
  BY <1>5, ElementOfSeq
<1> QED
  BY <1>6, <1>7 DEF A, Above1

\* ProcessBlockInv for a block validated against a view of the node: its parent
\* is known, so it is above height 1.
LEMMA ValidatedAbove1 ==
  ASSUME CoreInv, NEW b \in BlockId, b # <<>>, containsBlock(reference(b))
  PROVE  Above1(b)
<1>1. reference(b) \in BlockId /\ Len(reference(b)) = Len(b) - 1 /\ Len(b) \in Nat
  BY ReferenceLen
<1>2. Len(reference(b)) \in 1..chainHeight
  BY KnownIds
<1> QED
  BY <1>1, <1>2 DEF Above1

\* An extension in state s stays well-formed when only part of it is left to restore.
LEMMA RestoringOK ==
  ASSUME extension # NoExtension, ExtensionOK(extension),
         NEW dropped \in Seq(BlockId), \A i \in 1..Len(dropped) : Above1(dropped[i])
  PROVE  Restoring(dropped) # NoExtension => ExtensionOK(Restoring(dropped))
<1> SUFFICES ASSUME Restoring(dropped) # NoExtension PROVE ExtensionOK(Restoring(dropped))
  OBVIOUS
<1> DEFINE new == [extension EXCEPT !.phase = "restore", !.dropped = dropped]
<1>1. dropped # <<>> /\ Restoring(dropped) = new
  BY DEF Restoring
<1>2. new \in [phase : {"apply", "restore"}, common : BlockId, first : BlockId, applied : Nat,
               tip : BlockId, dropped : Seq(BlockId)]
  BY Zenon DEF ExtensionOK
<1>3. new.phase = "restore" /\ new.dropped = dropped /\ new.first = extension.first
  BY DEF ExtensionOK
<1> HIDE DEF new
<1> QED
  BY <1>1, <1>2, <1>3 DEF ExtensionOK

\* Every handler, and a crash between or inside them, keeps the inductive invariant.
LEMMA NextInv == NgInv /\ [Next]_vars => NgInv'
<1> SUFFICES ASSUME NgInv, [Next]_vars PROVE NgInv'
  OBVIOUS
<1>0. CoreInv
  BY DEF NgInv
<1>1. ASSUME NEW ref \in liquidIds \cup {tipId, reference(tipId)}, NEW b \in Children(ref, 1), AppendKeyBlock(b)
      PROVE  NgInv'
  <2>1. ref \in BlockId
    <3>1. tipId \in BlockId /\ Len(tipId) \in Nat \ {0}
      BY <1>0, TipKnown, KnownIds
    <3>2. tipId # <<>>
      BY <3>1, EmptySeq
    <3>3. ref \in liquidIds => ref \in BlockId
      BY <1>0, KnownIds DEF containsBlock
    <3> QED
      BY <3>1, <3>2, <3>3, ReferenceLen
  <2>2. b \in BlockId /\ b # <<>>
    BY <2>1, ChildrenAbove1
  <2>3. Above1(b)
    BY <1>0, <1>1, <2>2, ValidatedAbove1 DEF AppendKeyBlock, validateBlock
  <2>4. \E gs \in SUBSET Generators : processBlock(b, gs)
    BY <1>1 DEF AppendKeyBlock, generatorSetFor, eligibleGenerators
  <2>5. CoreInv'
    BY <1>0, <2>3, <2>4, ProcessBlockInv
  <2> QED
    BY <1>1, <2>5 DEF NgInv, AppendKeyBlock
<1>2. ASSUME NEW v \in Votings, AppendMicroBlock(v)
      PROVE  NgInv'
  <2>1. CoreInv'
    BY <1>0, <1>2, MicroBlockInv
  <2> QED
    BY <1>2, <2>1 DEF NgInv, AppendMicroBlock
<1>3. ASSUME NEW ref \in knownIds, NEW b \in Children(ref, MaxParts), StartExtension(b)
      PROVE  NgInv'
  <2> DEFINE common == reference(b)
             isRollback == Len(common) < chainHeight
             dropped == IF isRollback THEN discardedBlocks(Len(common)) ELSE <<>>
  <2>1. ref \in BlockId
    BY <1>0, KnownIds DEF knownIds, containsBlock
  <2>2. b \in BlockId /\ b # <<>>
    BY <2>1, ChildrenAbove1, NgChainAssumption
  <2>3. containsBlock(common) /\ extension = NoExtension
    BY <1>3 DEF StartExtension, isFork
  <2>4. Above1(b) /\ common \in BlockId
    BY <1>0, <2>2, <2>3, ValidatedAbove1, ReferenceLen
  <2>5. CoreInv'
    <3>1. CASE isRollback
      BY <1>0, <1>3, <3>1, RemoveAfterInv DEF StartExtension
    <3>2. CASE ~isRollback
      BY <1>0, <1>3, <3>2 DEF StartExtension, CoreInv
    <3> QED
      BY <3>1, <3>2
  <2>6. dropped \in Seq(BlockId) /\ \A i \in 1..Len(dropped) : Above1(dropped[i])
    <3>1. CASE isRollback
      <4>1. Len(common) \in 1..chainHeight /\ Len(persisted) \in Nat
        BY <1>0, <2>3, KnownIds, FinalRangeNat DEF CoreInv
      <4>2. Len(common) \in 1..Len(persisted)
        BY <3>1, <4>1 DEF chainHeight
      <4> QED
        BY <1>0, <3>1, <4>2, DroppedAbove1
    <3>2. CASE ~isRollback
      BY <3>2, EmptySeq
    <3> QED
      BY <3>1, <3>2
  <2>7. tipId \in BlockId
    BY <1>0, TipKnown, KnownIds
  <2>8. extension' = [phase |-> "apply", common |-> common, first |-> b, applied |-> 0,
                      tip |-> tipId, dropped |-> dropped]
    BY <1>3 DEF StartExtension
  <2> HIDE DEF common, dropped
  <2>9. ExtensionOK(extension')
    BY <2>2, <2>4, <2>6, <2>7, <2>8 DEF ExtensionOK
  <2> QED
    BY <2>5, <2>9 DEF NgInv
<1>4. ASSUME extension.phase = "apply", NEW b \in nextExtensionBlocks, ApplyExtensionBlock(b)
      PROVE  NgInv'
  <2>1. extension # NoExtension /\ ExtensionOK(extension)
    BY <1>4 DEF NoExtension, NgInv
  <2>2. b \in BlockId /\ b # <<>>
    <3>1. CASE extension.applied = 0
      <4>1. b = extension.first
        BY <3>1 DEF nextExtensionBlocks
      <4> QED
        BY <2>1, <4>1, EmptySeq DEF ExtensionOK, Above1
    <3>2. CASE extension.applied # 0
      <4>1. b \in Children(ngState.base, MaxParts) /\ extension.applied < MaxExtension
        BY <3>2 DEF nextExtensionBlocks
      <4>2. ngState.base \in BlockId
        <5>1. CASE ngState = NoNg
          BY <5>1, EmptySeq DEF NoNg, BlockId
        <5>2. CASE ngState # NoNg
          BY <1>0, <5>2 DEF CoreInv, LiquidOK, LiquidState
        <5> QED
          BY <5>1, <5>2
      <4> QED
        BY <4>1, <4>2, ChildrenAbove1, NgChainAssumption
    <3> QED
      BY <3>1, <3>2
  <2>3. Above1(b)
    BY <1>0, <1>4, <2>2, ValidatedAbove1 DEF ApplyExtensionBlock, validateBlock
  <2>4. \E gs \in SUBSET Generators : processBlock(b, gs)
    BY <1>4 DEF ApplyExtensionBlock, generatorSetFor, eligibleGenerators
  <2>5. CoreInv'
    BY <1>0, <2>3, <2>4, ProcessBlockInv
  <2>6. ExtensionOK(extension')
    BY <1>4, <2>1 DEF ApplyExtensionBlock, ExtensionOK
  <2> QED
    BY <2>5, <2>6 DEF NgInv
<1>5. CASE FinishExtension
  BY <1>0, <1>5 DEF FinishExtension, NgInv, CoreInv
<1>6. CASE DeclineExtensionBlock
  <2>1. extension # NoExtension /\ ExtensionOK(extension)
    BY <1>6 DEF DeclineExtensionBlock, NoExtension, NgInv
  <2>2. CoreInv'
    BY <1>0, <1>6, RemoveAfterInv DEF DeclineExtensionBlock
  <2>3. extension' # NoExtension => ExtensionOK(extension')
    BY <1>6, <2>1, RestoringOK DEF DeclineExtensionBlock, ExtensionOK
  <2> QED
    BY <2>2, <2>3 DEF NgInv
<1>7. CASE RestoreDroppedBlock
  <2>1. extension # NoExtension /\ ExtensionOK(extension) /\ extension.phase = "restore"
    BY <1>7 DEF RestoreDroppedBlock, NoExtension, NgInv
  <2>2. extension.dropped \in Seq(BlockId) /\ extension.dropped # <<>>
    BY <2>1 DEF ExtensionOK
  <2>3. Len(extension.dropped) \in Nat \ {0} /\ Head(extension.dropped) = extension.dropped[1]
    BY <2>2, EmptySeq
  <2>4. Above1(Head(extension.dropped))
    BY <2>1, <2>3 DEF ExtensionOK
  <2>5. CoreInv'
    BY <1>0, <1>7, <2>4, ProcessBlockInv DEF RestoreDroppedBlock
  <2> DEFINE rest == Tail(extension.dropped)
  <2>6. /\ rest \in Seq(BlockId) /\ Len(rest) = Len(extension.dropped) - 1
        /\ \A i \in 1..Len(rest) : rest[i] = extension.dropped[i + 1]
    BY <2>2, HeadTailProperties
  <2>7. \A i \in 1..Len(rest) : Above1(rest[i])
    BY <2>1, <2>3, <2>6 DEF ExtensionOK
  <2>8. extension' = Restoring(rest)
    BY <1>7 DEF RestoreDroppedBlock
  <2> HIDE DEF rest
  <2>9. extension' # NoExtension => ExtensionOK(extension')
    BY <2>1, <2>6, <2>7, <2>8, RestoringOK
  <2> QED
    BY <2>5, <2>9 DEF NgInv
<1>8. ASSUME NEW id \in persistedIds, ForcedRollback(id)
      PROVE  NgInv'
  BY <1>0, <1>8, RemoveAfterInv DEF ForcedRollback, NgInv
<1>9. CASE Crash
  <2>1. CASE persisted = <<>>
    <3>1. ngState' = newNgState(<<>>, Genesis, {})
      BY <1>9, <2>1 DEF Crash, restart
    <3>2. LiquidOK(<<>>, ngState') /\ ngState'.base = Genesis
      BY <3>1, GenesisLiquid DEF newNgState
    <3>3. Genesis # <<>>
      BY EmptySeq DEF Genesis
    <3>4. ngState' # NoNg
      BY <3>2, <3>3 DEF NoNg
    <3> QED
      BY <1>0, <1>9, <2>1, <3>2, <3>4 DEF Crash, NgInv, CoreInv
  <2>2. CASE persisted # <<>>
    BY <1>0, <1>9, <2>2 DEF Crash, restart, NgInv, CoreInv
  <2> QED
    BY <2>1, <2>2
<1>10. ASSUME NEW ref \in knownIds, NEW b \in Children(ref, 1), NEW h \in 1..MaxHeight, CrashInRollback(b, h)
       PROVE  NgInv'
  <2>1. reference(b) \notin liquidIds /\ containsBlock(reference(b))
    BY <1>10 DEF CrashInRollback, isFork
  <2>2. Len(reference(b)) \in 1..Len(persisted) /\ Len(persisted) \in Nat
    BY <1>0, <2>1, KnownIds, FinalRangeNat DEF CoreInv
  <2>3. h \in 1..Len(persisted)
    BY <1>10, <2>2 DEF CrashInRollback
  <2>4. CoreInv'
    BY <1>0, <1>10, <2>3, RollbackInv DEF CrashInRollback
  <2> QED
    BY <1>10, <2>4 DEF NgInv, CrashInRollback
<1>11. CASE UNCHANGED vars
  BY <1>11 DEF vars, NgInv, CoreInv
<1> QED
  BY <1>1, <1>2, <1>3, <1>4, <1>5, <1>6, <1>7, <1>8, <1>9, <1>10, <1>11 DEF Next

\* Every reachable state satisfies the inductive invariant.
THEOREM SpecInv == Spec => []NgInv
BY InitInv, NextInv, PTL DEF Spec

\* The variables of the node's chain keep their types, whatever the appenders,
\* the rollbacks and the crashes do.
THEOREM SpecTypeOK == Spec => []TypeOK
<1>1. NgInv => TypeOK
  BY DEF NgInv, CoreInv, TypeOK, ChainOK, FinalOK, LiquidOK, ExtensionOK
<1> QED
  BY <1>1, SpecInv, PTL

\* BlockchainUpdaterImpl never puts a block on top of one it does not reference.
THEOREM SpecChainLinked == Spec => []ChainLinked
<1>1. NgInv => ChainLinked
  <2> SUFFICES ASSUME NgInv PROVE ChainLinked
    OBVIOUS
  <2>1. ASSUME ngState # NoNg, NEW i \in 1..Len(ngState.microSnapshots)
        PROVE  /\ Len(ngState.microSnapshots[i].id) = Len(persisted) + 1
               /\ reference(ngState.microSnapshots[i].id) = reference(ngState.base)
    BY <2>1 DEF NgInv, CoreInv, LiquidOK, NextOK
  <2> QED
    BY <2>1 DEF NgInv, CoreInv, ChainOK, LiquidOK, ChainLinked
<1> QED
  BY <1>1, SpecInv, PTL

\* A block persisted or forged by NgState has the voting its id commits to.
THEOREM SpecForgedMatchesId == Spec => []ForgedMatchesId
<1>1. NgInv => ForgedMatchesId
  <2> SUFFICES ASSUME NgInv PROVE ForgedMatchesId
    OBVIOUS
  <2>1. \A h \in 1..Len(persisted) : persisted[h].voting = headerVoting(persisted[h].id)
    BY DEF NgInv, CoreInv, ChainOK
  <2>2. ASSUME NEW id \in liquidIds
        PROVE  liquidBlockOf(ngState, id).voting = headerVoting(id)
    <3>1. LiquidOK(persisted, ngState) /\ ChainOK(persisted)
      BY DEF liquidIds, NgInv, CoreInv
    <3>2. NextOK(persisted, liquidBlockOf(ngState, id)) /\ liquidBlockOf(ngState, id).id = id
      BY <3>1, LiquidBlock DEF liquidIds
    <3> QED
      BY <3>2 DEF NextOK
  <2> QED
    BY <2>1, <2>2 DEF ForgedMatchesId
<1> QED
  BY <1>1, SpecInv, PTL

\* The finality records of the chain, of the liquid block and of the node agree,
\* through forks, restores, forced rollbacks and crashes.
THEOREM SpecFinalityHistory == Spec => []FinalityHistory
<1>1. NgInv => FinalityHistory
  <2> SUFFICES ASSUME NgInv PROVE FinalityHistory
    OBVIOUS
  <2>1. ChainOK(persisted) /\ FinalOK(persisted, finalizedHeight)
    BY DEF NgInv, CoreInv
  <2>2. ASSUME NEW id \in liquidIds
        PROVE  liquidBlockOf(ngState, id).finalizedHeight \in FinalRange(persisted)
    <3>1. LiquidOK(persisted, ngState)
      BY DEF liquidIds, NgInv, CoreInv
    <3>2. NextOK(persisted, liquidBlockOf(ngState, id))
      BY <2>1, <3>1, LiquidBlock DEF liquidIds
    <3> QED
      BY <3>2 DEF NextOK
  <2>3. persisted # <<>> => finalizedHeight \in persisted[Len(persisted)].finalizedHeight..Len(persisted)
    BY <2>1 DEF FinalOK, lastFinal
  <2>4. /\ \A h \in 1..Len(persisted) : persisted[h].finalizedHeight \in 1..MaxOf(1, h - 1)
        /\ \A i, j \in 1..Len(persisted) : i <= j => persisted[i].finalizedHeight <= persisted[j].finalizedHeight
    BY <2>1 DEF ChainOK
  <2> QED
    BY <2>2, <2>3, <2>4 DEF FinalityHistory, FinalRange, lastFinal
<1> QED
  BY <1>1, SpecInv, PTL

-----------------------------------------------------------------------------
(* Forks *)

\* The part of the chain a step may not touch.
FinalizedKept ==
  \A h \in 1..Len(persisted) : h <= finalizedHeight => h <= Len(persisted') /\ persisted'[h] = persisted[h]

\* A rollback to a height that is not below the finalized one keeps what is final.
LEMMA RollbackKeeps ==
  ASSUME CoreInv, NEW n \in 1..Len(persisted), n >= finalizedHeight, doRollback(n)
  PROVE  FinalizedKept
<1>1. persisted \in Seq(Block) /\ Len(persisted) \in Nat /\ finalizedHeight \in Nat
  BY DEF CoreInv, ChainOK, FinalOK
<1>2. Len(persisted') = n /\ \A i \in 1..n : persisted'[i] = persisted[i]
  BY <1>1 DEF doRollback
<1> QED
  BY <1>1, <1>2 DEF FinalizedKept

\* Handing a block to BlockchainUpdaterImpl.processBlock drops no persisted block.
LEMMA ProcessBlockKeeps ==
  ASSUME CoreInv, NEW b, NEW gs, processBlock(b, gs)
  PROVE  FinalizedKept
<1>1. persisted \in Seq(Block) /\ Len(persisted) \in Nat
  BY DEF CoreInv, ChainOK
<1>2. CASE persisted' = persisted
  BY <1>1, <1>2 DEF FinalizedKept
<1>3. ASSUME NEW block, doAppend(block) PROVE FinalizedKept
  <2>1. Len(persisted') = Len(persisted) + 1 /\ \A i \in 1..Len(persisted) : persisted'[i] = persisted[i]
    BY <1>1, <1>3 DEF doAppend
  <2> QED
    BY <1>1, <2>1 DEF FinalizedKept
<1> QED
  BY <1>2, <1>3, SMTT(30) DEF processBlock, ProcessFirst, ProcessBetter, ProcessNext

\* A fork is accepted only at or above the height final for the node.
LEMMA ForkAboveFinal ==
  ASSUME CoreInv, NEW b, isFork(b), reference(b) \notin liquidIds
  PROVE  Len(reference(b)) \in 1..Len(persisted) /\ Len(reference(b)) >= finalizedHeight
<1>1. Len(reference(b)) \in 1..Len(persisted) /\ Len(persisted) \in Nat
  BY KnownIds, FinalRangeNat DEF isFork, CoreInv
<1>2. chainHeight \in Nat /\ finalizedHeight \in Nat /\ MaxSyncRollback \in Nat
  BY <1>1, FinalizationAssumption DEF chainHeight, CoreInv, FinalOK
<1>3. syncBoundary >= finalizedHeight /\ syncBoundary \in Int
  BY <1>2 DEF syncBoundary, finalizedHeightOrFallback, MaxOf, GenesisBlockHeight
<1> QED
  BY <1>1, <1>2, <1>3 DEF isFork

\* No fork, and no crash in the middle of one, drops a block that is final for
\* the node: only a forced rollback does.
THEOREM SpecForkKeepsFinalized == Spec => ForkKeepsFinalized
<1>1. ASSUME NgInv, [Next]_vars, extension = NoExtension, ~(\E id \in persistedIds : ForcedRollback(id))
      PROVE  FinalizedKept
  <2>0. CoreInv /\ extension.phase = "none"
    BY <1>1 DEF NgInv, NoExtension
  <2>1. ASSUME NEW b, AppendKeyBlock(b) PROVE FinalizedKept
    BY <2>0, <2>1, ProcessBlockKeeps DEF AppendKeyBlock
  <2>2. CASE persisted' = persisted
    <3>1. Len(persisted) \in Nat
      BY <2>0 DEF CoreInv, ChainOK
    <3> QED
      BY <2>2, <3>1 DEF FinalizedKept
  <2>3. ASSUME NEW b, StartExtension(b) PROVE FinalizedKept
    <3>1. \/ persisted' = persisted
          \/ reference(b) \notin liquidIds /\ doRollback(Len(reference(b)))
      BY <2>3 DEF StartExtension, removeAfter
    <3>2. isFork(b)
      BY <2>3 DEF StartExtension
    <3> QED
      BY <2>0, <2>2, <3>1, <3>2, ForkAboveFinal, RollbackKeeps
  <2>4. ASSUME NEW b, NEW h \in 1..MaxHeight, CrashInRollback(b, h) PROVE FinalizedKept
    <3>1. isFork(b) /\ reference(b) \notin liquidIds /\ doRollback(h)
          /\ h \in (Len(reference(b)) + 1)..(Len(persisted) - 1)
      BY <2>4 DEF CrashInRollback
    <3>2. Len(reference(b)) \in 1..Len(persisted) /\ Len(reference(b)) >= finalizedHeight
      BY <2>0, <3>1, ForkAboveFinal
    <3>3. Len(persisted) \in Nat /\ finalizedHeight \in Nat
      BY <2>0 DEF CoreInv, ChainOK, FinalOK
    <3>4. h \in 1..Len(persisted) /\ h >= finalizedHeight
      BY <3>1, <3>2, <3>3
    <3> QED
      BY <2>0, <3>1, <3>4, RollbackKeeps
  <2>5. CASE UNCHANGED vars
    BY <2>2, <2>5 DEF vars
  <2>6. CASE Crash \/ \E v \in Votings : AppendMicroBlock(v)
    BY <2>2, <2>6, Zenon DEF Crash, AppendMicroBlock
  <2>7. ~FinishExtension /\ ~DeclineExtensionBlock /\ ~RestoreDroppedBlock /\ extension.phase # "apply"
    BY <2>0 DEF FinishExtension, DeclineExtensionBlock, RestoreDroppedBlock
  <2> QED
    BY <1>1, <2>1, <2>3, <2>4, <2>5, <2>6, <2>7 DEF Next
<1>2. NgInv /\ [Next]_vars =>
        [extension = NoExtension /\ ~(\E id \in persistedIds : ForcedRollback(id)) =>
           \A h \in 1..Len(persisted) :
             h <= finalizedHeight => h <= Len(persisted') /\ persisted'[h] = persisted[h]]_vars
  BY <1>1 DEF FinalizedKept
<1> QED
  BY <1>2, SpecInv, PTL DEF Spec, ForkKeepsFinalized

-----------------------------------------------------------------------------
(* What a fork does to the chain: the lemmas of declined extensions *)

\* The blocks dropped stand one on the other, the first on `from`, the last is tip
DroppedOK(from, dropped, tip) ==
  /\ \A i \in 1..Len(dropped) : reference(dropped[i]) = IF i = 1 THEN from ELSE dropped[i - 1]
  /\ dropped # <<>> => dropped[Len(dropped)] = tip

\* The block id is persisted, n others on top of it
Stands(id, n) == Len(persisted) = Len(id) + n /\ persisted[Len(id)].id = id

\* While a fork is applied: nothing of it yet, on a liquid id or after a rollback,
\* or all of its blocks but the last persisted
ApplyOK(ext) ==
  /\ MaxExtension > 0 /\ ext.applied <= MaxExtension
  /\ reference(ext.first) = ext.common
  /\ DroppedOK(ext.common, ext.dropped, ext.tip)
  /\ \/ ext.applied = 0 /\ ext.common \in liquidIds /\ ext.tip = tipId /\ ext.dropped = <<>>
     \/ ext.applied = 0 /\ ngState = NoNg /\ Stands(ext.common, 0)
     \/ /\ ext.applied > 0 /\ ngState # NoNg /\ ngState.microSnapshots = <<>>
        /\ Stands(ext.common, ext.applied - 1) /\ safeRollbackHeight <= Len(ext.common)

RestoreOK(ext) ==
  /\ DroppedOK(tipId, ext.dropped, ext.tip)
  /\ ngState # NoNg => ngState.microSnapshots = <<>>

\* The inductive invariant, beside NgInv
ForkInv ==
  /\ safeRollbackHeight <= Len(persisted)
  /\ extension.phase = "apply" => ApplyOK(extension)
  /\ extension.phase = "restore" => RestoreOK(extension)

\* A liquid block without microblocks is the tip.
LEMMA TipIsBase == ngState # NoNg /\ ngState.microSnapshots = <<>> => tipId = ngState.base
BY DEF tipId, bestLiquidBlockId

\* A block on top of the liquid one persists what it references.
LEMMA OnLiquid ==
  ASSUME CoreInv, NEW b, Above1(b), NEW gs, processBlock(b, gs), reference(b) \in liquidIds
  PROVE  /\ ngState' # NoNg /\ ngState'.base = b /\ ngState'.microSnapshots = <<>>
         /\ Len(reference(b)) = Len(persisted) + 1
         /\ Len(persisted') = Len(persisted) + 1
         /\ \A i \in 1..Len(persisted) : persisted'[i] = persisted[i]
         /\ persisted'[Len(persisted) + 1].id = reference(b)
         /\ safeRollbackHeight' = MaxOf(safeRollbackHeight, Len(persisted) + 1 - MaxRollbackDepth)
<1>1. ngState # NoNg /\ LiquidOK(persisted, ngState) /\ ChainOK(persisted)
  BY DEF liquidIds, CoreInv
<1>2. /\ persisted \in Seq(Block) /\ Len(persisted) \in Nat
      /\ b \in BlockId /\ b # <<>>
  BY EmptySeq, SMTT(30) DEF CoreInv, ChainOK, Above1
<1>3. Len(reference(b)) = Len(persisted) + 1 /\ liquidBlockOf(ngState, reference(b)).id = reference(b)
  BY <1>1, LiquidBlock DEF liquidIds
<1>4. ngState.base \in BlockId /\ Len(ngState.base) = Len(persisted) + 1
  BY <1>1 DEF LiquidOK, LiquidState
<1>5. Len(reference(ngState.base)) = Len(persisted)
  <2>1. ngState.base # <<>>
    BY <1>2, <1>4, EmptySeq
  <2> QED
    BY <1>2, <1>4, <2>1, ReferenceLen
<1>6. reference(b) # reference(ngState.base)
  BY <1>2, <1>3, <1>5
<1>7. ProcessNext(b, gs)
  BY <1>1, <1>6 DEF processBlock, ProcessFirst, ProcessBetter
<1> DEFINE block == liquidBlockOf(ngState, reference(b))
<1>8. /\ persisted' = Append(persisted, block) /\ ngState' = newNgState(persisted', b, gs)
      /\ safeRollbackHeight' = MaxOf(safeRollbackHeight, Len(persisted) + 1 - MaxRollbackDepth)
  BY <1>7 DEF ProcessNext, doAppend
<1> HIDE DEF block
<1>9. /\ Len(persisted') = Len(persisted) + 1 /\ \A i \in 1..Len(persisted) : persisted'[i] = persisted[i]
      /\ persisted'[Len(persisted) + 1] = block
  BY <1>2, <1>8, SMTT(30)
<1>10. ngState'.base = b /\ ngState'.microSnapshots = <<>> /\ ngState' # NoNg
  BY <1>2, <1>8 DEF newNgState, NoNg
<1> QED
  BY <1>3, <1>8, <1>9, <1>10 DEF block

\* A block on top of the last persisted one becomes the liquid one.
LEMMA OnPersisted ==
  ASSUME CoreInv, NEW b, Above1(b), NEW gs, processBlock(b, gs), ngState = NoNg
  PROVE  /\ ngState' # NoNg /\ ngState'.base = b /\ ngState'.microSnapshots = <<>>
         /\ UNCHANGED <<persisted, safeRollbackHeight>>
<1>1. b # <<>>
  BY EmptySeq DEF Above1
<1>2. ProcessFirst(b, gs)
  BY DEF processBlock, ProcessBetter, ProcessNext
<1> QED
  BY <1>1, <1>2 DEF ProcessFirst, newNgState, NoNg

\* processBlock never makes a height unsafe to roll back to that is not there.
LEMMA SafeBelow ==
  ASSUME CoreInv, safeRollbackHeight <= Len(persisted), NEW b, NEW gs, processBlock(b, gs)
  PROVE  safeRollbackHeight' <= Len(persisted')
<1>1. persisted \in Seq(Block) /\ Len(persisted) \in Nat /\ safeRollbackHeight \in Nat
  BY DEF CoreInv, ChainOK
<1>2. ASSUME NEW block, doAppend(block) PROVE safeRollbackHeight' <= Len(persisted')
  <2>1. Len(persisted') = Len(persisted) + 1
    BY <1>1, <1>2 DEF doAppend
  <2>2. safeRollbackHeight' = MaxOf(safeRollbackHeight, Len(persisted) + 1 - MaxRollbackDepth)
    BY <1>2 DEF doAppend
  <2> QED
    BY <1>1, <2>1, <2>2, NgChainAssumption DEF MaxOf
<1>3. CASE UNCHANGED <<persisted, safeRollbackHeight>>
  BY <1>3
<1> QED
  BY <1>2, <1>3, SMTT(30) DEF processBlock, ProcessFirst, ProcessBetter, ProcessNext

\* Rolling back to a persisted block leaves it on top, with no liquid block.
LEMMA RolledBack ==
  ASSUME CoreInv, NEW id, id \notin liquidIds, removeAfter(id)
  PROVE  /\ Len(id) \in 1..Len(persisted) /\ persisted[Len(id)].id = id
         /\ Len(persisted') = Len(id) /\ persisted'[Len(id)].id = id
         /\ ngState' = NoNg /\ tipId' = id
         /\ safeRollbackHeight' = safeRollbackHeight /\ safeRollbackHeight <= Len(id)
<1>1. /\ id \in persistedIds /\ safeRollbackHeight <= Len(id) /\ doRollback(Len(id)) /\ ngState' = NoNg
  <2>1. canRemoveAfter(id) /\ doRollback(Len(id)) /\ ngState' = NoNg
    BY DEF removeAfter
  <2>2. id \in persistedIds /\ Len(id) >= safeRollbackHeight
    BY <2>1, SMTT(30) DEF canRemoveAfter
  <2>3. Len(id) \in 1..Len(persisted) /\ Len(persisted) \in Nat /\ safeRollbackHeight \in Nat
    BY <2>2, KnownIds DEF containsBlock, CoreInv, ChainOK
  <2> QED
    BY <2>1, <2>2, <2>3
<1>2. Len(id) \in 1..Len(persisted) /\ persisted[Len(id)].id = id
  BY <1>1, KnownIds, SMTT(30) DEF containsBlock
<1>3. persisted \in Seq(Block) /\ Len(persisted) \in Nat
  BY DEF CoreInv, ChainOK
<1> DEFINE n == Len(id)
<1>4. persisted' = SubSeq(persisted, 1, n) /\ safeRollbackHeight' = safeRollbackHeight
  BY <1>1 DEF doRollback
<1>5. n \in 1..Len(persisted)
  BY <1>2
<1> HIDE DEF n
<1>6. Len(persisted') = n /\ persisted'[n] = persisted[n] /\ persisted' # <<>>
  <2>1. Len(persisted') = n /\ persisted'[n] = persisted[n] /\ persisted' \in Seq(Block)
    BY <1>3, <1>4, <1>5
  <2> QED
    BY <1>3, <1>5, <2>1, EmptySeq
<1>7. tipId' = id
  BY <1>1, <1>2, <1>6 DEF tipId, n
<1> QED
  BY <1>1, <1>2, <1>4, <1>6, <1>7 DEF n

\* What removeAfter drops stands on the block it keeps, and ends with the tip.
LEMMA DiscardedLinked ==
  ASSUME CoreInv, NEW h \in 1..Len(persisted)
  PROVE  DroppedOK(persisted[h].id, discardedBlocks(h), tipId)
<1> DEFINE n == Len(persisted) - h
           old == [i \in 1..n |-> persisted[h + i].id]
           liquid == IF ngState = NoNg THEN <<>> ELSE <<bestLiquidBlockId(ngState)>>
           all == discardedBlocks(h)
<1>1. Len(persisted) \in Nat /\ h \in Nat /\ h >= 1 /\ n \in Nat /\ h + n = Len(persisted)
      /\ persisted # <<>> /\ ChainOK(persisted)
  BY EmptySeq DEF CoreInv, ChainOK
<1>2. \A i \in 1..n : reference(persisted[h + i].id) = persisted[h + i - 1].id
  <2> SUFFICES ASSUME NEW i \in 1..n PROVE reference(persisted[h + i].id) = persisted[h + i - 1].id
    BY Zenon
  <2>1. h + i \in 1..Len(persisted) /\ h + i > 1
    BY <1>1
  <2> QED
    BY <1>1, <2>1 DEF ChainOK
<1>3. all = old \o liquid
  BY DEF discardedBlocks
<1> HIDE DEF n, all
<1>4. old \in Seq({persisted[i].id : i \in 1..Len(persisted)}) /\ Len(old) = n
  <2>1. \A i \in 1..n : h + i \in 1..Len(persisted)
    BY <1>1
  <2> QED
    BY <1>1, <2>1
<1>5. \A i \in 1..n : old[i] = persisted[h + i].id
  OBVIOUS
<1> HIDE DEF old
<1>6. CASE ngState = NoNg
  <2>1. all = old
    BY <1>3, <1>4, <1>6
  <2>2. tipId = persisted[Len(persisted)].id
    BY <1>1, <1>6 DEF tipId
  <2>3. old # <<>> => old[Len(old)] = tipId
    <3> SUFFICES ASSUME old # <<>> PROVE old[n] = tipId
      BY <1>4
    <3>1. n \in 1..n
      BY <1>1, <1>4, EmptySeq
    <3> QED
      BY <1>1, <1>5, <2>2, <3>1, Zenon
  <2>4. \A i \in 1..n : reference(old[i]) = IF i = 1 THEN persisted[h].id ELSE old[i - 1]
    <3> SUFFICES ASSUME NEW i \in 1..n
                 PROVE  reference(old[i]) = IF i = 1 THEN persisted[h].id ELSE old[i - 1]
      OBVIOUS
    <3>1. i = 1 => h + i - 1 = h
      BY <1>1
    <3>2. i # 1 => i - 1 \in 1..n /\ h + (i - 1) = h + i - 1
      BY <1>1
    <3>3. reference(old[i]) = persisted[h + i - 1].id
      BY <1>2, <1>5
    <3>4. i # 1 => old[i - 1] = persisted[h + i - 1].id
      BY <1>5, <3>2
    <3> QED
      BY <3>1, <3>3, <3>4
  <2> QED
    BY <1>4, <2>1, <2>3, <2>4 DEF DroppedOK, all
<1>7. CASE ngState # NoNg
  <2> DEFINE tip == bestLiquidBlockId(ngState)
  <2>1. tip = tipId /\ LiquidOK(persisted, ngState)
    BY <1>7 DEF tipId, CoreInv
  <2>2. reference(tipId) = persisted[Len(persisted)].id
    <3>1. tipId \in liquidIds
      BY <1>7, TipKnown, SMTT(30)
    <3>2. reference(tipId) = reference(ngState.base)
      BY <1>1, <1>7, <2>1, <3>1, LiquidBlock DEF liquidIds
    <3> QED
      BY <1>1, <2>1, <3>2 DEF LiquidOK
  <2>3. liquid = <<tipId>>
    BY <1>7, <2>1
  <2> HIDE DEF tip, liquid
  <2>4. all = old \o <<tipId>>
    BY <1>3, <2>3
  <2>5. /\ Len(all) = n + 1 /\ all[n + 1] = tipId
        /\ \A i \in 1..n : all[i] = persisted[h + i].id
    BY <1>1, <1>4, <1>5, <2>4
  <2>6. ASSUME NEW i \in 1..n + 1
        PROVE  reference(all[i]) = IF i = 1 THEN persisted[h].id ELSE all[i - 1]
    <3>1. reference(all[i]) = persisted[h + i - 1].id
      <4>1. CASE i = n + 1
        <5>1. h + i - 1 = Len(persisted)
          BY <1>1, <4>1
        <5> QED
          BY <2>2, <2>5, <4>1, <5>1
      <4>2. CASE i # n + 1
        <5>1. i \in 1..n
          BY <1>1, <4>2
        <5> QED
          BY <1>2, <2>5, <5>1
      <4> QED
        BY <4>1, <4>2
    <3>2. i = 1 => h + i - 1 = h
      BY <1>1
    <3>3. i # 1 => i - 1 \in 1..n /\ h + (i - 1) = h + i - 1
      BY <1>1
    <3>4. i # 1 => all[i - 1] = persisted[h + i - 1].id
      BY <2>5, <3>3
    <3> QED
      BY <3>1, <3>2, <3>4
  <2> QED
    BY <2>5, <2>6 DEF DroppedOK, all
<1> QED
  BY <1>6, <1>7

\* The blocks of an extension are above height 1, and build on what was applied before.
LEMMA NextExtensionBlock ==
  ASSUME NgInv, extension.phase = "apply", NEW b \in nextExtensionBlocks, ApplyExtensionBlock(b)
  PROVE  /\ Above1(b)
         /\ extension.applied = 0 => b = extension.first
         /\ extension.applied # 0 => reference(b) = ngState.base /\ extension.applied < MaxExtension
<1>0. CoreInv /\ extension # NoExtension /\ ExtensionOK(extension)
  BY DEF NgInv, NoExtension
<1>1. CASE extension.applied = 0
  <2>1. b = extension.first
    BY <1>1 DEF nextExtensionBlocks
  <2> QED
    BY <1>0, <1>1, <2>1 DEF ExtensionOK
<1>2. CASE extension.applied # 0
  <2>1. b \in Children(ngState.base, MaxParts) /\ extension.applied < MaxExtension
    BY <1>2 DEF nextExtensionBlocks
  <2>2. ngState.base \in BlockId
    <3>1. CASE ngState = NoNg
      BY <3>1, EmptySeq DEF NoNg, BlockId
    <3>2. CASE ngState # NoNg
      BY <1>0, <3>2 DEF CoreInv, LiquidOK, LiquidState
    <3> QED
      BY <3>1, <3>2
  <2>3. b \in BlockId /\ b # <<>> /\ reference(b) = ngState.base
    BY <2>1, <2>2, ChildrenAbove1, NgChainAssumption
  <2>4. Above1(b)
    BY <1>0, <2>3, ValidatedAbove1 DEF ApplyExtensionBlock, validateBlock
  <2> QED
    BY <1>2, <2>1, <2>3, <2>4
<1> QED
  BY <1>1, <1>2
=============================================================================
