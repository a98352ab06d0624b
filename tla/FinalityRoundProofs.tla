------------------------- MODULE FinalityRoundProofs -------------------------
(***************************************************************************)
(* The endorsement storage and the miner that collects from it, for any    *)
(* generators, balances and order of endorsements: all invariants of the   *)
(* finality round.                                                         *)
(*                                                                         *)
(* StorageAgrees: the storage counts all conflicts it holds, the block     *)
(* only those that were reported in it; the two agree because what the     *)
(* last result reported is in the block and what is in the block is in the *)
(* storage (Reported below), as long as every microblock was accepted.  A  *)
(* voting that is not handed out changes neither.                          *)
(*                                                                         *)
(* VotingFinalizes, ResultUpToDate and WholeBlockAgrees are about sums of  *)
(* balances.  That a choice of the richest endorsers reaches finalization  *)
(* if any choice of that size does, and that none of its votes can be      *)
(* spared, is shown by induction on the number of endorsers, in the form   *)
(* of a least counterexample (LeastNat).                                   *)
(***************************************************************************)
EXTENDS FinalityRound, FiniteSetTheorems, WellFoundedInduction, TLAPS

LiquidType ==
  [miner : Generators, endorsedId : EndorsedIds, mining : BOOLEAN, beaten : SUBSET Generators,
   st : FinalizationState]

RoundTypeOK == liquid \in LiquidType /\ chainConflicts \in SUBSET Generators

\* The filter a voting was started with, for the block on top or an earlier one
FilterOK ==
  currentFilter # NoFilter =>
    /\ currentFilter \in EndorsementFilter
    /\ currentFilter.funded = Generators
    /\ currentFilter.miner \notin currentFilter.conflict
    /\ currentFilter.endorsedId <= liquid.endorsedId
    /\ currentFilter.endorsedId = liquid.endorsedId =>
         /\ currentFilter.miner \in liquid.beaten \cup {liquid.miner}
         /\ currentFilter.conflict = chainConflicts

\* What was relayed is accounted for
SharedOK ==
  /\ \A m \in sharedWithNeighbors :
       IF m.onChain THEN m.endorserIndex \in processedValidEndorsers ELSE m.endorserIndex \in conflict
  /\ \A m, n \in sharedWithNeighbors :
       m.endorserIndex = n.endorserIndex /\ m.onChain = n.onChain => m = n

SidesOK ==
  /\ valid \cap conflict = {}
  /\ currentFilter # NoFilter =>
       valid \cup conflict \subseteq currentFilter.funded \ ({currentFilter.miner} \cup currentFilter.conflict)

ResultOK ==
  /\ latestResult.voting.valid \cap latestResult.voting.conflict = {}
  /\ Cardinality(latestResult.voting.valid) <= MaxValidEndorsers
  /\ latestResult.voting.conflict \subseteq conflict

\* The block counts its generators without the conflicts it knows
BlockOK ==
  /\ liquid.miner \notin chainConflicts
  /\ liquid.st.miner = liquid.miner
  /\ liquid.st.generatorSet = Generators \ (chainConflicts \cup liquid.st.accFinalizationVoting.conflict)

\* The voting in the storage is the one of the block this node mines
Matches ==
  /\ liquid.mining
  /\ currentFilter.endorsedId = liquid.endorsedId
  /\ currentFilter.miner = liquid.miner

Reported ==
  currentFilter # NoFilter /\ Matches =>
    /\ latestResult.voting.conflict \subseteq liquid.st.accFinalizationVoting.conflict
    /\ liquid.st.accFinalizationVoting.conflict \subseteq conflict
    /\ latestResult.reachedFinalization => liquid.st.parentFinalized

StorageInv == StorageTypeOK /\ SharedOK /\ SidesOK /\ ResultOK

RoundInv == StorageInv /\ RoundTypeOK /\ FilterOK /\ BlockOK /\ Reported

-----------------------------------------------------------------------------
(* Facts about values *)

\* NoFilter is for no block.
LEMMA FilterNotNone ==
  ASSUME NEW f \in EndorsementFilter
  PROVE  f # NoFilter /\ f.endorsedId # 0 /\ NoFilter.endorsedId = 0
BY EndorsementAssumption DEF EndorsementFilter, NoFilter

\* No vote at all is not too many.
LEMMA EmptyFits == Cardinality({}) <= MaxValidEndorsers
BY FS_EmptySet, FinalizationAssumption

\* Sets of generators are finite, and one that holds another and is not larger is the same.
LEMMA GeneratorSets ==
  ASSUME NEW S \in SUBSET Generators, NEW T \in SUBSET S, Cardinality(S) <= Cardinality(T)
  PROVE  S = T
<1>1. IsFiniteSet(S) /\ IsFiniteSet(T)
  BY FS_Subset, FinalizationAssumption
<1>2. Cardinality(S) \in Nat /\ Cardinality(T) \in Nat
  BY <1>1, FS_CardinalityType
<1> QED
  BY <1>1, <1>2, FS_Subset

\* A set all of whose elements are equal has at most one.
LEMMA AtMostOne ==
  ASSUME NEW S, \A x, y \in S : x = y
  PROVE  Cardinality(S) <= 1
<1>1. CASE S = {}
  BY <1>1, FS_EmptySet
<1>2. CASE S # {}
  <2>1. PICK x : S = {x}
    BY <1>2
  <2> QED
    BY <2>1, FS_Singleton
<1> QED
  BY <1>1, <1>2

\* combine, in a microblock, is a voting again.
LEMMA CombineType ==
  ASSUME NEW old \in Voting, NEW recent \in Voting
  PROVE  /\ combine(old, recent) \in Voting
         /\ combine(old, recent).conflict = old.conflict \cup recent.conflict
BY DEF combine, Voting, NoVoting

\* The fields of a liquid block's state after a microblock
LEMMA AppendFields ==
  ASSUME NEW st \in FinalizationState, NEW v \in Voting, NEW gens \in SUBSET Generators
  PROVE  LET new == FinalizationAppend(st, v, gens)
             kept == v = NoVoting \/ (st.parentFinalized /\ v.conflict = {})
         IN  /\ new \in FinalizationState
             /\ new.miner = st.miner
             /\ new.generatorSet = gens
             /\ new.accFinalizationVoting = combine(st.accFinalizationVoting, v)
             /\ new.parentFinalized = IF kept THEN st.parentFinalized
                                      ELSE isParentFinalized(gens, v.conflict, st.miner, v)
<1> DEFINE kept == v = NoVoting \/ (st.parentFinalized /\ v.conflict = {})
           finalized == IF kept THEN st.parentFinalized ELSE isParentFinalized(gens, v.conflict, st.miner, v)
           acc == combine(st.accFinalizationVoting, v)
           fh == IF ~kept /\ finalized THEN st.parentHeight ELSE st.finalizedHeight
           one == [st EXCEPT !.generatorSet = gens]
           two == [one EXCEPT !.accFinalizationVoting = acc]
           three == [two EXCEPT !.finalizedHeight = fh]
           four == [three EXCEPT !.parentFinalized = finalized]
<1>1. finalized \in BOOLEAN
  BY Zenon DEF FinalizationState, isParentFinalized, isFinalized
<1>2. acc \in Voting
  BY CombineType DEF FinalizationState
<1>3. fh \in Nat
  BY DEF FinalizationState
<1>4. FinalizationAppend(st, v, gens) = four
  BY DEF FinalizationAppend
<1> HIDE DEF finalized, acc, fh
<1>5. one \in FinalizationState /\ one.miner = st.miner /\ one.generatorSet = gens
  BY DEF FinalizationState
<1> HIDE DEF one
<1>6. two \in FinalizationState /\ two.miner = st.miner /\ two.generatorSet = gens /\ two.accFinalizationVoting = acc
  BY <1>2, <1>5 DEF FinalizationState
<1> HIDE DEF two
<1>7. three \in FinalizationState /\ three.miner = st.miner /\ three.generatorSet = gens
        /\ three.accFinalizationVoting = acc
  BY <1>3, <1>6 DEF FinalizationState
<1> HIDE DEF three
<1>8. four \in FinalizationState /\ four.miner = st.miner /\ four.generatorSet = gens
        /\ four.accFinalizationVoting = acc /\ four.parentFinalized = finalized
  BY <1>1, <1>7 DEF FinalizationState
<1> QED
  BY <1>4, <1>8 DEF finalized, acc

-----------------------------------------------------------------------------
(* The methods of the storage *)

\* A node starts without a voting.
LEMMA InitStorageInv == InitStorage => StorageInv
<1> SUFFICES ASSUME InitStorage PROVE StorageInv
  OBVIOUS
<1>1. StorageTypeOK
  BY Zenon DEF InitStorage, StorageTypeOK, FinalizationResult, emptyResult, Voting, NoVoting
<1>2. ResultOK
  BY EmptyFits DEF InitStorage, ResultOK, emptyResult, NoVoting
<1> QED
  BY <1>1, <1>2 DEF InitStorage, StorageInv, SharedOK, SidesOK

\* A voting starts with an empty storage, or goes on as it is.
LEMMA StartVotingInv ==
  ASSUME StorageInv, NEW filter \in EndorsementFilter, startVoting(filter)
  PROVE  StorageInv'
<1>1. CASE UNCHANGED storageVars
  BY <1>1 DEF storageVars, StorageInv, StorageTypeOK, SharedOK, SidesOK, ResultOK
<1>2. CASE ~sameVoting(currentFilter, filter)
  <2>1. /\ currentFilter' = filter
        /\ sharedWithNeighbors' = {} /\ processedValidEndorsers' = {} /\ valid' = {} /\ conflict' = {}
        /\ latestResult' = emptyResult /\ hasChanges' = FALSE /\ collected' = NoVoting
    BY <1>2 DEF startVoting
  <2>2. emptyResult \in FinalizationResult /\ emptyResult.voting.valid = {} /\ emptyResult.voting.conflict = {}
          /\ NoVoting \in Voting
    BY DEF FinalizationResult, emptyResult, Voting, NoVoting
  <2>3. StorageTypeOK'
    BY <2>1, <2>2, Zenon DEF StorageTypeOK
  <2>4. ResultOK'
    BY <2>1, <2>2, EmptyFits DEF ResultOK
  <2> QED
    BY <2>1, <2>3, <2>4 DEF StorageInv, SharedOK, SidesOK
<1> QED
  BY <1>1, <1>2 DEF startVoting

\* An endorsement goes to one side; conflicts are never taken back.
LEMMA TryAddInv ==
  ASSUME StorageInv, NEW msg \in EndorseBlock, tryAdd(msg)
  PROVE  StorageInv' /\ UNCHANGED <<currentFilter, latestResult>> /\ conflict \subseteq conflict'
<1> USE DEF StorageInv
<1> DEFINE g == msg.endorserIndex
<1>1. CASE UNCHANGED storageVars
  BY <1>1 DEF storageVars, StorageTypeOK, SharedOK, SidesOK, ResultOK
<1>2. CASE /\ AddConflict(msg)
           /\ hasChanges' = TRUE
           /\ sharedWithNeighbors' = sharedWithNeighbors \cup {msg}
           /\ UNCHANGED <<currentFilter, latestResult, collected>>
  <2>1. /\ conflict' = conflict \cup {g} /\ valid' = valid \ {g}
        /\ processedValidEndorsers' = processedValidEndorsers
        /\ isExpected(msg) /\ ~msg.onChain
    BY <1>2 DEF AddConflict, isConflict
  <2>2. /\ g \in Generators /\ g \notin conflict
        /\ g \in currentFilter.funded \ ({currentFilter.miner} \cup currentFilter.conflict)
    BY <2>1 DEF isExpected, EndorseBlock
  <2>3. StorageTypeOK'
    BY <1>2, <2>1, <2>2 DEF StorageTypeOK
  <2>4. SharedOK'
    <3>1. \A m \in sharedWithNeighbors : m.endorserIndex = g => m.onChain
      BY <2>2 DEF SharedOK
    <3> QED
      BY <1>2, <2>1, <3>1 DEF SharedOK
  <2>5. SidesOK' /\ ResultOK'
    BY <1>2, <2>1, <2>2 DEF SidesOK, ResultOK
  <2> QED
    BY <1>2, <2>1, <2>3, <2>4, <2>5
<1>3. CASE /\ AddValid(msg)
           /\ hasChanges' = TRUE
           /\ sharedWithNeighbors' = sharedWithNeighbors \cup {msg}
           /\ UNCHANGED <<currentFilter, latestResult, collected>>
  <2>1. /\ conflict' = conflict /\ valid' = valid \cup {g}
        /\ processedValidEndorsers' = processedValidEndorsers \cup {g}
        /\ isExpected(msg) /\ msg.onChain /\ g \notin processedValidEndorsers
    BY <1>3 DEF AddValid, isValid
  <2>2. /\ g \in Generators /\ g \notin conflict
        /\ g \in currentFilter.funded \ ({currentFilter.miner} \cup currentFilter.conflict)
    BY <2>1 DEF isExpected, EndorseBlock
  <2>3. StorageTypeOK'
    BY <1>3, <2>1, <2>2 DEF StorageTypeOK
  <2>4. SharedOK'
    <3>1. \A m \in sharedWithNeighbors : m.endorserIndex = g => ~m.onChain
      BY <2>1 DEF SharedOK
    <3> QED
      BY <1>3, <2>1, <3>1 DEF SharedOK
  <2>5. SidesOK' /\ ResultOK'
    BY <1>3, <2>1, <2>2 DEF SidesOK, ResultOK
  <2> QED
    BY <1>3, <2>1, <2>3, <2>4, <2>5
<1> QED
  BY <1>1, <1>2, <1>3, Zenon DEF tryAdd, storageVars

\* What one collection leaves behind: nothing new, or a result on the chosen
\* endorsers, handed out or not.
LEMMA CollectCases ==
  ASSUME StorageInv, NEW id, tryCollectAndClear(id)
  PROVE  /\ currentFilter # NoFilter
         /\ UNCHANGED <<currentFilter, sharedWithNeighbors, processedValidEndorsers, valid, conflict>>
         /\ hasChanges' = FALSE
         /\ \/ UNCHANGED latestResult /\ collected' = NoVoting
            \/ \E chosen \in SUBSET (valid \ ({currentFilter.miner} \cup currentFilter.conflict \cup conflict)) :
                 LET reached == reaches(currentFilter, chosen, conflict)
                 IN  /\ Cardinality(chosen) <= MaxValidEndorsers
                     /\ reached => chosen # {}
                     /\ latestResult' = createVoting(chosen, reached)
                     /\ \/ collected' = createVoting(chosen, reached).voting
                        \/ /\ collected' = NoVoting
                           /\ ~moreConflict
                           /\ reached = latestResult.reachedFinalization
<1> DEFINE items == valid \ ({currentFilter.miner} \cup currentFilter.conflict \cup conflict)
<1>1. CASE ~couldChange
  BY <1>1 DEF tryCollectAndClear
<1>2. CASE couldChange
  <2>1. PICK chosen \in simulate(currentFilter, valid, conflict) : MakeVoting(chosen)
    BY <1>2 DEF tryCollectAndClear
  <2>2. chosen \in SUBSET items /\ Cardinality(chosen) <= MaxValidEndorsers
    BY DEF simulate, eligible
  <2> DEFINE reached == reaches(currentFilter, chosen, conflict)
  <2>3. createVoting(chosen, reached).reachedFinalization = reached
    BY DEF createVoting
  <2>4. \/ UNCHANGED latestResult /\ collected' = NoVoting
        \/ /\ latestResult' = createVoting(chosen, reached)
           /\ reached => chosen # {}
           /\ \/ collected' = createVoting(chosen, reached).voting
              \/ collected' = NoVoting /\ ~moreConflict /\ reached = latestResult.reachedFinalization
    BY <2>1, <2>3 DEF MakeVoting
  <2> QED
    BY <2>2, <2>4 DEF tryCollectAndClear
<1> QED
  BY <1>1, <1>2, Zenon

\* Collecting keeps the storage consistent.
LEMMA CollectInv ==
  ASSUME StorageInv, NEW id, tryCollectAndClear(id)
  PROVE  StorageInv'
<1> USE DEF StorageInv
<1>1. /\ UNCHANGED <<currentFilter, sharedWithNeighbors, processedValidEndorsers, valid, conflict>>
      /\ hasChanges' = FALSE
  BY CollectCases, Zenon
<1>2. SharedOK' /\ SidesOK'
  BY <1>1 DEF SharedOK, SidesOK
<1>3. CASE UNCHANGED latestResult /\ collected' = NoVoting
  BY <1>1, <1>2, <1>3, Zenon DEF StorageTypeOK, ResultOK, Voting, NoVoting
<1>4. ASSUME NEW chosen \in SUBSET (valid \ ({currentFilter.miner} \cup currentFilter.conflict \cup conflict)),
             Cardinality(chosen) <= MaxValidEndorsers,
             latestResult' = createVoting(chosen, reaches(currentFilter, chosen, conflict)),
             \/ collected' = createVoting(chosen, reaches(currentFilter, chosen, conflict)).voting
             \/ collected' = NoVoting
      PROVE  StorageTypeOK' /\ ResultOK'
  <2> DEFINE reached == reaches(currentFilter, chosen, conflict)
             v == [valid |-> IF reached THEN chosen ELSE {}, conflict |-> conflict \ latestResult.voting.conflict]
  <2>1. reached \in BOOLEAN
    BY DEF reaches
  <2>2. latestResult' = [reachedFinalization |-> reached, voting |-> v] /\ collected' \in {v, NoVoting}
    BY <1>4 DEF createVoting
  <2>3. v \in Voting /\ (reached \/ v.valid = {})
    BY DEF StorageTypeOK, Voting
  <2>4. v.valid \cap v.conflict = {} /\ v.conflict \subseteq conflict
    OBVIOUS
  <2>5. Cardinality(v.valid) <= MaxValidEndorsers
    BY <1>4, EmptyFits
  <2> HIDE DEF reached, v
  <2>6. latestResult' \in FinalizationResult /\ collected' \in Voting
    BY <2>1, <2>2, <2>3 DEF FinalizationResult, Voting, NoVoting
  <2>7. latestResult'.reachedFinalization = reached /\ latestResult'.voting = v
    BY <2>2
  <2> QED
    BY <1>1, <2>3, <2>4, <2>5, <2>6, <2>7, Zenon DEF StorageTypeOK, ResultOK
<1> QED
  BY <1>2, <1>3, <1>4, CollectCases, Zenon

-----------------------------------------------------------------------------
(* The key blocks *)

\* The state of a block before its first microblock
LEMMA NewLiquidOK ==
  ASSUME NEW m \in Generators, NEW id \in EndorsedIds, NEW conflicts \in SUBSET Generators,
         NEW beaten \in SUBSET Generators
  PROVE  LET new == newLiquid(m, id, conflicts, beaten)
         IN  /\ new \in LiquidType
             /\ new.miner = m /\ new.endorsedId = id /\ new.beaten = beaten
             /\ new.st.miner = m
             /\ new.st.generatorSet = Generators \ conflicts
             /\ new.st.accFinalizationVoting = NoVoting
<1> DEFINE new == newLiquid(m, id, conflicts, beaten)
           st == FinalizationInit(Generators \ conflicts, conflicts, m, NoVoting, parentHeightOf(id), VotingFinalizedHeight)
<1>1. parentHeightOf(id) \in Nat /\ VotingFinalizedHeight \in Nat
  BY RoundAssumption DEF parentHeightOf
<1>2. isParentFinalized(Generators \ conflicts, conflicts, m, NoVoting) \in BOOLEAN
  BY DEF isParentFinalized, isFinalized
<1>3. st \in FinalizationState /\ st.miner = m /\ st.generatorSet = Generators \ conflicts
        /\ st.accFinalizationVoting = NoVoting
  <2>1. NoVoting \in Voting
    BY DEF NoVoting, Voting
  <2> QED
    BY <1>1, <1>2, <2>1 DEF FinalizationInit, FinalizationState
<1>4. new = [miner |-> m, endorsedId |-> id, mining |-> m = Me, beaten |-> beaten, st |-> st]
  BY DEF newLiquid
<1> HIDE DEF st, new
<1> QED
  BY <1>3, <1>4 DEF LiquidType, new

\* BlockEndorser.vote on a block with nothing reported yet
LEMMA VoteInv ==
  ASSUME StorageInv, FilterOK, NEW m \in Generators, NEW id \in EndorsedIds, NEW conflicts \in SUBSET Generators,
         m \notin conflicts, vote(m, id, conflicts)
  PROVE  /\ StorageInv'
         /\ \/ UNCHANGED storageVars /\ currentFilter.endorsedId = id
            \/ /\ currentFilter' \in EndorsementFilter /\ currentFilter'.funded = Generators
               /\ currentFilter'.miner = m /\ currentFilter'.endorsedId = id /\ currentFilter'.conflict = conflicts
               /\ latestResult' = emptyResult
<1> DEFINE filter == [miner |-> m, isMiner |-> m = Me, finalizedHeight |-> VotingFinalizedHeight, endorsedId |-> id,
                      funded |-> Generators, conflict |-> conflicts]
<1>1. filter \in EndorsementFilter /\ filter.endorsedId = id
  BY RoundAssumption DEF EndorsementFilter
<1>2. startVoting(filter)
  BY DEF vote
<1> HIDE DEF filter
<1>3. StorageInv'
  BY <1>1, <1>2, StartVotingInv
<1>4. CASE sameVoting(currentFilter, filter)
  BY <1>1, <1>2, <1>3, <1>4 DEF startVoting, sameVoting
<1>5. CASE ~sameVoting(currentFilter, filter)
  BY <1>1, <1>2, <1>3, <1>5 DEF startVoting, filter
<1> QED
  BY <1>4, <1>5

\* The next key block: its voting is a new one, for it has a new parent.
LEMMA NextKeyBlockInv ==
  ASSUME RoundInv, NEW m \in Generators, NEW id \in EndorsedIds, NextKeyBlock(m, id)
  PROVE  RoundInv'
<1> DEFINE conflicts == chainConflicts \cup liquid.st.accFinalizationVoting.conflict
<1>1. conflicts \in SUBSET Generators
  BY DEF RoundInv, RoundTypeOK, LiquidType, FinalizationState, Voting
<1>2. /\ id = liquid.endorsedId + 1 /\ m \notin conflicts /\ chainConflicts' = conflicts
      /\ liquid' = newLiquid(m, id, conflicts, {}) /\ vote(m, id, conflicts)
  BY DEF NextKeyBlock
<1> HIDE DEF conflicts
<1>3. /\ liquid' \in LiquidType /\ liquid'.miner = m /\ liquid'.endorsedId = id
      /\ liquid'.st.miner = m /\ liquid'.st.generatorSet = Generators \ conflicts
      /\ liquid'.st.accFinalizationVoting = NoVoting
  <2> DEFINE beaten == {}
  <2>1. beaten \in SUBSET Generators /\ liquid' = newLiquid(m, id, conflicts, beaten)
    BY <1>2
  <2> HIDE DEF beaten
  <2> DEFINE new == newLiquid(m, id, conflicts, beaten)
  <2>2. new.st.generatorSet = Generators \ conflicts
    BY <1>1, <2>1, NewLiquidOK
  <2>3. /\ new \in LiquidType /\ new.miner = m /\ new.endorsedId = id
        /\ new.st.miner = m /\ new.st.accFinalizationVoting = NoVoting
    BY <1>1, <2>1, <2>2, NewLiquidOK
  <2> QED
    BY <2>1, <2>2, <2>3
<1>4. currentFilter.endorsedId # id
  <2>1. liquid.endorsedId \in Nat /\ id \in Nat /\ id # 0
    BY RoundAssumption, EndorsementAssumption, Zenon DEF RoundInv, RoundTypeOK, LiquidType
  <2>2. CASE currentFilter = NoFilter
    BY <2>1, <2>2 DEF NoFilter
  <2>3. CASE currentFilter # NoFilter
    <3>1. currentFilter.endorsedId \in Nat /\ currentFilter.endorsedId <= liquid.endorsedId
      BY <2>3, RoundAssumption, Zenon DEF RoundInv, FilterOK, EndorsementFilter
    <3> QED
      BY <1>2, <2>1, <3>1
  <2> QED
    BY <2>2, <2>3
<1>5. /\ StorageInv'
      /\ currentFilter' \in EndorsementFilter /\ currentFilter'.funded = Generators
      /\ currentFilter'.miner = m /\ currentFilter'.endorsedId = id /\ currentFilter'.conflict = conflicts
      /\ latestResult' = emptyResult
  BY <1>1, <1>2, <1>4, VoteInv DEF RoundInv
<1>6. FilterOK'
  BY <1>2, <1>3, <1>5, RoundAssumption DEF FilterOK
<1>7. BlockOK' /\ RoundTypeOK'
  BY <1>1, <1>2, <1>3 DEF BlockOK, RoundTypeOK, NoVoting
<1>8. Reported'
  BY <1>3, <1>5 DEF Reported, emptyResult, NoVoting
<1> QED
  BY <1>5, <1>6, <1>7, <1>8 DEF RoundInv

\* A better key block: the voting goes on if the filter is for the same parent,
\* and then its miner is one that was beaten.
LEMMA BetterKeyBlockInv ==
  ASSUME RoundInv, NEW m \in Generators, BetterKeyBlock(m)
  PROVE  RoundInv'
<1> DEFINE id == liquid.endorsedId
           beaten == liquid.beaten \cup {liquid.miner}
<1>1. chainConflicts \in SUBSET Generators /\ id \in EndorsedIds /\ beaten \in SUBSET Generators
  BY DEF RoundInv, RoundTypeOK, LiquidType
<1>2. /\ m \notin chainConflicts /\ m \notin beaten /\ chainConflicts' = chainConflicts
      /\ liquid' = newLiquid(m, id, chainConflicts, beaten) /\ vote(m, id, chainConflicts)
  BY DEF BetterKeyBlock
<1> HIDE DEF id, beaten
<1>3. /\ liquid' \in LiquidType /\ liquid'.miner = m /\ liquid'.endorsedId = id /\ liquid'.beaten = beaten
      /\ liquid'.st.miner = m /\ liquid'.st.generatorSet = Generators \ chainConflicts
      /\ liquid'.st.accFinalizationVoting = NoVoting
  BY <1>1, <1>2, NewLiquidOK
<1>4. BlockOK' /\ RoundTypeOK'
  BY <1>1, <1>2, <1>3 DEF BlockOK, RoundTypeOK, NoVoting
<1>5. StorageInv'
  BY <1>1, <1>2, VoteInv DEF RoundInv
<1>6. CASE UNCHANGED storageVars /\ currentFilter.endorsedId = id
  <2>1. currentFilter # NoFilter
    BY <1>1, <1>6, EndorsementAssumption DEF NoFilter
  <2>2. currentFilter.miner \in beaten
    BY <1>6, <2>1 DEF RoundInv, FilterOK, id, beaten
  <2>3. FilterOK'
    BY <1>2, <1>3, <1>6, <2>1, <2>2 DEF RoundInv, FilterOK, storageVars, id
  <2>4. Reported'
    BY <1>2, <1>3, <1>6, <2>2 DEF Reported, Matches, storageVars
  <2> QED
    BY <1>4, <1>5, <2>3, <2>4 DEF RoundInv
<1>7. CASE /\ currentFilter' \in EndorsementFilter /\ currentFilter'.funded = Generators
           /\ currentFilter'.miner = m /\ currentFilter'.endorsedId = id /\ currentFilter'.conflict = chainConflicts
           /\ latestResult' = emptyResult
  <2>1. FilterOK'
    BY <1>1, <1>2, <1>3, <1>7, RoundAssumption DEF FilterOK
  <2>2. Reported'
    BY <1>3, <1>7 DEF Reported, emptyResult, NoVoting
  <2> QED
    BY <1>4, <1>5, <2>1, <2>2 DEF RoundInv
<1> QED
  BY <1>1, <1>2, <1>6, <1>7, VoteInv DEF RoundInv

\* An endorsement, the node's own or a received one
LEMMA EndorsedInv ==
  ASSUME RoundInv, NEW msg \in EndorseBlock, tryAdd(msg), UNCHANGED <<liquid, chainConflicts>>
  PROVE  RoundInv'
<1>1. StorageInv' /\ UNCHANGED <<currentFilter, latestResult>> /\ conflict \subseteq conflict'
  BY TryAddInv DEF RoundInv
<1>2. RoundTypeOK' /\ BlockOK' /\ FilterOK'
  BY <1>1 DEF RoundInv, RoundTypeOK, BlockOK, FilterOK
<1>3. Reported'
  BY <1>1 DEF RoundInv, Reported, Matches
<1> QED
  BY <1>1, <1>2, <1>3 DEF RoundInv

-----------------------------------------------------------------------------
(* The microblocks *)

\* Where block and storage know the same conflicts, votes reach finalization in
\* the storage exactly when they finalize the parent in the block that counts them.
LEMMA CountsExact ==
  ASSUME NEW f \in EndorsementFilter, f.funded = Generators, NEW newConflict,
         f.miner \notin f.conflict \cup newConflict,
         NEW chosen \in SUBSET (Generators \ (f.conflict \cup newConflict)),
         NEW reported \in SUBSET newConflict,
         NEW v, v.valid = chosen, v.conflict = reported
  PROVE  reaches(f, chosen, newConflict) <=>
           isParentFinalized(Generators \ (f.conflict \cup newConflict), reported, f.miner, v)
<1> DEFINE gens == Generators \ (f.conflict \cup newConflict)
           counted == gens \ (reported \cup v.conflict)
<1>1. f.miner \in gens
  BY DEF EndorsementFilter
<1>2. counted = gens
  OBVIOUS
<1>3. gens \cap f.funded = counted
  BY <1>2
<1>4. (chosen \cup {f.miner}) \cap f.funded = counted \cap (v.valid \cup {f.miner})
  BY <1>1, <1>2
<1>5. reaches(f, chosen, newConflict) <=>
        BalanceOf((chosen \cup {f.miner}) \cap f.funded) * 3 >= BalanceOf(gens \cap f.funded) * 2
  BY DEF reaches, normalized
<1>6. reaches(f, chosen, newConflict) <=> isFinalized(BalanceOf(counted \cap (v.valid \cup {f.miner})), BalanceOf(counted))
  BY <1>3, <1>4, <1>5 DEF isFinalized
<1> QED
  BY <1>1, <1>6 DEF isParentFinalized

\* An accepted microblock
LEMMA AcceptedInv ==
  ASSUME RoundInv, liquid.mining, tryCollectAndClear(liquid.endorsedId), collected' \in Voting,
         collected'.conflict \cap liquid.st.accFinalizationVoting.conflict = {},
         NEW total, total = combine(liquid.st.accFinalizationVoting, collected'),
         liquid' = [liquid EXCEPT !.st = FinalizationAppend(liquid.st, collected', liquid.st.generatorSet \ total.conflict)],
         UNCHANGED chainConflicts
  PROVE  RoundInv'
<1> DEFINE st == liquid.st
           acc == st.accFinalizationVoting
           v == collected'
           gens == st.generatorSet \ total.conflict
           new == FinalizationAppend(st, v, gens)
<1>1. st \in FinalizationState /\ acc \in Voting /\ gens \in SUBSET Generators
  BY DEF RoundInv, RoundTypeOK, LiquidType, FinalizationState
<1>2. /\ new \in FinalizationState /\ new.miner = st.miner /\ new.generatorSet = gens
      /\ new.accFinalizationVoting = total
      /\ new.parentFinalized = IF v = NoVoting \/ (st.parentFinalized /\ v.conflict = {}) THEN st.parentFinalized
                               ELSE isParentFinalized(gens, v.conflict, st.miner, v)
  BY <1>1, AppendFields
<1>3. total \in Voting /\ total.conflict = acc.conflict \cup v.conflict
  BY <1>1, CombineType
<1> HIDE DEF new
<1>4. /\ liquid' \in LiquidType /\ liquid'.st = new /\ liquid'.miner = liquid.miner /\ liquid'.mining
      /\ liquid'.endorsedId = liquid.endorsedId /\ liquid'.beaten = liquid.beaten
  BY <1>2 DEF RoundInv, RoundTypeOK, LiquidType, new
<1>5. StorageInv' /\ currentFilter # NoFilter /\ UNCHANGED <<currentFilter, conflict>>
  BY CollectInv, CollectCases, Zenon DEF RoundInv
<1>6. RoundTypeOK' /\ FilterOK'
  BY <1>4, <1>5 DEF RoundInv, RoundTypeOK, FilterOK
<1>7. BlockOK'
  <2>1. st.generatorSet = Generators \ (chainConflicts \cup acc.conflict)
    BY DEF RoundInv, BlockOK
  <2>2. gens = Generators \ (chainConflicts \cup total.conflict)
    BY <1>3, <2>1
  <2> QED
    <3>1. liquid'.st.generatorSet = gens /\ liquid'.st.miner = st.miner /\ liquid'.st.accFinalizationVoting = total
      BY <1>2, <1>4
    <3>2. liquid'.miner \notin chainConflicts' /\ liquid'.st.miner = liquid'.miner
      BY <1>4, <3>1 DEF RoundInv, BlockOK
    <3> QED
      BY <2>2, <3>1, <3>2, Zenon DEF BlockOK
<1>8. ASSUME Matches PROVE Reported'
  <2>1. /\ latestResult.voting.conflict \subseteq acc.conflict /\ acc.conflict \subseteq conflict
        /\ latestResult.reachedFinalization => st.parentFinalized
    BY <1>5, <1>8 DEF RoundInv, Reported
  <2>2. CASE UNCHANGED latestResult /\ v = NoVoting
    <3>1. total.conflict = acc.conflict
      BY <1>3, <2>2 DEF NoVoting
    <3> QED
      BY <1>2, <1>4, <1>5, <2>1, <2>2, <3>1, Zenon DEF Reported
  <2>3. ASSUME NEW chosen \in SUBSET (valid \ ({currentFilter.miner} \cup currentFilter.conflict \cup conflict)),
               reaches(currentFilter, chosen, conflict) => chosen # {},
               latestResult' = createVoting(chosen, reaches(currentFilter, chosen, conflict)),
               \/ v = createVoting(chosen, reaches(currentFilter, chosen, conflict)).voting
               \/ v = NoVoting /\ ~moreConflict
                    /\ reaches(currentFilter, chosen, conflict) = latestResult.reachedFinalization
        PROVE  Reported'
    <3> DEFINE reached == reaches(currentFilter, chosen, conflict)
               w == createVoting(chosen, reached).voting
    <3>1. /\ latestResult'.reachedFinalization = reached /\ latestResult'.voting = w
          /\ w.conflict = conflict \ latestResult.voting.conflict
          /\ reached => w.valid = chosen
      BY <2>3 DEF createVoting
    <3> HIDE DEF reached, w
    <3>2. CASE v = w
      <4>1. total.conflict = conflict
        BY <1>3, <2>1, <3>1, <3>2
      <4>2. ASSUME reached PROVE new.parentFinalized
        <5>1. v.valid = chosen /\ v.conflict \in SUBSET conflict /\ v # NoVoting
          BY <2>3, <3>1, <3>2, <4>2 DEF NoVoting, reached
        <5>2. currentFilter.conflict = chainConflicts /\ currentFilter.miner = st.miner
          BY <1>5, <1>8 DEF RoundInv, FilterOK, BlockOK, Matches
        <5>3. gens = Generators \ (currentFilter.conflict \cup conflict)
          BY <2>1, <4>1, <5>2 DEF RoundInv, BlockOK
        <5>4. isParentFinalized(Generators \ (currentFilter.conflict \cup conflict), v.conflict, currentFilter.miner, v)
          <6> DEFINE f == currentFilter
          <6>1. f \in EndorsementFilter /\ f.funded = Generators /\ f.miner \notin f.conflict \cup conflict
            BY <1>5 DEF RoundInv, StorageInv, FilterOK, SidesOK
          <6>2. chosen \in SUBSET (Generators \ (f.conflict \cup conflict))
            BY <2>3 DEF RoundInv, StorageInv, StorageTypeOK
          <6> HIDE DEF v, f
          <6>3. isParentFinalized(Generators \ (f.conflict \cup conflict), v.conflict, f.miner, v)
            BY <4>2, <5>1, <6>1, <6>2, CountsExact DEF reached, f
          <6> QED
            BY <6>3 DEF f
        <5> QED
          BY <1>2, <5>1, <5>2, <5>3, <5>4
      <4> QED
        BY <1>2, <1>4, <1>5, <2>1, <3>1, <3>2, <4>1, <4>2 DEF Reported
    <3>3. CASE v = NoVoting /\ ~moreConflict /\ reached = latestResult.reachedFinalization
      <4>1. conflict \in SUBSET Generators /\ latestResult.voting.conflict \in SUBSET conflict
        BY DEF RoundInv, StorageInv, StorageTypeOK, ResultOK
      <4>2. Cardinality(conflict) <= Cardinality(latestResult.voting.conflict)
        <5>1. IsFiniteSet(conflict) /\ IsFiniteSet(latestResult.voting.conflict)
          BY <4>1, FS_Subset, FinalizationAssumption
        <5>2. Cardinality(conflict) \in Nat /\ Cardinality(latestResult.voting.conflict) \in Nat
          BY <5>1, FS_CardinalityType
        <5> QED
          BY <3>3, <5>2 DEF moreConflict
      <4>3. conflict = latestResult.voting.conflict
        BY <4>1, <4>2, GeneratorSets
      <4>4. w.conflict = {} /\ total.conflict = acc.conflict /\ new.parentFinalized = st.parentFinalized
        BY <1>2, <1>3, <3>1, <3>3, <4>3 DEF NoVoting
      <4> QED
        BY <1>2, <1>4, <1>5, <2>1, <3>1, <3>3, <4>4, Zenon DEF Reported
    <3> QED
      BY <2>3, <3>2, <3>3 DEF reached, w
  <2> QED
    BY <2>2, <2>3, CollectCases, Zenon DEF RoundInv
<1>9. ASSUME ~Matches PROVE Reported'
  BY <1>4, <1>5, <1>9 DEF Reported, Matches
<1> QED
  BY <1>5, <1>6, <1>7, <1>8, <1>9 DEF RoundInv

\* A microblock, accepted or refused
LEMMA MineMicroBlockInv ==
  ASSUME RoundInv, MineMicroBlock
  PROVE  RoundInv'
<1> DEFINE total == combine(liquid.st.accFinalizationVoting, collected')
<1>1. liquid.mining /\ tryCollectAndClear(liquid.endorsedId) /\ chainConflicts' = chainConflicts
  BY DEF MineMicroBlock
<1>2. StorageInv' /\ collected' \in Voting /\ currentFilter' = currentFilter
  BY <1>1, CollectInv, CollectCases, Zenon DEF RoundInv, StorageInv, StorageTypeOK
<1>3. CASE isAcceptable(collected')
  <2>1. liquid' = [liquid EXCEPT !.st = FinalizationAppend(liquid.st, collected', liquid.st.generatorSet \ total.conflict)]
    BY <1>3 DEF MineMicroBlock
  <2>2. collected'.conflict \cap liquid.st.accFinalizationVoting.conflict = {}
    BY <1>3 DEF isAcceptable
  <2> HIDE DEF total
  <2> QED
    BY <1>1, <1>2, <2>1, <2>2, AcceptedInv DEF total
<1>4. CASE ~isAcceptable(collected')
  <2>1. liquid' = [liquid EXCEPT !.mining = FALSE]
    BY <1>4 DEF MineMicroBlock
  <2>2. /\ liquid' \in LiquidType /\ ~liquid'.mining
        /\ liquid'.miner = liquid.miner /\ liquid'.endorsedId = liquid.endorsedId
        /\ liquid'.beaten = liquid.beaten /\ liquid'.st = liquid.st
    BY <2>1, Zenon DEF RoundInv, RoundTypeOK, LiquidType
  <2>3. RoundTypeOK' /\ FilterOK' /\ BlockOK' /\ Reported'
    BY <1>1, <1>2, <2>2 DEF RoundInv, RoundTypeOK, FilterOK, BlockOK, Reported, Matches
  <2> QED
    BY <1>2, <2>3 DEF RoundInv
<1> QED
  BY <1>3, <1>4

-----------------------------------------------------------------------------
(* The invariant *)

\* The rounds start in the invariant ...
LEMMA InitRoundInv == InitRound => RoundInv
<1> SUFFICES ASSUME InitRound PROVE RoundInv
  OBVIOUS
<1>1. StorageInv /\ currentFilter = NoFilter
  BY InitStorageInv DEF InitRound, InitStorage
<1>2. PICK m \in Generators, id \in EndorsedIds : liquid = [newLiquid(m, id, {}, {}) EXCEPT !.mining = FALSE]
  BY Zenon DEF InitRound
<1> DEFINE none == {}
           new == newLiquid(m, id, none, none)
<1>3. none \in SUBSET Generators /\ liquid = [new EXCEPT !.mining = FALSE]
  BY <1>2
<1>4. none = {}
  OBVIOUS
<1> HIDE DEF none
<1>5. /\ new \in LiquidType /\ new.miner = m /\ new.st.miner = m
      /\ new.st.generatorSet = Generators \ none /\ new.st.accFinalizationVoting = NoVoting
  BY <1>3, NewLiquidOK
<1> HIDE DEF new
<1>6. liquid \in LiquidType /\ liquid.miner = m /\ liquid.st = new.st
  BY <1>3, <1>5, Zenon DEF LiquidType
<1>7. RoundTypeOK /\ BlockOK
  BY <1>4, <1>5, <1>6 DEF InitRound, RoundTypeOK, BlockOK, NoVoting
<1> QED
  BY <1>1, <1>7 DEF RoundInv, FilterOK, Reported

\* ... and stay in it.
LEMMA NextRoundInv == RoundInv /\ [NextRound]_allVars => RoundInv'
<1> SUFFICES ASSUME RoundInv, [NextRound]_allVars PROVE RoundInv'
  OBVIOUS
<1>1. ASSUME NEW m \in Generators, NEW id \in EndorsedIds, NextKeyBlock(m, id) PROVE RoundInv'
  BY <1>1, NextKeyBlockInv
<1>2. ASSUME NEW m \in Generators, BetterKeyBlock(m) PROVE RoundInv'
  BY <1>2, BetterKeyBlockInv
<1>3. CASE Endorse
  <2>1. ownEndorsement \in EndorseBlock
    BY RoundAssumption, EndorsementAssumption DEF ownEndorsement, EndorseBlock, RoundInv, RoundTypeOK, LiquidType
  <2> QED
    BY <1>3, <2>1, EndorsedInv DEF Endorse
<1>4. ASSUME NEW msg \in EndorseBlock, Receive(msg) PROVE RoundInv'
  BY <1>4, EndorsedInv DEF Receive, roundVars
<1>5. CASE MineMicroBlock
  BY <1>5, MineMicroBlockInv
<1>6. CASE UNCHANGED allVars
  <2>1. UNCHANGED storageVars /\ UNCHANGED <<liquid, chainConflicts>>
    BY <1>6 DEF allVars, roundVars
  <2>2. StorageInv'
    BY <2>1 DEF RoundInv, storageVars, StorageInv, StorageTypeOK, SharedOK, SidesOK, ResultOK
  <2> QED
    BY <2>1, <2>2 DEF RoundInv, storageVars, RoundTypeOK, FilterOK, BlockOK, Reported, Matches
<1> QED
  BY <1>1, <1>2, <1>3, <1>4, <1>5, <1>6 DEF NextRound

\* The invariant holds on every behaviour of the rounds.
LEMMA RoundInvariant == RoundSpec => []RoundInv
BY InitRoundInv, NextRoundInv, PTL DEF RoundSpec

\* The storage keeps its types, and valid votes only in a result that finalized
\* (EndorsementStorage.createVoting).
THEOREM SpecStorageTypeOK == RoundSpec => []StorageTypeOK
<1>1. RoundInv => StorageTypeOK
  BY DEF RoundInv, StorageInv
<1> QED
  BY <1>1, RoundInvariant, PTL

\* An endorser stands on one side only, in the storage and in every voting made,
\* whatever is endorsed in whatever order (EndorsementStorage.tryAdd).
THEOREM SpecOneSidePerEndorser == RoundSpec => []OneSidePerEndorser
<1>1. RoundInv => OneSidePerEndorser
  BY DEF RoundInv, StorageInv, SidesOK, ResultOK, OneSidePerEndorser
<1> QED
  BY <1>1, RoundInvariant, PTL

\* A node relays at most two messages of an endorser per voting
\* (EndorsementStorage.tryAdd, sharedWithNeighbors).
THEOREM SpecRelayBounded == RoundSpec => []RelayBounded
<1>1. ASSUME RoundInv PROVE RelayBounded
  <2> SUFFICES ASSUME NEW g \in Generators
               PROVE  /\ Cardinality({m \in {n \in sharedWithNeighbors : n.endorserIndex = g} : m.onChain}) <= 1
                      /\ Cardinality({m \in {n \in sharedWithNeighbors : n.endorserIndex = g} : ~m.onChain}) <= 1
    BY Zenon DEF RelayBounded
  <2> DEFINE of == {n \in sharedWithNeighbors : n.endorserIndex = g}
             yes == {m \in of : m.onChain}
             no == {m \in of : ~m.onChain}
  <2>1. \A m \in sharedWithNeighbors : m.onChain \in BOOLEAN
    BY <1>1 DEF RoundInv, StorageInv, StorageTypeOK, EndorseBlock
  <2>2. \A m, n \in sharedWithNeighbors :
          m.endorserIndex = n.endorserIndex /\ m.onChain = n.onChain => m = n
    BY <1>1 DEF RoundInv, StorageInv, SharedOK
  <2>3. \A m, n \in yes : m = n
    BY <2>1, <2>2
  <2>4. \A m, n \in no : m = n
    BY <2>1, <2>2
  <2> HIDE DEF yes, no
  <2>5. Cardinality(yes) <= 1 /\ Cardinality(no) <= 1
    BY <2>3, <2>4, AtMostOne
  <2> QED
    BY <2>5 DEF yes, no
<1> QED
  BY <1>1, RoundInvariant, PTL

\* Finality that the storage has recorded for the block this node mines is in the
\* block too: MicroBlockMinerImpl puts it in, the appender counts the same
\* generators (FinalizationState.append), and no conflict, repetition or refused
\* microblock makes the two differ.
THEOREM SpecStorageAgrees == RoundSpec => []StorageAgrees
<1>1. ASSUME RoundInv PROVE StorageAgrees
  <2>1. liquid.endorsedId # 0
    BY <1>1, EndorsementAssumption DEF RoundInv, RoundTypeOK, LiquidType
  <2>2. CASE currentFilter = NoFilter
    BY <2>1, <2>2 DEF StorageAgrees, NoFilter
  <2>3. CASE currentFilter # NoFilter
    BY <1>1, <2>3 DEF RoundInv, Reported, Matches, StorageAgrees
  <2> QED
    BY <2>2, <2>3
<1> QED
  BY <1>1, RoundInvariant, PTL

\* Every non-empty set of natural numbers has a least element.
LEMMA LeastNat == ASSUME NEW S \in SUBSET Nat, S # {} PROVE \E m \in S : \A n \in S : m <= n
<1> DEFINE R == {x \in Nat \X Nat : x[1] < x[2]}
<1>1. IsWellFoundedOn(R, Nat)
  BY NatLessThanWellFounded DEF OpToRel
<1>2. PICK x \in S : \A y \in S : ~(<<y, x>> \in R)
  <2> HIDE DEF R
  <2> QED
    BY <1>1, WFMin, Zenon
<1>3. ASSUME NEW y \in S PROVE x <= y
  <2>1. x \in Nat /\ y \in Nat
    OBVIOUS
  <2>2. ~(<<y, x>> \in R)
    BY <1>2
  <2> QED
    BY <2>1, <2>2
<1> QED
  BY <1>3

\* s is the sum of balances on the subsets of G: one generator after the other, in any order.
SumsUp(s, G) ==
  /\ s \in [SUBSET G -> Nat]
  /\ s[{}] = 0
  /\ \A T \in SUBSET G : \A x \in T : s[T] = Balance[x] + s[T \ {x}]

\* A set of generators without one of them
LEMMA OneLess ==
  ASSUME NEW G \in SUBSET Generators, NEW a \in G
  PROVE  /\ IsFiniteSet(G) /\ Cardinality(G) \in Nat /\ Cardinality(G) > 0
         /\ IsFiniteSet(G \ {a}) /\ Cardinality(G \ {a}) = Cardinality(G) - 1
<1>1. IsFiniteSet(G)
  BY FS_Subset, FinalizationAssumption
<1>2. Cardinality(G) \in Nat
  BY <1>1, FS_CardinalityType
<1>3. IsFiniteSet(G \ {a}) /\ Cardinality(G \ {a}) = Cardinality(G) - 1
  BY <1>1, FS_RemoveElement
<1>4. Cardinality(G \ {a}) \in Nat
  BY <1>3, FS_CardinalityType
<1> QED
  BY <1>1, <1>2, <1>3, <1>4

\* One generator more: a sum over the sets below G gives one over the sets below it.
LEMMA SumsUpStep ==
  ASSUME NEW G \in SUBSET Generators, NEW a \in G, NEW s, SumsUp(s, G \ {a})
  PROVE  \E t : SumsUp(t, G)
<1> DEFINE t == [T \in SUBSET G |-> IF a \in T THEN Balance[a] + s[T \ {a}] ELSE s[T]]
<1>0. \A g \in Generators : Balance[g] \in Nat
  BY FinalizationAssumption
<1>1. t \in [SUBSET G -> Nat]
  BY <1>0 DEF SumsUp
<1>2. t[{}] = 0
  BY DEF SumsUp
<1>3. ASSUME NEW T \in SUBSET G, NEW x \in T PROVE t[T] = Balance[x] + t[T \ {x}]
  <2>1. CASE x = a
    <3>1. t[T] = Balance[a] + s[T \ {a}]
      BY <2>1
    <3>2. t[T \ {a}] = s[T \ {a}]
      BY <2>1
    <3> QED
      BY <2>1, <3>1, <3>2
  <2>2. CASE x # a /\ a \notin T
    <3>1. t[T] = s[T] /\ t[T \ {x}] = s[T \ {x}]
      BY <2>2
    <3>2. T \in SUBSET (G \ {a})
      BY <2>2
    <3> QED
      BY <3>1, <3>2 DEF SumsUp
  <2>3. CASE x # a /\ a \in T
    <3> DEFINE U == T \ {a}
    <3>1. t[T] = Balance[a] + s[U]
      BY <2>3
    <3>2. (T \ {x}) \ {a} = U \ {x} /\ U \in SUBSET (G \ {a}) /\ x \in U /\ U \ {x} \in SUBSET (G \ {a})
      BY <2>3
    <3>3. t[T \ {x}] = Balance[a] + s[U \ {x}]
      BY <2>3, <3>2, Zenon
    <3> HIDE DEF U, t
    <3>4. s[U] = Balance[x] + s[U \ {x}]
      BY <3>2 DEF SumsUp
    <3>5. Balance[x] \in Nat /\ Balance[a] \in Nat /\ s[U \ {x}] \in Nat
      BY <1>0, <3>2 DEF SumsUp
    <3> QED
      BY <3>1, <3>3, <3>4, <3>5
  <2> QED
    BY <2>1, <2>2, <2>3
<1> HIDE DEF t
<1>4. SumsUp(t, G)
  BY <1>1, <1>2, <1>3 DEF SumsUp
<1> QED
  BY <1>4

\* Every set of generators has its sum.
LEMMA SumsExist == ASSUME NEW G \in SUBSET Generators PROVE \E s : SumsUp(s, G)
<1> DEFINE Bad == {n \in Nat : \E H \in SUBSET Generators : Cardinality(H) = n /\ ~\E s : SumsUp(s, H)}
<1>1. Bad \in SUBSET Nat
  OBVIOUS
<1>2. ASSUME Bad # {} PROVE FALSE
  <2>1. PICK n \in Bad : \A m \in Bad : n <= m
    <3> HIDE DEF Bad
    <3> QED
      BY <1>1, <1>2, LeastNat
  <2>2. PICK H \in SUBSET Generators : Cardinality(H) = n /\ ~\E s : SumsUp(s, H)
    BY <2>1
  <2>3. CASE H = {}
    <3> DEFINE s == [T \in SUBSET H |-> 0]
    <3>1. SumsUp(s, H)
      BY <2>3 DEF SumsUp
    <3> QED
      BY <2>2, <3>1
  <2>4. CASE H # {}
    <3>1. PICK a \in H : TRUE
      BY <2>4
    <3>2. Cardinality(H \ {a}) = n - 1 /\ n - 1 \in Nat
      BY <2>2, OneLess
    <3>3. n - 1 \notin Bad
      BY <2>1, <3>2
    <3>4. \E s : SumsUp(s, H \ {a})
      BY <3>2, <3>3
    <3> QED
      BY <2>2, <3>4, SumsUpStep
  <2> QED
    BY <2>3, <2>4
<1>3. IsFiniteSet(G) /\ Cardinality(G) \in Nat
  BY FS_Subset, FS_CardinalityType, FinalizationAssumption
<1> QED
  BY <1>2, <1>3

\* The fold that MapThenSumSet is: iter on the subsets of S
Folds1(f, S) ==
  f = [s \in SUBSET S |-> IF s = {} THEN 0 ELSE LET x == CHOOSE x \in s : TRUE IN Balance[x] + f[s \ {x}]]

\* The sum the code folds is the value of a recursive function.
LEMMA FoldIs == \A S : BalanceOf(S) = (CHOOSE f : Folds1(f, S))[S]
BY DEF BalanceOf, MapThenSumSet, MapThenFoldSet, Folds1

\* The fold exists and is the sum.
LEMMA BalanceIsSum ==
  ASSUME NEW G \in SUBSET Generators, NEW s, SumsUp(s, G)
  PROVE  BalanceOf(G) = s[G]
<1>1. Folds1(s, G)
  <2> DEFINE t == [T \in SUBSET G |-> IF T = {} THEN 0 ELSE LET x == CHOOSE x \in T : TRUE IN Balance[x] + s[T \ {x}]]
  <2>1. ASSUME NEW T \in SUBSET G PROVE s[T] = t[T]
    <3>1. CASE T = {}
      BY <3>1 DEF SumsUp
    <3>2. CASE T # {}
      <4>1. (CHOOSE x \in T : TRUE) \in T
        BY <3>2
      <4> QED
        BY <3>2, <4>1, Zenon DEF SumsUp
    <3> QED
      BY <3>1, <3>2
  <2>2. s = [T \in SUBSET G |-> s[T]]
    BY DEF SumsUp
  <2>3. s = t
    BY <2>1, <2>2, Zenon
  <2> QED
    BY <2>3 DEF Folds1
<1> DEFINE f == CHOOSE f : Folds1(f, G)
<1>2. Folds1(f, G) /\ BalanceOf(G) = f[G]
  BY <1>1, FoldIs
<1> HIDE DEF f
<1> DEFINE Bad == {n \in Nat : \E T \in SUBSET G : Cardinality(T) = n /\ f[T] # s[T]}
<1>3. Bad \in SUBSET Nat
  OBVIOUS
<1>4. ASSUME NEW h, Folds1(h, G), NEW T \in SUBSET G
      PROVE  h[T] = IF T = {} THEN 0 ELSE LET x == CHOOSE x \in T : TRUE IN Balance[x] + h[T \ {x}]
  BY <1>4 DEF Folds1
<1>5. ASSUME Bad # {} PROVE FALSE
  <2>1. PICK n \in Bad : \A m \in Bad : n <= m
    <3> HIDE DEF Bad
    <3> QED
      BY <1>3, <1>5, LeastNat
  <2>2. PICK T \in SUBSET G : Cardinality(T) = n /\ f[T] # s[T]
    BY <2>1
  <2>3. CASE T = {}
    BY <1>1, <1>2, <1>4, <2>2, <2>3
  <2>4. CASE T # {}
    <3> DEFINE x == CHOOSE x \in T : TRUE
    <3>1. x \in T
      BY <2>4
    <3>2. f[T] = Balance[x] + f[T \ {x}] /\ s[T] = Balance[x] + s[T \ {x}]
      BY <1>1, <1>2, <1>4, <2>4
    <3> HIDE DEF x
    <3>3. Cardinality(T \ {x}) = n - 1 /\ n - 1 \in Nat
      BY <2>2, <3>1, OneLess
    <3>4. n - 1 \notin Bad
      BY <2>1, <3>3
    <3>5. f[T \ {x}] = s[T \ {x}]
      BY <3>3, <3>4
    <3> QED
      BY <2>2, <3>2, <3>5
  <2> QED
    BY <2>3, <2>4
<1>6. IsFiniteSet(G) /\ Cardinality(G) \in Nat
  BY FS_Subset, FS_CardinalityType, FinalizationAssumption
<1> QED
  BY <1>2, <1>5, <1>6

\* Balances add up one generator after the other.
LEMMA BalanceEmpty == BalanceOf({}) = 0
<1> DEFINE none == {}
<1>1. none \in SUBSET Generators /\ none = {}
  OBVIOUS
<1> HIDE DEF none
<1>2. PICK s : SumsUp(s, none)
  BY <1>1, SumsExist
<1>3. BalanceOf(none) = s[none]
  BY <1>1, <1>2, BalanceIsSum
<1> QED
  BY <1>1, <1>2, <1>3 DEF SumsUp

\* Taking one generator out takes out its balance.
LEMMA BalanceLess ==
  ASSUME NEW G \in SUBSET Generators, NEW x \in G
  PROVE  BalanceOf(G) = Balance[x] + BalanceOf(G \ {x})
<1>1. PICK s : SumsUp(s, G)
  BY SumsExist
<1>2. BalanceOf(G) = s[G] /\ s[G] = Balance[x] + s[G \ {x}]
  BY <1>1, BalanceIsSum, Zenon DEF SumsUp
<1> DEFINE H == G \ {x}
           t == [T \in SUBSET H |-> s[T]]
<1>3. SumsUp(t, H)
  <2>1. t \in [SUBSET H -> Nat] /\ t[{}] = 0
    BY <1>1 DEF SumsUp
  <2>2. ASSUME NEW T \in SUBSET H, NEW y \in T PROVE t[T] = Balance[y] + t[T \ {y}]
    <3>1. t[T] = s[T] /\ t[T \ {y}] = s[T \ {y}] /\ T \in SUBSET G
      OBVIOUS
    <3> QED
      BY <1>1, <3>1 DEF SumsUp
  <2> HIDE DEF t
  <2> QED
    BY <2>1, <2>2 DEF SumsUp
<1>4. t[H] = s[H] /\ H \in SUBSET Generators
  OBVIOUS
<1> HIDE DEF H, t
<1>5. BalanceOf(H) = s[H]
  BY <1>3, <1>4, BalanceIsSum
<1> QED
  BY <1>2, <1>5 DEF H

\* A sum of balances is a natural number.
LEMMA BalanceNat ==
  ASSUME NEW G \in SUBSET Generators
  PROVE  BalanceOf(G) \in Nat
<1>1. PICK s : SumsUp(s, G)
  BY SumsExist
<1>2. BalanceOf(G) = s[G]
  BY <1>1, BalanceIsSum
<1> QED
  BY <1>1, <1>2 DEF SumsUp

\* The balance of a set is that of its parts.
LEMMA BalanceSplit ==
  ASSUME NEW A \in SUBSET Generators, NEW B \in SUBSET Generators, A \cap B = {}
  PROVE  BalanceOf(A \cup B) = BalanceOf(A) + BalanceOf(B)
<1> DEFINE Bad == {n \in Nat : \E H \in SUBSET A : Cardinality(H) = n /\ BalanceOf(H \cup B) # BalanceOf(H) + BalanceOf(B)}
<1>1. Bad \in SUBSET Nat
  OBVIOUS
<1>2. ASSUME Bad # {} PROVE FALSE
  <2>1. PICK n \in Bad : \A m \in Bad : n <= m
    <3> HIDE DEF Bad
    <3> QED
      BY <1>1, <1>2, LeastNat
  <2>2. PICK H \in SUBSET A : Cardinality(H) = n /\ BalanceOf(H \cup B) # BalanceOf(H) + BalanceOf(B)
    BY <2>1
  <2>3. CASE H = {}
    <3>1. H \cup B = B
      BY <2>3
    <3> QED
      BY <2>2, <2>3, <3>1, BalanceEmpty, BalanceNat
  <2>4. CASE H # {}
    <3>1. PICK x \in H : TRUE
      BY <2>4
    <3>2. Cardinality(H \ {x}) = n - 1 /\ n - 1 \in Nat
      <4>1. H \in SUBSET Generators
        OBVIOUS
      <4> HIDE DEF Bad
      <4> QED
        BY <2>2, <3>1, <4>1, OneLess
    <3>3. n - 1 \notin Bad
      BY <2>1, <3>2
    <3>4. BalanceOf((H \ {x}) \cup B) = BalanceOf(H \ {x}) + BalanceOf(B)
      BY <3>2, <3>3, Zenon
    <3>5. (H \cup B) \ {x} = (H \ {x}) \cup B
      OBVIOUS
    <3>6. H \cup B \in SUBSET Generators /\ H \in SUBSET Generators /\ x \in H \cup B
      OBVIOUS
    <3>7. BalanceOf(H \cup B) = Balance[x] + BalanceOf((H \ {x}) \cup B)
      BY <3>5, <3>6, BalanceLess
    <3>8. BalanceOf(H) = Balance[x] + BalanceOf(H \ {x})
      BY <3>6, BalanceLess
    <3>9. BalanceOf(H \ {x}) \in Nat /\ BalanceOf(B) \in Nat /\ Balance[x] \in Nat
      BY BalanceNat, FinalizationAssumption
    <3> HIDE DEF Bad
    <3> QED
      BY <2>2, <3>4, <3>7, <3>8, <3>9
  <2> QED
    BY <2>3, <2>4
<1>3. IsFiniteSet(A) /\ Cardinality(A) \in Nat
  BY FS_Subset, FS_CardinalityType, FinalizationAssumption
<1> QED
  BY <1>2, <1>3, Zenon

\* More generators have no less balance.
LEMMA BalanceMonotone ==
  ASSUME NEW B \in SUBSET Generators, NEW A \in SUBSET B
  PROVE  BalanceOf(A) <= BalanceOf(B)
<1>1. BalanceOf(A \cup (B \ A)) = BalanceOf(A) + BalanceOf(B \ A)
  BY BalanceSplit
<1>2. A \cup (B \ A) = B
  OBVIOUS
<1> QED
  BY <1>1, <1>2, BalanceNat

\* Bounds from a bound on every balance
LEMMA BalanceBounds ==
  ASSUME NEW G \in SUBSET Generators, NEW c \in Nat
  PROVE  /\ (\A g \in G : Balance[g] <= c) => BalanceOf(G) <= Cardinality(G) * c
         /\ (\A g \in G : Balance[g] >= c) => BalanceOf(G) >= Cardinality(G) * c
<1> DEFINE Low(H) == BalanceOf(H) <= Cardinality(H) * c
           High(H) == BalanceOf(H) >= Cardinality(H) * c
           Ok(H) == ((\A g \in H : Balance[g] <= c) => Low(H)) /\ ((\A g \in H : Balance[g] >= c) => High(H))
           Bad == {n \in Nat : \E H \in SUBSET G : Cardinality(H) = n /\ ~Ok(H)}
<1>1. Bad \in SUBSET Nat
  OBVIOUS
<1>2. ASSUME Bad # {} PROVE FALSE
  <2>1. PICK n \in Bad : \A m \in Bad : n <= m
    <3> HIDE DEF Bad
    <3> QED
      BY <1>1, <1>2, LeastNat
  <2> HIDE DEF Ok
  <2>2. PICK H \in SUBSET G : Cardinality(H) = n /\ ~Ok(H)
    BY <2>1
  <2>3. CASE H = {}
    BY <2>2, <2>3, BalanceEmpty, FS_EmptySet DEF Ok
  <2>4. CASE H # {}
    <3>1. PICK x \in H : TRUE
      BY <2>4
    <3>2. Cardinality(H \ {x}) = n - 1 /\ n - 1 \in Nat
      BY <2>2, <3>1, OneLess
    <3>3. n - 1 \notin Bad
      BY <2>1, <3>2
    <3>4. Ok(H \ {x})
      BY <3>2, <3>3
    <3>5. BalanceOf(H) = Balance[x] + BalanceOf(H \ {x})
      BY BalanceLess
    <3>6. BalanceOf(H \ {x}) \in Nat /\ Balance[x] \in Nat
      BY BalanceNat, FinalizationAssumption
    <3>7. n * c = (n - 1) * c + c /\ (n - 1) * c \in Nat
      BY <3>2
    <3>8. (\A g \in H : Balance[g] <= c) => Low(H)
      BY <2>2, <3>2, <3>4, <3>5, <3>6, <3>7 DEF Ok
    <3>9. (\A g \in H : Balance[g] >= c) => High(H)
      BY <2>2, <3>2, <3>4, <3>5, <3>6, <3>7 DEF Ok
    <3> QED
      BY <2>2, <3>8, <3>9 DEF Ok
  <2> QED
    BY <2>3, <2>4
<1>3. IsFiniteSet(G) /\ Cardinality(G) \in Nat
  BY FS_Subset, FS_CardinalityType, FinalizationAssumption
<1>4. Ok(G)
  BY <1>2, <1>3
<1> QED
  BY <1>4

-----------------------------------------------------------------------------
(* The richest endorsers *)

\* Among as many endorsers as the richest, none have more.
LEMMA RichestBalance ==
  ASSUME NEW items \in SUBSET Generators, NEW rich \in SUBSET items, isRichest(rich, items),
         NEW some \in SUBSET items, Cardinality(some) <= Cardinality(rich)
  PROVE  BalanceOf(some) <= BalanceOf(rich)
<1> DEFINE P == some \ rich
           Q == rich \ some
           I == some \cap rich
<1>1. /\ P \in SUBSET Generators /\ Q \in SUBSET Generators /\ I \in SUBSET Generators
      /\ I \cap P = {} /\ I \cap Q = {} /\ I \cup P = some /\ I \cup Q = rich
  OBVIOUS
<1>2. \A p \in P, q \in Q : Balance[p] <= Balance[q]
  <2>1. \A g \in Generators : Balance[g] \in Nat
    BY FinalizationAssumption
  <2>2. ASSUME NEW p \in P, NEW q \in Q PROVE Balance[p] <= Balance[q]
    <3>1. Balance[q] >= Balance[p]
      BY DEF isRichest
    <3> QED
      BY <2>1, <3>1
  <2> QED
    BY <2>2
<1>3. /\ IsFiniteSet(P) /\ IsFiniteSet(Q) /\ Cardinality(P) \in Nat /\ Cardinality(Q) \in Nat
      /\ Cardinality(P) <= Cardinality(Q)
  <2>1. IsFiniteSet(some) /\ IsFiniteSet(rich)
    BY FS_Subset, FinalizationAssumption
  <2>2. IsFiniteSet(P) /\ Cardinality(P) = Cardinality(some) - Cardinality(I)
    BY <2>1, FS_Difference, Zenon
  <2>3. rich \cap some = I
    OBVIOUS
  <2>4. IsFiniteSet(Q) /\ Cardinality(Q) = Cardinality(rich) - Cardinality(I)
    BY <2>1, <2>3, FS_Difference, Zenon
  <2>5. IsFiniteSet(I)
    BY <2>1, FS_Subset
  <2>6. Cardinality(some) \in Nat /\ Cardinality(rich) \in Nat /\ Cardinality(I) \in Nat
          /\ Cardinality(P) \in Nat /\ Cardinality(Q) \in Nat
    BY <2>1, <2>2, <2>4, <2>5, FS_CardinalityType
  <2> HIDE DEF P, Q, I
  <2> QED
    BY <2>2, <2>4, <2>6
<1>4. BalanceOf(some) = BalanceOf(I) + BalanceOf(P) /\ BalanceOf(rich) = BalanceOf(I) + BalanceOf(Q)
  <2>1. BalanceOf(I \cup P) = BalanceOf(I) + BalanceOf(P)
    <3> HIDE DEF P, Q, I
    <3> QED
      BY <1>1, BalanceSplit
  <2>2. BalanceOf(I \cup Q) = BalanceOf(I) + BalanceOf(Q)
    <3> HIDE DEF P, Q, I
    <3> QED
      BY <1>1, BalanceSplit
  <2> HIDE DEF P, Q, I
  <2> QED
    BY <1>1, <2>1, <2>2
<1> HIDE DEF P, Q, I
<1>5. BalanceOf(P) <= BalanceOf(Q)
  <2>1. CASE P = {}
    <3>1. BalanceOf(P) = 0
      BY <2>1, BalanceEmpty
    <3> QED
      BY <1>1, <3>1, BalanceNat
  <2>2. CASE P # {}
    <3>1. Cardinality(P) # 0
      BY <1>3, <2>2, FS_EmptySet
    <3>2. Q # {}
      BY <1>3, <3>1, FS_EmptySet
    <3> DEFINE B == {Balance[q] : q \in Q}
    <3>3. B \in SUBSET Nat /\ B # {}
      BY <1>1, <3>2, FinalizationAssumption
    <3>4. PICK c \in B : \A b \in B : c <= b
      <4> HIDE DEF B
      <4> QED
        BY <3>3, LeastNat
    <3>5. c \in Nat /\ (\A q \in Q : Balance[q] >= c) /\ (\A p \in P : Balance[p] <= c)
      <4>1. c \in Nat
        BY <3>3
      <4>2. \A q \in Q : Balance[q] \in Nat /\ c <= Balance[q]
        BY <1>1, <3>4, FinalizationAssumption
      <4>3. \A p \in P : Balance[p] <= c
        BY <1>2, <3>4
      <4> QED
        BY <4>1, <4>2, <4>3
    <3>6. BalanceOf(P) <= Cardinality(P) * c /\ BalanceOf(Q) >= Cardinality(Q) * c
      <4> HIDE DEF B
      <4> QED
        BY <1>1, <3>5, BalanceBounds
    <3>7. Cardinality(P) * c <= Cardinality(Q) * c
      <4>1. \A m, n, k \in Nat : m <= n => m * k <= n * k
        OBVIOUS
      <4> QED
        BY <1>3, <3>5, <4>1
    <3>8. Cardinality(P) * c \in Nat /\ Cardinality(Q) * c \in Nat /\ BalanceOf(P) \in Nat /\ BalanceOf(Q) \in Nat
      BY <1>1, <1>3, <3>5, BalanceNat
    <3> QED
      BY <3>6, <3>7, <3>8
  <2> QED
    BY <2>1, <2>2
<1> QED
  BY <1>1, <1>4, <1>5, BalanceNat

\* More balance reaches what less does.
LEMMA ReachesMore ==
  ASSUME NEW f \in EndorsementFilter, f.funded = Generators,
         NEW less \in SUBSET (Generators \ {f.miner}), NEW more \in SUBSET (Generators \ {f.miner}),
         BalanceOf(less) <= BalanceOf(more), NEW newConflict, reaches(f, less, newConflict)
  PROVE  reaches(f, more, newConflict)
<1>1. f.miner \in Generators
  BY DEF EndorsementFilter
<1>2. ASSUME NEW S \in SUBSET (Generators \ {f.miner})
      PROVE  normalized(f, S \cup {f.miner}) = Balance[f.miner] + BalanceOf(S) /\ BalanceOf(S) \in Nat
  <2> DEFINE T == S \cup {f.miner}
  <2>1. T \cap f.funded = T /\ T \ {f.miner} = S /\ f.miner \in T /\ T \in SUBSET Generators
    BY <1>1
  <2>2. normalized(f, T) = BalanceOf(T)
    BY <2>1 DEF normalized
  <2>3. BalanceOf(T) = Balance[f.miner] + BalanceOf(T \ {f.miner})
    <3> HIDE DEF T
    <3> QED
      BY <2>1, BalanceLess
  <2>4. BalanceOf(T \ {f.miner}) = BalanceOf(S)
    BY <2>1
  <2>5. BalanceOf(S) \in Nat
    BY BalanceNat
  <2> QED
    BY <2>2, <2>3, <2>4, <2>5
<1> DEFINE rest == normalized(f, Generators \ (f.conflict \cup newConflict))
<1>3. rest \in Nat
  <2> DEFINE R == (Generators \ (f.conflict \cup newConflict)) \cap f.funded
  <2>1. R \in SUBSET Generators
    OBVIOUS
  <2>2. rest = BalanceOf(R)
    BY DEF normalized
  <2> HIDE DEF R, rest
  <2> QED
    BY <2>1, <2>2, BalanceNat
<1>4. Balance[f.miner] \in Nat
  BY <1>1, FinalizationAssumption
<1>5. normalized(f, less \cup {f.miner}) * 3 >= rest * 2
  BY DEF reaches
<1>6. normalized(f, less \cup {f.miner}) = Balance[f.miner] + BalanceOf(less) /\ BalanceOf(less) \in Nat
  BY <1>2
<1>7. normalized(f, more \cup {f.miner}) = Balance[f.miner] + BalanceOf(more) /\ BalanceOf(more) \in Nat
  BY <1>2
<1> HIDE DEF rest
<1>8. normalized(f, more \cup {f.miner}) * 3 >= rest * 2
  BY <1>3, <1>4, <1>5, <1>6, <1>7
<1> QED
  BY <1>8 DEF reaches, rest

\* The miner does not endorse its own block's parent.
LEMMA EligibleSet ==
  ASSUME NEW f, f.funded = Generators, NEW votes \in SUBSET Generators, NEW newConflict
  PROVE  eligible(f, votes, newConflict) \in SUBSET (Generators \ {f.miner})
BY DEF eligible

\* If any endorsers that fit in a voting reach finalization, the chosen ones do.
LEMMA SimulateBest ==
  ASSUME NEW f \in EndorsementFilter, f.funded = Generators, NEW votes \in SUBSET Generators, NEW newConflict,
         NEW chosen \in simulate(f, votes, newConflict),
         NEW some \in SUBSET eligible(f, votes, newConflict), Cardinality(some) <= MaxValidEndorsers,
         reaches(f, some, newConflict)
  PROVE  reaches(f, chosen, newConflict)
<1> DEFINE items == eligible(f, votes, newConflict)
<1>1. items \in SUBSET (Generators \ {f.miner})
  BY EligibleSet
<1>2. /\ chosen \in SUBSET items /\ isRichest(chosen, items)
      /\ \/ reaches(f, chosen, newConflict)
         \/ Cardinality(chosen) = MaxValidEndorsers
         \/ chosen = items
  BY DEF simulate
<1> HIDE DEF items
<1>3. some \in SUBSET items
  BY DEF items
<1>4. ASSUME BalanceOf(some) <= BalanceOf(chosen) PROVE reaches(f, chosen, newConflict)
  BY <1>1, <1>2, <1>3, <1>4, ReachesMore
<1>5. CASE Cardinality(chosen) = MaxValidEndorsers
  BY <1>1, <1>2, <1>3, <1>4, <1>5, RichestBalance
<1>6. CASE chosen = items
  BY <1>1, <1>3, <1>4, <1>6, BalanceMonotone
<1> QED
  BY <1>2, <1>5, <1>6

\* Without any one of the chosen endorsers finalization is not reached.
LEMMA SimulateMinimal ==
  ASSUME NEW f \in EndorsementFilter, f.funded = Generators, NEW votes \in SUBSET Generators, NEW newConflict,
         NEW chosen \in simulate(f, votes, newConflict), NEW g \in chosen
  PROVE  ~reaches(f, chosen \ {g}, newConflict)
<1> DEFINE items == eligible(f, votes, newConflict)
           B == {Balance[c] : c \in chosen}
<1>1. items \in SUBSET (Generators \ {f.miner})
  BY EligibleSet
<1>2. /\ chosen \in SUBSET items /\ isRichest(chosen, items)
      /\ \A fewer \in SUBSET chosen : isRichest(fewer, items) /\ fewer # chosen => ~reaches(f, fewer, newConflict)
  BY DEF simulate
<1> HIDE DEF items
<1>3. B \in SUBSET Nat /\ B # {}
  BY <1>1, <1>2, FinalizationAssumption
<1>4. PICK b \in B : \A other \in B : b <= other
  <2> HIDE DEF B
  <2> QED
    BY <1>3, LeastNat
<1>5. PICK p \in chosen : b = Balance[p]
  BY <1>4
<1> DEFINE rich == chosen \ {p}
<1>6. isRichest(rich, items)
  <2> SUFFICES ASSUME NEW i \in rich, NEW j \in items \ rich PROVE Balance[i] >= Balance[j]
    BY DEF isRichest
  <2>1. CASE j = p
    <3>1. b <= Balance[i]
      BY <1>4
    <3>2. Balance[i] \in Nat /\ Balance[p] \in Nat
      BY <1>1, <1>2, FinalizationAssumption
    <3> QED
      BY <1>5, <2>1, <3>1, <3>2
  <2>2. CASE j # p
    BY <1>2, <2>2 DEF isRichest
  <2> QED
    BY <2>1, <2>2
<1>7. ~reaches(f, rich, newConflict)
  BY <1>2, <1>6
<1>8. chosen \in SUBSET Generators
  BY <1>1, <1>2
<1>9. Cardinality(rich) = Cardinality(chosen) - 1 /\ Cardinality(chosen \ {g}) = Cardinality(chosen) - 1
        /\ Cardinality(chosen) \in Nat
  BY <1>8, OneLess, Zenon
<1>10. rich \in SUBSET items /\ chosen \ {g} \in SUBSET items
         /\ rich \in SUBSET (Generators \ {f.miner}) /\ chosen \ {g} \in SUBSET (Generators \ {f.miner})
         /\ items \in SUBSET Generators
  BY <1>1, <1>2
<1>11. BalanceOf(chosen \ {g}) <= BalanceOf(rich)
  <2> HIDE DEF rich, B
  <2> DEFINE some == chosen \ {g}
  <2>1. some \in SUBSET items /\ Cardinality(some) <= Cardinality(rich)
    BY <1>9, <1>10
  <2> HIDE DEF some
  <2>2. BalanceOf(some) <= BalanceOf(rich)
    BY <1>6, <1>10, <2>1, RichestBalance
  <2> QED
    BY <2>2 DEF some
<1> HIDE DEF rich, B
<1> QED
  BY <1>7, <1>10, <1>11, ReachesMore

\* A richest endorser among some
LEMMA RichestOne ==
  ASSUME NEW S \in SUBSET Generators, S # {}
  PROVE  \E j \in S : \A k \in S : Balance[j] >= Balance[k]
<1> DEFINE U == {n \in Nat : \A k \in S : Balance[k] <= n}
<1>0. \A g \in S : Balance[g] \in Nat
  BY FinalizationAssumption
<1>1. U # {}
  <2>1. BalanceOf(S) \in U
    <3>1. ASSUME NEW k \in S PROVE Balance[k] <= BalanceOf(S)
      <4>1. BalanceOf(S) = Balance[k] + BalanceOf(S \ {k})
        BY BalanceLess
      <4>2. BalanceOf(S \ {k}) \in Nat /\ Balance[k] \in Nat
        BY <1>0, BalanceNat
      <4> QED
        BY <4>1, <4>2
    <3>2. BalanceOf(S) \in Nat
      BY BalanceNat
    <3> QED
      BY <3>1, <3>2
  <2> QED
    BY <2>1
<1>2. PICK c \in U : \A n \in U : c <= n
  <2>1. U \in SUBSET Nat
    OBVIOUS
  <2> HIDE DEF U
  <2> QED
    BY <1>1, <2>1, LeastNat
<1>3. \E j \in S : Balance[j] = c
  <2> SUFFICES ASSUME \A j \in S : Balance[j] # c PROVE FALSE
    OBVIOUS
  <2>1. \A j \in S : Balance[j] <= c - 1
    BY <1>0, <1>2
  <2>2. c # 0
    BY <1>0, <2>1
  <2>3. c - 1 \in U
    BY <1>2, <2>1, <2>2
  <2> QED
    BY <1>2, <2>3
<1>4. PICK j \in S : Balance[j] = c
  BY <1>3
<1>5. \A k \in S : Balance[j] >= Balance[k]
  BY <1>0, <1>2, <1>4
<1> QED
  BY <1>5

\* There always is a choice of endorsers.
LEMMA SimulateExists ==
  ASSUME NEW f \in EndorsementFilter, f.funded = Generators, NEW votes \in SUBSET Generators, NEW newConflict
  PROVE  \E chosen : chosen \in simulate(f, votes, newConflict)
<1> DEFINE items == eligible(f, votes, newConflict)
           Ok(c) == /\ isRichest(c, items)
                    /\ Cardinality(c) <= MaxValidEndorsers
                    /\ \A fewer \in SUBSET c :
                         isRichest(fewer, items) /\ fewer # c => ~reaches(f, fewer, newConflict)
           Left == {n \in Nat : \E c \in SUBSET items : Ok(c) /\ n = Cardinality(items) - Cardinality(c)}
<1>1. items \in SUBSET (Generators \ {f.miner}) /\ items \in SUBSET Generators
  BY EligibleSet
<1>2. \A c : c \in simulate(f, votes, newConflict) <=>
               /\ c \in SUBSET items /\ Ok(c)
               /\ reaches(f, c, newConflict) \/ Cardinality(c) = MaxValidEndorsers \/ c = items
  BY DEF simulate
<1> HIDE DEF items
<1>3. IsFiniteSet(items) /\ Cardinality(items) \in Nat
  BY <1>1, FS_Subset, FS_CardinalityType, FinalizationAssumption
<1>4. ASSUME NEW c \in SUBSET items
      PROVE  IsFiniteSet(c) /\ Cardinality(c) \in Nat /\ Cardinality(items) - Cardinality(c) \in Nat
  <2>1. IsFiniteSet(c) /\ Cardinality(c) <= Cardinality(items)
    BY <1>3, FS_Subset
  <2>2. Cardinality(c) \in Nat
    BY <2>1, FS_CardinalityType
  <2> QED
    BY <1>3, <2>1, <2>2
<1>5. Left # {}
  <2> DEFINE none == {}
  <2>1. none \in SUBSET items /\ Cardinality(none) = 0
    BY FS_EmptySet
  <2>2. Ok(none)
    BY <2>1, FinalizationAssumption DEF isRichest
  <2> HIDE DEF none, Ok
  <2>3. Cardinality(items) - Cardinality(none) \in Left
    BY <1>4, <2>1, <2>2
  <2> QED
    BY <2>3
<1>6. PICK n \in Left : \A m \in Left : n <= m
  <2>1. Left \in SUBSET Nat
    OBVIOUS
  <2> HIDE DEF Left
  <2> QED
    BY <1>5, <2>1, LeastNat
<1>7. PICK c \in SUBSET items : Ok(c) /\ n = Cardinality(items) - Cardinality(c)
  BY <1>6
<1>8. ASSUME ~reaches(f, c, newConflict), Cardinality(c) # MaxValidEndorsers, c # items
      PROVE  FALSE
  <2>1. items \ c \in SUBSET Generators /\ items \ c # {}
    BY <1>1, <1>8, Zenon
  <2>2. PICK j \in items \ c : \A k \in items \ c : Balance[j] >= Balance[k]
    <3> DEFINE S == items \ c
    <3>1. S \in SUBSET Generators /\ S # {}
      BY <2>1
    <3> HIDE DEF S
    <3>2. \E j \in S : \A k \in S : Balance[j] >= Balance[k]
      BY <3>1, RichestOne
    <3> QED
      BY <3>2 DEF S
  <2> DEFINE d == c \cup {j}
  <2>3. d \in SUBSET items /\ j \notin c
    OBVIOUS
  <2>4. Cardinality(d) = Cardinality(c) + 1
    BY <1>4, <2>3, FS_AddElement
  <2>5. Cardinality(d) <= MaxValidEndorsers
    BY <1>4, <1>7, <1>8, <2>4, FinalizationAssumption
  <2>6. isRichest(d, items)
    <3>1. \A i \in c, k \in items \ c : Balance[i] >= Balance[k]
      BY <1>7 DEF isRichest
    <3> QED
      BY <2>2, <3>1 DEF isRichest
  <2>7. ASSUME NEW fewer \in SUBSET d, isRichest(fewer, items), fewer # d
        PROVE  ~reaches(f, fewer, newConflict)
    <3>1. CASE j \notin fewer
      <4>1. fewer \in SUBSET c
        BY <3>1
      <4> QED
        BY <1>7, <1>8, <2>7, <4>1
    <3>2. Cardinality(fewer) <= Cardinality(c)
      <4>1. IsFiniteSet(d) /\ Cardinality(d) \in Nat /\ IsFiniteSet(fewer) /\ Cardinality(fewer) \in Nat
              /\ Cardinality(c) \in Nat
        <5>1. fewer \in SUBSET items
          BY <2>3
        <5> HIDE DEF d
        <5> QED
          BY <1>4, <2>3, <5>1
      <4>2. Cardinality(fewer) <= Cardinality(d) /\ (Cardinality(d) = Cardinality(fewer) => d = fewer)
        <5> HIDE DEF d
        <5> QED
          BY <4>1, FS_Subset
      <4> HIDE DEF d
      <4> QED
        BY <2>4, <2>7, <4>1, <4>2
    <3>3. BalanceOf(fewer) <= BalanceOf(c)
      <4>1. fewer \in SUBSET items /\ isRichest(c, items)
        BY <1>7, <2>3
      <4> HIDE DEF d, Ok
      <4> QED
        BY <1>1, <3>2, <4>1, RichestBalance
    <3>4. fewer \in SUBSET (Generators \ {f.miner}) /\ c \in SUBSET (Generators \ {f.miner})
      BY <1>1, <2>3
    <3> HIDE DEF d, Ok
    <3> QED
      BY <1>8, <3>3, <3>4, ReachesMore
  <2>8. Ok(d)
    <3> HIDE DEF d
    <3> QED
      BY <2>5, <2>6, <2>7
  <2>9. Cardinality(items) - Cardinality(d) \in Left
    <3> HIDE DEF d, Ok
    <3> QED
      BY <1>4, <2>3, <2>8
  <2> HIDE DEF d, Ok, Left
  <2> QED
    BY <1>3, <1>4, <1>6, <1>7, <2>4, <2>9
<1> HIDE DEF Ok, Left
<1> QED
  BY <1>2, <1>7, <1>8

-----------------------------------------------------------------------------
(* What a storage that has counted knows *)

\* As long as no conflict came since, the votes of a result that finalized are
\* still held and still finalize.
KeptOK ==
  latestResult.reachedFinalization /\ conflict \subseteq latestResult.voting.conflict =>
    /\ latestResult.voting.valid \subseteq valid
    /\ reaches(currentFilter, latestResult.voting.valid, conflict)

CountedInv == KeptOK /\ VotingFinalizes /\ ResultUpToDate

\* Without votes the only choice is to choose none.
LEMMA SimulateNone ==
  ASSUME NEW f, NEW newConflict, NEW chosen \in simulate(f, {}, newConflict)
  PROVE  chosen = {}
BY DEF simulate, eligible

\* A new voting has nothing to count.
LEMMA StartVotingCounted ==
  ASSUME CountedInv, NEW filter \in EndorsementFilter, startVoting(filter)
  PROVE  CountedInv'
<1>1. CASE UNCHANGED storageVars
  BY <1>1, Zenon DEF storageVars, CountedInv, KeptOK, VotingFinalizes, ResultUpToDate
<1>2. CASE ~sameVoting(currentFilter, filter)
  <2>1. /\ currentFilter' = filter
        /\ valid' = {} /\ conflict' = {}
        /\ latestResult' = emptyResult /\ hasChanges' = FALSE /\ collected' = NoVoting
    BY <1>2 DEF startVoting
  <2>2. emptyResult.reachedFinalization = FALSE /\ NoVoting.valid = {}
    BY DEF emptyResult, NoVoting
  <2>3. KeptOK'
    BY <2>1, <2>2 DEF KeptOK
  <2>4. VotingFinalizes'
    BY <2>1, <2>2 DEF VotingFinalizes
  <2>5. ResultUpToDate'
    <3>1. ASSUME NEW chosen \in simulate(filter, {}, {}), reaches(filter, chosen, {}) PROVE reaches(filter, {}, {})
      BY <3>1, SimulateNone
    <3> QED
      BY <2>1, <2>2, <3>1, Zenon DEF ResultUpToDate
  <2> QED
    BY <2>3, <2>4, <2>5 DEF CountedInv
<1> QED
  BY <1>1, <1>2 DEF startVoting

\* An endorsement makes the result out of date until the next collection.
LEMMA TryAddCounted ==
  ASSUME StorageInv, CountedInv, NEW msg \in EndorseBlock, tryAdd(msg)
  PROVE  CountedInv'
<1>1. CASE UNCHANGED storageVars
  BY <1>1, Zenon DEF storageVars, CountedInv, KeptOK, VotingFinalizes, ResultUpToDate
<1>2. CASE /\ AddConflict(msg) \/ AddValid(msg)
           /\ hasChanges' = TRUE
           /\ UNCHANGED <<currentFilter, latestResult, collected>>
  <2>1. VotingFinalizes' /\ ResultUpToDate'
    BY <1>2 DEF VotingFinalizes, ResultUpToDate
  <2>2. CASE AddConflict(msg)
    <3>1. conflict' = conflict \cup {msg.endorserIndex} /\ msg.endorserIndex \notin conflict
      BY <2>2 DEF AddConflict, isConflict, isExpected
    <3>2. latestResult.voting.conflict \subseteq conflict
      BY DEF StorageInv, ResultOK
    <3>3. KeptOK'
      BY <1>2, <3>1, <3>2 DEF KeptOK
    <3> QED
      BY <2>1, <3>3 DEF CountedInv
  <2>3. CASE AddValid(msg)
    <3>1. conflict' = conflict /\ valid' = valid \cup {msg.endorserIndex}
      BY <2>3 DEF AddValid
    <3>2. KeptOK'
      BY <1>2, <3>1 DEF KeptOK, CountedInv
    <3> QED
      BY <2>1, <3>2 DEF CountedInv
  <2> QED
    BY <1>2, <2>2, <2>3
<1> QED
  BY <1>1, <1>2, Zenon DEF tryAdd

\* Collecting keeps what is known: a result is made of a choice that simulate
\* allows, and none of its choices does better than another.
LEMMA CollectCounted ==
  ASSUME StorageInv, FilterOK, CountedInv, NEW id, tryCollectAndClear(id)
  PROVE  CountedInv'
<1> DEFINE f == currentFilter
<1>1. /\ f # NoFilter /\ f \in EndorsementFilter /\ f.funded = Generators
      /\ f.miner \notin f.conflict \cup conflict
      /\ UNCHANGED <<currentFilter, valid, conflict>>
  BY DEF tryCollectAndClear, FilterOK, StorageInv, SidesOK
<1>2. /\ valid \in SUBSET Generators /\ conflict \in SUBSET Generators
      /\ latestResult.voting.conflict \in SUBSET conflict
      /\ latestResult.voting.valid \in SUBSET Generators
      /\ latestResult.reachedFinalization \in BOOLEAN
  BY DEF StorageInv, StorageTypeOK, ResultOK, FinalizationResult, Voting
<1>3. eligible(f, valid, conflict) = valid
  BY <1>1, <1>2 DEF eligible, StorageInv, SidesOK
<1>4. /\ Cardinality(valid) \in Nat /\ Cardinality(conflict) \in Nat
      /\ Cardinality(latestResult.voting.conflict) \in Nat /\ Cardinality(latestResult.voting.valid) \in Nat
  <2>1. \A S \in SUBSET Generators : IsFiniteSet(S)
    BY FS_Subset, FinalizationAssumption
  <2> QED
    BY <1>2, <2>1, FS_CardinalityType
<1>5. CASE ~couldChange
  <2>1. UNCHANGED latestResult /\ collected' = NoVoting
    BY <1>5 DEF tryCollectAndClear
  <2>2. KeptOK' /\ VotingFinalizes'
    BY <1>1, <2>1 DEF CountedInv, KeptOK, VotingFinalizes, NoVoting
  <2>3. conflict = latestResult.voting.conflict
    BY <1>2, <1>4, <1>5, GeneratorSets DEF couldChange, moreConflict
  <2>4. CASE latestResult.reachedFinalization
    <3> DEFINE some == latestResult.voting.valid
    <3>1. some \in SUBSET valid /\ reaches(f, some, conflict)
      BY <2>3, <2>4 DEF CountedInv, KeptOK
    <3>2. Cardinality(some) <= MaxValidEndorsers
      BY DEF StorageInv, ResultOK
    <3> HIDE DEF some
    <3>3. PICK chosen : chosen \in simulate(f, valid, conflict)
      BY <1>1, <1>2, SimulateExists
    <3>4. reaches(f, chosen, conflict)
      BY <1>1, <1>2, <1>3, <3>1, <3>2, <3>3, SimulateBest
    <3>5. ResultUpToDate'
      BY <1>1, <1>2, <2>1, <2>4, <3>3, <3>4 DEF ResultUpToDate
    <3> QED
      BY <2>2, <3>5 DEF CountedInv
  <2>5. CASE ~latestResult.reachedFinalization
    <3>1. latestResult.voting.valid = {}
      BY <2>5 DEF StorageInv, StorageTypeOK
    <3>2. Cardinality(valid) <= Cardinality(latestResult.voting.valid)
      BY <1>4, <1>5, <2>5 DEF couldChange, couldFinalized
    <3>3. valid = {}
      <4> DEFINE none == {}
      <4>1. none \in SUBSET valid /\ Cardinality(valid) <= Cardinality(none)
        BY <3>1, <3>2
      <4> HIDE DEF none
      <4>2. valid = none
        BY <1>2, <4>1, GeneratorSets
      <4> QED
        BY <4>2 DEF none
    <3>4. \A chosen \in simulate(f, valid, conflict) : chosen = {}
      BY <3>3, SimulateNone
    <3>5. ResultUpToDate'
      BY <1>1, <1>2, <2>1, <2>5, <3>4, Zenon DEF ResultUpToDate
    <3> QED
      BY <2>2, <3>5 DEF CountedInv
  <2> QED
    BY <2>4, <2>5
<1>6. CASE couldChange
  <2>1. PICK chosen \in simulate(f, valid, conflict) : MakeVoting(chosen)
    BY <1>6 DEF tryCollectAndClear
  <2> DEFINE reached == reaches(f, chosen, conflict)
  <2>2. CASE reached /\ chosen = {}
    <3>1. UNCHANGED latestResult /\ collected' = NoVoting
      BY <2>1, <2>2 DEF MakeVoting
    <3>2. KeptOK' /\ VotingFinalizes'
      BY <1>1, <3>1 DEF CountedInv, KeptOK, VotingFinalizes, NoVoting
    <3>3. ResultUpToDate'
      BY <1>1, <2>2 DEF ResultUpToDate
    <3> QED
      BY <3>2, <3>3 DEF CountedInv
  <2>3. CASE ~(reached /\ chosen = {})
    <3>1. /\ latestResult' = createVoting(chosen, reached)
          /\ collected' \in {createVoting(chosen, reached).voting, NoVoting}
      BY <2>1, <2>3 DEF MakeVoting
    <3>2. /\ latestResult'.reachedFinalization = reached
          /\ reached => latestResult'.voting.valid = chosen
          /\ collected'.valid # {} => reached /\ collected'.valid = chosen
          /\ collected'.conflict \in SUBSET conflict
          /\ collected' = [valid |-> collected'.valid, conflict |-> collected'.conflict]
      BY <3>1 DEF createVoting, NoVoting
    <3>3. chosen \in SUBSET valid /\ Cardinality(chosen) <= MaxValidEndorsers
      BY <1>3 DEF simulate
    <3> HIDE DEF reached
    <3>4. KeptOK'
      BY <1>1, <3>2, <3>3, Zenon DEF KeptOK, reached
    <3>5. VotingFinalizes'
      <4> SUFFICES ASSUME collected'.valid # {}
                   PROVE  LET gens == f.funded \ (f.conflict \cup conflict)
                          IN  /\ isParentFinalized(gens, collected'.conflict, f.miner, collected')
                              /\ \A g \in collected'.valid :
                                   ~isParentFinalized(gens, collected'.conflict, f.miner,
                                                      [collected' EXCEPT !.valid = @ \ {g}])
        BY <1>1 DEF VotingFinalizes
      <4> DEFINE gens == Generators \ (f.conflict \cup conflict)
                 reported == collected'.conflict
      <4>1. reached /\ collected'.valid = chosen /\ reported \in SUBSET conflict
        BY <3>2
      <4>2. chosen \in SUBSET gens
        BY <1>1, <1>2, <3>3 DEF StorageInv, SidesOK
      <4>3. isParentFinalized(gens, reported, f.miner, collected')
        <5> DEFINE v == collected'
        <5>1. v.valid = chosen /\ v.conflict = reported
          BY <4>1
        <5> HIDE DEF v, reported, f
        <5>2. isParentFinalized(gens, reported, f.miner, v)
          BY <1>1, <4>1, <4>2, <5>1, CountsExact, Zenon DEF reached
        <5> QED
          BY <5>2 DEF v
      <4>4. ASSUME NEW g \in chosen
            PROVE  ~isParentFinalized(gens, reported, f.miner, [collected' EXCEPT !.valid = @ \ {g}])
        <5> DEFINE v == [collected' EXCEPT !.valid = @ \ {g}]
                   less == chosen \ {g}
        <5>1. v.valid = less /\ v.conflict = reported
          BY <3>2, <4>1
        <5>2. ~reaches(f, less, conflict)
          BY <1>1, <1>2, SimulateMinimal
        <5>3. less \in SUBSET gens
          BY <4>2
        <5> HIDE DEF v, reported, less, f
        <5>4. ~isParentFinalized(gens, reported, f.miner, v)
          BY <1>1, <4>1, <5>1, <5>2, <5>3, CountsExact, Zenon
        <5> QED
          BY <5>4 DEF v
      <4> QED
        BY <1>1, <4>1, <4>3, <4>4
    <3>6. ResultUpToDate'
      <4>1. ASSUME NEW other \in simulate(f, valid, conflict), reaches(f, other, conflict) PROVE reached
        <5>1. other \in SUBSET eligible(f, valid, conflict) /\ Cardinality(other) <= MaxValidEndorsers
          BY DEF simulate
        <5> QED
          BY <1>1, <1>2, <4>1, <5>1, SimulateBest DEF reached
      <4>2. (\E other \in simulate(f, valid, conflict) : reaches(f, other, conflict)) <=> reached
        BY <4>1 DEF reached
      <4>3. reached \in BOOLEAN
        BY DEF reached, reaches
      <4> QED
        BY <1>1, <3>2, <4>2, <4>3, Zenon DEF ResultUpToDate
    <3> QED
      BY <3>4, <3>5, <3>6 DEF CountedInv
  <2> QED
    BY <2>2, <2>3
<1> QED
  BY <1>5, <1>6

-----------------------------------------------------------------------------
(* The block's count *)

\* The block says final exactly when the votes it last reported make it so among
\* the generators it still counts.
CountOK ==
  LET acc == liquid.st.accFinalizationVoting
  IN  liquid.st.parentFinalized =
        isParentFinalized(liquid.st.generatorSet, {}, liquid.miner, [valid |-> acc.valid, conflict |-> {}])

\* A block has votes only from a storage that took them for final.
AccOK ==
  liquid.mining /\ currentFilter.endorsedId = liquid.endorsedId /\ ~latestResult.reachedFinalization =>
    liquid.st.accFinalizationVoting.valid = {}

CountInv == RoundInv /\ CountedInv /\ CountOK /\ AccOK

\* What is handed out: nothing while the result stays as it was, valid votes only
\* with a result that finalizes, and without a new conflict only if the last one did not.
LEMMA HandedOut ==
  ASSUME StorageInv, NEW id, tryCollectAndClear(id)
  PROVE  /\ collected' = NoVoting /\ ~latestResult'.reachedFinalization => ~latestResult.reachedFinalization
         /\ collected' # NoVoting /\ ~latestResult'.reachedFinalization => collected'.valid = {}
         /\ collected' # NoVoting /\ collected'.conflict = {} => ~latestResult.reachedFinalization
<1>1. CASE ~couldChange
  BY <1>1 DEF tryCollectAndClear
<1>2. CASE couldChange
  <2>1. PICK chosen \in simulate(currentFilter, valid, conflict) : MakeVoting(chosen)
    BY <1>2 DEF tryCollectAndClear
  <2> DEFINE reached == reaches(currentFilter, chosen, conflict)
             w == createVoting(chosen, reached).voting
  <2>2. /\ createVoting(chosen, reached).reachedFinalization = reached
        /\ w = [valid |-> IF reached THEN chosen ELSE {}, conflict |-> conflict \ latestResult.voting.conflict]
    BY Zenon DEF createVoting
  <2>3. CASE UNCHANGED latestResult /\ collected' = NoVoting
    BY <2>3
  <2>4. CASE /\ latestResult' = createVoting(chosen, reached)
             /\ collected' = IF moreConflict \/ reached # latestResult.reachedFinalization THEN w ELSE NoVoting
    <3>1. ASSUME moreConflict, w.conflict = {} PROVE FALSE
      <4>1. conflict \subseteq latestResult.voting.conflict
        BY <2>2, <3>1
      <4>2. conflict = latestResult.voting.conflict
        BY <4>1 DEF StorageInv, ResultOK
      <4>3. Cardinality(conflict) \in Nat
        BY FS_Subset, FS_CardinalityType, FinalizationAssumption DEF StorageInv, StorageTypeOK
      <4> QED
        BY <3>1, <4>2, <4>3 DEF moreConflict
    <3>2. moreConflict \/ ~latestResult.reachedFinalization
      BY <1>2 DEF couldChange, couldFinalized
    <3>3. latestResult.reachedFinalization \in BOOLEAN /\ reached \in BOOLEAN
      BY DEF StorageInv, StorageTypeOK, FinalizationResult, reaches
    <3>4. latestResult'.reachedFinalization = reached
      BY <2>2, <2>4
    <3>5. w.conflict = {} => ~latestResult.reachedFinalization
      BY <3>1, <3>2
    <3>6. ~reached => w.valid = {}
      BY <2>2
    <3>7. NoVoting.conflict = {}
      BY DEF NoVoting
    <3> HIDE DEF reached, w
    <3> QED
      BY <2>4, <3>2, <3>3, <3>4, <3>5, <3>6, <3>7
  <2> QED
    BY <2>1, <2>2, <2>3, <2>4 DEF MakeVoting
<1> QED
  BY <1>1, <1>2

\* A new block's count
LEMMA NewLiquidCount ==
  ASSUME NEW m, NEW id, NEW conflicts, NEW beaten
  PROVE  LET new == newLiquid(m, id, conflicts, beaten)
         IN  /\ new.st.parentFinalized = isParentFinalized(new.st.generatorSet, {}, new.miner, [valid |-> {}, conflict |-> {}])
             /\ new.st.accFinalizationVoting.valid = {}
<1> DEFINE gens == Generators \ conflicts
           new == newLiquid(m, id, conflicts, beaten)
           none == [valid |-> {}, conflict |-> {}]
<1>1. /\ new.st.parentFinalized = isParentFinalized(gens, conflicts, m, NoVoting)
      /\ new.st.generatorSet = gens /\ new.miner = m /\ new.st.accFinalizationVoting = NoVoting
  BY DEF newLiquid, FinalizationInit
<1>2. gens \ (conflicts \cup NoVoting.conflict) = gens /\ gens \ ({} \cup none.conflict) = gens
        /\ NoVoting.valid = {} /\ none.valid = {}
  BY DEF NoVoting
<1>3. isParentFinalized(gens, conflicts, m, NoVoting) = isParentFinalized(gens, {}, m, none)
  <2> HIDE DEF none, gens
  <2> QED
    BY <1>2 DEF isParentFinalized
<1> QED
  BY <1>1, <1>2, <1>3

\* A key block comes without votes.
LEMMA KeyBlockCount ==
  ASSUME CountInv, NEW m \in Generators, NEW id \in EndorsedIds, NEW conflicts \in SUBSET Generators, NEW beaten,
         liquid' = newLiquid(m, id, conflicts, beaten), vote(m, id, conflicts)
  PROVE  CountedInv' /\ CountOK' /\ AccOK'
<1> DEFINE filter == [miner |-> m, isMiner |-> m = Me, finalizedHeight |-> VotingFinalizedHeight, endorsedId |-> id,
                      funded |-> Generators, conflict |-> conflicts]
<1>0. filter \in EndorsementFilter
  <2>1. VotingFinalizedHeight \in Nat /\ (m = Me) \in BOOLEAN
    BY EndorsementAssumption, RoundAssumption
  <2> QED
    BY <2>1, Zenon DEF EndorsementFilter
<1>1. filter \in EndorsementFilter /\ startVoting(filter)
  BY <1>0, Zenon DEF vote
<1> HIDE DEF filter
<1>2. CountedInv'
  BY <1>1, StartVotingCounted DEF CountInv
<1> DEFINE new == newLiquid(m, id, conflicts, beaten)
<1>3. /\ new.st.parentFinalized = isParentFinalized(new.st.generatorSet, {}, new.miner, [valid |-> {}, conflict |-> {}])
      /\ new.st.accFinalizationVoting.valid = {}
  BY NewLiquidCount, Zenon
<1>4. liquid' = new
  OBVIOUS
<1> HIDE DEF new
<1>5. CountOK' /\ AccOK'
  BY <1>3, <1>4, Zenon DEF CountOK, AccOK
<1> QED
  BY <1>2, <1>5

\* An accepted microblock
LEMMA AcceptedCount ==
  ASSUME CountInv, liquid.mining, tryCollectAndClear(liquid.endorsedId), collected' \in Voting,
         NEW total, total = combine(liquid.st.accFinalizationVoting, collected'),
         liquid' = [liquid EXCEPT !.st = FinalizationAppend(liquid.st, collected', liquid.st.generatorSet \ total.conflict)]
  PROVE  CountOK' /\ AccOK'
<1> DEFINE st == liquid.st
           acc == st.accFinalizationVoting
           v == collected'
           gens == st.generatorSet \ total.conflict
           new == FinalizationAppend(st, v, gens)
           votes == [valid |-> total.valid, conflict |-> {}]
           held == [valid |-> acc.valid, conflict |-> {}]
<1>1. st \in FinalizationState /\ acc \in Voting /\ gens \in SUBSET Generators
  BY DEF CountInv, RoundInv, RoundTypeOK, LiquidType, FinalizationState
<1>2. /\ new.miner = st.miner /\ new.generatorSet = gens
      /\ new.accFinalizationVoting = total
      /\ new.parentFinalized = IF v = NoVoting \/ (st.parentFinalized /\ v.conflict = {}) THEN st.parentFinalized
                               ELSE isParentFinalized(gens, v.conflict, st.miner, v)
  BY <1>1, AppendFields
<1>3. total.conflict = acc.conflict \cup v.conflict /\ total.valid = IF v = NoVoting THEN acc.valid ELSE v.valid
  BY DEF combine, NoVoting
<1> HIDE DEF new
<1>4. /\ liquid'.st = new /\ liquid'.miner = liquid.miner /\ liquid'.mining = liquid.mining
      /\ liquid'.endorsedId = liquid.endorsedId
  BY Zenon DEF CountInv, RoundInv, RoundTypeOK, LiquidType, new
<1>5. /\ st.miner = liquid.miner
      /\ st.generatorSet = Generators \ (chainConflicts \cup acc.conflict)
      /\ st.parentFinalized = isParentFinalized(st.generatorSet, {}, liquid.miner, held)
  BY DEF CountInv, RoundInv, BlockOK, CountOK
<1>6. /\ currentFilter.endorsedId = liquid.endorsedId
      /\ ~latestResult.reachedFinalization => acc.valid = {}
  BY DEF tryCollectAndClear, CountInv, AccOK
<1>7. /\ v = NoVoting /\ ~latestResult'.reachedFinalization => ~latestResult.reachedFinalization
      /\ v # NoVoting /\ ~latestResult'.reachedFinalization => v.valid = {}
      /\ v # NoVoting /\ v.conflict = {} => ~latestResult.reachedFinalization
  BY HandedOut DEF CountInv, RoundInv
<1> HIDE DEF v
<1>8. AccOK'
  BY <1>2, <1>3, <1>4, <1>6, <1>7 DEF AccOK
<1>9. new.parentFinalized = isParentFinalized(gens, {}, liquid.miner, votes)
  <2>1. CASE v = NoVoting
    <3>1. gens = st.generatorSet /\ votes = held
      BY <1>3, <1>5, <2>1 DEF NoVoting
    <3> QED
      BY <1>2, <1>5, <2>1, <3>1
  <2>2. CASE v # NoVoting /\ st.parentFinalized /\ v.conflict = {}
    <3>1. gens = st.generatorSet
      BY <1>3, <1>5, <2>2
    <3>2. acc.valid = {} /\ held.valid = {} /\ held.conflict = {} /\ votes.conflict = {}
      BY <1>6, <1>7, <2>2
    <3> DEFINE few == gens \cap (held.valid \cup {liquid.miner})
               many == gens \cap (votes.valid \cup {liquid.miner})
    <3>3. gens \ ({} \cup held.conflict) = gens /\ gens \ ({} \cup votes.conflict) = gens
      BY <3>2
    <3>4. gens # {} /\ isFinalized(BalanceOf(few), BalanceOf(gens))
      <4> HIDE DEF held, gens
      <4> QED
        BY <1>5, <2>2, <3>1, <3>3, Zenon DEF isParentFinalized
    <3>5. few \in SUBSET many /\ many \in SUBSET Generators
      BY <1>1, <3>2
    <3>6. BalanceOf(few) <= BalanceOf(many) /\ BalanceOf(few) \in Nat /\ BalanceOf(many) \in Nat /\ BalanceOf(gens) \in Nat
      <4> HIDE DEF few, many, gens
      <4>1. few \in SUBSET Generators
        BY <3>5
      <4> QED
        BY <1>1, <3>5, <4>1, BalanceMonotone, BalanceNat
    <3>7. isFinalized(BalanceOf(many), BalanceOf(gens))
      <4> HIDE DEF few, many, gens
      <4> QED
        BY <3>4, <3>6 DEF isFinalized
    <3>8. isParentFinalized(gens, {}, liquid.miner, votes)
      <4> HIDE DEF votes, gens
      <4> QED
        BY <3>3, <3>4, <3>7 DEF isParentFinalized
    <3>9. isParentFinalized(gens, {}, liquid.miner, votes) = TRUE
      BY <3>8 DEF isParentFinalized, isFinalized
    <3>10. new.parentFinalized = TRUE
      BY <1>1, <1>2, <2>2 DEF FinalizationState
    <3> QED
      BY <3>9, <3>10, Zenon
  <2>3. CASE v # NoVoting /\ ~(st.parentFinalized /\ v.conflict = {})
    <3>1. new.parentFinalized = isParentFinalized(gens, v.conflict, st.miner, v)
      BY <1>2, <2>3
    <3>2. /\ gens \ (v.conflict \cup v.conflict) = gens /\ gens \ ({} \cup votes.conflict) = gens
          /\ votes.valid = v.valid
      BY <1>3, <2>3
    <3>3. isParentFinalized(gens, v.conflict, st.miner, v) = isParentFinalized(gens, {}, st.miner, votes)
      <4> HIDE DEF votes, gens
      <4> QED
        BY <3>2 DEF isParentFinalized
    <3> QED
      BY <1>5, <3>1, <3>3
  <2> QED
    BY <2>1, <2>2, <2>3
<1>10. CountOK'
  BY <1>2, <1>4, <1>9 DEF CountOK
<1> QED
  BY <1>8, <1>10

\* A microblock, accepted or refused
LEMMA MineMicroBlockCount ==
  ASSUME CountInv, MineMicroBlock
  PROVE  CountedInv' /\ CountOK' /\ AccOK'
<1> DEFINE total == combine(liquid.st.accFinalizationVoting, collected')
<1>1. liquid.mining /\ tryCollectAndClear(liquid.endorsedId)
  BY DEF MineMicroBlock
<1>2. CountedInv' /\ collected' \in Voting
  BY <1>1, CollectCounted, CollectInv DEF CountInv, RoundInv, StorageInv, StorageTypeOK
<1>3. CASE isAcceptable(collected')
  <2>1. liquid' = [liquid EXCEPT !.st = FinalizationAppend(liquid.st, collected', liquid.st.generatorSet \ total.conflict)]
    BY <1>3 DEF MineMicroBlock
  <2> HIDE DEF total
  <2> QED
    BY <1>1, <1>2, <2>1, AcceptedCount DEF total
<1>4. CASE ~isAcceptable(collected')
  <2>1. liquid' = [liquid EXCEPT !.mining = FALSE]
    BY <1>4 DEF MineMicroBlock
  <2>2. ~liquid'.mining /\ liquid'.miner = liquid.miner /\ liquid'.st = liquid.st
    BY <2>1 DEF CountInv, RoundInv, RoundTypeOK, LiquidType
  <2>3. CountOK' /\ AccOK'
    BY <2>2 DEF CountInv, CountOK, AccOK
  <2> QED
    BY <1>2, <2>3
<1> QED
  BY <1>3, <1>4

\* The count is right at the start ...
LEMMA InitCountInv == InitRound => CountInv
<1> SUFFICES ASSUME InitRound PROVE CountInv
  OBVIOUS
<1>1. RoundInv
  BY InitRoundInv
<1>2. CountedInv
  BY DEF InitRound, InitStorage, CountedInv, KeptOK, VotingFinalizes, ResultUpToDate, emptyResult, NoVoting
<1>3. PICK m \in Generators, id \in EndorsedIds : liquid = [newLiquid(m, id, {}, {}) EXCEPT !.mining = FALSE]
  BY Zenon DEF InitRound
<1> DEFINE none == {}
           new == newLiquid(m, id, none, none)
<1>4. liquid = [new EXCEPT !.mining = FALSE]
  BY <1>3
<1>5. none \in SUBSET Generators
  OBVIOUS
<1> HIDE DEF none
<1>6. /\ new.st.parentFinalized = isParentFinalized(new.st.generatorSet, {}, new.miner, [valid |-> {}, conflict |-> {}])
      /\ new.st.accFinalizationVoting.valid = {}
  BY NewLiquidCount, Zenon
<1>7. new \in LiquidType
  BY <1>5, NewLiquidOK
<1> HIDE DEF new
<1>8. liquid.st = new.st /\ liquid.miner = new.miner
  BY <1>4, <1>7 DEF LiquidType
<1>9. CountOK /\ AccOK
  BY <1>6, <1>8 DEF CountOK, AccOK
<1> QED
  BY <1>1, <1>2, <1>9 DEF CountInv

\* ... and after every step.
LEMMA NextCountInv == CountInv /\ [NextRound]_allVars => CountInv'
<1> SUFFICES ASSUME CountInv, [NextRound]_allVars PROVE CountInv'
  OBVIOUS
<1>0. RoundInv'
  BY NextRoundInv DEF CountInv
<1> SUFFICES CountedInv' /\ CountOK' /\ AccOK'
  BY <1>0 DEF CountInv
<1>1. ASSUME NEW m \in Generators, NEW id \in EndorsedIds, NextKeyBlock(m, id) PROVE CountedInv' /\ CountOK' /\ AccOK'
  <2> DEFINE conflicts == chainConflicts \cup liquid.st.accFinalizationVoting.conflict
             beaten == {}
  <2>1. conflicts \in SUBSET Generators
    BY DEF CountInv, RoundInv, RoundTypeOK, LiquidType, FinalizationState, Voting
  <2>2. liquid' = newLiquid(m, id, conflicts, beaten) /\ vote(m, id, conflicts)
    BY <1>1 DEF NextKeyBlock
  <2> HIDE DEF conflicts, beaten
  <2> QED
    BY <2>1, <2>2, KeyBlockCount
<1>2. ASSUME NEW m \in Generators, BetterKeyBlock(m) PROVE CountedInv' /\ CountOK' /\ AccOK'
  <2> DEFINE id == liquid.endorsedId
             beaten == liquid.beaten \cup {liquid.miner}
  <2>1. id \in EndorsedIds /\ chainConflicts \in SUBSET Generators
    BY DEF CountInv, RoundInv, RoundTypeOK, LiquidType
  <2>2. liquid' = newLiquid(m, id, chainConflicts, beaten) /\ vote(m, id, chainConflicts)
    BY <1>2 DEF BetterKeyBlock
  <2> HIDE DEF id, beaten
  <2> QED
    BY <2>1, <2>2, KeyBlockCount
<1>3. ASSUME NEW msg \in EndorseBlock, tryAdd(msg), UNCHANGED liquid PROVE CountedInv' /\ CountOK' /\ AccOK'
  <2>1. CountedInv'
    BY <1>3, TryAddCounted DEF CountInv, RoundInv
  <2>2. UNCHANGED <<currentFilter, latestResult>>
    BY <1>3, TryAddInv DEF CountInv, RoundInv
  <2>3. CountOK' /\ AccOK'
    BY <1>3, <2>2, Zenon DEF CountInv, CountOK, AccOK
  <2> QED
    BY <2>1, <2>3
<1>4. CASE Endorse
  <2>1. ownEndorsement \in EndorseBlock
    BY RoundAssumption, EndorsementAssumption
       DEF ownEndorsement, EndorseBlock, CountInv, RoundInv, RoundTypeOK, LiquidType
  <2> QED
    BY <1>3, <1>4, <2>1 DEF Endorse
<1>5. ASSUME NEW msg \in EndorseBlock, Receive(msg) PROVE CountedInv' /\ CountOK' /\ AccOK'
  BY <1>3, <1>5 DEF Receive, roundVars
<1>6. CASE MineMicroBlock
  BY <1>6, MineMicroBlockCount
<1>7. CASE UNCHANGED allVars
  <2>1. UNCHANGED storageVars /\ UNCHANGED liquid
    BY <1>7 DEF allVars, roundVars
  <2>2. CountedInv'
    BY <2>1, Zenon DEF storageVars, CountInv, CountedInv, KeptOK, VotingFinalizes, ResultUpToDate
  <2> QED
    BY <2>1, <2>2 DEF storageVars, CountInv, CountOK, AccOK
<1> QED
  BY <1>1, <1>2, <1>4, <1>5, <1>6, <1>7 DEF NextRound

\* The count is right on every behaviour of the rounds.
LEMMA CountInvariant == RoundSpec => []CountInv
BY InitCountInv, NextCountInv, PTL DEF RoundSpec

\* A voting handed to the miner with valid votes finalizes the parent where the
\* appender counts it, and not with one vote less: EndorsementStorage.simulate takes
\* the richest endorsers one by one and stops at the first set that reaches two thirds.
THEOREM SpecVotingFinalizes == RoundSpec => []VotingFinalizes
<1>1. CountInv => VotingFinalizes
  BY DEF CountInv, CountedInv
<1> QED
  BY <1>1, CountInvariant, PTL

\* Once changes are collected the recorded result says final exactly when the
\* endorsements held do, though tryCollectAndClear counts again only when there are
\* more conflicts or more valid votes than before (couldChange).
THEOREM SpecResultUpToDate == RoundSpec => []ResultUpToDate
<1>1. CountInv => ResultUpToDate
  BY DEF CountInv, CountedInv
<1> QED
  BY <1>1, CountInvariant, PTL

\* FinalizationState.append, which skips votings that cannot change the outcome,
\* gives after every microblock what FinalizationState.apply gives on the whole
\* block: a node that loads the block finds the same parents final as its miner.
THEOREM SpecWholeBlockAgrees == RoundSpec => []WholeBlockAgrees
<1>1. ASSUME CountInv PROVE WholeBlockAgrees
  <2> DEFINE st == liquid.st
             acc == st.accFinalizationVoting
             known == chainConflicts \cup acc.conflict
             gens == Generators \ known
             votes == [valid |-> acc.valid, conflict |-> {}]
             whole == FinalizationInit(gens, known, liquid.miner, acc, st.parentHeight, VotingFinalizedHeight)
  <2>1. whole.parentFinalized = isParentFinalized(gens, known, liquid.miner, acc)
    BY DEF FinalizationInit
  <2>2. gens \ (known \cup acc.conflict) = gens /\ gens \ ({} \cup votes.conflict) = gens /\ votes.valid = acc.valid
    OBVIOUS
  <2>3. isParentFinalized(gens, known, liquid.miner, acc) = isParentFinalized(gens, {}, liquid.miner, votes)
    <3> HIDE DEF acc, known, gens, votes
    <3> QED
      BY <2>2 DEF isParentFinalized
  <2>4. st.parentFinalized = isParentFinalized(gens, {}, liquid.miner, votes)
    BY <1>1 DEF CountInv, RoundInv, BlockOK, CountOK
  <2> HIDE DEF whole, gens, votes, known
  <2> QED
    BY <2>1, <2>3, <2>4 DEF WholeBlockAgrees, whole, gens, known
<1> QED
  BY <1>1, CountInvariant, PTL
=============================================================================
