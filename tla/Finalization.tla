---------------------------- MODULE Finalization ----------------------------
(***************************************************************************)
(* The arithmetic of deterministic finality: what a finalization voting    *)
(* carried by a block says about the block's parent.  Generators of the    *)
(* current generation period are known by their index in the committed     *)
(* set; signatures are abstracted away (a voting only holds endorsements   *)
(* whose signature verifies).                                              *)
(*                                                                         *)
(* A voting is a record [valid, conflict] of generator indexes.  The       *)
(* Option[FinalizationVoting] of the code is this record, None being       *)
(* NoVoting: validation refuses a voting that holds no endorsement at all. *)
(***************************************************************************)
EXTENDS Integers, FiniteSets, FiniteSetsExt

CONSTANTS
  Generators,         \* indexes of the generators committed for the period
  Balance,            \* generating balance of each of them
  MaxValidEndorsers,  \* functionality-settings.max-valid-endorsers
  MaxSyncRollback     \* synchronization.max-rollback

ASSUME FinalizationAssumption ==
  /\ IsFiniteSet(Generators) /\ Generators # {}
  /\ Balance \in [Generators -> Nat \ {0}]
  /\ MaxValidEndorsers \in Nat
  /\ MaxSyncRollback \in Nat \ {0}

Voting == [valid : SUBSET Generators, conflict : SUBSET Generators]

NoVoting == [valid |-> {}, conflict |-> {}]

GenesisBlockHeight == 1

MaxOf(a, b) == IF a >= b THEN a ELSE b

\* The voting of a block grown by a microblock: the latest valid votes count,
\* conflicts accumulate.
combine(old, recent) ==
  IF recent = NoVoting
  THEN old
  ELSE [valid |-> recent.valid, conflict |-> old.conflict \cup recent.conflict]

isFinalized(endorsedBalance, totalBalance) ==
  endorsedBalance * 3 >= totalBalance * 2

BalanceOf(gens) == MapThenSumSet(LAMBDA g : Balance[g], gens)

\* The miner's own balance counts as an endorsement of the parent.
isParentFinalized(generatorSet, knownConflict, miner, voting) ==
  LET counted == generatorSet \ (knownConflict \cup voting.conflict)
  IN  /\ generatorSet # {}
      /\ isFinalized(BalanceOf(counted \cap (voting.valid \cup {miner})), BalanceOf(counted))

\* latestFinalized is 0 where the code has None.
finalizedHeightOrFallback(at, latestFinalized) ==
  MaxOf(MaxOf(GenesisBlockHeight, latestFinalized), at - MaxSyncRollback)

-----------------------------------------------------------------------------
(* FinalizationState: the finality of the liquid block, grown by microblocks. *)

FinalizationState ==
  [miner : Generators, generatorSet : SUBSET Generators, parentHeight : Nat,
   baseFinalizedHeight : Nat, accFinalizationVoting : Voting,
   finalizedHeight : Nat, parentFinalized : BOOLEAN]

FinalizationInit(generatorSet, conflictGenerators, miner, baseVoting, parentHeight, finalizedHeight) ==
  LET finalized == isParentFinalized(generatorSet, conflictGenerators, miner, baseVoting)
      updated   == IF finalized THEN parentHeight ELSE finalizedHeight
  IN  [miner |-> miner, generatorSet |-> generatorSet, parentHeight |-> parentHeight,
       baseFinalizedHeight |-> updated, accFinalizationVoting |-> baseVoting,
       finalizedHeight |-> updated, parentFinalized |-> finalized]

\* Fault: once final, never counted again
FinalizationAppend_sticky(st, voting, updatedGeneratorSet) ==
  LET kept == voting = NoVoting \/ st.parentFinalized
      finalized == IF kept THEN st.parentFinalized
                   ELSE isParentFinalized(updatedGeneratorSet, voting.conflict, st.miner, voting)
  IN  [st EXCEPT !.generatorSet = updatedGeneratorSet,
                 !.accFinalizationVoting = combine(st.accFinalizationVoting, voting),
                 !.finalizedHeight = IF ~kept /\ finalized THEN st.parentHeight ELSE @,
                 !.parentFinalized = finalized]

\* Recomputed only for a voting that can change the outcome; a height once
\* reached by the liquid block is kept even when a conflict loses it again.
FinalizationAppend(st, voting, updatedGeneratorSet) ==
  LET kept == voting = NoVoting \/ (st.parentFinalized /\ voting.conflict = {})
      finalized == IF kept THEN st.parentFinalized
                   ELSE isParentFinalized(updatedGeneratorSet, voting.conflict, st.miner, voting)
  IN  [st EXCEPT !.generatorSet = updatedGeneratorSet,
                 !.accFinalizationVoting = combine(st.accFinalizationVoting, voting),
                 !.finalizedHeight = IF ~kept /\ finalized THEN st.parentHeight ELSE @,
                 !.parentFinalized = finalized]

-----------------------------------------------------------------------------
(* validateFinalizationVoting: what an appender accepts in a block at height.  *)
(* finalizedHeight of a voting lies in 1 .. height - 2, so no block below      *)
(* height 3 can carry one.                                                     *)

validateConflicts(conflict, generatorSet, acceptedConflicts, knownConflicts, miner, valid) ==
  /\ conflict \cap knownConflicts = {}
  /\ conflict \subseteq generatorSet \cup acceptedConflicts
  /\ miner \notin conflict
  /\ conflict \cap valid = {}

validateFinalizationVoting(fv, height, miner, generatorSet, acceptedConflicts, knownConflicts) ==
  \/ fv = NoVoting
  \/ /\ fv # NoVoting
     /\ height - 2 >= GenesisBlockHeight
     /\ Cardinality(fv.valid) <= MaxValidEndorsers
     /\ fv.valid \subseteq generatorSet
     /\ miner \notin fv.valid
     /\ validateConflicts(fv.conflict, generatorSet, acceptedConflicts, knownConflicts, miner, fv.valid)
=============================================================================
