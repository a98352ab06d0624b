---------------------------- MODULE FinalityRound ----------------------------
(***************************************************************************)
(* The finality rounds of one node: each key block the node applies makes  *)
(* BlockEndorser start a voting on its parent; endorsements come in; when  *)
(* the block is the node's own, MicroBlockMiner collects a voting for each *)
(* microblock, and the appender validates it and counts it in              *)
(* FinalizationState.                                                      *)
(***************************************************************************)
EXTENDS EndorsementStorage

CONSTANTS
  Me,                    \* the generator this node mines and endorses with
  VotingFinalizedHeight  \* the finalized height all votings are for

ASSUME RoundAssumption ==
  /\ Me \in Generators
  /\ VotingFinalizedHeight \in 1 .. MaxFinalized
  /\ EndorsedIds \subseteq Nat

VARIABLES
  liquid,          \* the block on top: miner, parent, FinalizationState, whether its microblocks are mined
                   \* here, and the miners of the competitors it replaced
  chainConflicts,  \* generators in conflict on the chain below it
  pending          \* BlockEndorser.vote still has to add the node's own endorsement

roundVars == <<liquid, chainConflicts, pending>>

allVars == <<storageVars, roundVars>>

\* Heights: the parent of the block with endorsedId id, above the finalized block
parentHeightOf(id) == VotingFinalizedHeight + id

newLiquid(m, id, conflicts, beaten) ==
  [miner |-> m, endorsedId |-> id, mining |-> m = Me, beaten |-> beaten,
   st |-> FinalizationInit(Generators \ conflicts, conflicts, m, NoVoting, parentHeightOf(id), VotingFinalizedHeight)]

InitRound ==
  /\ InitStorage
  /\ chainConflicts = {}
  /\ pending = FALSE
  /\ \E m \in Generators, id \in EndorsedIds :
       /\ \A other \in EndorsedIds : id <= other
       /\ liquid = [newLiquid(m, id, {}, {}) EXCEPT !.mining = FALSE]

\* BlockEndorser.vote, up to the node's own endorsement
vote(m, id, conflicts) ==
  LET filter == [miner |-> m, isMiner |-> m = Me, finalizedHeight |-> VotingFinalizedHeight, endorsedId |-> id,
                 funded |-> Generators, conflict |-> conflicts]
  IN  /\ startVoting(filter)
      /\ pending' = (~sameVoting(currentFilter, filter) /\ m # Me)

\* A key block on the next height
NextKeyBlock(m, id) ==
  LET conflicts == chainConflicts \cup liquid.st.accFinalizationVoting.conflict
  IN  /\ ~pending
      /\ id = liquid.endorsedId + 1
      /\ m \notin conflicts
      /\ chainConflicts' = conflicts
      /\ liquid' = newLiquid(m, id, conflicts, {})
      /\ vote(m, id, conflicts)

\* A competitor with a better timestamp replaces the liquid block.  A generator
\* has one timestamp to offer on a given parent, so no miner comes back.
BetterKeyBlock(m) ==
  /\ ~pending
  /\ m \notin chainConflicts \cup liquid.beaten \cup {liquid.miner}
  /\ liquid' = newLiquid(m, liquid.endorsedId, chainConflicts, liquid.beaten \cup {liquid.miner})
  /\ vote(m, liquid.endorsedId, chainConflicts)
  /\ UNCHANGED chainConflicts

ownEndorsement ==
  [endorserIndex |-> Me, finalizedHeight |-> VotingFinalizedHeight, onChain |-> TRUE, endorsedId |-> liquid.endorsedId]

Endorse ==
  /\ pending
  /\ pending' = FALSE
  /\ tryAdd(ownEndorsement)
  /\ UNCHANGED <<liquid, chainConflicts>>

Receive(msg) ==
  /\ msg.endorserIndex # Me
  /\ tryAdd(msg)
  /\ UNCHANGED roundVars

\* processMicroBlock's checks on the voting of the grown block
isAcceptable(voting) ==
  LET accepted == liquid.st.accFinalizationVoting
  IN  /\ voting.conflict \cap accepted.conflict = {}
      /\ validateFinalizationVoting(combine(accepted, voting), parentHeightOf(liquid.endorsedId) + 1, liquid.miner,
                                    liquid.st.generatorSet, accepted.conflict, chainConflicts)

\* Fault: generators in conflict still count in the microblock that reports them
MineMicroBlock_keepConflicted ==
  /\ liquid.mining
  /\ tryCollectAndClear(liquid.endorsedId)
  /\ liquid' = IF isAcceptable(collected')
               THEN [liquid EXCEPT !.st = FinalizationAppend(@, collected', @.generatorSet)]
               ELSE [liquid EXCEPT !.mining = FALSE]
  /\ UNCHANGED <<chainConflicts, pending>>

\* forgeBlocks and appendMicroBlock.  A microblock that is refused ends the
\* mining of microblocks of this block.
MineMicroBlock ==
  /\ liquid.mining
  /\ tryCollectAndClear(liquid.endorsedId)
  /\ LET total == combine(liquid.st.accFinalizationVoting, collected')
     IN  liquid' = IF isAcceptable(collected')
                   THEN [liquid EXCEPT !.st = FinalizationAppend(@, collected', @.generatorSet \ total.conflict)]
                   ELSE [liquid EXCEPT !.mining = FALSE]
  /\ UNCHANGED <<chainConflicts, pending>>

NextRound ==
  \/ \E m \in Generators, id \in EndorsedIds : NextKeyBlock(m, id)
  \/ \E m \in Generators : BetterKeyBlock(m)
  \/ Endorse
  \/ \E msg \in EndorseBlock : Receive(msg)
  \/ MineMicroBlock

\* While transactions come in the miner of the block goes on mining microblocks,
\* and each one collects.
RoundSpec == InitRound /\ [][NextRound]_allVars /\ WF_allVars(MineMicroBlock)

-----------------------------------------------------------------------------
(* Properties. *)

\* A node that applies the block as a whole, with the voting its header ends up
\* with, agrees with the miner, which counted it microblock by microblock, on
\* whether the parent is final.
WholeBlockAgrees ==
  LET st    == liquid.st
      acc   == st.accFinalizationVoting
      known == chainConflicts \cup acc.conflict
      whole == FinalizationInit(Generators \ known, known, liquid.miner, acc, st.parentHeight, VotingFinalizedHeight)
  IN  whole.parentFinalized = st.parentFinalized

\* What the storage took for final the block it was collected for has final.
StorageAgrees ==
  liquid.mining /\ currentFilter.endorsedId = liquid.endorsedId /\ currentFilter.miner = liquid.miner
    /\ latestResult.reachedFinalization => liquid.st.parentFinalized

\* Votes that finalize get into the block: the miner collects them, the appender
\* accepts and counts them, unless the block is replaced or a conflict takes them away first.
FinalityCollected ==
  LET enough == /\ liquid.mining
                /\ currentFilter.endorsedId = liquid.endorsedId /\ currentFilter.miner = liquid.miner
                /\ \E chosen \in simulate(currentFilter, valid, conflict) :
                     chosen # {} /\ reaches(currentFilter, chosen, conflict)
  IN  enough ~> liquid.st.parentFinalized \/ ~enough
=============================================================================
