------------------------- MODULE EndorsementStorage -------------------------
(***************************************************************************)
(* EndorsementStorage.InMemory: what a node keeps of the endorsements that *)
(* its peers send for the parent of the current block, and the voting it   *)
(* makes of them when it mines a microblock.  tryAdd (network thread),     *)
(* startVoting (appender) and tryCollectAndClear (miner) hold one monitor, *)
(* so each of them is one action.                                          *)
(*                                                                         *)
(* A finalized block is named by its height and whether it is the one on   *)
(* the node's chain; that part of the chain is final and does not change.  *)
(* Signatures are left out: a message whose signature does not verify is   *)
(* refused without effect.                                                 *)
(***************************************************************************)
EXTENDS Finalization

CONSTANTS
  Filters,       \* the filters BlockEndorser can start a voting with
  EndorsedIds,   \* ids of the blocks endorsed
  MaxFinalized   \* bound: finalized heights in endorsements

NoFilter == [finalizedHeight |-> 0, endorsedId |-> 0]

EndorsementFilter ==
  [miner : Generators, isMiner : BOOLEAN, finalizedHeight : Nat, endorsedId : EndorsedIds,
   funded : SUBSET Generators, conflict : SUBSET Generators]

ASSUME EndorsementAssumption ==
  /\ MaxFinalized \in Nat
  /\ Filters \subseteq EndorsementFilter
  /\ 0 \notin EndorsedIds

VARIABLES
  currentFilter,            \* NoFilter for None
  sharedWithNeighbors,      \* messages already taken
  processedValidEndorsers,
  valid,                    \* the endorsers with a valid endorsement
  conflict,                 \* the endorsers with a conflicting one
  latestResult,             \* the last voting made
  hasChanges,
  collected                 \* what the last tryCollectAndClear returned, NoVoting for None

storageVars ==
  <<currentFilter, sharedWithNeighbors, processedValidEndorsers, valid, conflict, latestResult, hasChanges, collected>>

FinalizationResult == [reachedFinalization : BOOLEAN, voting : Voting]

emptyResult == [reachedFinalization |-> FALSE, voting |-> NoVoting]

\* A message on the wire.  Any index and any finalized block may be claimed.
EndorseBlock ==
  [endorserIndex : Generators, finalizedHeight : 0..MaxFinalized, onChain : BOOLEAN, endorsedId : EndorsedIds]

-----------------------------------------------------------------------------
(* EndorsementFilter *)

sameVoting(f, g) ==
  f.finalizedHeight = g.finalizedHeight /\ f.endorsedId = g.endorsedId

\* normalizedGeneratorSet: 0 where the balance is too low to generate
normalized(f, gens) == BalanceOf(gens \cap f.funded)

\* Fault: two thirds rounded down
reaches_rounded(f, chosen, newConflict) ==
  normalized(f, chosen \cup {f.miner}) >= (normalized(f, Generators \ (f.conflict \cup newConflict)) * 2) \div 3

\* The miner and the chosen endorsers have two thirds of what is not in conflict.
reaches(f, chosen, newConflict) ==
  normalized(f, chosen \cup {f.miner}) * 3 >= normalized(f, Generators \ (f.conflict \cup newConflict)) * 2

\* The endorsers that count, and those among them that have no richer one outside
eligible(f, votes, newConflict) == (votes \cap f.funded) \ ({f.miner} \cup f.conflict \cup newConflict)

isRichest(chosen, items) == \A i \in chosen, j \in items \ chosen : Balance[i] >= Balance[j]

\* simulate: the richest endorsers one by one, until they reach finalization or
\* there are maxValidEndorsers of them.  The order among equals is the queue's.
simulate(f, votes, newConflict) ==
  LET items == eligible(f, votes, newConflict)
  IN  { chosen \in SUBSET items :
          /\ isRichest(chosen, items)
          /\ Cardinality(chosen) <= MaxValidEndorsers
          /\ \A fewer \in SUBSET chosen : isRichest(fewer, items) /\ fewer # chosen => ~reaches(f, fewer, newConflict)
          /\ \/ reaches(f, chosen, newConflict)
             \/ Cardinality(chosen) = MaxValidEndorsers
             \/ chosen = items }

-----------------------------------------------------------------------------
(* The storage. *)

InitStorage ==
  /\ currentFilter = NoFilter
  /\ sharedWithNeighbors = {} /\ processedValidEndorsers = {}
  /\ valid = {} /\ conflict = {}
  /\ latestResult = emptyResult
  /\ hasChanges = FALSE
  /\ collected = NoVoting

\* Fault: a second conflicting endorsement is taken like the first
isExpected_conflictAgain(msg) ==
  /\ currentFilter # NoFilter
  /\ msg.finalizedHeight \in GenesisBlockHeight..currentFilter.finalizedHeight
  /\ msg.endorserIndex # currentFilter.miner
  /\ msg.endorserIndex \in currentFilter.funded
  /\ msg \notin sharedWithNeighbors
  /\ msg.endorserIndex \notin currentFilter.conflict

\* What tryAdd does not answer with an error or ignore as already known
isExpected(msg) ==
  /\ currentFilter # NoFilter
  /\ msg.finalizedHeight \in GenesisBlockHeight..currentFilter.finalizedHeight
  /\ msg.endorserIndex # currentFilter.miner
  /\ msg.endorserIndex \in currentFilter.funded
  /\ msg \notin sharedWithNeighbors
  /\ msg.endorserIndex \notin conflict \cup currentFilter.conflict

isConflict(msg) == isExpected(msg) /\ ~msg.onChain

isValid(msg) ==
  /\ isExpected(msg)
  /\ msg.onChain /\ msg.finalizedHeight = currentFilter.finalizedHeight
  /\ msg.endorsedId = currentFilter.endorsedId
  /\ msg.endorserIndex \notin processedValidEndorsers

\* Fault: the endorser's valid vote is left in place
AddConflict_keepValid(msg) ==
  /\ isConflict(msg)
  /\ conflict' = conflict \cup {msg.endorserIndex}
  /\ UNCHANGED <<valid, processedValidEndorsers>>

AddConflict(msg) ==
  /\ isConflict(msg)
  /\ conflict' = conflict \cup {msg.endorserIndex}
  /\ valid' = valid \ {msg.endorserIndex}
  /\ UNCHANGED processedValidEndorsers

AddValid(msg) ==
  /\ isValid(msg)
  /\ valid' = valid \cup {msg.endorserIndex}
  /\ processedValidEndorsers' = processedValidEndorsers \cup {msg.endorserIndex}
  /\ UNCHANGED conflict

\* An endorsement of an older block of the chain, or of another block than the
\* voting's, is neither valid nor conflicting and changes nothing.
tryAdd(msg) ==
  \/ /\ AddConflict(msg) \/ AddValid(msg)
     /\ hasChanges' = TRUE
     /\ sharedWithNeighbors' = sharedWithNeighbors \cup {msg}
     /\ UNCHANGED <<currentFilter, latestResult, collected>>
  \/ /\ ~isConflict(msg) /\ ~isValid(msg)
     /\ UNCHANGED storageVars

startVoting(filter) ==
  \/ /\ sameVoting(currentFilter, filter)
     /\ UNCHANGED storageVars
  \/ /\ ~sameVoting(currentFilter, filter)
     /\ currentFilter' = filter
     /\ sharedWithNeighbors' = {} /\ processedValidEndorsers' = {}
     /\ valid' = {} /\ conflict' = {}
     /\ latestResult' = emptyResult
     /\ hasChanges' = FALSE
     /\ collected' = NoVoting

\* createVoting: only conflicts that the last voting does not hold, and the valid
\* votes only when they finalize.
createVoting(chosen, reached) ==
  [reachedFinalization |-> reached,
   voting |-> [valid |-> IF reached THEN chosen ELSE {}, conflict |-> conflict \ latestResult.voting.conflict]]

moreConflict == Cardinality(conflict) > Cardinality(latestResult.voting.conflict)

couldFinalized ==
  ~latestResult.reachedFinalization /\ Cardinality(valid) > Cardinality(latestResult.voting.valid)

\* Fault: a new conflict does not make the voting be counted again
couldChange_validOnly == couldFinalized

couldChange == moreConflict \/ couldFinalized

\* A voting whose endorsers are none but the miner cannot be made: there is no
\* signature to aggregate.  latestResult is then left as it is.
MakeVoting(chosen) ==
  LET reached == reaches(currentFilter, chosen, conflict)
      result  == createVoting(chosen, reached)
      changed == result.reachedFinalization # latestResult.reachedFinalization
  IN  IF reached /\ chosen = {}
      THEN UNCHANGED latestResult /\ collected' = NoVoting
      ELSE /\ latestResult' = result
           /\ collected' = IF moreConflict \/ changed THEN result.voting ELSE NoVoting

\* Fault: returns before it looks at the valid votes when there is no new conflict
tryCollectAndClear_conflictsOnly(endorsedId) ==
  /\ currentFilter # NoFilter
  /\ currentFilter.endorsedId = endorsedId
  /\ hasChanges
  /\ moreConflict
  /\ hasChanges' = FALSE
  /\ \E chosen \in simulate(currentFilter, valid, conflict) : MakeVoting(chosen)
  /\ UNCHANGED <<currentFilter, sharedWithNeighbors, processedValidEndorsers, valid, conflict>>

tryCollectAndClear(endorsedId) ==
  /\ currentFilter # NoFilter
  /\ currentFilter.endorsedId = endorsedId
  /\ hasChanges
  /\ hasChanges' = FALSE
  /\ IF couldChange
     THEN \E chosen \in simulate(currentFilter, valid, conflict) : MakeVoting(chosen)
     ELSE UNCHANGED latestResult /\ collected' = NoVoting
  /\ UNCHANGED <<currentFilter, sharedWithNeighbors, processedValidEndorsers, valid, conflict>>

NextStorage ==
  \/ \E f \in Filters : startVoting(f)
  \/ \E msg \in EndorseBlock : tryAdd(msg)
  \/ \E id \in EndorsedIds : tryCollectAndClear(id)

StorageSpec == InitStorage /\ [][NextStorage]_storageVars

-----------------------------------------------------------------------------
(* Properties. *)

\* Sets, filter and votings are what they are declared to be, and the last result
\* holds valid votes only if they finalized.
StorageTypeOK ==
  /\ currentFilter \in EndorsementFilter \cup {NoFilter}
  /\ sharedWithNeighbors \subseteq EndorseBlock
  /\ processedValidEndorsers \subseteq Generators
  /\ valid \subseteq Generators /\ conflict \subseteq Generators
  /\ latestResult \in FinalizationResult
  /\ latestResult.reachedFinalization \/ latestResult.voting.valid = {}
  /\ hasChanges \in BOOLEAN
  /\ collected \in Voting

\* However endorsements are ordered, duplicated or contradicted, an endorser
\* stands on one side only, neither the miner nor a generator already known to be
\* in conflict nor one without balance stands on any, and no voting that was made
\* holds an endorser on both.
OneSidePerEndorser ==
  /\ valid \cap conflict = {}
  /\ currentFilter # NoFilter =>
       /\ valid \cup conflict \subseteq currentFilter.funded \ ({currentFilter.miner} \cup currentFilter.conflict)
       /\ latestResult.voting.valid \cap latestResult.voting.conflict = {}
       /\ Cardinality(latestResult.voting.valid) <= MaxValidEndorsers

\* Gossip ends: in one voting a node takes and relays at most one valid and one
\* conflicting message of an endorser, whatever its peers repeat or invent.
RelayBounded ==
  \A g \in Generators :
    LET of == {m \in sharedWithNeighbors : m.endorserIndex = g}
    IN  Cardinality({m \in of : m.onChain}) <= 1 /\ Cardinality({m \in of : ~m.onChain}) <= 1

\* A voting with valid votes finalizes the parent in the eyes of
\* FinalizationState, which counts it on every node, and has no vote to spare
\* ("minimal required votes").
VotingFinalizes ==
  collected.valid # {} /\ ~hasChanges =>
    LET f    == currentFilter
        gens == f.funded \ (f.conflict \cup conflict)
    IN  /\ isParentFinalized(gens, collected.conflict, f.miner, collected)
        /\ \A g \in collected.valid :
             ~isParentFinalized(gens, collected.conflict, f.miner, [collected EXCEPT !.valid = @ \ {g}])

\* Nothing is forgotten: once the changes are collected, the recorded result says
\* finalized exactly when the endorsements held do, unless the miner needs none.
ResultUpToDate ==
  currentFilter # NoFilter /\ ~hasChanges /\ ~reaches(currentFilter, {}, conflict) =>
    latestResult.reachedFinalization =
      \E chosen \in simulate(currentFilter, valid, conflict) : reaches(currentFilter, chosen, conflict)
=============================================================================
