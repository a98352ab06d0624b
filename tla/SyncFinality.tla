---------------------------- MODULE SyncFinality ----------------------------
(***************************************************************************)
(* What the repository says about synchronisation and finality, put to     *)
(* NgChain.  finalIds remembers the blocks the node has had at or below    *)
(* its finalizedHeight (what Blockchain.finalizedHeight reports and what   *)
(* syncBoundary is read from) while no extension was being applied; a      *)
(* forced rollback, which may cross finality on purpose, resets it.        *)
(***************************************************************************)
EXTENDS NgChain

VARIABLE finalIds

finalNow == IF extension = NoExtension THEN {persisted[h].id : h \in 1..finalizedHeight} ELSE {}

IsForcedRollback == \E id \in persistedIds : ForcedRollback(id)

SyncInit == Init /\ finalIds = {}

SyncNext ==
  /\ Next
  /\ finalIds' = (IF IsForcedRollback THEN {} ELSE finalIds) \cup finalNow'

SyncSpec == SyncInit /\ [][SyncNext]_<<vars, finalIds>>

\* docs/notes/block-sync.md, "Sync never rolls back past finality": a block that
\* was final stays on the chain, whatever forks are synchronised, unless a
\* rollback is forced.
SyncKeepsFinality == finalIds \subseteq persistedIds
=============================================================================
