----------------------------- MODULE NgForkProofs -----------------------------
(***************************************************************************)
(* What a fork may and may not do to the chain, for every set of           *)
(* generators, every weight and every depth.                               *)
(*                                                                         *)
(* First, an extension that is declined.  RestoreApplicable speaks of the  *)
(* next block to give back only; ForkInv says of the whole list of dropped *)
(* blocks that each stands on the one before it, where the chain stands    *)
(* between the two, and that the common block is never out of reach of the *)
(* rollback that undoes the extension.                                     *)
(*                                                                         *)
(* Second, a generator found in conflict.  ConflictedStayOut speaks of the *)
(* tip only and is not inductive: a rollback makes an older block the tip, *)
(* a fork gives dropped blocks back unvalidated, and a key block may       *)
(* reference an earlier state of the liquid block.  ConflictInv therefore  *)
(* says it of every block the node can return to, and ties the votings on  *)
(* record to those the ids commit to.                                      *)
(***************************************************************************)
EXTENDS NgChainProofs

-----------------------------------------------------------------------------
(* Declined extensions *)

\* An extension starts: on a liquid id, on the last block, or after a rollback.
LEMMA StartFork ==
  ASSUME NgInv, ForkInv, NEW ref \in knownIds, NEW b \in Children(ref, MaxParts), StartExtension(b)
  PROVE  ForkInv'
<1> DEFINE common == reference(b)
           isRollback == Len(common) < chainHeight
           dropped == IF isRollback THEN discardedBlocks(Len(common)) ELSE <<>>
<1>0. CoreInv
  BY DEF NgInv
<1>1. containsBlock(common) /\ MaxExtension > 0
  BY DEF StartExtension, isFork
<1>3. extension' = [phase |-> "apply", common |-> common, first |-> b, applied |-> 0,
                    tip |-> tipId, dropped |-> dropped]
  BY DEF StartExtension
<1> HIDE DEF common
<1>2. /\ Len(common) \in 1..chainHeight /\ Len(persisted) \in Nat
      /\ common \notin liquidIds => Len(common) \in 1..Len(persisted) /\ persisted[Len(common)].id = common
  <2>1. Len(persisted) \in Nat
    BY <1>0 DEF CoreInv, ChainOK
  <2> QED
    BY <1>0, <1>1, <2>1, KnownIds
<1>4. common \in liquidIds => Len(common) = chainHeight
  <2> SUFFICES ASSUME common \in liquidIds PROVE Len(common) = chainHeight
    OBVIOUS
  <2>1. ngState # NoNg /\ LiquidOK(persisted, ngState) /\ ChainOK(persisted)
    BY <1>0 DEF liquidIds, CoreInv
  <2> QED
    BY <1>2, <2>1, LiquidBlock DEF liquidIds, chainHeight
<1>5. CASE isRollback
  <2>1. common \notin liquidIds
    BY <1>2, <1>4, <1>5
  <2>2. removeAfter(common)
    BY <1>5 DEF StartExtension, common
  <2>3. /\ Len(persisted') = Len(common) /\ persisted'[Len(common)].id = common
        /\ ngState' = NoNg /\ safeRollbackHeight' = safeRollbackHeight /\ safeRollbackHeight <= Len(common)
    BY <1>0, <2>1, <2>2, RolledBack
  <2>4. DroppedOK(common, dropped, tipId)
    <3>1. DroppedOK(persisted[Len(common)].id, discardedBlocks(Len(common)), tipId)
      BY <1>0, <1>2, <2>1, DiscardedLinked
    <3> QED
      BY <1>2, <1>5, <2>1, <3>1
  <2> HIDE DEF dropped
  <2>5. ApplyOK(extension)'
    BY <1>1, <1>2, <1>3, <2>3, <2>4, NgChainAssumption DEF ApplyOK, Stands, DroppedOK, common
  <2> QED
    BY <1>3, <2>3, <2>5 DEF ForkInv
<1>6. CASE ~isRollback
  <2>1. dropped = <<>>
    BY <1>6
  <2>2. UNCHANGED <<persisted, safeRollbackHeight, ngState>>
    BY <1>6 DEF StartExtension, common
  <2>3. tipId' = tipId /\ liquidIds' = liquidIds
    BY <2>2 DEF tipId, bestLiquidBlockId, liquidIds
  <2>4. DroppedOK(common, dropped, tipId)
    BY <2>1 DEF DroppedOK
  <2>5. common \notin liquidIds => ngState = NoNg /\ Stands(common, 0)
    <3> SUFFICES ASSUME common \notin liquidIds PROVE ngState = NoNg /\ Stands(common, 0)
      OBVIOUS
    <3>1. chainHeight = Len(persisted) + (IF ngState = NoNg THEN 0 ELSE 1)
      BY DEF chainHeight
    <3>2. ngState = NoNg /\ Len(common) = Len(persisted)
      BY <1>2, <1>6, <3>1
    <3> QED
      BY <1>2, <3>2 DEF Stands
  <2> HIDE DEF dropped, isRollback
  <2>6. ApplyOK(extension)'
    <3>1. Stands(common, 0)' = Stands(common, 0)
      BY <2>2 DEF Stands, common
    <3> QED
      BY <1>1, <1>3, <2>1, <2>2, <2>3, <2>4, <2>5, <3>1, NgChainAssumption DEF ApplyOK, DroppedOK, common, Stands
  <2> QED
    BY <1>3, <2>2, <2>6 DEF ForkInv
<1> QED
  BY <1>5, <1>6

\* A block of the extension is applied.
LEMMA ApplyFork ==
  ASSUME NgInv, ForkInv, extension.phase = "apply", NEW b \in nextExtensionBlocks, ApplyExtensionBlock(b)
  PROVE  ForkInv'
<1> DEFINE c == Len(extension.common)
<1>0. CoreInv /\ extension # NoExtension /\ ExtensionOK(extension) /\ ApplyOK(extension)
  BY DEF NgInv, NoExtension, ForkInv
<1>1. /\ Above1(b)
      /\ extension.applied = 0 => b = extension.first
      /\ extension.applied # 0 => reference(b) = ngState.base /\ extension.applied < MaxExtension
  BY NextExtensionBlock
<1>2. PICK gs : processBlock(b, gs)
  BY DEF ApplyExtensionBlock
<1>3. safeRollbackHeight' <= Len(persisted')
  BY <1>0, <1>2, SafeBelow DEF ForkInv
<1>4. /\ Len(persisted) \in Nat /\ safeRollbackHeight \in Nat /\ safeRollbackHeight <= Len(persisted)
      /\ extension.applied \in Nat /\ MaxExtension \in Nat /\ MaxRollbackDepth \in Nat
      /\ MaxRollbackDepth >= MaxExtension /\ MaxExtension > 0
  BY <1>0, NgChainAssumption DEF CoreInv, ChainOK, ExtensionOK, ForkInv, ApplyOK
<1>5. /\ extension'.phase = "apply" /\ extension'.applied = extension.applied + 1
      /\ extension'.common = extension.common /\ extension'.first = extension.first
      /\ extension'.dropped = extension.dropped /\ extension'.tip = extension.tip
  BY <1>0 DEF ApplyExtensionBlock, ExtensionOK
<1>6. c \in Nat /\ c >= 1
  <2>1. extension.first \in BlockId /\ Len(extension.first) > 1 /\ reference(extension.first) = extension.common
    BY <1>0 DEF ExtensionOK, Above1, ApplyOK
  <2>2. extension.first # <<>>
    BY <2>1, EmptySeq
  <2> QED
    BY <2>1, <2>2, ReferenceLen
<1> DEFINE Grown == /\ ngState' # NoNg /\ ngState'.microSnapshots = <<>>
                    /\ Len(persisted') = c + extension.applied /\ persisted'[c].id = extension.common
                    /\ safeRollbackHeight' <= c
<1>7. extension.applied + 1 <= MaxExtension /\ Grown
  <2>1. CASE extension.applied = 0 /\ extension.common \in liquidIds
    <3>1. reference(b) = extension.common
      BY <1>0, <1>1, <2>1 DEF ApplyOK
    <3>2. /\ ngState' # NoNg /\ ngState'.microSnapshots = <<>>
          /\ c = Len(persisted) + 1 /\ Len(persisted') = Len(persisted) + 1
          /\ persisted'[Len(persisted) + 1].id = extension.common
          /\ safeRollbackHeight' = MaxOf(safeRollbackHeight, Len(persisted) + 1 - MaxRollbackDepth)
      BY <1>0, <1>1, <1>2, <2>1, <3>1, OnLiquid
    <3>3. safeRollbackHeight' <= c
      BY <1>4, <3>2 DEF MaxOf
    <3> QED
      BY <1>4, <2>1, <3>2, <3>3
  <2>2. CASE extension.applied = 0 /\ ngState = NoNg /\ Stands(extension.common, 0)
    <3>1. ngState' # NoNg /\ ngState'.microSnapshots = <<>> /\ UNCHANGED <<persisted, safeRollbackHeight>>
      BY <1>0, <1>1, <1>2, <2>2, OnPersisted
    <3> QED
      BY <1>4, <1>6, <2>2, <3>1 DEF Stands
  <2>3. CASE /\ extension.applied > 0 /\ ngState # NoNg /\ ngState.microSnapshots = <<>>
             /\ Stands(extension.common, extension.applied - 1) /\ safeRollbackHeight <= Len(extension.common)
    <3>1. reference(b) \in liquidIds /\ extension.applied < MaxExtension
      BY <1>1, <1>4, <2>3 DEF liquidIds
    <3>2. /\ ngState' # NoNg /\ ngState'.microSnapshots = <<>>
          /\ Len(persisted') = Len(persisted) + 1
          /\ \A i \in 1..Len(persisted) : persisted'[i] = persisted[i]
          /\ safeRollbackHeight' = MaxOf(safeRollbackHeight, Len(persisted) + 1 - MaxRollbackDepth)
      BY <1>0, <1>1, <1>2, <3>1, OnLiquid
    <3>3. Len(persisted) = c + extension.applied - 1 /\ persisted[c].id = extension.common
      BY <1>4, <1>6, <2>3 DEF Stands
    <3>4. c \in 1..Len(persisted)
      BY <1>4, <1>6, <2>3, <3>3
    <3>5. safeRollbackHeight' <= c
      BY <1>4, <1>6, <2>3, <3>1, <3>2, <3>3 DEF MaxOf
    <3>6. extension.applied + 1 <= MaxExtension
      BY <1>4, <3>1
    <3>7. Len(persisted') = c + extension.applied
      BY <1>4, <1>6, <3>2, <3>3
    <3> QED
      BY <3>2, <3>3, <3>4, <3>5, <3>6, <3>7
  <2> QED
    BY <1>0, <2>1, <2>2, <2>3 DEF ApplyOK
<1> HIDE DEF c
<1>9. ApplyOK(extension)'
  <2>1. extension.applied' - 1 = extension.applied
    BY <1>4, <1>5
  <2>2. DroppedOK(extension.common, extension.dropped, extension.tip)
    BY <1>0 DEF ApplyOK
  <2>3. Stands(extension.common, extension.applied - 1)'
    BY <1>5, <1>7, <2>1 DEF Stands, c
  <2>4. extension.applied + 1 > 0
    BY <1>4
  <2> QED
    BY <1>0, <1>4, <1>5, <1>7, <2>2, <2>3, <2>4 DEF ApplyOK, DroppedOK, c
<1> QED
  BY <1>3, <1>5, <1>9 DEF ForkInv

\* What an extension that ends without success leaves of the tip
TipKept ==
  extension' = NoExtension =>
    \/ tipId' = extension.tip
    \/ extension.dropped = <<>> /\ tipId' = extension.common

\* Restoring starts over with fewer blocks, or ends.
LEMMA RestoringFields ==
  ASSUME extension # NoExtension, ExtensionOK(extension), NEW dropped
  PROVE  /\ dropped = <<>> => Restoring(dropped) = NoExtension /\ Restoring(dropped).phase = "none"
         /\ dropped # <<>> => /\ Restoring(dropped).phase = "restore" /\ Restoring(dropped) # NoExtension
                              /\ Restoring(dropped).dropped = dropped
                              /\ Restoring(dropped).tip = extension.tip
<1>1. dropped = <<>> => Restoring(dropped) = NoExtension /\ Restoring(dropped).phase = "none"
  BY DEF Restoring, NoExtension
<1>2. ASSUME dropped # <<>>
      PROVE  /\ Restoring(dropped).phase = "restore" /\ Restoring(dropped).dropped = dropped
             /\ Restoring(dropped).tip = extension.tip
  BY <1>2 DEF Restoring, ExtensionOK
<1>3. NoExtension.phase = "none"
  BY DEF NoExtension
<1> QED
  BY <1>1, <1>2, <1>3

\* A block of the fork is refused: the fork is removed, or there is nothing to remove.
LEMMA DeclineFork ==
  ASSUME NgInv, ForkInv, DeclineExtensionBlock
  PROVE  ForkInv' /\ TipKept
<1> DEFINE common == extension.common
           dropped == extension.dropped
<1>0. CoreInv /\ extension # NoExtension /\ ExtensionOK(extension) /\ ApplyOK(extension)
  BY DEF DeclineExtensionBlock, NgInv, NoExtension, ForkInv
<1>1. removeAfter(common) /\ extension' = Restoring(dropped)
  BY DEF DeclineExtensionBlock
<1>2. CASE common \in liquidIds
  <2>1. ngState # NoNg /\ Len(common) = Len(persisted) + 1 /\ Len(persisted) \in Nat
    <3>1. ngState # NoNg /\ LiquidOK(persisted, ngState) /\ ChainOK(persisted)
      BY <1>0, <1>2 DEF liquidIds, CoreInv
    <3>2. Len(persisted) \in Nat
      BY <3>1 DEF ChainOK
    <3>3. common \in {ngState.base} \cup {m.id : m \in Range(ngState.microSnapshots)}
      BY <1>2, <3>1 DEF liquidIds
    <3> HIDE DEF common
    <3> QED
      BY <3>1, <3>2, <3>3, LiquidBlock
  <2>2. extension.tip = tipId /\ dropped = <<>>
    <3>1. ~Stands(common, 0)
      BY <2>1 DEF Stands
    <3>2. extension.applied > 0 => ~Stands(common, extension.applied - 1)
      BY <1>0, <2>1 DEF Stands, ExtensionOK
    <3> QED
      BY <1>0, <3>1, <3>2 DEF ApplyOK
  <2>3. UNCHANGED <<persisted, safeRollbackHeight, ngState>>
    BY <1>1, <1>2 DEF removeAfter
  <2>4. tipId' = tipId
    BY <2>3 DEF tipId, bestLiquidBlockId
  <2>5. extension' = NoExtension /\ extension'.phase = "none"
    BY <1>0, <1>1, <2>2, RestoringFields
  <2> QED
    BY <2>2, <2>3, <2>4, <2>5 DEF ForkInv, TipKept
<1>3. CASE common \notin liquidIds
  <2>1. /\ Len(persisted') = Len(common) /\ ngState' = NoNg /\ tipId' = common
        /\ safeRollbackHeight' = safeRollbackHeight /\ safeRollbackHeight <= Len(common)
    BY <1>0, <1>1, <1>3, RolledBack
  <2>2. DroppedOK(common, dropped, extension.tip)
    BY <1>0 DEF ApplyOK
  <2>3. CASE dropped = <<>>
    <3>1. extension'.phase = "none"
      BY <1>0, <1>1, <2>3, RestoringFields
    <3> QED
      BY <2>1, <2>3, <3>1 DEF ForkInv, TipKept
  <2>4. CASE dropped # <<>>
    <3>1. /\ extension'.phase = "restore" /\ extension' # NoExtension
          /\ extension'.dropped = dropped /\ extension'.tip = extension.tip
      BY <1>0, <1>1, <2>4, RestoringFields
    <3>2. RestoreOK(extension)'
      BY <2>1, <2>2, <3>1 DEF RestoreOK, DroppedOK
    <3> QED
      BY <2>1, <3>1, <3>2 DEF ForkInv, TipKept
  <2> QED
    BY <2>3, <2>4
<1> QED
  BY <1>2, <1>3

\* A dropped block is put back on the block it stood on.
LEMMA RestoreFork ==
  ASSUME NgInv, ForkInv, RestoreDroppedBlock
  PROVE  ForkInv' /\ TipKept
<1> DEFINE dropped == extension.dropped
           b == Head(dropped)
           rest == Tail(dropped)
<1>0. CoreInv /\ extension # NoExtension /\ ExtensionOK(extension) /\ RestoreOK(extension) /\ extension.phase = "restore"
  BY DEF RestoreDroppedBlock, NgInv, NoExtension, ForkInv
<1>1. dropped \in Seq(BlockId) /\ dropped # <<>>
  BY <1>0 DEF ExtensionOK
<1>2. /\ Len(dropped) \in Nat \ {0} /\ b = dropped[1]
      /\ rest \in Seq(BlockId) /\ Len(rest) = Len(dropped) - 1
      /\ \A i \in 1..Len(rest) : rest[i] = dropped[i + 1]
  BY <1>1, HeadTailProperties, EmptySeq
<1>3. processBlock(b, {}) /\ extension' = Restoring(rest)
  BY DEF RestoreDroppedBlock
<1> HIDE DEF dropped, b, rest
<1>4. DroppedOK(tipId, dropped, extension.tip) /\ (ngState # NoNg => ngState.microSnapshots = <<>>)
  BY <1>0 DEF RestoreOK, dropped
<1>5. Above1(b) /\ reference(b) = tipId
  BY <1>0, <1>2, <1>4 DEF ExtensionOK, DroppedOK, dropped
<1>6. ngState' # NoNg /\ ngState'.base = b /\ ngState'.microSnapshots = <<>>
  <2>1. CASE ngState = NoNg
    BY <1>0, <1>3, <1>5, <2>1, OnPersisted
  <2>2. CASE ngState # NoNg
    <3>1. reference(b) \in liquidIds
      BY <1>0, <1>5, <2>2, TipKnown
    <3> QED
      BY <1>0, <1>3, <1>5, <3>1, OnLiquid
  <2> QED
    BY <2>1, <2>2
<1>7. tipId' = b
  BY <1>6 DEF tipId, bestLiquidBlockId
<1>8. safeRollbackHeight' <= Len(persisted')
  BY <1>0, <1>3, SafeBelow DEF ForkInv
<1>9. CASE rest = <<>>
  <2>1. Len(dropped) = 1
    BY <1>2, <1>9
  <2>2. b = extension.tip
    BY <1>1, <1>2, <1>4, <2>1 DEF DroppedOK
  <2>3. extension'.phase = "none"
    BY <1>0, <1>3, <1>9, RestoringFields
  <2> QED
    BY <1>7, <1>8, <2>2, <2>3 DEF ForkInv, TipKept
<1>10. CASE rest # <<>>
  <2>1. Len(rest) \in Nat \ {0}
    BY <1>2, <1>10, EmptySeq
  <2>2. \A i \in 1..Len(rest) : reference(rest[i]) = IF i = 1 THEN b ELSE rest[i - 1]
    <3> SUFFICES ASSUME NEW i \in 1..Len(rest)
                 PROVE  reference(rest[i]) = IF i = 1 THEN b ELSE rest[i - 1]
      OBVIOUS
    <3>1. i + 1 \in 1..Len(dropped) /\ i + 1 # 1 /\ i + 1 - 1 = i
      BY <1>2
    <3>2. reference(dropped[i + 1]) = dropped[i]
      BY <1>4, <3>1 DEF DroppedOK
    <3>3. i # 1 => i - 1 \in 1..Len(rest) /\ i - 1 + 1 = i
      BY <2>1
    <3>4. i # 1 => rest[i - 1] = dropped[i]
      BY <1>2, <3>3
    <3>5. rest[i] = dropped[i + 1]
      BY <1>2
    <3> QED
      BY <1>2, <3>2, <3>4, <3>5
  <2>3. rest[Len(rest)] = extension.tip
    <3>1. Len(rest) \in 1..Len(rest) /\ Len(rest) + 1 = Len(dropped)
      BY <1>2, <2>1
    <3>2. rest[Len(rest)] = dropped[Len(dropped)]
      BY <1>2, <3>1
    <3> QED
      BY <1>1, <1>4, <3>2 DEF DroppedOK
  <2>4. DroppedOK(b, rest, extension.tip)
    BY <2>2, <2>3 DEF DroppedOK
  <2>5. /\ extension'.phase = "restore" /\ extension' # NoExtension
        /\ extension'.dropped = rest /\ extension'.tip = extension.tip
    BY <1>0, <1>3, <1>10, RestoringFields
  <2>6. RestoreOK(extension)'
    BY <1>6, <1>7, <2>4, <2>5 DEF RestoreOK, DroppedOK
  <2> QED
    BY <1>8, <2>5, <2>6 DEF ForkInv, TipKept
<1> QED
  BY <1>9, <1>10

\* The inductive invariant holds when the node starts for the first time.
LEMMA InitForkInv == Init => ForkInv
BY EmptySeq DEF Init, ForkInv, NoExtension

\* Every handler and every crash keeps it.
LEMMA NextForkInv ==
  ASSUME NgInv, ForkInv, [Next]_vars
  PROVE  ForkInv'
<1>0. CoreInv /\ safeRollbackHeight <= Len(persisted)
  BY DEF NgInv, ForkInv
<1>1. ASSUME extension' = NoExtension, safeRollbackHeight' <= Len(persisted') PROVE ForkInv'
  BY <1>1 DEF ForkInv, NoExtension
<1>2. ASSUME NEW b, AppendKeyBlock(b) PROVE ForkInv'
  <2>1. safeRollbackHeight' <= Len(persisted')
    BY <1>0, <1>2, SafeBelow DEF AppendKeyBlock
  <2> QED
    BY <1>1, <1>2, <2>1 DEF AppendKeyBlock
<1>3. ASSUME NEW v, AppendMicroBlock(v) PROVE ForkInv'
  BY <1>0, <1>1, <1>3 DEF AppendMicroBlock
<1>4. CASE FinishExtension \/ Crash
  BY <1>0, <1>1, <1>4 DEF FinishExtension, Crash
<1>5. ASSUME NEW id \in persistedIds, ForcedRollback(id) PROVE ForkInv'
  <2>1. /\ Len(persisted') = Len(id) /\ safeRollbackHeight' = safeRollbackHeight /\ safeRollbackHeight <= Len(id)
    BY <1>0, <1>5, RolledBack DEF ForcedRollback
  <2> QED
    BY <1>1, <1>5, <2>1 DEF ForcedRollback
<1>6. ASSUME NEW b, NEW h, CrashInRollback(b, h) PROVE ForkInv'
  <2>1. /\ reference(b) \in persistedIds /\ Len(reference(b)) >= safeRollbackHeight
        /\ h \in (Len(reference(b)) + 1)..(Len(persisted) - 1)
        /\ doRollback(h) /\ extension' = NoExtension
    BY <1>6 DEF CrashInRollback, canRemoveAfter, isFork
  <2>2. Len(reference(b)) \in Nat /\ Len(persisted) \in Nat /\ persisted \in Seq(Block) /\ safeRollbackHeight \in Nat
    BY <1>0, <2>1, KnownIds DEF containsBlock, CoreInv, ChainOK
  <2>3. h \in 1..Len(persisted) /\ safeRollbackHeight <= h
    BY <2>1, <2>2
  <2>4. persisted' = SubSeq(persisted, 1, h) /\ safeRollbackHeight' = safeRollbackHeight
    BY <2>1 DEF doRollback
  <2>5. Len(persisted') = h
    BY <2>2, <2>3, <2>4
  <2> QED
    BY <1>1, <2>1, <2>3, <2>4, <2>5
<1>7. CASE UNCHANGED vars
  <2>1. tipId' = tipId /\ liquidIds' = liquidIds
    BY <1>7 DEF vars, tipId, bestLiquidBlockId, liquidIds
  <2> QED
    BY <1>7, <2>1 DEF vars, ForkInv, ApplyOK, RestoreOK, DroppedOK, Stands
<1> QED
  BY <1>2, <1>3, <1>4, <1>5, <1>6, <1>7, StartFork, ApplyFork, DeclineFork, RestoreFork DEF Next

\* The extension's invariant on every behaviour of the node
LEMMA SpecForkInv == Spec => [](NgInv /\ ForkInv)
<1>1. Init => NgInv /\ ForkInv
  BY InitInv, InitForkInv
<1>2. NgInv /\ ForkInv /\ [Next]_vars => (NgInv /\ ForkInv)'
  BY NextInv, NextForkInv
<1> QED
  BY <1>1, <1>2, PTL DEF Spec

\* ExtensionAppender may call explicitGet when it undoes a fork: the common block is
\* never below safeRollbackHeight, however many blocks of the fork were persisted, and
\* each dropped block references the block that is the tip when its turn comes.
THEOREM SpecRestoreApplicable == Spec => []RestoreApplicable
<1>1. NgInv /\ ForkInv => RestoreApplicable
  <2> SUFFICES ASSUME NgInv, ForkInv PROVE RestoreApplicable
    OBVIOUS
  <2>1. ASSUME extension.phase = "apply" PROVE canRemoveAfter(extension.common)
    <3> DEFINE common == extension.common
    <3>0. ApplyOK(extension) /\ ExtensionOK(extension) /\ CoreInv
      BY <2>1 DEF NgInv, ForkInv, NoExtension
    <3>1. CASE common \in liquidIds
      BY <3>1 DEF canRemoveAfter
    <3>2. CASE common \notin liquidIds
      <4>1. PICK n \in Nat : Stands(common, n)
        BY <3>0, <3>2 DEF ApplyOK, ExtensionOK
      <4>2. safeRollbackHeight <= Len(common)
        BY <3>0, <3>2 DEF ApplyOK, Stands, ForkInv, ExtensionOK
      <4>3. Len(common) \in 1..Len(persisted)
        <5>1. extension.first \in BlockId /\ Len(extension.first) > 1 /\ reference(extension.first) = common
          BY <3>0 DEF ExtensionOK, Above1, ApplyOK
        <5>2. extension.first # <<>>
          BY <5>1, EmptySeq
        <5>3. Len(common) \in Nat /\ Len(common) >= 1
          BY <5>1, <5>2, ReferenceLen
        <5> QED
          BY <4>1, <5>3 DEF Stands
      <4>4. common \in persistedIds
        BY <3>0, <4>1, <4>3, LenProperties DEF Stands, persistedIds, Range, CoreInv, ChainOK
      <4>5. Len(common) \in Nat /\ safeRollbackHeight \in Nat
        BY <3>0, <4>3 DEF CoreInv
      <4> QED
        BY <4>2, <4>4, <4>5 DEF canRemoveAfter
    <3> QED
      BY <3>1, <3>2
  <2>2. ASSUME extension.phase = "restore"
        PROVE  reference(Head(extension.dropped)) = tipId /\ (ngState # NoNg => tipId = ngState.base)
    <3>0. RestoreOK(extension) /\ ExtensionOK(extension)
      BY <2>2 DEF NgInv, ForkInv, NoExtension
    <3>1. extension.dropped \in Seq(BlockId) /\ extension.dropped # <<>>
      BY <2>2, <3>0 DEF ExtensionOK
    <3>2. 1 \in 1..Len(extension.dropped) /\ Head(extension.dropped) = extension.dropped[1]
      BY <3>1, EmptySeq
    <3> QED
      BY <3>0, <3>2, TipIsBase DEF RestoreOK, DroppedOK
  <2> QED
    BY <2>1, <2>2 DEF RestoreApplicable
<1> QED
  BY <1>1, SpecForkInv, PTL

\* ExtensionAppender gives the node its tip back when it declines an extension, through
\* any number of dropped blocks; only a fork inside the liquid block may leave it at the
\* fork point.
THEOREM SpecDeclinedExtensionKeepsTip == Spec => DeclinedExtensionKeepsTip
<1>1. NgInv /\ ForkInv /\ [Next]_vars =>
        [(DeclineExtensionBlock \/ RestoreDroppedBlock) /\ extension' = NoExtension =>
           \/ tipId' = extension.tip
           \/ extension.dropped = <<>> /\ tipId' = extension.common]_vars
  BY DeclineFork, RestoreFork DEF TipKept
<1> QED
  BY <1>1, SpecForkInv, PTL DEF Spec, DeclinedExtensionKeepsTip

-----------------------------------------------------------------------------
(* Generators in conflict *)

SlotClean(slot, out) ==
  slot.generator \notin out /\ slot.voting.valid \cap out = {} /\ slot.voting.conflict \cap out = {}

\* No slot of the chain up to id involves a generator an earlier slot reported.
Clean(id) == \A i, j \in 1..Len(id) : i < j => SlotClean(id[j], id[i].voting.conflict)

ChainClean(chain) ==
  \A h \in 1..Len(chain) :
    /\ Clean(chain[h].id)
    /\ \A i \in 1..h : chain[h].id[i].voting = chain[i].voting

LiquidClean(chain, ng) ==
  LET acc == ng.finalizationState.accFinalizationVoting
  IN  /\ Clean(ng.base)
      /\ headerVoting(ng.base).conflict \subseteq acc.conflict
      /\ \A i \in 1..Len(ng.microSnapshots) :
           /\ Clean(ng.microSnapshots[i].id)
           /\ ng.microSnapshots[i].voting.conflict \subseteq acc.conflict
      /\ headerVoting(bestLiquidBlockId(ng)) = acc
      /\ ng.finalizationState.generatorSet \cap conflictGenerators(chain) = {}

CleanCore ==
  /\ ChainClean(persisted)
  /\ ngState # NoNg => LiquidClean(persisted, ngState)

ConflictInv ==
  /\ CleanCore
  /\ extension # NoExtension => \A i \in 1..Len(extension.dropped) : Clean(extension.dropped[i])

-----------------------------------------------------------------------------
(* Ids *)

\* The reference of a block has the block's slots below the last one.
LEMMA ReferenceSlots ==
  ASSUME NEW b \in BlockId, b # <<>>
  PROVE  \A i \in 1..(Len(b) - 1) : reference(b)[i] = b[i]
<1> DEFINE n == Len(b) - 1
<1>1. Len(b) \in Nat \ {0}
  BY ReferenceLen
<1>2. n \in Int /\ \A i \in 1..n : b[i] \in Slot
  BY <1>1, ElementOfSeq DEF BlockId
<1> HIDE DEF n
<1>3. \A i \in 1..(n - 1 + 1) : SubSeq(b, 1, n)[i] = b[1 + i - 1]
  BY <1>2, SubSeqProperties
<1>4. n - 1 + 1 = n /\ \A i \in 1..n : 1 + i - 1 = i
  BY <1>2
<1>5. reference(b) = SubSeq(b, 1, n)
  BY DEF reference, n
<1>6. \A i \in 1..n : reference(b)[i] = b[i]
  BY <1>3, <1>4, <1>5, Zenon
<1> QED
  BY <1>6 DEF n

\* What holds of a block's chain holds of its parent's.
LEMMA CleanReference ==
  ASSUME NEW b \in BlockId, b # <<>>, Clean(b)
  PROVE  Clean(reference(b))
<1>1. Len(b) \in Nat \ {0} /\ Len(reference(b)) = Len(b) - 1
  BY ReferenceLen
<1>2. \A i \in 1..Len(reference(b)) : i \in 1..Len(b) /\ reference(b)[i] = b[i]
  BY <1>1, ReferenceSlots
<1> QED
  BY <1>2 DEF Clean

\* A block is clean when its parent is and its own slot involves nobody reported before.
LEMMA CleanChild ==
  ASSUME NEW b \in BlockId, b # <<>>, Clean(reference(b)),
         \A i \in 1..(Len(b) - 1) : SlotClean(slotOf(b), b[i].voting.conflict)
  PROVE  Clean(b)
<1>1. Len(b) \in Nat \ {0} /\ Len(reference(b)) = Len(b) - 1
  BY ReferenceLen
<1> SUFFICES ASSUME NEW i \in 1..Len(b), NEW j \in 1..Len(b), i < j
             PROVE  SlotClean(b[j], b[i].voting.conflict)
  BY DEF Clean
<1>2. i \in 1..(Len(b) - 1)
  BY <1>1
<1>3. CASE j = Len(b)
  BY <1>2, <1>3 DEF slotOf
<1>4. CASE j # Len(b)
  <2>1. j \in 1..(Len(b) - 1)
    <3>1. \A n \in Nat \ {0} : \A k \in 1..n : k # n => k \in 1..(n - 1)
      OBVIOUS
    <3> QED
      BY <1>1, <1>4, <3>1, Zenon
  <2>2. reference(b)[i] = b[i] /\ reference(b)[j] = b[j]
    BY <1>2, <2>1, ReferenceSlots
  <2> QED
    BY <1>1, <1>2, <2>1, <2>2 DEF Clean
<1> QED
  BY <1>3, <1>4

-----------------------------------------------------------------------------
(* Persisted chains *)

\* conflictGenerators has the conflicts of every block of the chain, and a block
\* put on top adds its own.
LEMMA ConflictsOnRecord ==
  ASSUME NEW chain, ChainOK(chain)
  PROVE  /\ \A h \in 1..Len(chain) : chain[h].voting.conflict \subseteq conflictGenerators(chain)
         /\ \A block : NextOK(chain, block) =>
              conflictGenerators(Append(chain, block)) \subseteq conflictGenerators(chain) \cup block.voting.conflict
<1>1. chain \in Seq(Block) /\ DOMAIN chain = 1..Len(chain) /\ Len(chain) \in Nat
  BY LenProperties DEF ChainOK
<1>2. \A h \in 1..Len(chain) : chain[h] \in Range(chain)
  BY <1>1 DEF Range
<1>3. ASSUME NEW block, NextOK(chain, block)
      PROVE  conflictGenerators(Append(chain, block)) \subseteq conflictGenerators(chain) \cup block.voting.conflict
  <2> DEFINE new == Append(chain, block)
  <2>1. /\ new \in Seq(Block) /\ Len(new) = Len(chain) + 1
        /\ \A i \in 1..Len(chain) : new[i] = chain[i]
        /\ new[Len(chain) + 1] = block
    BY <1>1, <1>3, AppendProperties DEF NextOK
  <2> HIDE DEF new
  <2>2. DOMAIN new = 1..Len(new)
    BY <2>1, LenProperties
  <2>3. ASSUME NEW x \in Range(new) PROVE x \in Range(chain) \/ x = block
    <3>1. PICK i \in 1..Len(new) : x = new[i]
      BY <2>2 DEF Range
    <3> QED
      BY <1>1, <1>2, <2>1, <3>1
  <2> QED
    BY <2>3 DEF conflictGenerators, new
<1> QED
  BY <1>2, <1>3 DEF conflictGenerators

\* Every slot below a block on the chain is the one of a persisted block, with its voting.
LEMMA SlotsOnRecord ==
  ASSUME NEW chain, ChainOK(chain), ChainClean(chain),
         NEW b \in BlockId, b # <<>>, Len(b) > 1,
         NEW h \in 1..Len(chain), reference(b) = chain[h].id
  PROVE  /\ Len(b) = h + 1
         /\ Clean(reference(b))
         /\ \A i \in 1..h : b[i].voting = chain[i].voting
<1>1. Len(b) \in Nat /\ Len(reference(b)) = Len(b) - 1 /\ h \in Nat
  BY ReferenceLen
<1>2. Len(reference(b)) = h /\ Clean(reference(b)) /\ \A i \in 1..h : reference(b)[i].voting = chain[i].voting
  BY DEF ChainOK, ChainClean
<1>3. Len(b) = h + 1 /\ Len(b) - 1 = h
  BY <1>1, <1>2
<1>4. \A i \in 1..h : reference(b)[i] = b[i]
  BY <1>3, ReferenceSlots
<1> QED
  BY <1>2, <1>3, <1>4

\* Persisting a clean block that fits keeps the chain clean.
LEMMA AppendClean ==
  ASSUME NEW chain, ChainOK(chain), ChainClean(chain), NEW block, NextOK(chain, block), Clean(block.id)
  PROVE  ChainClean(Append(chain, block))
<1> DEFINE new == Append(chain, block)
           n == Len(chain)
<1>1. /\ n \in Nat /\ (chain # <<>> => n > 0) /\ (chain = <<>> => n = 0)
  BY FinalRangeNat
<1>2. Len(new) = n + 1 /\ (\A i \in 1..n : new[i] = chain[i]) /\ new[n + 1] = block
  BY AppendProperties DEF ChainOK, NextOK
<1> HIDE DEF new
<1>3. /\ block.id \in BlockId /\ Len(block.id) = n + 1
      /\ block.voting = headerVoting(block.id)
  BY DEF NextOK, Block
<1>4. block.id[n + 1].voting = block.voting
  BY <1>3 DEF headerVoting, slotOf
<1>5. \A i \in 1..n : block.id[i].voting = chain[i].voting
  <2>1. CASE n = 0
    BY <2>1
  <2>2. CASE n > 0
    <3>1. reference(block.id) = chain[n].id /\ block.id # <<>> /\ n \in 1..n
      BY <1>1, <1>3, <2>2, EmptySeq DEF NextOK
    <3> QED
      BY <1>1, <1>3, <2>2, <3>1, SlotsOnRecord
  <2> QED
    BY <1>1, <2>1, <2>2
<1>6. ASSUME NEW h \in 1..Len(new)
      PROVE  Clean(new[h].id) /\ \A i \in 1..h : new[h].id[i].voting = new[i].voting
  <2>1. CASE h \in 1..n
    <3>1. \A i \in 1..h : i \in 1..n
      BY <1>1, <2>1
    <3> QED
      BY <1>2, <2>1, <3>1 DEF ChainClean
  <2>2. CASE h = n + 1
    <3>1. \A i \in 1..h : i \in 1..n \/ i = n + 1
      BY <1>1, <2>2
    <3> QED
      BY <1>2, <1>4, <1>5, <2>2, <3>1
  <2> QED
    BY <1>1, <1>2, <2>1, <2>2
<1> QED
  BY <1>6 DEF ChainClean, new

\* Cutting the chain keeps it clean.
LEMMA CutClean ==
  ASSUME NEW chain, ChainOK(chain), ChainClean(chain), NEW h \in 1..Len(chain)
  PROVE  ChainClean(SubSeq(chain, 1, h))
<1> DEFINE new == SubSeq(chain, 1, h)
<1>1. Len(chain) \in Nat /\ h \in Nat \ {0} /\ h <= Len(chain)
  BY FinalRangeNat
<1>2. \A i \in 1..h : chain[i] \in Block
  BY <1>1, ElementOfSeq DEF ChainOK
<1>3. Len(new) = h /\ \A i \in 1..h : new[i] = chain[i]
  <2>1. /\ Len(new) = IF 1 <= h THEN h - 1 + 1 ELSE 0
        /\ \A i \in 1..(h - 1 + 1) : new[i] = chain[1 + i - 1]
    BY <1>1, <1>2, SubSeqProperties
  <2> QED
    BY <1>1, <2>1
<1> HIDE DEF new
<1>4. \A k \in 1..h : k \in 1..Len(chain) /\ \A i \in 1..k : i \in 1..h
  BY <1>1
<1>5. ChainClean(new)
  BY <1>3, <1>4 DEF ChainClean
<1> QED
  BY <1>5 DEF new

-----------------------------------------------------------------------------
(* Liquid blocks *)

\* What processBlock installs as the liquid block is clean when the block is and
\* the generator set leaves out who is on record.
LEMMA NewLiquidClean ==
  ASSUME NEW chain, NEW b, Clean(b), NEW gs, gs \cap conflictGenerators(chain) = {}
  PROVE  LiquidClean(chain, newNgState(chain, b, gs))
<1> DEFINE ng == newNgState(chain, b, gs)
<1>1. /\ ng.base = b /\ ng.microSnapshots = <<>>
      /\ ng.finalizationState.accFinalizationVoting = headerVoting(b)
      /\ ng.finalizationState.generatorSet = gs
  BY Zenon DEF newNgState, FinalizationInit
<1> HIDE DEF ng
<1>2. Len(ng.microSnapshots) = 0 /\ bestLiquidBlockId(ng) = b
  BY <1>1, EmptySeq DEF bestLiquidBlockId
<1>3. LiquidClean(chain, ng)
  BY <1>1, <1>2 DEF LiquidClean
<1> QED
  BY <1>3 DEF ng

\* The chain of a single block is clean.
LEMMA GenesisClean ==
  LiquidClean(<<>>, newNgState(<<>>, Genesis, {}))
<1>1. Len(Genesis) = 1
  BY DEF Genesis
<1>2. Clean(Genesis)
  BY <1>1 DEF Clean
<1> QED
  BY <1>2, NewLiquidClean, Zenon

\* Every state of the liquid block is clean, reports no more than has been
\* accumulated, and has the voting its id commits to.
LEMMA LiquidIdClean ==
  ASSUME CoreInv, CleanCore, NEW id \in liquidIds
  PROVE  /\ ngState # NoNg /\ id \in BlockId /\ id # <<>> /\ Len(id) = Len(persisted) + 1
         /\ Clean(id)
         /\ headerVoting(id).conflict \subseteq ngState.finalizationState.accFinalizationVoting.conflict
         /\ NextOK(persisted, liquidBlockOf(ngState, id))
         /\ liquidBlockOf(ngState, id).id = id
         /\ liquidBlockOf(ngState, id).voting = headerVoting(id)
<1>1. ngState # NoNg /\ LiquidOK(persisted, ngState) /\ LiquidClean(persisted, ngState) /\ ChainOK(persisted)
  BY DEF liquidIds, CoreInv, CleanCore
<1>2. id \in {ngState.base} \cup {m.id : m \in Range(ngState.microSnapshots)}
  BY <1>1 DEF liquidIds
<1>3. /\ NextOK(persisted, liquidBlockOf(ngState, id)) /\ liquidBlockOf(ngState, id).id = id
      /\ id \in BlockId /\ Len(id) = Len(persisted) + 1
  BY <1>1, <1>2, LiquidBlock
<1>4. id # <<>>
  BY <1>1, <1>3, FinalRangeNat, EmptySeq
<1>5. liquidBlockOf(ngState, id).voting = headerVoting(id)
  BY <1>3 DEF NextOK
<1>6. /\ Clean(id)
      /\ headerVoting(id).conflict \subseteq ngState.finalizationState.accFinalizationVoting.conflict
  <2>1. CASE id = ngState.base
    BY <1>1, <2>1 DEF LiquidClean
  <2>2. CASE id # ngState.base
    <3>1. PICK m \in Range(ngState.microSnapshots) : m.id = id
      BY <1>2, <2>2
    <3>2. PICK i \in 1..Len(ngState.microSnapshots) : m = ngState.microSnapshots[i]
      BY <1>1, <3>1, LenProperties DEF Range, LiquidOK, LiquidState
    <3>3. m.voting = headerVoting(id)
      BY <1>1, <3>1, <3>2 DEF LiquidOK, NextOK
    <3> QED
      BY <1>1, <3>1, <3>2, <3>3 DEF LiquidClean
  <2> QED
    BY <2>1, <2>2
<1> QED
  BY <1>1, <1>3, <1>4, <1>5, <1>6

\* Every block the node knows is clean, the tip included.
LEMMA KnownClean ==
  ASSUME CoreInv, CleanCore, NEW id, containsBlock(id)
  PROVE  Clean(id)
<1>1. CASE id \in liquidIds
  BY <1>1, LiquidIdClean
<1>2. CASE id \notin liquidIds
  <2>1. Len(id) \in 1..Len(persisted) /\ persisted[Len(id)].id = id
    BY <1>2, KnownIds
  <2> QED
    BY <2>1 DEF CleanCore, ChainClean
<1> QED
  BY <1>1, <1>2

-----------------------------------------------------------------------------
(* The handlers *)

\* A block validated against a view that has on record what its own chain
\* reports is clean, whichever block it references.
LEMMA ValidatedClean ==
  ASSUME CoreInv, CleanCore, NEW b \in BlockId, Above1(b),
         NEW conflicts, conflictGenerators(persisted) \subseteq conflicts,
         reference(b) \in liquidIds => headerVoting(reference(b)).conflict \subseteq conflicts,
         validateBlock(b, conflicts)
  PROVE  Clean(b)
<1>1. b # <<>> /\ Len(b) \in Nat \ {0} /\ Len(b) > 1 /\ Len(reference(b)) = Len(b) - 1 /\ reference(b) \in BlockId
  <2>1. b # <<>> /\ Len(b) > 1
    BY EmptySeq DEF Above1
  <2> QED
    BY <2>1, ReferenceLen
<1>2. containsBlock(reference(b))
  BY DEF validateBlock
<1>3. Clean(reference(b))
  BY <1>2, KnownClean
<1>4. SlotClean(slotOf(b), conflicts)
  <2>1. generator(b) \notin conflicts
    BY SMTT(30) DEF validateBlock, eligibleGenerators
  <2>2. headerVoting(b).valid \cap conflicts = {} /\ headerVoting(b).conflict \cap conflicts = {}
    BY SMTT(30) DEF validateBlock, eligibleGenerators, validateFinalizationVoting, validateConflicts, NoVoting
  <2> QED
    BY <2>1, <2>2 DEF SlotClean, generator, headerVoting
<1>5. ChainOK(persisted) /\ ChainClean(persisted) /\ Len(persisted) \in Nat
  BY FinalRangeNat DEF CoreInv, CleanCore
<1>6. \A h \in 1..Len(persisted) : persisted[h].voting.conflict \subseteq conflicts
  BY <1>5, ConflictsOnRecord
<1>7. ASSUME NEW i \in 1..(Len(b) - 1) PROVE b[i].voting.conflict \subseteq conflicts
  <2>1. reference(b)[i] = b[i]
    BY <1>1, ReferenceSlots
  <2>2. CASE reference(b) \in liquidIds
    <3> DEFINE block == liquidBlockOf(ngState, reference(b))
    <3>1. /\ NextOK(persisted, block) /\ block.id = reference(b) /\ Clean(block.id)
          /\ Len(reference(b)) = Len(persisted) + 1
      BY <2>2, LiquidIdClean
    <3> HIDE DEF block
    <3>2. CASE i = Len(persisted) + 1
      BY <2>1, <2>2, <3>1, <3>2 DEF headerVoting, slotOf
    <3>3. CASE i # Len(persisted) + 1
      <4>1. i \in 1..Len(persisted)
        BY <1>1, <1>5, <3>1, <3>3
      <4> DEFINE new == Append(persisted, block)
      <4>2. Len(new) = Len(persisted) + 1 /\ new[Len(persisted) + 1] = block
            /\ \A k \in 1..Len(persisted) : new[k] = persisted[k]
        BY <1>5, <3>1, AppendProperties DEF ChainOK, NextOK
      <4>3. ChainClean(new)
        BY <1>5, <3>1, AppendClean
      <4> HIDE DEF new
      <4>4. Len(persisted) + 1 \in 1..Len(new) /\ i \in 1..(Len(persisted) + 1)
        BY <1>5, <4>1, <4>2
      <4>5. block.id[i].voting = persisted[i].voting
        BY <4>1, <4>2, <4>3, <4>4 DEF ChainClean
      <4> QED
        BY <1>6, <2>1, <3>1, <4>1, <4>5
    <3> QED
      BY <3>2, <3>3
  <2>3. CASE reference(b) \notin liquidIds
    <3> DEFINE h == Len(reference(b))
    <3>1. h \in 1..Len(persisted) /\ persisted[h].id = reference(b)
      BY <1>2, <2>3, KnownIds
    <3>2. i \in 1..h
      BY <1>1
    <3>3. reference(b)[i].voting = persisted[i].voting
      BY <1>5, <3>1, <3>2 DEF ChainClean
    <3>4. i \in 1..Len(persisted)
      BY <1>5, <3>1, <3>2
    <3> QED
      BY <1>6, <2>1, <3>3, <3>4
  <2> QED
    BY <2>2, <2>3
<1>8. \A i \in 1..(Len(b) - 1) : SlotClean(slotOf(b), b[i].voting.conflict)
  BY <1>4, <1>7 DEF SlotClean
<1> QED
  BY <1>1, <1>3, <1>8, CleanChild

\* processBlock keeps the chain clean in each of its three cases.
LEMMA ProcessBlockClean ==
  ASSUME CoreInv, CleanCore, NEW b, Clean(b),
         NEW gs, gs \cap conflictGenerators(persisted) = {},
         reference(b) \in liquidIds => gs \cap headerVoting(reference(b)).conflict = {},
         processBlock(b, gs)
  PROVE  CleanCore'
<1>1. ChainOK(persisted) /\ ChainClean(persisted)
  BY SMTT(30) DEF CoreInv, CleanCore
<1>2. CASE ProcessFirst(b, gs) \/ ProcessBetter(b, gs)
  <2>1. persisted' = persisted /\ ngState' = newNgState(persisted, b, gs)
    BY <1>2 DEF ProcessFirst, ProcessBetter
  <2>2. LiquidClean(persisted, newNgState(persisted, b, gs))
    BY NewLiquidClean
  <2> QED
    BY <1>1, <2>1, <2>2 DEF CleanCore
<1>3. CASE ProcessNext(b, gs)
  <2> DEFINE block == liquidBlockOf(ngState, reference(b))
             new == Append(persisted, block)
  <2>1. reference(b) \in liquidIds /\ persisted' = new /\ ngState' = newNgState(new, b, gs)
    BY <1>3, SMTT(30) DEF ProcessNext, doAppend
  <2>2. NextOK(persisted, block) /\ Clean(block.id) /\ block.voting = headerVoting(reference(b))
    BY <2>1, LiquidIdClean
  <2> HIDE DEF block
  <2>3. ChainClean(new)
    BY <1>1, <2>2, AppendClean, SMTT(30)
  <2>4. conflictGenerators(new) \subseteq conflictGenerators(persisted) \cup block.voting.conflict
    BY <1>1, <2>2, ConflictsOnRecord
  <2> HIDE DEF new
  <2>5. gs \cap conflictGenerators(new) = {}
    BY <2>1, <2>2, <2>4
  <2>6. LiquidClean(new, newNgState(new, b, gs))
    BY <2>5, NewLiquidClean
  <2> QED
    BY <2>1, <2>3, <2>6 DEF CleanCore
<1> QED
  BY <1>2, <1>3, SMTT(30) DEF processBlock

\* doRollback keeps the chain clean.
LEMMA RollbackClean ==
  ASSUME CoreInv, CleanCore, NEW h \in 1..Len(persisted), doRollback(h), ngState' = NoNg
  PROVE  CleanCore'
BY CutClean DEF CoreInv, CleanCore, doRollback

\* So does removeAfter.
LEMMA RemoveAfterClean ==
  ASSUME CoreInv, CleanCore, NEW id, removeAfter(id)
  PROVE  CleanCore'
<1>1. CASE UNCHANGED <<persisted, finalizedHeight, safeRollbackHeight, ngState>>
  BY <1>1 DEF CleanCore
<1>2. CASE id \notin liquidIds /\ canRemoveAfter(id) /\ doRollback(Len(id)) /\ ngState' = NoNg
  <2>1. containsBlock(id)
    BY <1>2 DEF canRemoveAfter, containsBlock
  <2>2. Len(id) \in 1..Len(persisted)
    BY <1>2, <2>1, KnownIds
  <2> QED
    BY <1>2, <2>2, RollbackClean
<1> QED
  BY <1>1, <1>2 DEF removeAfter

\* A microblock that keeps the accumulated voting valid keeps the grown block clean.
LEMMA MicroBlockClean ==
  ASSUME CoreInv, CleanCore, NEW voting \in Votings, AppendMicroBlock(voting)
  PROVE  CleanCore'
<1> DEFINE ng == ngState
           fs == ng.finalizationState
           acc == fs.accFinalizationVoting
           total == combine(acc, voting)
           gs == fs.generatorSet \ total.conflict
           st == FinalizationAppend(fs, voting, gs)
           id == createTotalBlockId(tipId, total)
           block == [id |-> id, voting |-> total, finalizedHeight |-> st.finalizedHeight]
<1>1. ngState # NoNg /\ LiquidOK(persisted, ng) /\ ChainOK(persisted) /\ LiquidClean(persisted, ng)
  BY DEF AppendMicroBlock, CoreInv, CleanCore
<1>2. /\ tipId \in liquidIds /\ tipId \in BlockId /\ tipId # <<>> /\ Clean(tipId)
      /\ Len(tipId) = Len(persisted) + 1
      /\ liquidBlockOf(ngState, tipId).voting = headerVoting(tipId)
  <2>1. tipId \in liquidIds
    BY <1>1, TipKnown
  <2> QED
    BY <2>1, LiquidIdClean
<1>3. liquidBlockOf(ngState, tipId).voting = acc
  BY <1>1, <1>2 DEF LiquidClean, tipId
<1>4. fs \in FinalizationState /\ voting \in Voting /\ acc \in Voting
  BY <1>1, NgChainAssumption DEF LiquidOK, LiquidState, FinalizationState
<1>5. total \in Voting /\ acc.conflict \subseteq total.conflict
  BY <1>4 DEF combine, Voting
<1>6. st.accFinalizationVoting = total /\ st.generatorSet = gs
  BY <1>4, SMTT(30) DEF FinalizationAppend, FinalizationState
<1>7. /\ validateFinalizationVoting(total, Len(tipId), generator(tipId), fs.generatorSet,
                                    acc.conflict, conflictGenerators(persisted))
      /\ ngState' = [ngState EXCEPT !.microSnapshots = Append(@, block), !.finalizationState = st]
      /\ persisted' = persisted
  BY <1>3, <1>6, Zenon DEF AppendMicroBlock
<1> HIDE DEF total, st
<1>8. total.valid \cap conflictGenerators(persisted) = {} /\ total.conflict \cap conflictGenerators(persisted) = {}
  <2>1. fs.generatorSet \cap conflictGenerators(persisted) = {}
    BY <1>1 DEF LiquidClean
  <2> QED
    BY <1>7, <2>1 DEF validateFinalizationVoting, validateConflicts, NoVoting
<1>9. /\ id \in BlockId /\ id # <<>> /\ Len(id) = Len(tipId)
      /\ reference(id) = reference(tipId)
      /\ slotOf(id).generator = generator(tipId) /\ slotOf(id).voting = total
  <2> DEFINE slot == [slotOf(tipId) EXCEPT !.parts = @ + 1, !.voting = total]
  <2>1. Len(tipId) \in Nat \ {0} /\ reference(tipId) \in BlockId /\ Len(reference(tipId)) = Len(tipId) - 1
    BY <1>2, ReferenceLen
  <2>2. slotOf(tipId) \in Slot
    BY <1>2, <2>1, ElementOfSeq DEF slotOf, BlockId
  <2>3. slot \in Slot /\ slot.voting = total
    BY <1>5, <2>2, GrownSlot, Zenon
  <2>4. slot.generator = slotOf(tipId).generator
    BY <2>2 DEF Slot
  <2> HIDE DEF slot
  <2>5. id = Append(reference(tipId), slot)
    BY DEF createTotalBlockId, slot
  <2>6. /\ id \in BlockId /\ id # <<>> /\ Len(id) = Len(reference(tipId)) + 1
        /\ slotOf(id) = slot /\ reference(id) = reference(tipId)
    BY <2>1, <2>3, <2>5, AppendSlot
  <2> QED
    BY <2>1, <2>3, <2>4, <2>6 DEF generator
<1> HIDE DEF id
<1>10. Clean(id)
  <2>1. Clean(reference(id))
    BY <1>2, <1>9, CleanReference
  <2>2. ASSUME NEW i \in 1..(Len(id) - 1) PROVE SlotClean(slotOf(id), id[i].voting.conflict)
    <3>1. id[i] = tipId[i]
      <4>1. reference(id)[i] = id[i]
        BY <1>9, ReferenceSlots
      <4>2. reference(tipId)[i] = tipId[i]
        BY <1>2, <1>9, ReferenceSlots
      <4> QED
        BY <1>9, <4>1, <4>2
    <3>2. Len(persisted) \in Nat /\ i \in 1..Len(persisted)
      BY <1>1, <1>2, <1>9, FinalRangeNat
    <3>3. generator(tipId) \notin tipId[i].voting.conflict
      <4>1. i \in 1..Len(tipId) /\ Len(tipId) \in 1..Len(tipId) /\ i < Len(tipId)
        BY <1>2, <3>2
      <4> QED
        BY <1>2, <4>1 DEF Clean, SlotClean, generator, slotOf
    <3>4. tipId[i].voting.conflict \subseteq conflictGenerators(persisted)
      <4>1. persisted # <<>> /\ Len(persisted) \in 1..Len(persisted) /\ Len(tipId) > 1
        BY <1>1, <1>2, <3>2, FinalRangeNat, SMTT(30)
      <4>2. reference(tipId) = reference(ng.base)
        BY <1>1, <1>2, LiquidBlock DEF liquidIds
      <4>3. reference(tipId) = persisted[Len(persisted)].id
        BY <1>1, <4>1, <4>2 DEF LiquidOK
      <4>4. ChainClean(persisted)
        BY SMTT(30) DEF CleanCore
      <4>5. tipId[i].voting = persisted[i].voting
        BY <1>1, <1>2, <3>2, <4>1, <4>3, <4>4, SlotsOnRecord
      <4> QED
        BY <1>1, <3>2, <4>5, ConflictsOnRecord
    <3> QED
      BY <1>8, <1>9, <3>1, <3>3, <3>4 DEF SlotClean
  <2> QED
    BY <1>9, <2>1, <2>2, CleanChild
<1> DEFINE micros == Append(ng.microSnapshots, block)
           n == Len(ng.microSnapshots)
<1>11. /\ Len(micros) = n + 1 /\ n \in Nat /\ micros # <<>>
       /\ \A i \in 1..n : micros[i] = ng.microSnapshots[i]
       /\ micros[n + 1] = block
  <2>1. block \in Block
    <3>1. st.finalizedHeight \in Nat
      BY <1>4 DEF st, FinalizationAppend, FinalizationState
    <3> QED
      BY <1>5, <1>9, <3>1 DEF Block
  <2>2. ng.microSnapshots \in Seq(Block)
    BY <1>1 DEF LiquidOK, LiquidState
  <2> HIDE DEF block
  <2> QED
    BY <2>1, <2>2, AppendProperties, LenProperties
<1> HIDE DEF micros
<1>12. /\ ngState'.base = ng.base /\ ngState'.microSnapshots = micros /\ ngState'.finalizationState = st
  BY <1>1, <1>7 DEF LiquidOK, LiquidState, micros
<1>13. ASSUME NEW i \in 1..Len(micros)
       PROVE  Clean(micros[i].id) /\ micros[i].voting.conflict \subseteq total.conflict
  <2>1. CASE i \in 1..n
    BY <1>1, <1>5, <1>11, <2>1 DEF LiquidClean
  <2>2. CASE i = n + 1
    BY <1>10, <1>11, <2>2
  <2> QED
    BY <1>11, <2>1, <2>2, SMTT(30)
<1>14. bestLiquidBlockId(ngState') = id
  BY <1>11, <1>12 DEF bestLiquidBlockId
<1>15. headerVoting(bestLiquidBlockId(ngState')) = total
  BY <1>9, <1>14, SMTT(30) DEF headerVoting
<1>16. LiquidClean(persisted, ngState')
  BY <1>1, <1>5, <1>6, <1>12, <1>13, <1>15 DEF LiquidClean
<1> QED
  BY <1>7, <1>16 DEF CleanCore

\* The blocks removeAfter drops are clean.
LEMMA DroppedClean ==
  ASSUME CoreInv, CleanCore, NEW h \in 1..Len(persisted)
  PROVE  \A i \in 1..Len(discardedBlocks(h)) : Clean(discardedBlocks(h)[i])
<1> DEFINE A == {id \in BlockId : Clean(id)}
           old == [i \in 1..(Len(persisted) - h) |-> persisted[h + i].id]
           liquid == IF ngState = NoNg THEN <<>> ELSE <<bestLiquidBlockId(ngState)>>
<1>1. Len(persisted) \in Nat /\ h \in Nat
  BY FinalRangeNat DEF CoreInv
<1>2. old \in Seq(A)
  <2>1. ASSUME NEW i \in 1..(Len(persisted) - h) PROVE persisted[h + i].id \in A
    <3>1. h + i \in 1..Len(persisted)
      BY <1>1
    <3>2. persisted[h + i] \in Block
      BY <3>1, ElementOfSeq DEF CoreInv, ChainOK
    <3>3. Clean(persisted[h + i].id)
      BY <3>1 DEF CleanCore, ChainClean
    <3> QED
      BY <3>2, <3>3 DEF Block
  <2>2. Len(persisted) - h \in Nat
    BY <1>1
  <2>3. old \in [1..(Len(persisted) - h) -> A]
    BY <2>1
  <2> HIDE DEF A, old
  <2> QED
    BY <2>2, <2>3, SeqDef
<1>3. liquid \in Seq(A)
  <2>1. CASE ngState = NoNg
    BY <2>1, EmptySeq
  <2>2. CASE ngState # NoNg
    <3>1. tipId = bestLiquidBlockId(ngState)
      BY <2>2 DEF tipId
    <3>2. tipId \in A
      BY TipKnown, KnownIds, KnownClean
    <3> QED
      BY <2>2, <3>1, <3>2
  <2> QED
    BY <2>1, <2>2
<1> HIDE DEF A, old, liquid
<1>4. old \o liquid \in Seq(A)
  BY <1>2, <1>3, ConcatProperties
<1>5. discardedBlocks(h) \in Seq(A)
  BY <1>4 DEF discardedBlocks, old, liquid
<1>6. \A i \in 1..Len(discardedBlocks(h)) : discardedBlocks(h)[i] \in A
  BY <1>5, ElementOfSeq
<1> QED
  BY <1>6 DEF A

\* What is left to restore are dropped blocks still.
LEMMA RestoringDropped ==
  ASSUME extension # NoExtension, ExtensionOK(extension),
         NEW dropped, Restoring(dropped) # NoExtension
  PROVE  Restoring(dropped).dropped = dropped
BY DEF Restoring, ExtensionOK

-----------------------------------------------------------------------------
(* The specification *)

\* Every handler, and a crash between or inside them, keeps ConflictInv.
LEMMA NextClean == NgInv /\ ConflictInv /\ [Next]_vars => ConflictInv'
<1> SUFFICES ASSUME NgInv, ConflictInv, [Next]_vars PROVE ConflictInv'
  OBVIOUS
<1>0. CoreInv /\ CleanCore
  BY DEF NgInv, ConflictInv
<1>1. ASSUME NEW ref \in liquidIds \cup {tipId, reference(tipId)}, NEW b \in Children(ref, 1), AppendKeyBlock(b)
      PROVE  ConflictInv'
  <2> DEFINE conflicts == conflictsWith(reference(b))
             gs == generatorSetFor(b, conflicts)
  <2>1. ref \in BlockId
    <3>1. tipId \in BlockId /\ Len(tipId) \in Nat \ {0}
      BY <1>0, TipKnown, KnownIds
    <3>2. tipId # <<>>
      BY <3>1, EmptySeq
    <3>3. ref \in liquidIds => ref \in BlockId
      BY <1>0, KnownIds DEF containsBlock
    <3> QED
      BY <3>1, <3>2, <3>3, ReferenceLen
  <2>2. b \in BlockId /\ b # <<>>
    BY <2>1, ChildrenAbove1
  <2>3. validateBlock(b, conflicts) /\ processBlock(b, gs) /\ extension = NoExtension /\ extension' = extension
    BY <1>1 DEF AppendKeyBlock
  <2>4. Above1(b)
    BY <1>0, <2>2, <2>3, ValidatedAbove1 DEF validateBlock
  <2>5. /\ conflictGenerators(persisted) \subseteq conflicts
        /\ reference(b) \in liquidIds => headerVoting(reference(b)).conflict \subseteq conflicts
    BY <1>0, LiquidIdClean DEF conflictsWith
  <2>6. gs \cap conflicts = {}
    BY SMTT(30) DEF generatorSetFor, eligibleGenerators
  <2> HIDE DEF conflicts, gs
  <2>7. Clean(b)
    BY <1>0, <2>2, <2>3, <2>4, <2>5, ValidatedClean
  <2>8. CleanCore'
    <3>1. /\ gs \cap conflictGenerators(persisted) = {}
          /\ reference(b) \in liquidIds => gs \cap headerVoting(reference(b)).conflict = {}
      BY <2>5, <2>6
    <3> QED
      BY <1>0, <2>3, <2>7, <3>1, ProcessBlockClean
  <2> QED
    BY <2>3, <2>8 DEF ConflictInv
<1>2. ASSUME NEW v \in Votings, AppendMicroBlock(v)
      PROVE  ConflictInv'
  <2>1. CleanCore'
    BY <1>0, <1>2, MicroBlockClean
  <2> QED
    BY <1>2, <2>1 DEF ConflictInv, AppendMicroBlock
<1>3. ASSUME NEW ref \in knownIds, NEW b \in Children(ref, MaxParts), StartExtension(b)
      PROVE  ConflictInv'
  <2> DEFINE common == reference(b)
             isRollback == Len(common) < chainHeight
             dropped == IF isRollback THEN discardedBlocks(Len(common)) ELSE <<>>
  <2>1. containsBlock(common)
    BY <1>3 DEF StartExtension, isFork
  <2>2. CleanCore'
    <3>1. CASE isRollback
      BY <1>0, <1>3, <3>1, RemoveAfterClean DEF StartExtension
    <3>2. CASE ~isRollback
      BY <1>0, <1>3, <3>2 DEF StartExtension, CleanCore
    <3> QED
      BY <3>1, <3>2
  <2>3. \A i \in 1..Len(dropped) : Clean(dropped[i])
    <3>1. CASE isRollback
      <4>1. Len(common) \in 1..chainHeight /\ Len(persisted) \in Nat
        BY <1>0, <2>1, KnownIds, FinalRangeNat DEF CoreInv
      <4>2. Len(common) \in 1..Len(persisted)
        BY <3>1, <4>1 DEF chainHeight
      <4> QED
        BY <1>0, <3>1, <4>2, DroppedClean
    <3>2. CASE ~isRollback
      BY <3>2, EmptySeq
    <3> QED
      BY <3>1, <3>2
  <2>4. extension'.dropped = dropped
    BY <1>3 DEF StartExtension
  <2> HIDE DEF dropped
  <2> QED
    BY <2>2, <2>3, <2>4 DEF ConflictInv
<1>4. ASSUME extension.phase = "apply", NEW b \in nextExtensionBlocks, ApplyExtensionBlock(b)
      PROVE  ConflictInv'
  <2> DEFINE conflicts == conflictsWith(tipId)
             gs == generatorSetFor(b, conflicts)
  <2>1. extension # NoExtension /\ ExtensionOK(extension)
    BY <1>4 DEF NoExtension, NgInv
  <2>2. b \in BlockId /\ b # <<>>
    <3>1. CASE extension.applied = 0
      <4>1. b = extension.first
        BY <3>1 DEF nextExtensionBlocks
      <4> QED
        BY <2>1, <4>1, EmptySeq DEF ExtensionOK, Above1
    <3>2. CASE extension.applied # 0
      <4>1. b \in Children(ngState.base, MaxParts) /\ extension.applied < MaxExtension
        BY <3>2 DEF nextExtensionBlocks
      <4>2. ngState.base \in BlockId
        <5>1. CASE ngState = NoNg
          BY <5>1, EmptySeq DEF NoNg, BlockId
        <5>2. CASE ngState # NoNg
          BY <1>0, <5>2 DEF CoreInv, LiquidOK, LiquidState
        <5> QED
          BY <5>1, <5>2
      <4> QED
        BY <4>1, <4>2, ChildrenAbove1, NgChainAssumption
    <3> QED
      BY <3>1, <3>2
  <2>3. validateBlock(b, conflicts) /\ processBlock(b, gs)
    BY <1>4 DEF ApplyExtensionBlock
  <2>4. Above1(b)
    BY <1>0, <2>2, <2>3, ValidatedAbove1 DEF validateBlock
  <2>5. /\ conflictGenerators(persisted) \subseteq conflicts
        /\ reference(b) \in liquidIds => headerVoting(reference(b)).conflict \subseteq conflicts
    <3>1. conflictGenerators(persisted) \subseteq conflicts
      BY DEF conflictsWith
    <3>2. ASSUME reference(b) \in liquidIds PROVE headerVoting(reference(b)).conflict \subseteq conflicts
      <4> DEFINE acc == ngState.finalizationState.accFinalizationVoting
      <4>1. ngState # NoNg /\ headerVoting(reference(b)).conflict \subseteq acc.conflict
        BY <1>0, <3>2, LiquidIdClean
      <4>2. tipId \in liquidIds
        BY <1>0, <4>1, TipKnown
      <4>3. headerVoting(tipId) = acc
        BY <1>0, <4>1 DEF CleanCore, LiquidClean, tipId
      <4>4. liquidBlockOf(ngState, tipId).voting = acc
        BY <1>0, <4>2, <4>3, LiquidIdClean
      <4> QED
        BY <4>1, <4>2, <4>4 DEF conflictsWith
    <3> QED
      BY <3>1, <3>2
  <2>6. gs \cap conflicts = {}
    BY DEF generatorSetFor, eligibleGenerators
  <2> HIDE DEF conflicts, gs
  <2>7. Clean(b)
    BY <1>0, <2>2, <2>3, <2>4, <2>5, ValidatedClean
  <2>8. CleanCore'
    <3>1. /\ gs \cap conflictGenerators(persisted) = {}
          /\ reference(b) \in liquidIds => gs \cap headerVoting(reference(b)).conflict = {}
      BY <2>5, <2>6
    <3> QED
      BY <1>0, <2>3, <2>7, <3>1, ProcessBlockClean
  <2>9. extension'.dropped = extension.dropped
    BY <1>4, <2>1 DEF ApplyExtensionBlock, ExtensionOK
  <2> QED
    BY <2>1, <2>8, <2>9 DEF ConflictInv
<1>5. CASE FinishExtension
  BY <1>0, <1>5 DEF FinishExtension, ConflictInv, CleanCore
<1>6. CASE DeclineExtensionBlock
  <2>1. extension # NoExtension /\ ExtensionOK(extension)
    BY <1>6 DEF DeclineExtensionBlock, NoExtension, NgInv
  <2>2. CleanCore'
    BY <1>0, <1>6, RemoveAfterClean DEF DeclineExtensionBlock
  <2>3. extension' # NoExtension => extension'.dropped = extension.dropped
    BY <1>6, <2>1, RestoringDropped DEF DeclineExtensionBlock
  <2> QED
    BY <2>1, <2>2, <2>3 DEF ConflictInv
<1>7. CASE RestoreDroppedBlock
  <2>1. extension # NoExtension /\ ExtensionOK(extension) /\ extension.phase = "restore"
    BY <1>7 DEF RestoreDroppedBlock, NoExtension, NgInv
  <2>2. extension.dropped \in Seq(BlockId) /\ extension.dropped # <<>>
    BY <2>1 DEF ExtensionOK
  <2>3. Len(extension.dropped) \in Nat \ {0} /\ Head(extension.dropped) = extension.dropped[1]
    BY <2>2, EmptySeq
  <2>4. \A i \in 1..Len(extension.dropped) : Clean(extension.dropped[i])
    BY <2>1 DEF ConflictInv
  <2>5. Clean(Head(extension.dropped))
    BY <2>3, <2>4
  <2>6. CleanCore'
    BY <1>0, <1>7, <2>5, ProcessBlockClean DEF RestoreDroppedBlock
  <2> DEFINE rest == Tail(extension.dropped)
  <2>7. /\ Len(rest) = Len(extension.dropped) - 1
        /\ \A i \in 1..Len(rest) : rest[i] = extension.dropped[i + 1]
    BY <2>2, HeadTailProperties
  <2>8. extension' = Restoring(rest)
    BY <1>7 DEF RestoreDroppedBlock
  <2> HIDE DEF rest
  <2>9. \A i \in 1..Len(rest) : Clean(rest[i])
    BY <2>3, <2>4, <2>7
  <2>10. extension' # NoExtension => extension'.dropped = rest
    BY <2>1, <2>8, RestoringDropped
  <2> QED
    BY <2>6, <2>9, <2>10 DEF ConflictInv
<1>8. ASSUME NEW id \in persistedIds, ForcedRollback(id)
      PROVE  ConflictInv'
  <2>1. CleanCore'
    BY <1>0, <1>8, RemoveAfterClean DEF ForcedRollback
  <2> QED
    BY <1>8, <2>1 DEF ForcedRollback, ConflictInv
<1>9. CASE Crash
  <2>1. ngState' = NoNg \/ LiquidClean(persisted, ngState')
    BY <1>9, GenesisClean DEF Crash, restart
  <2> QED
    BY <1>0, <1>9, <2>1 DEF Crash, ConflictInv, CleanCore
<1>10. ASSUME NEW ref \in knownIds, NEW b \in Children(ref, 1), NEW h \in 1..MaxHeight, CrashInRollback(b, h)
       PROVE  ConflictInv'
  <2>1. reference(b) \notin liquidIds /\ containsBlock(reference(b))
    BY <1>10 DEF CrashInRollback, isFork
  <2>2. Len(reference(b)) \in 1..Len(persisted) /\ Len(persisted) \in Nat
    BY <1>0, <2>1, KnownIds, FinalRangeNat DEF CoreInv
  <2>3. h \in 1..Len(persisted)
    BY <1>10, <2>2 DEF CrashInRollback
  <2>4. CleanCore'
    BY <1>0, <1>10, <2>3, RollbackClean DEF CrashInRollback
  <2> QED
    BY <1>10, <2>4 DEF ConflictInv, CrashInRollback
<1>11. CASE UNCHANGED vars
  BY <1>11 DEF vars, ConflictInv, CleanCore
<1> QED
  BY <1>1, <1>2, <1>3, <1>4, <1>5, <1>6, <1>7, <1>8, <1>9, <1>10, <1>11 DEF Next

\* Whoever has been reported in conflict generates no later block of the node's
\* chain, endorses none and is reported by none, through microblocks, competing
\* key blocks, forks, restores, rollbacks and crashes.
THEOREM SpecConflictedStayOut == Spec => []ConflictedStayOut
<1>1. Init => ConflictInv
  <2> SUFFICES ASSUME Init PROVE ConflictInv
    OBVIOUS
  <2>1. ChainClean(<<>>)
    BY EmptySeq DEF ChainClean
  <2> QED
    BY <2>1, GenesisClean DEF Init, ConflictInv, CleanCore
<1>2. NgInv /\ ConflictInv => ConflictedStayOut
  <2> SUFFICES ASSUME NgInv, ConflictInv PROVE ConflictedStayOut
    OBVIOUS
  <2>1. CoreInv /\ CleanCore
    BY DEF NgInv, ConflictInv
  <2>2. tipId \in BlockId /\ Clean(tipId)
    BY <2>1, TipKnown, KnownIds, KnownClean
  <2>3. DOMAIN tipId = 1..Len(tipId)
    BY <2>2, LenProperties DEF BlockId
  <2> QED
    BY <2>2, <2>3 DEF ConflictedStayOut, Clean, SlotClean
<1> QED
  BY <1>1, <1>2, NextClean, SpecInv, PTL DEF Spec
===============================================================================
