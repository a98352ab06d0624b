------------------------ MODULE ExtensionLoaderProofs ------------------------
(***************************************************************************)
(* The loader and the appender agree on what is being applied, for any     *)
(* peers, chains and bounds: that property speaks of control only.  Then   *)
(* what the loader knows of the blocks it loads, the invariant LoadInv,    *)
(* with the facts about chains, ids and requests its proof needs.          *)
(***************************************************************************)
EXTENDS ExtensionLoader, WellFoundedInduction, SequenceTheorems, TLAPS

\* None stands for no extension and no result, so it is neither.
NoneIsNothing ==
  /\ \A sw, blocks, truncated : Extension(sw, blocks, truncated) # None
  /\ None \notin {"appended", "dropped", "failed"}

\* A load leaves the buffer alone, so while it is full the loader is idle.
BufferHolds(l, a) == a # Idle /\ a.buf # None => l = Idle

\* The state a of the applier is that of an appender with extension j and result r
InStep(a, j, r) ==
  /\ a = Idle <=> j = None /\ r = None
  /\ j = None \/ r = None
  /\ j # None => a.ext = j
  /\ a # Idle => a = Applying(a.buf, a.ext)

\* The inductive invariant
LoaderInv == BufferHolds(loader, applier) /\ InStep(applier, job, result)

-----------------------------------------------------------------------------
(* Induction over data, by least counterexample, and what it shows of KeepIn *)

\* Every non-empty set of natural numbers has a least element.
LEMMA LeastNat == ASSUME NEW S \in SUBSET Nat, S # {} PROVE \E m \in S : \A n \in S : m <= n
<1> DEFINE R == {x \in Nat \X Nat : x[1] < x[2]}
<1>1. IsWellFoundedOn(R, Nat)
  BY NatLessThanWellFounded DEF OpToRel
<1>2. PICK x \in S : \A y \in S : ~(<<y, x>> \in R)
  <2> HIDE DEF R
  <2> QED
    BY <1>1, WFMin
<1>3. ASSUME NEW y \in S PROVE x <= y
  <2>1. x \in Nat /\ y \in Nat
    OBVIOUS
  <2>2. ~(<<y, x>> \in R)
    BY <1>2
  <2> QED
    BY <2>1, <2>2
<1> QED
  BY <1>3

\* f is what KeepIn computes for the first n elements of s
Keeps(f, s, S, n) ==
  f = [i \in 0 .. n |-> IF i = 0 THEN <<>> ELSE IF s[i] \in S THEN Append(f[i - 1], s[i]) ELSE f[i - 1]]

\* s[i] added to kept, if it is wanted
KeepNext(kept, s, S, i) == IF s[i] \in S THEN Append(kept, s[i]) ELSE kept

KeepSteps(f, s, S, n) == f[0] = <<>> /\ \A i \in 1 .. n : f[i] = KeepNext(f[i - 1], s, S, i)

\* KeepIn is the last value of the function it is defined with.
LEMMA KeepInIs == \A s, S : KeepIn(s, S) = (CHOOSE f : Keeps(f, s, S, Len(s)))[Len(s)]
BY DEF KeepIn, Keeps

\* Such a function starts with nothing and goes on element by element.
LEMMA KeepsAt ==
  ASSUME NEW s, NEW S, NEW n \in Nat, NEW f, Keeps(f, s, S, n)
  PROVE  KeepSteps(f, s, S, n)
<1> DEFINE G(g) == [i \in 0 .. n |-> IF i = 0 THEN <<>> ELSE IF s[i] \in S THEN Append(g[i - 1], s[i]) ELSE g[i - 1]]
<1>1. f = G(f)
  BY DEF Keeps
<1>2. \A i \in 0 .. n : G(f)[i] = IF i = 0 THEN <<>> ELSE IF s[i] \in S THEN Append(f[i - 1], s[i]) ELSE f[i - 1]
  OBVIOUS
<1> HIDE DEF G
<1>3. \A i \in 0 .. n : f[i] = IF i = 0 THEN <<>> ELSE IF s[i] \in S THEN Append(f[i - 1], s[i]) ELSE f[i - 1]
  BY <1>1, <1>2
<1> QED
  BY <1>3 DEF KeepNext, KeepSteps

\* It exists, for sequences.
LEMMA KeepsExist ==
  ASSUME NEW T, NEW s \in Seq(T), NEW S
  PROVE  \E f : Keeps(f, s, S, Len(s)) /\ \A i \in 0 .. Len(s) : f[i] \in Seq(T)
<1> DEFINE Good(n) == \E f : Keeps(f, s, S, n) /\ \A i \in 0 .. n : f[i] \in Seq(T)
           Bad == {n \in Nat : n <= Len(s) /\ ~Good(n)}
<1>1. Bad \in SUBSET Nat
  OBVIOUS
<1>2. Good(0)
  <2> DEFINE f == [i \in 0 .. 0 |-> <<>>]
  <2>1. Keeps(f, s, S, 0)
    BY DEF Keeps
  <2>2. \A i \in 0 .. 0 : f[i] \in Seq(T)
    OBVIOUS
  <2> QED
    BY <2>1, <2>2
<1>3. ASSUME NEW n \in Nat, n # 0, n <= Len(s), Good(n - 1) PROVE Good(n)
  <2>1. PICK f : Keeps(f, s, S, n - 1) /\ \A i \in 0 .. n - 1 : f[i] \in Seq(T)
    BY <1>3
  <2> DEFINE last == IF s[n] \in S THEN Append(f[n - 1], s[n]) ELSE f[n - 1]
             g == [i \in 0 .. n |-> IF i = n THEN last ELSE f[i]]
  <2>2. last \in Seq(T)
    BY <1>3, <2>1
  <2>3. \A i \in 0 .. n : g[i] \in Seq(T)
    BY <1>3, <2>1, <2>2
  <2>4. KeepSteps(f, s, S, n - 1)
    <3> DEFINE k == n - 1
    <3>1. k \in Nat
      BY <1>3
    <3> HIDE DEF k
    <3>2. Keeps(f, s, S, k)
      BY <2>1 DEF k
    <3>3. KeepSteps(f, s, S, k)
      BY <3>1, <3>2, KeepsAt
    <3> QED
      BY <3>3 DEF k
  <2>5. \A i \in 0 .. n : g[i] = IF i = 0 THEN <<>> ELSE IF s[i] \in S THEN Append(g[i - 1], s[i]) ELSE g[i - 1]
    BY <1>3, <2>4 DEF KeepNext, KeepSteps
  <2>6. Keeps(g, s, S, n)
    <3>1. g = [i \in 0 .. n |-> g[i]]
      OBVIOUS
    <3> HIDE DEF g
    <3> QED
      BY <2>5, <3>1 DEF Keeps
  <2> HIDE DEF g
  <2> QED
    BY <2>3, <2>6
<1> HIDE DEF Good
<1>4. Bad = {}
  <2> SUFFICES ASSUME Bad # {} PROVE FALSE
    OBVIOUS
  <2>1. PICK n \in Bad : \A m \in Bad : n <= m
    <3> HIDE DEF Bad
    <3> QED
      BY <1>1, LeastNat
  <2>2. n \in Nat /\ n <= Len(s) /\ ~Good(n) /\ n # 0
    BY <1>2
  <2>3. n - 1 \in Nat /\ n - 1 \notin Bad /\ n - 1 <= Len(s)
    BY <2>1, <2>2
  <2> QED
    BY <1>3, <2>2, <2>3
<1>5. Len(s) \in Nat
  OBVIOUS
<1>6. Good(Len(s))
  BY <1>4, <1>5
<1> QED
  BY <1>6 DEF Good

\* So KeepIn is the last value of some such function.
LEMMA KeepInFunction ==
  ASSUME NEW T, NEW s \in Seq(T), NEW S
  PROVE  \E f : Keeps(f, s, S, Len(s)) /\ KeepIn(s, S) = f[Len(s)]
<1> DEFINE f == CHOOSE f : Keeps(f, s, S, Len(s))
<1>1. \E g : Keeps(g, s, S, Len(s))
  BY KeepsExist
<1>2. Keeps(f, s, S, Len(s))
  BY <1>1
<1>3. KeepIn(s, S) = f[Len(s)]
  BY KeepInIs
<1> QED
  BY <1>2, <1>3

\* Nothing is lost where everything is wanted.
LEMMA KeepAll ==
  ASSUME NEW T, NEW s \in Seq(T), NEW S, \A i \in 1 .. Len(s) : s[i] \in S
  PROVE  KeepIn(s, S) = s
<1>1. PICK f : Keeps(f, s, S, Len(s)) /\ KeepIn(s, S) = f[Len(s)]
  BY KeepInFunction
<1>2. f[0] = <<>> /\ \A i \in 1 .. Len(s) : f[i] = KeepNext(f[i - 1], s, S, i)
  <2>1. Len(s) \in Nat
    OBVIOUS
  <2>2. KeepSteps(f, s, S, Len(s))
    BY <1>1, <2>1, KeepsAt
  <2> QED
    BY <2>2 DEF KeepSteps
<1> DEFINE Bad == {n \in Nat : n <= Len(s) /\ f[n] # SubSeq(s, 1, n)}
<1>3. Bad = {}
  <2> SUFFICES ASSUME Bad # {} PROVE FALSE
    OBVIOUS
  <2>1. PICK n \in Bad : \A m \in Bad : n <= m
    <3>1. Bad \in SUBSET Nat
      OBVIOUS
    <3> HIDE DEF Bad
    <3> QED
      BY <3>1, LeastNat
  <2>2. n \in Nat /\ n <= Len(s) /\ f[n] # SubSeq(s, 1, n)
    OBVIOUS
  <2>3. n # 0
    <3>1. SubSeq(s, 1, 0) = <<>>
      OBVIOUS
    <3> QED
      BY <1>2, <2>2, <3>1
  <2>4. n - 1 \in Nat /\ n - 1 \notin Bad /\ n - 1 <= Len(s) /\ n \in 1 .. Len(s)
    BY <2>1, <2>2, <2>3
  <2>5. f[n - 1] = SubSeq(s, 1, n - 1)
    BY <2>4
  <2>6. s[n] \in S /\ f[n] = KeepNext(f[n - 1], s, S, n)
    BY <1>2, <2>4
  <2>7. f[n] = Append(f[n - 1], s[n])
    BY <2>6 DEF KeepNext
  <2>8. Append(SubSeq(s, 1, n - 1), s[n]) = SubSeq(s, 1, n)
    BY <2>4
  <2> QED
    BY <2>2, <2>5, <2>7, <2>8
<1>4. Len(s) \in Nat /\ Len(s) \notin Bad
  BY <1>3
<1> QED
  BY <1>1, <1>4

\* What is kept is a sequence of the same kind.
LEMMA KeepInType ==
  ASSUME NEW T, NEW s \in Seq(T), NEW S
  PROVE  KeepIn(s, S) \in Seq(T)
<1>1. PICK f : Keeps(f, s, S, Len(s)) /\ KeepIn(s, S) = f[Len(s)]
  BY KeepInFunction
<1>2. f[0] = <<>> /\ \A i \in 1 .. Len(s) : f[i] = KeepNext(f[i - 1], s, S, i)
  <2>1. Len(s) \in Nat
    OBVIOUS
  <2>2. KeepSteps(f, s, S, Len(s))
    BY <1>1, <2>1, KeepsAt
  <2> QED
    BY <2>2 DEF KeepSteps
<1> DEFINE Bad == {n \in Nat : n <= Len(s) /\ f[n] \notin Seq(T)}
<1>3. Bad = {}
  <2> SUFFICES ASSUME Bad # {} PROVE FALSE
    OBVIOUS
  <2>1. PICK n \in Bad : \A m \in Bad : n <= m
    <3>1. Bad \in SUBSET Nat
      OBVIOUS
    <3> HIDE DEF Bad
    <3> QED
      BY <3>1, LeastNat
  <2>2. n \in Nat /\ n <= Len(s) /\ f[n] \notin Seq(T) /\ n # 0
    <3>1. <<>> \in Seq(T)
      OBVIOUS
    <3>2. n \in Nat /\ n <= Len(s) /\ f[n] \notin Seq(T)
      OBVIOUS
    <3> QED
      BY <1>2, <3>1, <3>2
  <2>3. n - 1 \in Nat /\ n - 1 \notin Bad /\ n - 1 <= Len(s) /\ n \in 1 .. Len(s)
    BY <2>1, <2>2
  <2>4. f[n - 1] \in Seq(T) /\ s[n] \in T
    BY <2>3
  <2>5. KeepNext(f[n - 1], s, S, n) \in Seq(T)
    BY <2>4 DEF KeepNext
  <2>6. f[n] = KeepNext(f[n - 1], s, S, n)
    BY <1>2, <2>3
  <2> QED
    BY <2>2, <2>5, <2>6
<1>4. Len(s) \in Nat /\ Len(s) \notin Bad
  BY <1>3
<1> QED
  BY <1>1, <1>4

-----------------------------------------------------------------------------
\* An applier at work is not idle.
LEMMA ApplyingBusy ==
  ASSUME NEW buf, NEW ext
  PROVE  /\ Applying(buf, ext) # Idle
         /\ Applying(buf, ext).buf = buf /\ Applying(buf, ext).ext = ext
         /\ Applying(buf, ext).st = "Applying"
<1>1. Applying(buf, ext).st # Idle.st
  BY DEF Applying, Idle
<1> QED
  BY <1>1 DEF Applying

\* syncNext starts no load that could not be buffered.
LEMMA SyncNextHolds ==
  ASSUME NEW l, NEW a, NEW sw, BufferHolds(l, a),
         a # Idle => a = Applying(a.buf, a.ext)
  PROVE  BufferHolds(SyncNext(l, a, sw).loader, a)
<1> SUFFICES ASSUME a # Idle, a.buf # None
             PROVE  SyncNext(l, a, sw).loader = Idle
  BY DEF BufferHolds
<1>1. l = Idle /\ a.st = "Applying"
  BY ApplyingBusy DEF BufferHolds
<1> QED
  BY <1>1 DEF SyncNext

\* Nor does a handler that ends in syncNext.
LEMMA ThenSyncNextHolds ==
  ASSUME NEW pending, NEW l, NEW a, NEW sw, BufferHolds(l, a),
         a # Idle => a = Applying(a.buf, a.ext),
         ThenSyncNext(pending, l, a, sw)
  PROVE  BufferHolds(loader', applier') /\ applier' = a
BY SyncNextHolds DEF ThenSyncNext

\* What a load ends with: the extension goes to the appender or into the buffer.
LEMMA LoadingFinishedInv ==
  ASSUME NEW pending, NEW ext, ext # None, LoaderInv,
         ExtensionLoadingFinished(pending, ext), result' = result
  PROVE  LoaderInv'
<1>1. CASE applier = Idle
  <2>1. job' = ext /\ ThenSyncNext(pending, Idle, Applying(None, ext), LastSyncWith)
    BY <1>1 DEF ExtensionLoadingFinished
  <2>2. BufferHolds(loader', applier') /\ applier' = Applying(None, ext)
    BY <2>1, ApplyingBusy, ThenSyncNextHolds DEF BufferHolds
  <2>3. result = None
    BY <1>1 DEF LoaderInv, InStep
  <2> QED
    BY <2>1, <2>2, <2>3, ApplyingBusy DEF LoaderInv, InStep
<1>2. CASE applier # Idle
  <2>1. /\ loader' = Idle /\ job' = job
        /\ applier' = IF applier.buf = None THEN [applier EXCEPT !.buf = ext] ELSE applier
    BY <1>2 DEF ExtensionLoadingFinished
  <2>2. applier = Applying(applier.buf, applier.ext)
    BY <1>2 DEF LoaderInv, InStep
  <2>3. [applier EXCEPT !.buf = ext] = Applying(ext, applier.ext)
    BY <2>2 DEF Applying
  <2>4. applier' = Applying(applier'.buf, applier.ext) /\ applier'.ext = applier.ext
    BY <2>1, <2>2, <2>3, ApplyingBusy
  <2>5. applier' # Idle
    BY <2>4, ApplyingBusy
  <2> QED
    BY <1>2, <2>1, <2>4, <2>5 DEF LoaderInv, InStep, BufferHolds
<1> QED
  BY <1>1, <1>2

\* The loader state changes, and is idle if it was.
LEMMA LoaderChangeInv ==
  ASSUME LoaderInv, UNCHANGED <<applier, job, result>>,
         loader = Idle => loader' = Idle
  PROVE  LoaderInv'
BY DEF LoaderInv, InStep, BufferHolds

\* syncNext from the state the loader is in, or from an idle one.
LEMMA RestartInv ==
  ASSUME NEW pending, NEW l \in {loader, Idle}, NEW sw, LoaderInv,
         ThenSyncNext(pending, l, applier, sw), UNCHANGED <<job, result>>
  PROVE  LoaderInv'
<1>1. BufferHolds(l, applier) /\ (applier # Idle => applier = Applying(applier.buf, applier.ext))
  BY DEF LoaderInv, InStep, BufferHolds
<1>2. BufferHolds(loader', applier') /\ applier' = applier
  BY <1>1, ThenSyncNextHolds
<1> QED
  BY <1>2 DEF LoaderInv, InStep
-----------------------------------------------------------------------------
\* Nothing is loaded or applied at first.
LEMMA InitLoaderInv == Init => LoaderInv
<1> SUFFICES ASSUME Init PROVE LoaderInv
  OBVIOUS
<1> QED
  BY DEF Init, LoaderInv, InStep, BufferHolds

\* Answers to the loader's requests
LEMMA SignaturesInv ==
  ASSUME LoaderInv, NEW m, NEW pending, OnNewSignatures(m, pending)
  PROVE  LoaderInv'
<1>1. UNCHANGED <<job, result>>
  BY Zenon DEF OnNewSignatures
<1>2. CASE Leave(pending, loader)
  BY <1>1, <1>2, LoaderChangeInv DEF Leave
<1>3. CASE ThenSyncNext(pending, Idle, applier, LastSyncWith)
  BY <1>1, <1>3, RestartInv
<1>4. CASE ExpectsIds(m.ch) /\ UNCHANGED applier
  <2>1. loader # Idle
    BY <1>4 DEF ExpectsIds, Idle
  <2> QED
    BY <1>1, <1>4, <2>1, LoaderChangeInv
<1> QED
  BY <1>2, <1>3, <1>4, Zenon DEF OnNewSignatures

\* onBlock, the end of a load included.
LEMMA BlockInv ==
  ASSUME NoneIsNothing, LoaderInv, NEW m, NEW pending, OnBlock(m, pending)
  PROVE  LoaderInv'
<1>1. result' = result
  BY DEF OnBlock
<1>2. CASE Leave(pending, loader) /\ UNCHANGED job
  BY <1>1, <1>2, LoaderChangeInv DEF Leave
<1>3. CASE ExpectsBlock(m.ch, m.id)
  <2> DEFINE left == loader.expected \ {m.id}
             got == loader.received \cup {m.id}
             ext == Extension(loader.sw, KeepIn(loader.all, got), loader.truncated)
  <2>1. loader # Idle
    BY <1>3 DEF ExpectsBlock, Idle
  <2>2. IF left = {} THEN ExtensionLoadingFinished(pending, ext)
        ELSE /\ Leave(pending, ExpectingBlocks(loader.sw, loader.all, left, got, loader.truncated))
             /\ UNCHANGED job
    BY <1>3 DEF OnBlock
  <2>3. ext # None
    BY DEF NoneIsNothing
  <2> HIDE DEF left, got, ext
  <2>4. CASE ExtensionLoadingFinished(pending, ext)
    BY <1>1, <2>3, <2>4, LoadingFinishedInv
  <2>5. CASE /\ Leave(pending, ExpectingBlocks(loader.sw, loader.all, left, got, loader.truncated))
             /\ UNCHANGED job
    BY <1>1, <2>1, <2>5, LoaderChangeInv DEF Leave
  <2> QED
    BY <2>2, <2>4, <2>5
<1> QED
  BY <1>2, <1>3 DEF OnBlock

\* A block the peer no longer has.
LEMMA NotFoundInv ==
  ASSUME NoneIsNothing, LoaderInv, NEW m, NEW pending, OnBlockNotFound(m, pending)
  PROVE  LoaderInv'
<1>1. result' = result
  BY DEF OnBlockNotFound
<1>2. CASE Leave(pending, loader) /\ UNCHANGED job
  BY <1>1, <1>2, LoaderChangeInv DEF Leave
<1>3. CASE ExpectsBlock(m.ch, m.id)
  <2> DEFINE prefix == Before(loader.all, m.id)
             left == StillExpected(prefix)
             got == loader.received \cap Range(prefix)
             ext == Extension(loader.sw, KeepIn(prefix, got), TRUE)
  <2>1. loader # Idle
    BY <1>3 DEF ExpectsBlock, Idle
  <2>2. \/ ThenSyncNext(pending, Idle, applier, LastSyncWith) /\ UNCHANGED job
        \/ ExtensionLoadingFinished(pending, ext)
        \/ Leave(pending, ExpectingBlocks(loader.sw, prefix, left, got, TRUE)) /\ UNCHANGED job
    BY <1>3, Zenon DEF OnBlockNotFound
  <2>3. ext # None
    BY Zenon DEF NoneIsNothing
  <2> HIDE DEF prefix, left, got, ext
  <2>4. CASE ExtensionLoadingFinished(pending, ext)
    BY <1>1, <2>3, <2>4, LoadingFinishedInv
  <2>5. CASE Leave(pending, ExpectingBlocks(loader.sw, prefix, left, got, TRUE)) /\ UNCHANGED job
    BY <1>1, <2>1, <2>5, LoaderChangeInv, Zenon DEF Leave
  <2>6. CASE ThenSyncNext(pending, Idle, applier, LastSyncWith) /\ UNCHANGED job
    BY <1>1, <2>6, RestartInv
  <2> QED
    BY <2>2, <2>4, <2>5, <2>6, Zenon
<1> QED
  BY <1>2, <1>3, Zenon DEF OnBlockNotFound

\* The appender is done and the loader hears of it.
LEMMA AppliedInv ==
  ASSUME LoaderInv, OnExtensionApplied
  PROVE  LoaderInv'
<1>1. result # None /\ result' = None /\ job = None /\ applier # Idle
  BY DEF OnExtensionApplied, LoaderInv, InStep
<1>2. CASE applier' = Idle /\ UNCHANGED <<loader, job>>
  BY <1>1, <1>2 DEF LoaderInv, InStep, BufferHolds
<1>3. CASE /\ applier.buf # None /\ job' = applier.buf
           /\ ThenSyncNext(requests, loader, Applying(None, applier.buf), LastSyncWith)
  <2>1. BufferHolds(loader', applier') /\ applier' = Applying(None, applier.buf)
    BY <1>3, ApplyingBusy, ThenSyncNextHolds DEF BufferHolds
  <2> QED
    BY <1>1, <1>3, <2>1, ApplyingBusy DEF LoaderInv, InStep
<1>4. CASE ThenSyncNext(requests, Idle, Idle, LastSyncWith) /\ UNCHANGED job
  <2>1. BufferHolds(loader', applier') /\ applier' = Idle
    BY <1>4, ThenSyncNextHolds DEF BufferHolds
  <2> QED
    BY <1>1, <1>4, <2>1 DEF LoaderInv, InStep
<1> QED
  BY <1>2, <1>3, <1>4 DEF OnExtensionApplied

\* The appender takes the extension and leaves a result.
LEMMA AppendExtensionInv ==
  ASSUME NoneIsNothing, LoaderInv, AppendExtension
  PROVE  LoaderInv'
<1>1. PICK r \in {"appended", "dropped", "failed"} : \E c : Finish(r, c)
  BY Zenon DEF AppendExtension
<1>2. job' = None /\ result' = r /\ UNCHANGED <<loader, applier>>
  BY <1>1 DEF Finish
<1>3. job # None /\ r # None
  BY Zenon DEF AppendExtension, NoneIsNothing
<1> QED
  BY <1>2, <1>3 DEF LoaderInv, InStep

\* Every step keeps the loader and the appender in step.
LEMMA NextLoaderInv ==
  ASSUME NoneIsNothing, LoaderInv, [Next]_vars
  PROVE  LoaderInv'
<1> DEFINE same == UNCHANGED <<loader, applier, job, result>>
<1>1. CASE same
  BY <1>1, LoaderChangeInv, SMTT(30)
<1>2. ASSUME NEW p \in Peers, MineKeyBlock(p) \/ MineMicroBlock(p) \/ CloseChannel(p) \/ AppendKeyBlock(p)
                              \/ AppendMicroBlock(p)
      PROVE  same
  BY <1>2 DEF MineKeyBlock, MineMicroBlock, CloseChannel, AppendKeyBlock, AppendMicroBlock
<1>3. ASSUME NEW p \in Peers, RemoteScoreChanged(p)
      PROVE  same
  BY <1>3 DEF RemoteScoreChanged, Publish
<1>4. ASSUME NEW p \in Peers, Timeout(p)
      PROVE  LoaderInv'
  <2>1. UNCHANGED <<applier, job, result>> /\ loader # Idle
    BY <1>4 DEF Timeout, WithPeer, Idle
  <2> QED
    BY <2>1, LoaderChangeInv
<1>5. ASSUME NEW q \in requests, Answered(q)
      PROVE  LoaderInv'
  BY <1>5, SignaturesInv, BlockInv, NotFoundInv DEF Answered
<1>6. ASSUME NEW q \in requests, Lose(q)
      PROVE  same
  BY <1>6 DEF Lose
<1>7. CASE OnNewSyncWithChannelClosed
  <2> DEFINE sw == Head(events).sw
  <2>1. UNCHANGED <<job, result>>
    BY <1>7 DEF OnNewSyncWithChannelClosed
  <2>2. \/ Leave(requests, Idle) \/ Leave(requests, loader)
        \/ ThenSyncNext(requests, loader, applier, sw) \/ ThenSyncNext(requests, Idle, applier, sw)
    BY <1>7 DEF OnNewSyncWithChannelClosed
  <2>3. CASE Leave(requests, Idle) \/ Leave(requests, loader)
    BY <2>1, <2>3, LoaderChangeInv DEF Leave
  <2>4. CASE ThenSyncNext(requests, loader, applier, sw) \/ ThenSyncNext(requests, Idle, applier, sw)
    BY <2>1, <2>4, RestartInv
  <2> QED
    BY <2>2, <2>3, <2>4
<1>8. CASE LocalScoreChanged \/ ChannelEnded
  BY <1>1, <1>8 DEF LocalScoreChanged, ChannelEnded, Publish
<1>9. CASE UNCHANGED vars
  BY <1>1, <1>9 DEF vars
<1> HIDE DEF same
<1> QED
  BY <1>1, <1>2, <1>3, <1>4, <1>5, <1>6, <1>7, <1>8, <1>9, AppliedInv, AppendExtensionInv, LoaderAssumption
     DEF Next

\* The loader and the appender agree on the extension being applied, each one gets
\* a result, and a load that completes finds the buffer free
\* (RxExtensionLoader.extensionLoadingFinished, onExtensionApplied), whatever the
\* peers, their chains and the order of events.
THEOREM SpecAppliedIsExpected ==
  ASSUME NoneIsNothing
  PROVE  SafeSpec => []AppliedIsExpected
<1>1. Init => LoaderInv
  BY InitLoaderInv
<1>2. LoaderInv /\ [Next]_vars => LoaderInv'
  BY NextLoaderInv
<1>3. LoaderInv => AppliedIsExpected
  BY DEF LoaderInv, InStep, BufferHolds, AppliedIsExpected
<1> QED
  BY <1>1, <1>2, <1>3, PTL DEF SafeSpec
-----------------------------------------------------------------------------
(* Chains and their ids *)

\* id is the id of a block below the top of chain c: it stays one whatever is mined
Persisted(c, id) == Len(id) < Len(c) /\ Begins(id, c)

\* Chain c has a block with this id, or the id is as high as the score
Reaches(c, id, score) == Persisted(c, id) \/ Len(id) >= score

\* The least element of a set of natural numbers
LEMMA MinIsLeast ==
  ASSUME NEW I \in SUBSET Nat, I # {}
  PROVE  Min(I) \in I /\ \A i \in I : Min(I) <= i
BY LeastNat, Zenon DEF Min

\* The first of some positions in a sequence of length n
LEMMA FirstIndex ==
  ASSUME NEW n \in Nat, NEW I \in SUBSET (1 .. n)
  PROVE  /\ First(I) \in 0 .. n
         /\ First(I) # 0 => First(I) \in I
         /\ I # {} => First(I) # 0
<1>1. I \in SUBSET Nat
  OBVIOUS
<1>2. CASE I = {}
  BY <1>2 DEF First
<1>3. CASE I # {}
  <2>1. First(I) \in I
    BY <1>1, <1>3, MinIsLeast, Zenon DEF First
  <2>2. First(I) \in 1 .. n
    BY <2>1, Zenon
  <2> QED
    BY <2>1, <2>2
<1> QED
  BY <1>2, <1>3

\* A sequence with an element is not empty.
LEMMA LongerThanEmpty ==
  ASSUME NEW S, NEW s \in Seq(S), Len(s) >= 1
  PROVE  s # <<>>
OBVIOUS

\* A chain is never empty: it starts with the genesis block.
LEMMA ChainFacts ==
  ASSUME NEW c \in Chains
  PROVE  c \in Seq(Slots) /\ Len(c) \in Nat /\ Len(c) >= 1
BY EmptySeq DEF Chains

\* What is cut off a chain at a height is a chain: a block there, persisted below the
\* tip, whose parent is the one below.
LEMMA BeginningFacts ==
  ASSUME NEW c \in Chains, NEW i \in 1 .. Len(c)
  PROVE  /\ SubSeq(c, 1, i) \in Chains
         /\ Len(SubSeq(c, 1, i)) = i
         /\ \A j \in 1 .. i : SubSeq(c, 1, i)[j] = c[j]
         /\ i < Len(c) => Persisted(c, SubSeq(c, 1, i))
         /\ i > 1 => Parent(SubSeq(c, 1, i)) = SubSeq(c, 1, i - 1)
<1>1. c \in Seq(Slots) /\ Len(c) \in Nat /\ i \in Nat /\ 1 <= i /\ i <= Len(c)
  BY ChainFacts
<1> DEFINE b == SubSeq(c, 1, i)
<1>2. b \in Seq(Slots) /\ Len(b) = i /\ \A j \in 1 .. i : b[j] = c[j]
  BY <1>1
<1>3. b \in Chains
  BY <1>1, <1>2, EmptySeq DEF Chains
<1>5. i < Len(c) => Persisted(c, b)
  BY <1>1, <1>2 DEF Persisted, Begins
<1>6. ASSUME i > 1 PROVE Parent(b) = SubSeq(c, 1, i - 1)
  <2> DEFINE s == SubSeq(b, 1, i - 1)
             t == SubSeq(c, 1, i - 1)
  <2>1. s \in Seq(Slots) /\ t \in Seq(Slots) /\ Len(s) = i - 1 /\ Len(t) = i - 1
    BY <1>1, <1>2, <1>6
  <2>2. \A j \in 1 .. i - 1 : s[j] = b[j] /\ t[j] = c[j]
    BY <1>1, <1>2, <1>6
  <2>3. \A j \in 1 .. Len(s) : s[j] = t[j]
    BY <1>1, <1>2, <2>1, <2>2
  <2> HIDE DEF s, t
  <2>4. s = t
    BY <2>1, <2>3, SeqEqual
  <2> QED
    BY <1>2, <2>4 DEF Parent, s, t
<1> QED
  BY <1>2, <1>3, <1>5, <1>6

\* The ids of a chain are its beginnings, in order.
LEMMA IdsFacts ==
  ASSUME NEW c \in Chains
  PROVE  /\ Ids(c) \in Seq(Chains) /\ Len(Ids(c)) = Len(c)
         /\ \A i \in 1 .. Len(c) : Ids(c)[i] = SubSeq(c, 1, i)
<1>1. Len(c) \in Nat
  BY ChainFacts
<1>2. \A i \in 1 .. Len(c) : SubSeq(c, 1, i) \in Chains
  BY BeginningFacts
<1> QED
  BY <1>1, <1>2 DEF Ids

\* What blockIdsAfter answers from: the blocks h to k of chain c
LEMMA RunFacts ==
  ASSUME NEW c \in Chains, NEW h \in 1 .. Len(c), NEW k \in h .. Len(c),
         NEW r, r = SubSeq(Ids(c), h, k)
  PROVE  /\ r \in Seq(Chains) /\ Len(r) = k - h + 1 /\ r # <<>>
         /\ \A i \in 1 .. Len(r) : r[i] = SubSeq(c, 1, h + i - 1)
         /\ Linked(r)
         /\ \A i \in 1 .. Len(r) - 1 : Persisted(c, r[i])
         /\ Reaches(c, LastOf(r), Len(c))
         /\ \A u \in 1 .. Len(r) : SubSeq(r, u, Len(r)) = SubSeq(Ids(c), h + u - 1, k)
<1>1. /\ Len(c) \in Nat /\ h \in Nat /\ k \in Nat /\ 1 <= h /\ h <= k /\ k <= Len(c)
  BY ChainFacts
<1>2. /\ Ids(c) \in Seq(Chains) /\ Len(Ids(c)) = Len(c)
      /\ \A i \in 1 .. Len(c) : Ids(c)[i] = SubSeq(c, 1, i)
  BY IdsFacts
<1>3. r \in Seq(Chains) /\ Len(r) = k - h + 1 /\ \A i \in 1 .. Len(r) : r[i] = Ids(c)[h + i - 1]
  BY <1>1, <1>2
<1>4. \A i \in 1 .. Len(r) : r[i] = SubSeq(c, 1, h + i - 1) /\ h + i - 1 \in 1 .. Len(c)
  BY <1>1, <1>2, <1>3
<1>5. r # <<>>
  <2>1. Len(r) >= 1
    BY <1>1, <1>3
  <2>2. r \in Seq(Chains)
    BY <1>3
  <2> QED
    BY <2>1, <2>2, LongerThanEmpty, Zenon
<1>6. Linked(r)
  <2> SUFFICES ASSUME NEW i \in 1 .. Len(r) - 1 PROVE Parent(r[i + 1]) = r[i]
    BY <1>5, Zenon DEF Linked
  <2> DEFINE n == h + i
  <2>1. n \in 1 .. Len(c) /\ n > 1 /\ r[i + 1] = SubSeq(c, 1, n) /\ r[i] = SubSeq(c, 1, n - 1)
    <3>1. i \in Nat /\ i \in 1 .. Len(r) /\ i + 1 \in 1 .. Len(r) /\ n \in Nat
      BY <1>1, <1>3
    <3>2. h + (i + 1) - 1 = n /\ h + i - 1 = n - 1
      BY <1>1, <3>1
    <3>3. r[i + 1] = SubSeq(c, 1, n) /\ n \in 1 .. Len(c)
      BY <1>4, <3>1, <3>2, Zenon
    <3>4. r[i] = SubSeq(c, 1, n - 1)
      BY <1>4, <3>1, <3>2
    <3>5. n > 1
      BY <1>1, <3>1
    <3> QED
      BY <3>3, <3>4, <3>5
  <2> HIDE DEF n
  <2> QED
    BY <2>1, BeginningFacts
<1>7. ASSUME NEW i \in 1 .. Len(r), h + i - 1 < Len(c) PROVE Persisted(c, r[i])
  <2> DEFINE n == h + i - 1
  <2>1. n \in 1 .. Len(c) /\ n < Len(c) /\ r[i] = SubSeq(c, 1, n)
    BY <1>4, <1>7, Zenon
  <2> HIDE DEF n
  <2> QED
    BY <2>1, BeginningFacts
<1>8. \A i \in 1 .. Len(r) - 1 : Persisted(c, r[i])
  <2>1. \A i \in 1 .. Len(r) - 1 : i \in 1 .. Len(r) /\ h + i - 1 < Len(c)
    BY <1>1, <1>3
  <2> QED
    BY <1>7, <2>1, Zenon
<1>9. Reaches(c, LastOf(r), Len(c))
  <2>1. Len(r) \in 1 .. Len(r) /\ h + Len(r) - 1 = k
    BY <1>1, <1>3
  <2>2. k < Len(c) => Persisted(c, LastOf(r))
    BY <1>7, <2>1 DEF LastOf
  <2>3. LastOf(r) = SubSeq(c, 1, k) /\ k \in 1 .. Len(c)
    BY <1>1, <1>4, <2>1, Zenon DEF LastOf
  <2>4. Len(LastOf(r)) = k
    BY <2>3, BeginningFacts
  <2> QED
    BY <1>1, <2>2, <2>4 DEF Reaches
<1>10. ASSUME NEW u \in 1 .. Len(r) PROVE SubSeq(r, u, Len(r)) = SubSeq(Ids(c), h + u - 1, k)
  <2> DEFINE s == SubSeq(r, u, Len(r))
             t == SubSeq(Ids(c), h + u - 1, k)
  <2>1. s \in Seq(Chains) /\ Len(s) = Len(r) - u + 1 /\ \A i \in 1 .. Len(s) : s[i] = r[u + i - 1]
    BY <1>1, <1>3
  <2>2. t \in Seq(Chains) /\ Len(t) = k - h - u + 2 /\ \A i \in 1 .. Len(t) : t[i] = Ids(c)[h + u - 1 + i - 1]
    BY <1>1, <1>2, <1>3
  <2>3. Len(s) = Len(t)
    BY <1>1, <1>3, <2>1, <2>2
  <2>4. ASSUME NEW i \in 1 .. Len(s) PROVE s[i] = t[i]
    <3>1. s[i] = r[u + i - 1] /\ u + i - 1 \in 1 .. Len(r)
      BY <1>1, <1>3, <2>1
    <3>2. s[i] = Ids(c)[h + (u + i - 1) - 1]
      BY <1>3, <3>1
    <3>3. h + (u + i - 1) - 1 = h + u - 1 + i - 1
      BY <1>1, <1>3, <2>1
    <3> QED
      BY <2>2, <2>3, <3>2, <3>3
  <2> HIDE DEF s, t
  <2>5. s = t
    BY <2>1, <2>2, <2>3, <2>4, SeqEqual
  <2> QED
    BY <2>5 DEF s, t
<1> QED
  BY <1>3, <1>4, <1>5, <1>6, <1>8, <1>9, <1>10, Zenon

\* What a peer answers to GetBlockIds is a run of its ids.
LEMMA BlockIdsAfterRun ==
  ASSUME NEW p \in Peers, chain \in [Peers -> Chains], NEW candidates \in Seq(Chains),
         BlockIdsAfter(p, candidates) # <<>>
  PROVE  \E h \in 1 .. Len(chain[p]) : \E k \in h .. Len(chain[p]) :
           BlockIdsAfter(p, candidates) = SubSeq(Ids(chain[p]), h, k)
<1> DEFINE I == {i \in DOMAIN candidates : Knows(chain[p], 0, candidates[i])}
           c == chain[p]
           f == First(I)
           h == Len(candidates[f])
           k == Minimum(h + PeerBatch, Len(c))
<1>1. f # 0 /\ BlockIdsAfter(p, candidates) = SubSeq(Ids(chain[p]), h, k)
  BY Zenon DEF BlockIdsAfter
<1>2. f \in I
  <2>1. I \in SUBSET (1 .. Len(candidates)) /\ Len(candidates) \in Nat
    OBVIOUS
  <2> HIDE DEF I
  <2> QED
    BY <1>1, <2>1, FirstIndex
<1>3. c \in Chains /\ candidates[f] \in Chains /\ Knows(c, 0, candidates[f])
  BY <1>2
<1> HIDE DEF f, c, I
<1>4. h \in Nat /\ h >= 1 /\ h <= Len(c) /\ Len(c) \in Nat
  BY <1>3, ChainFacts DEF Knows
<1>5. h \in 1 .. Len(c) /\ k \in h .. Len(c)
  BY <1>4, LoaderAssumption DEF Minimum
<1> QED
  BY <1>1, <1>5, Zenon DEF c
-----------------------------------------------------------------------------
(* What the loader is told, what it loads and what it hands on, over chains cs *)

Syncs  == [ch : Peers, score : Nat]
Events == [closed : Peers \cup {None}, sw : Syncs \cup {None}]
Exts   == [ch : Peers, score : Nat, blocks : Seq(Chains), truncated : BOOLEAN]
SigsStates == [st : {"Sigs"}, sw : Syncs, known : Seq(Chains), timer : BOOLEAN]
BlocksStates == [st : {"Blocks"}, sw : Syncs, all : Seq(Chains), expected : SUBSET Chains, received : SUBSET Chains,
                 truncated : BOOLEAN, timer : BOOLEAN]

Announced(cs, sw) == sw \in Syncs /\ sw.score <= Len(cs[sw.ch])
SyncOK(cs, sw) == sw = None \/ Announced(cs, sw)

\* Blocks all are being loaded from a peer with chain c that announced the score
LoadOK(c, score, all) ==
  /\ Linked(all)
  /\ \A i \in 1 .. Len(all) - 1 : Persisted(c, all[i])
  /\ Reaches(c, LastOf(all), score)

LoaderOK(cs, l) ==
  \/ l = Idle
  \/ l \in SigsStates /\ Announced(cs, l.sw)
  \/ /\ l \in BlocksStates /\ Announced(cs, l.sw)
     /\ LoadOK(cs[l.sw.ch], l.sw.score, l.all)
     /\ Range(l.all) \subseteq l.expected \cup l.received

ExtOK(cs, e) ==
  /\ e \in Exts /\ e.score <= Len(cs[e.ch])
  /\ LoadOK(cs[e.ch], e.score, e.blocks)

MaybeExtOK(cs, e) == e = None \/ ExtOK(cs, e)

ApplierOK(cs, a) ==
  \/ a = Idle
  \/ a = Applying(a.buf, a.ext) /\ ExtOK(cs, a.ext) /\ MaybeExtOK(cs, a.buf)

\* A load under way was asked for on top of the extension being applied
Anchored(l, a) == l.st = "Sigs" /\ a # Idle => LastOf(a.ext.blocks) \in Range(l.known)

RequestOK(q) == \/ q.type = "GetBlockIds" /\ q.ids \in Seq(Chains)
                \/ q.type = "GetBlock" /\ q.id \in Chains

RequestsOK(rs) == \A q \in rs : RequestOK(q)

ObserverOK(cs, sc, ev, evs, cl) ==
  /\ sc \in [Peers -> Nat] /\ \A p \in Peers : sc[p] <= Len(cs[p])
  /\ ev \in Events /\ SyncOK(cs, ev.sw)
  /\ evs \in Seq(Events) /\ \A i \in 1 .. Len(evs) : SyncOK(cs, evs[i].sw)
  /\ cl \in Seq(Peers)

ChainsOK(cs, c) == cs \in [Peers -> Chains] /\ c \in Chains

\* The inductive invariant, beside LoaderInv
LoadInv ==
  /\ ChainsOK(chain, local) /\ open \subseteq Peers
  /\ ObserverOK(chain, scores, event, events, closing)
  /\ RequestsOK(requests)
  /\ LoaderOK(chain, loader) /\ ApplierOK(chain, applier) /\ MaybeExtOK(chain, job)
  /\ Anchored(loader, applier)
-----------------------------------------------------------------------------
(* A peer's chain grows *)

\* What is persisted stays so, and the height does not fall
Grown(c, d) ==
  /\ Len(c) <= Len(d)
  /\ \A id \in Chains : Persisted(c, id) => Persisted(d, id)

AllGrown(cs, ds) == \A p \in Peers : Grown(cs[p], ds[p])

\* A chain that keeps all but the last block of another has grown from it.
LEMMA GrownBegins ==
  ASSUME NEW c \in Chains, NEW d \in Chains, Len(c) <= Len(d),
         \A i \in 1 .. Len(c) - 1 : c[i] = d[i]
  PROVE  Grown(c, d)
<1>1. Len(c) \in Nat /\ Len(d) \in Nat /\ c \in Seq(Slots) /\ d \in Seq(Slots)
  BY ChainFacts
<1> SUFFICES ASSUME NEW id \in Chains, Persisted(c, id)
             PROVE  Persisted(d, id)
  BY DEF Grown
<1>2. id \in Seq(Slots) /\ Len(id) \in Nat /\ Len(id) >= 1
  BY ChainFacts
<1>3. Len(id) < Len(c) /\ id = SubSeq(c, 1, Len(id))
  BY DEF Persisted, Begins
<1> DEFINE s == SubSeq(c, 1, Len(id))
           t == SubSeq(d, 1, Len(id))
<1>4. s \in Seq(Slots) /\ Len(s) = Len(id) /\ \A i \in 1 .. Len(id) : s[i] = c[i]
  BY <1>1, <1>2, <1>3
<1>5. t \in Seq(Slots) /\ Len(t) = Len(id) /\ \A i \in 1 .. Len(id) : t[i] = d[i]
  BY <1>1, <1>2, <1>3
<1>6. \A i \in 1 .. Len(s) : s[i] = t[i]
  BY <1>1, <1>2, <1>3, <1>4, <1>5
<1> HIDE DEF s, t
<1>7. s = t
  BY <1>4, <1>5, <1>6, SeqEqual
<1> QED
  BY <1>1, <1>2, <1>3, <1>7 DEF Persisted, Begins, s, t

\* What is loaded from a chain can still be loaded when it has grown.
LEMMA LoadGrows ==
  ASSUME NEW c, NEW d, NEW score, NEW all \in Seq(Chains), Grown(c, d), LoadOK(c, score, all)
  PROVE  LoadOK(d, score, all)
<1>1. all # <<>> /\ Len(all) \in Nat
  BY DEF LoadOK, Linked
<1>2. Len(all) \in 1 .. Len(all)
  BY <1>1
<1>3. \A i \in 1 .. Len(all) : all[i] \in Chains
  OBVIOUS
<1>4. LastOf(all) \in Chains
  BY <1>2, <1>3 DEF LastOf
<1>5. \A i \in 1 .. Len(all) - 1 : all[i] \in Chains
  BY <1>1, <1>3
<1> QED
  BY <1>4, <1>5 DEF LoadOK, Reaches, Grown

\* A score announced stays reached.
LEMMA SyncGrows ==
  ASSUME NEW cs \in [Peers -> Chains], NEW ds \in [Peers -> Chains], AllGrown(cs, ds), NEW sw, Announced(cs, sw)
  PROVE  Announced(ds, sw)
<1>1. sw.ch \in Peers /\ sw.score \in Nat
  BY DEF Announced, Syncs
<1>2. Len(cs[sw.ch]) <= Len(ds[sw.ch]) /\ Len(cs[sw.ch]) \in Nat /\ Len(ds[sw.ch]) \in Nat
  BY <1>1, ChainFacts DEF AllGrown, Grown
<1> QED
  BY <1>1, <1>2 DEF Announced

\* The same for an extension handed on.
LEMMA ExtGrows ==
  ASSUME NEW cs \in [Peers -> Chains], NEW ds \in [Peers -> Chains], AllGrown(cs, ds), NEW e, ExtOK(cs, e)
  PROVE  ExtOK(ds, e)
<1>1. e.ch \in Peers /\ e.score \in Nat /\ e.blocks \in Seq(Chains)
  BY DEF ExtOK, Exts
<1>2. Len(cs[e.ch]) <= Len(ds[e.ch]) /\ Len(cs[e.ch]) \in Nat /\ Len(ds[e.ch]) \in Nat
  BY <1>1, ChainFacts DEF AllGrown, Grown
<1>3. LoadOK(ds[e.ch], e.score, e.blocks)
  BY <1>1, LoadGrows, SMTT(30) DEF ExtOK, AllGrown
<1> QED
  BY <1>1, <1>2, <1>3 DEF ExtOK

\* The same for the load under way.
LEMMA LoaderGrows ==
  ASSUME NEW cs \in [Peers -> Chains], NEW ds \in [Peers -> Chains], AllGrown(cs, ds), NEW l, LoaderOK(cs, l)
  PROVE  LoaderOK(ds, l)
<1>1. CASE l \in SigsStates /\ Announced(cs, l.sw)
  BY <1>1, SyncGrows DEF LoaderOK
<1>2. CASE /\ l \in BlocksStates /\ Announced(cs, l.sw)
           /\ LoadOK(cs[l.sw.ch], l.sw.score, l.all)
           /\ Range(l.all) \subseteq l.expected \cup l.received
  <2>1. l.sw.ch \in Peers /\ l.all \in Seq(Chains)
    BY <1>2 DEF BlocksStates, Syncs
  <2>2. LoadOK(ds[l.sw.ch], l.sw.score, l.all)
    BY <1>2, <2>1, LoadGrows DEF AllGrown
  <2>3. Announced(ds, l.sw)
    BY <1>2, SyncGrows
  <2> QED
    BY <1>2, <2>2, <2>3 DEF LoaderOK
<1> QED
  BY <1>1, <1>2 DEF LoaderOK

\* The same for the scores, and the events, of the score observer.
LEMMA ObserverGrows ==
  ASSUME NEW cs \in [Peers -> Chains], NEW ds \in [Peers -> Chains], AllGrown(cs, ds),
         NEW sc, NEW ev, NEW evs, NEW cl, ObserverOK(cs, sc, ev, evs, cl)
  PROVE  ObserverOK(ds, sc, ev, evs, cl)
<1>1. \A sw : SyncOK(cs, sw) => SyncOK(ds, sw)
  BY SyncGrows DEF SyncOK
<1>2. ASSUME NEW p \in Peers PROVE sc[p] <= Len(ds[p])
  <2>1. Len(cs[p]) <= Len(ds[p]) /\ Len(cs[p]) \in Nat /\ Len(ds[p]) \in Nat
    BY ChainFacts DEF AllGrown, Grown
  <2>2. sc[p] \in Nat /\ sc[p] <= Len(cs[p])
    BY DEF ObserverOK
  <2> QED
    BY <2>1, <2>2
<1> QED
  BY <1>1, <1>2 DEF ObserverOK

\* A peer that mines grows its chain, a micro block in place of the tip included.
LEMMA MineGrows ==
  ASSUME LoadInv, NEW p \in Peers, MineKeyBlock(p) \/ MineMicroBlock(p)
  PROVE  chain' \in [Peers -> Chains] /\ AllGrown(chain, chain')
<1> DEFINE c == chain[p]
<1>1. c \in Chains /\ c \in Seq(Slots) /\ Len(c) \in Nat /\ Len(c) >= 1 /\ chain \in [Peers -> Chains]
  BY ChainFacts DEF LoadInv, ChainsOK
<1>2. c[Len(c)] \in Slots
  BY <1>1
<1>3. ASSUME NEW d \in Chains, chain' = [chain EXCEPT ![p] = d], Len(c) <= Len(d),
             \A i \in 1 .. Len(c) - 1 : c[i] = d[i]
      PROVE  chain' \in [Peers -> Chains] /\ AllGrown(chain, chain')
  <2>1. Grown(c, d)
    <3> HIDE DEF c
    <3> QED
      BY <1>1, <1>3, GrownBegins
  <2>2. \A q \in Peers : Grown(chain[q], chain[q])
    BY <1>1, ChainFacts DEF Grown
  <2> QED
    BY <1>1, <1>3, <2>1, <2>2 DEF AllGrown
<1>4. ASSUME MineKeyBlock(p)
      PROVE  \E d \in Chains : chain' = [chain EXCEPT ![p] = d] /\ Len(c) <= Len(d)
                               /\ \A i \in 1 .. Len(c) - 1 : c[i] = d[i]
  <2>1. PICK m \in 0 .. Micro(chain[p]) :
          chain' = [chain EXCEPT ![p] = Append([chain[p] EXCEPT ![Len(chain[p])].micro = m], [by |-> p, micro |-> 0])]
    BY <1>4, Zenon DEF MineKeyBlock
  <2> DEFINE top == [c[Len(c)] EXCEPT !.micro = m]
             parent == [c EXCEPT ![Len(c)] = top]
             new == [by |-> p, micro |-> 0]
             d == Append(parent, new)
  <2>2. m \in Nat
    BY <1>2 DEF Micro, LastOf, Slots
  <2>3. top \in Slots /\ new \in Slots
    BY <1>2, <2>2 DEF Slots
  <2>4. parent \in Seq(Slots) /\ Len(parent) = Len(c) /\ \A i \in 1 .. Len(c) - 1 : parent[i] = c[i]
    <3> HIDE DEF top
    <3> QED
      BY <1>1, <2>3, ExceptSeq
  <2>5. chain' = [chain EXCEPT ![p] = d]
    BY <2>1
  <2> HIDE DEF parent, new
  <2>6. d \in Seq(Slots) /\ Len(d) = Len(c) + 1 /\ \A i \in 1 .. Len(c) : d[i] = parent[i]
    BY <1>1, <2>3, <2>4, AppendProperties
  <2>7. d \in Chains
    BY <1>1, <2>6, LongerThanEmpty DEF Chains
  <2>8. Len(c) <= Len(d) /\ \A i \in 1 .. Len(c) - 1 : c[i] = d[i]
    BY <1>1, <2>4, <2>6
  <2> HIDE DEF d
  <2> QED
    BY <2>5, <2>7, <2>8, Zenon
<1>5. ASSUME MineMicroBlock(p)
      PROVE  \E d \in Chains : chain' = [chain EXCEPT ![p] = d] /\ Len(c) <= Len(d)
                               /\ \A i \in 1 .. Len(c) - 1 : c[i] = d[i]
  <2> DEFINE top == [c[Len(c)] EXCEPT !.micro = @ + 1]
             d == [c EXCEPT ![Len(c)] = top]
  <2>1. chain' = [chain EXCEPT ![p] = d]
    BY <1>5 DEF MineMicroBlock
  <2>2. top \in Slots
    BY <1>2 DEF Slots
  <2>3. d \in Seq(Slots) /\ Len(d) = Len(c) /\ \A i \in 1 .. Len(c) - 1 : d[i] = c[i]
    <3> HIDE DEF top
    <3> QED
      BY <1>1, <2>2, ExceptSeq
  <2> HIDE DEF top, d
  <2>4. d \in Chains
    BY <1>1, <2>3, LongerThanEmpty DEF Chains
  <2>5. Len(c) <= Len(d) /\ \A i \in 1 .. Len(c) - 1 : c[i] = d[i]
    BY <1>1, <2>3
  <2> QED
    BY <2>1, <2>4, <2>5, Zenon
<1> HIDE DEF c
<1> QED
  BY <1>3, <1>4, <1>5
-----------------------------------------------------------------------------
(* Asking for ids *)

\* The last n elements of a sequence, backwards
LEMMA BackwardsFacts ==
  ASSUME NEW T, NEW s \in Seq(T), NEW n \in 0 .. Len(s)
  PROVE  /\ Backwards(s, n) \in Seq(T) /\ Len(Backwards(s, n)) = n
         /\ n >= 1 => Backwards(s, n)[1] = LastOf(s)
<1>1. Len(s) \in Nat /\ n \in Nat /\ n <= Len(s)
  OBVIOUS
<1>2. \A i \in 1 .. n : Len(s) - i + 1 \in 1 .. Len(s)
  BY <1>1
<1>3. \A i \in 1 .. n : s[Len(s) - i + 1] \in T
  BY <1>2
<1>4. Backwards(s, n) \in Seq(T) /\ Len(Backwards(s, n)) = n
  BY <1>1, <1>3 DEF Backwards
<1>5. n >= 1 => Backwards(s, n)[1] = LastOf(s)
  BY <1>1 DEF Backwards, LastOf
<1> QED
  BY <1>4, <1>5

\* The loader never offers more than MaxIds - 1 ids of its own chain.
LEMMA LastBlockIdsFacts ==
  ASSUME local \in Chains
  PROVE  /\ LastBlockIds \in Seq(Chains)
         /\ Len(LastBlockIds) \in Nat /\ Len(LastBlockIds) < MaxIds
<1> DEFINE ids == Ids(local)
           n == Len(local) - SyncBoundary + 1
<1>1. Len(local) \in Nat /\ Len(local) >= 1 /\ ids \in Seq(Chains) /\ Len(ids) = Len(local)
  BY ChainFacts, IdsFacts
<1> HIDE DEF ids
<1>2. n \in Nat /\ n <= MaxRollback + 1 /\ n <= Len(local)
  <2>1. MaxRollback \in Nat
    BY LoaderAssumption
  <2>2. CASE Len(local) > MaxRollback
    BY <1>1, <2>1, <2>2 DEF SyncBoundary
  <2>3. CASE ~(Len(local) > MaxRollback)
    BY <1>1, <2>1, <2>3 DEF SyncBoundary
  <2> QED
    BY <2>2, <2>3
<1> HIDE DEF n
<1>3. Backwards(ids, n) \in Seq(Chains) /\ Len(Backwards(ids, n)) = n
  BY <1>1, <1>2, BackwardsFacts
<1> QED
  BY <1>2, <1>3, LoaderAssumption DEF LastBlockIds, ids, n

\* The anchors are ids of blocks, the last of the extension being applied among them
LEMMA AnchorsFacts ==
  ASSUME local \in Chains, NEW cs, NEW a, ApplierOK(cs, a)
  PROVE  /\ Anchors(a) \in Seq(Chains)
         /\ a # Idle => LastOf(a.ext.blocks) \in Range(Anchors(a))
<1>1. LastBlockIds \in Seq(Chains) /\ Len(LastBlockIds) \in Nat /\ Len(LastBlockIds) < MaxIds
  BY LastBlockIdsFacts
<1>2. CASE a = Idle
  BY <1>1, <1>2 DEF Anchors, Idle
<1>3. CASE a # Idle
  <2> DEFINE blocks == a.ext.blocks
             room == MaxIds - Len(LastBlockIds)
             n == Minimum(room, Len(blocks))
             hint == Backwards(blocks, n)
             rest == KeepIn(LastBlockIds, Range(LastBlockIds) \ Range(hint))
  <2>1. a.st = "Applying" /\ blocks \in Seq(Chains) /\ blocks # <<>>
    BY <1>3, ApplyingBusy DEF ApplierOK, ExtOK, Exts, LoadOK, Linked
  <2>2. Anchors(a) = hint \o rest
    BY <2>1 DEF Anchors
  <2> HIDE DEF blocks
  <2>3. Len(blocks) \in Nat /\ Len(blocks) >= 1
    BY <2>1, EmptySeq
  <2>5. n \in Nat /\ n >= 1 /\ n <= Len(blocks)
    BY <1>1, <2>3, LoaderAssumption DEF Minimum
  <2> HIDE DEF n
  <2>6. hint \in Seq(Chains) /\ Len(hint) = n /\ hint[1] = LastOf(blocks)
    BY <2>1, <2>3, <2>5, BackwardsFacts
  <2> HIDE DEF hint
  <2>7. rest \in Seq(Chains)
    BY <1>1, KeepInType
  <2> HIDE DEF rest
  <2>8. /\ hint \o rest \in Seq(Chains) /\ Len(hint \o rest) = Len(hint) + Len(rest)
        /\ (hint \o rest)[1] = hint[1]
    BY <2>5, <2>6, <2>7
  <2>9. 1 \in DOMAIN (hint \o rest)
    BY <2>5, <2>6, <2>7, <2>8
  <2>10. LastOf(blocks) \in Range(hint \o rest)
    BY <2>6, <2>8, <2>9 DEF Range
  <2> QED
    BY <2>2, <2>8, <2>10 DEF blocks
<1> QED
  BY <1>2, <1>3

\* syncNext asks on top of the extension being applied.
LEMMA ThenSyncNextOK ==
  ASSUME chain \in [Peers -> Chains], local \in Chains,
         NEW pending, NEW l, NEW a, NEW sw,
         RequestsOK(pending), LoaderOK(chain, l), ApplierOK(chain, a), Anchored(l, a), SyncOK(chain, sw),
         ThenSyncNext(pending, l, a, sw)
  PROVE  /\ LoaderOK(chain, loader') /\ RequestsOK(requests') /\ Anchored(loader', a)
         /\ applier' = a
<1> DEFINE known == Anchors(a)
<1>1. known \in Seq(Chains) /\ (a # Idle => LastOf(a.ext.blocks) \in Range(known))
  BY AnchorsFacts
<1>2. LoaderOK(chain, Idle) /\ Anchored(Idle, a)
  BY SMTT(30) DEF LoaderOK, Anchored, Idle
<1>3. /\ loader' = SyncNext(l, a, sw).loader /\ applier' = a
      /\ requests' = pending \cup SyncNext(l, a, sw).ask
  BY DEF ThenSyncNext
<1>4. CASE SyncNext(l, a, sw) = [loader |-> Idle, ask |-> {}]
  BY <1>2, <1>3, <1>4
<1>5. CASE SyncNext(l, a, sw) = [loader |-> l, ask |-> {}]
  BY <1>3, <1>5
<1>6. CASE /\ sw # None
           /\ SyncNext(l, a, sw) = [loader |-> ExpectingSignatures(sw, known), ask |-> {GetBlockIds(sw.ch, known)}]
  <2> HIDE DEF known
  <2>1. loader' = ExpectingSignatures(sw, known) /\ requests' = pending \cup {GetBlockIds(sw.ch, known)}
    BY <1>3, <1>6
  <2>2. sw \in Syncs /\ Announced(chain, sw)
    BY <1>6, SMTT(30) DEF SyncOK, Announced
  <2>3. loader' \in SigsStates /\ loader'.sw = sw /\ loader'.known = known
    BY <1>1, <2>1, <2>2 DEF ExpectingSignatures, SigsStates
  <2>4. RequestOK(GetBlockIds(sw.ch, known))
    BY <1>1 DEF RequestOK, GetBlockIds
  <2> QED
    BY <1>1, <1>3, <2>1, <2>2, <2>3, <2>4, Zenon DEF LoaderOK, RequestsOK, Anchored
<1> QED
  BY <1>4, <1>5, <1>6, Zenon DEF SyncNext

\* What a load ends with
LEMMA LoadingFinishedOK ==
  ASSUME NoneIsNothing, LoadInv, NEW pending, NEW ext, RequestsOK(pending), ExtOK(chain, ext),
         ExtensionLoadingFinished(pending, ext)
  PROVE  /\ LoaderOK(chain, loader') /\ RequestsOK(requests') /\ ApplierOK(chain, applier')
         /\ MaybeExtOK(chain, job') /\ Anchored(loader', applier')
<1>1. LoaderOK(chain, Idle) /\ \A a : Anchored(Idle, a)
  BY DEF LoaderOK, Anchored, Idle
<1>2. CASE applier = Idle
  <2>1. job' = ext /\ ThenSyncNext(pending, Idle, Applying(None, ext), LastSyncWith)
    BY <1>2 DEF ExtensionLoadingFinished
  <2>2. ApplierOK(chain, Applying(None, ext))
    <3> DEFINE a == Applying(None, ext)
    <3>1. a.buf = None /\ a.ext = ext
      BY ApplyingBusy, Zenon
    <3>2. a = Applying(a.buf, a.ext)
      BY <3>1, Zenon
    <3>3. ExtOK(chain, a.ext) /\ MaybeExtOK(chain, a.buf)
      BY <3>1, Zenon DEF MaybeExtOK
    <3> HIDE DEF a
    <3>4. ApplierOK(chain, a)
      BY <3>2, <3>3, Zenon DEF ApplierOK
    <3> QED
      BY <3>4 DEF a
  <2>3. SyncOK(chain, LastSyncWith) /\ chain \in [Peers -> Chains] /\ local \in Chains
    BY DEF LoadInv, ObserverOK, LastSyncWith, ChainsOK
  <2>4. /\ LoaderOK(chain, loader') /\ RequestsOK(requests') /\ Anchored(loader', Applying(None, ext))
        /\ applier' = Applying(None, ext)
    BY <1>1, <2>1, <2>2, <2>3, ThenSyncNextOK
  <2> QED
    BY <2>1, <2>2, <2>4 DEF MaybeExtOK
<1>3. CASE applier # Idle
  <2>1. /\ loader' = Idle /\ requests' = pending /\ job' = job
        /\ applier' = IF applier.buf = None THEN [applier EXCEPT !.buf = ext] ELSE applier
    BY <1>3 DEF ExtensionLoadingFinished
  <2>2. applier = Applying(applier.buf, applier.ext) /\ ExtOK(chain, applier.ext)
    BY <1>3 DEF LoadInv, ApplierOK
  <2>3. [applier EXCEPT !.buf = ext] = Applying(ext, applier.ext)
    BY <2>2, SMTT(30) DEF Applying
  <2>4. ApplierOK(chain, Applying(ext, applier.ext))
    BY <2>2, ApplyingBusy DEF ApplierOK, MaybeExtOK
  <2>5. ApplierOK(chain, applier')
    BY <2>1, <2>3, <2>4 DEF LoadInv
  <2> QED
    BY <1>1, <2>1, <2>5 DEF LoadInv
<1> QED
  BY <1>2, <1>3
=============================================================================
