------------------------- MODULE ExtensionLinkProofs -------------------------
(***************************************************************************)
(* LoadInv is inductive, one lemma per step of the loader and of those it  *)
(* works with, and what follows from it: extensions are linked, asked for  *)
(* on top of one another, and adopted only towards a longer chain.         *)
(***************************************************************************)
EXTENDS ExtensionLoaderProofs

-----------------------------------------------------------------------------
(* The steps *)

\* The invariant holds at first.
LEMMA InitLoadInv == ASSUME Init PROVE LoadInv
<1>1. chain \in [Peers -> Chains] /\ local \in Chains /\ open \subseteq Peers
  BY ChainAssumption DEF Init
<1>2. ObserverOK(chain, scores, event, events, closing)
  <2>1. \A p \in Peers : scores[p] = 0 /\ Len(chain[p]) \in Nat
    BY <1>1, ChainFacts DEF Init
  <2>2. scores \in [Peers -> Nat] /\ event.sw = None /\ event \in Events
    BY DEF Init, Events
  <2>3. events = <<>> /\ closing = <<>>
    BY DEF Init
  <2> QED
    BY <2>1, <2>2, <2>3 DEF ObserverOK, SyncOK
<1>3. requests = {} /\ loader = Idle /\ applier = Idle /\ job = None
  BY DEF Init
<1>4. Anchored(Idle, Idle)
  BY DEF Anchored
<1> QED
  BY <1>1, <1>2, <1>3, <1>4 DEF LoadInv, ChainsOK, RequestsOK, LoaderOK, ApplierOK, MaybeExtOK

\* Nothing the invariant speaks of changes but the local chain
LEMMA SameOK ==
  ASSUME LoadInv, UNCHANGED <<chain, open, scores, event, events, closing, loader, applier, job, requests>>,
         local' \in Chains
  PROVE  LoadInv'
BY DEF LoadInv, ChainsOK

\* A peer mines: nothing the loader relies on is taken back.
LEMMA MineOK ==
  ASSUME LoadInv, NEW p \in Peers, MineKeyBlock(p) \/ MineMicroBlock(p)
  PROVE  LoadInv'
<1>1. UNCHANGED <<local, open, scores, event, events, closing, loader, applier, job, requests>>
  BY DEF MineKeyBlock, MineMicroBlock, observerVars
<1>2. chain' \in [Peers -> Chains] /\ AllGrown(chain, chain') /\ chain \in [Peers -> Chains]
  BY MineGrows DEF LoadInv, ChainsOK
<1>3. \A e : MaybeExtOK(chain, e) => MaybeExtOK(chain', e)
  BY <1>2, ExtGrows DEF MaybeExtOK
<1>4. ApplierOK(chain', applier)
  BY <1>2, <1>3, ExtGrows DEF ApplierOK, LoadInv
<1>5. LoaderOK(chain', loader) /\ ObserverOK(chain', scores, event, events, closing)
  BY <1>2, LoaderGrows, ObserverGrows DEF LoadInv
<1> QED
  BY <1>1, <1>2, <1>3, <1>4, <1>5 DEF LoadInv, ChainsOK

\* A blacklisted channel is closed.
LEMMA BlacklistOK ==
  ASSUME LoadInv, NEW p \in Peers, NEW reason, NEW n \in Nat, Blacklist(p, reason, n)
  PROVE  open' \subseteq Peers /\ closing' \in Seq(Peers)
<1> DEFINE k == n + (IF p \in open THEN 1 ELSE 0)
           more == [i \in 1 .. k |-> p]
<1>1. k \in Nat
  OBVIOUS
<1>2. open' = open \ {p} /\ closing' = closing \o more
  BY DEF Blacklist
<1> HIDE DEF k
<1>3. more \in Seq(Peers)
  BY <1>1
<1> HIDE DEF more
<1> QED
  BY <1>2, <1>3 DEF LoadInv, ObserverOK

\* The timer of a load fires.
LEMMA TimeoutOK ==
  ASSUME LoadInv, NEW p \in Peers, Timeout(p)
  PROVE  LoadInv'
<1>1. /\ WithPeer(loader) /\ loader' = [loader EXCEPT !.timer = FALSE] /\ Blacklist(p, "timeout", 1)
      /\ UNCHANGED <<chain, local, scores, event, events, applier, job, requests>>
  BY DEF Timeout, observerVars
<1>2. open' \subseteq Peers /\ closing' \in Seq(Peers)
  BY <1>1, BlacklistOK
<1>3. loader # Idle
  BY <1>1 DEF WithPeer, Idle
<1>4. LoaderOK(chain, loader') /\ Anchored(loader', applier)
  <2>1. CASE loader \in SigsStates /\ Announced(chain, loader.sw)
    <3>1. loader' \in SigsStates /\ loader'.sw = loader.sw /\ loader'.known = loader.known /\ loader.st = "Sigs"
      BY <1>1, <2>1, Zenon DEF SigsStates
    <3> QED
      BY <2>1, <3>1 DEF LoadInv, LoaderOK, Anchored
  <2>2. CASE /\ loader \in BlocksStates /\ Announced(chain, loader.sw)
             /\ LoadOK(chain[loader.sw.ch], loader.sw.score, loader.all)
             /\ Range(loader.all) \subseteq loader.expected \cup loader.received
    <3>1. /\ loader' \in BlocksStates /\ loader'.sw = loader.sw /\ loader'.all = loader.all
          /\ loader'.expected = loader.expected /\ loader'.received = loader.received /\ loader'.st = "Blocks"
      BY <1>1, <2>2, Zenon DEF BlocksStates
    <3> QED
      BY <2>2, <3>1 DEF LoaderOK, Anchored
  <2> QED
    BY <1>3, <2>1, <2>2 DEF LoadInv, LoaderOK
<1> QED
  BY <1>1, <1>2, <1>4 DEF LoadInv, ObserverOK, ChainsOK

\* The observer announces no more than the peer has
LEMMA PublishOK ==
  ASSUME LoadInv, NEW closed \in Peers \cup {None}, NEW current, Publish(closed, current),
         scores' \in [Peers -> Nat], \A p \in Peers : scores'[p] <= Len(chain[p]), closing' \in Seq(Peers)
  PROVE  LoadInv'
<1>1. PICK sw \in CalcSyncWith(current, localScore', scores') :
        LET cc == [closed |-> closed, sw |-> sw]
        IN  IF cc = event THEN UNCHANGED <<event, events>>
            ELSE event' = cc /\ events' = Append(events, cc)
  BY DEF Publish
<1>2. SyncOK(chain, sw)
  <2> DEFINE top == {p \in Peers : scores'[p] > 0 /\ \A q \in Peers : scores'[q] <= scores'[p]}
  <2>1. sw = None \/ \E p \in top : sw = [ch |-> p, score |-> scores'[p]]
    BY <1>1 DEF CalcSyncWith
  <2>2. CASE sw # None
    <3>1. PICK p \in Peers : sw = [ch |-> p, score |-> scores'[p]]
      BY <2>1, <2>2
    <3> QED
      BY <3>1 DEF SyncOK, Announced, Syncs
  <2> QED
    BY <2>2 DEF SyncOK
<1> DEFINE cc == [closed |-> closed, sw |-> sw]
<1>3. cc \in Events /\ cc.sw = sw
  BY <1>2 DEF Events, SyncOK, Announced
<1>4. UNCHANGED <<event, events>> \/ (event' = cc /\ events' = Append(events, cc))
  BY <1>1
<1> HIDE DEF cc
<1>5. event' \in Events /\ SyncOK(chain, event'.sw) /\ events' \in Seq(Events)
  <2>1. event \in Events /\ SyncOK(chain, event.sw) /\ events \in Seq(Events)
    BY DEF LoadInv, ObserverOK
  <2>2. CASE UNCHANGED <<event, events>>
    BY <2>1, <2>2
  <2>3. CASE event' = cc /\ events' = Append(events, cc)
    BY <1>2, <1>3, <2>1, <2>3
  <2> QED
    BY <1>4, <2>2, <2>3
<1>6. \A i \in 1 .. Len(events') : SyncOK(chain, events'[i].sw)
  <2>1. CASE UNCHANGED events
    BY <2>1 DEF LoadInv, ObserverOK
  <2>2. CASE events' = Append(events, cc)
    <3>1. events \in Seq(Events) /\ \A i \in 1 .. Len(events) : SyncOK(chain, events[i].sw)
      BY DEF LoadInv, ObserverOK
    <3>2. \A i \in 1 .. Len(events') : events'[i] = (IF i <= Len(events) THEN events[i] ELSE cc)
      BY <1>3, <2>2, <3>1
    <3>3. \A i \in 1 .. Len(events') : events'[i] = cc \/ (i \in 1 .. Len(events) /\ events'[i] = events[i])
      BY <1>3, <2>2, <3>1, <3>2
    <3> QED
      BY <1>2, <1>3, <3>1, <3>3
  <2> QED
    BY <1>4, <2>1, <2>2
<1>7. UNCHANGED <<chain, local, open, loader, applier, job, requests>>
  BY DEF Publish
<1> QED
  BY <1>5, <1>6, <1>7 DEF LoadInv, ObserverOK, ChainsOK

\* The score observer takes in a score or the end of a channel.
LEMMA ScoresOK ==
  ASSUME LoadInv, LocalScoreChanged \/ ChannelEnded \/ \E p \in Peers : RemoteScoreChanged(p)
  PROVE  LoadInv'
<1>1. /\ scores \in [Peers -> Nat] /\ \A q \in Peers : scores[q] <= Len(chain[q])
      /\ closing \in Seq(Peers) /\ \A q \in Peers : Len(chain[q]) \in Nat
  BY ChainFacts DEF LoadInv, ObserverOK, ChainsOK
<1>2. CASE LocalScoreChanged
  BY <1>1, <1>2, PublishOK, Zenon DEF LocalScoreChanged
<1>3. ASSUME NEW p \in Peers, RemoteScoreChanged(p) PROVE LoadInv'
  <2>1. /\ scores' = [scores EXCEPT ![p] = Len(chain[p])] /\ closing' = closing /\ Publish(None, best)
    BY <1>3 DEF RemoteScoreChanged, Score
  <2>2. scores' \in [Peers -> Nat] /\ \A q \in Peers : scores'[q] <= Len(chain[q])
    BY <1>1, <2>1
  <2> QED
    BY <1>1, <2>1, <2>2, PublishOK, Zenon
<1>4. CASE ChannelEnded
  <2> DEFINE q == Head(closing)
  <2>1. /\ closing # <<>> /\ scores' = [scores EXCEPT ![q] = 0] /\ closing' = Tail(closing)
        /\ Publish(q, IF best = q THEN None ELSE best)
    BY <1>4 DEF ChannelEnded
  <2>2. q \in Peers /\ closing' \in Seq(Peers)
    BY <1>1, <2>1
  <2> HIDE DEF q
  <2>3. scores' \in [Peers -> Nat] /\ \A r \in Peers : scores'[r] <= Len(chain[r])
    BY <1>1, <2>1, <2>2
  <2> QED
    BY <2>1, <2>2, <2>3, PublishOK
<1> QED
  BY <1>2, <1>3, <1>4

\* The loader takes the observer's next event.
LEMMA SyncWithOK ==
  ASSUME LoadInv, OnNewSyncWithChannelClosed
  PROVE  LoadInv'
<1> DEFINE sw == Head(events).sw
<1>1. /\ events # <<>> /\ events' = Tail(events)
      /\ UNCHANGED <<chain, local, open, scores, event, closing, job>>
  BY DEF OnNewSyncWithChannelClosed, observerVars
<1>2. /\ events \in Seq(Events) /\ \A i \in 1 .. Len(events) : SyncOK(chain, events[i].sw)
      /\ chain \in [Peers -> Chains] /\ local \in Chains
  BY DEF LoadInv, ObserverOK, ChainsOK
<1>3. SyncOK(chain, sw)
  <2>1. 1 \in 1 .. Len(events) /\ Head(events) = events[1]
    BY <1>1, <1>2
  <2> QED
    BY <1>2, <2>1
<1>4. events' \in Seq(Events) /\ \A i \in 1 .. Len(events') : SyncOK(chain, events'[i].sw)
  <2>1. events' \in Seq(Events) /\ \A i \in 1 .. Len(events') : i + 1 \in 1 .. Len(events) /\ events'[i] = events[i + 1]
    BY <1>1, <1>2
  <2> QED
    BY <1>2, <2>1
<1>5. \/ Leave(requests, Idle) \/ Leave(requests, loader)
      \/ ThenSyncNext(requests, loader, applier, sw) \/ ThenSyncNext(requests, Idle, applier, sw)
  BY DEF OnNewSyncWithChannelClosed
<1> HIDE DEF sw
<1>6. /\ LoaderOK(chain, Idle) /\ LoaderOK(chain, loader) /\ ApplierOK(chain, applier) /\ RequestsOK(requests)
      /\ Anchored(loader, applier) /\ Anchored(Idle, applier)
  BY DEF LoadInv, LoaderOK, Anchored, Idle
<1>7. LoaderOK(chain, loader') /\ RequestsOK(requests') /\ Anchored(loader', applier') /\ applier' = applier
  <2>1. CASE Leave(requests, Idle) \/ Leave(requests, loader)
    BY <1>6, <2>1 DEF Leave
  <2>2. CASE ThenSyncNext(requests, loader, applier, sw)
    BY <1>2, <1>3, <1>6, <2>2, ThenSyncNextOK
  <2>3. CASE ThenSyncNext(requests, Idle, applier, sw)
    BY <1>2, <1>3, <1>6, <2>3, ThenSyncNextOK
  <2> QED
    BY <1>5, <2>1, <2>2, <2>3
<1> QED
  BY <1>1, <1>4, <1>7 DEF LoadInv, ObserverOK, ChainsOK


\* A run of a peer's ids is linked, persisted but for its last, and reaches what was
\* announced if it ends at the tip.
LEMMA RunLoad ==
  ASSUME NEW c \in Chains, NEW h \in 1 .. Len(c), NEW k \in h .. Len(c),
         NEW r, r = SubSeq(Ids(c), h, k), NEW score \in Nat, score <= Len(c)
  PROVE  r \in Seq(Chains) /\ LoadOK(c, score, r)
<1>1. r \in Seq(Chains) /\ Linked(r)
  BY RunFacts, Zenon
<1>2. \A i \in 1 .. Len(r) - 1 : Persisted(c, r[i])
  BY RunFacts, Zenon
<1>3. Reaches(c, LastOf(r), Len(c))
  BY RunFacts, Zenon
<1>4. Reaches(c, LastOf(r), score)
  <2>1. LastOf(r) \in Chains
    <3>1. Len(r) \in 1 .. Len(r)
      BY <1>1, EmptySeq DEF Linked
    <3> QED
      BY <1>1, <3>1 DEF LastOf
  <2>2. Len(LastOf(r)) \in Nat /\ Len(c) \in Nat
    BY <2>1, ChainFacts
  <2> QED
    BY <1>3, <2>2 DEF Reaches
<1> QED
  BY <1>1, <1>2, <1>4, Zenon DEF LoadOK

\* The ids after the known ones, of an answer: a load
LEMMA SignaturesLoad ==
  ASSUME LoadInv, NEW p \in Peers, NEW candidates \in Seq(Chains), NEW ids, ids = BlockIdsAfter(p, candidates),
         ids # <<>>, NEW u \in 1 .. Len(ids), NEW score \in Nat, score <= Len(chain[p])
  PROVE  /\ SubSeq(ids, u, Len(ids)) \in Seq(Chains)
         /\ LoadOK(chain[p], score, SubSeq(ids, u, Len(ids)))
<1> DEFINE c == chain[p]
           all == SubSeq(ids, u, Len(ids))
<1>1. chain \in [Peers -> Chains] /\ c \in Chains /\ Len(c) \in Nat
  BY ChainFacts DEF LoadInv, ChainsOK
<1>2. PICK h \in 1 .. Len(c) : \E k \in h .. Len(c) : ids = SubSeq(Ids(c), h, k)
  BY <1>1, BlockIdsAfterRun
<1>3. PICK k \in h .. Len(c) : ids = SubSeq(Ids(c), h, k)
  BY <1>2
<1> HIDE DEF c
<1>4. Len(ids) = k - h + 1 /\ all = SubSeq(Ids(c), h + u - 1, k)
  BY <1>1, <1>3, RunFacts
<1> DEFINE n == h + u - 1
<1>5. n \in 1 .. Len(c) /\ k \in n .. Len(c) /\ all = SubSeq(Ids(c), n, k)
  BY <1>1, <1>4
<1> HIDE DEF n, all
<1>6. score \in Nat /\ score <= Len(c)
  BY DEF c
<1>7. all \in Seq(Chains) /\ LoadOK(c, score, all)
  BY <1>1, <1>5, <1>6, RunLoad, Zenon
<1> QED
  BY <1>7 DEF c, all

\* An answer with ids has ids of chains.
LEMMA SignaturesType ==
  ASSUME chain \in [Peers -> Chains], NEW p \in Peers, NEW candidates \in Seq(Chains),
         BlockIdsAfter(p, candidates) # <<>>
  PROVE  BlockIdsAfter(p, candidates) \in Seq(Chains)
<1> DEFINE c == chain[p]
<1>1. c \in Chains
  OBVIOUS
<1>2. PICK h \in 1 .. Len(c) : \E k \in h .. Len(c) : BlockIdsAfter(p, candidates) = SubSeq(Ids(c), h, k)
  BY BlockIdsAfterRun
<1>3. PICK k \in h .. Len(c) : BlockIdsAfter(p, candidates) = SubSeq(Ids(c), h, k)
  BY <1>2
<1> HIDE DEF c
<1> QED
  BY <1>1, <1>3, RunFacts, Zenon

\* onNewSignatures: the ids left to load are the end of a run, so they are linked.
LEMMA SignaturesOK ==
  ASSUME LoadInv, NEW q, RequestOK(q), q.ch \in open, NEW pending, RequestsOK(pending),
         NEW m, m = HistoryReply(q), OnNewSignatures(m, pending)
  PROVE  LoadInv'
<1>1. /\ m.type = "BlockIds"
      /\ UNCHANGED <<chain, local, scores, event, events, job>>
  BY Zenon DEF OnNewSignatures, observerVars
<1>2. /\ q.type = "GetBlockIds" /\ q.ids \in Seq(Chains)
      /\ m.ch = q.ch /\ m.ids = BlockIdsAfter(q.ch, q.ids)
  <2>1. q.type = "GetBlockIds"
    BY <1>1, SMTT(30) DEF HistoryReply, Block, BlockNotFound
  <2> QED
    BY <2>1 DEF RequestOK, HistoryReply, BlockIds
<1>3. m.ch \in Peers /\ chain \in [Peers -> Chains] /\ local \in Chains /\ SyncOK(chain, LastSyncWith)
  BY <1>2, SMTT(30) DEF LoadInv, ChainsOK, ObserverOK, LastSyncWith
<1>4. LoaderOK(chain, Idle) /\ Anchored(Idle, applier) /\ ApplierOK(chain, applier)
  BY DEF LoaderOK, Anchored, Idle, LoadInv
<1>5. CASE Leave(pending, loader) /\ UNCHANGED <<open, closing>>
  BY <1>1, <1>5, SMTT(30) DEF Leave, LoadInv, ChainsOK
<1>6. ASSUME NEW reason, Blacklist(m.ch, reason, 0), ThenSyncNext(pending, Idle, applier, LastSyncWith)
      PROVE  LoadInv'
  <2>1. open' \subseteq Peers /\ closing' \in Seq(Peers)
    BY <1>3, <1>6, BlacklistOK
  <2>2. LoaderOK(chain, loader') /\ RequestsOK(requests') /\ Anchored(loader', applier) /\ applier' = applier
    BY <1>3, <1>4, <1>6, ThenSyncNextOK
  <2> QED
    BY <1>1, <2>1, <2>2 DEF LoadInv, ObserverOK, ChainsOK
<1>7. CASE loader' = Idle /\ requests' = pending /\ UNCHANGED <<open, closing, applier>>
  BY <1>1, <1>4, <1>7 DEF LoadInv, ChainsOK
<1> DEFINE unknown == First({i \in DOMAIN m.ids : m.ids[i] \notin Range(loader.known)})
           all == SubSeq(m.ids, unknown, Len(m.ids))
<1>8. CASE /\ ExpectsIds(m.ch) /\ m.ids # <<>> /\ unknown # 0
           /\ loader' = ExpectingBlocks(loader.sw, all, Range(all), {}, FALSE)
           /\ requests' = pending \cup {GetBlock(m.ch, id) : id \in Range(all)}
           /\ UNCHANGED <<open, closing, applier>>
  <2>1. unknown \in 1 .. Len(m.ids)
    <3> DEFINE I == {i \in DOMAIN m.ids : m.ids[i] \notin Range(loader.known)}
    <3>1. m.ids \in Seq(Chains)
      BY <1>2, <1>3, <1>8, SignaturesType
    <3>2. I \in SUBSET (1 .. Len(m.ids)) /\ Len(m.ids) \in Nat
      BY <3>1
    <3>3. unknown = First(I)
      BY SMTT(30)
    <3> HIDE DEF I, unknown
    <3> QED
      BY <1>8, <3>2, <3>3, FirstIndex, SMTT(30)
  <2>2. /\ loader.sw \in Syncs /\ loader.sw.ch = m.ch /\ Announced(chain, loader.sw)
    <3>1. loader.st = "Sigs" /\ loader.sw.ch = m.ch
      BY <1>8 DEF ExpectsIds
    <3>2. loader # Idle
      BY <3>1 DEF Idle
    <3> QED
      BY <3>1, <3>2, SMTT(30) DEF LoadInv, LoaderOK, Announced
  <2>3. loader.sw.score \in Nat /\ loader.sw.score <= Len(chain[m.ch])
    BY <2>2 DEF Announced, Syncs
  <2> HIDE DEF unknown
  <2>4. all \in Seq(Chains) /\ LoadOK(chain[m.ch], loader.sw.score, all)
    <3> DEFINE ids == m.ids
               score == loader.sw.score
               p == m.ch
    <3>1. ids = BlockIdsAfter(p, q.ids) /\ ids # <<>> /\ unknown \in 1 .. Len(ids) /\ score \in Nat /\ score <= Len(chain[p])
          /\ p \in Peers
      BY <1>2, <1>3, <1>8, <2>1, <2>3, SMTT(30)
    <3> HIDE DEF ids, score, p
    <3>2. /\ SubSeq(ids, unknown, Len(ids)) \in Seq(Chains)
          /\ LoadOK(chain[p], score, SubSeq(ids, unknown, Len(ids)))
      BY <1>2, <3>1, SignaturesLoad
    <3> QED
      BY <3>2, SMTT(30) DEF ids, score, p
  <2> HIDE DEF all
  <2>5. Range(all) \subseteq Chains
    BY <2>4, SMTT(30) DEF Range
  <2> DEFINE l == ExpectingBlocks(loader.sw, all, Range(all), {}, FALSE)
  <2>6. /\ l \in BlocksStates /\ l.sw = loader.sw /\ l.all = all /\ l.expected = Range(all) /\ l.st = "Blocks"
    BY <2>2, <2>4, <2>5, SMTT(30) DEF ExpectingBlocks, BlocksStates
  <2> HIDE DEF l
  <2>7. LoaderOK(chain, l) /\ Anchored(l, applier)
    BY <2>2, <2>4, <2>6 DEF LoaderOK, Anchored
  <2>8. RequestsOK(requests')
    <3>1. \A id \in Range(all) : RequestOK(GetBlock(m.ch, id))
      BY <2>5 DEF RequestOK, GetBlock
    <3> QED
      BY <1>8, <3>1 DEF RequestsOK
  <2> QED
    BY <1>1, <1>8, <2>7, <2>8, Zenon DEF LoadInv, ChainsOK, l
<1> HIDE DEF unknown, all
<1> QED
  <2>1. \/ Leave(pending, loader) /\ UNCHANGED <<open, blacklisted, closing>>
        \/ /\ Blacklist(m.ch, IF m.ids = <<>> THEN "no ids" ELSE "invalid ids", 0)
           /\ ThenSyncNext(pending, Idle, applier, LastSyncWith)
        \/ /\ ExpectsIds(m.ch) /\ m.ids # <<>>
           /\ UNCHANGED <<open, blacklisted, closing, applier>>
           /\ IF unknown = 0 THEN loader' = Idle /\ requests' = pending
              ELSE /\ loader' = ExpectingBlocks(loader.sw, all, Range(all), {}, FALSE)
                   /\ requests' = pending \cup {GetBlock(m.ch, id) : id \in Range(all)}
    BY Zenon DEF OnNewSignatures, unknown, all
  <2> QED
    BY <1>5, <1>6, <1>7, <1>8, <2>1, Zenon

\* A block for a peer's request, or one that does not belong to a load
LEMMA AppendBlockOK ==
  ASSUME local \in Chains, NEW id \in Chains, AppendBlock(id)
  PROVE  local' \in Chains /\ (Len(local') < Len(local) => FALSE)
<1>1. Len(local) \in Nat
  BY ChainFacts
<1> QED
  BY <1>1 DEF AppendBlock

\* onBlock: the blocks handed to the appender are those that were to be loaded.
LEMMA BlockOK ==
  ASSUME NoneIsNothing, LoadInv, NEW q, RequestOK(q), q.ch \in open, NEW pending, RequestsOK(pending),
         NEW m, m = HistoryReply(q), OnBlock(m, pending)
  PROVE  LoadInv' /\ (Len(local') < Len(local) => FALSE)
<1>1. /\ m.type = "Block"
      /\ UNCHANGED <<chain, open, scores, event, events, closing>>
  BY DEF OnBlock, observerVars
<1>2. m.id \in Chains /\ m.ch = q.ch
  <2>1. q.type # "GetBlockIds" /\ m = Block(q.ch, q.id)
    BY <1>1 DEF HistoryReply, BlockIds, BlockNotFound
  <2> QED
    BY <2>1 DEF RequestOK, Block
<1>3. chain \in [Peers -> Chains] /\ local \in Chains /\ Len(local) \in Nat
  BY ChainFacts DEF LoadInv, ChainsOK
<1>4. CASE Leave(pending, loader) /\ UNCHANGED job /\ AppendBlock(m.id)
  BY <1>1, <1>2, <1>3, <1>4, AppendBlockOK, Zenon DEF Leave, LoadInv, ChainsOK
<1> DEFINE left == loader.expected \ {m.id}
           got == loader.received \cup {m.id}
           ext == Extension(loader.sw, KeepIn(loader.all, got), loader.truncated)
           l == ExpectingBlocks(loader.sw, loader.all, left, got, loader.truncated)
<1>5. CASE /\ ExpectsBlock(m.ch, m.id) /\ UNCHANGED <<local, base>>
           /\ IF left = {} THEN ExtensionLoadingFinished(pending, ext)
              ELSE Leave(pending, l) /\ UNCHANGED job
  <2>1. /\ loader \in BlocksStates /\ Announced(chain, loader.sw)
        /\ LoadOK(chain[loader.sw.ch], loader.sw.score, loader.all)
        /\ Range(loader.all) \subseteq loader.expected \cup loader.received
    <3>1. loader.st = "Blocks"
      BY <1>5 DEF ExpectsBlock
    <3>2. loader # Idle /\ loader \notin SigsStates
      BY <3>1 DEF Idle, SigsStates
    <3> QED
      BY <3>2, SMTT(30) DEF LoadInv, LoaderOK
  <2>2. /\ loader.sw \in Syncs /\ loader.all \in Seq(Chains) /\ loader.truncated \in BOOLEAN
        /\ loader.expected \subseteq Chains /\ loader.received \subseteq Chains
    BY <2>1 DEF BlocksStates
  <2>3. Range(loader.all) \subseteq left \cup got
    BY <2>1
  <2>4. ASSUME left = {} PROVE ExtOK(chain, ext)
    <3>1. \A i \in 1 .. Len(loader.all) : loader.all[i] \in got
      BY <2>2, <2>3, <2>4 DEF Range
    <3> HIDE DEF got
    <3>2. KeepIn(loader.all, got) = loader.all
      BY <2>2, <3>1, KeepAll
    <3>3. ext = [ch |-> loader.sw.ch, score |-> loader.sw.score, blocks |-> loader.all, truncated |-> loader.truncated]
      BY <3>2 DEF Extension
    <3>4. ext \in Exts /\ ext.ch = loader.sw.ch /\ ext.score = loader.sw.score /\ ext.blocks = loader.all
      BY <2>2, <3>3, SMTT(30) DEF Exts, Syncs
    <3> HIDE DEF ext
    <3> QED
      BY <2>1, <3>4 DEF ExtOK, Announced
  <2>5. LoaderOK(chain, l) /\ Anchored(l, applier)
    <3>1. /\ l \in BlocksStates /\ l.sw = loader.sw /\ l.all = loader.all /\ l.expected = left /\ l.received = got
          /\ l.st = "Blocks"
      BY <1>2, <2>2 DEF ExpectingBlocks, BlocksStates
    <3> HIDE DEF l, left, got
    <3> QED
      BY <2>1, <2>3, <3>1, SMTT(30) DEF LoaderOK, Anchored
  <2> HIDE DEF left, got, ext, l
  <2>6. CASE Leave(pending, l) /\ UNCHANGED job
    BY <1>1, <1>3, <1>5, <2>5, <2>6, SMTT(30) DEF Leave, LoadInv, ChainsOK
  <2>7. CASE left = {} /\ ExtensionLoadingFinished(pending, ext)
    <3>1. /\ LoaderOK(chain, loader') /\ RequestsOK(requests') /\ ApplierOK(chain, applier')
          /\ MaybeExtOK(chain, job') /\ Anchored(loader', applier')
      BY <2>4, <2>7, LoadingFinishedOK
    <3> QED
      BY <1>1, <1>3, <1>5, <3>1 DEF LoadInv, ChainsOK
  <2> QED
    BY <1>5, <2>6, <2>7, SMTT(30)
<1> HIDE DEF left, got, ext, l
<1> QED
  <2>1. \/ /\ ExpectsBlock(m.ch, m.id) /\ UNCHANGED <<local, base>>
           /\ IF left = {} THEN ExtensionLoadingFinished(pending, ext)
              ELSE Leave(pending, l) /\ UNCHANGED job
        \/ Leave(pending, loader) /\ UNCHANGED job /\ AppendBlock(m.id)
    BY SMTT(30) DEF OnBlock, left, got, ext, l
  <2> QED
    BY <1>4, <1>5, <2>1, SMTT(30)

\* The blocks before a missing one
LEMMA BeforeLoad ==
  ASSUME NEW c, NEW score, NEW all \in Seq(Chains), LoadOK(c, score, all), NEW id, Before(all, id) # <<>>
  PROVE  /\ Before(all, id) \in Seq(Chains) /\ LoadOK(c, score, Before(all, id))
         /\ Range(Before(all, id)) \subseteq Range(all)
<1> DEFINE I == {i \in DOMAIN all : all[i] = id}
           j == First(I)
           n == j - 1
           s == SubSeq(all, 1, n)
<1>2. j \in 0 .. Len(all)
  <2>1. I \in SUBSET (1 .. Len(all)) /\ Len(all) \in Nat
    OBVIOUS
  <2> HIDE DEF I
  <2> QED
    BY <2>1, FirstIndex
<1>3. Before(all, id) = s
  BY DEF Before
<1> HIDE DEF j
<1>4. n \in Int /\ n < Len(all) /\ Len(all) \in Nat
  BY <1>2
<1>5. n >= 1
  <2>1. CASE n < 1
    <3>1. s = <<>>
      BY <1>4, <2>1
    <3> QED
      BY <1>3, <3>1
  <2> QED
    BY <1>4, <2>1
<1> HIDE DEF n
<1>6. s \in Seq(Chains) /\ Len(s) = n /\ \A i \in 1 .. n : s[i] = all[i]
  BY <1>4, <1>5
<1> HIDE DEF s
<1>7. \A i \in 1 .. n : i \in 1 .. Len(all) - 1 /\ i \in 1 .. Len(all)
  BY <1>4, <1>5
<1>8. \A i \in 1 .. n : Persisted(c, s[i])
  BY <1>6, <1>7 DEF LoadOK
<1>9. Linked(s)
  <2>1. s # <<>>
    BY <1>5, <1>6, LongerThanEmpty
  <2>2. ASSUME NEW i \in 1 .. n - 1 PROVE Parent(s[i + 1]) = s[i]
    <3>1. i \in 1 .. n /\ i + 1 \in 1 .. n /\ i \in 1 .. Len(all) - 1
      BY <1>4, <1>5
    <3> QED
      BY <1>6, <3>1 DEF LoadOK, Linked
  <2> QED
    BY <1>6, <2>1, <2>2 DEF Linked
<1>10. Reaches(c, LastOf(s), score)
  BY <1>4, <1>5, <1>6, <1>8 DEF Reaches, LastOf
<1>11. \A i \in 1 .. Len(s) - 1 : Persisted(c, s[i])
  BY <1>4, <1>6, <1>8
<1>12. Range(s) \subseteq Range(all)
  <2>1. DOMAIN s = 1 .. n /\ DOMAIN all = 1 .. Len(all)
    BY <1>6
  <2> QED
    BY <1>6, <1>7, <2>1 DEF Range
<1> QED
  BY <1>3, <1>6, <1>9, <1>10, <1>11, <1>12 DEF LoadOK

\* A block that is not found cuts the load short: what came before it is still linked.
LEMMA NotFoundOK ==
  ASSUME NoneIsNothing, LoadInv, NEW pending, RequestsOK(pending), NEW m, OnBlockNotFound(m, pending)
  PROVE  LoadInv'
<1>1. UNCHANGED <<chain, local, open, scores, event, events, closing>>
  BY Zenon DEF OnBlockNotFound, observerVars
<1>2. /\ chain \in [Peers -> Chains] /\ local \in Chains /\ SyncOK(chain, LastSyncWith)
      /\ LoaderOK(chain, Idle) /\ Anchored(Idle, applier) /\ ApplierOK(chain, applier)
  BY DEF LoadInv, ChainsOK, ObserverOK, LastSyncWith, LoaderOK, Anchored, Idle
<1>3. CASE Leave(pending, loader) /\ UNCHANGED job
  BY <1>1, <1>3 DEF Leave, LoadInv, ChainsOK
<1>4. CASE ThenSyncNext(pending, Idle, applier, LastSyncWith) /\ UNCHANGED job
  <2>1. LoaderOK(chain, loader') /\ RequestsOK(requests') /\ Anchored(loader', applier) /\ applier' = applier
    BY <1>2, <1>4, ThenSyncNextOK
  <2> QED
    BY <1>1, <1>4, <2>1 DEF LoadInv, ChainsOK
<1> DEFINE prefix == Before(loader.all, m.id)
           left == StillExpected(prefix)
           got == loader.received \cap Range(prefix)
           ext == Extension(loader.sw, KeepIn(prefix, got), TRUE)
           l == ExpectingBlocks(loader.sw, prefix, left, got, TRUE)
<1>5. CASE /\ ExpectsBlock(m.ch, m.id) /\ prefix # <<>>
           /\ IF left = {} THEN ExtensionLoadingFinished(pending, ext)
              ELSE Leave(pending, l) /\ UNCHANGED job
  <2>1. /\ loader \in BlocksStates /\ Announced(chain, loader.sw)
        /\ LoadOK(chain[loader.sw.ch], loader.sw.score, loader.all)
        /\ Range(loader.all) \subseteq loader.expected \cup loader.received
    <3>1. loader.st = "Blocks"
      BY <1>5 DEF ExpectsBlock
    <3>2. loader # Idle /\ loader \notin SigsStates
      BY <3>1, SMTT(30) DEF Idle, SigsStates
    <3> QED
      BY <3>2, Zenon DEF LoadInv, LoaderOK
  <2>2. /\ loader.sw \in Syncs /\ loader.all \in Seq(Chains)
        /\ loader.expected \subseteq Chains /\ loader.received \subseteq Chains
    BY <2>1 DEF BlocksStates
  <2>3. /\ prefix \in Seq(Chains) /\ LoadOK(chain[loader.sw.ch], loader.sw.score, prefix)
        /\ Range(prefix) \subseteq Range(loader.all)
    BY <1>5, <2>1, <2>2, BeforeLoad, Zenon
  <2> HIDE DEF prefix
  <2>4. Range(prefix) \subseteq left \cup got /\ left \subseteq Chains /\ got \subseteq Chains
    BY <2>1, <2>2, <2>3, Zenon DEF StillExpected
  <2>5. ASSUME left = {} PROVE ExtOK(chain, ext)
    <3>1. \A i \in 1 .. Len(prefix) : prefix[i] \in got
      BY <2>3, <2>4, <2>5 DEF Range
    <3> HIDE DEF got
    <3>2. KeepIn(prefix, got) = prefix
      BY <2>3, <3>1, KeepAll
    <3>3. ext = [ch |-> loader.sw.ch, score |-> loader.sw.score, blocks |-> prefix, truncated |-> TRUE]
      BY <3>2 DEF Extension
    <3> HIDE DEF ext
    <3>4. loader.sw.ch \in Peers /\ loader.sw.score \in Nat /\ TRUE \in BOOLEAN
      BY <2>2, SMTT(30) DEF Syncs
    <3>5. ext \in Exts /\ ext.ch = loader.sw.ch /\ ext.score = loader.sw.score /\ ext.blocks = prefix
      BY <2>3, <3>3, <3>4, SMTT(30) DEF Exts
    <3> QED
      BY <2>1, <2>3, <3>5, SMTT(30) DEF ExtOK, Announced
  <2> HIDE DEF left, got
  <2>6. LoaderOK(chain, l) /\ Anchored(l, applier)
    <3>1. /\ l \in BlocksStates /\ l.sw = loader.sw /\ l.all = prefix /\ l.expected = left /\ l.received = got
          /\ l.st = "Blocks"
      BY <2>2, <2>3, <2>4 DEF ExpectingBlocks, BlocksStates
    <3> HIDE DEF l
    <3> QED
      BY <2>1, <2>3, <2>4, <3>1, SMTT(30) DEF LoaderOK, Anchored
  <2> HIDE DEF ext, l
  <2>7. CASE Leave(pending, l) /\ UNCHANGED job
    BY <1>1, <2>6, <2>7 DEF Leave, LoadInv, ChainsOK
  <2>8. CASE left = {} /\ ExtensionLoadingFinished(pending, ext)
    <3>1. /\ LoaderOK(chain, loader') /\ RequestsOK(requests') /\ ApplierOK(chain, applier')
          /\ MaybeExtOK(chain, job') /\ Anchored(loader', applier')
      BY <2>5, <2>8, LoadingFinishedOK
    <3> QED
      BY <1>1, <3>1 DEF LoadInv, ChainsOK
  <2> QED
    BY <1>5, <2>7, <2>8
<1> HIDE DEF prefix, left, got, ext, l
<1> QED
  <2>1. \/ Leave(pending, loader) /\ UNCHANGED job
        \/ ThenSyncNext(pending, Idle, applier, LastSyncWith) /\ UNCHANGED job
        \/ /\ ExpectsBlock(m.ch, m.id) /\ prefix # <<>>
           /\ IF left = {} THEN ExtensionLoadingFinished(pending, ext)
              ELSE Leave(pending, l) /\ UNCHANGED job
    BY Zenon DEF OnBlockNotFound, prefix, left, got, ext, l
  <2> QED
    BY <1>3, <1>4, <1>5, <2>1

\* onExtensionApplied: the buffered extension, if there is one, is applied next.
LEMMA AppliedOK ==
  ASSUME LoadInv, LoaderInv, OnExtensionApplied
  PROVE  LoadInv'
<1>1. UNCHANGED <<chain, local, open, scores, event, events, closing>> /\ applier # Idle
  BY DEF OnExtensionApplied, observerVars, LoaderInv, InStep
<1>2. /\ chain \in [Peers -> Chains] /\ local \in Chains /\ SyncOK(chain, LastSyncWith) /\ RequestsOK(requests)
      /\ LoaderOK(chain, Idle) /\ Anchored(loader, Idle) /\ Anchored(Idle, Idle)
  BY Zenon DEF LoadInv, ChainsOK, ObserverOK, LastSyncWith, LoaderOK, Anchored, Idle
<1>3. CASE applier' = Idle /\ UNCHANGED <<loader, requests, job>>
  BY <1>1, <1>2, <1>3, Zenon DEF LoadInv, ChainsOK, ApplierOK
<1>4. CASE /\ applier.buf # None /\ job' = applier.buf
           /\ ThenSyncNext(requests, loader, Applying(None, applier.buf), LastSyncWith)
  <2> DEFINE a == Applying(None, applier.buf)
  <2>1. loader = Idle /\ ExtOK(chain, applier.buf)
    BY <1>1, <1>4, Zenon DEF LoaderInv, BufferHolds, LoadInv, ApplierOK, MaybeExtOK
  <2>2. ApplierOK(chain, a)
    BY <2>1, ApplyingBusy DEF ApplierOK, MaybeExtOK
  <2>3. Anchored(Idle, a)
    BY DEF Anchored, Idle
  <2>4. ThenSyncNext(requests, Idle, a, LastSyncWith)
    BY <1>4, <2>1
  <2> HIDE DEF a
  <2>5. LoaderOK(chain, loader') /\ RequestsOK(requests') /\ Anchored(loader', a) /\ applier' = a
    BY <1>2, <2>2, <2>3, <2>4, ThenSyncNextOK
  <2> QED
    BY <1>1, <1>4, <2>1, <2>2, <2>5 DEF LoadInv, ChainsOK, MaybeExtOK
<1>5. CASE ThenSyncNext(requests, Idle, Idle, LastSyncWith) /\ UNCHANGED job
  <2>1. ApplierOK(chain, Idle)
    BY DEF ApplierOK
  <2>2. LoaderOK(chain, loader') /\ RequestsOK(requests') /\ Anchored(loader', Idle) /\ applier' = Idle
    BY <1>2, <1>5, <2>1, ThenSyncNextOK
  <2> QED
    BY <1>1, <1>5, <2>1, <2>2 DEF LoadInv, ChainsOK
<1> QED
  BY <1>3, <1>4, <1>5 DEF OnExtensionApplied

\* The blocks of an extension the node does not have end in its last one
LEMMA NewBlocksLast ==
  ASSUME NEW e, e.blocks \in Seq(Chains), NewBlocks(e) # <<>>
  PROVE  LastOf(NewBlocks(e)) = LastOf(e.blocks) /\ LastOf(e.blocks) \in Chains
<1> DEFINE s == e.blocks
           I == {i \in DOMAIN s : ~Has(s[i])}
           j == First(I)
           t == SubSeq(s, j, Len(s))
<1>2. j \in 0 .. Len(s)
  <2>1. I \in SUBSET (1 .. Len(s)) /\ Len(s) \in Nat
    OBVIOUS
  <2> HIDE DEF I, s
  <2> QED
    BY <2>1, FirstIndex
<1>3. j # 0 /\ NewBlocks(e) = t
  BY Zenon DEF NewBlocks
<1> HIDE DEF j, s
<1>4. s \in Seq(Chains) /\ Len(s) \in Nat /\ Len(s) >= 1 /\ j \in Nat /\ j >= 1 /\ j <= Len(s)
  BY <1>2, <1>3 DEF s
<1>5. Len(t) = Len(s) - j + 1 /\ t[Len(s) - j + 1] = s[Len(s)]
  BY <1>4
<1>6. s[Len(s)] \in Chains
  BY <1>4
<1> QED
  BY <1>3, <1>5, <1>6 DEF LastOf, s

\* The chain is shorter only when it is the beginning of a longer one
Shortened == job # None /\ Score(chain[job.ch]) > Score(local) /\ Begins(local', chain[job.ch])

\* The appender adopts an extension, or as much of it as it can, and the chain gets
\* shorter only on the way to the peer's.
LEMMA AppendExtensionOK ==
  ASSUME NoneIsNothing, LoadInv, AppendExtension
  PROVE  LoadInv' /\ (Len(local') < Len(local) => Shortened)
<1>1. ExtOK(chain, job)
  BY Zenon DEF AppendExtension, LoadInv, MaybeExtOK
<1>2. /\ job.ch \in Peers /\ job.score \in Nat /\ job.blocks \in Seq(Chains) /\ job.score <= Len(chain[job.ch])
      /\ Reaches(chain[job.ch], LastOf(job.blocks), job.score)
  BY <1>1 DEF ExtOK, Exts, LoadOK
<1>3. /\ local \in Chains /\ chain[job.ch] \in Chains /\ Len(local) \in Nat /\ Len(chain[job.ch]) \in Nat
  BY <1>2, ChainFacts DEF LoadInv, ChainsOK
<1>4. /\ UNCHANGED <<chain, scores, event, events, loader, applier, requests>> /\ job' = None
  BY Zenon DEF AppendExtension, Finish, observerVars
<1>5. open' \subseteq Peers /\ closing' \in Seq(Peers)
  <2>1. Accept \/ \E reason : Blacklist(job.ch, reason, 0)
    BY Zenon DEF AppendExtension
  <2>2. CASE Accept
    BY <2>2 DEF Accept, LoadInv, ObserverOK
  <2>3. CASE \E reason : Blacklist(job.ch, reason, 0)
    BY <1>2, <2>3, BlacklistOK
  <2> QED
    BY <2>1, <2>2, <2>3
<1>6. local' \in Chains /\ (Len(local') < Len(local) => Shortened)
  <2>1. local' = local \/ (~Outdated(job) /\ NewBlocks(job) # <<>> /\ local' = LastOf(NewBlocks(job)))
    BY Zenon DEF AppendExtension, Finish
  <2>2. CASE local' = local
    BY <1>3, <2>2
  <2>3. CASE ~Outdated(job) /\ NewBlocks(job) # <<>> /\ local' = LastOf(NewBlocks(job))
    <3>1. local' = LastOf(job.blocks) /\ local' \in Chains
      BY <1>2, <2>3, NewBlocksLast
    <3>2. job.score > Len(local) /\ Len(local') \in Nat
      BY <1>2, <1>3, <2>3, <3>1, ChainFacts DEF Outdated, Score
    <3>3. ASSUME Len(local') < Len(local) PROVE Shortened
      <4>1. Persisted(chain[job.ch], local')
        BY <1>2, <1>3, <3>1, <3>2, <3>3 DEF Reaches
      <4>2. job # None
        BY Zenon DEF AppendExtension
      <4> QED
        BY <1>2, <1>3, <3>2, <4>1, <4>2 DEF Shortened, Persisted, Score
    <3> QED
      BY <3>1, <3>3
  <2> QED
    BY <2>1, <2>2, <2>3
<1> QED
  BY <1>4, <1>5, <1>6, Zenon DEF LoadInv, ChainsOK, ObserverOK, MaybeExtOK

\* A key block received by broadcast never makes the chain shorter.
LEMMA KeyBlockOK ==
  ASSUME LoadInv, NEW p \in Peers, AppendKeyBlock(p)
  PROVE  LoadInv' /\ (Len(local') < Len(local) => FALSE)
<1> DEFINE n == Len(local) + 1
           id == SubSeq(chain[p], 1, n)
           key == [id EXCEPT ![Len(id)] = [id[Len(id)] EXCEPT !.micro = 0]]
<1>1. /\ local \in Chains /\ chain[p] \in Chains /\ Len(local) \in Nat /\ Len(chain[p]) \in Nat
      /\ Len(chain[p]) > Len(local)
  BY ChainFacts DEF LoadInv, ChainsOK, AppendKeyBlock
<1>2. /\ AppendBlock(key)
      /\ UNCHANGED <<chain, open, scores, event, events, closing, loader, applier, job, requests>>
  BY SMTT(30) DEF AppendKeyBlock, observerVars
<1>3. n \in 1 .. Len(chain[p])
  BY <1>1
<1> HIDE DEF n
<1>4. id \in Chains /\ Len(id) = n
  BY <1>1, <1>3, BeginningFacts
<1> HIDE DEF id
<1>5. id \in Seq(Slots) /\ Len(id) \in Nat /\ Len(id) >= 1 /\ Len(id) \in 1 .. Len(id)
  BY <1>4, ChainFacts
<1>6. [id[Len(id)] EXCEPT !.micro = 0] \in Slots
  <2>1. id[Len(id)] \in Slots
    BY <1>5
  <2> QED
    BY <2>1 DEF Slots
<1>7. key \in Seq(Slots) /\ Len(key) = Len(id)
  BY <1>5, <1>6, ExceptSeq
<1> HIDE DEF key
<1>8. key \in Chains
  BY <1>5, <1>7, LongerThanEmpty DEF Chains
<1>9. local' \in Chains /\ (Len(local') < Len(local) => FALSE)
  BY <1>1, <1>2, <1>8, AppendBlockOK
<1> QED
  BY <1>2, <1>9, SameOK

\* Neither does a micro block.
LEMMA MicroBlockOK ==
  ASSUME LoadInv, NEW p, AppendMicroBlock(p)
  PROVE  LoadInv' /\ (Len(local') < Len(local) => FALSE)
<1> DEFINE top == [local[Len(local)] EXCEPT !.micro = @ + 1]
<1>1. /\ local' = [local EXCEPT ![Len(local)] = top]
      /\ UNCHANGED <<chain, open, scores, event, events, closing, loader, applier, job, requests>>
  BY DEF AppendMicroBlock, observerVars
<1>2. local \in Seq(Slots) /\ Len(local) \in Nat /\ Len(local) >= 1 /\ Len(local) \in 1 .. Len(local)
  BY ChainFacts DEF LoadInv, ChainsOK
<1>3. top \in Slots
  <2>1. local[Len(local)] \in Slots
    BY <1>2
  <2> QED
    BY <2>1 DEF Slots
<1> HIDE DEF top
<1>4. local' \in Seq(Slots) /\ Len(local') = Len(local)
  BY <1>1, <1>2, <1>3, ExceptSeq
<1>5. local' \in Chains
  BY <1>2, <1>4, LongerThanEmpty, SMTT(30) DEF Chains
<1> QED
  BY <1>1, <1>2, <1>4, <1>5, SameOK

\* Every step keeps the invariant, and only the appender makes the chain shorter.
LEMMA NextLoadInv ==
  ASSUME NoneIsNothing, LoaderInv, LoadInv, [Next]_vars
  PROVE  LoadInv' /\ (Len(local') < Len(local) => Shortened)
<1>0. Len(local) \in Nat
  BY ChainFacts DEF LoadInv, ChainsOK
<1>1. ASSUME NEW p \in Peers, MineKeyBlock(p) \/ MineMicroBlock(p)
      PROVE  LoadInv' /\ local' = local
  BY <1>1, MineOK, Zenon DEF MineKeyBlock, MineMicroBlock
<1>2. ASSUME NEW p \in Peers, CloseChannel(p)
      PROVE  LoadInv' /\ local' = local
  <2>1. /\ open' \subseteq open /\ closing' = Append(closing, p)
        /\ UNCHANGED <<chain, local, scores, event, events, loader, applier, job, requests>>
    BY <1>2 DEF CloseChannel, observerVars
  <2>2. closing' \in Seq(Peers)
    <3>1. closing \in Seq(Peers)
      BY DEF LoadInv, ObserverOK
    <3> QED
      BY <2>1, <3>1, AppendProperties, SMTT(30)
  <2> QED
    BY <2>1, <2>2, Zenon DEF LoadInv, ObserverOK, ChainsOK
<1>3. ASSUME NEW p \in Peers, Timeout(p)
      PROVE  LoadInv' /\ local' = local
  BY <1>3, TimeoutOK DEF Timeout
<1>4. ASSUME LocalScoreChanged \/ ChannelEnded \/ \E p \in Peers : RemoteScoreChanged(p)
      PROVE  LoadInv' /\ local' = local
  BY <1>4, ScoresOK, Zenon DEF RemoteScoreChanged, LocalScoreChanged, ChannelEnded, Publish
<1>5. ASSUME NEW q \in requests, Answered(q)
      PROVE  LoadInv' /\ (Len(local') < Len(local) => FALSE)
  <2>1. PICK m, pending : /\ m = HistoryReply(q) /\ pending = requests \ {q}
                          /\ OnNewSignatures(m, pending) \/ OnBlock(m, pending) \/ OnBlockNotFound(m, pending)
    BY <1>5 DEF Answered
  <2>2. q.ch \in open /\ RequestOK(q) /\ RequestsOK(pending)
    BY <1>5, <2>1 DEF Answered, LoadInv, RequestsOK
  <2>3. CASE OnNewSignatures(m, pending)
    <3>1. LoadInv'
      BY <2>1, <2>2, <2>3, SignaturesOK
    <3>2. local' = local
      BY <2>3, Zenon DEF OnNewSignatures
    <3> QED
      BY <1>0, <3>1, <3>2
  <2>4. CASE OnBlock(m, pending)
    BY <2>1, <2>2, <2>4, BlockOK
  <2>5. CASE OnBlockNotFound(m, pending)
    <3>1. LoadInv'
      BY <2>2, <2>5, NotFoundOK
    <3>2. local' = local
      BY <2>5, Zenon DEF OnBlockNotFound
    <3> QED
      BY <1>0, <3>1, <3>2
  <2> QED
    BY <2>1, <2>3, <2>4, <2>5
<1>6. ASSUME NEW q \in requests, Lose(q)
      PROVE  LoadInv' /\ local' = local
  <2>1. /\ requests' = requests \ {q}
        /\ UNCHANGED <<chain, local, open, scores, event, events, closing, loader, applier, job>>
    BY <1>6 DEF Lose, observerVars
  <2> QED
    BY <2>1 DEF LoadInv, ChainsOK, RequestsOK
<1>7. ASSUME OnNewSyncWithChannelClosed
      PROVE  LoadInv' /\ local' = local
  BY <1>7, SyncWithOK, Zenon DEF OnNewSyncWithChannelClosed
<1>8. ASSUME OnExtensionApplied
      PROVE  LoadInv' /\ local' = local
  BY <1>8, AppliedOK, SMTT(30) DEF OnExtensionApplied
<1>9. ASSUME UNCHANGED vars
      PROVE  LoadInv' /\ local' = local
  <2>1. LoadInv'
    BY <1>9 DEF vars, LoadInv, ChainsOK
  <2> QED
    BY <1>9, <2>1, SMTT(30) DEF vars
<1> QED
  BY <1>0, <1>1, <1>2, <1>3, <1>4, <1>5, <1>6, <1>7, <1>8, <1>9, AppendExtensionOK, KeyBlockOK, MicroBlockOK,
     LoaderAssumption DEF Next
-----------------------------------------------------------------------------
\* The loader's inductive invariant, both parts
LEMMA SpecLoadInv ==
  ASSUME NoneIsNothing
  PROVE  SafeSpec => [](LoaderInv /\ LoadInv)
<1>1. Init => LoaderInv /\ LoadInv
  BY InitLoaderInv, InitLoadInv
<1>2. LoaderInv /\ LoadInv /\ [Next]_vars => (LoaderInv /\ LoadInv)'
  BY NextLoaderInv, NextLoadInv
<1> QED
  BY <1>1, <1>2, PTL DEF SafeSpec

\* Every extension loaded, buffered or being applied is a chain of blocks in which each
\* is the parent of the next (RxExtensionLoader.onNewSignatures, onBlock): whatever the
\* peers mine meanwhile, whichever answers come late, get lost or are cut short.
THEOREM SpecExtensionLinked ==
  ASSUME NoneIsNothing
  PROVE  SafeSpec => []ExtensionLinked
<1>1. LoadInv => ExtensionLinked
  BY Zenon DEF LoadInv, ExtensionLinked, Extensions, MaybeExtOK, ApplierOK, ExtOK, LoadOK
<1> QED
  BY <1>1, SpecLoadInv, PTL

\* While an extension is being applied, the ids asked for next include its last block
\* (RxExtensionLoader.syncNext), so the two fit together, for any peers and chains.
THEOREM SpecAnchoredOnExtension ==
  ASSUME NoneIsNothing
  PROVE  SafeSpec => []AnchoredOnExtension
<1>1. LoadInv => AnchoredOnExtension
  BY DEF LoadInv, AnchoredOnExtension, Anchored
<1> QED
  BY <1>1, SpecLoadInv, PTL

\* The node's chain gets shorter only by adopting a beginning of the chain, longer than
\* its own, of the peer the extension was loaded from (ExtensionAppender), for any peers,
\* chains, batch sizes and rollback limits.
THEOREM SpecShorterOnlyOnTheWay ==
  ASSUME NoneIsNothing
  PROVE  SafeSpec => ShorterOnlyOnTheWay
<1>1. LoaderInv /\ LoadInv /\ [Next]_vars
      => [Score(local') < Score(local) =>
            job # None /\ Score(chain[job.ch]) > Score(local) /\ Begins(local', chain[job.ch])]_vars
  BY NextLoadInv DEF Shortened, Score
<1> QED
  BY <1>1, SpecLoadInv, PTL DEF SafeSpec, ShorterOnlyOnTheWay
=============================================================================
