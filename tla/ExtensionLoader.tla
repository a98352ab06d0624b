--------------------------- MODULE ExtensionLoader ---------------------------
(***************************************************************************)
(* Synchronisation with better peers: RxScoreObserver chooses the channel   *)
(* to sync with, RxExtensionLoader negotiates block ids with it, loads the  *)
(* blocks and hands them to ExtensionAppender while already loading the     *)
(* next ones, HistoryReplier answers on the other side.                     *)
(*                                                                         *)
(* A block id commits to everything below it, so an id is the sequence of   *)
(* slots from genesis; a slot names the miner of a key block and how many   *)
(* microblocks the block has.  Only the last block of a chain is liquid.    *)
(* The score of a chain is its height.  A peer is one channel: a peer that  *)
(* connects again is another one.                                           *)
(***************************************************************************)
EXTENDS Naturals, Sequences, FiniteSetsExt, Functions, SeqFilter

CONSTANTS
  Peers,        \* channels
  Responsive,   \* peers that answer within the synchronisation timeout
  Faulty,       \* miners of invalid blocks
  InitChain,    \* the chain each peer has at first
  InitLocal,    \* the node's own chain at first
  MaxRollback,  \* synchronization.max-rollback of this node
  PeerBatch,    \* synchronization.max-rollback of the peers
  MaxIds,       \* BlockIdSeqSpec.MaxIds
  Miners,       \* peers whose chain grows
  MaxHeight,    \* bound: peers stop mining key blocks here
  MicroHeights, \* bound: heights at which a block gets a microblock
  MaxFuture,    \* bound: extensions refused as coming from the future
  MaxPending,   \* bound: requests for ids without answer
  MaxEvents,    \* bound: events of the observer waiting for the loader
  None

ASSUME LoaderAssumption ==
  /\ Responsive \subseteq Peers /\ Miners \subseteq Peers
  /\ None \notin Peers
  /\ MaxRollback \in Nat /\ PeerBatch \in Nat \ {0} /\ MaxIds \in Nat
  /\ MaxRollback + 1 < MaxIds
  /\ MaxHeight \in Nat /\ MicroHeights \subseteq Nat /\ MaxFuture \in Nat /\ MaxPending \in Nat /\ MaxEvents \in Nat

Slots  == [by : Peers \cup Faulty \cup {None}, micro : Nat]
Chains == Seq(Slots) \ {<<>>}

ASSUME ChainAssumption == InitChain \in [Peers -> Chains] /\ InitLocal \in Chains

VARIABLES
  chain,        \* the chain of each peer
  local,        \* the chain of this node
  base,         \* microblocks in the liquid block of local when it was received
  open,         \* open channels
  blacklisted,  \* <<peer, reason>>: open channels closed by blacklisting, with the first reason
  scores,       \* RxScoreObserver: score of each peer, 0 when there is none
  localScore,   \* RxScoreObserver: the last local score it has seen
  best,         \* RxScoreObserver: currentBestChannel
  event,        \* the last event, for distinctUntilChanged
  events,       \* events the loader has not handled
  closing,      \* notifications of closed or timed out channels on the way
  loader,       \* LoaderState
  applier,      \* ApplierState
  job,          \* the extension in the appender
  result,       \* what the appender answered
  requests,     \* requests without answer yet, from this node's own event loop on
  invalid,      \* InvalidBlockStorage
  future,       \* how often an extension was refused as coming from the future
  missed        \* history: the last load ended with "nothing new" on an answer that was not the latest or stopped short

observerVars == <<scores, localScore, best, event>>
vars == <<chain, local, base, open, blacklisted, scores, localScore, best, event, events, closing,
          loader, applier, job, result, requests, invalid, future, missed>>
-----------------------------------------------------------------------------
(* Chains and ids *)

LastOf(s) == s[Len(s)]

Score(c)   == Len(c)
Micro(id)  == LastOf(id).micro
Parent(id) == SubSeq(id, 1, Len(id) - 1)

\* Chain c starts with the blocks of id
Begins(id, c) == Len(id) <= Len(c) /\ SubSeq(c, 1, Len(id)) = id

Minimum(x, y) == IF x < y THEN x ELSE y

\* blockchain.heightOf(id).isDefined: an id of a persisted block, or any state of the liquid block from micro `from` on
Knows(c, from, id) ==
  \/ Len(id) < Len(c) /\ Begins(id, c)
  \/ /\ Len(id) = Len(c)
     /\ Parent(id) = Parent(c) /\ LastOf(id).by = LastOf(c).by
     /\ Micro(id) \in from .. Micro(c)

Has(id) == Knows(local, base, id)

\* syncBoundary, with nothing finalized: max-rollback below the tip, and genesis at the lowest
SyncBoundary == IF Len(local) > MaxRollback THEN Len(local) - MaxRollback ELSE 1

\* The ids of the blocks of a chain
Ids(c) == [i \in 1 .. Len(c) |-> SubSeq(c, 1, i)]

\* The last n elements of a sequence, the last one first
Backwards(s, n) == [i \in 1 .. n |-> s[Len(s) - i + 1]]

LastBlockIds == Backwards(Ids(local), Len(local) - SyncBoundary + 1)

\* The first of some positions, 0 if there is none
First(I) == IF I = {} THEN 0 ELSE Min(I)

\* History.blockIdsAfter of peer p: from the first candidate it knows, the candidate's height included
BlockIdsAfter(p, candidates) ==
  LET first == First({i \in DOMAIN candidates : Knows(chain[p], 0, candidates[i])})
      h     == Len(candidates[first])
  IN  IF first = 0 THEN <<>> ELSE SubSeq(Ids(chain[p]), h, Minimum(h + PeerBatch, Len(chain[p])))
-----------------------------------------------------------------------------
(* Messages, states *)

GetBlockIds(p, ids) == [type |-> "GetBlockIds", ch |-> p, ids |-> ids]
GetBlock(p, id)     == [type |-> "GetBlock", ch |-> p, id |-> id]
BlockIds(p, ids, to) == [type |-> "BlockIds", ch |-> p, ids |-> ids, to |-> to]  \* to: for `missed` only
Block(p, id)        == [type |-> "Block", ch |-> p, id |-> id]
BlockNotFound(p, id) == [type |-> "BlockNotFound", ch |-> p, id |-> id]

Idle == [st |-> "Idle"]
ExpectingSignatures(sw, known) == [st |-> "Sigs", sw |-> sw, known |-> known, timer |-> TRUE]
ExpectingBlocks(sw, all, expected, received, truncated) ==
  [st |-> "Blocks", sw |-> sw, all |-> all, expected |-> expected, received |-> received,
   truncated |-> truncated, timer |-> TRUE]
WithPeer(l) == l.st # "Idle"

Applying(buf, ext) == [st |-> "Applying", buf |-> buf, ext |-> ext]
Extension(sw, blocks, truncated) == [ch |-> sw.ch, score |-> sw.score, blocks |-> blocks, truncated |-> truncated]

LastSyncWith == event.sw

Init ==
  /\ chain = InitChain /\ local = InitLocal /\ base = 0
  /\ open = Peers /\ blacklisted = {}
  /\ scores = [p \in Peers |-> 0] /\ localScore = Score(InitLocal) /\ best = None
  /\ event = [closed |-> None, sw |-> None] /\ events = <<>> /\ closing = <<>>
  /\ loader = Idle /\ applier = Idle /\ job = None /\ result = None
  /\ requests = {}
  /\ invalid = {} /\ future = 0 /\ missed = FALSE
-----------------------------------------------------------------------------
(* The peers *)

\* A peer mines a key block on any state of its own liquid block
MineKeyBlock(p) ==
  /\ Len(chain[p]) < MaxHeight
  /\ \E m \in 0 .. Micro(chain[p]) :
       LET parent == [chain[p] EXCEPT ![Len(chain[p])].micro = m]
           new    == Append(parent, [by |-> p, micro |-> 0])
       IN  /\ LastOf(chain[p]).by # p => m = Micro(chain[p])
           /\ chain' = [chain EXCEPT ![p] = new]
  /\ UNCHANGED <<local, base, open, blacklisted, observerVars, events, closing, loader, applier, job, result,
                 requests, invalid, future, missed>>

MineMicroBlock(p) ==
  /\ LastOf(chain[p]).by = p /\ Micro(chain[p]) = 0 /\ Len(chain[p]) \in MicroHeights
  /\ chain' = [chain EXCEPT ![p][Len(chain[p])].micro = @ + 1]
  /\ UNCHANGED <<local, base, open, blacklisted, observerVars, events, closing, loader, applier, job, result,
                 requests, invalid, future, missed>>

\* What HistoryReplier of the peer answers. A channel keeps the order of messages, so the answer may be taken to be
\* made when it arrives; requests are served on a pool of threads, so in any order
HistoryReply(m) ==
  IF m.type = "GetBlockIds" THEN BlockIds(m.ch, BlockIdsAfter(m.ch, m.ids), m.ids)
  ELSE IF Knows(chain[m.ch], 0, m.id) THEN Block(m.ch, m.id)
  ELSE BlockNotFound(m.ch, m.id)
-----------------------------------------------------------------------------
(* Channels *)

\* peerDatabase.blacklistAndClose(p, reason), n notifications of the end of p under way
Blacklist(p, reason, n) ==
  /\ open' = open \ {p}
  /\ blacklisted' = IF p \in open THEN blacklisted \cup {<<p, reason>>} ELSE blacklisted
  /\ closing' = closing \o [i \in 1 .. n + (IF p \in open THEN 1 ELSE 0) |-> p]

\* A channel is closed by the other side or by the network
CloseChannel(p) ==
  /\ p \in open \ Responsive
  /\ open' = open \ {p} /\ closing' = Append(closing, p)
  /\ UNCHANGED <<chain, local, base, blacklisted, observerVars, events, loader, applier, job, result,
                 requests, invalid, future, missed>>

\* A request is never answered: its channel is closed, or the peer ignores it
Lose(m) ==
  /\ m.ch \notin open \cap Responsive
  /\ requests' = requests \ {m}
  /\ UNCHANGED <<chain, local, base, open, blacklisted, observerVars, events, closing, loader, applier, job, result,
                 invalid, future, missed>>

\* scheduleBlacklist: the timeout of the loader's request runs out. An open responsive peer would have answered by then
Timeout(p) ==
  /\ WithPeer(loader) /\ loader.sw.ch = p /\ loader.timer
  /\ p \in Responsive \cap open => \A m \in requests : m.ch # p
  /\ loader' = [loader EXCEPT !.timer = FALSE]
  /\ Blacklist(p, "timeout", 1)
  /\ UNCHANGED <<chain, local, base, observerVars, events, applier, job, result,
                 requests, invalid, future, missed>>
-----------------------------------------------------------------------------
(* RxScoreObserver *)

\* calcSyncWith: among the channels with the highest score the current one is kept, otherwise any
CalcSyncWith(current, score, remote) ==
  LET top == {p \in Peers : remote[p] > 0 /\ \A q \in Peers : remote[q] <= remote[p]}
  IN  IF top = {} \/ \E p \in top : remote[p] <= score THEN {None}
      ELSE {[ch |-> p, score |-> remote[p]] : p \in IF current \in top THEN {current} ELSE top}

Publish(closed, current) ==
  /\ Len(events) < MaxEvents
  /\ \E sw \in CalcSyncWith(current, localScore', scores') :
       /\ best' = IF sw = None THEN None ELSE sw.ch
       /\ LET cc == [closed |-> closed, sw |-> sw]
          IN  IF cc = event THEN UNCHANGED <<event, events>>
              ELSE event' = cc /\ events' = Append(events, cc)
  /\ UNCHANGED <<chain, local, base, open, blacklisted, loader, applier, job, result,
                 requests, invalid, future, missed>>

LocalScoreChanged ==
  /\ localScore # Score(local)
  /\ localScore' = Score(local)
  /\ UNCHANGED <<scores, closing>>
  /\ Publish(None, best)

RemoteScoreChanged(p) ==
  /\ p \in open /\ scores[p] # Score(chain[p])
  /\ scores' = [scores EXCEPT ![p] = Score(chain[p])]
  /\ UNCHANGED <<localScore, closing>>
  /\ Publish(None, best)

\* channelClosed and channelTimeout
ChannelEnded ==
  /\ closing # <<>>
  /\ LET p == Head(closing)
     IN  /\ scores' = [scores EXCEPT ![p] = 0]
         /\ closing' = Tail(closing)
         /\ UNCHANGED localScore
         /\ Publish(p, IF best = p THEN None ELSE best)
-----------------------------------------------------------------------------
(* RxExtensionLoader *)

Anchors_extensionOnly(a) == IF a.st = "Idle" THEN LastBlockIds ELSE Backwards(a.ext.blocks, Len(a.ext.blocks))

Anchors_historyOnly(a) == LastBlockIds

\* The ids of the extension being applied come first, as many as fit beside the history, which is always complete
Anchors(a) ==
  IF a.st = "Idle" THEN LastBlockIds
  ELSE LET room == MaxIds - Len(LastBlockIds)
           hint == Backwards(a.ext.blocks, Minimum(room, Len(a.ext.blocks)))
       IN  hint \o KeepIn(LastBlockIds, Range(LastBlockIds) \ Range(hint))

SyncNext_wait(l, a, sw) ==
  IF sw = None THEN [loader |-> Idle, ask |-> {}]
  ELSE IF WithPeer(l) \/ a.st = "Applying" THEN [loader |-> l, ask |-> {}]
  ELSE [loader |-> ExpectingSignatures(sw, Anchors(a)), ask |-> {GetBlockIds(sw.ch, Anchors(a))}]

SyncNext_noHold(l, a, sw) ==
  IF sw = None THEN [loader |-> Idle, ask |-> {}]
  ELSE IF WithPeer(l) THEN [loader |-> l, ask |-> {}]
  ELSE [loader |-> ExpectingSignatures(sw, Anchors(a)), ask |-> {GetBlockIds(sw.ch, Anchors(a))}]

\* syncNext: the loader it leaves, and what it asks
SyncNext(l, a, sw) ==
  IF sw = None THEN [loader |-> Idle, ask |-> {}]
  ELSE IF WithPeer(l) \/ (a.st = "Applying" /\ a.buf # None) THEN [loader |-> l, ask |-> {}]
  ELSE [loader |-> ExpectingSignatures(sw, Anchors(a)), ask |-> {GetBlockIds(sw.ch, Anchors(a))}]

\* A handler ends by syncNext from loader state l and applier state a
ThenSyncNext(pending, l, a, sw) ==
  LET next == SyncNext(l, a, sw)
  IN  /\ loader' = next.loader /\ applier' = a
      /\ requests' = pending \cup next.ask
      /\ Cardinality({q \in requests' : q.type = "GetBlockIds"}) <= MaxPending
      /\ missed' = (missed /\ next.ask = {})

\* A handler leaves loader state l and starts nothing
Leave(pending, l) == loader' = l /\ requests' = pending /\ UNCHANGED <<applier, missed>>

OnNewSyncWithChannelClosed ==
  /\ events # <<>>
  /\ events' = Tail(events)
  /\ LET cc == Head(events)
     IN  \/ cc.sw = None /\ Leave(requests, Idle)
         \/ cc.sw # None /\ cc.closed = None /\ ThenSyncNext(requests, loader, applier, cc.sw)
         \/ /\ cc.sw # None /\ cc.closed # None
            /\ IF WithPeer(loader) /\ loader.sw.ch # cc.closed THEN Leave(requests, loader)
               ELSE ThenSyncNext(requests, Idle, applier, cc.sw)
  /\ UNCHANGED <<chain, local, base, open, blacklisted, observerVars, closing, job, result,
                 invalid, future>>

\* The loader waits for ids from p, for block id from p
ExpectsIds(p) == loader.st = "Sigs" /\ loader.sw.ch = p
ExpectsBlock(p, id) == loader.st = "Blocks" /\ loader.sw.ch = p /\ id \in loader.expected

\* The first reply to a request for ids, whichever request of this channel it answers
OnNewSignatures(m, pending) ==
  /\ m.type = "BlockIds"
  /\ LET known   == Range(loader.known)
         unknown == First({i \in DOMAIN m.ids : m.ids[i] \notin known})
     IN  \/ /\ ~ExpectsIds(m.ch)
            /\ Leave(pending, loader) /\ UNCHANGED <<open, blacklisted, closing>>
         \/ /\ ExpectsIds(m.ch)
            /\ m.ids = <<>> \/ Range(m.ids) \cap invalid # {}
            /\ Blacklist(m.ch, IF m.ids = <<>> THEN "no ids" ELSE "invalid ids", 0)
            /\ ThenSyncNext(pending, Idle, applier, LastSyncWith)
         \/ /\ ExpectsIds(m.ch)
            /\ m.ids # <<>> /\ Range(m.ids) \cap invalid = {}
            /\ UNCHANGED <<open, blacklisted, closing, applier>>
            /\ IF unknown = 0
               THEN /\ loader' = Idle /\ requests' = pending
                    /\ missed' = (\/ LastSyncWith # loader.sw \/ m.to # loader.known
                                  \/ Score(LastOf(m.ids)) < loader.sw.score)
               ELSE LET all == SubSeq(m.ids, unknown, Len(m.ids))
                    IN  /\ loader' = ExpectingBlocks(loader.sw, all, Range(all), {}, FALSE)
                        /\ requests' = pending \cup {GetBlock(m.ch, id) : id \in Range(all)}
                        /\ UNCHANGED missed
  /\ UNCHANGED <<chain, local, base, observerVars, events, job, result, invalid, future>>

\* extensionLoadingFinished: the loader is idle by now
ExtensionLoadingFinished(pending, ext) ==
  \/ /\ applier = Idle
     /\ job' = ext
     /\ ThenSyncNext(pending, Idle, Applying(None, ext), LastSyncWith)
  \/ /\ applier # Idle
     /\ loader' = Idle /\ requests' = pending /\ UNCHANGED <<job, missed>>
     /\ applier' = IF applier.buf = None THEN [applier EXCEPT !.buf = ext] ELSE applier

AppendBlock_anywhere(id) ==
  IF Has(Parent(id)) /\ LastOf(id).by \notin Faulty
  THEN local' = id /\ base' = Micro(id)
  ELSE UNCHANGED <<local, base>>

\* Blocks outside a load go to BlockAppender, which takes a child of any state of its liquid block
AppendBlock(id) ==
  IF Has(Parent(id)) /\ Len(id) = Len(local) + 1 /\ LastOf(id).by \notin Faulty
  THEN local' = id /\ base' = Micro(id)
  ELSE UNCHANGED <<local, base>>

OnBlock(m, pending) ==
  /\ m.type = "Block"
  /\ \/ /\ ExpectsBlock(m.ch, m.id)
        /\ UNCHANGED <<local, base>>
        /\ LET left == loader.expected \ {m.id}
               got  == loader.received \cup {m.id}
           IN  IF left = {}
               THEN ExtensionLoadingFinished(pending,
                      Extension(loader.sw, KeepIn(loader.all, got), loader.truncated))
               ELSE /\ Leave(pending, ExpectingBlocks(loader.sw, loader.all, left, got, loader.truncated))
                    /\ UNCHANGED job
     \/ /\ ~ExpectsBlock(m.ch, m.id)
        /\ Leave(pending, loader) /\ UNCHANGED job
        /\ AppendBlock(m.id)
  /\ UNCHANGED <<chain, open, blacklisted, observerVars, events, closing, result, invalid, future>>

Before(all, id) == SubSeq(all, 1, First({i \in DOMAIN all : all[i] = id}) - 1)

StillExpected_none(prefix) == {}

StillExpected(prefix) == loader.expected \cap Range(prefix)

\* The blocks before the missing one still extend our chain
OnBlockNotFound(m, pending) ==
  /\ m.type = "BlockNotFound"
  /\ \/ /\ ~ExpectsBlock(m.ch, m.id)
        /\ Leave(pending, loader) /\ UNCHANGED job
     \/ /\ ExpectsBlock(m.ch, m.id)
        /\ LET prefix == Before(loader.all, m.id)
               left   == StillExpected(prefix)
               got    == loader.received \cap Range(prefix)
           IN  IF prefix = <<>> THEN ThenSyncNext(pending, Idle, applier, LastSyncWith) /\ UNCHANGED job
               ELSE IF left = {}
               THEN ExtensionLoadingFinished(pending,
                      Extension(loader.sw, KeepIn(prefix, got), TRUE))
               ELSE /\ Leave(pending, ExpectingBlocks(loader.sw, prefix, left, got, TRUE))
                    /\ UNCHANGED job
  /\ UNCHANGED <<chain, local, base, open, blacklisted, observerVars, events, closing, result, invalid, future>>

\* The answer to request q arrives, and is matched to nothing but the loader's state
Answered(q) ==
  /\ q.ch \in open
  /\ \E m \in {HistoryReply(q)}, pending \in {requests \ {q}} :
       OnNewSignatures(m, pending) \/ OnBlock(m, pending) \/ OnBlockNotFound(m, pending)

\* What the appender did with the extension: "appended", "dropped" or "failed"
OnExtensionApplied ==
  /\ result # None
  /\ result' = None
  /\ \/ /\ result = "appended" /\ applier.buf = None
        /\ applier' = Idle /\ UNCHANGED <<loader, requests, missed, job>>
     \/ /\ result = "appended" /\ applier.buf # None
        /\ job' = applier.buf
        /\ ThenSyncNext(requests, loader, Applying(None, applier.buf), LastSyncWith)
     \/ /\ result # "appended"
        /\ ThenSyncNext(requests, Idle, Idle, LastSyncWith)
        /\ UNCHANGED job
  /\ UNCHANGED <<chain, local, base, open, blacklisted, observerVars, events, closing, invalid, future>>
-----------------------------------------------------------------------------
(* ExtensionAppender and the other ways the local chain grows *)

\* The appender is done with its extension: outcome r, local chain c
Finish(r, c) ==
  /\ job' = None /\ result' = r
  /\ local' = c /\ base' = IF c = local THEN base ELSE Micro(c)
  /\ UNCHANGED <<chain, observerVars, events, loader, applier, requests, missed>>

NewBlocks(ext) == LET first == First({i \in DOMAIN ext.blocks : ~Has(ext.blocks[i])})
                  IN  IF first = 0 THEN <<>> ELSE SubSeq(ext.blocks, first, Len(ext.blocks))

\* The local chain has reached the announced score meanwhile
Outdated(ext) == ext.score <= Score(local)

Accept == UNCHANGED <<open, blacklisted, closing>>

AppendExtension ==
  /\ job # None
  /\ LET new    == NewBlocks(job)
         common == Parent(Head(new))
         bad    == First({i \in DOMAIN new : LastOf(new[i]).by \in Faulty})
     IN  \/ /\ Outdated(job)
            /\ Finish("dropped", local) /\ Accept /\ UNCHANGED <<invalid, future>>
         \/ /\ ~Outdated(job) /\ new = <<>>
            /\ Finish("appended", local) /\ Accept /\ UNCHANGED <<invalid, future>>
         \/ /\ ~Outdated(job) /\ new # <<>>
            /\ ~Has(common) \/ Len(common) < SyncBoundary
            /\ Finish("failed", local) /\ Blacklist(job.ch, "fork", 0) /\ UNCHANGED <<invalid, future>>
         \/ /\ ~Outdated(job) /\ new # <<>> /\ Has(common) /\ Len(common) >= SyncBoundary
            /\ \/ /\ bad = 0
                  /\ Finish("appended", LastOf(new)) /\ Accept /\ UNCHANGED <<invalid, future>>
               \/ /\ bad # 0
                  /\ Finish("failed", local) /\ Blacklist(job.ch, "invalid block", 0)
                  /\ invalid' = invalid \cup {new[bad]} /\ UNCHANGED future
               \/ /\ bad = 0 /\ future < MaxFuture  \* BlockFromFuture: the fork is undone, nobody is blamed
                  /\ Finish("failed", local) /\ Accept /\ UNCHANGED invalid
                  /\ future' = future + 1

\* A key block that p has broadcast arrives
AppendKeyBlock(p) ==
  /\ p \in open /\ Len(chain[p]) > Len(local)
  /\ LET id == SubSeq(chain[p], 1, Len(local) + 1)
     IN  Has(Parent(id)) /\ AppendBlock([id EXCEPT ![Len(id)].micro = 0])
  /\ UNCHANGED <<chain, open, blacklisted, observerVars, events, closing, loader, applier, job, result,
                 requests, invalid, future, missed>>

\* The next microblock of the liquid block arrives from p
AppendMicroBlock(p) ==
  /\ p \in open /\ Len(chain[p]) >= Len(local)
  /\ LET same == SubSeq(chain[p], 1, Len(local))
     IN  Parent(same) = Parent(local) /\ LastOf(same).by = LastOf(local).by /\ Micro(same) > Micro(local)
  /\ local' = [local EXCEPT ![Len(local)].micro = @ + 1]
  /\ UNCHANGED <<chain, base, open, blacklisted, observerVars, events, closing, loader, applier, job, result,
                 requests, invalid, future, missed>>
-----------------------------------------------------------------------------
Next ==
  \/ \E p \in Miners : MineKeyBlock(p) \/ MineMicroBlock(p)
  \/ \E p \in Peers : CloseChannel(p) \/ Timeout(p)
                      \/ RemoteScoreChanged(p) \/ AppendKeyBlock(p) \/ AppendMicroBlock(p)
  \/ \E m \in requests : Answered(m) \/ Lose(m)
  \/ LocalScoreChanged \/ ChannelEnded \/ OnNewSyncWithChannelClosed
  \/ AppendExtension \/ OnExtensionApplied

Fairness ==
  /\ WF_vars(\E q \in requests : Lose(q) \/ (q.ch \in Responsive /\ Answered(q)))
  /\ \A p \in Peers : WF_vars(Timeout(p)) /\ WF_vars(RemoteScoreChanged(p))
  /\ WF_vars(LocalScoreChanged)
  /\ WF_vars(ChannelEnded)
  /\ WF_vars(OnNewSyncWithChannelClosed)
  /\ WF_vars(AppendExtension)
  /\ WF_vars(OnExtensionApplied)

SafeSpec == Init /\ [][Next]_vars

Spec == SafeSpec /\ Fairness
-----------------------------------------------------------------------------
(* Properties *)

\* Peers that answer and have no invalid block
Honest == {p \in Responsive : \A i \in DOMAIN chain[p] : chain[p][i].by \notin Faulty}

Linked(blocks) == blocks # <<>> /\ \A i \in 1 .. Len(blocks) - 1 : Parent(blocks[i + 1]) = blocks[i]

Extensions == {e \in {job} \cup (IF applier = Idle THEN {} ELSE {applier.ext, applier.buf}) : e # None}

\* An extension given to the appender, or waiting for it, is a gapless run of blocks, whatever the order in which blocks
\* and refusals arrived (onBlock, onBlockNotFound)
ExtensionLinked == \A e \in Extensions : Linked(e.blocks)

\* An honest peer that answers in time is never blacklisted for an answer without ids, for a timeout or for invalid
\* blocks: each request can be answered from the history it carries, a block that is gone is answered too, and the loader
\* never waits for an answer that nobody owes it (syncNext, scheduleBlacklistAfterSent, HistoryReplier)
HonestNotBlamed == \A r \in blacklisted : r[1] \in Honest => r[2] = "fork"

\* What the loader and the appender think is being applied is the same, with a result for each extension, and a load that
\* completes finds the buffer free (extensionLoadingFinished drops it with a warning otherwise)
AppliedIsExpected ==
  /\ applier = Idle <=> job = None /\ result = None
  /\ job # None => applier.ext = job
  /\ applier # Idle /\ applier.buf # None => loader = Idle

\* While an extension is being applied and nothing is buffered, a load under way was asked for on top of it: that is what
\* makes it right to throw the load away when the extension is dropped (onExtensionApplied)
AnchoredOnExtension ==
  loader.st = "Sigs" /\ applier # Idle => LastOf(applier.ext.blocks) \in Range(loader.known)

\* The chain is replaced by a shorter one only on the way to a longer one: an extension is compared by the score announced
\* before it was loaded and may be cut to a batch or by a missing block, but what the node then has is the beginning of a
\* chain of its peer that is longer than the one it gave up (ExtensionAppender)
ShorterOnlyOnTheWay ==
  [][Score(local') < Score(local) =>
       job # None /\ Score(chain[job.ch]) > Score(local) /\ Begins(local', chain[job.ch])]_vars

\* The node catches up with every honest peer it stays connected to, unless it has taken for "nothing new" the answer to
\* another request, one made before a better score was announced, or one that the peer's batch size cut short of the
\* announced score, and no further score was announced since (onNewSignatures, distinctUntilChanged in RxScoreObserver)
CatchUp == <>[](missed \/ \A p \in open \cap Honest : Score(local) >= Score(chain[p]))
=============================================================================
