------------------------ MODULE MicroBlockSyncProofs ------------------------
(***************************************************************************)
(* DeliveredOnce and OneChildRequested for any peers, microblocks,         *)
(* announcements and number of attempts, in both modes.                    *)
(*                                                                         *)
(* Neither is inductive.  OneChildRequested needs that everything on its   *)
(* way, in a download, a request or a cache, is the first microblock       *)
(* announced on its reference, which nextInvs never forgets.               *)
(* DeliveredOnce needs that awaiting and received exclude each other, and  *)
(* that what was handed over is in the received set of its mode.           *)
(***************************************************************************)
EXTENDS MicroBlockSync, TLAPS

Blocks == Micros \cup KeyBlocks \cup {InitTip}

\* What may be asked for: the first announced on its reference; snapshots only in light mode
Expected(kind, m, ni) ==
    /\ kind \in Kinds /\ m \in Micros
    /\ kind = "microblock" => ni[Ref[m]] = m
    /\ kind = "snapshot" => IsLightMode

TaskType == [kind : Kinds, id : Micros, left : Nat, exclude : SUBSET Channels,
             asked : Channels \cup {None}]

RequestType == [kind : Kinds, id : Micros, to : Channels]

TasksOK(ts, ni) == \A t \in DOMAIN ts : t \in TaskType /\ Expected(t.kind, t.id, ni)

RequestsOK(rq, ni) == \A q \in DOMAIN rq : q \in RequestType /\ Expected(q.kind, q.id, ni)

CachesOK(aw, rc, ni) ==
    /\ aw \in [Kinds -> SUBSET Micros] /\ rc \in [Kinds -> SUBSET Micros]
    /\ \A k \in Kinds : aw[k] \cap rc[k] = {}
    /\ \A k \in Kinds : \A m \in aw[k] \cup rc[k] : Expected(k, m, ni)

InvsOK(ni) ==
    /\ ni \in [Blocks -> Micros \cup {None}]
    /\ \A b \in Blocks : ni[b] # None => Ref[ni[b]] = b

BlocksOK ==
    /\ tip \in Blocks /\ lastBlockId \in Blocks
    /\ events \in Seq(Blocks) /\ queue \in Seq(Micros)
    /\ open \subseteq Channels
    /\ owners \in [Micros -> SUBSET Channels]

Final == IF IsLightMode THEN "snapshot" ELSE "microblock"

HandedOverOK(dl, rc) ==
    /\ dl \in [Micros -> Nat]
    /\ \A m \in Micros : dl[m] = 0 \/ (dl[m] = 1 /\ m \in rc[Final])

SyncInv ==
    /\ BlocksOK
    /\ InvsOK(nextInvs)
    /\ TasksOK(tasks, nextInvs)
    /\ RequestsOK(requests, nextInvs)
    /\ CachesOK(awaiting, received, nextInvs)
    /\ HandedOverOK(delivered, received)

-----------------------------------------------------------------------------
(* Bags *)

\* Adding to a bag adds one element to its domain, removing adds none.
LEMMA BagDomains ==
    ASSUME NEW B, NEW x
    PROVE  /\ DOMAIN BagAdd(B, x) = DOMAIN B \cup {x}
           /\ DOMAIN BagRemove(B, x) \subseteq DOMAIN B
BY DEF BagAdd, BagRemove

-----------------------------------------------------------------------------
(* One execution of a download task *)

\* The task asked an owner: it is still a task for the same microblock.
LEMMA AskedTask ==
    ASSUME NEW t \in TaskType, NEW ch \in Channels, t.left > 0
    PROVE  /\ Asked(t, ch) \in TaskType
           /\ Asked(t, ch).kind = t.kind /\ Asked(t, ch).id = t.id
<1>1. t.left - 1 \in Nat
  BY DEF TaskType
<1>2. t.exclude \cup {ch} \in SUBSET Channels
  BY DEF TaskType
<1> DEFINE one == [t EXCEPT !.left = t.left - 1]
           two == [one EXCEPT !.exclude = t.exclude \cup {ch}]
           three == [two EXCEPT !.asked = ch]
<1>3. one \in TaskType /\ one.kind = t.kind /\ one.id = t.id
  BY <1>1 DEF TaskType
<1>4. two \in TaskType /\ two.kind = t.kind /\ two.id = t.id
  <2> HIDE DEF one
  <2> QED BY <1>2, <1>3 DEF TaskType
<1>5. three \in TaskType /\ three.kind = t.kind /\ three.id = t.id
  <2> HIDE DEF two
  <2> QED BY <1>4 DEF TaskType
<1>6. Asked(t, ch) = three
  BY DEF Asked
<1> QED
  BY <1>5, <1>6

\* RunTask keeps downloads, requests and caches in order when what it is given is.
LEMMA RunTaskOK ==
    ASSUME NEW ni, NEW t, NEW others, NEW sent, NEW aw, NEW rc, NEW ow,
           t \in TaskType, Expected(t.kind, t.id, ni),
           open \subseteq Channels,
           TasksOK(others, ni), RequestsOK(sent, ni), CachesOK(aw, rc, ni),
           RunTask(t, others, sent, aw, rc, ow)
    PROVE  TasksOK(tasks', ni) /\ RequestsOK(requests', ni) /\ CachesOK(awaiting', rc, ni)
<1>1. CASE tasks' = others /\ requests' = sent /\ awaiting' = aw
  BY <1>1
<1>2. ASSUME t.left > 0, t.id \notin rc[t.kind], NEW ch \in Candidates(t, ow),
             awaiting' = [aw EXCEPT ![t.kind] = @ \cup {t.id}],
             requests' = BagAdd(sent, [kind |-> t.kind, id |-> t.id, to |-> ch]),
             tasks' = BagAdd(others, Asked(t, ch))
      PROVE  TasksOK(tasks', ni) /\ RequestsOK(requests', ni) /\ CachesOK(awaiting', rc, ni)
  <2>1. ch \in Channels
    BY <1>2 DEF Candidates
  <2>2. TasksOK(tasks', ni)
    <3>1. DOMAIN tasks' = DOMAIN others \cup {Asked(t, ch)}
      BY <1>2, BagDomains, Zenon
    <3>2. Asked(t, ch) \in TaskType /\ Asked(t, ch).kind = t.kind /\ Asked(t, ch).id = t.id
      BY <1>2, <2>1, AskedTask
    <3> QED
      BY <3>1, <3>2 DEF TasksOK
  <2>3. RequestsOK(requests', ni)
    <3> DEFINE q == [kind |-> t.kind, id |-> t.id, to |-> ch]
    <3>1. DOMAIN requests' = DOMAIN sent \cup {q}
      BY <1>2, BagDomains, Zenon
    <3>2. q \in RequestType /\ q.kind = t.kind /\ q.id = t.id
      BY <2>1 DEF RequestType, TaskType
    <3> QED
      BY <3>1, <3>2 DEF RequestsOK
  <2>4. CachesOK(awaiting', rc, ni)
    BY <1>2 DEF CachesOK, TaskType
  <2> QED
    BY <2>2, <2>3, <2>4
<1> QED
  BY <1>1, <1>2, Zenon DEF RunTask

\* The first microblock announced on a block is expected, and so is a task for it.
LEMMA NextTask ==
    ASSUME NEW ni, InvsOK(ni), NEW prev \in Blocks, ni[prev] # None
    PROVE  /\ Task("microblock", ni[prev]) \in TaskType
           /\ Task("microblock", ni[prev]).kind = "microblock"
           /\ Task("microblock", ni[prev]).id = ni[prev]
           /\ Expected("microblock", ni[prev], ni)
BY SyncAssumption DEF Task, TaskType, InvsOK, Expected, Kinds

LEMMA TryDownloadNextOK ==
    ASSUME NEW ni, NEW prev \in Blocks, NEW ow,
           open \subseteq Channels, InvsOK(ni),
           TasksOK(tasks, ni), RequestsOK(requests, ni), CachesOK(awaiting, received, ni),
           TryDownloadNext(prev, ni, ow)
    PROVE  TasksOK(tasks', ni) /\ RequestsOK(requests', ni) /\ CachesOK(awaiting', received, ni)
<1>1. CASE ni[prev] = None
  BY <1>1 DEF TryDownloadNext
<1>2. CASE ni[prev] # None
  <2>1. RunTask(Task("microblock", ni[prev]), tasks, requests, awaiting, received, ow)
    BY <1>2 DEF TryDownloadNext
  <2> QED
    BY <1>2, <2>1, NextTask, RunTaskOK
<1> QED
  BY <1>1, <1>2

-----------------------------------------------------------------------------
(* Inventories *)

\* Remember keeps what was announced first and adds the rest where it belongs.
LEMMA RememberOK ==
    ASSUME NEW ni, InvsOK(ni), NEW m \in Micros
    PROVE  /\ InvsOK(Remember(ni, m))
           /\ \A kind, n : Expected(kind, n, ni) => Expected(kind, n, Remember(ni, m))
<1>1. Ref[m] \in Blocks
  BY SyncAssumption DEF Blocks
<1>2. \A b \in Blocks : ni[b] # None => Remember(ni, m)[b] = ni[b]
  BY <1>1 DEF InvsOK, Remember
<1>3. InvsOK(Remember(ni, m))
  BY <1>1 DEF InvsOK, Remember
<1>4. \A n \in Micros : Ref[n] \in Blocks /\ n # None
  BY SyncAssumption DEF Blocks
<1> QED
  BY <1>2, <1>3, <1>4 DEF Expected

\* What was in order stays so when another inventory is remembered.
LEMMA StillExpectedOK ==
    ASSUME NEW ni, NEW later,
           \A kind, n : Expected(kind, n, ni) => Expected(kind, n, later),
           TasksOK(tasks, ni), RequestsOK(requests, ni), CachesOK(awaiting, received, ni)
    PROVE  TasksOK(tasks, later) /\ RequestsOK(requests, later) /\ CachesOK(awaiting, received, later)
BY DEF TasksOK, RequestsOK, CachesOK

-----------------------------------------------------------------------------
(* Answers *)

\* Taking a request from the bag leaves the rest in order.
LEMMA RemoveRequestOK ==
    ASSUME NEW ni, NEW q, RequestsOK(requests, ni)
    PROVE  RequestsOK(BagRemove(requests, q), ni)
BY BagDomains, Zenon DEF RequestsOK

LEMMA OnMicroBlockOK ==
    ASSUME SyncInv, NEW q \in DOMAIN requests, q.kind = "microblock", OnMicroBlock(q)
    PROVE  /\ TasksOK(tasks', nextInvs) /\ RequestsOK(requests', nextInvs)
           /\ CachesOK(awaiting', received', nextInvs)
           /\ HandedOverOK(delivered', received')
           /\ queue' \in Seq(Micros)
<1>1. q \in RequestType /\ q.id \in Micros /\ Expected("microblock", q.id, nextInvs)
  BY DEF SyncInv, RequestsOK, RequestType
<1>2. RequestsOK(BagRemove(requests, q), nextInvs)
  BY RemoveRequestOK DEF SyncInv
<1>3. received' = [received EXCEPT !["microblock"] = @ \cup {q.id}]
  BY DEF OnMicroBlock
<1>4. \A k \in Kinds : received'[k] = IF k = "microblock" THEN received[k] \cup {q.id} ELSE received[k]
  BY <1>3 DEF SyncInv, CachesOK
<1>5. received' \in [Kinds -> SUBSET Micros]
  BY <1>1, <1>3, Zenon DEF SyncInv, CachesOK
<1>6. ASSUME HandedOverOK(delivered, received)
      PROVE  HandedOverOK(delivered, received')
  <2>1. Final \in Kinds
    BY DEF Final, Kinds
  <2>2. received[Final] \subseteq received'[Final]
    BY <1>4, <2>1, Zenon
  <2> QED
    BY <1>6, <2>2 DEF HandedOverOK
<1> DEFINE aw == [awaiting EXCEPT !["microblock"] = @ \ {q.id}]
<1>7. CachesOK(aw, received', nextInvs)
  BY <1>1, <1>4, <1>5 DEF SyncInv, CachesOK, Kinds
<1>8. CASE ~AlreadyRequested(q.id)
  <2>1. CachesOK(awaiting, received', nextInvs)
    BY <1>1, <1>4, <1>5, <1>8 DEF SyncInv, CachesOK, Kinds, AlreadyRequested
  <2> QED
    BY <1>2, <1>6, <1>8, <2>1 DEF OnMicroBlock, SyncInv, BlocksOK
<1>9. CASE AlreadyRequested(q.id) /\ IsLightMode
  <2> DEFINE t == Task("snapshot", q.id)
  <2>1. t \in TaskType /\ t.kind = "snapshot" /\ t.id = q.id
    BY <1>1, SyncAssumption DEF Task, TaskType, Kinds
  <2>2. Expected("snapshot", q.id, nextInvs)
    BY <1>1, <1>9 DEF Expected, Kinds
  <2>3. RunTask(t, tasks, BagRemove(requests, q), aw, received', owners)
    BY <1>9 DEF OnMicroBlock
  <2> HIDE DEF t, aw
  <2>4. TasksOK(tasks', nextInvs) /\ RequestsOK(requests', nextInvs) /\ CachesOK(awaiting', received', nextInvs)
    BY <1>2, <1>7, <2>1, <2>2, <2>3, RunTaskOK DEF SyncInv, BlocksOK
  <2> QED
    BY <1>6, <1>9, <2>4 DEF OnMicroBlock, SyncInv, BlocksOK
<1>10. CASE AlreadyRequested(q.id) /\ ~IsLightMode
  <2>1. awaiting' = aw /\ requests' = BagRemove(requests, q) /\ tasks' = tasks /\ HandOver(q.id)
    BY <1>10 DEF OnMicroBlock
  <2>2. q.id \notin received["microblock"]
    BY <1>10 DEF AlreadyRequested, SyncInv, CachesOK, Kinds
  <2>3. HandedOverOK(delivered', received')
    BY <1>1, <1>4, <1>10, <2>1, <2>2 DEF HandedOverOK, HandOver, Final, SyncInv, Kinds
  <2>4. queue' \in Seq(Micros)
    BY <1>1, <2>1 DEF HandOver, SyncInv, BlocksOK
  <2> QED
    BY <1>2, <1>7, <2>1, <2>3, <2>4 DEF SyncInv
<1> QED
  BY <1>8, <1>9, <1>10

LEMMA OnSnapshotOK ==
    ASSUME SyncInv, NEW q \in DOMAIN requests, q.kind = "snapshot", OnSnapshot(q)
    PROVE  /\ TasksOK(tasks', nextInvs) /\ RequestsOK(requests', nextInvs)
           /\ CachesOK(awaiting', received', nextInvs)
           /\ HandedOverOK(delivered', received')
           /\ queue' \in Seq(Micros)
<1>1. q.id \in Micros /\ Expected("snapshot", q.id, nextInvs)
  BY DEF SyncInv, RequestsOK, RequestType
<1>2. RequestsOK(requests', nextInvs) /\ TasksOK(tasks', nextInvs)
  BY RemoveRequestOK DEF SyncInv, OnSnapshot
<1>3. IsLightMode /\ Final = "snapshot"
  BY <1>1 DEF Expected, Final
<1>4. awaiting' = [awaiting EXCEPT !["snapshot"] = @ \ {q.id}]
  BY DEF OnSnapshot
<1>5. CASE q.id \in awaiting["snapshot"] \ received["snapshot"]
  <2>1. received' = [received EXCEPT !["snapshot"] = @ \cup {q.id}] /\ HandOver(q.id)
    BY <1>5 DEF OnSnapshot
  <2>2. CachesOK(awaiting', received', nextInvs)
    BY <1>1, <1>4, <2>1 DEF SyncInv, CachesOK, Kinds
  <2>3. \A m \in Micros : m \in received'["snapshot"] <=> m \in received["snapshot"] \/ m = q.id
    BY <2>1 DEF SyncInv, CachesOK, Kinds
  <2>4. HandedOverOK(delivered', received')
    BY <1>1, <1>3, <1>5, <2>1, <2>3 DEF HandedOverOK, HandOver, SyncInv
  <2>5. queue' \in Seq(Micros)
    BY <1>1, <2>1 DEF HandOver, SyncInv, BlocksOK
  <2> QED
    BY <1>2, <2>2, <2>4, <2>5
<1>6. CASE ~(q.id \in awaiting["snapshot"] \ received["snapshot"])
  <2>1. UNCHANGED <<received, queue, delivered>>
    BY <1>6 DEF OnSnapshot
  <2>2. CachesOK(awaiting', received, nextInvs)
    BY <1>1, <1>4 DEF SyncInv, CachesOK, Kinds
  <2> QED
    BY <1>2, <2>1, <2>2 DEF SyncInv, BlocksOK
<1> QED
  BY <1>5, <1>6

-----------------------------------------------------------------------------
(* The invariant *)

LEMMA InitSyncInv == Init => SyncInv
<1> SUFFICES ASSUME Init PROVE SyncInv
  OBVIOUS
<1>1. BlocksOK
  BY DEF Init, BlocksOK, Blocks
<1>2. InvsOK(nextInvs)
  BY DEF Init, InvsOK, Blocks
<1>3. TasksOK(tasks, nextInvs) /\ RequestsOK(requests, nextInvs)
  BY DEF Init, TasksOK, RequestsOK, EmptyBag, SetToBag
<1>4. CachesOK(awaiting, received, nextInvs) /\ HandedOverOK(delivered, received)
  BY DEF Init, CachesOK, HandedOverOK
<1> QED
  BY <1>1, <1>2, <1>3, <1>4 DEF SyncInv

LEMMA NextSyncInv == SyncInv /\ [Next]_vars => SyncInv'
<1> SUFFICES ASSUME SyncInv, [Next]_vars PROVE SyncInv'
  OBVIOUS
<1>1. ASSUME NEW t \in DOMAIN tasks, Timeout(t) PROVE SyncInv'
  <2>1. t \in TaskType /\ Expected(t.kind, t.id, nextInvs)
    BY DEF SyncInv, TasksOK
  <2>2. TasksOK(BagRemove(tasks, t), nextInvs)
    BY BagDomains, Zenon DEF SyncInv, TasksOK
  <2>3. RunTask(t, BagRemove(tasks, t), requests, awaiting, received, owners)
    BY <1>1 DEF Timeout
  <2>4. TasksOK(tasks', nextInvs) /\ RequestsOK(requests', nextInvs) /\ CachesOK(awaiting', received, nextInvs)
    BY <2>1, <2>2, <2>3, RunTaskOK DEF SyncInv, BlocksOK
  <2> QED
    BY <1>1, <2>4 DEF Timeout, SyncInv, BlocksOK
<1>2. CASE OnLastBlockId
  <2>1. Head(events) \in Blocks /\ Tail(events) \in Seq(Blocks)
    BY <1>2 DEF OnLastBlockId, SyncInv, BlocksOK
  <2>2. TasksOK(tasks', nextInvs) /\ RequestsOK(requests', nextInvs) /\ CachesOK(awaiting', received, nextInvs)
    BY <1>2, <2>1, TryDownloadNextOK DEF OnLastBlockId, SyncInv, BlocksOK
  <2> QED
    BY <1>2, <2>1, <2>2 DEF OnLastBlockId, SyncInv, BlocksOK
<1>3. CASE ObserveLastBlockId
  BY <1>3 DEF ObserveLastBlockId, SyncInv, BlocksOK
<1>4. ASSUME NEW ch \in Channels, NEW m \in Micros, RefuseInv(ch, m) PROVE SyncInv'
  BY <1>4 DEF RefuseInv, SyncInv, BlocksOK
<1>5. ASSUME NEW ch \in Channels, NEW m \in Micros, OnInv(ch, m) PROVE SyncInv'
  <2>1. nextInvs' = Remember(nextInvs, m)
    BY <1>5 DEF OnInv
  <2>2. InvsOK(nextInvs') /\ TasksOK(tasks, nextInvs') /\ RequestsOK(requests, nextInvs')
          /\ CachesOK(awaiting, received, nextInvs')
    BY <2>1, RememberOK, StillExpectedOK, Zenon DEF SyncInv
  <2>3. Ref[m] \in Blocks
    BY SyncAssumption DEF Blocks
  <2>4. TasksOK(tasks', nextInvs') /\ RequestsOK(requests', nextInvs') /\ CachesOK(awaiting', received, nextInvs')
    <3>1. CASE lastBlockId = Ref[m] /\ ~AlreadyRequested(m)
      <4>1. TryDownloadNext(Ref[m], nextInvs', owners')
        BY <1>5, <3>1 DEF OnInv
      <4> QED
        BY <2>2, <2>3, <4>1, TryDownloadNextOK DEF SyncInv, BlocksOK
    <3>2. CASE ~(lastBlockId = Ref[m] /\ ~AlreadyRequested(m))
      BY <1>5, <2>2, <3>2 DEF OnInv
    <3> QED
      BY <3>1, <3>2
  <2>5. BlocksOK'
    BY <1>5 DEF OnInv, SyncInv, BlocksOK
  <2> QED
    BY <1>5, <2>2, <2>4, <2>5 DEF OnInv, SyncInv
<1>6. ASSUME NEW q \in DOMAIN requests, Answer(q) PROVE SyncInv'
  <2>1. q.kind \in Kinds
    BY DEF SyncInv, RequestsOK, RequestType
  <2>2. /\ TasksOK(tasks', nextInvs) /\ RequestsOK(requests', nextInvs)
        /\ CachesOK(awaiting', received', nextInvs)
        /\ HandedOverOK(delivered', received')
        /\ queue' \in Seq(Micros)
    BY <1>6, <2>1, OnMicroBlockOK, OnSnapshotOK DEF Answer, Kinds
  <2> QED
    BY <1>6, <2>2 DEF Answer, SyncInv, BlocksOK
<1>7. CASE AppendMicroBlock
  <2>1. Head(queue) \in Blocks /\ Tail(queue) \in Seq(Micros)
    BY <1>7 DEF AppendMicroBlock, SyncInv, BlocksOK, Blocks
  <2>2. BlocksOK'
    <3>1. tip' \in Blocks /\ events' \in Seq(Blocks)
      <4>1. tip \in Blocks /\ events \in Seq(Blocks)
        BY DEF SyncInv, BlocksOK
      <4>2. \/ tip' = Head(queue) /\ events' = Append(events, Head(queue))
            \/ tip' = tip /\ events' = events
        BY <1>7, Zenon DEF AppendMicroBlock, Publish
      <4> QED
        BY <2>1, <4>1, <4>2
    <3> QED
      BY <1>7, <2>1, <3>1 DEF AppendMicroBlock, SyncInv, BlocksOK
  <2> QED
    BY <1>7, <2>2 DEF AppendMicroBlock, SyncInv
<1>8. ASSUME NEW b \in KeyBlocks, AppendKeyBlock(b) PROVE SyncInv'
  <2>1. b \in Blocks
    BY DEF Blocks
  <2>2. BlocksOK'
    BY <1>8, <2>1 DEF AppendKeyBlock, Publish, SyncInv, BlocksOK
  <2> QED
    BY <1>8, <2>2 DEF AppendKeyBlock, SyncInv
<1>9. CASE UNCHANGED vars
  BY <1>9 DEF vars, SyncInv, BlocksOK
<1> QED
  BY <1>1, <1>2, <1>3, <1>4, <1>5, <1>6, <1>7, <1>8, <1>9 DEF Next

\* The appender is handed each microblock at most once (MicroBlockSynchronizer:
\* awaiting and successfullyReceived), whatever is announced, retried or late.
THEOREM SpecDeliveredOnce == Spec => []DeliveredOnce
<1>1. SyncInv => DeliveredOnce
  BY DEF SyncInv, HandedOverOK, DeliveredOnce
<1> QED
  BY <1>1, InitSyncInv, NextSyncInv, PTL DEF Spec

\* Of the microblocks on one block only the first one announced is asked for
\* (MicroBlockSynchronizer: nextInvs).
THEOREM SpecOneChildRequested == Spec => []OneChildRequested
<1>1. SyncInv => OneChildRequested
  BY DEF SyncInv, CachesOK, Expected, OneChildRequested, Kinds
<1> QED
  BY <1>1, InitSyncInv, NextSyncInv, PTL DEF Spec
=============================================================================
