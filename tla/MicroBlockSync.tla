--------------------------- MODULE MicroBlockSync ---------------------------
(***************************************************************************)
(* The microblock synchronizer (network/MicroBlockSynchronizer.scala):     *)
(* peers announce the microblocks they have, the node asks one of the      *)
(* owners for the microblock that continues its last block, asks another   *)
(* one when no answer came in time, and hands what arrives to the          *)
(* appender.  A light node then asks for the state snapshot of the         *)
(* microblock in the same way before anything is handed over.              *)
(*                                                                         *)
(* The handlers run on one scheduler, so each is one step.  The last block *)
(* id that they read is kept by another subscriber of the same stream,     *)
(* which runs when the appender publishes, before or after the handler of  *)
(* the event.  Caches do not expire: a behaviour is shorter than           *)
(* inv-cache-timeout.                                                      *)
(***************************************************************************)
EXTENDS Naturals, Sequences, FiniteSets, Bags, BagsExt

CONSTANTS
    Channels,       \* connected peers
    Responsive,     \* peers that keep and send what they have announced
    Micros,         \* microblocks, named by the id of the block they make
    KeyBlocks,      \* key blocks that may be appended at any time, once each
    Ref,            \* the block each microblock references
    InitTip,        \* the last block of the node at the start
    Announcements,  \* the inventories on their way, <<channel, microblock>>
    Forged,         \* those of them that are not signed by their sender
    Attempts,       \* MicroBlockDownloadAttempts
    IsLightMode,
    None

Kinds == {"microblock", "snapshot"}

ASSUME SyncAssumption ==
    /\ Responsive \subseteq Channels
    /\ Ref \in [Micros -> Micros \cup KeyBlocks \cup {InitTip}]
    /\ Announcements \subseteq Channels \X Micros
    /\ Forged \subseteq Announcements
    /\ Attempts \in Nat
    /\ IsLightMode \in BOOLEAN
    /\ None \notin Micros

VARIABLES
    tip,            \* the last block of the node
    published,      \* FALSE while lastBlockId has not seen the tip
    lastBlockId,    \* what lastObserved has recorded
    events,         \* last block ids the event handler has not seen
    keys,           \* key blocks still to come
    announced,      \* inventories still to arrive
    open,           \* open channels
    owners,         \* microBlockOwners
    nextInvs,       \* the first microblock announced per referenced block
    awaiting,       \* awaiting and waitingForSnapshot
    received,       \* successfullyReceived and receivedSnapshots
    tasks,          \* bag of downloads waiting for their timeout
    requests,       \* bag of requests sent and not answered
    queue,          \* what was handed over and is not processed yet
    delivered,      \* how often each microblock was handed over
    late            \* microblocks announced between the handler of the event
                    \* and the update of lastBlockId (history)

vars == <<tip, published, lastBlockId, events, keys, announced, open, owners, nextInvs,
          awaiting, received, tasks, requests, queue, delivered, late>>

Init ==
    /\ tip = InitTip /\ published = TRUE /\ lastBlockId = InitTip
    /\ events = <<InitTip>>             \* ReplaySubject repeats the last one
    /\ keys = KeyBlocks
    /\ announced = Announcements
    /\ open = Channels
    /\ owners = [m \in Micros |-> {}]
    /\ nextInvs = [b \in Micros \cup KeyBlocks \cup {InitTip} |-> None]
    /\ awaiting = [k \in Kinds |-> {}]
    /\ received = [k \in Kinds |-> {}]
    /\ tasks = EmptyBag /\ requests = EmptyBag
    /\ queue = <<>>
    /\ delivered = [m \in Micros |-> 0]
    /\ late = {}

-----------------------------------------------------------------------------
(* Downloading *)

Task(kind, m) == [kind |-> kind, id |-> m, left |-> Attempts, exclude |-> {}, asked |-> None]

\* closed owners are passed over without costing an attempt
Candidates(t, ow) == (ow[t.id] \ t.exclude) \cap open

\* mutant: the owner that was asked may be asked again
Asked_again(t, ch) == [t EXCEPT !.left = @ - 1, !.asked = ch]

Asked(t, ch) == [t EXCEPT !.left = @ - 1, !.exclude = @ \cup {ch}, !.asked = ch]

\* One execution of the task: it ends, or asks an owner and waits.  The
\* arguments are the tasks beside it and the caches as the handler leaves them.
RunTask(t, others, sent, aw, rc, ow) ==
    \/ /\ t.left = 0 \/ t.id \in rc[t.kind] \/ Candidates(t, ow) = {}
       /\ tasks' = others /\ requests' = sent /\ awaiting' = aw
    \/ /\ t.left > 0 /\ t.id \notin rc[t.kind]
       /\ \E ch \in Candidates(t, ow) :
            /\ awaiting' = [aw EXCEPT ![t.kind] = @ \cup {t.id}]
            /\ requests' = BagAdd(sent, [kind |-> t.kind, id |-> t.id, to |-> ch])
            /\ tasks' = BagAdd(others, Asked(t, ch))

\* the first microblock announced on top of prev, if there is one
TryDownloadNext(prev, ni, ow) ==
    IF ni[prev] = None
    THEN UNCHANGED <<tasks, requests, awaiting>>
    ELSE RunTask(Task("microblock", ni[prev]), tasks, requests, awaiting, received, ow)

\* An answer comes from an open channel after the request; a responsive peer
\* answers within wait-response-timeout, any other one late or never.
Timeout(t) ==
    /\ BagIn(t, tasks)
    /\ ~ /\ t.asked \in Responsive \cap open
         /\ BagIn([kind |-> t.kind, id |-> t.id, to |-> t.asked], requests)
    /\ RunTask(t, BagRemove(tasks, t), requests, awaiting, received, owners)
    /\ UNCHANGED <<tip, published, lastBlockId, events, keys, announced, open, owners,
                   nextInvs, received, queue, delivered, late>>

-----------------------------------------------------------------------------
(* The last block id *)

\* mutant: the handler looks at lastBlockId instead of the event
OnLastBlockId_observed ==
    /\ events # <<>>
    /\ events' = Tail(events)
    /\ TryDownloadNext(lastBlockId, nextInvs, owners)
    /\ UNCHANGED <<tip, published, lastBlockId, keys, announced, open, owners, nextInvs,
                   received, queue, delivered, late>>

OnLastBlockId ==
    /\ events # <<>>
    /\ events' = Tail(events)
    /\ TryDownloadNext(Head(events), nextInvs, owners)
    /\ UNCHANGED <<tip, published, lastBlockId, keys, announced, open, owners, nextInvs,
                   received, queue, delivered, late>>

ObserveLastBlockId ==
    /\ ~published
    /\ published' = TRUE
    /\ lastBlockId' = tip
    /\ UNCHANGED <<tip, events, keys, announced, open, owners, nextInvs, awaiting,
                   received, tasks, requests, queue, delivered, late>>

-----------------------------------------------------------------------------
(* Inventories *)

\* An inventory that is not signed by its sender closes the channel.  A peer
\* that disconnects is the same to the synchronizer.
RefuseInv(ch, m) ==
    /\ <<ch, m>> \in announced \cap Forged /\ ch \in open
    /\ announced' = announced \ {<<ch, m>>}
    /\ open' = open \ {ch}
    /\ UNCHANGED <<tip, published, lastBlockId, events, keys, owners, nextInvs, awaiting,
                   received, tasks, requests, queue, delivered, late>>

AlreadyRequested(m) == m \in awaiting["microblock"]

\* mutant: the last inventory wins
Remember_last(ni, m) == [ni EXCEPT ![Ref[m]] = m]

\* the first inventory per reference wins
Remember(ni, m) == [ni EXCEPT ![Ref[m]] = IF @ = None THEN m ELSE @]

OnInv(ch, m) ==
    /\ <<ch, m>> \in announced \ Forged /\ ch \in open
    /\ announced' = announced \ {<<ch, m>>}
    /\ owners' = [owners EXCEPT ![m] = @ \cup {ch}]
    /\ nextInvs' = Remember(nextInvs, m)
    /\ IF lastBlockId = Ref[m] /\ ~AlreadyRequested(m)
       THEN TryDownloadNext(Ref[m], nextInvs', owners')
       ELSE UNCHANGED <<tasks, requests, awaiting>>
    /\ late' = IF Ref[m] = tip /\ ~published /\ \A i \in DOMAIN events : events[i] # tip
                THEN late \cup {m}
                ELSE late
    /\ UNCHANGED <<tip, published, lastBlockId, events, keys, open, received, queue,
                   delivered>>

-----------------------------------------------------------------------------
(* Answers *)

HandOver(m) ==
    /\ queue' = Append(queue, m)
    /\ delivered' = [delivered EXCEPT ![m] = @ + 1]

\* A response counts as received whether or not it was expected.  In light
\* mode an expected one starts the download of its snapshot.
OnMicroBlock(q) ==
    /\ received' = [received EXCEPT !["microblock"] = @ \cup {q.id}]
    /\ IF AlreadyRequested(q.id)
       THEN LET aw == [awaiting EXCEPT !["microblock"] = @ \ {q.id}] IN
            IF IsLightMode
            THEN /\ RunTask(Task("snapshot", q.id), tasks, BagRemove(requests, q), aw,
                            received', owners)
                 /\ UNCHANGED <<queue, delivered>>
            ELSE /\ awaiting' = aw /\ requests' = BagRemove(requests, q) /\ tasks' = tasks
                 /\ HandOver(q.id)
       ELSE /\ requests' = BagRemove(requests, q)
            /\ UNCHANGED <<tasks, awaiting, queue, delivered>>

\* mutant: an expected snapshot is not marked as received
OnSnapshot_unmarked(q) ==
    /\ requests' = BagRemove(requests, q) /\ tasks' = tasks
    /\ awaiting' = [awaiting EXCEPT !["snapshot"] = @ \ {q.id}]
    /\ IF q.id \in awaiting["snapshot"] \ received["snapshot"]
       THEN HandOver(q.id) /\ UNCHANGED received
       ELSE UNCHANGED <<received, queue, delivered>>

\* a snapshot counts as received only if it was expected
OnSnapshot(q) ==
    /\ requests' = BagRemove(requests, q) /\ tasks' = tasks
    /\ awaiting' = [awaiting EXCEPT !["snapshot"] = @ \ {q.id}]
    /\ IF q.id \in awaiting["snapshot"] \ received["snapshot"]
       THEN /\ received' = [received EXCEPT !["snapshot"] = @ \cup {q.id}]
            /\ HandOver(q.id)
       ELSE UNCHANGED <<received, queue, delivered>>

Answer(q) ==
    /\ BagIn(q, requests) /\ q.to \in open
    /\ IF q.kind = "microblock" THEN OnMicroBlock(q) ELSE OnSnapshot(q)
    /\ UNCHANGED <<tip, published, lastBlockId, events, keys, announced, open, owners,
                   nextInvs, late>>

-----------------------------------------------------------------------------
(* The appender *)

Publish(b) == tip' = b /\ published' = FALSE /\ events' = Append(events, b)

\* only the microblock that continues the last block is appended
AppendMicroBlock ==
    /\ queue # <<>> /\ published
    /\ queue' = Tail(queue)
    /\ IF Ref[Head(queue)] = tip
       THEN Publish(Head(queue))
       ELSE UNCHANGED <<tip, published, events>>
    /\ UNCHANGED <<lastBlockId, keys, announced, open, owners, nextInvs, awaiting,
                   received, tasks, requests, delivered, late>>

AppendKeyBlock(b) ==
    /\ b \in keys /\ published
    /\ keys' = keys \ {b}
    /\ Publish(b)
    /\ UNCHANGED <<lastBlockId, announced, open, owners, nextInvs, awaiting, received,
                   tasks, requests, queue, delivered, late>>

-----------------------------------------------------------------------------
Next ==
    \/ \E t \in DOMAIN tasks : Timeout(t)
    \/ OnLastBlockId
    \/ ObserveLastBlockId
    \/ \E ch \in Channels, m \in Micros : RefuseInv(ch, m) \/ OnInv(ch, m)
    \/ \E q \in DOMAIN requests : Answer(q)
    \/ AppendMicroBlock
    \/ \E b \in KeyBlocks : AppendKeyBlock(b)

\* The schedulers run what was submitted to them and timers go off; requests
\* to responsive peers are answered, and inventories arrive.  Nothing makes
\* the other peers answer, or a key block come.
Fairness ==
    /\ WF_vars(OnLastBlockId)
    /\ WF_vars(ObserveLastBlockId)
    /\ WF_vars(\E t \in DOMAIN tasks : Timeout(t))
    /\ WF_vars(\E ch \in Channels, m \in Micros : OnInv(ch, m))
    /\ WF_vars(\E q \in DOMAIN requests : q.to \in Responsive /\ Answer(q))
    /\ WF_vars(AppendMicroBlock)

Spec == Init /\ [][Next]_vars /\ Fairness

-----------------------------------------------------------------------------
(* Properties *)

\* Two downloads of one microblock may run at once, from the event and from
\* an inventory, and a late answer may follow the retry that was answered; the
\* appender still gets each microblock once (awaiting and successfullyReceived).
DeliveredOnce == \A m \in Micros : delivered[m] <= 1

\* Of several microblocks announced on the same block only the first one is
\* ever asked for, however the announcements, their owners and the last block
\* interleave (nextInvs, "should not request forked microblocks").
OneChildRequested ==
    \A m, n \in awaiting["microblock"] \cup received["microblock"] :
        Ref[m] = Ref[n] => m = n

HasResponsive(m) == owners[m] \cap Responsive \cap open # {}

\* No wake-up is lost between an inventory and the last block: what was
\* announced first on top of the last block by a peer that is there is asked
\* for, whichever of the two came first.  The inventory handled after the
\* event of its reference and before lastBlockId is excepted: nobody looks at
\* it until the next one.
NextIsRequested ==
    \A m \in Micros :
        (nextInvs[tip] = m /\ HasResponsive(m) /\ m \notin late)
            ~> (m \in awaiting["microblock"] \cup received["microblock"] \/ tip # Ref[m])

Downloading(kind, m) == \E t \in DOMAIN tasks : t.kind = kind /\ t.id = m /\ t.left > 0

\* While a download has an attempt left and knows an owner that answers, it
\* completes: a silent or closed owner is replaced by another one.  In light
\* mode this holds for the microblock and again for its snapshot.
DownloadCompletes ==
    \A kind \in Kinds, m \in Micros :
        (Downloading(kind, m) /\ HasResponsive(m)) ~> (m \in received[kind])

=============================================================================
