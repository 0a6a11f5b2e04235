---------------------------- MODULE ChainService ----------------------------
(***************************************************************************)
(* EthChainService: the events of the adjudicator contract on their way    *)
(* from the chain to the engine of one node.                               *)
(*                                                                         *)
(* Two listeners, one for logs and one for block numbers, share the        *)
(* eventTracker: a heap of logs and the latest block number, under a       *)
(* mutex.  Whoever holds the mutex pops the logs that have enough          *)
(* confirmations, asks the chain whether their block is still part of it,  *)
(* and dispatches them to the engine after it released the mutex.  When a  *)
(* subscription fails, and when the node starts, the logs that were missed *)
(* are fetched.  Every await is the end of a step.                         *)
(*                                                                         *)
(* The chain, its subscriptions and the heap (a library, which is given    *)
(* block numbers only to compare) are external.  An error of the service   *)
(* is thrown by listenForErrors into an unhandled rejection, which ends    *)
(* the process.                                                            *)
(***************************************************************************)
EXTENDS Integers, Sequences, FiniteSets, Bags

CONSTANTS
  Channels,      \* the channels the contract holds funds for
  Budgets,       \* bounds: how much of each kind a behaviour may have
  MaxBlock,      \* bound: blocks of the chain
  MaxAttempts,   \* bound: attempts of one resubscription (9 in the code)
  BufferSize,    \* capacity of the out channel (10 in the code)
  MAX_EPOCHS     \* blocks of one request for old logs, less one

\* Transactions on the chain, reorganisations, failures that end
\* the process, subscriptions that break, resubscriptions, ticks of the
\* engine's blockTicker, and times the node is stopped.
Budget == [{"txs", "reorgs", "failures", "breaks", "resubs", "ticks", "stops"} -> Nat]

ASSUME BoundsAssumption ==
  /\ IsFiniteSet(Channels)
  /\ Budgets \subseteq Budget
  /\ {MaxBlock, MaxAttempts, MAX_EPOCHS} \subseteq Nat
  /\ BufferSize \in Nat \ {0}

VARIABLES
  chain,       \* the blocks, each with its hash and at most one transaction
  mined,       \* how many blocks were ever mined, the supply of hashes
  provider,    \* the subscriptions of the node and what they delivered
  tracker,     \* EventTracker: the latest block number, the heap, the mutex
  listener,    \* listenForEventLogs and listenForNewBlocks
  resubs,      \* the resubscriptions that listenForSubscriptionError began
  out,         \* the channel of events to the engine
  handling,    \* the event the engine is handling
  store,       \* what the node has stored: last block, holdings, events handled
  up,          \* whether the node runs
  budget,      \* how much of what may happen in this behaviour
  spent        \* how much of it has happened

bounds == <<budget, spent>>

vars == <<chain, mined, provider, tracker, listener, resubs, out, handling, store, up, bounds>>

REQUIRED_BLOCK_CONFIRMATIONS == 2

Listeners == {"logs", "blocks"}

NoTx == [kind |-> "none", channel |-> "none"]
Txs == [kind : {"deposit", "conclude", "challenge"}, channel : Channels]

\* The topics of the logs a transaction emits.
TopicsOf(tx) == CASE tx.kind = "deposit"   -> {"Deposited"}
                  [] tx.kind = "conclude"  -> {"Concluded", "AllocationUpdated"}
                  [] tx.kind = "challenge" -> {"ChallengeRegistered"}
                  [] OTHER                 -> {}

\* What the contract holds for a channel after block b: one unit a deposit,
\* nothing after a conclusion.
HeldAfter(blocks, b, channel) ==
  LET has(kind) == {n \in 1..b : blocks[n].tx = [kind |-> kind, channel |-> channel]}
  IN  IF has("conclude") # {} THEN 0 ELSE Cardinality(has("deposit"))

LogsOf(blocks, b) ==
  {[topic |-> topic, channel |-> blocks[b].tx.channel, blockNumber |-> b,
    blockHash |-> blocks[b].hash, held |-> HeldAfter(blocks, b, blocks[b].tx.channel)] :
      topic \in TopicsOf(blocks[b].tx)}

OnChain == UNION {LogsOf(chain, b) : b \in DOMAIN chain}

IsConfirmed(log, latest) == latest >= log.blockNumber + REQUIRED_BLOCK_CONFIRMATIONS

Spend(what) ==
  /\ spent[what] < budget[what]
  /\ spent' = [spent EXCEPT ![what] = @ + 1]
  /\ UNCHANGED budget
-----------------------------------------------------------------------------
Unsubscribed == [feed |-> <<>>, heads |-> <<>>, subs |-> 0, connected |-> FALSE, subErr |-> "quiet"]
Subscribed == [Unsubscribed EXCEPT !.subs = 1, !.connected = TRUE]

Idle == [at |-> "idle", batch |-> <<>>]

Init ==
  /\ chain = <<>> /\ mined = 0
  /\ provider = Subscribed
  /\ tracker = [latestBlockNum |-> 0, events |-> EmptyBag, mu |-> "nobody"]
  /\ listener = [l \in Listeners |-> Idle]
  /\ resubs = <<>> /\ out = <<>> /\ handling = <<>>
  /\ store = [lastBlock |-> 0, held |-> [c \in Channels |-> 0], handled |-> {}]
  /\ up = TRUE
  /\ budget \in Budgets
  /\ spent = [what \in DOMAIN budget |-> 0]

\* The sequence s, each entry as often as there are subscriptions.
Repeated(s, times) == [i \in 1..(Len(s) * times) |-> s[((i - 1) \div times) + 1]]

\* Logs in the order in which their blocks were mined.
IsMinedInOrder(s) == \A i, j \in DOMAIN s : i < j => s[i].blockHash <= s[j].blockHash

LogsAsSeq(logs) ==
  CHOOSE s \in [1..Cardinality(logs) -> logs] :
    IsMinedInOrder(s) /\ {s[i] : i \in DOMAIN s} = logs

\* The subscriptions deliver logs and block numbers, in two queues of their own.
Deliver(logs, numbers) ==
  IF provider.connected
  THEN provider' = [provider EXCEPT !.feed = @ \o Repeated(LogsAsSeq(logs), provider.subs),
                                    !.heads = @ \o Repeated(numbers, provider.subs)]
  ELSE UNCHANGED provider

\* A channel that was concluded takes no more transactions.
CanMine(tx) ==
  \/ tx = NoTx
  \/ /\ Cardinality({b \in DOMAIN chain : chain[b].tx # NoTx}) < budget.txs
     /\ \A b \in DOMAIN chain : chain[b].tx # [kind |-> "conclude", channel |-> tx.channel]

Mine(tx) ==
  /\ Len(chain) < MaxBlock /\ CanMine(tx)
  /\ mined' = mined + 1
  /\ chain' = Append(chain, [hash |-> mined', tx |-> tx])
  /\ Deliver(LogsOf(chain', Len(chain')), <<Len(chain')>>)
  /\ UNCHANGED <<tracker, listener, resubs, out, handling, store, up, bounds>>

\* The last blocks are replaced by as many others, of which the first keep
\* their transactions.  The subscription delivers the removed logs once more
\* (marked as removed, which nobody looks at) and the new ones.
Reorganise(depth, keep) ==
  LET base == Len(chain) - depth
      removed == UNION {LogsOf(chain, b) : b \in base + 1..Len(chain)}
  IN
  /\ Spend("reorgs")
  /\ base >= 0 /\ depth <= REQUIRED_BLOCK_CONFIRMATIONS
  /\ mined' = mined + depth
  /\ chain' = [b \in DOMAIN chain |->
                 IF b <= base THEN chain[b]
                 ELSE [hash |-> mined + b - base,
                       tx |-> IF b <= base + keep THEN chain[b].tx ELSE NoTx]]
  /\ Deliver(removed \cup UNION {LogsOf(chain', b) : b \in base + 1..Len(chain)},
             [i \in 1..depth |-> base + i])
  /\ UNCHANGED <<tracker, listener, resubs, out, handling, store, up>>
-----------------------------------------------------------------------------
(* checkForMissedEvents: the logs from startBlock on, in chunks.           *)

ChunkStarts(startBlock) ==
  {startBlock + k * (MAX_EPOCHS + 1) : k \in 0..Len(chain)}

ChunkEnd(currentStart) ==
  IF currentStart + MAX_EPOCHS > Len(chain) THEN Len(chain) ELSE currentStart + MAX_EPOCHS

MissedEvents(startBlock) ==
  {log \in OnChain : \E s \in ChunkStarts(startBlock) :
                       log.blockNumber \in s..ChunkEnd(s)}

\* initializeNode and newEthChainService: subscribe first, and fetch the
\* missed logs before the listeners get the mutex.
Start ==
  /\ ~up
  /\ up' = TRUE
  /\ provider' = Subscribed
  /\ tracker' = [latestBlockNum |-> store.lastBlock, events |-> EmptyBag, mu |-> "start"]
  /\ UNCHANGED <<chain, mined, listener, resubs, out, handling, store, bounds>>

FinishStart ==
  /\ tracker.mu = "start"
  /\ tracker' = [tracker EXCEPT !.events = SetToBag(MissedEvents(tracker.latestBlockNum)),
                                !.mu = "nobody"]
  /\ UNCHANGED <<chain, mined, provider, listener, resubs, out, handling, store, up, bounds>>

\* What the process loses when it ends.
End ==
  /\ up' = FALSE
  /\ provider' = Unsubscribed
  /\ tracker' = [latestBlockNum |-> 0, events |-> EmptyBag, mu |-> "nobody"]
  /\ listener' = [l \in Listeners |-> Idle]
  /\ resubs' = <<>> /\ out' = <<>> /\ handling' = <<>>
  /\ UNCHANGED <<chain, mined, store>>

Stop ==
  /\ up
  /\ Spend("stops")
  /\ End
-----------------------------------------------------------------------------
(* The listeners: updateEventTracker and dispatchChainEvents.              *)

IsFree == up /\ tracker.mu = "nobody"

\* (mistaken) one log of each block is enough
ListenForOneLog ==
  /\ IsFree /\ listener["logs"].at = "idle" /\ provider.feed # <<>>
  /\ LET known == \E log \in BagToSet(tracker.events) : log.blockNumber = Head(provider.feed).blockNumber
     IN  tracker' = [tracker EXCEPT !.events = IF known THEN @ ELSE @ (+) SetToBag({Head(provider.feed)}),
                                    !.mu = "logs"]
  /\ provider' = [provider EXCEPT !.feed = Tail(@)]
  /\ listener' = [listener EXCEPT !["logs"].at = "popping"]
  /\ UNCHANGED <<chain, mined, resubs, out, handling, store, up, bounds>>

\* A log is pushed on the heap.
ListenForEventLogs ==
  /\ IsFree /\ listener["logs"].at = "idle" /\ provider.feed # <<>>
  /\ tracker' = [tracker EXCEPT !.events = @ (+) SetToBag({Head(provider.feed)}), !.mu = "logs"]
  /\ provider' = [provider EXCEPT !.feed = Tail(@)]
  /\ listener' = [listener EXCEPT !["logs"].at = "popping"]
  /\ UNCHANGED <<chain, mined, resubs, out, handling, store, up, bounds>>

Later(number, latest) == IF number > latest THEN number ELSE latest

\* A block number only ever raises the latest one.
ListenForNewBlocks ==
  /\ IsFree /\ listener["blocks"].at = "idle" /\ provider.heads # <<>>
  /\ tracker' = [tracker EXCEPT !.latestBlockNum = Later(Head(provider.heads), @), !.mu = "blocks"]
  /\ provider' = [provider EXCEPT !.heads = Tail(@)]
  /\ listener' = [listener EXCEPT !["blocks"].at = "popping"]
  /\ UNCHANGED <<chain, mined, resubs, out, handling, store, up, bounds>>

\* (mistaken) the comparison of the heap the other way round
Bottoms == {log \in BagToSet(tracker.events) :
              \A other \in BagToSet(tracker.events) : log.blockNumber >= other.blockNumber}

\* The heap compares block numbers: any log of the least block may be on top.
Tops == {log \in BagToSet(tracker.events) :
           \A other \in BagToSet(tracker.events) : log.blockNumber <= other.blockNumber}

Ripe == {log \in Tops : IsConfirmed(log, tracker.latestBlockNum)}

\* (mistaken) the hash of the block is not compared
IsAnyLog(log) == log \in BagToSet(tracker.events)

IsStillOnChain(log) == chain[log.blockNumber].hash = log.blockHash

\* One turn of the loop: pop, fetch the block, keep the log or drop it.
Pop(l, log) ==
  /\ listener[l].at = "popping" /\ log \in Ripe
  /\ tracker' = [tracker EXCEPT !.events = @ (-) SetToBag({log})]
  /\ listener' = IF IsStillOnChain(log)
                 THEN [listener EXCEPT ![l].batch = Append(@, log)]
                 ELSE listener
  /\ UNCHANGED <<chain, mined, provider, resubs, out, handling, store, up, bounds>>

\* The mutex is released before the events are dispatched.
Release(l) ==
  /\ listener[l].at = "popping" /\ Ripe = {}
  /\ tracker' = [tracker EXCEPT !.mu = "nobody"]
  /\ listener' = [listener EXCEPT ![l].at = "dispatching"]
  /\ UNCHANGED <<chain, mined, provider, resubs, out, handling, store, up, bounds>>

\* The transaction of an AllocationUpdated log is fetched first.
NeedsTransaction(log) == log.topic = "AllocationUpdated"

\* Every push but that of a ChallengeRegistered event waits for a place in
\* the buffer.
WaitsForPlace(log) == log.topic # "ChallengeRegistered"

Dispatch(l) ==
  LET log == Head(listener[l].batch)
  IN
  /\ listener[l].at = "dispatching" /\ listener[l].batch # <<>>
  /\ WaitsForPlace(log) => Len(out) < BufferSize
  /\ out' = Append(out, log)
  /\ listener' = [listener EXCEPT ![l].batch = Tail(@)]
  /\ UNCHANGED <<chain, mined, provider, tracker, resubs, handling, store, up, bounds>>

Dispatched(l) ==
  /\ listener[l].at = "dispatching" /\ listener[l].batch = <<>>
  /\ listener' = [listener EXCEPT ![l] = Idle]
  /\ UNCHANGED <<chain, mined, provider, tracker, resubs, out, handling, store, up, bounds>>

\* A block or a transaction cannot be fetched, or the logs that were missed:
\* the error ends the process.
RequestFails ==
  /\ up
  /\ \/ \E l \in Listeners :
          \/ listener[l].at = "popping" /\ Ripe # {}
          \/ /\ listener[l].at = "dispatching" /\ listener[l].batch # <<>>
             /\ NeedsTransaction(Head(listener[l].batch))
     \/ tracker.mu = "start"
     \/ resubs # <<>> /\ resubs[1].at = "fetching"
  /\ Spend("failures")
  /\ End
-----------------------------------------------------------------------------
(* listenForSubscriptionError.                                             *)

SubscriptionBreaks ==
  /\ up /\ provider.connected
  /\ provider' = [provider EXCEPT !.connected = FALSE,
                                  !.subErr = IF @ = "closed" THEN @ ELSE "error"]
  /\ Spend("breaks")
  /\ UNCHANGED <<chain, mined, tracker, listener, resubs, out, handling, store, up>>

\* Each value of the channel of errors begins a resubscription, and a closed
\* channel always has one: undefined.  The last confirmed block is read before
\* the mutex is taken again.
ListenForSubscriptionError ==
  /\ IsFree /\ provider.subErr # "quiet"
  /\ resubs' = Append(resubs, [at |-> "waiting", err |-> provider.subErr = "error", attempts |-> 0,
                               from |-> Later(tracker.latestBlockNum - REQUIRED_BLOCK_CONFIRMATIONS, 0)])
  /\ provider' = [provider EXCEPT !.subErr = IF @ = "error" THEN "quiet" ELSE @]
  /\ Spend("resubs")
  /\ UNCHANGED <<chain, mined, tracker, listener, out, handling, store, up>>

\* After an error the old subscriptions are given up, and that closes the
\* channel of errors.
BeginResubscription ==
  /\ IsFree /\ resubs # <<>> /\ resubs[1].at = "waiting"
  /\ tracker' = [tracker EXCEPT !.mu = "resubscription"]
  /\ provider' = IF resubs[1].err
                 THEN [provider EXCEPT !.subs = @ - 1, !.subErr = "closed"]
                 ELSE provider
  /\ resubs' = [resubs EXCEPT ![1].at = "trying"]
  /\ UNCHANGED <<chain, mined, listener, out, handling, store, up, bounds>>

\* An attempt fails, and the mutex is kept for the time of the backoff.
AttemptFails ==
  /\ resubs # <<>> /\ resubs[1].at = "trying"
  /\ resubs[1].attempts + 1 < MaxAttempts
  /\ resubs' = [resubs EXCEPT ![1].attempts = @ + 1]
  /\ UNCHANGED <<chain, mined, provider, tracker, listener, out, handling, store, up, bounds>>

\* The last attempt fails: the error ends the process.
ResubscriptionFails ==
  /\ resubs # <<>> /\ resubs[1].at = "trying"
  /\ resubs[1].attempts + 1 >= MaxAttempts
  /\ Spend("failures")
  /\ End

Resubscribe ==
  /\ resubs # <<>> /\ resubs[1].at = "trying"
  /\ provider' = [provider EXCEPT !.subs = @ + 1, !.connected = TRUE]
  /\ resubs' = [resubs EXCEPT ![1].at = "fetching"]
  /\ UNCHANGED <<chain, mined, tracker, listener, out, handling, store, up, bounds>>

FinishResubscription ==
  /\ resubs # <<>> /\ resubs[1].at = "fetching"
  /\ tracker' = [tracker EXCEPT !.events = @ (+) SetToBag(MissedEvents(resubs[1].from)),
                                !.mu = "nobody"]
  /\ resubs' = Tail(resubs)
  /\ UNCHANGED <<chain, mined, provider, listener, out, handling, store, up, bounds>>
-----------------------------------------------------------------------------
(* The engine: handleChainEvent and the blockTicker of its run loop.       *)

TakeEvent ==
  /\ handling = <<>> /\ out # <<>>
  /\ handling' = <<Head(out)>>
  /\ out' = Tail(out)
  /\ store' = [store EXCEPT !.lastBlock = Head(out).blockNumber]
  /\ UNCHANGED <<chain, mined, provider, tracker, listener, resubs, up, bounds>>

ChangesHoldings(log) == log.topic \in {"Deposited", "AllocationUpdated"}

HandleChainEvent ==
  /\ handling # <<>>
  /\ handling' = <<>>
  /\ LET log == handling[1]
         recorded == [store EXCEPT !.handled = @ \cup {log}]
     IN  store' = IF ChangesHoldings(log)
                  THEN [recorded EXCEPT !.held[log.channel] = log.held]
                  ELSE recorded
  /\ UNCHANGED <<chain, mined, provider, tracker, listener, resubs, out, up, bounds>>

\* getLastConfirmedBlockNum needs the mutex.
LastConfirmedBlockNum == Later(tracker.latestBlockNum - REQUIRED_BLOCK_CONFIRMATIONS, 0)

BlockTicker ==
  /\ IsFree /\ handling = <<>>
  /\ store' = [store EXCEPT !.lastBlock = LastConfirmedBlockNum]
  /\ Spend("ticks")
  /\ UNCHANGED <<chain, mined, provider, tracker, listener, resubs, out, handling, up>>
-----------------------------------------------------------------------------
TrackEvents ==
  \/ ListenForEventLogs
  \/ ListenForNewBlocks
  \/ \E l \in Listeners : \/ \E log \in Ripe : Pop(l, log)
                          \/ Release(l)
                          \/ Dispatch(l)
                          \/ Dispatched(l)

RenewSubscription ==
  \/ ListenForSubscriptionError
  \/ BeginResubscription
  \/ Resubscribe
  \/ FinishResubscription

Serve == TrackEvents \/ RenewSubscription \/ TakeEvent \/ HandleChainEvent \/ Start \/ FinishStart

Next ==
  \/ Serve
  \/ \E tx \in Txs \cup {NoTx} : Mine(tx)
  \/ \E depth \in 1..REQUIRED_BLOCK_CONFIRMATIONS, keep \in 0..REQUIRED_BLOCK_CONFIRMATIONS :
       keep <= depth /\ Reorganise(depth, keep)
  \/ SubscriptionBreaks
  \/ AttemptFails
  \/ ResubscriptionFails
  \/ RequestFails
  \/ BlockTicker
  \/ Stop

Spec == Init /\ [][Next]_vars

\* The listeners and the engine are loops that take what is there; a chain
\* node need not mine.
Fairness == WF_vars(Serve)

FairSpec == Spec /\ Fairness
-----------------------------------------------------------------------------
(* What is checked.                                                        *)

Logs == [topic : {"Deposited", "Concluded", "AllocationUpdated", "ChallengeRegistered"},
         channel : Channels, blockNumber : 1..MaxBlock, blockHash : Nat, held : Nat]

Block == [hash : Nat, tx : Txs \cup {NoTx}]

Provider == [feed : Seq(Logs), heads : Seq(Nat), subs : Nat, connected : BOOLEAN,
             subErr : {"quiet", "error", "closed"}]

Listener == [at : {"idle", "popping", "dispatching"}, batch : Seq(Logs)]

Store == [lastBlock : Nat, held : [Channels -> Nat], handled : SUBSET Logs]

Resubscription == [at : {"waiting", "trying", "fetching"}, err : BOOLEAN,
                   attempts : Nat, from : Nat]

\* Queues hold logs and block numbers, the heap is a bag of logs, and a channel
\* holds no negative amount (eth-chainservice.ts, event-queue.ts).
TypeOK ==
  /\ chain \in Seq(Block) /\ Len(chain) <= MaxBlock /\ mined \in Nat
  /\ provider \in Provider
  /\ DOMAIN tracker = {"latestBlockNum", "events", "mu"}
  /\ tracker.latestBlockNum \in Nat
  /\ IsABag(tracker.events) /\ BagToSet(tracker.events) \subseteq Logs
  /\ tracker.mu \in Listeners \cup {"nobody", "start", "resubscription"}
  /\ listener \in [Listeners -> Listener]
  /\ resubs \in Seq(Resubscription)
  /\ out \in Seq(Logs) /\ handling \in Seq(Logs) /\ Len(handling) <= 1
  /\ store \in Store
  /\ up \in BOOLEAN /\ budget \in Budget /\ spent \in Budget

SeqSet(s) == {s[i] : i \in DOMAIN s}

Reached == SeqSet(out) \cup SeqSet(handling) \cup store.handled

\* Whatever reaches the engine is an event of a block that is still part of the
\* chain and has its confirmations (updateEventTracker: "Ensure event &
\* associated tx is still in the chain"), although the chain may be reorganised
\* between that check and the dispatch.
DispatchedIsConfirmed ==
  \A log \in Reached : log \in OnChain /\ Len(chain) - log.blockNumber >= 2

Held == SeqSet(provider.feed) \cup BagToSet(tracker.events)
          \cup UNION {SeqSet(listener[l].batch) : l \in Listeners}

\* A log that is nowhere in the node will still be asked for: by the start or
\* the resubscription under way, or by the one a broken subscription leads to,
\* or by the next start of a node that is down.
WillBeFetched(log) ==
  \/ ~up /\ log.blockNumber >= store.lastBlock
  \/ tracker.mu = "start" /\ log.blockNumber >= tracker.latestBlockNum
  \/ \E i \in DOMAIN resubs : log.blockNumber >= resubs[i].from
  \/ /\ up /\ (~provider.connected \/ provider.subErr = "error")
     /\ log.blockNumber >= LastConfirmedBlockNum

\* No event on the chain is ever lost between the chain and the engine
\* (checkForMissedEvents, updateEventTracker, initializeNode): not when a
\* block is reorganised, and not when a subscription breaks, or a request fails,
\* or the node stops.  (When a subscription broke, or the block ticker stored a
\* block, and then the node ends, it may: what the node stores as its last block
\* is not a promise, see LastBlockIsProcessed.)
MayForget ==
  spent.breaks + spent.ticks > 0 /\ spent.stops + spent.failures > 0

NothingIsLost ==
  ~ MayForget => \A log \in OnChain : log \in Reached \cup Held \/ WillBeFetched(log)

IsQuiet ==
  /\ up /\ tracker.mu = "nobody" /\ provider.connected /\ provider.subErr # "error"
  /\ provider.feed = <<>> /\ provider.heads = <<>> /\ resubs = <<>>
  /\ tracker.latestBlockNum = Len(chain) /\ Ripe = {}
  /\ \A l \in Listeners : listener[l] = Idle
  /\ out = <<>> /\ handling = <<>>

\* When all is handled, the node records what the contract holds for each
\* channel as of the last confirmed block: no older event was given to the
\* engine after a newer one (dispatchChainEvents, updateEventTracker).  The logs
\* fetched after a broken subscription may be older than those dispatched.
HoldingsAreRight ==
  IsQuiet /\ spent.breaks = 0 /\ ~ MayForget => \A c \in Channels : store.held[c] = HeldAfter(chain, LastConfirmedBlockNum, c)

\* The last block the node has stored is one it has processed
\* (durablestore.ts, setLastBlockNumSeen: "sets the last blockchain block
\* processed by this node"), so no event of an earlier block waits.
LastBlockIsProcessed ==
  \A log \in OnChain : log.blockNumber < store.lastBlock => log \in store.handled

\* Whoever takes the mutex gives it back, the resubscription with its backoff
\* included, unless the process ends.
TheMutexIsReleased ==
  \A l \in Listeners \cup {"start", "resubscription"} :
    (tracker.mu = l) ~> (tracker.mu # l)

(***************************************************************************)
(* The inductive invariant.  A log is genuine if its block had it, which   *)
(* the hash of a block that is still part of the chain tells.              *)
(***************************************************************************)
IsGenuine(log) ==
  /\ log.blockNumber \in DOMAIN chain /\ log.blockHash <= mined
  /\ IsStillOnChain(log) => log \in OnChain

IsSettled(log) == log \in OnChain /\ Len(chain) - log.blockNumber >= 2

Batches == UNION {SeqSet(listener[l].batch) : l \in Listeners}

EventsInv ==
  /\ \A b \in DOMAIN chain : chain[b].hash <= mined
  /\ \A log \in SeqSet(provider.feed) \cup BagToSet(tracker.events) : IsGenuine(log)
  /\ \A log \in Reached \cup Batches : IsSettled(log)

\* Nobody is ahead of the chain.
BlocksInv ==
  /\ \A number \in SeqSet(provider.heads) : number <= Len(chain)
  /\ tracker.latestBlockNum <= Len(chain)
  /\ store.lastBlock <= Len(chain)
  /\ \A i \in DOMAIN resubs : resubs[i].from <= LastConfirmedBlockNum

\* The mutex is held by whoever is at work on the tracker, alone.
MutexInv ==
  /\ \A l \in Listeners : (listener[l].at = "popping") = (tracker.mu = l)
  /\ (tracker.mu = "resubscription") = (resubs # <<>> /\ resubs[1].at # "waiting")
  /\ \A i \in DOMAIN resubs : i > 1 => resubs[i].at = "waiting"
  /\ tracker.mu = "start" => tracker.events = EmptyBag /\ resubs = <<>>
  /\ tracker.mu # "nobody" => up

\* An error of the subscriptions is taken up once; afterwards the channel of
\* errors is closed, and no resubscription gives a subscription up.
SubscriptionInv ==
  /\ provider.connected => provider.subs > 0
  /\ ~ up => provider = Unsubscribed /\ resubs = <<>>
  /\ up /\ provider.subErr = "quiet" =>
       \/ provider.connected /\ resubs = <<>> /\ provider.subs = 1
       \/ /\ ~ provider.connected /\ provider.subs = 1
          /\ Len(resubs) = 1 /\ resubs[1].err /\ resubs[1].at = "waiting"
  /\ provider.subErr = "error" =>
       ~ provider.connected /\ resubs = <<>> /\ provider.subs = 1
  /\ provider.subErr = "closed" =>
       \A i \in DOMAIN resubs : resubs[i].err => i = 1 /\ resubs[i].at # "waiting"

\* What is missed while no subscription delivers is not older than the block
\* the next resubscription will ask from.
IsYetToFetch(log) ==
  \/ \E i \in DOMAIN resubs : log.blockNumber >= resubs[i].from
  \/ /\ ~ provider.connected
     /\ log.blockNumber >= LastConfirmedBlockNum
     /\ \A number \in SeqSet(provider.heads) :
          log.blockNumber >= number - REQUIRED_BLOCK_CONFIRMATIONS

NeverEnded == spent.stops = 0 /\ spent.failures = 0

DeliveryInv ==
  NeverEnded =>
    /\ up /\ tracker.mu # "start"
    /\ \A log \in OnChain : log \in Reached \cup Held \/ IsYetToFetch(log)

InductiveInv ==
  TypeOK /\ EventsInv /\ BlocksInv /\ MutexInv /\ SubscriptionInv /\ DeliveryInv

(***************************************************************************)
(* The order of events, while the node runs and no subscription broke.     *)
(* Only logs that are still on the chain count: the others are dropped.    *)
(***************************************************************************)
InOrder(earlier, later) == \A x \in earlier, y \in later : x.blockNumber <= y.blockNumber

IsSorted(s) == \A i, j \in DOMAIN s : i < j => s[i].blockNumber <= s[j].blockNumber

Coming  == SeqSet(provider.feed) \cap OnChain
Waiting == BagToSet(tracker.events) \cap OnChain

SteadyInv == provider.subErr = "quiet" /\ provider.connected /\ resubs = <<>>

\* The latest block number rises by one at a time, up to the end of the chain.
HeadsInv ==
  /\ \A i \in DOMAIN provider.heads :
       \/ provider.heads[i] <= tracker.latestBlockNum + 1
       \/ \E j \in 1..(i - 1) : provider.heads[i] <= provider.heads[j] + 1
  /\ tracker.latestBlockNum = Len(chain) \/ Len(chain) \in SeqSet(provider.heads)

\* Along the way from the chain to the engine, older logs are ahead.
FeedInv ==
  /\ \A i, j \in DOMAIN provider.feed :
       i < j /\ {provider.feed[i], provider.feed[j]} \subseteq OnChain =>
         provider.feed[i].blockNumber <= provider.feed[j].blockNumber
  /\ InOrder(Waiting, Coming)

BatchesInv ==
  /\ \A l \in Listeners : IsSorted(listener[l].batch)
  /\ InOrder(Batches, Waiting \cup Coming)

EngineInv ==
  /\ IsSorted(out)
  /\ InOrder(SeqSet(handling), SeqSet(out))
  /\ InOrder(store.handled, SeqSet(handling) \cup SeqSet(out))
  /\ InOrder(Reached, Batches \cup Waiting \cup Coming)

\* What the heap holds while nobody is at work on it is not confirmed.
HeapInv ==
  /\ \A log \in Batches : IsConfirmed(log, tracker.latestBlockNum)
  /\ tracker.mu = "nobody" =>
       \A log \in BagToSet(tracker.events) : ~ IsConfirmed(log, tracker.latestBlockNum)
  /\ \A l \in Listeners : listener[l].at = "idle" => listener[l].batch = <<>>

\* A confirmed log that comes from the subscription is the last of the heap, so
\* the other listener has nothing to dispatch before it.
LogsInv ==
  LET mine == SeqSet(listener["logs"].batch)
  IN /\ listener["logs"].at = "popping" =>
          InOrder(Waiting, mine \cup {log \in Waiting : IsConfirmed(log, tracker.latestBlockNum)})
     /\ listener["logs"].at = "dispatching" /\ mine # {} => Waiting = {}

\* A new block confirms the logs of one block.
Confirmed(log) ==
  log.blockNumber + REQUIRED_BLOCK_CONFIRMATIONS = tracker.latestBlockNum

NewBlocksInv ==
  LET mine == SeqSet(listener["blocks"].batch)
  IN /\ \A log \in mine : Confirmed(log)
     /\ mine # {} => \A log \in SeqSet(listener["logs"].batch) : Confirmed(log)
     /\ listener["blocks"].at = "popping" =>
          \A log \in BagToSet(tracker.events) :
            log.blockNumber + REQUIRED_BLOCK_CONFIRMATIONS >= tracker.latestBlockNum

\* The holdings recorded are those of the newest event that was handled.
Recorded(c) == {log \in store.handled : ChangesHoldings(log) /\ log.channel = c}

HoldingsInv ==
  \A c \in Channels :
    \/ Recorded(c) = {} /\ store.held[c] = 0
    \/ \E log \in Recorded(c) : store.held[c] = log.held /\ InOrder(Recorded(c), {log})

PipelineInv ==
  /\ SteadyInv /\ HeadsInv /\ FeedInv /\ BatchesInv /\ EngineInv
  /\ HeapInv /\ LogsInv /\ NewBlocksInv /\ HoldingsInv

OrderInv == NeverEnded /\ spent.breaks = 0 => PipelineInv
=============================================================================
