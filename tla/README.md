# A TLA+ model of ts-nitro

`ts-nitro` is a node for state channels. Two nodes fund a *ledger channel* on a
chain, fund *virtual channels* out of ledger channels through intermediaries, pay
each other in a virtual channel with signed *vouchers*, and settle everything
back. This directory models the parts that decide whether money can be lost or
promised twice, what a node learns from the chain, and what it tells its clients;
it checks them with TLC on small instances, and proves the main results about
ledger channels, vouchers, direct funding and defunding, the chain service and
queries with TLAPS for every value of the constants.

Paths below are relative to `src/packages/nitro-node/src/` unless they say
otherwise.

## The system: inventory

| Component | State | Operations | Talks to | What makes it correct |
|---|---|---|---|---|
| **Consensus channel** `channel/consensus-channel/consensus-channel.ts` | `current` (Vars with both signatures), `_proposalQueue`, who is leader | `propose`, `receive` (leader / follower), `signNextProposal`, `isProposed…`, `hasRemovalBeenProposed…` | called by virtual fund, virtual defund and the engine | both copies stay one chain of states; nobody signs two states of one turn; balances and guarantees add up to the deposits |
| **Vouchers** `payments/` | a `VoucherInfo` per channel in the store: starting balance, largest voucher | `register`, `pay`, `receive`, `remove`, `paid`, `remaining` | engine (payment requests, payments in messages), Node API, virtual defund | the promised total grows by exactly what is paid, credits add up, nothing older replaces the largest |
| **Direct fund** `protocols/directfund/` | objective status, `transactionSubmitted`, the Channel's signatures and holdings | `newObjective`, `constructFromPayload`, `approve`, `reject`, `update`, `updateWithChainEvent`, `crank`, `createConsensusChannel` | engine, store, chain | no deposit before it can be paid back, none twice, no ledger before it is funded, the two nodes end alike |
| **Direct defund** `protocols/directdefund/` | status, `transactionSubmitted`, final state | the same set, and `withdrawAll` | engine, store, chain | only an idle ledger is closed; both get what the last consensus says |
| **Virtual fund** `protocols/virtualfund/` | status, role, up to two ledger connections, `a0`, `b0` of `v` | the same set, `proposeLedgerUpdate`, `acceptLedgerUpdate`, `receiveProposal` | ledger channels, vouchers (registration) | nobody signs the postfund state before both of its ledgers fund `v`; the order of guarantees protects intermediaries |
| **Virtual defund** `protocols/virtualdefund/` | status, final state signatures, `minimumPaymentAmount`, ledgers | the same set, ledger removals | ledger channels, vouchers | the final outcome covers the largest voucher; ledgers pay what the final outcome says |
| **Engine** `node/engine/engine.ts` | the run loop; everything else is in the store | `handleMessage`, `handleChainEvent`, `handleObjectiveRequest`, `handlePaymentRequest`, `handleProposal`, `attemptProgress`, `executeSideEffects`, `spawnConsensusChannel…`, `checkError` | all components | one handler at a time; what is stored, sent and submitted stays consistent; only fatal errors stop it |
| **Channel, state, outcome** `channel/` | signed states by turn, support, holdings, last chain update | `addSignedState`, `signAndAdd…`, `updateWithChainEvent`, exits and allocations | protocols | holdings follow the chain forward only; supported turn is the latest fully signed |
| **Stores** `node/engine/store/` | objectives, channels, consensus channels, channel ownership, voucher infos, last block seen | set, get, destroy, release ownership | engine, protocols, voucher manager | a channel has one owner and is never lost between two writes |
| **Chain service** `node/engine/chainservice/` | event heap, latest block, subscriptions | `sendTransaction`, `updateEventTracker`, `dispatchChainEvents`, `checkForMissedEvents`, resubscription | chain, engine | each confirmed event is dispatched once and in order |
| **Message service** `node/engine/messageservice/` | peers, streams | `send`, message handler, peer exchange | engine of the other nodes | messages arrive, or the sender gives up |
| **Node API** `node/node.ts`, `internal/node/node.ts` | notifiers | create and close channels, `pay`, `createVoucher`, `receiveVoucher`, restart | engine, voucher manager, store | a call means what its comment says |
| **Policy maker** | none | `shouldApprove` | engine | any choice is safe |
| **Queries** `node/query/query.ts` | none | `getPaymentChannelInfo`, `getLedgerChannelInfo`, `getAllLedgerChannels`, `getPaymentChannelsByLedger` | stores, voucher manager, beside the run loop | what is in the store all along is found; balances that add up; no answer is behind what the engine has told |
| **Notifier and listeners** `node/notifier/`, `internal/safesync/` | listeners under each key, the last info sent, a mutex per key | `notifyPaymentUpdated`, `notifyLedgerUpdated`, register, `close` | Node API (`handleEngineEvents`), clients | each listener hears every change once and in order |
| **Metrics, signers, utilities, server, web app** | counters, keys | — | — | listed in `PROJECT.json`, with the reason they are left out |

How they interact: the engine's run loop takes one thing at a time, a message, a
chain event, a request, a payment, a proposal to look at or a block tick. The
handler reads an objective with its channels from the store, updates and *cranks*
it, writes it back and then carries out its side effects: messages go out without
being waited for, transactions are waited for, proposals to look at come back to
the run loop. `Node.createVoucher` and `Node.receiveVoucher` call the voucher
manager beside the run loop.

What is hard in this code:

* messages are lost, repeated and reordered, and nothing acknowledges them;
* a handler writes to the store, the network and the chain one after the other,
  and a node may stop between any two of these;
* chain events are delivered again after a renewed subscription or a restart;
* asynchronous read-modify-write in the voucher manager, with two callers;
* errors are either survived or end the run loop, by a comparison in `checkError`;
* two nodes do the same thing at once;
* an objective of one channel waits for a ledger that another channel's objective
  is updating, at two or three nodes;
* blocks are reorganised while two listeners and a resubscription share one heap
  under a mutex that they release before they dispatch;
* queries read the store in several reads, between the writes of the engine;
* a slow client makes the notifier wait, with the mutex of its key.

`PROJECT.json` lists each hazard at its line, with the property that covers it or
the further instance (below) that shows what happens.

## Modules

| Module | What it is |
|---|---|
| `ConsensusChannel` | The data of a ledger channel and its pure operations: Vars, proposals, `CanAdd`/`AddGuarantee`, `CanRemove`/`RemoveGuarantee`, and the queue folded over Vars (`VarsAfter`). No variables. |
| `LedgerChannel` | One ledger channel as its leader, its follower and the network between them run it. |
| `LedgerPromise` | Abstract: one history of states that each party moves forward in. `LedgerChannel` implements it (`ImplementsPromise`). |
| `Vouchers` | Payer, payee, their stores, and vouchers in flight; a call is a read step and a write step. |
| `DirectFund` | Two nodes opening ledger channels: objective, engine, store and chain. |
| `FundingPromise` | Abstract: agree, pay in order, confirm, open. `DirectFund` implements it (`ImplementsPromise`). |
| `LedgerCopies` | A party's copy of a ledger as an operation on a record: `Proposed`, `LeaderReceived`, `FollowerReceived`, `SignedNext`. No variables; `VirtualFund` works on such copies in memory, as objectives do. |
| `VirtualFund` | What a virtual-fund objective computes: expected guarantees, `updateLedgerWithGuarantee`, `update`, `crank`. No variables. |
| `VirtualDefund` | The same for a virtual-defund objective: final state, minimum payment, removals. Extends `VirtualFund`. |
| `PaymentChannels` | The engines of several nodes, their stores and the network, running those objectives on shared ledgers. Composes all of the above; each ledger implements `LedgerPromise` (`LedgersKeepPromise`). |
| `DirectDefund` | Closing a ledger that may be in use: objective, engine, store and chain. |
| `ChainService` | Events of the contract on their way from the chain to the engine of one node. |
| `Queries` | What a node answers, read by read, while its engine works, write by write. |
| `Notifications` | From the engine's events to the clients that listen. |
| `MC…` | Instances for TLC: model values, balances, symmetry. |
| `LedgerChannelProofs`, `VouchersProofs`, `DirectFundProofs`, `DirectDefundProofs`, `ChainServiceProofs`, `QueriesProofs`, `PaymentChannelsProofs` | Theorems about the module of that name, with their proofs. The inductive invariants stand at the end of the modules they are about. |
| `ConsensusChannelProofs` | Lemmas about the operators of `ConsensusChannel` and `LedgerCopies`: types, the queue folded over Vars and the chain of states it makes, sums over finite functions, and what an operation on a copy makes of it. |

Definitions marked `\* mutant` are plausible wrong versions of the definition
that follows them. No specification uses them; each shows that a property would
notice that bug.

### LedgerChannel

`current[p]` and `queue[p]` are `ConsensusChannel.current` and `_proposalQueue` of
each party, `inbox[p]` the entries of `message.ledgerProposals` still to be handled,
`network` the messages in flight. `signed[p]` is a history variable: all states
party `p` ever signed.

| Action | Code |
|---|---|
| `Propose` | `propose`, `appendToProposalQueue`, and the message with the whole queue (`proposeLedgerUpdate`) |
| `Deliver`, `Lose` | the message service; the run loop takes a message |
| `Abandon` | an entry fails and `handleMessage` returns, or the node stops: the other entries are dropped |
| `LeaderReceive` | `leaderReceive`: search the queue for the countersigned turn, store it with both signatures, trim |
| `FollowerReceive` | `followerReceive`: next turn, lawful and signed by the leader, or ignored |
| `SignNextProposal` | `signNextProposal` and the countersigned proposal sent back |

A signature is the pair of its signer and what was signed, so a signature checked
against other Vars fails. The leader and follower copies are written to the store
with the objective after each handler. What a follower countersigns is what one of
its objectives expects; the model lets any objective do so at any time, so what
holds here does not depend on the virtual protocols.

A restart keeps `current` and `queue`, which are durable, and loses `inbox`; that is `Abandon`.

### Vouchers

`info[p]` is the stored `VoucherInfo` of each party (its `largestVoucher.amount`),
`call[p][c]` what a caller holds between the read and the write of `pay` or
`receive`. `Callers` is `{engine}` for the run loop alone, `{engine, api}` with the
two methods of `Node`. `paid` and `credited` are history variables. A voucher
names a total; its signature and channel are not modelled, so the two checks for
them (a wrong signer, another channel) do not occur. With both callers, credits no
longer add up and a stored voucher may shrink, as `VouchersCreateVoucher` shows of
promises; the properties of `VouchersEngine` are about one caller.

### DirectFund

One instance holds two nodes and a set of channels that `Initiator` asks for.
`objectives`, `channels`, `owned` and `ledgers` are what the store holds,
`deposited` and `log` the chain, `seen` how far a node's engine has got in the
events. `doing[n]` is the handler node `n` is in: first an objective to crank, then
the steps that `attemptProgress` takes one after the other.

| Action | Code |
|---|---|
| `Request` | `handleObjectiveRequest` for direct fund, `newObjective` |
| `ReceiveNew`, `Receive`, `ReceiveForMissingChannel` | `handleMessage` for payloads: `getOrCreateObjective`, the policy, `update`; objectives that are over; a Channel the store no longer has |
| `ReceiveRejection` | `handleMessage` for rejection notices |
| `HandleChainEvent` | `handleChainEvent`, `updateWithChainEvent`, with the assertion that an objective owns the channel |
| `Crank`, `CrankUnapproved` | `Objective.crank` and `attemptProgress` up to `setObjective` |
| `Release`, `Spawn`, `Destroy` | a completed objective releases its channel, stores the ledger, destroys the Channel |
| `Send`, `Submit` | `executeSideEffects`: messages, then transactions |
| `Replay`, `Restart`, `Lose` | renewed subscription, `initializeNode`, the message service |

An error that `checkError` rethrows is a value of `engine[n]`; the node then does
nothing until it restarts.

### LedgerCopies, VirtualFund, VirtualDefund, PaymentChannels

Nodes share ledgers (`Ends` says who leads and who follows each) and open virtual
channels along a `Path`. `objective`, `channel`, `ledger`, `owner` and
`vouchers` are what the stores hold; `inbox` the proposals of the message an engine
is handling, `toProcess` the channel `fromLedger`, `network` the messages in
flight. `signed` and `asked` are history variables.

An objective's operations are functions of what it holds in memory, its virtual
channel and its copies of the ledgers, and give what it holds then, what to send
and to process, and the error it throws, if any. `AttemptProgress` is the one place
where an engine cranks, stores, takes or releases the channel, and sends, or stops.

| Definition | Code |
|---|---|
| `Proposed`, `LeaderReceived`, `FollowerReceived`, `SignedNext` | `ConsensusChannel.propose`, `leaderReceive`, `followerReceive`, `signNextProposal` |
| `ExpectedGuarantee`, `IsFunding`, `UpdateLedgerWithGuarantee` | `Connection`, `updateLedgerWithGuarantee`, `proposeLedgerUpdate`, `acceptLedgerUpdate` of virtual fund |
| `FundCrank`, `FundUpdate` | `crank` and `update` of virtual fund |
| `DefundCrank`, `DefundUpdate`, `UpdateLedgerToRemoveGuarantee` | `crank`, `update`, `updateLedgerToRemoveGuarantee`, `ledgerProposal` of virtual defund |
| `RequestFund`, `RequestDefund`, `Pay` | `handleObjectiveRequest`, `handlePaymentRequest` |
| `ReceiveObjectivePayload` and its parts | `handleMessage` for payloads: `getOrCreateObjective`, `constructObjectiveFromMessage`, `registerPaymentChannel`, the policy, `update` |
| `ReceiveProposals`, `ReceiveProposal` | `handleMessage` for proposals, one entry after the other, `receiveProposal` |
| `ProcessHead` | `handleProposal` |
| `ReceiveRejection`, `ReceiveVoucher` | `handleMessage` for rejection notices and payments |
| `Lose`, `Restart` | the message service, `initializeNode` |

A turn of the run loop is one action, except between the proposals of one message,
and `StopConstructing` and an ownership conflict, which end a handler between two
writes. An error stops the engine with the name of the error as the value of
`engine[n]`, so `StopsAreExplained` can say why engines stop when the clients wait. A client is *hasty*
(calls the API at any time), *patient* (waits for its own objective) or *careful*
(waits for those of all participants).

### DirectDefund

The ledger of two nodes, with a guarantee of one virtual channel added and removed
by updates of one turn each, beside the objective that closes it. `doing[n]` is
the handler a node is in, as in `DirectFund`.

| Action | Code |
|---|---|
| `Request` | `handleObjectiveRequest`, `newObjective`, `createChannelFromConsensusChannel` |
| `ReceiveFinal`, `ReceiveRejection` | `handleMessage`: `constructObjectiveFromMessage`, the policy, rejection notices |
| `DestroyConsensusChannel` | what the engine does before `attemptProgress` of a direct-defund objective |
| `Update`, `Crank`, `CrankUnapproved` | `update`, `crank`, `attemptProgress` up to `setObjective` |
| `Release`, `Send`, `WithdrawAll` | `executeSideEffects`, `concludeAndTransferAllAssets` |
| `HandleChainEvent` | `handleChainEvent`, `updateWithChainEvent` |
| `Propose`, `ReceiveUpdate` | the ledger in use (in full in `LedgerChannel`) |
| `Lose`, `Restart` | the message service, `initializeNode` |

### ChainService

`chain` is a sequence of blocks with at most one transaction each, `provider` the
subscriptions and what they delivered, `tracker` the `EventTracker` (latest block,
heap, mutex), `listener` and `resubs` the asynchronous functions in progress, `out`
the channel to the engine, `store` what the engine made of the events. Every
`await` is the end of a step.

| Action | Code |
|---|---|
| `Mine`, `Reorganise`, `SubscriptionBreaks` | external: the chain and its provider |
| `Start`, `FinishStart` | `_newEthChainService`: `subscribeForLogs`, `checkForMissedEvents` |
| `ListenForEventLogs`, `ListenForNewBlocks` | the listeners of that name, up to the mutex |
| `TrackEvents` (`Pop`, `Release`, `Dispatch`) | `updateEventTracker` and `dispatchChainEvents` |
| `RequestFails`, `End` | an error that `listenForErrors` throws: the process ends |
| `ListenForSubscriptionError`, `BeginResubscription`, `AttemptFails`, `Resubscribe`, `FinishResubscription`, `ResubscriptionFails` | `listenForSubscriptionError` with its backoff |
| `TakeEvent`, `HandleChainEvent`, `BlockTicker` | the engine's side: `handleChainEvent` and the `blockTicker` of `run` |
| `Stop` | `close`, or the process is stopped |

### Queries

`store` is the tables of a node's store, `todo` the writes the handler in progress has
left, `query` the query a client waits for. A handler's writes are computed when
it begins, which is sound because the engine is the only one here that writes; the voucher that
`createVoucher` writes beside the run loop is in `Vouchers`. What
counterparties do is left open; the module has every way in which an objective of
each kind can be created, go on and end.

Handlers also make updates of channels for the clients, and `notices`, one more table, holds
the latest update of each. `witness.heard` is what it held when the query began. The other source of
updates is `createVoucher`, which reads the payment channel like a query and notifies the answer
(`node.ts:280`): the query `payment` stands for it. While it waits for its reads, the engine may have told
of a closing, so its `Open` can be heard after that. What is true, and checked, is that an
answer is never behind what the engine had told when the reading began (`AnswersFollowEvents`), and that the
engine's own updates never go back (`EventsAdvance`).

| Action | Code |
|---|---|
| `RequestLedger`, `JoinLedger`, `LedgerFunded` | direct fund: the order of `setObjective` and of `spawnConsensusChannelIfDirectFundObjective` |
| `RequestClosing`, `AnswerClosing`, `LedgerFinalized`, `LedgerWithdrawn` | direct defund: `destroyConsensusChannel` before the Channel is stored |
| `StartPayment`, `PaymentGuaranteed`, `PaymentFunded`, `Pay`, `ClosePayment`, `PaymentFinalized`, `PaymentSettled` | virtual fund, vouchers, virtual defund |
| `Notices` in `Attempt`, and `Pay` | `generateNotifications` with the ledgers an objective uses, `handlePaymentRequest`, the vouchers of `handleMessage` |
| `Write`, `Crash` | one `put` or `del`; the process stops |
| `Ask`, `GetChannelById`, `GetConsensusChannelById`, `GetAllConsensusChannels`, `GetChannels`, `ChannelRegistered`, `ReadPaid`, `ReadRemaining`, `Return` | the reads of `query.ts`, in their order |

Kept as the code has it: `getPaidAndRemaining` returns `[remaining, paid]`, so the
notification of a closed payment channel has the two exchanged (`engine.ts:1117`);
an intermediary's info says `Open` even when the channel is complete; the Channel
that a node makes of a ledger it is asked to close has an unsigned postfund state,
so a query may answer `Proposed` for it; `getAllLedgerChannels` may list a ledger
twice, or not at all, while it changes form, and `getLedgerChannelInfo` may miss one
that is being closed.

### Notifications

`queue[k]` is who holds and who waits for the mutex of key `k`, `listeners[k]` the
bounded channels under it, `prev[k]` the last info sent, `blocked` the calls of
`handleEngineEvents` that wait to push a voucher. A promise runs on until a push finds
a buffer full, so calls overtake each other only there: an update that brings no
voucher overtakes one that waits for a place among the vouchers, and is notified first. Listeners then hear
the older update last. What is checked is the order in which the calls come to `notify`.

| Action | Code |
|---|---|
| `HandleEngineEvents`, `ReadVoucher` | `Node.handleEngineEvents`, `receivedVouchers` |
| `Register` | `paymentUpdates`, `registerFor…Updates` |
| `PushInfo`, `SkipInfo`, `PushFails`, `FinishNotify` | `PaymentChannelListeners.notify` |
| `CreateNewListener`, `GetOrCreateListener` | the listeners' functions of that name |
| `Close`, `CloseNext`, `CloseListeners` | `Node.close`, `ChannelNotifier.close`, `close` |
| `Read` | external: a client |

A push into a closed channel throws out of a promise nobody waits for (`PushFails`).

## Runs

Ten runs pass.

| Run | Shows |
|---|---|
| `LedgerChannelUnreliable` | with messages lost, repeated, overtaken and abandoned half-way: no equivocation, the copies agree, every proposal is usable, money is conserved, `LedgerPromise` is implemented |
| `VouchersEngine` | payments and credits add up, the payee is never ahead, the largest voucher only grows, with one caller per node |
| `DirectFundUnreliable` | deposits are safe and never repeated, completion is mutual, no channel is lost in a crash, `FundingPromise` is implemented |
| `DirectFundReliable` | every request ends as two ledgers or two rejections; one initiator never gets a second ledger |
| `PaymentsUnreliable` | messages lost and repeated, a refusal, a node that stops, a channel that asks for more than its ledger has: every stop of an engine has one of the listed causes, each ledger implements `LedgerPromise` |
| `PaymentsIntermediary` | three nodes, from the request to the end of the closing, with one channel through the intermediary, or two channels in opposite directions on one ledger: no money is locked before all participants agreed, a channel is funded in its ledgers as long as it is enforceable, Bob is paid, the intermediary's books balance, each request and closing ends unless an engine stops |
| `DirectDefundUnreliable` | either node closes a ledger, in use or not, with faults: what is withdrawn is what both agreed on, once |
| `ChainOneFault` | one fault per behaviour, of a reorganisation, a block tick, a broken and renewed subscription, or a failed request with a restart: each confirmed event is handled, no other is, and holdings are right |
| `Queries` | a query between any two writes of a life with stops: balances add up, an open ledger is found, nothing in the store refers to what is not there, the engine's updates take back neither status nor payment, no answer is behind what the engine had told |
| `Notifications` | a listener to one channel and one to all hear all changes in the order of notification, each once; updates are heard and closing ends while clients read |

Two runs check what a comment of the repository says and find it violated:

| Run | The comment | What happens |
|---|---|---|
| `VouchersCreateVoucher` | `node/node.ts:272`, `createVoucher` "increments the redeemable balance by amount" | two calls read the same largest voucher; together they raise it by one amount |
| `PaymentsBobAsks` | `virtualdefund.ts:738`, "Since the objective is already created we don't need to do anything else with the payload" | `update` returns an empty objective; Alice's engine cranks it and stops |

### Further instances

Configurations kept beside the runs, to be run by hand with
`tlc -config <name>.cfg <module>`. These pass:

| Configuration | Module | Properties |
|---|---|---|
| `LedgerChannelReliable` | `MCLedgerChannel` | when messages arrive every proposal becomes consensus of both; four turns |
| `VouchersDelivered` | `MCVouchers` | every voucher that arrives is counted; types |
| `PaymentsCrossing` | `MCPaymentChannels` | two channels that cross on a ledger: nobody stops, all are funded when quiet |
| `PaymentsClose` | `MCPaymentChannels` | two careful nodes: nobody stops, every closing is settled |
| `DirectDefundReliable` | `MCDirectDefund` | nobody stops, every closing is settled; types |
| `ChainBackoff` | `MCChainService` | the mutex is always released, with a resubscription that backs off; types |
| `QueriesListed` | `MCQueries` | an intermediary with two channels: what a ledger funds is listed once; types |

These find what a comment says violated, or a hazard that no property of a run covers:

| Configuration | The comment | What happens |
|---|---|---|
| `DirectFundLateMessage` | `engine.ts:155`, "errors for which the engine should not panic" | `checkError` compares with an empty `ErrGetObjective`, which a real one never equals; a payload repeated after completion ends the run loop |
| `DirectFundOldEvent` | `channel/channel.ts:142`, an event is new if its block or transaction index is greater than the last | the last one is not serialised and not cloned; after a restart, an older event lowers the recorded holdings |
| `DirectFundBothAsk` | `directfund.ts:35`, "ledger channel already exists" | only the asking side looks; two nodes that ask at once get two ledgers |
| `PaymentsOvertaken` | `channel/state/signedstate.ts:85`, "Returned signatures are expected either to be valid or zero-valued" | an intermediary's final state overtakes Alice's: looking for her signature throws |
| `PaymentsLateVoucher` | `virtualdefund.ts:120`, "equal to or larger than the payment we already have" | `minimumPaymentAmount` is what Bob held when his objective was created: a voucher that arrives later does not count when he signs |
| `DirectDefundInProgress` | `directdefund.ts:152`, "We choose to disallow creating an objective if the channel has an in-progress update" | nothing looks at the proposal queue; the two nodes sign final states of different turns |
| `DirectDefundCrash` | `engine.ts:869`, "a Channel will now take over governance" | a stop between destroying the ledger and storing the Channel leaves neither |
| `ChainTicker` | `durablestore.ts:220`, the last block "processed by this node" | the block ticker stores the last confirmed block while its events wait |
| `NotificationsTwoListeners` | `listeners.ts:62`, `getOrCreateListener` "returns the first listener, creating one if none exist" | the lock is released between looking and creating: two callers get two listeners to all channels |

### Bounds

* **LedgerChannel.** Balances 2 and 1, amounts 0 and 1: deposits that equal a
  balance, exceed one, and fit alone but not together all occur. `MaxTurnNum` 3
  (two proposals beyond the initial turn 1; 4 in the reliable instance) lets a queue
  hold two entries while countersignatures of the first are late or repeated,
  which is the shortest history in which a trimmed queue is proposed on. Two
  targets are symmetric. The theorems remove these bounds. Deadlock is not checked
  because the leader stops at `MaxTurnNum`.
* **Vouchers.** A balance of 4 and three payments of 0 to 5: totals overtake
  each other in the network and some payments exceed what is left.
* **DirectFund.** One channel for the safety of a channel: channels of one pair of
  nodes meet only in `ChannelsExistWithCounterparty`, and the runs about that have
  two. Shares of 1 and 2, so the amounts of the two nodes are told apart.
  `MaxReplays` bounds renewed subscriptions (1 with faults, 2 without); `Restart`
  may put the event cursor anywhere. Deadlock is not checked where messages are
  reliable and both nodes may be done; in the unreliable run a restart is always
  possible.
* **PaymentChannels.** The unreliable run has two nodes, one ledger and one
  channel, because loss and repetition
  of every message multiply the states: in some behaviours one of a coin, which is what the
  leader has, in others one of two, which the ledger cannot fund; the run with an intermediary has two
  ledgers and messages that overtake but are not lost, and in some of its
  behaviours (`Together`) two channels whose proposals wait for each other in one queue.
  `PaymentsCrossing` has two channels that share one of two ledgers. Each message is one of a set, so that there are no
  bounds on repetition. Deadlock is not checked: when all is settled, nothing is left to do.
* **DirectDefund.** Updates of the ledger come one at a time, up to `MaxTurn` 2: one
  adds a guarantee, so copies of different turns, with and without a guarantee, meet
  a closing at either node. Deadlock is not checked: a ledger that is closed rests.
* **ChainService.** Each behaviour has one kind of fault (`Budgets`), for otherwise
  there are too many states; `BackingOff` combines them with one transaction. Four
  blocks, two transactions (one with broken subscriptions), at most one in a block:
  events of different blocks are confirmed one after the other while the other listener has the mutex.
  Reorganisations reach as deep as `REQUIRED_BLOCK_CONFIRMATIONS`, the depth the code
  is made for. `BufferSize` 1 (10 in the code), `MaxAttempts` 2 (9) and `MAX_EPOCHS` 1 make full channels,
  exhausted attempts and requests of several chunks occur. Deadlock is not checked: `MaxBlock` ends the chain.
* **Queries.** One ledger, one payment channel (two in `QueriesListed`), an amount of
  1: what is paid and what remains differ, and an answer that exchanges them is behind what
  the engine told of the payment. A query may begin before or after any update, and run beside any number of handlers.
* **Notifications.** Buffers of 1 (1000 in the code) fill; three events, so that one
  waits with a voucher and the next overtakes it; two values, so that an
  update may say the same as the one before. Deadlock is not checked: events end.

Amounts are `Nat`: the code uses `bigint`. Turn numbers are `bigint` too.

### Fairness

Each `FairSpec` says only that a run loop takes up what has arrived and finishes
the handler it is in (`run`, `engine.ts:276`, loops until it is closed), that
awaited calls return, and in `Notifications` that clients who are said to read go on
reading. Nothing makes a leader propose, a user ask, a block be mined, or a lost message
come again. Liveness is claimed only where messages are not lost and
transactions do not fail, because the code has no resend: the message service gives up after its last
attempt, and `transactionSubmitted` is stored before the transaction is sent.

In `PaymentChannels` fairness is weak fairness of a turn of any run loop, written with
`HasWork` in the place of `ENABLED`, which is the same set of states and
cheaper for TLC. Weak fairness of all loops together is enough where messages are finite.
Requests and closings are never withdrawn, so "each is settled in the end" is stated
as one formula, `[]<>` (all of them are settled).
An engine that has stopped takes no more turns, so its liveness properties have
`SomeEngineStopped` as a way out; `StopsAreExplained` says when that can happen, and
`PaymentsClose` shows that it does not happen to two careful nodes.

## Theorems

The proofs assume only what the modules say of their constants (`…Assumption`), and
what is said below. Each module of proofs has the same form. Its `InductiveInv`, at
the end of the module it is about, was checked by TLC on the instances of the runs before it was proved; a
lemma per action says that the action preserves it, `InitInv` and `NextInv` collect
them, and `Invariance` is `Spec => []InductiveInv`. The safety properties, and what action properties
and refinements need of a state, follow from it.

**LedgerChannel** (any set of targets, any balances and bounds, reliable or not).
The safety properties are not inductive: that a late countersignature finds the
right entry depends on which messages can be in flight. `InductiveInv` says
everything relative to the leader's copy, which knows every proposal that is
not settled:

1. `LeaderQueueInv`: the queue is a chain of lawful, signed states from the consensus state;
2. `FollowerInv`: the follower's state is the leader's entry number `Accepted`, its queue the entries after it;
3. `SignedInv`, `SignaturesInv`: every state anyone signed is on that chain, and the follower signs only what the leader signed;
4. `MessagesInv`: each message to the leader is over a state the follower signed; each to the follower is a run without gaps of entries of the queue, or settled turns.

It rests on lemmas about the operators (`HandleProposalType`, `ChainStates`, `ChainAppend`,
`ChainDrop`, `CopiesAreChains`) and gives `TypeCorrectness`,
`NoEquivocationHolds`, `CurrentIsDoublySignedHolds`, `FollowerHoldsLatestHolds`,
`CopiesAgreeHolds`, `EveryProposalIsUsableHolds` and the action property
`ConsensusOnlyAdvancesHolds`. Two results need more:

* `Refinement`: the history of `LedgerPromise` is the states the leader signed, in the
  order of their turns. `NoEquivocation` makes it a function (`HistoryOf`);
  only `Propose` extends it (`HistoryGrows`), and a copy only moves to a later place in it.
* `FundsConservedHolds`: `TotalFunds` is a fold over a set of guarantees. `SumExists`
  and `SumIs` show, by induction on the size of the set, that such a fold has the sum as its value
  (`ConsensusChannelProofs`); then a guarantee added or removed changes the sum by its amount (`AddConserves`,
  `RemoveConserves`), and every state signed has all of the deposits (`FundsInv`).

`SetInduction` replaces the library's induction
theorem, whose operator parameter the provers cannot instantiate.

**Vouchers.** The theorems assume `Serialized`: a node's calls come from one caller.
That is the assumption the violated run lacks. `InductiveInv` adds that a
call in progress holds what the store still holds (`CallsAreFresh`) and that every
voucher in flight was promised (`VouchersArePromised`).

**DirectFund** (any set of channels and shares, messages lost and repeated,
nodes stopped in the middle of a handler, chain events replayed). What a node stores, has in
memory or has sent rests on a signature somebody made or a deposit the chain
has: `ChannelInv` and `NetworkInv` for signatures, `WasHeld` and `LogInv` for amounts, which are
always one of the three the order of payments allows. `StoreInv` says that whoever
paid has `submitted` on record, so no crank pays again; `LoadedInv` that the
objective in a handler's memory is the one in the store, or a new one, so a crank decides on
what is true; `HasRejected` that a rejection comes from a node that never signed.
From it follow `NobodyPaysTwiceHolds`, `DepositsAreSafeHolds`, `CompletionIsMutualHolds`,
`EveryChannelIsKeptHolds`, `LedgersAreFundedHolds` and `RejectedIsUnfundedHolds`.

`Refinement` maps `Crank` to `Agree` or `Confirm` of `FundingPromise`, `Submit` to `Pay`, `Spawn` to
`Open`, and the rest to stuttering. A crank that signs both states in one turn would be no
step of it; `CrankSigns` shows that by then the prefund state was signed before.

`OneLedgerHolds` assumes `OneNodeAsks`: of the two nodes only one ever asks for a
ledger. The assumption is needed, because only the asking side looks whether there is one
(`DirectFundBothAsk` above). `RequestsInv` carries it: the asking node knows at most one
channel, and is the first to know of it.

**DirectDefund** (any number of updates of the ledger, any closers, refusals and
faults). Whoever has signed a final state has given up the ledger for good (`NodeInv`);
whatever a node has stored, loaded or sent of a closing rests
on a final state of that turn which its sender signed (`ChannelInv`, `WorkInv`, `NetworkInv`).
So what the leader sends to the chain has both signatures and funds no virtual channel, and
neither node uses the ledger any more: `WithdrawnIsAgreedHolds`. `SubmittedInv` follows
`withdrawTransactionSubmitted` from the leader's memory to its store, where the next crank reads
it before anything can be sent again: `WithdrawnOnceHolds`. `LogInv` gives `CompletedIsWithdrawnHolds`.

**ChainService** (any set of channels and budgets of faults, any `MaxBlock`,
`MaxAttempts`, `MAX_EPOCHS`, and any chain that is not reorganised deeper than
`REQUIRED_BLOCK_CONFIRMATIONS`). `EventsInv`: what waits is genuine
(its block had it, if the block is still there), and what is popped is settled (on the chain, with confirmations),
which reorganisations then cannot undo; that is `DispatchedIsConfirmedHolds`. `MutexInv` says who holds the mutex of the event tracker, `SubscriptionInv` that an
error is taken up once and by one resubscription, `BlocksInv` that no recorded block number is ahead of
the chain. With those, `DeliveryInv` says that an event which is neither handled nor held is one that
the resubscription under way, or the one to come, asks for (`NoGap`).

`NothingIsLostHolds` is `Spec => [](NeverEnded => NothingIsLost)`: the node may meet
reorganisations, broken subscriptions and attempts that fail, but does not
end. With an end the last stored block comes in, which is no promise
(`LastBlockIsProcessed`, refuted by `ChainTicker`): what a restart misses depends on which events were in the heap when the
ticker stored a block. Restarts stay with TLC (`ChainOneFault`).

`HoldingsAreRightHolds` is `Spec => [](NeverEnded => HoldingsAreRight)`: once all is handled, what the node
recorded of each channel is what the contract holds as of the last confirmed block. `OrderInv` follows
the order of the blocks through every place an event can be in: subscription, heap, batches, `out`, engine;
no event is behind a later one. Two listeners dispatch after they released the mutex, but do not overtake
each other in a way that matters: a new block confirms the events of one block only, and an event that is already
confirmed when its subscription delivers it comes after all those in the heap (`LogsInv`, `NewBlocksInv`).
`QuietHoldings` then shows that what the engine recorded last of a channel is of its last confirmed event. That a subscription
delivers the events of a reorganised chain in the order of the blocks is assumed of the provider
(`LogsAsSeq`). After a subscription broke the order is not kept, and
the property does not claim it.

**Queries** (any set of payment channels, any amount, closings of each kind, stops, and as an
intermediary or not). `Level` orders what a table may say of a key, and `Needs` says what other
keys must have reached before. The writes of a handler are in an order in which each finds its needs in
the store or among the writes before it, and none falls
(`OrderInv`); so wherever they are cut short, everything in the store has what it needs
(`StoreInv`), which gives `NothingDanglesHolds`. `FitsConcat` and its kin build the order of each
handler from the order of its parts, as the code does. `FormInv` and `KnownInv` follow the forms of the
ledger beside a query between its two reads (`OpenLedgerIsFoundHolds`), `VoucherInv` a
balance between its two reads (`BalancesAddUpHolds`). An update waits, like a table, for what it
tells of (`Needs`). `ClosedInv` says that a ledger whose closing is approved is
no ConsensusChannel any more, so it is not told of as open; `PaidInv` that an update still to be written says
no less than the vouchers do: `EventsAdvanceHolds`. `HeardInv` compares what was told when the query
began with the store, with the Channel the query has read, and with what it has read of the vouchers:
`AnswersFollowEventsHolds`.

**PaymentChannels**, with `VirtualFund`, `VirtualDefund`, `LedgerCopies` and
`ConsensusChannel` under it (any nodes, paths and ledgers that fit together as `EndsAssumption`
and `PathAssumption` say, any deposits, patience and refusals; messages lost, repeated and overtaken, engines that
stop and nodes that are started again). No node reads another's store, so what a
property says of several nodes has to follow from what they signed and sent.
There are four invariants; each rests on those before it.

1. `FundingInv`: whatever is stored, queued or under way is true of the store of whoever made
   it. A signature on a prefund, postfund or final state says that its signer approved the channel,
   funds it in each of its own ledgers (`IsKept`), or has that final state
   (`SignaturesInv`, `MessagesInv`); a proposal says that all have signed the prefund state,
   and for a removal the final one (`IsLawful`, in `CopiesInv` and `InboxInv`). It is inductive because stores only
   gain signatures (`Keeps`), and because an objective in a handler's memory knows no more than
   its node was told (`Ready`). One lemma per handler says that both hold. From it:
   `TypeCorrectness`, `GuaranteesAreAgreedHolds`, `EnforceableIsFundedHolds`.
2. `PaidInv`: every final state that is stored or under way pays what Alice paid last. Its theorems assume
   `ClientsWait`: a client pays and closes once the channel is funded, and leaves closing to Alice. Without it
   `BobIsPaid` is false of the code (`PaymentsLateVoucher`).
3. `PromiseInv`: both copies of a ledger are pieces of one history of signed
   states (`HistoryInv`), and whatever a message or an inbox has of a ledger
   was signed by its sender (`VouchedInv`). `LedgersKeepPromiseHolds` is the refinement. A turn of the run
   loop takes in a proposal and then cranks an objective on two ledgers, so it has to be shown that it makes
   at most one move on each. When the proposal is the follower's countersignature, the state it settles has
   what the objective waits for (`IsSettled`), so the crank proposes nothing more there. `LeaderMoveIs` and
   `FollowerMoveIs` say what the moves are, `HistoryOfMore` what they do to the history.
4. `BooksInv`: the money of a node over all its ledgers. It assumes `ClientsWait`, and that channels and ledgers
   are finitely many, so that there are sums. `PostfundInv` says that once Alice has asked to
   close a channel, everyone has signed its postfund state. `LedgerBooks` looks at the states of a ledger from
   the leader's consensus on: a guarantee lasts in them until Alice asks (`IsLasting`), and after that
   it is not added again (`IsFinished`); every state that the follower has accepted too gives each party its
   first balance plus what each channel has made of it (`IsBalanced`). The states after those need not
   balance: Bob, when he leads the ledger, may still propose a guarantee that nobody will accept. An
   intermediary pays in one of its two ledgers what it receives in the other, at another time, so
   `BooksBalance` compares only when neither has a guarantee (`NetOfPath`). `SumsSwap` adds the
   same amounts up by ledger and by channel, `BooksAddUp` puts it together for `BooksBalanceHolds`.

Only model-checked, and why:

* liveness, with fairness and `ENABLED`: `EveryRequestIsSettled`, `EveryUpdateIsHeard`, `CloseEnds`,
  the progress properties of `PaymentChannels` and those of the further instances. The provers do not handle it;
* `NothingIsLost` and `HoldingsAreRight` when the node ends and starts again: a restart fetches events that the engine
  may already have, and the order of `OrderInv` has no place for events that come twice;
* `StopsAreExplained` of `PaymentChannels`: it needs to know which messages can be
  in flight together, so as to exclude every error but those it lists;
* `ListenersHearChanges` of `Notifications`, which sorts the changes of a channel by a recursive operator of the
  community modules, and `FundedIsListed` of `Queries`;
* what the clients of two callers see in `Vouchers`: it is false (`VouchersCreateVoucher`).

## Not modelled, and the plan

What the models leave out, within what they model:

* **PaymentChannels**: writes of one turn are atomic but for `StopConstructing` and the
  ownership conflict; what stops between them may leave is in `Queries`
  (`NothingDangles`), and for the ledger protocols in `DirectFund` and `DirectDefund`. One asset.
* **ChainService**: after a broken subscription the logs fetched again may be older
  than those dispatched, so `HoldingsAreRight` is stated without it; a subscription that breaks before the
  node stops may lose an event (`MayForget`), because the block the ticker stores is not one the node
  has processed. After a subscription closed its error channel, `listenForSubscriptionError`
  finds it closed at once and again (`eth-client.ts:71`).
* **Queries**: a crash in the middle of `setObjective` may leave an objective that
  `populateChannelData` cannot load; the objective then never goes on, which the model has.
  `VoucherManager.remove` is called by nothing.
* **Notifications**: the listeners of ledgers, which have the same code and state of their own.

Still to do, in this order:

1. `StopsAreExplained` of `PaymentChannels` for every value of the constants; whether `BooksBalance` needs `ClientsWait`.
2. `NothingIsLost` and `HoldingsAreRight` of `ChainService` over restarts: an order in which an event may come twice.
3. `ListenersHearChanges` of `Notifications`: the queue of a key is held by one call at a time.
4. `MessageService`: peers, attempts to connect and send, and messages that are given up;
   today it is the network of the other modules.
5. Outcome functions (`depositSafetyThreshold`, `divertToGuarantee`, totals of several assets)
   against reference definitions.
6. Challenges: the adjudicator has them, the node never sends one; `ChainService` passes their events on.

Left out for good: logging, metrics, serialisation formats, signers and key handling,
the generated contract bindings (`nitro-util/src/contract-bindings`), command line and web front ends. They hold no protocol state.
