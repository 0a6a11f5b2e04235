----------------------------- MODULE DirectFund -----------------------------
(***************************************************************************)
(* Opening ledger channels between two nodes: the direct-fund objective    *)
(* (protocols/directfund/directfund.ts), the run loop of the engine that   *)
(* drives it (node/engine/engine.ts), the store, and the chain.            *)
(*                                                                         *)
(* Who asks for a channel is its initiator and its first participant.  Both *)
(* sign the prefund state; the initiator deposits, then the responder;     *)
(* both sign the postfund state; and each replaces the Channel by a ledger *)
(* (ConsensusChannel), which the objectives of virtual channels use.       *)
(*                                                                         *)
(* The run loop handles one message, chain event or request at a time, but *)
(* a handler writes to the store, to the network and to the chain one      *)
(* after the other: `doing' is how far a node's handler has come, and a    *)
(* node may stop between any two of these steps.                           *)
(***************************************************************************)
EXTENDS Integers, Sequences

CONSTANTS
  Channels,      \* ids of the channels that may be asked for
  Initiator,     \* the node that asks for each
  Share,         \* what each node is to deposit in a channel
  Lossy,         \* whether messages are lost and arrive twice
  Crashes,       \* whether nodes restart and transactions fail
  MaxReplays,    \* bound: how often a chain subscription is renewed
  None,          \* what the store holds for an unknown id
  Idle           \* what a node does between two handlers

Nodes == {0, 1}
Peer(n) == 1 - n

ASSUME InitiatorAssumption  == Initiator \in [Channels -> Nodes]
ASSUME ShareAssumption      == Share \in [Nodes -> Nat] /\ Share[0] + Share[1] > 0
ASSUME LossyAssumption      == Lossy \in BOOLEAN
ASSUME CrashesAssumption    == Crashes \in BOOLEAN
ASSUME MaxReplaysAssumption == MaxReplays \in Nat

Turns     == {"prefund", "postfund"}
Objective == [status    : {"unapproved", "approved", "completed", "rejected"},
              submitted : BOOLEAN]
Channel   == [prefund : SUBSET Nodes, postfund : SUBSET Nodes, holdings : Nat]
Message   == [type : Turns \cup {"rejection"}, ch : Channels, to : Nodes]
Event     == [ch : Channels, held : Nat]

\* What a handler has in memory: an objective with its channel, to be
\* cranked, or the side effects that are left once it is stored.
Loaded  == [step : {"crank"}, ch : Channels, objective : Objective, channel : Channel]
Effects == [step : {"release", "spawn", "destroy", "send", "submit"}, ch : Channels,
            messages : SUBSET Message, deposit : Nat]

ASSUME NoneAssumption == None \notin Objective \cup Channel
ASSUME IdleAssumption == Idle \notin Loaded \cup Effects

\* A node runs, or has stopped on an error that checkError rethrows.
Errors == {"ErrGetObjective", "errNotApproved", "AssertionError", "transaction failed"}

VARIABLES
  objectives,   \* the store of each node: objectives by channel
  channels,     \*   the Channels, with the signatures and holdings recorded
  owned,        \*   the channels an objective owns (channelToObjective)
  ledgers,      \*   the ConsensusChannels
  doing,        \* the handler each node is in
  engine,       \* "running", or the error a node's run loop ended with
  network,      \* the messages in flight
  deposited,    \* on chain: what each node has put into each channel
  log,          \* on chain: the Deposited events
  seen,         \* how many of them each node's engine has taken up
  replays,      \* how often a subscription was renewed
  signed        \* history: who ever signed which state

store == <<objectives, channels, owned, ledgers>>
chain == <<deposited, log>>
vars  == <<store, doing, engine, network, chain, seen, replays, signed>>

TotalShare == Share[0] + Share[1]
Held(ch)   == deposited[0][ch] + deposited[1][ch]

Init ==
  /\ objectives = [n \in Nodes |-> [ch \in Channels |-> None]]
  /\ channels   = [n \in Nodes |-> [ch \in Channels |-> None]]
  /\ owned      = [n \in Nodes |-> {}]
  /\ ledgers    = [n \in Nodes |-> {}]
  /\ doing      = [n \in Nodes |-> Idle]
  /\ engine     = [n \in Nodes |-> "running"]
  /\ network    = {}
  /\ deposited  = [n \in Nodes |-> [ch \in Channels |-> 0]]
  /\ log        = << >>
  /\ seen       = [n \in Nodes |-> 0]
  /\ replays    = 0
  /\ signed     = [t \in Turns |-> [ch \in Channels |-> {}]]

\* The status of an objective in a node's store.
Status(n, ch) ==
  IF objectives[n][ch] = None THEN "unknown" ELSE objectives[n][ch].status

NewChannel == [prefund |-> {}, postfund |-> {}, holdings |-> 0]

IsFree(n) == engine[n] = "running" /\ doing[n] = Idle

Load(n, ch, objective, channel) ==
  doing' = [doing EXCEPT ![n] = [step |-> "crank", ch |-> ch,
                                 objective |-> objective, channel |-> channel]]

Stop(n, error) ==
  /\ engine' = [engine EXCEPT ![n] = error]
  /\ doing' = [doing EXCEPT ![n] = Idle]

(***************************************************************************)
(* A request for a ledger channel: refused (ErrLedgerChannelExists, which  *)
(* changes nothing) when the store has a channel or a ledger with the peer.*)
(* The objective is only stored once it is cranked.                        *)
(***************************************************************************)
LedgersExistWithCounterparty(n) == ledgers[n] # {}                     \* mutant

ChannelsExistWithCounterparty(n) ==
  ledgers[n] # {} \/ \E ch \in Channels : channels[n][ch] # None

Request(n, ch) ==
  /\ IsFree(n)
  /\ Initiator[ch] = n /\ Status(n, ch) = "unknown"
  /\ ~ ChannelsExistWithCounterparty(n)
  /\ Load(n, ch, [status |-> "approved", submitted |-> FALSE], NewChannel)
  /\ UNCHANGED <<store, engine, network, chain, seen, replays, signed>>

(***************************************************************************)
(* A payload arrives: getOrCreateObjective, the policy, update.            *)
(***************************************************************************)
\* The message is taken from the network, which may deliver it again, and
\* others are sent.
TakeAndSend(m, sent) ==
  \/ network' = (network \ {m}) \cup sent
  \/ Lossy /\ network' = network \cup sent

AddSignature(c, m) ==
  IF m.type = "prefund" THEN [c EXCEPT !.prefund  = @ \cup {Peer(m.to)}]
                        ELSE [c EXCEPT !.postfund = @ \cup {Peer(m.to)}]

\* The payload of an unknown objective, which is stored before it is judged,
\* or of one that was stored and not judged before the node stopped.
IsUnjudged(n, ch) == Status(n, ch) \in {"unknown", "unapproved"}

ReceiveNew(n, m) ==
  LET c == IF Status(n, m.ch) = "unknown" THEN NewChannel ELSE channels[n][m.ch]
      status(s) == [objectives EXCEPT ![n][m.ch] = [status |-> s, submitted |-> FALSE]]
  IN /\ IsFree(n) /\ m.to = n
     /\ m.type = "prefund"
     /\ IsUnjudged(n, m.ch)
     /\ channels' = [channels EXCEPT ![n][m.ch] = c]
     /\ \/ /\ objectives' = status("unapproved")
           /\ Load(n, m.ch, [status |-> "approved", submitted |-> FALSE],
                   AddSignature(c, m))
           /\ TakeAndSend(m, {})
        \/ /\ objectives' = status("rejected")
           /\ TakeAndSend(m, {[type |-> "rejection", ch |-> m.ch, to |-> Peer(n)]})
           /\ UNCHANGED doing
     /\ UNCHANGED <<owned, ledgers, engine, chain, seen, replays, signed>>

\* populateChannelData does not find the Channel of an objective that is done.
ReceiveForMissingChannel(n, m) ==
  /\ IsFree(n) /\ m.to = n
  /\ m.type \in Turns
  /\ Status(n, m.ch) # "unknown" /\ channels[n][m.ch] = None
  /\ TakeAndSend(m, {})
  /\ Stop(n, "ErrGetObjective")
  /\ UNCHANGED <<store, chain, seen, replays, signed>>

IsOver(n, ch) == Status(n, ch) \in {"completed", "rejected"}

Receive(n, m) ==
  LET c == channels[n][m.ch]
  IN /\ IsFree(n) /\ m.to = n
     /\ m.type \in Turns
     /\ ~ IsUnjudged(n, m.ch) /\ c # None
     /\ \/ ~ IsOver(n, m.ch) /\ Load(n, m.ch, objectives[n][m.ch], AddSignature(c, m))
        \/ IsOver(n, m.ch) /\ UNCHANGED doing
     /\ TakeAndSend(m, {})
     /\ UNCHANGED <<store, engine, chain, seen, replays, signed>>

\* The notice that the peer rejected the objective.
ReceiveRejection(n, m) ==
  /\ IsFree(n) /\ m.to = n
  /\ m.type = "rejection"
  /\ channels[n][m.ch] # None
  /\ objectives' = [objectives EXCEPT ![n][m.ch].status = "rejected"]
  /\ TakeAndSend(m, {})
  /\ UNCHANGED <<channels, owned, ledgers, doing, engine, chain, seen, replays, signed>>

(***************************************************************************)
(* handleChainEvent, and updateWithChainEvent of a Deposited event.        *)
(***************************************************************************)
Recorded(c, e) == [c EXCEPT !.holdings = e.held]

HandleChainEvent(n) ==
  LET e == log[seen[n] + 1]
      c == channels[n][e.ch]
  IN /\ IsFree(n)
     /\ seen[n] < Len(log)
     /\ seen' = [seen EXCEPT ![n] = @ + 1]
     /\ \/ /\ c = None
           /\ UNCHANGED <<channels, doing, engine>>
        \/ /\ c # None
           /\ channels' = [channels EXCEPT ![n][e.ch] = Recorded(c, e)]
           /\ IF e.ch \in owned[n]
                THEN /\ Load(n, e.ch, objectives[n][e.ch], Recorded(c, e))
                     /\ UNCHANGED engine
                ELSE Stop(n, "AssertionError")
     /\ UNCHANGED <<objectives, owned, ledgers, network, chain, replays, signed>>

\* A renewed subscription asks for the logs again from the last confirmed
\* block on, whose event the engine may have taken up before.
Replay(n) ==
  /\ replays < MaxReplays
  /\ replays' = replays + 1
  /\ seen[n] > 0
  /\ seen' = [seen EXCEPT ![n] = @ - 1]
  /\ UNCHANGED <<store, doing, engine, network, chain, signed>>

(***************************************************************************)
(* Objective.crank, and attemptProgress up to the store.                   *)
(***************************************************************************)
\* The initiator's allocation comes first.
Threshold(n, ch) == IF n = Initiator[ch] THEN 0 ELSE Share[Peer(n)]

FundingExceeded(c) == c.holdings > TotalShare                          \* mutant
SafeAnytime(n, ch, c) == c.holdings <= TotalShare                      \* mutant

FundingComplete(c)      == c.holdings >= TotalShare
SafeToDeposit(n, ch, c) == c.holdings >= Threshold(n, ch)
AmountToDeposit(n, ch, c) == Threshold(n, ch) + Share[n] - c.holdings

PrefundedByAny(n, c) == c.prefund \cup {n} # {}                        \* mutant

Prefunded(n, c) == c.prefund \cup {n} = Nodes

ShouldDepositAgain(n, w) ==                                            \* mutant
  /\ Prefunded(n, w.channel)
  /\ ~ FundingComplete(w.channel)
  /\ SafeToDeposit(n, w.ch, w.channel)
  /\ AmountToDeposit(n, w.ch, w.channel) # 0

ShouldDeposit(n, w) ==
  /\ Prefunded(n, w.channel)
  /\ ~ FundingComplete(w.channel)
  /\ SafeToDeposit(n, w.ch, w.channel)
  /\ AmountToDeposit(n, w.ch, w.channel) # 0
  /\ ~ w.objective.submitted

ShouldSignPostfund(n, c) == Prefunded(n, c) /\ FundingComplete(c)

Signed(n, c) ==
  [c EXCEPT !.prefund  = @ \cup {n},
            !.postfund = IF ShouldSignPostfund(n, c) THEN @ \cup {n} ELSE @]

IsCompleteByMe(n, c) == ShouldSignPostfund(n, c)                       \* mutant

IsComplete(n, c) == ShouldSignPostfund(n, c) /\ Signed(n, c).postfund = Nodes

\* The postfund message takes the place of the prefund message.
MessagesToSend(n, ch, c) ==
  IF Signed(n, c).postfund # c.postfund
    THEN {[type |-> "postfund", ch |-> ch, to |-> Peer(n)]}
  ELSE IF n \notin c.prefund
    THEN {[type |-> "prefund", ch |-> ch, to |-> Peer(n)]}
  ELSE {}

Crank(n) ==
  LET w == doing[n]
      c == Signed(n, w.channel)
      complete == IsComplete(n, w.channel)
  IN /\ w # Idle /\ w.step = "crank"
     /\ w.objective.status = "approved"
     /\ objectives' = [objectives EXCEPT ![n][w.ch] =
          [status    |-> IF complete THEN "completed" ELSE "approved",
           submitted |-> w.objective.submitted \/ ShouldDeposit(n, w)]]
     /\ channels' = [channels EXCEPT ![n][w.ch] = c]
     /\ owned' = [owned EXCEPT ![n] = IF complete THEN @ ELSE @ \cup {w.ch}]
     /\ doing' = [doing EXCEPT ![n] =
          [step     |-> IF complete THEN "release" ELSE "send",
           ch       |-> w.ch,
           messages |-> MessagesToSend(n, w.ch, w.channel),
           deposit  |-> IF ShouldDeposit(n, w)
                          THEN AmountToDeposit(n, w.ch, w.channel) ELSE 0]]
     /\ signed' = [t \in Turns |->
          [signed[t] EXCEPT ![w.ch] = IF n \in c[t] THEN @ \cup {n} ELSE @]]
     /\ UNCHANGED <<ledgers, engine, network, chain, seen, replays>>

CrankUnapproved(n) ==
  /\ doing[n] # Idle /\ doing[n].step = "crank"
  /\ doing[n].objective.status # "approved"
  /\ Stop(n, "errNotApproved")
  /\ UNCHANGED <<store, network, chain, seen, replays, signed>>

(***************************************************************************)
(* The rest of attemptProgress: a completed objective releases its channel *)
(* and hands it over to a ledger; then come the side effects.              *)
(***************************************************************************)
IsAt(n, step)  == doing[n] # Idle /\ doing[n].step = step
Goes(n, step)  == doing' = [doing EXCEPT ![n].step = step]

Release(n) ==
  /\ IsAt(n, "release") /\ Goes(n, "spawn")
  /\ owned' = [owned EXCEPT ![n] = @ \ {doing[n].ch}]
  /\ UNCHANGED <<objectives, channels, ledgers, engine, network, chain, seen, replays, signed>>

Spawn(n) ==
  /\ IsAt(n, "spawn") /\ Goes(n, "destroy")
  /\ ledgers' = [ledgers EXCEPT ![n] = @ \cup {doing[n].ch}]
  /\ UNCHANGED <<objectives, channels, owned, engine, network, chain, seen, replays, signed>>

DestroyUnspawned(n) ==                                                 \* mutant
  /\ IsAt(n, "spawn") /\ Goes(n, "send")
  /\ channels' = [channels EXCEPT ![n][doing[n].ch] = None]
  /\ UNCHANGED <<objectives, owned, ledgers, engine, network, chain, seen, replays, signed>>

Destroy(n) ==
  /\ IsAt(n, "destroy") /\ Goes(n, "send")
  /\ channels' = [channels EXCEPT ![n][doing[n].ch] = None]
  /\ UNCHANGED <<objectives, owned, ledgers, engine, network, chain, seen, replays, signed>>

\* Messages are sent by a routine of their own, the transaction is waited for.
Send(n) ==
  /\ IsAt(n, "send")
  /\ network' = network \cup doing[n].messages
  /\ IF doing[n].deposit = 0 THEN doing' = [doing EXCEPT ![n] = Idle]
                             ELSE Goes(n, "submit")
  /\ UNCHANGED <<store, engine, chain, seen, replays, signed>>

Submit(n) ==
  LET w == doing[n]
  IN /\ IsAt(n, "submit")
     /\ \/ /\ deposited' = [deposited EXCEPT ![n][w.ch] = @ + w.deposit]
           /\ log' = Append(log, [ch |-> w.ch, held |-> Held(w.ch) + w.deposit])
           /\ doing' = [doing EXCEPT ![n] = Idle]
           /\ UNCHANGED engine
        \/ /\ Crashes
           /\ Stop(n, "transaction failed")
           /\ UNCHANGED chain
     /\ UNCHANGED <<store, network, seen, replays, signed>>

(***************************************************************************)
(* Faults.                                                                 *)
(***************************************************************************)
Lose(m) ==
  /\ Lossy
  /\ network' = network \ {m}
  /\ UNCHANGED <<store, doing, engine, chain, seen, replays, signed>>

\* A node that restarts asks for the chain's logs from the block its store
\* names (internal/node/node.ts).  The ticker sets that block to the last one
\* the tracker counts as confirmed, which may lie behind the last event that was
\* handled (after a restart, until a block arrives) or ahead of one that was not.
Restart(n) ==
  /\ Crashes
  /\ doing' = [doing EXCEPT ![n] = Idle]
  /\ engine' = [engine EXCEPT ![n] = "running"]
  /\ \E i \in 0..Len(log) : seen' = [seen EXCEPT ![n] = i]
  /\ UNCHANGED <<store, network, chain, replays, signed>>

Handle(n) ==
  \/ \E m \in network : \/ ReceiveNew(n, m)
                        \/ ReceiveForMissingChannel(n, m)
                        \/ Receive(n, m)
                        \/ ReceiveRejection(n, m)
  \/ HandleChainEvent(n)

Continue(n) ==
  \/ Crank(n) \/ CrankUnapproved(n)
  \/ Release(n) \/ Spawn(n) \/ Destroy(n)
  \/ Send(n) \/ Submit(n)

Next ==
  \/ \E n \in Nodes : \/ \E ch \in Channels : Request(n, ch)
                      \/ Handle(n)
                      \/ Continue(n)
                      \/ Replay(n)
                      \/ Restart(n)
  \/ \E m \in network : Lose(m)

Spec == Init /\ [][Next]_vars

\* Run loops take up what arrives and finish the handler they are in.
Fairness ==
  \A n \in Nodes : WF_vars(Handle(n)) /\ WF_vars(Continue(n))

FairSpec == Spec /\ Fairness
-----------------------------------------------------------------------------
\* Every variable holds a value of its kind; in particular no node computes a
\* negative deposit.
TypeOK ==
  /\ objectives \in [Nodes -> [Channels -> Objective \cup {None}]]
  /\ channels \in [Nodes -> [Channels -> Channel \cup {None}]]
  /\ owned \in [Nodes -> SUBSET Channels]
  /\ ledgers \in [Nodes -> SUBSET Channels]
  /\ doing \in [Nodes -> Loaded \cup Effects \cup {Idle}]
  /\ engine \in [Nodes -> Errors \cup {"running"}]
  /\ network \subseteq Message
  /\ deposited \in [Nodes -> [Channels -> Nat]]
  /\ log \in Seq(Event)
  /\ seen \in [Nodes -> 0..Len(log)]
  /\ replays \in 0..MaxReplays
  /\ signed \in [Turns -> [Channels -> SUBSET Nodes]]

\* Money only goes into a channel that can pay it back: both nodes have signed
\* the prefund state, and the responder deposits on top of the whole deposit of
\* the initiator (directfund.ts safeToDeposit).
DepositsAreSafe ==
  \A ch \in Channels :
    /\ Held(ch) > 0 => signed["prefund"][ch] = Nodes
    /\ deposited[Peer(Initiator[ch])][ch] > 0 =>
         deposited[Initiator[ch]][ch] = Share[Initiator[ch]]

\* However messages and chain events repeat, and wherever a node stops, it never
\* pays its share of a channel twice (transactionSubmitted).
NobodyPaysTwice ==
  \A n \in Nodes, ch \in Channels : deposited[n][ch] \in {0, Share[n]}

\* Nobody signs the postfund state before the chain holds both deposits, and a
\* ledger takes over only when both have signed it.
LedgersAreFunded ==
  \A ch \in Channels :
    /\ signed["postfund"][ch] # {} => Held(ch) = TotalShare
    /\ \A n \in Nodes : ch \in ledgers[n] => signed["postfund"][ch] = Nodes

\* A node that counts an objective as completed has a peer that is bound to it:
\* the peer has signed the postfund state, and approved the objective for good.
CompletionIsMutual ==
  \A n \in Nodes, ch \in Channels :
    Status(n, ch) = "completed" =>
      /\ Status(Peer(n), ch) \in {"approved", "completed"}
      /\ signed["postfund"][ch] = Nodes

\* No money is at stake in a channel somebody rejected.
RejectedIsUnfunded ==
  \A n \in Nodes, ch \in Channels :
    Status(n, ch) = "rejected" =>
      Held(ch) = 0 /\ signed["prefund"][ch] # Nodes

\* A channel has a state in every store that knows its objective, as a Channel
\* or as a ledger, so it can always be closed, wherever a node stopped.
EveryChannelIsKept ==
  \A n \in Nodes, ch \in Channels :
    Status(n, ch) # "unknown" => channels[n][ch] # None \/ ch \in ledgers[n]

\* A channel that was asked for ends as a ledger of both nodes or is rejected
\* by both, with chain events handled again after a renewed subscription.
EveryRequestIsSettled ==
  \A ch \in Channels :
    Status(Initiator[ch], ch) # "unknown" ~>
      \/ \A n \in Nodes : ch \in ledgers[n]
      \/ \A n \in Nodes : Status(n, ch) = "rejected"

(***************************************************************************)
(* The refinement: signatures and deposits are made when the promise allows*)
(* them, and a ledger is an open channel.                                  *)
(***************************************************************************)
Promise == INSTANCE FundingPromise WITH
             agreed    <- signed["prefund"],
             paid      <- deposited,
             confirmed <- signed["postfund"],
             open      <- ledgers

\* Whatever is lost, repeated or forgotten on the way, the two nodes keep the
\* promise of FundingPromise.
ImplementsPromise == Promise!Spec

\* engine.ts calls a failure to get an objective one "for which the engine
\* should not panic".
ErrGetObjectiveIsSurvived == \A n \in Nodes : engine[n] # "ErrGetObjective"

\* channel.ts rejects an event "older than channel's last update", so what a
\* channel records as held on chain never falls while it is being funded.
HoldingsOnlyGrow ==
  [][\A n \in Nodes, ch \in Channels :
       channels[n][ch] # None /\ channels'[n][ch] # None =>
         channels[n][ch].holdings <= channels'[n][ch].holdings]_vars

\* ErrLedgerChannelExists: a node has one ledger with a counterparty.
OneLedgerPerCounterparty ==
  \A n \in Nodes : \A c, d \in ledgers[n] : c = d

(***************************************************************************)
(* The inductive invariant behind these properties: what a node stores,    *)
(* has in memory or has sent rests on signatures and deposits that have    *)
(* been made, and a rejection on a node that never signed.                 *)
(***************************************************************************)
HasPaid(n, ch) == deposited[n][ch] = Share[n]

\* What the chain held of a channel at some time, in the order of payments.
WasHeld(ch, amount) ==
  \/ amount = 0
  \/ amount = Share[Initiator[ch]] /\ HasPaid(Initiator[ch], ch)
  \/ amount = TotalShare /\ \A n \in Nodes : HasPaid(n, ch)

HasRejected(ch) ==
  \E n \in Nodes : Status(n, ch) = "rejected" /\ n \notin signed["prefund"][ch]

ChannelInv(ch, c) ==
  /\ c.prefund \subseteq signed["prefund"][ch]
  /\ c.postfund \subseteq signed["postfund"][ch]
  /\ WasHeld(ch, c.holdings)

MoneyInv(ch) ==
  /\ \A n \in Nodes :
       /\ deposited[n][ch] \in {0, Share[n]}
       /\ deposited[n][ch] > 0 => /\ signed["prefund"][ch] = Nodes
                                  /\ HasPaid(Initiator[ch], ch)
  /\ signed["postfund"][ch] # {} => \A n \in Nodes : HasPaid(n, ch)

ObjectiveInv(n, ch) ==
  /\ objectives[n][ch].status = "unapproved" => ~ objectives[n][ch].submitted
  /\ objectives[n][ch].status = "completed" => signed["postfund"][ch] = Nodes
  /\ objectives[n][ch].status = "rejected" => HasRejected(ch)
  /\ channels[n][ch] = None =>
       objectives[n][ch].status = "completed" /\ ch \in ledgers[n]

StoreInv(n, ch) ==
  /\ objectives[n][ch] # None => ObjectiveInv(n, ch)
  /\ channels[n][ch] # None => objectives[n][ch] # None /\ ChannelInv(ch, channels[n][ch])
  /\ ch \in owned[n] => objectives[n][ch] # None
  /\ ch \in ledgers[n] => signed["postfund"][ch] = Nodes
  /\ n \in signed["prefund"][ch] => ~ IsUnjudged(n, ch)
  /\ deposited[n][ch] > 0 => objectives[n][ch] # None /\ objectives[n][ch].submitted

LoadedInv(n, w) ==
  /\ ChannelInv(w.ch, w.channel)
  /\ \/ w.objective = objectives[n][w.ch]
     \/ /\ w.objective = [status |-> "approved", submitted |-> FALSE]
        /\ IsUnjudged(n, w.ch)

EffectsInv(n, w) ==
  /\ w.step \in {"release", "spawn", "destroy"} => Status(n, w.ch) = "completed"
  /\ w.step = "destroy" => w.ch \in ledgers[n]
  /\ \A m \in w.messages :
       m.type \in Turns /\ m.to = Peer(n) /\ n \in signed[m.type][m.ch]
  /\ w.deposit > 0 =>
       /\ w.deposit = Share[n] /\ deposited[n][w.ch] = 0
       /\ signed["prefund"][w.ch] = Nodes
       /\ n = Initiator[w.ch] \/ HasPaid(Initiator[w.ch], w.ch)
       /\ objectives[n][w.ch] # None /\ objectives[n][w.ch].submitted

WorkInv(n, w) == IF w.step = "crank" THEN LoadedInv(n, w) ELSE EffectsInv(n, w)

NetworkInv ==
  \A m \in network :
    IF m.type = "rejection" THEN HasRejected(m.ch)
                            ELSE Peer(m.to) \in signed[m.type][m.ch]

LogInv == \A i \in 1..Len(log) : WasHeld(log[i].ch, log[i].held)

InductiveInv ==
  /\ TypeOK
  /\ \A ch \in Channels : MoneyInv(ch)
  /\ \A n \in Nodes, ch \in Channels : StoreInv(n, ch)
  /\ \A n \in Nodes : doing[n] # Idle => WorkInv(n, doing[n])
  /\ NetworkInv
  /\ LogInv

(***************************************************************************)
(* What more holds when one node asks for every channel: its engine takes  *)
(* one request up at a time, and refuses the next before its peer can have *)
(* heard of it.                                                            *)
(***************************************************************************)
OneNodeAsks == \A c, d \in Channels : Initiator[c] = Initiator[d]

IsKnown(n, ch) == objectives[n][ch] # None

KnownInv ==
  /\ \A n \in Nodes, ch \in Channels : IsKnown(n, ch) => IsKnown(Initiator[ch], ch)
  /\ \A c, d \in Channels :
       IsKnown(Initiator[c], c) /\ IsKnown(Initiator[d], d) => c = d

UnstoredInv(n, w) ==
  w.step = "crank" /\ ~ IsKnown(n, w.ch) =>
    n = Initiator[w.ch] /\ \A d \in Channels : ~ IsKnown(n, d)

RequestsInv ==
  /\ KnownInv
  /\ \A n \in Nodes : doing[n] # Idle => UnstoredInv(n, doing[n])
=============================================================================
