---------------------------- MODULE DirectDefund ----------------------------
(***************************************************************************)
(* Closing a ledger channel: the direct-defund objective                   *)
(* (protocols/directdefund/directdefund.ts), the engine that runs it and   *)
(* the chain that pays out.                                                *)
(*                                                                         *)
(* A node that is asked to close turns its ledger (ConsensusChannel) back  *)
(* into a Channel, destroys the ledger and signs a final state of the next *)
(* turn.  When both have signed the same one, the first participant, who   *)
(* leads the ledger, withdraws with it; both complete when they see the    *)
(* chain empty.                                                            *)
(*                                                                         *)
(* Before that, and beside it, the ledger is in use: here it has one       *)
(* update at a time, which adds or removes the guarantee of one virtual    *)
(* channel.  Module LedgerChannel has its protocol in full.                *)
(*                                                                         *)
(* As in DirectFund, a handler writes to the store, the network and the    *)
(* chain one after the other, and a node may stop between two writes.      *)
(***************************************************************************)
EXTENDS Integers, Sequences

CONSTANTS
  Closers,       \* the nodes whose clients ask to close the ledger
  Hasty,         \* whether clients ask whatever state the ledger is in
  Refuses,       \* the nodes whose policy maker may refuse
  Lossy,         \* whether messages are lost and arrive twice
  Crashes,       \* whether nodes restart and transactions fail
  MaxTurn,       \* bound: the last turn an update of the ledger may have
  None,          \* what the store holds for an unknown id
  Idle           \* what a node does between two handlers

Nodes == {0, 1}
Leader == 0
Follower == 1
Peer(n) == 1 - n

ASSUME ClosersAssumption == Closers \subseteq Nodes /\ Refuses \subseteq Nodes
ASSUME FaultsAssumption == {Hasty, Lossy, Crashes} \subseteq BOOLEAN
ASSUME MaxTurnAssumption == MaxTurn \in Nat \ {0}

\* What a ledger has: the turn of its consensus, whether that funds a virtual
\* channel, and whether an update is proposed on top of it.
Ledger == [turn : 1..MaxTurn, guaranteed : BOOLEAN, proposed : BOOLEAN]

\* A Channel made of it: the turn and the guarantee of its latest supported
\* state, who has signed the final state of the next turn, and what is
\* recorded to be held on chain.
Channel == [turn : 1..MaxTurn, guaranteed : BOOLEAN, final : SUBSET Nodes,
            holdings : BOOLEAN]

Objective == [status : {"unapproved", "approved", "completed", "rejected"},
              submitted : BOOLEAN]

Message == [type : {"final", "proposal", "countersigned"}, turn : Nat, to : Nodes]
             \cup [type : {"rejection"}, to : Nodes]

\* What a handler has in memory.
Work == [step      : {"destroy", "update", "crank", "release", "send", "submit"},
         turn      : Nat,
         objective : Objective,
         channel   : Channel,
         messages  : SUBSET Message,
         withdraw  : BOOLEAN]

Events == {"deposited", "concluded", "paid out"}

\* What a final state says, beside that it is final.
FinalState == [turn : 1..MaxTurn + 1, guaranteed : BOOLEAN]

ASSUME NoneAssumption == None \notin Ledger \cup Channel \cup Objective \cup FinalState
ASSUME IdleAssumption == Idle \notin Work

VARIABLES
  ledger,       \* the store of each node: its copy of the ledger
  objective,    \*   its objective
  channel,      \*   the objective's Channel
  owned,        \*   whether an objective owns the Channel
  doing,        \* the handler each node is in
  engine,       \* "running", or the error a node's run loop ended with
  network,      \* the messages in flight
  concluded,    \* on chain: the final state the channel was closed with
  log,          \* on chain: the events of the channel
  seen,         \* how many of them each node's engine has taken up
  asked,        \* history: the nodes that were asked to close
  signed,       \* history: the final states each node has signed
  withdrawals   \* history: how often a withdrawal was sent

store == <<ledger, objective, channel, owned>>
chain == <<concluded, log>>
vars  == <<store, doing, engine, network, chain, seen, asked, signed, withdrawals>>

FirstLedger == [turn |-> 1, guaranteed |-> FALSE, proposed |-> FALSE]

\* The ledger was funded, and both have seen it.
Init ==
  /\ ledger = [n \in Nodes |-> FirstLedger]
  /\ objective = [n \in Nodes |-> None]
  /\ channel = [n \in Nodes |-> None]
  /\ owned = [n \in Nodes |-> FALSE]
  /\ doing = [n \in Nodes |-> Idle]
  /\ engine = [n \in Nodes |-> "running"]
  /\ network = {}
  /\ concluded = None
  /\ log = <<"deposited">>
  /\ seen = [n \in Nodes |-> 1]
  /\ asked = {}
  /\ signed = [n \in Nodes |-> {}]
  /\ withdrawals = 0

IsFree(n) == engine[n] = "running" /\ doing[n] = Idle

Stop(n, error) ==
  /\ engine' = [engine EXCEPT ![n] = error]
  /\ doing' = [doing EXCEPT ![n] = Idle]

\* A handler goes on at a step, with an objective and its channel in memory;
\* turn is that of the final state it has received, if any.
Load(n, step, turn, o, c) ==
  doing' = [doing EXCEPT ![n] =
    [step |-> step, turn |-> turn, objective |-> o, channel |-> c,
     messages |-> {}, withdraw |-> FALSE]]

(***************************************************************************)
(* createChannelFromConsensusChannel and newObjective.  An update that is  *)
(* only proposed does not keep a ledger from being closed.                 *)
(***************************************************************************)
CanCloseWithGuarantees(l) == l # None                                  \* mutant

CanClose(l) == l # None /\ ~ l.guaranteed

ChannelOf(l) ==
  [turn |-> l.turn, guaranteed |-> l.guaranteed, final |-> {}, holdings |-> TRUE]

NewObjective(status) == [status |-> status, submitted |-> FALSE]

FinalTurn(c) == c.turn + 1

\* handleObjectiveRequest: ErrNotEmpty, or a ledger that is not in the store,
\* is an error checkError throws.
Request(n) ==
  /\ IsFree(n)
  /\ n \in Closers /\ n \notin asked
  /\ ~ Hasty => CanClose(ledger[n])
  /\ asked' = asked \cup {n}
  /\ IF CanClose(ledger[n])
       THEN /\ Load(n, "destroy", 0, NewObjective("approved"), ChannelOf(ledger[n]))
            /\ UNCHANGED engine
       ELSE Stop(n, "could not create directdefund objective")
  /\ UNCHANGED <<store, network, chain, seen, signed, withdrawals>>

(***************************************************************************)
(* A payload: constructObjectiveFromMessage and setObjective, the policy   *)
(* maker, destroyConsensusChannel, update.                                 *)
(***************************************************************************)
TakeAndSend(m, sent) ==
  \/ network' = (network \ {m}) \cup sent
  \/ Lossy /\ network' = network \cup sent

Status(n) == IF objective[n] = None THEN "unknown" ELSE objective[n].status

\* The first payload, or one of an objective that was stored and not judged
\* before the node stopped.
Judge(n, m) ==
  LET c == IF objective[n] = None THEN ChannelOf(ledger[n]) ELSE channel[n]
  IN /\ Status(n) = "unknown" => CanClose(ledger[n])
     /\ Status(n) \in {"unknown", "unapproved"}
     /\ channel' = [channel EXCEPT ![n] = c]
     /\ \/ /\ objective' = [objective EXCEPT ![n] = NewObjective("unapproved")]
           /\ Load(n, "destroy", m.turn, NewObjective("approved"), c)
           /\ TakeAndSend(m, {})
        \/ /\ n \in Refuses
           /\ objective' = [objective EXCEPT ![n] = NewObjective("rejected")]
           /\ TakeAndSend(m, {[type |-> "rejection", to |-> Peer(n)]})
           /\ UNCHANGED doing
     /\ UNCHANGED <<ledger, owned, engine>>

CannotConstruct(n, m) ==
  /\ Status(n) = "unknown" /\ ~ CanClose(ledger[n])
  /\ TakeAndSend(m, {})
  /\ Stop(n, "error constructing objective from message")
  /\ UNCHANGED store

TakeUp(n, m) ==
  /\ Status(n) = "approved"
  /\ Load(n, "update", m.turn, objective[n], channel[n])
  /\ TakeAndSend(m, {})
  /\ UNCHANGED <<store, engine>>

Ignore(n, m) ==
  /\ Status(n) \in {"completed", "rejected"}
  /\ TakeAndSend(m, {})
  /\ UNCHANGED <<store, doing, engine>>

ReceiveFinal(m) ==
  /\ IsFree(m.to) /\ m.type = "final"
  /\ \/ Judge(m.to, m)
     \/ CannotConstruct(m.to, m)
     \/ TakeUp(m.to, m)
     \/ Ignore(m.to, m)
  /\ UNCHANGED <<chain, seen, asked, signed, withdrawals>>

ReceiveRejection(m) ==
  /\ IsFree(m.to) /\ m.type = "rejection"
  /\ TakeAndSend(m, {})
  /\ IF objective[m.to] = None
       THEN Stop(m.to, "no such objective") /\ UNCHANGED store
       ELSE /\ objective' = [objective EXCEPT ![m.to].status = "rejected"]
            /\ UNCHANGED <<ledger, channel, owned, doing, engine>>
  /\ UNCHANGED <<chain, seen, asked, signed, withdrawals>>

(***************************************************************************)
(* The rest of these handlers.                                             *)
(***************************************************************************)
IsAt(n, step) == doing[n] # Idle /\ doing[n].step = step
Goes(n, step) == doing' = [doing EXCEPT ![n].step = step]

DestroyConsensusChannel(n) ==
  /\ IsAt(n, "destroy")
  /\ Goes(n, IF doing[n].turn = 0 THEN "crank" ELSE "update")
  /\ ledger' = [ledger EXCEPT ![n] = None]
  /\ UNCHANGED <<objective, channel, owned, engine, network, chain, seen, asked,
                 signed, withdrawals>>

Update(n) ==
  LET w == doing[n]
  IN /\ IsAt(n, "update")
     /\ IF w.turn = FinalTurn(w.channel)
          THEN /\ doing' = [doing EXCEPT ![n].step = "crank",
                                         ![n].channel.final = @ \cup {Peer(n)}]
               /\ UNCHANGED engine
          ELSE Stop(n, "unexpected turn number")
     /\ UNCHANGED <<store, network, chain, seen, asked, signed, withdrawals>>

(***************************************************************************)
(* crank, and attemptProgress up to the store.                             *)
(***************************************************************************)
Signed(n, c) == [c EXCEPT !.final = @ \cup {n}]

Finalized(n, c) == Signed(n, c).final = Nodes

WithdrawnOnceSubmitted(w) == w.objective.submitted \/ ~ w.channel.holdings  \* mutant

FullyWithdrawn(w) == ~ w.channel.holdings

ShouldWithdrawAgain(n, w) ==                                           \* mutant
  /\ Finalized(n, w.channel) /\ ~ FullyWithdrawn(w)
  /\ n = Leader

ShouldWithdraw(n, w) ==
  /\ Finalized(n, w.channel) /\ ~ FullyWithdrawn(w)
  /\ n = Leader
  /\ ~ w.objective.submitted

FinalMessage(n, c) == [type |-> "final", turn |-> FinalTurn(c), to |-> Peer(n)]

Crank(n) ==
  LET w == doing[n]
      done == Finalized(n, w.channel) /\ FullyWithdrawn(w)
      o == [status    |-> IF done THEN "completed" ELSE "approved",
            submitted |-> w.objective.submitted \/ ShouldWithdraw(n, w)]
  IN /\ IsAt(n, "crank")
     /\ w.objective.status = "approved"
     /\ objective' = [objective EXCEPT ![n] = o]
     /\ channel' = [channel EXCEPT ![n] = Signed(n, w.channel)]
     /\ owned' = [owned EXCEPT ![n] = @ \/ ~ done]
     /\ signed' = [signed EXCEPT ![n] = @ \cup
          {[turn |-> FinalTurn(w.channel), guaranteed |-> w.channel.guaranteed]}]
     /\ doing' = [doing EXCEPT ![n] =
          [w EXCEPT !.step     = IF done THEN "release" ELSE "send",
                    !.messages = IF n \in w.channel.final THEN {}
                                 ELSE {FinalMessage(n, w.channel)},
                    !.withdraw = ShouldWithdraw(n, w)]]
     /\ UNCHANGED <<ledger, engine, network, chain, seen, asked, withdrawals>>

CrankUnapproved(n) ==
  /\ IsAt(n, "crank")
  /\ doing[n].objective.status # "approved"
  /\ Stop(n, "errNotApproved")
  /\ UNCHANGED <<store, network, chain, seen, asked, signed, withdrawals>>

Release(n) ==
  /\ IsAt(n, "release") /\ Goes(n, "send")
  /\ owned' = [owned EXCEPT ![n] = FALSE]
  /\ UNCHANGED <<ledger, objective, channel, engine, network, chain, seen, asked,
                 signed, withdrawals>>

Send(n) ==
  /\ IsAt(n, "send")
  /\ network' = network \cup doing[n].messages
  /\ IF doing[n].withdraw THEN Goes(n, "submit")
                          ELSE doing' = [doing EXCEPT ![n] = Idle]
  /\ UNCHANGED <<store, engine, chain, seen, asked, signed, withdrawals>>

(***************************************************************************)
(* concludeAndTransferAllAssets: the chain takes a final state that both   *)
(* have signed, once, and pays everything out.                             *)
(***************************************************************************)
WithdrawAll(n) ==
  LET c == doing[n].channel
  IN /\ IsAt(n, "submit")
     /\ withdrawals' = withdrawals + 1
     /\ \/ /\ Signed(n, c).final = Nodes /\ concluded = None
           /\ concluded' = [turn |-> FinalTurn(c), guaranteed |-> c.guaranteed]
           /\ log' = log \o <<"concluded", "paid out">>
           /\ doing' = [doing EXCEPT ![n] = Idle]
           /\ UNCHANGED engine
        \/ /\ Crashes \/ Signed(n, c).final # Nodes \/ concluded # None
           /\ Stop(n, "transaction failed")
           /\ UNCHANGED chain
     /\ UNCHANGED <<store, network, seen, asked, signed>>

(***************************************************************************)
(* handleChainEvent, and what updateWithChainEvent makes of the Channel.   *)
(***************************************************************************)
Recorded(c, event) ==
  CASE event = "deposited" -> [c EXCEPT !.holdings = TRUE]
    [] event = "paid out"  -> [c EXCEPT !.holdings = FALSE]
    [] OTHER               -> c

HandleChainEvent(n) ==
  LET c == Recorded(channel[n], log[seen[n] + 1])
  IN /\ IsFree(n)
     /\ seen[n] < Len(log)
     /\ seen' = [seen EXCEPT ![n] = @ + 1]
     /\ \/ /\ channel[n] = None
           /\ UNCHANGED <<channel, doing, engine>>
        \/ /\ channel[n] # None
           /\ channel' = [channel EXCEPT ![n] = c]
           /\ IF owned[n] THEN /\ Load(n, "crank", 0, objective[n], c)
                               /\ UNCHANGED engine
                          ELSE Stop(n, "AssertionError")
     /\ UNCHANGED <<ledger, objective, owned, network, chain, asked, signed, withdrawals>>

(***************************************************************************)
(* The ledger in use.  A virtual channel's objective that finds no ledger  *)
(* cannot be read from the store, and that ends the run loop.              *)
(***************************************************************************)
Updated(l) == [turn |-> l.turn + 1, guaranteed |-> ~ l.guaranteed, proposed |-> FALSE]

Propose ==
  LET l == ledger[Leader]
  IN /\ IsFree(Leader)
     /\ l # None
     /\ ~ l.proposed /\ l.turn < MaxTurn
     /\ ledger' = [ledger EXCEPT ![Leader].proposed = TRUE]
     /\ network' = network \cup
          {[type |-> "proposal", turn |-> l.turn + 1, to |-> Follower]}
     /\ UNCHANGED <<objective, channel, owned, doing, engine, chain, seen, asked,
                    signed, withdrawals>>

\* The update that is next changes the ledger, any other does not.
IsNextUpdate(l, m) == m.turn = l.turn + 1

ReceiveUpdate(m) ==
  LET n == m.to
      l == ledger[n]
      sent == IF m.type = "proposal"
                THEN {[type |-> "countersigned", turn |-> m.turn, to |-> Leader]}
                ELSE {}
  IN /\ IsFree(n) /\ m.type \in {"proposal", "countersigned"}
     /\ \/ /\ l = None
           /\ TakeAndSend(m, {})
           /\ Stop(n, "error retrieving ledger channel data")
           /\ UNCHANGED ledger
        \/ /\ l # None
           /\ IF IsNextUpdate(l, m)
                THEN /\ ledger' = [ledger EXCEPT ![n] = Updated(l)]
                     /\ TakeAndSend(m, sent)
                ELSE TakeAndSend(m, {}) /\ UNCHANGED ledger
           /\ UNCHANGED <<doing, engine>>
     /\ UNCHANGED <<objective, channel, owned, chain, seen, asked, signed, withdrawals>>

(***************************************************************************)
(* Faults, as in DirectFund.                                               *)
(***************************************************************************)
Lose(m) ==
  /\ Lossy
  /\ network' = network \ {m}
  /\ UNCHANGED <<store, doing, engine, chain, seen, asked, signed, withdrawals>>

Restart(n) ==
  /\ Crashes
  /\ doing' = [doing EXCEPT ![n] = Idle]
  /\ engine' = [engine EXCEPT ![n] = "running"]
  /\ \E i \in 0..Len(log) : seen' = [seen EXCEPT ![n] = i]
  /\ UNCHANGED <<store, network, chain, asked, signed, withdrawals>>

Handle(n) ==
  \/ \E m \in network : m.to = n /\ (ReceiveFinal(m) \/ ReceiveRejection(m) \/ ReceiveUpdate(m))
  \/ HandleChainEvent(n)

Continue(n) ==
  \/ DestroyConsensusChannel(n) \/ Update(n)
  \/ Crank(n) \/ CrankUnapproved(n)
  \/ Release(n) \/ Send(n) \/ WithdrawAll(n)

Next ==
  \/ \E n \in Nodes : Request(n) \/ Handle(n) \/ Continue(n) \/ Restart(n)
  \/ Propose
  \/ \E m \in network : Lose(m)

Spec == Init /\ [][Next]_vars

\* Run loops take up what arrives and finish the handler they are in.
Fairness == \A n \in Nodes : WF_vars(Handle(n)) /\ WF_vars(Continue(n))

FairSpec == Spec /\ Fairness
-----------------------------------------------------------------------------
\* Every variable holds a value of its kind (engine may hold any error).
TypeOK ==
  /\ ledger \in [Nodes -> Ledger \cup {None}]
  /\ objective \in [Nodes -> Objective \cup {None}]
  /\ channel \in [Nodes -> Channel \cup {None}]
  /\ owned \in [Nodes -> BOOLEAN]
  /\ doing \in [Nodes -> Work \cup {Idle}]
  /\ network \subseteq Message
  /\ concluded \in FinalState \cup {None}
  /\ log \in Seq(Events)
  /\ seen \in [Nodes -> 0..Len(log)]
  /\ asked \subseteq Closers
  /\ signed \in [Nodes -> SUBSET FinalState]
  /\ withdrawals \in Nat

\* The chain pays a ledger out only with a final state both nodes have signed,
\* and only when that funds no virtual channel and neither node can use the
\* ledger any more, however far apart their copies were when they were asked
\* (directdefund.ts newObjective, update).
WithdrawnIsAgreed ==
  concluded # None =>
    /\ ~ concluded.guaranteed
    /\ \A n \in Nodes : concluded \in signed[n] /\ ledger[n] = None

\* A node counts the closing as completed only when the chain has paid out,
\* with messages and events repeated and nodes stopped at any point.
CompletedIsWithdrawn ==
  \A n \in Nodes : Status(n) = "completed" => concluded # None

\* The withdrawal is sent at most once, whatever makes the leader crank again
\* (withdrawTransactionSubmitted).
WithdrawnOnce == withdrawals <= 1

\* Nobody's engine stops when messages arrive and clients ask for what the
\* ledger allows, whoever of the two asks, or both at once.
NobodyStops == \A n \in Nodes : engine[n] = "running"

\* A closing that is asked for ends with both nodes paid out or with both
\* having rejected it.
EveryCloseIsSettled ==
  asked # {} ~>
    \/ concluded # None /\ \A n \in Nodes : Status(n) = "completed"
    \/ \A n \in Nodes : Status(n) = "rejected"

\* newObjective disallows an objective "if the channel has an in-progress
\* update": a final state comes after every update the peer can hold, so no
\* turn is signed both as an update and as final.
FinalStateComesLast ==
  \A n \in Nodes : \A s \in signed[n] :
    ledger[Peer(n)] # None => ledger[Peer(n)].turn < s.turn

\* When the ledger is destroyed "a Channel will now take over governance": a
\* node always has the state of the channel in its store, as the one or the
\* other, but in the middle of a handler.
EveryLedgerIsKept ==
  \A n \in Nodes : doing[n] = Idle => ledger[n] # None \/ channel[n] # None

(***************************************************************************)
(* The inductive invariant behind the safety properties: whatever a node   *)
(* stores, has in memory or has sent of a closing rests on a final state   *)
(* somebody has signed, and who has signed one has given up the ledger.    *)
(***************************************************************************)
HasSigned(n, turn) == [turn |-> turn, guaranteed |-> FALSE] \in signed[n]

ChannelInv(c) ==
  /\ c.guaranteed = FALSE
  /\ \A n \in c.final : HasSigned(n, FinalTurn(c))
  /\ ~ c.holdings => concluded # None

ObjectiveInv(n) ==
  /\ channel[n] # None
  /\ objective[n].status = "unapproved" => ~ objective[n].submitted
  /\ objective[n].status = "approved" => ledger[n] = None
  /\ objective[n].status = "completed" => concluded # None
  /\ objective[n].submitted => ledger[n] = None

NodeInv(n) ==
  /\ objective[n] # None => ObjectiveInv(n)
  /\ channel[n] # None => ChannelInv(channel[n])
  /\ owned[n] => objective[n] # None /\ ledger[n] = None
  /\ signed[n] # {} => ledger[n] = None

StoreInv == \A n \in Nodes : NodeInv(n)

WorkInv(n, w) ==
  /\ ChannelInv(w.channel)
  /\ w.step # "destroy" => ledger[n] = None
  /\ w.step \in {"destroy", "update"} /\ w.turn # 0 => HasSigned(Peer(n), w.turn)
  /\ w.step \in {"release", "send", "submit"} => HasSigned(n, FinalTurn(w.channel))
  /\ \A m \in w.messages :
       m.type = "final" /\ m.to = Peer(n) /\ HasSigned(n, m.turn)
  /\ w.step = "submit" => w.withdraw
  /\ w.withdraw => n = Leader /\ w.step \in {"release", "send", "submit"}

HandlersInv == \A n \in Nodes : doing[n] # Idle => WorkInv(n, doing[n])

NetworkInv ==
  \A m \in network :
    /\ m.type = "final" => HasSigned(Peer(m.to), m.turn)
    /\ m.type \in {"proposal", "countersigned"} => m.turn \in 1..MaxTurn

LogInv ==
  log = IF concluded = None THEN <<"deposited">>
                            ELSE <<"deposited", "concluded", "paid out">>

\* The withdrawal was sent, or is about to be.
IsSpent == withdrawals > 0 \/ (doing[Leader] # Idle /\ doing[Leader].withdraw)

\* Then it is on record, where the next crank will read it.
SubmittedInv ==
  /\ IsSpent =>
       /\ objective[Leader] # None /\ objective[Leader].submitted
       /\ doing[Leader] # Idle /\ doing[Leader].step \in {"destroy", "update", "crank"} =>
            doing[Leader].objective.submitted
  /\ doing[Leader] # Idle /\ doing[Leader].withdraw => withdrawals = 0

InductiveInv ==
  /\ TypeOK
  /\ StoreInv
  /\ HandlersInv
  /\ NetworkInv
  /\ LogInv
  /\ SubmittedInv
  /\ WithdrawnIsAgreed
  /\ WithdrawnOnce
=============================================================================
