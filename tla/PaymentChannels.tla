--------------------------- MODULE PaymentChannels ---------------------------
(***************************************************************************)
(* Nodes that fund, pay over and close virtual channels: the engine        *)
(* (node/engine/engine.ts) running virtual-fund and virtual-defund         *)
(* objectives on its store, its voucher manager and the message service.   *)
(*                                                                         *)
(* A node's run loop takes one event at a time - a request of the API, a   *)
(* message, a proposal that came to the head of a ledger's queue - and     *)
(* each action is one turn of the loop, except that the proposals of one   *)
(* message are handled one after the other.  An objective works on its     *)
(* Channel and its ledger copies in memory; what it makes of them is       *)
(* stored when the crank succeeds, and then its messages are sent.         *)
(*                                                                         *)
(* Any error but three makes checkError throw: the run loop ends, and the  *)
(* node does nothing until it is restarted.  Its store survives that.      *)
(***************************************************************************)
EXTENDS VirtualDefund, FiniteSets

CONSTANTS
  InitialBalance,  \* of each party of each ledger
  NoChannel,       \* a virtual channel that is not in the store
  NoVoucher,       \* a channel that is not registered with the voucher manager
  Kinds,           \* the kinds of objectives: "fund" and "defund"
  Refuses,         \* what the policy makers refuse: pairs of a node and a kind
  Together,        \* the sets of channels that clients may ask for together
  Closers,         \* the clients that ask to close: pairs of a node and a channel
  Patience,        \* what the clients wait for (see MayPay and MayClose)
  Lossy,           \* whether messages are lost and duplicated
  Crashes          \* the nodes that stop and restart

VARIABLES
  objective,   \* the objectives in each node's store
  channel,     \* the virtual channels in each node's store
  ledger,      \* each ledger's copies, by party
  owner,       \* channelToObjective: the kind of objective that owns a channel
  vouchers,    \* the largest voucher the voucher manager of each node has
  inbox,       \* the proposals of the message an engine is handling
  toProcess,   \* fromLedger: heads of proposal queues, to be handled
  engine,      \* "running", or the error that ended the run loop
  network,     \* the messages in flight
  asked,       \* history: the closings that clients have asked for
  signed       \* history: the states of each ledger its leader has signed

\* A voucher manager and a store tell what they do not have from what they have.
ASSUME BalanceAssumption   == InitialBalance \in [Ledgers -> [Parties -> Nat]]
ASSUME KindsAssumption     == Kinds = {"fund", "defund"}
ASSUME NoChannelAssumption == NoChannel \notin Channel
ASSUME NoVoucherAssumption == NoVoucher \notin Nat

stored == <<objective, channel, ledger, owner, vouchers, signed>>
vars   == <<stored, inbox, toProcess, engine, network, asked>>

Status == {"unknown", "unapproved", "approved", "rejected", "completed"}
Unknown == [status |-> "unknown", minimum |-> 0]

FirstState(l) ==
  [turnNum |-> 1,
   outcome |-> [balance    |-> InitialBalance[l],
                guarantees |-> [v \in Targets |-> NoGuarantee]]]

Init ==
  /\ objective = [n \in Nodes |-> [k \in Kinds |-> [v \in Targets |-> Unknown]]]
  /\ channel = [n \in Nodes |-> [v \in Targets |-> NoChannel]]
  /\ ledger = [l \in Ledgers |->
                 [p \in Parties |-> [current |-> FirstState(l), queue |-> << >>]]]
  /\ owner = [n \in Nodes |-> [v \in Targets |-> "none"]]
  /\ vouchers = [n \in Nodes |-> [v \in Targets |-> NoVoucher]]
  /\ inbox = [n \in Nodes |-> << >>]
  /\ toProcess = [n \in Nodes |-> << >>]
  /\ engine = [n \in Nodes |-> "running"]
  /\ network = {}
  /\ asked = {}
  /\ signed = [l \in Ledgers |-> {FirstState(l)}]

Idle(n) == engine[n] = "running" /\ inbox[n] = << >>

(***************************************************************************)
(* The store: getObjectiveById with populateChannelData, and setObjective. *)
(***************************************************************************)
InMemory(n, kind, v) ==
  [status  |-> objective[n][kind][v].status,
   minimum |-> objective[n][kind][v].minimum,
   channel |-> channel[n][v],
   copies  |-> [l \in Ledgers |-> ledger[l][Party(n, l)]]]

\* The objective, its virtual channel and its ledgers.
Save(n, kind, v, o) ==
  /\ objective' = [objective EXCEPT
       ![n][kind][v] = [status |-> o.status, minimum |-> o.minimum]]
  /\ channel' = [channel EXCEPT ![n][v] = o.channel]
  /\ ledger' = [l \in Ledgers |-> [p \in Parties |->
       IF Ends[l][p] = n THEN o.copies[l] ELSE ledger[l][p]]]
  /\ signed' = [l \in Ledgers |->
       IF Ends[l][Leader] = n THEN signed[l] \cup {Latest(o.copies[l])}
                              ELSE signed[l]]

\* An approved objective takes a channel nobody owns, and no other.
IsOwnedByOther(n, kind, v) == owner[n][v] \notin {"none", kind}

OwnerKeptWhenDone(n, kind, v, result) ==                               \* mutant
  IF result.o.status \in {"approved", "completed"} THEN kind ELSE owner[n][v]

OwnerAfter(n, kind, v, result) ==
  IF result.done THEN "none"
  ELSE IF result.o.status = "approved" THEN kind
  ELSE owner[n][v]

(***************************************************************************)
(* The end of a turn of the run loop: it goes on, or checkError throws.    *)
(* `left' is what is left to the node once it has taken up the event: the  *)
(* other proposals of the message, the heads to process, the network.  A   *)
(* run loop that has ended drops the first two.                            *)
(***************************************************************************)
Left(n) == [inbox |-> inbox[n], toProcess |-> toProcess[n], network |-> network]

GoOn(n, left, messages, heads) ==
  /\ inbox' = [inbox EXCEPT ![n] = left.inbox]
  /\ toProcess' = [toProcess EXCEPT ![n] = left.toProcess \o heads]
  /\ network' = left.network \cup messages
  /\ UNCHANGED engine

Stop(n, error, left) ==
  /\ engine' = [engine EXCEPT ![n] = error]
  /\ inbox' = [inbox EXCEPT ![n] = << >>]
  /\ toProcess' = [toProcess EXCEPT ![n] = << >>]
  /\ network' = left.network

\* The event changes nothing that is stored.
Ignore(n, left) == GoOn(n, left, {}, << >>) /\ UNCHANGED stored

Fail(n, error, left) == Stop(n, error, left) /\ UNCHANGED stored

(***************************************************************************)
(* attemptProgress of the objective o in memory, where `before' is what    *)
(* the store has of it.  When another objective owns the channel,          *)
(* setObjective throws after it has stored everything.                     *)
(***************************************************************************)
Crank(n, kind, v, o) ==
  IF kind = "fund" THEN FundCrank(n, v, o) ELSE DefundCrank(n, v, o)

AttemptProgress(n, kind, v, before, o, left) ==
  \E result \in {Crank(n, kind, v, o)} :
     \/ /\ result.error # "none"
        /\ Save(n, kind, v, before)
        /\ Stop(n, result.error, left)
        /\ UNCHANGED owner
     \/ /\ result.error = "none"
        /\ result.o.status = "approved" /\ IsOwnedByOther(n, kind, v)
        /\ Save(n, kind, v, result.o)
        /\ Stop(n, "cannot transfer ownership", left)
        /\ UNCHANGED owner
     \/ /\ result.error = "none"
        /\ ~ (result.o.status = "approved" /\ IsOwnedByOther(n, kind, v))
        /\ Save(n, kind, v, result.o)
        /\ owner' = [owner EXCEPT ![n][v] = OwnerAfter(n, kind, v, result)]
        /\ GoOn(n, left, result.messages, result.heads)
-----------------------------------------------------------------------------
(***************************************************************************)
(* Requests of the API: VirtualFundObjectiveRequest and                    *)
(* VirtualDefundObjectiveRequest, whose objectives are approved at once.   *)
(***************************************************************************)
NewFundObjective(n, v, status) ==
  [InMemory(n, "fund", v) EXCEPT !.status = status, !.channel = NewChannel]

Requested == {v \in Targets : objective[Alice(v)]["fund"][v] # Unknown}

RequestFund(v) ==
  LET n == Alice(v)
  IN /\ Idle(n)
     /\ \E together \in Together : Requested \cup {v} \subseteq together
     /\ vouchers[n][v] = NoVoucher
     /\ AttemptProgress(n, "fund", v, InMemory(n, "fund", v),
                        NewFundObjective(n, v, "approved"), Left(n))
     /\ vouchers' = [vouchers EXCEPT ![n][v] = 0]
     /\ UNCHANGED asked

HasFunded(n, v) == objective[n]["fund"][v].status = "completed"

\* Hasty clients call the API at any time.  Patient ones wait until their own
\* objective is complete, and Alice pays no more once she asked to close;
\* careful ones close when the objectives of all participants are complete.
MayPay(n, v) ==
  Patience # "hasty" => HasFunded(n, v) /\ <<n, v>> \notin asked

MayClose(n, v) ==
  /\ Patience # "hasty" => HasFunded(n, v)
  /\ Patience = "careful" => \A p \in Participants(v) : HasFunded(p, v)

\* What the voucher manager knows to be paid, and what a defund objective
\* takes from it as its minimumPaymentAmount.
Paid(n, v) == IF vouchers[n][v] = NoVoucher THEN 0 ELSE vouchers[n][v]

NoMinimum(n, v) == 0                                                   \* mutant

MinimumPayment(n, v) == Paid(n, v)

NewDefundObjective(n, v, status) ==
  [InMemory(n, "defund", v) EXCEPT !.status = status,
                                   !.minimum = MinimumPayment(n, v)]

RequestDefund(n, v) ==
  /\ Idle(n)
  /\ n \in Participants(v) /\ <<n, v>> \in Closers
  /\ <<n, v>> \notin asked
  /\ MayClose(n, v)
  /\ IF channel[n][v] = NoChannel
       THEN Fail(n, "could not find channel", Left(n))
       ELSE /\ AttemptProgress(n, "defund", v, InMemory(n, "defund", v),
                               NewDefundObjective(n, v, "approved"), Left(n))
            /\ UNCHANGED vouchers
  /\ asked' = asked \cup {<<n, v>>}

(***************************************************************************)
(* handlePaymentRequest.                                                   *)
(***************************************************************************)
Pay(v, amount) ==
  LET n == Alice(v)
  IN /\ Idle(n)
     /\ vouchers[n][v] # NoVoucher
     /\ Paid(n, v) + amount <= Deposit[v].a0
     /\ MayPay(n, v)
     /\ vouchers' = [vouchers EXCEPT ![n][v] = @ + amount]
     /\ network' = network \cup
          {[type |-> "voucher", v |-> v, from |-> n, to |-> Bob(v),
            paid |-> Paid(n, v) + amount]}
     /\ UNCHANGED <<objective, channel, ledger, owner, signed,
                    inbox, toProcess, engine, asked>>
-----------------------------------------------------------------------------
(***************************************************************************)
(* Messages.  A message is taken up by an idle engine; the network may     *)
(* keep a copy of it when Lossy.                                           *)
(***************************************************************************)
AfterTaking(m) ==
  {left \in {Left(m.to), [Left(m.to) EXCEPT !.network = @ \ {m}]} :
     Idle(m.to) /\ (m \in left.network => Lossy)}

RejectionNotice(n, kind, v) ==
  {[type |-> "rejection", kind |-> kind, v |-> v, from |-> n, to |-> p] :
     p \in Participants(v) \ {n}}

\* The policy maker refuses: the objective is rejected and the others told.
Reject(n, kind, v, o, left) ==
  /\ <<n, kind>> \in Refuses
  /\ Save(n, kind, v, [o EXCEPT !.status = "rejected"])
  /\ GoOn(n, left, RejectionNotice(n, kind, v), << >>)
  /\ UNCHANGED owner

\* update of the approved objective, and attemptProgress.
UpdateFund(n, v, before, m, left) ==
  AttemptProgress(n, "fund", v, before,
    [before EXCEPT !.status = "approved", !.channel = FundUpdate(v, @, m)], left)

\* A request for the final state is "updated" to an empty objective, which the
\* crank cannot clone.
UpdateDefund(n, v, before, m, left) ==
  LET approved == [before EXCEPT !.status = "approved"]
      updates  == m.type = "final" /\ DefundUpdates(n, v, approved, m)
  IN \/ /\ updates
        /\ AttemptProgress(n, "defund", v, before, DefundUpdate(approved, m), left)
     \/ /\ ~ updates
        /\ Save(n, "defund", v, before)
        /\ Stop(n, IF m.type = "request" THEN "empty objective"
                                         ELSE "outcome failed validation", left)
        /\ UNCHANGED owner

Update(n, kind, v, before, m, left) ==
  IF kind = "fund" THEN UpdateFund(n, v, before, m, left)
                   ELSE UpdateDefund(n, v, before, m, left)

KindOf(m) == IF m.type \in {"prefund", "postfund"} THEN "fund" ELSE "defund"

\* constructObjectiveFromMessage: whether it throws, and what the store has of
\* the objective then.
CanConstruct(n, kind, v) ==
  IF kind = "fund" THEN n # Alice(v) /\ vouchers[n][v] = NoVoucher
                   ELSE channel[n][v] # NoChannel

Constructed(n, kind, v) ==
  IF kind = "fund" THEN NewFundObjective(n, v, "unapproved")
                   ELSE NewDefundObjective(n, v, "unapproved")

Registered(n, kind, v) ==
  IF kind = "fund" THEN [vouchers EXCEPT ![n][v] = 0] ELSE vouchers

\* The first payload of an objective.
ConstructObjective(n, kind, v, m, left) ==
  LET o == Constructed(n, kind, v)
  IN /\ objective[n][kind][v] = Unknown
     /\ CanConstruct(n, kind, v)
     /\ \/ Update(n, kind, v, o, m, left)
        \/ Reject(n, kind, v, o, left)
     /\ vouchers' = Registered(n, kind, v)

CannotConstruct(n, kind, v, left) ==
  /\ objective[n][kind][v] = Unknown
  /\ ~ CanConstruct(n, kind, v)
  /\ Fail(n, "error constructing objective from message", left)

\* The node stops in the course of that: the channel is registered and the
\* objective not stored, or the objective is stored and not judged.
StopConstructing(n, kind, v, left) ==
  /\ n \in Crashes
  /\ objective[n][kind][v] = Unknown
  /\ CanConstruct(n, kind, v)
  /\ \/ Save(n, kind, v, InMemory(n, kind, v))
     \/ Save(n, kind, v, Constructed(n, kind, v))
  /\ Stop(n, "crash", left)
  /\ vouchers' = Registered(n, kind, v)
  /\ UNCHANGED owner

\* A payload of an objective that is in progress, or waits to be judged.
UpdateObjective(n, kind, v, m, left) ==
  LET o == InMemory(n, kind, v)
  IN /\ o.status \in {"unapproved", "approved"}
     /\ \/ Update(n, kind, v, o, m, left)
        \/ o.status = "unapproved" /\ Reject(n, kind, v, o, left)
     /\ UNCHANGED vouchers

IgnorePayload(n, kind, v, left) ==
  /\ objective[n][kind][v].status \in {"completed", "rejected"}
  /\ Ignore(n, left)

ReceiveObjectivePayload(m) ==
  LET n == m.to
      kind == KindOf(m)
  IN /\ m.type \in {"prefund", "postfund", "request", "final"}
     /\ \E left \in AfterTaking(m) :
          \/ ConstructObjective(n, kind, m.v, m, left)
          \/ CannotConstruct(n, kind, m.v, left)
          \/ StopConstructing(n, kind, m.v, left)
          \/ UpdateObjective(n, kind, m.v, m, left)
          \/ IgnorePayload(n, kind, m.v, left)
     /\ UNCHANGED asked

\* The proposals of a message are handled in the order they have in it.
ReceiveProposals(m) ==
  LET entries == [i \in DOMAIN m.proposals |->
                    [ledger |-> m.ledger, sp |-> m.proposals[i]]]
  IN /\ m.type = "proposals"
     /\ \E left \in AfterTaking(m) :
          GoOn(m.to, [left EXCEPT !.inbox = entries], {}, << >>)
     /\ UNCHANGED <<stored, asked>>

ProposalKind(proposal) == IF proposal.type = "add" THEN "fund" ELSE "defund"

\* receiveProposal of an objective.  The connection of a virtual-fund objective
\* swallows whatever its ledger throws; a virtual-defund objective throws.
Incorporated(n, l, o, sp) ==
  [o EXCEPT !.copies[l] = Received(Party(n, l), @, sp)]

CanIncorporateDefund(n, l, o, sp) == Receives(Party(n, l), o.copies[l], sp)

ReceiveProposal(n) ==
  /\ engine[n] = "running"
  /\ inbox[n] # << >>
  /\ LET sp   == Head(inbox[n]).sp
         l    == Head(inbox[n]).ledger
         v    == sp.proposal.target
         kind == ProposalKind(sp.proposal)
         o    == InMemory(n, kind, v)
         left == [Left(n) EXCEPT !.inbox = Tail(@)]
         throws == kind = "defund" /\ ~ CanIncorporateDefund(n, l, o, sp)
     IN \/ o.status = "unknown" /\ Fail(n, "no such objective", left)
        \/ o.status = "completed" /\ Ignore(n, left)
        \/ /\ o.status \notin {"unknown", "completed"} /\ throws
           /\ Fail(n, "error incorporating proposal", left)
        \/ /\ o.status \notin {"unknown", "completed"} /\ ~ throws
           /\ AttemptProgress(n, kind, v, o, Incorporated(n, l, o, sp), left)
           /\ UNCHANGED vouchers
  /\ UNCHANGED asked

\* handleProposal: the proposal at the head of a follower's queue.
ProcessHead(n) ==
  /\ Idle(n)
  /\ toProcess[n] # << >>
  /\ LET v    == Head(toProcess[n]).target
         kind == ProposalKind(Head(toProcess[n]))
         o    == InMemory(n, kind, v)
         left == [Left(n) EXCEPT !.toProcess = Tail(@)]
     IN \/ o.status = "unknown" /\ Fail(n, "no such objective", left)
        \/ o.status = "completed" /\ Ignore(n, left)
        \/ /\ o.status \notin {"unknown", "completed"}
           /\ AttemptProgress(n, kind, v, o, o, left)
           /\ UNCHANGED vouchers
  /\ UNCHANGED asked

\* A rejection notice, which even a completed objective obeys.
ReceiveRejection(m) ==
  LET n == m.to
      o == InMemory(n, m.kind, m.v)
  IN /\ m.type = "rejection"
     /\ \E left \in AfterTaking(m) :
          \/ o.status = "unknown" /\ Fail(n, "no such objective", left)
          \/ o.status = "rejected" /\ Ignore(n, left)
          \/ /\ o.status \notin {"unknown", "rejected"}
             /\ Save(n, m.kind, m.v, [o EXCEPT !.status = "rejected"])
             /\ GoOn(n, left, {}, << >>)
             /\ UNCHANGED <<owner, vouchers>>
     /\ UNCHANGED asked

LargerOf(a, b) == IF a > b THEN a ELSE b

ReceiveVoucher(m) ==
  LET n == m.to
  IN /\ m.type = "voucher"
     /\ \E left \in AfterTaking(m) :
          \/ vouchers[n][m.v] = NoVoucher /\ Fail(n, "channel not registered", left)
          \/ /\ vouchers[n][m.v] # NoVoucher
             /\ vouchers' = [vouchers EXCEPT ![n][m.v] = LargerOf(@, m.paid)]
             /\ IF channel[n][m.v] = NoChannel
                  THEN Stop(n, "could not fetch channel for voucher", left)
                  ELSE GoOn(n, left, {}, << >>)
             /\ UNCHANGED <<objective, channel, ledger, owner, signed>>
     /\ UNCHANGED asked
-----------------------------------------------------------------------------
(***************************************************************************)
(* The message service and the process.  A node that is started again has  *)
(* its store, and none of the messages and heads it had taken up.          *)
(***************************************************************************)
Lose(m) ==
  /\ Lossy
  /\ network' = network \ {m}
  /\ UNCHANGED <<stored, inbox, toProcess, engine, asked>>

Restart(n) ==
  /\ n \in Crashes
  /\ engine[n] # "running" \/ inbox[n] # << >> \/ toProcess[n] # << >>
  /\ engine' = [engine EXCEPT ![n] = "running"]
  /\ inbox' = [inbox EXCEPT ![n] = << >>]
  /\ toProcess' = [toProcess EXCEPT ![n] = << >>]
  /\ UNCHANGED <<stored, network, asked>>

ReceiveMessage(m) ==
  \/ ReceiveObjectivePayload(m)
  \/ ReceiveProposals(m)
  \/ ReceiveRejection(m)
  \/ ReceiveVoucher(m)

Next ==
  \/ \E v \in Targets : RequestFund(v)
  \/ \E n \in Nodes, v \in Targets : RequestDefund(n, v)
  \/ \E v \in Targets, amount \in 1..MaxAmount : Pay(v, amount)
  \/ \E m \in network : ReceiveMessage(m)
  \/ \E n \in Nodes : ReceiveProposal(n)
  \/ \E n \in Nodes : ProcessHead(n)
  \/ \E m \in network : Lose(m)
  \/ \E n \in Nodes : Restart(n)

Spec == Init /\ [][Next]_vars

(***************************************************************************)
(* The run loop of a running engine takes turns as long as there is a      *)
(* message for it, a proposal of one, or a head pushed to fromLedger (run  *)
(* selects among its channels).  Nothing makes a client call the API.      *)
(* Fairness is WF_vars(\E n \in Nodes : Turn(n)) with HasWork, the states   *)
(* in which such a turn is enabled, in the place of ENABLED.               *)
(***************************************************************************)
Turn(n) ==
  \/ \E m \in network : m.to = n /\ ReceiveMessage(m)
  \/ ReceiveProposal(n)
  \/ ProcessHead(n)

HasWork(n) ==
  /\ engine[n] = "running"
  /\ (\E m \in network : m.to = n) \/ inbox[n] # << >> \/ toProcess[n] # << >>

Fairness ==
  \/ []<>(\A n \in Nodes : ~ HasWork(n))
  \/ []<><<\E n \in Nodes : Turn(n)>>_vars

FairSpec == Spec /\ Fairness
-----------------------------------------------------------------------------
\* What ends a run loop.
Errors ==
  {"crash", "errNotApproved", "error updating ledger funding",
   "no signature from Alice", "cannot transfer ownership", "could not find channel",
   "empty objective", "outcome failed validation",
   "error constructing objective from message", "no such objective",
   "error incorporating proposal", "channel not registered",
   "could not fetch channel for voucher"}

Payloads ==
  [type : {"prefund", "postfund", "request", "final", "voucher"}, v : Targets,
   from : Nodes, to : Nodes, paid : Nat]
Rejections ==
  [type : {"rejection"}, kind : Kinds, v : Targets, from : Nodes, to : Nodes]
Proposals ==
  [type : {"proposals"}, ledger : Ledgers, to : Nodes,
   proposals : Seq(SignedProposal)]

\* Every variable holds a value of its kind.
TypeOK ==
  /\ objective \in [Nodes -> [Kinds -> [Targets -> [status : Status, minimum : Nat]]]]
  /\ channel \in [Nodes -> [Targets -> Channel \cup {NoChannel}]]
  /\ ledger \in [Ledgers -> [Parties -> Copy]]
  /\ owner \in [Nodes -> [Targets -> Kinds \cup {"none"}]]
  /\ vouchers \in [Nodes -> [Targets -> Nat \cup {NoVoucher}]]
  /\ inbox \in [Nodes -> Seq([ledger : Ledgers, sp : SignedProposal])]
  /\ toProcess \in [Nodes -> Seq(Proposal)]
  /\ engine \in [Nodes -> Errors \cup {"running"}]
  /\ network \subseteq Payloads \cup Rejections \cup Proposals
  /\ asked \subseteq Nodes \X Targets
  /\ signed \in [Ledgers -> SUBSET Vars]

\* What node n has of v when it has v.
Has(n, v) == channel[n][v] # NoChannel
HasSigned(n, v) == Has(n, v) /\ n \in channel[n][v].prefund
HasClosed(n, v, paid) ==
  /\ Has(n, v)
  /\ channel[n][v].final # NoFinal
  /\ channel[n][v].final.paid = paid
  /\ n \in channel[n][v].final.signed

\* A ledger is asked to fund a virtual channel only once every participant,
\* those at the other end of the path included, has agreed to it by signing
\* the prefund state (virtualfund.ts crank): whoever refused or never heard of
\* the channel can rely on nobody's money being locked for it.
GuaranteesAreAgreed ==
  \A l \in Ledgers, p \in Parties, v \in Targets :
    \/ CopyIncludes(ledger[l][p], v)
    \/ \E i \in 1..Len(ledger[l][p].queue) : ledger[l][p].queue[i].proposal.target = v
    => \A n \in Participants(v) : HasSigned(n, v)

\* A channel whose postfund state somebody can enforce is funded by a guarantee
\* in both copies of every ledger on its path, until all participants have
\* signed one and the same final state: although intermediaries do not wait
\* for the postfund round, and sides are funded and defunded one by one.
IsEnforceable(v) ==
  \E n \in Nodes : Has(n, v) /\ channel[n][v].postfund = Participants(v)

IsClosedByAll(v) ==
  \E paid \in 0..Deposit[v].a0 : \A n \in Participants(v) : HasClosed(n, v, paid)

EnforceableIsFunded ==
  \A v \in Targets : IsEnforceable(v) =>
    \/ IsClosedByAll(v)
    \/ \A l \in Hops(v), p \in Parties : CopyIncludes(ledger[l][p], v)

\* Whenever none of a node's ledgers has a guarantee, in its own copies its
\* balances add up to what it started with, less what its closed channels made
\* it pay as Alice, plus what they earned it as Bob: an intermediary gets back
\* on one side whatever it gives on the other.
OwnBalances(n, balance(_, _)) ==
  SumFunction([l \in {k \in Ledgers : \E p \in Parties : Ends[k][p] = n} |->
                 balance(l, Party(n, l))])

Earned(n, v) ==
  IF ~ Has(n, v) \/ channel[n][v].postfund = {} \/ channel[n][v].final = NoFinal THEN 0
  ELSE IF n = Alice(v) THEN - channel[n][v].final.paid
  ELSE IF n = Bob(v) THEN channel[n][v].final.paid
  ELSE 0

BooksBalance ==
  \A n \in Nodes :
    (\A l \in Ledgers, v \in Targets :
       Ends[l][Party(n, l)] = n => ~ CopyIncludes(ledger[l][Party(n, l)], v))
    => LET now(l, p)    == ledger[l][p].current.outcome.balance[p]
           before(l, p) == InitialBalance[l][p]
       IN OwnBalances(n, now) =
            OwnBalances(n, before)
              + SumFunction([v \in {u \in Targets : n \in Participants(u)} |->
                               Earned(n, v)])

\* Bob never signs a final state that pays him less than a voucher he holds
\* (validateFinalOutcome), whatever the order in which vouchers and the final
\* state reach him.
BobIsPaid ==
  \A v \in Targets : \A paid \in 0..Deposit[v].a0 :
    HasClosed(Bob(v), v, paid) => Paid(Bob(v), v) <= paid

\* When Bob signs a final state, it pays him at least the largest voucher he
\* holds at that moment, and not only the one he held when his objective was
\* created (minimumPaymentAmount).
BobSignsForWhatHeHolds ==
  [][\A v \in Targets : \A paid \in Amounts :
       HasClosed(Bob(v), v, paid)' /\ ~ HasClosed(Bob(v), v, paid)
         => Paid(Bob(v), v) <= paid]_vars

\* A participant that asks Alice for the final state never makes her engine
\* stop: once she has the objective, nothing else is done with the request.
RequestsAreHarmless == \A n \in Nodes : engine[n] # "empty objective"

\* Whatever signatures a final state has when it arrives, looking for Alice's
\* does not throw: a missing signature is zero-valued.
MissingSignaturesAreZero == \A n \in Nodes : engine[n] # "no signature from Alice"

\* No engine stops: however the rounds of different channels and ledgers
\* interleave, no handler meets a message, a proposal, an owner or a balance
\* that makes it throw.
NobodyStops == \A n \in Nodes : engine[n] = "running"

\* When the clients wait (they are not hasty), and an engine does stop, one of
\* these has happened: it was told of an objective somebody rejected before it
\* knew of it; a peer closed a channel while its own objective still funds it; it
\* crashed between registering a channel and storing its objective; the channels
\* asked for need more than a ledger it leads was given; its client closed a
\* channel it does not have; it is Alice and another participant asked for the
\* final state; or, in a longer path, another participant's final state came
\* before Alice's.  Nothing else in the protocols' messages, in any order, makes
\* a handler throw.
DepositFrom(p, v, l) == IF p = LeftParty(v, l) THEN Deposit[v].a0 ELSE Deposit[v].b0

IsShort(l) ==
  LET asking == {v \in Targets : /\ l \in Hops(v)
                                 /\ objective[Ends[l][Leader]]["fund"][v] # Unknown}
  IN \E p \in Parties :
       InitialBalance[l][p] < SumFunction([v \in asking |-> DepositFrom(p, v, l)])

IsExplained(n, error) ==
  \/ error \in {"running", "crash"}
  \/ /\ error = "no such objective"
     /\ \E m \in Nodes, k \in Kinds, v \in Targets :
          objective[m][k][v].status = "rejected"
  \/ /\ error = "cannot transfer ownership"
     /\ \E v \in Targets, m \in Nodes, paid \in Amounts :
          m # n /\ objective[n]["fund"][v].status = "approved" /\ HasClosed(m, v, paid)
  \/ error = "error constructing objective from message" /\ n \in Crashes
  \/ /\ error = "error updating ledger funding"
     /\ \E l \in Ledgers : Ends[l][Leader] = n /\ IsShort(l)
  \/ /\ error = "no signature from Alice"
     /\ \E v \in Targets : /\ Len(Path[v]) > 2
                            /\ Has(n, v) /\ channel[n][v].final = NoFinal
  \/ /\ error = "could not find channel"
     /\ \E v \in Targets : <<n, v>> \in asked /\ ~ Has(n, v)
  \/ /\ error = "empty objective"
     /\ \E v \in Targets, m \in Nodes \ {n} : n = Alice(v) /\ <<m, v>> \in asked

StopsAreExplained ==
  Patience # "hasty" => \A n \in Nodes : IsExplained(n, engine[n])

\* When nothing is left to send or to handle, every requested channel is funded
\* at every participant: no proposal is left in a queue because the turn in
\* which its objective could have accepted it has passed.
IsQuiet ==
  /\ network = {}
  /\ \A n \in Nodes : engine[n] = "running" /\ inbox[n] = << >> /\ toProcess[n] = << >>

QuietIsFunded ==
  IsQuiet => \A v \in Requested : \A n \in Participants(v) : HasFunded(n, v)

\* Each ledger, shared by channels whose objectives interleave on it, keeps
\* the promise of a ledger channel: one history of lawful states.
History(l) ==
  [t \in {s.turnNum : s \in signed[l]} |-> CHOOSE s \in signed[l] : s.turnNum = t]

Consensus(l) == [p \in Parties |-> ledger[l][p].current]

Promise(l) == INSTANCE LedgerPromise WITH
                InitialVars <- FirstState(l),
                history     <- History(l),
                consensus   <- Consensus(l)

LedgersKeepPromise ==
  /\ \A l \in Ledgers : Promise(l)!Init
  /\ [][\A l \in Ledgers :
         UNCHANGED <<signed[l], Consensus(l)>> \/ Promise(l)!Next]_vars

\* When messages arrive, requested channels end up funded at every node, unless
\* an engine stops.  (Requests are never withdrawn, so it is enough that what
\* was requested is settled again and again; the same for closings.)
SomeEngineStopped == \E n \in Nodes : engine[n] # "running"

EveryRequestIsSettled ==
  []<>(\/ \A v \in Requested : \A n \in Participants(v) : HasFunded(n, v)
       \/ SomeEngineStopped)

\* When messages arrive, a closing that is asked for is carried out: every
\* participant completes it and no copy of a ledger funds the channel any more,
\* unless an engine stops.
IsClosed(v) ==
  /\ \A n \in Participants(v) : objective[n]["defund"][v].status = "completed"
  /\ \A l \in Hops(v), p \in Parties : ~ CopyIncludes(ledger[l][p], v)

EveryCloseIsSettled ==
  []<>((\A n \in Nodes, v \in Targets : <<n, v>> \in asked => IsClosed(v))
         \/ SomeEngineStopped)
-----------------------------------------------------------------------------
(***************************************************************************)
(* The inductive invariant of the proofs: what signatures, proposals and   *)
(* messages say of the stores of those who made them.  Every conjunct      *)
(* stays true while the message is on its way, because a channel in a      *)
(* store only ever gets more signatures.                                   *)
(***************************************************************************)
Agreed(v) == \A n \in Participants(v) : HasSigned(n, v)

\* What allows a proposal to be made.
IsLawful(proposal) ==
  /\ Agreed(proposal.target)
  /\ proposal.type = "remove" => IsClosedByAll(proposal.target)

\* What node n promises with its signature on the postfund state.
IsKept(n, v) ==
  \/ IsClosedByAll(v)
  \/ \A l \in LedgersOf(n, v) : CopyIncludes(ledger[l][Party(n, l)], v)

IsSignedFinal(v, final) ==
  /\ final.paid <= Deposit[v].a0
  /\ \A p \in final.signed : HasClosed(p, v, final.paid)

\* A node has the channel of every objective it knows, and has registered it.
KnownInv ==
  \A n \in Nodes, v \in Targets :
    /\ \A k \in Kinds :
         IF objective[n][k][v].status = "unknown" THEN objective[n][k][v] = Unknown
                                                  ELSE Has(n, v)
    /\ Has(n, v) => vouchers[n][v] # NoVoucher

\* Nobody promises more than Alice has.
BoundedInv ==
  \A n \in Nodes, v \in Targets :
    /\ Paid(n, v) <= Deposit[v].a0
    /\ \A k \in Kinds : objective[n][k][v].minimum <= Deposit[v].a0

SignaturesInv ==
  \A n \in Nodes, v \in Targets : Has(n, v) =>
    /\ \A p \in channel[n][v].prefund : HasSigned(p, v)
    /\ \A p \in channel[n][v].postfund : IsKept(p, v)
    /\ channel[n][v].final # NoFinal => IsSignedFinal(v, channel[n][v].final)

CopiesInv ==
  \A l \in Ledgers, p \in Parties :
    /\ \A v \in Targets : CopyIncludes(ledger[l][p], v) => Agreed(v)
    /\ \A proposal \in ProposalsOf(ledger[l][p].queue) : IsLawful(proposal)

\* The leader's queue is its own proposals, each checked when it was made.
LeaderInv ==
  \A l \in Ledgers : Chain(ledger[l][Leader].current, ledger[l][Leader].queue)

InboxInv ==
  \A n \in Nodes : \A i \in 1..Len(inbox[n]) : IsLawful(inbox[n][i].sp.proposal)

IsTrue(m) ==
  /\ m \in Payloads => m.paid <= Deposit[m.v].a0
  /\ m.type = "prefund" => HasSigned(m.from, m.v)
  /\ m.type = "postfund" => IsKept(m.from, m.v)
  /\ m.type = "final" => HasClosed(m.from, m.v, m.paid)
  /\ m.type = "proposals" =>
       \A proposal \in ProposalsOf(m.proposals) : IsLawful(proposal)

MessagesInv == \A m \in network : IsTrue(m)

FundingInv ==
  /\ TypeOK /\ KnownInv /\ BoundedInv /\ SignaturesInv /\ CopiesInv
  /\ LeaderInv /\ InboxInv /\ MessagesInv

\* Clients that wait, and leave it to Alice to close, never make her sign less
\* than she has promised: whatever final state there is pays what she paid last,
\* and once she has asked to close she pays no more.
ClientsWait ==
  /\ Patience # "hasty"
  /\ \A n \in Nodes, v \in Targets : <<n, v>> \in Closers => n = Alice(v)

IsWhatAlicePaid(v, paid) ==
  <<Alice(v), v>> \in asked /\ paid = Paid(Alice(v), v)

FinalInv ==
  \A n \in Nodes, v \in Targets :
    Has(n, v) /\ channel[n][v].final # NoFinal =>
      IsWhatAlicePaid(v, channel[n][v].final.paid)

\* Only Alice has a defund objective without a final state.
DefundInv ==
  \A n \in Nodes, v \in Targets :
    IF n = Alice(v)
      THEN objective[n]["defund"][v].status # "unknown" =>
             IsWhatAlicePaid(v, objective[n]["defund"][v].minimum)
      ELSE objective[n]["defund"][v].status \in {"approved", "completed"} =>
             channel[n][v].final # NoFinal

VoucherInv ==
  /\ \A v \in Targets : Paid(Bob(v), v) <= Paid(Alice(v), v)
  /\ \A m \in network :
       /\ m.type = "voucher" => m.to # Alice(m.v) /\ m.paid <= Paid(Alice(m.v), m.v)
       /\ m.type = "final" => IsWhatAlicePaid(m.v, m.paid)
       /\ m.type # "request"

PaidInv == FundingInv /\ FinalInv /\ DefundInv /\ VoucherInv

\* A ledger's states have each its turn, and the leader's latest is the last.
IsHistory(l) ==
  \A s \in signed[l] :
    /\ s.turnNum <= Latest(ledger[l][Leader]).turnNum
    /\ \A t \in signed[l] : s.turnNum = t.turnNum => s = t

\* A party's copy is a piece of that history.
IsPiece(l, copy) ==
  /\ Chain(copy.current, copy.queue)
  /\ \A i \in 0..Len(copy.queue) : StateAt(copy.current, copy.queue, i) \in signed[l]

\* The state says of the proposal's target what the objective waits for.
IsSettled(l, state, proposal) ==
  IF proposal.type = "add"
    THEN Includes(state, proposal.target, ExpectedGuarantee(proposal.target, l))
    ELSE ~ IncludesTarget(state, proposal.target)

\* What a party sent of its ledger: the leader has signed that state, and the
\* follower has accepted the states it countersigned, each for the objective
\* that waits for it.
IsVouched(l, sp) ==
  /\ sp.signature.signed \in signed[l]
  /\ sp.signature.signer = Follower =>
       /\ sp.signature.signed.turnNum <= ledger[l][Follower].current.turnNum
       /\ IsSettled(l, sp.signature.signed, sp.proposal)

HistoryInv ==
  \A l \in Ledgers :
    IsHistory(l) /\ \A p \in Parties : IsPiece(l, ledger[l][p])

VouchedInv ==
  /\ \A m \in network : m.type = "proposals" =>
       \A i \in 1..Len(m.proposals) : IsVouched(m.ledger, m.proposals[i])
  /\ \A n \in Nodes : \A i \in 1..Len(inbox[n]) :
       IsVouched(inbox[n][i].ledger, inbox[n][i].sp)

PromiseInv == FundingInv /\ HistoryInv /\ VouchedInv

\* When Alice has asked to close v, everyone has signed its postfund state, and
\* nobody but Bob has any more to do to fund it.
HasAsked(v) == <<Alice(v), v>> \in asked

IsPostfunded(n, v) ==
  /\ Has(n, v) /\ n \in channel[n][v].postfund
  /\ IsIntermediary(n, v) => objective[n]["fund"][v].status \in {"completed", "rejected"}

IsPostfundedByAll(v) ==
  Has(Alice(v), v) /\ Participants(v) \subseteq channel[Alice(v)][v].postfund

PostfundInv ==
  /\ \A n \in Nodes, v \in Targets : Has(n, v) =>
       \A p \in channel[n][v].postfund : IsPostfunded(p, v)
  /\ \A m \in network : m.type = "postfund" => IsPostfunded(m.from, m.v)
  /\ \A v \in Targets :
       /\ HasFunded(Alice(v), v) => IsPostfundedByAll(v)
       /\ HasAsked(v) => /\ IsPostfundedByAll(v)
                         /\ objective[Alice(v)]["fund"][v].status \in {"completed", "rejected"}

\* The states of a ledger from the leader's consensus on, and of those the ones
\* the follower has accepted.
Later(l) == {s \in signed[l] : ledger[l][Leader].current.turnNum <= s.turnNum}

Accepted(l) == {s \in Later(l) : s.turnNum <= ledger[l][Follower].current.turnNum}

\* What v has made of a party's balance in a state of ledger l: it takes the
\* deposit, and in the end gives it back, more or less what Alice paid.
Net(l, p, v, state) ==
  IF IncludesTarget(state, v) THEN - DepositFrom(p, v, l)
  ELSE IF l \notin Hops(v) \/ ~ HasAsked(v) THEN 0
  ELSE IF p = LeftParty(v, l) THEN - Paid(Alice(v), v)
  ELSE Paid(Alice(v), v)

IsBalanced(l, state) ==
  \A p \in Parties :
    state.outcome.balance[p] =
      InitialBalance[l][p] + SumFunction([v \in Targets |-> Net(l, p, v, state)])

\* A guarantee is the one its channel expects.
IsExpected(l) ==
  \A s \in signed[l], v \in Targets : IncludesTarget(s, v) =>
    l \in Hops(v) /\ Includes(s, v, ExpectedGuarantee(v, l))

\* It stays until Alice asks to close its channel.
IsLasting(l) ==
  \A s, t \in Later(l), v \in Targets :
    s.turnNum <= t.turnNum /\ IncludesTarget(s, v) /\ ~ HasAsked(v) => IncludesTarget(t, v)

\* After that it is not added again; if Bob leads and proposes it, he finds
\* nobody to accept it.
IsFinished(l) ==
  \A s, t \in Later(l), v \in Targets :
    /\ s.turnNum <= t.turnNum /\ IncludesTarget(t, v) /\ HasAsked(v)
    /\ Ends[l][Leader] = Bob(v) => t \in Accepted(l)
    => IncludesTarget(s, v)

LedgerBooks(l) ==
  /\ ledger[l][Leader].current.turnNum <= ledger[l][Follower].current.turnNum
  /\ IsExpected(l) /\ IsLasting(l) /\ IsFinished(l)
  /\ \A s \in Accepted(l) : IsBalanced(l, s)

BooksInv == PaidInv /\ PromiseInv /\ PostfundInv /\ \A l \in Ledgers : LedgerBooks(l)
=============================================================================
