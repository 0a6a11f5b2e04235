------------------------------ MODULE Queries ------------------------------
(***************************************************************************)
(* What a node answers about its channels while its engine works.         *)
(*                                                                         *)
(* The engine's handlers write to the store one key at a time: a Store is  *)
(* a family of tables, and setObjective puts the objective, each related   *)
(* channel and the owner one after the other.  The queries of the API read *)
(* the same store one key at a time, between those writes, and the process *)
(* may stop between any two of them; a DurableStore keeps what was         *)
(* written.  The engine is the only writer, and runs one handler at a      *)
(* time, so what a handler writes follows from the store it starts in.     *)
(* (The API's createVoucher also writes vouchers: that is Vouchers.)       *)
(*                                                                         *)
(* A handler also makes updates of the channels, which its engine event    *)
(* takes to the API: they are written here to a table of the latest ones.  *)
(* createVoucher tells its listeners what a query of the payment channel   *)
(* answers it: the query "payment" stands for that too.                    *)
(*                                                                         *)
(* One ledger, and the payment channels it funds, at one node, over the    *)
(* whole of their lives; what the counterparties do is left open: a        *)
(* handler runs when the objective's state allows it.  The protocols       *)
(* themselves are DirectFund, DirectDefund and PaymentChannels.            *)
(***************************************************************************)
EXTENDS Naturals, Sequences, FiniteSets, SequencesExt

CONSTANTS
  Ledger,        \* the ledger channel
  Payments,      \* the payment channels it funds
  None,          \* a key that a table does not have
  Idle,          \* no query
  Total,         \* what the payer of a payment channel puts in
  Intermediary,  \* whether the node is in the middle of the payment channels
  Closes,        \* how the ledger may be closed: "requested", "approved", "refused"
  Kinds,         \* the queries clients make
  Crashes        \* whether the process may stop

ASSUME LedgerAssumption == Ledger \notin Payments
ASSUME TotalAssumption == Total \in Nat
ASSUME ClosesAssumption == Closes \subseteq {"requested", "approved", "refused"}
ASSUME KindsAssumption == Kinds \subseteq {"ledger", "ledgers", "payment", "payments"}

ChannelIds == {Ledger} \cup Payments
Amount == 0 .. Total

DirectFunding == <<"DirectFunding", Ledger>>
DirectDefunding == <<"DirectDefunding", Ledger>>
VirtualFund(v) == <<"VirtualFund", v>>
VirtualDefund(v) == <<"VirtualDefund", v>>

Objectives == {DirectFunding, DirectDefunding}
                \cup {VirtualFund(v) : v \in Payments}
                \cup {VirtualDefund(v) : v \in Payments}

\* A Channel: who signed the postfund state, the final state and its outcome.
Channel == [postfund : {"none", "mine", "all"}, final : {"none", "mine", "all"},
            paid : Amount]

\* A ConsensusChannel: what it funds, and whether it is past its first turn.
Consensus == [funds : SUBSET Payments, updated : BOOLEAN]

Statuses == <<"Proposed", "Open", "Closing", "Complete">>
Status == Range(Statuses)
Info == [of : ChannelIds, status : Status, paid : Amount, remaining : Amount]

\* The status of an objective.
Standing == {"unapproved", "rejected", "approved", "completed"}

ASSUME NoneAssumption ==
  None \notin Standing \cup Channel \cup Consensus \cup Objectives \cup Amount \cup Info

VARIABLES
  store,     \* the tables of the store, and the engine's latest updates of channels
  todo,      \* the writes the current handler has left
  query,     \* the query a client waits for
  witness    \* history: whether the ledger was in the store when the query began,
             \* the updates of payment channels that the engine had made by then,
             \* and the payment channels the ledger has funded ever since

vars == <<store, todo, query, witness>>

Query == [asks : Kinds, of : ChannelIds,
          at : {"channel", "consensus", "list", "channels", "registered",
                "paid", "remaining", "answered", "failed"},
          left : Seq(Channel \X Payments), paid : Amount, answer : Seq(Info)]

ASSUME IdleAssumption == Idle \notin Query

(***************************************************************************)
(* getStatusFromChannel, and the balances an info carries.                 *)
(***************************************************************************)
StatusPostFundFirst(c) ==                                              \* mutant
  IF c.postfund # "all" THEN "Proposed"
  ELSE CASE c.final = "none" -> "Open"
         [] c.final = "mine" -> "Closing"
         [] c.final = "all"  -> "Complete"

StatusFromChannel(c) ==
  CASE c.final = "all"  -> "Complete"
    [] c.final = "mine" -> "Closing"
    [] c.final = "none" -> IF c.postfund = "all" THEN "Open" ELSE "Proposed"

\* constructPaymentInfo: an intermediary's channel is open as soon as it has
\* signed the postfund state.
PaymentStatus(c) ==
  IF Intermediary /\ c.postfund # "none" THEN "Open" ELSE StatusFromChannel(c)

PaymentInfo(v, c, paid, remaining) ==
  [of |-> v, status |-> PaymentStatus(c), paid |-> paid, remaining |-> remaining]

LedgerInfo(status) == [of |-> Ledger, status |-> status, paid |-> 0, remaining |-> 0]

(***************************************************************************)
(* The tables.  An absent key is None.                                     *)
(***************************************************************************)
Init ==
  /\ store = [objectives |-> [o \in Objectives |-> None],
              channels   |-> [c \in ChannelIds |-> None],
              consensus  |-> [c \in {Ledger} |-> None],
              owner      |-> [c \in ChannelIds |-> None],
              vouchers   |-> [v \in Payments |-> None],
              notices    |-> [c \in ChannelIds |-> None]]
  /\ todo = <<>>
  /\ query = Idle
  /\ witness = [known |-> FALSE, funded |-> {}, heard |-> [v \in Payments |-> None]]

Put(table, key, value) == [table |-> table, key |-> key, value |-> value]
Del(table, key) == Put(table, key, None)

After(write) == [store EXCEPT ![write.table][write.key] = write.value]

IsStored(s) == s.channels[Ledger] # None \/ s.consensus[Ledger] # None
Funded(s) == IF s.consensus[Ledger] = None THEN {} ELSE s.consensus[Ledger].funds

\* setObjective; only an approved objective takes the channel.
SetObjectiveOwnerFirst(o, c, status, related) ==                       \* mutant
  LET takes == status = "approved" /\ store.owner[c] = None
  IN (IF takes THEN <<Put("owner", c, o)>> ELSE <<>>)
       \o <<Put("objectives", o, status)>> \o related

SetObjective(o, c, status, related) ==
  LET takes == status = "approved" /\ store.owner[c] = None
  IN <<Put("objectives", o, status)>> \o related
       \o IF takes THEN <<Put("owner", c, o)>> ELSE <<>>

\* The payer's amount, by the vouchers; a channel that is being registered has
\* promised nothing.
Balance(v) == IF store.vouchers[v] = None THEN 0 ELSE store.vouchers[v]

\* generateNotifications for a payment channel: what vouchers say, until the
\* final state is complete; then getPaidAndRemaining, which returns
\* [remaining, paid].
PaymentNotice(v, c) ==
  LET paid == IF c.final = "all" THEN Total - c.paid ELSE Balance(v)
  IN PaymentInfo(v, c, paid, Total - paid)

\* generateNotifications: the related channels of an objective are the ledger's
\* Channel, or a payment channel and the ConsensusChannels it uses.
Notice(key, c) ==
  Put("notices", key, IF key = Ledger THEN LedgerInfo(StatusFromChannel(c))
                      ELSE PaymentNotice(key, c))

OpenNotice == Put("notices", Ledger, LedgerInfo("Open"))

Notices(key, c) ==
  <<Notice(key, c)>> \o IF key = Ledger THEN <<>> ELSE <<OpenNotice>>

\* What attemptProgress writes of an objective that owns channel key.
AttemptNotifiesFirst(o, key, status, c, consensus) ==                  \* mutant
  Notices(key, c)
    \o SetObjective(o, key, status, <<Put("channels", key, c)>> \o consensus)
    \o IF status = "completed" THEN <<Del("owner", key)>> ELSE <<>>

Attempt(o, key, status, c, consensus) ==
  SetObjective(o, key, status, <<Put("channels", key, c)>> \o consensus)
    \o Notices(key, c)
    \o IF status = "completed" THEN <<Del("owner", key)>> ELSE <<>>

Begin(writes) ==
  /\ todo = <<>>
  /\ todo' = writes
  /\ UNCHANGED <<store, query, witness>>

IsOwnable(key, o) == store.owner[key] \in {None, o}

\* getObjectiveById and populateChannelData.
Loads(o, key, status) ==
  /\ store.objectives[o] = status
  /\ store.channels[key] # None
  /\ key # Ledger => store.consensus[Ledger] # None

(***************************************************************************)
(* The life of the ledger.                                                 *)
(***************************************************************************)
NewChannel == [postfund |-> "none", final |-> "none", paid |-> 0]

RequestLedger ==
  /\ ~ IsStored(store) /\ store.objectives[DirectFunding] = None
  /\ Begin(Attempt(DirectFunding, Ledger, "approved", NewChannel, <<>>))

\* getOrCreateObjective stores the objective before the policy maker sees it.
JoinLedger ==
  LET stores == SetObjective(DirectFunding, Ledger, "unapproved",
                             <<Put("channels", Ledger, NewChannel)>>)
      approves == Attempt(DirectFunding, Ledger, "approved", NewChannel, <<>>)
  IN \/ /\ store.objectives[DirectFunding] = None
        /\ Begin(stores \o approves)
     \/ /\ Loads(DirectFunding, Ledger, "unapproved")
        /\ Begin(approves)

\* The ledger is funded; spawnConsensusChannelIfDirectFundObjective.
SpawnDestroyFirst(consensus) ==                                        \* mutant
  <<Del("channels", Ledger), Put("consensus", Ledger, consensus)>>

Spawn(consensus) ==
  <<Put("consensus", Ledger, consensus), Del("channels", Ledger)>>

LedgerFunded ==
  /\ Loads(DirectFunding, Ledger, "approved")
  /\ Begin(Attempt(DirectFunding, Ledger, "completed",
                   [store.channels[Ledger] EXCEPT !.postfund = "all"], <<>>)
             \o Spawn([funds |-> {}, updated |-> FALSE]))

(***************************************************************************)
(* Closing the ledger.  The Channel made of the ConsensusChannel holds the *)
(* signatures of the ledger's latest state only: that state is the         *)
(* postfund state when the ledger was never updated.                       *)
(***************************************************************************)
ChannelOf(consensus) ==
  [NewChannel EXCEPT !.postfund = IF consensus.updated THEN "none" ELSE "all"]

CanClose == store.consensus[Ledger] # None /\ Funded(store) = {}

SignedFinal(c, who) == [c EXCEPT !.final = who]

RequestClosing ==
  /\ "requested" \in Closes
  /\ CanClose /\ store.objectives[DirectDefunding] = None
  /\ IsOwnable(Ledger, DirectDefunding)
  /\ Begin(<<Del("consensus", Ledger)>>
             \o Attempt(DirectDefunding, Ledger, "approved",
                        SignedFinal(ChannelOf(store.consensus[Ledger]), "mine"), <<>>))

\* The counterparty asks: the objective is stored with its channel, and the
\* policy maker approves or refuses.
AnswerClosing ==
  LET c == IF store.objectives[DirectDefunding] = None
             THEN ChannelOf(store.consensus[Ledger]) ELSE store.channels[Ledger]
      stores == SetObjective(DirectDefunding, Ledger, "unapproved",
                             <<Put("channels", Ledger, c)>>)
      first == IF store.objectives[DirectDefunding] = None THEN stores ELSE <<>>
  IN /\ \/ CanClose /\ store.objectives[DirectDefunding] = None
        \/ Loads(DirectDefunding, Ledger, "unapproved")
     /\ IsOwnable(Ledger, DirectDefunding)
     /\ \/ /\ "approved" \in Closes
           /\ Begin(first \o <<Del("consensus", Ledger)>>
                \o Attempt(DirectDefunding, Ledger, "approved",
                           SignedFinal(c, "all"), <<>>))
        \/ /\ "refused" \in Closes
           /\ Begin(first \o SetObjective(DirectDefunding, Ledger, "rejected",
                                          <<Put("channels", Ledger, c)>>))

LedgerFinalized ==
  /\ Loads(DirectDefunding, Ledger, "approved")
  /\ store.channels[Ledger].final = "mine"
  /\ Begin(Attempt(DirectDefunding, Ledger, "approved",
                   SignedFinal(store.channels[Ledger], "all"), <<>>))

LedgerWithdrawn ==
  /\ Loads(DirectDefunding, Ledger, "approved")
  /\ store.channels[Ledger].final = "all"
  /\ Begin(Attempt(DirectDefunding, Ledger, "completed", store.channels[Ledger], <<>>))

(***************************************************************************)
(* The life of a payment channel.  A channel that is registered twice is   *)
(* an error, before anything is written.                                   *)
(***************************************************************************)
SameConsensus == <<Put("consensus", Ledger, store.consensus[Ledger])>>

Funding(funds) == <<Put("consensus", Ledger, [funds |-> funds, updated |-> TRUE])>>

Registered(v, writes) == <<Put("vouchers", v, 0)>> \o writes

StartPayment(v) ==
  LET o == VirtualFund(v)
      stores == SetObjective(o, v, "unapproved",
                             <<Put("channels", v, NewChannel)>> \o SameConsensus)
      approves == Attempt(o, v, "approved", NewChannel, SameConsensus)
  IN /\ store.consensus[Ledger] # None
     /\ \/ /\ store.objectives[o] = None /\ store.vouchers[v] = None
           /\ \/ ~ Intermediary /\ Begin(Registered(v, approves))
              \/ Begin(Registered(v, stores \o approves))
        \/ /\ Loads(o, v, "unapproved")
           /\ Begin(approves)

PaymentGuaranteed(v) ==
  /\ Loads(VirtualFund(v), v, "approved")
  /\ v \notin Funded(store)
  /\ Begin(Attempt(VirtualFund(v), v, "approved", store.channels[v],
                   Funding(Funded(store) \cup {v})))

\* An intermediary does not wait for the others' signatures (ADR 0009).
PaymentFunded(v) ==
  /\ Loads(VirtualFund(v), v, "approved")
  /\ v \in Funded(store)
  /\ \E signed \in {"all"} \cup IF Intermediary THEN {"mine"} ELSE {} :
       Begin(Attempt(VirtualFund(v), v, "completed",
                     [store.channels[v] EXCEPT !.postfund = signed], SameConsensus))

\* pay or receive: the channel need only be registered, and a voucher may be an
\* old one.  The payer tells of its payment, the payee of a voucher unless the
\* final state is complete; without the channel it is an error.
TellsOfPayment(c) ==
  IF c = None THEN {FALSE} ELSE IF c.final = "all" THEN BOOLEAN ELSE {TRUE}

Pay(v) ==
  /\ ~ Intermediary
  /\ store.vouchers[v] # None
  /\ \E amount \in Amount, tells \in TellsOfPayment(store.channels[v]) :
       LET paid == store.vouchers[v] + amount
           info == PaymentInfo(v, store.channels[v], paid, Total - paid)
       IN /\ paid <= Total
          /\ Begin(<<Put("vouchers", v, paid)>>
                     \o IF tells THEN <<Put("notices", v, info)>> ELSE <<>>)

ClosePayment(v) ==
  LET o == VirtualDefund(v)
      c == store.channels[v]
      stores == SetObjective(o, v, "unapproved", <<Put("channels", v, c)>> \o SameConsensus)
      first == IF store.objectives[o] = None THEN stores ELSE <<>>
  IN /\ store.objectives[VirtualFund(v)] = "completed" /\ v \in Funded(store)
     /\ IsOwnable(v, o)
     /\ store.objectives[o] = None \/ Loads(o, v, "unapproved")
     /\ Begin(first \o Attempt(o, v, "approved", SignedFinal(c, "mine"), SameConsensus))

PaymentFinalized(v) ==
  /\ Loads(VirtualDefund(v), v, "approved")
  /\ store.channels[v].final = "mine"
  /\ \E paid \in Amount :
       Begin(Attempt(VirtualDefund(v), v, "approved",
                     [store.channels[v] EXCEPT !.final = "all", !.paid = paid],
                     SameConsensus))

PaymentSettled(v) ==
  /\ Loads(VirtualDefund(v), v, "approved")
  /\ store.channels[v].final = "all"
  /\ Begin(Attempt(VirtualDefund(v), v, "completed", store.channels[v],
                   Funding(Funded(store) \ {v})))

(***************************************************************************)
(* One put or del; the process stops.                                      *)
(***************************************************************************)
Write ==
  /\ todo # <<>>
  /\ store' = After(Head(todo))
  /\ todo' = Tail(todo)
  /\ witness' = [witness EXCEPT !.funded = @ \cap Funded(store')]
  /\ UNCHANGED query

Crash ==
  /\ Crashes /\ todo # <<>>
  /\ todo' = <<>>
  /\ query' = Idle
  /\ UNCHANGED <<store, witness>>

(***************************************************************************)
(* The queries.  A ledger is looked for among the Channels first; a list   *)
(* of ledgers starts with the ConsensusChannels.                           *)
(***************************************************************************)
FirstRead == [ledger |-> "channel", ledgers |-> "list",
              payment |-> "channel", payments |-> "consensus"]

Ask(kind, of) ==
  /\ query = Idle
  /\ (kind = "payment") = (of \in Payments)
  /\ query' = [asks |-> kind, of |-> of, at |-> FirstRead[kind],
               left |-> <<>>, paid |-> 0, answer |-> <<>>]
  /\ witness' = [known |-> IsStored(store), funded |-> Funded(store),
                 heard |-> [v \in Payments |-> store.notices[v]]]
  /\ UNCHANGED <<store, todo>>

At(step) == query # Idle /\ query.at = step

Reads(q) ==
  /\ query' = q
  /\ UNCHANGED <<store, todo, witness>>

Answered(infos) == [query EXCEPT !.answer = @ \o infos, !.at = "answered"]

\* The channels whose vouchers are yet to be looked at.
Continue(left) ==
  [query EXCEPT !.left = left, !.at = IF left = <<>> THEN "answered" ELSE "registered"]

\* getLedgerChannelInfo, getPaymentChannelInfo.
GetChannelById ==
  LET c == store.channels[query.of]
  IN /\ At("channel")
     /\ Reads(IF query.asks = "ledger"
                THEN IF c = None THEN [query EXCEPT !.at = "consensus"]
                     ELSE Answered(<<LedgerInfo(StatusFromChannel(c))>>)
                ELSE IF c = None THEN [query EXCEPT !.at = "failed"]
                     ELSE Continue(<< <<c, query.of>> >>))

\* getLedgerChannelInfo, getPaymentChannelsByLedger.
GetConsensusChannelById ==
  LET known == store.consensus[Ledger] # None
  IN /\ At("consensus")
     /\ Reads(IF query.asks = "ledger"
                THEN IF known THEN Answered(<<LedgerInfo("Open")>>)
                     ELSE [query EXCEPT !.at = "failed"]
                ELSE IF Funded(store) = {} THEN Answered(<<>>)
                     ELSE [query EXCEPT !.at = "channels",
                             !.left = [i \in 1 .. Cardinality(Funded(store)) |->
                                         <<NewChannel, SetToSeq(Funded(store))[i]>>]])

GetAllConsensusChannels ==
  /\ At("list")
  /\ Reads([query EXCEPT !.at = "channels",
              !.answer = IF store.consensus[Ledger] = None THEN <<>>
                         ELSE <<LedgerInfo("Open")>>])

\* getChannelsByIds stops at the first ids.length channels it finds.
ChannelsByIds(ids) ==
  LET found == {v \in ids : store.channels[v] # None}
  IN [i \in 1 .. Cardinality(found) |->
        <<store.channels[SetToSeq(found)[i]], SetToSeq(found)[i]>>]

\* getChannelsByAppDefinition in getAllLedgerChannels, and getChannelsByIds.
GetChannels ==
  LET c == store.channels[Ledger]
  IN /\ At("channels")
     /\ Reads(IF query.asks = "ledgers"
                THEN Answered(IF c = None THEN <<>>
                              ELSE <<LedgerInfo(StatusFromChannel(c))>>)
                ELSE Continue(ChannelsByIds({l[2] : l \in Range(query.left)})))

\* getVoucherBalance.
First == Head(query.left)

ToldOfOutcome(paid, remaining) ==                                      \* mutant
  LET info == PaymentInfo(First[2], First[1], First[1].paid, remaining)
  IN [Continue(Tail(query.left)) EXCEPT !.answer = Append(@, info)]

Told(paid, remaining) ==
  LET info == PaymentInfo(First[2], First[1], paid, remaining)
  IN [Continue(Tail(query.left)) EXCEPT !.answer = Append(@, info)]

ChannelRegistered ==
  /\ At("registered")
  /\ Reads(IF store.vouchers[First[2]] = None THEN Told(0, 0)
           ELSE [query EXCEPT !.at = "paid"])

ReadPaid ==
  /\ At("paid")
  /\ Reads([query EXCEPT !.paid = store.vouchers[First[2]], !.at = "remaining"])

ReadRemaining ==
  /\ At("remaining")
  /\ Reads(Told(query.paid, Total - store.vouchers[First[2]]))

\* The answer is returned.
Return ==
  /\ At("answered") \/ At("failed")
  /\ Reads(Idle)

Next ==
  \/ RequestLedger \/ JoinLedger \/ LedgerFunded
  \/ RequestClosing \/ AnswerClosing \/ LedgerFinalized \/ LedgerWithdrawn
  \/ \E v \in Payments : \/ StartPayment(v) \/ PaymentGuaranteed(v)
                         \/ PaymentFunded(v) \/ Pay(v)
                         \/ ClosePayment(v) \/ PaymentFinalized(v)
                         \/ PaymentSettled(v)
  \/ Write \/ Crash
  \/ \E kind \in Kinds, of \in ChannelIds : Ask(kind, of)
  \/ GetChannelById \/ GetConsensusChannelById \/ GetAllConsensusChannels
  \/ GetChannels \/ ChannelRegistered \/ ReadPaid \/ ReadRemaining \/ Return

Spec == Init /\ [][Next]_vars

-----------------------------------------------------------------------------
(***************************************************************************)
(* Properties.                                                             *)
(***************************************************************************)
Writes ==
  [table : {"objectives"}, key : Objectives, value : Standing]
    \cup [table : {"channels"}, key : Payments, value : Channel]
    \cup [table : {"channels"}, key : {Ledger}, value : Channel \cup {None}]
    \cup [table : {"consensus"}, key : {Ledger}, value : Consensus \cup {None}]
    \cup [table : {"owner"}, key : ChannelIds, value : Objectives \cup {None}]
    \cup [table : {"vouchers"}, key : Payments, value : Amount]
    \cup [table : {"notices"}, key : ChannelIds, value : Info]

Witness == [known : BOOLEAN, funded : SUBSET Payments,
            heard : [Payments -> Info \cup {None}]]

\* Tables hold what their keys name, and a handler never erases but an owner and
\* a form of the ledger.
TypeOK ==
  /\ DOMAIN store = {"objectives", "channels", "consensus", "owner", "vouchers", "notices"}
  /\ store.objectives \in [Objectives -> Standing \cup {None}]
  /\ store.channels \in [ChannelIds -> Channel \cup {None}]
  /\ store.consensus \in [{Ledger} -> Consensus \cup {None}]
  /\ store.owner \in [ChannelIds -> Objectives \cup {None}]
  /\ store.vouchers \in [Payments -> Amount \cup {None}]
  /\ store.notices \in [ChannelIds -> Info \cup {None}]
  /\ todo \in Seq(Writes)
  /\ query \in Query \cup {Idle}
  /\ witness \in Witness

Infos == IF query = Idle THEN {} ELSE Range(query.answer)

\* What was paid and what remains are read one after the other, while
\* vouchers go on: together they never exceed what the payer put in
\* (getVoucherBalance).
BalancesAddUp ==
  \A info \in Infos : info.of \in Payments =>
    info.paid + info.remaining <= Total

\* The channels a ledger funds all the while the query runs are all in the
\* answer, once each (getPaymentChannelsByLedger, getChannelsByIds).
FundedIsListed ==
  At("answered") /\ query.asks = "payments" =>
    \A v \in witness.funded :
      Cardinality({i \in DOMAIN query.answer : query.answer[i].of = v}) = 1

\* A ledger that is in the store when a query begins is found, in whichever
\* form, until somebody asks to close it: the ledger takes one form before it
\* leaves the other, and a query looks for the forms in the same order
\* (spawnConsensusChannelIfDirectFundObjective, getLedgerChannelInfo).  A
\* ledger that is being closed is in neither form for a moment.
IsBeingClosed ==
  \/ store.objectives[DirectDefunding] # None
  \/ \E i \in DOMAIN todo : todo[i].table = "objectives" /\ todo[i].key = DirectDefunding

OpenLedgerIsFound ==
  At("failed") /\ query.asks = "ledger" /\ ~ IsBeingClosed => ~ witness.known

\* Wherever a handler is cut short, nothing in the store refers to what is not
\* there: an owner to an objective, a guarantee to a payment channel, a
\* payment channel to its vouchers (the order of the writes in setObjective,
\* and registerPaymentChannel before it).
NothingDangles ==
  /\ \A c \in ChannelIds : store.owner[c] # None => store.objectives[store.owner[c]] # None
  /\ \A v \in Funded(store) : store.channels[v] # None
  /\ \A v \in Payments : store.channels[v] # None => store.vouchers[v] # None

Rank(status) == CHOOSE i \in 1 .. 4 : Statuses[i] = status

\* What was told of a payment channel before is behind what is told of it now:
\* its status, and at an end of the channel the amount paid, while that is what
\* the vouchers say.
PaidByVouchers(info) == ~ Intermediary /\ info.status # "Complete"

IsBehind(heard, info) ==
  heard # None => /\ Rank(heard.status) <= Rank(info.status)
                  /\ PaidByVouchers(heard) => heard.paid <= info.paid

\* The engine's updates of a channel never take its status back, nor the amount
\* paid while the channel is not complete: a notification of the store before
\* or after a payment, a closing or the opening of the ledger comes in the
\* order the handlers ran in (generateNotifications, handlePaymentRequest,
\* handleMessage).  What the listeners of the API hear last is the subject of
\* Notifications.
EventsAdvance ==
  [][\A c \in ChannelIds :
       LET old == store.notices[c]
           new == store'.notices[c]
       IN old # None /\ new # old =>
            /\ Rank(old.status) <= Rank(new.status)
            /\ c \in Payments /\ PaidByVouchers(new) => old.paid <= new.paid]_vars

\* An answer about a payment channel, put together from a Channel and vouchers
\* that are read one after the other while handlers run, is never behind what
\* the engine had told of the channel when the query was made: the status does
\* not go back, nor, while the vouchers are told of, does the amount paid
\* (getPaymentChannelInfo, getPaymentChannelsByLedger, generateNotifications;
\* createVoucher tells its listeners such an answer).
AnswersFollowEvents ==
  \A info \in Infos : info.of \in Payments => IsBehind(witness.heard[info.of], info)

(***************************************************************************)
(* The inductive invariant.  What a table says of a key has a level, which *)
(* only rises; and what is written needs other keys to have theirs, in the *)
(* store or by an earlier write of the same handler.                       *)
(***************************************************************************)
StandingLevel(standing) ==
  CASE standing = "unapproved" -> 1
    [] standing = "rejected"   -> 2
    [] standing = "approved"   -> 3
    [] standing = "completed"  -> 4

Level(table, value) ==
  IF value = None THEN 0
  ELSE CASE table = "objectives" -> StandingLevel(value)
         [] table = "notices"    -> Rank(value.status)
         [] table = "vouchers"   -> value + 1
         [] table = "channels"   -> Rank(PaymentStatus(value))
         [] OTHER                -> 1

OnlyRises(table, key) ==
  \/ table \in {"objectives", "notices", "vouchers"}
  \/ table = "channels" /\ key # Ledger

Least(table, key, level) == [table |-> table, key |-> key, level |-> level]

FundOf(key) == IF key = Ledger THEN DirectFunding ELSE VirtualFund(key)
DefundOf(key) == IF key = Ledger THEN DirectDefunding ELSE VirtualDefund(key)

\* What the objectives of a channel have come to when it is open, closing or
\* complete.
StageNeeds(key, stage) ==
  (IF stage >= 2 THEN {Least("objectives", FundOf(key), 4)} ELSE {})
    \cup (IF stage >= 3 THEN {Least("objectives", DefundOf(key), 3)} ELSE {})

StageOf(c) == CASE c.final = "all"  -> 4
                [] c.final = "mine" -> 3
                [] c.final = "none" -> IF c.postfund = "none" THEN 1 ELSE 2

Needs(w) ==
  IF w.value = None
  THEN IF w.table = "channels" THEN {Least("consensus", Ledger, 1)} ELSE {}
  ELSE CASE w.table = "owner" -> {Least("objectives", w.value, 1)}
         [] w.table = "consensus" ->
              {Least("objectives", DirectFunding, 4)}
                \cup {Least("channels", v, 1) : v \in w.value.funds}
         [] w.table = "channels" ->
              StageNeeds(w.key, StageOf(w.value))
                \cup {Least("vouchers", v, 1) : v \in {w.key} \ {Ledger}}
         [] w.table = "notices" ->
              IF w.key = Ledger THEN StageNeeds(Ledger, Rank(w.value.status))
              ELSE {Least("channels", w.key, Rank(w.value.status))}
                     \cup IF PaidByVouchers(w.value)
                          THEN {Least("vouchers", w.key, w.value.paid + 1)} ELSE {}
         [] w.table = "objectives" ->
              {Least("objectives", FundOf(c), 4) : c \in {d \in ChannelIds : DefundOf(d) = w.key}}
         [] OTHER -> {}

IsMet(need) == Level(need.table, store[need.table][need.key]) >= need.level

Meets(w, need) ==
  w.table = need.table /\ w.key = need.key /\ Level(w.table, w.value) >= need.level

\* What w needs is in the store, or written by one of the writes before it.
IsPrepared(w, before) ==
  \A need \in Needs(w) : IsMet(need) \/ \E x \in before : Meets(x, need)

\* And nothing falls.
Rises(w, before) ==
  OnlyRises(w.table, w.key) =>
    /\ Level(w.table, store[w.table][w.key]) <= Level(w.table, w.value)
    /\ \A x \in before : x.table = w.table /\ x.key = w.key
                            => Level(w.table, x.value) <= Level(w.table, w.value)

Before(writes, i) == {writes[j] : j \in 1 .. i - 1}

IsOrderly(writes, before) ==
  \A i \in DOMAIN writes :
    /\ IsPrepared(writes[i], before \cup Before(writes, i))
    /\ Rises(writes[i], before \cup Before(writes, i))

OrderInv == IsOrderly(todo, {})

StoreInv ==
  /\ \A table \in DOMAIN store : \A key \in DOMAIN store[table] :
       store[table][key] # None =>
         \A need \in Needs(Put(table, key, store[table][key])) : IsMet(need)
  /\ IsFiniteSet(Funded(store))

\* The consensus channel is deleted only when the ledger is closed, and never
\* together with the Channel it replaced.
Pending == Range(todo)

FormInv ==
  /\ Del("consensus", Ledger) \in Pending =>
       IsBeingClosed /\ Del("channels", Ledger) \notin Pending
  /\ \A w \in Pending :
       w.table = "consensus" /\ w.value # None => IsFiniteSet(w.value.funds)

\* A ledger whose closing is approved is no ConsensusChannel and will be none.
Closing == {"approved", "completed"}
ClosingWrites == {Put("objectives", DirectDefunding, standing) : standing \in Closing}

ClosedInv ==
  /\ \A i \in DOMAIN todo : todo[i] \in ClosingWrites =>
       \/ store.consensus[Ledger] = None
       \/ Del("consensus", Ledger) \in Before(todo, i)
  /\ store.objectives[DirectDefunding] \in Closing => store.consensus[Ledger] = None
  /\ store.objectives[DirectDefunding] \in Closing \/ Pending \cap ClosingWrites # {} =>
       \A w \in Pending : w.table = "consensus" => w.value = None

\* What is told of a payment is the latest of what the vouchers say.
Said(table, key) ==
  {store[table][key]} \cup {w.value : w \in {x \in Pending : x.table = table /\ x.key = key}}

PaidInv ==
  \A w \in Pending : w.table = "notices" /\ w.key \in Payments /\ PaidByVouchers(w.value) =>
    \A paid \in Said("vouchers", w.key) : paid # None => paid <= w.value.paid

\* What a query has read is never more than what it will read; and it reads the
\* Channel of a ledger or of a payment channel.
VoucherInv ==
  query # Idle =>
    /\ query.asks = "payment" <=> query.of \in Payments
    /\ query.at = "channel" => query.asks \in {"ledger", "payment"}
    /\ query.at \in {"registered", "paid", "remaining"} => query.left # <<>>
    /\ query.at \in {"paid", "remaining"} => store.vouchers[First[2]] # None
    /\ query.at = "remaining" => query.paid <= store.vouchers[First[2]]

\* What had been told of a channel when the query was made is not ahead of the
\* store, of a Channel that was read, or of what was read of its vouchers.
Follows(heard, c) == heard # None => Rank(heard.status) <= Rank(PaymentStatus(c))
FollowsPaid(heard, paid) == heard # None /\ PaidByVouchers(heard) => heard.paid <= paid

HeardInv ==
  query # Idle =>
    /\ \A v \in Payments : witness.heard[v] # None =>
         \A need \in Needs(Put("notices", v, witness.heard[v])) : IsMet(need)
    /\ query.at \in {"registered", "paid", "remaining"} =>
         \A l \in Range(query.left) : Follows(witness.heard[l[2]], l[1])
    /\ query.at = "remaining" => FollowsPaid(witness.heard[First[2]], query.paid)

\* A ledger that was known, and is not being closed, is still in the store, and
\* when it was no Channel it is a ConsensusChannel.
KnownInv ==
  query # Idle /\ query.asks = "ledger" /\ witness.known /\ ~ IsBeingClosed =>
    /\ IsStored(store)
    /\ query.at = "consensus" => store.consensus[Ledger] # None
    /\ query.at # "failed"

InductiveInv ==
  /\ TypeOK /\ OrderInv /\ StoreInv /\ FormInv /\ ClosedInv /\ PaidInv
  /\ VoucherInv /\ BalancesAddUp /\ HeardInv /\ AnswersFollowEvents /\ KnownInv

=============================================================================
