-------------------------- MODULE DirectFundProofs --------------------------
(***************************************************************************)
(* Proofs about DirectFund, for any number of channels, any shares that    *)
(* are not both nothing, and every choice of what goes wrong.              *)
(***************************************************************************)
EXTENDS DirectFund, SequenceTheorems, TLAPS

\* There are two nodes, and each is the other's peer.
LEMMA NodesDiffer ==
  \A n \in Nodes : /\ Peer(n) \in Nodes /\ Peer(n) # n /\ Peer(Peer(n)) = n
                   /\ \A k \in Nodes : k = n \/ k = Peer(n)
BY DEF Nodes, Peer

\* What both are to pay, and have paid.
LEMMA SharesAdd ==
  /\ TotalShare \in Nat /\ TotalShare > 0
  /\ \A n \in Nodes : Share[n] \in Nat /\ TotalShare = Share[n] + Share[Peer(n)]
  /\ \A n \in Nodes, ch \in Channels :
       TypeOK => /\ deposited[n][ch] \in Nat
                 /\ Held(ch) = deposited[n][ch] + deposited[Peer(n)][ch]
<1>1. /\ TotalShare \in Nat /\ TotalShare > 0
      /\ \A n \in Nodes : Share[n] \in Nat /\ TotalShare = Share[n] + Share[Peer(n)]
  BY ShareAssumption DEF TotalShare, Nodes, Peer
<1>2. ASSUME TypeOK, NEW n \in Nodes, NEW ch \in Channels
      PROVE  /\ deposited[n][ch] \in Nat
             /\ Held(ch) = deposited[n][ch] + deposited[Peer(n)][ch]
  <2>1. \A k \in Nodes : deposited[k][ch] \in Nat
    BY <1>2 DEF TypeOK
  <2>2. QED
    BY <2>1 DEF Held, Nodes, Peer
<1>3. QED
  BY <1>1, <1>2

\* The participants of a channel.
LEMMA Participants ==
  \A ch \in Channels : Initiator[ch] \in Nodes
BY InitiatorAssumption

-----------------------------------------------------------------------------
(***************************************************************************)
(* What no step undoes: signatures, deposits, rejections.                  *)
(***************************************************************************)
Advances ==
  /\ \A t \in Turns, ch \in Channels, k \in Nodes :
       k \in signed[t][ch] => k \in signed'[t][ch]
  /\ \A k \in Nodes, ch \in Channels :
       \/ deposited'[k][ch] = deposited[k][ch]
       \/ deposited[k][ch] = 0 /\ deposited'[k][ch] = Share[k]
  /\ \A ch \in Channels : HasRejected(ch) => HasRejected(ch)'

\* A state that was signed by both is.
LEMMA SignedStays ==
  ASSUME TypeOK, TypeOK', Advances, NEW t \in Turns, NEW ch \in Channels
  PROVE  /\ \A k : k \in signed[t][ch] => k \in signed'[t][ch]
         /\ signed[t][ch] = Nodes => signed'[t][ch] = Nodes
<1>1. signed[t][ch] \subseteq Nodes /\ signed'[t][ch] \subseteq Nodes
  BY DEF TypeOK
<1>2. QED
  BY <1>1 DEF Advances

\* A share that was paid is.
LEMMA PaidStays ==
  ASSUME Advances, NEW n \in Nodes, NEW ch \in Channels, HasPaid(n, ch)
  PROVE  HasPaid(n, ch)'
BY DEF Advances, HasPaid

\* What the chain has held, it has held.
LEMMA WasHeldStays ==
  ASSUME Advances, NEW ch \in Channels, NEW amount, WasHeld(ch, amount)
  PROVE  WasHeld(ch, amount)'
BY PaidStays, Participants DEF WasHeld

\* What a channel in the store or in memory rests on stays true.
LEMMA ChannelStays ==
  ASSUME TypeOK, TypeOK', Advances, NEW ch \in Channels, NEW c \in Channel,
         ChannelInv(ch, c)
  PROVE  ChannelInv(ch, c)'
<1>1. "prefund" \in Turns /\ "postfund" \in Turns
  BY DEF Turns
<1>2. WasHeld(ch, c.holdings)'
  BY WasHeldStays DEF ChannelInv
<1>3. /\ \A k : k \in signed["prefund"][ch] => k \in signed'["prefund"][ch]
      /\ \A k : k \in signed["postfund"][ch] => k \in signed'["postfund"][ch]
  BY <1>1, SignedStays
<1>4. QED
  BY <1>2, <1>3 DEF ChannelInv

\* A channel of which a node's store changes nothing.
LEMMA StoreStays ==
  ASSUME TypeOK, TypeOK', Advances, NEW k \in Nodes, NEW d \in Channels,
         StoreInv(k, d),
         objectives'[k][d] = objectives[k][d], channels'[k][d] = channels[k][d],
         d \in owned'[k] => d \in owned[k],
         d \in ledgers'[k] <=> d \in ledgers[k],
         k \in signed'["prefund"][d] => k \in signed["prefund"][d],
         deposited'[k][d] = deposited[k][d]
  PROVE  StoreInv(k, d)'
<1>1. "prefund" \in Turns /\ "postfund" \in Turns
  BY DEF Turns
<1>2. signed["postfund"][d] = Nodes => signed'["postfund"][d] = Nodes
  BY <1>1, SignedStays
<1>3. HasRejected(d) => HasRejected(d)'
  BY DEF Advances
<1>4. objectives[k][d] # None => ObjectiveInv(k, d)'
  BY <1>2, <1>3 DEF StoreInv, ObjectiveInv
<1>5. channels[k][d] # None => ChannelInv(d, channels[k][d])'
  <2>1. SUFFICES ASSUME channels[k][d] # None PROVE ChannelInv(d, channels[k][d])'
    OBVIOUS
  <2>2. PICK c \in Channel : c = channels[k][d]
    BY <2>1 DEF TypeOK
  <2>3. ChannelInv(d, c)'
    BY <2>1, <2>2, ChannelStays DEF StoreInv
  <2>4. QED
    BY <2>2, <2>3
<1>6. QED
  BY <1>2, <1>4, <1>5 DEF StoreInv, IsUnjudged, Status

\* A handler, of a node whose store stays as it is.
LEMMA WorkStays ==
  ASSUME TypeOK, TypeOK', Advances, NEW k \in Nodes,
         NEW w \in Loaded \cup Effects, WorkInv(k, w),
         objectives'[k] = objectives[k], deposited'[k] = deposited[k],
         \A d \in Channels : d \in ledgers[k] => d \in ledgers'[k]
  PROVE  WorkInv(k, w)'
<1>1. "prefund" \in Turns /\ "postfund" \in Turns /\ w.ch \in Channels
  BY DEF Turns, Loaded, Effects
<1>2. CASE w.step = "crank"
  <2>1. w.channel \in Channel
    BY <1>2 DEF Loaded, Effects
  <2>2. ChannelInv(w.ch, w.channel)'
    BY <1>1, <1>2, <2>1, ChannelStays DEF WorkInv, LoadedInv
  <2>3. QED
    BY <1>2, <2>2 DEF WorkInv, LoadedInv, IsUnjudged, Status
<1>3. CASE w.step # "crank"
  <2>1. w.messages \subseteq Message
    BY <1>3 DEF Loaded, Effects
  <2>2. EffectsInv(k, w)
    BY <1>3 DEF WorkInv
  <2>3. \A m \in w.messages :
          m.type \in Turns /\ m.to = Peer(k) /\ k \in signed'[m.type][m.ch]
    <3>1. SUFFICES ASSUME NEW m \in w.messages
                   PROVE  m.type \in Turns /\ m.to = Peer(k) /\ k \in signed'[m.type][m.ch]
      OBVIOUS
    <3>2. m.type \in Turns /\ m.to = Peer(k) /\ k \in signed[m.type][m.ch]
      BY <2>2 DEF EffectsInv
    <3>3. m.ch \in Channels
      BY <2>1 DEF Message
    <3>4. QED
      BY <3>2, <3>3, SignedStays
  <2>4. signed["prefund"][w.ch] = Nodes => signed'["prefund"][w.ch] = Nodes
    BY <1>1, SignedStays
  <2>5. HasPaid(Initiator[w.ch], w.ch) => HasPaid(Initiator[w.ch], w.ch)'
    BY <1>1, PaidStays, Participants
  <2>6. EffectsInv(k, w)'
    BY <1>1, <2>2, <2>3, <2>4, <2>5 DEF EffectsInv, Status
  <2>7. QED
    BY <1>3, <2>6 DEF WorkInv
<1>4. QED
  BY <1>2, <1>3

\* What a step must show of the one node whose store and handler it changes.
LEMMA NodeStep ==
  ASSUME InductiveInv, TypeOK', Advances, NEW n \in Nodes,
         \A k \in Nodes : k # n =>
           /\ objectives'[k] = objectives[k] /\ channels'[k] = channels[k]
           /\ owned'[k] = owned[k] /\ ledgers'[k] = ledgers[k]
           /\ doing'[k] = doing[k] /\ deposited'[k] = deposited[k],
         \A k \in Nodes, d \in Channels : k # n =>
           (k \in signed'["prefund"][d] => k \in signed["prefund"][d]),
         \A d \in Channels : StoreInv(n, d)' /\ MoneyInv(d)',
         doing'[n] # Idle => WorkInv(n, doing[n])',
         NetworkInv', LogInv'
  PROVE  InductiveInv'
<1>1. TypeOK
  BY DEF InductiveInv
<1>2. ASSUME NEW k \in Nodes, NEW d \in Channels PROVE StoreInv(k, d)'
  <2>1. CASE k = n
    BY <2>1
  <2>2. CASE k # n
    <3>1. StoreInv(k, d)
      BY DEF InductiveInv
    <3>2. QED
      BY <1>1, <2>2, <3>1, StoreStays
  <2>3. QED
    BY <2>1, <2>2
<1>3. ASSUME NEW k \in Nodes, doing'[k] # Idle PROVE WorkInv(k, doing[k])'
  <2>1. CASE k = n
    BY <1>3, <2>1
  <2>2. CASE k # n
    <3>1. PICK w \in Loaded \cup Effects : w = doing[k] /\ w = doing'[k]
      BY <1>1, <1>3, <2>2 DEF TypeOK
    <3>2. WorkInv(k, w)
      BY <1>3, <2>2, <3>1 DEF InductiveInv
    <3>3. WorkInv(k, w)'
      BY <1>1, <2>2, <3>1, <3>2, WorkStays
    <3>4. QED
      BY <3>1, <3>3
  <2>3. QED
    BY <2>1, <2>2
<1>4. QED
  BY <1>2, <1>3 DEF InductiveInv

\* A step that leaves the chain and the signatures alone.
LEMMA ChainRests ==
  ASSUME InductiveInv, UNCHANGED <<chain, signed>>
  PROVE  /\ \A d \in Channels : MoneyInv(d)'
         /\ LogInv'
<1>1. \A d \in Channels : MoneyInv(d)'
  BY DEF InductiveInv, MoneyInv, HasPaid, chain
<1>2. LogInv'
  BY DEF InductiveInv, LogInv, WasHeld, HasPaid, chain
<1>3. QED
  BY <1>1, <1>2

\* And one that undoes no rejection.
LEMMA AdvancesQuietly ==
  ASSUME UNCHANGED <<chain, signed>>,
         \A k \in Nodes, ch \in Channels :
           Status(k, ch) = "rejected" => Status(k, ch)' = "rejected"
  PROVE  Advances
BY DEF Advances, HasRejected, chain

\* Messages stay true, too, whichever of them are taken or lost.
LEMMA NetworkStays ==
  ASSUME InductiveInv, TypeOK', Advances,
         \A m \in network' :
           \/ m \in network
           \/ m.type = "rejection" /\ HasRejected(m.ch)'
           \/ m.type \in Turns /\ Peer(m.to) \in signed'[m.type][m.ch]
  PROVE  NetworkInv'
<1>1. SUFFICES ASSUME NEW m \in network'
               PROVE  IF m.type = "rejection" THEN HasRejected(m.ch)'
                      ELSE Peer(m.to) \in signed'[m.type][m.ch]
  BY DEF NetworkInv
<1>2. m \in Message /\ m.ch \in Channels /\ m.type \in Turns \cup {"rejection"}
      /\ "rejection" \notin Turns
  BY DEF TypeOK, Message, Turns
<1>3. CASE m \in network
  <2>1. IF m.type = "rejection" THEN HasRejected(m.ch)
        ELSE Peer(m.to) \in signed[m.type][m.ch]
    BY <1>3 DEF InductiveInv, NetworkInv
  <2>2. PICK ch \in Channels : ch = m.ch
    BY <1>2
  <2>3. HasRejected(ch) => HasRejected(ch)'
    BY DEF Advances
  <2>4. m.type \in Turns => \A k : k \in signed[m.type][ch] => k \in signed'[m.type][ch]
    BY SignedStays DEF InductiveInv
  <2>5. QED
    BY <1>2, <2>1, <2>2, <2>3, <2>4
<1>4. QED
  BY <1>1, <1>2, <1>3

\* A step that touches no store, no signature and nothing on chain: nodes may
\* stop, messages may come and go.
LEMMA QuietStep ==
  ASSUME InductiveInv, UNCHANGED <<store, chain, signed>>,
         doing' \in [Nodes -> Loaded \cup Effects \cup {Idle}],
         \A k \in Nodes : doing'[k] = doing[k] \/ doing'[k] = Idle,
         engine' \in [Nodes -> Errors \cup {"running"}],
         network' \subseteq Message,
         \A m \in network' :
           m \in network \/ (m.type \in Turns /\ Peer(m.to) \in signed[m.type][m.ch]),
         seen' \in [Nodes -> 0..Len(log)], replays' \in 0..MaxReplays
  PROVE  InductiveInv'
<1>1. TypeOK /\ TypeOK'
  BY DEF InductiveInv, TypeOK, store, chain
<1>2. Advances
  BY AdvancesQuietly DEF Status, store
<1>3. NetworkInv'
  BY <1>1, <1>2, NetworkStays
<1>4. ASSUME NEW k \in Nodes, NEW d \in Channels PROVE StoreInv(k, d)'
  <2>1. StoreInv(k, d)
    BY DEF InductiveInv
  <2>2. QED
    BY <1>1, <1>2, <2>1, StoreStays DEF store, chain
<1>5. ASSUME NEW k \in Nodes, doing'[k] # Idle PROVE WorkInv(k, doing[k])'
  <2>1. PICK w \in Loaded \cup Effects : w = doing[k] /\ w = doing'[k]
    BY <1>1, <1>5 DEF TypeOK
  <2>2. WorkInv(k, w)
    BY <1>5, <2>1 DEF InductiveInv
  <2>3. WorkInv(k, w)'
    BY <1>1, <1>2, <2>2, WorkStays DEF store, chain
  <2>4. QED
    BY <2>1, <2>3
<1>6. QED
  BY <1>1, <1>3, <1>4, <1>5, ChainRests DEF InductiveInv

\* A node that goes on to crank what it has loaded.
LEMMA LoadStep ==
  ASSUME TypeOK, NEW n \in Nodes, NEW ch \in Channels, NEW o \in Objective,
         NEW c \in Channel, Load(n, ch, o, c), ChannelInv(ch, c)',
         \/ o = objectives'[n][ch]
         \/ o = [status |-> "approved", submitted |-> FALSE] /\ IsUnjudged(n, ch)'
  PROVE  /\ doing' \in [Nodes -> Loaded \cup Effects \cup {Idle}]
         /\ doing'[n] # Idle => WorkInv(n, doing[n])'
         /\ \A k \in Nodes : k # n => doing'[k] = doing[k]
<1> DEFINE w == [step |-> "crank", ch |-> ch, objective |-> o, channel |-> c]
<1>1. w \in Loaded
  BY DEF Loaded
<1>2. doing' = [doing EXCEPT ![n] = w]
  BY DEF Load
<1>3. doing'[n] = w
  BY <1>2 DEF TypeOK
<1>4. w.step = "crank" /\ w.ch = ch /\ w.objective = o /\ w.channel = c
  OBVIOUS
<1> HIDE DEF w
<1>5. WorkInv(n, w)'
  BY <1>4 DEF WorkInv, LoadedInv
<1>6. QED
  BY <1>1, <1>2, <1>3, <1>5 DEF TypeOK

\* What a new objective is made of.
LEMMA NewChannelHolds ==
  /\ NewChannel \in Channel
  /\ \A ch \in Channels : ChannelInv(ch, NewChannel)
BY DEF NewChannel, Channel, ChannelInv, WasHeld

-----------------------------------------------------------------------------
(***************************************************************************)
(* The requests, messages and events that start a handler.                 *)
(***************************************************************************)

\* A request only starts to crank an objective that is nowhere stored.
LEMMA RequestStep ==
  ASSUME InductiveInv, NEW n \in Nodes, NEW ch \in Channels, Request(n, ch)
  PROVE  InductiveInv'
<1> DEFINE o == [status |-> "approved", submitted |-> FALSE]
<1>1. /\ TypeOK /\ UNCHANGED <<store, engine, network, chain, seen, replays, signed>>
      /\ Load(n, ch, o, NewChannel) /\ IsUnjudged(n, ch)
  BY DEF InductiveInv, Request, IsUnjudged
<1>2. o \in Objective
  BY DEF Objective
<1>3. Advances
  BY <1>1, AdvancesQuietly DEF Status, store
<1>4. ChannelInv(ch, NewChannel)' /\ IsUnjudged(n, ch)'
  BY <1>1, NewChannelHolds DEF NewChannel, ChannelInv, WasHeld, IsUnjudged, Status, store
<1> HIDE DEF o
<1>5. o = [status |-> "approved", submitted |-> FALSE]
  BY DEF o
<1>6. /\ doing' \in [Nodes -> Loaded \cup Effects \cup {Idle}]
      /\ doing'[n] # Idle => WorkInv(n, doing[n])'
      /\ \A k \in Nodes : k # n => doing'[k] = doing[k]
  BY <1>1, <1>2, <1>4, <1>5, NewChannelHolds, LoadStep
<1>7. TypeOK'
  BY <1>1, <1>6 DEF TypeOK, store, chain
<1>8. NetworkInv'
  BY <1>1, <1>3, <1>7, NetworkStays
<1>9. \A d \in Channels : StoreInv(n, d)'
  BY <1>1, <1>3, <1>7, StoreStays DEF InductiveInv, store, chain
<1>10. QED
  BY <1>1, <1>3, <1>6, <1>7, <1>8, <1>9, ChainRests, NodeStep DEF store, chain

\* Taking a message, and sending something in return, or nothing.
LEMMA TakeAndSendType ==
  ASSUME TypeOK, NEW m, NEW sent \in SUBSET Message, TakeAndSend(m, sent)
  PROVE  network' \subseteq Message /\ network' \subseteq network \cup sent
BY DEF TypeOK, TakeAndSend

\* The latter leaves in flight what was there.
LEMMA TakeType ==
  ASSUME TypeOK, NEW m, TakeAndSend(m, {})
  PROVE  network' \subseteq Message /\ network' \subseteq network
BY DEF TypeOK, TakeAndSend

\* The peer's signature is added in memory once it is on its way.
LEMMA AddSignatureHolds ==
  ASSUME NEW m \in Message, m.type \in Turns, NEW c \in Channel,
         ChannelInv(m.ch, c), Peer(m.to) \in signed[m.type][m.ch]
  PROVE  AddSignature(c, m) \in Channel /\ ChannelInv(m.ch, AddSignature(c, m))
<1>1. Peer(m.to) \in Nodes
  BY NodesDiffer DEF Message
<1>2. CASE m.type = "prefund"
  <2> DEFINE d == [c EXCEPT !.prefund = @ \cup {Peer(m.to)}]
  <2>1. AddSignature(c, m) = d
    BY <1>2 DEF AddSignature
  <2>2. /\ d \in Channel /\ d.prefund = c.prefund \cup {Peer(m.to)}
        /\ d.postfund = c.postfund /\ d.holdings = c.holdings
    BY <1>1 DEF Channel
  <2> HIDE DEF d
  <2>3. QED
    BY <1>2, <2>1, <2>2 DEF ChannelInv
<1>3. CASE m.type = "postfund"
  <2> DEFINE d == [c EXCEPT !.postfund = @ \cup {Peer(m.to)}]
  <2>1. AddSignature(c, m) = d
    BY <1>3 DEF AddSignature
  <2>2. /\ d \in Channel /\ d.postfund = c.postfund \cup {Peer(m.to)}
        /\ d.prefund = c.prefund /\ d.holdings = c.holdings
    BY <1>1 DEF Channel
  <2> HIDE DEF d
  <2>3. QED
    BY <1>3, <2>1, <2>2 DEF ChannelInv
<1>4. QED
  BY <1>2, <1>3 DEF Turns

\* The first payload of an objective is judged; a node that rejects it has not
\* signed, and none that has is ever asked again.
LEMMA ReceiveNewStep ==
  ASSUME InductiveInv, NEW n \in Nodes, NEW m \in network, ReceiveNew(n, m)
  PROVE  InductiveInv'
<1> DEFINE c == IF Status(n, m.ch) = "unknown" THEN NewChannel ELSE channels[n][m.ch]
           approved == [status |-> "approved", submitted |-> FALSE]
<1>1. PICK ch \in Channels : ch = m.ch
  BY DEF InductiveInv, TypeOK, Message
<1>2. /\ TypeOK /\ m.to = n /\ m.type = "prefund" /\ m \in Message
      /\ IsUnjudged(n, ch)
      /\ channels' = [channels EXCEPT ![n][ch] = c]
      /\ UNCHANGED <<owned, ledgers, engine, chain, seen, replays, signed>>
  BY <1>1 DEF InductiveInv, TypeOK, ReceiveNew
<1>3. PICK s \in {"unapproved", "rejected"} :
        /\ objectives' = [objectives EXCEPT ![n][ch] = [status |-> s, submitted |-> FALSE]]
        /\ s = "unapproved" => /\ Load(n, ch, approved, AddSignature(c, m))
                               /\ TakeAndSend(m, {})
        /\ s = "rejected" => /\ UNCHANGED doing
                             /\ TakeAndSend(m, {[type |-> "rejection", ch |-> ch, to |-> Peer(n)]})
  BY <1>1 DEF ReceiveNew
<1> DEFINE o == [status |-> s, submitted |-> FALSE]
<1>4. c \in Channel /\ ChannelInv(ch, c)
  <2>1. CASE Status(n, ch) = "unknown"
    BY <1>1, <2>1, NewChannelHolds
  <2>2. CASE Status(n, ch) = "unapproved"
    <3>1. objectives[n][ch] # None /\ objectives[n][ch].status = "unapproved"
      BY <2>2 DEF Status
    <3>2. channels[n][ch] # None /\ ChannelInv(ch, channels[n][ch])
      BY <3>1 DEF InductiveInv, StoreInv, ObjectiveInv
    <3>3. QED
      BY <1>1, <1>2, <2>2, <3>2 DEF TypeOK
  <2>3. QED
    BY <1>2, <2>1, <2>2 DEF IsUnjudged
<1> HIDE DEF c
<1>5. /\ n \notin signed["prefund"][ch]
      /\ deposited[n][ch] \in Nat /\ ~ deposited[n][ch] > 0
  <2>1. StoreInv(n, ch) /\ deposited[n][ch] \in Nat
    BY <1>2 DEF InductiveInv, TypeOK
  <2>2. objectives[n][ch] # None => ~ objectives[n][ch].submitted
    <3>1. SUFFICES ASSUME objectives[n][ch] # None PROVE ~ objectives[n][ch].submitted
      OBVIOUS
    <3>2. objectives[n][ch].status \in {"unapproved", "approved", "completed", "rejected"}
      BY <1>2, <3>1 DEF TypeOK, Objective
    <3>3. objectives[n][ch].status = "unapproved"
      BY <1>2, <3>1, <3>2 DEF IsUnjudged, Status
    <3>4. QED
      BY <2>1, <3>1, <3>3 DEF StoreInv, ObjectiveInv
  <2>3. QED
    BY <1>2, <2>1, <2>2 DEF StoreInv
<1>6. o \in Objective /\ o.status = s /\ o.submitted = FALSE /\ o # None /\ c # None
  <2>1. o \in Objective
    BY DEF Objective
  <2>2. QED
    BY <1>4, <2>1, NoneAssumption
<1> HIDE DEF o
<1>7. /\ objectives' = [objectives EXCEPT ![n][ch] = o]
      /\ objectives'[n][ch] = o /\ channels'[n][ch] = c
      /\ \A d \in Channels : d # ch => /\ objectives'[n][d] = objectives[n][d]
                                       /\ channels'[n][d] = channels[n][d]
      /\ \A k \in Nodes : k # n => objectives'[k] = objectives[k] /\ channels'[k] = channels[k]
      /\ objectives' \in [Nodes -> [Channels -> Objective \cup {None}]]
      /\ channels' \in [Nodes -> [Channels -> Channel \cup {None}]]
  BY <1>2, <1>3, <1>4, <1>6 DEF TypeOK, o
<1>8. Advances
  <2>1. \A k \in Nodes, d \in Channels :
          Status(k, d) = "rejected" => Status(k, d)' = "rejected"
    <3>1. SUFFICES ASSUME NEW k \in Nodes, NEW d \in Channels, Status(k, d) = "rejected"
                   PROVE  Status(k, d)' = "rejected"
      OBVIOUS
    <3>2. CASE k = n /\ d = ch
      BY <1>2, <3>1, <3>2 DEF IsUnjudged
    <3>3. CASE k # n \/ d # ch
      BY <1>7, <3>1, <3>3 DEF Status
    <3>4. QED
      BY <3>2, <3>3
  <2>2. QED
    BY <1>2, <2>1, AdvancesQuietly
<1>9. Peer(n) \in signed["prefund"][ch]
  BY <1>1, <1>2 DEF InductiveInv, NetworkInv
<1>10. /\ doing' \in [Nodes -> Loaded \cup Effects \cup {Idle}]
       /\ doing'[n] # Idle => WorkInv(n, doing[n])'
       /\ \A k \in Nodes : k # n => doing'[k] = doing[k]
  <2>1. CASE s = "rejected"
    <3>1. doing[n] = Idle
      BY DEF ReceiveNew, IsFree
    <3>2. QED
      BY <1>2, <1>3, <2>1, <3>1 DEF TypeOK
  <2>2. CASE s = "unapproved"
    <3>1. AddSignature(c, m) \in Channel /\ ChannelInv(ch, AddSignature(c, m))
      <4>1. m.type \in Turns
        BY <1>2 DEF Turns
      <4>2. QED
        BY <1>1, <1>2, <1>4, <1>9, <4>1, AddSignatureHolds
    <3>2. PICK x \in Channel : x = AddSignature(c, m) /\ ChannelInv(ch, x)
      BY <3>1
    <3>3. ChannelInv(ch, x)'
      BY <1>2, <3>2 DEF ChannelInv, WasHeld, HasPaid, chain
    <3>4. IsUnjudged(n, ch)'
      BY <1>6, <1>7, <2>2 DEF IsUnjudged, Status
    <3>5. PICK a \in Objective : a = approved
      BY DEF Objective
    <3>6. Load(n, ch, a, x)
      BY <1>3, <2>2, <3>2, <3>5
    <3>7. QED
      BY <1>2, <3>3, <3>4, <3>5, <3>6, LoadStep
  <2>3. QED
    BY <2>1, <2>2
<1>11. s = "rejected" => HasRejected(ch)'
  BY <1>2, <1>5, <1>6, <1>7 DEF HasRejected, Status
<1>12. network' \subseteq Message
       /\ \A x \in network' : \/ x \in network
                              \/ x.type = "rejection" /\ HasRejected(x.ch)'
  <2>1. CASE s = "unapproved"
    BY <1>2, <1>3, <2>1, TakeType
  <2>2. CASE s = "rejected"
    <3>1. PICK r \in Message :
            /\ r = [type |-> "rejection", ch |-> ch, to |-> Peer(n)]
            /\ r.type = "rejection" /\ r.ch = ch
      <4>1. Peer(n) \in Nodes
        BY NodesDiffer
      <4>2. [type |-> "rejection", ch |-> ch, to |-> Peer(n)] \in Message
        BY <4>1 DEF Message
      <4>3. QED
        BY <4>2
    <3>2. {r} \in SUBSET Message /\ TakeAndSend(m, {r})
      BY <1>3, <2>2, <3>1
    <3>3. network' \subseteq Message /\ network' \subseteq network \cup {r}
      BY <1>2, <3>2, TakeAndSendType
    <3>4. QED
      BY <1>11, <2>2, <3>1, <3>3
  <2>3. QED
    BY <2>1, <2>2
<1>13. TypeOK'
  BY <1>2, <1>7, <1>10, <1>12 DEF TypeOK, chain
<1>14. NetworkInv'
  BY <1>8, <1>12, <1>13, NetworkStays
<1>15. StoreInv(n, ch)'
  <2>1. ObjectiveInv(n, ch)'
    BY <1>6, <1>7, <1>11 DEF ObjectiveInv
  <2>2. ChannelInv(ch, channels[n][ch])'
    <3>1. PICK x \in Channel : x = c
      BY <1>4
    <3>2. ChannelInv(ch, x)'
      BY <1>2, <1>4, <3>1 DEF ChannelInv, WasHeld, HasPaid, chain
    <3>3. QED
      BY <1>7, <3>1, <3>2
  <2>3. ch \in ledgers'[n] => signed'["postfund"][ch] = Nodes
    BY <1>2 DEF InductiveInv, StoreInv
  <2>4. QED
    BY <1>2, <1>5, <1>6, <1>7, <2>1, <2>2, <2>3 DEF StoreInv, chain
<1>16. \A d \in Channels : StoreInv(n, d)'
  <2>1. \A d \in Channels : d # ch => StoreInv(n, d)'
    BY <1>2, <1>7, <1>8, <1>13, StoreStays DEF InductiveInv, chain
  <2>2. QED
    BY <1>15, <2>1
<1>17. QED
  BY <1>2, <1>7, <1>8, <1>10, <1>13, <1>14, <1>16, ChainRests, NodeStep DEF chain

\* A payload of an objective whose Channel is gone ends the run loop.
LEMMA ReceiveForMissingChannelStep ==
  ASSUME InductiveInv, NEW n \in Nodes, NEW m \in network, ReceiveForMissingChannel(n, m)
  PROVE  InductiveInv'
<1>1. /\ TypeOK /\ UNCHANGED <<store, chain, seen, replays, signed>>
      /\ TakeAndSend(m, {}) /\ doing' = [doing EXCEPT ![n] = Idle]
      /\ engine' = [engine EXCEPT ![n] = "ErrGetObjective"]
  BY DEF InductiveInv, ReceiveForMissingChannel, Stop
<1>2. network' \subseteq Message /\ network' \subseteq network
  BY <1>1, TakeType
<1>3. /\ doing' \in [Nodes -> Loaded \cup Effects \cup {Idle}]
      /\ \A k \in Nodes : doing'[k] = doing[k] \/ doing'[k] = Idle
      /\ engine' \in [Nodes -> Errors \cup {"running"}]
  BY <1>1 DEF TypeOK, Errors
<1>4. QED
  BY <1>1, <1>2, <1>3, QuietStep DEF TypeOK, chain

\* The payload of an objective that runs is loaded, that of one that is over
\* is dropped.
LEMMA ReceiveStep ==
  ASSUME InductiveInv, NEW n \in Nodes, NEW m \in network, Receive(n, m)
  PROVE  InductiveInv'
<1>1. PICK ch \in Channels : ch = m.ch
  BY DEF InductiveInv, TypeOK, Message
<1>2. /\ TypeOK /\ m.to = n /\ m.type \in Turns /\ m \in Message
      /\ ~ IsUnjudged(n, ch) /\ channels[n][ch] # None
      /\ TakeAndSend(m, {})
      /\ UNCHANGED <<store, engine, chain, seen, replays, signed>>
  BY <1>1 DEF InductiveInv, TypeOK, Receive
<1>3. \/ Load(n, ch, objectives[n][ch], AddSignature(channels[n][ch], m))
      \/ UNCHANGED doing
  BY <1>1 DEF Receive
<1>4. network' \subseteq Message /\ network' \subseteq network
  BY <1>2, TakeType
<1>5. CASE UNCHANGED doing
  BY <1>2, <1>4, <1>5, QuietStep DEF TypeOK, chain
<1>6. CASE Load(n, ch, objectives[n][ch], AddSignature(channels[n][ch], m))
  <2>1. objectives[n][ch] # None
    BY <1>2 DEF IsUnjudged, Status
  <2>2. PICK o \in Objective : o = objectives[n][ch]
    BY <1>2, <2>1 DEF TypeOK
  <2>3. PICK c \in Channel : c = channels[n][ch] /\ ChannelInv(ch, c)
    BY <1>2 DEF InductiveInv, TypeOK, StoreInv
  <2>4. Peer(n) \in signed[m.type][ch]
    <3>1. m.type # "rejection"
      BY <1>2 DEF Turns
    <3>2. QED
      BY <1>1, <1>2, <3>1 DEF InductiveInv, NetworkInv
  <2>5. AddSignature(c, m) \in Channel /\ ChannelInv(ch, AddSignature(c, m))
    BY <1>1, <1>2, <2>3, <2>4, AddSignatureHolds
  <2>6. PICK x \in Channel : x = AddSignature(c, m) /\ ChannelInv(ch, x)
    BY <2>5
  <2>7. ChannelInv(ch, x)'
    BY <1>2, <2>6 DEF ChannelInv, WasHeld, HasPaid, chain
  <2>8. o = objectives'[n][ch] /\ Load(n, ch, o, x)
    BY <1>2, <1>6, <2>2, <2>3, <2>6 DEF store
  <2>9. /\ doing' \in [Nodes -> Loaded \cup Effects \cup {Idle}]
        /\ doing'[n] # Idle => WorkInv(n, doing[n])'
        /\ \A k \in Nodes : k # n => doing'[k] = doing[k]
    BY <1>2, <2>7, <2>8, LoadStep
  <2>10. Advances
    BY <1>2, AdvancesQuietly DEF Status, store
  <2>11. TypeOK'
    BY <1>2, <1>4, <2>9 DEF TypeOK, store, chain
  <2>12. NetworkInv'
    BY <1>4, <2>10, <2>11, NetworkStays
  <2>13. \A d \in Channels : StoreInv(n, d)'
    BY <1>2, <2>10, <2>11, StoreStays DEF InductiveInv, store, chain
  <2>14. QED
    BY <1>2, <2>9, <2>10, <2>11, <2>12, <2>13, ChainRests, NodeStep DEF store, chain
<1>7. QED
  BY <1>3, <1>5, <1>6

\* The notice of a rejection is believed; somebody has not signed then.
LEMMA ReceiveRejectionStep ==
  ASSUME InductiveInv, NEW n \in Nodes, NEW m \in network, ReceiveRejection(n, m)
  PROVE  InductiveInv'
<1>1. PICK ch \in Channels : ch = m.ch
  BY DEF InductiveInv, TypeOK, Message
<1>2. /\ TypeOK /\ m.type = "rejection" /\ doing[n] = Idle
      /\ channels[n][ch] # None /\ TakeAndSend(m, {})
      /\ UNCHANGED <<channels, owned, ledgers, doing, engine, chain, seen, replays, signed>>
  BY <1>1 DEF InductiveInv, ReceiveRejection, IsFree
<1>3. StoreInv(n, ch) /\ objectives[n][ch] # None
  BY <1>2 DEF InductiveInv, StoreInv
<1>4. PICK p \in Objective : p = objectives[n][ch]
  BY <1>2, <1>3 DEF TypeOK
<1> DEFINE o == [p EXCEPT !.status = "rejected"]
<1>5. o \in Objective /\ o.status = "rejected" /\ o.submitted = p.submitted /\ o # None
  <2>1. o \in Objective
    BY DEF Objective
  <2>2. QED
    BY <2>1, NoneAssumption DEF Objective
<1>6. objectives' = [objectives EXCEPT ![n][ch] = o]
  BY <1>1, <1>4 DEF ReceiveRejection
<1> HIDE DEF o
<1>7. /\ objectives'[n][ch] = o
      /\ \A d \in Channels : d # ch => objectives'[n][d] = objectives[n][d]
      /\ \A k \in Nodes : k # n => objectives'[k] = objectives[k]
      /\ objectives' \in [Nodes -> [Channels -> Objective \cup {None}]]
  BY <1>2, <1>5, <1>6 DEF TypeOK
<1>8. Advances
  <2>1. \A k \in Nodes, d \in Channels :
          Status(k, d) = "rejected" => Status(k, d)' = "rejected"
    BY <1>5, <1>7 DEF Status
  <2>2. QED
    BY <1>2, <2>1, AdvancesQuietly
<1>9. HasRejected(ch)'
  <2>1. HasRejected(ch)
    BY <1>1, <1>2 DEF InductiveInv, NetworkInv
  <2>2. QED
    BY <1>8, <2>1 DEF Advances
<1>10. network' \subseteq Message /\ network' \subseteq network
  BY <1>2, TakeType
<1>11. TypeOK'
  BY <1>2, <1>7, <1>10 DEF TypeOK, chain
<1>12. NetworkInv'
  BY <1>8, <1>10, <1>11, NetworkStays
<1>13. StoreInv(n, ch)'
  <2>1. ObjectiveInv(n, ch)'
    BY <1>2, <1>5, <1>7, <1>9 DEF ObjectiveInv
  <2>2. ChannelInv(ch, channels[n][ch])'
    <3>1. PICK c \in Channel : c = channels[n][ch] /\ ChannelInv(ch, c)
      BY <1>2, <1>3 DEF TypeOK, StoreInv
    <3>2. ChannelInv(ch, c)'
      BY <1>2, <3>1 DEF ChannelInv, WasHeld, HasPaid, chain
    <3>3. QED
      BY <1>2, <3>1, <3>2
  <2>3. ~ IsUnjudged(n, ch)'
    BY <1>5, <1>7 DEF IsUnjudged, Status
  <2>4. QED
    BY <1>2, <1>3, <1>4, <1>5, <1>7, <2>1, <2>2, <2>3 DEF StoreInv, chain
<1>14. \A d \in Channels : StoreInv(n, d)'
  <2>1. \A d \in Channels : d # ch => StoreInv(n, d)'
    BY <1>2, <1>7, <1>8, <1>11, StoreStays DEF InductiveInv, chain
  <2>2. QED
    BY <1>13, <2>1
<1>15. QED
  BY <1>2, <1>7, <1>8, <1>11, <1>12, <1>14, ChainRests, NodeStep DEF chain

\* A chain event is recorded in the Channel and cranks the objective that owns
\* it; of a Channel that nobody owns it ends the run loop.
LEMMA HandleChainEventStep ==
  ASSUME InductiveInv, NEW n \in Nodes, HandleChainEvent(n)
  PROVE  InductiveInv'
<1>1. /\ TypeOK /\ seen[n] < Len(log) /\ doing[n] = Idle
      /\ seen' = [seen EXCEPT ![n] = @ + 1]
      /\ UNCHANGED <<objectives, owned, ledgers, network, chain, replays, signed>>
  BY DEF InductiveInv, HandleChainEvent, IsFree
<1>2. seen[n] + 1 \in 1..Len(log) /\ seen' \in [Nodes -> 0..Len(log)]
  BY <1>1, LenProperties DEF TypeOK
<1>3. PICK e \in Event : e = log[seen[n] + 1] /\ WasHeld(e.ch, e.held)
  BY <1>1, <1>2, ElementOfSeq DEF InductiveInv, TypeOK, LogInv
<1>4. PICK ch \in Channels : ch = e.ch
  BY DEF Event
<1> DEFINE c == Recorded(channels[n][ch], e)
<1>5. \/ UNCHANGED <<channels, doing, engine>>
      \/ /\ channels[n][ch] # None
         /\ channels' = [channels EXCEPT ![n][ch] = c]
         /\ \/ /\ ch \in owned[n]
               /\ Load(n, ch, objectives[n][ch], c)
               /\ UNCHANGED engine
            \/ Stop(n, "AssertionError")
  BY <1>3, <1>4 DEF HandleChainEvent
<1>6. CASE UNCHANGED <<channels, doing, engine>>
  BY <1>1, <1>2, <1>6, QuietStep DEF TypeOK, store, chain
<1>7. CASE /\ channels[n][ch] # None
           /\ channels' = [channels EXCEPT ![n][ch] = c]
           /\ \/ /\ ch \in owned[n]
                 /\ Load(n, ch, objectives[n][ch], c)
                 /\ UNCHANGED engine
              \/ Stop(n, "AssertionError")
  <2>1. PICK x \in Channel : x = c /\ ChannelInv(ch, x) /\ x # None
    <3>1. PICK y \in Channel : y = channels[n][ch] /\ ChannelInv(ch, y)
      BY <1>1, <1>7 DEF InductiveInv, TypeOK, StoreInv
    <3> DEFINE z == [y EXCEPT !.holdings = e.held]
    <3>2. /\ z \in Channel /\ z.prefund = y.prefund /\ z.postfund = y.postfund
          /\ z.holdings = e.held /\ z = c
      BY <3>1 DEF Channel, Event, Recorded
    <3> HIDE DEF z
    <3>3. ChannelInv(ch, z)
      BY <1>3, <1>4, <3>1, <3>2 DEF ChannelInv
    <3>4. QED
      BY <3>2, <3>3, NoneAssumption
  <2> HIDE DEF c
  <2>2. /\ channels'[n][ch] = x
        /\ \A d \in Channels : d # ch => channels'[n][d] = channels[n][d]
        /\ \A k \in Nodes : k # n => channels'[k] = channels[k]
        /\ channels' \in [Nodes -> [Channels -> Channel \cup {None}]]
    BY <1>1, <1>7, <2>1 DEF TypeOK
  <2>3. Advances
    BY <1>1, AdvancesQuietly DEF Status
  <2>4. ChannelInv(ch, x)'
    BY <1>1, <2>1 DEF ChannelInv, WasHeld, HasPaid, chain
  <2>5. /\ doing' \in [Nodes -> Loaded \cup Effects \cup {Idle}]
        /\ doing'[n] # Idle => WorkInv(n, doing[n])'
        /\ \A k \in Nodes : k # n => doing'[k] = doing[k]
        /\ engine' \in [Nodes -> Errors \cup {"running"}]
    <3>1. CASE Stop(n, "AssertionError")
      BY <1>1, <3>1 DEF Stop, TypeOK, Errors
    <3>2. CASE ch \in owned[n] /\ Load(n, ch, objectives[n][ch], c) /\ UNCHANGED engine
      <4>1. PICK o \in Objective : o = objectives[n][ch]
        BY <1>1, <3>2 DEF InductiveInv, TypeOK, StoreInv
      <4>2. Load(n, ch, o, x) /\ o = objectives'[n][ch]
        BY <1>1, <2>1, <3>2, <4>1
      <4>3. /\ doing' \in [Nodes -> Loaded \cup Effects \cup {Idle}]
            /\ doing'[n] # Idle => WorkInv(n, doing[n])'
            /\ \A k \in Nodes : k # n => doing'[k] = doing[k]
        BY <1>1, <2>4, <4>2, LoadStep
      <4>4. QED
        BY <1>1, <3>2, <4>3 DEF TypeOK
    <3>3. QED
      BY <1>7, <3>1, <3>2
  <2>6. TypeOK'
    BY <1>1, <1>2, <2>2, <2>5 DEF TypeOK, chain
  <2>7. NetworkInv'
    BY <1>1, <2>3, <2>6, NetworkStays
  <2>8. StoreInv(n, ch)'
    <3>1. StoreInv(n, ch)
      BY DEF InductiveInv
    <3>2. objectives[n][ch] # None => ObjectiveInv(n, ch)'
      BY <1>1, <2>1, <2>2, <3>1 DEF StoreInv, ObjectiveInv, HasRejected, Status
    <3>3. QED
      BY <1>1, <1>7, <2>1, <2>2, <2>4, <3>1, <3>2 DEF StoreInv, IsUnjudged, Status, chain
  <2>9. \A d \in Channels : StoreInv(n, d)'
    <3>1. \A d \in Channels : d # ch => StoreInv(n, d)'
      BY <1>1, <2>2, <2>3, <2>6, StoreStays DEF InductiveInv, chain
    <3>2. QED
      BY <2>8, <3>1
  <2>10. QED
    BY <1>1, <2>2, <2>3, <2>5, <2>6, <2>7, <2>9, ChainRests, NodeStep DEF chain
<1>8. QED
  BY <1>5, <1>6, <1>7

-----------------------------------------------------------------------------
(***************************************************************************)
(* The steps of a handler that has started.                                *)
(***************************************************************************)

\* What the chain held was everything only when both have paid.
LEMMA FullIsPaid ==
  ASSUME TypeOK, NEW ch \in Channels, MoneyInv(ch), NEW amount, WasHeld(ch, amount),
         amount >= TotalShare
  PROVE  \A n \in Nodes : HasPaid(n, ch)
<1> DEFINE i == Initiator[ch]
<1>1. i \in Nodes /\ Peer(i) \in Nodes /\ \A k \in Nodes : k = i \/ k = Peer(i)
  BY Participants, NodesDiffer
<1>2. /\ Share[i] \in Nat /\ Share[Peer(i)] \in Nat
      /\ TotalShare = Share[i] + Share[Peer(i)] /\ TotalShare > 0
  BY <1>1, SharesAdd
<1>3. deposited[Peer(i)][ch] \in {0, Share[Peer(i)]}
  BY <1>1 DEF MoneyInv
<1> HIDE DEF i
<1>4. CASE amount = Share[i] /\ HasPaid(i, ch)
  <2>1. Share[Peer(i)] = 0
    BY <1>2, <1>4
  <2>2. QED
    BY <1>1, <1>3, <1>4, <2>1 DEF HasPaid
<1>5. amount # 0
  BY <1>2
<1>6. QED
  BY <1>4, <1>5 DEF WasHeld, i

\* A node deposits its share, the responder on top of the initiator's.
LEMMA DepositIsShare ==
  ASSUME TypeOK, NEW n \in Nodes, NEW ch \in Channels, NEW c \in Channel,
         MoneyInv(ch), ChannelInv(ch, c), ~ FundingComplete(c), SafeToDeposit(n, ch, c),
         AmountToDeposit(n, ch, c) # 0, deposited[n][ch] = 0
  PROVE  /\ AmountToDeposit(n, ch, c) = Share[n]
         /\ n = Initiator[ch] \/ HasPaid(Initiator[ch], ch)
<1> DEFINE i == Initiator[ch]
           r == Peer(i)
<1>1. /\ i \in Nodes /\ r \in Nodes /\ r # i /\ Peer(r) = i
      /\ \A k \in Nodes : k = i \/ k = r
  BY Participants, NodesDiffer
<1>2. /\ Share[i] \in Nat /\ Share[r] \in Nat
      /\ TotalShare = Share[i] + Share[r] /\ TotalShare > 0
  BY <1>1, SharesAdd
<1>3. /\ c.holdings \in Nat /\ c.holdings < TotalShare
      /\ WasHeld(ch, c.holdings)
      /\ deposited[i][ch] \in {0, Share[i]}
  BY <1>1, <1>2 DEF Channel, FundingComplete, ChannelInv, MoneyInv
<1>4. c.holdings = 0 \/ (c.holdings = Share[i] /\ HasPaid(i, ch))
  BY <1>2, <1>3 DEF WasHeld
<1>5. CASE n = i
  <2>1. AmountToDeposit(n, ch, c) = Share[n] - c.holdings
    BY <1>2, <1>3, <1>5 DEF AmountToDeposit, Threshold
  <2> HIDE DEF i, r
  <2>2. c.holdings = 0
    BY <1>2, <1>3, <1>4, <1>5, <2>1 DEF HasPaid
  <2>3. QED
    BY <1>2, <1>5, <2>1, <2>2 DEF i
<1>6. CASE n = r
  <2>1. /\ AmountToDeposit(n, ch, c) = Share[i] + Share[r] - c.holdings
        /\ c.holdings >= Share[i]
    BY <1>1, <1>6 DEF AmountToDeposit, SafeToDeposit, Threshold
  <2> HIDE DEF i, r
  <2>2. c.holdings = Share[i] /\ HasPaid(i, ch)
    BY <1>2, <1>3, <1>4, <2>1 DEF HasPaid
  <2>3. QED
    BY <1>2, <1>6, <2>1, <2>2 DEF i
<1>7. QED
  BY <1>1, <1>5, <1>6

\* What crank makes of a channel in memory.
LEMMA SignedIs ==
  ASSUME NEW n \in Nodes, NEW c \in Channel
  PROVE  /\ Signed(n, c) \in Channel
         /\ Signed(n, c).prefund = c.prefund \cup {n}
         /\ Signed(n, c).postfund = IF ShouldSignPostfund(n, c) THEN c.postfund \cup {n}
                                    ELSE c.postfund
         /\ Signed(n, c).holdings = c.holdings
BY DEF Signed, Channel

\* A node in the middle of a handler.
LEMMA InHandler ==
  ASSUME InductiveInv, NEW n \in Nodes, doing[n] # Idle
  PROVE  \E w \in Loaded \cup Effects :
           /\ w = doing[n] /\ w # Idle /\ WorkInv(n, w)
           /\ IF w.step = "crank" THEN w \in Loaded ELSE w \in Effects
<1>1. doing[n] \in Loaded \cup Effects /\ WorkInv(n, doing[n])
  BY DEF InductiveInv, TypeOK
<1>2. QED
  BY <1>1 DEF Loaded, Effects

\* crank signs, records what it has signed and is about to send and deposit,
\* and leaves that to the rest of the handler.
LEMMA CrankStep ==
  ASSUME InductiveInv, NEW n \in Nodes, Crank(n)
  PROVE  InductiveInv'
<1>1. PICK w \in Loaded : w = doing[n] /\ w.step = "crank" /\ LoadedInv(n, w)
  BY InHandler DEF Crank, WorkInv
<1>2. PICK ch \in Channels : ch = w.ch
  BY DEF Loaded
<1>3. PICK b \in Channel : b = w.channel
  BY DEF Loaded
<1> DEFINE c == Signed(n, b)
           complete == IsComplete(n, b)
           o == [status    |-> IF complete THEN "completed" ELSE "approved",
                 submitted |-> w.objective.submitted \/ ShouldDeposit(n, w)]
           v == [step     |-> IF complete THEN "release" ELSE "send",
                 ch       |-> ch,
                 messages |-> MessagesToSend(n, ch, b),
                 deposit  |-> IF ShouldDeposit(n, w) THEN AmountToDeposit(n, ch, b) ELSE 0]
<1>4. /\ TypeOK /\ w.objective.status = "approved"
      /\ objectives' = [objectives EXCEPT ![n][ch] = o]
      /\ channels' = [channels EXCEPT ![n][ch] = c]
      /\ owned' = [owned EXCEPT ![n] = IF complete THEN @ ELSE @ \cup {ch}]
      /\ doing' = [doing EXCEPT ![n] = v]
      /\ UNCHANGED <<ledgers, engine, network, chain, seen, replays>>
  BY <1>1, <1>2, <1>3 DEF InductiveInv, Crank
<1>5. signed' = [t \in Turns |->
          [signed[t] EXCEPT ![ch] = IF n \in c[t] THEN @ \cup {n} ELSE @]]
  BY <1>1, <1>2, <1>3 DEF Crank
<1>6. /\ StoreInv(n, ch) /\ MoneyInv(ch) /\ ChannelInv(ch, b)
      /\ \/ w.objective = objectives[n][ch]
         \/ /\ w.objective = [status |-> "approved", submitted |-> FALSE]
            /\ IsUnjudged(n, ch)
  BY <1>1, <1>2, <1>3 DEF InductiveInv, LoadedInv
<1>7. /\ c \in Channel /\ c.prefund = b.prefund \cup {n} /\ c.holdings = b.holdings
      /\ c.postfund = IF ShouldSignPostfund(n, b) THEN b.postfund \cup {n} ELSE b.postfund
      /\ c # None
  BY SignedIs, NoneAssumption
<1>8. /\ signed' \in [Turns -> [Channels -> SUBSET Nodes]]
      /\ signed'["prefund"][ch] = signed["prefund"][ch] \cup {n}
      /\ signed'["postfund"][ch] = IF n \in c.postfund THEN signed["postfund"][ch] \cup {n}
                                   ELSE signed["postfund"][ch]
      /\ \A t \in Turns, d \in Channels : d # ch => signed'[t][d] = signed[t][d]
  <2>1. "prefund" \in Turns /\ "postfund" \in Turns
    BY DEF Turns
  <2>2. n \in c["prefund"] /\ c["postfund"] = c.postfund
    BY <1>7
  <2> HIDE DEF c
  <2>3. \A t \in Turns : signed[t] \in [Channels -> SUBSET Nodes]
    BY <1>4 DEF TypeOK
  <2>4. \A t \in Turns :
          /\ signed'[t] = [signed[t] EXCEPT ![ch] = IF n \in c[t] THEN @ \cup {n} ELSE @]
          /\ signed'[t] \in [Channels -> SUBSET Nodes]
    BY <1>5, <2>3
  <2>5. signed' \in [Turns -> [Channels -> SUBSET Nodes]]
    BY <1>5, <2>4
  <2>6. \A t \in Turns :
          /\ signed'[t][ch] = IF n \in c[t] THEN signed[t][ch] \cup {n} ELSE signed[t][ch]
          /\ \A d \in Channels : d # ch => signed'[t][d] = signed[t][d]
    <3>1. SUFFICES ASSUME NEW t \in Turns
                   PROVE  /\ signed'[t][ch] = IF n \in c[t] THEN signed[t][ch] \cup {n}
                                              ELSE signed[t][ch]
                          /\ \A d \in Channels : d # ch => signed'[t][d] = signed[t][d]
      OBVIOUS
    <3>2. PICK f \in [Channels -> SUBSET Nodes] : f = signed[t]
      BY <2>3
    <3>3. signed'[t] = [f EXCEPT ![ch] = IF n \in c[t] THEN f[ch] \cup {n} ELSE f[ch]]
      BY <2>4, <3>2
    <3>4. QED
      BY <3>2, <3>3
  <2>7. QED
    BY <2>1, <2>2, <2>5, <2>6
<1>9. ShouldSignPostfund(n, b) => /\ \A k \in Nodes : HasPaid(k, ch)
                                  /\ b.prefund \cup {n} = Nodes
  <2>1. b.holdings \in Nat /\ WasHeld(ch, b.holdings)
    BY <1>6 DEF Channel, ChannelInv
  <2>2. QED
    BY <1>4, <1>6, <2>1, FullIsPaid DEF ShouldSignPostfund, FundingComplete, Prefunded
<1>10. n \in c.postfund => \A k \in Nodes : HasPaid(k, ch)
  BY <1>6, <1>7, <1>9 DEF ChannelInv, MoneyInv
<1>11. complete => /\ ShouldSignPostfund(n, b) /\ signed'["postfund"][ch] = Nodes
  <2>1. SUFFICES ASSUME complete
                 PROVE  ShouldSignPostfund(n, b) /\ signed'["postfund"][ch] = Nodes
    OBVIOUS
  <2>2. ShouldSignPostfund(n, b) /\ c.postfund = Nodes
    BY <2>1 DEF IsComplete
  <2>3. c.postfund = b.postfund \cup {n} /\ b.postfund \subseteq signed["postfund"][ch]
    BY <1>6, <1>7, <2>2 DEF ChannelInv
  <2>4. Nodes \subseteq signed'["postfund"][ch]
    BY <1>8, <2>2, <2>3
  <2>5. signed'["postfund"][ch] \subseteq Nodes
    BY <1>8 DEF Turns
  <2>6. QED
    BY <2>2, <2>4, <2>5
<1>12. Status(n, ch) # "rejected"
  BY <1>4, <1>6 DEF Status, IsUnjudged
<1>13. deposited[n][ch] \in Nat /\ (deposited[n][ch] > 0 => w.objective.submitted)
  <2>1. deposited[n][ch] \in Nat
    BY <1>4 DEF TypeOK
  <2>2. ASSUME deposited[n][ch] > 0 PROVE w.objective.submitted
    <3>1. objectives[n][ch] # None /\ objectives[n][ch].submitted
      BY <1>6, <2>2 DEF StoreInv
    <3>2. objectives[n][ch].status \in {"unapproved", "approved", "completed", "rejected"}
      BY <1>4, <3>1 DEF TypeOK, Objective
    <3>3. ~ IsUnjudged(n, ch)
      BY <1>6, <3>1, <3>2 DEF StoreInv, ObjectiveInv, IsUnjudged, Status
    <3>4. QED
      BY <1>6, <3>1, <3>3
  <2>3. QED
    BY <2>1, <2>2
<1>14. ShouldDeposit(n, w) =>
         /\ AmountToDeposit(n, ch, b) = Share[n] /\ deposited[n][ch] = 0
         /\ n = Initiator[ch] \/ HasPaid(Initiator[ch], ch)
         /\ signed'["prefund"][ch] = Nodes
  <2>1. SUFFICES ASSUME ShouldDeposit(n, w)
                 PROVE  /\ AmountToDeposit(n, ch, b) = Share[n] /\ deposited[n][ch] = 0
                        /\ n = Initiator[ch] \/ HasPaid(Initiator[ch], ch)
                        /\ signed'["prefund"][ch] = Nodes
    OBVIOUS
  <2>2. /\ Prefunded(n, b) /\ ~ FundingComplete(b) /\ SafeToDeposit(n, ch, b)
        /\ AmountToDeposit(n, ch, b) # 0 /\ ~ w.objective.submitted
    BY <1>2, <1>3, <2>1 DEF ShouldDeposit
  <2>3. deposited[n][ch] = 0
    BY <1>13, <2>2
  <2>4. b.prefund \cup {n} = Nodes
    BY <2>2 DEF Prefunded
  <2>5. signed["prefund"][ch] \subseteq Nodes
    BY <1>4 DEF TypeOK, Turns
  <2>6. signed'["prefund"][ch] = Nodes
    BY <1>6, <1>8, <2>4, <2>5 DEF ChannelInv
  <2>7. QED
    BY <1>4, <1>6, <2>2, <2>3, <2>6, DepositIsShare
<1>15. ShouldDeposit(n, w) \in BOOLEAN /\ complete \in BOOLEAN /\ w.objective \in Objective
  BY DEF ShouldDeposit, IsComplete, ShouldSignPostfund, Loaded
<1>16. /\ o \in Objective /\ o # None
       /\ o.status = IF complete THEN "completed" ELSE "approved"
       /\ o.submitted = (w.objective.submitted \/ ShouldDeposit(n, w))
  <2>1. o \in Objective
    BY <1>15 DEF Objective
  <2>2. QED
    BY <2>1, NoneAssumption
<1>17. /\ MessagesToSend(n, ch, b) \subseteq Message
       /\ \A m \in MessagesToSend(n, ch, b) :
            m.type \in Turns /\ m.to = Peer(n) /\ m.ch = ch /\ n \in signed'[m.type][ch]
  <2>1. Peer(n) \in Nodes
    BY NodesDiffer
  <2>2. CASE c.postfund # b.postfund
    <3>1. MessagesToSend(n, ch, b) = {[type |-> "postfund", ch |-> ch, to |-> Peer(n)]}
      BY <2>2 DEF MessagesToSend
    <3>2. n \in signed'["postfund"][ch]
      BY <1>7, <1>8, <2>2
    <3>3. QED
      BY <2>1, <3>1, <3>2 DEF Message, Turns
  <2>3. CASE c.postfund = b.postfund /\ n \notin b.prefund
    <3>1. MessagesToSend(n, ch, b) = {[type |-> "prefund", ch |-> ch, to |-> Peer(n)]}
      BY <2>3 DEF MessagesToSend
    <3>2. n \in signed'["prefund"][ch]
      BY <1>8
    <3>3. QED
      BY <2>1, <3>1, <3>2 DEF Message, Turns
  <2>4. CASE c.postfund = b.postfund /\ n \in b.prefund
    BY <2>4 DEF MessagesToSend
  <2>5. QED
    BY <2>2, <2>3, <2>4
<1>18. /\ v \in Effects /\ v.ch = ch /\ v.step = IF complete THEN "release" ELSE "send"
       /\ v.messages = MessagesToSend(n, ch, b)
       /\ v.deposit = IF ShouldDeposit(n, w) THEN AmountToDeposit(n, ch, b) ELSE 0
  <2>1. (IF ShouldDeposit(n, w) THEN AmountToDeposit(n, ch, b) ELSE 0) \in Nat
    BY <1>14, SharesAdd
  <2>2. QED
    BY <1>17, <2>1 DEF Effects
<1> HIDE DEF c, o, v, complete
<1>19. /\ objectives'[n][ch] = o /\ channels'[n][ch] = c /\ doing'[n] = v
       /\ \A d \in Channels : d # ch => /\ objectives'[n][d] = objectives[n][d]
                                        /\ channels'[n][d] = channels[n][d]
                                        /\ (d \in owned'[n] => d \in owned[n])
       /\ \A k \in Nodes : k # n => /\ objectives'[k] = objectives[k]
                                    /\ channels'[k] = channels[k]
                                    /\ owned'[k] = owned[k] /\ doing'[k] = doing[k]
  BY <1>4 DEF TypeOK
<1>20. TypeOK'
  <2>1. objectives' \in [Nodes -> [Channels -> Objective \cup {None}]]
    BY <1>4, <1>16 DEF TypeOK
  <2>2. channels' \in [Nodes -> [Channels -> Channel \cup {None}]]
    BY <1>4, <1>7 DEF TypeOK
  <2>3. owned' \in [Nodes -> SUBSET Channels]
    BY <1>4 DEF TypeOK
  <2>4. doing' \in [Nodes -> Loaded \cup Effects \cup {Idle}]
    BY <1>4, <1>18 DEF TypeOK
  <2>5. QED
    BY <1>4, <1>8, <2>1, <2>2, <2>3, <2>4 DEF TypeOK, chain
<1>21. Advances
  <2>1. ASSUME NEW t \in Turns, NEW d \in Channels, NEW k \in Nodes, k \in signed[t][d]
        PROVE  k \in signed'[t][d]
    BY <1>8, <2>1 DEF Turns
  <2>2. ASSUME NEW d \in Channels, HasRejected(d) PROVE HasRejected(d)'
    <3>1. PICK k \in Nodes : Status(k, d) = "rejected" /\ k \notin signed["prefund"][d]
      BY <2>2 DEF HasRejected
    <3>2. k # n \/ d # ch
      BY <1>12, <3>1
    <3>3. Status(k, d)' = "rejected"
      BY <1>19, <3>1, <3>2 DEF Status
    <3>4. k \notin signed'["prefund"][d]
      BY <1>8, <3>1, <3>2 DEF Turns
    <3>5. QED
      BY <3>3, <3>4 DEF HasRejected
  <2>3. QED
    BY <1>4, <2>1, <2>2 DEF Advances, chain
<1>22. ChannelInv(ch, c)'
  BY <1>4, <1>6, <1>7, <1>8 DEF ChannelInv, WasHeld, HasPaid, chain
<1>23. StoreInv(n, ch)'
  <2>1. ObjectiveInv(n, ch)'
    BY <1>7, <1>11, <1>16, <1>19 DEF ObjectiveInv
  <2>2. ch \in ledgers'[n] => signed'["postfund"][ch] = Nodes
    <3>1. signed["postfund"][ch] = Nodes => signed'["postfund"][ch] = Nodes
      BY <1>4, <1>20, <1>21, SignedStays DEF Turns
    <3>2. QED
      BY <1>4, <1>6, <3>1 DEF StoreInv
  <2>3. deposited'[n][ch] > 0 => o.submitted
    BY <1>4, <1>13, <1>16 DEF chain
  <2>4. ~ IsUnjudged(n, ch)'
    BY <1>16, <1>19 DEF IsUnjudged, Status
  <2>5. QED
    BY <1>16, <1>19, <1>22, <2>1, <2>2, <2>3, <2>4 DEF StoreInv
<1>24. \A d \in Channels : StoreInv(n, d)'
  <2>1. ASSUME NEW d \in Channels, d # ch PROVE StoreInv(n, d)'
    <3>1. n \in signed'["prefund"][d] => n \in signed["prefund"][d]
      BY <1>8, <2>1 DEF Turns
    <3>2. StoreInv(n, d)
      BY DEF InductiveInv
    <3>3. QED
      BY <1>4, <1>19, <1>20, <1>21, <2>1, <3>1, <3>2, StoreStays DEF chain
  <2>2. QED
    BY <1>23, <2>1
<1>25. \A d \in Channels : MoneyInv(d)'
  <2>1. ASSUME NEW d \in Channels, d # ch PROVE MoneyInv(d)'
    <3>1. MoneyInv(d)
      BY DEF InductiveInv
    <3>2. signed'["prefund"][d] = signed["prefund"][d]
          /\ signed'["postfund"][d] = signed["postfund"][d]
      BY <1>8, <2>1 DEF Turns
    <3>3. QED
      BY <1>4, <3>1, <3>2 DEF MoneyInv, HasPaid, chain
  <2>2. MoneyInv(ch)'
    <3>1. signed["prefund"][ch] = Nodes => signed'["prefund"][ch] = Nodes
      BY <1>4, <1>20, <1>21, SignedStays DEF Turns
    <3>2. signed'["postfund"][ch] # {} => \A k \in Nodes : HasPaid(k, ch)
      BY <1>6, <1>8, <1>10 DEF MoneyInv
    <3>3. QED
      BY <1>4, <1>6, <3>1, <3>2 DEF MoneyInv, HasPaid, chain
  <2>3. QED
    BY <2>1, <2>2
<1>26. WorkInv(n, doing[n])'
  <2>1. v.step # "crank"
    BY <1>18
  <2>2. v.step \in {"release", "spawn", "destroy"} => Status(n, ch)' = "completed"
    BY <1>16, <1>18, <1>19 DEF Status
  <2>3. v.deposit > 0 => ShouldDeposit(n, w)
    BY <1>18
  <2>4. v.deposit > 0 =>
          /\ v.deposit = Share[n] /\ deposited'[n][ch] = 0
          /\ signed'["prefund"][ch] = Nodes
          /\ n = Initiator[ch] \/ HasPaid(Initiator[ch], ch)'
          /\ objectives'[n][ch] # None /\ objectives'[n][ch].submitted
    BY <1>4, <1>14, <1>16, <1>18, <1>19, <2>3 DEF chain, HasPaid
  <2>5. v.step # "destroy"
    BY <1>18
  <2>6. \A m \in v.messages :
          m.type \in Turns /\ m.to = Peer(n) /\ n \in signed'[m.type][m.ch]
    BY <1>17, <1>18
  <2>7. EffectsInv(n, v)'
    BY <1>18, <2>2, <2>4, <2>5, <2>6 DEF EffectsInv
  <2>8. QED
    BY <1>19, <2>1, <2>7 DEF WorkInv
<1>27. NetworkInv'
  BY <1>4, <1>20, <1>21, NetworkStays
<1>28. LogInv'
  BY <1>4 DEF InductiveInv, LogInv, WasHeld, HasPaid, chain
<1>29. \A k \in Nodes, d \in Channels : k # n =>
         (k \in signed'["prefund"][d] => k \in signed["prefund"][d])
  BY <1>8 DEF Turns
<1>30. QED
  BY <1>4, <1>19, <1>20, <1>21, <1>24, <1>25, <1>26, <1>27, <1>28, <1>29, NodeStep
     DEF chain

\* errNotApproved ends the run loop.
LEMMA CrankUnapprovedStep ==
  ASSUME InductiveInv, NEW n \in Nodes, CrankUnapproved(n)
  PROVE  InductiveInv'
<1>1. /\ TypeOK /\ UNCHANGED <<store, network, chain, seen, replays, signed>>
      /\ doing' = [doing EXCEPT ![n] = Idle]
      /\ engine' = [engine EXCEPT ![n] = "errNotApproved"]
  BY DEF InductiveInv, CrankUnapproved, Stop
<1>2. /\ doing' \in [Nodes -> Loaded \cup Effects \cup {Idle}]
      /\ \A k \in Nodes : doing'[k] = doing[k] \/ doing'[k] = Idle
      /\ engine' \in [Nodes -> Errors \cup {"running"}]
  BY <1>1 DEF TypeOK, Errors
<1>3. QED
  BY <1>1, <1>2, QuietStep DEF TypeOK, chain

\* A node that goes on to the next step of its handler.
LEMMA GoesStep ==
  ASSUME InductiveInv, NEW n \in Nodes, NEW s \in {"spawn", "destroy", "send", "submit"},
         doing[n] # Idle, doing[n].step # "crank", Goes(n, s)
  PROVE  \E w, v \in Effects :
           /\ w = doing[n] /\ EffectsInv(n, w) /\ v = [w EXCEPT !.step = s]
           /\ doing' \in [Nodes -> Loaded \cup Effects \cup {Idle}]
           /\ doing'[n] = v
           /\ \A k \in Nodes : k # n => doing'[k] = doing[k]
<1>1. TypeOK
  BY DEF InductiveInv
<1>2. PICK w \in Effects : w = doing[n] /\ EffectsInv(n, w)
  BY InHandler DEF WorkInv
<1> DEFINE v == [w EXCEPT !.step = s]
<1>3. v \in Effects
  BY DEF Effects
<1>4. doing' = [doing EXCEPT ![n] = v]
  BY <1>1, <1>2 DEF Goes, TypeOK
<1> HIDE DEF v
<1>5. QED
  BY <1>1, <1>2, <1>3, <1>4 DEF TypeOK, v

\* There it has the same effects before it.
LEMMA EffectsGoOn ==
  ASSUME TypeOK, TypeOK', Advances, NEW n \in Nodes, NEW w \in Effects, NEW v \in Effects,
         EffectsInv(n, w), NEW s \in {"spawn", "destroy", "send", "submit"},
         v = [w EXCEPT !.step = s],
         s \in {"spawn", "destroy"} => w.step \in {"release", "spawn", "destroy"},
         s = "destroy" => w.ch \in ledgers'[n],
         objectives'[n] = objectives[n], deposited'[n] = deposited[n],
         \A d \in Channels : d \in ledgers[n] => d \in ledgers'[n]
  PROVE  WorkInv(n, v)'
<1>1. /\ v.step = s /\ v.ch = w.ch /\ v.messages = w.messages /\ v.deposit = w.deposit
      /\ w.step # "crank"
  BY DEF Effects
<1>2. EffectsInv(n, w)'
  BY <1>1, WorkStays DEF WorkInv
<1>3. QED
  BY <1>1, <1>2 DEF WorkInv, EffectsInv, Status

\* A completed objective gives up its Channel.
LEMMA ReleaseStep ==
  ASSUME InductiveInv, NEW n \in Nodes, Release(n)
  PROVE  InductiveInv'
<1>1. /\ TypeOK /\ doing[n] # Idle /\ doing[n].step = "release" /\ Goes(n, "spawn")
      /\ owned' = [owned EXCEPT ![n] = @ \ {doing[n].ch}]
      /\ UNCHANGED <<objectives, channels, ledgers, engine, network, chain, seen,
                     replays, signed>>
  BY DEF InductiveInv, Release, IsAt
<1>2. PICK w \in Effects, v \in Effects :
        /\ w = doing[n] /\ EffectsInv(n, w) /\ v = [w EXCEPT !.step = "spawn"]
        /\ doing' \in [Nodes -> Loaded \cup Effects \cup {Idle}]
        /\ doing'[n] = v
        /\ \A k \in Nodes : k # n => doing'[k] = doing[k]
  BY <1>1, GoesStep
<1>3. /\ owned' \in [Nodes -> SUBSET Channels]
      /\ \A d \in Channels : d \in owned'[n] => d \in owned[n]
      /\ \A k \in Nodes : k # n => owned'[k] = owned[k]
  BY <1>1 DEF TypeOK
<1>4. TypeOK'
  BY <1>1, <1>2, <1>3 DEF TypeOK, chain
<1>5. Advances
  BY <1>1, AdvancesQuietly DEF Status
<1>6. WorkInv(n, v)'
  BY <1>1, <1>2, <1>4, <1>5, EffectsGoOn DEF chain
<1>7. NetworkInv'
  BY <1>1, <1>4, <1>5, NetworkStays
<1>8. \A d \in Channels : StoreInv(n, d)'
  BY <1>1, <1>3, <1>4, <1>5, StoreStays DEF InductiveInv, chain
<1>9. QED
  BY <1>1, <1>2, <1>3, <1>4, <1>5, <1>6, <1>7, <1>8, ChainRests, NodeStep DEF chain

\* A ledger takes over from the Channel, which both have confirmed.
LEMMA SpawnStep ==
  ASSUME InductiveInv, NEW n \in Nodes, Spawn(n)
  PROVE  InductiveInv'
<1>1. /\ TypeOK /\ doing[n] # Idle /\ doing[n].step = "spawn" /\ Goes(n, "destroy")
      /\ ledgers' = [ledgers EXCEPT ![n] = @ \cup {doing[n].ch}]
      /\ UNCHANGED <<objectives, channels, owned, engine, network, chain, seen,
                     replays, signed>>
  BY DEF InductiveInv, Spawn, IsAt
<1>2. PICK w \in Effects, v \in Effects :
        /\ w = doing[n] /\ EffectsInv(n, w) /\ v = [w EXCEPT !.step = "destroy"]
        /\ doing' \in [Nodes -> Loaded \cup Effects \cup {Idle}]
        /\ doing'[n] = v
        /\ \A k \in Nodes : k # n => doing'[k] = doing[k]
  BY <1>1, GoesStep
<1>3. PICK ch \in Channels : ch = w.ch
  BY DEF Effects
<1>4. /\ ledgers' \in [Nodes -> SUBSET Channels]
      /\ \A d \in Channels : d \in ledgers'[n] <=> (d \in ledgers[n] \/ d = ch)
      /\ \A k \in Nodes : k # n => ledgers'[k] = ledgers[k]
  BY <1>1, <1>2, <1>3 DEF TypeOK
<1>5. TypeOK'
  BY <1>1, <1>2, <1>4 DEF TypeOK, chain
<1>6. Advances
  BY <1>1, AdvancesQuietly DEF Status
<1>7. WorkInv(n, v)'
  BY <1>1, <1>2, <1>3, <1>4, <1>5, <1>6, EffectsGoOn DEF chain
<1>8. NetworkInv'
  BY <1>1, <1>5, <1>6, NetworkStays
<1>9. signed["postfund"][ch] = Nodes
  <2>1. Status(n, ch) = "completed"
    BY <1>1, <1>2, <1>3 DEF EffectsInv
  <2>2. objectives[n][ch] # None /\ objectives[n][ch].status = "completed"
    BY <2>1 DEF Status
  <2>3. QED
    BY <2>2 DEF InductiveInv, StoreInv, ObjectiveInv
<1>10. StoreInv(n, ch)'
  <2>1. StoreInv(n, ch)
    BY DEF InductiveInv
  <2>2. objectives[n][ch] # None => ObjectiveInv(n, ch)'
    BY <1>1, <1>4, <1>9, <2>1 DEF StoreInv, ObjectiveInv, HasRejected, Status
  <2>3. channels[n][ch] # None => ChannelInv(ch, channels[n][ch])'
    BY <1>1, <2>1 DEF StoreInv, ChannelInv, WasHeld, HasPaid, chain
  <2>4. QED
    BY <1>1, <1>9, <2>1, <2>2, <2>3 DEF StoreInv, IsUnjudged, Status, chain
<1>11. \A d \in Channels : StoreInv(n, d)'
  <2>1. \A d \in Channels : d # ch => StoreInv(n, d)'
    BY <1>1, <1>4, <1>5, <1>6, StoreStays DEF InductiveInv, chain
  <2>2. QED
    BY <1>10, <2>1
<1>12. QED
  BY <1>1, <1>2, <1>4, <1>5, <1>6, <1>7, <1>8, <1>11, ChainRests, NodeStep DEF chain

\* And then only the Channel is destroyed.
LEMMA DestroyStep ==
  ASSUME InductiveInv, NEW n \in Nodes, Destroy(n)
  PROVE  InductiveInv'
<1>1. /\ TypeOK /\ doing[n] # Idle /\ doing[n].step = "destroy" /\ Goes(n, "send")
      /\ channels' = [channels EXCEPT ![n][doing[n].ch] = None]
      /\ UNCHANGED <<objectives, owned, ledgers, engine, network, chain, seen,
                     replays, signed>>
  BY DEF InductiveInv, Destroy, IsAt
<1>2. PICK w \in Effects, v \in Effects :
        /\ w = doing[n] /\ EffectsInv(n, w) /\ v = [w EXCEPT !.step = "send"]
        /\ doing' \in [Nodes -> Loaded \cup Effects \cup {Idle}]
        /\ doing'[n] = v
        /\ \A k \in Nodes : k # n => doing'[k] = doing[k]
  BY <1>1, GoesStep
<1>3. PICK ch \in Channels : ch = w.ch
  BY DEF Effects
<1>4. /\ channels' \in [Nodes -> [Channels -> Channel \cup {None}]]
      /\ channels'[n][ch] = None
      /\ \A d \in Channels : d # ch => channels'[n][d] = channels[n][d]
      /\ \A k \in Nodes : k # n => channels'[k] = channels[k]
  BY <1>1, <1>2, <1>3 DEF TypeOK
<1>5. TypeOK'
  BY <1>1, <1>2, <1>4 DEF TypeOK, chain
<1>6. Advances
  BY <1>1, AdvancesQuietly DEF Status
<1>7. WorkInv(n, v)'
  BY <1>1, <1>2, <1>5, <1>6, EffectsGoOn DEF chain
<1>8. NetworkInv'
  BY <1>1, <1>5, <1>6, NetworkStays
<1>9. StoreInv(n, ch)'
  <2>1. StoreInv(n, ch)
    BY DEF InductiveInv
  <2>2. Status(n, ch) = "completed" /\ ch \in ledgers[n]
    BY <1>1, <1>2, <1>3 DEF EffectsInv
  <2>3. objectives[n][ch] # None /\ objectives[n][ch].status = "completed"
    BY <2>2 DEF Status
  <2>4. ObjectiveInv(n, ch)'
    BY <1>1, <2>1, <2>2, <2>3 DEF StoreInv, ObjectiveInv
  <2>5. QED
    BY <1>1, <1>4, <2>1, <2>3, <2>4 DEF StoreInv, IsUnjudged, Status, chain
<1>10. \A d \in Channels : StoreInv(n, d)'
  <2>1. \A d \in Channels : d # ch => StoreInv(n, d)'
    BY <1>1, <1>4, <1>5, <1>6, StoreStays DEF InductiveInv, chain
  <2>2. QED
    BY <1>9, <2>1
<1>11. QED
  BY <1>1, <1>2, <1>4, <1>5, <1>6, <1>7, <1>8, <1>10, ChainRests, NodeStep DEF chain

\* The messages of a handler are sent, before its deposit.
LEMMA SendStep ==
  ASSUME InductiveInv, NEW n \in Nodes, Send(n)
  PROVE  InductiveInv'
<1>1. /\ TypeOK /\ doing[n] # Idle /\ doing[n].step = "send"
      /\ network' = network \cup doing[n].messages
      /\ doing' = [doing EXCEPT ![n] = Idle] \/ Goes(n, "submit")
      /\ UNCHANGED <<store, engine, chain, seen, replays, signed>>
  BY DEF InductiveInv, Send, IsAt
<1>2. PICK w \in Effects : w = doing[n] /\ EffectsInv(n, w)
  BY <1>1, InHandler DEF WorkInv
<1>3. /\ network' \subseteq Message
      /\ \A m \in network' :
           m \in network \/ (m.type \in Turns /\ Peer(m.to) \in signed[m.type][m.ch])
  <2>1. w.messages \subseteq Message
    BY DEF Effects
  <2>2. \A m \in w.messages : m.type \in Turns /\ Peer(m.to) \in signed[m.type][m.ch]
    BY <1>2, NodesDiffer DEF EffectsInv
  <2>3. QED
    BY <1>1, <1>2, <2>1, <2>2 DEF TypeOK
<1>4. CASE doing' = [doing EXCEPT ![n] = Idle]
  <2>1. /\ doing' \in [Nodes -> Loaded \cup Effects \cup {Idle}]
        /\ \A k \in Nodes : doing'[k] = doing[k] \/ doing'[k] = Idle
    BY <1>1, <1>4 DEF TypeOK
  <2>2. QED
    BY <1>1, <1>3, <2>1, QuietStep DEF TypeOK, chain
<1>5. CASE Goes(n, "submit")
  <2>1. PICK v \in Effects :
          /\ v = [w EXCEPT !.step = "submit"]
          /\ doing' \in [Nodes -> Loaded \cup Effects \cup {Idle}]
          /\ doing'[n] = v
          /\ \A k \in Nodes : k # n => doing'[k] = doing[k]
    BY <1>1, <1>2, <1>5, GoesStep
  <2>2. TypeOK'
    BY <1>1, <1>3, <2>1 DEF TypeOK, store, chain
  <2>3. Advances
    BY <1>1, AdvancesQuietly DEF Status, store
  <2>4. WorkInv(n, v)'
    BY <1>1, <1>2, <2>1, <2>2, <2>3, EffectsGoOn DEF store, chain
  <2>5. NetworkInv'
    BY <1>1, <1>3, <2>2, <2>3, NetworkStays
  <2>6. \A d \in Channels : StoreInv(n, d)'
    BY <1>1, <2>2, <2>3, StoreStays DEF InductiveInv, store, chain
  <2>7. QED
    BY <1>1, <2>1, <2>2, <2>3, <2>4, <2>5, <2>6, ChainRests, NodeStep DEF store, chain
<1>6. QED
  BY <1>1, <1>4, <1>5

\* The deposit: the node's whole share, of a channel into which it has paid
\* nothing, on top of the initiator's.
LEMMA SubmitStep ==
  ASSUME InductiveInv, NEW n \in Nodes, Submit(n)
  PROVE  InductiveInv'
<1>1. /\ TypeOK /\ doing[n] # Idle /\ doing[n].step = "submit"
      /\ UNCHANGED <<store, network, seen, replays, signed>>
  BY DEF InductiveInv, Submit, IsAt
<1>2. PICK w \in Effects : w = doing[n] /\ EffectsInv(n, w)
  BY <1>1, InHandler DEF WorkInv
<1>3. PICK ch \in Channels : ch = w.ch
  BY DEF Effects
<1>4. CASE Stop(n, "transaction failed") /\ UNCHANGED chain
  <2>1. /\ doing' \in [Nodes -> Loaded \cup Effects \cup {Idle}]
        /\ \A k \in Nodes : doing'[k] = doing[k] \/ doing'[k] = Idle
        /\ engine' \in [Nodes -> Errors \cup {"running"}]
    BY <1>1, <1>4 DEF Stop, TypeOK, Errors
  <2>2. QED
    BY <1>1, <1>4, <2>1, QuietStep DEF TypeOK, chain
<1> DEFINE e == [ch |-> ch, held |-> Held(ch) + w.deposit]
<1>5. CASE /\ deposited' = [deposited EXCEPT ![n][ch] = @ + w.deposit]
           /\ log' = Append(log, e)
           /\ doing' = [doing EXCEPT ![n] = Idle]
           /\ UNCHANGED engine
  <2>1. MoneyInv(ch) /\ StoreInv(n, ch) /\ w.deposit \in Nat /\ Share[n] \in Nat
        /\ deposited[n][ch] \in Nat
    BY <1>1, SharesAdd DEF InductiveInv, Effects, TypeOK
  <2>2. /\ deposited'[n][ch] = deposited[n][ch] + w.deposit
        /\ \A d \in Channels : d # ch => deposited'[n][d] = deposited[n][d]
        /\ \A k \in Nodes : k # n => deposited'[k] = deposited[k]
        /\ deposited' \in [Nodes -> [Channels -> Nat]]
    BY <1>1, <1>5, <2>1 DEF TypeOK
  <2>3. w.deposit > 0 =>
          /\ w.deposit = Share[n] /\ deposited[n][ch] = 0
          /\ signed["prefund"][ch] = Nodes
          /\ n = Initiator[ch] \/ HasPaid(Initiator[ch], ch)
          /\ objectives[n][ch] # None /\ objectives[n][ch].submitted
    BY <1>2, <1>3 DEF EffectsInv
  <2>4. deposited'[n][ch] = deposited[n][ch]
        \/ (deposited[n][ch] = 0 /\ deposited'[n][ch] = Share[n])
    BY <2>1, <2>2, <2>3
  <2>5. Advances
    <3>1. \A k \in Nodes, d \in Channels :
            \/ deposited'[k][d] = deposited[k][d]
            \/ deposited[k][d] = 0 /\ deposited'[k][d] = Share[k]
      BY <2>2, <2>4
    <3>2. \A d \in Channels : HasRejected(d) => HasRejected(d)'
      BY <1>1 DEF HasRejected, Status, store
    <3>3. QED
      BY <1>1, <3>1, <3>2 DEF Advances
  <2>6. PICK x \in Event : x = e /\ WasHeld(x.ch, x.held)' /\ x.ch = ch
    <3> DEFINE i == Initiator[ch]
               r == Peer(i)
    <3>1. /\ i \in Nodes /\ r \in Nodes /\ r # i /\ Peer(r) = i
          /\ \A k \in Nodes : k = i \/ k = r
      BY Participants, NodesDiffer
    <3>2. /\ Share[i] \in Nat /\ Share[r] \in Nat /\ TotalShare = Share[i] + Share[r]
          /\ deposited[i][ch] \in Nat /\ deposited[r][ch] \in Nat
          /\ Held(ch) = deposited[i][ch] + deposited[r][ch]
          /\ deposited[i][ch] \in {0, Share[i]} /\ deposited[r][ch] \in {0, Share[r]}
          /\ deposited[r][ch] > 0 => deposited[i][ch] = Share[i]
      BY <1>1, <2>1, <3>1, SharesAdd DEF MoneyInv, HasPaid
    <3>3. e \in Event /\ e.ch = ch /\ e.held = Held(ch) + w.deposit
      BY <2>1, <3>2 DEF Event
    <3>4. CASE n = i /\ w.deposit > 0
      <4>1. w.deposit = Share[i] /\ deposited[i][ch] = 0 /\ deposited[r][ch] = 0
        BY <2>3, <3>2, <3>4
      <4>2. e.held = Share[i] /\ deposited'[i][ch] = Share[i]
        BY <2>2, <3>2, <3>3, <3>4, <4>1
      <4>3. QED
        BY <3>3, <4>2 DEF WasHeld, HasPaid
    <3>5. CASE n = r /\ w.deposit > 0
      <4>1. w.deposit = Share[r] /\ deposited[r][ch] = 0 /\ deposited[i][ch] = Share[i]
        BY <2>3, <3>1, <3>5 DEF HasPaid
      <4>2. /\ e.held = TotalShare /\ deposited'[r][ch] = Share[r]
            /\ deposited'[i][ch] = Share[i]
        BY <2>2, <3>1, <3>2, <3>3, <3>5, <4>1
      <4>3. \A k \in Nodes : HasPaid(k, ch)'
        BY <3>1, <4>2 DEF HasPaid
      <4>4. QED
        BY <3>3, <4>2, <4>3 DEF WasHeld
    <3>6. CASE ~ w.deposit > 0
      <4>1. w.deposit = 0
        BY <2>1, <3>6
      <4>2. deposited'[n][ch] = deposited[n][ch]
        BY <2>1, <2>2, <4>1
      <4>3. \A k \in Nodes : deposited'[k][ch] = deposited[k][ch]
        BY <2>2, <4>2
      <4>4. e.held = deposited[i][ch] + deposited[r][ch]
        BY <3>2, <3>3, <4>1
      <4>5. WasHeld(ch, e.held)
        <5> HIDE DEF i, r, e
        <5>1. CASE deposited[r][ch] > 0
          <6>1. e.held = TotalShare /\ deposited[i][ch] = Share[i]
                /\ deposited[r][ch] = Share[r]
            BY <3>2, <4>4, <5>1
          <6>2. \A k \in Nodes : HasPaid(k, ch)
            BY <3>1, <6>1 DEF HasPaid
          <6>3. QED
            BY <6>1, <6>2 DEF WasHeld
        <5>2. CASE deposited[r][ch] = 0
          <6>1. e.held = deposited[i][ch]
            BY <3>2, <4>4, <5>2
          <6>2. QED
            BY <3>2, <6>1 DEF WasHeld, HasPaid, i
        <5>3. QED
          BY <3>2, <5>1, <5>2
      <4>6. PICK x \in Event : x = e /\ x.ch = ch /\ WasHeld(ch, x.held)
        BY <3>3, <4>5
      <4>7. WasHeld(ch, x.held)'
        BY <4>6, <2>5, WasHeldStays
      <4>8. QED
        BY <4>6, <4>7
    <3>7. QED
      BY <3>1, <3>4, <3>5, <3>6
  <2> HIDE DEF e
  <2>7. /\ log' \in Seq(Event) /\ Len(log') = Len(log) + 1 /\ Len(log) \in Nat
        /\ \A j \in 1..Len(log) : log'[j] = log[j]
        /\ log'[Len(log) + 1] = x
    BY <1>1, <1>5, <2>6, AppendProperties, LenProperties DEF TypeOK
  <2>8. /\ doing' \in [Nodes -> Loaded \cup Effects \cup {Idle}]
        /\ \A k \in Nodes : k # n => doing'[k] = doing[k]
        /\ doing'[n] = Idle
    BY <1>1, <1>5 DEF TypeOK
  <2>9. seen' \in [Nodes -> 0..Len(log')]
    BY <1>1, <2>7 DEF TypeOK
  <2>10. TypeOK'
    BY <1>1, <1>5, <2>2, <2>7, <2>8, <2>9 DEF TypeOK, store
  <2>11. NetworkInv'
    BY <1>1, <2>5, <2>10, NetworkStays
  <2>12. LogInv'
    <3>1. SUFFICES ASSUME NEW j \in 1..Len(log') PROVE WasHeld(log[j].ch, log[j].held)'
      BY DEF LogInv
    <3>2. CASE j = Len(log) + 1
      BY <2>6, <2>7, <3>2
    <3>3. CASE j \in 1..Len(log)
      <4>1. PICK y \in Event : y = log[j] /\ y = log'[j]
        BY <1>1, <2>7, <3>3, ElementOfSeq DEF TypeOK
      <4>2. WasHeld(y.ch, y.held) /\ y.ch \in Channels
        BY <3>3, <4>1 DEF InductiveInv, LogInv, Event
      <4>3. WasHeld(y.ch, y.held)'
        BY <2>5, <4>2, WasHeldStays
      <4>4. QED
        BY <4>1, <4>3
    <3>4. QED
      BY <2>7, <3>1, <3>2, <3>3
  <2>13. ASSUME NEW d \in Channels PROVE StoreInv(n, d)'
    <3>1. CASE d # ch
      BY <1>1, <2>2, <2>5, <2>10, <3>1, StoreStays DEF InductiveInv, store
    <3>2. CASE d = ch
      <4>1. objectives[n][ch] # None => ObjectiveInv(n, ch)'
        BY <1>1, <2>1 DEF StoreInv, ObjectiveInv, HasRejected, Status, store
      <4>2. channels[n][ch] # None => ChannelInv(ch, channels[n][ch])'
        <5>1. SUFFICES ASSUME channels[n][ch] # None
                       PROVE  ChannelInv(ch, channels[n][ch])'
          OBVIOUS
        <5>2. PICK c \in Channel : c = channels[n][ch] /\ c = channels'[n][ch]
          BY <1>1, <5>1 DEF TypeOK, store
        <5>3. ChannelInv(ch, c)'
          BY <1>1, <2>1, <2>5, <2>10, <5>1, <5>2, ChannelStays DEF StoreInv
        <5>4. QED
          BY <5>2, <5>3
      <4>3. deposited'[n][ch] > 0 => objectives[n][ch] # None /\ objectives[n][ch].submitted
        <5>1. w.deposit = 0 => deposited'[n][ch] = deposited[n][ch]
          BY <2>1, <2>2
        <5>2. QED
          BY <2>1, <2>3, <5>1 DEF StoreInv
      <4>4. StoreInv(n, ch)'
        BY <1>1, <2>1, <4>1, <4>2, <4>3 DEF StoreInv, IsUnjudged, Status, store
      <4>5. QED
        BY <3>2, <4>4
    <3>3. QED
      BY <3>1, <3>2
  <2>14. ASSUME NEW d \in Channels PROVE MoneyInv(d)'
    <3>1. MoneyInv(d)
      BY DEF InductiveInv
    <3>2. \A k \in Nodes : HasPaid(k, d) => HasPaid(k, d)'
      BY <2>5, PaidStays
    <3>3. ASSUME NEW k \in Nodes PROVE deposited'[k][d] \in {0, Share[k]}
      BY <2>5, <3>1 DEF MoneyInv, Advances
    <3>4. ASSUME NEW k \in Nodes, deposited'[k][d] > 0
          PROVE  signed["prefund"][d] = Nodes /\ HasPaid(Initiator[d], d)'
      <4>1. Initiator[d] \in Nodes
        BY Participants
      <4>2. CASE deposited'[k][d] = deposited[k][d]
        BY <3>1, <3>2, <3>4, <4>1, <4>2 DEF MoneyInv
      <4>3. CASE deposited'[k][d] # deposited[k][d]
        <5>1. k = n /\ d = ch
          BY <2>2, <4>3
        <5>2. w.deposit > 0
          BY <2>1, <2>2, <4>3, <5>1
        <5>3. HasPaid(n, ch)'
          BY <2>4, <4>3, <5>1 DEF HasPaid
        <5>4. QED
          BY <2>3, <3>2, <4>1, <5>1, <5>2, <5>3
      <4>4. QED
        BY <4>2, <4>3
    <3>5. QED
      BY <1>1, <3>1, <3>2, <3>3, <3>4 DEF MoneyInv
  <2>15. \A k \in Nodes : k # n =>
           /\ objectives'[k] = objectives[k] /\ channels'[k] = channels[k]
           /\ owned'[k] = owned[k] /\ ledgers'[k] = ledgers[k]
           /\ doing'[k] = doing[k] /\ deposited'[k] = deposited[k]
    BY <1>1, <2>2, <2>8 DEF store
  <2>16. QED
    BY <1>1, <2>5, <2>8, <2>10, <2>11, <2>12, <2>13, <2>14, <2>15, NodeStep
<1>6. QED
  BY <1>2, <1>3, <1>4, <1>5 DEF Submit

-----------------------------------------------------------------------------
(***************************************************************************)
(* Faults, and all of the steps together.                                  *)
(***************************************************************************)

\* A subscription is renewed.
LEMMA ReplayStep ==
  ASSUME InductiveInv, NEW n \in Nodes, Replay(n)
  PROVE  InductiveInv'
<1>1. /\ TypeOK /\ UNCHANGED <<store, doing, engine, network, chain, signed>>
      /\ replays < MaxReplays /\ replays' = replays + 1
      /\ seen[n] > 0 /\ seen' = [seen EXCEPT ![n] = @ - 1]
  BY DEF InductiveInv, Replay
<1>2. replays' \in 0..MaxReplays
  BY <1>1, MaxReplaysAssumption DEF TypeOK
<1>3. seen' \in [Nodes -> 0..Len(log)]
  <2>1. Len(log) \in Nat /\ seen[n] \in 0..Len(log)
    BY <1>1, LenProperties DEF TypeOK
  <2>2. seen[n] - 1 \in 0..Len(log)
    BY <1>1, <2>1
  <2>3. QED
    BY <1>1, <2>2 DEF TypeOK
<1>4. QED
  BY <1>1, <1>2, <1>3, QuietStep DEF TypeOK

\* A message is lost.
LEMMA LoseStep ==
  ASSUME InductiveInv, NEW m \in network, Lose(m)
  PROVE  InductiveInv'
BY QuietStep DEF InductiveInv, TypeOK, Lose, chain

\* A node starts again and reads the chain's log from any place.
LEMMA RestartStep ==
  ASSUME InductiveInv, NEW n \in Nodes, Restart(n)
  PROVE  InductiveInv'
<1>1. /\ TypeOK /\ UNCHANGED <<store, network, chain, replays, signed>>
      /\ doing' = [doing EXCEPT ![n] = Idle]
      /\ engine' = [engine EXCEPT ![n] = "running"]
      /\ \E i \in 0..Len(log) : seen' = [seen EXCEPT ![n] = i]
  BY DEF InductiveInv, Restart
<1>2. /\ doing' \in [Nodes -> Loaded \cup Effects \cup {Idle}]
      /\ \A k \in Nodes : doing'[k] = doing[k] \/ doing'[k] = Idle
      /\ engine' \in [Nodes -> Errors \cup {"running"}]
      /\ seen' \in [Nodes -> 0..Len(log)]
  BY <1>1 DEF TypeOK
<1>3. QED
  BY <1>1, <1>2, QuietStep DEF TypeOK

\* The invariant holds when nothing was asked for.
LEMMA InitInv == Init => InductiveInv
<1>1. SUFFICES ASSUME Init PROVE InductiveInv
  OBVIOUS
<1>2. TypeOK
  <2>1. log \in Seq(Event) /\ Len(log) = 0
    BY <1>1 DEF Init
  <2>2. seen \in [Nodes -> 0..Len(log)]
    BY <1>1, <2>1 DEF Init
  <2>3. replays \in 0..MaxReplays
    BY <1>1, MaxReplaysAssumption DEF Init
  <2>4. QED
    BY <1>1, <2>1, <2>2, <2>3 DEF Init, TypeOK
<1>3. \A ch \in Channels : MoneyInv(ch)
  <2>1. SUFFICES ASSUME NEW ch \in Channels PROVE MoneyInv(ch)
    OBVIOUS
  <2>2. \A n \in Nodes : deposited[n][ch] = 0
    BY <1>1 DEF Init
  <2>3. signed["postfund"][ch] = {}
    BY <1>1 DEF Init, Turns
  <2>4. QED
    BY <2>2, <2>3 DEF MoneyInv
<1>4. \A n \in Nodes, ch \in Channels : StoreInv(n, ch)
  <2>1. SUFFICES ASSUME NEW n \in Nodes, NEW ch \in Channels PROVE StoreInv(n, ch)
    OBVIOUS
  <2>2. /\ objectives[n][ch] = None /\ channels[n][ch] = None
        /\ owned[n] = {} /\ ledgers[n] = {} /\ deposited[n][ch] = 0
        /\ signed["prefund"][ch] = {}
    BY <1>1 DEF Init, Turns
  <2>3. QED
    BY <2>2 DEF StoreInv
<1>5. \A n \in Nodes : doing[n] = Idle
  BY <1>1 DEF Init
<1>6. NetworkInv /\ LogInv
  BY <1>1 DEF Init, NetworkInv, LogInv
<1>7. QED
  BY <1>2, <1>3, <1>4, <1>5, <1>6 DEF InductiveInv

\* And every step keeps it.
LEMMA NextInv == InductiveInv /\ [Next]_vars => InductiveInv'
<1>1. SUFFICES ASSUME InductiveInv, [Next]_vars PROVE InductiveInv'
  OBVIOUS
<1>2. ASSUME NEW n \in Nodes, NEW ch \in Channels, Request(n, ch) PROVE InductiveInv'
  BY <1>1, <1>2, RequestStep
<1>3. ASSUME NEW n \in Nodes, Handle(n) PROVE InductiveInv'
  BY <1>1, <1>3, ReceiveNewStep, ReceiveForMissingChannelStep, ReceiveStep,
     ReceiveRejectionStep, HandleChainEventStep DEF Handle
<1>4. ASSUME NEW n \in Nodes, Continue(n) PROVE InductiveInv'
  BY <1>1, <1>4, CrankStep, CrankUnapprovedStep, ReleaseStep, SpawnStep, DestroyStep,
     SendStep, SubmitStep DEF Continue
<1>5. ASSUME NEW n \in Nodes, Replay(n) \/ Restart(n) PROVE InductiveInv'
  BY <1>1, <1>5, ReplayStep, RestartStep
<1>6. ASSUME NEW m \in network, Lose(m) PROVE InductiveInv'
  BY <1>1, <1>6, LoseStep
<1>7. CASE UNCHANGED vars
  <2>1. UNCHANGED <<store, doing, engine, network, chain, seen, replays, signed>>
    BY <1>7 DEF vars
  <2>2. QED
    BY <1>1, <2>1, QuietStep DEF InductiveInv, TypeOK
<1>8. QED
  BY <1>1, <1>2, <1>3, <1>4, <1>5, <1>6, <1>7 DEF Next

-----------------------------------------------------------------------------
\* The inductive invariant holds in every state of every behaviour, with
\* messages lost and repeated and nodes stopped at any point.
THEOREM Invariance == Spec => []InductiveInv
<1>1. Init => InductiveInv
  BY InitInv
<1>2. InductiveInv /\ [Next]_vars => InductiveInv'
  BY NextInv
<1>3. QED
  BY <1>1, <1>2, PTL DEF Spec

\* Every variable of the opening holds a value of its kind; no deposit is
\* negative.
THEOREM TypeCorrectness == Spec => []TypeOK
<1>1. InductiveInv => TypeOK
  BY DEF InductiveInv
<1>2. QED
  BY <1>1, Invariance, PTL

\* No node pays its share twice, or another amount.
THEOREM NobodyPaysTwiceHolds == Spec => []NobodyPaysTwice
<1>1. InductiveInv => NobodyPaysTwice
  BY DEF InductiveInv, MoneyInv, NobodyPaysTwice
<1>2. QED
  BY <1>1, Invariance, PTL

\* Money only goes into a channel that can pay it back.
THEOREM DepositsAreSafeHolds == Spec => []DepositsAreSafe
<1>1. ASSUME InductiveInv PROVE DepositsAreSafe
  <2>1. SUFFICES ASSUME NEW ch \in Channels
                 PROVE  /\ Held(ch) > 0 => signed["prefund"][ch] = Nodes
                        /\ deposited[Peer(Initiator[ch])][ch] > 0 =>
                             deposited[Initiator[ch]][ch] = Share[Initiator[ch]]
    BY DEF DepositsAreSafe
  <2>2. MoneyInv(ch)
    BY <1>1 DEF InductiveInv
  <2> DEFINE i == Initiator[ch]
  <2>3. i \in Nodes /\ Peer(i) \in Nodes
    BY Participants, NodesDiffer
  <2>4. /\ deposited[i][ch] \in Nat /\ deposited[Peer(i)][ch] \in Nat
        /\ Held(ch) = deposited[i][ch] + deposited[Peer(i)][ch]
    BY <1>1, <2>3, SharesAdd DEF InductiveInv
  <2> HIDE DEF i
  <2>5. Held(ch) > 0 => deposited[i][ch] > 0 \/ deposited[Peer(i)][ch] > 0
    BY <2>4
  <2>6. QED
    BY <2>2, <2>3, <2>5 DEF MoneyInv, HasPaid, i
<1>2. InductiveInv => DepositsAreSafe
  BY <1>1
<1>3. QED
  BY <1>2, Invariance, PTL

\* When both have paid their shares, both have agreed before.
LEMMA PaidIsAgreed ==
  ASSUME InductiveInv, NEW ch \in Channels, \A n \in Nodes : HasPaid(n, ch)
  PROVE  signed["prefund"][ch] = Nodes
<1> DEFINE i == Initiator[ch]
<1>1. i \in Nodes /\ Peer(i) \in Nodes
  BY Participants, NodesDiffer
<1>2. /\ Share[i] \in Nat /\ Share[Peer(i)] \in Nat /\ Share[i] + Share[Peer(i)] > 0
      /\ deposited[i][ch] = Share[i] /\ deposited[Peer(i)][ch] = Share[Peer(i)]
  BY <1>1, SharesAdd DEF HasPaid
<1> HIDE DEF i
<1>3. deposited[i][ch] > 0 \/ deposited[Peer(i)][ch] > 0
  BY <1>2
<1>4. QED
  BY <1>1, <1>3 DEF InductiveInv, MoneyInv

\* Then somebody who signed the postfund state is followed by nobody who
\* rejects.
LEMMA ConfirmedIsAccepted ==
  ASSUME InductiveInv, NEW ch \in Channels, signed["postfund"][ch] # {}
  PROVE  /\ \A n \in Nodes : HasPaid(n, ch)
         /\ signed["prefund"][ch] = Nodes
         /\ \A n \in Nodes : Status(n, ch) \in {"approved", "completed"}
<1>1. \A n \in Nodes : HasPaid(n, ch)
  BY DEF InductiveInv, MoneyInv
<1>2. signed["prefund"][ch] = Nodes
  BY <1>1, PaidIsAgreed
<1>3. ASSUME NEW n \in Nodes PROVE Status(n, ch) \in {"approved", "completed"}
  <2>1. StoreInv(n, ch) /\ ~ IsUnjudged(n, ch)
    BY <1>2 DEF InductiveInv, StoreInv
  <2>2. objectives[n][ch] # None /\ objectives[n][ch] \in Objective
    BY <2>1 DEF IsUnjudged, Status, InductiveInv, TypeOK
  <2>3. objectives[n][ch].status # "rejected"
    BY <1>2, <2>1, <2>2 DEF StoreInv, ObjectiveInv, HasRejected
  <2>4. QED
    BY <2>1, <2>2, <2>3 DEF IsUnjudged, Status, Objective
<1>4. QED
  BY <1>1, <1>2, <1>3

\* A node that counts the objective as completed has a peer bound to it.
THEOREM CompletionIsMutualHolds == Spec => []CompletionIsMutual
<1>1. ASSUME InductiveInv PROVE CompletionIsMutual
  <2>1. SUFFICES ASSUME NEW n \in Nodes, NEW ch \in Channels, Status(n, ch) = "completed"
                 PROVE  /\ Status(Peer(n), ch) \in {"approved", "completed"}
                        /\ signed["postfund"][ch] = Nodes
    BY DEF CompletionIsMutual
  <2>2. objectives[n][ch] # None /\ objectives[n][ch].status = "completed"
    BY <2>1 DEF Status
  <2>3. signed["postfund"][ch] = Nodes
    BY <1>1, <2>2 DEF InductiveInv, StoreInv, ObjectiveInv
  <2>4. signed["postfund"][ch] # {} /\ Peer(n) \in Nodes
    BY <2>3, NodesDiffer
  <2>5. QED
    BY <1>1, <2>3, <2>4, ConfirmedIsAccepted
<1>2. InductiveInv => CompletionIsMutual
  BY <1>1
<1>3. QED
  BY <1>2, Invariance, PTL

\* Nobody confirms what is not paid, and a ledger takes over only when both
\* have confirmed.
THEOREM LedgersAreFundedHolds == Spec => []LedgersAreFunded
<1>1. ASSUME InductiveInv PROVE LedgersAreFunded
  <2>1. SUFFICES ASSUME NEW ch \in Channels
                 PROVE  /\ signed["postfund"][ch] # {} => Held(ch) = TotalShare
                        /\ \A n \in Nodes : ch \in ledgers[n] =>
                             signed["postfund"][ch] = Nodes
    BY DEF LedgersAreFunded
  <2>2. ASSUME signed["postfund"][ch] # {} PROVE Held(ch) = TotalShare
    <3>1. PICK n \in Nodes : TRUE
      BY DEF Nodes
    <3>2. HasPaid(n, ch) /\ HasPaid(Peer(n), ch)
      BY <1>1, <2>2, NodesDiffer, ConfirmedIsAccepted
    <3>3. TypeOK
      BY <1>1 DEF InductiveInv
    <3>4. QED
      BY <3>2, <3>3, SharesAdd DEF HasPaid
  <2>3. QED
    BY <1>1, <2>2 DEF InductiveInv, StoreInv
<1>2. InductiveInv => LedgersAreFunded
  BY <1>1
<1>3. QED
  BY <1>2, Invariance, PTL

\* No money is at stake in a channel somebody rejected.
THEOREM RejectedIsUnfundedHolds == Spec => []RejectedIsUnfunded
<1>1. ASSUME InductiveInv PROVE RejectedIsUnfunded
  <2>1. SUFFICES ASSUME NEW n \in Nodes, NEW ch \in Channels, Status(n, ch) = "rejected"
                 PROVE  Held(ch) = 0 /\ signed["prefund"][ch] # Nodes
    BY DEF RejectedIsUnfunded
  <2>2. objectives[n][ch] # None /\ objectives[n][ch].status = "rejected"
    BY <2>1 DEF Status
  <2>3. signed["prefund"][ch] # Nodes
    BY <1>1, <2>2 DEF InductiveInv, StoreInv, ObjectiveInv, HasRejected
  <2>4. TypeOK /\ MoneyInv(ch)
    BY <1>1 DEF InductiveInv
  <2>5. \A k \in Nodes : deposited[k][ch] \in Nat /\ ~ deposited[k][ch] > 0
    BY <2>3, <2>4 DEF MoneyInv, TypeOK
  <2>6. deposited[n][ch] = 0 /\ deposited[Peer(n)][ch] = 0
    BY <2>5, NodesDiffer
  <2>7. QED
    BY <2>3, <2>4, <2>6, SharesAdd
<1>2. InductiveInv => RejectedIsUnfunded
  BY <1>1
<1>3. QED
  BY <1>2, Invariance, PTL

\* A channel has a state in every store that knows its objective.
THEOREM EveryChannelIsKeptHolds == Spec => []EveryChannelIsKept
<1>1. InductiveInv => EveryChannelIsKept
  BY DEF InductiveInv, StoreInv, ObjectiveInv, EveryChannelIsKept, Status
<1>2. QED
  BY <1>1, Invariance, PTL

-----------------------------------------------------------------------------
(***************************************************************************)
(* The refinement: every step is one of FundingPromise, or none.           *)
(***************************************************************************)

\* What crank signs: the prefund state before anything is paid, the postfund
\* state only when everything is.
LEMMA CrankSigns ==
  ASSUME InductiveInv, NEW n \in Nodes, Crank(n)
  PROVE  \E ch \in Channels :
           /\ signed'["prefund"] = [signed["prefund"] EXCEPT ![ch] = @ \cup {n}]
           /\ \/ signed'["postfund"] = signed["postfund"]
              \/ /\ signed'["postfund"] = [signed["postfund"] EXCEPT ![ch] = @ \cup {n}]
                 /\ \A k \in Nodes : HasPaid(k, ch)
<1>1. PICK w \in Loaded : w = doing[n] /\ w.step = "crank" /\ LoadedInv(n, w)
  BY InHandler DEF Crank, WorkInv
<1>2. PICK ch \in Channels : ch = w.ch
  BY DEF Loaded
<1>3. PICK b \in Channel : b = w.channel
  BY DEF Loaded
<1>4. PICK c \in Channel : c = Signed(n, b)
  BY SignedIs
<1>5. signed' = [t \in Turns |->
          [signed[t] EXCEPT ![ch] = IF n \in c[t] THEN @ \cup {n} ELSE @]]
  BY <1>1, <1>2, <1>3, <1>4 DEF Crank
<1>6. TypeOK /\ MoneyInv(ch) /\ ChannelInv(ch, b)
  BY <1>1, <1>2, <1>3 DEF InductiveInv, LoadedInv
<1>7. /\ c.prefund = b.prefund \cup {n}
      /\ c.postfund = IF ShouldSignPostfund(n, b) THEN b.postfund \cup {n} ELSE b.postfund
  BY <1>4, SignedIs
<1>8. n \in c["prefund"] /\ c["postfund"] = c.postfund
  BY <1>7
<1>9. PICK f \in [Channels -> SUBSET Nodes], g \in [Channels -> SUBSET Nodes] :
        f = signed["prefund"] /\ g = signed["postfund"]
  BY <1>6 DEF TypeOK, Turns
<1>10. signed'["prefund"] = [f EXCEPT ![ch] = f[ch] \cup {n}]
  BY <1>5, <1>8, <1>9 DEF Turns
<1>11. signed'["postfund"] = [g EXCEPT ![ch] = IF n \in c.postfund THEN g[ch] \cup {n} ELSE g[ch]]
  BY <1>5, <1>8, <1>9 DEF Turns
<1>12. CASE n \in c.postfund
  <2>1. b.holdings \in Nat /\ WasHeld(ch, b.holdings)
    BY <1>6 DEF Channel, ChannelInv
  <2>2. ShouldSignPostfund(n, b) => \A k \in Nodes : HasPaid(k, ch)
    BY <1>6, <2>1, FullIsPaid DEF ShouldSignPostfund, FundingComplete
  <2>3. \A k \in Nodes : HasPaid(k, ch)
    BY <1>6, <1>7, <1>12, <2>2 DEF ChannelInv, MoneyInv
  <2>4. QED
    BY <1>9, <1>10, <1>11, <1>12, <2>3
<1>13. CASE n \notin c.postfund
  <2>1. signed'["postfund"] = g
    BY <1>9, <1>11, <1>13
  <2>2. QED
    BY <1>9, <1>10, <2>1
<1>14. QED
  BY <1>12, <1>13

\* It agrees, or confirms.
LEMMA RefinesCrank ==
  ASSUME InductiveInv, NEW n \in Nodes, Crank(n)
  PROVE  \/ Promise!Next
         \/ UNCHANGED <<signed["prefund"], deposited, signed["postfund"], ledgers>>
<1>1. PICK ch \in Channels :
        /\ signed'["prefund"] = [signed["prefund"] EXCEPT ![ch] = @ \cup {n}]
        /\ \/ signed'["postfund"] = signed["postfund"]
           \/ /\ signed'["postfund"] = [signed["postfund"] EXCEPT ![ch] = @ \cup {n}]
              /\ \A k \in Nodes : HasPaid(k, ch)
  BY CrankSigns
<1>2. UNCHANGED <<deposited, ledgers>>
  BY DEF Crank, chain
<1>3. CASE signed'["postfund"] = signed["postfund"]
  <2>1. Promise!Agree(n, ch)
    BY <1>1, <1>2, <1>3 DEF Promise!Agree
  <2>2. QED
    BY <2>1 DEF Promise!Next, Promise!Nodes, Nodes
<1>4. CASE /\ signed'["postfund"] = [signed["postfund"] EXCEPT ![ch] = @ \cup {n}]
           /\ \A k \in Nodes : HasPaid(k, ch)
  <2>1. signed["prefund"][ch] = Nodes
    BY <1>4, PaidIsAgreed
  <2>2. PICK f \in [Channels -> SUBSET Nodes] : f = signed["prefund"]
    BY DEF InductiveInv, TypeOK, Turns
  <2>3. [f EXCEPT ![ch] = f[ch] \cup {n}] = f
    BY <2>1, <2>2
  <2>4. signed'["prefund"] = signed["prefund"]
    BY <1>1, <2>2, <2>3
  <2>5. Promise!Confirm(n, ch)
    BY <1>2, <1>4, <2>4 DEF Promise!Confirm, Promise!HasPaid, Promise!Nodes, HasPaid, Nodes
  <2>6. QED
    BY <2>5 DEF Promise!Next, Promise!Nodes, Nodes
<1>5. QED
  BY <1>1, <1>3, <1>4

\* A ledger is opened when both have confirmed.
LEMMA RefinesSpawn ==
  ASSUME InductiveInv, NEW n \in Nodes, Spawn(n)
  PROVE  Promise!Next
<1>1. PICK w \in Effects : w = doing[n] /\ w.step = "spawn" /\ EffectsInv(n, w)
  BY InHandler DEF Spawn, IsAt, WorkInv
<1>2. PICK ch \in Channels : ch = w.ch
  BY DEF Effects
<1>3. signed["postfund"][ch] = Nodes
  <2>1. objectives[n][ch] # None /\ objectives[n][ch].status = "completed"
    BY <1>1, <1>2 DEF EffectsInv, Status
  <2>2. QED
    BY <2>1 DEF InductiveInv, StoreInv, ObjectiveInv
<1>4. Promise!Open(n, ch)
  BY <1>1, <1>2, <1>3 DEF Spawn, Promise!Open, Promise!Nodes, Nodes, chain
<1>5. QED
  BY <1>4 DEF Promise!Next, Promise!Nodes, Nodes

\* A deposit pays the node's share, in its turn.
LEMMA RefinesSubmit ==
  ASSUME InductiveInv, NEW n \in Nodes, Submit(n)
  PROVE  \/ Promise!Next
         \/ UNCHANGED <<signed["prefund"], deposited, signed["postfund"], ledgers>>
<1>1. PICK w \in Effects : w = doing[n] /\ w.step = "submit" /\ EffectsInv(n, w)
  BY InHandler DEF Submit, IsAt, WorkInv
<1>2. PICK ch \in Channels : ch = w.ch
  BY DEF Effects
<1>3. TypeOK /\ UNCHANGED <<ledgers, signed>> /\ w.deposit \in Nat
  BY DEF InductiveInv, Submit, store, Effects
<1>4. CASE UNCHANGED chain
  BY <1>3, <1>4 DEF chain
<1>5. CASE deposited' = [deposited EXCEPT ![n][ch] = @ + w.deposit]
  <2>1. PICK f \in [Channels -> Nat] : f = deposited[n]
    BY <1>3 DEF TypeOK
  <2>2. deposited' = [deposited EXCEPT ![n] = [f EXCEPT ![ch] = f[ch] + w.deposit]]
    BY <1>5, <2>1
  <2>3. CASE w.deposit = 0
    <3>1. [f EXCEPT ![ch] = f[ch] + w.deposit] = f
      BY <2>3
    <3>2. deposited' = deposited
      BY <1>3, <2>1, <2>2, <3>1 DEF TypeOK
    <3>3. QED
      BY <1>3, <3>2
  <2>4. CASE w.deposit > 0
    <3>1. /\ w.deposit = Share[n] /\ deposited[n][ch] = 0
          /\ signed["prefund"][ch] = Nodes
          /\ n = Initiator[ch] \/ HasPaid(Initiator[ch], ch)
      BY <1>1, <1>2, <2>4 DEF EffectsInv
    <3>2. f[ch] + w.deposit = Share[n]
      BY <1>3, <2>1, <3>1
    <3>3. deposited' = [deposited EXCEPT ![n][ch] = Share[n]]
      BY <2>1, <2>2, <3>2
    <3>4. n = Initiator[ch] \/ HasPaid(Peer(n), ch)
      BY <3>1, Participants, NodesDiffer
    <3>5. Promise!Pay(n, ch)
      BY <1>3, <3>1, <3>3, <3>4
         DEF Promise!Pay, Promise!HasPaid, Promise!Peer, Promise!Nodes, HasPaid, Peer, Nodes
    <3>6. QED
      BY <3>5 DEF Promise!Next, Promise!Nodes, Nodes
  <2>5. QED
    BY <1>3, <2>3, <2>4
<1>6. QED
  BY <1>1, <1>2, <1>4, <1>5 DEF Submit

\* A step of FundingPromise, or none, for every step.
LEMMA RefinesNext ==
  ASSUME InductiveInv, [Next]_vars
  PROVE  [Promise!Next]_<<signed["prefund"], deposited, signed["postfund"], ledgers>>
<1> DEFINE Still == UNCHANGED <<signed["prefund"], deposited, signed["postfund"], ledgers>>
<1>1. SUFFICES Promise!Next \/ Still
  OBVIOUS
<1>2. ASSUME NEW n \in Nodes, NEW ch \in Channels, Request(n, ch) PROVE Still
  BY <1>2 DEF Request, store, chain
<1>3. ASSUME NEW n \in Nodes, Handle(n) PROVE Still
  BY <1>3 DEF Handle, ReceiveNew, ReceiveForMissingChannel, Receive, ReceiveRejection,
              HandleChainEvent, store, chain
<1>4. ASSUME NEW n \in Nodes, Continue(n) PROVE Promise!Next \/ Still
  <2>1. CASE Crank(n) \/ Spawn(n) \/ Submit(n)
    BY <2>1, RefinesCrank, RefinesSpawn, RefinesSubmit
  <2>2. CASE CrankUnapproved(n) \/ Release(n) \/ Destroy(n) \/ Send(n)
    BY <2>2 DEF CrankUnapproved, Release, Destroy, Send, store, chain
  <2>3. QED
    BY <1>4, <2>1, <2>2 DEF Continue
<1>5. ASSUME NEW n \in Nodes, Replay(n) \/ Restart(n) PROVE Still
  BY <1>5 DEF Replay, Restart, store, chain
<1>6. ASSUME NEW m \in network, Lose(m) PROVE Still
  BY <1>6 DEF Lose, store, chain
<1>7. CASE UNCHANGED vars
  BY <1>7 DEF vars, store, chain
<1> HIDE DEF Still
<1>8. QED
  BY <1>2, <1>3, <1>4, <1>5, <1>6, <1>7 DEF Next

\* Opening a ledger channel keeps the promise of FundingPromise, whatever is
\* lost, repeated or forgotten on the way.
THEOREM Refinement == Spec => ImplementsPromise
<1>1. Init => Promise!Init
  BY DEF Init, Promise!Init, Promise!Nodes, Nodes, Turns
<1>2. InductiveInv /\ [Next]_vars =>
        [Promise!Next]_<<signed["prefund"], deposited, signed["postfund"], ledgers>>
  BY RefinesNext
<1>3. QED
  BY <1>1, <1>2, Invariance, PTL DEF Spec, ImplementsPromise, Promise!Spec

-----------------------------------------------------------------------------
(***************************************************************************)
(* One ledger per counterparty, when one node asks for every channel.      *)
(***************************************************************************)
\* A node that has no Channel and no ledger knows no objective.
LEMMA NoChannelsNoObjectives ==
  ASSUME InductiveInv, NEW n \in Nodes, ~ ChannelsExistWithCounterparty(n)
  PROVE  \A d \in Channels : ~ IsKnown(n, d)
<1>1. SUFFICES ASSUME NEW d \in Channels, IsKnown(n, d) PROVE FALSE
  OBVIOUS
<1>2. channels[n][d] = None /\ d \notin ledgers[n]
  BY DEF ChannelsExistWithCounterparty
<1>3. StoreInv(n, d)
  BY DEF InductiveInv
<1>4. QED
  BY <1>1, <1>2, <1>3 DEF StoreInv, ObjectiveInv, IsKnown

\* A node that has signed the prefund state knows the objective.
LEMMA SignerKnows ==
  ASSUME InductiveInv, NEW n \in Nodes, NEW ch \in Channels, n \in signed["prefund"][ch]
  PROVE  IsKnown(n, ch)
<1>1. StoreInv(n, ch)
  BY DEF InductiveInv
<1>2. QED
  BY <1>1 DEF StoreInv, IsUnjudged, Status, IsKnown

\* A step that makes known, or loads, an objective its initiator knows.
LEMMA KnowledgeRests ==
  ASSUME InductiveInv, RequestsInv, OneNodeAsks,
         \A n \in Nodes, ch \in Channels :
           /\ IsKnown(n, ch) => IsKnown(n, ch)'
           /\ IsKnown(n, ch)' => IsKnown(Initiator[ch], ch),
         \A n \in Nodes : \/ doing'[n] = doing[n] \/ doing'[n] = Idle
                          \/ doing'[n].step # "crank"
                          \/ doing'[n].ch \in Channels /\ objectives'[n][doing'[n].ch] # None
  PROVE  RequestsInv'
<1>1. KnownInv'
  BY Participants DEF RequestsInv, KnownInv
<1>2. ASSUME NEW n \in Nodes, doing'[n] # Idle PROVE UnstoredInv(n, doing[n])'
  <2>1. CASE doing'[n] = doing[n]
    <3>1. PICK w \in Loaded \cup Effects : w = doing[n] /\ w = doing'[n]
      BY <1>2, <2>1 DEF InductiveInv, TypeOK
    <3>2. w.ch \in Channels
      BY DEF Loaded, Effects
    <3>3. UnstoredInv(n, w)
      BY <1>2, <2>1, <3>1 DEF RequestsInv
    <3>4. SUFFICES ASSUME w.step = "crank", ~ IsKnown(n, w.ch)'
                   PROVE  n = Initiator[w.ch] /\ \A d \in Channels : ~ IsKnown(n, d)'
      BY <3>1 DEF UnstoredInv, IsKnown
    <3>5. n = Initiator[w.ch] /\ \A d \in Channels : ~ IsKnown(n, d)
      BY <3>2, <3>3, <3>4 DEF UnstoredInv
    <3>6. \A d \in Channels : Initiator[d] = n
      BY <3>2, <3>5 DEF OneNodeAsks
    <3>7. QED
      BY <3>5, <3>6
  <2>2. CASE doing'[n].step # "crank"
    BY <2>2 DEF UnstoredInv
  <2>3. CASE doing'[n].ch \in Channels /\ objectives'[n][doing'[n].ch] # None
    BY <2>3 DEF UnstoredInv, IsKnown
  <2>4. QED
    BY <1>2, <2>1, <2>2, <2>3
<1>3. QED
  BY <1>1, <1>2 DEF RequestsInv

\* A request: the node knows no objective, and loads its first.
LEMMA RequestKnows ==
  ASSUME InductiveInv, RequestsInv, NEW n \in Nodes, NEW ch \in Channels, Request(n, ch)
  PROVE  RequestsInv'
<1>1. TypeOK
  BY DEF InductiveInv
<1>2. \A d \in Channels : ~ IsKnown(n, d)
  BY NoChannelsNoObjectives DEF Request
<1>3. objectives' = objectives
  BY DEF Request, store
<1>4. KnownInv'
  BY <1>3, Participants DEF RequestsInv, KnownInv, IsKnown
<1>5. ASSUME NEW k \in Nodes, doing'[k] # Idle PROVE UnstoredInv(k, doing[k])'
  <2>1. CASE k = n
    <3>1. doing'[n].ch = ch /\ Initiator[ch] = n
      BY <1>1 DEF Request, Load, TypeOK
    <3>2. \A d \in Channels : ~ IsKnown(n, d)'
      BY <1>2, <1>3 DEF IsKnown
    <3>3. QED
      BY <2>1, <3>1, <3>2 DEF UnstoredInv
  <2>2. CASE k # n
    <3>1. doing'[k] = doing[k]
      BY <1>1, <2>2 DEF Request, Load, TypeOK
    <3>2. UnstoredInv(k, doing[k])
      BY <1>5, <3>1 DEF RequestsInv
    <3>3. QED
      BY <1>3, <3>1, <3>2 DEF UnstoredInv, IsKnown
  <2>3. QED
    BY <2>1, <2>2
<1>6. QED
  BY <1>4, <1>5 DEF RequestsInv

\* A payload of an objective: it was signed by a node that knows it, so the
\* initiator knows it.
LEMMA ReceiveNewKnows ==
  ASSUME InductiveInv, RequestsInv, OneNodeAsks,
         NEW n \in Nodes, NEW m \in network, ReceiveNew(n, m)
  PROVE  RequestsInv'
<1>1. TypeOK
  BY DEF InductiveInv
<1>2. m.ch \in Channels /\ m.to = n /\ m.type = "prefund"
  BY <1>1 DEF TypeOK, Message, ReceiveNew
<1>3. Peer(n) \in signed["prefund"][m.ch]
  BY <1>2 DEF InductiveInv, NetworkInv
<1>4. IsKnown(Initiator[m.ch], m.ch)
  <2>1. IsKnown(Peer(n), m.ch)
    BY <1>2, <1>3, SignerKnows, NodesDiffer
  <2>2. QED
    BY <1>2, <2>1, NodesDiffer DEF RequestsInv, KnownInv
<1>5. \E o \in Objective : objectives' = [objectives EXCEPT ![n][m.ch] = o]
  BY DEF ReceiveNew, Objective
<1>6. \A k \in Nodes, d \in Channels :
        IF k = n /\ d = m.ch THEN objectives'[k][d] # None
                             ELSE objectives'[k][d] = objectives[k][d]
  BY <1>1, <1>2, <1>5, NoneAssumption DEF TypeOK
<1>7. \A k \in Nodes, d \in Channels :
        /\ IsKnown(k, d) => IsKnown(k, d)'
        /\ IsKnown(k, d)' => IsKnown(Initiator[d], d)
  BY <1>4, <1>6 DEF RequestsInv, KnownInv, IsKnown
<1>8. \A k \in Nodes : \/ doing'[k] = doing[k] \/ doing'[k] = Idle
                       \/ doing'[k].ch \in Channels /\ objectives'[k][doing'[k].ch] # None
  BY <1>1, <1>2, <1>6 DEF ReceiveNew, Load, TypeOK
<1>9. QED
  BY <1>7, <1>8, KnowledgeRests

\* A crank: what it stores was known, or is the first request.
LEMMA CrankKnows ==
  ASSUME InductiveInv, RequestsInv, OneNodeAsks, NEW n \in Nodes, Crank(n)
  PROVE  RequestsInv'
<1>1. TypeOK
  BY DEF InductiveInv
<1>2. PICK w \in Loaded : w = doing[n]
  BY <1>1 DEF Crank, TypeOK, Loaded, Effects
<1>3. w.ch \in Channels /\ w # Idle /\ w.step = "crank"
  BY <1>2, IdleAssumption DEF Loaded
<1>4. \E o \in Objective : objectives' = [objectives EXCEPT ![n][w.ch] = o]
  <2> DEFINE complete == IsComplete(n, w.channel)
             o == [status    |-> IF complete THEN "completed" ELSE "approved",
                   submitted |-> w.objective.submitted \/ ShouldDeposit(n, w)]
  <2>1. objectives' = [objectives EXCEPT ![n][w.ch] = o]
    BY <1>2 DEF Crank
  <2>2. (w.objective.submitted \/ ShouldDeposit(n, w)) \in BOOLEAN
    BY Zenon
  <2>3. o \in Objective
    BY <2>2 DEF Objective
  <2>4. QED
    BY <2>1, <2>3
<1>5. \A k \in Nodes, d \in Channels :
        IF k = n /\ d = w.ch THEN objectives'[k][d] # None
                             ELSE objectives'[k][d] = objectives[k][d]
  BY <1>1, <1>3, <1>4, NoneAssumption DEF TypeOK
<1>6. \A k \in Nodes : doing'[k] = doing[k] \/ doing'[k].step # "crank"
  BY <1>1, <1>2 DEF Crank, TypeOK
<1>7. CASE IsKnown(n, w.ch)
  <2>1. \A k \in Nodes, d \in Channels :
          /\ IsKnown(k, d) => IsKnown(k, d)'
          /\ IsKnown(k, d)' => IsKnown(Initiator[d], d)
    BY <1>3, <1>5, <1>7 DEF RequestsInv, KnownInv, IsKnown
  <2>2. QED
    BY <1>6, <2>1, KnowledgeRests
<1>8. CASE ~ IsKnown(n, w.ch)
  <2>1. n = Initiator[w.ch] /\ \A d \in Channels : ~ IsKnown(n, d)
    BY <1>2, <1>3, <1>8 DEF RequestsInv, UnstoredInv
  <2>2. \A d \in Channels : Initiator[d] = n
    BY <1>3, <2>1 DEF OneNodeAsks
  <2>3. \A k \in Nodes, d \in Channels : ~ IsKnown(k, d)
    BY <2>1, <2>2 DEF RequestsInv, KnownInv
  <2>4. \A k \in Nodes, d \in Channels : IsKnown(k, d)' <=> k = n /\ d = w.ch
    BY <1>5, <2>3 DEF IsKnown
  <2>5. KnownInv'
    BY <2>1, <2>2, <2>4 DEF KnownInv
  <2>6. ASSUME NEW k \in Nodes, doing'[k] # Idle PROVE UnstoredInv(k, doing[k])'
    <3>1. CASE doing'[k].step # "crank"
      BY <3>1 DEF UnstoredInv
    <3>2. CASE doing'[k] = doing[k] /\ doing[k].step = "crank"
      <4>1. k # n
        BY <1>1, <1>2, <3>2 DEF Crank, TypeOK
      <4>2. PICK u \in Loaded : u = doing[k] /\ u = doing'[k]
        BY <1>1, <2>6, <3>2 DEF TypeOK, Loaded, Effects
      <4>3. u.ch \in Channels /\ u.step = "crank"
        BY DEF Loaded
      <4>4. k = Initiator[u.ch]
        BY <2>3, <2>6, <3>2, <4>2, <4>3 DEF RequestsInv, UnstoredInv
      <4>5. QED
        BY <2>2, <4>1, <4>3, <4>4
    <3>3. QED
      BY <1>6, <3>1, <3>2
  <2>7. QED
    BY <2>5, <2>6 DEF RequestsInv
<1>9. QED
  BY <1>7, <1>8

\* The other steps load what the store knows, if anything, and make nothing
\* known.
LEMMA RequestsInvNext ==
  ASSUME InductiveInv, RequestsInv, OneNodeAsks, [Next]_vars
  PROVE  RequestsInv'
<1>1. TypeOK
  BY DEF InductiveInv
<1>2. ASSUME objectives' = objectives,
             \A k \in Nodes : \/ doing'[k] = doing[k] \/ doing'[k] = Idle
                              \/ doing'[k].step # "crank"
                              \/ doing'[k].ch \in Channels /\ objectives[k][doing'[k].ch] # None
      PROVE  RequestsInv'
  <2>1. \A k \in Nodes, d \in Channels :
          /\ IsKnown(k, d) => IsKnown(k, d)'
          /\ IsKnown(k, d)' => IsKnown(Initiator[d], d)
    BY <1>2 DEF RequestsInv, KnownInv, IsKnown
  <2>2. QED
    BY <1>2, <2>1, KnowledgeRests
<1>3. ASSUME NEW n \in Nodes, NEW m \in network, ReceiveForMissingChannel(n, m)
      PROVE  RequestsInv'
  BY <1>1, <1>2, <1>3 DEF ReceiveForMissingChannel, Stop, store, TypeOK
<1>4. ASSUME NEW n \in Nodes, NEW m \in network, Receive(n, m) PROVE RequestsInv'
  <2>1. m.ch \in Channels /\ objectives[n][m.ch] # None
    BY <1>1, <1>4 DEF TypeOK, Message, Receive, IsUnjudged, Status
  <2>2. QED
    BY <1>1, <1>2, <1>4, <2>1 DEF Receive, Load, store, TypeOK
<1>5. ASSUME NEW n \in Nodes, NEW m \in network, ReceiveRejection(n, m)
      PROVE  RequestsInv'
  <2>1. m.ch \in Channels /\ channels[n][m.ch] # None
    BY <1>1, <1>5 DEF TypeOK, Message, ReceiveRejection
  <2>2. objectives[n][m.ch] # None
    BY <2>1 DEF InductiveInv, StoreInv
  <2>3. \E o \in Objective : objectives' = [objectives EXCEPT ![n][m.ch] = o]
    <3>1. objectives[n][m.ch] \in Objective
      BY <1>1, <2>1, <2>2 DEF TypeOK
    <3>2. [objectives[n][m.ch] EXCEPT !.status = "rejected"] \in Objective
      BY <3>1 DEF Objective
    <3>3. QED
      BY <1>1, <1>5, <2>1, <3>2 DEF ReceiveRejection, TypeOK
  <2>4. \A k \in Nodes, d \in Channels :
          IF k = n /\ d = m.ch THEN objectives'[k][d] # None
                               ELSE objectives'[k][d] = objectives[k][d]
    BY <1>1, <2>1, <2>3, NoneAssumption DEF TypeOK
  <2>5. \A k \in Nodes, d \in Channels :
          /\ IsKnown(k, d) => IsKnown(k, d)'
          /\ IsKnown(k, d)' => IsKnown(Initiator[d], d)
    BY <2>2, <2>4 DEF RequestsInv, KnownInv, IsKnown
  <2>6. doing' = doing
    BY <1>5 DEF ReceiveRejection
  <2>7. QED
    BY <2>5, <2>6, KnowledgeRests
<1>6. ASSUME NEW n \in Nodes, HandleChainEvent(n) PROVE RequestsInv'
  <2>1. PICK e \in Event : e = log[seen[n] + 1]
    BY <1>1, <1>6 DEF TypeOK, HandleChainEvent
  <2>2. e.ch \in Channels
    BY DEF Event
  <2>3. channels[n][e.ch] # None => objectives[n][e.ch] # None
    BY <2>2 DEF InductiveInv, StoreInv
  <2>4. \/ doing' = doing \/ doing' = [doing EXCEPT ![n] = Idle]
        \/ /\ channels[n][e.ch] # None
           /\ Load(n, e.ch, objectives[n][e.ch], Recorded(channels[n][e.ch], e))
    BY <1>6, <2>1 DEF HandleChainEvent, Stop
  <2>5. objectives' = objectives
    BY <1>6 DEF HandleChainEvent
  <2>6. QED
    BY <1>1, <1>2, <2>2, <2>3, <2>4, <2>5 DEF Load, TypeOK
<1>7. ASSUME NEW n \in Nodes,
             \/ CrankUnapproved(n) \/ Release(n) \/ Spawn(n) \/ Destroy(n)
             \/ Send(n) \/ Submit(n) \/ Replay(n) \/ Restart(n)
      PROVE  RequestsInv'
  <2>1. objectives' = objectives
    BY <1>7 DEF CrankUnapproved, Release, Spawn, Destroy, Send, Submit, Replay, Restart, store
  <2>2. \A k \in Nodes : doing'[k] = doing[k] \/ doing'[k] = Idle \/ doing'[k].step # "crank"
    <3>1. ASSUME NEW s \in {"spawn", "destroy", "send", "submit"},
                 doing[n] # Idle, doing[n].step # "crank", Goes(n, s)
          PROVE  doing'[n].step # "crank" /\ \A k \in Nodes : k # n => doing'[k] = doing[k]
      <4>1. PICK w \in Effects : w = doing[n]
        BY <1>1, <3>1 DEF TypeOK, Loaded, Effects
      <4>2. [w EXCEPT !.step = s].step = s
        BY DEF Effects
      <4>3. doing' = [doing EXCEPT ![n] = [w EXCEPT !.step = s]]
        BY <3>1, <4>1 DEF Goes
      <4>4. QED
        BY <1>1, <4>2, <4>3 DEF TypeOK
    <3>2. ASSUME doing' = [doing EXCEPT ![n] = Idle] \/ doing' = doing
          PROVE  \A k \in Nodes : doing'[k] = doing[k] \/ doing'[k] = Idle
      BY <1>1, <3>2 DEF TypeOK
    <3>3. CASE CrankUnapproved(n) \/ Submit(n) \/ Replay(n) \/ Restart(n)
      BY <3>2, <3>3 DEF CrankUnapproved, Submit, Replay, Restart, Stop
    <3>4. CASE Release(n) \/ Spawn(n) \/ Destroy(n)
      BY <3>1, <3>4 DEF Release, Spawn, Destroy, IsAt
    <3>5. CASE Send(n)
      BY <3>1, <3>2, <3>5 DEF Send, IsAt
    <3>6. QED
      BY <1>7, <3>3, <3>4, <3>5
  <2>3. QED
    BY <1>2, <2>1, <2>2
<1>8. CASE (\E m \in network : Lose(m)) \/ UNCHANGED vars
  BY <1>2, <1>8 DEF Lose, store, vars
<1>9. QED
  BY <1>3, <1>4, <1>5, <1>6, <1>7, <1>8, RequestKnows, ReceiveNewKnows, CrankKnows
     DEF Next, Handle, Continue

\* A ledger has an objective at the node that asked for it, and that node takes
\* up no second one: with one node asking, there is one ledger per counterparty
\* (handleObjectiveRequest, channelsExistWithCounterparty).
THEOREM OneLedgerHolds == OneNodeAsks => (Spec => []OneLedgerPerCounterparty)
<1>1. ASSUME InductiveInv, RequestsInv PROVE OneLedgerPerCounterparty
  <2>1. SUFFICES ASSUME NEW n \in Nodes, NEW c \in ledgers[n], NEW d \in ledgers[n]
                 PROVE  c = d
    BY DEF OneLedgerPerCounterparty
  <2>2. ASSUME NEW e \in ledgers[n]
        PROVE  e \in Channels /\ IsKnown(Initiator[e], e)
    <3>1. e \in Channels
      BY <1>1 DEF InductiveInv, TypeOK
    <3>2. signed["postfund"][e] = Nodes
      BY <1>1, <3>1 DEF InductiveInv, StoreInv
    <3>3. signed["prefund"][e] = Nodes
      BY <1>1, <3>1, <3>2, ConfirmedIsAccepted DEF Nodes
    <3>4. QED
      BY <1>1, <3>1, <3>3, SignerKnows, Participants
  <2>3. QED
    BY <1>1, <2>2 DEF RequestsInv, KnownInv
<1>2. ASSUME Init PROVE RequestsInv
  <2>1. \A n \in Nodes, ch \in Channels : ~ IsKnown(n, ch)
    BY <1>2 DEF Init, IsKnown
  <2>2. \A n \in Nodes : doing[n] = Idle
    BY <1>2 DEF Init
  <2>3. QED
    BY <2>1, <2>2, Participants DEF RequestsInv, KnownInv
<1>3. ASSUME OneNodeAsks PROVE Spec => []OneLedgerPerCounterparty
  <2>1. Init => InductiveInv /\ RequestsInv
    BY <1>2, InitInv
  <2>2. (InductiveInv /\ RequestsInv) /\ [Next]_vars => (InductiveInv /\ RequestsInv)'
    BY <1>3, NextInv, RequestsInvNext
  <2>3. InductiveInv /\ RequestsInv => OneLedgerPerCounterparty
    BY <1>1
  <2>4. QED
    BY <2>1, <2>2, <2>3, PTL DEF Spec
<1>4. QED
  BY <1>3
=============================================================================
