------------------------- MODULE DirectDefundProofs -------------------------
(***************************************************************************)
(* Proofs about DirectDefund, for every choice of who asks, who may refuse *)
(* and what goes wrong, and every bound on the turns of the ledger.        *)
(***************************************************************************)
EXTENDS DirectDefund, SequenceTheorems, TLAPS

\* There are two nodes, and each is the other's peer.
LEMMA NodesDiffer ==
  /\ Leader \in Nodes /\ Follower \in Nodes /\ Leader # Follower
  /\ \A n \in Nodes : /\ Peer(n) \in Nodes /\ Peer(n) # n /\ Peer(Peer(n)) = n
                      /\ \A k \in Nodes : k = n \/ k = Peer(n)
BY DEF Nodes, Leader, Follower, Peer

-----------------------------------------------------------------------------
(***************************************************************************)
(* What no step undoes: signatures, the end of a ledger, the payout.       *)
(***************************************************************************)
Advances ==
  /\ \A k \in Nodes : signed[k] \subseteq signed'[k]
  /\ \A k \in Nodes : ledger[k] = None => ledger'[k] = None
  /\ concluded # None => concluded' # None

\* What a channel in the store or in memory rests on stays true.
LEMMA ChannelStays ==
  ASSUME Advances, NEW c \in Channel, ChannelInv(c)
  PROVE  ChannelInv(c)'
BY DEF Advances, ChannelInv, HasSigned, FinalTurn, Channel

\* So does what a handler has in memory.
LEMMA WorkStays ==
  ASSUME Advances, NEW k \in Nodes, NEW w \in Work, WorkInv(k, w)
  PROVE  WorkInv(k, w)'
<1>1. w.channel \in Channel
  BY DEF Work
<1>2. ChannelInv(w.channel)'
  BY <1>1, ChannelStays DEF WorkInv
<1>3. QED
  BY <1>2, NodesDiffer DEF Advances, WorkInv, HasSigned

\* A node whose store is left alone.
LEMMA StoreStays ==
  ASSUME InductiveInv, Advances, NEW k \in Nodes, UNCHANGED signed[k],
         UNCHANGED <<objective[k], channel[k], owned[k]>>
  PROVE  NodeInv(k)'
<1>1. NodeInv(k) /\ channel[k] \in Channel \cup {None}
  BY DEF InductiveInv, TypeOK, StoreInv
<1>2. channel'[k] # None => ChannelInv(channel[k])'
  BY <1>1, ChannelStays DEF NodeInv
<1>3. QED
  BY <1>1, <1>2 DEF Advances, NodeInv, ObjectiveInv

\* A node that stays in its handler, or stops.
LEMMA HandlerStays ==
  ASSUME InductiveInv, Advances, NEW k \in Nodes,
         doing'[k] = doing[k] \/ doing'[k] = Idle
  PROVE  doing'[k] # Idle => WorkInv(k, doing[k])'
<1>1. SUFFICES ASSUME doing'[k] # Idle PROVE WorkInv(k, doing[k])'
  OBVIOUS
<1> DEFINE w == doing[k]
<1>2. w \in Work /\ WorkInv(k, w) /\ doing'[k] = w
  BY <1>1 DEF InductiveInv, TypeOK, HandlersInv
<1>3. PICK x \in Work : x = w
  BY <1>2
<1>4. WorkInv(k, x)'
  BY <1>2, <1>3, WorkStays
<1>5. QED
  BY <1>2, <1>3, <1>4

\* No message but of what is signed.
LEMMA NetworkStays ==
  ASSUME InductiveInv, Advances,
         \A m \in network' :
           \/ m \in network
           \/ m.type = "rejection"
           \/ m.type = "final" /\ HasSigned(Peer(m.to), m.turn)'
           \/ m.type \in {"proposal", "countersigned"} /\ m.turn \in 1..MaxTurn
  PROVE  NetworkInv'
<1>1. SUFFICES ASSUME NEW m \in network'
               PROVE  /\ m.type = "final" => HasSigned(Peer(m.to), m.turn)'
                      /\ m.type \in {"proposal", "countersigned"} =>
                           m.turn \in 1..MaxTurn
  BY DEF NetworkInv
<1>2. CASE m \in network
  <2>1. m.to \in Nodes
    BY <1>2 DEF InductiveInv, TypeOK, Message
  <2>2. m.type = "final" => HasSigned(Peer(m.to), m.turn)
    BY <1>2 DEF InductiveInv, NetworkInv
  <2>3. m.type \in {"proposal", "countersigned"} => m.turn \in 1..MaxTurn
    BY <1>2 DEF InductiveInv, NetworkInv
  <2>4. QED
    BY <2>1, <2>2, <2>3, NodesDiffer DEF Advances, HasSigned
<1>3. QED
  BY <1>1, <1>2

\* A step that leaves the chain alone.
LEMMA PayoutStays ==
  ASSUME InductiveInv, Advances, UNCHANGED <<concluded, log>>
  PROVE  LogInv' /\ WithdrawnIsAgreed'
BY DEF InductiveInv, Advances, LogInv, WithdrawnIsAgreed

\* A step that sends no withdrawal and leaves the leader's record of it alone.
LEMMA SubmittedStays ==
  ASSUME InductiveInv, UNCHANGED <<withdrawals, objective[Leader]>>,
         doing'[Leader] = doing[Leader] \/ doing'[Leader] = Idle
  PROVE  SubmittedInv' /\ WithdrawnOnce'
BY DEF InductiveInv, SubmittedInv, WithdrawnOnce, IsSpent

\* A step that touches of the stores no more than the ledgers: nodes may stop,
\* messages may come and go.
LEMMA LedgerStep ==
  ASSUME InductiveInv, Advances, ledger' \in [Nodes -> Ledger \cup {None}],
         UNCHANGED <<objective, channel, owned, chain, signed, withdrawals>>,
         doing' \in [Nodes -> Work \cup {Idle}],
         \A k \in Nodes : doing'[k] = doing[k] \/ doing'[k] = Idle,
         network' \subseteq Message,
         \A m \in network' :
           \/ m \in network
           \/ m.type = "rejection"
           \/ m.type = "final" /\ HasSigned(Peer(m.to), m.turn)
           \/ m.type \in {"proposal", "countersigned"} /\ m.turn \in 1..MaxTurn,
         seen' \in [Nodes -> 0..Len(log)], asked' \subseteq Closers
  PROVE  InductiveInv'
<1>2. StoreInv'
  BY StoreStays DEF StoreInv
<1>3. HandlersInv'
  BY HandlerStays DEF HandlersInv
<1>4. NetworkInv'
  <2>1. \A m : HasSigned(Peer(m.to), m.turn) => HasSigned(Peer(m.to), m.turn)'
    BY DEF HasSigned
  <2>2. QED
    BY <2>1, NetworkStays
<1>5. LogInv' /\ WithdrawnIsAgreed'
  BY PayoutStays DEF chain
<1>6. SubmittedInv' /\ WithdrawnOnce'
  BY SubmittedStays, NodesDiffer
<1>7. TypeOK'
  BY DEF InductiveInv, TypeOK, chain
<1>8. QED
  BY <1>2, <1>3, <1>4, <1>5, <1>6, <1>7 DEF InductiveInv

\* A step that does not even touch these.
LEMMA QuietStep ==
  ASSUME InductiveInv, UNCHANGED <<store, chain, signed, withdrawals>>,
         doing' \in [Nodes -> Work \cup {Idle}],
         \A k \in Nodes : doing'[k] = doing[k] \/ doing'[k] = Idle,
         network' \subseteq Message,
         \A m \in network' :
           \/ m \in network
           \/ m.type = "rejection"
           \/ m.type = "final" /\ HasSigned(Peer(m.to), m.turn)
           \/ m.type \in {"proposal", "countersigned"} /\ m.turn \in 1..MaxTurn,
         seen' \in [Nodes -> 0..Len(log)], asked' \subseteq Closers
  PROVE  InductiveInv'
<1>1. Advances
  BY DEF Advances, store, chain
<1>2. ledger' \in [Nodes -> Ledger \cup {None}]
  BY DEF InductiveInv, TypeOK, store
<1>3. QED
  BY <1>1, <1>2, LedgerStep DEF store

\* A node that ends a step of its handler with w in memory.
LEMMA HandlersStep ==
  ASSUME InductiveInv, Advances, NEW n \in Nodes, NEW w \in Work,
         doing' = [doing EXCEPT ![n] = w], WorkInv(n, w)'
  PROVE  /\ doing' \in [Nodes -> Work \cup {Idle}]
         /\ HandlersInv'
         /\ doing'[n] = w /\ w # Idle
         /\ \A k \in Nodes : k # n => doing'[k] = doing[k]
<1>1. doing \in [Nodes -> Work \cup {Idle}]
  BY DEF InductiveInv, TypeOK
<1>2. doing'[n] = w /\ \A k \in Nodes : k # n => doing'[k] = doing[k]
  BY <1>1
<1>3. HandlersInv'
  <2>1. SUFFICES ASSUME NEW k \in Nodes, doing'[k] # Idle PROVE WorkInv(k, doing[k])'
    BY DEF HandlersInv
  <2>2. CASE k = n
    BY <1>2, <2>2
  <2>3. CASE k # n
    BY <1>2, <2>1, <2>3, HandlerStays
  <2>4. QED
    BY <2>2, <2>3
<1>4. QED
  BY <1>1, <1>2, <1>3, IdleAssumption

\* A node that goes on at a step of a handler.
LEMMA LoadStep ==
  ASSUME InductiveInv, Advances, NEW n \in Nodes,
         NEW step \in {"destroy", "update", "crank"}, NEW turn \in Nat,
         NEW o \in Objective, NEW c \in Channel, Load(n, step, turn, o, c),
         ChannelInv(c), step # "destroy" => ledger[n] = None,
         turn # 0 => HasSigned(Peer(n), turn)
  PROVE  /\ doing' \in [Nodes -> Work \cup {Idle}]
         /\ HandlersInv'
         /\ doing'[n].step = step /\ doing'[n].objective = o
         /\ doing'[n].withdraw = FALSE
         /\ \A k \in Nodes : k # n => doing'[k] = doing[k]
<1> DEFINE w == [step |-> step, turn |-> turn, objective |-> o, channel |-> c,
                 messages |-> {}, withdraw |-> FALSE]
<1>1. w \in Work
  BY DEF Work
<1>2. doing \in [Nodes -> Work \cup {Idle}] /\ doing' = [doing EXCEPT ![n] = w]
  BY DEF Load, InductiveInv, TypeOK
<1>3. /\ w.step = step /\ w.turn = turn /\ w.objective = o /\ w.channel = c
      /\ w.messages = {} /\ w.withdraw = FALSE
  OBVIOUS
<1>4. WorkInv(n, w)
  BY <1>3 DEF WorkInv
<1> HIDE DEF w
<1>5. WorkInv(n, w)'
  BY <1>1, <1>4, WorkStays
<1>6. QED
  BY <1>1, <1>2, <1>3, <1>5, HandlersStep

\* The Channel and the objective a node makes of a ledger it may close.
LEMMA ChannelOfLedger ==
  ASSUME NEW l \in Ledger \cup {None}, CanClose(l)
  PROVE  ChannelOf(l) \in Channel /\ ChannelInv(ChannelOf(l))
BY DEF CanClose, ChannelOf, Ledger, Channel, ChannelInv

\* The objective newObjective makes: it has the status the policy gives it,
\* and has submitted nothing.
LEMMA NewObjectiveType ==
  ASSUME NEW status \in {"unapproved", "approved", "rejected"}
  PROVE  /\ NewObjective(status) \in Objective
         /\ NewObjective(status) # None
         /\ NewObjective(status).status = status
         /\ NewObjective(status).submitted = FALSE
<1>1. NewObjective(status) \in Objective
  BY DEF NewObjective, Objective
<1>2. NewObjective(status).status = status /\ NewObjective(status).submitted = FALSE
  BY DEF NewObjective
<1>3. QED
  BY <1>1, <1>2, NoneAssumption

-----------------------------------------------------------------------------
(***************************************************************************)
(* The requests and messages that start a handler.                         *)
(***************************************************************************)

\* handleObjectiveRequest: a node asks to close the ledger.
LEMMA RequestStep ==
  ASSUME InductiveInv, NEW n \in Nodes, Request(n)
  PROVE  InductiveInv'
<1>1. /\ TypeOK /\ doing[n] = Idle /\ n \in Closers
      /\ UNCHANGED <<store, network, chain, seen, signed, withdrawals>>
      /\ asked' = asked \cup {n}
      /\ \/ /\ CanClose(ledger[n])
            /\ Load(n, "destroy", 0, NewObjective("approved"), ChannelOf(ledger[n]))
         \/ doing' = [doing EXCEPT ![n] = Idle]
  BY DEF InductiveInv, Request, IsFree, Stop
<1>2. Advances
  BY <1>1 DEF Advances, store, chain
<1>3. StoreInv'
  BY <1>1, <1>2, StoreStays DEF StoreInv, store
<1>4. NetworkInv'
  BY <1>1, <1>2, NetworkStays
<1>5. LogInv' /\ WithdrawnIsAgreed'
  BY <1>1, <1>2, PayoutStays DEF chain
<1>6. CASE doing' = [doing EXCEPT ![n] = Idle]
  <2>1. /\ doing' \in [Nodes -> Work \cup {Idle}]
        /\ \A k \in Nodes : doing'[k] = doing[k] \/ doing'[k] = Idle
    BY <1>1, <1>6 DEF TypeOK
  <2>2. QED
    BY <1>1, <2>1, QuietStep DEF TypeOK, chain
<1>7. CASE /\ CanClose(ledger[n])
           /\ Load(n, "destroy", 0, NewObjective("approved"), ChannelOf(ledger[n]))
  <2>1. /\ ChannelOf(ledger[n]) \in Channel /\ ChannelInv(ChannelOf(ledger[n]))
        /\ NewObjective("approved") \in Objective
    BY <1>1, <1>7, ChannelOfLedger, NewObjectiveType DEF TypeOK
  <2>2. /\ doing' \in [Nodes -> Work \cup {Idle}]
        /\ HandlersInv'
        /\ doing'[n].withdraw = FALSE
        /\ \A k \in Nodes : k # n => doing'[k] = doing[k]
    BY <1>2, <1>7, <2>1, LoadStep
  <2>3. TypeOK'
    BY <1>1, <2>2 DEF TypeOK, store, chain
  <2>4. SubmittedInv' /\ WithdrawnOnce'
    <3>1. CASE n # Leader
      BY <1>1, <2>2, <3>1, SubmittedStays, NodesDiffer DEF store
    <3>2. CASE n = Leader
      <4>1. ledger[Leader] # None
        BY <1>7, <3>2 DEF CanClose
      <4>2. ~ IsSpent
        BY <4>1, NodesDiffer DEF InductiveInv, SubmittedInv, StoreInv, NodeInv, ObjectiveInv
      <4>3. ~ IsSpent'
        BY <1>1, <2>2, <3>2, <4>2 DEF IsSpent
      <4>4. QED
        BY <1>1, <2>2, <3>2, <4>3 DEF InductiveInv, SubmittedInv, WithdrawnOnce
    <3>3. QED
      BY <3>1, <3>2
  <2>5. QED
    BY <1>3, <1>4, <1>5, <2>2, <2>3, <2>4 DEF InductiveInv
<1>8. QED
  BY <1>1, <1>6, <1>7

\* Taking a message, and sending something in return, or nothing.
LEMMA TakeAndSendType ==
  ASSUME TypeOK, NEW m, NEW sent \in SUBSET Message, TakeAndSend(m, sent)
  PROVE  network' \subseteq Message /\ network' \subseteq network \cup sent
BY DEF TypeOK, TakeAndSend

\* The latter leaves in flight what was there.
LEMMA TakeType ==
  ASSUME TypeOK, NEW m, TakeAndSend(m, {})
  PROVE  network' \subseteq Message /\ network' \subseteq network
BY DEF TypeOK, TakeAndSend

\* constructObjectiveFromMessage, or setObjective of an objective not judged.
LEMMA JudgeStep ==
  ASSUME InductiveInv, NEW m \in network, IsFree(m.to), m.type = "final",
         Judge(m.to, m), UNCHANGED <<chain, seen, asked, signed, withdrawals>>
  PROVE  InductiveInv'
<1> DEFINE n == m.to
           c == IF objective[n] = None THEN ChannelOf(ledger[n]) ELSE channel[n]
<1>1. /\ TypeOK /\ doing[n] = Idle /\ n \in Nodes /\ m.turn \in Nat
      /\ HasSigned(Peer(n), m.turn)
      /\ UNCHANGED <<ledger, owned>>
      /\ channel' = [channel EXCEPT ![n] = c]
  BY DEF InductiveInv, TypeOK, NetworkInv, Message, IsFree, Judge
<1>2. /\ objective[n] = None => CanClose(ledger[n])
      /\ objective[n] # None => objective[n].status = "unapproved"
      /\ \/ /\ objective' = [objective EXCEPT ![n] = NewObjective("unapproved")]
            /\ Load(n, "destroy", m.turn, NewObjective("approved"), c)
            /\ TakeAndSend(m, {})
         \/ /\ objective' = [objective EXCEPT ![n] = NewObjective("rejected")]
            /\ TakeAndSend(m, {[type |-> "rejection", to |-> Peer(n)]})
            /\ UNCHANGED doing
  <2>1. objective[n] # None => objective[n] \in Objective
    BY <1>1 DEF TypeOK
  <2>2. QED
    BY <2>1 DEF Judge, Status, Objective
<1>3. c \in Channel /\ ChannelInv(c)
  <2>1. CASE objective[n] = None
    BY <1>1, <1>2, <2>1, ChannelOfLedger DEF TypeOK
  <2>2. CASE objective[n] # None
    BY <1>1, <2>2 DEF InductiveInv, TypeOK, StoreInv, NodeInv, ObjectiveInv
  <2>3. QED
    BY <2>1, <2>2
<1> HIDE DEF c
<1>4. Advances
  BY <1>1 DEF Advances, chain
<1>5. n = Leader => ~ IsSpent
  BY <1>1, <1>2 DEF InductiveInv, SubmittedInv, StoreInv, NodeInv, ObjectiveInv,
                    TypeOK, Objective, IsSpent
<1>6. PICK o \in Objective :
        /\ objective' = [objective EXCEPT ![n] = o]
        /\ o # None /\ o.status \in {"unapproved", "rejected"} /\ o.submitted = FALSE
  BY <1>2, NewObjectiveType
<1>7. StoreInv'
  <2>1. NodeInv(n)'
    <3>1. /\ channel'[n] = c /\ objective'[n] = o /\ c # None
      BY <1>1, <1>3, <1>6, NoneAssumption DEF TypeOK
    <3>2. ChannelInv(channel[n])'
      <4>1. PICK x \in Channel : x = c
        BY <1>3
      <4>2. ChannelInv(x)'
        BY <1>3, <1>4, <4>1, ChannelStays
      <4>3. QED
        BY <3>1, <4>1, <4>2
    <3>3. ObjectiveInv(n)'
      BY <1>6, <3>1 DEF ObjectiveInv
    <3>4. QED
      BY <1>1, <1>6, <3>1, <3>2, <3>3 DEF InductiveInv, StoreInv, NodeInv
  <2>2. \A k \in Nodes : k # n => NodeInv(k)'
    BY <1>1, <1>4, <1>6, StoreStays DEF TypeOK
  <2>3. QED
    BY <2>1, <2>2 DEF StoreInv
<1>8. network' \subseteq Message /\ NetworkInv'
  <2>1. network' \subseteq Message
        /\ network' \subseteq network \cup {[type |-> "rejection", to |-> Peer(n)]}
    <3>1. {[type |-> "rejection", to |-> Peer(n)]} \in SUBSET Message
      BY <1>1, NodesDiffer DEF Message
    <3>2. CASE TakeAndSend(m, {})
      BY <1>1, <3>2, TakeType
    <3>3. CASE TakeAndSend(m, {[type |-> "rejection", to |-> Peer(n)]})
      BY <1>1, <3>1, <3>3, TakeAndSendType
    <3>4. QED
      BY <1>2, <3>2, <3>3
  <2>2. QED
    BY <1>4, <2>1, NetworkStays
<1>9. LogInv' /\ WithdrawnIsAgreed'
  BY <1>1, <1>4, PayoutStays DEF chain
<1>10. /\ doing' \in [Nodes -> Work \cup {Idle}] /\ HandlersInv'
       /\ doing'[n] = Idle \/ doing'[n].withdraw = FALSE
       /\ \A k \in Nodes : k # n => doing'[k] = doing[k]
  <2>1. CASE UNCHANGED doing
    BY <1>1, <1>4, <2>1, HandlerStays DEF HandlersInv, TypeOK
  <2>2. CASE Load(n, "destroy", m.turn, NewObjective("approved"), c)
    BY <1>1, <1>3, <1>4, <2>2, NewObjectiveType, LoadStep
  <2>3. QED
    BY <1>2, <2>1, <2>2
<1>11. SubmittedInv' /\ WithdrawnOnce'
  <2>1. CASE n # Leader
    BY <1>1, <1>6, <1>10, <2>1, SubmittedStays, NodesDiffer DEF TypeOK
  <2>2. CASE n = Leader
    <3>1. ~ IsSpent'
      BY <1>5, <1>10, <2>2 DEF IsSpent
    <3>2. QED
      BY <1>10, <2>2, <3>1 DEF InductiveInv, SubmittedInv, WithdrawnOnce
  <2>3. QED
    BY <2>1, <2>2
<1>12. TypeOK'
  BY <1>1, <1>3, <1>6, <1>8, <1>10 DEF TypeOK, chain
<1>13. QED
  BY <1>7, <1>8, <1>9, <1>10, <1>11, <1>12 DEF InductiveInv

\* An objective that cannot be constructed stops the run loop.
LEMMA CannotConstructStep ==
  ASSUME InductiveInv, NEW m \in network, CannotConstruct(m.to, m),
         UNCHANGED <<chain, seen, asked, signed, withdrawals>>
  PROVE  InductiveInv'
<1>1. TypeOK /\ m.to \in Nodes /\ UNCHANGED store /\ TakeAndSend(m, {})
      /\ doing' = [doing EXCEPT ![m.to] = Idle]
  BY DEF InductiveInv, TypeOK, Message, CannotConstruct, Stop
<1>2. network' \subseteq Message /\ network' \subseteq network
  BY <1>1, TakeType
<1>3. /\ doing' \in [Nodes -> Work \cup {Idle}]
      /\ \A k \in Nodes : doing'[k] = doing[k] \/ doing'[k] = Idle
  BY <1>1 DEF TypeOK
<1>4. QED
  BY <1>1, <1>2, <1>3, QuietStep DEF TypeOK, chain

\* A payload of a running objective is taken up by update.
LEMMA TakeUpStep ==
  ASSUME InductiveInv, NEW m \in network, IsFree(m.to), m.type = "final",
         TakeUp(m.to, m), UNCHANGED <<chain, seen, asked, signed, withdrawals>>
  PROVE  InductiveInv'
<1> DEFINE n == m.to
<1>1. /\ TypeOK /\ doing[n] = Idle /\ n \in Nodes /\ m.turn \in Nat
      /\ HasSigned(Peer(n), m.turn)
      /\ UNCHANGED store /\ TakeAndSend(m, {})
      /\ objective[n] # None /\ objective[n].status = "approved"
      /\ Load(n, "update", m.turn, objective[n], channel[n])
  BY DEF InductiveInv, TypeOK, NetworkInv, Message, IsFree, TakeUp, Status
<1>2. /\ objective[n] \in Objective /\ channel[n] \in Channel
      /\ ChannelInv(channel[n]) /\ ledger[n] = None
  BY <1>1 DEF InductiveInv, TypeOK, StoreInv, NodeInv, ObjectiveInv
<1>3. Advances
  BY <1>1 DEF Advances, store, chain
<1>4. StoreInv' /\ LogInv' /\ WithdrawnIsAgreed'
  BY <1>1, <1>3, StoreStays, PayoutStays DEF StoreInv, store, chain
<1>5. network' \subseteq Message /\ network' \subseteq network
  BY <1>1, TakeType
<1>6. NetworkInv'
  BY <1>3, <1>5, NetworkStays
<1>7. /\ doing' \in [Nodes -> Work \cup {Idle}] /\ HandlersInv'
      /\ doing'[n].objective = objective[n] /\ doing'[n].withdraw = FALSE
      /\ \A k \in Nodes : k # n => doing'[k] = doing[k]
  <2>1. PICK o \in Objective, c \in Channel : o = objective[n] /\ c = channel[n]
    BY <1>2
  <2>2. PICK k \in Nodes, t \in Nat : k = n /\ t = m.turn
    BY <1>1
  <2>3. /\ Load(k, "update", t, o, c) /\ ChannelInv(c) /\ ledger[k] = None
        /\ HasSigned(Peer(k), t)
    BY <1>1, <1>2, <2>1, <2>2
  <2>4. /\ doing' \in [Nodes -> Work \cup {Idle}] /\ HandlersInv'
        /\ doing'[k].objective = o /\ doing'[k].withdraw = FALSE
        /\ \A j \in Nodes : j # k => doing'[j] = doing[j]
    BY <1>3, <2>3, LoadStep
  <2>5. QED
    BY <2>1, <2>2, <2>4
<1>8. SubmittedInv' /\ WithdrawnOnce'
  <2>1. CASE n # Leader
    BY <1>1, <1>7, <2>1, SubmittedStays, NodesDiffer DEF store
  <2>2. CASE n = Leader
    BY <1>1, <1>7, <2>2 DEF InductiveInv, SubmittedInv, WithdrawnOnce, IsSpent, store
  <2>3. QED
    BY <2>1, <2>2
<1>9. TypeOK'
  BY <1>1, <1>5, <1>7 DEF TypeOK, store, chain
<1>10. QED
  BY <1>4, <1>6, <1>7, <1>8, <1>9 DEF InductiveInv

\* A payload of an objective that has ended is dropped.
LEMMA IgnoreStep ==
  ASSUME InductiveInv, NEW m \in network, Ignore(m.to, m),
         UNCHANGED <<chain, seen, asked, signed, withdrawals>>
  PROVE  InductiveInv'
<1>1. TypeOK /\ UNCHANGED <<store, doing>> /\ TakeAndSend(m, {})
  BY DEF InductiveInv, Ignore
<1>2. network' \subseteq Message /\ network' \subseteq network
  BY <1>1, TakeType
<1>3. QED
  BY <1>1, <1>2, QuietStep DEF TypeOK, chain

\* A rejection; one of an objective the node does not have stops the run loop.
LEMMA ReceiveRejectionStep ==
  ASSUME InductiveInv, NEW m \in network, ReceiveRejection(m)
  PROVE  InductiveInv'
<1>1. PICK n \in Nodes : n = m.to
  BY DEF InductiveInv, TypeOK, Message
<1>2. /\ TypeOK /\ TakeAndSend(m, {}) /\ UNCHANGED <<chain, seen, asked, signed, withdrawals>>
      /\ \/ doing' = [doing EXCEPT ![n] = Idle] /\ UNCHANGED store
         \/ /\ objective[n] # None
            /\ objective' = [objective EXCEPT ![n].status = "rejected"]
            /\ UNCHANGED <<ledger, channel, owned, doing>>
  BY <1>1 DEF InductiveInv, ReceiveRejection, Stop
<1>3. network' \subseteq Message /\ network' \subseteq network
  BY <1>2, TakeType
<1>4. CASE doing' = [doing EXCEPT ![n] = Idle] /\ UNCHANGED store
  <2>1. /\ doing' \in [Nodes -> Work \cup {Idle}]
        /\ \A k \in Nodes : doing'[k] = doing[k] \/ doing'[k] = Idle
    BY <1>2, <1>4 DEF TypeOK
  <2>2. QED
    BY <1>2, <1>3, <1>4, <2>1, QuietStep DEF TypeOK, chain
<1>5. CASE /\ objective[n] # None
           /\ objective' = [objective EXCEPT ![n].status = "rejected"]
           /\ UNCHANGED <<ledger, channel, owned, doing>>
  <2>1. Advances
    BY <1>2, <1>5 DEF Advances, chain
  <2>2. PICK o \in Objective :
          /\ objective' = [objective EXCEPT ![n] = o]
          /\ o # None /\ o.status = "rejected"
          /\ o.submitted = objective[n].submitted
    <3>1. PICK p \in Objective : p = objective[n]
      BY <1>2, <1>5 DEF TypeOK
    <3>2. [p EXCEPT !.status = "rejected"] \in Objective
      BY DEF Objective
    <3>3. objective' = [objective EXCEPT ![n] = [p EXCEPT !.status = "rejected"]]
      BY <1>5, <3>1
    <3>4. /\ [p EXCEPT !.status = "rejected"].status = "rejected"
          /\ [p EXCEPT !.status = "rejected"].submitted = p.submitted
      BY DEF Objective
    <3>5. QED
      BY <3>1, <3>2, <3>3, <3>4, NoneAssumption
  <2>3. /\ objective'[n] = o
        /\ \A k \in Nodes : k # n => objective'[k] = objective[k]
    BY <1>2, <2>2 DEF TypeOK
  <2>4. StoreInv'
    <3>1. NodeInv(n)'
      <4>1. ASSUME channel[n] # None PROVE ChannelInv(channel[n])'
        <5>1. PICK c \in Channel : c = channel[n] /\ ChannelInv(c)
          BY <4>1 DEF InductiveInv, TypeOK, StoreInv, NodeInv
        <5>2. ChannelInv(c)'
          BY <2>1, <5>1, ChannelStays
        <5>3. QED
          BY <1>5, <5>1, <5>2
      <4>2. ObjectiveInv(n)'
        BY <1>5, <2>2, <2>3 DEF InductiveInv, StoreInv, NodeInv, ObjectiveInv
      <4>3. QED
        BY <1>2, <1>5, <2>2, <2>3, <4>1, <4>2 DEF InductiveInv, StoreInv, NodeInv
    <3>2. \A k \in Nodes : k # n => NodeInv(k)'
      BY <1>2, <1>5, <2>1, <2>3, StoreStays
    <3>3. QED
      BY <3>1, <3>2 DEF StoreInv
  <2>5. HandlersInv' /\ NetworkInv'
    BY <1>3, <1>5, <2>1, HandlerStays, NetworkStays DEF HandlersInv
  <2>6. LogInv' /\ WithdrawnIsAgreed'
    BY <1>2, <2>1, PayoutStays DEF chain
  <2>7. SubmittedInv' /\ WithdrawnOnce'
    BY <1>2, <1>5, <2>2, <2>3, NodesDiffer
       DEF InductiveInv, SubmittedInv, WithdrawnOnce, IsSpent
  <2>8. TypeOK'
    BY <1>2, <1>3, <1>5, <2>2 DEF TypeOK, chain
  <2>9. QED
    BY <2>4, <2>5, <2>6, <2>7, <2>8 DEF InductiveInv
<1>6. QED
  BY <1>2, <1>4, <1>5

-----------------------------------------------------------------------------
(***************************************************************************)
(* The steps of a handler that has started.                                *)
(***************************************************************************)

\* What the node has in memory, then.
LEMMA InHandler ==
  ASSUME InductiveInv, NEW n \in Nodes, NEW step, IsAt(n, step)
  PROVE  \E w \in Work : w = doing[n] /\ w # Idle /\ w.step = step /\ WorkInv(n, w)
<1>1. doing[n] \in Work /\ doing[n] # Idle
  BY DEF InductiveInv, TypeOK, IsAt
<1>2. WorkInv(n, doing[n])
  BY <1>1 DEF InductiveInv, HandlersInv
<1>3. QED
  BY <1>1, <1>2 DEF IsAt

\* A step that keeps the objective in memory as it was.
LEMMA SubmittedMoves ==
  ASSUME InductiveInv, NEW n \in Nodes, UNCHANGED <<withdrawals, objective[Leader]>>,
         doing[n] # Idle, doing'[n] # Idle,
         doing'[n].objective = doing[n].objective,
         doing'[n].withdraw = doing[n].withdraw,
         doing'[n].step \in {"destroy", "update", "crank"} =>
           doing[n].step \in {"destroy", "update", "crank"},
         \A k \in Nodes : k # n => doing'[k] = doing[k]
  PROVE  SubmittedInv' /\ WithdrawnOnce'
BY NodesDiffer DEF InductiveInv, SubmittedInv, WithdrawnOnce, IsSpent

\* The ledger is destroyed when its Channel is in memory.
LEMMA DestroyConsensusChannelStep ==
  ASSUME InductiveInv, NEW n \in Nodes, DestroyConsensusChannel(n)
  PROVE  InductiveInv'
<1>1. PICK w \in Work :
        w = doing[n] /\ w # Idle /\ w.step = "destroy" /\ WorkInv(n, w)
  BY InHandler DEF DestroyConsensusChannel
<1> DEFINE step == IF w.turn = 0 THEN "crank" ELSE "update"
           v == [w EXCEPT !.step = step]
<1>2. /\ TypeOK
      /\ doing' = [doing EXCEPT ![n] = v]
      /\ ledger' = [ledger EXCEPT ![n] = None]
      /\ UNCHANGED <<objective, channel, owned, network, chain, seen, asked,
                     signed, withdrawals>>
  BY <1>1 DEF InductiveInv, TypeOK, DestroyConsensusChannel, Goes
<1>3. /\ v \in Work /\ v.step = step /\ v.turn = w.turn /\ v.objective = w.objective
      /\ v.channel = w.channel /\ v.messages = w.messages /\ v.withdraw = w.withdraw
  BY DEF Work
<1>4. step \in {"crank", "update"} /\ (step = "update" => w.turn # 0)
  OBVIOUS
<1>5. Advances /\ ledger'[n] = None
  BY <1>2 DEF Advances, TypeOK, chain
<1> HIDE DEF v, step
<1>6. WorkInv(n, v)'
  <2>1. WorkInv(n, w)'
    BY <1>1, <1>5, WorkStays
  <2>2. ~ w.withdraw
    BY <1>1 DEF WorkInv
  <2>3. QED
    BY <1>1, <1>3, <1>4, <1>5, <2>1, <2>2 DEF WorkInv
<1>7. /\ doing' \in [Nodes -> Work \cup {Idle}] /\ HandlersInv'
      /\ doing'[n] = v /\ v # Idle
      /\ \A k \in Nodes : k # n => doing'[k] = doing[k]
  BY <1>2, <1>3, <1>5, <1>6, HandlersStep
<1>8. StoreInv'
  BY <1>2, <1>5, StoreStays DEF StoreInv
<1>9. NetworkInv'
  BY <1>2, <1>5, NetworkStays
<1>10. LogInv' /\ WithdrawnIsAgreed'
  BY <1>2, <1>5, PayoutStays DEF chain
<1>11. SubmittedInv' /\ WithdrawnOnce'
  BY <1>1, <1>2, <1>3, <1>7, SubmittedMoves
<1>12. TypeOK'
  BY <1>2, <1>7 DEF TypeOK, chain
<1>13. QED
  BY <1>7, <1>8, <1>9, <1>10, <1>11, <1>12 DEF InductiveInv

\* The final state that was received is added to the Channel in memory.
LEMMA UpdateStep ==
  ASSUME InductiveInv, NEW n \in Nodes, Update(n)
  PROVE  InductiveInv'
<1>1. PICK w \in Work :
        w = doing[n] /\ w # Idle /\ w.step = "update" /\ WorkInv(n, w)
  BY InHandler DEF Update
<1> DEFINE c == [w.channel EXCEPT !.final = @ \cup {Peer(n)}]
           v == [w EXCEPT !.step = "crank", !.channel = c]
<1>2. /\ TypeOK
      /\ UNCHANGED <<store, network, chain, seen, asked, signed, withdrawals>>
      /\ \/ w.turn = FinalTurn(w.channel) /\ doing' = [doing EXCEPT ![n] = v]
         \/ doing' = [doing EXCEPT ![n] = Idle]
  <2>1. w.turn = FinalTurn(w.channel) => doing' = [doing EXCEPT ![n] = v]
    BY <1>1 DEF Update, Work, InductiveInv, TypeOK
  <2>2. QED
    BY <1>1, <2>1 DEF InductiveInv, Update, Stop
<1>3. CASE doing' = [doing EXCEPT ![n] = Idle]
  <2>1. /\ doing' \in [Nodes -> Work \cup {Idle}]
        /\ \A k \in Nodes : doing'[k] = doing[k] \/ doing'[k] = Idle
    BY <1>2, <1>3 DEF TypeOK
  <2>2. QED
    BY <1>2, <2>1, QuietStep DEF TypeOK, chain
<1>4. CASE w.turn = FinalTurn(w.channel) /\ doing' = [doing EXCEPT ![n] = v]
  <2>1. /\ w.channel \in Channel /\ c \in Channel /\ FinalTurn(c) = FinalTurn(w.channel)
        /\ c.guaranteed = w.channel.guaranteed /\ c.holdings = w.channel.holdings
        /\ c.final = w.channel.final \cup {Peer(n)}
    BY NodesDiffer DEF Work, Channel, FinalTurn
  <2>2. w.turn # 0
    BY <1>4, <2>1 DEF FinalTurn, Channel
  <2> HIDE DEF c
  <2>3. ChannelInv(c)
    BY <1>1, <1>4, <2>1, <2>2 DEF ChannelInv, WorkInv
  <2>4. /\ v \in Work /\ v.step = "crank" /\ v.objective = w.objective
        /\ v.channel = c /\ v.messages = w.messages /\ v.withdraw = w.withdraw
    BY <2>1 DEF Work
  <2> HIDE DEF v
  <2>5. WorkInv(n, v)
    BY <1>1, <2>3, <2>4 DEF WorkInv
  <2>6. Advances
    BY <1>2 DEF Advances, store, chain
  <2>7. WorkInv(n, v)'
    BY <2>4, <2>5, <2>6, WorkStays
  <2>8. /\ doing' \in [Nodes -> Work \cup {Idle}] /\ HandlersInv'
        /\ doing'[n] = v /\ v # Idle
        /\ \A k \in Nodes : k # n => doing'[k] = doing[k]
    BY <1>4, <2>4, <2>6, <2>7, HandlersStep
  <2>9. StoreInv'
    BY <1>2, <2>6, StoreStays DEF StoreInv, store
  <2>10. NetworkInv'
    BY <1>2, <2>6, NetworkStays
  <2>11. LogInv' /\ WithdrawnIsAgreed'
    BY <1>2, <2>6, PayoutStays DEF chain
  <2>12. SubmittedInv' /\ WithdrawnOnce'
    BY <1>1, <1>2, <2>4, <2>8, SubmittedMoves DEF store
  <2>13. TypeOK'
    BY <1>2, <2>8 DEF TypeOK, store, chain
  <2>14. QED
    BY <2>8, <2>9, <2>10, <2>11, <2>12, <2>13 DEF InductiveInv
<1>5. QED
  BY <1>2, <1>3, <1>4

\* crank signs the final state, records that it did and what it is about to
\* send, and leaves the rest of the handler a message and a withdrawal.
LEMMA CrankStep ==
  ASSUME InductiveInv, NEW n \in Nodes, Crank(n)
  PROVE  InductiveInv'
<1>1. PICK w \in Work :
        w = doing[n] /\ w # Idle /\ w.step = "crank" /\ WorkInv(n, w)
  BY InHandler DEF Crank
<1> DEFINE done == Finalized(n, w.channel) /\ FullyWithdrawn(w)
           o == [status    |-> IF done THEN "completed" ELSE "approved",
                 submitted |-> w.objective.submitted \/ ShouldWithdraw(n, w)]
           c == Signed(n, w.channel)
           s == [turn |-> FinalTurn(w.channel), guaranteed |-> w.channel.guaranteed]
           v == [w EXCEPT !.step     = IF done THEN "release" ELSE "send",
                          !.messages = IF n \in w.channel.final THEN {}
                                       ELSE {FinalMessage(n, w.channel)},
                          !.withdraw = ShouldWithdraw(n, w)]
<1>2. /\ TypeOK
      /\ objective' = [objective EXCEPT ![n] = o]
      /\ channel' = [channel EXCEPT ![n] = c]
      /\ owned' = [owned EXCEPT ![n] = @ \/ ~ done]
      /\ signed' = [signed EXCEPT ![n] = @ \cup {s}]
      /\ doing' = [doing EXCEPT ![n] = v]
      /\ UNCHANGED <<ledger, network, chain, seen, asked, withdrawals>>
  BY <1>1 DEF InductiveInv, Crank
<1>3. /\ w.channel \in Channel /\ w.objective \in Objective
      /\ ChannelInv(w.channel) /\ ledger[n] = None
  BY <1>1 DEF Work, WorkInv
<1>4. s = [turn |-> FinalTurn(w.channel), guaranteed |-> FALSE] /\ s \in FinalState
  <2>1. FinalTurn(w.channel) \in 1..MaxTurn + 1
    BY <1>3, MaxTurnAssumption DEF FinalTurn, Channel
  <2>2. w.channel.guaranteed = FALSE
    BY <1>3 DEF ChannelInv
  <2>3. QED
    BY <2>1, <2>2 DEF FinalState
<1>5. /\ c \in Channel /\ FinalTurn(c) = FinalTurn(w.channel)
      /\ c.guaranteed = FALSE /\ c.holdings = w.channel.holdings
      /\ c.final = w.channel.final \cup {n}
  BY <1>3 DEF Channel, Signed, FinalTurn, ChannelInv
<1>6. ShouldWithdraw(n, w) \in BOOLEAN /\ done \in BOOLEAN
  BY DEF ShouldWithdraw, Finalized, FullyWithdrawn
<1>7. /\ o \in Objective /\ o # None
      /\ o.status = IF done THEN "completed" ELSE "approved"
      /\ o.submitted = (w.objective.submitted \/ ShouldWithdraw(n, w))
  <2>1. o \in Objective
    BY <1>3, <1>6 DEF Objective
  <2>2. QED
    BY <2>1, NoneAssumption
<1>8. done => concluded # None
  BY <1>3 DEF ChannelInv, FullyWithdrawn
<1>9. /\ FinalMessage(n, w.channel) \in Message
      /\ FinalMessage(n, w.channel).type = "final"
      /\ FinalMessage(n, w.channel).to = Peer(n)
      /\ FinalMessage(n, w.channel).turn = FinalTurn(w.channel)
  BY <1>3, NodesDiffer DEF FinalMessage, Message, FinalTurn, Channel
<1>10. /\ v \in Work /\ v.step \in {"release", "send"}
       /\ v.channel = w.channel
       /\ v.messages \subseteq {FinalMessage(n, w.channel)}
       /\ v.withdraw = ShouldWithdraw(n, w)
  <2>1. {} \subseteq Message /\ {FinalMessage(n, w.channel)} \subseteq Message
    BY <1>9
  <2>2. QED
    BY <1>6, <2>1 DEF Work
<1>11. ShouldWithdraw(n, w) => n = Leader /\ ~ w.objective.submitted
  BY DEF ShouldWithdraw
<1> HIDE DEF c, o, v, s, done
<1>12. \A k \in Nodes : k # n => /\ objective'[k] = objective[k]
                                 /\ channel'[k] = channel[k]
                                 /\ owned'[k] = owned[k]
                                 /\ signed'[k] = signed[k]
  BY <1>2 DEF TypeOK
<1>13. TypeOK'
  <2>1. doing' \in [Nodes -> Work \cup {Idle}]
    BY <1>2, <1>10 DEF TypeOK
  <2>2. owned' \in [Nodes -> BOOLEAN]
    BY <1>2, <1>6 DEF TypeOK
  <2>3. QED
    BY <1>2, <1>4, <1>5, <1>7, <2>1, <2>2 DEF TypeOK, chain
<1>14. signed'[n] = signed[n] \cup {s}
  BY <1>2 DEF TypeOK
<1>15. Advances
  BY <1>2, <1>12, <1>14, NodesDiffer DEF Advances, chain
<1>16. HasSigned(n, FinalTurn(w.channel))'
  BY <1>4, <1>14 DEF HasSigned
<1>17. ChannelInv(w.channel)'
  BY <1>3, <1>15, ChannelStays
<1>18. StoreInv'
  <2>1. NodeInv(n)'
    <3>1. /\ objective'[n] = o /\ channel'[n] = c
          /\ owned'[n] = (owned[n] \/ ~ done) /\ ledger'[n] = None
      BY <1>2, <1>3 DEF TypeOK
    <3>2. c # None
      BY <1>5, NoneAssumption
    <3>3. ChannelInv(channel[n])'
      BY <1>5, <1>16, <1>17, <3>1 DEF ChannelInv
    <3>4. ObjectiveInv(n)'
      BY <1>7, <1>8, <1>2, <3>1, <3>2 DEF ObjectiveInv, chain
    <3>5. QED
      BY <1>7, <3>1, <3>3, <3>4 DEF NodeInv
  <2>2. \A k \in Nodes : k # n => NodeInv(k)'
    BY <1>2, <1>12, <1>15, StoreStays
  <2>3. QED
    BY <2>1, <2>2 DEF StoreInv
<1>19. WorkInv(n, v)'
  BY <1>2, <1>3, <1>9, <1>10, <1>11, <1>16, <1>17 DEF WorkInv
<1>20. /\ HandlersInv' /\ doing'[n] = v /\ v # Idle
      /\ \A k \in Nodes : k # n => doing'[k] = doing[k]
  BY <1>2, <1>10, <1>15, <1>19, HandlersStep
<1>21. NetworkInv' /\ LogInv' /\ WithdrawnIsAgreed'
  BY <1>2, <1>15, NetworkStays, PayoutStays DEF chain
<1>22. SubmittedInv' /\ WithdrawnOnce'
  <2>1. CASE n # Leader
    BY <1>2, <1>12, <1>20, <2>1, SubmittedStays, NodesDiffer
  <2>2. CASE n = Leader
    <3>1. objective'[Leader] = o /\ doing'[Leader] = v
      BY <1>2, <1>20, <2>2 DEF TypeOK
    <3>2. IsSpent => w.objective.submitted
      BY <1>1, <2>2 DEF InductiveInv, SubmittedInv
    <3>3. ShouldWithdraw(n, w) => withdrawals = 0
      BY <1>2, <1>11, <3>2 DEF IsSpent, TypeOK
    <3>4. IsSpent' => o.submitted
      BY <1>2, <1>7, <1>10, <1>20, <3>1, <3>2 DEF IsSpent
    <3>5. QED
      BY <1>2, <1>7, <1>10, <1>20, <3>1, <3>3, <3>4
         DEF InductiveInv, SubmittedInv, WithdrawnOnce
  <2>3. QED
    BY <2>1, <2>2
<1>23. QED
  BY <1>13, <1>18, <1>20, <1>21, <1>22 DEF InductiveInv

\* errNotApproved ends the run loop.
LEMMA CrankUnapprovedStep ==
  ASSUME InductiveInv, NEW n \in Nodes, CrankUnapproved(n)
  PROVE  InductiveInv'
<1>1. TypeOK /\ UNCHANGED <<store, network, chain, seen, asked, signed, withdrawals>>
      /\ doing' = [doing EXCEPT ![n] = Idle]
  BY DEF InductiveInv, CrankUnapproved, Stop
<1>2. /\ doing' \in [Nodes -> Work \cup {Idle}]
      /\ \A k \in Nodes : doing'[k] = doing[k] \/ doing'[k] = Idle
  BY <1>1 DEF TypeOK
<1>3. QED
  BY <1>1, <1>2, QuietStep DEF TypeOK, chain

\* A completed objective gives up its Channel.
LEMMA ReleaseStep ==
  ASSUME InductiveInv, NEW n \in Nodes, Release(n)
  PROVE  InductiveInv'
<1>1. PICK w \in Work :
        w = doing[n] /\ w # Idle /\ w.step = "release" /\ WorkInv(n, w)
  BY InHandler DEF Release
<1> DEFINE v == [w EXCEPT !.step = "send"]
<1>2. /\ TypeOK
      /\ doing' = [doing EXCEPT ![n] = v]
      /\ owned' = [owned EXCEPT ![n] = FALSE]
      /\ UNCHANGED <<ledger, objective, channel, network, chain, seen, asked,
                     signed, withdrawals>>
  BY <1>1 DEF InductiveInv, TypeOK, Release, Goes
<1>3. /\ v \in Work /\ v.step = "send" /\ v.turn = w.turn /\ v.objective = w.objective
      /\ v.channel = w.channel /\ v.messages = w.messages /\ v.withdraw = w.withdraw
  BY DEF Work
<1>4. Advances
  BY <1>2 DEF Advances, chain
<1> HIDE DEF v
<1>5. WorkInv(n, v)'
  <2>1. WorkInv(n, w)'
    BY <1>1, <1>4, WorkStays
  <2>2. QED
    BY <1>1, <1>3, <2>1 DEF WorkInv
<1>6. /\ doing' \in [Nodes -> Work \cup {Idle}] /\ HandlersInv'
      /\ doing'[n] = v /\ v # Idle
      /\ \A k \in Nodes : k # n => doing'[k] = doing[k]
  BY <1>2, <1>3, <1>4, <1>5, HandlersStep
<1>7. StoreInv'
  <2>1. NodeInv(n)'
    <3>1. channel[n] # None => ChannelInv(channel[n])'
      <4>1. SUFFICES ASSUME channel[n] # None PROVE ChannelInv(channel[n])'
        OBVIOUS
      <4>2. PICK c \in Channel : c = channel[n] /\ ChannelInv(c)
        BY <4>1 DEF InductiveInv, TypeOK, StoreInv, NodeInv
      <4>3. ChannelInv(c)'
        BY <1>4, <4>2, ChannelStays
      <4>4. QED
        BY <1>2, <4>2, <4>3
    <3>2. owned'[n] = FALSE
      BY <1>2 DEF TypeOK
    <3>3. NodeInv(n)
      BY DEF InductiveInv, StoreInv
    <3>4. QED
      BY <1>2, <3>1, <3>2, <3>3 DEF NodeInv, ObjectiveInv, chain
  <2>2. \A k \in Nodes : k # n => owned'[k] = owned[k]
    BY <1>2 DEF TypeOK
  <2>3. \A k \in Nodes : k # n => NodeInv(k)'
    BY <1>2, <1>4, <2>2, StoreStays
  <2>4. QED
    BY <2>1, <2>3 DEF StoreInv
<1>8. NetworkInv' /\ LogInv' /\ WithdrawnIsAgreed'
  BY <1>2, <1>4, NetworkStays, PayoutStays DEF chain
<1>9. SubmittedInv' /\ WithdrawnOnce'
  BY <1>1, <1>2, <1>3, <1>6, SubmittedMoves
<1>10. TypeOK'
  BY <1>2, <1>6 DEF TypeOK, chain
<1>11. QED
  BY <1>6, <1>7, <1>8, <1>9, <1>10 DEF InductiveInv

\* The messages of a handler are sent, before its withdrawal.
LEMMA SendStep ==
  ASSUME InductiveInv, NEW n \in Nodes, Send(n)
  PROVE  InductiveInv'
<1>1. PICK w \in Work : w = doing[n] /\ w # Idle /\ w.step = "send" /\ WorkInv(n, w)
  BY InHandler DEF Send
<1> DEFINE v == [w EXCEPT !.step = "submit"]
<1>2. /\ TypeOK
      /\ network' = network \cup w.messages
      /\ UNCHANGED <<store, chain, seen, asked, signed, withdrawals>>
      /\ \/ w.withdraw /\ doing' = [doing EXCEPT ![n] = v]
         \/ ~ w.withdraw /\ doing' = [doing EXCEPT ![n] = Idle]
  BY <1>1 DEF InductiveInv, TypeOK, Send, Goes, Work
<1>3. /\ v \in Work /\ v.step = "submit" /\ v.turn = w.turn /\ v.objective = w.objective
      /\ v.channel = w.channel /\ v.messages = w.messages /\ v.withdraw = w.withdraw
  BY DEF Work
<1>4. Advances
  BY <1>2 DEF Advances, store, chain
<1> HIDE DEF v
<1>5. network' \subseteq Message
  BY <1>2 DEF TypeOK, Work
<1>6. \A m \in network' :
        \/ m \in network
        \/ m.type = "final" /\ HasSigned(Peer(m.to), m.turn)
  <2>1. SUFFICES ASSUME NEW m \in w.messages
                 PROVE  m.type = "final" /\ HasSigned(Peer(m.to), m.turn)
    BY <1>2
  <2>2. m.type = "final" /\ m.to = Peer(n) /\ HasSigned(n, m.turn)
    BY <1>1 DEF WorkInv
  <2>3. QED
    BY <2>2, NodesDiffer
<1>7. CASE ~ w.withdraw /\ doing' = [doing EXCEPT ![n] = Idle]
  <2>1. /\ doing' \in [Nodes -> Work \cup {Idle}]
        /\ \A k \in Nodes : doing'[k] = doing[k] \/ doing'[k] = Idle
    BY <1>2, <1>7 DEF TypeOK
  <2>2. QED
    BY <1>2, <1>5, <1>6, <2>1, QuietStep DEF TypeOK, chain
<1>8. CASE w.withdraw /\ doing' = [doing EXCEPT ![n] = v]
  <2>1. WorkInv(n, v)'
    <3>1. WorkInv(n, w)'
      BY <1>1, <1>4, WorkStays
    <3>2. QED
      BY <1>1, <1>3, <1>8, <3>1 DEF WorkInv
  <2>2. /\ doing' \in [Nodes -> Work \cup {Idle}] /\ HandlersInv'
        /\ doing'[n] = v /\ v # Idle
        /\ \A k \in Nodes : k # n => doing'[k] = doing[k]
    BY <1>8, <1>3, <1>4, <2>1, HandlersStep
  <2>3. StoreInv'
    BY <1>2, <1>4, StoreStays DEF StoreInv, store
  <2>4. NetworkInv'
    <3>1. \A m : HasSigned(Peer(m.to), m.turn) => HasSigned(Peer(m.to), m.turn)'
      BY <1>2 DEF HasSigned
    <3>2. QED
      BY <1>4, <1>6, <3>1, NetworkStays
  <2>5. LogInv' /\ WithdrawnIsAgreed'
    BY <1>2, <1>4, PayoutStays DEF chain
  <2>6. SubmittedInv' /\ WithdrawnOnce'
    BY <1>1, <1>2, <1>3, <2>2, SubmittedMoves DEF store
  <2>7. TypeOK'
    BY <1>2, <1>5, <2>2 DEF TypeOK, store, chain
  <2>8. QED
    BY <2>2, <2>3, <2>4, <2>5, <2>6, <2>7 DEF InductiveInv
<1>9. QED
  BY <1>2, <1>7, <1>8

\* What the chain's log is when it has paid out.
LEMMA PayoutLog ==
  /\ <<"deposited">> \o <<"concluded", "paid out">> = <<"deposited", "concluded", "paid out">>
  /\ <<"deposited", "concluded", "paid out">> \in Seq(Events)
  /\ Len(<<"deposited", "concluded", "paid out">>) = 3 /\ Len(<<"deposited">>) = 1
<1> DEFINE s == <<"deposited">>
           t == <<"concluded", "paid out">>
           u == <<"deposited", "concluded", "paid out">>
<1>1. s \in Seq(Events) /\ t \in Seq(Events) /\ u \in Seq(Events)
  BY DEF Events
<1>2. Len(s) = 1 /\ Len(t) = 2 /\ Len(u) = 3
  OBVIOUS
<1>3. s[1] = u[1] /\ t[1] = u[2] /\ t[2] = u[3]
  OBVIOUS
<1> HIDE DEF s, t, u
<1>4. /\ s \o t \in Seq(Events)
      /\ Len(s \o t) = 3
      /\ \A i \in 1..3 : (s \o t)[i] = IF i <= 1 THEN s[i] ELSE t[i - 1]
  <2>1. /\ s \o t \in Seq(Events)
        /\ Len(s \o t) = Len(s) + Len(t)
        /\ \A i \in 1..Len(s) + Len(t) :
             (s \o t)[i] = IF i <= Len(s) THEN s[i] ELSE t[i - Len(s)]
    BY ONLY ConcatProperties, <1>1, Zenon
  <2>2. Len(s) + Len(t) = 3
    BY ONLY <1>2
  <2>3. QED
    BY ONLY <1>2, <2>1, <2>2, Zenon
<1>5. \A i \in 1..3 : (s \o t)[i] = u[i]
  <2>1. SUFFICES ASSUME NEW i \in {1, 2, 3} PROVE (s \o t)[i] = u[i]
    <3>1. 1..3 = {1, 2, 3}
      OBVIOUS
    <3>2. QED
      BY <3>1
  <2>2. i \in 1..3 /\ i \in Nat
    BY <2>1
  <2>3. (s \o t)[i] = IF i <= 1 THEN s[i] ELSE t[i - 1]
    BY ONLY <1>4, <2>2
  <2>4. QED
    BY <1>3, <2>1, <2>3
<1>6. s \o t = u
  BY ONLY <1>1, <1>2, <1>4, <1>5, SeqEqual
<1>7. QED
  BY <1>1, <1>2, <1>6 DEF s, t, u

\* The withdrawal: it is the first, and if the chain takes it both nodes have
\* signed what it pays out.
LEMMA WithdrawAllStep ==
  ASSUME InductiveInv, NEW n \in Nodes, WithdrawAll(n)
  PROVE  InductiveInv'
<1>1. PICK w \in Work : w = doing[n] /\ w # Idle /\ w.step = "submit" /\ WorkInv(n, w)
  BY InHandler DEF WithdrawAll
<1> DEFINE c == w.channel
           s == [turn |-> FinalTurn(c), guaranteed |-> c.guaranteed]
<1>2. /\ TypeOK
      /\ withdrawals' = withdrawals + 1
      /\ doing' = [doing EXCEPT ![n] = Idle]
      /\ UNCHANGED <<store, network, seen, asked, signed>>
      /\ \/ /\ Signed(n, c).final = Nodes /\ concluded = None
            /\ concluded' = s
         \/ UNCHANGED chain
  BY <1>1 DEF InductiveInv, WithdrawAll, Stop
<1>3. /\ c \in Channel /\ ChannelInv(c)
      /\ n = Leader /\ w.withdraw /\ HasSigned(n, FinalTurn(c))
  BY <1>1 DEF Work, WorkInv
<1>4. s = [turn |-> FinalTurn(c), guaranteed |-> FALSE] /\ s \in FinalState /\ s # None
  <2>1. FinalTurn(c) \in 1..MaxTurn + 1
    BY <1>3, MaxTurnAssumption DEF FinalTurn, Channel
  <2>2. c.guaranteed = FALSE
    BY <1>3 DEF ChannelInv
  <2>3. s \in FinalState
    BY <2>1, <2>2 DEF FinalState
  <2>4. QED
    BY <2>2, <2>3, NoneAssumption
<1>5. s \in signed[n]
  BY <1>3, <1>4 DEF HasSigned
<1>6. Signed(n, c).final = Nodes => \A k \in Nodes : s \in signed[k]
  <2>1. SUFFICES ASSUME Signed(n, c).final = Nodes PROVE s \in signed[Peer(n)]
    BY <1>5, NodesDiffer
  <2>2. Peer(n) \in c.final
    BY <1>3, <2>1, NodesDiffer DEF Signed, Channel
  <2>3. QED
    BY <1>3, <1>4, <2>2 DEF ChannelInv, HasSigned
<1> HIDE DEF s
<1>7. Advances
  BY <1>2 DEF Advances, store, chain
<1>8. StoreInv'
  BY <1>2, <1>7, StoreStays DEF StoreInv, store
<1>9. /\ doing' \in [Nodes -> Work \cup {Idle}]
      /\ \A k \in Nodes : doing'[k] = doing[k] \/ doing'[k] = Idle
      /\ doing'[n] = Idle
  BY <1>2 DEF TypeOK
<1>10. HandlersInv' /\ NetworkInv'
  BY <1>2, <1>7, <1>9, HandlerStays, NetworkStays DEF HandlersInv
<1>11. LogInv' /\ WithdrawnIsAgreed' /\ log' \in Seq(Events) /\ Len(log') >= Len(log)
       /\ concluded' \in FinalState \cup {None}
  <2>1. CASE UNCHANGED chain
    BY <1>2, <1>7, <2>1, PayoutStays DEF chain, TypeOK
  <2>2. CASE /\ Signed(n, c).final = Nodes /\ concluded = None
             /\ concluded' = s /\ ~ UNCHANGED chain
    <3>1. log = <<"deposited">>
      BY <2>2 DEF InductiveInv, LogInv
    <3>2. log' = <<"deposited", "concluded", "paid out">>
      <4>1. log' = log \o <<"concluded", "paid out">>
        BY <2>2 DEF WithdrawAll, chain
      <4>2. QED
        BY <3>1, <4>1, PayoutLog
    <3>3. LogInv'
      BY <1>4, <2>2, <3>2 DEF LogInv
    <3>4. \A k \in Nodes : s \in signed'[k] /\ ledger'[k] = None
      BY <1>2, <1>6, <2>2 DEF InductiveInv, StoreInv, NodeInv, store
    <3>5. WithdrawnIsAgreed'
      BY <1>4, <2>2, <3>4 DEF WithdrawnIsAgreed
    <3>6. log' \in Seq(Events)
      BY <3>2, PayoutLog
    <3>7. Len(log') = 3 /\ Len(log) = 1
      BY <3>1, <3>2, PayoutLog
    <3>8. QED
      BY <1>4, <2>2, <3>3, <3>5, <3>6, <3>7
  <2>3. QED
    BY <1>2, <2>1, <2>2
<1>12. SubmittedInv' /\ WithdrawnOnce'
  <2>1. withdrawals = 0 /\ objective[Leader] # None /\ objective[Leader].submitted
    BY <1>1, <1>3 DEF InductiveInv, SubmittedInv, IsSpent
  <2>2. withdrawals' = 1 /\ doing'[Leader] = Idle
    BY <1>2, <1>3, <1>9, <2>1
  <2>3. objective'[Leader] # None /\ objective'[Leader].submitted
    BY <1>2, <2>1 DEF store
  <2>4. QED
    BY <2>2, <2>3 DEF SubmittedInv, WithdrawnOnce
<1>13. TypeOK'
  <2>1. Len(log) \in Nat /\ Len(log') \in Nat
    BY <1>2, <1>11 DEF TypeOK
  <2>2. seen' \in [Nodes -> 0..Len(log')]
    BY <1>2, <1>11, <2>1 DEF TypeOK
  <2>3. withdrawals' \in Nat
    BY <1>2 DEF TypeOK
  <2>4. QED
    BY <1>2, <1>9, <1>11, <2>2, <2>3 DEF TypeOK, store
<1>14. QED
  BY <1>8, <1>10, <1>11, <1>12, <1>13 DEF InductiveInv

\* What an event makes of a Channel that holds.
LEMMA RecordedHolds ==
  ASSUME NEW c \in Channel, NEW e \in Events, ChannelInv(c),
         e = "paid out" => concluded # None
  PROVE  Recorded(c, e) \in Channel /\ ChannelInv(Recorded(c, e))
<1>1. CASE e = "deposited"
  BY <1>1 DEF Recorded, Channel, ChannelInv, FinalTurn
<1>2. CASE e = "paid out"
  BY <1>2 DEF Recorded, Channel, ChannelInv, FinalTurn
<1>3. CASE e = "concluded"
  BY <1>3 DEF Recorded
<1>4. QED
  BY <1>1, <1>2, <1>3 DEF Events

\* A chain event is recorded in the Channel and cranks the objective that owns
\* it; of a Channel that nobody owns it stops the run loop.
LEMMA HandleChainEventStep ==
  ASSUME InductiveInv, NEW n \in Nodes, HandleChainEvent(n)
  PROVE  InductiveInv'
<1> DEFINE e == log[seen[n] + 1]
           c == Recorded(channel[n], e)
<1>1. /\ TypeOK /\ doing[n] = Idle /\ seen[n] < Len(log)
      /\ seen' = [seen EXCEPT ![n] = @ + 1]
      /\ UNCHANGED <<ledger, objective, owned, network, chain, asked, signed, withdrawals>>
      /\ \/ channel[n] = None /\ UNCHANGED <<channel, doing>>
         \/ /\ channel[n] # None
            /\ channel' = [channel EXCEPT ![n] = c]
            /\ \/ owned[n] /\ Load(n, "crank", 0, objective[n], c)
               \/ doing' = [doing EXCEPT ![n] = Idle]
  BY DEF InductiveInv, HandleChainEvent, IsFree, Stop
<1>2. seen' \in [Nodes -> 0..Len(log)] /\ seen[n] + 1 \in 1..Len(log)
  BY <1>1, LenProperties DEF TypeOK
<1>3. e \in Events /\ (e = "paid out" => concluded # None)
  <2>1. e \in Events
    BY <1>1, <1>2, ElementOfSeq DEF TypeOK
  <2>2. concluded = None => e = "deposited"
    <3>1. SUFFICES ASSUME concluded = None PROVE e = "deposited"
      OBVIOUS
    <3>2. log = <<"deposited">>
      BY <3>1 DEF InductiveInv, LogInv
    <3>3. \A i \in 1..1 : <<"deposited">>[i] = "deposited"
      OBVIOUS
    <3>4. seen[n] + 1 \in 1..1
      BY <1>2, <3>2
    <3>5. QED
      BY ONLY <3>2, <3>3, <3>4
  <2>3. QED
    BY <2>1, <2>2
<1> HIDE DEF e
<1>4. Advances
  BY <1>1 DEF Advances, chain
<1>5. CASE channel[n] = None /\ UNCHANGED <<channel, doing>>
  BY <1>1, <1>2, <1>5, QuietStep DEF store, TypeOK, chain
<1>6. CASE /\ channel[n] # None
           /\ channel' = [channel EXCEPT ![n] = c]
           /\ \/ owned[n] /\ Load(n, "crank", 0, objective[n], c)
              \/ doing' = [doing EXCEPT ![n] = Idle]
  <2>1. c \in Channel /\ ChannelInv(c)
    BY <1>1, <1>3, <1>6, RecordedHolds DEF InductiveInv, TypeOK, StoreInv, NodeInv
  <2> HIDE DEF c
  <2>2. PICK x \in Channel : x = c /\ x # None
    BY <2>1, NoneAssumption
  <2>3. channel'[n] = x /\ \A k \in Nodes : k # n => channel'[k] = channel[k]
    BY <1>1, <1>6, <2>2 DEF TypeOK
  <2>4. StoreInv'
    <3>1. ChannelInv(x)'
      BY <1>4, <2>1, <2>2, ChannelStays
    <3>2. NodeInv(n)
      BY DEF InductiveInv, StoreInv
    <3>3. NodeInv(n)'
      BY <1>1, <2>2, <2>3, <3>1, <3>2 DEF NodeInv, ObjectiveInv, chain
    <3>4. \A k \in Nodes : k # n => NodeInv(k)'
      BY <1>1, <1>4, <2>3, StoreStays
    <3>5. QED
      BY <3>3, <3>4 DEF StoreInv
  <2>5. NetworkInv' /\ LogInv' /\ WithdrawnIsAgreed'
    BY <1>1, <1>4, NetworkStays, PayoutStays DEF chain
  <2>6. CASE owned[n] /\ Load(n, "crank", 0, objective[n], x)
    <3>1. PICK o \in Objective : o = objective[n]
      BY <1>1, <2>6 DEF InductiveInv, TypeOK, StoreInv, NodeInv
    <3>2. ledger[n] = None
      BY <2>6 DEF InductiveInv, StoreInv, NodeInv
    <3>3. Load(n, "crank", 0, o, x) /\ ChannelInv(x)
      BY <2>1, <2>2, <2>6, <3>1
    <3>4. /\ doing' \in [Nodes -> Work \cup {Idle}]
          /\ HandlersInv'
          /\ doing'[n].objective = o
          /\ doing'[n].withdraw = FALSE
          /\ \A k \in Nodes : k # n => doing'[k] = doing[k]
      BY <1>4, <3>2, <3>3, LoadStep
    <3>5. SubmittedInv' /\ WithdrawnOnce'
      <4>1. CASE n # Leader
        BY <1>1, <3>4, <4>1, SubmittedStays, NodesDiffer
      <4>2. CASE n = Leader
        BY <1>1, <3>1, <3>4, <4>2 DEF InductiveInv, SubmittedInv, WithdrawnOnce, IsSpent
      <4>3. QED
        BY <4>1, <4>2
    <3>6. TypeOK'
      BY <1>1, <1>2, <1>6, <2>1, <3>4 DEF TypeOK, chain
    <3>7. QED
      BY <2>4, <2>5, <3>4, <3>5, <3>6 DEF InductiveInv
  <2>7. CASE doing' = [doing EXCEPT ![n] = Idle]
    <3>1. /\ doing' \in [Nodes -> Work \cup {Idle}]
          /\ \A k \in Nodes : doing'[k] = doing[k] \/ doing'[k] = Idle
      BY <1>1, <2>7 DEF TypeOK
    <3>2. HandlersInv'
      BY <1>4, <3>1, HandlerStays DEF HandlersInv
    <3>3. SubmittedInv' /\ WithdrawnOnce'
      BY <1>1, <3>1, SubmittedStays, NodesDiffer
    <3>4. TypeOK'
      BY <1>1, <1>2, <1>6, <2>1, <3>1 DEF TypeOK, chain
    <3>5. QED
      BY <2>4, <2>5, <3>2, <3>3, <3>4 DEF InductiveInv
  <2>8. QED
    BY <1>6, <2>2, <2>6, <2>7
<1>7. QED
  BY <1>1, <1>5, <1>6

-----------------------------------------------------------------------------
(***************************************************************************)
(* The ledger in use, faults, and all of them together.                    *)
(***************************************************************************)

\* An update is proposed on top of a ledger that is not at the bound.
LEMMA ProposeStep ==
  ASSUME InductiveInv, Propose
  PROVE  InductiveInv'
<1>1. PICK l \in Ledger : l = ledger[Leader]
  BY NodesDiffer DEF InductiveInv, TypeOK, Propose
<1> DEFINE m == [type |-> "proposal", turn |-> l.turn + 1, to |-> Follower]
           l2 == [l EXCEPT !.proposed = TRUE]
<1>2. /\ TypeOK /\ l.turn < MaxTurn /\ l.turn \in 1..MaxTurn
      /\ ledger' = [ledger EXCEPT ![Leader] = l2]
      /\ network' = network \cup {m}
      /\ UNCHANGED <<objective, channel, owned, doing, chain, seen, asked,
                     signed, withdrawals>>
  BY <1>1 DEF InductiveInv, TypeOK, Propose, Ledger
<1>3. l2 \in Ledger
  BY DEF Ledger
<1>4. /\ l.turn + 1 \in 1..MaxTurn /\ m.type = "proposal" /\ m.turn = l.turn + 1
      /\ m \in Message
  BY <1>2, MaxTurnAssumption, NodesDiffer DEF Message
<1> HIDE DEF m, l2
<1>5. ledger' \in [Nodes -> Ledger \cup {None}] /\ ledger[Leader] # None
      /\ \A k \in Nodes : ledger[k] = None => ledger'[k] = None
  BY <1>1, <1>2, <1>3, NodesDiffer, NoneAssumption DEF TypeOK
<1>6. Advances
  BY <1>2, <1>5 DEF Advances, chain
<1>7. network' \subseteq Message
  BY <1>2, <1>4 DEF TypeOK
<1>8. QED
  BY <1>2, <1>4, <1>5, <1>6, <1>7, LedgerStep DEF TypeOK, chain

\* A proposal or its countersignature: the next one changes the ledger, any
\* other nothing, and one that finds no ledger stops the run loop.
LEMMA ReceiveUpdateStep ==
  ASSUME InductiveInv, NEW m \in network, ReceiveUpdate(m)
  PROVE  InductiveInv'
<1>1. PICK n \in Nodes : n = m.to
  BY DEF InductiveInv, TypeOK, Message
<1> DEFINE reply == [type |-> "countersigned", turn |-> m.turn, to |-> Leader]
<1>2. TypeOK /\ m.turn \in 1..MaxTurn /\ m.type \in {"proposal", "countersigned"}
  BY DEF InductiveInv, NetworkInv, ReceiveUpdate
<1>3. /\ reply \in Message /\ reply.type = "countersigned" /\ reply.turn = m.turn
  BY <1>2, MaxTurnAssumption, NodesDiffer DEF Message
<1>4. /\ UNCHANGED <<objective, channel, owned, chain, seen, asked, signed, withdrawals>>
      /\ doing' = doing \/ doing' = [doing EXCEPT ![n] = Idle]
      /\ \/ TakeAndSend(m, {})
         \/ TakeAndSend(m, {reply})
      /\ \/ UNCHANGED ledger
         \/ /\ ledger[n] # None /\ IsNextUpdate(ledger[n], m)
            /\ ledger' = [ledger EXCEPT ![n] = Updated(ledger[n])]
  BY <1>1 DEF ReceiveUpdate, Stop
<1> HIDE DEF reply
<1>5. network' \subseteq Message /\ network' \subseteq network \cup {reply}
  <2>1. CASE TakeAndSend(m, {})
    BY <1>2, <2>1, TakeType
  <2>2. CASE TakeAndSend(m, {reply})
    BY <1>2, <1>3, <2>2, TakeAndSendType
  <2>3. QED
    BY <1>4, <2>1, <2>2
<1>6. /\ ledger' \in [Nodes -> Ledger \cup {None}]
      /\ \A k \in Nodes : ledger[k] = None => ledger'[k] = None
  <2>1. CASE UNCHANGED ledger
    BY <1>2, <2>1 DEF TypeOK
  <2>2. CASE /\ ledger[n] # None /\ IsNextUpdate(ledger[n], m)
             /\ ledger' = [ledger EXCEPT ![n] = Updated(ledger[n])]
    <3>1. ledger[n] \in Ledger
      BY <1>2, <2>2 DEF TypeOK
    <3>2. Updated(ledger[n]) \in Ledger
      BY <1>2, <2>2, <3>1 DEF Updated, Ledger, IsNextUpdate
    <3>3. QED
      BY <1>2, <2>2, <3>2 DEF TypeOK
  <2>3. QED
    BY <1>4, <2>1, <2>2
<1>7. Advances
  BY <1>4, <1>6 DEF Advances, chain
<1>8. /\ doing' \in [Nodes -> Work \cup {Idle}]
      /\ \A k \in Nodes : doing'[k] = doing[k] \/ doing'[k] = Idle
  BY <1>2, <1>4 DEF TypeOK
<1>9. QED
  BY <1>2, <1>3, <1>4, <1>5, <1>6, <1>7, <1>8, LedgerStep DEF TypeOK, chain

\* A message is lost.
LEMMA LoseStep ==
  ASSUME InductiveInv, NEW m \in network, Lose(m)
  PROVE  InductiveInv'
BY QuietStep DEF InductiveInv, TypeOK, Lose, chain

\* A node starts again and reads the chain's log from any place.
LEMMA RestartStep ==
  ASSUME InductiveInv, NEW n \in Nodes, Restart(n)
  PROVE  InductiveInv'
<1>1. /\ TypeOK /\ UNCHANGED <<store, network, chain, asked, signed, withdrawals>>
      /\ doing' = [doing EXCEPT ![n] = Idle]
      /\ \E i \in 0..Len(log) : seen' = [seen EXCEPT ![n] = i]
  BY DEF InductiveInv, Restart
<1>2. /\ doing' \in [Nodes -> Work \cup {Idle}]
      /\ \A k \in Nodes : doing'[k] = doing[k] \/ doing'[k] = Idle
      /\ seen' \in [Nodes -> 0..Len(log)]
  BY <1>1 DEF TypeOK
<1>3. QED
  BY <1>1, <1>2, QuietStep DEF TypeOK, chain

\* The invariant holds when the ledger is funded and nobody has asked.
LEMMA InitInv == Init => InductiveInv
<1>1. SUFFICES ASSUME Init PROVE InductiveInv
  OBVIOUS
<1>2. TypeOK
  <2>1. FirstLedger \in Ledger
    BY MaxTurnAssumption DEF FirstLedger, Ledger
  <2>2. log \in Seq(Events) /\ Len(log) = 1
    BY <1>1 DEF Init, Events
  <2>3. seen \in [Nodes -> 0..Len(log)]
    BY <1>1, <2>2 DEF Init
  <2>4. QED
    BY <1>1, <2>1, <2>2, <2>3 DEF Init, TypeOK
<1>3. StoreInv
  BY <1>1 DEF Init, StoreInv, NodeInv
<1>4. HandlersInv /\ NetworkInv
  BY <1>1 DEF Init, HandlersInv, NetworkInv
<1>5. LogInv /\ WithdrawnIsAgreed /\ WithdrawnOnce
  BY <1>1 DEF Init, LogInv, WithdrawnIsAgreed, WithdrawnOnce
<1>6. SubmittedInv
  BY <1>1, NodesDiffer DEF Init, SubmittedInv, IsSpent
<1>7. QED
  BY <1>2, <1>3, <1>4, <1>5, <1>6 DEF InductiveInv

\* And every step keeps it.
LEMMA NextInv == InductiveInv /\ [Next]_vars => InductiveInv'
<1>1. SUFFICES ASSUME InductiveInv, [Next]_vars PROVE InductiveInv'
  OBVIOUS
<1>2. ASSUME NEW n \in Nodes, Request(n) PROVE InductiveInv'
  BY <1>1, <1>2, RequestStep
<1>3. ASSUME NEW n \in Nodes, Handle(n) PROVE InductiveInv'
  <2>1. CASE HandleChainEvent(n)
    BY <1>1, <2>1, HandleChainEventStep
  <2>2. ASSUME NEW m \in network, ReceiveFinal(m) PROVE InductiveInv'
    BY <1>1, <2>2, JudgeStep, CannotConstructStep, TakeUpStep, IgnoreStep DEF ReceiveFinal
  <2>3. ASSUME NEW m \in network, ReceiveRejection(m) PROVE InductiveInv'
    BY <1>1, <2>3, ReceiveRejectionStep
  <2>4. ASSUME NEW m \in network, ReceiveUpdate(m) PROVE InductiveInv'
    BY <1>1, <2>4, ReceiveUpdateStep
  <2>5. QED
    BY <1>3, <2>1, <2>2, <2>3, <2>4 DEF Handle
<1>4. ASSUME NEW n \in Nodes, Continue(n) PROVE InductiveInv'
  BY <1>1, <1>4, DestroyConsensusChannelStep, UpdateStep, CrankStep,
     CrankUnapprovedStep, ReleaseStep, SendStep, WithdrawAllStep DEF Continue
<1>5. ASSUME NEW n \in Nodes, Restart(n) PROVE InductiveInv'
  BY <1>1, <1>5, RestartStep
<1>6. CASE Propose
  BY <1>1, <1>6, ProposeStep
<1>7. ASSUME NEW m \in network, Lose(m) PROVE InductiveInv'
  BY <1>1, <1>7, LoseStep
<1>8. CASE UNCHANGED vars
  <2>1. UNCHANGED <<store, doing, network, chain, seen, asked, signed, withdrawals>>
    BY <1>8 DEF vars
  <2>2. QED
    BY <1>1, <2>1, QuietStep DEF InductiveInv, TypeOK, chain
<1>9. QED
  BY <1>1, <1>2, <1>3, <1>4, <1>5, <1>6, <1>7, <1>8 DEF Next

-----------------------------------------------------------------------------
\* The inductive invariant holds in every state of every behaviour, with
\* messages lost and repeated and nodes stopped at any point.
THEOREM Invariance == Spec => []InductiveInv
<1>1. Init => InductiveInv
  BY InitInv
<1>2. InductiveInv /\ [Next]_vars => InductiveInv'
  BY NextInv
<1>3. QED
  BY <1>1, <1>2, PTL DEF Spec

\* Every variable of the closing holds a value of its kind.
THEOREM TypeCorrectness == Spec => []TypeOK
<1>1. InductiveInv => TypeOK
  BY DEF InductiveInv
<1>2. QED
  BY <1>1, Invariance, PTL

\* The chain pays a ledger out only with a state both nodes signed, that
\* funds nothing, and when neither can use the ledger any more.
THEOREM WithdrawnIsAgreedHolds == Spec => []WithdrawnIsAgreed
<1>1. InductiveInv => WithdrawnIsAgreed
  BY DEF InductiveInv
<1>2. QED
  BY <1>1, Invariance, PTL

\* A node that counts the closing as completed has been paid out.
THEOREM CompletedIsWithdrawnHolds == Spec => []CompletedIsWithdrawn
<1>1. InductiveInv => CompletedIsWithdrawn
  BY DEF InductiveInv, StoreInv, NodeInv, ObjectiveInv, CompletedIsWithdrawn, Status
<1>2. QED
  BY <1>1, Invariance, PTL

\* The withdrawal is sent at most once.
THEOREM WithdrawnOnceHolds == Spec => []WithdrawnOnce
<1>1. InductiveInv => WithdrawnOnce
  BY DEF InductiveInv
<1>2. QED
  BY <1>1, Invariance, PTL
=============================================================================
