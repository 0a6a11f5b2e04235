------------------------ MODULE PaymentChannelsProofs ------------------------
(***************************************************************************)
(* Proofs about PaymentChannels, for any number of nodes, ledgers and      *)
(* channels, paths of any length, any deposits and balances, and whatever  *)
(* the policy makers, the clients, the network and the crashes do.         *)
(***************************************************************************)
EXTENDS PaymentChannels, ConsensusChannelProofs

-----------------------------------------------------------------------------
(***************************************************************************)
(* Nodes, ledgers and paths.                                               *)
(***************************************************************************)

\* A node has one role in each of its ledgers, and a copy of its own.
LEMMA PartyIs ==
  ASSUME NEW n \in Nodes, NEW l \in Ledgers
  PROVE  /\ Party(n, l) \in Parties
         /\ \A p \in Parties : Ends[l][p] = n => Party(n, l) = p
         /\ Ends[l][Leader] = n <=> Party(n, l) = Leader
BY EndsAssumption, TwoParties DEF Party

\* Every hop is a ledger between two neighbours of the path.
LEMMA HopIs ==
  ASSUME NEW v \in Targets, NEW i \in 1..Len(Path[v]) - 1
  PROVE  /\ Hop(v, i) \in Ledgers
         /\ {Ends[Hop(v, i)][Leader], Ends[Hop(v, i)][Follower]}
              = {Path[v][i], Path[v][i + 1]}
<1>1. \E l \in Ledgers :
        {Ends[l][Leader], Ends[l][Follower]} = {Path[v][i], Path[v][i + 1]}
  BY PathAssumption
<1>2. QED  BY <1>1 DEF Hop, LedgerBetween

\* A path has at least two participants, all of them nodes and all different.
LEMMA PathIs ==
  ASSUME NEW v \in Targets
  PROVE  /\ Path[v] \in Seq(Nodes) /\ Len(Path[v]) \in Nat /\ Len(Path[v]) >= 2
         /\ Participants(v) = {Path[v][i] : i \in 1..Len(Path[v])}
         /\ Participants(v) \subseteq Nodes
         /\ Alice(v) \in Participants(v) /\ Bob(v) \in Participants(v)
         /\ Alice(v) # Bob(v)
         /\ Alice(v) \in Nodes /\ Bob(v) \in Nodes
<1>1. Path[v] \in Seq(Nodes) /\ Len(Path[v]) \in Nat /\ Len(Path[v]) >= 2
  BY PathAssumption
<1>2. Participants(v) = {Path[v][i] : i \in 1..Len(Path[v])}
  BY <1>1 DEF Participants, Range
<1>3. Participants(v) \subseteq Nodes  BY <1>1, <1>2
<1>4. Alice(v) \in Participants(v) /\ Bob(v) \in Participants(v)
  BY <1>1, <1>2 DEF Alice, Bob
<1>5. Alice(v) # Bob(v)  BY <1>1, PathAssumption DEF Alice, Bob
<1>6. QED  BY <1>1, <1>2, <1>3, <1>4, <1>5

\* The ledgers of a node on a path are ledgers that it is an end of.
LEMMA LedgersOfAre ==
  ASSUME NEW n \in Nodes, NEW v \in Targets
  PROVE  /\ LedgersOf(n, v) \subseteq Hops(v)
         /\ LedgersOf(n, v) \subseteq Ledgers
         /\ \A l \in LedgersOf(n, v) : Ends[l][Party(n, l)] = n
<1>1. Hops(v) \subseteq Ledgers  BY HopIs DEF Hops
<1>2. ASSUME NEW l \in LedgersOf(n, v) PROVE Ends[l][Party(n, l)] = n
  BY <1>1, PartyIs DEF LedgersOf
<1>3. QED  BY <1>1, <1>2 DEF LedgersOf

\* Both ends of a hop are participants that have it among their ledgers.
LEMMA EndsOfHops ==
  ASSUME NEW v \in Targets, NEW l \in Hops(v), NEW p \in Parties
  PROVE  /\ l \in Ledgers
         /\ Ends[l][p] \in Participants(v) /\ Ends[l][p] \in Nodes
         /\ l \in LedgersOf(Ends[l][p], v)
         /\ Party(Ends[l][p], l) = p
<1>1. PICK i \in 1..Len(Path[v]) - 1 : l = Hop(v, i)  BY DEF Hops
<1>2. l \in Ledgers /\ {Ends[l][Leader], Ends[l][Follower]} = {Path[v][i], Path[v][i + 1]}
  BY <1>1, HopIs
<1>3. Ends[l][p] \in {Path[v][i], Path[v][i + 1]}  BY <1>2, TwoParties
<1>4. i \in 1..Len(Path[v]) /\ i + 1 \in 1..Len(Path[v])  BY PathIs
<1>5. Ends[l][p] \in Participants(v)  BY <1>3, <1>4, PathIs
<1>6. Ends[l][p] \in Nodes  BY <1>5, PathIs
<1>7. Party(Ends[l][p], l) = p  BY <1>2, <1>6, PartyIs
<1>8. l \in LedgersOf(Ends[l][p], v)  BY DEF LedgersOf
<1>9. QED  BY <1>2, <1>5, <1>6, <1>7, <1>8

\* A participant has one ledger on the path, or two.
LEMMA OwnHopsAre ==
  ASSUME NEW v \in Targets, NEW n \in Participants(v)
  PROVE  /\ OwnHops(n, v) \in Seq(LedgersOf(n, v))
         /\ Len(OwnHops(n, v)) \in {1, 2}
<1> DEFINE i == CHOOSE i \in 1..Len(Path[v]) : Path[v][i] = n
           left == IF i > 1 THEN <<Hop(v, i - 1)>> ELSE << >>
           right == IF i < Len(Path[v]) THEN <<Hop(v, i)>> ELSE << >>
<1>1. i \in 1..Len(Path[v]) /\ Path[v][i] = n  BY PathIs
<1>2. Len(Path[v]) \in Nat /\ Len(Path[v]) >= 2  BY PathIs
<1>3. OwnHops(n, v) = left \o right  BY DEF OwnHops
<1> HIDE DEF i
<1>4. ASSUME i > 1 PROVE Hop(v, i - 1) \in LedgersOf(n, v)
  <2>1. i - 1 \in 1..Len(Path[v]) - 1 /\ (i - 1) + 1 = i  BY <1>1, <1>2, <1>4
  <2>2. n \in {Ends[Hop(v, i - 1)][Leader], Ends[Hop(v, i - 1)][Follower]}
    BY <1>1, <2>1, HopIs
  <2>3. QED  BY <2>1, <2>2, TwoParties DEF LedgersOf, Hops
<1>5. ASSUME i < Len(Path[v]) PROVE Hop(v, i) \in LedgersOf(n, v)
  <2>1. i \in 1..Len(Path[v]) - 1  BY <1>1, <1>2, <1>5
  <2>2. n \in {Ends[Hop(v, i)][Leader], Ends[Hop(v, i)][Follower]}
    BY <1>1, <2>1, HopIs
  <2>3. QED  BY <2>1, <2>2, TwoParties DEF LedgersOf, Hops
<1>6. left \in Seq(LedgersOf(n, v)) /\ Len(left) = IF i > 1 THEN 1 ELSE 0
  BY <1>4
<1>7. right \in Seq(LedgersOf(n, v)) /\ Len(right) = IF i < Len(Path[v]) THEN 1 ELSE 0
  BY <1>5
<1> HIDE DEF left, right
<1>8. left \o right \in Seq(LedgersOf(n, v)) /\ Len(left \o right) = Len(left) + Len(right)
  BY <1>6, <1>7, ConcatProperties
<1>9. QED  BY <1>1, <1>2, <1>3, <1>6, <1>7, <1>8

\* The proposals of the objectives are proposals, within what may be named.
LEMMA ExpectedProposals ==
  ASSUME NEW v \in Targets
  PROVE  /\ \A l \in Hops(v) : /\ ExpectedGuarantee(v, l) \in Guarantee
                               /\ ExpectedGuarantee(v, l) # NoGuarantee
                               /\ ExpectedProposal(v, l) \in Proposal
                               /\ ExpectedProposal(v, l).target = v
                               /\ ExpectedProposal(v, l).type = "add"
         /\ \A paid \in 0..Deposit[v].a0 : /\ RemovalProposal(v, paid) \in Proposal
                                           /\ RemovalProposal(v, paid).target = v
                                           /\ RemovalProposal(v, paid).type = "remove"
         /\ Deposit[v].a0 \in Nat
<1>1. Deposit[v].a0 \in Nat /\ Deposit[v].b0 \in Nat
      /\ Deposit[v].a0 + Deposit[v].b0 <= MaxAmount
  BY DepositAssumption
<1>2. ASSUME NEW l \in Hops(v)
      PROVE  LeftParty(v, l) \in Parties
  BY TwoParties DEF LeftParty, Party
<1>3. ASSUME NEW l \in Hops(v)
      PROVE  /\ ExpectedGuarantee(v, l) \in Guarantee
             /\ ExpectedGuarantee(v, l) # NoGuarantee
             /\ ExpectedProposal(v, l) \in Proposal
             /\ ExpectedProposal(v, l).target = v
             /\ ExpectedProposal(v, l).type = "add"
  <2>1. ExpectedGuarantee(v, l) \in Guarantee
    BY <1>1, <1>2 DEF ExpectedGuarantee, Guarantee
  <2>2. ExpectedProposal(v, l) \in Add
    BY <1>1, <1>2, MaxAmountAssumption
    DEF ExpectedProposal, ExpectedGuarantee, DepositOfLeft, Add, Amounts
  <2>3. QED  BY <2>1, <2>2, NoGuaranteeAssumption DEF Proposal, ExpectedProposal
<1>4. ASSUME NEW paid \in 0..Deposit[v].a0
      PROVE  /\ RemovalProposal(v, paid) \in Proposal
             /\ RemovalProposal(v, paid).target = v
             /\ RemovalProposal(v, paid).type = "remove"
  <2>1. Deposit[v].a0 - paid \in Amounts
    BY <1>1, MaxAmountAssumption DEF Amounts
  <2>2. QED  BY <2>1 DEF RemovalProposal, LeftAmount, Remove, Proposal
<1>5. QED  BY <1>1, <1>3, <1>4
-----------------------------------------------------------------------------
(***************************************************************************)
(* What a crank makes of the ledgers.                                      *)
(***************************************************************************)

\* The result of updating one ledger: its messages and heads are well-formed,
\* and nothing was proposed, in them or in the copy, but what is in S.
IsUpdate(copy, r, S, leads) ==
  /\ Evolves(copy, r.copy, S)
  /\ leads => Chain(r.copy.current, r.copy.queue)
  /\ r.heads \in Seq(Proposal)
  /\ r.throws \in BOOLEAN
  /\ \A m \in r.messages :
       m \in Proposals /\ ProposalsOf(m.proposals) \subseteq ProposalsOf(copy.queue) \cup S

\* A larger set allows more.
LEMMA IsUpdateOfMore ==
  ASSUME NEW copy, NEW r, NEW S, NEW leads, IsUpdate(copy, r, S, leads),
         NEW R, S \subseteq R
  PROVE  IsUpdate(copy, r, R, leads)
<1>1. Evolves(copy, r.copy, S)  BY DEF IsUpdate
<1>2. Evolves(copy, r.copy, R)  BY <1>1 DEF Evolves
<1>3. QED  BY <1>2 DEF IsUpdate

\* A ledger that is left alone is updated by nothing.
LEMMA UntouchedIs ==
  ASSUME NEW copy \in Copy, NEW S, NEW leads \in BOOLEAN,
         leads => Chain(copy.current, copy.queue)
  PROVE  /\ IsUpdate(copy, Untouched(copy), S, leads)
         /\ IsUpdate(copy, [Untouched(copy) EXCEPT !.throws = TRUE], S, leads)
<1>1. Evolves(copy, copy, S)  BY EvolvesByNothing
<1>2. /\ Untouched(copy).copy = copy
      /\ Untouched(copy).messages = {}
      /\ Untouched(copy).heads = << >>
      /\ Untouched(copy).throws = FALSE
      /\ [Untouched(copy) EXCEPT !.throws = TRUE].copy = copy
      /\ [Untouched(copy) EXCEPT !.throws = TRUE].messages = {}
      /\ [Untouched(copy) EXCEPT !.throws = TRUE].heads = << >>
      /\ [Untouched(copy) EXCEPT !.throws = TRUE].throws = TRUE
  BY DEF Untouched
<1>3. << >> \in Seq(Proposal)  OBVIOUS
<1>4. QED  BY <1>1, <1>2, <1>3 DEF IsUpdate

\* A leader proposes at most the one proposal, a follower accepts at most the
\* head of its queue.
LEMMA UpdateLedgerIs ==
  ASSUME NEW n \in Nodes, NEW l \in Ledgers, NEW copy \in Copy,
         NEW p \in Proposal, NEW isP \in BOOLEAN, NEW isN \in BOOLEAN,
         Party(n, l) = Leader => Chain(copy.current, copy.queue)
  PROVE  IsUpdate(copy, UpdateLedger(n, l, copy, p, isP, isN), {p},
                  Party(n, l) = Leader)
<1> DEFINE r == UpdateLedger(n, l, copy, p, isP, isN)
           leads == Party(n, l) = Leader
<1>0. Ends[l][Leader] \in Nodes /\ Ends[l][Follower] \in Nodes
  BY EndsAssumption, TwoParties
<1>1. CASE r = Untouched(copy) \/ r = [Untouched(copy) EXCEPT !.throws = TRUE]
  BY <1>1, UntouchedIs
<1>2. CASE leads /\ CanPropose(copy, p) /\ r = ProposeUpdate(l, copy, p)
  <2> DEFINE new == Proposed(copy, p)
  <2>1. Evolves(copy, new, {p}) /\ Chain(new.current, new.queue)
    BY <1>2, ProposedIs
  <2>2. /\ r.copy = new /\ r.heads = << >> /\ r.throws = FALSE
        /\ r.messages = QueueMessage(l, new)
    BY <1>2 DEF ProposeUpdate
  <2> HIDE DEF new, r
  <2>3. new.queue \in Seq(SignedProposal)  BY <2>1, CopyIs DEF Evolves
  <2>4. ASSUME NEW m \in r.messages
        PROVE  m \in Proposals /\ ProposalsOf(m.proposals) \subseteq ProposalsOf(copy.queue) \cup {p}
    <3>1. m = [type |-> "proposals", ledger |-> l, to |-> Ends[l][Follower],
               proposals |-> new.queue]
      BY <2>2 DEF QueueMessage
    <3>2. m \in Proposals /\ m.proposals = new.queue
      BY <1>0, <2>3, <3>1 DEF Proposals
    <3>3. QED  BY <2>1, <3>2 DEF Evolves
  <2>5. << >> \in Seq(Proposal)  OBVIOUS
  <2>6. QED  BY <2>1, <2>2, <2>4, <2>5 DEF IsUpdate, r
<1>3. CASE ~ leads /\ CanSignNext(copy, p) /\ r = AcceptUpdate(l, copy, p)
  <2> DEFINE new == SignedNext(copy, p)
             sp == Countersignature(copy, p)
             heads == IF new.queue = << >> THEN << >> ELSE <<new.queue[1].proposal>>
  <2>1. Evolves(copy, new, {}) /\ p \in ProposalsOf(copy.queue)
    BY <1>3, SignedNextIs
  <2>2. sp \in SignedProposal /\ sp.proposal = p  BY <1>3, SignedNextIs
  <2>3. /\ r.copy = new /\ r.throws = FALSE /\ r.heads = heads
        /\ r.messages = CountersignedMessage(l, sp)
    BY <1>3 DEF AcceptUpdate
  <2> HIDE DEF new, sp, r
  <2>4. new.queue \in Seq(SignedProposal)  BY <2>1, CopyIs DEF Evolves
  <2>5. heads \in Seq(Proposal)
    <3>1. CASE new.queue # << >>
      <4>1. new.queue[1] \in SignedProposal  BY <2>4, <3>1
      <4>2. new.queue[1].proposal \in Proposal  BY <4>1 DEF SignedProposal
      <4>3. QED  BY <3>1, <4>2
    <3>2. QED  BY <3>1
  <2>6. ASSUME NEW m \in r.messages
        PROVE  m \in Proposals /\ ProposalsOf(m.proposals) \subseteq ProposalsOf(copy.queue) \cup {p}
    <3>1. m = [type |-> "proposals", ledger |-> l, to |-> Ends[l][Leader],
               proposals |-> <<sp>>]
      BY <2>3 DEF CountersignedMessage
    <3>2. m \in Proposals /\ m.proposals = <<sp>>
      BY <1>0, <2>2, <3>1 DEF Proposals
    <3>3. ProposalsOf(<<sp>>) = {p}  BY <2>2 DEF ProposalsOf
    <3>4. QED  BY <3>2, <3>3
  <2>7. Evolves(copy, new, {p})  BY <2>1 DEF Evolves
  <2> HIDE DEF heads
  <2>8. QED  BY <1>3, <2>3, <2>5, <2>6, <2>7 DEF IsUpdate, r
<1>4. QED  BY <1>1, <1>2, <1>3 DEF UpdateLedger

\* The results of the ledgers of a participant, put together.
LEMMA MergeIs ==
  ASSUME NEW v \in Targets, NEW n \in Participants(v),
         NEW copies \in [Ledgers -> Copy], NEW results, NEW S,
         \A l \in LedgersOf(n, v) :
           IsUpdate(copies[l], results[l], S, Party(n, l) = Leader),
         NEW r, r = MergeUpdates(n, v, copies, results)
  PROVE  /\ r.copies \in [Ledgers -> Copy]
         /\ \A l \in Ledgers :
              IF l \in LedgersOf(n, v) THEN r.copies[l] = results[l].copy
                                       ELSE r.copies[l] = copies[l]
         /\ r.heads \in Seq(Proposal)
         /\ r.messages = UNION {results[l].messages : l \in LedgersOf(n, v)}
         /\ r.throws <=> \E l \in LedgersOf(n, v) : results[l].throws
<1> DEFINE own == OwnHops(n, v)
           heads(i) == results[own[i]].heads
<1>0. n \in Nodes  BY PathIs
<1>1. LedgersOf(n, v) \subseteq Ledgers  BY <1>0, LedgersOfAre
<1>2. /\ r.copies = [l \in Ledgers |->
                      IF l \in LedgersOf(n, v) THEN results[l].copy ELSE copies[l]]
      /\ r.messages = UNION {results[l].messages : l \in LedgersOf(n, v)}
      /\ r.heads = IF Len(own) = 1 THEN heads(1) ELSE heads(1) \o heads(2)
      /\ r.throws = \E l \in LedgersOf(n, v) : results[l].throws
  BY DEF MergeUpdates
<1>3. \A l \in LedgersOf(n, v) : results[l].copy \in Copy /\ results[l].heads \in Seq(Proposal)
  BY DEF IsUpdate, Evolves
<1>4. own \in Seq(LedgersOf(n, v)) /\ Len(own) \in {1, 2}  BY OwnHopsAre
<1>5. own[1] \in LedgersOf(n, v) /\ (Len(own) = 2 => own[2] \in LedgersOf(n, v))
  BY <1>4
<1>6. heads(1) \in Seq(Proposal) /\ (Len(own) = 2 => heads(2) \in Seq(Proposal))
  BY <1>3, <1>5
<1>7. r.heads \in Seq(Proposal)
  <2> HIDE DEF heads, own
  <2>1. CASE Len(own) = 1  BY <1>2, <1>6, <2>1
  <2>2. CASE Len(own) = 2  BY <1>2, <1>6, <2>2, ConcatProperties
  <2>3. QED  BY <1>4, <2>1, <2>2 DEF own
<1>8. r.copies \in [Ledgers -> Copy]  BY <1>1, <1>2, <1>3
<1>9. QED  BY <1>2, <1>7, <1>8

-----------------------------------------------------------------------------
(***************************************************************************)
(* What a crank makes of an objective.                                     *)
(***************************************************************************)

\* An objective in memory.
Memory == [status : Status, minimum : Nat, channel : Channel,
           copies : [Ledgers -> Copy]]

\* Channel c2 is channel c1 with more signatures.
Grows(c1, c2) ==
  /\ c1.prefund \subseteq c2.prefund
  /\ c1.postfund \subseteq c2.postfund
  /\ c1.final # NoFinal => /\ c2.final # NoFinal
                           /\ c2.final.paid = c1.final.paid
                           /\ c1.final.signed \subseteq c2.final.signed

\* What the crank of an objective o for v may propose when it leaves channel c.
MayPropose(n, v, o, c) ==
  {p \in Proposal :
     /\ p.target = v
     /\ \/ p.type = "add" /\ c.prefund = Participants(v)
        \/ /\ p.type = "remove"
           /\ c.final # NoFinal /\ c.final.signed = Participants(v)
           /\ \E l \in LedgersOf(n, v) : CopyIncludes(o.copies[l], v)}

LeadsChains(n, o) ==
  \A l \in Ledgers : Ends[l][Leader] = n =>
                       Chain(o.copies[l].current, o.copies[l].queue)

\* A payload that says what the channel c of its sender has.
SaysOf(n, v, c, m) ==
  /\ m \in Payloads /\ m.type # "voucher"
  /\ m.v = v /\ m.from = n /\ m.to \in Participants(v) \ {n}
  /\ m.type = "prefund" => n \in c.prefund
  /\ m.type = "postfund" => n \in c.postfund
  /\ m.type = "final" => c.final # NoFinal /\ m.paid = c.final.paid /\ n \in c.final.signed
  /\ m.type # "final" => m.paid = 0

\* What a successful crank of node n's objective o for v is.
IsCrank(n, v, o, r) ==
  LET c1 == o.channel
      c2 == r.o.channel
      S  == MayPropose(n, v, o, c2)
  IN /\ r.o \in Memory /\ r.o.minimum = o.minimum
     /\ r.o.status # "unknown" \/ r.o.status = o.status
     /\ r.heads \in Seq(Proposal)
     /\ Grows(c1, c2)
     /\ c2.prefund \subseteq c1.prefund \cup {n}
     /\ c2.postfund \subseteq c1.postfund \cup {n}
     /\ n \in c2.postfund \ c1.postfund =>
          \A l \in LedgersOf(n, v) : CopyIncludes(r.o.copies[l], v)
     /\ c2.final # NoFinal =>
          IF c1.final = NoFinal THEN c2.final = [paid |-> o.minimum, signed |-> {n}]
                                ELSE c2.final.signed \subseteq c1.final.signed \cup {n}
     /\ \A l \in Ledgers : Evolves(o.copies[l], r.o.copies[l], S)
     /\ LeadsChains(n, r.o)
     /\ \A m \in r.messages :
          \/ SaysOf(n, v, c2, m)
          \/ /\ m \in Proposals
             /\ \E l \in LedgersOf(n, v) :
                  ProposalsOf(m.proposals) \subseteq ProposalsOf(o.copies[l].queue) \cup S

\* The parts of an objective in memory.
LEMMA MemoryIs ==
  ASSUME NEW o \in Memory
  PROVE  /\ o.status \in Status /\ o.minimum \in Nat /\ o.channel \in Channel
         /\ o.copies \in [Ledgers -> Copy]
         /\ o = [status |-> o.status, minimum |-> o.minimum, channel |-> o.channel,
                 copies |-> o.copies]
         /\ o.channel.prefund \subseteq Nodes /\ o.channel.postfund \subseteq Nodes
         /\ o.channel.final \in FinalState \cup {NoFinal}
         /\ o.channel = [prefund |-> o.channel.prefund, postfund |-> o.channel.postfund,
                         final |-> o.channel.final]
BY DEF Memory, Channel

\* Payloads go from a participant to the others.
LEMMA PayloadIs ==
  ASSUME NEW v \in Targets, NEW n \in Nodes, NEW paid \in Nat,
         NEW type \in {"prefund", "postfund", "final"}, NEW m \in Payload(type, n, v, paid)
  PROVE  /\ m \in Payloads /\ m.type = type /\ m.v = v /\ m.from = n /\ m.paid = paid
         /\ m.to \in Participants(v) \ {n}
<1>1. PICK p \in Participants(v) \ {n} :
        m = [type |-> type, v |-> v, from |-> n, to |-> p, paid |-> paid]
  BY DEF Payload
<1>2. p \in Nodes  BY PathIs
<1>3. QED  BY <1>1, <1>2 DEF Payloads

\* What it means to replace parts of a channel.
LEMMA ChannelIs ==
  ASSUME NEW c \in Channel, NEW prefund, NEW postfund, NEW final
  PROVE  /\ [c EXCEPT !.prefund = prefund, !.postfund = postfund]
              = [prefund |-> prefund, postfund |-> postfund, final |-> c.final]
         /\ [c EXCEPT !.final = final]
              = [prefund |-> c.prefund, postfund |-> c.postfund, final |-> final]
<1>1. PICK d, e, f : c = [prefund |-> d, postfund |-> e, final |-> f]
  BY DEF Channel
<1> DEFINE x == [c EXCEPT !.prefund = prefund]
<1>2. [c EXCEPT !.prefund = prefund, !.postfund = postfund] = [x EXCEPT !.postfund = postfund]
  BY <1>1
<1>3. x = [prefund |-> prefund, postfund |-> e, final |-> f]  BY <1>1
<1> HIDE DEF x
<1>4. [x EXCEPT !.postfund = postfund] = [prefund |-> prefund, postfund |-> postfund, final |-> f]
  BY <1>3
<1>5. [c EXCEPT !.final = final] = [prefund |-> d, postfund |-> e, final |-> final]
  BY <1>1
<1>6. c.prefund = d /\ c.postfund = e /\ c.final = f  BY <1>1
<1>7. QED  BY <1>2, <1>4, <1>5, <1>6

\* The crank of a virtual-fund objective signs the prefund state, proposes its
\* guarantees once all have, and signs the postfund state once it has them.
LEMMA FundCrankIs ==
  ASSUME NEW v \in Targets, NEW n \in Nodes, NEW o \in Memory, LeadsChains(n, o),
         NEW r, r = FundCrank(n, v, o), r.error = "none"
  PROVE  /\ IsCrank(n, v, o, r)
         /\ o.status = "approved" /\ r.o.status \in {"approved", "completed"}
         /\ n \in r.o.channel.prefund
         /\ r.o.channel.final = o.channel.final
         /\ \A m \in r.messages : m.type # "request"
<1> DEFINE prefund  == o.channel.prefund \cup {n}
           results  == [l \in LedgersOf(n, v) |->
                          UpdateLedgerWithGuarantee(n, v, l, o.copies[l])]
           updated  == MergeUpdates(n, v, o.copies, results)
           ready    == PrefundComplete(v, prefund)
           funded   == ready /\ FundingComplete(n, v, updated.copies)
           postfund == IF funded THEN o.channel.postfund \cup {n} ELSE o.channel.postfund
           done     == funded /\ MayFinish(n, v, postfund)
           status   == IF done THEN "completed" ELSE "approved"
           copies   == IF ready THEN updated.copies ELSE o.copies
           messages ==
             (IF n \in o.channel.prefund THEN {} ELSE Payload("prefund", n, v, 0))
               \cup (IF ready THEN updated.messages ELSE {})
               \cup (IF postfund = o.channel.postfund THEN {}
                                                      ELSE Payload("postfund", n, v, 0))
<1>1. /\ o.status = "approved" /\ ~ (ready /\ updated.throws)
      /\ r = [o |-> [status |-> status, minimum |-> o.minimum,
                     channel |-> [o.channel EXCEPT !.prefund  = prefund,
                                                   !.postfund = postfund],
                     copies |-> copies],
              messages |-> messages,
              heads |-> IF ready THEN updated.heads ELSE << >>,
              done  |-> done,
              error |-> "none"]
  <2>1. \A e : Throw(o, e).error = e  BY DEF Throw
  <2>2. o.status = "approved"  BY <2>1 DEF FundCrank
  <2>3. ~ (ready /\ updated.throws)
    <3>1. ready /\ updated.throws => r = Throw(o, "error updating ledger funding")
      BY <2>2 DEF FundCrank
    <3>2. Throw(o, "error updating ledger funding").error # "none"  BY DEF Throw
    <3> HIDE DEF ready, updated
    <3>3. QED  BY <3>1, <3>2
  <2>4. QED  BY <2>2, <2>3 DEF FundCrank
<1> DEFINE S == MayPropose(n, v, o, r.o.channel)
<1>2. LedgersOf(n, v) \subseteq Ledgers /\ LedgersOf(n, v) \subseteq Hops(v)
  BY LedgersOfAre
<1>3. ASSUME ready
      PROVE  /\ n \in Participants(v)
             /\ \A l \in LedgersOf(n, v) :
                  IsUpdate(o.copies[l], results[l], {ExpectedProposal(v, l)},
                           Party(n, l) = Leader)
  <2>1. n \in Participants(v)  BY <1>3 DEF PrefundComplete
  <2>2. ASSUME NEW l \in LedgersOf(n, v)
        PROVE  IsUpdate(o.copies[l], results[l], {ExpectedProposal(v, l)},
                        Party(n, l) = Leader)
    <3>1. /\ o.copies[l] \in Copy /\ ExpectedProposal(v, l) \in Proposal
          /\ Party(n, l) = Leader => Chain(o.copies[l].current, o.copies[l].queue)
      <4>1. l \in Ledgers /\ l \in Hops(v)  BY <1>2
      <4>2. o.copies[l] \in Copy /\ ExpectedProposal(v, l) \in Proposal
        BY <4>1, MemoryIs, ExpectedProposals
      <4>3. Party(n, l) = Leader => Ends[l][Leader] = n  BY <4>1, PartyIs
      <4>4. QED  BY <4>1, <4>2, <4>3 DEF LeadsChains
    <3>2. results[l] = UpdateLedgerWithGuarantee(n, v, l, o.copies[l])  OBVIOUS
    <3> HIDE DEF results
    <3>3. CASE results[l] = Untouched(o.copies[l])  BY <3>1, <3>3, UntouchedIs
    <3>4. CASE results[l] # Untouched(o.copies[l])
      <4> DEFINE g == ExpectedGuarantee(v, l)
                 isP == IsProposed(o.copies[l].current, o.copies[l].queue, v, g)
                 isN == IsProposedNext(o.copies[l].current, o.copies[l].queue, v, g)
      <4>1. isP \in BOOLEAN /\ isN \in BOOLEAN
        BY DEF IsProposed, IsProposedNext
      <4>2. results[l] = UpdateLedger(n, l, o.copies[l], ExpectedProposal(v, l), isP, isN)
        BY <3>2, <3>4 DEF UpdateLedgerWithGuarantee
      <4> HIDE DEF isP, isN
      <4>3. QED  BY <1>2, <3>1, <4>1, <4>2, UpdateLedgerIs
    <3>5. QED  BY <3>3, <3>4
  <2>3. QED  BY <2>1, <2>2
<1> HIDE DEF results
<1>4. ASSUME ready, NEW R, \A l \in LedgersOf(n, v) : ExpectedProposal(v, l) \in R
      PROVE  \A l \in LedgersOf(n, v) :
               IsUpdate(o.copies[l], results[l], R, Party(n, l) = Leader)
  <2>1. ASSUME NEW l \in LedgersOf(n, v)
        PROVE  IsUpdate(o.copies[l], results[l], R, Party(n, l) = Leader)
    <3>1. {ExpectedProposal(v, l)} \subseteq R  BY <1>4
    <3>2. IsUpdate(o.copies[l], results[l], {ExpectedProposal(v, l)}, Party(n, l) = Leader)
      BY <1>3, <1>4
    <3>3. QED  BY ONLY <3>1, <3>2, IsUpdateOfMore
  <2>2. QED  BY <2>1
<1>5. ASSUME ready
      PROVE  /\ updated.copies \in [Ledgers -> Copy]
             /\ \A l \in Ledgers :
                  IF l \in LedgersOf(n, v) THEN updated.copies[l] = results[l].copy
                                           ELSE updated.copies[l] = o.copies[l]
             /\ updated.heads \in Seq(Proposal)
             /\ updated.messages = UNION {results[l].messages : l \in LedgersOf(n, v)}
  <2>1. \A l \in LedgersOf(n, v) :
          IsUpdate(o.copies[l], results[l], Proposal, Party(n, l) = Leader)
    BY <1>2, <1>4, <1>5, ExpectedProposals
  <2>2. n \in Participants(v) /\ o.copies \in [Ledgers -> Copy]
    BY <1>3, <1>5, MemoryIs
  <2>3. updated = MergeUpdates(n, v, o.copies, results)  OBVIOUS
  <2> HIDE DEF updated
  <2>4. n \in Nodes /\ v \in Targets  OBVIOUS
  <2>5. PICK held : held = o.copies  OBVIOUS
  <2>6. /\ \A l \in LedgersOf(n, v) :
             IsUpdate(held[l], results[l], Proposal, Party(n, l) = Leader)
        /\ n \in Participants(v) /\ held \in [Ledgers -> Copy]
        /\ updated = MergeUpdates(n, v, held, results)
    BY ONLY <2>1, <2>2, <2>3, <2>5
  <2>7. /\ updated.copies \in [Ledgers -> Copy]
        /\ \A l \in Ledgers :
             IF l \in LedgersOf(n, v) THEN updated.copies[l] = results[l].copy
                                      ELSE updated.copies[l] = held[l]
        /\ updated.heads \in Seq(Proposal)
        /\ updated.messages = UNION {results[l].messages : l \in LedgersOf(n, v)}
    BY ONLY <2>4, <2>6, MergeIs
  <2>8. QED  BY ONLY <2>5, <2>7
<1> HIDE DEF updated, ready
<1>6. prefund \subseteq Nodes /\ postfund \subseteq Nodes  BY MemoryIs
<1>7. copies \in [Ledgers -> Copy]  BY <1>5, MemoryIs
<1> DEFINE c == [prefund |-> prefund, postfund |-> postfund, final |-> o.channel.final]
<1>8. r.o = [status |-> status, minimum |-> o.minimum, channel |-> c, copies |-> copies]
  <2>1. o.channel \in Channel  BY MemoryIs
  <2> HIDE DEF prefund, postfund, status, copies
  <2>2. [o.channel EXCEPT !.prefund = prefund, !.postfund = postfund] = c
    BY <2>1, ChannelIs
  <2>3. QED  BY <1>1, <2>2
<1>9. c \in Channel /\ status \in Status  BY <1>6, MemoryIs DEF Channel, Status
<1>10. r.o \in Memory /\ r.o.minimum = o.minimum /\ r.o.channel = c
       /\ r.o.copies = copies /\ r.o.status \in {"approved", "completed"}
  <2> HIDE DEF c, copies
  <2>1. r.o \in Memory  BY <1>7, <1>8, <1>9, MemoryIs DEF Memory
  <2>2. QED  BY <1>8, <2>1
<1>11. r.heads \in Seq(Proposal) /\ r.messages = messages  BY <1>1, <1>5
<1>12. /\ c.prefund = prefund /\ c.postfund = postfund /\ c.final = o.channel.final
  OBVIOUS
<1>13. ASSUME ready, NEW l \in LedgersOf(n, v) PROVE ExpectedProposal(v, l) \in S
  BY <1>2, <1>10, <1>12, <1>13, ExpectedProposals DEF MayPropose, ready, PrefundComplete
<1>14. ASSUME NEW l \in Ledgers
       PROVE  /\ Evolves(o.copies[l], copies[l], S)
              /\ Ends[l][Leader] = n => Chain(copies[l].current, copies[l].queue)
  <2>1. o.copies[l] \in Copy  BY MemoryIs
  <2>2. CASE copies[l] = o.copies[l]
    BY <2>1, <2>2, EvolvesByNothing DEF LeadsChains
  <2>3. CASE ready /\ l \in LedgersOf(n, v)
    <3> HIDE DEF S
    <3>1. IsUpdate(o.copies[l], results[l], S, Party(n, l) = Leader)
      BY <1>4, <1>13, <2>3
    <3>2. copies[l] = results[l].copy  BY <1>5, <2>3
    <3>3. QED  BY <3>1, <3>2, PartyIs DEF IsUpdate
  <2>4. QED  BY <1>5, <2>2, <2>3
<1>15. ASSUME n \in postfund \ o.channel.postfund
       PROVE  \A l \in LedgersOf(n, v) : CopyIncludes(copies[l], v)
  <2>1. ready /\ FundingComplete(n, v, updated.copies)  BY <1>15
  <2>2. QED
    BY <1>2, <2>1, ExpectedProposals
    DEF FundingComplete, IsFunding, CopyIncludes, IncludesTarget, Includes
<1>16. ASSUME NEW m \in messages
       PROVE  \/ SaysOf(n, v, c, m)
              \/ /\ m \in Proposals
                 /\ \E l \in LedgersOf(n, v) :
                      ProposalsOf(m.proposals) \subseteq ProposalsOf(o.copies[l].queue) \cup S
  <2>1. CASE m \in Payload("prefund", n, v, 0)
    BY <1>12, <2>1, PayloadIs DEF SaysOf
  <2>2. CASE m \in Payload("postfund", n, v, 0) /\ postfund # o.channel.postfund
    BY <1>12, <2>2, PayloadIs DEF SaysOf
  <2>3. CASE ready /\ m \in updated.messages
    <3> HIDE DEF S
    <3>1. PICK l \in LedgersOf(n, v) : m \in results[l].messages  BY <1>5, <2>3
    <3>2. IsUpdate(o.copies[l], results[l], S, Party(n, l) = Leader)
      BY <1>4, <1>13, <2>3
    <3>3. QED  BY <3>1, <3>2 DEF IsUpdate
  <2>4. QED  BY <2>1, <2>2, <2>3
<1>20. ASSUME NEW m \in messages PROVE m.type # "request"
  <2>1. CASE m \in Payload("prefund", n, v, 0) \/ m \in Payload("postfund", n, v, 0)
    <3>1. m.type \in {"prefund", "postfund"}  BY <2>1, PayloadIs
    <3>2. QED  BY <3>1
  <2>2. CASE ready /\ m \in updated.messages
    <3> HIDE DEF S
    <3>1. PICK l \in LedgersOf(n, v) : m \in results[l].messages  BY <1>5, <2>2
    <3>2. IsUpdate(o.copies[l], results[l], S, Party(n, l) = Leader)
      BY <1>4, <1>13, <2>2
    <3>3. m \in Proposals  BY <3>1, <3>2 DEF IsUpdate
    <3>4. QED  BY <3>3 DEF Proposals
  <2>3. QED  BY <2>1, <2>2
<1>17. Grows(o.channel, c)  BY <1>12 DEF Grows
<1> HIDE DEF c, copies, messages, S
<1>18. IsCrank(n, v, o, r)
  <2>1. LeadsChains(n, r.o)  BY <1>10, <1>14 DEF LeadsChains
  <2>2. c.prefund \subseteq o.channel.prefund \cup {n}
        /\ c.postfund \subseteq o.channel.postfund \cup {n}
    BY <1>12
  <2>3. c.final # NoFinal /\ o.channel.final # NoFinal =>
          c.final.signed \subseteq o.channel.final.signed \cup {n}
    BY <1>12
  <2>4. n \in c.postfund \ o.channel.postfund =>
          \A l \in LedgersOf(n, v) : CopyIncludes(copies[l], v)
    BY <1>12, <1>15
  <2>5. MayPropose(n, v, o, c) = S  BY <1>10 DEF S
  <2>6. r.o.status # "unknown"  BY <1>10
  <2> HIDE DEF postfund, prefund
  <2>7. QED
    BY <1>10, <1>11, <1>12, <1>14, <1>16, <1>17, <2>1, <2>2, <2>3, <2>4, <2>5, <2>6
    DEF IsCrank
<1>19. QED  BY <1>1, <1>10, <1>12, <1>18, <1>20

\* A participant adds its signature to the final state, or makes one.
LEMMA SignFinalIs ==
  ASSUME NEW v \in Targets, NEW n \in Nodes, NEW o \in Memory,
         o.minimum <= Deposit[v].a0,
         o.channel.final # NoFinal => o.channel.final.paid <= Deposit[v].a0,
         NEW final, final = SignFinal(n, v, o)
  PROVE  /\ final \in FinalState /\ final # NoFinal
         /\ final.paid \in 0..Deposit[v].a0
         /\ n \in final.signed
         /\ IF o.channel.final = NoFinal
              THEN final = [paid |-> o.minimum, signed |-> {n}]
              ELSE /\ final.paid = o.channel.final.paid
                   /\ final.signed = o.channel.final.signed \cup {n}
<1>1. o.minimum \in Nat /\ o.channel.final \in FinalState \cup {NoFinal}
  BY MemoryIs
<1>2. Deposit[v].a0 \in Nat  BY ExpectedProposals
<1>3. CASE o.channel.final = NoFinal
  <2>1. final = [paid |-> o.minimum, signed |-> {n}]  BY <1>3 DEF SignFinal
  <2>2. final \in FinalState  BY <1>1, <2>1 DEF FinalState
  <2>3. final.paid = o.minimum /\ final.signed = {n}  BY <2>1
  <2>4. final.paid \in 0..Deposit[v].a0  BY <1>1, <1>2, <2>3
  <2>5. QED  BY <1>3, <2>1, <2>2, <2>3, <2>4, NoFinalAssumption
<1>4. CASE o.channel.final # NoFinal
  <2> DEFINE old == o.channel.final
  <2>1. old \in FinalState /\ old.paid <= Deposit[v].a0  BY <1>1, <1>4
  <2>2. final = [old EXCEPT !.signed = @ \cup {n}]  BY <1>4 DEF SignFinal
  <2> HIDE DEF old
  <2>3. old.paid \in Nat /\ old.signed \subseteq Nodes
        /\ old = [paid |-> old.paid, signed |-> old.signed]
    BY <2>1 DEF FinalState
  <2>4. final = [paid |-> old.paid, signed |-> old.signed \cup {n}]
    BY <2>2, <2>3
  <2>5. final.paid = old.paid /\ final.signed = old.signed \cup {n}  BY <2>4
  <2>6. final \in FinalState  BY <2>3, <2>4 DEF FinalState
  <2>7. final.paid \in 0..Deposit[v].a0  BY <1>2, <2>1, <2>3, <2>5
  <2>8. QED  BY <1>4, <2>5, <2>6, <2>7, NoFinalAssumption DEF old
<1>5. QED  BY <1>3, <1>4

\* Signing the final state, and removing the guarantees once all have signed it.
LEMMA DividedIs ==
  ASSUME NEW v \in Targets, NEW n \in Nodes, NEW o \in Memory, LeadsChains(n, o),
         o.minimum <= Deposit[v].a0,
         o.channel.final # NoFinal => o.channel.final.paid <= Deposit[v].a0,
         NEW r, r = Divided(n, v, o), r.error = "none"
  PROVE  /\ IsCrank(n, v, o, r)
         /\ r.o.status \in {"approved", "completed"}
         /\ r.o.channel.prefund = o.channel.prefund
         /\ r.o.channel.postfund = o.channel.postfund
         /\ r.o.channel.final # NoFinal
         /\ \A m \in r.messages : m.type # "request"
<1> DEFINE final   == SignFinal(n, v, o)
           results == [l \in LedgersOf(n, v) |->
                         UpdateLedgerToRemoveGuarantee(n, v, l, o.copies[l], final.paid)]
           updated == MergeUpdates(n, v, o.copies, results)
           agreed  == IsSignedByAll(n, v, final)
           done    == agreed /\ \A l \in LedgersOf(n, v) :
                                  ~ CopyIncludes(updated.copies[l], v)
           status  == IF done THEN "completed" ELSE "approved"
           copies  == IF agreed THEN updated.copies ELSE o.copies
           messages ==
             (IF final = o.channel.final THEN {} ELSE Payload("final", n, v, final.paid))
               \cup (IF agreed THEN updated.messages ELSE {})
<1>1. /\ ~ (agreed /\ updated.throws)
      /\ r = [o |-> [status |-> status, minimum |-> o.minimum,
                     channel |-> [o.channel EXCEPT !.final = final],
                     copies |-> copies],
              messages |-> messages,
              heads |-> IF agreed THEN updated.heads ELSE << >>,
              done  |-> done,
              error |-> "none"]
  <2>1. ~ (agreed /\ updated.throws)
    <3>1. agreed /\ updated.throws => r = Throw(o, "error updating ledger funding")
      BY DEF Divided
    <3>2. Throw(o, "error updating ledger funding").error # "none"  BY DEF Throw
    <3> HIDE DEF agreed, updated
    <3>3. QED  BY <3>1, <3>2
  <2>2. QED  BY <2>1 DEF Divided
<1>2. /\ final \in FinalState /\ final # NoFinal
      /\ final.paid \in 0..Deposit[v].a0
      /\ n \in final.signed
      /\ IF o.channel.final = NoFinal
           THEN final = [paid |-> o.minimum, signed |-> {n}]
           ELSE /\ final.paid = o.channel.final.paid
                /\ final.signed = o.channel.final.signed \cup {n}
  BY SignFinalIs
<1> HIDE DEF final
<1> DEFINE S == MayPropose(n, v, o, r.o.channel)
           removal == RemovalProposal(v, final.paid)
<1>3. LedgersOf(n, v) \subseteq Ledgers  BY LedgersOfAre
<1>4. removal \in Proposal /\ removal.target = v /\ removal.type = "remove"
  BY <1>2, ExpectedProposals
<1>5. ASSUME agreed, NEW R, NEW l \in LedgersOf(n, v), CopyIncludes(o.copies[l], v) => removal \in R
      PROVE  /\ n \in Participants(v)
             /\ IsUpdate(o.copies[l], results[l], R, Party(n, l) = Leader)
  <2>1. n \in Participants(v)  BY <1>2, <1>5 DEF IsSignedByAll
  <2>2. l \in Ledgers  BY <1>3
  <2>3. /\ o.copies[l] \in Copy
        /\ Party(n, l) = Leader => Chain(o.copies[l].current, o.copies[l].queue)
    <3>1. Party(n, l) = Leader => Ends[l][Leader] = n  BY <2>2, PartyIs
    <3>2. QED  BY <2>2, <3>1, MemoryIs DEF LeadsChains
  <2>4. results[l] = UpdateLedgerToRemoveGuarantee(n, v, l, o.copies[l], final.paid)
    OBVIOUS
  <2> HIDE DEF results, removal
  <2>5. CASE ~ CopyIncludes(o.copies[l], v)
    <3>1. results[l] = Untouched(o.copies[l])
      BY <2>4, <2>5 DEF UpdateLedgerToRemoveGuarantee
    <3>2. QED  BY <2>1, <2>3, <3>1, UntouchedIs
  <2>6. CASE CopyIncludes(o.copies[l], v)
    <3> DEFINE isP == HasRemovalBeenProposed(o.copies[l].queue, v)
               isN == HasRemovalBeenProposedNext(o.copies[l].queue, v)
    <3>1. isP \in BOOLEAN /\ isN \in BOOLEAN
      BY DEF HasRemovalBeenProposed, HasRemovalBeenProposedNext
    <3>2. results[l] = UpdateLedger(n, l, o.copies[l], removal, isP, isN)
      BY <2>4, <2>6 DEF UpdateLedgerToRemoveGuarantee, removal
    <3> HIDE DEF isP, isN
    <3> DEFINE copy == o.copies[l]
    <3> HIDE DEF copy
    <3>3. IsUpdate(copy, UpdateLedger(n, l, copy, removal, isP, isN), {removal},
                   Party(n, l) = Leader)
      <4>1. removal \in Proposal /\ n \in Nodes /\ l \in Ledgers  BY <1>4, <2>2
      <4>2. copy \in Copy /\ (Party(n, l) = Leader => Chain(copy.current, copy.queue))
        BY <2>3 DEF copy
      <4>3. QED  BY ONLY <3>1, <4>1, <4>2, UpdateLedgerIs
    <3>4. IsUpdate(o.copies[l], results[l], {removal}, Party(n, l) = Leader)
      BY <3>2, <3>3 DEF copy
    <3>5. {removal} \subseteq R  BY <1>5, <2>1, <2>6
    <3>6. QED  BY ONLY <2>1, <3>4, <3>5, IsUpdateOfMore
  <2>7. QED  BY <2>5, <2>6
<1> HIDE DEF results, removal
<1>6. ASSUME agreed
      PROVE  /\ updated.copies \in [Ledgers -> Copy]
             /\ \A l \in Ledgers :
                  IF l \in LedgersOf(n, v) THEN updated.copies[l] = results[l].copy
                                           ELSE updated.copies[l] = o.copies[l]
             /\ updated.heads \in Seq(Proposal)
             /\ updated.messages = UNION {results[l].messages : l \in LedgersOf(n, v)}
  <2>1. \A l \in LedgersOf(n, v) :
          IsUpdate(o.copies[l], results[l], Proposal, Party(n, l) = Leader)
    BY <1>4, <1>5, <1>6
  <2>2. n \in Participants(v) /\ o.copies \in [Ledgers -> Copy]
    BY <1>2, <1>6, MemoryIs DEF IsSignedByAll
  <2>3. updated = MergeUpdates(n, v, o.copies, results)  OBVIOUS
  <2> HIDE DEF updated
  <2>4. v \in Targets  OBVIOUS
  <2>5. PICK held : held = o.copies  OBVIOUS
  <2>6. /\ \A l \in LedgersOf(n, v) :
             IsUpdate(held[l], results[l], Proposal, Party(n, l) = Leader)
        /\ n \in Participants(v) /\ held \in [Ledgers -> Copy]
        /\ updated = MergeUpdates(n, v, held, results)
    BY ONLY <2>1, <2>2, <2>3, <2>5
  <2>7. /\ updated.copies \in [Ledgers -> Copy]
        /\ \A l \in Ledgers :
             IF l \in LedgersOf(n, v) THEN updated.copies[l] = results[l].copy
                                      ELSE updated.copies[l] = held[l]
        /\ updated.heads \in Seq(Proposal)
        /\ updated.messages = UNION {results[l].messages : l \in LedgersOf(n, v)}
    BY ONLY <2>4, <2>6, MergeIs
  <2>8. QED  BY ONLY <2>5, <2>7
<1> HIDE DEF updated, agreed
<1>7. copies \in [Ledgers -> Copy]  BY <1>6, MemoryIs
<1> DEFINE c == [prefund |-> o.channel.prefund, postfund |-> o.channel.postfund,
                 final |-> final]
<1>8. r.o = [status |-> status, minimum |-> o.minimum, channel |-> c, copies |-> copies]
  <2>1. o.channel \in Channel  BY MemoryIs
  <2> HIDE DEF status, copies
  <2>2. [o.channel EXCEPT !.final = final] = c  BY <2>1, ChannelIs
  <2>3. QED  BY <1>1, <2>2
<1>9. c \in Channel /\ status \in Status  BY <1>2, MemoryIs DEF Channel, Status
<1>10. r.o \in Memory /\ r.o.minimum = o.minimum /\ r.o.channel = c
       /\ r.o.copies = copies /\ r.o.status \in {"approved", "completed"}
  <2> HIDE DEF c, copies
  <2>1. r.o \in Memory  BY <1>7, <1>8, <1>9, MemoryIs DEF Memory
  <2>2. QED  BY <1>8, <2>1
<1>11. r.heads \in Seq(Proposal) /\ r.messages = messages  BY <1>1, <1>6
<1>12. c.prefund = o.channel.prefund /\ c.postfund = o.channel.postfund /\ c.final = final
  OBVIOUS
<1>13. ASSUME agreed, NEW l \in LedgersOf(n, v)
       PROVE  IsUpdate(o.copies[l], results[l], S, Party(n, l) = Leader)
  <2>1. CopyIncludes(o.copies[l], v) => removal \in S
    BY <1>2, <1>4, <1>10, <1>12, <1>13 DEF MayPropose, agreed, IsSignedByAll
  <2> HIDE DEF S, removal
  <2>2. QED  BY <1>5, <1>13, <2>1
<1>14. ASSUME NEW l \in Ledgers
       PROVE  /\ Evolves(o.copies[l], copies[l], S)
              /\ Ends[l][Leader] = n => Chain(copies[l].current, copies[l].queue)
  <2>1. o.copies[l] \in Copy  BY MemoryIs
  <2>2. CASE copies[l] = o.copies[l]
    BY <2>1, <2>2, EvolvesByNothing DEF LeadsChains
  <2>3. CASE agreed /\ l \in LedgersOf(n, v)
    <3> HIDE DEF S
    <3>1. IsUpdate(o.copies[l], results[l], S, Party(n, l) = Leader)
      BY <1>13, <2>3
    <3>2. copies[l] = results[l].copy  BY <1>6, <2>3
    <3>3. QED  BY <3>1, <3>2, PartyIs DEF IsUpdate
  <2>4. QED  BY <1>6, <2>2, <2>3
<1>15. ASSUME NEW m \in messages
       PROVE  /\ \/ SaysOf(n, v, c, m)
                 \/ /\ m \in Proposals
                    /\ \E l \in LedgersOf(n, v) :
                         ProposalsOf(m.proposals) \subseteq ProposalsOf(o.copies[l].queue) \cup S
              /\ m.type # "request"
  <2>1. CASE m \in Payload("final", n, v, final.paid)
    <3>1. /\ m \in Payloads /\ m.type = "final" /\ m.v = v /\ m.from = n
          /\ m.paid = final.paid /\ m.to \in Participants(v) \ {n}
      BY <1>2, <2>1, PayloadIs
    <3>2. QED  BY <1>2, <1>12, <3>1 DEF SaysOf
  <2>2. CASE agreed /\ m \in updated.messages
    <3> HIDE DEF S
    <3>1. PICK l \in LedgersOf(n, v) : m \in results[l].messages  BY <1>6, <2>2
    <3>2. IsUpdate(o.copies[l], results[l], S, Party(n, l) = Leader)
      BY <1>13, <2>2
    <3>3. m.type = "proposals"  BY <3>1, <3>2 DEF IsUpdate, Proposals
    <3>4. QED  BY <3>1, <3>2, <3>3 DEF IsUpdate
  <2>3. QED  BY <2>1, <2>2
<1>16. Grows(o.channel, c)  BY <1>2, <1>12 DEF Grows
<1> HIDE DEF c, copies, messages, S
<1>17. IsCrank(n, v, o, r)
  <2>1. LeadsChains(n, r.o)  BY <1>10, <1>14 DEF LeadsChains
  <2>2. /\ c.prefund \subseteq o.channel.prefund \cup {n}
        /\ c.postfund \subseteq o.channel.postfund \cup {n}
        /\ ~ (n \in c.postfund \ o.channel.postfund)
    BY <1>12
  <2>3. IF o.channel.final = NoFinal
          THEN c.final = [paid |-> o.minimum, signed |-> {n}]
          ELSE c.final.signed \subseteq o.channel.final.signed \cup {n}
    BY <1>2, <1>12
  <2>4. MayPropose(n, v, o, c) = S  BY <1>10 DEF S
  <2>5. r.o.status # "unknown"  BY <1>10
  <2>6. QED
    BY <1>10, <1>11, <1>14, <1>15, <1>16, <2>1, <2>2, <2>3, <2>4, <2>5
    DEF IsCrank
<1>18. QED  BY <1>2, <1>10, <1>11, <1>12, <1>15, <1>17

\* A crank that changes nothing is a crank.
LEMMA IdleCrankIs ==
  ASSUME NEW v \in Targets, NEW n \in Nodes, NEW o \in Memory, LeadsChains(n, o),
         NEW r, r.o = o, r.heads = << >>,
         \A m \in r.messages : SaysOf(n, v, o.channel, m)
  PROVE  IsCrank(n, v, o, r)
<1>1. \A l \in Ledgers : Evolves(o.copies[l], o.copies[l], MayPropose(n, v, o, o.channel))
  BY MemoryIs, EvolvesByNothing
<1>2. Grows(o.channel, o.channel)  BY DEF Grows
<1>3. << >> \in Seq(Proposal)  OBVIOUS
<1>4. QED  BY <1>1, <1>2, <1>3 DEF IsCrank

\* The crank of a virtual-defund objective: only that of a participant other
\* than Alice waits without a final state, and then it asks her for one.
LEMMA DefundCrankIs ==
  ASSUME NEW v \in Targets, NEW n \in Nodes, NEW o \in Memory, LeadsChains(n, o),
         o.minimum <= Deposit[v].a0,
         o.channel.final # NoFinal => o.channel.final.paid <= Deposit[v].a0,
         NEW r, r = DefundCrank(n, v, o), r.error = "none"
  PROVE  /\ IsCrank(n, v, o, r)
         /\ r.o.channel.prefund = o.channel.prefund
         /\ r.o.channel.postfund = o.channel.postfund
         /\ IF o.status # "approved" THEN r.o = o /\ r.messages = {}
            ELSE IF n # Alice(v) /\ o.channel.final = NoFinal
              THEN r.o = o /\ r.messages = RequestMessage(n, v)
            ELSE /\ r.o.status \in {"approved", "completed"}
                 /\ r.o.channel.final # NoFinal
                 /\ \A m \in r.messages : m.type # "request"
<1>1. CASE o.status # "approved"
  <2>1. r = [Throw(o, "none") EXCEPT !.done = TRUE]  BY <1>1 DEF DefundCrank
  <2>2. r.o = o /\ r.messages = {} /\ r.heads = << >>  BY <2>1 DEF Throw
  <2>3. IsCrank(n, v, o, r)  BY <2>2, IdleCrankIs
  <2>4. QED  BY <1>1, <2>2, <2>3
<1>2. CASE o.status = "approved" /\ n # Alice(v) /\ o.channel.final = NoFinal
  <2>1. r = [Throw(o, "none") EXCEPT !.messages = RequestMessage(n, v)]
    BY <1>2 DEF DefundCrank
  <2>2. r.o = o /\ r.messages = RequestMessage(n, v) /\ r.heads = << >>
    BY <2>1 DEF Throw
  <2>3. ASSUME NEW m \in r.messages PROVE SaysOf(n, v, o.channel, m)
    <3>1. m = [type |-> "request", v |-> v, from |-> n, to |-> Alice(v), paid |-> 0]
      BY <2>2 DEF RequestMessage
    <3>2. Alice(v) \in Participants(v) \ {n} /\ Alice(v) \in Nodes
      BY <1>2, PathIs
    <3>3. QED  BY <3>1, <3>2 DEF SaysOf, Payloads
  <2>4. IsCrank(n, v, o, r)  BY <2>2, <2>3, IdleCrankIs
  <2>5. QED  BY <1>2, <2>2, <2>4
<1>3. CASE o.status = "approved" /\ (n = Alice(v) \/ o.channel.final # NoFinal)
  <2>1. r = Divided(n, v, o)
    <3>1. Throw(o, "no signature from Alice").error # "none"  BY DEF Throw
    <3>2. QED  BY <1>3, <3>1 DEF DefundCrank
  <2>2. /\ IsCrank(n, v, o, r)
        /\ r.o.status \in {"approved", "completed"}
        /\ r.o.channel.prefund = o.channel.prefund
        /\ r.o.channel.postfund = o.channel.postfund
        /\ r.o.channel.final # NoFinal
        /\ \A m \in r.messages : m.type # "request"
    BY <2>1, DividedIs
  <2>3. QED  BY <1>3, <2>2
<1>4. QED  BY <1>1, <1>2, <1>3

-----------------------------------------------------------------------------
(***************************************************************************)
(* What every step of the system keeps.                                    *)
(***************************************************************************)

\* The types of what a step changes, and what follows for single values.
LEMMA TypeIs ==
  ASSUME TypeOK
  PROVE  /\ \A n \in Nodes, v \in Targets :
              /\ channel[n][v] \in Channel \cup {NoChannel}
              /\ Has(n, v) => channel[n][v] \in Channel
              /\ vouchers[n][v] \in Nat \cup {NoVoucher}
              /\ Paid(n, v) \in Nat
              /\ \A k \in Kinds : /\ objective[n][k][v].status \in Status
                                  /\ objective[n][k][v].minimum \in Nat
         /\ \A l \in Ledgers, p \in Parties : ledger[l][p] \in Copy
<1>1. ASSUME NEW n \in Nodes, NEW v \in Targets
      PROVE  /\ channel[n][v] \in Channel \cup {NoChannel}
             /\ vouchers[n][v] \in Nat \cup {NoVoucher}
             /\ \A k \in Kinds : /\ objective[n][k][v].status \in Status
                                 /\ objective[n][k][v].minimum \in Nat
  BY DEF TypeOK
<1>2. QED  BY <1>1 DEF TypeOK, Has, Paid

\* A channel in a store stays there, and only ever gets more signatures.
ChannelsGrow ==
  \A n \in Nodes, v \in Targets :
    Has(n, v) => Has(n, v)' /\ Grows(channel[n][v], channel'[n][v])

\* Nothing is proposed, added or removed but what is lawful.
LedgersEvolve ==
  \A l \in Ledgers, p \in Parties :
    Evolves(ledger[l][p], ledger'[l][p], {q \in Proposal : IsLawful(q)'})

\* What was agreed, closed, promised or allowed remains so.
Keeps ==
  /\ \A n \in Nodes, v \in Targets :
       /\ Has(n, v) => Has(n, v)'
       /\ HasSigned(n, v) => HasSigned(n, v)'
       /\ IsKept(n, v) => IsKept(n, v)'
       /\ \A paid \in Nat : HasClosed(n, v, paid) => HasClosed(n, v, paid)'
  /\ \A v \in Targets : /\ Agreed(v) => Agreed(v)'
                        /\ IsClosedByAll(v) => IsClosedByAll(v)'
                        /\ \A final \in FinalState :
                             IsSignedFinal(v, final) => IsSignedFinal(v, final)'
  /\ \A q \in Proposal : IsLawful(q) => IsLawful(q)'

\* The target of a proposal is a channel.
LEMMA TargetIs ==
  ASSUME NEW q \in Proposal
  PROVE  q.target \in Targets /\ (q.type = "add" \/ q.type = "remove")
BY DEF Proposal, Add, Remove

\* Channels that only get signatures keep all that is said of them alone.
LEMMA GrowingKeeps ==
  ASSUME ChannelsGrow
  PROVE  /\ \A n \in Nodes, v \in Targets :
              /\ Has(n, v) => Has(n, v)'
              /\ HasSigned(n, v) => HasSigned(n, v)'
              /\ \A paid \in Nat : HasClosed(n, v, paid) => HasClosed(n, v, paid)'
         /\ \A v \in Targets : /\ Agreed(v) => Agreed(v)'
                               /\ IsClosedByAll(v) => IsClosedByAll(v)'
                               /\ \A final \in FinalState :
                                    IsSignedFinal(v, final) => IsSignedFinal(v, final)'
         /\ \A q \in Proposal : IsLawful(q) => IsLawful(q)'
<1>1. ASSUME NEW n \in Nodes, NEW v \in Targets
      PROVE  /\ Has(n, v) => Has(n, v)'
             /\ HasSigned(n, v) => HasSigned(n, v)'
             /\ \A paid \in Nat : HasClosed(n, v, paid) => HasClosed(n, v, paid)'
  BY DEF ChannelsGrow, Grows, HasSigned, HasClosed
<1>2. ASSUME NEW v \in Targets
      PROVE  /\ Agreed(v) => Agreed(v)'
             /\ IsClosedByAll(v) => IsClosedByAll(v)'
             /\ \A final \in FinalState :
                  IsSignedFinal(v, final) => IsSignedFinal(v, final)'
  <2>1. Participants(v) \subseteq Nodes /\ Deposit[v].a0 \in Nat
    BY PathIs, ExpectedProposals
  <2>2. Agreed(v) => Agreed(v)'  BY <1>1, <2>1 DEF Agreed
  <2>3. IsClosedByAll(v) => IsClosedByAll(v)'
    <3>1. ASSUME NEW paid \in 0..Deposit[v].a0, NEW n \in Participants(v), HasClosed(n, v, paid)
          PROVE  HasClosed(n, v, paid)'
      BY <1>1, <2>1, <3>1
    <3>2. QED  BY <3>1 DEF IsClosedByAll
  <2>4. ASSUME NEW final \in FinalState, IsSignedFinal(v, final)
        PROVE  IsSignedFinal(v, final)'
    <3>1. PICK paid \in Nat, signers \in SUBSET Nodes :
            final = [paid |-> paid, signed |-> signers]
      BY DEF FinalState
    <3>2. \A p \in signers : HasClosed(p, v, paid)
      BY <2>4, <3>1 DEF IsSignedFinal
    <3>3. \A p \in signers : HasClosed(p, v, paid)'  BY <1>1, <3>2
    <3>4. QED  BY <2>4, <3>1, <3>3 DEF IsSignedFinal
  <2>5. QED  BY <2>2, <2>3, <2>4
<1>3. ASSUME NEW q \in Proposal, IsLawful(q) PROVE IsLawful(q)'
  <2>1. PICK u \in Targets : u = q.target  BY TargetIs
  <2>2. QED  BY <1>2, <1>3, <2>1 DEF IsLawful
<1>4. QED  BY <1>1, <1>2, <1>3

\* A step in which channels grow and ledgers evolve lawfully keeps everything.
LEMMA StepKeeps ==
  ASSUME TypeOK, CopiesInv, ChannelsGrow, LedgersEvolve
  PROVE  Keeps /\ CopiesInv'
<1> DEFINE Made(l, p) == ProposalsOf(ledger[l][p].queue) \cup {q \in Proposal : IsLawful(q)'}
<1>1. ASSUME NEW l \in Ledgers, NEW p \in Parties, NEW q \in Made(l, p)
      PROVE  q \in Proposal /\ IsLawful(q)'
  <2>1. CASE q \in ProposalsOf(ledger[l][p].queue)
    <3>1. q \in Proposal  BY <2>1, TypeIs, CopyIs
    <3>2. IsLawful(q)  BY <2>1 DEF CopiesInv
    <3>3. QED  BY <3>1, <3>2, GrowingKeeps
  <2>2. QED  BY <2>1
<1>2. ASSUME NEW l \in Ledgers, NEW p \in Parties
      PROVE  /\ \A q \in ProposalsOf(ledger'[l][p].queue) : IsLawful(q)'
             /\ \A u \in Targets :
                  /\ CopyIncludes(ledger'[l][p], u) /\ ~ CopyIncludes(ledger[l][p], u)
                       => Agreed(u)'
                  /\ CopyIncludes(ledger[l][p], u) /\ ~ CopyIncludes(ledger'[l][p], u)
                       => IsClosedByAll(u)'
  <2>1. Evolves(ledger[l][p], ledger'[l][p], {q \in Proposal : IsLawful(q)'})
    BY DEF LedgersEvolve
  <2>2. ProposalsOf(ledger'[l][p].queue) \subseteq Made(l, p)
    BY <2>1 DEF Evolves
  <2>3. ASSUME NEW u \in Targets
        PROVE  /\ CopyIncludes(ledger'[l][p], u) /\ ~ CopyIncludes(ledger[l][p], u)
                    => \E q \in Made(l, p) : q.target = u
               /\ CopyIncludes(ledger[l][p], u) /\ ~ CopyIncludes(ledger'[l][p], u)
                    => \E q \in Made(l, p) : q.type = "remove" /\ q.target = u
    BY <2>1 DEF Evolves
  <2>4. ASSUME NEW u \in Targets, NEW q \in Made(l, p), q.target = u
        PROVE  Agreed(u)' /\ (q.type = "remove" => IsClosedByAll(u)')
    <3>1. IsLawful(q)'  BY <1>1
    <3> HIDE DEF Made
    <3>2. QED  BY <2>4, <3>1 DEF IsLawful
  <2> HIDE DEF Made
  <2>5. QED  BY <1>1, <2>2, <2>3, <2>4
<1>3. ASSUME NEW n \in Nodes, NEW v \in Targets, IsKept(n, v) PROVE IsKept(n, v)'
  <2>1. CASE IsClosedByAll(v)  BY <2>1, GrowingKeeps DEF IsKept
  <2>2. CASE \A l \in LedgersOf(n, v) : CopyIncludes(ledger[l][Party(n, l)], v)
    <3>1. \A l \in LedgersOf(n, v) : l \in Ledgers /\ Party(n, l) \in Parties
      BY LedgersOfAre, PartyIs
    <3>2. ASSUME ~ IsClosedByAll(v)', NEW l \in LedgersOf(n, v)
          PROVE  CopyIncludes(ledger'[l][Party(n, l)], v)
      BY <1>2, <2>2, <3>1, <3>2
    <3>3. QED  BY <3>2 DEF IsKept
  <2>3. QED  BY <1>3, <2>1, <2>2 DEF IsKept
<1>4. ASSUME NEW l \in Ledgers, NEW p \in Parties, NEW v \in Targets,
             CopyIncludes(ledger'[l][p], v)
      PROVE  Agreed(v)'
  <2>1. CASE CopyIncludes(ledger[l][p], v)  BY <2>1, GrowingKeeps DEF CopiesInv
  <2>2. QED  BY <1>2, <1>4, <2>1
<1> HIDE DEF Made
<1>5. CopiesInv'  BY <1>2, <1>4 DEF CopiesInv
<1>6. Keeps  BY <1>3, GrowingKeeps DEF Keeps
<1>7. QED  BY <1>5, <1>6

-----------------------------------------------------------------------------
(***************************************************************************)
(* What saving an objective does.                                          *)
(***************************************************************************)

\* A channel with nothing on it that its signers do not have.
Justified(v, c) ==
  /\ \A p \in c.prefund : HasSigned(p, v)
  /\ \A p \in c.postfund : IsKept(p, v)
  /\ c.final # NoFinal => IsSignedFinal(v, c.final)

\* The voucher manager registers channels, and is promised no more than there is.
VouchersStep ==
  /\ vouchers' \in [Nodes -> [Targets -> Nat \cup {NoVoucher}]]
  /\ \A n \in Nodes, v \in Targets :
       /\ vouchers[n][v] # NoVoucher => vouchers'[n][v] # NoVoucher
       /\ vouchers'[n][v] # NoVoucher => vouchers'[n][v] <= Deposit[v].a0

\* Save replaces one objective, its channel, and the node's copies of ledgers.
LEMMA SaveChanges ==
  ASSUME TypeOK, NEW n \in Nodes, NEW k \in Kinds, NEW v \in Targets, NEW o \in Memory,
         Save(n, k, v, o)
  PROVE  /\ objective' \in [Nodes -> [Kinds -> [Targets -> [status : Status, minimum : Nat]]]]
         /\ channel' \in [Nodes -> [Targets -> Channel \cup {NoChannel}]]
         /\ ledger' \in [Ledgers -> [Parties -> Copy]]
         /\ \A m \in Nodes, j \in Kinds, u \in Targets :
              IF m = n /\ j = k /\ u = v
                THEN /\ objective'[m][j][u].status = o.status
                     /\ objective'[m][j][u].minimum = o.minimum
                ELSE objective'[m][j][u] = objective[m][j][u]
         /\ \A m \in Nodes, u \in Targets :
              channel'[m][u] = IF m = n /\ u = v THEN o.channel ELSE channel[m][u]
         /\ Has(n, v)'
         /\ \A l \in Ledgers, p \in Parties :
              ledger'[l][p] = IF Ends[l][p] = n THEN o.copies[l] ELSE ledger[l][p]
<1> DEFINE saved == [status |-> o.status, minimum |-> o.minimum]
<1>1. /\ objective' = [objective EXCEPT ![n][k][v] = saved]
      /\ channel' = [channel EXCEPT ![n][v] = o.channel]
      /\ ledger' = [l \in Ledgers |-> [p \in Parties |->
                      IF Ends[l][p] = n THEN o.copies[l] ELSE ledger[l][p]]]
  BY DEF Save
<1>2. /\ saved \in [status : Status, minimum : Nat]
      /\ saved.status = o.status /\ saved.minimum = o.minimum
      /\ o.channel \in Channel /\ o.copies \in [Ledgers -> Copy]
  BY MemoryIs
<1> HIDE DEF saved
<1>3. /\ objective' \in [Nodes -> [Kinds -> [Targets -> [status : Status, minimum : Nat]]]]
      /\ \A m \in Nodes, j \in Kinds, u \in Targets :
           objective'[m][j][u] = IF m = n /\ j = k /\ u = v THEN saved
                                                            ELSE objective[m][j][u]
  BY <1>1, <1>2 DEF TypeOK
<1>4. /\ channel' \in [Nodes -> [Targets -> Channel \cup {NoChannel}]]
      /\ \A m \in Nodes, u \in Targets :
           channel'[m][u] = IF m = n /\ u = v THEN o.channel ELSE channel[m][u]
  BY <1>1, <1>2 DEF TypeOK
<1>5. /\ ledger' \in [Ledgers -> [Parties -> Copy]]
      /\ \A l \in Ledgers, p \in Parties :
           ledger'[l][p] = IF Ends[l][p] = n THEN o.copies[l] ELSE ledger[l][p]
  <2>1. \A l \in Ledgers, p \in Parties : ledger[l][p] \in Copy  BY TypeIs
  <2>2. QED  BY <1>1, <1>2, <2>1
<1>6. Has(n, v)'  BY <1>2, <1>4, NoChannelAssumption DEF Has
<1>7. QED  BY <1>2, <1>3, <1>4, <1>5, <1>6

\* A leader's latest state, for a queue that is its own proposals.
LEMMA SavedIsSigned ==
  ASSUME TypeOK, NEW n \in Nodes, NEW k \in Kinds, NEW v \in Targets, NEW o,
         o.copies \in [Ledgers -> Copy], LeadsChains(n, o), Save(n, k, v, o)
  PROVE  signed' \in [Ledgers -> SUBSET Vars]
<1>1. ASSUME NEW l \in Ledgers, Ends[l][Leader] = n
      PROVE  Latest(o.copies[l]) \in Vars
  <2>1. PICK copy \in Copy : copy = o.copies[l]  OBVIOUS
  <2>2. Chain(copy.current, copy.queue)  BY <1>1, <2>1 DEF LeadsChains
  <2>3. QED  BY <2>1, <2>2, CopyIs, ChainLatest DEF Latest
<1>2. signed' = [l \in Ledgers |->
                   IF Ends[l][Leader] = n THEN signed[l] \cup {Latest(o.copies[l])}
                                          ELSE signed[l]]
  BY DEF Save
<1>3. signed \in [Ledgers -> SUBSET Vars]  BY DEF TypeOK
<1>4. QED  BY <1>1, <1>2, <1>3

\* The channels grow when the one that is saved does.
LEMMA SaveGrows ==
  ASSUME TypeOK, NEW n \in Nodes, NEW k \in Kinds, NEW v \in Targets, NEW o \in Memory,
         Save(n, k, v, o), Has(n, v) => Grows(channel[n][v], o.channel)
  PROVE  ChannelsGrow
<1>1. \A m \in Nodes, u \in Targets :
        channel'[m][u] = IF m = n /\ u = v THEN o.channel ELSE channel[m][u]
  BY SaveChanges
<1>2. Has(n, v)'  BY SaveChanges
<1>3. ASSUME NEW m \in Nodes, NEW u \in Targets, Has(m, u)
      PROVE  Has(m, u)' /\ Grows(channel[m][u], channel'[m][u])
  <2>1. CASE m = n /\ u = v  BY <1>1, <1>2, <1>3, <2>1
  <2>2. CASE ~ (m = n /\ u = v)  BY <1>1, <1>3, <2>2 DEF Has, Grows
  <2>3. QED  BY <2>1, <2>2
<1>4. QED  BY <1>3 DEF ChannelsGrow

\* The ledgers evolve when the copies that are saved do.
LEMMA SaveEvolves ==
  ASSUME TypeOK, NEW n \in Nodes, NEW k \in Kinds, NEW v \in Targets, NEW o \in Memory,
         Save(n, k, v, o),
         \A l \in Ledgers : Evolves(ledger[l][Party(n, l)], o.copies[l],
                                    {q \in Proposal : IsLawful(q)'})
  PROVE  LedgersEvolve
<1>1. ASSUME NEW l \in Ledgers, NEW p \in Parties
      PROVE  Evolves(ledger[l][p], ledger'[l][p], {q \in Proposal : IsLawful(q)'})
  <2>1. CASE Ends[l][p] = n
    <3>1. p = Party(n, l) /\ ledger'[l][p] = o.copies[l]
      BY <2>1, SaveChanges, PartyIs
    <3>2. QED  BY <3>1
  <2>2. CASE Ends[l][p] # n
    <3>1. ledger'[l][p] = ledger[l][p] /\ ledger[l][p] \in Copy
      BY <2>2, SaveChanges, TypeIs
    <3>2. QED  BY <3>1, EvolvesByNothing
  <2>3. QED  BY <2>1, <2>2
<1>2. QED  BY <1>1 DEF LedgersEvolve

\* Saving what is justified keeps what is said of the stores.
LEMMA SaveKeeps ==
  ASSUME FundingInv, NEW n \in Nodes, NEW k \in Kinds, NEW v \in Targets, NEW o \in Memory,
         Save(n, k, v, o), o.status # "unknown", o.minimum <= Deposit[v].a0,
         NEW c, c = o.channel, Justified(v, c)', Keeps,
         LeadsChains(n, o), VouchersStep, vouchers'[n][v] # NoVoucher
  PROVE  KnownInv' /\ BoundedInv' /\ SignaturesInv' /\ LeaderInv'
<1>1. TypeOK /\ KnownInv /\ BoundedInv /\ SignaturesInv /\ LeaderInv
  BY DEF FundingInv
<1>2. /\ \A m \in Nodes, j \in Kinds, u \in Targets :
           IF m = n /\ j = k /\ u = v
             THEN /\ objective'[m][j][u].status = o.status
                  /\ objective'[m][j][u].minimum = o.minimum
             ELSE objective'[m][j][u] = objective[m][j][u]
      /\ \A m \in Nodes, u \in Targets :
           channel'[m][u] = IF m = n /\ u = v THEN o.channel ELSE channel[m][u]
      /\ Has(n, v)'
      /\ \A l \in Ledgers, p \in Parties :
           ledger'[l][p] = IF Ends[l][p] = n THEN o.copies[l] ELSE ledger[l][p]
  BY <1>1, SaveChanges
<1>3. KnownInv'
  <2>1. ASSUME NEW m \in Nodes, NEW u \in Targets, NEW j \in Kinds
        PROVE  IF objective'[m][j][u].status = "unknown" THEN objective'[m][j][u] = Unknown
                                                         ELSE Has(m, u)'
    <3>1. CASE m = n /\ j = k /\ u = v  BY <1>2, <3>1
    <3>2. CASE ~ (m = n /\ j = k /\ u = v)
      <4>1. objective'[m][j][u] = objective[m][j][u]  BY <1>2, <3>2
      <4>2. IF objective[m][j][u].status = "unknown" THEN objective[m][j][u] = Unknown
                                                     ELSE Has(m, u)
        BY <1>1 DEF KnownInv
      <4>3. QED  BY <4>1, <4>2 DEF Keeps
    <3>3. QED  BY <3>1, <3>2
  <2>2. ASSUME NEW m \in Nodes, NEW u \in Targets, Has(m, u)'
        PROVE  vouchers'[m][u] # NoVoucher
    <3>1. CASE m = n /\ u = v  BY <3>1
    <3>2. CASE ~ (m = n /\ u = v)
      <4>1. Has(m, u)  BY <1>2, <2>2, <3>2 DEF Has
      <4>2. QED  BY <1>1, <4>1 DEF KnownInv, VouchersStep
    <3>3. QED  BY <3>1, <3>2
  <2>3. QED  BY <2>1, <2>2 DEF KnownInv
<1>4. BoundedInv'
  <2>1. ASSUME NEW m \in Nodes, NEW u \in Targets PROVE Paid(m, u)' <= Deposit[u].a0
    BY ExpectedProposals DEF VouchersStep, Paid
  <2>2. ASSUME NEW m \in Nodes, NEW u \in Targets, NEW j \in Kinds
        PROVE  objective'[m][j][u].minimum <= Deposit[u].a0
    BY <1>1, <1>2 DEF BoundedInv
  <2>3. QED  BY <2>1, <2>2 DEF BoundedInv
<1>5. SignaturesInv'
  <2>1. ASSUME NEW m \in Nodes, NEW u \in Targets, Has(m, u)', NEW d, d = channel'[m][u]
        PROVE  Justified(u, d)'
    <3>1. CASE m = n /\ u = v  BY <1>2, <2>1, <3>1
    <3>2. CASE ~ (m = n /\ u = v)
      <4>1. d = channel[m][u] /\ Has(m, u)  BY <1>2, <2>1, <3>2 DEF Has
      <4>2. /\ \A p \in d.prefund : HasSigned(p, u)
            /\ \A p \in d.postfund : IsKept(p, u)
            /\ d.final # NoFinal => IsSignedFinal(u, d.final)
        BY <1>1, <4>1 DEF SignaturesInv
      <4>3. PICK prefund \in SUBSET Nodes, postfund \in SUBSET Nodes,
                 final \in FinalState \cup {NoFinal} :
              d = [prefund |-> prefund, postfund |-> postfund, final |-> final]
        BY <1>1, <4>1, TypeIs DEF Channel
      <4>4. /\ \A p \in prefund : HasSigned(p, u)'
            /\ \A p \in postfund : IsKept(p, u)'
            /\ final # NoFinal => IsSignedFinal(u, final)'
        BY <4>2, <4>3 DEF Keeps
      <4>5. QED  BY <4>3, <4>4 DEF Justified
    <3>3. QED  BY <3>1, <3>2
  <2>2. QED  BY <2>1 DEF SignaturesInv, Justified
<1>6. LeaderInv'
  <2>1. ASSUME NEW l \in Ledgers
        PROVE  Chain(ledger'[l][Leader].current, ledger'[l][Leader].queue)
    <3>1. CASE Ends[l][Leader] = n
      <4>1. ledger'[l][Leader] = o.copies[l]  BY <1>2, <3>1, TwoParties
      <4>2. QED  BY <3>1, <4>1 DEF LeadsChains
    <3>2. CASE Ends[l][Leader] # n
      BY <1>1, <1>2, <3>2, TwoParties DEF LeaderInv
    <3>3. QED  BY <3>1, <3>2
  <2>2. QED  BY <2>1 DEF LeaderInv
<1>7. QED  BY <1>3, <1>4, <1>5, <1>6

-----------------------------------------------------------------------------
(***************************************************************************)
(* Objectives in memory, and what cranking and saving them keeps.          *)
(***************************************************************************)

\* An objective in memory that knows no more than its node was told.
Ready(n, v, o) ==
  /\ o \in Memory /\ o.minimum <= Deposit[v].a0
  /\ Has(n, v) => Grows(channel[n][v], o.channel)
  /\ Justified(v, o.channel)
  /\ \A l \in Ledgers : Evolves(ledger[l][Party(n, l)], o.copies[l],
                                {q \in Proposal : IsLawful(q)})
  /\ LeadsChains(n, o)

\* What grows twice grows.
LEMMA GrowsTwice ==
  ASSUME NEW a, NEW b, NEW c, Grows(a, b), Grows(b, c)
  PROVE  Grows(a, c)
BY DEF Grows

\* What is justified remains so.
LEMMA JustifiedStays ==
  ASSUME Keeps, NEW v \in Targets, NEW c \in Channel, Justified(v, c)
  PROVE  Justified(v, c)'
<1>1. PICK prefund \in SUBSET Nodes, postfund \in SUBSET Nodes,
           final \in FinalState \cup {NoFinal} :
        c = [prefund |-> prefund, postfund |-> postfund, final |-> final]
  BY DEF Channel
<1>2. /\ \A p \in prefund : HasSigned(p, v)
      /\ \A p \in postfund : IsKept(p, v)
      /\ final # NoFinal => IsSignedFinal(v, final)
  BY <1>1 DEF Justified
<1>3. /\ \A p \in prefund : HasSigned(p, v)'
      /\ \A p \in postfund : IsKept(p, v)'
      /\ final # NoFinal => IsSignedFinal(v, final)'
  BY <1>2 DEF Keeps
<1>4. QED  BY <1>1, <1>3 DEF Justified

\* The copies of an objective in memory have, and propose, only what is lawful.
LEMMA ReadyCopies ==
  ASSUME FundingInv, NEW n \in Nodes, NEW v \in Targets, NEW o, Ready(n, v, o),
         NEW l \in Ledgers
  PROVE  /\ \A q \in ProposalsOf(o.copies[l].queue) : q \in Proposal /\ IsLawful(q)
         /\ \A u \in Targets : CopyIncludes(o.copies[l], u) => Agreed(u)
<1> DEFINE copy == ledger[l][Party(n, l)]
           made == ProposalsOf(copy.queue) \cup {q \in Proposal : IsLawful(q)}
<1>1. Party(n, l) \in Parties  BY PartyIs
<1>2. copy \in Copy /\ CopiesInv  BY <1>1, TypeIs DEF FundingInv
<1>3. \A q \in made : q \in Proposal /\ IsLawful(q)
  BY <1>1, <1>2, CopyIs DEF CopiesInv
<1>4. Evolves(copy, o.copies[l], {q \in Proposal : IsLawful(q)})  BY DEF Ready
<1>5. \A u \in Targets : CopyIncludes(copy, u) => Agreed(u)
  BY <1>1, <1>2 DEF CopiesInv
<1>6. /\ ProposalsOf(o.copies[l].queue) \subseteq made
      /\ \A u \in Targets : CopyIncludes(o.copies[l], u) /\ ~ CopyIncludes(copy, u)
                              => \E q \in made : q.target = u
  BY <1>4 DEF Evolves
<1> HIDE DEF made, copy
<1>7. QED  BY <1>3, <1>5, <1>6 DEF IsLawful

\* What a crank proposes is lawful once its result is saved.
LEMMA ProposedIsLawful ==
  ASSUME FundingInv, NEW n \in Nodes, NEW k \in Kinds, NEW v \in Targets,
         NEW o, Ready(n, v, o), NEW r, IsCrank(n, v, o, r), Save(n, k, v, r.o),
         NEW q \in MayPropose(n, v, o, r.o.channel)
  PROVE  ChannelsGrow /\ IsLawful(q)'
<1> DEFINE c1 == o.channel
           c2 == r.o.channel
<1>1. /\ TypeOK /\ o \in Memory /\ r.o \in Memory /\ o.minimum <= Deposit[v].a0
      /\ Has(n, v) => Grows(channel[n][v], c1)
      /\ Justified(v, c1)
      /\ Grows(c1, c2)
      /\ c2.prefund \subseteq c1.prefund \cup {n}
      /\ c2.final # NoFinal =>
           IF c1.final = NoFinal THEN c2.final = [paid |-> o.minimum, signed |-> {n}]
                                 ELSE c2.final.signed \subseteq c1.final.signed \cup {n}
  BY DEF FundingInv, Ready, IsCrank
<1>2. ChannelsGrow
  <2>1. Has(n, v) => Grows(channel[n][v], c2)  BY <1>1, GrowsTwice
  <2>2. QED  BY <1>1, <2>1, SaveGrows
<1>3. channel'[n][v] = c2 /\ Has(n, v)'  BY <1>1, SaveChanges
<1>4. /\ c1.prefund \subseteq Nodes /\ c2.prefund \subseteq Nodes
      /\ c1.final \in FinalState \cup {NoFinal}
      /\ c2.final \in FinalState \cup {NoFinal}
      /\ o.minimum \in Nat
  BY <1>1, MemoryIs
<1>5. /\ q \in Proposal /\ q.target = v
      /\ \/ q.type = "add" /\ c2.prefund = Participants(v)
         \/ /\ q.type = "remove"
            /\ c2.final # NoFinal /\ c2.final.signed = Participants(v)
            /\ \E l \in LedgersOf(n, v) : CopyIncludes(o.copies[l], v)
  BY DEF MayPropose
<1> HIDE DEF c1, c2
<1>6. CASE q.type = "add" /\ c2.prefund = Participants(v)
  <2>1. ASSUME NEW p \in Participants(v) PROVE HasSigned(p, v)'
    <3>1. CASE p = n  BY <1>3, <1>6, <3>1 DEF HasSigned
    <3>2. CASE p # n
      <4>1. p \in c1.prefund /\ p \in Nodes  BY <1>1, <1>4, <1>6, <3>2
      <4>2. HasSigned(p, v)  BY <1>1, <4>1 DEF Justified
      <4>3. QED  BY <1>2, <4>1, <4>2, GrowingKeeps
    <3>3. QED  BY <3>1, <3>2
  <2>2. Agreed(v)'  BY <2>1 DEF Agreed
  <2>3. QED  BY <1>2, <1>5, <1>6, <2>2 DEF IsLawful
<1>7. CASE /\ q.type = "remove"
           /\ c2.final # NoFinal /\ c2.final.signed = Participants(v)
           /\ \E l \in LedgersOf(n, v) : CopyIncludes(o.copies[l], v)
  <2>1. Agreed(v)'
    <3>1. Agreed(v)  BY <1>7, LedgersOfAre, ReadyCopies
    <3>2. QED  BY <1>2, <3>1, GrowingKeeps
  <2>2. PICK paid \in Nat : paid = c2.final.paid  BY <1>4, <1>7 DEF FinalState
  <2>3. paid \in 0..Deposit[v].a0
    <3>1. CASE c1.final = NoFinal  BY <1>1, <1>7, <2>2, <3>1, ExpectedProposals
    <3>2. CASE c1.final # NoFinal
      <4>1. c1.final.paid <= Deposit[v].a0 /\ c1.final.paid = paid
        BY <1>1, <2>2, <3>2 DEF Justified, IsSignedFinal, Grows
      <4>2. QED  BY <2>2, <4>1, ExpectedProposals
    <3>3. QED  BY <3>1, <3>2
  <2>4. ASSUME NEW p \in Participants(v) PROVE HasClosed(p, v, paid)'
    <3>1. CASE p = n  BY <1>3, <1>7, <2>2, <3>1 DEF HasClosed
    <3>2. CASE p # n
      <4>1. c1.final # NoFinal  BY <1>1, <1>7, <3>2
      <4>2. c1.final.paid = paid /\ p \in c1.final.signed /\ p \in Nodes
        BY <1>1, <1>4, <1>7, <2>2, <3>2, <4>1, PathIs DEF Grows
      <4>3. HasClosed(p, v, paid)
        BY <1>1, <4>1, <4>2 DEF Justified, IsSignedFinal
      <4>4. QED  BY <1>2, <4>2, <4>3, GrowingKeeps
    <3>3. QED  BY <3>1, <3>2
  <2>5. IsClosedByAll(v)'  BY <2>3, <2>4 DEF IsClosedByAll
  <2>6. QED  BY <1>2, <1>5, <2>1, <2>5 DEF IsLawful
<1>8. QED  BY <1>5, <1>6, <1>7

\* A crank that is saved keeps everything, and has nothing on its channel that
\* is not justified.
LEMMA CrankKeeps ==
  ASSUME FundingInv, NEW n \in Nodes, NEW k \in Kinds, NEW v \in Targets,
         NEW o, Ready(n, v, o), NEW r, IsCrank(n, v, o, r), Save(n, k, v, r.o),
         NEW c, c = r.o.channel
  PROVE  /\ Keeps /\ CopiesInv' /\ Justified(v, c)'
         /\ ledger' \in [Ledgers -> [Parties -> Copy]]
         /\ c \in Channel /\ channel'[n][v] = c /\ Has(n, v)'
         /\ \A q \in MayPropose(n, v, o, c) : IsLawful(q)'
<1> DEFINE c1 == o.channel
           S  == MayPropose(n, v, o, c)
           lawful == {q \in Proposal : IsLawful(q)'}
<1>1. /\ TypeOK /\ CopiesInv /\ o \in Memory /\ r.o \in Memory
      /\ o.minimum <= Deposit[v].a0
      /\ Justified(v, c1)
      /\ Grows(c1, c)
      /\ c.prefund \subseteq c1.prefund \cup {n}
      /\ c.postfund \subseteq c1.postfund \cup {n}
      /\ n \in c.postfund \ c1.postfund =>
           \A l \in LedgersOf(n, v) : CopyIncludes(r.o.copies[l], v)
      /\ c.final # NoFinal =>
           IF c1.final = NoFinal THEN c.final = [paid |-> o.minimum, signed |-> {n}]
                                 ELSE c.final.signed \subseteq c1.final.signed \cup {n}
  BY DEF FundingInv, Ready, IsCrank
<1>2. /\ channel'[n][v] = c /\ Has(n, v)' /\ c \in Channel
      /\ ledger' \in [Ledgers -> [Parties -> Copy]]
      /\ \A l \in Ledgers, p \in Parties :
           ledger'[l][p] = IF Ends[l][p] = n THEN r.o.copies[l] ELSE ledger[l][p]
  <2>1. PICK new \in Memory : new = r.o  BY <1>1
  <2>2. Save(n, k, v, new) /\ c = new.channel  BY <2>1
  <2>3. /\ \A m \in Nodes, u \in Targets :
             channel'[m][u] = IF m = n /\ u = v THEN c ELSE channel[m][u]
        /\ Has(n, v)'
        /\ ledger' \in [Ledgers -> [Parties -> Copy]]
        /\ \A l \in Ledgers, p \in Parties :
             ledger'[l][p] = IF Ends[l][p] = n THEN new.copies[l] ELSE ledger[l][p]
    BY <1>1, <2>2, SaveChanges
  <2>4. c \in Channel  BY <2>2, MemoryIs
  <2>5. QED  BY <2>1, <2>3, <2>4
<1>3. ChannelsGrow
  <2>1. Has(n, v) => Grows(channel[n][v], c)  BY <1>1, GrowsTwice DEF Ready
  <2>2. QED  BY <1>1, <2>1, SaveGrows
<1>4. S \subseteq lawful  BY ProposedIsLawful DEF MayPropose
<1>5. {q \in Proposal : IsLawful(q)} \subseteq lawful  BY <1>3, GrowingKeeps
<1>6. LedgersEvolve
  <2>1. ASSUME NEW l \in Ledgers
        PROVE  Evolves(ledger[l][Party(n, l)], r.o.copies[l], lawful)
    <3>1. Evolves(ledger[l][Party(n, l)], o.copies[l], {q \in Proposal : IsLawful(q)})
      BY DEF Ready
    <3>2. Evolves(ledger[l][Party(n, l)], o.copies[l], lawful)
      <4> HIDE DEF lawful
      <4>1. QED  BY <1>5, <3>1 DEF Evolves
    <3>3. Evolves(o.copies[l], r.o.copies[l], S)  BY DEF IsCrank
    <3> HIDE DEF lawful, S
    <3>4. QED  BY <1>4, <3>2, <3>3, EvolvesTwice
  <2>2. QED  BY <1>1, <2>1, SaveEvolves
<1>7. Keeps /\ CopiesInv'  BY <1>1, <1>3, <1>6, StepKeeps
<1>8. Justified(v, c1)'  BY <1>1, <1>7, JustifiedStays, MemoryIs
<1>9. /\ c1.prefund \subseteq Nodes /\ c1.postfund \subseteq Nodes
      /\ c1.final \in FinalState \cup {NoFinal}
      /\ c.final \in FinalState \cup {NoFinal}
      /\ o.minimum \in Nat
  BY <1>1, MemoryIs
<1> HIDE DEF c1
<1>10. \A p \in c.prefund : HasSigned(p, v)'
  <2>1. ASSUME NEW p \in c.prefund PROVE HasSigned(p, v)'
    <3>1. CASE p = n  BY <1>2, <3>1 DEF HasSigned
    <3>2. CASE p # n  BY <1>1, <1>8, <3>2 DEF Justified
    <3>3. QED  BY <3>1, <3>2
  <2>2. QED  BY <2>1
<1>11. \A p \in c.postfund : IsKept(p, v)'
  <2>1. ASSUME NEW p \in c.postfund PROVE IsKept(p, v)'
    <3>1. CASE p \in c1.postfund  BY <1>8, <3>1 DEF Justified
    <3>2. CASE p \notin c1.postfund
      <4>1. p = n /\ \A l \in LedgersOf(n, v) : CopyIncludes(r.o.copies[l], v)
        BY <1>1, <3>2
      <4>2. \A l \in LedgersOf(n, v) : ledger'[l][Party(n, l)] = r.o.copies[l]
        BY <1>2, LedgersOfAre, PartyIs
      <4>3. QED  BY <4>1, <4>2 DEF IsKept
    <3>3. QED  BY <3>1, <3>2
  <2>2. QED  BY <2>1
<1>12. ASSUME c.final # NoFinal, NEW final, final = c.final PROVE IsSignedFinal(v, final)'
  <2>1. PICK paid \in Nat, signed_ \in SUBSET Nodes :
          final = [paid |-> paid, signed |-> signed_]
    BY <1>9, <1>12 DEF FinalState
  <2>2. final.paid = paid /\ final.signed = signed_  BY <2>1
  <2>3. paid <= Deposit[v].a0
    <3>1. CASE c1.final = NoFinal  BY <1>1, <1>12, <2>2, <3>1
    <3>2. CASE c1.final # NoFinal
      BY <1>1, <1>12, <2>2, <3>2 DEF Justified, IsSignedFinal, Grows
    <3>3. QED  BY <3>1, <3>2
  <2>4. ASSUME NEW p \in signed_ PROVE HasClosed(p, v, paid)'
    <3>1. CASE p = n  BY <1>2, <1>12, <2>2, <3>1 DEF HasClosed
    <3>2. CASE p # n
      <4>1. c1.final # NoFinal  BY <1>1, <1>12, <2>2, <3>2
      <4>2. c1.final.paid = paid /\ p \in c1.final.signed
        BY <1>1, <1>12, <2>2, <3>2, <4>1 DEF Grows
      <4>3. PICK f : f = c1.final  OBVIOUS
      <4>4. HasClosed(p, v, paid)
        BY <1>1, <4>1, <4>2 DEF Justified, IsSignedFinal
      <4>5. QED  BY <1>7, <4>4 DEF Keeps
    <3>3. QED  BY <3>1, <3>2
  <2>5. QED  BY <2>1, <2>2, <2>3, <2>4 DEF IsSignedFinal
<1>13. Justified(v, c)'  BY <1>10, <1>11, <1>12 DEF Justified
<1> HIDE DEF S
<1>14. QED  BY <1>2, <1>4, <1>7, <1>13 DEF S

\* The messages of a crank that is saved are true.
LEMMA CrankIsTrue ==
  ASSUME FundingInv, NEW n \in Nodes, NEW k \in Kinds, NEW v \in Targets,
         NEW o, Ready(n, v, o), NEW r, IsCrank(n, v, o, r), Save(n, k, v, r.o),
         NEW m \in r.messages
  PROVE  m \in Payloads \cup Proposals /\ IsTrue(m)'
<1> DEFINE c == r.o.channel
           S == MayPropose(n, v, o, c)
<1>1. /\ Keeps /\ Justified(v, c)' /\ c \in Channel
      /\ channel'[n][v] = c /\ Has(n, v)'
      /\ \A q \in S : IsLawful(q)'
  BY CrankKeeps
<1>2. \/ SaysOf(n, v, c, m)
      \/ /\ m \in Proposals
         /\ \E l \in LedgersOf(n, v) :
              ProposalsOf(m.proposals) \subseteq ProposalsOf(o.copies[l].queue) \cup S
  BY DEF IsCrank
<1> HIDE DEF c
<1>3. CASE SaysOf(n, v, c, m)
  <2>1. /\ m \in Payloads /\ m.v = v /\ m.from = n
        /\ m.type = "prefund" => n \in c.prefund
        /\ m.type = "postfund" => n \in c.postfund
        /\ m.type = "final" => c.final # NoFinal /\ m.paid = c.final.paid
                                                 /\ n \in c.final.signed
        /\ m.type # "final" => m.paid = 0
    BY <1>3 DEF SaysOf
  <2>2. m.paid <= Deposit[v].a0
    BY <1>1, <2>1, ExpectedProposals DEF Justified, IsSignedFinal
  <2>3. m.type = "prefund" => HasSigned(n, v)'  BY <1>1, <2>1 DEF HasSigned
  <2>4. m.type = "postfund" => IsKept(n, v)'  BY <1>1, <2>1 DEF Justified
  <2>5. ASSUME m.type = "final", NEW paid, paid = m.paid PROVE HasClosed(n, v, paid)'
    BY <1>1, <2>1, <2>5 DEF HasClosed
  <2>6. m.type # "proposals"  BY <2>1 DEF Payloads
  <2>7. QED  BY <2>1, <2>2, <2>3, <2>4, <2>5, <2>6 DEF IsTrue
<1>4. CASE /\ m \in Proposals
           /\ \E l \in LedgersOf(n, v) :
                ProposalsOf(m.proposals) \subseteq ProposalsOf(o.copies[l].queue) \cup S
  <2>1. PICK l \in Ledgers :
          ProposalsOf(m.proposals) \subseteq ProposalsOf(o.copies[l].queue) \cup S
    BY <1>4, LedgersOfAre
  <2>2. \A q \in ProposalsOf(o.copies[l].queue) : q \in Proposal /\ IsLawful(q)
    BY ReadyCopies
  <2>3. \A q \in ProposalsOf(m.proposals) : IsLawful(q)'
    BY <1>1, <2>1, <2>2 DEF Keeps
  <2>4. m.type = "proposals" /\ m \notin Payloads
    BY <1>4 DEF Proposals, Payloads
  <2>5. QED  BY <1>4, <2>3, <2>4 DEF IsTrue
<1>5. QED  BY <1>2, <1>3, <1>4

-----------------------------------------------------------------------------
(***************************************************************************)
(* Messages, inboxes and the ends of turns.                                *)
(***************************************************************************)

\* What a message says remains true.
LEMMA TrueStays ==
  ASSUME Keeps, NEW m \in Payloads \cup Rejections \cup Proposals, IsTrue(m)
  PROVE  IsTrue(m)'
<1>1. CASE m \in Payloads
  <2>1. PICK type \in {"prefund", "postfund", "request", "final", "voucher"},
             v \in Targets, from \in Nodes, to \in Nodes, paid \in Nat :
          m = [type |-> type, v |-> v, from |-> from, to |-> to, paid |-> paid]
    BY <1>1 DEF Payloads
  <2>2. m.type = type /\ m.v = v /\ m.from = from /\ m.paid = paid  BY <2>1
  <2>3. /\ type = "prefund" => HasSigned(from, v)
        /\ type = "postfund" => IsKept(from, v)
        /\ type = "final" => HasClosed(from, v, paid)
        /\ paid <= Deposit[v].a0
    BY <1>1, <2>2 DEF IsTrue
  <2>4. /\ type = "prefund" => HasSigned(from, v)'
        /\ type = "postfund" => IsKept(from, v)'
        /\ type = "final" => HasClosed(from, v, paid)'
    BY <2>3 DEF Keeps
  <2>5. type # "proposals"  OBVIOUS
  <2>6. QED  BY <2>2, <2>3, <2>4, <2>5 DEF IsTrue
<1>2. CASE m \in Rejections  BY <1>2 DEF IsTrue, Rejections, Payloads
<1>3. CASE m \in Proposals
  <2>1. PICK queue \in Seq(SignedProposal) : queue = m.proposals
    BY <1>3 DEF Proposals
  <2>2. m.type = "proposals" /\ m \notin Payloads
    BY <1>3 DEF Proposals, Payloads
  <2>3. ASSUME NEW q \in ProposalsOf(queue) PROVE IsLawful(q)'
    <3>1. PICK i \in 1..Len(queue) : q = queue[i].proposal  BY DEF ProposalsOf
    <3>2. queue[i] \in SignedProposal  OBVIOUS
    <3>3. q \in Proposal  BY <3>1, <3>2 DEF SignedProposal
    <3>4. IsLawful(q)  BY <2>1, <2>2 DEF IsTrue
    <3>5. QED  BY <3>3, <3>4 DEF Keeps
  <2>4. QED  BY <2>1, <2>2, <2>3 DEF IsTrue
<1>4. QED  BY <1>1, <1>2, <1>3

\* What is left to a node when it has taken up an event.
IsLeft(left) ==
  /\ left.inbox \in Seq([ledger : Ledgers, sp : SignedProposal])
  /\ \A i \in 1..Len(left.inbox) : IsLawful(left.inbox[i].sp.proposal)
  /\ left.toProcess \in Seq(Proposal)
  /\ left.network \subseteq network

\* What a node has before it takes up an event.
LEMMA LeftIs ==
  ASSUME FundingInv, NEW n \in Nodes
  PROVE  /\ IsLeft(Left(n))
         /\ Left(n).inbox = inbox[n]
         /\ Left(n).toProcess = toProcess[n]
         /\ Left(n).network = network
<1>1. TypeOK /\ InboxInv  BY DEF FundingInv
<1>2. /\ inbox[n] \in Seq([ledger : Ledgers, sp : SignedProposal])
      /\ toProcess[n] \in Seq(Proposal)
  BY <1>1 DEF TypeOK
<1>3. QED  BY <1>1, <1>2 DEF IsLeft, Left, InboxInv

\* What is left when a message is taken up.
LEMMA AfterTakingIs ==
  ASSUME FundingInv, NEW m \in network, NEW left \in AfterTaking(m)
  PROVE  /\ IsLeft(left) /\ Idle(m.to) /\ m.to \in Nodes
         /\ left = [inbox |-> inbox[m.to], toProcess |-> toProcess[m.to],
                    network |-> left.network]
<1>1. m.to \in Nodes  BY DEF FundingInv, TypeOK, Payloads, Rejections, Proposals
<1>2. Idle(m.to) /\ left \in {Left(m.to), [Left(m.to) EXCEPT !.network = @ \ {m}]}
  BY DEF AfterTaking
<1>3. /\ IsLeft(Left(m.to))
      /\ Left(m.to) = [inbox |-> inbox[m.to], toProcess |-> toProcess[m.to],
                       network |-> network]
  BY <1>1, LeftIs DEF Left
<1>4. [Left(m.to) EXCEPT !.network = @ \ {m}]
        = [inbox |-> inbox[m.to], toProcess |-> toProcess[m.to], network |-> network \ {m}]
  BY <1>3
<1>5. IsLeft([Left(m.to) EXCEPT !.network = @ \ {m}])  BY <1>3, <1>4 DEF IsLeft
<1>6. left = [inbox |-> inbox[m.to], toProcess |-> toProcess[m.to],
              network |-> left.network]
  BY <1>2, <1>3, <1>4
<1>7. QED  BY <1>1, <1>2, <1>3, <1>5, <1>6

\* The run loop goes on: what is left, and what the step made, is as it should be.
LEMMA GoOnKeeps ==
  ASSUME FundingInv, Keeps, NEW n \in Nodes, NEW left, IsLeft(left),
         NEW messages, messages \subseteq Payloads \cup Rejections \cup Proposals,
         \A m \in messages : IsTrue(m)',
         NEW heads \in Seq(Proposal), GoOn(n, left, messages, heads)
  PROVE  /\ inbox' \in [Nodes -> Seq([ledger : Ledgers, sp : SignedProposal])]
         /\ toProcess' \in [Nodes -> Seq(Proposal)]
         /\ engine' \in [Nodes -> Errors \cup {"running"}]
         /\ network' \subseteq Payloads \cup Rejections \cup Proposals
         /\ InboxInv' /\ MessagesInv'
<1>1. TypeOK /\ InboxInv /\ MessagesInv  BY DEF FundingInv
<1>2. /\ inbox' = [inbox EXCEPT ![n] = left.inbox]
      /\ toProcess' = [toProcess EXCEPT ![n] = left.toProcess \o heads]
      /\ network' = left.network \cup messages
      /\ engine' = engine
  BY DEF GoOn
<1>3. left.toProcess \o heads \in Seq(Proposal)  BY ConcatProperties DEF IsLeft
<1>4. /\ inbox \in [Nodes -> Seq([ledger : Ledgers, sp : SignedProposal])]
      /\ toProcess \in [Nodes -> Seq(Proposal)]
      /\ engine \in [Nodes -> Errors \cup {"running"}]
      /\ network \subseteq Payloads \cup Rejections \cup Proposals
  BY <1>1 DEF TypeOK
<1>5. inbox' \in [Nodes -> Seq([ledger : Ledgers, sp : SignedProposal])]
  BY <1>2, <1>4 DEF IsLeft
<1>6. toProcess' \in [Nodes -> Seq(Proposal)]  BY <1>2, <1>3, <1>4
<1>7. network' \subseteq Payloads \cup Rejections \cup Proposals
  BY <1>2, <1>4 DEF IsLeft
<1>8. ASSUME NEW k \in Nodes, NEW i \in 1..Len(inbox'[k]), NEW e, e = inbox'[k][i],
             NEW q, q = e.sp.proposal
      PROVE  IsLawful(q)'
  <2>1. e \in [ledger : Ledgers, sp : SignedProposal]
    <3> DEFINE Entry == [ledger : Ledgers, sp : SignedProposal]
    <3>1. inbox' \in [Nodes -> Seq(Entry)]  BY <1>5
    <3> HIDE DEF Entry
    <3>2. inbox'[k] \in Seq(Entry)  BY <3>1
    <3>3. e \in Entry  BY <1>8, <3>2
    <3>4. QED  BY <3>3 DEF Entry
  <2>2. q \in Proposal  BY <1>8, <2>1 DEF SignedProposal
  <2>3. IsLawful(q)  BY <1>1, <1>2, <1>4, <1>8 DEF IsLeft, InboxInv
  <2>4. QED  BY <2>2, <2>3 DEF Keeps
<1>9. InboxInv'  BY <1>8 DEF InboxInv
<1>10. ASSUME NEW m \in network' PROVE IsTrue(m)'
  <2>1. CASE m \in messages  BY <2>1
  <2>2. CASE m \in network  BY <1>1, <1>4, <2>2, TrueStays DEF MessagesInv
  <2>3. QED  BY <1>2, <2>1, <2>2 DEF IsLeft
<1>11. MessagesInv'  BY <1>10 DEF MessagesInv
<1>12. QED  BY <1>2, <1>4, <1>5, <1>6, <1>7, <1>9, <1>11

\* The run loop ends, or starts again: what it had taken up is dropped.
LEMMA StopKeeps ==
  ASSUME FundingInv, Keeps, NEW n \in Nodes, NEW left, IsLeft(left),
         NEW error \in Errors \cup {"running"}, Stop(n, error, left)
  PROVE  /\ inbox' \in [Nodes -> Seq([ledger : Ledgers, sp : SignedProposal])]
         /\ toProcess' \in [Nodes -> Seq(Proposal)]
         /\ engine' \in [Nodes -> Errors \cup {"running"}]
         /\ network' \subseteq Payloads \cup Rejections \cup Proposals
         /\ InboxInv' /\ MessagesInv'
<1>1. TypeOK /\ InboxInv /\ MessagesInv  BY DEF FundingInv
<1>2. /\ inbox' = [inbox EXCEPT ![n] = << >>]
      /\ toProcess' = [toProcess EXCEPT ![n] = << >>]
      /\ network' \subseteq network
      /\ engine' = [engine EXCEPT ![n] = error]
  BY DEF Stop, IsLeft
<1>3. /\ inbox \in [Nodes -> Seq([ledger : Ledgers, sp : SignedProposal])]
      /\ toProcess \in [Nodes -> Seq(Proposal)]
      /\ engine \in [Nodes -> Errors \cup {"running"}]
      /\ network \subseteq Payloads \cup Rejections \cup Proposals
  BY <1>1 DEF TypeOK
<1>4. inbox' \in [Nodes -> Seq([ledger : Ledgers, sp : SignedProposal])]
  <2>1. << >> \in Seq([ledger : Ledgers, sp : SignedProposal])  OBVIOUS
  <2>2. QED  BY <1>2, <1>3, <2>1
<1>5. toProcess' \in [Nodes -> Seq(Proposal)] /\ engine' \in [Nodes -> Errors \cup {"running"}]
  <2>1. << >> \in Seq(Proposal)  OBVIOUS
  <2>2. toProcess' \in [Nodes -> Seq(Proposal)]  BY <1>2, <1>3, <2>1
  <2>3. engine' \in [Nodes -> Errors \cup {"running"}]  BY <1>2, <1>3
  <2>4. QED  BY <2>2, <2>3
<1>6. ASSUME NEW k \in Nodes, NEW i \in 1..Len(inbox'[k]), NEW e, e = inbox'[k][i],
             NEW q, q = e.sp.proposal
      PROVE  IsLawful(q)'
  <2>1. k # n  BY <1>2, <1>3
  <2>2. inbox'[k] = inbox[k]  BY <1>2, <1>3, <2>1
  <2>3. e \in [ledger : Ledgers, sp : SignedProposal]
    <3> DEFINE Entry == [ledger : Ledgers, sp : SignedProposal]
    <3>1. inbox' \in [Nodes -> Seq(Entry)]  BY <1>4
    <3> HIDE DEF Entry
    <3>2. inbox'[k] \in Seq(Entry)  BY <3>1
    <3>3. e \in Entry  BY <1>6, <3>2
    <3>4. QED  BY <3>3 DEF Entry
  <2>4. q \in Proposal  BY <1>6, <2>3 DEF SignedProposal
  <2>5. IsLawful(q)  BY <1>1, <1>6, <2>2 DEF InboxInv
  <2>6. QED  BY <2>4, <2>5 DEF Keeps
<1>7. InboxInv'  BY <1>6 DEF InboxInv
<1>8. ASSUME NEW m \in network' PROVE IsTrue(m)'
  BY <1>1, <1>2, <1>3, TrueStays DEF MessagesInv
<1>9. MessagesInv'  BY <1>8 DEF MessagesInv
<1>10. QED  BY <1>2, <1>3, <1>4, <1>5, <1>7, <1>9

-----------------------------------------------------------------------------
(***************************************************************************)
(* attemptProgress.                                                        *)
(***************************************************************************)

\* What is said of the stores holds after the step.
StoredKept ==
  /\ objective' \in [Nodes -> [Kinds -> [Targets -> [status : Status, minimum : Nat]]]]
  /\ channel' \in [Nodes -> [Targets -> Channel \cup {NoChannel}]]
  /\ ledger' \in [Ledgers -> [Parties -> Copy]]
  /\ signed' \in [Ledgers -> SUBSET Vars]
  /\ vouchers' \in [Nodes -> [Targets -> Nat \cup {NoVoucher}]]
  /\ KnownInv' /\ BoundedInv' /\ SignaturesInv' /\ CopiesInv' /\ LeaderInv'

\* Vouchers that stay what they are.
LEMMA SameVouchers ==
  ASSUME FundingInv, vouchers' = vouchers
  PROVE  VouchersStep
<1>1. TypeOK /\ BoundedInv  BY DEF FundingInv
<1>2. vouchers \in [Nodes -> [Targets -> Nat \cup {NoVoucher}]]
  BY <1>1 DEF TypeOK
<1>3. ASSUME NEW n \in Nodes, NEW v \in Targets, vouchers[n][v] # NoVoucher
      PROVE  vouchers[n][v] <= Deposit[v].a0
  <2>1. Paid(n, v) <= Deposit[v].a0  BY <1>1 DEF BoundedInv
  <2>2. QED  BY <1>3, <2>1 DEF Paid
<1>4. QED  BY <1>2, <1>3 DEF VouchersStep

\* When the stores stay what they are, but for vouchers and what was signed.
LEMMA SameStores ==
  ASSUME FundingInv, objective' = objective, channel' = channel, ledger' = ledger,
         signed' \in [Ledgers -> SUBSET Vars], VouchersStep
  PROVE  Keeps /\ StoredKept
<1>1. TypeOK /\ KnownInv /\ BoundedInv /\ SignaturesInv /\ CopiesInv /\ LeaderInv
  BY DEF FundingInv
<1>2. ChannelsGrow  BY DEF ChannelsGrow, Grows, Has
<1>3. LedgersEvolve  BY <1>1, TypeIs, EvolvesByNothing DEF LedgersEvolve
<1>4. Keeps /\ CopiesInv'  BY <1>1, <1>2, <1>3, StepKeeps
<1>5. /\ objective' \in [Nodes -> [Kinds -> [Targets -> [status : Status, minimum : Nat]]]]
      /\ channel' \in [Nodes -> [Targets -> Channel \cup {NoChannel}]]
      /\ ledger' \in [Ledgers -> [Parties -> Copy]]
  BY <1>1 DEF TypeOK
<1>6. KnownInv'  BY <1>1 DEF KnownInv, Has, VouchersStep
<1>7. BoundedInv'
  <2>1. ASSUME NEW n \in Nodes, NEW v \in Targets PROVE Paid(n, v)' <= Deposit[v].a0
    BY ExpectedProposals DEF VouchersStep, Paid
  <2>2. QED  BY <1>1, <2>1 DEF BoundedInv
<1>8. SignaturesInv'
  BY <1>1 DEF SignaturesInv, Has, HasSigned, IsKept, IsClosedByAll, IsSignedFinal, HasClosed
<1>9. LeaderInv'  BY <1>1 DEF LeaderInv
<1>10. QED  BY <1>4, <1>5, <1>6, <1>7, <1>8, <1>9 DEF StoredKept, VouchersStep

\* Saving what the store has changes nothing.
LEMMA SavedSame ==
  ASSUME TypeOK, NEW n \in Nodes, NEW k \in Kinds, NEW v \in Targets,
         NEW o, o = InMemory(n, k, v), Save(n, k, v, o)
  PROVE  objective' = objective /\ channel' = channel /\ ledger' = ledger
<1>1. TypeOK  OBVIOUS
<1>2. /\ o.status = objective[n][k][v].status
      /\ o.minimum = objective[n][k][v].minimum
      /\ o.channel = channel[n][v]
      /\ o.copies = [l \in Ledgers |-> ledger[l][Party(n, l)]]
  BY DEF InMemory
<1>3. objective' = objective
  <2> DEFINE saved == [status |-> o.status, minimum |-> o.minimum]
  <2>1. objective' = [objective EXCEPT ![n][k][v] = saved]  BY DEF Save
  <2>2. objective[n][k][v] \in [status : Status, minimum : Nat]
        /\ objective \in [Nodes -> [Kinds -> [Targets -> [status : Status, minimum : Nat]]]]
    BY <1>1 DEF TypeOK
  <2>3. saved = objective[n][k][v]  BY <1>2, <2>2
  <2> HIDE DEF saved
  <2>4. QED  BY <2>1, <2>2, <2>3
<1>4. channel' = channel  BY <1>1, <1>2 DEF Save, TypeOK
<1>5. ledger' = ledger
  <2>1. ledger \in [Ledgers -> [Parties -> Copy]]  BY <1>1 DEF TypeOK
  <2>2. ledger' = [l \in Ledgers |-> [p \in Parties |->
                     IF Ends[l][p] = n THEN o.copies[l] ELSE ledger[l][p]]]
    BY DEF Save
  <2>3. ASSUME NEW l \in Ledgers, NEW p \in Parties PROVE ledger'[l][p] = ledger[l][p]
    BY <1>2, <2>2, PartyIs
  <2>4. ledger' \in [Ledgers -> [Parties -> Copy]]  BY <2>1, <2>2, <2>3
  <2>5. QED  BY <2>1, <2>3, <2>4
<1>6. QED  BY <1>3, <1>4, <1>5

\* ... and keeps what is said of the stores.
LEMMA SaveSame ==
  ASSUME FundingInv, NEW n \in Nodes, NEW k \in Kinds, NEW v \in Targets,
         NEW o, o = InMemory(n, k, v), Save(n, k, v, o), VouchersStep
  PROVE  Keeps /\ StoredKept
<1>1. TypeOK /\ LeaderInv  BY DEF FundingInv
<1>2. /\ o.status = objective[n][k][v].status
      /\ o.minimum = objective[n][k][v].minimum
      /\ o.channel = channel[n][v]
      /\ o.copies = [l \in Ledgers |-> ledger[l][Party(n, l)]]
  BY DEF InMemory
<1>3. objective' = objective /\ channel' = channel /\ ledger' = ledger
  BY <1>1, SavedSame
<1>4. o.copies \in [Ledgers -> Copy] /\ LeadsChains(n, o)
  <2>1. \A l \in Ledgers : Party(n, l) \in Parties /\ ledger[l][Party(n, l)] \in Copy
    BY <1>1, PartyIs, TypeIs
  <2>2. ASSUME NEW l \in Ledgers, Ends[l][Leader] = n
        PROVE  Chain(o.copies[l].current, o.copies[l].queue)
    BY <1>1, <1>2, <2>2, PartyIs DEF LeaderInv
  <2>3. QED  BY <1>2, <2>1, <2>2 DEF LeadsChains
<1>5. signed' \in [Ledgers -> SUBSET Vars]  BY <1>1, <1>4, SavedIsSigned
<1>6. QED  BY <1>3, <1>5, SameStores

\* Saving the result of a crank.
LEMMA SavedCrank ==
  ASSUME FundingInv, NEW n \in Nodes, NEW k \in Kinds, NEW v \in Targets,
         NEW o, Ready(n, v, o), NEW r, IsCrank(n, v, o, r), r.o.status # "unknown",
         Save(n, k, v, r.o), VouchersStep, vouchers'[n][v] # NoVoucher
  PROVE  Keeps /\ StoredKept
<1>1. PICK new \in Memory : new = r.o  BY DEF IsCrank
<1>2. PICK c : c = r.o.channel  OBVIOUS
<1>3. Keeps /\ CopiesInv' /\ Justified(v, c)'  BY <1>2, CrankKeeps
<1>4. new.minimum <= Deposit[v].a0 /\ LeadsChains(n, new)
  BY <1>1 DEF IsCrank, Ready
<1>5. TypeOK /\ Save(n, k, v, new) /\ new.copies \in [Ledgers -> Copy]
  BY <1>1, MemoryIs DEF FundingInv
<1>6. KnownInv' /\ BoundedInv' /\ SignaturesInv' /\ LeaderInv'
  BY <1>1, <1>2, <1>3, <1>4, <1>5, SaveKeeps
<1>7. /\ objective' \in [Nodes -> [Kinds -> [Targets -> [status : Status, minimum : Nat]]]]
      /\ channel' \in [Nodes -> [Targets -> Channel \cup {NoChannel}]]
      /\ ledger' \in [Ledgers -> [Parties -> Copy]]
      /\ signed' \in [Ledgers -> SUBSET Vars]
  BY <1>4, <1>5, SaveChanges, SavedIsSigned
<1>8. QED  BY <1>3, <1>6, <1>7 DEF StoredKept, VouchersStep

\* Saving an objective that was not cranked.
LEMMA SavedReady ==
  ASSUME FundingInv, NEW n \in Nodes, NEW k \in Kinds, NEW v \in Targets,
         NEW o, Ready(n, v, o), o.status # "unknown",
         Save(n, k, v, o), VouchersStep, vouchers'[n][v] # NoVoucher
  PROVE  Keeps /\ StoredKept
<1>1. PICK r : r = [o |-> o, messages |-> {}, heads |-> << >>]  OBVIOUS
<1>2. r.o = o /\ r.messages = {} /\ r.heads = << >>  BY <1>1
<1>3. IsCrank(n, v, o, r)  BY <1>2, IdleCrankIs DEF Ready
<1>4. QED  BY <1>2, <1>3, SavedCrank

\* A crank throws an error, or makes of an objective what a crank may.
LEMMA CrankIs ==
  ASSUME NEW n \in Nodes, NEW k \in Kinds, NEW v \in Targets,
         NEW o, Ready(n, v, o), o.status # "unknown", NEW r, r = Crank(n, k, v, o)
  PROVE  /\ r.error \in Errors \cup {"none"}
         /\ r.error = "none" => IsCrank(n, v, o, r) /\ r.o.status # "unknown"
<1>1. /\ o \in Memory /\ LeadsChains(n, o) /\ o.minimum <= Deposit[v].a0
      /\ o.channel.final # NoFinal => o.channel.final.paid <= Deposit[v].a0
  BY DEF Ready, Justified, IsSignedFinal
<1>2. /\ Throw(o, "errNotApproved").error = "errNotApproved"
      /\ Throw(o, "error updating ledger funding").error = "error updating ledger funding"
      /\ Throw(o, "no signature from Alice").error = "no signature from Alice"
  BY DEF Throw
<1>3. CASE k = "fund"
  <2>1. r = FundCrank(n, v, o)  BY <1>3 DEF Crank
  <2>2. r.error = "none" => IsCrank(n, v, o, r) /\ r.o.status # "unknown"
    BY <1>1, <2>1, FundCrankIs
  <2>3. r.error \in {"errNotApproved", "error updating ledger funding", "none"}
    <3>1. CASE r = Throw(o, "errNotApproved") \/ r = Throw(o, "error updating ledger funding")
      BY <1>2, <3>1
    <3>2. CASE \E a, b, c, d : r = [o |-> a, messages |-> b, heads |-> c, done |-> d,
                                   error |-> "none"]
      BY <3>2
    <3>3. QED  BY <2>1, <3>1, <3>2, Zenon DEF FundCrank
  <2>4. QED  BY <2>2, <2>3 DEF Errors
<1>4. CASE k # "fund"
  <2>1. r = DefundCrank(n, v, o)  BY <1>4 DEF Crank
  <2>2. r.error = "none" => IsCrank(n, v, o, r) /\ r.o.status # "unknown"
    BY <1>1, <2>1, DefundCrankIs
  <2>3. Divided(n, v, o).error \in {"error updating ledger funding", "none"}
    BY <1>2 DEF Divided
  <2>4. /\ [Throw(o, "none") EXCEPT !.done = TRUE].error = "none"
        /\ [Throw(o, "none") EXCEPT !.messages = RequestMessage(n, v)].error = "none"
    BY DEF Throw
  <2>5. r.error \in {"no signature from Alice", "error updating ledger funding", "none"}
    BY <1>2, <2>1, <2>3, <2>4 DEF DefundCrank
  <2>6. QED  BY <2>2, <2>5 DEF Errors
<1>5. QED  BY <1>3, <1>4

\* The parts of the invariant put together.
LEMMA Assembled ==
  ASSUME StoredKept,
         owner' \in [Nodes -> [Targets -> Kinds \cup {"none"}]],
         inbox' \in [Nodes -> Seq([ledger : Ledgers, sp : SignedProposal])],
         toProcess' \in [Nodes -> Seq(Proposal)],
         engine' \in [Nodes -> Errors \cup {"running"}],
         network' \subseteq Payloads \cup Rejections \cup Proposals,
         asked' \subseteq Nodes \X Targets,
         InboxInv', MessagesInv'
  PROVE  FundingInv'
BY DEF StoredKept, FundingInv, TypeOK

\* A turn that goes on.
LEMMA WentOn ==
  ASSUME FundingInv, Keeps, StoredKept, NEW n \in Nodes, NEW left, IsLeft(left),
         NEW messages, messages \subseteq Payloads \cup Rejections \cup Proposals,
         \A m \in messages : IsTrue(m)',
         NEW heads \in Seq(Proposal), GoOn(n, left, messages, heads),
         owner' \in [Nodes -> [Targets -> Kinds \cup {"none"}]],
         asked' \subseteq Nodes \X Targets
  PROVE  FundingInv'
BY GoOnKeeps, Assembled

\* A turn that ends the run loop.
LEMMA Stopped ==
  ASSUME FundingInv, Keeps, StoredKept, NEW n \in Nodes, NEW left, IsLeft(left),
         NEW error \in Errors, Stop(n, error, left),
         owner' \in [Nodes -> [Targets -> Kinds \cup {"none"}]],
         asked' \subseteq Nodes \X Targets
  PROVE  FundingInv'
BY StopKeeps, Assembled

\* attemptProgress of an objective that knows what it may know.
LEMMA AttemptKeeps ==
  ASSUME FundingInv, NEW n \in Nodes, NEW k \in Kinds, NEW v \in Targets,
         NEW o, Ready(n, v, o), o.status # "unknown",
         NEW before, \/ before = InMemory(n, k, v)
                     \/ Ready(n, v, before) /\ before.status # "unknown",
         NEW left, IsLeft(left), AttemptProgress(n, k, v, before, o, left),
         VouchersStep, vouchers'[n][v] # NoVoucher, asked' \subseteq Nodes \X Targets
  PROVE  FundingInv'
<1>1. PICK r : /\ r = Crank(n, k, v, o)
               /\ \/ /\ r.error # "none"
                     /\ Save(n, k, v, before)
                     /\ Stop(n, r.error, left)
                     /\ UNCHANGED owner
                  \/ /\ r.error = "none"
                     /\ r.o.status = "approved" /\ IsOwnedByOther(n, k, v)
                     /\ Save(n, k, v, r.o)
                     /\ Stop(n, "cannot transfer ownership", left)
                     /\ UNCHANGED owner
                  \/ /\ r.error = "none"
                     /\ ~ (r.o.status = "approved" /\ IsOwnedByOther(n, k, v))
                     /\ Save(n, k, v, r.o)
                     /\ owner' = [owner EXCEPT ![n][v] = OwnerAfter(n, k, v, r)]
                     /\ GoOn(n, left, r.messages, r.heads)
  BY DEF AttemptProgress
<1>2. /\ r.error \in Errors \cup {"none"}
      /\ r.error = "none" => IsCrank(n, v, o, r) /\ r.o.status # "unknown"
  <2>1. r = Crank(n, k, v, o)  BY <1>1
  <2>2. QED  BY <2>1, CrankIs
<1>3. owner \in [Nodes -> [Targets -> Kinds \cup {"none"}]]
  BY DEF FundingInv, TypeOK
<1>4. CASE /\ r.error # "none"
           /\ Save(n, k, v, before)
           /\ Stop(n, r.error, left)
           /\ UNCHANGED owner
  <2>1. Keeps /\ StoredKept  BY <1>4, SaveSame, SavedReady
  <2>2. QED  BY <1>2, <1>3, <1>4, <2>1, Stopped
<1>5. CASE /\ r.error = "none"
           /\ r.o.status = "approved" /\ IsOwnedByOther(n, k, v)
           /\ Save(n, k, v, r.o)
           /\ Stop(n, "cannot transfer ownership", left)
           /\ UNCHANGED owner
  <2>1. Keeps /\ StoredKept  BY <1>2, <1>5, SavedCrank
  <2>2. PICK error \in Errors : error = "cannot transfer ownership"
    BY DEF Errors
  <2>3. Stop(n, error, left)  BY <1>5, <2>2
  <2>4. QED  BY <1>3, <1>5, <2>1, <2>3, Stopped
<1>6. CASE /\ r.error = "none"
           /\ ~ (r.o.status = "approved" /\ IsOwnedByOther(n, k, v))
           /\ Save(n, k, v, r.o)
           /\ owner' = [owner EXCEPT ![n][v] = OwnerAfter(n, k, v, r)]
           /\ GoOn(n, left, r.messages, r.heads)
  <2>1. Keeps /\ StoredKept  BY <1>2, <1>6, SavedCrank
  <2>2. OwnerAfter(n, k, v, r) \in Kinds \cup {"none"}  BY <1>3 DEF OwnerAfter
  <2>3. owner' \in [Nodes -> [Targets -> Kinds \cup {"none"}]]
    BY <1>3, <1>6, <2>2
  <2>4. \A m \in r.messages : m \in Payloads \cup Proposals /\ IsTrue(m)'
    BY <1>2, <1>6, CrankIsTrue
  <2>5. r.heads \in Seq(Proposal)  BY <1>2, <1>6 DEF IsCrank
  <2>6. QED  BY <1>6, <2>1, <2>3, <2>4, <2>5, WentOn
<1>7. QED  BY <1>1, <1>4, <1>5, <1>6

-----------------------------------------------------------------------------
(***************************************************************************)
(* The objectives that the handlers crank.                                 *)
(***************************************************************************)

\* What makes an objective ready, part by part.
LEMMA ReadyWith ==
  ASSUME NEW n \in Nodes, NEW v \in Targets, NEW o, o \in Memory,
         o.minimum <= Deposit[v].a0,
         NEW c, c = o.channel, Has(n, v) => Grows(channel[n][v], c), Justified(v, c),
         NEW copies, copies = o.copies,
         \A l \in Ledgers : Evolves(ledger[l][Party(n, l)], copies[l],
                                    {q \in Proposal : IsLawful(q)}),
         \A l \in Ledgers : Ends[l][Leader] = n => Chain(copies[l].current, copies[l].queue)
  PROVE  Ready(n, v, o)
<1>1. LeadsChains(n, o)  BY DEF LeadsChains
<1>2. QED  BY <1>1 DEF Ready

\* An objective in memory is made of its parts.
LEMMA MemoryOf ==
  ASSUME NEW status \in Status, NEW minimum \in Nat, NEW c \in Channel,
         NEW copies \in [Ledgers -> Copy],
         NEW o, o = [status |-> status, minimum |-> minimum, channel |-> c, copies |-> copies]
  PROVE  /\ o \in Memory
         /\ o.status = status /\ o.minimum = minimum /\ o.channel = c /\ o.copies = copies
BY DEF Memory

\* The parts of an objective that is ready.
LEMMA ReadyIs ==
  ASSUME NEW n \in Nodes, NEW v \in Targets, NEW o, Ready(n, v, o)
  PROVE  /\ o.status \in Status /\ o.minimum \in Nat /\ o.minimum <= Deposit[v].a0
         /\ o.channel \in Channel /\ Justified(v, o.channel)
         /\ Has(n, v) => Grows(channel[n][v], o.channel)
         /\ o.copies \in [Ledgers -> Copy]
         /\ \A l \in Ledgers : Evolves(ledger[l][Party(n, l)], o.copies[l],
                                       {q \in Proposal : IsLawful(q)})
         /\ \A l \in Ledgers : Ends[l][Leader] = n =>
                                 Chain(o.copies[l].current, o.copies[l].queue)
         /\ o = [status |-> o.status, minimum |-> o.minimum, channel |-> o.channel,
                 copies |-> o.copies]
BY MemoryIs DEF Ready, LeadsChains

\* A node's own copies are what it has in memory.
LEMMA OwnCopies ==
  ASSUME FundingInv, NEW n \in Nodes, NEW copies,
         copies = [l \in Ledgers |-> ledger[l][Party(n, l)]]
  PROVE  /\ copies \in [Ledgers -> Copy]
         /\ \A l \in Ledgers : Evolves(ledger[l][Party(n, l)], copies[l],
                                       {q \in Proposal : IsLawful(q)})
         /\ \A l \in Ledgers : Ends[l][Leader] = n => Chain(copies[l].current, copies[l].queue)
<1>1. TypeOK /\ LeaderInv  BY DEF FundingInv
<1>2. ASSUME NEW l \in Ledgers
      PROVE  copies[l] = ledger[l][Party(n, l)] /\ copies[l] \in Copy
  BY <1>1, PartyIs, TypeIs
<1>3. \A l \in Ledgers : Evolves(ledger[l][Party(n, l)], copies[l],
                                 {q \in Proposal : IsLawful(q)})
  BY <1>2, EvolvesByNothing
<1>4. ASSUME NEW l \in Ledgers, Ends[l][Leader] = n
      PROVE  Chain(copies[l].current, copies[l].queue)
  BY <1>1, <1>2, <1>4, PartyIs DEF LeaderInv
<1>5. QED  BY <1>2, <1>3, <1>4

\* What a node has in store of a channel is justified.
LEMMA StoredChannel ==
  ASSUME FundingInv, NEW n \in Nodes, NEW v \in Targets, Has(n, v)
  PROVE  /\ channel[n][v] \in Channel /\ Justified(v, channel[n][v])
         /\ Grows(channel[n][v], channel[n][v])
<1>1. TypeOK /\ SignaturesInv  BY DEF FundingInv
<1>2. QED  BY <1>1, TypeIs DEF SignaturesInv, Justified, Grows

\* An objective as the store has it.
LEMMA StoredIsReady ==
  ASSUME FundingInv, NEW n \in Nodes, NEW k \in Kinds, NEW v \in Targets, Has(n, v),
         NEW o, o = InMemory(n, k, v)
  PROVE  Ready(n, v, o) /\ o.status = objective[n][k][v].status
                        /\ o.minimum = objective[n][k][v].minimum /\ o.channel = channel[n][v]
<1>1. PICK copies : copies = [l \in Ledgers |-> ledger[l][Party(n, l)]]  OBVIOUS
<1>2. PICK status, minimum : status = objective[n][k][v].status
                             /\ minimum = objective[n][k][v].minimum
  OBVIOUS
<1>3. PICK c : c = channel[n][v]  OBVIOUS
<1>4. o = [status |-> status, minimum |-> minimum, channel |-> c, copies |-> copies]
  BY <1>1, <1>2, <1>3 DEF InMemory
<1>5. status \in Status /\ minimum \in Nat /\ minimum <= Deposit[v].a0
  BY <1>2, TypeIs DEF FundingInv, BoundedInv
<1>6. /\ copies \in [Ledgers -> Copy]
      /\ \A l \in Ledgers : Evolves(ledger[l][Party(n, l)], copies[l],
                                    {q \in Proposal : IsLawful(q)})
      /\ \A l \in Ledgers : Ends[l][Leader] = n => Chain(copies[l].current, copies[l].queue)
  BY <1>1, OwnCopies
<1>7. c \in Channel /\ Justified(v, c) /\ Grows(channel[n][v], c)
  BY <1>3, StoredChannel
<1>8. /\ o \in Memory
      /\ o.status = status /\ o.minimum = minimum /\ o.channel = c /\ o.copies = copies
  BY <1>4, <1>5, <1>6, <1>7, MemoryOf
<1>9. Ready(n, v, o)  BY <1>5, <1>6, <1>7, <1>8, ReadyWith
<1>10. QED  BY <1>2, <1>3, <1>8, <1>9

\* A fund objective of a channel that is not registered with the voucher manager.
LEMMA NewFundIsReady ==
  ASSUME FundingInv, NEW n \in Nodes, NEW v \in Targets, vouchers[n][v] = NoVoucher,
         NEW status \in Status, NEW o, o = NewFundObjective(n, v, status)
  PROVE  Ready(n, v, o) /\ o.status = status /\ o.channel = NewChannel /\ ~ Has(n, v)
<1>1. PICK copies : copies = [l \in Ledgers |-> ledger[l][Party(n, l)]]  OBVIOUS
<1>2. PICK minimum : minimum = objective[n]["fund"][v].minimum  OBVIOUS
<1>3. PICK c : c = NewChannel  OBVIOUS
<1>4. o = [status |-> status, minimum |-> minimum, channel |-> c, copies |-> copies]
  <2>1. PICK s, d : InMemory(n, "fund", v)
                      = [status |-> s, minimum |-> minimum, channel |-> d, copies |-> copies]
    BY <1>1, <1>2 DEF InMemory
  <2> DEFINE x == [InMemory(n, "fund", v) EXCEPT !.status = status]
  <2>2. o = [x EXCEPT !.channel = c]  BY <1>3, <2>1 DEF NewFundObjective
  <2>3. x = [status |-> status, minimum |-> minimum, channel |-> d, copies |-> copies]
    BY <2>1
  <2> HIDE DEF x
  <2>4. QED  BY <2>2, <2>3
<1>5. minimum \in Nat /\ minimum <= Deposit[v].a0
  BY <1>2, TypeIs, KindsAssumption DEF FundingInv, BoundedInv
<1>6. /\ copies \in [Ledgers -> Copy]
      /\ \A l \in Ledgers : Evolves(ledger[l][Party(n, l)], copies[l],
                                    {q \in Proposal : IsLawful(q)})
      /\ \A l \in Ledgers : Ends[l][Leader] = n => Chain(copies[l].current, copies[l].queue)
  BY <1>1, OwnCopies
<1>7. c \in Channel /\ Justified(v, c)
  BY <1>3 DEF NewChannel, Channel, Justified
<1>8. ~ Has(n, v)  BY DEF FundingInv, KnownInv
<1>9. /\ o \in Memory
      /\ o.status = status /\ o.minimum = minimum /\ o.channel = c /\ o.copies = copies
  BY <1>4, <1>5, <1>6, <1>7, MemoryOf
<1>10. Ready(n, v, o)  BY <1>5, <1>6, <1>7, <1>8, <1>9, ReadyWith
<1>11. QED  BY <1>3, <1>8, <1>9, <1>10

\* A defund objective of a channel that the store has.
LEMMA NewDefundIsReady ==
  ASSUME FundingInv, NEW n \in Nodes, NEW v \in Targets, Has(n, v),
         NEW status \in Status, NEW o, o = NewDefundObjective(n, v, status)
  PROVE  /\ Ready(n, v, o) /\ o.status = status /\ o.channel = channel[n][v]
         /\ o.minimum = Paid(n, v)
<1>1. PICK copies : copies = [l \in Ledgers |-> ledger[l][Party(n, l)]]  OBVIOUS
<1>2. PICK minimum : minimum = Paid(n, v)  OBVIOUS
<1>3. PICK c : c = channel[n][v]  OBVIOUS
<1>4. o = [status |-> status, minimum |-> minimum, channel |-> c, copies |-> copies]
  <2>1. PICK s, d : InMemory(n, "defund", v)
                      = [status |-> s, minimum |-> d, channel |-> c, copies |-> copies]
    BY <1>1, <1>3 DEF InMemory
  <2> DEFINE x == [InMemory(n, "defund", v) EXCEPT !.status = status]
  <2>2. o = [x EXCEPT !.minimum = minimum]
    BY <1>2, <2>1 DEF NewDefundObjective, MinimumPayment
  <2>3. x = [status |-> status, minimum |-> d, channel |-> c, copies |-> copies]
    BY <2>1
  <2> HIDE DEF x
  <2>4. QED  BY <2>2, <2>3
<1>5. minimum \in Nat /\ minimum <= Deposit[v].a0
  BY <1>2, TypeIs DEF FundingInv, BoundedInv
<1>6. /\ copies \in [Ledgers -> Copy]
      /\ \A l \in Ledgers : Evolves(ledger[l][Party(n, l)], copies[l],
                                    {q \in Proposal : IsLawful(q)})
      /\ \A l \in Ledgers : Ends[l][Leader] = n => Chain(copies[l].current, copies[l].queue)
  BY <1>1, OwnCopies
<1>7. c \in Channel /\ Justified(v, c) /\ Grows(channel[n][v], c)
  BY <1>3, StoredChannel
<1>8. /\ o \in Memory
      /\ o.status = status /\ o.minimum = minimum /\ o.channel = c /\ o.copies = copies
  BY <1>4, <1>5, <1>6, <1>7, MemoryOf
<1>9. Ready(n, v, o)  BY <1>5, <1>6, <1>7, <1>8, ReadyWith
<1>10. QED  BY <1>2, <1>3, <1>8, <1>9

\* An objective with another status.
LEMMA StatusIsReady ==
  ASSUME NEW n \in Nodes, NEW v \in Targets, NEW old, Ready(n, v, old),
         NEW status \in Status, NEW o, o = [old EXCEPT !.status = status]
  PROVE  /\ Ready(n, v, o) /\ o.status = status /\ o.minimum = old.minimum
         /\ o.channel = old.channel /\ o.copies = old.copies
<1>1. PICK s \in Status, minimum \in Nat, c \in Channel, copies \in [Ledgers -> Copy] :
        old = [status |-> s, minimum |-> minimum, channel |-> c, copies |-> copies]
  BY DEF Ready, Memory
<1>2. o = [status |-> status, minimum |-> minimum, channel |-> c, copies |-> copies]
  BY <1>1
<1>3. old.minimum = minimum /\ old.channel = c /\ old.copies = copies  BY <1>1
<1>4. /\ o \in Memory
      /\ o.status = status /\ o.minimum = minimum /\ o.channel = c /\ o.copies = copies
  BY ONLY <1>2, MemoryOf, status \in Status, minimum \in Nat, c \in Channel,
          copies \in [Ledgers -> Copy]
<1>5. Ready(n, v, o)  BY <1>3, <1>4 DEF Ready, LeadsChains
<1>6. QED  BY <1>3, <1>4, <1>5

\* A true payload adds a justified signature to a channel.
LEMMA FundUpdateIs ==
  ASSUME FundingInv, NEW v \in Targets, NEW c \in Channel, Justified(v, c),
         NEW m \in Payloads, IsTrue(m), m.v = v, m.type \in {"prefund", "postfund"},
         NEW d, d = FundUpdate(v, c, m)
  PROVE  d \in Channel /\ Justified(v, d) /\ Grows(c, d) /\ d.final = c.final
<1>1. m.from \in Nodes  BY DEF Payloads
<1>2. PICK prefund \in SUBSET Nodes, postfund \in SUBSET Nodes,
           final \in FinalState \cup {NoFinal} :
        c = [prefund |-> prefund, postfund |-> postfund, final |-> final]
  BY DEF Channel
<1>3. c.prefund = prefund /\ c.postfund = postfund /\ c.final = final  BY <1>2
<1>4. CASE d = c  BY <1>4 DEF Grows
<1>5. CASE m.type = "prefund" /\ d = [c EXCEPT !.prefund = @ \cup {m.from}]
  <2>1. d = [prefund |-> prefund \cup {m.from}, postfund |-> postfund, final |-> final]
    BY <1>2, <1>5
  <2>2. d.prefund = prefund \cup {m.from} /\ d.postfund = postfund /\ d.final = final
    BY <2>1
  <2>3. HasSigned(m.from, v)  BY <1>5 DEF IsTrue
  <2>4. d \in Channel  BY <1>1, <2>1 DEF Channel
  <2>5. QED  BY <1>3, <2>2, <2>3, <2>4 DEF Justified, Grows
<1>6. CASE m.type # "prefund" /\ d = [c EXCEPT !.postfund = @ \cup {m.from}]
  <2>1. d = [prefund |-> prefund, postfund |-> postfund \cup {m.from}, final |-> final]
    BY <1>2, <1>6
  <2>2. d.prefund = prefund /\ d.postfund = postfund \cup {m.from} /\ d.final = final
    BY <2>1
  <2>3. IsKept(m.from, v)  BY <1>6 DEF IsTrue
  <2>4. d \in Channel  BY <1>1, <2>1 DEF Channel
  <2>5. QED  BY <1>3, <2>2, <2>3, <2>4 DEF Justified, Grows
<1>7. QED  BY <1>4, <1>5, <1>6 DEF FundUpdate

\* update of a virtual-fund objective (the second argument of attemptProgress
\* in UpdateFund).
FundUpdated(v, old, m) ==
  [old EXCEPT !.status = "approved", !.channel = FundUpdate(v, @, m)]

\* update of a virtual-fund objective.
LEMMA UpdatedFundIsReady ==
  ASSUME FundingInv, NEW n \in Nodes, NEW v \in Targets, NEW old, Ready(n, v, old),
         NEW m \in Payloads, IsTrue(m), m.v = v, m.type \in {"prefund", "postfund"},
         NEW o, o = FundUpdated(v, old, m)
  PROVE  Ready(n, v, o) /\ o.status = "approved" /\ o.channel.final = old.channel.final
<1>1. PICK s \in Status, minimum \in Nat, c \in Channel, copies \in [Ledgers -> Copy] :
        old = [status |-> s, minimum |-> minimum, channel |-> c, copies |-> copies]
  BY DEF Ready, Memory
<1>2. old.minimum = minimum /\ old.channel = c /\ old.copies = copies  BY <1>1
<1>3. PICK d : d = FundUpdate(v, c, m)  OBVIOUS
<1>4. Justified(v, c) /\ (Has(n, v) => Grows(channel[n][v], c))
  BY <1>2 DEF Ready
<1>5. d \in Channel /\ Justified(v, d) /\ Grows(c, d) /\ d.final = c.final
  BY <1>3, <1>4, FundUpdateIs
<1>6. o = [status |-> "approved", minimum |-> minimum, channel |-> d, copies |-> copies]
  <2> DEFINE x == [old EXCEPT !.status = "approved"]
  <2>1. x = [status |-> "approved", minimum |-> minimum, channel |-> c, copies |-> copies]
    BY <1>1
  <2>2. o = [x EXCEPT !.channel = d]  BY <1>2, <1>3, <2>1 DEF FundUpdated
  <2> HIDE DEF x
  <2>3. QED  BY <2>1, <2>2
<1>7. /\ o \in Memory
      /\ o.status = "approved" /\ o.minimum = minimum /\ o.channel = d /\ o.copies = copies
  <2>1. "approved" \in Status  BY DEF Status
  <2>2. QED
    BY ONLY <1>5, <1>6, <2>1, MemoryOf, minimum \in Nat, copies \in [Ledgers -> Copy]
<1>8. Has(n, v) => Grows(channel[n][v], d)  BY <1>4, <1>5, GrowsTwice
<1>9. Ready(n, v, o)  BY <1>2, <1>5, <1>7, <1>8 DEF Ready, LeadsChains
<1>10. QED  BY <1>2, <1>5, <1>7, <1>9

\* update of a virtual-defund objective with a true final state.
LEMMA UpdatedDefundIsReady ==
  ASSUME FundingInv, NEW n \in Nodes, NEW v \in Targets, NEW old, Ready(n, v, old),
         NEW m \in Payloads, IsTrue(m), m.v = v, m.type = "final",
         old.channel.final # NoFinal => old.channel.final.paid = m.paid,
         NEW o, o = DefundUpdate(old, m)
  PROVE  /\ Ready(n, v, o) /\ o.status = old.status
         /\ o.channel.final # NoFinal /\ o.channel.final.paid = m.paid
<1>1. PICK s \in Status, minimum \in Nat, c \in Channel, copies \in [Ledgers -> Copy] :
        old = [status |-> s, minimum |-> minimum, channel |-> c, copies |-> copies]
  BY DEF Ready, Memory
<1>2. old.status = s /\ old.minimum = minimum /\ old.channel = c /\ old.copies = copies
  BY <1>1
<1>3. PICK prefund \in SUBSET Nodes, postfund \in SUBSET Nodes,
           before \in FinalState \cup {NoFinal} :
        c = [prefund |-> prefund, postfund |-> postfund, final |-> before]
  BY DEF Channel
<1>4. c.prefund = prefund /\ c.postfund = postfund /\ c.final = before  BY <1>3
<1>5. PICK paid \in Nat, from \in Nodes : paid = m.paid /\ from = m.from
  BY DEF Payloads
<1>6. PICK signers : signers = IF before = NoFinal THEN {} ELSE before.signed
  OBVIOUS
<1>7. PICK final : final = [paid |-> paid, signed |-> signers \cup {from}]
  OBVIOUS
<1>8. PICK d : d = [prefund |-> prefund, postfund |-> postfund, final |-> final]
  OBVIOUS
<1>9. o = [status |-> s, minimum |-> minimum, channel |-> d, copies |-> copies]
  <2>1. o = [old EXCEPT !.channel.final = final]
    BY <1>2, <1>4, <1>5, <1>6, <1>7 DEF DefundUpdate
  <2>2. [c EXCEPT !.final = final] = d  BY <1>3, <1>8
  <2>3. o = [old EXCEPT !.channel = [c EXCEPT !.final = final]]  BY <1>2, <2>1
  <2>4. QED  BY <1>1, <2>2, <2>3
<1>10. signers \subseteq Nodes  BY <1>6 DEF FinalState
<1>11. final \in FinalState /\ final # NoFinal /\ final.paid = paid
       /\ final.signed = signers \cup {from}
  BY <1>7, <1>10, NoFinalAssumption DEF FinalState
<1>12. d \in Channel /\ d.prefund = prefund /\ d.postfund = postfund /\ d.final = final
  BY <1>8, <1>11 DEF Channel
<1>13. /\ o \in Memory
       /\ o.status = s /\ o.minimum = minimum /\ o.channel = d /\ o.copies = copies
  BY <1>9, <1>12, MemoryOf
<1>14. Justified(v, c) /\ (Has(n, v) => Grows(channel[n][v], c))
  BY <1>2 DEF Ready
<1>15. HasClosed(from, v, paid) /\ paid <= Deposit[v].a0  BY <1>5 DEF IsTrue
<1>16. before # NoFinal => before.paid = paid  BY <1>2, <1>4, <1>5
<1>17. IsSignedFinal(v, final)
  BY <1>4, <1>6, <1>11, <1>14, <1>15, <1>16 DEF Justified, IsSignedFinal
<1>18. Justified(v, d)  BY <1>4, <1>12, <1>14, <1>17 DEF Justified
<1>19. Grows(c, d)  BY <1>4, <1>6, <1>11, <1>12, <1>16 DEF Grows
<1>20. Has(n, v) => Grows(channel[n][v], d)  BY <1>14, <1>19, GrowsTwice
<1>21. Ready(n, v, o)  BY <1>2, <1>13, <1>18, <1>20 DEF Ready, LeadsChains
<1>22. QED  BY <1>2, <1>5, <1>11, <1>12, <1>13, <1>21

\* receiveProposal of an objective, with a lawful proposal.
LEMMA IncorporatedIsReady ==
  ASSUME FundingInv, NEW n \in Nodes, NEW v \in Targets, NEW old, Ready(n, v, old),
         NEW l \in Ledgers, NEW sp \in SignedProposal, IsLawful(sp.proposal),
         NEW o, o = Incorporated(n, l, old, sp)
  PROVE  Ready(n, v, o) /\ o.status = old.status /\ o.channel = old.channel
                        /\ o.minimum = old.minimum
<1>1. PICK s \in Status, minimum \in Nat, c \in Channel, copies \in [Ledgers -> Copy] :
        old = [status |-> s, minimum |-> minimum, channel |-> c, copies |-> copies]
  BY DEF Ready, Memory
<1>2. old.status = s /\ old.minimum = minimum /\ old.channel = c /\ old.copies = copies
  BY <1>1
<1>3. PICK party : party = Party(n, l)  OBVIOUS
<1>4. PICK new : new = Received(party, copies[l], sp)  OBVIOUS
<1>5. PICK now : now = [copies EXCEPT ![l] = new]  OBVIOUS
<1>6. o = [status |-> s, minimum |-> minimum, channel |-> c, copies |-> now]
  <2>1. o = [old EXCEPT !.copies = [copies EXCEPT ![l] = new]]
    BY <1>2, <1>3, <1>4 DEF Incorporated
  <2>2. QED  BY <1>1, <1>5, <2>1
<1>7. /\ party \in Parties /\ copies[l] \in Copy
      /\ party = Leader => Chain(copies[l].current, copies[l].queue)
      /\ party = Leader <=> Ends[l][Leader] = n
  BY <1>2, <1>3, PartyIs DEF Ready, LeadsChains
<1>8. /\ Evolves(copies[l], new, {sp.proposal})
      /\ party = Leader => Chain(new.current, new.queue)
  BY <1>4, <1>7, ReceivedIs
<1>9. new \in Copy  BY <1>8 DEF Evolves
<1>10. now \in [Ledgers -> Copy] /\ now[l] = new
       /\ \A k \in Ledgers : k # l => now[k] = copies[k]
  BY <1>5, <1>9
<1>11. /\ o \in Memory
       /\ o.status = s /\ o.minimum = minimum /\ o.channel = c /\ o.copies = now
  BY <1>6, <1>10, MemoryOf
<1>12. ASSUME NEW k \in Ledgers
       PROVE  Evolves(ledger[k][Party(n, k)], now[k], {q \in Proposal : IsLawful(q)})
  <2> DEFINE lawful == {q \in Proposal : IsLawful(q)}
  <2>1. Evolves(ledger[k][Party(n, k)], copies[k], lawful)  BY <1>2 DEF Ready
  <2>2. CASE k = l
    <3>1. {sp.proposal} \subseteq lawful  BY DEF SignedProposal
    <3> HIDE DEF lawful
    <3>2. Evolves(ledger[k][Party(n, k)], now[k], lawful)
      BY <1>8, <1>10, <2>1, <2>2, <3>1, EvolvesTwice
    <3>3. QED  BY <3>2 DEF lawful
  <2>3. CASE k # l  BY <1>10, <2>1, <2>3
  <2>4. QED  BY <2>2, <2>3
<1>13. ASSUME NEW k \in Ledgers, Ends[k][Leader] = n
       PROVE  Chain(now[k].current, now[k].queue)
  BY <1>2, <1>7, <1>8, <1>10, <1>13 DEF Ready, LeadsChains
<1>14. Ready(n, v, o)  BY <1>2, <1>11, <1>12, <1>13 DEF Ready, LeadsChains
<1>15. QED  BY <1>2, <1>11, <1>14

-----------------------------------------------------------------------------
(***************************************************************************)
(* The actions, one by one.                                                *)
(***************************************************************************)

\* The voucher manager takes note of an amount.
LEMMA NewVoucher ==
  ASSUME FundingInv, NEW n \in Nodes, NEW v \in Targets,
         NEW amount \in Nat, amount <= Deposit[v].a0,
         vouchers' = [vouchers EXCEPT ![n][v] = amount]
  PROVE  VouchersStep /\ vouchers'[n][v] # NoVoucher
<1>1. vouchers \in [Nodes -> [Targets -> Nat \cup {NoVoucher}]]
  BY DEF FundingInv, TypeOK
<1>2. /\ vouchers' \in [Nodes -> [Targets -> Nat \cup {NoVoucher}]]
      /\ \A m \in Nodes, u \in Targets :
           vouchers'[m][u] = IF m = n /\ u = v THEN amount ELSE vouchers[m][u]
  BY <1>1
<1>3. \A m \in Nodes, u \in Targets : vouchers[m][u] # NoVoucher =>
                                        vouchers[m][u] <= Deposit[u].a0
  BY DEF FundingInv, BoundedInv, Paid
<1>4. QED  BY <1>2, <1>3, NoVoucherAssumption DEF VouchersStep

\* What the rest of the state is.
LEMMA RestIs ==
  ASSUME FundingInv
  PROVE  /\ owner \in [Nodes -> [Targets -> Kinds \cup {"none"}]]
         /\ asked \subseteq Nodes \X Targets
         /\ signed \in [Ledgers -> SUBSET Vars]
         /\ "fund" \in Kinds /\ "defund" \in Kinds
         /\ "approved" \in Status /\ "unapproved" \in Status /\ "rejected" \in Status
BY KindsAssumption DEF FundingInv, TypeOK, Status

\* An event that changes nothing stored, and ends in either way.
LEMMA NothingStored ==
  ASSUME FundingInv, NEW n \in Nodes, NEW left, IsLeft(left),
         \/ Ignore(n, left)
         \/ \E error \in Errors : Fail(n, error, left),
         asked' \subseteq Nodes \X Targets
  PROVE  FundingInv'
<1>1. UNCHANGED stored  BY DEF Ignore, Fail
<1>2. Keeps /\ StoredKept  BY <1>1, RestIs, SameVouchers, SameStores DEF stored
<1>3. owner' \in [Nodes -> [Targets -> Kinds \cup {"none"}]]
  BY <1>1, RestIs DEF stored
<1>4. CASE Ignore(n, left)
  <2>1. GoOn(n, left, {}, << >>) /\ << >> \in Seq(Proposal)  BY <1>4 DEF Ignore
  <2>2. PICK messages : messages = {}  OBVIOUS
  <2>3. PICK heads \in Seq(Proposal) : heads = << >>  BY <2>1
  <2>4. GoOn(n, left, messages, heads)  BY <2>1, <2>2, <2>3
  <2>5. QED  BY <1>2, <1>3, <2>2, <2>4, WentOn
<1>5. CASE \E error \in Errors : Fail(n, error, left)
  <2>1. PICK error \in Errors : Stop(n, error, left)  BY <1>5 DEF Fail
  <2>2. QED  BY <1>2, <1>3, <2>1, Stopped
<1>6. QED  BY <1>4, <1>5

\* VirtualFundObjectiveRequest.
LEMMA RequestFundKeeps ==
  ASSUME FundingInv, NEW v \in Targets, RequestFund(v)
  PROVE  FundingInv'
<1>1. PICK n \in Nodes : n = Alice(v)  BY PathIs
<1>2. PICK o : o = NewFundObjective(n, v, "approved")  OBVIOUS
<1>3. PICK before : before = InMemory(n, "fund", v)  OBVIOUS
<1>4. PICK left : left = Left(n)  OBVIOUS
<1>5. /\ vouchers[n][v] = NoVoucher
      /\ AttemptProgress(n, "fund", v, before, o, left)
      /\ vouchers' = [vouchers EXCEPT ![n][v] = 0]
      /\ asked' = asked
  BY <1>1, <1>2, <1>3, <1>4 DEF RequestFund
<1>6. Ready(n, v, o) /\ o.status = "approved"
  BY <1>2, <1>5, RestIs, NewFundIsReady
<1>7. IsLeft(left)  BY <1>4, LeftIs
<1>8. VouchersStep /\ vouchers'[n][v] # NoVoucher
  <2>1. PICK amount \in Nat : amount = 0 /\ amount <= Deposit[v].a0
    BY ExpectedProposals
  <2>2. vouchers' = [vouchers EXCEPT ![n][v] = amount]  BY <1>5, <2>1
  <2>3. QED  BY <2>1, <2>2, NewVoucher
<1>9. "fund" \in Kinds /\ asked' \subseteq Nodes \X Targets  BY <1>5, RestIs
<1>10. QED  BY <1>3, <1>5, <1>6, <1>7, <1>8, <1>9, AttemptKeeps

\* VirtualDefundObjectiveRequest.
LEMMA RequestDefundKeeps ==
  ASSUME FundingInv, NEW n \in Nodes, NEW v \in Targets, RequestDefund(n, v)
  PROVE  FundingInv'
<1>1. PICK left : left = Left(n)  OBVIOUS
<1>2. IsLeft(left)  BY <1>1, LeftIs
<1>3. asked' \subseteq Nodes \X Targets
  <2>1. asked' = asked \cup {<<n, v>>}  BY DEF RequestDefund
  <2>2. <<n, v>> \in Nodes \X Targets  OBVIOUS
  <2>3. QED  BY <2>1, <2>2, RestIs
<1>4. CASE channel[n][v] = NoChannel
  <2>1. Fail(n, "could not find channel", left)  BY <1>1, <1>4 DEF RequestDefund
  <2>2. PICK error \in Errors : error = "could not find channel"  BY DEF Errors
  <2>3. Fail(n, error, left)  BY <2>1, <2>2
  <2>4. QED  BY <1>2, <1>3, <2>3, NothingStored
<1>5. CASE channel[n][v] # NoChannel
  <2>1. PICK o : o = NewDefundObjective(n, v, "approved")  OBVIOUS
  <2>2. PICK before : before = InMemory(n, "defund", v)  OBVIOUS
  <2>3. AttemptProgress(n, "defund", v, before, o, left) /\ vouchers' = vouchers
    BY <1>1, <1>5, <2>1, <2>2 DEF RequestDefund
  <2>4. Has(n, v)  BY <1>5 DEF Has
  <2>5. Ready(n, v, o) /\ o.status = "approved"
    BY <2>1, <2>4, RestIs, NewDefundIsReady
  <2>6. VouchersStep  BY <2>3, SameVouchers
  <2>7. vouchers'[n][v] # NoVoucher  BY <2>3, <2>4 DEF FundingInv, KnownInv
  <2>8. "defund" \in Kinds  BY RestIs
  <2>9. QED  BY <1>2, <1>3, <2>2, <2>3, <2>5, <2>6, <2>7, <2>8, AttemptKeeps
<1>6. QED  BY <1>4, <1>5

\* handlePaymentRequest.
LEMMA PayKeeps ==
  ASSUME FundingInv, NEW v \in Targets, NEW amount \in 1..MaxAmount, Pay(v, amount)
  PROVE  FundingInv'
<1>1. PICK n \in Nodes : n = Alice(v)  BY PathIs
<1>2. PICK total : total = Paid(n, v) + amount  OBVIOUS
<1>3. PICK m : m = [type |-> "voucher", v |-> v, from |-> n, to |-> Bob(v), paid |-> total]
  OBVIOUS
<1>4. /\ vouchers[n][v] # NoVoucher
      /\ total <= Deposit[v].a0
      /\ vouchers' = [vouchers EXCEPT ![n][v] = vouchers[n][v] + amount]
      /\ network' = network \cup {m}
      /\ UNCHANGED <<objective, channel, ledger, owner, signed, inbox, toProcess,
                     engine, asked>>
  BY <1>1, <1>2, <1>3 DEF Pay
<1>5. total \in Nat /\ vouchers' = [vouchers EXCEPT ![n][v] = total]
  BY <1>2, <1>4, MaxAmountAssumption, TypeIs DEF FundingInv, Paid
<1>6. VouchersStep  BY <1>4, <1>5, NewVoucher
<1>7. Keeps /\ StoredKept  BY <1>4, <1>6, RestIs, SameStores
<1>8. m \in Payloads /\ IsTrue(m)'
  <2>1. m \in Payloads /\ m.type = "voucher" /\ m.paid = total /\ m.v = v
    BY <1>3, <1>5, PathIs DEF Payloads
  <2>2. QED  BY <1>4, <2>1 DEF IsTrue
<1>9. TypeOK /\ InboxInv /\ MessagesInv  BY DEF FundingInv
<1>10. MessagesInv'
  <2>1. ASSUME NEW x \in network' PROVE IsTrue(x)'
    <3>1. CASE x = m  BY <1>8, <3>1
    <3>2. CASE x \in network
      BY <1>7, <1>9, <3>2, TrueStays DEF TypeOK, MessagesInv
    <3>3. QED  BY <1>4, <3>1, <3>2
  <2>2. QED  BY <2>1 DEF MessagesInv
<1>11. InboxInv'
  <2>1. ASSUME NEW k \in Nodes, NEW i \in 1..Len(inbox[k]), NEW q,
               q = inbox[k][i].sp.proposal
        PROVE  IsLawful(q)'
    <3> DEFINE Entry == [ledger : Ledgers, sp : SignedProposal]
    <3>1. inbox \in [Nodes -> Seq(Entry)]  BY <1>9 DEF TypeOK
    <3>2. IsLawful(q)  BY <1>9, <2>1 DEF InboxInv
    <3> HIDE DEF Entry
    <3>3. inbox[k] \in Seq(Entry)  BY <3>1
    <3>4. inbox[k][i] \in Entry  BY <3>3
    <3>5. q \in Proposal  BY <2>1, <3>4 DEF Entry, SignedProposal
    <3>6. QED  BY <1>7, <3>2, <3>5 DEF Keeps
  <2>2. QED  BY <1>4, <2>1 DEF InboxInv
<1>12. QED  BY <1>4, <1>7, <1>8, <1>9, <1>10, <1>11, Assembled DEF TypeOK

\* update of an objective with a payload, and attemptProgress.
LEMMA UpdateKeeps ==
  ASSUME FundingInv, NEW n \in Nodes, NEW k \in Kinds, NEW v \in Targets,
         NEW before, Ready(n, v, before), before.status # "unknown",
         NEW m \in Payloads, IsTrue(m), m.v = v, k = KindOf(m),
         m.type \in {"prefund", "postfund", "request", "final"},
         NEW left, IsLeft(left), Update(n, k, v, before, m, left),
         VouchersStep, vouchers'[n][v] # NoVoucher, asked' \subseteq Nodes \X Targets
  PROVE  FundingInv'
<1>1. CASE k = "fund"
  <2>1. m.type \in {"prefund", "postfund"}  BY <1>1 DEF KindOf
  <2>2. PICK o : o = FundUpdated(v, before, m)  OBVIOUS
  <2>3. AttemptProgress(n, k, v, before, o, left)
    BY <1>1, <2>2 DEF Update, UpdateFund, FundUpdated
  <2>4. Ready(n, v, o) /\ o.status = "approved"
    BY <2>1, <2>2, UpdatedFundIsReady
  <2>5. o.status # "unknown"  BY <2>4
  <2>6. QED  BY <2>3, <2>4, <2>5, AttemptKeeps
<1>2. CASE k # "fund"
  <2>1. PICK approved : approved = [before EXCEPT !.status = "approved"]
    OBVIOUS
  <2>2. Ready(n, v, approved) /\ approved.status = "approved"
    BY <2>1, RestIs, StatusIsReady
  <2>3. k = "defund" /\ UpdateDefund(n, v, before, m, left)
    BY <1>2 DEF Update, KindOf
  <2>4. CASE /\ m.type = "final" /\ DefundUpdates(n, v, approved, m)
             /\ AttemptProgress(n, "defund", v, before, DefundUpdate(approved, m), left)
    <3>1. PICK o : o = DefundUpdate(approved, m)  OBVIOUS
    <3>2. approved.channel.final # NoFinal => approved.channel.final.paid = m.paid
      BY <2>4 DEF DefundUpdates
    <3>3. Ready(n, v, o) /\ o.status = approved.status
      BY <2>2, <2>4, <3>1, <3>2, UpdatedDefundIsReady
    <3>4. AttemptProgress(n, k, v, before, o, left) /\ o.status # "unknown"
      BY <2>2, <2>3, <2>4, <3>1, <3>3
    <3>5. QED  BY <3>3, <3>4, AttemptKeeps
  <2>5. CASE /\ Save(n, "defund", v, before)
             /\ Stop(n, IF m.type = "request" THEN "empty objective"
                                              ELSE "outcome failed validation", left)
             /\ UNCHANGED owner
    <3>1. Keeps /\ StoredKept  BY <2>3, <2>5, SavedReady
    <3>2. PICK error \in Errors : error = IF m.type = "request" THEN "empty objective"
                                          ELSE "outcome failed validation"
      BY DEF Errors
    <3>3. Stop(n, error, left) /\ owner' \in [Nodes -> [Targets -> Kinds \cup {"none"}]]
      BY <2>5, <3>2, RestIs
    <3>4. QED  BY <3>1, <3>3, Stopped
  <2>6. QED  BY <2>1, <2>3, <2>4, <2>5 DEF UpdateDefund
<1>3. QED  BY <1>1, <1>2

\* The policy maker refuses an objective.
LEMMA RejectKeeps ==
  ASSUME FundingInv, NEW n \in Nodes, NEW k \in Kinds, NEW v \in Targets,
         NEW o, Ready(n, v, o), NEW left, IsLeft(left), Reject(n, k, v, o, left),
         VouchersStep, vouchers'[n][v] # NoVoucher, asked' \subseteq Nodes \X Targets
  PROVE  FundingInv'
<1>1. PICK new : new = [o EXCEPT !.status = "rejected"]  OBVIOUS
<1>2. PICK messages : messages = RejectionNotice(n, k, v)  OBVIOUS
<1>3. PICK heads \in Seq(Proposal) : heads = << >>
  <2>1. << >> \in Seq(Proposal)  OBVIOUS
  <2>2. QED  BY <2>1
<1>4. /\ Save(n, k, v, new)
      /\ GoOn(n, left, messages, heads)
      /\ owner' \in [Nodes -> [Targets -> Kinds \cup {"none"}]]
  BY <1>1, <1>2, <1>3, RestIs DEF Reject
<1>5. Ready(n, v, new) /\ new.status = "rejected"
  BY <1>1, RestIs, StatusIsReady
<1>6. new.status # "unknown"  BY <1>5
<1>7. Keeps /\ StoredKept  BY <1>4, <1>5, <1>6, SavedReady
<1>8. ASSUME NEW m \in messages PROVE m \in Rejections /\ IsTrue(m)'
  <2>1. PICK p \in Participants(v) \ {n} :
          m = [type |-> "rejection", kind |-> k, v |-> v, from |-> n, to |-> p]
    BY <1>2 DEF RejectionNotice
  <2>2. m \in Rejections /\ m.type = "rejection"  BY <2>1, PathIs DEF Rejections
  <2>3. QED  BY <2>2 DEF IsTrue, Payloads
<1>9. QED  BY <1>4, <1>7, <1>8, WentOn

\* constructObjectiveFromMessage.
LEMMA ConstructedIsReady ==
  ASSUME FundingInv, NEW n \in Nodes, NEW k \in Kinds, NEW v \in Targets,
         CanConstruct(n, k, v), NEW o, o = Constructed(n, k, v),
         vouchers' = Registered(n, k, v)
  PROVE  /\ Ready(n, v, o) /\ o.status = "unapproved"
         /\ VouchersStep /\ vouchers'[n][v] # NoVoucher
<1>1. CASE k = "fund"
  <2>1. vouchers[n][v] = NoVoucher /\ o = NewFundObjective(n, v, "unapproved")
    BY <1>1 DEF CanConstruct, Constructed
  <2>2. Ready(n, v, o) /\ o.status = "unapproved"
    BY <2>1, RestIs, NewFundIsReady
  <2>3. PICK amount \in Nat : amount = 0 /\ amount <= Deposit[v].a0
    BY ExpectedProposals
  <2>4. vouchers' = [vouchers EXCEPT ![n][v] = amount]
    BY <1>1, <2>3 DEF Registered
  <2>5. VouchersStep /\ vouchers'[n][v] # NoVoucher  BY <2>3, <2>4, NewVoucher
  <2>6. QED  BY <2>2, <2>5
<1>2. CASE k # "fund"
  <2>1. Has(n, v) /\ o = NewDefundObjective(n, v, "unapproved") /\ vouchers' = vouchers
    BY <1>2 DEF CanConstruct, Constructed, Registered, Has
  <2>2. Ready(n, v, o) /\ o.status = "unapproved"
    BY <2>1, RestIs, NewDefundIsReady
  <2>3. VouchersStep /\ vouchers'[n][v] # NoVoucher
    BY <2>1, SameVouchers DEF FundingInv, KnownInv
  <2>4. QED  BY <2>2, <2>3
<1>3. QED  BY <1>1, <1>2

\* An objective that is known has its channel in the store.
LEMMA KnownIs ==
  ASSUME FundingInv, NEW n \in Nodes, NEW k \in Kinds, NEW v \in Targets,
         NEW o, o = InMemory(n, k, v), o.status # "unknown"
  PROVE  /\ Has(n, v) /\ Ready(n, v, o)
         /\ vouchers[n][v] # NoVoucher
<1>1. o.status = objective[n][k][v].status  BY DEF InMemory
<1>2. Has(n, v) /\ vouchers[n][v] # NoVoucher  BY <1>1 DEF FundingInv, KnownInv
<1>3. QED  BY <1>2, StoredIsReady

\* A payload of an objective.
LEMMA ReceivePayloadKeeps ==
  ASSUME FundingInv, NEW m \in network, ReceiveObjectivePayload(m)
  PROVE  FundingInv'
<1>1. PICK left \in AfterTaking(m), n \in {m.to}, k \in {KindOf(m)} :
        /\ m.type \in {"prefund", "postfund", "request", "final"}
        /\ \/ ConstructObjective(n, k, m.v, m, left)
           \/ CannotConstruct(n, k, m.v, left)
           \/ StopConstructing(n, k, m.v, left)
           \/ UpdateObjective(n, k, m.v, m, left)
           \/ IgnorePayload(n, k, m.v, left)
        /\ asked' = asked
  BY DEF ReceiveObjectivePayload
<1>2. IsLeft(left) /\ n \in Nodes  BY <1>1, AfterTakingIs
<1>3. m \in Payloads /\ IsTrue(m) /\ m.v \in Targets
  BY <1>1 DEF FundingInv, TypeOK, MessagesInv, Payloads, Rejections, Proposals
<1>4. k \in Kinds /\ asked' \subseteq Nodes \X Targets
  BY <1>1, RestIs DEF KindOf
<1>5. PICK v \in Targets : v = m.v  BY <1>3
<1>6. CASE ConstructObjective(n, k, v, m, left)
  <2>1. PICK o : o = Constructed(n, k, v)  OBVIOUS
  <2>2. /\ CanConstruct(n, k, v)
        /\ Update(n, k, v, o, m, left) \/ Reject(n, k, v, o, left)
        /\ vouchers' = Registered(n, k, v)
    BY <1>6, <2>1 DEF ConstructObjective
  <2>3. /\ Ready(n, v, o) /\ o.status = "unapproved"
        /\ VouchersStep /\ vouchers'[n][v] # NoVoucher
    BY <1>2, <1>4, <2>1, <2>2, ConstructedIsReady
  <2>4. o.status # "unknown"  BY <2>3
  <2>5. CASE Update(n, k, v, o, m, left)
    BY <1>1, <1>2, <1>3, <1>4, <1>5, <2>3, <2>4, <2>5, UpdateKeeps
  <2>6. CASE Reject(n, k, v, o, left)  BY <1>2, <1>4, <2>3, <2>6, RejectKeeps
  <2>7. QED  BY <2>2, <2>5, <2>6
<1>7. CASE CannotConstruct(n, k, v, left)
  <2>1. PICK error \in Errors : error = "error constructing objective from message"
    BY DEF Errors
  <2>2. Fail(n, error, left)  BY <1>7, <2>1 DEF CannotConstruct
  <2>3. QED  BY <1>2, <1>4, <2>2, NothingStored
<1>8. CASE StopConstructing(n, k, v, left)
  <2>1. PICK o, before : o = Constructed(n, k, v) /\ before = InMemory(n, k, v)
    OBVIOUS
  <2>2. PICK error \in Errors : error = "crash"  BY DEF Errors
  <2>3. /\ CanConstruct(n, k, v)
        /\ Save(n, k, v, before) \/ Save(n, k, v, o)
        /\ Stop(n, error, left)
        /\ vouchers' = Registered(n, k, v)
        /\ owner' = owner
    BY <1>8, <2>1, <2>2 DEF StopConstructing
  <2>4. /\ Ready(n, v, o) /\ o.status = "unapproved"
        /\ VouchersStep /\ vouchers'[n][v] # NoVoucher
    BY <1>2, <1>4, <2>1, <2>3, ConstructedIsReady
  <2>5. o.status # "unknown"  BY <2>4
  <2>6. Keeps /\ StoredKept
    <3>1. CASE Save(n, k, v, before)  BY <1>2, <1>4, <2>1, <2>4, <3>1, SaveSame
    <3>2. CASE Save(n, k, v, o)  BY <1>2, <1>4, <2>4, <2>5, <3>2, SavedReady
    <3>3. QED  BY <2>3, <3>1, <3>2
  <2>7. owner' \in [Nodes -> [Targets -> Kinds \cup {"none"}]]  BY <2>3, RestIs
  <2>8. QED  BY <1>2, <1>4, <2>3, <2>6, <2>7, Stopped
<1>9. CASE UpdateObjective(n, k, v, m, left)
  <2>1. PICK o : o = InMemory(n, k, v)  OBVIOUS
  <2>2. /\ o.status \in {"unapproved", "approved"}
        /\ Update(n, k, v, o, m, left) \/ Reject(n, k, v, o, left)
        /\ vouchers' = vouchers
    BY <1>9, <2>1 DEF UpdateObjective
  <2>3. o.status # "unknown"  BY <2>2
  <2>4. Ready(n, v, o) /\ vouchers[n][v] # NoVoucher
    BY <1>2, <1>4, <2>1, <2>3, KnownIs
  <2>5. VouchersStep /\ vouchers'[n][v] # NoVoucher  BY <2>2, <2>4, SameVouchers
  <2>6. CASE Update(n, k, v, o, m, left)
    BY <1>1, <1>2, <1>3, <1>4, <1>5, <2>3, <2>4, <2>5, <2>6, UpdateKeeps
  <2>7. CASE Reject(n, k, v, o, left)
    BY <1>2, <1>4, <2>4, <2>5, <2>7, RejectKeeps
  <2>8. QED  BY <2>2, <2>6, <2>7
<1>10. CASE IgnorePayload(n, k, v, left)
  BY <1>2, <1>4, <1>10, NothingStored DEF IgnorePayload
<1>11. QED  BY <1>1, <1>5, <1>6, <1>7, <1>8, <1>9, <1>10

\* The proposals of a message are taken into the inbox.
LEMMA ReceiveProposalsKeeps ==
  ASSUME FundingInv, NEW m \in network, ReceiveProposals(m)
  PROVE  FundingInv'
<1>1. PICK entries : entries = [i \in DOMAIN m.proposals |->
                                  [ledger |-> m.ledger, sp |-> m.proposals[i]]]
  OBVIOUS
<1>2. /\ m.type = "proposals"
      /\ UNCHANGED <<stored, asked>>
  BY DEF ReceiveProposals
<1>3. PICK left \in AfterTaking(m) :
        GoOn(m.to, [left EXCEPT !.inbox = entries], {}, << >>)
  BY <1>1 DEF ReceiveProposals
<1>4. /\ m \in Proposals
      /\ \A q \in ProposalsOf(m.proposals) : IsLawful(q)
  BY <1>2 DEF FundingInv, TypeOK, MessagesInv, IsTrue, Payloads, Rejections, Proposals
<1>5. PICK queue \in Seq(SignedProposal), l \in Ledgers : queue = m.proposals /\ l = m.ledger
  BY <1>4 DEF Proposals
<1>6. /\ IsLeft(left) /\ m.to \in Nodes
      /\ left = [inbox |-> inbox[m.to], toProcess |-> toProcess[m.to],
                 network |-> left.network]
  BY AfterTakingIs
<1> DEFINE Entry == [ledger : Ledgers, sp : SignedProposal]
<1>7. /\ entries \in Seq(Entry) /\ Len(entries) = Len(queue)
      /\ \A i \in 1..Len(queue) : entries[i] = [ledger |-> l, sp |-> queue[i]]
  <2>1. entries = [i \in 1..Len(queue) |-> [ledger |-> l, sp |-> queue[i]]]
    BY <1>1, <1>5
  <2>2. \A i \in 1..Len(queue) : queue[i] \in SignedProposal  OBVIOUS
  <2>3. entries \in [1..Len(queue) -> Entry]  BY <2>1, <2>2
  <2>4. Len(queue) \in Nat  OBVIOUS
  <2> HIDE DEF Entry
  <2>5. entries \in Seq(Entry) /\ Len(entries) = Len(queue)  BY <2>3, <2>4
  <2>6. QED  BY <2>1, <2>5
<1>8. ASSUME NEW i \in 1..Len(entries) PROVE IsLawful(entries[i].sp.proposal)
  <2>1. i \in 1..Len(queue) /\ entries[i] = [ledger |-> l, sp |-> queue[i]]
    BY <1>7
  <2>2. entries[i].sp = queue[i]  BY <2>1
  <2>3. queue[i].proposal \in ProposalsOf(queue)  BY <2>1 DEF ProposalsOf
  <2>4. IsLawful(queue[i].proposal)  BY <1>4, <1>5, <2>3
  <2>5. QED  BY <2>2, <2>4
<1>9. PICK rest : rest = [left EXCEPT !.inbox = entries]  OBVIOUS
<1>10. /\ rest.inbox = entries /\ rest.toProcess = left.toProcess
       /\ rest.network = left.network
  BY <1>6, <1>9
<1>11. IsLeft(rest)  BY <1>6, <1>7, <1>8, <1>10 DEF IsLeft
<1>12. Ignore(m.to, rest)  BY <1>2, <1>3, <1>9 DEF Ignore
<1>13. QED  BY <1>2, <1>6, <1>11, <1>12, RestIs, NothingStored

\* What the node that takes up an event leaves of a message is vouched for.
IsVouchedLeft(left) ==
  \A i \in 1..Len(left.inbox) : IsVouched(left.inbox[i].ledger, left.inbox[i].sp)

\* A proposal, the first of the message that is handled or the one at the head
\* of a follower's queue, has no effect, or its objective o is cranked as new.
Cranks(n, k, v, o, new, left) ==
  /\ AttemptProgress(n, k, v, o, new, left)
  /\ vouchers' = vouchers /\ vouchers[n][v] # NoVoucher
  /\ Ready(n, v, o) /\ Ready(n, v, new)
  /\ o.status # "unknown" /\ new.status = o.status /\ new.channel = o.channel
  /\ new.minimum = o.minimum

Handles(n, k, v, o, new, left) ==
  /\ k \in Kinds /\ v \in Targets /\ o = InMemory(n, k, v) /\ asked' = asked
  /\ IsLeft(left) /\ left.network = network
  /\ \/ Ignore(n, left)
     \/ \E error \in Errors : Fail(n, error, left)
     \/ Cranks(n, k, v, o, new, left)

\* A proposal of the message that is handled.
LEMMA ReceiveProposalIs ==
  ASSUME FundingInv, NEW n \in Nodes, ReceiveProposal(n)
  PROVE  \E sp, l, k, v, o, left :
           /\ sp \in SignedProposal /\ l \in Ledgers
           /\ Handles(n, k, v, o, Incorporated(n, l, o, sp), left)
           /\ v = sp.proposal.target /\ k = ProposalKind(sp.proposal)
           /\ VouchedInv => IsVouched(l, sp) /\ IsVouchedLeft(left)
<1> DEFINE Entry == [ledger : Ledgers, sp : SignedProposal]
<1>1. inbox[n] # << >> /\ asked' = asked  BY DEF ReceiveProposal
<1>2. /\ inbox[n] \in Seq(Entry) /\ toProcess[n] \in Seq(Proposal)
      /\ \A i \in 1..Len(inbox[n]) :
           /\ IsLawful(inbox[n][i].sp.proposal)
           /\ VouchedInv => IsVouched(inbox[n][i].ledger, inbox[n][i].sp)
  BY DEF FundingInv, TypeOK, InboxInv, VouchedInv
<1>3. PICK left : left = [Left(n) EXCEPT !.inbox = Tail(@)]  OBVIOUS
<1>4. /\ left.inbox = Tail(inbox[n]) /\ left.toProcess = toProcess[n]
      /\ left.network = network
  BY <1>3 DEF Left
<1> HIDE DEF Entry
<1>5. /\ 1 \in 1..Len(inbox[n]) /\ Head(inbox[n]) = inbox[n][1]
      /\ inbox[n][1] \in Entry
      /\ Tail(inbox[n]) \in Seq(Entry)
      /\ \A i \in 1..Len(Tail(inbox[n])) :
           i + 1 \in 1..Len(inbox[n]) /\ Tail(inbox[n])[i] = inbox[n][i + 1]
  BY <1>1, <1>2
<1>6. IsLeft(left) /\ (VouchedInv => IsVouchedLeft(left))
  <2>1. \A i \in 1..Len(left.inbox) :
          /\ IsLawful(left.inbox[i].sp.proposal)
          /\ VouchedInv => IsVouched(left.inbox[i].ledger, left.inbox[i].sp)
    BY <1>2, <1>4, <1>5
  <2>2. QED  BY <1>2, <1>4, <1>5, <2>1 DEF IsLeft, IsVouchedLeft, Entry
<1>7. PICK sp \in SignedProposal, l \in Ledgers :
        sp = Head(inbox[n]).sp /\ l = Head(inbox[n]).ledger
  BY <1>5 DEF Entry
<1>8. IsLawful(sp.proposal) /\ (VouchedInv => IsVouched(l, sp))
  BY <1>2, <1>5, <1>7
<1>9. PICK v \in Targets : v = sp.proposal.target
  BY TargetIs DEF SignedProposal
<1>10. PICK k \in Kinds : k = ProposalKind(sp.proposal)
  BY RestIs DEF ProposalKind
<1>11. PICK o, new : o = InMemory(n, k, v) /\ new = Incorporated(n, l, o, sp)
  OBVIOUS
<1>12. \/ Ignore(n, left)
       \/ \E error \in Errors : Fail(n, error, left)
       \/ /\ o.status # "unknown"
          /\ AttemptProgress(n, k, v, o, new, left)
          /\ vouchers' = vouchers
  BY <1>3, <1>7, <1>9, <1>10, <1>11 DEF ReceiveProposal, Errors
<1>13. ASSUME o.status # "unknown"
       PROVE  /\ Ready(n, v, o) /\ vouchers[n][v] # NoVoucher
              /\ Ready(n, v, new) /\ new.status = o.status /\ new.channel = o.channel
              /\ new.minimum = o.minimum
  <2>1. Ready(n, v, o) /\ vouchers[n][v] # NoVoucher  BY <1>11, <1>13, KnownIs
  <2>2. QED  BY <1>8, <1>11, <2>1, IncorporatedIsReady
<1>14. Handles(n, k, v, o, new, left)
  BY <1>1, <1>4, <1>6, <1>11, <1>12, <1>13 DEF Handles, Cranks
<1>15. QED  BY <1>6, <1>8, <1>9, <1>10, <1>11, <1>14

\* The proposal at the head of a follower's queue.
LEMMA ProcessHeadIs ==
  ASSUME FundingInv, NEW n \in Nodes, ProcessHead(n)
  PROVE  \E k, v, o, left :
           Handles(n, k, v, o, o, left) /\ left.inbox = inbox[n]
<1>1. toProcess[n] # << >> /\ asked' = asked  BY DEF ProcessHead
<1>2. PICK left : left = [Left(n) EXCEPT !.toProcess = Tail(@)]  OBVIOUS
<1>3. /\ left.inbox = inbox[n] /\ left.toProcess = Tail(toProcess[n])
      /\ left.network = network
  BY <1>2 DEF Left
<1>4. toProcess[n] \in Seq(Proposal)  BY DEF FundingInv, TypeOK
<1>5. Tail(toProcess[n]) \in Seq(Proposal) /\ Head(toProcess[n]) \in Proposal
  BY <1>1, <1>4
<1>6. IsLeft(left)  BY <1>3, <1>5, LeftIs DEF IsLeft
<1>7. PICK v \in Targets, k \in Kinds :
        v = Head(toProcess[n]).target /\ k = ProposalKind(Head(toProcess[n]))
  BY <1>5, TargetIs, RestIs DEF ProposalKind
<1>8. PICK o : o = InMemory(n, k, v)  OBVIOUS
<1>9. \/ Ignore(n, left)
      \/ \E error \in Errors : Fail(n, error, left)
      \/ /\ o.status # "unknown"
         /\ AttemptProgress(n, k, v, o, o, left)
         /\ vouchers' = vouchers
  BY <1>2, <1>7, <1>8 DEF ProcessHead, Errors
<1>10. o.status # "unknown" => Ready(n, v, o) /\ vouchers[n][v] # NoVoucher
  BY <1>8, KnownIs
<1>11. Handles(n, k, v, o, o, left)
  BY <1>1, <1>3, <1>6, <1>8, <1>9, <1>10 DEF Handles, Cranks
<1>12. QED  BY <1>3, <1>11

\* A proposal is handled.
LEMMA HandleProposalKeeps ==
  ASSUME FundingInv, NEW n \in Nodes, ReceiveProposal(n) \/ ProcessHead(n)
  PROVE  FundingInv'
<1>1. PICK k, v, o, new, left : Handles(n, k, v, o, new, left)
  BY ReceiveProposalIs, ProcessHeadIs
<1>2. /\ k \in Kinds /\ v \in Targets /\ IsLeft(left)
      /\ asked' \subseteq Nodes \X Targets
  BY <1>1, RestIs DEF Handles
<1>3. CASE Ignore(n, left) \/ \E error \in Errors : Fail(n, error, left)
  BY <1>2, <1>3, NothingStored
<1>4. CASE Cranks(n, k, v, o, new, left)
  <2>1. VouchersStep /\ vouchers'[n][v] # NoVoucher
    BY <1>2, <1>4, SameVouchers DEF Cranks
  <2>2. /\ o = InMemory(n, k, v) /\ Ready(n, v, new) /\ new.status # "unknown"
        /\ AttemptProgress(n, k, v, o, new, left)
    BY <1>1, <1>4 DEF Handles, Cranks
  <2>3. QED  BY <1>2, <2>1, <2>2, AttemptKeeps
<1>5. QED  BY <1>1, <1>3, <1>4 DEF Handles

\* A rejection notice.
LEMMA ReceiveRejectionKeeps ==
  ASSUME FundingInv, NEW m \in network, ReceiveRejection(m)
  PROVE  FundingInv'
<1>1. m.type = "rejection" /\ asked' = asked  BY DEF ReceiveRejection
<1>2. m \in Rejections  BY <1>1 DEF FundingInv, TypeOK, Payloads, Proposals
<1>3. PICK n \in Nodes, k \in Kinds, v \in Targets : n = m.to /\ k = m.kind /\ v = m.v
  BY <1>2 DEF Rejections
<1>4. PICK o : o = InMemory(n, k, v)  OBVIOUS
<1>5. PICK left \in AfterTaking(m) :
        \/ Fail(n, "no such objective", left)
        \/ Ignore(n, left)
        \/ /\ o.status # "unknown"
           /\ Save(n, k, v, [o EXCEPT !.status = "rejected"])
           /\ GoOn(n, left, {}, << >>)
           /\ UNCHANGED <<owner, vouchers>>
  BY <1>3, <1>4 DEF ReceiveRejection
<1>6. IsLeft(left)  BY AfterTakingIs
<1>7. asked' \subseteq Nodes \X Targets  BY <1>1, RestIs
<1>8. CASE Ignore(n, left)  BY <1>6, <1>7, <1>8, NothingStored
<1>9. CASE Fail(n, "no such objective", left)
  <2>1. PICK error \in Errors : error = "no such objective"  BY DEF Errors
  <2>2. Fail(n, error, left)  BY <1>9, <2>1
  <2>3. QED  BY <1>6, <1>7, <2>2, NothingStored
<1>10. CASE /\ o.status # "unknown"
            /\ Save(n, k, v, [o EXCEPT !.status = "rejected"])
            /\ GoOn(n, left, {}, << >>)
            /\ UNCHANGED <<owner, vouchers>>
  <2>1. Ready(n, v, o) /\ vouchers[n][v] # NoVoucher  BY <1>4, <1>10, KnownIs
  <2>2. PICK new : new = [o EXCEPT !.status = "rejected"]  OBVIOUS
  <2>3. Ready(n, v, new) /\ new.status = "rejected"
    BY <2>1, <2>2, RestIs, StatusIsReady
  <2>4. new.status # "unknown" /\ Save(n, k, v, new)  BY <1>10, <2>2, <2>3
  <2>5. VouchersStep /\ vouchers'[n][v] # NoVoucher
    BY <1>10, <2>1, SameVouchers
  <2>6. Keeps /\ StoredKept  BY <2>3, <2>4, <2>5, SavedReady
  <2>7. PICK heads \in Seq(Proposal), messages \in {{}} : heads = << >>
    <3>1. << >> \in Seq(Proposal)  OBVIOUS
    <3>2. QED  BY <3>1
  <2>8. GoOn(n, left, messages, heads) /\ messages = {}  BY <1>10, <2>7
  <2>9. owner' \in [Nodes -> [Targets -> Kinds \cup {"none"}]]  BY <1>10, RestIs
  <2>10. messages \subseteq Payloads \cup Rejections \cup Proposals
         /\ \A x \in messages : IsTrue(x)'
    BY <2>8
  <2>11. QED  BY <1>6, <1>7, <2>6, <2>7, <2>8, <2>9, <2>10, WentOn
<1>11. QED  BY <1>5, <1>8, <1>9, <1>10

\* A voucher.
LEMMA ReceiveVoucherKeeps ==
  ASSUME FundingInv, NEW m \in network, ReceiveVoucher(m)
  PROVE  FundingInv'
<1>1. m.type = "voucher" /\ asked' = asked  BY DEF ReceiveVoucher
<1>2. m \in Payloads /\ IsTrue(m)
  BY <1>1 DEF FundingInv, TypeOK, MessagesInv, Rejections, Proposals
<1>3. PICK n \in Nodes, v \in Targets, paid \in Nat :
        n = m.to /\ v = m.v /\ paid = m.paid /\ paid <= Deposit[v].a0
  BY <1>2 DEF Payloads, IsTrue
<1>4. PICK left \in AfterTaking(m) :
        \/ Fail(n, "channel not registered", left)
        \/ /\ vouchers[n][v] # NoVoucher
           /\ vouchers' = [vouchers EXCEPT ![n][v] = LargerOf(vouchers[n][v], paid)]
           /\ \/ Stop(n, "could not fetch channel for voucher", left)
              \/ GoOn(n, left, {}, << >>)
           /\ UNCHANGED <<objective, channel, ledger, owner, signed>>
  BY <1>3 DEF ReceiveVoucher
<1>5. IsLeft(left)  BY AfterTakingIs
<1>6. asked' \subseteq Nodes \X Targets  BY <1>1, RestIs
<1>7. CASE Fail(n, "channel not registered", left)
  <2>1. PICK error \in Errors : error = "channel not registered"  BY DEF Errors
  <2>2. Fail(n, error, left)  BY <1>7, <2>1
  <2>3. QED  BY <1>5, <1>6, <2>2, NothingStored
<1>8. CASE /\ vouchers[n][v] # NoVoucher
           /\ vouchers' = [vouchers EXCEPT ![n][v] = LargerOf(vouchers[n][v], paid)]
           /\ \/ Stop(n, "could not fetch channel for voucher", left)
              \/ GoOn(n, left, {}, << >>)
           /\ UNCHANGED <<objective, channel, ledger, owner, signed>>
  <2>1. vouchers[n][v] \in Nat /\ vouchers[n][v] <= Deposit[v].a0
    <3>1. vouchers[n][v] \in Nat  BY <1>8, TypeIs DEF FundingInv
    <3>2. Paid(n, v) <= Deposit[v].a0  BY DEF FundingInv, BoundedInv
    <3>3. QED  BY <1>8, <3>1, <3>2 DEF Paid
  <2>2. PICK larger \in Nat : larger = LargerOf(vouchers[n][v], paid)
                              /\ larger <= Deposit[v].a0
    BY <1>3, <2>1 DEF LargerOf
  <2>3. vouchers' = [vouchers EXCEPT ![n][v] = larger]  BY <1>8, <2>2
  <2>4. VouchersStep  BY <2>2, <2>3, NewVoucher
  <2>5. Keeps /\ StoredKept  BY <1>8, <2>4, RestIs, SameStores
  <2>6. owner' \in [Nodes -> [Targets -> Kinds \cup {"none"}]]  BY <1>8, RestIs
  <2>7. CASE GoOn(n, left, {}, << >>)
    <3>1. PICK heads \in Seq(Proposal), messages \in {{}} : heads = << >>
      <4>1. << >> \in Seq(Proposal)  OBVIOUS
      <4>2. QED  BY <4>1
    <3>2. GoOn(n, left, messages, heads) /\ messages = {}  BY <2>7, <3>1
    <3>3. messages \subseteq Payloads \cup Rejections \cup Proposals
          /\ \A x \in messages : IsTrue(x)'
      BY <3>2
    <3>4. QED  BY <1>5, <1>6, <2>5, <2>6, <3>1, <3>2, <3>3, WentOn
  <2>8. CASE Stop(n, "could not fetch channel for voucher", left)
    <3>1. PICK error \in Errors : error = "could not fetch channel for voucher"
      BY DEF Errors
    <3>2. Stop(n, error, left)  BY <2>8, <3>1
    <3>3. QED  BY <1>5, <1>6, <2>5, <2>6, <3>2, Stopped
  <2>9. QED  BY <1>8, <2>7, <2>8
<1>9. QED  BY <1>4, <1>7, <1>8

\* The network loses a message.
LEMMA LoseKeeps ==
  ASSUME FundingInv, NEW m \in network, Lose(m)
  PROVE  FundingInv'
<1>1. PICK n \in Nodes : n = m.to
  BY DEF FundingInv, TypeOK, Payloads, Rejections, Proposals
<1>2. PICK left : left = [Left(n) EXCEPT !.network = network \ {m}]  OBVIOUS
<1>3. /\ left.inbox = inbox[n] /\ left.toProcess = toProcess[n]
      /\ left.network = network \ {m}
  BY <1>2 DEF Left
<1>4. IsLeft(left)  BY <1>3, LeftIs DEF IsLeft
<1>5. /\ inbox' = inbox /\ toProcess' = toProcess /\ network' = left.network
      /\ engine' = engine /\ UNCHANGED stored /\ asked' = asked
  BY <1>3 DEF Lose
<1>6. [inbox EXCEPT ![n] = left.inbox] = inbox  BY <1>3 DEF FundingInv, TypeOK
<1>7. [toProcess EXCEPT ![n] = left.toProcess \o << >>] = toProcess
  <2>1. toProcess[n] \in Seq(Proposal) /\ toProcess \in [Nodes -> Seq(Proposal)]
    BY DEF FundingInv, TypeOK
  <2>2. toProcess[n] \o << >> = toProcess[n]  BY <2>1
  <2>3. QED  BY <1>3, <2>1, <2>2
<1>8. Ignore(n, left)  BY <1>5, <1>6, <1>7 DEF Ignore, GoOn
<1>9. QED  BY <1>4, <1>5, <1>8, RestIs, NothingStored

\* A node is started again.
LEMMA RestartKeeps ==
  ASSUME FundingInv, NEW n \in Nodes, Restart(n)
  PROVE  FundingInv'
<1>1. PICK left : left = Left(n)  OBVIOUS
<1>2. IsLeft(left) /\ left.network = network  BY <1>1, LeftIs
<1>3. PICK running \in Errors \cup {"running"} : running = "running"  OBVIOUS
<1>4. /\ Stop(n, running, left)
      /\ UNCHANGED <<objective, channel, ledger, owner, vouchers, signed, asked>>
  BY <1>2, <1>3 DEF Restart, Stop, stored
<1>5. VouchersStep  BY <1>4, SameVouchers
<1>6. Keeps /\ StoredKept  BY <1>4, <1>5, RestIs, SameStores
<1>7. /\ owner' \in [Nodes -> [Targets -> Kinds \cup {"none"}]]
      /\ asked' \subseteq Nodes \X Targets
  BY <1>4, RestIs
<1>8. QED  BY <1>2, <1>4, <1>6, <1>7, StopKeeps, Assembled

\* At the start nothing has been signed, and every ledger is at its first state.
LEMMA InitFunding == Init => FundingInv
<1> SUFFICES ASSUME Init PROVE FundingInv  OBVIOUS
<1>1. ASSUME NEW l \in Ledgers PROVE FirstState(l) \in Vars
  BY BalanceAssumption DEF FirstState, Vars, Outcome
<1>2. << >> \in Seq(SignedProposal) /\ << >> \in Seq(Proposal)
      /\ << >> \in Seq([ledger : Ledgers, sp : SignedProposal])
  OBVIOUS
<1>3. TypeOK
  <2>1. /\ "unknown" \in Status /\ 0 \in Nat
        /\ objective \in [Nodes -> [Kinds -> [Targets -> [status : Status, minimum : Nat]]]]
    BY DEF Init, Unknown, Status
  <2>2. ledger \in [Ledgers -> [Parties -> Copy]]  BY <1>1, <1>2 DEF Init, Copy
  <2>3. signed \in [Ledgers -> SUBSET Vars]  BY <1>1 DEF Init
  <2>4. /\ inbox \in [Nodes -> Seq([ledger : Ledgers, sp : SignedProposal])]
        /\ toProcess \in [Nodes -> Seq(Proposal)]
    BY <1>2 DEF Init
  <2>5. QED  BY <2>1, <2>2, <2>3, <2>4 DEF Init, TypeOK
<1>4. \A n \in Nodes, v \in Targets : ~ Has(n, v) /\ vouchers[n][v] = NoVoucher
  BY DEF Init, Has
<1>5. \A n \in Nodes, k \in Kinds, v \in Targets :
        objective[n][k][v] = Unknown
  BY DEF Init
<1>6. KnownInv  BY <1>4, <1>5 DEF KnownInv, Unknown
<1>7. BoundedInv
  <2>1. ASSUME NEW n \in Nodes, NEW v \in Targets PROVE Paid(n, v) <= Deposit[v].a0
    BY <1>4, ExpectedProposals DEF Paid
  <2>2. ASSUME NEW n \in Nodes, NEW k \in Kinds, NEW v \in Targets
        PROVE  objective[n][k][v].minimum <= Deposit[v].a0
    <3>1. objective[n][k][v].minimum = 0  BY <1>5 DEF Unknown
    <3>2. QED  BY <3>1, ExpectedProposals
  <2>3. QED  BY <2>1, <2>2 DEF BoundedInv
<1>8. SignaturesInv  BY <1>4 DEF SignaturesInv
<1>9. \A l \in Ledgers, p \in Parties :
        ledger[l][p].current = FirstState(l) /\ ledger[l][p].queue = << >>
  BY DEF Init
<1>10. CopiesInv
  <2>1. ASSUME NEW l \in Ledgers, NEW p \in Parties, NEW v \in Targets
        PROVE  ~ CopyIncludes(ledger[l][p], v)
    <3>1. FirstState(l).outcome.guarantees[v] = NoGuarantee  BY DEF FirstState
    <3>2. ledger[l][p].current = FirstState(l)  BY <1>9
    <3>3. QED  BY <3>1, <3>2 DEF CopyIncludes, IncludesTarget, Includes
  <2>2. \A l \in Ledgers, p \in Parties : ProposalsOf(ledger[l][p].queue) = {}
    BY <1>9 DEF ProposalsOf
  <2>3. QED  BY <2>1, <2>2 DEF CopiesInv
<1>11. LeaderInv  BY <1>9, TwoParties DEF LeaderInv, Chain
<1>12. InboxInv /\ MessagesInv  BY DEF Init, InboxInv, MessagesInv
<1>13. QED  BY <1>3, <1>6, <1>7, <1>8, <1>10, <1>11, <1>12 DEF FundingInv

\* A step that changes nothing.
LEMMA StutterKeeps ==
  ASSUME FundingInv, UNCHANGED vars
  PROVE  FundingInv'
<1>1. UNCHANGED <<objective, channel, ledger, owner, vouchers, signed, inbox, toProcess,
                  engine, network, asked>>
  BY DEF vars, stored
<1>2. \A q : IsLawful(q)' <=> IsLawful(q)
  BY <1>1 DEF IsLawful, Agreed, HasSigned, Has, IsClosedByAll, HasClosed
<1>3. VouchersStep  BY <1>1, SameVouchers
<1>4. Keeps /\ StoredKept  BY <1>1, <1>3, RestIs, SameStores
<1>5. TypeOK /\ InboxInv /\ MessagesInv  BY DEF FundingInv
<1>6. InboxInv'  BY <1>1, <1>2, <1>5 DEF InboxInv
<1>7. MessagesInv'  BY <1>1, <1>4, <1>5, TrueStays DEF TypeOK, MessagesInv
<1>8. QED  BY <1>1, <1>4, <1>5, <1>6, <1>7, Assembled DEF TypeOK

\* Every step keeps the invariant.
LEMMA NextKeeps ==
  ASSUME FundingInv, [Next]_vars
  PROVE  FundingInv'
<1>1. ASSUME NEW m \in network, ReceiveMessage(m) PROVE FundingInv'
  BY <1>1, ReceivePayloadKeeps, ReceiveProposalsKeeps, ReceiveRejectionKeeps,
     ReceiveVoucherKeeps DEF ReceiveMessage
<1>2. CASE Next
  BY <1>1, <1>2, RequestFundKeeps, RequestDefundKeeps, PayKeeps, HandleProposalKeeps,
     LoseKeeps, RestartKeeps DEF Next
<1>3. CASE UNCHANGED vars  BY <1>3, StutterKeeps
<1>4. QED  BY <1>2, <1>3

-----------------------------------------------------------------------------
(***************************************************************************)
(* The theorems.                                                           *)
(***************************************************************************)

\* What signatures, proposals and messages say of the stores of those who made
\* them is true, in every state.
THEOREM Invariance == Spec => []FundingInv
BY InitFunding, NextKeeps, PTL DEF Spec

\* Every variable holds a value of its kind.
THEOREM TypeCorrectness == Spec => []TypeOK
<1>1. FundingInv => TypeOK  BY DEF FundingInv
<1>2. QED  BY <1>1, Invariance, PTL

\* A ledger is asked to fund a virtual channel only once every participant has
\* signed its prefund state.
THEOREM GuaranteesAreAgreedHolds == Spec => []GuaranteesAreAgreed
<1>1. FundingInv => GuaranteesAreAgreed
  <2> SUFFICES ASSUME FundingInv, NEW l \in Ledgers, NEW p \in Parties, NEW v \in Targets,
                      \/ CopyIncludes(ledger[l][p], v)
                      \/ \E i \in 1..Len(ledger[l][p].queue) :
                           ledger[l][p].queue[i].proposal.target = v
               PROVE  \A n \in Participants(v) : HasSigned(n, v)
    BY DEF GuaranteesAreAgreed
  <2>1. CopiesInv  BY DEF FundingInv
  <2>2. CASE CopyIncludes(ledger[l][p], v)  BY <2>1, <2>2 DEF CopiesInv, Agreed
  <2>3. ASSUME NEW i \in 1..Len(ledger[l][p].queue),
               ledger[l][p].queue[i].proposal.target = v
        PROVE  Agreed(v)
    <3>1. ledger[l][p].queue[i].proposal \in ProposalsOf(ledger[l][p].queue)
      BY DEF ProposalsOf
    <3>2. IsLawful(ledger[l][p].queue[i].proposal)  BY <2>1, <3>1 DEF CopiesInv
    <3>3. QED  BY <2>3, <3>2 DEF IsLawful
  <2>4. QED  BY <2>2, <2>3 DEF Agreed
<1>2. QED  BY <1>1, Invariance, PTL

\* A channel whose postfund state somebody can enforce is funded in both copies
\* of every ledger on its path, until all participants have signed one and the
\* same final state.
THEOREM EnforceableIsFundedHolds == Spec => []EnforceableIsFunded
<1>1. FundingInv => EnforceableIsFunded
  <2> SUFFICES ASSUME FundingInv, NEW v \in Targets, IsEnforceable(v), ~ IsClosedByAll(v),
                      NEW l \in Hops(v), NEW p \in Parties
               PROVE  CopyIncludes(ledger[l][p], v)
    BY DEF EnforceableIsFunded
  <2>1. SignaturesInv  BY DEF FundingInv
  <2>2. PICK n \in Nodes : Has(n, v) /\ channel[n][v].postfund = Participants(v)
    BY DEF IsEnforceable
  <2>3. PICK m \in Participants(v) : m = Ends[l][p] /\ l \in LedgersOf(m, v)
                                                   /\ Party(m, l) = p
    BY EndsOfHops
  <2>4. IsKept(m, v)  BY <2>1, <2>2, <2>3 DEF SignaturesInv
  <2>5. QED  BY <2>3, <2>4 DEF IsKept
<1>2. QED  BY <1>1, Invariance, PTL

-----------------------------------------------------------------------------
(***************************************************************************)
(* Vouchers and final states: what Alice has promised, when clients wait   *)
(* and leave it to her to close.                                           *)
(***************************************************************************)

\* Alice's promise stands: it only gets larger, Bob never holds more, and it
\* stays what it is once she has asked to close.
PromiseKept ==
  \A v \in Targets :
    /\ Paid(Alice(v), v) <= Paid(Alice(v), v)'
    /\ Paid(Bob(v), v)' <= Paid(Alice(v), v)'
    /\ <<Alice(v), v>> \in asked =>
         <<Alice(v), v>> \in asked' /\ Paid(Alice(v), v)' = Paid(Alice(v), v)

\* An objective with no final state, and no intention to make one, but one
\* that pays what Alice has promised.
Honest(n, k, v, o) ==
  /\ o.channel.final # NoFinal => IsWhatAlicePaid(v, o.channel.final.paid)
  /\ k = "defund" =>
       IF n = Alice(v) THEN IsWhatAlicePaid(v, o.minimum)
       ELSE o.status \in {"approved", "completed"} => o.channel.final # NoFinal

\* What Alice has promised, she has promised after the step.
LEMMA StillPromised ==
  ASSUME PromiseKept, NEW v \in Targets, NEW paid, IsWhatAlicePaid(v, paid)
  PROVE  IsWhatAlicePaid(v, paid)'
BY DEF PromiseKept, IsWhatAlicePaid

\* The promise stands when the vouchers are what they were.
LEMMA SamePromise ==
  ASSUME FundingInv, VoucherInv, vouchers' = vouchers, asked \subseteq asked'
  PROVE  PromiseKept
<1>1. \A n \in Nodes, v \in Targets : Paid(n, v) \in Nat /\ Paid(n, v)' = Paid(n, v)
  BY TypeIs DEF FundingInv, Paid
<1>2. QED  BY <1>1, PathIs DEF PromiseKept, VoucherInv

\* The promise stands when Bob, or an intermediary, takes note of a voucher.
LEMMA HeldPromise ==
  ASSUME FundingInv, VoucherInv, NEW n \in Nodes, NEW v \in Targets, n # Alice(v),
         NEW amount \in Nat, n = Bob(v) => amount <= Paid(Alice(v), v),
         vouchers' = [vouchers EXCEPT ![n][v] = amount], asked' = asked
  PROVE  PromiseKept
<1>1. TypeOK  BY DEF FundingInv
<1>2. \A m \in Nodes, u \in Targets :
        vouchers'[m][u] = IF m = n /\ u = v THEN amount ELSE vouchers[m][u]
  BY <1>1 DEF TypeOK
<1>3. ASSUME NEW m \in Nodes, NEW u \in Targets
      PROVE  /\ Paid(m, u) \in Nat
             /\ Paid(m, u)' = IF m = n /\ u = v THEN amount ELSE Paid(m, u)
  BY <1>1, <1>2, TypeIs, NoVoucherAssumption DEF Paid
<1>4. ASSUME NEW u \in Targets
      PROVE  /\ Paid(Alice(u), u)' = Paid(Alice(u), u) /\ Paid(Alice(u), u) \in Nat
             /\ Paid(Bob(u), u)' <= Paid(Alice(u), u)
  <2>1. Paid(Alice(u), u)' = Paid(Alice(u), u) /\ Paid(Alice(u), u) \in Nat
    BY <1>3, PathIs
  <2>2. CASE Bob(u) = n /\ u = v  BY <1>3, <2>2, PathIs
  <2>3. CASE ~ (Bob(u) = n /\ u = v)  BY <1>3, <2>3, PathIs DEF VoucherInv
  <2>4. QED  BY <2>1, <2>2, <2>3
<1>5. QED  BY <1>4 DEF PromiseKept

\* Alice may promise more as long as she has not asked to close.
LEMMA LargerPromise ==
  ASSUME FundingInv, VoucherInv, NEW v \in Targets, NEW n, n = Alice(v),
         NEW amount \in Nat, Paid(n, v) <= amount,
         <<n, v>> \in asked => amount = Paid(n, v),
         vouchers' = [vouchers EXCEPT ![n][v] = amount], asked' = asked
  PROVE  PromiseKept /\ Paid(n, v)' = amount
<1>1. TypeOK /\ n \in Nodes  BY PathIs DEF FundingInv
<1>2. \A m \in Nodes, u \in Targets :
        vouchers'[m][u] = IF m = n /\ u = v THEN amount ELSE vouchers[m][u]
  BY <1>1 DEF TypeOK
<1>3. ASSUME NEW m \in Nodes, NEW u \in Targets
      PROVE  /\ Paid(m, u) \in Nat
             /\ Paid(m, u)' = IF m = n /\ u = v THEN amount ELSE Paid(m, u)
  BY <1>1, <1>2, TypeIs, NoVoucherAssumption DEF Paid
<1>4. ASSUME NEW u \in Targets
      PROVE  /\ Paid(Alice(u), u) <= Paid(Alice(u), u)'
             /\ Paid(Bob(u), u)' <= Paid(Alice(u), u)'
             /\ <<Alice(u), u>> \in asked => Paid(Alice(u), u)' = Paid(Alice(u), u)
  <2>1. Paid(Bob(u), u)' = Paid(Bob(u), u) /\ Paid(Bob(u), u) \in Nat
        /\ Paid(Alice(u), u) \in Nat /\ Paid(Alice(u), u)' \in Nat
    BY <1>3, PathIs
  <2>2. Paid(Bob(u), u) <= Paid(Alice(u), u)  BY DEF VoucherInv
  <2>3. CASE Alice(u) = n /\ u = v  BY <1>3, <2>1, <2>2, <2>3, PathIs
  <2>4. CASE ~ (Alice(u) = n /\ u = v)  BY <1>3, <2>1, <2>2, <2>4, PathIs
  <2>5. QED  BY <2>3, <2>4
<1>5. QED  BY <1>1, <1>3, <1>4 DEF PromiseKept

\* What the stores say of final states stays true when they do not change.
LEMMA SamePays ==
  ASSUME FinalInv, DefundInv, PromiseKept, objective' = objective, channel' = channel
  PROVE  FinalInv' /\ DefundInv'
<1>1. FinalInv'
  <2>1. ASSUME NEW n \in Nodes, NEW v \in Targets, Has(n, v)', channel'[n][v].final # NoFinal,
               NEW paid, paid = channel[n][v].final.paid
        PROVE  IsWhatAlicePaid(v, paid)'
    <3>1. Has(n, v) /\ channel[n][v].final # NoFinal  BY <2>1 DEF Has
    <3>2. IsWhatAlicePaid(v, paid)  BY <2>1, <3>1 DEF FinalInv
    <3>3. QED  BY <3>2, StillPromised
  <2>2. QED  BY <2>1 DEF FinalInv, IsWhatAlicePaid
<1>2. DefundInv'
  <2>1. ASSUME NEW v \in Targets, NEW n \in Nodes, n = Alice(v),
               objective[n]["defund"][v].status # "unknown",
               NEW minimum, minimum = objective[n]["defund"][v].minimum
        PROVE  IsWhatAlicePaid(v, minimum)'
    BY <2>1, StillPromised DEF DefundInv
  <2>2. QED  BY <2>1 DEF DefundInv, IsWhatAlicePaid
<1>3. QED  BY <1>1, <1>2

\* Saving an honest objective.
LEMMA SavedPays ==
  ASSUME FundingInv, FinalInv, DefundInv, PromiseKept,
         NEW n \in Nodes, NEW k \in Kinds, NEW v \in Targets, NEW o \in Memory,
         Has(n, v) => Grows(channel[n][v], o.channel),
         Honest(n, k, v, o)', Save(n, k, v, o)
  PROVE  FinalInv' /\ DefundInv'
<1>1. TypeOK /\ KnownInv  BY DEF FundingInv
<1>2. /\ \A m \in Nodes, j \in Kinds, u \in Targets :
           IF m = n /\ j = k /\ u = v
             THEN /\ objective'[m][j][u].status = o.status
                  /\ objective'[m][j][u].minimum = o.minimum
             ELSE objective'[m][j][u] = objective[m][j][u]
      /\ \A m \in Nodes, u \in Targets :
           channel'[m][u] = IF m = n /\ u = v THEN o.channel ELSE channel[m][u]
  BY <1>1, SaveChanges
<1>3. ASSUME NEW m \in Nodes, NEW u \in Targets, Has(m, u)', channel'[m][u].final # NoFinal,
             NEW paid, paid = channel'[m][u].final.paid
      PROVE  IsWhatAlicePaid(u, paid)'
  <2>1. CASE m = n /\ u = v  BY <1>2, <1>3, <2>1 DEF Honest
  <2>2. CASE ~ (m = n /\ u = v)
    <3>1. channel'[m][u] = channel[m][u] /\ Has(m, u)
      BY <1>2, <1>3, <2>2 DEF Has
    <3>2. IsWhatAlicePaid(u, paid)  BY <1>3, <3>1 DEF FinalInv
    <3>3. QED  BY <3>2, StillPromised
  <2>3. QED  BY <2>1, <2>2
<1>4. FinalInv'  BY <1>3 DEF FinalInv, IsWhatAlicePaid
<1>5. ASSUME NEW u \in Targets, NEW m \in Nodes, m = Alice(u),
             objective'[m]["defund"][u].status # "unknown",
             NEW minimum, minimum = objective'[m]["defund"][u].minimum
      PROVE  IsWhatAlicePaid(u, minimum)'
  <2>1. CASE m = n /\ u = v /\ k = "defund"  BY <1>2, <1>5, <2>1 DEF Honest
  <2>2. CASE ~ (m = n /\ u = v /\ k = "defund")
    <3>1. objective'[m]["defund"][u] = objective[m]["defund"][u]
      BY <1>2, <2>2, RestIs
    <3>2. IsWhatAlicePaid(u, minimum)  BY <1>5, <3>1 DEF DefundInv
    <3>3. QED  BY <3>2, StillPromised
  <2>3. QED  BY <2>1, <2>2
<1>6. ASSUME NEW u \in Targets, NEW m \in Nodes, m # Alice(u),
             objective'[m]["defund"][u].status \in {"approved", "completed"}
      PROVE  channel'[m][u].final # NoFinal
  <2>1. CASE m = n /\ u = v /\ k = "defund"
    <3>1. o.channel.final # NoFinal  BY <1>2, <1>6, <2>1 DEF Honest
    <3>2. QED  BY <1>2, <2>1, <3>1
  <2>2. CASE ~ (m = n /\ u = v /\ k = "defund")
    <3>1. objective'[m]["defund"][u] = objective[m]["defund"][u]
      BY <1>2, <2>2, RestIs
    <3>2. channel[m][u].final # NoFinal  BY <1>6, <3>1 DEF DefundInv
    <3>3. Has(m, u)  BY <1>1, <1>6, <3>1, RestIs DEF KnownInv
    <3>4. CASE m = n /\ u = v  BY <1>2, <3>2, <3>3, <3>4 DEF Grows
    <3>5. CASE ~ (m = n /\ u = v)  BY <1>2, <3>2, <3>5
    <3>6. QED  BY <3>4, <3>5
  <2>3. QED  BY <2>1, <2>2
<1>7. DefundInv'  BY <1>5, <1>6 DEF DefundInv, IsWhatAlicePaid
<1>8. QED  BY <1>4, <1>7

\* The crank of an honest objective leaves it honest, and says nothing that
\* Alice has not promised.
LEMMA CrankPays ==
  ASSUME NEW n \in Nodes, NEW k \in Kinds, NEW v \in Targets,
         NEW o, Ready(n, v, o), Honest(n, k, v, o)', o.status # "unknown",
         NEW r, r = Crank(n, k, v, o), r.error = "none"
  PROVE  /\ r.o \in Memory /\ Honest(n, k, v, r.o)'
         /\ Has(n, v) => Grows(channel[n][v], r.o.channel)
         /\ \A m \in r.messages :
              /\ m.type \notin {"voucher", "request"}
              /\ m.type = "final" => IsWhatAlicePaid(m.v, m.paid)'
<1>1. /\ o \in Memory /\ LeadsChains(n, o) /\ o.minimum <= Deposit[v].a0
      /\ o.channel.final # NoFinal => o.channel.final.paid <= Deposit[v].a0
      /\ Has(n, v) => Grows(channel[n][v], o.channel)
  BY DEF Ready, Justified, IsSignedFinal
<1>2. IsCrank(n, v, o, r)  BY CrankIs
<1>3. r.o \in Memory /\ Grows(o.channel, r.o.channel) /\ r.o.minimum = o.minimum
  BY <1>2 DEF IsCrank
<1>4. Has(n, v) => Grows(channel[n][v], r.o.channel)  BY <1>1, <1>3 DEF Grows
<1>5. PICK a, c : a = o.channel /\ c = r.o.channel  OBVIOUS
<1>6. /\ k = "fund" => c.final = a.final
      /\ k # "fund" /\ a.final = NoFinal /\ c.final # NoFinal => n = Alice(v)
      /\ \A m \in r.messages : m.type # "request"
      /\ k # "fund" /\ n # Alice(v) /\ r.o.status \in {"approved", "completed"} =>
           c.final # NoFinal
  <2>1. CASE k = "fund"
    <3>1. r = FundCrank(n, v, o)  BY <2>1 DEF Crank
    <3>2. QED  BY <1>1, <1>5, <2>1, <3>1, FundCrankIs
  <2>2. CASE k # "fund"
    <3>1. r = DefundCrank(n, v, o)  BY <2>2 DEF Crank
    <3>2. IF o.status # "approved" THEN r.o = o /\ r.messages = {}
          ELSE IF n # Alice(v) /\ o.channel.final = NoFinal
            THEN r.o = o /\ r.messages = RequestMessage(n, v)
          ELSE /\ r.o.status \in {"approved", "completed"}
               /\ r.o.channel.final # NoFinal
               /\ \A m \in r.messages : m.type # "request"
      BY <1>1, <3>1, DefundCrankIs
    <3>3. n # Alice(v) /\ o.status \in {"approved", "completed"} => o.channel.final # NoFinal
      BY <2>2, KindsAssumption DEF Honest
    <3>4. CASE o.status # "approved"  BY <1>5, <2>2, <3>2, <3>3, <3>4
    <3>5. CASE o.status = "approved"  BY <1>5, <2>2, <3>2, <3>3, <3>5
    <3>6. QED  BY <3>4, <3>5
  <2>3. QED  BY <2>1, <2>2
<1>7. c.final # NoFinal => IsWhatAlicePaid(v, c.final.paid)'
  <2>1. CASE a.final # NoFinal  BY <1>3, <1>5, <2>1 DEF Honest, Grows
  <2>2. CASE a.final = NoFinal /\ c.final # NoFinal
    <3>1. n = Alice(v) /\ k = "defund"  BY <1>6, <2>2, KindsAssumption
    <3>2. IsWhatAlicePaid(v, o.minimum)'  BY <3>1 DEF Honest
    <3>3. c.final = [paid |-> o.minimum, signed |-> {n}]
      BY <1>2, <1>5, <2>2 DEF IsCrank
    <3>4. c.final.paid = o.minimum  BY <3>3
    <3>5. QED  BY <3>2, <3>4
  <2>3. QED  BY <2>1, <2>2
<1>8. Honest(n, k, v, r.o)'
  <2>1. k = "defund" /\ n = Alice(v) => IsWhatAlicePaid(v, r.o.minimum)'
    BY <1>3 DEF Honest
  <2>2. k = "defund" /\ n # Alice(v) =>
          (r.o.status \in {"approved", "completed"} => r.o.channel.final # NoFinal)
    BY <1>5, <1>6
  <2>3. QED  BY <1>5, <1>7, <2>1, <2>2 DEF Honest
<1>9. ASSUME NEW m \in r.messages
      PROVE  /\ m.type \notin {"voucher", "request"}
             /\ m.type = "final" => IsWhatAlicePaid(m.v, m.paid)'
  <2>1. SaysOf(n, v, r.o.channel, m) \/ m \in Proposals  BY <1>2 DEF IsCrank
  <2>2. CASE SaysOf(n, v, r.o.channel, m)  BY <1>5, <1>6, <1>7, <2>2 DEF SaysOf
  <2>3. CASE m \in Proposals  BY <2>3 DEF Proposals
  <2>4. QED  BY <2>1, <2>2, <2>3
<1>10. QED  BY <1>3, <1>4, <1>8, <1>9

\* The parts of the invariant put together.
LEMMA PaidAssembled ==
  ASSUME PaidInv, FundingInv', PromiseKept, FinalInv', DefundInv',
         NEW messages, network' \subseteq network \cup messages,
         \A m \in messages :
           /\ m.type = "voucher" => m.to # Alice(m.v) /\ m.paid <= Paid(Alice(m.v), m.v)'
           /\ m.type = "final" => IsWhatAlicePaid(m.v, m.paid)'
           /\ m.type # "request"
  PROVE  PaidInv'
<1>1. FundingInv /\ VoucherInv  BY DEF PaidInv
<1>2. ASSUME NEW m \in network
      PROVE  /\ m.type = "voucher" => m.to # Alice(m.v) /\ m.paid <= Paid(Alice(m.v), m.v)'
             /\ m.type = "final" => IsWhatAlicePaid(m.v, m.paid)'
             /\ m.type # "request"
  <2>1. m.type \in {"voucher", "final"} => m \in Payloads
    BY <1>1 DEF FundingInv, TypeOK, Rejections, Proposals
  <2>2. CASE m.type = "voucher"
    <3>1. PICK v \in Targets, paid \in Nat : v = m.v /\ paid = m.paid
      BY <2>1, <2>2 DEF Payloads
    <3>2. m.to # Alice(v) /\ paid <= Paid(Alice(v), v)
      BY <1>1, <2>2, <3>1 DEF VoucherInv
    <3>3. Paid(Alice(v), v) <= Paid(Alice(v), v)'  BY DEF PromiseKept
    <3>4. Paid(Alice(v), v) \in Nat /\ Paid(Alice(v), v)' \in Nat
      <4>1. TypeOK /\ TypeOK'  BY <1>1 DEF FundingInv
      <4>2. vouchers \in [Nodes -> [Targets -> Nat \cup {NoVoucher}]]
            /\ vouchers' \in [Nodes -> [Targets -> Nat \cup {NoVoucher}]]
        BY <4>1 DEF TypeOK
      <4>3. QED  BY <4>2, PathIs DEF Paid
    <3>5. QED  BY <2>2, <3>1, <3>2, <3>3, <3>4
  <2>3. CASE m.type = "final"
    <3>1. PICK v \in Targets, paid \in Nat : v = m.v /\ paid = m.paid
      BY <2>1, <2>3 DEF Payloads
    <3>2. IsWhatAlicePaid(v, paid)  BY <1>1, <2>3, <3>1 DEF VoucherInv
    <3>3. IsWhatAlicePaid(v, paid)'  BY <3>2, StillPromised
    <3>4. QED  BY <2>3, <3>1, <3>3
  <2>4. QED  BY <1>1, <2>2, <2>3 DEF VoucherInv
<1>3. ASSUME NEW m \in network'
      PROVE  /\ m.type = "voucher" => m.to # Alice(m.v) /\ m.paid <= Paid(Alice(m.v), m.v)'
             /\ m.type = "final" => IsWhatAlicePaid(m.v, m.paid)'
             /\ m.type # "request"
  <2>1. CASE m \in network  BY <1>2, <2>1
  <2>2. CASE m \in messages  BY <2>2
  <2>3. QED  BY <2>1, <2>2
<1>4. VoucherInv'  BY <1>3 DEF VoucherInv, PromiseKept
<1>5. QED  BY <1>4 DEF PaidInv

\* An event after which everything stored is what it was.
LEMMA NothingPaid ==
  ASSUME PaidInv, FundingInv', UNCHANGED <<objective, channel, vouchers>>,
         asked \subseteq asked', network' \subseteq network
  PROVE  PaidInv'
<1>1. FundingInv /\ FinalInv /\ DefundInv /\ VoucherInv  BY DEF PaidInv
<1>2. PromiseKept  BY <1>1, SamePromise
<1>3. FinalInv' /\ DefundInv'  BY <1>1, <1>2, SamePays
<1>4. PICK messages : messages = {}  OBVIOUS
<1>5. QED  BY <1>2, <1>3, <1>4, PaidAssembled

\* An objective that is known is honest.
LEMMA StoredIsHonest ==
  ASSUME FundingInv, FinalInv, DefundInv, PromiseKept,
         NEW n \in Nodes, NEW k \in Kinds, NEW v \in Targets,
         NEW o, o = InMemory(n, k, v), o.status # "unknown"
  PROVE  Honest(n, k, v, o)'
<1>1. Has(n, v)  BY KnownIs
<1>2. /\ o.status = objective[n][k][v].status
      /\ o.minimum = objective[n][k][v].minimum
      /\ o.channel = channel[n][v]
  BY DEF InMemory
<1>3. o.channel.final # NoFinal => IsWhatAlicePaid(v, o.channel.final.paid)
  BY <1>1, <1>2 DEF FinalInv
<1>4. CASE k = "defund"
  <2>1. IF n = Alice(v) THEN IsWhatAlicePaid(v, o.minimum)
        ELSE o.status \in {"approved", "completed"} => o.channel.final # NoFinal
    BY <1>2, <1>4 DEF DefundInv
  <2>2. QED  BY <1>3, <2>1, StillPromised DEF Honest
<1>5. CASE k # "defund"  BY <1>3, <1>5, StillPromised DEF Honest
<1>6. QED  BY <1>4, <1>5

\* attemptProgress of an honest objective.
LEMMA AttemptPays ==
  ASSUME PaidInv, FundingInv', PromiseKept,
         NEW n \in Nodes, NEW k \in Kinds, NEW v \in Targets,
         NEW o, Ready(n, v, o), o.status # "unknown", Honest(n, k, v, o)',
         NEW before, \/ before = InMemory(n, k, v)
                     \/ Ready(n, v, before) /\ Honest(n, k, v, before)',
         NEW left, IsLeft(left), AttemptProgress(n, k, v, before, o, left)
  PROVE  PaidInv'
<1>1. FundingInv /\ TypeOK /\ FinalInv /\ DefundInv  BY DEF PaidInv, FundingInv
<1>2. PICK r : /\ r = Crank(n, k, v, o)
               /\ \/ /\ Save(n, k, v, before)
                     /\ Stop(n, r.error, left)
                  \/ /\ r.error = "none"
                     /\ Save(n, k, v, r.o)
                     /\ Stop(n, "cannot transfer ownership", left)
                  \/ /\ r.error = "none"
                     /\ Save(n, k, v, r.o)
                     /\ GoOn(n, left, r.messages, r.heads)
  BY DEF AttemptProgress
<1>3. PICK none : none = {}  OBVIOUS
<1>4. CASE Save(n, k, v, before) /\ Stop(n, r.error, left)
  <2>1. FinalInv' /\ DefundInv'
    <3>1. CASE before = InMemory(n, k, v)
      BY <1>1, <1>4, <3>1, SavedSame, SamePays
    <3>2. CASE Ready(n, v, before) /\ Honest(n, k, v, before)'
      <4>1. before \in Memory /\ (Has(n, v) => Grows(channel[n][v], before.channel))
        BY <3>2 DEF Ready
      <4>2. QED  BY <1>1, <1>4, <3>2, <4>1, SavedPays
    <3>3. QED  BY <3>1, <3>2
  <2>2. network' \subseteq network \cup none  BY <1>4 DEF Stop, IsLeft
  <2>3. QED  BY <1>3, <2>1, <2>2, PaidAssembled
<1>5. CASE r.error = "none" /\ Save(n, k, v, r.o)
           /\ \/ Stop(n, "cannot transfer ownership", left)
              \/ GoOn(n, left, r.messages, r.heads)
  <2>1. /\ r.o \in Memory /\ Honest(n, k, v, r.o)'
        /\ Has(n, v) => Grows(channel[n][v], r.o.channel)
        /\ \A m \in r.messages :
             /\ m.type \notin {"voucher", "request"}
             /\ m.type = "final" => IsWhatAlicePaid(m.v, m.paid)'
    BY <1>2, <1>5, CrankPays
  <2>2. PICK new, messages : new = r.o /\ messages = r.messages  OBVIOUS
  <2>3. FinalInv' /\ DefundInv'
    <3>1. /\ new \in Memory /\ Honest(n, k, v, new)' /\ Save(n, k, v, new)
          /\ Has(n, v) => Grows(channel[n][v], new.channel)
      BY <1>5, <2>1, <2>2
    <3>2. QED  BY <1>1, <3>1, SavedPays
  <2>4. network' \subseteq network \cup messages
    BY <1>5, <2>2 DEF Stop, GoOn, IsLeft
  <2>5. QED  BY <2>1, <2>2, <2>3, <2>4, PaidAssembled
<1>6. QED  BY <1>2, <1>4, <1>5

\* VirtualFundObjectiveRequest.
LEMMA RequestFundPays ==
  ASSUME PaidInv, FundingInv', NEW v \in Targets, RequestFund(v)
  PROVE  PaidInv'
<1>1. PICK n \in Nodes : n = Alice(v)  BY PathIs
<1>2. PICK o, before, left :
        o = NewFundObjective(n, v, "approved") /\ before = InMemory(n, "fund", v)
                                               /\ left = Left(n)
  OBVIOUS
<1>3. FundingInv /\ VoucherInv  BY DEF PaidInv
<1>4. PICK amount \in Nat : amount = 0  OBVIOUS
<1>5. /\ vouchers[n][v] = NoVoucher
      /\ AttemptProgress(n, "fund", v, before, o, left)
      /\ vouchers' = [vouchers EXCEPT ![n][v] = amount]
      /\ asked' = asked
  BY <1>1, <1>2, <1>4 DEF RequestFund
<1>6. Paid(n, v) = amount  BY <1>4, <1>5 DEF Paid
<1>7. PromiseKept
  <2>1. Paid(n, v) <= amount /\ (<<n, v>> \in asked => amount = Paid(n, v))
    BY <1>6
  <2>2. vouchers' = [vouchers EXCEPT ![n][v] = amount] /\ asked' = asked
    BY <1>5
  <2>3. QED  BY <1>1, <1>3, <2>1, <2>2, LargerPromise
<1>8. PICK k \in Kinds : k = "fund"  BY <1>3, RestIs
<1>9. Ready(n, v, o) /\ o.status = "approved" /\ o.channel = NewChannel
  BY <1>2, <1>3, <1>5, RestIs, NewFundIsReady
<1>10. Honest(n, k, v, o)' /\ o.status # "unknown"
  BY <1>8, <1>9 DEF Honest, NewChannel
<1>11. IsLeft(left)  BY <1>2, <1>3, LeftIs
<1>12. AttemptProgress(n, k, v, before, o, left) /\ before = InMemory(n, k, v)
  BY <1>2, <1>5, <1>8
<1>13. QED  BY <1>7, <1>9, <1>10, <1>11, <1>12, AttemptPays

\* VirtualDefundObjectiveRequest, which only Alice makes.
LEMMA RequestDefundPays ==
  ASSUME PaidInv, FundingInv', ClientsWait, NEW n \in Nodes, NEW v \in Targets,
         RequestDefund(n, v)
  PROVE  PaidInv'
<1>1. n = Alice(v) /\ asked' = asked \cup {<<n, v>>}
  BY DEF RequestDefund, ClientsWait
<1>2. FundingInv /\ FinalInv /\ VoucherInv  BY DEF PaidInv
<1>3. PICK left : left = Left(n)  OBVIOUS
<1>4. IsLeft(left)  BY <1>2, <1>3, LeftIs
<1>5. CASE channel[n][v] = NoChannel
  <2>1. Fail(n, "could not find channel", left)  BY <1>3, <1>5 DEF RequestDefund
  <2>2. UNCHANGED <<objective, channel, vouchers>> /\ network' \subseteq network
    BY <1>4, <2>1 DEF Fail, Stop, stored, IsLeft
  <2>3. QED  BY <1>1, <2>2, NothingPaid
<1>6. CASE channel[n][v] # NoChannel
  <2>1. PICK o, before :
          o = NewDefundObjective(n, v, "approved") /\ before = InMemory(n, "defund", v)
    OBVIOUS
  <2>2. AttemptProgress(n, "defund", v, before, o, left) /\ vouchers' = vouchers
    BY <1>3, <1>6, <2>1 DEF RequestDefund
  <2>3. PromiseKept  BY <1>1, <1>2, <2>2, SamePromise
  <2>4. Has(n, v)  BY <1>6 DEF Has
  <2>5. /\ Ready(n, v, o) /\ o.status = "approved" /\ o.channel = channel[n][v]
        /\ o.minimum = Paid(n, v)
    BY <1>2, <2>1, <2>4, RestIs, NewDefundIsReady
  <2>6. PICK k \in Kinds : k = "defund"  BY <1>2, RestIs
  <2>7. Honest(n, k, v, o)'
    <3>1. PICK minimum : minimum = o.minimum  OBVIOUS
    <3>2. IsWhatAlicePaid(v, minimum)'
      BY <1>1, <2>2, <2>5, <3>1 DEF IsWhatAlicePaid, Paid
    <3>3. o.channel.final # NoFinal => IsWhatAlicePaid(v, o.channel.final.paid)
      BY <1>2, <2>4, <2>5 DEF FinalInv
    <3>4. QED  BY <1>1, <2>3, <3>1, <3>2, <3>3, StillPromised DEF Honest
  <2>8. AttemptProgress(n, k, v, before, o, left) /\ before = InMemory(n, k, v)
        /\ o.status # "unknown"
    BY <2>1, <2>2, <2>5, <2>6
  <2>9. QED  BY <1>4, <2>3, <2>5, <2>7, <2>8, AttemptPays
<1>7. QED  BY <1>5, <1>6

\* handlePaymentRequest, which Alice's client no longer calls once it asked to
\* close.
LEMMA PayPays ==
  ASSUME PaidInv, FundingInv', ClientsWait, NEW v \in Targets, NEW amount \in 1..MaxAmount,
         Pay(v, amount)
  PROVE  PaidInv'
<1>1. PICK n \in Nodes : n = Alice(v)  BY PathIs
<1>2. FundingInv /\ FinalInv /\ DefundInv /\ VoucherInv  BY DEF PaidInv
<1>3. Paid(n, v) \in Nat /\ vouchers[n][v] # NoVoucher
  BY <1>1, <1>2, TypeIs DEF FundingInv, Pay
<1>4. PICK total \in Nat : total = Paid(n, v) + amount
  BY <1>3, MaxAmountAssumption
<1>5. PICK m : m = [type |-> "voucher", v |-> v, from |-> n, to |-> Bob(v), paid |-> total]
  OBVIOUS
<1>6. /\ vouchers' = [vouchers EXCEPT ![n][v] = total]
      /\ network' = network \cup {m}
      /\ UNCHANGED <<objective, channel, asked>>
      /\ <<n, v>> \notin asked
  <2>1. vouchers[n][v] + amount = total  BY <1>3, <1>4 DEF Paid
  <2>2. QED  BY <1>1, <1>4, <1>5, <2>1 DEF Pay, MayPay, ClientsWait
<1>7. PromiseKept /\ Paid(n, v)' = total
  <2>1. Paid(n, v) <= total /\ (<<n, v>> \in asked => total = Paid(n, v))
    BY <1>3, <1>4, <1>6, MaxAmountAssumption
  <2>2. vouchers' = [vouchers EXCEPT ![n][v] = total] /\ asked' = asked  BY <1>6
  <2>3. QED  BY <1>1, <1>2, <2>1, <2>2, LargerPromise
<1>8. FinalInv' /\ DefundInv'  BY <1>2, <1>6, <1>7, SamePays
<1>9. PICK messages : messages = {m}  OBVIOUS
<1>10. ASSUME NEW x \in messages
       PROVE  /\ x.type = "voucher" => x.to # Alice(x.v) /\ x.paid <= Paid(Alice(x.v), x.v)'
              /\ x.type = "final" => IsWhatAlicePaid(x.v, x.paid)'
              /\ x.type # "request"
  <2>1. x.type = "voucher" /\ x.v = v /\ x.to = Bob(v) /\ x.paid = total
    BY <1>5, <1>9
  <2>2. Paid(Alice(v), v)' = total  BY <1>1, <1>7
  <2>3. total <= total  OBVIOUS
  <2>4. QED  BY <2>1, <2>2, <2>3, PathIs
<1>11. QED  BY <1>6, <1>7, <1>8, <1>9, <1>10, PaidAssembled

\* update of an objective, and attemptProgress.
LEMMA UpdatePays ==
  ASSUME PaidInv, FundingInv', PromiseKept,
         NEW n \in Nodes, NEW k \in Kinds, NEW v \in Targets,
         NEW before, Ready(n, v, before), before.status # "unknown",
         Honest(n, k, v, before)',
         NEW m \in network, m \in Payloads, IsTrue(m), m.v = v, k = KindOf(m),
         m.type \in {"prefund", "postfund", "request", "final"},
         NEW left, IsLeft(left), Update(n, k, v, before, m, left)
  PROVE  PaidInv'
<1>1. FundingInv /\ FinalInv /\ DefundInv /\ VoucherInv  BY DEF PaidInv
<1>2. CASE k = "fund"
  <2>1. m.type \in {"prefund", "postfund"}  BY <1>2 DEF KindOf
  <2>2. PICK o : o = FundUpdated(v, before, m)  OBVIOUS
  <2>3. AttemptProgress(n, k, v, before, o, left)
    BY <1>2, <2>2 DEF Update, UpdateFund, FundUpdated
  <2>4. Ready(n, v, o) /\ o.status = "approved" /\ o.channel.final = before.channel.final
    BY <1>1, <2>1, <2>2, UpdatedFundIsReady
  <2>5. o.status # "unknown" /\ Honest(n, k, v, o)'  BY <1>2, <2>4 DEF Honest
  <2>6. QED  BY <2>3, <2>4, <2>5, AttemptPays
<1>3. CASE k # "fund"
  <2>1. PICK approved : approved = [before EXCEPT !.status = "approved"]
    OBVIOUS
  <2>2. /\ Ready(n, v, approved) /\ approved.status = "approved"
        /\ approved.minimum = before.minimum
    BY <1>1, <2>1, RestIs, StatusIsReady
  <2>3. k = "defund" /\ UpdateDefund(n, v, before, m, left)
    BY <1>3 DEF Update, KindOf
  <2>4. CASE /\ m.type = "final" /\ DefundUpdates(n, v, approved, m)
             /\ AttemptProgress(n, "defund", v, before, DefundUpdate(approved, m), left)
    <3>1. PICK o : o = DefundUpdate(approved, m)  OBVIOUS
    <3>2. approved.channel.final # NoFinal => approved.channel.final.paid = m.paid
      BY <2>4 DEF DefundUpdates
    <3>3. /\ Ready(n, v, o) /\ o.status = approved.status
          /\ o.channel.final # NoFinal /\ o.channel.final.paid = m.paid
      BY <1>1, <2>2, <2>4, <3>1, <3>2, UpdatedDefundIsReady
    <3>4. o.minimum = approved.minimum
      <4>1. approved.minimum = DefundUpdate(approved, m).minimum
        <5>1. PICK paid, signers :
                DefundUpdate(approved, m) =
                  [approved EXCEPT !.channel.final = [paid |-> paid, signed |-> signers]]
          BY DEF DefundUpdate
        <5>2. approved = [status |-> approved.status, minimum |-> approved.minimum,
                          channel |-> approved.channel, copies |-> approved.copies]
          BY <2>2, ReadyIs
        <5>3. QED  BY <5>1, <5>2
      <4>2. QED  BY <3>1, <4>1
    <3>5. IsWhatAlicePaid(v, m.paid)'
      <4>1. PICK paid : paid = m.paid  OBVIOUS
      <4>2. IsWhatAlicePaid(v, paid)  BY <1>1, <2>4, <4>1 DEF VoucherInv
      <4>3. QED  BY <4>1, <4>2, StillPromised
    <3>6. Honest(n, k, v, o)'
      <4>1. n = Alice(v) => IsWhatAlicePaid(v, o.minimum)'
        BY <2>2, <2>3, <3>4 DEF Honest
      <4>2. QED  BY <3>3, <3>5, <4>1 DEF Honest
    <3>7. AttemptProgress(n, k, v, before, o, left) /\ o.status # "unknown"
      BY <2>2, <2>3, <2>4, <3>1, <3>3
    <3>8. QED  BY <3>3, <3>6, <3>7, AttemptPays
  <2>5. CASE /\ Save(n, "defund", v, before)
             /\ Stop(n, IF m.type = "request" THEN "empty objective"
                                              ELSE "outcome failed validation", left)
    <3>1. before \in Memory /\ (Has(n, v) => Grows(channel[n][v], before.channel))
      BY DEF Ready
    <3>2. FinalInv' /\ DefundInv'  BY <1>1, <2>3, <2>5, <3>1, SavedPays
    <3>3. PICK none : none = {}  OBVIOUS
    <3>4. network' \subseteq network \cup none  BY <2>5 DEF Stop, IsLeft
    <3>5. QED  BY <3>2, <3>3, <3>4, PaidAssembled
  <2>6. QED  BY <2>1, <2>3, <2>4, <2>5 DEF UpdateDefund
<1>4. QED  BY <1>2, <1>3

\* An honest objective that is rejected.
LEMMA RejectedPays ==
  ASSUME PaidInv, FundingInv', PromiseKept,
         NEW n \in Nodes, NEW k \in Kinds, NEW v \in Targets,
         NEW o, Ready(n, v, o), Honest(n, k, v, o)',
         Save(n, k, v, [o EXCEPT !.status = "rejected"]),
         NEW messages, network' \subseteq network \cup messages,
         \A m \in messages : m.type = "rejection"
  PROVE  PaidInv'
<1>1. FundingInv /\ FinalInv /\ DefundInv  BY DEF PaidInv
<1>2. PICK new : new = [o EXCEPT !.status = "rejected"]  OBVIOUS
<1>3. /\ Ready(n, v, new) /\ new.status = "rejected"
      /\ new.minimum = o.minimum /\ new.channel = o.channel
  BY <1>1, <1>2, RestIs, StatusIsReady
<1>4. Honest(n, k, v, new)'  BY <1>3 DEF Honest
<1>5. /\ Save(n, k, v, new) /\ new \in Memory
      /\ Has(n, v) => Grows(channel[n][v], new.channel)
  BY <1>2, <1>3 DEF Ready
<1>6. FinalInv' /\ DefundInv'  BY <1>1, <1>4, <1>5, SavedPays
<1>7. QED  BY <1>6, PaidAssembled

\* The policy maker refuses an objective.
LEMMA RejectPays ==
  ASSUME PaidInv, FundingInv', PromiseKept,
         NEW n \in Nodes, NEW k \in Kinds, NEW v \in Targets,
         NEW o, Ready(n, v, o), Honest(n, k, v, o)',
         NEW left, IsLeft(left), Reject(n, k, v, o, left)
  PROVE  PaidInv'
<1>1. PICK messages : messages = RejectionNotice(n, k, v)  OBVIOUS
<1>2. \A m \in messages : m.type = "rejection"  BY <1>1 DEF RejectionNotice
<1>3. /\ Save(n, k, v, [o EXCEPT !.status = "rejected"])
      /\ network' \subseteq network \cup messages
  BY <1>1 DEF Reject, GoOn, IsLeft
<1>4. QED  BY <1>2, <1>3, RejectedPays

\* constructObjectiveFromMessage, of a message that Alice has promised.
LEMMA ConstructedIsHonest ==
  ASSUME PaidInv, NEW n \in Nodes, NEW k \in Kinds, NEW v \in Targets,
         CanConstruct(n, k, v), NEW o, o = Constructed(n, k, v),
         vouchers' = Registered(n, k, v), asked' = asked,
         NEW m \in network, m.v = v, k = KindOf(m),
         m.type \in {"prefund", "postfund", "request", "final"}
  PROVE  PromiseKept /\ Honest(n, k, v, o)'
<1>1. FundingInv /\ FinalInv /\ VoucherInv  BY DEF PaidInv
<1>2. CASE k = "fund"
  <2>1. /\ n # Alice(v) /\ vouchers[n][v] = NoVoucher
        /\ o = NewFundObjective(n, v, "unapproved")
    BY <1>2 DEF CanConstruct, Constructed
  <2>2. o.channel = NewChannel  BY <1>1, <2>1, RestIs, NewFundIsReady
  <2>3. PICK amount \in Nat : amount = 0  OBVIOUS
  <2>4. vouchers' = [vouchers EXCEPT ![n][v] = amount]
    BY <1>2, <2>3 DEF Registered
  <2>5. amount <= Paid(Alice(v), v)
    BY <1>1, <2>3, PathIs, TypeIs DEF FundingInv
  <2>6. PromiseKept  BY <1>1, <2>1, <2>4, <2>5, HeldPromise
  <2>7. Honest(n, k, v, o)'  BY <1>2, <2>2 DEF Honest, NewChannel
  <2>8. QED  BY <2>6, <2>7
<1>3. CASE k # "fund"
  <2>1. Has(n, v) /\ o = NewDefundObjective(n, v, "unapproved") /\ vouchers' = vouchers
    BY <1>3 DEF CanConstruct, Constructed, Registered, Has
  <2>2. PromiseKept  BY <1>1, <2>1, SamePromise
  <2>3. /\ o.status = "unapproved" /\ o.channel = channel[n][v] /\ o.minimum = Paid(n, v)
    BY <1>1, <2>1, RestIs, NewDefundIsReady
  <2>4. m.type = "final"  BY <1>1, <1>3 DEF KindOf, VoucherInv
  <2>5. IsWhatAlicePaid(v, m.paid)  BY <1>1, <2>4 DEF VoucherInv
  <2>6. n = Alice(v) => IsWhatAlicePaid(v, o.minimum)
    BY <2>3, <2>5 DEF IsWhatAlicePaid
  <2>7. o.channel.final # NoFinal => IsWhatAlicePaid(v, o.channel.final.paid)
    BY <1>1, <2>1, <2>3 DEF FinalInv
  <2>8. n = Alice(v) => IsWhatAlicePaid(v, o.minimum)'
    <3>1. PICK minimum : minimum = o.minimum  OBVIOUS
    <3>2. QED  BY <2>2, <2>6, <3>1, StillPromised
  <2>9. o.channel.final # NoFinal => IsWhatAlicePaid(v, o.channel.final.paid)'
    BY <2>2, <2>7, StillPromised
  <2>10. QED  BY <2>2, <2>3, <2>8, <2>9 DEF Honest
<1>4. QED  BY <1>2, <1>3

\* A payload of an objective.
LEMMA ReceivePayloadPays ==
  ASSUME PaidInv, FundingInv', NEW m \in network, ReceiveObjectivePayload(m)
  PROVE  PaidInv'
<1>1. PICK left \in AfterTaking(m), n \in {m.to}, k \in {KindOf(m)} :
        /\ m.type \in {"prefund", "postfund", "request", "final"}
        /\ \/ ConstructObjective(n, k, m.v, m, left)
           \/ CannotConstruct(n, k, m.v, left)
           \/ StopConstructing(n, k, m.v, left)
           \/ UpdateObjective(n, k, m.v, m, left)
           \/ IgnorePayload(n, k, m.v, left)
        /\ asked' = asked
  BY DEF ReceiveObjectivePayload
<1>2. FundingInv /\ FinalInv /\ DefundInv /\ VoucherInv  BY DEF PaidInv
<1>3. IsLeft(left) /\ n \in Nodes  BY <1>1, <1>2, AfterTakingIs
<1>4. m \in Payloads /\ IsTrue(m)
  BY <1>1, <1>2 DEF FundingInv, TypeOK, MessagesInv, Payloads, Rejections, Proposals
<1>5. PICK v \in Targets : v = m.v  BY <1>4 DEF Payloads
<1>6. k \in Kinds  BY <1>1, <1>2, RestIs DEF KindOf
<1>7. left.network \subseteq network  BY <1>3 DEF IsLeft
<1>8. CASE ConstructObjective(n, k, v, m, left)
  <2>1. PICK o : o = Constructed(n, k, v)  OBVIOUS
  <2>2. /\ CanConstruct(n, k, v)
        /\ Update(n, k, v, o, m, left) \/ Reject(n, k, v, o, left)
        /\ vouchers' = Registered(n, k, v)
    BY <1>8, <2>1 DEF ConstructObjective
  <2>3. Ready(n, v, o) /\ o.status = "unapproved"
    BY <1>2, <1>3, <1>6, <2>1, <2>2, ConstructedIsReady
  <2>4. PromiseKept /\ Honest(n, k, v, o)'
    BY <1>1, <1>3, <1>5, <1>6, <2>1, <2>2, ConstructedIsHonest
  <2>5. o.status # "unknown"  BY <2>3
  <2>6. CASE Update(n, k, v, o, m, left)
    BY <1>1, <1>3, <1>4, <1>5, <1>6, <2>3, <2>4, <2>5, <2>6, UpdatePays
  <2>7. CASE Reject(n, k, v, o, left)
    BY <1>3, <1>6, <2>3, <2>4, <2>7, RejectPays
  <2>8. QED  BY <2>2, <2>6, <2>7
<1>9. CASE CannotConstruct(n, k, v, left) \/ IgnorePayload(n, k, v, left)
  <2>1. UNCHANGED <<objective, channel, vouchers>> /\ network' \subseteq network
    BY <1>7, <1>9 DEF CannotConstruct, IgnorePayload, Fail, Ignore, Stop, GoOn, stored
  <2>2. QED  BY <1>1, <2>1, NothingPaid
<1>10. CASE StopConstructing(n, k, v, left)
  <2>1. PICK o, before : o = Constructed(n, k, v) /\ before = InMemory(n, k, v)
    OBVIOUS
  <2>2. /\ CanConstruct(n, k, v)
        /\ Save(n, k, v, before) \/ Save(n, k, v, o)
        /\ network' \subseteq network
        /\ vouchers' = Registered(n, k, v)
    BY <1>7, <1>10, <2>1 DEF StopConstructing, Stop
  <2>3. Ready(n, v, o)  BY <1>2, <1>3, <1>6, <2>1, <2>2, ConstructedIsReady
  <2>4. PromiseKept /\ Honest(n, k, v, o)'
    BY <1>1, <1>3, <1>5, <1>6, <2>1, <2>2, ConstructedIsHonest
  <2>5. FinalInv' /\ DefundInv'
    <3>1. CASE Save(n, k, v, before)
      <4>1. objective' = objective /\ channel' = channel
        BY <1>2, <1>3, <1>6, <2>1, <3>1, SavedSame DEF FundingInv
      <4>2. QED  BY <1>2, <2>4, <4>1, SamePays
    <3>2. CASE Save(n, k, v, o)
      <4>1. o \in Memory /\ (Has(n, v) => Grows(channel[n][v], o.channel))
        BY <2>3 DEF Ready
      <4>2. QED  BY <1>2, <1>3, <1>6, <2>4, <3>2, <4>1, SavedPays
    <3>3. QED  BY <2>2, <3>1, <3>2
  <2>6. PICK none : none = {}  OBVIOUS
  <2>7. QED  BY <2>2, <2>4, <2>5, <2>6, PaidAssembled
<1>11. CASE UpdateObjective(n, k, v, m, left)
  <2>1. PICK o : o = InMemory(n, k, v)  OBVIOUS
  <2>2. /\ o.status \in {"unapproved", "approved"}
        /\ Update(n, k, v, o, m, left) \/ Reject(n, k, v, o, left)
        /\ vouchers' = vouchers
    BY <1>11, <2>1 DEF UpdateObjective
  <2>3. o.status # "unknown"  BY <2>2
  <2>4. Ready(n, v, o)  BY <1>2, <1>3, <1>6, <2>1, <2>3, KnownIs
  <2>5. PromiseKept  BY <1>1, <1>2, <2>2, SamePromise
  <2>6. Honest(n, k, v, o)'
    BY <1>2, <1>3, <1>6, <2>1, <2>3, <2>5, StoredIsHonest
  <2>7. CASE Update(n, k, v, o, m, left)
    BY <1>1, <1>3, <1>4, <1>5, <1>6, <2>3, <2>4, <2>5, <2>6, <2>7, UpdatePays
  <2>8. CASE Reject(n, k, v, o, left)
    BY <1>3, <1>6, <2>4, <2>5, <2>6, <2>8, RejectPays
  <2>9. QED  BY <2>2, <2>7, <2>8
<1>12. QED  BY <1>1, <1>5, <1>8, <1>9, <1>10, <1>11

\* A proposal is handled.
LEMMA HandleProposalPays ==
  ASSUME PaidInv, FundingInv', NEW n \in Nodes, ReceiveProposal(n) \/ ProcessHead(n)
  PROVE  PaidInv'
<1>1. FundingInv /\ FinalInv /\ DefundInv /\ VoucherInv  BY DEF PaidInv
<1>2. PICK k, v, o, new, left : Handles(n, k, v, o, new, left)
  BY <1>1, ReceiveProposalIs, ProcessHeadIs
<1>3. CASE Ignore(n, left) \/ \E error \in Errors : Fail(n, error, left)
  <2>1. UNCHANGED <<objective, channel, vouchers, asked>> /\ network' \subseteq network
    BY <1>2, <1>3 DEF Handles, Fail, Ignore, Stop, GoOn, stored
  <2>2. QED  BY <2>1, NothingPaid
<1>4. CASE Cranks(n, k, v, o, new, left)
  <2>1. /\ Ready(n, v, new) /\ o.status # "unknown" /\ new.status = o.status
        /\ new.channel = o.channel /\ new.minimum = o.minimum
        /\ vouchers' = vouchers /\ AttemptProgress(n, k, v, o, new, left)
    BY <1>4 DEF Cranks
  <2>2. /\ k \in Kinds /\ v \in Targets /\ IsLeft(left)
        /\ o = InMemory(n, k, v) /\ asked' = asked
    BY <1>2 DEF Handles
  <2>3. PromiseKept  BY <1>1, <2>1, <2>2, SamePromise
  <2>4. Honest(n, k, v, o)'  BY <1>1, <2>1, <2>2, <2>3, StoredIsHonest
  <2>5. Honest(n, k, v, new)'  BY <2>1, <2>4 DEF Honest
  <2>6. new.status # "unknown"  BY <2>1
  <2>7. QED  BY <2>1, <2>2, <2>3, <2>5, <2>6, AttemptPays
<1>5. QED  BY <1>2, <1>3, <1>4 DEF Handles

\* The proposals of a message are taken up, or it is lost, or a node restarts.
LEMMA ReceiveProposalsPays ==
  ASSUME PaidInv, FundingInv', NEW m \in network, ReceiveProposals(m) \/ Lose(m)
  PROVE  PaidInv'
<1>1. FundingInv  BY DEF PaidInv
<1>2. \A left \in AfterTaking(m) : left.network \subseteq network
  BY <1>1, AfterTakingIs DEF IsLeft
<1>3. CASE ReceiveProposals(m)
  <2>1. PICK left : /\ left \in AfterTaking(m)
                    /\ \E entries : GoOn(m.to, [left EXCEPT !.inbox = entries], {}, << >>)
    BY <1>3 DEF ReceiveProposals
  <2>0. PICK entries : GoOn(m.to, [left EXCEPT !.inbox = entries], {}, << >>)
    BY <2>1
  <2>2. left = [inbox |-> inbox[m.to], toProcess |-> toProcess[m.to],
                network |-> left.network]
    BY <1>1, <2>1, AfterTakingIs
  <2>3. [left EXCEPT !.inbox = entries].network = left.network  BY <2>2
  <2>4. network' \subseteq network  BY <1>2, <2>1, <2>0, <2>3 DEF GoOn
  <2>5. UNCHANGED <<objective, channel, vouchers, asked>>
    BY <1>3 DEF ReceiveProposals, stored
  <2>6. QED  BY <2>4, <2>5, NothingPaid
<1>4. CASE Lose(m)  BY <1>4, NothingPaid DEF Lose, stored
<1>5. QED  BY <1>3, <1>4

\* A rejection notice.
LEMMA ReceiveRejectionPays ==
  ASSUME PaidInv, FundingInv', NEW m \in network, ReceiveRejection(m)
  PROVE  PaidInv'
<1>1. m.type = "rejection" /\ asked' = asked  BY DEF ReceiveRejection
<1>2. FundingInv /\ FinalInv /\ DefundInv /\ VoucherInv  BY DEF PaidInv
<1>3. m \in Rejections
  BY <1>1, <1>2 DEF FundingInv, TypeOK, Payloads, Proposals
<1>4. PICK n \in Nodes, k \in Kinds, v \in Targets : n = m.to /\ k = m.kind /\ v = m.v
  BY <1>3 DEF Rejections
<1>5. PICK o : o = InMemory(n, k, v)  OBVIOUS
<1>6. PICK left \in AfterTaking(m) :
        \/ Ignore(n, left)
        \/ \E error : Fail(n, error, left)
        \/ /\ o.status # "unknown"
           /\ Save(n, k, v, [o EXCEPT !.status = "rejected"])
           /\ GoOn(n, left, {}, << >>)
           /\ vouchers' = vouchers
  BY <1>4, <1>5 DEF ReceiveRejection
<1>7. left.network \subseteq network  BY <1>2, AfterTakingIs DEF IsLeft
<1>8. CASE Ignore(n, left) \/ \E error : Fail(n, error, left)
  <2>1. UNCHANGED <<objective, channel, vouchers>> /\ network' \subseteq network
    BY <1>7, <1>8 DEF Fail, Ignore, Stop, GoOn, stored
  <2>2. QED  BY <1>1, <2>1, NothingPaid
<1>9. CASE /\ o.status # "unknown"
           /\ Save(n, k, v, [o EXCEPT !.status = "rejected"])
           /\ GoOn(n, left, {}, << >>)
           /\ vouchers' = vouchers
  <2>1. Ready(n, v, o)  BY <1>2, <1>5, <1>9, KnownIs
  <2>2. PromiseKept  BY <1>1, <1>2, <1>9, SamePromise
  <2>3. Honest(n, k, v, o)'  BY <1>2, <1>5, <1>9, <2>2, StoredIsHonest
  <2>4. PICK none : none = {}  OBVIOUS
  <2>5. network' \subseteq network \cup none  BY <1>7, <1>9 DEF GoOn
  <2>6. QED  BY <1>9, <2>1, <2>2, <2>3, <2>4, <2>5, RejectedPays
<1>10. QED  BY <1>6, <1>8, <1>9

\* A voucher that Alice has promised.
LEMMA ReceiveVoucherPays ==
  ASSUME PaidInv, FundingInv', NEW m \in network, ReceiveVoucher(m)
  PROVE  PaidInv'
<1>1. m.type = "voucher" /\ asked' = asked  BY DEF ReceiveVoucher
<1>2. FundingInv /\ FinalInv /\ DefundInv /\ VoucherInv /\ TypeOK
  BY DEF PaidInv, FundingInv
<1>3. m \in Payloads  BY <1>1, <1>2 DEF TypeOK, Rejections, Proposals
<1>4. PICK n \in Nodes, v \in Targets, paid \in Nat : n = m.to /\ v = m.v /\ paid = m.paid
  BY <1>3 DEF Payloads
<1>5. n # Alice(v) /\ paid <= Paid(Alice(v), v)
  BY <1>1, <1>2, <1>4 DEF VoucherInv
<1>6. PICK left \in AfterTaking(m) :
        \/ Fail(n, "channel not registered", left)
        \/ /\ vouchers[n][v] # NoVoucher
           /\ vouchers' = [vouchers EXCEPT ![n][v] = LargerOf(vouchers[n][v], paid)]
           /\ \/ Stop(n, "could not fetch channel for voucher", left)
              \/ GoOn(n, left, {}, << >>)
           /\ UNCHANGED <<objective, channel>>
  BY <1>4 DEF ReceiveVoucher
<1>7. left.network \subseteq network  BY <1>2, AfterTakingIs DEF IsLeft
<1>8. CASE Fail(n, "channel not registered", left)
  <2>1. UNCHANGED <<objective, channel, vouchers>> /\ network' \subseteq network
    BY <1>7, <1>8 DEF Fail, Stop, stored
  <2>2. QED  BY <1>1, <2>1, NothingPaid
<1>9. CASE /\ vouchers[n][v] # NoVoucher
           /\ vouchers' = [vouchers EXCEPT ![n][v] = LargerOf(vouchers[n][v], paid)]
           /\ \/ Stop(n, "could not fetch channel for voucher", left)
              \/ GoOn(n, left, {}, << >>)
           /\ UNCHANGED <<objective, channel>>
  <2>1. vouchers[n][v] \in Nat  BY <1>2, <1>9, TypeIs
  <2>2. PICK larger \in Nat : larger = LargerOf(vouchers[n][v], paid)
    BY <2>1 DEF LargerOf
  <2>3. vouchers' = [vouchers EXCEPT ![n][v] = larger]  BY <1>9, <2>2
  <2>4. n = Bob(v) => larger <= Paid(Alice(v), v)
    <3>1. n = Bob(v) => vouchers[n][v] <= Paid(Alice(v), v)
      BY <1>2, <1>9 DEF VoucherInv, Paid
    <3>2. QED  BY <1>5, <2>2, <3>1 DEF LargerOf
  <2>5. PromiseKept  BY <1>1, <1>2, <1>5, <2>3, <2>4, HeldPromise
  <2>6. FinalInv' /\ DefundInv'  BY <1>2, <1>9, <2>5, SamePays
  <2>7. PICK none : none = {}  OBVIOUS
  <2>8. network' \subseteq network \cup none  BY <1>7, <1>9 DEF GoOn, Stop
  <2>9. QED  BY <2>5, <2>6, <2>7, <2>8, PaidAssembled
<1>10. QED  BY <1>6, <1>8, <1>9

\* At the start nobody has promised anything.
LEMMA InitPaid == Init => PaidInv
<1> SUFFICES ASSUME Init PROVE PaidInv  OBVIOUS
<1>1. FundingInv  BY InitFunding
<1>2. \A n \in Nodes, v \in Targets : ~ Has(n, v) /\ Paid(n, v) = 0
  BY DEF Init, Has, Paid
<1>3. \A n \in Nodes, v \in Targets : objective[n]["defund"][v].status = "unknown"
  BY <1>1, RestIs DEF Init, Unknown
<1>4. FinalInv /\ DefundInv  BY <1>2, <1>3 DEF FinalInv, DefundInv
<1>5. VoucherInv
  <2>1. \A v \in Targets : Paid(Bob(v), v) <= Paid(Alice(v), v)
    <3>1. 0 <= 0  OBVIOUS
    <3>2. QED  BY <1>2, <3>1, PathIs
  <2>2. QED  BY <2>1 DEF Init, VoucherInv
<1>6. QED  BY <1>1, <1>4, <1>5 DEF PaidInv

\* Every step keeps the invariant when clients wait.
LEMMA NextPays ==
  ASSUME ClientsWait, PaidInv, [Next]_vars
  PROVE  PaidInv'
<1>1. FundingInv'  BY NextKeeps DEF PaidInv
<1>2. ASSUME NEW m \in network, ReceiveMessage(m) PROVE PaidInv'
  BY <1>1, <1>2, ReceivePayloadPays, ReceiveProposalsPays, ReceiveRejectionPays,
     ReceiveVoucherPays DEF ReceiveMessage
<1>3. CASE Next
  <2>1. ASSUME NEW n \in Nodes, Restart(n) PROVE PaidInv'
    BY <1>1, <2>1, NothingPaid DEF Restart, stored
  <2>2. QED
    BY <1>1, <1>2, <1>3, <2>1, RequestFundPays, RequestDefundPays, PayPays,
       HandleProposalPays, ReceiveProposalsPays DEF Next
<1>4. CASE UNCHANGED vars  BY <1>1, <1>4, NothingPaid DEF vars, stored
<1>5. QED  BY <1>3, <1>4

\* Whatever final state there is pays what Alice paid last, and vouchers and
\* final states on their way say no other.
THEOREM PaidInvariance == ASSUME ClientsWait PROVE Spec => []PaidInv
<1>1. PaidInv /\ [Next]_vars => PaidInv'  BY NextPays
<1>2. QED  BY <1>1, InitPaid, PTL DEF Spec

\* Bob never signs a final state that pays him less than a voucher he holds,
\* when clients wait and leave it to Alice to close.
THEOREM BobIsPaidHolds == ASSUME ClientsWait PROVE Spec => []BobIsPaid
<1>1. PaidInv => BobIsPaid
  <2> SUFFICES ASSUME PaidInv, NEW v \in Targets, NEW paid \in 0..Deposit[v].a0,
                      HasClosed(Bob(v), v, paid)
               PROVE  Paid(Bob(v), v) <= paid
    BY DEF BobIsPaid
  <2>1. paid = Paid(Alice(v), v)
    BY PathIs DEF PaidInv, FinalInv, HasClosed, IsWhatAlicePaid
  <2>2. QED  BY <2>1 DEF PaidInv, VoucherInv
<1>2. QED  BY <1>1, PaidInvariance, PTL

-----------------------------------------------------------------------------
(***************************************************************************)
(* The promise of a ledger channel: first what a copy is of the history of *)
(* its ledger, then what updating it for an objective does.                *)
(***************************************************************************)

\* What a piece of the history ends with is part of it.
LEMMA PieceIs ==
  ASSUME NEW l \in Ledgers, NEW copy \in Copy, IsPiece(l, copy)
  PROVE  /\ copy.current \in Vars /\ copy.queue \in Seq(SignedProposal)
         /\ Len(copy.queue) \in Nat /\ Chain(copy.current, copy.queue)
         /\ copy.current \in signed[l]
         /\ Latest(copy) \in signed[l] /\ Latest(copy) \in Vars
         /\ Latest(copy) = StateAt(copy.current, copy.queue, Len(copy.queue))
         /\ Latest(copy).turnNum = copy.current.turnNum + Len(copy.queue)
<1>1. /\ copy.current \in Vars /\ copy.queue \in Seq(SignedProposal)
      /\ Len(copy.queue) \in Nat /\ Chain(copy.current, copy.queue)
  BY CopyIs DEF IsPiece
<1>2. /\ Latest(copy) = StateAt(copy.current, copy.queue, Len(copy.queue))
      /\ Latest(copy) \in Vars
      /\ Latest(copy).turnNum = copy.current.turnNum + Len(copy.queue)
  BY <1>1, ChainLatest DEF Latest
<1>3. StateAt(copy.current, copy.queue, 0) = copy.current  BY DEF StateAt
<1>4. 0 \in 0..Len(copy.queue) /\ Len(copy.queue) \in 0..Len(copy.queue)
  BY <1>1
<1>5. QED  BY <1>1, <1>2, <1>3, <1>4 DEF IsPiece

\* The proposals an objective of kind k for v may make of ledger l, or accept.
Wants(k, v, l) ==
  IF k = "fund" THEN {ExpectedProposal(v, l)}
                ELSE {RemovalProposal(v, paid) : paid \in 0..Deposit[v].a0}

\* They are all of v, and all have the same effect.
LEMMA WantsAre ==
  ASSUME NEW k \in Kinds, NEW v \in Targets, NEW l \in Hops(v), NEW p \in Wants(k, v, l)
  PROVE  /\ p \in Proposal /\ p.target = v
         /\ p.type = IF k = "fund" THEN "add" ELSE "remove"
<1>1. CASE k = "fund"  BY <1>1, ExpectedProposals DEF Wants
<1>2. CASE k # "fund"  BY <1>2, ExpectedProposals DEF Wants
<1>3. QED  BY <1>1, <1>2

\* Those it makes or accepts with the virtual channel c: a guarantee is removed
\* only when the final state is complete, and as that state says.
Offers(k, v, l, c) ==
  {p \in Wants(k, v, l) :
     k # "fund" => FinalComplete(v, c) /\ p = RemovalProposal(v, c.final.paid)}

\* A state with the proposal applied is what the objective waits for.
LEMMA HandledIsSettled ==
  ASSUME NEW k \in Kinds, NEW v \in Targets, NEW l \in Hops(v), NEW p \in Wants(k, v, l),
         NEW state \in Vars
  PROVE  IsSettled(l, HandleProposal(state, p), p)
<1>1. /\ p \in Proposal /\ p.target = v
      /\ p.type = IF k = "fund" THEN "add" ELSE "remove"
  BY WantsAre
<1>2. state.outcome.guarantees \in [Targets -> Guarantee \cup {NoGuarantee}]
  BY DEF Vars, Outcome
<1>3. CASE k = "fund"
  <2>1. p = ExpectedProposal(v, l)  BY <1>3 DEF Wants
  <2>2. p.type = "add" /\ p.amount = ExpectedGuarantee(v, l).amount /\ p.left = LeftParty(v, l)
    BY <2>1 DEF ExpectedProposal
  <2>3. HandleProposal(state, p).outcome.guarantees =
          [state.outcome.guarantees EXCEPT ![v] = [amount |-> p.amount, left |-> p.left]]
    BY <1>1, <2>2 DEF HandleProposal, AddGuarantee
  <2>4. [amount |-> p.amount, left |-> p.left] = ExpectedGuarantee(v, l)
    BY <2>2 DEF ExpectedGuarantee
  <2>5. HandleProposal(state, p).outcome.guarantees[v] = ExpectedGuarantee(v, l)
    BY <1>2, <2>3, <2>4
  <2>6. QED  BY <1>1, <2>2, <2>5 DEF IsSettled, Includes
<1>4. CASE k # "fund"
  <2>1. HandleProposal(state, p).outcome.guarantees =
          [state.outcome.guarantees EXCEPT ![v] = NoGuarantee]
    BY <1>1, <1>4 DEF HandleProposal, RemoveGuarantee
  <2>2. HandleProposal(state, p).outcome.guarantees[v] = NoGuarantee
    BY <1>2, <2>1
  <2>3. QED  BY <1>1, <1>4, <2>2 DEF IsSettled, IncludesTarget, Includes
<1>5. QED  BY <1>3, <1>4

\* What an update u of copy c of ledger l does for node n: nothing, or it offers
\* or accepts one of the proposals in S, whose effect the copy lacks.
Moves(n, l, c, S, u) ==
  \/ u.copy = c /\ u.messages = {}
  \/ \E p \in S :
       /\ ~ IsSettled(l, c.current, p)
       /\ \/ /\ Party(n, l) = Leader /\ CanPropose(c, p)
             /\ u.copy = Proposed(c, p) /\ u.messages = QueueMessage(l, u.copy)
          \/ /\ Party(n, l) = Follower /\ CanSignNext(c, p)
             /\ u.copy = SignedNext(c, p)
             /\ u.messages = CountersignedMessage(l, Countersignature(c, p))

\* What is done with some proposals is done with more.
LEMMA MoreMoves ==
  ASSUME NEW n, NEW l, NEW c, NEW S, NEW T, S \subseteq T, NEW u, Moves(n, l, c, S, u)
  PROVE  Moves(n, l, c, T, u)
BY DEF Moves

\* An update that is left alone.
LEMMA UntouchedMoves ==
  ASSUME NEW n, NEW l, NEW c, NEW S, NEW u,
         u = Untouched(c) \/ u = [Untouched(c) EXCEPT !.throws = TRUE]
  PROVE  Moves(n, l, c, S, u)
<1>1. u.copy = c /\ u.messages = {}  BY DEF Untouched
<1>2. QED  BY <1>1 DEF Moves

\* The leader offers, the follower accepts.
LEMMA UpdateMoves ==
  ASSUME NEW n \in Nodes, NEW l \in Ledgers, NEW c, NEW p, NEW S, p \in S,
         ~ IsSettled(l, c.current, p), NEW isP, NEW isN,
         NEW u, u = UpdateLedger(n, l, c, p, isP, isN)
  PROVE  Moves(n, l, c, S, u)
<1>1. CASE u = Untouched(c) \/ u = [Untouched(c) EXCEPT !.throws = TRUE]
  BY <1>1, UntouchedMoves
<1>2. CASE Party(n, l) = Leader /\ CanPropose(c, p) /\ u = ProposeUpdate(l, c, p)
  <2>1. u.copy = Proposed(c, p) /\ u.messages = QueueMessage(l, u.copy)
    BY <1>2 DEF ProposeUpdate
  <2>2. QED  BY <1>2, <2>1 DEF Moves
<1>3. CASE Party(n, l) = Follower /\ CanSignNext(c, p) /\ u = AcceptUpdate(l, c, p)
  <2>1. /\ u.copy = SignedNext(c, p)
        /\ u.messages = CountersignedMessage(l, Countersignature(c, p))
    BY <1>3 DEF AcceptUpdate
  <2>2. QED  BY <1>3, <2>1 DEF Moves
<1>4. Party(n, l) = Leader \/ Party(n, l) = Follower  BY PartyIs, TwoParties
<1>5. Leader # Follower  BY TwoParties
<1>6. QED  BY <1>1, <1>2, <1>3, <1>4, <1>5 DEF UpdateLedger

\* What updateLedgerWithGuarantee of virtual fund does to a ledger.
LEMMA GuaranteeMoves ==
  ASSUME NEW n \in Nodes, NEW v \in Targets, NEW l \in Hops(v), NEW c,
         NEW u, u = UpdateLedgerWithGuarantee(n, v, l, c)
  PROVE  Moves(n, l, c, Wants("fund", v, l), u)
<1>1. l \in Ledgers  BY EndsOfHops, TwoParties
<1>2. PICK p : p = ExpectedProposal(v, l)  OBVIOUS
<1>3. p \in Wants("fund", v, l) /\ p.type = "add" /\ p.target = v
  BY <1>2 DEF Wants, ExpectedProposal
<1>4. CASE IsFunding(v, l, c)
  <2>1. u = Untouched(c)  BY <1>4 DEF UpdateLedgerWithGuarantee
  <2>2. QED  BY <2>1, UntouchedMoves
<1>5. CASE ~ IsFunding(v, l, c)
  <2>1. ~ IsSettled(l, c.current, p)  BY <1>3, <1>5 DEF IsSettled, IsFunding
  <2>2. \E isP, isN : u = UpdateLedger(n, l, c, p, isP, isN)
    BY <1>2, <1>5 DEF UpdateLedgerWithGuarantee
  <2>3. QED  BY <1>1, <1>3, <2>1, <2>2, UpdateMoves
<1>6. QED  BY <1>4, <1>5

\* What updateLedgerToRemoveGuarantee of virtual defund does to a ledger.
LEMMA RemovalMoves ==
  ASSUME NEW n \in Nodes, NEW v \in Targets, NEW l \in Hops(v), NEW c,
         NEW paid \in 0..Deposit[v].a0,
         NEW u, u = UpdateLedgerToRemoveGuarantee(n, v, l, c, paid)
  PROVE  Moves(n, l, c, {RemovalProposal(v, paid)}, u)
<1>1. l \in Ledgers  BY EndsOfHops, TwoParties
<1>2. PICK p : p = RemovalProposal(v, paid)  OBVIOUS
<1>3. p \in {RemovalProposal(v, paid)} /\ p.type = "remove" /\ p.target = v
  BY <1>2 DEF RemovalProposal
<1>4. CASE ~ CopyIncludes(c, v)
  <2>1. u = Untouched(c)  BY <1>4 DEF UpdateLedgerToRemoveGuarantee
  <2>2. QED  BY <2>1, UntouchedMoves
<1>5. CASE CopyIncludes(c, v)
  <2>1. ~ IsSettled(l, c.current, p)  BY <1>3, <1>5 DEF IsSettled, CopyIncludes
  <2>2. \E isP, isN : u = UpdateLedger(n, l, c, p, isP, isN)
    BY <1>2, <1>5 DEF UpdateLedgerToRemoveGuarantee
  <2>3. QED  BY <1>1, <1>3, <2>1, <2>2, UpdateMoves
<1>6. QED  BY <1>4, <1>5

\* What a crank does to the ledgers: the updates of the ledgers on the path,
\* saved, and their messages; or nothing.
CrankMoves(n, k, v, o, r) ==
  \E updates :
    /\ \A l \in LedgersOf(n, v) :
         Moves(n, l, o.copies[l], Offers(k, v, l, r.o.channel), updates[l])
    /\ \A l \in Ledgers :
         r.o.copies[l] = IF l \in LedgersOf(n, v) THEN updates[l].copy ELSE o.copies[l]
    /\ \A m \in r.messages : m.type = "proposals" =>
         \E l \in LedgersOf(n, v) : m \in updates[l].messages

\* A crank that leaves the copies alone.
LEMMA IdleCrankMoves ==
  ASSUME NEW n \in Nodes, NEW k, NEW v, NEW o, NEW r,
         \A l \in Ledgers : r.o.copies[l] = o.copies[l],
         \A m \in r.messages : m.type # "proposals"
  PROVE  CrankMoves(n, k, v, o, r)
<1>1. PICK updates : updates = [l \in LedgersOf(n, v) |-> Untouched(o.copies[l])]
  OBVIOUS
<1>2. \A l \in LedgersOf(n, v) : /\ updates[l] = Untouched(o.copies[l])
                                 /\ updates[l].copy = o.copies[l]
  BY <1>1 DEF Untouched
<1>3. \A l \in LedgersOf(n, v) :
        Moves(n, l, o.copies[l], Offers(k, v, l, r.o.channel), updates[l])
  BY <1>2, UntouchedMoves
<1>4. QED  BY <1>2, <1>3 DEF CrankMoves

\* The crank of a virtual-fund objective.
LEMMA FundCrankMoves ==
  ASSUME NEW v \in Targets, NEW n \in Nodes, NEW o \in Memory,
         NEW r, r = FundCrank(n, v, o), r.error = "none"
  PROVE  CrankMoves(n, "fund", v, o, r)
<1> DEFINE prefund  == o.channel.prefund \cup {n}
           results  == [l \in LedgersOf(n, v) |->
                          UpdateLedgerWithGuarantee(n, v, l, o.copies[l])]
           updated  == MergeUpdates(n, v, o.copies, results)
           ready    == PrefundComplete(v, prefund)
           copies   == IF ready THEN updated.copies ELSE o.copies
<1>1. /\ r.o.copies = copies
      /\ \A m \in r.messages :
           \/ m \in Payload("prefund", n, v, 0)
           \/ m \in Payload("postfund", n, v, 0)
           \/ ready /\ m \in updated.messages
  <2>1. \A e : Throw(o, e).error = e  BY DEF Throw
  <2>2. o.status = "approved"  BY <2>1 DEF FundCrank
  <2>3. ~ (ready /\ updated.throws)
    <3>1. ready /\ updated.throws => r = Throw(o, "error updating ledger funding")
      BY <2>2 DEF FundCrank
    <3>2. Throw(o, "error updating ledger funding").error # "none"  BY DEF Throw
    <3> HIDE DEF ready, updated
    <3>3. QED  BY <3>1, <3>2
  <2> DEFINE funded   == ready /\ FundingComplete(n, v, updated.copies)
             postfund == IF funded THEN o.channel.postfund \cup {n} ELSE o.channel.postfund
             done     == funded /\ MayFinish(n, v, postfund)
             messages ==
               (IF n \in o.channel.prefund THEN {} ELSE Payload("prefund", n, v, 0))
                 \cup (IF ready THEN updated.messages ELSE {})
                 \cup (IF postfund = o.channel.postfund THEN {}
                                                        ELSE Payload("postfund", n, v, 0))
             new == [status  |-> IF done THEN "completed" ELSE "approved",
                     minimum |-> o.minimum,
                     channel |-> [o.channel EXCEPT !.prefund  = prefund,
                                                   !.postfund = postfund],
                     copies  |-> copies]
  <2>4. r = [o |-> new, messages |-> messages,
             heads |-> IF ready THEN updated.heads ELSE << >>,
             done  |-> done,
             error |-> "none"]
    BY <2>2, <2>3 DEF FundCrank
  <2>5. new.copies = copies  OBVIOUS
  <2> HIDE DEF ready, updated, copies, new, postfund
  <2>6. QED  BY <2>4, <2>5
<1>2. o.copies \in [Ledgers -> Copy]  BY MemoryIs
<1>3. LedgersOf(n, v) \subseteq Ledgers /\ LedgersOf(n, v) \subseteq Hops(v)
  BY LedgersOfAre
<1>4. \A m \in Payload("prefund", n, v, 0) \cup Payload("postfund", n, v, 0) :
        m.type # "proposals"
  BY PayloadIs
<1>5. CASE ready
  <2>1. /\ \A l \in Ledgers : updated.copies[l] =
             IF l \in LedgersOf(n, v) THEN results[l].copy ELSE o.copies[l]
        /\ updated.messages = UNION {results[l].messages : l \in LedgersOf(n, v)}
    <3> HIDE DEF results
    <3>1. QED  BY <1>2 DEF MergeUpdates
  <2>2. \A l \in LedgersOf(n, v) :
          Moves(n, l, o.copies[l], Offers("fund", v, l, r.o.channel), results[l])
    <3>1. \A l : Offers("fund", v, l, r.o.channel) = Wants("fund", v, l)
      BY DEF Offers
    <3>2. \A l \in LedgersOf(n, v) :
            Moves(n, l, o.copies[l], Wants("fund", v, l), results[l])
      BY <1>3, GuaranteeMoves
    <3>3. QED  BY <3>1, <3>2
  <2> HIDE DEF results, updated
  <2>3. QED  BY <1>1, <1>4, <1>5, <2>1, <2>2 DEF CrankMoves
<1>6. CASE ~ ready  BY <1>1, <1>4, <1>6, IdleCrankMoves
<1>7. QED  BY <1>5, <1>6

\* The crank of a virtual-defund objective that has a final state to sign.
LEMMA DividedMoves ==
  ASSUME NEW v \in Targets, NEW n \in Nodes, NEW o \in Memory,
         o.minimum <= Deposit[v].a0,
         o.channel.final # NoFinal => o.channel.final.paid <= Deposit[v].a0,
         NEW r, r = Divided(n, v, o), r.error = "none"
  PROVE  CrankMoves(n, "defund", v, o, r)
<1> DEFINE final   == SignFinal(n, v, o)
           results == [l \in LedgersOf(n, v) |->
                         UpdateLedgerToRemoveGuarantee(n, v, l, o.copies[l], final.paid)]
           updated == MergeUpdates(n, v, o.copies, results)
           agreed  == IsSignedByAll(n, v, final)
           copies  == IF agreed THEN updated.copies ELSE o.copies
<1>1. final.paid \in 0..Deposit[v].a0 /\ final # NoFinal  BY SignFinalIs
<1> HIDE DEF final
<1>2. /\ r.o.copies = copies /\ r.o.channel.final = final
      /\ \A m \in r.messages :
           \/ m \in Payload("final", n, v, final.paid)
           \/ agreed /\ m \in updated.messages
  <2>1. ~ (agreed /\ updated.throws)
    <3>1. agreed /\ updated.throws => r = Throw(o, "error updating ledger funding")
      BY DEF Divided, final
    <3>2. Throw(o, "error updating ledger funding").error # "none"  BY DEF Throw
    <3> HIDE DEF agreed, updated
    <3>3. QED  BY <3>1, <3>2
  <2>2. \E status, heads, done, error :
          r = [o |-> [status |-> status, minimum |-> o.minimum,
                      channel |-> [o.channel EXCEPT !.final = final],
                      copies |-> copies],
               messages |->
                 (IF final = o.channel.final THEN {} ELSE Payload("final", n, v, final.paid))
                   \cup (IF agreed THEN updated.messages ELSE {}),
               heads |-> heads, done |-> done, error |-> error]
    BY <2>1, ZenonT(60) DEF Divided, final
  <2>3. PICK c : c = [o.channel EXCEPT !.final = final]  OBVIOUS
  <2>4. c.final = final  BY <2>3, MemoryIs
  <2>5. r.o.copies = copies /\ r.o.channel = c  BY <2>2, <2>3
  <2> HIDE DEF agreed, updated, copies
  <2>6. QED  BY <2>2, <2>4, <2>5
<1>3. o.copies \in [Ledgers -> Copy]  BY MemoryIs
<1>4. LedgersOf(n, v) \subseteq Ledgers /\ LedgersOf(n, v) \subseteq Hops(v)
  BY LedgersOfAre
<1>5. \A m \in Payload("final", n, v, final.paid) : m.type # "proposals"
  <2>1. PICK paid \in Nat : paid = final.paid  BY <1>1, ExpectedProposals
  <2>2. QED  BY <2>1, PayloadIs
<1>6. CASE agreed
  <2>1. /\ \A l \in Ledgers : updated.copies[l] =
             IF l \in LedgersOf(n, v) THEN results[l].copy ELSE o.copies[l]
        /\ updated.messages = UNION {results[l].messages : l \in LedgersOf(n, v)}
    <3> HIDE DEF results
    <3>1. QED  BY <1>3 DEF MergeUpdates
  <2>2. ASSUME NEW l \in LedgersOf(n, v)
        PROVE  Moves(n, l, o.copies[l], Offers("defund", v, l, r.o.channel), results[l])
    <3>1. PICK paid \in 0..Deposit[v].a0 : paid = final.paid  BY <1>1
    <3>2. Moves(n, l, o.copies[l], {RemovalProposal(v, paid)}, results[l])
      BY <1>4, <3>1, RemovalMoves
    <3>3. FinalComplete(v, r.o.channel)
      BY <1>1, <1>2, <1>6 DEF FinalComplete, IsSignedByAll
    <3>4. RemovalProposal(v, paid) \in Offers("defund", v, l, r.o.channel)
      BY <1>2, <3>1, <3>3 DEF Offers, Wants
    <3>5. {RemovalProposal(v, paid)} \subseteq Offers("defund", v, l, r.o.channel)
      BY <3>4
    <3>6. QED  BY <3>2, <3>5, MoreMoves
  <2> HIDE DEF results, updated
  <2>3. QED  BY <1>2, <1>5, <1>6, <2>1, <2>2 DEF CrankMoves
<1>7. CASE ~ agreed  BY <1>2, <1>5, <1>7, IdleCrankMoves
<1>8. QED  BY <1>6, <1>7

\* Every crank.
LEMMA CrankMovesLedgers ==
  ASSUME NEW n \in Nodes, NEW k \in Kinds, NEW v \in Targets,
         NEW o, Ready(n, v, o), NEW r, r = Crank(n, k, v, o), r.error = "none"
  PROVE  CrankMoves(n, k, v, o, r)
<1>1. /\ o \in Memory /\ o.minimum <= Deposit[v].a0
      /\ o.channel.final # NoFinal => o.channel.final.paid <= Deposit[v].a0
  BY DEF Ready, Justified, IsSignedFinal
<1>2. CASE k = "fund"  BY <1>1, <1>2, FundCrankMoves DEF Crank
<1>3. CASE k = "defund"
  <2>1. r = DefundCrank(n, v, o)  BY <1>3 DEF Crank
  <2>2. CASE r = [Throw(o, "none") EXCEPT !.done = TRUE]
    <3>1. r.o = o /\ r.messages = {}  BY <2>2 DEF Throw
    <3>2. QED  BY <3>1, IdleCrankMoves
  <2>3. CASE r = [Throw(o, "none") EXCEPT !.messages = RequestMessage(n, v)]
    <3>1. r.o = o /\ r.messages = RequestMessage(n, v)  BY <2>3 DEF Throw
    <3>2. \A m \in r.messages : m.type = "request"  BY <3>1 DEF RequestMessage
    <3>3. QED  BY <3>1, <3>2, IdleCrankMoves
  <2>4. CASE r = Divided(n, v, o)  BY <1>1, <1>3, <2>4, DividedMoves
  <2>5. Throw(o, "no signature from Alice").error # "none"  BY DEF Throw
  <2>6. QED  BY <2>1, <2>2, <2>3, <2>4, <2>5 DEF DefundCrank
<1>4. QED  BY <1>2, <1>3, KindsAssumption

\* What an objective of kind k for v has in memory as copy c of ledger l when it
\* is cranked: what the store has, or that with one proposal received.
Heard(n, k, v, l, c) ==
  \/ c = ledger[l][Party(n, l)]
  \/ \E sp \in SignedProposal :
       /\ IsVouched(l, sp)
       /\ sp.proposal.target = v /\ ProposalKind(sp.proposal) = k
       /\ c = Received(Party(n, l), ledger[l][Party(n, l)], sp)

\* Copy d is copy c, or what a crank makes of it with a proposal in S.
Moved(n, k, v, l, c, d, S) ==
  \/ d = c
  \/ /\ v \in Targets /\ k \in Kinds /\ l \in Hops(v)
     /\ \E u : Moves(n, l, c, S \cap Wants(k, v, l), u) /\ d = u.copy

\* What a step may make of the leader's copy: nothing, one more proposal in S, or
\* a later state as consensus that the follower has accepted.
LeaderMove(l, d, S) ==
  LET a == ledger[l][Leader]
  IN \/ d = a
     \/ \E p \in S : CanPropose(a, p) /\ d = Proposed(a, p)
     \/ \E i \in 1..Len(a.queue) :
          /\ d.current = StateAt(a.current, a.queue, i)
          /\ d.queue = SubSeq(a.queue, i + 1, Len(a.queue))
          /\ d.current.turnNum <= ledger[l][Follower].current.turnNum

\* What a step may make of the follower's copy: another piece of the history
\* with the same consensus state, or that piece with its next state accepted,
\* for a proposal in S.
FollowerMove(l, d, S) ==
  \E piece \in Copy :
    /\ IsPiece(l, piece) /\ piece.current = ledger[l][Follower].current
    /\ d = piece \/ \E p \in S : CanSignNext(piece, p) /\ d = SignedNext(piece, p)

\* What a crank does to the leader's copy is one of its moves: when it was told
\* of an acceptance, there is nothing left for its objective to propose.
LEMMA LeaderMoves ==
  ASSUME NEW n \in Nodes, NEW l \in Ledgers, Ends[l][Leader] = n,
         NEW k, NEW v, NEW c, NEW d, NEW S,
         ledger[l][Leader] \in Copy, IsPiece(l, ledger[l][Leader]),
         Heard(n, k, v, l, c), Moved(n, k, v, l, c, d, S)
  PROVE  LeaderMove(l, d, S)
<1>1. Party(n, l) = Leader  BY PartyIs
<1>2. PICK a : a = ledger[l][Leader]  OBVIOUS
<1>3. a \in Copy /\ IsPiece(l, a) /\ Chain(a.current, a.queue)
  BY <1>2 DEF IsPiece
<1>4. \/ d = c
      \/ /\ v \in Targets /\ k \in Kinds /\ l \in Hops(v)
         /\ \E p \in S \cap Wants(k, v, l) :
              ~ IsSettled(l, c.current, p) /\ CanPropose(c, p) /\ d = Proposed(c, p)
  BY <1>1, TwoParties DEF Moved, Moves
<1>5. CASE c = a
  <2>1. CASE d = c  BY <1>2, <1>5, <2>1 DEF LeaderMove
  <2>2. CASE d # c
    <3>1. \E p \in S : CanPropose(a, p) /\ d = Proposed(a, p)
      BY <1>4, <1>5, <2>2
    <3>2. QED  BY <1>2, <3>1 DEF LeaderMove
  <2>3. QED  BY <2>1, <2>2
<1>6. CASE c # a
  <2>1. PICK sp \in SignedProposal :
          /\ IsVouched(l, sp)
          /\ sp.proposal.target = v /\ ProposalKind(sp.proposal) = k
          /\ c = LeaderReceived(a, sp)
    BY <1>1, <1>2, <1>6 DEF Heard, Received
  <2>2. PICK i \in 1..Len(a.queue) :
          /\ c.current = StateAt(a.current, a.queue, i)
          /\ c.queue = SubSeq(a.queue, i + 1, Len(a.queue))
          /\ StateAt(a.current, a.queue, i) = sp.signature.signed
          /\ SignedBy(sp.signature, Follower, StateAt(a.current, a.queue, i))
    BY <1>3, <1>6, <2>1, LeaderReceivedIs
  <2>3. sp.signature.signer = Follower  BY <2>2 DEF SignedBy, Sign
  <2>4. /\ c.current.turnNum <= ledger[l][Follower].current.turnNum
        /\ IsSettled(l, c.current, sp.proposal)
    BY <2>1, <2>2, <2>3 DEF IsVouched
  <2>5. d = c
    <3>1. SUFFICES ASSUME d # c PROVE FALSE  OBVIOUS
    <3>2. PICK p \in Wants(k, v, l) : ~ IsSettled(l, c.current, p)
      BY <1>4, <3>1
    <3>3. /\ p.target = v
          /\ p.type = IF k = "fund" THEN "add" ELSE "remove"
      BY <1>4, <3>1, WantsAre
    <3>4. sp.proposal.type = "add" <=> p.type = "add"
      BY <2>1, <3>3 DEF ProposalKind
    <3>5. IsSettled(l, c.current, p) <=> IsSettled(l, c.current, sp.proposal)
      BY <2>1, <3>3, <3>4 DEF IsSettled
    <3>6. QED  BY <2>4, <3>2, <3>5
  <2>6. QED  BY <1>2, <2>2, <2>4, <2>5 DEF LeaderMove
<1>7. QED  BY <1>5, <1>6

\* followerReceive gives the follower a longer piece of the history, because the
\* leader had signed what it was sent.
LEMMA FollowerReceivesPiece ==
  ASSUME NEW l \in Ledgers, NEW a \in Copy, IsPiece(l, a),
         NEW sp \in SignedProposal, sp.signature.signed \in signed[l],
         NEW c, c = FollowerReceived(a, sp)
  PROVE  c \in Copy /\ IsPiece(l, c) /\ c.current = a.current
<1>1. c \in Copy /\ c.current = a.current  BY FollowerReceivedIs DEF Evolves
<1>2. CASE c = a  BY <1>1, <1>2
<1>3. CASE c # a
  <2>1. /\ IsNextTurn(a, sp) /\ IsValid(a, sp)
        /\ c = [a EXCEPT !.queue = Append(@, sp)]
    BY <1>3 DEF FollowerReceived
  <2> DEFINE v == a.current
             q == a.queue
             longer == Append(q, sp)
  <2>2. /\ v \in Vars /\ q \in Seq(SignedProposal) /\ Len(q) \in Nat /\ Chain(v, q)
        /\ Latest(a) = StateAt(v, q, Len(q)) /\ Latest(a).turnNum = v.turnNum + Len(q)
    BY PieceIs
  <2>3. c.queue = longer  BY <2>1, CopyIs
  <2>4. /\ CanHandleProposal(StateAt(v, q, Len(q)), sp.proposal)
        /\ SignedBy(sp.signature, Leader,
                    HandleProposal(StateAt(v, q, Len(q)), sp.proposal))
        /\ sp.turnNum = v.turnNum + Len(q) + 1
    BY <2>1, <2>2 DEF IsNextTurn, IsValid
  <2>5. \A i \in 0..Len(q) : StateAt(v, q, i) \in signed[l]  BY DEF IsPiece
  <2> HIDE DEF v, q
  <2>6. /\ Len(longer) = Len(q) + 1
        /\ \A i \in 0..Len(q) : StateAt(v, longer, i) = StateAt(v, q, i)
        /\ StateAt(v, longer, Len(q) + 1) = sp.signature.signed
        /\ Chain(v, longer)
    BY <2>2, <2>4, ChainAppend
  <2> HIDE DEF longer
  <2>7. \A i \in 0..Len(longer) : StateAt(v, longer, i) \in signed[l]
    <3>1. SUFFICES ASSUME NEW i \in 0..Len(longer)
                   PROVE  StateAt(v, longer, i) \in signed[l]
      OBVIOUS
    <3>2. i \in 0..Len(q) \/ i = Len(q) + 1  BY <2>2, <2>6
    <3>3. QED  BY <2>5, <2>6, <3>2
  <2>8. c.current = v  BY <1>1 DEF v
  <2>9. QED  BY <1>1, <2>3, <2>6, <2>7, <2>8 DEF IsPiece
<1>4. QED  BY <1>2, <1>3

\* What a crank does to the follower's copy is one of its moves.
LEMMA FollowerMoves ==
  ASSUME NEW n \in Nodes, NEW l \in Ledgers, Ends[l][Follower] = n,
         NEW k, NEW v, NEW c, NEW d, NEW S,
         ledger[l][Follower] \in Copy, IsPiece(l, ledger[l][Follower]),
         Heard(n, k, v, l, c), Moved(n, k, v, l, c, d, S)
  PROVE  FollowerMove(l, d, S)
<1>1. Party(n, l) = Follower  BY PartyIs, TwoParties
<1>2. c \in Copy /\ IsPiece(l, c) /\ c.current = ledger[l][Follower].current
  <2>1. CASE c = ledger[l][Follower]  BY <2>1
  <2>2. CASE c # ledger[l][Follower]
    <3>1. PICK sp \in SignedProposal :
            /\ sp.signature.signed \in signed[l]
            /\ c = FollowerReceived(ledger[l][Follower], sp)
      BY <1>1, <2>2, TwoParties DEF Heard, Received, IsVouched
    <3>2. QED  BY <3>1, FollowerReceivesPiece
  <2>3. QED  BY <2>1, <2>2
<1>3. CASE d = c  BY <1>2, <1>3 DEF FollowerMove
<1>4. CASE d # c
  <2>1. \E p \in S : CanSignNext(c, p) /\ d = SignedNext(c, p)
    BY <1>1, <1>4, TwoParties DEF Moved, Moves
  <2>2. QED  BY <1>2, <2>1 DEF FollowerMove
<1>5. QED  BY <1>3, <1>4

\* What the leader's moves do to the history and to its piece of it: they leave
\* the history alone, or add one state to its end, and the leader's consensus
\* state becomes a later one only if the follower has accepted that.
LEMMA LeaderMoveIs ==
  ASSUME NEW l \in Ledgers, NEW a \in Copy, a = ledger[l][Leader],
         IsHistory(l), IsPiece(l, a), NEW d, NEW S \in SUBSET Proposal,
         LeaderMove(l, d, S)
  PROVE  /\ Chain(d.current, d.queue)
         /\ \A i \in 0..Len(d.queue) :
              StateAt(d.current, d.queue, i) \in signed[l] \cup {Latest(d)}
         /\ \/ /\ Latest(d) = Latest(a) /\ Latest(d) \in signed[l]
               /\ \/ d.current = a.current
                  \/ /\ d.current \in signed[l]
                     /\ a.current.turnNum < d.current.turnNum
                     /\ d.current.turnNum <= ledger[l][Follower].current.turnNum
            \/ /\ d.current = a.current
               /\ Latest(d).turnNum = Latest(a).turnNum + 1
               /\ \E p \in S : /\ CanHandleProposal(Latest(a), p)
                               /\ Latest(d) = HandleProposal(Latest(a), p)
<1> DEFINE v == a.current
           q == a.queue
<1>1. /\ v \in Vars /\ q \in Seq(SignedProposal) /\ Len(q) \in Nat /\ Chain(v, q)
      /\ Latest(a) \in signed[l] /\ Latest(a) \in Vars
      /\ Latest(a) = StateAt(v, q, Len(q)) /\ v.turnNum \in Nat
      /\ \A i \in 0..Len(q) : StateAt(v, q, i) \in signed[l]
  BY PieceIs DEF IsPiece, Vars
<1>2. CASE d = a  BY <1>1, <1>2
<1>3. ASSUME NEW p \in S, CanPropose(a, p), d = Proposed(a, p)
      PROVE  /\ Chain(d.current, d.queue)
             /\ \A i \in 0..Len(d.queue) :
                  StateAt(d.current, d.queue, i) \in signed[l] \cup {Latest(d)}
             /\ d.current = a.current
             /\ Latest(d).turnNum = Latest(a).turnNum + 1
             /\ CanHandleProposal(Latest(a), p)
             /\ Latest(d) = HandleProposal(Latest(a), p)
  <2>1. /\ d.current = v
        /\ Chain(v, d.queue)
        /\ Latest(d) = HandleProposal(Latest(a), p)
        /\ Len(d.queue) = Len(q) + 1
        /\ \A i \in 1..Len(q) : d.queue[i] = q[i]
        /\ d.queue[Len(q) + 1].signature = Sign(Leader, HandleProposal(Latest(a), p))
    BY <1>1, <1>3, ProposedIs, ZenonT(60)
  <2>2. CanHandleProposal(Latest(a), p)  BY <1>3 DEF CanPropose
  <2>3. Latest(d).turnNum = Latest(a).turnNum + 1
    BY <1>1, <2>1, <2>2, HandleProposalType
  <2>4. d.queue[Len(q) + 1].signature.signed = Latest(d)  BY <2>1 DEF Sign
  <2> HIDE DEF v, q
  <2>5. ASSUME NEW i \in 0..Len(d.queue)
        PROVE  StateAt(v, d.queue, i) \in signed[l] \cup {Latest(d)}
    <3>1. CASE i = Len(q) + 1
      <4>1. StateAt(v, d.queue, i) = d.queue[i].signature.signed
        BY <1>1, <3>1 DEF StateAt
      <4>2. QED  BY <2>4, <3>1, <4>1
    <3>2. CASE i # Len(q) + 1
      <4>1. i \in 0..Len(q) /\ (i = 0 \/ i \in 1..Len(q))  BY <1>1, <2>1, <3>2
      <4>2. StateAt(v, d.queue, i) = StateAt(v, q, i)  BY <2>1, <4>1 DEF StateAt
      <4>3. QED  BY <1>1, <4>1, <4>2
    <3>3. QED  BY <3>1, <3>2
  <2>6. v = a.current  BY DEF v
  <2>7. QED  BY <2>1, <2>2, <2>3, <2>5, <2>6
<1>4. ASSUME NEW i \in 1..Len(a.queue),
             d.current = StateAt(a.current, a.queue, i),
             d.queue = SubSeq(a.queue, i + 1, Len(a.queue))
      PROVE  /\ Chain(d.current, d.queue)
             /\ \A j \in 0..Len(d.queue) : StateAt(d.current, d.queue, j) \in signed[l]
             /\ Latest(d) = Latest(a)
             /\ d.current \in signed[l]
             /\ a.current.turnNum < d.current.turnNum
  <2> DEFINE w == StateAt(v, q, i)
             r == SubSeq(q, i + 1, Len(q))
  <2>1. i \in 0..Len(q) /\ i \in Nat /\ 0 < i  BY <1>1
  <2>2. /\ r \in Seq(SignedProposal) /\ Len(r) = Len(q) - i
        /\ \A j \in 1..Len(r) : r[j] = q[i + j]
    BY <1>1, <2>1
  <2>2a. Len(r) <= Len(q) - i  BY <1>1, <2>1, <2>2
  <2>3. d.current = w /\ d.queue = r  BY <1>4
  <2> HIDE DEF r
  <2>4. w \in Vars /\ w.turnNum = v.turnNum + i  BY <1>1, <2>1, ChainStates
  <2>5. /\ Chain(w, r)
        /\ \A j \in 0..Len(r) : StateAt(w, r, j) = StateAt(v, q, i + j)
    <3>1. v \in Vars /\ q \in Seq(SignedProposal) /\ Chain(v, q)  BY <1>1
    <3>2. QED  BY ONLY <2>1, <2>2, <2>2a, <3>1, ChainDrop DEF w
  <2>6. v = a.current  BY DEF v
  <2> HIDE DEF w, v, q
  <2>7. Len(r) \in Nat  BY <1>1, <2>1, <2>2
  <2>8. Latest(d) = StateAt(w, r, Len(r))
    BY <2>2, <2>3, <2>4, <2>5, ChainLatest DEF Latest
  <2>9. \A j \in 0..Len(r) : i + j \in 0..Len(q)  BY <1>1, <2>1, <2>2
  <2>10. Len(r) \in 0..Len(r) /\ i + Len(r) = Len(q)  BY <1>1, <2>1, <2>2, <2>7
  <2>11. Latest(d) = Latest(a)  BY <1>1, <2>5, <2>8, <2>10
  <2>12. \A j \in 0..Len(r) : StateAt(w, r, j) \in signed[l]
    BY <1>1, <2>5, <2>9
  <2>13. w \in signed[l]  BY <1>1, <2>1 DEF w
  <2>14. v.turnNum < w.turnNum  BY <1>1, <2>1, <2>4
  <2>15. QED  BY <2>3, <2>5, <2>6, <2>11, <2>12, <2>13, <2>14
<1>5. QED  BY <1>1, <1>2, <1>3, <1>4 DEF LeaderMove

\* What the follower's moves do: it has another piece of the same history, whose
\* consensus state is the one it had or the one after that.
LEMMA FollowerMoveIs ==
  ASSUME NEW l \in Ledgers, NEW d, NEW S \in SUBSET Proposal, FollowerMove(l, d, S)
  PROVE  /\ IsPiece(l, d)
         /\ \/ d.current = ledger[l][Follower].current
            \/ /\ d.current \in signed[l]
               /\ d.current.turnNum = ledger[l][Follower].current.turnNum + 1
               /\ \E p \in S :
                    /\ CanHandleProposal(ledger[l][Follower].current, p)
                    /\ d.current = HandleProposal(ledger[l][Follower].current, p)
<1>1. PICK piece \in Copy :
        /\ IsPiece(l, piece) /\ piece.current = ledger[l][Follower].current
        /\ d = piece \/ \E p \in S : CanSignNext(piece, p) /\ d = SignedNext(piece, p)
  BY DEF FollowerMove
<1>2. CASE d = piece  BY <1>1, <1>2
<1>3. CASE d # piece
  <2> DEFINE v == piece.current
             q == piece.queue
  <2>1. PICK p \in S : CanSignNext(piece, p) /\ d = SignedNext(piece, p)
    BY <1>1, <1>3
  <2>2. /\ v \in Vars /\ q \in Seq(SignedProposal) /\ Len(q) \in Nat /\ Chain(v, q)
        /\ \A i \in 0..Len(q) : StateAt(v, q, i) \in signed[l]
    BY <1>1, PieceIs DEF IsPiece
  <2>3. /\ q # << >> /\ q[1].proposal = p
        /\ d.current = HandleProposal(v, p) /\ d.queue = Tail(q)
        /\ d.current.turnNum = v.turnNum + 1
    BY <2>1, SignedNextIs DEF CanSignNext
  <2>4. v = ledger[l][Follower].current  BY <1>1
  <2> HIDE DEF v, q
  <2>5. /\ 1 \in 1..Len(q) /\ 1 \in 0..Len(q)
        /\ Tail(q) \in Seq(SignedProposal) /\ Len(Tail(q)) = Len(q) - 1
        /\ \A i \in 1..Len(Tail(q)) : Tail(q)[i] = q[1 + i]
        /\ \A i \in 0..Len(Tail(q)) : 1 + i \in 0..Len(q)
    BY <2>2, <2>3
  <2>5a. Len(Tail(q)) <= Len(q) - 1  BY <2>2, <2>5
  <2>6. StateAt(v, q, 1) = d.current
    <3>1. SignedBy(q[1].signature, Leader, HandleProposal(StateAt(v, q, 0), q[1].proposal))
      BY <2>2, <2>5 DEF Chain
    <3>2. StateAt(v, q, 0) = v  BY DEF StateAt
    <3>3. q[1].signature.signed = HandleProposal(v, p)
      BY <2>3, <3>1, <3>2 DEF SignedBy, Sign
    <3>4. StateAt(v, q, 1) = q[1].signature.signed  BY DEF StateAt
    <3>5. QED  BY <2>3, <3>3, <3>4
  <2>7. /\ Chain(d.current, Tail(q))
        /\ \A i \in 0..Len(Tail(q)) : StateAt(d.current, Tail(q), i) = StateAt(v, q, 1 + i)
    <3>1. PICK r : r = Tail(q)  OBVIOUS
    <3>2. /\ r \in Seq(SignedProposal) /\ Len(r) <= Len(q) - 1
          /\ \A i \in 1..Len(r) : r[i] = q[1 + i]
      BY <2>5, <2>5a, <3>1
    <3>3. /\ Chain(StateAt(v, q, 1), r)
          /\ \A i \in 0..Len(r) : StateAt(StateAt(v, q, 1), r, i) = StateAt(v, q, 1 + i)
      BY ONLY <2>2, <2>5, <3>2, ChainDrop
    <3>4. QED  BY <2>6, <3>1, <3>3
  <2>8. \A i \in 0..Len(Tail(q)) : StateAt(d.current, Tail(q), i) \in signed[l]
    BY <2>2, <2>5, <2>7
  <2>9. IsPiece(l, d)  BY <2>3, <2>7, <2>8 DEF IsPiece
  <2>10. d.current \in signed[l]  BY <2>2, <2>5, <2>6
  <2>11. CanHandleProposal(v, p)
    <3>1. CanHandleProposal(StateAt(v, q, 0), q[1].proposal)
      BY <2>2, <2>5 DEF Chain
    <3>2. QED  BY <2>3, <3>1 DEF StateAt
  <2>12. QED  BY <2>1, <2>3, <2>4, <2>9, <2>10, <2>11
<1>4. QED  BY <1>2, <1>3

-----------------------------------------------------------------------------
(***************************************************************************)
(* The refinement, ledger by ledger: what a step does to one ledger is one *)
(* step of its promise or a stutter, and keeps what the invariant says of  *)
(* it.                                                                     *)
(***************************************************************************)

\* What one step may do to one ledger: nothing, or one party makes its move, with
\* a proposal that offers has for its node.
LedgerStep(l, offers) ==
  \/ ledger'[l] = ledger[l] /\ signed'[l] = signed[l]
  \/ /\ LeaderMove(l, ledger'[l][Leader], offers[Ends[l][Leader]])
     /\ ledger'[l][Follower] = ledger[l][Follower]
     /\ signed'[l] = signed[l] \cup {Latest(ledger'[l][Leader])}
  \/ /\ FollowerMove(l, ledger'[l][Follower], offers[Ends[l][Follower]])
     /\ ledger'[l][Leader] = ledger[l][Leader]
     /\ signed'[l] = signed[l]

\* All proposals, whoever makes them.
AnyOffers == [n \in Nodes |-> Proposal]

\* What such a step leaves true of the ledger.
LedgerKeeps(l) ==
  /\ IsHistory(l)'
  /\ \A p \in Parties : IsPiece(l, ledger[l][p])'
  /\ signed[l] \subseteq signed'[l]
  /\ ledger[l][Follower].current.turnNum <= ledger'[l][Follower].current.turnNum

\* The step seen as one of the promise.
PromiseStep(l) == UNCHANGED <<signed[l], Consensus(l)>> \/ Promise(l)!Next

\* The promise of each ledger speaks of the same proposals.
LEMMA SamePromises ==
  ASSUME NEW l
  PROVE  /\ Promise(l)!Proposal = Proposal
         /\ Promise(l)!Leader = Leader /\ Promise(l)!Follower = Follower
         /\ Promise(l)!Parties = Parties
         /\ \A v, p : /\ Promise(l)!CanHandleProposal(v, p) = CanHandleProposal(v, p)
                      /\ Promise(l)!HandleProposal(v, p) = HandleProposal(v, p)
<1>1. /\ Promise(l)!Leader = Leader /\ Promise(l)!Follower = Follower
      /\ Promise(l)!Parties = Parties
  BY DEF Promise!Leader, Leader, Promise!Follower, Follower, Promise!Parties, Parties
<1>2. Promise(l)!Proposal = Proposal
  BY <1>1 DEF Promise!Proposal, Proposal, Promise!Add, Add, Promise!Remove, Remove,
              Promise!Amounts, Amounts
<1>3. ASSUME NEW v, NEW p
      PROVE  Promise(l)!CanHandleProposal(v, p) = CanHandleProposal(v, p)
  BY DEF Promise!CanHandleProposal, CanHandleProposal, Promise!CanAdd, CanAdd,
         Promise!CanRemove, CanRemove, Promise!IncludesTarget, IncludesTarget,
         Promise!Includes, Includes, Promise!RightDeposit, RightDeposit,
         Promise!Other, Other
<1>4. ASSUME NEW v, NEW p
      PROVE  Promise(l)!HandleProposal(v, p) = HandleProposal(v, p)
  BY <1>1 DEF Promise!HandleProposal, HandleProposal, Promise!AddGuarantee,
         AddGuarantee, Promise!RemoveGuarantee, RemoveGuarantee,
         Promise!RightDeposit, RightDeposit
<1>5. QED  BY <1>1, <1>2, <1>3, <1>4

\* A ledger that a step leaves alone.
LEMMA UntouchedKeeps ==
  ASSUME NEW l \in Ledgers, TypeOK, IsHistory(l),
         \A p \in Parties : IsPiece(l, ledger[l][p]),
         ledger'[l] = ledger[l], signed'[l] = signed[l]
  PROVE  LedgerKeeps(l) /\ PromiseStep(l)
<1>1. IsHistory(l)'  BY DEF IsHistory
<1>2. \A p \in Parties : IsPiece(l, ledger[l][p])'  BY DEF IsPiece
<1>3. ledger[l][Follower].current.turnNum \in Nat
  BY TwoParties DEF TypeOK, Copy, Vars
<1>4. ledger[l][Follower].current.turnNum <= ledger'[l][Follower].current.turnNum
  BY <1>3
<1>5. Consensus(l)' = Consensus(l)  BY DEF Consensus
<1>6. QED  BY <1>1, <1>2, <1>4, <1>5 DEF LedgerKeeps, PromiseStep

\* The follower's move is an acceptance, or nothing the promise speaks of.
LEMMA FollowerKeeps ==
  ASSUME NEW l \in Ledgers, TypeOK, TypeOK', IsHistory(l),
         \A p \in Parties : IsPiece(l, ledger[l][p]),
         FollowerMove(l, ledger'[l][Follower], Proposal),
         ledger'[l][Leader] = ledger[l][Leader], signed'[l] = signed[l]
  PROVE  LedgerKeeps(l) /\ PromiseStep(l)
<1>1. PICK d : d = ledger'[l][Follower]  OBVIOUS
<1>2. PICK f : f = ledger[l][Follower]  OBVIOUS
<1>3. /\ IsPiece(l, d)
      /\ \/ d.current = f.current
         \/ d.current \in signed[l] /\ d.current.turnNum = f.current.turnNum + 1
  BY <1>1, <1>2, FollowerMoveIs
<1>4. IsHistory(l)'  BY DEF IsHistory
<1>5. \A p \in Parties : IsPiece(l, ledger[l][p])'
  <2>1. IsPiece(l, ledger[l][Leader])'  BY TwoParties DEF IsPiece
  <2>2. IsPiece(l, ledger[l][Follower])'  BY <1>1, <1>3 DEF IsPiece
  <2>3. QED  BY <2>1, <2>2, TwoParties
<1>6. f.current.turnNum \in Nat  BY <1>2, TwoParties DEF TypeOK, Copy, Vars
<1>7. f.current.turnNum <= d.current.turnNum  BY <1>3, <1>6
<1>8. LedgerKeeps(l)  BY <1>1, <1>2, <1>4, <1>5, <1>7 DEF LedgerKeeps
<1>9. History(l)' = History(l)  BY DEF History
<1>10. Consensus(l)' = [Consensus(l) EXCEPT ![Follower] = d.current]
  BY <1>1, TwoParties DEF Consensus
<1>11. Consensus(l)[Follower] = f.current  BY <1>2, TwoParties DEF Consensus
<1>12. CASE d.current = f.current
  <2>1. Consensus(l)' = Consensus(l)  BY <1>10, <1>11, <1>12 DEF Consensus
  <2>2. QED  BY <1>8, <2>1 DEF PromiseStep
<1>13. CASE d.current \in signed[l] /\ d.current.turnNum = f.current.turnNum + 1
  <2>1. History(l) = HistoryOf(signed[l])  BY DEF History, HistoryOf
  <2>2. \A v, w \in signed[l] : v.turnNum = w.turnNum => v = w  BY DEF IsHistory
  <2>3. PICK states : states = signed[l]  OBVIOUS
  <2>4. /\ d.current.turnNum \in DOMAIN HistoryOf(states)
        /\ HistoryOf(states)[d.current.turnNum] = d.current
    BY <1>13, <2>2, <2>3, HistoryHasStates
  <2>5. /\ f.current.turnNum + 1 \in DOMAIN History(l)
        /\ History(l)[f.current.turnNum + 1] = d.current
    BY <1>13, <2>1, <2>3, <2>4
  <2>6. Promise(l)!Accept
    BY <1>9, <1>10, <1>11, <2>5, SamePromises DEF Promise!Accept
  <2>7. QED  BY <1>8, <2>6 DEF PromiseStep, Promise!Next
<1>14. QED  BY <1>3, <1>12, <1>13

\* The leader's move is an offer, a confirmation, or nothing the promise
\* speaks of.
LEMMA LeaderKeeps ==
  ASSUME NEW l \in Ledgers, TypeOK, TypeOK', IsHistory(l),
         \A p \in Parties : IsPiece(l, ledger[l][p]),
         LeaderMove(l, ledger'[l][Leader], Proposal),
         ledger'[l][Follower] = ledger[l][Follower],
         signed'[l] = signed[l] \cup {Latest(ledger'[l][Leader])}
  PROVE  LedgerKeeps(l) /\ PromiseStep(l)
<1>1. PICK d : d = ledger'[l][Leader]  OBVIOUS
<1>2. PICK a \in Copy : a = ledger[l][Leader]  BY TwoParties DEF TypeOK
<1>3. PICK states : states = signed[l]  OBVIOUS
<1>4. PICK f : f = ledger[l][Follower]  OBVIOUS
<1>5. /\ Chain(d.current, d.queue)
      /\ \A i \in 0..Len(d.queue) :
           StateAt(d.current, d.queue, i) \in states \cup {Latest(d)}
      /\ \/ /\ Latest(d) = Latest(a) /\ Latest(d) \in states
            /\ \/ d.current = a.current
               \/ /\ d.current \in states
                  /\ a.current.turnNum < d.current.turnNum
                  /\ d.current.turnNum <= f.current.turnNum
         \/ /\ d.current = a.current
            /\ Latest(d).turnNum = Latest(a).turnNum + 1
            /\ \E p \in Proposal : /\ CanHandleProposal(Latest(a), p)
                                   /\ Latest(d) = HandleProposal(Latest(a), p)
  <2>1. IsPiece(l, a) /\ LeaderMove(l, d, Proposal)  BY <1>1, <1>2, TwoParties
  <2>2. QED  BY <1>2, <1>3, <1>4, <2>1, LeaderMoveIs
<1>6. signed'[l] = states \cup {Latest(d)}  BY <1>1, <1>3
<1>7. /\ Latest(a) \in states /\ Latest(a).turnNum \in Nat
      /\ \A s \in states : s.turnNum \in Nat
      /\ \A s \in states : s.turnNum <= Latest(a).turnNum
      /\ \A s, t \in states : s.turnNum = t.turnNum => s = t
  <2>1. Latest(a) \in states  BY <1>2, <1>3, PieceIs, TwoParties
  <2>2. states \subseteq Vars  BY <1>3 DEF TypeOK
  <2>3. QED  BY <1>2, <1>3, <2>1, <2>2 DEF Vars, IsHistory
<1>8. IsHistory(l)'
  <2>1. \A s \in states \cup {Latest(d)} :
          /\ s.turnNum <= Latest(d).turnNum
          /\ \A t \in states \cup {Latest(d)} : s.turnNum = t.turnNum => s = t
    <3>1. CASE Latest(d) = Latest(a) /\ Latest(d) \in states  BY <1>7, <3>1
    <3>2. CASE Latest(d).turnNum = Latest(a).turnNum + 1  BY <1>7, <3>2
    <3>3. QED  BY <1>5, <3>1, <3>2
  <2>2. QED  BY <1>1, <1>6, <2>1 DEF IsHistory
<1>9. \A p \in Parties : IsPiece(l, ledger[l][p])'
  <2>1. IsPiece(l, ledger[l][Leader])'  BY <1>1, <1>5, <1>6 DEF IsPiece
  <2>2. IsPiece(l, ledger[l][Follower])'  BY <1>3, <1>6, TwoParties DEF IsPiece
  <2>3. QED  BY <2>1, <2>2, TwoParties
<1>10. f.current.turnNum \in Nat  BY <1>4, TwoParties DEF TypeOK, Copy, Vars
<1>11. LedgerKeeps(l)  BY <1>3, <1>4, <1>6, <1>8, <1>9, <1>10 DEF LedgerKeeps
<1>12. /\ Consensus(l)' = [Consensus(l) EXCEPT ![Leader] = d.current]
       /\ Consensus(l)[Leader] = a.current /\ Consensus(l)[Follower] = f.current
  BY <1>1, <1>2, <1>4, TwoParties DEF Consensus
<1>13. d.current = a.current => Consensus(l)' = Consensus(l)
  BY <1>12 DEF Consensus
<1>14. History(l) = HistoryOf(states) /\ History(l)' = HistoryOf(states \cup {Latest(d)})
  BY <1>3, <1>6 DEF History, HistoryOf
<1>15. \A s \in states : s.turnNum \in DOMAIN History(l) /\ History(l)[s.turnNum] = s
  BY <1>7, <1>14, HistoryHasStates
<1>16. CASE Latest(d) \in states /\ d.current = a.current
  <2>1. signed'[l] = signed[l]  BY <1>3, <1>6, <1>16
  <2>2. QED  BY <1>11, <1>13, <1>16, <2>1 DEF PromiseStep
<1>17. CASE /\ Latest(d) \in states
            /\ d.current \in states
            /\ a.current.turnNum < d.current.turnNum
            /\ d.current.turnNum <= f.current.turnNum
  <2>1. states \cup {Latest(d)} = states  BY <1>17
  <2>2. History(l)' = History(l)  BY <1>14, <2>1
  <2>3. /\ d.current.turnNum \in DOMAIN History(l)
        /\ History(l)[d.current.turnNum] = d.current
    BY <1>15, <1>17
  <2>4. Promise(l)!Confirm
    BY <1>12, <1>17, <2>2, <2>3, SamePromises DEF Promise!Confirm
  <2>5. QED  BY <1>11, <2>4 DEF PromiseStep, Promise!Next
<1>18. ASSUME NEW p \in Proposal, d.current = a.current,
              Latest(d).turnNum = Latest(a).turnNum + 1,
              CanHandleProposal(Latest(a), p), Latest(d) = HandleProposal(Latest(a), p)
       PROVE  LedgerKeeps(l) /\ PromiseStep(l)
  <2> DEFINE turn == Latest(a).turnNum
  <2>0. PICK next : next = Latest(d)  OBVIOUS
  <2>1. turn \in DOMAIN History(l) /\ History(l)[turn] = Latest(a)
    BY <1>7, <1>15
  <2>2. \A s \in states : s.turnNum # turn + 1  BY <1>7
  <2>3. turn + 1 \notin DOMAIN History(l)  BY <1>14, <2>2 DEF HistoryOf
  <2>4. Promise(l)!IsLastTurn(turn)  BY <2>1, <2>3 DEF Promise!IsLastTurn
  <2>5. next.turnNum = turn + 1  BY <1>18, <2>0
  <2> HIDE DEF turn
  <2>6. \A v, w \in states : v.turnNum = w.turnNum => v = w  BY <1>7
  <2>7. \A v \in states : v.turnNum # next.turnNum  BY <2>2, <2>5
  <2>8. HistoryOf(states \cup {next}) =
          [m \in DOMAIN HistoryOf(states) \cup {next.turnNum} |->
             IF m = next.turnNum THEN next ELSE HistoryOf(states)[m]]
    BY ONLY <2>6, <2>7, HistoryOfMore, SMTT(30)
  <2>9. /\ next = Promise(l)!HandleProposal(History(l)[turn], p)
        /\ Promise(l)!CanHandleProposal(History(l)[turn], p)
    BY <1>18, <2>0, <2>1, SamePromises
  <2>10. History(l)' = HistoryOf(states \cup {next})  BY <1>14, <2>0
  <2>11. History(l)' =
           [m \in DOMAIN History(l) \cup {turn + 1} |->
              IF m = turn + 1 THEN Promise(l)!HandleProposal(History(l)[turn], p)
                              ELSE History(l)[m]]
    BY <1>14, <2>5, <2>8, <2>9, <2>10
  <2>12. Consensus(l)' = Consensus(l)  BY <1>13, <1>18
  <2>13. p \in Promise(l)!Proposal  BY SamePromises
  <2>14. Promise(l)!Offer
    BY <2>1, <2>4, <2>9, <2>11, <2>12, <2>13 DEF Promise!Offer
  <2>15. QED  BY <1>11, <2>14 DEF PromiseStep, Promise!Next
<1>19. QED  BY <1>5, <1>16, <1>17, <1>18

\* Whatever a step does to a ledger.
LEMMA LedgerStepKeeps ==
  ASSUME NEW l \in Ledgers, TypeOK, TypeOK', HistoryInv, LedgerStep(l, AnyOffers)
  PROVE  LedgerKeeps(l) /\ PromiseStep(l)
<1>1. IsHistory(l) /\ \A p \in Parties : IsPiece(l, ledger[l][p])
  BY DEF HistoryInv
<1>2. AnyOffers[Ends[l][Leader]] = Proposal /\ AnyOffers[Ends[l][Follower]] = Proposal
  BY EndsAssumption, TwoParties DEF AnyOffers
<1>3. QED
  BY <1>1, <1>2, UntouchedKeeps, LeaderKeeps, FollowerKeeps DEF LedgerStep

\* What an objective works on: the copies that are stored, or, of one ledger,
\* that copy with a proposal received.
IsHeard(n, k, v, o) == \A l \in Ledgers : Heard(n, k, v, l, o.copies[l])

HasStored(n, o) == \A l \in Ledgers : o.copies[l] = ledger[l][Party(n, l)]

\* Every ledger makes at most one move.
LedgersStep == \A l \in Ledgers : LedgerStep(l, AnyOffers)

\* What a step has to show.
Promised == HistoryInv' /\ VouchedInv' /\ \A l \in Ledgers : PromiseStep(l)

\* The stored copies are heard.
LEMMA StoredIsHeard ==
  ASSUME NEW n, NEW k, NEW v, NEW o, HasStored(n, o)
  PROVE  IsHeard(n, k, v, o)
BY DEF HasStored, IsHeard, Heard

\* What is vouched for stays so.
LEMMA VouchedStays ==
  ASSUME TypeOK, TypeOK', NEW l \in Ledgers, LedgerKeeps(l),
         NEW sp \in SignedProposal, IsVouched(l, sp)
  PROVE  IsVouched(l, sp)'
<1>1. /\ sp.signature.signed.turnNum \in Nat
      /\ ledger[l][Follower].current.turnNum \in Nat
      /\ ledger'[l][Follower].current.turnNum \in Nat
  BY TwoParties DEF TypeOK, Copy, Vars, SignedProposal, Signature
<1>2. QED  BY <1>1 DEF LedgerKeeps, IsVouched

\* A step that stores nothing of the ledgers.
LEMMA NothingMoves ==
  ASSUME UNCHANGED <<ledger, signed>>
  PROVE  LedgersStep
BY DEF LedgersStep, LedgerStep

\* What a node makes of its copy, saved with the objective.
LEMMA SaveMoves ==
  ASSUME TypeOK, HistoryInv, NEW n \in Nodes, NEW k, NEW v, NEW o, IsHeard(n, k, v, o),
         NEW l \in Ledgers, NEW new, NEW offers,
         Moved(n, k, v, l, o.copies[l], new.copies[l], offers[n]), Save(n, k, v, new)
  PROVE  LedgerStep(l, offers)
<1>1. /\ \A p \in Parties :
           ledger'[l][p] = IF Ends[l][p] = n THEN new.copies[l] ELSE ledger[l][p]
      /\ ledger'[l] = [p \in Parties |-> ledger'[l][p]]
      /\ signed'[l] = IF Ends[l][Leader] = n THEN signed[l] \cup {Latest(new.copies[l])}
                                             ELSE signed[l]
  BY DEF Save
<1>2. /\ ledger[l][Leader] \in Copy /\ IsPiece(l, ledger[l][Leader])
      /\ ledger[l][Follower] \in Copy /\ IsPiece(l, ledger[l][Follower])
      /\ ledger[l] = [p \in Parties |-> ledger[l][p]]
  BY TwoParties DEF TypeOK, HistoryInv
<1>3. Heard(n, k, v, l, o.copies[l])  BY DEF IsHeard
<1>4. CASE Ends[l][Leader] = n
  <2>1. Ends[l][Follower] # n  BY <1>4, PartyIs, TwoParties
  <2>2. LeaderMove(l, new.copies[l], offers[n])
    BY <1>2, <1>3, <1>4, LeaderMoves
  <2>3. QED  BY <1>1, <1>4, <2>1, <2>2, TwoParties DEF LedgerStep
<1>5. CASE Ends[l][Leader] # n /\ Ends[l][Follower] = n
  <2>1. FollowerMove(l, new.copies[l], offers[n])
    BY <1>2, <1>3, <1>5, FollowerMoves
  <2>2. QED  BY <1>1, <1>5, <2>1, TwoParties DEF LedgerStep
<1>6. CASE Ends[l][Leader] # n /\ Ends[l][Follower] # n
  <2>1. \A p \in Parties : ledger'[l][p] = ledger[l][p]
    BY <1>1, <1>6, TwoParties
  <2>2. ledger'[l] = ledger[l]  BY <1>1, <1>2, <2>1
  <2>3. QED  BY <1>1, <1>6, <2>2 DEF LedgerStep
<1>7. QED  BY <1>4, <1>5, <1>6

\* An objective saved with the copies that are stored.
LEMMA SavesStored ==
  ASSUME TypeOK, HistoryInv, NEW n \in Nodes, NEW k, NEW v, NEW o, HasStored(n, o),
         Save(n, k, v, o)
  PROVE  LedgersStep
<1>1. IsHeard(n, k, v, o)  BY StoredIsHeard
<1>2. \A l \in Ledgers : Moved(n, k, v, l, o.copies[l], o.copies[l], AnyOffers[n])
  BY DEF Moved
<1>3. QED  BY <1>1, <1>2, SaveMoves DEF LedgersStep

\* What is sent of a ledger that made its move is vouched for: the leader sends
\* its queue, the follower the state it has just accepted.
LEMMA MessagesVouched ==
  ASSUME TypeOK', NEW n \in Nodes, NEW k \in Kinds, NEW v \in Targets,
         NEW l \in LedgersOf(n, v), LedgerKeeps(l), NEW c \in Copy, NEW u,
         Moves(n, l, c, Wants(k, v, l), u), ledger'[l][Party(n, l)] = u.copy,
         NEW m \in u.messages
  PROVE  /\ m.ledger = l
         /\ \A i \in 1..Len(m.proposals) : IsVouched(l, m.proposals[i])'
<1>1. l \in Ledgers /\ l \in Hops(v) /\ Ends[l][Party(n, l)] = n
  BY LedgersOfAre
<1>2. PICK p \in Wants(k, v, l) :
        \/ /\ Party(n, l) = Leader /\ CanPropose(c, p)
           /\ u.copy = Proposed(c, p) /\ u.messages = QueueMessage(l, u.copy)
        \/ /\ Party(n, l) = Follower /\ CanSignNext(c, p)
           /\ u.copy = SignedNext(c, p)
           /\ u.messages = CountersignedMessage(l, Countersignature(c, p))
  BY DEF Moves
<1>3. PICK d \in Copy : d = u.copy  BY <1>1, PartyIs DEF TypeOK
<1>4. PICK states : states = signed'[l]  OBVIOUS
<1>5. /\ Chain(d.current, d.queue)
      /\ \A i \in 0..Len(d.queue) : StateAt(d.current, d.queue, i) \in states
  BY <1>1, <1>3, <1>4, PartyIs DEF LedgerKeeps, IsPiece
<1>6. d.queue \in Seq(SignedProposal) /\ Len(d.queue) \in Nat /\ d.current \in Vars
  BY CopyIs
<1>7. CASE Party(n, l) = Leader /\ m \in QueueMessage(l, d)
  <2>1. m.ledger = l /\ m.proposals = d.queue  BY <1>7 DEF QueueMessage
  <2>2. ASSUME NEW i \in 1..Len(d.queue)
        PROVE  IsVouched(l, d.queue[i])'
    <3>1. i \in 0..Len(d.queue) /\ i # 0  BY <1>6
    <3>2. StateAt(d.current, d.queue, i) = d.queue[i].signature.signed
      BY <3>1 DEF StateAt
    <3>3. d.queue[i].signature.signer # Follower
      BY <1>5, TwoParties DEF Chain, SignedBy, Sign
    <3>4. d.queue[i].signature.signed \in states  BY <1>5, <3>1, <3>2
    <3>5. QED  BY <1>4, <3>3, <3>4 DEF IsVouched
  <2>3. QED  BY <2>1, <2>2
<1>8. CASE /\ Party(n, l) = Follower /\ CanSignNext(c, p) /\ d = SignedNext(c, p)
           /\ m \in CountersignedMessage(l, Countersignature(c, p))
  <2>1. m.ledger = l /\ m.proposals = <<Countersignature(c, p)>>
    BY <1>8 DEF CountersignedMessage
  <2>2. PICK sp : sp = Countersignature(c, p)  OBVIOUS
  <2>3. d.current = HandleProposal(c.current, p)  BY <1>8 DEF SignedNext
  <2>4. sp.proposal = p /\ sp.signature.signed = d.current
    BY <2>2, <2>3 DEF Countersignature, Sign
  <2>5. c.current \in Vars  BY CopyIs
  <2>6. IsSettled(l, d.current, p)  BY <1>1, <2>3, <2>5, HandledIsSettled
  <2>7. d.current \in states
    <3>1. 0 \in 0..Len(d.queue) /\ StateAt(d.current, d.queue, 0) = d.current
      BY <1>6 DEF StateAt
    <3>2. QED  BY <1>5, <3>1
  <2>8. ledger'[l][Follower] = d  BY <1>3, <1>8
  <2>9. d.current.turnNum <= ledger'[l][Follower].current.turnNum
    BY <1>6, <2>8 DEF Vars
  <2>10. IsVouched(l, sp)'  BY <1>4, <2>4, <2>6, <2>7, <2>9 DEF IsVouched
  <2>11. \A i \in 1..Len(m.proposals) : m.proposals[i] = sp  BY <2>1, <2>2
  <2>12. QED  BY <2>1, <2>10, <2>11
<1>9. QED  BY <1>2, <1>3, <1>7, <1>8

\* Every ledger keeps its promise, and its history, when each makes its move.
LEMMA LedgersKeep ==
  ASSUME PromiseInv, FundingInv', LedgersStep
  PROVE  /\ \A l \in Ledgers : LedgerKeeps(l) /\ PromiseStep(l)
         /\ HistoryInv'
<1>1. TypeOK /\ TypeOK' /\ HistoryInv  BY DEF PromiseInv, FundingInv
<1>2. \A l \in Ledgers : LedgerKeeps(l) /\ PromiseStep(l)
  BY <1>1, LedgerStepKeeps DEF LedgersStep
<1>3. HistoryInv'  BY <1>2 DEF LedgerKeeps, HistoryInv
<1>4. QED  BY <1>2, <1>3

\* What a step shows, from its parts.
LEMMA PromiseAssembled ==
  ASSUME PromiseInv, FundingInv', LedgersStep,
         \A x \in Nodes : \A i \in 1..Len(inbox'[x]) :
           IsVouched(inbox'[x][i].ledger, inbox'[x][i].sp),
         NEW messages, network' \subseteq network \cup messages,
         \A m \in messages : m.type = "proposals" =>
           \A i \in 1..Len(m.proposals) : IsVouched(m.ledger, m.proposals[i])'
  PROVE  Promised
<1>1. /\ \A l \in Ledgers : LedgerKeeps(l) /\ PromiseStep(l)
      /\ HistoryInv'
  BY LedgersKeep
<1>2. TypeOK /\ TypeOK' /\ VouchedInv  BY DEF PromiseInv, FundingInv
<1>3. ASSUME NEW m \in network', m.type = "proposals", NEW i \in 1..Len(m.proposals)
      PROVE  IsVouched(m.ledger, m.proposals[i])'
  <2>1. CASE m \in messages  BY <1>3, <2>1
  <2>2. CASE m \in network
    <3>1. m \in Proposals  BY <1>2, <1>3, <2>2 DEF TypeOK, Payloads, Rejections
    <3>2. m.ledger \in Ledgers /\ m.proposals \in Seq(SignedProposal)
      BY <3>1 DEF Proposals
    <3>3. PICK l \in Ledgers, sp \in SignedProposal : l = m.ledger /\ sp = m.proposals[i]
      BY <1>3, <3>2
    <3>4. IsVouched(l, sp)  BY <1>2, <1>3, <2>2, <3>3 DEF VouchedInv
    <3>5. IsVouched(l, sp)'  BY <1>1, <1>2, <3>4, VouchedStays
    <3>6. QED  BY <3>3, <3>5
  <2>3. QED  BY <2>1, <2>2
<1>4. ASSUME NEW x \in Nodes, NEW i \in 1..Len(inbox'[x])
      PROVE  IsVouched(inbox[x][i].ledger, inbox[x][i].sp)'
  <2> DEFINE Entry == [ledger : Ledgers, sp : SignedProposal]
  <2>1. inbox'[x] \in Seq(Entry)  BY <1>2 DEF TypeOK
  <2> HIDE DEF Entry
  <2>2. inbox'[x][i] \in Entry  BY <1>4, <2>1
  <2>3. PICK l \in Ledgers, sp \in SignedProposal :
          l = inbox'[x][i].ledger /\ sp = inbox'[x][i].sp
    BY <2>2 DEF Entry
  <2>4. IsVouched(l, sp)  BY <1>4, <2>3
  <2>5. IsVouched(l, sp)'  BY <1>1, <1>2, <2>4, VouchedStays
  <2>6. QED  BY <2>3, <2>5
<1>5. VouchedInv'  BY <1>3, <1>4 DEF VouchedInv
<1>6. QED  BY <1>1, <1>5 DEF Promised

\* The run loop goes on, or ends, with what is left.
LEMMA LoopVouches ==
  ASSUME TypeOK, VouchedInv, NEW n \in Nodes, NEW left, IsVouchedLeft(left),
         \/ \E messages, heads : GoOn(n, left, messages, heads)
         \/ \E error : Stop(n, error, left)
  PROVE  \A x \in Nodes : \A i \in 1..Len(inbox'[x]) :
           IsVouched(inbox'[x][i].ledger, inbox'[x][i].sp)
<1>1. PICK rest : /\ inbox' = [inbox EXCEPT ![n] = rest]
                  /\ rest = left.inbox \/ rest = << >>
  BY DEF GoOn, Stop
<1>2. \A i \in 1..Len(rest) : IsVouched(rest[i].ledger, rest[i].sp)
  <2>1. CASE rest = << >>  BY <2>1
  <2>2. CASE rest = left.inbox  BY <2>2 DEF IsVouchedLeft
  <2>3. QED  BY <1>1, <2>1, <2>2
<1>3. \A x \in Nodes : inbox'[x] = IF x = n THEN rest ELSE inbox[x]
  BY <1>1 DEF TypeOK
<1>4. \A x \in Nodes : \A i \in 1..Len(inbox[x]) : IsVouched(inbox[x][i].ledger, inbox[x][i].sp)
  BY DEF VouchedInv
<1>5. QED  BY <1>2, <1>3, <1>4

\* An event after which the ledgers are what they were, and nothing new is sent
\* of them.
LEMMA NothingPromised ==
  ASSUME PromiseInv, FundingInv', LedgersStep,
         NEW n \in Nodes, NEW left, IsLeft(left), IsVouchedLeft(left),
         \/ \E error : Stop(n, error, left)
         \/ \E messages, heads : /\ GoOn(n, left, messages, heads)
                                 /\ \A m \in messages : m.type # "proposals"
  PROVE  Promised
<1>1. TypeOK /\ VouchedInv  BY DEF PromiseInv, FundingInv
<1>2. \A x \in Nodes : \A i \in 1..Len(inbox'[x]) :
        IsVouched(inbox'[x][i].ledger, inbox'[x][i].sp)
  BY <1>1, LoopVouches
<1>3. PICK messages : /\ network' \subseteq network \cup messages
                      /\ \A m \in messages : m.type # "proposals"
  <2>1. CASE \E error : Stop(n, error, left)
    <3>1. PICK none : none = {}  OBVIOUS
    <3>2. network' \subseteq network \cup none  BY <2>1 DEF Stop, IsLeft
    <3>3. QED  BY <3>1, <3>2
  <2>2. CASE \E messages, heads : /\ GoOn(n, left, messages, heads)
                                  /\ \A m \in messages : m.type # "proposals"
    BY <2>2 DEF GoOn, IsLeft
  <2>3. QED  BY <2>1, <2>2
<1>4. \A m \in messages : m.type = "proposals" =>
        \A i \in 1..Len(m.proposals) : IsVouched(m.ledger, m.proposals[i])'
  BY <1>3
<1>5. QED  BY <1>2, <1>3, <1>4, PromiseAssembled

\* attemptProgress.
LEMMA AttemptPromises ==
  ASSUME PromiseInv, FundingInv', NEW n \in Nodes, NEW k \in Kinds, NEW v \in Targets,
         NEW o, Ready(n, v, o), IsHeard(n, k, v, o), NEW before, HasStored(n, before),
         NEW left, IsLeft(left), IsVouchedLeft(left), AttemptProgress(n, k, v, before, o, left)
  PROVE  Promised
<1>1. TypeOK /\ TypeOK' /\ HistoryInv /\ VouchedInv
  BY DEF PromiseInv, FundingInv
<1>2. PICK r : /\ r = Crank(n, k, v, o)
               /\ \/ /\ Save(n, k, v, before)
                     /\ Stop(n, r.error, left)
                  \/ /\ r.error = "none"
                     /\ Save(n, k, v, r.o)
                     /\ Stop(n, "cannot transfer ownership", left)
                  \/ /\ r.error = "none"
                     /\ Save(n, k, v, r.o)
                     /\ GoOn(n, left, r.messages, r.heads)
  BY DEF AttemptProgress
<1>3. CASE Save(n, k, v, before) /\ Stop(n, r.error, left)
  <2>1. LedgersStep  BY <1>1, <1>3, SavesStored
  <2>2. QED  BY <1>3, <2>1, NothingPromised
<1>4. CASE r.error = "none" /\ Save(n, k, v, r.o)
           /\ \/ Stop(n, "cannot transfer ownership", left)
              \/ GoOn(n, left, r.messages, r.heads)
  <2>1. PICK new : new = r.o  OBVIOUS
  <2>2. CrankMoves(n, k, v, o, r)  BY <1>2, <1>4, CrankMovesLedgers
  <2>3. PICK updates :
          /\ \A l \in LedgersOf(n, v) :
               Moves(n, l, o.copies[l], Offers(k, v, l, r.o.channel), updates[l])
          /\ \A l \in Ledgers :
               new.copies[l] = IF l \in LedgersOf(n, v) THEN updates[l].copy ELSE o.copies[l]
          /\ \A m \in r.messages : m.type = "proposals" =>
               \E l \in LedgersOf(n, v) : m \in updates[l].messages
    BY <2>1, <2>2 DEF CrankMoves
  <2>4. LedgersOf(n, v) \subseteq Ledgers /\ LedgersOf(n, v) \subseteq Hops(v)
        /\ \A l \in LedgersOf(n, v) : Ends[l][Party(n, l)] = n
    BY LedgersOfAre
  <2>5. LedgersStep
    <3>1. \A l \in Ledgers : Moved(n, k, v, l, o.copies[l], new.copies[l], AnyOffers[n])
      <4>1. AnyOffers[n] = Proposal  BY DEF AnyOffers
      <4>2. \A l \in LedgersOf(n, v) :
              Offers(k, v, l, r.o.channel) \subseteq Proposal \cap Wants(k, v, l)
        BY <2>4, WantsAre DEF Offers
      <4>3. \A l \in LedgersOf(n, v) :
              Moves(n, l, o.copies[l], Proposal \cap Wants(k, v, l), updates[l])
        BY <2>3, <4>2, MoreMoves
      <4>4. QED  BY <2>3, <2>4, <4>1, <4>3 DEF Moved
    <3>2. Save(n, k, v, new)  BY <1>4, <2>1
    <3>3. QED  BY <1>1, <3>1, <3>2, SaveMoves DEF LedgersStep
  <2>6. \A l \in Ledgers : LedgerKeeps(l)  BY <2>5, LedgersKeep
  <2>7. ASSUME NEW m \in r.messages, m.type = "proposals"
        PROVE  \A i \in 1..Len(m.proposals) : IsVouched(m.ledger, m.proposals[i])'
    <3>1. PICK l \in LedgersOf(n, v) : m \in updates[l].messages  BY <2>3, <2>7
    <3>2. PICK c \in Copy, u \in {updates[l]} : c = o.copies[l]
      BY <2>4, ReadyIs
    <3>3. Moves(n, l, c, Wants(k, v, l), u) /\ m \in u.messages
      <4>1. Offers(k, v, l, r.o.channel) \subseteq Wants(k, v, l)  BY DEF Offers
      <4>2. Moves(n, l, c, Offers(k, v, l, r.o.channel), u) /\ m \in u.messages
        BY <2>3, <3>1, <3>2
      <4>3. QED  BY <4>1, <4>2, MoreMoves
    <3>4. ledger'[l][Party(n, l)] = u.copy
      <4>1. Party(n, l) \in Parties /\ Ends[l][Party(n, l)] = n
        BY <2>4, PartyIs
      <4>2. ledger'[l][Party(n, l)] = new.copies[l]
        BY <1>4, <2>1, <2>4, <4>1 DEF Save
      <4>3. QED  BY <2>3, <2>4, <3>2, <4>2
    <3>5. LedgerKeeps(l)  BY <2>4, <2>6
    <3>6. m.ledger = l /\ \A i \in 1..Len(m.proposals) : IsVouched(l, m.proposals[i])'
      BY <1>1, <3>3, <3>4, <3>5, MessagesVouched
    <3>7. QED  BY <3>6
  <2>8. PICK messages : messages = r.messages  OBVIOUS
  <2>9. network' \subseteq network \cup messages
    BY <1>4, <2>8 DEF Stop, GoOn, IsLeft
  <2>10. \A x \in Nodes : \A i \in 1..Len(inbox'[x]) :
           IsVouched(inbox'[x][i].ledger, inbox'[x][i].sp)
    BY <1>1, <1>4, LoopVouches
  <2>11. \A m \in messages : m.type = "proposals" =>
           \A i \in 1..Len(m.proposals) : IsVouched(m.ledger, m.proposals[i])'
    BY <2>7, <2>8
  <2>12. QED  BY <2>5, <2>9, <2>10, <2>11, PromiseAssembled
<1>5. QED  BY <1>2, <1>3, <1>4

\* What is left of a message that was just taken up.
LEMMA TakenIsVouched ==
  ASSUME PromiseInv, NEW m \in network, NEW left \in AfterTaking(m)
  PROVE  IsLeft(left) /\ IsVouchedLeft(left) /\ m.to \in Nodes
<1>1. FundingInv /\ VouchedInv  BY DEF PromiseInv
<1>2. IsLeft(left) /\ m.to \in Nodes /\ left.inbox = inbox[m.to]
  <2>1. /\ IsLeft(left) /\ m.to \in Nodes
        /\ left = [inbox |-> inbox[m.to], toProcess |-> toProcess[m.to],
                   network |-> left.network]
    BY <1>1, AfterTakingIs
  <2>2. QED  BY <2>1
<1>3. QED  BY <1>1, <1>2 DEF IsVouchedLeft, VouchedInv

\* What is left when nothing is taken from the message.
LEMMA LeftIsVouched ==
  ASSUME PromiseInv, NEW n \in Nodes
  PROVE  IsLeft(Left(n)) /\ IsVouchedLeft(Left(n))
<1>1. FundingInv /\ VouchedInv  BY DEF PromiseInv
<1>2. IsLeft(Left(n)) /\ Left(n).inbox = inbox[n]  BY <1>1, LeftIs
<1>3. QED  BY <1>1, <1>2 DEF IsVouchedLeft, VouchedInv

\* The objectives the handlers start from have the stored copies.
LEMMA MemoriesHaveStored ==
  ASSUME NEW n \in Nodes, NEW k \in Kinds, NEW v \in Targets, NEW status
  PROVE  /\ HasStored(n, InMemory(n, k, v))
         /\ HasStored(n, NewFundObjective(n, v, status))
         /\ HasStored(n, NewDefundObjective(n, v, status))
         /\ HasStored(n, Constructed(n, k, v))
<1>1. \A j : /\ InMemory(n, j, v).copies = [l \in Ledgers |-> ledger[l][Party(n, l)]]
             /\ HasStored(n, InMemory(n, j, v))
  BY DEF InMemory, HasStored
<1>2. \A s : NewFundObjective(n, v, s).copies = InMemory(n, "fund", v).copies
  BY DEF NewFundObjective, InMemory
<1>3. \A s : NewDefundObjective(n, v, s).copies = InMemory(n, "defund", v).copies
  BY DEF NewDefundObjective, InMemory
<1>4. \A s : HasStored(n, NewFundObjective(n, v, s)) /\ HasStored(n, NewDefundObjective(n, v, s))
  BY <1>1, <1>2, <1>3 DEF HasStored
<1>5. QED  BY <1>1, <1>4 DEF Constructed

\* VirtualFundObjectiveRequest.
LEMMA RequestFundPromises ==
  ASSUME PromiseInv, FundingInv', NEW v \in Targets, RequestFund(v)
  PROVE  Promised
<1>1. PICK n \in Nodes : n = Alice(v)  BY PathIs
<1>2. FundingInv  BY DEF PromiseInv
<1>3. PICK k \in Kinds : k = "fund"  BY <1>2, RestIs
<1>4. PICK o, before, left :
        o = NewFundObjective(n, v, "approved") /\ before = InMemory(n, k, v)
                                               /\ left = Left(n)
  OBVIOUS
<1>5. vouchers[n][v] = NoVoucher /\ AttemptProgress(n, k, v, before, o, left)
  BY <1>1, <1>3, <1>4 DEF RequestFund
<1>6. Ready(n, v, o)  BY <1>2, <1>4, <1>5, RestIs, NewFundIsReady
<1>7. HasStored(n, before) /\ IsHeard(n, k, v, o)
  BY <1>4, MemoriesHaveStored, StoredIsHeard
<1>8. IsLeft(left) /\ IsVouchedLeft(left)  BY <1>4, LeftIsVouched
<1>9. QED  BY <1>5, <1>6, <1>7, <1>8, AttemptPromises

\* VirtualDefundObjectiveRequest.
LEMMA RequestDefundPromises ==
  ASSUME PromiseInv, FundingInv', NEW n \in Nodes, NEW v \in Targets, RequestDefund(n, v)
  PROVE  Promised
<1>1. FundingInv  BY DEF PromiseInv
<1>2. PICK left : left = Left(n)  OBVIOUS
<1>3. IsLeft(left) /\ IsVouchedLeft(left)  BY <1>2, LeftIsVouched
<1>4. CASE channel[n][v] = NoChannel
  <2>1. Fail(n, "could not find channel", left)  BY <1>2, <1>4 DEF RequestDefund
  <2>2. LedgersStep  BY <2>1, NothingMoves DEF Fail, stored
  <2>3. \E error : Stop(n, error, left)  BY <2>1 DEF Fail
  <2>4. QED  BY <1>3, <2>2, <2>3, NothingPromised
<1>5. CASE channel[n][v] # NoChannel
  <2>1. PICK k \in Kinds : k = "defund"  BY <1>1, RestIs
  <2>2. PICK o, before : o = NewDefundObjective(n, v, "approved") /\ before = InMemory(n, k, v)
    OBVIOUS
  <2>3. AttemptProgress(n, k, v, before, o, left)
    BY <1>2, <1>5, <2>1, <2>2 DEF RequestDefund
  <2>4. Ready(n, v, o)  BY <1>1, <1>5, <2>2, RestIs, NewDefundIsReady DEF Has
  <2>5. HasStored(n, before) /\ IsHeard(n, k, v, o)
    BY <2>2, MemoriesHaveStored, StoredIsHeard
  <2>6. QED  BY <1>3, <2>3, <2>4, <2>5, AttemptPromises
<1>6. QED  BY <1>4, <1>5

\* update of an objective, and attemptProgress.
LEMMA UpdatePromises ==
  ASSUME PromiseInv, FundingInv', NEW n \in Nodes, NEW k \in Kinds, NEW v \in Targets,
         NEW before, Ready(n, v, before), HasStored(n, before),
         NEW m \in network, m \in Payloads, IsTrue(m), m.v = v, k = KindOf(m),
         m.type \in {"prefund", "postfund", "request", "final"},
         NEW left, IsLeft(left), IsVouchedLeft(left), Update(n, k, v, before, m, left)
  PROVE  Promised
<1>1. FundingInv /\ TypeOK /\ HistoryInv  BY DEF PromiseInv, FundingInv
<1>2. before = [status |-> before.status, minimum |-> before.minimum,
                channel |-> before.channel, copies |-> before.copies]
  BY ReadyIs
<1>3. CASE k = "fund"
  <2>1. m.type \in {"prefund", "postfund"}  BY <1>3 DEF KindOf
  <2>2. PICK o : o = FundUpdated(v, before, m)  OBVIOUS
  <2>3. AttemptProgress(n, k, v, before, o, left)
    BY <1>3, <2>2 DEF Update, UpdateFund, FundUpdated
  <2>4. Ready(n, v, o)  BY <1>1, <2>1, <2>2, UpdatedFundIsReady
  <2>5. o.copies = before.copies  BY <1>2, <2>2 DEF FundUpdated
  <2>6. IsHeard(n, k, v, o)  BY <2>5, StoredIsHeard DEF HasStored
  <2>7. QED  BY <2>3, <2>4, <2>6, AttemptPromises
<1>4. CASE k # "fund"
  <2>1. PICK approved : approved = [before EXCEPT !.status = "approved"]
    OBVIOUS
  <2>2. /\ Ready(n, v, approved)
        /\ approved = [status |-> approved.status, minimum |-> approved.minimum,
                       channel |-> approved.channel, copies |-> approved.copies]
        /\ approved.copies = before.copies
    <3>1. Ready(n, v, approved)  BY <1>1, <2>1, RestIs, StatusIsReady
    <3>2. approved.copies = before.copies  BY <1>2, <2>1
    <3>3. QED  BY <3>1, <3>2, ReadyIs
  <2>3. k = "defund" /\ UpdateDefund(n, v, before, m, left)
    BY <1>4 DEF Update, KindOf
  <2>4. CASE /\ m.type = "final" /\ DefundUpdates(n, v, approved, m)
             /\ AttemptProgress(n, "defund", v, before, DefundUpdate(approved, m), left)
    <3>1. PICK o : o = DefundUpdate(approved, m)  OBVIOUS
    <3>2. approved.channel.final # NoFinal => approved.channel.final.paid = m.paid
      BY <2>4 DEF DefundUpdates
    <3>3. Ready(n, v, o)  BY <1>1, <2>2, <2>4, <3>1, <3>2, UpdatedDefundIsReady
    <3>4. o.copies = before.copies
      <4>1. PICK paid, signers :
              DefundUpdate(approved, m) =
                [approved EXCEPT !.channel.final = [paid |-> paid, signed |-> signers]]
        BY DEF DefundUpdate
      <4>2. QED  BY <2>2, <3>1, <4>1
    <3>5. IsHeard(n, k, v, o)  BY <3>4, StoredIsHeard DEF HasStored
    <3>6. AttemptProgress(n, k, v, before, o, left)  BY <2>3, <2>4, <3>1
    <3>7. QED  BY <3>3, <3>5, <3>6, AttemptPromises
  <2>5. CASE \E error : Save(n, "defund", v, before) /\ Stop(n, error, left)
    <3>1. LedgersStep  BY <1>1, <2>5, SavesStored
    <3>2. QED  BY <2>5, <3>1, NothingPromised
  <2>6. QED  BY <2>1, <2>3, <2>4, <2>5 DEF UpdateDefund
<1>5. QED  BY <1>3, <1>4

\* An objective with the stored copies that is rejected.
LEMMA RejectedPromises ==
  ASSUME PromiseInv, FundingInv', NEW n \in Nodes, NEW k \in Kinds, NEW v \in Targets,
         NEW o, Ready(n, v, o), HasStored(n, o),
         Save(n, k, v, [o EXCEPT !.status = "rejected"]),
         NEW left, IsLeft(left), IsVouchedLeft(left),
         \E messages, heads : /\ GoOn(n, left, messages, heads)
                              /\ \A m \in messages : m.type # "proposals"
  PROVE  Promised
<1>1. PICK new : new = [o EXCEPT !.status = "rejected"]  OBVIOUS
<1>2. new.copies = o.copies
  <2>1. o = [status |-> o.status, minimum |-> o.minimum, channel |-> o.channel,
             copies |-> o.copies]
    BY ReadyIs
  <2>2. QED  BY <1>1, <2>1
<1>3. HasStored(n, new) /\ Save(n, k, v, new)  BY <1>1, <1>2 DEF HasStored
<1>4. LedgersStep  BY <1>3, SavesStored DEF PromiseInv, FundingInv
<1>5. QED  BY <1>4, NothingPromised

\* The policy maker refuses.
LEMMA RejectPromises ==
  ASSUME PromiseInv, FundingInv', NEW n \in Nodes, NEW k \in Kinds, NEW v \in Targets,
         NEW o, Ready(n, v, o), HasStored(n, o),
         NEW left, IsLeft(left), IsVouchedLeft(left), Reject(n, k, v, o, left)
  PROVE  Promised
<1>1. \A m \in RejectionNotice(n, k, v) : m.type # "proposals"
  BY DEF RejectionNotice
<1>2. /\ Save(n, k, v, [o EXCEPT !.status = "rejected"])
      /\ GoOn(n, left, RejectionNotice(n, k, v), << >>)
  BY DEF Reject
<1>3. QED  BY <1>1, <1>2, RejectedPromises

\* An event that changes nothing that is stored.
LEMMA NothingSaved ==
  ASSUME PromiseInv, FundingInv', NEW n \in Nodes,
         NEW left, IsLeft(left), IsVouchedLeft(left),
         Ignore(n, left) \/ \E error : Fail(n, error, left)
  PROVE  Promised
<1>1. LedgersStep  BY NothingMoves DEF Ignore, Fail, stored
<1>2. CASE Ignore(n, left)
  <2>1. PICK messages, heads : messages = {} /\ GoOn(n, left, messages, heads)
    BY <1>2 DEF Ignore
  <2>2. QED  BY <1>1, <2>1, NothingPromised
<1>3. CASE \E error : Fail(n, error, left)
  <2>1. \E error : Stop(n, error, left)  BY <1>3 DEF Fail
  <2>2. QED  BY <1>1, <2>1, NothingPromised
<1>4. QED  BY <1>2, <1>3

\* A payload of an objective.
LEMMA ReceivePayloadPromises ==
  ASSUME PromiseInv, FundingInv', NEW m \in network, ReceiveObjectivePayload(m)
  PROVE  Promised
<1>1. PICK left \in AfterTaking(m), n \in {m.to}, k \in {KindOf(m)} :
        /\ m.type \in {"prefund", "postfund", "request", "final"}
        /\ \/ ConstructObjective(n, k, m.v, m, left)
           \/ CannotConstruct(n, k, m.v, left)
           \/ StopConstructing(n, k, m.v, left)
           \/ UpdateObjective(n, k, m.v, m, left)
           \/ IgnorePayload(n, k, m.v, left)
        /\ asked' = asked
  BY DEF ReceiveObjectivePayload
<1>2. FundingInv /\ TypeOK /\ HistoryInv  BY DEF PromiseInv, FundingInv
<1>3. IsLeft(left) /\ IsVouchedLeft(left) /\ n \in Nodes
  BY <1>1, TakenIsVouched
<1>4. m \in Payloads /\ IsTrue(m)
  BY <1>1, <1>2 DEF FundingInv, TypeOK, MessagesInv, Payloads, Rejections, Proposals
<1>5. PICK v \in Targets : v = m.v  BY <1>4 DEF Payloads
<1>6. k \in Kinds  BY <1>1, <1>2, RestIs DEF KindOf
<1>7. PICK o, before : o = Constructed(n, k, v) /\ before = InMemory(n, k, v)
  OBVIOUS
<1>8. HasStored(n, o) /\ HasStored(n, before)
  BY <1>3, <1>6, <1>7, MemoriesHaveStored
<1>9. CASE ConstructObjective(n, k, v, m, left)
  <2>1. /\ CanConstruct(n, k, v)
        /\ Update(n, k, v, o, m, left) \/ Reject(n, k, v, o, left)
        /\ vouchers' = Registered(n, k, v)
    BY <1>7, <1>9 DEF ConstructObjective
  <2>2. Ready(n, v, o)  BY <1>2, <1>3, <1>6, <1>7, <2>1, ConstructedIsReady
  <2>3. CASE Update(n, k, v, o, m, left)
    BY <1>1, <1>3, <1>4, <1>5, <1>6, <1>8, <2>2, <2>3, UpdatePromises
  <2>4. CASE Reject(n, k, v, o, left)
    BY <1>3, <1>6, <1>8, <2>2, <2>4, RejectPromises
  <2>5. QED  BY <2>1, <2>3, <2>4
<1>10. CASE CannotConstruct(n, k, v, left) \/ IgnorePayload(n, k, v, left)
  <2>1. Ignore(n, left) \/ \E error : Fail(n, error, left)
    BY <1>10 DEF CannotConstruct, IgnorePayload
  <2>2. QED  BY <1>3, <2>1, NothingSaved
<1>11. CASE StopConstructing(n, k, v, left)
  <2>1. /\ Save(n, k, v, before) \/ Save(n, k, v, o)
        /\ Stop(n, "crash", left)
    BY <1>7, <1>11 DEF StopConstructing
  <2>2. LedgersStep  BY <1>2, <1>3, <1>8, <2>1, SavesStored
  <2>3. QED  BY <1>3, <2>1, <2>2, NothingPromised
<1>12. CASE UpdateObjective(n, k, v, m, left)
  <2>1. /\ before.status \in {"unapproved", "approved"}
        /\ Update(n, k, v, before, m, left) \/ Reject(n, k, v, before, left)
    BY <1>7, <1>12 DEF UpdateObjective
  <2>2. before.status # "unknown"  BY <2>1
  <2>3. Ready(n, v, before)  BY <1>2, <1>3, <1>6, <1>7, <2>2, KnownIs
  <2>4. CASE Update(n, k, v, before, m, left)
    BY <1>1, <1>3, <1>4, <1>5, <1>6, <1>8, <2>3, <2>4, UpdatePromises
  <2>5. CASE Reject(n, k, v, before, left)
    BY <1>3, <1>6, <1>8, <2>3, <2>5, RejectPromises
  <2>6. QED  BY <2>1, <2>4, <2>5
<1>13. QED  BY <1>1, <1>5, <1>9, <1>10, <1>11, <1>12

\* The proposals of a message are taken up.
LEMMA ReceiveProposalsPromises ==
  ASSUME PromiseInv, FundingInv', NEW m \in network, ReceiveProposals(m)
  PROVE  Promised
<1>1. PICK entries : entries = [i \in DOMAIN m.proposals |->
                                  [ledger |-> m.ledger, sp |-> m.proposals[i]]]
  OBVIOUS
<1>2. PICK left \in AfterTaking(m) :
        GoOn(m.to, [left EXCEPT !.inbox = entries], {}, << >>)
  BY <1>1 DEF ReceiveProposals
<1>3. m.type = "proposals" /\ UNCHANGED stored  BY DEF ReceiveProposals
<1>4. FundingInv /\ TypeOK /\ VouchedInv  BY DEF PromiseInv, FundingInv
<1>5. m \in Proposals /\ \A i \in 1..Len(m.proposals) : IsVouched(m.ledger, m.proposals[i])
  BY <1>3, <1>4 DEF TypeOK, VouchedInv, Payloads, Rejections
<1>6. PICK queue \in Seq(SignedProposal), l \in Ledgers : queue = m.proposals /\ l = m.ledger
  BY <1>5 DEF Proposals
<1>7. entries = [i \in 1..Len(queue) |-> [ledger |-> l, sp |-> queue[i]]]
  BY <1>1, <1>6
<1>8. Len(queue) \in Nat  OBVIOUS
<1>9. /\ Len(entries) = Len(queue)
      /\ \A i \in 1..Len(queue) : entries[i].ledger = l /\ entries[i].sp = queue[i]
  BY <1>7, <1>8
<1>10. IsLeft(left) /\ m.to \in Nodes  BY TakenIsVouched
<1>11. left = [inbox |-> inbox[m.to], toProcess |-> toProcess[m.to],
               network |-> left.network]
  BY <1>4, AfterTakingIs
<1>12. PICK rest : rest = [left EXCEPT !.inbox = entries]  OBVIOUS
<1>13. rest.inbox = entries /\ rest.network = left.network  BY <1>11, <1>12
<1>14. IsVouchedLeft(rest)  BY <1>5, <1>6, <1>9, <1>13 DEF IsVouchedLeft
<1>15. GoOn(m.to, rest, {}, << >>)  BY <1>2, <1>12
<1>16. \A x \in Nodes : \A i \in 1..Len(inbox'[x]) :
         IsVouched(inbox'[x][i].ledger, inbox'[x][i].sp)
  BY <1>4, <1>10, <1>14, <1>15, LoopVouches
<1>17. LedgersStep  BY <1>3, NothingMoves DEF stored
<1>18. PICK messages : messages = {}  OBVIOUS
<1>19. network' \subseteq network \cup messages
  BY <1>10, <1>13, <1>15 DEF GoOn, IsLeft
<1>20. \A x \in messages : x.type = "proposals" =>
         \A i \in 1..Len(x.proposals) : IsVouched(x.ledger, x.proposals[i])'
  BY <1>18
<1>21. QED  BY <1>16, <1>17, <1>19, <1>20, PromiseAssembled

\* Whatever a proposal makes of its objective in memory, was heard or is stored.
LEMMA HandledIsHeard ==
  ASSUME PromiseInv, NEW n \in Nodes, ReceiveProposal(n) \/ ProcessHead(n)
  PROVE  \E k, v, o, new, left :
           /\ Handles(n, k, v, o, new, left) /\ IsVouchedLeft(left)
           /\ Cranks(n, k, v, o, new, left) => HasStored(n, o) /\ IsHeard(n, k, v, new)
<1>1. FundingInv /\ VouchedInv  BY DEF PromiseInv
<1>2. CASE ReceiveProposal(n)
  <2>1. PICK sp, l, k, v, o, left :
          /\ sp \in SignedProposal /\ l \in Ledgers
          /\ Handles(n, k, v, o, Incorporated(n, l, o, sp), left)
          /\ v = sp.proposal.target /\ k = ProposalKind(sp.proposal)
          /\ IsVouched(l, sp) /\ IsVouchedLeft(left)
    BY <1>1, <1>2, ReceiveProposalIs
  <2>2. PICK new : new = Incorporated(n, l, o, sp)  OBVIOUS
  <2>3. HasStored(n, o)  BY <2>1, MemoriesHaveStored DEF Handles
  <2>4. ASSUME Cranks(n, k, v, o, new, left) PROVE IsHeard(n, k, v, new)
    <3>1. o = [status |-> o.status, minimum |-> o.minimum, channel |-> o.channel,
               copies |-> o.copies]
          /\ o.copies \in [Ledgers -> Copy]
      BY <2>1, <2>4, ReadyIs DEF Cranks, Handles
    <3>2. PICK c : c = Received(Party(n, l), o.copies[l], sp)  OBVIOUS
    <3>3. new = [o EXCEPT !.copies[l] = c]  BY <2>2, <3>2 DEF Incorporated
    <3>4. new.copies = [o.copies EXCEPT ![l] = c]  BY <3>1, <3>3
    <3>5. ASSUME NEW h \in Ledgers PROVE Heard(n, k, v, h, new.copies[h])
      <4>1. CASE h = l
        <5>1. new.copies[l] = Received(Party(n, l), ledger[l][Party(n, l)], sp)
          BY <2>1, <2>3, <3>1, <3>2, <3>4 DEF HasStored
        <5>2. QED  BY <2>1, <4>1, <5>1 DEF Heard
      <4>2. CASE h # l
        <5>1. new.copies[h] = ledger[h][Party(n, h)]
          BY <2>3, <3>1, <3>4, <4>2 DEF HasStored
        <5>2. QED  BY <5>1 DEF Heard
      <4>3. QED  BY <4>1, <4>2
    <3>6. QED  BY <3>5 DEF IsHeard
  <2>5. QED  BY <2>1, <2>2, <2>3, <2>4
<1>3. CASE ProcessHead(n)
  <2>1. PICK k, v, o, left :
          Handles(n, k, v, o, o, left) /\ left.inbox = inbox[n]
    BY <1>1, <1>3, ProcessHeadIs
  <2>2. HasStored(n, o) /\ IsHeard(n, k, v, o)
    BY <2>1, MemoriesHaveStored, StoredIsHeard DEF Handles
  <2>3. IsVouchedLeft(left)  BY <1>1, <2>1 DEF IsVouchedLeft, VouchedInv
  <2>4. QED  BY <2>1, <2>2, <2>3
<1>4. QED  BY <1>2, <1>3

\* A proposal is handled.
LEMMA HandleProposalPromises ==
  ASSUME PromiseInv, FundingInv', NEW n \in Nodes, ReceiveProposal(n) \/ ProcessHead(n)
  PROVE  Promised
<1>1. PICK k, v, o, new, left :
        /\ Handles(n, k, v, o, new, left) /\ IsVouchedLeft(left)
        /\ Cranks(n, k, v, o, new, left) => HasStored(n, o) /\ IsHeard(n, k, v, new)
  BY HandledIsHeard
<1>2. k \in Kinds /\ v \in Targets /\ IsLeft(left)  BY <1>1 DEF Handles
<1>3. CASE Ignore(n, left) \/ \E error \in Errors : Fail(n, error, left)
  BY <1>1, <1>2, <1>3, NothingSaved
<1>4. CASE Cranks(n, k, v, o, new, left)
  <2>1. Ready(n, v, new) /\ AttemptProgress(n, k, v, o, new, left)
    BY <1>4 DEF Cranks
  <2>2. QED  BY <1>1, <1>2, <1>4, <2>1, AttemptPromises
<1>5. QED  BY <1>1, <1>3, <1>4 DEF Handles

\* A rejection notice.
LEMMA ReceiveRejectionPromises ==
  ASSUME PromiseInv, FundingInv', NEW m \in network, ReceiveRejection(m)
  PROVE  Promised
<1>1. m.type = "rejection"  BY DEF ReceiveRejection
<1>2. FundingInv /\ TypeOK  BY DEF PromiseInv, FundingInv
<1>3. m \in Rejections  BY <1>1, <1>2 DEF TypeOK, Payloads, Proposals
<1>4. PICK n \in Nodes, k \in Kinds, v \in Targets : n = m.to /\ k = m.kind /\ v = m.v
  BY <1>3 DEF Rejections
<1>5. PICK o : o = InMemory(n, k, v)  OBVIOUS
<1>6. PICK left \in AfterTaking(m) :
        \/ Ignore(n, left)
        \/ \E error : Fail(n, error, left)
        \/ /\ o.status # "unknown"
           /\ Save(n, k, v, [o EXCEPT !.status = "rejected"])
           /\ GoOn(n, left, {}, << >>)
  BY <1>4, <1>5 DEF ReceiveRejection
<1>7. IsLeft(left) /\ IsVouchedLeft(left)  BY TakenIsVouched
<1>8. CASE Ignore(n, left) \/ \E error : Fail(n, error, left)
  BY <1>7, <1>8, NothingSaved
<1>9. CASE /\ o.status # "unknown"
           /\ Save(n, k, v, [o EXCEPT !.status = "rejected"])
           /\ GoOn(n, left, {}, << >>)
  <2>1. Ready(n, v, o)  BY <1>2, <1>5, <1>9, KnownIs
  <2>2. HasStored(n, o)  BY <1>5, MemoriesHaveStored
  <2>3. PICK messages, heads : messages = {} /\ GoOn(n, left, messages, heads)
    BY <1>9
  <2>4. QED  BY <1>7, <1>9, <2>1, <2>2, <2>3, RejectedPromises
<1>10. QED  BY <1>6, <1>8, <1>9

\* A voucher.
LEMMA ReceiveVoucherPromises ==
  ASSUME PromiseInv, FundingInv', NEW m \in network, ReceiveVoucher(m)
  PROVE  Promised
<1>1. PICK left \in AfterTaking(m) :
        \/ Fail(m.to, "channel not registered", left)
        \/ /\ \/ Stop(m.to, "could not fetch channel for voucher", left)
              \/ GoOn(m.to, left, {}, << >>)
           /\ UNCHANGED <<ledger, signed>>
  BY DEF ReceiveVoucher
<1>2. IsLeft(left) /\ IsVouchedLeft(left) /\ m.to \in Nodes  BY TakenIsVouched
<1>3. CASE Fail(m.to, "channel not registered", left)
  BY <1>2, <1>3, NothingSaved
<1>4. CASE /\ \/ Stop(m.to, "could not fetch channel for voucher", left)
              \/ GoOn(m.to, left, {}, << >>)
           /\ UNCHANGED <<ledger, signed>>
  <2>1. LedgersStep  BY <1>4, NothingMoves
  <2>2. CASE Stop(m.to, "could not fetch channel for voucher", left)
    BY <1>2, <2>1, <2>2, NothingPromised
  <2>3. CASE GoOn(m.to, left, {}, << >>)
    <3>1. PICK messages, heads : messages = {} /\ GoOn(m.to, left, messages, heads)
      BY <2>3
    <3>2. QED  BY <1>2, <2>1, <3>1, NothingPromised
  <2>4. QED  BY <1>4, <2>2, <2>3
<1>5. QED  BY <1>1, <1>3, <1>4

\* What leaves the ledgers alone, and puts no proposals into the network or an
\* inbox: a payment, a message that is lost, a restart, a stutter.
LEMMA QuietPromises ==
  ASSUME PromiseInv, FundingInv', UNCHANGED <<ledger, signed>>,
         \A x \in Nodes : inbox'[x] = inbox[x] \/ inbox'[x] = << >>,
         NEW messages, network' \subseteq network \cup messages,
         \A m \in messages : m.type # "proposals"
  PROVE  Promised
<1>1. \A x \in Nodes : \A i \in 1..Len(inbox[x]) : IsVouched(inbox[x][i].ledger, inbox[x][i].sp)
  BY DEF PromiseInv, VouchedInv
<1>2. ASSUME NEW x \in Nodes, NEW i \in 1..Len(inbox'[x])
      PROVE  IsVouched(inbox'[x][i].ledger, inbox'[x][i].sp)
  <2>1. CASE inbox'[x] = << >>  BY <1>2, <2>1
  <2>2. CASE inbox'[x] = inbox[x]  BY <1>1, <1>2, <2>2
  <2>3. QED  BY <2>1, <2>2
<1>3. \A m \in messages : m.type = "proposals" =>
        \A i \in 1..Len(m.proposals) : IsVouched(m.ledger, m.proposals[i])'
  OBVIOUS
<1>4. LedgersStep  BY NothingMoves
<1>5. QED  BY <1>2, <1>3, <1>4, PromiseAssembled

\* handlePaymentRequest.
LEMMA PayPromises ==
  ASSUME PromiseInv, FundingInv', NEW v \in Targets, NEW amount \in 1..MaxAmount,
         Pay(v, amount)
  PROVE  Promised
<1>1. PICK m : m = [type |-> "voucher", v |-> v, from |-> Alice(v), to |-> Bob(v),
                    paid |-> Paid(Alice(v), v) + amount]
  OBVIOUS
<1>2. PICK messages : messages = {m}  OBVIOUS
<1>3. /\ network' = network \cup messages
      /\ UNCHANGED <<ledger, signed>>
      /\ inbox' = inbox
  BY <1>1, <1>2 DEF Pay
<1>4. \A x \in messages : x.type # "proposals"  BY <1>1, <1>2
<1>5. QED  BY <1>3, <1>4, QuietPromises

\* A message is lost, a node is started again, or nothing happens.
LEMMA RestPromises ==
  ASSUME PromiseInv, FundingInv',
         \/ \E m \in network : Lose(m)
         \/ \E n \in Nodes : Restart(n)
         \/ UNCHANGED vars
  PROVE  Promised
<1>1. PICK messages : messages = {}  OBVIOUS
<1>2. TypeOK  BY DEF PromiseInv, FundingInv
<1>3. /\ network' \subseteq network \cup messages
      /\ UNCHANGED <<ledger, signed>>
      /\ inbox' = inbox \/ \E n \in Nodes : inbox' = [inbox EXCEPT ![n] = << >>]
  BY DEF Lose, Restart, vars, stored
<1>4. \A x \in Nodes : inbox'[x] = inbox[x] \/ inbox'[x] = << >>
  BY <1>2, <1>3 DEF TypeOK
<1>5. \A m \in messages : m.type # "proposals"  BY <1>1
<1>6. QED  BY <1>3, <1>4, <1>5, QuietPromises

\* Every step shows it.
LEMMA NextPromises ==
  ASSUME PromiseInv, [Next]_vars
  PROVE  Promised /\ PromiseInv'
<1>1. FundingInv'  BY NextKeeps DEF PromiseInv
<1>2. ASSUME NEW m \in network, ReceiveMessage(m) PROVE Promised
  BY <1>1, <1>2, ReceivePayloadPromises, ReceiveProposalsPromises,
     ReceiveRejectionPromises, ReceiveVoucherPromises DEF ReceiveMessage
<1>3. ASSUME Next PROVE Promised
  <2>1. ASSUME NEW v \in Targets, RequestFund(v) PROVE Promised
    BY <1>1, <2>1, RequestFundPromises
  <2>2. ASSUME NEW n \in Nodes, NEW v \in Targets, RequestDefund(n, v) PROVE Promised
    BY <1>1, <2>2, RequestDefundPromises
  <2>3. ASSUME NEW v \in Targets, NEW amount \in 1..MaxAmount, Pay(v, amount)
        PROVE  Promised
    BY <1>1, <2>3, PayPromises
  <2>4. ASSUME NEW n \in Nodes, ReceiveProposal(n) PROVE Promised
    BY <1>1, <2>4, HandleProposalPromises
  <2>5. ASSUME NEW n \in Nodes, ProcessHead(n) PROVE Promised
    BY <1>1, <2>5, HandleProposalPromises
  <2>6. CASE \E m \in network : Lose(m)  BY <1>1, <2>6, RestPromises
  <2>7. CASE \E n \in Nodes : Restart(n)  BY <1>1, <2>7, RestPromises
  <2>8. QED  BY <1>2, <1>3, <2>1, <2>2, <2>3, <2>4, <2>5, <2>6, <2>7 DEF Next
<1>4. ASSUME UNCHANGED vars PROVE Promised
  <2>1. \/ \E m \in network : Lose(m)
        \/ \E n \in Nodes : Restart(n)
        \/ UNCHANGED vars
    BY <1>4
  <2>2. QED  BY ONLY PromiseInv, <1>1, <2>1, RestPromises
<1>5. Promised  BY <1>3, <1>4
<1>6. QED  BY <1>1, <1>5 DEF Promised, PromiseInv

\* Every ledger starts with its first state as its history.
LEMMA InitPromises == Init => PromiseInv /\ \A l \in Ledgers : Promise(l)!Init
<1> SUFFICES ASSUME Init PROVE PromiseInv /\ \A l \in Ledgers : Promise(l)!Init
  OBVIOUS
<1>1. FundingInv /\ TypeOK  BY InitFunding DEF FundingInv
<1>2. \A l \in Ledgers : /\ signed[l] = {FirstState(l)}
                         /\ \A p \in Parties : /\ ledger[l][p].current = FirstState(l)
                                               /\ ledger[l][p].queue = << >>
  BY DEF Init
<1>3. ASSUME NEW l \in Ledgers
      PROVE  /\ IsHistory(l)
             /\ \A p \in Parties : IsPiece(l, ledger[l][p])
             /\ Promise(l)!Init
  <2>1. PICK first : first = FirstState(l)  OBVIOUS
  <2>2. /\ signed[l] = {first}
        /\ \A p \in Parties : ledger[l][p].current = first /\ ledger[l][p].queue = << >>
    BY <1>2, <2>1
  <2>3. ASSUME NEW p \in Parties PROVE IsPiece(l, ledger[l][p])
    <3>1. PICK copy : copy = ledger[l][p]  OBVIOUS
    <3>2. copy.current = first /\ copy.queue = << >> /\ Len(copy.queue) = 0
      BY <2>2, <3>1
    <3>3. Chain(copy.current, copy.queue)  BY <3>2 DEF Chain
    <3>4. \A i \in 0..Len(copy.queue) : StateAt(copy.current, copy.queue, i) = first
      BY <3>2 DEF StateAt
    <3>5. QED  BY <2>2, <3>1, <3>3, <3>4 DEF IsPiece
  <2>4. Latest(ledger[l][Leader]) = first
    <3>1. ledger[l][Leader] \in Copy  BY <1>1, TwoParties DEF TypeOK
    <3>2. Latest(ledger[l][Leader]) \in signed[l]
      BY <2>3, <3>1, TwoParties, PieceIs
    <3>3. QED  BY <2>2, <3>2
  <2>5. first.turnNum \in Nat  BY <1>1, <2>2 DEF TypeOK, Vars
  <2>6. IsHistory(l)  BY <2>2, <2>4, <2>5 DEF IsHistory
  <2>7. History(l) = [t \in {first.turnNum} |-> first]
    <3>1. {s.turnNum : s \in signed[l]} = {first.turnNum}  BY <2>2
    <3>2. (CHOOSE s \in signed[l] : s.turnNum = first.turnNum) = first  BY <2>2
    <3>3. QED  BY <3>1, <3>2 DEF History
  <2>8. Consensus(l) = [p \in Parties |-> first]  BY <2>2 DEF Consensus
  <2>9. Promise(l)!Init  BY <2>1, <2>7, <2>8, SamePromises DEF Promise!Init
  <2>10. QED  BY <2>3, <2>6, <2>9
<1>4. VouchedInv  BY DEF Init, VouchedInv
<1>5. QED  BY <1>1, <1>3, <1>4 DEF PromiseInv, HistoryInv

\* Both copies of every ledger are pieces of one history of signed states, and
\* whatever was sent of a ledger is vouched for by whoever sent it.
THEOREM PromiseInvariance == Spec => []PromiseInv
<1>1. PromiseInv /\ [Next]_vars => PromiseInv'  BY NextPromises
<1>2. Init => PromiseInv  BY InitPromises
<1>3. QED  BY <1>1, <1>2, PTL DEF Spec

\* Each ledger, shared by channels whose objectives interleave on it, keeps
\* the promise of a ledger channel.
THEOREM LedgersKeepPromiseHolds == Spec => LedgersKeepPromise
<1>1. Init => \A l \in Ledgers : Promise(l)!Init  BY InitPromises
<1>2. PromiseInv /\ [Next]_vars =>
        [\A l \in Ledgers : UNCHANGED <<signed[l], Consensus(l)>> \/ Promise(l)!Next]_vars
  <2>1. SUFFICES ASSUME PromiseInv, [Next]_vars
                 PROVE  \A l \in Ledgers :
                          UNCHANGED <<signed[l], Consensus(l)>> \/ Promise(l)!Next
    OBVIOUS
  <2>2. Promised  BY <2>1, NextPromises
  <2>3. ASSUME NEW l \in Ledgers
        PROVE  UNCHANGED <<signed[l], Consensus(l)>> \/ Promise(l)!Next
    <3>1. PromiseStep(l)  BY <2>2 DEF Promised
    <3>2. QED  BY <3>1 DEF PromiseStep
  <2>4. QED  BY <2>3
<1>3. QED  BY <1>1, <1>2, PromiseInvariance, PTL DEF Spec, LedgersKeepPromise

-----------------------------------------------------------------------------
(***************************************************************************)
(* The books of a ledger.  A step offers or accepts at most one proposal,  *)
(* whose guarantee is the one its channel expects, or pays what Alice has  *)
(* paid.                                                                   *)
(***************************************************************************)

\* The proposals that node n may make of ledger l, or accept.
MayMake(n, l, p) ==
  \E v \in Targets :
    /\ l \in Hops(v)
    /\ \/ p = ExpectedProposal(v, l) /\ (HasAsked(v) => n = Bob(v))
       \/ p = RemovalProposal(v, Paid(Alice(v), v)) /\ HasAsked(v)

Makes(l) == [n \in Nodes |-> {p \in Proposal : MayMake(n, l, p)}]

\* State t is state s with the guarantee of v added.
IsAdded(l, v, s, t) ==
  /\ ~ IncludesTarget(s, v) /\ Includes(t, v, ExpectedGuarantee(v, l))
  /\ \A q \in Parties : t.outcome.balance[q] = s.outcome.balance[q] - DepositFrom(q, v, l)

\* State t is state s with the guarantee of v removed.
IsRemoved(l, v, s, t) ==
  /\ IncludesTarget(s, v) /\ ~ IncludesTarget(t, v)
  /\ Includes(s, v, ExpectedGuarantee(v, l)) =>
       \A q \in Parties :
         t.outcome.balance[q] =
           s.outcome.balance[q] + DepositFrom(q, v, l)
             + (IF q = LeftParty(v, l) THEN - Paid(Alice(v), v) ELSE Paid(Alice(v), v))

Changes(n, l, v, s, t) ==
  /\ \A u \in Targets \ {v} : t.outcome.guarantees[u] = s.outcome.guarantees[u]
  /\ \/ IsAdded(l, v, s, t) /\ (HasAsked(v) => n = Bob(v))
     \/ IsRemoved(l, v, s, t) /\ HasAsked(v)

\* What the proposals that may be made do to a state.
LEMMA MadeChanges ==
  ASSUME TypeOK, NEW n \in Nodes, NEW l \in Ledgers, NEW p \in Proposal, MayMake(n, l, p),
         NEW s \in Vars, CanHandleProposal(s, p), NEW t, t = HandleProposal(s, p)
  PROVE  /\ t.turnNum = s.turnNum + 1
         /\ \E v \in Targets : l \in Hops(v) /\ Changes(n, l, v, s, t)
<1>1. PICK v \in Targets :
        /\ l \in Hops(v)
        /\ \/ p = ExpectedProposal(v, l) /\ (HasAsked(v) => n = Bob(v))
           \/ p = RemovalProposal(v, Paid(Alice(v), v)) /\ HasAsked(v)
  BY DEF MayMake
<1>2. /\ s.outcome.balance \in [Parties -> Nat]
      /\ s.outcome.guarantees \in [Targets -> Guarantee \cup {NoGuarantee}]
      /\ s.turnNum \in Nat
  BY DEF Vars, Outcome
<1>3. /\ ExpectedGuarantee(v, l) \in Guarantee /\ ExpectedGuarantee(v, l) # NoGuarantee
      /\ LeftParty(v, l) \in Parties
      /\ Deposit[v].a0 \in Nat /\ Deposit[v].b0 \in Nat
  <2>1. ExpectedGuarantee(v, l) \in Guarantee  BY <1>1, ExpectedProposals
  <2>2. ExpectedGuarantee(v, l).left = LeftParty(v, l)  BY DEF ExpectedGuarantee
  <2>3. QED
    BY <1>1, <2>1, <2>2, ExpectedProposals, DepositAssumption DEF Guarantee
<1>4. PICK g : g = ExpectedGuarantee(v, l)  OBVIOUS
<1>5. PICK left \in Parties : left = LeftParty(v, l)  BY <1>3
<1>6. g = [amount |-> Deposit[v].a0 + Deposit[v].b0, left |-> left]
  BY <1>4, <1>5 DEF ExpectedGuarantee
<1>7. \A q \in Parties :
        DepositFrom(q, v, l) = IF q = left THEN Deposit[v].a0 ELSE Deposit[v].b0
  BY <1>5 DEF DepositFrom
<1>8. CASE p = ExpectedProposal(v, l) /\ (HasAsked(v) => n = Bob(v))
  <2>1. /\ p.type = "add" /\ p.target = v /\ p.amount = Deposit[v].a0 + Deposit[v].b0
        /\ p.left = left /\ p.leftDeposit = Deposit[v].a0
    <3>1. p = [type |-> "add", target |-> v, amount |-> g.amount, left |-> left,
               leftDeposit |-> Deposit[v].a0]
      BY <1>4, <1>5, <1>8 DEF ExpectedProposal, DepositOfLeft
    <3>2. g.amount = Deposit[v].a0 + Deposit[v].b0  BY <1>6
    <3>3. QED  BY <3>1, <3>2
  <2>2. t = AddGuarantee(s, p) /\ CanAdd(s, p)
    BY <2>1 DEF HandleProposal, CanHandleProposal
  <2>3. RightDeposit(p) = Deposit[v].b0  BY <1>3, <2>1 DEF RightDeposit
  <2>4. /\ t.turnNum = s.turnNum + 1
        /\ t.outcome.balance = [q \in Parties |->
             IF q = left THEN s.outcome.balance[q] - Deposit[v].a0
                         ELSE s.outcome.balance[q] - Deposit[v].b0]
        /\ t.outcome.guarantees = [s.outcome.guarantees EXCEPT ![v] = g]
    <3>1. [amount |-> p.amount, left |-> p.left] = g  BY <1>6, <2>1
    <3>2. QED  BY <2>1, <2>2, <2>3, <3>1 DEF AddGuarantee
  <2>5. /\ Includes(t, v, g)
        /\ \A u \in Targets \ {v} : t.outcome.guarantees[u] = s.outcome.guarantees[u]
    BY <1>2, <2>4 DEF Includes
  <2>6. \A q \in Parties : t.outcome.balance[q] = s.outcome.balance[q] - DepositFrom(q, v, l)
    BY <1>7, <2>4
  <2>7. ~ IncludesTarget(s, v)  BY <2>1, <2>2 DEF CanAdd
  <2>8. IsAdded(l, v, s, t)  BY <1>4, <2>5, <2>6, <2>7 DEF IsAdded
  <2>9. QED  BY <1>1, <1>8, <2>4, <2>5, <2>8 DEF Changes
<1>9. CASE p = RemovalProposal(v, Paid(Alice(v), v)) /\ HasAsked(v)
  <2>1. PICK paid : paid = Paid(Alice(v), v)  OBVIOUS
  <2>2. p.type = "remove" /\ p.target = v /\ p.leftAmount = Deposit[v].a0 - paid
    BY <1>9, <2>1 DEF RemovalProposal, LeftAmount
  <2>3. t = RemoveGuarantee(s, p) /\ CanRemove(s, p)
    BY <2>2 DEF HandleProposal, CanHandleProposal
  <2>4. PICK h : h = s.outcome.guarantees[v]  OBVIOUS
  <2>5. /\ t.turnNum = s.turnNum + 1
        /\ t.outcome.balance = [q \in Parties |->
             IF q = h.left THEN s.outcome.balance[q] + p.leftAmount
                           ELSE s.outcome.balance[q] + (h.amount - p.leftAmount)]
        /\ t.outcome.guarantees = [s.outcome.guarantees EXCEPT ![v] = NoGuarantee]
    BY <2>2, <2>3, <2>4 DEF RemoveGuarantee
  <2>6. /\ ~ IncludesTarget(t, v)
        /\ \A u \in Targets \ {v} : t.outcome.guarantees[u] = s.outcome.guarantees[u]
    BY <1>2, <2>5 DEF IncludesTarget, Includes
  <2>7. IncludesTarget(s, v)  BY <2>2, <2>3 DEF CanRemove
  <2>8. ASSUME Includes(s, v, ExpectedGuarantee(v, l)), NEW q \in Parties
        PROVE  t.outcome.balance[q] =
                 s.outcome.balance[q] + DepositFrom(q, v, l)
                   + (IF q = LeftParty(v, l) THEN - Paid(Alice(v), v)
                                             ELSE Paid(Alice(v), v))
    <3>1. h = g  BY <1>4, <2>4, <2>8 DEF Includes
    <3>2. h.left = left /\ h.amount = Deposit[v].a0 + Deposit[v].b0
      BY <1>6, <3>1
    <3>3. t.outcome.balance[q] =
            IF q = h.left THEN s.outcome.balance[q] + p.leftAmount
                          ELSE s.outcome.balance[q] + (h.amount - p.leftAmount)
      BY <2>5
    <3>4. s.outcome.balance[q] \in Nat /\ paid \in Nat
      BY <1>2, <2>1, TypeIs, PathIs
    <3>5. CASE q = left  BY <1>3, <1>5, <1>7, <2>1, <2>2, <3>2, <3>3, <3>4, <3>5
    <3>6. CASE q # left
      <4>1. t.outcome.balance[q] = s.outcome.balance[q] + (h.amount - p.leftAmount)
        BY <3>2, <3>3, <3>6
      <4>2. h.amount - p.leftAmount = Deposit[v].b0 + paid
        BY <1>3, <2>2, <3>2, <3>4
      <4>3. DepositFrom(q, v, l) = Deposit[v].b0  BY <1>7, <3>6
      <4>4. QED  BY <1>3, <1>5, <2>1, <3>4, <3>6, <4>1, <4>2, <4>3
    <3>7. QED  BY <3>5, <3>6
  <2>9. IsRemoved(l, v, s, t)  BY <2>6, <2>7, <2>8 DEF IsRemoved
  <2>10. QED  BY <1>1, <1>9, <2>5, <2>6, <2>9 DEF Changes
<1>10. QED  BY <1>1, <1>8, <1>9

\* What a channel has made of a balance is a number.
LEMMA NetIs ==
  ASSUME TypeOK, NEW l \in Ledgers, NEW q \in Parties, NEW v \in Targets, NEW s
  PROVE  Net(l, q, v, s) \in Int
<1>1. Paid(Alice(v), v) \in Nat  BY TypeIs, PathIs
<1>2. DepositFrom(q, v, l) \in Nat  BY DepositAssumption DEF DepositFrom
<1>3. QED  BY <1>1, <1>2 DEF Net

\* A proposal keeps the balances right, unless it adds a guarantee for a channel
\* that Alice has asked to close.
LEMMA ChangeBalances ==
  ASSUME TypeOK, IsFiniteSet(Targets), NEW l \in Ledgers, NEW v \in Targets, l \in Hops(v),
         NEW s \in Vars, NEW t \in Vars, IsBalanced(l, s),
         \A u \in Targets \ {v} : t.outcome.guarantees[u] = s.outcome.guarantees[u],
         \/ IsAdded(l, v, s, t) /\ ~ HasAsked(v)
         \/ IsRemoved(l, v, s, t) /\ HasAsked(v) /\ Includes(s, v, ExpectedGuarantee(v, l))
  PROVE  IsBalanced(l, t)
<1> SUFFICES ASSUME NEW q \in Parties
             PROVE  t.outcome.balance[q] =
                      InitialBalance[l][q] + SumFunction([u \in Targets |-> Net(l, q, u, t)])
  BY DEF IsBalanced
<1>1. PICK f : f = [u \in Targets |-> Net(l, q, u, s)]  OBVIOUS
<1>2. PICK e : e = [u \in Targets |-> Net(l, q, u, t)]  OBVIOUS
<1>3. f \in [Targets -> Int] /\ e \in [Targets -> Int]  BY <1>1, <1>2, NetIs
<1>4. \A u \in Targets \ {v} : e[u] = f[u]
  BY <1>1, <1>2 DEF Net, IncludesTarget, Includes
<1>5. SumFunction(e) = SumFunction(f) - f[v] + e[v]  BY <1>3, <1>4, SumOfChange
<1>6. SumFunction(f) \in Int  BY <1>3, PartialSums
<1>7. s.outcome.balance[q] = InitialBalance[l][q] + SumFunction(f)
  BY <1>1 DEF IsBalanced
<1>8. InitialBalance[l][q] \in Nat /\ s.outcome.balance[q] \in Nat
  BY BalanceAssumption DEF Vars, Outcome
<1>9. DepositFrom(q, v, l) \in Nat /\ Paid(Alice(v), v) \in Nat
  BY TypeIs, PathIs, DepositAssumption DEF DepositFrom
<1>10. ExpectedGuarantee(v, l) # NoGuarantee  BY ExpectedProposals
<1>11. t.outcome.balance[q] = s.outcome.balance[q] - f[v] + e[v]
  <2>1. CASE IsAdded(l, v, s, t) /\ ~ HasAsked(v)
    <3>1. f[v] = 0  BY <1>1, <2>1 DEF IsAdded, Net
    <3>2. IncludesTarget(t, v)
      BY <1>10, <2>1 DEF IsAdded, IncludesTarget, Includes
    <3>3. e[v] = - DepositFrom(q, v, l)  BY <1>2, <3>2 DEF Net
    <3>4. t.outcome.balance[q] = s.outcome.balance[q] - DepositFrom(q, v, l)
      BY <2>1 DEF IsAdded
    <3>5. QED  BY <1>8, <1>9, <3>1, <3>3, <3>4
  <2>2. CASE IsRemoved(l, v, s, t) /\ HasAsked(v) /\ Includes(s, v, ExpectedGuarantee(v, l))
    <3>1. PICK net : net = IF q = LeftParty(v, l) THEN - Paid(Alice(v), v)
                                                  ELSE Paid(Alice(v), v)
      OBVIOUS
    <3>2. f[v] = - DepositFrom(q, v, l)  BY <1>1, <2>2 DEF IsRemoved, Net
    <3>3. e[v] = net  BY <1>2, <2>2, <3>1 DEF IsRemoved, Net
    <3>4. t.outcome.balance[q] = s.outcome.balance[q] + DepositFrom(q, v, l) + net
      BY <2>2, <3>1 DEF IsRemoved
    <3>5. net \in Int  BY <1>9, <3>1
    <3>6. QED  BY <1>8, <1>9, <3>2, <3>3, <3>4, <3>5
  <2>3. QED  BY <2>1, <2>2
<1>12. f[v] \in Int /\ e[v] \in Int  BY <1>3
<1>13. t.outcome.balance[q] = InitialBalance[l][q] + SumFunction(e)
  BY <1>5, <1>6, <1>7, <1>8, <1>11, <1>12
<1>14. QED  BY <1>2, <1>13

\* What the books say of the states of a ledger that are signed, of those from the
\* leader's consensus on, and of those the follower has accepted.
AreBooks(l, states, later, accepted) ==
  /\ \A s \in states, v \in Targets : IncludesTarget(s, v) =>
       l \in Hops(v) /\ Includes(s, v, ExpectedGuarantee(v, l))
  /\ \A s, t \in later, v \in Targets :
       s.turnNum <= t.turnNum /\ IncludesTarget(s, v) /\ ~ HasAsked(v) => IncludesTarget(t, v)
  /\ \A s, t \in later, v \in Targets :
       /\ s.turnNum <= t.turnNum /\ IncludesTarget(t, v) /\ HasAsked(v)
       /\ Ends[l][Leader] = Bob(v) => t \in accepted
       => IncludesTarget(s, v)
  /\ \A s \in accepted : IsBalanced(l, s)

\* Nobody asks to close a channel, and Alice pays no more for those that she has
\* asked to close.
AskedSame ==
  /\ asked' = asked
  /\ \A v \in Targets : HasAsked(v) => Paid(Alice(v), v)' = Paid(Alice(v), v)

\* The books of a ledger, now and after such a step.
LEMMA BooksAre ==
  ASSUME NEW l
  PROVE  /\ LedgerBooks(l) <=>
              /\ ledger[l][Leader].current.turnNum <= ledger[l][Follower].current.turnNum
              /\ AreBooks(l, signed[l], Later(l), Accepted(l))
         /\ AskedSame =>
              (LedgerBooks(l)' <=>
                 /\ ledger'[l][Leader].current.turnNum
                      <= ledger'[l][Follower].current.turnNum
                 /\ AreBooks(l, signed'[l], Later(l)', Accepted(l)'))
<1>1. LedgerBooks(l) <=>
        /\ ledger[l][Leader].current.turnNum <= ledger[l][Follower].current.turnNum
        /\ AreBooks(l, signed[l], Later(l), Accepted(l))
  BY DEF LedgerBooks, AreBooks, IsExpected, IsLasting, IsFinished
<1>2. ASSUME AskedSame
      PROVE  LedgerBooks(l)' <=>
               /\ ledger'[l][Leader].current.turnNum
                    <= ledger'[l][Follower].current.turnNum
               /\ AreBooks(l, signed'[l], Later(l)', Accepted(l)')
  <2>1. \A v : HasAsked(v)' <=> HasAsked(v)  BY <1>2 DEF AskedSame, HasAsked
  <2>2. \A q, s : \A v \in Targets : Net(l, q, v, s)' = Net(l, q, v, s)
    BY <1>2, <2>1 DEF AskedSame, Net
  <2>3. ASSUME NEW s PROVE IsBalanced(l, s)' <=> IsBalanced(l, s)
    <3>1. \A q : [v \in Targets |-> Net(l, q, v, s)'] = [v \in Targets |-> Net(l, q, v, s)]
      BY <2>2
    <3>2. QED  BY <3>1 DEF IsBalanced
  <2>4. PICK later, accepted : later = Later(l)' /\ accepted = Accepted(l)'
    OBVIOUS
  <2>5. /\ IsExpected(l)' <=>
             \A s \in signed'[l], v \in Targets : IncludesTarget(s, v) =>
               l \in Hops(v) /\ Includes(s, v, ExpectedGuarantee(v, l))
        /\ IsLasting(l)' <=>
             \A s, t \in later, v \in Targets :
               s.turnNum <= t.turnNum /\ IncludesTarget(s, v) /\ ~ HasAsked(v)
                 => IncludesTarget(t, v)
        /\ IsFinished(l)' <=>
             \A s, t \in later, v \in Targets :
               /\ s.turnNum <= t.turnNum /\ IncludesTarget(t, v) /\ HasAsked(v)
               /\ Ends[l][Leader] = Bob(v) => t \in accepted
               => IncludesTarget(s, v)
    BY <2>1, <2>4 DEF IsExpected, IsLasting, IsFinished
  <2>6. (\A s \in Accepted(l) : IsBalanced(l, s))' <=> \A s \in accepted : IsBalanced(l, s)
    BY <2>3, <2>4
  <2>7. QED  BY <2>4, <2>5, <2>6 DEF LedgerBooks, AreBooks
<1>3. QED  BY <1>1, <1>2

\* The guarantees after a proposal.
LEMMA ChangedIncludes ==
  ASSUME NEW n, NEW l \in Ledgers, NEW v \in Targets, l \in Hops(v), NEW s, NEW t,
         Changes(n, l, v, s, t), NEW u \in Targets
  PROVE  /\ u # v => /\ IncludesTarget(t, u) <=> IncludesTarget(s, u)
                     /\ \A g : Includes(t, u, g) <=> Includes(s, u, g)
         /\ IsAdded(l, v, s, t) => IncludesTarget(t, v) /\ ~ IncludesTarget(s, v)
         /\ IsRemoved(l, v, s, t) => IncludesTarget(s, v) /\ ~ IncludesTarget(t, v)
<1>1. ExpectedGuarantee(v, l) # NoGuarantee  BY ExpectedProposals
<1>2. QED  BY <1>1 DEF Changes, IsAdded, IsRemoved, IncludesTarget, Includes

\* The leader signs one more state.
LEMMA OfferBooks ==
  ASSUME NEW l \in Ledgers, NEW states \in SUBSET Vars, NEW later \in SUBSET states,
         NEW accepted \in SUBSET later, AreBooks(l, states, later, accepted),
         NEW last \in later, \A s \in states : s.turnNum <= last.turnNum,
         NEW new \in Vars, new.turnNum = last.turnNum + 1,
         NEW v \in Targets, l \in Hops(v), Changes(Ends[l][Leader], l, v, last, new)
  PROVE  AreBooks(l, states \cup {new}, later \cup {new}, accepted)
<1>1. \A s \in states \cup {new} : s.turnNum \in Nat  BY DEF Vars
<1>2. \A s \in states : /\ ~ new.turnNum <= s.turnNum
                        /\ s.turnNum <= last.turnNum
  BY <1>1
<1>3. new \notin states  BY <1>1, <1>2
<1>4. ASSUME NEW s \in states \cup {new}, NEW u \in Targets, IncludesTarget(s, u)
      PROVE  l \in Hops(u) /\ Includes(s, u, ExpectedGuarantee(u, l))
  <2>1. CASE s \in states  BY <1>4, <2>1 DEF AreBooks
  <2>2. CASE s = new /\ u = v
    <3>1. IsAdded(l, v, last, new)  BY <1>4, <2>2, ChangedIncludes DEF Changes
    <3>2. QED  BY <2>2, <3>1 DEF IsAdded
  <2>3. CASE s = new /\ u # v
    <3>1. IncludesTarget(last, u)  BY <1>4, <2>3, ChangedIncludes
    <3>2. l \in Hops(u) /\ Includes(last, u, ExpectedGuarantee(u, l))
      BY <3>1 DEF AreBooks
    <3>3. QED  BY <2>3, <3>2, ChangedIncludes
  <2>4. QED  BY <2>1, <2>2, <2>3
<1>5. ASSUME NEW s \in later \cup {new}, NEW t \in later \cup {new}, NEW u \in Targets,
             s.turnNum <= t.turnNum, IncludesTarget(s, u), ~ HasAsked(u)
      PROVE  IncludesTarget(t, u)
  <2>1. CASE s \in later /\ t \in later  BY <1>5, <2>1 DEF AreBooks
  <2>2. CASE s = new
    <3>1. t = new  BY <1>2, <1>5, <2>2
    <3>2. QED  BY <1>5, <2>2, <3>1
  <2>3. CASE s \in later /\ t = new
    <3>1. IncludesTarget(last, u)  BY <1>2, <1>5, <2>3 DEF AreBooks
    <3>2. ~ (u = v /\ IsRemoved(l, v, last, new))
      BY <1>5, <3>1, ChangedIncludes DEF Changes
    <3>3. QED  BY <2>3, <3>1, <3>2, ChangedIncludes DEF Changes
  <2>4. QED  BY <2>1, <2>2, <2>3
<1>6. ASSUME NEW s \in later \cup {new}, NEW t \in later \cup {new}, NEW u \in Targets,
             s.turnNum <= t.turnNum, IncludesTarget(t, u), HasAsked(u),
             Ends[l][Leader] = Bob(u) => t \in accepted
      PROVE  IncludesTarget(s, u)
  <2>1. CASE s \in later /\ t \in later  BY <1>6, <2>1 DEF AreBooks
  <2>2. CASE s = new
    <3>1. t = new  BY <1>2, <1>6, <2>2
    <3>2. QED  BY <1>6, <2>2, <3>1
  <2>3. CASE s \in later /\ t = new
    <3>1. Ends[l][Leader] # Bob(u)  BY <1>3, <1>6, <2>3
    <3>2. u # v  BY <1>6, <2>3, <3>1, ChangedIncludes DEF Changes
    <3>3. IncludesTarget(last, u)  BY <1>6, <2>3, <3>2, ChangedIncludes
    <3>4. QED  BY <1>2, <1>6, <2>3, <3>1, <3>3 DEF AreBooks
  <2>4. QED  BY <2>1, <2>2, <2>3
<1>7. \A s \in accepted : IsBalanced(l, s)  BY DEF AreBooks
<1>8. QED  BY <1>4, <1>5, <1>6, <1>7 DEF AreBooks

\* The follower accepts the next state.
LEMMA AcceptBooks ==
  ASSUME TypeOK, IsFiniteSet(Targets),
         NEW l \in Ledgers, NEW states \in SUBSET Vars, NEW later \in SUBSET states,
         NEW accepted \in SUBSET later, AreBooks(l, states, later, accepted),
         \A s, t \in states : s.turnNum = t.turnNum => s = t,
         NEW last \in accepted, NEW new \in later, new.turnNum = last.turnNum + 1,
         NEW v \in Targets, l \in Hops(v), Changes(Ends[l][Follower], l, v, last, new)
  PROVE  AreBooks(l, states, later, accepted \cup {new})
<1>1. \A s \in states : s.turnNum \in Nat  BY DEF Vars
<1>2. Ends[l][Leader] # Ends[l][Follower]  BY EndsAssumption
<1>3. ASSUME NEW s \in later, NEW t \in later, NEW u \in Targets,
             s.turnNum <= t.turnNum, IncludesTarget(t, u), HasAsked(u),
             Ends[l][Leader] = Bob(u) => t \in accepted \cup {new}
      PROVE  IncludesTarget(s, u)
  <2>1. CASE Ends[l][Leader] # Bob(u) \/ t \in accepted
    BY <1>3, <2>1 DEF AreBooks
  <2>2. CASE Ends[l][Leader] = Bob(u) /\ t = new
    <3>1. u # v  BY <1>2, <1>3, <2>2, ChangedIncludes DEF Changes
    <3>2. IncludesTarget(last, u)  BY <1>3, <2>2, <3>1, ChangedIncludes
    <3>3. CASE s.turnNum = new.turnNum  BY <1>3, <2>2, <3>3
    <3>4. CASE s.turnNum # new.turnNum
      <4>1. s.turnNum <= last.turnNum  BY <1>1, <1>3, <2>2, <3>4
      <4>2. QED  BY <1>3, <3>2, <4>1 DEF AreBooks
    <3>5. QED  BY <3>3, <3>4
  <2>3. QED  BY <1>3, <2>1, <2>2
<1>4. IsBalanced(l, new)
  <2>1. IsBalanced(l, last)  BY DEF AreBooks
  <2>2. CASE IsAdded(l, v, last, new) /\ (HasAsked(v) => Ends[l][Follower] = Bob(v))
    <3>1. ~ HasAsked(v)
      <4>1. SUFFICES ASSUME HasAsked(v) PROVE FALSE  OBVIOUS
      <4>2. Ends[l][Leader] # Bob(v)  BY <1>2, <2>2, <4>1
      <4>3. IncludesTarget(new, v) /\ ~ IncludesTarget(last, v)
        BY <2>2, ChangedIncludes
      <4>4. last.turnNum <= new.turnNum  BY <1>1
      <4>5. QED  BY <4>1, <4>2, <4>3, <4>4 DEF AreBooks
    <3>2. QED  BY <2>1, <2>2, <3>1, ChangeBalances DEF Changes
  <2>3. CASE IsRemoved(l, v, last, new) /\ HasAsked(v)
    <3>1. Includes(last, v, ExpectedGuarantee(v, l))
      BY <2>3 DEF IsRemoved, AreBooks
    <3>2. QED  BY <2>1, <2>3, <3>1, ChangeBalances DEF Changes
  <2>4. QED  BY <2>2, <2>3 DEF Changes
<1>5. QED  BY <1>3, <1>4 DEF AreBooks

\* Fewer states have their books right, too.
LEMMA FewerBooks ==
  ASSUME NEW l, NEW states, NEW later, NEW accepted, AreBooks(l, states, later, accepted),
         NEW L \in SUBSET later, NEW A \in SUBSET accepted
  PROVE  AreBooks(l, states, L, A)
BY DEF AreBooks

\* What the leader does.
LEMMA LeaderBooks ==
  ASSUME TypeOK, TypeOK', HistoryInv, NEW l \in Ledgers, LedgerBooks(l), AskedSame,
         LeaderMove(l, ledger'[l][Leader], Makes(l)[Ends[l][Leader]]),
         ledger'[l][Follower] = ledger[l][Follower],
         signed'[l] = signed[l] \cup {Latest(ledger'[l][Leader])}
  PROVE  LedgerBooks(l)'
<1>1. PICK n \in Nodes : n = Ends[l][Leader]  BY EndsAssumption, TwoParties
<1>2. PICK a \in Copy, b \in Copy, d \in Copy :
        a = ledger[l][Leader] /\ b = ledger[l][Follower] /\ d = ledger'[l][Leader]
  BY TwoParties DEF TypeOK
<1>3. PICK states \in SUBSET Vars : states = signed[l]  BY DEF TypeOK
<1>4. PICK S \in SUBSET Proposal : S = {p \in Proposal : MayMake(n, l, p)}
  OBVIOUS
<1>5. LeaderMove(l, d, S) /\ IsHistory(l) /\ IsPiece(l, a) /\ IsPiece(l, b)
  BY <1>1, <1>2, <1>4, TwoParties DEF Makes, HistoryInv
<1>6. /\ a.current \in states /\ b.current \in states /\ Latest(a) \in states
      /\ Latest(a).turnNum = a.current.turnNum + Len(a.queue) /\ Len(a.queue) \in Nat
  BY <1>2, <1>3, <1>5, PieceIs
<1>7. \A s \in states : s.turnNum \in Nat /\ s.turnNum <= Latest(a).turnNum
  BY <1>2, <1>3, <1>5 DEF Vars, IsHistory
<1>8. a.current.turnNum \in Nat /\ b.current.turnNum \in Nat /\ d.current.turnNum \in Nat
  BY CopyIs DEF Vars
<1>9. PICK new : new = Latest(d)  OBVIOUS
<1>10. signed'[l] = states \cup {new} /\ new \in Vars
  <2>1. signed'[l] = states \cup {new}  BY <1>2, <1>3, <1>9
  <2>2. signed'[l] \subseteq Vars  BY DEF TypeOK
  <2>3. QED  BY <2>1, <2>2
<1>11. /\ \/ /\ new \in states
             /\ \/ d.current = a.current
                \/ /\ a.current.turnNum < d.current.turnNum
                   /\ d.current.turnNum <= b.current.turnNum
          \/ /\ d.current = a.current
             /\ new.turnNum = Latest(a).turnNum + 1
             /\ \E p \in S : /\ CanHandleProposal(Latest(a), p)
                             /\ new = HandleProposal(Latest(a), p)
  BY <1>2, <1>3, <1>5, <1>9, LeaderMoveIs
<1>12. PICK later, accepted : later = Later(l) /\ accepted = Accepted(l)
  OBVIOUS
<1>13. /\ later = {s \in states : a.current.turnNum <= s.turnNum}
       /\ accepted = {s \in later : s.turnNum <= b.current.turnNum}
       /\ a.current.turnNum <= b.current.turnNum
       /\ AreBooks(l, states, later, accepted)
  BY <1>2, <1>3, <1>12, BooksAre DEF Later, Accepted
<1>14. PICK L, A : L = Later(l)' /\ A = Accepted(l)'  OBVIOUS
<1>15. /\ L = {s \in states \cup {new} : d.current.turnNum <= s.turnNum}
       /\ A = {s \in L : s.turnNum <= b.current.turnNum}
  BY <1>2, <1>10, <1>14 DEF Later, Accepted
<1>16. CASE /\ new \in states
            /\ \/ d.current = a.current
               \/ /\ a.current.turnNum < d.current.turnNum
                  /\ d.current.turnNum <= b.current.turnNum
  <2>1. states \cup {new} = states  BY <1>16
  <2>2. L \in SUBSET later /\ A \in SUBSET accepted
    BY <1>7, <1>8, <1>13, <1>15, <1>16, <2>1
  <2>3. AreBooks(l, states, L, A)  BY <1>13, <2>2, FewerBooks
  <2>4. d.current.turnNum <= b.current.turnNum  BY <1>13, <1>16
  <2>5. QED  BY <1>2, <1>10, <1>14, <2>1, <2>3, <2>4, BooksAre
<1>17. CASE /\ d.current = a.current
            /\ new.turnNum = Latest(a).turnNum + 1
            /\ \E p \in S : /\ CanHandleProposal(Latest(a), p)
                            /\ new = HandleProposal(Latest(a), p)
  <2>1. PICK last \in states : last = Latest(a)  BY <1>6
  <2>2. PICK p \in S : CanHandleProposal(last, p) /\ new = HandleProposal(last, p)
    BY <1>17, <2>1
  <2>3. last \in Vars /\ p \in Proposal /\ MayMake(n, l, p)  BY <1>4, <2>2
  <2>4. PICK v \in Targets : l \in Hops(v) /\ Changes(n, l, v, last, new)
    BY <2>2, <2>3, MadeChanges
  <2>5. a.current.turnNum <= last.turnNum /\ new.turnNum = last.turnNum + 1
    BY <1>6, <1>8, <1>17, <2>1
  <2>6. L = later \cup {new} /\ A = accepted
    BY <1>6, <1>7, <1>8, <1>13, <1>15, <1>17, <2>1, <2>5
  <2>7. last \in later  BY <1>13, <2>5
  <2>8. later \in SUBSET states /\ accepted \in SUBSET later  BY <1>13
  <2>9. \A s \in states : s.turnNum <= last.turnNum  BY <1>7, <2>1
  <2>10. AreBooks(l, states \cup {new}, L, A)
    BY <1>1, <1>10, <1>13, <2>4, <2>5, <2>6, <2>7, <2>8, <2>9, OfferBooks
  <2>11. d.current.turnNum <= b.current.turnNum  BY <1>13, <1>17
  <2>12. QED  BY <1>2, <1>10, <1>14, <2>10, <2>11, BooksAre
<1>18. QED  BY <1>11, <1>16, <1>17

\* What the follower does.
LEMMA FollowerBooks ==
  ASSUME TypeOK, TypeOK', IsFiniteSet(Targets), HistoryInv, NEW l \in Ledgers,
         LedgerBooks(l), AskedSame,
         FollowerMove(l, ledger'[l][Follower], Makes(l)[Ends[l][Follower]]),
         ledger'[l][Leader] = ledger[l][Leader], signed'[l] = signed[l]
  PROVE  LedgerBooks(l)'
<1>1. PICK n \in Nodes : n = Ends[l][Follower]  BY EndsAssumption, TwoParties
<1>2. PICK a \in Copy, b \in Copy, d \in Copy :
        a = ledger[l][Leader] /\ b = ledger[l][Follower] /\ d = ledger'[l][Follower]
  BY TwoParties DEF TypeOK
<1>3. PICK states \in SUBSET Vars : states = signed[l]  BY DEF TypeOK
<1>4. PICK S \in SUBSET Proposal : S = {p \in Proposal : MayMake(n, l, p)}
  OBVIOUS
<1>5. FollowerMove(l, d, S) /\ IsHistory(l) /\ IsPiece(l, b)
  BY <1>1, <1>2, <1>4, TwoParties DEF Makes, HistoryInv
<1>6. b.current \in states /\ \A s, t \in states : s.turnNum = t.turnNum => s = t
  BY <1>2, <1>3, <1>5, PieceIs DEF IsHistory
<1>7. \A s \in states : s.turnNum \in Nat  BY DEF Vars
<1>8. a.current.turnNum \in Nat /\ b.current.turnNum \in Nat  BY CopyIs DEF Vars
<1>9. \/ d.current = b.current
      \/ /\ d.current \in states
         /\ d.current.turnNum = b.current.turnNum + 1
         /\ \E p \in S : /\ CanHandleProposal(b.current, p)
                         /\ d.current = HandleProposal(b.current, p)
  BY <1>2, <1>3, <1>5, FollowerMoveIs
<1>10. PICK later, accepted : later = Later(l) /\ accepted = Accepted(l)
  OBVIOUS
<1>11. /\ later = {s \in states : a.current.turnNum <= s.turnNum}
       /\ accepted = {s \in later : s.turnNum <= b.current.turnNum}
       /\ a.current.turnNum <= b.current.turnNum
       /\ AreBooks(l, states, later, accepted)
  BY <1>2, <1>3, <1>10, BooksAre DEF Later, Accepted
<1>12. PICK L, A : L = Later(l)' /\ A = Accepted(l)'  OBVIOUS
<1>13. /\ L = later
       /\ A = {s \in later : s.turnNum <= d.current.turnNum}
  BY <1>2, <1>3, <1>11, <1>12 DEF Later, Accepted
<1>14. CASE d.current = b.current
  <2>1. A = accepted  BY <1>11, <1>13, <1>14
  <2>2. QED  BY <1>2, <1>3, <1>11, <1>12, <1>13, <1>14, <2>1, BooksAre
<1>15. CASE /\ d.current \in states
            /\ d.current.turnNum = b.current.turnNum + 1
            /\ \E p \in S : /\ CanHandleProposal(b.current, p)
                            /\ d.current = HandleProposal(b.current, p)
  <2>1. PICK last \in states, new \in states : last = b.current /\ new = d.current
    BY <1>6, <1>15
  <2>2. PICK p \in S : CanHandleProposal(last, p) /\ new = HandleProposal(last, p)
    BY <1>15, <2>1
  <2>3. last \in Vars /\ p \in Proposal /\ MayMake(n, l, p)  BY <1>4, <2>2
  <2>4. PICK v \in Targets : l \in Hops(v) /\ Changes(n, l, v, last, new)
    BY <2>2, <2>3, MadeChanges
  <2>5. new.turnNum = last.turnNum + 1  BY <1>15, <2>1
  <2>6. last \in accepted /\ new \in later  BY <1>7, <1>8, <1>11, <2>1, <2>5
  <2>7. A = accepted \cup {new}
    <3>1. ASSUME NEW s \in later PROVE s \in A <=> s \in accepted \/ s = new
      <4>1. s.turnNum <= new.turnNum <=> s.turnNum <= last.turnNum \/ s.turnNum = new.turnNum
        BY <1>7, <1>11, <2>5
      <4>2. s.turnNum = new.turnNum => s = new  BY <1>6, <1>11
      <4>3. QED  BY <1>11, <1>13, <2>1, <4>1, <4>2
    <3>2. A \subseteq later /\ accepted \subseteq later /\ new \in later
      BY <1>11, <1>13, <2>6
    <3>3. QED  BY <3>1, <3>2
  <2>8. later \in SUBSET states /\ accepted \in SUBSET later  BY <1>11
  <2>9. AreBooks(l, states, later, accepted \cup {new})
    BY <1>1, <1>6, <1>11, <2>4, <2>5, <2>6, <2>8, AcceptBooks
  <2>10. a.current.turnNum <= d.current.turnNum  BY <1>8, <1>11, <1>15
  <2>11. QED  BY <1>2, <1>3, <1>12, <1>13, <2>7, <2>9, <2>10, BooksAre
<1>16. QED  BY <1>9, <1>14, <1>15

\* Every such step of a ledger keeps its books.
LEMMA LedgerBooksKeep ==
  ASSUME TypeOK, TypeOK', IsFiniteSet(Targets), HistoryInv, NEW l \in Ledgers,
         LedgerBooks(l), AskedSame, LedgerStep(l, Makes(l))
  PROVE  LedgerBooks(l)'
<1>1. CASE ledger'[l] = ledger[l] /\ signed'[l] = signed[l]
  <2>1. Later(l)' = Later(l) /\ Accepted(l)' = Accepted(l)
    BY <1>1 DEF Later, Accepted
  <2>2. QED  BY <1>1, <2>1, BooksAre
<1>2. QED  BY <1>1, LeaderBooks, FollowerBooks DEF LedgerStep

-----------------------------------------------------------------------------
(***************************************************************************)
(* What the stores say of the postfund round, and the ledgers make of what *)
(* the objectives offer.                                                   *)
(***************************************************************************)

\* The postfund states an objective in memory has are those of nodes that have
\* signed them; it funds its channel still if the stored one does.
Told(n, k, v, o) ==
  /\ \A p \in o.channel.postfund : IsPostfunded(p, v)
  /\ k = "fund" /\ o.status \notin {"completed", "rejected"} =>
       objective[n]["fund"][v].status \notin {"completed", "rejected"}
  /\ k = "fund" /\ o.status = "completed" /\ n = Alice(v) => IsPostfundedByAll(v)

\* What it may say when it is saved: then the node has signed its own, and is
\* done with funding if it is an intermediary.
Tells(n, k, v, o) ==
  /\ \A p \in o.channel.postfund :
       IsPostfunded(p, v) \/ /\ p = n /\ k = "fund"
                             /\ IsIntermediary(n, v) => o.status = "completed"
  /\ k = "fund" /\ o.status \notin {"completed", "rejected"} =>
       objective[n]["fund"][v].status \notin {"completed", "rejected"}
  /\ k = "fund" /\ o.status = "completed" /\ n = Alice(v) =>
       IsPostfundedByAll(v) \/ Participants(v) \subseteq o.channel.postfund

\* Alice asks to close only what is funded.
AskedFunded == \A v \in Targets : HasAsked(v)' => HasAsked(v) \/ HasFunded(Alice(v), v)

\* Nobody takes up funding again.
FundedStay ==
  \A n \in Nodes, v \in Targets :
    objective[n]["fund"][v].status \in {"completed", "rejected"} =>
      objective'[n]["fund"][v].status \in {"completed", "rejected"}

\* Who has signed the postfund state has signed it after the step.
LEMMA PostfundedStays ==
  ASSUME ChannelsGrow, FundedStay, NEW v \in Targets
  PROVE  /\ \A p \in Nodes : IsPostfunded(p, v) => IsPostfunded(p, v)'
         /\ IsPostfundedByAll(v) => IsPostfundedByAll(v)'
<1>1. ASSUME NEW p \in Nodes, IsPostfunded(p, v) PROVE IsPostfunded(p, v)'
  <2>1. Has(p, v)' /\ Grows(channel[p][v], channel'[p][v])
    BY <1>1 DEF ChannelsGrow, IsPostfunded
  <2>2. IsIntermediary(p, v)' <=> IsIntermediary(p, v)  BY DEF IsIntermediary
  <2>3. QED  BY <1>1, <2>1, <2>2 DEF IsPostfunded, FundedStay, Grows
<1>2. ASSUME IsPostfundedByAll(v) PROVE IsPostfundedByAll(v)'
  <2>1. PICK n \in Nodes : n = Alice(v)  BY PathIs
  <2>2. Has(n, v) /\ Participants(v) \subseteq channel[n][v].postfund
    BY <1>2, <2>1 DEF IsPostfundedByAll
  <2>3. Has(n, v)' /\ Grows(channel[n][v], channel'[n][v])
    BY <2>2 DEF ChannelsGrow
  <2>4. QED  BY <2>1, <2>2, <2>3 DEF IsPostfundedByAll, Grows
<1>3. QED  BY <1>1, <1>2

\* The parts of the invariant, from what a step adds.
LEMMA PostfundAssembled ==
  ASSUME TypeOK, TypeOK', PostfundInv, ChannelsGrow, FundedStay, AskedFunded,
         \A n \in Nodes, v \in Targets : Has(n, v)' =>
           \A p \in channel'[n][v].postfund : IsPostfunded(p, v) \/ IsPostfunded(p, v)',
         \A v \in Targets :
           HasFunded(Alice(v), v)' => HasFunded(Alice(v), v) \/ IsPostfundedByAll(v)',
         NEW messages, network' \subseteq network \cup messages,
         \A m \in messages : m.type = "postfund" => IsPostfunded(m.from, m.v)'
  PROVE  PostfundInv'
<1>1. ASSUME NEW n \in Nodes, NEW v \in Targets, Has(n, v)', NEW p \in channel'[n][v].postfund
      PROVE  IsPostfunded(p, v)'
  <2>1. p \in Nodes  BY <1>1 DEF TypeOK, Has, Channel
  <2>2. IsPostfunded(p, v) \/ IsPostfunded(p, v)'  BY <1>1
  <2>3. QED  BY <2>1, <2>2, PostfundedStays
<1>2. ASSUME NEW m \in network', m.type = "postfund" PROVE IsPostfunded(m.from, m.v)'
  <2>1. CASE m \in messages  BY <1>2, <2>1
  <2>2. CASE m \in network
    <3>1. m \in Payloads  BY <1>2, <2>2 DEF TypeOK, Rejections, Proposals
    <3>2. PICK p \in Nodes, v \in Targets : p = m.from /\ v = m.v
      BY <3>1 DEF Payloads
    <3>3. IsPostfunded(p, v)  BY <1>2, <2>2, <3>2 DEF PostfundInv
    <3>4. IsPostfunded(p, v)'  BY <3>3, PostfundedStays
    <3>5. QED  BY <3>2, <3>4
  <2>3. QED  BY <2>1, <2>2
<1>3. ASSUME NEW v \in Targets, HasFunded(Alice(v), v)' PROVE IsPostfundedByAll(v)'
  <2>1. HasFunded(Alice(v), v) => IsPostfundedByAll(v)  BY DEF PostfundInv
  <2>2. QED  BY <1>3, <2>1, PostfundedStays
<1>4. ASSUME NEW v \in Targets, HasAsked(v)'
      PROVE  /\ IsPostfundedByAll(v)'
             /\ objective'[Alice(v)]["fund"][v].status \in {"completed", "rejected"}
  <2>1. HasAsked(v) \/ HasFunded(Alice(v), v)  BY <1>4 DEF AskedFunded
  <2>2. IsPostfundedByAll(v)  BY <2>1 DEF PostfundInv
  <2>3. objective[Alice(v)]["fund"][v].status \in {"completed", "rejected"}
    BY <2>1 DEF PostfundInv, HasFunded
  <2>4. Alice(v) \in Nodes  BY PathIs
  <2>5. QED  BY <2>2, <2>3, <2>4, PostfundedStays DEF FundedStay
<1>5. QED  BY <1>1, <1>2, <1>3, <1>4 DEF PostfundInv

\* A step that changes neither objectives nor channels.
LEMMA SameTells ==
  ASSUME TypeOK, TypeOK', PostfundInv, AskedFunded, objective' = objective, channel' = channel,
         NEW messages, network' \subseteq network \cup messages,
         \A m \in messages : m.type # "postfund"
  PROVE  PostfundInv'
<1>1. ChannelsGrow  BY DEF ChannelsGrow, Has, Grows
<1>2. FundedStay  BY DEF FundedStay
<1>3. ASSUME NEW n \in Nodes, NEW v \in Targets, Has(n, v)', NEW p \in channel'[n][v].postfund
      PROVE  IsPostfunded(p, v)
  BY <1>3 DEF PostfundInv, Has
<1>4. \A v \in Targets : HasFunded(Alice(v), v)' => HasFunded(Alice(v), v)
  BY DEF HasFunded
<1>5. QED  BY <1>1, <1>2, <1>3, <1>4, PostfundAssembled

\* A step that saves an objective.
LEMMA SavedTells ==
  ASSUME TypeOK, TypeOK', PostfundInv, AskedFunded,
         NEW n \in Nodes, NEW k \in Kinds, NEW v \in Targets, NEW o \in Memory,
         Has(n, v) => Grows(channel[n][v], o.channel), Tells(n, k, v, o), Save(n, k, v, o),
         NEW messages, network' \subseteq network \cup messages,
         \A m \in messages : m.type = "postfund" =>
           m.v = v /\ m.from = n /\ n \in o.channel.postfund
  PROVE  PostfundInv'
<1>1. /\ \A m \in Nodes, j \in Kinds, u \in Targets :
           IF m = n /\ j = k /\ u = v
             THEN objective'[m][j][u].status = o.status
             ELSE objective'[m][j][u] = objective[m][j][u]
      /\ \A m \in Nodes, u \in Targets :
           channel'[m][u] = IF m = n /\ u = v THEN o.channel ELSE channel[m][u]
      /\ Has(n, v)'
  BY SaveChanges
<1>2. "fund" \in Kinds  BY KindsAssumption
<1>3. ChannelsGrow  BY SaveGrows
<1>4. FundedStay
  <2>1. ASSUME NEW m \in Nodes, NEW u \in Targets,
               objective[m]["fund"][u].status \in {"completed", "rejected"}
        PROVE  objective'[m]["fund"][u].status \in {"completed", "rejected"}
    <3>1. CASE m = n /\ k = "fund" /\ u = v  BY <1>1, <1>2, <2>1, <3>1 DEF Tells
    <3>2. CASE ~ (m = n /\ k = "fund" /\ u = v)  BY <1>1, <1>2, <2>1, <3>2
    <3>3. QED  BY <3>1, <3>2
  <2>2. QED  BY <2>1 DEF FundedStay
<1>5. ASSUME NEW m \in Nodes, NEW u \in Targets, Has(m, u)', NEW p \in channel'[m][u].postfund
      PROVE  IsPostfunded(p, u) \/ IsPostfunded(p, u)'
  <2>1. CASE m = n /\ u = v
    <3>1. p \in o.channel.postfund  BY <1>1, <1>5, <2>1
    <3>2. CASE IsPostfunded(p, v)  BY <2>1, <3>2
    <3>3. CASE /\ p = n /\ k = "fund"
               /\ IsIntermediary(n, v) => o.status = "completed"
      <4>1. objective'[n]["fund"][v].status = o.status  BY <1>1, <1>2, <3>3
      <4>2. n \in channel'[n][v].postfund /\ Has(n, v)'  BY <1>1, <3>1, <3>3
      <4>3. IsIntermediary(n, v)' <=> IsIntermediary(n, v)
        BY DEF IsIntermediary
      <4>4. IsPostfunded(n, v)'  BY <3>3, <4>1, <4>2, <4>3 DEF IsPostfunded
      <4>5. QED  BY <2>1, <3>3, <4>4
    <3>4. QED  BY <3>1, <3>2, <3>3 DEF Tells
  <2>2. CASE ~ (m = n /\ u = v)
    <3>1. Has(m, u) /\ p \in channel[m][u].postfund  BY <1>1, <1>5, <2>2 DEF Has
    <3>2. QED  BY <3>1 DEF PostfundInv
  <2>3. QED  BY <2>1, <2>2
<1>6. ASSUME NEW u \in Targets, HasFunded(Alice(u), u)'
      PROVE  HasFunded(Alice(u), u) \/ IsPostfundedByAll(u)'
  <2>1. PICK a \in Nodes : a = Alice(u)  BY PathIs
  <2>2. objective'[a]["fund"][u].status = "completed"
    BY <1>6, <2>1 DEF HasFunded
  <2>3. CASE a = n /\ k = "fund" /\ u = v
    <3>1. o.status = "completed" /\ n = Alice(v)
      BY <1>1, <1>2, <2>1, <2>2, <2>3
    <3>2. IsPostfundedByAll(v) \/ Participants(v) \subseteq o.channel.postfund
      BY <2>3, <3>1 DEF Tells
    <3>3. channel'[n][v] = o.channel /\ Has(n, v)'  BY <1>1
    <3>4. Participants(v) \subseteq o.channel.postfund => IsPostfundedByAll(v)'
      BY <3>1, <3>3 DEF IsPostfundedByAll
    <3>5. IsPostfundedByAll(v) => IsPostfundedByAll(v)'
      BY <1>3, <1>4, PostfundedStays
    <3>6. QED  BY <2>3, <3>2, <3>4, <3>5
  <2>4. CASE ~ (a = n /\ k = "fund" /\ u = v)
    <3>1. objective'[a]["fund"][u] = objective[a]["fund"][u]
      BY <1>1, <1>2, <2>4
    <3>2. QED  BY <2>1, <2>2, <3>1 DEF HasFunded
  <2>5. QED  BY <2>3, <2>4
<1>7. ASSUME NEW m \in messages, m.type = "postfund" PROVE IsPostfunded(m.from, m.v)'
  <2>1. m.v = v /\ m.from = n /\ n \in o.channel.postfund  BY <1>7
  <2>2. Has(n, v)' /\ n \in channel'[n][v].postfund  BY <1>1, <2>1
  <2>3. IsPostfunded(n, v) \/ IsPostfunded(n, v)'  BY <1>5, <2>2
  <2>4. QED  BY <1>3, <1>4, <2>1, <2>3, PostfundedStays
<1>8. QED  BY <1>3, <1>4, <1>5, <1>6, <1>7, PostfundAssembled

\* What the crank of a virtual-fund objective says of the postfund round.
LEMMA FundCrankTells ==
  ASSUME NEW v \in Targets, NEW n \in Nodes, NEW o \in Memory,
         NEW r, r = FundCrank(n, v, o), r.error = "none"
  PROVE  /\ o.status = "approved" /\ r.o.status \in {"approved", "completed"}
         /\ r.o.channel.postfund \subseteq o.channel.postfund \cup {n}
         /\ n \in r.o.channel.postfund \ o.channel.postfund /\ IsIntermediary(n, v) =>
              r.o.status = "completed"
         /\ r.o.status = "completed" =>
              r.o.channel.postfund = Participants(v) \/ IsIntermediary(n, v)
         /\ \A m \in r.messages : m.type = "postfund" =>
              m.v = v /\ m.from = n /\ n \in r.o.channel.postfund
<1> DEFINE prefund  == o.channel.prefund \cup {n}
           results  == [l \in LedgersOf(n, v) |->
                          UpdateLedgerWithGuarantee(n, v, l, o.copies[l])]
           updated  == MergeUpdates(n, v, o.copies, results)
           ready    == PrefundComplete(v, prefund)
           funded   == ready /\ FundingComplete(n, v, updated.copies)
           postfund == IF funded THEN o.channel.postfund \cup {n} ELSE o.channel.postfund
           done     == funded /\ MayFinish(n, v, postfund)
           c        == [o.channel EXCEPT !.prefund = prefund, !.postfund = postfund]
<1>1. \A e : Throw(o, e).error = e  BY DEF Throw
<1>2. /\ o.status = "approved" /\ ~ (ready /\ updated.throws)
      /\ r.o.status = IF done THEN "completed" ELSE "approved"
      /\ r.o.channel = c
      /\ r.messages =
           (IF n \in o.channel.prefund THEN {} ELSE Payload("prefund", n, v, 0))
             \cup (IF ready THEN updated.messages ELSE {})
             \cup (IF postfund = o.channel.postfund THEN {}
                                                    ELSE Payload("postfund", n, v, 0))
  BY <1>1 DEF FundCrank
<1>3. c.postfund = postfund
  <2> HIDE DEF prefund, postfund
  <2>1. o.channel \in Channel  BY MemoryIs
  <2>2. c = [prefund |-> prefund, postfund |-> postfund, final |-> o.channel.final]
    BY <2>1, ChannelIs
  <2>3. QED  BY <2>2
<1>4. ASSUME NEW m \in r.messages, m.type = "postfund"
      PROVE  m.v = v /\ m.from = n /\ n \in postfund
  <2>1. \A type : \A x \in Payload(type, n, v, 0) : x.type = type /\ x.v = v /\ x.from = n
    BY DEF Payload
  <2>2. \A x \in updated.messages : x.type = "proposals"
    <3>1. \A l \in LedgersOf(n, v) :
            \A x \in results[l].messages : x.type = "proposals"
      BY DEF UpdateLedgerWithGuarantee, UpdateLedger, Untouched, ProposeUpdate,
             AcceptUpdate, QueueMessage, CountersignedMessage
    <3>2. updated.messages = UNION {results[l].messages : l \in LedgersOf(n, v)}
      BY DEF MergeUpdates
    <3> HIDE DEF updated, results
    <3>3. QED  BY <3>1, <3>2
  <2> HIDE DEF updated, ready, postfund
  <2>3. m \in Payload("postfund", n, v, 0) /\ postfund # o.channel.postfund
    BY <1>2, <1>4, <2>1, <2>2
  <2>4. n \in postfund  BY <2>3 DEF postfund
  <2>5. QED  BY <2>1, <2>3, <2>4
<1> HIDE DEF prefund, updated, ready, c
<1>5. QED  BY <1>2, <1>3, <1>4 DEF MayFinish

\* What the crank of an objective says of it.
LEMMA CrankTells ==
  ASSUME NEW n \in Nodes, NEW k \in Kinds, NEW v \in Targets,
         NEW o, Ready(n, v, o), o.status # "unknown", Told(n, k, v, o),
         NEW r, r = Crank(n, k, v, o), r.error = "none"
  PROVE  /\ r.o \in Memory /\ Tells(n, k, v, r.o)
         /\ Has(n, v) => Grows(channel[n][v], r.o.channel)
         /\ \A m \in r.messages : m.type = "postfund" =>
              m.v = v /\ m.from = n /\ n \in r.o.channel.postfund
         /\ k = "fund" => objective[n]["fund"][v].status \notin {"completed", "rejected"}
<1>1. o \in Memory /\ LeadsChains(n, o) /\ o.minimum <= Deposit[v].a0
      /\ (o.channel.final # NoFinal => o.channel.final.paid <= Deposit[v].a0)
      /\ (Has(n, v) => Grows(channel[n][v], o.channel))
  BY DEF Ready, Justified, IsSignedFinal
<1>2. IsCrank(n, v, o, r)  BY CrankIs
<1>3. r.o \in Memory /\ Grows(o.channel, r.o.channel)  BY <1>2 DEF IsCrank
<1>4. Has(n, v) => Grows(channel[n][v], r.o.channel)  BY <1>1, <1>3 DEF Grows
<1>5. PICK a, c : a = o.channel /\ c = r.o.channel  OBVIOUS
<1>6. CASE k = "fund"
  <2>1. r = FundCrank(n, v, o)  BY <1>6 DEF Crank
  <2>2. /\ o.status = "approved" /\ r.o.status \in {"approved", "completed"}
        /\ c.postfund \subseteq a.postfund \cup {n}
        /\ n \in c.postfund \ a.postfund /\ IsIntermediary(n, v) => r.o.status = "completed"
        /\ r.o.status = "completed" => c.postfund = Participants(v) \/ IsIntermediary(n, v)
        /\ \A m \in r.messages : m.type = "postfund" =>
             m.v = v /\ m.from = n /\ n \in c.postfund
    BY <1>1, <1>5, <2>1, FundCrankTells
  <2>3. objective[n]["fund"][v].status \notin {"completed", "rejected"}
    BY <1>6, <2>2 DEF Told
  <2>4. \A p \in a.postfund : IsPostfunded(p, v)  BY <1>5 DEF Told
  <2>5. n = Alice(v) => ~ IsIntermediary(n, v)  BY DEF IsIntermediary
  <2>6. Tells(n, k, v, r.o)  BY <1>5, <1>6, <2>2, <2>3, <2>4, <2>5 DEF Tells
  <2>7. QED  BY <1>3, <1>4, <1>5, <2>2, <2>3, <2>6
<1>7. CASE k # "fund"
  <2>1. r = DefundCrank(n, v, o)  BY <1>7 DEF Crank
  <2>2. c.postfund = a.postfund  BY <1>1, <1>5, <2>1, DefundCrankIs
  <2>3. Tells(n, k, v, r.o)  BY <1>5, <1>7, <2>2 DEF Tells, Told
  <2>4. ASSUME NEW m \in r.messages, m.type = "postfund"
        PROVE  m.v = v /\ m.from = n /\ n \in r.o.channel.postfund
    <3>1. SaysOf(n, v, c, m) \/ m \in Proposals  BY <1>2, <1>5 DEF IsCrank
    <3>2. m \notin Proposals  BY <2>4 DEF Proposals
    <3>3. QED  BY <1>5, <2>4, <3>1, <3>2 DEF SaysOf
  <2>5. QED  BY <1>3, <1>4, <1>7, <2>3, <2>4
<1>8. QED  BY <1>6, <1>7

\* Of all that have signed the postfund state only Bob may still be funding.
LEMMA OnlyBobFunds ==
  ASSUME PostfundInv, NEW v \in Targets, HasAsked(v), NEW n \in Participants(v),
         objective[n]["fund"][v].status \notin {"completed", "rejected"}
  PROVE  n = Bob(v)
<1>1. PICK a \in Nodes : a = Alice(v)  BY PathIs
<1>2. /\ Has(a, v) /\ Participants(v) \subseteq channel[a][v].postfund
      /\ objective[a]["fund"][v].status \in {"completed", "rejected"}
  BY <1>1 DEF PostfundInv, IsPostfundedByAll
<1>3. IsPostfunded(n, v)  BY <1>2 DEF PostfundInv
<1>4. ~ IsIntermediary(n, v)  BY <1>3 DEF IsPostfunded
<1>5. n # Alice(v)  BY <1>1, <1>2
<1>6. QED  BY <1>4, <1>5 DEF IsIntermediary

\* The proposals a crank that is saved makes or accepts are those that may be made.
LEMMA OffersAreMade ==
  ASSUME TypeOK, PostfundInv, FinalInv', AskedSame,
         NEW n \in Nodes, NEW k \in Kinds, NEW v \in Targets, NEW l \in LedgersOf(n, v),
         NEW c, channel'[n][v] = c, Has(n, v)',
         k = "fund" => objective[n]["fund"][v].status \notin {"completed", "rejected"}
  PROVE  Offers(k, v, l, c) \subseteq Makes(l)[n] \cap Wants(k, v, l)
<1>1. l \in Hops(v) /\ l \in Ledgers /\ n \in Participants(v)
  <2>1. l \in Hops(v) /\ l \in Ledgers /\ Ends[l][Party(n, l)] = n
    BY LedgersOfAre
  <2>2. Party(n, l) \in Parties  BY <2>1, PartyIs
  <2>3. QED  BY <2>1, <2>2, EndsOfHops
<1>2. ASSUME NEW p \in Offers(k, v, l, c) PROVE MayMake(n, l, p) /\ p \in Proposal
  <2>1. p \in Wants(k, v, l)  BY DEF Offers
  <2>2. p \in Proposal  BY <1>1, <2>1, WantsAre
  <2>3. CASE k = "fund"
    <3>1. p = ExpectedProposal(v, l)  BY <2>1, <2>3 DEF Wants
    <3>2. HasAsked(v) => n = Bob(v)  BY <1>1, <2>3, OnlyBobFunds
    <3>3. QED  BY <1>1, <2>2, <3>1, <3>2 DEF MayMake
  <2>4. CASE k # "fund"
    <3>1. FinalComplete(v, c) /\ p = RemovalProposal(v, c.final.paid)
      BY <2>4 DEF Offers
    <3>2. PICK paid : paid = c.final.paid  OBVIOUS
    <3>3. IsWhatAlicePaid(v, paid)'  BY <3>1, <3>2 DEF FinalInv, FinalComplete
    <3>4. HasAsked(v)' /\ paid = Paid(Alice(v), v)'
      BY <3>3 DEF IsWhatAlicePaid, HasAsked
    <3>5. HasAsked(v) /\ paid = Paid(Alice(v), v)
      BY <3>4 DEF AskedSame, HasAsked
    <3>6. QED  BY <1>1, <2>2, <3>1, <3>2, <3>5 DEF MayMake
  <2>5. QED  BY <2>3, <2>4
<1>3. Makes(l)[n] = {p \in Proposal : MayMake(n, l, p)}  BY DEF Makes
<1>4. QED  BY <1>2, <1>3 DEF Offers

\* What a step has to show.
Booked == PostfundInv' /\ \A l \in Ledgers : LedgerStep(l, Makes(l))

\* A step of which the books hear nothing.
LEMMA NothingBooked ==
  ASSUME TypeOK, TypeOK', PostfundInv, asked' = asked,
         UNCHANGED <<objective, channel, ledger, signed>>,
         NEW messages, network' \subseteq network \cup messages,
         \A m \in messages : m.type # "postfund"
  PROVE  Booked
<1>1. AskedFunded  BY DEF AskedFunded, HasAsked
<1>2. PostfundInv'  BY <1>1, SameTells
<1>3. \A l \in Ledgers : LedgerStep(l, Makes(l))  BY DEF LedgerStep
<1>4. QED  BY <1>2, <1>3 DEF Booked

\* Copies that are saved as they were.
LEMMA StoredMoves ==
  ASSUME TypeOK, HistoryInv, NEW n \in Nodes, NEW k, NEW v, NEW o, HasStored(n, o),
         Save(n, k, v, o), NEW l \in Ledgers, NEW offers
  PROVE  LedgerStep(l, offers)
<1>1. IsHeard(n, k, v, o)  BY StoredIsHeard
<1>2. Moved(n, k, v, l, o.copies[l], o.copies[l], offers[n])  BY DEF Moved
<1>3. QED  BY <1>1, <1>2, SaveMoves

\* An objective that is saved as it was, or with more of its channel.
LEMMA StoredBooked ==
  ASSUME PaidInv, PromiseInv, PostfundInv, TypeOK', asked' = asked,
         NEW n \in Nodes, NEW k \in Kinds, NEW v \in Targets, NEW o, HasStored(n, o),
         \/ o = InMemory(n, k, v)
         \/ /\ o \in Memory /\ (Has(n, v) => Grows(channel[n][v], o.channel))
            /\ Tells(n, k, v, o),
         Save(n, k, v, o), NEW messages, network' \subseteq network \cup messages,
         \A m \in messages : m.type # "postfund"
  PROVE  Booked
<1>1. TypeOK /\ HistoryInv  BY DEF PromiseInv, FundingInv
<1>2. AskedFunded  BY DEF AskedFunded, HasAsked
<1>3. PostfundInv'
  <2>1. CASE o = InMemory(n, k, v)
    <3>1. objective' = objective /\ channel' = channel  BY <1>1, <2>1, SavedSame
    <3>2. QED  BY <1>1, <1>2, <3>1, SameTells
  <2>2. CASE /\ o \in Memory /\ (Has(n, v) => Grows(channel[n][v], o.channel))
             /\ Tells(n, k, v, o)
    BY <1>1, <1>2, <2>2, SavedTells
  <2>3. QED  BY <2>1, <2>2
<1>4. \A l \in Ledgers : LedgerStep(l, Makes(l))  BY <1>1, StoredMoves
<1>5. QED  BY <1>3, <1>4 DEF Booked

\* What is told may be saved.
LEMMA ToldTells ==
  ASSUME NEW n, NEW k, NEW v, NEW o, Told(n, k, v, o)
  PROVE  Tells(n, k, v, o)
BY DEF Told, Tells

\* attemptProgress.
LEMMA AttemptBooks ==
  ASSUME PaidInv, PromiseInv, PostfundInv, TypeOK', FinalInv', AskedSame,
         NEW n \in Nodes, NEW k \in Kinds, NEW v \in Targets,
         NEW o, Ready(n, v, o), o.status # "unknown", IsHeard(n, k, v, o), Told(n, k, v, o),
         NEW before, HasStored(n, before),
         \/ before = InMemory(n, k, v)
         \/ Ready(n, v, before) /\ Told(n, k, v, before),
         NEW left, IsLeft(left), AttemptProgress(n, k, v, before, o, left)
  PROVE  Booked
<1>1. TypeOK /\ HistoryInv /\ asked' = asked
  BY DEF PromiseInv, FundingInv, AskedSame
<1>2. PICK r : /\ r = Crank(n, k, v, o)
               /\ \/ /\ Save(n, k, v, before)
                     /\ Stop(n, r.error, left)
                  \/ /\ r.error = "none"
                     /\ Save(n, k, v, r.o)
                     /\ Stop(n, "cannot transfer ownership", left)
                  \/ /\ r.error = "none"
                     /\ Save(n, k, v, r.o)
                     /\ GoOn(n, left, r.messages, r.heads)
  BY DEF AttemptProgress
<1>3. CASE Save(n, k, v, before) /\ Stop(n, r.error, left)
  <2>1. PICK none : none = {}  OBVIOUS
  <2>2. network' \subseteq network \cup none /\ \A m \in none : m.type # "postfund"
    BY <1>3, <2>1 DEF Stop, IsLeft
  <2>3. \/ before = InMemory(n, k, v)
        \/ /\ before \in Memory /\ (Has(n, v) => Grows(channel[n][v], before.channel))
           /\ Tells(n, k, v, before)
    BY ToldTells DEF Ready
  <2>4. QED  BY <1>1, <1>3, <2>2, <2>3, StoredBooked
<1>4. CASE r.error = "none" /\ Save(n, k, v, r.o)
           /\ \/ Stop(n, "cannot transfer ownership", left)
              \/ GoOn(n, left, r.messages, r.heads)
  <2>1. PICK new, messages : new = r.o /\ messages = r.messages  OBVIOUS
  <2>2. /\ new \in Memory /\ Tells(n, k, v, new)
        /\ Has(n, v) => Grows(channel[n][v], new.channel)
        /\ \A m \in messages : m.type = "postfund" =>
             m.v = v /\ m.from = n /\ n \in new.channel.postfund
        /\ k = "fund" => objective[n]["fund"][v].status \notin {"completed", "rejected"}
    <3>1. r = Crank(n, k, v, o) /\ r.error = "none"  BY <1>2, <1>4
    <3>2. /\ r.o \in Memory /\ Tells(n, k, v, r.o)
          /\ Has(n, v) => Grows(channel[n][v], r.o.channel)
          /\ \A m \in r.messages : m.type = "postfund" =>
               m.v = v /\ m.from = n /\ n \in r.o.channel.postfund
          /\ k = "fund" => objective[n]["fund"][v].status \notin {"completed", "rejected"}
      BY <3>1, CrankTells
    <3>3. QED  BY <2>1, <3>2
  <2>3. Save(n, k, v, new) /\ network' \subseteq network \cup messages
    BY <1>4, <2>1 DEF Stop, GoOn, IsLeft
  <2>4. PostfundInv'
    <3>1. AskedFunded  BY <1>1 DEF AskedFunded, HasAsked
    <3>2. QED  BY <1>1, <2>2, <2>3, <3>1, SavedTells
  <2>5. CrankMoves(n, k, v, o, r)  BY <1>2, <1>4, CrankMovesLedgers
  <2>6. PICK updates :
          /\ \A l \in LedgersOf(n, v) :
               Moves(n, l, o.copies[l], Offers(k, v, l, new.channel), updates[l])
          /\ \A l \in Ledgers :
               new.copies[l] = IF l \in LedgersOf(n, v) THEN updates[l].copy ELSE o.copies[l]
    BY <2>1, <2>5 DEF CrankMoves
  <2>7. channel'[n][v] = new.channel /\ Has(n, v)'
    BY <1>1, <2>2, <2>3, SaveChanges
  <2>8. ASSUME NEW l \in Ledgers
        PROVE  Moved(n, k, v, l, o.copies[l], new.copies[l], Makes(l)[n])
    <3>1. CASE l \in LedgersOf(n, v)
      <4>1. Offers(k, v, l, new.channel) \subseteq Makes(l)[n] \cap Wants(k, v, l)
        BY <1>1, <2>2, <2>7, <3>1, OffersAreMade
      <4>2. Moves(n, l, o.copies[l], Makes(l)[n] \cap Wants(k, v, l), updates[l])
        BY <2>6, <3>1, <4>1, MoreMoves
      <4>3. l \in Hops(v)  BY <3>1, LedgersOfAre
      <4>4. QED  BY <2>6, <3>1, <4>2, <4>3 DEF Moved
    <3>2. CASE l \notin LedgersOf(n, v)  BY <2>6, <3>2 DEF Moved
    <3>3. QED  BY <3>1, <3>2
  <2>9. \A l \in Ledgers : LedgerStep(l, Makes(l))
    BY <1>1, <2>3, <2>8, SaveMoves
  <2>10. QED  BY <2>4, <2>9 DEF Booked
<1>5. QED  BY <1>2, <1>3, <1>4

\* An objective that is known tells what the stores say.
LEMMA StoredIsTold ==
  ASSUME FundingInv, PostfundInv, NEW n \in Nodes, NEW k \in Kinds, NEW v \in Targets,
         NEW o, o = InMemory(n, k, v), o.status # "unknown"
  PROVE  Told(n, k, v, o)
<1>1. Has(n, v)  BY KnownIs
<1>2. o.status = objective[n][k][v].status /\ o.channel = channel[n][v]
  BY DEF InMemory
<1>3. \A p \in o.channel.postfund : IsPostfunded(p, v)
  BY <1>1, <1>2 DEF PostfundInv
<1>4. k = "fund" /\ o.status = "completed" /\ n = Alice(v) => IsPostfundedByAll(v)
  BY <1>2 DEF PostfundInv, HasFunded
<1>5. QED  BY <1>2, <1>3, <1>4 DEF Told

\* So does an objective that is created.
LEMMA NewIsTold ==
  ASSUME FundingInv, PostfundInv, NEW n \in Nodes, NEW v \in Targets, NEW status, NEW o,
         status # "completed"
  PROVE  /\ vouchers[n][v] = NoVoucher /\ status \in Status
              /\ o = NewFundObjective(n, v, status) => Told(n, "fund", v, o)
         /\ Has(n, v) /\ status \in Status /\ o = NewDefundObjective(n, v, status) =>
              Told(n, "defund", v, o)
<1>1. ASSUME vouchers[n][v] = NoVoucher, status \in Status, o = NewFundObjective(n, v, status)
      PROVE  Told(n, "fund", v, o)
  <2>1. o.status = status /\ o.channel = NewChannel /\ ~ Has(n, v)
    BY <1>1, NewFundIsReady
  <2>2. objective[n]["fund"][v].status = "unknown"
    BY <2>1, RestIs DEF FundingInv, KnownInv
  <2>3. QED  BY <2>1, <2>2 DEF Told, NewChannel
<1>2. ASSUME Has(n, v), status \in Status, o = NewDefundObjective(n, v, status)
      PROVE  Told(n, "defund", v, o)
  <2>1. o.channel = channel[n][v]  BY <1>2, NewDefundIsReady
  <2>2. QED  BY <1>2, <2>1 DEF Told, PostfundInv
<1>3. QED  BY <1>1, <1>2

\* And an objective constructed from a message.
LEMMA ConstructedIsTold ==
  ASSUME FundingInv, PostfundInv, NEW n \in Nodes, NEW k \in Kinds, NEW v \in Targets,
         CanConstruct(n, k, v), NEW o, o = Constructed(n, k, v)
  PROVE  Told(n, k, v, o)
<1>1. CASE k = "fund"  BY <1>1, NewIsTold, RestIs DEF CanConstruct, Constructed
<1>2. CASE k # "fund"
  <2>1. Has(n, v) /\ o = NewDefundObjective(n, v, "unapproved") /\ k = "defund"
    BY <1>2, KindsAssumption DEF CanConstruct, Constructed, Has
  <2>2. QED  BY <2>1, NewIsTold, RestIs
<1>3. QED  BY <1>1, <1>2

\* Alice's promises for what she has asked to close stand when nobody asks to
\* close and hers are none of the vouchers that change.
LEMMA AskedStays ==
  ASSUME TypeOK, asked' = asked,
         \/ vouchers' = vouchers
         \/ \E n \in Nodes, v \in Targets, amount \in Nat :
              /\ vouchers' = [vouchers EXCEPT ![n][v] = amount]
              /\ n = Alice(v) /\ <<n, v>> \in asked => amount = Paid(n, v)
  PROVE  AskedSame
<1>1. CASE vouchers' = vouchers  BY <1>1 DEF AskedSame, Paid
<1>2. ASSUME NEW n \in Nodes, NEW v \in Targets, NEW amount \in Nat,
             vouchers' = [vouchers EXCEPT ![n][v] = amount],
             n = Alice(v) /\ <<n, v>> \in asked => amount = Paid(n, v)
      PROVE  AskedSame
  <2>1. \A m \in Nodes, u \in Targets :
          vouchers'[m][u] = IF m = n /\ u = v THEN amount ELSE vouchers[m][u]
    BY <1>2 DEF TypeOK
  <2>2. ASSUME NEW u \in Targets, HasAsked(u)
        PROVE  Paid(Alice(u), u)' = Paid(Alice(u), u)
    <3>1. PICK m \in Nodes : m = Alice(u)  BY PathIs
    <3>2. CASE m = n /\ u = v
      <4>1. amount = Paid(m, u)  BY <1>2, <2>2, <3>1, <3>2 DEF HasAsked
      <4>2. vouchers'[m][u] = amount  BY <2>1, <3>2
      <4>3. Paid(m, u)' = amount  BY <4>2, NoVoucherAssumption DEF Paid
      <4>4. QED  BY <3>1, <4>1, <4>3
    <3>3. CASE ~ (m = n /\ u = v)  BY <2>1, <3>1, <3>3 DEF Paid
    <3>4. QED  BY <3>2, <3>3
  <2>3. QED  BY <2>2 DEF AskedSame
<1>3. QED  BY <1>1, <1>2

\* VirtualFundObjectiveRequest.
LEMMA RequestFundBooks ==
  ASSUME PaidInv, PromiseInv, PostfundInv, PaidInv', NEW v \in Targets, RequestFund(v)
  PROVE  Booked /\ AskedSame
<1>1. PICK n \in Nodes : n = Alice(v)  BY PathIs
<1>2. FundingInv /\ TypeOK /\ TypeOK' /\ FinalInv'  BY DEF PaidInv, FundingInv
<1>3. PICK k \in Kinds : k = "fund"  BY <1>2, RestIs
<1>4. PICK o, before, left :
        o = NewFundObjective(n, v, "approved") /\ before = InMemory(n, k, v)
                                               /\ left = Left(n)
  OBVIOUS
<1>5. /\ vouchers[n][v] = NoVoucher /\ AttemptProgress(n, k, v, before, o, left)
      /\ vouchers' = [vouchers EXCEPT ![n][v] = 0] /\ asked' = asked
  BY <1>1, <1>3, <1>4 DEF RequestFund
<1>6. AskedSame
  <2>1. PICK amount \in Nat : amount = 0  OBVIOUS
  <2>2. Paid(n, v) = amount  BY <1>5, <2>1 DEF Paid
  <2>3. vouchers' = [vouchers EXCEPT ![n][v] = amount]  BY <1>5, <2>1
  <2>4. QED  BY <1>2, <1>5, <2>2, <2>3, AskedStays
<1>7. Ready(n, v, o) /\ o.status = "approved"
  BY <1>2, <1>4, <1>5, RestIs, NewFundIsReady
<1>8. HasStored(n, before) /\ IsHeard(n, k, v, o)
  BY <1>4, MemoriesHaveStored, StoredIsHeard
<1>9. IsLeft(left)  BY <1>2, <1>4, LeftIs
<1>10. Told(n, k, v, o)  BY <1>2, <1>3, <1>4, <1>5, RestIs, NewIsTold
<1>11. o.status # "unknown"  BY <1>7
<1>12. QED
  BY <1>2, <1>4, <1>5, <1>6, <1>7, <1>8, <1>9, <1>10, <1>11, AttemptBooks

\* handlePaymentRequest.
LEMMA PayBooks ==
  ASSUME PaidInv, PromiseInv, PostfundInv, PaidInv', ClientsWait,
         NEW v \in Targets, NEW amount \in 1..MaxAmount, Pay(v, amount)
  PROVE  Booked /\ AskedSame
<1>1. PICK n \in Nodes : n = Alice(v)  BY PathIs
<1>2. FundingInv /\ TypeOK /\ TypeOK'  BY DEF PaidInv, FundingInv
<1>3. vouchers[n][v] \in Nat  BY <1>1, <1>2, TypeIs DEF Pay
<1>4. PICK total \in Nat : total = vouchers[n][v] + amount
  BY <1>3, MaxAmountAssumption
<1>5. PICK m : m = [type |-> "voucher", v |-> v, from |-> n, to |-> Bob(v),
                    paid |-> Paid(n, v) + amount]
  OBVIOUS
<1>6. PICK messages : messages = {m}  OBVIOUS
<1>7. /\ network' = network \cup messages
      /\ vouchers' = [vouchers EXCEPT ![n][v] = total]
      /\ UNCHANGED <<objective, channel, ledger, signed>>
      /\ asked' = asked /\ <<n, v>> \notin asked
  BY <1>1, <1>4, <1>5, <1>6 DEF Pay, MayPay, ClientsWait
<1>8. \A x \in messages : x.type # "postfund"  BY <1>5, <1>6
<1>9. AskedSame  BY <1>2, <1>7, AskedStays
<1>10. Booked  BY <1>2, <1>7, <1>8, NothingBooked
<1>11. QED  BY <1>9, <1>10

\* update of an objective, and attemptProgress.
LEMMA UpdateBooks ==
  ASSUME PaidInv, PromiseInv, PostfundInv, PaidInv', AskedSame,
         NEW n \in Nodes, NEW k \in Kinds, NEW v \in Targets,
         NEW before, Ready(n, v, before), HasStored(n, before), Told(n, k, v, before),
         before.status \in {"unapproved", "approved"},
         NEW m \in network, m \in Payloads, IsTrue(m), m.v = v, k = KindOf(m),
         m.type \in {"prefund", "postfund", "request", "final"},
         NEW left, IsLeft(left), Update(n, k, v, before, m, left)
  PROVE  Booked
<1>1. FundingInv /\ TypeOK' /\ FinalInv'  BY DEF PaidInv, FundingInv
<1>2. before = [status |-> before.status, minimum |-> before.minimum,
                channel |-> before.channel, copies |-> before.copies]
      /\ before.channel \in Channel
  BY ReadyIs
<1>3. CASE k = "fund"
  <2>1. m.type \in {"prefund", "postfund"}  BY <1>3 DEF KindOf
  <2>2. PICK o : o = FundUpdated(v, before, m)  OBVIOUS
  <2>3. AttemptProgress(n, k, v, before, o, left)
    BY <1>3, <2>2 DEF Update, UpdateFund, FundUpdated
  <2>4. Ready(n, v, o) /\ o.status = "approved"
    BY <1>1, <2>1, <2>2, UpdatedFundIsReady
  <2>5. o.copies = before.copies /\ o.channel = FundUpdate(v, before.channel, m)
    BY <1>2, <2>2 DEF FundUpdated
  <2>6. IsHeard(n, k, v, o)  BY <2>5, StoredIsHeard DEF HasStored
  <2>7. Told(n, k, v, o)
    <3>1. ASSUME NEW p \in o.channel.postfund PROVE IsPostfunded(p, v)
      <4>1. \/ p \in before.channel.postfund
            \/ m.type = "postfund" /\ p = m.from
        <5>1. PICK c \in Channel : c = before.channel  BY <1>2
        <5>2. c = [prefund |-> c.prefund, postfund |-> c.postfund, final |-> c.final]
          BY DEF Channel
        <5>3. \/ FundUpdate(v, c, m) = c
              \/ FundUpdate(v, c, m) = [c EXCEPT !.prefund = @ \cup {m.from}]
              \/ /\ FundUpdate(v, c, m) = [c EXCEPT !.postfund = @ \cup {m.from}]
                 /\ m.type = "postfund"
          BY <2>1 DEF FundUpdate
        <5>4. \/ FundUpdate(v, c, m).postfund = c.postfund
              \/ /\ FundUpdate(v, c, m).postfund = c.postfund \cup {m.from}
                 /\ m.type = "postfund"
          BY <5>2, <5>3
        <5>5. QED  BY <2>5, <3>1, <5>1, <5>4
      <4>2. QED  BY <4>1 DEF Told, PostfundInv
    <3>2. objective[n]["fund"][v].status \notin {"completed", "rejected"}
      BY <1>3 DEF Told
    <3>3. QED  BY <2>4, <3>1, <3>2 DEF Told
  <2>8. o.status # "unknown"  BY <2>4
  <2>9. QED  BY <1>1, <2>3, <2>4, <2>6, <2>7, <2>8, AttemptBooks
<1>4. CASE k # "fund"
  <2>1. PICK approved : approved = [before EXCEPT !.status = "approved"]
    OBVIOUS
  <2>2. /\ Ready(n, v, approved) /\ approved.status = "approved"
        /\ approved = [status |-> approved.status, minimum |-> approved.minimum,
                       channel |-> approved.channel, copies |-> approved.copies]
        /\ approved.copies = before.copies /\ approved.channel = before.channel
        /\ approved.channel \in Channel
    <3>1. /\ Ready(n, v, approved) /\ approved.status = "approved"
          /\ approved.channel = before.channel /\ approved.copies = before.copies
      BY <1>1, <2>1, RestIs, StatusIsReady
    <3>2. QED  BY <3>1, ReadyIs
  <2>3. k = "defund" /\ UpdateDefund(n, v, before, m, left)
    BY <1>4 DEF Update, KindOf
  <2>4. CASE /\ m.type = "final" /\ DefundUpdates(n, v, approved, m)
             /\ AttemptProgress(n, "defund", v, before, DefundUpdate(approved, m), left)
    <3>1. PICK o : o = DefundUpdate(approved, m)  OBVIOUS
    <3>2. approved.channel.final # NoFinal => approved.channel.final.paid = m.paid
      BY <2>4 DEF DefundUpdates
    <3>3. Ready(n, v, o) /\ o.status = approved.status
      BY <1>1, <2>2, <2>4, <3>1, <3>2, UpdatedDefundIsReady
    <3>4. o.copies = before.copies /\ o.channel.postfund = before.channel.postfund
      <4>1. PICK paid, signers :
              DefundUpdate(approved, m) =
                [approved EXCEPT !.channel.final = [paid |-> paid, signed |-> signers]]
        BY DEF DefundUpdate
      <4>2. PICK c \in Channel : c = approved.channel  BY <2>2
      <4>3. c = [prefund |-> c.prefund, postfund |-> c.postfund, final |-> c.final]
        BY DEF Channel
      <4>4. /\ o.copies = approved.copies
            /\ o.channel = [c EXCEPT !.final = [paid |-> paid, signed |-> signers]]
        BY <2>2, <3>1, <4>1, <4>2
      <4>5. o.channel.postfund = c.postfund  BY <4>3, <4>4
      <4>6. QED  BY <2>2, <4>2, <4>4, <4>5
    <3>5. IsHeard(n, k, v, o)  BY <3>4, StoredIsHeard DEF HasStored
    <3>6. Told(n, k, v, o)  BY <1>4, <3>4 DEF Told
    <3>7. AttemptProgress(n, k, v, before, o, left)  BY <2>3, <2>4, <3>1
    <3>8. o.status # "unknown"  BY <2>2, <3>3
    <3>9. QED  BY <1>1, <3>3, <3>5, <3>6, <3>7, <3>8, AttemptBooks
  <2>5. CASE \E error : Save(n, "defund", v, before) /\ Stop(n, error, left)
    <3>1. PICK none : none = {}  OBVIOUS
    <3>2. network' \subseteq network \cup none /\ \A x \in none : x.type # "postfund"
      BY <2>5, <3>1 DEF Stop, IsLeft
    <3>3. /\ before \in Memory /\ (Has(n, v) => Grows(channel[n][v], before.channel))
          /\ Tells(n, k, v, before)
      BY ToldTells DEF Ready
    <3>4. Save(n, k, v, before) /\ asked' = asked  BY <2>3, <2>5 DEF AskedSame
    <3>5. QED  BY <1>1, <3>2, <3>3, <3>4, StoredBooked
  <2>6. QED  BY <2>1, <2>3, <2>4, <2>5 DEF UpdateDefund
<1>5. QED  BY <1>3, <1>4

\* An objective that is rejected.
LEMMA RejectedBooks ==
  ASSUME PaidInv, PromiseInv, PostfundInv, PaidInv', asked' = asked,
         NEW n \in Nodes, NEW k \in Kinds, NEW v \in Targets,
         NEW o, Ready(n, v, o), HasStored(n, o), Told(n, k, v, o),
         Save(n, k, v, [o EXCEPT !.status = "rejected"]),
         NEW messages, network' \subseteq network \cup messages,
         \A m \in messages : m.type # "postfund"
  PROVE  Booked
<1>1. FundingInv /\ TypeOK'  BY DEF PaidInv, FundingInv
<1>2. PICK new : new = [o EXCEPT !.status = "rejected"]  OBVIOUS
<1>3. /\ Ready(n, v, new) /\ new.status = "rejected"
      /\ new.channel = o.channel /\ new.copies = o.copies
  BY <1>1, <1>2, RestIs, StatusIsReady
<1>4. Tells(n, k, v, new)  BY <1>3 DEF Told, Tells
<1>5. HasStored(n, new) /\ Save(n, k, v, new)  BY <1>2, <1>3 DEF HasStored
<1>6. new \in Memory /\ (Has(n, v) => Grows(channel[n][v], new.channel))
  BY <1>3 DEF Ready
<1>7. QED  BY <1>1, <1>4, <1>5, <1>6, StoredBooked

\* The policy maker refuses.
LEMMA RejectBooks ==
  ASSUME PaidInv, PromiseInv, PostfundInv, PaidInv', asked' = asked,
         NEW n \in Nodes, NEW k \in Kinds, NEW v \in Targets,
         NEW o, Ready(n, v, o), HasStored(n, o), Told(n, k, v, o),
         NEW left, IsLeft(left), Reject(n, k, v, o, left)
  PROVE  Booked
<1>1. PICK messages : messages = RejectionNotice(n, k, v)  OBVIOUS
<1>2. \A m \in messages : m.type # "postfund"  BY <1>1 DEF RejectionNotice
<1>3. /\ Save(n, k, v, [o EXCEPT !.status = "rejected"])
      /\ network' \subseteq network \cup messages
  BY <1>1 DEF Reject, GoOn, IsLeft
<1>4. QED  BY <1>2, <1>3, RejectedBooks

\* An event that changes nothing that is stored.
LEMMA IgnoredBooks ==
  ASSUME PaidInv, PostfundInv, PaidInv', asked' = asked,
         NEW n, NEW left, IsLeft(left), Ignore(n, left) \/ \E error : Fail(n, error, left)
  PROVE  Booked /\ AskedSame
<1>1. PICK messages : messages = {}  OBVIOUS
<1>2. /\ UNCHANGED <<objective, channel, ledger, signed>> /\ vouchers' = vouchers
      /\ network' \subseteq network \cup messages
  BY DEF Ignore, Fail, GoOn, Stop, stored, IsLeft
<1>3. TypeOK /\ TypeOK'  BY DEF PaidInv, FundingInv
<1>4. AskedSame  BY <1>2, <1>3, AskedStays
<1>5. Booked  BY <1>1, <1>2, <1>3, NothingBooked
<1>6. QED  BY <1>4, <1>5

\* A payload of an objective.
LEMMA ReceivePayloadBooks ==
  ASSUME PaidInv, PromiseInv, PostfundInv, PaidInv',
         NEW m \in network, ReceiveObjectivePayload(m)
  PROVE  Booked /\ AskedSame
<1>1. PICK left \in AfterTaking(m), n \in {m.to}, k \in {KindOf(m)} :
        /\ m.type \in {"prefund", "postfund", "request", "final"}
        /\ \/ ConstructObjective(n, k, m.v, m, left)
           \/ CannotConstruct(n, k, m.v, left)
           \/ StopConstructing(n, k, m.v, left)
           \/ UpdateObjective(n, k, m.v, m, left)
           \/ IgnorePayload(n, k, m.v, left)
        /\ asked' = asked
  BY DEF ReceiveObjectivePayload
<1>2. FundingInv /\ TypeOK /\ TypeOK'  BY DEF PaidInv, FundingInv
<1>3. IsLeft(left) /\ n \in Nodes  BY <1>1, TakenIsVouched
<1>4. m \in Payloads /\ IsTrue(m)
  BY <1>1, <1>2 DEF FundingInv, TypeOK, MessagesInv, Payloads, Rejections, Proposals
<1>5. PICK v \in Targets : v = m.v  BY <1>4 DEF Payloads
<1>6. k \in Kinds  BY <1>1, <1>2, RestIs DEF KindOf
<1>7. PICK o, before : o = Constructed(n, k, v) /\ before = InMemory(n, k, v)
  OBVIOUS
<1>8. HasStored(n, o) /\ HasStored(n, before)
  BY <1>3, <1>6, <1>7, MemoriesHaveStored
<1>9. ASSUME CanConstruct(n, k, v), vouchers' = Registered(n, k, v)
      PROVE  /\ Ready(n, v, o) /\ Told(n, k, v, o) /\ o.status = "unapproved"
             /\ AskedSame
  <2>1. Ready(n, v, o) /\ o.status = "unapproved"
    BY <1>2, <1>3, <1>6, <1>7, <1>9, ConstructedIsReady
  <2>2. Told(n, k, v, o)  BY <1>2, <1>3, <1>6, <1>7, <1>9, ConstructedIsTold
  <2>3. AskedSame
    <3>1. CASE k = "fund"
      <4>1. PICK amount \in Nat : amount = 0  OBVIOUS
      <4>2. vouchers' = [vouchers EXCEPT ![n][v] = amount] /\ n # Alice(v)
        BY <1>9, <3>1, <4>1 DEF Registered, CanConstruct
      <4>3. QED  BY <1>1, <1>2, <1>3, <4>2, AskedStays
    <3>2. CASE k # "fund"
      <4>1. vouchers' = vouchers  BY <1>9, <3>2 DEF Registered
      <4>2. QED  BY <1>1, <1>2, <4>1, AskedStays
    <3>3. QED  BY <3>1, <3>2
  <2>4. QED  BY <2>1, <2>2, <2>3
<1>10. CASE ConstructObjective(n, k, v, m, left)
  <2>1. /\ CanConstruct(n, k, v)
        /\ Update(n, k, v, o, m, left) \/ Reject(n, k, v, o, left)
        /\ vouchers' = Registered(n, k, v)
    BY <1>7, <1>10 DEF ConstructObjective
  <2>2. Ready(n, v, o) /\ Told(n, k, v, o) /\ o.status = "unapproved" /\ AskedSame
    BY <1>9, <2>1
  <2>3. CASE Update(n, k, v, o, m, left)
    <3>1. o.status \in {"unapproved", "approved"}  BY <2>2
    <3>2. Booked
      BY <1>1, <1>3, <1>4, <1>5, <1>6, <1>8, <2>2, <2>3, <3>1, UpdateBooks
    <3>3. QED  BY <2>2, <3>2
  <2>4. CASE Reject(n, k, v, o, left)
    <3>1. Booked  BY <1>1, <1>3, <1>6, <1>8, <2>2, <2>4, RejectBooks
    <3>2. QED  BY <2>2, <3>1
  <2>5. QED  BY <2>1, <2>3, <2>4
<1>11. CASE CannotConstruct(n, k, v, left) \/ IgnorePayload(n, k, v, left)
  <2>1. Ignore(n, left) \/ \E error : Fail(n, error, left)
    BY <1>11 DEF CannotConstruct, IgnorePayload
  <2>2. QED  BY <1>1, <1>3, <2>1, IgnoredBooks
<1>12. CASE StopConstructing(n, k, v, left)
  <2>1. /\ CanConstruct(n, k, v)
        /\ Save(n, k, v, before) \/ Save(n, k, v, o)
        /\ Stop(n, "crash", left)
        /\ vouchers' = Registered(n, k, v)
    BY <1>7, <1>12 DEF StopConstructing
  <2>2. Ready(n, v, o) /\ Told(n, k, v, o) /\ AskedSame  BY <1>9, <2>1
  <2>3. PICK none : none = {}  OBVIOUS
  <2>4. network' \subseteq network \cup none /\ \A x \in none : x.type # "postfund"
    BY <1>3, <2>1, <2>3 DEF Stop, IsLeft
  <2>5. o \in Memory /\ (Has(n, v) => Grows(channel[n][v], o.channel)) /\ Tells(n, k, v, o)
    BY <2>2, ToldTells DEF Ready
  <2>6. CASE Save(n, k, v, before)
    <3>1. Booked
      BY <1>1, <1>2, <1>3, <1>6, <1>7, <1>8, <2>4, <2>6, StoredBooked
    <3>2. QED  BY <2>2, <3>1
  <2>7. CASE Save(n, k, v, o)
    <3>1. Booked
      BY <1>1, <1>2, <1>3, <1>6, <1>8, <2>4, <2>5, <2>7, StoredBooked
    <3>2. QED  BY <2>2, <3>1
  <2>8. QED  BY <2>1, <2>6, <2>7
<1>13. CASE UpdateObjective(n, k, v, m, left)
  <2>1. /\ before.status \in {"unapproved", "approved"}
        /\ Update(n, k, v, before, m, left) \/ Reject(n, k, v, before, left)
        /\ vouchers' = vouchers
    BY <1>7, <1>13 DEF UpdateObjective
  <2>2. before.status # "unknown"  BY <2>1
  <2>3. Ready(n, v, before)  BY <1>2, <1>3, <1>6, <1>7, <2>2, KnownIs
  <2>4. Told(n, k, v, before)  BY <1>2, <1>3, <1>6, <1>7, <2>2, StoredIsTold
  <2>5. AskedSame  BY <1>1, <1>2, <2>1, AskedStays
  <2>6. CASE Update(n, k, v, before, m, left)
    <3>1. Booked
      BY <1>1, <1>3, <1>4, <1>5, <1>6, <1>8, <2>1, <2>3, <2>4, <2>5, <2>6, UpdateBooks
    <3>2. QED  BY <2>5, <3>1
  <2>7. CASE Reject(n, k, v, before, left)
    <3>1. Booked  BY <1>1, <1>3, <1>6, <1>8, <2>3, <2>4, <2>7, RejectBooks
    <3>2. QED  BY <2>5, <3>1
  <2>8. QED  BY <2>1, <2>6, <2>7
<1>14. QED  BY <1>1, <1>5, <1>10, <1>11, <1>12, <1>13

\* What stores nothing, and says nothing of the postfund round.
LEMMA QuietBooks ==
  ASSUME PaidInv, PostfundInv, PaidInv', asked' = asked,
         UNCHANGED <<objective, channel, ledger, signed, vouchers>>,
         network' \subseteq network
  PROVE  Booked /\ AskedSame
<1>1. TypeOK /\ TypeOK'  BY DEF PaidInv, FundingInv
<1>2. PICK none : none = {}  OBVIOUS
<1>3. network' \subseteq network \cup none /\ \A m \in none : m.type # "postfund"
  BY <1>2
<1>4. Booked  BY <1>1, <1>3, NothingBooked
<1>5. AskedSame  BY <1>1, AskedStays
<1>6. QED  BY <1>4, <1>5

\* The proposals of a message are taken up.
LEMMA ReceiveProposalsBooks ==
  ASSUME PaidInv, PromiseInv, PostfundInv, PaidInv',
         NEW m \in network, ReceiveProposals(m)
  PROVE  Booked /\ AskedSame
<1>1. PICK left : /\ left \in AfterTaking(m)
                  /\ \E entries : GoOn(m.to, [left EXCEPT !.inbox = entries], {}, << >>)
  BY DEF ReceiveProposals
<1>2. PICK entries : GoOn(m.to, [left EXCEPT !.inbox = entries], {}, << >>)
  BY <1>1
<1>3. FundingInv  BY DEF PaidInv
<1>4. left = [inbox |-> inbox[m.to], toProcess |-> toProcess[m.to],
              network |-> left.network]
      /\ left.network \subseteq network
  BY <1>1, <1>3, AfterTakingIs DEF IsLeft
<1>5. [left EXCEPT !.inbox = entries].network = left.network  BY <1>4
<1>6. network' \subseteq network  BY <1>2, <1>4, <1>5 DEF GoOn
<1>7. UNCHANGED <<objective, channel, ledger, signed, vouchers>> /\ asked' = asked
  BY DEF ReceiveProposals, stored
<1>8. QED  BY <1>6, <1>7, QuietBooks

\* A proposal is handled.
LEMMA HandleProposalBooks ==
  ASSUME PaidInv, PromiseInv, PostfundInv, PaidInv',
         NEW n \in Nodes, ReceiveProposal(n) \/ ProcessHead(n)
  PROVE  Booked /\ AskedSame
<1>1. FundingInv /\ TypeOK /\ TypeOK' /\ FinalInv'
  BY DEF PaidInv, PromiseInv, FundingInv
<1>2. PICK k, v, o, new, left :
        /\ Handles(n, k, v, o, new, left)
        /\ Cranks(n, k, v, o, new, left) => HasStored(n, o) /\ IsHeard(n, k, v, new)
  BY HandledIsHeard
<1>3. /\ k \in Kinds /\ v \in Targets /\ IsLeft(left)
      /\ asked' = asked /\ o = InMemory(n, k, v)
  BY <1>2 DEF Handles
<1>4. CASE Ignore(n, left) \/ \E error \in Errors : Fail(n, error, left)
  BY <1>3, <1>4, IgnoredBooks
<1>5. CASE Cranks(n, k, v, o, new, left)
  <2>1. /\ Ready(n, v, new) /\ o.status # "unknown" /\ new.status = o.status
        /\ new.channel = o.channel /\ new.minimum = o.minimum
        /\ vouchers' = vouchers /\ AttemptProgress(n, k, v, o, new, left)
    BY <1>5 DEF Cranks
  <2>2. Told(n, k, v, o)  BY <1>1, <1>3, <2>1, StoredIsTold
  <2>3. Told(n, k, v, new) /\ new.status # "unknown"  BY <2>1, <2>2 DEF Told
  <2>4. AskedSame  BY <1>1, <1>3, <2>1, AskedStays
  <2>5. HasStored(n, o) /\ IsHeard(n, k, v, new)  BY <1>2, <1>5
  <2>6. Booked  BY <1>1, <1>3, <2>1, <2>3, <2>4, <2>5, AttemptBooks
  <2>7. QED  BY <2>4, <2>6
<1>6. QED  BY <1>2, <1>4, <1>5 DEF Handles

\* A rejection notice.
LEMMA ReceiveRejectionBooks ==
  ASSUME PaidInv, PromiseInv, PostfundInv, PaidInv',
         NEW m \in network, ReceiveRejection(m)
  PROVE  Booked /\ AskedSame
<1>1. m.type = "rejection" /\ asked' = asked  BY DEF ReceiveRejection
<1>2. FundingInv /\ TypeOK  BY DEF PaidInv, FundingInv
<1>3. m \in Rejections  BY <1>1, <1>2 DEF TypeOK, Payloads, Proposals
<1>4. PICK n \in Nodes, k \in Kinds, v \in Targets : n = m.to /\ k = m.kind /\ v = m.v
  BY <1>3 DEF Rejections
<1>5. PICK o : o = InMemory(n, k, v)  OBVIOUS
<1>6. PICK left \in AfterTaking(m) :
        \/ Ignore(n, left)
        \/ \E error : Fail(n, error, left)
        \/ /\ o.status # "unknown"
           /\ Save(n, k, v, [o EXCEPT !.status = "rejected"])
           /\ GoOn(n, left, {}, << >>)
           /\ vouchers' = vouchers
  BY <1>4, <1>5 DEF ReceiveRejection
<1>7. IsLeft(left)  BY TakenIsVouched
<1>8. CASE Ignore(n, left) \/ \E error : Fail(n, error, left)
  BY <1>1, <1>7, <1>8, IgnoredBooks
<1>9. CASE /\ o.status # "unknown"
           /\ Save(n, k, v, [o EXCEPT !.status = "rejected"])
           /\ GoOn(n, left, {}, << >>)
           /\ vouchers' = vouchers
  <2>1. Ready(n, v, o) /\ Told(n, k, v, o)
    BY <1>2, <1>5, <1>9, KnownIs, StoredIsTold
  <2>2. HasStored(n, o)  BY <1>5, MemoriesHaveStored
  <2>3. PICK none : none = {}  OBVIOUS
  <2>4. network' \subseteq network \cup none /\ \A x \in none : x.type # "postfund"
    BY <1>7, <1>9, <2>3 DEF GoOn, IsLeft
  <2>5. AskedSame  BY <1>1, <1>2, <1>9, AskedStays
  <2>6. Booked  BY <1>1, <1>9, <2>1, <2>2, <2>4, RejectedBooks
  <2>7. QED  BY <2>5, <2>6
<1>10. QED  BY <1>6, <1>8, <1>9

\* A voucher, which is not for Alice.
LEMMA ReceiveVoucherBooks ==
  ASSUME PaidInv, PromiseInv, PostfundInv, PaidInv',
         NEW m \in network, ReceiveVoucher(m)
  PROVE  Booked /\ AskedSame
<1>1. m.type = "voucher" /\ asked' = asked  BY DEF ReceiveVoucher
<1>2. FundingInv /\ VoucherInv /\ TypeOK /\ TypeOK'  BY DEF PaidInv, FundingInv
<1>3. m \in Payloads  BY <1>1, <1>2 DEF TypeOK, Rejections, Proposals
<1>4. PICK n \in Nodes, v \in Targets, paid \in Nat : n = m.to /\ v = m.v /\ paid = m.paid
  BY <1>3 DEF Payloads
<1>5. n # Alice(v)  BY <1>1, <1>2, <1>4 DEF VoucherInv
<1>6. PICK left \in AfterTaking(m) :
        \/ Fail(n, "channel not registered", left)
        \/ /\ vouchers[n][v] # NoVoucher
           /\ vouchers' = [vouchers EXCEPT ![n][v] = LargerOf(vouchers[n][v], paid)]
           /\ \/ Stop(n, "could not fetch channel for voucher", left)
              \/ GoOn(n, left, {}, << >>)
           /\ UNCHANGED <<objective, channel, ledger, signed>>
  BY <1>4 DEF ReceiveVoucher
<1>7. IsLeft(left)  BY TakenIsVouched
<1>8. CASE Fail(n, "channel not registered", left)
  BY <1>1, <1>7, <1>8, IgnoredBooks
<1>9. CASE /\ vouchers[n][v] # NoVoucher
           /\ vouchers' = [vouchers EXCEPT ![n][v] = LargerOf(vouchers[n][v], paid)]
           /\ \/ Stop(n, "could not fetch channel for voucher", left)
              \/ GoOn(n, left, {}, << >>)
           /\ UNCHANGED <<objective, channel, ledger, signed>>
  <2>1. vouchers[n][v] \in Nat  BY <1>2, <1>9, TypeIs
  <2>2. PICK larger \in Nat : larger = LargerOf(vouchers[n][v], paid)
    BY <2>1 DEF LargerOf
  <2>3. vouchers' = [vouchers EXCEPT ![n][v] = larger]  BY <1>9, <2>2
  <2>4. AskedSame  BY <1>1, <1>2, <1>5, <2>3, AskedStays
  <2>5. PICK none : none = {}  OBVIOUS
  <2>6. network' \subseteq network \cup none /\ \A x \in none : x.type # "postfund"
    BY <1>7, <1>9, <2>5 DEF GoOn, Stop, IsLeft
  <2>7. Booked  BY <1>1, <1>2, <1>9, <2>6, NothingBooked
  <2>8. QED  BY <2>4, <2>7
<1>10. QED  BY <1>6, <1>8, <1>9

\* A message is lost, a node is started again, or nothing happens.
LEMMA RestBooks ==
  ASSUME PaidInv, PostfundInv, PaidInv',
         \/ \E m \in network : Lose(m)
         \/ \E n \in Nodes : Restart(n)
         \/ UNCHANGED vars
  PROVE  Booked /\ AskedSame
<1>1. /\ UNCHANGED <<objective, channel, ledger, signed, vouchers>> /\ asked' = asked
      /\ network' \subseteq network
  BY DEF Lose, Restart, vars, stored
<1>2. QED  BY <1>1, QuietBooks

\* A node that saves the copies it has stored leaves the ledgers alone.
LEMMA SavedCopies ==
  ASSUME TypeOK, HistoryInv, NEW n \in Nodes, NEW k, NEW v, NEW o, HasStored(n, o),
         Save(n, k, v, o)
  PROVE  ledger' = ledger /\ signed' = signed
<1>1. \A l \in Ledgers, p \in Parties : Ends[l][p] = n => o.copies[l] = ledger[l][p]
  BY PartyIs DEF HasStored
<1>2. ledger' = ledger
  <2>1. ledger' = [l \in Ledgers |-> [p \in Parties |->
          IF Ends[l][p] = n THEN o.copies[l] ELSE ledger[l][p]]]
    BY DEF Save
  <2>2. \A l \in Ledgers : ledger'[l] = [p \in Parties |-> ledger[l][p]]
    BY <1>1, <2>1
  <2>3. \A l \in Ledgers : ledger'[l] = ledger[l]  BY <2>2 DEF TypeOK
  <2>4. QED  BY <2>1, <2>3 DEF TypeOK
<1>3. signed' = signed
  <2>1. \A l \in Ledgers : Ends[l][Leader] = n => Latest(o.copies[l]) \in signed[l]
    <3>1. SUFFICES ASSUME NEW l \in Ledgers, Ends[l][Leader] = n
                   PROVE  Latest(o.copies[l]) \in signed[l]
      OBVIOUS
    <3>2. o.copies[l] = ledger[l][Leader] /\ Leader \in Parties
      BY <1>1, <3>1, TwoParties
    <3>3. ledger[l][Leader] \in Copy /\ IsPiece(l, ledger[l][Leader])
      BY <3>2 DEF TypeOK, HistoryInv
    <3>4. QED  BY <3>2, <3>3, PieceIs
  <2>2. signed' = [l \in Ledgers |->
          IF Ends[l][Leader] = n THEN signed[l] \cup {Latest(o.copies[l])} ELSE signed[l]]
    BY DEF Save
  <2>3. \A l \in Ledgers : signed'[l] = signed[l]  BY <2>1, <2>2
  <2>4. QED  BY <2>2, <2>3 DEF TypeOK
<1>4. QED  BY <1>2, <1>3

\* Alice's first crank of a defund objective signs the final state, and does
\* nothing yet to her ledgers.
LEMMA RequestDefundStores ==
  ASSUME PaidInv, PromiseInv, PostfundInv, PaidInv', ClientsWait,
         NEW n \in Nodes, NEW w \in Targets, RequestDefund(n, w)
  PROVE  /\ n = Alice(w) /\ HasFunded(n, w) /\ ~ HasAsked(w)
         /\ asked' = asked \cup {<<n, w>>}
         /\ UNCHANGED <<ledger, signed, vouchers>>
         /\ PostfundInv'
<1>1. /\ n = Alice(w) /\ HasFunded(n, w) /\ ~ HasAsked(w)
      /\ asked' = asked \cup {<<n, w>>}
  BY DEF RequestDefund, ClientsWait, MayClose, HasAsked
<1>2. FundingInv /\ FinalInv /\ TypeOK /\ TypeOK' /\ HistoryInv
  BY DEF PaidInv, FundingInv, PromiseInv
<1>3. PICK k \in Kinds : k = "defund"  BY <1>2, RestIs
<1>4. Has(n, w)
  <2>1. objective[n]["fund"][w].status # "unknown"  BY <1>1 DEF HasFunded
  <2>2. "fund" \in Kinds  BY KindsAssumption
  <2>3. QED  BY <1>2, <2>1, <2>2 DEF FundingInv, KnownInv
<1>5. channel[n][w].final = NoFinal
  BY <1>1, <1>2, <1>4 DEF FinalInv, IsWhatAlicePaid, HasAsked
<1>6. PICK o, before, left :
        o = NewDefundObjective(n, w, "approved") /\ before = InMemory(n, k, w)
                                                 /\ left = Left(n)
  OBVIOUS
<1>7. AttemptProgress(n, k, w, before, o, left) /\ vouchers' = vouchers
  BY <1>3, <1>4, <1>6 DEF RequestDefund, Has
<1>8. Ready(n, w, o) /\ o.status = "approved" /\ o.channel = channel[n][w]
  BY <1>2, <1>4, <1>6, RestIs, NewDefundIsReady
<1>9. HasStored(n, before) /\ HasStored(n, o)  BY <1>6, MemoriesHaveStored
<1>10. Told(n, k, w, o)  BY <1>2, <1>3, <1>4, <1>6, RestIs, NewIsTold
<1>11. IsLeft(left)  BY <1>2, <1>6, LeftIs
<1>12. AskedFunded
  <2>1. ASSUME NEW u \in Targets, HasAsked(u)' PROVE HasAsked(u) \/ HasFunded(Alice(u), u)
    BY <1>1, <2>1 DEF HasAsked
  <2>2. QED  BY <2>1 DEF AskedFunded
<1>13. PICK r : /\ r = Crank(n, k, w, o)
                /\ \/ /\ Save(n, k, w, before)
                      /\ Stop(n, r.error, left)
                   \/ /\ r.error = "none"
                      /\ Save(n, k, w, r.o)
                      /\ Stop(n, "cannot transfer ownership", left)
                   \/ /\ r.error = "none"
                      /\ Save(n, k, w, r.o)
                      /\ GoOn(n, left, r.messages, r.heads)
  BY <1>7 DEF AttemptProgress
<1>14. CASE Save(n, k, w, before) /\ Stop(n, r.error, left)
  <2>1. ledger' = ledger /\ signed' = signed  BY <1>2, <1>9, <1>14, SavedCopies
  <2>2. objective' = objective /\ channel' = channel
    BY <1>2, <1>6, <1>14, SavedSame
  <2>3. PICK none : none = {}  OBVIOUS
  <2>4. network' \subseteq network \cup none /\ \A m \in none : m.type # "postfund"
    BY <1>11, <1>14, <2>3 DEF Stop, IsLeft
  <2>5. PostfundInv'  BY <1>2, <1>12, <2>2, <2>4, SameTells
  <2>6. QED  BY <1>1, <1>7, <2>1, <2>5
<1>15. CASE r.error = "none" /\ Save(n, k, w, r.o)
            /\ \/ Stop(n, "cannot transfer ownership", left)
               \/ GoOn(n, left, r.messages, r.heads)
  <2>1. PICK new, messages : new = r.o /\ messages = r.messages  OBVIOUS
  <2>2. r = Crank(n, k, w, o) /\ r.error = "none" /\ o.status # "unknown"
    BY <1>8, <1>13, <1>15
  <2>3. /\ new \in Memory /\ Tells(n, k, w, new)
        /\ Has(n, w) => Grows(channel[n][w], new.channel)
        /\ \A m \in messages : m.type = "postfund" =>
             m.v = w /\ m.from = n /\ n \in new.channel.postfund
    <3>1. /\ r.o \in Memory /\ Tells(n, k, w, r.o)
          /\ Has(n, w) => Grows(channel[n][w], r.o.channel)
          /\ \A m \in r.messages : m.type = "postfund" =>
               m.v = w /\ m.from = n /\ n \in r.o.channel.postfund
      BY <1>8, <1>10, <2>2, CrankTells
    <3>2. QED  BY <2>1, <3>1
  <2>4. Save(n, k, w, new) /\ network' \subseteq network \cup messages
    BY <1>11, <1>15, <2>1 DEF Stop, GoOn, IsLeft
  <2>5. PostfundInv'  BY <1>2, <1>12, <2>3, <2>4, SavedTells
  <2>6. IsCrank(n, w, o, r)  BY <1>8, <2>2, CrankIs
  <2>7. ~ FinalComplete(w, new.channel)
    <3>1. PICK c : c = new.channel  OBVIOUS
    <3>2. c.final # NoFinal => c.final = [paid |-> o.minimum, signed |-> {n}]
      BY <1>5, <1>8, <2>1, <2>6, <3>1 DEF IsCrank
    <3>3. Bob(w) \in Participants(w) /\ Bob(w) # n  BY <1>1, PathIs
    <3>4. c.final # NoFinal => c.final.signed # Participants(w)  BY <3>2, <3>3
    <3>5. QED  BY <3>1, <3>4 DEF FinalComplete
  <2>8. \A l : Offers(k, w, l, new.channel) = {}  BY <1>3, <2>7 DEF Offers
  <2>9. CrankMoves(n, k, w, o, r)  BY <1>8, <2>2, CrankMovesLedgers
  <2>10. PICK updates :
           /\ \A l \in LedgersOf(n, w) :
                Moves(n, l, o.copies[l], Offers(k, w, l, new.channel), updates[l])
           /\ \A l \in Ledgers :
                new.copies[l] = IF l \in LedgersOf(n, w) THEN updates[l].copy ELSE o.copies[l]
    BY <2>1, <2>9 DEF CrankMoves
  <2>11. \A l \in LedgersOf(n, w) : updates[l].copy = o.copies[l]
    BY <2>8, <2>10 DEF Moves
  <2>12. HasStored(n, new)  BY <1>9, <2>10, <2>11 DEF HasStored
  <2>13. ledger' = ledger /\ signed' = signed  BY <1>2, <2>4, <2>12, SavedCopies
  <2>14. QED  BY <1>1, <1>7, <2>5, <2>13
<1>16. QED  BY <1>13, <1>14, <1>15

\* What Alice has funded and not asked to close is still in the leader's
\* consensus of each ledger on the path.
LEMMA FundedIsLed ==
  ASSUME FundingInv, FinalInv, PostfundInv, NEW w \in Targets,
         HasFunded(Alice(w), w), ~ HasAsked(w), NEW l \in Hops(w)
  PROVE  IncludesTarget(ledger[l][Leader].current, w)
<1>1. PICK a \in Nodes : a = Alice(w) /\ a \in Participants(w)  BY PathIs
<1>2. Has(a, w) /\ Participants(w) \subseteq channel[a][w].postfund
  BY <1>1 DEF PostfundInv, IsPostfundedByAll
<1>3. PICK m \in Nodes : m = Ends[l][Leader] /\ m \in Participants(w)
                         /\ l \in LedgersOf(m, w) /\ Party(m, l) = Leader
  BY TwoParties, EndsOfHops
<1>4. IsKept(m, w)  BY <1>2, <1>3 DEF FundingInv, SignaturesInv
<1>5. ~ IsClosedByAll(w)
  BY <1>1 DEF IsClosedByAll, HasClosed, FinalInv, IsWhatAlicePaid, HasAsked
<1>6. QED  BY <1>3, <1>4, <1>5 DEF IsKept, CopyIncludes

\* VirtualDefundObjectiveRequest leaves the books of every ledger in order.
LEMMA RequestDefundBooks ==
  ASSUME PaidInv, PromiseInv, PostfundInv, PaidInv', ClientsWait,
         NEW n \in Nodes, NEW w \in Targets, RequestDefund(n, w),
         NEW l \in Ledgers, LedgerBooks(l)
  PROVE  LedgerBooks(l)'
<1>1. /\ n = Alice(w) /\ HasFunded(n, w) /\ ~ HasAsked(w)
      /\ asked' = asked \cup {<<n, w>>}
      /\ ledger' = ledger /\ signed' = signed /\ vouchers' = vouchers
  BY RequestDefundStores
<1>2. FundingInv /\ FinalInv /\ TypeOK /\ HistoryInv
  BY DEF PaidInv, FundingInv, PromiseInv
<1>3. \A u \in Targets : /\ HasAsked(u)' <=> HasAsked(u) \/ u = w
                         /\ Paid(Alice(u), u)' = Paid(Alice(u), u)
  BY <1>1 DEF HasAsked, Paid
<1>4. Later(l)' = Later(l) /\ Accepted(l)' = Accepted(l)
  BY <1>1 DEF Later, Accepted
<1>5. /\ IsExpected(l) /\ IsLasting(l) /\ IsFinished(l)
      /\ \A s \in Accepted(l) : IsBalanced(l, s)
  BY DEF LedgerBooks
<1>6. \A s \in Later(l) : IncludesTarget(s, w) <=> l \in Hops(w)
  <2>1. ASSUME NEW s \in Later(l), l \in Hops(w) PROVE IncludesTarget(s, w)
    <3>1. PICK first : first = ledger[l][Leader].current  OBVIOUS
    <3>2. IncludesTarget(first, w)  BY <1>1, <1>2, <2>1, <3>1, FundedIsLed
    <3>3. first \in signed[l] /\ first.turnNum \in Nat
      <4>1. ledger[l][Leader] \in Copy /\ IsPiece(l, ledger[l][Leader])
        BY <1>2, TwoParties DEF TypeOK, HistoryInv
      <4>2. first \in signed[l] /\ first \in Vars  BY <3>1, <4>1, PieceIs
      <4>3. QED  BY <4>2 DEF Vars
    <3>4. first \in Later(l) /\ first.turnNum <= s.turnNum
      BY <3>1, <3>3 DEF Later
    <3>5. QED  BY <1>1, <1>5, <3>2, <3>4 DEF IsLasting
  <2>2. ASSUME NEW s \in Later(l), IncludesTarget(s, w) PROVE l \in Hops(w)
    BY <1>5, <2>2 DEF IsExpected, Later
  <2>3. QED  BY <2>1, <2>2
<1>7. IsExpected(l)'  BY <1>1, <1>5 DEF IsExpected
<1>8. IsLasting(l)'  BY <1>3, <1>4, <1>5 DEF IsLasting
<1>9. IsFinished(l)'
  <2>1. ASSUME NEW s \in Later(l), NEW t \in Later(l), NEW v \in Targets,
               s.turnNum <= t.turnNum, IncludesTarget(t, v), HasAsked(v)',
               Ends[l][Leader] = Bob(v) => t \in Accepted(l)
        PROVE  IncludesTarget(s, v)
    <3>1. CASE v = w  BY <1>6, <2>1, <3>1
    <3>2. CASE v # w  BY <1>3, <1>5, <2>1, <3>2 DEF IsFinished
    <3>3. QED  BY <3>1, <3>2
  <2>2. QED  BY <1>4, <2>1 DEF IsFinished
<1>10. ASSUME NEW s \in Accepted(l) PROVE IsBalanced(l, s)'
  <2>1. ASSUME NEW p \in Parties, NEW v \in Targets
        PROVE  Net(l, p, v, s)' = Net(l, p, v, s)
    <3>1. CASE v = w
      <4>1. IncludesTarget(s, v) <=> l \in Hops(v)  BY <1>6, <3>1 DEF Accepted
      <4>2. QED  BY <4>1 DEF Net
    <3>2. CASE v # w  BY <1>3, <3>2 DEF Net
    <3>3. QED  BY <3>1, <3>2
  <2>2. \A p \in Parties :
          [v \in Targets |-> Net(l, p, v, s)'] = [v \in Targets |-> Net(l, p, v, s)]
    BY <2>1
  <2>3. \A p \in Parties :
          s.outcome.balance[p] =
            InitialBalance[l][p] + SumFunction([v \in Targets |-> Net(l, p, v, s)])
    BY <1>5 DEF IsBalanced
  <2>4. \A p \in Parties :
          s.outcome.balance[p] =
            InitialBalance[l][p] + SumFunction([v \in Targets |-> Net(l, p, v, s)'])
    BY <2>2, <2>3
  <2>5. QED  BY <2>4 DEF IsBalanced
<1>11. ledger'[l][Leader].current.turnNum <= ledger'[l][Follower].current.turnNum
  BY <1>1 DEF LedgerBooks
<1>12. QED  BY <1>4, <1>7, <1>8, <1>9, <1>10, <1>11 DEF LedgerBooks

\* At the start no ledger has a guarantee, and nobody has asked for anything.
LEMMA InitBooks ==
  ASSUME IsFiniteSet(Targets), Init
  PROVE  BooksInv
<1>1. PaidInv /\ PromiseInv /\ FundingInv /\ TypeOK
  BY InitPaid, InitPromises DEF PaidInv, FundingInv
<1>2. /\ \A n \in Nodes, v \in Targets : ~ Has(n, v)
      /\ network = {} /\ asked = {}
  BY DEF Init, Has
<1>3. PostfundInv
  <2>1. ASSUME NEW v \in Targets PROVE ~ HasFunded(Alice(v), v) /\ ~ HasAsked(v)
    <3>1. Alice(v) \in Nodes /\ "fund" \in Kinds  BY PathIs, KindsAssumption
    <3>2. objective[Alice(v)]["fund"][v].status = "unknown"
      BY <3>1 DEF Init, Unknown
    <3>3. QED  BY <1>2, <3>2 DEF HasFunded, HasAsked
  <2>2. QED  BY <1>2, <2>1 DEF PostfundInv
<1>4. ASSUME NEW l \in Ledgers PROVE LedgerBooks(l)
  <2>1. PICK first : first = FirstState(l)  OBVIOUS
  <2>2. /\ signed[l] = {first} /\ ledger[l][Leader].current = first
        /\ ledger[l][Follower].current = first
    BY <2>1, TwoParties DEF Init
  <2>3. first.turnNum = 1 /\ first.outcome.balance = InitialBalance[l]
        /\ \A v \in Targets : ~ IncludesTarget(first, v)
    BY <2>1 DEF FirstState, IncludesTarget, Includes
  <2>4. \A s \in signed[l] : s = first  BY <2>2
  <2>5. IsExpected(l) /\ IsLasting(l) /\ IsFinished(l)
    BY <2>3, <2>4 DEF IsExpected, IsLasting, IsFinished, Later, Accepted
  <2>6. IsBalanced(l, first)
    <3>1. ASSUME NEW p \in Parties
          PROVE  first.outcome.balance[p] =
                   InitialBalance[l][p] + SumFunction([v \in Targets |-> Net(l, p, v, first)])
      <4>1. PICK f : f = [v \in Targets |-> Net(l, p, v, first)]  OBVIOUS
      <4>2. \A v \in Targets : Net(l, p, v, first) = 0
        BY <1>2, <2>3 DEF Net, HasAsked
      <4>3. f \in [Targets -> Int] /\ \A v \in Targets \ {} : f[v] = 0
        BY <4>1, <4>2
      <4>4. SumFunction(f) = SumOver(f, {})  BY <4>3, SumOfPart
      <4>5. SumFunction(f) = 0  BY <4>3, <4>4, PartialSums
      <4>6. InitialBalance[l][p] \in Nat  BY BalanceAssumption
      <4>7. QED  BY <2>3, <4>1, <4>5, <4>6
    <3>2. QED  BY <3>1 DEF IsBalanced
  <2>7. \A s \in Accepted(l) : IsBalanced(l, s)
    BY <2>4, <2>6 DEF Accepted, Later
  <2>8. ledger[l][Leader].current.turnNum <= ledger[l][Follower].current.turnNum
    BY <2>2, <2>3
  <2>9. QED  BY <2>5, <2>7, <2>8 DEF LedgerBooks
<1>5. QED  BY <1>1, <1>3, <1>4 DEF BooksInv

\* Every step keeps the books in order when clients wait.
LEMMA NextBooks ==
  ASSUME ClientsWait, IsFiniteSet(Targets), BooksInv, [Next]_vars
  PROVE  BooksInv'
<1>1. PaidInv /\ PromiseInv /\ PostfundInv /\ \A l \in Ledgers : LedgerBooks(l)
  BY DEF BooksInv
<1>2. PaidInv' /\ PromiseInv'  BY <1>1, NextPays, NextPromises
<1>3. TypeOK /\ TypeOK' /\ HistoryInv
  BY <1>1, <1>2 DEF PaidInv, FundingInv, PromiseInv
<1>4. ASSUME Booked, AskedSame
      PROVE  PostfundInv' /\ \A l \in Ledgers : LedgerBooks(l)'
  BY <1>1, <1>3, <1>4, LedgerBooksKeep DEF Booked
<1>5. CASE \E n \in Nodes, v \in Targets : RequestDefund(n, v)
  <2>1. PICK n \in Nodes, v \in Targets : RequestDefund(n, v)  BY <1>5
  <2>2. PostfundInv'  BY <1>1, <1>2, <2>1, RequestDefundStores
  <2>3. \A l \in Ledgers : LedgerBooks(l)'
    BY <1>1, <1>2, <2>1, RequestDefundBooks
  <2>4. QED  BY <1>2, <2>2, <2>3 DEF BooksInv
<1>6. CASE ~ \E n \in Nodes, v \in Targets : RequestDefund(n, v)
  <2>1. ASSUME NEW m \in network, ReceiveMessage(m) PROVE Booked /\ AskedSame
    BY <1>1, <1>2, <2>1, ReceivePayloadBooks, ReceiveProposalsBooks,
       ReceiveRejectionBooks, ReceiveVoucherBooks DEF ReceiveMessage
  <2>2. ASSUME NEW v \in Targets, RequestFund(v) PROVE Booked /\ AskedSame
    BY <1>1, <1>2, <2>2, RequestFundBooks
  <2>3. ASSUME NEW v \in Targets, NEW amount \in 1..MaxAmount, Pay(v, amount)
        PROVE  Booked /\ AskedSame
    BY <1>1, <1>2, <2>3, PayBooks
  <2>4. ASSUME NEW n \in Nodes, ReceiveProposal(n) PROVE Booked /\ AskedSame
    BY <1>1, <1>2, <2>4, HandleProposalBooks
  <2>5. ASSUME NEW n \in Nodes, ProcessHead(n) PROVE Booked /\ AskedSame
    BY <1>1, <1>2, <2>5, HandleProposalBooks
  <2>6. ASSUME \/ \E m \in network : Lose(m)
               \/ \E n \in Nodes : Restart(n)
               \/ UNCHANGED vars
        PROVE  Booked /\ AskedSame
    BY <1>1, <1>2, <2>6, RestBooks
  <2>7. \/ \E v \in Targets : RequestFund(v)
        \/ \E v \in Targets, amount \in 1..MaxAmount : Pay(v, amount)
        \/ \E m \in network : ReceiveMessage(m)
        \/ \E n \in Nodes : ReceiveProposal(n)
        \/ \E n \in Nodes : ProcessHead(n)
        \/ \E m \in network : Lose(m)
        \/ \E n \in Nodes : Restart(n)
        \/ UNCHANGED vars
    BY <1>6 DEF Next
  <2>8. Booked /\ AskedSame  BY ONLY <2>1, <2>2, <2>3, <2>4, <2>5, <2>6, <2>7
  <2>9. QED  BY <1>2, <1>4, <2>8 DEF BooksInv
<1>7. QED  BY <1>5, <1>6

\* What every accepted state of a ledger says: its parties have what they
\* started with, less what is locked in guarantees, and more or less what the
\* channels that are closed made them pay.
THEOREM BooksInvariance ==
  ASSUME ClientsWait, IsFiniteSet(Targets)
  PROVE  Spec => []BooksInv
<1>1. Init => BooksInv  BY InitBooks
<1>2. BooksInv /\ [Next]_vars => BooksInv'  BY NextBooks
<1>3. QED  BY <1>1, <1>2, PTL DEF Spec

\* The hops of a path are different ledgers; the neighbour nearer to Alice is
\* the left party of each, and the other is not.
LEMMA SidesOfHops ==
  ASSUME NEW v \in Targets, NEW i \in 1..Len(Path[v]) - 1, NEW l, l = Hop(v, i)
  PROVE  /\ \A j \in 1..Len(Path[v]) - 1 : Hop(v, j) = l => j = i
         /\ LeftParty(v, l) = Party(Path[v][i], l)
         /\ Party(Path[v][i + 1], l) # Party(Path[v][i], l)
<1>1. /\ Path[v] \in Seq(Nodes) /\ Len(Path[v]) \in Nat
      /\ i \in 1..Len(Path[v]) /\ i + 1 \in 1..Len(Path[v])
      /\ \A a, b \in 1..Len(Path[v]) : Path[v][a] = Path[v][b] => a = b
  BY PathIs, PathAssumption
<1>2. l \in Ledgers /\ {Ends[l][Leader], Ends[l][Follower]} = {Path[v][i], Path[v][i + 1]}
  BY HopIs
<1>3. ASSUME NEW j \in 1..Len(Path[v]) - 1, Hop(v, j) = l PROVE j = i
  <2>1. {Path[v][i], Path[v][i + 1]} = {Path[v][j], Path[v][j + 1]}
    BY <1>2, <1>3, HopIs
  <2>2. j \in 1..Len(Path[v]) /\ j + 1 \in 1..Len(Path[v])  BY <1>1
  <2>3. \/ Path[v][i] = Path[v][j]
        \/ Path[v][i] = Path[v][j + 1] /\ Path[v][i + 1] = Path[v][j]
    BY <2>1
  <2>4. CASE Path[v][i] = Path[v][j]  BY <1>1, <2>2, <2>4
  <2>5. CASE Path[v][i] = Path[v][j + 1] /\ Path[v][i + 1] = Path[v][j]
    <3>1. i = j + 1 /\ i + 1 = j  BY <1>1, <2>2, <2>5
    <3>2. QED  BY <3>1
  <2>6. QED  BY <2>3, <2>4, <2>5
<1>4. LeftParty(v, l) = Party(Path[v][i], l)
  <2>1. (CHOOSE j \in 1..Len(Path[v]) - 1 : Hop(v, j) = l) = i  BY <1>3
  <2>2. QED  BY <2>1 DEF LeftParty
<1>5. Party(Path[v][i + 1], l) # Party(Path[v][i], l)
  <2>1. PICK m \in Nodes, n \in Nodes : m = Path[v][i] /\ n = Path[v][i + 1]
    BY <1>1
  <2>2. {Ends[l][Leader], Ends[l][Follower]} = {m, n} /\ Ends[l][Leader] # Ends[l][Follower]
    BY <1>2, <2>1, EndsAssumption
  <2>3. Ends[l][Leader] = m <=> Ends[l][Leader] # n  BY <2>2
  <2>4. Party(n, l) # Party(m, l)  BY <2>3, TwoParties DEF Party
  <2>5. QED  BY <2>1, <2>4
<1>6. QED  BY <1>3, <1>4, <1>5

\* What a channel that is closed has made of a node's balances: an intermediary
\* gets on one side what it gives on the other.
LEMMA NetOfPath ==
  ASSUME IsFiniteSet(Ledgers), NEW v \in Targets, NEW n \in Nodes,
         NEW Own \in SUBSET Ledgers, LedgersOf(n, v) = Own \cap Hops(v),
         NEW paid \in Int, NEW f,
         f = [l \in Own |-> IF l \notin Hops(v) THEN 0
                            ELSE IF Party(n, l) = LeftParty(v, l) THEN - paid ELSE paid]
  PROVE  /\ f \in [Own -> Int]
         /\ SumFunction(f) = IF n = Alice(v) THEN - paid
                             ELSE IF n = Bob(v) THEN paid ELSE 0
<1>1. IsFiniteSet(Own)  BY FS_Subset
<1>2. f \in [Own -> Int] /\ LedgersOf(n, v) \subseteq Own
      /\ \A l \in Own \ LedgersOf(n, v) : f[l] = 0
  BY DEF LedgersOf
<1>3. PICK F : F = [s \in SUBSET Own |-> SumOver(f, s)]  OBVIOUS
<1>4. /\ SumFunction(f) = F[LedgersOf(n, v)] /\ F[{}] = 0
      /\ \A s \in SUBSET Own : \A x \in s : F[s] = f[x] + F[s \ {x}]
  <2>1. SumFunction(f) = SumOver(f, LedgersOf(n, v))  BY <1>1, <1>2, SumOfPart
  <2>2. /\ SumOver(f, {}) = 0
        /\ \A s \in SUBSET Own : \A x \in s : SumOver(f, s) = f[x] + SumOver(f, s \ {x})
    BY <1>1, <1>2, PartialSums
  <2>3. \A s \in SUBSET Own : \A x \in s : s \ {x} \in SUBSET Own  OBVIOUS
  <2>4. QED  BY <1>2, <1>3, <2>1, <2>2, <2>3
<1>5. PICK N \in Nat : N = Len(Path[v])  BY PathIs
<1>6. /\ N >= 2 /\ Path[v] \in Seq(Nodes)
      /\ Alice(v) = Path[v][1] /\ Bob(v) = Path[v][N]
      /\ \A a, b \in 1..N : Path[v][a] = Path[v][b] => a = b
  BY <1>5, PathIs, PathAssumption DEF Alice, Bob
<1>7. ASSUME NEW i \in 1..N - 1, NEW l, l = Hop(v, i)
      PROVE  /\ l \in Hops(v)
             /\ n = Path[v][i] => l \in LedgersOf(n, v) /\ f[l] = - paid
             /\ n = Path[v][i + 1] => l \in LedgersOf(n, v) /\ f[l] = paid
             /\ l \in LedgersOf(n, v) => n = Path[v][i] \/ n = Path[v][i + 1]
  <2>1. l \in Hops(v)  BY <1>5, <1>7 DEF Hops
  <2>2. {Ends[l][Leader], Ends[l][Follower]} = {Path[v][i], Path[v][i + 1]}
    BY <1>5, <1>7, HopIs
  <2>3. LeftParty(v, l) = Party(Path[v][i], l)
        /\ Party(Path[v][i + 1], l) # Party(Path[v][i], l)
    BY <1>5, <1>7, SidesOfHops
  <2>4. n \in {Path[v][i], Path[v][i + 1]} => l \in LedgersOf(n, v)
    BY <2>1, <2>2, TwoParties DEF LedgersOf
  <2>5. l \in LedgersOf(n, v) => n \in {Path[v][i], Path[v][i + 1]}
    BY <2>2, TwoParties DEF LedgersOf
  <2>6. QED  BY <1>2, <2>1, <2>3, <2>4, <2>5
<1>8. \A l \in Hops(v) : \E i \in 1..N - 1 : l = Hop(v, i)  BY <1>5 DEF Hops
<1>9. CASE n \notin Participants(v)
  <2>1. LedgersOf(n, v) = {}
    <3>1. ASSUME NEW l \in LedgersOf(n, v) PROVE FALSE
      <4>1. PICK p \in Parties : l \in Hops(v) /\ Ends[l][p] = n
        BY DEF LedgersOf
      <4>2. QED  BY <1>9, <4>1, EndsOfHops
    <3>2. QED  BY <3>1
  <2>2. n # Alice(v) /\ n # Bob(v)  BY <1>9, PathIs
  <2>3. QED  BY <1>2, <1>4, <2>1, <2>2
<1>10. CASE n \in Participants(v)
  <2>1. PICK i \in 1..N : n = Path[v][i]  BY <1>5, <1>10, PathIs
  <2>2. \A j \in 1..N - 1 : /\ n = Path[v][j] => j = i
                            /\ n = Path[v][j + 1] => j + 1 = i
    BY <1>6, <2>1
  <2>3. CASE i = 1
    <3>1. PICK l : l = Hop(v, 1)  OBVIOUS
    <3>2. 1 \in 1..N - 1  BY <1>6
    <3>3. l \in LedgersOf(n, v) /\ f[l] = - paid
      BY <1>7, <2>1, <2>3, <3>1, <3>2
    <3>4. ASSUME NEW h \in LedgersOf(n, v) PROVE h = l
      <4>1. PICK j \in 1..N - 1 : h = Hop(v, j)  BY <1>8 DEF LedgersOf
      <4>2. n = Path[v][j] \/ n = Path[v][j + 1]  BY <1>7, <4>1
      <4>3. j = 1  BY <2>2, <2>3, <4>2
      <4>4. QED  BY <3>1, <4>1, <4>3
    <3>5. LedgersOf(n, v) \ {l} = {}  BY <3>4
    <3>6. F[LedgersOf(n, v)] = - paid
      <4>1. F[LedgersOf(n, v)] = f[l] + F[LedgersOf(n, v) \ {l}]
        BY <1>2, <1>4, <3>3
      <4>2. F[LedgersOf(n, v)] = f[l] + 0  BY <1>4, <3>5, <4>1
      <4>3. QED  BY <3>3, <4>2
    <3>7. n = Alice(v)  BY <1>6, <2>1, <2>3
    <3>8. QED  BY <1>2, <1>4, <3>6, <3>7
  <2>4. CASE i = N
    <3>1. PICK j \in 1..N - 1 : j = N - 1  BY <1>6
    <3>2. PICK l : l = Hop(v, j)  OBVIOUS
    <3>3. n = Path[v][j + 1]  BY <2>1, <2>4, <3>1
    <3>4. l \in LedgersOf(n, v) /\ f[l] = paid  BY <1>7, <3>2, <3>3
    <3>5. ASSUME NEW h \in LedgersOf(n, v) PROVE h = l
      <4>1. PICK g \in 1..N - 1 : h = Hop(v, g)  BY <1>8 DEF LedgersOf
      <4>2. n = Path[v][g] \/ n = Path[v][g + 1]  BY <1>7, <4>1
      <4>3. g = j  BY <2>2, <2>4, <3>1, <4>2
      <4>4. QED  BY <3>2, <4>1, <4>3
    <3>6. LedgersOf(n, v) \ {l} = {}  BY <3>5
    <3>7. F[LedgersOf(n, v)] = paid
      <4>1. F[LedgersOf(n, v)] = f[l] + F[LedgersOf(n, v) \ {l}]
        BY <1>2, <1>4, <3>4
      <4>2. F[LedgersOf(n, v)] = f[l] + 0  BY <1>4, <3>6, <4>1
      <4>3. QED  BY <3>4, <4>2
    <3>8. n = Bob(v) /\ n # Alice(v)  BY <1>6, <2>1, <2>4, PathIs
    <3>9. QED  BY <1>2, <1>4, <3>7, <3>8
  <2>5. CASE i # 1 /\ i # N
    <3>0. i - 1 \in 1..N - 1 /\ (i - 1) + 1 = i /\ i \in 1..N - 1  BY <1>6, <2>5
    <3>1. PICK j \in 1..N - 1 : j + 1 = i /\ i \in 1..N - 1  BY <3>0
    <3>2. PICK l, r : l = Hop(v, j) /\ r = Hop(v, i)  OBVIOUS
    <3>3. l \in LedgersOf(n, v) /\ f[l] = paid  BY <1>7, <2>1, <3>1, <3>2
    <3>4. r \in LedgersOf(n, v) /\ f[r] = - paid  BY <1>7, <2>1, <3>1, <3>2
    <3>5. l # r
      <4>1. Hop(v, i) = l => i = j  BY <1>5, <3>1, <3>2, SidesOfHops
      <4>2. QED  BY <3>1, <3>2, <4>1
    <3>6. ASSUME NEW h \in LedgersOf(n, v) PROVE h = l \/ h = r
      <4>1. PICK g \in 1..N - 1 : h = Hop(v, g)  BY <1>8 DEF LedgersOf
      <4>2. n = Path[v][g] \/ n = Path[v][g + 1]  BY <1>7, <4>1
      <4>3. g = i \/ g = j  BY <2>2, <3>1, <4>2
      <4>4. QED  BY <3>2, <4>1, <4>3
    <3>7. LedgersOf(n, v) \ {l} = {r}  BY <3>4, <3>5, <3>6
    <3>8. F[LedgersOf(n, v)] = f[l] + F[{r}] /\ F[{r}] = f[r] + F[{}]
      <4>1. F[LedgersOf(n, v)] = f[l] + F[LedgersOf(n, v) \ {l}]
        BY <1>2, <1>4, <3>3
      <4>2. {r} \in SUBSET Own /\ {r} \ {r} = {}  BY <1>2, <3>4
      <4>3. F[{r}] = f[r] + F[{r} \ {r}]  BY <1>4, <4>2
      <4>4. QED  BY <3>7, <4>1, <4>2, <4>3
    <3>9. F[LedgersOf(n, v)] = 0  BY <1>4, <3>3, <3>4, <3>8
    <3>10. n # Alice(v) /\ n # Bob(v)  BY <1>6, <2>1, <2>5
    <3>11. QED  BY <1>2, <1>4, <3>9, <3>10
  <2>6. QED  BY <2>3, <2>4, <2>5
<1>11. QED  BY <1>9, <1>10

\* What a channel earns a node none of whose ledgers has its guarantee: nothing
\* unless Alice has asked to close it, and then what she paid.
LEMMA EarnedIs ==
  ASSUME FundingInv, FinalInv, PostfundInv, NEW v \in Targets, NEW n \in Participants(v),
         \A l \in LedgersOf(n, v) : ~ CopyIncludes(ledger[l][Party(n, l)], v)
  PROVE  Earned(n, v) = IF ~ HasAsked(v) THEN 0
                        ELSE IF n = Alice(v) THEN - Paid(Alice(v), v)
                        ELSE IF n = Bob(v) THEN Paid(Alice(v), v) ELSE 0
<1>1. n \in Nodes  BY PathIs
<1>2. CASE ~ HasAsked(v)
  <2>1. Has(n, v) => channel[n][v].final = NoFinal
    BY <1>1, <1>2 DEF FinalInv, IsWhatAlicePaid, HasAsked
  <2>2. QED  BY <1>2, <2>1 DEF Earned
<1>3. CASE HasAsked(v)
  <2>1. PICK a \in Nodes : a = Alice(v)  BY PathIs
  <2>2. Has(a, v) /\ n \in channel[a][v].postfund
    BY <1>3, <2>1 DEF PostfundInv, IsPostfundedByAll
  <2>3. IsPostfunded(n, v)  BY <2>2 DEF PostfundInv
  <2>4. Has(n, v) /\ channel[n][v].postfund # {}  BY <2>3 DEF IsPostfunded
  <2>5. IsKept(n, v)  BY <2>2 DEF FundingInv, SignaturesInv
  <2>6. LedgersOf(n, v) # {}
    <3>1. OwnHops(n, v) \in Seq(LedgersOf(n, v)) /\ Len(OwnHops(n, v)) \in {1, 2}
      BY OwnHopsAre
    <3>2. OwnHops(n, v)[1] \in LedgersOf(n, v)  BY <3>1
    <3>3. QED  BY <3>2
  <2>7. IsClosedByAll(v)  BY <2>5, <2>6 DEF IsKept
  <2>8. channel[n][v].final # NoFinal  BY <2>7 DEF IsClosedByAll, HasClosed
  <2>9. channel[n][v].final.paid = Paid(Alice(v), v)
    BY <1>1, <2>4, <2>8 DEF FinalInv, IsWhatAlicePaid
  <2>10. QED  BY <1>3, <2>4, <2>8, <2>9 DEF Earned
<1>4. QED  BY <1>2, <1>3

\* What a party has accepted is an accepted state.
LEMMA CurrentIsBalanced ==
  ASSUME TypeOK, HistoryInv, NEW l \in Ledgers, LedgerBooks(l), NEW p \in Parties
  PROVE  IsBalanced(l, ledger[l][p].current)
<1>1. \A q \in Parties : /\ ledger[l][q].current \in signed[l]
                         /\ ledger[l][q].current.turnNum \in Nat
  <2>1. SUFFICES ASSUME NEW q \in Parties
                 PROVE  /\ ledger[l][q].current \in signed[l]
                        /\ ledger[l][q].current.turnNum \in Nat
    OBVIOUS
  <2>2. ledger[l][q] \in Copy /\ IsPiece(l, ledger[l][q])
    BY DEF TypeOK, HistoryInv
  <2>3. ledger[l][q].current \in signed[l] /\ ledger[l][q].current \in Vars
    BY <2>2, PieceIs
  <2>4. QED  BY <2>3 DEF Vars
<1>2. ledger[l][Leader].current.turnNum <= ledger[l][Follower].current.turnNum
  BY DEF LedgerBooks
<1>3. ledger[l][p].current \in Accepted(l)
  <2>1. PICK a, b, c : /\ a = ledger[l][Leader].current /\ b = ledger[l][Follower].current
                       /\ c = ledger[l][p].current
    OBVIOUS
  <2>2. a.turnNum <= c.turnNum /\ c.turnNum <= b.turnNum /\ c \in signed[l]
    BY <1>1, <1>2, <2>1, TwoParties
  <2>3. QED  BY <2>1, <2>2 DEF Accepted, Later
<1>4. QED  BY <1>3 DEF LedgerBooks

\* Whenever none of a node's ledgers has a guarantee, its balances add up to
\* what it started with, less what it paid as Alice, plus what it earned as Bob.
LEMMA BooksAddUp ==
  ASSUME IsFiniteSet(Targets), IsFiniteSet(Ledgers), BooksInv, NEW n \in Nodes,
         \A l \in Ledgers, v \in Targets :
           Ends[l][Party(n, l)] = n => ~ CopyIncludes(ledger[l][Party(n, l)], v),
         NEW Own, Own = {l \in Ledgers : \E p \in Parties : Ends[l][p] = n}
  PROVE  SumFunction([l \in Own |->
                        ledger[l][Party(n, l)].current.outcome.balance[Party(n, l)]])
           = SumFunction([l \in Own |-> InitialBalance[l][Party(n, l)]])
               + SumFunction([v \in {u \in Targets : n \in Participants(u)} |-> Earned(n, v)])
<1>1. /\ TypeOK /\ FundingInv /\ FinalInv /\ PostfundInv /\ HistoryInv
      /\ \A l \in Ledgers : LedgerBooks(l)
  BY DEF BooksInv, PaidInv, PromiseInv, FundingInv
<1>2. /\ Own \in SUBSET Ledgers /\ IsFiniteSet(Own)
      /\ \A l \in Own : Party(n, l) \in Parties /\ Ends[l][Party(n, l)] = n
  BY FS_Subset, PartyIs
<1>3. PICK paid : paid = [v \in Targets |-> IF HasAsked(v) THEN Paid(Alice(v), v) ELSE 0]
  OBVIOUS
<1>4. \A v \in Targets : paid[v] \in Int
  <2>1. SUFFICES ASSUME NEW v \in Targets PROVE paid[v] \in Int  OBVIOUS
  <2>2. PICK a \in Nodes : a = Alice(v)  BY PathIs
  <2>3. Paid(a, v) \in Nat  BY <1>1, <2>2, TypeIs
  <2>4. paid[v] = IF HasAsked(v) THEN Paid(a, v) ELSE 0  BY <1>3, <2>2
  <2>5. QED  BY <2>3, <2>4
<1>5. PICK m : m = [l \in Own |-> [v \in Targets |->
                      IF l \notin Hops(v) THEN 0
                      ELSE IF Party(n, l) = LeftParty(v, l) THEN - paid[v] ELSE paid[v]]]
  OBVIOUS
<1>6. \A l \in Own, v \in Targets :
        /\ m[l][v] = IF l \notin Hops(v) THEN 0
                     ELSE IF Party(n, l) = LeftParty(v, l) THEN - paid[v] ELSE paid[v]
        /\ m[l][v] \in Int
  <2>1. \A l \in Own, v \in Targets :
          m[l][v] = IF l \notin Hops(v) THEN 0
                    ELSE IF Party(n, l) = LeftParty(v, l) THEN - paid[v] ELSE paid[v]
    BY <1>5
  <2>2. ASSUME NEW l \in Own, NEW v \in Targets
        PROVE  m[l][v] \in Int
    <3>1. PICK a \in Int : a = paid[v]  BY <1>4
    <3>2. a \in Int /\ - a \in Int  OBVIOUS
    <3>3. m[l][v] \in {0, - a, a}  BY <2>1, <3>1
    <3>4. QED  BY <3>2, <3>3
  <2>3. QED  BY <2>1, <2>2
<1>7. PICK before, now, moved :
        /\ before = [l \in Own |-> InitialBalance[l][Party(n, l)]]
        /\ now = [l \in Own |-> ledger[l][Party(n, l)].current.outcome.balance[Party(n, l)]]
        /\ moved = [l \in Own |-> SumFunction([v \in Targets |-> m[l][v]])]
  OBVIOUS
<1>8. /\ before \in [Own -> Int] /\ moved \in [Own -> Int] /\ now \in [Own -> Int]
      /\ \A l \in Own : now[l] = before[l] + moved[l]
  <2>1. ASSUME NEW l \in Own
        PROVE  /\ before[l] \in Int /\ moved[l] \in Int /\ now[l] \in Int
               /\ now[l] = before[l] + moved[l]
    <3>1. PICK p \in Parties : p = Party(n, l)  BY <1>2
    <3>2. InitialBalance[l][p] \in Nat  BY <1>2, BalanceAssumption
    <3>3. PICK row : row = [v \in Targets |-> m[l][v]]  OBVIOUS
    <3>4. row \in [Targets -> Int]  BY <1>6, <3>3
    <3>5. SumFunction(row) \in Int  BY <3>4, PartialSums
    <3>6. PICK state : state = ledger[l][p].current  OBVIOUS
    <3>7. state.outcome.balance[p] =
            InitialBalance[l][p] + SumFunction([v \in Targets |-> Net(l, p, v, state)])
      BY <1>1, <1>2, <3>6, CurrentIsBalanced DEF IsBalanced
    <3>8. ASSUME NEW v \in Targets PROVE Net(l, p, v, state) = row[v]
      <4>1. ~ IncludesTarget(state, v)  BY <1>2, <3>1, <3>6 DEF CopyIncludes
      <4>2. row[v] = IF l \notin Hops(v) THEN 0
                     ELSE IF p = LeftParty(v, l) THEN - paid[v] ELSE paid[v]
        BY <1>6, <3>1, <3>3
      <4>3. CASE HasAsked(v)
        <5>1. paid[v] = Paid(Alice(v), v)  BY <1>3, <4>3
        <5>2. QED  BY <4>1, <4>2, <4>3, <5>1 DEF Net
      <4>4. CASE ~ HasAsked(v)
        <5>1. paid[v] = 0  BY <1>3, <4>4
        <5>2. PICK a \in Int : a = paid[v]  BY <1>4
        <5>3. PICK b \in Int : b = - a /\ b + a = 0  OBVIOUS
        <5>4. row[v] \in {0, b, a}  BY <4>2, <5>2, <5>3
        <5>5. b + a = 0  BY <5>3
        <5>6. a = 0  BY <5>1, <5>2
        <5>7. b = 0  BY <5>5, <5>6
        <5>8. row[v] = 0  BY <5>4, <5>6, <5>7
        <5>9. QED  BY <4>1, <4>4, <5>8 DEF Net
      <4>5. QED  BY <4>3, <4>4
    <3>9. [v \in Targets |-> Net(l, p, v, state)] = row  BY <3>3, <3>8
    <3>10. before[l] = InitialBalance[l][p] /\ now[l] = state.outcome.balance[p]
           /\ moved[l] = SumFunction(row)
      BY <1>7, <3>1, <3>3, <3>6
    <3>11. now[l] = before[l] + moved[l] /\ before[l] \in Int /\ moved[l] \in Int
      BY <3>2, <3>5, <3>7, <3>9, <3>10
    <3>12. QED  BY <3>11
  <2>2. before \in [Own -> Int]  BY <1>7, <2>1
  <2>3. moved \in [Own -> Int]  BY <1>7, <2>1
  <2>4. now \in [Own -> Int]  BY <1>7, <2>1
  <2>5. QED  BY <2>1, <2>2, <2>3, <2>4
<1>9. SumFunction(now) = SumFunction(before) + SumFunction(moved)
  BY <1>2, <1>8, SumOfBoth
<1>10. PICK earned : earned = [v \in Targets |-> SumFunction([l \in Own |-> m[l][v]])]
  OBVIOUS
<1>11. earned \in [Targets -> Int] /\ SumFunction(moved) = SumFunction(earned)
  <2>1. PICK byLedger, byTarget :
          /\ byLedger = [l \in Own |-> [v \in Targets |-> m[l][v]]]
          /\ byTarget = [v \in Targets |-> [l \in Own |-> m[l][v]]]
    OBVIOUS
  <2>2. byLedger \in [Own -> [Targets -> Int]]  BY <1>6, <2>1
  <2>3. byTarget \in [Targets -> [Own -> Int]]  BY <1>6, <2>1
  <2>4. \A l \in Own, v \in Targets : byLedger[l][v] = byTarget[v][l]  BY <2>1
  <2>5. \A l \in Own : moved[l] = SumFunction(byLedger[l])  BY <1>7, <2>1
  <2>6. \A v \in Targets : earned[v] = SumFunction(byTarget[v])  BY <1>10, <2>1
  <2>7. \A v \in Targets : earned[v] \in Int
    <3>1. SUFFICES ASSUME NEW v \in Targets PROVE SumFunction(byTarget[v]) \in Int
      BY <2>6
    <3>2. byTarget[v] \in [Own -> Int]  BY <2>3
    <3>3. QED  BY <1>2, <3>2, PartialSums
  <2>8. moved \in [Own -> Int]  BY <1>8
  <2>9. earned \in [Targets -> Int]  BY <1>10, <2>7
  <2>10. IsFiniteSet(Own)  BY <1>2
  <2>11. SumFunction(moved) = SumFunction(earned)
    <3>1. AreSumsOfTable(Own, Targets, byLedger, byTarget, moved, earned)
      BY <2>2, <2>3, <2>4, <2>5, <2>6, <2>8, <2>9 DEF AreSumsOfTable
    <3>2. QED  BY <2>10, <3>1, SumsSwap
  <2>12. QED  BY <2>9, <2>11
<1>12. ASSUME NEW v \in Targets
       PROVE  /\ earned[v] \in Int
              /\ earned[v] = IF n \in Participants(v) THEN Earned(n, v) ELSE 0
  <2>1. PICK f : f = [l \in Own |-> IF l \notin Hops(v) THEN 0
                        ELSE IF Party(n, l) = LeftParty(v, l) THEN - paid[v] ELSE paid[v]]
    OBVIOUS
  <2>2. [l \in Own |-> m[l][v]] = f  BY <1>6, <2>1
  <2>3. LedgersOf(n, v) = Own \cap Hops(v)
    <3>1. LedgersOf(n, v) \subseteq Ledgers  BY LedgersOfAre
    <3>2. QED  BY <3>1 DEF LedgersOf
  <2>4. PICK a \in Int : a = paid[v]  BY <1>4
  <2>5. SumFunction(f) = IF n = Alice(v) THEN - a ELSE IF n = Bob(v) THEN a ELSE 0
    <3>1. f = [l \in Own |-> IF l \notin Hops(v) THEN 0
                        ELSE IF Party(n, l) = LeftParty(v, l) THEN - a ELSE a]
      BY <2>1, <2>4
    <3>2. QED  BY <1>2, <2>3, <3>1, NetOfPath
  <2>6. earned[v] = IF n = Alice(v) THEN - a ELSE IF n = Bob(v) THEN a ELSE 0
    BY <1>10, <2>2, <2>5
  <2>7. earned[v] \in Int
    <3>1. a \in Int /\ - a \in Int  OBVIOUS
    <3>2. QED  BY <2>6, <3>1
  <2>8. CASE n \in Participants(v)
    <3>1. \A l \in LedgersOf(n, v) : ~ CopyIncludes(ledger[l][Party(n, l)], v)
      BY LedgersOfAre
    <3>2. Earned(n, v) = IF ~ HasAsked(v) THEN 0
                         ELSE IF n = Alice(v) THEN - Paid(Alice(v), v)
                         ELSE IF n = Bob(v) THEN Paid(Alice(v), v) ELSE 0
      BY <1>1, <2>8, <3>1, EarnedIs
    <3>3. CASE HasAsked(v)
      <4>1. a = Paid(Alice(v), v)  BY <1>3, <2>4, <3>3
      <4>2. QED  BY <2>6, <2>7, <2>8, <3>2, <3>3, <4>1
    <3>4. CASE ~ HasAsked(v)
      <4>1. a = 0  BY <1>3, <2>4, <3>4
      <4>2. PICK b \in Int : b = - a /\ b + a = 0  OBVIOUS
      <4>3. earned[v] \in {0, b, a}  BY <2>6, <4>2
      <4>4. b + a = 0  BY <4>2
      <4>5. b = 0  BY <4>1, <4>4
      <4>6. earned[v] = 0  BY <4>1, <4>3, <4>5
      <4>7. QED  BY <2>7, <2>8, <3>2, <3>4, <4>6
    <3>5. QED  BY <3>3, <3>4
  <2>9. CASE n \notin Participants(v)  BY <2>6, <2>7, <2>9, PathIs
  <2>10. QED  BY <2>8, <2>9
<1>13. PICK mine : mine = {u \in Targets : n \in Participants(u)}  OBVIOUS
<1>14. SumFunction(earned) = SumOver(earned, mine)
  <2>1. earned \in [Targets -> Int]  BY <1>11
  <2>2. mine \in SUBSET Targets /\ \A v \in Targets \ mine : earned[v] = 0
    BY <1>12, <1>13
  <2>3. QED  BY <2>1, <2>2, SumOfPart
<1>15. SumOver(earned, mine) = SumFunction([v \in mine |-> Earned(n, v)])
  <2>1. \A v \in mine : earned[v] = Earned(n, v)  BY <1>12, <1>13
  <2>2. [v \in mine |-> earned[v]] = [v \in mine |-> Earned(n, v)]  BY <2>1
  <2>3. QED  BY <2>2 DEF SumOver
<1>16. SumFunction(now) =
         SumFunction(before) + SumFunction([v \in mine |-> Earned(n, v)])
  BY <1>9, <1>11, <1>14, <1>15
<1>17. QED  BY <1>7, <1>13, <1>16

\* Whenever none of a node's ledgers has a guarantee, in its own copies its
\* balances add up to what it started with, less what its closed channels made
\* it pay as Alice, plus what they earned it as Bob, when clients wait and
\* leave it to Alice to close.
THEOREM BooksBalanceHolds ==
  ASSUME ClientsWait, IsFiniteSet(Targets), IsFiniteSet(Ledgers)
  PROVE  Spec => []BooksBalance
<1>1. BooksInv => BooksBalance  BY BooksAddUp DEF BooksBalance, OwnBalances
<1>2. QED  BY <1>1, BooksInvariance, PTL
=============================================================================
