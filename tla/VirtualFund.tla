----------------------------- MODULE VirtualFund -----------------------------
(***************************************************************************)
(* The virtual-fund objective (protocols/virtualfund/virtualfund.ts): what *)
(* one participant's crank makes of its objective, its virtual channel and *)
(* its copies of the ledgers.  Alice is the first participant of a virtual *)
(* channel, Bob the last, the others are intermediaries; each has a ledger *)
(* with its neighbours, and a guarantee in each of them funds the channel. *)
(* Module PaymentChannels has the engines that run these objectives.       *)
(***************************************************************************)
EXTENDS LedgerCopies, Functions

CONSTANTS
  Nodes,
  Ledgers,        \* ids of the ledger channels
  Ends,           \* the leader and the follower of each
  Path,           \* the participants of each virtual channel, Alice first
  Deposit,        \* what Alice (a0) and Bob (b0) have in each virtual channel
  NoFinal         \* a virtual channel without a final state

\* A ledger is between two nodes.  A path has at least Alice and Bob, nobody
\* twice, and a ledger between every two neighbours (the constructor of the
\* objective throws without them).
ASSUME EndsAssumption ==
  /\ Ends \in [Ledgers -> [Parties -> Nodes]]
  /\ \A l \in Ledgers : Ends[l][Leader] # Ends[l][Follower]
ASSUME PathAssumption ==
  /\ Path \in [Targets -> Seq(Nodes)]
  /\ \A v \in Targets :
       /\ Len(Path[v]) >= 2
       /\ \A i, j \in 1..Len(Path[v]) : Path[v][i] = Path[v][j] => i = j
       /\ \A i \in 1..Len(Path[v]) - 1 :
            \E l \in Ledgers :
              {Ends[l][Leader], Ends[l][Follower]} = {Path[v][i], Path[v][i + 1]}
ASSUME DepositAssumption ==
  /\ Deposit \in [Targets -> [a0 : Nat, b0 : Nat]]
  /\ \A v \in Targets : Deposit[v].a0 + Deposit[v].b0 <= MaxAmount

\* The signatures on the states of a virtual channel that a node has.
FinalState == [paid : Nat, signed : SUBSET Nodes]
Channel    == [prefund : SUBSET Nodes, postfund : SUBSET Nodes,
               final : FinalState \cup {NoFinal}]

ASSUME NoFinalAssumption == NoFinal \notin FinalState

NewChannel == [prefund |-> {}, postfund |-> {}, final |-> NoFinal]

(***************************************************************************)
(* Roles, and the connections to the left and to the right.                *)
(***************************************************************************)
Participants(v) == Range(Path[v])
Alice(v) == Path[v][1]
Bob(v)   == Path[v][Len(Path[v])]
IsIntermediary(n, v) == n \in Participants(v) \ {Alice(v), Bob(v)}

LedgerBetween(m, n) ==
  CHOOSE l \in Ledgers : {Ends[l][Leader], Ends[l][Follower]} = {m, n}

Party(n, l) == IF Ends[l][Leader] = n THEN Leader ELSE Follower

\* Hop(v, i) is the ledger between participants i and i + 1.
Hop(v, i) == LedgerBetween(Path[v][i], Path[v][i + 1])
Hops(v)   == {Hop(v, i) : i \in 1..Len(Path[v]) - 1}

\* The ledgers of node n that v runs over.
LedgersOf(n, v) == {l \in Hops(v) : \E p \in Parties : Ends[l][p] = n}

(***************************************************************************)
(* insertGuaranteeInfo, getExpectedGuarantee and expectedProposal.  In     *)
(* every hop the neighbour nearer to Alice is the left one.                *)
(***************************************************************************)
LeftParty(v, l) ==
  LET i == CHOOSE i \in 1..Len(Path[v]) - 1 : Hop(v, i) = l
  IN Party(Path[v][i], l)

ExpectedGuarantee(v, l) ==
  [amount |-> Deposit[v].a0 + Deposit[v].b0, left |-> LeftParty(v, l)]

DepositOfLeft(v)  == Deposit[v].a0

ExpectedProposal(v, l) ==
  [type |-> "add", target |-> v, amount |-> ExpectedGuarantee(v, l).amount,
   left |-> LeftParty(v, l), leftDeposit |-> DepositOfLeft(v)]

IsFunding(v, l, copy) == Includes(copy.current, v, ExpectedGuarantee(v, l))

(***************************************************************************)
(* The messages a crank sends.  A payload goes to all other participants;  *)
(* a leader's message carries its whole proposal queue.                    *)
(***************************************************************************)
Payload(type, n, v, paid) ==
  {[type |-> type, v |-> v, from |-> n, to |-> p, paid |-> paid] :
     p \in Participants(v) \ {n}}

QueueMessage(l, copy) ==
  {[type |-> "proposals", ledger |-> l, to |-> Ends[l][Follower],
    proposals |-> copy.queue]}

CountersignedMessage(l, sp) ==
  {[type |-> "proposals", ledger |-> l, to |-> Ends[l][Leader],
    proposals |-> <<sp>>]}

(***************************************************************************)
(* What cranking does to one ledger: the new copy, messages, and the       *)
(* proposal that heads the queue next (proposalsToProcess); or it throws.  *)
(***************************************************************************)
Untouched(copy) == [copy |-> copy, messages |-> {}, heads |-> << >>, throws |-> FALSE]

ProposeUpdate(l, copy, proposal) ==
  [copy     |-> Proposed(copy, proposal),
   messages |-> QueueMessage(l, Proposed(copy, proposal)),
   heads    |-> << >>, throws |-> FALSE]

AcceptUpdate(l, copy, proposal) ==
  LET rest == SignedNext(copy, proposal).queue
  IN [copy     |-> SignedNext(copy, proposal),
      messages |-> CountersignedMessage(l, Countersignature(copy, proposal)),
      heads    |-> IF rest = << >> THEN << >> ELSE <<rest[1].proposal>>,
      throws   |-> FALSE]

\* The leader proposes unless it has; the follower accepts what is next.
UpdateLedger(n, l, copy, proposal, isProposed, isProposedNext) ==
  IF Party(n, l) = Leader THEN
    IF isProposed THEN Untouched(copy)
    ELSE IF CanPropose(copy, proposal) THEN ProposeUpdate(l, copy, proposal)
    ELSE [Untouched(copy) EXCEPT !.throws = TRUE]
  ELSE
    IF ~ isProposedNext THEN Untouched(copy)
    ELSE IF CanSignNext(copy, proposal) THEN AcceptUpdate(l, copy, proposal)
    ELSE [Untouched(copy) EXCEPT !.throws = TRUE]

UpdateLedgerWithGuarantee(n, v, l, copy) ==
  LET g == ExpectedGuarantee(v, l)
  IN IF IsFunding(v, l, copy) THEN Untouched(copy)
     ELSE UpdateLedger(n, l, copy, ExpectedProposal(v, l),
                       IsProposed(copy.current, copy.queue, v, g),
                       IsProposedNext(copy.current, copy.queue, v, g))

(***************************************************************************)
(* crank.  An objective in memory is o = [status, minimum, channel,        *)
(* copies] (minimum is the defund objective's); the result also has what   *)
(* to send and to process, whether it waits for nothing any more, and the  *)
(* error if it throws.                                                     *)
(***************************************************************************)
Throw(o, error) ==
  [o |-> o, messages |-> {}, heads |-> << >>, done |-> FALSE, error |-> error]

\* The ledgers of n on v's path, the left one first.
OwnHops(n, v) ==
  LET i == CHOOSE i \in 1..Len(Path[v]) : Path[v][i] = n
  IN (IF i > 1 THEN <<Hop(v, i - 1)>> ELSE << >>)
       \o (IF i < Len(Path[v]) THEN <<Hop(v, i)>> ELSE << >>)

\* Both ledgers are updated one after the other, and their results are merged.
MergeUpdates(n, v, copies, results) ==
  LET own      == OwnHops(n, v)
      heads(i) == results[own[i]].heads
  IN [copies   |-> [l \in DOMAIN copies |->
                      IF l \in LedgersOf(n, v) THEN results[l].copy ELSE copies[l]],
      messages |-> UNION {results[l].messages : l \in LedgersOf(n, v)},
      heads    |-> IF Len(own) = 1 THEN heads(1) ELSE heads(1) \o heads(2),
      throws   |-> \E l \in LedgersOf(n, v) : results[l].throws]

FundedOnceProposed(n, v, copies) ==                                    \* mutant
  \A l \in LedgersOf(n, v) :
    Includes(Latest(copies[l]), v, ExpectedGuarantee(v, l))

FundingComplete(n, v, copies) ==
  \A l \in LedgersOf(n, v) : IsFunding(v, l, copies[l])

\* Intermediaries do not wait for the whole postfund round.
MayFinish(n, v, postfund) ==
  postfund = Participants(v) \/ IsIntermediary(n, v)

PrefundByMe(v, prefund) == TRUE                                        \* mutant

PrefundComplete(v, prefund) == prefund = Participants(v)

FundCrank(n, v, o) ==
  LET prefund  == o.channel.prefund \cup {n}
      updated  == MergeUpdates(n, v, o.copies,
                    [l \in LedgersOf(n, v) |->
                       UpdateLedgerWithGuarantee(n, v, l, o.copies[l])])
      ready    == PrefundComplete(v, prefund)
      funded   == ready /\ FundingComplete(n, v, updated.copies)
      postfund == IF funded THEN o.channel.postfund \cup {n} ELSE o.channel.postfund
      done     == funded /\ MayFinish(n, v, postfund)
  IN IF o.status # "approved" THEN Throw(o, "errNotApproved")
     ELSE IF ready /\ updated.throws THEN Throw(o, "error updating ledger funding")
     ELSE [o |-> [status  |-> IF done THEN "completed" ELSE "approved",
                  minimum |-> o.minimum,
                  channel |-> [o.channel EXCEPT !.prefund  = prefund,
                                                !.postfund = postfund],
                  copies  |-> IF ready THEN updated.copies ELSE o.copies],
           messages |->
             (IF n \in o.channel.prefund THEN {} ELSE Payload("prefund", n, v, 0))
               \cup (IF ready THEN updated.messages ELSE {})
               \cup (IF postfund = o.channel.postfund THEN {}
                                                      ELSE Payload("postfund", n, v, 0)),
           heads |-> IF ready THEN updated.heads ELSE << >>,
           done  |-> done,
           error |-> "none"]

(***************************************************************************)
(* update: addSignedState.  A state older than the latest supported one is *)
(* stale; the objective ignores that.                                      *)
(***************************************************************************)
FinalComplete(v, c) == c.final # NoFinal /\ c.final.signed = Participants(v)

IsStaleOncePostfunded(v, c, type) ==                                   \* mutant
  FinalComplete(v, c) \/ (type = "prefund" /\ c.postfund # {})

IsStaleState(v, c, type) ==
  \/ FinalComplete(v, c)
  \/ type = "prefund" /\ c.postfund = Participants(v)

FundUpdate(v, c, m) ==
  IF IsStaleState(v, c, m.type) THEN c
  ELSE IF m.type = "prefund" THEN [c EXCEPT !.prefund  = @ \cup {m.from}]
                             ELSE [c EXCEPT !.postfund = @ \cup {m.from}]
=============================================================================
