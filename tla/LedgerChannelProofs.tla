------------------------- MODULE LedgerChannelProofs -------------------------
(***************************************************************************)
(* Proofs about LedgerChannel, for every set of targets, every amounts,    *)
(* every initial balance and every bound on the turn numbers.              *)
(***************************************************************************)
EXTENDS LedgerChannel, ConsensusChannelProofs

-----------------------------------------------------------------------------
(***************************************************************************)
(* What the inductive invariant says about the two copies.                 *)
(***************************************************************************)

\* The leader's and the follower's queues are both chains, and the follower's
\* is the part of the leader's that starts after what it has accepted.
LEMMA CopiesAreChains ==
  ASSUME TypeOK, LeaderQueueInv, FollowerInv
  PROVE  /\ current[Leader].vars \in Vars
         /\ current[Follower].vars \in Vars
         /\ current[Leader].vars.turnNum \in Nat
         /\ current[Follower].vars.turnNum \in Nat
         /\ queue[Leader] \in Seq(SignedProposal)
         /\ queue[Follower] \in Seq(SignedProposal)
         /\ Accepted \in 0..Len(queue[Leader])
         /\ current[Follower].vars.turnNum = current[Leader].vars.turnNum + Accepted
         /\ Accepted + Len(queue[Follower]) <= Len(queue[Leader])
         /\ Chain(current[Leader].vars, queue[Leader])
         /\ Chain(current[Follower].vars, queue[Follower])
         /\ \A i \in 0..Len(queue[Follower]) :
              StateAt(current[Follower].vars, queue[Follower], i) =
                StateAt(current[Leader].vars, queue[Leader], Accepted + i)
<1>1. /\ current[Leader].vars \in Vars /\ current[Follower].vars \in Vars
      /\ queue[Leader] \in Seq(SignedProposal)
      /\ queue[Follower] \in Seq(SignedProposal)
  BY DEF TypeOK, SignedVars, Parties, Leader, Follower
<1>2. /\ current[Leader].vars.turnNum \in Nat
      /\ current[Follower].vars.turnNum \in Nat
  BY <1>1 DEF Vars
<1>3. /\ Accepted \in 0..Len(queue[Leader])
      /\ Accepted + Len(queue[Follower]) <= Len(queue[Leader])
      /\ current[Follower].vars =
           StateAt(current[Leader].vars, queue[Leader], Accepted)
      /\ \A i \in 1..Len(queue[Follower]) :
           queue[Follower][i] = queue[Leader][Accepted + i]
  BY DEF FollowerInv
<1>4. Chain(current[Leader].vars, queue[Leader])
  BY DEF LeaderQueueInv
<1>5. Len(queue[Follower]) <= Len(queue[Leader]) - Accepted
  BY <1>1, <1>3
<1> DEFINE v == current[Leader].vars
           q == queue[Leader]
           r == queue[Follower]
<1>6. /\ Chain(StateAt(v, q, Accepted), r)
      /\ \A i \in 0..Len(r) :
           StateAt(StateAt(v, q, Accepted), r, i) = StateAt(v, q, Accepted + i)
  <2>1. /\ v \in Vars /\ q \in Seq(SignedProposal) /\ Chain(v, q)
        /\ r \in Seq(SignedProposal)
    BY <1>1, <1>4
  <2>2. /\ Accepted \in 0..Len(q) /\ Len(r) <= Len(q) - Accepted
        /\ \A i \in 1..Len(r) : r[i] = q[Accepted + i]
    BY <1>3, <1>5
  <2> HIDE DEF v, q, r
  <2>3. QED
    BY <2>1, <2>2, ChainDrop
<1>7. current[Follower].vars.turnNum = current[Leader].vars.turnNum + Accepted
  BY <1>2 DEF Accepted
<1>8. QED
  BY <1>1, <1>2, <1>3, <1>4, <1>6, <1>7

-----------------------------------------------------------------------------
(***************************************************************************)
(* Each step preserves the inductive invariant.                            *)
(***************************************************************************)

\* The two parties are different elements of Parties.
LEMMA PartiesDiffer == /\ Leader \in Parties /\ Follower \in Parties
                       /\ Leader # Follower
                       /\ \A p \in Parties : p = Leader \/ p = Follower
BY DEF Parties, Leader, Follower

\* The network and the inboxes may lose, keep and hand over messages: no such
\* step disturbs what the invariant says of the copies.
LEMMA CopiesUntouched ==
  ASSUME InductiveInv, UNCHANGED <<current, queue, signed>>, TypeOK', MessagesInv'
  PROVE  InductiveInv'
<1>1. LeaderQueueInv'
  BY DEF InductiveInv, LeaderQueueInv, Chain, StateAt
<1>2. FollowerInv'
  BY DEF InductiveInv, FollowerInv, Accepted, StateAt
<1>3. SignedInv'
  BY DEF InductiveInv, SignedInv
<1>4. SignaturesInv'
  BY DEF InductiveInv, SignaturesInv
<1>5. QED
  BY <1>1, <1>2, <1>3, <1>4 DEF InductiveInv

\* The message service hands a message over, possibly keeping a copy.
LEMMA DeliverStep ==
  ASSUME InductiveInv, NEW m \in network, Deliver(m)
  PROVE  InductiveInv'
<1>1. /\ UNCHANGED <<current, queue, signed>>
      /\ inbox' = [inbox EXCEPT ![m.to] = m.proposals]
      /\ network' \subseteq network
  BY DEF Deliver
<1>2. TypeOK /\ MessagesInv
  BY DEF InductiveInv
<1>3. m \in Message /\ m.to \in Parties /\ m.proposals \in Seq(SignedProposal)
  BY <1>2 DEF TypeOK, Message
<1>4. TypeOK'
  BY <1>1, <1>2, <1>3 DEF TypeOK
<1>5. /\ IF m.to = Leader THEN ToLeader(m.proposals) ELSE ToFollower(m.proposals)
      /\ ToLeader(inbox[Leader])
      /\ ToFollower(inbox[Follower])
  BY <1>2 DEF MessagesInv
<1>6. inbox \in [Parties -> Seq(SignedProposal)]
  BY <1>2 DEF TypeOK
<1>7. ToLeader(inbox'[Leader]) /\ ToFollower(inbox'[Follower])
  BY <1>1, <1>3, <1>5, <1>6, PartiesDiffer
<1>8. \A x \in network' :
        IF x.to = Leader THEN ToLeader(x.proposals) ELSE ToFollower(x.proposals)
  BY <1>1, <1>2 DEF MessagesInv
<1>9. MessagesInv'
  BY <1>1, <1>7, <1>8 DEF MessagesInv, ToLeader, ToFollower, IsCountersigned,
                          IsLeadersEntry, IsRun, NextTurn
<1>10. QED
  BY <1>1, <1>4, <1>9, CopiesUntouched

\* The message service gives up on a message.
LEMMA LoseStep ==
  ASSUME InductiveInv, NEW m \in network, Lose(m)
  PROVE  InductiveInv'
<1>1. /\ UNCHANGED <<current, queue, signed, inbox>>
      /\ network' \subseteq network
  BY DEF Lose
<1>2. TypeOK'
  BY <1>1 DEF InductiveInv, TypeOK
<1>3. MessagesInv'
  BY <1>1 DEF InductiveInv, MessagesInv, ToLeader, ToFollower, IsCountersigned,
              IsLeadersEntry, IsRun, NextTurn
<1>4. QED
  BY <1>1, <1>2, <1>3, CopiesUntouched

\* The engine drops the rest of the message it is handling.
LEMMA AbandonStep ==
  ASSUME InductiveInv, NEW party \in Parties, Abandon(party)
  PROVE  InductiveInv'
<1>1. /\ UNCHANGED <<current, queue, signed, network>>
      /\ inbox' = [inbox EXCEPT ![party] = << >>]
  BY DEF Abandon
<1>2. TypeOK /\ MessagesInv
  BY DEF InductiveInv
<1>3. TypeOK'
  BY <1>1, <1>2 DEF TypeOK
<1>4. inbox \in [Parties -> Seq(SignedProposal)]
  BY <1>2 DEF TypeOK
<1>5. \A x \in Parties : inbox'[x] = << >> \/ inbox'[x] = inbox[x]
  BY <1>1, <1>4
<1>6. ToLeader(inbox'[Leader]) /\ ToFollower(inbox'[Follower])
  BY <1>2, <1>5, PartiesDiffer DEF MessagesInv, ToLeader, ToFollower, IsRun
<1>7. MessagesInv'
  BY <1>1, <1>2, <1>6 DEF MessagesInv, ToLeader, ToFollower, IsCountersigned,
                          IsLeadersEntry, IsRun, NextTurn
<1>8. QED
  BY <1>1, <1>3, <1>7, CopiesUntouched

\* The leader proposes: its chain grows by one entry, of a turn nobody signed.
LEMMA ProposeStep ==
  ASSUME InductiveInv, NEW p \in Proposal, Propose(p)
  PROVE  InductiveInv'
<1> DEFINE v == current[Leader].vars
           q == queue[Leader]
           latest == StateAt(v, q, Len(q))
           next == HandleProposal(latest, p)
           sp == [proposal |-> p, turnNum |-> next.turnNum,
                  signature |-> Sign(Leader, next)]
           longer == Append(q, sp)
<1>1. /\ TypeOK /\ LeaderQueueInv /\ FollowerInv
      /\ SignedInv /\ SignaturesInv /\ MessagesInv
  BY DEF InductiveInv
<1>2. /\ v \in Vars /\ v.turnNum \in Nat
      /\ q \in Seq(SignedProposal) /\ Len(q) \in Nat
      /\ Chain(v, q)
  BY <1>1, CopiesAreChains
<1>3. /\ LatestProposed(Leader) = latest
      /\ latest \in Vars
      /\ latest.turnNum = v.turnNum + Len(q)
  BY <1>2, ChainLatest DEF LatestProposed
<1>4. /\ CanHandleProposal(latest, p)
      /\ queue' = [queue EXCEPT ![Leader] = longer]
      /\ signed' = [signed EXCEPT ![Leader] = @ \cup {next}]
      /\ network' = network \cup {[to |-> Follower, proposals |-> longer]}
      /\ UNCHANGED <<current, inbox>>
  <2> HIDE DEF latest, longer
  <2>1. QED
    BY <1>3 DEF Propose, ProposalsMessage, longer
<1>5. next \in Vars /\ next.turnNum = v.turnNum + Len(q) + 1
  <2>1. next \in Vars /\ next.turnNum = latest.turnNum + 1
    BY <1>3, <1>4, HandleProposalType
  <2>2. QED
    BY <1>2, <1>3, <2>1
<1> HIDE DEF latest, next
<1>6. /\ sp \in SignedProposal
      /\ SignedBy(sp.signature, Leader, next)
      /\ sp.signature.signed = next
      /\ sp.proposal = p
      /\ sp.turnNum = v.turnNum + Len(q) + 1
  BY <1>2, <1>5, PartiesDiffer
     DEF SignedProposal, Signature, Sign, SignedBy, Vars
<1> HIDE DEF sp
<1>7. /\ longer \in Seq(SignedProposal)
      /\ Len(longer) = Len(q) + 1
      /\ \A i \in 1..Len(q) : longer[i] = q[i]
      /\ longer[Len(q) + 1] = sp
      /\ \A i \in 0..Len(q) : StateAt(v, longer, i) = StateAt(v, q, i)
      /\ Chain(v, longer)
  <2>1. /\ CanHandleProposal(StateAt(v, q, Len(q)), sp.proposal)
        /\ SignedBy(sp.signature, Leader,
                    HandleProposal(StateAt(v, q, Len(q)), sp.proposal))
    BY <1>4, <1>6 DEF latest, next
  <2> HIDE DEF v, q
  <2>2. QED
    BY <1>2, <1>6, <2>1, ChainAppend
<1> HIDE DEF longer
<1>8. /\ queue'[Leader] = longer
      /\ queue'[Follower] = queue[Follower]
      /\ current' = current
      /\ inbox' = inbox
      /\ signed'[Leader] = signed[Leader] \cup {next}
      /\ signed'[Follower] = signed[Follower]
  BY <1>1, <1>4, PartiesDiffer DEF TypeOK
<1>9. TypeOK'
  <2>1. [to |-> Follower, proposals |-> longer] \in Message
    BY <1>7, PartiesDiffer DEF Message
  <2>2. network' \subseteq Message
    BY <1>1, <1>4, <2>1 DEF TypeOK
  <2>3. queue' \in [Parties -> Seq(SignedProposal)]
    BY <1>1, <1>4, <1>7 DEF TypeOK
  <2>4. signed' \in [Parties -> SUBSET Vars]
    BY <1>1, <1>4, <1>5 DEF TypeOK
  <2>5. QED
    BY <1>1, <1>8, <2>2, <2>3, <2>4 DEF TypeOK
<1>10. LeaderQueueInv'
  BY <1>7, <1>8 DEF LeaderQueueInv, Chain, StateAt
<1>11. FollowerInv'
  <2>1. Accepted' = Accepted /\ Accepted \in 0..Len(q)
    BY <1>1, <1>8 DEF Accepted, FollowerInv
  <2>2. Accepted + Len(queue[Follower]) <= Len(q)
    BY <1>1 DEF FollowerInv
  <2>3. queue[Follower] \in Seq(SignedProposal) /\ Len(queue[Follower]) \in Nat
    BY <1>1, CopiesAreChains
  <2>4. current[Follower].vars = StateAt(v, longer, Accepted)
    BY <1>1, <1>7, <2>1 DEF FollowerInv
  <2>5. \A i \in 1..Len(queue[Follower]) : queue[Follower][i] = longer[Accepted + i]
    <3>1. TAKE i \in 1..Len(queue[Follower])
    <3>2. queue[Follower][i] = q[Accepted + i]
      BY <1>1 DEF FollowerInv
    <3>3. Accepted + i \in 1..Len(q)
      BY <1>2, <2>1, <2>2, <2>3
    <3>4. QED
      BY <1>7, <3>2, <3>3
  <2>6. /\ Accepted \in 0..Len(longer)
        /\ Accepted + Len(queue[Follower]) <= Len(longer)
    BY <1>2, <1>7, <2>1, <2>2, <2>3
  <2>7. StateAt(v, longer, Accepted) =
          StateAt(current'[Leader].vars, queue'[Leader], Accepted')
    BY <1>8, <2>1
  <2>8. QED
    BY <1>8, <2>1, <2>4, <2>5, <2>6, <2>7 DEF FollowerInv, StateAt
<1>12. SignedInv'
  <2>1. \A i \in 1..Len(longer) : longer[i].signature.signed \in signed'[Leader]
    <3>1. TAKE i \in 1..Len(longer)
    <3>2. CASE i \in 1..Len(q)
      BY <1>1, <1>7, <1>8, <3>2 DEF SignedInv
    <3>3. CASE i = Len(q) + 1
      BY <1>6, <1>7, <1>8, <3>3
    <3>4. QED
      BY <1>2, <1>7, <3>2, <3>3
  <2>2. signed[Leader] \subseteq Vars
    BY <1>1, PartiesDiffer DEF TypeOK
  <2>3. \A w \in signed[Leader] : w.turnNum \in Nat /\ w.turnNum <= v.turnNum + Len(q)
    BY <1>1, <2>2 DEF SignedInv, Vars
  <2>4. \A w \in signed'[Leader] : w.turnNum <= v.turnNum + Len(longer)
    BY SMTT(20), <1>2, <1>5, <1>7, <1>8, <2>3
  <2>5. \A w \in signed[Leader] : w.turnNum # next.turnNum
    BY <1>2, <1>5, <2>3
  <2>6. \A w, x \in signed'[Leader] : w.turnNum = x.turnNum => w = x
    BY <1>1, <1>8, <2>5 DEF SignedInv
  <2>7. QED
    BY <1>1, <1>8, <2>1, <2>4, <2>6, PartiesDiffer DEF SignedInv
<1>13. SignaturesInv'
  BY <1>1, <1>8 DEF SignaturesInv
<1>14. MessagesInv'
  <2>1. \A x \in SignedProposal : IsLeadersEntry(x) => IsLeadersEntry(x)'
    <3>1. TAKE x \in SignedProposal
    <3>2. x.turnNum - v.turnNum \in Int
      BY <1>2 DEF SignedProposal
    <3>3. QED
      BY <1>2, <1>7, <1>8, <3>2 DEF IsLeadersEntry
  <2>2. NextTurn' = NextTurn
    BY <1>8 DEF NextTurn
  <2>3. \A s \in Seq(SignedProposal) : ToFollower(s) => ToFollower(s)'
    BY <2>1, <2>2 DEF ToFollower, IsRun
  <2>4. \A s : ToLeader(s) => ToLeader(s)'
    BY <1>8 DEF ToLeader, IsCountersigned
  <2>5. PICK sent : sent = longer
    OBVIOUS
  <2>6. ToFollower(sent)'
    <3>1. \A i \in 1..Len(sent) : sent[i].turnNum = v.turnNum + i
      BY <1>7, <2>5 DEF Chain
    <3>2. /\ Len(sent) = Len(q) + 1
          /\ queue'[Leader] = sent
          /\ current'[Leader].vars = v
      BY <1>7, <1>8, <2>5
    <3>3. ASSUME NEW i \in 1..Len(sent)
          PROVE  IsLeadersEntry(sent[i])'
      <4>1. sent[i].turnNum - v.turnNum = i /\ i <= Len(sent)
        BY <1>2, <3>1, <3>2
      <4>2. QED
        BY <3>2, <4>1 DEF IsLeadersEntry
    <3>4. NextTurn >= v.turnNum + 1 /\ NextTurn \in Nat
      <4>1. /\ Accepted \in Nat /\ Len(queue[Follower]) \in Nat
            /\ current[Follower].vars.turnNum = v.turnNum + Accepted
        BY <1>1, <1>2, CopiesAreChains
      <4> HIDE DEF v
      <4>2. QED
        BY <1>2, <4>1 DEF NextTurn
    <3>5. ASSUME NEW i \in 1..Len(sent)
          PROVE  /\ sent[i].turnNum = sent[1].turnNum + i - 1
                 /\ sent[1].turnNum <= NextTurn
      <4>1. 1 \in 1..Len(sent) /\ i \in Nat
        BY <1>2, <3>2
      <4>2. sent[1].turnNum = v.turnNum + 1 /\ sent[i].turnNum = v.turnNum + i
        BY <3>1, <4>1
      <4>3. QED
        BY <1>2, <3>4, <4>1, <4>2
    <3>6. IsRun(sent)'
      BY <2>2, <3>5 DEF IsRun
    <3>7. QED
      BY <3>3, <3>6 DEF ToFollower
  <2>7. ASSUME NEW m \in network'
        PROVE  (IF m.to = Leader THEN ToLeader(m.proposals)
                                 ELSE ToFollower(m.proposals))'
    <3>1. CASE m \in network
      <4>1. m.proposals \in Seq(SignedProposal)
        BY <1>1, <3>1 DEF TypeOK, Message
      <4>2. IF m.to = Leader THEN ToLeader(m.proposals) ELSE ToFollower(m.proposals)
        BY <1>1, <3>1 DEF MessagesInv
      <4>3. QED
        BY <2>3, <2>4, <4>1, <4>2
    <3>2. CASE m = [to |-> Follower, proposals |-> longer]
      <4>1. m.to = Follower /\ m.proposals = sent
        BY <2>5, <3>2
      <4>2. QED
        BY <2>6, <4>1, PartiesDiffer
    <3>3. QED
      BY <1>4, <3>1, <3>2
  <2>8. PICK toLeader, toFollower :
          toLeader = inbox[Leader] /\ toFollower = inbox[Follower]
    OBVIOUS
  <2>9. ToLeader(toLeader)' /\ ToFollower(toFollower)'
    <3>1. toFollower \in Seq(SignedProposal)
      BY <1>1, <2>8, PartiesDiffer DEF TypeOK
    <3>2. ToLeader(toLeader) /\ ToFollower(toFollower)
      BY <1>1, <2>8 DEF MessagesInv
    <3>3. QED
      BY <2>3, <2>4, <3>1, <3>2
  <2>10. ToLeader(inbox[Leader])' /\ ToFollower(inbox[Follower])'
    BY <1>8, <2>8, <2>9 DEF ToLeader, ToFollower, IsCountersigned,
                            IsLeadersEntry, IsRun, NextTurn
  <2>11. QED
    BY <2>7, <2>10 DEF MessagesInv
<1>15. QED
  BY <1>9, <1>10, <1>11, <1>12, <1>13, <1>14 DEF InductiveInv

\* The proposal that is next for the follower is a lawful one, signed by the
\* leader: followerReceive only ever ignores stale proposals.
LEMMA NextProposalIsValid ==
  ASSUME InductiveInv, NEW sp \in SignedProposal, IsLeadersEntry(sp)
  PROVE  /\ QueueApplies(current[Follower].vars, queue[Follower])
         /\ LatestProposed(Follower).turnNum + 1 = NextTurn
         /\ NextTurn \in Nat
         /\ IsNextProposal(sp) =>
              /\ Accepted + Len(queue[Follower]) + 1 \in 1..Len(queue[Leader])
              /\ sp = queue[Leader][Accepted + Len(queue[Follower]) + 1]
              /\ IsValidProposal(sp)
<1> DEFINE v == current[Leader].vars
           q == queue[Leader]
           w == current[Follower].vars
           r == queue[Follower]
           k == Accepted
<1>1. TypeOK /\ LeaderQueueInv /\ FollowerInv
  BY DEF InductiveInv
<1>2. /\ v \in Vars /\ v.turnNum \in Nat /\ w \in Vars /\ w.turnNum \in Nat
      /\ q \in Seq(SignedProposal) /\ r \in Seq(SignedProposal)
      /\ k \in 0..Len(q) /\ w.turnNum = v.turnNum + k /\ k + Len(r) <= Len(q)
      /\ Chain(v, q) /\ Chain(w, r)
      /\ StateAt(w, r, Len(r)) = StateAt(v, q, k + Len(r))
  <2>1. \A i \in 0..Len(r) : StateAt(w, r, i) = StateAt(v, q, k + i)
    BY <1>1, CopiesAreChains
  <2>2. r \in Seq(SignedProposal)
    BY <1>1, CopiesAreChains
  <2>3. Len(r) \in 0..Len(r)
    BY <2>2
  <2>4. QED
    BY <1>1, <2>1, <2>3, CopiesAreChains
<1>3. /\ NextTurn = w.turnNum + Len(r) + 1
      /\ sp.turnNum - v.turnNum <= Len(q)
      /\ sp.turnNum - v.turnNum > 0 => sp = q[sp.turnNum - v.turnNum]
      /\ LatestProposed(Follower) = LatestProposedVars(w, r)
  BY DEF NextTurn, IsLeadersEntry, LatestProposed
<1>4. sp.turnNum \in Nat
  BY DEF SignedProposal
<1> HIDE DEF v, q, w, r, k
<1>5. /\ QueueApplies(w, r)
      /\ LatestProposedVars(w, r) = StateAt(w, r, Len(r))
      /\ LatestProposedVars(w, r).turnNum = w.turnNum + Len(r)
  BY <1>2, ChainLatest
<1>6. NextTurn \in Nat /\ Len(r) \in Nat /\ k \in Nat /\ Len(q) \in Nat
  BY <1>2, <1>3
<1>7. ASSUME IsNextProposal(sp)
      PROVE  /\ k + Len(r) + 1 \in 1..Len(q)
             /\ sp = q[k + Len(r) + 1]
             /\ IsValidProposal(sp)
  <2>1. sp.turnNum = w.turnNum + Len(r) + 1
    BY <1>3, <1>5, <1>7 DEF IsNextProposal
  <2>2. sp.turnNum - v.turnNum = k + Len(r) + 1
    BY <1>2, <1>6, <2>1
  <2>3. k + Len(r) + 1 \in 1..Len(q) /\ sp = q[k + Len(r) + 1]
    BY <1>3, <1>6, <2>2
  <2>4. (k + Len(r) + 1) - 1 = k + Len(r)
    BY <1>6
  <2>5. /\ CanHandleProposal(StateAt(v, q, k + Len(r)), sp.proposal)
        /\ SignedBy(sp.signature, Leader,
                    HandleProposal(StateAt(v, q, k + Len(r)), sp.proposal))
    BY <1>2, <2>3, <2>4 DEF Chain
  <2>6. IsValidProposal(sp)
    BY <1>2, <1>3, <1>5, <2>5 DEF IsValidProposal
  <2>7. QED
    BY <2>3, <2>6
<1>8. QED
  BY <1>3, <1>5, <1>6, <1>7 DEF v, q, w, r, k

\* What remains of a run without gaps once its first proposal is taken.
LEMMA TailOfRun ==
  ASSUME NEW s \in Seq(SignedProposal), s # << >>, NEW turn \in Nat,
         \A i \in 1..Len(s) : s[i].turnNum = s[1].turnNum + i - 1,
         s[1].turnNum + 1 <= turn
  PROVE  \A i \in 1..Len(Tail(s)) :
           /\ Tail(s)[i].turnNum = Tail(s)[1].turnNum + i - 1
           /\ Tail(s)[1].turnNum <= turn
<1>1. /\ Tail(s) \in Seq(SignedProposal)
      /\ Len(Tail(s)) = Len(s) - 1
      /\ \A i \in 1..Len(Tail(s)) : Tail(s)[i] = s[i+1]
      /\ Len(s) \in Nat
  BY HeadTailProperties
<1>2. TAKE i \in 1..Len(Tail(s))
<1>3. /\ 1 \in 1..Len(Tail(s)) /\ i \in Nat /\ i + 1 \in 1..Len(s)
      /\ 1 \in 1..Len(s) /\ 1 + 1 \in 1..Len(s)
  BY <1>1
<1>4. Tail(s)[i] = s[i+1] /\ Tail(s)[1] = s[1+1]
  BY <1>1, <1>3
<1>5. s[1].turnNum \in Nat
  <2>1. s[1] \in SignedProposal
    BY <1>3
  <2>2. QED
    BY <2>1 DEF SignedProposal
<1>6. /\ s[i+1].turnNum = s[1].turnNum + (i + 1) - 1
      /\ s[1+1].turnNum = s[1].turnNum + (1 + 1) - 1
  BY <1>3
<1>7. /\ Tail(s)[1].turnNum = s[1].turnNum + 1
      /\ Tail(s)[i].turnNum = s[1].turnNum + i
  BY <1>3, <1>4, <1>5, <1>6
<1>8. QED
  BY <1>3, <1>5, <1>7

\* The follower receives a proposal: it is the next entry of the leader's
\* queue, or the follower has it already.
LEMMA FollowerReceiveStep ==
  ASSUME InductiveInv, FollowerReceive
  PROVE  InductiveInv'
<1> DEFINE sp == Head(inbox[Follower])
           r == queue[Follower]
<1>1. /\ TypeOK /\ LeaderQueueInv /\ FollowerInv
      /\ SignedInv /\ SignaturesInv /\ MessagesInv
  BY DEF InductiveInv
<1>2. /\ inbox[Follower] # << >>
      /\ inbox' = [inbox EXCEPT ![Follower] = Tail(@)]
      /\ UNCHANGED <<current, network, signed>>
  BY DEF FollowerReceive
<1>3. PICK s : s = inbox[Follower]
  OBVIOUS
<1>4. /\ s \in Seq(SignedProposal) /\ s # << >>
      /\ sp = s[1] /\ 1 \in 1..Len(s)
      /\ sp \in SignedProposal
      /\ Tail(s) \in Seq(SignedProposal)
      /\ Len(Tail(s)) = Len(s) - 1
      /\ \A i \in 1..Len(Tail(s)) : Tail(s)[i] = s[i+1] /\ i + 1 \in 1..Len(s)
  <2>1. s \in Seq(SignedProposal) /\ s # << >>
    BY <1>1, <1>2, <1>3, PartiesDiffer DEF TypeOK
  <2>2. QED
    BY <1>3, <2>1, HeadTailProperties
<1>5. /\ inbox'[Follower] = Tail(s)
      /\ inbox'[Leader] = inbox[Leader]
      /\ inbox' \in [Parties -> Seq(SignedProposal)]
  BY <1>1, <1>2, <1>3, <1>4, PartiesDiffer DEF TypeOK
<1>6. /\ \A i \in 1..Len(s) : IsLeadersEntry(s[i])
      /\ \A i \in 1..Len(s) : s[i].turnNum = s[1].turnNum + i - 1
      /\ s[1].turnNum <= NextTurn
  BY <1>1, <1>3, <1>4 DEF MessagesInv, ToFollower, IsRun
<1>7. \A i \in 1..Len(Tail(s)) : IsLeadersEntry(Tail(s)[i])
  BY <1>4, <1>6
<1>8. sp.turnNum \in Nat
  BY <1>4 DEF SignedProposal
<1>9. /\ QueueApplies(current[Follower].vars, queue[Follower])
      /\ IsNextProposal(sp) <=> sp.turnNum = NextTurn
      /\ NextTurn \in Nat
      /\ IsNextProposal(sp) =>
           /\ Accepted + Len(r) + 1 \in 1..Len(queue[Leader])
           /\ sp = queue[Leader][Accepted + Len(r) + 1]
           /\ IsValidProposal(sp)
  <2>1. IsLeadersEntry(sp)
    BY <1>4, <1>6
  <2> HIDE DEF sp
  <2>2. QED
    BY <1>4, <2>1, NextProposalIsValid DEF IsNextProposal
<1>10. CASE IsNextProposal(sp)
  <2>1. queue' = [queue EXCEPT ![Follower] = Append(r, sp)]
    BY <1>9, <1>10 DEF FollowerReceive
  <2>2. /\ r \in Seq(SignedProposal)
        /\ Append(r, sp) \in Seq(SignedProposal)
        /\ Len(Append(r, sp)) = Len(r) + 1
        /\ \A i \in 1..Len(r) : Append(r, sp)[i] = r[i]
        /\ Append(r, sp)[Len(r) + 1] = sp
        /\ Len(r) \in Nat
    BY <1>1, <1>4, CopiesAreChains
  <2>3. /\ queue'[Leader] = queue[Leader] /\ queue'[Follower] = Append(r, sp)
        /\ queue' \in [Parties -> Seq(SignedProposal)]
    BY <1>1, <2>1, <2>2, PartiesDiffer DEF TypeOK
  <2>4. TypeOK'
    BY <1>1, <1>2, <1>5, <2>3 DEF TypeOK
  <2>5. LeaderQueueInv'
    BY <1>1, <1>2, <2>3 DEF LeaderQueueInv, Chain, StateAt
  <2>6. Accepted' = Accepted /\ Accepted \in Nat
    BY <1>1, <1>2, CopiesAreChains DEF Accepted
  <2>7. \A i \in 1..(Len(r) + 1) : Append(r, sp)[i] = queue[Leader][Accepted + i]
    <3>1. TAKE i \in 1..(Len(r) + 1)
    <3>2. CASE i \in 1..Len(r)
      BY <1>1, <2>2, <3>2 DEF FollowerInv
    <3>3. CASE i = Len(r) + 1
      <4>1. Accepted + i = Accepted + Len(r) + 1
        BY <2>2, <2>6, <3>3
      <4>2. QED
        BY <1>9, <1>10, <2>2, <3>3, <4>1
    <3>4. QED
      BY <2>2, <3>2, <3>3
  <2>8. FollowerInv'
    <3>1. Accepted + (Len(r) + 1) <= Len(queue[Leader])
      BY <1>9, <1>10, <2>2, <2>6
    <3>2. /\ Accepted' \in 0..Len(queue'[Leader])
          /\ current'[Follower].vars =
               StateAt(current'[Leader].vars, queue'[Leader], Accepted')
      BY <1>1, <1>2, <2>3, <2>6 DEF FollowerInv
    <3>3. QED
      BY <2>2, <2>3, <2>6, <2>7, <3>1, <3>2 DEF FollowerInv, StateAt
  <2>9. SignedInv' /\ SignaturesInv'
    BY <1>1, <1>2, <2>3 DEF SignedInv, SignaturesInv
  <2>10. NextTurn' = NextTurn + 1
    <3>1. current[Follower].vars.turnNum \in Nat
      BY <1>1, CopiesAreChains
    <3>2. NextTurn' = current[Follower].vars.turnNum + (Len(r) + 1) + 1
      BY <1>2, <2>2, <2>3 DEF NextTurn
    <3>3. QED
      BY SMTT(20), <2>2, <3>1, <3>2 DEF NextTurn
  <2>11. \A x \in Seq(SignedProposal) : ToFollower(x) => ToFollower(x)'
    <3>1. TAKE x \in Seq(SignedProposal)
    <3>2. \A i \in 1..Len(x) : IsLeadersEntry(x[i]) => IsLeadersEntry(x[i])'
      BY <1>2, <2>3 DEF IsLeadersEntry
    <3>3. \A i \in 1..Len(x) : x[1].turnNum \in Nat
      <4>1. \A i \in 1..Len(x) : x[1] \in SignedProposal
        OBVIOUS
      <4>2. QED
        BY <4>1 DEF SignedProposal
    <3>4. IsRun(x) => IsRun(x)'
      BY <1>9, <2>10, <3>3 DEF IsRun
    <3>5. QED
      BY <3>2, <3>4 DEF ToFollower
  <2>12. \A x : ToLeader(x) => ToLeader(x)'
    BY <1>2 DEF ToLeader, IsCountersigned
  <2>13. PICK rest, toLeader : rest = Tail(s) /\ toLeader = inbox[Leader]
    OBVIOUS
  <2>14. ToFollower(rest)'
    <3>1. \A i \in 1..Len(rest) : IsLeadersEntry(rest[i])'
      BY <1>2, <1>7, <2>3, <2>13 DEF IsLeadersEntry
    <3>2. s[1].turnNum + 1 <= NextTurn + 1
      BY <1>4, <1>6, <1>8, <1>9
    <3>3. NextTurn + 1 \in Nat
      BY <1>9
    <3>4. \A i \in 1..Len(rest) : /\ rest[i].turnNum = rest[1].turnNum + i - 1
                                  /\ rest[1].turnNum <= NextTurn + 1
      BY <1>4, <1>6, <2>13, <3>2, <3>3, TailOfRun
    <3>5. QED
      BY <2>10, <3>1, <3>4 DEF ToFollower, IsRun
  <2>15. ToLeader(toLeader)'
    BY <1>1, <2>12, <2>13 DEF MessagesInv
  <2>16. ToLeader(inbox[Leader])' /\ ToFollower(inbox[Follower])'
    BY <1>5, <2>13, <2>14, <2>15 DEF ToLeader, ToFollower, IsCountersigned,
                                     IsLeadersEntry, IsRun, NextTurn
  <2>17. ASSUME NEW m \in network'
         PROVE  (IF m.to = Leader THEN ToLeader(m.proposals)
                                  ELSE ToFollower(m.proposals))'
    <3>1. m \in network /\ m.proposals \in Seq(SignedProposal)
      BY <1>1, <1>2 DEF TypeOK, Message
    <3>2. QED
      BY <1>1, <2>11, <2>12, <3>1 DEF MessagesInv
  <2>18. MessagesInv'
    BY <2>16, <2>17 DEF MessagesInv
  <2>19. QED
    BY <2>4, <2>5, <2>8, <2>9, <2>18 DEF InductiveInv
<1>11. CASE ~ IsNextProposal(sp)
  <2>1. UNCHANGED <<current, queue, signed>>
    BY <1>2, <1>11 DEF FollowerReceive
  <2>2. TypeOK'
    BY <1>1, <1>2, <1>5, <2>1 DEF TypeOK
  <2>3. s[1].turnNum + 1 <= NextTurn
    BY <1>4, <1>6, <1>8, <1>9, <1>11
  <2>4. ToFollower(Tail(s))
    BY <1>4, <1>6, <1>7, <1>9, <2>3, TailOfRun DEF ToFollower, IsRun
  <2>5. ToLeader(inbox'[Leader]) /\ ToFollower(inbox'[Follower])
    BY <1>1, <1>5, <2>4 DEF MessagesInv
  <2>6. MessagesInv'
    <3>1. \A m \in network' :
            IF m.to = Leader THEN ToLeader(m.proposals) ELSE ToFollower(m.proposals)
      BY <1>1, <1>2 DEF MessagesInv
    <3>2. QED
      BY <2>1, <2>5, <3>1 DEF MessagesInv, ToLeader, ToFollower,
            IsCountersigned, IsLeadersEntry, IsRun, NextTurn
  <2>7. QED
    BY <2>1, <2>2, <2>6, CopiesUntouched
<1>12. QED
  BY <1>10, <1>11

\* The follower signs the head of its queue: the state the leader signed for
\* that entry, which the follower had not signed any state of that turn before.
LEMMA SignNextProposalStep ==
  ASSUME InductiveInv, NEW p \in Proposal, SignNextProposal(p)
  PROVE  InductiveInv'
<1> DEFINE v == current[Leader].vars
           q == queue[Leader]
           w == current[Follower].vars
           r == queue[Follower]
           sp == Head(r)
           next == HandleProposal(w, p)
           back == [proposal |-> p, turnNum |-> next.turnNum,
                    signature |-> Sign(Follower, next)]
<1>1. /\ TypeOK /\ LeaderQueueInv /\ FollowerInv
      /\ SignedInv /\ SignaturesInv /\ MessagesInv
  BY DEF InductiveInv
<1>2. /\ v \in Vars /\ v.turnNum \in Nat /\ w \in Vars /\ w.turnNum \in Nat
      /\ q \in Seq(SignedProposal) /\ r \in Seq(SignedProposal)
      /\ Accepted \in 0..Len(q) /\ w.turnNum = v.turnNum + Accepted
      /\ Accepted + Len(r) <= Len(q)
      /\ Chain(v, q) /\ Chain(w, r)
  BY <1>1, CopiesAreChains
<1>3. /\ r # << >>
      /\ sp.proposal = p
      /\ CanHandleProposal(w, p)
      /\ current' = [current EXCEPT ![Follower] =
           [vars |-> next,
            signatures |-> Signatures(sp.signature, Sign(Follower, next))]]
      /\ queue' = [queue EXCEPT ![Follower] = Tail(@)]
      /\ signed' = [signed EXCEPT ![Follower] = @ \cup {next}]
      /\ network' = network \cup {[to |-> Leader, proposals |-> << back >>]}
      /\ inbox' = inbox
  BY DEF SignNextProposal, CountersignedVars
<1>4. /\ 1 \in 1..Len(r) /\ sp = r[1] /\ sp \in SignedProposal
      /\ Tail(r) \in Seq(SignedProposal) /\ Len(Tail(r)) = Len(r) - 1
      /\ \A i \in 1..Len(Tail(r)) : Tail(r)[i] = r[i+1] /\ i + 1 \in 1..Len(r)
      /\ Len(r) \in Nat /\ Len(q) \in Nat /\ Accepted \in Nat
      /\ Accepted + 1 \in 1..Len(q)
  <2> HIDE DEF r
  <2>1. QED
    BY <1>2, <1>3, HeadTailProperties
<1>5. /\ next \in Vars /\ next.turnNum = w.turnNum + 1
      /\ SignedBy(sp.signature, Leader, next)
      /\ sp = q[Accepted + 1]
  <2>1. StateAt(w, r, 1-1) = w
    BY DEF StateAt
  <2>2. SignedBy(sp.signature, Leader, next)
    BY <1>2, <1>3, <1>4, <2>1 DEF Chain
  <2>3. sp = q[Accepted + 1]
    BY <1>1, <1>4 DEF FollowerInv
  <2>4. QED
    BY <1>2, <1>3, <2>2, <2>3, HandleProposalType
<1>6. /\ current'[Leader] = current[Leader]
      /\ current'[Follower].vars = next
      /\ current'[Follower].signatures =
           Signatures(sp.signature, Sign(Follower, next))
      /\ queue'[Leader] = q /\ queue'[Follower] = Tail(r)
      /\ signed'[Leader] = signed[Leader]
      /\ signed'[Follower] = signed[Follower] \cup {next}
  BY <1>1, <1>3, PartiesDiffer DEF TypeOK
<1> HIDE DEF next
<1>7. /\ back \in SignedProposal
      /\ back.signature.signer = Follower
      /\ back.signature.signed = next
      /\ back.turnNum = next.turnNum
  BY <1>5, PartiesDiffer DEF SignedProposal, Signature, Sign, Vars
<1> HIDE DEF back
<1>8. TypeOK'
  <2>1. /\ Sign(Follower, next) \in Signature
        /\ sp.signature \in Signature
    BY <1>4, <1>5, PartiesDiffer DEF Signature, Sign, SignedProposal
  <2>2. current'[Follower] \in SignedVars
    <3>1. Signatures(sp.signature, Sign(Follower, next)) \in [Parties -> Signature]
      BY <2>1 DEF Signatures
    <3>2. [vars |-> next,
           signatures |-> Signatures(sp.signature, Sign(Follower, next))] \in SignedVars
      BY <1>5, <3>1 DEF SignedVars
    <3>3. QED
      BY <1>1, <1>3, <3>2, PartiesDiffer DEF TypeOK
  <2>3. current' \in [Parties -> SignedVars]
    BY <1>1, <1>3, <2>2, PartiesDiffer DEF TypeOK
  <2>4. queue' \in [Parties -> Seq(SignedProposal)]
    BY <1>1, <1>3, <1>4 DEF TypeOK
  <2>5. signed' \in [Parties -> SUBSET Vars]
    BY <1>1, <1>3, <1>5 DEF TypeOK
  <2>6. [to |-> Leader, proposals |-> << back >>] \in Message
    BY <1>7, PartiesDiffer DEF Message
  <2>7. network' \subseteq Message
    BY <1>1, <1>3, <2>6 DEF TypeOK
  <2>8. QED
    BY <1>1, <1>3, <2>3, <2>4, <2>5, <2>7 DEF TypeOK
<1>9. LeaderQueueInv'
  BY <1>1, <1>6 DEF LeaderQueueInv, Chain, StateAt
<1>10. Accepted' = Accepted + 1
  <2>1. Accepted' = next.turnNum - v.turnNum
    BY <1>6 DEF Accepted
  <2> HIDE DEF v, w
  <2>2. QED
    BY <1>2, <1>4, <1>5, <2>1
<1>11. FollowerInv'
  <2>1. StateAt(v, q, Accepted + 1) = next
    BY <1>4, <1>5 DEF StateAt, SignedBy
  <2>2. \A i \in 1..Len(Tail(r)) : Tail(r)[i] = q[(Accepted + 1) + i]
    <3>1. TAKE i \in 1..Len(Tail(r))
    <3>2. r[i+1] = q[Accepted + (i+1)]
      BY <1>1, <1>4 DEF FollowerInv
    <3>3. Accepted + (i+1) = (Accepted + 1) + i
      BY <1>4
    <3>4. QED
      BY <1>4, <3>2, <3>3
  <2>3. /\ Accepted + 1 \in 0..Len(q)
        /\ (Accepted + 1) + Len(Tail(r)) <= Len(q)
    <3>1. /\ Accepted \in Nat /\ Len(q) \in Nat /\ Len(r) \in Nat
          /\ Accepted + 1 \in 1..Len(q)
          /\ Len(Tail(r)) = Len(r) - 1
          /\ Accepted + Len(r) <= Len(q)
      BY <1>2, <1>4
    <3>2. Accepted + 1 \in 0..Len(q)
      BY <3>1
    <3>3. \A k, l, n \in Nat : k + l <= n => (k + 1) + (l - 1) <= n
      OBVIOUS
    <3>4. (Accepted + 1) + (Len(r) - 1) <= Len(q)
      <4> HIDE DEF q, r
      <4>1. QED
        BY <3>1, <3>3
    <3>5. QED
      BY <3>1, <3>2, <3>4
  <2>4. StateAt(v, q, Accepted + 1) =
          StateAt(current'[Leader].vars, queue'[Leader], Accepted')
    BY <1>6, <1>10
  <2>5. QED
    BY <1>6, <1>10, <2>1, <2>2, <2>3, <2>4 DEF FollowerInv, StateAt
<1>12. SignedInv'
  <2>1. next \in signed[Leader]
    BY <1>1, <1>4, <1>5 DEF SignedInv, SignedBy
  <2>2. signed[Follower] \subseteq Vars
    BY <1>1, PartiesDiffer DEF TypeOK
  <2>3. \A x \in signed[Follower] : x.turnNum \in Nat /\ x.turnNum <= w.turnNum
    BY <1>1, <2>2 DEF SignedInv, Vars
  <2>4. \A x \in signed'[Follower] : x.turnNum <= next.turnNum
    <3> HIDE DEF w
    <3>1. QED
      BY <1>2, <1>5, <1>6, <2>3
  <2>5. QED
    BY <1>1, <1>6, <2>1, <2>4, PartiesDiffer DEF SignedInv
<1>13. SignaturesInv'
  <2>1. \A x \in Parties : SignedBy(current[Leader].signatures[x], x, v)
    BY <1>1, PartiesDiffer DEF SignaturesInv
  <2>2. \A x \in Parties : SignedBy(current'[Follower].signatures[x], x, next)
    BY <1>5, <1>6, PartiesDiffer DEF Signatures, Sign, SignedBy
  <2>3. QED
    BY <1>6, <2>1, <2>2, PartiesDiffer DEF SignaturesInv
<1>14. NextTurn' = NextTurn
  <2>1. NextTurn' = next.turnNum + (Len(r) - 1) + 1
    BY <1>4, <1>6 DEF NextTurn
  <2>2. NextTurn = w.turnNum + Len(r) + 1
    BY DEF NextTurn
  <2>3. w.turnNum \in Nat /\ Len(r) \in Nat /\ next.turnNum = w.turnNum + 1
    BY <1>2, <1>4, <1>5
  <2> HIDE DEF w, r
  <2>4. QED
    BY <2>1, <2>2, <2>3
<1>15. MessagesInv'
  <2>1. \A x : ToFollower(x) => ToFollower(x)'
    BY <1>6, <1>14 DEF ToFollower, IsLeadersEntry, IsRun
  <2>2. \A x : ToLeader(x) => ToLeader(x)'
    BY <1>6 DEF ToLeader, IsCountersigned
  <2>3. PICK reply : reply = << back >>
    OBVIOUS
  <2>4. ToLeader(reply)'
    <3>1. \A i \in 1..Len(reply) : reply[i] = back
      BY <2>3
    <3>2. QED
      BY <1>6, <1>7, <3>1 DEF ToLeader, IsCountersigned
  <2>5. ASSUME NEW m \in network'
        PROVE  (IF m.to = Leader THEN ToLeader(m.proposals)
                                 ELSE ToFollower(m.proposals))'
    <3>1. CASE m \in network
      BY <1>1, <2>1, <2>2, <3>1 DEF MessagesInv
    <3>2. CASE m = [to |-> Leader, proposals |-> << back >>]
      BY <2>3, <2>4, <3>2
    <3>3. QED
      BY <1>3, <3>1, <3>2
  <2>6. PICK toLeader, toFollower :
          toLeader = inbox[Leader] /\ toFollower = inbox[Follower]
    OBVIOUS
  <2>7. ToLeader(toLeader)' /\ ToFollower(toFollower)'
    BY <1>1, <2>1, <2>2, <2>6 DEF MessagesInv
  <2>8. ToLeader(inbox[Leader])' /\ ToFollower(inbox[Follower])'
    BY <1>3, <2>6, <2>7 DEF ToLeader, ToFollower, IsCountersigned,
                            IsLeadersEntry, IsRun, NextTurn
  <2>9. QED
    BY <2>5, <2>8 DEF MessagesInv
<1>16. QED
  BY <1>8, <1>9, <1>11, <1>12, <1>13, <1>15 DEF InductiveInv

\* The leader receives a countersignature: it is stale, or it settles the
\* entries up to its turn, all of which the follower has accepted.
LEMMA LeaderReceiveStep ==
  ASSUME InductiveInv, LeaderReceive
  PROVE  InductiveInv'
<1> DEFINE v == current[Leader].vars
           q == queue[Leader]
<1>1. /\ TypeOK /\ LeaderQueueInv /\ FollowerInv
      /\ SignedInv /\ SignaturesInv /\ MessagesInv
  BY DEF InductiveInv
<1>2. /\ inbox[Leader] # << >>
      /\ inbox' = [inbox EXCEPT ![Leader] = Tail(@)]
      /\ UNCHANGED <<network, signed>>
  BY DEF LeaderReceive, Confirmed, Trimmed
<1>3. PICK s, sp : s = inbox[Leader] /\ sp = Head(inbox[Leader])
  OBVIOUS
<1>4. /\ s \in Seq(SignedProposal) /\ s # << >>
      /\ sp = s[1] /\ 1 \in 1..Len(s)
      /\ sp \in SignedProposal
      /\ Tail(s) \in Seq(SignedProposal)
      /\ \A i \in 1..Len(Tail(s)) : Tail(s)[i] = s[i+1] /\ i + 1 \in 1..Len(s)
  <2>1. s \in Seq(SignedProposal) /\ s # << >>
    BY <1>1, <1>2, <1>3, PartiesDiffer DEF TypeOK
  <2>2. QED
    BY <1>3, <2>1, HeadTailProperties
<1>5. /\ inbox'[Leader] = Tail(s)
      /\ inbox'[Follower] = inbox[Follower]
      /\ inbox' \in [Parties -> Seq(SignedProposal)]
  BY <1>1, <1>2, <1>3, <1>4, PartiesDiffer DEF TypeOK
<1>6. \A i \in 1..Len(s) : IsCountersigned(s[i])
  BY <1>1, <1>3 DEF MessagesInv, ToLeader
<1>7. IsCountersigned(sp) /\ ToLeader(Tail(s))
  BY <1>4, <1>6 DEF ToLeader
<1>8. CASE /\ current' = current
           /\ queue' = queue
  <2>1. TypeOK'
    BY <1>1, <1>2, <1>5, <1>8 DEF TypeOK
  <2>2. ToLeader(inbox'[Leader]) /\ ToFollower(inbox'[Follower])
    BY <1>1, <1>5, <1>7 DEF MessagesInv
  <2>3. MessagesInv'
    <3>1. \A m \in network' :
            IF m.to = Leader THEN ToLeader(m.proposals) ELSE ToFollower(m.proposals)
      BY <1>1, <1>2 DEF MessagesInv
    <3>2. UNCHANGED NextTurn
      BY <1>8 DEF NextTurn
    <3>3. \A x : IsCountersigned(x)' = IsCountersigned(x)
                /\ IsLeadersEntry(x)' = IsLeadersEntry(x)
      BY <1>2, <1>8 DEF IsCountersigned, IsLeadersEntry
    <3>4. \A x : ToLeader(x)' = ToLeader(x)
      BY <3>3 DEF ToLeader
    <3>5. \A x : ToFollower(x)' = ToFollower(x)
      BY <3>2, <3>3 DEF ToFollower, IsRun
    <3>6. ToLeader(inbox[Leader])' /\ ToFollower(inbox[Follower])'
      BY <2>2, <3>2, <3>3 DEF ToLeader, ToFollower, IsRun
    <3>7. QED
      BY <1>2, <3>1, <3>4, <3>5, <3>6 DEF MessagesInv
  <2>4. QED
    BY <1>2, <1>8, <2>1, <2>3, CopiesUntouched
<1>9. ASSUME NEW i \in 1..Len(q),
             ~ IsStaleProposal(sp),
             Countersigns(sp, i),
             current' = [current EXCEPT ![Leader] =
               [vars |-> VarsAfter(@.vars, queue[Leader])[i],
                signatures |-> Signatures(queue[Leader][i].signature,
                                          sp.signature)]],
             queue' = [queue EXCEPT ![Leader] = SubSeq(@, i + 1, Len(@))]
      PROVE  InductiveInv'
  <2> DEFINE w == StateAt(v, q, i)
             r == SubSeq(q, i + 1, Len(q))
  <2>1. /\ v \in Vars /\ v.turnNum \in Nat
        /\ q \in Seq(SignedProposal) /\ Len(q) \in Nat
        /\ queue[Follower] \in Seq(SignedProposal) /\ Len(queue[Follower]) \in Nat
        /\ current[Follower].vars.turnNum = v.turnNum + Accepted
        /\ Accepted \in Nat /\ Accepted <= Len(q)
        /\ Accepted + Len(queue[Follower]) <= Len(q)
        /\ Chain(v, q)
        /\ i \in Nat /\ i \in 0..Len(q) /\ 1 <= i /\ i <= Len(q)
    BY <1>1, CopiesAreChains
  <2>2. /\ VarsAfter(v, q)[i] = w
        /\ w \in Vars
        /\ w.turnNum = v.turnNum + i
    <3> HIDE DEF v, q
    <3>1. QED
      BY <2>1, ChainStates
  <2>3. /\ sp.turnNum = v.turnNum + i
        /\ SignedBy(sp.signature, Follower, w)
    BY <1>9, <2>2 DEF Countersigns
  <2>4. /\ w \in signed[Follower]
        /\ i <= Accepted
    <3>1. w \in signed[Follower]
      BY <1>7, <2>3 DEF IsCountersigned, SignedBy
    <3>2. w.turnNum <= current[Follower].vars.turnNum
      BY <1>1, <3>1 DEF SignedInv
    <3> HIDE DEF w
    <3>3. v.turnNum + i <= v.turnNum + Accepted
      BY <2>1, <2>2, <3>2
    <3>4. QED
      BY <2>1, <3>1, <3>3
  <2>5. /\ r \in Seq(SignedProposal) /\ Len(r) = Len(q) - i
        /\ \A j \in 1..Len(r) : r[j] = q[i + j]
    <3>1. \A j \in (i+1)..Len(q) : q[j] \in SignedProposal
      BY <2>1
    <3>2. /\ r \in Seq(SignedProposal)
          /\ Len(r) = IF i + 1 <= Len(q) THEN Len(q) - (i + 1) + 1 ELSE 0
          /\ \A j \in 1..(Len(q) - (i + 1) + 1) : r[j] = q[(i + 1) + j - 1]
      BY <2>1, <3>1, SubSeqProperties
    <3>3. Len(r) = Len(q) - i /\ Len(q) - (i + 1) + 1 = Len(q) - i
      BY <2>1, <3>2
    <3>4. \A j \in 1..Len(r) : (i + 1) + j - 1 = i + j
      BY <2>1
    <3>5. QED
      BY <3>2, <3>3, <3>4
  <2> HIDE DEF r
  <2>6. /\ Chain(w, r)
        /\ \A j \in 0..Len(r) : StateAt(w, r, j) = StateAt(v, q, i + j)
    <3>1. Len(r) <= Len(q) - i
      BY <2>1, <2>5
    <3> HIDE DEF v, q
    <3>2. QED
      BY <2>1, <2>5, <3>1, ChainDrop
  <2>7. /\ SignedBy(q[i].signature, Leader, w)
        /\ w \in signed[Leader]
        /\ q[i].signature \in Signature /\ sp.signature \in Signature
    <3>1. w = q[i].signature.signed
      BY <2>1 DEF StateAt
    <3>2. q[i].signature.signer = Leader
      BY <2>1 DEF Chain, SignedBy
    <3>3. q[i] \in SignedProposal
      BY <2>1
    <3>4. QED
      BY <1>1, <1>4, <3>1, <3>2, <3>3 DEF SignedBy, SignedInv, SignedProposal
  <2>8. /\ current'[Leader].vars = w
        /\ current'[Leader].signatures = Signatures(q[i].signature, sp.signature)
        /\ current'[Follower] = current[Follower]
        /\ queue'[Leader] = r
        /\ queue'[Follower] = queue[Follower]
        /\ signed' = signed
    <3>1. current' = [current EXCEPT ![Leader] =
             [vars |-> w, signatures |-> Signatures(q[i].signature, sp.signature)]]
      BY <1>1, <1>9, <2>2, PartiesDiffer DEF TypeOK
    <3>2. queue' = [queue EXCEPT ![Leader] = r]
      BY <1>1, <1>9, PartiesDiffer DEF TypeOK, r
    <3> HIDE DEF w
    <3>3. QED
      BY <1>1, <1>2, <3>1, <3>2, PartiesDiffer DEF TypeOK
  <2> HIDE DEF w
  <2>9. TypeOK'
    <3>1. [vars |-> w, signatures |-> Signatures(q[i].signature, sp.signature)]
            \in SignedVars
      BY <2>2, <2>7 DEF SignedVars, Signatures
    <3>2. current' \in [Parties -> SignedVars]
      BY <1>1, <1>9, <2>2, <3>1, PartiesDiffer DEF TypeOK
    <3>3. queue' \in [Parties -> Seq(SignedProposal)]
      BY <1>1, <1>9, <2>5, PartiesDiffer DEF TypeOK, r
    <3>4. QED
      BY <1>1, <1>2, <1>5, <3>2, <3>3 DEF TypeOK
  <2>10. LeaderQueueInv'
    BY <2>6, <2>8 DEF LeaderQueueInv, Chain, StateAt
  <2>11. Accepted' = Accepted - i /\ Accepted - i \in 0..Len(r)
    <3>1. Accepted' = (v.turnNum + Accepted) - (v.turnNum + i)
      BY <2>1, <2>2, <2>8 DEF Accepted
    <3> HIDE DEF v, q
    <3>2. QED
      BY <2>1, <2>4, <2>5, <3>1
  <2>12. FollowerInv'
    <3>1. StateAt(w, r, Accepted - i) = StateAt(v, q, Accepted)
      <4>1. i + (Accepted - i) = Accepted
        BY <2>1
      <4>2. QED
        BY <2>6, <2>11, <4>1
    <3>2. current[Follower].vars = StateAt(w, r, Accepted - i)
      BY <1>1, <3>1 DEF FollowerInv
    <3>3. (Accepted - i) + Len(queue[Follower]) <= Len(r)
      <4> HIDE DEF v, q
      <4>1. QED
        BY <2>1, <2>5
    <3>4. \A j \in 1..Len(queue[Follower]) :
            queue[Follower][j] = r[(Accepted - i) + j]
      <4>1. TAKE j \in 1..Len(queue[Follower])
      <4>2. queue[Follower][j] = q[Accepted + j]
        BY <1>1 DEF FollowerInv
      <4>3. /\ (Accepted - i) + j \in 1..Len(r)
            /\ i + ((Accepted - i) + j) = Accepted + j
        BY <2>1, <2>4, <2>5, <3>3
      <4>4. QED
        BY <2>5, <4>2, <4>3
    <3>5. StateAt(w, r, Accepted - i) =
            StateAt(current'[Leader].vars, queue'[Leader], Accepted')
      BY <2>8, <2>11
    <3>6. QED
      BY <2>8, <2>11, <3>2, <3>3, <3>4, <3>5 DEF FollowerInv, StateAt
  <2>13. SignedInv'
    <3>1. \A j \in 1..Len(r) : r[j].signature.signed \in signed[Leader]
      <4>1. TAKE j \in 1..Len(r)
      <4>2. i + j \in 1..Len(q)
        BY <2>1, <2>5
      <4>3. QED
        BY <1>1, <2>5, <4>2 DEF SignedInv
    <3>2. w.turnNum + Len(r) = v.turnNum + Len(q)
      <4> HIDE DEF v, q
      <4>1. QED
        BY <2>1, <2>2, <2>5
    <3>3. QED
      BY <1>1, <2>4, <2>7, <2>8, <3>1, <3>2, PartiesDiffer DEF SignedInv
  <2>14. SignaturesInv'
    <3>1. \A x \in Parties : SignedBy(current'[Leader].signatures[x], x, w)
      BY <2>3, <2>7, <2>8, PartiesDiffer DEF Signatures
    <3>2. \A x \in Parties :
            SignedBy(current'[Follower].signatures[x], x, current'[Follower].vars)
      BY <1>1, <2>8, PartiesDiffer DEF SignaturesInv
    <3>3. QED
      BY <2>8, <3>1, <3>2, PartiesDiffer DEF SignaturesInv
  <2>15. MessagesInv'
    <3>1. NextTurn' = NextTurn
      BY <2>8 DEF NextTurn
    <3>2. \A x \in SignedProposal : IsLeadersEntry(x) => IsLeadersEntry(x)'
      <4>1. TAKE x \in SignedProposal
      <4>2. HAVE IsLeadersEntry(x)
      <4> DEFINE d == x.turnNum - v.turnNum
                 e == x.turnNum - w.turnNum
      <4>3. x.turnNum \in Nat
        BY DEF SignedProposal
      <4>4. d \in Int /\ e = d - i
        BY <2>1, <2>2, <4>3
      <4>5. d <= Len(q) /\ (d > 0 => x = q[d])
        BY <4>2 DEF IsLeadersEntry
      <4>6. IsLeadersEntry(x)' <=> (e <= Len(r) /\ (e > 0 => x = r[e]))
        BY <2>8 DEF IsLeadersEntry
      <4> HIDE DEF d, e, v, q
      <4>7. e <= Len(r)
        BY <2>1, <2>5, <4>4, <4>5
      <4>8. ASSUME e > 0 PROVE x = r[e]
        <5>1. d > 0 /\ e \in 1..Len(r) /\ i + e = d
          BY <2>1, <2>5, <4>4, <4>5, <4>7, <4>8
        <5>2. QED
          BY <2>5, <4>5, <5>1
      <4>9. QED
        BY <4>6, <4>7, <4>8
    <3>3. \A x \in Seq(SignedProposal) : ToFollower(x) => ToFollower(x)'
      BY <3>1, <3>2 DEF ToFollower, IsRun
    <3>4. \A x : ToLeader(x) => ToLeader(x)'
      BY <2>8 DEF ToLeader, IsCountersigned
    <3>5. ASSUME NEW m \in network'
          PROVE  (IF m.to = Leader THEN ToLeader(m.proposals)
                                   ELSE ToFollower(m.proposals))'
      <4>1. m \in network /\ m.proposals \in Seq(SignedProposal)
        BY <1>1, <1>2 DEF TypeOK, Message
      <4>2. QED
        BY <1>1, <3>3, <3>4, <4>1 DEF MessagesInv
    <3>6. PICK toLeader, toFollower :
            toLeader = Tail(s) /\ toFollower = inbox[Follower]
      OBVIOUS
    <3>7. ToLeader(toLeader)' /\ ToFollower(toFollower)'
      <4>1. toFollower \in Seq(SignedProposal)
        BY <1>1, <3>6, PartiesDiffer DEF TypeOK
      <4>2. ToLeader(toLeader) /\ ToFollower(toFollower)
        BY <1>1, <1>7, <3>6 DEF MessagesInv
      <4>3. QED
        BY <3>3, <3>4, <4>1, <4>2
    <3>8. ToLeader(inbox[Leader])' /\ ToFollower(inbox[Follower])'
      BY <1>5, <3>6, <3>7 DEF ToLeader, ToFollower, IsCountersigned,
                              IsLeadersEntry, IsRun, NextTurn
    <3>9. QED
      BY <3>5, <3>8 DEF MessagesInv
  <2>16. QED
    BY <2>9, <2>10, <2>12, <2>13, <2>14, <2>15 DEF InductiveInv
<1>10. QED
  BY <1>3, <1>8, <1>9 DEF LeaderReceive, Confirmed, Trimmed

-----------------------------------------------------------------------------
(***************************************************************************)
(* The theorems.                                                           *)
(***************************************************************************)

\* The state a channel is created with is lawful.
LEMMA InitialVarsType == InitialVars \in Vars /\ InitialVars.turnNum = 1
BY InitialBalanceAssumption DEF InitialVars, Vars, Outcome

\* A new channel satisfies the inductive invariant.
LEMMA InitInv == Init => InductiveInv
<1> SUFFICES ASSUME Init PROVE InductiveInv
  OBVIOUS
<1> USE PartiesDiffer
<1>1. /\ \A p \in Parties :
           /\ current[p].vars = InitialVars
           /\ current[p].signatures = Signatures(Sign(Leader, InitialVars),
                                                 Sign(Follower, InitialVars))
           /\ queue[p] = << >>
           /\ inbox[p] = << >>
           /\ signed[p] = {InitialVars}
      /\ network = {}
  BY DEF Init
<1>2. TypeOK
  <2>1. /\ Sign(Leader, InitialVars) \in Signature
        /\ Sign(Follower, InitialVars) \in Signature
    BY InitialVarsType DEF Sign, Signature
  <2>2. [vars |-> InitialVars,
         signatures |-> Signatures(Sign(Leader, InitialVars),
                                   Sign(Follower, InitialVars))] \in SignedVars
    BY <2>1, InitialVarsType DEF SignedVars, Signatures
  <2> HIDE PartiesDiffer
  <2>3. QED
    BY <2>2, InitialVarsType DEF Init, TypeOK
<1>3. LeaderQueueInv
  BY <1>1 DEF LeaderQueueInv, Chain
<1>4. FollowerInv
  <2>1. Accepted = 0
    BY <1>1, InitialVarsType DEF Accepted
  <2>2. QED
    BY <1>1, <2>1 DEF FollowerInv, StateAt
<1>5. SignedInv
  BY <1>1, InitialVarsType DEF SignedInv
<1>6. SignaturesInv
  <2>1. SUFFICES ASSUME NEW p \in Parties, NEW q \in Parties
                 PROVE  SignedBy(current[p].signatures[q], q, current[p].vars)
    BY DEF SignaturesInv
  <2>2. current[p].signatures[q] = Sign(q, InitialVars)
    <3>1. current[p].signatures = Signatures(Sign(Leader, InitialVars),
                                             Sign(Follower, InitialVars))
      BY <1>1
    <3>2. q = Leader \/ q = Follower
      BY DEF Parties
    <3>3. QED
      BY <3>1, <3>2 DEF Signatures
  <2>3. QED
    BY <1>1, <2>2 DEF Sign, SignedBy
<1>7. MessagesInv
  BY <1>1 DEF MessagesInv, ToLeader, ToFollower, IsRun
<1>8. QED
  BY <1>2, <1>3, <1>4, <1>5, <1>6, <1>7 DEF InductiveInv

\* Every step of the channel, and every step of anything else, preserves it.
LEMMA NextInv == InductiveInv /\ [Next]_vars => InductiveInv'
<1> SUFFICES ASSUME InductiveInv, [Next]_vars PROVE InductiveInv'
  OBVIOUS
<1>1. CASE \E p \in Proposal : Propose(p)
  BY <1>1, ProposeStep
<1>2. CASE \E m \in network : Deliver(m)
  BY <1>2, DeliverStep
<1>3. CASE \E m \in network : Lose(m)
  BY <1>3, LoseStep
<1>4. CASE \E party \in Parties : Abandon(party)
  BY <1>4, AbandonStep
<1>5. CASE LeaderReceive
  BY <1>5, LeaderReceiveStep
<1>6. CASE FollowerReceive
  BY <1>6, FollowerReceiveStep
<1>7. CASE \E p \in Proposal : SignNextProposal(p)
  BY <1>7, SignNextProposalStep
<1>8. CASE UNCHANGED vars
  <2>1. UNCHANGED <<current, queue, inbox, network, signed>>
    BY <1>8 DEF vars
  <2>2. TypeOK' /\ MessagesInv'
    BY <2>1 DEF InductiveInv, TypeOK, MessagesInv, ToLeader, ToFollower,
                IsCountersigned, IsLeadersEntry, IsRun, NextTurn
  <2>3. QED
    BY <2>1, <2>2, CopiesUntouched
<1>9. QED
  BY <1>1, <1>2, <1>3, <1>4, <1>5, <1>6, <1>7, <1>8 DEF Next

\* The strengthened invariant holds in every reachable state, whatever is
\* lost, duplicated or reordered.
THEOREM Invariance == Spec => []InductiveInv
BY InitInv, NextInv, PTL DEF Spec

\* Type correctness; in particular no balance ever becomes negative.
THEOREM TypeCorrectness == Spec => []TypeOK
<1>1. InductiveInv => TypeOK
  BY DEF InductiveInv
<1>2. QED
  BY <1>1, Invariance, PTL

\* Neither the leader nor the follower ever signs two states of one turn.
THEOREM NoEquivocationHolds == Spec => []NoEquivocation
<1>1. InductiveInv => NoEquivocation
  <2>1. SUFFICES ASSUME InductiveInv, NEW p \in Parties,
                        NEW v \in signed[p], NEW w \in signed[p],
                        v.turnNum = w.turnNum
                 PROVE  v = w
    BY DEF NoEquivocation
  <2>2. v \in signed[Leader] /\ w \in signed[Leader]
    BY <2>1, PartiesDiffer DEF InductiveInv, SignedInv
  <2>3. QED
    BY <2>1, <2>2 DEF InductiveInv, SignedInv
<1>2. QED
  BY <1>1, Invariance, PTL

\* Each party can always prove its consensus state with two signatures.
THEOREM CurrentIsDoublySignedHolds == Spec => []CurrentIsDoublySigned
<1>1. InductiveInv => CurrentIsDoublySigned
  <2>1. SUFFICES ASSUME InductiveInv, NEW p \in Parties, NEW q \in Parties
                 PROVE  /\ current[p].vars \in signed[q]
                        /\ SignedBy(current[p].signatures[q], q, current[p].vars)
    BY DEF CurrentIsDoublySigned
  <2>2. current[p].vars \in signed[q]
    BY <2>1, PartiesDiffer DEF InductiveInv, SignedInv
  <2>3. QED
    BY <2>1, <2>2 DEF InductiveInv, SignaturesInv
<1>2. QED
  BY <1>1, Invariance, PTL

\* No state both parties signed is later than the follower's consensus state.
THEOREM FollowerHoldsLatestHolds == Spec => []FollowerHoldsLatest
<1>1. InductiveInv => FollowerHoldsLatest
  <2>1. SUFFICES ASSUME InductiveInv PROVE FollowerHoldsLatest
    OBVIOUS
  <2>2. TypeOK /\ LeaderQueueInv /\ FollowerInv /\ SignedInv
    BY <2>1 DEF InductiveInv
  <2>3. \A v \in signed[Follower] : v.turnNum <= current[Follower].vars.turnNum
    BY <2>2 DEF SignedInv
  <2>4. current[Leader].vars \in signed[Follower]
    BY <2>2 DEF SignedInv
  <2>5. QED
    BY <2>3, <2>4 DEF FollowerHoldsLatest
<1>2. QED
  BY <1>1, Invariance, PTL

\* The follower's copy is the leader's copy some way down the leader's queue.
THEOREM CopiesAgreeHolds == Spec => []CopiesAgree
<1>1. InductiveInv => CopiesAgree
  <2>1. SUFFICES ASSUME InductiveInv PROVE CopiesAgree
    OBVIOUS
  <2>2. TypeOK /\ LeaderQueueInv /\ FollowerInv
    BY <2>1 DEF InductiveInv
  <2> DEFINE v == current[Leader].vars
             q == queue[Leader]
  <2>3. VarsAfter(v, q)[Accepted] = StateAt(v, q, Accepted)
    <3>1. v \in Vars /\ q \in Seq(SignedProposal) /\ Chain(v, q)
          /\ Accepted \in 0..Len(q)
      BY <2>2, CopiesAreChains
    <3> HIDE DEF v, q
    <3>2. QED
      BY <3>1, ChainStates
  <2>4. QED
    BY <2>2, <2>3 DEF FollowerInv, Accepted, CopiesAgree
<1>2. QED
  BY <1>1, Invariance, PTL

\* Every proposal that arrives is usable or stale: the follower never has to
\* refuse one for a missing turn or a wrong state, the leader never runs
\* through its queue without finding it.
THEOREM EveryProposalIsUsableHolds == Spec => []EveryProposalIsUsable
<1>1. InductiveInv => EveryProposalIsUsable
  <2>1. SUFFICES ASSUME InductiveInv PROVE EveryProposalIsUsable
    OBVIOUS
  <2>2. /\ TypeOK /\ LeaderQueueInv /\ FollowerInv /\ SignedInv /\ MessagesInv
    BY <2>1 DEF InductiveInv
  <2>3. ASSUME NEW sp, inbox[Leader] # << >>, sp = Head(inbox[Leader]),
               ~ IsStaleProposal(sp)
        PROVE  \E i \in 1..Len(queue[Leader]) : Countersigns(sp, i)
    <3> DEFINE v == current[Leader].vars
               q == queue[Leader]
               i == sp.turnNum - v.turnNum
    <3>1. sp \in SignedProposal /\ IsCountersigned(sp)
      <4>1. inbox[Leader] \in Seq(SignedProposal)
        BY <2>2, PartiesDiffer DEF TypeOK
      <4>2. sp = inbox[Leader][1] /\ 1 \in 1..Len(inbox[Leader])
        BY <2>3, <4>1
      <4>3. QED
        BY <2>2, <4>1, <4>2 DEF MessagesInv, ToLeader
    <3>2. /\ v \in Vars /\ v.turnNum \in Nat /\ q \in Seq(SignedProposal)
          /\ Len(q) \in Nat /\ Chain(v, q)
          /\ current[Follower].vars.turnNum = v.turnNum + Accepted
          /\ Accepted \in Nat /\ Accepted <= Len(q)
      BY <2>2, CopiesAreChains
    <3>3. /\ sp.turnNum \in Nat
          /\ ~ (sp.turnNum <= v.turnNum)
          /\ sp.turnNum <= current[Follower].vars.turnNum
      BY <2>2, <2>3, <3>1 DEF IsStaleProposal, IsCountersigned, SignedInv, SignedProposal
    <3>4. i \in 1..Len(q) /\ v.turnNum + i = sp.turnNum
      <4> HIDE DEF v, q
      <4>1. QED
        BY <3>2, <3>3
    <3>5. PICK j \in 1..Len(q) : v.turnNum + j = sp.turnNum
      BY <3>4
    <3>6. \A k \in 0..Len(q) : /\ VarsAfter(v, q)[k] = StateAt(v, q, k)
                               /\ StateAt(v, q, k).turnNum = v.turnNum + k
      <4> HIDE DEF v, q
      <4>1. QED
        BY <3>2, ChainStates
    <3>7. j \in 0..Len(q) /\ \A k \in 1..j : k \in 1..Len(q) /\ k - 1 \in 0..Len(q)
      BY <3>2
    <3>8. \A k \in 1..j : CanHandleProposal(VarsAfter(v, q)[k-1], q[k].proposal)
      BY <3>2, <3>6, <3>7 DEF Chain
    <3>9. StateAt(v, q, j) \in signed[Leader]
      <4>1. StateAt(v, q, j) = q[j].signature.signed
        BY <3>2 DEF StateAt
      <4>2. QED
        BY <2>2, <4>1 DEF SignedInv
    <3>10. sp.signature.signed = StateAt(v, q, j)
      BY <2>2, <3>1, <3>5, <3>6, <3>7, <3>9 DEF IsCountersigned, SignedInv
    <3>11. Countersigns(sp, j)
      BY <3>1, <3>5, <3>6, <3>7, <3>8, <3>10
         DEF Countersigns, IsCountersigned, SignedBy
    <3>12. QED
      BY <3>11
  <2>4. ASSUME NEW sp, inbox[Follower] # << >>, sp = Head(inbox[Follower])
        PROVE  /\ sp.turnNum <= LatestProposed(Follower).turnNum + 1
               /\ IsNextProposal(sp) => IsValidProposal(sp)
    <3>1. inbox[Follower] \in Seq(SignedProposal)
      BY <2>2, PartiesDiffer DEF TypeOK
    <3>2. sp = inbox[Follower][1] /\ 1 \in 1..Len(inbox[Follower])
      BY <2>4, <3>1
    <3>3. sp \in SignedProposal /\ IsLeadersEntry(sp) /\ sp.turnNum <= NextTurn
      BY <2>2, <3>1, <3>2 DEF MessagesInv, ToFollower, IsRun
    <3>4. QED
      BY <2>1, <3>3, NextProposalIsValid
  <2>5. QED
    BY <2>3, <2>4 DEF EveryProposalIsUsable
<1>2. QED
  BY <1>1, Invariance, PTL

\* How a consensus state can change: the follower signs the head of its queue,
\* or the leader takes the state of one of its entries the follower accepted.
LEMMA ConsensusSteps ==
  ASSUME InductiveInv, [Next]_vars
  PROVE  \/ UNCHANGED current
         \/ \E p \in Proposal : SignNextProposal(p)
         \/ \E i \in 1..Len(queue[Leader]) :
              /\ i <= Accepted
              /\ current'[Leader].vars =
                   StateAt(current[Leader].vars, queue[Leader], i)
              /\ current'[Follower] = current[Follower]
              /\ UNCHANGED signed
<1>1. CASE LeaderReceive
  <2> DEFINE v == current[Leader].vars
             q == queue[Leader]
             sp == Head(inbox[Leader])
  <2>1. /\ TypeOK /\ LeaderQueueInv /\ FollowerInv /\ SignedInv /\ MessagesInv
        /\ signed' = signed
    BY <1>1 DEF InductiveInv, LeaderReceive
  <2>2. \/ UNCHANGED current
        \/ \E i \in 1..Len(q) :
             /\ Countersigns(sp, i)
             /\ current' = [current EXCEPT ![Leader] =
                  [vars |-> VarsAfter(@.vars, queue[Leader])[i],
                   signatures |-> Signatures(queue[Leader][i].signature,
                                             sp.signature)]]
    BY <1>1 DEF LeaderReceive, Confirmed
  <2>3. IsCountersigned(sp)
    <3>1. inbox[Leader] \in Seq(SignedProposal) /\ inbox[Leader] # << >>
      BY <1>1, <2>1, PartiesDiffer DEF TypeOK, LeaderReceive, Confirmed
    <3>2. sp = inbox[Leader][1] /\ 1 \in 1..Len(inbox[Leader])
      BY <3>1
    <3>3. QED
      BY <2>1, <3>1, <3>2 DEF MessagesInv, ToLeader
  <2>4. ASSUME NEW i \in 1..Len(q),
               Countersigns(sp, i),
               current' = [current EXCEPT ![Leader] =
                  [vars |-> VarsAfter(@.vars, queue[Leader])[i],
                   signatures |-> Signatures(queue[Leader][i].signature,
                                             sp.signature)]]
        PROVE  /\ i <= Accepted
               /\ current'[Leader].vars = StateAt(v, q, i)
               /\ current'[Follower] = current[Follower]
    <3>1. /\ v \in Vars /\ v.turnNum \in Nat /\ q \in Seq(SignedProposal)
          /\ Chain(v, q) /\ i \in 0..Len(q) /\ i \in Nat
          /\ current[Follower].vars.turnNum = v.turnNum + Accepted
          /\ Accepted \in Nat
      BY <2>1, CopiesAreChains
    <3>2. VarsAfter(v, q)[i] = StateAt(v, q, i)
          /\ StateAt(v, q, i).turnNum = v.turnNum + i
      <4> HIDE DEF v, q
      <4>1. QED
        BY <3>1, ChainStates
    <3>3. StateAt(v, q, i) \in signed[Follower]
      BY <2>3, <2>4, <3>2 DEF Countersigns, SignedBy, IsCountersigned
    <3>4. v.turnNum + i <= v.turnNum + Accepted
      BY <2>1, <3>1, <3>2, <3>3 DEF SignedInv
    <3>5. i <= Accepted
      <4> HIDE DEF v, q
      <4>1. QED
        BY <3>1, <3>4
    <3>6. QED
      BY <2>1, <2>4, <3>2, <3>5, PartiesDiffer DEF TypeOK
  <2>5. QED
    BY <2>1, <2>2, <2>4
<1>2. CASE \E p \in Proposal : SignNextProposal(p)
  BY <1>2
<1>3. CASE UNCHANGED vars
  BY <1>3 DEF vars
<1>4. QED
  BY <1>1, <1>2, <1>3 DEF Next, Propose, Deliver, Lose, Abandon, FollowerReceive

\* A consensus state is only ever replaced by a later one both have signed.
THEOREM ConsensusOnlyAdvancesHolds == Spec => ConsensusOnlyAdvances
<1> DEFINE A == \A p \in Parties : current[p] # current'[p] =>
                  /\ current[p].vars.turnNum < current'[p].vars.turnNum
                  /\ current'[p].vars \in signed'[Leader] \cap signed'[Follower]
<1>1. InductiveInv /\ InductiveInv' /\ [Next]_vars => [A]_vars
  <2>1. SUFFICES ASSUME InductiveInv, InductiveInv', [Next]_vars,
                        NEW p \in Parties, current[p] # current'[p]
                 PROVE  current[p].vars.turnNum < current'[p].vars.turnNum
    <3>1. InductiveInv' =>
            \A p \in Parties :
              current'[p].vars \in signed'[Leader] \cap signed'[Follower]
      BY PartiesDiffer DEF InductiveInv, SignedInv
    <3>2. QED
      BY <3>1
  <2>2. TypeOK /\ LeaderQueueInv /\ FollowerInv
    BY <2>1 DEF InductiveInv
  <2>3. CASE \E x \in Proposal : SignNextProposal(x)
    <3>1. PICK x \in Proposal : SignNextProposal(x)
      BY <2>3
    <3> DEFINE w == current[Follower].vars
    <3>2. /\ CanHandleProposal(w, x)
          /\ current' = [current EXCEPT ![Follower] =
               [vars |-> HandleProposal(w, x),
                signatures |-> Signatures(Head(queue[Follower]).signature,
                                          Sign(Follower, HandleProposal(w, x)))]]
      BY <3>1 DEF SignNextProposal, CountersignedVars
    <3>3. p = Follower /\ current'[p].vars = HandleProposal(w, x)
      BY <2>1, <2>2, <3>2, PartiesDiffer DEF TypeOK
    <3>4. w \in Vars /\ w.turnNum \in Nat
      BY <2>2, CopiesAreChains
    <3>5. HandleProposal(w, x).turnNum = w.turnNum + 1
      BY <3>2, <3>4, HandleProposalType
    <3>6. QED
      BY <3>3, <3>4, <3>5
  <2>4. ASSUME NEW i \in 1..Len(queue[Leader]),
               current'[Leader].vars =
                 StateAt(current[Leader].vars, queue[Leader], i),
               current'[Follower] = current[Follower]
        PROVE  current[p].vars.turnNum < current'[p].vars.turnNum
    <3> DEFINE v == current[Leader].vars
               q == queue[Leader]
    <3>1. p = Leader
      BY <2>1, <2>4, PartiesDiffer
    <3>2. /\ v \in Vars /\ v.turnNum \in Nat /\ q \in Seq(SignedProposal)
          /\ Chain(v, q) /\ i \in 0..Len(q) /\ i \in Nat /\ 1 <= i
      BY <2>2, <2>4, CopiesAreChains
    <3>3. StateAt(v, q, i).turnNum = v.turnNum + i
      <4> HIDE DEF v, q
      <4>1. QED
        BY <3>2, ChainStates
    <3>4. QED
      BY <2>4, <3>1, <3>2, <3>3
  <2>5. CASE UNCHANGED current
    BY <2>1, <2>5
  <2>6. QED
    BY <2>1, <2>3, <2>4, <2>5, ConsensusSteps
<1>2. QED
  BY <1>1, Invariance, PTL DEF Spec, ConsensusOnlyAdvances

-----------------------------------------------------------------------------
(***************************************************************************)
(* The refinement: the two copies and their messages implement             *)
(* LedgerPromise, one step of the promise or a stutter at a time.          *)
(***************************************************************************)

\* A state of a new turn extends the history and leaves the rest of it alone.
LEMMA HistoryGrows ==
  ASSUME NEW next, signed'[Leader] = signed[Leader] \cup {next},
         \A v, w \in signed[Leader] : v.turnNum = w.turnNum => v = w,
         \A v \in signed[Leader] : v.turnNum # next.turnNum
  PROVE  History' = [m \in DOMAIN History \cup {next.turnNum} |->
                       IF m = next.turnNum THEN next ELSE History[m]]
<1>1. PICK states : states = signed[Leader]
  OBVIOUS
<1>2. History = HistoryOf(states) /\ History' = HistoryOf(states \cup {next})
  BY <1>1 DEF History, HistoryOf
<1>3. HistoryOf(states \cup {next}) =
        [m \in DOMAIN HistoryOf(states) \cup {next.turnNum} |->
           IF m = next.turnNum THEN next ELSE HistoryOf(states)[m]]
  <2>1. \A v, w \in states : v.turnNum = w.turnNum => v = w
    BY <1>1
  <2>2. \A v \in states : v.turnNum # next.turnNum
    BY <1>1
  <2>3. QED
    BY ONLY <2>1, <2>2, HistoryOfMore, SMTT(30)
<1>4. QED
  BY ONLY <1>2, <1>3

\* The promise speaks of the same proposals, with the same checks and effects.
LEMMA SameProposals ==
  /\ Promise!Proposal = Proposal
  /\ Promise!Leader = Leader /\ Promise!Follower = Follower
  /\ Promise!Parties = Parties
  /\ \A v, p : /\ Promise!CanHandleProposal(v, p) = CanHandleProposal(v, p)
               /\ Promise!HandleProposal(v, p) = HandleProposal(v, p)
<1>1. /\ Promise!Leader = Leader /\ Promise!Follower = Follower
      /\ Promise!Parties = Parties
  BY DEF Promise!Leader, Leader, Promise!Follower, Follower, Promise!Parties, Parties
<1>2. Promise!Proposal = Proposal
  BY <1>1 DEF Promise!Proposal, Proposal, Promise!Add, Add, Promise!Remove, Remove,
              Promise!Amounts, Amounts
<1>3. ASSUME NEW v, NEW p
      PROVE  Promise!CanHandleProposal(v, p) = CanHandleProposal(v, p)
  BY DEF Promise!CanHandleProposal, CanHandleProposal, Promise!CanAdd, CanAdd,
         Promise!CanRemove, CanRemove, Promise!IncludesTarget, IncludesTarget,
         Promise!Includes, Includes, Promise!RightDeposit, RightDeposit,
         Promise!Other, Other
<1>4. ASSUME NEW v, NEW p
      PROVE  Promise!HandleProposal(v, p) = HandleProposal(v, p)
  BY <1>1 DEF Promise!HandleProposal, HandleProposal, Promise!AddGuarantee,
         AddGuarantee, Promise!RemoveGuarantee, RemoveGuarantee,
         Promise!RightDeposit, RightDeposit
<1>5. QED
  BY <1>1, <1>2, <1>3, <1>4

\* Every state the leader signed is in the history, and the last of them, the
\* one its queue ends with, is the history's last turn.
LEMMA HistoryEnds ==
  ASSUME InductiveInv
  PROVE  /\ \A v \in signed[Leader] : /\ v.turnNum \in DOMAIN History
                                      /\ History[v.turnNum] = v
         /\ LatestProposed(Leader) \in signed[Leader]
         /\ Promise!IsLastTurn(LatestProposed(Leader).turnNum)
         /\ \A v \in signed[Leader] :
              v.turnNum # LatestProposed(Leader).turnNum + 1
<1> DEFINE v == current[Leader].vars
           q == queue[Leader]
<1>1. /\ TypeOK /\ LeaderQueueInv /\ FollowerInv /\ SignedInv
      /\ v \in Vars /\ v.turnNum \in Nat /\ q \in Seq(SignedProposal)
      /\ Len(q) \in Nat /\ Chain(v, q)
  BY CopiesAreChains DEF InductiveInv
<1>2. /\ LatestProposed(Leader) = StateAt(v, q, Len(q))
      /\ LatestProposed(Leader).turnNum = v.turnNum + Len(q)
  <2>1. LatestProposed(Leader) = LatestProposedVars(v, q)
    BY DEF LatestProposed
  <2> HIDE DEF v, q
  <2>2. QED
    BY <1>1, <2>1, ChainLatest
<1>3. LatestProposed(Leader) \in signed[Leader]
  BY <1>1, <1>2, PartiesDiffer DEF SignedInv, StateAt
<1>4. \A w \in signed[Leader] : /\ w.turnNum \in DOMAIN History
                                /\ History[w.turnNum] = w
  <2>1. History = HistoryOf(signed[Leader])
    BY DEF History, HistoryOf
  <2>2. QED
    BY <1>1, <2>1, HistoryHasStates DEF SignedInv
<1>5. \A w \in signed[Leader] : w.turnNum # LatestProposed(Leader).turnNum + 1
  <2>1. SUFFICES ASSUME NEW w \in signed[Leader]
                 PROVE  w.turnNum # LatestProposed(Leader).turnNum + 1
    OBVIOUS
  <2>2. w.turnNum <= v.turnNum + Len(q)
    BY <1>1 DEF SignedInv
  <2> HIDE DEF v, q
  <2>3. QED
    BY <1>1, <1>2, <2>2
<1>6. LatestProposed(Leader).turnNum + 1 \notin DOMAIN History
  BY <1>5 DEF History
<1>7. QED
  BY <1>3, <1>4, <1>5, <1>6 DEF Promise!IsLastTurn

\* The channel starts with the first state as its history.
LEMMA RefinesInit == Init => Promise!Init
<1>1. SUFFICES ASSUME Init PROVE Promise!Init
  OBVIOUS
<1>2. signed[Leader] = {InitialVars}
  BY <1>1, PartiesDiffer DEF Init
<1>3. History = [n \in {InitialVars.turnNum} |-> InitialVars]
  <2>1. {v.turnNum : v \in signed[Leader]} = {InitialVars.turnNum}
    BY <1>2
  <2>2. (CHOOSE v \in signed[Leader] : v.turnNum = InitialVars.turnNum) = InitialVars
    BY <1>2
  <2>3. QED
    BY <2>1, <2>2 DEF History
<1>4. [p \in Parties |-> current[p].vars] = [p \in Parties |-> InitialVars]
  BY <1>1 DEF Init
<1>5. QED
  BY <1>3, <1>4, SameProposals DEF Promise!Init

\* ConsensusChannel.propose is an offer of the next state.
LEMMA RefinesPropose ==
  ASSUME InductiveInv, NEW p \in Proposal, Propose(p)
  PROVE  Promise!Offer
<1> DEFINE latest == LatestProposed(Leader)
           next == HandleProposal(latest, p)
<1>1. /\ CanHandleProposal(latest, p)
      /\ signed' = [signed EXCEPT ![Leader] = @ \cup {next}]
      /\ current' = current
  BY DEF Propose
<1>2. /\ latest \in signed[Leader] /\ Promise!IsLastTurn(latest.turnNum)
      /\ latest.turnNum \in DOMAIN History /\ History[latest.turnNum] = latest
      /\ \A v \in signed[Leader] : v.turnNum # latest.turnNum + 1
  BY HistoryEnds
<1>3. TypeOK /\ SignedInv
  BY DEF InductiveInv
<1>4. latest \in Vars
  BY <1>2, <1>3, PartiesDiffer DEF TypeOK
<1>5. signed'[Leader] = signed[Leader] \cup {next}
  BY <1>1, <1>3, PartiesDiffer DEF TypeOK
<1> HIDE DEF latest
<1>6. next.turnNum = latest.turnNum + 1
  BY <1>1, <1>4, HandleProposalType
<1> HIDE DEF next
<1>7. \A v, w \in signed[Leader] : v.turnNum = w.turnNum => v = w
  BY <1>3 DEF SignedInv
<1>8. \A v \in signed[Leader] : v.turnNum # next.turnNum
  BY <1>2, <1>6
<1>9. History' = [m \in DOMAIN History \cup {latest.turnNum + 1} |->
                    IF m = latest.turnNum + 1
                      THEN Promise!HandleProposal(History[latest.turnNum], p)
                      ELSE History[m]]
  <2>1. next = Promise!HandleProposal(History[latest.turnNum], p)
    BY <1>2, SameProposals DEF next
  <2>2. History' = [m \in DOMAIN History \cup {next.turnNum} |->
                      IF m = next.turnNum THEN next ELSE History[m]]
    BY <1>5, <1>7, <1>8, HistoryGrows
  <2>3. QED
    BY <1>6, <2>1, <2>2
<1>10. Promise!CanHandleProposal(History[latest.turnNum], p)
  BY <1>1, <1>2, SameProposals
<1>11. p \in Promise!Proposal
  BY SameProposals
<1>12. [q \in Parties |-> current[q].vars]' = [q \in Parties |-> current[q].vars]
  BY <1>1
<1>13. QED
  BY <1>2, <1>9, <1>10, <1>11, <1>12 DEF Promise!Offer

\* A step that leaves the leader's signatures alone leaves the history alone.
LEMMA HistoryUntouched ==
  ASSUME UNCHANGED signed[Leader]
  PROVE  History' = History
BY DEF History

\* ConsensusChannel.signNextProposal accepts the next state of the history.
LEMMA RefinesSignNextProposal ==
  ASSUME InductiveInv, InductiveInv', NEW p \in Proposal, SignNextProposal(p)
  PROVE  Promise!Accept
<1> DEFINE w == current[Follower].vars
           next == HandleProposal(w, p)
<1>1. /\ CanHandleProposal(w, p)
      /\ current' = [current EXCEPT ![Follower] = CountersignedVars(Head(queue[Follower]), next)]
      /\ signed' = [signed EXCEPT ![Follower] = @ \cup {next}]
  BY DEF SignNextProposal
<1>2. TypeOK /\ w \in Vars
  BY CopiesAreChains DEF InductiveInv
<1>3. /\ current'[Follower].vars = next
      /\ current'[Leader] = current[Leader]
      /\ signed'[Leader] = signed[Leader]
  BY <1>1, <1>2, PartiesDiffer DEF TypeOK, CountersignedVars
<1>4. next \in signed[Leader]
  BY <1>3, PartiesDiffer DEF InductiveInv, SignedInv
<1>5. next.turnNum = w.turnNum + 1
  <2> HIDE DEF w
  <2>1. QED
    BY <1>1, <1>2, HandleProposalType
<1>6. w.turnNum + 1 \in DOMAIN History /\ History[w.turnNum + 1] = next
  BY <1>4, <1>5, HistoryEnds
<1>7. [q \in Parties |-> current[q].vars]' =
        [[q \in Parties |-> current[q].vars] EXCEPT ![Follower] = next]
  <2> HIDE DEF next
  <2>1. QED
    BY <1>3, PartiesDiffer
<1>8. [q \in Parties |-> current[q].vars][Follower] = w
  BY PartiesDiffer
<1>9. History' = History
  BY <1>3, HistoryUntouched
<1>10. QED
  BY <1>6, <1>7, <1>8, <1>9, SameProposals DEF Promise!Accept

\* leaderReceive takes a state of the history that the follower has accepted,
\* or changes nothing the promise speaks of.
LEMMA RefinesConfirm ==
  ASSUME InductiveInv, InductiveInv', NEW i \in 1..Len(queue[Leader]),
         i <= Accepted,
         current'[Leader].vars = StateAt(current[Leader].vars, queue[Leader], i),
         current'[Follower] = current[Follower],
         UNCHANGED signed
  PROVE  Promise!Confirm
<1> DEFINE v == current[Leader].vars
           q == queue[Leader]
           w == StateAt(v, q, i)
<1>1. /\ TypeOK /\ LeaderQueueInv /\ FollowerInv
      /\ v \in Vars /\ v.turnNum \in Nat /\ q \in Seq(SignedProposal)
      /\ Len(q) \in Nat /\ Chain(v, q) /\ Accepted \in Nat
      /\ current[Follower].vars.turnNum = v.turnNum + Accepted
      /\ i \in 1..Len(q)
  BY CopiesAreChains DEF InductiveInv
<1>2. w.turnNum = v.turnNum + i
  <2> HIDE DEF v, q
  <2>1. QED
    BY <1>1, ChainStates
<1>3. w \in signed[Leader]
  BY PartiesDiffer DEF InductiveInv, SignedInv
<1>4. w.turnNum \in DOMAIN History /\ History[w.turnNum] = w
  BY <1>3, HistoryEnds
<1>5. v.turnNum < w.turnNum /\ w.turnNum <= current[Follower].vars.turnNum
  <2> HIDE DEF v, q, w
  <2>1. QED
    BY <1>1, <1>2
<1>6. [x \in Parties |-> current[x].vars]' =
        [[x \in Parties |-> current[x].vars] EXCEPT ![Leader] = w]
  <2>1. current'[Leader].vars = w
    OBVIOUS
  <2> HIDE DEF w
  <2>2. QED
    BY <2>1, PartiesDiffer
<1>7. /\ [x \in Parties |-> current[x].vars][Leader] = v
      /\ [x \in Parties |-> current[x].vars][Follower] = current[Follower].vars
  BY PartiesDiffer
<1>8. History' = History
  BY HistoryUntouched
<1> HIDE DEF w, v, q
<1>9. QED
  BY <1>4, <1>5, <1>6, <1>7, <1>8, SameProposals DEF Promise!Confirm

\* Every step is one step of the promise, or changes nothing it speaks of.
LEMMA RefinesNext ==
  ASSUME InductiveInv, InductiveInv', [Next]_vars
  PROVE  [Promise!Next]_<<History, [p \in Parties |-> current[p].vars]>>
<1>1. CASE \E p \in Proposal : Propose(p)
  BY <1>1, RefinesPropose DEF Promise!Next
<1>2. CASE \E p \in Proposal : SignNextProposal(p)
  BY <1>2, RefinesSignNextProposal DEF Promise!Next
<1>3. CASE UNCHANGED <<current, signed>>
  <2>1. History' = History
    BY <1>3, HistoryUntouched
  <2>2. [p \in Parties |-> current[p].vars]' = [p \in Parties |-> current[p].vars]
    BY <1>3
  <2>3. QED
    BY <2>1, <2>2
<1>4. CASE LeaderReceive
  <2>1. \/ current' = current
        \/ \E p \in Proposal : SignNextProposal(p)
        \/ \E i \in 1..Len(queue[Leader]) :
             /\ i <= Accepted
             /\ current'[Leader].vars =
                  StateAt(current[Leader].vars, queue[Leader], i)
             /\ current'[Follower] = current[Follower]
             /\ UNCHANGED signed
    BY ConsensusSteps
  <2>2. UNCHANGED signed
    BY <1>4 DEF LeaderReceive
  <2>3. CASE current' = current
    BY <1>3, <2>2, <2>3
  <2>4. CASE \E i \in 1..Len(queue[Leader]) :
               /\ i <= Accepted
               /\ current'[Leader].vars =
                    StateAt(current[Leader].vars, queue[Leader], i)
               /\ current'[Follower] = current[Follower]
               /\ UNCHANGED signed
    BY <2>4, RefinesConfirm DEF Promise!Next
  <2>5. QED
    BY <1>2, <2>1, <2>3, <2>4
<1>5. QED
  BY <1>1, <1>2, <1>3, <1>4
     DEF Next, vars, Deliver, Lose, Abandon, FollowerReceive

\* The protocol keeps the ledger's promise: one history of states, each from
\* the one before by one lawful proposal, accepted in order by the follower and
\* confirmed by the leader only after the follower.
THEOREM Refinement == Spec => ImplementsPromise
<1>1. InductiveInv /\ InductiveInv' /\ [Next]_vars =>
        [Promise!Next]_<<History, [p \in Parties |-> current[p].vars]>>
  BY RefinesNext
<1>2. QED
  BY <1>1, RefinesInit, Invariance, PTL DEF Spec, ImplementsPromise, Promise!Spec

-----------------------------------------------------------------------------
(***************************************************************************)
(* The funds of a state.                                                   *)
(***************************************************************************)

\* The guarantees of a state, which are finitely many in every state signed.
Funded(v) == {t \in Targets : IncludesTarget(v, t)}

GuaranteedAmounts(v) == [t \in Funded(v) |-> v.outcome.guarantees[t].amount]

\* What a state of the ledger sums up are natural numbers, and every
\* guarantee was paid for by one of the two parties.
LEMMA GuaranteedAmountsType ==
  ASSUME NEW v \in Vars
  PROVE  /\ GuaranteedAmounts(v) \in [Funded(v) -> Nat]
         /\ v.outcome.balance[Leader] \in Nat
         /\ v.outcome.balance[Follower] \in Nat
         /\ \A t \in Targets : v.outcome.guarantees[t] # NoGuarantee =>
              /\ v.outcome.guarantees[t].amount \in Nat
              /\ v.outcome.guarantees[t].left \in Parties
BY PartiesDiffer
   DEF Vars, Outcome, Guarantee, Funded, GuaranteedAmounts, IncludesTarget, Includes

\* Vars.add moves the two deposits into the new guarantee.
LEMMA AddConserves ==
  ASSUME NEW v \in Vars, NEW p \in Add, CanHandleProposal(v, p),
         IsFiniteSet(Funded(v))
  PROVE  /\ IsFiniteSet(Funded(HandleProposal(v, p)))
         /\ TotalFunds(HandleProposal(v, p)) = TotalFunds(v)
<1> DEFINE w == HandleProposal(v, p)
           t == p.target
<1>1. /\ p.type = "add" /\ t \in Targets /\ p.amount \in Nat
      /\ p.left \in Parties /\ p.leftDeposit \in Nat
      /\ ~ IncludesTarget(v, t) /\ p.leftDeposit <= p.amount
  BY MaxAmountAssumption DEF Add, Amounts, CanHandleProposal, CanAdd
<1>2. /\ w.outcome.balance =
           [q \in Parties |-> IF q = p.left
                                THEN v.outcome.balance[q] - p.leftDeposit
                                ELSE v.outcome.balance[q] - (p.amount - p.leftDeposit)]
      /\ w.outcome.guarantees =
           [v.outcome.guarantees EXCEPT ![t] = [amount |-> p.amount, left |-> p.left]]
      /\ v.outcome.guarantees \in [Targets -> Guarantee \cup {NoGuarantee}]
  BY <1>1 DEF HandleProposal, AddGuarantee, RightDeposit, Vars, Outcome
<1>3. w \in Vars
  BY HandleProposalType DEF Proposal
<1> HIDE DEF w, t
<1>4. Funded(v) = Funded(w) \ {t} /\ t \in Funded(w)
  <2>1. [amount |-> p.amount, left |-> p.left] # NoGuarantee
    BY <1>1, NoGuaranteeAssumption DEF Guarantee
  <2>2. QED
    BY <1>1, <1>2, <2>1 DEF Funded, IncludesTarget, Includes
<1>5. IsFiniteSet(Funded(w))
  <2>1. Funded(w) = Funded(v) \cup {t}
    BY <1>4
  <2>2. QED
    BY <2>1, FS_AddElement
<1>6. /\ GuaranteedAmounts(w)[t] = p.amount
      /\ \A u \in Funded(v) : GuaranteedAmounts(v)[u] = GuaranteedAmounts(w)[u]
  BY <1>1, <1>2, <1>4 DEF GuaranteedAmounts
<1>7. /\ SumFunction(GuaranteedAmounts(w)) =
           p.amount + SumFunction(GuaranteedAmounts(v))
      /\ SumFunction(GuaranteedAmounts(v)) \in Int
  <2>1. PICK f, e, S, R : /\ f = GuaranteedAmounts(w) /\ S = Funded(w)
                          /\ e = GuaranteedAmounts(v) /\ R = Funded(v)
    OBVIOUS
  <2>2. f \in [S -> Int] /\ e \in [R -> Int]
    BY <1>3, <2>1, GuaranteedAmountsType
  <2>3. /\ IsFiniteSet(S) /\ t \in S /\ R = S \ {t} /\ f[t] = p.amount
        /\ \A u \in R : e[u] = f[u]
    BY <1>4, <1>5, <1>6, <2>1
  <2>4. SumFunction(f) = f[t] + SumFunction(e) /\ SumFunction(e) \in Int
    BY ONLY <2>2, <2>3, SumSplits
  <2>5. QED
    BY <2>1, <2>3, <2>4
<1>8. w.outcome.balance[Leader] + w.outcome.balance[Follower] =
        (v.outcome.balance[Leader] + v.outcome.balance[Follower]) - p.amount
  <2>1. v.outcome.balance[Leader] \in Nat /\ v.outcome.balance[Follower] \in Nat
    BY GuaranteedAmountsType
  <2>2. p.left = Leader \/ p.left = Follower
    BY <1>1 DEF Parties
  <2>3. QED
    BY <1>1, <1>2, <2>1, <2>2, PartiesDiffer
<1>9. TotalFunds(w) = TotalFunds(v)
  <2>1. /\ v.outcome.balance[Leader] \in Nat /\ v.outcome.balance[Follower] \in Nat
        /\ w.outcome.balance[Leader] \in Nat /\ w.outcome.balance[Follower] \in Nat
    BY <1>3, GuaranteedAmountsType
  <2>2. /\ TotalFunds(v) = v.outcome.balance[Leader] + v.outcome.balance[Follower]
                             + SumFunction(GuaranteedAmounts(v))
        /\ TotalFunds(w) = w.outcome.balance[Leader] + w.outcome.balance[Follower]
                             + SumFunction(GuaranteedAmounts(w))
    BY DEF TotalFunds, GuaranteedAmounts, Funded
  <2>3. QED
    BY <1>1, <1>7, <1>8, <2>1, <2>2
<1>10. QED
  BY <1>5, <1>9 DEF w

\* Vars.remove gives the two parts of the guarantee back.
LEMMA RemoveConserves ==
  ASSUME NEW v \in Vars, NEW p \in Remove, CanHandleProposal(v, p),
         IsFiniteSet(Funded(v))
  PROVE  /\ IsFiniteSet(Funded(HandleProposal(v, p)))
         /\ TotalFunds(HandleProposal(v, p)) = TotalFunds(v)
<1> DEFINE w == HandleProposal(v, p)
           t == p.target
           old == v.outcome.guarantees[t]
<1>1. /\ p.type = "remove" /\ t \in Targets /\ p.leftAmount \in Nat
      /\ old # NoGuarantee /\ p.leftAmount <= old.amount
  BY MaxAmountAssumption
     DEF Remove, Amounts, CanHandleProposal, CanRemove, IncludesTarget, Includes
<1>2. old.amount \in Nat /\ old.left \in Parties
  BY <1>1, GuaranteedAmountsType
<1>3. /\ w.outcome.balance =
           [q \in Parties |-> IF q = old.left
                                THEN v.outcome.balance[q] + p.leftAmount
                                ELSE v.outcome.balance[q] + (old.amount - p.leftAmount)]
      /\ w.outcome.guarantees = [v.outcome.guarantees EXCEPT ![t] = NoGuarantee]
      /\ v.outcome.guarantees \in [Targets -> Guarantee \cup {NoGuarantee}]
  BY <1>1 DEF HandleProposal, RemoveGuarantee, Vars, Outcome
<1>4. w \in Vars
  BY HandleProposalType DEF Proposal
<1> DEFINE amount == old.amount
           left == old.left
<1>5. Funded(w) = Funded(v) \ {t} /\ t \in Funded(v)
  BY <1>1, <1>3 DEF Funded, IncludesTarget, Includes
<1>6. IsFiniteSet(Funded(w))
  BY <1>5, FS_RemoveElement
<1>7. /\ GuaranteedAmounts(v)[t] = amount
      /\ \A u \in Funded(w) : GuaranteedAmounts(w)[u] = GuaranteedAmounts(v)[u]
  BY <1>1, <1>3, <1>5 DEF GuaranteedAmounts
<1>8. amount \in Nat /\ left \in Parties
  BY <1>2
<1>9. w.outcome.balance =
        [q \in Parties |-> IF q = left
                             THEN v.outcome.balance[q] + p.leftAmount
                             ELSE v.outcome.balance[q] + (amount - p.leftAmount)]
  BY <1>3
<1> HIDE DEF w, t, amount, left
<1>10. /\ SumFunction(GuaranteedAmounts(v)) =
            amount + SumFunction(GuaranteedAmounts(w))
       /\ SumFunction(GuaranteedAmounts(w)) \in Int
  <2>1. PICK f, e, S, R : /\ f = GuaranteedAmounts(v) /\ S = Funded(v)
                          /\ e = GuaranteedAmounts(w) /\ R = Funded(w)
    OBVIOUS
  <2>2. f \in [S -> Int] /\ e \in [R -> Int]
    BY <1>4, <2>1, GuaranteedAmountsType
  <2>3. /\ IsFiniteSet(S) /\ t \in S /\ R = S \ {t} /\ f[t] = amount
        /\ \A u \in R : e[u] = f[u]
    BY <1>5, <1>7, <2>1
  <2>4. SumFunction(f) = f[t] + SumFunction(e)
    BY ONLY <2>2, <2>3, SumSplits
  <2>5. SumFunction(e) \in Int
    BY ONLY <2>2, <2>3, SumSplits
  <2>6. QED
    BY <2>1, <2>3, <2>4, <2>5
<1>11. /\ v.outcome.balance[Leader] \in Nat /\ v.outcome.balance[Follower] \in Nat
       /\ w.outcome.balance[Leader] \in Nat /\ w.outcome.balance[Follower] \in Nat
  BY <1>4, GuaranteedAmountsType
<1>12. w.outcome.balance[Leader] + w.outcome.balance[Follower] =
         (v.outcome.balance[Leader] + v.outcome.balance[Follower]) + amount
  <2>1. left = Leader \/ left = Follower
    BY <1>8 DEF Parties
  <2>2. QED
    BY <1>1, <1>8, <1>9, <1>11, <2>1, PartiesDiffer
<1>13. TotalFunds(w) = TotalFunds(v)
  <2>1. /\ TotalFunds(v) = v.outcome.balance[Leader] + v.outcome.balance[Follower]
                             + SumFunction(GuaranteedAmounts(v))
        /\ TotalFunds(w) = w.outcome.balance[Leader] + w.outcome.balance[Follower]
                             + SumFunction(GuaranteedAmounts(w))
    BY DEF TotalFunds, GuaranteedAmounts, Funded
  <2>2. QED
    BY <1>8, <1>10, <1>11, <1>12, <2>1
<1>14. QED
  BY <1>6, <1>13 DEF w

\* Every state signed has finitely many guarantees and all of the deposits.
FundsInv ==
  \A p \in Parties : \A v \in signed[p] :
    IsFiniteSet(Funded(v)) /\ TotalFunds(v) = TotalFunds(InitialVars)

\* Only Propose signs a new state: it adds or removes one guarantee of a
\* state that has all of the deposits. The follower signs what the leader did.
LEMMA FundsStep ==
  ASSUME InductiveInv, InductiveInv', FundsInv, [Next]_vars
  PROVE  FundsInv'
<1>1. TypeOK /\ SignedInv
  BY DEF InductiveInv
<1>2. ASSUME NEW p \in Proposal, Propose(p) PROVE FundsInv'
  <2> DEFINE latest == LatestProposed(Leader)
             next == HandleProposal(latest, p)
  <2>1. /\ CanHandleProposal(latest, p)
        /\ signed' = [signed EXCEPT ![Leader] = @ \cup {next}]
    BY <1>2 DEF Propose
  <2>2. latest \in signed[Leader] /\ latest \in Vars
    BY <1>1, HistoryEnds, PartiesDiffer DEF TypeOK
  <2>3. IsFiniteSet(Funded(latest)) /\ TotalFunds(latest) = TotalFunds(InitialVars)
    BY <2>2, PartiesDiffer DEF FundsInv
  <2> HIDE DEF latest
  <2>4. IsFiniteSet(Funded(next)) /\ TotalFunds(next) = TotalFunds(InitialVars)
    BY <2>1, <2>2, <2>3, AddConserves, RemoveConserves DEF Proposal
  <2> HIDE DEF next
  <2>5. \A q \in Parties : signed'[q] \subseteq signed[q] \cup {next}
    BY <1>1, <2>1 DEF TypeOK
  <2>6. QED
    BY <2>4, <2>5 DEF FundsInv
<1>3. ASSUME NEW p \in Proposal, SignNextProposal(p) PROVE FundsInv'
  <2>1. signed'[Leader] = signed[Leader]
    BY <1>1, <1>3, PartiesDiffer DEF SignNextProposal, TypeOK
  <2>2. \A q \in Parties : signed'[q] \subseteq signed'[Leader]
    BY DEF InductiveInv, SignedInv, Parties
  <2>3. QED
    BY <2>1, <2>2, PartiesDiffer DEF FundsInv
<1>4. CASE UNCHANGED signed
  BY <1>4 DEF FundsInv
<1>5. QED
  BY <1>2, <1>3, <1>4
     DEF Next, vars, Deliver, Lose, Abandon, LeaderReceive, FollowerReceive

\* No sequence of proposals creates or destroys money: every state either
\* party ever signs distributes exactly what was deposited.
THEOREM FundsConservedHolds == Spec => []FundsConserved
<1>1. Init => FundsInv
  <2>1. SUFFICES ASSUME Init, NEW p \in Parties, NEW v \in signed[p]
                 PROVE  IsFiniteSet(Funded(v)) /\ TotalFunds(v) = TotalFunds(InitialVars)
    BY DEF FundsInv
  <2>2. v = InitialVars
    BY <2>1 DEF Init
  <2>3. Funded(InitialVars) = {}
    BY DEF Funded, IncludesTarget, Includes, InitialVars
  <2>4. QED
    BY <2>2, <2>3, FS_EmptySet
<1>2. InductiveInv /\ InductiveInv' /\ FundsInv /\ [Next]_vars => FundsInv'
  BY FundsStep
<1>3. FundsInv => FundsConserved
  BY DEF FundsInv, FundsConserved
<1>4. QED
  BY <1>1, <1>2, <1>3, Invariance, PTL DEF Spec
=============================================================================
