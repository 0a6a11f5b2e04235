---------------------------- MODULE LedgerChannel ----------------------------
(***************************************************************************)
(* One ledger channel as its two participants run it: the leader's copy,   *)
(* the follower's copy, and the messages of signed proposals between them. *)
(*                                                                         *)
(* The leader sends its whole proposal queue each time it proposes         *)
(* (virtualfund.ts, virtualdefund.ts); the follower returns one            *)
(* countersigned proposal at a time.  A message that has arrived is worked *)
(* through by the engine one proposal at a time (engine.ts handleMessage), *)
(* and the objective the head proposal is for may sign between two of      *)
(* them.  The engine sends without waiting (engine.ts sendMessages), so    *)
(* messages arrive in any order; the message service gives up after its    *)
(* last attempt and may retry a message that did arrive                    *)
(* (p2p-message-service/service.ts send), so they may be lost and arrive   *)
(* twice: those steps are taken only when Unreliable.                      *)
(***************************************************************************)
EXTENDS ConsensusChannel, Functions

CONSTANTS
  InitialBalance,   \* the balances of the postfund state the channel starts in
  MaxTurnNum,       \* bound: the leader proposes no further turn
  Unreliable        \* whether messages are lost, duplicated and abandoned

ASSUME InitialBalanceAssumption == InitialBalance \in [Parties -> Nat]
ASSUME MaxTurnNumAssumption     == MaxTurnNum \in Nat
ASSUME UnreliableAssumption     == Unreliable \in BOOLEAN

VARIABLES
  current,     \* ConsensusChannel.current of each party: Vars and signatures
  queue,       \* ConsensusChannel._proposalQueue of each party
  inbox,       \* the proposals of the message a party's engine is handling
  network,     \* the messages in flight
  signed       \* history: all Vars a party ever put its signature on

vars == <<current, queue, inbox, network, signed>>

Message == [to : Parties, proposals : Seq(SignedProposal)]

SignedVars == [vars : Vars, signatures : [Parties -> Signature]]

Signatures(leaders, followers) ==
  [p \in Parties |-> IF p = Leader THEN leaders ELSE followers]

\* createConsensusChannel starts from the fully signed postfund state, turn 1.
InitialVars ==
  [turnNum |-> 1,
   outcome |-> [balance |-> InitialBalance, guarantees |-> [t \in Targets |-> NoGuarantee]]]

LatestProposed(party) == LatestProposedVars(current[party].vars, queue[party])

Init ==
  /\ current = [p \in Parties |->
                  [vars |-> InitialVars,
                   signatures |-> Signatures(Sign(Leader, InitialVars),
                                            Sign(Follower, InitialVars))]]
  /\ queue = [p \in Parties |-> << >>]
  /\ inbox = [p \in Parties |-> << >>]
  /\ network = {}
  /\ signed = [p \in Parties |-> {InitialVars}]

(***************************************************************************)
(* ConsensusChannel.propose, and the message that carries the new queue.   *)
(***************************************************************************)

ProposalsMessage(q) == [to |-> Follower, proposals |-> q]

Propose(proposal) ==
  LET latest == LatestProposed(Leader)
      next   == HandleProposal(latest, proposal)
      sp     == [proposal |-> proposal, turnNum |-> next.turnNum,
                 signature |-> Sign(Leader, next)]
      longer == Append(queue[Leader], sp)
  IN /\ latest.turnNum < MaxTurnNum
     /\ QueueApplies(current[Leader].vars, queue[Leader])
     /\ CanHandleProposal(latest, proposal)
     /\ queue[Leader] # << >> =>
          queue[Leader][Len(queue[Leader])].turnNum + 1 = sp.turnNum
     /\ queue' = [queue EXCEPT ![Leader] = longer]
     /\ signed' = [signed EXCEPT ![Leader] = @ \cup {next}]
     /\ network' = network \cup {ProposalsMessage(longer)}
     /\ UNCHANGED <<current, inbox>>

(***************************************************************************)
(* The message service and the engine's run loop.                          *)
(***************************************************************************)
Deliver(m) ==
  /\ m \in network
  /\ inbox[m.to] = << >>
  /\ inbox' = [inbox EXCEPT ![m.to] = m.proposals]
  /\ \/ network' = network \ {m}
     \/ Unreliable /\ network' = network
  /\ UNCHANGED <<current, queue, signed>>

Lose(m) ==
  /\ Unreliable
  /\ m \in network
  /\ network' = network \ {m}
  /\ UNCHANGED <<current, queue, inbox, signed>>

\* An error in one entry makes handleMessage return and drop the others; a
\* restart forgets the message being handled.
Abandon(party) ==
  /\ Unreliable
  /\ inbox[party] # << >>
  /\ inbox' = [inbox EXCEPT ![party] = << >>]
  /\ UNCHANGED <<current, queue, network, signed>>

(***************************************************************************)
(* ConsensusChannel.leaderReceive, by outcome.                             *)
(***************************************************************************)
IsOlder(sp) == sp.turnNum < current[Leader].vars.turnNum               \* mutant

IsStaleProposal(sp) == sp.turnNum <= current[Leader].vars.turnNum

\* The queue entry whose proposal leads to the turn of the countersignature.
Countersigns(sp, i) ==
  LET after == VarsAfter(current[Leader].vars, queue[Leader])
  IN /\ \A j \in 1..i :
          CanHandleProposal(after[j-1], queue[Leader][j].proposal)
     /\ after[i].turnNum = sp.turnNum
     /\ SignedBy(sp.signature, Follower, after[i])

ConfirmedWholeQueue(sp, i) ==                                          \* mutant
  [vars       |-> LatestProposed(Leader),
   signatures |-> Signatures(queue[Leader][i].signature, sp.signature)]

\* The new consensus state, with the leader's own signature of its entry.
Confirmed(sp, i) ==
  [vars       |-> VarsAfter(current[Leader].vars, queue[Leader])[i],
   signatures |-> Signatures(queue[Leader][i].signature, sp.signature)]

\* What is left of the queue once entry i is confirmed.
TrimmedToNothing(q, i)  == << >>                                       \* mutant
TrimmedOneShort(q, i)   == SubSeq(q, i, Len(q))                        \* mutant

Trimmed(q, i) == SubSeq(q, i + 1, Len(q))

LeaderReceive ==
  /\ inbox[Leader] # << >>
  /\ LET sp == Head(inbox[Leader])
     IN \/ /\ ~ IsStaleProposal(sp)
           /\ \E i \in 1..Len(queue[Leader]) :
                /\ Countersigns(sp, i)
                /\ current' = [current EXCEPT ![Leader] = Confirmed(sp, i)]
                /\ queue' = [queue EXCEPT ![Leader] = Trimmed(@, i)]
        \/ /\ \/ IsStaleProposal(sp)
              \/ \A i \in 1..Len(queue[Leader]) : ~ Countersigns(sp, i)
           /\ UNCHANGED <<current, queue>>
  /\ inbox' = [inbox EXCEPT ![Leader] = Tail(@)]
  /\ UNCHANGED <<network, signed>>

(***************************************************************************)
(* ConsensusChannel.followerReceive: append, or ignore the proposal.       *)
(***************************************************************************)
IsNextProposal(sp) == sp.turnNum = LatestProposed(Follower).turnNum + 1

IsValidProposal(sp) ==
  /\ CanHandleProposal(LatestProposed(Follower), sp.proposal)
  /\ SignedBy(sp.signature, Leader,
              HandleProposal(LatestProposed(Follower), sp.proposal))

FollowerReceive ==
  /\ inbox[Follower] # << >>
  /\ LET sp == Head(inbox[Follower])
     IN \/ /\ QueueApplies(current[Follower].vars, queue[Follower])
           /\ IsNextProposal(sp)
           /\ IsValidProposal(sp)
           /\ queue' = [queue EXCEPT ![Follower] = Append(@, sp)]
        \/ /\ ~ /\ QueueApplies(current[Follower].vars, queue[Follower])
                /\ IsNextProposal(sp)
                /\ IsValidProposal(sp)
           /\ UNCHANGED queue
  /\ inbox' = [inbox EXCEPT ![Follower] = Tail(@)]
  /\ UNCHANGED <<current, network, signed>>

(***************************************************************************)
(* ConsensusChannel.signNextProposal, and the countersigned proposal sent  *)
(* back.  The caller expects the proposal of its own objective.            *)
(***************************************************************************)
CountersignedUnsaved(sp, next) ==                                      \* mutant
  [vars       |-> current[Follower].vars,
   signatures |-> Signatures(sp.signature, Sign(Follower, next))]

CountersignedVars(sp, next) ==
  [vars       |-> next,
   signatures |-> Signatures(sp.signature, Sign(Follower, next))]

SignNextProposal(expected) ==
  LET sp   == Head(queue[Follower])
      next == HandleProposal(current[Follower].vars, expected)
  IN /\ queue[Follower] # << >>
     /\ sp.proposal = expected
     /\ CanHandleProposal(current[Follower].vars, expected)
     /\ current' = [current EXCEPT ![Follower] = CountersignedVars(sp, next)]
     /\ queue' = [queue EXCEPT ![Follower] = Tail(@)]
     /\ signed' = [signed EXCEPT ![Follower] = @ \cup {next}]
     /\ network' = network \cup
          {[to |-> Leader,
            proposals |-> << [proposal  |-> expected,
                              turnNum   |-> next.turnNum,
                              signature |-> Sign(Follower, next)] >>]}
     /\ UNCHANGED inbox

Next ==
  \/ \E p \in Proposal : Propose(p)
  \/ \E m \in network : Deliver(m)
  \/ \E m \in network : Lose(m)
  \/ \E party \in Parties : Abandon(party)
  \/ LeaderReceive
  \/ FollowerReceive
  \/ \E p \in Proposal : SignNextProposal(p)

Spec == Init /\ [][Next]_vars

(***************************************************************************)
(* The engine's run loop takes up every arrived message and works through  *)
(* it, and the objective of the head proposal eventually signs.  Nothing   *)
(* makes a leader propose.                                                 *)
(***************************************************************************)
Fairness ==
  /\ \A party \in Parties :
       WF_vars(\E m \in network : m.to = party /\ Deliver(m))
  /\ WF_vars(LeaderReceive)
  /\ WF_vars(FollowerReceive)
  /\ WF_vars(\E p \in Proposal : SignNextProposal(p))

FairSpec == Spec /\ Fairness
-----------------------------------------------------------------------------
\* Every variable holds a value of its kind; in particular no balance of
\* either copy, and of no state on the wire, is negative (Vars.add checks
\* deposits against the balances before it subtracts them).
TypeOK ==
  /\ current \in [Parties -> SignedVars]
  /\ queue \in [Parties -> Seq(SignedProposal)]
  /\ inbox \in [Parties -> Seq(SignedProposal)]
  /\ network \subseteq Message
  /\ signed \in [Parties -> SUBSET Vars]

\* No party ever signs two different states of one turn, however its
\* proposals, duplicates and late countersignatures interleave: with two such
\* signatures either of them could be enforced on chain.
NoEquivocation ==
  \A p \in Parties : \A v, w \in signed[p] :
    v.turnNum = w.turnNum => v = w

\* What a party holds as its consensus state is signed by both parties, and
\* the two signatures it stored are over exactly that state (leaderReceive
\* keeps the leader's signature of the queue entry it found).
CurrentIsDoublySigned ==
  \A p, q \in Parties :
    /\ current[p].vars \in signed[q]
    /\ SignedBy(current[p].signatures[q], q, current[p].vars)

\* The follower is never behind: every state both have signed has a turn no
\* later than the follower's consensus state, and the leader is never ahead.
FollowerHoldsLatest ==
  /\ \A v \in signed[Leader] \cap signed[Follower] :
       v.turnNum <= current[Follower].vars.turnNum
  /\ current[Leader].vars.turnNum <= current[Follower].vars.turnNum

\* The copies agree: the follower's consensus state is what the leader gets by
\* applying its own first queue entries, and what the follower has queued are
\* the entries of the leader's queue that come next.
CopiesAgree ==
  LET k == current[Follower].vars.turnNum - current[Leader].vars.turnNum
      after == VarsAfter(current[Leader].vars, queue[Leader])
  IN /\ k \in 0..Len(queue[Leader])
     /\ k + Len(queue[Follower]) <= Len(queue[Leader])
     /\ current[Follower].vars = after[k]
     /\ \A i \in 1..Len(queue[Follower]) :
          queue[Follower][i] = queue[Leader][k + i]

\* A proposal never reaches a party that must treat it as an error other than
\* a stale turn: leaderReceive finds it in its queue with the follower's
\* signature on that very state, followerReceive never misses the turns before
\* it.  (virtualdefund.ts receiveProposal throws on any other error, which
\* stops the engine, and ErrInvalidTurnNum hides a gap that nobody refills.)
EveryProposalIsUsable ==
  /\ inbox[Leader] # << >> =>
       LET sp == Head(inbox[Leader])
       IN IsStaleProposal(sp) \/ \E i \in 1..Len(queue[Leader]) : Countersigns(sp, i)
  /\ inbox[Follower] # << >> =>
       LET sp == Head(inbox[Follower])
       IN /\ sp.turnNum <= LatestProposed(Follower).turnNum + 1
          /\ IsNextProposal(sp) => IsValidProposal(sp)

\* Moving money between balances and guarantees neither creates nor destroys
\* any: every state a party ever signed distributes exactly the deposits.
TotalFunds(v) ==
  v.outcome.balance[Leader] + v.outcome.balance[Follower]
    + SumFunction([t \in {u \in Targets : IncludesTarget(v, u)} |->
                     v.outcome.guarantees[t].amount])

FundsConserved ==
  \A p \in Parties : \A v \in signed[p] :
    TotalFunds(v) = TotalFunds(InitialVars)

\* No step takes a party's consensus state back to an earlier turn, and a
\* consensus state changes only to one that both have signed.
ConsensusOnlyAdvances ==
  [][\A p \in Parties : current[p] # current'[p] =>
       /\ current[p].vars.turnNum < current'[p].vars.turnNum
       /\ current'[p].vars \in signed'[Leader] \cap signed'[Follower]]_vars

\* When messages arrive, every proposal the leader signed becomes the
\* consensus of both parties (turn by turn, or overtaken by a later one).
EveryProposalCommits ==
  \A n \in 1..MaxTurnNum :
    (\E v \in signed[Leader] : v.turnNum = n) ~>
      \A p \in Parties : current[p].vars.turnNum >= n

(***************************************************************************)
(* The inductive invariant behind the safety properties.  Everything is    *)
(* said relative to the leader's copy, which knows every proposal that is  *)
(* not settled yet.                                                        *)
(***************************************************************************)
LeaderQueueInv == Chain(current[Leader].vars, queue[Leader])

\* How many of the leader's queue entries the follower has signed.
Accepted == current[Follower].vars.turnNum - current[Leader].vars.turnNum

FollowerInv ==
  /\ Accepted \in 0..Len(queue[Leader])
  /\ Accepted + Len(queue[Follower]) <= Len(queue[Leader])
  /\ current[Follower].vars =
       StateAt(current[Leader].vars, queue[Leader], Accepted)
  /\ \A i \in 1..Len(queue[Follower]) :
       queue[Follower][i] = queue[Leader][Accepted + i]

SignedInv ==
  /\ \A p \in Parties : current[p].vars \in signed[p]
  /\ \A i \in 1..Len(queue[Leader]) :
       queue[Leader][i].signature.signed \in signed[Leader]
  /\ \A v \in signed[Leader] :
       v.turnNum <= current[Leader].vars.turnNum + Len(queue[Leader])
  /\ \A v, w \in signed[Leader] : v.turnNum = w.turnNum => v = w
  /\ current[Leader].vars \in signed[Follower]
  /\ signed[Follower] \subseteq signed[Leader]
  /\ \A v \in signed[Follower] : v.turnNum <= current[Follower].vars.turnNum

SignaturesInv ==
  \A p, q \in Parties :
    SignedBy(current[p].signatures[q], q, current[p].vars)

\* A countersignature is over a state the follower signed, of that turn.
IsCountersigned(sp) ==
  /\ sp.signature.signer = Follower
  /\ sp.signature.signed \in signed[Follower]
  /\ sp.turnNum = sp.signature.signed.turnNum

\* A proposal that is not settled yet is the leader's entry of its turn.
IsLeadersEntry(sp) ==
  LET i == sp.turnNum - current[Leader].vars.turnNum
  IN /\ i <= Len(queue[Leader])
     /\ i > 0 => sp = queue[Leader][i]

\* The next turn the follower will take, and a run of proposals without gaps
\* that starts no later.
NextTurn == current[Follower].vars.turnNum + Len(queue[Follower]) + 1

IsRun(proposals) ==
  \A i \in 1..Len(proposals) :
    /\ proposals[i].turnNum = proposals[1].turnNum + i - 1
    /\ proposals[1].turnNum <= NextTurn

ToLeader(proposals) ==
  \A i \in 1..Len(proposals) : IsCountersigned(proposals[i])

ToFollower(proposals) ==
  /\ \A i \in 1..Len(proposals) : IsLeadersEntry(proposals[i])
  /\ IsRun(proposals)

MessagesInv ==
  /\ \A m \in network : IF m.to = Leader THEN ToLeader(m.proposals)
                                         ELSE ToFollower(m.proposals)
  /\ ToLeader(inbox[Leader])
  /\ ToFollower(inbox[Follower])

\* The strengthening that is inductive: the two queues are one chain of lawful
\* states, every state signed belongs to it, and so does every message, late,
\* duplicated or overtaken.
InductiveInv ==
  /\ TypeOK
  /\ LeaderQueueInv
  /\ FollowerInv
  /\ SignedInv
  /\ SignaturesInv
  /\ MessagesInv

(***************************************************************************)
(* The refinement mapping: the history is what the leader has signed.      *)
(***************************************************************************)
History ==
  [n \in {v.turnNum : v \in signed[Leader]} |->
     CHOOSE v \in signed[Leader] : v.turnNum = n]

Promise == INSTANCE LedgerPromise WITH
             history   <- History,
             consensus <- [p \in Parties |-> current[p].vars]

\* The two copies and their messages implement one shared history of states,
\* which each party only ever moves forward in.
ImplementsPromise == Promise!Spec
=============================================================================
