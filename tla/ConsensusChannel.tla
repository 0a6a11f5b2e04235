-------------------------- MODULE ConsensusChannel --------------------------
(***************************************************************************)
(* The data of a two-party ledger ("consensus") channel and the pure       *)
(* operations on it: channel/consensus-channel/consensus-channel.ts.       *)
(*                                                                         *)
(* A ledger channel has a leader, who proposes, and a follower, who        *)
(* countersigns.  Its variable part, Vars, is a turn number and an         *)
(* outcome: the balance of each party, and the guarantees that fund        *)
(* virtual channels ("targets").  A signature is a record of who signed    *)
(* and which Vars were signed; recovering the signer from a signature over *)
(* other Vars yields an address that is nobody's.                          *)
(***************************************************************************)
EXTENDS Integers, Sequences

CONSTANTS
  Targets,        \* ids of the channels a guarantee can be for
  NoGuarantee,    \* what the outcome maps a target without a guarantee to
  MaxAmount       \* largest amount a proposal may name (a bound on inputs)


Leader   == 0
Follower == 1
Parties  == {Leader, Follower}
Other(party) == 1 - party

Amounts == 0..MaxAmount

(***************************************************************************)
(* Types.  `left' names which of the two parties is the left destination   *)
(* of the guarantee; the right one is the other party.                     *)
(***************************************************************************)
Guarantee == [amount : Nat, left : Parties]

ASSUME MaxAmountAssumption   == MaxAmount \in Nat
ASSUME NoGuaranteeAssumption == NoGuarantee \notin Guarantee

Outcome == [balance    : [Parties -> Nat],
            guarantees : [Targets -> Guarantee \cup {NoGuarantee}]]

Vars == [turnNum : Nat, outcome : Outcome]

Add    == [type : {"add"}, target : Targets, amount : Amounts,
           left : Parties, leftDeposit : Amounts]
Remove == [type : {"remove"}, target : Targets, leftAmount : Amounts]
Proposal == Add \cup Remove

Signature == [signer : Parties, signed : Vars]

SignedProposal == [proposal : Proposal, turnNum : Nat, signature : Signature]

Sign(party, vars) == [signer |-> party, signed |-> vars]

\* recoverSigner(vars, sig) == expected, without naming the garbage address.
SignedBy(sig, party, vars) == sig.signer = party /\ sig.signed = vars

\* LedgerOutcome.includes and includesTarget.
Includes(vars, target, g)    == vars.outcome.guarantees[target] = g
IncludesTarget(vars, target) == ~ Includes(vars, target, NoGuarantee)

(***************************************************************************)
(* Vars.add and Vars.remove: the checks, then the effects.                 *)
(***************************************************************************)
RightDeposit(add) == add.amount - add.leftDeposit

CanAddOnTheLeft(vars, add) ==                                          \* mutant
  /\ ~ IncludesTarget(vars, add.target)
  /\ add.leftDeposit <= add.amount
  /\ add.leftDeposit <= vars.outcome.balance[add.left]

CanAdd(vars, add) ==
  /\ ~ IncludesTarget(vars, add.target)
  /\ add.leftDeposit <= add.amount
  /\ add.leftDeposit <= vars.outcome.balance[add.left]
  /\ RightDeposit(add) <= vars.outcome.balance[Other(add.left)]

AddGuarantee(vars, add) ==
  LET balance == vars.outcome.balance
  IN [turnNum |-> vars.turnNum + 1,
      outcome |->
        [balance |-> [p \in Parties |->
                        IF p = add.left THEN balance[p] - add.leftDeposit
                                        ELSE balance[p] - RightDeposit(add)],
         guarantees |-> [vars.outcome.guarantees EXCEPT
                           ![add.target] = [amount |-> add.amount,
                                            left   |-> add.left]]]]

CanRemove(vars, remove) ==
  /\ IncludesTarget(vars, remove.target)
  /\ remove.leftAmount <= vars.outcome.guarantees[remove.target].amount

RemoveGuaranteeLeavingRest(vars, remove) ==                            \* mutant
  LET g == vars.outcome.guarantees[remove.target]
  IN [turnNum |-> vars.turnNum + 1,
      outcome |->
        [balance |-> [vars.outcome.balance EXCEPT
                        ![g.left] = @ + remove.leftAmount],
         guarantees |-> [vars.outcome.guarantees EXCEPT
                           ![remove.target] = NoGuarantee]]]

RemoveGuarantee(vars, remove) ==
  LET balance == vars.outcome.balance
      g       == vars.outcome.guarantees[remove.target]
  IN [turnNum |-> vars.turnNum + 1,
      outcome |->
        [balance |-> [p \in Parties |->
                        IF p = g.left
                          THEN balance[p] + remove.leftAmount
                          ELSE balance[p] + (g.amount - remove.leftAmount)],
         guarantees |-> [vars.outcome.guarantees EXCEPT
                           ![remove.target] = NoGuarantee]]]

\* Vars.handleProposal throws when the check of its kind of proposal fails.
CanHandleProposal(vars, p) ==
  IF p.type = "add" THEN CanAdd(vars, p) ELSE CanRemove(vars, p)

HandleProposal(vars, p) ==
  IF p.type = "add" THEN AddGuarantee(vars, p) ELSE RemoveGuarantee(vars, p)

(***************************************************************************)
(* VarsAfter(vars, queue)[i] is vars with the first i proposals of the     *)
(* queue applied; latestProposedVars applies them all.                     *)
(***************************************************************************)
VarsAfter(vars, queue) ==
  LET after[i \in 0..Len(queue)] ==
        IF i = 0 THEN vars ELSE HandleProposal(after[i-1], queue[i].proposal)
  IN after

LatestProposedVars(vars, queue) == VarsAfter(vars, queue)[Len(queue)]

\* No proposal of the queue makes handleProposal throw.
QueueApplies(vars, queue) ==
  \A i \in 1..Len(queue) :
    CanHandleProposal(VarsAfter(vars, queue)[i-1], queue[i].proposal)

(***************************************************************************)
(* The questions objectives ask of a ledger channel about a guarantee.     *)
(***************************************************************************)
IsProposed(vars, queue, target, g) ==
  /\ QueueApplies(vars, queue)
  /\ Includes(LatestProposedVars(vars, queue), target, g)
  /\ ~ Includes(vars, target, g)

IsProposedNext(vars, queue, target, g) ==
  /\ queue # << >>
  /\ Includes(HandleProposal(vars, queue[1].proposal), target, g)
  /\ ~ Includes(vars, target, g)

IsRemovalOf(sp, target) ==
  sp.proposal.type = "remove" /\ sp.proposal.target = target

HasRemovalBeenProposed(queue, target) ==
  \E i \in 1..Len(queue) : IsRemovalOf(queue[i], target)

HasRemovalBeenProposedNext(queue, target) ==
  queue # << >> /\ IsRemovalOf(queue[1], target)

(***************************************************************************)
(* What the proofs say of a leader's queue.                                *)
(***************************************************************************)
\* The state a queue entry was signed for; entry 0 is the consensus state.
StateAt(v, q, i) == IF i = 0 THEN v ELSE q[i].signature.signed

\* Each entry is a lawful proposal of the next turn, signed by the leader for
\* the state it leads to.
Chain(v, q) ==
  \A i \in 1..Len(q) :
    /\ CanHandleProposal(StateAt(v, q, i-1), q[i].proposal)
    /\ q[i].turnNum = v.turnNum + i
    /\ SignedBy(q[i].signature, Leader,
                HandleProposal(StateAt(v, q, i-1), q[i].proposal))
=============================================================================
