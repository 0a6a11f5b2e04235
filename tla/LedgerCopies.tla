----------------------------- MODULE LedgerCopies -----------------------------
(***************************************************************************)
(* One party's copy of a ledger channel as a value, and what the methods   *)
(* of ConsensusChannel make of it.  Objectives work on copies in memory,   *)
(* which reach the store only when the crank succeeds (virtualfund.ts,     *)
(* virtualdefund.ts); module LedgerChannel has the same methods as steps   *)
(* of the two parties.                                                     *)
(***************************************************************************)
EXTENDS ConsensusChannel

Copy == [current : Vars, queue : Seq(SignedProposal)]

Latest(copy) == LatestProposedVars(copy.current, copy.queue)

CopyIncludes(copy, target) == IncludesTarget(copy.current, target)

(***************************************************************************)
(* propose                                                                 *)
(***************************************************************************)
CanPropose(copy, p) ==
  QueueApplies(copy.current, copy.queue) /\ CanHandleProposal(Latest(copy), p)

Proposed(copy, p) ==
  LET next == HandleProposal(Latest(copy), p)
  IN [copy EXCEPT !.queue =
        Append(@, [proposal |-> p, turnNum |-> next.turnNum,
                   signature |-> Sign(Leader, next)])]

(***************************************************************************)
(* leaderReceive: the entries of the queue the countersignature may be of. *)
(***************************************************************************)
IsStale(copy, sp) == sp.turnNum <= copy.current.turnNum

Countersigned(copy, sp) ==
  LET after == VarsAfter(copy.current, copy.queue)
  IN {i \in 1..Len(copy.queue) :
        after[i].turnNum = sp.turnNum /\ SignedBy(sp.signature, Follower, after[i])}

LeaderReceives(copy, sp) == IsStale(copy, sp) \/ Countersigned(copy, sp) # {}

LeaderReceivedOneShort(copy, sp) ==                                    \* mutant
  IF IsStale(copy, sp) \/ Countersigned(copy, sp) = {} THEN copy
  ELSE LET i == CHOOSE i \in Countersigned(copy, sp) : TRUE
       IN [current |-> VarsAfter(copy.current, copy.queue)[i],
           queue   |-> SubSeq(copy.queue, i, Len(copy.queue))]

LeaderReceived(copy, sp) ==
  IF IsStale(copy, sp) \/ Countersigned(copy, sp) = {} THEN copy
  ELSE LET i == CHOOSE i \in Countersigned(copy, sp) : TRUE
       IN [current |-> VarsAfter(copy.current, copy.queue)[i],
           queue   |-> SubSeq(copy.queue, i + 1, Len(copy.queue))]

(***************************************************************************)
(* followerReceive                                                         *)
(***************************************************************************)
IsNextTurn(copy, sp) == sp.turnNum = Latest(copy).turnNum + 1

IsValid(copy, sp) ==
  /\ CanHandleProposal(Latest(copy), sp.proposal)
  /\ SignedBy(sp.signature, Leader, HandleProposal(Latest(copy), sp.proposal))

\* Any other turn is ErrInvalidTurnNum, which both objectives ignore.
FollowerReceives(copy, sp) == IsNextTurn(copy, sp) => IsValid(copy, sp)

FollowerReceived(copy, sp) ==
  IF IsNextTurn(copy, sp) /\ IsValid(copy, sp)
    THEN [copy EXCEPT !.queue = Append(@, sp)]
    ELSE copy

(***************************************************************************)
(* receive                                                                 *)
(***************************************************************************)
Receives(party, copy, sp) ==
  IF party = Leader THEN LeaderReceives(copy, sp) ELSE FollowerReceives(copy, sp)

Received(party, copy, sp) ==
  IF party = Leader THEN LeaderReceived(copy, sp) ELSE FollowerReceived(copy, sp)

(***************************************************************************)
(* signNextProposal                                                        *)
(***************************************************************************)
CanSignNext(copy, expected) ==
  /\ copy.queue # << >>
  /\ copy.queue[1].proposal = expected
  /\ CanHandleProposal(copy.current, expected)

SignedNext(copy, expected) ==
  [current |-> HandleProposal(copy.current, expected), queue |-> Tail(copy.queue)]

Countersignature(copy, expected) ==
  LET next == HandleProposal(copy.current, expected)
  IN [proposal |-> expected, turnNum |-> next.turnNum,
      signature |-> Sign(Follower, next)]

\* The proposals of the entries of a queue.
ProposalsOf(queue) == {queue[i].proposal : i \in 1..Len(queue)}
=============================================================================
