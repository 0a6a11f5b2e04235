---------------------------- MODULE LedgerPromise ----------------------------
(***************************************************************************)
(* What a ledger channel promises the objectives that use it, without      *)
(* queues, messages or signatures: there is one history of states, each    *)
(* obtained from the one before by one lawful proposal; the follower       *)
(* accepts it state by state, and the leader's consensus state is always a *)
(* state of that history the follower has already accepted.                *)
(***************************************************************************)
EXTENDS ConsensusChannel

CONSTANT InitialVars      \* the state the channel is created with

VARIABLES
  history,      \* the states proposed so far, by turn number
  consensus     \* the consensus state of each party

Init ==
  /\ history = [n \in {InitialVars.turnNum} |-> InitialVars]
  /\ consensus = [p \in Parties |-> InitialVars]

IsLastTurn(n) == n \in DOMAIN history /\ n + 1 \notin DOMAIN history

\* The leader offers the next state.
Offer ==
  /\ \E n \in DOMAIN history, p \in Proposal :
       /\ IsLastTurn(n)
       /\ CanHandleProposal(history[n], p)
       /\ history' = [m \in DOMAIN history \cup {n + 1} |->
                        IF m = n + 1 THEN HandleProposal(history[n], p)
                                     ELSE history[m]]
  /\ UNCHANGED consensus

\* The follower accepts the state that follows its consensus state.
Accept ==
  LET next == consensus[Follower].turnNum + 1
  IN /\ next \in DOMAIN history
     /\ consensus' = [consensus EXCEPT ![Follower] = history[next]]
     /\ UNCHANGED history

\* The leader learns of a later state the follower has accepted.
Confirm ==
  /\ \E n \in DOMAIN history :
       /\ consensus[Leader].turnNum < n
       /\ n <= consensus[Follower].turnNum
       /\ consensus' = [consensus EXCEPT ![Leader] = history[n]]
  /\ UNCHANGED history

Next == Offer \/ Accept \/ Confirm

Spec == Init /\ [][Next]_<<history, consensus>>
=============================================================================
