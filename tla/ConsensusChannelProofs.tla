----------------------- MODULE ConsensusChannelProofs -----------------------
(***************************************************************************)
(* Lemmas about the data of a ledger channel, for every set of targets and *)
(* every amount: the operations on Vars, the loop over a proposal queue,   *)
(* the sum of the guarantees of a state, and what a party's copy becomes.  *)
(***************************************************************************)
EXTENDS LedgerCopies, Functions, FiniteSetTheorems, SequenceTheorems,
        WellFoundedInduction, TLAPS

-----------------------------------------------------------------------------
(***************************************************************************)
(* Induction over the natural numbers, for a set instead of a predicate.   *)
(***************************************************************************)

\* A set of naturals that holds 0 and is closed under successor is Nat; the
\* lemmas about latestProposedVars, a loop over the queue, rest on it.
LEMMA SetInduction ==
  ASSUME NEW T, T \subseteq Nat, 0 \in T, \A n \in T : n + 1 \in T
  PROVE  T = Nat
<1> DEFINE C == Nat \ T
<1>1. SUFFICES ASSUME C # {} PROVE FALSE
  OBVIOUS
<1>2. PICK x \in C : \A y \in C : ~ (<<y, x>> \in OpToRel(<, Nat))
  <2>1. C \subseteq Nat
    OBVIOUS
  <2> HIDE DEF C
  <2>2. QED
    BY <1>1, <2>1, WFMin, NatLessThanWellFounded
<1>3. \A y \in C : ~ (y < x)
  BY <1>2 DEF OpToRel
<1>4. x # 0 /\ x \in Nat /\ x - 1 \in Nat
  OBVIOUS
<1>5. x - 1 \in T
  BY <1>3, <1>4
<1>6. QED
  BY <1>4, <1>5

-----------------------------------------------------------------------------
(***************************************************************************)
(* The operations on Vars.                                                 *)
(***************************************************************************)

\* A proposal whose check passes leads from lawful Vars to lawful Vars (no
\* balance becomes negative) of the next turn: Vars.add, Vars.remove.
LEMMA HandleProposalType ==
  ASSUME NEW v \in Vars, NEW p \in Proposal, CanHandleProposal(v, p)
  PROVE  /\ HandleProposal(v, p) \in Vars
         /\ HandleProposal(v, p).turnNum = v.turnNum + 1
<1>1. /\ v.turnNum \in Nat
      /\ v.outcome.balance \in [Parties -> Nat]
      /\ v.outcome.guarantees \in [Targets -> Guarantee \cup {NoGuarantee}]
  BY DEF Vars, Outcome
<1>2. CASE p \in Add
  <2>1. /\ p.type = "add"
        /\ p.target \in Targets
        /\ p.amount \in Nat
        /\ p.left \in Parties
        /\ p.leftDeposit \in Nat
    BY <1>2, MaxAmountAssumption DEF Add, Amounts
  <2>2. /\ p.leftDeposit <= p.amount
        /\ p.leftDeposit <= v.outcome.balance[p.left]
        /\ p.amount - p.leftDeposit <= v.outcome.balance[Other(p.left)]
    BY <2>1 DEF CanHandleProposal, CanAdd, RightDeposit
  <2> DEFINE b == [q \in Parties |->
                     IF q = p.left
                       THEN v.outcome.balance[q] - p.leftDeposit
                       ELSE v.outcome.balance[q] - (p.amount - p.leftDeposit)]
             g == [v.outcome.guarantees EXCEPT
                     ![p.target] = [amount |-> p.amount, left |-> p.left]]
  <2>3. b \in [Parties -> Nat]
    <3>1. SUFFICES ASSUME NEW q \in Parties
                   PROVE  b[q] \in Nat
      OBVIOUS
    <3>2. v.outcome.balance[q] \in Nat
      BY <1>1
    <3>3. CASE q = p.left
      BY <3>2, <3>3, <2>1, <2>2
    <3>4. CASE q # p.left
      <4>1. q = Other(p.left)
        BY <3>4, <2>1 DEF Parties, Leader, Follower, Other
      <4>2. QED
        BY <3>2, <3>4, <4>1, <2>1, <2>2
    <3>5. QED
      BY <3>3, <3>4
  <2>4. g \in [Targets -> Guarantee \cup {NoGuarantee}]
    BY <1>1, <2>1 DEF Guarantee
  <2>5. HandleProposal(v, p) =
          [turnNum |-> v.turnNum + 1, outcome |-> [balance |-> b, guarantees |-> g]]
    BY <2>1 DEF HandleProposal, AddGuarantee, RightDeposit
  <2> HIDE DEF b, g
  <2>6. QED
    BY <1>1, <2>3, <2>4, <2>5 DEF Vars, Outcome
<1>3. CASE p \in Remove
  <2>1. /\ p.type = "remove"
        /\ p.target \in Targets
        /\ p.leftAmount \in Nat
    BY <1>3, MaxAmountAssumption DEF Remove, Amounts
  <2> DEFINE old == v.outcome.guarantees[p.target]
  <2>2. old # NoGuarantee /\ p.leftAmount <= old.amount
    BY <2>1 DEF CanHandleProposal, CanRemove, IncludesTarget, Includes
  <2>3. old \in Guarantee
    BY <1>1, <2>1, <2>2
  <2>4. old.amount \in Nat
    BY <2>3 DEF Guarantee
  <2> DEFINE b == [q \in Parties |->
                     IF q = old.left
                       THEN v.outcome.balance[q] + p.leftAmount
                       ELSE v.outcome.balance[q] + (old.amount - p.leftAmount)]
             g == [v.outcome.guarantees EXCEPT ![p.target] = NoGuarantee]
  <2>5. b \in [Parties -> Nat]
    BY <1>1, <2>1, <2>2, <2>4
  <2>6. g \in [Targets -> Guarantee \cup {NoGuarantee}]
    BY <1>1
  <2>7. HandleProposal(v, p) =
          [turnNum |-> v.turnNum + 1, outcome |-> [balance |-> b, guarantees |-> g]]
    BY <2>1 DEF HandleProposal, RemoveGuarantee
  <2> HIDE DEF b, g
  <2>8. QED
    BY <1>1, <2>5, <2>6, <2>7 DEF Vars, Outcome
<1>4. QED
  BY <1>2, <1>3 DEF Proposal

-----------------------------------------------------------------------------
(***************************************************************************)
(* The loop over the queue.                                                *)
(***************************************************************************)

\* Defined here only to name the function VarsAfter is.
IsVarsAfter(v, q, n, f) ==
  f = [i \in 0..n |-> IF i = 0 THEN v ELSE HandleProposal(f[i-1], q[i].proposal)]

\* The recursion that defines VarsAfter has a solution for a queue of any length.
LEMMA VarsAfterExists ==
  ASSUME NEW v, NEW q
  PROVE  \A n \in Nat : \E f : IsVarsAfter(v, q, n, f)
<1> DEFINE T == {n \in Nat : \E f : IsVarsAfter(v, q, n, f)}
<1>1. 0 \in T
  <2>1. IsVarsAfter(v, q, 0, [i \in 0..0 |-> v])
    BY DEF IsVarsAfter
  <2>2. QED
    BY <2>1
<1>2. ASSUME NEW n \in T PROVE n + 1 \in T
  <2>1. PICK f : IsVarsAfter(v, q, n, f)
    OBVIOUS
  <2>2. IsVarsAfter(v, q, n + 1,
          [i \in 0..(n+1) |-> IF i <= n THEN f[i]
                              ELSE HandleProposal(f[n], q[n+1].proposal)])
    BY <2>1 DEF IsVarsAfter
  <2>3. QED
    BY <2>2
<1> HIDE DEF T
<1>3. T = Nat
  BY <1>1, <1>2, SetInduction DEF T
<1>4. QED
  BY <1>3 DEF T

\* VarsAfter satisfies its recursive definition.
LEMMA VarsAfterDef ==
  ASSUME NEW v, NEW q \in Seq(SignedProposal)
  PROVE  /\ VarsAfter(v, q)[0] = v
         /\ \A i \in 1..Len(q) :
              VarsAfter(v, q)[i] =
                HandleProposal(VarsAfter(v, q)[i-1], q[i].proposal)
<1>1. Len(q) \in Nat
  OBVIOUS
<1>2. \E f : IsVarsAfter(v, q, Len(q), f)
  BY <1>1, VarsAfterExists
<1>3. VarsAfter(v, q) =
        [i \in 0..Len(q) |->
           IF i = 0 THEN v
           ELSE HandleProposal(VarsAfter(v, q)[i-1], q[i].proposal)]
  BY <1>2 DEF IsVarsAfter, VarsAfter
<1> DEFINE f == VarsAfter(v, q)
<1>4. f = [i \in 0..Len(q) |-> IF i = 0 THEN v
                               ELSE HandleProposal(f[i-1], q[i].proposal)]
  BY <1>3
<1> HIDE DEF f
<1>5. f[0] = v
  BY <1>1, <1>4
<1>6. \A i \in 1..Len(q) : f[i] = HandleProposal(f[i-1], q[i].proposal)
  BY <1>1, <1>4
<1>7. QED
  BY <1>5, <1>6 DEF f

-----------------------------------------------------------------------------
(***************************************************************************)
(* Chains of proposals.                                                    *)
(***************************************************************************)

\* In a chain, applying the first i proposals of the queue gives the state its
\* i-th entry is signed for: re-applying the queue, as the code does at every
\* call, never disagrees with the signatures in it.
LEMMA ChainStates ==
  ASSUME NEW v \in Vars, NEW q \in Seq(SignedProposal), Chain(v, q)
  PROVE  \A i \in 0..Len(q) : /\ VarsAfter(v, q)[i] = StateAt(v, q, i)
                              /\ StateAt(v, q, i) \in Vars
                              /\ StateAt(v, q, i).turnNum = v.turnNum + i
<1> DEFINE f == VarsAfter(v, q)
           Good(i) == /\ f[i] = StateAt(v, q, i)
                      /\ StateAt(v, q, i) \in Vars
                      /\ StateAt(v, q, i).turnNum = v.turnNum + i
           T == {n \in Nat : n <= Len(q) => Good(n)}
<1>0. Len(q) \in Nat /\ v.turnNum \in Nat
  BY DEF Vars
<1>1. 0 \in T
  <2>1. f[0] = v
    BY VarsAfterDef
  <2>2. StateAt(v, q, 0) = v
    BY DEF StateAt
  <2>3. QED
    BY <2>1, <2>2, <1>0
<1>2. ASSUME NEW n \in T PROVE n + 1 \in T
  <2>1. SUFFICES ASSUME n + 1 <= Len(q) PROVE Good(n + 1)
    BY <1>2
  <2>2. Good(n) /\ n + 1 \in 1..Len(q)
    BY <2>1, <1>0
  <2> DEFINE sp == q[n+1]
  <2>3. sp \in SignedProposal
    BY <2>2
  <2>4. sp.proposal \in Proposal
    BY <2>3 DEF SignedProposal
  <2>5. /\ CanHandleProposal(StateAt(v, q, n), sp.proposal)
        /\ sp.signature.signed = HandleProposal(StateAt(v, q, n), sp.proposal)
    <3>1. (n + 1) - 1 = n
      BY <2>2
    <3>2. QED
      BY <2>2, <3>1 DEF Chain, SignedBy
  <2>6. StateAt(v, q, n + 1) = sp.signature.signed
    BY <2>2 DEF StateAt
  <2>7. f[n + 1] = HandleProposal(f[n], sp.proposal)
    <3>1. (n + 1) - 1 = n
      BY <2>2
    <3>2. QED
      BY <2>2, <3>1, VarsAfterDef
  <2>8. /\ HandleProposal(StateAt(v, q, n), sp.proposal) \in Vars
        /\ HandleProposal(StateAt(v, q, n), sp.proposal).turnNum
             = StateAt(v, q, n).turnNum + 1
    <3> HIDE DEF sp
    <3>1. QED
      BY <2>2, <2>4, <2>5, HandleProposalType
  <2>9. f[n + 1] = StateAt(v, q, n + 1)
    BY <2>2, <2>5, <2>6, <2>7
  <2>10. StateAt(v, q, n + 1) \in Vars
    BY <2>5, <2>6, <2>8
  <2>11. StateAt(v, q, n + 1).turnNum = v.turnNum + (n + 1)
    <3>1. n \in Nat
      BY <1>2
    <3>2. StateAt(v, q, n).turnNum = v.turnNum + n
      BY <2>2
    <3>3. StateAt(v, q, n + 1).turnNum = StateAt(v, q, n).turnNum + 1
      BY <2>5, <2>6, <2>8
    <3>4. QED
      BY <1>0, <3>1, <3>2, <3>3
  <2>12. QED
    BY <2>9, <2>10, <2>11
<1> HIDE DEF Good
<1>3. T = Nat
  <2>1. T \subseteq Nat
    OBVIOUS
  <2> HIDE DEF T
  <2>2. QED
    BY <1>1, <1>2, <2>1, SetInduction
<1>4. QED
  BY <1>0, <1>3 DEF Good

\* The leader of a chain sees its whole queue apply, up to the state of the
\* last entry: latestProposedVars does not throw.
LEMMA ChainLatest ==
  ASSUME NEW v \in Vars, NEW q \in Seq(SignedProposal), Chain(v, q)
  PROVE  /\ QueueApplies(v, q)
         /\ LatestProposedVars(v, q) = StateAt(v, q, Len(q))
         /\ LatestProposedVars(v, q) \in Vars
         /\ LatestProposedVars(v, q).turnNum = v.turnNum + Len(q)
<1>1. Len(q) \in Nat /\ Len(q) \in 0..Len(q)
  OBVIOUS
<1>2. \A i \in 1..Len(q) : i - 1 \in 0..Len(q)
  BY <1>1
<1>3. QueueApplies(v, q)
  <2>1. SUFFICES ASSUME NEW i \in 1..Len(q)
                 PROVE  CanHandleProposal(VarsAfter(v, q)[i-1], q[i].proposal)
    BY DEF QueueApplies
  <2>2. VarsAfter(v, q)[i-1] = StateAt(v, q, i-1)
    BY <1>2, ChainStates
  <2>3. QED
    BY <2>2 DEF Chain
<1>4. QED
  BY <1>1, <1>3, ChainStates DEF LatestProposedVars

\* Appending a lawful proposal, signed for the state it leads to, extends the
\* chain and changes none of its earlier states.
LEMMA ChainAppend ==
  ASSUME NEW v \in Vars, NEW q \in Seq(SignedProposal), Chain(v, q),
         NEW sp \in SignedProposal,
         CanHandleProposal(StateAt(v, q, Len(q)), sp.proposal),
         SignedBy(sp.signature, Leader,
                  HandleProposal(StateAt(v, q, Len(q)), sp.proposal)),
         sp.turnNum = v.turnNum + Len(q) + 1
  PROVE  /\ Append(q, sp) \in Seq(SignedProposal)
         /\ Len(Append(q, sp)) = Len(q) + 1
         /\ \A i \in 1..Len(q) : Append(q, sp)[i] = q[i]
         /\ Append(q, sp)[Len(q) + 1] = sp
         /\ \A i \in 0..Len(q) : StateAt(v, Append(q, sp), i) = StateAt(v, q, i)
         /\ StateAt(v, Append(q, sp), Len(q) + 1) = sp.signature.signed
         /\ Chain(v, Append(q, sp))
<1> DEFINE longer == Append(q, sp)
<1>1. /\ Len(q) \in Nat
      /\ v.turnNum \in Nat
      /\ longer \in Seq(SignedProposal)
      /\ Len(longer) = Len(q) + 1
      /\ \A i \in 1..Len(q) : longer[i] = q[i]
      /\ longer[Len(q) + 1] = sp
  BY DEF Vars
<1> HIDE DEF longer
<1>2. \A i \in 0..Len(q) : StateAt(v, longer, i) = StateAt(v, q, i)
  BY <1>1 DEF StateAt
<1>3. StateAt(v, longer, Len(q) + 1) = sp.signature.signed
  BY <1>1 DEF StateAt
<1>4. Chain(v, longer)
  <2>1. SUFFICES ASSUME NEW i \in 1..Len(longer)
                 PROVE  /\ CanHandleProposal(StateAt(v, longer, i-1), longer[i].proposal)
                        /\ longer[i].turnNum = v.turnNum + i
                        /\ SignedBy(longer[i].signature, Leader,
                             HandleProposal(StateAt(v, longer, i-1), longer[i].proposal))
    BY DEF Chain
  <2>2. CASE i \in 1..Len(q)
    <3>1. i - 1 \in 0..Len(q) /\ longer[i] = q[i]
      BY <1>1, <2>2
    <3>2. QED
      BY <1>2, <2>2, <3>1 DEF Chain
  <2>3. CASE i = Len(q) + 1
    <3>1. i - 1 = Len(q) /\ longer[i] = sp /\ Len(q) \in 0..Len(q)
      BY <1>1, <2>3
    <3>2. StateAt(v, longer, i-1) = StateAt(v, q, Len(q))
      BY <1>2, <3>1
    <3>3. sp.turnNum = v.turnNum + i
      BY <1>1, <2>3
    <3>4. QED
      BY <3>1, <3>2, <3>3
  <2>4. QED
    BY <1>1, <2>1, <2>2, <2>3
<1>5. QED
  BY <1>1, <1>2, <1>3, <1>4 DEF longer

\* Dropping the first k entries of a chain leaves a chain that starts from the
\* state of the k-th (leaderReceive trims its queue, signNextProposal takes
\* the head off its own).
LEMMA ChainDrop ==
  ASSUME NEW v \in Vars, NEW q \in Seq(SignedProposal), Chain(v, q),
         NEW k \in 0..Len(q), NEW r \in Seq(SignedProposal),
         Len(r) <= Len(q) - k,
         \A i \in 1..Len(r) : r[i] = q[k + i]
  PROVE  /\ Chain(StateAt(v, q, k), r)
         /\ \A i \in 0..Len(r) :
              StateAt(StateAt(v, q, k), r, i) = StateAt(v, q, k + i)
<1> DEFINE w == StateAt(v, q, k)
<1>1. /\ Len(q) \in Nat /\ Len(r) \in Nat /\ k \in Nat
      /\ v.turnNum \in Nat
      /\ w \in Vars /\ w.turnNum = v.turnNum + k
  BY ChainStates DEF Vars
<1> HIDE DEF w
<1>2. \A i \in 0..Len(r) : StateAt(w, r, i) = StateAt(v, q, k + i)
  <2>1. TAKE i \in 0..Len(r)
  <2>2. CASE i = 0
    BY <1>1, <2>2 DEF StateAt, w
  <2>3. CASE i # 0
    BY <1>1, <2>3 DEF StateAt
  <2>4. QED
    BY <2>2, <2>3
<1>3. Chain(w, r)
  <2>1. SUFFICES ASSUME NEW i \in 1..Len(r)
                 PROVE  /\ CanHandleProposal(StateAt(w, r, i-1), r[i].proposal)
                        /\ r[i].turnNum = w.turnNum + i
                        /\ SignedBy(r[i].signature, Leader,
                             HandleProposal(StateAt(w, r, i-1), r[i].proposal))
    BY DEF Chain
  <2>2. /\ k + i \in 1..Len(q) /\ r[i] = q[k + i]
        /\ i - 1 \in 0..Len(r) /\ (k + i) - 1 = k + (i - 1)
    BY SMTT(20), <1>1
  <2>3. StateAt(w, r, i-1) = StateAt(v, q, (k + i) - 1)
    BY <1>2, <2>2
  <2>4. /\ CanHandleProposal(StateAt(v, q, (k + i) - 1), q[k + i].proposal)
        /\ q[k + i].turnNum = v.turnNum + (k + i)
        /\ SignedBy(q[k + i].signature, Leader,
             HandleProposal(StateAt(v, q, (k + i) - 1), q[k + i].proposal))
    BY <2>2 DEF Chain
  <2>5. r[i].turnNum = w.turnNum + i
    <3>1. r[i].turnNum = v.turnNum + (k + i)
      BY <2>2, <2>4
    <3>2. i \in Nat
      BY <1>1
    <3>3. QED
      BY <1>1, <3>1, <3>2
  <2>6. QED
    BY <2>2, <2>3, <2>4, <2>5
<1>4. QED
  BY <1>2, <1>3 DEF w

-----------------------------------------------------------------------------
(***************************************************************************)
(* Sums over a finite set.                                                 *)
(***************************************************************************)

\* Some member of a set: the one SumFunction starts with.
Pick(s) == CHOOSE x \in s : TRUE

\* g sums f over the members of D, which is closed under leaving out a member.
IsSum(f, D, g) ==
  g = [s \in D |-> IF s = {} THEN 0 ELSE f[Pick(s)] + g[s \ {Pick(s)}]]

Sums(f, S, g) == IsSum(f, SUBSET S, g)

\* The subsets of S with at most n members.
Subsets(S, n) == {s \in SUBSET S : Cardinality(s) <= n}

\* Subsets of a finite set are counted by a natural number, one less without a
\* member.
LEMMA SubsetCardinality ==
  ASSUME NEW S, IsFiniteSet(S), NEW s, s \subseteq S
  PROVE  /\ IsFiniteSet(s)
         /\ Cardinality(s) \in Nat
         /\ Cardinality(s) <= Cardinality(S)
         /\ Cardinality(s) = 0 <=> s = {}
         /\ \A x \in s : /\ s \ {x} \subseteq S
                         /\ Cardinality(s \ {x}) = Cardinality(s) - 1
<1>1. IsFiniteSet(s) /\ Cardinality(s) <= Cardinality(S) /\ Cardinality(s) \in Nat
  BY FS_Subset, FS_CardinalityType
<1>2. Cardinality(s) = 0 <=> s = {}
  BY <1>1, FS_EmptySet
<1>3. ASSUME NEW x \in s
      PROVE  Cardinality(s \ {x}) = Cardinality(s) - 1
  BY <1>1, FS_RemoveElement
<1>4. QED
  BY <1>1, <1>2, <1>3

\* The recursion that defines a sum has a solution on a finite set.
LEMMA SumExists ==
  ASSUME NEW f, NEW S, IsFiniteSet(S)
  PROVE  \E g : IsSum(f, SUBSET S, g)
<1> DEFINE T == {n \in Nat : \E g : IsSum(f, Subsets(S, n), g)}
<1>1. 0 \in T
  <2>1. Subsets(S, 0) = {{}}
    <3>1. \A s \in SUBSET S : Cardinality(s) <= 0 <=> s = {}
      BY SubsetCardinality
    <3>2. QED
      BY <3>1 DEF Subsets
  <2>2. IsSum(f, {{}}, [s \in {{}} |-> 0])
    BY DEF IsSum
  <2>3. QED
    BY <2>1, <2>2
<1>2. ASSUME NEW n \in T PROVE n + 1 \in T
  <2>1. PICK g : IsSum(f, Subsets(S, n), g)
    OBVIOUS
  <2> DEFINE h == [s \in Subsets(S, n + 1) |->
                     IF s = {} THEN 0 ELSE f[Pick(s)] + g[s \ {Pick(s)}]]
  <2>2. ASSUME NEW s \in Subsets(S, n + 1), s # {}
        PROVE  s \ {Pick(s)} \in Subsets(S, n)
    <3>1. s \subseteq S /\ Cardinality(s) <= n + 1
      BY DEF Subsets
    <3>2. Pick(s) \in s
      BY <2>2 DEF Pick
    <3>3. /\ Cardinality(s) \in Nat
          /\ s \ {Pick(s)} \subseteq S
          /\ Cardinality(s \ {Pick(s)}) = Cardinality(s) - 1
      BY <3>1, <3>2, SubsetCardinality
    <3>4. QED
      BY <3>1, <3>3 DEF Subsets
  <2>3. ASSUME NEW s \in Subsets(S, n)
        PROVE  h[s] = g[s]
    <3>1. s \in Subsets(S, n + 1)
      <4>1. Cardinality(s) \in Nat /\ s \subseteq S /\ Cardinality(s) <= n
        BY SubsetCardinality DEF Subsets
      <4>2. QED
        BY <4>1 DEF Subsets
    <3>2. g[s] = IF s = {} THEN 0 ELSE f[Pick(s)] + g[s \ {Pick(s)}]
      BY <2>1 DEF IsSum
    <3>3. QED
      BY <3>1, <3>2
  <2>4. h = [s \in Subsets(S, n + 1) |->
               IF s = {} THEN 0 ELSE f[Pick(s)] + h[s \ {Pick(s)}]]
    <3>1. \A s \in Subsets(S, n + 1) :
            s # {} => h[s \ {Pick(s)}] = g[s \ {Pick(s)}]
      BY <2>2, <2>3
    <3>2. QED
      BY <3>1
  <2>5. IsSum(f, Subsets(S, n + 1), h)
    BY <2>4 DEF IsSum
  <2>6. QED
    BY <2>5
<1>3. T = Nat
  <2>1. T \subseteq Nat
    OBVIOUS
  <2> HIDE DEF T
  <2>2. QED
    BY <1>1, <1>2, <2>1, SetInduction
<1>4. Subsets(S, Cardinality(S)) = SUBSET S
  BY SubsetCardinality DEF Subsets
<1>5. Cardinality(S) \in Nat
  BY FS_CardinalityType
<1>6. \E g : IsSum(f, Subsets(S, Cardinality(S)), g)
  BY <1>3, <1>5
<1>7. QED
  BY <1>4, <1>6

\* SumFunction, which the funds of a state are counted with, is that solution.
LEMMA SumIs ==
  ASSUME NEW f, IsFiniteSet(DOMAIN f)
  PROVE  \E g : Sums(f, DOMAIN f, g) /\ SumFunction(f) = g[DOMAIN f]
<1> DEFINE g == CHOOSE g : Sums(f, DOMAIN f, g)
<1>1. Sums(f, DOMAIN f, g)
  BY SumExists DEF Sums
<1>2. SumFunction(f) = g[DOMAIN f]
  BY DEF SumFunction, SumFunctionOnSet, FoldFunctionOnSet, MapThenFoldSet,
         Sums, IsSum, Pick
<1>3. QED
  BY <1>1, <1>2

\* What the recursion says of no members, and of some.
LEMMA SumOfNone ==
  ASSUME NEW f, NEW S, NEW g, Sums(f, S, g)
  PROVE  g[{}] = 0
BY DEF Sums, IsSum

\* A sum over some members is the value of the one picked and the sum of
\* the others.
LEMMA SumStep ==
  ASSUME NEW f, NEW S, NEW g, Sums(f, S, g), NEW s \in SUBSET S, s # {}
  PROVE  Pick(s) \in s /\ g[s] = f[Pick(s)] + g[s \ {Pick(s)}]
BY DEF Sums, IsSum, Pick

\* A sum depends on nothing but the values summed, and is an integer
\* when they are.
LEMMA SumsAgree ==
  ASSUME NEW R, NEW S, IsFiniteSet(R), IsFiniteSet(S),
         NEW f, NEW e, NEW g, NEW h,
         Sums(f, R, g), Sums(e, S, h),
         NEW s, s \subseteq R, s \subseteq S,
         \A x \in s : f[x] \in Int /\ e[x] = f[x]
  PROVE  g[s] \in Int /\ h[s] = g[s]
<1> DEFINE T == {n \in Nat : \A r \in SUBSET s :
                               Cardinality(r) = n => g[r] \in Int /\ h[r] = g[r]}
<1>1. 0 \in T
  <2>1. ASSUME NEW r \in SUBSET s, Cardinality(r) = 0
        PROVE  g[r] = 0 /\ h[r] = 0
    <3>1. r = {}
      BY <2>1, SubsetCardinality
    <3>2. g[{}] = 0 /\ h[{}] = 0
      BY SumOfNone
    <3>3. QED
      BY <3>1, <3>2
  <2>2. QED
    BY <2>1
<1>2. ASSUME NEW n \in T PROVE n + 1 \in T
  <2>1. SUFFICES ASSUME NEW r \in SUBSET s, Cardinality(r) = n + 1
                 PROVE  g[r] \in Int /\ h[r] = g[r]
    BY <1>2
  <2>2. r \subseteq R /\ r \subseteq S /\ r # {}
    <3>1. r \subseteq R /\ r \subseteq S
      OBVIOUS
    <3>2. r # {}
      BY <1>2, <2>1, <3>1, SubsetCardinality
    <3>3. QED
      BY <3>1, <3>2
  <2> DEFINE x == Pick(r)
             rest == r \ {x}
  <2>3. x \in r /\ g[r] = f[x] + g[rest] /\ h[r] = e[x] + h[rest]
    <3>1. r \in SUBSET R /\ r \in SUBSET S
      BY <2>2
    <3>2. x \in r /\ g[r] = f[x] + g[rest]
      BY <2>2, <3>1, SumStep
    <3>3. x \in r /\ h[r] = e[x] + h[rest]
      BY <2>2, <3>1 DEF Sums, IsSum, Pick
    <3>4. QED
      BY <3>2, <3>3
  <2>4. rest \in SUBSET s /\ Cardinality(rest) = n
    <3>1. Cardinality(rest) = Cardinality(r) - 1
      BY <2>2, <2>3, SubsetCardinality
    <3>2. QED
      BY <1>2, <2>1, <3>1
  <2>5. g[rest] \in Int /\ h[rest] = g[rest]
    BY <1>2, <2>4
  <2>6. f[x] \in Int /\ e[x] = f[x]
    BY <2>3
  <2> HIDE DEF x, rest
  <2>7. QED
    BY <2>3, <2>5, <2>6
<1> HIDE DEF T
<1>3. T = Nat
  <2>1. T \subseteq Nat
    BY DEF T
  <2>2. QED
    BY <1>1, <1>2, <2>1, SetInduction
<1>4. Cardinality(s) \in Nat
  BY SubsetCardinality
<1>5. QED
  BY <1>3, <1>4 DEF T

\* Any member may be taken out of a sum first.
LEMMA SumWithout ==
  ASSUME NEW S, IsFiniteSet(S), NEW f, NEW g, Sums(f, S, g),
         \A x \in S : f[x] \in Int
  PROVE  \A s \in SUBSET S : \A x \in s : g[s] = f[x] + g[s \ {x}]
<1> DEFINE T == {n \in Nat : \A s \in SUBSET S :
                   Cardinality(s) = n => \A x \in s : g[s] = f[x] + g[s \ {x}]}
<1>0. \A s \in SUBSET S : g[s] \in Int
  BY SumsAgree
<1>1. 0 \in T
  <2>1. ASSUME NEW s \in SUBSET S, Cardinality(s) = 0
        PROVE  s = {}
    BY <2>1, SubsetCardinality
  <2>2. QED
    BY <2>1
<1>2. ASSUME NEW n \in T PROVE n + 1 \in T
  <2>1. SUFFICES ASSUME NEW s \in SUBSET S, Cardinality(s) = n + 1, NEW x \in s
                 PROVE  g[s] = f[x] + g[s \ {x}]
    BY <1>2
  <2> DEFINE y == Pick(s)
  <2>2. y \in s /\ g[s] = f[y] + g[s \ {y}]
    BY SumStep
  <2>3. CASE x = y
    BY <2>2, <2>3
  <2>4. CASE x # y
    <3>1. /\ s \ {y} \in SUBSET S /\ s \ {x} \in SUBSET S
          /\ Cardinality(s \ {y}) = n /\ Cardinality(s \ {x}) = n
      <4>1. /\ Cardinality(s \ {y}) = Cardinality(s) - 1
            /\ Cardinality(s \ {x}) = Cardinality(s) - 1
        BY <2>2, SubsetCardinality
      <4>2. QED
        BY <1>2, <2>1, <4>1
    <3>2. g[s \ {y}] = f[x] + g[(s \ {y}) \ {x}]
      BY <1>2, <2>4, <3>1
    <3>3. g[s \ {x}] = f[y] + g[(s \ {x}) \ {y}]
      BY <1>2, <2>2, <2>4, <3>1
    <3>4. (s \ {y}) \ {x} = (s \ {x}) \ {y} /\ (s \ {x}) \ {y} \in SUBSET S
      OBVIOUS
    <3> DEFINE both == g[(s \ {x}) \ {y}]
               noty == g[s \ {y}]
               notx == g[s \ {x}]
    <3>5. noty = f[x] + both /\ notx = f[y] + both /\ g[s] = f[y] + noty
      BY <2>2, <3>2, <3>3, <3>4
    <3>6. f[x] \in Int /\ f[y] \in Int /\ both \in Int
      BY <1>0, <2>2, <3>4
    <3> HIDE DEF y, both, noty, notx
    <3>7. g[s] = f[x] + notx
      BY <3>5, <3>6
    <3>8. QED
      BY <3>7 DEF notx
  <2>5. QED
    BY <2>3, <2>4
<1> HIDE DEF T
<1>3. T = Nat
  <2>1. T \subseteq Nat
    BY DEF T
  <2>2. QED
    BY <1>1, <1>2, <2>1, SetInduction
<1>4. \A s \in SUBSET S : Cardinality(s) \in Nat
  BY SubsetCardinality
<1>5. QED
  BY <1>3, <1>4 DEF T

\* The sum of a function is the value of one member and the sum of the rest.
LEMMA SumSplits ==
  ASSUME NEW S, IsFiniteSet(S), NEW f \in [S -> Int], NEW x \in S,
         NEW R, R = S \ {x}, NEW e \in [R -> Int], \A y \in R : e[y] = f[y]
  PROVE  /\ SumFunction(f) = f[x] + SumFunction(e)
         /\ SumFunction(f) \in Int
         /\ SumFunction(e) \in Int
<1>1. DOMAIN f = S /\ DOMAIN e = R /\ IsFiniteSet(R)
  BY FS_RemoveElement
<1>2. PICK g : Sums(f, S, g) /\ SumFunction(f) = g[S]
  BY <1>1, SumIs
<1>3. PICK h : Sums(e, R, h) /\ SumFunction(e) = h[R]
  BY <1>1, SumIs
<1>4. \A y \in S : f[y] \in Int
  OBVIOUS
<1>5. g[S] = f[x] + g[R]
  BY <1>2, <1>4, SumWithout
<1>6. g[R] \in Int /\ h[R] = g[R]
  <2>1. R \subseteq S /\ R \subseteq R
    OBVIOUS
  <2>2. \A y \in R : f[y] \in Int /\ e[y] = f[y]
    OBVIOUS
  <2>3. QED
    BY <1>1, <1>2, <1>3, <2>1, <2>2, SumsAgree
<1>7. QED
  BY <1>2, <1>3, <1>5, <1>6

\* The sum of f over some of its members.
SumOver(f, s) == SumFunction([x \in s |-> f[x]])

\* A sum over part of a set is that over all but one of them and the one.
LEMMA PartialSums ==
  ASSUME NEW S, IsFiniteSet(S), NEW f \in [S -> Int]
  PROVE  /\ SumOver(f, {}) = 0
         /\ SumOver(f, S) = SumFunction(f) /\ SumFunction(f) \in Int
         /\ \A s \in SUBSET S : /\ SumOver(f, s) \in Int
                                /\ \A x \in s : SumOver(f, s) = f[x] + SumOver(f, s \ {x})
<1>1. SumOver(f, {}) = 0
  <2>1. PICK e : e = [x \in {} |-> f[x]]
    OBVIOUS
  <2>2. DOMAIN e = {} /\ IsFiniteSet(DOMAIN e)
    BY <2>1, FS_EmptySet
  <2>3. PICK g : Sums(e, DOMAIN e, g) /\ SumFunction(e) = g[DOMAIN e]
    BY <2>2, SumIs
  <2>4. SumFunction(e) = 0
    BY <2>2, <2>3, SumOfNone
  <2>5. QED
    BY <2>1, <2>4 DEF SumOver
<1>2. SumOver(f, S) = SumFunction(f)
  <2>1. f = [x \in S |-> f[x]]
    OBVIOUS
  <2>2. QED
    BY <2>1 DEF SumOver
<1>3. ASSUME NEW s \in SUBSET S, NEW x \in s
      PROVE  SumOver(f, s) = f[x] + SumOver(f, s \ {x}) /\ SumOver(f, s) \in Int
  <2>1. PICK a, b, R : /\ a = [y \in s |-> f[y]] /\ R = s \ {x} /\ b = [y \in R |-> f[y]]
    OBVIOUS
  <2>2. a \in [s -> Int] /\ b \in [R -> Int] /\ (\A y \in R : b[y] = a[y]) /\ a[x] = f[x]
    BY <2>1
  <2>3. IsFiniteSet(s)
    BY FS_Subset
  <2>4. SumFunction(a) = a[x] + SumFunction(b) /\ SumFunction(a) \in Int
    BY ONLY <2>2, <2>3, <2>1, x \in s, SumSplits
  <2>5. SumOver(f, s) = SumFunction(a) /\ SumOver(f, s \ {x}) = SumFunction(b)
    BY <2>1 DEF SumOver
  <2>6. QED
    BY <2>2, <2>4, <2>5
<1>4. ASSUME NEW s \in SUBSET S PROVE SumOver(f, s) \in Int
  <2>1. CASE s = {}
    BY <1>1, <2>1
  <2>2. CASE s # {}
    <3>1. PICK x \in s : TRUE
      BY <2>2
    <3>2. QED
      BY <1>3, <3>1
  <2>3. QED
    BY <2>1, <2>2
<1>5. QED
  BY <1>1, <1>2, <1>3, <1>4

\* Whatever counts each member once is the sum.
LEMMA SumIsUnique ==
  ASSUME NEW S, IsFiniteSet(S), NEW f \in [S -> Int], NEW F,
         F[{}] = 0,
         \A s \in SUBSET S : \A x \in s : F[s] = f[x] + F[s \ {x}]
  PROVE  F[S] = SumFunction(f)
<1> DEFINE T == {n \in Nat : \A s \in SUBSET S : Cardinality(s) = n => F[s] = SumOver(f, s)}
<1>1. 0 \in T
  <2>1. ASSUME NEW s \in SUBSET S, Cardinality(s) = 0
        PROVE  F[s] = SumOver(f, s)
    <3>1. s = {}
      BY <2>1, SubsetCardinality
    <3>2. QED
      BY <3>1, PartialSums
  <2>2. QED
    BY <2>1
<1>2. ASSUME NEW n \in T PROVE n + 1 \in T
  <2>1. SUFFICES ASSUME NEW s \in SUBSET S, Cardinality(s) = n + 1
                 PROVE  F[s] = SumOver(f, s)
    BY <1>2
  <2>2. s # {}
    BY <1>2, <2>1, SubsetCardinality
  <2>3. PICK x \in s : TRUE
    BY <2>2
  <2>4. s \ {x} \in SUBSET S /\ Cardinality(s \ {x}) = n
    <3>1. Cardinality(s \ {x}) = Cardinality(s) - 1
      BY SubsetCardinality
    <3>2. QED
      BY <1>2, <2>1, <3>1
  <2>5. F[s \ {x}] = SumOver(f, s \ {x})
    BY <1>2, <2>4
  <2>6. SumOver(f, s) = f[x] + SumOver(f, s \ {x})
    BY PartialSums
  <2>7. QED
    BY <2>5, <2>6
<1> HIDE DEF T
<1>3. T = Nat
  <2>1. T \subseteq Nat
    BY DEF T
  <2>2. QED
    BY <1>1, <1>2, <2>1, SetInduction
<1>4. Cardinality(S) \in Nat
  BY SubsetCardinality
<1>5. F[S] = SumOver(f, S)
  BY <1>3, <1>4 DEF T
<1>6. QED
  BY <1>5, PartialSums

\* What changes at one member changes the sum by as much.
LEMMA SumOfChange ==
  ASSUME NEW S, IsFiniteSet(S), NEW f \in [S -> Int], NEW e \in [S -> Int],
         NEW x \in S, \A y \in S \ {x} : e[y] = f[y]
  PROVE  SumFunction(e) = SumFunction(f) - f[x] + e[x]
<1>1. [y \in S \ {x} |-> e[y]] = [y \in S \ {x} |-> f[y]]
  OBVIOUS
<1>2. SumOver(e, S \ {x}) = SumOver(f, S \ {x})
  BY <1>1 DEF SumOver
<1>3. S \in SUBSET S /\ S \ {x} \in SUBSET S
  OBVIOUS
<1>4. SumFunction(f) = f[x] + SumOver(f, S \ {x}) /\ SumOver(f, S \ {x}) \in Int
  BY <1>3, PartialSums
<1>5. SumFunction(e) = e[x] + SumOver(e, S \ {x})
  BY <1>3, PartialSums
<1>6. f[x] \in Int /\ e[x] \in Int
  OBVIOUS
<1>7. QED
  BY <1>2, <1>4, <1>5, <1>6

\* Zeros do not count: neither when all are, nor those outside a part.
LEMMA SumOfPart ==
  ASSUME NEW S, IsFiniteSet(S), NEW f \in [S -> Int], NEW R \in SUBSET S,
         \A x \in S \ R : f[x] = 0
  PROVE  SumFunction(f) = SumOver(f, R)
<1> DEFINE F == [s \in SUBSET S |-> SumOver(f, s \cap R)]
<1>1. F[{}] = 0
  <2>1. {} \in SUBSET S /\ {} \cap R = {}
    OBVIOUS
  <2>2. QED
    BY <2>1, PartialSums
<1>2. ASSUME NEW s \in SUBSET S, NEW x \in s PROVE F[s] = f[x] + F[s \ {x}]
  <2>1. /\ s \ {x} \in SUBSET S /\ s \cap R \in SUBSET S
        /\ SumOver(f, s \cap R) \in Int /\ f[x] \in Int
    BY PartialSums
  <2>2. CASE x \in R
    <3>1. x \in s \cap R /\ (s \cap R) \ {x} = (s \ {x}) \cap R
      BY <2>2
    <3>2. SumOver(f, s \cap R) = f[x] + SumOver(f, (s \cap R) \ {x})
      BY <2>1, <3>1, PartialSums
    <3>3. QED
      BY <2>1, <3>1, <3>2
  <2>3. CASE x \notin R
    <3>1. s \cap R = (s \ {x}) \cap R /\ f[x] = 0
      BY <2>3
    <3>2. QED
      BY <2>1, <3>1
  <2>4. QED
    BY <2>2, <2>3
<1>3. F[S] = SumOver(f, R)
  <2>1. S \in SUBSET S /\ S \cap R = R
    OBVIOUS
  <2>2. QED
    BY <2>1
<1> HIDE DEF F
<1>4. F[S] = SumFunction(f)
  BY <1>1, <1>2, SumIsUnique
<1>5. QED
  BY <1>3, <1>4

\* A sum of sums is one sum.
LEMMA SumOfBoth ==
  ASSUME NEW S, IsFiniteSet(S), NEW f \in [S -> Int], NEW e \in [S -> Int],
         NEW h \in [S -> Int], \A x \in S : h[x] = f[x] + e[x]
  PROVE  SumFunction(h) = SumFunction(f) + SumFunction(e)
<1> DEFINE F == [s \in SUBSET S |-> SumOver(f, s) + SumOver(e, s)]
<1>1. F[{}] = 0
  <2>1. SumOver(f, {}) = 0 /\ SumOver(e, {}) = 0
    BY PartialSums
  <2>2. QED
    BY <2>1
<1>2. ASSUME NEW s \in SUBSET S, NEW x \in s PROVE F[s] = h[x] + F[s \ {x}]
  <2>1. SumOver(f, s) = f[x] + SumOver(f, s \ {x}) /\ SumOver(f, s \ {x}) \in Int
    BY PartialSums
  <2>2. SumOver(e, s) = e[x] + SumOver(e, s \ {x}) /\ SumOver(e, s \ {x}) \in Int
    BY PartialSums
  <2>3. f[x] \in Int /\ e[x] \in Int /\ h[x] = f[x] + e[x]
    OBVIOUS
  <2>4. F[s] = SumOver(f, s) + SumOver(e, s)
        /\ F[s \ {x}] = SumOver(f, s \ {x}) + SumOver(e, s \ {x})
    OBVIOUS
  <2> HIDE DEF F
  <2>5. QED
    BY <2>1, <2>2, <2>3, <2>4
<1>3. F[S] = SumFunction(f) + SumFunction(e)
  BY PartialSums
<1> HIDE DEF F
<1>4. F[S] = SumFunction(h)
  BY <1>1, <1>2, SumIsUnique
<1>5. QED
  BY <1>3, <1>4

\* A table read by rows and by columns, with the sums of both.
AreSumsOfTable(X, Y, byRow, byColumn, rowSums, columnSums) ==
  /\ byRow \in [X -> [Y -> Int]] /\ byColumn \in [Y -> [X -> Int]]
  /\ \A x \in X, y \in Y : byRow[x][y] = byColumn[y][x]
  /\ rowSums \in [X -> Int] /\ columnSums \in [Y -> Int]
  /\ \A x \in X : rowSums[x] = SumFunction(byRow[x])
  /\ \A y \in Y : columnSums[y] = SumFunction(byColumn[y])

\* Rows and columns add up to the same.
LEMMA SumsSwap ==
  ASSUME NEW X, IsFiniteSet(X), NEW Y, IsFiniteSet(Y),
         NEW byRow, NEW byColumn, NEW rowSums, NEW columnSums,
         AreSumsOfTable(X, Y, byRow, byColumn, rowSums, columnSums)
  PROVE  SumFunction(rowSums) = SumFunction(columnSums)
<1>0. /\ byRow \in [X -> [Y -> Int]] /\ byColumn \in [Y -> [X -> Int]]
      /\ \A x \in X, y \in Y : byRow[x][y] = byColumn[y][x]
      /\ rowSums \in [X -> Int] /\ columnSums \in [Y -> Int]
      /\ \A x \in X : rowSums[x] = SumFunction(byRow[x])
      /\ \A y \in Y : columnSums[y] = SumFunction(byColumn[y])
  BY DEF AreSumsOfTable
<1> DEFINE row(x)    == [y \in Y |-> byRow[x][y]]
           column(y) == [x \in X |-> byRow[x][y]]
           rows      == [x \in X |-> SumFunction(row(x))]
           over(s)   == [y \in Y |-> SumOver(column(y), s)]
           F         == [s \in SUBSET X |-> SumFunction(over(s))]
<1>1. \A x \in X : row(x) \in [Y -> Int] /\ SumFunction(row(x)) \in Int
  BY <1>0, PartialSums
<1>2. \A y \in Y : column(y) \in [X -> Int]
  BY <1>0
<1>3. rows \in [X -> Int]
  BY <1>1
<1>4. \A s \in SUBSET X : over(s) \in [Y -> Int] /\ F[s] = SumFunction(over(s))
  BY <1>2, PartialSums
<1>5. F[{}] = 0
  <2>1. \A y \in Y : over({})[y] = 0
    BY <1>2, PartialSums
  <2>2. {} \in SUBSET X /\ {} \in SUBSET Y /\ over({}) \in [Y -> Int]
    BY <1>4
  <2> HIDE DEF over
  <2>3. SumFunction(over({})) = SumOver(over({}), {})
    BY <2>1, <2>2, SumOfPart
  <2>4. SumOver(over({}), {}) = 0
    BY <2>2, PartialSums
  <2>5. QED
    BY <1>4, <2>2, <2>3, <2>4
<1>6. ASSUME NEW s \in SUBSET X, NEW x \in s PROVE F[s] = rows[x] + F[s \ {x}]
  <2>1. x \in X /\ s \ {x} \in SUBSET X
    OBVIOUS
  <2>2. \A y \in Y : over(s)[y] = row(x)[y] + over(s \ {x})[y]
    <3>1. SUFFICES ASSUME NEW y \in Y
                   PROVE  over(s)[y] = row(x)[y] + over(s \ {x})[y]
      OBVIOUS
    <3>2. SumOver(column(y), s) = column(y)[x] + SumOver(column(y), s \ {x})
      BY <1>2, PartialSums
    <3>3. QED
      BY <2>1, <3>2
  <2>3. /\ row(x) \in [Y -> Int] /\ over(s) \in [Y -> Int]
        /\ over(s \ {x}) \in [Y -> Int]
    BY <1>1, <1>4, <2>1
  <2>4. rows[x] = SumFunction(row(x))
    BY <2>1
  <2> HIDE DEF row, over
  <2>5. SumFunction(over(s)) = SumFunction(row(x)) + SumFunction(over(s \ {x}))
    <3>1. PICK h, f, e : h = over(s) /\ f = row(x) /\ e = over(s \ {x})
      OBVIOUS
    <3>2. /\ f \in [Y -> Int] /\ e \in [Y -> Int] /\ h \in [Y -> Int]
          /\ \A y \in Y : h[y] = f[y] + e[y]
      BY <2>2, <2>3, <3>1
    <3>3. SumFunction(h) = SumFunction(f) + SumFunction(e)
      BY ONLY IsFiniteSet(Y), <3>2, SumOfBoth
    <3>4. QED
      BY <3>1, <3>3
  <2>6. QED
    BY <1>4, <2>1, <2>4, <2>5
<1>7. over(X) = [y \in Y |-> SumFunction(column(y))]
  <2>1. \A y \in Y : SumOver(column(y), X) = SumFunction(column(y))
    BY <1>2, PartialSums
  <2> HIDE DEF column
  <2>2. QED
    BY <2>1
<1>8. F[X] = SumFunction(over(X))
  BY <1>4
<1>9. F[X] = SumFunction(rows)
  <2> HIDE DEF F, rows
  <2>1. QED
    BY <1>3, <1>5, <1>6, SumIsUnique
<1>10. rows = rowSums
  <2>1. \A x \in X : row(x) = byRow[x]
    BY <1>0
  <2>2. \A x \in X : rows[x] = rowSums[x]
    BY <1>0, <2>1
  <2> HIDE DEF rows
  <2>3. QED
    BY <1>0, <1>3, <2>2
<1>11. over(X) = columnSums
  <2>1. \A y \in Y : column(y) = byColumn[y]
    BY <1>0
  <2> HIDE DEF column
  <2>2. \A y \in Y : SumFunction(column(y)) = columnSums[y]
    BY <1>0, <2>1
  <2>3. [y \in Y |-> SumFunction(column(y))] = columnSums
    BY <1>0, <2>2
  <2>4. QED
    BY <1>7, <2>3
<1>12. QED
  BY <1>8, <1>9, <1>10, <1>11

-----------------------------------------------------------------------------
(***************************************************************************)
(* The history that signed states make.                                    *)
(***************************************************************************)

\* The history of a set of states: each at its turn.
HistoryOf(states) ==
  [n \in {v.turnNum : v \in states} |-> CHOOSE v \in states : v.turnNum = n]

\* Where no two states share a turn, the history has exactly the states, each
\* at its turn.
LEMMA HistoryHasStates ==
  ASSUME NEW states,
         \A v, w \in states : v.turnNum = w.turnNum => v = w
  PROVE  \A v \in states : /\ v.turnNum \in DOMAIN HistoryOf(states)
                           /\ HistoryOf(states)[v.turnNum] = v
<1>1. SUFFICES ASSUME NEW v \in states
               PROVE  /\ v.turnNum \in DOMAIN HistoryOf(states)
                      /\ HistoryOf(states)[v.turnNum] = v
  OBVIOUS
<1>2. v.turnNum \in {w.turnNum : w \in states}
  OBVIOUS
<1>3. HistoryOf(states)[v.turnNum] = CHOOSE w \in states : w.turnNum = v.turnNum
  BY <1>2 DEF HistoryOf
<1>4. (CHOOSE w \in states : w.turnNum = v.turnNum) = v
  OBVIOUS
<1>5. QED
  BY <1>2, <1>3, <1>4 DEF HistoryOf

\* A state of a new turn extends the history and leaves the rest of it alone.
LEMMA HistoryOfMore ==
  ASSUME NEW states, NEW next,
         \A v, w \in states : v.turnNum = w.turnNum => v = w,
         \A v \in states : v.turnNum # next.turnNum
  PROVE  HistoryOf(states \cup {next}) =
           [m \in DOMAIN HistoryOf(states) \cup {next.turnNum} |->
              IF m = next.turnNum THEN next ELSE HistoryOf(states)[m]]
<1> DEFINE old == HistoryOf(states)
           new == HistoryOf(states \cup {next})
<1>1. /\ DOMAIN old = {v.turnNum : v \in states}
      /\ DOMAIN new = {v.turnNum : v \in states \cup {next}}
      /\ new = [m \in DOMAIN new |-> new[m]]
  BY DEF HistoryOf
<1>2. DOMAIN new = DOMAIN old \cup {next.turnNum}
  BY <1>1
<1>3. \A v \in states : old[v.turnNum] = v
  BY HistoryHasStates
<1>4. \A v \in states \cup {next} : new[v.turnNum] = v
  <2>1. \A v, w \in states \cup {next} : v.turnNum = w.turnNum => v = w
    OBVIOUS
  <2>2. QED
    BY <2>1, HistoryHasStates
<1>5. ASSUME NEW m \in DOMAIN old \cup {next.turnNum}
      PROVE  new[m] = IF m = next.turnNum THEN next ELSE old[m]
  <2>1. CASE m = next.turnNum
    BY <1>4, <2>1
  <2>2. CASE m # next.turnNum
    <3>1. PICK v \in states : v.turnNum = m
      BY <1>1, <2>2
    <3>2. QED
      BY <1>3, <1>4, <2>2, <3>1
  <2>3. QED
    BY <2>1, <2>2
<1> HIDE DEF old, new
<1>6. QED
  BY <1>1, <1>2, <1>5 DEF old, new

-----------------------------------------------------------------------------
(***************************************************************************)
(* What the operations on a copy of a ledger make of it.                   *)
(***************************************************************************)

\* A ledger has two parties.
LEMMA TwoParties == /\ Leader \in Parties /\ Follower \in Parties
                    /\ Leader # Follower
                    /\ \A p \in Parties : p = Leader \/ p = Follower
BY DEF Parties, Leader, Follower

\* From the copy old to the copy new nothing was proposed but what is in S,
\* and a guarantee appears or disappears only by a proposal for it.
Evolves(old, new, S) ==
  LET made == ProposalsOf(old.queue) \cup S
  IN /\ new \in Copy
     /\ ProposalsOf(new.queue) \subseteq made
     /\ \A u \in Targets :
          /\ CopyIncludes(new, u) /\ ~ CopyIncludes(old, u) =>
               \E q \in made : q.target = u
          /\ CopyIncludes(old, u) /\ ~ CopyIncludes(new, u) =>
               \E q \in made : q.type = "remove" /\ q.target = u

\* The two parts of a copy.
LEMMA CopyIs ==
  ASSUME NEW copy \in Copy
  PROVE  /\ copy.current \in Vars
         /\ copy.queue \in Seq(SignedProposal)
         /\ copy = [current |-> copy.current, queue |-> copy.queue]
         /\ ProposalsOf(copy.queue) \subseteq Proposal
<1>1. /\ copy.current \in Vars
      /\ copy.queue \in Seq(SignedProposal)
      /\ copy = [current |-> copy.current, queue |-> copy.queue]
  BY DEF Copy
<1>2. ASSUME NEW i \in 1..Len(copy.queue) PROVE copy.queue[i].proposal \in Proposal
  <2>1. copy.queue[i] \in SignedProposal
    BY <1>1
  <2>2. QED
    BY <2>1 DEF SignedProposal
<1>3. QED
  BY <1>1, <1>2 DEF ProposalsOf

\* A copy that stays what it is evolves.
LEMMA EvolvesByNothing ==
  ASSUME NEW copy \in Copy, NEW S
  PROVE  Evolves(copy, copy, S)
BY DEF Evolves

\* What evolves twice evolves, and may evolve by more.
LEMMA EvolvesTwice ==
  ASSUME NEW a, NEW b, NEW c, NEW S, NEW R, R \subseteq S,
         Evolves(a, b, S), Evolves(b, c, R)
  PROVE  Evolves(a, c, S)
<1>1. ProposalsOf(b.queue) \cup R \subseteq ProposalsOf(a.queue) \cup S
  BY DEF Evolves
<1>2. QED
  BY <1>1 DEF Evolves

\* A proposal that is handled adds or removes the guarantee of its target.
LEMMA HandleIncludes ==
  ASSUME NEW state \in Vars, NEW p \in Proposal, NEW u \in Targets
  PROVE  IncludesTarget(HandleProposal(state, p), u) <=>
           IF u = p.target THEN p.type = "add" ELSE IncludesTarget(state, u)
<1>1. state.outcome.guarantees \in [Targets -> Guarantee \cup {NoGuarantee}]
  BY DEF Vars, Outcome
<1>2. CASE p \in Add
  <2>1. p.type = "add" /\ p.target \in Targets /\ p.amount \in Nat /\ p.left \in Parties
    BY <1>2, MaxAmountAssumption DEF Add, Amounts
  <2>2. [amount |-> p.amount, left |-> p.left] # NoGuarantee
    BY <2>1, NoGuaranteeAssumption DEF Guarantee
  <2>3. HandleProposal(state, p).outcome.guarantees =
          [state.outcome.guarantees EXCEPT
             ![p.target] = [amount |-> p.amount, left |-> p.left]]
    BY <2>1 DEF HandleProposal, AddGuarantee
  <2>4. QED
    BY <1>1, <2>1, <2>2, <2>3 DEF IncludesTarget, Includes
<1>3. CASE p \in Remove
  <2>1. p.type = "remove" /\ p.target \in Targets
    BY <1>3 DEF Remove
  <2>2. HandleProposal(state, p).outcome.guarantees =
          [state.outcome.guarantees EXCEPT ![p.target] = NoGuarantee]
    BY <2>1 DEF HandleProposal, RemoveGuarantee
  <2>3. QED
    BY <1>1, <2>1, <2>2 DEF IncludesTarget, Includes
<1>4. QED
  BY <1>2, <1>3 DEF Proposal

\* The states of a chain differ from its first one by the proposals made.
LEMMA ChainIncludes ==
  ASSUME NEW v \in Vars, NEW q \in Seq(SignedProposal), Chain(v, q), NEW u \in Targets
  PROVE  \A i \in 0..Len(q) :
           LET before == IncludesTarget(v, u)
               after  == IncludesTarget(StateAt(v, q, i), u)
           IN /\ after /\ ~ before => \E p \in ProposalsOf(q) : p.target = u
              /\ before /\ ~ after => \E p \in ProposalsOf(q) :
                                         p.type = "remove" /\ p.target = u
<1> DEFINE Good(i) ==
      LET before == IncludesTarget(v, u)
          after  == IncludesTarget(StateAt(v, q, i), u)
      IN /\ after /\ ~ before => \E p \in ProposalsOf(q) : p.target = u
         /\ before /\ ~ after => \E p \in ProposalsOf(q) :
                                    p.type = "remove" /\ p.target = u
    T == {n \in Nat : n <= Len(q) => Good(n)}
<1>0. Len(q) \in Nat
  OBVIOUS
<1>1. 0 \in T
  BY <1>0 DEF StateAt
<1>2. ASSUME NEW n \in T PROVE n + 1 \in T
  <2>1. SUFFICES ASSUME n + 1 <= Len(q) PROVE Good(n + 1)
    BY <1>2
  <2>2. Good(n) /\ n + 1 \in 1..Len(q) /\ n \in 0..Len(q) /\ n + 1 # 0 /\ (n + 1) - 1 = n
    BY <1>0, <2>1
  <2>3. q[n + 1] \in SignedProposal
    BY <2>2
  <2>4. PICK p \in Proposal : p = q[n + 1].proposal
    BY <2>3 DEF SignedProposal
  <2>5. StateAt(v, q, n + 1) = HandleProposal(StateAt(v, q, n), p)
    BY <2>2, <2>4 DEF Chain, StateAt, SignedBy
  <2>6. StateAt(v, q, n) \in Vars
    BY <2>2, ChainStates
  <2>7. IncludesTarget(StateAt(v, q, n + 1), u) <=>
          IF u = p.target THEN p.type = "add" ELSE IncludesTarget(StateAt(v, q, n), u)
    BY <2>5, <2>6, HandleIncludes
  <2>8. p \in ProposalsOf(q) /\ (p.type = "add" \/ p.type = "remove")
    BY <2>2, <2>4 DEF ProposalsOf, Proposal, Add, Remove
  <2>9. QED
    BY <2>2, <2>7, <2>8
<1> HIDE DEF Good
<1>3. T = Nat
  <2>1. T \subseteq Nat
    OBVIOUS
  <2> HIDE DEF T
  <2>2. QED
    BY <1>1, <1>2, <2>1, SetInduction
<1>4. QED
  BY <1>0, <1>3 DEF Good

\* propose appends one entry, for the state after all others, to the chain.
LEMMA ProposedIs ==
  ASSUME NEW copy \in Copy, Chain(copy.current, copy.queue),
         NEW p \in Proposal, CanPropose(copy, p)
  PROVE  /\ Evolves(copy, Proposed(copy, p), {p})
         /\ Proposed(copy, p).current = copy.current
         /\ Chain(copy.current, Proposed(copy, p).queue)
         /\ Latest(Proposed(copy, p)) = HandleProposal(Latest(copy), p)
         /\ Len(Proposed(copy, p).queue) = Len(copy.queue) + 1
         /\ \A i \in 1..Len(copy.queue) : Proposed(copy, p).queue[i] = copy.queue[i]
         /\ Proposed(copy, p).queue[Len(copy.queue) + 1].proposal = p
         /\ Proposed(copy, p).queue[Len(copy.queue) + 1].signature
              = Sign(Leader, HandleProposal(Latest(copy), p))
<1> DEFINE v == copy.current
           q == copy.queue
           next == HandleProposal(Latest(copy), p)
           sp == [proposal |-> p, turnNum |-> next.turnNum, signature |-> Sign(Leader, next)]
           longer == Append(q, sp)
<1>1. /\ v \in Vars /\ q \in Seq(SignedProposal)
      /\ Len(q) \in Nat /\ Len(q) \in 0..Len(q) /\ v.turnNum \in Nat
  BY CopyIs DEF Vars
<1>2. Proposed(copy, p) = [current |-> v, queue |-> longer]
  <2>1. Proposed(copy, p) = [copy EXCEPT !.queue = longer]
    BY DEF Proposed
  <2> HIDE DEF longer
  <2>2. QED
    BY <2>1, CopyIs
<1>3. /\ Latest(copy) = StateAt(v, q, Len(q))
      /\ Latest(copy) \in Vars
      /\ Latest(copy).turnNum = v.turnNum + Len(q)
  BY <1>1, ChainLatest DEF Latest
<1>4. CanHandleProposal(Latest(copy), p)
  BY DEF CanPropose
<1>5. next \in Vars /\ next.turnNum = v.turnNum + Len(q) + 1
  <2>1. next \in Vars /\ next.turnNum = Latest(copy).turnNum + 1
    BY <1>3, <1>4, HandleProposalType
  <2>2. QED
    BY <1>1, <1>3, <2>1
<1> HIDE DEF next
<1>6. /\ sp \in SignedProposal
      /\ sp.proposal = p /\ sp.turnNum = v.turnNum + Len(q) + 1
      /\ sp.signature = Sign(Leader, next)
      /\ sp.signature.signed = next
  BY <1>1, <1>5, TwoParties DEF SignedProposal, Signature, Sign
<1>7. SignedBy(sp.signature, Leader, next)
  BY <1>6 DEF SignedBy, Sign
<1>0. Chain(v, q)
  OBVIOUS
<1> HIDE DEF sp, v, q
<1>8. /\ longer \in Seq(SignedProposal)
      /\ Len(longer) = Len(q) + 1
      /\ \A i \in 1..Len(q) : longer[i] = q[i]
      /\ longer[Len(q) + 1] = sp
      /\ StateAt(v, longer, Len(q) + 1) = next
      /\ Chain(v, longer)
  <2>1. /\ CanHandleProposal(StateAt(v, q, Len(q)), sp.proposal)
        /\ SignedBy(sp.signature, Leader,
                    HandleProposal(StateAt(v, q, Len(q)), sp.proposal))
    BY <1>3, <1>4, <1>6, <1>7 DEF next
  <2>2. /\ longer \in Seq(SignedProposal)
        /\ Len(longer) = Len(q) + 1
        /\ \A i \in 1..Len(q) : longer[i] = q[i]
        /\ longer[Len(q) + 1] = sp
        /\ StateAt(v, longer, Len(q) + 1) = sp.signature.signed
        /\ Chain(v, longer)
    BY <1>0, <1>1, <1>6, <2>1, ChainAppend
  <2> HIDE DEF longer
  <2>3. QED
    BY <1>6, <2>2
<1> HIDE DEF longer
<1>9. Proposed(copy, p).current = v /\ Proposed(copy, p).queue = longer
  BY <1>2
<1> HIDE DEF next
<1>10. Latest(Proposed(copy, p)) = next
  BY <1>1, <1>8, <1>9, ChainLatest DEF Latest
<1>11. ProposalsOf(longer) \subseteq ProposalsOf(q) \cup {p}
  BY <1>1, <1>6, <1>8 DEF ProposalsOf
<1>12. Proposed(copy, p) \in Copy
  BY <1>1, <1>2, <1>8 DEF Copy
<1>13. Evolves(copy, Proposed(copy, p), {p})
  BY <1>9, <1>11, <1>12 DEF Evolves, CopyIncludes, v, q
<1>14. QED
  BY <1>6, <1>8, <1>9, <1>10, <1>13 DEF next, v, q

\* signNextProposal handles the head of the queue.
LEMMA SignedNextIs ==
  ASSUME NEW copy \in Copy, NEW p, CanSignNext(copy, p)
  PROVE  /\ p \in ProposalsOf(copy.queue) /\ p \in Proposal
         /\ Evolves(copy, SignedNext(copy, p), {})
         /\ HandleProposal(copy.current, p) \in Vars
         /\ HandleProposal(copy.current, p).turnNum = copy.current.turnNum + 1
         /\ SignedNext(copy, p).current = HandleProposal(copy.current, p)
         /\ SignedNext(copy, p).queue = Tail(copy.queue)
         /\ Countersignature(copy, p) \in SignedProposal
         /\ Countersignature(copy, p).proposal = p
<1> DEFINE v == copy.current
           q == copy.queue
           next == HandleProposal(v, p)
<1>1. v \in Vars /\ q \in Seq(SignedProposal) /\ q # << >> /\ v.turnNum \in Nat
  BY CopyIs DEF CanSignNext, Vars
<1>2. 1 \in 1..Len(q) /\ Tail(q) \in Seq(SignedProposal) /\ Len(Tail(q)) = Len(q) - 1
      /\ \A i \in 1..Len(Tail(q)) : i + 1 \in 1..Len(q) /\ Tail(q)[i] = q[i + 1]
  BY <1>1
<1>3. p \in ProposalsOf(q) /\ p \in Proposal
  BY <1>2, CopyIs DEF CanSignNext, ProposalsOf
<1>4. next \in Vars /\ next.turnNum = v.turnNum + 1
  BY <1>1, <1>3, HandleProposalType DEF CanSignNext
<1>5. SignedNext(copy, p) = [current |-> next, queue |-> Tail(q)]
  BY DEF SignedNext
<1>6. Countersignature(copy, p) =
        [proposal |-> p, turnNum |-> next.turnNum, signature |-> Sign(Follower, next)]
  BY DEF Countersignature
<1>7. \A u \in Targets : IncludesTarget(next, u) <=>
           IF u = p.target THEN p.type = "add" ELSE IncludesTarget(v, u)
  BY <1>1, <1>3, HandleIncludes
<1>8. p.type = "add" \/ p.type = "remove"
  BY <1>3 DEF Proposal, Add, Remove
<1> HIDE DEF next, v, q
<1>9. Countersignature(copy, p) \in SignedProposal /\ Countersignature(copy, p).proposal = p
  BY <1>1, <1>3, <1>4, <1>6, TwoParties DEF SignedProposal, Signature, Sign
<1>10. SignedNext(copy, p) \in Copy
  BY <1>2, <1>4, <1>5 DEF Copy
<1>11. SignedNext(copy, p).current = next /\ SignedNext(copy, p).queue = Tail(q)
  BY <1>5
<1>12. ProposalsOf(Tail(q)) \subseteq ProposalsOf(q)
  BY <1>2 DEF ProposalsOf
<1>13. Evolves(copy, SignedNext(copy, p), {})
  BY <1>3, <1>7, <1>8, <1>10, <1>11, <1>12 DEF Evolves, CopyIncludes, v, q
<1>14. QED
  BY <1>3, <1>4, <1>9, <1>11, <1>13 DEF v, q, next

\* leaderReceive moves the leader along its chain, or leaves its copy alone.
LEMMA LeaderReceivedIs ==
  ASSUME NEW copy \in Copy, Chain(copy.current, copy.queue), NEW sp
  PROVE  LET new == LeaderReceived(copy, sp)
             v   == copy.current
             q   == copy.queue
         IN /\ Evolves(copy, new, {})
            /\ Chain(new.current, new.queue)
            /\ \/ new = copy
               \/ \E i \in 1..Len(q) :
                    /\ new.current = StateAt(v, q, i)
                    /\ new.queue = SubSeq(q, i + 1, Len(q))
                    /\ StateAt(v, q, i) = sp.signature.signed
                    /\ SignedBy(sp.signature, Follower, StateAt(v, q, i))
<1> DEFINE v == copy.current
           q == copy.queue
           new == LeaderReceived(copy, sp)
<1>1. v \in Vars /\ q \in Seq(SignedProposal) /\ Len(q) \in Nat
  BY CopyIs
<1>2. CASE IsStale(copy, sp) \/ Countersigned(copy, sp) = {}
  <2>1. new = copy
    BY <1>2 DEF LeaderReceived
  <2>2. QED
    BY <2>1, EvolvesByNothing
<1>3. CASE ~ (IsStale(copy, sp) \/ Countersigned(copy, sp) = {})
  <2> DEFINE i == CHOOSE i \in Countersigned(copy, sp) : TRUE
             w == StateAt(v, q, i)
             r == SubSeq(q, i + 1, Len(q))
  <2>1. i \in Countersigned(copy, sp)
    BY <1>3
  <2>2. new = [current |-> VarsAfter(v, q)[i], queue |-> r]
    BY <1>3 DEF LeaderReceived
  <2> HIDE DEF i
  <2>3. i \in 1..Len(q) /\ SignedBy(sp.signature, Follower, VarsAfter(v, q)[i])
    BY <2>1 DEF Countersigned
  <2>4. i \in 0..Len(q)
    BY <1>1, <2>3
  <2>5. VarsAfter(v, q)[i] = w /\ w \in Vars
    BY <1>1, <2>4, ChainStates
  <2>6. /\ r \in Seq(SignedProposal)
        /\ Len(r) <= Len(q) - i
        /\ \A j \in 1..Len(r) : r[j] = q[i + j] /\ i + j \in 1..Len(q)
    BY <1>1, <2>3
  <2> HIDE DEF r
  <2>7. Chain(w, r)
    BY <1>1, <2>4, <2>6, ChainDrop
  <2>8. new \in Copy /\ new.current = w /\ new.queue = r
    BY <2>2, <2>5, <2>6 DEF Copy
  <2>9. ProposalsOf(r) \subseteq ProposalsOf(q)
    BY <2>6 DEF ProposalsOf
  <2>10. \A u \in Targets :
           /\ IncludesTarget(w, u) /\ ~ IncludesTarget(v, u) =>
                \E p \in ProposalsOf(q) : p.target = u
           /\ IncludesTarget(v, u) /\ ~ IncludesTarget(w, u) =>
                \E p \in ProposalsOf(q) : p.type = "remove" /\ p.target = u
    BY <1>1, <2>4, ChainIncludes
  <2>11. Evolves(copy, new, {})
    <3> HIDE DEF new, w
    <3>1. QED
      BY <2>8, <2>9, <2>10 DEF Evolves, CopyIncludes
  <2>12. sp.signature.signed = w
    BY <2>3, <2>5 DEF SignedBy
  <2> HIDE DEF new, w
  <2>13. Chain(new.current, new.queue)
    BY <2>7, <2>8
  <2>14. SignedBy(sp.signature, Follower, w)
    BY <2>3, <2>5
  <2>15. QED
    BY <2>3, <2>8, <2>11, <2>12, <2>13, <2>14 DEF new, w, r
<1>4. QED
  BY <1>2, <1>3

\* followerReceive appends the proposal it was sent, or leaves its copy alone.
LEMMA FollowerReceivedIs ==
  ASSUME NEW copy \in Copy, NEW sp \in SignedProposal
  PROVE  /\ Evolves(copy, FollowerReceived(copy, sp), {sp.proposal})
         /\ FollowerReceived(copy, sp).current = copy.current
<1>1. CASE FollowerReceived(copy, sp) = copy
  BY <1>1, EvolvesByNothing
<1>2. CASE FollowerReceived(copy, sp) = [copy EXCEPT !.queue = Append(@, sp)]
  <2> DEFINE q == copy.queue
             longer == Append(q, sp)
             new == FollowerReceived(copy, sp)
  <2>1. copy.current \in Vars /\ q \in Seq(SignedProposal)
    BY CopyIs
  <2>2. new = [current |-> copy.current, queue |-> longer]
    BY <1>2, CopyIs
  <2>3. /\ longer \in Seq(SignedProposal) /\ Len(longer) = Len(q) + 1
        /\ \A i \in 1..Len(q) : longer[i] = q[i]
        /\ longer[Len(q) + 1] = sp
    BY <2>1
  <2> HIDE DEF longer, new
  <2>4. ProposalsOf(longer) \subseteq ProposalsOf(q) \cup {sp.proposal}
    BY <2>1, <2>3 DEF ProposalsOf
  <2>5. new \in Copy /\ new.current = copy.current /\ new.queue = longer
    BY <2>1, <2>2, <2>3 DEF Copy
  <2>6. Evolves(copy, new, {sp.proposal})
    BY <2>4, <2>5 DEF Evolves, CopyIncludes
  <2>7. QED
    BY <2>5, <2>6 DEF new
<1>3. QED
  BY <1>1, <1>2 DEF FollowerReceived

\* receive, for either party.
LEMMA ReceivedIs ==
  ASSUME NEW party \in Parties, NEW copy \in Copy, NEW sp \in SignedProposal,
         party = Leader => Chain(copy.current, copy.queue),
         NEW new, new = Received(party, copy, sp)
  PROVE  /\ Evolves(copy, new, {sp.proposal})
         /\ party = Leader => Chain(new.current, new.queue)
<1>1. CASE party = Leader
  <2>1. new = LeaderReceived(copy, sp)
    BY <1>1 DEF Received
  <2>2. Evolves(copy, new, {}) /\ Chain(new.current, new.queue)
    BY <1>1, <2>1, LeaderReceivedIs
  <2>3. QED
    BY <2>2 DEF Evolves
<1>2. CASE party # Leader
  BY <1>2, FollowerReceivedIs DEF Received
<1>3. QED
  BY <1>1, <1>2
=============================================================================
