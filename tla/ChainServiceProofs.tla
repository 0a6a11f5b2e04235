------------------------- MODULE ChainServiceProofs -------------------------
(***************************************************************************)
(* Proofs about ChainService, for any channels, budgets of faults, sizes   *)
(* of the chain, the buffer and the requests, and numbers of attempts.     *)
(***************************************************************************)
EXTENDS ChainService, SequenceTheorems, FiniteSetTheorems, WellFoundedInduction, TLAPS

-----------------------------------------------------------------------------
(***************************************************************************)
(* Sequences as sets: the queues of the service.                           *)
(***************************************************************************)
\* An empty queue holds nothing.
LEMMA SetOfEmpty == SeqSet(<<>>) = {}
BY DEF SeqSet

\* What a queue holds is of its kind.
LEMMA SetOfSeq ==
  ASSUME NEW S, NEW s \in Seq(S)
  PROVE  SeqSet(s) \subseteq S /\ (s # <<>> => Len(s) > 0)
BY DEF SeqSet

\* Another entry.
LEMMA SetOfAppend ==
  ASSUME NEW S, NEW s \in Seq(S), NEW x \in S
  PROVE  Append(s, x) \in Seq(S) /\ SeqSet(Append(s, x)) = SeqSet(s) \cup {x}
<1>1. /\ Append(s, x) \in Seq(S) /\ Len(Append(s, x)) = Len(s) + 1
      /\ \A i \in 1..Len(s) : Append(s, x)[i] = s[i]
      /\ Append(s, x)[Len(s) + 1] = x
  BY AppendProperties
<1> DEFINE t == Append(s, x)
<1> HIDE DEF t
<1>2. /\ t \in Seq(S) /\ Len(t) = Len(s) + 1
      /\ \A i \in 1..Len(s) : t[i] = s[i]
      /\ t[Len(s) + 1] = x
  BY <1>1 DEF t
<1>3. SeqSet(t) = SeqSet(s) \cup {x}
  BY <1>2 DEF SeqSet
<1>4. QED
  BY <1>2, <1>3 DEF t

\* The first entry is taken.
LEMMA SetOfTail ==
  ASSUME NEW S, NEW s \in Seq(S), s # <<>>
  PROVE  /\ Head(s) \in S /\ Tail(s) \in Seq(S) /\ Len(Tail(s)) = Len(s) - 1
         /\ \A i \in 1..Len(Tail(s)) : Tail(s)[i] = s[i + 1]
         /\ SeqSet(s) = {Head(s)} \cup SeqSet(Tail(s))
<1>1. /\ Head(s) \in S /\ Head(s) = s[1] /\ Len(s) > 0
      /\ Tail(s) \in Seq(S) /\ Len(Tail(s)) = Len(s) - 1
      /\ \A i \in 1..Len(Tail(s)) : Tail(s)[i] = s[i + 1]
  BY HeadTailProperties
<1> DEFINE t == Tail(s)
           h == Head(s)
<1> HIDE DEF t, h
<1>2. /\ h = s[1] /\ Len(s) > 0 /\ t \in Seq(S) /\ Len(t) = Len(s) - 1
      /\ \A i \in 1..Len(t) : t[i] = s[i + 1]
  BY <1>1 DEF t, h
<1>3. ASSUME NEW y \in SeqSet(s) PROVE y \in {h} \cup SeqSet(t)
  <2>1. PICK i \in 1..Len(s) : y = s[i]
    BY DEF SeqSet
  <2>2. CASE i = 1
    BY <1>2, <2>1, <2>2
  <2>3. CASE i # 1
    <3>1. i - 1 \in 1..Len(t) /\ t[i - 1] = y
      BY <1>2, <2>1, <2>3
    <3>2. QED
      BY <1>2, <3>1 DEF SeqSet
  <2>4. QED
    BY <2>2, <2>3
<1>4. {h} \cup SeqSet(t) \subseteq SeqSet(s)
  BY <1>2 DEF SeqSet
<1>5. SeqSet(s) = {h} \cup SeqSet(t)
  BY <1>3, <1>4
<1>6. QED
  BY <1>1, <1>5 DEF t, h

\* One queue after the other.
LEMMA SetOfConcat ==
  ASSUME NEW S, NEW s \in Seq(S), NEW t \in Seq(S)
  PROVE  s \o t \in Seq(S) /\ SeqSet(s \o t) = SeqSet(s) \cup SeqSet(t)
<1>1. /\ s \o t \in Seq(S) /\ Len(s \o t) = Len(s) + Len(t)
      /\ \A i \in 1..(Len(s) + Len(t)) :
           (s \o t)[i] = IF i <= Len(s) THEN s[i] ELSE t[i - Len(s)]
  BY ConcatProperties
<1> DEFINE u == s \o t
<1> HIDE DEF u
<1>2. /\ u \in Seq(S) /\ Len(u) = Len(s) + Len(t)
      /\ \A i \in 1..(Len(s) + Len(t)) : u[i] = IF i <= Len(s) THEN s[i] ELSE t[i - Len(s)]
  BY <1>1 DEF u
<1>3. SeqSet(u) \subseteq SeqSet(s) \cup SeqSet(t)
  <2>1. ASSUME NEW i \in 1..(Len(s) + Len(t))
        PROVE  \/ i \in 1..Len(s) /\ u[i] = s[i]
               \/ i - Len(s) \in 1..Len(t) /\ u[i] = t[i - Len(s)]
    <3>1. Len(s) \in Nat /\ Len(t) \in Nat
      OBVIOUS
    <3>2. u[i] = IF i <= Len(s) THEN s[i] ELSE t[i - Len(s)]
      BY <1>2
    <3>3. CASE i <= Len(s)
      BY <3>1, <3>2, <3>3
    <3>4. CASE ~ (i <= Len(s))
      BY <3>1, <3>2, <3>4
    <3>5. QED
      BY <3>3, <3>4
  <2>2. ASSUME NEW i \in DOMAIN u PROVE u[i] \in SeqSet(s) \cup SeqSet(t)
    <3>1. i \in 1..(Len(s) + Len(t))
      BY <1>2
    <3>2. DOMAIN s = 1..Len(s) /\ DOMAIN t = 1..Len(t)
      OBVIOUS
    <3>3. QED
      BY <2>1, <3>1, <3>2 DEF SeqSet
  <2>3. QED
    BY <2>2 DEF SeqSet
<1>4. SeqSet(s) \subseteq SeqSet(u)
  BY <1>2 DEF SeqSet
<1>5. ASSUME NEW j \in 1..Len(t) PROVE t[j] \in SeqSet(u)
  <2>1. /\ j + Len(s) \in 1..(Len(s) + Len(t)) /\ ~ (j + Len(s) <= Len(s))
        /\ (j + Len(s)) - Len(s) = j
    OBVIOUS
  <2>2. u[j + Len(s)] = t[j]
    BY <1>2, <2>1
  <2>3. QED
    BY <1>2, <2>1, <2>2 DEF SeqSet
<1>6. SeqSet(t) \subseteq SeqSet(u)
  BY <1>5 DEF SeqSet
<1>7. SeqSet(u) = SeqSet(s) \cup SeqSet(t)
  BY <1>3, <1>4, <1>6
<1>8. QED
  BY <1>2, <1>7 DEF u

\* A set of numbers has a least one.
LEMMA LeastNumber ==
  ASSUME NEW N \in SUBSET Nat, N # {}
  PROVE  \E n \in N : \A m \in N : n <= m
<1>1. PICK n \in N : \A m \in N : ~ (<<m, n>> \in OpToRel(<, Nat))
  BY WFMin, NatLessThanWellFounded
<1>2. \A m \in N : ~ (m < n)
  BY <1>1 DEF OpToRel
<1>3. QED
  BY <1>2

\* A set of numbers that has 0 and with each number the next has them all.
LEMMA SetInduction ==
  ASSUME NEW T, T \subseteq Nat, 0 \in T, \A n \in T : n + 1 \in T
  PROVE  T = Nat
<1> DEFINE C == Nat \ T
<1>1. SUFFICES ASSUME C # {} PROVE FALSE
  OBVIOUS
<1>2. PICK x \in C : \A y \in C : x <= y
  <2>1. C \in SUBSET Nat
    OBVIOUS
  <2> HIDE DEF C
  <2>2. QED
    BY <1>1, <2>1, LeastNumber
<1>3. \A y \in C : ~ (y < x)
  BY <1>2
<1>4. x # 0 /\ x \in Nat /\ x - 1 \in Nat
  OBVIOUS
<1>5. x - 1 \in T
  BY <1>3, <1>4
<1>6. QED
  BY <1>4, <1>5

\* A set of logs that is not empty has one of the oldest block: of the least
\* hash, as blocks are mined, or of the least number, as the heap is ordered.
LEMMA OldestLog ==
  ASSUME NEW S \in SUBSET Logs, S # {}
  PROVE  /\ \E log \in S : \A other \in S : log.blockHash <= other.blockHash
         /\ \E log \in S : \A other \in S : log.blockNumber <= other.blockNumber
<1>1. \A log \in S : log.blockHash \in Nat /\ log.blockNumber \in Nat
  BY BoundsAssumption DEF Logs
<1>2. \E log \in S : \A other \in S : log.blockHash <= other.blockHash
  <2> DEFINE N == {log.blockHash : log \in S}
  <2>1. N \in SUBSET Nat /\ N # {}
    BY <1>1
  <2> HIDE DEF N
  <2>2. PICK n \in N : \A m \in N : n <= m
    BY <2>1, LeastNumber
  <2>3. QED
    BY <2>2 DEF N
<1>3. \E log \in S : \A other \in S : log.blockNumber <= other.blockNumber
  <2> DEFINE N == {log.blockNumber : log \in S}
  <2>1. N \in SUBSET Nat /\ N # {}
    BY <1>1
  <2> HIDE DEF N
  <2>2. PICK n \in N : \A m \in N : n <= m
    BY <2>1, LeastNumber
  <2>3. QED
    BY <2>2 DEF N
<1>4. QED
  BY <1>2, <1>3

\* The order s is one of the logs in S, those of older blocks first.
IsDelivery(s, S) == IsMinedInOrder(s) /\ {s[i] : i \in DOMAIN s} = S

\* Logs can be delivered in the order in which they were mined.
LEMMA LogsAsSeqExists ==
  ASSUME NEW S \in SUBSET Logs, IsFiniteSet(S)
  PROVE  \E s \in [1..Cardinality(S) -> S] : IsDelivery(s, S)
<1> DEFINE C(n) == \A R \in SUBSET Logs : IsFiniteSet(R) /\ Cardinality(R) = n =>
                     \E s \in [1..n -> R] : IsDelivery(s, R)
           T == {n \in Nat : C(n)}
<1>1. C(0)
  <2>1. SUFFICES ASSUME NEW R \in SUBSET Logs, IsFiniteSet(R), Cardinality(R) = 0
                 PROVE  \E s \in [1..0 -> R] : IsDelivery(s, R)
    OBVIOUS
  <2>2. R = {}
    BY <2>1, FS_EmptySet
  <2> DEFINE s == [i \in 1..0 |-> 0]
  <2>3. s \in [1..0 -> R] /\ DOMAIN s = {}
    OBVIOUS
  <2> HIDE DEF s
  <2>4. IsDelivery(s, R)
    BY <2>2, <2>3 DEF IsDelivery, IsMinedInOrder
  <2>5. QED
    BY <2>3, <2>4
<1>2. ASSUME NEW n \in Nat, C(n) PROVE C(n + 1)
  <2>1. SUFFICES ASSUME NEW R \in SUBSET Logs, IsFiniteSet(R), Cardinality(R) = n + 1
                 PROVE  \E s \in [1..n + 1 -> R] : IsDelivery(s, R)
    OBVIOUS
  <2>2. R # {}
    BY <2>1, FS_EmptySet
  <2>3. PICK log \in R : \A other \in R : log.blockHash <= other.blockHash
    BY <2>2, OldestLog
  <2> DEFINE Q == R \ {log}
  <2>4. Q \in SUBSET Logs /\ IsFiniteSet(Q) /\ Cardinality(Q) = n
    <3>1. IsFiniteSet(Q) /\ Cardinality(Q) = Cardinality(R) - 1
      BY <2>1, <2>3, FS_RemoveElement
    <3>2. QED
      BY <2>1, <3>1
  <2>5. PICK q \in [1..n -> Q] : IsDelivery(q, Q)
    BY <1>2, <2>4
  <2> DEFINE s == [i \in 1..n + 1 |-> IF i = 1 THEN log ELSE q[i - 1]]
  <2>6. /\ DOMAIN s = 1..n + 1 /\ s[1] = log
        /\ \A i \in 1..n : s[i + 1] = q[i] /\ q[i] \in Q
        /\ \A i \in 1..n + 1 : i # 1 => i - 1 \in 1..n /\ s[i] = q[i - 1]
        /\ s \in [1..n + 1 -> R]
    BY <2>5
  <2> HIDE DEF s
  <2>7. {s[i] : i \in DOMAIN s} = R
    <3>1. ASSUME NEW y \in R PROVE \E i \in 1..n + 1 : s[i] = y
      <4>1. CASE y = log
        BY <4>1, <2>6
      <4>2. CASE y # log
        <5>1. PICK i \in 1..n : q[i] = y
          BY <4>2, <2>5 DEF IsDelivery
        <5>2. i + 1 \in 1..n + 1 /\ s[i + 1] = y
          BY <5>1, <2>6
        <5>3. QED
          BY <5>2
      <4>3. QED
        BY <4>1, <4>2
    <3>2. \A i \in 1..n + 1 : s[i] \in R
      BY <2>6
    <3>3. QED
      BY <3>1, <3>2, <2>6
  <2>8. IsMinedInOrder(s)
    <3>1. ASSUME NEW i \in 1..n + 1, NEW j \in 1..n + 1, i < j
          PROVE  s[i].blockHash <= s[j].blockHash
      <4>1. CASE i = 1
        BY <4>1, <2>3, <2>6
      <4>2. CASE i # 1
        <5>1. i - 1 \in 1..n /\ j - 1 \in 1..n /\ i - 1 < j - 1 /\ j # 1
          BY <3>1, <4>2
        <5>2. q[i - 1].blockHash <= q[j - 1].blockHash
          BY <5>1, <2>5 DEF IsDelivery, IsMinedInOrder
        <5>3. QED
          BY <5>1, <5>2, <4>2, <2>6
      <4>3. QED
        BY <4>1, <4>2
    <3>2. QED
      BY <3>1, <2>6 DEF IsMinedInOrder
  <2>9. QED
    BY <2>6, <2>7, <2>8 DEF IsDelivery
<1> HIDE DEF C
<1>3. T = Nat
  <2>1. T \subseteq Nat /\ 0 \in T /\ \A n \in T : n + 1 \in T
    BY <1>1, <1>2
  <2> HIDE DEF T
  <2>2. QED
    BY <2>1, SetInduction
<1>4. Cardinality(S) \in Nat
  BY FS_CardinalityType
<1>5. C(Cardinality(S))
  BY <1>3, <1>4
<1>6. QED
  BY <1>5 DEF C

\* Logs are delivered in the order in which they were mined.
LEMMA LogsAsSeqIs ==
  ASSUME NEW S \in SUBSET Logs, IsFiniteSet(S)
  PROVE  /\ LogsAsSeq(S) \in Seq(S) /\ SeqSet(LogsAsSeq(S)) = S
         /\ IsMinedInOrder(LogsAsSeq(S))
<1> DEFINE n == Cardinality(S)
<1>1. n \in Nat
  BY FS_CardinalityType
<1>2. \E s \in [1..n -> S] : IsMinedInOrder(s) /\ {s[i] : i \in DOMAIN s} = S
  BY LogsAsSeqExists DEF IsDelivery
<1> DEFINE t == LogsAsSeq(S)
<1>3. t \in [1..n -> S] /\ IsMinedInOrder(t) /\ {t[i] : i \in DOMAIN t} = S
  BY <1>2 DEF LogsAsSeq
<1> HIDE DEF t, n
<1>4. t \in Seq(S) /\ SeqSet(t) = S
  BY <1>1, <1>3 DEF SeqSet
<1>5. QED
  BY <1>3, <1>4 DEF t

\* A queue that delivers to several subscriptions holds the same.
LEMMA RepeatedIs ==
  ASSUME NEW S, NEW s \in Seq(S), NEW times \in Nat
  PROVE  /\ Repeated(s, times) \in Seq(S) /\ SeqSet(Repeated(s, times)) \subseteq SeqSet(s)
         /\ times > 0 => SeqSet(Repeated(s, times)) = SeqSet(s)
<1> DEFINE r == Repeated(s, times)
<1>1. Len(s) * times \in Nat
  BY DEF SeqSet
<1>2. ASSUME NEW i \in 1..(Len(s) * times) PROVE ((i - 1) \div times) + 1 \in 1..Len(s)
  <2>1. times > 0
    <3>1. CASE times = 0
      BY <3>1
    <3>2. QED
      BY <3>1
  <2>2. i - 1 \in Nat /\ i - 1 < Len(s) * times
    OBVIOUS
  <2>3. (i - 1) \div times \in Nat
    BY <2>1, <2>2
  <2>4. (i - 1) \div times < Len(s)
    BY <2>1, <2>2
  <2>5. QED
    BY <2>3, <2>4
<1>3. r \in [1..(Len(s) * times) -> S] /\ \A i \in 1..(Len(s) * times) : r[i] \in SeqSet(s)
  BY <1>2 DEF Repeated, SeqSet
<1> HIDE DEF r
<1>4. r \in Seq(S) /\ SeqSet(r) \subseteq SeqSet(s)
  <2>1. DOMAIN r = 1..(Len(s) * times)
    BY <1>3
  <2>2. r \in Seq(S)
    BY <1>1, <1>3, SeqDef
  <2>3. QED
    BY <1>3, <2>1, <2>2 DEF SeqSet
<1>5. ASSUME times > 0, NEW j \in 1..Len(s) PROVE s[j] \in SeqSet(r)
  <2> DEFINE i == (j - 1) * times + 1
  <2>1. (j - 1) * times \in Nat /\ (j - 1) * times + times <= Len(s) * times
    BY <1>5
  <2>2. i \in 1..(Len(s) * times) /\ i - 1 = (j - 1) * times
    BY <1>5, <2>1
  <2>3. ((j - 1) * times) \div times = j - 1
    BY <1>5
  <2> HIDE DEF i
  <2>4. r[i] = s[j]
    BY <2>2, <2>3 DEF Repeated, r
  <2>5. DOMAIN r = 1..(Len(s) * times)
    BY <1>3
  <2>6. QED
    BY <2>2, <2>4, <2>5 DEF SeqSet
<1>6. times > 0 => SeqSet(s) \subseteq SeqSet(r)
  BY <1>5 DEF SeqSet
<1>7. QED
  BY <1>4, <1>6 DEF r

-----------------------------------------------------------------------------
(***************************************************************************)
(* Bags: the heap of the event tracker.                                    *)
(***************************************************************************)
\* Logs are pushed.
LEMMA Pushed ==
  ASSUME NEW B, IsABag(B), NEW S
  PROVE  /\ IsABag(B (+) SetToBag(S))
         /\ BagToSet(B (+) SetToBag(S)) = BagToSet(B) \cup S
BY DEF IsABag, (+), SetToBag, BagToSet

\* A log is popped, and may have a copy.
LEMMA Popped ==
  ASSUME NEW B, IsABag(B), NEW x
  PROVE  /\ IsABag(B (-) SetToBag({x}))
         /\ BagToSet(B (-) SetToBag({x})) \subseteq BagToSet(B)
         /\ BagToSet(B) \subseteq BagToSet(B (-) SetToBag({x})) \cup {x}
BY DEF IsABag, (-), SetToBag, BagToSet

\* The bag of a set.
LEMMA BagOfSet ==
  ASSUME NEW S
  PROVE  /\ IsABag(SetToBag(S)) /\ BagToSet(SetToBag(S)) = S
         /\ IsABag(EmptyBag) /\ BagToSet(EmptyBag) = {}
BY DEF IsABag, SetToBag, BagToSet, EmptyBag

-----------------------------------------------------------------------------
(***************************************************************************)
(* The chain and its logs.                                                 *)
(***************************************************************************)
\* What the contract holds is an amount, and depends on the blocks before.
LEMMA HeldIs ==
  ASSUME NEW blocks, NEW others, NEW b \in Nat, NEW c,
         \A n \in 1..b : blocks[n] = others[n]
  PROVE  HeldAfter(blocks, b, c) \in Nat /\ HeldAfter(blocks, b, c) = HeldAfter(others, b, c)
<1> DEFINE has(kind) == {n \in 1..b : blocks[n].tx = [kind |-> kind, channel |-> c]}
           hasToo(kind) == {n \in 1..b : others[n].tx = [kind |-> kind, channel |-> c]}
<1>1. has("deposit") = hasToo("deposit") /\ has("conclude") = hasToo("conclude")
  OBVIOUS
<1>2. IsFiniteSet(1..b) /\ has("deposit") \subseteq 1..b
  BY FS_Interval
<1>3. Cardinality(has("deposit")) \in Nat
  BY <1>2, FS_Subset, FS_CardinalityType
<1>4. /\ HeldAfter(blocks, b, c) =
           IF has("conclude") # {} THEN 0 ELSE Cardinality(has("deposit"))
      /\ HeldAfter(others, b, c) =
           IF hasToo("conclude") # {} THEN 0 ELSE Cardinality(hasToo("deposit"))
  BY DEF HeldAfter
<1> HIDE DEF has, hasToo
<1>5. QED
  BY <1>1, <1>3, <1>4

\* A log names its block, the hash of the block and its channel.
LEMMA LogsOfIs ==
  ASSUME NEW blocks \in Seq(Block), Len(blocks) <= MaxBlock, NEW b \in 1..Len(blocks)
  PROVE  /\ LogsOf(blocks, b) \subseteq Logs
         /\ \A log \in LogsOf(blocks, b) :
              log.blockNumber = b /\ log.blockHash = blocks[b].hash
<1>1. blocks[b] \in Block /\ MaxBlock \in Nat
  BY BoundsAssumption
<1>2. SUFFICES ASSUME NEW log \in LogsOf(blocks, b)
               PROVE  /\ log \in Logs
                      /\ log.blockNumber = b /\ log.blockHash = blocks[b].hash
  OBVIOUS
<1>3. PICK topic \in TopicsOf(blocks[b].tx) :
        log = [topic |-> topic, channel |-> blocks[b].tx.channel, blockNumber |-> b,
               blockHash |-> blocks[b].hash,
               held |-> HeldAfter(blocks, b, blocks[b].tx.channel)]
  BY <1>2 DEF LogsOf
<1>4. blocks[b].tx \in Txs
  <2>1. blocks[b].tx \in Txs \cup {NoTx}
    BY <1>1 DEF Block
  <2>2. TopicsOf(NoTx) = {}
    BY DEF TopicsOf, NoTx
  <2>3. QED
    BY <1>3, <2>1, <2>2
<1>5. topic \in {"Deposited", "Concluded", "AllocationUpdated", "ChallengeRegistered"}
  BY <1>3, <1>4 DEF TopicsOf, Txs
<1>6. HeldAfter(blocks, b, blocks[b].tx.channel) \in Nat
  BY HeldIs
<1>7. blocks[b].hash \in Nat /\ b \in 1..MaxBlock /\ blocks[b].tx.channel \in Channels
  BY <1>1, <1>4 DEF Block, Txs
<1>8. QED
  BY <1>3, <1>5, <1>6, <1>7 DEF Logs

\* A block that is the same, after the same blocks, has the same logs.
LEMMA LogsOfSame ==
  ASSUME NEW blocks, NEW others, NEW b \in Nat \ {0},
         \A n \in 1..b : blocks[n] = others[n]
  PROVE  LogsOf(blocks, b) = LogsOf(others, b)
<1>1. blocks[b] = others[b]
  OBVIOUS
<1>2. HeldAfter(blocks, b, blocks[b].tx.channel) = HeldAfter(others, b, blocks[b].tx.channel)
  BY HeldIs
<1>3. QED
  BY <1>1, <1>2 DEF LogsOf

\* A transaction emits finitely many logs.
LEMMA LogsOfFinite ==
  ASSUME NEW blocks, NEW b
  PROVE  IsFiniteSet(LogsOf(blocks, b))
<1> DEFINE tx == blocks[b].tx
           Op(topic) == [topic |-> topic, channel |-> blocks[b].tx.channel,
                         blockNumber |-> b, blockHash |-> blocks[b].hash,
                         held |-> HeldAfter(blocks, b, blocks[b].tx.channel)]
           all == {"Deposited", "Concluded", "AllocationUpdated", "ChallengeRegistered"}
           f == [topic \in all |-> Op(topic)]
           rng == {f[topic] : topic \in all}
<1>1. TopicsOf(tx) \subseteq all
  BY DEF TopicsOf
<1>2. IsFiniteSet(all)
  <2>1. IsFiniteSet({"Deposited"} \cup {"Concluded"})
    BY FS_Singleton, FS_Union
  <2>2. IsFiniteSet({"AllocationUpdated"} \cup {"ChallengeRegistered"})
    BY FS_Singleton, FS_Union
  <2>3. IsFiniteSet(({"Deposited"} \cup {"Concluded"})
                      \cup ({"AllocationUpdated"} \cup {"ChallengeRegistered"}))
    BY <2>1, <2>2, FS_Union
  <2>4. all = ({"Deposited"} \cup {"Concluded"})
                \cup ({"AllocationUpdated"} \cup {"ChallengeRegistered"})
    OBVIOUS
  <2>5. QED
    BY <2>3, <2>4
<1>3. f \in Surjection(all, rng)
  BY DEF Surjection
<1>4. IsFiniteSet(rng)
  BY <1>2, <1>3, FS_Surjection
<1>5. LogsOf(blocks, b) \subseteq rng
  <2>1. LogsOf(blocks, b) = {Op(topic) : topic \in TopicsOf(tx)}
    BY DEF LogsOf
  <2> HIDE DEF Op
  <2>2. QED
    BY <1>1, <2>1
<1>6. QED
  BY <1>4, <1>5, FS_Subset

\* And so do a few blocks.
LEMMA LogsOfBlocksFinite ==
  ASSUME NEW blocks, NEW first \in Int, NEW last \in Int
  PROVE  IsFiniteSet(UNION {LogsOf(blocks, b) : b \in first..last})
<1> DEFINE f == [b \in first..last |-> LogsOf(blocks, b)]
           all == {LogsOf(blocks, b) : b \in first..last}
<1>1. f \in Surjection(first..last, all)
  BY DEF Surjection
<1>2. IsFiniteSet(all)
  BY <1>1, FS_Interval, FS_Surjection
<1>3. \A T \in all : IsFiniteSet(T)
  BY LogsOfFinite
<1> HIDE DEF all
<1>4. IsFiniteSet(UNION all)
  BY <1>2, <1>3, FS_UNION
<1>5. QED
  BY <1>4 DEF all

\* A log is on the chain if its block has it.
LEMMA OnChainIs ==
  ASSUME TypeOK
  PROVE  /\ OnChain \subseteq Logs
         /\ \A b \in 1..Len(chain) : LogsOf(chain, b) \subseteq OnChain
         /\ \A log \in OnChain :
              /\ log.blockNumber \in 1..Len(chain) /\ log \in LogsOf(chain, log.blockNumber)
              /\ log.blockHash = chain[log.blockNumber].hash
<1>1. chain \in Seq(Block) /\ Len(chain) <= MaxBlock /\ DOMAIN chain = 1..Len(chain)
  BY DEF TypeOK
<1>2. QED
  BY <1>1, LogsOfIs DEF OnChain

\* A log that is on the chain is genuine.
LEMMA OnChainIsGenuine ==
  ASSUME TypeOK, EventsInv, NEW log \in OnChain
  PROVE  IsGenuine(log)
<1>1. log.blockNumber \in 1..Len(chain) /\ log.blockHash = chain[log.blockNumber].hash
  BY OnChainIs
<1>2. DOMAIN chain = 1..Len(chain)
  BY DEF TypeOK
<1>3. QED
  BY <1>1, <1>2 DEF EventsInv, IsGenuine

\* What the subscriptions deliver is added to the queues, if they are alive.
LEMMA Delivered ==
  ASSUME TypeOK, NEW logs \in SUBSET Logs, IsFiniteSet(logs), NEW numbers \in Seq(Nat),
         Deliver(logs, numbers)
  PROVE  /\ provider' \in Provider
         /\ provider'.subs = provider.subs /\ provider'.connected = provider.connected
         /\ provider'.subErr = provider.subErr
         /\ ~ provider.connected => provider' = provider
         /\ SeqSet(provider.feed) \subseteq SeqSet(provider'.feed)
         /\ SeqSet(provider'.feed) \subseteq SeqSet(provider.feed) \cup logs
         /\ SeqSet(provider'.heads) \subseteq SeqSet(provider.heads) \cup SeqSet(numbers)
         /\ provider.connected /\ provider.subs > 0 => logs \subseteq SeqSet(provider'.feed)
<1>1. /\ provider.feed \in Seq(Logs) /\ provider.heads \in Seq(Nat) /\ provider.subs \in Nat
      /\ provider \in Provider
  BY DEF TypeOK, Provider
<1> DEFINE more == Repeated(LogsAsSeq(logs), provider.subs)
           later == Repeated(numbers, provider.subs)
<1>2. /\ more \in Seq(Logs) /\ SeqSet(more) \subseteq logs
      /\ provider.subs > 0 => SeqSet(more) = logs
  <2>1. LogsAsSeq(logs) \in Seq(logs) /\ SeqSet(LogsAsSeq(logs)) = logs
    BY LogsAsSeqIs
  <2>2. LogsAsSeq(logs) \in Seq(Logs)
    BY <2>1, SeqDef
  <2>3. QED
    BY <1>1, <2>1, <2>2, RepeatedIs
<1>3. later \in Seq(Nat) /\ SeqSet(later) \subseteq SeqSet(numbers)
  BY <1>1, RepeatedIs
<1> DEFINE feed == provider.feed \o more
           heads == provider.heads \o later
<1>4. provider.connected => provider' = [provider EXCEPT !.feed = feed, !.heads = heads]
  BY DEF Deliver
<1>5. ~ provider.connected => provider' = provider
  BY DEF Deliver
<1> HIDE DEF more, later
<1>6. /\ feed \in Seq(Logs) /\ SeqSet(feed) = SeqSet(provider.feed) \cup SeqSet(more)
      /\ heads \in Seq(Nat) /\ SeqSet(heads) = SeqSet(provider.heads) \cup SeqSet(later)
  BY <1>1, <1>2, <1>3, SetOfConcat
<1> HIDE DEF feed, heads
<1>7. CASE provider.connected
  <2>1. /\ provider'.feed = feed /\ provider'.heads = heads
        /\ provider'.subs = provider.subs /\ provider'.connected = provider.connected
        /\ provider'.subErr = provider.subErr
        /\ provider' \in Provider
    BY <1>1, <1>4, <1>6, <1>7 DEF Provider
  <2>2. QED
    BY <1>2, <1>3, <1>6, <1>7, <2>1
<1>8. CASE ~ provider.connected
  BY <1>1, <1>5, <1>8
<1>9. QED
  BY <1>7, <1>8

\* How the chain moves: a block stays, with those before it, or it is one of the
\* last and its hash is new; the logs of new blocks are delivered.
ChainMoves ==
  /\ chain' \in Seq(Block) /\ Len(chain) <= Len(chain') /\ Len(chain') <= MaxBlock
  /\ mined' \in Nat /\ mined <= mined'
  /\ \A b \in 1..Len(chain') :
       /\ chain'[b].hash <= mined'
       /\ \/ b <= Len(chain) /\ \A n \in 1..b : chain'[n] = chain[n]
          \/ b > Len(chain) - REQUIRED_BLOCK_CONFIRMATIONS /\ chain'[b].hash > mined

Delivers ==
  \E logs \in SUBSET Logs, numbers \in Seq(Nat) :
    /\ IsFiniteSet(logs) /\ Deliver(logs, numbers)
    /\ \A number \in SeqSet(numbers) : number <= Len(chain')
    /\ logs \subseteq OnChain \cup OnChain' /\ OnChain' \subseteq OnChain \cup logs

\* A mined block.
LEMMA MineMoves ==
  ASSUME TypeOK, EventsInv, NEW tx \in Txs \cup {NoTx}, Mine(tx)
  PROVE  ChainMoves /\ Delivers
<1> DEFINE new == [hash |-> mined + 1, tx |-> tx]
<1>1. /\ chain \in Seq(Block) /\ mined \in Nat /\ new \in Block /\ MaxBlock \in Nat
      /\ DOMAIN chain = 1..Len(chain)
  BY BoundsAssumption DEF TypeOK, Block
<1>2. /\ mined' = mined + 1 /\ Len(chain) < MaxBlock
      /\ chain' = Append(chain, new)
      /\ Deliver(LogsOf(chain', Len(chain')), <<Len(chain')>>)
  BY DEF Mine
<1>3. /\ chain' \in Seq(Block) /\ Len(chain') = Len(chain) + 1
      /\ \A n \in 1..Len(chain) : chain'[n] = chain[n]
      /\ chain'[Len(chain) + 1] = new
  BY <1>1, <1>2, AppendProperties
<1>4. new.hash = mined + 1
  OBVIOUS
<1> HIDE DEF new
<1>5. ChainMoves
  <2>1. ASSUME NEW b \in 1..Len(chain')
        PROVE  /\ chain'[b].hash <= mined'
               /\ \/ b <= Len(chain) /\ \A n \in 1..b : chain'[n] = chain[n]
                  \/ b > Len(chain) - REQUIRED_BLOCK_CONFIRMATIONS /\ chain'[b].hash > mined
    <3>1. CASE b <= Len(chain)
      <4>1. b \in 1..Len(chain)
        BY <1>1, <1>3, <3>1
      <4>2. chain[b] \in Block /\ chain[b].hash <= mined
        BY <1>1, <4>1 DEF EventsInv
      <4>3. chain[b].hash \in Nat
        BY <4>2 DEF Block
      <4>4. QED
        BY <1>1, <1>2, <1>3, <4>1, <4>2, <4>3
    <3>2. CASE b = Len(chain) + 1
      BY <1>1, <1>2, <1>3, <1>4, <3>2 DEF REQUIRED_BLOCK_CONFIRMATIONS
    <3>3. QED
      BY <1>1, <1>3, <3>1, <3>2
  <2>2. QED
    BY <1>1, <1>2, <1>3, <2>1 DEF ChainMoves
<1>6. Delivers
  <2> DEFINE logs == LogsOf(chain', Len(chain'))
             numbers == <<Len(chain')>>
  <2>1. Len(chain') \in 1..Len(chain') /\ Len(chain') <= MaxBlock /\ Len(chain') \in Nat
    BY <1>1, <1>2, <1>3
  <2>2. logs \in SUBSET Logs
    BY <1>3, <2>1, LogsOfIs
  <2>3. IsFiniteSet(logs)
    BY LogsOfFinite
  <2>4. numbers \in Seq(Nat) /\ \A number \in SeqSet(numbers) : number <= Len(chain')
    BY <2>1 DEF SeqSet
  <2>5. \A b \in 1..Len(chain) : LogsOf(chain', b) = LogsOf(chain, b)
    BY <1>3, LogsOfSame
  <2>6. DOMAIN chain' = 1..Len(chain')
    BY <1>3
  <2>7. logs \subseteq OnChain'
    BY <2>1, <2>6 DEF OnChain
  <2>8. OnChain' \subseteq OnChain \cup logs
    BY <1>1, <1>3, <2>5, <2>6 DEF OnChain
  <2> HIDE DEF logs
  <2>9. Deliver(logs, numbers)
    BY <1>2 DEF logs
  <2> HIDE DEF numbers
  <2>10. QED
    BY <2>2, <2>3, <2>4, <2>7, <2>8, <2>9 DEF Delivers
<1>7. QED
  BY <1>5, <1>6

\* A reorganisation.
LEMMA ReorganiseMoves ==
  ASSUME TypeOK, EventsInv, NEW depth \in 1..REQUIRED_BLOCK_CONFIRMATIONS,
         NEW keep \in 0..REQUIRED_BLOCK_CONFIRMATIONS, Reorganise(depth, keep)
  PROVE  ChainMoves /\ Delivers
<1> DEFINE base == Len(chain) - depth
           block(b) == IF b <= base THEN chain[b]
                       ELSE [hash |-> mined + b - base,
                             tx |-> IF b <= base + keep THEN chain[b].tx ELSE NoTx]
<1>1. /\ chain \in Seq(Block) /\ mined \in Nat /\ MaxBlock \in Nat /\ Len(chain) \in Nat
      /\ DOMAIN chain = 1..Len(chain) /\ Len(chain) <= MaxBlock
  BY BoundsAssumption DEF TypeOK
<1>2. depth \in 1..2 /\ keep \in 0..2 /\ base \in Nat /\ base + depth = Len(chain)
  BY <1>1 DEF Reorganise, REQUIRED_BLOCK_CONFIRMATIONS
<1>3. mined' = mined + depth /\ chain' = [b \in 1..Len(chain) |-> block(b)]
  BY <1>1 DEF Reorganise
<1>4. \A b \in 1..Len(chain) : /\ chain[b] \in Block /\ chain[b].hash \in Nat
                               /\ chain[b].tx \in Txs \cup {NoTx} /\ chain[b].hash <= mined
  <2>1. \A b \in 1..Len(chain) : chain[b] \in Block /\ chain[b].hash <= mined
    BY <1>1 DEF EventsInv
  <2>2. QED
    BY <2>1 DEF Block
<1>5. \A b \in 1..Len(chain) : block(b) \in Block
  <2>1. ASSUME NEW b \in 1..Len(chain), ~ (b <= base) PROVE mined + b - base \in Nat
    BY <1>1, <1>2, <2>1
  <2>2. QED
    BY <1>4, <2>1 DEF Block
<1> HIDE DEF base
<1>6. /\ chain' \in [1..Len(chain) -> Block]
      /\ \A b \in 1..Len(chain) :
           IF b <= base THEN chain'[b] = chain[b]
                        ELSE chain'[b].hash = mined + b - base
  BY <1>3, <1>5
<1>7. chain' \in Seq(Block) /\ Len(chain') = Len(chain) /\ DOMAIN chain' = 1..Len(chain)
  BY <1>1, <1>6, SeqDef
<1>8. ASSUME NEW b \in 1..Len(chain)
      PROVE  /\ chain'[b].hash <= mined'
             /\ \/ \A n \in 1..b : chain'[n] = chain[n]
                \/ /\ b > Len(chain) - REQUIRED_BLOCK_CONFIRMATIONS
                   /\ b > base /\ chain'[b].hash > mined
  <2>1. CASE b <= base
    <3>1. \A n \in 1..b : n \in 1..Len(chain) /\ n <= base
      BY <1>1, <1>2, <2>1
    <3>2. QED
      BY <1>1, <1>2, <1>3, <1>4, <1>6, <2>1, <3>1
  <2>2. CASE ~ (b <= base)
    <3>1. chain'[b].hash = mined + b - base
      BY <1>6, <2>2
    <3>2. mined' = mined + depth /\ mined \in Nat
      BY <1>1, <1>3
    <3>3. b \in Nat /\ b > base /\ b <= base + depth /\ b > Len(chain) - 2
      BY <1>1, <1>2, <2>2
    <3>4. mined + b - base <= mined + depth /\ mined + b - base > mined
      BY <1>2, <3>2, <3>3
    <3>5. QED
      BY <3>1, <3>2, <3>3, <3>4 DEF REQUIRED_BLOCK_CONFIRMATIONS
  <2>3. QED
    BY <2>1, <2>2
<1>9. ChainMoves
  <2>1. \A b \in 1..Len(chain') : b \in 1..Len(chain) /\ b <= Len(chain)
    BY <1>1, <1>7
  <2>2. mined' \in Nat /\ mined <= mined' /\ Len(chain) <= Len(chain')
    BY <1>1, <1>2, <1>3, <1>7
  <2>3. QED
    BY <1>1, <1>7, <1>8, <2>1, <2>2 DEF ChainMoves
<1>10. Delivers
  <2> DEFINE removed == UNION {LogsOf(chain, b) : b \in base + 1..Len(chain)}
             added == UNION {LogsOf(chain', b) : b \in base + 1..Len(chain)}
             logs == removed \cup added
             numbers == [i \in 1..depth |-> base + i]
  <2>1. Deliver(logs, numbers)
    BY DEF Reorganise, base
  <2>2. \A b \in base + 1..Len(chain) : b \in 1..Len(chain)
    BY <1>1, <1>2
  <2>3. IsFiniteSet(removed) /\ IsFiniteSet(added)
    <3>1. base + 1 \in Int /\ Len(chain) \in Int
      BY <1>1, <1>2
    <3>2. QED
      BY <3>1, LogsOfBlocksFinite
  <2>4. /\ \A b \in 1..Len(chain) : LogsOf(chain, b) \subseteq Logs \cap OnChain
        /\ \A b \in 1..Len(chain) : LogsOf(chain', b) \subseteq Logs \cap OnChain'
    BY <1>1, <1>7, LogsOfIs DEF OnChain
  <2>5. logs \subseteq Logs /\ logs \subseteq OnChain \cup OnChain'
    BY <2>2, <2>4
  <2>6. ASSUME NEW log \in OnChain' PROVE log \in OnChain \cup logs
    <3>1. PICK b \in 1..Len(chain) : log \in LogsOf(chain', b)
      BY <1>7 DEF OnChain
    <3>2. CASE b > base
      <4>1. b \in base + 1..Len(chain)
        BY <1>1, <1>2, <3>2
      <4>2. QED
        BY <3>1, <4>1
    <3>3. CASE \A n \in 1..b : chain'[n] = chain[n]
      <4>1. LogsOf(chain', b) = LogsOf(chain, b)
        BY <3>3, LogsOfSame
      <4>2. QED
        BY <2>4, <3>1, <4>1
    <3>4. QED
      BY <1>8, <3>2, <3>3
  <2>7. IsFiniteSet(logs)
    BY <2>3, FS_Union
  <2>8. numbers \in [1..depth -> Nat] /\ \A i \in 1..depth : numbers[i] <= Len(chain)
    BY <1>1, <1>2
  <2> HIDE DEF logs, numbers
  <2>9. numbers \in Seq(Nat) /\ DOMAIN numbers = 1..depth
    BY <1>2, <2>8, SeqDef
  <2>10. \A number \in SeqSet(numbers) : number <= Len(chain')
    BY <1>7, <2>8, <2>9 DEF SeqSet
  <2>11. QED
    BY <2>1, <2>5, <2>6, <2>7, <2>9, <2>10 DEF Delivers
<1>11. QED
  BY <1>9, <1>10

\* Logs of the chain as it was stay on it when their block stays; what is new on
\* it is of one of the last blocks; a genuine log is genuine still.
LEMMA LogsStay ==
  ASSUME TypeOK, EventsInv, ChainMoves
  PROVE  /\ \A log \in OnChain :
              log.blockNumber + REQUIRED_BLOCK_CONFIRMATIONS <= Len(chain) => log \in OnChain'
         /\ \A log \in OnChain' :
              log \in OnChain \/ log.blockNumber > Len(chain) - REQUIRED_BLOCK_CONFIRMATIONS
         /\ \A log \in Logs : IsGenuine(log) => IsGenuine(log)'
         /\ OnChain' \subseteq Logs /\ \A log \in OnChain' : IsGenuine(log)'
<1>1. /\ chain \in Seq(Block) /\ Len(chain) \in Nat /\ DOMAIN chain = 1..Len(chain)
      /\ chain' \in Seq(Block) /\ Len(chain') \in Nat /\ DOMAIN chain' = 1..Len(chain')
      /\ Len(chain) <= Len(chain') /\ mined \in Nat /\ mined' \in Nat /\ mined <= mined'
  BY DEF TypeOK, ChainMoves
<1>2. ASSUME NEW b \in 1..Len(chain), \A n \in 1..b : chain'[n] = chain[n]
      PROVE  LogsOf(chain', b) = LogsOf(chain, b)
  BY <1>2, LogsOfSame
<1>3. ASSUME NEW log \in OnChain,
             log.blockNumber + REQUIRED_BLOCK_CONFIRMATIONS <= Len(chain)
      PROVE  log \in OnChain'
  <2>1. PICK b \in 1..Len(chain) : b = log.blockNumber /\ log \in LogsOf(chain, b)
    BY OnChainIs
  <2>2. \A n \in 1..b : chain'[n] = chain[n]
    BY <1>1, <1>3, <2>1 DEF ChainMoves, REQUIRED_BLOCK_CONFIRMATIONS
  <2>3. log \in LogsOf(chain', b) /\ b \in DOMAIN chain'
    BY <1>1, <1>2, <2>1, <2>2
  <2>4. QED
    BY <2>3 DEF OnChain
<1>4. ASSUME NEW log \in OnChain'
      PROVE  /\ log \in Logs
             /\ log.blockNumber \in 1..Len(chain')
             /\ log.blockHash = chain'[log.blockNumber].hash
             /\ log \in OnChain \/ log.blockNumber > Len(chain) - REQUIRED_BLOCK_CONFIRMATIONS
  <2>1. PICK b \in 1..Len(chain') : log \in LogsOf(chain', b)
    BY <1>1, <1>4 DEF OnChain
  <2>2. log \in Logs /\ log.blockNumber = b /\ log.blockHash = chain'[b].hash
    BY <1>1, <2>1, LogsOfIs DEF ChainMoves
  <2>3. CASE b <= Len(chain) /\ \A n \in 1..b : chain'[n] = chain[n]
    <3>1. b \in DOMAIN chain /\ log \in LogsOf(chain, b)
      BY <1>1, <1>2, <2>1, <2>3
    <3>2. QED
      BY <2>2, <3>1 DEF OnChain
  <2>4. CASE b > Len(chain) - REQUIRED_BLOCK_CONFIRMATIONS
    BY <2>2, <2>4
  <2>5. QED
    BY <2>3, <2>4 DEF ChainMoves
<1>5. ASSUME NEW log \in OnChain' PROVE IsGenuine(log)'
  BY <1>1, <1>4, <1>5 DEF ChainMoves, IsGenuine
<1>6. ASSUME NEW log \in Logs, IsGenuine(log) PROVE IsGenuine(log)'
  <2>1. log.blockNumber \in 1..Len(chain) /\ log.blockHash \in Nat /\ log.blockHash <= mined
    BY <1>1, <1>6 DEF IsGenuine, Logs
  <2>2. PICK b \in 1..Len(chain) : b = log.blockNumber
    BY <2>1
  <2>3. ASSUME chain'[b].hash = log.blockHash PROVE log \in OnChain'
    <3>1. b \in 1..Len(chain') /\ chain'[b] \in Block
      BY <1>1
    <3>2. \A n \in 1..b : chain'[n] = chain[n]
      <4>1. \/ chain'[b].hash > mined
            \/ b \in 1..Len(chain) /\ \A n \in 1..b : chain'[n] = chain[n]
        BY <3>1, <1>1 DEF ChainMoves
      <4>2. chain'[b].hash <= mined /\ chain'[b].hash \in Nat /\ mined \in Nat
        BY <1>1, <2>1, <2>3
      <4>3. ~ (chain'[b].hash > mined)
        BY <4>2
      <4>4. QED
        BY <4>1, <4>3
    <3>3. log \in OnChain
      BY <1>6, <2>2, <2>3, <3>2 DEF IsGenuine, IsStillOnChain
    <3>4. log \in LogsOf(chain, b)
      BY <2>2, <3>3, OnChainIs
    <3>5. log \in LogsOf(chain', b) /\ b \in DOMAIN chain'
      BY <1>1, <1>2, <3>1, <3>2, <3>4
    <3>6. QED
      BY <3>5 DEF OnChain
  <2>4. QED
    BY <1>1, <2>1, <2>2, <2>3 DEF IsGenuine, IsStillOnChain
<1>7. QED
  BY <1>3, <1>4, <1>5, <1>6

-----------------------------------------------------------------------------
(***************************************************************************)
(* The kinds of the variables, action by action.                           *)
(***************************************************************************)
\* What of the type a step must show of the variables it changes.
LEMMA Kinds ==
  ASSUME TypeOK
  PROVE  /\ chain \in Seq(Block) /\ Len(chain) \in Nat /\ mined \in Nat
         /\ provider \in Provider /\ provider.feed \in Seq(Logs)
         /\ provider.heads \in Seq(Nat) /\ provider.subs \in Nat
         /\ IsABag(tracker.events) /\ BagToSet(tracker.events) \subseteq Logs
         /\ \A l \in Listeners : listener[l] \in Listener /\ listener[l].batch \in Seq(Logs)
         /\ resubs \in Seq(Resubscription) /\ out \in Seq(Logs) /\ handling \in Seq(Logs)
         /\ store \in Store /\ store.lastBlock \in Nat /\ store.handled \subseteq Logs
<1>1. /\ provider \in Provider /\ store \in Store
      /\ \A l \in Listeners : listener[l] \in Listener
  BY DEF TypeOK
<1>2. QED
  BY <1>1 DEF TypeOK, Provider, Store, Listener

\* The subscriptions change.
LEMMA ProviderKind ==
  ASSUME NEW p \in Provider, NEW n \in Nat, NEW c \in BOOLEAN,
         NEW e \in {"quiet", "error", "closed"}
  PROVE  \A q \in {[p EXCEPT !.connected = c, !.subErr = e], [p EXCEPT !.subErr = e],
                   [p EXCEPT !.subs = n, !.subErr = e], [p EXCEPT !.subs = n, !.connected = c]} :
           q \in Provider /\ q.feed = p.feed /\ q.heads = p.heads
BY DEF Provider

\* The first resubscription goes on.
LEMMA FirstGoesOn ==
  ASSUME TypeOK, resubs # <<>>, NEW r \in Resubscription,
         resubs' = [resubs EXCEPT ![1] = r]
  PROVE  /\ resubs' \in Seq(Resubscription) /\ Len(resubs') = Len(resubs) /\ Len(resubs) > 0
         /\ resubs'[1] = r /\ \A i \in 1..Len(resubs) : i # 1 => resubs'[i] = resubs[i]
<1>1. resubs \in Seq(Resubscription) /\ Len(resubs) > 0
  BY DEF TypeOK
<1>2. QED
  BY <1>1, ExceptSeq

\* Something of the budget is spent.
LEMMA SpendType ==
  ASSUME TypeOK, NEW what \in {"txs", "reorgs", "failures", "breaks", "resubs", "ticks", "stops"},
         Spend(what)
  PROVE  /\ spent' \in Budget /\ budget' = budget
         /\ spent'[what] = spent[what] + 1 /\ spent[what] \in Nat
         /\ \A w \in {"failures", "stops", "breaks"} : w # what => spent'[w] = spent[w]
<1>1. spent \in Budget /\ spent' = [spent EXCEPT ![what] = @ + 1] /\ budget' = budget
  BY DEF TypeOK, Spend
<1>2. QED
  BY <1>1 DEF Budget

\* The chain moves.
LEMMA ChainType ==
  ASSUME TypeOK, ChainMoves, Delivers, spent' \in Budget,
         UNCHANGED <<tracker, listener, resubs, out, handling, store, up, budget>>
  PROVE  TypeOK'
<1>1. provider' \in Provider
  BY Delivered DEF Delivers
<1>2. QED
  BY <1>1 DEF TypeOK, ChainMoves

\* The process ends.
LEMMA EndType ==
  ASSUME TypeOK, End, spent' \in Budget, budget' = budget
  PROVE  TypeOK'
<1>1. provider' \in Provider /\ <<>> \in Seq(Logs) /\ Idle \in Listener
  BY DEF End, Provider, Unsubscribed, Listener, Idle
<1>2. listener' \in [Listeners -> Listener]
  BY <1>1 DEF End
<1>3. IsABag(tracker'.events) /\ BagToSet(tracker'.events) \subseteq Logs
  BY BagOfSet DEF End
<1>4. /\ tracker'.latestBlockNum = 0 /\ tracker'.mu = "nobody"
      /\ DOMAIN tracker' = {"latestBlockNum", "events", "mu"}
  BY DEF End
<1>5. /\ resubs' \in Seq(Resubscription) /\ out' \in Seq(Logs) /\ handling' \in Seq(Logs)
      /\ chain' = chain /\ mined' = mined /\ store' = store
  BY DEF End
<1>6. Len(handling') <= 1
  <2>1. handling' = <<>>
    BY DEF End
  <2>2. QED
    BY <2>1
<1>7. up' \in BOOLEAN
  BY DEF End
<1>8. QED
  BY <1>1, <1>2, <1>3, <1>4, <1>5, <1>6, <1>7 DEF TypeOK

\* The process starts.
LEMMA StartType ==
  ASSUME TypeOK, Start \/ FinishStart
  PROVE  TypeOK'
<1>1. CASE Start
  <2>1. provider' \in Provider
    <3>1. Unsubscribed \in Provider
      BY DEF Provider, Unsubscribed
    <3>2. Subscribed \in Provider
      BY <3>1 DEF Provider, Subscribed
    <3>3. QED
      BY <1>1, <3>2 DEF Start
  <2>2. IsABag(tracker'.events) /\ BagToSet(tracker'.events) \subseteq Logs
    BY <1>1, BagOfSet DEF Start
  <2>3. QED
    BY <1>1, <2>1, <2>2, Kinds DEF TypeOK, Start, bounds
<1>2. CASE FinishStart
  <2>1. MissedEvents(tracker.latestBlockNum) \subseteq Logs
    BY OnChainIs DEF MissedEvents
  <2>2. /\ tracker'.events = SetToBag(MissedEvents(tracker.latestBlockNum))
        /\ tracker'.latestBlockNum = tracker.latestBlockNum /\ tracker'.mu = "nobody"
        /\ DOMAIN tracker' = DOMAIN tracker
    BY <1>2 DEF TypeOK, FinishStart
  <2>3. IsABag(tracker'.events) /\ BagToSet(tracker'.events) \subseteq Logs
    BY <2>1, <2>2, BagOfSet
  <2>4. QED
    BY <1>2, <2>2, <2>3 DEF TypeOK, FinishStart, bounds
<1>3. QED
  BY <1>1, <1>2

\* The listeners track the events.
LEMMA TrackType ==
  ASSUME TypeOK, TrackEvents
  PROVE  TypeOK'
<1>1. CASE ListenForEventLogs
  <2> DEFINE log == Head(provider.feed)
  <2>1. log \in Logs /\ Tail(provider.feed) \in Seq(Logs)
    BY <1>1, Kinds, SetOfTail DEF ListenForEventLogs
  <2>2. /\ provider' = [provider EXCEPT !.feed = Tail(@)]
        /\ tracker' = [tracker EXCEPT !.events = @ (+) SetToBag({log}), !.mu = "logs"]
        /\ listener' = [listener EXCEPT !["logs"].at = "popping"]
        /\ UNCHANGED <<chain, mined, resubs, out, handling, store, up, bounds>>
    BY <1>1 DEF ListenForEventLogs
  <2> HIDE DEF log
  <2>3. provider' \in Provider
    BY <2>1, <2>2, Kinds DEF Provider
  <2>4. /\ tracker'.events = tracker.events (+) SetToBag({log})
        /\ tracker'.latestBlockNum = tracker.latestBlockNum /\ tracker'.mu = "logs"
        /\ DOMAIN tracker' = DOMAIN tracker
    BY <2>2 DEF TypeOK
  <2>5. IsABag(tracker'.events) /\ BagToSet(tracker'.events) \subseteq Logs
    BY <2>1, <2>4, Kinds, Pushed
  <2>6. listener' \in [Listeners -> Listener]
    BY <2>2 DEF TypeOK, Listener
  <2>7. QED
    BY <2>2, <2>3, <2>4, <2>5, <2>6 DEF TypeOK, bounds, Listeners
<1>2. CASE ListenForNewBlocks
  <2>1. Head(provider.heads) \in Nat /\ Tail(provider.heads) \in Seq(Nat)
    BY <1>2, Kinds, SetOfTail DEF ListenForNewBlocks
  <2>2. provider' \in Provider
    BY <1>2, <2>1, Kinds DEF ListenForNewBlocks, Provider
  <2>3. /\ tracker'.events = tracker.events /\ tracker'.latestBlockNum \in Nat
        /\ tracker'.mu = "blocks" /\ DOMAIN tracker' = DOMAIN tracker
    BY <1>2, <2>1 DEF TypeOK, ListenForNewBlocks, Later
  <2>4. listener' \in [Listeners -> Listener]
    BY <1>2 DEF TypeOK, ListenForNewBlocks, Listener
  <2>5. QED
    BY <1>2, <2>2, <2>3, <2>4 DEF TypeOK, ListenForNewBlocks, bounds, Listeners
<1>3. ASSUME NEW l \in Listeners, NEW log \in Ripe, Pop(l, log) PROVE TypeOK'
  <2>1. log \in Logs
    BY Kinds DEF Ripe, Tops
  <2>2. Append(listener[l].batch, log) \in Seq(Logs)
    BY <2>1, Kinds, SetOfAppend
  <2>3. listener' \in [Listeners -> Listener]
    BY <1>3, <2>2, Kinds DEF TypeOK, Pop, Listener
  <2>4. /\ tracker'.events = tracker.events (-) SetToBag({log})
        /\ tracker'.latestBlockNum = tracker.latestBlockNum /\ tracker'.mu = tracker.mu
        /\ DOMAIN tracker' = DOMAIN tracker
    BY <1>3 DEF TypeOK, Pop
  <2>5. IsABag(tracker'.events) /\ BagToSet(tracker'.events) \subseteq Logs
    <3>1. IsABag(tracker.events) /\ BagToSet(tracker.events) \subseteq Logs
      BY Kinds
    <3>2. /\ IsABag(tracker.events (-) SetToBag({log}))
          /\ BagToSet(tracker.events (-) SetToBag({log})) \subseteq BagToSet(tracker.events)
      BY <3>1, Popped
    <3>3. QED
      BY <2>4, <3>1, <3>2
  <2>6. QED
    BY <1>3, <2>3, <2>4, <2>5 DEF TypeOK, Pop, bounds
<1>4. ASSUME NEW l \in Listeners, Release(l) PROVE TypeOK'
  <2>1. listener' \in [Listeners -> Listener]
    BY <1>4, Kinds DEF TypeOK, Release, Listener
  <2>2. QED
    BY <1>4, <2>1 DEF TypeOK, Release, bounds
<1>5. ASSUME NEW l \in Listeners, Dispatch(l) PROVE TypeOK'
  <2>1. Head(listener[l].batch) \in Logs /\ Tail(listener[l].batch) \in Seq(Logs)
    BY <1>5, Kinds, SetOfTail DEF Dispatch
  <2>2. listener' \in [Listeners -> Listener]
    BY <1>5, <2>1, Kinds DEF TypeOK, Dispatch, Listener
  <2>3. out' \in Seq(Logs)
    BY <1>5, <2>1, Kinds, SetOfAppend DEF Dispatch
  <2>4. QED
    BY <1>5, <2>2, <2>3 DEF TypeOK, Dispatch, bounds
<1>6. ASSUME NEW l \in Listeners, Dispatched(l) PROVE TypeOK'
  <2>1. Idle \in Listener
    BY DEF Idle, Listener
  <2>2. listener' \in [Listeners -> Listener]
    BY <1>6, <2>1 DEF TypeOK, Dispatched
  <2>3. QED
    BY <1>6, <2>2 DEF TypeOK, Dispatched, bounds
<1>7. QED
  BY <1>1, <1>2, <1>3, <1>4, <1>5, <1>6 DEF TrackEvents

\* A subscription is renewed, or breaks.  No subscription is given up that the
\* node does not have.
LEMMA RenewType ==
  ASSUME TypeOK, MutexInv, SubscriptionInv,
         SubscriptionBreaks \/ RenewSubscription \/ AttemptFails
  PROVE  TypeOK'
<1>1. CASE SubscriptionBreaks
  <2>1. provider' \in Provider
    BY <1>1, Kinds DEF SubscriptionBreaks, Provider
  <2>2. spent' \in Budget /\ budget' = budget
    BY <1>1, SpendType DEF SubscriptionBreaks
  <2>3. QED
    BY <1>1, <2>1, <2>2 DEF TypeOK, SubscriptionBreaks
<1>2. CASE ListenForSubscriptionError
  <2> DEFINE r == [at |-> "waiting", err |-> provider.subErr = "error", attempts |-> 0,
                   from |-> Later(tracker.latestBlockNum - REQUIRED_BLOCK_CONFIRMATIONS, 0)]
  <2>1. provider' \in Provider
    BY <1>2, Kinds DEF ListenForSubscriptionError, Provider
  <2>2. r \in Resubscription
    BY DEF TypeOK, Resubscription, Later, REQUIRED_BLOCK_CONFIRMATIONS
  <2>3. resubs' = Append(resubs, r)
    BY <1>2 DEF ListenForSubscriptionError
  <2> HIDE DEF r
  <2>4. resubs' \in Seq(Resubscription)
    BY <2>2, <2>3, Kinds, AppendProperties
  <2>5. spent' \in Budget /\ budget' = budget
    BY <1>2, SpendType DEF ListenForSubscriptionError
  <2>6. QED
    BY <1>2, <2>1, <2>4, <2>5 DEF TypeOK, ListenForSubscriptionError
<1>3. CASE BeginResubscription
  <2>1. Len(resubs) > 0 /\ 1 \in DOMAIN resubs /\ resubs[1] \in Resubscription
    BY <1>3, Kinds DEF BeginResubscription
  <2>2. resubs[1].err => provider.subs = 1
    <3>1. up /\ resubs # <<>> /\ resubs[1].at = "waiting"
      BY <1>3 DEF BeginResubscription, IsFree
    <3>2. provider.subErr \in {"quiet", "error", "closed"}
      BY Kinds DEF Provider
    <3>3. QED
      BY <2>1, <3>1, <3>2 DEF SubscriptionInv
  <2>3. provider' \in Provider
    <3>1. provider \in Provider
      BY Kinds
    <3>2. CASE resubs[1].err
      <4>1. provider.subs - 1 = 0
        BY <2>2, <3>2
      <4>2. provider' = [provider EXCEPT !.subs = 0, !.subErr = "closed"]
        BY <1>3, <3>2, <4>1 DEF BeginResubscription
      <4>3. QED
        BY <3>1, <4>2, ProviderKind
    <3>3. QED
      BY <1>3, <3>1, <3>2 DEF BeginResubscription
  <2>4. resubs' \in Seq(Resubscription)
    <3>1. [resubs[1] EXCEPT !.at = "trying"] \in Resubscription
      BY <2>1 DEF Resubscription
    <3>2. QED
      BY <1>3, <3>1, FirstGoesOn DEF BeginResubscription
  <2>5. QED
    BY <1>3, <2>3, <2>4 DEF TypeOK, BeginResubscription, bounds
<1>4. CASE Resubscribe
  <2>1. Len(resubs) > 0 /\ resubs[1] \in Resubscription
    BY <1>4, Kinds DEF Resubscribe
  <2>2. provider' \in Provider
    <3>1. provider \in Provider /\ provider.subs + 1 \in Nat
      BY Kinds
    <3>2. provider' = [provider EXCEPT !.subs = provider.subs + 1, !.connected = TRUE]
      BY <1>4 DEF Resubscribe
    <3>3. QED
      BY <3>1, <3>2, ProviderKind
  <2>3. resubs' \in Seq(Resubscription)
    <3>1. [resubs[1] EXCEPT !.at = "fetching"] \in Resubscription
      BY <2>1 DEF Resubscription
    <3>2. QED
      BY <1>4, <3>1, FirstGoesOn DEF Resubscribe
  <2>4. QED
    BY <1>4, <2>2, <2>3 DEF TypeOK, Resubscribe, bounds
<1>5. CASE FinishResubscription
  <2>1. Tail(resubs) \in Seq(Resubscription)
    BY <1>5, Kinds, SetOfTail DEF FinishResubscription
  <2>2. /\ tracker'.events = tracker.events (+) SetToBag(MissedEvents(resubs[1].from))
        /\ tracker'.latestBlockNum = tracker.latestBlockNum /\ tracker'.mu = "nobody"
        /\ DOMAIN tracker' = DOMAIN tracker
    BY <1>5 DEF TypeOK, FinishResubscription
  <2>3. MissedEvents(resubs[1].from) \subseteq Logs
    BY OnChainIs DEF MissedEvents
  <2>4. IsABag(tracker'.events) /\ BagToSet(tracker'.events) \subseteq Logs
    BY <2>2, <2>3, Kinds, Pushed
  <2>5. QED
    BY <1>5, <2>1, <2>2, <2>4 DEF TypeOK, FinishResubscription, bounds
<1>6. CASE AttemptFails
  <2>1. Len(resubs) > 0 /\ resubs[1] \in Resubscription
    BY <1>6, Kinds DEF AttemptFails
  <2>2. resubs' \in Seq(Resubscription)
    <3>1. [resubs[1] EXCEPT !.attempts = @ + 1] \in Resubscription
      BY <2>1 DEF Resubscription
    <3>2. QED
      BY <1>6, <3>1, FirstGoesOn DEF AttemptFails
  <2>3. QED
    BY <1>6, <2>2 DEF TypeOK, AttemptFails, bounds
<1>7. QED
  BY <1>1, <1>2, <1>3, <1>4, <1>5, <1>6 DEF RenewSubscription

\* The engine takes an event, handles it, and notes the last block.
LEMMA EngineType ==
  ASSUME TypeOK, TakeEvent \/ HandleChainEvent \/ BlockTicker
  PROVE  TypeOK'
<1>1. CASE TakeEvent
  <2> DEFINE h == Head(out)
  <2>1. h \in Logs /\ Tail(out) \in Seq(Logs)
    BY <1>1, Kinds, SetOfTail DEF TakeEvent
  <2>2. h.blockNumber \in Nat
    BY <2>1, BoundsAssumption DEF Logs
  <2>3. /\ out' = Tail(out) /\ handling' = <<h>>
        /\ store' = [store EXCEPT !.lastBlock = h.blockNumber]
        /\ UNCHANGED <<chain, mined, provider, tracker, listener, resubs, up, bounds>>
    BY <1>1 DEF TakeEvent
  <2> HIDE DEF h
  <2>4. store' \in Store
    BY <2>2, <2>3, Kinds DEF Store
  <2>5. handling' \in Seq(Logs) /\ Len(handling') = 1
    BY <2>1, <2>3
  <2>6. QED
    BY <2>1, <2>3, <2>4, <2>5 DEF TypeOK, bounds
<1>2. CASE HandleChainEvent
  <2>1. handling[1] \in Logs
    BY <1>2, Kinds DEF HandleChainEvent
  <2>2. handling[1].held \in Nat /\ handling[1].channel \in Channels
    BY <2>1 DEF Logs
  <2>3. store' \in Store
    BY <1>2, <2>1, <2>2, Kinds DEF HandleChainEvent, Store
  <2>4. handling' \in Seq(Logs) /\ Len(handling') <= 1
    BY <1>2 DEF HandleChainEvent
  <2>5. QED
    BY <1>2, <2>3, <2>4 DEF TypeOK, HandleChainEvent, bounds
<1>3. CASE BlockTicker
  <2>1. store' \in Store
    <3>1. LastConfirmedBlockNum \in Nat
      BY DEF TypeOK, LastConfirmedBlockNum, Later, REQUIRED_BLOCK_CONFIRMATIONS
    <3>2. store \in Store
      BY Kinds
    <3>3. [store EXCEPT !.lastBlock = LastConfirmedBlockNum] \in Store
      BY <3>1, <3>2 DEF Store
    <3>4. QED
      BY <1>3, <3>3 DEF BlockTicker
  <2>2. spent' \in Budget /\ budget' = budget
    BY <1>3, SpendType DEF BlockTicker
  <2>3. QED
    BY <1>3, <2>1, <2>2 DEF TypeOK, BlockTicker
<1>4. QED
  BY <1>1, <1>2, <1>3

-----------------------------------------------------------------------------
(***************************************************************************)
(* The mutex.                                                              *)
(***************************************************************************)
\* A resubscription is queued.
LEMMA QueueGrows ==
  ASSUME TypeOK, ListenForSubscriptionError
  PROVE  \E r \in Resubscription :
           /\ r.at = "waiting" /\ r.err = (provider.subErr = "error")
           /\ r.from = LastConfirmedBlockNum
           /\ resubs' \in Seq(Resubscription) /\ Len(resubs') = Len(resubs) + 1
           /\ \A i \in 1..Len(resubs) : resubs'[i] = resubs[i]
           /\ resubs'[Len(resubs) + 1] = r
<1> DEFINE r == [at |-> "waiting", err |-> provider.subErr = "error", attempts |-> 0,
                 from |-> LastConfirmedBlockNum]
<1>1. LastConfirmedBlockNum \in Nat /\ resubs \in Seq(Resubscription)
  BY DEF TypeOK, LastConfirmedBlockNum, Later, REQUIRED_BLOCK_CONFIRMATIONS
<1>2. /\ r \in Resubscription /\ r.at = "waiting" /\ r.err = (provider.subErr = "error")
      /\ r.from = LastConfirmedBlockNum
  BY <1>1 DEF Resubscription
<1>3. resubs' = Append(resubs, r)
  BY DEF ListenForSubscriptionError, LastConfirmedBlockNum
<1> HIDE DEF r
<1>4. /\ resubs' \in Seq(Resubscription) /\ Len(resubs') = Len(resubs) + 1
      /\ \A i \in 1..Len(resubs) : resubs'[i] = resubs[i]
      /\ resubs'[Len(resubs) + 1] = r
  BY <1>1, <1>2, <1>3, AppendProperties
<1>5. QED
  BY <1>2, <1>4

\* The first of the queue goes on.
LEMMA QueueGoesOn ==
  ASSUME TypeOK, BeginResubscription \/ Resubscribe \/ AttemptFails
  PROVE  /\ resubs' \in Seq(Resubscription) /\ Len(resubs') = Len(resubs) /\ Len(resubs) > 0
         /\ resubs'[1].err = resubs[1].err /\ resubs'[1].from = resubs[1].from
         /\ resubs'[1].at # "waiting"
         /\ \A i \in 1..Len(resubs) : i # 1 => resubs'[i] = resubs[i]
<1>1. resubs # <<>> /\ Len(resubs) > 0 /\ resubs[1] \in Resubscription
  BY DEF TypeOK, BeginResubscription, Resubscribe, AttemptFails
<1> DEFINE Is(r) == /\ r \in Resubscription /\ r.at # "waiting"
                    /\ r.err = resubs[1].err /\ r.from = resubs[1].from
<1>2. ASSUME BeginResubscription PROVE \E r : Is(r) /\ resubs' = [resubs EXCEPT ![1] = r]
  <2> DEFINE r == [resubs[1] EXCEPT !.at = "trying"]
  <2>1. Is(r)
    BY <1>1 DEF Resubscription
  <2>2. resubs' = [resubs EXCEPT ![1] = r]
    BY <1>2 DEF BeginResubscription
  <2> HIDE DEF r
  <2>3. QED
    BY <2>1, <2>2
<1>3. ASSUME Resubscribe PROVE \E r : Is(r) /\ resubs' = [resubs EXCEPT ![1] = r]
  <2> DEFINE r == [resubs[1] EXCEPT !.at = "fetching"]
  <2>1. Is(r)
    BY <1>1 DEF Resubscription
  <2>2. resubs' = [resubs EXCEPT ![1] = r]
    BY <1>3 DEF Resubscribe
  <2> HIDE DEF r
  <2>3. QED
    BY <2>1, <2>2
<1>4. ASSUME AttemptFails PROVE \E r : Is(r) /\ resubs' = [resubs EXCEPT ![1] = r]
  <2> DEFINE r == [resubs[1] EXCEPT !.attempts = @ + 1]
  <2>1. Is(r)
    BY <1>1, <1>4 DEF AttemptFails, Resubscription
  <2>2. resubs' = [resubs EXCEPT ![1] = r]
    BY <1>4 DEF AttemptFails
  <2> HIDE DEF r
  <2>3. QED
    BY <2>1, <2>2
<1>5. PICK r : Is(r) /\ resubs' = [resubs EXCEPT ![1] = r]
  BY <1>2, <1>3, <1>4
<1>6. QED
  BY <1>1, <1>5, FirstGoesOn

\* The first of the queue is done.
LEMMA QueueShrinks ==
  ASSUME TypeOK, FinishResubscription
  PROVE  /\ resubs' \in Seq(Resubscription) /\ Len(resubs') = Len(resubs) - 1
         /\ Len(resubs) > 0
         /\ \A i \in 1..Len(resubs') : resubs'[i] = resubs[i + 1]
<1>1. resubs \in Seq(Resubscription) /\ resubs # <<>> /\ resubs' = Tail(resubs)
  BY DEF TypeOK, FinishResubscription
<1>2. QED
  BY <1>1, HeadTailProperties

\* Whoever takes the mutex finds it free.
LEMMA MutexNext ==
  ASSUME TypeOK, TypeOK', MutexInv, SubscriptionInv, [Next]_vars
  PROVE  MutexInv'
<1> USE DEF Listeners
<1>1. resubs \in Seq(Resubscription) /\ listener \in [Listeners -> Listener]
      /\ DOMAIN tracker = {"latestBlockNum", "events", "mu"} /\ DOMAIN resubs = 1..Len(resubs)
      /\ DOMAIN resubs' = 1..Len(resubs') /\ resubs' \in Seq(Resubscription)
  BY DEF TypeOK
<1>2. CASE UNCHANGED <<tracker, listener, resubs, up>>
  BY <1>2 DEF MutexInv
<1>3. CASE End
  BY <1>3 DEF End, MutexInv, Idle
<1>4. CASE Start
  <2>1. resubs = <<>> /\ tracker'.mu = "start" /\ tracker'.events = EmptyBag
    BY <1>4 DEF Start, SubscriptionInv
  <2>2. \A l \in Listeners : listener[l].at # "popping"
    BY <1>4 DEF Start, MutexInv
  <2>3. QED
    BY <1>4, <2>1, <2>2 DEF Start, MutexInv
<1>5. CASE FinishStart
  <2>1. tracker'.mu = "nobody" /\ tracker.mu = "start"
    BY <1>1, <1>5 DEF FinishStart
  <2>2. QED
    BY <1>5, <2>1 DEF FinishStart, MutexInv
<1>6. CASE ListenForEventLogs
  <2>1. /\ tracker'.mu = "logs" /\ tracker.mu = "nobody" /\ resubs' = resubs
        /\ listener'["logs"].at = "popping" /\ listener'["blocks"] = listener["blocks"]
        /\ up' = up /\ up
    BY <1>1, <1>6 DEF ListenForEventLogs, IsFree, Listener
  <2>2. QED
    BY <2>1 DEF MutexInv
<1>7. CASE ListenForNewBlocks
  <2>1. /\ tracker'.mu = "blocks" /\ tracker.mu = "nobody" /\ resubs' = resubs
        /\ listener'["blocks"].at = "popping" /\ listener'["logs"] = listener["logs"]
        /\ up' = up /\ up
    BY <1>1, <1>7 DEF ListenForNewBlocks, IsFree, Listener
  <2>2. QED
    BY <2>1 DEF MutexInv
<1>8. ASSUME NEW l \in Listeners, NEW log \in Ripe, Pop(l, log) PROVE MutexInv'
  <2>1. tracker'.mu = tracker.mu /\ resubs' = resubs /\ tracker.mu = l /\ up' = up
    BY <1>1, <1>8 DEF Pop, MutexInv
  <2>2. \A k \in Listeners : listener'[k].at = listener[k].at
    BY <1>1, <1>8 DEF Pop, Listener
  <2>3. QED
    BY <2>1, <2>2 DEF MutexInv
<1>9. ASSUME NEW l \in Listeners, Release(l) PROVE MutexInv'
  <2>1. tracker'.mu = "nobody" /\ resubs' = resubs /\ tracker.mu = l
    BY <1>1, <1>9 DEF Release, MutexInv
  <2>2. /\ listener'[l].at = "dispatching"
        /\ \A k \in Listeners : k # l => listener'[k] = listener[k]
    BY <1>1, <1>9 DEF Release, Listener
  <2>3. QED
    BY <2>1, <2>2 DEF MutexInv
<1>10. ASSUME NEW l \in Listeners, Dispatch(l) \/ Dispatched(l) PROVE MutexInv'
  <2>1. tracker' = tracker /\ resubs' = resubs /\ listener[l].at = "dispatching" /\ up' = up
    BY <1>10 DEF Dispatch, Dispatched
  <2>2. /\ listener'[l].at # "popping"
        /\ \A k \in Listeners : k # l => listener'[k] = listener[k]
    BY <1>1, <1>10 DEF Dispatch, Dispatched, Listener, Idle
  <2>3. QED
    BY <2>1, <2>2 DEF MutexInv
<1>11. CASE ListenForSubscriptionError
  <2>1. tracker' = tracker /\ tracker.mu = "nobody" /\ listener' = listener /\ up' = up
    BY <1>11 DEF ListenForSubscriptionError, IsFree
  <2>2. PICK r \in Resubscription :
          /\ r.at = "waiting" /\ Len(resubs') = Len(resubs) + 1
          /\ \A i \in 1..Len(resubs) : resubs'[i] = resubs[i]
          /\ resubs'[Len(resubs) + 1] = r
    BY <1>11, QueueGrows
  <2>3. resubs' # <<>> /\ resubs'[1].at = "waiting"
    <3>1. CASE resubs = <<>>
      BY <1>1, <2>2, <3>1
    <3>2. CASE resubs # <<>>
      BY <1>1, <2>1, <2>2, <3>2 DEF MutexInv
    <3>3. QED
      BY <3>1, <3>2
  <2>4. \A i \in DOMAIN resubs' : i > 1 => resubs'[i].at = "waiting"
    BY <1>1, <2>2 DEF MutexInv
  <2>5. QED
    BY <2>1, <2>3, <2>4 DEF MutexInv
<1>12. CASE BeginResubscription \/ Resubscribe \/ AttemptFails
  <2>1. /\ Len(resubs') = Len(resubs) /\ Len(resubs) > 0 /\ resubs'[1].at # "waiting"
        /\ \A i \in 1..Len(resubs) : i # 1 => resubs'[i] = resubs[i]
    BY <1>12, QueueGoesOn
  <2>2. tracker'.mu = "resubscription" /\ tracker'.events = tracker.events
        /\ \A l \in Listeners : tracker.mu # l
    BY <1>1, <1>12 DEF MutexInv, BeginResubscription, Resubscribe, AttemptFails, IsFree
  <2>3. listener' = listener /\ up' = up /\ up
    BY <1>12 DEF BeginResubscription, Resubscribe, AttemptFails, MutexInv, IsFree
  <2>4. resubs' # <<>> /\ \A i \in DOMAIN resubs' : i > 1 => resubs'[i].at = "waiting"
    BY <1>1, <2>1 DEF MutexInv
  <2>5. QED
    BY <2>1, <2>2, <2>3, <2>4 DEF MutexInv
<1>13. CASE FinishResubscription
  <2>1. /\ Len(resubs') = Len(resubs) - 1 /\ Len(resubs) > 0
        /\ \A i \in 1..Len(resubs') : resubs'[i] = resubs[i + 1]
    BY <1>13, QueueShrinks
  <2>2. tracker'.mu = "nobody" /\ listener' = listener /\ tracker.mu = "resubscription"
    BY <1>1, <1>13 DEF FinishResubscription, MutexInv
  <2>3. ASSUME NEW i \in DOMAIN resubs' PROVE resubs'[i].at = "waiting"
    <3>1. /\ i \in 1..Len(resubs') /\ Len(resubs) \in Nat
          /\ DOMAIN resubs = 1..Len(resubs)
      BY <1>1, <2>1
    <3>2. i + 1 \in 1..Len(resubs) /\ i + 1 > 1
      BY <2>1, <3>1
    <3>3. resubs[i + 1].at = "waiting"
      BY <3>1, <3>2 DEF MutexInv
    <3>4. QED
      BY <2>1, <3>1, <3>3
  <2>4. QED
    BY <1>1, <2>2, <2>3 DEF MutexInv
<1>14. CASE UNCHANGED vars
  BY <1>2, <1>14 DEF vars
<1>15. ASSUME \/ \E tx \in Txs \cup {NoTx} : Mine(tx)
              \/ \E depth \in 1..REQUIRED_BLOCK_CONFIRMATIONS,
                    keep \in 0..REQUIRED_BLOCK_CONFIRMATIONS : Reorganise(depth, keep)
              \/ SubscriptionBreaks \/ TakeEvent \/ HandleChainEvent \/ BlockTicker
       PROVE  MutexInv'
  BY <1>2, <1>15 DEF Mine, Reorganise, SubscriptionBreaks, TakeEvent, HandleChainEvent,
     BlockTicker
<1>16. CASE Stop \/ RequestFails \/ ResubscriptionFails
  BY <1>3, <1>16 DEF Stop, RequestFails, ResubscriptionFails
<1>17. QED
  BY <1>4, <1>5, <1>6, <1>7, <1>8, <1>9, <1>10, <1>11, <1>12, <1>13, <1>14, <1>15, <1>16
     DEF Next, Serve, TrackEvents, RenewSubscription

-----------------------------------------------------------------------------
(***************************************************************************)
(* The logs in the node.                                                   *)
(***************************************************************************)
\* A step that leaves the chain as it is.
LEMMA EventsStay ==
  ASSUME TypeOK, EventsInv, UNCHANGED <<chain, mined>>,
         \A log \in SeqSet(provider'.feed) \cup BagToSet(tracker'.events) :
           \/ log \in SeqSet(provider.feed) \cup BagToSet(tracker.events)
           \/ IsGenuine(log),
         \A log \in Reached' \cup Batches' : log \in Reached \cup Batches \/ IsSettled(log)
  PROVE  EventsInv'
<1>1. OnChain' = OnChain
  BY DEF OnChain
<1>2. \A log : IsGenuine(log)' <=> IsGenuine(log)
  BY <1>1 DEF IsGenuine, IsStillOnChain
<1>3. \A log : IsSettled(log)' <=> IsSettled(log)
  BY <1>1 DEF IsSettled
<1>4. \A log \in SeqSet(provider'.feed) \cup BagToSet(tracker'.events) : IsGenuine(log)'
  BY <1>2 DEF EventsInv
<1>5. \A log \in Reached' \cup Batches' : IsSettled(log)'
  BY <1>3 DEF EventsInv
<1>6. QED
  BY <1>4, <1>5 DEF EventsInv

\* A step that adds no log to the node.
LEMMA EventsRest ==
  ASSUME TypeOK, EventsInv,
         UNCHANGED <<chain, mined, listener, out, handling>>, store'.handled = store.handled,
         SeqSet(provider'.feed) \subseteq SeqSet(provider.feed),
         BagToSet(tracker'.events) \subseteq BagToSet(tracker.events)
  PROVE  EventsInv'
<1>1. Reached' = Reached /\ Batches' = Batches
  BY DEF Reached, Batches
<1>2. QED
  BY <1>1, EventsStay

\* The chain moves.
LEMMA EventsMove ==
  ASSUME TypeOK, EventsInv, ChainMoves, Delivers,
         UNCHANGED <<tracker, listener, resubs, out, handling, store, up>>
  PROVE  EventsInv'
<1>1. \A b \in DOMAIN chain' : chain'[b].hash <= mined'
  BY DEF ChainMoves
<1>2. PICK logs \in SUBSET Logs, numbers \in Seq(Nat) :
        /\ IsFiniteSet(logs) /\ Deliver(logs, numbers)
        /\ logs \subseteq OnChain \cup OnChain'
  BY DEF Delivers
<1>3. SeqSet(provider'.feed) \subseteq SeqSet(provider.feed) \cup OnChain \cup OnChain'
  BY <1>2, Delivered
<1>4. ASSUME NEW log \in SeqSet(provider'.feed) \cup BagToSet(tracker'.events)
      PROVE  IsGenuine(log)'
  <2>1. CASE log \in OnChain'
    BY <2>1, LogsStay
  <2>2. CASE log \in SeqSet(provider.feed) \cup BagToSet(tracker.events) \cup OnChain
    <3>1. log \in Logs
      BY <2>2, Kinds, SetOfSeq, OnChainIs
    <3>2. IsGenuine(log)
      BY <2>2, OnChainIsGenuine DEF EventsInv
    <3>3. QED
      BY <3>1, <3>2, LogsStay
  <2>3. QED
    BY <1>3, <1>4, <2>1, <2>2
<1>5. Reached' = Reached /\ Batches' = Batches
  BY DEF Reached, Batches
<1>6. ASSUME NEW log \in Reached \cup Batches PROVE IsSettled(log)'
  <2>1. log \in OnChain /\ Len(chain) - log.blockNumber >= 2
    BY DEF EventsInv, IsSettled
  <2>2. log.blockNumber \in Nat /\ Len(chain) \in Nat /\ Len(chain') \in Nat
        /\ Len(chain) <= Len(chain')
    BY <2>1, OnChainIs, Kinds DEF ChainMoves
  <2>3. log \in OnChain'
    BY <2>1, <2>2, LogsStay DEF REQUIRED_BLOCK_CONFIRMATIONS
  <2>4. QED
    BY <2>1, <2>2, <2>3 DEF IsSettled
<1>7. QED
  BY <1>1, <1>4, <1>5, <1>6 DEF EventsInv

\* A log that is popped with its block still on the chain has its confirmations.
LEMMA PoppedIsSettled ==
  ASSUME TypeOK, EventsInv, BlocksInv, NEW log \in Ripe, IsStillOnChain(log)
  PROVE  IsSettled(log)
<1>1. log \in BagToSet(tracker.events) /\ IsConfirmed(log, tracker.latestBlockNum)
  BY DEF Ripe, Tops
<1>2. log \in OnChain
  BY <1>1 DEF EventsInv, IsGenuine
<1>3. log.blockNumber \in Nat /\ Len(chain) \in Nat
  BY <1>2, OnChainIs, Kinds
<1>4. tracker.latestBlockNum \in Nat /\ tracker.latestBlockNum <= Len(chain)
      /\ tracker.latestBlockNum >= log.blockNumber + 2
  BY <1>1 DEF TypeOK, BlocksInv, IsConfirmed, REQUIRED_BLOCK_CONFIRMATIONS
<1>5. QED
  BY <1>2, <1>3, <1>4 DEF IsSettled

\* The batches of the two listeners.
LEMMA BatchesAre ==
  ASSUME TypeOK
  PROVE  \A l \in Listeners :
           /\ SeqSet(listener[l].batch) \subseteq Batches
           /\ \A k \in Listeners : k # l => 
                Batches = SeqSet(listener[l].batch) \cup SeqSet(listener[k].batch)
BY DEF Batches, Listeners

\* A listener whose batch changes, while the other's does not.
LEMMA BatchChanges ==
  ASSUME TypeOK, TypeOK', NEW l \in Listeners, \A k \in Listeners : k # l => listener'[k] = listener[k]
  PROVE  \A log : log \in Batches' => log \in Batches \/ log \in SeqSet(listener'[l].batch)
<1>1. ASSUME NEW log, log \in Batches'
      PROVE  log \in Batches \/ log \in SeqSet(listener'[l].batch)
  <2>1. PICK k \in Listeners : log \in SeqSet(listener'[k].batch)
    BY <1>1 DEF Batches
  <2>2. CASE k = l
    BY <2>1, <2>2
  <2>3. CASE k # l
    BY <2>1, <2>3 DEF Batches
  <2>4. QED
    BY <2>2, <2>3
<1>2. QED
  BY <1>1

\* The listeners move logs, and confirm those they pop.
LEMMA EventsTrack ==
  ASSUME TypeOK, TypeOK', EventsInv, BlocksInv, TrackEvents
  PROVE  EventsInv'
<1>1. CASE ListenForEventLogs
  <2> DEFINE log == Head(provider.feed)
  <2>1. /\ provider.feed \in Seq(Logs) /\ provider.feed # <<>>
        /\ provider'.feed = Tail(provider.feed)
        /\ tracker'.events = tracker.events (+) SetToBag({log})
    BY <1>1, Kinds DEF TypeOK, ListenForEventLogs, Provider
  <2>2. SeqSet(provider.feed) = {log} \cup SeqSet(provider'.feed)
    BY <2>1, SetOfTail
  <2>3. BagToSet(tracker'.events) = BagToSet(tracker.events) \cup {log}
    BY <2>1, Kinds, Pushed
  <2>4. \A l \in Listeners : listener'[l].batch = listener[l].batch
    BY <1>1 DEF TypeOK, ListenForEventLogs, Listener, Listeners
  <2>5. Reached' = Reached /\ Batches' = Batches
    BY <1>1, <2>4 DEF ListenForEventLogs, Reached, Batches
  <2> HIDE DEF log
  <2>6. chain' = chain /\ mined' = mined
    BY <1>1 DEF ListenForEventLogs
  <2>7. QED
    BY <2>2, <2>3, <2>5, <2>6, EventsStay
<1>2. CASE ListenForNewBlocks
  <2>1. provider'.feed = provider.feed /\ tracker'.events = tracker.events
    BY <1>2, Kinds DEF TypeOK, ListenForNewBlocks, Provider
  <2>2. \A l \in Listeners : listener'[l].batch = listener[l].batch
    BY <1>2 DEF TypeOK, ListenForNewBlocks, Listener, Listeners
  <2>3. Reached' = Reached /\ Batches' = Batches
    BY <1>2, <2>2 DEF ListenForNewBlocks, Reached, Batches
  <2>4. chain' = chain /\ mined' = mined
    BY <1>2 DEF ListenForNewBlocks
  <2>5. QED
    BY <2>1, <2>3, <2>4, EventsStay
<1>3. ASSUME NEW l \in Listeners, NEW log \in Ripe, Pop(l, log) PROVE EventsInv'
  <2>1. BagToSet(tracker'.events) \subseteq BagToSet(tracker.events) /\ provider' = provider
    <3>1. tracker'.events = tracker.events (-) SetToBag({log})
      BY <1>3 DEF Pop, TypeOK
    <3>2. IsABag(tracker.events)
      BY Kinds
    <3>3. QED
      BY <1>3, <3>1, <3>2, Popped DEF Pop
  <2>2. chain' = chain /\ mined' = mined /\ Reached' = Reached
    BY <1>3 DEF Pop, Reached
  <2>3. \A k \in Listeners : k # l => listener'[k] = listener[k]
    BY <1>3 DEF Pop, TypeOK
  <2>4. \A x \in SeqSet(listener'[l].batch) : x \in Batches \/ IsSettled(x)
    <3>1. CASE IsStillOnChain(log)
      <4>1. listener'[l].batch = Append(listener[l].batch, log)
        BY <1>3, <3>1, Kinds DEF Pop, TypeOK, Listener
      <4>2. log \in Logs /\ listener[l].batch \in Seq(Logs)
        BY Kinds DEF Ripe, Tops
      <4>3. SeqSet(listener'[l].batch) = SeqSet(listener[l].batch) \cup {log}
        BY <4>1, <4>2, SetOfAppend
      <4>4. QED
        BY <3>1, <4>3, PoppedIsSettled, BatchesAre
    <3>2. CASE ~ IsStillOnChain(log)
      BY <1>3, <3>2, BatchesAre DEF Pop
    <3>3. QED
      BY <3>1, <3>2
  <2>5. QED
    BY <2>1, <2>2, <2>3, <2>4, BatchChanges, EventsStay
<1>4. ASSUME NEW l \in Listeners, Release(l) PROVE EventsInv'
  <2>1. provider' = provider /\ tracker'.events = tracker.events
    BY <1>4 DEF TypeOK, Release
  <2>2. \A k \in Listeners : listener'[k].batch = listener[k].batch
    BY <1>4, Kinds DEF TypeOK, Release, Listener
  <2>3. Reached' = Reached /\ Batches' = Batches
    BY <1>4, <2>2 DEF Release, Reached, Batches
  <2>4. chain' = chain /\ mined' = mined
    BY <1>4 DEF Release
  <2>5. QED
    BY <2>1, <2>3, <2>4, EventsStay
<1>5. ASSUME NEW l \in Listeners, Dispatch(l) PROVE EventsInv'
  <2> DEFINE h == Head(listener[l].batch)
  <2>1. /\ listener[l].batch \in Seq(Logs) /\ listener[l].batch # <<>>
        /\ listener'[l].batch = Tail(listener[l].batch) /\ out' = Append(out, h)
        /\ \A k \in Listeners : k # l => listener'[k] = listener[k]
        /\ UNCHANGED <<chain, mined, provider, tracker, handling, store>>
    BY <1>5, Kinds DEF Dispatch, TypeOK, Listener
  <2>2. /\ h \in Logs
        /\ SeqSet(listener[l].batch) = {h} \cup SeqSet(listener'[l].batch)
    BY <2>1, SetOfTail
  <2>3. out \in Seq(Logs)
    BY Kinds
  <2> HIDE DEF h
  <2>4. SeqSet(out') = SeqSet(out) \cup {h}
    BY <2>1, <2>2, <2>3, SetOfAppend
  <2>5. Reached' = Reached \cup {h}
    BY <2>1, <2>4 DEF Reached
  <2>6. \A x \in Batches' : x \in Batches
    BY <2>1, <2>2, BatchChanges, BatchesAre
  <2>7. h \in Batches
    BY <2>2, BatchesAre
  <2>8. QED
    BY <2>1, <2>5, <2>6, <2>7, EventsStay
<1>6. ASSUME NEW l \in Listeners, Dispatched(l) PROVE EventsInv'
  <2>1. /\ listener[l].batch = <<>> /\ listener'[l].batch = <<>>
        /\ \A k \in Listeners : k # l => listener'[k] = listener[k]
        /\ UNCHANGED <<chain, mined, provider, tracker, out, handling, store>>
    BY <1>6 DEF Dispatched, TypeOK, Idle
  <2>2. \A k \in Listeners : listener'[k].batch = listener[k].batch
    BY <2>1
  <2>3. Reached' = Reached /\ Batches' = Batches
    BY <2>1, <2>2 DEF Reached, Batches
  <2>4. QED
    BY <2>1, <2>3, EventsStay
<1>7. QED
  BY <1>1, <1>2, <1>3, <1>4, <1>5, <1>6 DEF TrackEvents

\* And so every step.
LEMMA EventsNext ==
  ASSUME TypeOK, TypeOK', EventsInv, BlocksInv, [Next]_vars
  PROVE  EventsInv'
<1>1. ASSUME NEW tx \in Txs \cup {NoTx}, Mine(tx) PROVE EventsInv'
  BY <1>1, MineMoves, EventsMove DEF Mine
<1>2. ASSUME NEW depth \in 1..REQUIRED_BLOCK_CONFIRMATIONS,
             NEW keep \in 0..REQUIRED_BLOCK_CONFIRMATIONS, Reorganise(depth, keep)
      PROVE  EventsInv'
  BY <1>2, ReorganiseMoves, EventsMove DEF Reorganise
<1>3. CASE End
  <2>1. /\ SeqSet(provider'.feed) = {} /\ BagToSet(tracker'.events) = {}
        /\ SeqSet(out') = {} /\ SeqSet(handling') = {}
    BY <1>3, SetOfEmpty, BagOfSet DEF End, Unsubscribed
  <2>2. \A l \in Listeners : SeqSet(listener'[l].batch) = {}
    BY <1>3, SetOfEmpty DEF End, Idle
  <2>3. Batches' = {} /\ Reached' = store.handled
    BY <1>3, <2>1, <2>2 DEF Batches, Reached, End
  <2>4. \A x \in Reached' \cup Batches' : x \in Reached
    BY <2>3 DEF Reached
  <2>5. chain' = chain /\ mined' = mined
    BY <1>3 DEF End
  <2>6. QED
    BY <2>1, <2>4, <2>5, EventsStay
<1>4. CASE Start
  <2>1. SeqSet(provider'.feed) = {} /\ BagToSet(tracker'.events) = {}
    BY <1>4, SetOfEmpty, BagOfSet DEF Start, Subscribed, Unsubscribed
  <2>2. QED
    BY <1>4, <2>1, EventsRest DEF Start
<1>5. CASE FinishStart
  <2>1. tracker'.events = SetToBag(MissedEvents(tracker.latestBlockNum))
    BY <1>5 DEF FinishStart, TypeOK
  <2>2. BagToSet(tracker'.events) \subseteq OnChain
    BY <2>1, BagOfSet DEF MissedEvents
  <2>3. Reached' = Reached /\ Batches' = Batches
    BY <1>5 DEF FinishStart, Reached, Batches
  <2>4. chain' = chain /\ mined' = mined /\ provider' = provider
    BY <1>5 DEF FinishStart
  <2>5. QED
    BY <2>2, <2>3, <2>4, OnChainIsGenuine, EventsStay
<1>6. CASE TrackEvents
  BY <1>6, EventsTrack
<1>7. CASE FinishResubscription
  <2>1. tracker'.events = tracker.events (+) SetToBag(MissedEvents(resubs[1].from))
    BY <1>7 DEF FinishResubscription, TypeOK
  <2>2. BagToSet(tracker'.events) \subseteq BagToSet(tracker.events) \cup OnChain
    BY <2>1, Kinds, Pushed DEF MissedEvents
  <2>3. Reached' = Reached /\ Batches' = Batches
    BY <1>7 DEF FinishResubscription, Reached, Batches
  <2>4. chain' = chain /\ mined' = mined /\ provider' = provider
    BY <1>7 DEF FinishResubscription
  <2>5. QED
    BY <2>2, <2>3, <2>4, OnChainIsGenuine, EventsStay
<1>8. CASE ListenForSubscriptionError \/ BeginResubscription \/ Resubscribe
           \/ SubscriptionBreaks \/ AttemptFails
  <2>1. /\ provider'.feed = provider.feed /\ tracker'.events = tracker.events
        /\ UNCHANGED <<chain, mined, listener, out, handling, store>>
    BY <1>8, Kinds DEF TypeOK, ListenForSubscriptionError, BeginResubscription, Resubscribe,
       SubscriptionBreaks, AttemptFails, Provider
  <2>2. QED
    BY <2>1, EventsRest
<1>9. CASE TakeEvent
  <2> DEFINE h == Head(out)
  <2>1. /\ out \in Seq(Logs) /\ out # <<>> /\ out' = Tail(out) /\ handling' = <<h>>
        /\ handling = <<>> /\ store'.handled = store.handled
        /\ UNCHANGED <<chain, mined, provider, tracker, listener>>
    BY <1>9, Kinds DEF TakeEvent, Store
  <2>2. SeqSet(out) = {h} \cup SeqSet(out')
    BY <2>1, SetOfTail
  <2>3. SeqSet(handling') = {h}
    BY <2>1 DEF SeqSet
  <2> HIDE DEF h
  <2>4. SeqSet(handling) = {}
    BY <2>1, SetOfEmpty
  <2>5. Reached' = Reached /\ Batches' = Batches
    BY <2>1, <2>2, <2>3, <2>4 DEF Reached, Batches
  <2>6. QED
    BY <2>1, <2>5, EventsStay
<1>10. CASE HandleChainEvent
  <2>1. /\ handling \in Seq(Logs) /\ handling # <<>> /\ handling' = <<>>
        /\ store'.handled = store.handled \cup {handling[1]}
        /\ UNCHANGED <<chain, mined, provider, tracker, listener, out>>
    BY <1>10, Kinds DEF HandleChainEvent, Store
  <2>2. handling[1] \in SeqSet(handling) /\ SeqSet(handling') = {}
    BY <2>1, SetOfEmpty DEF SeqSet
  <2>3. Reached' \subseteq Reached /\ Batches' = Batches
    BY <2>1, <2>2 DEF Reached, Batches
  <2>4. QED
    BY <2>1, <2>3, EventsStay
<1>11. CASE BlockTicker
  <2>1. /\ store'.handled = store.handled
        /\ UNCHANGED <<chain, mined, provider, tracker, listener, out, handling>>
    BY <1>11, Kinds DEF BlockTicker, Store
  <2>2. QED
    BY <2>1, EventsRest
<1>12. CASE UNCHANGED vars
  BY <1>12, EventsRest DEF vars
<1>13. QED
  BY <1>1, <1>2, <1>3, <1>4, <1>5, <1>6, <1>7, <1>8, <1>9, <1>10, <1>11, <1>12
     DEF Next, Serve, RenewSubscription, Stop, RequestFails, ResubscriptionFails

-----------------------------------------------------------------------------
(***************************************************************************)
(* The kinds of the variables, for every step.                             *)
(***************************************************************************)
\* Every step keeps the variables of their kinds.
LEMMA TypeNext ==
  ASSUME TypeOK, EventsInv, MutexInv, SubscriptionInv, [Next]_vars
  PROVE  TypeOK'
<1>1. ASSUME NEW tx \in Txs \cup {NoTx}, Mine(tx) PROVE TypeOK'
  <2>1. spent' \in Budget
    BY <1>1 DEF Mine, bounds, TypeOK
  <2>2. QED
    BY <1>1, <2>1, MineMoves, ChainType DEF Mine, bounds
<1>2. ASSUME NEW depth \in 1..REQUIRED_BLOCK_CONFIRMATIONS,
             NEW keep \in 0..REQUIRED_BLOCK_CONFIRMATIONS, Reorganise(depth, keep)
      PROVE  TypeOK'
  <2>1. spent' \in Budget /\ budget' = budget
    BY <1>2, SpendType DEF Reorganise
  <2>2. QED
    BY <1>2, <2>1, ReorganiseMoves, ChainType DEF Reorganise
<1>3. CASE Stop \/ RequestFails \/ ResubscriptionFails
  <2>1. spent' \in Budget /\ budget' = budget
    BY <1>3, SpendType DEF Stop, RequestFails, ResubscriptionFails
  <2>2. QED
    BY <1>3, <2>1, EndType DEF Stop, RequestFails, ResubscriptionFails
<1>4. CASE UNCHANGED vars
  BY <1>4 DEF vars, bounds, TypeOK
<1>5. QED
  BY <1>1, <1>2, <1>3, <1>4, StartType, TrackType, RenewType, EngineType DEF Next, Serve

-----------------------------------------------------------------------------
(***************************************************************************)
(* Nobody is ahead of the chain.                                           *)
(***************************************************************************)
\* The last confirmed block follows the latest.
LEMMA LastConfirmedIs ==
  ASSUME TypeOK
  PROVE  /\ LastConfirmedBlockNum \in Nat
         /\ LastConfirmedBlockNum = 0 \/ LastConfirmedBlockNum = tracker.latestBlockNum - 2
         /\ tracker.latestBlockNum - 2 <= LastConfirmedBlockNum
         /\ LastConfirmedBlockNum <= tracker.latestBlockNum
BY DEF TypeOK, LastConfirmedBlockNum, Later, REQUIRED_BLOCK_CONFIRMATIONS

\* As long as the process goes on, the latest block number never falls, and with
\* it the last confirmed one.
LEMMA LatestRises ==
  ASSUME TypeOK, TypeOK', tracker.latestBlockNum <= tracker'.latestBlockNum
  PROVE  LastConfirmedBlockNum <= LastConfirmedBlockNum'
<1>1. tracker.latestBlockNum \in Nat /\ tracker'.latestBlockNum \in Nat
  BY DEF TypeOK
<1>2. QED
  BY <1>1 DEF LastConfirmedBlockNum, Later, REQUIRED_BLOCK_CONFIRMATIONS

\* A step of a process that goes on.
LEMMA BlocksRest ==
  ASSUME TypeOK, TypeOK', BlocksInv, Len(chain) <= Len(chain'),
         \A number \in SeqSet(provider'.heads) :
           number \in SeqSet(provider.heads) \/ number <= Len(chain'),
         tracker.latestBlockNum <= tracker'.latestBlockNum,
         tracker'.latestBlockNum <= Len(chain'),
         store'.lastBlock = store.lastBlock \/ store'.lastBlock <= Len(chain),
         \A i \in 1..Len(resubs') :
           \/ resubs'[i].from = LastConfirmedBlockNum
           \/ \E j \in 1..Len(resubs) : resubs'[i].from = resubs[j].from
  PROVE  BlocksInv'
<1>1. /\ Len(chain) \in Nat /\ Len(chain') \in Nat /\ DOMAIN resubs = 1..Len(resubs)
      /\ DOMAIN resubs' = 1..Len(resubs')
      /\ store.lastBlock \in Nat /\ store'.lastBlock \in Nat
      /\ \A number \in SeqSet(provider.heads) : number \in Nat
      /\ \A j \in 1..Len(resubs) : resubs[j].from \in Nat
  <2>1. /\ provider.heads \in Seq(Nat) /\ resubs \in Seq(Resubscription)
        /\ chain \in Seq(Block) /\ store.lastBlock \in Nat
    BY Kinds
  <2>2. SeqSet(provider.heads) \subseteq Nat
    BY <2>1, SetOfSeq
  <2>3. resubs' \in Seq(Resubscription) /\ chain' \in Seq(Block)
    BY DEF TypeOK
  <2>4. store'.lastBlock \in Nat
    <3>1. store' \in Store
      BY DEF TypeOK
    <3>2. QED
      BY <3>1 DEF Store
  <2>5. \A j \in 1..Len(resubs) : resubs[j].from \in Nat
    <3>1. \A j \in 1..Len(resubs) : resubs[j] \in Resubscription
      BY <2>1
    <3>2. QED
      BY <3>1 DEF Resubscription
  <2>6. Len(chain) \in Nat /\ Len(chain') \in Nat
    BY <2>1, <2>3
  <2>7. DOMAIN resubs = 1..Len(resubs) /\ DOMAIN resubs' = 1..Len(resubs')
    BY <2>1, <2>3
  <2>8. QED
    BY <2>1, <2>2, <2>4, <2>5, <2>6, <2>7
<1>2. \A number \in SeqSet(provider'.heads) : number <= Len(chain')
  BY <1>1 DEF BlocksInv
<1>3. store'.lastBlock <= Len(chain')
  BY <1>1 DEF BlocksInv
<1>4. LastConfirmedBlockNum \in Nat /\ LastConfirmedBlockNum' \in Nat
      /\ LastConfirmedBlockNum <= LastConfirmedBlockNum'
  <2>1. LastConfirmedBlockNum \in Nat
    BY LastConfirmedIs
  <2>2. LastConfirmedBlockNum' \in Nat
    BY DEF TypeOK, LastConfirmedBlockNum, Later, REQUIRED_BLOCK_CONFIRMATIONS
  <2>3. QED
    BY <2>1, <2>2, LatestRises
<1>5. \A i \in DOMAIN resubs' : resubs'[i].from <= LastConfirmedBlockNum'
  <2>1. ASSUME NEW i \in 1..Len(resubs') PROVE resubs'[i].from <= LastConfirmedBlockNum'
    <3>1. CASE resubs'[i].from = LastConfirmedBlockNum
      BY <1>4, <3>1
    <3>2. ASSUME NEW j \in 1..Len(resubs), resubs'[i].from = resubs[j].from
          PROVE  resubs'[i].from <= LastConfirmedBlockNum'
      <4>1. resubs[j].from \in Nat /\ resubs[j].from <= LastConfirmedBlockNum
        BY <1>1 DEF BlocksInv
      <4>2. QED
        BY <1>4, <3>2, <4>1
    <3>3. QED
      BY <3>1, <3>2
  <2>2. QED
    BY <1>1, <2>1
<1>6. QED
  BY <1>2, <1>3, <1>5 DEF BlocksInv

\* Every step keeps what is known of block numbers: those that move a
\* listener's block by the lemmas above, the others because nothing changes.
LEMMA BlocksNext ==
  ASSUME TypeOK, TypeOK', EventsInv, BlocksInv, SubscriptionInv, [Next]_vars
  PROVE  BlocksInv'
<1>1. /\ tracker.latestBlockNum \in Nat /\ Len(chain) \in Nat /\ DOMAIN resubs = 1..Len(resubs)
      /\ tracker.latestBlockNum <= Len(chain) /\ DOMAIN tracker = {"latestBlockNum", "events", "mu"}
  BY DEF TypeOK, BlocksInv
<1> DEFINE rest == /\ chain' = chain
                   /\ tracker'.latestBlockNum = tracker.latestBlockNum
                   /\ provider'.heads = provider.heads
                   /\ store'.lastBlock = store.lastBlock
<1>2. ASSUME rest, \/ resubs' = resubs
                   \/ \A i \in 1..Len(resubs') : \E j \in 1..Len(resubs) :
                        resubs'[i].from = resubs[j].from
      PROVE  BlocksInv'
  BY <1>1, <1>2, BlocksRest DEF TypeOK
<1>3. ASSUME ChainMoves, Delivers, UNCHANGED <<tracker, resubs, store>>
      PROVE  BlocksInv'
  <2>1. \A number \in SeqSet(provider'.heads) :
          number \in SeqSet(provider.heads) \/ number <= Len(chain')
    BY <1>3, Delivered DEF Delivers
  <2>2. Len(chain') \in Nat /\ Len(chain) <= Len(chain')
    BY <1>3 DEF ChainMoves
  <2>3. tracker'.latestBlockNum <= Len(chain')
    BY <1>1, <1>3, <2>2
  <2>4. QED
    BY <1>1, <1>3, <2>1, <2>2, <2>3, BlocksRest
<1>4. CASE End
  <2>1. /\ SeqSet(provider'.heads) = {} /\ tracker'.latestBlockNum = 0
        /\ resubs' = <<>> /\ chain' = chain /\ store' = store
    BY <1>4, SetOfEmpty DEF End, Unsubscribed
  <2>2. QED
    BY <1>1, <2>1 DEF BlocksInv
<1>5. CASE Start
  <2>1. /\ SeqSet(provider'.heads) = {} /\ tracker'.latestBlockNum = store.lastBlock
        /\ resubs' = <<>> /\ chain' = chain /\ store' = store
    BY <1>5, SetOfEmpty DEF Start, Subscribed, Unsubscribed, SubscriptionInv
  <2>2. QED
    BY <1>1, <2>1 DEF BlocksInv
<1>6. CASE FinishStart \/ ListenForEventLogs
  <2>1. rest /\ resubs' = resubs
    <3>1. CASE FinishStart
      BY <1>1, <3>1 DEF FinishStart
    <3>2. CASE ListenForEventLogs
      <4>1. provider \in Provider
        BY Kinds
      <4>2. QED
        BY <1>1, <3>2, <4>1 DEF ListenForEventLogs, Provider
    <3>3. QED
      BY <1>6, <3>1, <3>2
  <2>2. QED
    BY <1>2, <2>1
<1>7. CASE ListenForNewBlocks
  <2> DEFINE h == Head(provider.heads)
  <2>1. /\ provider.heads \in Seq(Nat) /\ provider.heads # <<>> /\ provider \in Provider
        /\ provider'.heads = Tail(provider.heads)
        /\ tracker'.latestBlockNum = Later(h, tracker.latestBlockNum)
        /\ UNCHANGED <<chain, resubs, store>>
    BY <1>1, <1>7, Kinds DEF ListenForNewBlocks, Provider
  <2>2. h \in Nat /\ SeqSet(provider.heads) = {h} \cup SeqSet(provider'.heads)
    BY <2>1, SetOfTail
  <2> HIDE DEF h
  <2>3. h <= Len(chain)
    BY <2>2 DEF BlocksInv
  <2>4. tracker.latestBlockNum <= tracker'.latestBlockNum /\ tracker'.latestBlockNum <= Len(chain)
    BY <1>1, <2>1, <2>2, <2>3 DEF Later
  <2>5. \A number \in SeqSet(provider'.heads) : number \in SeqSet(provider.heads)
    BY <2>2
  <2>6. QED
    BY <1>1, <2>1, <2>4, <2>5, BlocksRest
<1>8. ASSUME NEW l \in Listeners,
             (\E log \in Ripe : Pop(l, log)) \/ Release(l) \/ Dispatch(l) \/ Dispatched(l)
      PROVE  BlocksInv'
  <2>1. rest /\ resubs' = resubs
    <3>1. ASSUME NEW log \in Ripe, Pop(l, log) PROVE rest /\ resubs' = resubs
      BY <1>1, <3>1 DEF Pop
    <3>2. CASE Release(l)
      BY <1>1, <3>2 DEF Release
    <3>3. CASE Dispatch(l) \/ Dispatched(l)
      BY <1>1, <3>3 DEF Dispatch, Dispatched
    <3>4. QED
      BY <1>8, <3>1, <3>2, <3>3
  <2>2. QED
    BY <1>2, <2>1
<1>9. CASE ListenForSubscriptionError
  <2>1. PICK r \in Resubscription :
           /\ r.from = LastConfirmedBlockNum /\ Len(resubs') = Len(resubs) + 1
           /\ \A i \in 1..Len(resubs) : resubs'[i] = resubs[i]
           /\ resubs'[Len(resubs) + 1] = r
    BY <1>9, QueueGrows
  <2>2. \A i \in 1..Len(resubs') : i \in 1..Len(resubs) \/ i = Len(resubs) + 1
    BY <1>1, <2>1 DEF TypeOK
  <2>3. rest
    <3>1. provider \in Provider
      BY Kinds
    <3>2. QED
      BY <1>1, <1>9, <3>1 DEF ListenForSubscriptionError, Provider
  <2>4. QED
    BY <1>1, <2>1, <2>2, <2>3, BlocksRest
<1>10. CASE BeginResubscription \/ Resubscribe \/ AttemptFails
  <2>1. /\ Len(resubs') = Len(resubs) /\ resubs'[1].from = resubs[1].from
        /\ \A i \in 1..Len(resubs) : i # 1 => resubs'[i] = resubs[i]
    BY <1>10, QueueGoesOn
  <2>2. rest
    <3>1. provider \in Provider
      BY Kinds
    <3>2. CASE BeginResubscription
      BY <1>1, <3>1, <3>2 DEF BeginResubscription, Provider
    <3>3. CASE Resubscribe
      BY <1>1, <3>1, <3>3 DEF Resubscribe, Provider
    <3>4. CASE AttemptFails
      BY <1>1, <3>4 DEF AttemptFails
    <3>5. QED
      BY <1>10, <3>2, <3>3, <3>4
  <2>3. QED
    BY <1>2, <2>1, <2>2
<1>11. CASE FinishResubscription
  <2>1. /\ Len(resubs') = Len(resubs) - 1 /\ Len(resubs) > 0
        /\ \A i \in 1..Len(resubs') : resubs'[i] = resubs[i + 1]
    BY <1>11, QueueShrinks
  <2>2. rest
    BY <1>1, <1>11 DEF FinishResubscription
  <2>3. \A i \in 1..Len(resubs') : i + 1 \in 1..Len(resubs)
    BY <1>1, <2>1 DEF TypeOK
  <2>4. QED
    BY <1>2, <2>1, <2>2, <2>3
<1>12. CASE SubscriptionBreaks \/ HandleChainEvent
  <2>1. store \in Store /\ provider \in Provider
    BY Kinds
  <2>2. store'.lastBlock = store.lastBlock
    BY <1>12, <2>1 DEF SubscriptionBreaks, HandleChainEvent, Store
  <2>3. rest /\ resubs' = resubs
    <3>1. CASE SubscriptionBreaks
      BY <1>1, <2>1, <2>2, <3>1 DEF SubscriptionBreaks, Provider
    <3>2. CASE HandleChainEvent
      BY <1>1, <2>2, <3>2 DEF HandleChainEvent
    <3>3. QED
      BY <1>12, <3>1, <3>2
  <2>4. QED
    BY <1>2, <2>3
<1>13. CASE TakeEvent
  <2> DEFINE h == Head(out)
  <2>1. /\ out \in Seq(Logs) /\ out # <<>> /\ store'.lastBlock = h.blockNumber
        /\ UNCHANGED <<chain, provider, tracker, resubs>>
    BY <1>13, Kinds DEF TakeEvent, Store
  <2>2. h \in SeqSet(out)
    BY <2>1, SetOfTail
  <2> HIDE DEF h
  <2>3. h \in OnChain
    BY <2>2 DEF EventsInv, Reached, IsSettled
  <2>4. h.blockNumber <= Len(chain)
    BY <2>3, OnChainIs
  <2>5. QED
    BY <1>1, <2>1, <2>4, BlocksRest
<1>14. CASE BlockTicker
  <2>1. /\ store'.lastBlock = LastConfirmedBlockNum
        /\ UNCHANGED <<chain, provider, tracker, resubs>>
    BY <1>14, Kinds DEF BlockTicker, Store
  <2>2. LastConfirmedBlockNum <= Len(chain)
    BY <1>1, LastConfirmedIs
  <2>3. QED
    BY <1>1, <2>1, <2>2, BlocksRest
<1>15. CASE UNCHANGED vars
  BY <1>1, <1>2, <1>15 DEF vars
<1>16. ASSUME NEW tx \in Txs \cup {NoTx}, Mine(tx) PROVE BlocksInv'
  BY <1>3, <1>16, MineMoves DEF Mine
<1>17. ASSUME NEW depth \in 1..REQUIRED_BLOCK_CONFIRMATIONS,
             NEW keep \in 0..REQUIRED_BLOCK_CONFIRMATIONS, Reorganise(depth, keep)
      PROVE  BlocksInv'
  BY <1>3, <1>17, ReorganiseMoves DEF Reorganise
<1>18. QED
  BY <1>4, <1>5, <1>6, <1>7, <1>8, <1>9, <1>10, <1>11, <1>12, <1>13, <1>14, <1>15, <1>16, <1>17
     DEF Next, Serve, TrackEvents, RenewSubscription, Stop, RequestFails, ResubscriptionFails

-----------------------------------------------------------------------------
(***************************************************************************)
(* The subscriptions and their channel of errors.                          *)
(***************************************************************************)
\* A step that leaves the subscriptions alone, whatever they deliver.
LEMMA SubscriptionRest ==
  ASSUME SubscriptionInv, UNCHANGED <<resubs, up>>,
         provider'.subs = provider.subs, provider'.connected = provider.connected,
         provider'.subErr = provider.subErr, up \/ provider' = provider
  PROVE  SubscriptionInv'
BY DEF SubscriptionInv

\* A resubscription that has begun finds the channel of errors closed.
LEMMA ClosedOnceBegun ==
  ASSUME TypeOK, SubscriptionInv, resubs # <<>>, resubs[1].at # "waiting"
  PROVE  up /\ provider.subErr = "closed" /\ \A i \in DOMAIN resubs : resubs[i].err => i = 1
<1>1. provider.subErr \in {"quiet", "error", "closed"} /\ up \in BOOLEAN
  BY DEF TypeOK, Provider
<1>2. QED
  BY <1>1 DEF SubscriptionInv

\* Every step keeps to that.
LEMMA SubscriptionNext ==
  ASSUME TypeOK, EventsInv, SubscriptionInv, [Next]_vars
  PROVE  SubscriptionInv'
<1>1. /\ provider \in Provider /\ resubs \in Seq(Resubscription) /\ up \in BOOLEAN
      /\ provider.subErr \in {"quiet", "error", "closed"} /\ provider.subs \in Nat
      /\ provider.connected \in BOOLEAN /\ DOMAIN resubs = 1..Len(resubs)
  BY DEF TypeOK, Provider
<1>2. ASSUME Delivers, UNCHANGED <<resubs, up>> PROVE SubscriptionInv'
  <2>1. /\ provider'.subs = provider.subs /\ provider'.connected = provider.connected
        /\ provider'.subErr = provider.subErr
        /\ ~ provider.connected => provider' = provider
    BY <1>2, Delivered DEF Delivers
  <2>2. up \/ ~ provider.connected
    BY DEF SubscriptionInv, Unsubscribed
  <2>3. up \/ provider' = provider
    BY <2>1, <2>2
  <2>4. resubs' = resubs /\ up' = up
    BY <1>2
  <2>5. QED
    BY <2>1, <2>3, <2>4, SubscriptionRest
<1>3. CASE UNCHANGED <<provider, resubs, up>>
  BY <1>3, SubscriptionRest
<1>4. CASE End
  <2>1. ~ provider'.connected /\ provider'.subErr = "quiet" /\ ~ up' /\ resubs' = <<>>
        /\ provider' = Unsubscribed
    BY <1>4 DEF End, Unsubscribed
  <2>2. QED
    BY <2>1 DEF SubscriptionInv
<1>5. CASE Start
  <2>1. /\ provider'.connected /\ provider'.subErr = "quiet" /\ provider'.subs = 1
        /\ up' /\ resubs' = <<>>
    BY <1>5 DEF Start, Subscribed, Unsubscribed, SubscriptionInv
  <2>2. QED
    BY <2>1 DEF SubscriptionInv
<1>6. CASE ListenForEventLogs \/ ListenForNewBlocks
  <2>1. /\ provider'.subs = provider.subs /\ provider'.connected = provider.connected
        /\ provider'.subErr = provider.subErr /\ up /\ UNCHANGED <<resubs, up>>
    BY <1>1, <1>6 DEF ListenForEventLogs, ListenForNewBlocks, IsFree, Provider
  <2>2. QED
    BY <2>1, SubscriptionRest
<1>7. CASE SubscriptionBreaks
  <2>1. /\ provider'.subs = provider.subs /\ ~ provider'.connected
        /\ provider'.subErr = IF provider.subErr = "closed" THEN "closed" ELSE "error"
        /\ up /\ provider.connected /\ UNCHANGED <<resubs, up>>
    BY <1>1, <1>7 DEF SubscriptionBreaks, Provider
  <2>2. QED
    BY <1>1, <2>1 DEF SubscriptionInv
<1>8. CASE ListenForSubscriptionError
  <2>1. PICK r \in Resubscription :
          /\ r.at = "waiting" /\ r.err = (provider.subErr = "error")
          /\ resubs' \in Seq(Resubscription) /\ Len(resubs') = Len(resubs) + 1
          /\ \A i \in 1..Len(resubs) : resubs'[i] = resubs[i]
          /\ resubs'[Len(resubs) + 1] = r
    BY <1>8, QueueGrows
  <2>2. /\ provider'.subs = provider.subs /\ provider'.connected = provider.connected
        /\ provider'.subErr = IF provider.subErr = "error" THEN "quiet" ELSE provider.subErr
        /\ up /\ up' = up /\ provider.subErr # "quiet"
    BY <1>1, <1>8 DEF ListenForSubscriptionError, IsFree, Provider
  <2>3. CASE provider.subErr = "error"
    <3>1. resubs = <<>> /\ ~ provider.connected /\ provider.subs = 1
      BY <2>3 DEF SubscriptionInv
    <3>2. Len(resubs') = 1 /\ resubs'[1] = r
      BY <2>1, <3>1
    <3>3. r.err
      BY <2>1, <2>3
    <3>4. QED
      BY <2>1, <2>2, <2>3, <3>1, <3>2, <3>3 DEF SubscriptionInv
  <2>4. CASE provider.subErr = "closed"
    <3>1. \A i \in DOMAIN resubs' : i \in 1..Len(resubs) \/ i = Len(resubs) + 1
      BY <1>1, <2>1
    <3>2. \A i \in DOMAIN resubs' : resubs'[i].err => i = 1 /\ resubs'[i].at # "waiting"
      <4>1. ~ r.err
        BY <2>1, <2>4
      <4>2. \A i \in 1..Len(resubs) : resubs[i].err => i = 1 /\ resubs[i].at # "waiting"
        BY <1>1, <2>4 DEF SubscriptionInv
      <4>3. QED
        BY <2>1, <3>1, <4>1, <4>2
    <3>3. QED
      BY <2>2, <2>4, <3>2 DEF SubscriptionInv
  <2>5. QED
    BY <1>1, <2>2, <2>3, <2>4
<1>9. CASE BeginResubscription
  <2>1. /\ Len(resubs') = Len(resubs) /\ Len(resubs) > 0 /\ resubs' \in Seq(Resubscription)
        /\ resubs'[1].err = resubs[1].err /\ resubs'[1].at # "waiting"
        /\ \A i \in 1..Len(resubs) : i # 1 => resubs'[i] = resubs[i]
    BY <1>9, QueueGoesOn
  <2>2. up /\ up' = up /\ resubs # <<>> /\ resubs[1].at = "waiting" /\ resubs[1].err \in BOOLEAN
    BY <1>1, <1>9, <2>1 DEF BeginResubscription, IsFree, Resubscription
  <2>3. CASE resubs[1].err
    <3>1. ~ provider.connected /\ Len(resubs) = 1
      BY <1>1, <2>1, <2>2, <2>3 DEF SubscriptionInv
    <3>2. provider'.connected = provider.connected /\ provider'.subErr = "closed"
      BY <1>1, <1>9, <2>3 DEF BeginResubscription, Provider
    <3>3. DOMAIN resubs' = 1..1
      BY <2>1, <3>1
    <3>4. QED
      BY <2>1, <2>2, <3>1, <3>2, <3>3 DEF SubscriptionInv
  <2>4. CASE ~ resubs[1].err
    <3>1. provider' = provider /\ provider.subErr = "closed"
      BY <1>1, <1>9, <2>2, <2>4 DEF BeginResubscription, SubscriptionInv
    <3>2. \A i \in DOMAIN resubs' : resubs'[i].err => i = 1 /\ resubs'[i].at # "waiting"
      BY <1>1, <2>1, <2>4, <3>1 DEF SubscriptionInv
    <3>3. QED
      BY <2>2, <3>1, <3>2 DEF SubscriptionInv
  <2>5. QED
    BY <2>2, <2>3, <2>4
<1>10. CASE Resubscribe \/ AttemptFails
  <2>1. /\ Len(resubs') = Len(resubs) /\ Len(resubs) > 0 /\ resubs' \in Seq(Resubscription)
        /\ resubs'[1].err = resubs[1].err /\ resubs'[1].at # "waiting"
        /\ \A i \in 1..Len(resubs) : i # 1 => resubs'[i] = resubs[i]
    BY <1>10, QueueGoesOn
  <2>2. resubs # <<>> /\ resubs[1].at # "waiting"
    BY <1>10 DEF Resubscribe, AttemptFails
  <2>3. /\ up /\ up' = up /\ provider.subErr = "closed"
        /\ \A i \in DOMAIN resubs : resubs[i].err => i = 1
    BY <1>10, <2>2, ClosedOnceBegun DEF Resubscribe, AttemptFails
  <2>4. \A i \in DOMAIN resubs' : resubs'[i].err => i = 1 /\ resubs'[i].at # "waiting"
    BY <1>1, <2>1, <2>3
  <2>5. provider'.subErr = "closed" /\ (provider'.connected => provider'.subs > 0)
    <3>1. CASE Resubscribe
      BY <1>1, <2>3, <3>1 DEF Resubscribe, Provider
    <3>2. CASE AttemptFails
      BY <2>3, <3>2 DEF AttemptFails, SubscriptionInv
    <3>3. QED
      BY <1>10, <3>1, <3>2
  <2>6. QED
    BY <2>3, <2>4, <2>5 DEF SubscriptionInv
<1>11. CASE FinishResubscription
  <2>1. /\ resubs' \in Seq(Resubscription) /\ Len(resubs') = Len(resubs) - 1
        /\ \A i \in 1..Len(resubs') : resubs'[i] = resubs[i + 1]
    BY <1>11, QueueShrinks
  <2>2. /\ up /\ up' = up /\ provider' = provider /\ provider.subErr = "closed"
        /\ \A i \in DOMAIN resubs : resubs[i].err => i = 1
    BY <1>11, ClosedOnceBegun DEF FinishResubscription
  <2>3. ASSUME NEW i \in DOMAIN resubs' PROVE ~ resubs'[i].err
    <3>1. i + 1 \in DOMAIN resubs /\ i + 1 # 1 /\ resubs'[i] = resubs[i + 1]
      BY <1>1, <2>1
    <3>2. QED
      BY <2>2, <3>1
  <2>4. QED
    BY <2>2, <2>3 DEF SubscriptionInv
<1>12. ASSUME NEW tx \in Txs \cup {NoTx}, Mine(tx) PROVE SubscriptionInv'
  BY <1>2, <1>12, MineMoves DEF Mine
<1>13. ASSUME NEW depth \in 1..REQUIRED_BLOCK_CONFIRMATIONS,
             NEW keep \in 0..REQUIRED_BLOCK_CONFIRMATIONS, Reorganise(depth, keep)
      PROVE  SubscriptionInv'
  BY <1>2, <1>13, ReorganiseMoves DEF Reorganise
<1>14. ASSUME NEW l \in Listeners,
             (\E log \in Ripe : Pop(l, log)) \/ Release(l) \/ Dispatch(l) \/ Dispatched(l)
      PROVE  SubscriptionInv'
  BY <1>3, <1>14 DEF Pop, Release, Dispatch, Dispatched
<1>15. CASE FinishStart \/ TakeEvent \/ HandleChainEvent \/ BlockTicker \/ UNCHANGED vars
  BY <1>3, <1>15 DEF FinishStart, TakeEvent, HandleChainEvent, BlockTicker, vars
<1>16. QED
  BY <1>4, <1>5, <1>6, <1>7, <1>8, <1>9, <1>10, <1>11, <1>12, <1>13, <1>14, <1>15
     DEF Next, Serve, TrackEvents, RenewSubscription, Stop, RequestFails, ResubscriptionFails

-----------------------------------------------------------------------------
(***************************************************************************)
(* Delivery: as long as the process goes on, no log is lost.               *)
(***************************************************************************)
\* The chunks of checkForMissedEvents leave no gap.
LEMMA NoGap ==
  ASSUME TypeOK, NEW from \in Nat, NEW log \in OnChain, log.blockNumber >= from
  PROVE  log \in MissedEvents(from)
<1>1. PICK b \in 1..Len(chain) : b = log.blockNumber
  BY OnChainIs
<1>2. Len(chain) \in Nat /\ MAX_EPOCHS \in Nat /\ b \in Nat /\ b >= from
  BY <1>1, Kinds, BoundsAssumption
<1> DEFINE m == MAX_EPOCHS + 1
           k == (b - from) \div m
           s == from + k * m
<1>3. m \in Nat /\ m > 0 /\ b - from \in Nat
  BY <1>2
<1>4. k \in Nat /\ k <= b - from /\ k * m <= b - from /\ b - from < k * m + m
  <2> DEFINE d == b - from
  <2>1. d \in Nat
    BY <1>3
  <2> HIDE DEF d, m
  <2>2. d \div m \in Nat /\ (d \div m) * m <= d /\ d < (d \div m) * m + m
    BY <1>3, <2>1
  <2>3. d \div m <= d
    BY <1>3, <2>1
  <2>4. QED
    BY <2>2, <2>3 DEF d
<1> HIDE DEF k
<1>5. k \in 0..Len(chain)
  BY <1>1, <1>2, <1>4
<1>6. k * m \in Nat /\ m = MAX_EPOCHS + 1
  BY <1>3, <1>4
<1>7. s \in ChunkStarts(from)
  BY <1>5 DEF ChunkStarts
<1> HIDE DEF m
<1>8. s \in Nat /\ s <= b /\ b <= s + MAX_EPOCHS
  BY <1>2, <1>4, <1>6
<1> HIDE DEF s
<1>9. ChunkEnd(s) \in Nat /\ b <= ChunkEnd(s)
  BY <1>1, <1>2, <1>8 DEF ChunkEnd
<1>10. log.blockNumber \in s..ChunkEnd(s)
  BY <1>1, <1>2, <1>8, <1>9
<1>11. QED
  BY <1>7, <1>10 DEF MissedEvents

\* What is yet to fetch stays so while the next resubscription asks from no
\* later block.
LEMMA FetchStays ==
  ASSUME NEW log, IsYetToFetch(log),
         ~ provider.connected => ~ provider'.connected,
         SeqSet(provider'.heads) \subseteq SeqSet(provider.heads),
         tracker'.latestBlockNum = tracker.latestBlockNum,
         \A i \in DOMAIN resubs : \E j \in DOMAIN resubs' : resubs'[j].from = resubs[i].from
  PROVE  IsYetToFetch(log)'
<1>1. LastConfirmedBlockNum' = LastConfirmedBlockNum
  BY DEF LastConfirmedBlockNum
<1>2. QED
  BY <1>1 DEF IsYetToFetch

\* A step that loses no log of the node, and leaves the chain as it is.
LEMMA DeliveryRest ==
  ASSUME DeliveryInv, NeverEnded, chain' = chain, up' = up, tracker'.mu # "start",
         \A log \in OnChain : log \in Reached \cup Held => log \in Reached' \cup Held',
         \A log \in OnChain :
           IsYetToFetch(log) => log \in Reached' \cup Held' \/ IsYetToFetch(log)'
  PROVE  DeliveryInv'
<1>1. OnChain' = OnChain
  BY DEF OnChain
<1>2. /\ up
      /\ \A log \in OnChain : log \in Reached \cup Held \/ IsYetToFetch(log)
  BY DEF DeliveryInv
<1>3. \A log \in OnChain' : log \in Reached' \cup Held' \/ IsYetToFetch(log)'
  BY <1>1, <1>2
<1>4. QED
  BY <1>2, <1>3 DEF DeliveryInv

\* What the node holds is in the feed, the heap or a batch.
LEMMA HeldParts ==
  /\ Held = SeqSet(provider.feed) \cup BagToSet(tracker.events) \cup Batches
  /\ Held' = SeqSet(provider'.feed) \cup BagToSet(tracker'.events) \cup Batches'
BY DEF Held, Batches

\* The chain moves: what is new on it is delivered, or the subscription is broken
\* and the block is younger than the last confirmed one.
LEMMA DeliveryMoves ==
  ASSUME TypeOK, EventsInv, BlocksInv, SubscriptionInv, DeliveryInv, NeverEnded,
         ChainMoves, Delivers,
         UNCHANGED <<tracker, listener, resubs, out, handling, store, up>>
  PROVE  DeliveryInv'
<1>1. /\ Len(chain) \in Nat /\ tracker.latestBlockNum \in Nat
      /\ tracker.latestBlockNum <= Len(chain) /\ provider.connected \in BOOLEAN
  BY DEF TypeOK, BlocksInv, Provider
<1>2. PICK logs \in SUBSET Logs, numbers \in Seq(Nat) :
        /\ IsFiniteSet(logs) /\ Deliver(logs, numbers)
        /\ OnChain' \subseteq OnChain \cup logs
  BY DEF Delivers
<1>3. /\ ~ provider.connected => provider' = provider
      /\ provider'.connected = provider.connected
      /\ SeqSet(provider.feed) \subseteq SeqSet(provider'.feed)
      /\ provider.connected /\ provider.subs > 0 => logs \subseteq SeqSet(provider'.feed)
  BY <1>2, Delivered
<1>4. LastConfirmedBlockNum' = LastConfirmedBlockNum
  BY DEF LastConfirmedBlockNum
<1>5. Reached' = Reached /\ Batches' = Batches
  BY DEF Reached, Batches
<1>6. Held \subseteq Held'
  BY <1>3, <1>5, HeldParts
<1>7. ASSUME NEW log \in OnChain, IsYetToFetch(log) PROVE IsYetToFetch(log)'
  BY <1>3, <1>4, <1>7 DEF IsYetToFetch
<1>8. ASSUME NEW log \in OnChain', log \notin OnChain
      PROVE  log \in Held' \/ IsYetToFetch(log)'
  <2>1. log \in logs /\ log \in Logs
    BY <1>2, <1>8
  <2>2. CASE provider.connected
    BY <1>3, <2>1, <2>2, HeldParts DEF SubscriptionInv
  <2>3. CASE ~ provider.connected
    <3>1. log.blockNumber \in Nat /\ log.blockNumber > Len(chain) - 2
      BY <1>8, <2>1, LogsStay DEF Logs, REQUIRED_BLOCK_CONFIRMATIONS
    <3>2. LastConfirmedBlockNum \in Nat /\ log.blockNumber >= LastConfirmedBlockNum
      BY <1>1, <3>1, LastConfirmedIs
    <3>3. \A number \in SeqSet(provider.heads) : number \in Nat /\ number <= Len(chain)
      BY Kinds, SetOfSeq DEF BlocksInv
    <3>4. \A number \in SeqSet(provider.heads) :
            log.blockNumber >= number - REQUIRED_BLOCK_CONFIRMATIONS
      BY <1>1, <3>1, <3>3 DEF REQUIRED_BLOCK_CONFIRMATIONS
    <3>5. QED
      BY <1>3, <1>4, <2>3, <3>2, <3>4 DEF IsYetToFetch
  <2>4. QED
    BY <1>1, <2>2, <2>3
<1>9. up /\ tracker.mu # "start"
      /\ \A log \in OnChain : log \in Reached \cup Held \/ IsYetToFetch(log)
  BY DEF DeliveryInv
<1>10. \A log \in OnChain' : log \in Reached' \cup Held' \/ IsYetToFetch(log)'
  BY <1>5, <1>6, <1>7, <1>8, <1>9
<1>11. QED
  BY <1>9, <1>10 DEF DeliveryInv

\* The listeners: a log is in the next place before it leaves one, and what is
\* dropped is not on the chain.
LEMMA DeliveryTracks ==
  ASSUME TypeOK, TypeOK', BlocksInv, DeliveryInv, NeverEnded, TrackEvents
  PROVE  DeliveryInv'
<1>1. up' = up /\ chain' = chain /\ tracker'.mu # "start"
  <2>1. tracker.mu # "start" /\ DOMAIN tracker = {"latestBlockNum", "events", "mu"}
    BY DEF DeliveryInv, TypeOK
  <2>2. ASSUME NEW l \in Listeners, NEW log \in Ripe, Pop(l, log)
        PROVE  up' = up /\ chain' = chain /\ tracker'.mu # "start"
    BY <2>1, <2>2 DEF Pop
  <2>3. ASSUME NEW l \in Listeners, Release(l) \/ Dispatch(l) \/ Dispatched(l)
        PROVE  up' = up /\ chain' = chain /\ tracker'.mu # "start"
    BY <2>1, <2>3 DEF Release, Dispatch, Dispatched
  <2>4. CASE ListenForEventLogs \/ ListenForNewBlocks
    BY <2>1, <2>4 DEF ListenForEventLogs, ListenForNewBlocks
  <2>5. QED
    BY <2>2, <2>3, <2>4 DEF TrackEvents
<1> DEFINE kept == \A log \in OnChain : log \in Reached \cup Held => log \in Reached' \cup Held'
           asked == \A log \in OnChain : IsYetToFetch(log) => IsYetToFetch(log)'
<1>2. ASSUME kept, asked PROVE DeliveryInv'
  BY <1>1, <1>2, DeliveryRest
<1>3. ASSUME SeqSet(provider'.heads) = SeqSet(provider.heads), resubs' = resubs,
             provider'.connected = provider.connected,
             tracker'.latestBlockNum = tracker.latestBlockNum
      PROVE  asked
  BY <1>3, FetchStays
<1>4. CASE ListenForEventLogs
  <2> DEFINE h == Head(provider.feed)
  <2>1. /\ provider.feed \in Seq(Logs) /\ provider.feed # <<>>
        /\ provider'.feed = Tail(provider.feed) /\ provider'.heads = provider.heads
        /\ provider'.connected = provider.connected
        /\ tracker'.events = tracker.events (+) SetToBag({h})
        /\ tracker'.latestBlockNum = tracker.latestBlockNum /\ resubs' = resubs
    BY <1>4, Kinds DEF TypeOK, ListenForEventLogs, Provider
  <2>2. SeqSet(provider.feed) = {h} \cup SeqSet(provider'.feed)
    BY <2>1, SetOfTail
  <2>3. BagToSet(tracker'.events) = BagToSet(tracker.events) \cup {h}
    BY <2>1, Kinds, Pushed
  <2>4. \A l \in Listeners : listener'[l].batch = listener[l].batch
    BY <1>4 DEF TypeOK, ListenForEventLogs, Listener, Listeners
  <2>5. Reached' = Reached /\ Batches' = Batches
    BY <1>4, <2>4 DEF ListenForEventLogs, Reached, Batches
  <2> HIDE DEF h
  <2>6. kept
    BY <2>2, <2>3, <2>5, HeldParts
  <2>7. asked
    BY <1>3, <2>1
  <2>8. QED
    BY <1>2, <2>6, <2>7
<1>5. CASE ListenForNewBlocks
  <2> DEFINE h == Head(provider.heads)
  <2>1. /\ provider.heads \in Seq(Nat) /\ provider.heads # <<>>
        /\ provider'.heads = Tail(provider.heads) /\ provider'.feed = provider.feed
        /\ provider'.connected = provider.connected
        /\ tracker'.events = tracker.events /\ resubs' = resubs
        /\ tracker'.latestBlockNum = Later(h, tracker.latestBlockNum)
    BY <1>5, Kinds DEF TypeOK, ListenForNewBlocks, Provider
  <2>2. h \in Nat /\ SeqSet(provider.heads) = {h} \cup SeqSet(provider'.heads)
    BY <2>1, SetOfTail
  <2>3. \A l \in Listeners : listener'[l].batch = listener[l].batch
    BY <1>5 DEF TypeOK, ListenForNewBlocks, Listener, Listeners
  <2>4. Reached' = Reached /\ Batches' = Batches
    BY <1>5, <2>3 DEF ListenForNewBlocks, Reached, Batches
  <2> HIDE DEF h
  <2>5. kept
    BY <2>1, <2>4, HeldParts
  <2>6. ASSUME NEW log \in OnChain, IsYetToFetch(log) PROVE IsYetToFetch(log)'
    <3>1. CASE \E i \in DOMAIN resubs : log.blockNumber >= resubs[i].from
      BY <2>1, <3>1 DEF IsYetToFetch
    <3>2. CASE /\ ~ provider.connected /\ log.blockNumber >= LastConfirmedBlockNum
               /\ \A number \in SeqSet(provider.heads) :
                    log.blockNumber >= number - REQUIRED_BLOCK_CONFIRMATIONS
      <4>1. log.blockNumber \in Nat /\ tracker.latestBlockNum \in Nat
        BY OnChainIs DEF TypeOK
      <4>2. log.blockNumber >= h - 2
        BY <2>2, <3>2 DEF REQUIRED_BLOCK_CONFIRMATIONS
      <4>3. log.blockNumber >= LastConfirmedBlockNum'
        BY <2>1, <2>2, <3>2, <4>1, <4>2
           DEF LastConfirmedBlockNum, Later, REQUIRED_BLOCK_CONFIRMATIONS
      <4>4. QED
        BY <2>1, <2>2, <3>2, <4>3 DEF IsYetToFetch
    <3>3. QED
      BY <2>6, <3>1, <3>2 DEF IsYetToFetch
  <2>7. QED
    BY <1>2, <2>5, <2>6
<1>6. ASSUME NEW l \in Listeners, NEW log \in Ripe, Pop(l, log) PROVE DeliveryInv'
  <2>1. /\ tracker'.events = tracker.events (-) SetToBag({log})
        /\ tracker'.latestBlockNum = tracker.latestBlockNum
        /\ UNCHANGED <<chain, provider, resubs, out, handling, store>>
    BY <1>6 DEF Pop, TypeOK
  <2>2. BagToSet(tracker.events) \subseteq BagToSet(tracker'.events) \cup {log}
    BY <2>1, Kinds, Popped
  <2>3. Reached' = Reached
    BY <2>1 DEF Reached
  <2>4. \A k \in Listeners : SeqSet(listener[k].batch) \subseteq SeqSet(listener'[k].batch)
    <3>1. CASE IsStillOnChain(log)
      <4>1. /\ listener'[l].batch = Append(listener[l].batch, log)
            /\ \A k \in Listeners : k # l => listener'[k] = listener[k]
        BY <1>6, <3>1, Kinds DEF Pop, TypeOK, Listener
      <4>2. log \in Logs /\ listener[l].batch \in Seq(Logs)
        BY Kinds DEF Ripe, Tops
      <4>3. SeqSet(listener'[l].batch) = SeqSet(listener[l].batch) \cup {log}
        BY <4>1, <4>2, SetOfAppend
      <4>4. QED
        BY <4>1, <4>3
    <3>2. CASE ~ IsStillOnChain(log)
      BY <1>6, <3>2 DEF Pop
    <3>3. QED
      BY <3>1, <3>2
  <2>5. Batches \subseteq Batches'
    BY <2>4 DEF Batches
  <2>6. log \in OnChain => log \in Batches'
    <3>1. ASSUME log \in OnChain PROVE IsStillOnChain(log)
      BY <3>1, OnChainIs DEF IsStillOnChain
    <3>2. ASSUME IsStillOnChain(log) PROVE log \in SeqSet(listener'[l].batch)
      <4>1. listener'[l].batch = Append(listener[l].batch, log)
        BY <1>6, <3>2, Kinds DEF Pop, TypeOK, Listener
      <4>2. log \in Logs /\ listener[l].batch \in Seq(Logs)
        BY Kinds DEF Ripe, Tops
      <4>3. QED
        BY <4>1, <4>2, SetOfAppend
    <3>3. QED
      BY <3>1, <3>2 DEF Batches
  <2>7. kept
    BY <2>1, <2>2, <2>3, <2>5, <2>6, HeldParts
  <2>8. QED
    BY <1>2, <1>3, <2>1, <2>7
<1>7. ASSUME NEW l \in Listeners, Release(l) PROVE DeliveryInv'
  <2>1. /\ tracker'.events = tracker.events /\ tracker'.latestBlockNum = tracker.latestBlockNum
        /\ UNCHANGED <<provider, resubs, out, handling, store>>
    BY <1>7 DEF Release, TypeOK
  <2>2. \A k \in Listeners : listener'[k].batch = listener[k].batch
    BY <1>7, Kinds DEF TypeOK, Release, Listener
  <2>3. Reached' = Reached /\ Batches' = Batches
    BY <2>1, <2>2 DEF Reached, Batches
  <2>4. kept
    BY <2>1, <2>3, HeldParts
  <2>5. QED
    BY <1>2, <1>3, <2>1, <2>4
<1>8. ASSUME NEW l \in Listeners, Dispatch(l) PROVE DeliveryInv'
  <2> DEFINE h == Head(listener[l].batch)
  <2>1. /\ listener[l].batch \in Seq(Logs) /\ listener[l].batch # <<>>
        /\ listener'[l].batch = Tail(listener[l].batch) /\ out' = Append(out, h)
        /\ \A k \in Listeners : k # l => listener'[k] = listener[k]
        /\ UNCHANGED <<provider, tracker, resubs, handling, store>>
    BY <1>8, Kinds DEF Dispatch, TypeOK, Listener
  <2>2. h \in Logs /\ SeqSet(listener[l].batch) = {h} \cup SeqSet(listener'[l].batch)
    BY <2>1, SetOfTail
  <2>3. out \in Seq(Logs)
    BY Kinds
  <2> HIDE DEF h
  <2>4. SeqSet(out') = SeqSet(out) \cup {h}
    BY <2>1, <2>2, <2>3, SetOfAppend
  <2>5. Reached' = Reached \cup {h}
    BY <2>1, <2>4 DEF Reached
  <2>6. Batches \subseteq Batches' \cup {h}
    <3>1. ASSUME NEW k \in Listeners
          PROVE  SeqSet(listener[k].batch) \subseteq SeqSet(listener'[k].batch) \cup {h}
      BY <2>1, <2>2
    <3>2. QED
      BY <3>1 DEF Batches
  <2>7. kept
    BY <2>1, <2>5, <2>6, HeldParts
  <2>8. QED
    BY <1>2, <1>3, <2>1, <2>7
<1>9. ASSUME NEW l \in Listeners, Dispatched(l) PROVE DeliveryInv'
  <2>1. /\ \A k \in Listeners : listener'[k].batch = listener[k].batch
        /\ UNCHANGED <<provider, tracker, resubs, out, handling, store>>
    BY <1>9 DEF Dispatched, TypeOK, Idle
  <2>2. Reached' = Reached /\ Batches' = Batches
    BY <2>1 DEF Reached, Batches
  <2>3. kept
    BY <2>1, <2>2, HeldParts
  <2>4. QED
    BY <1>2, <1>3, <2>1, <2>3
<1>10. QED
  BY <1>4, <1>5, <1>6, <1>7, <1>8, <1>9 DEF TrackEvents

\* The resubscription asks from the block it noted, and no log is older.
LEMMA DeliveryRenews ==
  ASSUME TypeOK, TypeOK', BlocksInv, DeliveryInv, NeverEnded,
         SubscriptionBreaks \/ RenewSubscription \/ AttemptFails
  PROVE  DeliveryInv'
<1>1. /\ DOMAIN resubs = 1..Len(resubs) /\ DOMAIN resubs' = 1..Len(resubs')
      /\ provider \in Provider /\ Len(resubs) \in Nat /\ Len(resubs') \in Nat
      /\ tracker.mu # "start" /\ DOMAIN tracker = {"latestBlockNum", "events", "mu"}
  BY DEF TypeOK, DeliveryInv
<1> DEFINE same == /\ UNCHANGED <<chain, up, listener, out, handling, store>>
                   /\ provider'.feed = provider.feed /\ provider'.heads = provider.heads
                   /\ tracker'.latestBlockNum = tracker.latestBlockNum
                   /\ tracker'.mu # "start"
           froms == \A i \in DOMAIN resubs :
                      \E j \in DOMAIN resubs' : resubs'[j].from = resubs[i].from
           asked == \A log \in OnChain :
                      IsYetToFetch(log) => log \in BagToSet(tracker'.events) \/ IsYetToFetch(log)'
<1>2. ASSUME same, BagToSet(tracker.events) \subseteq BagToSet(tracker'.events), asked
      PROVE  DeliveryInv'
  <2>1. Reached' = Reached /\ Batches' = Batches
    BY <1>2 DEF Reached, Batches
  <2>2. Held \subseteq Held' /\ BagToSet(tracker'.events) \subseteq Held'
    BY <1>2, <2>1, HeldParts
  <2>3. \A log \in OnChain : log \in Reached \cup Held => log \in Reached' \cup Held'
    BY <2>1, <2>2
  <2>4. \A log \in OnChain : IsYetToFetch(log) => log \in Reached' \cup Held' \/ IsYetToFetch(log)'
    BY <1>2, <2>2
  <2>5. chain' = chain /\ up' = up /\ tracker'.mu # "start"
    BY <1>2
  <2>6. QED
    BY <2>3, <2>4, <2>5, DeliveryRest
<1>3. ASSUME same, tracker'.events = tracker.events, froms,
             ~ provider.connected => ~ provider'.connected
      PROVE  DeliveryInv'
  <2>1. asked
    BY <1>3, FetchStays
  <2>2. QED
    BY <1>2, <1>3, <2>1
<1>4. CASE SubscriptionBreaks
  <2>1. /\ same /\ tracker'.events = tracker.events /\ ~ provider'.connected
        /\ resubs' = resubs
    BY <1>1, <1>4 DEF SubscriptionBreaks, Provider
  <2>2. QED
    BY <1>3, <2>1
<1>5. CASE ListenForSubscriptionError
  <2>1. PICK r \in Resubscription :
          /\ Len(resubs') = Len(resubs) + 1
          /\ \A i \in 1..Len(resubs) : resubs'[i] = resubs[i]
    BY <1>5, QueueGrows
  <2>2. froms
    BY <1>1, <2>1
  <2>3. /\ same /\ tracker'.events = tracker.events
        /\ provider'.connected = provider.connected
    BY <1>1, <1>5 DEF ListenForSubscriptionError, Provider
  <2>4. QED
    BY <1>3, <2>2, <2>3
<1>6. ASSUME BeginResubscription \/ Resubscribe \/ AttemptFails
      PROVE  \A i \in 1..Len(resubs) : i \in 1..Len(resubs') /\ resubs'[i].from = resubs[i].from
  BY <1>6, QueueGoesOn
<1>7. CASE BeginResubscription
  <2>1. froms
    BY <1>1, <1>6, <1>7
  <2>2. /\ same /\ tracker'.events = tracker.events
        /\ provider'.connected = provider.connected
    BY <1>1, <1>7 DEF BeginResubscription, Provider
  <2>3. QED
    BY <1>3, <2>1, <2>2
<1>8. CASE AttemptFails
  <2>1. froms
    BY <1>1, <1>6, <1>8
  <2>2. same /\ tracker'.events = tracker.events /\ provider' = provider
    BY <1>1, <1>8 DEF AttemptFails
  <2>3. QED
    BY <1>3, <2>1, <2>2
<1>9. CASE Resubscribe
  <2>1. same /\ tracker'.events = tracker.events
    BY <1>1, <1>9 DEF Resubscribe, Provider
  <2>2. 1 \in DOMAIN resubs /\ 1 \in DOMAIN resubs' /\ resubs'[1].from = resubs[1].from
    BY <1>1, <1>9, QueueGoesOn
  <2>3. resubs[1].from \in Nat /\ resubs[1].from <= LastConfirmedBlockNum
    <3>1. resubs[1] \in Resubscription
      BY <1>1, <2>2, Kinds
    <3>2. QED
      BY <2>2, <3>1 DEF BlocksInv, Resubscription
  <2>4. ASSUME NEW log \in OnChain, IsYetToFetch(log) PROVE IsYetToFetch(log)'
    <3>1. CASE \E i \in DOMAIN resubs : log.blockNumber >= resubs[i].from
      BY <1>1, <1>6, <1>9, <3>1 DEF IsYetToFetch
    <3>2. CASE log.blockNumber >= LastConfirmedBlockNum
      <4>1. log.blockNumber >= resubs[1].from
        BY <2>3, <3>2, OnChainIs, LastConfirmedIs
      <4>2. QED
        BY <2>2, <4>1 DEF IsYetToFetch
    <3>3. QED
      BY <2>4, <3>1, <3>2 DEF IsYetToFetch
  <2>5. QED
    BY <1>2, <2>1, <2>4
<1>10. CASE FinishResubscription
  <2>1. /\ Len(resubs') = Len(resubs) - 1 /\ Len(resubs) > 0
        /\ \A i \in 1..Len(resubs') : resubs'[i] = resubs[i + 1]
    BY <1>10, QueueShrinks
  <2>2. /\ same /\ provider' = provider
        /\ tracker'.events = tracker.events (+) SetToBag(MissedEvents(resubs[1].from))
    BY <1>1, <1>10 DEF FinishResubscription
  <2>3. BagToSet(tracker'.events)
          = BagToSet(tracker.events) \cup MissedEvents(resubs[1].from)
    BY <2>2, Kinds, Pushed
  <2>4. resubs[1].from \in Nat
    <3>1. resubs[1] \in Resubscription
      BY <1>1, <2>1, Kinds
    <3>2. QED
      BY <3>1 DEF Resubscription
  <2>5. LastConfirmedBlockNum' = LastConfirmedBlockNum
    BY <2>2 DEF LastConfirmedBlockNum
  <2>6. ASSUME NEW log \in OnChain, IsYetToFetch(log)
        PROVE  log \in BagToSet(tracker'.events) \/ IsYetToFetch(log)'
    <3>1. ASSUME NEW i \in DOMAIN resubs, log.blockNumber >= resubs[i].from
          PROVE  log \in BagToSet(tracker'.events) \/ IsYetToFetch(log)'
      <4>1. CASE i = 1
        BY <2>3, <2>4, <3>1, <4>1, NoGap
      <4>2. CASE i # 1
        <5>1. i - 1 \in DOMAIN resubs' /\ resubs'[i - 1] = resubs[i]
          BY <1>1, <2>1, <4>2
        <5>2. QED
          BY <3>1, <5>1 DEF IsYetToFetch
      <4>3. QED
        BY <4>1, <4>2
    <3>2. CASE /\ ~ provider.connected /\ log.blockNumber >= LastConfirmedBlockNum
               /\ \A number \in SeqSet(provider.heads) :
                    log.blockNumber >= number - REQUIRED_BLOCK_CONFIRMATIONS
      BY <2>2, <2>5, <3>2 DEF IsYetToFetch
    <3>3. QED
      BY <2>6, <3>1, <3>2 DEF IsYetToFetch
  <2>7. QED
    BY <1>2, <2>2, <2>3, <2>6
<1>11. QED
  BY <1>4, <1>5, <1>7, <1>8, <1>9, <1>10 DEF RenewSubscription

\* And so every step: the process ends only by a stop or a failure.
LEMMA DeliveryNext ==
  ASSUME TypeOK, TypeOK', EventsInv, BlocksInv, SubscriptionInv, DeliveryInv, [Next]_vars
  PROVE  DeliveryInv'
<1>1. SUFFICES ASSUME NeverEnded' PROVE DeliveryInv'
  BY DEF DeliveryInv
<1>2. spent'.stops = 0 /\ spent'.failures = 0
  BY <1>1 DEF NeverEnded
<1>3. CASE spent' = spent
  <2>1. NeverEnded
    BY <1>2, <1>3 DEF NeverEnded
  <2>2. up /\ tracker.mu # "start"
    BY <2>1 DEF DeliveryInv
  <2>3. CASE UNCHANGED vars
    <3>1. Reached' = Reached /\ Batches' = Batches /\ Held' = Held
      BY <2>3 DEF vars, Reached, Batches, Held
    <3>2. \A log \in OnChain : IsYetToFetch(log) => IsYetToFetch(log)'
      BY <2>3, FetchStays DEF vars
    <3>3. QED
      BY <2>1, <2>2, <2>3, <3>1, <3>2, DeliveryRest DEF vars
  <2>4. ASSUME NEW tx \in Txs \cup {NoTx}, Mine(tx) PROVE DeliveryInv'
    BY <2>1, <2>4, MineMoves, DeliveryMoves DEF Mine
  <2>5. CASE Start \/ FinishStart
    BY <2>2, <2>5 DEF Start, FinishStart
  <2>6. CASE TakeEvent
    <3> DEFINE h == Head(out)
    <3>1. /\ out \in Seq(Logs) /\ out # <<>> /\ out' = Tail(out) /\ handling' = <<h>>
          /\ handling = <<>> /\ store'.handled = store.handled
          /\ UNCHANGED <<chain, provider, tracker, listener, resubs, up>>
      BY <2>6, Kinds DEF TakeEvent, Store
    <3>2. SeqSet(out) = {h} \cup SeqSet(out') /\ SeqSet(handling) = {}
      BY <3>1, SetOfTail, SetOfEmpty
    <3>3. SeqSet(handling') = {h}
      BY <3>1 DEF SeqSet
    <3> HIDE DEF h
    <3>4. Reached' = Reached /\ Held' = Held
      BY <3>1, <3>2, <3>3 DEF Reached, Held
    <3>5. \A log \in OnChain : IsYetToFetch(log) => IsYetToFetch(log)'
      BY <3>1, FetchStays
    <3>6. QED
      BY <2>1, <2>2, <3>1, <3>4, <3>5, DeliveryRest
  <2>7. CASE HandleChainEvent
    <3>1. /\ handling \in Seq(Logs) /\ Len(handling) <= 1 /\ handling # <<>>
          /\ store'.handled = store.handled \cup {handling[1]}
          /\ UNCHANGED <<chain, provider, tracker, listener, resubs, out, up>>
      BY <2>7, Kinds DEF TypeOK, HandleChainEvent, Store
    <3>2. SeqSet(handling) = {handling[1]}
      BY <3>1 DEF SeqSet
    <3>3. Reached \subseteq Reached' /\ Held' = Held
      BY <3>1, <3>2 DEF Reached, Held
    <3>4. \A log \in OnChain : IsYetToFetch(log) => IsYetToFetch(log)'
      BY <3>1, FetchStays
    <3>5. QED
      BY <2>1, <2>2, <3>1, <3>3, <3>4, DeliveryRest
  <2>8. CASE TrackEvents
    BY <2>1, <2>8, DeliveryTracks
  <2>9. CASE BeginResubscription \/ Resubscribe \/ FinishResubscription \/ AttemptFails
    BY <2>1, <2>9, DeliveryRenews DEF RenewSubscription
  <2>10. ASSUME NEW what, Spend(what),
                what \in {"txs", "reorgs", "failures", "breaks", "resubs", "ticks", "stops"}
         PROVE  FALSE
    BY <1>3, <2>10, SpendType
  <2>11. QED
    BY <2>3, <2>4, <2>5, <2>6, <2>7, <2>8, <2>9, <2>10
       DEF Next, Serve, RenewSubscription, Reorganise, ListenForSubscriptionError,
       SubscriptionBreaks, BlockTicker, ResubscriptionFails, RequestFails, Stop
<1>4. CASE Stop \/ RequestFails \/ ResubscriptionFails
  <2>1. PICK what \in {"stops", "failures"} : Spend(what)
    BY <1>4 DEF Stop, RequestFails, ResubscriptionFails
  <2>2. spent'[what] = spent[what] + 1 /\ spent[what] \in Nat
    BY <2>1, SpendType
  <2>3. QED
    BY <1>2, <2>2
<1>5. ASSUME NEW what \in {"reorgs", "breaks", "resubs", "ticks"}, Spend(what) PROVE NeverEnded
  BY <1>2, <1>5, SpendType DEF NeverEnded
<1>6. ASSUME NEW depth \in 1..REQUIRED_BLOCK_CONFIRMATIONS,
             NEW keep \in 0..REQUIRED_BLOCK_CONFIRMATIONS, Reorganise(depth, keep)
      PROVE  DeliveryInv'
  <2>1. NeverEnded
    BY <1>5, <1>6 DEF Reorganise
  <2>2. QED
    BY <1>6, <2>1, ReorganiseMoves, DeliveryMoves DEF Reorganise
<1>7. CASE SubscriptionBreaks \/ ListenForSubscriptionError
  <2>1. NeverEnded
    BY <1>5, <1>7 DEF SubscriptionBreaks, ListenForSubscriptionError
  <2>2. QED
    BY <1>7, <2>1, DeliveryRenews DEF RenewSubscription
<1>8. CASE BlockTicker
  <2>1. NeverEnded /\ up /\ tracker.mu # "start"
    BY <1>5, <1>8 DEF BlockTicker, DeliveryInv
  <2>2. /\ store'.handled = store.handled
        /\ UNCHANGED <<chain, provider, tracker, listener, resubs, out, handling, up>>
    BY <1>8, Kinds DEF BlockTicker, Store
  <2>3. Reached' = Reached /\ Held' = Held
    BY <2>2 DEF Reached, Held
  <2>4. \A log \in OnChain : IsYetToFetch(log) => IsYetToFetch(log)'
    BY <2>2, FetchStays
  <2>5. QED
    BY <2>1, <2>2, <2>3, <2>4, DeliveryRest
<1>9. QED
  <2>1. ASSUME NEW tx, Mine(tx) PROVE spent' = spent
    BY <2>1 DEF Mine, bounds
  <2>2. ASSUME TakeEvent \/ HandleChainEvent \/ Start \/ FinishStart \/ AttemptFails
               \/ BeginResubscription \/ Resubscribe \/ FinishResubscription \/ UNCHANGED vars
        PROVE  spent' = spent
    BY <2>2 DEF TakeEvent, HandleChainEvent, Start, FinishStart, AttemptFails,
       BeginResubscription, Resubscribe, FinishResubscription, vars, bounds
  <2>3. ASSUME TrackEvents PROVE spent' = spent
    BY <2>3 DEF TrackEvents, ListenForEventLogs, ListenForNewBlocks, Pop, Release, Dispatch,
       Dispatched, bounds
  <2>4. QED
    BY <1>3, <1>4, <1>6, <1>7, <1>8, <2>1, <2>2, <2>3 DEF Next, Serve, RenewSubscription

-----------------------------------------------------------------------------
(***************************************************************************)
(* The order of events, step by step.                                      *)
(***************************************************************************)
\* What a log says of itself.
LEMMA LogKinds ==
  \A log \in Logs : /\ log.blockNumber \in Nat /\ log.blockHash \in Nat /\ log.held \in Nat
                     /\ log.channel \in Channels
BY BoundsAssumption DEF Logs

\* Wherever there is a log, it is one of the contract's.
LEMMA PlacesHoldLogs ==
  ASSUME TypeOK
  PROVE  /\ SeqSet(provider.feed) \subseteq Logs /\ BagToSet(tracker.events) \subseteq Logs
         /\ Batches \subseteq Logs /\ Reached \subseteq Logs /\ OnChain \subseteq Logs
         /\ \A l \in Listeners : SeqSet(listener[l].batch) \subseteq Logs
         /\ SeqSet(out) \subseteq Logs /\ SeqSet(handling) \subseteq Logs /\ store.handled \subseteq Logs
<1>1. /\ SeqSet(provider.feed) \subseteq Logs /\ BagToSet(tracker.events) \subseteq Logs
      /\ \A l \in Listeners : SeqSet(listener[l].batch) \subseteq Logs
      /\ SeqSet(out) \subseteq Logs /\ SeqSet(handling) \subseteq Logs /\ store.handled \subseteq Logs
  BY Kinds, SetOfSeq
<1>2. QED
  BY <1>1, OnChainIs DEF Batches, Reached

\* To one subscription, what is delivered comes once and in its order.
LEMMA DeliveredInOrder ==
  ASSUME TypeOK, NEW logs \in SUBSET Logs, IsFiniteSet(logs), NEW numbers \in Seq(Nat),
         Deliver(logs, numbers), provider.connected, provider.subs = 1
  PROVE  \E more \in Seq(Logs) :
           /\ SeqSet(more) = logs /\ IsMinedInOrder(more)
           /\ provider'.feed = provider.feed \o more
           /\ provider'.heads = provider.heads \o numbers
           /\ provider'.connected = provider.connected /\ provider'.subErr = provider.subErr
<1>1. ASSUME NEW S, NEW s \in Seq(S) PROVE Repeated(s, 1) = s
  <2>1. Len(s) \in Nat /\ DOMAIN s = 1..Len(s) /\ Len(s) * 1 = Len(s)
    OBVIOUS
  <2>2. \A i \in 1..Len(s) : ((i - 1) \div 1) + 1 = i
    BY <2>1
  <2>3. Repeated(s, 1) = [i \in 1..Len(s) |-> s[i]]
    BY <2>1, <2>2 DEF Repeated
  <2>4. QED
    BY <2>1, <2>3
<1> DEFINE more == LogsAsSeq(logs)
<1>2. more \in Seq(logs) /\ SeqSet(more) = logs /\ IsMinedInOrder(more)
  BY LogsAsSeqIs
<1>3. more \in Seq(Logs)
  BY <1>2, SeqDef
<1>4. Repeated(more, 1) = more /\ Repeated(numbers, 1) = numbers
  BY <1>1, <1>2
<1>5. provider' = [provider EXCEPT !.feed = @ \o Repeated(more, 1),
                                   !.heads = @ \o Repeated(numbers, 1)]
  BY DEF Deliver
<1> HIDE DEF more
<1>6. provider' = [provider EXCEPT !.feed = provider.feed \o more,
                                   !.heads = provider.heads \o numbers]
  BY <1>4, <1>5
<1>7. provider \in Provider
  BY DEF TypeOK
<1>8. /\ provider'.feed = provider.feed \o more /\ provider'.heads = provider.heads \o numbers
      /\ provider'.connected = provider.connected /\ provider'.subErr = provider.subErr
  BY <1>6, <1>7 DEF Provider
<1>9. QED
  BY <1>2, <1>3, <1>8

\* How the chain moves, in view of the order: logs that are delivered and on the
\* chain are of new blocks, the hashes of new blocks rise with their numbers, and
\* no number is skipped.
MovesInOrder ==
  \E logs \in SUBSET Logs, numbers \in Seq(Nat) :
    /\ IsFiniteSet(logs) /\ Deliver(logs, numbers)
    /\ \A log \in logs \cap OnChain' : log.blockHash > mined
    /\ \A b, d \in 1..Len(chain') :
         mined < chain'[b].hash /\ chain'[b].hash <= chain'[d].hash => b <= d
    /\ \A number \in SeqSet(numbers) : number <= Len(chain) + 1
    /\ Len(chain') = Len(chain) \/ Len(chain') \in SeqSet(numbers)

\* The hashes of the blocks were mined.
LEMMA BlockHashes ==
  ASSUME TypeOK, EventsInv
  PROVE  \A b \in 1..Len(chain) : chain[b].hash \in Nat /\ chain[b].hash <= mined
<1>1. chain \in Seq(Block) /\ DOMAIN chain = 1..Len(chain)
  BY DEF TypeOK
<1>2. \A b \in 1..Len(chain) : chain[b] \in Block
  BY <1>1
<1>3. QED
  BY <1>1, <1>2 DEF EventsInv, Block

\* A mined block.
LEMMA MineInOrder ==
  ASSUME TypeOK, EventsInv, NEW tx \in Txs \cup {NoTx}, Mine(tx)
  PROVE  MovesInOrder
<1> DEFINE new == [hash |-> mined + 1, tx |-> tx]
           last == Len(chain')
           logs == LogsOf(chain', last)
           numbers == <<last>>
<1>1. /\ chain \in Seq(Block) /\ mined \in Nat /\ new \in Block /\ Len(chain) < MaxBlock
      /\ MaxBlock \in Nat
  BY BoundsAssumption DEF TypeOK, Block, Mine
<1>2. chain' = Append(chain, new) /\ Deliver(logs, numbers)
  BY DEF Mine
<1>3. /\ chain' \in Seq(Block) /\ last = Len(chain) + 1 /\ last \in Nat
      /\ \A n \in 1..Len(chain) : chain'[n] = chain[n]
      /\ chain'[last] = new /\ last <= MaxBlock /\ last \in 1..last
  BY <1>1, <1>2, AppendProperties
<1>4. new.hash = mined + 1
  OBVIOUS
<1> HIDE DEF new, last
<1>5. /\ logs \subseteq Logs
      /\ \A log \in logs : log.blockNumber = last /\ log.blockHash = chain'[last].hash
  BY <1>3, LogsOfIs DEF last
<1>6. \A log \in logs \cap OnChain' : log.blockHash > mined
  BY <1>1, <1>3, <1>4, <1>5
<1>7. IsFiniteSet(logs)
  BY LogsOfFinite
<1>8. ASSUME NEW b \in 1..last, NEW d \in 1..last,
             mined < chain'[b].hash, chain'[b].hash <= chain'[d].hash
      PROVE  b <= d
  <2>1. \A n \in 1..Len(chain) : chain[n].hash <= mined /\ chain[n].hash \in Nat
    BY BlockHashes
  <2>2. ASSUME d \in 1..Len(chain) PROVE FALSE
    <3>1. chain'[d].hash <= mined /\ chain'[d].hash \in Nat
      BY <1>3, <2>1, <2>2
    <3>2. CASE b \in 1..Len(chain)
      BY <1>1, <1>3, <1>8, <2>1, <3>2
    <3>3. CASE b = last
      BY <1>1, <1>3, <1>4, <1>8, <3>1, <3>3
    <3>4. QED
      BY <1>1, <1>3, <3>2, <3>3
  <2>3. QED
    BY <1>1, <1>3, <1>8, <2>2
<1>9. numbers \in Seq(Nat) /\ SeqSet(numbers) = {last}
  BY <1>3 DEF SeqSet
<1>10. Len(chain') = last
  BY DEF last
<1> HIDE DEF logs, numbers
<1>11. last <= Len(chain) + 1 /\ last \in SeqSet(numbers)
  BY <1>1, <1>3, <1>9
<1>12. QED
  BY <1>11, <1>2, <1>3, <1>5, <1>6, <1>7, <1>8, <1>9, <1>10 DEF MovesInOrder

\* A reorganisation.
LEMMA ReorganiseInOrder ==
  ASSUME TypeOK, EventsInv, NEW depth \in 1..REQUIRED_BLOCK_CONFIRMATIONS,
         NEW keep \in 0..REQUIRED_BLOCK_CONFIRMATIONS, Reorganise(depth, keep)
  PROVE  MovesInOrder
<1> DEFINE base == Len(chain) - depth
           block(b) == IF b <= base THEN chain[b]
                       ELSE [hash |-> mined + b - base,
                             tx |-> IF b <= base + keep THEN chain[b].tx ELSE NoTx]
           removed == UNION {LogsOf(chain, b) : b \in base + 1..Len(chain)}
           added == UNION {LogsOf(chain', b) : b \in base + 1..Len(chain)}
           logs == removed \cup added
           numbers == [i \in 1..depth |-> base + i]
<1>1. /\ chain \in Seq(Block) /\ mined \in Nat /\ Len(chain) \in Nat /\ Len(chain) <= MaxBlock
      /\ DOMAIN chain = 1..Len(chain)
  BY DEF TypeOK
<1>2. depth \in 1..2 /\ base \in Nat /\ base + depth = Len(chain)
  BY <1>1 DEF Reorganise, REQUIRED_BLOCK_CONFIRMATIONS
<1>3. chain' = [b \in 1..Len(chain) |-> block(b)] /\ Deliver(logs, numbers)
  BY <1>1 DEF Reorganise
<1>4. chain' \in Seq(Block) /\ Len(chain') = Len(chain)
  <2>1. ChainMoves
    BY ReorganiseMoves
  <2>2. DOMAIN chain' = 1..Len(chain)
    BY <1>3
  <2>3. QED
    BY <1>1, <2>1, <2>2 DEF ChainMoves
<1> HIDE DEF base
<1>5. \A b \in 1..Len(chain) : chain[b].hash \in Nat /\ chain[b].hash <= mined
  BY BlockHashes
<1>6. \A b \in 1..Len(chain) : IF b <= base THEN chain'[b] = chain[b]
                                            ELSE chain'[b].hash = mined + b - base
  BY <1>3
<1>7. \A b \in base + 1..Len(chain) : b \in 1..Len(chain) /\ ~ (b <= base)
  BY <1>1, <1>2
<1>8. logs \subseteq Logs
  BY <1>1, <1>4, <1>7, LogsOfIs
<1>9. IsFiniteSet(logs)
  <2>1. base + 1 \in Int /\ Len(chain) \in Int
    BY <1>1, <1>2
  <2>2. IsFiniteSet(removed) /\ IsFiniteSet(added)
    BY <2>1, LogsOfBlocksFinite
  <2> HIDE DEF removed, added
  <2>3. QED
    BY <2>2, FS_Union
<1>10. ASSUME NEW log \in logs, log \in OnChain' PROVE log.blockHash > mined
  <2>1. PICK b \in base + 1..Len(chain) : log \in LogsOf(chain, b) \/ log \in LogsOf(chain', b)
    BY <1>10
  <2>2. b \in 1..Len(chain) /\ chain'[b].hash = mined + b - base /\ b > base
    BY <1>1, <1>2, <1>6, <1>7
  <2>3. log.blockNumber = b
    BY <1>1, <1>4, <2>1, <2>2, LogsOfIs
  <2>4. PICK d \in 1..Len(chain) : log \in LogsOf(chain', d)
    BY <1>4, <1>10 DEF OnChain
  <2>5. log.blockNumber = d /\ log.blockHash = chain'[d].hash
    BY <1>1, <1>4, <2>4, LogsOfIs
  <2>6. log.blockHash = mined + b - base
    BY <2>2, <2>3, <2>5
  <2>7. QED
    BY <1>1, <1>2, <2>2, <2>6
<1>11. ASSUME NEW b \in 1..Len(chain), NEW d \in 1..Len(chain),
              mined < chain'[b].hash, chain'[b].hash <= chain'[d].hash
       PROVE  b <= d
  <2>1. b > base /\ chain'[b].hash = mined + b - base
    BY <1>1, <1>2, <1>5, <1>6, <1>11
  <2>2. CASE d <= base
    <3>1. chain'[d].hash <= mined /\ chain'[d].hash \in Nat
      BY <1>5, <1>6, <2>2
    <3>2. QED
      BY <1>1, <1>2, <1>11, <2>1, <3>1
  <2>3. CASE ~ (d <= base)
    <3>1. chain'[d].hash = mined + d - base
      BY <1>6, <2>3
    <3>2. QED
      BY <1>1, <1>2, <1>11, <2>1, <3>1
  <2>4. QED
    BY <2>2, <2>3
<1>12. numbers \in Seq(Nat) /\ \A number \in SeqSet(numbers) : number <= Len(chain) + 1
  <2>1. numbers \in [1..depth -> Nat] /\ \A i \in 1..depth : numbers[i] <= Len(chain) + 1
    BY <1>1, <1>2
  <2> HIDE DEF numbers
  <2>2. numbers \in Seq(Nat) /\ DOMAIN numbers = 1..depth
    BY <1>2, <2>1, SeqDef
  <2>3. QED
    BY <2>1, <2>2 DEF SeqSet
<1> HIDE DEF logs, numbers
<1>13. QED
  BY <1>3, <1>4, <1>8, <1>9, <1>10, <1>11, <1>12 DEF MovesInOrder

\* What is on the chain after it moved is of a new block, which is one of the
\* last, or it was on the chain before and is not above the new blocks.
LEMMA OldAndNew ==
  ASSUME TypeOK, EventsInv, ChainMoves
  PROVE  /\ OnChain' \subseteq Logs
         /\ \A log \in OnChain' :
              /\ log.blockNumber \in 1..Len(chain')
              /\ log.blockHash = chain'[log.blockNumber].hash
              /\ log.blockHash > mined => log.blockNumber > Len(chain) - REQUIRED_BLOCK_CONFIRMATIONS
              /\ log.blockHash <= mined =>
                   /\ log \in OnChain
                   /\ \A new \in OnChain' : new.blockHash > mined => log.blockNumber <= new.blockNumber
<1>1. /\ chain \in Seq(Block) /\ Len(chain) \in Nat /\ DOMAIN chain = 1..Len(chain)
      /\ chain' \in Seq(Block) /\ Len(chain') \in Nat /\ DOMAIN chain' = 1..Len(chain')
      /\ Len(chain) <= Len(chain') /\ Len(chain') <= MaxBlock /\ mined \in Nat
  BY DEF TypeOK, ChainMoves
<1>2. ASSUME NEW log \in OnChain'
      PROVE  /\ log \in Logs /\ log.blockNumber \in 1..Len(chain')
             /\ log.blockHash = chain'[log.blockNumber].hash
             /\ log \in LogsOf(chain', log.blockNumber)
  <2>1. PICK b \in 1..Len(chain') : log \in LogsOf(chain', b)
    BY <1>1, <1>2 DEF OnChain
  <2>2. QED
    BY <1>1, <2>1, LogsOfIs
<1>3. ASSUME NEW b \in 1..Len(chain'), chain'[b].hash <= mined
      PROVE  b \in 1..Len(chain) /\ \A n \in 1..b : chain'[n] = chain[n]
  <2>1. chain'[b] \in Block
    BY <1>1
  <2>2. chain'[b].hash \in Nat
    BY <2>1 DEF Block
  <2>3. ~ (chain'[b].hash > mined)
    BY <1>1, <1>3, <2>2
  <2>4. QED
    BY <1>1, <2>3 DEF ChainMoves
<1>4. ASSUME NEW b \in 1..Len(chain'), chain'[b].hash > mined
      PROVE  b > Len(chain) - REQUIRED_BLOCK_CONFIRMATIONS
  <2>1. CASE b <= Len(chain) /\ \A n \in 1..b : chain'[n] = chain[n]
    <3>1. b \in 1..Len(chain) /\ chain'[b] = chain[b]
      BY <1>1, <2>1
    <3>2. chain[b].hash <= mined /\ chain[b].hash \in Nat
      BY <3>1, BlockHashes
    <3>3. QED
      BY <1>1, <1>4, <3>1, <3>2
  <2>2. QED
    BY <2>1 DEF ChainMoves
<1>5. ASSUME NEW log \in OnChain', log.blockHash <= mined
      PROVE  /\ log \in OnChain
             /\ \A new \in OnChain' : new.blockHash > mined => log.blockNumber <= new.blockNumber
  <2>1. PICK b \in 1..Len(chain') : b = log.blockNumber /\ chain'[b].hash <= mined
                                   /\ log \in LogsOf(chain', b)
    BY <1>2, <1>5
  <2>2. b \in 1..Len(chain) /\ \A n \in 1..b : chain'[n] = chain[n]
    BY <1>3, <2>1
  <2>3. LogsOf(chain', b) = LogsOf(chain, b)
    BY <2>2, LogsOfSame
  <2>4. log \in OnChain
    BY <1>1, <2>1, <2>2, <2>3 DEF OnChain
  <2>5. ASSUME NEW new \in OnChain', new.blockHash > mined, ~ (b <= new.blockNumber) PROVE FALSE
    <3>1. PICK d \in 1..Len(chain') : d = new.blockNumber /\ chain'[d].hash > mined
      BY <1>2, <2>5
    <3>2. d \in 1..b /\ d \in 1..Len(chain)
      BY <1>1, <2>2, <2>5, <3>1
    <3>3. chain'[d] = chain[d]
      BY <2>2, <3>2
    <3>4. chain[d].hash <= mined /\ chain[d].hash \in Nat
      BY <3>2, BlockHashes
    <3>5. QED
      BY <1>1, <3>1, <3>3, <3>4
  <2>6. QED
    BY <2>1, <2>4, <2>5
<1>6. QED
  BY <1>2, <1>4, <1>5

\* Each entry of two sequences, one after the other, is one of the first or one
\* of the second.
LEMMA ConcatEntry ==
  ASSUME NEW S, NEW s \in Seq(S), NEW t \in Seq(S)
  PROVE  /\ s \o t \in Seq(S) /\ Len(s \o t) = Len(s) + Len(t) /\ Len(s) \in Nat /\ Len(t) \in Nat
         /\ DOMAIN (s \o t) = 1..Len(s \o t)
         /\ \A i \in 1..Len(s) : i \in 1..Len(s \o t) /\ (s \o t)[i] = s[i] /\ s[i] \in SeqSet(s)
         /\ \A i \in 1..Len(s \o t) :
              \/ i \in 1..Len(s)
              \/ \E k \in 1..Len(t) : i = Len(s) + k /\ (s \o t)[i] = t[k] /\ t[k] \in SeqSet(t)
<1> DEFINE g == s \o t
<1>1. /\ Len(s) \in Nat /\ Len(t) \in Nat /\ DOMAIN s = 1..Len(s) /\ DOMAIN t = 1..Len(t)
  OBVIOUS
<1>2. /\ g \in Seq(S) /\ Len(g) = Len(s) + Len(t) /\ DOMAIN g = 1..Len(g)
      /\ \A i \in 1..Len(s) : g[i] = s[i]
      /\ \A i \in 1..Len(g) : i > Len(s) => g[i] = t[i - Len(s)]
  BY ConcatProperties
<1> HIDE DEF g
<1>3. ASSUME NEW i \in 1..Len(g), ~ (i \in 1..Len(s))
      PROVE  \E k \in 1..Len(t) : i = Len(s) + k /\ g[i] = t[k] /\ t[k] \in SeqSet(t)
  <2> DEFINE k == i - Len(s)
  <2>1. k \in 1..Len(t) /\ i = Len(s) + k /\ i > Len(s)
    BY <1>1, <1>2, <1>3
  <2>2. g[i] = t[k]
    BY <1>2, <2>1
  <2> HIDE DEF k
  <2>3. t[k] \in SeqSet(t)
    BY <1>1, <2>1 DEF SeqSet
  <2>4. QED
    BY <2>1, <2>2, <2>3
<1>4. \A i \in 1..Len(s) : i \in 1..Len(g) /\ s[i] \in SeqSet(s)
  BY <1>1, <1>2 DEF SeqSet
<1>5. QED
  BY <1>1, <1>2, <1>3, <1>4 DEF g

\* No number is skipped when the chain moves.
LEMMA HeadsMove ==
  ASSUME TypeOK, HeadsInv, NEW numbers \in Seq(Nat), provider'.heads = provider.heads \o numbers,
         \A number \in SeqSet(numbers) : number <= Len(chain) + 1,
         Len(chain') = Len(chain) \/ Len(chain') \in SeqSet(numbers),
         tracker' = tracker
  PROVE  HeadsInv'
<1> DEFINE h == provider.heads
           g == h \o numbers
<1>1. h \in Seq(Nat) /\ Len(h) \in Nat /\ Len(numbers) \in Nat /\ Len(chain) \in Nat
      /\ DOMAIN h = 1..Len(h)
  BY Kinds
<1>2. /\ g \in Seq(Nat) /\ Len(g) = Len(h) + Len(numbers) /\ DOMAIN g = 1..Len(g)
      /\ \A i \in 1..Len(h) : g[i] = h[i]
      /\ \A i \in 1..Len(g) : i \in 1..Len(h) \/ g[i] \in SeqSet(numbers)
      /\ SeqSet(g) = SeqSet(h) \cup SeqSet(numbers)
  <2>1. SeqSet(g) = SeqSet(h) \cup SeqSet(numbers)
    BY <1>1, SetOfConcat
  <2> HIDE DEF h
  <2>2. QED
    BY <1>1, <2>1, ConcatEntry
<1>3. /\ \A i \in 1..Len(h) : \/ h[i] <= tracker.latestBlockNum + 1
                             \/ \E j \in 1..(i - 1) : h[i] <= h[j] + 1
      /\ tracker.latestBlockNum = Len(chain) \/ Len(chain) \in SeqSet(h)
  BY <1>1 DEF HeadsInv
<1>4. provider'.heads = g /\ \A number \in SeqSet(numbers) : number \in Nat
  BY DEF SeqSet
<1> HIDE DEF g, h
<1>5. ASSUME NEW i \in 1..Len(g)
      PROVE  \/ g[i] <= tracker.latestBlockNum + 1
             \/ \E j \in 1..(i - 1) : g[i] <= g[j] + 1
  <2>1. CASE i <= Len(h)
    <3>1. i \in 1..Len(h) /\ g[i] = h[i] /\ \A j \in 1..(i - 1) : g[j] = h[j]
      BY <1>1, <1>2, <2>1
    <3>2. QED
      BY <1>3, <3>1
  <2>2. CASE i > Len(h)
    <3>1. g[i] \in SeqSet(numbers)
      BY <1>1, <1>2, <2>2
    <3>2. g[i] <= Len(chain) + 1
      BY <3>1
    <3>3. CASE tracker.latestBlockNum = Len(chain)
      BY <3>2, <3>3
    <3>4. CASE Len(chain) \in SeqSet(h)
      <4>1. PICK j \in 1..Len(h) : h[j] = Len(chain)
        BY <1>1, <3>4 DEF SeqSet
      <4>2. j \in 1..(i - 1) /\ g[j] = Len(chain)
        BY <1>1, <1>2, <2>2, <4>1
      <4>3. QED
        BY <3>2, <4>2
    <3>5. QED
      BY <1>3, <3>3, <3>4
  <2>3. QED
    BY <1>1, <1>2, <2>1, <2>2
<1>6. tracker.latestBlockNum = Len(chain') \/ Len(chain') \in SeqSet(g)
  BY <1>2, <1>3
<1>7. QED
  BY <1>2, <1>4, <1>5, <1>6 DEF HeadsInv

\* What is delivered when the chain moves comes after what was delivered.
LEMMA FeedMoves ==
  ASSUME TypeOK, EventsInv, FeedInv, ChainMoves,
         NEW more \in Seq(Logs), provider'.feed = provider.feed \o more, IsMinedInOrder(more),
         \A log \in SeqSet(more) \cap OnChain' : log.blockHash > mined,
         \A b, d \in 1..Len(chain') :
           mined < chain'[b].hash /\ chain'[b].hash <= chain'[d].hash => b <= d,
         tracker' = tracker
  PROVE  /\ FeedInv' /\ Waiting' \subseteq Waiting
         /\ \A log \in Coming' : log \in Coming \/ (log \in OnChain' /\ log.blockHash > mined)
<1> DEFINE f == provider.feed
           g == f \o more
<1>1. /\ f \in Seq(Logs) /\ Len(f) \in Nat /\ Len(more) \in Nat /\ DOMAIN f = 1..Len(f)
      /\ DOMAIN more = 1..Len(more)
  BY Kinds
<1>2. /\ g \in Seq(Logs) /\ Len(g) = Len(f) + Len(more) /\ DOMAIN g = 1..Len(g)
      /\ \A i \in 1..Len(f) : g[i] = f[i] /\ f[i] \in SeqSet(f)
      /\ \A i \in 1..Len(g) :
           \/ i \in 1..Len(f)
           \/ \E k \in 1..Len(more) : i = Len(f) + k /\ g[i] = more[k] /\ more[k] \in SeqSet(more)
      /\ SeqSet(g) = SeqSet(f) \cup SeqSet(more)
  <2>1. SeqSet(g) = SeqSet(f) \cup SeqSet(more)
    BY <1>1, SetOfConcat
  <2>2. f \in Seq(Logs) /\ more \in Seq(Logs)
    BY <1>1
  <2> HIDE DEF f
  <2>3. /\ g \in Seq(Logs) /\ Len(g) = Len(f) + Len(more) /\ Len(f) \in Nat /\ Len(more) \in Nat
        /\ DOMAIN g = 1..Len(g)
        /\ \A i \in 1..Len(f) : i \in 1..Len(g) /\ g[i] = f[i] /\ f[i] \in SeqSet(f)
        /\ \A i \in 1..Len(g) :
             \/ i \in 1..Len(f)
             \/ \E k \in 1..Len(more) : i = Len(f) + k /\ g[i] = more[k] /\ more[k] \in SeqSet(more)
    BY ONLY <2>2, ConcatEntry
  <2>4. QED
    BY <2>1, <2>3
<1>3. provider'.feed = g /\ f = provider.feed
  OBVIOUS
<1>4. \A log \in SeqSet(f) \cup BagToSet(tracker.events) : log.blockHash <= mined
  BY DEF EventsInv, IsGenuine
<1>5. \A i, j \in 1..Len(f) : i < j /\ {f[i], f[j]} \subseteq OnChain =>
                              f[i].blockNumber <= f[j].blockNumber
  BY <1>1 DEF FeedInv
<1> HIDE DEF f, g
<1>6. ASSUME NEW i \in 1..Len(g)
      PROVE  /\ i <= Len(f) => i \in 1..Len(f) /\ g[i] \in SeqSet(f)
             /\ i > Len(f) => g[i] \in SeqSet(more)
  <2>1. CASE i \in 1..Len(f)
    BY <1>1, <1>2, <2>1
  <2>2. CASE ~ (i \in 1..Len(f))
    <3>1. g[i] \in SeqSet(more)
      BY <1>2, <2>2
    <3>2. ~ (i <= Len(f))
      BY <1>1, <2>2
    <3>3. QED
      BY <3>1, <3>2
  <2>3. QED
    BY <2>1, <2>2
<1>7. ASSUME NEW i \in 1..Len(g), NEW j \in 1..Len(g), i < j, g[i] \in OnChain', g[j] \in OnChain'
      PROVE  g[i].blockNumber <= g[j].blockNumber
  <2>1. CASE j <= Len(f)
    <3>1. i \in 1..Len(f) /\ j \in 1..Len(f) /\ g[i] = f[i] /\ g[j] = f[j]
          /\ g[i] \in SeqSet(f) /\ g[j] \in SeqSet(f)
      BY <1>1, <1>2, <1>6, <1>7, <2>1
    <3>2. g[i] \in OnChain /\ g[j] \in OnChain
      BY <1>4, <1>7, <3>1, OldAndNew
    <3>3. QED
      BY <1>5, <1>7, <3>1, <3>2
  <2>2. CASE i <= Len(f) /\ j > Len(f)
    <3>1. g[i] \in SeqSet(f) /\ g[j] \in SeqSet(more)
      BY <1>6, <2>2
    <3>2. g[i].blockHash <= mined /\ g[j].blockHash > mined
      BY <1>4, <1>7, <3>1
    <3>3. QED
      BY <1>7, <3>2, OldAndNew
  <2>3. CASE i > Len(f) /\ j > Len(f)
    <3>1. g[i] \in SeqSet(more) /\ g[i].blockHash > mined
      BY <1>6, <1>7, <2>3
    <3>2. g[i].blockHash <= g[j].blockHash
      <4>0. ~ (i \in 1..Len(f)) /\ ~ (j \in 1..Len(f))
        BY <1>1, <2>3
      <4>1. PICK k \in 1..Len(more) : i = Len(f) + k /\ g[i] = more[k]
        BY <1>2, <4>0
      <4>2. PICK m \in 1..Len(more) : j = Len(f) + m /\ g[j] = more[m]
        BY <1>2, <4>0
      <4>3. k < m
        BY <1>1, <1>7, <4>1, <4>2
      <4>4. QED
        BY <1>1, <4>1, <4>2, <4>3 DEF IsMinedInOrder
    <3>3. PICK b \in 1..Len(chain') : b = g[i].blockNumber /\ chain'[b].hash = g[i].blockHash
      BY <1>7, OldAndNew
    <3>4. PICK d \in 1..Len(chain') : d = g[j].blockNumber /\ chain'[d].hash = g[j].blockHash
      BY <1>7, OldAndNew
    <3>5. mined < chain'[b].hash
      <4>1. chain'[b].hash > mined
        BY <3>1, <3>3
      <4>2. QED
        BY <4>1
    <3>6. QED
      BY <3>2, <3>3, <3>4, <3>5
  <2>4. i \in Nat /\ j \in Nat
    BY <1>1, <1>2
  <2>5. QED
    BY <1>1, <1>7, <2>1, <2>2, <2>3, <2>4
<1>8. Waiting' \subseteq Waiting
  BY <1>4, OldAndNew DEF Waiting
<1>9. ASSUME NEW log \in Coming' PROVE log \in Coming \/ (log \in OnChain' /\ log.blockHash > mined)
  <2>1. log \in OnChain' /\ log \in SeqSet(f) \cup SeqSet(more)
    BY <1>2, <1>3, <1>9 DEF Coming
  <2>2. CASE log \in SeqSet(f)
    <3>1. log \in OnChain
      BY <1>4, <2>1, <2>2, OldAndNew
    <3>2. QED
      BY <1>3, <2>2, <3>1 DEF Coming
  <2>3. CASE log \in SeqSet(more)
    BY <2>1, <2>3
  <2>4. QED
    BY <2>1, <2>2, <2>3
<1>10. InOrder(Waiting', Coming')
  <2>1. SUFFICES ASSUME NEW x \in Waiting', NEW y \in Coming'
                 PROVE  x.blockNumber <= y.blockNumber
    BY DEF InOrder
  <2>2. CASE y \in Coming
    BY <1>8, <2>2 DEF FeedInv, InOrder
  <2>3. CASE y \in OnChain' /\ y.blockHash > mined
    <3>1. x \in OnChain' /\ x.blockHash <= mined
      BY <1>4 DEF Waiting
    <3>2. QED
      BY <2>3, <3>1, OldAndNew
  <2>4. QED
    BY <1>9, <2>2, <2>3
<1>11. \A i, j \in 1..Len(g) : i < j /\ {g[i], g[j]} \subseteq OnChain' =>
                               g[i].blockNumber <= g[j].blockNumber
  BY <1>7
<1>12. FeedInv'
  BY <1>2, <1>3, <1>10, <1>11 DEF FeedInv
<1>13. QED
  BY <1>8, <1>9, <1>12

\* The pipeline is in order when the chain moves.
LEMMA OrderMoves ==
  ASSUME TypeOK, EventsInv, PipelineInv, ChainMoves, MovesInOrder, provider.subs = 1,
         UNCHANGED <<tracker, listener, resubs, out, handling, store, up>>
  PROVE  PipelineInv'
<1>1. PICK logs \in SUBSET Logs, numbers \in Seq(Nat) :
        /\ IsFiniteSet(logs) /\ Deliver(logs, numbers)
        /\ \A log \in logs \cap OnChain' : log.blockHash > mined
        /\ \A b, d \in 1..Len(chain') :
             mined < chain'[b].hash /\ chain'[b].hash <= chain'[d].hash => b <= d
        /\ \A number \in SeqSet(numbers) : number <= Len(chain) + 1
        /\ Len(chain') = Len(chain) \/ Len(chain') \in SeqSet(numbers)
  BY DEF MovesInOrder
<1>2. provider.connected /\ provider.subErr = "quiet" /\ resubs = <<>>
  BY DEF PipelineInv, SteadyInv
<1>3. PICK more \in Seq(Logs) :
        /\ SeqSet(more) = logs /\ IsMinedInOrder(more)
        /\ provider'.feed = provider.feed \o more
        /\ provider'.heads = provider.heads \o numbers
        /\ provider'.connected = provider.connected /\ provider'.subErr = provider.subErr
  BY <1>1, <1>2, DeliveredInOrder
<1>4. SteadyInv'
  BY <1>2, <1>3 DEF SteadyInv
<1>5. HeadsInv'
  BY <1>1, <1>3, HeadsMove DEF PipelineInv
<1>6. /\ FeedInv' /\ Waiting' \subseteq Waiting
      /\ \A log \in Coming' : log \in Coming \/ (log \in OnChain' /\ log.blockHash > mined)
  <2>1. \A log \in SeqSet(more) \cap OnChain' : log.blockHash > mined
    BY <1>1, <1>3
  <2>2. FeedInv
    BY DEF PipelineInv
  <2>3. \A b, d \in 1..Len(chain') :
          mined < chain'[b].hash /\ chain'[b].hash <= chain'[d].hash => b <= d
    BY <1>1
  <2>4. QED
    BY <1>3, <2>1, <2>2, <2>3, FeedMoves
<1>7. Batches' = Batches /\ Reached' = Reached
  BY DEF Batches, Reached
<1>8. ASSUME NEW x \in Batches \cup Reached, NEW y \in OnChain', y.blockHash > mined
      PROVE  x.blockNumber <= y.blockNumber
  <2>1. Len(chain) - x.blockNumber >= 2
    BY DEF EventsInv, IsSettled
  <2>2. y.blockNumber > Len(chain) - 2
    BY <1>8, OldAndNew DEF REQUIRED_BLOCK_CONFIRMATIONS
  <2>3. x.blockNumber \in Nat /\ y.blockNumber \in Nat /\ Len(chain) \in Nat
    BY <1>8, PlacesHoldLogs, LogKinds, OldAndNew, Kinds
  <2>4. QED
    BY <2>1, <2>2, <2>3
<1>9. BatchesInv'
  <2>1. InOrder(Batches', Waiting' \cup Coming')
    BY <1>6, <1>7, <1>8 DEF InOrder, PipelineInv, BatchesInv
  <2>2. QED
    BY <2>1 DEF PipelineInv, BatchesInv
<1>10. EngineInv'
  <2>1. InOrder(Reached', Batches' \cup Waiting' \cup Coming')
    BY <1>6, <1>7, <1>8 DEF InOrder, PipelineInv, EngineInv
  <2>2. QED
    BY <2>1 DEF PipelineInv, EngineInv
<1>11. HeapInv' /\ NewBlocksInv'
  BY <1>7 DEF PipelineInv, HeapInv, NewBlocksInv, IsConfirmed, Confirmed
<1>12. LogsInv'
  BY <1>6 DEF PipelineInv, LogsInv, InOrder, IsConfirmed
<1>13. HoldingsInv'
  BY DEF PipelineInv, HoldingsInv, Recorded, InOrder
<1>14. QED
  BY <1>4, <1>5, <1>6, <1>9, <1>10, <1>11, <1>12, <1>13 DEF PipelineInv

\* Where a listener is, apart from what it has to dispatch.
LEMMA ListenerGoesTo ==
  ASSUME TypeOK, NEW l \in Listeners, NEW at, listener' = [listener EXCEPT ![l].at = at]
  PROVE  /\ listener'[l].at = at /\ \A k \in Listeners : k # l => listener'[k] = listener[k]
         /\ \A k \in Listeners : listener'[k].batch = listener[k].batch
         /\ Batches' = Batches
<1>1. listener \in [Listeners -> Listener]
  BY DEF TypeOK
<1>2. /\ listener'[l].at = at /\ \A k \in Listeners : k # l => listener'[k] = listener[k]
      /\ \A k \in Listeners : listener'[k].batch = listener[k].batch
  BY <1>1 DEF Listener
<1>3. QED
  BY <1>2 DEF Batches

\* The rest of a sorted queue is sorted, and its first entry is not above them.
LEMMA SortedTail ==
  ASSUME NEW s \in Seq(Logs), s # <<>>, IsSorted(s)
  PROVE  IsSorted(Tail(s)) /\ InOrder({Head(s)}, SeqSet(Tail(s)))
<1> DEFINE t == Tail(s)
           h == Head(s)
<1>1. /\ t \in Seq(Logs) /\ Len(t) = Len(s) - 1 /\ \A i \in 1..Len(t) : t[i] = s[i + 1]
      /\ Len(s) \in Nat /\ Len(s) > 0 /\ h = s[1] /\ Len(t) \in Nat
  BY SetOfTail, HeadTailProperties
<1> HIDE DEF t, h
<1>2. DOMAIN s = 1..Len(s) /\ DOMAIN t = 1..Len(t)
  BY <1>1
<1>3. ASSUME NEW i \in 1..Len(t), NEW j \in 1..Len(t), i < j
      PROVE  t[i].blockNumber <= t[j].blockNumber
  <2>1. i + 1 \in 1..Len(s) /\ j + 1 \in 1..Len(s) /\ i + 1 < j + 1
    BY <1>1, <1>3
  <2>2. QED
    BY <1>1, <1>2, <2>1 DEF IsSorted
<1>4. ASSUME NEW i \in 1..Len(t) PROVE h.blockNumber <= t[i].blockNumber
  <2>1. 1 \in 1..Len(s) /\ i + 1 \in 1..Len(s) /\ 1 < i + 1
    BY <1>1
  <2>2. QED
    BY <1>1, <1>2, <2>1 DEF IsSorted
<1>5. IsSorted(t) /\ InOrder({h}, SeqSet(t))
  BY <1>2, <1>3, <1>4 DEF IsSorted, InOrder, SeqSet
<1>6. QED
  BY <1>5 DEF t, h

\* A sorted queue to which nothing below it is added is sorted.
LEMMA SortedAppend ==
  ASSUME NEW s \in Seq(Logs), NEW x \in Logs, IsSorted(s), InOrder(SeqSet(s), {x})
  PROVE  IsSorted(Append(s, x))
<1> DEFINE t == Append(s, x)
<1>1. /\ t \in Seq(Logs) /\ Len(t) = Len(s) + 1 /\ t[Len(s) + 1] = x
      /\ \A i \in 1..Len(s) : t[i] = s[i]
  BY AppendProperties
<1> HIDE DEF t
<1>2. /\ DOMAIN s = 1..Len(s) /\ DOMAIN t = 1..Len(t) /\ Len(s) \in Nat
      /\ \A i \in 1..Len(s) : s[i] \in SeqSet(s)
  BY <1>1 DEF SeqSet
<1>3. ASSUME NEW i \in 1..Len(t), NEW j \in 1..Len(t), i < j
      PROVE  t[i].blockNumber <= t[j].blockNumber
  <2>1. i \in 1..Len(s)
    BY <1>1, <1>2, <1>3
  <2>2. CASE j \in 1..Len(s)
    BY <1>1, <1>2, <1>3, <2>1, <2>2 DEF IsSorted
  <2>3. CASE j = Len(s) + 1
    BY <1>1, <1>2, <2>1, <2>3 DEF InOrder
  <2>4. QED
    BY <1>1, <1>2, <2>2, <2>3
<1>4. IsSorted(t)
  BY <1>2, <1>3 DEF IsSorted
<1>5. QED
  BY <1>4 DEF t

\* The pipeline is in order when a log is pushed on the heap: one that is
\* confirmed already comes after all the others.
LEMMA OrderLogs ==
  ASSUME TypeOK, MutexInv, PipelineInv, ListenForEventLogs
  PROVE  PipelineInv'
<1> DEFINE f == provider.feed
           x == Head(f)
<1>1. /\ f \in Seq(Logs) /\ f # <<>> /\ tracker.mu = "nobody" /\ listener["logs"].at = "idle"
      /\ provider' = [provider EXCEPT !.feed = Tail(f)]
      /\ tracker' = [tracker EXCEPT !.events = @ (+) SetToBag({x}), !.mu = "logs"]
      /\ listener' = [listener EXCEPT !["logs"].at = "popping"]
      /\ UNCHANGED <<chain, resubs, out, handling, store>>
  BY Kinds DEF ListenForEventLogs, IsFree
<1>2. /\ x \in Logs /\ Tail(f) \in Seq(Logs) /\ Len(Tail(f)) = Len(f) - 1
      /\ \A i \in 1..Len(Tail(f)) : Tail(f)[i] = f[i + 1]
      /\ SeqSet(f) = {x} \cup SeqSet(Tail(f)) /\ Len(f) \in Nat /\ x = f[1] /\ Len(f) > 0
  BY <1>1, SetOfTail, HeadTailProperties
<1>3. /\ provider'.feed = Tail(f) /\ provider'.heads = provider.heads
      /\ provider'.connected = provider.connected /\ provider'.subErr = provider.subErr
  BY <1>1, Kinds DEF Provider
<1>4. /\ BagToSet(tracker'.events) = BagToSet(tracker.events) \cup {x} /\ tracker'.mu = "logs"
      /\ tracker'.latestBlockNum = tracker.latestBlockNum
  <2>1. DOMAIN tracker = {"latestBlockNum", "events", "mu"} /\ IsABag(tracker.events)
    BY DEF TypeOK
  <2>2. /\ tracker'.events = tracker.events (+) SetToBag({x}) /\ tracker'.mu = "logs"
        /\ tracker'.latestBlockNum = tracker.latestBlockNum
    BY <1>1, <2>1
  <2>3. QED
    BY <2>1, <2>2, Pushed
<1>5. /\ listener'["logs"].at = "popping" /\ listener'["blocks"] = listener["blocks"]
      /\ \A l \in Listeners : listener'[l].batch = listener[l].batch
      /\ Batches' = Batches
  <2>1. "logs" \in Listeners /\ "blocks" \in Listeners
    BY DEF Listeners
  <2>2. QED
    BY <1>1, <2>1, ListenerGoesTo
<1>6. OnChain' = OnChain /\ Reached' = Reached
  BY <1>1 DEF OnChain, Reached
<1> DEFINE t == Tail(f)
<1>7. t \in Seq(Logs) /\ provider'.feed = t /\ DOMAIN t = 1..Len(t) /\ DOMAIN f = 1..Len(f)
  BY <1>1, <1>2, <1>3
<1>8. Coming' = SeqSet(t) \cap OnChain /\ Waiting' = (BagToSet(tracker.events) \cup {x}) \cap OnChain
  BY <1>4, <1>6, <1>7 DEF Coming, Waiting
<1> HIDE DEF t, x, f
<1>9. Waiting' \cup Coming' = Waiting \cup Coming
  BY <1>2, <1>8 DEF Coming, Waiting, t, f
<1>10. ASSUME NEW i \in 1..Len(t), {x, t[i]} \subseteq OnChain PROVE x.blockNumber <= t[i].blockNumber
  <2>1. 1 \in DOMAIN f /\ i + 1 \in DOMAIN f /\ 1 < i + 1 /\ x = f[1] /\ t[i] = f[i + 1]
    BY <1>2, <1>7 DEF t
  <2>2. QED
    BY <1>10, <2>1 DEF PipelineInv, FeedInv, f
<1>11. \A i, j \in 1..Len(t) : i < j /\ {t[i], t[j]} \subseteq OnChain => t[i].blockNumber <= t[j].blockNumber
  <2>1. SUFFICES ASSUME NEW i \in 1..Len(t), NEW j \in 1..Len(t), i < j, {t[i], t[j]} \subseteq OnChain
                 PROVE  t[i].blockNumber <= t[j].blockNumber
    OBVIOUS
  <2>2. /\ i + 1 \in DOMAIN f /\ j + 1 \in DOMAIN f /\ i + 1 < j + 1
        /\ t[i] = f[i + 1] /\ t[j] = f[j + 1]
    BY <1>2, <1>7, <2>1 DEF t
  <2>3. QED
    BY <2>1, <2>2 DEF PipelineInv, FeedInv, f
<1>12. InOrder(Waiting', Coming')
  <2>1. SUFFICES ASSUME NEW y \in Waiting', NEW z \in Coming' PROVE y.blockNumber <= z.blockNumber
    BY DEF InOrder
  <2>2. CASE y = x
    BY <1>7, <1>8, <1>10, <2>2 DEF SeqSet
  <2>3. CASE y # x
    <3>1. y \in Waiting /\ z \in Coming
      BY <1>2, <1>8, <2>3 DEF Waiting, Coming, f, t
    <3>2. QED
      BY <3>1 DEF PipelineInv, FeedInv, InOrder
  <2>4. QED
    BY <2>2, <2>3
<1>13. FeedInv'
  BY <1>6, <1>7, <1>11, <1>12 DEF FeedInv
<1>14. SteadyInv' /\ HeadsInv'
  BY <1>1, <1>3, <1>4 DEF PipelineInv, SteadyInv, HeadsInv
<1>15. BatchesInv' /\ EngineInv'
  <2>1. BatchesInv'
    BY <1>5, <1>9 DEF PipelineInv, BatchesInv
  <2>2. Batches' \cup Waiting' \cup Coming' = Batches \cup Waiting \cup Coming
    BY <1>5, <1>9
  <2>3. QED
    BY <1>1, <1>6, <2>1, <2>2 DEF PipelineInv, EngineInv
<1>16. HeapInv'
  <2>1. \A l \in Listeners : l = "logs" \/ l = "blocks"
    BY DEF Listeners
  <2>2. QED
    BY <1>4, <1>5, <2>1 DEF PipelineInv, HeapInv, IsConfirmed
<1>17. SeqSet(listener'["logs"].batch) = {}
  <2>1. "logs" \in Listeners
    BY DEF Listeners
  <2>2. listener'["logs"].batch = <<>>
    BY <1>1, <1>5, <2>1 DEF PipelineInv, HeapInv
  <2>3. QED
    BY <2>2, SetOfEmpty
<1>18. LogsInv'
  <2>1. SUFFICES ASSUME NEW y \in Waiting', NEW z \in Waiting', IsConfirmed(z, tracker.latestBlockNum)
                 PROVE  y.blockNumber <= z.blockNumber
    BY <1>4, <1>5, <1>17 DEF LogsInv, InOrder
  <2>2. z = x /\ x \in OnChain
    BY <1>1, <1>8, <2>1 DEF PipelineInv, HeapInv
  <2>3. CASE y = x
    BY <1>2, <2>2, <2>3, LogKinds
  <2>4. CASE y # x
    <3>1. y \in Waiting /\ x \in Coming
      BY <1>2, <1>8, <2>2, <2>4 DEF Waiting, Coming, f
    <3>2. QED
      BY <2>2, <3>1 DEF PipelineInv, FeedInv, InOrder
  <2>5. QED
    BY <2>3, <2>4
<1>19. NewBlocksInv'
  <2>1. listener'["blocks"].at # "popping"
    BY <1>1, <1>5 DEF MutexInv, Listeners
  <2>2. QED
    BY <1>4, <1>5, <1>17, <2>1 DEF PipelineInv, NewBlocksInv, Confirmed
<1>20. HoldingsInv'
  BY <1>1 DEF PipelineInv, HoldingsInv, Recorded
<1>21. QED
  BY <1>13, <1>14, <1>15, <1>16, <1>18, <1>19, <1>20 DEF PipelineInv

\* A new block number is at most one above the latest.
LEMMA HeadsTaken ==
  ASSUME TypeOK, BlocksInv, HeadsInv, ListenForNewBlocks
  PROVE  /\ HeadsInv' /\ tracker'.latestBlockNum \in Nat
         /\ tracker.latestBlockNum <= tracker'.latestBlockNum
         /\ tracker'.latestBlockNum <= tracker.latestBlockNum + 1
<1> DEFINE h == provider.heads
           t == Tail(h)
           x == Head(h)
           low == tracker.latestBlockNum
           high == Later(x, low)
<1>1. /\ h \in Seq(Nat) /\ h # <<>> /\ low \in Nat
      /\ provider' = [provider EXCEPT !.heads = t]
      /\ tracker' = [tracker EXCEPT !.latestBlockNum = high, !.mu = "blocks"]
      /\ chain' = chain /\ Len(chain) \in Nat
  BY Kinds DEF ListenForNewBlocks, TypeOK, Later
<1>2. /\ x \in Nat /\ t \in Seq(Nat) /\ Len(t) = Len(h) - 1 /\ Len(h) \in Nat /\ Len(h) > 0
      /\ \A i \in 1..Len(t) : t[i] = h[i + 1]
      /\ SeqSet(h) = {x} \cup SeqSet(t) /\ x = h[1] /\ DOMAIN h = 1..Len(h) /\ DOMAIN t = 1..Len(t)
  BY <1>1, SetOfTail, HeadTailProperties
<1>3. provider'.heads = t
  BY <1>1, Kinds DEF Provider
<1>4. tracker'.latestBlockNum = high
  <2>1. DOMAIN tracker = {"latestBlockNum", "events", "mu"}
    BY DEF TypeOK
  <2>2. QED
    BY <1>1, <2>1
<1>5. /\ \A i \in 1..Len(h) : h[i] <= low + 1 \/ \E j \in 1..(i - 1) : h[i] <= h[j] + 1
      /\ low = Len(chain) \/ Len(chain) \in SeqSet(h)
      /\ low <= Len(chain) /\ x <= Len(chain)
  <2>1. x \in SeqSet(h)
    BY <1>2
  <2>2. QED
    BY <1>2, <2>1 DEF HeadsInv, BlocksInv
<1> HIDE DEF h, t, x, low
<1>6. x <= low + 1
  <2>1. 1 \in 1..Len(h) /\ ~ \E j \in 1..(1 - 1) : TRUE
    BY <1>2
  <2>2. QED
    BY <1>2, <1>5, <2>1
<1>7. high \in Nat /\ low <= high /\ high <= low + 1 /\ x <= high
  BY <1>1, <1>2, <1>6 DEF Later
<1>8. ASSUME NEW i \in 1..Len(t)
      PROVE  t[i] <= high + 1 \/ \E j \in 1..(i - 1) : t[i] <= t[j] + 1
  <2>1. i + 1 \in 1..Len(h) /\ t[i] = h[i + 1] /\ t[i] \in Nat
    BY <1>2
  <2>2. CASE h[i + 1] <= low + 1
    BY <1>1, <1>7, <2>1, <2>2
  <2>3. CASE \E j \in 1..(i + 1 - 1) : h[i + 1] <= h[j] + 1
    <3>1. PICK j \in 1..(i + 1 - 1) : h[i + 1] <= h[j] + 1
      BY <2>3
    <3>2. CASE j = 1
      <4>1. t[i] <= x + 1
        BY <1>2, <2>1, <3>1, <3>2
      <4>2. QED
        BY <1>2, <1>7, <2>1, <4>1
    <3>3. CASE j # 1
      <4>1. j - 1 \in 1..(i - 1) /\ j - 1 \in 1..Len(t) /\ (j - 1) + 1 = j
        BY <1>2, <3>1, <3>3
      <4>2. t[j - 1] = h[j]
        BY <1>2, <4>1
      <4>3. QED
        BY <2>1, <3>1, <4>1, <4>2
    <3>4. QED
      BY <3>2, <3>3
  <2>4. QED
    BY <1>5, <2>1, <2>2, <2>3
<1>9. high = Len(chain) \/ Len(chain) \in SeqSet(t)
  <2>1. CASE low = Len(chain)
    BY <1>1, <1>5, <1>2, <2>1 DEF Later
  <2>2. CASE Len(chain) = x
    BY <1>1, <1>2, <1>5, <2>2 DEF Later
  <2>3. QED
    BY <1>2, <1>5, <2>1, <2>2
<1> HIDE DEF high
<1>10. HeadsInv'
  BY <1>1, <1>2, <1>3, <1>4, <1>8, <1>9 DEF HeadsInv
<1>11. QED
  BY <1>4, <1>7, <1>10 DEF low

\* The pipeline is in order when a new block comes: it confirms the logs of one
\* block at most, as those before were dispatched.
LEMMA OrderBlocks ==
  ASSUME TypeOK, BlocksInv, MutexInv, PipelineInv, ListenForNewBlocks
  PROVE  PipelineInv'
<1>1. /\ tracker.mu = "nobody" /\ listener["blocks"].at = "idle"
      /\ provider' = [provider EXCEPT !.heads = Tail(@)]
      /\ tracker' = [tracker EXCEPT !.latestBlockNum = Later(Head(provider.heads), @), !.mu = "blocks"]
      /\ listener' = [listener EXCEPT !["blocks"].at = "popping"]
      /\ UNCHANGED <<chain, resubs, out, handling, store>>
  BY DEF ListenForNewBlocks, IsFree
<1>2. /\ provider'.feed = provider.feed /\ provider'.connected = provider.connected
      /\ provider'.subErr = provider.subErr
  BY <1>1, Kinds DEF Provider
<1>3. tracker'.events = tracker.events /\ tracker'.mu = "blocks"
  <2>1. DOMAIN tracker = {"latestBlockNum", "events", "mu"}
    BY DEF TypeOK
  <2>2. QED
    BY <1>1, <2>1
<1>4. PICK high \in Nat : /\ high = tracker'.latestBlockNum /\ tracker.latestBlockNum <= high
                          /\ high <= tracker.latestBlockNum + 1
  BY HeadsTaken DEF PipelineInv
<1>5. tracker.latestBlockNum \in Nat
  BY DEF TypeOK
<1>6. "logs" \in Listeners /\ "blocks" \in Listeners /\ \A l \in Listeners : l = "logs" \/ l = "blocks"
  BY DEF Listeners
<1>7. /\ listener'["blocks"].at = "popping" /\ listener'["logs"] = listener["logs"]
      /\ \A l \in Listeners : listener'[l].batch = listener[l].batch
      /\ Batches' = Batches
  <2>1. listener' = [listener EXCEPT !["blocks"].at = "popping"] /\ "blocks" \in Listeners
    BY <1>1, <1>6
  <2>2. /\ listener'["blocks"].at = "popping"
        /\ \A k \in Listeners : k # "blocks" => listener'[k] = listener[k]
        /\ \A k \in Listeners : listener'[k].batch = listener[k].batch
        /\ Batches' = Batches
    BY <2>1, ListenerGoesTo
  <2>3. QED
    BY <1>6, <2>2
<1>8. OnChain' = OnChain /\ Reached' = Reached
  BY <1>1 DEF OnChain, Reached
<1>9. Waiting' = Waiting /\ Coming' = Coming
  BY <1>2, <1>3, <1>8 DEF Waiting, Coming
<1>10. SteadyInv' /\ HeadsInv'
  BY <1>1, <1>2, HeadsTaken DEF PipelineInv, SteadyInv
<1>11. FeedInv' /\ BatchesInv' /\ EngineInv'
  BY <1>1, <1>2, <1>7, <1>8, <1>9 DEF PipelineInv, FeedInv, BatchesInv, EngineInv
<1>12. listener["logs"].at # "popping"
  BY <1>1, <1>6 DEF MutexInv
<1>13. SeqSet(listener'["blocks"].batch) = {}
  <2>1. listener'["blocks"].batch = <<>>
    BY <1>1, <1>6, <1>7 DEF PipelineInv, HeapInv
  <2>2. QED
    BY <2>1, SetOfEmpty
<1>14. HeapInv'
  <2>1. ASSUME NEW log \in Batches PROVE IsConfirmed(log, high)
    <3>1. IsConfirmed(log, tracker.latestBlockNum) /\ log.blockNumber \in Nat
      BY PlacesHoldLogs, LogKinds DEF PipelineInv, HeapInv
    <3>2. QED
      BY <1>4, <1>5, <3>1 DEF IsConfirmed, REQUIRED_BLOCK_CONFIRMATIONS
  <2>2. \A l \in Listeners : listener'[l].at = "idle" => listener'[l].batch = <<>>
    BY <1>6, <1>7 DEF PipelineInv, HeapInv
  <2>3. QED
    BY <1>3, <1>4, <1>7, <2>1, <2>2 DEF HeapInv
<1>15. LogsInv'
  BY <1>6, <1>7, <1>9, <1>12 DEF PipelineInv, LogsInv
<1>16. NewBlocksInv'
  <2>1. ASSUME NEW log \in BagToSet(tracker.events)
        PROVE  log.blockNumber + REQUIRED_BLOCK_CONFIRMATIONS >= high
    <3>1. ~ IsConfirmed(log, tracker.latestBlockNum) /\ log.blockNumber \in Nat
      BY <1>1, PlacesHoldLogs, LogKinds DEF PipelineInv, HeapInv
    <3>2. QED
      BY <1>4, <1>5, <3>1 DEF IsConfirmed, REQUIRED_BLOCK_CONFIRMATIONS
  <2>2. QED
    BY <1>3, <1>4, <1>13, <2>1 DEF NewBlocksInv
<1>17. HoldingsInv'
  BY <1>1 DEF PipelineInv, HoldingsInv, Recorded
<1>18. QED
  BY <1>10, <1>11, <1>14, <1>15, <1>16, <1>17 DEF PipelineInv

\* The pipeline is in order when a log is popped.
LEMMA OrderPop ==
  ASSUME TypeOK, EventsInv, MutexInv, PipelineInv, NEW l \in Listeners, NEW x \in Ripe, Pop(l, x)
  PROVE  PipelineInv'
<1> DEFINE low == tracker.latestBlockNum
           heap == BagToSet(tracker.events)
<1>1. /\ listener[l].at = "popping" /\ tracker.mu = l
      /\ tracker' = [tracker EXCEPT !.events = @ (-) SetToBag({x})]
      /\ UNCHANGED <<chain, provider, resubs, out, handling, store>>
  BY DEF Pop, MutexInv
<1>2. /\ x \in heap /\ \A other \in heap : x.blockNumber <= other.blockNumber
      /\ IsConfirmed(x, low) /\ x \in Logs /\ x.blockNumber \in Nat /\ low \in Nat
  <2>1. x \in heap /\ \A other \in heap : x.blockNumber <= other.blockNumber
    BY DEF Ripe, Tops
  <2>2. QED
    BY <2>1, PlacesHoldLogs, LogKinds DEF Ripe, TypeOK
<1>3. /\ BagToSet(tracker'.events) \subseteq heap /\ tracker'.mu = tracker.mu
      /\ tracker'.latestBlockNum = low
  <2>1. DOMAIN tracker = {"latestBlockNum", "events", "mu"} /\ IsABag(tracker.events)
    BY DEF TypeOK
  <2>2. /\ tracker'.events = tracker.events (-) SetToBag({x}) /\ tracker'.mu = tracker.mu
        /\ tracker'.latestBlockNum = low
    BY <1>1, <2>1
  <2>3. QED
    BY <2>1, <2>2, Popped
<1>4. OnChain' = OnChain /\ Reached' = Reached
  BY <1>1 DEF OnChain, Reached
<1>5. Waiting' \subseteq Waiting /\ Coming' = Coming
  BY <1>1, <1>3, <1>4 DEF Waiting, Coming
<1> HIDE DEF low, heap
<1>6. SteadyInv' /\ HeadsInv' /\ HoldingsInv'
  BY <1>1, <1>3 DEF PipelineInv, SteadyInv, HeadsInv, HoldingsInv, Recorded, low
<1>7. FeedInv'
  BY <1>1, <1>4, <1>5 DEF PipelineInv, FeedInv, InOrder
<1>8. CASE ~ IsStillOnChain(x)
  <2>1. listener' = listener
    BY <1>8 DEF Pop
  <2>2. Batches' = Batches
    BY <2>1 DEF Batches
  <2>3. BatchesInv' /\ EngineInv'
    BY <1>1, <1>4, <1>5, <2>1, <2>2 DEF PipelineInv, BatchesInv, EngineInv, InOrder
  <2>4. HeapInv'
    BY <1>1, <1>3, <2>1, <2>2 DEF PipelineInv, HeapInv, Listeners, low
  <2>5. LogsInv'
    BY <1>3, <1>5, <2>1 DEF PipelineInv, LogsInv, InOrder, low
  <2>6. NewBlocksInv'
    BY <1>3, <2>1 DEF PipelineInv, NewBlocksInv, Confirmed, low, heap
  <2>7. QED
    BY <1>6, <1>7, <2>3, <2>4, <2>5, <2>6 DEF PipelineInv
<1>9. CASE IsStillOnChain(x)
  <2>1. x \in Waiting
    BY <1>2, <1>9 DEF EventsInv, IsGenuine, Waiting, heap
  <2>2. /\ listener'[l].at = "popping" /\ listener'[l].batch = Append(listener[l].batch, x)
        /\ \A k \in Listeners : listener'[k].at = listener[k].at
        /\ \A k \in Listeners : k # l => listener'[k] = listener[k]
    <3>1. listener' = [listener EXCEPT ![l].batch = Append(@, x)]
      BY <1>9 DEF Pop
    <3>2. listener \in [Listeners -> Listener]
      BY DEF TypeOK
    <3>3. QED
      BY <1>1, <3>1, <3>2 DEF Listener
  <2>3. /\ listener[l].batch \in Seq(Logs) /\ SeqSet(listener[l].batch) \subseteq Batches
        /\ SeqSet(listener'[l].batch) = SeqSet(listener[l].batch) \cup {x}
    BY <1>2, <2>2, Kinds, SetOfAppend, BatchesAre
  <2>4. Batches' = Batches \cup {x}
    <3>1. \A k \in Listeners : k # l => SeqSet(listener'[k].batch) = SeqSet(listener[k].batch)
      BY <2>2
    <3>2. QED
      BY <2>3, <3>1 DEF Batches
  <2>5. \A w \in Batches : w.blockNumber <= x.blockNumber /\ w.blockNumber \in Nat
    BY <2>1, PlacesHoldLogs, LogKinds DEF PipelineInv, BatchesInv, InOrder
  <2>6. BatchesInv'
    <3>1. IsSorted(listener'[l].batch)
      <4>1. IsSorted(listener[l].batch) /\ InOrder(SeqSet(listener[l].batch), {x})
        BY <2>3, <2>5 DEF PipelineInv, BatchesInv, InOrder
      <4>2. QED
        BY <1>2, <2>2, <2>3, <4>1, SortedAppend
    <3>2. \A k \in Listeners : IsSorted(listener'[k].batch)
      BY <2>2, <3>1 DEF PipelineInv, BatchesInv
    <3>3. \A y \in Waiting \cup Coming : x.blockNumber <= y.blockNumber
      BY <1>2, <2>1 DEF PipelineInv, FeedInv, InOrder, Waiting, heap
    <3>4. InOrder(Batches', Waiting' \cup Coming')
      BY <1>5, <2>4, <3>3 DEF PipelineInv, BatchesInv, InOrder
    <3>5. QED
      BY <3>2, <3>4 DEF BatchesInv
  <2>7. EngineInv'
    <3>1. Batches' \cup Waiting' \cup Coming' \subseteq Batches \cup Waiting \cup Coming
      BY <1>5, <2>1, <2>4
    <3>2. InOrder(Reached', Batches' \cup Waiting' \cup Coming')
      BY <1>4, <3>1 DEF PipelineInv, EngineInv, InOrder
    <3>3. QED
      BY <1>1, <3>2 DEF PipelineInv, EngineInv
  <2>8. HeapInv'
    <3>1. \A k \in Listeners : listener'[k].at = "idle" => listener'[k].batch = <<>>
      BY <1>1, <2>2 DEF PipelineInv, HeapInv
    <3>2. \A w \in Batches' : IsConfirmed(w, low)
      BY <1>2, <2>4 DEF PipelineInv, HeapInv, low
    <3>3. tracker'.mu # "nobody"
      BY <1>1, <1>3 DEF Listeners
    <3>4. QED
      BY <1>3, <3>1, <3>2, <3>3 DEF HeapInv
  <2>9. CASE l = "logs"
    <3>1. "blocks" \in Listeners /\ "blocks" # l
      BY <2>9 DEF Listeners
    <3>2. listener'["blocks"] = listener["blocks"] /\ listener["blocks"].at # "popping"
      BY <1>1, <2>2, <3>1 DEF MutexInv
    <3>3. LogsInv'
      <4>1. InOrder(Waiting, SeqSet(listener["logs"].batch)
                               \cup {log \in Waiting : IsConfirmed(log, low)})
        BY <1>1, <2>9 DEF PipelineInv, LogsInv, low
      <4>2. SeqSet(listener'["logs"].batch) \cup {log \in Waiting' : IsConfirmed(log, low)}
              \subseteq SeqSet(listener["logs"].batch) \cup {log \in Waiting : IsConfirmed(log, low)}
        BY <1>2, <1>5, <2>1, <2>3, <2>9
      <4>3. InOrder(Waiting', SeqSet(listener'["logs"].batch)
                                \cup {log \in Waiting' : IsConfirmed(log, low)})
        BY <1>5, <4>1, <4>2 DEF InOrder
      <4>4. QED
        BY <1>3, <2>2, <2>9, <4>3 DEF LogsInv
    <3>4. NewBlocksInv'
      <4>1. ASSUME NEW y \in SeqSet(listener["blocks"].batch) PROVE Confirmed(x)
        <5>1. Confirmed(y) /\ y \in Batches
          BY <3>1, <4>1, BatchesAre DEF PipelineInv, NewBlocksInv
        <5>2. y.blockNumber <= x.blockNumber /\ y.blockNumber \in Nat
          BY <2>5, <5>1
        <5>3. QED
          BY <1>2, <5>1, <5>2 DEF Confirmed, IsConfirmed, REQUIRED_BLOCK_CONFIRMATIONS, low
      <4>2. \A log : Confirmed(log)' = Confirmed(log)
        BY <1>3 DEF Confirmed, low
      <4>3. QED
        BY <2>3, <2>9, <3>2, <4>1, <4>2 DEF PipelineInv, NewBlocksInv
    <3>5. QED
      BY <1>6, <1>7, <2>6, <2>7, <2>8, <3>3, <3>4 DEF PipelineInv
  <2>10. CASE l = "blocks"
    <3>1. "logs" \in Listeners /\ "logs" # l
      BY <2>10 DEF Listeners
    <3>2. listener'["logs"] = listener["logs"] /\ listener["logs"].at # "popping"
      BY <1>1, <2>2, <3>1 DEF MutexInv
    <3>3. SeqSet(listener["logs"].batch) = {}
      <4>1. listener["logs"].at \in {"idle", "popping", "dispatching"}
        BY <3>1, Kinds DEF Listener
      <4>2. CASE listener["logs"].at = "idle"
        BY <3>1, <4>2, SetOfEmpty DEF PipelineInv, HeapInv
      <4>3. CASE listener["logs"].at = "dispatching"
        BY <2>1, <4>3 DEF PipelineInv, LogsInv
      <4>4. QED
        BY <3>2, <4>1, <4>2, <4>3
    <3>4. LogsInv'
      BY <3>2, <3>3 DEF LogsInv
    <3>5. Confirmed(x)
      <4>1. x.blockNumber + REQUIRED_BLOCK_CONFIRMATIONS >= low
        BY <1>1, <1>2, <2>10 DEF PipelineInv, NewBlocksInv, low, heap
      <4>2. QED
        BY <1>2, <4>1 DEF Confirmed, IsConfirmed, REQUIRED_BLOCK_CONFIRMATIONS, low
    <3>6. NewBlocksInv'
      <4>1. \A log : Confirmed(log)' = Confirmed(log)
        BY <1>3 DEF Confirmed, low
      <4>2. \A w \in SeqSet(listener'["blocks"].batch) : Confirmed(w)
        BY <2>3, <2>10, <3>5 DEF PipelineInv, NewBlocksInv
      <4>3. \A w \in BagToSet(tracker'.events) : w.blockNumber + REQUIRED_BLOCK_CONFIRMATIONS >= low
        BY <1>1, <1>3, <2>10 DEF PipelineInv, NewBlocksInv, low, heap
      <4>4. QED
        BY <1>3, <3>2, <3>3, <4>1, <4>2, <4>3 DEF NewBlocksInv
    <3>7. QED
      BY <1>6, <1>7, <2>6, <2>7, <2>8, <3>4, <3>6 DEF PipelineInv
  <2>11. QED
    BY <2>9, <2>10 DEF Listeners
<1>10. QED
  BY <1>8, <1>9

\* The pipeline is in order when the mutex is released: nothing in the heap is
\* confirmed then, and if a log of the subscription was popped nothing is left.
LEMMA OrderRelease ==
  ASSUME TypeOK, MutexInv, PipelineInv, NEW l \in Listeners, Release(l)
  PROVE  PipelineInv'
<1> DEFINE low == tracker.latestBlockNum
           heap == BagToSet(tracker.events)
<1>1. /\ listener[l].at = "popping" /\ tracker.mu = l /\ Ripe = {}
      /\ tracker' = [tracker EXCEPT !.mu = "nobody"]
      /\ listener' = [listener EXCEPT ![l].at = "dispatching"]
      /\ UNCHANGED <<chain, provider, resubs, out, handling, store>>
  BY DEF Release, MutexInv
<1>2. /\ tracker'.events = tracker.events /\ tracker'.mu = "nobody"
      /\ tracker'.latestBlockNum = low /\ low \in Nat
  <2>1. DOMAIN tracker = {"latestBlockNum", "events", "mu"} /\ low \in Nat
    BY DEF TypeOK
  <2>2. QED
    BY <1>1, <2>1
<1>3. /\ listener'[l].at = "dispatching" /\ Batches' = Batches
      /\ \A k \in Listeners : k # l => listener'[k] = listener[k]
      /\ \A k \in Listeners : listener'[k].batch = listener[k].batch
  BY <1>1, ListenerGoesTo
<1>4. OnChain' = OnChain /\ Reached' = Reached
  BY <1>1 DEF OnChain, Reached
<1>5. Waiting' = Waiting /\ Coming' = Coming
  BY <1>1, <1>2, <1>4 DEF Waiting, Coming
<1>6. SteadyInv' /\ HeadsInv' /\ HoldingsInv'
  BY <1>1, <1>2 DEF PipelineInv, SteadyInv, HeadsInv, HoldingsInv, Recorded
<1>7. FeedInv' /\ BatchesInv' /\ EngineInv'
  BY <1>1, <1>3, <1>4, <1>5 DEF PipelineInv, FeedInv, BatchesInv, EngineInv
<1> HIDE DEF low, heap
<1>8. ASSUME NEW log \in heap, IsConfirmed(log, low) PROVE FALSE
  <2>1. PICK x \in heap : \A other \in heap : x.blockNumber <= other.blockNumber
    BY <1>8, PlacesHoldLogs, OldestLog DEF heap
  <2>2. x.blockNumber \in Nat /\ log.blockNumber \in Nat
    BY <1>8, PlacesHoldLogs, LogKinds DEF heap
  <2>3. IsConfirmed(x, low)
    BY <1>2, <1>8, <2>1, <2>2 DEF IsConfirmed, REQUIRED_BLOCK_CONFIRMATIONS
  <2>4. x \in Ripe
    BY <2>1, <2>3 DEF Ripe, Tops, heap, low
  <2>5. QED
    BY <1>1, <2>4
<1>9. HeapInv'
  <2>1. \A log \in BagToSet(tracker'.events) : ~ IsConfirmed(log, tracker'.latestBlockNum)
    BY <1>2, <1>8 DEF heap
  <2>2. \A k \in Listeners : listener'[k].at = "idle" => listener'[k].batch = <<>>
    BY <1>3 DEF PipelineInv, HeapInv
  <2>3. QED
    BY <1>2, <1>3, <2>1, <2>2 DEF PipelineInv, HeapInv, low
<1>10. LogsInv'
  <2>1. "logs" \in Listeners
    BY DEF Listeners
  <2>2. CASE l = "logs"
    <3>1. ASSUME NEW w \in SeqSet(listener["logs"].batch), NEW y \in Waiting PROVE FALSE
      <4>1. y.blockNumber <= w.blockNumber
        BY <1>1, <2>2, <3>1 DEF PipelineInv, LogsInv, InOrder
      <4>2. w \in Batches /\ y \in heap
        BY <2>1, BatchesAre DEF Waiting, heap
      <4>3. IsConfirmed(w, low) /\ w.blockNumber \in Nat /\ y.blockNumber \in Nat
        BY <4>2, PlacesHoldLogs, LogKinds DEF PipelineInv, HeapInv, low, heap
      <4>4. IsConfirmed(y, low)
        BY <1>2, <4>1, <4>3 DEF IsConfirmed, REQUIRED_BLOCK_CONFIRMATIONS
      <4>5. QED
        BY <1>8, <4>2, <4>4
    <3>2. QED
      BY <1>3, <1>5, <2>1, <2>2, <3>1 DEF LogsInv
  <2>3. CASE l # "logs"
    BY <1>2, <1>3, <1>5, <2>1, <2>3 DEF PipelineInv, LogsInv, low
  <2>4. QED
    BY <2>2, <2>3
<1>11. NewBlocksInv'
  <2>1. "blocks" \in Listeners /\ "logs" \in Listeners
    BY DEF Listeners
  <2>2. listener'["blocks"].at # "popping"
    BY <1>1, <1>3, <2>1 DEF MutexInv
  <2>3. \A log : Confirmed(log)' = Confirmed(log)
    BY <1>2 DEF Confirmed, low
  <2>4. QED
    BY <1>3, <2>1, <2>2, <2>3 DEF PipelineInv, NewBlocksInv
<1>12. QED
  BY <1>6, <1>7, <1>9, <1>10, <1>11 DEF PipelineInv

\* The pipeline is in order when an event is pushed to the engine: the first of
\* a listener, which is not above those the other has.
LEMMA OrderDispatch ==
  ASSUME TypeOK, PipelineInv, NEW l \in Listeners, Dispatch(l)
  PROVE  PipelineInv'
<1> DEFINE b == listener[l].batch
           t == Tail(b)
           x == Head(b)
<1>1. /\ listener[l].at = "dispatching" /\ b # <<>> /\ b \in Seq(Logs) /\ out \in Seq(Logs)
      /\ out' = Append(out, x) /\ listener' = [listener EXCEPT ![l].batch = t]
      /\ UNCHANGED <<chain, provider, tracker, resubs, handling, store>>
  BY Kinds DEF Dispatch
<1>2. /\ x \in Logs /\ t \in Seq(Logs) /\ SeqSet(b) = {x} \cup SeqSet(t)
      /\ SeqSet(out') = SeqSet(out) \cup {x}
  BY <1>1, SetOfTail, SetOfAppend
<1>3. /\ listener'[l].batch = t /\ \A k \in Listeners : listener'[k].at = listener[k].at
      /\ \A k \in Listeners : k # l => listener'[k] = listener[k]
  <2>1. listener \in [Listeners -> Listener]
    BY DEF TypeOK
  <2>2. QED
    BY <1>1, <2>1 DEF Listener
<1>4. SeqSet(b) \subseteq Batches /\ IsSorted(b)
  BY BatchesAre DEF PipelineInv, BatchesInv
<1>5. IsSorted(t) /\ InOrder({x}, SeqSet(t))
  BY <1>1, <1>4, SortedTail
<1> HIDE DEF b, t, x
<1>6. /\ OnChain' = OnChain /\ Waiting' = Waiting /\ Coming' = Coming
      /\ Reached' = Reached \cup {x}
  <2>1. OnChain' = OnChain /\ Reached' = Reached \cup {x}
    BY <1>1, <1>2 DEF OnChain, Reached
  <2>2. QED
    BY <1>1, <2>1 DEF Waiting, Coming
<1>7. \A k \in Listeners : /\ SeqSet(listener'[k].batch) \subseteq SeqSet(listener[k].batch)
                           /\ IsSorted(listener'[k].batch)
  BY <1>2, <1>3, <1>5 DEF PipelineInv, BatchesInv, b
<1>8. Batches' \subseteq Batches /\ x \in Batches
  BY <1>2, <1>4, <1>7 DEF Batches
<1>9. SteadyInv' /\ HeadsInv' /\ HoldingsInv'
  BY <1>1 DEF PipelineInv, SteadyInv, HeadsInv, HoldingsInv, Recorded
<1>10. FeedInv' /\ BatchesInv'
  BY <1>1, <1>6, <1>7, <1>8 DEF PipelineInv, FeedInv, BatchesInv, InOrder
<1>11. \A y \in Batches' : x.blockNumber <= y.blockNumber
  <2>1. SUFFICES ASSUME NEW k \in Listeners, NEW y \in SeqSet(listener'[k].batch)
                 PROVE  x.blockNumber <= y.blockNumber
    BY DEF Batches
  <2>2. CASE k = l
    BY <1>3, <1>5, <2>1, <2>2 DEF InOrder
  <2>3. CASE k # l
    <3>1. Confirmed(x) /\ Confirmed(y)
      BY <1>2, <1>7, <2>1, <2>3 DEF PipelineInv, NewBlocksInv, Listeners, b
    <3>2. y \in Logs /\ x.blockNumber \in Nat /\ y.blockNumber \in Nat
      BY <1>2, <1>7, <2>1, PlacesHoldLogs, LogKinds
    <3>3. QED
      BY <3>1, <3>2 DEF Confirmed, REQUIRED_BLOCK_CONFIRMATIONS
  <2>4. QED
    BY <2>2, <2>3
<1>12. EngineInv'
  <2>1. \A y \in Reached : y.blockNumber <= x.blockNumber
    BY <1>8 DEF PipelineInv, EngineInv, InOrder
  <2>2. /\ SeqSet(out) \subseteq Reached /\ SeqSet(handling) \subseteq Reached
        /\ store.handled \subseteq Reached
    BY DEF Reached
  <2>3. IsSorted(out')
    <3>1. IsSorted(out) /\ InOrder(SeqSet(out), {x})
      BY <2>1, <2>2 DEF PipelineInv, EngineInv, InOrder
    <3>2. QED
      BY <1>1, <1>2, <3>1, SortedAppend
  <2>4. InOrder(SeqSet(handling), SeqSet(out')) /\ InOrder(store.handled, SeqSet(handling) \cup SeqSet(out'))
    BY <1>2, <2>1, <2>2 DEF PipelineInv, EngineInv, InOrder
  <2>5. \A y \in Waiting \cup Coming : x.blockNumber <= y.blockNumber
    BY <1>8 DEF PipelineInv, BatchesInv, InOrder
  <2>6. InOrder(Reached', Batches' \cup Waiting' \cup Coming')
    BY <1>6, <1>8, <1>11, <2>5 DEF PipelineInv, EngineInv, InOrder
  <2>7. QED
    BY <1>1, <2>3, <2>4, <2>6 DEF EngineInv
<1>13. HeapInv'
  <2>1. \A k \in Listeners : listener'[k].at = "idle" => listener'[k].batch = <<>>
    BY <1>1, <1>3 DEF PipelineInv, HeapInv
  <2>2. QED
    BY <1>1, <1>8, <2>1 DEF PipelineInv, HeapInv
<1>14. LogsInv' /\ NewBlocksInv'
  <2>1. "logs" \in Listeners /\ "blocks" \in Listeners
    BY DEF Listeners
  <2>2. LogsInv'
    BY <1>1, <1>3, <1>6, <1>7, <2>1 DEF PipelineInv, LogsInv, InOrder
  <2>3. NewBlocksInv'
    BY <1>1, <1>3, <1>7, <2>1 DEF PipelineInv, NewBlocksInv, Confirmed
  <2>4. QED
    BY <2>2, <2>3
<1>15. QED
  BY <1>9, <1>10, <1>12, <1>13, <1>14 DEF PipelineInv

\* The pipeline is in order when a listener is done.
LEMMA OrderDispatched ==
  ASSUME TypeOK, PipelineInv, NEW l \in Listeners, Dispatched(l)
  PROVE  PipelineInv'
<1>1. /\ listener[l].at = "dispatching" /\ listener[l].batch = <<>>
      /\ listener' = [listener EXCEPT ![l] = Idle]
      /\ UNCHANGED <<chain, provider, tracker, resubs, out, handling, store>>
  BY DEF Dispatched
<1>2. /\ listener'[l].at = "idle"
      /\ \A k \in Listeners : k # l => listener'[k] = listener[k]
      /\ \A k \in Listeners : listener'[k].batch = listener[k].batch
  <2>1. listener \in [Listeners -> Listener]
    BY DEF TypeOK
  <2>2. QED
    BY <1>1, <2>1 DEF Idle
<1>3. Batches' = Batches /\ OnChain' = OnChain /\ Reached' = Reached
  BY <1>1, <1>2 DEF Batches, OnChain, Reached
<1>4. Waiting' = Waiting /\ Coming' = Coming
  BY <1>1, <1>3 DEF Waiting, Coming
<1>5. SteadyInv' /\ HeadsInv' /\ HoldingsInv'
  BY <1>1 DEF PipelineInv, SteadyInv, HeadsInv, HoldingsInv, Recorded
<1>6. FeedInv' /\ BatchesInv' /\ EngineInv'
  BY <1>1, <1>2, <1>3, <1>4 DEF PipelineInv, FeedInv, BatchesInv, EngineInv
<1>7. HeapInv'
  BY <1>1, <1>2, <1>3 DEF PipelineInv, HeapInv
<1>8. LogsInv' /\ NewBlocksInv'
  <2>1. "logs" \in Listeners /\ "blocks" \in Listeners
    BY DEF Listeners
  <2>2. LogsInv'
    BY <1>1, <1>2, <1>4, <2>1 DEF PipelineInv, LogsInv
  <2>3. NewBlocksInv'
    BY <1>1, <1>2, <2>1 DEF PipelineInv, NewBlocksInv, Confirmed
  <2>4. QED
    BY <2>2, <2>3
<1>9. QED
  BY <1>5, <1>6, <1>7, <1>8 DEF PipelineInv

\* The pipeline is in order when the engine takes the next event.
LEMMA OrderTake ==
  ASSUME TypeOK, PipelineInv, TakeEvent
  PROVE  PipelineInv'
<1> DEFINE t == Tail(out)
           x == Head(out)
<1>1. /\ handling = <<>> /\ out # <<>> /\ out \in Seq(Logs) /\ handling' = <<x>> /\ out' = t
      /\ store'.handled = store.handled /\ store'.held = store.held
      /\ UNCHANGED <<chain, provider, tracker, listener, resubs>>
  BY Kinds DEF TakeEvent, Store
<1>2. x \in Logs /\ t \in Seq(Logs) /\ SeqSet(out) = {x} \cup SeqSet(t)
  BY <1>1, SetOfTail
<1>3. IsSorted(t) /\ InOrder({x}, SeqSet(t))
  BY <1>1, SortedTail DEF PipelineInv, EngineInv
<1> HIDE DEF t, x
<1>4. SeqSet(handling) = {} /\ SeqSet(handling') = {x}
  BY <1>1, SetOfEmpty DEF SeqSet
<1>5. OnChain' = OnChain /\ Batches' = Batches /\ Reached' = Reached
  BY <1>1, <1>2, <1>4 DEF OnChain, Batches, Reached
<1>6. Waiting' = Waiting /\ Coming' = Coming
  BY <1>1, <1>5 DEF Waiting, Coming
<1>7. EngineInv'
  <2>1. InOrder(SeqSet(handling'), SeqSet(out'))
    BY <1>1, <1>3, <1>4
  <2>2. SeqSet(handling') \cup SeqSet(out') = SeqSet(handling) \cup SeqSet(out)
    BY <1>1, <1>2, <1>4
  <2>3. QED
    BY <1>1, <1>3, <1>5, <1>6, <2>1, <2>2 DEF PipelineInv, EngineInv
<1>8. SteadyInv' /\ HeadsInv' /\ HoldingsInv'
  BY <1>1 DEF PipelineInv, SteadyInv, HeadsInv, HoldingsInv, Recorded
<1>9. FeedInv' /\ BatchesInv' /\ HeapInv'
  BY <1>1, <1>5, <1>6 DEF PipelineInv, FeedInv, BatchesInv, HeapInv
<1>10. LogsInv' /\ NewBlocksInv'
  BY <1>1, <1>6 DEF PipelineInv, LogsInv, NewBlocksInv, Confirmed
<1>11. QED
  BY <1>7, <1>8, <1>9, <1>10 DEF PipelineInv

\* The pipeline is in order when the engine has handled an event: no older one
\* will follow it, so what it says of the holdings is the newest that is known.
LEMMA OrderHandle ==
  ASSUME TypeOK, PipelineInv, HandleChainEvent
  PROVE  PipelineInv'
<1> DEFINE x == handling[1]
<1>1. /\ handling # <<>> /\ handling' = <<>> /\ handling \in Seq(Logs) /\ Len(handling) <= 1
      /\ UNCHANGED <<chain, provider, tracker, listener, resubs, out>>
  BY Kinds DEF TypeOK, HandleChainEvent
<1>2. SeqSet(handling) = {x} /\ SeqSet(handling') = {} /\ x \in Logs
  <2>1. Len(handling) = 1 /\ DOMAIN handling = 1..1
    BY <1>1
  <2>2. QED
    BY <1>1, <2>1, SetOfEmpty DEF SeqSet
<1>3. /\ store'.handled = store.handled \cup {x}
      /\ store'.held = IF ChangesHoldings(x) THEN [store.held EXCEPT ![x.channel] = x.held]
                       ELSE store.held
      /\ store.held \in [Channels -> Nat]
  <2>1. store \in Store
    BY Kinds
  <2>2. QED
    BY <2>1 DEF HandleChainEvent, Store
<1> HIDE DEF x
<1>4. OnChain' = OnChain /\ Batches' = Batches /\ Reached' = Reached
  BY <1>1, <1>2, <1>3 DEF OnChain, Batches, Reached
<1>5. Waiting' = Waiting /\ Coming' = Coming
  BY <1>1, <1>4 DEF Waiting, Coming
<1>6. EngineInv'
  <2>1. InOrder(SeqSet(handling'), SeqSet(out'))
    BY <1>2 DEF InOrder
  <2>2. InOrder(store'.handled, SeqSet(handling') \cup SeqSet(out'))
    BY <1>1, <1>2, <1>3 DEF PipelineInv, EngineInv, InOrder
  <2>3. QED
    BY <1>1, <1>4, <1>5, <2>1, <2>2 DEF PipelineInv, EngineInv
<1>7. ASSUME NEW c \in Channels
      PROVE  \/ Recorded(c)' = {} /\ store'.held[c] = 0
             \/ \E log \in Recorded(c)' : store'.held[c] = log.held /\ InOrder(Recorded(c)', {log})
  <2>1. CASE ChangesHoldings(x) /\ x.channel = c
    <3>1. x \in Recorded(c)' /\ store'.held[c] = x.held
      BY <1>3, <2>1 DEF Recorded, ChangesHoldings
    <3>2. Recorded(c)' \subseteq store.handled \cup {x}
      BY <1>3 DEF Recorded
    <3>3. x.blockNumber <= x.blockNumber
      BY <1>2, LogKinds
    <3>4. InOrder(store.handled, {x})
      BY <1>2 DEF PipelineInv, EngineInv, InOrder
    <3>5. QED
      BY <3>1, <3>2, <3>3, <3>4 DEF InOrder
  <2>2. CASE ~ (ChangesHoldings(x) /\ x.channel = c)
    <3>1. Recorded(c)' = Recorded(c)
      BY <1>3, <2>2 DEF Recorded, ChangesHoldings
    <3>2. store'.held[c] = store.held[c]
      BY <1>3, <2>2
    <3>3. QED
      BY <3>1, <3>2 DEF PipelineInv, HoldingsInv
  <2>3. QED
    BY <2>1, <2>2
<1>8. SteadyInv' /\ HeadsInv' /\ HoldingsInv'
  BY <1>1, <1>7 DEF PipelineInv, SteadyInv, HeadsInv, HoldingsInv
<1>9. FeedInv' /\ BatchesInv' /\ HeapInv'
  BY <1>1, <1>4, <1>5 DEF PipelineInv, FeedInv, BatchesInv, HeapInv
<1>10. LogsInv' /\ NewBlocksInv'
  BY <1>1, <1>5 DEF PipelineInv, LogsInv, NewBlocksInv, Confirmed
<1>11. QED
  BY <1>6, <1>8, <1>9, <1>10 DEF PipelineInv

\* The block the node stores as its last has no part in the order.
LEMMA OrderRest ==
  ASSUME PipelineInv, store'.handled = store.handled, store'.held = store.held,
         UNCHANGED <<chain, provider, tracker, listener, resubs, out, handling>>
  PROVE  PipelineInv'
<1>1. OnChain' = OnChain /\ Batches' = Batches /\ Reached' = Reached
  BY DEF OnChain, Batches, Reached
<1>2. Waiting' = Waiting /\ Coming' = Coming
  BY <1>1 DEF Waiting, Coming
<1>3. SteadyInv' /\ HeadsInv' /\ FeedInv' /\ BatchesInv' /\ EngineInv'
  BY <1>1, <1>2 DEF PipelineInv, SteadyInv, HeadsInv, FeedInv, BatchesInv, EngineInv
<1>4. HeapInv' /\ LogsInv' /\ NewBlocksInv' /\ HoldingsInv'
  BY <1>1, <1>2 DEF PipelineInv, HeapInv, LogsInv, NewBlocksInv, Confirmed, HoldingsInv, Recorded
<1>5. QED
  BY <1>3, <1>4 DEF PipelineInv

\* Every step keeps the pipeline in order, as long as the process does not end and
\* no subscription breaks.
LEMMA OrderNext ==
  ASSUME InductiveInv, OrderInv, [Next]_vars, InductiveInv' PROVE OrderInv'
<1> USE DEF InductiveInv
<1>1. SUFFICES ASSUME NeverEnded', spent'.breaks = 0 PROVE PipelineInv'
  BY DEF OrderInv
<1>2. spent' \in Budget /\ spent \in Budget /\ NeverEnded = (spent.stops = 0 /\ spent.failures = 0)
      /\ spent'.stops = 0 /\ spent'.failures = 0
  BY <1>1 DEF TypeOK, NeverEnded
<1>3. ASSUME NEW what \in {"reorgs", "failures", "breaks", "resubs", "ticks", "stops"}, Spend(what)
      PROVE  what \notin {"failures", "breaks", "stops"} /\ NeverEnded /\ spent.breaks = 0
  <2>1. spent'[what] = spent[what] + 1 /\ spent[what] \in Nat
    BY SpendType, <1>3
  <2>2. \A w \in {"failures", "stops", "breaks"} : w # what => spent'[w] = spent[w]
    BY SpendType, <1>3
  <2>3. what \notin {"failures", "breaks", "stops"}
    BY <1>1, <1>2, <2>1
  <2>4. spent.stops = 0 /\ spent.failures = 0 /\ spent.breaks = 0
    BY <1>1, <1>2, <2>2, <2>3
  <2>5. QED
    BY <1>2, <2>3, <2>4
<1>4. ASSUME NeverEnded, spent.breaks = 0
      PROVE  /\ PipelineInv /\ up /\ tracker.mu # "start"
             /\ provider.subErr = "quiet" /\ provider.connected /\ resubs = <<>> /\ provider.subs = 1
  BY <1>4 DEF OrderInv, DeliveryInv, PipelineInv, SteadyInv, SubscriptionInv
<1>5. CASE spent' = spent
  <2>1. NeverEnded /\ spent.breaks = 0
    BY <1>1, <1>2, <1>5
  <2>2. /\ PipelineInv /\ up /\ tracker.mu # "start"
        /\ provider.subErr = "quiet" /\ resubs = <<>> /\ provider.subs = 1
    BY <1>4, <2>1
  <2>3. CASE UNCHANGED vars
    BY <2>2, <2>3, OrderRest DEF vars
  <2>4. CASE TrackEvents
    BY <2>2, <2>4, OrderLogs, OrderBlocks, OrderPop, OrderRelease, OrderDispatch, OrderDispatched
       DEF TrackEvents
  <2>5. CASE TakeEvent \/ HandleChainEvent
    BY <2>2, <2>5, OrderTake, OrderHandle
  <2>6. ASSUME NEW tx \in Txs \cup {NoTx}, Mine(tx) PROVE PipelineInv'
    <3>1. ChainMoves /\ MovesInOrder
      BY <2>6, MineMoves, MineInOrder
    <3>2. QED
      BY <2>2, <2>6, <3>1, OrderMoves DEF Mine
  <2>7. CASE RenewSubscription \/ Start \/ FinishStart \/ AttemptFails
    BY <2>2, <2>7 DEF RenewSubscription, ListenForSubscriptionError, BeginResubscription,
       Resubscribe, FinishResubscription, Start, FinishStart, AttemptFails
  <2>8. ASSUME NEW what \in {"reorgs", "failures", "breaks", "resubs", "ticks", "stops"}, Spend(what)
        PROVE  FALSE
    <3>1. spent'[what] = spent[what] + 1 /\ spent[what] \in Nat
      BY SpendType, <2>8
    <3>2. QED
      BY <1>5, <3>1
  <2>9. QED
    BY <2>3, <2>4, <2>5, <2>6, <2>7, <2>8 DEF Next, Serve, Reorganise, SubscriptionBreaks,
       ResubscriptionFails, RequestFails, BlockTicker, Stop
<1>6. ASSUME NEW depth \in 1..REQUIRED_BLOCK_CONFIRMATIONS,
             NEW keep \in 0..REQUIRED_BLOCK_CONFIRMATIONS, Reorganise(depth, keep)
      PROVE  PipelineInv'
  <2>1. NeverEnded /\ spent.breaks = 0
    BY <1>3, <1>6 DEF Reorganise
  <2>2. ChainMoves /\ MovesInOrder
    BY <1>6, ReorganiseMoves, ReorganiseInOrder
  <2>3. QED
    BY <1>4, <1>6, <2>1, <2>2, OrderMoves DEF Reorganise
<1>7. CASE BlockTicker
  <2>1. NeverEnded /\ spent.breaks = 0
    BY <1>3, <1>7 DEF BlockTicker
  <2>2. /\ store'.handled = store.handled /\ store'.held = store.held
        /\ UNCHANGED <<chain, provider, tracker, listener, resubs, out, handling>>
    BY <1>7, Kinds DEF BlockTicker, Store
  <2>3. QED
    BY <1>4, <2>1, <2>2, OrderRest
<1>8. CASE SubscriptionBreaks \/ ResubscriptionFails \/ RequestFails \/ Stop
  BY <1>3, <1>8 DEF SubscriptionBreaks, ResubscriptionFails, RequestFails, Stop
<1>9. CASE ListenForSubscriptionError
  <2>1. NeverEnded /\ spent.breaks = 0
    BY <1>3, <1>9 DEF ListenForSubscriptionError
  <2>2. QED
    BY <1>4, <1>9, <2>1 DEF ListenForSubscriptionError
<1>10. QED
  <2>1. ASSUME NEW tx, Mine(tx) PROVE spent' = spent
    BY <2>1 DEF Mine, bounds
  <2>2. ASSUME TakeEvent \/ HandleChainEvent \/ Start \/ FinishStart \/ AttemptFails
               \/ BeginResubscription \/ Resubscribe \/ FinishResubscription \/ UNCHANGED vars
        PROVE  spent' = spent
    BY <2>2 DEF TakeEvent, HandleChainEvent, Start, FinishStart, AttemptFails,
       BeginResubscription, Resubscribe, FinishResubscription, vars, bounds
  <2>3. ASSUME TrackEvents PROVE spent' = spent
    BY <2>3 DEF TrackEvents, ListenForEventLogs, ListenForNewBlocks, Pop, Release, Dispatch,
       Dispatched, bounds
  <2>4. QED
    BY <1>5, <1>6, <1>7, <1>8, <1>9, <2>1, <2>2, <2>3 DEF Next, Serve, RenewSubscription

-----------------------------------------------------------------------------
(***************************************************************************)
(* What the node records, when all is handled.                             *)
(***************************************************************************)
\* The contract holds for a channel what it held before the blocks that have no
\* transaction of the channel, and at first nothing.
LEMMA HoldingsStay ==
  ASSUME NEW blocks, NEW c, NEW a \in Nat, NEW b \in Nat, a <= b,
         \A n \in (a + 1)..b, kind \in {"deposit", "conclude"} :
           blocks[n].tx # [kind |-> kind, channel |-> c]
  PROVE  HeldAfter(blocks, b, c) = HeldAfter(blocks, a, c) /\ HeldAfter(blocks, 0, c) = 0
<1> DEFINE Has(kind, last) == {n \in 1..last : blocks[n].tx = [kind |-> kind, channel |-> c]}
<1>1. \A last : HeldAfter(blocks, last, c) = IF Has("conclude", last) # {} THEN 0
                                            ELSE Cardinality(Has("deposit", last))
  BY DEF HeldAfter
<1>2. ASSUME NEW kind \in {"deposit", "conclude"} PROVE Has(kind, b) = Has(kind, a)
  <2>1. \A n \in 1..b : n \in 1..a \/ n \in (a + 1)..b
    OBVIOUS
  <2>2. 1..a \subseteq 1..b
    OBVIOUS
  <2>3. QED
    BY <2>1, <2>2
<1>3. \A kind : Has(kind, 0) = {}
  OBVIOUS
<1> HIDE DEF Has
<1>4. Has("conclude", b) = Has("conclude", a) /\ Has("deposit", b) = Has("deposit", a)
  BY <1>2
<1>5. HeldAfter(blocks, b, c) = HeldAfter(blocks, a, c)
  BY <1>1, <1>4
<1>6. HeldAfter(blocks, 0, c) = 0
  BY <1>1, <1>3, FS_EmptySet
<1>7. QED
  BY <1>5, <1>6

\* Each deposit and each conclusion has a log that says what the contract holds
\* for the channel from then on.
LEMMA HoldingsAreLogged ==
  ASSUME TypeOK, NEW c \in Channels, NEW b \in 1..Len(chain), NEW kind \in {"deposit", "conclude"},
         chain[b].tx = [kind |-> kind, channel |-> c]
  PROVE  \E log \in OnChain : ChangesHoldings(log) /\ log.channel = c /\ log.blockNumber = b
<1> DEFINE topic == IF kind = "deposit" THEN "Deposited" ELSE "AllocationUpdated"
           log == [topic |-> topic, channel |-> chain[b].tx.channel, blockNumber |-> b,
                   blockHash |-> chain[b].hash, held |-> HeldAfter(chain, b, chain[b].tx.channel)]
<1>1. chain[b].tx.kind = kind /\ chain[b].tx.channel = c
  OBVIOUS
<1>2. topic \in TopicsOf(chain[b].tx)
  BY <1>1 DEF TopicsOf
<1>3. log \in LogsOf(chain, b)
  BY <1>2 DEF LogsOf
<1>4. log \in OnChain
  BY <1>3, OnChainIs
<1>5. ChangesHoldings(log) /\ log.channel = c /\ log.blockNumber = b
  BY <1>1 DEF ChangesHoldings
<1>6. QED
  BY <1>4, <1>5

\* When nothing is on the way, the node has handled the events of exactly the
\* blocks that are confirmed.
LEMMA QuietIsHandled ==
  ASSUME InductiveInv, NeverEnded, PipelineInv, IsQuiet
  PROVE  /\ LastConfirmedBlockNum \in Nat /\ LastConfirmedBlockNum <= Len(chain)
         /\ \A log \in OnChain : log.blockNumber <= LastConfirmedBlockNum => log \in store.handled
         /\ \A log \in store.handled : log \in OnChain /\ log.blockNumber <= LastConfirmedBlockNum
<1> USE DEF InductiveInv
<1>1. /\ tracker.latestBlockNum = Len(chain) /\ Len(chain) \in Nat /\ tracker.mu = "nobody"
      /\ LastConfirmedBlockNum = IF Len(chain) - 2 > 0 THEN Len(chain) - 2 ELSE 0
  BY Kinds DEF IsQuiet, LastConfirmedBlockNum, Later, REQUIRED_BLOCK_CONFIRMATIONS
<1>2. LastConfirmedBlockNum \in Nat /\ LastConfirmedBlockNum <= Len(chain)
  BY <1>1
<1>3. Reached = store.handled /\ Held = BagToSet(tracker.events)
  <2>1. SeqSet(out) = {} /\ SeqSet(handling) = {} /\ SeqSet(provider.feed) = {}
    BY SetOfEmpty DEF IsQuiet
  <2>2. \A l \in Listeners : SeqSet(listener[l].batch) = {}
    BY SetOfEmpty DEF IsQuiet, Idle
  <2>3. QED
    BY <2>1, <2>2 DEF Reached, Held
<1>4. \A log : ~ IsYetToFetch(log)
  <2>1. resubs = <<>> /\ DOMAIN resubs = {} /\ provider.connected
    BY DEF IsQuiet
  <2>2. QED
    BY <2>1 DEF IsYetToFetch
<1>5. ASSUME NEW log \in OnChain, log.blockNumber <= LastConfirmedBlockNum PROVE log \in store.handled
  <2>1. log \in store.handled \/ log \in BagToSet(tracker.events)
    BY <1>3, <1>4, <1>5 DEF DeliveryInv
  <2>2. log.blockNumber \in 1..Len(chain)
    BY <1>5, OnChainIs
  <2>3. IsConfirmed(log, tracker.latestBlockNum)
    BY <1>1, <1>5, <2>2 DEF IsConfirmed, REQUIRED_BLOCK_CONFIRMATIONS
  <2>4. QED
    BY <1>1, <2>1, <2>3 DEF PipelineInv, HeapInv
<1>6. ASSUME NEW log \in store.handled PROVE log \in OnChain /\ log.blockNumber <= LastConfirmedBlockNum
  <2>1. log \in OnChain /\ Len(chain) - log.blockNumber >= 2
    BY <1>3 DEF EventsInv, IsSettled
  <2>2. log.blockNumber \in Nat
    BY <2>1, PlacesHoldLogs, LogKinds
  <2>3. QED
    BY <1>1, <2>1, <2>2
<1>7. QED
  BY <1>2, <1>5, <1>6

\* When nothing is on the way, the holdings recorded are those as of the last
\* confirmed block: the newest event of a channel was handled last, and no later
\* confirmed block has a transaction of the channel.
LEMMA QuietHoldings ==
  ASSUME InductiveInv, OrderInv, NeverEnded, IsQuiet, spent.breaks = 0, NEW c \in Channels
  PROVE  store.held[c] = HeldAfter(chain, LastConfirmedBlockNum, c)
<1> DEFINE last == LastConfirmedBlockNum
<1>1. PipelineInv /\ TypeOK
  BY DEF OrderInv, InductiveInv
<1>2. /\ last \in Nat /\ last <= Len(chain) /\ Len(chain) \in Nat
      /\ \A log \in OnChain : log.blockNumber <= last => log \in store.handled
      /\ \A log \in store.handled : log \in OnChain /\ log.blockNumber <= last
  BY <1>1, QuietIsHandled, Kinds
<1> HIDE DEF last
<1>3. ASSUME NEW b \in 1..last, NEW kind \in {"deposit", "conclude"},
             chain[b].tx = [kind |-> kind, channel |-> c]
      PROVE  \E log \in Recorded(c) : log.blockNumber = b
  <2>1. b \in 1..Len(chain)
    BY <1>2
  <2>2. PICK log \in OnChain : ChangesHoldings(log) /\ log.channel = c /\ log.blockNumber = b
    BY <1>1, <1>3, <2>1, HoldingsAreLogged
  <2>3. QED
    BY <1>2, <2>2 DEF Recorded
<1>4. CASE Recorded(c) = {} /\ store.held[c] = 0
  <2>1. \A n \in (0 + 1)..last, kind \in {"deposit", "conclude"} :
          chain[n].tx # [kind |-> kind, channel |-> c]
    BY <1>3, <1>4
  <2>2. HeldAfter(chain, last, c) = HeldAfter(chain, 0, c) /\ HeldAfter(chain, 0, c) = 0
    BY <1>2, <2>1, HoldingsStay
  <2>3. QED
    BY <1>4, <2>2 DEF last
<1>5. CASE \E log \in Recorded(c) : store.held[c] = log.held /\ InOrder(Recorded(c), {log})
  <2>1. PICK x \in Recorded(c) : store.held[c] = x.held /\ InOrder(Recorded(c), {x})
    BY <1>5
  <2> DEFINE a == x.blockNumber
  <2>2. x \in OnChain /\ a <= last /\ x.channel = c
    BY <1>2, <2>1 DEF Recorded
  <2>3. a \in 1..Len(chain) /\ a \in Nat /\ x \in LogsOf(chain, a)
    BY <1>1, <2>2, OnChainIs
  <2>4. x.held = HeldAfter(chain, a, c)
    BY <2>2, <2>3 DEF LogsOf
  <2> HIDE DEF a
  <2>5. ASSUME NEW n \in (a + 1)..last, NEW kind \in {"deposit", "conclude"},
               chain[n].tx = [kind |-> kind, channel |-> c]
        PROVE  FALSE
    <3>1. n \in 1..last
      BY <1>2, <2>3
    <3>2. PICK log \in Recorded(c) : log.blockNumber = n
      BY <1>3, <2>5, <3>1
    <3>3. n <= a
      BY <2>1, <3>2 DEF InOrder, a
    <3>4. QED
      BY <1>2, <2>3, <3>3
  <2>6. \A n \in (a + 1)..last, kind \in {"deposit", "conclude"} :
          chain[n].tx # [kind |-> kind, channel |-> c]
    BY <2>5
  <2>7. HeldAfter(chain, last, c) = HeldAfter(chain, a, c)
    BY <1>2, <2>2, <2>3, <2>6, HoldingsStay
  <2>8. QED
    BY <2>1, <2>4, <2>7 DEF last
<1>6. QED
  BY <1>1, <1>4, <1>5 DEF PipelineInv, HoldingsInv

-----------------------------------------------------------------------------
(***************************************************************************)
(* The theorems.                                                           *)
(***************************************************************************)
\* The service starts subscribed, and with nothing to do.
LEMMA InitInv == ASSUME Init PROVE InductiveInv
<1>1. provider = Subscribed /\ Subscribed \in Provider
  <2>1. Unsubscribed \in Provider
    BY DEF Provider, Unsubscribed
  <2>2. QED
    BY <2>1 DEF Init, Subscribed, Provider
<1>2. /\ chain = <<>> /\ mined = 0 /\ resubs = <<>> /\ out = <<>> /\ handling = <<>> /\ up = TRUE
      /\ tracker.latestBlockNum = 0 /\ tracker.events = EmptyBag /\ tracker.mu = "nobody"
      /\ DOMAIN tracker = {"latestBlockNum", "events", "mu"}
      /\ store.lastBlock = 0 /\ store.handled = {}
  BY DEF Init
<1>3. TypeOK
  <2>1. listener \in [Listeners -> Listener]
    BY DEF Init, Idle, Listener
  <2>2. store \in Store
    BY DEF Init, Store
  <2>3. budget \in Budget /\ spent \in Budget
    <3>1. budget \in Budget
      BY BoundsAssumption DEF Init
    <3>2. QED
      BY <3>1 DEF Init, Budget
  <2>4. /\ <<>> \in Seq(Block) /\ <<>> \in Seq(Logs) /\ <<>> \in Seq(Resubscription)
        /\ Len(<<>>) = 0 /\ MaxBlock \in Nat
    BY BoundsAssumption
  <2>5. QED
    BY <1>1, <1>2, <2>1, <2>2, <2>3, <2>4, BagOfSet DEF TypeOK
<1>4. OnChain = {} /\ DOMAIN chain = {} /\ DOMAIN resubs = {} /\ Len(chain) = 0
  BY <1>2 DEF OnChain
<1>5. /\ SeqSet(provider.feed) = {} /\ SeqSet(provider.heads) = {}
      /\ provider.connected /\ provider.subs = 1 /\ provider.subErr = "quiet"
  BY <1>1, SetOfEmpty DEF Subscribed, Unsubscribed
<1>6. BagToSet(tracker.events) = {} /\ Reached = {} /\ Batches = {}
  <2>1. \A l \in Listeners : SeqSet(listener[l].batch) = {}
    BY SetOfEmpty DEF Init, Idle
  <2>2. Batches = {}
    BY <2>1 DEF Batches
  <2>3. QED
    BY <1>2, <2>2, BagOfSet, SetOfEmpty DEF Reached
<1>7. EventsInv
  BY <1>4, <1>5, <1>6 DEF EventsInv
<1>8. BlocksInv
  BY <1>2, <1>4, <1>5 DEF BlocksInv
<1>9. MutexInv
  BY <1>2, <1>4 DEF MutexInv, Init, Idle, Listeners
<1>10. SubscriptionInv
  BY <1>2, <1>4, <1>5 DEF SubscriptionInv
<1>11. DeliveryInv
  BY <1>2, <1>4 DEF DeliveryInv
<1>12. QED
  BY <1>3, <1>7, <1>8, <1>9, <1>10, <1>11 DEF InductiveInv

\* Every step preserves the invariant.
LEMMA NextInv == ASSUME InductiveInv, [Next]_vars PROVE InductiveInv'
<1> USE DEF InductiveInv
<1>1. TypeOK'
  BY TypeNext
<1>2. EventsInv' /\ BlocksInv' /\ MutexInv' /\ SubscriptionInv'
  BY <1>1, EventsNext, BlocksNext, MutexNext, SubscriptionNext
<1>3. DeliveryInv'
  BY <1>1, DeliveryNext
<1>4. QED
  BY <1>1, <1>2, <1>3

\* At the beginning there is nothing on the way.
LEMMA InitOrder == ASSUME Init PROVE OrderInv
<1>1. provider.feed = <<>> /\ provider.heads = <<>> /\ provider.connected /\ provider.subErr = "quiet"
  BY DEF Init, Subscribed, Unsubscribed
<1>2. /\ chain = <<>> /\ resubs = <<>> /\ out = <<>> /\ handling = <<>>
      /\ tracker.latestBlockNum = 0 /\ tracker.events = EmptyBag
      /\ store.handled = {} /\ \A c \in Channels : store.held[c] = 0
      /\ \A l \in Listeners : listener[l].at = "idle" /\ listener[l].batch = <<>>
  BY DEF Init, Idle
<1>3. OnChain = {} /\ Len(chain) = 0 /\ DOMAIN provider.heads = {} /\ DOMAIN provider.feed = {}
  BY <1>1, <1>2 DEF OnChain
<1>4. BagToSet(tracker.events) = {} /\ Batches = {} /\ SeqSet(out) = {} /\ SeqSet(handling) = {}
  BY <1>2, SetOfEmpty, BagOfSet DEF Batches
<1>5. Coming = {} /\ Waiting = {} /\ \A c \in Channels : Recorded(c) = {}
  BY <1>2, <1>3 DEF Coming, Waiting, Recorded
<1>6. SteadyInv /\ HeadsInv /\ FeedInv
  BY <1>1, <1>2, <1>3, <1>5 DEF SteadyInv, HeadsInv, FeedInv, InOrder
<1>7. BatchesInv /\ EngineInv /\ HoldingsInv
  BY <1>2, <1>4, <1>5 DEF BatchesInv, EngineInv, HoldingsInv, InOrder, IsSorted
<1>8. HeapInv /\ LogsInv /\ NewBlocksInv
  <2>1. "logs" \in Listeners /\ "blocks" \in Listeners
    BY DEF Listeners
  <2>2. QED
    BY <1>2, <1>4, <2>1, SetOfEmpty DEF HeapInv, LogsInv, NewBlocksInv
<1>9. QED
  BY <1>6, <1>7, <1>8 DEF OrderInv, PipelineInv

\* The inductive invariant holds, whatever the chain, its subscriptions, the
\* faults and the order of the steps.
THEOREM Invariance == Spec => []InductiveInv
BY InitInv, NextInv, PTL DEF Spec

\* The variables keep to their kinds: no subscription is given up that the node
\* does not have, and no event is taken from an empty queue (eth-chainservice.ts).
THEOREM TypeCorrectness == Spec => []TypeOK
<1>1. InductiveInv => TypeOK
  BY DEF InductiveInv
<1>2. QED
  BY <1>1, Invariance, PTL

\* Whatever reaches the engine is an event of a block that is still part of the
\* chain and has its confirmations, although the chain may be reorganised between
\* the check of updateEventTracker and the dispatch.
THEOREM DispatchedIsConfirmedHolds == Spec => []DispatchedIsConfirmed
<1>1. InductiveInv => DispatchedIsConfirmed
  BY DEF InductiveInv, EventsInv, DispatchedIsConfirmed, IsSettled
<1>2. QED
  BY <1>1, Invariance, PTL

\* As long as the process does not end, no event on the chain is lost between the
\* chain and the engine, however often the subscriptions break, blocks are
\* reorganised and the engine's ticker runs.
THEOREM NothingIsLostHolds == Spec => [](NeverEnded => NothingIsLost)
<1>1. ASSUME InductiveInv, NeverEnded PROVE NothingIsLost
  <2>1. up /\ \A log \in OnChain : log \in Reached \cup Held \/ IsYetToFetch(log)
    BY <1>1 DEF InductiveInv, DeliveryInv
  <2>2. ASSUME NEW log, IsYetToFetch(log) PROVE WillBeFetched(log)
    BY <2>1, <2>2 DEF IsYetToFetch, WillBeFetched
  <2>3. QED
    BY <2>1, <2>2 DEF NothingIsLost
<1>2. InductiveInv => (NeverEnded => NothingIsLost)
  BY <1>1
<1>3. QED
  BY <1>2, Invariance, PTL

\* While the process does not end and no subscription breaks, the logs are in the
\* order of their blocks all along the way from the chain to the engine, those of
\* blocks that were reorganised away apart: the two listeners, which take turns at
\* the heap and dispatch without the mutex, do not overtake each other.
THEOREM OrderInvariance == Spec => []OrderInv
<1>1. Init => OrderInv
  BY InitOrder
<1>2. InductiveInv /\ InductiveInv' /\ OrderInv /\ [Next]_vars => OrderInv'
  BY OrderNext
<1>3. QED
  BY <1>1, <1>2, Invariance, PTL DEF Spec

\* As long as the process does not end, once everything is handled the node
\* records what the contract holds for each channel as of the last confirmed
\* block: the engine was given no older event after a newer one
\* (updateEventTracker, dispatchChainEvents, handleChainEvent).
THEOREM HoldingsAreRightHolds == Spec => [](NeverEnded => HoldingsAreRight)
<1>1. InductiveInv /\ OrderInv => (NeverEnded => HoldingsAreRight)
  BY QuietHoldings DEF HoldingsAreRight
<1>2. QED
  BY <1>1, Invariance, OrderInvariance, PTL
=============================================================================
