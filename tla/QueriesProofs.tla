--------------------------- MODULE QueriesProofs ---------------------------
(***************************************************************************)
(* Proofs about Queries, for any number of payment channels, any total and *)
(* any mix of queries, closings and crashes.                               *)
(***************************************************************************)
EXTENDS Queries, FiniteSetTheorems, SequenceTheorems, TLAPS

-----------------------------------------------------------------------------
(***************************************************************************)
(* Statuses and levels.                                                    *)
(***************************************************************************)
\* The order of the statuses.
LEMMA RankIs ==
  /\ Status = {"Proposed", "Open", "Closing", "Complete"}
  /\ Rank("Proposed") = 1 /\ Rank("Open") = 2
  /\ Rank("Closing") = 3 /\ Rank("Complete") = 4
<1>1. /\ Len(Statuses) = 4 /\ DOMAIN Statuses = 1..4
      /\ Statuses[1] = "Proposed" /\ Statuses[2] = "Open"
      /\ Statuses[3] = "Closing" /\ Statuses[4] = "Complete"
  BY DEF Statuses
<1>2. Status = {"Proposed", "Open", "Closing", "Complete"}
  BY <1>1 DEF Status, Range
<1>3. QED
  BY <1>1, <1>2 DEF Rank

\* The status that a Channel has, and the stage it stands for.
LEMMA StatusIs ==
  ASSUME NEW c \in Channel
  PROVE  /\ StatusFromChannel(c) \in Status /\ PaymentStatus(c) \in Status
         /\ StageOf(c) \in 1..4
         /\ Rank(StatusFromChannel(c)) \in 1..StageOf(c)
         /\ Rank(PaymentStatus(c)) \in 1..StageOf(c)
         /\ c.final = "all" => Rank(StatusFromChannel(c)) = 4
         /\ c.final = "mine" => Rank(StatusFromChannel(c)) = 3
         /\ c.postfund = "all" => Rank(StatusFromChannel(c)) >= 2 /\ Rank(PaymentStatus(c)) >= 2
         /\ Intermediary /\ c.postfund # "none" => Rank(PaymentStatus(c)) = 2
         /\ ~ Intermediary \/ c.postfund = "none" => PaymentStatus(c) = StatusFromChannel(c)
<1>1. c.postfund \in {"none", "mine", "all"} /\ c.final \in {"none", "mine", "all"}
  BY DEF Channel
<1>2. /\ StatusFromChannel(c) \in Status /\ StageOf(c) \in 1..4
      /\ Rank(StatusFromChannel(c)) \in 1..StageOf(c)
      /\ c.final = "all" => Rank(StatusFromChannel(c)) = 4
      /\ c.final = "mine" => Rank(StatusFromChannel(c)) = 3
      /\ c.postfund = "all" => Rank(StatusFromChannel(c)) >= 2
      /\ c.postfund # "none" => StageOf(c) >= 2
  BY <1>1, RankIs DEF StatusFromChannel, StageOf
<1>3. CASE Intermediary /\ c.postfund # "none"
  <2>1. PaymentStatus(c) = "Open"
    BY <1>3 DEF PaymentStatus
  <2>2. QED
    BY <1>2, <1>3, <2>1, RankIs
<1>4. CASE ~ (Intermediary /\ c.postfund # "none")
  <2>1. PaymentStatus(c) = StatusFromChannel(c)
    BY <1>4 DEF PaymentStatus
  <2>2. QED
    BY <1>2, <1>4, <2>1
<1>5. QED
  BY <1>3, <1>4

\* A level is a number, and nothing has level zero.
LEMMA LevelIs ==
  ASSUME NEW w \in Writes
  PROVE  /\ Level(w.table, w.value) \in Nat
         /\ Level(w.table, w.value) = 0 <=> w.value = None
<1>1. CASE w \in [table : {"objectives"}, key : Objectives, value : Standing]
  BY <1>1, NoneAssumption DEF Level, StandingLevel, Standing
<1>2. CASE w \in [table : {"notices"}, key : ChannelIds, value : Info]
  BY <1>2, NoneAssumption, RankIs DEF Level, Info
<1>3. CASE w \in [table : {"vouchers"}, key : Payments, value : Amount]
  BY <1>3, NoneAssumption DEF Level, Amount
<1>4. CASE w.table \in {"consensus", "owner"}
  BY <1>4 DEF Level
<1>5. CASE w.table = "channels"
  <2>1. w.value = None \/ w.value \in Channel
    BY <1>5 DEF Writes
  <2>2. CASE w.value = None
    BY <2>2 DEF Level
  <2>3. CASE w.value \in Channel
    <3>1. Rank(PaymentStatus(w.value)) \in 1..4 /\ w.value # None
      BY <2>3, StatusIs, NoneAssumption
    <3>2. QED
      BY <1>5, <3>1 DEF Level
  <2>4. QED
    BY <2>1, <2>2, <2>3
<1>6. QED
  BY <1>1, <1>2, <1>3, <1>4, <1>5 DEF Writes

-----------------------------------------------------------------------------
(***************************************************************************)
(* The tables of the store.                                                *)
(***************************************************************************)
\* The kinds of what they hold.
LEMMA TableIs ==
  ASSUME TypeOK, NEW table \in DOMAIN store, NEW key \in DOMAIN store[table]
  PROVE  /\ store[table][key] = None \/ Put(table, key, store[table][key]) \in Writes
         /\ Level(table, store[table][key]) \in Nat
         /\ Level(table, store[table][key]) = 0 <=> store[table][key] = None
<1>1. ASSUME store[table][key] # None PROVE Put(table, key, store[table][key]) \in Writes
  BY <1>1 DEF TypeOK, Writes, Put, ChannelIds
<1>2. CASE store[table][key] = None
  BY <1>2 DEF Level
<1>3. CASE store[table][key] # None
  <2>1. PICK w \in Writes : w.table = table /\ w.value = store[table][key]
    BY <1>1, <1>3 DEF Put
  <2>2. QED
    BY <1>1, <1>3, <2>1, LevelIs
<1>4. QED
  BY <1>2, <1>3

\* One put or del.
LEMMA WriteIs ==
  ASSUME TypeOK, NEW w \in Writes, store' = After(w)
  PROVE  /\ DOMAIN store' = DOMAIN store
         /\ w.table \in DOMAIN store /\ w.key \in DOMAIN store[w.table]
         /\ \A table \in DOMAIN store :
              /\ DOMAIN store'[table] = DOMAIN store[table]
              /\ \A key \in DOMAIN store[table] :
                   store'[table][key] = IF table = w.table /\ key = w.key THEN w.value
                                        ELSE store[table][key]
<1>1. w.table \in DOMAIN store /\ w.key \in DOMAIN store[w.table]
  BY DEF TypeOK, Writes, ChannelIds
<1>2. QED
  BY <1>1 DEF After

\* What a write may need: another table at a level above none.
LEMMA NeedsAre ==
  ASSUME TypeOK, NEW w \in Writes, NEW need \in Needs(w)
  PROVE  /\ need.table \in DOMAIN store /\ need.key \in DOMAIN store[need.table]
         /\ need.level \in Nat /\ need.level > 0
         /\ \/ OnlyRises(need.table, need.key)
            \/ w = Del("channels", Ledger) /\ need = Least("consensus", Ledger, 1)
<1>1. \A key \in ChannelIds : FundOf(key) \in Objectives /\ DefundOf(key) \in Objectives
  BY LedgerAssumption DEF ChannelIds, FundOf, DefundOf, Objectives
<1>2. /\ DOMAIN store.objectives = Objectives /\ DOMAIN store.channels = ChannelIds
      /\ DOMAIN store.vouchers = Payments /\ DOMAIN store.consensus = {Ledger}
      /\ DOMAIN store = {"objectives", "channels", "consensus", "owner", "vouchers", "notices"}
  BY DEF TypeOK
<1>3. ASSUME NEW key \in ChannelIds, NEW stage, need \in StageNeeds(key, stage)
      PROVE  /\ need.table = "objectives" /\ need.key \in Objectives
             /\ need.level \in {3, 4}
  BY <1>1, <1>3 DEF StageNeeds, Least
<1>4. CASE w.table = "owner"
  <2>1. w.value # None /\ w.value \in Objectives /\ need = Least("objectives", w.value, 1)
    BY <1>4 DEF Needs, Writes
  <2>2. QED
    BY <1>2, <2>1 DEF Least, OnlyRises
<1>5. CASE w.table = "consensus"
  <2>1. w.value # None /\ w.value \in Consensus
    BY <1>5 DEF Needs, Writes
  <2>2. w.value.funds \subseteq Payments
    BY <2>1 DEF Consensus
  <2>3. \/ need = Least("objectives", DirectFunding, 4)
        \/ \E v \in Payments : need = Least("channels", v, 1)
    BY <1>5, <2>1, <2>2 DEF Needs
  <2>4. DirectFunding \in Objectives /\ Payments \subseteq ChannelIds
    BY DEF Objectives, ChannelIds
  <2>5. QED
    BY <1>2, <2>3, <2>4, LedgerAssumption DEF Least, OnlyRises
<1>6. CASE w.table = "channels" /\ w.value # None
  <2>1. w.key \in ChannelIds
    BY <1>6 DEF Writes, ChannelIds
  <2>2. \/ need \in StageNeeds(w.key, StageOf(w.value))
        \/ \E v \in Payments : need = Least("vouchers", v, 1)
    BY <1>6, <2>1 DEF Needs, ChannelIds
  <2>3. QED
    BY <1>2, <1>3, <2>1, <2>2 DEF Least, OnlyRises
<1>7. CASE w.table = "channels" /\ w.value = None
  <2>1. w = Del("channels", Ledger) /\ need = Least("consensus", Ledger, 1)
    BY <1>7, NoneAssumption DEF Needs, Writes, Del, Put
  <2>2. QED
    BY <1>2, <2>1 DEF Least
<1>8. CASE w.table = "notices"
  <2>1. w.value # None /\ w.key \in ChannelIds
    BY <1>8, NoneAssumption DEF Writes
  <2>2. CASE w.key = Ledger
    <3>1. need \in StageNeeds(w.key, Rank(w.value.status))
      BY <1>8, <2>1, <2>2 DEF Needs
    <3>2. QED
      BY <1>2, <1>3, <2>1, <3>1 DEF OnlyRises
  <2>3. CASE w.key # Ledger
    <3>1. \/ need = Least("channels", w.key, Rank(w.value.status))
          \/ need = Least("vouchers", w.key, w.value.paid + 1)
      BY <1>8, <2>1, <2>3 DEF Needs
    <3>2. w.key \in Payments /\ w.value \in Info
      BY <1>8, <2>1, <2>3 DEF Writes, ChannelIds
    <3>3. Rank(w.value.status) \in 1..4 /\ w.value.paid + 1 \in Nat /\ w.value.paid + 1 > 0
      BY <3>2, RankIs, TotalAssumption DEF Info, Amount
    <3>4. QED
      BY <1>2, <2>1, <2>3, <3>1, <3>2, <3>3 DEF Least, OnlyRises
  <2>4. QED
    BY <2>2, <2>3
<1>9. CASE w.table = "objectives"
  <2>1. w.value # None
    BY <1>9, NoneAssumption DEF Writes
  <2>2. \E c \in ChannelIds : need = Least("objectives", FundOf(c), 4)
    BY <1>9, <2>1 DEF Needs
  <2>3. QED
    BY <1>1, <1>2, <2>2 DEF Least, OnlyRises
<1>10. CASE w.table = "vouchers"
  BY <1>10 DEF Needs
<1>11. w.table \in {"objectives", "channels", "consensus", "owner", "vouchers", "notices"}
  BY DEF Writes
<1>12. QED
  BY <1>4, <1>5, <1>6, <1>7, <1>8, <1>9, <1>10, <1>11

\* What is met stays met: nothing that only rises falls.
LEMMA MetStays ==
  ASSUME TypeOK, TypeOK', NEW h \in Writes, store' = After(h), Rises(h, {}),
         NEW need, need.table \in DOMAIN store, need.key \in DOMAIN store[need.table],
         need.level \in Nat, IsMet(need),
         OnlyRises(need.table, need.key) \/ ~ (h.table = need.table /\ h.key = need.key)
  PROVE  IsMet(need)'
<1>1. /\ DOMAIN store' = DOMAIN store /\ DOMAIN store'[need.table] = DOMAIN store[need.table]
      /\ store'[need.table][need.key] = IF need.table = h.table /\ need.key = h.key
                                        THEN h.value ELSE store[need.table][need.key]
  BY WriteIs
<1>2. Level(need.table, store[need.table][need.key]) \in Nat
  BY TableIs
<1>3. CASE need.table = h.table /\ need.key = h.key
  <2>1. Level(h.table, store[h.table][h.key]) <= Level(h.table, h.value)
    BY <1>3 DEF Rises
  <2>2. Level(h.table, h.value) \in Nat
    BY LevelIs
  <2>3. QED
    BY <1>1, <1>2, <1>3, <2>1, <2>2 DEF IsMet
<1>4. CASE ~ (need.table = h.table /\ need.key = h.key)
  BY <1>1, <1>4 DEF IsMet
<1>5. QED
  BY <1>3, <1>4

\* A write that meets a need has met it.
LEMMA WriteMeets ==
  ASSUME TypeOK, NEW h \in Writes, store' = After(h), NEW need, Meets(h, need)
  PROVE  IsMet(need)'
<1>1. store'[h.table][h.key] = h.value
  BY WriteIs
<1>2. QED
  BY <1>1 DEF Meets, IsMet

\* What was prepared by the store and the writes before it is prepared still when
\* the first of them is done.
LEMMA PreparedStays ==
  ASSUME TypeOK, TypeOK', NEW h \in Writes, store' = After(h), Rises(h, {}),
         NEW w \in Writes, NEW before, IsPrepared(w, {h} \cup before),
         w = Del("channels", Ledger) => h # Del("consensus", Ledger)
  PROVE  \A need \in Needs(w) : IsMet(need)' \/ \E x \in before : Meets(x, need)
<1>1. SUFFICES ASSUME NEW need \in Needs(w), ~ \E x \in before : Meets(x, need)
               PROVE  IsMet(need)'
  OBVIOUS
<1>2. /\ need.table \in DOMAIN store /\ need.key \in DOMAIN store[need.table]
      /\ need.level \in Nat /\ need.level > 0
      /\ \/ OnlyRises(need.table, need.key)
         \/ w = Del("channels", Ledger) /\ need = Least("consensus", Ledger, 1)
  BY NeedsAre
<1>3. CASE Meets(h, need)
  BY <1>3, WriteMeets
<1>4. CASE IsMet(need)
  <2>1. CASE OnlyRises(need.table, need.key)
    BY <1>2, <1>4, <2>1, MetStays
  <2>2. CASE w = Del("channels", Ledger) /\ need = Least("consensus", Ledger, 1)
    <3>1. CASE h.table = "consensus" /\ h.key = Ledger
      <4>1. h.value # None
        BY <2>2, <3>1 DEF Del, Put, Writes
      <4>2. Level(h.table, h.value) = 1
        BY <3>1, <4>1 DEF Level
      <4>3. Meets(h, need)
        BY <2>2, <3>1, <4>2 DEF Meets, Least
      <4>4. QED
        BY <1>3, <4>3
    <3>2. CASE ~ (h.table = need.table /\ h.key = need.key)
      BY <1>2, <1>4, <3>2, MetStays
    <3>3. QED
      BY <2>2, <3>1, <3>2 DEF Least
  <2>3. QED
    BY <1>2, <2>1, <2>2
<1>5. IsMet(need) \/ \E x \in {h} \cup before : Meets(x, need)
  BY DEF IsPrepared
<1>6. QED
  BY <1>1, <1>3, <1>4, <1>5

\* What rose above the store and the writes before it rises still.
LEMMA RiseStays ==
  ASSUME TypeOK, NEW h \in Writes, store' = After(h),
         NEW w \in Writes, NEW before, Rises(w, {h} \cup before), OnlyRises(w.table, w.key)
  PROVE  /\ Level(w.table, store'[w.table][w.key]) <= Level(w.table, w.value)
         /\ \A x \in before : x.table = w.table /\ x.key = w.key
                                => Level(w.table, x.value) <= Level(w.table, w.value)
<1>1. /\ Level(w.table, store[w.table][w.key]) <= Level(w.table, w.value)
      /\ \A x \in {h} \cup before : x.table = w.table /\ x.key = w.key
                                      => Level(w.table, x.value) <= Level(w.table, w.value)
  BY DEF Rises
<1>2. w.table \in DOMAIN store /\ w.key \in DOMAIN store[w.table]
  BY DEF TypeOK, Writes, ChannelIds
<1>3. store'[w.table][w.key] = IF w.table = h.table /\ w.key = h.key THEN h.value
                               ELSE store[w.table][w.key]
  BY <1>2, WriteIs
<1>4. CASE w.table = h.table /\ w.key = h.key
  BY <1>1, <1>3, <1>4
<1>5. CASE ~ (w.table = h.table /\ w.key = h.key)
  BY <1>1, <1>3, <1>5
<1>6. QED
  BY <1>1, <1>4, <1>5

-----------------------------------------------------------------------------
(***************************************************************************)
(* A write of the current handler.                                         *)
(***************************************************************************)
\* The first write, and those that are left.
LEMMA WritesLeft ==
  ASSUME TypeOK, Write
  PROVE  /\ todo # <<>> /\ Len(todo) > 0 /\ Head(todo) \in Writes /\ Head(todo) = todo[1]
         /\ todo' \in Seq(Writes) /\ Len(todo') = Len(todo) - 1
         /\ \A i \in 1..Len(todo') : i + 1 \in 1..Len(todo) /\ todo'[i] = todo[i + 1]
         /\ store' = After(Head(todo)) /\ query' = query
         /\ Pending = {Head(todo)} \cup Pending'
<1>1. /\ todo \in Seq(Writes) /\ todo # <<>> /\ todo' = Tail(todo)
      /\ store' = After(Head(todo)) /\ query' = query
  BY DEF TypeOK, Write
<1>2. /\ Head(todo) \in Writes /\ Head(todo) = todo[1] /\ Len(todo) > 0
      /\ todo' \in Seq(Writes) /\ Len(todo') = Len(todo) - 1
      /\ \A i \in 1..Len(todo') : todo'[i] = todo[i + 1]
  BY <1>1, HeadTailProperties
<1>3. \A i \in 1..Len(todo') : i + 1 \in 1..Len(todo)
  BY <1>1, <1>2
<1>4. DOMAIN todo = 1..Len(todo) /\ DOMAIN todo' = 1..Len(todo')
  BY <1>1, <1>2
<1>5. Pending' \subseteq Pending /\ todo[1] \in Pending
  BY <1>2, <1>3, <1>4 DEF Pending, Range
<1>6. ASSUME NEW i \in 1..Len(todo), i # 1 PROVE todo[i] \in Pending'
  <2>1. i - 1 \in 1..Len(todo') /\ todo'[i - 1] = todo[i]
    BY <1>1, <1>2, <1>6
  <2>2. QED
    BY <1>4, <2>1 DEF Pending, Range
<1>7. \A x \in Pending : \E i \in 1..Len(todo) : x = todo[i]
  BY <1>4 DEF Pending, Range
<1>8. Pending = {Head(todo)} \cup Pending'
  BY <1>2, <1>5, <1>6, <1>7
<1>9. QED
  BY <1>1, <1>2, <1>3, <1>8

\* The first write is prepared, and rises, by the store alone.
LEMMA FirstIsReady ==
  ASSUME TypeOK, OrderInv, Write
  PROVE  IsPrepared(Head(todo), {}) /\ Rises(Head(todo), {})
<1>1. 1 \in DOMAIN todo /\ Head(todo) = todo[1]
  BY WritesLeft DEF TypeOK
<1>2. {} \cup Before(todo, 1) = {}
  BY DEF Before
<1>3. QED
  BY <1>1, <1>2 DEF OrderInv, IsOrderly

\* The rest of the handler stays in order.
LEMMA OrderWrite ==
  ASSUME TypeOK, TypeOK', OrderInv, FormInv, Write
  PROVE  OrderInv'
<1>1. PICK h \in Writes : h = Head(todo)
  BY WritesLeft
<1>2. /\ store' = After(h) /\ Rises(h, {}) /\ h = todo[1] /\ Len(todo) > 0
      /\ todo' \in Seq(Writes) /\ DOMAIN todo' = 1..Len(todo') /\ Len(todo') = Len(todo) - 1
      /\ DOMAIN todo = 1..Len(todo) /\ Pending = {h} \cup Pending'
      /\ \A i \in 1..Len(todo') : i + 1 \in 1..Len(todo) /\ todo'[i] = todo[i + 1]
  BY <1>1, WritesLeft, FirstIsReady DEF TypeOK
<1>3. ASSUME NEW i \in 1..Len(todo')
      PROVE  /\ \A need \in Needs(todo'[i]) :
                  IsMet(need)' \/ \E x \in Before(todo', i) : Meets(x, need)
             /\ OnlyRises(todo'[i].table, todo'[i].key) =>
                  /\ Level(todo'[i].table, store'[todo'[i].table][todo'[i].key])
                       <= Level(todo'[i].table, todo'[i].value)
                  /\ \A x \in Before(todo', i) :
                       x.table = todo'[i].table /\ x.key = todo'[i].key
                         => Level(todo'[i].table, x.value) <= Level(todo'[i].table, todo'[i].value)
  <2>1. PICK w \in Writes : w = todo'[i]
    BY <1>2
  <2>2. PICK before : before = Before(todo', i)
    OBVIOUS
  <2>3. i + 1 \in DOMAIN todo /\ w = todo[i + 1]
    BY <1>2, <2>1
  <2>4. {} \cup Before(todo, i + 1) = {h} \cup before
    <3>1. Before(todo, i + 1) = {todo[j] : j \in 1..i} /\ before = {todo'[j] : j \in 1..i - 1}
      BY <2>2 DEF Before
    <3>2. \A j \in 1..i - 1 : j \in 1..Len(todo') /\ todo'[j] = todo[j + 1]
      BY <1>2
    <3>3. \A j \in 1..i : j = 1 \/ (j - 1 \in 1..i - 1 /\ (j - 1) + 1 = j)
      OBVIOUS
    <3>4. \A j \in 1..i - 1 : j + 1 \in 1..i
      OBVIOUS
    <3>5. 1 \in 1..i
      OBVIOUS
    <3>6. ASSUME NEW j \in 1..i PROVE todo[j] \in {h} \cup before
      <4>1. CASE j = 1
        BY <1>2, <4>1
      <4>2. CASE j # 1
        <5>1. PICK k \in 1..i - 1 : k + 1 = j
          BY <3>3, <4>2
        <5>2. todo'[k] \in before /\ todo'[k] = todo[j]
          BY <3>1, <3>2, <5>1
        <5>3. QED
          BY <5>2
      <4>3. QED
        BY <4>1, <4>2
    <3>7. ASSUME NEW j \in 1..i - 1 PROVE todo'[j] \in Before(todo, i + 1)
      BY <3>1, <3>2, <3>4
    <3>8. h \in Before(todo, i + 1)
      BY <1>2, <3>1, <3>5
    <3>9. Before(todo, i + 1) \subseteq {h} \cup before
      BY <3>1, <3>6
    <3>10. before \subseteq Before(todo, i + 1)
      BY <3>1, <3>7
    <3>11. QED
      BY <3>8, <3>9, <3>10
  <2>5. IsPrepared(w, {h} \cup before) /\ Rises(w, {h} \cup before)
    BY <2>3, <2>4 DEF OrderInv, IsOrderly
  <2>6. w = Del("channels", Ledger) => h # Del("consensus", Ledger)
    BY <1>2, <2>3 DEF FormInv, Pending, Range
  <2>7. \A need \in Needs(w) : IsMet(need)' \/ \E x \in before : Meets(x, need)
    BY <1>2, <2>5, <2>6, PreparedStays
  <2>8. OnlyRises(w.table, w.key) =>
          /\ Level(w.table, store'[w.table][w.key]) <= Level(w.table, w.value)
          /\ \A x \in before : x.table = w.table /\ x.key = w.key
                                 => Level(w.table, x.value) <= Level(w.table, w.value)
    BY <1>2, <2>5, RiseStays
  <2>9. QED
    BY <2>1, <2>2, <2>7, <2>8
<1>4. \A i \in DOMAIN todo' : {} \cup Before(todo', i) = Before(todo', i)
  OBVIOUS
<1>5. QED
  BY <1>2, <1>3, <1>4 DEF OrderInv, IsOrderly, IsPrepared, Rises, Before

\* What is stored has what it needs.
LEMMA StoreWrite ==
  ASSUME TypeOK, TypeOK', OrderInv, StoreInv, FormInv, Write
  PROVE  StoreInv'
<1>1. PICK h \in Writes : h = Head(todo)
  BY WritesLeft
<1>2. /\ store' = After(h) /\ IsPrepared(h, {}) /\ Rises(h, {}) /\ h \in Pending
  BY <1>1, WritesLeft, FirstIsReady
<1>3. /\ DOMAIN store' = DOMAIN store
      /\ \A table \in DOMAIN store :
           /\ DOMAIN store'[table] = DOMAIN store[table]
           /\ \A key \in DOMAIN store[table] :
                store'[table][key] = IF table = h.table /\ key = h.key THEN h.value
                                     ELSE store[table][key]
  BY <1>2, WriteIs
<1>4. ASSUME NEW table \in DOMAIN store, NEW key \in DOMAIN store[table],
             store'[table][key] # None,
             NEW need \in Needs(Put(table, key, store'[table][key]))
      PROVE  IsMet(need)'
  <2>1. PICK value : value = store'[table][key]
    OBVIOUS
  <2>2. need \in Needs(Put(table, key, value)) /\ value # None
    BY <1>4, <2>1
  <2>3. CASE table = h.table /\ key = h.key
    <3>1. value = h.value /\ Put(table, key, value) = h
      BY <1>3, <2>1, <2>3 DEF Put, Writes
    <3>2. need \in Needs(h) /\ h # Del("channels", Ledger)
      BY <2>2, <3>1 DEF Del, Put
    <3>3. \A n \in Needs(h) : IsMet(n)
      BY <1>2 DEF IsPrepared
    <3>4. /\ need.table \in DOMAIN store /\ need.key \in DOMAIN store[need.table]
          /\ need.level \in Nat /\ OnlyRises(need.table, need.key)
      BY <3>2, NeedsAre
    <3>5. QED
      BY <1>2, <3>2, <3>3, <3>4, MetStays
  <2>4. CASE ~ (table = h.table /\ key = h.key)
    <3>1. value = store[table][key]
      BY <1>3, <2>1, <2>4
    <3>2. IsMet(need)
      BY <2>2, <3>1 DEF StoreInv
    <3>3. PICK w \in Writes : w = Put(table, key, value)
      BY <2>2, <3>1, TableIs
    <3>4. w # Del("channels", Ledger) /\ need \in Needs(w)
      BY <2>2, <3>3 DEF Del, Put
    <3>5. /\ need.table \in DOMAIN store /\ need.key \in DOMAIN store[need.table]
          /\ need.level \in Nat /\ OnlyRises(need.table, need.key)
      BY <3>4, NeedsAre
    <3>6. QED
      BY <1>2, <3>2, <3>5, MetStays
  <2>5. QED
    BY <2>3, <2>4
<1>5. IsFiniteSet(Funded(store'))
  <2>1. store'.consensus[Ledger] = IF h.table = "consensus" /\ h.key = Ledger THEN h.value
                                   ELSE store.consensus[Ledger]
    BY <1>3 DEF TypeOK
  <2>2. CASE h.table = "consensus" /\ h.key = Ledger
    <3>1. h.value # None => IsFiniteSet(h.value.funds)
      BY <1>2, <2>2 DEF FormInv
    <3>2. QED
      BY <2>1, <2>2, <3>1, FS_EmptySet DEF Funded
  <2>3. CASE ~ (h.table = "consensus" /\ h.key = Ledger)
    BY <2>1, <2>3 DEF Funded, StoreInv
  <2>4. QED
    BY <2>2, <2>3
<1>6. QED
  BY <1>3, <1>4, <1>5 DEF StoreInv

\* Whoever has asked to close the ledger has asked for good.
LEMMA ClosingIs ==
  ASSUME TypeOK
  PROVE  IsBeingClosed <=> \/ store.objectives[DirectDefunding] # None
                           \/ \E w \in Pending : w.table = "objectives" /\ w.key = DirectDefunding
BY DEF IsBeingClosed, Pending, Range

\* No write takes back the objective that closes the ledger.
LEMMA ClosingStays ==
  ASSUME TypeOK, TypeOK', Write, IsBeingClosed
  PROVE  IsBeingClosed'
<1>1. PICK h \in Writes : h = Head(todo)
  BY WritesLeft
<1>2. store' = After(h) /\ Pending = {h} \cup Pending'
  BY <1>1, WritesLeft
<1>3. store'.objectives[DirectDefunding] =
        IF h.table = "objectives" /\ h.key = DirectDefunding THEN h.value
        ELSE store.objectives[DirectDefunding]
  BY <1>2, WriteIs DEF TypeOK, Objectives
<1>4. h.table = "objectives" => h.value # None
  BY NoneAssumption DEF Writes
<1>5. \/ store.objectives[DirectDefunding] # None
      \/ \E w \in Pending : w.table = "objectives" /\ w.key = DirectDefunding
  BY ClosingIs
<1>6. (\/ store.objectives[DirectDefunding] # None
       \/ \E w \in Pending : w.table = "objectives" /\ w.key = DirectDefunding)'
  BY <1>2, <1>3, <1>4, <1>5
<1>7. QED
  BY <1>6, ClosingIs, PTL

\* The forms of the ledger.
LEMMA FormWrite ==
  ASSUME TypeOK, TypeOK', FormInv, Write
  PROVE  FormInv'
<1>1. Pending' \subseteq Pending
  BY WritesLeft
<1>2. Del("consensus", Ledger) \in Pending' =>
        IsBeingClosed' /\ Del("channels", Ledger) \notin Pending'
  BY <1>1, ClosingStays DEF FormInv
<1>3. \A w \in Pending' : w.table = "consensus" /\ w.value # None => IsFiniteSet(w.value.funds)
  BY <1>1 DEF FormInv
<1>4. QED
  BY <1>2, <1>3 DEF FormInv

\* The writes before one that is left, and before it the first one.
LEMMA BeforeLeft ==
  ASSUME TypeOK, Write, NEW i \in 1..Len(todo')
  PROVE  i + 1 \in DOMAIN todo /\ Before(todo, i + 1) = {Head(todo)} \cup Before(todo', i)
<1>1. PICK h : h = Head(todo)
  OBVIOUS
<1>2. PICK before : before = Before(todo', i)
  OBVIOUS
<1>3. /\ h = todo[1] /\ Len(todo) > 0 /\ Len(todo') \in Nat /\ Len(todo) \in Nat
      /\ \A j \in 1..Len(todo') : j + 1 \in 1..Len(todo) /\ todo'[j] = todo[j + 1]
      /\ DOMAIN todo = 1..Len(todo)
  BY <1>1, WritesLeft DEF TypeOK
<1>4. Before(todo, i + 1) = {todo[j] : j \in 1..i} /\ before = {todo'[j] : j \in 1..i - 1}
  BY <1>2 DEF Before
<1>5. \A j \in 1..i - 1 : j \in 1..Len(todo') /\ todo'[j] = todo[j + 1]
  BY <1>3
<1>6. ASSUME NEW j \in 1..i PROVE todo[j] \in {h} \cup before
  <2>1. CASE j = 1
    BY <1>3, <2>1
  <2>2. CASE j # 1
    <3>1. j - 1 \in 1..i - 1 /\ (j - 1) + 1 = j
      BY <2>2
    <3>2. PICK k \in 1..i - 1 : k + 1 = j
      BY <3>1
    <3>3. todo'[k] \in before /\ todo'[k] = todo[j]
      BY <1>4, <1>5, <3>2
    <3>4. QED
      BY <3>3
  <2>3. QED
    BY <2>1, <2>2
<1>7. ASSUME NEW j \in 1..i - 1 PROVE todo'[j] \in Before(todo, i + 1)
  <2>1. j + 1 \in 1..i
    OBVIOUS
  <2>2. QED
    BY <1>4, <1>5, <2>1
<1>8. 1 \in 1..i
  OBVIOUS
<1>9. h \in Before(todo, i + 1)
  BY <1>3, <1>4, <1>8
<1>10. Before(todo, i + 1) \subseteq {h} \cup before
  BY <1>4, <1>6
<1>11. before \subseteq Before(todo, i + 1)
  BY <1>4, <1>7
<1>12. QED
  BY <1>1, <1>2, <1>3, <1>9, <1>10, <1>11

\* The ledger has lost its ConsensusChannel before its closing is stored, and gets
\* no other.
LEMMA ClosedWrite ==
  ASSUME TypeOK, TypeOK', ClosedInv, Write
  PROVE  ClosedInv'
<1>1. PICK h \in Writes : h = Head(todo)
  BY WritesLeft
<1>2. /\ store' = After(h) /\ Pending = {h} \cup Pending' /\ h = todo[1] /\ Len(todo) > 0
      /\ DOMAIN todo = 1..Len(todo) /\ DOMAIN todo' = 1..Len(todo')
      /\ \A i \in 1..Len(todo') : todo'[i] = todo[i + 1]
  BY <1>1, WritesLeft DEF TypeOK
<1>3. /\ store'.consensus[Ledger] = IF h.table = "consensus" THEN h.value
                                    ELSE store.consensus[Ledger]
      /\ store'.objectives[DirectDefunding] =
           IF h.table = "objectives" /\ h.key = DirectDefunding THEN h.value
           ELSE store.objectives[DirectDefunding]
  <2>1. h.table = "consensus" => h.key = Ledger
    BY DEF Writes
  <2>2. QED
    BY <1>2, <2>1, WriteIs DEF TypeOK, Objectives
<1>4. h \in ClosingWrites =>
        /\ store.consensus[Ledger] = None
        /\ h.table = "objectives" /\ h.key = DirectDefunding /\ h.value \in Closing
  <2>1. 1 \in DOMAIN todo /\ Before(todo, 1) = {}
    BY <1>2 DEF Before
  <2>2. QED
    BY <1>2, <2>1 DEF ClosedInv, ClosingWrites, Put
<1>5. h.table = "objectives" /\ h.key = DirectDefunding /\ h.value \in Closing
        => h \in ClosingWrites
  BY DEF ClosingWrites, Put, Writes
<1>6. \/ store'.objectives[DirectDefunding] \in Closing
      \/ Pending' \cap ClosingWrites # {}
      => \/ store.objectives[DirectDefunding] \in Closing
         \/ Pending \cap ClosingWrites # {}
  BY <1>2, <1>3, <1>5
<1>7. \/ store.objectives[DirectDefunding] \in Closing
      \/ Pending \cap ClosingWrites # {}
      => \A w \in Pending : w.table = "consensus" => w.value = None
  BY DEF ClosedInv
<1>8. ASSUME NEW i \in DOMAIN todo', todo'[i] \in ClosingWrites
      PROVE  store'.consensus[Ledger] = None \/ Del("consensus", Ledger) \in Before(todo', i)
  <2>1. i \in 1..Len(todo') /\ todo'[i] \in Pending'
    BY <1>2 DEF Pending, Range
  <2>2. /\ i + 1 \in DOMAIN todo /\ todo[i + 1] \in ClosingWrites
        /\ Before(todo, i + 1) = {h} \cup Before(todo', i)
    BY <1>1, <1>2, <1>8, <2>1, BeforeLeft
  <2>3. store.consensus[Ledger] = None \/ Del("consensus", Ledger) \in Before(todo, i + 1)
    BY <2>2 DEF ClosedInv
  <2>4. h.table = "consensus" => h.value = None
    BY <1>2, <1>6, <1>7, <1>8, <2>1
  <2>5. CASE store.consensus[Ledger] = None
    BY <1>3, <2>4, <2>5
  <2>6. CASE Del("consensus", Ledger) \in Before(todo, i + 1)
    <3>1. h = Del("consensus", Ledger) => store'.consensus[Ledger] = None
      BY <1>3 DEF Del, Put
    <3>2. QED
      BY <2>2, <2>6, <3>1
  <2>7. QED
    BY <2>3, <2>5, <2>6
<1>9. ASSUME store'.objectives[DirectDefunding] \in Closing
      PROVE  store'.consensus[Ledger] = None
  <2>1. h.table = "consensus" => h.value = None
    BY <1>2, <1>6, <1>7, <1>9
  <2>2. CASE h \in ClosingWrites
    BY <1>3, <1>4, <2>2
  <2>3. CASE h \notin ClosingWrites
    <3>1. store.objectives[DirectDefunding] \in Closing
      BY <1>3, <1>5, <1>9, <2>3
    <3>2. store.consensus[Ledger] = None
      BY <3>1 DEF ClosedInv
    <3>3. QED
      BY <1>3, <2>1, <3>2
  <2>4. QED
    BY <2>2, <2>3
<1>10. \/ store'.objectives[DirectDefunding] \in Closing
       \/ Pending' \cap ClosingWrites # {}
       => \A w \in Pending' : w.table = "consensus" => w.value = None
  BY <1>2, <1>6, <1>7
<1>11. QED
  BY <1>8, <1>9, <1>10 DEF ClosedInv

\* What is yet to be told of payments is the latest still.
LEMMA PaidWrite ==
  ASSUME TypeOK, TypeOK', PaidInv, Write
  PROVE  PaidInv'
<1>1. PICK h \in Writes : h = Head(todo)
  BY WritesLeft
<1>2. store' = After(h) /\ Pending = {h} \cup Pending'
  BY <1>1, WritesLeft
<1>3. ASSUME NEW v \in Payments PROVE Said("vouchers", v)' \subseteq Said("vouchers", v)
  <2>1. store'["vouchers"][v] = IF h.table = "vouchers" /\ h.key = v THEN h.value
                                ELSE store["vouchers"][v]
    BY <1>2, WriteIs DEF TypeOK
  <2>2. QED
    BY <1>2, <2>1 DEF Said
<1>4. SUFFICES ASSUME NEW w \in Pending', w.table = "notices", w.key \in Payments,
                      PaidByVouchers(w.value), NEW paid \in Said("vouchers", w.key)',
                      paid # None
               PROVE  paid <= w.value.paid
  BY DEF PaidInv
<1>5. QED
  BY <1>2, <1>3, <1>4 DEF PaidInv

\* What was heard is not ahead of the store, which only rises.
LEMMA HeardWrite ==
  ASSUME TypeOK, TypeOK', OrderInv, HeardInv, Write
  PROVE  HeardInv'
<1>1. PICK h \in Writes : h = Head(todo)
  BY WritesLeft
<1>2. /\ store' = After(h) /\ Rises(h, {}) /\ query' = query /\ witness'.heard = witness.heard
  BY <1>1, WritesLeft, FirstIsReady DEF Write, TypeOK
<1>3. SUFFICES ASSUME query # Idle PROVE HeardInv'
  BY <1>2 DEF HeardInv
<1>4. ASSUME NEW v \in Payments, witness.heard[v] # None,
             NEW need \in Needs(Put("notices", v, witness.heard[v]))
      PROVE  IsMet(need)'
  <2>1. IsMet(need)
    BY <1>3, <1>4 DEF HeardInv
  <2>2. PICK w \in Writes : w = Put("notices", v, witness.heard[v])
    BY <1>4 DEF TypeOK, Witness, Writes, Put, ChannelIds
  <2>3. w # Del("channels", Ledger)
    BY <2>2 DEF Put, Del
  <2>4. /\ need.table \in DOMAIN store /\ need.key \in DOMAIN store[need.table]
        /\ need.level \in Nat /\ OnlyRises(need.table, need.key)
    BY <1>4, <2>2, <2>3, NeedsAre
  <2>5. QED
    BY <1>2, <2>1, <2>4, MetStays
<1>5. First' = First
  BY <1>2 DEF First
<1>6. /\ query.at \in {"registered", "paid", "remaining"} =>
           \A l \in Range(query.left) : Follows(witness.heard[l[2]], l[1])
      /\ query.at = "remaining" => FollowsPaid(witness.heard[First[2]], query.paid)
  BY <1>3 DEF HeardInv
<1>7. /\ query'.at \in {"registered", "paid", "remaining"} =>
           \A l \in Range(query'.left) : Follows(witness'.heard[l[2]], l[1])
      /\ query'.at = "remaining" => FollowsPaid(witness'.heard[First'[2]], query'.paid)
  BY <1>2, <1>5, <1>6
<1>8. QED
  BY <1>2, <1>4, <1>7 DEF HeardInv

\* Vouchers only rise.
LEMMA VoucherWrite ==
  ASSUME TypeOK, TypeOK', OrderInv, VoucherInv, Write
  PROVE  VoucherInv'
<1>1. PICK h \in Writes : h = Head(todo)
  BY WritesLeft
<1>2. store' = After(h) /\ Rises(h, {}) /\ query' = query
  BY <1>1, WritesLeft, FirstIsReady
<1>3. ASSUME NEW v \in Payments, store.vouchers[v] # None
      PROVE  store'.vouchers[v] # None /\ store.vouchers[v] <= store'.vouchers[v]
  <2>1. /\ store'.vouchers[v] = IF h.table = "vouchers" /\ h.key = v THEN h.value
                                ELSE store.vouchers[v]
        /\ store.vouchers[v] \in Amount
    BY <1>2, <1>3, WriteIs DEF TypeOK
  <2>2. CASE h.table = "vouchers" /\ h.key = v
    <3>1. h.value # None /\ h.value \in Amount
      BY <2>2, NoneAssumption DEF Writes
    <3>2. Level("vouchers", store.vouchers[v]) <= Level("vouchers", h.value)
      BY <1>2, <2>2 DEF Rises, OnlyRises
    <3>3. /\ Level("vouchers", store.vouchers[v]) = store.vouchers[v] + 1
          /\ Level("vouchers", h.value) = h.value + 1
      BY <1>3, <3>1 DEF Level
    <3>4. QED
      BY <2>1, <2>2, <3>1, <3>2, <3>3, TotalAssumption DEF Amount
  <2>3. CASE ~ (h.table = "vouchers" /\ h.key = v)
    BY <1>3, <2>1, <2>3, TotalAssumption DEF Amount
  <2>4. QED
    BY <2>2, <2>3
<1>4. CASE query = Idle
  BY <1>2, <1>4 DEF VoucherInv
<1>5. CASE query # Idle /\ query.at \in {"paid", "remaining"}
  <2>1. First[2] \in Payments /\ query.paid \in Amount
    <3>1. query \in Query /\ query.left # <<>> /\ query.left \in Seq(Channel \X Payments)
      BY <1>5 DEF VoucherInv, TypeOK, Query
    <3>2. Head(query.left) \in Channel \X Payments
      BY <3>1, HeadTailProperties
    <3>3. QED
      BY <3>1, <3>2 DEF First, Query
  <2>2. /\ store'.vouchers[First[2]] # None
        /\ store.vouchers[First[2]] <= store'.vouchers[First[2]]
        /\ store.vouchers[First[2]] \in Amount /\ store'.vouchers[First[2]] \in Amount
    BY <1>3, <1>5, <2>1 DEF VoucherInv, TypeOK
  <2>3. query.at = "remaining" => query.paid <= store'.vouchers[First[2]]
    BY <1>5, <2>1, <2>2, TotalAssumption DEF VoucherInv, Amount
  <2>4. First' = First
    BY <1>2 DEF First
  <2>5. QED
    BY <1>2, <1>5, <2>2, <2>3, <2>4 DEF VoucherInv
<1>6. CASE query # Idle /\ query.at \notin {"paid", "remaining"}
  BY <1>2, <1>6 DEF VoucherInv
<1>7. QED
  BY <1>4, <1>5, <1>6

\* The ledger takes one form before it leaves the other.
LEMMA KnownWrite ==
  ASSUME TypeOK, TypeOK', OrderInv, FormInv, KnownInv, Write
  PROVE  KnownInv'
<1>1. PICK h \in Writes : h = Head(todo)
  BY WritesLeft
<1>2. /\ store' = After(h) /\ query' = query /\ h \in Pending /\ IsPrepared(h, {})
      /\ witness'.known = witness.known
  BY <1>1, WritesLeft, FirstIsReady DEF Write, TypeOK
<1>3. /\ store'.channels[Ledger] = IF h.table = "channels" /\ h.key = Ledger THEN h.value
                                   ELSE store.channels[Ledger]
      /\ store'.consensus[Ledger] = IF h.table = "consensus" /\ h.key = Ledger THEN h.value
                                    ELSE store.consensus[Ledger]
  BY <1>2, WriteIs DEF TypeOK, ChannelIds
<1>4. SUFFICES ASSUME query # Idle, query.asks = "ledger", witness.known, ~ IsBeingClosed'
               PROVE  /\ IsStored(store') /\ query.at # "failed"
                      /\ query.at = "consensus" => store'.consensus[Ledger] # None
  BY <1>2 DEF KnownInv
<1>5. ~ IsBeingClosed
  BY <1>4, ClosingStays
<1>6. /\ IsStored(store) /\ query.at # "failed"
      /\ query.at = "consensus" => store.consensus[Ledger] # None
  BY <1>4, <1>5 DEF KnownInv
<1>7. h # Del("consensus", Ledger)
  BY <1>2, <1>5 DEF FormInv
<1>8. h.table = "consensus" /\ h.key = Ledger => h.value # None
  BY <1>7 DEF Del, Put, Writes
<1>9. store.consensus[Ledger] # None => store'.consensus[Ledger] # None
  BY <1>3, <1>8
<1>10. CASE h = Del("channels", Ledger)
  <2>1. Least("consensus", Ledger, 1) \in Needs(h)
    BY <1>10 DEF Needs, Del, Put
  <2>2. Level("consensus", store.consensus[Ledger]) >= 1
    BY <1>2, <2>1 DEF IsPrepared, IsMet, Least
  <2>3. store.consensus[Ledger] # None
    BY <2>2 DEF Level
  <2>4. QED
    BY <1>6, <1>9, <2>3 DEF IsStored
<1>11. CASE h # Del("channels", Ledger)
  <2>1. h.table = "channels" /\ h.key = Ledger => h.value # None
    BY <1>11 DEF Del, Put, Writes
  <2>2. QED
    BY <1>3, <1>6, <1>9, <2>1 DEF IsStored
<1>12. QED
  BY <1>10, <1>11

\* Types.
LEMMA TypeWrite ==
  ASSUME TypeOK, Write
  PROVE  TypeOK'
<1>1. PICK h \in Writes : h = Head(todo)
  BY WritesLeft
<1>2. /\ store' = After(h) /\ query' = query /\ todo' \in Seq(Writes)
      /\ witness' = [witness EXCEPT !.funded = @ \cap Funded(store')]
  BY <1>1, WritesLeft DEF Write
<1>3. witness' \in Witness
  BY <1>2 DEF TypeOK, Witness
<1>4. /\ DOMAIN store' = DOMAIN store
      /\ store'.objectives \in [Objectives -> Standing \cup {None}]
      /\ store'.channels \in [ChannelIds -> Channel \cup {None}]
      /\ store'.consensus \in [{Ledger} -> Consensus \cup {None}]
      /\ store'.owner \in [ChannelIds -> Objectives \cup {None}]
      /\ store'.vouchers \in [Payments -> Amount \cup {None}]
      /\ store'.notices \in [ChannelIds -> Info \cup {None}]
  <2>1. CASE h \in [table : {"objectives"}, key : Objectives, value : Standing]
    BY <1>2, <2>1 DEF TypeOK, After
  <2>2. CASE h \in [table : {"channels"}, key : Payments, value : Channel]
    BY <1>2, <2>2 DEF TypeOK, After
  <2>3. CASE h \in [table : {"channels"}, key : {Ledger}, value : Channel \cup {None}]
    BY <1>2, <2>3 DEF TypeOK, After
  <2>4. CASE h \in [table : {"consensus"}, key : {Ledger}, value : Consensus \cup {None}]
    BY <1>2, <2>4 DEF TypeOK, After
  <2>5. CASE h \in [table : {"owner"}, key : ChannelIds, value : Objectives \cup {None}]
    BY <1>2, <2>5 DEF TypeOK, After
  <2>6. CASE h \in [table : {"vouchers"}, key : Payments, value : Amount]
    BY <1>2, <2>6 DEF TypeOK, After
  <2>7. CASE h \in [table : {"notices"}, key : ChannelIds, value : Info]
    BY <1>2, <2>7 DEF TypeOK, After
  <2>8. QED
    BY <2>1, <2>2, <2>3, <2>4, <2>5, <2>6, <2>7 DEF Writes
<1>5. QED
  BY <1>2, <1>3, <1>4 DEF TypeOK

\* A write keeps the inductive invariant.
LEMMA WriteKeeps ==
  ASSUME InductiveInv, Write
  PROVE  InductiveInv'
<1>1. TypeOK'
  BY TypeWrite DEF InductiveInv
<1>2. /\ OrderInv' /\ StoreInv' /\ FormInv' /\ ClosedInv' /\ PaidInv' /\ VoucherInv'
      /\ HeardInv' /\ KnownInv'
  BY <1>1, OrderWrite, StoreWrite, FormWrite, ClosedWrite, PaidWrite, VoucherWrite, HeardWrite,
     KnownWrite
  DEF InductiveInv
<1>3. BalancesAddUp' /\ AnswersFollowEvents'
  <2>1. query' = query /\ witness'.heard = witness.heard
    BY WritesLeft DEF InductiveInv, Write, TypeOK
  <2>2. QED
    BY <2>1 DEF InductiveInv, BalancesAddUp, AnswersFollowEvents, Infos
<1>4. QED
  BY <1>1, <1>2, <1>3 DEF InductiveInv

-----------------------------------------------------------------------------
(***************************************************************************)
(* What a handler writes, put together.                                    *)
(***************************************************************************)
\* Writes in order, after those of before.
Fits(writes, before) == writes \in Seq(Writes) /\ IsOrderly(writes, before)

\* No writes at all.
LEMMA FitsNothing ==
  ASSUME NEW before
  PROVE  Fits(<<>>, before) /\ Range(<<>>) = {}
<1>1. <<>> \in Seq(Writes) /\ DOMAIN <<>> = {}
  OBVIOUS
<1>2. QED
  BY <1>1 DEF Fits, IsOrderly, Range

\* One write.
LEMMA FitsOne ==
  ASSUME NEW w \in Writes, NEW before, IsPrepared(w, before), Rises(w, before)
  PROVE  Fits(<<w>>, before) /\ Range(<<w>>) = {w}
<1>1. <<w>> \in Seq(Writes) /\ DOMAIN <<w>> = {1} /\ <<w>>[1] = w
  OBVIOUS
<1>2. before \cup Before(<<w>>, 1) = before
  BY DEF Before
<1>3. IsOrderly(<<w>>, before)
  BY <1>1, <1>2 DEF IsOrderly
<1>4. QED
  BY <1>1, <1>3 DEF Fits, Range

\* One sequence of writes after the other.
LEMMA FitsConcat ==
  ASSUME NEW s, NEW t, NEW before, Fits(s, before), Fits(t, before \cup Range(s))
  PROVE  Fits(s \o t, before) /\ Range(s \o t) = Range(s) \cup Range(t)
<1>1. s \in Seq(Writes) /\ t \in Seq(Writes)
  BY DEF Fits
<1>2. /\ s \o t \in Seq(Writes) /\ Len(s \o t) = Len(s) + Len(t)
      /\ \A i \in 1..Len(s) + Len(t) :
           (s \o t)[i] = IF i <= Len(s) THEN s[i] ELSE t[i - Len(s)]
  BY <1>1, ConcatProperties
<1>3. PICK both : both = s \o t
  OBVIOUS
<1>4. /\ DOMAIN both = 1..Len(s) + Len(t) /\ DOMAIN s = 1..Len(s) /\ DOMAIN t = 1..Len(t)
      /\ Len(s) \in Nat /\ Len(t) \in Nat
      /\ \A i \in 1..Len(s) : both[i] = s[i]
      /\ \A i \in 1..Len(t) : both[i + Len(s)] = t[i]
      /\ \A i \in 1..Len(s) + Len(t) : i \in 1..Len(s) \/ i - Len(s) \in 1..Len(t)
  <2>1. /\ DOMAIN s = 1..Len(s) /\ DOMAIN t = 1..Len(t) /\ DOMAIN both = 1..Len(both)
        /\ Len(s) \in Nat /\ Len(t) \in Nat /\ Len(both) = Len(s) + Len(t)
    BY <1>1, <1>2, <1>3
  <2>2. \A i \in 1..Len(s) + Len(t) : both[i] = IF i <= Len(s) THEN s[i] ELSE t[i - Len(s)]
    BY <1>2, <1>3
  <2>3. ASSUME NEW i \in 1..Len(t) PROVE both[i + Len(s)] = t[i]
    <3>1. i + Len(s) \in 1..Len(s) + Len(t) /\ ~ (i + Len(s) <= Len(s)) /\ (i + Len(s)) - Len(s) = i
      BY <2>1
    <3>2. QED
      BY <2>2, <3>1
  <2>4. QED
    BY <2>1, <2>2, <2>3
<1>5. \A i \in 1..Len(s) : Before(both, i) = Before(s, i)
  <2>1. \A i \in 1..Len(s) : \A j \in 1..i - 1 : both[j] = s[j]
    BY <1>4
  <2>2. QED
    BY <2>1 DEF Before
<1>6. ASSUME NEW i \in 1..Len(t)
      PROVE  before \cup Before(both, i + Len(s)) = (before \cup Range(s)) \cup Before(t, i)
  <2>1. ASSUME NEW j \in 1..(i + Len(s)) - 1 PROVE both[j] \in Range(s) \cup Before(t, i)
    <3>1. CASE j \in 1..Len(s)
      BY <1>4, <3>1 DEF Range
    <3>2. CASE j \notin 1..Len(s)
      <4>1. j - Len(s) \in 1..i - 1 /\ j - Len(s) \in 1..Len(t) /\ (j - Len(s)) + Len(s) = j
        BY <1>4, <3>2
      <4>2. both[j] = t[j - Len(s)]
        BY <1>4, <4>1
      <4>3. QED
        BY <4>1, <4>2 DEF Before
    <3>3. QED
      BY <3>1, <3>2
  <2>2. ASSUME NEW j \in 1..Len(s) PROVE s[j] \in Before(both, i + Len(s))
    <3>1. j \in 1..(i + Len(s)) - 1 /\ both[j] = s[j]
      BY <1>4
    <3>2. QED
      BY <3>1 DEF Before
  <2>3. ASSUME NEW j \in 1..i - 1 PROVE t[j] \in Before(both, i + Len(s))
    <3>1. j + Len(s) \in 1..(i + Len(s)) - 1 /\ both[j + Len(s)] = t[j]
      BY <1>4
    <3>2. QED
      BY <3>1 DEF Before
  <2>4. Before(both, i + Len(s)) \subseteq Range(s) \cup Before(t, i)
    BY <2>1 DEF Before
  <2>5. Range(s) \subseteq Before(both, i + Len(s))
    BY <1>4, <2>2 DEF Range
  <2>6. Before(t, i) \subseteq Before(both, i + Len(s))
    BY <2>3 DEF Before
  <2>7. QED
    BY <2>4, <2>5, <2>6
<1>7. ASSUME NEW i \in DOMAIN both
      PROVE  /\ IsPrepared(both[i], before \cup Before(both, i))
             /\ Rises(both[i], before \cup Before(both, i))
  <2>1. CASE i \in 1..Len(s)
    <3>1. both[i] = s[i] /\ Before(both, i) = Before(s, i) /\ i \in DOMAIN s
      BY <1>4, <1>5, <2>1
    <3>2. IsPrepared(s[i], before \cup Before(s, i)) /\ Rises(s[i], before \cup Before(s, i))
      BY <3>1 DEF Fits, IsOrderly
    <3>3. QED
      BY <3>1, <3>2
  <2>2. CASE i \notin 1..Len(s)
    <3>1. PICK j \in 1..Len(t) : j + Len(s) = i
      <4>1. i - Len(s) \in 1..Len(t) /\ (i - Len(s)) + Len(s) = i
        BY <1>4, <2>2
      <4>2. QED
        BY <4>1
    <3>2. both[i] = t[j] /\ j \in DOMAIN t
      BY <1>4, <3>1
    <3>3. before \cup Before(both, i) = (before \cup Range(s)) \cup Before(t, j)
      BY <1>6, <3>1
    <3>4. /\ IsPrepared(t[j], (before \cup Range(s)) \cup Before(t, j))
          /\ Rises(t[j], (before \cup Range(s)) \cup Before(t, j))
      BY <3>2 DEF Fits, IsOrderly
    <3>5. QED
      BY <3>2, <3>3, <3>4
  <2>3. QED
    BY <2>1, <2>2
<1>8. Range(both) = Range(s) \cup Range(t)
  <2>1. ASSUME NEW i \in DOMAIN both PROVE both[i] \in Range(s) \cup Range(t)
    <3>1. CASE i \in 1..Len(s)
      BY <1>4, <3>1 DEF Range
    <3>2. CASE i \notin 1..Len(s)
      <4>1. PICK j \in 1..Len(t) : j + Len(s) = i
        <5>1. i - Len(s) \in 1..Len(t) /\ (i - Len(s)) + Len(s) = i
          BY <1>4, <3>2
        <5>2. QED
          BY <5>1
      <4>2. QED
        BY <1>4, <4>1 DEF Range
    <3>3. QED
      BY <3>1, <3>2
  <2>2. \A i \in DOMAIN s : s[i] \in Range(both)
    BY <1>4 DEF Range
  <2>3. ASSUME NEW i \in DOMAIN t PROVE t[i] \in Range(both)
    <3>1. i + Len(s) \in DOMAIN both /\ both[i + Len(s)] = t[i]
      BY <1>4
    <3>2. QED
      BY <3>1 DEF Range
  <2>4. Range(both) \subseteq Range(s) \cup Range(t)
    BY <2>1 DEF Range
  <2>5. Range(s) \subseteq Range(both) /\ Range(t) \subseteq Range(both)
    BY <2>2, <2>3 DEF Range
  <2>6. QED
    BY <2>4, <2>5
<1>9. QED
  BY <1>2, <1>3, <1>7, <1>8 DEF Fits, IsOrderly

\* The same, when nothing comes before.
LEMMA FitsFirst ==
  ASSUME NEW s, NEW t, Fits(s, {}), Fits(t, Range(s))
  PROVE  Fits(s \o t, {}) /\ Range(s \o t) = Range(s) \cup Range(t)
<1>1. {} \cup Range(s) = Range(s)
  OBVIOUS
<1>2. QED
  BY <1>1, FitsConcat

-----------------------------------------------------------------------------
(***************************************************************************)
(* What the store says of what came before.                                *)
(***************************************************************************)
\* The level of a standing.
LEMMA StandingIs ==
  ASSUME NEW s \in Standing \cup {None}
  PROVE  /\ Level("objectives", s) \in 0..4
         /\ Level("objectives", s) >= 1 <=> s # None
         /\ Level("objectives", s) >= 3 <=> s \in {"approved", "completed"}
         /\ Level("objectives", s) >= 4 <=> s = "completed"
         /\ s = "unapproved" => Level("objectives", s) = 1
         /\ s = "rejected" => Level("objectives", s) = 2
         /\ s = "approved" => Level("objectives", s) = 3
BY NoneAssumption DEF Level, StandingLevel, Standing

\* The objectives of a channel.
LEMMA ObjectivesAre ==
  ASSUME NEW key \in ChannelIds
  PROVE  /\ FundOf(key) \in Objectives /\ DefundOf(key) \in Objectives
         /\ \A other \in ChannelIds : DefundOf(other) = DefundOf(key) => other = key
         /\ \A other \in ChannelIds : DefundOf(other) # FundOf(key)
<1>1. FundOf(key) \in Objectives /\ DefundOf(key) \in Objectives
  BY LedgerAssumption DEF ChannelIds, FundOf, DefundOf, Objectives
<1>2. \A other \in ChannelIds : DefundOf(other) = DefundOf(key) => other = key
  BY DEF ChannelIds, DefundOf, DirectDefunding, VirtualDefund
<1>3. \A other \in ChannelIds : DefundOf(other) # FundOf(key)
  BY DEF ChannelIds, DefundOf, FundOf, DirectDefunding, VirtualDefund, DirectFunding, VirtualFund
<1>4. QED
  BY <1>1, <1>2, <1>3

\* What writing an objective needs.
LEMMA ObjectiveNeeds ==
  ASSUME NEW key \in ChannelIds, NEW status \in Standing
  PROVE  /\ Needs(Put("objectives", FundOf(key), status)) = {}
         /\ Needs(Put("objectives", DefundOf(key), status)) = {Least("objectives", FundOf(key), 4)}
<1>1. status # None
  BY NoneAssumption
<1>2. ASSUME NEW o
      PROVE  Needs(Put("objectives", o, status))
               = {Least("objectives", FundOf(c), 4) : c \in {d \in ChannelIds : DefundOf(d) = o}}
  BY <1>1 DEF Needs, Put
<1>3. {d \in ChannelIds : DefundOf(d) = DefundOf(key)} = {key}
  BY ObjectivesAre
<1>4. {d \in ChannelIds : DefundOf(d) = FundOf(key)} = {}
  BY ObjectivesAre
<1>5. QED
  BY <1>2, <1>3, <1>4

\* What is said of a channel, and what its objectives have come to.
LEMMA StageSays ==
  ASSUME TypeOK, NEW key \in ChannelIds, NEW stage \in 1..4,
         \A need \in StageNeeds(key, stage) : IsMet(need)
  PROVE  /\ stage >= 2 => store.objectives[FundOf(key)] = "completed"
         /\ stage >= 3 => store.objectives[DefundOf(key)] \in {"approved", "completed"}
<1>1. /\ store.objectives[FundOf(key)] \in Standing \cup {None}
      /\ store.objectives[DefundOf(key)] \in Standing \cup {None}
  BY ObjectivesAre DEF TypeOK
<1>2. stage >= 2 => Level("objectives", store.objectives[FundOf(key)]) >= 4
  <2>1. stage >= 2 => Least("objectives", FundOf(key), 4) \in StageNeeds(key, stage)
    BY DEF StageNeeds
  <2>2. QED
    BY <2>1 DEF IsMet, Least
<1>3. stage >= 3 => Level("objectives", store.objectives[DefundOf(key)]) >= 3
  <2>1. stage >= 3 => Least("objectives", DefundOf(key), 3) \in StageNeeds(key, stage)
    BY DEF StageNeeds
  <2>2. QED
    BY <2>1 DEF IsMet, Least
<1>4. QED
  BY <1>1, <1>2, <1>3, StandingIs

\* A stored notification: of the ledger, its objectives have come as far; of a
\* payment channel, its Channel has, and its vouchers.
LEMMA NoticeSays ==
  ASSUME TypeOK, StoreInv, NEW key \in ChannelIds, store.notices[key] # None
  PROVE  /\ Rank(store.notices[key].status) \in 1..4
         /\ Level("notices", store.notices[key]) = Rank(store.notices[key].status)
         /\ key = Ledger =>
              /\ Rank(store.notices[key].status) >= 2
                   => store.objectives[DirectFunding] = "completed"
              /\ Rank(store.notices[key].status) >= 3
                   => store.objectives[DirectDefunding] \in {"approved", "completed"}
         /\ key \in Payments =>
              /\ Rank(store.notices[key].status) <= Level("channels", store.channels[key])
              /\ PaidByVouchers(store.notices[key])
                   => /\ store.vouchers[key] # None
                      /\ store.notices[key].paid <= store.vouchers[key]
<1>1. store.notices[key] \in Info /\ "notices" \in DOMAIN store /\ key \in DOMAIN store["notices"]
  BY DEF TypeOK
<1>2. Rank(store.notices[key].status) \in 1..4
  BY <1>1, RankIs DEF Info
<1>3. Level("notices", store.notices[key]) = Rank(store.notices[key].status)
  BY DEF Level
<1>4. \A need \in Needs(Put("notices", key, store["notices"][key])) : IsMet(need)
  BY <1>1 DEF StoreInv
<1>5. ASSUME key = Ledger
      PROVE  /\ Rank(store.notices[key].status) >= 2
                  => store.objectives[DirectFunding] = "completed"
             /\ Rank(store.notices[key].status) >= 3
                  => store.objectives[DirectDefunding] \in {"approved", "completed"}
  <2>1. Needs(Put("notices", key, store["notices"][key]))
          = StageNeeds(key, Rank(store.notices[key].status))
    BY <1>5 DEF Needs, Put
  <2>2. \A need \in StageNeeds(key, Rank(store.notices[key].status)) : IsMet(need)
    BY <1>4, <2>1
  <2>3. FundOf(key) = DirectFunding /\ DefundOf(key) = DirectDefunding
    BY <1>5 DEF FundOf, DefundOf
  <2>4. QED
    BY <1>2, <2>2, <2>3, StageSays
<1>6. ASSUME key \in Payments
      PROVE  /\ Rank(store.notices[key].status) <= Level("channels", store.channels[key])
             /\ PaidByVouchers(store.notices[key])
                  => /\ store.vouchers[key] # None
                     /\ store.notices[key].paid <= store.vouchers[key]
  <2>1. Needs(Put("notices", key, store["notices"][key]))
          = {Least("channels", key, Rank(store.notices[key].status))}
              \cup IF PaidByVouchers(store.notices[key])
                   THEN {Least("vouchers", key, store.notices[key].paid + 1)} ELSE {}
    BY <1>6, LedgerAssumption DEF Needs, Put
  <2>2. Level("channels", store.channels[key]) >= Rank(store.notices[key].status)
    <3>1. IsMet(Least("channels", key, Rank(store.notices[key].status)))
      BY <1>4, <2>1
    <3>2. QED
      BY <3>1 DEF IsMet, Least
  <2>3. ASSUME PaidByVouchers(store.notices[key])
        PROVE  store.vouchers[key] # None /\ store.notices[key].paid <= store.vouchers[key]
    <3>1. IsMet(Least("vouchers", key, store.notices[key].paid + 1))
      BY <1>4, <2>1, <2>3
    <3>2. Level("vouchers", store.vouchers[key]) >= store.notices[key].paid + 1
      BY <3>1 DEF IsMet, Least
    <3>3. store.notices[key].paid \in Nat /\ store.vouchers[key] \in Nat \cup {None}
      BY <1>1, <1>6, TotalAssumption DEF TypeOK, Info, Amount
    <3>4. CASE store.vouchers[key] = None
      BY <3>2, <3>3, <3>4 DEF Level
    <3>5. CASE store.vouchers[key] # None
      <4>1. Level("vouchers", store.vouchers[key]) = store.vouchers[key] + 1
        BY <3>5 DEF Level
      <4>2. QED
        BY <3>2, <3>3, <3>5, <4>1
    <3>6. QED
      BY <3>4, <3>5
  <2>4. Level("channels", store.channels[key]) \in Nat
    BY <1>6, TableIs DEF TypeOK
  <2>5. QED
    BY <1>2, <2>2, <2>3, <2>4
<1>7. QED
  BY <1>2, <1>3, <1>5, <1>6

\* A stored Channel.
LEMMA ChannelSays ==
  ASSUME TypeOK, StoreInv, NEW key \in ChannelIds, store.channels[key] # None
  PROVE  /\ store.channels[key] \in Channel /\ StageOf(store.channels[key]) \in 1..4
         /\ StageOf(store.channels[key]) >= 2 => store.objectives[FundOf(key)] = "completed"
         /\ StageOf(store.channels[key]) >= 3
              => store.objectives[DefundOf(key)] \in {"approved", "completed"}
         /\ key \in Payments => store.vouchers[key] \in Amount
<1>1. /\ store.channels[key] \in Channel /\ "channels" \in DOMAIN store
      /\ key \in DOMAIN store["channels"]
  BY DEF TypeOK
<1>2. StageOf(store.channels[key]) \in 1..4
  BY <1>1, StatusIs
<1>3. Needs(Put("channels", key, store["channels"][key]))
        = StageNeeds(key, StageOf(store.channels[key]))
            \cup {Least("vouchers", v, 1) : v \in {key} \ {Ledger}}
  BY DEF Needs, Put
<1>4. \A need \in Needs(Put("channels", key, store["channels"][key])) : IsMet(need)
  BY <1>1 DEF StoreInv
<1>5. \A need \in StageNeeds(key, StageOf(store.channels[key])) : IsMet(need)
  BY <1>3, <1>4
<1>6. ASSUME key \in Payments PROVE store.vouchers[key] \in Amount
  <2>1. Least("vouchers", key, 1) \in Needs(Put("channels", key, store["channels"][key]))
    BY <1>3, <1>6, LedgerAssumption
  <2>2. Level("vouchers", store.vouchers[key]) >= 1
    BY <1>4, <2>1 DEF IsMet, Least
  <2>3. QED
    BY <1>6, <2>2 DEF Level, TypeOK
<1>7. QED
  BY <1>1, <1>2, <1>5, <1>6, StageSays

\* A stored ConsensusChannel.
LEMMA ConsensusSays ==
  ASSUME TypeOK, StoreInv, store.consensus[Ledger] # None
  PROVE  /\ store.consensus[Ledger] \in Consensus
         /\ store.consensus[Ledger].funds = Funded(store) /\ IsFiniteSet(Funded(store))
         /\ Funded(store) \subseteq Payments
         /\ store.objectives[DirectFunding] = "completed"
         /\ \A v \in Funded(store) : store.channels[v] # None
<1>1. /\ store.consensus[Ledger] \in Consensus /\ "consensus" \in DOMAIN store
      /\ Ledger \in DOMAIN store["consensus"]
  BY DEF TypeOK
<1>2. /\ store.consensus[Ledger].funds = Funded(store) /\ IsFiniteSet(Funded(store))
      /\ Funded(store) \subseteq Payments
  BY <1>1 DEF Funded, StoreInv, Consensus
<1>3. Needs(Put("consensus", Ledger, store["consensus"][Ledger]))
        = {Least("objectives", DirectFunding, 4)} \cup {Least("channels", v, 1) : v \in Funded(store)}
  BY <1>2 DEF Needs, Put
<1>4. \A need \in Needs(Put("consensus", Ledger, store["consensus"][Ledger])) : IsMet(need)
  BY <1>1 DEF StoreInv
<1>5. Level("objectives", store.objectives[DirectFunding]) >= 4
  <2>1. IsMet(Least("objectives", DirectFunding, 4))
    BY <1>3, <1>4
  <2>2. QED
    BY <2>1 DEF IsMet, Least
<1>6. store.objectives[DirectFunding] \in Standing \cup {None}
  BY DEF TypeOK, Objectives
<1>7. store.objectives[DirectFunding] = "completed"
  BY <1>5, <1>6, StandingIs
<1>8. ASSUME NEW v \in Funded(store) PROVE store.channels[v] # None
  <2>1. IsMet(Least("channels", v, 1))
    BY <1>3, <1>4
  <2>2. Level("channels", store.channels[v]) >= 1
    BY <2>1 DEF IsMet, Least
  <2>3. QED
    BY <2>2 DEF Level
<1>9. QED
  BY <1>1, <1>2, <1>7, <1>8

\* A stored objective that closes a channel.
LEMMA DefundSays ==
  ASSUME TypeOK, StoreInv, NEW key \in ChannelIds, store.objectives[DefundOf(key)] # None
  PROVE  store.objectives[FundOf(key)] = "completed"
<1>1. /\ "objectives" \in DOMAIN store /\ DefundOf(key) \in DOMAIN store["objectives"]
      /\ store.objectives[DefundOf(key)] \in Standing
      /\ store.objectives[FundOf(key)] \in Standing \cup {None}
  BY ObjectivesAre DEF TypeOK
<1>2. Least("objectives", FundOf(key), 4)
        \in Needs(Put("objectives", DefundOf(key), store["objectives"][DefundOf(key)]))
  BY <1>1, ObjectiveNeeds
<1>3. Level("objectives", store.objectives[FundOf(key)]) >= 4
  BY <1>1, <1>2 DEF StoreInv, IsMet, Least
<1>4. QED
  BY <1>1, <1>3, StandingIs

-----------------------------------------------------------------------------
(***************************************************************************)
(* setObjective, and the whole of attemptProgress.                         *)
(***************************************************************************)
\* Putting an objective: what must hold of the writes before it.
LEMMA PutObjective ==
  ASSUME TypeOK, NEW key \in ChannelIds, NEW o \in {FundOf(key), DefundOf(key)},
         NEW status \in Standing, NEW before,
         o = DefundOf(key) => store.objectives[FundOf(key)] = "completed",
         Level("objectives", store.objectives[o]) <= Level("objectives", status),
         \A x \in before : x.table = "objectives" /\ x.key = o
                             => Level("objectives", x.value) <= Level("objectives", status)
  PROVE  /\ Put("objectives", o, status) \in Writes
         /\ IsPrepared(Put("objectives", o, status), before)
         /\ Rises(Put("objectives", o, status), before)
<1>1. o \in Objectives
  BY ObjectivesAre
<1>2. Put("objectives", o, status) \in Writes
  BY <1>1 DEF Put, Writes
<1>3. ASSUME NEW need \in Needs(Put("objectives", o, status)) PROVE IsMet(need)
  <2>1. o = DefundOf(key) /\ need = Least("objectives", FundOf(key), 4)
    BY <1>3, ObjectiveNeeds
  <2>2. store.objectives[FundOf(key)] = "completed"
    BY <2>1
  <2>3. Level("objectives", "completed") >= 4
    BY StandingIs DEF Standing
  <2>4. QED
    BY <2>1, <2>2, <2>3 DEF IsMet, Least
<1>4. Rises(Put("objectives", o, status), before)
  BY DEF Rises, Put
<1>5. QED
  BY <1>2, <1>3, <1>4 DEF IsPrepared

\* setObjective: the objective, what is related to it, and at last the owner.
LEMMA SetObjectiveFits ==
  ASSUME TypeOK, NEW o \in Objectives, NEW key \in ChannelIds, NEW status \in Standing,
         NEW related, NEW before,
         IsPrepared(Put("objectives", o, status), before),
         Rises(Put("objectives", o, status), before),
         Fits(related, before \cup {Put("objectives", o, status)})
  PROVE  /\ Fits(SetObjective(o, key, status, related), before)
         /\ Range(SetObjective(o, key, status, related))
              \subseteq {Put("objectives", o, status), Put("owner", key, o)} \cup Range(related)
         /\ {Put("objectives", o, status)} \cup Range(related)
              \subseteq Range(SetObjective(o, key, status, related))
<1> DEFINE put == Put("objectives", o, status)
           takes == status = "approved" /\ store.owner[key] = None
           last == IF takes THEN <<Put("owner", key, o)>> ELSE <<>>
<1>1. put \in Writes /\ status # None /\ o # None
  BY NoneAssumption DEF Put, Writes
<1>2. Fits(<<put>>, before) /\ Range(<<put>>) = {put}
  BY <1>1, FitsOne
<1>3. /\ Fits(<<put>> \o related, before)
      /\ Range(<<put>> \o related) = {put} \cup Range(related)
  BY <1>2, FitsConcat
<1>4. Fits(last, before \cup ({put} \cup Range(related))) /\ Range(last) \subseteq {Put("owner", key, o)}
  <2>1. CASE takes
    <3>1. Put("owner", key, o) \in Writes
      BY DEF Put, Writes
    <3>2. Needs(Put("owner", key, o)) = {Least("objectives", o, 1)}
      BY <1>1 DEF Needs, Put
    <3>3. Level("objectives", status) >= 1
      BY <1>1, StandingIs
    <3>4. Meets(put, Least("objectives", o, 1))
      BY <3>3 DEF Meets, Least, Put
    <3>5. IsPrepared(Put("owner", key, o), before \cup ({put} \cup Range(related)))
      BY <3>2, <3>4 DEF IsPrepared
    <3>6. Rises(Put("owner", key, o), before \cup ({put} \cup Range(related)))
      BY DEF Rises, OnlyRises, Put
    <3>7. QED
      BY <2>1, <3>1, <3>5, <3>6, FitsOne
  <2>2. CASE ~ takes
    BY <2>2, FitsNothing
  <2>3. QED
    BY <2>1, <2>2
<1>5. SetObjective(o, key, status, related) = (<<put>> \o related) \o last
  BY DEF SetObjective
<1> HIDE DEF put, last
<1>6. /\ Fits((<<put>> \o related) \o last, before)
      /\ Range((<<put>> \o related) \o last) = Range(<<put>> \o related) \cup Range(last)
  BY <1>3, <1>4, FitsConcat
<1>7. QED
  BY <1>3, <1>4, <1>5, <1>6 DEF put

\* A later stage needs no less.
LEMMA StageNeedsMore ==
  ASSUME NEW key, NEW less \in 1..4, NEW more \in 1..4, less <= more
  PROVE  StageNeeds(key, less) \subseteq StageNeeds(key, more)
BY DEF StageNeeds

\* A notification of a ledger tells of no later stage than its Channel; one of a
\* payment channel, of the Channel's status, and what the vouchers say.
LEMMA NoticeIs ==
  ASSUME TypeOK, NEW key \in ChannelIds, NEW c \in Channel
  PROVE  /\ Notice(key, c) \in Writes /\ Notice(key, c).value # None
         /\ Notice(key, c).table = "notices" /\ Notice(key, c).key = key
         /\ Notice(key, c).value.status
              = IF key = Ledger THEN StatusFromChannel(c) ELSE PaymentStatus(c)
         /\ Rank(Notice(key, c).value.status) \in 1..StageOf(c)
         /\ Rank(Notice(key, c).value.status) \in 1..4
         /\ Level("notices", Notice(key, c).value) = Rank(Notice(key, c).value.status)
         /\ key = Ledger => Needs(Notice(key, c)) \subseteq StageNeeds(key, StageOf(c))
         /\ key \in Payments =>
              /\ Balance(key) \in Amount
              /\ PaidByVouchers(Notice(key, c).value) => Notice(key, c).value.paid = Balance(key)
              /\ Needs(Notice(key, c))
                   \subseteq {Least("channels", key, Rank(PaymentStatus(c))),
                              Least("vouchers", key, Balance(key) + 1)}
<1>1. PICK info : info = IF key = Ledger THEN LedgerInfo(StatusFromChannel(c))
                         ELSE PaymentNotice(key, c)
  OBVIOUS
<1>2. Notice(key, c) = Put("notices", key, info)
  BY <1>1 DEF Notice
<1>3. /\ StatusFromChannel(c) \in Status /\ PaymentStatus(c) \in Status
      /\ StageOf(c) \in 1..4 /\ c.paid \in Amount
      /\ Rank(StatusFromChannel(c)) \in 1..StageOf(c)
      /\ Rank(PaymentStatus(c)) \in 1..StageOf(c)
  BY StatusIs DEF Channel
<1>4. key \in Payments => Balance(key) \in Amount
  <2>1. 0 \in Amount
    BY TotalAssumption DEF Amount
  <2>2. QED
    BY <2>1 DEF TypeOK, Balance
<1>5. /\ info \in Info
      /\ info.status = IF key = Ledger THEN StatusFromChannel(c) ELSE PaymentStatus(c)
      /\ key \in Payments /\ c.final # "all" => info.paid = Balance(key)
  <2>1. CASE key = Ledger
    <3>1. 0 \in Amount /\ Ledger \in ChannelIds
      BY TotalAssumption DEF Amount, ChannelIds
    <3>2. QED
      BY <1>1, <1>3, <2>1, <3>1, LedgerAssumption DEF LedgerInfo, Info
  <2>2. CASE key # Ledger
    <3>1. PICK paid : paid = IF c.final = "all" THEN Total - c.paid ELSE Balance(key)
      OBVIOUS
    <3>2. paid \in Amount
      BY <1>3, <1>4, <2>2, <3>1, TotalAssumption DEF Amount, ChannelIds
    <3>3. Total - paid \in Amount
      BY <3>2, TotalAssumption DEF Amount
    <3>4. info = PaymentInfo(key, c, paid, Total - paid)
      BY <1>1, <2>2, <3>1 DEF PaymentNotice
    <3>5. QED
      BY <1>3, <2>2, <3>1, <3>2, <3>3, <3>4 DEF PaymentInfo, Info
  <2>3. QED
    BY <2>1, <2>2
<1>6. Notice(key, c) \in Writes /\ info # None
  BY <1>2, <1>5, NoneAssumption DEF Writes, Put
<1>7. Rank(info.status) \in 1..StageOf(c) /\ Rank(info.status) \in 1..4
  BY <1>3, <1>5
<1>8. Level("notices", info) = Rank(info.status)
  BY <1>6 DEF Level
<1>9. key = Ledger => Needs(Notice(key, c)) \subseteq StageNeeds(key, StageOf(c))
  <2>1. key = Ledger => Needs(Notice(key, c)) = StageNeeds(key, Rank(info.status))
    BY <1>2, <1>6 DEF Needs, Put
  <2>2. StageNeeds(key, Rank(info.status)) \subseteq StageNeeds(key, StageOf(c))
    BY <1>3, <1>7, StageNeedsMore
  <2>3. QED
    BY <2>1, <2>2
<1>10. key \in Payments /\ PaidByVouchers(info) => info.paid = Balance(key)
  <2>1. ASSUME key \in Payments, PaidByVouchers(info) PROVE c.final # "all"
    <3>1. StatusFromChannel(c) # "Complete"
      BY <1>5, <2>1, LedgerAssumption DEF PaidByVouchers, PaymentStatus
    <3>2. QED
      BY <3>1 DEF StatusFromChannel
  <2>2. QED
    BY <1>5, <2>1
<1>11. ASSUME key \in Payments
       PROVE  Needs(Notice(key, c)) \subseteq {Least("channels", key, Rank(PaymentStatus(c))),
                                               Least("vouchers", key, Balance(key) + 1)}
  <2>1. Needs(Notice(key, c))
          = {Least("channels", key, Rank(info.status))}
              \cup IF PaidByVouchers(info) THEN {Least("vouchers", key, info.paid + 1)} ELSE {}
    BY <1>2, <1>6, <1>11, LedgerAssumption DEF Needs, Put
  <2>2. info.status = PaymentStatus(c)
    BY <1>5, <1>11, LedgerAssumption
  <2>3. QED
    BY <1>10, <1>11, <2>1, <2>2
<1>12. QED
  BY <1>2, <1>4, <1>5, <1>6, <1>7, <1>8, <1>9, <1>10, <1>11 DEF Put

\* Putting a Channel: what it needs, and that the status of a payment channel
\* never falls.
LEMMA PutChannel ==
  ASSUME TypeOK, NEW key \in ChannelIds, NEW c \in Channel, NEW before,
         \A need \in StageNeeds(key, StageOf(c)) :
           IsMet(need) \/ \E x \in before : Meets(x, need),
         key \in Payments => \/ store.vouchers[key] # None
                             \/ \E x \in before : Meets(x, Least("vouchers", key, 1)),
         key \in Payments =>
           /\ Level("channels", store.channels[key]) <= Level("channels", c)
           /\ \A x \in before : x.table = "channels" /\ x.key = key
                                => Level("channels", x.value) <= Level("channels", c)
  PROVE  /\ Put("channels", key, c) \in Writes
         /\ IsPrepared(Put("channels", key, c), before)
         /\ Rises(Put("channels", key, c), before)
<1>1. c # None
  BY NoneAssumption
<1>2. Put("channels", key, c) \in Writes
  BY DEF Put, Writes, ChannelIds
<1>3. Needs(Put("channels", key, c))
        = StageNeeds(key, StageOf(c)) \cup {Least("vouchers", v, 1) : v \in {key} \ {Ledger}}
  BY <1>1 DEF Needs, Put
<1>4. ASSUME key \in Payments, store.vouchers[key] # None
      PROVE  IsMet(Least("vouchers", key, 1))
  <2>1. store.vouchers[key] \in Nat
    BY <1>4, TotalAssumption DEF TypeOK, Amount
  <2>2. Level("vouchers", store.vouchers[key]) >= 1
    BY <1>4, <2>1 DEF Level
  <2>3. QED
    BY <2>2 DEF IsMet, Least
<1>5. IsPrepared(Put("channels", key, c), before)
  <2>1. ASSUME NEW need \in Needs(Put("channels", key, c))
        PROVE  IsMet(need) \/ \E x \in before : Meets(x, need)
    <3>1. CASE need \in StageNeeds(key, StageOf(c))
      BY <3>1
    <3>2. CASE key \in Payments /\ need = Least("vouchers", key, 1)
      BY <1>4, <3>2
    <3>3. QED
      BY <1>3, <2>1, <3>1, <3>2 DEF ChannelIds
  <2>2. QED
    BY <2>1 DEF IsPrepared
<1>6. Rises(Put("channels", key, c), before)
  BY DEF Rises, OnlyRises, Put, ChannelIds
<1>7. QED
  BY <1>2, <1>5, <1>6

\* Putting a ConsensusChannel: the ledger was funded, and so is each payment
\* channel in the store.
LEMMA PutConsensus ==
  ASSUME TypeOK, NEW consensus \in Consensus, NEW before,
         \/ store.objectives[DirectFunding] = "completed"
         \/ \E x \in before : Meets(x, Least("objectives", DirectFunding, 4)),
         \A v \in consensus.funds : store.channels[v] # None
  PROVE  /\ Put("consensus", Ledger, consensus) \in Writes
         /\ Fits(<<Put("consensus", Ledger, consensus)>>, before)
         /\ Range(<<Put("consensus", Ledger, consensus)>>) = {Put("consensus", Ledger, consensus)}
<1>1. consensus # None /\ consensus.funds \subseteq Payments
  BY NoneAssumption DEF Consensus
<1>2. Put("consensus", Ledger, consensus) \in Writes
  BY DEF Put, Writes
<1>3. Needs(Put("consensus", Ledger, consensus))
        = {Least("objectives", DirectFunding, 4)} \cup {Least("channels", v, 1) : v \in consensus.funds}
  BY <1>1 DEF Needs, Put
<1>4. ASSUME store.objectives[DirectFunding] = "completed"
      PROVE  IsMet(Least("objectives", DirectFunding, 4))
  <2>1. Level("objectives", "completed") >= 4
    BY StandingIs DEF Standing
  <2>2. QED
    BY <1>4, <2>1 DEF IsMet, Least
<1>5. ASSUME NEW v \in consensus.funds PROVE IsMet(Least("channels", v, 1))
  <2>1. v \in Payments /\ store.channels[v] # None
    BY <1>1
  <2>2. store.channels[v] \in Channel
    BY <2>1 DEF TypeOK, ChannelIds
  <2>3. Rank(PaymentStatus(store.channels[v])) >= 1
    BY <2>2, StatusIs
  <2>4. Level("channels", store.channels[v]) >= 1
    BY <2>1, <2>3 DEF Level
  <2>5. QED
    BY <2>4 DEF IsMet, Least
<1>6. IsPrepared(Put("consensus", Ledger, consensus), before)
  <2>1. ASSUME NEW need \in Needs(Put("consensus", Ledger, consensus))
        PROVE  IsMet(need) \/ \E x \in before : Meets(x, need)
    <3>1. CASE need = Least("objectives", DirectFunding, 4)
      BY <1>4, <3>1
    <3>2. CASE \E v \in consensus.funds : need = Least("channels", v, 1)
      BY <1>5, <3>2
    <3>3. QED
      BY <1>3, <2>1, <3>1, <3>2
  <2>2. QED
    BY <2>1 DEF IsPrepared
<1>7. Rises(Put("consensus", Ledger, consensus), before)
  BY DEF Rises, OnlyRises, Put
<1>8. QED
  BY <1>2, <1>6, <1>7, FitsOne

\* The needs of a stage, given what is stored and the objective about to be put.
LEMMA StageMet ==
  ASSUME TypeOK, NEW key \in ChannelIds, NEW o \in {FundOf(key), DefundOf(key)},
         NEW status \in Standing, NEW stage \in 1..4, NEW before,
         Put("objectives", o, status) \in before,
         stage >= 2 => \/ store.objectives[FundOf(key)] = "completed"
                       \/ o = FundOf(key) /\ status = "completed",
         stage >= 3 => \/ store.objectives[DefundOf(key)] \in {"approved", "completed"}
                       \/ o = DefundOf(key) /\ status \in {"approved", "completed"}
  PROVE  \A need \in StageNeeds(key, stage) : IsMet(need) \/ \E x \in before : Meets(x, need)
<1>1. ASSUME NEW other \in {FundOf(key), DefundOf(key)}, NEW level \in 0..4,
             \/ Level("objectives", store.objectives[other]) >= level
             \/ o = other /\ Level("objectives", status) >= level
      PROVE  \/ IsMet(Least("objectives", other, level))
             \/ \E x \in before : Meets(x, Least("objectives", other, level))
  <2>1. CASE Level("objectives", store.objectives[other]) >= level
    BY <2>1 DEF IsMet, Least
  <2>2. CASE o = other /\ Level("objectives", status) >= level
    <3>1. Meets(Put("objectives", o, status), Least("objectives", other, level))
      BY <2>2 DEF Meets, Least, Put
    <3>2. QED
      BY <3>1
  <2>3. QED
    BY <1>1, <2>1, <2>2
<1>3. /\ Level("objectives", "completed") >= 4 /\ Level("objectives", "completed") >= 3
      /\ Level("objectives", "approved") >= 3
  BY StandingIs DEF Standing
<1>4. CASE stage >= 2
  <2>1. \/ Level("objectives", store.objectives[FundOf(key)]) >= 4
        \/ o = FundOf(key) /\ Level("objectives", status) >= 4
    BY <1>3, <1>4
  <2>2. \/ IsMet(Least("objectives", FundOf(key), 4))
        \/ \E x \in before : Meets(x, Least("objectives", FundOf(key), 4))
    BY <1>1, <2>1
  <2>3. stage >= 3 => \/ IsMet(Least("objectives", DefundOf(key), 3))
                      \/ \E x \in before : Meets(x, Least("objectives", DefundOf(key), 3))
    <3>1. SUFFICES ASSUME stage >= 3
                   PROVE  \/ IsMet(Least("objectives", DefundOf(key), 3))
                          \/ \E x \in before : Meets(x, Least("objectives", DefundOf(key), 3))
      OBVIOUS
    <3>2. \/ Level("objectives", store.objectives[DefundOf(key)]) >= 3
          \/ o = DefundOf(key) /\ Level("objectives", status) >= 3
      BY <1>3, <3>1
    <3>3. QED
      BY <1>1, <3>2
  <2>4. QED
    BY <2>2, <2>3 DEF StageNeeds
<1>5. CASE ~ (stage >= 2)
  BY <1>5 DEF StageNeeds
<1>6. QED
  BY <1>4, <1>5

\* An update of the ledger that is open.
LEMMA OpenNoticeIs ==
  /\ OpenNotice \in Writes /\ OpenNotice.table = "notices" /\ OpenNotice.key = Ledger
  /\ Level("notices", OpenNotice.value) = 2 /\ OpenNotice.value # None
  /\ Needs(OpenNotice) = {Least("objectives", DirectFunding, 4)}
<1>1. PICK info : info = LedgerInfo("Open")
  OBVIOUS
<1>2. OpenNotice = Put("notices", Ledger, info) /\ info.status = "Open"
  BY <1>1 DEF OpenNotice, LedgerInfo
<1>3. info \in Info /\ Ledger \in ChannelIds
  BY <1>1, RankIs, TotalAssumption DEF LedgerInfo, Info, ChannelIds, Amount
<1>4. info # None
  BY <1>3, NoneAssumption
<1>5. OpenNotice \in Writes
  BY <1>2, <1>3 DEF Writes, Put
<1>6. Level("notices", info) = 2
  BY <1>2, <1>4, RankIs DEF Level
<1>7. Needs(OpenNotice) = StageNeeds(Ledger, 2)
  BY <1>2, <1>4, RankIs DEF Needs, Put
<1>8. StageNeeds(Ledger, 2) = {Least("objectives", DirectFunding, 4)}
  BY DEF StageNeeds, FundOf
<1>9. QED
  BY <1>2, <1>4, <1>5, <1>6, <1>7, <1>8 DEF Put

\* The updates of an attempt: of its Channel, and of the ledger a payment channel
\* uses, which is open.
LEMMA NoticesFit ==
  ASSUME TypeOK, NEW key \in ChannelIds, NEW c \in Channel, NEW before,
         Put("channels", key, c) \in before,
         key = Ledger => \A need \in StageNeeds(key, StageOf(c)) :
                           IsMet(need) \/ \E x \in before : Meets(x, need),
         key \in Payments =>
           /\ store.objectives[DirectFunding] = "completed"
           /\ Level("notices", store.notices[Ledger]) <= 2
           /\ store.vouchers[key] \in Amount \/ Put("vouchers", key, 0) \in before,
         \A x \in before : x.table # "notices",
         Level("notices", store.notices[key]) <= Rank(Notice(key, c).value.status)
  PROVE  /\ Fits(Notices(key, c), before)
         /\ Range(Notices(key, c))
              = {Notice(key, c)} \cup IF key = Ledger THEN {} ELSE {OpenNotice}
<1>1. PICK notice : notice = Notice(key, c)
  OBVIOUS
<1>2. notice \in Writes /\ Rises(notice, before)
  BY <1>1, NoticeIs DEF Rises
<1>3. CASE key = Ledger
  <2>1. IsPrepared(notice, before)
    BY <1>1, <1>3, NoticeIs DEF IsPrepared
  <2>2. Fits(<<notice>>, before) /\ Range(<<notice>>) = {notice}
    BY <1>2, <2>1, FitsOne
  <2>3. Notices(key, c) = <<notice>> \o <<>>
    BY <1>1, <1>3 DEF Notices
  <2>4. Fits(<<>>, before \cup Range(<<notice>>)) /\ Range(<<>>) = {}
    BY FitsNothing
  <2>5. /\ Fits(<<notice>> \o <<>>, before)
        /\ Range(<<notice>> \o <<>>) = Range(<<notice>>) \cup Range(<<>>)
    <3>1. PICK s : s = <<notice>>
      OBVIOUS
    <3>2. PICK t : t = <<>>
      OBVIOUS
    <3>3. Fits(s \o t, before) /\ Range(s \o t) = Range(s) \cup Range(t)
      BY <2>2, <2>4, <3>1, <3>2, FitsConcat
    <3>4. QED
      BY <3>1, <3>2, <3>3
  <2>6. QED
    BY <1>1, <1>3, <2>2, <2>3, <2>4, <2>5
<1>4. CASE key # Ledger
  <2>1. key \in Payments
    BY <1>4 DEF ChannelIds
  <2>2. Meets(Put("channels", key, c), Least("channels", key, Rank(PaymentStatus(c))))
    <3>1. c # None /\ Rank(PaymentStatus(c)) \in 1..4
      BY NoneAssumption, StatusIs
    <3>2. Level("channels", c) = Rank(PaymentStatus(c))
      BY <3>1 DEF Level
    <3>3. QED
      BY <3>1, <3>2 DEF Meets, Least, Put
  <2>3. \/ IsMet(Least("vouchers", key, Balance(key) + 1))
        \/ \E x \in before : Meets(x, Least("vouchers", key, Balance(key) + 1))
    <3>1. CASE store.vouchers[key] \in Amount
      <4>1. store.vouchers[key] # None /\ store.vouchers[key] \in Nat
        BY <3>1, NoneAssumption, TotalAssumption DEF Amount
      <4>2. Level("vouchers", store.vouchers[key]) >= Balance(key) + 1
        BY <4>1 DEF Level, Balance
      <4>3. QED
        BY <4>2 DEF IsMet, Least
    <3>2. CASE store.vouchers[key] \notin Amount
      <4>1. store.vouchers[key] = None
        BY <2>1, <3>2 DEF TypeOK
      <4>2. Balance(key) = 0 /\ 0 # None
        BY <4>1, NoneAssumption, TotalAssumption DEF Balance, Amount
      <4>3. Level("vouchers", 0) >= 0 + 1
        BY <4>2 DEF Level
      <4>4. Meets(Put("vouchers", key, 0), Least("vouchers", key, Balance(key) + 1))
        BY <4>2, <4>3 DEF Meets, Least, Put
      <4>5. QED
        BY <2>1, <3>2, <4>4
    <3>3. QED
      BY <3>1, <3>2
  <2>4. IsPrepared(notice, before)
    BY <1>1, <2>1, <2>2, <2>3, NoticeIs DEF IsPrepared
  <2>5. Fits(<<notice>>, before) /\ Range(<<notice>>) = {notice}
    BY <1>2, <2>4, FitsOne
  <2>6. /\ OpenNotice \in Writes /\ OpenNotice.table = "notices" /\ OpenNotice.key = Ledger
        /\ Level("notices", OpenNotice.value) = 2
        /\ Needs(OpenNotice) = {Least("objectives", DirectFunding, 4)}
    BY OpenNoticeIs
  <2>7. IsPrepared(OpenNotice, before \cup {notice})
    <3>1. Level("objectives", store.objectives[DirectFunding]) >= 4
      BY <2>1, StandingIs DEF Standing
    <3>2. IsMet(Least("objectives", DirectFunding, 4))
      BY <3>1 DEF IsMet, Least
    <3>3. QED
      BY <2>6, <3>2 DEF IsPrepared
  <2>8. Rises(OpenNotice, before \cup {notice})
    <3>1. notice.key = key
      BY <1>1, NoticeIs
    <3>2. \A x \in before \cup {notice} : ~ (x.table = "notices" /\ x.key = Ledger)
      BY <1>4, <3>1
    <3>3. QED
      BY <2>1, <2>6, <3>2 DEF Rises
  <2>9. Fits(<<OpenNotice>>, before \cup {notice}) /\ Range(<<OpenNotice>>) = {OpenNotice}
    BY <2>6, <2>7, <2>8, FitsOne
  <2>10. /\ Fits(<<notice>> \o <<OpenNotice>>, before)
         /\ Range(<<notice>> \o <<OpenNotice>>) = {notice} \cup {OpenNotice}
    <3>1. PICK s : s = <<notice>>
      OBVIOUS
    <3>2. PICK t : t = <<OpenNotice>>
      OBVIOUS
    <3>3. Fits(s \o t, before) /\ Range(s \o t) = Range(s) \cup Range(t)
      BY <2>5, <2>9, <3>1, <3>2, FitsConcat
    <3>4. QED
      BY <2>5, <2>9, <3>1, <3>2, <3>3
  <2>11. Notices(key, c) = <<notice>> \o <<OpenNotice>>
    BY <1>1, <1>4 DEF Notices
  <2>12. QED
    BY <1>1, <1>4, <2>10, <2>11
<1>5. QED
  BY <1>3, <1>4

\* What an attempt asks of the store and of the writes before it: its objective
\* and its Channel come further, as far as the Channel's stage says.
MayAttempt(o, key, status, c, consensus, before) ==
  /\ \A x \in before \cup Range(consensus) : x.table # "notices"
  /\ o = DefundOf(key) => store.objectives[FundOf(key)] = "completed"
  /\ Level("objectives", store.objectives[o]) <= Level("objectives", status)
  /\ \A x \in before : x.table = "objectives" /\ x.key = o
                       => Level("objectives", x.value) <= Level("objectives", status)
  /\ StageOf(c) >= 2 => \/ store.objectives[FundOf(key)] = "completed"
                        \/ o = FundOf(key) /\ status = "completed"
  /\ StageOf(c) >= 3 => \/ store.objectives[DefundOf(key)] \in {"approved", "completed"}
                        \/ o = DefundOf(key) /\ status \in {"approved", "completed"}
  /\ key \in Payments =>
       /\ store.objectives[DirectFunding] = "completed"
       /\ Level("notices", store.notices[Ledger]) <= 2
       /\ store.vouchers[key] \in Amount \/ Put("vouchers", key, 0) \in before
       /\ Level("channels", store.channels[key]) <= Level("channels", c)
       /\ \A x \in before : x.table = "channels" /\ x.key = key
                            => Level("channels", x.value) <= Level("channels", c)
  /\ Fits(consensus, (before \cup {Put("objectives", o, status)}) \cup {Put("channels", key, c)})
  /\ Level("notices", store.notices[key]) <= Rank(Notice(key, c).value.status)

\* attemptProgress: the objective, its Channel, the ledger, the owner, the
\* notifications, and the end of the ownership.
LEMMA AttemptFits ==
  ASSUME TypeOK, NEW key \in ChannelIds, NEW o \in {FundOf(key), DefundOf(key)},
         NEW status \in Standing, NEW c \in Channel, NEW consensus, NEW before,
         MayAttempt(o, key, status, c, consensus, before)
  PROVE  /\ Fits(Attempt(o, key, status, c, consensus), before)
         /\ Range(Attempt(o, key, status, c, consensus))
              \subseteq {Put("objectives", o, status), Put("channels", key, c),
                         Put("owner", key, o), Del("owner", key)}
                          \cup Range(consensus) \cup Range(Notices(key, c))
         /\ {Put("objectives", o, status), Put("channels", key, c)} \cup Range(consensus)
              \subseteq Range(Attempt(o, key, status, c, consensus))
         /\ Range(Notices(key, c))
              = {Notice(key, c)} \cup IF key = Ledger THEN {} ELSE {OpenNotice}
<1> DEFINE put == Put("objectives", o, status)
           channel == Put("channels", key, c)
           related == <<channel>> \o consensus
           sets == SetObjective(o, key, status, related)
           tells == Notices(key, c)
           last == IF status = "completed" THEN <<Del("owner", key)>> ELSE <<>>
<1>1. o \in Objectives /\ StageOf(c) \in 1..4
  BY ObjectivesAre, StatusIs
<1>2. put \in Writes /\ IsPrepared(put, before) /\ Rises(put, before)
  BY PutObjective DEF MayAttempt
<1>3. \A need \in StageNeeds(key, StageOf(c)) :
        IsMet(need) \/ \E x \in before \cup {put} : Meets(x, need)
  BY <1>1, StageMet DEF MayAttempt
<1>4. /\ channel \in Writes /\ IsPrepared(channel, before \cup {put})
      /\ Rises(channel, before \cup {put})
  <2>1. key \in Payments => \/ store.vouchers[key] # None
                            \/ \E x \in before \cup {put} : Meets(x, Least("vouchers", key, 1))
    <3>1. Meets(Put("vouchers", key, 0), Least("vouchers", key, 1))
      <4>1. 0 # None
        BY NoneAssumption, TotalAssumption DEF Amount
      <4>2. Level("vouchers", 0) >= 1
        BY <4>1 DEF Level
      <4>3. QED
        BY <4>2 DEF Meets, Least, Put
    <3>2. QED
      BY <3>1, NoneAssumption DEF MayAttempt
  <2>2. put.table # "channels"
    BY DEF Put
  <2>3. key \in Payments =>
          \A x \in before \cup {put} : x.table = "channels" /\ x.key = key
                                       => Level("channels", x.value) <= Level("channels", c)
    BY <2>2 DEF MayAttempt
  <2>4. key \in Payments => Level("channels", store.channels[key]) <= Level("channels", c)
    BY DEF MayAttempt
  <2>5. QED
    BY <1>3, <2>1, <2>3, <2>4, PutChannel
<1>5. Fits(<<channel>>, before \cup {put}) /\ Range(<<channel>>) = {channel}
  BY <1>4, FitsOne
<1>6. /\ Fits(related, before \cup {put})
      /\ Range(related) = {channel} \cup Range(consensus)
  <2>1. Fits(consensus, (before \cup {put}) \cup {channel})
    BY DEF MayAttempt
  <2>2. QED
    BY <1>5, <2>1, FitsConcat
<1>7. /\ Fits(sets, before)
      /\ Range(sets) \subseteq {put, Put("owner", key, o)} \cup Range(related)
      /\ {put} \cup Range(related) \subseteq Range(sets)
  <2> HIDE DEF related
  <2>1. QED
    BY <1>1, <1>2, <1>6, SetObjectiveFits
<1>8. /\ Fits(tells, before \cup Range(sets))
      /\ Range(tells) = {Notice(key, c)} \cup IF key = Ledger THEN {} ELSE {OpenNotice}
  <2>1. put.table = "objectives" /\ channel.table = "channels" /\ Put("owner", key, o).table = "owner"
    BY DEF Put
  <2>2. \A x \in before \cup Range(sets) : x.table # "notices"
    BY <1>6, <1>7, <2>1 DEF MayAttempt
  <2>3. channel \in before \cup Range(sets) /\ put \in Range(sets)
    BY <1>6, <1>7
  <2>4. \A need \in StageNeeds(key, StageOf(c)) :
          IsMet(need) \/ \E x \in before \cup Range(sets) : Meets(x, need)
    BY <1>3, <2>3
  <2>5. key \in Payments =>
          /\ store.objectives[DirectFunding] = "completed"
          /\ Level("notices", store.notices[Ledger]) <= 2
          /\ store.vouchers[key] \in Amount
             \/ Put("vouchers", key, 0) \in before \cup Range(sets)
    BY DEF MayAttempt
  <2>6. PICK all : all = before \cup Range(sets)
    OBVIOUS
  <2>7. Fits(Notices(key, c), all) /\ Range(Notices(key, c))
          = {Notice(key, c)} \cup IF key = Ledger THEN {} ELSE {OpenNotice}
    <3>1. Level("notices", store.notices[key]) <= Rank(Notice(key, c).value.status)
      BY DEF MayAttempt
    <3>2. QED
      BY <2>2, <2>3, <2>4, <2>5, <2>6, <3>1, NoticesFit
  <2>8. QED
    BY <2>6, <2>7
<1>9. \A more : Fits(last, more) /\ Range(last) \subseteq {Del("owner", key)}
  <2>1. TAKE more
  <2>2. CASE status = "completed"
    <3>1. Del("owner", key) \in Writes
      BY DEF Del, Put, Writes
    <3>2. Needs(Del("owner", key)) = {}
      BY DEF Needs, Del, Put
    <3>3. IsPrepared(Del("owner", key), more) /\ Rises(Del("owner", key), more)
      BY <3>2 DEF IsPrepared, Rises, OnlyRises, Del, Put
    <3>4. QED
      BY <2>2, <3>1, <3>3, FitsOne
  <2>3. CASE status # "completed"
    BY <2>3, FitsNothing
  <2>4. QED
    BY <2>2, <2>3
<1>10. Attempt(o, key, status, c, consensus) = (sets \o tells) \o last
  BY DEF Attempt
<1> HIDE DEF put, channel, related, sets, tells, last
<1>11. Fits(sets \o tells, before) /\ Range(sets \o tells) = Range(sets) \cup Range(tells)
  BY <1>7, <1>8, FitsConcat
<1>12. /\ Fits((sets \o tells) \o last, before)
       /\ Range((sets \o tells) \o last) = Range(sets \o tells) \cup Range(last)
  BY <1>9, <1>11, FitsConcat
<1>13. Range(Attempt(o, key, status, c, consensus)) = (Range(sets) \cup Range(tells)) \cup Range(last)
  BY <1>10, <1>11, <1>12
<1>14. /\ Range(Attempt(o, key, status, c, consensus))
            \subseteq {put, channel, Put("owner", key, o), Del("owner", key)}
                        \cup Range(consensus) \cup Range(tells)
       /\ {put, channel} \cup Range(consensus) \subseteq Range(Attempt(o, key, status, c, consensus))
  BY <1>6, <1>7, <1>9, <1>13
<1>15. QED
  BY <1>8, <1>10, <1>12, <1>14 DEF put, channel, tells

-----------------------------------------------------------------------------
(***************************************************************************)
(* A handler begins.                                                       *)
(***************************************************************************)
\* Nothing is pending when a handler begins, and then what it writes is.
LEMMA BeginIs ==
  ASSUME TypeOK, NEW writes, Begin(writes)
  PROVE  /\ store' = store /\ query' = query /\ witness' = witness
         /\ Pending = {} /\ Pending' = Range(writes)
         /\ \A table, key : /\ Said(table, key) = {store[table][key]}
                            /\ Said(table, key)' = {store[table][key]}
                                 \cup {w.value : w \in {x \in Range(writes) :
                                                          x.table = table /\ x.key = key}}
<1>1. /\ store' = store /\ query' = query /\ witness' = witness /\ todo = <<>> /\ todo' = writes
  BY DEF Begin
<1>2. Pending = {} /\ Pending' = Range(writes)
  BY <1>1 DEF Pending, Range
<1>3. QED
  BY <1>1, <1>2 DEF Said

\* A handler whose writes are in order, keep the forms of the ledger and tell the
\* latest of payments keeps the inductive invariant.
LEMMA BeginKeeps ==
  ASSUME InductiveInv, NEW writes, Begin(writes), Fits(writes, {}),
         FormInv', ClosedInv', PaidInv'
  PROVE  InductiveInv'
<1>1. /\ store' = store /\ query' = query /\ witness' = witness /\ todo = <<>> /\ todo' = writes
      /\ writes \in Seq(Writes)
  BY DEF Begin, Fits
<1>2. /\ TypeOK' /\ StoreInv' /\ VoucherInv' /\ BalancesAddUp' /\ AnswersFollowEvents'
      /\ HeardInv'
  <2>1. TypeOK' /\ StoreInv' /\ VoucherInv'
    BY <1>1 DEF InductiveInv, TypeOK, StoreInv, VoucherInv, IsMet, First
  <2>2. BalancesAddUp' /\ AnswersFollowEvents'
    BY <1>1 DEF InductiveInv, BalancesAddUp, AnswersFollowEvents, Infos
  <2>3. HeardInv'
    BY <1>1 DEF InductiveInv, HeardInv, IsMet, First
  <2>4. QED
    BY <2>1, <2>2, <2>3
<1>3. OrderInv'
  BY <1>1 DEF OrderInv, Fits, IsOrderly, IsPrepared, Rises, IsMet
<1>4. KnownInv'
  <2>1. IsBeingClosed => IsBeingClosed'
    BY <1>1 DEF IsBeingClosed
  <2>2. QED
    BY <1>1, <2>1 DEF InductiveInv, KnownInv
<1>5. QED
  BY <1>2, <1>3, <1>4 DEF InductiveInv

\* The forms of the ledger stay when a handler erases no ConsensusChannel.
LEMMA FormBegins ==
  ASSUME TypeOK, NEW writes, Begin(writes),
         \A w \in Range(writes) : w.table = "consensus" =>
           w.value # None /\ IsFiniteSet(w.value.funds)
  PROVE  FormInv'
BY BeginIs DEF FormInv, Del, Put

\* The ledger that is being closed is no ConsensusChannel, nor will be.
LEMMA ClosedBegins ==
  ASSUME InductiveInv, NEW writes, Begin(writes),
         \A i \in DOMAIN writes : writes[i] \in ClosingWrites =>
           store.consensus[Ledger] = None \/ Del("consensus", Ledger) \in Before(writes, i),
         \/ store.objectives[DirectDefunding] \in Closing
         \/ Range(writes) \cap ClosingWrites # {}
         => \A w \in Range(writes) : w.table = "consensus" => w.value = None
  PROVE  ClosedInv'
<1>1. store' = store /\ todo' = writes /\ Pending' = Range(writes)
  BY BeginIs DEF InductiveInv, Begin
<1>2. store.objectives[DirectDefunding] \in Closing => store.consensus[Ledger] = None
  BY DEF InductiveInv, ClosedInv
<1>3. QED
  BY <1>1, <1>2 DEF ClosedInv

\* What is told of payments is the latest when a handler is about the ledger.
LEMMA PaidLedger ==
  ASSUME InductiveInv, NEW writes, Begin(writes),
         \A w \in Range(writes) : w.table = "notices" => w.key \notin Payments
  PROVE  PaidInv'
<1>1. Pending' = Range(writes)
  BY BeginIs DEF InductiveInv
<1>2. QED
  BY <1>1 DEF PaidInv

\* And when it is about a payment channel, whose vouchers it may register.
LEMMA PaidPayment ==
  ASSUME InductiveInv, NEW writes, Begin(writes), NEW v \in Payments, NEW c \in Channel,
         \A w \in Range(writes) :
           /\ w.table = "notices" => w \in {Notice(v, c), OpenNotice}
           /\ w.table = "vouchers" /\ w.key = v => store.vouchers[v] = None /\ w.value = 0
  PROVE  PaidInv'
<1>1. TypeOK /\ v \in ChannelIds /\ v # Ledger
  BY LedgerAssumption DEF InductiveInv, ChannelIds
<1>2. SUFFICES ASSUME NEW w \in Range(writes), w.table = "notices", w.key \in Payments,
                      PaidByVouchers(w.value), NEW paid \in Said("vouchers", w.key)',
                      paid # None
               PROVE  paid <= w.value.paid
  BY <1>1, BeginIs DEF PaidInv
<1>3. w = Notice(v, c) /\ w.key = v
  <2>1. OpenNotice.key \notin Payments
    BY OpenNoticeIs, LedgerAssumption
  <2>2. QED
    BY <1>1, <1>2, <2>1, NoticeIs
<1>4. w.value.paid = Balance(v) /\ Balance(v) \in Amount
  BY <1>1, <1>2, <1>3, NoticeIs
<1>5. \/ paid = store.vouchers[v]
      \/ \E x \in Range(writes) : x.table = "vouchers" /\ x.key = v /\ x.value = paid
  <2>1. Said("vouchers", v)' = {store["vouchers"][v]}
          \cup {x.value : x \in {y \in Range(writes) : y.table = "vouchers" /\ y.key = v}}
    BY <1>1, BeginIs
  <2>2. QED
    BY <1>2, <1>3, <2>1
<1>6. paid = Balance(v)
  BY <1>2, <1>5 DEF Balance
<1>7. QED
  BY <1>4, <1>6, TotalAssumption DEF Amount

\* How far a channel's notifications have come.
LEMMA NoticeLevels ==
  ASSUME TypeOK, StoreInv
  PROVE  /\ Level("notices", store.notices[Ledger]) \in 0..4
         /\ store.objectives[DirectFunding] # "completed"
              => Level("notices", store.notices[Ledger]) <= 1
         /\ store.objectives[DirectDefunding] \notin {"approved", "completed"}
              => Level("notices", store.notices[Ledger]) <= 2
         /\ \A v \in Payments :
              Level("notices", store.notices[v]) <= Level("channels", store.channels[v])
<1>1. /\ Level("notices", store.notices[Ledger]) \in 0..4
      /\ store.objectives[DirectFunding] # "completed"
           => Level("notices", store.notices[Ledger]) <= 1
      /\ store.objectives[DirectDefunding] \notin {"approved", "completed"}
           => Level("notices", store.notices[Ledger]) <= 2
  <2>1. CASE store.notices[Ledger] = None
    BY <2>1 DEF Level
  <2>2. CASE store.notices[Ledger] # None
    <3>1. Ledger \in ChannelIds
      BY DEF ChannelIds
    <3>2. QED
      BY <2>2, <3>1, NoticeSays
  <2>3. QED
    BY <2>1, <2>2
<1>2. ASSUME NEW v \in Payments
      PROVE  Level("notices", store.notices[v]) <= Level("channels", store.channels[v])
  <2>1. v \in ChannelIds
    BY DEF ChannelIds
  <2>2. CASE store.notices[v] = None
    <3>1. Level("channels", store.channels[v]) \in Nat
      BY <2>1, TableIs DEF TypeOK
    <3>2. QED
      BY <2>2, <3>1 DEF Level
  <2>3. CASE store.notices[v] # None
    BY <2>1, <2>3, NoticeSays
  <2>4. QED
    BY <2>2, <2>3
<1>3. QED
  BY <1>1, <1>2

\* The Channels that handlers make.
LEMMA MadeChannels ==
  /\ NewChannel \in Channel /\ StageOf(NewChannel) = 1
  /\ \A consensus : /\ ChannelOf(consensus) \in Channel /\ StageOf(ChannelOf(consensus)) <= 2
                    /\ StageOf(ChannelOf(consensus)) \in 1..4
  /\ \A c \in Channel :
       /\ SignedFinal(c, "mine") \in Channel /\ StageOf(SignedFinal(c, "mine")) = 3
       /\ SignedFinal(c, "all") \in Channel /\ StageOf(SignedFinal(c, "all")) = 4
       /\ SignedFinal(c, "mine").postfund = c.postfund
       /\ SignedFinal(c, "mine").final = "mine" /\ SignedFinal(c, "all").final = "all"
<1>1. NewChannel \in Channel /\ StageOf(NewChannel) = 1
  BY TotalAssumption DEF NewChannel, Channel, Amount, StageOf
<1>2. ASSUME NEW consensus
      PROVE  /\ ChannelOf(consensus) \in Channel /\ StageOf(ChannelOf(consensus)) <= 2
             /\ StageOf(ChannelOf(consensus)) \in 1..4
  BY <1>1 DEF ChannelOf, NewChannel, Channel, StageOf
<1>3. ASSUME NEW c \in Channel
      PROVE  /\ SignedFinal(c, "mine") \in Channel /\ StageOf(SignedFinal(c, "mine")) = 3
             /\ SignedFinal(c, "all") \in Channel /\ StageOf(SignedFinal(c, "all")) = 4
             /\ SignedFinal(c, "mine").postfund = c.postfund
             /\ SignedFinal(c, "mine").final = "mine" /\ SignedFinal(c, "all").final = "all"
  BY DEF SignedFinal, Channel, StageOf
<1>4. QED
  BY <1>1, <1>2, <1>3

-----------------------------------------------------------------------------
(***************************************************************************)
(* The handlers of the ledger.                                             *)
(***************************************************************************)
\* The ledger and its objectives.
LEMMA LedgerIs ==
  /\ Ledger \in ChannelIds /\ Ledger \notin Payments
  /\ FundOf(Ledger) = DirectFunding /\ DefundOf(Ledger) = DirectDefunding
  /\ DirectFunding \in Objectives /\ DirectDefunding \in Objectives
  /\ DirectFunding # DirectDefunding
BY LedgerAssumption DEF ChannelIds, FundOf, DefundOf, Objectives, DirectFunding, DirectDefunding

\* Storing one of its objectives with its Channel.
LEMMA SetLedger ==
  ASSUME TypeOK, NEW o \in {DirectFunding, DirectDefunding}, NEW status \in Standing,
         NEW c \in Channel, NEW before, \A x \in before : x \in Writes,
         o = DirectDefunding => store.objectives[DirectFunding] = "completed",
         Level("objectives", store.objectives[o]) <= Level("objectives", status),
         \A x \in before : x.table = "objectives" /\ x.key = o
                             => Level("objectives", x.value) <= Level("objectives", status),
         StageOf(c) >= 2 => store.objectives[DirectFunding] = "completed",
         StageOf(c) >= 3 => store.objectives[DirectDefunding] \in {"approved", "completed"}
  PROVE  /\ Fits(SetObjective(o, Ledger, status, <<Put("channels", Ledger, c)>>), before)
         /\ Range(SetObjective(o, Ledger, status, <<Put("channels", Ledger, c)>>))
              \subseteq {Put("objectives", o, status), Put("channels", Ledger, c),
                         Put("owner", Ledger, o)}
         /\ Put("objectives", o, status)
              \in Range(SetObjective(o, Ledger, status, <<Put("channels", Ledger, c)>>))
<1>1. o \in {FundOf(Ledger), DefundOf(Ledger)} /\ o \in Objectives /\ Ledger \in ChannelIds
  BY LedgerIs
<1>2. /\ Put("objectives", o, status) \in Writes
      /\ IsPrepared(Put("objectives", o, status), before)
      /\ Rises(Put("objectives", o, status), before)
  BY <1>1, LedgerIs, PutObjective
<1>3. PICK more : more = before \cup {Put("objectives", o, status)}
  OBVIOUS
<1>4. Put("objectives", o, status) \in more /\ \A x \in more : x \in Writes
  BY <1>2, <1>3
<1>5. \A need \in StageNeeds(Ledger, StageOf(c)) : IsMet(need) \/ \E x \in more : Meets(x, need)
  BY <1>1, <1>4, LedgerIs, StageMet, StatusIs
<1>6. /\ Put("channels", Ledger, c) \in Writes /\ IsPrepared(Put("channels", Ledger, c), more)
      /\ Rises(Put("channels", Ledger, c), more)
  BY <1>1, <1>4, <1>5, LedgerIs, PutChannel
<1>7. /\ Fits(<<Put("channels", Ledger, c)>>, more)
      /\ Range(<<Put("channels", Ledger, c)>>) = {Put("channels", Ledger, c)}
  BY <1>6, FitsOne
<1>8. PICK related : related = <<Put("channels", Ledger, c)>>
  OBVIOUS
<1>9. /\ Fits(SetObjective(o, Ledger, status, related), before)
      /\ Range(SetObjective(o, Ledger, status, related))
           \subseteq {Put("objectives", o, status), Put("owner", Ledger, o)} \cup Range(related)
      /\ {Put("objectives", o, status)} \cup Range(related)
           \subseteq Range(SetObjective(o, Ledger, status, related))
  BY <1>1, <1>2, <1>3, <1>7, <1>8, SetObjectiveFits
<1>10. QED
  BY <1>7, <1>8, <1>9

\* The progress of one of its objectives.
LEMMA AttemptLedger ==
  ASSUME TypeOK, NEW o \in {DirectFunding, DirectDefunding}, NEW status \in Standing,
         NEW c \in Channel, NEW before, \A x \in before : x \in Writes /\ x.table # "notices",
         o = DirectDefunding => store.objectives[DirectFunding] = "completed",
         Level("objectives", store.objectives[o]) <= Level("objectives", status),
         \A x \in before : x.table = "objectives" /\ x.key = o
                             => Level("objectives", x.value) <= Level("objectives", status),
         StageOf(c) >= 2 => \/ store.objectives[DirectFunding] = "completed"
                            \/ o = DirectFunding /\ status = "completed",
         StageOf(c) >= 3 => \/ store.objectives[DirectDefunding] \in {"approved", "completed"}
                            \/ o = DirectDefunding /\ status \in {"approved", "completed"},
         Level("notices", store.notices[Ledger]) <= Rank(StatusFromChannel(c))
  PROVE  /\ Fits(Attempt(o, Ledger, status, c, <<>>), before)
         /\ \A w \in Range(Attempt(o, Ledger, status, c, <<>>)) :
              /\ w \in Writes /\ w.table # "consensus" /\ w # Del("channels", Ledger)
              /\ w.table \in {"channels", "notices"} => w.key = Ledger
              /\ w.table = "objectives" => w.key = o
         /\ Put("objectives", o, status) \in Range(Attempt(o, Ledger, status, c, <<>>))
<1>1. o \in {FundOf(Ledger), DefundOf(Ledger)} /\ Ledger \in ChannelIds
  BY LedgerIs
<1>2. PICK consensus : consensus = <<>>
  OBVIOUS
<1>3. /\ Fits(consensus, (before \cup {Put("objectives", o, status)})
                           \cup {Put("channels", Ledger, c)})
      /\ Range(consensus) = {}
  BY <1>2, FitsNothing
<1>4. /\ Notice(Ledger, c).value.status = StatusFromChannel(c) /\ Notice(Ledger, c) \in Writes
      /\ Notice(Ledger, c).table = "notices" /\ Notice(Ledger, c).key = Ledger
  BY <1>1, LedgerIs, NoticeIs
<1>5. /\ Fits(Attempt(o, Ledger, status, c, consensus), before)
      /\ Range(Attempt(o, Ledger, status, c, consensus))
           \subseteq {Put("objectives", o, status), Put("channels", Ledger, c),
                      Put("owner", Ledger, o), Del("owner", Ledger)}
                       \cup Range(consensus) \cup Range(Notices(Ledger, c))
      /\ Range(Notices(Ledger, c)) = {Notice(Ledger, c)}
      /\ {Put("objectives", o, status), Put("channels", Ledger, c)} \cup Range(consensus)
           \subseteq Range(Attempt(o, Ledger, status, c, consensus))
  <2>1. Level("notices", store.notices[Ledger]) <= Rank(Notice(Ledger, c).value.status)
    BY <1>4
  <2>2. \A x \in before \cup Range(consensus) : x.table # "notices"
    BY <1>3
  <2>3. o = DefundOf(Ledger) => store.objectives[FundOf(Ledger)] = "completed"
    BY LedgerIs
  <2>4. /\ StageOf(c) >= 2 => \/ store.objectives[FundOf(Ledger)] = "completed"
                              \/ o = FundOf(Ledger) /\ status = "completed"
        /\ StageOf(c) >= 3 => \/ store.objectives[DefundOf(Ledger)] \in {"approved", "completed"}
                              \/ o = DefundOf(Ledger) /\ status \in {"approved", "completed"}
    BY LedgerIs
  <2>5. Ledger \notin Payments
    BY LedgerIs
  <2>6. PICK key : key = Ledger
    OBVIOUS
  <2>7. /\ Fits(Attempt(o, key, status, c, consensus), before)
        /\ Range(Attempt(o, key, status, c, consensus))
             \subseteq {Put("objectives", o, status), Put("channels", key, c),
                        Put("owner", key, o), Del("owner", key)}
                         \cup Range(consensus) \cup Range(Notices(key, c))
        /\ {Put("objectives", o, status), Put("channels", key, c)} \cup Range(consensus)
             \subseteq Range(Attempt(o, key, status, c, consensus))
        /\ Range(Notices(key, c)) = {Notice(key, c)} \cup IF key = Ledger THEN {} ELSE {OpenNotice}
    <3>1. /\ key \in ChannelIds /\ key \notin Payments /\ o \in {FundOf(key), DefundOf(key)}
          /\ Fits(consensus, (before \cup {Put("objectives", o, status)})
                              \cup {Put("channels", key, c)})
      BY <1>1, <1>3, <2>5, <2>6
    <3>2. MayAttempt(o, key, status, c, consensus, before)
      BY <2>1, <2>2, <2>3, <2>4, <2>6, <3>1 DEF MayAttempt
    <3>3. QED
      BY <3>1, <3>2, AttemptFits
  <2>8. QED
    BY <2>6, <2>7
<1>6. ASSUME NEW w \in {Put("objectives", o, status), Put("channels", Ledger, c),
                        Put("owner", Ledger, o), Del("owner", Ledger), Notice(Ledger, c)}
      PROVE  /\ w \in Writes /\ w.table # "consensus" /\ w # Del("channels", Ledger)
             /\ w.table \in {"channels", "notices"} => w.key = Ledger
             /\ w.table = "objectives" => w.key = o
  <2>1. CASE w = Put("channels", Ledger, c)
    BY <2>1, NoneAssumption DEF Put, Del, Writes
  <2>2. CASE w = Notice(Ledger, c)
    BY <1>4, <2>2 DEF Put, Del
  <2>3. CASE w \in {Put("owner", Ledger, o), Del("owner", Ledger)}
    BY <1>1, <2>3, LedgerIs DEF Put, Del, Writes
  <2>4. CASE w = Put("objectives", o, status)
    BY <1>1, <2>4, LedgerIs DEF Put, Del, Writes
  <2>5. QED
    BY <1>6, <2>1, <2>2, <2>3, <2>4
<1>7. QED
  BY <1>2, <1>3, <1>5, <1>6

\* A handler about the ledger that does not erase a ConsensusChannel.
LEMMA LedgerKeeps ==
  ASSUME InductiveInv, NEW writes, Begin(writes), Fits(writes, {}),
         \A w \in Range(writes) :
           /\ w.table = "consensus" =>
                /\ w.value # None /\ IsFiniteSet(w.value.funds)
                /\ store.objectives[DirectDefunding] \notin Closing
           /\ w.table = "objectives" /\ w.key = DirectDefunding =>
                /\ w.value \in Closing => store.consensus[Ledger] = None
                /\ \A x \in Range(writes) : x.table # "consensus"
           /\ w.table = "notices" => w.key = Ledger
  PROVE  InductiveInv'
<1>1. FormInv'
  BY FormBegins DEF InductiveInv
<1>2. PaidInv'
  BY PaidLedger, LedgerAssumption
<1>3. ClosedInv'
  <2>1. \A w \in Range(writes) : w \in ClosingWrites =>
          /\ store.consensus[Ledger] = None
          /\ \A x \in Range(writes) : x.table # "consensus"
    BY DEF ClosingWrites, Put
  <2>2. \A i \in DOMAIN writes : writes[i] \in Range(writes)
    BY DEF Range
  <2>3. QED
    BY <2>1, <2>2, ClosedBegins
<1>4. QED
  BY <1>1, <1>2, <1>3, BeginKeeps

\* What is erased first is erased before whatever follows.
LEMMA ErasedFirst ==
  ASSUME NEW r \in Seq(Writes), NEW t \in Seq(Writes), NEW x \in Range(r),
         NEW i \in DOMAIN (r \o t), (r \o t)[i] \notin Range(r)
  PROVE  x \in Before(r \o t, i)
<1>1. PICK both : both = r \o t
  OBVIOUS
<1>2. /\ DOMAIN both = 1..Len(r) + Len(t) /\ DOMAIN r = 1..Len(r)
      /\ Len(r) \in Nat /\ Len(t) \in Nat
      /\ \A j \in 1..Len(r) : both[j] = r[j]
  BY <1>1
<1>3. PICK j \in 1..Len(r) : x = r[j]
  BY <1>2 DEF Range
<1>4. i \in 1..Len(r) + Len(t) /\ i \notin 1..Len(r)
  BY <1>1, <1>2 DEF Range
<1>5. j \in 1..i - 1 /\ both[j] = x
  BY <1>2, <1>3, <1>4
<1>6. QED
  BY <1>1, <1>5 DEF Before

\* A handler that erases it, and then has its closing approved.
LEMMA ClosingKeeps ==
  ASSUME InductiveInv, NEW r, NEW t, Begin(r \o t), Fits(r \o t, {}),
         r \in Seq(Writes), t \in Seq(Writes), Del("consensus", Ledger) \in Range(r),
         NEW status, Put("objectives", DirectDefunding, status) \in Range(r \o t),
         \A w \in Range(r) : w \notin ClosingWrites,
         \A w \in Range(r \o t) :
           /\ w # Del("channels", Ledger)
           /\ w.table = "consensus" => w.value = None
           /\ w.table = "notices" => w.key = Ledger
  PROVE  InductiveInv'
<1>1. PICK writes : writes = r \o t
  OBVIOUS
<1>2. IsBeingClosed'
  <2>1. todo' = writes
    BY <1>1 DEF Begin
  <2>2. PICK i \in DOMAIN writes : writes[i] = Put("objectives", DirectDefunding, status)
    BY <1>1 DEF Range
  <2>3. QED
    BY <2>1, <2>2 DEF IsBeingClosed, Put
<1>3. FormInv'
  <2>1. Pending' = Range(writes)
    BY <1>1, BeginIs DEF InductiveInv
  <2>2. QED
    BY <1>1, <1>2, <2>1 DEF FormInv
<1>4. PaidInv'
  BY <1>1, PaidLedger, LedgerAssumption
<1>5. ClosedInv'
  <2>1. ASSUME NEW i \in DOMAIN writes, writes[i] \in ClosingWrites
        PROVE  Del("consensus", Ledger) \in Before(writes, i)
    BY <1>1, <2>1, ErasedFirst
  <2>2. QED
    BY <1>1, <2>1, ClosedBegins
<1>6. QED
  BY <1>1, <1>3, <1>4, <1>5, BeginKeeps

\* The ledger is asked for.
LEMMA RequestLedgerKeeps ==
  ASSUME InductiveInv, RequestLedger
  PROVE  InductiveInv'
<1>1. TypeOK /\ StoreInv
  BY DEF InductiveInv
<1>2. PICK writes : /\ writes = Attempt(DirectFunding, Ledger, "approved", NewChannel, <<>>)
                    /\ Begin(writes) /\ store.objectives[DirectFunding] = None
  BY DEF RequestLedger
<1>3. /\ Level("objectives", store.objectives[DirectFunding]) <= Level("objectives", "approved")
      /\ "approved" \in Standing
  BY <1>2, StandingIs DEF Standing
<1>4. Level("notices", store.notices[Ledger]) <= Rank(StatusFromChannel(NewChannel))
  <2>1. Level("notices", store.notices[Ledger]) \in 0..1
    BY <1>1, <1>2, NoticeLevels, LedgerIs, NoneAssumption DEF Standing
  <2>2. Rank(StatusFromChannel(NewChannel)) \in 1..4
    BY MadeChannels, StatusIs
  <2>3. QED
    BY <2>1, <2>2
<1>5. /\ Fits(writes, {})
      /\ \A w \in Range(writes) : /\ w.table # "consensus"
                                  /\ w.table = "objectives" => w.key = DirectFunding
                                  /\ w.table = "notices" => w.key = Ledger
  BY <1>1, <1>2, <1>3, <1>4, AttemptLedger, MadeChannels, LedgerIs
<1>6. QED
  BY <1>2, <1>5, LedgerIs, LedgerKeeps

\* The counterparty asks for it: the objective is stored, and approved.
LEMMA JoinLedgerKeeps ==
  ASSUME InductiveInv, JoinLedger
  PROVE  InductiveInv'
<1>1. TypeOK /\ StoreInv
  BY DEF InductiveInv
<1>2. PICK stores, approves :
        /\ stores = SetObjective(DirectFunding, Ledger, "unapproved",
                                 <<Put("channels", Ledger, NewChannel)>>)
        /\ approves = Attempt(DirectFunding, Ledger, "approved", NewChannel, <<>>)
        /\ \/ store.objectives[DirectFunding] = None /\ Begin(stores \o approves)
           \/ store.objectives[DirectFunding] = "unapproved" /\ Begin(approves)
  BY DEF JoinLedger, Loads
<1>3. /\ Level("objectives", store.objectives[DirectFunding]) <= Level("objectives", "approved")
      /\ "approved" \in Standing /\ "unapproved" \in Standing
      /\ Level("objectives", "unapproved") <= Level("objectives", "approved")
      /\ store.objectives[DirectFunding] # "completed"
  BY <1>2, StandingIs, NoneAssumption DEF Standing
<1>4. Level("notices", store.notices[Ledger]) <= Rank(StatusFromChannel(NewChannel))
  <2>1. Level("notices", store.notices[Ledger]) \in 0..1
    BY <1>1, <1>3, NoticeLevels, LedgerIs
  <2>2. Rank(StatusFromChannel(NewChannel)) \in 1..4
    BY MadeChannels, StatusIs
  <2>3. QED
    BY <2>1, <2>2
<1>5. ASSUME NEW before, \A x \in before : /\ x \in Writes /\ x.table # "notices"
                                           /\ x.table = "objectives" => x.value = "unapproved"
      PROVE  /\ Fits(approves, before)
             /\ \A w \in Range(approves) : /\ w.table # "consensus"
                                           /\ w.table = "objectives" => w.key = DirectFunding
                                           /\ w.table = "notices" => w.key = Ledger
  BY <1>1, <1>2, <1>3, <1>4, <1>5, AttemptLedger, MadeChannels, LedgerIs
<1>6. CASE Begin(approves)
  <2>1. /\ Fits(approves, {})
        /\ \A w \in Range(approves) : /\ w.table # "consensus"
                                      /\ w.table = "objectives" => w.key = DirectFunding
                                      /\ w.table = "notices" => w.key = Ledger
    BY <1>5
  <2>2. QED
    BY <1>6, <2>1, LedgerIs, LedgerKeeps
<1>7. CASE store.objectives[DirectFunding] = None /\ Begin(stores \o approves)
  <2>1. Level("objectives", store.objectives[DirectFunding]) <= Level("objectives", "unapproved")
    BY <1>7, StandingIs DEF Standing
  <2>2. /\ Fits(stores, {})
        /\ Range(stores) \subseteq {Put("objectives", DirectFunding, "unapproved"),
                                    Put("channels", Ledger, NewChannel),
                                    Put("owner", Ledger, DirectFunding)}
    BY <1>1, <1>2, <1>3, <2>1, SetLedger, MadeChannels, LedgerIs
  <2>3. \A x \in Range(stores) : /\ x \in Writes /\ x.table \notin {"notices", "consensus"}
                                 /\ x.table = "objectives" => x.key = DirectFunding
                                 /\ x.table = "objectives" => x.value = "unapproved"
    <3>1. /\ Put("objectives", DirectFunding, "unapproved") \in Writes
          /\ Put("channels", Ledger, NewChannel) \in Writes
          /\ Put("owner", Ledger, DirectFunding) \in Writes
      BY <1>3, LedgerIs, MadeChannels DEF Put, Writes
    <3>2. QED
      BY <2>2, <3>1 DEF Put
  <2>4. /\ Fits(approves, Range(stores))
        /\ \A w \in Range(approves) : /\ w.table # "consensus"
                                      /\ w.table = "objectives" => w.key = DirectFunding
                                      /\ w.table = "notices" => w.key = Ledger
    BY <1>5, <2>3
  <2>6. /\ Fits(stores \o approves, {})
        /\ Range(stores \o approves) = Range(stores) \cup Range(approves)
    BY <2>2, <2>4, FitsFirst
  <2>7. \A w \in Range(stores \o approves) : /\ w.table # "consensus"
                                             /\ w.table = "objectives" => w.key = DirectFunding
                                             /\ w.table = "notices" => w.key = Ledger
    BY <2>3, <2>4, <2>6
  <2>8. QED
    BY <1>7, <2>6, <2>7, LedgerIs, LedgerKeeps
<1>8. QED
  BY <1>2, <1>6, <1>7

\* The ledger is funded, and becomes a ConsensusChannel.
LEMMA LedgerFundedKeeps ==
  ASSUME InductiveInv, LedgerFunded
  PROVE  InductiveInv'
<1>1. TypeOK /\ StoreInv
  BY DEF InductiveInv
<1>2. PICK c, progress, consensus :
        /\ c = [store.channels[Ledger] EXCEPT !.postfund = "all"]
        /\ progress = Attempt(DirectFunding, Ledger, "completed", c, <<>>)
        /\ consensus = [funds |-> {}, updated |-> FALSE]
        /\ Begin(progress \o Spawn(consensus))
        /\ store.objectives[DirectFunding] = "approved" /\ store.channels[Ledger] # None
  BY DEF LedgerFunded, Loads
<1>3. /\ Level("objectives", store.objectives[DirectFunding]) <= Level("objectives", "completed")
      /\ "completed" \in Standing /\ Level("objectives", "completed") >= 4
      /\ store.objectives[DirectFunding] # "completed"
  BY <1>2, StandingIs DEF Standing
<1>4. c \in Channel /\ c.postfund = "all" /\ StageOf(c) = 2
  <2>1. store.channels[Ledger] \in Channel /\ StageOf(store.channels[Ledger]) = 1
    BY <1>1, <1>2, <1>3, ChannelSays, LedgerIs
  <2>2. store.channels[Ledger].final = "none"
    BY <2>1 DEF StageOf, Channel
  <2>3. QED
    BY <1>2, <2>1, <2>2 DEF StageOf, Channel
<1>5. Level("notices", store.notices[Ledger]) <= Rank(StatusFromChannel(c))
  <2>1. Level("notices", store.notices[Ledger]) \in 0..1
    BY <1>1, <1>3, NoticeLevels, LedgerIs
  <2>2. Rank(StatusFromChannel(c)) \in 1..4
    BY <1>4, StatusIs
  <2>3. QED
    BY <2>1, <2>2
<1>6. /\ Fits(progress, {}) /\ Put("objectives", DirectFunding, "completed") \in Range(progress)
      /\ \A w \in Range(progress) : /\ w.table # "consensus"
                                    /\ w.table = "objectives" => w.key = DirectFunding
                                    /\ w.table = "notices" => w.key = Ledger
  <2>1. PICK before : before = {}
    OBVIOUS
  <2>2. /\ \A x \in before : x \in Writes /\ x.table # "notices"
        /\ \A x \in before : x.table = "objectives" /\ x.key = DirectFunding
                             => Level("objectives", x.value) <= Level("objectives", "completed")
        /\ DirectFunding \in {DirectFunding, DirectDefunding} /\ DirectFunding # DirectDefunding
    BY <2>1, LedgerIs
  <2>3. /\ StageOf(c) >= 2 => \/ store.objectives[DirectFunding] = "completed"
                              \/ DirectFunding = DirectFunding /\ "completed" = "completed"
        /\ ~ (StageOf(c) >= 3)
    BY <1>4
  <2>4. /\ Fits(progress, before) /\ Put("objectives", DirectFunding, "completed") \in Range(progress)
        /\ \A w \in Range(progress) : /\ w.table # "consensus"
                                      /\ w.table \in {"channels", "notices"} => w.key = Ledger
                                      /\ w.table = "objectives" => w.key = DirectFunding
    BY <1>1, <1>2, <1>3, <1>4, <1>5, <2>2, <2>3, AttemptLedger
  <2>5. QED
    BY <2>1, <2>4
<1>7. PICK made : made = <<Put("consensus", Ledger, consensus)>>
  OBVIOUS
<1>8. PICK gone : gone = <<Del("channels", Ledger)>>
  OBVIOUS
<1>9. /\ consensus \in Consensus /\ consensus.funds = {} /\ consensus # None
  <2>1. consensus \in Consensus
    BY <1>2 DEF Consensus
  <2>2. consensus # None
    BY <2>1, NoneAssumption
  <2>3. consensus.funds = {}
    BY <1>2
  <2>4. QED
    BY <2>1, <2>2, <2>3
<1>10. /\ Fits(made, Range(progress)) /\ Range(made) = {Put("consensus", Ledger, consensus)}
  <2>1. Meets(Put("objectives", DirectFunding, "completed"), Least("objectives", DirectFunding, 4))
    BY <1>3 DEF Meets, Least, Put
  <2>2. QED
    BY <1>1, <1>6, <1>7, <1>9, <2>1, PutConsensus
<1>11. /\ Fits(progress \o made, {}) /\ Range(progress \o made) = Range(progress) \cup Range(made)
  BY <1>6, <1>10, FitsFirst
<1>12. Fits(gone, Range(progress \o made)) /\ Range(gone) = {Del("channels", Ledger)}
  <2>1. Del("channels", Ledger) \in Writes
    BY DEF Del, Put, Writes
  <2>2. Needs(Del("channels", Ledger)) = {Least("consensus", Ledger, 1)}
    BY DEF Needs, Del, Put
  <2>3. Meets(Put("consensus", Ledger, consensus), Least("consensus", Ledger, 1))
    BY <1>9 DEF Meets, Least, Put, Level
  <2>4. IsPrepared(Del("channels", Ledger), Range(progress \o made))
    BY <1>10, <1>11, <2>2, <2>3 DEF IsPrepared
  <2>5. Rises(Del("channels", Ledger), Range(progress \o made))
    BY DEF Rises, OnlyRises, Del, Put
  <2>6. QED
    BY <1>8, <2>1, <2>4, <2>5, FitsOne
<1>13. /\ Fits((progress \o made) \o gone, {})
       /\ Range((progress \o made) \o gone) = Range(progress \o made) \cup Range(gone)
  BY <1>11, <1>12, FitsFirst
<1>14. progress \o Spawn(consensus) = (progress \o made) \o gone
  <2>1. Spawn(consensus) = made \o gone
    BY <1>7, <1>8 DEF Spawn
  <2>2. progress \in Seq(Writes) /\ made \in Seq(Writes) /\ gone \in Seq(Writes)
    BY <1>6, <1>10, <1>12 DEF Fits
  <2>3. progress \o (made \o gone) = (progress \o made) \o gone
    BY <2>2, ConcatAssociative
  <2>4. QED
    BY <2>1, <2>3
<1>15. ASSUME NEW w \in Range((progress \o made) \o gone)
       PROVE  /\ w.table = "consensus" =>
                   /\ w.value # None /\ IsFiniteSet(w.value.funds)
                   /\ store.objectives[DirectDefunding] \notin Closing
              /\ w.table = "objectives" => w.key = DirectFunding
              /\ w.table = "notices" => w.key = Ledger
  <2>1. IsFiniteSet({})
    BY FS_EmptySet
  <2>2. \/ w \in Range(progress)
        \/ w = Put("consensus", Ledger, consensus)
        \/ w = Del("channels", Ledger)
    BY <1>10, <1>11, <1>12, <1>13
  <2>3. store.objectives[DirectDefunding] \notin Closing
    <3>1. store.objectives[DirectDefunding] = None
      BY <1>1, <1>3, DefundSays, LedgerIs
    <3>2. QED
      BY <3>1, NoneAssumption DEF Closing, Standing
  <2>4. QED
    <3>1. CASE w \in Range(progress)
      BY <1>6, <3>1
    <3>2. CASE w = Put("consensus", Ledger, consensus)
      BY <1>9, <2>1, <2>3, <3>2 DEF Put
    <3>3. CASE w = Del("channels", Ledger)
      BY <3>3 DEF Put, Del
    <3>4. QED
      BY <2>2, <3>1, <3>2, <3>3
<1>16. PICK writes : writes = (progress \o made) \o gone
  OBVIOUS
<1>17. /\ Begin(writes) /\ Fits(writes, {})
       /\ \A w \in Range(writes) :
            /\ w.table = "consensus" =>
                 /\ w.value # None /\ IsFiniteSet(w.value.funds)
                 /\ store.objectives[DirectDefunding] \notin Closing
            /\ w.table = "objectives" => w.key = DirectFunding
            /\ w.table = "notices" => w.key = Ledger
  BY <1>2, <1>13, <1>14, <1>15, <1>16
<1>18. QED
  BY <1>17, LedgerIs, LedgerKeeps

\* Erasing the ConsensusChannel needs nothing.
LEMMA EraseConsensus ==
  ASSUME NEW before
  PROVE  /\ Del("consensus", Ledger) \in Writes
         /\ Fits(<<Del("consensus", Ledger)>>, before)
         /\ Range(<<Del("consensus", Ledger)>>) = {Del("consensus", Ledger)}
<1>1. Del("consensus", Ledger) \in Writes
  BY DEF Del, Put, Writes
<1>2. Needs(Del("consensus", Ledger)) = {}
  BY DEF Needs, Del, Put
<1>3. IsPrepared(Del("consensus", Ledger), before) /\ Rises(Del("consensus", Ledger), before)
  BY <1>2 DEF IsPrepared, Rises, OnlyRises, Del, Put
<1>4. QED
  BY <1>1, <1>3, FitsOne

\* The node asks to close the ledger.
LEMMA RequestClosingKeeps ==
  ASSUME InductiveInv, RequestClosing
  PROVE  InductiveInv'
<1>1. TypeOK /\ StoreInv
  BY DEF InductiveInv
<1>2. PICK c, erase, progress :
        /\ c = SignedFinal(ChannelOf(store.consensus[Ledger]), "mine")
        /\ erase = <<Del("consensus", Ledger)>>
        /\ progress = Attempt(DirectDefunding, Ledger, "approved", c, <<>>)
        /\ Begin(erase \o progress)
        /\ store.consensus[Ledger] # None /\ store.objectives[DirectDefunding] = None
  BY DEF RequestClosing, CanClose
<1>3. /\ Level("objectives", store.objectives[DirectDefunding]) <= Level("objectives", "approved")
      /\ "approved" \in Standing
      /\ store.objectives[DirectDefunding] \notin {"approved", "completed"}
  BY <1>2, StandingIs, NoneAssumption DEF Standing
<1>4. c \in Channel /\ StageOf(c) = 3 /\ c.final = "mine"
  BY <1>2, MadeChannels
<1>5. Level("notices", store.notices[Ledger]) <= Rank(StatusFromChannel(c))
  <2>1. Level("notices", store.notices[Ledger]) \in 0..2
    BY <1>1, <1>3, NoticeLevels, LedgerIs
  <2>2. Rank(StatusFromChannel(c)) = 3
    BY <1>4, StatusIs
  <2>3. QED
    BY <2>1, <2>2
<1>6. /\ Fits(erase, {}) /\ Range(erase) = {Del("consensus", Ledger)}
      /\ Del("consensus", Ledger) \in Writes
  BY <1>2, EraseConsensus
<1>7. store.objectives[DirectFunding] = "completed"
  BY <1>1, <1>2, ConsensusSays
<1>8. \A x \in Range(erase) : x \in Writes /\ x.table = "consensus"
  BY <1>6 DEF Del, Put
<1>9. /\ Fits(progress, Range(erase))
      /\ Put("objectives", DirectDefunding, "approved") \in Range(progress)
      /\ \A w \in Range(progress) : /\ w.table # "consensus" /\ w # Del("channels", Ledger)
                                    /\ w.table = "notices" => w.key = Ledger
  BY <1>1, <1>2, <1>3, <1>4, <1>5, <1>7, <1>8, AttemptLedger
<1>10. /\ Fits(erase \o progress, {})
       /\ Range(erase \o progress) = Range(erase) \cup Range(progress)
  BY <1>6, <1>9, FitsFirst
<1>11. \A w \in Range(erase \o progress) :
         /\ w # Del("channels", Ledger)
         /\ w.table = "consensus" => w.value = None
         /\ w.table = "notices" => w.key = Ledger
  BY <1>6, <1>9, <1>10 DEF Del, Put
<1>12. /\ Del("consensus", Ledger) \in Range(erase)
       /\ \A w \in Range(erase) : w \notin ClosingWrites
       /\ erase \in Seq(Writes) /\ progress \in Seq(Writes)
  BY <1>6, <1>8, <1>9 DEF ClosingWrites, Put, Fits
<1>13. Put("objectives", DirectDefunding, "approved") \in Range(erase \o progress)
  BY <1>9, <1>10
<1>14. QED
  BY <1>2, <1>10, <1>11, <1>12, <1>13, ClosingKeeps

\* The counterparty asks to: the objective is stored, then approved or refused.
LEMMA AnswerClosingKeeps ==
  ASSUME InductiveInv, AnswerClosing
  PROVE  InductiveInv'
<1>1. TypeOK /\ StoreInv
  BY DEF InductiveInv
<1>2. PICK c : c = IF store.objectives[DirectDefunding] = None
                   THEN ChannelOf(store.consensus[Ledger]) ELSE store.channels[Ledger]
  OBVIOUS
<1>3. PICK stores : stores = SetObjective(DirectDefunding, Ledger, "unapproved",
                                          <<Put("channels", Ledger, c)>>)
  OBVIOUS
<1>4. PICK first : first = IF store.objectives[DirectDefunding] = None THEN stores ELSE <<>>
  OBVIOUS
<1>5. PICK erase : erase = <<Del("consensus", Ledger)>>
  OBVIOUS
<1>6. PICK approves : approves = Attempt(DirectDefunding, Ledger, "approved",
                                         SignedFinal(c, "all"), <<>>)
  OBVIOUS
<1>7. PICK refuses : refuses = SetObjective(DirectDefunding, Ledger, "rejected",
                                            <<Put("channels", Ledger, c)>>)
  OBVIOUS
<1>8. /\ \/ store.consensus[Ledger] # None /\ store.objectives[DirectDefunding] = None
         \/ store.objectives[DirectDefunding] = "unapproved" /\ store.channels[Ledger] # None
      /\ Begin((first \o erase) \o approves) \/ Begin(first \o refuses)
  BY <1>2, <1>3, <1>4, <1>5, <1>6, <1>7 DEF AnswerClosing, CanClose, Loads
<1>9. /\ "unapproved" \in Standing /\ "approved" \in Standing /\ "rejected" \in Standing
      /\ Level("objectives", "unapproved") = 1 /\ Level("objectives", "rejected") = 2
      /\ Level("objectives", "approved") = 3
      /\ Level("objectives", store.objectives[DirectDefunding]) \in 0..1
      /\ store.objectives[DirectDefunding] = None
           => Level("objectives", store.objectives[DirectDefunding]) = 0
      /\ store.objectives[DirectDefunding] \notin {"approved", "completed"}
  BY <1>8, StandingIs, NoneAssumption DEF Standing
<1>10. store.objectives[DirectFunding] = "completed"
  <2>1. CASE store.consensus[Ledger] # None
    BY <1>1, <2>1, ConsensusSays
  <2>2. CASE store.objectives[DirectDefunding] = "unapproved"
    BY <1>1, <2>2, DefundSays, LedgerIs, NoneAssumption DEF Standing
  <2>3. QED
    BY <1>8, <2>1, <2>2
<1>11. /\ c \in Channel /\ StageOf(c) \in 1..4
       /\ StageOf(c) >= 3 => store.objectives[DirectDefunding] \in {"approved", "completed"}
  <2>1. CASE store.objectives[DirectDefunding] = None
    BY <1>2, <2>1, MadeChannels
  <2>2. CASE store.objectives[DirectDefunding] # None
    BY <1>1, <1>2, <1>8, <2>2, ChannelSays, LedgerIs
  <2>3. QED
    BY <2>1, <2>2
<1>12. /\ Fits(first, {})
       /\ \A x \in Range(first) : /\ x \in Writes /\ x.table \in {"objectives", "channels", "owner"}
                                  /\ x # Del("channels", Ledger)
                                  /\ x.table = "objectives" => x.value = "unapproved"
  <2>1. CASE store.objectives[DirectDefunding] = None
    <3>1. /\ Fits(stores, {})
          /\ Range(stores) \subseteq {Put("objectives", DirectDefunding, "unapproved"),
                                      Put("channels", Ledger, c),
                                      Put("owner", Ledger, DirectDefunding)}
      BY <1>1, <1>3, <1>9, <1>10, <1>11, <2>1, SetLedger
    <3>2. /\ Put("objectives", DirectDefunding, "unapproved") \in Writes
          /\ Put("channels", Ledger, c) \in Writes
          /\ Put("owner", Ledger, DirectDefunding) \in Writes
      BY <1>9, <1>11, LedgerIs DEF Put, Writes
    <3>3. c # None
      BY <1>11, NoneAssumption
    <3>4. QED
      BY <1>4, <2>1, <3>1, <3>2, <3>3 DEF Put, Del
  <2>2. CASE store.objectives[DirectDefunding] # None
    BY <1>4, <2>2, FitsNothing
  <2>3. QED
    BY <2>1, <2>2
<1>13. CASE Begin(first \o refuses)
  <2>1. /\ Fits(refuses, Range(first))
        /\ Range(refuses) \subseteq {Put("objectives", DirectDefunding, "rejected"),
                                     Put("channels", Ledger, c),
                                     Put("owner", Ledger, DirectDefunding)}
    BY <1>1, <1>7, <1>9, <1>10, <1>11, <1>12, SetLedger
  <2>2. /\ Fits(first \o refuses, {})
        /\ Range(first \o refuses) = Range(first) \cup Range(refuses)
    BY <1>12, <2>1, FitsFirst
  <2>3. \A w \in Range(first \o refuses) :
          /\ w.table \notin {"consensus", "notices"}
          /\ w.table = "objectives" => w.value \notin Closing
    BY <1>12, <2>1, <2>2 DEF Put, Closing
  <2>4. QED
    BY <1>13, <2>2, <2>3, LedgerKeeps
<1>14. CASE Begin((first \o erase) \o approves)
  <2>1. /\ Fits(erase, Range(first)) /\ Range(erase) = {Del("consensus", Ledger)}
        /\ Del("consensus", Ledger) \in Writes
    BY <1>5, EraseConsensus
  <2>2. /\ Fits(first \o erase, {})
        /\ Range(first \o erase) = Range(first) \cup {Del("consensus", Ledger)}
    <3>1. /\ Fits(first \o erase, {})
          /\ Range(first \o erase) = Range(first) \cup Range(erase)
      BY <1>12, <2>1, FitsFirst
    <3>2. QED
      BY <2>1, <3>1
  <2>3. /\ SignedFinal(c, "all") \in Channel /\ StageOf(SignedFinal(c, "all")) = 4
        /\ SignedFinal(c, "all").final = "all"
    BY <1>11, MadeChannels
  <2>4. Level("notices", store.notices[Ledger]) <= Rank(StatusFromChannel(SignedFinal(c, "all")))
    <3>1. Level("notices", store.notices[Ledger]) \in 0..4
      BY <1>1, NoticeLevels, LedgerIs
    <3>2. Rank(StatusFromChannel(SignedFinal(c, "all"))) = 4
      BY <2>3, StatusIs
    <3>3. QED
      BY <3>1, <3>2
  <2>5. \A x \in Range(first \o erase) :
          /\ x \in Writes /\ x.table # "notices"
          /\ x.table = "objectives" => x.value = "unapproved"
    BY <1>12, <2>1, <2>2 DEF Del, Put
  <2>6. /\ Fits(approves, Range(first \o erase))
        /\ Put("objectives", DirectDefunding, "approved") \in Range(approves)
        /\ \A w \in Range(approves) : /\ w.table # "consensus" /\ w # Del("channels", Ledger)
                                      /\ w.table = "notices" => w.key = Ledger
    <3>1. PICK final : final = SignedFinal(c, "all")
      OBVIOUS
    <3>2. PICK before : before = Range(first \o erase)
      OBVIOUS
    <3>3. /\ Fits(Attempt(DirectDefunding, Ledger, "approved", final, <<>>), before)
          /\ \A w \in Range(Attempt(DirectDefunding, Ledger, "approved", final, <<>>)) :
               /\ w \in Writes /\ w.table # "consensus" /\ w # Del("channels", Ledger)
               /\ w.table = "notices" => w.key = Ledger
          /\ Put("objectives", DirectDefunding, "approved")
               \in Range(Attempt(DirectDefunding, Ledger, "approved", final, <<>>))
      <4>1. /\ final \in Channel /\ StageOf(final) = 4
            /\ Level("notices", store.notices[Ledger]) <= Rank(StatusFromChannel(final))
        BY <2>3, <2>4, <3>1
      <4>2. \A x \in before : /\ x \in Writes /\ x.table # "notices"
                              /\ x.table = "objectives" => x.value = "unapproved"
        BY <2>5, <3>2
      <4>3. Level("objectives", store.objectives[DirectDefunding]) <= Level("objectives", "approved")
        BY <1>9
      <4>4. \A x \in before : x.table = "objectives" /\ x.key = DirectDefunding
                             => Level("objectives", x.value) <= Level("objectives", "approved")
        BY <1>9, <4>2
      <4>5. QED
        BY <1>1, <1>9, <1>10, <4>1, <4>2, <4>3, <4>4, AttemptLedger
    <3>4. QED
      BY <1>6, <3>1, <3>2, <3>3
  <2>7. /\ Fits((first \o erase) \o approves, {})
        /\ Range((first \o erase) \o approves) = Range(first \o erase) \cup Range(approves)
    BY <2>2, <2>6, FitsFirst
  <2>8. \A w \in Range((first \o erase) \o approves) :
          /\ w # Del("channels", Ledger)
          /\ w.table = "consensus" => w.value = None
          /\ w.table = "notices" => w.key = Ledger
    BY <1>12, <2>2, <2>6, <2>7 DEF Del, Put
  <2>9. /\ Del("consensus", Ledger) \in Range(first \o erase)
        /\ first \o erase \in Seq(Writes) /\ approves \in Seq(Writes)
    BY <2>2, <2>6 DEF Fits
  <2>10. \A w \in Range(first \o erase) : w \notin ClosingWrites
    BY <2>5 DEF ClosingWrites, Closing, Put
  <2>11. Put("objectives", DirectDefunding, "approved") \in Range((first \o erase) \o approves)
    BY <2>6, <2>7
  <2>12. PICK r : r = first \o erase
    OBVIOUS
  <2>13. QED
    BY <1>14, <2>7, <2>8, <2>9, <2>10, <2>11, <2>12, ClosingKeeps
<1>15. QED
  BY <1>8, <1>13, <1>14

\* The final state is complete, or the deposits are withdrawn: progress of an
\* approved objective to a Channel that everybody has signed the final state of.
LEMMA FinalLedger ==
  ASSUME InductiveInv, store.objectives[DirectDefunding] = "approved",
         NEW c \in Channel, c.final = "all", NEW status \in {"approved", "completed"},
         Begin(Attempt(DirectDefunding, Ledger, status, c, <<>>))
  PROVE  InductiveInv'
<1>1. TypeOK /\ StoreInv
  BY DEF InductiveInv
<1>2. /\ status \in Standing
      /\ Level("objectives", store.objectives[DirectDefunding]) <= Level("objectives", status)
      /\ store.objectives[DirectDefunding] # None
  BY StandingIs, NoneAssumption DEF Standing
<1>3. store.objectives[DirectFunding] = "completed"
  BY <1>1, <1>2, DefundSays, LedgerIs
<1>4. Level("notices", store.notices[Ledger]) <= Rank(StatusFromChannel(c))
  <2>1. Level("notices", store.notices[Ledger]) \in 0..4
    BY <1>1, NoticeLevels, LedgerIs
  <2>2. Rank(StatusFromChannel(c)) = 4
    BY StatusIs
  <2>3. QED
    BY <2>1, <2>2
<1>5. PICK writes : writes = Attempt(DirectDefunding, Ledger, status, c, <<>>)
  OBVIOUS
<1>6. /\ Fits(writes, {})
      /\ \A w \in Range(writes) : /\ w.table # "consensus"
                                  /\ w.table = "notices" => w.key = Ledger
  BY <1>1, <1>2, <1>3, <1>4, <1>5, AttemptLedger
<1>7. store.consensus[Ledger] = None
  BY DEF InductiveInv, ClosedInv, Closing
<1>8. QED
  BY <1>5, <1>6, <1>7, LedgerKeeps

\* The two ways in which a closing goes on: the consensus form is left alone,
\* the status and the Channel only advance.
LEMMA LedgerClosedKeeps ==
  ASSUME InductiveInv, LedgerFinalized \/ LedgerWithdrawn
  PROVE  InductiveInv'
<1>1. /\ TypeOK /\ store.objectives[DirectDefunding] = "approved"
      /\ store.channels[Ledger] # None
  BY DEF InductiveInv, LedgerFinalized, LedgerWithdrawn, Loads
<1>2. store.channels[Ledger] \in Channel
  BY <1>1, LedgerIs DEF TypeOK
<1>3. CASE LedgerFinalized
  BY <1>1, <1>2, <1>3, MadeChannels, FinalLedger DEF LedgerFinalized
<1>4. CASE LedgerWithdrawn
  BY <1>1, <1>2, <1>4, FinalLedger DEF LedgerWithdrawn
<1>5. QED
  BY <1>3, <1>4

-----------------------------------------------------------------------------
(***************************************************************************)
(* The handlers of a payment channel.                                      *)
(***************************************************************************)
\* A payment channel and its objectives.
LEMMA PaymentIs ==
  ASSUME NEW v \in Payments
  PROVE  /\ v \in ChannelIds /\ v # Ledger
         /\ FundOf(v) = VirtualFund(v) /\ DefundOf(v) = VirtualDefund(v)
         /\ VirtualFund(v) \in Objectives /\ VirtualDefund(v) \in Objectives
         /\ VirtualFund(v) # VirtualDefund(v)
BY LedgerAssumption DEF ChannelIds, FundOf, DefundOf, Objectives, VirtualFund, VirtualDefund

\* The level of a payment channel's Channel.
LEMMA ChannelLevel ==
  ASSUME NEW c \in Channel
  PROVE  /\ Level("channels", c) = Rank(PaymentStatus(c)) /\ Rank(PaymentStatus(c)) \in 1..4
         /\ Rank(PaymentStatus(c)) <= StageOf(c) /\ StageOf(c) \in 1..4
BY StatusIs, NoneAssumption DEF Level

\* How far the stored Channel of a payment channel can have come.
LEMMA StoredLevel ==
  ASSUME TypeOK, StoreInv, NEW v \in Payments
  PROVE  /\ Level("channels", store.channels[v]) \in 0..4
         /\ store.objectives[VirtualFund(v)] # "completed"
              => Level("channels", store.channels[v]) <= 1
         /\ store.objectives[VirtualDefund(v)] \notin {"approved", "completed"}
              => Level("channels", store.channels[v]) <= 2
<1>1. v \in ChannelIds /\ FundOf(v) = VirtualFund(v) /\ DefundOf(v) = VirtualDefund(v)
  BY PaymentIs
<1>2. CASE store.channels[v] = None
  BY <1>2 DEF Level
<1>3. CASE store.channels[v] # None
  BY <1>1, <1>3, ChannelSays, ChannelLevel
<1>4. QED
  BY <1>2, <1>3

\* The status of a Channel whose final state is signed does not go back.
LEMMA ChannelRises ==
  ASSUME NEW c \in Channel, NEW d \in Channel, d.postfund = c.postfund,
         d.final = "all" \/ (d.final = "mine" /\ Level("channels", c) <= 2)
  PROVE  Level("channels", c) <= Level("channels", d)
<1>1. CASE Intermediary /\ c.postfund # "none"
  BY <1>1, StatusIs, ChannelLevel
<1>2. CASE ~ (Intermediary /\ c.postfund # "none")
  <2>1. PaymentStatus(d) = StatusFromChannel(d)
    BY <1>2, StatusIs
  <2>2. /\ d.final = "all" => Rank(PaymentStatus(d)) = 4
        /\ d.final = "mine" => Rank(PaymentStatus(d)) = 3
    BY <2>1, StatusIs
  <2>3. QED
    BY <2>2, ChannelLevel
<1>3. QED
  BY <1>1, <1>2

\* Storing one of its objectives with its Channel and the ledger's.
LEMMA SetPayment ==
  ASSUME TypeOK, NEW v \in Payments, NEW o \in {VirtualFund(v), VirtualDefund(v)},
         NEW status \in Standing, NEW c \in Channel, NEW consensus \in Consensus,
         NEW before, \A x \in before : x \in Writes,
         o = VirtualDefund(v) => store.objectives[VirtualFund(v)] = "completed",
         Level("objectives", store.objectives[o]) <= Level("objectives", status),
         \A x \in before : x.table = "objectives" /\ x.key = o
                             => Level("objectives", x.value) <= Level("objectives", status),
         StageOf(c) >= 2 => store.objectives[VirtualFund(v)] = "completed",
         StageOf(c) >= 3 => store.objectives[VirtualDefund(v)] \in {"approved", "completed"},
         \/ store.vouchers[v] # None
         \/ \E x \in before : Meets(x, Least("vouchers", v, 1)),
         Level("channels", store.channels[v]) <= Level("channels", c),
         \A x \in before : x.table = "channels" /\ x.key = v
                             => Level("channels", x.value) <= Level("channels", c),
         store.objectives[DirectFunding] = "completed",
         \A u \in consensus.funds : store.channels[u] # None
  PROVE  LET writes == SetObjective(o, v, status, <<Put("channels", v, c)>>
                                                    \o <<Put("consensus", Ledger, consensus)>>)
         IN /\ Fits(writes, before)
            /\ Range(writes) \subseteq {Put("objectives", o, status), Put("channels", v, c),
                                        Put("consensus", Ledger, consensus), Put("owner", v, o)}
<1>1. /\ o \in {FundOf(v), DefundOf(v)} /\ o \in Objectives /\ v \in ChannelIds
      /\ FundOf(v) = VirtualFund(v) /\ DefundOf(v) = VirtualDefund(v)
  BY PaymentIs
<1>2. /\ Put("objectives", o, status) \in Writes
      /\ IsPrepared(Put("objectives", o, status), before)
      /\ Rises(Put("objectives", o, status), before)
  BY <1>1, PutObjective
<1>3. PICK more : more = before \cup {Put("objectives", o, status)}
  OBVIOUS
<1>4. Put("objectives", o, status) \in more /\ \A x \in more : x \in Writes
  BY <1>2, <1>3
<1>5. \A need \in StageNeeds(v, StageOf(c)) : IsMet(need) \/ \E x \in more : Meets(x, need)
  BY <1>1, <1>4, StageMet, StatusIs
<1>6. /\ Put("channels", v, c) \in Writes /\ IsPrepared(Put("channels", v, c), more)
      /\ Rises(Put("channels", v, c), more)
  <2>1. \/ store.vouchers[v] # None
        \/ \E x \in more : Meets(x, Least("vouchers", v, 1))
    BY <1>3
  <2>2. \A x \in more : x.table = "channels" /\ x.key = v
                          => Level("channels", x.value) <= Level("channels", c)
    BY <1>3 DEF Put
  <2>3. QED
    BY <1>1, <1>4, <1>5, <2>1, <2>2, PutChannel
<1>7. /\ Fits(<<Put("channels", v, c)>>, more)
      /\ Range(<<Put("channels", v, c)>>) = {Put("channels", v, c)}
  BY <1>6, FitsOne
<1>8. PICK channel, ledger : /\ channel = <<Put("channels", v, c)>>
                             /\ ledger = <<Put("consensus", Ledger, consensus)>>
  OBVIOUS
<1>9. /\ Fits(ledger, more \cup Range(channel))
      /\ Range(ledger) = {Put("consensus", Ledger, consensus)}
  BY <1>8, PutConsensus
<1>10. /\ Fits(channel \o ledger, more)
       /\ Range(channel \o ledger) = Range(channel) \cup Range(ledger)
  BY <1>7, <1>8, <1>9, FitsConcat
<1>11. PICK related : related = channel \o ledger
  OBVIOUS
<1>12. /\ Fits(SetObjective(o, v, status, related), before)
       /\ Range(SetObjective(o, v, status, related))
            \subseteq {Put("objectives", o, status), Put("owner", v, o)} \cup Range(related)
  BY <1>1, <1>2, <1>3, <1>10, <1>11, SetObjectiveFits
<1>13. Range(related) = {Put("channels", v, c), Put("consensus", Ledger, consensus)}
  BY <1>7, <1>8, <1>9, <1>10, <1>11
<1>14. QED
  BY <1>8, <1>11, <1>12, <1>13

\* The progress of one of its objectives.
LEMMA AttemptPayment ==
  ASSUME TypeOK, StoreInv, NEW v \in Payments, NEW o \in {VirtualFund(v), VirtualDefund(v)},
         NEW status \in Standing, NEW c \in Channel, NEW consensus \in Consensus,
         NEW before, \A x \in before : x \in Writes /\ x.table # "notices",
         o = VirtualDefund(v) => store.objectives[VirtualFund(v)] = "completed",
         Level("objectives", store.objectives[o]) <= Level("objectives", status),
         \A x \in before : x.table = "objectives" /\ x.key = o
                             => Level("objectives", x.value) <= Level("objectives", status),
         StageOf(c) >= 2 => \/ store.objectives[VirtualFund(v)] = "completed"
                            \/ o = VirtualFund(v) /\ status = "completed",
         StageOf(c) >= 3 => \/ store.objectives[VirtualDefund(v)] \in {"approved", "completed"}
                            \/ o = VirtualDefund(v) /\ status \in {"approved", "completed"},
         store.vouchers[v] \in Amount \/ Put("vouchers", v, 0) \in before,
         Level("channels", store.channels[v]) <= Level("channels", c),
         \A x \in before : x.table = "channels" /\ x.key = v
                             => Level("channels", x.value) <= Level("channels", c),
         store.objectives[DirectDefunding] \notin {"approved", "completed"},
         store.objectives[DirectFunding] = "completed",
         \A u \in consensus.funds : store.channels[u] # None
  PROVE  LET writes == Attempt(o, v, status, c, <<Put("consensus", Ledger, consensus)>>)
         IN /\ Fits(writes, before)
            /\ Range(writes) \subseteq {Put("objectives", o, status), Put("channels", v, c),
                                        Put("consensus", Ledger, consensus), Put("owner", v, o),
                                        Del("owner", v), Notice(v, c), OpenNotice}
<1>1. /\ o \in {FundOf(v), DefundOf(v)} /\ v \in ChannelIds /\ v # Ledger
      /\ FundOf(v) = VirtualFund(v) /\ DefundOf(v) = VirtualDefund(v)
  BY PaymentIs
<1>2. PICK ledger : ledger = <<Put("consensus", Ledger, consensus)>>
  OBVIOUS
<1>3. /\ Fits(ledger, (before \cup {Put("objectives", o, status)}) \cup {Put("channels", v, c)})
      /\ Range(ledger) = {Put("consensus", Ledger, consensus)}
  BY <1>2, PutConsensus
<1>4. Notice(v, c).value.status = PaymentStatus(c)
  BY <1>1, NoticeIs
<1>5. \A x \in before \cup Range(ledger) : x.table # "notices"
  BY <1>3 DEF Put
<1>6. /\ Fits(Attempt(o, v, status, c, ledger), before)
      /\ Range(Attempt(o, v, status, c, ledger))
           \subseteq {Put("objectives", o, status), Put("channels", v, c),
                      Put("owner", v, o), Del("owner", v)}
                       \cup Range(ledger) \cup Range(Notices(v, c))
      /\ Range(Notices(v, c)) = {Notice(v, c)} \cup IF v = Ledger THEN {} ELSE {OpenNotice}
  <2>1. Level("notices", store.notices[v]) <= Rank(Notice(v, c).value.status)
    <3>1. Level("notices", store.notices[v]) <= Level("channels", store.channels[v])
      BY NoticeLevels
    <3>2. /\ Level("channels", store.channels[v]) \in 0..4
          /\ Level("channels", c) = Rank(PaymentStatus(c)) /\ Rank(PaymentStatus(c)) \in 1..4
      BY StoredLevel, ChannelLevel
    <3>3. Level("notices", store.notices[v]) \in Nat
      BY <1>1, TableIs DEF TypeOK
    <3>4. QED
      BY <1>4, <3>1, <3>2, <3>3
  <2>2. /\ o = DefundOf(v) => store.objectives[FundOf(v)] = "completed"
        /\ StageOf(c) >= 2 => \/ store.objectives[FundOf(v)] = "completed"
                              \/ o = FundOf(v) /\ status = "completed"
        /\ StageOf(c) >= 3 => \/ store.objectives[DefundOf(v)] \in {"approved", "completed"}
                              \/ o = DefundOf(v) /\ status \in {"approved", "completed"}
    BY <1>1
  <2>3. v \in Payments =>
          /\ store.objectives[DirectFunding] = "completed"
          /\ Level("notices", store.notices[Ledger]) <= 2
          /\ store.vouchers[v] \in Amount \/ Put("vouchers", v, 0) \in before
          /\ Level("channels", store.channels[v]) <= Level("channels", c)
          /\ \A x \in before : x.table = "channels" /\ x.key = v
                               => Level("channels", x.value) <= Level("channels", c)
    BY NoticeLevels
  <2>4. MayAttempt(o, v, status, c, ledger, before)
    BY <1>3, <1>5, <2>1, <2>2, <2>3 DEF MayAttempt
  <2>5. QED
    BY <1>1, <2>4, AttemptFits
<1>7. QED
  BY <1>1, <1>2, <1>3, <1>6

\* What such a handler writes, one by one.
LEMMA PaymentWrites ==
  ASSUME TypeOK, NEW v \in Payments, NEW o \in {VirtualFund(v), VirtualDefund(v)},
         NEW status \in Standing, NEW c \in Channel, NEW consensus \in Consensus
  PROVE  /\ \A w \in {Put("objectives", o, status), Put("channels", v, c),
                      Put("consensus", Ledger, consensus), Put("owner", v, o),
                      Del("owner", v)} :
              /\ w \in Writes /\ w.table \notin {"notices", "vouchers"}
              /\ w.table = "objectives" => w.key # DirectDefunding /\ w.value = status
              /\ w.table = "channels" => w.key = v /\ w.value = c
              /\ w.table = "consensus" => w.value = consensus
         /\ Notice(v, c).table = "notices" /\ OpenNotice.table = "notices"
<1>1. v \in ChannelIds /\ o \in Objectives /\ o # DirectDefunding
  <2>1. o \in {<<"VirtualFund", v>>, <<"VirtualDefund", v>>}
    BY DEF VirtualFund, VirtualDefund
  <2>2. DirectDefunding = <<"DirectDefunding", Ledger>>
    BY DEF DirectDefunding
  <2>3. QED
    BY <2>1, <2>2, PaymentIs
<1>2. /\ Put("objectives", o, status) \in Writes /\ Put("channels", v, c) \in Writes
      /\ Put("consensus", Ledger, consensus) \in Writes /\ Put("owner", v, o) \in Writes
      /\ Del("owner", v) \in Writes
  BY <1>1 DEF Put, Del, Writes
<1>3. Notice(v, c).table = "notices" /\ OpenNotice.table = "notices"
  BY OpenNoticeIs DEF Notice, Put
<1>4. QED
  BY <1>1, <1>2, <1>3 DEF Put, Del

\* A ledger that is a ConsensusChannel has no approved closing.
LEMMA NotClosing ==
  ASSUME InductiveInv, store.consensus[Ledger] # None
  PROVE  store.objectives[DirectDefunding] \notin Closing
BY DEF InductiveInv, ClosedInv

\* A handler about a payment channel.
LEMMA PaymentKeeps ==
  ASSUME InductiveInv, NEW writes, Begin(writes), Fits(writes, {}),
         NEW v \in Payments, NEW c \in Channel,
         \A w \in Range(writes) :
           /\ w.table = "notices" => w \in {Notice(v, c), OpenNotice}
           /\ w.table = "vouchers" => store.vouchers[v] = None /\ w.value = 0
           /\ w.table = "objectives" => w.key # DirectDefunding
           /\ w.table = "consensus" =>
                /\ w.value \in Consensus /\ IsFiniteSet(w.value.funds)
                /\ store.consensus[Ledger] # None
  PROVE  InductiveInv'
<1>1. FormInv'
  <2>1. \A w \in Range(writes) : w.table = "consensus" =>
          w.value # None /\ IsFiniteSet(w.value.funds)
    BY NoneAssumption
  <2>2. QED
    BY <2>1, FormBegins DEF InductiveInv
<1>2. PaidInv'
  BY PaidPayment
<1>3. ClosedInv'
  <2>1. \A w \in Range(writes) : w \notin ClosingWrites
    BY DEF ClosingWrites, Put
  <2>2. \A i \in DOMAIN writes : writes[i] \in Range(writes)
    BY DEF Range
  <2>3. store.objectives[DirectDefunding] \in Closing =>
          \A w \in Range(writes) : w.table # "consensus"
    BY NotClosing
  <2>4. QED
    BY <2>1, <2>2, <2>3, ClosedBegins
<1>4. QED
  BY <1>1, <1>2, <1>3, BeginKeeps

\* The ledger as it is stored, and as payment channels come and go.
LEMMA LedgerStored ==
  ASSUME TypeOK, StoreInv, store.consensus[Ledger] # None
  PROVE  /\ store.consensus[Ledger] \in Consensus
         /\ IsFiniteSet(store.consensus[Ledger].funds)
         /\ store.objectives[DirectFunding] = "completed"
         /\ \A u \in store.consensus[Ledger].funds : store.channels[u] # None
         /\ Funded(store) = store.consensus[Ledger].funds
         /\ \A funds \in SUBSET Payments : [funds |-> funds, updated |-> TRUE] \in Consensus
<1>1. \A funds \in SUBSET Payments : [funds |-> funds, updated |-> TRUE] \in Consensus
  BY DEF Consensus
<1>2. QED
  BY <1>1, ConsensusSays

\* A payment channel is asked for, or joined: it is registered, and its objective
\* stored, unapproved first when the policy maker has yet to see it.
LEMMA StartPaymentKeeps ==
  ASSUME InductiveInv, NEW v \in Payments, StartPayment(v)
  PROVE  InductiveInv'
<1>1. TypeOK /\ StoreInv
  BY DEF InductiveInv
<1>2. PICK consensus : consensus = store.consensus[Ledger]
  OBVIOUS
<1>3. PICK o : o = VirtualFund(v)
  OBVIOUS
<1>4. PICK stores, approves :
        /\ stores = SetObjective(o, v, "unapproved",
                                 <<Put("channels", v, NewChannel)>>
                                   \o <<Put("consensus", Ledger, consensus)>>)
        /\ approves = Attempt(o, v, "approved", NewChannel, <<Put("consensus", Ledger, consensus)>>)
  OBVIOUS
<1>5. PICK registers : registers = <<Put("vouchers", v, 0)>>
  OBVIOUS
<1>6. /\ store.consensus[Ledger] # None
      /\ \/ /\ store.objectives[o] = None /\ store.vouchers[v] = None
            /\ Begin(registers \o approves) \/ Begin(registers \o (stores \o approves))
         \/ /\ store.objectives[o] = "unapproved" /\ store.channels[v] # None
            /\ Begin(approves)
  BY <1>2, <1>3, <1>4, <1>5 DEF StartPayment, SameConsensus, Registered, Loads
<1>7. /\ consensus \in Consensus /\ IsFiniteSet(consensus.funds)
      /\ store.objectives[DirectFunding] = "completed"
      /\ \A u \in consensus.funds : store.channels[u] # None
      /\ store.objectives[DirectDefunding] \notin {"approved", "completed"}
  BY <1>1, <1>2, <1>6, LedgerStored, NotClosing DEF Closing
<1>8. /\ "unapproved" \in Standing /\ "approved" \in Standing
      /\ Level("objectives", "unapproved") = 1 /\ Level("objectives", "approved") = 3
      /\ Level("objectives", store.objectives[o]) \in 0..1
      /\ store.objectives[o] = None => Level("objectives", store.objectives[o]) = 0
      /\ store.objectives[o] # "completed"
  BY <1>3, <1>6, StandingIs, NoneAssumption DEF Standing
<1>9. /\ o # VirtualDefund(v) /\ o \in {VirtualFund(v), VirtualDefund(v)}
      /\ NewChannel \in Channel /\ StageOf(NewChannel) = 1
      /\ ~ (StageOf(NewChannel) >= 2) /\ ~ (StageOf(NewChannel) >= 3)
  BY <1>3, PaymentIs, MadeChannels
<1>10. /\ Level("channels", store.channels[v]) <= Level("channels", NewChannel)
       /\ Level("channels", NewChannel) = 1
  <2>1. Level("channels", store.channels[v]) \in 0..1
    BY <1>1, <1>3, <1>8, StoredLevel
  <2>2. Level("channels", NewChannel) = 1
    BY <1>9, ChannelLevel
  <2>3. QED
    BY <2>1, <2>2
<1>11. ASSUME NEW before,
              \A x \in before : /\ x \in Writes /\ x.table # "notices"
                                /\ x.table = "objectives" => x.value = "unapproved"
                                /\ x.table = "channels" => x.value = NewChannel,
              store.vouchers[v] \in Amount \/ Put("vouchers", v, 0) \in before
       PROVE  /\ Fits(approves, before)
              /\ \A w \in Range(approves) :
                   /\ w.table = "notices" => w \in {Notice(v, NewChannel), OpenNotice}
                   /\ w.table # "vouchers"
                   /\ w.table = "objectives" => w.key # DirectDefunding
                   /\ w.table = "consensus" => w.value = consensus
  <2>1. \A x \in before : x.table = "objectives" /\ x.key = o
                            => Level("objectives", x.value) <= Level("objectives", "approved")
    BY <1>8, <1>11
  <2>2. \A x \in before : x.table = "channels" /\ x.key = v
                            => Level("channels", x.value) <= Level("channels", NewChannel)
    BY <1>10, <1>11
  <2>3. \A x \in before : x \in Writes /\ x.table # "notices"
    BY <1>11
  <2>4. Level("objectives", store.objectives[o]) <= Level("objectives", "approved")
    BY <1>8
  <2>5. /\ Fits(approves, before)
        /\ Range(approves) \subseteq
             {Put("objectives", o, "approved"), Put("channels", v, NewChannel),
              Put("consensus", Ledger, consensus), Put("owner", v, o), Del("owner", v),
              Notice(v, NewChannel), OpenNotice}
    BY <1>1, <1>4, <1>7, <1>8, <1>9, <1>10, <1>11, <2>1, <2>2, <2>3, <2>4, AttemptPayment
  <2>6. ASSUME NEW w \in Range(approves)
        PROVE  /\ w.table = "notices" => w \in {Notice(v, NewChannel), OpenNotice}
               /\ w.table # "vouchers"
               /\ w.table = "objectives" => w.key # DirectDefunding
               /\ w.table = "consensus" => w.value = consensus
    <3>1. CASE w \in {Notice(v, NewChannel), OpenNotice}
      BY <1>1, <1>7, <1>8, <1>9, <3>1, PaymentWrites
    <3>2. CASE w \notin {Notice(v, NewChannel), OpenNotice}
      BY <1>1, <1>7, <1>8, <1>9, <2>5, <3>2, PaymentWrites
    <3>3. QED
      BY <3>1, <3>2
  <2>7. QED
    BY <2>5, <2>6
<1>12. ASSUME NEW writes, Begin(writes), Fits(writes, {}),
              \A w \in Range(writes) :
                /\ w.table = "notices" => w \in {Notice(v, NewChannel), OpenNotice}
                /\ w.table = "vouchers" => store.vouchers[v] = None /\ w.value = 0
                /\ w.table = "objectives" => w.key # DirectDefunding
                /\ w.table = "consensus" => w.value = consensus
       PROVE  InductiveInv'
  <2>1. \A w \in Range(writes) :
          /\ w.table = "notices" => w \in {Notice(v, NewChannel), OpenNotice}
          /\ w.table = "vouchers" => store.vouchers[v] = None /\ w.value = 0
          /\ w.table = "objectives" => w.key # DirectDefunding
          /\ w.table = "consensus" =>
               /\ w.value \in Consensus /\ IsFiniteSet(w.value.funds)
               /\ store.consensus[Ledger] # None
    BY <1>6, <1>7, <1>12
  <2>2. QED
    BY <1>9, <1>12, <2>1, PaymentKeeps
<1>13. CASE store.objectives[o] = "unapproved" /\ store.channels[v] # None /\ Begin(approves)
  <2>1. store.vouchers[v] \in Amount
    BY <1>1, <1>13, ChannelSays, PaymentIs
  <2>2. /\ Fits(approves, {})
        /\ \A w \in Range(approves) :
             /\ w.table = "notices" => w \in {Notice(v, NewChannel), OpenNotice}
             /\ w.table # "vouchers"
             /\ w.table = "objectives" => w.key # DirectDefunding
             /\ w.table = "consensus" => w.value = consensus
    BY <1>11, <2>1
  <2>3. QED
    BY <1>12, <1>13, <2>2
<1>14. CASE /\ store.objectives[o] = None /\ store.vouchers[v] = None
            /\ Begin(registers \o approves) \/ Begin(registers \o (stores \o approves))
  <2>1. PICK register : register = Put("vouchers", v, 0)
    OBVIOUS
  <2>2. /\ register \in Writes /\ register.table = "vouchers" /\ register.key = v
        /\ register.value = 0 /\ 0 # None /\ Level("vouchers", 0) = 1
    BY <2>1, TotalAssumption, NoneAssumption DEF Put, Writes, Amount, Level
  <2>3. IsPrepared(register, {}) /\ Rises(register, {})
    <3>1. Level("vouchers", store.vouchers[v]) = 0
      BY <1>14 DEF Level
    <3>2. QED
      BY <2>2, <3>1 DEF IsPrepared, Rises, Needs
  <2>4. Fits(registers, {}) /\ Range(registers) = {register}
    BY <1>5, <2>1, <2>2, <2>3, FitsOne
  <2>5. CASE Begin(registers \o approves)
    <3>1. \A x \in Range(registers) :
            /\ x \in Writes /\ x.table # "notices"
            /\ x.table = "objectives" => x.value = "unapproved"
            /\ x.table = "channels" => x.value = NewChannel
      BY <2>2, <2>4
    <3>2. /\ Fits(approves, Range(registers))
          /\ \A w \in Range(approves) :
               /\ w.table = "notices" => w \in {Notice(v, NewChannel), OpenNotice}
               /\ w.table # "vouchers"
               /\ w.table = "objectives" => w.key # DirectDefunding
               /\ w.table = "consensus" => w.value = consensus
      BY <1>11, <2>1, <2>4, <3>1
    <3>3. /\ Fits(registers \o approves, {})
          /\ Range(registers \o approves) = Range(registers) \cup Range(approves)
      BY <2>4, <3>2, FitsFirst
    <3>4. \A w \in Range(registers \o approves) :
            /\ w.table = "notices" => w \in {Notice(v, NewChannel), OpenNotice}
            /\ w.table = "vouchers" => store.vouchers[v] = None /\ w.value = 0
            /\ w.table = "objectives" => w.key # DirectDefunding
            /\ w.table = "consensus" => w.value = consensus
      BY <1>14, <2>2, <2>4, <3>2, <3>3
    <3>5. QED
      BY <1>12, <2>5, <3>3, <3>4
  <2>6. CASE Begin(registers \o (stores \o approves))
    <3>1. /\ Fits(stores, Range(registers))
          /\ Range(stores) \subseteq
               {Put("objectives", o, "unapproved"), Put("channels", v, NewChannel),
                Put("consensus", Ledger, consensus), Put("owner", v, o)}
      <4>1. Meets(register, Least("vouchers", v, 1))
        BY <2>2 DEF Meets, Least
      <4>2. PICK before : before = Range(registers)
        OBVIOUS
      <4>3. /\ \A x \in before : x \in Writes
            /\ \A x \in before : x.table = "objectives" /\ x.key = o
                                 => Level("objectives", x.value) <= Level("objectives", "unapproved")
            /\ \A x \in before : x.table = "channels" /\ x.key = v
                                 => Level("channels", x.value) <= Level("channels", NewChannel)
            /\ \E x \in before : Meets(x, Least("vouchers", v, 1))
        BY <2>2, <2>4, <4>1, <4>2
      <4>4. Level("objectives", store.objectives[o]) <= Level("objectives", "unapproved")
        BY <1>8
      <4>5. QED
        BY <1>1, <1>4, <1>7, <1>8, <1>9, <1>10, <4>2, <4>3, <4>4, SetPayment
    <3>2. \A w \in Range(stores) :
            /\ w \in Writes /\ w.table \notin {"notices", "vouchers"}
            /\ w.table = "objectives" => w.key # DirectDefunding /\ w.value = "unapproved"
            /\ w.table = "channels" => w.value = NewChannel
            /\ w.table = "consensus" => w.value = consensus
      BY <1>1, <1>7, <1>8, <1>9, <3>1, PaymentWrites
    <3>3. PICK before : before = Range(registers) \cup Range(stores)
      OBVIOUS
    <3>4. /\ \A x \in before : /\ x \in Writes /\ x.table # "notices"
                               /\ x.table = "objectives" => x.value = "unapproved"
                               /\ x.table = "channels" => x.value = NewChannel
          /\ Put("vouchers", v, 0) \in before
      BY <2>1, <2>2, <2>4, <3>2, <3>3
    <3>5. /\ Fits(approves, before)
          /\ \A w \in Range(approves) :
               /\ w.table = "notices" => w \in {Notice(v, NewChannel), OpenNotice}
               /\ w.table # "vouchers"
               /\ w.table = "objectives" => w.key # DirectDefunding
               /\ w.table = "consensus" => w.value = consensus
      BY <1>11, <3>4
    <3>6. /\ Fits(stores \o approves, Range(registers))
          /\ Range(stores \o approves) = Range(stores) \cup Range(approves)
      BY <3>1, <3>3, <3>5, FitsConcat
    <3>7. PICK both : both = stores \o approves
      OBVIOUS
    <3>8. /\ Fits(registers \o both, {})
          /\ Range(registers \o both) = Range(registers) \cup Range(both)
      BY <2>4, <3>6, <3>7, FitsFirst
    <3>9. \A w \in Range(registers \o both) :
            /\ w.table = "notices" => w \in {Notice(v, NewChannel), OpenNotice}
            /\ w.table = "vouchers" => store.vouchers[v] = None /\ w.value = 0
            /\ w.table = "objectives" => w.key # DirectDefunding
            /\ w.table = "consensus" => w.value = consensus
      BY <1>14, <2>2, <2>4, <3>2, <3>5, <3>6, <3>7, <3>8
    <3>10. QED
      BY <1>12, <2>6, <3>7, <3>8, <3>9
  <2>7. QED
    BY <1>14, <2>5, <2>6
<1>15. QED
  BY <1>6, <1>13, <1>14

\* Vouchers are paid or received, and told of.
LEMMA PayKeeps ==
  ASSUME InductiveInv, NEW v \in Payments, Pay(v)
  PROVE  InductiveInv'
<1>1. TypeOK /\ StoreInv /\ v \in ChannelIds
  BY PaymentIs DEF InductiveInv
<1>2. PICK amount, tells, paid, info :
        /\ amount \in Amount /\ tells \in TellsOfPayment(store.channels[v])
        /\ store.vouchers[v] # None
        /\ paid = store.vouchers[v] + amount /\ paid <= Total
        /\ info = PaymentInfo(v, store.channels[v], paid, Total - paid)
        /\ Begin(<<Put("vouchers", v, paid)>>
                   \o IF tells THEN <<Put("notices", v, info)>> ELSE <<>>)
  BY DEF Pay
<1>3. PICK pays, notice : /\ pays = Put("vouchers", v, paid)
                          /\ notice = Put("notices", v, info)
  OBVIOUS
<1>4. PICK first, last : /\ first = <<pays>>
                         /\ last = IF tells THEN <<notice>> ELSE <<>>
  OBVIOUS
<1>5. Begin(first \o last)
  BY <1>2, <1>3, <1>4
<1>6. /\ store.vouchers[v] \in Amount /\ paid \in Amount /\ store.vouchers[v] <= paid
      /\ paid # None /\ paid \in Nat /\ store.vouchers[v] \in Nat
  BY <1>1, <1>2, TotalAssumption, NoneAssumption DEF TypeOK, Amount
<1>7. /\ pays \in Writes /\ pays.table = "vouchers" /\ pays.key = v /\ pays.value = paid
      /\ Level("vouchers", paid) = paid + 1
  BY <1>3, <1>6 DEF Put, Writes, Level
<1>8. Fits(first, {}) /\ Range(first) = {pays}
  <2>1. IsPrepared(pays, {})
    BY <1>6, <1>7 DEF IsPrepared, Needs
  <2>2. Rises(pays, {})
    <3>1. Level("vouchers", store.vouchers[v]) = store.vouchers[v] + 1
      BY <1>2 DEF Level
    <3>2. QED
      BY <1>6, <1>7, <3>1 DEF Rises
  <2>3. QED
    BY <1>4, <1>7, <2>1, <2>2, FitsOne
<1>9. Fits(last, Range(first)) /\ Range(last) \subseteq IF tells THEN {notice} ELSE {}
  <2>1. CASE ~ tells
    BY <1>4, <2>1, FitsNothing
  <2>2. CASE tells
    <3>1. store.channels[v] # None
      BY <1>2, <2>2 DEF TellsOfPayment
    <3>2. store.channels[v] \in Channel
      BY <1>1, <3>1 DEF TypeOK
    <3>3. PICK c \in Channel : c = store.channels[v]
      BY <3>2
    <3>4. /\ Level("channels", c) = Rank(PaymentStatus(c)) /\ Rank(PaymentStatus(c)) \in 1..4
          /\ PaymentStatus(c) \in Status
      BY ChannelLevel, StatusIs
    <3>5. info \in Info /\ info.status = PaymentStatus(c) /\ info.paid = paid /\ info # None
      <4>1. Total - paid \in Amount
        BY <1>6, TotalAssumption DEF Amount
      <4>2. info \in Info /\ info.status = PaymentStatus(c) /\ info.paid = paid
        BY <1>1, <1>2, <1>6, <3>3, <3>4, <4>1 DEF PaymentInfo, Info
      <4>3. QED
        BY <4>2, NoneAssumption
    <3>6. /\ notice \in Writes /\ notice.table = "notices" /\ notice.key = v /\ notice.value = info
          /\ Level("notices", info) = Rank(PaymentStatus(c))
      BY <1>1, <1>3, <3>5 DEF Writes, Put, Level
    <3>7. Needs(notice) \subseteq {Least("channels", v, Rank(PaymentStatus(c))),
                                   Least("vouchers", v, paid + 1)}
      <4>1. Needs(notice) = {Least("channels", v, Rank(info.status))}
                              \cup IF PaidByVouchers(info) THEN {Least("vouchers", v, info.paid + 1)}
                                   ELSE {}
        BY <3>5, <3>6, LedgerAssumption DEF Needs
      <4>2. QED
        BY <3>5, <4>1
    <3>8. IsMet(Least("channels", v, Rank(PaymentStatus(c))))
      BY <3>3, <3>4 DEF IsMet, Least
    <3>9. Meets(pays, Least("vouchers", v, paid + 1))
      BY <1>6, <1>7 DEF Meets, Least
    <3>10. IsPrepared(notice, {pays})
      BY <3>7, <3>8, <3>9 DEF IsPrepared
    <3>11. Level("notices", store.notices[v]) <= Level("notices", info)
      BY <1>1, <3>3, <3>4, <3>6, NoticeLevels
    <3>12. Rises(notice, {pays})
      BY <1>7, <3>6, <3>11 DEF Rises
    <3>13. QED
      BY <1>4, <1>8, <2>2, <3>6, <3>10, <3>12, FitsOne
  <2>3. QED
    BY <2>1, <2>2
<1>10. /\ Fits(first \o last, {}) /\ Range(first \o last) = Range(first) \cup Range(last)
  BY <1>8, <1>9, FitsFirst
<1>11. PICK writes : writes = first \o last
  OBVIOUS
<1>12. /\ Begin(writes) /\ Fits(writes, {}) /\ Range(writes) \subseteq {pays, notice}
       /\ notice.table = "notices" /\ notice.value.paid = paid /\ notice.key = v
  BY <1>2, <1>3, <1>5, <1>8, <1>9, <1>10, <1>11 DEF Put, PaymentInfo
<1>13. \A w \in Range(writes) : w.table \notin {"consensus", "objectives"}
  BY <1>7, <1>12
<1>14. FormInv'
  BY <1>1, <1>12, <1>13, FormBegins
<1>15. ClosedInv'
  <2>1. \A w \in Range(writes) : w \notin ClosingWrites
    BY <1>13 DEF ClosingWrites, Put
  <2>2. \A i \in DOMAIN writes : writes[i] \in Range(writes)
    BY DEF Range
  <2>3. QED
    BY <1>12, <1>13, <2>1, <2>2, ClosedBegins
<1>16. PaidInv'
  <2>1. SUFFICES ASSUME NEW w \in Range(writes), w.table = "notices", w.key \in Payments,
                        NEW told \in Said("vouchers", w.key)', told # None
                 PROVE  told <= w.value.paid
    BY <1>1, <1>12, BeginIs DEF PaidInv
  <2>2. w = notice
    BY <1>7, <1>12, <2>1
  <2>3. \/ told = store.vouchers[v]
        \/ \E x \in Range(writes) : x.table = "vouchers" /\ x.key = v /\ x.value = told
    <3>1. Said("vouchers", v)' = {store["vouchers"][v]}
            \cup {x.value : x \in {y \in Range(writes) : y.table = "vouchers" /\ y.key = v}}
      BY <1>1, <1>12, BeginIs
    <3>2. QED
      BY <1>12, <2>1, <2>2, <3>1
  <2>4. told = store.vouchers[v] \/ told = paid
    BY <1>7, <1>12, <2>3
  <2>5. QED
    BY <1>6, <1>12, <2>2, <2>4
<1>17. QED
  BY <1>12, <1>14, <1>15, <1>16, BeginKeeps

\* Progress of an objective of a payment channel.
LEMMA ProgressKeeps ==
  ASSUME InductiveInv, NEW v \in Payments, NEW o \in {VirtualFund(v), VirtualDefund(v)},
         NEW status \in Standing, NEW c \in Channel, NEW consensus \in Consensus,
         Begin(Attempt(o, v, status, c, <<Put("consensus", Ledger, consensus)>>)),
         o = VirtualDefund(v) => store.objectives[VirtualFund(v)] = "completed",
         Level("objectives", store.objectives[o]) <= Level("objectives", status),
         StageOf(c) >= 2 => \/ store.objectives[VirtualFund(v)] = "completed"
                            \/ o = VirtualFund(v) /\ status = "completed",
         StageOf(c) >= 3 => \/ store.objectives[VirtualDefund(v)] \in {"approved", "completed"}
                            \/ o = VirtualDefund(v) /\ status \in {"approved", "completed"},
         store.consensus[Ledger] # None, store.channels[v] # None,
         IsFiniteSet(consensus.funds), \A u \in consensus.funds : store.channels[u] # None,
         Level("channels", store.channels[v]) <= Level("channels", c)
  PROVE  InductiveInv'
<1>1. TypeOK /\ StoreInv /\ FundOf(v) = VirtualFund(v) /\ v \in ChannelIds
  BY PaymentIs DEF InductiveInv
<1>2. store.vouchers[v] \in Amount
  BY <1>1, ChannelSays
<1>3. /\ store.objectives[DirectFunding] = "completed"
      /\ store.objectives[DirectDefunding] \notin {"approved", "completed"}
  BY <1>1, LedgerStored, NotClosing DEF Closing
<1>4. PICK writes : writes = Attempt(o, v, status, c, <<Put("consensus", Ledger, consensus)>>)
  OBVIOUS
<1>5. /\ Fits(writes, {})
      /\ Range(writes) \subseteq {Put("objectives", o, status), Put("channels", v, c),
                                  Put("consensus", Ledger, consensus), Put("owner", v, o),
                                  Del("owner", v), Notice(v, c), OpenNotice}
  <2>1. PICK before : before = {}
    OBVIOUS
  <2>2. /\ \A x \in before : x \in Writes /\ x.table # "notices"
        /\ \A x \in before : x.table = "objectives" /\ x.key = o
                             => Level("objectives", x.value) <= Level("objectives", status)
        /\ \A x \in before : x.table = "channels" /\ x.key = v
                             => Level("channels", x.value) <= Level("channels", c)
    BY <2>1
  <2>3. store.vouchers[v] \in Amount \/ Put("vouchers", v, 0) \in before
    BY <1>2
  <2>4. /\ Fits(writes, before)
        /\ Range(writes) \subseteq {Put("objectives", o, status), Put("channels", v, c),
                                    Put("consensus", Ledger, consensus), Put("owner", v, o),
                                    Del("owner", v), Notice(v, c), OpenNotice}
    BY <1>1, <1>3, <1>4, <2>2, <2>3, AttemptPayment
  <2>5. QED
    BY <2>1, <2>4
<1>6. ASSUME NEW w \in Range(writes)
      PROVE  /\ w.table = "notices" => w \in {Notice(v, c), OpenNotice}
             /\ w.table = "vouchers" => store.vouchers[v] = None /\ w.value = 0
             /\ w.table = "objectives" => w.key # DirectDefunding
             /\ w.table = "consensus" =>
                  /\ w.value \in Consensus /\ IsFiniteSet(w.value.funds)
                  /\ store.consensus[Ledger] # None
  <2>1. CASE w \in {Notice(v, c), OpenNotice}
    BY <1>1, <2>1, PaymentWrites
  <2>2. CASE w \notin {Notice(v, c), OpenNotice}
    BY <1>1, <1>5, <2>2, PaymentWrites
  <2>3. QED
    BY <2>1, <2>2
<1>7. Begin(writes)
  BY <1>4
<1>8. QED
  BY <1>5, <1>6, <1>7, PaymentKeeps

\* The guarantee enters the ledger.
LEMMA PaymentGuaranteedKeeps ==
  ASSUME InductiveInv, NEW v \in Payments, PaymentGuaranteed(v)
  PROVE  InductiveInv'
<1>1. TypeOK /\ StoreInv /\ v \in ChannelIds /\ v # Ledger /\ FundOf(v) = VirtualFund(v)
      /\ DefundOf(v) = VirtualDefund(v)
  BY PaymentIs DEF InductiveInv
<1>2. PICK c, consensus :
        /\ c = store.channels[v] /\ consensus = [funds |-> Funded(store) \cup {v}, updated |-> TRUE]
        /\ Begin(Attempt(VirtualFund(v), v, "approved", c, <<Put("consensus", Ledger, consensus)>>))
        /\ store.objectives[VirtualFund(v)] = "approved"
        /\ store.channels[v] # None /\ store.consensus[Ledger] # None
  BY <1>1 DEF PaymentGuaranteed, Loads, Funding
<1>3. /\ "approved" \in Standing
      /\ Level("objectives", store.objectives[VirtualFund(v)]) <= Level("objectives", "approved")
  BY <1>2, StandingIs DEF Standing
<1>4. c \in Channel /\ StageOf(c) = 1
  BY <1>1, <1>2, ChannelSays
<1>5. /\ IsFiniteSet(Funded(store)) /\ Funded(store) \subseteq Payments
      /\ \A u \in Funded(store) : store.channels[u] # None
  BY <1>1, <1>2, ConsensusSays
<1>6. /\ consensus \in Consensus /\ IsFiniteSet(consensus.funds)
      /\ \A u \in consensus.funds : store.channels[u] # None
  <2>1. PICK funds \in SUBSET Payments : funds = Funded(store) \cup {v}
    BY <1>5
  <2>2. [funds |-> funds, updated |-> TRUE] \in Consensus
    BY <1>1, <1>2, LedgerStored
  <2>3. consensus = [funds |-> funds, updated |-> TRUE] /\ consensus.funds = funds
    BY <1>2, <2>1
  <2>4. IsFiniteSet(funds)
    BY <1>5, <2>1, FS_AddElement
  <2>5. QED
    BY <1>2, <1>5, <2>1, <2>2, <2>3, <2>4
<1>7. Level("channels", store.channels[v]) <= Level("channels", c)
  BY <1>2, <1>4, ChannelLevel
<1>8. VirtualFund(v) # VirtualDefund(v)
  BY PaymentIs
<1>9. QED
  <2>1. VirtualFund(v) \in {VirtualFund(v), VirtualDefund(v)}
    OBVIOUS
  <2>2. ~ (StageOf(c) >= 2) /\ ~ (StageOf(c) >= 3)
    BY <1>4
  <2>3. QED
    BY <1>2, <1>3, <1>4, <1>6, <1>7, <1>8, <2>1, <2>2, ProgressKeeps

\* The postfund state is signed, by everybody or by an intermediary alone.
LEMMA PaymentFundedKeeps ==
  ASSUME InductiveInv, NEW v \in Payments, PaymentFunded(v)
  PROVE  InductiveInv'
<1>1. TypeOK /\ StoreInv /\ v \in ChannelIds /\ v # Ledger /\ FundOf(v) = VirtualFund(v)
      /\ DefundOf(v) = VirtualDefund(v)
  BY PaymentIs DEF InductiveInv
<1>2. PICK c, consensus :
        /\ consensus = store.consensus[Ledger]
        /\ \E signed \in {"mine", "all"} : c = [store.channels[v] EXCEPT !.postfund = signed]
        /\ Begin(Attempt(VirtualFund(v), v, "completed", c, <<Put("consensus", Ledger, consensus)>>))
        /\ store.objectives[VirtualFund(v)] = "approved"
        /\ store.channels[v] # None /\ store.consensus[Ledger] # None
  <2>1. PICK signed \in {"all"} \cup IF Intermediary THEN {"mine"} ELSE {} :
          Begin(Attempt(VirtualFund(v), v, "completed",
                        [store.channels[v] EXCEPT !.postfund = signed], SameConsensus))
    BY DEF PaymentFunded
  <2>2. signed \in {"mine", "all"}
    BY <2>1
  <2>3. /\ store.objectives[VirtualFund(v)] = "approved"
        /\ store.channels[v] # None /\ store.consensus[Ledger] # None
    BY <1>1 DEF PaymentFunded, Loads
  <2>4. QED
    BY <2>1, <2>2, <2>3 DEF SameConsensus
<1>3. /\ "completed" \in Standing /\ store.objectives[VirtualFund(v)] # "completed"
      /\ Level("objectives", store.objectives[VirtualFund(v)]) <= Level("objectives", "completed")
  BY <1>2, StandingIs DEF Standing
<1>4. c \in Channel /\ c.postfund # "none" /\ StageOf(c) = 2
  <2>1. store.channels[v] \in Channel /\ StageOf(store.channels[v]) = 1
    BY <1>1, <1>2, <1>3, ChannelSays
  <2>2. store.channels[v].final = "none"
    BY <2>1 DEF StageOf, Channel
  <2>3. QED
    BY <1>2, <2>1, <2>2 DEF StageOf, Channel
<1>5. /\ consensus \in Consensus /\ IsFiniteSet(consensus.funds)
      /\ \A u \in consensus.funds : store.channels[u] # None
  BY <1>1, <1>2, LedgerStored
<1>6. Level("channels", store.channels[v]) <= Level("channels", c)
  <2>1. Level("channels", store.channels[v]) \in 0..1
    BY <1>1, <1>3, StoredLevel
  <2>2. Level("channels", c) \in 1..4
    BY <1>4, ChannelLevel
  <2>3. QED
    BY <2>1, <2>2
<1>7. VirtualFund(v) # VirtualDefund(v)
  BY PaymentIs
<1>8. QED
  <2>1. VirtualFund(v) \in {VirtualFund(v), VirtualDefund(v)}
    OBVIOUS
  <2>2. ~ (StageOf(c) >= 3)
    BY <1>4
  <2>3. QED
    BY <1>2, <1>3, <1>4, <1>5, <1>6, <1>7, <2>1, <2>2, ProgressKeeps

\* Somebody asks to close the payment channel: the objective is stored, and
\* approved.
LEMMA ClosePaymentKeeps ==
  ASSUME InductiveInv, NEW v \in Payments, ClosePayment(v)
  PROVE  InductiveInv'
<1>1. TypeOK /\ StoreInv /\ v \in ChannelIds /\ v # Ledger /\ FundOf(v) = VirtualFund(v)
      /\ DefundOf(v) = VirtualDefund(v) /\ VirtualFund(v) # VirtualDefund(v)
  BY PaymentIs DEF InductiveInv
<1>2. PICK o, c, consensus, related, ledger :
        /\ o = VirtualDefund(v) /\ c = store.channels[v] /\ consensus = store.consensus[Ledger]
        /\ ledger = <<Put("consensus", Ledger, consensus)>>
        /\ related = <<Put("channels", v, c)>> \o ledger
  OBVIOUS
<1>3. PICK first : first = IF store.objectives[o] = None
                           THEN SetObjective(o, v, "unapproved", related) ELSE <<>>
  OBVIOUS
<1>4. PICK final : final = SignedFinal(c, "mine")
  OBVIOUS
<1>5. PICK progress : progress = Attempt(o, v, "approved", final, ledger)
  OBVIOUS
<1>6. /\ store.objectives[VirtualFund(v)] = "completed" /\ v \in Funded(store)
      /\ store.objectives[o] \in {None, "unapproved"}
      /\ Begin(first \o progress)
  BY <1>1, <1>2, <1>3, <1>4, <1>5 DEF ClosePayment, SameConsensus, Loads
<1>7. store.consensus[Ledger] # None
  BY <1>6 DEF Funded
<1>8. /\ consensus \in Consensus /\ IsFiniteSet(consensus.funds)
      /\ store.objectives[DirectFunding] = "completed" /\ store.channels[v] # None
      /\ \A u \in consensus.funds : store.channels[u] # None
  BY <1>1, <1>2, <1>6, <1>7, LedgerStored
<1>9. /\ c \in Channel /\ StageOf(c) \in 1..4 /\ store.vouchers[v] \in Amount
      /\ StageOf(c) >= 3 => store.objectives[o] \in {"approved", "completed"}
  BY <1>1, <1>2, <1>8, ChannelSays
<1>10. /\ final \in Channel /\ StageOf(final) = 3 /\ final.postfund = c.postfund
       /\ final.final = "mine"
  BY <1>4, <1>9, MadeChannels
<1>11. /\ "unapproved" \in Standing /\ "approved" \in Standing
       /\ Level("objectives", "unapproved") = 1 /\ Level("objectives", "approved") = 3
       /\ Level("objectives", store.objectives[o]) \in 0..1
       /\ store.objectives[o] \notin {"approved", "completed"}
  BY <1>6, StandingIs, NoneAssumption DEF Standing
<1>12. o \in {VirtualFund(v), VirtualDefund(v)} /\ store.vouchers[v] # None
  BY <1>2, <1>9, NoneAssumption
<1>13. /\ Fits(first, {})
       /\ \A w \in Range(first) :
            /\ w \in Writes /\ w.table \notin {"notices", "vouchers"}
            /\ w.table = "objectives" => w.key # DirectDefunding /\ w.value = "unapproved"
            /\ w.table = "channels" => w.value = c
            /\ w.table = "consensus" => w.value = consensus
  <2>1. CASE store.objectives[o] = None
    <3>1. first = SetObjective(o, v, "unapproved",
                               <<Put("channels", v, c)>> \o <<Put("consensus", Ledger, consensus)>>)
      BY <1>2, <1>3, <2>1
    <3>2. Level("objectives", store.objectives[o]) <= Level("objectives", "unapproved")
      BY <1>11
    <3>3. /\ StageOf(c) >= 3 => store.objectives[VirtualDefund(v)] \in {"approved", "completed"}
          /\ Level("channels", store.channels[v]) <= Level("channels", c)
      BY <1>2, <1>9, ChannelLevel
    <3>4. /\ Fits(first, {})
          /\ Range(first) \subseteq
               {Put("objectives", o, "unapproved"), Put("channels", v, c),
                Put("consensus", Ledger, consensus), Put("owner", v, o)}
      <4>1. /\ store.objectives[DirectFunding] = "completed"
            /\ \A u \in consensus.funds : store.channels[u] # None
            /\ store.objectives[VirtualFund(v)] = "completed" /\ store.vouchers[v] # None
        BY <1>6, <1>8, <1>12
      <4>2. o \in {VirtualFund(v), VirtualDefund(v)} /\ c \in Channel /\ consensus \in Consensus
            /\ "unapproved" \in Standing
        BY <1>8, <1>9, <1>11, <1>12
      <4>3. PICK none : none = {}
        OBVIOUS
      <4>4. \A x \in none : FALSE
        BY <4>3
      <4>5. LET writes == SetObjective(o, v, "unapproved",
                                       <<Put("channels", v, c)>>
                                         \o <<Put("consensus", Ledger, consensus)>>)
            IN /\ Fits(writes, none)
               /\ Range(writes) \subseteq
                    {Put("objectives", o, "unapproved"), Put("channels", v, c),
                     Put("consensus", Ledger, consensus), Put("owner", v, o)}
        BY <1>1, <3>2, <3>3, <4>1, <4>2, <4>4, SetPayment
      <4>6. QED
        BY <3>1, <4>3, <4>5
    <3>5. QED
      BY <1>1, <1>8, <1>9, <1>11, <1>12, <3>4, PaymentWrites
  <2>2. CASE store.objectives[o] # None
    BY <1>3, <2>2, FitsNothing
  <2>3. QED
    BY <2>1, <2>2
<1>14. PICK before : before = Range(first)
  OBVIOUS
<1>15. Level("channels", c) \in 0..2 /\ Level("channels", c) <= Level("channels", final)
  <2>1. Level("channels", c) \in 0..2
    BY <1>1, <1>2, <1>11, StoredLevel
  <2>2. QED
    BY <1>9, <1>10, <2>1, ChannelRises
<1>16. /\ Fits(progress, before)
       /\ Range(progress) \subseteq
            {Put("objectives", o, "approved"), Put("channels", v, final),
             Put("consensus", Ledger, consensus), Put("owner", v, o), Del("owner", v),
             Notice(v, final), OpenNotice}
  <2>1. store.objectives[DirectDefunding] \notin {"approved", "completed"}
    BY <1>7, NotClosing DEF Closing
  <2>2. \A x \in before : x \in Writes /\ x.table # "notices"
    BY <1>13, <1>14
  <2>3. \A x \in before : x.table = "objectives" /\ x.key = o
                            => Level("objectives", x.value) <= Level("objectives", "approved")
    BY <1>11, <1>13, <1>14
  <2>4. /\ Level("objectives", store.objectives[o]) <= Level("objectives", "approved")
        /\ o = VirtualDefund(v)
    BY <1>2, <1>11
  <2>5. /\ Level("channels", store.channels[v]) <= Level("channels", final)
        /\ \A x \in before : x.table = "channels" /\ x.key = v
                             => Level("channels", x.value) <= Level("channels", final)
    BY <1>2, <1>13, <1>14, <1>15
  <2>6. QED
    BY <1>1, <1>2, <1>5, <1>6, <1>8, <1>9, <1>10, <1>11, <1>12, <2>1, <2>2, <2>3, <2>4, <2>5,
       AttemptPayment
<1>17. /\ Fits(first \o progress, {})
       /\ Range(first \o progress) = Range(first) \cup Range(progress)
  BY <1>13, <1>14, <1>16, FitsFirst
<1>18. PICK writes : writes = first \o progress
  OBVIOUS
<1>19. ASSUME NEW w \in Range(writes)
       PROVE  /\ w.table = "notices" => w \in {Notice(v, final), OpenNotice}
              /\ w.table = "vouchers" => store.vouchers[v] = None /\ w.value = 0
              /\ w.table = "objectives" => w.key # DirectDefunding
              /\ w.table = "consensus" =>
                   /\ w.value \in Consensus /\ IsFiniteSet(w.value.funds)
                   /\ store.consensus[Ledger] # None
  <2>1. w \in Range(first) \/ w \in Range(progress)
    BY <1>17, <1>18
  <2>2. CASE w \in Range(first)
    BY <1>7, <1>8, <1>13, <2>2
  <2>3. CASE w \in Range(progress)
    <3>1. CASE w \in {Notice(v, final), OpenNotice}
      BY <1>1, <1>8, <1>10, <1>11, <1>12, <3>1, PaymentWrites
    <3>2. CASE w \notin {Notice(v, final), OpenNotice}
      BY <1>1, <1>7, <1>8, <1>10, <1>11, <1>12, <1>16, <2>3, <3>2, PaymentWrites
    <3>3. QED
      BY <3>1, <3>2
  <2>4. QED
    BY <2>1, <2>2, <2>3
<1>20. QED
  BY <1>6, <1>10, <1>17, <1>18, <1>19, PaymentKeeps

\* The final state is complete, with the outcome that was agreed.
LEMMA PaymentFinalizedKeeps ==
  ASSUME InductiveInv, NEW v \in Payments, PaymentFinalized(v)
  PROVE  InductiveInv'
<1>1. TypeOK /\ StoreInv /\ v \in ChannelIds /\ v # Ledger /\ FundOf(v) = VirtualFund(v)
      /\ DefundOf(v) = VirtualDefund(v)
  BY PaymentIs DEF InductiveInv
<1>2. PICK c, consensus : \E paid \in Amount :
        /\ consensus = store.consensus[Ledger]
        /\ c = [store.channels[v] EXCEPT !.final = "all", !.paid = paid]
        /\ Begin(Attempt(VirtualDefund(v), v, "approved", c, <<Put("consensus", Ledger, consensus)>>))
        /\ store.objectives[VirtualDefund(v)] = "approved"
        /\ store.channels[v] # None /\ store.consensus[Ledger] # None
  BY <1>1 DEF PaymentFinalized, Loads, SameConsensus
<1>3. /\ "approved" \in Standing /\ store.objectives[VirtualDefund(v)] # None
      /\ Level("objectives", store.objectives[VirtualDefund(v)]) <= Level("objectives", "approved")
  BY <1>2, StandingIs, NoneAssumption DEF Standing
<1>4. c \in Channel /\ c.postfund = store.channels[v].postfund /\ c.final = "all"
  <2>1. store.channels[v] \in Channel
    BY <1>1, <1>2 DEF TypeOK
  <2>2. QED
    BY <1>2, <2>1 DEF Channel
<1>5. /\ consensus \in Consensus /\ IsFiniteSet(consensus.funds)
      /\ \A u \in consensus.funds : store.channels[u] # None
  BY <1>1, <1>2, LedgerStored
<1>6. Level("channels", store.channels[v]) <= Level("channels", c)
  <2>1. PICK d \in Channel : d = store.channels[v]
    BY <1>1, <1>2 DEF TypeOK
  <2>2. c.postfund = d.postfund /\ c.final = "all"
    BY <1>4, <2>1
  <2>3. QED
    BY <1>4, <2>1, <2>2, ChannelRises
<1>7. store.objectives[VirtualFund(v)] = "completed"
  BY <1>1, <1>3, DefundSays
<1>8. VirtualDefund(v) \in {VirtualFund(v), VirtualDefund(v)}
  OBVIOUS
<1>9. QED
  BY <1>2, <1>3, <1>4, <1>5, <1>6, <1>7, <1>8, ProgressKeeps

\* The guarantee leaves the ledger.
LEMMA PaymentSettledKeeps ==
  ASSUME InductiveInv, NEW v \in Payments, PaymentSettled(v)
  PROVE  InductiveInv'
<1>1. TypeOK /\ StoreInv /\ v \in ChannelIds /\ v # Ledger /\ FundOf(v) = VirtualFund(v)
      /\ DefundOf(v) = VirtualDefund(v)
  BY PaymentIs DEF InductiveInv
<1>2. PICK c, consensus :
        /\ c = store.channels[v] /\ consensus = [funds |-> Funded(store) \ {v}, updated |-> TRUE]
        /\ Begin(Attempt(VirtualDefund(v), v, "completed", c, <<Put("consensus", Ledger, consensus)>>))
        /\ store.objectives[VirtualDefund(v)] = "approved" /\ c.final = "all"
        /\ store.channels[v] # None /\ store.consensus[Ledger] # None
  BY <1>1 DEF PaymentSettled, Loads, Funding
<1>3. /\ "completed" \in Standing /\ store.objectives[VirtualDefund(v)] # None
      /\ Level("objectives", store.objectives[VirtualDefund(v)]) <= Level("objectives", "completed")
  BY <1>2, StandingIs, NoneAssumption DEF Standing
<1>4. c \in Channel
  BY <1>1, <1>2 DEF TypeOK
<1>5. /\ IsFiniteSet(Funded(store)) /\ Funded(store) \subseteq Payments
      /\ \A u \in Funded(store) : store.channels[u] # None
  BY <1>1, <1>2, ConsensusSays
<1>6. /\ consensus \in Consensus /\ IsFiniteSet(consensus.funds)
      /\ \A u \in consensus.funds : store.channels[u] # None
  <2>1. PICK funds \in SUBSET Payments : funds = Funded(store) \ {v}
    BY <1>5
  <2>2. [funds |-> funds, updated |-> TRUE] \in Consensus
    BY <1>1, <1>2, LedgerStored
  <2>3. consensus = [funds |-> funds, updated |-> TRUE] /\ consensus.funds = funds
    BY <1>2, <2>1
  <2>4. IsFiniteSet(funds)
    <3>1. funds \subseteq Funded(store)
      BY <2>1
    <3>2. QED
      BY <1>5, <3>1, FS_Subset
  <2>5. QED
    BY <1>5, <2>1, <2>2, <2>3, <2>4
<1>7. Level("channels", store.channels[v]) <= Level("channels", c)
  BY <1>2, <1>4, ChannelLevel
<1>8. store.objectives[VirtualFund(v)] = "completed"
  BY <1>1, <1>3, DefundSays
<1>9. VirtualDefund(v) \in {VirtualFund(v), VirtualDefund(v)}
  OBVIOUS
<1>10. QED
  BY <1>2, <1>3, <1>4, <1>6, <1>7, <1>8, <1>9, ProgressKeeps

-----------------------------------------------------------------------------
(***************************************************************************)
(* The queries.                                                            *)
(***************************************************************************)
\* A finite set in some order.
LEMMA SetInOrder ==
  ASSUME NEW S, IsFiniteSet(S)
  PROVE  Cardinality(S) \in Nat /\ \A i \in 1..Cardinality(S) : SetToSeq(S)[i] \in S
<1>1. Cardinality(S) \in Nat /\ ExistsBijection(1..Cardinality(S), S)
  BY FS_CardinalityType
<1>2. PICK f : f \in Bijection(1..Cardinality(S), S)
  BY <1>1 DEF ExistsBijection
<1>3. f \in [1..Cardinality(S) -> S] /\ IsInjective(f)
  BY <1>2 DEF Bijection, Injection, IsInjective
<1>4. SetToSeq(S) \in [1..Cardinality(S) -> S]
  BY <1>3 DEF SetToSeq
<1>5. QED
  BY <1>1, <1>4

\* A query does nothing to the store.
LEMMA QueryKeeps ==
  ASSUME InductiveInv, store' = store, todo' = todo,
         query' \in Query \cup {Idle}, witness' \in Witness,
         VoucherInv', BalancesAddUp', HeardInv', AnswersFollowEvents', KnownInv'
  PROVE  InductiveInv'
<1>1. TypeOK'
  BY DEF InductiveInv, TypeOK
<1>2. StoreInv'
  BY DEF InductiveInv, StoreInv, IsMet
<1>3. OrderInv'
  BY DEF InductiveInv, OrderInv, IsOrderly, IsPrepared, Rises, IsMet
<1>4. FormInv' /\ ClosedInv'
  BY DEF InductiveInv, FormInv, ClosedInv, Pending, IsBeingClosed
<1>5. PaidInv'
  <2>1. /\ Pending' = Pending
        /\ \A table, key : Said(table, key)' = Said(table, key)
    BY DEF Pending, Said
  <2>2. QED
    BY <2>1 DEF InductiveInv, PaidInv
<1>6. QED
  BY <1>1, <1>2, <1>3, <1>4, <1>5 DEF InductiveInv

\* What is in one of two sequences, one after the other.
LEMMA InEither ==
  ASSUME NEW S, NEW s \in Seq(S), NEW t \in Seq(S), NEW x \in Range(s \o t)
  PROVE  x \in Range(s) \/ x \in Range(t)
<1>1. /\ s \o t \in Seq(S) /\ Len(s \o t) = Len(s) + Len(t)
      /\ \A i \in 1..Len(s) + Len(t) :
           (s \o t)[i] = IF i <= Len(s) THEN s[i] ELSE t[i - Len(s)]
  BY ConcatProperties
<1>2. /\ Len(s) \in Nat /\ Len(t) \in Nat /\ DOMAIN s = 1..Len(s) /\ DOMAIN t = 1..Len(t)
      /\ DOMAIN (s \o t) = 1..Len(s) + Len(t)
  BY <1>1
<1>3. PICK i \in 1..Len(s) + Len(t) : x = (s \o t)[i]
  BY <1>2 DEF Range
<1>4. CASE i <= Len(s)
  BY <1>1, <1>2, <1>3, <1>4 DEF Range
<1>5. CASE ~ (i <= Len(s))
  <2>1. i - Len(s) \in DOMAIN t /\ x = t[i - Len(s)]
    BY <1>1, <1>2, <1>3, <1>5
  <2>2. QED
    BY <2>1 DEF Range
<1>6. QED
  BY <1>4, <1>5

\* What a query has.
LEMMA QueryIs ==
  ASSUME TypeOK, query # Idle
  PROVE  /\ query \in Query /\ query.asks \in Kinds /\ query.of \in ChannelIds
         /\ query.left \in Seq(Channel \X Payments) /\ query.paid \in Amount
         /\ query.answer \in Seq(Info) /\ Infos = Range(query.answer)
BY DEF TypeOK, Query, Infos

\* What had been told of a channel when the query was made is in the store.
LEMMA HeardSays ==
  ASSUME TypeOK, HeardInv, query # Idle, NEW v \in Payments, witness.heard[v] # None
  PROVE  /\ witness.heard[v] \in Info /\ Rank(witness.heard[v].status) \in 1..4
         /\ Rank(witness.heard[v].status) <= Level("channels", store.channels[v])
         /\ PaidByVouchers(witness.heard[v]) =>
              store.vouchers[v] # None /\ witness.heard[v].paid <= store.vouchers[v]
<1>1. PICK heard \in Info : heard = witness.heard[v]
  BY DEF TypeOK, Witness
<1>2. Rank(heard.status) \in 1..4 /\ heard.paid \in Amount
  <2>1. heard.status \in Status /\ heard.paid \in Amount
    BY DEF Info
  <2>2. QED
    BY <2>1, RankIs
<1>3. PICK w : w = Put("notices", v, heard)
  OBVIOUS
<1>4. /\ w.table = "notices" /\ w.key = v /\ w.value = heard /\ heard # None
      /\ \A need \in Needs(w) : IsMet(need)
  BY <1>1, <1>3 DEF HeardInv, Put
<1>5. Needs(w) = {Least("channels", v, Rank(heard.status))}
                   \cup IF PaidByVouchers(heard) THEN {Least("vouchers", v, heard.paid + 1)} ELSE {}
  BY <1>4, LedgerAssumption DEF Needs
<1>6. IsMet(Least("channels", v, Rank(heard.status)))
  BY <1>4, <1>5
<1>7. Rank(heard.status) <= Level("channels", store.channels[v])
  BY <1>6 DEF IsMet, Least
<1>8. ASSUME PaidByVouchers(heard)
      PROVE  store.vouchers[v] # None /\ heard.paid <= store.vouchers[v]
  <2>1. IsMet(Least("vouchers", v, heard.paid + 1))
    BY <1>4, <1>5, <1>8
  <2>2. Level("vouchers", store.vouchers[v]) >= heard.paid + 1
    BY <2>1 DEF IsMet, Least
  <2>3. heard.paid \in Nat
    BY <1>2, TotalAssumption DEF Amount
  <2>4. store.vouchers[v] # None
    BY <2>2, <2>3 DEF Level
  <2>5. Level("vouchers", store.vouchers[v]) = store.vouchers[v] + 1
    BY <2>4 DEF Level
  <2>6. store.vouchers[v] \in Nat
    BY <2>4, TotalAssumption DEF TypeOK, Amount
  <2>7. QED
    BY <2>2, <2>3, <2>4, <2>5, <2>6
<1>9. QED
  BY <1>1, <1>2, <1>7, <1>8

\* A Channel that is stored is not behind what had been told of it.
LEMMA StoredFollows ==
  ASSUME TypeOK, HeardInv, query # Idle, NEW v \in Payments, NEW c \in Channel,
         store.channels[v] = c
  PROVE  Follows(witness.heard[v], c)
BY HeardSays, ChannelLevel DEF Follows

\* The next read of a query.
LEMMA ReadKeeps ==
  ASSUME InductiveInv, query # Idle, NEW q \in Query, Reads(q),
         q.asks = query.asks, q.of = query.of, q.at # "channel",
         q.at \in {"registered", "paid", "remaining"} => q.left # <<>>,
         q.at \in {"paid", "remaining"} => store.vouchers[Head(q.left)[2]] # None,
         q.at = "remaining" => q.paid <= store.vouchers[Head(q.left)[2]],
         q.at \in {"registered", "paid", "remaining"} =>
           \A l \in Range(q.left) : Follows(witness.heard[l[2]], l[1]),
         q.at = "remaining" => FollowsPaid(witness.heard[Head(q.left)[2]], q.paid),
         \A info \in Range(q.answer) :
           \/ info \in Infos \/ info.of \notin Payments
           \/ /\ info.paid + info.remaining <= Total
              /\ IsBehind(witness.heard[info.of], info),
         q.asks = "ledger" /\ witness.known /\ ~ IsBeingClosed =>
           q.at # "failed" /\ (q.at = "consensus" => store.consensus[Ledger] # None)
  PROVE  InductiveInv'
<1>1. store' = store /\ todo' = todo /\ witness' = witness /\ query' = q /\ q # Idle
  BY IdleAssumption DEF Reads
<1>2. VoucherInv'
  BY <1>1 DEF InductiveInv, VoucherInv, First
<1>3. BalancesAddUp' /\ AnswersFollowEvents'
  <2>1. Infos' = Range(q.answer)
    BY <1>1 DEF Infos
  <2>2. QED
    BY <1>1, <2>1 DEF InductiveInv, BalancesAddUp, AnswersFollowEvents
<1>4. KnownInv'
  <2>1. IsBeingClosed' <=> IsBeingClosed
    BY <1>1 DEF IsBeingClosed
  <2>2. q.asks = "ledger" /\ witness.known /\ ~ IsBeingClosed => IsStored(store)
    BY DEF InductiveInv, KnownInv
  <2>3. QED
    BY <1>1, <2>1, <2>2 DEF KnownInv
<1>5. witness' \in Witness
  BY <1>1 DEF InductiveInv, TypeOK
<1>6. HeardInv'
  <2>1. ASSUME NEW v \in Payments, witness.heard[v] # None
        PROVE  \A need \in Needs(Put("notices", v, witness.heard[v])) : IsMet(need)
    BY <2>1 DEF InductiveInv, HeardInv
  <2>2. \A need : IsMet(need)' <=> IsMet(need)
    BY <1>1 DEF IsMet
  <2>3. QED
    BY <1>1, <2>1, <2>2 DEF HeardInv, First
<1>7. QED
  BY <1>1, <1>2, <1>3, <1>4, <1>5, <1>6, QueryKeeps

\* A query ends with what was found.
LEMMA AnsweredIs ==
  ASSUME TypeOK, query # Idle, NEW infos \in Seq(Info)
  PROVE  /\ Answered(infos) \in Query /\ Answered(infos).asks = query.asks
         /\ Answered(infos).of = query.of /\ Answered(infos).at = "answered"
         /\ \A x \in Range(Answered(infos).answer) : x \in Infos \/ x \in Range(infos)
<1>1. query \in Query /\ query.answer \in Seq(Info) /\ Infos = Range(query.answer)
  BY QueryIs
<1>2. PICK answer : answer = query.answer \o infos
  OBVIOUS
<1>3. answer \in Seq(Info)
  BY <1>1, <1>2, ConcatProperties
<1>4. Answered(infos) = [query EXCEPT !.answer = answer, !.at = "answered"]
  BY <1>1, <1>2 DEF Answered
<1>5. /\ Answered(infos) \in Query /\ Answered(infos).asks = query.asks
      /\ Answered(infos).of = query.of
      /\ Answered(infos).at = "answered" /\ Answered(infos).answer = answer
  BY <1>1, <1>3, <1>4 DEF Query
<1>6. QED
  BY <1>1, <1>2, <1>5, InEither

\* A query goes on with the channels that were found.
LEMMA ContinueIs ==
  ASSUME TypeOK, query # Idle, NEW left \in Seq(Channel \X Payments)
  PROVE  /\ Continue(left) \in Query /\ Continue(left).asks = query.asks
         /\ Continue(left).of = query.of
         /\ Continue(left).at \in {"answered", "registered"}
         /\ Continue(left).left = left /\ Continue(left).answer = query.answer
         /\ Continue(left).at = "registered" => left # <<>>
<1>1. query \in Query
  BY QueryIs
<1>2. PICK at \in {"answered", "registered"} : at = IF left = <<>> THEN "answered" ELSE "registered"
  OBVIOUS
<1>3. Continue(left) = [query EXCEPT !.left = left, !.at = at]
  BY <1>2 DEF Continue
<1>4. QED
  BY <1>1, <1>2, <1>3 DEF Query

\* What a query tells of the ledger.
LEMMA LedgerInfoIs ==
  ASSUME NEW status \in Status
  PROVE  /\ <<LedgerInfo(status)>> \in Seq(Info)
         /\ \A x \in Range(<<LedgerInfo(status)>>) : x.of \notin Payments
<1>1. LedgerInfo(status) \in Info /\ LedgerInfo(status).of = Ledger
  BY TotalAssumption DEF LedgerInfo, Info, ChannelIds, Amount
<1>2. <<LedgerInfo(status)>> \in Seq(Info)
  BY <1>1
<1>3. Range(<<LedgerInfo(status)>>) = {LedgerInfo(status)}
  BY DEF Range
<1>4. QED
  BY <1>1, <1>2, <1>3, LedgerAssumption

\* The query ends with the ledger, or with nothing more.
LEMMA LedgerAnswered ==
  ASSUME InductiveInv, query # Idle,
         Reads(Answered(<<>>)) \/ \E status \in Status : Reads(Answered(<<LedgerInfo(status)>>))
  PROVE  InductiveInv'
<1>1. TypeOK
  BY DEF InductiveInv
<1>2. PICK infos \in Seq(Info) : Reads(Answered(infos)) /\ \A x \in Range(infos) : x.of \notin Payments
  <2>1. CASE Reads(Answered(<<>>))
    <3>1. <<>> \in Seq(Info) /\ \A x \in Range(<<>>) : x.of \notin Payments
      BY DEF Range
    <3>2. QED
      BY <2>1, <3>1
  <2>2. CASE \E status \in Status : Reads(Answered(<<LedgerInfo(status)>>))
    BY <2>2, LedgerInfoIs
  <2>3. QED
    BY <2>1, <2>2
<1>3. PICK q \in Query : q = Answered(infos)
  BY <1>1, AnsweredIs
<1>4. /\ q.asks = query.asks /\ q.of = query.of /\ q.at = "answered"
      /\ \A x \in Range(q.answer) : x \in Infos \/ x.of \notin Payments
  BY <1>1, <1>2, <1>3, AnsweredIs
<1>5. QED
  BY <1>2, <1>3, <1>4, ReadKeeps

\* The query goes on with the channels that were found.
LEMMA Continued ==
  ASSUME InductiveInv, query # Idle, NEW left \in Seq(Channel \X Payments), Reads(Continue(left)),
         \A l \in Range(left) : Follows(witness.heard[l[2]], l[1])
  PROVE  InductiveInv'
<1>1. TypeOK
  BY DEF InductiveInv
<1>2. PICK q \in Query : q = Continue(left)
  BY <1>1, ContinueIs
<1>3. /\ q.asks = query.asks /\ q.of = query.of /\ q.at \in {"answered", "registered"}
      /\ q.left = left /\ q.answer = query.answer
      /\ q.at = "registered" => left # <<>>
  BY <1>1, <1>2, ContinueIs
<1>4. Infos = Range(q.answer)
  BY <1>1, <1>3, QueryIs
<1>5. QED
  BY <1>2, <1>3, <1>4, ReadKeeps

\* A client asks.
LEMMA AskKeeps ==
  ASSUME InductiveInv, NEW kind \in Kinds, NEW of \in ChannelIds, Ask(kind, of)
  PROVE  InductiveInv'
<1>1. PICK at : at = FirstRead[kind]
  OBVIOUS
<1>2. /\ store' = store /\ todo' = todo
      /\ query' = [asks |-> kind, of |-> of, at |-> at, left |-> <<>>, paid |-> 0, answer |-> <<>>]
      /\ witness' = [known |-> IsStored(store), funded |-> Funded(store),
                     heard |-> [v \in Payments |-> store.notices[v]]]
      /\ (kind = "payment") = (of \in Payments)
  BY <1>1 DEF Ask
<1>3. /\ at \in {"channel", "list", "consensus"}
      /\ at = "channel" => kind \in {"ledger", "payment"}
      /\ kind = "ledger" => at = "channel"
  BY <1>1, KindsAssumption DEF FirstRead
<1>4. TypeOK /\ StoreInv
  BY DEF InductiveInv
<1>5. query' \in Query
  <2>1. <<>> \in Seq(Channel \X Payments) /\ <<>> \in Seq(Info) /\ 0 \in Amount
    BY TotalAssumption DEF Amount
  <2>2. QED
    BY <1>2, <1>3, <2>1 DEF Query
<1>6. witness' \in Witness
  <2>1. Funded(store) \in SUBSET Payments
    BY <1>4, ConsensusSays DEF Funded
  <2>2. IsStored(store) \in BOOLEAN
    BY DEF IsStored
  <2>3. [v \in Payments |-> store.notices[v]] \in [Payments -> Info \cup {None}]
    BY <1>4 DEF TypeOK, ChannelIds
  <2>4. QED
    BY <1>2, <2>1, <2>2, <2>3 DEF Witness
<1>7. VoucherInv'
  BY <1>2, <1>3 DEF VoucherInv
<1>8. BalancesAddUp' /\ AnswersFollowEvents'
  BY <1>2 DEF BalancesAddUp, AnswersFollowEvents, Infos, Range
<1>9. KnownInv'
  <2>1. query'.asks = "ledger" => query'.at = "channel"
    BY <1>2, <1>3
  <2>2. witness'.known => IsStored(store')
    BY <1>2
  <2>3. QED
    BY <2>1, <2>2 DEF KnownInv
<1>10. HeardInv'
  <2>1. query'.at \notin {"registered", "paid", "remaining"}
    BY <1>2, <1>3
  <2>2. ASSUME NEW v \in Payments, witness'.heard[v] # None,
               NEW need \in Needs(Put("notices", v, witness'.heard[v]))
        PROVE  IsMet(need)'
    <3>1. witness'.heard[v] = store["notices"][v]
      BY <1>2
    <3>2. "notices" \in DOMAIN store /\ v \in DOMAIN store["notices"]
      BY <1>4 DEF TypeOK, ChannelIds
    <3>3. IsMet(need)
      BY <1>4, <2>2, <3>1, <3>2 DEF StoreInv
    <3>4. QED
      BY <1>2, <3>3 DEF IsMet
  <2>3. QED
    BY <2>1, <2>2 DEF HeardInv
<1>11. QED
  BY <1>2, <1>5, <1>6, <1>7, <1>8, <1>9, <1>10, QueryKeeps

\* getChannelById.
LEMMA GetChannelByIdKeeps ==
  ASSUME InductiveInv, GetChannelById
  PROVE  InductiveInv'
<1>1. /\ TypeOK /\ StoreInv /\ query # Idle /\ query.at = "channel"
      /\ query.asks = "ledger" \/ query.of \in Payments
      /\ query.asks = "ledger" => query.of \notin Payments
  BY DEF InductiveInv, GetChannelById, At, VoucherInv
<1>2. query \in Query /\ query.of \in ChannelIds /\ Infos = Range(query.answer)
  BY <1>1, QueryIs
<1>3. PICK c : c = store.channels[query.of]
  OBVIOUS
<1>4. c # None => c \in Channel
  BY <1>1, <1>2, <1>3 DEF TypeOK
<1>5. CASE query.asks = "ledger" /\ c = None
  <2>1. PICK q \in Query : q = [query EXCEPT !.at = "consensus"]
    BY <1>2 DEF Query
  <2>2. Reads(q)
    BY <1>3, <1>5, <2>1 DEF GetChannelById
  <2>3. /\ q.asks = query.asks /\ q.of = query.of /\ q.at = "consensus"
        /\ q.answer = query.answer
    BY <1>2, <2>1 DEF Query
  <2>4. ASSUME witness.known, ~ IsBeingClosed PROVE store.consensus[Ledger] # None
    <3>1. IsStored(store)
      BY <1>1, <1>5, <2>4 DEF InductiveInv, KnownInv
    <3>2. query.of = Ledger
      BY <1>1, <1>2, <1>5 DEF ChannelIds
    <3>3. QED
      BY <1>3, <1>5, <3>1, <3>2 DEF IsStored
  <2>5. QED
    BY <1>1, <1>2, <2>2, <2>3, <2>4, ReadKeeps
<1>6. CASE query.asks = "ledger" /\ c # None
  <2>1. Reads(Answered(<<LedgerInfo(StatusFromChannel(c))>>))
    BY <1>3, <1>6 DEF GetChannelById
  <2>2. StatusFromChannel(c) \in Status
    BY <1>4, <1>6, StatusIs
  <2>3. QED
    BY <1>1, <2>1, <2>2, LedgerAnswered
<1>7. CASE query.asks # "ledger" /\ c = None
  <2>1. PICK q \in Query : q = [query EXCEPT !.at = "failed"]
    BY <1>2 DEF Query
  <2>2. Reads(q)
    BY <1>3, <1>7, <2>1 DEF GetChannelById
  <2>3. /\ q.asks = query.asks /\ q.of = query.of /\ q.at = "failed"
        /\ q.answer = query.answer
    BY <1>2, <2>1 DEF Query
  <2>4. QED
    BY <1>1, <1>2, <1>7, <2>2, <2>3, ReadKeeps
<1>8. CASE query.asks # "ledger" /\ c # None
  <2>1. PICK left : left = << <<c, query.of>> >>
    OBVIOUS
  <2>2. left \in Seq(Channel \X Payments)
    BY <1>1, <1>4, <1>8, <2>1
  <2>3. Reads(Continue(left))
    BY <1>3, <1>8, <2>1 DEF GetChannelById
  <2>4. \A l \in Range(left) : Follows(witness.heard[l[2]], l[1])
    <3>1. Range(left) = {<<c, query.of>>}
      BY <2>1 DEF Range
    <3>2. HeardInv /\ query.of \in Payments /\ c \in Channel /\ store.channels[query.of] = c
      BY <1>1, <1>3, <1>4, <1>8 DEF InductiveInv
    <3>3. Follows(witness.heard[query.of], c)
      BY <1>1, <3>2, StoredFollows
    <3>4. QED
      BY <3>1, <3>3
  <2>5. QED
    BY <1>1, <2>2, <2>3, <2>4, Continued
<1>9. QED
  BY <1>5, <1>6, <1>7, <1>8

\* getConsensusChannelById.
LEMMA GetConsensusChannelByIdKeeps ==
  ASSUME InductiveInv, GetConsensusChannelById
  PROVE  InductiveInv'
<1>1. /\ TypeOK /\ StoreInv /\ query # Idle /\ query.at = "consensus"
  BY DEF InductiveInv, GetConsensusChannelById, At
<1>2. query \in Query /\ Infos = Range(query.answer)
  BY <1>1, QueryIs
<1>3. CASE query.asks = "ledger" /\ store.consensus[Ledger] # None
  <2>1. Reads(Answered(<<LedgerInfo("Open")>>))
    BY <1>3 DEF GetConsensusChannelById
  <2>2. "Open" \in Status
    BY RankIs
  <2>3. QED
    BY <1>1, <2>1, <2>2, LedgerAnswered
<1>4. CASE query.asks = "ledger" /\ store.consensus[Ledger] = None
  <2>1. PICK q \in Query : q = [query EXCEPT !.at = "failed"]
    BY <1>2 DEF Query
  <2>2. Reads(q)
    BY <1>4, <2>1 DEF GetConsensusChannelById
  <2>3. /\ q.asks = query.asks /\ q.of = query.of /\ q.at = "failed"
        /\ q.answer = query.answer
    BY <1>2, <2>1 DEF Query
  <2>4. ~ (witness.known /\ ~ IsBeingClosed)
    BY <1>1, <1>4 DEF InductiveInv, KnownInv
  <2>5. QED
    BY <1>1, <1>2, <2>2, <2>3, <2>4, ReadKeeps
<1>5. CASE query.asks # "ledger" /\ Funded(store) = {}
  <2>1. Reads(Answered(<<>>))
    BY <1>5 DEF GetConsensusChannelById
  <2>2. QED
    BY <1>1, <2>1, LedgerAnswered
<1>6. CASE query.asks # "ledger" /\ Funded(store) # {}
  <2>1. PICK left : left = [i \in 1 .. Cardinality(Funded(store)) |->
                              <<NewChannel, SetToSeq(Funded(store))[i]>>]
    OBVIOUS
  <2>2. Reads([query EXCEPT !.at = "channels", !.left = left])
    BY <1>6, <2>1 DEF GetConsensusChannelById
  <2>3. IsFiniteSet(Funded(store)) /\ Funded(store) \subseteq Payments
    BY <1>1, <1>6, ConsensusSays DEF Funded
  <2>4. left \in Seq(Channel \X Payments)
    <3>1. /\ Cardinality(Funded(store)) \in Nat
          /\ \A i \in 1..Cardinality(Funded(store)) : SetToSeq(Funded(store))[i] \in Payments
      BY <2>3, SetInOrder
    <3>2. left \in [1..Cardinality(Funded(store)) -> Channel \X Payments]
      BY <2>1, <3>1, MadeChannels
    <3>3. QED
      BY <3>1, <3>2, SeqDef
  <2>5. PICK q \in Query : q = [query EXCEPT !.at = "channels", !.left = left]
    BY <1>2, <2>4 DEF Query
  <2>6. /\ q.asks = query.asks /\ q.of = query.of /\ q.at = "channels"
        /\ q.answer = query.answer
    BY <1>2, <2>5 DEF Query
  <2>7. QED
    BY <1>1, <1>2, <1>6, <2>2, <2>5, <2>6, ReadKeeps
<1>7. QED
  BY <1>3, <1>4, <1>5, <1>6

\* getAllConsensusChannels.
LEMMA GetAllConsensusChannelsKeeps ==
  ASSUME InductiveInv, GetAllConsensusChannels
  PROVE  InductiveInv'
<1>1. /\ TypeOK /\ query # Idle /\ query.at = "list"
  BY DEF InductiveInv, GetAllConsensusChannels, At
<1>2. query \in Query
  BY <1>1, QueryIs
<1>3. PICK infos : infos = IF store.consensus[Ledger] = None THEN <<>> ELSE <<LedgerInfo("Open")>>
  OBVIOUS
<1>4. infos \in Seq(Info) /\ \A x \in Range(infos) : x.of \notin Payments
  <2>1. CASE store.consensus[Ledger] = None
    BY <1>3, <2>1 DEF Range
  <2>2. CASE store.consensus[Ledger] # None
    <3>1. "Open" \in Status
      BY RankIs
    <3>2. QED
      BY <1>3, <2>2, <3>1, LedgerInfoIs
  <2>3. QED
    BY <2>1, <2>2
<1>5. PICK q \in Query : q = [query EXCEPT !.at = "channels", !.answer = infos]
  BY <1>2, <1>4 DEF Query
<1>6. /\ q.asks = query.asks /\ q.of = query.of /\ q.at = "channels" /\ q.answer = infos
  BY <1>2, <1>5 DEF Query
<1>7. Reads(q)
  BY <1>3, <1>5 DEF GetAllConsensusChannels
<1>8. QED
  BY <1>1, <1>4, <1>6, <1>7, ReadKeeps

\* getChannelsByIds, and getChannelsByAppDefinition for the ledgers.
LEMMA GetChannelsKeeps ==
  ASSUME InductiveInv, GetChannels
  PROVE  InductiveInv'
<1>1. /\ TypeOK /\ StoreInv /\ query # Idle
  BY DEF InductiveInv, GetChannels, At
<1>2. query \in Query /\ query.left \in Seq(Channel \X Payments)
  BY <1>1, QueryIs
<1>3. CASE query.asks = "ledgers"
  <2>1. PICK c : c = store.channels[Ledger]
    OBVIOUS
  <2>2. CASE c = None
    <3>1. Reads(Answered(<<>>))
      BY <1>3, <2>1, <2>2 DEF GetChannels
    <3>2. QED
      BY <1>1, <3>1, LedgerAnswered
  <2>3. CASE c # None
    <3>1. Reads(Answered(<<LedgerInfo(StatusFromChannel(c))>>))
      BY <1>3, <2>1, <2>3 DEF GetChannels
    <3>2. StatusFromChannel(c) \in Status
      BY <1>1, <2>1, <2>3, LedgerIs, StatusIs DEF TypeOK
    <3>3. QED
      BY <1>1, <3>1, <3>2, LedgerAnswered
  <2>4. QED
    BY <2>2, <2>3
<1>4. CASE query.asks # "ledgers"
  <2>1. PICK ids : ids = {l[2] : l \in Range(query.left)}
    OBVIOUS
  <2>2. PICK found : found = {v \in ids : store.channels[v] # None}
    OBVIOUS
  <2>3. ids \subseteq Payments /\ IsFiniteSet(ids)
    <3>1. /\ Len(query.left) \in Nat /\ DOMAIN query.left = 1..Len(query.left)
          /\ \A i \in 1..Len(query.left) : query.left[i] \in Channel \X Payments
      BY <1>2
    <3>2. /\ \A x \in ids : \E i \in 1..Len(query.left) : query.left[i][2] = x
          /\ \A i \in 1..Len(query.left) : query.left[i][2] \in ids
      BY <2>1, <3>1 DEF Range
    <3>3. PICK f : f = [i \in 1..Len(query.left) |-> query.left[i][2]]
      OBVIOUS
    <3>4. f \in Surjection(1..Len(query.left), ids)
      BY <3>2, <3>3 DEF Surjection
    <3>5. IsFiniteSet(1..Len(query.left))
      BY <3>1, FS_Interval
    <3>6. IsFiniteSet(ids)
      BY <3>4, <3>5, FS_Surjection
    <3>7. ids \subseteq Payments
      BY <3>1, <3>2
    <3>8. QED
      BY <3>6, <3>7
  <2>4. IsFiniteSet(found) /\ \A v \in found : v \in Payments /\ store.channels[v] \in Channel
    <3>1. found \subseteq ids
      BY <2>2
    <3>2. IsFiniteSet(found)
      BY <2>3, <3>1, FS_Subset
    <3>3. QED
      BY <1>1, <2>2, <2>3, <3>2 DEF TypeOK, ChannelIds
  <2>5. PICK left : left = [i \in 1 .. Cardinality(found) |->
                              <<store.channels[SetToSeq(found)[i]], SetToSeq(found)[i]>>]
    OBVIOUS
  <2>6. left \in Seq(Channel \X Payments)
    <3>1. /\ Cardinality(found) \in Nat
          /\ \A i \in 1..Cardinality(found) : SetToSeq(found)[i] \in found
      BY <2>4, SetInOrder
    <3>2. left \in [1..Cardinality(found) -> Channel \X Payments]
      BY <2>4, <2>5, <3>1
    <3>3. QED
      BY <3>1, <3>2, SeqDef
  <2>7. Reads(Continue(left))
    BY <1>4, <2>1, <2>2, <2>5 DEF GetChannels, ChannelsByIds
  <2>8. ASSUME NEW l \in Range(left) PROVE Follows(witness.heard[l[2]], l[1])
    <3>1. PICK i \in DOMAIN left : l = left[i]
      BY DEF Range
    <3>2. PICK v : v = SetToSeq(found)[i]
      OBVIOUS
    <3>3. v \in found /\ l = <<store.channels[v], v>>
      BY <2>4, <2>5, <3>1, <3>2, SetInOrder
    <3>4. PICK c \in Channel : c = store.channels[v]
      BY <2>4, <3>3
    <3>5. v \in Payments /\ HeardInv
      BY <2>4, <3>3 DEF InductiveInv
    <3>6. Follows(witness.heard[v], c)
      BY <1>1, <3>4, <3>5, StoredFollows
    <3>7. QED
      BY <3>3, <3>4, <3>6
  <2>9. QED
    BY <1>1, <2>6, <2>7, <2>8, Continued
<1>5. QED
  BY <1>3, <1>4

\* The first of a sequence and the others are in it.
LEMMA HeadTailRange ==
  ASSUME NEW S, NEW s \in Seq(S), s # <<>>
  PROVE  Head(s) \in Range(s) /\ \A x \in Range(Tail(s)) : x \in Range(s)
<1>1. /\ Len(s) \in Nat /\ DOMAIN s = 1..Len(s) /\ Len(s) > 0 /\ Head(s) = s[1]
  BY EmptySeq, LenProperties, HeadTailProperties
<1>2. /\ Tail(s) \in Seq(S) /\ Len(Tail(s)) = Len(s) - 1
      /\ \A i \in 1..Len(Tail(s)) : Tail(s)[i] = s[i + 1]
  BY HeadTailProperties
<1>3. DOMAIN Tail(s) = 1..Len(s) - 1 /\ \A i \in DOMAIN Tail(s) : i + 1 \in DOMAIN s
  BY <1>1, <1>2
<1>4. Head(s) \in Range(s)
  BY <1>1 DEF Range
<1>5. \A x \in Range(Tail(s)) : x \in Range(s)
  BY <1>2, <1>3 DEF Range
<1>6. QED
  BY <1>4, <1>5

\* What getVoucherBalance told, and the next channel.
LEMMA ToldKeeps ==
  ASSUME InductiveInv, query # Idle, query.left # <<>>,
         NEW paid \in Amount, NEW remaining \in Amount, paid + remaining <= Total,
         Reads(Told(paid, remaining)),
         \A l \in Range(query.left) : Follows(witness.heard[l[2]], l[1]),
         FollowsPaid(witness.heard[First[2]], paid)
  PROVE  InductiveInv'
<1>1. TypeOK
  BY DEF InductiveInv
<1>2. /\ query.left \in Seq(Channel \X Payments) /\ query.answer \in Seq(Info)
      /\ Infos = Range(query.answer)
  BY <1>1, QueryIs
<1>3. First \in Channel \X Payments /\ Tail(query.left) \in Seq(Channel \X Payments)
  BY <1>2, HeadTailProperties DEF First
<1>4. PICK info : info = PaymentInfo(First[2], First[1], paid, remaining)
  OBVIOUS
<1>5. PICK c \in Channel, v \in Payments : First[1] = c /\ First[2] = v
  BY <1>3
<1>6. /\ info \in Info /\ info.paid + info.remaining <= Total
      /\ info.of = v /\ info.status = PaymentStatus(c) /\ info.paid = paid
  <2>1. PaymentStatus(c) \in Status /\ v \in ChannelIds
    BY <1>5, StatusIs, PaymentIs
  <2>2. QED
    BY <1>4, <1>5, <2>1 DEF PaymentInfo, Info
<1>7. PICK left \in Seq(Channel \X Payments) : left = Tail(query.left)
  BY <1>3
<1>8. PICK next \in Query : next = Continue(left)
  BY <1>1, ContinueIs
<1>9. /\ next.asks = query.asks /\ next.of = query.of /\ next.at \in {"answered", "registered"}
      /\ next.left = left /\ next.answer = query.answer
      /\ next.at = "registered" => left # <<>>
  BY <1>1, <1>8, ContinueIs
<1>10. PICK answer : answer = Append(next.answer, info)
  OBVIOUS
<1>11. answer \in Seq(Info) /\ \A x \in Range(answer) : x \in Infos \/ x = info
  <2>1. answer = Append(query.answer, info)
    BY <1>9, <1>10
  <2>2. /\ answer \in Seq(Info) /\ Len(answer) = Len(query.answer) + 1
        /\ \A i \in 1..Len(query.answer) : answer[i] = query.answer[i]
        /\ answer[Len(query.answer) + 1] = info
    BY <1>2, <1>6, <2>1, AppendProperties
  <2>3. Len(query.answer) \in Nat /\ DOMAIN query.answer = 1..Len(query.answer)
        /\ DOMAIN answer = 1..Len(query.answer) + 1
    BY <1>2, <2>2
  <2>4. \A i \in DOMAIN answer : i \in DOMAIN query.answer \/ i = Len(query.answer) + 1
    BY <2>3
  <2>5. QED
    BY <1>2, <2>2, <2>3, <2>4 DEF Range
<1>12. PICK q \in Query : q = [next EXCEPT !.answer = answer]
  BY <1>11 DEF Query
<1>13. /\ q.asks = query.asks /\ q.of = query.of /\ q.at \in {"answered", "registered"}
       /\ q.left = left /\ q.answer = answer
       /\ q.at = "registered" => left # <<>>
  BY <1>9, <1>12 DEF Query
<1>14. Reads(q)
  <2>1. Told(paid, remaining) = [next EXCEPT !.answer = Append(@, info)]
    BY <1>4, <1>7, <1>8 DEF Told
  <2>2. Told(paid, remaining) = q
    BY <1>8, <1>10, <1>12, <2>1 DEF Query
  <2>3. QED
    BY <2>2
<1>15. First \in Range(query.left) /\ \A l \in Range(left) : l \in Range(query.left)
  BY <1>2, <1>7, HeadTailRange DEF First
<1>16. IsBehind(witness.heard[info.of], info)
  <2>1. Follows(witness.heard[v], c)
    BY <1>5, <1>15
  <2>2. QED
    BY <1>5, <1>6, <2>1 DEF IsBehind, Follows, FollowsPaid
<1>17. \A l \in Range(q.left) : Follows(witness.heard[l[2]], l[1])
  BY <1>13, <1>15
<1>18. \A x \in Range(q.answer) :
         \/ x \in Infos \/ x.of \notin Payments
         \/ x.paid + x.remaining <= Total /\ IsBehind(witness.heard[x.of], x)
  BY <1>6, <1>11, <1>13, <1>16
<1>19. QED
  BY <1>13, <1>14, <1>17, <1>18, ReadKeeps

\* getVoucherBalance: whether the channel is registered, what was paid, and what
\* remains.
LEMMA VoucherReadsKeep ==
  ASSUME InductiveInv, ChannelRegistered \/ ReadPaid \/ ReadRemaining
  PROVE  InductiveInv'
<1>1. /\ TypeOK /\ query # Idle /\ query.left # <<>>
      /\ query.at \in {"paid", "remaining"} => store.vouchers[First[2]] # None
      /\ query.at = "remaining" => query.paid <= store.vouchers[First[2]]
      /\ \A l \in Range(query.left) : Follows(witness.heard[l[2]], l[1])
      /\ query.at = "remaining" => FollowsPaid(witness.heard[First[2]], query.paid)
      /\ HeardInv
  BY DEF InductiveInv, ChannelRegistered, ReadPaid, ReadRemaining, At, VoucherInv, HeardInv
<1>2. /\ query \in Query /\ query.left \in Seq(Channel \X Payments) /\ query.paid \in Amount
      /\ Infos = Range(query.answer)
  BY <1>1, QueryIs
<1>3. PICK v \in Payments : v = First[2] /\ v = Head(query.left)[2]
  <2>1. First \in Channel \X Payments /\ First = Head(query.left)
    BY <1>1, <1>2, HeadTailProperties DEF First
  <2>2. QED
    BY <2>1
<1>4. store.vouchers[v] # None => store.vouchers[v] \in Amount
  BY <1>1 DEF TypeOK
<1>5. CASE ChannelRegistered /\ store.vouchers[v] = None
  <2>1. Reads(Told(0, 0))
    BY <1>3, <1>5 DEF ChannelRegistered
  <2>2. 0 \in Amount /\ 0 + 0 <= Total
    BY TotalAssumption DEF Amount
  <2>3. FollowsPaid(witness.heard[First[2]], 0)
    BY <1>1, <1>3, <1>5, HeardSays DEF FollowsPaid
  <2>4. QED
    BY <1>1, <2>1, <2>2, <2>3, ToldKeeps
<1>6. CASE ChannelRegistered /\ store.vouchers[v] # None
  <2>1. PICK q \in Query : q = [query EXCEPT !.at = "paid"]
    BY <1>2 DEF Query
  <2>2. /\ q.asks = query.asks /\ q.of = query.of /\ q.at = "paid" /\ q.left = query.left
        /\ q.answer = query.answer
    BY <1>2, <2>1 DEF Query
  <2>3. Reads(q)
    BY <1>3, <1>6, <2>1 DEF ChannelRegistered
  <2>4. QED
    BY <1>1, <1>2, <1>3, <1>6, <2>2, <2>3, ReadKeeps
<1>7. CASE ReadPaid
  <2>1. query.at = "paid" /\ store.vouchers[v] # None /\ store.vouchers[v] \in Amount
    BY <1>1, <1>3, <1>4, <1>7 DEF ReadPaid, At
  <2>2. PICK q \in Query : q = [query EXCEPT !.paid = store.vouchers[v], !.at = "remaining"]
    BY <1>2, <2>1 DEF Query
  <2>3. /\ q.asks = query.asks /\ q.of = query.of /\ q.at = "remaining" /\ q.left = query.left
        /\ q.answer = query.answer /\ q.paid = store.vouchers[v]
    BY <1>2, <2>2 DEF Query
  <2>4. Reads(q)
    BY <1>3, <1>7, <2>2 DEF ReadPaid
  <2>5. q.paid <= store.vouchers[v]
    BY <2>1, <2>3, TotalAssumption DEF Amount
  <2>6. FollowsPaid(witness.heard[Head(q.left)[2]], q.paid)
    <3>1. FollowsPaid(witness.heard[v], store.vouchers[v])
      BY <1>1, HeardSays DEF FollowsPaid
    <3>2. QED
      BY <1>3, <2>3, <3>1
  <2>7. QED
    BY <1>1, <1>2, <1>3, <2>1, <2>3, <2>4, <2>5, <2>6, ReadKeeps
<1>8. CASE ReadRemaining
  <2>1. /\ query.at = "remaining" /\ store.vouchers[v] \in Amount
        /\ query.paid <= store.vouchers[v]
    BY <1>1, <1>3, <1>4, <1>8 DEF ReadRemaining, At
  <2>2. PICK remaining : remaining = Total - store.vouchers[v]
    OBVIOUS
  <2>3. remaining \in Amount /\ query.paid + remaining <= Total
    BY <1>2, <2>1, <2>2, TotalAssumption DEF Amount
  <2>4. Reads(Told(query.paid, remaining))
    BY <1>3, <1>8, <2>2 DEF ReadRemaining
  <2>5. FollowsPaid(witness.heard[First[2]], query.paid)
    BY <1>1, <2>1
  <2>6. QED
    BY <1>1, <1>2, <2>3, <2>4, <2>5, ToldKeeps
<1>9. QED
  BY <1>5, <1>6, <1>7, <1>8

\* The answer is returned; the process stops.
LEMMA EndKeeps ==
  ASSUME InductiveInv, Return \/ Crash
  PROVE  InductiveInv'
<1>1. query' = Idle /\ store' = store /\ witness' = witness /\ (todo' = todo \/ todo' = <<>>)
  BY DEF Return, Reads, Crash
<1>2. VoucherInv' /\ BalancesAddUp' /\ HeardInv' /\ AnswersFollowEvents' /\ KnownInv'
  BY <1>1 DEF VoucherInv, BalancesAddUp, HeardInv, AnswersFollowEvents, Infos, KnownInv
<1>3. witness' \in Witness
  BY <1>1 DEF InductiveInv, TypeOK
<1>4. CASE todo' = todo
  BY <1>1, <1>2, <1>3, <1>4, QueryKeeps
<1>5. CASE todo' = <<>>
  <2>1. todo' \in Seq(Writes) /\ Range(todo') = {}
    BY <1>5 DEF Range
  <2>2. TypeOK'
    BY <1>1, <2>1 DEF InductiveInv, TypeOK
  <2>3. OrderInv'
    BY <1>5 DEF OrderInv, IsOrderly
  <2>4. StoreInv'
    BY <1>1 DEF InductiveInv, StoreInv, IsMet
  <2>5. FormInv'
    BY <2>1 DEF FormInv, Pending
  <2>6. ClosedInv' /\ PaidInv'
    <3>1. Pending' = {} /\ DOMAIN todo' = {}
      BY <1>5, <2>1 DEF Pending
    <3>2. store'.objectives[DirectDefunding] \in Closing => store'.consensus[Ledger] = None
      BY <1>1 DEF InductiveInv, ClosedInv
    <3>3. QED
      BY <3>1, <3>2 DEF ClosedInv, PaidInv
  <2>7. QED
    BY <1>2, <2>2, <2>3, <2>4, <2>5, <2>6 DEF InductiveInv
<1>6. QED
  BY <1>1, <1>4, <1>5

-----------------------------------------------------------------------------
(***************************************************************************)
(* The theorems.                                                           *)
(***************************************************************************)
\* An empty store and no query.
LEMMA InitKeeps ==
  ASSUME Init
  PROVE  InductiveInv
<1>1. /\ DOMAIN store = {"objectives", "channels", "consensus", "owner", "vouchers", "notices"}
      /\ store.objectives = [o \in Objectives |-> None]
      /\ store.channels = [c \in ChannelIds |-> None]
      /\ store.consensus = [c \in {Ledger} |-> None]
      /\ store.owner = [c \in ChannelIds |-> None]
      /\ store.vouchers = [v \in Payments |-> None]
      /\ store.notices = [c \in ChannelIds |-> None]
      /\ todo = <<>> /\ query = Idle
  BY DEF Init
<1>2. witness \in Witness
  BY DEF Init, Witness
<1>3. todo \in Seq(Writes) /\ Range(todo) = {} /\ DOMAIN todo = {}
  BY <1>1 DEF Range
<1>4. TypeOK
  BY <1>1, <1>2, <1>3 DEF TypeOK
<1>5. \A table \in DOMAIN store : \A key \in DOMAIN store[table] : store[table][key] = None
  BY <1>1
<1>6. StoreInv
  <2>1. Funded(store) = {}
    BY <1>1 DEF Funded
  <2>2. QED
    BY <1>5, <2>1, FS_EmptySet DEF StoreInv
<1>7. OrderInv
  BY <1>3 DEF OrderInv, IsOrderly
<1>8. FormInv
  BY <1>3 DEF FormInv, Pending
<1>9. ClosedInv /\ PaidInv
  <2>1. store.objectives[DirectDefunding] = None
    BY <1>1 DEF Objectives
  <2>2. "approved" # None /\ "completed" # None
    BY NoneAssumption DEF Standing
  <2>3. QED
    BY <1>3, <2>1, <2>2 DEF ClosedInv, PaidInv, Pending, Closing
<1>10. VoucherInv /\ BalancesAddUp /\ HeardInv /\ AnswersFollowEvents /\ KnownInv
  BY <1>1 DEF VoucherInv, BalancesAddUp, HeardInv, AnswersFollowEvents, Infos, KnownInv
<1>11. QED
  BY <1>4, <1>6, <1>7, <1>8, <1>9, <1>10 DEF InductiveInv

\* Every step keeps the inductive invariant.
LEMMA StepKeeps ==
  ASSUME InductiveInv, [Next]_vars
  PROVE  InductiveInv'
<1>1. CASE RequestLedger
  BY <1>1, RequestLedgerKeeps
<1>2. CASE JoinLedger
  BY <1>2, JoinLedgerKeeps
<1>3. CASE LedgerFunded
  BY <1>3, LedgerFundedKeeps
<1>4. CASE RequestClosing
  BY <1>4, RequestClosingKeeps
<1>5. CASE AnswerClosing
  BY <1>5, AnswerClosingKeeps
<1>6. CASE LedgerFinalized \/ LedgerWithdrawn
  BY <1>6, LedgerClosedKeeps
<1>7. ASSUME NEW v \in Payments,
             \/ StartPayment(v) \/ PaymentGuaranteed(v) \/ PaymentFunded(v) \/ Pay(v)
             \/ ClosePayment(v) \/ PaymentFinalized(v) \/ PaymentSettled(v)
      PROVE  InductiveInv'
  BY <1>7, StartPaymentKeeps, PaymentGuaranteedKeeps, PaymentFundedKeeps, PayKeeps,
     ClosePaymentKeeps, PaymentFinalizedKeeps, PaymentSettledKeeps
<1>8. CASE Write
  BY <1>8, WriteKeeps
<1>9. CASE Crash \/ Return
  BY <1>9, EndKeeps
<1>10. ASSUME NEW kind \in Kinds, NEW of \in ChannelIds, Ask(kind, of)
       PROVE  InductiveInv'
  BY <1>10, AskKeeps
<1>11. CASE GetChannelById
  BY <1>11, GetChannelByIdKeeps
<1>12. CASE GetConsensusChannelById
  BY <1>12, GetConsensusChannelByIdKeeps
<1>13. CASE GetAllConsensusChannels
  BY <1>13, GetAllConsensusChannelsKeeps
<1>14. CASE GetChannels
  BY <1>14, GetChannelsKeeps
<1>15. CASE ChannelRegistered \/ ReadPaid \/ ReadRemaining
  BY <1>15, VoucherReadsKeep
<1>16. CASE UNCHANGED vars
  <2>1. store' = store /\ todo' = todo /\ query' = query /\ witness' = witness
    BY <1>16 DEF vars
  <2>2. query' \in Query \cup {Idle} /\ witness' \in Witness
    BY <2>1 DEF InductiveInv, TypeOK
  <2>3. VoucherInv' /\ BalancesAddUp' /\ AnswersFollowEvents'
    BY <2>1 DEF InductiveInv, VoucherInv, BalancesAddUp, AnswersFollowEvents, Infos, First
  <2>4. HeardInv'
    <3>1. \A need : IsMet(need)' <=> IsMet(need)
      BY <2>1 DEF IsMet
    <3>2. QED
      BY <2>1, <3>1 DEF InductiveInv, HeardInv, First
  <2>5. KnownInv'
    BY <2>1 DEF InductiveInv, KnownInv, IsBeingClosed
  <2>6. QED
    BY <2>1, <2>2, <2>3, <2>4, <2>5, QueryKeeps
<1>17. QED
  BY <1>1, <1>2, <1>3, <1>4, <1>5, <1>6, <1>7, <1>8, <1>9, <1>10, <1>11, <1>12, <1>13, <1>14,
     <1>15, <1>16 DEF Next

\* What the handlers have left to write is in order, and the store and the query are
\* what those writes have come to.
THEOREM Invariance == Spec => []InductiveInv
<1>1. Init => InductiveInv
  BY InitKeeps
<1>2. InductiveInv /\ [Next]_vars => InductiveInv'
  BY StepKeeps
<1>3. QED
  BY <1>1, <1>2, PTL DEF Spec

\* Tables hold what their keys name, and handlers write what tables hold.
THEOREM TypeCorrectness == Spec => []TypeOK
<1>1. InductiveInv => TypeOK
  BY DEF InductiveInv
<1>2. QED
  BY <1>1, Invariance, PTL

\* Wherever a handler is cut short, nothing in the store refers to what is not
\* there (setObjective, registerPaymentChannel).
THEOREM NothingDanglesHolds == Spec => []NothingDangles
<1>1. InductiveInv => NothingDangles
  <2>1. SUFFICES ASSUME InductiveInv PROVE NothingDangles
    OBVIOUS
  <2>2. TypeOK /\ StoreInv
    BY <2>1 DEF InductiveInv
  <2>3. ASSUME NEW c \in ChannelIds, store.owner[c] # None
        PROVE  store.objectives[store.owner[c]] # None
    <3>1. "owner" \in DOMAIN store /\ c \in DOMAIN store["owner"]
      BY <2>2, <2>3 DEF TypeOK
    <3>2. Least("objectives", store.owner[c], 1) \in Needs(Put("owner", c, store["owner"][c]))
      BY <2>3 DEF Needs, Put
    <3>3. IsMet(Least("objectives", store.owner[c], 1))
      BY <2>2, <2>3, <3>1, <3>2 DEF StoreInv
    <3>4. Level("objectives", store.objectives[store.owner[c]]) >= 1
      BY <3>3 DEF IsMet, Least
    <3>5. QED
      BY <3>4 DEF Level
  <2>4. ASSUME NEW v \in Funded(store) PROVE store.channels[v] # None
    BY <2>2, <2>4, ConsensusSays DEF Funded
  <2>5. ASSUME NEW v \in Payments, store.channels[v] # None PROVE store.vouchers[v] # None
    BY <2>2, <2>5, ChannelSays, PaymentIs, NoneAssumption
  <2>6. QED
    BY <2>3, <2>4, <2>5 DEF NothingDangles
<1>2. QED
  BY <1>1, Invariance, PTL

\* What was paid and what remains, read one after the other, never exceed what the
\* payer put in (getVoucherBalance).
THEOREM BalancesAddUpHolds == Spec => []BalancesAddUp
<1>1. InductiveInv => BalancesAddUp
  BY DEF InductiveInv
<1>2. QED
  BY <1>1, Invariance, PTL

\* A ledger that is in the store when a query begins is found, in whichever form,
\* until somebody asks to close it (spawnConsensusChannelIfDirectFundObjective,
\* getLedgerChannelInfo).
THEOREM OpenLedgerIsFoundHolds == Spec => []OpenLedgerIsFound
<1>1. InductiveInv => OpenLedgerIsFound
  BY DEF InductiveInv, OpenLedgerIsFound, KnownInv, At
<1>2. QED
  BY <1>1, Invariance, PTL

\* No step but a write touches the store.
LEMMA OnlyWritesWrite ==
  ASSUME [Next]_vars
  PROVE  Write \/ store' = store
<1>1. ASSUME NEW writes, Begin(writes) PROVE store' = store
  BY <1>1 DEF Begin
<1>2. CASE RequestLedger \/ JoinLedger \/ LedgerFunded
  BY <1>1, <1>2 DEF RequestLedger, JoinLedger, LedgerFunded
<1>3. CASE RequestClosing \/ AnswerClosing \/ LedgerFinalized \/ LedgerWithdrawn
  BY <1>1, <1>3 DEF RequestClosing, AnswerClosing, LedgerFinalized, LedgerWithdrawn
<1>4. CASE \E v \in Payments : \/ StartPayment(v) \/ PaymentGuaranteed(v) \/ PaymentFunded(v)
                               \/ Pay(v) \/ ClosePayment(v) \/ PaymentFinalized(v)
                               \/ PaymentSettled(v)
  BY <1>1, <1>4 DEF StartPayment, PaymentGuaranteed, PaymentFunded, Pay, ClosePayment,
     PaymentFinalized, PaymentSettled
<1>5. CASE Crash \/ \E kind \in Kinds, of \in ChannelIds : Ask(kind, of)
  BY <1>5 DEF Crash, Ask
<1>6. ASSUME NEW q, Reads(q) PROVE store' = store
  BY <1>6 DEF Reads
<1>7. CASE \/ GetChannelById \/ GetConsensusChannelById \/ GetAllConsensusChannels
           \/ GetChannels \/ ChannelRegistered \/ ReadPaid \/ ReadRemaining \/ Return
  BY <1>6, <1>7 DEF GetChannelById, GetConsensusChannelById, GetAllConsensusChannels,
     GetChannels, ChannelRegistered, ReadPaid, ReadRemaining, Return
<1>8. CASE UNCHANGED vars
  BY <1>8 DEF vars
<1>9. QED
  BY <1>2, <1>3, <1>4, <1>5, <1>7, <1>8 DEF Next

\* An answer about a payment channel is never behind what the engine had told of
\* the channel when the query was made (getPaymentChannelInfo,
\* getPaymentChannelsByLedger, createVoucher).
THEOREM AnswersFollowEventsHolds == Spec => []AnswersFollowEvents
<1>1. InductiveInv => AnswersFollowEvents
  BY DEF InductiveInv
<1>2. QED
  BY <1>1, Invariance, PTL

\* The engine's updates of a channel take back neither its status nor, while the
\* channel is not complete, the amount paid (generateNotifications,
\* handlePaymentRequest, handleMessage).
THEOREM EventsAdvanceHolds == Spec => EventsAdvance
<1> DEFINE Advances ==
      \A c \in ChannelIds :
        LET old == store.notices[c]
            new == store'.notices[c]
        IN old # None /\ new # old =>
             /\ Rank(old.status) <= Rank(new.status)
             /\ c \in Payments /\ PaidByVouchers(new) => old.paid <= new.paid
<1>1. InductiveInv /\ [Next]_vars => Advances
  <2>1. SUFFICES ASSUME InductiveInv, [Next]_vars, NEW c \in ChannelIds, NEW old, NEW new,
                        old = store.notices[c], new = store'.notices[c],
                        old # None, new # old
                 PROVE  /\ Rank(old.status) <= Rank(new.status)
                        /\ c \in Payments /\ PaidByVouchers(new) => old.paid <= new.paid
    OBVIOUS
  <2>2. TypeOK /\ StoreInv /\ OrderInv /\ PaidInv
    BY <2>1 DEF InductiveInv
  <2>3. Write
    BY <2>1, OnlyWritesWrite
  <2>4. PICK h \in Writes : h = Head(todo) /\ h \in Pending
    BY <2>2, <2>3, WritesLeft
  <2>5. store' = After(h) /\ Rises(h, {})
    BY <2>2, <2>3, <2>4, WritesLeft, FirstIsReady
  <2>6. store'.notices[c] = IF h.table = "notices" /\ h.key = c THEN h.value
                            ELSE store.notices[c]
    BY <2>2, <2>5, WriteIs DEF TypeOK
  <2>7. h.table = "notices" /\ h.key = c /\ h.value = new
    BY <2>1, <2>6
  <2>8. new \in Info /\ new # None /\ Rank(new.status) \in 1..4
    <3>1. new \in Info
      BY <2>4, <2>7 DEF Writes
    <3>2. new.status \in Status
      BY <3>1 DEF Info
    <3>3. QED
      BY <3>1, <3>2, NoneAssumption, RankIs
  <2>9. Rank(old.status) <= Rank(new.status)
    <3>1. Level("notices", store.notices[c]) <= Level("notices", h.value)
      BY <2>5, <2>7 DEF Rises, OnlyRises
    <3>2. /\ Level("notices", old) = Rank(old.status)
          /\ Level("notices", new) = Rank(new.status)
      BY <2>1, <2>8 DEF Level
    <3>3. QED
      BY <2>1, <2>7, <3>1, <3>2
  <2>10. ASSUME c \in Payments, PaidByVouchers(new)
         PROVE  old.paid <= new.paid
    <3>1. Rank(old.status) \in 1..4 /\ old \in Info
      BY <2>1, <2>2, NoticeSays DEF TypeOK
    <3>2. PaidByVouchers(old)
      <4>1. Rank(new.status) # 4 /\ ~ Intermediary
        <5>1. new.status \in Status /\ new.status # "Complete" /\ ~ Intermediary
          BY <2>8, <2>10 DEF Info, PaidByVouchers
        <5>2. QED
          BY <5>1, RankIs
      <4>2. Rank(old.status) # 4
        BY <2>8, <2>9, <3>1, <4>1
      <4>3. QED
        BY <4>1, <4>2, RankIs DEF PaidByVouchers
    <3>3. store.vouchers[c] # None /\ old.paid <= store.vouchers[c]
      BY <2>1, <2>2, <2>10, <3>2, NoticeSays
    <3>4. store.vouchers[c] <= new.paid
      <4>1. store["vouchers"][c] \in Said("vouchers", h.key)
        BY <2>7 DEF Said
      <4>2. \A paid \in Said("vouchers", h.key) : paid # None => paid <= h.value.paid
        BY <2>2, <2>4, <2>7, <2>10 DEF PaidInv
      <4>3. QED
        BY <2>7, <3>3, <4>1, <4>2
    <3>5. old.paid \in Nat /\ store.vouchers[c] \in Nat /\ new.paid \in Nat
      <4>1. old.paid \in Amount /\ new.paid \in Amount
        BY <2>8, <3>1 DEF Info
      <4>2. store.vouchers[c] \in Amount
        BY <2>2, <2>10, <3>3 DEF TypeOK
      <4>3. QED
        BY <4>1, <4>2, TotalAssumption DEF Amount
    <3>6. QED
      BY <3>3, <3>4, <3>5
  <2>11. QED
    BY <2>9, <2>10
<1>2. Spec => [][Advances]_vars
  <2> HIDE DEF Advances
  <2>1. QED
    BY <1>1, Invariance, PTL DEF Spec
<1>3. QED
  BY <1>2 DEF EventsAdvance
=============================================================================
