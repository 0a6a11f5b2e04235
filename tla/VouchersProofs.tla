---------------------------- MODULE VouchersProofs ----------------------------
(***************************************************************************)
(* Proofs about Vouchers, for every balance and every bound: when the      *)
(* calls of a party do not overlap, payments add up, credits add up, and   *)
(* the largest voucher is never replaced by an older one.                  *)
(***************************************************************************)
EXTENDS Vouchers, TLAPS

\* The run loop is the only caller.
Serialized == \A c, d \in Callers : c = d

\* The initial state satisfies the inductive invariant.
LEMMA InitInv == Init => InductiveInv
<1> SUFFICES ASSUME Init PROVE InductiveInv
  OBVIOUS
<1>1. Payer \in Parties /\ Payee \in Parties
  BY DEF Parties
<1>2. Largest(Payer) = 0 /\ Largest(Payee) = 0
  BY <1>1 DEF Init, Largest
<1>3. TypeOK
  BY DEF Init, TypeOK
<1>4. CallsAreFresh /\ VouchersArePromised
  BY <1>1 DEF Init, CallsAreFresh, VouchersArePromised
<1>5. PayeeNeverAhead /\ PaymentsAddUp /\ CreditsAddUp
  BY <1>2, StartingBalanceAssumption
     DEF Init, PayeeNeverAhead, PaymentsAddUp, CreditsAddUp
<1>6. QED
  BY <1>3, <1>4, <1>5 DEF InductiveInv

\* The two parties differ, and a total is a number.
LEMMA LargestType ==
  ASSUME TypeOK
  PROVE  /\ Payer \in Parties /\ Payee \in Parties /\ Payer # Payee
         /\ \A p \in Parties : Largest(p) \in Nat
BY UnregisteredAssumption DEF TypeOK, Parties, Payer, Payee, Largest, Info

\* Steps that leave the stored totals alone keep what relates them.
LEMMA TotalsUntouched ==
  ASSUME InductiveInv,
         \A p \in Parties : Largest(p)' = Largest(p),
         UNCHANGED <<paid, credited>>
  PROVE  PayeeNeverAhead' /\ PaymentsAddUp' /\ CreditsAddUp'
BY DEF InductiveInv, PayeeNeverAhead, PaymentsAddUp, CreditsAddUp, Parties

\* Register stores a voucher of nothing for a channel that had none.
LEMMA RegisterStep ==
  ASSUME InductiveInv, NEW p \in Parties, Register(p)
  PROVE  InductiveInv'
<1>1. TypeOK /\ CallsAreFresh /\ VouchersArePromised
  BY DEF InductiveInv
<1>2. [largest |-> 0] \in Info /\ [largest |-> 0] # Unregistered
  BY UnregisteredAssumption DEF Info
<1>3. TypeOK'
  BY <1>1, <1>2 DEF Register, TypeOK
<1>4. \A q \in Parties : Largest(q)' = Largest(q)
  BY <1>1, <1>2 DEF Register, TypeOK, Largest
<1>5. CallsAreFresh'
  BY <1>1, <1>2 DEF Register, TypeOK, CallsAreFresh
<1>6. VouchersArePromised'
  BY <1>1, <1>4 DEF Register, VouchersArePromised, Parties
<1>7. UNCHANGED <<paid, credited>>
  BY DEF Register
<1>8. QED
  BY <1>3, <1>4, <1>5, <1>6, <1>7, TotalsUntouched DEF InductiveInv

\* A restart drops the calls in progress, and the network may drop a voucher:
\* neither touches what is stored.
LEMMA ForgetStep ==
  ASSUME InductiveInv,
         \/ \E p \in Parties : Restart(p)
         \/ \E v \in network : Lose(v)
  PROVE  InductiveInv'
<1>1. TypeOK /\ CallsAreFresh /\ VouchersArePromised
  BY DEF InductiveInv
<1>2. UNCHANGED <<info, payments, paid, credited>> /\ network' \subseteq network
  BY DEF Restart, Lose
<1>3. \A p \in Parties, c \in Callers : call'[p][c] \in {call[p][c], Idle}
  BY <1>1 DEF Restart, Lose, TypeOK
<1>4. \A q \in Parties : Largest(q)' = Largest(q)
  BY <1>2 DEF Largest
<1>5. call' \in [Parties -> [Callers -> Call \cup {Idle}]]
  BY <1>1 DEF Restart, Lose, TypeOK
<1>6. TypeOK'
  BY <1>1, <1>2, <1>5 DEF TypeOK
<1>7. CallsAreFresh' /\ VouchersArePromised'
  BY <1>1, <1>2, <1>3, <1>4 DEF CallsAreFresh, VouchersArePromised, Parties
<1>8. QED
  BY <1>2, <1>4, <1>6, <1>7, TotalsUntouched DEF InductiveInv

\* The read half of pay and receive holds what the store holds.
LEMMA StartStep ==
  ASSUME InductiveInv,
         \/ \E p \in Parties, c \in Callers, amount \in Amounts :
              PayStart(p, c, amount)
         \/ \E c \in Callers, v \in network : ReceiveStart(Payee, c, v)
  PROVE  InductiveInv'
<1>1. TypeOK /\ CallsAreFresh /\ VouchersArePromised
  BY DEF InductiveInv
<1>2. UNCHANGED <<info, paid, credited>> /\ network' \subseteq network
      /\ payments' \in Nat
  BY <1>1 DEF PayStart, ReceiveStart, TypeOK
<1>3. \A q \in Parties : Largest(q)' = Largest(q)
  BY <1>2 DEF Largest
<1>4. Payer \in Parties /\ Payee \in Parties /\ Payer # Payee
  BY <1>1, LargestType
<1>5. \/ UNCHANGED call
      \/ \E p \in Parties, c \in Callers, k \in Call :
           /\ call' = [call EXCEPT ![p][c] = k]
           /\ info[p] # Unregistered /\ k.info = info[p]
           /\ \/ k.method = "pay"
              \/ p = Payee /\ \E v \in network : k.amount = v.amount
  <2>1. CASE \E p \in Parties, c \in Callers, amount \in Amounts :
               PayStart(p, c, amount)
    <3>1. PICK p \in Parties, c \in Callers, amount \in Amounts :
                 PayStart(p, c, amount)
      BY <2>1
    <3> DEFINE k == [method |-> "pay", amount |-> amount, info |-> info[p]]
    <3>2. /\ call' = [call EXCEPT ![p][c] = k] /\ info[p] # Unregistered
      BY <3>1 DEF PayStart, ReadInfo
    <3>3. k \in Call
      BY <1>1, <3>2, StartingBalanceAssumption DEF TypeOK, Call, Amounts
    <3>4. QED
      BY <3>2, <3>3
  <2>2. CASE \E c \in Callers, v \in network : ReceiveStart(Payee, c, v)
    <3>1. PICK c \in Callers, v \in network : ReceiveStart(Payee, c, v)
      BY <2>2
    <3> DEFINE k == [method |-> "receive", amount |-> v.amount,
                     info |-> info[Payee]]
    <3>2. CASE ReadInfo(Payee, c, "receive", v.amount)
      <4>1. call' = [call EXCEPT ![Payee][c] = k] /\ info[Payee] # Unregistered
        BY <3>2 DEF ReadInfo
      <4>2. k \in Call
        BY <1>1, <1>4, <4>1 DEF TypeOK, Call, Voucher
      <4>3. QED
        BY <1>4, <4>1, <4>2
    <3>3. QED
      BY <3>1, <3>2 DEF ReceiveStart
  <2>3. QED
    BY <2>1, <2>2
<1>6. CASE UNCHANGED call
  <2>1. TypeOK'
    BY <1>1, <1>2, <1>6 DEF TypeOK
  <2>2. CallsAreFresh' /\ VouchersArePromised'
    BY <1>1, <1>2, <1>3, <1>4, <1>6 DEF CallsAreFresh, VouchersArePromised
  <2>3. QED
    BY <1>2, <1>3, <2>1, <2>2, TotalsUntouched DEF InductiveInv
<1>7. ASSUME NEW p \in Parties, NEW c \in Callers, NEW k \in Call,
             call' = [call EXCEPT ![p][c] = k],
             info[p] # Unregistered, k.info = info[p],
             \/ k.method = "pay"
             \/ p = Payee /\ \E v \in network : k.amount = v.amount
      PROVE  InductiveInv'
  <2>1. call' \in [Parties -> [Callers -> Call \cup {Idle}]]
    BY <1>1, <1>7 DEF TypeOK
  <2>2. TypeOK'
    BY <1>1, <1>2, <2>1 DEF TypeOK
  <2>3. \A q \in Parties, d \in Callers :
          call'[q][d] = IF q = p /\ d = c THEN k ELSE call[q][d]
    BY <1>1, <1>7 DEF TypeOK
  <2>4. CallsAreFresh'
    BY <1>1, <1>2, <1>7, <2>3 DEF CallsAreFresh
  <2>5. k.method = "receive" =>
          p = Payee /\ \E v \in network : k.amount = v.amount
    BY <1>7
  <2>6. VouchersArePromised'
    <3>1. \A v \in network' : v.amount <= Largest(Payer)'
      BY <1>1, <1>2, <1>3, <1>4 DEF VouchersArePromised
    <3>2. \A d \in Callers :
            call'[Payee][d] # Idle /\ call'[Payee][d].method = "receive"
              => call'[Payee][d].amount <= Largest(Payer)'
      BY <1>1, <1>3, <1>4, <2>3, <2>5 DEF VouchersArePromised
    <3>3. \A d \in Callers :
            call'[Payer][d] # Idle => call'[Payer][d].method = "pay"
      BY <1>1, <1>4, <1>7, <2>3 DEF VouchersArePromised
    <3>4. QED
      BY <3>1, <3>2, <3>3 DEF VouchersArePromised
  <2>7. QED
    BY <1>2, <1>3, <2>2, <2>4, <2>6, TotalsUntouched DEF InductiveInv
<1>8. QED
  BY <1>5, <1>6, <1>7

\* A call of a party that returns leaves none of that party's calls open.
LEMMA ReturnStep ==
  ASSUME Serialized, InductiveInv, NEW p \in Parties, NEW c \in Callers,
         Return(p, c)
  PROVE  /\ call' \in [Parties -> [Callers -> Call \cup {Idle}]]
         /\ \A q \in Parties, d \in Callers :
              call'[q][d] = IF q = p THEN Idle ELSE call[q][d]
<1>1. call \in [Parties -> [Callers -> Call \cup {Idle}]]
  BY DEF InductiveInv, TypeOK
<1>2. QED
  BY <1>1 DEF Return, Serialized

\* A call that returns and changes nothing else leaves the remaining calls
\* fresh and the vouchers promised.
LEMMA ReturnKeeps ==
  ASSUME CallsAreFresh, VouchersArePromised, NEW p \in Parties,
         \A q \in Parties, d \in Callers :
           call'[q][d] = IF q = p THEN Idle ELSE call[q][d],
         UNCHANGED <<info, network>>,
         \A q \in Parties : Largest(q)' = Largest(q)
  PROVE  CallsAreFresh' /\ VouchersArePromised'
<1>1. Payer \in Parties /\ Payee \in Parties
  BY DEF Parties
<1>2. \A q \in Parties, d \in Callers :
        call'[q][d] # Idle => call'[q][d] = call[q][d]
  OBVIOUS
<1>3. CallsAreFresh'
  BY <1>2 DEF CallsAreFresh
<1>4. \A v \in network' : v.amount <= Largest(Payer)'
  BY <1>1 DEF VouchersArePromised
<1>5. ASSUME NEW d \in Callers, call'[Payee][d] # Idle,
             call'[Payee][d].method = "receive"
      PROVE  call'[Payee][d].amount <= Largest(Payer)'
  BY <1>1, <1>2, <1>5 DEF VouchersArePromised
<1>6. \A d \in Callers : call'[Payer][d] # Idle => call'[Payer][d].method = "pay"
  BY <1>1, <1>2 DEF VouchersArePromised
<1>7. QED
  BY <1>3, <1>4, <1>5, <1>6 DEF VouchersArePromised

\* The write half of pay: what was read is still in the store, because no
\* other caller has written since, so the total grows by exactly the amount.
LEMMA PayFinishStep ==
  ASSUME Serialized, InductiveInv, NEW p \in Parties, NEW c \in Callers,
         PayFinish(p, c)
  PROVE  InductiveInv'
<1> DEFINE k == call[p][c]
<1>1. TypeOK /\ CallsAreFresh /\ VouchersArePromised
  BY DEF InductiveInv
<1>2. /\ call' \in [Parties -> [Callers -> Call \cup {Idle}]]
      /\ \A q \in Parties, d \in Callers :
           call'[q][d] = IF q = p THEN Idle ELSE call[q][d]
  BY ReturnStep DEF PayFinish
<1>3. Payer \in Parties /\ Payee \in Parties /\ Payer # Payee
      /\ \A q \in Parties : Largest(q) \in Nat
  BY <1>1, LargestType
<1>4. /\ k \in Call /\ k.amount \in Nat
      /\ info[p] # Unregistered /\ k.info = info[p]
      /\ k.info.largest = Largest(p)
  BY <1>1 DEF PayFinish, TypeOK, Call, CallsAreFresh, Largest
<1>5. CASE ~ CanPay(p, k)
  <2>1. UNCHANGED <<info, network, payments, paid, credited>>
    BY <1>5 DEF PayFinish
  <2>2. \A q \in Parties : Largest(q)' = Largest(q)
    BY <2>1 DEF Largest
  <2>3. TypeOK'
    BY <1>1, <1>2, <2>1 DEF TypeOK
  <2>4. CallsAreFresh' /\ VouchersArePromised'
    BY <1>1, <1>2, <2>1, <2>2, ReturnKeeps
  <2>5. QED
    BY <2>1, <2>2, <2>3, <2>4, TotalsUntouched DEF InductiveInv
<1>6. CASE CanPay(p, k)
  <2> DEFINE n == NewAmount(k)
  <2>1. /\ p = Payer
        /\ info' = [info EXCEPT ![p] = [largest |-> n]]
        /\ network' = network \cup {[amount |-> n]}
        /\ paid' = paid + k.amount
        /\ UNCHANGED <<payments, credited>>
    BY <1>6 DEF PayFinish, CanPay
  <2>2. /\ n = Largest(Payer) + k.amount
        /\ n \in Nat /\ Largest(Payer) <= n /\ n <= StartingBalance
    <3>1. n = Largest(Payer) + k.amount
      BY <1>4, <2>1 DEF NewAmount
    <3>2. k.amount <= StartingBalance - Largest(Payer)
      BY <1>4, <1>6, <2>1 DEF CanPay, Remaining
    <3> HIDE DEF n, k
    <3>3. QED
      BY <1>3, <1>4, <3>1, <3>2, StartingBalanceAssumption
  <2> HIDE DEF n
  <2>3. [largest |-> n] \in Info /\ [largest |-> n] # Unregistered
    BY <2>2, UnregisteredAssumption DEF Info
  <2>4. Largest(Payer)' = n /\ Largest(Payee)' = Largest(Payee)
    BY <1>1, <1>3, <2>1, <2>3 DEF TypeOK, Largest
  <2>5. TypeOK'
    BY <1>1, <1>2, <1>4, <2>1, <2>2, <2>3 DEF TypeOK, Voucher
  <2>6. CallsAreFresh'
    BY <1>1, <1>2, <2>1 DEF TypeOK, CallsAreFresh
  <2>7. \A v \in network' : v.amount <= n
    <3>1. \A v \in network : v.amount \in Nat /\ v.amount <= Largest(Payer)
      BY <1>1 DEF TypeOK, Voucher, VouchersArePromised
    <3>2. QED
      BY <1>3, <2>1, <2>2, <3>1
  <2>8. ASSUME NEW d \in Callers, call'[Payee][d] # Idle,
               call'[Payee][d].method = "receive"
        PROVE  call'[Payee][d].amount <= n
    <3>1. call'[Payee][d] = call[Payee][d]
      BY <1>2, <1>3, <2>1
    <3>2. /\ call[Payee][d].amount \in Nat
          /\ call[Payee][d].amount <= Largest(Payer)
      BY <1>1, <1>3, <2>8, <3>1 DEF TypeOK, Call, VouchersArePromised
    <3>3. QED
      BY <1>3, <2>2, <3>1, <3>2
  <2>9. VouchersArePromised'
    BY <1>2, <1>3, <2>1, <2>4, <2>7, <2>8 DEF VouchersArePromised
  <2>10. PayeeNeverAhead' /\ PaymentsAddUp' /\ CreditsAddUp'
    BY <1>3, <2>1, <2>2, <2>4, StartingBalanceAssumption
       DEF InductiveInv, PayeeNeverAhead, PaymentsAddUp, CreditsAddUp
  <2>11. QED
    BY <2>5, <2>6, <2>9, <2>10 DEF InductiveInv
<1>7. QED
  BY <1>5, <1>6

\* The write half of receive: what was read is still in the store, so the
\* credit is the growth of the largest voucher, and nothing if it is no larger.
LEMMA ReceiveFinishStep ==
  ASSUME Serialized, InductiveInv, NEW p \in Parties, NEW c \in Callers,
         ReceiveFinish(p, c)
  PROVE  InductiveInv'
<1> DEFINE k == call[p][c]
<1>1. TypeOK /\ CallsAreFresh /\ VouchersArePromised
  BY DEF InductiveInv
<1>2. /\ call' \in [Parties -> [Callers -> Call \cup {Idle}]]
      /\ \A q \in Parties, d \in Callers :
           call'[q][d] = IF q = p THEN Idle ELSE call[q][d]
  BY ReturnStep DEF ReceiveFinish
<1>3. Payer \in Parties /\ Payee \in Parties /\ Payer # Payee
      /\ \A q \in Parties : Largest(q) \in Nat
  BY <1>1, LargestType
<1>4. /\ k \in Call /\ k # Idle /\ k.amount \in Nat /\ k.method = "receive"
      /\ info[p] # Unregistered /\ k.info = info[p]
      /\ k.info.largest = Largest(p)
      /\ UNCHANGED <<network, payments, paid>>
  BY <1>1 DEF ReceiveFinish, TypeOK, Call, CallsAreFresh, Largest
<1>5. CASE UNCHANGED <<info, credited>>
  <2>1. \A q \in Parties : Largest(q)' = Largest(q)
    BY <1>5 DEF Largest
  <2>2. TypeOK'
    BY <1>1, <1>2, <1>4, <1>5 DEF TypeOK
  <2>3. CallsAreFresh' /\ VouchersArePromised'
    BY <1>1, <1>2, <1>4, <1>5, <2>1, ReturnKeeps
  <2>4. QED
    BY <1>4, <1>5, <2>1, <2>2, <2>3, TotalsUntouched DEF InductiveInv
<1>6. CASE CanReceive(p, k) /\ IsNewer(k)
           /\ info' = [info EXCEPT ![p] = [largest |-> k.amount]]
           /\ credited' = credited + Delta(k)
  <2>1. /\ p = Payee /\ Largest(Payee) < k.amount
        /\ k.amount <= Largest(Payer)
    BY <1>1, <1>4, <1>6 DEF CanReceive, IsNewer, VouchersArePromised
  <2>2. [largest |-> k.amount] \in Info /\ [largest |-> k.amount] # Unregistered
    BY <1>4, UnregisteredAssumption DEF Info
  <2>3. Largest(Payee)' = k.amount /\ Largest(Payer)' = Largest(Payer)
    BY <1>1, <1>3, <1>6, <2>1, <2>2 DEF TypeOK, Largest
  <2>4. credited' = k.amount
    <3>1. credited' = credited + (k.amount - Largest(Payee))
          /\ Largest(Payee) = credited
      BY <1>4, <1>6, <2>1 DEF Delta, InductiveInv, CreditsAddUp
    <3> HIDE DEF k
    <3>2. QED
      BY <1>3, <1>4, <3>1
  <2>5. TypeOK'
    BY <1>1, <1>2, <1>4, <1>6, <2>2, <2>4 DEF TypeOK
  <2>6. CallsAreFresh'
    BY <1>1, <1>2, <1>6 DEF TypeOK, CallsAreFresh
  <2>7. VouchersArePromised'
    BY <1>1, <1>2, <1>3, <1>4, <2>1, <2>3 DEF VouchersArePromised
  <2>8. PayeeNeverAhead' /\ PaymentsAddUp' /\ CreditsAddUp'
    BY <1>4, <2>1, <2>3, <2>4
       DEF InductiveInv, PayeeNeverAhead, PaymentsAddUp, CreditsAddUp
  <2>9. QED
    BY <2>5, <2>6, <2>7, <2>8 DEF InductiveInv
<1>7. QED
  BY <1>5, <1>6 DEF ReceiveFinish

\* With one caller per node, every step keeps the invariant.
LEMMA NextInv == Serialized /\ InductiveInv /\ [Next]_vars => InductiveInv'
<1> SUFFICES ASSUME Serialized, InductiveInv, [Next]_vars
             PROVE  InductiveInv'
  OBVIOUS
<1>1. ASSUME NEW p \in Parties, Register(p) PROVE InductiveInv'
  BY <1>1, RegisterStep
<1>2. CASE \/ \E p \in Parties : Restart(p)
           \/ \E v \in network : Lose(v)
  BY <1>2, ForgetStep
<1>3. CASE \/ \E p \in Parties, c \in Callers, amount \in Amounts :
                PayStart(p, c, amount)
           \/ \E c \in Callers, v \in network : ReceiveStart(Payee, c, v)
  BY <1>3, StartStep
<1>4. ASSUME NEW p \in Parties, NEW c \in Callers,
             PayFinish(p, c) \/ ReceiveFinish(p, c)
      PROVE  InductiveInv'
  BY <1>4, PayFinishStep, ReceiveFinishStep
<1>5. CASE UNCHANGED vars
  <2>1. UNCHANGED <<info, call, network, payments, paid, credited>>
    BY <1>5 DEF vars
  <2>2. \A q \in Parties : Largest(q)' = Largest(q)
    BY <2>1 DEF Largest
  <2>3. TypeOK' /\ CallsAreFresh' /\ VouchersArePromised'
    BY <2>1, <2>2 DEF InductiveInv, TypeOK, CallsAreFresh, VouchersArePromised, Parties
  <2>4. QED
    BY <2>1, <2>2, <2>3, TotalsUntouched DEF InductiveInv
<1>6. QED
  BY <1>1, <1>2, <1>3, <1>4, <1>5 DEF Next

\* With one caller the inductive invariant holds in every reachable state.
THEOREM Invariance == ASSUME Serialized PROVE Spec => []InductiveInv
<1>1. Init => InductiveInv
  BY InitInv
<1>2. InductiveInv /\ [Next]_vars => InductiveInv'
  BY NextInv
<1>3. QED
  BY <1>1, <1>2, PTL DEF Spec

\* No two payments promise the same money: each moves the redeemable total by
\* its own amount, whatever is lost or restarted.
THEOREM PaymentsAddUpHolds == ASSUME Serialized PROVE Spec => []PaymentsAddUp
<1>1. InductiveInv => PaymentsAddUp
  BY DEF InductiveInv
<1>2. QED
  BY <1>1, Invariance, PTL

\* What receive reports adds up to the total, under loss and reordering.
THEOREM CreditsAddUpHolds == ASSUME Serialized PROVE Spec => []CreditsAddUp
<1>1. InductiveInv => CreditsAddUp
  BY DEF InductiveInv
<1>2. QED
  BY <1>1, Invariance, PTL

\* The payee holds no more than was promised, nor that more than there is.
THEOREM PayeeNeverAheadHolds == ASSUME Serialized PROVE Spec => []PayeeNeverAhead
<1>1. InductiveInv => PayeeNeverAhead
  BY DEF InductiveInv
<1>2. QED
  BY <1>1, Invariance, PTL

\* A stored voucher is only ever replaced by a larger one.
THEOREM LargestOnlyGrowsHolds == ASSUME Serialized PROVE Spec => LargestOnlyGrows
<1> DEFINE A == \A p \in Parties : Largest(p) <= Largest(p)'
<1>1. InductiveInv /\ InductiveInv' /\ [Next]_vars => [A]_vars
  <2>1. SUFFICES ASSUME InductiveInv, InductiveInv', [Next]_vars,
                        NEW p \in Parties
                 PROVE  Largest(p) <= Largest(p)'
    OBVIOUS
  <2>2. TypeOK /\ CallsAreFresh /\ TypeOK'
    BY <2>1 DEF InductiveInv
  <2>3. Largest(p) \in Nat /\ Largest(p)' \in Nat
    BY <2>2, UnregisteredAssumption DEF TypeOK, Largest, Info
  <2>4. CASE UNCHANGED info
    BY <2>3, <2>4 DEF Largest
  <2>5. ASSUME NEW q \in Parties, Register(q)
        PROVE  Largest(p) <= Largest(p)'
    <3>1. Largest(p)' = Largest(p)
      BY <2>2, <2>5, UnregisteredAssumption DEF Register, Largest, TypeOK, Info
    <3>2. QED
      BY <2>3, <3>1
  <2>6. ASSUME NEW q \in Parties, NEW c \in Callers,
               PayFinish(q, c) \/ ReceiveFinish(q, c)
        PROVE  Largest(p) <= Largest(p)'
    <3> DEFINE k == call[q][c]
    <3>1. /\ k \in Call /\ k.amount \in Nat
          /\ info[q] # Unregistered /\ k.info = info[q]
          /\ info[q].largest \in Nat
      BY <2>2, <2>6 DEF PayFinish, ReceiveFinish, TypeOK, Call, Info, CallsAreFresh
    <3>2. \/ UNCHANGED info
          \/ \E n \in Nat : /\ info' = [info EXCEPT ![q] = [largest |-> n]]
                            /\ info[q].largest <= n
      BY <2>6, <3>1 DEF PayFinish, ReceiveFinish, NewAmount, IsNewer
    <3>3. ASSUME NEW n \in Nat,
                 info' = [info EXCEPT ![q] = [largest |-> n]],
                 info[q].largest <= n
          PROVE  Largest(p) <= Largest(p)'
      <4>1. CASE p = q
        BY <2>2, <3>1, <3>3, <4>1, UnregisteredAssumption
           DEF Largest, TypeOK, Info
      <4>2. CASE p # q
        <5>1. Largest(p)' = Largest(p)
          BY <2>2, <3>3, <4>2 DEF Largest, TypeOK
        <5>2. QED
          BY <2>3, <5>1
      <4>3. QED
        BY <4>1, <4>2
    <3>4. QED
      BY <2>4, <3>2, <3>3
  <2>7. QED
    BY <2>1, <2>4, <2>5, <2>6
       DEF Next, Restart, PayStart, ReceiveStart, Lose, vars
<1>2. QED
  BY <1>1, Invariance, PTL DEF Spec, LargestOnlyGrows
=============================================================================
