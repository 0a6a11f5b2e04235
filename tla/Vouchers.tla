------------------------------- MODULE Vouchers -------------------------------
(***************************************************************************)
(* Payments in one virtual channel: the voucher managers of the payer and  *)
(* the payee (payments/voucher-manager.ts), their voucher stores, and the  *)
(* vouchers that travel between them.                                      *)
(*                                                                         *)
(* A voucher is the payer's signed promise of a TOTAL amount; the payee    *)
(* keeps the largest.  VoucherManager.pay and receive read the stored      *)
(* VoucherInfo, wait, and write it back, so a call is two steps, and calls *)
(* of different callers interleave between them.  The engine's run loop is *)
(* one caller, which finishes a call before it starts the next (engine.ts  *)
(* handlePaymentRequest, handleMessage); Node.createVoucher and            *)
(* Node.receiveVoucher call the same manager from outside the run loop, so *)
(* each is a caller of its own.                                            *)
(***************************************************************************)
EXTENDS Integers

CONSTANTS
  Callers,           \* who may be inside a call of one party's manager
  StartingBalance,   \* the payer's balance in the channel
  Unregistered,      \* what the store holds before register
  Idle,              \* what a caller holds between calls
  MaxPayments,       \* bound: how many calls of pay are made
  Unreliable         \* whether vouchers get lost and arrive twice

ASSUME StartingBalanceAssumption == StartingBalance \in Nat
ASSUME MaxPaymentsAssumption     == MaxPayments \in Nat
ASSUME UnreliableAssumption      == Unreliable \in BOOLEAN

\* The amounts pay is asked for, one of them more than there is.
Amounts == 0..StartingBalance + 1

Payer == "payer"
Payee == "payee"
Parties == {Payer, Payee}

\* The parts of VoucherInfo that change, and what a call holds while it waits.
Info    == [largest : Nat]
Voucher == [amount : Nat]
Call    == [method : {"pay", "receive"}, amount : Nat, info : Info]

ASSUME UnregisteredAssumption == Unregistered \notin Info
ASSUME IdleAssumption         == Idle \notin Call

VARIABLES
  info,       \* the stored VoucherInfo of each party
  call,       \* the call each caller of each party is waiting in
  network,    \* the vouchers on their way to the payee
  payments,   \* history: how many calls of pay were made
  paid,       \* history: the sum of the amounts that were paid
  credited    \* history: the sum of the amounts receive said were new

vars == <<info, call, network, payments, paid, credited>>

Remaining(i) == StartingBalance - i.largest

Init ==
  /\ info = [p \in Parties |-> Unregistered]
  /\ call = [p \in Parties |-> [c \in Callers |-> Idle]]
  /\ network = {}
  /\ payments = 0 /\ paid = 0 /\ credited = 0

(***************************************************************************)
(* register: on creating the virtual fund objective.  A second call throws *)
(* and leaves the stored info alone.                                       *)
(***************************************************************************)
Register(p) ==
  /\ info[p] = Unregistered
  /\ info' = [info EXCEPT ![p] = [largest |-> 0]]
  /\ UNCHANGED <<call, network, payments, paid, credited>>

(***************************************************************************)
(* Both methods begin by awaiting getVoucherInfo, and throw if it does.    *)
(***************************************************************************)
ReadInfo(p, c, method, amount) ==
  /\ call[p][c] = Idle
  /\ info[p] # Unregistered
  /\ call' = [call EXCEPT ![p][c] = [method |-> method, amount |-> amount,
                                     info |-> info[p]]]

Return(p, c) == call' = [call EXCEPT ![p][c] = Idle]

(***************************************************************************)
(* VoucherManager.pay.                                                     *)
(***************************************************************************)
PayStart(p, c, amount) ==
  /\ payments < MaxPayments
  /\ ReadInfo(p, c, "pay", amount)
  /\ payments' = payments + 1
  /\ UNCHANGED <<info, network, paid, credited>>

CanPayWithoutBalance(p, k) == p = Payer                                \* mutant

CanPay(p, k) == k.amount <= Remaining(k.info) /\ p = Payer

NewAmountOnly(k) == k.amount                                           \* mutant

NewAmount(k) == k.info.largest + k.amount

PayFinish(p, c) ==
  LET k == call[p][c]
  IN /\ k # Idle /\ k.method = "pay"
     /\ \/ /\ CanPay(p, k)
           /\ info' = [info EXCEPT ![p] = [largest |-> NewAmount(k)]]
           /\ network' = network \cup {[amount |-> NewAmount(k)]}
           /\ paid' = paid + k.amount
        \/ /\ ~ CanPay(p, k)
           /\ UNCHANGED <<info, network, paid>>
     /\ Return(p, c)
     /\ UNCHANGED <<payments, credited>>

(***************************************************************************)
(* VoucherManager.receive.                                                 *)
(***************************************************************************)
ReceiveStart(p, c, v) ==
  /\ v \in network
  /\ \/ ReadInfo(p, c, "receive", v.amount)
     \/ call[p][c] = Idle /\ info[p] = Unregistered /\ UNCHANGED call
  /\ \/ network' = network \ {v}
     \/ Unreliable /\ network' = network
  /\ UNCHANGED <<info, payments, paid, credited>>

IsDifferent(k) == k.amount # k.info.largest                            \* mutant

IsNewer(k) == k.amount > k.info.largest

CreditWhole(k)   == k.amount                                           \* mutant

Delta(k) == k.amount - k.info.largest

CanReceive(p, k) == p = Payee /\ k.amount <= StartingBalance

ReceiveFinish(p, c) ==
  LET k == call[p][c]
  IN /\ k # Idle /\ k.method = "receive"
     /\ \/ /\ CanReceive(p, k) /\ IsNewer(k)
           /\ info' = [info EXCEPT ![p] = [largest |-> k.amount]]
           /\ credited' = credited + Delta(k)
        \/ /\ ~ (CanReceive(p, k) /\ IsNewer(k))
           /\ UNCHANGED <<info, credited>>
     /\ Return(p, c)
     /\ UNCHANGED <<network, payments, paid>>

\* A restart forgets the calls; what the store holds is durable.
Restart(p) ==
  /\ Unreliable
  /\ call' = [call EXCEPT ![p] = [c \in Callers |-> Idle]]
  /\ UNCHANGED <<info, network, payments, paid, credited>>

\* A voucher is lost: the message service gave up, or the payer stopped
\* between saving it and sending it.
Lose(v) ==
  /\ Unreliable
  /\ v \in network
  /\ network' = network \ {v}
  /\ UNCHANGED <<info, call, payments, paid, credited>>

Next ==
  \/ \E p \in Parties : Register(p) \/ Restart(p)
  \/ \E p \in Parties, c \in Callers :
       \/ \E amount \in Amounts : PayStart(p, c, amount)
       \/ PayFinish(p, c)
       \/ ReceiveFinish(p, c)
  \/ \E c \in Callers, v \in network : ReceiveStart(Payee, c, v)
  \/ \E v \in network : Lose(v)

Spec == Init /\ [][Next]_vars

\* The payee's run loop takes up the vouchers that arrive, and calls return.
Fairness ==
  /\ WF_vars(\E c \in Callers, v \in network : ReceiveStart(Payee, c, v))
  /\ \A c \in Callers : WF_vars(ReceiveFinish(Payee, c) \/ PayFinish(Payee, c))

FairSpec == Spec /\ Fairness
-----------------------------------------------------------------------------
\* Every variable holds a value of its kind.
TypeOK ==
  /\ info \in [Parties -> Info \cup {Unregistered}]
  /\ call \in [Parties -> [Callers -> Call \cup {Idle}]]
  /\ network \subseteq Voucher
  /\ payments \in Nat /\ paid \in Nat /\ credited \in Nat

Largest(p) == IF info[p] = Unregistered THEN 0 ELSE info[p].largest

\* Each payment moves the total the payee can redeem by the amount that was
\* asked for: no two calls of pay promise the same money (node.ts, on
\* createVoucher: "increments the redeemable balance by amount").
PaymentsAddUp == Largest(Payer) = paid

\* What receive reports as newly received adds up to the total the payee
\* holds, with vouchers lost, repeated and overtaken by later ones.
CreditsAddUp == Largest(Payee) = credited

\* The payee never holds more than the payer's store says it promised, and
\* neither exceeds the channel: the defund amount the two compute agree on
\* which of them may be behind (virtualdefund minimumPaymentAmount).
PayeeNeverAhead ==
  Largest(Payee) <= Largest(Payer) /\ Largest(Payer) <= StartingBalance

\* The stored voucher is the largest so far: it is never replaced by an older
\* one (vouchers.ts: "the largest voucher we've received on a channel").
LargestOnlyGrows == [][\A p \in Parties : Largest(p) <= Largest(p)']_vars

\* A voucher on its way to a registered payee ends up counted.
VouchersCount ==
  \A n \in 1..StartingBalance :
    info[Payee] # Unregistered /\ [amount |-> n] \in network
      ~> Largest(Payee) >= n

(***************************************************************************)
(* The inductive invariant when calls do not overlap (one caller).         *)
(***************************************************************************)
CallsAreFresh ==
  \A p \in Parties, c \in Callers :
    call[p][c] # Idle => info[p] # Unregistered /\ call[p][c].info = info[p]

VouchersArePromised ==
  /\ \A v \in network : v.amount <= Largest(Payer)
  /\ \A c \in Callers :
       call[Payee][c] # Idle /\ call[Payee][c].method = "receive"
         => call[Payee][c].amount <= Largest(Payer)
  /\ \A c \in Callers :
       call[Payer][c] # Idle => call[Payer][c].method = "pay"

InductiveInv ==
  /\ TypeOK
  /\ CallsAreFresh
  /\ VouchersArePromised
  /\ PayeeNeverAhead
  /\ PaymentsAddUp
  /\ CreditsAddUp
=============================================================================
