-------------------------- MODULE MCPaymentChannels --------------------------
(***************************************************************************)
(* Instances of PaymentChannels: ivy has a ledger with ann and one with    *)
(* bob, and channels run through her or end with her.                      *)
(***************************************************************************)
EXTENDS PaymentChannels, TLC

CONSTANTS ann, ivy, bob, V, W, X, AI, IB

EndsOf(leader, follower) == (Leader :> leader) @@ (Follower :> follower)

\* Ivy follows on one side and leads on the other.
TwoLedgers == (AI :> EndsOf(ann, ivy)) @@ (IB :> EndsOf(ivy, bob))
OneLedger  == (IB :> EndsOf(ivy, bob))

Balances(each) == [l \in Ledgers |-> [p \in Parties |-> each]]
Ones   == Balances(1)
Twos   == Balances(2)
Threes == Balances(3)

ThroughIvy == (V :> <<ann, ivy, bob>>)
Direct     == (V :> <<ivy, bob>>)
TwoDirect  == (V :> <<ivy, bob>>) @@ (W :> <<ivy, bob>>)
Crossing   == (V :> <<ann, ivy, bob>>) @@ (W :> <<ivy, ann>>)

Mixed      == (V :> <<ann, ivy, bob>>) @@ (W :> <<ivy, bob>>) @@ (X :> <<bob, ivy>>)

\* Channels of one ledger are asked for together, or one through ivy alone.
OnOneLedger == {{V}, {W, X}}
AnyChannels == {Targets}
OneChannel  == {{v} : v \in Targets}

ByNobody    == {}
ByAnn       == {ann} \X Targets
ByIvy       == {ivy} \X Targets
ByIvyAndBob == {ivy, bob} \X Targets
ByTheirPayers == {<<ann, V>>, <<ivy, W>>, <<bob, X>>}

Deposits(a0, b0) == [t \in Targets |-> [a0 |-> a0, b0 |-> b0]]
One  == Deposits(1, 0)
TwoAndOne == Deposits(2, 1)

\* W asks for more than ivy has.
WIsTooMuch == [t \in Targets |-> [a0 |-> IF t = W THEN 2 ELSE 1, b0 |-> 0]]

BothKinds == {"fund", "defund"}
BobMayRefuse == {<<bob, "fund">>, <<bob, "defund">>}
=============================================================================
