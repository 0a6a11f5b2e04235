----------------------------- MODULE MCQueries -----------------------------
(***************************************************************************)
(* Queries with one or two payment channels.                               *)
(***************************************************************************)
EXTENDS Queries

OnePayment == {"v1"}
TwoPayments == {"v1", "v2"}
AllKinds == {"ledger", "ledgers", "payment", "payments"}
OfLedger == {"payments"}
Never == {}
AnyClose == {"requested", "approved", "refused"}

=============================================================================
