--------------------------- MODULE FundingPromise ---------------------------
(***************************************************************************)
(* What opening a ledger channel promises its two participants, without    *)
(* objectives, messages or chain events: they agree on how the money will  *)
(* come back before any of it goes in; the initiator pays first and each   *)
(* pays once; they confirm what is paid; and only then is the channel      *)
(* open.                                                                   *)
(***************************************************************************)
EXTENDS Naturals

CONSTANTS
  Channels,
  Initiator,     \* the node that pays first into each channel
  Share          \* what each node pays

Nodes == {0, 1}
Peer(n) == 1 - n

VARIABLES
  agreed,      \* who has signed the prefund state of each channel
  paid,        \* what each node has paid into each channel
  confirmed,   \* who has signed the postfund state of each channel
  open         \* the channels each node may use

Init ==
  /\ agreed = [ch \in Channels |-> {}]
  /\ paid = [n \in Nodes |-> [ch \in Channels |-> 0]]
  /\ confirmed = [ch \in Channels |-> {}]
  /\ open = [n \in Nodes |-> {}]

Agree(n, ch) ==
  /\ agreed' = [agreed EXCEPT ![ch] = @ \cup {n}]
  /\ UNCHANGED <<paid, confirmed, open>>

HasPaid(n, ch) == paid[n][ch] = Share[n]

Pay(n, ch) ==
  /\ agreed[ch] = Nodes
  /\ paid[n][ch] = 0
  /\ n = Initiator[ch] \/ HasPaid(Peer(n), ch)
  /\ paid' = [paid EXCEPT ![n][ch] = Share[n]]
  /\ UNCHANGED <<agreed, confirmed, open>>

Confirm(n, ch) ==
  /\ \A p \in Nodes : HasPaid(p, ch)
  /\ confirmed' = [confirmed EXCEPT ![ch] = @ \cup {n}]
  /\ UNCHANGED <<agreed, paid, open>>

Open(n, ch) ==
  /\ confirmed[ch] = Nodes
  /\ open' = [open EXCEPT ![n] = @ \cup {ch}]
  /\ UNCHANGED <<agreed, paid, confirmed>>

Next ==
  \E n \in Nodes, ch \in Channels :
    Agree(n, ch) \/ Pay(n, ch) \/ Confirm(n, ch) \/ Open(n, ch)

Spec == Init /\ [][Next]_<<agreed, paid, confirmed, open>>
=============================================================================
