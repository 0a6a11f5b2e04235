---------------------------- MODULE VirtualDefund ----------------------------
(***************************************************************************)
(* The virtual-defund objective (protocols/virtualdefund/virtualdefund.ts):*)
(* Alice signs a final state that pays Bob what her vouchers promise; when *)
(* all participants have signed it, the guarantees are removed from the    *)
(* ledgers and their amounts divided as the final state says.              *)
(***************************************************************************)
EXTENDS VirtualFund

(***************************************************************************)
(* validateFinalOutcome: only Bob has something to compare with.           *)
(***************************************************************************)
IsEnough(n, v, paid, minimum) == n = Bob(v) => paid >= minimum

\* update with a signed final state; a final state with another outcome does
\* not merge.
DefundUpdates(n, v, o, m) ==
  /\ IsEnough(n, v, m.paid, o.minimum)
  /\ o.channel.final # NoFinal => o.channel.final.paid = m.paid

DefundUpdate(o, m) ==
  LET signed == IF o.channel.final = NoFinal THEN {} ELSE o.channel.final.signed
  IN [o EXCEPT !.channel.final = [paid |-> m.paid, signed |-> signed \cup {m.from}]]

(***************************************************************************)
(* ledgerProposal and updateLedgerToRemoveGuarantee.                       *)
(***************************************************************************)
LeftKeepsDeposit(v, paid) == Deposit[v].a0                             \* mutant

LeftAmount(v, paid) == Deposit[v].a0 - paid

RemovalProposal(v, paid) ==
  [type |-> "remove", target |-> v, leftAmount |-> LeftAmount(v, paid)]

UpdateLedgerToRemoveGuarantee(n, v, l, copy, paid) ==
  IF ~ CopyIncludes(copy, v) THEN Untouched(copy)
  ELSE UpdateLedger(n, l, copy, RemovalProposal(v, paid),
                    HasRemovalBeenProposed(copy.queue, v),
                    HasRemovalBeenProposedNext(copy.queue, v))

(***************************************************************************)
(* crank, of an objective o = [status, minimum, channel, copies].  Without *)
(* a final state a participant asks Alice for one; with one that lacks her *)
(* signature, hasFinalStateFromAlice calls a method of undefined.          *)
(***************************************************************************)
RequestMessage(n, v) ==
  {[type |-> "request", v |-> v, from |-> n, to |-> Alice(v), paid |-> 0]}

IsSignedByOthers(n, v, final) == final.signed = Participants(v) \ {n}  \* mutant

IsSignedByAll(n, v, final) == final.signed = Participants(v)

SignFinal(n, v, o) ==
  IF o.channel.final # NoFinal
    THEN [o.channel.final EXCEPT !.signed = @ \cup {n}]
    ELSE [paid |-> o.minimum, signed |-> {n}]

Divided(n, v, o) ==
  LET final  == SignFinal(n, v, o)
      updated == MergeUpdates(n, v, o.copies,
                   [l \in LedgersOf(n, v) |->
                      UpdateLedgerToRemoveGuarantee(n, v, l, o.copies[l], final.paid)])
      agreed  == IsSignedByAll(n, v, final)
      done    == agreed /\ \A l \in LedgersOf(n, v) :
                             ~ CopyIncludes(updated.copies[l], v)
  IN IF agreed /\ updated.throws THEN Throw(o, "error updating ledger funding")
     ELSE [o |-> [status  |-> IF done THEN "completed" ELSE "approved",
                  minimum |-> o.minimum,
                  channel |-> [o.channel EXCEPT !.final = final],
                  copies  |-> IF agreed THEN updated.copies ELSE o.copies],
           messages |->
             (IF final = o.channel.final THEN {} ELSE Payload("final", n, v, final.paid))
               \cup (IF agreed THEN updated.messages ELSE {}),
           heads |-> IF agreed THEN updated.heads ELSE << >>,
           done  |-> done,
           error |-> "none"]

DefundCrank(n, v, o) ==
  IF o.status # "approved" THEN
    [Throw(o, "none") EXCEPT !.done = TRUE]
  ELSE IF n = Alice(v) THEN Divided(n, v, o)
  ELSE IF o.channel.final = NoFinal THEN
    [Throw(o, "none") EXCEPT !.messages = RequestMessage(n, v)]
  ELSE IF Alice(v) \notin o.channel.final.signed THEN Throw(o, "no signature from Alice")
  ELSE Divided(n, v, o)
=============================================================================
