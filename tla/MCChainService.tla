--------------------------- MODULE MCChainService ---------------------------
(***************************************************************************)
(* The chain service of one node and the contract's events for a channel.  *)
(* A behaviour has one of the budgets of its run: what may go wrong in it. *)
(***************************************************************************)
EXTENDS ChainService

Short == [txs |-> 1, reorgs |-> 0, failures |-> 0, breaks |-> 0,
          resubs |-> 0, ticks |-> 0, stops |-> 0]
Quiet == [Short EXCEPT !.txs = 2]

Reorganised == [Quiet EXCEPT !.reorgs = 1]
Ticking     == [Quiet EXCEPT !.ticks = 1]
Broken      == [Short EXCEPT !.breaks = 1, !.resubs = 2]
Restarted   == [Quiet EXCEPT !.failures = 1, !.stops = 1]
BackingOff  == [Short EXCEPT !.failures = 1, !.breaks = 1, !.resubs = 1, !.stops = 1]
GivenUp     == [BackingOff EXCEPT !.stops = 0]

OneFault == {Reorganised, Ticking, Broken, Restarted, GivenUp}
Backoff == {BackingOff}
Ticks == {Ticking}
=============================================================================
