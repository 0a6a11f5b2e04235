------------------------------ MODULE MCVouchers ------------------------------
(***************************************************************************)
(* Small instances of Vouchers for TLC.                                    *)
(***************************************************************************)
EXTENDS Vouchers

CONSTANTS engine, api    \* model values: the run loop, and a call of Node
=============================================================================
