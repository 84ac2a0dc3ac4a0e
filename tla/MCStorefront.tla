---------------------------- MODULE MCStorefront ----------------------------
(* An instance of the storefront for TLC.                                   *)
EXTENDS Storefront

CONSTANTS o1, t1, c1, r1, r2, r3

AllRateFirst == [r \in Requests |-> o1]
=============================================================================
