----------------------------- MODULE MCHotDrop ------------------------------
(* Instances of the order saga for TLC.                                     *)
EXTENDS Portions, TLC

CONSTANTS o1, o2, d1, d2

NoCancels == [o \in Orders |-> 0]
CancelSecond == [o \in Orders |-> IF o = o2 THEN 1 ELSE 0]
OneCancel == [o \in Orders |-> 1]
TwoCancels == [o \in Orders |-> 2]

Batch1 == [d \in Drops |-> 1]
Batch2 == [d \in Drops |-> 2]

OneEach == [o \in Orders |-> [d \in Drops |-> 1]]

(* Two orders that want a portion of each drop, of which one fits: the     *)
(* other finds a full drop and a half-full one.                            *)
Batch21 == [d \in Drops |-> IF d = d1 THEN 2 ELSE 1]
=============================================================================
