------------------------------ MODULE Portions ------------------------------
(***************************************************************************)
(* The portions the reservations stand for, against the counters of the    *)
(* drops: properties of sums over the orders.                              *)
(***************************************************************************)
EXTENDS HotDrop, FiniteSetsExt

(* The sums are over the orders that were ever placed.                      *)
ASSUME OrdersAssumption == IsFiniteSet(Orders)

(* The portions of drop d that the reservations with such a status hold.    *)
HeldBy(d, statuses) ==
    MapThenSumSet(LAMBDA o : Qty[o][d],
                  {o \in Orders : reservation[o] \in statuses})

Live == {"HELD", "CONFIRMED"}

(* Portions are not stranded: every reserved portion belongs to a live     *)
(* reservation, however releases, sweeps and accepts interleave and        *)
(* whichever of them are rolled back.                                      *)
NoneStranded == \A d \in Drops : reserved[d] <= HeldBy(d, Live)

(* When no TTL lapses mid-saga and no customer cancels, the counters are   *)
(* exact: what is reserved is what live reservations hold, so neither a    *)
(* sold-out order nor a compensated one leaves a trace.                    *)
InventoryExact ==
    (\A o \in Orders : o \notin Expiring /\ cancels[o] = 0) =>
        \A d \in Drops : reserved[d] = HeldBy(d, Live)
-----------------------------------------------------------------------------
(* What the repository says and the races below contradict.                 *)

(* "a portion is never oversold": the kitchen never commits to cook more   *)
(* portions of a drop than its batch has.                                  *)
NeverOversold == \A d \in Drops : HeldBy(d, {"CONFIRMED"}) <= Total[d]

(* "already-released reservation is a no-op": releasing one reservation    *)
(* does not put the portions of another, held one back on sale.            *)
HeldIsReserved == \A d \in Drops : HeldBy(d, {"HELD"}) <= reserved[d]
=============================================================================
