------------------------------ MODULE Kitchen -------------------------------
(***************************************************************************)
(* The kitchen service: the portion inventory of the drops, the           *)
(* reservations, and the sweeper that releases expired ones.               *)
(*                                                                         *)
(* The inventory is changed by atomic increments and decrements, and       *)
(* reserving is one conditional update per drop whose row lock is held to  *)
(* the commit, so ReservePortions is one step (that the updates line by    *)
(* line amount to it is the business of Reserving).  A line that comes up  *)
(* short rolls the transaction back, and the failed reply is written in    *)
(* another one: between the two the order is in short.  Releasing first    *)
(* reads the reservation's status, without a lock, and writes later: it is *)
(* two steps as well, and ktx holds the transactions between them.  The    *)
(* CHECK constraint reserved >= 0 makes the database roll a transaction    *)
(* back that would restore more than is reserved.                          *)
(***************************************************************************)
EXTENDS Contracts

CONSTANTS
    Drops,              \* the drops of the kitchen
    Total,              \* Total[d]: the batch size of drop d
    Qty,                \* Qty[o][d]: portions of drop d that order o asks for
    Expiring            \* the orders whose reservation may outlive its TTL

ASSUME InventoryAssumption ==
    /\ Total \in [Drops -> Nat]
    /\ Qty \in [Orders -> [Drops -> Nat]]
    /\ Expiring \subseteq Orders

VARIABLES
    available,          \* available[d]: drops.available
    reserved,           \* reserved[d]: drops.reserved
    reservation,        \* reservation[o]: status of the order's reservation
    short,              \* the reservations that came up short, not yet answered
    ktx                 \* the releases that have read and not yet written

kitchenVars == << available, reserved, reservation, short, ktx >>

ReservationStatus == {"HELD", "CONFIRMED", "RELEASED"}

(* The sweeper's transaction is not started by a message.                   *)
SweepOf(o) == [kind |-> "sweep", step |-> "Sweep", order |-> o, from |-> 0]
Sweeps == {SweepOf(o) : o \in Orders}

KitchenTypeOK ==
    /\ available \in [Drops -> Nat]
    /\ reserved \in [Drops -> Nat]
    /\ reservation \in [Orders -> ReservationStatus \cup {"NONE"}]
    /\ short \subseteq Messages
    /\ ktx \subseteq Messages \cup Sweeps

KitchenInit ==
    /\ available = Total
    /\ reserved = [d \in Drops |-> 0]
    /\ reservation = [o \in Orders |-> "NONE"]
    /\ short = {}
    /\ ktx = {}
-----------------------------------------------------------------------------
Fits(o) == \A d \in Drops : Qty[o][d] <= available[d]

(* Every line of the order finds its portions.                              *)
ReservePortions(m) ==
    LET o == m.order IN
    /\ Arrives(m, "ReservePortions")
    /\ reservation[o] = "NONE"
    /\ Fits(o)
    /\ available' = [d \in Drops |-> available[d] - Qty[o][d]]
    /\ reserved' = [d \in Drops |-> reserved[d] + Qty[o][d]]
    /\ reservation' = [reservation EXCEPT ![o] = "HELD"]
    /\ Consume(m, {Reply(m, "ok")})
    /\ short' = short \ {m}
    /\ UNCHANGED ktx

(* A line comes up short: SagaStepFailure rolls the decrements back ...     *)
ComesUpShort(m) ==
    /\ Arrives(m, "ReservePortions")
    /\ ~Fits(m.order)
    /\ short' = short \cup {m}
    /\ UNCHANGED << msgVars, available, reserved, reservation, ktx >>

(* Definitions marked "Fault" are not the code: each is a plausible bug,   *)
(* put in the place of the definition it precedes to see a property fail.  *)

(* Fault: the lines that found their portions are not rolled back.          *)
SoldOutKeepsLines(m) ==
    LET taken(d) == IF Qty[m.order][d] <= available[d] THEN Qty[m.order][d] ELSE 0 IN
    /\ Arrives(m, "ReservePortions")
    /\ m \in short
    /\ available' = [d \in Drops |-> available[d] - taken(d)]
    /\ reserved' = [d \in Drops |-> reserved[d] + taken(d)]
    /\ short' = short \ {m}
    /\ Consume(m, {Reply(m, "failed")})
    /\ UNCHANGED << reservation, ktx >>

(* ... and the failed reply is sent, whatever has come back on sale since.  *)
SoldOut(m) ==
    /\ Arrives(m, "ReservePortions")
    /\ m \in short
    /\ short' = short \ {m}
    /\ Consume(m, {Reply(m, "failed")})
    /\ UNCHANGED << available, reserved, reservation, ktx >>

(* The kitchen always accepts; the update does not look at the status.      *)
AcceptOrder(m) ==
    /\ Arrives(m, "AcceptOrder")
    /\ reservation[m.order] # "NONE"
    /\ reservation' = [reservation EXCEPT ![m.order] = "CONFIRMED"]
    /\ Consume(m, {Reply(m, "ok")})
    /\ UNCHANGED << available, reserved, short, ktx >>
-----------------------------------------------------------------------------
(* Releasing: the read ...                                                  *)
BeginRelease(m) ==
    /\ Arrives(m, "ReleasePortions")
    /\ reservation[m.order] \in {"HELD", "CONFIRMED"}
    /\ ktx' = ktx \cup {m}
    /\ UNCHANGED << msgVars, available, reserved, reservation, short >>

(* ... that finds nothing left to release ...                               *)
NothingToRelease(m) ==
    /\ Arrives(m, "ReleasePortions")
    /\ reservation[m.order] \in {"NONE", "RELEASED"}
    /\ Consume(m, {})
    /\ ktx' = ktx \ {m}
    /\ UNCHANGED << available, reserved, reservation, short >>

(* Fault: no CHECK constraint.                                              *)
RestorableAlways(o) == TRUE

Restorable(o) == \A d \in Drops : Qty[o][d] <= reserved[d]

(* Fault: the reservation is released and its portions are not.             *)
RestoreNothing(o) ==
    /\ reservation' = [reservation EXCEPT ![o] = "RELEASED"]
    /\ UNCHANGED << available, reserved >>

(* Fault: the portions are put on sale and stay reserved.                   *)
RestoreAvailable(o) ==
    /\ available' = [d \in Drops |-> available[d] + Qty[o][d]]
    /\ reservation' = [reservation EXCEPT ![o] = "RELEASED"]
    /\ UNCHANGED reserved

(* ... and the writes, whatever the reservation's status is by now.         *)
Restore(o) ==
    /\ Restorable(o)
    /\ available' = [d \in Drops |-> available[d] + Qty[o][d]]
    /\ reserved' = [d \in Drops |-> reserved[d] - Qty[o][d]]
    /\ reservation' = [reservation EXCEPT ![o] = "RELEASED"]

CommitRelease(m) ==
    /\ m \in ktx \ Sweeps
    /\ Restore(m.order)
    /\ Consume(m, {})
    /\ ktx' = ktx \ {m}
    /\ UNCHANGED short

(* A pass of the sweeper releases the expired reservations one transaction *)
(* at a time, and its guard keeps a second pass from starting.             *)
BeginSweep(o) ==
    /\ o \in Expiring
    /\ reservation[o] = "HELD"
    /\ ktx \cap Sweeps = {}
    /\ ktx' = ktx \cup {SweepOf(o)}
    /\ UNCHANGED << msgVars, available, reserved, reservation, short >>

CommitSweep(s) ==
    /\ s \in ktx \cap Sweeps
    /\ Restore(s.order)
    /\ ktx' = ktx \ {s}
    /\ UNCHANGED << msgVars, short >>

(* The CHECK constraint rejects the writes, or a sweep dies with its       *)
(* process.  The message of a release stays unacknowledged, hence pending. *)
RollBack(t) ==
    /\ t \in ktx
    /\ t \in Sweeps \/ ~Restorable(t.order)
    /\ ktx' = ktx \ {t}
    /\ UNCHANGED << msgVars, available, reserved, reservation, short >>
-----------------------------------------------------------------------------
KitchenHandles(o) ==
    \E m \in SentFor(o) :
        \/ ReservePortions(m)
        \/ ComesUpShort(m)
        \/ SoldOut(m)
        \/ AcceptOrder(m)
        \/ BeginRelease(m)
        \/ NothingToRelease(m)
        \/ CommitRelease(m)

KitchenBackground ==
    \/ \E o \in Orders : BeginSweep(o)
    \/ \E t \in ktx : CommitSweep(t) \/ RollBack(t)
=============================================================================
