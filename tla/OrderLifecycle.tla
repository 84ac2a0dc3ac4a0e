--------------------------- MODULE OrderLifecycle ---------------------------
(***************************************************************************)
(* What an order is to those who watch it from outside: a status that      *)
(* moves along the lifecycle of the README and enums.ts, one step at a     *)
(* time, and never stops on the way to the courier or from the door to the *)
(* end.  The abstract specification the saga is checked to implement.      *)
(***************************************************************************)
CONSTANT Orders

VARIABLE status         \* status[o], "NONE" before the order is placed

Init == status = [o \in Orders |-> "NONE"]

Move(o, from, to) ==
    /\ status[o] = from
    /\ status' = [status EXCEPT ![o] = to]

Place(o) == Move(o, "NONE", "PLACED")

(* The happy path, in two stretches: to the courier, and from the door.     *)
Prepare(o) ==
    \/ Move(o, "PLACED", "PORTIONS_RESERVED")
    \/ Move(o, "PORTIONS_RESERVED", "PAYMENT_AUTHORIZED")
    \/ Move(o, "PAYMENT_AUTHORIZED", "PREPARING")
    \/ Move(o, "PREPARING", "COURIER_ASSIGNED")

Deliver(o) == Move(o, "COURIER_ASSIGNED", "DELIVERED")

Settle(o) == Move(o, "DELIVERED", "COMPLETED")

(* A step fails: sold out, payment declined, no courier.                    *)
Fail(o) ==
    \/ Move(o, "PLACED", "REJECTED")
    \/ Move(o, "PORTIONS_RESERVED", "CANCELLED")
    \/ Move(o, "PREPARING", "CANCELLED")

(* The customer cancels, before the kitchen starts cooking.                 *)
Cancel(o) ==
    \E s \in {"PLACED", "PORTIONS_RESERVED", "PAYMENT_AUTHORIZED"} :
        Move(o, s, "CANCELLED")

Next ==
    \E o \in Orders :
        Place(o) \/ Prepare(o) \/ Deliver(o) \/ Settle(o) \/ Fail(o) \/ Cancel(o)

(* What an order may do.                                                    *)
Safety == Init /\ [][Next]_status

(* And that it does not stop in between.                                    *)
Spec ==
    /\ Safety
    /\ \A o \in Orders :
          /\ WF_status(Prepare(o) \/ Fail(o))
          /\ WF_status(Settle(o))
=============================================================================
