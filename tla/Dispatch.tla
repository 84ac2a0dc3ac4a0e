------------------------------ MODULE Dispatch ------------------------------
(***************************************************************************)
(* The dispatch service: it draws a courier, records the assignment and    *)
(* the delivery, and completes the delivery from a timer.                  *)
(*                                                                         *)
(* The timer is a setTimeout armed after the command's commit.  It lives   *)
(* in the memory of the process: a restart forgets it, a redelivered       *)
(* command arms another, and a completion that throws is logged and not    *)
(* tried again.                                                            *)
(***************************************************************************)
EXTENDS Contracts

CONSTANTS
    MaxTimers,          \* bound: timers armed for one order
    MayFail             \* whether the process may restart, a completion throw

ASSUME TimersAssumption ==
    /\ MaxTimers \in Nat \ {0}
    /\ MayFail \in BOOLEAN

VARIABLES
    assignment,         \* assignment[o]: status of the courier assignment
    delivery,           \* delivery[o]: status of the delivery
    timers              \* timers[o][k]: the k-th timer armed for the order

dispatchVars == << assignment, delivery, timers >>

Timers == 1..MaxTimers

(* "open" is a completion that has read ASSIGNED and not yet written;      *)
(* "done" one that fired, failed or was forgotten.                         *)
TimerStatus == {"idle", "armed", "open", "done"}

DispatchTypeOK ==
    /\ assignment \in [Orders -> {"NONE", "ACCEPTED", "CANCELLED"}]
    /\ delivery \in [Orders -> {"NONE", "ASSIGNED", "DELIVERED"}]
    /\ timers \in [Orders -> [Timers -> TimerStatus]]

DispatchInit ==
    /\ assignment = [o \in Orders |-> "NONE"]
    /\ delivery = [o \in Orders |-> "NONE"]
    /\ timers = [o \in Orders |-> [k \in Timers |-> "idle"]]
-----------------------------------------------------------------------------
SetTimer(o, k, status) == timers' = [timers EXCEPT ![o][k] = status]

(* Definitions marked "Fault" are not the code: each is a plausible bug,   *)
(* put in the place of the definition it precedes to see a property fail.  *)

(* Fault: no timer is armed.                                                *)
AssignUntimed(m) ==
    /\ Arrives(m, "AssignCourier")
    /\ assignment[m.order] = "NONE"
    /\ assignment' = [assignment EXCEPT ![m.order] = "ACCEPTED"]
    /\ delivery' = [delivery EXCEPT ![m.order] = "ASSIGNED"]
    /\ Consume(m, {Reply(m, "ok")})
    /\ UNCHANGED timers

(* AssignCourier when a courier took the order: the commit, after which    *)
(* the handler arms the timer (one step: all a restart in between would do *)
(* is lose it).                                                            *)
Assign(m) ==
    /\ Arrives(m, "AssignCourier")
    /\ assignment[m.order] = "NONE"
    /\ assignment' = [assignment EXCEPT ![m.order] = "ACCEPTED"]
    /\ delivery' = [delivery EXCEPT ![m.order] = "ASSIGNED"]
    /\ Consume(m, {Reply(m, "ok")})
    /\ SetTimer(m.order, 1, "armed")

(* Fault: the delivery created before the failure is not rolled back.       *)
NoCourierDelivers(m) ==
    /\ Arrives(m, "AssignCourier")
    /\ delivery' = [delivery EXCEPT ![m.order] = "ASSIGNED"]
    /\ Consume(m, {Reply(m, "failed")})
    /\ UNCHANGED << assignment, timers >>

(* Every candidate declined.                                                *)
NoCourier(m) ==
    /\ Arrives(m, "AssignCourier")
    /\ Consume(m, {Reply(m, "failed")})
    /\ UNCHANGED dispatchVars

(* The command is redelivered after its commit: the courier is drawn       *)
(* before the inbox is looked at, so a timer is armed once more.           *)
Redelivered(m, k) ==
    /\ m \in inbox /\ m.kind = "command" /\ m.step = "AssignCourier"
    /\ timers[m.order][k] = "idle"
    /\ \A j \in 2..(k - 1) : timers[m.order][j] # "idle"
    /\ SetTimer(m.order, k, "armed")
    /\ UNCHANGED << msgVars, assignment, delivery >>

(* The timer fires and completeDelivery reads the delivery ...              *)
TimerFires(o, k) ==
    /\ timers[o][k] = "armed"
    /\ SetTimer(o, k, IF delivery[o] = "ASSIGNED" THEN "open" ELSE "done")
    /\ UNCHANGED << msgVars, assignment, delivery >>

(* Fault: the event is published outside the transaction and lost.          *)
CompleteQuietly(o, k) ==
    /\ timers[o][k] = "open"
    /\ delivery' = [delivery EXCEPT ![o] = "DELIVERED"]
    /\ SetTimer(o, k, "done")
    /\ UNCHANGED << msgVars, assignment >>

(* ... and writes, with the event to the orchestrator.                      *)
CompleteDelivery(o, k) ==
    /\ timers[o][k] = "open"
    /\ delivery' = [delivery EXCEPT ![o] = "DELIVERED"]
    /\ sent' = sent \cup {Delivered(o, k)}
    /\ SetTimer(o, k, "done")
    /\ UNCHANGED << inbox, assignment >>

(* The completion throws; the error is logged.                              *)
CompletionFails(o, k) ==
    /\ MayFail
    /\ timers[o][k] \in {"armed", "open"}
    /\ SetTimer(o, k, "done")
    /\ UNCHANGED << msgVars, assignment, delivery >>

(* The process restarts: every timer is forgotten.                          *)
Restart ==
    /\ MayFail
    /\ timers' = [o \in Orders |-> [k \in Timers |->
                    IF timers[o][k] = "idle" THEN "idle" ELSE "done"]]
    /\ UNCHANGED << msgVars, assignment, delivery >>

(* Fault: the assignment gets the status of a declined offer.               *)
UnassignDeclines(m) ==
    /\ Arrives(m, "UnassignCourier")
    /\ assignment' = [assignment EXCEPT ![m.order] =
                         IF @ = "ACCEPTED" THEN "DECLINED" ELSE @]
    /\ Consume(m, {})
    /\ UNCHANGED << delivery, timers >>

(* The compensation of an assignment.                                       *)
Unassign(m) ==
    /\ Arrives(m, "UnassignCourier")
    /\ assignment' = [assignment EXCEPT ![m.order] =
                         IF @ = "ACCEPTED" THEN "CANCELLED" ELSE @]
    /\ Consume(m, {})
    /\ UNCHANGED << delivery, timers >>
-----------------------------------------------------------------------------
DispatchHandles(o) ==
    \/ \E m \in SentFor(o) : Assign(m) \/ NoCourier(m) \/ Unassign(m)
    \/ \E k \in Timers : TimerFires(o, k) \/ CompleteDelivery(o, k)

DispatchFaults ==
    \/ \E m \in inbox, k \in Timers \ {1} : Redelivered(m, k)
    \/ \E o \in Orders, k \in Timers : CompletionFails(o, k)
    \/ Restart
-----------------------------------------------------------------------------
(* The delivery row and the event agree: no timer leaves an order          *)
(* delivered and the orchestrator unaware, or reports a delivery that did  *)
(* not happen, however timers are lost, re-armed and raced.                *)
DeliveryAnnounced ==
    \A o \in Orders :
        delivery[o] = "DELIVERED" <=> \E k \in Timers : Delivered(o, k) \in sent
=============================================================================
