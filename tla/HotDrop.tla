------------------------------ MODULE HotDrop -------------------------------
(***************************************************************************)
(* The order saga: the order service and the three participants, composed  *)
(* over the messages they exchange, and what the saga promises.            *)
(***************************************************************************)
EXTENDS Orchestrator, Kitchen, Payment, Dispatch, FiniteSets

vars == << msgVars, orchestratorVars, kitchenVars, paymentVars, dispatchVars >>

Init ==
    /\ MessagingInit
    /\ OrchestratorInit
    /\ KitchenInit
    /\ PaymentInit
    /\ DispatchInit

(* The services at work on an order ...                                     *)
Orchestrating(o) ==
    OrchestratorHandles(o) /\ UNCHANGED << kitchenVars, paymentVars, dispatchVars >>
Cooking(o) ==
    KitchenHandles(o) /\ UNCHANGED << orchestratorVars, paymentVars, dispatchVars >>
Paying(o) ==
    PaymentHandles(o) /\ UNCHANGED << orchestratorVars, kitchenVars, dispatchVars >>
Dispatching(o) ==
    DispatchHandles(o) /\ UNCHANGED << orchestratorVars, kitchenVars, paymentVars >>

(* ... and what nothing obliges to happen.                                  *)
Customers ==
    CustomerActs /\ UNCHANGED << kitchenVars, paymentVars, dispatchVars >>
Upkeep ==
    KitchenBackground /\ UNCHANGED << orchestratorVars, paymentVars, dispatchVars >>
Trouble ==
    DispatchFaults /\ UNCHANGED << orchestratorVars, kitchenVars, paymentVars >>

Next ==
    \/ \E o \in Orders :
          Orchestrating(o) \/ Cooking(o) \/ Paying(o) \/ Dispatching(o)
    \/ Customers
    \/ Upkeep
    \/ Trouble

Spec == Init /\ [][Next]_vars

(* Each service keeps handling what reaches it for an order: its relay     *)
(* polls for ever, RabbitMQ keeps a message until it is acknowledged, and  *)
(* an event loop runs every handler.  No handler meets an error that does  *)
(* not go away: the stall such an error leads to is modelled in Messaging  *)
(* and Placing.  Nothing obliges customers, the sweeper or a failure.      *)
Fairness ==
    \A o \in Orders :
        /\ WF_vars(Orchestrating(o))
        /\ WF_vars(Cooking(o))
        /\ WF_vars(Paying(o))
        /\ WF_vars(Dispatching(o))

FairSpec == Spec /\ Fairness
-----------------------------------------------------------------------------
(* Every variable holds what its column, table or queue may hold, and only *)
(* messages that were sent are consumed.                                   *)
TypeOK ==
    /\ MessagingTypeOK
    /\ OrchestratorTypeOK
    /\ KitchenTypeOK
    /\ PaymentTypeOK
    /\ DispatchTypeOK
-----------------------------------------------------------------------------
Answered(m, status) == Reply(m, status) \in sent

(* A participant answers each forward command once, in the transaction     *)
(* that consumes it: never both ok and failed, never silently (consume()'s *)
(* two transactions in the participants, the second after a rollback).     *)
AnsweredOnce ==
    \A m \in sent : m.kind = "command" /\ m.step \in SagaSteps =>
        IF m \in inbox THEN Answered(m, "ok") <=> ~Answered(m, "failed")
                       ELSE ~Answered(m, "ok") /\ ~Answered(m, "failed")

(* The services take their steps in the saga's order, whatever is          *)
(* cancelled, redelivered or overwritten meanwhile: a payment is held only *)
(* for reserved portions, the kitchen commits only to an order whose       *)
(* payment was held, and a courier is engaged only for one it accepted.    *)
StepsInOrder ==
    \A o \in Orders :
        /\ payment[o] # "NONE" => reservation[o] # "NONE"
        /\ reservation[o] = "CONFIRMED" => payment[o] # "NONE"
        /\ assignment[o] # "NONE" =>
              payment[o] # "NONE" /\ reservation[o] \in {"CONFIRMED", "RELEASED"}

(* An order whose payment was declined is never charged: the decline read  *)
(* that there was no payment in a transaction that was rolled back, and no *)
(* handler of the same command holds one before or after the answer.       *)
DeclinedMeansNoHold ==
    \A o \in Orders :
        Reply(Command("AuthorizePayment", o, 0), "failed") \in sent =>
            payment[o] = "NONE"

(* No customer is charged, nor told that the order is completed, before    *)
(* the food was delivered (capture happens on the delivery event alone).   *)
ChargedOnlyAfterDelivery ==
    \A o \in Orders :
        payment[o] = "CAPTURED" \/ "OrderCompleted" \in notices[o]
            => delivery[o] = "DELIVERED"

(* A rejected order holds nothing in any service, now or later: the reject *)
(* path of compensate() sends no compensation.                             *)
RejectedHoldsNothing ==
    \A o \in Orders :
        "OrderRejected" \in notices[o] =>
            /\ reservation[o] = "NONE"
            /\ payment[o] = "NONE"
            /\ assignment[o] = "NONE"

(* Nothing is undone for an order that was not cancelled: a hold is voided *)
(* only after the customer was sent OrderCancelled, and portions go back   *)
(* only after it or when the reservation's TTL lapsed.                     *)
UndoneOnlyWhenCancelled ==
    \A o \in Orders :
        /\ payment[o] = "VOIDED" => "OrderCancelled" \in notices[o]
        /\ reservation[o] = "RELEASED" /\ o \notin Expiring =>
              "OrderCancelled" \in notices[o]

(* drops_portions_balance, which no statement of the service relies on: a  *)
(* portion is neither lost nor duplicated in the counters.                 *)
Balance == \A d \in Drops : available[d] + reserved[d] = Total[d]
-----------------------------------------------------------------------------
(* Why the properties above hold: what each message and each open          *)
(* transaction says about the tables of the other services.  Together with *)
(* TypeOK this is inductive.                                               *)

Says(m, step, kinds) == m.step = step /\ m.kind \in kinds

(* A message is sent only after what caused it, and no service takes that  *)
(* back (a reservation or a payment never goes back to "NONE").            *)
Caused(m) ==
    /\ Says(m, "ReservePortions", {"ok"}) => reservation[m.order] # "NONE"
    /\ Says(m, "ReservePortions", {"failed"}) => reservation[m.order] = "NONE"
    /\ Says(m, "AuthorizePayment", {"command", "ok", "failed"}) =>
          reservation[m.order] # "NONE"
    /\ Says(m, "AuthorizePayment", {"ok"}) => payment[m.order] # "NONE"
    /\ Says(m, "AcceptOrder", {"command", "ok", "failed"}) =>
          payment[m.order] # "NONE"
    /\ Says(m, "AcceptOrder", {"ok"}) =>
          reservation[m.order] \in {"CONFIRMED", "RELEASED"}
    /\ Says(m, "AssignCourier", {"command", "ok", "failed"}) =>
          /\ payment[m.order] # "NONE"
          /\ reservation[m.order] \in {"CONFIRMED", "RELEASED"}
    /\ m.step \in {"DeliveryDelivered", "CapturePayment"} =>
          delivery[m.order] = "DELIVERED"
    /\ m.step \in {"VoidPayment", "ReleasePortions"} =>
          "OrderCancelled" \in notices[m.order]

MessagesHaveCauses == \A m \in sent : Caused(m)

(* An answer was sent when its command was consumed, and the one command   *)
(* that reserves portions is the first of the saga.                        *)
AnswersHaveCommands ==
    \A m \in sent :
        /\ m.kind \in {"ok", "failed"} => [m EXCEPT !.kind = "command"] \in inbox
        /\ m.step = "ReservePortions" => m.from = 0

(* What a transaction read still holds in the part its writes rely on.      *)
TransactionsHaveCauses ==
    /\ \A m \in ktx : reservation[m.order] # "NONE"
    /\ \A m \in ktx \cap Sweeps : m.order \in Expiring
    /\ \A m \in ktx \ Sweeps : m \in sent /\ m.step = "ReleasePortions"
    /\ \A m \in ptx : m \in sent /\ m.step = "VoidPayment" /\ payment[m.order] # "NONE"
    /\ \A o \in Orders, k \in Timers :
          timers[o][k] = "open" => delivery[o] # "NONE"

(* The tables of the services agree.                                        *)
TablesAgree ==
    \A o \in Orders :
        /\ delivery[o] = "NONE" <=> assignment[o] = "NONE"
        /\ reservation[o] # "NONE" =>
              Reply(Command("ReservePortions", o, 0), "ok") \in sent
        /\ "OrderRejected" \in notices[o] =>
              Reply(Command("ReservePortions", o, 0), "failed") \in sent

IInv ==
    /\ TypeOK
    /\ MessagesHaveCauses
    /\ AnswersHaveCommands
    /\ TransactionsHaveCauses
    /\ TablesAgree
    /\ AnsweredOnce
    /\ StepsInOrder
    /\ ChargedOnlyAfterDelivery
    /\ UndoneOnlyWhenCancelled
    /\ Balance
-----------------------------------------------------------------------------
(* What the saga promises an order nobody cancels.                          *)

(* A failed step is compensated in full: of what a cancelled order had     *)
(* acquired, each thing is undone or the command that undoes it is on its  *)
(* way (compensate() reads every id it needs).                             *)
Compensated ==
    \A o \in Orders :
        order[o] = "CANCELLED" /\ cancels[o] = 0 =>
            /\ payment[o] = "AUTHORIZED" => UnderWay(o, "VoidPayment")
            /\ reservation[o] \in {"HELD", "CONFIRMED"} =>
                  UnderWay(o, "ReleasePortions")
            /\ assignment[o] # "ACCEPTED"

(* The books agree at the end: a completed order was charged, and one that *)
(* was not completed never is.                                             *)
SettledAccounts ==
    \A o \in Orders :
        cancels[o] = 0 =>
            /\ order[o] = "COMPLETED" => payment[o] = "CAPTURED"
            /\ order[o] \in {"CANCELLED", "REJECTED"} => payment[o] # "CAPTURED"

(* The customer never hears two endings, nor an ending that skips the      *)
(* confirmation, even when a delivery is reported twice.                   *)
OneEnding ==
    \A o \in Orders :
        cancels[o] = 0 =>
            /\ Cardinality(notices[o] \cap
                 {"OrderCompleted", "OrderCancelled", "OrderRejected"}) <= 1
            /\ "OrderCompleted" \in notices[o] => "OrderConfirmed" \in notices[o]
-----------------------------------------------------------------------------
(* Liveness, under Fairness.                                                *)

(* Every order comes to rest: it ends, or it waits at COURIER_ASSIGNED; no *)
(* race leaves it for ever at another step with nothing under way.  (That  *)
(* the delivery it waits for was lost is CaptureFollowsDelivery's.)         *)
ComesToRest ==
    \A o \in Orders :
        <>[](order[o] \in TERMINAL \cup {"NONE", "COURIER_ASSIGNED"})

(* The compensations of a failed step are carried out in the end.           *)
CompensationFinishes ==
    \A o \in Orders :
        (order[o] = "CANCELLED" /\ cancels[o] = 0) ~>
            /\ payment[o] # "AUTHORIZED"
            /\ reservation[o] \notin {"HELD", "CONFIRMED"}

(* Seen from outside an order nobody cancels follows the lifecycle: it     *)
(* moves one status at a time, leaves no ending, and stops only at an end  *)
(* or at the courier.                                                      *)
Uncancelled == {o \in Orders : MaxCancels[o] = 0}
Lifecycle == INSTANCE OrderLifecycle
    WITH Orders <- Uncancelled, status <- [o \in Uncancelled |-> order[o]]

FollowsLifecycle == Lifecycle!Spec

(* A delivery that was assigned is completed.                               *)
DeliveryCompletes ==
    \A o \in Orders : delivery[o] = "ASSIGNED" ~> delivery[o] = "DELIVERED"
-----------------------------------------------------------------------------
(* What the repository says and the interleavings above contradict: each   *)
(* of these is checked to be violated.                                     *)

(* "void hold": once everything sent for a cancelled order is handled, its *)
(* payment is not held any more.                                           *)
CancelVoidsHold ==
    \A o \in Orders :
        order[o] = "CANCELLED" /\ payment[o] = "AUTHORIZED" =>
            \/ \E m \in sent \ inbox : m.order = o
            \/ \E t \in otx : t.msg.order = o

(* "Customer cancellation is allowed only before the kitchen starts        *)
(* cooking": the customer's cancel moves only such orders (or is repeated).*)
CancelOnlyBeforeCooking ==
    [][\A o \in Orders :
          /\ saga[o].lastError # "CANCELLED_BY_CUSTOMER"
          /\ saga'[o].lastError = "CANCELLED_BY_CUSTOMER"
          => order[o] \in CANCELLABLE \cup {"CANCELLED"}]_vars

(* "on delivery it issues the final CapturePayment": an order whose        *)
(* delivery event is not on its way any more does not wait for it.         *)
CaptureFollowsDelivery ==
    \A o \in Orders :
        delivery[o] = "DELIVERED" /\ order[o] = "COURIER_ASSIGNED" =>
            UnderWay(o, "DeliveryDelivered")

(* "Confirmed reservations are untouched" by the sweeper, which is the     *)
(* only one to release portions without consuming a message.               *)
SweepSparesConfirmed ==
    [][\A o \in Orders :
          reservation[o] = "CONFIRMED" /\ reservation'[o] = "RELEASED"
          => inbox' # inbox]_vars

(* "void a not-yet-captured hold": a captured payment is not voided.        *)
VoidSparesCaptured ==
    [][\A o \in Orders :
          payment[o] = "CAPTURED" => payment'[o] # "VOIDED"]_vars
=============================================================================
