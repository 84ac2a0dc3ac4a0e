---------------------------- MODULE Orchestrator ----------------------------
(***************************************************************************)
(* The order service: placeOrder and the SagaOrchestrator, a durable state *)
(* machine driven by saga replies, the delivery event and the customer's   *)
(* cancel request.                                                         *)
(*                                                                         *)
(* A handler is a database transaction at Postgres' default isolation,     *)
(* READ COMMITTED, that reads the order and its saga without locking them, *)
(* decides, and then writes both rows unconditionally.  Another            *)
(* transaction may commit in between, so a handler is two steps here: its  *)
(* reads open a transaction (Receive, RequestCancel), which remembers what *)
(* it read, and its writes commit it.  A transaction that never commits is *)
(* one that was rolled back by a crash or an error; a message redelivered  *)
(* before it is consumed opens another one.                                *)
(***************************************************************************)
EXTENDS Contracts

CONSTANT MaxCancels     \* bound: cancel requests per order
ASSUME CancelsAssumption == MaxCancels \in [Orders -> Nat]

VARIABLES
    order,              \* order[o]: the status column of the order's row
    saga,               \* saga[o]: the saga instance's row
    notices,            \* notices[o]: order events written to the outbox
    cancels,            \* cancels[o]: cancel requests received
    otx                 \* the open transactions

orchestratorVars == << order, saga, notices, cancels, otx >>

OrderStatus == {"PLACED", "PORTIONS_RESERVED", "PAYMENT_AUTHORIZED",
                "PREPARING", "COURIER_ASSIGNED", "DELIVERED",
                "COMPLETED", "CANCELLED", "REJECTED"}

TERMINAL == {"COMPLETED", "CANCELLED", "REJECTED"}
CANCELLABLE == {"PLACED", "PORTIONS_RESERVED", "PAYMENT_AUTHORIZED"}

(* What the saga row points to: reservationId, paymentId, assignmentId.     *)
Resources == {"reservation", "payment", "assignment"}

(* SagaInstance.lastError; the compensating flag is set together with it.   *)
Errors == {"none", "CANCELLED_BY_CUSTOMER"} \cup {Reason[s] : s \in SagaSteps}

Sagas == [ step      : SagaSteps \cup {"NONE", "AwaitDelivery", "Completed"},
           acquired  : SUBSET Resources,
           lastError : Errors ]

(* Order events: one StatusChanged per transition, named by the status it  *)
(* announces, and the four business events.                                *)
Notices == OrderStatus \cup {"OrderConfirmed", "OrderCompleted",
                             "OrderCancelled", "OrderRejected"}

(* A cancel request is a gRPC call, not a message of the outbox.            *)
CancelRequest(o, k) ==
    [kind |-> "request", step |-> "CancelOrder", order |-> o, from |-> k]

CancelRequests ==
    [kind : {"request"}, step : {"CancelOrder"}, order : Orders, from : Nat]

OrderTransactions ==
    [ msg      : Messages \cup CancelRequests,
      status   : OrderStatus,          \* order.status as it was read
      acquired : SUBSET Resources ]    \* the ids of the saga as it was read

OrchestratorTypeOK ==
    /\ order \in [Orders -> OrderStatus \cup {"NONE"}]
    /\ saga \in [Orders -> Sagas]
    /\ notices \in [Orders -> SUBSET Notices]
    /\ cancels \in [Orders -> Nat]
    /\ otx \subseteq OrderTransactions

OrchestratorInit ==
    /\ order = [o \in Orders |-> "NONE"]
    /\ saga = [o \in Orders |->
                 [step |-> "NONE", acquired |-> {}, lastError |-> "none"]]
    /\ notices = [o \in Orders |-> {}]
    /\ cancels = [o \in Orders |-> 0]
    /\ otx = {}
-----------------------------------------------------------------------------
(* OrderService.placeOrder: order, saga and first command in one commit.    *)
PlaceOrder(o) ==
    /\ order[o] = "NONE"
    /\ order' = [order EXCEPT ![o] = "PLACED"]
    /\ saga' = [saga EXCEPT ![o].step = "ReservePortions"]
    /\ sent' = sent \cup {Command("ReservePortions", o, 0)}
    /\ UNCHANGED << inbox, notices, cancels, otx >>

(* The first half of every handler: begin, and read the order's rows.       *)
Begin(m) ==
    /\ otx' = otx \cup {[ msg |-> m, status |-> order[m.order],
                          acquired |-> saga[m.order].acquired ]}
    /\ UNCHANGED << sent, inbox, order, saga, notices >>

(* A reply or a delivery event reaches the order.saga queue's consumer.     *)
Receive(m) ==
    /\ Pending(m)
    /\ m.kind # "command"
    /\ order[m.order] # "NONE"
    /\ Begin(m)
    /\ UNCHANGED cancels

(* The customer asks to cancel; a request the status just read refuses is  *)
(* answered (ok if it is CANCELLED already, else FAILED_PRECONDITION) and  *)
(* leaves nothing behind.                                                  *)
RequestCancel(o) ==
    /\ cancels[o] < MaxCancels[o]
    /\ order[o] \in CANCELLABLE
    /\ cancels' = [cancels EXCEPT ![o] = @ + 1]
    /\ Begin(CancelRequest(o, cancels[o] + 1))

(* The saga row is read by a statement of its own, after the order's: what *)
(* it returns may be newer.                                                *)
ReadSaga(t) ==
    /\ t \in otx
    /\ otx' = (otx \ {t}) \cup
                {[t EXCEPT !.acquired = saga[t.msg.order].acquired]}
    /\ UNCHANGED << sent, inbox, order, saga, notices, cancels >>
-----------------------------------------------------------------------------
(* The second half: setStatus with its StatusChanged event, the update of  *)
(* the saga row and the other events.  The writes ignore what the rows     *)
(* hold by now.                                                            *)
Write(o, status, sagaRow, events) ==
    /\ order' = [order EXCEPT ![o] = status]
    /\ saga' = [saga EXCEPT ![o] = sagaRow]
    /\ notices' = [notices EXCEPT ![o] = @ \cup {status} \cup events]

(* The commit of a handler started by a message.  The loser of two         *)
(* handlers of one message cannot insert the inbox row and rolls back.     *)
CommitMessage(t, out) ==
    /\ t \in otx
    /\ Consume(t.msg, out)
    /\ otx' = {u \in otx : u.msg # t.msg}
    /\ UNCHANGED cancels

IsReply(t, step, status) == t.msg.step = step /\ t.msg.kind = status
Sends(t, step) == {Command(step, t.msg.order, t.msg.from)}
Proceeds(t) == t.status \notin TERMINAL

(* Definitions marked "Fault" are not the code: each is a plausible bug,   *)
(* put in the place of the definition it precedes to see a property fail.  *)

(* advance(): one action per case of its switch.                            *)
(* Fault: the kitchen is asked to accept before the payment is held.        *)
PortionsReservedAccepts(t) ==
    /\ IsReply(t, "ReservePortions", "ok") /\ Proceeds(t)
    /\ CommitMessage(t, Sends(t, "AcceptOrder"))
    /\ Write(t.msg.order, "PORTIONS_RESERVED", saga[t.msg.order], {})

PortionsReserved(t) ==
    LET o == t.msg.order IN
    /\ IsReply(t, "ReservePortions", "ok") /\ Proceeds(t)
    /\ CommitMessage(t, Sends(t, "AuthorizePayment"))
    /\ Write(o, "PORTIONS_RESERVED",
             [saga[o] EXCEPT !.step = "AuthorizePayment",
                             !.acquired = @ \cup {"reservation"}], {})

(* Fault: the next command is not written to the outbox.                    *)
PaymentAuthorizedStops(t) ==
    /\ IsReply(t, "AuthorizePayment", "ok") /\ Proceeds(t)
    /\ CommitMessage(t, {})
    /\ Write(t.msg.order, "PAYMENT_AUTHORIZED",
             [saga[t.msg.order] EXCEPT !.acquired = @ \cup {"payment"}], {})

PaymentAuthorized(t) ==
    LET o == t.msg.order IN
    /\ IsReply(t, "AuthorizePayment", "ok") /\ Proceeds(t)
    /\ CommitMessage(t, Sends(t, "AcceptOrder"))
    /\ Write(o, "PAYMENT_AUTHORIZED",
             [saga[o] EXCEPT !.step = "AcceptOrder",
                             !.acquired = @ \cup {"payment"}], {})

(* Fault: the customer is not told that the order is confirmed.             *)
OrderAcceptedQuietly(t) ==
    /\ IsReply(t, "AcceptOrder", "ok") /\ Proceeds(t)
    /\ CommitMessage(t, Sends(t, "AssignCourier"))
    /\ Write(t.msg.order, "PREPARING", saga[t.msg.order], {})

OrderAccepted(t) ==
    LET o == t.msg.order IN
    /\ IsReply(t, "AcceptOrder", "ok") /\ Proceeds(t)
    /\ CommitMessage(t, Sends(t, "AssignCourier"))
    /\ Write(o, "PREPARING", [saga[o] EXCEPT !.step = "AssignCourier"],
             {"OrderConfirmed"})

(* Fault: the payment is captured when the courier takes the order.         *)
CourierAssignedCaptures(t) ==
    /\ IsReply(t, "AssignCourier", "ok") /\ Proceeds(t)
    /\ CommitMessage(t, Sends(t, "CapturePayment"))
    /\ Write(t.msg.order, "COURIER_ASSIGNED",
             [saga[t.msg.order] EXCEPT !.acquired = @ \cup {"assignment"}], {})

CourierAssigned(t) ==
    LET o == t.msg.order IN
    /\ IsReply(t, "AssignCourier", "ok") /\ Proceeds(t)
    /\ CommitMessage(t, {})
    /\ Write(o, "COURIER_ASSIGNED",
             [saga[o] EXCEPT !.step = "AwaitDelivery",
                             !.acquired = @ \cup {"assignment"}], {})

PaymentCaptured(t) ==
    LET o == t.msg.order IN
    /\ IsReply(t, "CapturePayment", "ok") /\ Proceeds(t)
    /\ CommitMessage(t, {})
    /\ Write(o, "COMPLETED", [saga[o] EXCEPT !.step = "Completed"],
             {"OrderCompleted"})

(* Fault: any failed step rejects the order.                                *)
RejectAny(t) ==
    /\ t.msg.kind = "failed" /\ Proceeds(t)
    /\ CommitMessage(t, {})
    /\ Write(t.msg.order, "REJECTED", saga[t.msg.order], {"OrderRejected"})

(* compensate(): sold out at reservation, nothing was acquired.             *)
Reject(t) ==
    LET o == t.msg.order IN
    /\ IsReply(t, "ReservePortions", "failed") /\ Proceeds(t)
    /\ CommitMessage(t, {})
    /\ Write(o, "REJECTED", [saga[o] EXCEPT !.lastError = "SOLD_OUT"],
             {"OrderRejected"})

(* Fault: the compensations stop at the first one.                          *)
UndoFirst(t, resources) ==
    IF "payment" \in resources \cap t.acquired
    THEN {Command("VoidPayment", t.msg.order, t.msg.from)}
    ELSE {Command("ReleasePortions", t.msg.order, t.msg.from) :
              r \in resources \cap t.acquired}

(* The compensations of the resources a transaction read as acquired.       *)
Undo(t, resources) ==
    {Command(CASE r = "assignment"  -> "UnassignCourier"
               [] r = "payment"     -> "VoidPayment"
               [] r = "reservation" -> "ReleasePortions",
             t.msg.order, t.msg.from) : r \in resources \cap t.acquired}

(* Fault: the order is compensated and the customer not told.               *)
CompensateQuietly(t) ==
    /\ t.msg.kind = "failed" /\ t.msg.step # "ReservePortions" /\ Proceeds(t)
    /\ CommitMessage(t, Undo(t, Resources))
    /\ Write(t.msg.order, "CANCELLED", saga[t.msg.order], {})

(* compensate(): any later failure undoes what was acquired and cancels.    *)
Compensate(t) ==
    LET o == t.msg.order IN
    /\ t.msg.kind = "failed" /\ t.msg.step # "ReservePortions" /\ Proceeds(t)
    /\ CommitMessage(t, Undo(t, Resources))
    /\ Write(o, "CANCELLED",
             [saga[o] EXCEPT !.lastError = Reason[t.msg.step]],
             {"OrderCancelled"})

(* onReply on an order it read as terminal: the reply is only consumed.     *)
IgnoreReply(t) ==
    /\ t.msg.kind \in {"ok", "failed"} /\ ~Proceeds(t)
    /\ CommitMessage(t, {})
    /\ UNCHANGED << order, saga, notices >>

(* Fault: the status is not looked at.                                      *)
AwaitsDeliveryAlways(t) == "payment" \in t.acquired

AwaitsDelivery(t) == t.status = "COURIER_ASSIGNED" /\ "payment" \in t.acquired

(* Fault: the order is completed before the capture is answered.            *)
OnDeliveredCompletes(t) ==
    /\ t.msg.kind = "event" /\ AwaitsDelivery(t)
    /\ CommitMessage(t, Sends(t, "CapturePayment"))
    /\ Write(t.msg.order, "COMPLETED", saga[t.msg.order], {"OrderCompleted"})

(* onDelivered: on delivery the hold is captured ...                        *)
OnDelivered(t) ==
    LET o == t.msg.order IN
    /\ t.msg.kind = "event" /\ AwaitsDelivery(t)
    /\ CommitMessage(t, Sends(t, "CapturePayment"))
    /\ Write(o, "DELIVERED", [saga[o] EXCEPT !.step = "CapturePayment"], {})

(* ... unless the order is not awaiting it: the event is only consumed.     *)
IgnoreDelivered(t) ==
    /\ t.msg.kind = "event" /\ ~AwaitsDelivery(t)
    /\ CommitMessage(t, {})
    /\ UNCHANGED << order, saga, notices >>

(* cancelOrder's commit: it sends the compensations of what it read.        *)
CommitCancel(t) ==
    LET o == t.msg.order IN
    /\ t \in otx
    /\ t.msg.kind = "request"
    /\ otx' = otx \ {t}
    /\ sent' = sent \cup Undo(t, {"payment", "reservation"})
    /\ Write(o, "CANCELLED",
             [saga[o] EXCEPT !.lastError = "CANCELLED_BY_CUSTOMER"],
             {"OrderCancelled"})
    /\ UNCHANGED << inbox, cancels >>
-----------------------------------------------------------------------------
CommitReply(t) ==
    \/ PortionsReserved(t)
    \/ PaymentAuthorized(t)
    \/ OrderAccepted(t)
    \/ CourierAssigned(t)
    \/ PaymentCaptured(t)
    \/ Reject(t)
    \/ Compensate(t)
    \/ IgnoreReply(t)
    \/ OnDelivered(t)
    \/ IgnoreDelivered(t)

(* What the service does with the messages an order sends it.               *)
OrchestratorHandles(o) ==
    \/ \E m \in SentFor(o) : Receive(m)
    \/ \E t \in otx : t.msg.order = o /\ CommitReply(t)

(* What customers ask, and reads that come late.                            *)
CustomerActs ==
    \/ \E o \in Orders : PlaceOrder(o) \/ RequestCancel(o)
    \/ \E t \in otx : CommitCancel(t) \/ ReadSaga(t)
-----------------------------------------------------------------------------
UnderWay(o, step) == \E m \in sent \ inbox : m.order = o /\ m.step = step

(* The step whose command, answer or event takes an order on from a status. *)
Awaited ==
    [ PLACED             |-> "ReservePortions",
      PORTIONS_RESERVED  |-> "AuthorizePayment",
      PAYMENT_AUTHORIZED |-> "AcceptOrder",
      PREPARING          |-> "AssignCourier",
      DELIVERED          |-> "CapturePayment" ]

(* No race leaves an order at a step with nothing under way that would     *)
(* take it on: whichever handlers read old statuses, lose their inbox row  *)
(* or overwrite a cancellation, the status the last of them wrote has its  *)
(* command or that command's answer on the way (the writes of advance()    *)
(* and onDelivered and their outbox rows, in one transaction).             *)
NeverStalls ==
    \A o \in Orders : order[o] \in DOMAIN Awaited => UnderWay(o, Awaited[order[o]])
=============================================================================
