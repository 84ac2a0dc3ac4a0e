------------------------------ MODULE Contracts ------------------------------
(***************************************************************************)
(* The vocabulary shared by the services (packages/contracts) and the      *)
(* messaging every service builds on: a message is an outbox row written   *)
(* in the transaction that changed the state, and it is consumed in a      *)
(* transaction that also writes its id to the inbox.                       *)
(*                                                                         *)
(* RabbitMQ delivers at least once and a NestJS consumer handles the       *)
(* messages of its queue concurrently (no prefetch, manual ack), so a      *)
(* message may be handled at any time after it is sent, in any order, and  *)
(* by several handlers at once.  Only one of them commits: the inbox has   *)
(* a unique key.  Sent messages are therefore kept for ever, and a message *)
(* is pending until it is in the inbox.                                    *)
(***************************************************************************)
EXTENDS Naturals

CONSTANT Orders         \* the orders customers may place

VARIABLES
    sent,               \* every saga message ever written to an outbox
    inbox               \* the messages whose handling has committed

msgVars == << sent, inbox >>

-----------------------------------------------------------------------------
(* The steps a participant answers, and the commands it does not answer.   *)

SagaSteps == {"ReservePortions", "AuthorizePayment", "AcceptOrder",
              "AssignCourier", "CapturePayment"}

Compensations == {"ReleasePortions", "VoidPayment", "RefundPayment",
                  "UnassignCourier"}

(* The reason each failed reply carries.                                    *)
Reason == [ step \in SagaSteps |->
              CASE step = "ReservePortions"  -> "SOLD_OUT"
                [] step = "AuthorizePayment" -> "PAYMENT_DECLINED"
                [] step = "AssignCourier"    -> "NO_COURIER"
                [] OTHER                     -> "saga step failed" ]

(* A message names its order; "from" tells apart the messages of one kind  *)
(* an order may receive more than once: 0 is the saga itself, k the k-th   *)
(* cancel request or delivery timer the message goes back to.  Payloads    *)
(* are left out: a reservation, a payment and an assignment are found by   *)
(* their order.                                                            *)
Command(step, o, from) ==
    [kind |-> "command", step |-> step, order |-> o, from |-> from]

(* The reply of a participant to the command c.                             *)
Reply(c, status) == [c EXCEPT !.kind = status]

Delivered(o, timer) ==
    [kind |-> "event", step |-> "DeliveryDelivered", order |-> o, from |-> timer]

Messages ==
    [ kind : {"command"}, step : SagaSteps \cup Compensations,
      order : Orders, from : Nat ]
    \cup
    [ kind : {"ok", "failed"}, step : SagaSteps, order : Orders, from : Nat ]
    \cup
    [ kind : {"event"}, step : {"DeliveryDelivered"}, order : Orders, from : Nat ]

Pending(m) == m \in sent \ inbox

SentFor(o) == {m \in sent : m.order = o}

(* A command reaches a handler of the service whose queue it is routed to.  *)
Arrives(m, step) == Pending(m) /\ m.kind = "command" /\ m.step = step

(* The tail of every consume(): the replies and commands the handler made  *)
(* go to the outbox and the message id to the inbox, in one transaction.   *)
Consume(m, out) ==
    /\ Pending(m)
    /\ inbox' = inbox \cup {m}
    /\ sent' = sent \cup out

MessagingInit ==
    /\ sent = {}
    /\ inbox = {}

MessagingTypeOK ==
    /\ sent \subseteq Messages
    /\ inbox \subseteq sent
=============================================================================
