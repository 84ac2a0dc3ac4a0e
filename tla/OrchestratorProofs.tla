------------------------- MODULE OrchestratorProofs -------------------------
(***************************************************************************)
(* What the order service's steps keep, whichever services and customers   *)
(* it is composed with: the types of its tables, and what no transition    *)
(* of an order takes back.                                                  *)
(***************************************************************************)
EXTENDS Orchestrator, TLAPS

(***************************************************************************)
(* Types.                                                                  *)
(***************************************************************************)

(* Replies and commands are messages.                                       *)
LEMMA ReplyType ==
    ASSUME NEW m \in Messages, NEW step \in SagaSteps, Arrives(m, step)
    PROVE  {Reply(m, "ok"), Reply(m, "failed")} \subseteq Messages
BY DEF Reply, Messages, Arrives

LEMMA CommandType ==
    ASSUME NEW o \in Orders, NEW step \in SagaSteps \cup Compensations, NEW k \in Nat
    PROVE  Command(step, o, k) \in Messages
BY DEF Command, Messages

(* Consuming a message with well-typed output keeps the messaging's types.  *)
LEMMA ConsumeType ==
    ASSUME MessagingTypeOK, NEW m, NEW out \in SUBSET Messages, Consume(m, out)
    PROVE  MessagingTypeOK' /\ m \in Messages
BY DEF MessagingTypeOK, Consume, Pending

(* The writes of a transition keep the types of the order's rows.           *)
LEMMA WriteType ==
    ASSUME OrchestratorTypeOK, NEW o \in Orders, NEW status \in OrderStatus,
           NEW row \in Sagas, NEW events \in SUBSET Notices,
           Write(o, status, row, events)
    PROVE  /\ order' \in [Orders -> OrderStatus \cup {"NONE"}]
           /\ saga' \in [Orders -> Sagas]
           /\ notices' \in [Orders -> SUBSET Notices]
<1>1. status \in Notices
  BY DEF Notices
<1>2. QED
  BY <1>1 DEF Write, OrchestratorTypeOK

(* A handler's commit only closes transactions.                             *)
LEMMA CommitType ==
    ASSUME MessagingTypeOK, OrchestratorTypeOK, NEW t \in otx,
           NEW out \in SUBSET Messages, CommitMessage(t, out)
    PROVE  /\ MessagingTypeOK'
           /\ cancels' \in [Orders -> Nat] /\ otx' \subseteq OrderTransactions
           /\ t.msg \in Messages /\ t.msg.order \in Orders
<1>1. MessagingTypeOK' /\ t.msg \in Messages
  BY ConsumeType DEF CommitMessage
<1>2. QED
  BY <1>1 DEF CommitMessage, OrchestratorTypeOK, Messages

(* The commands a transaction sends are messages.                           *)
LEMMA UndoType ==
    ASSUME NEW t \in OrderTransactions, NEW resources \in SUBSET Resources
    PROVE  Undo(t, resources) \subseteq Messages
<1>1. t.msg.order \in Orders /\ t.msg.from \in Nat
  BY DEF OrderTransactions, Messages, CancelRequests
<1>2. ASSUME NEW r \in resources \cap t.acquired
      PROVE  (CASE r = "assignment"  -> "UnassignCourier"
                [] r = "payment"     -> "VoidPayment"
                [] r = "reservation" -> "ReleasePortions") \in Compensations
  BY DEF Resources, Compensations
<1>3. QED
  BY <1>1, <1>2, CommandType DEF Undo

LEMMA SendsType ==
    ASSUME NEW t \in OrderTransactions, NEW step \in SagaSteps
    PROVE  Sends(t, step) \subseteq Messages
<1>1. t.msg.order \in Orders /\ t.msg.from \in Nat
  BY DEF OrderTransactions, Messages, CancelRequests
<1>2. QED
  BY <1>1, CommandType DEF Sends

(* Opening a transaction records well-typed reads.                          *)
LEMMA BeginType ==
    ASSUME MessagingTypeOK, OrchestratorTypeOK, NEW m \in Messages \cup CancelRequests,
           order[m.order] # "NONE", Begin(m), cancels' \in [Orders -> Nat]
    PROVE  MessagingTypeOK' /\ OrchestratorTypeOK'
<1>1. m.order \in Orders
  BY DEF Messages, CancelRequests
<1>2. order[m.order] \in OrderStatus /\ saga[m.order].acquired \in SUBSET Resources
  BY <1>1 DEF OrchestratorTypeOK, Sagas
<1>3. [msg |-> m, status |-> order[m.order], acquired |-> saga[m.order].acquired]
        \in OrderTransactions
  BY <1>2 DEF OrderTransactions
<1>4. QED
  BY <1>3 DEF Begin, MessagingTypeOK, OrchestratorTypeOK

LEMMA CommitReplyTypes ==
    ASSUME MessagingTypeOK, OrchestratorTypeOK, NEW t \in otx, CommitReply(t)
    PROVE  MessagingTypeOK' /\ OrchestratorTypeOK'
<1> DEFINE o == t.msg.order
<1>1. t \in OrderTransactions /\ o \in Orders
  BY DEF OrchestratorTypeOK, OrderTransactions, Messages, CancelRequests
<1>2. saga[o] \in Sagas
  BY <1>1 DEF OrchestratorTypeOK
<1>3. /\ \A step \in SagaSteps : Sends(t, step) \in SUBSET Messages
      /\ Undo(t, Resources) \in SUBSET Messages
  BY <1>1, SendsType, UndoType
<1>4. /\ {"AuthorizePayment", "AcceptOrder", "AssignCourier", "CapturePayment"} \subseteq SagaSteps
      /\ {"OrderConfirmed", "OrderCompleted", "OrderCancelled", "OrderRejected"} \subseteq Notices
      /\ {"PORTIONS_RESERVED", "PAYMENT_AUTHORIZED", "PREPARING", "COURIER_ASSIGNED",
          "DELIVERED", "COMPLETED", "CANCELLED", "REJECTED"} \subseteq OrderStatus
  BY DEF SagaSteps, Notices, OrderStatus
<1>5. ASSUME NEW out \in SUBSET Messages, CommitMessage(t, out),
             NEW status \in OrderStatus, NEW row \in Sagas,
             NEW events \in SUBSET Notices, Write(o, status, row, events)
      PROVE  MessagingTypeOK' /\ OrchestratorTypeOK'
  BY <1>1, <1>5, CommitType, WriteType DEF OrchestratorTypeOK
<1>6. CASE PortionsReserved(t)
  <2>1. [saga[o] EXCEPT !.step = "AuthorizePayment", !.acquired = @ \cup {"reservation"}] \in Sagas
    BY <1>2, <1>4 DEF Sagas, Resources
  <2>2. QED
    BY <1>3, <1>4, <1>5, <1>6, <2>1 DEF PortionsReserved
<1>7. CASE PaymentAuthorized(t)
  <2>1. [saga[o] EXCEPT !.step = "AcceptOrder", !.acquired = @ \cup {"payment"}] \in Sagas
    BY <1>2, <1>4 DEF Sagas, Resources
  <2>2. QED
    BY <1>3, <1>4, <1>5, <1>7, <2>1 DEF PaymentAuthorized
<1>8. CASE OrderAccepted(t)
  <2>1. [saga[o] EXCEPT !.step = "AssignCourier"] \in Sagas
    BY <1>2, <1>4 DEF Sagas
  <2>2. QED
    BY <1>3, <1>4, <1>5, <1>8, <2>1 DEF OrderAccepted
<1>9. CASE CourierAssigned(t)
  <2>1. [saga[o] EXCEPT !.step = "AwaitDelivery", !.acquired = @ \cup {"assignment"}] \in Sagas
    BY <1>2 DEF Sagas, Resources
  <2>2. QED
    BY <1>4, <1>5, <1>9, <2>1 DEF CourierAssigned
<1>10. CASE PaymentCaptured(t)
  <2>1. [saga[o] EXCEPT !.step = "Completed"] \in Sagas
    BY <1>2 DEF Sagas
  <2>2. QED
    BY <1>4, <1>5, <1>10, <2>1 DEF PaymentCaptured
<1>11. CASE Reject(t)
  <2>1. [saga[o] EXCEPT !.lastError = "SOLD_OUT"] \in Sagas
    BY <1>2 DEF Sagas, Errors, Reason, SagaSteps
  <2>2. QED
    BY <1>4, <1>5, <1>11, <2>1 DEF Reject
<1>12. CASE Compensate(t)
  <2>1. t.msg.step \in SagaSteps
    <3>1. t.msg \in Messages
      BY <1>3, <1>12, CommitType DEF Compensate
    <3>2. t.msg.kind = "failed"
      BY <1>12 DEF Compensate
    <3>3. QED
      BY <3>1, <3>2 DEF Messages
  <2>2. [saga[o] EXCEPT !.lastError = Reason[t.msg.step]] \in Sagas
    BY <1>2, <2>1 DEF Sagas, Errors
  <2>3. QED
    BY <1>3, <1>4, <1>5, <1>12, <2>2 DEF Compensate
<1>13. CASE IgnoreReply(t) \/ IgnoreDelivered(t)
  BY <1>1, <1>13, CommitType DEF IgnoreReply, IgnoreDelivered, OrchestratorTypeOK
<1>14. CASE OnDelivered(t)
  <2>1. [saga[o] EXCEPT !.step = "CapturePayment"] \in Sagas
    BY <1>2, <1>4 DEF Sagas
  <2>2. QED
    BY <1>3, <1>4, <1>5, <1>14, <2>1 DEF OnDelivered
<1>15. QED
  BY <1>6, <1>7, <1>8, <1>9, <1>10, <1>11, <1>12, <1>13, <1>14 DEF CommitReply

LEMMA OrchestratorTypes ==
    ASSUME MessagingTypeOK, OrchestratorTypeOK, NEW o \in Orders, OrchestratorHandles(o)
    PROVE  MessagingTypeOK' /\ OrchestratorTypeOK'
<1>1. ASSUME NEW m \in SentFor(o), Receive(m)
      PROVE  MessagingTypeOK' /\ OrchestratorTypeOK'
  <2>1. m \in Messages
    BY DEF SentFor, MessagingTypeOK
  <2>2. QED
    BY <1>1, <2>1, BeginType DEF Receive, OrchestratorTypeOK
<1>2. QED
  BY <1>1, CommitReplyTypes DEF OrchestratorHandles

LEMMA CustomerTypes ==
    ASSUME MessagingTypeOK, OrchestratorTypeOK, CustomerActs
    PROVE  MessagingTypeOK' /\ OrchestratorTypeOK'
<1>1. ASSUME NEW o \in Orders, PlaceOrder(o)
      PROVE  MessagingTypeOK' /\ OrchestratorTypeOK'
  <2>1. Command("ReservePortions", o, 0) \in Messages
    BY CommandType DEF SagaSteps
  <2>2. [saga EXCEPT ![o].step = "ReservePortions"] \in [Orders -> Sagas]
    <3>1. [saga[o] EXCEPT !.step = "ReservePortions"] \in Sagas
      BY DEF OrchestratorTypeOK, Sagas, SagaSteps
    <3>2. QED
      BY <3>1 DEF OrchestratorTypeOK
  <2>3. QED
    BY <1>1, <2>1, <2>2 DEF PlaceOrder, MessagingTypeOK, OrchestratorTypeOK, OrderStatus
<1>2. ASSUME NEW o \in Orders, RequestCancel(o)
      PROVE  MessagingTypeOK' /\ OrchestratorTypeOK'
  <2>1. cancels[o] \in Nat
    BY DEF OrchestratorTypeOK
  <2>2. CancelRequest(o, cancels[o] + 1) \in CancelRequests
    BY <2>1 DEF CancelRequest, CancelRequests
  <2>3. cancels' \in [Orders -> Nat]
    BY <1>2, <2>1 DEF RequestCancel, OrchestratorTypeOK
  <2>4. order[CancelRequest(o, cancels[o] + 1).order] # "NONE"
    BY <1>2 DEF RequestCancel, CANCELLABLE, CancelRequest
  <2>5. QED
    BY <1>2, <2>2, <2>3, <2>4, BeginType DEF RequestCancel
<1>3. ASSUME NEW t \in otx, CommitCancel(t)
      PROVE  MessagingTypeOK' /\ OrchestratorTypeOK'
  <2> DEFINE o == t.msg.order
             row == [saga[o] EXCEPT !.lastError = "CANCELLED_BY_CUSTOMER"]
  <2>1. t \in OrderTransactions /\ o \in Orders
    BY DEF OrchestratorTypeOK, OrderTransactions, Messages, CancelRequests
  <2>2. Undo(t, {"payment", "reservation"}) \subseteq Messages
    BY <2>1, UndoType DEF Resources
  <2>3. row \in Sagas
    BY <2>1 DEF OrchestratorTypeOK, Sagas, Errors
  <2>4. Write(o, "CANCELLED", row, {"OrderCancelled"})
    BY <1>3 DEF CommitCancel
  <2>5. /\ order' \in [Orders -> OrderStatus \cup {"NONE"}]
        /\ saga' \in [Orders -> Sagas]
        /\ notices' \in [Orders -> SUBSET Notices]
    <3> HIDE DEF row
    <3>1. "CANCELLED" \in OrderStatus /\ {"OrderCancelled"} \in SUBSET Notices
      BY DEF OrderStatus, Notices
    <3>2. QED
      BY <2>1, <2>3, <2>4, <3>1, WriteType
  <2>6. QED
    BY <1>3, <2>2, <2>5 DEF CommitCancel, MessagingTypeOK, OrchestratorTypeOK
<1>4. ASSUME NEW t \in otx, ReadSaga(t)
      PROVE  MessagingTypeOK' /\ OrchestratorTypeOK'
  <2>1. t \in OrderTransactions /\ t.msg.order \in Orders
    BY DEF OrchestratorTypeOK, OrderTransactions, Messages, CancelRequests
  <2>2. saga[t.msg.order].acquired \in SUBSET Resources
    BY <2>1 DEF OrchestratorTypeOK, Sagas
  <2>3. [t EXCEPT !.acquired = saga[t.msg.order].acquired] \in OrderTransactions
    BY <2>1, <2>2 DEF OrderTransactions
  <2>4. QED
    BY <1>4, <2>3 DEF ReadSaga, MessagingTypeOK, OrchestratorTypeOK
<1>5. QED
  BY <1>1, <1>2, <1>3, <1>4 DEF CustomerActs
(***************************************************************************)
(* What no transition takes back.                                          *)
(***************************************************************************)

(* Transactions are of orders that exist, a cancelled order was announced  *)
(* as such, and only an order that exists was cancelled by its customer.   *)
SoFar ==
    /\ \A t \in otx : order[t.msg.order] # "NONE"
    /\ \A o \in Orders : order[o] = "CANCELLED" => "OrderCancelled" \in notices[o]
    /\ \A o \in Orders :
          saga[o].lastError = "CANCELLED_BY_CUSTOMER" => order[o] # "NONE"

(* Orders neither appear nor disappear, and no announcement is withdrawn.   *)
KeepsOrders ==
    \A o \in Orders :
        /\ order'[o] = "NONE" <=> order[o] = "NONE"
        /\ notices[o] \subseteq notices'[o]

(* No order is marked as cancelled by its customer that was not.            *)
MarksNone ==
    \A o \in Orders :
        saga'[o].lastError = "CANCELLED_BY_CUSTOMER" =>
            saga[o].lastError = "CANCELLED_BY_CUSTOMER"

(* The writes of a transition do, if they say that they cancel.             *)
LEMMA WriteKeeps ==
    ASSUME OrchestratorTypeOK, SoFar, NEW o \in Orders, order[o] # "NONE",
           NEW status \in OrderStatus, NEW row \in Sagas, NEW events,
           status = "CANCELLED" => "OrderCancelled" \in events,
           Write(o, status, row, events), otx' \subseteq otx
    PROVE  /\ SoFar' /\ KeepsOrders
           /\ "OrderCancelled" \in events => "OrderCancelled" \in notices'[o]
           /\ \A p \in Orders \ {o} : saga'[p] = saga[p]
           /\ saga'[o] = row
<1>1. /\ order'[o] = status /\ saga'[o] = row
      /\ notices'[o] = notices[o] \cup {status} \cup events
      /\ \A p \in Orders \ {o} :
            order'[p] = order[p] /\ saga'[p] = saga[p] /\ notices'[p] = notices[p]
  BY DEF Write, OrchestratorTypeOK
<1>2. status # "NONE"
  BY DEF OrderStatus
<1>3. KeepsOrders
  BY <1>1, <1>2 DEF KeepsOrders
<1>4. \A t \in otx : t.msg.order \in Orders
  BY DEF OrchestratorTypeOK, OrderTransactions, Messages, CancelRequests
<1>5. SoFar'
  <2>1. \A t \in otx' : order'[t.msg.order] # "NONE"
    BY <1>1, <1>2, <1>4 DEF SoFar
  <2>2. \A p \in Orders : order'[p] = "CANCELLED" => "OrderCancelled" \in notices'[p]
    BY <1>1 DEF SoFar
  <2>3. \A p \in Orders :
           saga'[p].lastError = "CANCELLED_BY_CUSTOMER" => order'[p] # "NONE"
    BY <1>1, <1>2 DEF SoFar
  <2>4. QED
    BY <2>1, <2>2, <2>3 DEF SoFar
<1>6. QED
  BY <1>1, <1>3, <1>5

(* A reply or a delivery event never cancels for the customer.              *)
LEMMA CommitReplyKeepsOrders ==
    ASSUME MessagingTypeOK, OrchestratorTypeOK, SoFar, NEW t \in otx, CommitReply(t)
    PROVE  SoFar' /\ KeepsOrders /\ MarksNone
<1> DEFINE o == t.msg.order
<1>1. t \in OrderTransactions /\ o \in Orders /\ order[o] # "NONE"
  BY DEF OrchestratorTypeOK, OrderTransactions, Messages, CancelRequests, SoFar
<1>2. saga[o] \in Sagas
  BY <1>1 DEF OrchestratorTypeOK
<1>3. ASSUME NEW status \in OrderStatus, NEW row \in Sagas, NEW events,
             status = "CANCELLED" => "OrderCancelled" \in events,
             row.lastError = "CANCELLED_BY_CUSTOMER" =>
                 saga[o].lastError = "CANCELLED_BY_CUSTOMER",
             Write(o, status, row, events), otx' \subseteq otx
      PROVE  SoFar' /\ KeepsOrders /\ MarksNone
  <2>1. /\ SoFar' /\ KeepsOrders
        /\ \A p \in Orders \ {o} : saga'[p] = saga[p]
        /\ saga'[o] = row
    BY <1>1, <1>3, WriteKeeps
  <2>2. MarksNone
    BY <1>3, <2>1 DEF MarksNone
  <2>3. QED
    BY <2>1, <2>2
<1>4. ASSUME NEW out, CommitMessage(t, out)
      PROVE  otx' \subseteq otx /\ t.msg \in sent
  BY <1>4 DEF CommitMessage, Consume, Pending
<1>5. t.msg \in sent => t.msg \in Messages
  BY DEF MessagingTypeOK
<1>6. CASE PortionsReserved(t)
  <2>1. [saga[o] EXCEPT !.step = "AuthorizePayment", !.acquired = @ \cup {"reservation"}] \in Sagas
    BY <1>2 DEF Sagas, Resources, SagaSteps
  <2>2. QED
    BY <1>2, <1>3, <1>4, <1>6, <2>1 DEF PortionsReserved, Sagas, OrderStatus
<1>7. CASE PaymentAuthorized(t)
  <2>1. [saga[o] EXCEPT !.step = "AcceptOrder", !.acquired = @ \cup {"payment"}] \in Sagas
    BY <1>2 DEF Sagas, Resources, SagaSteps
  <2>2. QED
    BY <1>2, <1>3, <1>4, <1>7, <2>1 DEF PaymentAuthorized, Sagas, OrderStatus
<1>8. CASE OrderAccepted(t)
  <2>1. [saga[o] EXCEPT !.step = "AssignCourier"] \in Sagas
    BY <1>2 DEF Sagas, SagaSteps
  <2>2. QED
    BY <1>2, <1>3, <1>4, <1>8, <2>1 DEF OrderAccepted, Sagas, OrderStatus
<1>9. CASE CourierAssigned(t)
  <2>1. [saga[o] EXCEPT !.step = "AwaitDelivery", !.acquired = @ \cup {"assignment"}] \in Sagas
    BY <1>2 DEF Sagas, Resources
  <2>2. QED
    BY <1>2, <1>3, <1>4, <1>9, <2>1 DEF CourierAssigned, Sagas, OrderStatus
<1>10. CASE PaymentCaptured(t)
  <2>1. [saga[o] EXCEPT !.step = "Completed"] \in Sagas
    BY <1>2 DEF Sagas
  <2>2. QED
    BY <1>2, <1>3, <1>4, <1>10, <2>1 DEF PaymentCaptured, Sagas, OrderStatus
<1>11. CASE Reject(t)
  <2>1. [saga[o] EXCEPT !.lastError = "SOLD_OUT"] \in Sagas
    BY <1>2 DEF Sagas, Errors, Reason, SagaSteps
  <2>2. QED
    BY <1>2, <1>3, <1>4, <1>11, <2>1 DEF Reject, Sagas, OrderStatus
<1>12. CASE Compensate(t)
  <2>1. t.msg.step \in SagaSteps
    BY <1>4, <1>5, <1>12 DEF Compensate, Messages
  <2>2. Reason[t.msg.step] \in Errors \ {"CANCELLED_BY_CUSTOMER"}
    BY <2>1 DEF Errors, Reason
  <2>3. [saga[o] EXCEPT !.lastError = Reason[t.msg.step]] \in Sagas
    BY <1>2, <2>2 DEF Sagas
  <2>4. QED
    BY <1>2, <1>3, <1>4, <1>12, <2>2, <2>3 DEF Compensate, Sagas, OrderStatus
<1>13. CASE IgnoreReply(t) \/ IgnoreDelivered(t)
  BY <1>4, <1>13 DEF IgnoreReply, IgnoreDelivered, SoFar, KeepsOrders, MarksNone
<1>14. CASE OnDelivered(t)
  <2>1. [saga[o] EXCEPT !.step = "CapturePayment"] \in Sagas
    BY <1>2 DEF Sagas, SagaSteps
  <2>2. QED
    BY <1>2, <1>3, <1>4, <1>14, <2>1 DEF OnDelivered, Sagas, OrderStatus
<1>15. QED
  BY <1>6, <1>7, <1>8, <1>9, <1>10, <1>11, <1>12, <1>13, <1>14 DEF CommitReply

(* So does all of the service's handling of an order.                       *)
LEMMA HandlingKeepsOrders ==
    ASSUME MessagingTypeOK, OrchestratorTypeOK, SoFar,
           NEW o \in Orders, OrchestratorHandles(o)
    PROVE  SoFar' /\ KeepsOrders /\ MarksNone
<1>1. ASSUME NEW m \in SentFor(o), Receive(m)
      PROVE  SoFar' /\ KeepsOrders /\ MarksNone
  BY <1>1 DEF Receive, Begin, SoFar, KeepsOrders, MarksNone
<1>2. QED
  BY <1>1, CommitReplyKeepsOrders DEF OrchestratorHandles
(***************************************************************************)
(* What takes an order on.                                                 *)
(***************************************************************************)

(* The message in whose transaction a command of the saga is sent.          *)
Cause ==
    [ AuthorizePayment |-> "ReservePortions",
      AcceptOrder      |-> "AuthorizePayment",
      AssignCourier    |-> "AcceptOrder",
      CapturePayment   |-> "DeliveryDelivered" ]

CauseOf(c) ==
    [c EXCEPT !.kind = IF c.step = "CapturePayment" THEN "event" ELSE "ok",
              !.step = Cause[c.step]]

(* The message takes the order on: it is under way, and no handler that    *)
(* has begun with its like will only consume it.                            *)
Pursues(m, o) ==
    /\ m \in sent \ inbox
    /\ m.order = o /\ m.step = Awaited[order[o]]
    /\ \A t \in otx :
          t.msg.order = o /\ t.msg.step = m.step /\ t.msg.from = m.from => Proceeds(t)

(* That there is one is inductive with what it is to be under way: an open *)
(* handler's message is not consumed, an answer has its command, a command *)
(* its cause in the inbox, so one that is sent anew was never sent before.  *)
PursuitInv ==
    /\ \A t \in otx : t.msg.kind # "request" =>
          t.msg \in sent \ inbox /\ t.msg.kind # "command"
    /\ \A m \in sent : m.kind \in {"ok", "failed"} =>
          [m EXCEPT !.kind = "command"] \in inbox
    /\ \A m \in sent : m.step = "ReservePortions" => order[m.order] # "NONE"
    /\ \A m \in sent : m.kind = "command" /\ m.step \in DOMAIN Cause =>
          CauseOf(m) \in inbox
    /\ \A o \in Orders : order[o] \in DOMAIN Awaited => \E m \in sent : Pursues(m, o)

LEMMA PursuitSuffices == PursuitInv => NeverStalls
BY DEF PursuitInv, NeverStalls, Pursues, UnderWay

LEMMA AwaitedTable ==
    /\ DOMAIN Awaited = {"PLACED", "PORTIONS_RESERVED", "PAYMENT_AUTHORIZED",
                         "PREPARING", "DELIVERED"}
    /\ Awaited["PLACED"] = "ReservePortions"
    /\ Awaited["PORTIONS_RESERVED"] = "AuthorizePayment"
    /\ Awaited["PAYMENT_AUTHORIZED"] = "AcceptOrder"
    /\ Awaited["PREPARING"] = "AssignCourier"
    /\ Awaited["DELIVERED"] = "CapturePayment"
BY DEF Awaited

LEMMA CauseTable ==
    /\ DOMAIN Cause = {"AuthorizePayment", "AcceptOrder", "AssignCourier", "CapturePayment"}
    /\ Cause["AuthorizePayment"] = "ReservePortions"
    /\ Cause["AcceptOrder"] = "AuthorizePayment"
    /\ Cause["AssignCourier"] = "AcceptOrder"
    /\ Cause["CapturePayment"] = "DeliveryDelivered"
BY DEF Cause

(* A message is its fields.                                                 *)
LEMMA MessageFields ==
    ASSUME NEW m \in Messages
    PROVE  /\ m = [kind |-> m.kind, step |-> m.step, order |-> m.order, from |-> m.from]
           /\ m.order \in Orders
           /\ m.kind \in {"command", "ok", "failed", "event"}
           /\ m.kind \in {"ok", "failed"} => m.step \in SagaSteps
           /\ m.kind = "event" <=> m.step = "DeliveryDelivered"
BY DEF Messages, SagaSteps, Compensations

(* A step that sends, consumes and writes nothing, and begins no handler.   *)
LEMMA StillPursued ==
    ASSUME PursuitInv, UNCHANGED << sent, inbox, order >>, otx' \subseteq otx
    PROVE  PursuitInv'
<1>1. /\ \A t \in otx' : t.msg.kind # "request" =>
            t.msg \in sent' \ inbox' /\ t.msg.kind # "command"
      /\ \A m \in sent' : m.kind \in {"ok", "failed"} =>
            [m EXCEPT !.kind = "command"] \in inbox'
      /\ \A m \in sent' : m.step = "ReservePortions" => order'[m.order] # "NONE"
  BY DEF PursuitInv
<1>2. \A m \in sent' : m.kind = "command" /\ m.step \in DOMAIN Cause =>
         CauseOf(m)' \in inbox'
  BY DEF PursuitInv, CauseOf
<1>3. \A o \in Orders, m \in sent : Pursues(m, o) => Pursues(m, o)'
  BY DEF Pursues, Proceeds
<1>4. QED
  BY <1>1, <1>2, <1>3 DEF PursuitInv

(* A participant consumes a command: the answer takes its place.            *)
LEMMA AnswerPursues ==
    ASSUME MessagingTypeOK, PursuitInv, UNCHANGED << order, otx >>, NEW m,
           m.kind = "command", NEW status \in {"ok", "failed"},
           Consume(m, {Reply(m, status)})
    PROVE  PursuitInv'
<1>1. PICK r : r = Reply(m, status)
  OBVIOUS
<1>2. /\ m \in sent /\ m \in Messages /\ m \notin inbox
      /\ sent' = sent \cup {r} /\ inbox' = inbox \cup {m}
  BY <1>1 DEF Consume, Pending, MessagingTypeOK
<1>3. /\ r.kind = status /\ r.step = m.step /\ r.order = m.order /\ r.from = m.from
      /\ [r EXCEPT !.kind = "command"] = m
  <2>1. m = [kind |-> "command", step |-> m.step, order |-> m.order, from |-> m.from]
    BY <1>2, MessageFields
  <2>2. r = [kind |-> status, step |-> m.step, order |-> m.order, from |-> m.from]
    BY <1>1, <2>1 DEF Reply
  <2>3. [r EXCEPT !.kind = "command"] =
           [kind |-> "command", step |-> m.step, order |-> m.order, from |-> m.from]
    BY <2>2
  <2>4. QED
    BY <2>1, <2>2, <2>3
<1>4. r \notin inbox /\ r # m
  BY <1>2, <1>3 DEF PursuitInv, MessagingTypeOK
<1>5. \A t \in otx' : t.msg.kind # "request" =>
         t.msg \in sent' \ inbox' /\ t.msg.kind # "command"
  BY <1>2 DEF PursuitInv
<1>6. \A q \in sent' : q.kind \in {"ok", "failed"} =>
         [q EXCEPT !.kind = "command"] \in inbox'
  BY <1>2, <1>3 DEF PursuitInv
<1>7. \A q \in sent' : q.step = "ReservePortions" => order'[q.order] # "NONE"
  BY <1>2, <1>3 DEF PursuitInv
<1>8. \A q \in sent' : q.kind = "command" /\ q.step \in DOMAIN Cause => CauseOf(q)' \in inbox'
  BY <1>2, <1>3 DEF PursuitInv, CauseOf
<1>9. ASSUME NEW o \in Orders, order'[o] \in DOMAIN Awaited
      PROVE  \E q \in sent' : Pursues(q, o)'
  <2>1. PICK q \in sent : Pursues(q, o)
    BY <1>9 DEF PursuitInv
  <2>2. CASE q = m
    <3>1. Pursues(r, o)'
      BY <1>2, <1>3, <1>4, <2>1, <2>2 DEF Pursues, Proceeds
    <3>2. QED
      BY <1>2, <3>1
  <2>3. CASE q # m
    BY <1>2, <2>1, <2>3 DEF Pursues, Proceeds
  <2>4. QED
    BY <2>2, <2>3
<1>10. QED
  BY <1>5, <1>6, <1>7, <1>8, <1>9 DEF PursuitInv

(* A message nothing waits for is sent or consumed.                         *)
LEMMA AsidePursues ==
    ASSUME MessagingTypeOK, PursuitInv, UNCHANGED << order, otx >>,
           sent \subseteq sent', inbox \subseteq inbox',
           \A m \in sent' \ sent : m.kind = "event",
           \A m \in sent' \ sent : m \in Messages,
           \A m \in inbox' \ inbox : m.kind = "command" /\ m.step \in Compensations
    PROVE  PursuitInv'
<1>1. \A m \in sent' \ sent : m.step = "DeliveryDelivered" /\ m.kind = "event"
  BY MessageFields
<1>2. \A t \in otx' : t.msg.kind # "request" =>
         t.msg \in sent' \ inbox' /\ t.msg.kind # "command"
  BY DEF PursuitInv
<1>3. /\ \A q \in sent' : q.kind \in {"ok", "failed"} =>
            [q EXCEPT !.kind = "command"] \in inbox'
      /\ \A q \in sent' : q.step = "ReservePortions" => order'[q.order] # "NONE"
      /\ \A q \in sent' : q.kind = "command" /\ q.step \in DOMAIN Cause => CauseOf(q)' \in inbox'
  BY <1>1 DEF PursuitInv, CauseOf
<1>4. ASSUME NEW o \in Orders, order'[o] \in DOMAIN Awaited
      PROVE  \E q \in sent' : Pursues(q, o)'
  <2>1. PICK q \in sent : Pursues(q, o)
    BY <1>4 DEF PursuitInv
  <2>2. q.step \in SagaSteps
    BY <1>4, <2>1, AwaitedTable DEF Pursues, SagaSteps
  <2>3. q \notin inbox'
    BY <2>1, <2>2 DEF Pursues, SagaSteps, Compensations
  <2>4. Pursues(q, o)'
    BY <2>1, <2>3 DEF Pursues, Proceeds
  <2>5. QED
    BY <2>4
<1>5. QED
  BY <1>2, <1>3, <1>4 DEF PursuitInv

(* The order service: a handler begins.                                     *)
LEMMA BeginPursues ==
    ASSUME MessagingTypeOK, PursuitInv, NEW m, Begin(m),
           \/ m.kind = "request" /\ m.step = "CancelOrder"
           \/ Pending(m) /\ m.kind # "command"
    PROVE  PursuitInv'
<1>1. PICK u : /\ u = [ msg |-> m, status |-> order[m.order],
                        acquired |-> saga[m.order].acquired ]
               /\ otx' = otx \cup {u} /\ UNCHANGED << sent, inbox, order >>
  BY DEF Begin
<1>2. u.msg = m /\ u.status = order[m.order]
  BY <1>1
<1>3. /\ \A t \in otx' : t.msg.kind # "request" =>
            t.msg \in sent' \ inbox' /\ t.msg.kind # "command"
      /\ \A q \in sent' : q.kind \in {"ok", "failed"} =>
            [q EXCEPT !.kind = "command"] \in inbox'
      /\ \A q \in sent' : q.step = "ReservePortions" => order'[q.order] # "NONE"
      /\ \A q \in sent' : q.kind = "command" /\ q.step \in DOMAIN Cause => CauseOf(q)' \in inbox'
  BY <1>1, <1>2 DEF PursuitInv, Pending, CauseOf
<1>4. ASSUME NEW o \in Orders, order'[o] \in DOMAIN Awaited
      PROVE  \E q \in sent' : Pursues(q, o)'
  <2>1. order[o] \in DOMAIN Awaited
    BY <1>1, <1>4
  <2>2. PICK q \in sent : Pursues(q, o)
    BY <2>1 DEF PursuitInv
  <2>3. order[o] \notin TERMINAL
    BY <2>1, AwaitedTable DEF TERMINAL
  <2>4. \A t \in otx' :
           t.msg.order = o /\ t.msg.step = q.step /\ t.msg.from = q.from => Proceeds(t)
    BY <1>1, <1>2, <2>2, <2>3 DEF Pursues, Proceeds
  <2>5. Pursues(q, o)'
    BY <1>1, <2>2, <2>4 DEF Pursues, Proceeds
  <2>6. QED
    BY <1>1, <2>5
<1>5. QED
  BY <1>3, <1>4 DEF PursuitInv

(* The saga row is read again.                                              *)
LEMMA ReadPursues ==
    ASSUME OrchestratorTypeOK, PursuitInv, NEW t, ReadSaga(t)
    PROVE  PursuitInv'
<1>1. PICK u : /\ u = [t EXCEPT !.acquired = saga[t.msg.order].acquired]
               /\ otx' = (otx \ {t}) \cup {u} /\ UNCHANGED << sent, inbox, order >>
  BY DEF ReadSaga
<1>2. u.msg = t.msg /\ u.status = t.status /\ t \in otx
  BY <1>1 DEF ReadSaga, OrchestratorTypeOK, OrderTransactions
<1>3. \A v \in otx' : \E w \in otx : v.msg = w.msg /\ v.status = w.status
  BY <1>1, <1>2
<1>4. /\ \A v \in otx' : v.msg.kind # "request" =>
            v.msg \in sent' \ inbox' /\ v.msg.kind # "command"
      /\ \A q \in sent' : q.kind \in {"ok", "failed"} =>
            [q EXCEPT !.kind = "command"] \in inbox'
      /\ \A q \in sent' : q.step = "ReservePortions" => order'[q.order] # "NONE"
      /\ \A q \in sent' : q.kind = "command" /\ q.step \in DOMAIN Cause => CauseOf(q)' \in inbox'
  <2>1. \A v \in otx' : v.msg.kind # "request" =>
           v.msg \in sent' \ inbox' /\ v.msg.kind # "command"
    BY <1>1, <1>3 DEF PursuitInv
  <2>2. /\ \A q \in sent' : q.kind \in {"ok", "failed"} =>
              [q EXCEPT !.kind = "command"] \in inbox'
        /\ \A q \in sent' : q.step = "ReservePortions" => order'[q.order] # "NONE"
    BY <1>1 DEF PursuitInv
  <2>3. \A q \in sent' : q.kind = "command" /\ q.step \in DOMAIN Cause => CauseOf(q)' \in inbox'
    BY <1>1 DEF PursuitInv, CauseOf
  <2>4. QED
    BY <2>1, <2>2, <2>3
<1>5. \A o \in Orders, q \in sent : Pursues(q, o) => Pursues(q, o)'
  BY <1>1, <1>3 DEF Pursues, Proceeds
<1>6. QED
  BY <1>1, <1>4, <1>5 DEF PursuitInv

(* An order is placed: it has no message of its first step yet, and no     *)
(* handler of one.                                                          *)
LEMMA PlacePursues ==
    ASSUME MessagingTypeOK, OrchestratorTypeOK, PursuitInv, NEW o \in Orders, PlaceOrder(o)
    PROVE  PursuitInv'
<1>1. PICK c : c = Command("ReservePortions", o, 0)
  OBVIOUS
<1>2. c.kind = "command" /\ c.step = "ReservePortions" /\ c.order = o /\ c.from = 0
  BY <1>1 DEF Command
<1>3. /\ order[o] = "NONE" /\ order' = [order EXCEPT ![o] = "PLACED"]
      /\ sent' = sent \cup {c} /\ UNCHANGED << inbox, otx >>
      /\ order \in [Orders -> OrderStatus \cup {"NONE"}]
  BY <1>1 DEF PlaceOrder, OrchestratorTypeOK
<1>4. c \notin sent /\ c \notin inbox
  BY <1>2, <1>3 DEF PursuitInv, MessagingTypeOK
<1>5. \A t \in otx : ~(t.msg.order = o /\ t.msg.step = "ReservePortions")
  <2>1. \A t \in otx : t.msg.kind = "request" => t.msg.step = "CancelOrder"
    BY DEF OrchestratorTypeOK, OrderTransactions, Messages, CancelRequests
  <2>2. QED
    BY <1>3, <2>1 DEF PursuitInv
<1>6. "ReservePortions" \notin DOMAIN Cause
  BY CauseTable
<1>7. \A q \in sent : q.order \in Orders
  BY MessageFields DEF MessagingTypeOK
<1>8. /\ \A t \in otx' : t.msg.kind # "request" =>
            t.msg \in sent' \ inbox' /\ t.msg.kind # "command"
      /\ \A q \in sent' : q.kind \in {"ok", "failed"} =>
            [q EXCEPT !.kind = "command"] \in inbox'
      /\ \A q \in sent' : q.kind = "command" /\ q.step \in DOMAIN Cause => CauseOf(q)' \in inbox'
  BY <1>2, <1>3, <1>6 DEF PursuitInv, CauseOf
<1>9. \A q \in sent' : q.step = "ReservePortions" => order'[q.order] # "NONE"
  BY <1>2, <1>3, <1>7 DEF PursuitInv
<1>10. ASSUME NEW p \in Orders, order'[p] \in DOMAIN Awaited
       PROVE  \E q \in sent' : Pursues(q, p)'
  <2>1. CASE p = o
    <3>1. order'[o] = "PLACED"
      BY <1>3
    <3>2. Pursues(c, o)'
      BY <1>2, <1>3, <1>4, <1>5, <3>1, AwaitedTable DEF Pursues
    <3>3. QED
      BY <1>3, <2>1, <3>2
  <2>2. CASE p # o
    <3>1. order'[p] = order[p]
      BY <1>3, <2>2
    <3>2. PICK q \in sent : Pursues(q, p)
      BY <1>10, <3>1 DEF PursuitInv
    <3>3. Pursues(q, p)'
      BY <1>3, <3>1, <3>2 DEF Pursues, Proceeds
    <3>4. QED
      BY <1>3, <3>3
  <2>3. QED
    BY <2>1, <2>2
<1>11. QED
  BY <1>8, <1>9, <1>10 DEF PursuitInv
(* A handler of a message commits a status: what it sends was not sent     *)
(* before, since the message that causes it was not consumed before.       *)
LEMMA MovePursues ==
    ASSUME MessagingTypeOK, OrchestratorTypeOK, PursuitInv, NEW t \in otx,
           t.msg.kind # "command", NEW out, CommitMessage(t, out),
           NEW status \in OrderStatus,
           order' = [order EXCEPT ![t.msg.order] = status],
           \A c \in out : /\ c.kind = "command" /\ c.step # "ReservePortions"
                          /\ c.step \in DOMAIN Cause => CauseOf(c) = t.msg,
           status \in DOMAIN Awaited => \E c \in out :
              /\ c.step \in DOMAIN Cause /\ c.step = Awaited[status]
              /\ c.order = t.msg.order
              /\ c = [kind |-> "command", step |-> c.step, order |-> c.order, from |-> c.from]
    PROVE  PursuitInv'
<1> DEFINE o == t.msg.order
<1>1. /\ t.msg \in sent /\ t.msg \notin inbox /\ t.msg \in Messages /\ o \in Orders
      /\ sent' = sent \cup out /\ inbox' = inbox \cup {t.msg}
      /\ otx' \subseteq otx /\ \A u \in otx' : u.msg # t.msg
  BY MessageFields DEF CommitMessage, Consume, Pending, MessagingTypeOK
<1>2. /\ order'[o] = status /\ status # "NONE"
      /\ \A p \in Orders \ {o} : order'[p] = order[p]
  BY <1>1 DEF OrchestratorTypeOK, OrderStatus
<1>3. \A q \in sent : q.order \in Orders
  BY MessageFields DEF MessagingTypeOK
<1>4. \A u \in otx' : u.msg.kind # "request" =>
         u.msg \in sent' \ inbox' /\ u.msg.kind # "command"
  BY <1>1 DEF PursuitInv
<1>5. \A q \in sent' : q.kind \in {"ok", "failed"} =>
         [q EXCEPT !.kind = "command"] \in inbox'
  BY <1>1 DEF PursuitInv
<1>6. \A q \in sent' : q.step = "ReservePortions" => order'[q.order] # "NONE"
  <2>1. ASSUME NEW q \in sent, q.step = "ReservePortions"
        PROVE  order'[q.order] # "NONE"
    BY <1>2, <1>3, <2>1 DEF PursuitInv
  <2>2. QED
    BY <1>1, <2>1
<1>7. \A q \in sent' : q.kind = "command" /\ q.step \in DOMAIN Cause => CauseOf(q)' \in inbox'
  <2>1. \A q : CauseOf(q)' = CauseOf(q)
    BY DEF CauseOf
  <2>2. QED
    BY <1>1, <2>1 DEF PursuitInv
<1>8. ASSUME NEW p \in Orders, p # o, order'[p] \in DOMAIN Awaited
      PROVE  \E q \in sent' : Pursues(q, p)'
  <2>1. PICK q \in sent : Pursues(q, p)
    BY <1>2, <1>8 DEF PursuitInv
  <2>2. q # t.msg
    BY <1>8, <2>1 DEF Pursues
  <2>3. Pursues(q, p)'
    BY <1>1, <1>2, <1>8, <2>1, <2>2 DEF Pursues, Proceeds
  <2>4. QED
    BY <1>1, <2>3
<1>9. ASSUME status \in DOMAIN Awaited
      PROVE  \E q \in sent' : Pursues(q, o)'
  <2>1. PICK c \in out :
           /\ c.step \in DOMAIN Cause /\ c.step = Awaited[status] /\ c.order = o
           /\ c = [kind |-> "command", step |-> c.step, order |-> o, from |-> c.from]
    BY <1>9
  <2>2. c.kind = "command" /\ CauseOf(c) = t.msg
    BY <2>1
  <2>3. c \notin sent /\ c \notin inbox
    BY <1>1, <2>1, <2>2 DEF PursuitInv, MessagingTypeOK
  <2>4. ASSUME NEW u \in otx', u.msg.order = o, u.msg.step = c.step, u.msg.from = c.from
        PROVE  FALSE
    <3>1. u.msg.step # "CancelOrder" /\ u.msg.step # "DeliveryDelivered"
      BY <2>1, <2>4, CauseTable
    <3>2. u.msg.kind # "request"
      BY <1>1, <3>1 DEF OrchestratorTypeOK, OrderTransactions, Messages, CancelRequests
    <3>3. u.msg \in sent /\ u.msg \in Messages /\ u.msg.kind # "command"
      BY <1>1, <3>2 DEF PursuitInv, MessagingTypeOK
    <3>4. u.msg.kind \in {"ok", "failed"}
      BY <3>1, <3>3, MessageFields
    <3>5. u.msg = [kind |-> u.msg.kind, step |-> c.step, order |-> o, from |-> c.from]
      BY <2>4, <3>3, MessageFields
    <3>6. [u.msg EXCEPT !.kind = "command"] = c
      BY <2>1, <3>5
    <3>7. [u.msg EXCEPT !.kind = "command"] \in inbox
      BY <3>3, <3>4 DEF PursuitInv
    <3>8. QED
      BY <2>3, <3>6, <3>7
  <2>5. c # t.msg
    BY <2>2
  <2>6. Pursues(c, o)'
    BY <1>1, <1>2, <2>1, <2>3, <2>4, <2>5 DEF Pursues
  <2>7. QED
    BY <1>1, <2>6
<1>10. \A p \in Orders : order'[p] \in DOMAIN Awaited => \E q \in sent' : Pursues(q, p)'
  BY <1>2, <1>8, <1>9
<1>11. QED
  BY <1>4, <1>5, <1>6, <1>7, <1>10 DEF PursuitInv

(* The command a reply or the delivery leads to has it for its cause.       *)
LEMMA SendsPursue ==
    ASSUME NEW t, t.msg \in Messages, NEW step,
           \/ IsReply(t, "ReservePortions", "ok") /\ step = "AuthorizePayment"
           \/ IsReply(t, "AuthorizePayment", "ok") /\ step = "AcceptOrder"
           \/ IsReply(t, "AcceptOrder", "ok") /\ step = "AssignCourier"
           \/ t.msg.kind = "event" /\ step = "CapturePayment"
    PROVE  /\ \A c \in Sends(t, step) :
                 /\ c.kind = "command" /\ c.step # "ReservePortions"
                 /\ c.step \in DOMAIN Cause => CauseOf(c) = t.msg
           /\ \E c \in Sends(t, step) :
                 /\ c.step \in DOMAIN Cause /\ c.step = step /\ c.order = t.msg.order
                 /\ c = [kind |-> "command", step |-> c.step, order |-> c.order, from |-> c.from]
<1>1. PICK c : c = [kind |-> "command", step |-> step, order |-> t.msg.order, from |-> t.msg.from]
  OBVIOUS
<1>2. Sends(t, step) = {c}
  BY <1>1 DEF Sends, Command
<1>3. /\ c.kind = "command" /\ c.step = step /\ c.order = t.msg.order /\ c.from = t.msg.from
      /\ c = [kind |-> "command", step |-> c.step, order |-> c.order, from |-> c.from]
  BY <1>1
<1>4. t.msg = [kind |-> t.msg.kind, step |-> t.msg.step, order |-> t.msg.order, from |-> t.msg.from]
  BY MessageFields
<1>5. t.msg.kind = "event" => t.msg.step = "DeliveryDelivered"
  BY MessageFields
<1>6. /\ step \in DOMAIN Cause /\ step # "ReservePortions" /\ Cause[step] = t.msg.step
      /\ t.msg.kind = IF step = "CapturePayment" THEN "event" ELSE "ok"
  BY <1>5, CauseTable DEF IsReply
<1>7. CauseOf(c) = [kind |-> t.msg.kind, step |-> t.msg.step, order |-> t.msg.order,
                    from |-> t.msg.from]
  <2>1. CauseOf(c) = [c EXCEPT !.kind = t.msg.kind, !.step = t.msg.step]
    BY <1>3, <1>6 DEF CauseOf
  <2>2. QED
    BY <1>1, <2>1
<1>8. QED
  BY <1>2, <1>3, <1>4, <1>6, <1>7

LEMMA UndoPursues ==
    ASSUME NEW t, NEW resources \in SUBSET Resources, NEW c \in Undo(t, resources)
    PROVE  c.kind = "command" /\ c.step # "ReservePortions" /\ c.step \notin DOMAIN Cause
<1>1. PICK r \in resources \cap t.acquired :
         c = Command(CASE r = "assignment"  -> "UnassignCourier"
                       [] r = "payment"     -> "VoidPayment"
                       [] r = "reservation" -> "ReleasePortions",
                     t.msg.order, t.msg.from)
  BY DEF Undo
<1>2. r \in {"reservation", "payment", "assignment"}
  BY DEF Resources
<1>3. c.kind = "command" /\ c.step \in {"UnassignCourier", "VoidPayment", "ReleasePortions"}
  <2>1. \E step \in {"UnassignCourier", "VoidPayment", "ReleasePortions"} :
           c = Command(step, t.msg.order, t.msg.from)
    BY <1>1, <1>2
  <2>2. QED
    BY <2>1 DEF Command
<1>4. QED
  BY <1>3, CauseTable
(* A handler that ignores its message read an ending, so it is not the     *)
(* message that takes the order on.                                         *)
LEMMA IgnorePursues ==
    ASSUME MessagingTypeOK, OrchestratorTypeOK, PursuitInv, NEW t \in otx,
           IgnoreReply(t) \/ IgnoreDelivered(t)
    PROVE  PursuitInv'
<1>1. /\ t.msg \in sent /\ t.msg \notin inbox /\ t.msg \in Messages
      /\ sent' = sent /\ inbox' = inbox \cup {t.msg} /\ order' = order
      /\ otx' \subseteq otx /\ \A u \in otx' : u.msg # t.msg
  BY DEF IgnoreReply, IgnoreDelivered, CommitMessage, Consume, Pending, MessagingTypeOK
<1>2. ~Proceeds(t) \/ t.msg.step = "DeliveryDelivered"
  BY <1>1, MessageFields DEF IgnoreReply, IgnoreDelivered
<1>3. /\ \A u \in otx' : u.msg.kind # "request" =>
            u.msg \in sent' \ inbox' /\ u.msg.kind # "command"
      /\ \A q \in sent' : q.kind \in {"ok", "failed"} =>
            [q EXCEPT !.kind = "command"] \in inbox'
      /\ \A q \in sent' : q.step = "ReservePortions" => order'[q.order] # "NONE"
  BY <1>1 DEF PursuitInv
<1>4. \A q \in sent' : q.kind = "command" /\ q.step \in DOMAIN Cause => CauseOf(q)' \in inbox'
  BY <1>1 DEF PursuitInv, CauseOf
<1>5. ASSUME NEW o \in Orders, order[o] \in DOMAIN Awaited, NEW q \in sent, Pursues(q, o)
      PROVE  Pursues(q, o)'
  <2>1. q.step # "DeliveryDelivered"
    BY <1>5, AwaitedTable DEF Pursues
  <2>2. q # t.msg
    BY <1>2, <1>5, <2>1 DEF Pursues
  <2>3. QED
    BY <1>1, <1>5, <2>2 DEF Pursues, Proceeds
<1>6. \A o \in Orders : order'[o] \in DOMAIN Awaited => \E q \in sent' : Pursues(q, o)'
  BY <1>1, <1>5 DEF PursuitInv
<1>7. QED
  BY <1>3, <1>4, <1>6 DEF PursuitInv

(* The handlers that write.                                                 *)
LEMMA CommitReplyPursues ==
    ASSUME MessagingTypeOK, OrchestratorTypeOK, PursuitInv, NEW t \in otx, CommitReply(t)
    PROVE  PursuitInv'
<1> DEFINE o == t.msg.order
<1>1. ASSUME NEW out, CommitMessage(t, out)
      PROVE  t.msg \in Messages
  BY <1>1 DEF CommitMessage, Consume, Pending, MessagingTypeOK
<1>2. ASSUME NEW status, NEW row, NEW events, Write(o, status, row, events)
      PROVE  order' = [order EXCEPT ![o] = status]
  BY <1>2 DEF Write
<1>3. ASSUME NEW status \in OrderStatus, status \in DOMAIN Awaited,
             order' = [order EXCEPT ![o] = status],
             NEW step, CommitMessage(t, Sends(t, step)), step = Awaited[status],
             \/ IsReply(t, "ReservePortions", "ok") /\ step = "AuthorizePayment"
             \/ IsReply(t, "AuthorizePayment", "ok") /\ step = "AcceptOrder"
             \/ IsReply(t, "AcceptOrder", "ok") /\ step = "AssignCourier"
             \/ t.msg.kind = "event" /\ step = "CapturePayment"
      PROVE  PursuitInv'
  <2>1. t.msg.kind # "command" /\ t.msg \in Messages
    BY <1>1, <1>3 DEF IsReply
  <2>2. PICK out : out = Sends(t, step)
    OBVIOUS
  <2>3. /\ \A c \in out : /\ c.kind = "command" /\ c.step # "ReservePortions"
                          /\ c.step \in DOMAIN Cause => CauseOf(c) = t.msg
        /\ \E c \in out :
              /\ c.step \in DOMAIN Cause /\ c.step = step /\ c.order = o
              /\ c = [kind |-> "command", step |-> c.step, order |-> c.order, from |-> c.from]
    BY <1>3, <2>1, <2>2, SendsPursue
  <2>4. QED
    BY <1>3, <2>1, <2>2, <2>3, MovePursues
<1>4. ASSUME NEW status \in OrderStatus, status \notin DOMAIN Awaited,
             order' = [order EXCEPT ![o] = status], t.msg.kind # "command",
             CommitMessage(t, {}) \/ CommitMessage(t, Undo(t, Resources))
      PROVE  PursuitInv'
  <2>1. \A c \in Undo(t, Resources) :
           c.kind = "command" /\ c.step # "ReservePortions" /\ c.step \notin DOMAIN Cause
    BY UndoPursues
  <2>2. PICK out : /\ CommitMessage(t, out)
                   /\ \A c \in out : c.kind = "command" /\ c.step # "ReservePortions"
                                     /\ c.step \notin DOMAIN Cause
    BY <1>4, <2>1
  <2>3. QED
    BY <1>4, <2>2, MovePursues
<1>5. {"PORTIONS_RESERVED", "PAYMENT_AUTHORIZED", "PREPARING", "COURIER_ASSIGNED",
       "DELIVERED", "COMPLETED", "CANCELLED", "REJECTED"} \subseteq OrderStatus
  BY DEF OrderStatus
<1>6. CASE PortionsReserved(t)
  <2>1. /\ IsReply(t, "ReservePortions", "ok") /\ CommitMessage(t, Sends(t, "AuthorizePayment"))
        /\ order' = [order EXCEPT ![o] = "PORTIONS_RESERVED"]
    BY <1>2, <1>6 DEF PortionsReserved
  <2>2. QED
    BY <1>3, <1>5, <2>1, AwaitedTable
<1>7. CASE PaymentAuthorized(t)
  <2>1. /\ IsReply(t, "AuthorizePayment", "ok") /\ CommitMessage(t, Sends(t, "AcceptOrder"))
        /\ order' = [order EXCEPT ![o] = "PAYMENT_AUTHORIZED"]
    BY <1>2, <1>7 DEF PaymentAuthorized
  <2>2. QED
    BY <1>3, <1>5, <2>1, AwaitedTable
<1>8. CASE OrderAccepted(t)
  <2>1. /\ IsReply(t, "AcceptOrder", "ok") /\ CommitMessage(t, Sends(t, "AssignCourier"))
        /\ order' = [order EXCEPT ![o] = "PREPARING"]
    BY <1>2, <1>8 DEF OrderAccepted
  <2>2. QED
    BY <1>3, <1>5, <2>1, AwaitedTable
<1>9. CASE OnDelivered(t)
  <2>1. /\ t.msg.kind = "event" /\ CommitMessage(t, Sends(t, "CapturePayment"))
        /\ order' = [order EXCEPT ![o] = "DELIVERED"]
    BY <1>2, <1>9 DEF OnDelivered
  <2>2. QED
    BY <1>3, <1>5, <2>1, AwaitedTable
<1>10. CASE CourierAssigned(t) \/ PaymentCaptured(t) \/ Reject(t)
  <2>1. /\ t.msg.kind # "command" /\ CommitMessage(t, {})
        /\ \E status \in {"COURIER_ASSIGNED", "COMPLETED", "REJECTED"} :
              order' = [order EXCEPT ![o] = status]
    BY <1>2, <1>10 DEF CourierAssigned, PaymentCaptured, Reject, IsReply
  <2>2. QED
    BY <1>4, <1>5, <2>1, AwaitedTable
<1>11. CASE Compensate(t)
  <2>1. /\ t.msg.kind # "command" /\ CommitMessage(t, Undo(t, Resources))
        /\ order' = [order EXCEPT ![o] = "CANCELLED"]
    BY <1>2, <1>11 DEF Compensate
  <2>2. QED
    BY <1>4, <1>5, <2>1, AwaitedTable
<1>12. QED
  BY <1>6, <1>7, <1>8, <1>9, <1>10, <1>11, IgnorePursues DEF CommitReply

(* The customer's cancellation ends the order, and consumes nothing.        *)
LEMMA CancelPursues ==
    ASSUME MessagingTypeOK, OrchestratorTypeOK, PursuitInv, NEW t, CommitCancel(t)
    PROVE  PursuitInv'
<1> DEFINE o == t.msg.order
<1>1. PICK out : out = Undo(t, {"payment", "reservation"})
  OBVIOUS
<1>2. /\ t \in otx /\ otx' \subseteq otx /\ sent' = sent \cup out /\ inbox' = inbox
      /\ order' = [order EXCEPT ![o] = "CANCELLED"]
  BY <1>1 DEF CommitCancel, Write
<1>3. o \in Orders /\ \A q \in sent : q.order \in Orders
  BY <1>2, MessageFields DEF MessagingTypeOK, OrchestratorTypeOK, OrderTransactions, Messages,
     CancelRequests
<1>4. order'[o] = "CANCELLED" /\ \A p \in Orders \ {o} : order'[p] = order[p]
  BY <1>2, <1>3 DEF OrchestratorTypeOK
<1>5. \A c \in out : c.kind = "command" /\ c.step # "ReservePortions" /\ c.step \notin DOMAIN Cause
  BY <1>1, UndoPursues DEF Resources
<1>6. /\ \A u \in otx' : u.msg.kind # "request" =>
            u.msg \in sent' \ inbox' /\ u.msg.kind # "command"
      /\ \A q \in sent' : q.kind \in {"ok", "failed"} =>
            [q EXCEPT !.kind = "command"] \in inbox'
  BY <1>2, <1>5 DEF PursuitInv
<1>7. \A q \in sent' : q.step = "ReservePortions" => order'[q.order] # "NONE"
  BY <1>2, <1>3, <1>4, <1>5 DEF PursuitInv
<1>8. \A q \in sent' : q.kind = "command" /\ q.step \in DOMAIN Cause => CauseOf(q)' \in inbox'
  BY <1>2, <1>5 DEF PursuitInv, CauseOf
<1>9. ASSUME NEW p \in Orders, order'[p] \in DOMAIN Awaited
      PROVE  \E q \in sent' : Pursues(q, p)'
  <2>1. p # o
    BY <1>4, <1>9, AwaitedTable
  <2>2. order'[p] = order[p]
    BY <1>4, <2>1
  <2>3. PICK q \in sent : Pursues(q, p)
    BY <1>9, <2>2 DEF PursuitInv
  <2>4. Pursues(q, p)'
    BY <1>2, <2>2, <2>3 DEF Pursues, Proceeds
  <2>5. QED
    BY <1>2, <2>4
<1>10. QED
  BY <1>6, <1>7, <1>8, <1>9 DEF PursuitInv

(* All of the service's handling of an order, and what customers ask.       *)
LEMMA HandlingPursues ==
    ASSUME MessagingTypeOK, OrchestratorTypeOK, PursuitInv,
           NEW o \in Orders, OrchestratorHandles(o)
    PROVE  PursuitInv'
<1>1. ASSUME NEW m, Receive(m) PROVE PursuitInv'
  BY <1>1, BeginPursues DEF Receive
<1>2. QED
  BY <1>1, CommitReplyPursues DEF OrchestratorHandles

LEMMA RequestPursues ==
    ASSUME MessagingTypeOK, PursuitInv, NEW o, RequestCancel(o)
    PROVE  PursuitInv'
<1>1. PICK m : m = CancelRequest(o, cancels[o] + 1) /\ Begin(m)
  BY DEF RequestCancel
<1>2. m.kind = "request" /\ m.step = "CancelOrder"
  BY <1>1 DEF CancelRequest
<1>3. QED
  BY <1>1, <1>2, BeginPursues

LEMMA CustomersPursue ==
    ASSUME MessagingTypeOK, OrchestratorTypeOK, PursuitInv, CustomerActs
    PROVE  PursuitInv'
BY PlacePursues, RequestPursues, CancelPursues, ReadPursues DEF CustomerActs

LEMMA NothingPursued ==
    ASSUME MessagingInit, OrchestratorInit
    PROVE  PursuitInv
<1>1. sent = {} /\ otx = {} /\ \A o \in Orders : order[o] = "NONE"
  BY DEF MessagingInit, OrchestratorInit
<1>2. "NONE" \notin DOMAIN Awaited
  BY AwaitedTable
<1>3. QED
  BY <1>1, <1>2 DEF PursuitInv
=============================================================================
