----------------------------- MODULE SagaProofs -----------------------------
(***************************************************************************)
(* What the saga does for an order nobody asked to cancel, for every set   *)
(* of orders, drops and portions: its statuses, its messages and the       *)
(* tables of the participants stay in step, so that a failed step is       *)
(* compensated in full, the books agree, the customer hears one ending,    *)
(* the counters of the kitchen are exact, and the order follows its        *)
(* lifecycle.  An order that was asked to be cancelled may break each of   *)
(* these, which the runs that expect a violation show.                     *)
(***************************************************************************)
EXTENDS Portions, HotDropProofs, Sums

(***************************************************************************)
(* The invariant of an order nobody asked to cancel.                       *)
(***************************************************************************)

Served == {"PREPARING", "COURIER_ASSIGNED", "DELIVERED", "COMPLETED"}
Paid == {"DELIVERED", "COMPLETED"}
Ordered == {"PORTIONS_RESERVED", "PAYMENT_AUTHORIZED", "CANCELLED"} \cup Served

(* The steps to the courier are taken once each, one after the other ...    *)
ToCourier == SagaSteps \ {"CapturePayment"}

(* ... in this status of the order ...                                      *)
StatusAt(step) ==
    CASE step = "ReservePortions"  -> "PLACED"
      [] step = "AuthorizePayment" -> "PORTIONS_RESERVED"
      [] step = "AcceptOrder"      -> "PAYMENT_AUTHORIZED"
      [] step = "AssignCourier"    -> "PREPARING"

(* ... and with these statuses once the step was asked for.                 *)
Since(step) ==
    CASE step = "ReservePortions"  -> OrderStatus
      [] step = "AuthorizePayment" -> Ordered
      [] step = "AcceptOrder"      -> Ordered \ {"PORTIONS_RESERVED"}
      [] step = "AssignCourier"    -> Served \cup {"CANCELLED"}
      [] step = "CapturePayment"   -> Paid

(* What the saga row points to in a status that a failure may leave.        *)
AcquiredAt(status) ==
    CASE status = "PORTIONS_RESERVED" -> {"reservation"}
      [] status \in {"PAYMENT_AUTHORIZED", "PREPARING"} -> {"reservation", "payment"}
      [] OTHER -> {}

(* A message waits only in the status it was sent in, and only a cancelled *)
(* order is compensated.                                                   *)
MessageFits(o, m) ==
    /\ m.step \in SagaSteps => order[o] \in Since(m.step)
    /\ m.step \in ToCourier => m.from = 0
    /\ m.step \in ToCourier /\ m \notin inbox => order[o] = StatusAt(m.step)
    /\ Says(m, "AssignCourier", {"ok"}) => order[o] \in Served
    /\ Says(m, "CapturePayment", {"ok"}) => payment[o] = "CAPTURED"
    /\ m.step = "CapturePayment" => m.kind # "failed"
    /\ m.step \in Compensations =>
          order[o] = "CANCELLED" /\ m.from = 0 /\ m.step # "RefundPayment"

MessagesFit(o) == \A m \in sent : m.order = o => MessageFits(o, m)

(* What an open handler of a reply read is what the rows still hold; that  *)
(* of the delivery event may be overtaken by the capture alone.            *)
ReadFits(o, t) ==
    /\ t.msg \in sent /\ t.msg \notin inbox /\ t.msg.kind # "command"
    /\ t.msg.step \in ToCourier =>
          t.status = StatusAt(t.msg.step) /\ AcquiredAt(t.status) \subseteq t.acquired
    /\ t.msg.kind = "event" /\ t.status = "COURIER_ASSIGNED" =>
          order[o] \in Served \ {"PREPARING"}

ReadsFit(o) == \A t \in otx : t.msg.order = o => ReadFits(o, t)

(* The three rows of the order service agree.                               *)
RowsFit(o) ==
    /\ AcquiredAt(order[o]) \subseteq saga[o].acquired
    /\ "OrderCancelled" \in notices[o] => order[o] = "CANCELLED"
    /\ "OrderRejected" \in notices[o] => order[o] = "REJECTED"
    /\ "OrderCompleted" \in notices[o] => order[o] \in Paid
    /\ order[o] \in Served => "OrderConfirmed" \in notices[o]

(* What is to be undone is on its way to be undone.                         *)
Undoing(o) ==
    /\ payment[o] = "AUTHORIZED" =>
          /\ Command("VoidPayment", o, 0) \in sent
          /\ Command("VoidPayment", o, 0) \notin inbox
    /\ reservation[o] \in {"HELD", "CONFIRMED"} =>
          /\ Command("ReleasePortions", o, 0) \in sent
          /\ Command("ReleasePortions", o, 0) \notin inbox
    /\ assignment[o] # "ACCEPTED"

(* The participants' tables agree with the order's.                         *)
ServicesFit(o) ==
    /\ payment[o] # "NONE" => Reply(Command("AuthorizePayment", o, 0), "ok") \in sent
    /\ assignment[o] # "NONE" => Reply(Command("AssignCourier", o, 0), "ok") \in sent
    /\ payment[o] = "CAPTURED" => order[o] \in Paid
    /\ order[o] = "COMPLETED" => payment[o] = "CAPTURED"
    /\ order[o] = "CANCELLED" => Undoing(o)

(* A release that the sweeper cannot overtake finds what it read.           *)
ReleasesFit(o) ==
    o \notin Expiring =>
        \A m \in ktx : m.order = o =>
            m \notin inbox /\ reservation[o] \in {"HELD", "CONFIRMED"}

OrderInv(o) ==
    /\ MessagesFit(o)
    /\ ReadsFit(o)
    /\ RowsFit(o)
    /\ ServicesFit(o)
    /\ ReleasesFit(o)

SagaInv == \A o \in Orders : cancels[o] = 0 => OrderInv(o)

(***************************************************************************)
(* Facts about the tables above.                                           *)
(***************************************************************************)

(* Each step to the courier has a status of its own, and is not an end.     *)
LEMMA StatusTable ==
    /\ StatusAt("ReservePortions") = "PLACED"
    /\ StatusAt("AuthorizePayment") = "PORTIONS_RESERVED"
    /\ StatusAt("AcceptOrder") = "PAYMENT_AUTHORIZED"
    /\ StatusAt("AssignCourier") = "PREPARING"
BY DEF StatusAt

LEMMA SinceTable ==
    /\ Since("ReservePortions") = OrderStatus
    /\ Since("AuthorizePayment") = Ordered
    /\ Since("AcceptOrder") = Ordered \ {"PORTIONS_RESERVED"}
    /\ Since("AssignCourier") = Served \cup {"CANCELLED"}
    /\ Since("CapturePayment") = Paid
BY DEF Since

LEMMA AcquiredTable ==
    /\ AcquiredAt("PORTIONS_RESERVED") = {"reservation"}
    /\ AcquiredAt("PAYMENT_AUTHORIZED") = {"reservation", "payment"}
    /\ AcquiredAt("PREPARING") = {"reservation", "payment"}
    /\ \A s \in {"PLACED", "COURIER_ASSIGNED", "DELIVERED", "COMPLETED", "CANCELLED", "REJECTED"} :
          AcquiredAt(s) = {}
BY DEF AcquiredAt

LEMMA StepsList ==
    ASSUME NEW s \in ToCourier
    PROVE  /\ s \in {"ReservePortions", "AuthorizePayment", "AcceptOrder", "AssignCourier"}
           /\ s \in SagaSteps
           /\ StatusAt(s) \in {"PLACED", "PORTIONS_RESERVED", "PAYMENT_AUTHORIZED", "PREPARING"}
           /\ \A r \in ToCourier : StatusAt(r) = StatusAt(s) => r = s
BY StatusTable DEF ToCourier, SagaSteps

(* The fields of a message fix it.                                          *)
LEMMA CommandIs ==
    ASSUME NEW m \in Messages, m.kind = "command"
    PROVE  m = Command(m.step, m.order, m.from)
BY DEF Messages, Command

LEMMA MessageIs ==
    ASSUME NEW m \in Messages, NEW q \in Messages, m.kind = q.kind, m.step = q.step,
           m.order = q.order, m.from = q.from
    PROVE  m = q
<1>1. /\ m = [kind |-> m.kind, step |-> m.step, order |-> m.order, from |-> m.from]
      /\ q = [kind |-> q.kind, step |-> q.step, order |-> q.order, from |-> q.from]
  BY DEF Messages
<1>2. QED
  BY <1>1

LEMMA ReplyIs ==
    ASSUME NEW m \in Messages, NEW c \in Messages,
           c.step = m.step, c.order = m.order, c.from = m.from
    PROVE  m = Reply(c, m.kind)
<1>1. /\ m = [kind |-> m.kind, step |-> m.step, order |-> m.order, from |-> m.from]
      /\ c = [kind |-> c.kind, step |-> c.step, order |-> c.order, from |-> c.from]
  BY DEF Messages
<1>2. QED
  BY <1>1 DEF Reply

(* At most one message of the way to the courier waits for a reply's       *)
(* handler: the reply itself.  Its command is consumed, and the other      *)
(* reply was not sent.                                                     *)
LEMMA OnePending ==
    ASSUME IInv, NEW o \in Orders, MessagesFit(o),
           NEW r \in sent, r \notin inbox, r.order = o, r.kind # "command", r.step \in ToCourier,
           NEW m \in sent, m \notin inbox, m.order = o, m.step \in ToCourier
    PROVE  m = r
<1> DEFINE c == [r EXCEPT !.kind = "command"]
<1>1. r \in Messages /\ m \in Messages
  BY DEF IInv, TypeOK, MessagingTypeOK
<1>2. r.kind \in {"ok", "failed"} /\ m.kind \in {"command", "ok", "failed"}
  BY <1>1 DEF Messages, ToCourier, SagaSteps
<1>3. r.from = 0 /\ m.from = 0 /\ m.step = r.step
  BY StepsList DEF MessagesFit, MessageFits
<1>4. c \in inbox
  BY <1>2 DEF IInv, AnswersHaveCommands
<1>5. /\ c \in Messages /\ c \in sent /\ c.kind = "command" /\ c.step \in SagaSteps
      /\ c.step = r.step /\ c.order = o /\ c.from = 0
  BY <1>1, <1>3, <1>4 DEF IInv, TypeOK, MessagingTypeOK, Messages, ToCourier
<1> HIDE DEF c
<1>6. r = Reply(c, r.kind)
  BY <1>1, <1>3, <1>5, ReplyIs
<1>7. CASE m.kind = "command"
  <2>1. m = c
    BY <1>1, <1>3, <1>5, <1>7, MessageIs
  <2>2. QED
    BY <1>4, <2>1
<1>8. CASE m.kind # "command"
  <2>1. m = Reply(c, m.kind)
    BY <1>1, <1>3, <1>5, ReplyIs
  <2>2. Answered(c, "ok") <=> ~Answered(c, "failed")
    BY <1>4, <1>5 DEF IInv, AnsweredOnce
  <2>3. QED
    BY <1>2, <1>6, <1>8, <2>1, <2>2 DEF Answered
<1>9. QED
  BY <1>7, <1>8
(***************************************************************************)
(* What leaves the invariant of an order alone.                            *)
(***************************************************************************)

(* The fields of the commands the invariant names.                          *)
LEMMA NamedMessages ==
    ASSUME NEW o
    PROVE  /\ Command("VoidPayment", o, 0).order = o
           /\ Command("VoidPayment", o, 0).step = "VoidPayment"
           /\ Command("VoidPayment", o, 0).kind = "command"
           /\ Command("ReleasePortions", o, 0).order = o
           /\ Command("ReleasePortions", o, 0).step = "ReleasePortions"
           /\ Command("ReleasePortions", o, 0).kind = "command"
           /\ Reply(Command("AuthorizePayment", o, 0), "ok").order = o
           /\ Reply(Command("AssignCourier", o, 0), "ok").order = o
BY DEF Command, Reply

(* A step about other orders.                                               *)
Untouched(o) ==
    /\ order'[o] = order[o] /\ saga'[o] = saga[o] /\ notices'[o] = notices[o]
    /\ payment'[o] = payment[o] /\ reservation'[o] = reservation[o]
    /\ assignment'[o] = assignment[o]
    /\ \A m : m.order = o => /\ m \in sent' <=> m \in sent
                             /\ m \in inbox' <=> m \in inbox
    /\ \A t \in otx' : t.msg.order = o => t \in otx
    /\ \A m \in ktx' : m.order = o => m \in ktx

LEMMA FrameKeeps ==
    ASSUME NEW o \in Orders, OrderInv(o), Untouched(o)
    PROVE  OrderInv(o)'
<1>1. MessagesFit(o)'
  BY DEF OrderInv, MessagesFit, MessageFits, Untouched, Says
<1>2. ReadsFit(o)'
  BY DEF OrderInv, ReadsFit, ReadFits, Untouched
<1>3. RowsFit(o)'
  BY DEF OrderInv, RowsFit, Untouched
<1>4. ServicesFit(o)'
  BY NamedMessages DEF OrderInv, ServicesFit, Undoing, Untouched
<1>5. ReleasesFit(o)'
  BY DEF OrderInv, ReleasesFit, Untouched
<1>6. QED
  BY <1>1, <1>2, <1>3, <1>4, <1>5 DEF OrderInv

(* A step that handles no message: a read, a timer, the sweeper.            *)
LEMMA QuietKeeps ==
    ASSUME NEW o \in Orders, OrderInv(o),
           UNCHANGED << inbox, order, saga, notices, otx, payment, assignment >>,
           sent \subseteq sent', \A m \in sent' \ sent : m.step = "DeliveryDelivered",
           reservation'[o] = reservation[o] \/ (o \in Expiring /\ reservation'[o] = "RELEASED"),
           \A m \in ktx' : m.order = o =>
               m \in ktx \/ o \in Expiring
               \/ (m \notin inbox /\ reservation'[o] \in {"HELD", "CONFIRMED"})
    PROVE  OrderInv(o)'
<1>1. MessagesFit(o)'
  BY DEF OrderInv, MessagesFit, MessageFits, Says, SagaSteps, ToCourier, Compensations
<1>2. ReadsFit(o)' /\ RowsFit(o)'
  BY DEF OrderInv, ReadsFit, ReadFits, RowsFit
<1>3. ServicesFit(o)'
  BY NamedMessages DEF OrderInv, ServicesFit, Undoing
<1>4. ReleasesFit(o)'
  BY DEF OrderInv, ReleasesFit
<1>5. QED
  BY <1>1, <1>2, <1>3, <1>4 DEF OrderInv

(***************************************************************************)
(* The participants.                                                       *)
(***************************************************************************)

(* A participant consumes a forward command and answers it: the command    *)
(* waited in the status the order has, and its answer waits there now.     *)
LEMMA AnswerKeeps ==
    ASSUME IInv, NEW o \in Orders, OrderInv(o), NEW c \in sent, c \notin inbox,
           c.kind = "command", c.order = o, c.step \in SagaSteps,
           NEW s \in {"ok", "failed"}, c.step = "CapturePayment" => s = "ok",
           sent' = sent \cup {Reply(c, s)}, inbox' = inbox \cup {c}, ktx' = ktx,
           UNCHANGED << order, saga, notices, otx >>,
           payment'[o] # payment[o] =>
               \/ c.step = "AuthorizePayment" /\ s = "ok" /\ payment'[o] = "AUTHORIZED"
                  /\ payment[o] = "NONE"
               \/ c.step = "CapturePayment" /\ payment[o] # "NONE",
           c.step = "CapturePayment" => payment'[o] = "CAPTURED",
           assignment'[o] # assignment[o] => c.step = "AssignCourier" /\ s = "ok",
           reservation[o] \in {"HELD", "CONFIRMED"} => reservation'[o] \in {"HELD", "CONFIRMED"}
    PROVE  OrderInv(o)'
<1> DEFINE r == Reply(c, s)
<1>1. c \in Messages /\ sent \subseteq Messages
  BY DEF IInv, TypeOK, MessagingTypeOK
<1>2. /\ r.kind = s /\ r.step = c.step /\ r.order = o /\ r.from = c.from /\ r # c
  BY <1>1, ReplyFields
<1>3. MessageFits(o, c)
  BY DEF OrderInv, MessagesFit
<1>4. sent' = sent \cup {r}
  OBVIOUS
<1> HIDE DEF r
<1>5. payment[o] = "CAPTURED" => payment'[o] = "CAPTURED"
  OBVIOUS
<1>6. MessagesFit(o)'
  <2>1. ASSUME NEW m \in sent, m.order = o PROVE MessageFits(o, m)'
    BY <1>5, <2>1 DEF OrderInv, MessagesFit, MessageFits
  <2>2. MessageFits(o, r)'
    <3>1. c.step \notin Compensations
      BY DEF SagaSteps, Compensations
    <3>2. c.step = "AssignCourier" => order[o] \in Served
      BY <1>3, StatusTable DEF MessageFits, ToCourier, SagaSteps, Served
    <3>3. QED
      BY <1>2, <1>3, <3>1, <3>2 DEF MessageFits, Says
  <2>3. QED
    BY <1>4, <2>1, <2>2 DEF MessagesFit
<1>7. ReadsFit(o)' /\ RowsFit(o)'
  BY <1>4 DEF OrderInv, ReadsFit, ReadFits, RowsFit
<1>8. order[o] # "CANCELLED" /\ (c.step = "CapturePayment" => order[o] \in Paid)
  BY <1>3, StatusTable, SinceTable, StepsList DEF MessageFits, ToCourier, Paid
<1>9. ServicesFit(o)'
  <2>1. c.step \in ToCourier => c = Command(c.step, o, 0)
    BY <1>1, <1>3, CommandIs DEF MessageFits
  <2>2. payment'[o] # "NONE" => Reply(Command("AuthorizePayment", o, 0), "ok") \in sent'
    BY <1>4, <2>1 DEF OrderInv, ServicesFit, ToCourier, SagaSteps, r
  <2>3. assignment'[o] # "NONE" => Reply(Command("AssignCourier", o, 0), "ok") \in sent'
    BY <1>4, <2>1 DEF OrderInv, ServicesFit, ToCourier, SagaSteps, r
  <2>4. QED
    BY <1>5, <1>8, <2>2, <2>3 DEF OrderInv, ServicesFit
<1>10. ReleasesFit(o)'
  <2>1. ASSUME NEW m \in ktx, o \notin Expiring, m.order = o
        PROVE  m # c
    BY <2>1 DEF IInv, TransactionsHaveCauses, Sweeps, SweepOf, SagaSteps
  <2>2. QED
    BY <2>1 DEF OrderInv, ReleasesFit
<1>11. QED
  BY <1>6, <1>7, <1>9, <1>10 DEF OrderInv

(* An open release of an order the sweeper leaves alone is that of its one *)
(* ReleasePortions command.                                                *)
LEMMA OneRelease ==
    ASSUME IInv, NEW o \in Orders, OrderInv(o), o \notin Expiring,
           NEW m \in ktx, m.order = o
    PROVE  m = Command("ReleasePortions", o, 0) /\ m \in sent
<1>1. m \notin Sweeps
  BY DEF IInv, TransactionsHaveCauses
<1>2. m \in sent /\ m.step = "ReleasePortions"
  BY <1>1 DEF IInv, TransactionsHaveCauses
<1>3. m \in Messages /\ MessageFits(o, m)
  BY <1>2 DEF IInv, TypeOK, MessagingTypeOK, OrderInv, MessagesFit
<1>4. m.kind = "command" /\ m.from = 0
  BY <1>2, <1>3 DEF Messages, MessageFits, Compensations, SagaSteps
<1>5. QED
  BY <1>2, <1>3, <1>4, CommandIs

(* A participant consumes a compensation of a cancelled order.              *)
LEMMA CompensationKeeps ==
    ASSUME IInv, NEW o \in Orders, OrderInv(o), NEW c \in sent, c \notin inbox,
           c.kind = "command", c.order = o, c.step \in Compensations,
           sent' = sent, inbox' = inbox \cup {c}, ktx' \subseteq ktx \ {c},
           UNCHANGED << order, saga, notices, otx >>,
           payment'[o] # payment[o] => payment'[o] = "VOIDED" /\ payment[o] # "NONE",
           c.step = "VoidPayment" => payment'[o] # "AUTHORIZED",
           reservation'[o] # reservation[o] =>
               reservation'[o] = "RELEASED" /\ c.step = "ReleasePortions",
           c.step = "ReleasePortions" => reservation'[o] \notin {"HELD", "CONFIRMED"},
           assignment'[o] # assignment[o] => assignment'[o] = "CANCELLED" /\ assignment[o] # "NONE"
    PROVE  OrderInv(o)'
<1>1. order[o] = "CANCELLED" /\ MessageFits(o, c)
  BY DEF OrderInv, MessagesFit, MessageFits
<1>2. MessagesFit(o)'
  <2>1. ASSUME NEW m \in sent, m.order = o PROVE MessageFits(o, m)'
    <3>1. MessageFits(o, m)
      BY <2>1 DEF OrderInv, MessagesFit
    <3>2. m.step # "CapturePayment"
      BY <1>1, <3>1, SinceTable DEF MessageFits, SagaSteps, Paid
    <3>3. QED
      BY <3>1, <3>2 DEF MessageFits, Says
  <2>2. QED
    BY <2>1 DEF MessagesFit
<1>3. ReadsFit(o)' /\ RowsFit(o)'
  BY DEF OrderInv, ReadsFit, ReadFits, RowsFit
<1>4. ServicesFit(o)'
  <2>1. Undoing(o)
    BY <1>1 DEF OrderInv, ServicesFit
  <2>2. Undoing(o)'
    BY <2>1, NamedMessages DEF Undoing
  <2>3. payment'[o] # "CAPTURED"
    BY <1>1 DEF OrderInv, ServicesFit, Paid
  <2>4. QED
    BY <1>1, <2>2, <2>3 DEF OrderInv, ServicesFit, Paid
<1>5. ReleasesFit(o)'
  <2>1. ASSUME NEW m \in ktx', o \notin Expiring, m.order = o
        PROVE  m \notin inbox' /\ reservation'[o] \in {"HELD", "CONFIRMED"}
    <3>1. m \in ktx /\ m # c
      BY <2>1
    <3>2. m = Command("ReleasePortions", o, 0)
      BY <2>1, <3>1, OneRelease
    <3>3. c.step # "ReleasePortions"
      <4>1. c \in Messages
        BY DEF IInv, TypeOK, MessagingTypeOK
      <4>2. c = Command(c.step, o, 0)
        BY <1>1, <4>1, CommandIs DEF MessageFits
      <4>3. QED
        BY <3>1, <3>2, <4>2
    <3>4. QED
      BY <2>1, <3>1, <3>3 DEF OrderInv, ReleasesFit
  <2>2. QED
    BY <2>1 DEF ReleasesFit
<1>6. QED
  BY <1>2, <1>3, <1>4, <1>5 DEF OrderInv
(* The kitchen's handlers.                                                  *)
LEMMA CookingFits ==
    ASSUME IInv, NEW p \in Orders, Cooking(p), NEW o \in Orders, OrderInv(o)
    PROVE  OrderInv(o)'
<1>1. PICK m \in SentFor(p) : \/ ReservePortions(m) \/ ComesUpShort(m) \/ SoldOut(m)
                              \/ AcceptOrder(m) \/ BeginRelease(m) \/ NothingToRelease(m) \/ CommitRelease(m)
  BY DEF Cooking, KitchenHandles
<1>2. m \in sent /\ m.order = p /\ m \in Messages
  BY DEF SentFor, IInv, TypeOK, MessagingTypeOK
<1>3. UNCHANGED << order, saga, notices, cancels, otx, payment, assignment >>
  BY DEF Cooking, orchestratorVars, paymentVars, dispatchVars
<1>4. reservation \in [Orders -> ReservationStatus \cup {"NONE"}]
  BY DEF IInv, TypeOK, KitchenTypeOK
<1>5. /\ Reply(m, "ok").order = p /\ Reply(m, "failed").order = p
  BY <1>2, ReplyFields
<1>6. CASE ReservePortions(m) \/ SoldOut(m) \/ AcceptOrder(m)
  <2>1. /\ m \notin inbox /\ m.kind = "command" /\ m.step \in {"ReservePortions", "AcceptOrder"}
        /\ inbox' = inbox \cup {m} /\ ktx' = ktx
    BY <1>6 DEF ReservePortions, SoldOut, AcceptOrder, Arrives, Pending, Consume
  <2>2. PICK s \in {"ok", "failed"} : sent' = sent \cup {Reply(m, s)}
    BY <1>6 DEF ReservePortions, SoldOut, AcceptOrder, Consume
  <2>3. /\ \A q \in Orders : q # p => reservation'[q] = reservation[q]
        /\ reservation[p] \in {"HELD", "CONFIRMED"} => reservation'[p] \in {"HELD", "CONFIRMED"}
    BY <1>2, <1>4, <1>6 DEF ReservePortions, SoldOut, AcceptOrder
  <2>4. CASE o = p
    BY <1>2, <1>3, <2>1, <2>2, <2>3, <2>4, AnswerKeeps DEF SagaSteps
  <2>5. CASE o # p
    <3>1. Untouched(o)
      BY <1>2, <1>3, <1>5, <2>1, <2>2, <2>3, <2>5 DEF Untouched
    <3>2. QED
      BY <3>1, FrameKeeps
  <2>6. QED
    BY <2>4, <2>5
<1>7. CASE NothingToRelease(m) \/ CommitRelease(m)
  <2>1. /\ m \notin inbox /\ m.kind = "command" /\ m.step = "ReleasePortions"
        /\ inbox' = inbox \cup {m} /\ sent' = sent /\ ktx' = ktx \ {m}
    BY <1>2, <1>7 DEF NothingToRelease, CommitRelease, Arrives, Pending, Consume, IInv,
       TransactionsHaveCauses, Messages, SagaSteps
  <2>2. /\ \A q \in Orders : q # p => reservation'[q] = reservation[q]
        /\ reservation'[p] # reservation[p] => reservation'[p] = "RELEASED"
        /\ reservation'[p] \notin {"HELD", "CONFIRMED"}
    BY <1>2, <1>4, <1>7 DEF NothingToRelease, CommitRelease, Restore
  <2>3. CASE o = p
    BY <1>2, <1>3, <2>1, <2>2, <2>3, CompensationKeeps DEF Compensations
  <2>4. CASE o # p
    <3>1. Untouched(o)
      BY <1>2, <1>3, <2>1, <2>2, <2>4 DEF Untouched
    <3>2. QED
      BY <3>1, FrameKeeps
  <2>5. QED
    BY <2>3, <2>4
<1>8. CASE ComesUpShort(m) \/ BeginRelease(m)
  <2>1. UNCHANGED << inbox, sent, reservation >>
    BY <1>8 DEF ComesUpShort, BeginRelease, msgVars
  <2>2. \A q \in ktx' : q \in ktx \/ (q = m /\ m \notin inbox /\ reservation[p] \in {"HELD", "CONFIRMED"})
    BY <1>2, <1>8 DEF ComesUpShort, BeginRelease, Arrives, Pending
  <2>3. QED
    BY <1>2, <1>3, <2>1, <2>2, QuietKeeps
<1>9. QED
  BY <1>1, <1>6, <1>7, <1>8

(* The sweeper.                                                             *)
LEMMA UpkeepFits ==
    ASSUME IInv, Upkeep, NEW o \in Orders, OrderInv(o)
    PROVE  OrderInv(o)'
<1>1. UNCHANGED << order, saga, notices, otx, payment, assignment >>
  BY DEF Upkeep, orchestratorVars, paymentVars, dispatchVars
<1>2. reservation \in [Orders -> ReservationStatus \cup {"NONE"}]
  BY DEF IInv, TypeOK, KitchenTypeOK
<1>3. ASSUME NEW p \in Orders, BeginSweep(p)
      PROVE  OrderInv(o)'
  <2>1. UNCHANGED << inbox, sent, reservation >> /\ p \in Expiring
        /\ ktx' = ktx \cup {SweepOf(p)} /\ SweepOf(p).order = p
    BY <1>3 DEF BeginSweep, msgVars, SweepOf
  <2>2. QED
    BY <1>1, <2>1, QuietKeeps
<1>4. ASSUME NEW t \in ktx, CommitSweep(t)
      PROVE  OrderInv(o)'
  <2>1. UNCHANGED << inbox, sent >> /\ t.order \in Expiring /\ ktx' \subseteq ktx
        /\ reservation' = [reservation EXCEPT ![t.order] = "RELEASED"]
    BY <1>4 DEF CommitSweep, msgVars, Restore, IInv, TransactionsHaveCauses
  <2>2. reservation'[o] = reservation[o] \/ (o \in Expiring /\ reservation'[o] = "RELEASED")
    BY <1>2, <2>1
  <2>3. QED
    BY <1>1, <2>1, <2>2, QuietKeeps
<1>5. ASSUME NEW t \in ktx, RollBack(t)
      PROVE  OrderInv(o)'
  <2>1. UNCHANGED << inbox, sent, reservation >> /\ ktx' \subseteq ktx
    BY <1>5 DEF RollBack, msgVars
  <2>2. QED
    BY <1>1, <2>1, QuietKeeps
<1>6. QED
  BY <1>3, <1>4, <1>5 DEF Upkeep, KitchenBackground

(* The payment service.                                                     *)
LEMMA PayingFits ==
    ASSUME IInv, NEW p \in Orders, Paying(p), NEW o \in Orders, OrderInv(o)
    PROVE  OrderInv(o)'
<1>1. PICK m \in SentFor(p) : \/ Authorize(m) \/ Decline(m) \/ AnswerDeclined(m)
                              \/ AuthorizeAgain(m) \/ Capture(m) \/ BeginVoid(m)
                              \/ NothingToVoid(m) \/ CommitVoid(m) \/ Refund(m)
  BY DEF Paying, PaymentHandles
<1>2. m \in sent /\ m.order = p /\ m \in Messages
  BY DEF SentFor, IInv, TypeOK, MessagingTypeOK
<1>3. UNCHANGED << order, saga, notices, cancels, otx, reservation, ktx, assignment >>
  BY DEF Paying, orchestratorVars, kitchenVars, dispatchVars
<1>4. payment \in [Orders -> PaymentStatus \cup {"NONE"}]
  BY DEF IInv, TypeOK, PaymentTypeOK
<1>5. /\ Reply(m, "ok").order = p /\ Reply(m, "failed").order = p
  BY <1>2, ReplyFields
<1>6. CASE Authorize(m) \/ AnswerDeclined(m) \/ AuthorizeAgain(m) \/ Capture(m)
  <2>1. /\ m \notin inbox /\ m.kind = "command" /\ m.step \in {"AuthorizePayment", "CapturePayment"}
        /\ inbox' = inbox \cup {m}
    BY <1>6 DEF Authorize, AnswerDeclined, AuthorizeAgain, Capture, Arrives, Pending, Consume
  <2>2. \A q \in Orders : q # p => payment'[q] = payment[q]
    BY <1>2, <1>4, <1>6 DEF Authorize, AnswerDeclined, AuthorizeAgain, Capture, SetPayment
  <2>3. PICK s \in {"ok", "failed"} :
            /\ sent' = sent \cup {Reply(m, s)}
            /\ m.step = "CapturePayment" => payment'[p] = "CAPTURED" /\ payment[p] # "NONE" /\ s = "ok"
            /\ m.step = "AuthorizePayment" /\ payment'[p] # payment[p] =>
                  payment[p] = "NONE" /\ payment'[p] = "AUTHORIZED" /\ s = "ok"
    <3>1. CASE AnswerDeclined(m)
      BY <3>1 DEF AnswerDeclined, Arrives, Consume
    <3>2. CASE Authorize(m) \/ AuthorizeAgain(m)
      BY <1>2, <1>4, <3>2 DEF Authorize, AuthorizeAgain, SetPayment, Arrives, Consume
    <3>3. CASE Capture(m)
      BY <1>2, <1>4, <3>3 DEF Capture, SetPayment, Arrives, Consume
    <3>4. QED
      BY <1>6, <3>1, <3>2, <3>3
  <2>5. CASE o = p
    BY <1>2, <1>3, <2>1, <2>3, <2>5, AnswerKeeps DEF SagaSteps
  <2>6. CASE o # p
    <3>1. Untouched(o)
      BY <1>2, <1>3, <1>5, <2>1, <2>2, <2>3, <2>6 DEF Untouched
    <3>2. QED
      BY <3>1, FrameKeeps
  <2>7. QED
    BY <2>5, <2>6
<1>7. CASE NothingToVoid(m) \/ CommitVoid(m) \/ Refund(m)
  <2>1. /\ m \notin inbox /\ inbox' = inbox \cup {m} /\ sent' = sent
    BY <1>7 DEF NothingToVoid, CommitVoid, Refund, Pending, Consume
  <2>2. m.step = "RefundPayment" \/ m.step = "VoidPayment"
    BY <1>7 DEF NothingToVoid, CommitVoid, Refund, Arrives, IInv, TransactionsHaveCauses
  <2>3. m.kind = "command"
    BY <1>2, <2>2 DEF Messages, SagaSteps
  <2>4. \A q \in Orders : q # p => payment'[q] = payment[q]
    BY <1>2, <1>4, <1>7 DEF NothingToVoid, CommitVoid, Refund, SetPayment
  <2>5. CASE o = p
    <3>1. MessageFits(o, m)
      BY <1>2, <2>5 DEF OrderInv, MessagesFit
    <3>2. m.step # "RefundPayment"
      BY <3>1 DEF MessageFits, Compensations
    <3>3. NothingToVoid(m) \/ CommitVoid(m)
      BY <1>7, <3>2 DEF Refund, Arrives
    <3>4. /\ payment'[p] # payment[p] => payment'[p] = "VOIDED" /\ payment[p] # "NONE"
          /\ payment'[p] # "AUTHORIZED"
      BY <1>2, <1>4, <3>3 DEF NothingToVoid, CommitVoid, SetPayment, IInv, TransactionsHaveCauses
    <3>5. ktx' \subseteq ktx \ {m}
      BY <1>2, <1>3, <2>2, <2>3, <3>2 DEF IInv, TransactionsHaveCauses, Sweeps, SweepOf
    <3>6. QED
      BY <1>2, <1>3, <2>1, <2>2, <2>3, <2>5, <3>2, <3>4, <3>5, CompensationKeeps DEF Compensations
  <2>6. CASE o # p
    <3>1. Untouched(o)
      BY <1>2, <1>3, <2>1, <2>4, <2>6 DEF Untouched
    <3>2. QED
      BY <3>1, FrameKeeps
  <2>7. QED
    BY <2>5, <2>6
<1>8. CASE BeginVoid(m) \/ Decline(m)
  <2>1. UNCHANGED << inbox, sent, payment >>
    BY <1>8 DEF BeginVoid, Decline, msgVars
  <2>2. QED
    BY <1>3, <2>1, QuietKeeps
<1>9. QED
  BY <1>1, <1>6, <1>7, <1>8

(* The dispatch service.                                                    *)
LEMMA DispatchingFits ==
    ASSUME IInv, NEW p \in Orders, Dispatching(p), NEW o \in Orders, OrderInv(o)
    PROVE  OrderInv(o)'
<1>1. UNCHANGED << order, saga, notices, cancels, otx, reservation, ktx, payment >>
  BY DEF Dispatching, orchestratorVars, kitchenVars, paymentVars
<1>2. assignment \in [Orders -> {"NONE", "ACCEPTED", "CANCELLED"}]
  BY DEF IInv, TypeOK, DispatchTypeOK
<1>3. ASSUME NEW m \in SentFor(p), Assign(m) \/ NoCourier(m)
      PROVE  OrderInv(o)'
  <2>1. m \in sent /\ m.order = p /\ m \in Messages
    BY DEF SentFor, IInv, TypeOK, MessagingTypeOK
  <2>2. /\ Reply(m, "ok").order = p /\ Reply(m, "failed").order = p
    BY <2>1, ReplyFields
  <2>3. /\ m \notin inbox /\ m.kind = "command" /\ m.step = "AssignCourier"
        /\ inbox' = inbox \cup {m}
    BY <1>3 DEF Assign, NoCourier, Arrives, Pending, Consume
  <2>4. \A q \in Orders : q # p => assignment'[q] = assignment[q]
    BY <1>2, <1>3, <2>1 DEF Assign, NoCourier, dispatchVars
  <2>5. PICK s \in {"ok", "failed"} :
            /\ sent' = sent \cup {Reply(m, s)}
            /\ assignment'[p] # assignment[p] => s = "ok"
    BY <1>3 DEF Assign, NoCourier, dispatchVars, Consume
  <2>6. CASE o = p
    BY <1>1, <2>1, <2>3, <2>5, <2>6, AnswerKeeps DEF SagaSteps
  <2>7. CASE o # p
    <3>1. Untouched(o)
      BY <1>1, <2>1, <2>2, <2>3, <2>4, <2>5, <2>7 DEF Untouched
    <3>2. QED
      BY <3>1, FrameKeeps
  <2>8. QED
    BY <2>6, <2>7
<1>4. ASSUME NEW m \in SentFor(p), Unassign(m)
      PROVE  OrderInv(o)'
  <2>1. m \in sent /\ m.order = p /\ m \in Messages
    BY DEF SentFor, IInv, TypeOK, MessagingTypeOK
  <2>2. /\ m \notin inbox /\ m.kind = "command" /\ m.step = "UnassignCourier"
        /\ inbox' = inbox \cup {m} /\ sent' = sent
    BY <1>4 DEF Unassign, Arrives, Pending, Consume
  <2>3. /\ \A q \in Orders : q # p => assignment'[q] = assignment[q]
        /\ assignment'[p] # assignment[p] => assignment'[p] = "CANCELLED" /\ assignment[p] # "NONE"
    BY <1>2, <1>4, <2>1 DEF Unassign
  <2>4. CASE o = p
    <3>1. ktx' \subseteq ktx \ {m}
      BY <1>1, <2>1, <2>2 DEF IInv, TransactionsHaveCauses, Sweeps, SweepOf
    <3>2. QED
      BY <1>1, <2>1, <2>2, <2>3, <2>4, <3>1, CompensationKeeps DEF Compensations
  <2>5. CASE o # p
    <3>1. Untouched(o)
      BY <1>1, <2>1, <2>2, <2>3, <2>5 DEF Untouched
    <3>2. QED
      BY <3>1, FrameKeeps
  <2>6. QED
    BY <2>4, <2>5
<1>5. ASSUME NEW k \in Timers, TimerFires(p, k) \/ CompleteDelivery(p, k)
      PROVE  OrderInv(o)'
  <2>1. UNCHANGED << inbox, assignment >> /\ sent \subseteq sent'
        /\ \A m \in sent' \ sent : m.step = "DeliveryDelivered"
    BY <1>5 DEF TimerFires, CompleteDelivery, msgVars, Delivered
  <2>2. QED
    BY <1>1, <2>1, QuietKeeps
<1>6. QED
  BY <1>3, <1>4, <1>5 DEF Dispatching, DispatchHandles

(* Redeliveries, failures and restarts of the dispatch service.             *)
LEMMA TroubleFits ==
    ASSUME Trouble, NEW o \in Orders, OrderInv(o)
    PROVE  OrderInv(o)'
<1>1. UNCHANGED << order, saga, notices, otx, reservation, ktx, payment >>
  BY DEF Trouble, orchestratorVars, kitchenVars, paymentVars
<1>2. UNCHANGED << inbox, sent, assignment >>
  BY DEF Trouble, DispatchFaults, Redelivered, CompletionFails, Restart, msgVars
<1>3. QED
  BY <1>1, <1>2, QuietKeeps
(***************************************************************************)
(* The orchestrator.                                                       *)
(***************************************************************************)

(* What a handler of a reply on the way to the courier can rely on: the    *)
(* status has not moved since it was read, and nothing else waits.         *)
LEMMA ReplyFits ==
    ASSUME IInv, NEW o \in Orders, OrderInv(o), NEW t \in otx, t.msg.order = o,
           t.msg.step \in ToCourier
    PROVE  /\ order[o] = StatusAt(t.msg.step) /\ t.status = order[o]
           /\ AcquiredAt(order[o]) \subseteq t.acquired /\ t.msg.from = 0
           /\ t.msg.kind \in {"ok", "failed"}
           /\ \A m \in sent : m.order = o /\ m.step \in ToCourier => m \in inbox \cup {t.msg}
           /\ t.msg.kind = "failed" => Reply(Command(t.msg.step, o, 0), "ok") \notin sent
<1> DEFINE r == t.msg
<1>1. r \in sent /\ r \notin inbox /\ r.kind # "command" /\ ReadFits(o, t)
  BY DEF OrderInv, ReadsFit, ReadFits
<1>2. r \in Messages /\ MessageFits(o, r)
  BY <1>1 DEF OrderInv, MessagesFit, IInv, TypeOK, MessagingTypeOK
<1>3. order[o] = StatusAt(r.step) /\ r.from = 0
  BY <1>1, <1>2 DEF MessageFits
<1>4. t.status = order[o] /\ AcquiredAt(order[o]) \subseteq t.acquired
  BY <1>1, <1>3 DEF ReadFits
<1>5. r.kind \in {"ok", "failed"}
  BY <1>1, <1>2 DEF Messages, ToCourier, SagaSteps
<1>6. ASSUME NEW m \in sent, m.order = o, m.step \in ToCourier
      PROVE  m \in inbox \cup {r}
  BY <1>1, <1>6, OnePending DEF OrderInv
<1>7. ASSUME r.kind = "failed"
      PROVE  Reply(Command(r.step, o, 0), "ok") \notin sent
  <2> DEFINE c == [r EXCEPT !.kind = "command"]
  <2>1. c \in inbox
    BY <1>1, <1>5 DEF IInv, AnswersHaveCommands
  <2>2. /\ c \in Messages /\ c.kind = "command" /\ c \in sent
        /\ c.step = r.step /\ c.order = o /\ c.from = 0 /\ c.step \in SagaSteps
    BY <1>2, <1>3, <2>1 DEF Messages, ToCourier, IInv, TypeOK, MessagingTypeOK
  <2> HIDE DEF c
  <2>3. r = Reply(c, "failed")
    BY <1>2, <1>3, <1>7, <2>2, ReplyIs
  <2>4. c = Command(r.step, o, 0)
    BY <2>2, CommandIs
  <2>5. QED
    BY <1>1, <2>1, <2>2, <2>3, <2>4 DEF IInv, AnsweredOnce, Answered
<1>8. QED
  BY <1>3, <1>4, <1>5, <1>6, <1>7

(* A handler that moves the order: what is left to show is what it sends   *)
(* and what it writes.                                                     *)
LEMMA MoveKeeps ==
    ASSUME IInv, NEW o \in Orders, OrderInv(o),
           NEW r \in sent, r \notin inbox, r.order = o, r.kind # "command",
           NEW out, sent' = sent \cup out, inbox' = inbox \cup {r},
           otx' = {u \in otx : u.msg # r},
           UNCHANGED << payment, reservation, assignment, ktx >>,
           order[o] \notin {"NONE", "CANCELLED", "REJECTED"},
           \A step \in SagaSteps : order[o] \in Since(step) => order'[o] \in Since(step),
           \A m \in sent : m.order = o /\ m.step \in ToCourier => m \in inbox \cup {r},
           \A m \in sent : m.order = o /\ Says(m, "AssignCourier", {"ok"}) => order'[o] \in Served,
           order[o] \in Served \ {"PREPARING"} => order'[o] \in Paid,
           \A c \in out : MessageFits(o, c)',
           RowsFit(o)',
           order'[o] = "COMPLETED" => payment[o] = "CAPTURED",
           order'[o] = "CANCELLED" => Undoing(o)'
    PROVE  OrderInv(o)'
<1>1. MessagesFit(o)'
  <2>1. ASSUME NEW m \in sent, m.order = o PROVE MessageFits(o, m)'
    <3>1. MessageFits(o, m)
      BY <2>1 DEF OrderInv, MessagesFit
    <3>2. QED
      BY <2>1, <3>1 DEF MessageFits
  <2>2. QED
    BY <2>1 DEF MessagesFit
<1>2. ReadsFit(o)'
  <2>1. ASSUME NEW u \in otx, u.msg # r, u.msg.order = o PROVE ReadFits(o, u)'
    <3>1. ReadFits(o, u)
      BY <2>1 DEF OrderInv, ReadsFit
    <3>2. u.msg.step \notin ToCourier
      BY <2>1, <3>1 DEF ReadFits
    <3>3. QED
      BY <2>1, <3>1, <3>2 DEF ReadFits, Served, Paid
  <2>2. QED
    BY <2>1 DEF ReadsFit
<1>3. ServicesFit(o)'
  BY DEF OrderInv, ServicesFit, Served, Paid
<1>4. ReleasesFit(o)'
  <2>1. ASSUME NEW m \in ktx, o \notin Expiring, m.order = o
        PROVE  m # r
    BY <2>1, OneRelease, NamedMessages
  <2>2. QED
    BY <2>1 DEF OrderInv, ReleasesFit
<1>5. QED
  BY <1>1, <1>2, <1>3, <1>4 DEF OrderInv

(* A handler that finds nothing to do: the message is only consumed.        *)
LEMMA IgnoreKeeps ==
    ASSUME IInv, NEW o \in Orders, OrderInv(o),
           NEW r \in sent, r \notin inbox, r.order = o, r.kind # "command",
           sent' = sent, inbox' = inbox \cup {r}, otx' = {u \in otx : u.msg # r},
           UNCHANGED << order, saga, notices, payment, reservation, assignment, ktx >>
    PROVE  OrderInv(o)'
<1>1. MessagesFit(o)'
  BY DEF OrderInv, MessagesFit, MessageFits
<1>2. ReadsFit(o)' /\ RowsFit(o)'
  BY DEF OrderInv, ReadsFit, ReadFits, RowsFit
<1>3. ServicesFit(o)'
  BY NamedMessages DEF OrderInv, ServicesFit, Undoing
<1>4. ReleasesFit(o)'
  <2>1. ASSUME NEW m \in ktx, o \notin Expiring, m.order = o
        PROVE  m # r
    BY <2>1, OneRelease, NamedMessages
  <2>2. QED
    BY <2>1 DEF OrderInv, ReleasesFit
<1>5. QED
  BY <1>1, <1>2, <1>3, <1>4 DEF OrderInv
(* What a transition writes, row by row.                                    *)
LEMMA WriteIs ==
    ASSUME TypeOK, NEW o \in Orders, NEW status, NEW row, NEW events,
           Write(o, status, row, events)
    PROVE  /\ order'[o] = status /\ saga'[o] = row
           /\ notices'[o] = notices[o] \cup {status} \cup events
           /\ \A q \in Orders : q # o =>
                 order'[q] = order[q] /\ saga'[q] = saga[q] /\ notices'[q] = notices[q]
BY DEF Write, TypeOK, OrchestratorTypeOK

(* What the commit of a handler does to the messages.                       *)
LEMMA CommitIs ==
    ASSUME IInv, NEW o \in Orders, OrderInv(o), NEW t \in otx, t.msg.order = o,
           NEW out, CommitMessage(t, out)
    PROVE  /\ t.msg \in sent /\ t.msg \notin inbox /\ t.msg.kind # "command"
           /\ t.msg \in Messages /\ MessageFits(o, t.msg) /\ ReadFits(o, t)
           /\ sent' = sent \cup out /\ inbox' = inbox \cup {t.msg}
           /\ otx' = {u \in otx : u.msg # t.msg}
<1>1. t.msg \in sent /\ t.msg \notin inbox /\ t.msg.kind # "command" /\ ReadFits(o, t)
  BY DEF OrderInv, ReadsFit, ReadFits
<1>2. t.msg \in Messages /\ MessageFits(o, t.msg)
  BY <1>1 DEF OrderInv, MessagesFit, IInv, TypeOK, MessagingTypeOK
<1>3. QED
  BY <1>1, <1>2 DEF CommitMessage, Consume

(* advance() on the way to the courier: each reply moves the order to the  *)
(* status in which the next command waits.                                 *)
LEMMA AdvanceFits ==
    ASSUME IInv, NEW o \in Orders, OrderInv(o), NEW t \in otx, t.msg.order = o,
           UNCHANGED << payment, reservation, assignment, ktx >>,
           NEW out, NEW status, NEW row, NEW events,
           CommitMessage(t, out), Write(o, status, row, events),
           \/ /\ t.msg.step = "ReservePortions" /\ status = "PORTIONS_RESERVED"
              /\ out = Sends(t, "AuthorizePayment") /\ events = {}
              /\ row.acquired = saga[o].acquired \cup {"reservation"}
           \/ /\ t.msg.step = "AuthorizePayment" /\ status = "PAYMENT_AUTHORIZED"
              /\ out = Sends(t, "AcceptOrder") /\ events = {}
              /\ row.acquired = saga[o].acquired \cup {"payment"}
           \/ /\ t.msg.step = "AcceptOrder" /\ status = "PREPARING"
              /\ out = Sends(t, "AssignCourier") /\ events = {"OrderConfirmed"}
              /\ row.acquired = saga[o].acquired
           \/ /\ t.msg.step = "AssignCourier" /\ status = "COURIER_ASSIGNED"
              /\ out = {} /\ events = {}
    PROVE  OrderInv(o)'
<1> DEFINE r == t.msg
<1>1. /\ order'[o] = status /\ saga'[o] = row
      /\ notices'[o] = notices[o] \cup {status} \cup events
  BY WriteIs DEF IInv
<1>2. /\ r \in sent /\ r \notin inbox /\ r.kind # "command"
      /\ sent' = sent \cup out /\ inbox' = inbox \cup {r}
      /\ otx' = {u \in otx : u.msg # r}
  BY CommitIs
<1>3. r.step \in ToCourier
  BY DEF ToCourier, SagaSteps
<1>4. /\ order[o] = StatusAt(r.step) /\ r.from = 0
      /\ \A m \in sent : m.order = o /\ m.step \in ToCourier => m \in inbox \cup {r}
  BY <1>3, ReplyFits
<1>5. order[o] \in {"PLACED", "PORTIONS_RESERVED", "PAYMENT_AUTHORIZED", "PREPARING"}
  BY <1>3, <1>4, StepsList
<1>6. \A step \in SagaSteps : order[o] \in Since(step) => order'[o] \in Since(step)
  BY <1>1, <1>4, StatusTable, SinceTable DEF SagaSteps, OrderStatus, Ordered, Served, Paid
<1>7. order[o] \in Served => order'[o] \in Served
  BY <1>1, <1>4, StatusTable DEF Served
<1>8. \A m \in sent : m.order = o /\ Says(m, "AssignCourier", {"ok"}) => order'[o] \in Served
  BY <1>7 DEF OrderInv, MessagesFit, MessageFits
<1>9. ASSUME NEW c \in out PROVE MessageFits(o, c)'
  <2>1. PICK step \in ToCourier : c = Command(step, o, 0) /\ status = StatusAt(step)
    BY <1>4, StatusTable DEF Sends, ToCourier, SagaSteps
  <2>2. c.kind = "command" /\ c.step = step /\ c.order = o /\ c.from = 0
    BY <2>1, CommandFields
  <2>3. status \in Since(step)
    BY <2>1, StatusTable, SinceTable, StepsList DEF Ordered, Served, OrderStatus
  <2>4. step \notin Compensations /\ step # "CapturePayment"
    BY StepsList DEF Compensations
  <2>5. QED
    BY <1>1, <2>1, <2>2, <2>3, <2>4 DEF MessageFits, Says
<1>10. RowsFit(o)'
  <2>1. /\ "OrderCancelled" \notin notices[o] /\ "OrderRejected" \notin notices[o]
        /\ "OrderCompleted" \notin notices[o]
    BY <1>5 DEF OrderInv, RowsFit, Paid
  <2>2. /\ "OrderCancelled" \notin notices'[o] /\ "OrderRejected" \notin notices'[o]
        /\ "OrderCompleted" \notin notices'[o]
    BY <1>1, <2>1
  <2>3. order'[o] \in Served => "OrderConfirmed" \in notices'[o]
    BY <1>1, <1>4, StatusTable DEF OrderInv, RowsFit, Served
  <2>4. AcquiredAt(order'[o]) \subseteq saga'[o].acquired
    BY <1>1, <1>4, StatusTable, AcquiredTable DEF OrderInv, RowsFit
  <2>5. QED
    BY <2>2, <2>3, <2>4 DEF RowsFit
<1>11. order'[o] # "COMPLETED" /\ order'[o] # "CANCELLED"
  BY <1>1
<1> HIDE DEF r
<1>12. QED
  BY <1>2, <1>4, <1>5, <1>6, <1>8, <1>9, <1>10, <1>11, MoveKeeps DEF Served, r

(* The elements of a compensation, and what is among them.                  *)
LEMMA UndoIs ==
    ASSUME NEW t
    PROVE  /\ \A c \in Undo(t, Resources) :
                 \E step \in Compensations \ {"RefundPayment"} :
                     c = Command(step, t.msg.order, t.msg.from)
           /\ "payment" \in t.acquired =>
                 Command("VoidPayment", t.msg.order, t.msg.from) \in Undo(t, Resources)
           /\ "reservation" \in t.acquired =>
                 Command("ReleasePortions", t.msg.order, t.msg.from) \in Undo(t, Resources)
<1> DEFINE Undone(r) == CASE r = "assignment"  -> "UnassignCourier"
                          [] r = "payment"     -> "VoidPayment"
                          [] r = "reservation" -> "ReleasePortions"
<1>1. /\ Undone("assignment") = "UnassignCourier" /\ Undone("payment") = "VoidPayment"
      /\ Undone("reservation") = "ReleasePortions"
  OBVIOUS
<1>2. Undo(t, Resources) =
          {Command(Undone(r), t.msg.order, t.msg.from) : r \in Resources \cap t.acquired}
  BY DEF Undo
<1> HIDE DEF Undone
<1>3. QED
  BY <1>1, <1>2 DEF Resources, Compensations

(* compensate() on the way to the courier: what the order had acquired is  *)
(* what its participants hold.                                             *)
LEMMA CompensateFits ==
    ASSUME IInv, NEW o \in Orders, OrderInv(o), NEW t \in otx, t.msg.order = o,
           UNCHANGED << payment, reservation, assignment, ktx >>, Compensate(t)
    PROVE  OrderInv(o)'
<1> DEFINE r == t.msg
           out == Undo(t, Resources)
<1>1. /\ order'[o] = "CANCELLED"
      /\ notices'[o] = notices[o] \cup {"CANCELLED"} \cup {"OrderCancelled"}
  BY WriteIs DEF IInv, Compensate
<1>2. /\ r \in sent /\ r \notin inbox /\ r.kind # "command" /\ r \in Messages
      /\ MessageFits(o, r)
      /\ sent' = sent \cup out /\ inbox' = inbox \cup {r}
      /\ otx' = {u \in otx : u.msg # r}
  BY CommitIs DEF Compensate
<1>3. r.kind = "failed" /\ r.step \in {"AuthorizePayment", "AcceptOrder", "AssignCourier"}
  BY <1>2 DEF Compensate, Messages, SagaSteps, MessageFits
<1>4. r.step \in ToCourier
  BY <1>3 DEF ToCourier, SagaSteps
<1>5. /\ order[o] = StatusAt(r.step) /\ r.from = 0
      /\ AcquiredAt(order[o]) \subseteq t.acquired
      /\ \A m \in sent : m.order = o /\ m.step \in ToCourier => m \in inbox \cup {r}
      /\ Reply(Command(r.step, o, 0), "ok") \notin sent
  BY <1>3, <1>4, ReplyFits
<1>6. order[o] \in {"PORTIONS_RESERVED", "PAYMENT_AUTHORIZED", "PREPARING"}
  BY <1>3, <1>5, StatusTable
<1>7. \A step \in SagaSteps : order[o] \in Since(step) => order'[o] \in Since(step)
  BY <1>1, <1>6, SinceTable DEF SagaSteps, OrderStatus, Ordered, Served, Paid
<1>8. ASSUME NEW m \in sent, m.order = o, Says(m, "AssignCourier", {"ok"})
      PROVE  FALSE
  <2>1. MessageFits(o, m) /\ m \in Messages
    BY <1>8 DEF OrderInv, MessagesFit, IInv, TypeOK, MessagingTypeOK
  <2>2. order[o] = "PREPARING" /\ m.from = 0
    BY <1>6, <1>8, <2>1 DEF MessageFits, Served, Says, ToCourier, SagaSteps
  <2>3. r.step = "AssignCourier"
    BY <1>3, <1>5, <2>2, StatusTable
  <2>4. m = Reply(Command("AssignCourier", o, 0), "ok")
    <3>1. Command("AssignCourier", o, 0) \in Messages
      BY CommandType DEF SagaSteps
    <3>2. m.kind = "ok" /\ m.step = "AssignCourier"
      BY <1>8 DEF Says
    <3>3. QED
      BY <1>8, <2>1, <2>2, <3>1, <3>2, ReplyIs, CommandFields
  <2>5. QED
    BY <1>5, <2>3, <2>4
<1>9. ASSUME NEW c \in out
      PROVE  /\ c.kind = "command" /\ c.order = o /\ c.from = 0
             /\ c.step \in Compensations /\ c.step # "RefundPayment"
  BY <1>5, UndoIs, CommandFields
<1>10. ASSUME NEW c \in out PROVE MessageFits(o, c)'
  <2>1. c.step \notin SagaSteps
    BY <1>9 DEF Compensations, SagaSteps
  <2>2. QED
    BY <1>1, <1>9, <2>1 DEF MessageFits, Says, ToCourier, SagaSteps
<1>11. RowsFit(o)'
  <2>1. "OrderRejected" \notin notices'[o] /\ "OrderCompleted" \notin notices'[o]
    BY <1>1, <1>6 DEF OrderInv, RowsFit, Paid
  <2>2. QED
    BY <1>1, <2>1, AcquiredTable DEF RowsFit, Served
<1>12. Undoing(o)'
  <2>1. ASSUME NEW c \in sent, c.order = o, c.step \in Compensations PROVE FALSE
    BY <1>6, <2>1 DEF OrderInv, MessagesFit, MessageFits
  <2>2. ASSUME NEW c, c.order = o, c.kind = "command", c.step \in Compensations
        PROVE  c \notin inbox'
    BY <1>2, <2>1, <2>2 DEF IInv, TypeOK, MessagingTypeOK
  <2>3. ASSUME payment[o] = "AUTHORIZED"
        PROVE  Command("VoidPayment", o, 0) \in sent' \ inbox'
    <3>1. Reply(Command("AuthorizePayment", o, 0), "ok") \in sent
      BY <2>3 DEF OrderInv, ServicesFit
    <3>2. order[o] \in {"PAYMENT_AUTHORIZED", "PREPARING"}
      BY <1>3, <1>5, <3>1, StatusTable
    <3>3. "payment" \in t.acquired
      BY <1>5, <3>2, AcquiredTable
    <3>4. QED
      BY <1>2, <1>5, <2>2, <3>3, UndoIs, NamedMessages DEF Compensations
  <2>4. Command("ReleasePortions", o, 0) \in sent' \ inbox'
    <3>1. "reservation" \in t.acquired
      BY <1>5, <1>6, AcquiredTable
    <3>2. QED
      BY <1>2, <1>5, <2>2, <3>1, UndoIs, NamedMessages DEF Compensations
  <2>5. assignment[o] = "NONE"
    <3>1. Reply(Command("AssignCourier", o, 0), "ok") \notin sent
      <4>1. LET m == Reply(Command("AssignCourier", o, 0), "ok") IN
            m.order = o /\ Says(m, "AssignCourier", {"ok"})
        BY DEF Reply, Command, Says
      <4>2. QED
        BY <1>8, <4>1
    <3>2. QED
      BY <3>1 DEF OrderInv, ServicesFit
  <2>6. QED
    BY <2>3, <2>4, <2>5 DEF Undoing
<1> HIDE DEF r, out
<1>13. QED
  BY <1>1, <1>2, <1>5, <1>6, <1>7, <1>8, <1>10, <1>11, <1>12, MoveKeeps DEF Served, r
(* compensate() of a sold-out order.                                        *)
LEMMA RejectFits ==
    ASSUME IInv, NEW o \in Orders, OrderInv(o), NEW t \in otx, t.msg.order = o,
           UNCHANGED << payment, reservation, assignment, ktx >>, Reject(t)
    PROVE  OrderInv(o)'
<1> DEFINE r == t.msg
<1>1. /\ order'[o] = "REJECTED"
      /\ notices'[o] = notices[o] \cup {"REJECTED"} \cup {"OrderRejected"}
  BY WriteIs DEF IInv, Reject
<1>2. /\ r \in sent /\ r \notin inbox /\ r.kind # "command"
      /\ sent' = sent \cup {} /\ inbox' = inbox \cup {r}
      /\ otx' = {u \in otx : u.msg # r}
  BY CommitIs DEF Reject
<1>3. r.step = "ReservePortions" /\ r.step \in ToCourier
  BY DEF Reject, IsReply, ToCourier, SagaSteps
<1>4. /\ order[o] = "PLACED"
      /\ \A m \in sent : m.order = o /\ m.step \in ToCourier => m \in inbox \cup {r}
  BY <1>3, ReplyFits, StatusTable
<1>5. \A step \in SagaSteps : order[o] \in Since(step) => order'[o] \in Since(step)
  BY <1>1, <1>4, SinceTable DEF SagaSteps, OrderStatus, Ordered, Served, Paid
<1>6. \A m \in sent : m.order = o /\ Says(m, "AssignCourier", {"ok"}) => order'[o] \in Served
  BY <1>4 DEF OrderInv, MessagesFit, MessageFits, Served
<1>7. RowsFit(o)'
  <2>1. "OrderCancelled" \notin notices'[o] /\ "OrderCompleted" \notin notices'[o]
    BY <1>1, <1>4 DEF OrderInv, RowsFit, Paid
  <2>2. QED
    BY <1>1, <2>1, AcquiredTable DEF RowsFit, Served
<1>8. PICK out : out = {}
  OBVIOUS
<1>9. sent' = sent \cup out /\ \A c \in out : MessageFits(o, c)'
  BY <1>2, <1>8
<1> HIDE DEF r
<1>10. QED
  BY <1>1, <1>2, <1>4, <1>5, <1>6, <1>7, <1>9, MoveKeeps DEF Served, r

(* Nothing on the way to the courier waits once the courier has the order,  *)
(* and nothing was compensated.                                             *)
LEMMA NothingWaits ==
    ASSUME NEW o, MessagesFit(o), order[o] \in Served \ {"PREPARING"}
    PROVE  \A m \in sent : m.order = o => /\ m.step \in ToCourier => m \in inbox
                                          /\ m.step \notin Compensations
BY StepsList DEF MessagesFit, MessageFits, Served

(* onDelivered: the capture is asked for.                                   *)
LEMMA OnDeliveredFits ==
    ASSUME IInv, NEW o \in Orders, OrderInv(o), NEW t \in otx, t.msg.order = o,
           UNCHANGED << payment, reservation, assignment, ktx >>, OnDelivered(t)
    PROVE  OrderInv(o)'
<1> DEFINE r == t.msg
           c == Command("CapturePayment", o, r.from)
<1>1. /\ order'[o] = "DELIVERED"
      /\ notices'[o] = notices[o] \cup {"DELIVERED"} \cup {}
  BY WriteIs DEF IInv, OnDelivered
<1>2. /\ r \in sent /\ r \notin inbox /\ r.kind # "command" /\ ReadFits(o, t)
      /\ sent' = sent \cup {c} /\ inbox' = inbox \cup {r}
      /\ otx' = {u \in otx : u.msg # r}
  BY CommitIs DEF OnDelivered, Sends
<1>3. order[o] \in Served \ {"PREPARING"}
  BY <1>2 DEF OnDelivered, AwaitsDelivery, ReadFits
<1>4. \A m \in sent : m.order = o /\ m.step \in ToCourier => m \in inbox \cup {r}
  BY <1>3, NothingWaits DEF OrderInv
<1>5. \A step \in SagaSteps : order[o] \in Since(step) => order'[o] \in Since(step)
  BY <1>1, <1>3, SinceTable DEF SagaSteps, OrderStatus, Ordered, Served, Paid
<1>6. MessageFits(o, c)'
  <2>1. c.kind = "command" /\ c.step = "CapturePayment" /\ c.order = o
    BY CommandFields
  <2> HIDE DEF c
  <2>2. QED
    BY <1>1, <2>1, SinceTable DEF MessageFits, Says, Paid, ToCourier, Compensations
<1>7. RowsFit(o)'
  <2>1. "OrderCancelled" \notin notices'[o] /\ "OrderRejected" \notin notices'[o]
    BY <1>1, <1>3 DEF OrderInv, RowsFit, Served
  <2>2. QED
    BY <1>1, <1>3, <2>1, AcquiredTable DEF OrderInv, RowsFit, Paid
<1>8. PICK out : out = {c}
  OBVIOUS
<1> HIDE DEF r, c
<1>9. sent' = sent \cup out /\ \A m \in out : MessageFits(o, m)'
  BY <1>2, <1>6, <1>8
<1>10. QED
  BY <1>1, <1>2, <1>3, <1>4, <1>5, <1>7, <1>9, MoveKeeps DEF Served, Paid, r

(* The capture is answered: the order is completed.                         *)
LEMMA PaymentCapturedFits ==
    ASSUME IInv, NEW o \in Orders, OrderInv(o), NEW t \in otx, t.msg.order = o,
           UNCHANGED << payment, reservation, assignment, ktx >>, PaymentCaptured(t)
    PROVE  OrderInv(o)'
<1> DEFINE r == t.msg
<1>1. /\ order'[o] = "COMPLETED"
      /\ notices'[o] = notices[o] \cup {"COMPLETED"} \cup {"OrderCompleted"}
  BY WriteIs DEF IInv, PaymentCaptured
<1>2. /\ r \in sent /\ r \notin inbox /\ r.kind # "command" /\ MessageFits(o, r)
      /\ sent' = sent \cup {} /\ inbox' = inbox \cup {r}
      /\ otx' = {u \in otx : u.msg # r}
  BY CommitIs DEF PaymentCaptured
<1>3. r.step = "CapturePayment" /\ r.kind = "ok"
  BY DEF PaymentCaptured, IsReply
<1>4. order[o] \in Paid /\ payment[o] = "CAPTURED"
  BY <1>2, <1>3, SinceTable DEF MessageFits, Says, SagaSteps
<1>5. \A m \in sent : m.order = o /\ m.step \in ToCourier => m \in inbox \cup {r}
  BY <1>4, NothingWaits DEF OrderInv, Served, Paid
<1>6. \A step \in SagaSteps : order[o] \in Since(step) => order'[o] \in Since(step)
  BY <1>1, <1>4, SinceTable DEF SagaSteps, OrderStatus, Ordered, Served, Paid
<1>7. RowsFit(o)'
  <2>1. "OrderCancelled" \notin notices'[o] /\ "OrderRejected" \notin notices'[o]
    BY <1>1, <1>4 DEF OrderInv, RowsFit, Paid
  <2>2. QED
    BY <1>1, <1>4, <2>1, AcquiredTable DEF OrderInv, RowsFit, Paid, Served
<1>8. PICK out : out = {}
  OBVIOUS
<1>9. sent' = sent \cup out /\ \A c \in out : MessageFits(o, c)'
  BY <1>2, <1>8
<1> HIDE DEF r
<1>10. QED
  BY <1>1, <1>2, <1>4, <1>5, <1>6, <1>7, <1>9, MoveKeeps DEF Served, Paid, r

(* An order nobody asked to cancel is not ignored before it is paid.        *)
LEMMA IgnoreFits ==
    ASSUME IInv, NEW o \in Orders, OrderInv(o), NEW t \in otx, t.msg.order = o,
           UNCHANGED << payment, reservation, assignment, ktx >>,
           IgnoreReply(t) \/ IgnoreDelivered(t)
    PROVE  OrderInv(o)'
<1>1. CommitMessage(t, {}) /\ UNCHANGED << order, saga, notices >>
  BY DEF IgnoreReply, IgnoreDelivered
<1>2. /\ t.msg \in sent /\ t.msg \notin inbox /\ t.msg.kind # "command"
      /\ sent' = sent \cup {} /\ inbox' = inbox \cup {t.msg}
      /\ otx' = {u \in otx : u.msg # t.msg}
  BY <1>1, CommitIs
<1>3. sent' = sent
  BY <1>2
<1>4. QED
  BY <1>1, <1>2, <1>3, IgnoreKeeps

(* The messages and rows a handler writes are those of its order.           *)
LEMMA CommitTouchesOne ==
    ASSUME IInv, NEW t \in otx, CommitReply(t), NEW o \in Orders, o # t.msg.order,
           UNCHANGED << payment, reservation, assignment, ktx >>
    PROVE  Untouched(o)
<1> DEFINE p == t.msg.order
<1>1. t.msg \in Messages /\ p \in Orders
  BY DEF CommitReply, PortionsReserved, PaymentAuthorized, OrderAccepted, CourierAssigned,
     PaymentCaptured, Reject, Compensate, IgnoreReply, OnDelivered, IgnoreDelivered,
     CommitMessage, Consume, Pending, IInv, TypeOK, MessagingTypeOK, Messages
<1>2. ASSUME NEW out, CommitMessage(t, out), \A m \in out : m.order = p,
             order'[o] = order[o] /\ saga'[o] = saga[o] /\ notices'[o] = notices[o]
      PROVE  Untouched(o)
  BY <1>2 DEF CommitMessage, Consume, Untouched
<1>3. /\ \A step : \A m \in Sends(t, step) : m.order = p
      /\ \A m \in Undo(t, Resources) : m.order = p
  BY UndoIs, CommandFields DEF Sends
<1>4. ASSUME NEW out, CommitMessage(t, out), \A m \in out : m.order = p,
             NEW status, NEW row, NEW events, Write(p, status, row, events)
      PROVE  Untouched(o)
  <2>1. order'[o] = order[o] /\ saga'[o] = saga[o] /\ notices'[o] = notices[o]
    BY <1>1, <1>4, WriteIs DEF IInv
  <2>2. QED
    BY <1>2, <1>4, <2>1
<1>5. CASE PortionsReserved(t) \/ PaymentAuthorized(t) \/ OrderAccepted(t) \/ OnDelivered(t)
  BY <1>3, <1>4, <1>5 DEF PortionsReserved, PaymentAuthorized, OrderAccepted, OnDelivered
<1>6. CASE CourierAssigned(t) \/ PaymentCaptured(t) \/ Reject(t)
  BY <1>4, <1>6 DEF CourierAssigned, PaymentCaptured, Reject
<1>7. CASE Compensate(t)
  BY <1>3, <1>4, <1>7 DEF Compensate
<1>8. CASE IgnoreReply(t) \/ IgnoreDelivered(t)
  BY <1>2, <1>8 DEF IgnoreReply, IgnoreDelivered
<1>9. QED
  BY <1>5, <1>6, <1>7, <1>8 DEF CommitReply

LEMMA CommitReplyFits ==
    ASSUME IInv, NEW t \in otx, CommitReply(t), NEW o \in Orders, OrderInv(o),
           UNCHANGED << payment, reservation, assignment, ktx >>
    PROVE  OrderInv(o)'
<1>1. CASE o # t.msg.order
  BY <1>1, CommitTouchesOne, FrameKeeps
<1>2. CASE o = t.msg.order
  <2>1. saga[o] \in Sagas
    BY DEF IInv, TypeOK, OrchestratorTypeOK
  <2>2. CASE PortionsReserved(t)
    <3>1. LET row == [saga[o] EXCEPT !.step = "AuthorizePayment",
                                     !.acquired = @ \cup {"reservation"}] IN
          /\ Write(o, "PORTIONS_RESERVED", row, {})
          /\ row.acquired = saga[o].acquired \cup {"reservation"}
      BY <1>2, <2>1, <2>2 DEF PortionsReserved, Sagas
    <3>2. QED
      BY <1>2, <2>2, <3>1, AdvanceFits DEF PortionsReserved, IsReply
  <2>3. CASE PaymentAuthorized(t)
    <3>1. LET row == [saga[o] EXCEPT !.step = "AcceptOrder",
                                     !.acquired = @ \cup {"payment"}] IN
          /\ Write(o, "PAYMENT_AUTHORIZED", row, {})
          /\ row.acquired = saga[o].acquired \cup {"payment"}
      BY <1>2, <2>1, <2>3 DEF PaymentAuthorized, Sagas
    <3>2. QED
      BY <1>2, <2>3, <3>1, AdvanceFits DEF PaymentAuthorized, IsReply
  <2>4. CASE OrderAccepted(t)
    <3>1. LET row == [saga[o] EXCEPT !.step = "AssignCourier"] IN
          /\ Write(o, "PREPARING", row, {"OrderConfirmed"})
          /\ row.acquired = saga[o].acquired
      BY <1>2, <2>1, <2>4 DEF OrderAccepted, Sagas
    <3>2. QED
      BY <1>2, <2>4, <3>1, AdvanceFits DEF OrderAccepted, IsReply
  <2>5. CASE CourierAssigned(t)
    <3>1. \E row : Write(o, "COURIER_ASSIGNED", row, {})
      BY <1>2, <2>5 DEF CourierAssigned
    <3>2. QED
      BY <1>2, <2>5, <3>1, AdvanceFits DEF CourierAssigned, IsReply
  <2>6. QED
    BY <1>2, <2>2, <2>3, <2>4, <2>5, PaymentCapturedFits, RejectFits, CompensateFits,
       OnDeliveredFits, IgnoreFits DEF CommitReply
<1>3. QED
  BY <1>1, <1>2
(* A handler that begins reads what the rows hold.                          *)
LEMMA ReceiveFits ==
    ASSUME IInv, NEW m \in sent, Receive(m), NEW o \in Orders, OrderInv(o),
           UNCHANGED << payment, reservation, assignment, ktx >>
    PROVE  OrderInv(o)'
<1>0. PICK t : t = [ msg |-> m, status |-> order[m.order], acquired |-> saga[m.order].acquired ]
  OBVIOUS
<1>1. /\ UNCHANGED << sent, inbox, order, saga, notices >>
      /\ otx' = otx \cup {t} /\ m \notin inbox /\ m.kind # "command"
  BY <1>0 DEF Receive, Begin, Pending
<1>2. t.msg = m /\ t.status = order[m.order] /\ t.acquired = saga[m.order].acquired
  BY <1>0
<1>3. CASE m.order # o
  <2>1. Untouched(o)
    BY <1>1, <1>2, <1>3 DEF Untouched
  <2>2. QED
    BY <2>1, FrameKeeps
<1>4. CASE m.order = o
  <2>1. MessageFits(o, m)
    BY <1>4 DEF OrderInv, MessagesFit
  <2>2. ReadFits(o, t)'
    BY <1>1, <1>2, <1>4, <2>1 DEF ReadFits, MessageFits, OrderInv, RowsFit, Served
  <2>3. ReadsFit(o)'
    BY <1>1, <2>2 DEF OrderInv, ReadsFit, ReadFits
  <2>4. MessagesFit(o)' /\ RowsFit(o)' /\ ServicesFit(o)' /\ ReleasesFit(o)'
    BY <1>1 DEF OrderInv, MessagesFit, MessageFits, RowsFit, ServicesFit, Undoing, ReleasesFit
  <2>5. QED
    BY <2>3, <2>4 DEF OrderInv
<1>5. QED
  BY <1>3, <1>4

LEMMA OrchestratingFits ==
    ASSUME IInv, NEW p \in Orders, Orchestrating(p), NEW o \in Orders, OrderInv(o)
    PROVE  OrderInv(o)'
<1>1. UNCHANGED << payment, reservation, assignment, ktx >>
  BY DEF Orchestrating, kitchenVars, paymentVars, dispatchVars
<1>2. ASSUME NEW m \in SentFor(p), Receive(m) PROVE OrderInv(o)'
  BY <1>1, <1>2, ReceiveFits DEF SentFor
<1>3. QED
  BY <1>1, <1>2, CommitReplyFits DEF Orchestrating, OrchestratorHandles

(* Placing an order: nothing was said or done about it.                     *)
LEMMA PlaceFits ==
    ASSUME IInv, NEW p \in Orders, PlaceOrder(p), NEW o \in Orders, OrderInv(o),
           UNCHANGED << payment, reservation, assignment, ktx >>
    PROVE  OrderInv(o)'
<1> DEFINE c == Command("ReservePortions", p, 0)
<1>1. /\ UNCHANGED << inbox, notices, otx >> /\ sent' = sent \cup {c}
      /\ order[p] = "NONE" /\ order'[p] = "PLACED"
      /\ \A q \in Orders : q # p => order'[q] = order[q] /\ saga'[q] = saga[q]
  BY DEF PlaceOrder, IInv, TypeOK, OrchestratorTypeOK
<1>2. c.kind = "command" /\ c.step = "ReservePortions" /\ c.order = p /\ c.from = 0
  BY CommandFields
<1> HIDE DEF c
<1>3. CASE p # o
  <2>1. Untouched(o)
    BY <1>1, <1>2, <1>3 DEF Untouched
  <2>2. QED
    BY <2>1, FrameKeeps
<1>4. CASE p = o
  <2>1. ASSUME NEW m \in sent, m.order = o
        PROVE  m.step \notin SagaSteps /\ m.step \notin Compensations
    <3>1. MessageFits(o, m)
      BY <2>1 DEF OrderInv, MessagesFit
    <3>2. \A step \in SagaSteps : "NONE" \notin Since(step)
      BY SinceTable DEF SagaSteps, OrderStatus, Ordered, Served, Paid
    <3>3. QED
      BY <1>1, <1>4, <3>1, <3>2 DEF MessageFits
  <2>2. MessageFits(o, c)'
    BY <1>1, <1>2, <1>4, StatusTable, SinceTable
       DEF MessageFits, Says, OrderStatus, Compensations
  <2>3. MessagesFit(o)'
    BY <1>1, <2>1, <2>2 DEF MessagesFit, MessageFits, Says, SagaSteps, ToCourier
  <2>4. ReadsFit(o)'
    <3>1. ASSUME NEW t \in otx, t.msg.order = o PROVE ReadFits(o, t)'
      BY <1>1, <1>4, <2>1, <3>1 DEF OrderInv, ReadsFit, ReadFits, Served, ToCourier
    <3>2. QED
      BY <1>1, <3>1 DEF ReadsFit
  <2>5. RowsFit(o)'
    BY <1>1, <1>4, AcquiredTable DEF OrderInv, RowsFit, Served, Paid
  <2>6. ServicesFit(o)' /\ ReleasesFit(o)'
    BY <1>1, <1>4 DEF OrderInv, ServicesFit, ReleasesFit, Paid
  <2>7. QED
    BY <2>3, <2>4, <2>5, <2>6 DEF OrderInv
<1>5. QED
  BY <1>3, <1>4

(* A read of the saga row that comes late finds no less: the reply is not  *)
(* consumed, so the status has not moved.                                  *)
LEMMA ReadSagaFits ==
    ASSUME IInv, NEW t \in otx, ReadSaga(t), NEW o \in Orders, OrderInv(o),
           UNCHANGED << payment, reservation, assignment, ktx >>
    PROVE  OrderInv(o)'
<1>0. PICK u : u = [t EXCEPT !.acquired = saga[t.msg.order].acquired]
  OBVIOUS
<1>1. UNCHANGED << sent, inbox, order, saga, notices >> /\ otx' = (otx \ {t}) \cup {u}
  BY <1>0 DEF ReadSaga
<1>2. u.msg = t.msg /\ u.status = t.status /\ u.acquired = saga[t.msg.order].acquired
  BY <1>0 DEF IInv, TypeOK, OrchestratorTypeOK, OrderTransactions
<1>3. CASE t.msg.order # o
  <2>1. Untouched(o)
    BY <1>1, <1>2, <1>3 DEF Untouched
  <2>2. QED
    BY <2>1, FrameKeeps
<1>4. CASE t.msg.order = o
  <2>1. ReadFits(o, t)
    BY <1>4 DEF OrderInv, ReadsFit
  <2>2. MessageFits(o, t.msg)
    BY <1>4, <2>1 DEF OrderInv, MessagesFit, ReadFits
  <2>3. ReadFits(o, u)'
    BY <1>1, <1>2, <1>4, <2>1, <2>2 DEF ReadFits, MessageFits, OrderInv, RowsFit
  <2>4. ReadsFit(o)'
    BY <1>1, <2>3 DEF OrderInv, ReadsFit, ReadFits
  <2>5. MessagesFit(o)' /\ RowsFit(o)' /\ ServicesFit(o)' /\ ReleasesFit(o)'
    BY <1>1 DEF OrderInv, MessagesFit, MessageFits, RowsFit, ServicesFit, Undoing, ReleasesFit
  <2>6. QED
    BY <2>4, <2>5 DEF OrderInv
<1>5. QED
  BY <1>3, <1>4

(* A cancel request that is committed was counted when it began.            *)
LEMMA CommitCancelFits ==
    ASSUME IInv, NEW t \in otx, CommitCancel(t), NEW o \in Orders, OrderInv(o),
           UNCHANGED << payment, reservation, assignment, ktx >>
    PROVE  OrderInv(o)'
<1> DEFINE p == t.msg.order
<1>1. t.msg.kind = "request" /\ p \in Orders
  BY DEF CommitCancel, IInv, TypeOK, OrchestratorTypeOK, OrderTransactions, Messages, CancelRequests
<1>2. p # o
  BY <1>1 DEF OrderInv, ReadsFit, ReadFits, IInv, TypeOK, MessagingTypeOK, Messages
<1>3. order'[o] = order[o] /\ saga'[o] = saga[o] /\ notices'[o] = notices[o]
  BY <1>1, <1>2, WriteIs DEF CommitCancel, IInv
<1>4. \A c \in Undo(t, {"payment", "reservation"}) : c.order = p
  BY CommandFields DEF Undo
<1>5. Untouched(o)
  BY <1>2, <1>3, <1>4 DEF CommitCancel, Untouched
<1>6. QED
  BY <1>5, FrameKeeps

LEMMA CustomersFit ==
    ASSUME IInv, Customers, NEW o \in Orders, OrderInv(o), cancels'[o] = 0
    PROVE  OrderInv(o)'
<1>1. UNCHANGED << payment, reservation, assignment, ktx >>
  BY DEF Customers, kitchenVars, paymentVars, dispatchVars
<1>2. ASSUME NEW p \in Orders, RequestCancel(p) PROVE OrderInv(o)'
  <2>1. p # o
    BY <1>2 DEF RequestCancel, IInv, TypeOK, OrchestratorTypeOK
  <2>2. CancelRequest(p, cancels[p] + 1).order = p
    BY DEF CancelRequest
  <2>3. Untouched(o)
    BY <1>1, <1>2, <2>1, <2>2 DEF RequestCancel, Begin, Untouched
  <2>4. QED
    BY <2>3, FrameKeeps
<1>3. QED
  BY <1>1, <1>2, PlaceFits, CommitCancelFits, ReadSagaFits DEF Customers, CustomerActs

(* A request that was counted stays counted.                                *)
LEMMA CancelsCounted ==
    ASSUME TypeOK, [Next]_vars, NEW o \in Orders, cancels'[o] = 0
    PROVE  cancels[o] = 0
<1>1. cancels \in [Orders -> Nat]
  BY DEF TypeOK, OrchestratorTypeOK
<1>2. CASE Customers
  <2>1. CASE UNCHANGED cancels
    BY <2>1
  <2>2. ASSUME NEW p \in Orders, RequestCancel(p)
        PROVE  cancels[o] = 0
    BY <1>1, <2>2 DEF RequestCancel
  <2>3. QED
    BY <1>2, <2>1, <2>2 DEF Customers, CustomerActs, PlaceOrder, CommitCancel, ReadSaga
<1>3. CASE \E p \in Orders : Orchestrating(p)
  BY <1>3 DEF Orchestrating, OrchestratorHandles, Receive, CommitReply, PortionsReserved,
     PaymentAuthorized, OrderAccepted, CourierAssigned, PaymentCaptured, Reject, Compensate,
     IgnoreReply, OnDelivered, IgnoreDelivered, CommitMessage
<1>4. CASE \/ \E p \in Orders : Cooking(p) \/ Paying(p) \/ Dispatching(p)
           \/ Upkeep \/ Trouble \/ UNCHANGED vars
  BY <1>4 DEF Cooking, Paying, Dispatching, Upkeep, Trouble, vars, orchestratorVars
<1>5. QED
  BY <1>2, <1>3, <1>4 DEF Next

LEMMA SagaInvInitially == Init => SagaInv
<1>1. HAVE Init
<1>2. sent = {} /\ otx = {} /\ ktx = {}
  BY <1>1 DEF Init, MessagingInit, OrchestratorInit, KitchenInit
<1>3. ASSUME NEW o \in Orders
      PROVE  /\ order[o] = "NONE" /\ notices[o] = {} /\ payment[o] = "NONE"
             /\ assignment[o] = "NONE"
  BY <1>1 DEF Init, OrchestratorInit, PaymentInit, DispatchInit
<1>4. ASSUME NEW o \in Orders PROVE OrderInv(o)
  <2>1. AcquiredAt(order[o]) = {}
    BY <1>3 DEF AcquiredAt
  <2>2. QED
    BY <1>2, <1>3, <2>1 DEF OrderInv, MessagesFit, ReadsFit, RowsFit, ServicesFit, ReleasesFit,
       Served
<1>5. QED
  BY <1>4 DEF SagaInv

LEMMA SagaInvKept ==
    ASSUME IInv, SagaInv, [Next]_vars
    PROVE  SagaInv'
<1>1. ASSUME NEW o \in Orders, cancels'[o] = 0
      PROVE  OrderInv(o)'
  <2>1. OrderInv(o)
    BY <1>1, CancelsCounted DEF SagaInv, IInv
  <2>2. CASE UNCHANGED vars
    <3>1. Untouched(o)
      BY <2>2 DEF vars, msgVars, orchestratorVars, kitchenVars, paymentVars, dispatchVars, Untouched
    <3>2. QED
      BY <2>1, <3>1, FrameKeeps
  <2>3. CASE Next
    BY <1>1, <2>1, <2>3, OrchestratingFits, CookingFits, PayingFits, DispatchingFits,
       CustomersFit, UpkeepFits, TroubleFits DEF Next
  <2>4. QED
    BY <2>2, <2>3
<1>2. QED
  BY <1>1 DEF SagaInv

(* The inductive invariant of an order nobody asked to cancel: its status, *)
(* its messages and what the participants hold for it are in step.         *)
THEOREM SagaInvHolds == Spec => [](IInv /\ SagaInv)
<1>1. Init => IInv /\ SagaInv
  BY InvariantInitially, SagaInvInitially
<1>2. IInv /\ SagaInv /\ [Next]_vars => (IInv /\ SagaInv)'
  BY InvariantKept, SagaInvKept
<1>3. QED
  BY <1>1, <1>2, PTL DEF Spec

(* A failed step is compensated in full (compensate()): the ids a reply's  *)
(* handler read are all the order had acquired, because nothing else of    *)
(* the order was under way.                                                *)
THEOREM CompensationsHold == Spec => []Compensated
<1>1. SagaInv => Compensated
  <2>1. ASSUME SagaInv, NEW o \in Orders, order[o] = "CANCELLED", cancels[o] = 0
        PROVE  /\ payment[o] = "AUTHORIZED" => UnderWay(o, "VoidPayment")
               /\ reservation[o] \in {"HELD", "CONFIRMED"} => UnderWay(o, "ReleasePortions")
               /\ assignment[o] # "ACCEPTED"
    <3>1. Undoing(o)
      BY <2>1 DEF SagaInv, OrderInv, ServicesFit
    <3>2. QED
      BY <3>1, NamedMessages DEF Undoing, UnderWay
  <2>2. QED
    BY <2>1 DEF Compensated
<1>2. QED
  BY <1>1, SagaInvHolds, PTL

(* A completed order was charged, a cancelled or rejected one was not      *)
(* (onDelivered asks for the capture, advance() completes on its reply).   *)
THEOREM AccountsHold == Spec => []SettledAccounts
<1>1. SagaInv => SettledAccounts
  BY DEF SagaInv, OrderInv, ServicesFit, SettledAccounts, Paid
<1>2. QED
  BY <1>1, SagaInvHolds, PTL

(* The customer hears one ending (setStatus and the events of the           *)
(* orchestrator), and a completed order was confirmed.                      *)
THEOREM EndingsHold == Spec => []OneEnding
<1>1. SagaInv => OneEnding
  <2>1. ASSUME SagaInv, NEW o \in Orders, cancels[o] = 0
        PROVE  /\ Cardinality(notices[o] \cap
                    {"OrderCompleted", "OrderCancelled", "OrderRejected"}) <= 1
               /\ "OrderCompleted" \in notices[o] => "OrderConfirmed" \in notices[o]
    <3> DEFINE Ends == notices[o] \cap {"OrderCompleted", "OrderCancelled", "OrderRejected"}
    <3>1. RowsFit(o)
      BY <2>1 DEF SagaInv, OrderInv
    <3>2. Ends = {} \/ \E e : Ends = {e}
      BY <3>1 DEF RowsFit, Paid
    <3> HIDE DEF Ends
    <3>3. Cardinality(Ends) <= 1
      <4>1. CASE Ends = {}
        BY <4>1, FS_EmptySet
      <4>2. CASE \E e : Ends = {e}
        <5>1. Cardinality(Ends) = 1
          BY <4>2, FS_Singleton
        <5>2. QED
          BY <5>1
      <4>3. QED
        BY <3>2, <4>1, <4>2
    <3>4. "OrderCompleted" \in notices[o] => "OrderConfirmed" \in notices[o]
      BY <3>1 DEF RowsFit, Paid, Served
    <3>5. QED
      BY <3>3, <3>4 DEF Ends
  <2>2. QED
    BY <2>1 DEF OneEnding
<1>2. QED
  BY <1>1, SagaInvHolds, PTL
(***************************************************************************)
(* The counters of the kitchen, against the reservations.                  *)
(***************************************************************************)

Asks(d) == [o \in Orders |-> Qty[o][d]]
Holders(statuses) == {o \in Orders : reservation[o] \in statuses}
LiveOrders == Holders(Live)

(* The portions that reservations hold, as a sum over their orders.         *)
LEMMA HeldSum ==
    ASSUME NEW d \in Drops, NEW statuses
    PROVE  HeldBy(d, statuses) = SumOf(Asks(d), Holders(statuses))
<1> DEFINE T == Holders(statuses)
           f == Asks(d)
<1>1. IsFiniteSet(Orders) /\ T \in SUBSET Orders
  BY OrdersAssumption DEF Holders
<1>2. IsFiniteSet(T)
  BY <1>1, FS_Subset
<1>3. \A x \in T : f[x] \in Int
  BY <1>1, QuantityType DEF Asks
<1>4. \E h : IsSum(h, f, T)
  <2> HIDE DEF T, f
  <2>1. QED
    BY <1>2, <1>3, SumExists
<1>5. \E h : h = [s \in SUBSET T |->
                    IF s = {} THEN 0
                    ELSE LET x == CHOOSE x \in s : TRUE IN Qty[x][d] + h[s \ {x}]]
  <2>1. PICK h : h = [s \in SUBSET T |-> IF s = {} THEN 0 ELSE f[Pick(s)] + h[s \ {Pick(s)}]]
    BY <1>4 DEF IsSum
  <2>2. ASSUME NEW s \in SUBSET T, s # {}
        PROVE  f[Pick(s)] = Qty[Pick(s)][d]
    BY <1>1, <2>2, PickIn DEF Asks
  <2>3. h = [s \in SUBSET T |-> IF s = {} THEN 0 ELSE Qty[Pick(s)][d] + h[s \ {Pick(s)}]]
    <3> HIDE DEF T, f
    <3>1. QED
      BY <2>1, <2>2
  <2>4. QED
    BY <2>3 DEF Pick
<1>6. \E h : /\ h = [s \in SUBSET T |->
                      IF s = {} THEN 0
                      ELSE LET x == CHOOSE x \in s : TRUE IN Qty[x][d] + h[s \ {x}]]
             /\ HeldBy(d, statuses) = h[T]
  BY <1>5 DEF HeldBy, Holders, MapThenSumSet, MapThenFoldSet
<1>7. PICK h : /\ h = [s \in SUBSET T |->
                        IF s = {} THEN 0 ELSE Qty[Pick(s)][d] + h[s \ {Pick(s)}]]
               /\ HeldBy(d, statuses) = h[T]
  BY <1>6 DEF Pick
<1>8. IsSum(h, f, T)
  <2>1. ASSUME NEW s \in SUBSET T, s # {}
        PROVE  f[Pick(s)] = Qty[Pick(s)][d]
    BY <1>1, <2>1, PickIn DEF Asks
  <2>2. h = [s \in SUBSET T |-> IF s = {} THEN 0 ELSE f[Pick(s)] + h[s \ {Pick(s)}]]
    <3> HIDE DEF T, f
    <3>1. QED
      BY <1>7, <2>1
  <2>3. QED
    BY <2>2 DEF IsSum
<1>9. PICK g : IsSum(g, f, T) /\ SumOf(f, T) = g[T]
  <2> HIDE DEF T, f
  <2>1. QED
    BY <1>2, <1>3, SumIs
<1>10. h[T] = g[T]
  <2> HIDE DEF T, f
  <2>1. T \in SUBSET (T \cap T)
    OBVIOUS
  <2>2. QED
    BY <1>2, <1>8, <1>9, <2>1, SumsAgree
<1>11. QED
  BY <1>7, <1>9, <1>10

LEMMA HeldIs ==
    \A d \in Drops : HeldBy(d, Live) = SumOf(Asks(d), LiveOrders)
BY HeldSum DEF LiveOrders

LEMMA HeldNext ==
    \A d \in Drops : HeldBy(d, Live)' = SumOf(Asks(d), LiveOrders')
<1>1. \A d \in Drops : \A T : T = LiveOrders => HeldBy(d, Live) = SumOf(Asks(d), T)
  BY HeldIs
<1>2. (\A d \in Drops : \A T : T = LiveOrders => HeldBy(d, Live) = SumOf(Asks(d), T))'
  BY <1>1, PTL
<1>3. QED
  BY <1>2

(* An order more or less in such a sum.                                     *)
LEMMA SumMoves ==
    ASSUME NEW d \in Drops, NEW T \in SUBSET Orders, NEW o \in Orders
    PROVE  /\ SumOf(Asks(d), T) \in Nat
           /\ o \notin T => SumOf(Asks(d), T \cup {o}) = Qty[o][d] + SumOf(Asks(d), T)
           /\ o \in T => SumOf(Asks(d), T) = Qty[o][d] + SumOf(Asks(d), T \ {o})
<1> DEFINE f == Asks(d)
<1>1. \A x \in Orders : f[x] = Qty[x][d] /\ f[x] \in Nat /\ f[x] \in Int
  BY QuantityType DEF Asks
<1>2. IsFiniteSet(T) /\ IsFiniteSet(T \ {o})
  BY OrdersAssumption, FS_Subset
<1> HIDE DEF f
<1>3. SumOf(f, T) \in Nat
  BY <1>1, <1>2, SumNat
<1>4. ASSUME o \notin T
      PROVE  SumOf(f, T \cup {o}) = Qty[o][d] + SumOf(f, T)
  <2>1. \A y \in T \cup {o} : f[y] \in Int
    BY <1>1
  <2>2. SumOf(f, T \cup {o}) = f[o] + SumOf(f, T)
    BY <1>2, <1>4, <2>1, SumAdd
  <2>3. QED
    BY <1>1, <2>2
<1>5. ASSUME o \in T
      PROVE  SumOf(f, T) = Qty[o][d] + SumOf(f, T \ {o})
  <2> DEFINE U == T \ {o}
  <2>1. o \notin U /\ T = U \cup {o} /\ \A y \in U \cup {o} : f[y] \in Int
    BY <1>1, <1>5
  <2>2. IsFiniteSet(U)
    BY <1>2
  <2> HIDE DEF U
  <2>3. SumOf(f, U \cup {o}) = f[o] + SumOf(f, U)
    BY <2>1, <2>2, SumAdd
  <2>4. QED
    BY <1>1, <2>1, <2>3 DEF U
<1>6. QED
  BY <1>3, <1>4, <1>5 DEF f

(* What a write to one reservation does to the portions held.               *)
LEMMA HeldChanges ==
    ASSUME TypeOK, NEW d \in Drops, NEW o \in Orders, NEW status,
           reservation' = [reservation EXCEPT ![o] = status]
    PROVE  /\ HeldBy(d, Live) \in Nat /\ HeldBy(d, Live)' \in Nat
           /\ HeldBy(d, Live)' =
                CASE status \in Live /\ reservation[o] \notin Live -> HeldBy(d, Live) + Qty[o][d]
                  [] status \notin Live /\ reservation[o] \in Live -> HeldBy(d, Live) - Qty[o][d]
                  [] OTHER -> HeldBy(d, Live)
<1> DEFINE S(T) == SumOf(Asks(d), T)
           H == HeldBy(d, Live)
           I == HeldBy(d, Live)'
<1>1. H = S(LiveOrders) /\ I = S(LiveOrders')
  BY HeldIs, HeldNext
<1>2. /\ LiveOrders \in SUBSET Orders /\ LiveOrders' \in SUBSET Orders
      /\ o \in LiveOrders <=> reservation[o] \in Live
      /\ LiveOrders' = IF status \in Live THEN LiveOrders \cup {o} ELSE LiveOrders \ {o}
  BY DEF LiveOrders, Holders, TypeOK, KitchenTypeOK
<1>3. Qty[o][d] \in Nat
  BY QuantityType
<1>4. H \in Nat /\ I \in Nat
  BY <1>1, <1>2, SumMoves
<1>5. CASE status \in Live /\ reservation[o] \notin Live
  <2>1. LiveOrders' = LiveOrders \cup {o} /\ o \notin LiveOrders
    BY <1>2, <1>5
  <2>2. S(LiveOrders \cup {o}) = Qty[o][d] + S(LiveOrders)
    BY <1>2, <2>1, SumMoves
  <2>3. I = Qty[o][d] + H
    BY <1>1, <2>1, <2>2
  <2> HIDE DEF H, I
  <2>4. QED
    BY <1>3, <1>4, <1>5, <2>3 DEF H, I
<1>6. CASE status \notin Live /\ reservation[o] \in Live
  <2>1. LiveOrders' = LiveOrders \ {o} /\ o \in LiveOrders
    BY <1>2, <1>6
  <2>2. S(LiveOrders) = Qty[o][d] + S(LiveOrders \ {o})
    BY <1>2, <2>1, SumMoves
  <2>3. H = Qty[o][d] + I
    BY <1>1, <2>1, <2>2
  <2>4. I = H - Qty[o][d]
    <3> HIDE DEF H, I
    <3>1. QED
      BY <1>3, <1>4, <2>3
  <2>5. QED
    BY <1>4, <1>6, <2>4
<1>7. CASE status \in Live <=> reservation[o] \in Live
  <2>1. LiveOrders' = LiveOrders
    BY <1>2, <1>7
  <2>2. I = H
    BY <1>1, <2>1
  <2>3. QED
    BY <1>4, <1>7, <2>2
<1>8. QED
  BY <1>5, <1>6, <1>7

LEMMA HeldSame ==
    ASSUME reservation' = reservation, NEW d \in Drops
    PROVE  HeldBy(d, Live)' = HeldBy(d, Live) /\ HeldBy(d, Live) \in Nat
<1>1. LiveOrders' = LiveOrders /\ LiveOrders \in SUBSET Orders
  BY DEF LiveOrders, Holders
<1>2. SumOf(Asks(d), LiveOrders) \in Nat
  BY <1>1, OrdersAssumption, FS_Subset, SumNat, QuantityType DEF Asks
<1>3. QED
  BY <1>1, <1>2, HeldIs, HeldNext

(* The steps that change the counters or the reservations.                  *)
LEMMA CounterSteps ==
    ASSUME IInv, [Next]_vars
    PROVE  \/ reservation' = reservation /\ reserved' = reserved
           \/ \E m \in sent : ReservePortions(m) \/ AcceptOrder(m)
           \/ \E m \in ktx : Restore(m.order) /\ m.order \in Orders
<1>1. CASE \E o \in Orders : Cooking(o)
  <2>1. PICK o \in Orders : KitchenHandles(o)
    BY <1>1 DEF Cooking
  <2>2. PICK m \in SentFor(o) : \/ ReservePortions(m) \/ ComesUpShort(m) \/ SoldOut(m)
                                \/ AcceptOrder(m) \/ BeginRelease(m) \/ NothingToRelease(m) \/ CommitRelease(m)
    BY <2>1 DEF KitchenHandles
  <2>3. m \in sent /\ m.order \in Orders
    BY <2>2 DEF SentFor
  <2>4. QED
    BY <2>2, <2>3 DEF ComesUpShort, SoldOut, BeginRelease, NothingToRelease, CommitRelease
<1>2. CASE Upkeep
  <2>1. CASE \E o \in Orders : BeginSweep(o)
    BY <2>1 DEF BeginSweep
  <2>2. CASE \E t \in ktx : RollBack(t)
    BY <2>2 DEF RollBack
  <2>3. ASSUME NEW t \in ktx, CommitSweep(t)
        PROVE  Restore(t.order) /\ t.order \in Orders
    BY <2>3 DEF CommitSweep, Sweeps, SweepOf
  <2>4. QED
    BY <1>2, <2>1, <2>2, <2>3 DEF Upkeep, KitchenBackground
<1>3. CASE \/ \E o \in Orders : Orchestrating(o) \/ Paying(o) \/ Dispatching(o)
           \/ Customers \/ Trouble \/ UNCHANGED vars
  BY <1>3 DEF Orchestrating, Paying, Dispatching, Customers, Trouble, vars, kitchenVars
<1>4. QED
  BY <1>1, <1>2, <1>3 DEF Next

(* A reservation that is made is counted.                                   *)
LEMMA ReserveHeld ==
    ASSUME TypeOK, NEW m \in sent, ReservePortions(m), NEW d \in Drops
    PROVE  /\ reserved'[d] = reserved[d] + Qty[m.order][d]
           /\ HeldBy(d, Live)' = HeldBy(d, Live) + Qty[m.order][d]
<1>1. /\ m.order \in Orders /\ reservation[m.order] \notin Live /\ "HELD" \in Live
      /\ reservation' = [reservation EXCEPT ![m.order] = "HELD"]
  BY DEF ReservePortions, TypeOK, MessagingTypeOK, Messages, Live
<1>2. HeldBy(d, Live)' = HeldBy(d, Live) + Qty[m.order][d]
  BY <1>1, HeldChanges
<1>3. QED
  BY <1>2 DEF ReservePortions

(* No portion stays reserved for nobody: the counters and the reservation  *)
(* are written in one transaction (the reserve and release handlers and    *)
(* the sweeper of the kitchen).                                            *)
LEMMA NoneStrandedKept ==
    ASSUME IInv, NoneStranded, [Next]_vars
    PROVE  NoneStranded'
<1> SUFFICES ASSUME NEW d \in Drops
             PROVE  reserved'[d] <= HeldBy(d, Live)'
  BY DEF NoneStranded
<1>1. reserved[d] \in Nat /\ HeldBy(d, Live) \in Nat /\ reserved[d] <= HeldBy(d, Live)
  <2>1. HeldBy(d, Live) \in Nat
    <3>1. LiveOrders \in SUBSET Orders
      BY DEF LiveOrders, Holders
    <3>2. IsFiniteSet(LiveOrders)
      BY <3>1, OrdersAssumption, FS_Subset
    <3>3. \A x \in LiveOrders : Asks(d)[x] \in Nat
      BY <3>1, QuantityType DEF Asks
    <3>4. QED
      BY <3>2, <3>3, HeldIs, SumNat
  <2>2. QED
    BY <2>1 DEF NoneStranded, IInv, TypeOK, KitchenTypeOK
<1> DEFINE H == HeldBy(d, Live)
           I == HeldBy(d, Live)'
           R == reserved[d]
           Q == reserved'[d]
<1>2. CASE reservation' = reservation /\ reserved' = reserved
  BY <1>1, <1>2, HeldSame
<1>3. ASSUME NEW m \in sent, ReservePortions(m)
      PROVE  Q <= I
  <2>1. Q = R + Qty[m.order][d] /\ I = H + Qty[m.order][d]
    BY <1>3, ReserveHeld DEF IInv
  <2>2. Qty[m.order][d] \in Nat
    BY QuantityType DEF IInv, TypeOK, MessagingTypeOK, Messages
  <2> HIDE DEF H, I, R, Q
  <2>3. R \in Nat /\ H \in Nat /\ R <= H
    BY <1>1 DEF H, R
  <2>4. QED
    BY <2>1, <2>2, <2>3
<1>4. ASSUME NEW m \in sent, AcceptOrder(m)
      PROVE  Q <= I
  <2>1. /\ m.order \in Orders /\ Q = R
        /\ reservation' = [reservation EXCEPT ![m.order] = "CONFIRMED"]
    BY <1>4 DEF AcceptOrder, IInv, TypeOK, MessagingTypeOK, Messages
  <2>2. I = H + Qty[m.order][d] \/ I = H
    BY <2>1, HeldChanges DEF IInv, Live
  <2>3. Qty[m.order][d] \in Nat
    BY <2>1, QuantityType
  <2> HIDE DEF H, I, R, Q
  <2>4. R \in Nat /\ H \in Nat /\ R <= H
    BY <1>1 DEF H, R
  <2>5. QED
    BY <2>1, <2>2, <2>3, <2>4
<1>5. ASSUME NEW m \in ktx, Restore(m.order), m.order \in Orders
      PROVE  Q <= I
  <2>1. /\ Q = R - Qty[m.order][d]
        /\ reservation' = [reservation EXCEPT ![m.order] = "RELEASED"]
    BY <1>5 DEF Restore
  <2>2. I = H - Qty[m.order][d] \/ I = H
    BY <1>5, <2>1, HeldChanges DEF IInv, Live
  <2>3. Qty[m.order][d] \in Nat
    BY <1>5, QuantityType
  <2> HIDE DEF H, I, R, Q
  <2>4. R \in Nat /\ H \in Nat /\ R <= H
    BY <1>1 DEF H, R
  <2>5. QED
    BY <2>1, <2>2, <2>3, <2>4
<1>6. QED
  BY <1>2, <1>3, <1>4, <1>5, CounterSteps

LEMMA NothingHeldInitially ==
    ASSUME Init, NEW d \in Drops
    PROVE  reserved[d] = 0 /\ HeldBy(d, Live) = 0
<1>1. LiveOrders = {}
  BY DEF Init, KitchenInit, LiveOrders, Holders, Live
<1>2. QED
  BY <1>1, HeldIs, SumEmpty DEF Init, KitchenInit

(* Portions are not stranded: every reserved portion belongs to a live     *)
(* reservation, however the handlers of the kitchen and its sweeper        *)
(* interleave and whichever of them the CHECK constraint rolls back.       *)
THEOREM StrandedHolds == Spec => []NoneStranded
<1>1. Init => NoneStranded
  <2>1. ASSUME Init, NEW d \in Drops
        PROVE  reserved[d] <= HeldBy(d, Live)
    <3>1. reserved[d] = 0 /\ HeldBy(d, Live) = 0
      BY <2>1, NothingHeldInitially
    <3>2. QED
      BY <3>1
  <2>2. QED
    BY <2>1 DEF NoneStranded
<1>2. IInv /\ NoneStranded /\ [Next]_vars => NoneStranded'
  BY NoneStrandedKept
<1>3. QED
  BY <1>1, <1>2, InvariantHolds, PTL DEF Spec

(* While no reservation expires and nobody cancels, what is accepted and   *)
(* what is released is live.                                               *)
LEMMA ExactKept ==
    ASSUME IInv, SagaInv, InventoryExact, [Next]_vars
    PROVE  InventoryExact'
<1> SUFFICES ASSUME \A o \in Orders : o \notin Expiring /\ cancels'[o] = 0,
                    NEW d \in Drops
             PROVE  reserved'[d] = HeldBy(d, Live)'
  BY DEF InventoryExact
<1>1. \A o \in Orders : o \notin Expiring /\ cancels[o] = 0 /\ OrderInv(o)
  BY CancelsCounted DEF SagaInv, IInv
<1>2. reserved[d] = HeldBy(d, Live)
  BY <1>1 DEF InventoryExact
<1>3. CASE reservation' = reservation /\ reserved' = reserved
  BY <1>2, <1>3, HeldSame
<1>4. ASSUME NEW m \in sent, ReservePortions(m)
      PROVE  reserved'[d] = HeldBy(d, Live)'
  BY <1>2, <1>4, ReserveHeld DEF IInv
<1>5. ASSUME NEW m \in sent, AcceptOrder(m)
      PROVE  reserved'[d] = HeldBy(d, Live)'
  <2> DEFINE o == m.order
  <2>1. /\ o \in Orders /\ reserved' = reserved /\ reservation[o] # "NONE"
        /\ reservation' = [reservation EXCEPT ![o] = "CONFIRMED"]
        /\ m.step = "AcceptOrder" /\ m \notin inbox
    BY <1>5 DEF AcceptOrder, Arrives, Pending, IInv, TypeOK, MessagingTypeOK, Messages
  <2>2. order[o] = "PAYMENT_AUTHORIZED"
    BY <1>1, <2>1, StatusTable DEF OrderInv, MessagesFit, MessageFits, ToCourier, SagaSteps
  <2>3. reservation[o] # "RELEASED"
    BY <1>1, <2>1, <2>2 DEF IInv, UndoneOnlyWhenCancelled, OrderInv, RowsFit
  <2>4. reservation[o] \in Live
    BY <2>1, <2>3 DEF IInv, TypeOK, KitchenTypeOK, ReservationStatus, Live
  <2>5. HeldBy(d, Live)' = HeldBy(d, Live)
    BY <2>1, <2>4, HeldChanges DEF IInv, Live
  <2>6. QED
    BY <1>2, <2>1, <2>5
<1>6. ASSUME NEW m \in ktx, Restore(m.order), m.order \in Orders
      PROVE  reserved'[d] = HeldBy(d, Live)'
  <2>1. reservation[m.order] \in Live
    <3>1. ReleasesFit(m.order) /\ m.order \notin Expiring
      BY <1>1, <1>6 DEF OrderInv
    <3>2. QED
      BY <3>1 DEF ReleasesFit, Live
  <2>2. /\ reserved'[d] = reserved[d] - Qty[m.order][d]
        /\ reservation' = [reservation EXCEPT ![m.order] = "RELEASED"]
    BY <1>6 DEF Restore
  <2>3. TypeOK /\ "RELEASED" \notin Live
    BY DEF IInv, Live
  <2> DEFINE o == m.order
  <2>4. o \in Orders /\ reservation[o] \in Live
        /\ reservation' = [reservation EXCEPT ![o] = "RELEASED"]
    BY <1>6, <2>1, <2>2
  <2> HIDE DEF o
  <2>5. HeldBy(d, Live)' = HeldBy(d, Live) - Qty[o][d]
    BY <2>3, <2>4, HeldChanges
  <2>6. QED
    BY <1>2, <2>2, <2>5 DEF o
<1>7. QED
  BY <1>3, <1>4, <1>5, <1>6, CounterSteps

(* The counters are exact when no TTL lapses and nobody cancels: only a    *)
(* live reservation is released or accepted (the kitchen's release handler *)
(* reads its status without a lock).                                       *)
THEOREM InventoryHolds == Spec => []InventoryExact
<1>1. Init => InventoryExact
  BY NothingHeldInitially DEF InventoryExact
<1>2. IInv /\ SagaInv /\ InventoryExact /\ [Next]_vars => InventoryExact'
  BY ExactKept
<1>3. QED
  BY <1>1, <1>2, SagaInvHolds, PTL DEF Spec

(* Some of the live reservations hold no more than what is reserved.        *)
LEMMA PartIsReserved ==
    ASSUME IInv, InventoryExact, \A o \in Orders : o \notin Expiring /\ cancels[o] = 0,
           NEW d \in Drops, NEW statuses \in SUBSET Live
    PROVE  HeldBy(d, statuses) \in Nat /\ HeldBy(d, statuses) <= reserved[d]
<1> DEFINE f == Asks(d)
           T == LiveOrders
           U == Holders(statuses)
<1>1. HeldBy(d, statuses) = SumOf(f, U) /\ reserved[d] = SumOf(f, T)
  BY HeldSum DEF InventoryExact, LiveOrders
<1>2. IsFiniteSet(T) /\ U \in SUBSET T /\ T \in SUBSET Orders
  BY OrdersAssumption, FS_Subset DEF LiveOrders, Holders
<1>3. \A o \in T : f[o] \in Nat
  BY <1>2, QuantityType DEF Asks
<1>4. SumOf(f, U) <= SumOf(f, T) /\ SumOf(f, U) \in Nat
  <2> HIDE DEF f, T, U
  <2>1. IsFiniteSet(U) /\ \A o \in U : f[o] \in Nat
    BY <1>2, <1>3, FS_Subset
  <2>2. QED
    BY <1>2, <1>3, <2>1, SumPart, SumNat
<1> HIDE DEF f, T, U
<1>5. QED
  BY <1>1, <1>4

(* A portion is never oversold (README) as long as no TTL lapses and nobody *)
(* cancels: what the kitchen commits to cook fits the batch.  The sweeper   *)
(* and the cancel requests are what may break this, as a run shows.         *)
THEOREM ConfirmedFitsBatch ==
    Spec => []((\A o \in Orders : o \notin Expiring /\ cancels[o] = 0) => NeverOversold)
<1>1. ASSUME IInv, InventoryExact, \A o \in Orders : o \notin Expiring /\ cancels[o] = 0,
             NEW d \in Drops
      PROVE  HeldBy(d, {"CONFIRMED"}) <= Total[d]
  <2>1. {"CONFIRMED"} \in SUBSET Live
    BY DEF Live
  <2>2. HeldBy(d, {"CONFIRMED"}) \in Nat /\ HeldBy(d, {"CONFIRMED"}) <= reserved[d]
    BY <1>1, <2>1, PartIsReserved
  <2>3. available[d] \in Nat /\ reserved[d] \in Nat /\ available[d] + reserved[d] = Total[d]
    BY <1>1 DEF IInv, Balance, TypeOK, KitchenTypeOK
  <2>4. QED
    BY <2>2, <2>3
<1>2. IInv /\ InventoryExact =>
          ((\A o \in Orders : o \notin Expiring /\ cancels[o] = 0) => NeverOversold)
  BY <1>1 DEF NeverOversold
<1>3. QED
  BY <1>2, SagaInvHolds, InventoryHolds, PTL

(* Releasing one order's portions never puts another's, held ones back on   *)
(* sale ("already-released reservation is a no-op") while no TTL lapses and *)
(* nobody cancels, although the release handler checks the status before it *)
(* writes and not when it writes.                                           *)
THEOREM HeldStaysReserved ==
    Spec => []((\A o \in Orders : o \notin Expiring /\ cancels[o] = 0) => HeldIsReserved)
<1>1. ASSUME IInv, InventoryExact, \A o \in Orders : o \notin Expiring /\ cancels[o] = 0,
             NEW d \in Drops
      PROVE  HeldBy(d, {"HELD"}) <= reserved[d]
  <2>1. {"HELD"} \in SUBSET Live
    BY DEF Live
  <2>2. QED
    BY <1>1, <2>1, PartIsReserved
<1>2. IInv /\ InventoryExact =>
          ((\A o \in Orders : o \notin Expiring /\ cancels[o] = 0) => HeldIsReserved)
  BY <1>1 DEF HeldIsReserved
<1>3. QED
  BY <1>2, SagaInvHolds, InventoryHolds, PTL

(* A charge that was captured is not voided ("void a not-yet-captured hold")*)
(* for an order nobody cancels: the void that reads AUTHORIZED and writes   *)
(* whatever has happened since is sent only where no capture follows.       *)
THEOREM ChargesStay ==
    Spec => [][\A o \in Orders :
                 cancels[o] = 0 /\ payment[o] = "CAPTURED" => payment'[o] = "CAPTURED"]_vars
<1> DEFINE Stay == \A o \in Orders :
                     cancels[o] = 0 /\ payment[o] = "CAPTURED" => payment'[o] = "CAPTURED"
<1>1. ASSUME IInv, SagaInv, [Next]_vars, NEW o \in Orders,
             cancels[o] = 0, payment[o] = "CAPTURED"
      PROVE  payment'[o] = "CAPTURED"
  <2>1. /\ OrderInv(o) /\ payment \in [Orders -> PaymentStatus \cup {"NONE"}]
        /\ sent \subseteq Messages
    BY <1>1 DEF SagaInv, IInv, TypeOK, PaymentTypeOK, MessagingTypeOK
  <2>2. order[o] # "CANCELLED"
    BY <1>1, <2>1 DEF OrderInv, ServicesFit, Paid
  <2>3. \A m \in sent : m.order = o => m.step \notin Compensations
    BY <2>1, <2>2 DEF OrderInv, MessagesFit, MessageFits
  <2>4. CASE \E p \in Orders : Paying(p)
    <3>1. PICK m \in sent :
             /\ m.order \in Orders
             /\ \/ Authorize(m) \/ Decline(m) \/ AnswerDeclined(m) \/ AuthorizeAgain(m)
                \/ Capture(m) \/ BeginVoid(m) \/ NothingToVoid(m) \/ CommitVoid(m) \/ Refund(m)
      BY <2>4 DEF Paying, PaymentHandles, SentFor
    <3>3. CASE Authorize(m) \/ Capture(m)
      BY <1>1, <2>1, <3>1, <3>3 DEF Authorize, Capture, SetPayment
    <3>4. CASE \/ Decline(m) \/ AnswerDeclined(m) \/ AuthorizeAgain(m)
               \/ BeginVoid(m) \/ NothingToVoid(m)
      BY <1>1, <3>4 DEF Decline, AnswerDeclined, AuthorizeAgain, BeginVoid, NothingToVoid
    <3>5. CASE CommitVoid(m) \/ Refund(m)
      <4>1. m.step \in Compensations
        BY <1>1, <3>5 DEF CommitVoid, Refund, Arrives, IInv, TransactionsHaveCauses, Compensations
      <4>2. m.order # o
        BY <2>3, <4>1
      <4>3. QED
        BY <1>1, <2>1, <3>1, <3>5, <4>2 DEF CommitVoid, Refund, SetPayment
    <3>6. QED
      BY <3>1, <3>3, <3>4, <3>5
  <2>5. CASE \/ \E p \in Orders : Orchestrating(p) \/ Cooking(p) \/ Dispatching(p)
             \/ Customers \/ Upkeep \/ Trouble \/ UNCHANGED vars
    BY <1>1, <2>5 DEF Orchestrating, Cooking, Dispatching, Customers, Upkeep, Trouble, vars,
       paymentVars
  <2>6. QED
    BY <1>1, <2>4, <2>5 DEF Next
<1>2. IInv /\ SagaInv /\ [Next]_vars => Stay
  BY <1>1
<1>3. QED
  BY <1>2, SagaInvHolds, PTL DEF Spec

(***************************************************************************)
(* The lifecycle of an order nobody may cancel.                            *)
(***************************************************************************)

(* The delivery event names the timer it goes back to, and no request is   *)
(* counted beyond the bound.                                               *)
EventsTimed == \A m \in sent : m.kind = "event" => m.from \in Timers
CancelsBounded == \A o \in Orders : cancels[o] <= MaxCancels[o]

LEMMA TimedKept ==
    ASSUME TypeOK, EventsTimed, [Next]_vars
    PROVE  EventsTimed'
<1>1. \/ \A m \in sent' \ sent : m.kind # "event"
      \/ \E o \in Orders, k \in Timers : sent' = sent \cup {Delivered(o, k)}
  <2>1. sent \subseteq Messages
    BY DEF TypeOK, MessagingTypeOK
  <2>2. \A m \in sent, s \in {"ok", "failed"} : Reply(m, s).kind # "event"
    BY <2>1, ReplyFields
  <2>3. \A t : /\ \A step : \A c \in Sends(t, step) : c.kind # "event"
               /\ \A r : \A c \in Undo(t, r) : c.kind # "event"
    BY CommandFields DEF Sends, Undo
  <2>4. CASE \E o \in Orders : Orchestrating(o)
    <3>1. CASE \E t \in otx : CommitReply(t)
      BY <2>3, <3>1 DEF CommitReply, PortionsReserved, PaymentAuthorized, OrderAccepted,
         CourierAssigned, PaymentCaptured, Reject, Compensate, IgnoreReply, OnDelivered,
         IgnoreDelivered, CommitMessage, Consume
    <3>2. CASE \E m \in sent : Receive(m)
      BY <3>2 DEF Receive, Begin
    <3>3. QED
      BY <2>4, <3>1, <3>2 DEF Orchestrating, OrchestratorHandles, SentFor
  <2>5. CASE Customers
    <3>1. CASE \E o \in Orders : PlaceOrder(o)
      BY <3>1, CommandFields DEF PlaceOrder
    <3>2. CASE \E t \in otx : CommitCancel(t)
      BY <2>3, <3>2 DEF CommitCancel
    <3>3. CASE \/ \E o \in Orders : RequestCancel(o)
               \/ \E t \in otx : ReadSaga(t)
      BY <3>3 DEF RequestCancel, Begin, ReadSaga
    <3>4. QED
      BY <2>5, <3>1, <3>2, <3>3 DEF Customers, CustomerActs
  <2>6. CASE \E o \in Orders : Cooking(o)
    BY <2>2, <2>6 DEF Cooking, KitchenHandles, SentFor, ReservePortions, ComesUpShort, SoldOut,
       AcceptOrder, BeginRelease, NothingToRelease, CommitRelease, Consume, msgVars
  <2>7. CASE \E o \in Orders : Paying(o)
    BY <2>2, <2>7 DEF Paying, PaymentHandles, SentFor, Authorize, Decline, AnswerDeclined,
       AuthorizeAgain, Capture, BeginVoid, NothingToVoid, CommitVoid, Refund, Consume, msgVars
  <2>8. CASE \E o \in Orders : Dispatching(o)
    BY <2>2, <2>8 DEF Dispatching, DispatchHandles, SentFor, Assign, NoCourier, Unassign,
       TimerFires, CompleteDelivery, Consume, msgVars
  <2>9. CASE Upkeep \/ Trouble \/ UNCHANGED vars
    BY <2>9 DEF Upkeep, KitchenBackground, BeginSweep, CommitSweep, RollBack, Trouble,
       DispatchFaults, Redelivered, CompletionFails, Restart, vars, msgVars
  <2>10. QED
    BY <2>4, <2>5, <2>6, <2>7, <2>8, <2>9 DEF Next
<1>2. ASSUME NEW o \in Orders, NEW k \in Timers
      PROVE  Delivered(o, k).from = k
  BY DEF Delivered
<1>3. QED
  BY <1>1, <1>2 DEF EventsTimed

(* The step an order makes, if any.                                         *)
Moves ==
    { << "NONE", "PLACED" >>, << "PLACED", "PORTIONS_RESERVED" >>,
      << "PORTIONS_RESERVED", "PAYMENT_AUTHORIZED" >>,
      << "PAYMENT_AUTHORIZED", "PREPARING" >>, << "PREPARING", "COURIER_ASSIGNED" >>,
      << "COURIER_ASSIGNED", "DELIVERED" >>, << "DELIVERED", "COMPLETED" >>,
      << "PLACED", "REJECTED" >>, << "PORTIONS_RESERVED", "CANCELLED" >>,
      << "PAYMENT_AUTHORIZED", "CANCELLED" >>, << "PREPARING", "CANCELLED" >>,
      << "COMPLETED", "COMPLETED" >> }

MovesOn(o, to) ==
    << order[o], to >> \in Moves /\ (to \in Paid => order[o] \in Paid)

(* A delivery event moves it to DELIVERED, from wherever an earlier one    *)
(* has taken it.                                                            *)
MovesByEvent(o, to, t) ==
    OnDelivered(t) /\ to = "DELIVERED" /\ order[o] \in Served \ {"PREPARING"}

(* With one timer a delivery is reported once, and an order that was paid  *)
(* has handled the report.                                                 *)
OnceDelivered ==
    \A o \in Orders :
        cancels[o] = 0 /\ order[o] \in Paid => Delivered(o, 1) \in inbox

LEMMA CommitMoves ==
    ASSUME IInv, NEW o \in Orders, OrderInv(o), cancels[o] = 0,
           NEW t \in otx, t.msg.order = o, CommitReply(t)
    PROVE  order' = order \/ \E to : /\ order' = [order EXCEPT ![o] = to]
                                     /\ MovesOn(o, to) \/ MovesByEvent(o, to, t)
<1>1. order \in [Orders -> OrderStatus \cup {"NONE"}]
  BY DEF IInv, TypeOK, OrchestratorTypeOK
<1>2. ASSUME NEW status, order' = [order EXCEPT ![o] = status], MovesOn(o, status)
      PROVE  \E to : /\ order' = [order EXCEPT ![o] = to]
                     /\ MovesOn(o, to) \/ MovesByEvent(o, to, t)
  BY <1>2
<1>4. ASSUME t.msg.step \in ToCourier
      PROVE  order[o] = StatusAt(t.msg.step)
  BY <1>4, ReplyFits
<1>5. CASE PortionsReserved(t) \/ Reject(t)
  <2>1. order[o] = "PLACED"
    BY <1>4, <1>5, StatusTable DEF PortionsReserved, Reject, IsReply, ToCourier, SagaSteps
  <2>2. QED
    BY <1>2, <1>5, <2>1 DEF PortionsReserved, Reject, Write, MovesOn, Moves, Paid
<1>6. CASE PaymentAuthorized(t)
  <2>1. order[o] = "PORTIONS_RESERVED"
    BY <1>4, <1>6, StatusTable DEF PaymentAuthorized, IsReply, ToCourier, SagaSteps
  <2>2. QED
    BY <1>2, <1>6, <2>1 DEF PaymentAuthorized, Write, MovesOn, Moves, Paid
<1>7. CASE OrderAccepted(t)
  <2>1. order[o] = "PAYMENT_AUTHORIZED"
    BY <1>4, <1>7, StatusTable DEF OrderAccepted, IsReply, ToCourier, SagaSteps
  <2>2. QED
    BY <1>2, <1>7, <2>1 DEF OrderAccepted, Write, MovesOn, Moves, Paid
<1>8. CASE CourierAssigned(t)
  <2>1. order[o] = "PREPARING"
    BY <1>4, <1>8, StatusTable DEF CourierAssigned, IsReply, ToCourier, SagaSteps
  <2>2. QED
    BY <1>2, <1>8, <2>1 DEF CourierAssigned, Write, MovesOn, Moves, Paid
<1>9. CASE Compensate(t)
  <2>1. /\ t.msg \in Messages /\ MessageFits(o, t.msg) /\ t.msg.kind = "failed"
        /\ t.msg.step # "ReservePortions"
    BY <1>9, CommitIs DEF Compensate
  <2>2. t.msg.step \in {"AuthorizePayment", "AcceptOrder", "AssignCourier"}
    BY <2>1 DEF Messages, SagaSteps, MessageFits
  <2>3. order[o] \in {"PORTIONS_RESERVED", "PAYMENT_AUTHORIZED", "PREPARING"}
    BY <1>4, <2>2, StatusTable DEF ToCourier, SagaSteps
  <2>4. QED
    BY <1>2, <1>9, <2>3 DEF Compensate, Write, MovesOn, Moves, Paid
<1>10. CASE OnDelivered(t)
  <2>1. ReadFits(o, t) /\ t.msg.kind = "event" /\ t.status = "COURIER_ASSIGNED"
    BY <1>10, CommitIs DEF OnDelivered, AwaitsDelivery
  <2>2. order[o] \in Served \ {"PREPARING"}
    BY <2>1 DEF ReadFits
  <2>3. order' = [order EXCEPT ![o] = "DELIVERED"]
    BY <1>10 DEF OnDelivered, Write
  <2>4. QED
    BY <1>10, <2>2, <2>3 DEF MovesByEvent
<1>11. CASE PaymentCaptured(t)
  <2>1. MessageFits(o, t.msg) /\ t.msg.step = "CapturePayment"
    BY <1>11, CommitIs DEF PaymentCaptured, IsReply
  <2>2. order[o] \in Paid
    BY <2>1, SinceTable DEF MessageFits, SagaSteps
  <2>3. MovesOn(o, "COMPLETED")
    BY <2>2 DEF MovesOn, Moves, Paid
  <2>4. QED
    BY <1>2, <1>11, <2>3 DEF PaymentCaptured, Write
<1>12. CASE IgnoreReply(t) \/ IgnoreDelivered(t)
  BY <1>12 DEF IgnoreReply, IgnoreDelivered
<1>13. QED
  BY <1>5, <1>6, <1>7, <1>8, <1>9, <1>10, <1>11, <1>12 DEF CommitReply

LEMMA InboxGrows ==
    ASSUME [Next]_vars
    PROVE  inbox \subseteq inbox'
<1>1. CASE \E o \in Orders : Orchestrating(o)
  BY <1>1 DEF Orchestrating, OrchestratorHandles, Receive, Begin, CommitReply, PortionsReserved,
     PaymentAuthorized, OrderAccepted, CourierAssigned, PaymentCaptured, Reject, Compensate,
     IgnoreReply, OnDelivered, IgnoreDelivered, CommitMessage, Consume
<1>2. CASE Customers
  BY <1>2 DEF Customers, CustomerActs, PlaceOrder, RequestCancel, Begin, CommitCancel, ReadSaga
<1>3. CASE \E o \in Orders : Cooking(o)
  BY <1>3 DEF Cooking, KitchenHandles, ReservePortions, ComesUpShort, SoldOut,
     AcceptOrder, BeginRelease, NothingToRelease, CommitRelease, Consume, msgVars
<1>4. CASE \E o \in Orders : Paying(o)
  BY <1>4 DEF Paying, PaymentHandles, Authorize, Decline, AnswerDeclined, AuthorizeAgain,
     Capture, BeginVoid, NothingToVoid, CommitVoid, Refund, Consume, msgVars
<1>5. CASE \E o \in Orders : Dispatching(o)
  BY <1>5 DEF Dispatching, DispatchHandles, Assign, NoCourier, Unassign,
     TimerFires, CompleteDelivery, Consume, msgVars
<1>6. CASE Upkeep \/ Trouble \/ UNCHANGED vars
  BY <1>6 DEF Upkeep, KitchenBackground, BeginSweep, CommitSweep, RollBack, Trouble,
     DispatchFaults, Redelivered, CompletionFails, Restart, vars, msgVars
<1>7. QED
  BY <1>1, <1>2, <1>3, <1>4, <1>5, <1>6 DEF Next

(* A step moves at most one order, and one that nobody cancels along the   *)
(* lifecycle or back to its delivery.                                      *)
LEMMA OrderSteps ==
    ASSUME IInv, SagaInv, [Next]_vars
    PROVE  \/ order' = order
           \/ \E p \in Orders : \E to :
                 /\ order' = [order EXCEPT ![p] = to]
                 /\ cancels[p] = 0 => \/ MovesOn(p, to)
                                      \/ \E t \in otx : t.msg.order = p /\ MovesByEvent(p, to, t)
<1>1. order \in [Orders -> OrderStatus \cup {"NONE"}]
  BY DEF IInv, TypeOK, OrchestratorTypeOK
<1>2. ASSUME NEW p \in Orders, NEW t \in otx, t.msg.order = p, CommitReply(t)
      PROVE  \/ order' = order
             \/ \E to : /\ order' = [order EXCEPT ![p] = to]
                        /\ cancels[p] = 0 => MovesOn(p, to) \/ MovesByEvent(p, to, t)
  <2>1. CASE cancels[p] = 0
    BY <1>2, <2>1, CommitMoves DEF SagaInv
  <2>2. CASE cancels[p] # 0
    BY <1>2, <2>2 DEF CommitReply, PortionsReserved, PaymentAuthorized, OrderAccepted,
       CourierAssigned, PaymentCaptured, Reject, Compensate, IgnoreReply, OnDelivered,
       IgnoreDelivered, Write
  <2>3. QED
    BY <2>1, <2>2
<1>3. CASE \E o \in Orders : Orchestrating(o)
  <2>1. PICK p \in Orders : OrchestratorHandles(p)
    BY <1>3 DEF Orchestrating
  <2>2. CASE \E m \in SentFor(p) : Receive(m)
    BY <2>2 DEF Receive, Begin
  <2>3. CASE \E t \in otx : t.msg.order = p /\ CommitReply(t)
    BY <1>2, <2>3
  <2>4. QED
    BY <2>1, <2>2, <2>3 DEF OrchestratorHandles
<1>4. ASSUME NEW p \in Orders, PlaceOrder(p)
      PROVE  /\ order' = [order EXCEPT ![p] = "PLACED"]
             /\ MovesOn(p, "PLACED")
  BY <1>1, <1>4 DEF PlaceOrder, MovesOn, Moves, Paid
<1>5. ASSUME NEW t \in otx, CommitCancel(t)
      PROVE  \E p \in Orders : /\ order' = [order EXCEPT ![p] = "CANCELLED"]
                               /\ cancels[p] # 0
  <2>1. t.msg.kind = "request" /\ t.msg.order \in Orders
    BY <1>5 DEF CommitCancel, IInv, TypeOK, OrchestratorTypeOK, OrderTransactions, Messages,
       CancelRequests
  <2>2. ~ OrderInv(t.msg.order)
    BY <2>1 DEF OrderInv, ReadsFit, ReadFits, IInv, TypeOK, MessagingTypeOK, Messages
  <2>3. cancels[t.msg.order] # 0
    BY <2>1, <2>2 DEF SagaInv
  <2>4. QED
    BY <1>5, <2>1, <2>3 DEF CommitCancel, Write
<1>6. CASE Customers
  <2>1. CASE \/ \E o \in Orders : RequestCancel(o)
             \/ \E t \in otx : ReadSaga(t)
    BY <2>1 DEF RequestCancel, Begin, ReadSaga
  <2>2. CASE \E o \in Orders : PlaceOrder(o)
    BY <1>4, <2>2
  <2>3. CASE \E t \in otx : CommitCancel(t)
    BY <1>5, <2>3
  <2>4. QED
    BY <1>6, <2>1, <2>2, <2>3 DEF Customers, CustomerActs
<1>7. CASE \/ \E o \in Orders : Cooking(o) \/ Paying(o) \/ Dispatching(o)
           \/ Upkeep \/ Trouble \/ UNCHANGED vars
  BY <1>7 DEF Cooking, Paying, Dispatching, Upkeep, Trouble, vars, orchestratorVars
<1>8. QED
  BY <1>3, <1>6, <1>7 DEF Next

(* With one timer there is no way back: the event is handled once.          *)
LEMMA OrderStepsOnce ==
    ASSUME MaxTimers = 1, IInv, SagaInv, EventsTimed, OnceDelivered, [Next]_vars
    PROVE  \/ order' = order
           \/ \E p \in Orders : \E to :
                 /\ order' = [order EXCEPT ![p] = to]
                 /\ cancels[p] = 0 => /\ << order[p], to >> \in Moves
                                      /\ order'[p] \in Paid => Delivered(p, 1) \in inbox'
<1>1. order \in [Orders -> OrderStatus \cup {"NONE"}] /\ inbox \subseteq inbox'
  BY InboxGrows DEF IInv, TypeOK, OrchestratorTypeOK
<1>2. ASSUME NEW p \in Orders, NEW to, order' = [order EXCEPT ![p] = to], cancels[p] = 0,
             MovesOn(p, to)
      PROVE  /\ << order[p], to >> \in Moves
             /\ order'[p] \in Paid => Delivered(p, 1) \in inbox'
  BY <1>1, <1>2 DEF MovesOn, OnceDelivered
<1>3. ASSUME NEW p \in Orders, NEW to, order' = [order EXCEPT ![p] = to], cancels[p] = 0,
             NEW t \in otx, t.msg.order = p, MovesByEvent(p, to, t)
      PROVE  /\ << order[p], to >> \in Moves
             /\ order'[p] \in Paid => Delivered(p, 1) \in inbox'
  <2>1. /\ CommitMessage(t, Sends(t, "CapturePayment")) /\ t.msg.kind = "event"
        /\ OrderInv(p)
    BY <1>3 DEF MovesByEvent, OnDelivered, SagaInv
  <2>2. t.msg \in sent /\ t.msg \notin inbox /\ t.msg \in Messages /\ t.msg \in inbox'
    BY <1>3, <2>1, CommitIs
  <2>3. t.msg.from = 1
    BY <2>1, <2>2 DEF EventsTimed, Timers
  <2>4. t.msg = Delivered(p, 1)
    BY <1>3, <2>1, <2>2, <2>3 DEF Messages, Delivered
  <2>5. order[p] = "COURIER_ASSIGNED" /\ to = "DELIVERED"
    BY <1>3, <2>2, <2>4 DEF MovesByEvent, OnceDelivered, Served, Paid
  <2>6. QED
    BY <2>2, <2>4, <2>5 DEF Moves
<1>4. QED
  BY <1>2, <1>3, OrderSteps

LEMMA OnceDeliveredKept ==
    ASSUME MaxTimers = 1, IInv, SagaInv, EventsTimed, OnceDelivered, [Next]_vars
    PROVE  OnceDelivered'
<1> SUFFICES ASSUME NEW o \in Orders, cancels'[o] = 0, order'[o] \in Paid
             PROVE  Delivered(o, 1) \in inbox'
  BY DEF OnceDelivered
<1>1. cancels[o] = 0 /\ inbox \subseteq inbox'
  BY CancelsCounted, InboxGrows DEF IInv
<1>2. CASE order'[o] = order[o]
  BY <1>1, <1>2 DEF OnceDelivered
<1>3. CASE order'[o] # order[o]
  <2>1. PICK p \in Orders : \E to :
            /\ order' = [order EXCEPT ![p] = to]
            /\ cancels[p] = 0 /\ order'[p] \in Paid => Delivered(p, 1) \in inbox'
    BY <1>3, OrderStepsOnce
  <2>2. p = o
    BY <1>3, <2>1 DEF IInv, TypeOK, OrchestratorTypeOK
  <2>3. QED
    BY <1>1, <2>1, <2>2
<1>4. QED
  BY <1>2, <1>3

LEMMA BoundKept ==
    ASSUME TypeOK, CancelsBounded, [Next]_vars
    PROVE  CancelsBounded'
<1>1. \A o \in Orders : cancels[o] \in Nat /\ MaxCancels[o] \in Nat
  BY CancelsAssumption DEF TypeOK, OrchestratorTypeOK
<1>2. CASE UNCHANGED cancels
  BY <1>2 DEF CancelsBounded
<1>3. ASSUME NEW p \in Orders, RequestCancel(p)
      PROVE  CancelsBounded'
  <2>1. cancels[p] < MaxCancels[p] /\ cancels' = [cancels EXCEPT ![p] = cancels[p] + 1]
    BY <1>3 DEF RequestCancel
  <2>2. cancels[p] + 1 <= MaxCancels[p]
    BY <1>1, <2>1
  <2>3. QED
    BY <2>1, <2>2 DEF CancelsBounded, TypeOK, OrchestratorTypeOK
<1>4. CASE Customers
  BY <1>2, <1>3, <1>4 DEF Customers, CustomerActs, PlaceOrder, CommitCancel, ReadSaga
<1>5. CASE \E p \in Orders : Orchestrating(p)
  BY <1>2, <1>5 DEF Orchestrating, OrchestratorHandles, Receive, CommitReply, PortionsReserved,
     PaymentAuthorized, OrderAccepted, CourierAssigned, PaymentCaptured, Reject, Compensate,
     IgnoreReply, OnDelivered, IgnoreDelivered, CommitMessage
<1>6. CASE \/ \E p \in Orders : Cooking(p) \/ Paying(p) \/ Dispatching(p)
           \/ Upkeep \/ Trouble \/ UNCHANGED vars
  BY <1>2, <1>6 DEF Cooking, Paying, Dispatching, Upkeep, Trouble, vars, orchestratorVars
<1>7. QED
  BY <1>4, <1>5, <1>6 DEF Next

LifecycleInv == IInv /\ SagaInv /\ EventsTimed /\ OnceDelivered /\ CancelsBounded

(* Every step of the saga is a step of the lifecycle, or none.              *)
LEMMA LifecycleStep ==
    ASSUME MaxTimers = 1, LifecycleInv, [Next]_vars
    PROVE  Lifecycle!Next \/ UNCHANGED [o \in Uncancelled |-> order[o]]
<1> DEFINE status == [o \in Uncancelled |-> order[o]]
<1>1. order \in [Orders -> OrderStatus \cup {"NONE"}]
  BY DEF LifecycleInv, IInv, TypeOK, OrchestratorTypeOK
<1>2. CASE order' = order
  BY <1>2
<1>3. ASSUME NEW p \in Orders, NEW to, order' = [order EXCEPT ![p] = to],
             cancels[p] = 0 => << order[p], to >> \in Moves
      PROVE  Lifecycle!Next \/ UNCHANGED status
  <2>1. CASE p \notin Uncancelled
    BY <1>1, <1>3, <2>1 DEF Uncancelled
  <2>2. CASE p \in Uncancelled
    <3>1. cancels[p] = 0
      <4>1. cancels[p] \in Nat /\ cancels[p] <= 0
        BY <2>2 DEF LifecycleInv, CancelsBounded, Uncancelled, IInv, TypeOK, OrchestratorTypeOK
      <4>2. QED
        BY <4>1
    <3>2. << order[p], to >> \in Moves
      BY <1>3, <3>1
    <3>3. status' = [status EXCEPT ![p] = to] /\ status[p] = order[p]
      BY <1>1, <1>3, <2>2 DEF Uncancelled
    <3>4. Lifecycle!Move(p, order[p], to)
      BY <3>3 DEF Lifecycle!Move
    <3>5. CASE << order[p], to >> # << "COMPLETED", "COMPLETED" >>
      BY <2>2, <3>2, <3>4, <3>5 DEF Moves, Lifecycle!Next, Lifecycle!Place, Lifecycle!Prepare,
         Lifecycle!Deliver, Lifecycle!Settle, Lifecycle!Fail, Lifecycle!Cancel
    <3>6. CASE << order[p], to >> = << "COMPLETED", "COMPLETED" >>
      BY <1>1, <1>3, <3>6
    <3>7. QED
      BY <3>5, <3>6
  <2>3. QED
    BY <2>1, <2>2
<1>4. QED
  BY <1>2, <1>3, OrderStepsOnce DEF LifecycleInv

(* The saga implements the lifecycle of the README and enums.ts, as far as *)
(* steps go: an order nobody may cancel moves one status at a time and     *)
(* leaves no ending, when no second timer is armed for its delivery (with  *)
(* two, a late handler of the second event brings a completed order back   *)
(* to DELIVERED).                                                          *)
THEOREM LifecycleFollowed ==
    ASSUME MaxTimers = 1
    PROVE  Spec => Lifecycle!Safety
<1>1. Init => LifecycleInv /\ Lifecycle!Init
  <2>1. ASSUME Init
        PROVE  LifecycleInv /\ Lifecycle!Init
    <3>1. IInv /\ SagaInv
      BY <2>1, InvariantInitially, SagaInvInitially
    <3>2. /\ sent = {} /\ order = [o \in Orders |-> "NONE"]
          /\ cancels = [o \in Orders |-> 0]
      BY <2>1 DEF Init, MessagingInit, OrchestratorInit
    <3>3. EventsTimed /\ OnceDelivered
      BY <3>2 DEF EventsTimed, OnceDelivered, Paid
    <3>4. CancelsBounded
      <4>1. ASSUME NEW o \in Orders
            PROVE  cancels[o] <= MaxCancels[o]
        <5>1. MaxCancels[o] \in Nat
          BY CancelsAssumption DEF CancelsAssumption
        <5>2. cancels[o] = 0
          BY <3>2
        <5>3. QED
          BY <5>1, <5>2
      <4>2. QED
        BY <4>1 DEF CancelsBounded
    <3>5. Lifecycle!Init
      BY <3>2 DEF Lifecycle!Init, Uncancelled
    <3>6. QED
      BY <3>1, <3>3, <3>4, <3>5 DEF LifecycleInv
  <2>2. QED
    BY <2>1
<1>2. LifecycleInv /\ [Next]_vars => LifecycleInv'
  <2>1. ASSUME LifecycleInv, [Next]_vars
        PROVE  LifecycleInv'
    <3>1. IInv' /\ SagaInv' /\ EventsTimed' /\ CancelsBounded'
      BY <2>1, InvariantKept, SagaInvKept, TimedKept, BoundKept DEF LifecycleInv, IInv
    <3>2. OnceDelivered'
      BY <2>1, OnceDeliveredKept DEF LifecycleInv
    <3>3. QED
      BY <3>1, <3>2 DEF LifecycleInv
  <2>2. QED
    BY <2>1
<1>3. LifecycleInv /\ [Next]_vars =>
          [Lifecycle!Next]_[o \in Uncancelled |-> order[o]]
  BY LifecycleStep
<1>4. QED
  BY <1>1, <1>2, <1>3, PTL DEF Spec, Lifecycle!Safety

(* With any number of timers, the one other step there is: a late handler  *)
(* of a second delivery event takes a completed order back to its delivery *)
(* (the unconditional write of onDelivered).                                *)
THEOREM OnlyDeliveryRepeats ==
    Spec => [][\A o \in Uncancelled :
                 order'[o] # order[o] =>
                     \/ << order[o], order'[o] >> \in Moves
                     \/ << order[o], order'[o] >> = << "COMPLETED", "DELIVERED" >>]_vars
<1> DEFINE Moved == \A o \in Uncancelled :
                      order'[o] # order[o] =>
                          \/ << order[o], order'[o] >> \in Moves
                          \/ << order[o], order'[o] >> = << "COMPLETED", "DELIVERED" >>
<1>1. Init => IInv /\ SagaInv /\ CancelsBounded
  <2>1. ASSUME Init, NEW o \in Orders PROVE cancels[o] <= MaxCancels[o]
    <3>1. MaxCancels[o] \in Nat /\ cancels[o] = 0
      BY <2>1, CancelsAssumption DEF CancelsAssumption, Init, OrchestratorInit
    <3>2. QED
      BY <3>1
  <2>2. QED
    BY <2>1, InvariantInitially, SagaInvInitially DEF CancelsBounded
<1>2. IInv /\ SagaInv /\ CancelsBounded /\ [Next]_vars => (IInv /\ SagaInv /\ CancelsBounded)'
  BY InvariantKept, SagaInvKept, BoundKept DEF IInv
<1>3. IInv /\ SagaInv /\ CancelsBounded /\ [Next]_vars => [Moved]_vars
  <2> SUFFICES ASSUME IInv, SagaInv, CancelsBounded, [Next]_vars,
                      NEW o \in Uncancelled, order'[o] # order[o]
               PROVE  \/ << order[o], order'[o] >> \in Moves
                      \/ << order[o], order'[o] >> = << "COMPLETED", "DELIVERED" >>
    OBVIOUS
  <2>1. order \in [Orders -> OrderStatus \cup {"NONE"}] /\ o \in Orders
    BY DEF IInv, TypeOK, OrchestratorTypeOK, Uncancelled
  <2>2. cancels[o] = 0
    <3>1. cancels[o] \in Nat /\ cancels[o] <= 0
      BY <2>1 DEF CancelsBounded, Uncancelled, IInv, TypeOK, OrchestratorTypeOK
    <3>2. QED
      BY <3>1
  <2>3. ASSUME NEW p \in Orders, NEW to, order' = [order EXCEPT ![p] = to],
               cancels[p] = 0 => \/ MovesOn(p, to)
                                 \/ \E t \in otx : t.msg.order = p /\ MovesByEvent(p, to, t)
        PROVE  \/ << order[o], order'[o] >> \in Moves
               \/ << order[o], order'[o] >> = << "COMPLETED", "DELIVERED" >>
    <3>1. p = o /\ order'[o] = to
      BY <2>1, <2>3
    <3>2. CASE MovesOn(o, to)
      BY <3>1, <3>2 DEF MovesOn
    <3>3. CASE \E t \in otx : MovesByEvent(o, to, t)
      <4>1. to = "DELIVERED" /\ order[o] \in {"COURIER_ASSIGNED", "DELIVERED", "COMPLETED"}
        BY <3>3 DEF MovesByEvent, Served
      <4>2. order[o] \in {"COURIER_ASSIGNED", "COMPLETED"}
        BY <3>1, <4>1
      <4>3. << "COURIER_ASSIGNED", "DELIVERED" >> \in Moves
        BY DEF Moves
      <4>4. QED
        BY <3>1, <4>1, <4>2, <4>3
    <3>4. QED
      BY <2>2, <2>3, <3>1, <3>2, <3>3
  <2>4. QED
    BY <2>1, <2>3, OrderSteps
<1>4. QED
  BY <1>1, <1>2, <1>3, PTL DEF Spec
=============================================================================
