--------------------------- MODULE HotDropProofs ----------------------------
(***************************************************************************)
(* What holds of the saga for every set of orders, drops and portions,     *)
(* every number of cancel requests and timers, with or without failures.   *)
(***************************************************************************)
EXTENDS HotDrop, OrchestratorProofs, TLAPS

(***************************************************************************)
(* Types.                                                                  *)
(***************************************************************************)

(* The counters stay natural numbers: a reservation takes what is there,    *)
(* and the CHECK constraint lets a release restore what is reserved.        *)
LEMMA QuantityType ==
    ASSUME NEW o \in Orders, NEW d \in Drops
    PROVE  Qty[o][d] \in Nat
BY InventoryAssumption

LEMMA ReserveCounts ==
    ASSUME KitchenTypeOK, NEW m, m.order \in Orders, ReservePortions(m)
    PROVE  available' \in [Drops -> Nat] /\ reserved' \in [Drops -> Nat]
<1>1. ASSUME NEW d \in Drops
      PROVE  /\ available[d] - Qty[m.order][d] \in Nat
             /\ reserved[d] + Qty[m.order][d] \in Nat
  <2>1. Qty[m.order][d] \in Nat /\ available[d] \in Nat /\ reserved[d] \in Nat
    BY QuantityType DEF KitchenTypeOK
  <2>2. Qty[m.order][d] <= available[d]
    BY DEF ReservePortions, Fits
  <2>3. QED
    BY <2>1, <2>2
<1>2. QED
  BY <1>1 DEF ReservePortions

LEMMA RestoreCounts ==
    ASSUME KitchenTypeOK, NEW o \in Orders, Restore(o)
    PROVE  available' \in [Drops -> Nat] /\ reserved' \in [Drops -> Nat]
<1>1. ASSUME NEW d \in Drops
      PROVE  /\ available[d] + Qty[o][d] \in Nat
             /\ reserved[d] - Qty[o][d] \in Nat
  <2>1. Qty[o][d] \in Nat /\ available[d] \in Nat /\ reserved[d] \in Nat
    BY QuantityType DEF KitchenTypeOK
  <2>2. Qty[o][d] <= reserved[d]
    BY DEF Restore, Restorable
  <2>3. QED
    BY <2>1, <2>2
<1>2. QED
  BY <1>1 DEF Restore

LEMMA KitchenTypes ==
    ASSUME MessagingTypeOK, KitchenTypeOK, NEW o \in Orders, KitchenHandles(o)
    PROVE  MessagingTypeOK' /\ KitchenTypeOK'
<1>1. PICK m \in SentFor(o) : \/ ReservePortions(m) \/ ComesUpShort(m) \/ SoldOut(m)
                              \/ AcceptOrder(m) \/ BeginRelease(m) \/ NothingToRelease(m) \/ CommitRelease(m)
  BY DEF KitchenHandles
<1>2. m \in Messages /\ m.order = o
  BY <1>1 DEF SentFor, MessagingTypeOK
<1> USE <1>2, ReplyType, ConsumeType
<1>3. CASE ReservePortions(m)
  BY <1>3, ReserveCounts DEF ReservePortions, KitchenTypeOK, ReservationStatus, SagaSteps
<1>4. CASE ComesUpShort(m) \/ SoldOut(m)
  BY <1>4 DEF ComesUpShort, SoldOut, msgVars, KitchenTypeOK, MessagingTypeOK, SagaSteps
<1>5. CASE AcceptOrder(m)
  BY <1>5 DEF AcceptOrder, KitchenTypeOK, ReservationStatus, SagaSteps
<1>6. CASE BeginRelease(m)
  BY <1>6 DEF BeginRelease, msgVars, KitchenTypeOK, MessagingTypeOK
<1>7. CASE NothingToRelease(m)
  BY <1>7 DEF NothingToRelease, KitchenTypeOK
<1>8. CASE CommitRelease(m)
  BY <1>8, RestoreCounts DEF CommitRelease, Restore, KitchenTypeOK, ReservationStatus
<1>9. QED
  BY <1>1, <1>3, <1>4, <1>5, <1>6, <1>7, <1>8

LEMMA UpkeepTypes ==
    ASSUME MessagingTypeOK, KitchenTypeOK, KitchenBackground
    PROVE  MessagingTypeOK' /\ KitchenTypeOK'
<1>1. CASE \E o \in Orders : BeginSweep(o)
  BY <1>1 DEF BeginSweep, msgVars, KitchenTypeOK, MessagingTypeOK, Sweeps
<1>2. ASSUME NEW t \in ktx, CommitSweep(t)
      PROVE  MessagingTypeOK' /\ KitchenTypeOK'
  <2>1. t.order \in Orders
    BY <1>2 DEF CommitSweep, Sweeps, SweepOf
  <2>2. available' \in [Drops -> Nat] /\ reserved' \in [Drops -> Nat]
    BY <1>2, <2>1, RestoreCounts DEF CommitSweep
  <2>3. QED
    BY <1>2, <2>1, <2>2 DEF CommitSweep, Restore, msgVars, KitchenTypeOK,
       MessagingTypeOK, ReservationStatus
<1>3. ASSUME NEW t \in ktx, RollBack(t)
      PROVE  MessagingTypeOK' /\ KitchenTypeOK'
  BY <1>3 DEF RollBack, msgVars, KitchenTypeOK, MessagingTypeOK
<1>4. QED
  BY <1>1, <1>2, <1>3 DEF KitchenBackground

LEMMA PaymentTypes ==
    ASSUME MessagingTypeOK, PaymentTypeOK, NEW o \in Orders, PaymentHandles(o)
    PROVE  MessagingTypeOK' /\ PaymentTypeOK'
<1>1. PICK m \in SentFor(o) : \/ Authorize(m) \/ Decline(m) \/ AnswerDeclined(m)
                              \/ AuthorizeAgain(m) \/ Capture(m) \/ BeginVoid(m)
                              \/ NothingToVoid(m) \/ CommitVoid(m) \/ Refund(m)
  BY DEF PaymentHandles
<1>2. m \in Messages /\ m.order = o
  BY <1>1 DEF SentFor, MessagingTypeOK
<1>3. CASE BeginVoid(m) \/ Decline(m)
  BY <1>2, <1>3 DEF BeginVoid, Decline, msgVars, PaymentTypeOK, MessagingTypeOK
<1>4. CASE Authorize(m) \/ Capture(m) \/ NothingToVoid(m) \/ CommitVoid(m) \/ Refund(m)
  BY <1>2, <1>4, ReplyType, ConsumeType DEF Authorize, Capture, NothingToVoid,
     CommitVoid, Refund, SetPayment, PaymentTypeOK, PaymentStatus, SagaSteps
<1>5. CASE AnswerDeclined(m) \/ AuthorizeAgain(m)
  BY <1>2, <1>5, ReplyType, ConsumeType DEF AnswerDeclined, AuthorizeAgain,
     PaymentTypeOK, SagaSteps
<1>6. QED
  BY <1>1, <1>3, <1>4, <1>5

LEMMA DispatchTypes ==
    ASSUME MessagingTypeOK, DispatchTypeOK, NEW o \in Orders, DispatchHandles(o)
    PROVE  MessagingTypeOK' /\ DispatchTypeOK'
<1>1. ASSUME NEW m \in SentFor(o), Assign(m) \/ NoCourier(m) \/ Unassign(m)
      PROVE  MessagingTypeOK' /\ DispatchTypeOK'
  <2>1. m \in Messages /\ m.order = o
    BY DEF SentFor, MessagingTypeOK
  <2>2. 1 \in Timers
    BY TimersAssumption DEF Timers
  <2>3. CASE Assign(m)
    BY <2>1, <2>2, <2>3, ReplyType, ConsumeType DEF Assign, SetTimer, DispatchTypeOK, TimerStatus, SagaSteps
  <2>4. CASE NoCourier(m)
    BY <2>1, <2>4, ReplyType, ConsumeType DEF NoCourier, dispatchVars, DispatchTypeOK, SagaSteps
  <2>5. CASE Unassign(m)
    BY <2>1, <2>5, ConsumeType DEF Unassign, DispatchTypeOK
  <2>6. QED
    BY <1>1, <2>3, <2>4, <2>5
<1>2. ASSUME NEW k \in Timers, TimerFires(o, k)
      PROVE  MessagingTypeOK' /\ DispatchTypeOK'
  BY <1>2 DEF TimerFires, SetTimer, msgVars, DispatchTypeOK, MessagingTypeOK, TimerStatus
<1>3. ASSUME NEW k \in Timers, CompleteDelivery(o, k)
      PROVE  MessagingTypeOK' /\ DispatchTypeOK'
  <2>1. Delivered(o, k) \in Messages
    BY DEF Delivered, Messages, Timers
  <2>2. QED
    BY <1>3, <2>1 DEF CompleteDelivery, SetTimer, DispatchTypeOK, MessagingTypeOK, TimerStatus
<1>4. QED
  BY <1>1, <1>2, <1>3 DEF DispatchHandles

LEMMA TroubleTypes ==
    ASSUME MessagingTypeOK, DispatchTypeOK, DispatchFaults
    PROVE  MessagingTypeOK' /\ DispatchTypeOK'
<1>1. ASSUME NEW m \in inbox, NEW k \in Timers, Redelivered(m, k)
      PROVE  MessagingTypeOK' /\ DispatchTypeOK'
  <2>1. m.order \in Orders
    BY DEF MessagingTypeOK, Messages
  <2>2. QED
    BY <1>1, <2>1 DEF Redelivered, SetTimer, msgVars, DispatchTypeOK, MessagingTypeOK, TimerStatus
<1>2. ASSUME NEW o \in Orders, NEW k \in Timers, CompletionFails(o, k)
      PROVE  MessagingTypeOK' /\ DispatchTypeOK'
  BY <1>2 DEF CompletionFails, SetTimer, msgVars, DispatchTypeOK, MessagingTypeOK, TimerStatus
<1>3. CASE Restart
  BY <1>3 DEF Restart, msgVars, DispatchTypeOK, MessagingTypeOK, TimerStatus
<1>4. QED
  BY <1>1, <1>2, <1>3 DEF DispatchFaults

LEMMA InitTypes == Init => TypeOK
<1>1. Init => MessagingTypeOK /\ PaymentTypeOK /\ DispatchTypeOK
  BY DEF Init, MessagingInit, PaymentInit, DispatchInit, MessagingTypeOK,
     PaymentTypeOK, DispatchTypeOK, TimerStatus
<1>2. Init => KitchenTypeOK
  BY InventoryAssumption DEF Init, KitchenInit, KitchenTypeOK
<1>3. Init => OrchestratorTypeOK
  BY DEF Init, OrchestratorInit, OrchestratorTypeOK, Sagas, Errors
<1>4. QED
  BY <1>1, <1>2, <1>3 DEF TypeOK

LEMMA NextTypes == TypeOK /\ [Next]_vars => TypeOK'
<1> SUFFICES ASSUME TypeOK, [Next]_vars PROVE TypeOK'
  OBVIOUS
<1> USE DEF TypeOK
<1>1. ASSUME NEW o \in Orders, Orchestrating(o) PROVE TypeOK'
  BY <1>1, OrchestratorTypes DEF Orchestrating, kitchenVars, paymentVars, dispatchVars,
     KitchenTypeOK, PaymentTypeOK, DispatchTypeOK
<1>2. ASSUME NEW o \in Orders, Cooking(o) PROVE TypeOK'
  BY <1>2, KitchenTypes DEF Cooking, orchestratorVars, paymentVars, dispatchVars,
     OrchestratorTypeOK, PaymentTypeOK, DispatchTypeOK
<1>3. ASSUME NEW o \in Orders, Paying(o) PROVE TypeOK'
  BY <1>3, PaymentTypes DEF Paying, orchestratorVars, kitchenVars, dispatchVars,
     OrchestratorTypeOK, KitchenTypeOK, DispatchTypeOK
<1>4. ASSUME NEW o \in Orders, Dispatching(o) PROVE TypeOK'
  BY <1>4, DispatchTypes DEF Dispatching, orchestratorVars, kitchenVars, paymentVars,
     OrchestratorTypeOK, KitchenTypeOK, PaymentTypeOK
<1>5. CASE Customers
  BY <1>5, CustomerTypes DEF Customers, kitchenVars, paymentVars, dispatchVars,
     KitchenTypeOK, PaymentTypeOK, DispatchTypeOK
<1>6. CASE Upkeep
  BY <1>6, UpkeepTypes DEF Upkeep, orchestratorVars, paymentVars, dispatchVars,
     OrchestratorTypeOK, PaymentTypeOK, DispatchTypeOK
<1>7. CASE Trouble
  BY <1>7, TroubleTypes DEF Trouble, orchestratorVars, kitchenVars, paymentVars,
     OrchestratorTypeOK, KitchenTypeOK, PaymentTypeOK
<1>8. CASE UNCHANGED vars
  BY <1>8 DEF vars, msgVars, orchestratorVars, kitchenVars, paymentVars, dispatchVars,
     MessagingTypeOK, OrchestratorTypeOK, KitchenTypeOK, PaymentTypeOK, DispatchTypeOK
<1>9. QED
  BY <1>1, <1>2, <1>3, <1>4, <1>5, <1>6, <1>7, <1>8 DEF Next

(* Every reachable state is well typed: statuses stay among those the      *)
(* services write, the portion counters never go negative, and nothing is  *)
(* consumed that was not sent.                                             *)
THEOREM TypesHold == Spec => []TypeOK
  BY InitTypes, NextTypes, PTL DEF Spec

(***************************************************************************)
(* The inductive invariant.                                                *)
(***************************************************************************)

(* Two commands with the same answer are the same command.                  *)
LEMMA ReplyInjective ==
    ASSUME NEW m1 \in Messages, NEW m2 \in Messages,
           m1.kind = m2.kind, NEW s1, NEW s2, Reply(m1, s1) = Reply(m2, s2)
    PROVE  m1 = m2
<1>1. /\ m1 = [kind |-> m1.kind, step |-> m1.step, order |-> m1.order, from |-> m1.from]
      /\ m2 = [kind |-> m2.kind, step |-> m2.step, order |-> m2.order, from |-> m2.from]
  BY DEF Messages
<1>2. Reply(m1, s1).step = m1.step /\ Reply(m1, s1).order = m1.order /\ Reply(m1, s1).from = m1.from
  BY DEF Reply, Messages
<1>3. Reply(m2, s2).step = m2.step /\ Reply(m2, s2).order = m2.order /\ Reply(m2, s2).from = m2.from
  BY DEF Reply, Messages
<1>4. QED
  BY <1>1, <1>2, <1>3

(* The fields of an answer, and the command it goes back to.                *)
LEMMA ReplyFields ==
    ASSUME NEW m \in Messages, NEW s
    PROVE  /\ Reply(m, s).kind = s /\ Reply(m, s).step = m.step
           /\ Reply(m, s).order = m.order /\ Reply(m, s).from = m.from
           /\ m.kind = "command" => [Reply(m, s) EXCEPT !.kind = "command"] = m
<1>1. m = [kind |-> m.kind, step |-> m.step, order |-> m.order, from |-> m.from]
  BY DEF Messages
<1>2. QED
  BY <1>1 DEF Reply

(* What no step of a service takes back.                                    *)
Grows ==
    \A o \in Orders :
        /\ reservation[o] # "NONE" => reservation'[o] # "NONE"
        /\ reservation[o] \in {"CONFIRMED", "RELEASED"} =>
              reservation'[o] \in {"CONFIRMED", "RELEASED"}
        /\ payment[o] # "NONE" => payment'[o] # "NONE"
        /\ delivery[o] = "DELIVERED" => delivery'[o] = "DELIVERED"
        /\ notices[o] \subseteq notices'[o]

LEMMA CausedStable ==
    ASSUME Grows, NEW m, m.order \in Orders, Caused(m),
           Says(m, "ReservePortions", {"failed"}) => reservation'[m.order] = "NONE"
    PROVE  Caused(m)'
BY DEF Grows, Caused, Says

(* A participant consumes a command: a forward step with one answer, a     *)
(* compensation with none.                                                 *)
LEMMA ParticipantConsumes ==
    ASSUME TypeOK, AnsweredOnce, AnswersHaveCommands,
           NEW m \in sent, m.kind = "command", NEW out, Consume(m, out),
           \/ m.step \in SagaSteps /\ out \in {{Reply(m, "ok")}, {Reply(m, "failed")}}
           \/ m.step \in Compensations /\ out = {}
    PROVE  AnsweredOnce' /\ AnswersHaveCommands'
<1>1. m \in Messages /\ sent \subseteq Messages /\ sent' = sent \cup out
      /\ inbox' = inbox \cup {m} /\ m \notin inbox
  BY DEF TypeOK, MessagingTypeOK, Consume, Pending
<1>2. AnswersHaveCommands'
  <2>1. ASSUME NEW q \in sent, q.kind \in {"ok", "failed"}
        PROVE  [q EXCEPT !.kind = "command"] \in inbox'
    BY <1>1, <2>1 DEF AnswersHaveCommands
  <2>2. ASSUME NEW s
        PROVE  /\ [Reply(m, s) EXCEPT !.kind = "command"] \in inbox'
               /\ Reply(m, s).step = "ReservePortions" => Reply(m, s).from = 0
    BY <1>1, ReplyFields DEF AnswersHaveCommands
  <2>3. QED
    BY <1>1, <2>1, <2>2 DEF AnswersHaveCommands
<1>3. ASSUME NEW c \in sent', c.kind = "command", c.step \in SagaSteps
      PROVE  IF c \in inbox' THEN Answered(c, "ok")' <=> ~Answered(c, "failed")'
                             ELSE ~Answered(c, "ok")' /\ ~Answered(c, "failed")'
  <2>1. c \in sent /\ c \in Messages
    BY <1>1, <1>3, ReplyFields
  <2>2. Reply(c, "ok") # Reply(c, "failed")
    BY <2>1, ReplyFields
  <2>3. CASE c = m
    BY <1>1, <1>3, <2>1, <2>2, <2>3 DEF AnsweredOnce, Answered, SagaSteps, Compensations
  <2>4. CASE c # m
    <3>1. \A s, r \in {"ok", "failed"} : Reply(c, s) # Reply(m, r)
      BY <1>1, <1>3, <2>1, <2>4, ReplyInjective
    <3>2. \A s \in {"ok", "failed"} : Answered(c, s)' <=> Answered(c, s)
      BY <1>1, <3>1 DEF Answered
    <3>3. c \in inbox' <=> c \in inbox
      BY <1>1, <2>4
    <3>4. QED
      BY <1>3, <2>1, <3>2, <3>3 DEF AnsweredOnce
  <2>5. QED
    BY <2>3, <2>4
<1>4. QED
  BY <1>2, <1>3 DEF AnsweredOnce

(* A step that answers and consumes no command keeps both, too.             *)
LEMMA NothingAnswered ==
    ASSUME TypeOK, AnsweredOnce, AnswersHaveCommands, TypeOK',
           sent \subseteq sent', inbox \subseteq inbox',
           \A m \in sent' \ sent :
               /\ m.kind \in {"command", "event"}
               /\ m.step = "ReservePortions" => m.from = 0,
           \A m \in inbox' \ inbox : m.kind # "command"
    PROVE  AnsweredOnce' /\ AnswersHaveCommands'
<1>1. sent' \subseteq Messages
  BY DEF TypeOK, MessagingTypeOK
<1>2. AnswersHaveCommands'
  BY DEF AnswersHaveCommands
<1>3. ASSUME NEW c \in sent', c.kind = "command", c.step \in SagaSteps
      PROVE  IF c \in inbox' THEN Answered(c, "ok")' <=> ~Answered(c, "failed")'
                             ELSE ~Answered(c, "ok")' /\ ~Answered(c, "failed")'
  <2>1. \A s \in {"ok", "failed"} : Answered(c, s)' <=> Answered(c, s)
    BY <1>1, <1>3, ReplyFields DEF Answered
  <2>2. c \in inbox' <=> c \in inbox
    BY <1>3
  <2>3. CASE c \in sent
    BY <1>3, <2>1, <2>2, <2>3 DEF AnsweredOnce
  <2>4. CASE c \notin sent
    <3>1. c \notin inbox
      BY <2>4 DEF TypeOK, MessagingTypeOK
    <3>2. \A s \in {"ok", "failed"} : ~Answered(c, s)
      BY <1>1, <1>3, <3>1, ReplyFields DEF Answered, AnswersHaveCommands
    <3>3. QED
      BY <2>1, <2>2, <3>1, <3>2
  <2>5. QED
    BY <2>3, <2>4
<1>4. QED
  BY <1>2, <1>3 DEF AnsweredOnce

(* New messages with causes, and tables that only grow, leave every message *)
(* with its causes.                                                         *)
LEMMA MessagesStable ==
    ASSUME TypeOK, MessagesHaveCauses, Grows,
           \A m \in sent : Says(m, "ReservePortions", {"failed"}) =>
               reservation'[m.order] = "NONE",
           \A m \in sent' \ sent : Caused(m)'
    PROVE  MessagesHaveCauses'
<1>1. ASSUME NEW m \in sent PROVE Caused(m)'
  <2>1. m.order \in Orders
    BY DEF TypeOK, MessagingTypeOK, Messages
  <2>2. QED
    BY <2>1, CausedStable DEF MessagesHaveCauses
<1>2. QED
  BY <1>1 DEF MessagesHaveCauses

(* The part of the invariant that is about the tables.                      *)
TablesInv ==
    /\ MessagesHaveCauses
    /\ TransactionsHaveCauses
    /\ TablesAgree
    /\ StepsInOrder
    /\ ChargedOnlyAfterDelivery
    /\ UndoneOnlyWhenCancelled
    /\ Balance

(* The one command that reserves an order's portions.                       *)
LEMMA ReserveCommand ==
    ASSUME IInv, NEW m \in sent, m.kind = "command", m.step = "ReservePortions"
    PROVE  m = Command("ReservePortions", m.order, 0) /\ m \in Messages
<1>1. m \in Messages /\ m.from = 0
  BY DEF IInv, TypeOK, MessagingTypeOK, AnswersHaveCommands
<1>2. QED
  BY <1>1 DEF Messages, Command

(* While it is not consumed, nothing is reserved.                           *)
LEMMA NotYetReserved ==
    ASSUME IInv, NEW m \in sent, m \notin inbox,
           m.kind = "command", m.step = "ReservePortions"
    PROVE  reservation[m.order] = "NONE"
<1>1. m = Command("ReservePortions", m.order, 0) /\ m \in Messages /\ m.order \in Orders
  BY ReserveCommand DEF Messages
<1>2. Reply(m, "ok") \notin sent
  BY <1>1, ReplyFields DEF IInv, AnswersHaveCommands
<1>3. QED
  BY <1>1, <1>2 DEF IInv, TablesAgree

LEMMA ReserveKeeps ==
    ASSUME IInv, NEW m \in sent, ReservePortions(m),
           UNCHANGED << orchestratorVars, paymentVars, dispatchVars >>
    PROVE  TablesInv'
<1> DEFINE o == m.order
<1>1. /\ m \in Messages /\ o \in Orders /\ m.kind = "command" /\ m.step = "ReservePortions"
      /\ m \notin inbox /\ reservation[o] = "NONE"
      /\ reservation' = [reservation EXCEPT ![o] = "HELD"]
      /\ sent' = sent \cup {Reply(m, "ok")}
      /\ reservation \in [Orders -> ReservationStatus \cup {"NONE"}]
  BY DEF IInv, TypeOK, MessagingTypeOK, KitchenTypeOK, Messages, ReservePortions, Arrives,
     Pending, Consume
<1>2. UNCHANGED << notices, payment, ptx, assignment, delivery, timers, ktx >>
  BY DEF ReservePortions, orchestratorVars, paymentVars, dispatchVars
<1>3. Grows
  BY <1>1, <1>2 DEF Grows
<1>4. ASSUME NEW q \in sent, Says(q, "ReservePortions", {"failed"})
      PROVE  q.order # o
  <2>1. /\ [q EXCEPT !.kind = "command"] \in inbox
        /\ q.from = 0 /\ m.from = 0 /\ q.step = "ReservePortions"
    BY <1>1, <1>4 DEF IInv, AnswersHaveCommands, Says
  <2>2. q \in Messages
    BY DEF IInv, TypeOK, MessagingTypeOK
  <2>3. q.order = o => [q EXCEPT !.kind = "command"] = m
    BY <1>1, <2>1, <2>2 DEF Messages
  <2>4. QED
    BY <1>1, <2>1, <2>3
<1>5. Caused(Reply(m, "ok"))'
  BY <1>1, ReplyFields DEF Caused, Says
<1>6. MessagesHaveCauses'
  <2>1. \A q \in sent : Says(q, "ReservePortions", {"failed"}) =>
            q.order \in Orders /\ reservation[q.order] = "NONE"
    BY DEF IInv, TypeOK, MessagingTypeOK, Messages, MessagesHaveCauses, Caused
  <2>2. \A q \in sent : Says(q, "ReservePortions", {"failed"}) =>
            reservation'[q.order] = "NONE"
    BY <1>1, <1>4, <2>1
  <2>3. QED
    BY <1>1, <1>3, <1>5, <2>2, MessagesStable DEF IInv
<1>7. TransactionsHaveCauses'
  BY <1>1, <1>2 DEF IInv, TransactionsHaveCauses
<1>8. TablesAgree'
  BY <1>1, <1>2, ReserveCommand DEF IInv, TablesAgree
<1>9. StepsInOrder'
  BY <1>1, <1>2 DEF IInv, StepsInOrder
<1>10. ChargedOnlyAfterDelivery' /\ UndoneOnlyWhenCancelled'
  BY <1>1, <1>2 DEF IInv, ChargedOnlyAfterDelivery, UndoneOnlyWhenCancelled
<1>11. Balance'
  BY <1>1, QuantityType DEF IInv, TypeOK, KitchenTypeOK, Balance, ReservePortions
<1>12. QED
  BY <1>6, <1>7, <1>8, <1>9, <1>10, <1>11 DEF TablesInv

(* The steps that reserve nothing need not look at the answers.             *)
LEMMA MessagesKept ==
    ASSUME TypeOK, MessagesHaveCauses, Grows,
           \A o \in Orders : reservation[o] = "NONE" => reservation'[o] = "NONE",
           \A m \in sent' \ sent : Caused(m)'
    PROVE  MessagesHaveCauses'
<1>1. \A m \in sent : Says(m, "ReservePortions", {"failed"}) =>
          m.order \in Orders /\ reservation[m.order] = "NONE"
  BY DEF TypeOK, MessagingTypeOK, Messages, MessagesHaveCauses, Caused
<1>2. QED
  BY <1>1, MessagesStable

(* A step that leaves the tables alone, closes transactions at most and    *)
(* sends what has its causes.                                              *)
LEMMA TablesKept ==
    ASSUME IInv, sent \subseteq sent', \A m \in sent' \ sent : Caused(m)',
           UNCHANGED << notices, available, reserved, reservation, payment,
                        assignment, delivery, timers >>,
           ktx' \subseteq ktx, ptx' \subseteq ptx
    PROVE  TablesInv'
<1>1. Grows
  BY DEF Grows
<1>2. MessagesHaveCauses'
  BY <1>1, MessagesKept DEF IInv
<1>3. TransactionsHaveCauses'
  BY DEF IInv, TransactionsHaveCauses
<1>4. TablesAgree'
  BY DEF IInv, TablesAgree
<1>5. /\ StepsInOrder' /\ ChargedOnlyAfterDelivery' /\ UndoneOnlyWhenCancelled' /\ Balance'
  BY DEF IInv, StepsInOrder, ChargedOnlyAfterDelivery, UndoneOnlyWhenCancelled, Balance
<1>6. QED
  BY <1>2, <1>3, <1>4, <1>5 DEF TablesInv

LEMMA SoldOutKeeps ==
    ASSUME IInv, NEW m \in sent, SoldOut(m),
           UNCHANGED << orchestratorVars, paymentVars, dispatchVars >>
    PROVE  TablesInv'
<1>1. m.kind = "command" /\ m.step = "ReservePortions" /\ m \notin inbox
      /\ sent' = sent \cup {Reply(m, "failed")}
  BY DEF SoldOut, Arrives, Pending, Consume
<1>2. reservation[m.order] = "NONE" /\ m \in Messages
  BY <1>1, NotYetReserved, ReserveCommand
<1>3. UNCHANGED << notices, payment, ptx, assignment, delivery, timers,
                   available, reserved, reservation, ktx >>
  BY DEF SoldOut, orchestratorVars, paymentVars, dispatchVars
<1>4. Caused(Reply(m, "failed"))'
  BY <1>1, <1>2, <1>3, ReplyFields DEF Caused, Says
<1>5. QED
  BY <1>1, <1>3, <1>4, TablesKept

LEMMA ComesUpShortKeeps ==
    ASSUME IInv, NEW m \in sent, ComesUpShort(m),
           UNCHANGED << orchestratorVars, paymentVars, dispatchVars >>
    PROVE  TablesInv'
BY TablesKept DEF ComesUpShort, msgVars, orchestratorVars, paymentVars, dispatchVars

LEMMA AcceptKeeps ==
    ASSUME IInv, NEW m \in sent, AcceptOrder(m),
           UNCHANGED << orchestratorVars, paymentVars, dispatchVars >>
    PROVE  TablesInv'
<1> DEFINE o == m.order
<1>1. /\ m \in Messages /\ o \in Orders /\ m.kind = "command" /\ m.step = "AcceptOrder"
      /\ reservation[o] # "NONE" /\ payment[o] # "NONE"
      /\ reservation' = [reservation EXCEPT ![o] = "CONFIRMED"]
      /\ sent' = sent \cup {Reply(m, "ok")}
      /\ reservation \in [Orders -> ReservationStatus \cup {"NONE"}]
  BY DEF IInv, TypeOK, MessagingTypeOK, KitchenTypeOK, Messages, AcceptOrder, Arrives,
     Pending, Consume, MessagesHaveCauses, Caused, Says
<1>2. UNCHANGED << notices, payment, ptx, assignment, delivery, timers, ktx,
                   available, reserved >>
  BY DEF AcceptOrder, orchestratorVars, paymentVars, dispatchVars
<1>3. Grows
  BY <1>1, <1>2 DEF Grows
<1>4. Caused(Reply(m, "ok"))'
  BY <1>1, <1>2, ReplyFields DEF Caused, Says
<1>5. MessagesHaveCauses'
  BY <1>1, <1>3, <1>4, MessagesKept DEF IInv
<1>6. TransactionsHaveCauses'
  BY <1>1, <1>2 DEF IInv, TransactionsHaveCauses
<1>7. TablesAgree'
  BY <1>1, <1>2 DEF IInv, TablesAgree
<1>8. StepsInOrder'
  BY <1>1, <1>2 DEF IInv, StepsInOrder
<1>9. ChargedOnlyAfterDelivery' /\ UndoneOnlyWhenCancelled' /\ Balance'
  BY <1>1, <1>2 DEF IInv, ChargedOnlyAfterDelivery, UndoneOnlyWhenCancelled, Balance
<1>10. QED
  BY <1>5, <1>6, <1>7, <1>8, <1>9 DEF TablesInv

(* A release or a sweep that commits.                                       *)
LEMMA RestoreKeeps ==
    ASSUME IInv, NEW t \in ktx, Restore(t.order), ktx' = ktx \ {t}, sent' = sent,
           UNCHANGED << orchestratorVars, paymentVars, dispatchVars >>
    PROVE  TablesInv'
<1> DEFINE o == t.order
<1>1. /\ reservation[o] # "NONE"
      /\ o \in Orders
      /\ "OrderCancelled" \in notices[o] \/ o \in Expiring
  BY DEF IInv, TypeOK, KitchenTypeOK, Messages, Sweeps, SweepOf, TransactionsHaveCauses,
     MessagesHaveCauses, Caused
<1>2. /\ reservation' = [reservation EXCEPT ![o] = "RELEASED"]
      /\ reservation \in [Orders -> ReservationStatus \cup {"NONE"}]
  BY DEF Restore, IInv, TypeOK, KitchenTypeOK
<1>3. UNCHANGED << notices, payment, ptx, assignment, delivery, timers >>
  BY DEF orchestratorVars, paymentVars, dispatchVars
<1>4. Grows
  BY <1>1, <1>2, <1>3 DEF Grows
<1>5. MessagesHaveCauses'
  BY <1>1, <1>2, <1>4, MessagesKept DEF IInv
<1>6. TransactionsHaveCauses'
  BY <1>1, <1>2, <1>3 DEF IInv, TransactionsHaveCauses
<1>7. TablesAgree'
  BY <1>1, <1>2, <1>3 DEF IInv, TablesAgree
<1>8. StepsInOrder'
  BY <1>1, <1>2, <1>3 DEF IInv, StepsInOrder
<1>9. ChargedOnlyAfterDelivery' /\ UndoneOnlyWhenCancelled'
  BY <1>1, <1>2, <1>3 DEF IInv, ChargedOnlyAfterDelivery, UndoneOnlyWhenCancelled
<1>10. Balance'
  BY <1>1, QuantityType DEF IInv, TypeOK, KitchenTypeOK, Balance, Restore
<1>11. QED
  BY <1>5, <1>6, <1>7, <1>8, <1>9, <1>10 DEF TablesInv

(* A release or a sweep that opens.                                         *)
LEMMA OpenKeeps ==
    ASSUME IInv, NEW t, reservation[t.order] # "NONE", ktx' = ktx \cup {t},
           \/ t \in sent /\ t.step = "ReleasePortions"
           \/ t \in Sweeps /\ t.order \in Expiring,
           UNCHANGED << msgVars, available, reserved, reservation >>,
           UNCHANGED << orchestratorVars, paymentVars, dispatchVars >>
    PROVE  TablesInv'
<1>1. UNCHANGED << sent, notices, payment, ptx, assignment, delivery, timers >>
  BY DEF msgVars, orchestratorVars, paymentVars, dispatchVars
<1>2. t \in sent => t \notin Sweeps
  BY DEF IInv, TypeOK, MessagingTypeOK, Messages, Sweeps, SweepOf
<1>3. TransactionsHaveCauses'
  BY <1>1, <1>2 DEF IInv, TransactionsHaveCauses
<1>4. /\ MessagesHaveCauses' /\ TablesAgree' /\ StepsInOrder' /\ Balance'
      /\ ChargedOnlyAfterDelivery' /\ UndoneOnlyWhenCancelled'
  BY <1>1 DEF IInv, MessagesHaveCauses, Caused, TablesAgree, StepsInOrder, Balance,
     ChargedOnlyAfterDelivery, UndoneOnlyWhenCancelled
<1>5. QED
  BY <1>3, <1>4 DEF TablesInv

(* The invariant is its parts.                                              *)
LEMMA Parts ==
    /\ IInv <=> TypeOK /\ TablesInv /\ AnsweredOnce /\ AnswersHaveCommands
    /\ IInv' <=> TypeOK' /\ TablesInv' /\ AnsweredOnce' /\ AnswersHaveCommands'
BY DEF IInv, TablesInv

(* A step that sends and consumes nothing leaves the answers alone.         *)
LEMMA Silent ==
    ASSUME IInv, UNCHANGED msgVars
    PROVE  AnsweredOnce' /\ AnswersHaveCommands'
BY DEF IInv, msgVars, AnsweredOnce, AnswersHaveCommands, Answered

LEMMA CookingKeeps ==
    ASSUME IInv, TypeOK', NEW o \in Orders, Cooking(o)
    PROVE  IInv'
<1>1. PICK m \in SentFor(o) : \/ ReservePortions(m) \/ ComesUpShort(m) \/ SoldOut(m)
                              \/ AcceptOrder(m) \/ BeginRelease(m) \/ NothingToRelease(m) \/ CommitRelease(m)
  BY DEF Cooking, KitchenHandles
<1>2. m \in sent /\ UNCHANGED << orchestratorVars, paymentVars, dispatchVars >>
  BY DEF SentFor, Cooking
<1>3. CASE ReservePortions(m)
  <2>1. TablesInv'
    BY <1>2, <1>3, ReserveKeeps
  <2>2. AnsweredOnce' /\ AnswersHaveCommands'
    BY <1>2, <1>3, ParticipantConsumes DEF ReservePortions, Arrives, IInv, SagaSteps
  <2>3. QED
    BY <2>1, <2>2, Parts
<1>4. CASE SoldOut(m)
  <2>1. TablesInv'
    BY <1>2, <1>4, SoldOutKeeps
  <2>2. AnsweredOnce' /\ AnswersHaveCommands'
    BY <1>2, <1>4, ParticipantConsumes DEF SoldOut, Arrives, IInv, SagaSteps
  <2>3. QED
    BY <2>1, <2>2, Parts
<1>5. CASE AcceptOrder(m)
  <2>1. TablesInv'
    BY <1>2, <1>5, AcceptKeeps
  <2>2. AnsweredOnce' /\ AnswersHaveCommands'
    BY <1>2, <1>5, ParticipantConsumes DEF AcceptOrder, Arrives, IInv, SagaSteps
  <2>3. QED
    BY <2>1, <2>2, Parts
<1>6. CASE BeginRelease(m)
  <2>1. TablesInv'
    BY <1>2, <1>6, OpenKeeps DEF BeginRelease, Arrives
  <2>2. AnsweredOnce' /\ AnswersHaveCommands'
    BY <1>6, Silent DEF BeginRelease
  <2>3. QED
    BY <2>1, <2>2, Parts
<1>7. CASE NothingToRelease(m)
  <2>1. TablesInv'
    BY <1>2, <1>7, TablesKept DEF NothingToRelease, Consume, orchestratorVars,
       paymentVars, dispatchVars
  <2>2. AnsweredOnce' /\ AnswersHaveCommands'
    BY <1>2, <1>7, ParticipantConsumes DEF NothingToRelease, Arrives, IInv, Compensations
  <2>3. QED
    BY <2>1, <2>2, Parts
<1>8. CASE CommitRelease(m)
  <2>1. sent' = sent /\ m \in ktx /\ Consume(m, {}) /\ Restore(m.order) /\ ktx' = ktx \ {m}
    BY <1>8 DEF CommitRelease, Consume
  <2>2. m.step = "ReleasePortions" /\ m.kind = "command"
    BY <1>2, <1>8 DEF CommitRelease, IInv, TransactionsHaveCauses, TypeOK, MessagingTypeOK,
       Messages, SagaSteps
  <2>3. TablesInv'
    BY <1>2, <2>1, RestoreKeeps
  <2>4. AnsweredOnce' /\ AnswersHaveCommands'
    BY <1>2, <2>1, <2>2, ParticipantConsumes DEF IInv, Compensations
  <2>5. QED
    BY <2>3, <2>4, Parts
<1>9. CASE ComesUpShort(m)
  <2>1. TablesInv'
    BY <1>2, <1>9, ComesUpShortKeeps
  <2>2. AnsweredOnce' /\ AnswersHaveCommands'
    BY <1>9, Silent DEF ComesUpShort
  <2>3. QED
    BY <2>1, <2>2, Parts
<1>10. QED
  BY <1>1, <1>3, <1>4, <1>5, <1>6, <1>7, <1>8, <1>9

LEMMA UpkeepKeeps ==
    ASSUME IInv, TypeOK', Upkeep
    PROVE  IInv'
<1>1. UNCHANGED << orchestratorVars, paymentVars, dispatchVars >>
  BY DEF Upkeep
<1>2. UNCHANGED msgVars
  BY DEF Upkeep, KitchenBackground, BeginSweep, CommitSweep, RollBack
<1>3. AnsweredOnce' /\ AnswersHaveCommands'
  BY <1>2, Silent
<1>4. ASSUME NEW o \in Orders, BeginSweep(o)
      PROVE  TablesInv'
  <2>1. SweepOf(o) \in Sweeps /\ SweepOf(o).order = o
    BY DEF Sweeps, SweepOf
  <2>2. QED
    BY <1>1, <1>4, <2>1, OpenKeeps DEF BeginSweep
<1>5. ASSUME NEW t \in ktx, CommitSweep(t)
      PROVE  TablesInv'
  BY <1>1, <1>5, RestoreKeeps DEF CommitSweep, msgVars
<1>6. ASSUME NEW t \in ktx, RollBack(t)
      PROVE  TablesInv'
  BY <1>1, <1>6, TablesKept DEF RollBack, msgVars, orchestratorVars, paymentVars, dispatchVars
<1>7. TablesInv'
  BY <1>4, <1>5, <1>6 DEF Upkeep, KitchenBackground
<1>8. QED
  BY <1>3, <1>7, Parts

(***************************************************************************)
(* The payment service.                                                    *)
(***************************************************************************)

(* A payment is held, captured, voided or refunded.                         *)
LEMMA SetPaymentKeeps ==
    ASSUME IInv, NEW o \in Orders, NEW status \in PaymentStatus, SetPayment(o, status),
           reservation[o] # "NONE",
           status = "CAPTURED" => delivery[o] = "DELIVERED",
           status = "VOIDED" => "OrderCancelled" \in notices[o],
           sent \subseteq sent', \A m \in sent' \ sent : Caused(m)', ptx' \subseteq ptx,
           UNCHANGED << orchestratorVars, kitchenVars, dispatchVars >>
    PROVE  TablesInv'
<1>1. /\ payment' = [payment EXCEPT ![o] = status] /\ status # "NONE"
      /\ payment \in [Orders -> PaymentStatus \cup {"NONE"}]
  BY DEF SetPayment, PaymentStatus, IInv, TypeOK, PaymentTypeOK
<1>2. UNCHANGED << notices, available, reserved, reservation, ktx,
                   assignment, delivery, timers >>
  BY DEF orchestratorVars, kitchenVars, dispatchVars
<1>3. Grows
  BY <1>1, <1>2 DEF Grows
<1>4. MessagesHaveCauses'
  BY <1>2, <1>3, MessagesKept DEF IInv
<1>5. TransactionsHaveCauses'
  BY <1>1, <1>2 DEF IInv, TransactionsHaveCauses
<1>6. TablesAgree' /\ Balance'
  BY <1>2 DEF IInv, TablesAgree, Balance
<1>7. StepsInOrder'
  BY <1>1, <1>2 DEF IInv, StepsInOrder
<1>8. ChargedOnlyAfterDelivery' /\ UndoneOnlyWhenCancelled'
  BY <1>1, <1>2 DEF IInv, ChargedOnlyAfterDelivery, UndoneOnlyWhenCancelled
<1>9. QED
  BY <1>4, <1>5, <1>6, <1>7, <1>8 DEF TablesInv

(* A void that opens.                                                       *)
LEMMA BeginVoidKeeps ==
    ASSUME IInv, NEW m \in sent, BeginVoid(m),
           UNCHANGED << orchestratorVars, kitchenVars, dispatchVars >>
    PROVE  TablesInv'
<1>1. UNCHANGED << sent, payment, notices, available, reserved, reservation, ktx,
                   assignment, delivery, timers >>
  BY DEF BeginVoid, msgVars, orchestratorVars, kitchenVars, dispatchVars
<1>2. TransactionsHaveCauses'
  BY <1>1 DEF BeginVoid, Arrives, IInv, TransactionsHaveCauses
<1>3. /\ MessagesHaveCauses' /\ TablesAgree' /\ StepsInOrder' /\ Balance'
      /\ ChargedOnlyAfterDelivery' /\ UndoneOnlyWhenCancelled'
  BY <1>1 DEF IInv, MessagesHaveCauses, Caused, TablesAgree, StepsInOrder, Balance,
     ChargedOnlyAfterDelivery, UndoneOnlyWhenCancelled
<1>4. QED
  BY <1>2, <1>3 DEF TablesInv

(* A hold that is declined, not answered.                                   *)
LEMMA DeclineKeeps ==
    ASSUME IInv, NEW m \in sent, Decline(m),
           UNCHANGED << orchestratorVars, kitchenVars, dispatchVars >>
    PROVE  TablesInv'
BY TablesKept DEF Decline, msgVars, orchestratorVars, kitchenVars, dispatchVars

LEMMA PayingKeeps ==
    ASSUME IInv, TypeOK', NEW o \in Orders, Paying(o)
    PROVE  IInv'
<1>1. PICK m \in SentFor(o) : \/ Authorize(m) \/ Decline(m) \/ AnswerDeclined(m)
                              \/ AuthorizeAgain(m) \/ Capture(m) \/ BeginVoid(m)
                              \/ NothingToVoid(m) \/ CommitVoid(m) \/ Refund(m)
  BY DEF Paying, PaymentHandles
<1>2. /\ m \in sent /\ m \in Messages /\ m.order = o
      /\ UNCHANGED << orchestratorVars, kitchenVars, dispatchVars >>
      /\ UNCHANGED << notices, available, reserved, reservation, ktx,
                      assignment, delivery, timers >>
  BY DEF SentFor, Paying, IInv, TypeOK, MessagingTypeOK, orchestratorVars, kitchenVars,
     dispatchVars
<1>3. Caused(m)
  BY <1>2 DEF IInv, MessagesHaveCauses
<1>4. payment[o] # "NONE" => reservation[o] # "NONE"
  BY DEF IInv, StepsInOrder
<1>5. CASE Authorize(m) \/ AnswerDeclined(m) \/ AuthorizeAgain(m)
  <2>1. m.kind = "command" /\ m.step = "AuthorizePayment" /\ reservation[o] # "NONE"
    BY <1>2, <1>3, <1>5 DEF Authorize, AnswerDeclined, AuthorizeAgain, Arrives, Caused, Says
  <2>2. PICK s \in {"ok", "failed"} : Consume(m, {Reply(m, s)})
    BY <1>5 DEF Authorize, AnswerDeclined, AuthorizeAgain
  <2>3. AnsweredOnce' /\ AnswersHaveCommands'
    BY <1>2, <2>1, <2>2, ParticipantConsumes DEF IInv, SagaSteps
  <2>4. CASE Authorize(m)
    <3>1. sent' = sent \cup {Reply(m, "ok")}
      BY <2>4 DEF Authorize, Consume
    <3>2. payment'[o] # "NONE"
      BY <1>2, <2>4 DEF Authorize, SetPayment, IInv, TypeOK, PaymentTypeOK
    <3>3. Caused(Reply(m, "ok"))'
      BY <1>2, <2>1, <3>2, ReplyFields DEF Caused, Says
    <3>4. TablesInv'
      BY <1>2, <2>1, <2>4, <3>1, <3>3, SetPaymentKeeps DEF Authorize, PaymentStatus
    <3>5. QED
      BY <2>3, <3>4, Parts
  <2>5. CASE AnswerDeclined(m) \/ AuthorizeAgain(m)
    <3>1. UNCHANGED << payment, ptx >>
      BY <2>5 DEF AnswerDeclined, AuthorizeAgain
    <3>2. PICK r \in {"ok", "failed"} :
              sent' = sent \cup {Reply(m, r)} /\ (r = "ok" => payment[o] # "NONE")
      BY <1>2, <2>5 DEF AnswerDeclined, AuthorizeAgain, Consume
    <3>3. Caused(Reply(m, r))'
      BY <1>2, <2>1, <3>1, <3>2, ReplyFields DEF Caused, Says
    <3>4. TablesInv'
      BY <1>2, <3>1, <3>2, <3>3, TablesKept
    <3>5. QED
      BY <2>3, <3>4, Parts
  <2>6. QED
    BY <1>5, <2>4, <2>5
<1>6. CASE Capture(m)
  <2>1. /\ m.kind = "command" /\ m.step = "CapturePayment" /\ payment[o] # "NONE"
        /\ Consume(m, {Reply(m, "ok")}) /\ sent' = sent \cup {Reply(m, "ok")}
        /\ SetPayment(o, "CAPTURED") /\ ptx' = ptx
    BY <1>2, <1>6 DEF Capture, Arrives, Consume
  <2>2. delivery[o] = "DELIVERED"
    BY <1>2, <1>3, <2>1 DEF Caused
  <2>3. Caused(Reply(m, "ok"))'
    BY <1>2, <2>1, <2>2, ReplyFields DEF Caused, Says
  <2>4. TablesInv'
    BY <1>2, <1>4, <2>1, <2>2, <2>3, SetPaymentKeeps DEF PaymentStatus
  <2>5. AnsweredOnce' /\ AnswersHaveCommands'
    BY <1>2, <2>1, ParticipantConsumes DEF IInv, SagaSteps
  <2>6. QED
    BY <2>4, <2>5, Parts
<1>7. CASE BeginVoid(m)
  <2>1. TablesInv'
    BY <1>2, <1>7, BeginVoidKeeps
  <2>2. AnsweredOnce' /\ AnswersHaveCommands'
    BY <1>7, Silent DEF BeginVoid
  <2>3. QED
    BY <2>1, <2>2, Parts
<1>8. CASE NothingToVoid(m)
  <2>1. TablesInv'
    BY <1>2, <1>8, TablesKept DEF NothingToVoid, Consume
  <2>2. AnsweredOnce' /\ AnswersHaveCommands'
    BY <1>2, <1>8, ParticipantConsumes DEF NothingToVoid, Arrives, IInv, Compensations
  <2>3. QED
    BY <2>1, <2>2, Parts
<1>9. CASE CommitVoid(m)
  <2>1. /\ m.step = "VoidPayment" /\ payment[o] # "NONE" /\ Consume(m, {})
        /\ SetPayment(o, "VOIDED") /\ ptx' = ptx \ {m} /\ sent' = sent
    BY <1>2, <1>9 DEF CommitVoid, Consume, IInv, TransactionsHaveCauses
  <2>2. m.kind = "command"
    BY <1>2, <2>1 DEF Messages, SagaSteps
  <2>3. "OrderCancelled" \in notices[o]
    BY <1>2, <1>3, <2>1 DEF Caused
  <2>4. TablesInv'
    BY <1>2, <1>4, <2>1, <2>3, SetPaymentKeeps DEF PaymentStatus
  <2>5. AnsweredOnce' /\ AnswersHaveCommands'
    BY <1>2, <2>1, <2>2, ParticipantConsumes DEF IInv, Compensations
  <2>6. QED
    BY <2>4, <2>5, Parts
<1>10. CASE Refund(m)
  <2>1. /\ m.step = "RefundPayment" /\ m.kind = "command" /\ Consume(m, {})
        /\ ptx' = ptx /\ sent' = sent
    BY <1>10 DEF Refund, Arrives, Consume
  <2>2. TablesInv'
    <3>1. CASE payment[o] = "NONE"
      <4>1. payment' = payment
        BY <1>2, <1>10, <3>1 DEF Refund, IInv, TypeOK, PaymentTypeOK
      <4>2. QED
        BY <1>2, <2>1, <4>1, TablesKept
    <3>2. CASE payment[o] # "NONE"
      <4>1. SetPayment(o, "REFUNDED")
        BY <1>2, <1>10, <3>2 DEF Refund, SetPayment
      <4>2. QED
        BY <1>2, <1>4, <2>1, <3>2, <4>1, SetPaymentKeeps DEF PaymentStatus
    <3>3. QED
      BY <3>1, <3>2
  <2>3. AnsweredOnce' /\ AnswersHaveCommands'
    BY <1>2, <2>1, ParticipantConsumes DEF IInv, Compensations
  <2>4. QED
    BY <2>2, <2>3, Parts
<1>11. CASE Decline(m)
  <2>1. TablesInv'
    BY <1>2, <1>11, DeclineKeeps
  <2>2. AnsweredOnce' /\ AnswersHaveCommands'
    BY <1>11, Silent DEF Decline
  <2>3. QED
    BY <2>1, <2>2, Parts
<1>12. QED
  BY <1>1, <1>5, <1>6, <1>7, <1>8, <1>9, <1>10, <1>11

(***************************************************************************)
(* The dispatch service.                                                   *)
(***************************************************************************)

(* A timer is armed, fires, fails or is forgotten.                          *)
LEMMA TimersKeep ==
    ASSUME IInv, UNCHANGED << msgVars, orchestratorVars, kitchenVars, paymentVars >>,
           UNCHANGED << assignment, delivery >>,
           \A o \in Orders, k \in Timers :
               timers'[o][k] = "open" => timers[o][k] = "open" \/ delivery[o] # "NONE"
    PROVE  TablesInv' /\ AnsweredOnce' /\ AnswersHaveCommands'
<1>1. UNCHANGED << sent, notices, available, reserved, reservation, ktx, payment, ptx >>
  BY DEF msgVars, orchestratorVars, kitchenVars, paymentVars
<1>2. TransactionsHaveCauses'
  BY <1>1 DEF IInv, TransactionsHaveCauses
<1>3. /\ MessagesHaveCauses' /\ TablesAgree' /\ StepsInOrder' /\ Balance'
      /\ ChargedOnlyAfterDelivery' /\ UndoneOnlyWhenCancelled'
  BY <1>1 DEF IInv, MessagesHaveCauses, Caused, TablesAgree, StepsInOrder, Balance,
     ChargedOnlyAfterDelivery, UndoneOnlyWhenCancelled
<1>4. QED
  BY <1>2, <1>3, Silent DEF TablesInv

(* A courier takes the order.                                               *)
LEMMA AssignKeeps ==
    ASSUME IInv, TypeOK', NEW m \in sent, Assign(m),
           UNCHANGED << orchestratorVars, kitchenVars, paymentVars >>
    PROVE  TablesInv'
<1> DEFINE o == m.order
<1>1. /\ m \in Messages /\ o \in Orders /\ m.kind = "command" /\ m.step = "AssignCourier"
      /\ assignment[o] = "NONE" /\ sent' = sent \cup {Reply(m, "ok")}
      /\ assignment' = [assignment EXCEPT ![o] = "ACCEPTED"]
      /\ delivery' = [delivery EXCEPT ![o] = "ASSIGNED"]
      /\ timers' = [timers EXCEPT ![o][1] = "armed"]
  BY DEF IInv, TypeOK, MessagingTypeOK, Messages, Assign, Arrives, Consume, SetTimer
<1>2. /\ assignment \in [Orders -> {"NONE", "ACCEPTED", "CANCELLED"}]
      /\ delivery \in [Orders -> {"NONE", "ASSIGNED", "DELIVERED"}]
      /\ timers \in [Orders -> [Timers -> TimerStatus]]
  BY DEF IInv, TypeOK, DispatchTypeOK
<1>3. UNCHANGED << notices, available, reserved, reservation, ktx, payment, ptx >>
  BY DEF orchestratorVars, kitchenVars, paymentVars
<1>4. /\ payment[o] # "NONE" /\ reservation[o] \in {"CONFIRMED", "RELEASED"}
      /\ delivery[o] = "NONE"
  BY <1>1 DEF IInv, MessagesHaveCauses, Caused, Says, TablesAgree
<1>5. Grows
  BY <1>1, <1>2, <1>3, <1>4 DEF Grows
<1>6. Caused(Reply(m, "ok"))'
  BY <1>1, <1>3, <1>4, ReplyFields DEF Caused, Says
<1>7. MessagesHaveCauses'
  BY <1>1, <1>3, <1>5, <1>6, MessagesKept DEF IInv
<1>8. TransactionsHaveCauses'
  <2>1. \A p \in Orders, k \in Timers :
            timers'[p][k] = "open" => delivery'[p] # "NONE"
    BY <1>1, <1>2 DEF IInv, TransactionsHaveCauses
  <2>2. QED
    BY <1>1, <1>3, <2>1 DEF IInv, TransactionsHaveCauses
<1>9. TablesAgree'
  BY <1>1, <1>2, <1>3 DEF IInv, TablesAgree
<1>10. StepsInOrder'
  BY <1>1, <1>2, <1>3, <1>4 DEF IInv, StepsInOrder
<1>11. ChargedOnlyAfterDelivery' /\ UndoneOnlyWhenCancelled' /\ Balance'
  BY <1>3, <1>5 DEF IInv, ChargedOnlyAfterDelivery, UndoneOnlyWhenCancelled, Balance, Grows
<1>12. QED
  BY <1>7, <1>8, <1>9, <1>10, <1>11 DEF TablesInv

(* An assignment is compensated.                                            *)
LEMMA UnassignKeeps ==
    ASSUME IInv, NEW m \in sent, Unassign(m),
           UNCHANGED << orchestratorVars, kitchenVars, paymentVars >>
    PROVE  TablesInv'
<1>1. /\ m.order \in Orders /\ sent' = sent /\ UNCHANGED << delivery, timers >>
      /\ assignment' = [assignment EXCEPT ![m.order] =
                           IF @ = "ACCEPTED" THEN "CANCELLED" ELSE @]
      /\ assignment \in [Orders -> {"NONE", "ACCEPTED", "CANCELLED"}]
  BY DEF IInv, TypeOK, MessagingTypeOK, DispatchTypeOK, Messages, Unassign, Consume
<1>2. UNCHANGED << notices, available, reserved, reservation, ktx, payment, ptx >>
  BY DEF orchestratorVars, kitchenVars, paymentVars
<1>3. \A o \in Orders : assignment'[o] = "NONE" <=> assignment[o] = "NONE"
  BY <1>1
<1>4. /\ MessagesHaveCauses' /\ TransactionsHaveCauses' /\ Balance'
      /\ ChargedOnlyAfterDelivery' /\ UndoneOnlyWhenCancelled'
  BY <1>1, <1>2 DEF IInv, MessagesHaveCauses, Caused, TransactionsHaveCauses, Balance,
     ChargedOnlyAfterDelivery, UndoneOnlyWhenCancelled
<1>5. TablesAgree' /\ StepsInOrder'
  BY <1>1, <1>2, <1>3 DEF IInv, TablesAgree, StepsInOrder
<1>6. QED
  BY <1>4, <1>5 DEF TablesInv

(* A timer completes the delivery.                                          *)
LEMMA DeliveryKeeps ==
    ASSUME IInv, TypeOK', NEW o \in Orders, NEW k \in Timers, CompleteDelivery(o, k),
           UNCHANGED << orchestratorVars, kitchenVars, paymentVars >>
    PROVE  TablesInv' /\ AnsweredOnce' /\ AnswersHaveCommands'
<1>1. /\ timers[o][k] = "open" /\ sent' = sent \cup {Delivered(o, k)}
      /\ inbox' = inbox /\ assignment' = assignment
      /\ delivery' = [delivery EXCEPT ![o] = "DELIVERED"]
      /\ timers' = [timers EXCEPT ![o][k] = "done"]
  BY DEF CompleteDelivery, SetTimer
<1>2. /\ delivery \in [Orders -> {"NONE", "ASSIGNED", "DELIVERED"}]
      /\ timers \in [Orders -> [Timers -> TimerStatus]]
      /\ delivery[o] # "NONE"
  BY <1>1 DEF IInv, TypeOK, DispatchTypeOK, TransactionsHaveCauses
<1>3. UNCHANGED << notices, available, reserved, reservation, ktx, payment, ptx >>
  BY DEF orchestratorVars, kitchenVars, paymentVars
<1>4. Grows
  BY <1>1, <1>2, <1>3 DEF Grows
<1>5. /\ Caused(Delivered(o, k))'
      /\ Delivered(o, k).kind = "event" /\ Delivered(o, k).step = "DeliveryDelivered"
  BY <1>1, <1>2 DEF Delivered, Caused, Says
<1>6. MessagesHaveCauses'
  BY <1>1, <1>3, <1>4, <1>5, MessagesKept DEF IInv
<1>7. TransactionsHaveCauses'
  BY <1>1, <1>2, <1>3 DEF IInv, TransactionsHaveCauses
<1>8. TablesAgree' /\ StepsInOrder'
  BY <1>1, <1>2, <1>3 DEF IInv, TablesAgree, StepsInOrder
<1>9. ChargedOnlyAfterDelivery' /\ UndoneOnlyWhenCancelled' /\ Balance'
  BY <1>1, <1>2, <1>3 DEF IInv, ChargedOnlyAfterDelivery, UndoneOnlyWhenCancelled, Balance
<1>10. AnsweredOnce' /\ AnswersHaveCommands'
  BY <1>1, <1>5, NothingAnswered DEF IInv
<1>11. QED
  BY <1>6, <1>7, <1>8, <1>9, <1>10 DEF TablesInv

LEMMA DispatchingKeeps ==
    ASSUME IInv, TypeOK', NEW o \in Orders, Dispatching(o)
    PROVE  IInv'
<1>1. UNCHANGED << orchestratorVars, kitchenVars, paymentVars >>
  BY DEF Dispatching
<1>2. ASSUME NEW m \in SentFor(o), Assign(m) \/ NoCourier(m) \/ Unassign(m)
      PROVE  IInv'
  <2>1. m \in sent /\ m \in Messages /\ m.order = o /\ Caused(m)
    BY DEF SentFor, IInv, TypeOK, MessagingTypeOK, MessagesHaveCauses
  <2>2. CASE Assign(m)
    <3>1. TablesInv'
      BY <1>1, <2>1, <2>2, AssignKeeps
    <3>2. AnsweredOnce' /\ AnswersHaveCommands'
      BY <2>1, <2>2, ParticipantConsumes DEF Assign, Arrives, IInv, SagaSteps
    <3>3. QED
      BY <3>1, <3>2, Parts
  <2>3. CASE NoCourier(m)
    <3>1. /\ m.kind = "command" /\ m.step = "AssignCourier"
          /\ sent' = sent \cup {Reply(m, "failed")}
      BY <2>3 DEF NoCourier, Arrives, Consume
    <3>2. UNCHANGED << notices, available, reserved, reservation, ktx, payment, ptx,
                       assignment, delivery, timers >>
      BY <1>1, <2>3 DEF NoCourier, orchestratorVars, kitchenVars, paymentVars, dispatchVars
    <3>3. Caused(Reply(m, "failed"))'
      BY <2>1, <3>1, <3>2, ReplyFields DEF Caused, Says
    <3>4. TablesInv'
      BY <3>1, <3>2, <3>3, TablesKept
    <3>5. AnsweredOnce' /\ AnswersHaveCommands'
      BY <2>1, <2>3, ParticipantConsumes DEF NoCourier, Arrives, IInv, SagaSteps
    <3>6. QED
      BY <3>4, <3>5, Parts
  <2>4. CASE Unassign(m)
    <3>1. TablesInv'
      BY <1>1, <2>1, <2>4, UnassignKeeps
    <3>2. AnsweredOnce' /\ AnswersHaveCommands'
      BY <2>1, <2>4, ParticipantConsumes DEF Unassign, Arrives, IInv, Compensations
    <3>3. QED
      BY <3>1, <3>2, Parts
  <2>5. QED
    BY <1>2, <2>2, <2>3, <2>4
<1>3. ASSUME NEW k \in Timers, TimerFires(o, k)
      PROVE  IInv'
  <2>1. \A p \in Orders, j \in Timers :
            timers'[p][j] = "open" => timers[p][j] = "open" \/ delivery[p] # "NONE"
    BY <1>3 DEF TimerFires, SetTimer, IInv, TypeOK, DispatchTypeOK
  <2>2. QED
    BY <1>1, <1>3, <2>1, TimersKeep, Parts DEF TimerFires
<1>4. ASSUME NEW k \in Timers, CompleteDelivery(o, k)
      PROVE  IInv'
  BY <1>1, <1>4, DeliveryKeeps, Parts
<1>5. QED
  BY <1>2, <1>3, <1>4 DEF Dispatching, DispatchHandles

LEMMA TroubleKeeps ==
    ASSUME IInv, TypeOK', Trouble
    PROVE  IInv'
<1>1. UNCHANGED << orchestratorVars, kitchenVars, paymentVars >>
  BY DEF Trouble
<1>2. UNCHANGED << msgVars, assignment, delivery >>
  BY DEF Trouble, DispatchFaults, Redelivered, CompletionFails, Restart
<1>3. timers \in [Orders -> [Timers -> TimerStatus]] /\ inbox \subseteq Messages
  BY DEF IInv, TypeOK, DispatchTypeOK, MessagingTypeOK
<1>4. \A p \in Orders, j \in Timers : timers'[p][j] = "open" => timers[p][j] = "open"
  <2>1. ASSUME NEW m \in inbox, NEW k \in Timers, Redelivered(m, k)
        PROVE  \A p \in Orders, j \in Timers :
                   timers'[p][j] = "open" => timers[p][j] = "open"
    BY <1>3, <2>1 DEF Redelivered, SetTimer, Messages
  <2>2. ASSUME NEW o \in Orders, NEW k \in Timers, CompletionFails(o, k)
        PROVE  \A p \in Orders, j \in Timers :
                   timers'[p][j] = "open" => timers[p][j] = "open"
    BY <1>3, <2>2 DEF CompletionFails, SetTimer
  <2>3. CASE Restart
    BY <2>3 DEF Restart
  <2>4. QED
    BY <2>1, <2>2, <2>3 DEF Trouble, DispatchFaults
<1>5. QED
  BY <1>1, <1>2, <1>4, TimersKeep, Parts

(***************************************************************************)
(* The order service.                                                      *)
(***************************************************************************)

ParticipantVars == << kitchenVars, paymentVars, dispatchVars >>

(* A step of the order service sends commands that have their causes,      *)
(* consumes no command, and announces an ending only when it was reached.  *)
LEMMA SagaStepKeeps ==
    ASSUME IInv, TypeOK', UNCHANGED ParticipantVars,
           sent \subseteq sent', inbox \subseteq inbox',
           \A m \in sent' \ sent :
               /\ m.kind = "command"
               /\ m.step = "ReservePortions" => m.from = 0
               /\ Caused(m)',
           \A m \in inbox' \ inbox : m.kind # "command",
           \A o \in Orders :
               /\ notices[o] \subseteq notices'[o]
               /\ "OrderRejected" \in notices'[o] \ notices[o] =>
                     Reply(Command("ReservePortions", o, 0), "failed") \in sent
               /\ "OrderCompleted" \in notices'[o] \ notices[o] =>
                     delivery[o] = "DELIVERED"
    PROVE  IInv'
<1>1. UNCHANGED << available, reserved, reservation, ktx, payment, ptx,
                   assignment, delivery, timers >>
  BY DEF ParticipantVars, kitchenVars, paymentVars, dispatchVars
<1>2. Grows
  BY <1>1 DEF Grows
<1>3. MessagesHaveCauses'
  BY <1>1, <1>2, MessagesKept DEF IInv
<1>4. TransactionsHaveCauses'
  BY <1>1 DEF IInv, TransactionsHaveCauses
<1>5. TablesAgree'
  BY <1>1 DEF IInv, TablesAgree
<1>6. StepsInOrder' /\ Balance'
  BY <1>1 DEF IInv, StepsInOrder, Balance
<1>7. ChargedOnlyAfterDelivery' /\ UndoneOnlyWhenCancelled'
  BY <1>1 DEF IInv, ChargedOnlyAfterDelivery, UndoneOnlyWhenCancelled
<1>8. AnsweredOnce' /\ AnswersHaveCommands'
  BY NothingAnswered DEF IInv
<1>9. QED
  BY <1>3, <1>4, <1>5, <1>6, <1>7, <1>8, Parts DEF TablesInv

(* What a handler may announce in the step it commits.                      *)
Announces(t) ==
    \A o \in Orders :
        /\ notices[o] \subseteq notices'[o]
        /\ "OrderRejected" \in notices'[o] \ notices[o] =>
              o = t.msg.order /\ IsReply(t, "ReservePortions", "failed")
        /\ "OrderCompleted" \in notices'[o] \ notices[o] =>
              o = t.msg.order /\ t.msg.step = "CapturePayment"

(* The commit of a handler that writes.                                     *)
LEMMA CommitKeeps ==
    ASSUME IInv, TypeOK', UNCHANGED ParticipantVars,
           NEW t \in otx, t.msg.kind # "command",
           NEW out, CommitMessage(t, out),
           Announces(t),
           \A c \in out : /\ c.kind = "command" /\ c.step # "ReservePortions"
                          /\ Caused(c)'
    PROVE  IInv'
<1> DEFINE o == t.msg.order
<1>1. /\ t.msg \in sent /\ t.msg \in Messages /\ o \in Orders /\ Caused(t.msg)
      /\ inbox' = inbox \cup {t.msg} /\ sent' = sent \cup out
  BY DEF CommitMessage, Consume, Pending, IInv, TypeOK, MessagingTypeOK,
     MessagesHaveCauses, Messages
<1>2. IsReply(t, "ReservePortions", "failed") =>
          Reply(Command("ReservePortions", o, 0), "failed") \in sent
  <2>1. HAVE IsReply(t, "ReservePortions", "failed")
  <2>2. t.msg.from = 0
    BY <1>1, <2>1 DEF IsReply, IInv, AnswersHaveCommands
  <2>3. t.msg = Reply(Command("ReservePortions", o, 0), "failed")
    BY <1>1, <2>1, <2>2 DEF IsReply, Messages, Reply, Command
  <2>4. QED
    BY <1>1, <2>3
<1>3. t.msg.step = "CapturePayment" => delivery[o] = "DELIVERED"
  BY <1>1 DEF Caused
<1>4. \A p \in Orders :
          /\ notices[p] \subseteq notices'[p]
          /\ "OrderRejected" \in notices'[p] \ notices[p] =>
                Reply(Command("ReservePortions", p, 0), "failed") \in sent
          /\ "OrderCompleted" \in notices'[p] \ notices[p] => delivery[p] = "DELIVERED"
  BY <1>2, <1>3 DEF Announces
<1>5. QED
  BY <1>1, <1>4, SagaStepKeeps

(* A handler that opens, or commits and writes nothing.                     *)
LEMMA ReadingKeeps ==
    ASSUME IInv, TypeOK', UNCHANGED ParticipantVars, UNCHANGED << sent, notices >>,
           inbox \subseteq inbox', \A m \in inbox' \ inbox : m.kind # "command"
    PROVE  IInv'
BY SagaStepKeeps

(* The fields of a command.                                                 *)
LEMMA CommandFields ==
    ASSUME NEW step, NEW o, NEW k
    PROVE  LET c == Command(step, o, k) IN
           c.kind = "command" /\ c.step = step /\ c.order = o /\ c.from = k
BY DEF Command

(* A forward command a reply or the delivery leads to has its causes.       *)
LEMMA SendsCaused ==
    ASSUME IInv, UNCHANGED ParticipantVars, NEW t \in otx, t.msg \in sent, NEW step,
           \/ IsReply(t, "ReservePortions", "ok") /\ step = "AuthorizePayment"
           \/ IsReply(t, "AuthorizePayment", "ok") /\ step = "AcceptOrder"
           \/ IsReply(t, "AcceptOrder", "ok") /\ step = "AssignCourier"
           \/ t.msg.kind = "event" /\ step = "CapturePayment"
    PROVE  \A c \in Sends(t, step) :
               c.kind = "command" /\ c.step # "ReservePortions" /\ Caused(c)'
<1> DEFINE c == Command(step, t.msg.order, t.msg.from)
<1>1. Caused(t.msg) /\ t.msg \in Messages
  BY DEF IInv, MessagesHaveCauses, TypeOK, MessagingTypeOK
<1>2. t.msg.kind = "event" => t.msg.step = "DeliveryDelivered"
  BY <1>1 DEF Messages
<1>3. UNCHANGED << reservation, payment, delivery >>
  BY DEF ParticipantVars, kitchenVars, paymentVars, dispatchVars
<1>4. c.kind = "command" /\ c.step = step /\ c.order = t.msg.order
  BY CommandFields
<1> HIDE DEF c
<1>5. Caused(c)'
  BY <1>1, <1>2, <1>3, <1>4 DEF Caused, Says, IsReply
<1>6. QED
  BY <1>4, <1>5 DEF Sends, c

(* Compensations follow the announcement that the order is cancelled.       *)
LEMMA UndoCaused ==
    ASSUME NEW t, NEW resources \in SUBSET Resources,
           "OrderCancelled" \in notices'[t.msg.order]
    PROVE  \A c \in Undo(t, resources) :
               c.kind = "command" /\ c.step # "ReservePortions" /\ Caused(c)'
<1>1. ASSUME NEW step \in Compensations, step # "RefundPayment"
      PROVE  LET c == Command(step, t.msg.order, t.msg.from) IN
             c.kind = "command" /\ c.step # "ReservePortions" /\ Caused(c)'
  <2> DEFINE c == Command(step, t.msg.order, t.msg.from)
  <2>1. c.kind = "command" /\ c.step = step /\ c.order = t.msg.order
    BY CommandFields
  <2> HIDE DEF c
  <2>2. c.kind = "command" /\ c.step # "ReservePortions" /\ Caused(c)'
    BY <1>1, <2>1 DEF Caused, Says, Compensations
  <2>3. QED
    BY <2>2 DEF c
<1>2. ASSUME NEW c \in Undo(t, resources)
      PROVE  \E step \in Compensations \ {"RefundPayment"} :
                 c = Command(step, t.msg.order, t.msg.from)
  <2>1. PICK r \in resources \cap t.acquired :
            c = Command(CASE r = "assignment"  -> "UnassignCourier"
                          [] r = "payment"     -> "VoidPayment"
                          [] r = "reservation" -> "ReleasePortions",
                        t.msg.order, t.msg.from)
    BY DEF Undo
  <2>2. CASE r = "assignment"
    BY <2>1, <2>2 DEF Compensations
  <2>3. CASE r = "payment"
    BY <2>1, <2>3 DEF Compensations
  <2>4. CASE r = "reservation"
    BY <2>1, <2>4 DEF Compensations
  <2>5. QED
    BY <2>2, <2>3, <2>4 DEF Resources
<1>3. QED
  BY <1>1, <1>2

LEMMA CommitReplyKeeps ==
    ASSUME IInv, TypeOK', UNCHANGED ParticipantVars, NEW t \in otx, CommitReply(t)
    PROVE  IInv'
<1> DEFINE o == t.msg.order
<1>1. /\ o \in Orders /\ t.msg \in sent
      /\ notices \in [Orders -> SUBSET Notices]
  <2>1. t.msg \in sent
    BY DEF CommitReply, PortionsReserved, PaymentAuthorized, OrderAccepted, CourierAssigned,
       PaymentCaptured, Reject, Compensate, IgnoreReply, OnDelivered, IgnoreDelivered,
       CommitMessage, Consume, Pending
  <2>2. QED
    BY <2>1 DEF IInv, TypeOK, MessagingTypeOK, OrchestratorTypeOK, Messages
<1>2. CASE PortionsReserved(t)
  <2>1. /\ t.msg.kind # "command"
        /\ CommitMessage(t, Sends(t, "AuthorizePayment"))
    BY <1>2 DEF PortionsReserved, IsReply
  <2>2. Announces(t)
    BY <1>1, <1>2, <2>1 DEF PortionsReserved, Write, Announces
  <2>3. \A c \in Sends(t, "AuthorizePayment") :
            c.kind = "command" /\ c.step # "ReservePortions" /\ Caused(c)'
    BY <1>1, <1>2, SendsCaused DEF PortionsReserved
  <2>4. QED
    BY <2>1, <2>2, <2>3, CommitKeeps
<1>3. CASE PaymentAuthorized(t)
  <2>1. /\ t.msg.kind # "command"
        /\ CommitMessage(t, Sends(t, "AcceptOrder"))
    BY <1>3 DEF PaymentAuthorized, IsReply
  <2>2. Announces(t)
    BY <1>1, <1>3, <2>1 DEF PaymentAuthorized, Write, Announces
  <2>3. \A c \in Sends(t, "AcceptOrder") :
            c.kind = "command" /\ c.step # "ReservePortions" /\ Caused(c)'
    BY <1>1, <1>3, SendsCaused DEF PaymentAuthorized
  <2>4. QED
    BY <2>1, <2>2, <2>3, CommitKeeps
<1>4. CASE OrderAccepted(t)
  <2>1. /\ t.msg.kind # "command"
        /\ CommitMessage(t, Sends(t, "AssignCourier"))
    BY <1>4 DEF OrderAccepted, IsReply
  <2>2. Announces(t)
    BY <1>1, <1>4, <2>1 DEF OrderAccepted, Write, Announces
  <2>3. \A c \in Sends(t, "AssignCourier") :
            c.kind = "command" /\ c.step # "ReservePortions" /\ Caused(c)'
    BY <1>1, <1>4, SendsCaused DEF OrderAccepted
  <2>4. QED
    BY <2>1, <2>2, <2>3, CommitKeeps
<1>5. CASE CourierAssigned(t)
  <2>1. /\ t.msg.kind # "command"
        /\ CommitMessage(t, {})
    BY <1>5 DEF CourierAssigned, IsReply
  <2>2. Announces(t)
    BY <1>1, <1>5, <2>1 DEF CourierAssigned, Write, Announces
  <2>3. QED
    BY <2>1, <2>2, CommitKeeps
<1>6. CASE PaymentCaptured(t)
  <2>1. /\ t.msg.kind # "command" /\ t.msg.step = "CapturePayment"
        /\ CommitMessage(t, {})
    BY <1>6 DEF PaymentCaptured, IsReply
  <2>2. Announces(t)
    BY <1>1, <1>6, <2>1 DEF PaymentCaptured, Write, Announces
  <2>3. QED
    BY <2>1, <2>2, CommitKeeps
<1>7. CASE Reject(t)
  <2>1. /\ t.msg.kind # "command" /\ IsReply(t, "ReservePortions", "failed")
        /\ CommitMessage(t, {})
    BY <1>7 DEF Reject, IsReply
  <2>2. Announces(t)
    BY <1>1, <1>7, <2>1 DEF Reject, Write, Announces
  <2>3. QED
    BY <2>1, <2>2, CommitKeeps
<1>8. CASE Compensate(t)
  <2>1. /\ t.msg.kind # "command"
        /\ CommitMessage(t, Undo(t, Resources))
    BY <1>8 DEF Compensate, IsReply
  <2>2. Announces(t)
    BY <1>1, <1>8, <2>1 DEF Compensate, Write, Announces
  <2>3. \A c \in Undo(t, Resources) :
            c.kind = "command" /\ c.step # "ReservePortions" /\ Caused(c)'
    BY <1>1, <1>8, UndoCaused DEF Compensate, Write
  <2>4. QED
    BY <2>1, <2>2, <2>3, CommitKeeps
<1>9. CASE OnDelivered(t)
  <2>1. /\ t.msg.kind # "command"
        /\ CommitMessage(t, Sends(t, "CapturePayment"))
    BY <1>9 DEF OnDelivered, IsReply
  <2>2. Announces(t)
    BY <1>1, <1>9, <2>1 DEF OnDelivered, Write, Announces
  <2>3. \A c \in Sends(t, "CapturePayment") :
            c.kind = "command" /\ c.step # "ReservePortions" /\ Caused(c)'
    BY <1>1, <1>9, SendsCaused DEF OnDelivered
  <2>4. QED
    BY <2>1, <2>2, <2>3, CommitKeeps
<1>10. CASE IgnoreReply(t) \/ IgnoreDelivered(t)
  <2>1. /\ t.msg.kind # "command" /\ notices' = notices
        /\ inbox' = inbox \cup {t.msg} /\ sent' = sent
    BY <1>10 DEF IgnoreReply, IgnoreDelivered, CommitMessage, Consume
  <2>2. QED
    BY <2>1, ReadingKeeps
<1>11. QED
  BY <1>2, <1>3, <1>4, <1>5, <1>6, <1>7, <1>8, <1>9, <1>10 DEF CommitReply

LEMMA OrchestratingKeeps ==
    ASSUME IInv, TypeOK', NEW o \in Orders, Orchestrating(o)
    PROVE  IInv'
<1>1. UNCHANGED ParticipantVars
  BY DEF Orchestrating, ParticipantVars
<1>2. ASSUME NEW m \in SentFor(o), Receive(m)
      PROVE  IInv'
  BY <1>1, <1>2, ReadingKeeps DEF Receive, Begin
<1>3. QED
  BY <1>1, <1>2, CommitReplyKeeps DEF Orchestrating, OrchestratorHandles

LEMMA PlaceKeeps ==
    ASSUME IInv, TypeOK', NEW o \in Orders, PlaceOrder(o), UNCHANGED ParticipantVars
    PROVE  IInv'
<1> DEFINE c == Command("ReservePortions", o, 0)
<1>1. c.kind = "command" /\ c.step = "ReservePortions" /\ c.from = 0
  BY CommandFields
<1>2. sent' = sent \cup {c} /\ UNCHANGED << inbox, notices >>
  BY DEF PlaceOrder
<1> HIDE DEF c
<1>3. Caused(c)'
  BY <1>1 DEF Caused, Says
<1>4. QED
  BY <1>1, <1>2, <1>3, SagaStepKeeps

LEMMA CommitCancelKeeps ==
    ASSUME IInv, TypeOK', NEW t \in otx, CommitCancel(t), UNCHANGED ParticipantVars
    PROVE  IInv'
<1> DEFINE o == t.msg.order
<1>1. o \in Orders /\ notices \in [Orders -> SUBSET Notices]
  BY DEF IInv, TypeOK, OrchestratorTypeOK, OrderTransactions, Messages, CancelRequests
<1>2. /\ sent' = sent \cup Undo(t, {"payment", "reservation"}) /\ inbox' = inbox
      /\ notices' = [notices EXCEPT ![o] = @ \cup {"CANCELLED"} \cup {"OrderCancelled"}]
  BY DEF CommitCancel, Write
<1>3. \A c \in Undo(t, {"payment", "reservation"}) :
          c.kind = "command" /\ c.step # "ReservePortions" /\ Caused(c)'
  BY <1>1, <1>2, UndoCaused DEF Resources
<1>4. \A p \in Orders :
          /\ notices[p] \subseteq notices'[p]
          /\ "OrderRejected" \notin notices'[p] \ notices[p]
          /\ "OrderCompleted" \notin notices'[p] \ notices[p]
  BY <1>1, <1>2
<1>5. QED
  BY <1>2, <1>3, <1>4, SagaStepKeeps

LEMMA CustomersKeep ==
    ASSUME IInv, TypeOK', Customers
    PROVE  IInv'
<1>1. UNCHANGED ParticipantVars
  BY DEF Customers, ParticipantVars
<1>2. ASSUME NEW o \in Orders, RequestCancel(o)
      PROVE  IInv'
  BY <1>1, <1>2, ReadingKeeps DEF RequestCancel, Begin
<1>3. ASSUME NEW t \in otx, ReadSaga(t)
      PROVE  IInv'
  BY <1>1, <1>3, ReadingKeeps DEF ReadSaga
<1>4. QED
  BY <1>1, <1>2, <1>3, PlaceKeeps, CommitCancelKeeps DEF Customers, CustomerActs

(***************************************************************************)
(* The invariant, and what follows from it.                                *)
(***************************************************************************)

LEMMA InvariantInitially == Init => IInv
<1>1. HAVE Init
<1>2. TypeOK
  BY <1>1, InitTypes
<1>3. sent = {} /\ inbox = {} /\ ktx = {} /\ ptx = {}
  BY <1>1 DEF Init, MessagingInit, KitchenInit, PaymentInit
<1>4. \A o \in Orders : /\ reservation[o] = "NONE" /\ payment[o] = "NONE"
                        /\ assignment[o] = "NONE" /\ delivery[o] = "NONE"
                        /\ notices[o] = {} /\ \A k \in Timers : timers[o][k] = "idle"
  BY <1>1 DEF Init, OrchestratorInit, KitchenInit, PaymentInit, DispatchInit
<1>5. Balance
  <2>1. \A d \in Drops : available[d] = Total[d] /\ reserved[d] = 0 /\ Total[d] \in Nat
    BY <1>1, InventoryAssumption DEF Init, KitchenInit
  <2>2. QED
    BY <2>1 DEF Balance
<1>6. MessagesHaveCauses /\ AnswersHaveCommands /\ AnsweredOnce
  BY <1>3 DEF MessagesHaveCauses, AnswersHaveCommands, AnsweredOnce
<1>7. TransactionsHaveCauses /\ TablesAgree
  BY <1>3, <1>4 DEF TransactionsHaveCauses, TablesAgree
<1>8. StepsInOrder /\ ChargedOnlyAfterDelivery /\ UndoneOnlyWhenCancelled
  BY <1>4 DEF StepsInOrder, ChargedOnlyAfterDelivery, UndoneOnlyWhenCancelled
<1>9. QED
  BY <1>2, <1>5, <1>6, <1>7, <1>8 DEF IInv

LEMMA InvariantKept ==
    ASSUME IInv, [Next]_vars
    PROVE  IInv'
<1>1. TypeOK'
  BY NextTypes DEF IInv
<1>2. CASE Next
  BY <1>1, <1>2, OrchestratingKeeps, CookingKeeps, PayingKeeps, DispatchingKeeps,
     CustomersKeep, UpkeepKeeps, TroubleKeeps DEF Next
<1>3. CASE UNCHANGED vars
  <2>1. /\ UNCHANGED ParticipantVars
        /\ UNCHANGED << sent, inbox, notices >>
    BY <1>3 DEF vars, msgVars, orchestratorVars, ParticipantVars
  <2>2. QED
    BY <1>1, <2>1, ReadingKeeps
<1>4. QED
  BY <1>2, <1>3

(* The inductive invariant: every message has its causes, every open       *)
(* transaction's reads still hold where they matter, the tables of the     *)
(* services agree.                                                         *)
THEOREM InvariantHolds == Spec => []IInv
<1>1. Init => IInv
  BY InvariantInitially
<1>2. IInv /\ [Next]_vars => IInv'
  BY InvariantKept
<1>3. QED
  BY <1>1, <1>2, PTL DEF Spec

(* A participant answers each forward command exactly once, in the step    *)
(* that consumes it (consume() of the participants).                       *)
THEOREM AnswersHold == Spec => []AnsweredOnce
<1>1. IInv => AnsweredOnce
  BY DEF IInv
<1>2. QED
  BY <1>1, InvariantHolds, PTL

(* The saga's steps are taken in its order (advance() of the orchestrator). *)
THEOREM OrderHolds == Spec => []StepsInOrder
<1>1. IInv => StepsInOrder
  BY DEF IInv
<1>2. QED
  BY <1>1, InvariantHolds, PTL

(* No charge and no completion before the delivery (onDelivered).           *)
THEOREM ChargesHold == Spec => []ChargedOnlyAfterDelivery
<1>1. IInv => ChargedOnlyAfterDelivery
  BY DEF IInv
<1>2. QED
  BY <1>1, InvariantHolds, PTL

(* Nothing is undone before the order is cancelled (compensate() and       *)
(* cancelOrder).                                                           *)
THEOREM CancellationsHold == Spec => []UndoneOnlyWhenCancelled
<1>1. IInv => UndoneOnlyWhenCancelled
  BY DEF IInv
<1>2. QED
  BY <1>1, InvariantHolds, PTL

(* No portion is lost or duplicated in the counters (drops_portions_balance *)
(* of the kitchen's migration).                                             *)
THEOREM BalanceHolds == Spec => []Balance
<1>1. IInv => Balance
  BY DEF IInv
<1>2. QED
  BY <1>1, InvariantHolds, PTL

(* A rejected order never held anything (the reject path of compensate()):  *)
(* the one command that could reserve its portions was answered "failed".   *)
THEOREM RejectionsHold == Spec => []RejectedHoldsNothing
<1>1. IInv => RejectedHoldsNothing
  <2>1. HAVE IInv
  <2>2. ASSUME NEW o \in Orders, "OrderRejected" \in notices[o]
        PROVE  reservation[o] = "NONE" /\ payment[o] = "NONE" /\ assignment[o] = "NONE"
    <3> DEFINE r == Reply(Command("ReservePortions", o, 0), "failed")
    <3>1. r \in sent
      BY <2>1, <2>2 DEF IInv, TablesAgree
    <3>2. r.order = o /\ r.step = "ReservePortions" /\ r.kind = "failed"
      BY DEF Reply, Command
    <3> HIDE DEF r
    <3>3. reservation[o] = "NONE"
      BY <2>1, <3>1, <3>2 DEF IInv, MessagesHaveCauses, Caused, Says
    <3>4. QED
      BY <2>1, <3>3 DEF IInv, StepsInOrder
  <2>3. QED
    BY <2>2 DEF RejectedHoldsNothing
<1>2. QED
  BY <1>1, InvariantHolds, PTL
(***************************************************************************)
(* No order stalls.                                                        *)
(***************************************************************************)

(* The participants' steps: they answer what they consume.                 *)
LEMMA ParticipantsPursue ==
    ASSUME IInv, TypeOK', PursuitInv, UNCHANGED << order, otx >>,
           \/ \E o \in Orders : KitchenHandles(o) \/ PaymentHandles(o) \/ DispatchHandles(o)
           \/ KitchenBackground \/ DispatchFaults
    PROVE  PursuitInv'
<1>1. MessagingTypeOK /\ sent' \subseteq Messages
  BY DEF IInv, TypeOK, MessagingTypeOK
<1>2. ASSUME UNCHANGED msgVars PROVE PursuitInv'
  BY <1>2, StillPursued DEF msgVars
<1>3. ASSUME NEW m, NEW step, Arrives(m, step), NEW status \in {"ok", "failed"},
             Consume(m, {Reply(m, status)})
      PROVE  PursuitInv'
  BY <1>1, <1>3, AnswerPursues DEF Arrives
<1>4. ASSUME NEW m, m.step \in Compensations, Consume(m, {})
      PROVE  PursuitInv'
  <2>1. sent' = sent /\ inbox' = inbox \cup {m} /\ m \in Messages
    BY <1>1, <1>4 DEF Consume, Pending, MessagingTypeOK
  <2>2. m.kind = "command"
    BY <1>4, <2>1 DEF Messages, SagaSteps, Compensations
  <2>3. QED
    BY <1>1, <1>4, <2>1, <2>2, AsidePursues
<1>5. ASSUME NEW o, KitchenHandles(o) PROVE PursuitInv'
  <2>1. PICK m : \/ ReservePortions(m) \/ ComesUpShort(m) \/ SoldOut(m) \/ AcceptOrder(m)
                 \/ BeginRelease(m) \/ NothingToRelease(m) \/ CommitRelease(m)
    BY <1>5 DEF KitchenHandles
  <2>2. CASE ReservePortions(m) \/ SoldOut(m) \/ AcceptOrder(m)
    BY <1>3, <2>2 DEF ReservePortions, SoldOut, AcceptOrder
  <2>3. CASE ComesUpShort(m) \/ BeginRelease(m)
    BY <1>2, <2>3 DEF ComesUpShort, BeginRelease
  <2>4. CASE NothingToRelease(m)
    BY <1>4, <2>4 DEF NothingToRelease, Arrives, Compensations
  <2>5. CASE CommitRelease(m)
    <3>1. m.step = "ReleasePortions" /\ Consume(m, {})
      BY <2>5 DEF CommitRelease, IInv, TransactionsHaveCauses
    <3>2. QED
      BY <1>4, <3>1 DEF Compensations
  <2>6. QED
    BY <2>1, <2>2, <2>3, <2>4, <2>5
<1>6. ASSUME NEW o, PaymentHandles(o) PROVE PursuitInv'
  <2>1. PICK m : \/ Authorize(m) \/ Decline(m) \/ AnswerDeclined(m) \/ AuthorizeAgain(m)
                 \/ Capture(m) \/ BeginVoid(m) \/ NothingToVoid(m) \/ CommitVoid(m) \/ Refund(m)
    BY <1>6 DEF PaymentHandles
  <2>2. CASE Authorize(m) \/ AnswerDeclined(m) \/ AuthorizeAgain(m) \/ Capture(m)
    BY <1>3, <2>2 DEF Authorize, AnswerDeclined, AuthorizeAgain, Capture
  <2>3. CASE BeginVoid(m) \/ Decline(m)
    BY <1>2, <2>3 DEF BeginVoid, Decline
  <2>4. CASE NothingToVoid(m) \/ Refund(m)
    BY <1>4, <2>4 DEF NothingToVoid, Refund, Arrives, Compensations
  <2>5. CASE CommitVoid(m)
    <3>1. m.step = "VoidPayment" /\ Consume(m, {})
      BY <2>5 DEF CommitVoid, IInv, TransactionsHaveCauses
    <3>2. QED
      BY <1>4, <3>1 DEF Compensations
  <2>6. QED
    BY <2>1, <2>2, <2>3, <2>4, <2>5
<1>7. ASSUME NEW o, DispatchHandles(o) PROVE PursuitInv'
  <2>1. CASE \E m : Assign(m) \/ NoCourier(m)
    BY <1>3, <2>1 DEF Assign, NoCourier
  <2>2. CASE \E m : Unassign(m)
    BY <1>4, <2>2 DEF Unassign, Arrives, Compensations
  <2>3. CASE \E k : TimerFires(o, k)
    BY <1>2, <2>3 DEF TimerFires
  <2>4. CASE \E k : CompleteDelivery(o, k)
    <3>1. PICK k, m : sent' = sent \cup {m} /\ inbox' = inbox /\ m = Delivered(o, k)
      BY <2>4 DEF CompleteDelivery
    <3>2. m.kind = "event"
      BY <3>1 DEF Delivered
    <3>3. QED
      BY <1>1, <3>1, <3>2, AsidePursues
  <2>5. QED
    BY <1>7, <2>1, <2>2, <2>3, <2>4 DEF DispatchHandles
<1>8. CASE KitchenBackground
  BY <1>2, <1>8 DEF KitchenBackground, BeginSweep, CommitSweep, RollBack
<1>9. CASE DispatchFaults
  BY <1>2, <1>9 DEF DispatchFaults, Redelivered, CompletionFails, Restart
<1>10. QED
  BY <1>5, <1>6, <1>7, <1>8, <1>9
(* Hence what takes an order on is always under way.                        *)
LEMMA PursuitHolds == Spec => []PursuitInv
<1>1. Init => PursuitInv
  BY NothingPursued DEF Init
<1>2. IInv /\ IInv' /\ PursuitInv /\ [Next]_vars => PursuitInv'
  <2> SUFFICES ASSUME IInv, IInv', PursuitInv, [Next]_vars PROVE PursuitInv'
    OBVIOUS
  <2>1. TypeOK' /\ MessagingTypeOK /\ OrchestratorTypeOK
    BY DEF IInv, TypeOK
  <2>2. CASE \E o \in Orders : Orchestrating(o)
    BY <2>1, <2>2, HandlingPursues DEF Orchestrating
  <2>3. CASE Customers
    BY <2>1, <2>3, CustomersPursue DEF Customers
  <2>4. CASE \/ \E o \in Orders : Cooking(o) \/ Paying(o) \/ Dispatching(o)
             \/ Upkeep \/ Trouble
    BY <2>1, <2>4, ParticipantsPursue
       DEF Cooking, Paying, Dispatching, Upkeep, Trouble, orchestratorVars
  <2>5. CASE UNCHANGED vars
    BY <2>5, StillPursued DEF vars, msgVars, orchestratorVars
  <2>6. QED
    BY <2>2, <2>3, <2>4, <2>5 DEF Next
<1>3. QED
  BY <1>1, <1>2, InvariantHolds, PTL DEF Spec

(* No order stalls, however its customer's cancellations, late handlers,   *)
(* redeliveries and repeated deliveries race (the transactions of          *)
(* SagaOrchestrator): the safety half of ComesToRest, for any orders.       *)
THEOREM StallsNever == Spec => []NeverStalls
  BY PursuitHolds, PursuitSuffices, PTL

(***************************************************************************)
(* The saga and its participants.                                          *)
(***************************************************************************)

(* Only the first steps can fail, no courier is called back, and an order  *)
(* that has a courier was answered "ok" by all of them.                     *)
OneCourier ==
    /\ \A m \in sent : m.kind = "failed" =>
          m.step \in {"ReservePortions", "AuthorizePayment", "AssignCourier"}
    /\ \A m \in sent : m.step \notin {"RefundPayment", "UnassignCourier"}
    /\ \A o \in Orders : "assignment" \in saga[o].acquired =>
          Reply(Command("AssignCourier", o, 0), "ok") \in inbox
    /\ \A t \in otx : "assignment" \in t.acquired =>
          Reply(Command("AssignCourier", t.msg.order, 0), "ok") \in inbox

(* The messages on the way to the courier are the saga's own: each command *)
(* is sent on the answer to the one before.                                 *)
LEMMA OwnMessages ==
    ASSUME IInv, PursuitInv, NEW m \in sent,
           m.step \in {"ReservePortions", "AuthorizePayment", "AcceptOrder", "AssignCourier"}
    PROVE  m.from = 0
<1>1. /\ m \in Messages /\ sent \subseteq Messages /\ inbox \subseteq sent
      /\ \A q \in sent : q.step = "ReservePortions" => q.from = 0
  BY DEF IInv, TypeOK, MessagingTypeOK, AnswersHaveCommands
<1>2. ASSUME NEW q \in sent, q.kind # "event"
      PROVE  \E c \in sent : c.kind = "command" /\ c.step = q.step /\ c.from = q.from
  <2>1. CASE q.kind = "command"
    BY <1>2, <2>1
  <2>2. CASE q.kind # "command"
    <3>1. q.kind \in {"ok", "failed"} /\ q \in Messages
      BY <1>1, <1>2, <2>2, MessageFields
    <3>2. [q EXCEPT !.kind = "command"] \in sent
      BY <1>1, <3>1 DEF PursuitInv
    <3>3. /\ [q EXCEPT !.kind = "command"].kind = "command"
          /\ [q EXCEPT !.kind = "command"].step = q.step
          /\ [q EXCEPT !.kind = "command"].from = q.from
      BY <3>1, MessageFields
    <3>4. QED
      BY <3>2, <3>3
  <2>3. QED
    BY <2>1, <2>2
<1>3. ASSUME NEW c \in sent, c.kind = "command",
             c.step \in {"AuthorizePayment", "AcceptOrder", "AssignCourier"}
      PROVE  \E q \in sent : /\ q.kind # "event" /\ q.step = Cause[c.step]
                             /\ q.from = c.from
  <2>1. CauseOf(c) \in sent /\ c \in Messages
    BY <1>1, <1>3, CauseTable DEF PursuitInv
  <2>2. CauseOf(c).kind = "ok" /\ CauseOf(c).step = Cause[c.step] /\ CauseOf(c).from = c.from
    BY <1>3, <2>1, MessageFields DEF CauseOf
  <2>3. QED
    BY <2>1, <2>2
<1>4. ASSUME NEW q \in sent, q.kind # "event", q.step = "AuthorizePayment"
      PROVE  q.from = 0
  BY <1>1, <1>2, <1>3, <1>4, CauseTable
<1>5. ASSUME NEW q \in sent, q.kind # "event", q.step = "AcceptOrder"
      PROVE  q.from = 0
  BY <1>2, <1>3, <1>4, <1>5, CauseTable
<1>6. ASSUME NEW q \in sent, q.kind # "event", q.step = "AssignCourier"
      PROVE  q.from = 0
  BY <1>2, <1>3, <1>5, <1>6, CauseTable
<1>7. m.kind # "event"
  BY <1>1, MessageFields
<1>8. QED
  BY <1>1, <1>4, <1>5, <1>6, <1>7

(* So no failure is left to handle once there is a courier.                 *)
LEMMA CourierIsLast ==
    ASSUME IInv, PursuitInv, NEW o \in Orders,
           Reply(Command("AssignCourier", o, 0), "ok") \in inbox,
           NEW m \in sent, m.kind = "failed", m.order = o,
           m.step \in {"AuthorizePayment", "AssignCourier"}
    PROVE  FALSE
<1> DEFINE cmd(step) == Command(step, o, 0)
<1>1. /\ sent \subseteq Messages /\ inbox \subseteq sent
      /\ \A q \in sent : q.kind \in {"ok", "failed"} => [q EXCEPT !.kind = "command"] \in inbox
      /\ \A c \in sent : c.kind = "command" /\ c.step \in DOMAIN Cause => CauseOf(c) \in inbox
  BY DEF IInv, TypeOK, MessagingTypeOK, PursuitInv
<1>2. ASSUME NEW step, NEW s \in {"ok", "failed"}, Reply(cmd(step), s) \in sent
      PROVE  cmd(step) \in inbox
  <2>1. Reply(cmd(step), s) = [kind |-> s, step |-> step, order |-> o, from |-> 0]
    BY DEF Reply, Command
  <2>2. [Reply(cmd(step), s) EXCEPT !.kind = "command"] = cmd(step)
    BY <2>1 DEF Command
  <2>3. QED
    BY <1>1, <1>2, <2>1, <2>2
<1>3. ASSUME NEW step \in {"AssignCourier", "AcceptOrder"}, Reply(cmd(step), "ok") \in inbox
      PROVE  Reply(cmd(Cause[step]), "ok") \in inbox
  <2>1. cmd(step) \in sent
    BY <1>1, <1>2, <1>3
  <2>2. CauseOf(cmd(step)) = Reply(cmd(Cause[step]), "ok")
    <3>1. CauseOf(cmd(step)) = [kind |-> "ok", step |-> Cause[step], order |-> o, from |-> 0]
      <4>1. CauseOf(cmd(step)) = [cmd(step) EXCEPT !.kind = "ok", !.step = Cause[step]]
        BY <1>3 DEF CauseOf, Command
      <4>2. QED
        BY <4>1 DEF Command
    <3>2. Reply(cmd(Cause[step]), "ok") =
             [kind |-> "ok", step |-> Cause[step], order |-> o, from |-> 0]
      BY DEF Reply, Command
    <3>3. QED
      BY <3>1, <3>2
  <2>3. cmd(step).kind = "command" /\ cmd(step).step = step
    BY DEF Command
  <2>4. QED
    BY <1>1, <1>3, <2>1, <2>2, <2>3, CauseTable
<1>4. Reply(cmd("AuthorizePayment"), "ok") \in sent
  BY <1>1, <1>3, CauseTable
<1>5. m = Reply(cmd(m.step), "failed")
  <2>1. m.from = 0 /\ m \in Messages
    BY <1>1, OwnMessages
  <2>2. QED
    BY <2>1, MessageFields DEF Reply, Command
<1>6. /\ cmd(m.step) \in inbox /\ cmd(m.step) \in sent
      /\ cmd(m.step).kind = "command" /\ cmd(m.step).step \in SagaSteps
  BY <1>1, <1>2, <1>5 DEF Command, SagaSteps
<1>7. Answered(cmd(m.step), "ok") /\ Answered(cmd(m.step), "failed")
  BY <1>1, <1>4, <1>5 DEF Answered
<1>8. QED
  BY <1>6, <1>7 DEF IInv, AnsweredOnce

(* What keeps OneCourier: messages of the kinds it allows, a saga row that *)
(* gets its courier from the answer.                                        *)
LEMMA CourierKept ==
    ASSUME OneCourier, inbox \subseteq inbox',
           \A m \in sent' \ sent :
              /\ m.kind = "failed" =>
                    m.step \in {"ReservePortions", "AuthorizePayment", "AssignCourier"}
              /\ m.step \notin {"RefundPayment", "UnassignCourier"},
           \A o \in Orders : "assignment" \in saga'[o].acquired =>
              \/ "assignment" \in saga[o].acquired
              \/ Reply(Command("AssignCourier", o, 0), "ok") \in inbox',
           \A t \in otx' : "assignment" \in t.acquired =>
              \/ \E u \in otx : u.msg.order = t.msg.order /\ "assignment" \in u.acquired
              \/ t.msg.order \in Orders /\ "assignment" \in saga[t.msg.order].acquired
    PROVE  OneCourier'
<1>1. \A m \in sent' :
         /\ m.kind = "failed" =>
               m.step \in {"ReservePortions", "AuthorizePayment", "AssignCourier"}
         /\ m.step \notin {"RefundPayment", "UnassignCourier"}
  BY DEF OneCourier
<1>2. \A o \in Orders : "assignment" \in saga'[o].acquired =>
         Reply(Command("AssignCourier", o, 0), "ok") \in inbox'
  BY DEF OneCourier
<1>3. \A t \in otx' : "assignment" \in t.acquired =>
         Reply(Command("AssignCourier", t.msg.order, 0), "ok") \in inbox'
  BY DEF OneCourier
<1>4. QED
  BY <1>1, <1>2, <1>3 DEF OneCourier

(* The participants' steps leave the order service's rows alone.            *)
LEMMA ParticipantsKeepCourier ==
    ASSUME IInv, OneCourier, UNCHANGED orchestratorVars,
           \/ \E o \in Orders : KitchenHandles(o) \/ PaymentHandles(o) \/ DispatchHandles(o)
           \/ KitchenBackground \/ DispatchFaults
    PROVE  OneCourier'
<1>1. ASSUME inbox \subseteq inbox',
             \A m \in sent' \ sent :
                /\ m.kind = "failed" =>
                      m.step \in {"ReservePortions", "AuthorizePayment", "AssignCourier"}
                /\ m.step \notin {"RefundPayment", "UnassignCourier"}
      PROVE  OneCourier'
  BY <1>1, CourierKept DEF orchestratorVars, IInv, TypeOK, OrchestratorTypeOK, OrderTransactions
<1>2. ASSUME UNCHANGED msgVars PROVE OneCourier'
  BY <1>1, <1>2 DEF msgVars
<1>3. ASSUME NEW m, NEW step \in SagaSteps, Arrives(m, step), NEW status \in {"ok", "failed"},
             Consume(m, {Reply(m, status)}),
             status = "failed" =>
                step \in {"ReservePortions", "AuthorizePayment", "AssignCourier"}
      PROVE  OneCourier'
  <2>1. m \in Messages /\ m.step = step /\ sent' = sent \cup {Reply(m, status)}
        /\ inbox \subseteq inbox'
    BY <1>3 DEF Arrives, Pending, Consume, IInv, TypeOK, MessagingTypeOK
  <2>2. Reply(m, status).kind = status /\ Reply(m, status).step = step
    BY <2>1, ReplyFields
  <2>3. QED
    BY <1>1, <1>3, <2>1, <2>2 DEF SagaSteps
<1>4. ASSUME NEW m, Consume(m, {}) PROVE OneCourier'
  BY <1>1, <1>4 DEF Consume
<1>5. ASSUME NEW o, KitchenHandles(o) PROVE OneCourier'
  <2>1. PICK m : \/ ReservePortions(m) \/ ComesUpShort(m) \/ SoldOut(m) \/ AcceptOrder(m)
                 \/ BeginRelease(m) \/ NothingToRelease(m) \/ CommitRelease(m)
    BY <1>5 DEF KitchenHandles
  <2>2. CASE ReservePortions(m) \/ SoldOut(m) \/ AcceptOrder(m)
    BY <1>3, <2>2 DEF ReservePortions, SoldOut, AcceptOrder, SagaSteps
  <2>3. CASE ComesUpShort(m) \/ BeginRelease(m)
    BY <1>2, <2>3 DEF ComesUpShort, BeginRelease
  <2>4. CASE NothingToRelease(m) \/ CommitRelease(m)
    BY <1>4, <2>4 DEF NothingToRelease, CommitRelease
  <2>5. QED
    BY <2>1, <2>2, <2>3, <2>4
<1>6. ASSUME NEW o, PaymentHandles(o) PROVE OneCourier'
  <2>1. PICK m : \/ Authorize(m) \/ Decline(m) \/ AnswerDeclined(m) \/ AuthorizeAgain(m)
                 \/ Capture(m) \/ BeginVoid(m) \/ NothingToVoid(m) \/ CommitVoid(m) \/ Refund(m)
    BY <1>6 DEF PaymentHandles
  <2>2. CASE Authorize(m) \/ AnswerDeclined(m) \/ AuthorizeAgain(m) \/ Capture(m)
    BY <1>3, <2>2 DEF Authorize, AnswerDeclined, AuthorizeAgain, Capture, SagaSteps
  <2>3. CASE BeginVoid(m) \/ Decline(m)
    BY <1>2, <2>3 DEF BeginVoid, Decline
  <2>4. CASE NothingToVoid(m) \/ CommitVoid(m) \/ Refund(m)
    BY <1>4, <2>4 DEF NothingToVoid, CommitVoid, Refund
  <2>5. QED
    BY <2>1, <2>2, <2>3, <2>4
<1>7. ASSUME NEW o, DispatchHandles(o) PROVE OneCourier'
  <2>1. CASE \E m : Assign(m) \/ NoCourier(m)
    BY <1>3, <2>1 DEF Assign, NoCourier, SagaSteps
  <2>2. CASE \E m : Unassign(m)
    BY <1>4, <2>2 DEF Unassign
  <2>3. CASE \E k : TimerFires(o, k)
    BY <1>2, <2>3 DEF TimerFires
  <2>4. CASE \E k : CompleteDelivery(o, k)
    <3>1. PICK k, m : sent' = sent \cup {m} /\ inbox' = inbox /\ m = Delivered(o, k)
      BY <2>4 DEF CompleteDelivery
    <3>2. m.kind = "event" /\ m.step = "DeliveryDelivered"
      BY <3>1 DEF Delivered
    <3>3. QED
      BY <1>1, <3>1, <3>2
  <2>5. QED
    BY <1>7, <2>1, <2>2, <2>3, <2>4 DEF DispatchHandles
<1>8. CASE KitchenBackground
  BY <1>2, <1>8 DEF KitchenBackground, BeginSweep, CommitSweep, RollBack
<1>9. CASE DispatchFaults
  BY <1>2, <1>9 DEF DispatchFaults, Redelivered, CompletionFails, Restart
<1>10. QED
  BY <1>5, <1>6, <1>7, <1>8, <1>9

(* The order service's steps: beginning copies the row, only the answer of *)
(* the courier adds one, and no compensation meets one.                     *)
LEMMA HandlingKeepsCourier ==
    ASSUME IInv, PursuitInv, OneCourier, NEW t \in otx, CommitReply(t)
    PROVE  OneCourier'
<1> DEFINE o == t.msg.order
           r == t.msg
           got == Reply(Command("AssignCourier", o, 0), "ok")
<1>1. /\ OrchestratorTypeOK /\ sent \subseteq Messages /\ \E out : CommitMessage(t, out)
  BY DEF IInv, TypeOK, MessagingTypeOK, CommitReply, PortionsReserved, PaymentAuthorized,
     OrderAccepted, CourierAssigned, PaymentCaptured, Reject, Compensate, IgnoreReply,
     OnDelivered, IgnoreDelivered
<1>2. /\ r \in sent /\ r \in Messages /\ o \in Orders /\ inbox' = inbox \cup {r}
      /\ otx' \subseteq otx
  BY <1>1, MessageFields DEF CommitMessage, Consume, Pending
<1>3. ASSUME NEW out, CommitMessage(t, out),
             \A c \in out : c.kind = "command" /\ c.step \notin {"RefundPayment", "UnassignCourier"},
             \A p \in Orders : "assignment" \in saga'[p].acquired =>
                "assignment" \in saga[p].acquired \/ (p = o /\ got = r)
      PROVE  OneCourier'
  <2>1. \A m \in sent' \ sent :
           /\ m.kind = "failed" =>
                 m.step \in {"ReservePortions", "AuthorizePayment", "AssignCourier"}
           /\ m.step \notin {"RefundPayment", "UnassignCourier"}
    BY <1>3 DEF CommitMessage, Consume
  <2>2. \A p \in Orders : "assignment" \in saga'[p].acquired =>
           \/ "assignment" \in saga[p].acquired
           \/ Reply(Command("AssignCourier", p, 0), "ok") \in inbox'
    BY <1>2, <1>3
  <2>3. QED
    BY <1>2, <2>1, <2>2, CourierKept
<1>4. ASSUME NEW step, step \notin {"RefundPayment", "UnassignCourier"}
      PROVE  \A c \in Sends(t, step) :
                c.kind = "command" /\ c.step \notin {"RefundPayment", "UnassignCourier"}
  BY <1>4 DEF Sends, Command
<1>5. ASSUME NEW status, NEW row, NEW events, Write(o, status, row, events),
             "assignment" \in row.acquired => "assignment" \in saga[o].acquired \/ got = r
      PROVE  \A p \in Orders : "assignment" \in saga'[p].acquired =>
                "assignment" \in saga[p].acquired \/ (p = o /\ got = r)
  BY <1>1, <1>2, <1>5 DEF Write, OrchestratorTypeOK
<1>6. saga[o] \in Sagas /\ saga[o].acquired \subseteq Resources
  BY <1>1, <1>2 DEF OrchestratorTypeOK, Sagas
<1>7. CASE PortionsReserved(t)
  <2> DEFINE row == [saga[o] EXCEPT !.step = "AuthorizePayment",
                                    !.acquired = @ \cup {"reservation"}]
  <2>1. "assignment" \in row.acquired => "assignment" \in saga[o].acquired
    BY <1>6 DEF Sagas
  <2>2. Write(o, "PORTIONS_RESERVED", row, {}) /\ CommitMessage(t, Sends(t, "AuthorizePayment"))
    BY <1>7 DEF PortionsReserved
  <2> HIDE DEF row
  <2>3. QED
    BY <1>3, <1>4, <1>5, <2>1, <2>2
<1>8. CASE PaymentAuthorized(t)
  <2> DEFINE row == [saga[o] EXCEPT !.step = "AcceptOrder", !.acquired = @ \cup {"payment"}]
  <2>1. "assignment" \in row.acquired => "assignment" \in saga[o].acquired
    BY <1>6 DEF Sagas
  <2>2. Write(o, "PAYMENT_AUTHORIZED", row, {}) /\ CommitMessage(t, Sends(t, "AcceptOrder"))
    BY <1>8 DEF PaymentAuthorized
  <2> HIDE DEF row
  <2>3. QED
    BY <1>3, <1>4, <1>5, <2>1, <2>2
<1>9. CASE OrderAccepted(t)
  <2> DEFINE row == [saga[o] EXCEPT !.step = "AssignCourier"]
  <2>1. row.acquired = saga[o].acquired
    BY <1>6 DEF Sagas
  <2>2. Write(o, "PREPARING", row, {"OrderConfirmed"}) /\ CommitMessage(t, Sends(t, "AssignCourier"))
    BY <1>9 DEF OrderAccepted
  <2> HIDE DEF row
  <2>3. QED
    BY <1>3, <1>4, <1>5, <2>1, <2>2
<1>10. CASE CourierAssigned(t)
  <2> DEFINE row == [saga[o] EXCEPT !.step = "AwaitDelivery", !.acquired = @ \cup {"assignment"}]
  <2>1. r.step = "AssignCourier" /\ r.kind = "ok"
    BY <1>10 DEF CourierAssigned, IsReply
  <2>2. r.from = 0
    BY <1>2, <2>1, OwnMessages
  <2>3. got = r
    BY <1>2, <2>1, <2>2, MessageFields DEF Reply, Command
  <2>4. Write(o, "COURIER_ASSIGNED", row, {}) /\ CommitMessage(t, {})
    BY <1>10 DEF CourierAssigned
  <2> HIDE DEF row
  <2>5. QED
    BY <1>3, <1>5, <2>3, <2>4
<1>11. CASE PaymentCaptured(t)
  <2> DEFINE row == [saga[o] EXCEPT !.step = "Completed"]
  <2>1. row.acquired = saga[o].acquired
    BY <1>6 DEF Sagas
  <2>2. Write(o, "COMPLETED", row, {"OrderCompleted"}) /\ CommitMessage(t, {})
    BY <1>11 DEF PaymentCaptured
  <2> HIDE DEF row
  <2>3. QED
    BY <1>3, <1>5, <2>1, <2>2
<1>12. CASE Reject(t)
  <2> DEFINE row == [saga[o] EXCEPT !.lastError = "SOLD_OUT"]
  <2>1. row.acquired = saga[o].acquired
    BY <1>6 DEF Sagas
  <2>2. Write(o, "REJECTED", row, {"OrderRejected"}) /\ CommitMessage(t, {})
    BY <1>12 DEF Reject
  <2> HIDE DEF row
  <2>3. QED
    BY <1>3, <1>5, <2>1, <2>2
<1>13. CASE Compensate(t)
  <2> DEFINE row == [saga[o] EXCEPT !.lastError = Reason[r.step]]
  <2>1. row.acquired = saga[o].acquired
    BY <1>6 DEF Sagas
  <2>2. /\ Write(o, "CANCELLED", row, {"OrderCancelled"}) /\ CommitMessage(t, Undo(t, Resources))
        /\ r.kind = "failed" /\ r.step # "ReservePortions"
    BY <1>13 DEF Compensate
  <2>3. "assignment" \notin t.acquired
    BY <1>2, <2>2, CourierIsLast DEF OneCourier
  <2>4. \A c \in Undo(t, Resources) :
           c.kind = "command" /\ c.step \notin {"RefundPayment", "UnassignCourier"}
    BY <2>3 DEF Undo, Command, Resources
  <2> HIDE DEF row
  <2>5. QED
    BY <1>3, <1>5, <2>1, <2>2, <2>4
<1>14. CASE OnDelivered(t)
  <2> DEFINE row == [saga[o] EXCEPT !.step = "CapturePayment"]
  <2>1. row.acquired = saga[o].acquired
    BY <1>6 DEF Sagas
  <2>2. Write(o, "DELIVERED", row, {}) /\ CommitMessage(t, Sends(t, "CapturePayment"))
    BY <1>14 DEF OnDelivered
  <2> HIDE DEF row
  <2>3. QED
    BY <1>3, <1>4, <1>5, <2>1, <2>2
<1>15. CASE IgnoreReply(t) \/ IgnoreDelivered(t)
  BY <1>3, <1>15 DEF IgnoreReply, IgnoreDelivered
<1>16. QED
  BY <1>7, <1>8, <1>9, <1>10, <1>11, <1>12, <1>13, <1>14, <1>15 DEF CommitReply

LEMMA CustomersKeepCourier ==
    ASSUME IInv, OneCourier,
           CustomerActs \/ \E m \in sent : Receive(m)
    PROVE  OneCourier'
<1>1. OrchestratorTypeOK /\ \A m \in sent : m.order \in Orders
  BY DEF IInv, TypeOK, MessagingTypeOK, Messages
<1>2. ASSUME NEW m, m.order \in Orders, Begin(m)
      PROVE  OneCourier'
  <2>1. /\ saga' = saga /\ sent' = sent /\ inbox' = inbox
        /\ \A t \in otx' \ otx : t.msg.order = m.order /\ t.acquired = saga[m.order].acquired
    BY <1>2 DEF Begin
  <2>2. \A t \in otx' : "assignment" \in t.acquired =>
           \/ \E u \in otx : u.msg.order = t.msg.order /\ "assignment" \in u.acquired
           \/ t.msg.order \in Orders /\ "assignment" \in saga[t.msg.order].acquired
    BY <1>2, <2>1
  <2>3. QED
    BY <2>1, <2>2, CourierKept
<1>3. CASE \E m \in sent : Receive(m)
  BY <1>1, <1>2, <1>3 DEF Receive
<1>4. CASE \E o \in Orders : RequestCancel(o)
  BY <1>2, <1>4 DEF RequestCancel, CancelRequest
<1>5. ASSUME NEW t \in otx, ReadSaga(t) PROVE OneCourier'
  <2> DEFINE u == [t EXCEPT !.acquired = saga[t.msg.order].acquired]
  <2>1. t \in OrderTransactions /\ t.msg.order \in Orders
    BY <1>1 DEF OrchestratorTypeOK, OrderTransactions, Messages, CancelRequests
  <2>2. u.msg = t.msg /\ u.acquired = saga[t.msg.order].acquired
    BY <2>1 DEF OrderTransactions
  <2>3. otx' = (otx \ {t}) \cup {u} /\ saga' = saga /\ sent' = sent /\ inbox' = inbox
    BY <1>5 DEF ReadSaga
  <2> HIDE DEF u
  <2>4. QED
    BY <2>1, <2>2, <2>3, CourierKept
<1>6. ASSUME NEW o \in Orders, PlaceOrder(o) PROVE OneCourier'
  <2> DEFINE c == Command("ReservePortions", o, 0)
  <2>1. sent' = sent \cup {c} /\ inbox' = inbox /\ otx' = otx
        /\ saga' = [saga EXCEPT ![o].step = "ReservePortions"]
    BY <1>6 DEF PlaceOrder
  <2>2. c.kind = "command" /\ c.step = "ReservePortions"
    BY DEF Command
  <2>3. \A p \in Orders : saga'[p].acquired = saga[p].acquired
    BY <1>1, <2>1 DEF OrchestratorTypeOK, Sagas
  <2> HIDE DEF c
  <2>4. QED
    BY <2>1, <2>2, <2>3, CourierKept
<1>7. ASSUME NEW t \in otx, CommitCancel(t) PROVE OneCourier'
  <2> DEFINE row == [saga[t.msg.order] EXCEPT !.lastError = "CANCELLED_BY_CUSTOMER"]
  <2>1. /\ sent' = sent \cup Undo(t, {"payment", "reservation"}) /\ inbox' = inbox
        /\ otx' \subseteq otx /\ saga' = [saga EXCEPT ![t.msg.order] = row]
    BY <1>7 DEF CommitCancel, Write
  <2>2. t.msg.order \in Orders
    BY <1>1 DEF OrchestratorTypeOK, OrderTransactions, Messages, CancelRequests
  <2>3. row.acquired = saga[t.msg.order].acquired
    BY <1>1, <2>2 DEF OrchestratorTypeOK, Sagas
  <2>4. \A c \in Undo(t, {"payment", "reservation"}) :
           c.kind = "command" /\ c.step \notin {"RefundPayment", "UnassignCourier"}
    BY DEF Undo, Command
  <2> HIDE DEF row
  <2>5. \A p \in Orders : saga'[p].acquired = saga[p].acquired
    BY <1>1, <2>1, <2>3 DEF OrchestratorTypeOK
  <2>6. QED
    BY <2>1, <2>4, <2>5, CourierKept
<1>8. QED
  BY <1>3, <1>4, <1>5, <1>6, <1>7 DEF CustomerActs

LEMMA OneCourierHolds == Spec => []OneCourier
<1>1. Init => OneCourier
  BY DEF Init, MessagingInit, OrchestratorInit, OneCourier
<1>2. IInv /\ PursuitInv /\ OneCourier /\ [Next]_vars => OneCourier'
  <2> SUFFICES ASSUME IInv, PursuitInv, OneCourier, [Next]_vars PROVE OneCourier'
    OBVIOUS
  <2>1. CASE \E o \in Orders : Orchestrating(o)
    BY <2>1, HandlingKeepsCourier, CustomersKeepCourier
       DEF Orchestrating, OrchestratorHandles, SentFor
  <2>2. CASE Customers
    BY <2>2, CustomersKeepCourier DEF Customers
  <2>3. CASE \/ \E o \in Orders : Cooking(o) \/ Paying(o) \/ Dispatching(o)
             \/ Upkeep \/ Trouble
    BY <2>3, ParticipantsKeepCourier DEF Cooking, Paying, Dispatching, Upkeep, Trouble
  <2>4. CASE UNCHANGED vars
    BY <2>4 DEF vars, msgVars, orchestratorVars, OneCourier
  <2>5. QED
    BY <2>1, <2>2, <2>3, <2>4 DEF Next
<1>3. QED
  BY <1>1, <1>2, InvariantHolds, PursuitHolds, PTL DEF Spec

(* compensate() never calls a courier back and never refunds, though it    *)
(* has a case for either: whatever races, no failure is handled with an    *)
(* assignment in hand.                                                      *)
THEOREM NoCourierCalledBack ==
    Spec => [](\A m \in sent : m.step \notin {"RefundPayment", "UnassignCourier"})
<1>1. OneCourier => \A m \in sent : m.step \notin {"RefundPayment", "UnassignCourier"}
  BY DEF OneCourier
<1>2. QED
  BY <1>1, OneCourierHolds, PTL

(* What the payment and dispatch services see of the saga: the commands it *)
(* calls them with, and their own answers and events.                       *)
Called == {"AuthorizePayment", "CapturePayment", "VoidPayment", "AssignCourier"}

ServiceMessages == {m \in sent : m.step \in Called \cup {"DeliveryDelivered"}}
ServiceInbox == {m \in inbox : m.kind = "command" /\ m.step \in Called}

Services == INSTANCE ParticipantsProofs
                WITH sent <- ServiceMessages, inbox <- ServiceInbox, Calls <- Called \X Nat

(* A step of the saga is one of theirs, or they do not notice it.           *)
Shown == [Services!Next]_(Services!participantVars)

LEMMA CallsFit == Services!CallsAssumption
BY DEF Services!CallsAssumption, Called, Services!SagaSteps, Services!Compensations

(* A transaction of the order service calls one of them once, or neither.   *)
LEMMA CallShown ==
    ASSUME NEW step \in Called, NEW o \in Orders, NEW k \in Nat, NEW out,
           \A c \in out : c.step \in Called \cup {"DeliveryDelivered"} =>
                             c = Command(step, o, k),
           sent' = sent \cup out, ServiceInbox' = ServiceInbox,
           UNCHANGED << paymentVars, dispatchVars >>
    PROVE  Shown
<1> DEFINE call == Command(step, o, k)
<1>1. call.step = step
  BY DEF Command
<1>2. CASE call \in out
  <2>1. ServiceMessages' = ServiceMessages \cup {call}
    BY <1>1, <1>2 DEF ServiceMessages
  <2>2. << step, k >> \in Called \X Nat /\ Services!Command(step, o, k) = call
    BY DEF Services!Command, Command
  <2>3. Services!Send(o, << step, k >>)
    BY <2>1, <2>2 DEF Services!Send, Services!paymentVars, Services!dispatchVars,
       paymentVars, dispatchVars
  <2>4. QED
    BY <2>2, <2>3 DEF Services!Next, Shown
<1>3. CASE call \notin out
  <2>1. ServiceMessages' = ServiceMessages
    BY <1>3 DEF ServiceMessages
  <2>2. QED
    BY <2>1 DEF Shown, Services!participantVars, Services!msgVars, Services!paymentVars,
       Services!dispatchVars, paymentVars, dispatchVars
<1>4. QED
  BY <1>2, <1>3

(* What is none of their business.                                          *)
LEMMA NothingShown ==
    ASSUME sent \subseteq sent', ServiceInbox' = ServiceInbox,
           \A m \in sent' \ sent : m.step \notin Called \cup {"DeliveryDelivered"},
           UNCHANGED << paymentVars, dispatchVars >>
    PROVE  Shown
<1>1. ServiceMessages' = ServiceMessages
  BY DEF ServiceMessages
<1>2. QED
  BY <1>1 DEF Shown, Services!participantVars, Services!msgVars, Services!paymentVars,
     Services!dispatchVars, paymentVars, dispatchVars

(* A service consumes a command it was called with.                         *)
LEMMA ConsumeShown ==
    ASSUME NEW m, NEW out, Consume(m, out), m.kind = "command", m.step \in Called,
           \A q \in out : q.step = m.step
    PROVE  Services!Consume(m, out)
<1>1. m \in ServiceMessages /\ m \notin ServiceInbox
  BY DEF Consume, Pending, ServiceMessages, ServiceInbox
<1>2. ServiceInbox' = ServiceInbox \cup {m}
  BY DEF Consume, ServiceInbox
<1>3. ServiceMessages' = ServiceMessages \cup out
  BY DEF Consume, ServiceMessages
<1>4. QED
  BY <1>1, <1>2, <1>3 DEF Services!Consume, Services!Pending

LEMMA ArrivalShown ==
    ASSUME NEW m, NEW step \in Called, Arrives(m, step)
    PROVE  Services!Arrives(m, step) /\ m \in ServiceMessages
BY DEF Arrives, Pending, Services!Arrives, Services!Pending, ServiceMessages, ServiceInbox

LEMMA AnswerShown ==
    ASSUME IInv, NEW m, NEW step \in Called, Arrives(m, step),
           NEW s \in {"ok", "failed"}, Consume(m, {Reply(m, s)})
    PROVE  Services!Consume(m, {Services!Reply(m, s)})
<1>1. m \in Messages /\ m.kind = "command" /\ m.step = step
  BY DEF Arrives, Pending, IInv, TypeOK, MessagingTypeOK
<1>2. Services!Reply(m, s) = Reply(m, s) /\ Reply(m, s).step = step
  BY <1>1, ReplyFields DEF Services!Reply, Reply
<1>3. QED
  BY <1>1, <1>2, ConsumeShown

LEMMA PayingShown ==
    ASSUME IInv, OneCourier, NEW o \in Orders, Paying(o)
    PROVE  Shown
<1>1. PICK m \in SentFor(o) : \/ Authorize(m) \/ Decline(m) \/ AnswerDeclined(m)
                              \/ AuthorizeAgain(m) \/ Capture(m) \/ BeginVoid(m)
                              \/ NothingToVoid(m) \/ CommitVoid(m) \/ Refund(m)
  BY DEF Paying, PaymentHandles
<1>2. m \in sent /\ m.order = o /\ m \in Messages /\ UNCHANGED dispatchVars
      /\ UNCHANGED Services!dispatchVars
  BY <1>1 DEF SentFor, IInv, TypeOK, MessagingTypeOK, Paying, dispatchVars, Services!dispatchVars
<1>3. ASSUME m.step \in Called,
             \/ Services!Authorize(m) \/ Services!Decline(m)
             \/ Services!AnswerDeclined(m) \/ Services!AuthorizeAgain(m)
             \/ Services!Capture(m) \/ Services!BeginVoid(m) \/ Services!NothingToVoid(m)
             \/ Services!CommitVoid(m)
      PROVE  Shown
  <2>1. m \in Services!SentFor(o)
    BY <1>2, <1>3 DEF Services!SentFor, ServiceMessages
  <2>2. Services!PaymentHandles(o)
    BY <1>3, <2>1 DEF Services!PaymentHandles
  <2>3. QED
    BY <1>2, <2>2 DEF Services!Next, Shown
<1>4. ASSUME NEW step, Arrives(m, step) PROVE m.step = step /\ m.kind = "command"
  BY <1>4 DEF Arrives
<1>5. CASE Authorize(m)
  <2>1. Arrives(m, "AuthorizePayment") /\ Consume(m, {Reply(m, "ok")})
    BY <1>5 DEF Authorize
  <2>2. Services!Authorize(m)
    BY <1>5, <2>1, ArrivalShown, AnswerShown
       DEF Authorize, Services!Authorize, SetPayment, Services!SetPayment, Called
  <2>3. QED
    BY <1>3, <1>4, <2>1, <2>2 DEF Called
<1>6. CASE AnswerDeclined(m)
  <2>1. Arrives(m, "AuthorizePayment") /\ Consume(m, {Reply(m, "failed")})
    BY <1>6 DEF AnswerDeclined
  <2>2. Services!AnswerDeclined(m)
    BY <1>6, <2>1, ArrivalShown, AnswerShown DEF AnswerDeclined, Services!AnswerDeclined, Called
  <2>3. QED
    BY <1>3, <1>4, <2>1, <2>2 DEF Called
<1>7. CASE AuthorizeAgain(m)
  <2>1. Arrives(m, "AuthorizePayment") /\ Consume(m, {Reply(m, "ok")})
    BY <1>7 DEF AuthorizeAgain
  <2>2. Services!AuthorizeAgain(m)
    BY <1>7, <2>1, ArrivalShown, AnswerShown
       DEF AuthorizeAgain, Services!AuthorizeAgain, Called
  <2>3. QED
    BY <1>3, <1>4, <2>1, <2>2 DEF Called
<1>8. CASE Capture(m)
  <2>1. Arrives(m, "CapturePayment") /\ Consume(m, {Reply(m, "ok")})
    BY <1>8 DEF Capture
  <2>2. Services!Capture(m)
    BY <1>8, <2>1, ArrivalShown, AnswerShown
       DEF Capture, Services!Capture, SetPayment, Services!SetPayment, Called
  <2>3. QED
    BY <1>3, <1>4, <2>1, <2>2 DEF Called
<1>9. CASE BeginVoid(m)
  <2>1. Arrives(m, "VoidPayment")
    BY <1>9 DEF BeginVoid
  <2>2. UNCHANGED Services!msgVars
    BY <1>9 DEF BeginVoid, msgVars, Services!msgVars, ServiceMessages, ServiceInbox
  <2>3. Services!BeginVoid(m)
    BY <1>9, <2>1, <2>2, ArrivalShown DEF BeginVoid, Services!BeginVoid, Called
  <2>4. QED
    BY <1>3, <1>4, <2>1, <2>3 DEF Called
<1>10. CASE NothingToVoid(m)
  <2>1. Arrives(m, "VoidPayment") /\ Consume(m, {})
    BY <1>10 DEF NothingToVoid
  <2>2. Services!Consume(m, {})
    BY <1>4, <2>1, ConsumeShown DEF Called
  <2>3. Services!NothingToVoid(m)
    BY <1>10, <2>1, <2>2, ArrivalShown DEF NothingToVoid, Services!NothingToVoid, Called
  <2>4. QED
    BY <1>3, <1>4, <2>1, <2>3 DEF Called
<1>11. CASE CommitVoid(m)
  <2>1. m.step = "VoidPayment" /\ Consume(m, {})
    BY <1>11 DEF CommitVoid, IInv, TransactionsHaveCauses
  <2>2. m.kind = "command"
    BY <1>2, <2>1 DEF Messages, SagaSteps
  <2>3. Services!Consume(m, {})
    BY <2>1, <2>2, ConsumeShown DEF Called
  <2>4. Services!CommitVoid(m)
    BY <1>11, <2>3 DEF CommitVoid, Services!CommitVoid, SetPayment, Services!SetPayment
  <2>5. QED
    BY <1>3, <2>1, <2>4 DEF Called
<1>12. CASE Refund(m)
  BY <1>2, <1>4, <1>12 DEF Refund, OneCourier
<1>13. CASE Decline(m)
  <2>1. Arrives(m, "AuthorizePayment")
    BY <1>13 DEF Decline
  <2>2. UNCHANGED Services!msgVars
    BY <1>13 DEF Decline, msgVars, Services!msgVars, ServiceMessages, ServiceInbox
  <2>3. Services!Decline(m)
    BY <1>13, <2>1, <2>2, ArrivalShown DEF Decline, Services!Decline, Called
  <2>4. QED
    BY <1>3, <1>4, <2>1, <2>3 DEF Called
<1>14. QED
  BY <1>1, <1>5, <1>6, <1>7, <1>8, <1>9, <1>10, <1>11, <1>12, <1>13

LEMMA DispatchingShown ==
    ASSUME IInv, OneCourier,
           (\E o \in Orders : Dispatching(o)) \/ Trouble
    PROVE  Shown
<1>1. UNCHANGED paymentVars /\ UNCHANGED Services!paymentVars /\ Services!Timers = Timers
  BY DEF Dispatching, Trouble, paymentVars, Services!paymentVars, Services!Timers, Timers
<1>2. ASSUME UNCHANGED msgVars PROVE UNCHANGED Services!msgVars
  BY <1>2 DEF msgVars, Services!msgVars, ServiceMessages, ServiceInbox
<1>3. ASSUME NEW o \in Orders, Services!DispatchHandles(o) PROVE Services!Next
  BY <1>1, <1>3 DEF Services!Next
<1>4. ASSUME Services!DispatchFaults PROVE Services!Next
  BY <1>1, <1>4 DEF Services!Next
<1>5. ASSUME NEW o \in Orders, NEW m \in SentFor(o), Assign(m) \/ NoCourier(m) \/ Unassign(m)
      PROVE  Services!Next
  <2>1. m \in sent /\ m.order = o
    BY DEF SentFor
  <2>2. CASE Assign(m) \/ NoCourier(m)
    <3>1. Arrives(m, "AssignCourier")
      BY <2>2 DEF Assign, NoCourier
    <3>2. Services!Arrives(m, "AssignCourier") /\ m \in Services!SentFor(o)
      BY <2>1, <3>1, ArrivalShown DEF Services!SentFor, Called
    <3>3. Assign(m) => Services!Assign(m)
      <4>1. HAVE Assign(m)
      <4>2. Services!Consume(m, {Services!Reply(m, "ok")})
        BY <3>1, <4>1, AnswerShown DEF Assign, Called
      <4>3. QED
        BY <3>2, <4>1, <4>2 DEF Assign, Services!Assign, SetTimer, Services!SetTimer
    <3>4. NoCourier(m) => Services!NoCourier(m)
      <4>1. HAVE NoCourier(m)
      <4>2. Services!Consume(m, {Services!Reply(m, "failed")})
        BY <3>1, <4>1, AnswerShown DEF NoCourier, Called
      <4>3. QED
        BY <3>2, <4>1, <4>2 DEF NoCourier, Services!NoCourier, dispatchVars,
           Services!dispatchVars
    <3>5. QED
      BY <1>3, <2>2, <3>2, <3>3, <3>4 DEF Services!DispatchHandles
  <2>3. CASE Unassign(m)
    BY <2>1, <2>3 DEF Unassign, Arrives, OneCourier
  <2>4. QED
    BY <1>5, <2>2, <2>3
<1>6. ASSUME NEW o \in Orders, NEW k \in Timers, TimerFires(o, k) \/ CompleteDelivery(o, k)
      PROVE  Services!Next
  <2>1. TimerFires(o, k) => Services!TimerFires(o, k)
    BY <1>2 DEF TimerFires, Services!TimerFires, SetTimer, Services!SetTimer
  <2>2. CompleteDelivery(o, k) => Services!CompleteDelivery(o, k)
    <3>1. HAVE CompleteDelivery(o, k)
    <3>2. Delivered(o, k).step = "DeliveryDelivered" /\ Services!Delivered(o, k) = Delivered(o, k)
      BY DEF Delivered, Services!Delivered
    <3>3. ServiceMessages' = ServiceMessages \cup {Delivered(o, k)}
          /\ ServiceInbox' = ServiceInbox
      BY <3>1, <3>2 DEF CompleteDelivery, ServiceMessages, ServiceInbox
    <3>4. QED
      BY <3>1, <3>2, <3>3 DEF CompleteDelivery, Services!CompleteDelivery, SetTimer,
         Services!SetTimer
  <2>3. QED
    BY <1>1, <1>3, <1>6, <2>1, <2>2 DEF Services!DispatchHandles
<1>7. ASSUME DispatchFaults PROVE Services!Next
  <2>1. ASSUME NEW m \in inbox, NEW k \in Timers \ {1}, Redelivered(m, k)
        PROVE  Services!DispatchFaults
    <3>1. m \in ServiceInbox
      BY <2>1 DEF Redelivered, ServiceInbox, Called
    <3>2. Services!Redelivered(m, k)
      BY <1>2, <2>1, <3>1 DEF Redelivered, Services!Redelivered, SetTimer, Services!SetTimer
    <3>3. QED
      BY <1>1, <3>1, <3>2 DEF Services!DispatchFaults
  <2>2. ASSUME NEW o \in Orders, NEW k \in Timers, CompletionFails(o, k)
        PROVE  Services!DispatchFaults
    <3>1. Services!CompletionFails(o, k)
      BY <1>2, <2>2 DEF CompletionFails, Services!CompletionFails, SetTimer, Services!SetTimer
    <3>2. QED
      BY <1>1, <3>1 DEF Services!DispatchFaults
  <2>3. CASE Restart
    <3>1. Services!Restart
      BY <1>1, <1>2, <2>3 DEF Restart, Services!Restart, Services!Timers, Timers
    <3>2. Services!DispatchFaults
      BY <3>1 DEF Services!DispatchFaults
    <3>3. QED
      BY <1>4, <3>2
  <2>4. QED
    BY <1>4, <1>7, <2>1, <2>2, <2>3 DEF DispatchFaults
<1>8. QED
  BY <1>5, <1>6, <1>7 DEF Dispatching, DispatchHandles, Trouble, Shown

LEMMA CookingShown ==
    ASSUME IInv, (\E o \in Orders : Cooking(o)) \/ Upkeep
    PROVE  Shown
<1>1. UNCHANGED << paymentVars, dispatchVars >>
  BY DEF Cooking, Upkeep, paymentVars, dispatchVars
<1>2. ASSUME UNCHANGED msgVars PROVE Shown
  BY <1>1, <1>2, NothingShown DEF msgVars, ServiceInbox
<1>3. ASSUME NEW m, NEW out, m.step \notin Called, Consume(m, out),
             \A q \in out : q.step \notin Called \cup {"DeliveryDelivered"}
      PROVE  Shown
  <2>1. ServiceInbox' = ServiceInbox /\ sent' = sent \cup out
    BY <1>3 DEF Consume, ServiceInbox
  <2>2. QED
    BY <1>1, <1>3, <2>1, NothingShown
<1>4. ASSUME NEW m, NEW step \in {"ReservePortions", "AcceptOrder"}, Arrives(m, step),
             NEW s \in {"ok", "failed"}, Consume(m, {Reply(m, s)})
      PROVE  Shown
  <2>1. m \in Messages /\ m.step = step
    BY <1>4 DEF Arrives, Pending, IInv, TypeOK, MessagingTypeOK
  <2>2. Reply(m, s).step = step
    BY <2>1, ReplyFields
  <2>3. step \notin Called \cup {"DeliveryDelivered"}
    BY DEF Called
  <2>4. QED
    BY <1>3, <1>4, <2>1, <2>2, <2>3
<1>5. ASSUME NEW o \in Orders, KitchenHandles(o)
      PROVE  Shown
  <2>1. PICK m : \/ ReservePortions(m) \/ ComesUpShort(m) \/ SoldOut(m) \/ AcceptOrder(m)
                 \/ BeginRelease(m) \/ NothingToRelease(m) \/ CommitRelease(m)
    BY <1>5 DEF KitchenHandles
  <2>2. CASE ReservePortions(m) \/ SoldOut(m) \/ AcceptOrder(m)
    BY <1>4, <2>2 DEF ReservePortions, SoldOut, AcceptOrder
  <2>3. CASE ComesUpShort(m) \/ BeginRelease(m)
    BY <1>2, <2>3 DEF ComesUpShort, BeginRelease
  <2>4. CASE NothingToRelease(m)
    BY <1>3, <2>4 DEF NothingToRelease, Arrives, Called
  <2>5. CASE CommitRelease(m)
    <3>1. m.step = "ReleasePortions" /\ Consume(m, {})
      BY <2>5 DEF CommitRelease, IInv, TransactionsHaveCauses
    <3>2. QED
      BY <1>3, <3>1 DEF Called
  <2>6. QED
    BY <2>1, <2>2, <2>3, <2>4, <2>5
<1>6. CASE KitchenBackground
  BY <1>2, <1>6 DEF KitchenBackground, BeginSweep, CommitSweep, RollBack
<1>7. QED
  BY <1>5, <1>6 DEF Cooking, Upkeep

(* Of all that a transaction of the order service sends, the two services  *)
(* see one command at most: there is no assignment to take back.            *)
LEMMA OrderingShown ==
    ASSUME IInv, PursuitInv, OneCourier, (\E o \in Orders : Orchestrating(o)) \/ Customers
    PROVE  Shown
<1>1. UNCHANGED << paymentVars, dispatchVars >>
  BY DEF Orchestrating, Customers, paymentVars, dispatchVars
<1>2. OrchestratorTypeOK /\ sent \subseteq Messages
  BY DEF IInv, TypeOK, MessagingTypeOK
<1>3. ASSUME UNCHANGED << sent, inbox >> PROVE Shown
  BY <1>1, <1>3, NothingShown DEF ServiceInbox
<1>4. ASSUME NEW t \in otx, NEW out, sent' = sent \cup out, ServiceInbox' = ServiceInbox,
             "assignment" \notin t.acquired, NEW resources, out = Undo(t, resources)
      PROVE  Shown
  <2>1. t.msg.order \in Orders /\ t.msg.from \in Nat /\ t.acquired \subseteq Resources
    BY <1>2 DEF OrchestratorTypeOK, OrderTransactions, Messages, CancelRequests
  <2>2. \A c \in out : \/ c = Command("VoidPayment", t.msg.order, t.msg.from)
                       \/ c = Command("ReleasePortions", t.msg.order, t.msg.from)
    BY <1>4, <2>1 DEF Undo, Resources
  <2>3. Command("ReleasePortions", t.msg.order, t.msg.from).step
           \notin Called \cup {"DeliveryDelivered"}
    BY DEF Command, Called
  <2>4. \A c \in out : c.step \in Called \cup {"DeliveryDelivered"} =>
                       c = Command("VoidPayment", t.msg.order, t.msg.from)
    BY <2>2, <2>3
  <2>5. QED
    BY <1>1, <1>4, <2>1, <2>4, CallShown DEF Called
<1>5. ASSUME NEW o \in Orders, NEW t \in otx, t.msg.order = o, CommitReply(t)
      PROVE  Shown
  <2>1. t.msg.kind # "command" /\ t.msg.from \in Nat
    <3>1. t.msg \in sent
      BY <1>5 DEF CommitReply, PortionsReserved, PaymentAuthorized, OrderAccepted,
         CourierAssigned, PaymentCaptured, Reject, Compensate, IgnoreReply, OnDelivered,
         IgnoreDelivered, CommitMessage, Consume, Pending
    <3>2. t.msg.kind # "command"
      BY <1>5 DEF CommitReply, PortionsReserved, PaymentAuthorized, OrderAccepted,
         CourierAssigned, PaymentCaptured, Reject, Compensate, IgnoreReply, OnDelivered,
         IgnoreDelivered, IsReply
    <3>3. QED
      BY <1>2, <3>1, <3>2 DEF Messages
  <2>2. ASSUME NEW out, CommitMessage(t, out)
        PROVE  sent' = sent \cup out /\ ServiceInbox' = ServiceInbox
    BY <2>1, <2>2 DEF CommitMessage, Consume, ServiceInbox
  <2>3. CASE CommitMessage(t, {})
    BY <1>1, <2>2, <2>3, NothingShown
  <2>4. CASE CommitMessage(t, Sends(t, "AcceptOrder"))
    <3>1. \A c \in Sends(t, "AcceptOrder") : c.step \notin Called \cup {"DeliveryDelivered"}
      BY DEF Sends, Command, Called
    <3>2. QED
      BY <1>1, <2>2, <2>4, <3>1, NothingShown
  <2>5. ASSUME NEW step \in Called, CommitMessage(t, Sends(t, step))
        PROVE  Shown
    <3>1. \A c \in Sends(t, step) : c = Command(step, o, t.msg.from)
      BY <1>5 DEF Sends
    <3>2. QED
      BY <1>1, <2>1, <2>2, <2>5, <3>1, CallShown
  <2>6. CASE Compensate(t)
    <3>1. /\ CommitMessage(t, Undo(t, Resources)) /\ t.msg \in sent
          /\ t.msg.kind = "failed" /\ t.msg.step # "ReservePortions"
      BY <2>6 DEF Compensate, CommitMessage, Consume, Pending
    <3>2. "assignment" \notin t.acquired
      BY <1>5, <3>1, CourierIsLast DEF OneCourier
    <3>3. QED
      BY <1>4, <2>2, <3>1, <3>2
  <2>7. CASE ~ Compensate(t)
    <3>1. \/ CommitMessage(t, {}) \/ CommitMessage(t, Sends(t, "AcceptOrder"))
          \/ \E step \in Called : CommitMessage(t, Sends(t, step))
      BY <1>5, <2>7 DEF CommitReply, PortionsReserved, PaymentAuthorized, OrderAccepted,
         CourierAssigned, PaymentCaptured, Reject, IgnoreReply, OnDelivered, IgnoreDelivered,
         Called
    <3>2. QED
      BY <2>3, <2>4, <2>5, <3>1
  <2>8. QED
    BY <2>6, <2>7
<1>6. CASE \E o \in Orders : Orchestrating(o)
  <2>1. PICK o \in Orders : OrchestratorHandles(o)
    BY <1>6 DEF Orchestrating
  <2>2. CASE \E m \in SentFor(o) : Receive(m)
    BY <1>3, <2>2 DEF Receive, Begin
  <2>3. QED
    BY <1>5, <2>1, <2>2 DEF OrchestratorHandles
<1>7. ASSUME NEW o \in Orders, PlaceOrder(o) PROVE Shown
  <2>1. Command("ReservePortions", o, 0).step \notin Called \cup {"DeliveryDelivered"}
    BY DEF Command, Called
  <2>2. sent' = sent \cup {Command("ReservePortions", o, 0)} /\ ServiceInbox' = ServiceInbox
    BY <1>7 DEF PlaceOrder, ServiceInbox
  <2>3. QED
    BY <1>1, <2>1, <2>2, NothingShown
<1>8. ASSUME NEW t \in otx, CommitCancel(t) PROVE Shown
  <2>1. t.msg.order \in Orders /\ t.msg.from \in Nat /\ t.acquired \subseteq Resources
    BY <1>2 DEF OrchestratorTypeOK, OrderTransactions, Messages, CancelRequests
  <2>2. \A c \in Undo(t, {"payment", "reservation"}) :
           \/ c = Command("VoidPayment", t.msg.order, t.msg.from)
           \/ c = Command("ReleasePortions", t.msg.order, t.msg.from)
    BY DEF Undo
  <2>3. Command("ReleasePortions", t.msg.order, t.msg.from).step
           \notin Called \cup {"DeliveryDelivered"}
    BY DEF Command, Called
  <2>4. sent' = sent \cup Undo(t, {"payment", "reservation"}) /\ ServiceInbox' = ServiceInbox
    BY <1>8 DEF CommitCancel, ServiceInbox
  <2>5. QED
    BY <1>1, <2>1, <2>2, <2>3, <2>4, CallShown DEF Called
<1>9. CASE Customers
  BY <1>3, <1>7, <1>8, <1>9 DEF Customers, CustomerActs, RequestCancel, Begin, ReadSaga
<1>10. QED
  BY <1>6, <1>9

(* The saga is one of the callers Participants speaks of: what payment and *)
(* dispatch promise every caller, they promise the saga.                    *)
THEOREM SagaIsACaller == Spec => Services!Spec
<1>1. Init => Services!Init
  BY DEF Init, MessagingInit, PaymentInit, DispatchInit, Services!Init, Services!MessagingInit,
     Services!PaymentInit, Services!DispatchInit, ServiceMessages, ServiceInbox,
     Services!Timers, Timers
<1>2. IInv /\ PursuitInv /\ OneCourier /\ [Next]_vars => Shown
  <2> SUFFICES ASSUME IInv, PursuitInv, OneCourier, [Next]_vars PROVE Shown
    OBVIOUS
  <2>1. CASE UNCHANGED vars
    BY <2>1, NothingShown DEF vars, msgVars, ServiceInbox, paymentVars, dispatchVars
  <2>2. CASE Next
    BY <2>2, OrderingShown, CookingShown, PayingShown, DispatchingShown DEF Next
  <2>3. QED
    BY <2>1, <2>2
<1>3. QED
  BY <1>1, <1>2, InvariantHolds, PursuitHolds, OneCourierHolds, PTL DEF Spec, Services!Spec, Shown

(* So no race of the saga's cancellations and replies brings a hold back   *)
(* once it was captured, voided or refunded (authorize() of payment).       *)
THEOREM HoldsHold ==
    Spec => [][\A o \in Orders :
                 payment[o] \notin {"NONE", "AUTHORIZED"} =>
                     payment'[o] \notin {"NONE", "AUTHORIZED"}]_vars
<1> DEFINE Kept == \A o \in Orders :
                      payment[o] \notin {"NONE", "AUTHORIZED"} =>
                          payment'[o] \notin {"NONE", "AUTHORIZED"}
<1>1. Services!Spec => Services!HoldTakenOnce
  BY CallsFit, TimersAssumption, Services!HoldsHold DEF Services!CallsAssumption
<1>2. [Kept]_(Services!participantVars) => [Kept]_vars
  BY DEF Services!participantVars, Services!paymentVars
<1>3. QED
  BY <1>1, <1>2, SagaIsACaller, PTL DEF Services!HoldTakenOnce

(* And the saga hears of a delivery exactly when there was one             *)
(* (completeDelivery of dispatch).                                          *)
THEOREM DeliveriesHold == Spec => []DeliveryAnnounced
<1>1. Services!Spec => []Services!DeliveryAnnounced
  BY CallsFit, TimersAssumption, Services!DeliveriesHold DEF Services!CallsAssumption
<1>2. Services!DeliveryAnnounced => DeliveryAnnounced
  <2>1. \A o \in Orders, k \in Timers :
           /\ Services!Delivered(o, k) = Delivered(o, k)
           /\ Delivered(o, k) \in sent <=> Delivered(o, k) \in ServiceMessages
    BY DEF Services!Delivered, Delivered, ServiceMessages
  <2>2. Services!Timers = Timers
    BY DEF Services!Timers, Timers
  <2>3. QED
    BY <2>1, <2>2 DEF Services!DeliveryAnnounced, DeliveryAnnounced
<1>3. QED
  BY <1>1, <1>2, SagaIsACaller, PTL

(* An order of the saga whose payment was declined is never charged, though *)
(* the decline is answered after its transaction was rolled back: the saga *)
(* authorizes an order once, and one command is answered once (consume()). *)
THEOREM DeclinesHold == Spec => []DeclinedMeansNoHold
<1>1. Services!Spec => []Services!HoldsAreApproved
  BY CallsFit, TimersAssumption, Services!ApprovalsHold DEF Services!CallsAssumption
<1>2. IInv /\ PursuitInv /\ Services!HoldsAreApproved => DeclinedMeansNoHold
  <2> SUFFICES ASSUME IInv, PursuitInv, Services!HoldsAreApproved, NEW o \in Orders,
                      Reply(Command("AuthorizePayment", o, 0), "failed") \in sent,
                      payment[o] # "NONE"
               PROVE  FALSE
    BY DEF DeclinedMeansNoHold
  <2> DEFINE c == Command("AuthorizePayment", o, 0)
  <2>1. PICK m \in sent : m.order = o /\ m.step = "AuthorizePayment" /\ m.kind = "ok"
    BY DEF Services!HoldsAreApproved, Services!SentFor, ServiceMessages
  <2>2. m.from = 0 /\ m \in Messages
    BY <2>1, OwnMessages DEF IInv, TypeOK, MessagingTypeOK
  <2>3. m = [kind |-> "ok", step |-> "AuthorizePayment", order |-> o, from |-> 0]
    BY <2>1, <2>2, MessageFields
  <2>4. Reply(c, "ok") = m /\ [m EXCEPT !.kind = "command"] = c
    BY <2>3 DEF Reply, Command
  <2>5. c \in sent /\ c.kind = "command" /\ c.step = "AuthorizePayment"
    <3>1. [m EXCEPT !.kind = "command"] \in inbox
      BY <2>1 DEF PursuitInv
    <3>2. QED
      BY <2>4, <3>1, CommandFields DEF IInv, TypeOK, MessagingTypeOK
  <2>6. Reply(c, "ok") \in sent /\ Reply(c, "failed") \in sent
    BY <2>1, <2>4
  <2> HIDE DEF c
  <2>7. QED
    BY <2>5, <2>6 DEF IInv, AnsweredOnce, Answered, SagaSteps
<1>3. QED
  BY <1>1, <1>2, SagaIsACaller, InvariantHolds, PursuitHolds, PTL

(* Nor is the saga ever left waiting for a delivery without a timer, as    *)
(* long as dispatch neither restarts nor throws: the safety half of        *)
(* DeliveryCompletes.                                                       *)
THEOREM DeliveriesAwait ==
    ASSUME ~ MayFail
    PROVE  Spec => [](\A o \in Orders : delivery[o] = "ASSIGNED" =>
                        \E k \in Timers : timers[o][k] \in {"armed", "open"})
<1>1. Services!Spec => []Services!DeliveryAwaits
  BY CallsFit, TimersAssumption, Services!DeliveriesAwait DEF Services!CallsAssumption
<1>2. Services!DeliveryAwaits =>
         \A o \in Orders : delivery[o] = "ASSIGNED" =>
            \E k \in Timers : timers[o][k] \in {"armed", "open"}
  BY DEF Services!DeliveryAwaits, Services!Timers, Timers
<1>3. QED
  BY <1>1, <1>2, SagaIsACaller, PTL
=============================================================================
