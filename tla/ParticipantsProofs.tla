------------------------- MODULE ParticipantsProofs -------------------------
(***************************************************************************)
(* What the payment and dispatch services promise every caller, for every  *)
(* set of orders, every set of calls and every number of timers, with or   *)
(* without restarts.                                                       *)
(***************************************************************************)
EXTENDS Participants, TLAPS

(***************************************************************************)
(* The inductive invariant.                                                *)
(***************************************************************************)

(* An answer is there only once its command was handled, so a command that *)
(* is pending is answered afresh.                                          *)
AnswersHandled ==
    \A q \in sent :
        q.kind \in {"ok", "failed"} => [q EXCEPT !.kind = "command"] \in inbox

(* Only voids wait between their read and their write.                      *)
VoidsWait == \A m \in ptx : m.kind = "command" /\ m.step = "VoidPayment"

(* The two rows of an order come together and with the answer, and a       *)
(* completion is open only where there is a delivery.                      *)
RowsAgree ==
    \A o \in Orders :
        /\ assignment[o] = "NONE" <=> delivery[o] = "NONE"
        /\ assignment[o] # "NONE" => Assigned(o)
        /\ \A k \in Timers : timers[o][k] = "open" => delivery[o] # "NONE"

IInv ==
    /\ ParticipantsTypeOK
    /\ AnswersHandled
    /\ VoidsWait
    /\ RowsAgree
    /\ DeliveryAnnounced

(***************************************************************************)
(* Types.                                                                  *)
(***************************************************************************)

(* A caller's commands are messages.                                        *)
LEMMA CallType ==
    ASSUME NEW o \in Orders, NEW call \in Calls
    PROVE  /\ Command(call[1], o, call[2]) \in Messages
           /\ Command(call[1], o, call[2]).kind = "command"
BY CallsAssumption DEF CallsAssumption, Command, Messages

(* What a service makes of a command it consumes: an answer or nothing.     *)
Outputs(m) == {{}, {Reply(m, "ok")}, {Reply(m, "failed")}}

(* The fields of an answer.                                                 *)
LEMMA ReplyFields ==
    ASSUME NEW m \in Messages, NEW s \in {"ok", "failed"}
    PROVE  /\ Reply(m, s).kind = s /\ Reply(m, s).step = m.step
           /\ Reply(m, s).order = m.order /\ Reply(m, s).from = m.from
           /\ m.step \in SagaSteps => Reply(m, s) \in Messages
           /\ m.kind = "command" => [Reply(m, s) EXCEPT !.kind = "command"] = m
<1>1. m = [kind |-> m.kind, step |-> m.step, order |-> m.order, from |-> m.from]
      /\ m.order \in Orders /\ m.from \in Nat
  BY DEF Messages
<1>2. Reply(m, s) = [kind |-> s, step |-> m.step, order |-> m.order, from |-> m.from]
  BY <1>1 DEF Reply
<1>3. QED
  BY <1>1, <1>2 DEF Messages

(* Consuming a command keeps the messaging's types and handles what it      *)
(* answers.                                                                 *)
LEMMA ConsumeKeeps ==
    ASSUME MessagingTypeOK, AnswersHandled, NEW m, m.kind = "command",
           NEW out \in Outputs(m), Consume(m, out),
           out # {} => m.step \in SagaSteps
    PROVE  /\ MessagingTypeOK' /\ AnswersHandled'
           /\ \A q \in sent' \ sent : /\ q.kind \in {"ok", "failed"} /\ q.step = m.step
                                      /\ q.order = m.order /\ out = {q}
<1>1. m \in sent /\ m \in Messages /\ sent \subseteq Messages /\ inbox \subseteq sent
      /\ sent' = sent \cup out /\ inbox' = inbox \cup {m}
  BY DEF MessagingTypeOK, Consume, Pending
<1>2. \A q \in out : \E s \in {"ok", "failed"} : q = Reply(m, s) /\ out = {q}
  BY DEF Outputs
<1>3. out \subseteq Messages
  BY <1>1, <1>2, ReplyFields
<1>4. MessagingTypeOK'
  BY <1>1, <1>3 DEF MessagingTypeOK
<1>5. \A q \in sent' \ sent : /\ q.kind \in {"ok", "failed"} /\ q.step = m.step
                              /\ q.order = m.order /\ out = {q}
  BY <1>1, <1>2, ReplyFields
<1>6. ASSUME NEW q \in sent', q.kind \in {"ok", "failed"}
      PROVE  [q EXCEPT !.kind = "command"] \in inbox'
  <2>1. CASE q \in sent
    BY <1>1, <1>6, <2>1 DEF AnswersHandled
  <2>2. CASE q \in out
    BY <1>1, <1>2, <2>2, ReplyFields
  <2>3. QED
    BY <1>1, <2>1, <2>2
<1>7. QED
  BY <1>4, <1>5, <1>6 DEF AnswersHandled

(***************************************************************************)
(* The payment service.                                                    *)
(***************************************************************************)

(* Its handlers consume commands, or read and wait.                         *)
LEMMA PaymentKeeps ==
    ASSUME IInv, NEW o \in Orders, PaymentHandles(o)
    PROVE  /\ MessagingTypeOK' /\ PaymentTypeOK' /\ AnswersHandled' /\ VoidsWait'
           /\ sent \subseteq sent' /\ \A q \in sent' \ sent : q.kind \in {"ok", "failed"}
<1>1. PICK m \in SentFor(o) : \/ Authorize(m) \/ Decline(m) \/ AnswerDeclined(m)
                              \/ AuthorizeAgain(m) \/ Capture(m) \/ BeginVoid(m)
                              \/ NothingToVoid(m) \/ CommitVoid(m) \/ Refund(m)
  BY DEF PaymentHandles
<1>2. m \in Messages /\ m.order = o /\ MessagingTypeOK /\ PaymentTypeOK
      /\ AnswersHandled /\ VoidsWait
  BY <1>1 DEF IInv, ParticipantsTypeOK, SentFor, MessagingTypeOK
<1>3. PaymentTypeOK' /\ VoidsWait'
  <2>1. CASE BeginVoid(m)
    BY <1>2, <2>1 DEF BeginVoid, Arrives, PaymentTypeOK, VoidsWait
  <2>2. CASE Authorize(m) \/ Capture(m) \/ NothingToVoid(m) \/ CommitVoid(m) \/ Refund(m)
    BY <1>2, <2>2 DEF Authorize, Capture, NothingToVoid, CommitVoid, Refund, SetPayment,
       PaymentTypeOK, PaymentStatus, VoidsWait
  <2>3. CASE Decline(m) \/ AnswerDeclined(m) \/ AuthorizeAgain(m)
    BY <1>2, <2>3 DEF Decline, AnswerDeclined, AuthorizeAgain, PaymentTypeOK, VoidsWait
  <2>4. QED
    BY <1>1, <2>1, <2>2, <2>3
<1>4. CASE BeginVoid(m) \/ Decline(m)
  BY <1>2, <1>3, <1>4 DEF BeginVoid, Decline, msgVars, MessagingTypeOK, AnswersHandled
<1>5. ASSUME NEW out \in Outputs(m), Consume(m, out), m.kind = "command",
             out # {} => m.step \in SagaSteps
      PROVE  /\ MessagingTypeOK' /\ AnswersHandled'
             /\ sent \subseteq sent' /\ \A q \in sent' \ sent : q.kind \in {"ok", "failed"}
  BY <1>2, <1>5, ConsumeKeeps DEF Consume
<1>6. {} \in Outputs(m) /\ {Reply(m, "ok")} \in Outputs(m) /\ {Reply(m, "failed")} \in Outputs(m)
  BY DEF Outputs
<1>7. CASE Authorize(m) \/ AnswerDeclined(m) \/ AuthorizeAgain(m) \/ Capture(m)
  BY <1>3, <1>5, <1>6, <1>7 DEF Authorize, AnswerDeclined, AuthorizeAgain, Capture, Arrives, SagaSteps
<1>8. CASE NothingToVoid(m) \/ Refund(m) \/ CommitVoid(m)
  BY <1>2, <1>3, <1>5, <1>6, <1>8 DEF NothingToVoid, Refund, CommitVoid, Arrives, VoidsWait
<1>9. QED
  BY <1>1, <1>4, <1>7, <1>8

(***************************************************************************)
(* The dispatch service.                                                   *)
(***************************************************************************)

(* An order that was answered stays answered.                               *)
LEMMA AssignedStable ==
    ASSUME NEW o \in Orders, Assigned(o), sent \subseteq sent'
    PROVE  Assigned(o)'
BY DEF Assigned, SentFor

(* Messages that report no delivery change nothing the rows say.            *)
LEMMA RowsUntouched ==
    ASSUME RowsAgree, DeliveryAnnounced, UNCHANGED dispatchVars,
           sent \subseteq sent', \A q \in sent' \ sent : q.kind # "event"
    PROVE  RowsAgree' /\ DeliveryAnnounced'
<1>1. \A o \in Orders, k \in Timers : Delivered(o, k) \in sent' <=> Delivered(o, k) \in sent
  BY DEF Delivered
<1>2. DeliveryAnnounced'
  BY <1>1 DEF DeliveryAnnounced, dispatchVars
<1>3. RowsAgree'
  BY AssignedStable DEF RowsAgree, dispatchVars
<1>4. QED
  BY <1>2, <1>3

(* A courier is assigned: both rows, the answer and the timer.              *)
LEMMA AssignKeeps ==
    ASSUME IInv, NEW o \in Orders, NEW m \in SentFor(o), Assign(m)
    PROVE  /\ MessagingTypeOK' /\ DispatchTypeOK' /\ AnswersHandled'
           /\ RowsAgree' /\ DeliveryAnnounced'
<1>1. m \in Messages /\ m.order = o /\ MessagingTypeOK /\ DispatchTypeOK
      /\ AnswersHandled /\ RowsAgree /\ DeliveryAnnounced
  BY DEF IInv, ParticipantsTypeOK, SentFor, MessagingTypeOK
<1>2. m.kind = "command" /\ m.step = "AssignCourier" /\ m.step \in SagaSteps
      /\ m.kind # "ok" /\ assignment[o] = "NONE"
  BY <1>1 DEF Assign, Arrives, SagaSteps
<1>3. MessagingTypeOK' /\ AnswersHandled' /\ \A q \in sent' \ sent : q.kind # "event"
  <2>1. {Reply(m, "ok")} \in Outputs(m) /\ Consume(m, {Reply(m, "ok")})
    BY DEF Outputs, Assign
  <2>2. QED
    BY <1>1, <1>2, <2>1, ConsumeKeeps
<1>4. sent' = sent \cup {Reply(m, "ok")}
  BY DEF Assign, Consume
<1>5. Assigned(o)'
  <2>1. /\ Reply(m, "ok").kind = "ok" /\ Reply(m, "ok").step = "AssignCourier"
        /\ Reply(m, "ok").order = o
    BY <1>1, <1>2, ReplyFields
  <2>2. QED
    BY <1>4, <2>1 DEF Assigned, SentFor
<1>6. /\ assignment' = [assignment EXCEPT ![o] = "ACCEPTED"]
      /\ delivery' = [delivery EXCEPT ![o] = "ASSIGNED"]
      /\ timers' = [timers EXCEPT ![o][1] = "armed"]
  BY <1>1 DEF Assign, SetTimer
<1>7. 1 \in Timers
  BY TimersAssumption DEF Timers, TimersAssumption
<1>8. DispatchTypeOK'
  BY <1>1, <1>6, <1>7 DEF DispatchTypeOK, TimerStatus
<1>9. RowsAgree'
  <2>1. ASSUME NEW p \in Orders
        PROVE  /\ assignment'[p] = "NONE" <=> delivery'[p] = "NONE"
               /\ assignment'[p] # "NONE" => Assigned(p)'
               /\ \A k \in Timers : timers'[p][k] = "open" => delivery'[p] # "NONE"
    <3>1. CASE p = o
      BY <1>1, <1>5, <1>6, <3>1 DEF DispatchTypeOK
    <3>2. CASE p # o
      <4>1. assignment'[p] = assignment[p] /\ delivery'[p] = delivery[p] /\ timers'[p] = timers[p]
        BY <1>1, <1>6, <3>2 DEF DispatchTypeOK
      <4>2. Assigned(p) => Assigned(p)'
        BY <1>4, AssignedStable
      <4>3. QED
        BY <1>1, <4>1, <4>2 DEF RowsAgree
    <3>3. QED
      BY <3>1, <3>2
  <2>2. QED
    BY <2>1 DEF RowsAgree
<1>10. DeliveryAnnounced'
  <2>1. ASSUME NEW p \in Orders
        PROVE  delivery'[p] = "DELIVERED" <=> delivery[p] = "DELIVERED"
    BY <1>1, <1>2, <1>6 DEF DispatchTypeOK, RowsAgree
  <2>2. \A p \in Orders, k \in Timers : Delivered(p, k) \in sent' <=> Delivered(p, k) \in sent
    BY <1>3, <1>4 DEF Delivered
  <2>3. QED
    BY <1>1, <2>1, <2>2 DEF DeliveryAnnounced
<1>11. QED
  BY <1>3, <1>8, <1>9, <1>10

(* No courier, or one less.                                                 *)
LEMMA UnassignKeeps ==
    ASSUME IInv, NEW o \in Orders, NEW m \in SentFor(o), NoCourier(m) \/ Unassign(m)
    PROVE  /\ MessagingTypeOK' /\ DispatchTypeOK' /\ AnswersHandled'
           /\ RowsAgree' /\ DeliveryAnnounced'
<1>1. m \in Messages /\ m.order = o /\ MessagingTypeOK /\ DispatchTypeOK
      /\ AnswersHandled /\ RowsAgree /\ DeliveryAnnounced
  BY DEF IInv, ParticipantsTypeOK, SentFor, MessagingTypeOK
<1>2. MessagingTypeOK' /\ AnswersHandled' /\ sent \subseteq sent'
      /\ \A q \in sent' \ sent : q.kind # "event"
  <2>1. ASSUME NEW out \in Outputs(m), Consume(m, out), m.kind = "command",
               out # {} => m.step \in SagaSteps
        PROVE  MessagingTypeOK' /\ AnswersHandled' /\ sent \subseteq sent'
               /\ \A q \in sent' \ sent : q.kind # "event"
    BY <1>1, <2>1, ConsumeKeeps DEF Consume
  <2>2. {} \in Outputs(m) /\ {Reply(m, "failed")} \in Outputs(m)
    BY DEF Outputs
  <2>3. QED
    BY <2>1, <2>2 DEF NoCourier, Unassign, Arrives, SagaSteps
<1>3. delivery' = delivery /\ timers' = timers /\ DispatchTypeOK'
      /\ \A p \in Orders : assignment'[p] = "NONE" <=> assignment[p] = "NONE"
  BY <1>1 DEF NoCourier, Unassign, dispatchVars, DispatchTypeOK
<1>4. RowsAgree'
  BY <1>1, <1>2, <1>3, AssignedStable DEF RowsAgree
<1>5. DeliveryAnnounced'
  <2>1. \A p \in Orders, k \in Timers : Delivered(p, k) \in sent' <=> Delivered(p, k) \in sent
    BY <1>2 DEF Delivered
  <2>2. QED
    BY <1>1, <1>3, <2>1 DEF DeliveryAnnounced
<1>6. QED
  BY <1>2, <1>3, <1>4, <1>5

(* A completion reports the delivery it writes.                             *)
LEMMA CompleteKeeps ==
    ASSUME IInv, NEW o \in Orders, NEW k \in Timers, CompleteDelivery(o, k)
    PROVE  /\ MessagingTypeOK' /\ DispatchTypeOK' /\ AnswersHandled'
           /\ RowsAgree' /\ DeliveryAnnounced'
<1>1. MessagingTypeOK /\ DispatchTypeOK /\ AnswersHandled /\ RowsAgree /\ DeliveryAnnounced
  BY DEF IInv, ParticipantsTypeOK
<1>2. /\ sent' = sent \cup {Delivered(o, k)} /\ inbox' = inbox /\ assignment' = assignment
      /\ delivery' = [delivery EXCEPT ![o] = "DELIVERED"]
      /\ timers' = [timers EXCEPT ![o][k] = "done"] /\ timers[o][k] = "open"
  BY DEF CompleteDelivery, SetTimer
<1>3. Delivered(o, k) \in Messages /\ Delivered(o, k).kind = "event"
  BY DEF Delivered, Messages, Timers
<1>4. MessagingTypeOK' /\ DispatchTypeOK'
  BY <1>1, <1>2, <1>3 DEF MessagingTypeOK, DispatchTypeOK, TimerStatus
<1>5. AnswersHandled'
  BY <1>1, <1>2, <1>3 DEF AnswersHandled
<1>6. delivery[o] # "NONE"
  BY <1>1, <1>2 DEF RowsAgree
<1>7. \A p \in Orders : delivery'[p] = "NONE" <=> delivery[p] = "NONE"
  BY <1>1, <1>2, <1>6 DEF DispatchTypeOK
<1>8. \A p \in Orders, j \in Timers : timers'[p][j] = "open" => timers[p][j] = "open"
  BY <1>1, <1>2 DEF DispatchTypeOK
<1>9. RowsAgree'
  BY <1>1, <1>2, <1>7, <1>8, AssignedStable DEF RowsAgree
<1>10. DeliveryAnnounced'
  <2>1. \A p \in Orders, j \in Timers :
           p # o => (Delivered(p, j) \in sent' <=> Delivered(p, j) \in sent)
    BY <1>2 DEF Delivered
  <2>2. \A p \in Orders : p # o => delivery'[p] = delivery[p]
    BY <1>1, <1>2 DEF DispatchTypeOK
  <2>3. delivery'[o] = "DELIVERED" /\ Delivered(o, k) \in sent'
    BY <1>1, <1>2 DEF DispatchTypeOK
  <2>4. QED
    BY <1>1, <2>1, <2>2, <2>3 DEF DeliveryAnnounced
<1>11. QED
  BY <1>4, <1>5, <1>9, <1>10

(* The steps that only move timers: one is armed, fires, fails or is        *)
(* forgotten.                                                               *)
LEMMA TimersKeep ==
    ASSUME IInv, UNCHANGED << sent, inbox, assignment, delivery >>, DispatchTypeOK',
           \A o \in Orders, k \in Timers :
              timers'[o][k] = "open" => timers[o][k] = "open" \/ delivery[o] # "NONE"
    PROVE  /\ MessagingTypeOK' /\ DispatchTypeOK' /\ AnswersHandled'
           /\ RowsAgree' /\ DeliveryAnnounced'
<1>1. MessagingTypeOK /\ AnswersHandled /\ RowsAgree /\ DeliveryAnnounced
  BY DEF IInv, ParticipantsTypeOK
<1>2. MessagingTypeOK' /\ AnswersHandled' /\ DeliveryAnnounced'
  BY <1>1 DEF MessagingTypeOK, AnswersHandled, DeliveryAnnounced
<1>3. RowsAgree'
  BY <1>1, AssignedStable DEF RowsAgree
<1>4. QED
  BY <1>2, <1>3

LEMMA DispatchKeeps ==
    ASSUME IInv, NEW o \in Orders, DispatchHandles(o)
    PROVE  /\ MessagingTypeOK' /\ DispatchTypeOK' /\ AnswersHandled'
           /\ RowsAgree' /\ DeliveryAnnounced'
<1>1. ASSUME NEW k \in Timers, TimerFires(o, k)
      PROVE  /\ MessagingTypeOK' /\ DispatchTypeOK' /\ AnswersHandled'
             /\ RowsAgree' /\ DeliveryAnnounced'
  <2>1. DispatchTypeOK
    BY DEF IInv, ParticipantsTypeOK
  <2>2. DispatchTypeOK' /\ UNCHANGED << sent, inbox, assignment, delivery >>
    BY <1>1, <2>1 DEF TimerFires, SetTimer, msgVars, DispatchTypeOK, TimerStatus
  <2>3. \A p \in Orders, j \in Timers :
           timers'[p][j] = "open" => timers[p][j] = "open" \/ delivery[p] # "NONE"
    BY <1>1, <2>1 DEF TimerFires, SetTimer, DispatchTypeOK
  <2>4. QED
    BY <2>2, <2>3, TimersKeep
<1>2. QED
  BY <1>1, AssignKeeps, UnassignKeeps, CompleteKeeps DEF DispatchHandles

LEMMA FaultsKeep ==
    ASSUME IInv, DispatchFaults
    PROVE  /\ MessagingTypeOK' /\ DispatchTypeOK' /\ AnswersHandled'
           /\ RowsAgree' /\ DeliveryAnnounced'
<1>1. DispatchTypeOK /\ MessagingTypeOK
  BY DEF IInv, ParticipantsTypeOK
<1>2. ASSUME NEW o \in Orders, NEW k \in Timers, NEW s \in {"armed", "done"}, SetTimer(o, k, s),
             UNCHANGED << sent, inbox, assignment, delivery >>
      PROVE  /\ MessagingTypeOK' /\ DispatchTypeOK' /\ AnswersHandled'
             /\ RowsAgree' /\ DeliveryAnnounced'
  <2>1. DispatchTypeOK' /\ \A p \in Orders, j \in Timers :
           timers'[p][j] = "open" => timers[p][j] = "open"
    BY <1>1, <1>2 DEF SetTimer, DispatchTypeOK, TimerStatus
  <2>2. QED
    BY <1>2, <2>1, TimersKeep
<1>3. ASSUME NEW m \in inbox, NEW k \in Timers \ {1}, Redelivered(m, k)
      PROVE  /\ MessagingTypeOK' /\ DispatchTypeOK' /\ AnswersHandled'
             /\ RowsAgree' /\ DeliveryAnnounced'
  <2>1. m.order \in Orders
    BY <1>1 DEF MessagingTypeOK, Messages
  <2>2. QED
    BY <1>2, <1>3, <2>1 DEF Redelivered, msgVars
<1>4. ASSUME NEW o \in Orders, NEW k \in Timers, CompletionFails(o, k)
      PROVE  /\ MessagingTypeOK' /\ DispatchTypeOK' /\ AnswersHandled'
             /\ RowsAgree' /\ DeliveryAnnounced'
  BY <1>2, <1>4 DEF CompletionFails, msgVars
<1>5. CASE Restart
  <2>1. UNCHANGED << sent, inbox, assignment, delivery >>
    BY <1>5 DEF Restart, msgVars
  <2>2. DispatchTypeOK' /\ \A p \in Orders, j \in Timers :
           timers'[p][j] = "open" => timers[p][j] = "open"
    BY <1>1, <1>5 DEF Restart, DispatchTypeOK, TimerStatus
  <2>3. QED
    BY <2>1, <2>2, TimersKeep
<1>6. QED
  BY <1>3, <1>4, <1>5 DEF DispatchFaults

(***************************************************************************)
(* The theorems.                                                           *)
(***************************************************************************)

LEMMA InvariantInitially == Init => IInv
<1>1. Init => MessagingTypeOK /\ PaymentTypeOK /\ DispatchTypeOK
  BY DEF Init, MessagingInit, PaymentInit, DispatchInit, MessagingTypeOK,
     PaymentTypeOK, DispatchTypeOK, TimerStatus
<1>2. Init => AnswersHandled /\ VoidsWait /\ RowsAgree /\ DeliveryAnnounced
  BY DEF Init, MessagingInit, PaymentInit, DispatchInit, AnswersHandled, VoidsWait,
     RowsAgree, DeliveryAnnounced
<1>3. QED
  BY <1>1, <1>2 DEF IInv, ParticipantsTypeOK

(* A caller's command is not an answer and reports nothing.                 *)
LEMMA SendKeeps ==
    ASSUME IInv, NEW o \in Orders, NEW call \in Calls, Send(o, call)
    PROVE  IInv'
<1> DEFINE c == Command(call[1], o, call[2])
<1>1. MessagingTypeOK /\ AnswersHandled /\ RowsAgree /\ DeliveryAnnounced
  BY DEF IInv, ParticipantsTypeOK
<1>2. sent' = sent \cup {c} /\ inbox' = inbox /\ UNCHANGED << paymentVars, dispatchVars >>
  BY DEF Send
<1>3. c \in Messages /\ c.kind = "command"
  BY CallType
<1> HIDE DEF c
<1>4. MessagingTypeOK'
  BY <1>1, <1>2, <1>3 DEF MessagingTypeOK
<1>5. AnswersHandled'
  BY <1>1, <1>2, <1>3 DEF AnswersHandled
<1>6. RowsAgree' /\ DeliveryAnnounced'
  BY <1>1, <1>2, <1>3, RowsUntouched
<1>7. QED
  BY <1>2, <1>4, <1>5, <1>6 DEF IInv, ParticipantsTypeOK, VoidsWait, paymentVars,
     PaymentTypeOK, dispatchVars, DispatchTypeOK

LEMMA InvariantKept ==
    ASSUME IInv, [Next]_participantVars
    PROVE  IInv'
<1>1. ASSUME NEW o \in Orders, PaymentHandles(o), UNCHANGED dispatchVars
      PROVE  IInv'
  <2>1. /\ MessagingTypeOK' /\ PaymentTypeOK' /\ AnswersHandled' /\ VoidsWait'
        /\ sent \subseteq sent' /\ \A q \in sent' \ sent : q.kind \in {"ok", "failed"}
    BY <1>1, PaymentKeeps
  <2>2. RowsAgree' /\ DeliveryAnnounced'
    BY <1>1, <2>1, RowsUntouched DEF IInv
  <2>3. DispatchTypeOK'
    BY <1>1 DEF IInv, ParticipantsTypeOK, DispatchTypeOK, dispatchVars
  <2>4. QED
    BY <2>1, <2>2, <2>3 DEF IInv, ParticipantsTypeOK
<1>2. ASSUME UNCHANGED paymentVars, DispatchFaults \/ \E o \in Orders : DispatchHandles(o)
      PROVE  IInv'
  <2>1. /\ MessagingTypeOK' /\ DispatchTypeOK' /\ AnswersHandled'
        /\ RowsAgree' /\ DeliveryAnnounced'
    BY <1>2, FaultsKeep, DispatchKeeps
  <2>2. PaymentTypeOK' /\ VoidsWait'
    BY <1>2 DEF IInv, ParticipantsTypeOK, PaymentTypeOK, paymentVars, VoidsWait
  <2>3. QED
    BY <2>1, <2>2 DEF IInv, ParticipantsTypeOK
<1>3. CASE UNCHANGED participantVars
  BY <1>3 DEF participantVars, msgVars, paymentVars, dispatchVars, IInv, ParticipantsTypeOK,
     MessagingTypeOK, PaymentTypeOK, DispatchTypeOK, AnswersHandled, VoidsWait, RowsAgree,
     Assigned, SentFor, DeliveryAnnounced
<1>4. QED
  BY <1>1, <1>2, <1>3, SendKeeps DEF Next

(* The rows, the answers and the events of the two services agree, under   *)
(* any caller.                                                             *)
THEOREM InvariantHolds == Spec => []IInv
<1>1. IInv /\ [Next]_participantVars => IInv'
  BY InvariantKept
<1>2. QED
  BY InvariantInitially, <1>1, PTL DEF Spec

(* The tables and queues of the two services hold what they may hold.       *)
THEOREM TypesHold == Spec => []ParticipantsTypeOK
<1>1. IInv => ParticipantsTypeOK
  BY DEF IInv
<1>2. QED
  BY InvariantHolds, <1>1, PTL

(* The delivery row and the event agree, however timers are lost, re-armed *)
(* and raced (completeDelivery writes both in one transaction).            *)
THEOREM DeliveriesHold == Spec => []DeliveryAnnounced
<1>1. IInv => DeliveryAnnounced
  BY DEF IInv
<1>2. QED
  BY InvariantHolds, <1>1, PTL

(* A courier delivers only an order whose AssignCourier was answered ok,   *)
(* and only such an order has an assignment to cancel.                     *)
THEOREM AssignmentsHold == Spec => []DeliveredWasAssigned
<1>1. ASSUME IInv
      PROVE  DeliveredWasAssigned
  <2>1. ASSUME NEW o \in Orders, NEW k \in Timers, Delivered(o, k) \in sent
        PROVE  Assigned(o)
    <3>1. delivery[o] = "DELIVERED"
      BY <1>1, <2>1 DEF IInv, DeliveryAnnounced
    <3>2. QED
      BY <1>1, <3>1 DEF IInv, RowsAgree
  <2>2. ASSUME NEW o \in Orders, assignment[o] = "CANCELLED"
        PROVE  Assigned(o)
    BY <1>1, <2>2 DEF IInv, RowsAgree
  <2>3. QED
    BY <2>1, <2>2 DEF DeliveredWasAssigned
<1>2. IInv => DeliveredWasAssigned
  BY <1>1
<1>3. QED
  BY InvariantHolds, <1>2, PTL

(* No order of commands brings a hold back once it was captured, voided or *)
(* refunded (authorize looks the order's payment up before it makes one).  *)
THEOREM HoldsHold == Spec => HoldTakenOnce
<1>1. ASSUME IInv, [Next]_participantVars, NEW o \in Orders,
             payment[o] \notin {"NONE", "AUTHORIZED"}
      PROVE  payment'[o] \notin {"NONE", "AUTHORIZED"}
  <2>1. payment \in [Orders -> PaymentStatus \cup {"NONE"}]
    BY <1>1 DEF IInv, ParticipantsTypeOK, PaymentTypeOK
  <2>2. CASE payment' = payment
    BY <1>1, <2>2
  <2>3. ASSUME NEW p \in Orders, NEW m \in SentFor(p), payment' # payment,
               \/ Authorize(m) \/ Decline(m) \/ AnswerDeclined(m)
               \/ AuthorizeAgain(m) \/ Capture(m) \/ BeginVoid(m)
               \/ NothingToVoid(m) \/ CommitVoid(m) \/ Refund(m)
        PROVE  payment'[o] \notin {"NONE", "AUTHORIZED"}
    <3>1. CASE Authorize(m)
      BY <1>1, <2>1, <3>1 DEF Authorize, SetPayment
    <3>2. CASE Capture(m) \/ CommitVoid(m) \/ Refund(m)
      BY <1>1, <2>1, <3>2 DEF Capture, CommitVoid, Refund, SetPayment
    <3>3. QED
      BY <2>3, <3>1, <3>2 DEF Decline, AnswerDeclined, AuthorizeAgain, BeginVoid, NothingToVoid
  <2>4. payment' = payment \/ \E p \in Orders : PaymentHandles(p)
    BY <1>1 DEF Next, Send, paymentVars, participantVars
  <2>5. QED
    BY <2>2, <2>3, <2>4 DEF PaymentHandles
<1>2. IInv /\ [Next]_participantVars =>
          [\A o \in Orders : payment[o] \notin {"NONE", "AUTHORIZED"} =>
              payment'[o] \notin {"NONE", "AUTHORIZED"}]_participantVars
  BY <1>1
<1>3. QED
  BY InvariantHolds, <1>2, PTL DEF Spec, HoldTakenOnce

(* A void that has read found a hold, and nothing takes the row away.       *)
VoidsFound == \A m \in ptx : payment[m.order] # "NONE"

(* A message of another step approves nothing.                              *)
LEMMA ApprovalsKeep ==
    ASSUME HoldsAreApproved, UNCHANGED payment, sent \subseteq sent',
           \A q \in sent' \ sent : q.step # "AuthorizePayment" \/ q.kind # "ok"
    PROVE  HoldsAreApproved'
BY DEF HoldsAreApproved, SentFor

(* What the payment handlers do to the payments and their approvals.        *)
LEMMA PaymentsApproved ==
    ASSUME IInv, HoldsAreApproved, VoidsFound, NEW o \in Orders, PaymentHandles(o)
    PROVE  HoldsAreApproved' /\ VoidsFound'
<1>1. PICK m \in SentFor(o) : \/ Authorize(m) \/ Decline(m) \/ AnswerDeclined(m)
                              \/ AuthorizeAgain(m) \/ Capture(m) \/ BeginVoid(m)
                              \/ NothingToVoid(m) \/ CommitVoid(m) \/ Refund(m)
  BY DEF PaymentHandles
<1>2. /\ m \in Messages /\ m.order = o /\ PaymentTypeOK /\ VoidsWait
      /\ \A q \in ptx : q.order \in Orders
      /\ payment \in [Orders -> PaymentStatus \cup {"NONE"}]
  BY <1>1 DEF IInv, ParticipantsTypeOK, SentFor, MessagingTypeOK, PaymentTypeOK, Messages
<1>3. \A s \in {"ok", "failed"} :
         /\ Reply(m, s).kind = s /\ Reply(m, s).step = m.step /\ Reply(m, s).order = o
  BY <1>2, ReplyFields
<1>4. CASE Authorize(m) \/ AuthorizeAgain(m)
  <2>1. /\ payment' = [payment EXCEPT ![o] = payment'[o]] /\ payment'[o] # "NONE"
        /\ sent' = sent \cup {Reply(m, "ok")} /\ ptx' = ptx /\ m.step = "AuthorizePayment"
    BY <1>2, <1>4 DEF Authorize, AuthorizeAgain, SetPayment, Consume, Arrives
  <2>2. HoldsAreApproved'
    <3>1. ASSUME NEW p \in Orders, p # o
          PROVE  SentFor(p)' = SentFor(p) /\ payment'[p] = payment[p]
      BY <1>2, <1>3, <2>1, <3>1 DEF SentFor
    <3>2. Reply(m, "ok") \in SentFor(o)'
      BY <1>3, <2>1 DEF SentFor
    <3>3. QED
      BY <1>3, <2>1, <3>1, <3>2 DEF HoldsAreApproved
  <2>3. QED
    BY <1>2, <2>1, <2>2 DEF VoidsFound
<1>5. CASE Capture(m) \/ CommitVoid(m) \/ Refund(m)
  <2>1. payment[o] # "NONE" \/ (payment[o] = "NONE" /\ Refund(m))
    BY <1>2, <1>5 DEF Capture, CommitVoid, VoidsFound
  <2>2. /\ \A p \in Orders : payment'[p] # "NONE" <=> payment[p] # "NONE"
        /\ ptx' \subseteq ptx
    BY <1>2, <1>5, <2>1 DEF Capture, CommitVoid, Refund, SetPayment
  <2>3. /\ sent \subseteq sent' /\ sent' \subseteq sent \cup {Reply(m, "ok")}
        /\ m.step # "AuthorizePayment"
    BY <1>2, <1>5 DEF Capture, CommitVoid, Refund, Consume, Arrives, VoidsWait
  <2>4. \A p \in Orders, q \in sent' \ sent : q.step # "AuthorizePayment"
    BY <1>3, <2>3
  <2>5. QED
    BY <1>2, <2>2, <2>3, <2>4 DEF HoldsAreApproved, VoidsFound, SentFor
<1>6. CASE Decline(m) \/ AnswerDeclined(m) \/ BeginVoid(m) \/ NothingToVoid(m)
  <2>1. /\ UNCHANGED payment /\ sent \subseteq sent'
        /\ \A q \in sent' \ sent : q.kind # "ok"
    BY <1>3, <1>6 DEF Decline, AnswerDeclined, BeginVoid, NothingToVoid, Consume, msgVars
  <2>2. \A q \in ptx' : q \in ptx \/ (q = m /\ payment[o] # "NONE")
    BY <1>6, <1>2 DEF Decline, AnswerDeclined, BeginVoid, NothingToVoid
  <2>3. QED
    BY <1>2, <2>1, <2>2, ApprovalsKeep DEF VoidsFound
<1>7. QED
  BY <1>1, <1>4, <1>5, <1>6

(* Dispatch answers no authorization.                                       *)
LEMMA DispatchApprovesNone ==
    ASSUME IInv, DispatchFaults \/ \E o \in Orders : DispatchHandles(o)
    PROVE  sent \subseteq sent' /\ \A q \in sent' \ sent : q.step # "AuthorizePayment"
<1>1. \A o \in Orders, k \in Timers : Delivered(o, k).step # "AuthorizePayment"
  BY DEF Delivered
<1>2. \A m \in sent, s \in {"ok", "failed"} : Reply(m, s).step = m.step
  BY ReplyFields DEF IInv, ParticipantsTypeOK, MessagingTypeOK
<1>3. CASE DispatchFaults
  BY <1>3 DEF DispatchFaults, Redelivered, CompletionFails, Restart, msgVars
<1>4. ASSUME NEW o \in Orders, DispatchHandles(o)
      PROVE  sent \subseteq sent' /\ \A q \in sent' \ sent : q.step # "AuthorizePayment"
  <2>1. CASE \E m \in SentFor(o) : Assign(m) \/ NoCourier(m) \/ Unassign(m)
    BY <1>2, <2>1 DEF Assign, NoCourier, Unassign, Arrives, Consume, SentFor
  <2>2. CASE \E k \in Timers : TimerFires(o, k) \/ CompleteDelivery(o, k)
    BY <1>1, <1>4, <2>2 DEF TimerFires, CompleteDelivery, msgVars
  <2>3. QED
    BY <1>4, <2>1, <2>2 DEF DispatchHandles
<1>5. QED
  BY <1>3, <1>4

(* An order has a payment exactly if an authorization was answered ok, also *)
(* where another one was declined in a transaction that was rolled back and *)
(* is answered in a second one (authorize, consume).                        *)
THEOREM ApprovalsHold == Spec => []HoldsAreApproved
<1> DEFINE Inv == HoldsAreApproved /\ VoidsFound
<1>1. Init => Inv
  BY DEF Init, MessagingInit, PaymentInit, HoldsAreApproved, VoidsFound, SentFor
<1>2. IInv /\ Inv /\ [Next]_participantVars => Inv'
  <2> SUFFICES ASSUME IInv, Inv, [Next]_participantVars PROVE Inv'
    OBVIOUS
  <2>1. ASSUME NEW o \in Orders, NEW call \in Calls, Send(o, call) PROVE Inv'
    <3>1. /\ sent' = sent \cup {Command(call[1], o, call[2])}
          /\ UNCHANGED << payment, ptx >> /\ Command(call[1], o, call[2]).kind # "ok"
      BY <2>1, CallType DEF Send, paymentVars
    <3>2. QED
      BY <3>1, ApprovalsKeep DEF VoidsFound
  <2>2. ASSUME UNCHANGED paymentVars,
               DispatchFaults \/ (\E o \in Orders : DispatchHandles(o)) \/ UNCHANGED participantVars
        PROVE  Inv'
    <3>1. sent \subseteq sent' /\ \A q \in sent' \ sent : q.step # "AuthorizePayment"
      BY <2>2, DispatchApprovesNone DEF participantVars, msgVars
    <3>2. QED
      BY <2>2, <3>1, ApprovalsKeep DEF VoidsFound, paymentVars
  <2>3. QED
    BY <2>1, <2>2, PaymentsApproved DEF Next, participantVars
<1> HIDE DEF Inv
<1>3. Inv => HoldsAreApproved
  BY DEF Inv
<1>4. QED
  BY InvariantHolds, <1>1, <1>2, <1>3, PTL DEF Spec

(* As long as the process runs and no completion throws, a delivery that   *)
(* is under way has a timer that will complete it, whichever of its timers *)
(* fire meanwhile (assign arms one, completeDelivery reads ASSIGNED).       *)
DeliveryAwaits ==
    \A o \in Orders : delivery[o] = "ASSIGNED" =>
        \E k \in Timers : timers[o][k] \in {"armed", "open"}

LEMMA TimerKeepsAwaits ==
    ASSUME DispatchTypeOK, DeliveryAwaits, NEW o \in Orders, NEW k \in Timers,
           NEW s \in TimerStatus, SetTimer(o, k, s),
           UNCHANGED delivery,
           s \in {"armed", "open"} \/ delivery[o] # "ASSIGNED"
    PROVE  DeliveryAwaits'
<1> SUFFICES ASSUME NEW p \in Orders, delivery[p] = "ASSIGNED"
             PROVE  \E j \in Timers : timers'[p][j] \in {"armed", "open"}
  BY DEF DeliveryAwaits
<1>1. PICK j \in Timers : timers[p][j] \in {"armed", "open"}
  BY DEF DeliveryAwaits
<1>2. CASE p = o /\ j = k
  BY <1>2 DEF SetTimer, DispatchTypeOK
<1>3. CASE p # o \/ j # k
  BY <1>1, <1>3 DEF SetTimer, DispatchTypeOK
<1>4. QED
  BY <1>2, <1>3

THEOREM DeliveriesAwait ==
    ASSUME ~ MayFail
    PROVE  Spec => []DeliveryAwaits
<1>1. Init => DeliveryAwaits
  BY DEF Init, DispatchInit, DeliveryAwaits
<1>2. IInv /\ DeliveryAwaits /\ [Next]_participantVars => DeliveryAwaits'
  <2> SUFFICES ASSUME IInv, DeliveryAwaits, [Next]_participantVars PROVE DeliveryAwaits'
    OBVIOUS
  <2>1. DispatchTypeOK /\ \A m \in sent : m.order \in Orders
    BY DEF IInv, ParticipantsTypeOK, MessagingTypeOK, Messages
  <2>2. CASE UNCHANGED dispatchVars
    BY <2>2 DEF dispatchVars, DeliveryAwaits
  <2>3. ASSUME NEW m \in sent, Assign(m) PROVE DeliveryAwaits'
    <3> DEFINE o == m.order
    <3>1. /\ o \in Orders /\ 1 \in Timers
          /\ timers' = [timers EXCEPT ![o][1] = "armed"]
          /\ delivery' = [delivery EXCEPT ![o] = "ASSIGNED"]
      BY <2>1, <2>3, TimersAssumption DEF Assign, SetTimer, Timers
    <3> HIDE DEF o
    <3>2. timers'[o][1] = "armed"
      BY <2>1, <3>1 DEF DispatchTypeOK
    <3>3. ASSUME NEW p \in Orders, p # o, delivery'[p] = "ASSIGNED"
          PROVE  \E j \in Timers : timers'[p][j] \in {"armed", "open"}
      <4>1. delivery[p] = "ASSIGNED" /\ timers'[p] = timers[p]
        BY <2>1, <3>1, <3>3 DEF DispatchTypeOK
      <4>2. QED
        BY <4>1 DEF DeliveryAwaits
    <3>4. QED
      BY <3>1, <3>2, <3>3 DEF DeliveryAwaits
  <2>4. ASSUME NEW o \in Orders, NEW k \in Timers, TimerFires(o, k) PROVE DeliveryAwaits'
    <3>1. CASE delivery[o] = "ASSIGNED"
      BY <2>1, <2>4, <3>1, TimerKeepsAwaits DEF TimerFires, TimerStatus
    <3>2. CASE delivery[o] # "ASSIGNED"
      BY <2>1, <2>4, <3>2, TimerKeepsAwaits DEF TimerFires, TimerStatus
    <3>3. QED
      BY <3>1, <3>2
  <2>5. ASSUME NEW o \in Orders, NEW k \in Timers, CompleteDelivery(o, k) PROVE DeliveryAwaits'
    <3>1. /\ delivery' = [delivery EXCEPT ![o] = "DELIVERED"]
          /\ timers' = [timers EXCEPT ![o][k] = "done"]
      BY <2>5 DEF CompleteDelivery, SetTimer
    <3>2. ASSUME NEW p \in Orders, delivery'[p] = "ASSIGNED"
          PROVE  \E j \in Timers : timers'[p][j] \in {"armed", "open"}
      <4>1. delivery[p] = "ASSIGNED" /\ timers'[p] = timers[p]
        BY <2>1, <3>1, <3>2 DEF DispatchTypeOK
      <4>2. QED
        BY <4>1 DEF DeliveryAwaits
    <3>3. QED
      BY <3>2 DEF DeliveryAwaits
  <2>6. ASSUME NEW m \in inbox, NEW k \in Timers, Redelivered(m, k) PROVE DeliveryAwaits'
    <3>1. m.order \in Orders
      BY <2>1 DEF IInv, ParticipantsTypeOK, MessagingTypeOK
    <3>2. QED
      BY <2>1, <2>6, <3>1, TimerKeepsAwaits DEF Redelivered, TimerStatus
  <2>7. ASSUME NEW m, NoCourier(m) \/ Unassign(m) PROVE DeliveryAwaits'
    BY <2>7 DEF NoCourier, Unassign, dispatchVars, DeliveryAwaits
  <2>8. CASE DispatchFaults
    BY <2>6, <2>8 DEF DispatchFaults, CompletionFails, Restart
  <2>9. CASE \E o \in Orders : DispatchHandles(o)
    BY <2>3, <2>4, <2>5, <2>7, <2>9 DEF DispatchHandles, SentFor
  <2>10. QED
    BY <2>2, <2>8, <2>9 DEF Next, Send, participantVars
<1>3. QED
  BY <1>1, <1>2, InvariantHolds, PTL DEF Spec
=============================================================================
