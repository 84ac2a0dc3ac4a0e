---------------------------- MODULE Participants ----------------------------
(***************************************************************************)
(* The payment and dispatch services under any caller: whatever commands   *)
(* reach their queues, in whatever order and however often.  The saga      *)
(* sends some of them never (RefundPayment, UnassignCourier) or only once  *)
(* (AuthorizePayment); the services promise more than the saga asks.       *)
(***************************************************************************)
EXTENDS Payment, Dispatch

CONSTANT Calls          \* the << command, from >> pairs a caller may send

ASSUME CallsAssumption == Calls \subseteq (SagaSteps \cup Compensations) \X Nat

participantVars == << msgVars, paymentVars, dispatchVars >>

Init ==
    /\ MessagingInit
    /\ PaymentInit
    /\ DispatchInit

Send(o, call) ==
    /\ sent' = sent \cup {Command(call[1], o, call[2])}
    /\ UNCHANGED << inbox, paymentVars, dispatchVars >>

Next ==
    \/ \E o \in Orders :
          \/ \E call \in Calls : Send(o, call)
          \/ PaymentHandles(o) /\ UNCHANGED dispatchVars
          \/ DispatchHandles(o) /\ UNCHANGED paymentVars
    \/ DispatchFaults /\ UNCHANGED paymentVars

Spec == Init /\ [][Next]_participantVars

(* The tables and queues of the two services hold what they may hold.       *)
ParticipantsTypeOK ==
    /\ MessagingTypeOK
    /\ PaymentTypeOK
    /\ DispatchTypeOK
-----------------------------------------------------------------------------
(* "a retried authorize returns the same payment, never double-charges":   *)
(* no order of commands brings a hold back once it was captured, voided or *)
(* refunded, and a refund is undone by nothing but a late capture or void. *)
HoldTakenOnce ==
    [][\A o \in Orders :
          payment[o] \notin {"NONE", "AUTHORIZED"} =>
              payment'[o] \notin {"NONE", "AUTHORIZED"}]_participantVars

(* No money is held that no caller can give back: there is a payment       *)
(* exactly if some authorization was approved, whose answer names it.  A   *)
(* caller all of whose authorizations were declined holds nothing, however *)
(* they overlap with each other, with roll-backs and with redeliveries     *)
(* (authorize and the two transactions of consume()).                      *)
HoldsAreApproved ==
    \A o \in Orders :
        payment[o] # "NONE" <=>
            \E m \in SentFor(o) : m.step = "AuthorizePayment" /\ m.kind = "ok"

(* A courier delivers only an order whose AssignCourier was answered ok,   *)
(* however timers are lost, re-armed and raced, and only an answered order *)
(* has an assignment to cancel.                                            *)
Assigned(o) ==
    \E m \in SentFor(o) : m.step = "AssignCourier" /\ m.kind = "ok"

DeliveredWasAssigned ==
    \A o \in Orders :
        /\ \A k \in Timers : Delivered(o, k) \in sent => Assigned(o)
        /\ assignment[o] = "CANCELLED" => Assigned(o)
=============================================================================
