------------------------------ MODULE Payment -------------------------------
(***************************************************************************)
(* The payment service, an emulated payment gateway: one payment per       *)
(* order, authorized (held), then captured, or voided as a compensation.   *)
(* Voiding reads the status without a lock and writes later: it is two     *)
(* steps, and ptx holds the messages of the voids between them.            *)
(* A hold that the gateway declines is rolled back, and the failed reply   *)
(* is written in a second transaction that does not look the payment up    *)
(* again: between the two the command is in declined.                      *)
(***************************************************************************)
EXTENDS Contracts

VARIABLES
    payment,            \* payment[o]: the status of the order's payment
    ptx,                \* the voids that have read AUTHORIZED, not written
    declined            \* the holds declined, not yet answered

paymentVars == << payment, ptx, declined >>

PaymentStatus == {"AUTHORIZED", "CAPTURED", "VOIDED", "REFUNDED"}

PaymentTypeOK ==
    /\ payment \in [Orders -> PaymentStatus \cup {"NONE"}]
    /\ ptx \subseteq Messages
    /\ declined \subseteq Messages

PaymentInit ==
    /\ payment = [o \in Orders |-> "NONE"]
    /\ ptx = {}
    /\ declined = {}
-----------------------------------------------------------------------------
SetPayment(o, status) == payment' = [payment EXCEPT ![o] = status]

(* Definitions marked "Fault" are not the code: each is a plausible bug,   *)
(* put in the place of the definition it precedes to see a property fail.  *)

(* Fault: the order's payment is not looked up first.                       *)
AuthorizeAnew(m) ==
    /\ Arrives(m, "AuthorizePayment")
    /\ SetPayment(m.order, "AUTHORIZED")
    /\ Consume(m, {Reply(m, "ok")})
    /\ declined' = declined \ {m}
    /\ UNCHANGED ptx

(* The gateway approves the hold.                                           *)
Authorize(m) ==
    /\ Arrives(m, "AuthorizePayment")
    /\ payment[m.order] = "NONE"
    /\ SetPayment(m.order, "AUTHORIZED")
    /\ Consume(m, {Reply(m, "ok")})
    /\ declined' = declined \ {m}
    /\ UNCHANGED ptx

(* Fault: the payment created for the declined hold is not rolled back.     *)
DeclineKeepsHold(m) ==
    /\ Arrives(m, "AuthorizePayment")
    /\ payment[m.order] = "NONE"
    /\ SetPayment(m.order, "AUTHORIZED")
    /\ declined' = declined \cup {m}
    /\ UNCHANGED << msgVars, ptx >>

(* The gateway declines it: nothing is written, the look-up is over ...     *)
Decline(m) ==
    /\ Arrives(m, "AuthorizePayment")
    /\ payment[m.order] = "NONE"
    /\ declined' = declined \cup {m}
    /\ UNCHANGED << msgVars, payment, ptx >>

(* Fault: the failed reply is written without the inbox row.                *)
AnswerUnrecorded(m) ==
    /\ Arrives(m, "AuthorizePayment")
    /\ m \in declined
    /\ sent' = sent \cup {Reply(m, "failed")}
    /\ declined' = declined \ {m}
    /\ UNCHANGED << inbox, payment, ptx >>

(* ... and the failed reply is sent, whatever the payment is by then.       *)
AnswerDeclined(m) ==
    /\ Arrives(m, "AuthorizePayment")
    /\ m \in declined
    /\ Consume(m, {Reply(m, "failed")})
    /\ declined' = declined \ {m}
    /\ UNCHANGED << payment, ptx >>

(* The order has a payment: it is returned, whatever its status.            *)
AuthorizeAgain(m) ==
    /\ Arrives(m, "AuthorizePayment")
    /\ payment[m.order] # "NONE"
    /\ Consume(m, {Reply(m, "ok")})
    /\ declined' = declined \ {m}
    /\ UNCHANGED << payment, ptx >>

(* Fault: the capture is not answered.                                      *)
CaptureSilently(m) ==
    /\ Arrives(m, "CapturePayment")
    /\ SetPayment(m.order, "CAPTURED")
    /\ Consume(m, {})
    /\ UNCHANGED << ptx, declined >>

(* Capturing does not look at the status.                                   *)
Capture(m) ==
    /\ Arrives(m, "CapturePayment")
    /\ payment[m.order] # "NONE"
    /\ SetPayment(m.order, "CAPTURED")
    /\ Consume(m, {Reply(m, "ok")})
    /\ UNCHANGED << ptx, declined >>

(* Voiding: the read ...                                                    *)
BeginVoid(m) ==
    /\ Arrives(m, "VoidPayment")
    /\ payment[m.order] = "AUTHORIZED"
    /\ ptx' = ptx \cup {m}
    /\ UNCHANGED << msgVars, payment, declined >>

(* ... that finds no hold ...                                               *)
NothingToVoid(m) ==
    /\ Arrives(m, "VoidPayment")
    /\ payment[m.order] # "AUTHORIZED"
    /\ Consume(m, {})
    /\ ptx' = ptx \ {m}
    /\ UNCHANGED << payment, declined >>

(* ... and the write, whatever the status is by now.                        *)
CommitVoid(m) ==
    /\ m \in ptx
    /\ SetPayment(m.order, "VOIDED")
    /\ Consume(m, {})
    /\ ptx' = ptx \ {m}
    /\ UNCHANGED declined

(* The refund handler; the orchestrator never sends its command.  Nothing  *)
(* leaves REFUNDED but a capture, so reading and writing are one step.     *)
Refund(m) ==
    /\ Arrives(m, "RefundPayment")
    /\ payment' = [payment EXCEPT ![m.order] =
                      IF @ = "NONE" THEN @ ELSE "REFUNDED"]
    /\ Consume(m, {})
    /\ UNCHANGED << ptx, declined >>
-----------------------------------------------------------------------------
PaymentHandles(o) ==
    \E m \in SentFor(o) :
        \/ Authorize(m)
        \/ Decline(m)
        \/ AnswerDeclined(m)
        \/ AuthorizeAgain(m)
        \/ Capture(m)
        \/ BeginVoid(m)
        \/ NothingToVoid(m)
        \/ CommitVoid(m)
        \/ Refund(m)
=============================================================================
