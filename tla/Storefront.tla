----------------------------- MODULE Storefront -----------------------------
(***************************************************************************)
(* What customers do with an order besides placing and cancelling it: they *)
(* track it, rate it and open support tickets.  The order itself is the    *)
(* abstract OrderLifecycle, as long as no two writers of its status race;  *)
(* each of its steps commits with its events.                              *)
(*                                                                         *)
(* Rating is the gateway's check of the order's status, read over gRPC,    *)
(* followed by a create call to the ratings service; nothing ties the two  *)
(* together but the unique order id of the ratings table.  A request whose *)
(* gateway dies stops where it is, or goes on if the call was made; whether *)
(* its answer reaches the customer changes nothing here, and a customer who *)
(* asks again is another request.                                          *)
(***************************************************************************)
EXTENDS Reactors

CONSTANTS
    LeftBehind,         \* bound: the statuses that racing writers leave behind
    Requests,           \* the rating requests customers may send
    RatedOrder,         \* RatedOrder[r]: the order request r rates
    Entitled            \* the requests of the order's customer, for a drop in it

VARIABLES
    status,             \* status[o]: the order's status
    derailed,           \* the orders that racing writers took off the lifecycle
    request,            \* request[r]: how far request r is
    rating,             \* rating[o]: the request the order's rating came from
    tickets             \* the support tickets created

ratingVars == << request, rating >>
orderVars == << status, derailed >>
storeVars == << reactorVars, orderVars, ratingVars, tickets >>

Order == INSTANCE OrderLifecycle

OrderStatus == {"NONE", "PLACED", "PORTIONS_RESERVED", "PAYMENT_AUTHORIZED",
                "PREPARING", "COURIER_ASSIGNED", "DELIVERED", "COMPLETED",
                "CANCELLED", "REJECTED"}

ASSUME StorefrontAssumption ==
    /\ LeftBehind \subseteq OrderStatus \ {"NONE"}
    /\ RatedOrder \in [Requests -> Orders]
    /\ Entitled \subseteq Requests
    /\ "none" \notin Requests

TypeOK ==
    /\ ReactorsTypeOK
    /\ status \in [Orders -> OrderStatus]
    /\ derailed \subseteq Orders
    /\ request \in [Requests -> {"none", "refused", "checked", "taken",
                                 "created"}]
    /\ rating \in [Orders -> Requests \cup {"none"}]
    /\ tickets \subseteq Tickets

Init ==
    /\ ReactorsInit
    /\ Order!Init
    /\ derailed = {}
    /\ request = [r \in Requests |-> "none"]
    /\ rating = [o \in Orders |-> "none"]
    /\ tickets = {}
-----------------------------------------------------------------------------
(* The business event that goes with a status, if there is one.             *)
NoticeOf(s) ==
    CASE s = "PREPARING" -> {"OrderConfirmed"}
      [] s = "COMPLETED" -> {"OrderCompleted"}
      [] s = "CANCELLED" -> {"OrderCancelled"}
      [] s = "REJECTED"  -> {"OrderRejected"}
      [] OTHER           -> {}

(* Fault: the ending is announced when it is asked for.                     *)
AnnouncedAhead(o) ==
    { [kind |-> "status", about |-> o,
       is |-> IF status'[o] = "DELIVERED" THEN "COMPLETED" ELSE status'[o]] }

(* setStatus writes the event of every transition, and its callers those   *)
(* of the business; placeOrder writes none.                                 *)
Announced(o) ==
    { [kind |-> "status", about |-> o, is |-> status'[o]] } \cup
    { [kind |-> "notice", about |-> o, is |-> n] : n \in NoticeOf(status'[o]) }

(* The events commit with the rows they are about.                          *)
AnnouncesMoves ==
    Emit(UNION {Announced(o) : o \in {p \in Orders : status'[p] # status[p]}})

OrderMoves ==
    /\ Order!Next
    /\ AnnouncesMoves
    /\ UNCHANGED << derailed, rooms, seen, logged, faults, ratingVars, tickets >>

(* Two writers of the status raced, and the slower one overwrites what it   *)
(* did not see: a cancel request, or the second of two delivery events.     *)
Derail(o) ==
    /\ status[o] # "NONE"
    /\ \E s \in LeftBehind \ {status[o]} : status' = [status EXCEPT ![o] = s]
    /\ derailed' = derailed \cup {o}
    /\ AnnouncesMoves
    /\ UNCHANGED << rooms, seen, logged, faults, ratingVars, tickets >>

(* createSupportTicket: the ticket and its event in one transaction.        *)
OpenTicket(t) ==
    /\ t \notin tickets
    /\ tickets' = tickets \cup {t}
    /\ Emit({[kind |-> "ticket", about |-> t, is |-> "created"]})
    /\ UNCHANGED << rooms, seen, logged, faults, orderVars, ratingVars >>
-----------------------------------------------------------------------------
Goes(r, to) == request' = [request EXCEPT ![r] = to]

(* Fault: any order that has come to its end can be rated.                  *)
RateableEnded(r) ==
    status[RatedOrder[r]] \in {"COMPLETED", "CANCELLED", "REJECTED"} /\ r \in Entitled

Rateable(r) == status[RatedOrder[r]] = "COMPLETED" /\ r \in Entitled

(* The gateway reads the order as its customer and checks its status and   *)
(* its lines.                                                               *)
Check(r) ==
    /\ request[r] = "none"
    /\ Goes(r, IF Rateable(r) THEN "checked" ELSE "refused")
    /\ UNCHANGED << reactorVars, orderVars, rating, tickets >>

(* Fault: an upsert in the place of the create.                             *)
CreateOrReplace(r) ==
    /\ request[r] = "checked"
    /\ rating' = [rating EXCEPT ![RatedOrder[r]] = r]
    /\ Goes(r, "created")
    /\ UNCHANGED << reactorVars, orderVars, tickets >>

(* createRating: the order has no rating yet ...                            *)
Create(r) ==
    /\ request[r] = "checked"
    /\ rating[RatedOrder[r]] = "none"
    /\ rating' = [rating EXCEPT ![RatedOrder[r]] = r]
    /\ Goes(r, "created")
    /\ UNCHANGED << reactorVars, orderVars, tickets >>

(* ... or the unique order id makes it throw.                               *)
Taken(r) ==
    /\ request[r] = "checked"
    /\ rating[RatedOrder[r]] # "none"
    /\ Goes(r, "taken")
    /\ UNCHANGED << reactorVars, orderVars, rating, tickets >>

-----------------------------------------------------------------------------
Next ==
    \/ OrderMoves
    \/ \E o \in Orders : Derail(o)
    \/ \E t \in Tickets : OpenTicket(t)
    \/ \E r \in Requests : Check(r) \/ Create(r) \/ Taken(r)
    \/ /\ \/ \E e \in Events : Reacting(e) \/ RepublishEvent(e)
          \/ Sockets
          \/ GatewayDies \/ NotificationsDie
       /\ UNCHANGED << orderVars, ratingVars, tickets >>

(* The relays, the broker and the consumers keep working.                   *)
Spec ==
    /\ Init
    /\ [][Next]_storeVars
    /\ \A e \in Events :
          WF_storeVars(Reacting(e) /\ UNCHANGED << orderVars, ratingVars, tickets >>)
-----------------------------------------------------------------------------
StillCompleted(o) == status[o] = "COMPLETED" \/ o \in derailed

(* What the gateway found out stays true until the create call is made.     *)
CheckedStaysTrue ==
    \A r \in Requests :
        request[r] = "checked" =>
            r \in Entitled /\ StillCompleted(RatedOrder[r])

(* "only on a COMPLETED order": whenever an order has a rating it is of a  *)
(* drop of the order and the order is completed, although the gateway's    *)
(* check is over when the rating is created.  (Not if a racing writer took *)
(* it back, as the run late_cancel shows.)                                  *)
RatedIsCompleted ==
    \A o \in Orders :
        rating[o] # "none" => rating[o] \in Entitled /\ StillCompleted(o)

(* Of the requests that rate one order at once, or after an answer that    *)
(* was lost, one wins: who was told that the rating was created finds it   *)
(* there for good, and who was told otherwise lost against another.        *)
OneWinner ==
    \A r \in Requests :
        /\ request[r] = "created" => rating[RatedOrder[r]] = r
        /\ request[r] = "taken" => rating[RatedOrder[r]] \notin {"none", r}

(* A rating came from a request whose create call succeeded.                *)
RatedByWinner ==
    \A o \in Orders : rating[o] # "none" =>
        RatedOrder[rating[o]] = o /\ request[rating[o]] = "created"

(* The inductive invariant of the proofs: the two above need the others.    *)
StorefrontInv ==
    TypeOK /\ CheckedStaysTrue /\ RatedIsCompleted /\ OneWinner /\ RatedByWinner

(* Who was pushed COMPLETED is not told that the order is not completed:   *)
(* the event commits with the status it announces (setStatus).  Again not   *)
(* if a racing writer took it back.                                         *)
TrackerMayRate ==
    [][\A r \in {q \in Entitled : RatedOrder[q] \notin derailed} :
          request[r] = "none" /\ request'[r] = "refused" =>
              \A c \in Clients :
                  [kind |-> "status", about |-> RatedOrder[r], is |-> "COMPLETED"]
                      \notin seen[c]]_storeVars

(* Every business event and every ticket is reacted to, whatever consumer  *)
(* or relay dies (notifications acks after it has logged).                  *)
EveryoneNotified ==
    \A e \in Notifiable : event[e] = "written" ~> e \in logged

(* A socket that is in an order's room when a status change is on its way  *)
(* is pushed that change, unless it leaves or the gateway forgets the room. *)
TrackersAreTold ==
    \A c \in Clients, e \in StatusChanged :
        event[e] \in {"written", "ready"} /\ e.about \in rooms[c] ~>
            e \in seen[c] \/ e.about \notin rooms[c]
=============================================================================
