-------------------------- MODULE StorefrontProofs --------------------------
(***************************************************************************)
(* Ratings, for any number of orders, requests, sockets and faults: the    *)
(* gateway's check and the create call are two steps, and what makes them  *)
(* right is that COMPLETED is an order's last status, unless two writers   *)
(* race, and that the ratings table takes one row per order.               *)
(***************************************************************************)
EXTENDS Storefront, TLAPS

(* The status of an order moves along the lifecycle and keeps COMPLETED.    *)
LEMMA OrderSteps ==
    ASSUME status \in [Orders -> OrderStatus], Order!Next
    PROVE  /\ status' \in [Orders -> OrderStatus]
           /\ \A o \in Orders : status[o] = "COMPLETED" => status'[o] = "COMPLETED"
<1>1. PICK o \in Orders :
         Order!Place(o) \/ Order!Prepare(o) \/ Order!Deliver(o) \/ Order!Settle(o)
            \/ Order!Fail(o) \/ Order!Cancel(o)
  BY DEF Order!Next
<1>2. \E from \in OrderStatus \ {"COMPLETED"}, to \in OrderStatus :
         status[o] = from /\ status' = [status EXCEPT ![o] = to]
  BY <1>1 DEF Order!Place, Order!Prepare, Order!Deliver, Order!Settle, Order!Fail,
              Order!Cancel, Order!Move, OrderStatus
<1> QED
  BY <1>1, <1>2

(* The state of an event stays one of the six, whoever moves it.            *)
LEMMA EventTypes ==
    ASSUME TypeOK
    PROVE  /\ \A e \in Events, to \in {"none", "written", "ready", "received",
                                       "reacted", "acked"} :
                 Moves(e, to) => event' \in [Events -> {"none", "written", "ready",
                                             "received", "reacted", "acked"}]
           /\ \A es : Emit(es) => event' \in [Events -> {"none", "written", "ready",
                                             "received", "reacted", "acked"}]
           /\ \A es : Redeliver(es) => event' \in [Events -> {"none", "written", "ready",
                                             "received", "reacted", "acked"}]
           /\ Fault => faults' \in Nat
  BY DEF TypeOK, ReactorsTypeOK, Moves, Emit, Redeliver, Fault

(* So does the state of the consumers, in all their steps.                  *)
LEMMA ReactingTypes ==
    ASSUME TypeOK,
           \/ \E e \in Events : Reacting(e) \/ RepublishEvent(e)
           \/ Sockets
           \/ GatewayDies \/ NotificationsDie
    PROVE  ReactorsTypeOK'
<1>1. CASE \E e \in Events : PublishEvent(e) \/ RepublishEvent(e) \/ ReceiveEvent(e)
                                \/ AckEvent(e)
  BY <1>1, EventTypes
     DEF PublishEvent, RepublishEvent, ReceiveEvent, AckEvent, TypeOK, ReactorsTypeOK
<1>2. CASE \E e \in Events : EmitStatus(e)
  BY <1>2, EventTypes DEF EmitStatus, TypeOK, ReactorsTypeOK
<1>3. CASE \E e \in Events : Notify(e)
  BY <1>3, EventTypes DEF Notify, TypeOK, ReactorsTypeOK
<1>4. CASE Sockets
  BY <1>4 DEF Sockets, Track, Disconnect, TypeOK, ReactorsTypeOK
<1>5. CASE NotificationsDie
  BY <1>5, EventTypes DEF NotificationsDie, TypeOK, ReactorsTypeOK
<1>6. CASE GatewayDies
  BY <1>6, EventTypes DEF GatewayDies, TypeOK, ReactorsTypeOK
<1> QED
  BY <1>1, <1>2, <1>3, <1>4, <1>5, <1>6 DEF Reacting

(* The invariant holds when nothing has been ordered or rated.              *)
LEMMA StorefrontInvInit == Init => StorefrontInv
<1> SUFFICES ASSUME Init PROVE StorefrontInv
  OBVIOUS
<1>1. TypeOK
  BY ReactorsAssumption
     DEF Init, ReactorsInit, Order!Init, TypeOK, ReactorsTypeOK, OrderStatus
<1> QED
  BY <1>1, StorefrontAssumption
     DEF Init, StorefrontInv, CheckedStaysTrue, RatedIsCompleted, OneWinner, RatedByWinner

(* A step that leaves the requests and the ratings alone and takes no       *)
(* order's completion back keeps the invariant, if it keeps the types.      *)
LEMMA RatingsUndisturbed ==
    ASSUME StorefrontInv, TypeOK', UNCHANGED << request, rating >>,
           derailed \subseteq derailed',
           \A o \in Orders : StillCompleted(o) => StillCompleted(o)'
    PROVE  StorefrontInv'
  BY StorefrontAssumption
     DEF StorefrontInv, CheckedStaysTrue, RatedIsCompleted, OneWinner, RatedByWinner, TypeOK

(* Every step keeps it: an order moves, two writers race, a request is      *)
(* checked or creates, a consumer reacts or dies.                           *)
LEMMA StorefrontInvStep == StorefrontInv /\ [Next]_storeVars => StorefrontInv'
<1> SUFFICES ASSUME StorefrontInv, [Next]_storeVars PROVE StorefrontInv'
  OBVIOUS
<1> USE StorefrontAssumption
<1>0. TypeOK
  BY DEF StorefrontInv
<1>1. CASE OrderMoves
  <2>1. /\ status' \in [Orders -> OrderStatus]
        /\ \A o \in Orders : status[o] = "COMPLETED" => status'[o] = "COMPLETED"
    BY <1>0, <1>1, OrderSteps DEF OrderMoves, TypeOK
  <2>2. TypeOK'
    BY <1>0, <1>1, <2>1, EventTypes
       DEF OrderMoves, AnnouncesMoves, TypeOK, ReactorsTypeOK, ratingVars
  <2> QED
    BY <1>1, <2>1, <2>2, RatingsUndisturbed DEF OrderMoves, ratingVars, StillCompleted
<1>2. CASE \E t \in Tickets : OpenTicket(t)
  <2>1. TypeOK'
    BY <1>0, <1>2, EventTypes DEF OpenTicket, TypeOK, ReactorsTypeOK, orderVars, ratingVars
  <2> QED
    BY <1>2, <2>1, RatingsUndisturbed DEF OpenTicket, orderVars, ratingVars, StillCompleted
<1>3. ASSUME NEW r \in Requests, Check(r) \/ Taken(r) \/ Create(r)
      PROVE  StorefrontInv'
  <2>1. TypeOK'
    BY <1>0, <1>3
       DEF Check, Taken, Create, Goes, TypeOK, ReactorsTypeOK, reactorVars, orderVars
  <2> USE DEF Goes, orderVars, StillCompleted, StorefrontInv, CheckedStaysTrue,
              RatedIsCompleted, OneWinner, RatedByWinner, TypeOK
  <2>2. CASE Check(r)
    BY <2>1, <2>2 DEF Check, Rateable
  <2>3. CASE Taken(r)
    <3>1. rating[RatedOrder[r]] # r
      BY <2>3 DEF Taken
    <3> QED
      BY <2>1, <2>3, <3>1 DEF Taken
  <2>4. CASE Create(r)
    BY <2>1, <2>4 DEF Create
  <2> QED
    BY <1>3, <2>2, <2>3, <2>4
<1>4. ASSUME NEW o \in Orders, Derail(o)
      PROVE  StorefrontInv'
  <2>1. TypeOK'
    BY <1>0, <1>4, EventTypes
       DEF Derail, AnnouncesMoves, TypeOK, ReactorsTypeOK, ratingVars
  <2> QED
    BY <1>4, <2>1, RatingsUndisturbed DEF Derail, ratingVars, StillCompleted, TypeOK
<1>5. CASE /\ \/ \E e \in Events : Reacting(e) \/ RepublishEvent(e)
              \/ Sockets
              \/ GatewayDies \/ NotificationsDie
           /\ UNCHANGED << orderVars, ratingVars, tickets >>
  <2>1. TypeOK'
    BY <1>0, <1>5, ReactingTypes DEF TypeOK, orderVars, ratingVars
  <2> QED
    BY <1>5, <2>1, RatingsUndisturbed DEF orderVars, ratingVars, StillCompleted
<1>6. CASE UNCHANGED storeVars
  <2>1. TypeOK'
    BY <1>0, <1>6 DEF storeVars, reactorVars, orderVars, ratingVars, TypeOK, ReactorsTypeOK
  <2> QED
    BY <1>6, <2>1, RatingsUndisturbed DEF storeVars, orderVars, ratingVars, StillCompleted
<1> QED
  BY <1>1, <1>2, <1>3, <1>4, <1>5, <1>6 DEF Next

(* The invariant of the storefront holds in every behaviour: the gateway's *)
(* check is still true when it creates the rating.                          *)
THEOREM StorefrontInvHolds == Spec => []StorefrontInv
<1>1. Init => StorefrontInv
  BY StorefrontInvInit
<1>2. StorefrontInv /\ [Next]_storeVars => StorefrontInv'
  BY StorefrontInvStep
<1> QED
  BY <1>1, <1>2, PTL DEF Spec

(* Only completed orders have ratings, of a drop in the order and by its   *)
(* customer (rate, createRating).                                           *)
THEOREM RatedOrdersAreCompleted == Spec => []RatedIsCompleted
<1>1. StorefrontInv => RatedIsCompleted
  BY DEF StorefrontInv
<1> QED
  BY <1>1, StorefrontInvHolds, PTL

(* Of the requests that rate one order, one wins and keeps its rating; the *)
(* unique order id of the ratings table turns the others away.              *)
THEOREM OneRequestWins == Spec => []OneWinner
<1>1. StorefrontInv => OneWinner
  BY DEF StorefrontInv
<1> QED
  BY <1>1, StorefrontInvHolds, PTL

(***************************************************************************)
(* What the sockets are told.                                              *)
(***************************************************************************)

(* An event that says an order is completed is there only once it is, and   *)
(* a socket is pushed only what was written to the outbox.                  *)
EventsTrue ==
    \A e \in StatusChanged :
        /\ e.is = "COMPLETED" /\ event[e] # "none" => StillCompleted(e.about)
        /\ \A c \in Clients : e \in seen[c] => event[e] # "none"

LEMMA EventsTrueInit == Init => EventsTrue
  BY DEF Init, ReactorsInit, EventsTrue, StatusChanged, Events

(* Events are not forgotten, and what is written is true of the new rows.   *)
LEMMA EventsTrueKept ==
    ASSUME EventsTrue,
           \A o \in Orders : StillCompleted(o) => StillCompleted(o)',
           \A e \in StatusChanged :
              /\ event[e] # "none" => event'[e] # "none"
              /\ e.is = "COMPLETED" /\ event'[e] # "none" =>
                    event[e] # "none" \/ status'[e.about] = "COMPLETED"
              /\ \A c \in Clients : e \in seen'[c] => e \in seen[c] \/ event[e] # "none"
    PROVE  EventsTrue'
<1>1. ASSUME NEW e \in StatusChanged
      PROVE  /\ e.is = "COMPLETED" /\ event'[e] # "none" => StillCompleted(e.about)'
             /\ \A c \in Clients : e \in seen'[c] => event'[e] # "none"
  <2>1. e.about \in Orders
    BY DEF StatusChanged
  <2>2. status'[e.about] = "COMPLETED" => StillCompleted(e.about)'
    BY DEF StillCompleted
  <2>3. e.is = "COMPLETED" /\ event[e] # "none" => StillCompleted(e.about)'
    BY <2>1 DEF EventsTrue
  <2>4. QED
    BY <2>2, <2>3 DEF EventsTrue
<1>2. QED
  BY <1>1 DEF EventsTrue

(* A completed order stays completed, until writers race.                   *)
LEMMA CompletedStable ==
    ASSUME TypeOK, [Next]_storeVars
    PROVE  \A o \in Orders : StillCompleted(o) => StillCompleted(o)'
<1>1. CASE OrderMoves
  BY <1>1, OrderSteps DEF OrderMoves, TypeOK, StillCompleted
<1>2. ASSUME NEW o \in Orders, Derail(o)
      PROVE  \A p \in Orders : StillCompleted(p) => StillCompleted(p)'
  BY <1>2 DEF Derail, TypeOK, StillCompleted
<1>3. CASE UNCHANGED orderVars
  BY <1>3 DEF orderVars, StillCompleted
<1>4. QED
  BY <1>1, <1>2, <1>3 DEF Next, OpenTicket, Check, Create, Taken, storeVars

(* What a transition of an order writes is about its new status.            *)
LEMMA MovesAnnounced ==
    ASSUME TypeOK, AnnouncesMoves, NEW e \in StatusChanged
    PROVE  /\ event[e] # "none" => event'[e] # "none"
           /\ e.is = "COMPLETED" /\ event'[e] # "none" =>
                 event[e] # "none" \/ status'[e.about] = "COMPLETED"
<1> DEFINE es == UNION {Announced(o) : o \in {p \in Orders : status'[p] # status[p]}}
<1>1. e \in Events /\ e.kind = "status"
  BY DEF Events, StatusChanged
<1>2. event'[e] = IF e \in es /\ event[e] = "none" THEN "written" ELSE event[e]
  BY <1>1 DEF AnnouncesMoves, Emit
<1>3. ASSUME NEW o \in Orders, e \in Announced(o), e.is = "COMPLETED"
      PROVE  status'[e.about] = "COMPLETED"
  <2>1. e = [kind |-> "status", about |-> o, is |-> status'[o]]
    BY <1>1, <1>3 DEF Announced
  <2>2. QED
    BY <1>3, <2>1
<1>4. QED
  BY <1>2, <1>3

(* A consumer moves events that are on their way, and a socket is pushed    *)
(* one of them.                                                             *)
LEMMA ReactingMoves ==
    ASSUME TypeOK,
           \/ \E e \in Events : Reacting(e) \/ RepublishEvent(e)
           \/ Sockets
           \/ GatewayDies \/ NotificationsDie
    PROVE  \A e \in StatusChanged :
              /\ event'[e] # "none" <=> event[e] # "none"
              /\ \A c \in Clients : e \in seen'[c] => e \in seen[c] \/ event[e] # "none"
<1>1. /\ event = [e \in Events |-> event[e]] /\ StatusChanged \subseteq Events
      /\ seen = [c \in Clients |-> seen[c]]
  BY DEF TypeOK, ReactorsTypeOK, Events
<1>2. ASSUME NEW e \in Events, NEW to, to # "none", event[e] # "none", Moves(e, to)
      PROVE  \A q \in StatusChanged : event'[q] # "none" <=> event[q] # "none"
  BY <1>1, <1>2 DEF Moves
<1>3. CASE \E e \in Events : PublishEvent(e) \/ RepublishEvent(e) \/ ReceiveEvent(e)
                                \/ AckEvent(e) \/ Notify(e)
  BY <1>2, <1>3 DEF PublishEvent, RepublishEvent, ReceiveEvent, AckEvent, Notify
<1>4. ASSUME NEW e \in Events, EmitStatus(e)
      PROVE  \A q \in StatusChanged :
                /\ event'[q] # "none" <=> event[q] # "none"
                /\ \A c \in Clients : q \in seen'[c] => q \in seen[c] \/ event[q] # "none"
  BY <1>1, <1>2, <1>4 DEF EmitStatus
<1>5. CASE Sockets
  BY <1>5 DEF Sockets, Track, Disconnect
<1>6. CASE NotificationsDie \/ GatewayDies
  BY <1>1, <1>6 DEF NotificationsDie, GatewayDies, Redeliver
<1>7. QED
  BY <1>3, <1>4, <1>5, <1>6 DEF Reacting

LEMMA EventsTrueStep == TypeOK /\ EventsTrue /\ [Next]_storeVars => EventsTrue'
<1> SUFFICES ASSUME TypeOK, EventsTrue, [Next]_storeVars
             PROVE  EventsTrue'
  OBVIOUS
<1>1. \A o \in Orders : StillCompleted(o) => StillCompleted(o)'
  BY CompletedStable
<1>2. CASE AnnouncesMoves /\ seen' = seen
  BY <1>1, <1>2, MovesAnnounced, EventsTrueKept
<1>3. ASSUME NEW t \in Tickets, OpenTicket(t)
      PROVE  EventsTrue'
  <2>1. \A e \in StatusChanged : event'[e] = event[e] /\ seen' = seen
    BY <1>3 DEF OpenTicket, Emit, StatusChanged, Events
  <2>2. QED
    BY <1>1, <2>1, EventsTrueKept
<1>4. CASE event' = event /\ seen' = seen
  BY <1>1, <1>4, EventsTrueKept
<1>5. CASE \/ \E e \in Events : Reacting(e) \/ RepublishEvent(e)
           \/ Sockets
           \/ GatewayDies \/ NotificationsDie
  <2>1. \A e \in StatusChanged :
           /\ event'[e] # "none" <=> event[e] # "none"
           /\ \A c \in Clients : e \in seen'[c] => e \in seen[c] \/ event[e] # "none"
    BY <1>5, ReactingMoves
  <2>2. QED
    BY <1>1, <2>1, EventsTrueKept
<1>6. QED
  BY <1>2, <1>3, <1>4, <1>5 DEF Next, OrderMoves, Derail, Check, Create, Taken,
     storeVars, reactorVars

(* Who was pushed COMPLETED is not told that the order is not completed,    *)
(* unless a racing writer took it back: setStatus writes the event with the *)
(* row, and the gateway reads the row after that.                           *)
THEOREM TrackersMayRate == Spec => TrackerMayRate
<1>1. ASSUME TypeOK, EventsTrue, [Next]_storeVars,
             NEW r \in Entitled, RatedOrder[r] \notin derailed,
             request[r] = "none", request'[r] = "refused",
             NEW c \in Clients
      PROVE  [kind |-> "status", about |-> RatedOrder[r], is |-> "COMPLETED"] \notin seen[c]
  <2> DEFINE e == [kind |-> "status", about |-> RatedOrder[r], is |-> "COMPLETED"]
  <2>1. request = [q \in Requests |-> request[q]] /\ r \in Requests
    BY <1>1, StorefrontAssumption DEF TypeOK
  <2>2. PICK q \in Requests : Check(q)
    BY <1>1, <2>1 DEF Next, OrderMoves, Derail, OpenTicket, Create, Taken, Goes,
       ratingVars, storeVars
  <2>3. q = r /\ ~Rateable(r)
    BY <1>1, <2>1, <2>2 DEF Check, Goes
  <2>4. ~StillCompleted(RatedOrder[r])
    BY <1>1, <2>3 DEF Rateable, StillCompleted
  <2>5. ASSUME e \in seen[c]
        PROVE  FALSE
    <3>1. e \in StatusChanged
      BY <2>5 , <1>1 DEF TypeOK, ReactorsTypeOK
    <3>2. event[e] # "none"
      BY <1>1, <2>5, <3>1 DEF EventsTrue
    <3>3. StillCompleted(e.about)
      BY <1>1, <3>1, <3>2 DEF EventsTrue
    <3>4. QED
      BY <2>4, <3>3
  <2>6. QED
    BY <2>5
<1>2. TypeOK /\ EventsTrue /\ [Next]_storeVars =>
          [\A r \in {q \in Entitled : RatedOrder[q] \notin derailed} :
              request[r] = "none" /\ request'[r] = "refused" =>
                  \A c \in Clients :
                      [kind |-> "status", about |-> RatedOrder[r], is |-> "COMPLETED"]
                          \notin seen[c]]_storeVars
  BY <1>1
<1>3. StorefrontInv => TypeOK
  BY DEF StorefrontInv
<1>4. QED
  BY <1>2, <1>3, StorefrontInvHolds, EventsTrueInit, EventsTrueStep, PTL
     DEF Spec, TrackerMayRate
=============================================================================
