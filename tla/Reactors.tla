------------------------------ MODULE Reactors ------------------------------
(***************************************************************************)
(* The consumers of domain events: the gateway, which pushes the status    *)
(* changes of an order to the sockets that track it, and the notifications *)
(* service.  Neither has a database or an inbox: an event that is          *)
(* delivered twice is pushed or logged twice, and what must not happen is  *)
(* that it is acknowledged and was not.                                    *)
(***************************************************************************)
EXTENDS Naturals

CONSTANTS
    Orders,             \* the orders customers may place
    Watched,            \* bound: the statuses whose events are followed
    Business,           \* bound: the business events that are followed
    Tickets,            \* the support tickets customers may open
    Clients,            \* the sockets that may connect to the gateway
    MaxFaults           \* bound: crashes and repeated publications

ASSUME ReactorsAssumption == MaxFaults \in Nat

VARIABLES
    event,              \* event[e]: where the event e is on its way
    rooms,              \* rooms[c]: the orders whose room socket c is in
    seen,               \* seen[c]: the status events pushed to socket c
    logged,             \* the events notifications has reacted to
    faults              \* faults so far

reactorVars == << event, rooms, seen, logged, faults >>

StatusChanged == [kind : {"status"}, about : Orders, is : Watched]

Notifiable == [kind : {"notice"}, about : Orders, is : Business]
                  \cup [kind : {"ticket"}, about : Tickets, is : {"created"}]

Events == StatusChanged \cup Notifiable

ReactorsTypeOK ==
    /\ event \in [Events -> {"none", "written", "ready", "received",
                             "reacted", "acked"}]
    /\ rooms \in [Clients -> SUBSET Orders]
    /\ seen \in [Clients -> SUBSET StatusChanged]
    /\ logged \subseteq Notifiable
    /\ faults \in Nat

ReactorsInit ==
    /\ event = [e \in Events |-> "none"]
    /\ rooms = [c \in Clients |-> {}]
    /\ seen = [c \in Clients |-> {}]
    /\ logged = {}
    /\ faults = 0

Moves(e, to) == event' = [event EXCEPT ![e] = to]

(* The producer's transaction commits outbox rows; those of the events that *)
(* are not followed are left out.                                           *)
Emit(events) ==
    event' = [e \in Events |->
                IF e \in events /\ event[e] = "none" THEN "written" ELSE event[e]]

Fault == faults < MaxFaults /\ faults' = faults + 1
-----------------------------------------------------------------------------
(* The relay publishes the row to the durable queue its type is bound to ... *)
PublishEvent(e) ==
    /\ event[e] = "written"
    /\ Moves(e, "ready")
    /\ UNCHANGED << rooms, seen, logged, faults >>

(* ... and again, if it died before it marked the row.  The second copy is *)
(* followed from when the first has been acknowledged.                     *)
RepublishEvent(e) ==
    /\ Fault
    /\ event[e] = "acked"
    /\ Moves(e, "ready")
    /\ UNCHANGED << rooms, seen, logged >>

ReceiveEvent(e) ==
    /\ event[e] = "ready"
    /\ Moves(e, "received")
    /\ UNCHANGED << rooms, seen, logged, faults >>

(* emitStatus: to every socket that is in the order's room now.             *)
EmitStatus(e) ==
    /\ e \in StatusChanged
    /\ event[e] = "received"
    /\ seen' = [c \in Clients |->
                  IF e.about \in rooms[c] THEN seen[c] \cup {e} ELSE seen[c]]
    /\ Moves(e, "reacted")
    /\ UNCHANGED << rooms, logged, faults >>

(* notify: a line in the log.                                               *)
Notify(e) ==
    /\ e \in Notifiable
    /\ event[e] = "received"
    /\ logged' = logged \cup {e}
    /\ Moves(e, "reacted")
    /\ UNCHANGED << rooms, seen, faults >>

(* Definitions marked "Fault" are not the code: each is a plausible bug,   *)
(* put in the place of the definition it precedes to see a property fail.  *)

(* Fault: the handler's promise is not awaited before the ack.              *)
AckUnawaited(e) ==
    /\ event[e] \in {"received", "reacted"}
    /\ Moves(e, "acked")
    /\ UNCHANGED << rooms, seen, logged, faults >>

AckEvent(e) ==
    /\ event[e] = "reacted"
    /\ Moves(e, "acked")
    /\ UNCHANGED << rooms, seen, logged, faults >>

(* A socket asks to track an order, or disconnects.                         *)
Track(c, o) ==
    /\ rooms' = [rooms EXCEPT ![c] = @ \cup {o}]
    /\ UNCHANGED << event, seen, logged, faults >>

Disconnect(c) ==
    /\ rooms[c] # {}
    /\ rooms' = [rooms EXCEPT ![c] = {}]
    /\ UNCHANGED << event, seen, logged, faults >>

(* A consumer dies: what it did not acknowledge is delivered again.         *)
Redeliver(events) ==
    event' = [e \in Events |->
                IF e \in events /\ event[e] \in {"received", "reacted"}
                THEN "ready" ELSE event[e]]

(* The rooms are in the memory of the gateway.                              *)
GatewayDies ==
    /\ Fault
    /\ Redeliver(StatusChanged)
    /\ rooms' = [c \in Clients |-> {}]
    /\ UNCHANGED << seen, logged >>

NotificationsDie ==
    /\ Fault
    /\ Redeliver(Notifiable)
    /\ UNCHANGED << rooms, seen, logged >>
-----------------------------------------------------------------------------
Reacting(e) ==
    PublishEvent(e) \/ ReceiveEvent(e) \/ EmitStatus(e) \/ Notify(e) \/ AckEvent(e)

Sockets == \E c \in Clients : Disconnect(c) \/ \E o \in Orders : Track(c, o)
=============================================================================
