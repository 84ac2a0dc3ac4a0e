------------------------------ MODULE Placing -------------------------------
(***************************************************************************)
(* From the customer's request to the reserved portions: the gateway, the  *)
(* order service and the kitchen's transactions statement by statement.    *)
(* The saga goes as far as its second command, which nobody handles here;  *)
(* HotDrop has the rest of it, on a kitchen whose transactions are atomic. *)
(***************************************************************************)
EXTENDS Gateway, Reserving

CONSTANT MaxTrouble     \* bound: faults and cancel calls together

vars == << msgVars, orchestratorVars, gatewayVars, reservingVars >>

Init ==
    /\ MessagingInit
    /\ OrchestratorInit
    /\ GatewayInit
    /\ ReservingInit

Acceptable(b) ==
    /\ Signed(b.user) /\ Valid(b)
    /\ \A i \in DOMAIN b.lines : b.lines[i].drop \in Drops

(* The kitchen has the drops it is asked for, and a request that leads to  *)
(* order o asks for its lines.                                              *)
ASSUME PlacingAssumption ==
    /\ IsFiniteSet(Orders) /\ DOMAIN Dishes = Drops
    /\ \A o \in Orders : \A b \in Bodies[o] : Acceptable(b) =>
          b.lines = Lines[o] \/ \E i \in DOMAIN b.lines : b.lines[i].qty > MaxCents
    /\ MaxTrouble \in Nat
-----------------------------------------------------------------------------
Trials == faults + Cardinality({c \in CancelCalls : stage[c] # "unsent"})

Asking ==
    /\ CustomersAsk
    /\ UNCHANGED reservingVars
    /\ Trials' <= MaxTrouble

Relaying == GatewayWorks /\ UNCHANGED reservingVars

Orchestrating(o) ==
    OrchestratorHandles(o) /\ UNCHANGED << gatewayVars, reservingVars >>

ReadingLate ==
    /\ \E t \in otx : ReadSaga(t)
    /\ UNCHANGED << gatewayVars, reservingVars >>

Cooking == KitchenWorks /\ UNCHANGED << orchestratorVars, gatewayVars >>

Trouble ==
    /\ \/ KitchenFails /\ UNCHANGED << orchestratorVars, gatewayVars >>
       \/ /\ Fault
          /\ \E q \in Requests : LoseCall(q)
          /\ UNCHANGED << rowVars, work, unacked >>
    /\ Trials' <= MaxTrouble

Next ==
    \/ Asking \/ Relaying
    \/ \E o \in Orders : Orchestrating(o)
    \/ ReadingLate \/ Cooking \/ Trouble

Spec == Init /\ [][Next]_vars

(* The order service handles what reaches it, the kitchen goes on with its *)
(* statements, and Postgres looks for deadlocks.  Nothing obliges the       *)
(* customers, the gateway's calls or a failure.                             *)
Fairness ==
    /\ \A o \in Orders : WF_vars(Orchestrating(o))
    /\ WF_vars(Cooking)

FairSpec == Spec /\ Fairness
-----------------------------------------------------------------------------
(* Every variable holds what its column, message or request may hold.       *)
PlacingTypeOK ==
    /\ MessagingTypeOK
    /\ OrchestratorTypeOK
    /\ GatewayTypeOK
    /\ ReservingTypeOK

(* An order is what an identified customer asked for in a valid request,   *)
(* at the prices of the kitchen, and the total it is charged adds up: it   *)
(* is shown with no other, and none overflows its column.                   *)
OrdersAreAsked ==
    \A o \in Orders : order[o] # "NONE" =>
        LET v == OrderView(o) IN
        /\ Acceptable(body[o]) /\ v.customer = body[o].user
        /\ Len(v.lines) = Len(body[o].lines)
        /\ \A i \in DOMAIN v.lines :
              /\ v.lines[i].drop = body[o].lines[i].drop
              /\ v.lines[i].qty = body[o].lines[i].qty
              /\ v.lines[i].unitPriceCents = PortionPrice(v.lines[i].drop)
        /\ v.totalCents = TotalCents(v.lines)
        /\ v.status \in ShownStatuses

(* What a customer is told is true, though calls are lost and requests     *)
(* race: an order that was created is listed for its customer, a refused   *)
(* one does not exist, a cancellation that is confirmed was announced, and *)
(* no order is cancelled for its customer by a call that was refused or    *)
(* was somebody else's.                                                     *)
AnswersAreTrue ==
    /\ \A o \in Orders :
          /\ answer[o] = 201 => OrderView(o) \in ListOrders(body[o].user)
          /\ answer[o] \in 400..499 => order[o] = "NONE"
          /\ saga[o].lastError = "CANCELLED_BY_CUSTOMER" =>
                \E c \in CancelCalls :
                    /\ call[c] = [user |-> row[o].customer, order |-> o]
                    /\ answer[c] \in {0, 201, 500}
    /\ \A c \in CancelCalls :
          answer[c] = 201 => "OrderCancelled" \in notices[call[c].order]
-----------------------------------------------------------------------------
AskedOf(o, d) ==
    MapThenSumSet(LAMBDA i : Lines[o][i].qty,
                  {i \in DOMAIN Lines[o] : Lines[o][i].drop = d})

(* What GET /drops/:dropId shows of a drop, and GET /drops of all of them  *)
(* (no code changes a drop's status: the drops here are live).              *)
DropView(d) ==
    [ id |-> d, totalPortions |-> Total[d], available |-> available[d],
      pricePerPortionCents |-> PortionPrice(d), dishes |-> Dishes[d] ]

Shelf == {DropView(d) : d \in Drops}

(* The shelf shows exactly the portions no reservation holds, whichever    *)
(* transactions are at work, waiting, aborted or handled a second time, as *)
(* long as no order is cancelled twice (Portions has what happens then).    *)
ShelfIsExact ==
    (\A o \in Orders : cancels[o] <= 1) =>
        \A v \in Shelf :
            v.totalPortions = v.available +
                MapThenSumSet(LAMBDA o : AskedOf(o, v.id),
                              {o \in Orders : reservation[o] = "HELD"})
-----------------------------------------------------------------------------
IsForKitchen(m) == m.kind = "command" /\ m.step \in {"ReservePortions", "ReleasePortions"}

AtWork == {work[h].msg : h \in {g \in Handlers : work[g].at # "idle"}}

(* Nobody handles it, and no delivery of it is due.                         *)
Stuck == unacked \ (inbox \cup AtWork)

(* The kitchen answers: a placed order is decided, unless its reservation  *)
(* is among the messages a throwing handler left unacknowledged.            *)
PlacedIsDecided ==
    \A o \in Orders :
        order[o] = "PLACED" ~>
            \/ order[o] # "PLACED"
            \/ Command("ReservePortions", o, 0) \in Stuck
-----------------------------------------------------------------------------
(* The statements of the kitchen's transactions amount to the atomic steps *)
(* of Kitchen, sums of an order's lines per drop for its quantities.  A    *)
(* message is in short (in ktx) while a handler that was short (that has   *)
(* begun a release) is at it and no other handler has consumed it.          *)
Portions == [o \in Orders |-> [d \in Drops |-> AskedOf(o, d)]]

HandledAs(at, step) == {work[h].msg : h \in {g \in Handlers : IsAt(g, at, step)}} \ inbox

ComeUpShort == HandledAs("short", "ReservePortions")
Releasing == HandledAs("open", "ReleasePortions")

Atomic == INSTANCE Kitchen WITH
    Qty <- Portions, Expiring <- {}, short <- ComeUpShort, ktx <- Releasing

Consumed == {m \in inbox : IsForKitchen(m)}

(* A handler that throws forgets what it has found out.                     *)
Forgets ==
    /\ ComeUpShort' \subseteq ComeUpShort
    /\ Releasing' \subseteq Releasing
    /\ UNCHANGED << rowVars, Consumed >>

(* However the statements of two transactions interleave, wait and are     *)
(* rolled back, each commit is a step of Kitchen: all of an order's lines  *)
(* or none, on the counters as they are at that moment.                     *)
AtomicKitchen ==
    /\ Atomic!KitchenInit
    /\ [][(\E o \in Orders : Atomic!KitchenHandles(o)) \/ Forgets]_<<
          rowVars, ComeUpShort, Releasing, Consumed >>
=============================================================================
