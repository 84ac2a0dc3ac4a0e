------------------------------ MODULE Gateway -------------------------------
(***************************************************************************)
(* The gateway's part in placing and cancelling an order: who the customer *)
(* is, what a request must look like, the calls to the kitchen (prices)    *)
(* and to the order service, and the answer.                               *)
(*                                                                         *)
(* A POST /orders is named by the order it leads to if it is placed: a     *)
(* customer who sends it again sends another one, since nothing in the     *)
(* request tells a retry from a new order.  The gateway's calls have no    *)
(* deadline, and one that fails is answered 500 whether or not the order   *)
(* service has done, or will do, what was asked.                           *)
(***************************************************************************)
EXTENDS Orchestrator, Sequences, FiniteSetsExt

CONSTANTS
    Dishes,             \* Dishes[d]: the prices of the dishes of drop d
    Bodies,             \* Bodies[o]: what may be sent as POST o, [user, lines]
    CancelCalls,        \* the cancel calls
    Calls,              \* Calls[c]: what may be sent as c, [user, order]
    MaxCents            \* the largest value of the column orders.totalCents

ASSUME GatewayAssumption ==
    /\ \A d \in DOMAIN Dishes : Dishes[d] \in Seq(Nat)
    /\ DOMAIN Bodies = Orders /\ DOMAIN Calls = CancelCalls
    /\ Orders \cap CancelCalls = {}
    /\ \A o \in Orders : \A b \in Bodies[o] :
          /\ b.lines \in Seq({b.lines[i] : i \in DOMAIN b.lines})
          /\ \A i \in DOMAIN b.lines : b.lines[i].qty \in Int
    /\ \A c \in CancelCalls :
          Calls[c] \subseteq [user : {r.user : r \in Calls[c]}, order : Orders]
    /\ MaxCents \in Nat

VARIABLES
    body,               \* body[o]: the request, once it is sent
    call,               \* call[c]: the cancel request, once it is sent
    asked,              \* asked[c]: the request of the order it has become
    stage,              \* stage[q]: how far the request q has come
    answer,             \* answer[q]: its HTTP status, 0 while there is none
    row                 \* row[o]: the order's row, but for its status

postVars == << body, row >>
callVars == << call, asked >>
gatewayVars == << postVars, callVars, stage, answer >>

Requests == Orders \cup CancelCalls

(* No X-User-Id header, or an empty one.                                    *)
Anonymous == "anonymous"

NoBody == [user |-> Anonymous, lines |-> << >>]
NoRow == [customer |-> Anonymous, totalCents |-> 0, lines |-> << >>]

Stages == {"unsent", "pricing", "open", "done", "over"}

GatewayTypeOK ==
    /\ \A o \in Orders : body[o] \in Bodies[o] \cup {NoBody}
    /\ \A c \in CancelCalls : call[c] \in Calls[c] \cup {NoBody}
    /\ asked \in [CancelCalls -> Nat]
    /\ stage \in [Requests -> Stages]
    /\ answer \in [Requests -> {0, 201, 400, 401, 404, 409, 500}]
    /\ \A o \in Orders : row[o].totalCents \in 0..MaxCents

GatewayInit ==
    /\ body = [o \in Orders |-> NoBody]
    /\ call = [c \in CancelCalls |-> NoBody]
    /\ asked = [c \in CancelCalls |-> 0]
    /\ stage = [q \in Requests |-> "unsent"]
    /\ answer = [q \in Requests |-> 0]
    /\ row = [o \in Orders |-> NoRow]
-----------------------------------------------------------------------------
Signed(user) == user # Anonymous

(* The validation of PlaceOrderDto: what else it looks at is left out.      *)
Valid(b) ==
    /\ b.lines # << >>
    /\ \A i \in DOMAIN b.lines : b.lines[i].qty >= 1

(* A portion of a drop is one of each of its dishes.                        *)
PortionPrice(d) == MapThenSumSet(LAMBDA i : Dishes[d][i], DOMAIN Dishes[d])

TotalCents(lines) ==
    MapThenSumSet(LAMBDA i : lines[i].qty * lines[i].unitPriceCents, DOMAIN lines)

(* An upstream gRPC error as an HTTP status.                                *)
FromGrpc(code) ==
    CASE code = "NOT_FOUND"           -> 404
      [] code = "FAILED_PRECONDITION" -> 409
      [] code = "INVALID_ARGUMENT"    -> 400
      [] OTHER                        -> 500

(* A request is answered, and its handler is over.                          *)
Created(q) ==
    /\ stage' = [stage EXCEPT ![q] = "over"]
    /\ answer' = [answer EXCEPT ![q] = 201]

(* The filter turns what was thrown into an answer.                         *)
Throws(q, status) ==
    /\ stage' = [stage EXCEPT ![q] = "over"]
    /\ answer' = [answer EXCEPT ![q] = status]

Goes(q, to) == stage' = [stage EXCEPT ![q] = to]

(* Errors before the handler: a request may have both.                      *)
Refuse(q, user, wellFormed) ==
    \/ ~Signed(user) /\ Throws(q, 401)
    \/ ~wellFormed /\ Throws(q, 400)
-----------------------------------------------------------------------------
(* POST /orders: the customer sends b; refused, or its lines are priced.    *)
Post(o) ==
    /\ stage[o] = "unsent"
    /\ \E b \in Bodies[o] :
          /\ body' = [body EXCEPT ![o] = b]
          /\ \/ Refuse(o, b.user, Valid(b))
             \/ Signed(b.user) /\ Valid(b) /\ Goes(o, "pricing") /\ UNCHANGED answer
    /\ UNCHANGED << msgVars, orchestratorVars, row, callVars >>

KnownDrops(o) ==
    \A i \in DOMAIN body[o].lines : body[o].lines[i].drop \in DOMAIN Dishes

Quote(o) ==
    [i \in DOMAIN body[o].lines |->
        LET line == body[o].lines[i] IN
        [ drop |-> line.drop, qty |-> line.qty,
          unitPriceCents |-> PortionPrice(line.drop) ]]

(* kitchen.getDrop line by line (no statement changes a price, so one step *)
(* will do), and then the order service is called.                          *)
GetDrops(o) ==
    /\ stage[o] = "pricing"
    /\ KnownDrops(o)
    /\ Goes(o, "open")
    /\ UNCHANGED << msgVars, orchestratorVars, postVars, callVars, answer >>

NoSuchDrop(o) ==
    /\ stage[o] = "pricing"
    /\ ~KnownDrops(o)
    /\ Throws(o, FromGrpc("NOT_FOUND"))
    /\ UNCHANGED << msgVars, orchestratorVars, postVars, callVars >>

(* Definitions marked "Fault" are not the code: each is a plausible bug,   *)
(* put in the place of the definition it precedes to see a property fail.  *)

(* Fault: the column wraps around.                                          *)
PlaceAnyTotal(o) ==
    /\ stage[o] = "open"
    /\ PlaceOrder(o)
    /\ row' = [row EXCEPT ![o] =
                 [ customer |-> body[o].user, lines |-> Quote(o),
                   totalCents |-> TotalCents(Quote(o)) % (MaxCents + 1) ]]
    /\ Goes(o, "done")
    /\ UNCHANGED << body, callVars, answer >>

(* The order service writes the order, its lines, the saga and the first   *)
(* command ...                                                              *)
Place(o) ==
    /\ stage[o] = "open"
    /\ TotalCents(Quote(o)) <= MaxCents
    /\ PlaceOrder(o)
    /\ row' = [row EXCEPT ![o] =
                 [ customer |-> body[o].user, lines |-> Quote(o),
                   totalCents |-> TotalCents(Quote(o)) ]]
    /\ Goes(o, "done")
    /\ UNCHANGED << body, callVars, answer >>

(* ... unless the database refuses the total.                               *)
TotalTooLarge(o) ==
    /\ stage[o] = "open"
    /\ TotalCents(Quote(o)) > MaxCents
    /\ Throws(o, FromGrpc("UNKNOWN"))
    /\ UNCHANGED << msgVars, orchestratorVars, postVars, callVars >>

AnswerPlaced(o) ==
    /\ stage[o] = "done"
    /\ answer[o] = 0
    /\ Created(o)
    /\ UNCHANGED << msgVars, orchestratorVars, postVars, callVars >>
-----------------------------------------------------------------------------
(* POST /orders/:orderId/cancel: r is sent and meets the order as it is.    *)
Ask(c, r) ==
    /\ stage[c] = "unsent"
    /\ r \in Calls[c]
    /\ call' = [call EXCEPT ![c] = r]
    /\ UNCHANGED << msgVars, postVars >>

Refused(c, status) ==
    /\ Throws(c, status)
    /\ UNCHANGED << orchestratorVars, asked >>

Owned(r) == order[r.order] # "NONE" /\ row[r.order].customer = r.user

CancelUnsigned(c, r) ==
    Ask(c, r) /\ ~Signed(r.user) /\ Refused(c, 401)

CancelNotFound(c, r) ==
    /\ Ask(c, r) /\ Signed(r.user)
    /\ ~Owned(r)
    /\ Refused(c, FromGrpc("NOT_FOUND"))

CancelTooLate(c, r) ==
    /\ Ask(c, r) /\ Signed(r.user)
    /\ Owned(r) /\ order[r.order] \notin CANCELLABLE \cup {"CANCELLED"}
    /\ Refused(c, FromGrpc("FAILED_PRECONDITION"))

(* Cancelled already: nothing to do, and not an error.                      *)
CancelAgain(c, r) ==
    /\ Ask(c, r) /\ Signed(r.user)
    /\ Owned(r) /\ order[r.order] = "CANCELLED"
    /\ Created(c)
    /\ UNCHANGED << orchestratorVars, asked >>

BeginCancel(c, r) ==
    /\ Ask(c, r) /\ Signed(r.user)
    /\ Owned(r)
    /\ RequestCancel(r.order)
    /\ asked' = [asked EXCEPT ![c] = cancels'[r.order]]
    /\ Goes(c, "open")
    /\ UNCHANGED answer

(* Fault: the answer does not wait for the transaction.                     *)
AnswerFirst(c) ==
    /\ stage[c] = "open"
    /\ Created(c)
    /\ UNCHANGED << msgVars, orchestratorVars, postVars, callVars >>

TransactionOf(c) ==
    {t \in otx : t.msg = CancelRequest(call[c].order, asked[c])}

(* The transaction commits ...                                              *)
FinishCancel(c) ==
    /\ stage[c] = "open"
    /\ \E t \in TransactionOf(c) : CommitCancel(t)
    /\ Goes(c, "done")
    /\ UNCHANGED << postVars, callVars, answer >>

(* ... and the order is read once more and shown.                           *)
AnswerCancel(c) ==
    /\ stage[c] = "done"
    /\ answer[c] = 0
    /\ Created(c)
    /\ UNCHANGED << msgVars, orchestratorVars, postVars, callVars >>
-----------------------------------------------------------------------------
(* A gRPC call fails.  The gateway answers 500; what the order service was *)
(* called for is dropped, or goes on.                                       *)
LoseCall(q) ==
    /\ stage[q] \in {"pricing", "open", "done"}
    /\ answer[q] = 0
    /\ answer' = [answer EXCEPT ![q] = FromGrpc("UNAVAILABLE")]
    /\ \/ Goes(q, "over")
       \/ stage[q] = "open" /\ UNCHANGED stage
    /\ otx' = IF q \in CancelCalls /\ stage'[q] = "over" THEN otx \ TransactionOf(q) ELSE otx
    /\ UNCHANGED << msgVars, order, saga, notices, cancels, postVars, callVars >>
-----------------------------------------------------------------------------
(* What GET /orders/:orderId shows of an order, and GET /orders a customer. *)
OrderView(o) ==
    [ id |-> o, customer |-> row[o].customer, status |-> order[o],
      totalCents |-> row[o].totalCents, lines |-> row[o].lines ]

ListOrders(user) ==
    {OrderView(o) : o \in {p \in Orders : order[p] # "NONE" /\ row[p].customer = user}}

(* The statuses an order may be shown with.                                 *)
ShownStatuses == OrderStatus \cup {"ACCEPTED", "READY", "PICKED_UP"}

CustomersAsk ==
    \/ \E o \in Orders : Post(o)
    \/ \E c \in CancelCalls : \E r \in Calls[c] :
          \/ CancelUnsigned(c, r) \/ CancelNotFound(c, r) \/ CancelTooLate(c, r)
          \/ CancelAgain(c, r) \/ BeginCancel(c, r)

GatewayWorks ==
    \/ \E o \in Orders :
          GetDrops(o) \/ NoSuchDrop(o) \/ Place(o) \/ TotalTooLarge(o) \/ AnswerPlaced(o)
    \/ \E c \in CancelCalls : FinishCancel(c) \/ AnswerCancel(c)
=============================================================================
