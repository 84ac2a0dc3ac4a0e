--------------------------- MODULE PlacingProofs ----------------------------
(***************************************************************************)
(* The gateway's answers and the orders it places, for every set of        *)
(* requests and orders, every number of handlers and faults.  What makes   *)
(* them right is that a request's stage says what it has led to, that an   *)
(* order that exists stays, and that a cancellation is announced in the    *)
(* transaction that cancels.                                                *)
(***************************************************************************)
EXTENDS Placing, OrchestratorProofs, Sums

Answers == {0, 201, 400, 401, 404, 409, 500}

Shapes ==
    /\ body = [o \in Orders |-> body[o]] /\ row = [o \in Orders |-> row[o]]
    /\ call = [c \in CancelCalls |-> call[c]]
    /\ asked = [c \in CancelCalls |-> asked[c]]
    /\ stage \in [Requests -> Stages]
    /\ answer \in [Requests -> Answers]

(* The row of an order is what its request leads to.                        *)
Written(o) ==
    row[o] = [ customer |-> body[o].user, lines |-> Quote(o),
               totalCents |-> TotalCents(Quote(o)) ]

(* What the stage and the answer of a POST say of the order.                *)
PostIsKept(o) ==
    /\ stage[o] # "unsent" => body[o] \in Bodies[o]
    /\ stage[o] \in {"pricing", "open"} => Signed(body[o].user) /\ Valid(body[o])
    /\ stage[o] = "open" => KnownDrops(o)
    /\ stage[o] \in {"unsent", "pricing", "open"} => order[o] = "NONE"
    /\ stage[o] = "done" => order[o] # "NONE"
    /\ answer[o] = 201 => order[o] # "NONE"
    /\ answer[o] \in 400..499 => order[o] = "NONE" /\ stage[o] = "over"
    /\ order[o] # "NONE" => Acceptable(body[o]) /\ Written(o)

(* What the stage and the answer of a cancel call say of the order.         *)
CancelIsKept(c) ==
    /\ stage[c] = "unsent" => answer[c] = 0
    /\ stage[c] # "unsent" => call[c] \in Calls[c]
    /\ stage[c] \in {"open", "done"} => Owned(call[c]) /\ answer[c] \in {0, 500}
    /\ stage[c] = "done" \/ answer[c] = 201 =>
          "OrderCancelled" \in notices[call[c].order]

(* An order cancelled for its customer has a call that asked for it.        *)
IsAsked(o) ==
    \E c \in CancelCalls :
        /\ stage[c] # "unsent"
        /\ call[c] = [user |-> row[o].customer, order |-> o]
        /\ answer[c] \in {0, 201, 500}

CancelledIsAsked ==
    \A o \in Orders : saga[o].lastError = "CANCELLED_BY_CUSTOMER" => IsAsked(o)

PlacingInv ==
    /\ MessagingTypeOK /\ OrchestratorTypeOK /\ Shapes
    /\ SoFar
    /\ \A o \in Orders : PostIsKept(o)
    /\ \A c \in CancelCalls : CancelIsKept(c)
    /\ CancelledIsAsked
(***************************************************************************)
(* What a step leaves alone.                                               *)
(***************************************************************************)

(* A post's facts depend on its request and on whether the order exists.   *)
LEMMA PostStable ==
    ASSUME NEW o \in Orders, PostIsKept(o),
           body'[o] = body[o], row'[o] = row[o], stage'[o] = stage[o],
           answer'[o] = answer[o], order'[o] = "NONE" <=> order[o] = "NONE"
    PROVE  PostIsKept(o)'
<1>1. Quote(o)' = Quote(o) /\ (KnownDrops(o)' <=> KnownDrops(o))
  BY DEF Quote, KnownDrops
<1>2. Written(o)' <=> Written(o)
  BY <1>1 DEF Written
<1>3. QED
  BY <1>1, <1>2 DEF PostIsKept

LEMMA CallType ==
    ASSUME NEW c \in CancelCalls, NEW r \in Calls[c]
    PROVE  r.order \in Orders /\ r = [user |-> r.user, order |-> r.order]
BY GatewayAssumption

(* The orders there are, their rows and their announcements remain.        *)
Remain ==
    \A o \in Orders :
        /\ order[o] # "NONE" => order'[o] # "NONE" /\ row'[o] = row[o]
        /\ notices[o] \subseteq notices'[o]

LEMMA CancelStable ==
    ASSUME NEW c \in CancelCalls, CancelIsKept(c), Remain,
           call'[c] = call[c], stage'[c] = stage[c], answer'[c] = answer[c]
    PROVE  CancelIsKept(c)'
<1>1. CASE stage[c] = "unsent"
  BY <1>1 DEF CancelIsKept
<1>2. CASE stage[c] # "unsent"
  <2>1. call[c] \in Calls[c] /\ call[c].order \in Orders
    BY <1>2, CallType DEF CancelIsKept
  <2>2. Owned(call[c]) => Owned(call[c])'
    BY <2>1 DEF Owned, Remain
  <2>3. "OrderCancelled" \in notices[call[c].order] =>
          "OrderCancelled" \in notices'[call'[c].order]
    BY <2>1 DEF Remain
  <2>4. QED
    BY <1>2, <2>1, <2>2, <2>3 DEF CancelIsKept
<1>3. QED
  BY <1>1, <1>2

(* No call is sent anew, and none of those that ask is refused.            *)
CallsRemain ==
    \A c \in CancelCalls :
        stage[c] # "unsent" =>
            /\ stage'[c] # "unsent" /\ call'[c] = call[c]
            /\ answer[c] \in {0, 201, 500} => answer'[c] \in {0, 201, 500}

LEMMA AskedStable ==
    ASSUME Remain, CallsRemain, NEW o \in Orders, order[o] # "NONE", IsAsked(o)
    PROVE  IsAsked(o)'
<1>1. PICK c \in CancelCalls :
         /\ stage[c] # "unsent"
         /\ call[c] = [user |-> row[o].customer, order |-> o]
         /\ answer[c] \in {0, 201, 500}
  BY DEF IsAsked
<1>2. /\ stage'[c] # "unsent"
      /\ call'[c] = [user |-> row'[o].customer, order |-> o]
      /\ answer'[c] \in {0, 201, 500}
  BY <1>1 DEF Remain, CallsRemain
<1>3. QED
  BY <1>2 DEF IsAsked

LEMMA CancelledStable ==
    ASSUME Remain, CallsRemain, MarksNone, SoFar, CancelledIsAsked
    PROVE  CancelledIsAsked'
BY AskedStable DEF MarksNone, SoFar, CancelledIsAsked

(***************************************************************************)
(* The steps of the services.                                              *)
(***************************************************************************)

(* The order service and the kitchen do not touch a request.               *)
LEMMA ServicesKeep ==
    ASSUME PlacingInv, MessagingTypeOK', OrchestratorTypeOK', SoFar',
           KeepsOrders, MarksNone, UNCHANGED gatewayVars
    PROVE  PlacingInv'
<1> USE DEF gatewayVars, postVars, callVars
<1>1. Remain /\ CallsRemain
  BY DEF KeepsOrders, Remain, CallsRemain
<1>2. Shapes'
  BY DEF PlacingInv, Shapes
<1>3. ASSUME NEW o \in Orders PROVE PostIsKept(o)'
  BY PostStable DEF PlacingInv, KeepsOrders
<1>4. ASSUME NEW c \in CancelCalls PROVE CancelIsKept(c)'
  BY <1>1, CancelStable DEF PlacingInv
<1>5. CancelledIsAsked'
  BY <1>1, CancelledStable DEF PlacingInv
<1>6. QED
  BY <1>2, <1>3, <1>4, <1>5 DEF PlacingInv

(* The kitchen writes only its replies and its inbox.                      *)
LEMMA KitchenTypes ==
    ASSUME MessagingTypeOK, KitchenWorks \/ KitchenFails
    PROVE  MessagingTypeOK'
<1>1. ASSUME NEW m, m.step = "ReservePortions", NEW status \in {"ok", "failed"},
             Consume(m, {Reply(m, status)})
      PROVE  MessagingTypeOK'
  <2>1. m \in Messages
    BY <1>1 DEF Consume, Pending, MessagingTypeOK
  <2>2. Reply(m, status) \in Messages
    BY <1>1, <2>1 DEF Reply, Messages, SagaSteps
  <2>3. QED
    BY <1>1, <2>2, ConsumeType
<1>2. ASSUME NEW m, Consume(m, {}) PROVE MessagingTypeOK'
  BY <1>2, ConsumeType
<1>3. ASSUME UNCHANGED msgVars PROVE MessagingTypeOK'
  BY <1>3 DEF msgVars, MessagingTypeOK
<1>4. ASSUME NEW h \in Handlers, Handle(h) PROVE MessagingTypeOK'
  <2>1. CASE CommitReserve(h)
    BY <1>1, <2>1 DEF CommitReserve, IsAt
  <2>2. CASE AnswerSoldOut(h)
    BY <1>1, <2>2 DEF AnswerSoldOut, IsAt
  <2>3. CASE CommitRelease(h)
    BY <1>2, <2>3 DEF CommitRelease
  <2>4. CASE UNCHANGED msgVars
    BY <1>3, <2>4
  <2>5. QED
    BY <1>4, <2>1, <2>2, <2>3, <2>4
       DEF Handle, Deliver, TakeLine, ShortLine, RestoreLine, LoseRace,
           RestoreTooMuch, Throw
<1>5. ASSUME NEW m \in sent, NothingToRelease(m) PROVE MessagingTypeOK'
  BY <1>2, <1>5 DEF NothingToRelease
<1>6. CASE KitchenFails \/ Abort
  BY <1>3, <1>6 DEF KitchenFails, Reconnect, Fail, Throw, Abort
<1>7. QED
  BY <1>4, <1>5, <1>6 DEF KitchenWorks

LEMMA CookingKeeps ==
    ASSUME PlacingInv, KitchenWorks \/ KitchenFails,
           UNCHANGED << orchestratorVars, gatewayVars >>
    PROVE  PlacingInv'
<1>1. MessagingTypeOK'
  BY KitchenTypes DEF PlacingInv
<1>2. OrchestratorTypeOK' /\ SoFar' /\ KeepsOrders /\ MarksNone
  BY DEF PlacingInv, orchestratorVars, OrchestratorTypeOK, SoFar, KeepsOrders, MarksNone
<1>3. QED
  BY <1>1, <1>2, ServicesKeep

LEMMA OrchestratingKeeps ==
    ASSUME PlacingInv, NEW o \in Orders, Orchestrating(o)
    PROVE  PlacingInv'
<1>1. MessagingTypeOK' /\ OrchestratorTypeOK'
  BY OrchestratorTypes DEF PlacingInv, Orchestrating
<1>2. SoFar' /\ KeepsOrders /\ MarksNone
  BY HandlingKeepsOrders DEF PlacingInv, Orchestrating
<1>3. QED
  BY <1>1, <1>2, ServicesKeep DEF Orchestrating

LEMMA ReadingKeeps ==
    ASSUME PlacingInv, ReadingLate
    PROVE  PlacingInv'
<1>1. PICK t \in otx : ReadSaga(t)
  BY DEF ReadingLate
<1>2. MessagingTypeOK' /\ OrchestratorTypeOK'
  BY <1>1, CustomerTypes DEF PlacingInv, CustomerActs
<1>3. SoFar'
  <2>1. [t EXCEPT !.acquired = saga[t.msg.order].acquired].msg = t.msg
    BY DEF PlacingInv, OrchestratorTypeOK, OrderTransactions
  <2>2. QED
    BY <1>1, <2>1 DEF ReadSaga, SoFar, PlacingInv
<1>4. KeepsOrders /\ MarksNone
  BY <1>1 DEF ReadSaga, KeepsOrders, MarksNone
<1>5. QED
  BY <1>2, <1>3, <1>4, ServicesKeep DEF ReadingLate
(***************************************************************************)
(* The steps of a POST.                                                    *)
(***************************************************************************)

(* A step of one POST may create its order and changes nothing else.       *)
LEMMA PostStep ==
    ASSUME PlacingInv, MessagingTypeOK', OrchestratorTypeOK', SoFar',
           NEW o \in Orders, UNCHANGED callVars,
           NEW b, body' = [body EXCEPT ![o] = b],
           NEW r, row' = [row EXCEPT ![o] = r],
           NEW s \in Stages, stage' = [stage EXCEPT ![o] = s],
           NEW a \in Answers, answer' = [answer EXCEPT ![o] = a],
           PostIsKept(o)', Remain, MarksNone,
           \A p \in Orders \ {o} : order'[p] = order[p]
    PROVE  PlacingInv'
<1>1. o \in Requests /\ \A c \in CancelCalls : c \in Requests /\ c # o
  BY GatewayAssumption DEF Requests
<1>2. Shapes'
  BY <1>1 DEF PlacingInv, Shapes, callVars
<1>3. /\ \A p \in Orders \ {o} :
            /\ body'[p] = body[p] /\ row'[p] = row[p]
            /\ stage'[p] = stage[p] /\ answer'[p] = answer[p]
      /\ \A c \in CancelCalls :
            call'[c] = call[c] /\ stage'[c] = stage[c] /\ answer'[c] = answer[c]
  BY <1>1 DEF PlacingInv, Shapes, Requests, callVars
<1>4. ASSUME NEW p \in Orders PROVE PostIsKept(p)'
  BY <1>3, PostStable DEF PlacingInv
<1>5. ASSUME NEW c \in CancelCalls PROVE CancelIsKept(c)'
  BY <1>3, CancelStable DEF PlacingInv
<1>6. CancelledIsAsked'
  <2>1. CallsRemain
    BY <1>3 DEF CallsRemain
  <2>2. QED
    BY <2>1, CancelledStable DEF PlacingInv
<1>7. QED
  BY <1>2, <1>4, <1>5, <1>6 DEF PlacingInv

(* Where the order service is not called, the order stays as it is.        *)
LEMMA Idles ==
    ASSUME PlacingInv, UNCHANGED << msgVars, order, saga, notices, cancels >>,
           otx' \subseteq otx
    PROVE  /\ MessagingTypeOK' /\ OrchestratorTypeOK' /\ SoFar' /\ MarksNone
           /\ UNCHANGED row => Remain
BY DEF PlacingInv, msgVars, MessagingTypeOK, OrchestratorTypeOK, SoFar, MarksNone, Remain

(* A step of a POST that leaves the order service alone.                   *)
LEMMA QuietPostStep ==
    ASSUME PlacingInv, NEW o \in Orders,
           UNCHANGED << msgVars, orchestratorVars, row, callVars >>,
           NEW b, body' = [body EXCEPT ![o] = b],
           NEW s \in Stages, stage' = [stage EXCEPT ![o] = s],
           NEW a \in Answers, answer' = [answer EXCEPT ![o] = a],
           PostIsKept(o)'
    PROVE  PlacingInv'
<1>1. /\ MessagingTypeOK' /\ OrchestratorTypeOK' /\ SoFar' /\ MarksNone /\ Remain
      /\ order' = order
  BY Idles DEF orchestratorVars
<1>2. row' = [row EXCEPT ![o] = row[o]]
  BY DEF PlacingInv, Shapes
<1>3. QED
  BY <1>1, <1>2, PostStep

(* Stages and answers are functions of the requests.                        *)
LEMMA RequestType ==
    ASSUME PlacingInv, NEW q \in Requests
    PROVE  /\ stage[q] \in Stages /\ answer[q] \in Answers
           /\ stage = [stage EXCEPT ![q] = stage[q]]
           /\ answer = [answer EXCEPT ![q] = answer[q]]
BY DEF PlacingInv, Shapes

(* What is thrown before the order service is called creates no order.     *)
LEMMA ThrowKeeps ==
    ASSUME PlacingInv, NEW o \in Orders, stage[o] \in {"pricing", "open"},
           NEW status \in Answers \ {0, 201}, Throws(o, status),
           UNCHANGED << msgVars, orchestratorVars, postVars, callVars >>
    PROVE  PlacingInv'
<1>1. o \in Requests
  BY DEF Requests
<1>2. stage'[o] = "over" /\ answer'[o] = status
  BY <1>1, RequestType DEF Throws, PlacingInv, Shapes
<1>3. order'[o] = "NONE" /\ body'[o] = body[o]
  BY DEF PlacingInv, PostIsKept, orchestratorVars, postVars
<1>4. PostIsKept(o)'
  BY <1>2, <1>3 DEF PlacingInv, PostIsKept, Answers
<1>5. body' = [body EXCEPT ![o] = body[o]] /\ "over" \in Stages
  BY DEF postVars, PlacingInv, Shapes, Stages
<1>6. QED
  BY <1>4, <1>5, QuietPostStep DEF Throws, postVars

LEMMA PostKeeps ==
    ASSUME PlacingInv, NEW o \in Orders, Post(o)
    PROVE  PlacingInv'
<1>1. PICK b \in Bodies[o] :
         /\ body' = [body EXCEPT ![o] = b]
         /\ \/ Refuse(o, b.user, Valid(b))
            \/ Signed(b.user) /\ Valid(b) /\ Goes(o, "pricing") /\ UNCHANGED answer
  BY DEF Post
<1>2. o \in Requests /\ stage[o] = "unsent"
  BY DEF Requests, Post
<1>3. order'[o] = "NONE" /\ body'[o] = b /\ answer[o] \notin 400..499 /\ answer[o] # 201
  BY <1>1, <1>2 DEF PlacingInv, PostIsKept, Post, orchestratorVars, Shapes
<1>4. CASE Refuse(o, b.user, Valid(b))
  <2>1. PICK status \in {401, 400} : Throws(o, status)
    BY <1>4 DEF Refuse
  <2>2. stage'[o] = "over" /\ answer'[o] = status
    BY <1>2, <2>1, RequestType DEF Throws, PlacingInv, Shapes
  <2>3. PostIsKept(o)'
    BY <1>3, <2>2 DEF PostIsKept
  <2>4. "over" \in Stages /\ status \in Answers
    BY DEF Stages, Answers
  <2>5. UNCHANGED << msgVars, orchestratorVars, row, callVars >>
    BY DEF Post
  <2>6. QED
    BY <1>1, <2>1, <2>3, <2>4, <2>5, QuietPostStep DEF Throws
<1>5. CASE Signed(b.user) /\ Valid(b) /\ Goes(o, "pricing") /\ UNCHANGED answer
  <2>1. stage'[o] = "pricing" /\ answer'[o] = answer[o]
    BY <1>2, <1>5, RequestType DEF Goes, PlacingInv, Shapes
  <2>2. PostIsKept(o)'
    BY <1>3, <1>5, <2>1 DEF PostIsKept
  <2>3. QED
    BY <1>1, <1>2, <1>5, <2>2, QuietPostStep, RequestType DEF Goes, Post, Stages
<1>6. QED
  BY <1>1, <1>4, <1>5
(* A step of a sent POST that changes neither the order nor the request.   *)
LEMMA StagePostStep ==
    ASSUME PlacingInv, NEW o \in Orders,
           UNCHANGED << msgVars, order, saga, notices, cancels, otx, postVars, callVars >>,
           NEW s \in Stages, stage' = [stage EXCEPT ![o] = s],
           NEW a \in Answers, answer' = [answer EXCEPT ![o] = a],
           PostIsKept(o)'
    PROVE  PlacingInv'
<1>1. body' = [body EXCEPT ![o] = body[o]]
  BY DEF postVars, PlacingInv, Shapes
<1>2. QED
  BY <1>1, QuietPostStep DEF postVars, orchestratorVars

(* The facts of a POST whose order and request stay as they are.           *)
LEMMA SameRequest ==
    ASSUME NEW o \in Orders, UNCHANGED << order, body, row >>
    PROVE  /\ Quote(o)' = Quote(o) /\ (KnownDrops(o)' <=> KnownDrops(o))
           /\ Written(o)' <=> Written(o)
<1>1. Quote(o)' = Quote(o) /\ (KnownDrops(o)' <=> KnownDrops(o))
  BY DEF Quote, KnownDrops
<1>2. QED
  BY <1>1 DEF Written

LEMMA GetDropsKeeps ==
    ASSUME PlacingInv, NEW o \in Orders, GetDrops(o)
    PROVE  PlacingInv'
<1>1. o \in Requests /\ "open" \in Stages
  BY DEF Requests, Stages
<1>2. stage'[o] = "open" /\ answer'[o] = answer[o] /\ stage[o] = "pricing" /\ KnownDrops(o)
  BY <1>1 DEF GetDrops, Goes, PlacingInv, Shapes
<1>3. UNCHANGED << order, body, row >>
  BY DEF GetDrops, orchestratorVars, postVars
<1>4. PostIsKept(o)'
  BY <1>2, <1>3, SameRequest DEF PlacingInv, PostIsKept
<1>5. QED
  BY <1>1, <1>4, StagePostStep, RequestType DEF GetDrops, Goes, orchestratorVars

(* The answers are those of the filter.                                     *)
LEMMA GrpcAnswers ==
    /\ FromGrpc("NOT_FOUND") = 404 /\ FromGrpc("FAILED_PRECONDITION") = 409
    /\ FromGrpc("UNKNOWN") = 500 /\ FromGrpc("UNAVAILABLE") = 500
BY DEF FromGrpc

LEMMA ThrowingKeeps ==
    ASSUME PlacingInv, NEW o \in Orders, NoSuchDrop(o) \/ TotalTooLarge(o)
    PROVE  PlacingInv'
<1>1. CASE NoSuchDrop(o)
  BY <1>1, ThrowKeeps, GrpcAnswers DEF NoSuchDrop, Answers
<1>2. CASE TotalTooLarge(o)
  BY <1>2, ThrowKeeps, GrpcAnswers DEF TotalTooLarge, Answers
<1>3. QED
  BY <1>1, <1>2

LEMMA AnswerPlacedKeeps ==
    ASSUME PlacingInv, NEW o \in Orders, AnswerPlaced(o)
    PROVE  PlacingInv'
<1>1. o \in Requests /\ "over" \in Stages /\ 201 \in Answers
  BY DEF Requests, Stages, Answers
<1>2. stage'[o] = "over" /\ answer'[o] = 201 /\ stage[o] = "done"
  BY <1>1 DEF AnswerPlaced, Created, PlacingInv, Shapes
<1>3. UNCHANGED << order, body, row >>
  BY DEF AnswerPlaced, orchestratorVars, postVars
<1>4. PostIsKept(o)'
  BY <1>2, <1>3, SameRequest DEF PlacingInv, PostIsKept
<1>5. QED
  BY <1>1, <1>4, StagePostStep DEF AnswerPlaced, Created, orchestratorVars

(* A lost call is answered, and the order is written later or never.       *)
LEMMA LosePostKeeps ==
    ASSUME PlacingInv, NEW o \in Orders, LoseCall(o)
    PROVE  PlacingInv'
<1>1. o \in Requests /\ o \notin CancelCalls /\ "over" \in Stages /\ 500 \in Answers
  BY GatewayAssumption DEF Requests, Stages, Answers
<1>2. /\ stage[o] \in {"pricing", "open", "done"}
      /\ answer' = [answer EXCEPT ![o] = 500]
      /\ Goes(o, "over") \/ (stage[o] = "open" /\ UNCHANGED stage)
  BY GrpcAnswers DEF LoseCall
<1>3. UNCHANGED << order, body, row >>
  BY DEF LoseCall, postVars
<1>4. PICK s \in Stages : /\ stage' = [stage EXCEPT ![o] = s]
                          /\ s = "over" \/ (s = "open" /\ stage[o] = "open")
  BY <1>1, <1>2, RequestType DEF Goes
<1>5. stage'[o] = s /\ answer'[o] = 500
  BY <1>1, <1>2, <1>4 DEF PlacingInv, Shapes
<1>6. PostIsKept(o)'
  BY <1>2, <1>3, <1>4, <1>5, SameRequest DEF PlacingInv, PostIsKept
<1>7. UNCHANGED << msgVars, order, saga, notices, cancels, otx, postVars, callVars >>
  BY <1>1 DEF LoseCall
<1>8. QED
  BY <1>1, <1>2, <1>4, <1>6, <1>7, StagePostStep

(* The order is written as it was asked for and priced.                    *)
LEMMA PlaceKeeps ==
    ASSUME PlacingInv, NEW o \in Orders, Place(o)
    PROVE  PlacingInv'
<1> DEFINE r == [ customer |-> body[o].user, lines |-> Quote(o),
                  totalCents |-> TotalCents(Quote(o)) ]
<1>1. /\ stage[o] = "open" /\ PlaceOrder(o)
      /\ row' = [row EXCEPT ![o] = r] /\ stage' = [stage EXCEPT ![o] = "done"]
      /\ UNCHANGED << body, callVars, answer >>
  BY DEF Place, Goes
<1>2. MessagingTypeOK' /\ OrchestratorTypeOK'
  BY <1>1, CustomerTypes DEF CustomerActs, PlacingInv
<1>3. /\ order[o] = "NONE" /\ order'[o] = "PLACED"
      /\ \A p \in Orders \ {o} : order'[p] = order[p]
      /\ \A p \in Orders : saga'[p].lastError = saga[p].lastError
      /\ UNCHANGED << notices, otx >>
  <2>1. saga[o] \in Sagas
    BY DEF PlacingInv, OrchestratorTypeOK
  <2>2. [saga[o] EXCEPT !.step = "ReservePortions"].lastError = saga[o].lastError
    BY <2>1 DEF Sagas
  <2>3. QED
    BY <1>1, <2>2 DEF PlaceOrder, PlacingInv, OrchestratorTypeOK
<1>4. SoFar' /\ MarksNone
  <2>1. \A t \in otx : t.msg.order \in Orders
    BY DEF PlacingInv, OrchestratorTypeOK, OrderTransactions, Messages, CancelRequests
  <2>2. QED
    BY <1>3, <2>1 DEF SoFar, MarksNone, PlacingInv
<1>5. \A p \in Orders : p # o => row'[p] = row[p]
  BY <1>1 DEF PlacingInv, Shapes
<1>6. Remain
  BY <1>3, <1>5 DEF Remain
<1>7. o \in Requests /\ "done" \in Stages
  BY DEF Requests, Stages
<1>8. PostIsKept(o)'
  <2>1. stage'[o] = "done" /\ answer'[o] = answer[o] /\ row'[o] = r
    BY <1>1, <1>7 DEF PlacingInv, Shapes
  <2>2. Written(o)'
    <3>1. Quote(o)' = Quote(o)
      BY <1>1 DEF Quote
    <3>2. QED
      BY <1>1, <2>1, <3>1 DEF Written
  <2>3. Acceptable(body[o]) /\ body[o] \in Bodies[o]
    BY <1>1, PlacingAssumption DEF PlacingInv, PostIsKept, Acceptable, KnownDrops
  <2>4. answer[o] \notin 400..499
    BY <1>1 DEF PlacingInv, PostIsKept
  <2>5. QED
    BY <1>1, <1>3, <2>1, <2>2, <2>3, <2>4 DEF PostIsKept
<1>9. body' = [body EXCEPT ![o] = body[o]] /\ answer' = [answer EXCEPT ![o] = answer[o]]
  BY <1>1, <1>7 DEF PlacingInv, Shapes
<1>10. answer[o] \in Answers
  BY <1>7, RequestType
<1> HIDE DEF r
<1>11. QED
  BY <1>1, <1>2, <1>3, <1>4, <1>6, <1>7, <1>8, <1>9, <1>10, PostStep
(***************************************************************************)
(* The steps of a cancel call.                                             *)
(***************************************************************************)

(* Of all the requests, a step changes only the call c.                    *)
OnlyCall(c) ==
    /\ Shapes' /\ UNCHANGED postVars
    /\ \A o \in Orders : stage'[o] = stage[o] /\ answer'[o] = answer[o]
    /\ \A x \in CancelCalls \ {c} :
          call'[x] = call[x] /\ stage'[x] = stage[x] /\ answer'[x] = answer[x]

LEMMA OnlyThisCall ==
    ASSUME PlacingInv, NEW c \in CancelCalls, UNCHANGED postVars,
           NEW r, call' = [call EXCEPT ![c] = r],
           NEW n, asked' = [asked EXCEPT ![c] = n],
           NEW s \in Stages, stage' = [stage EXCEPT ![c] = s],
           NEW a \in Answers, answer' = [answer EXCEPT ![c] = a]
    PROVE  OnlyCall(c) /\ call'[c] = r /\ stage'[c] = s /\ answer'[c] = a
<1>1. c \in Requests /\ \A o \in Orders : o \in Requests /\ c # o
  BY GatewayAssumption DEF Requests
<1>2. Shapes' /\ call'[c] = r /\ stage'[c] = s /\ answer'[c] = a
  BY <1>1 DEF PlacingInv, Shapes, postVars
<1>3. QED
  BY <1>1, <1>2 DEF OnlyCall, PlacingInv, Shapes, Requests

(* A step of one cancel call.                                               *)
LEMMA CancelStep ==
    ASSUME PlacingInv, MessagingTypeOK', OrchestratorTypeOK', SoFar', KeepsOrders,
           NEW c \in CancelCalls, OnlyCall(c), CancelIsKept(c)', CancelledIsAsked'
    PROVE  PlacingInv'
<1>1. Remain
  BY DEF Remain, KeepsOrders, OnlyCall, postVars
<1>2. ASSUME NEW o \in Orders PROVE PostIsKept(o)'
  BY PostStable DEF PlacingInv, KeepsOrders, OnlyCall, postVars
<1>3. ASSUME NEW x \in CancelCalls PROVE CancelIsKept(x)'
  BY <1>1, CancelStable DEF PlacingInv, OnlyCall
<1>4. QED
  BY <1>2, <1>3 DEF PlacingInv, OnlyCall

(* A step of a cancel call that is not the commit of a cancellation.       *)
LEMMA QuietCancelStep ==
    ASSUME PlacingInv, UNCHANGED << order, saga, notices >>,
           MessagingTypeOK', OrchestratorTypeOK', SoFar',
           NEW c \in CancelCalls, OnlyCall(c), CancelIsKept(c)',
           stage[c] # "unsent" =>
               stage'[c] # "unsent" /\ call'[c] = call[c] /\ answer'[c] \in {0, 201, 500}
    PROVE  PlacingInv'
<1>1. KeepsOrders /\ MarksNone /\ Remain
  BY DEF KeepsOrders, MarksNone, Remain, OnlyCall, postVars
<1>2. CallsRemain
  BY DEF CallsRemain, OnlyCall
<1>3. CancelledIsAsked'
  BY <1>1, <1>2, CancelledStable DEF PlacingInv
<1>4. QED
  BY <1>1, <1>3, CancelStep

(* A call that is answered at once changes nothing else.                   *)
LEMMA AnsweredAtOnce ==
    ASSUME PlacingInv, NEW c \in CancelCalls, NEW r \in Calls[c], Ask(c, r),
           UNCHANGED << orchestratorVars, asked >>,
           \/ Created(c) /\ "OrderCancelled" \in notices[r.order]
           \/ \E status \in Answers \ {201} : Throws(c, status)
    PROVE  PlacingInv'
<1>1. c \in Requests /\ "over" \in Stages /\ 201 \in Answers
  BY DEF Requests, Stages, Answers
<1>2. /\ call' = [call EXCEPT ![c] = r] /\ stage[c] = "unsent"
      /\ UNCHANGED << msgVars, postVars >>
  BY DEF Ask
<1>3. MessagingTypeOK' /\ OrchestratorTypeOK' /\ SoFar'
  BY <1>2, Idles DEF orchestratorVars
<1>4. PICK a \in Answers : /\ stage' = [stage EXCEPT ![c] = "over"]
                           /\ answer' = [answer EXCEPT ![c] = a]
                           /\ a = 201 => "OrderCancelled" \in notices[r.order]
  BY <1>1 DEF Created, Throws
<1>5. asked' = [asked EXCEPT ![c] = asked[c]]
  BY DEF PlacingInv, Shapes
<1>6. OnlyCall(c) /\ call'[c] = r /\ stage'[c] = "over" /\ answer'[c] = a
  BY <1>1, <1>2, <1>4, <1>5, OnlyThisCall
<1>7. CancelIsKept(c)'
  BY <1>4, <1>6 DEF CancelIsKept, orchestratorVars
<1>8. QED
  BY <1>2, <1>3, <1>6, <1>7, QuietCancelStep DEF orchestratorVars

LEMMA RefusalsKeep ==
    ASSUME PlacingInv, NEW c \in CancelCalls, NEW r \in Calls[c],
           CancelUnsigned(c, r) \/ CancelNotFound(c, r) \/ CancelTooLate(c, r)
             \/ CancelAgain(c, r)
    PROVE  PlacingInv'
<1>1. ASSUME NEW a \in Answers \ {201}, Ask(c, r), Refused(c, a) PROVE PlacingInv'
  BY <1>1, AnsweredAtOnce DEF Refused
<1>2. CASE CancelUnsigned(c, r)
  BY <1>1, <1>2 DEF CancelUnsigned, Answers
<1>3. CASE CancelNotFound(c, r)
  BY <1>1, <1>3, GrpcAnswers DEF CancelNotFound, Answers
<1>4. CASE CancelTooLate(c, r)
  BY <1>1, <1>4, GrpcAnswers DEF CancelTooLate, Answers
<1>5. CASE CancelAgain(c, r)
  <2>1. "OrderCancelled" \in notices[r.order]
    BY <1>5, CallType DEF CancelAgain, PlacingInv, SoFar
  <2>2. QED
    BY <1>5, <2>1, AnsweredAtOnce DEF CancelAgain
<1>6. QED
  BY <1>2, <1>3, <1>4, <1>5

LEMMA BeginCancelKeeps ==
    ASSUME PlacingInv, NEW c \in CancelCalls, NEW r \in Calls[c], BeginCancel(c, r)
    PROVE  PlacingInv'
<1>1. c \in Requests /\ "open" \in Stages /\ r.order \in Orders
  BY CallType DEF Requests, Stages
<1>2. /\ call' = [call EXCEPT ![c] = r] /\ stage[c] = "unsent" /\ UNCHANGED postVars
      /\ stage' = [stage EXCEPT ![c] = "open"] /\ UNCHANGED answer
      /\ RequestCancel(r.order) /\ Owned(r)
      /\ asked' = [asked EXCEPT ![c] = cancels'[r.order]]
  BY DEF BeginCancel, Ask, Goes
<1>3. MessagingTypeOK' /\ OrchestratorTypeOK'
  BY <1>1, <1>2, CustomerTypes DEF CustomerActs, PlacingInv
<1>4. UNCHANGED << order, saga, notices >>
  BY <1>2 DEF RequestCancel, Begin
<1>5. SoFar'
  <2>1. \A t \in otx' : t \in otx \/ t.msg.order = r.order
    BY <1>2 DEF RequestCancel, Begin, CancelRequest
  <2>2. order[r.order] # "NONE"
    BY <1>2 DEF Owned
  <2>3. QED
    BY <1>4, <2>1, <2>2 DEF SoFar, PlacingInv
<1>6. OnlyCall(c) /\ call'[c] = r /\ stage'[c] = "open" /\ answer'[c] = 0
  <2>1. answer[c] = 0 /\ 0 \in Answers /\ answer' = [answer EXCEPT ![c] = 0]
    BY <1>1, <1>2, RequestType DEF PlacingInv, CancelIsKept, Answers
  <2>2. QED
    BY <1>1, <1>2, <2>1, OnlyThisCall
<1>7. Owned(r)'
  BY <1>2, <1>4 DEF Owned, postVars
<1>8. CancelIsKept(c)'
  BY <1>6, <1>7 DEF CancelIsKept
<1>9. QED
  BY <1>2, <1>3, <1>4, <1>5, <1>6, <1>8, QuietCancelStep

(* The cancellation commits: it was asked for, and it is announced.        *)
LEMMA FinishCancelKeeps ==
    ASSUME PlacingInv, NEW c \in CancelCalls, FinishCancel(c)
    PROVE  PlacingInv'
<1>1. /\ stage[c] = "open" /\ stage' = [stage EXCEPT ![c] = "done"]
      /\ UNCHANGED << postVars, callVars, answer >>
  BY DEF FinishCancel, Goes
<1>2. PICK o : o = call[c].order
  OBVIOUS
<1>3. PICK t \in otx : t.msg.order = o /\ CommitCancel(t)
  BY <1>2 DEF FinishCancel, TransactionOf, CancelRequest
<1>4. c \in Requests /\ "done" \in Stages
  BY DEF Requests, Stages
<1>5. call[c] \in Calls[c] /\ Owned(call[c]) /\ answer[c] \in {0, 500}
  BY <1>1 DEF PlacingInv, CancelIsKept
<1>6. /\ o \in Orders /\ order[o] # "NONE"
      /\ call[c] = [user |-> row[o].customer, order |-> o]
  BY <1>2, <1>5, CallType DEF Owned
<1>7. MessagingTypeOK' /\ OrchestratorTypeOK'
  BY <1>3, CustomerTypes DEF CustomerActs, PlacingInv
<1>8. /\ SoFar' /\ KeepsOrders /\ "OrderCancelled" \in notices'[o]
      /\ \A p \in Orders \ {o} : saga'[p] = saga[p]
  <2>1. PICK sagaRow : sagaRow = [saga[o] EXCEPT !.lastError = "CANCELLED_BY_CUSTOMER"]
    OBVIOUS
  <2>2. sagaRow \in Sagas
    BY <1>6, <2>1 DEF PlacingInv, OrchestratorTypeOK, Sagas, Errors
  <2>3. "CANCELLED" \in OrderStatus
    BY DEF OrderStatus
  <2>4. Write(o, "CANCELLED", sagaRow, {"OrderCancelled"}) /\ otx' \subseteq otx
    BY <1>3, <2>1 DEF CommitCancel
  <2>5. QED
    BY <1>6, <2>2, <2>3, <2>4, WriteKeeps DEF PlacingInv
<1>9. /\ OnlyCall(c) /\ call'[c] = call[c] /\ stage'[c] = "done"
      /\ answer'[c] = answer[c] /\ row' = row
  <2>1. PICK r, n, a : r = call[c] /\ n = asked[c] /\ a = answer[c]
    OBVIOUS
  <2>2. /\ call' = [call EXCEPT ![c] = r] /\ asked' = [asked EXCEPT ![c] = n]
        /\ answer' = [answer EXCEPT ![c] = a] /\ a \in Answers
    BY <1>1, <1>4, <2>1, RequestType DEF PlacingInv, Shapes, callVars
  <2>3. UNCHANGED postVars /\ stage' = [stage EXCEPT ![c] = "done"]
    BY <1>1
  <2>4. OnlyCall(c) /\ call'[c] = r /\ stage'[c] = "done" /\ answer'[c] = a
    BY <1>4, <2>2, <2>3, OnlyThisCall
  <2>5. QED
    BY <1>1, <2>1, <2>4 DEF postVars
<1>10. CancelIsKept(c)'
  <2>1. Owned(call[c])'
    BY <1>6, <1>8, <1>9 DEF Owned, KeepsOrders
  <2>2. QED
    BY <1>2, <1>5, <1>8, <1>9, <2>1 DEF CancelIsKept
<1>11. CancelledIsAsked'
  <2>1. Remain /\ CallsRemain
    BY <1>5, <1>8, <1>9 DEF Remain, CallsRemain, KeepsOrders, OnlyCall
  <2>2. ASSUME NEW p \in Orders, p # o, saga'[p].lastError = "CANCELLED_BY_CUSTOMER"
        PROVE  IsAsked(p)'
    BY <1>8, <2>1, <2>2, AskedStable DEF PlacingInv, SoFar, CancelledIsAsked
  <2>3. IsAsked(o)'
    BY <1>5, <1>6, <1>9 DEF IsAsked
  <2>4. QED
    BY <2>2, <2>3 DEF CancelledIsAsked
<1>12. QED
  BY <1>7, <1>8, <1>9, <1>10, <1>11, CancelStep

(* The last steps of a call: an answer after the commit, or a lost one.    *)
LEMMA EndCancelKeeps ==
    ASSUME PlacingInv, NEW c \in CancelCalls, AnswerCancel(c) \/ LoseCall(c)
    PROVE  PlacingInv'
<1>1. /\ c \in Requests /\ {"open", "over"} \subseteq Stages /\ {201, 500} \subseteq Answers
      /\ c \notin Orders
  BY GatewayAssumption DEF Requests, Stages, Answers
<1>2. /\ UNCHANGED << msgVars, order, saga, notices, cancels, postVars, callVars >>
      /\ otx' \subseteq otx /\ stage[c] # "unsent"
  BY DEF AnswerCancel, LoseCall, orchestratorVars
<1>3. MessagingTypeOK' /\ OrchestratorTypeOK' /\ SoFar' /\ Remain
  BY <1>2, Idles DEF postVars
<1>4. /\ call' = [call EXCEPT ![c] = call[c]]
      /\ asked' = [asked EXCEPT ![c] = asked[c]]
  BY <1>2 DEF PlacingInv, Shapes, callVars
<1>5. ASSUME NEW s \in Stages, stage' = [stage EXCEPT ![c] = s],
             NEW a \in Answers, answer' = [answer EXCEPT ![c] = a]
      PROVE  OnlyCall(c) /\ call'[c] = call[c]
  BY <1>2, <1>4, <1>5, OnlyThisCall
<1>6. ASSUME OnlyCall(c), call'[c] = call[c],
             \/ stage[c] = "done" /\ stage'[c] = "over" /\ answer'[c] = 201
             \/ stage'[c] = "over" /\ answer'[c] = 500
             \/ stage[c] = "open" /\ stage'[c] = "open" /\ answer'[c] = 500
      PROVE  PlacingInv'
  <2>1. CancelIsKept(c)'
    <3>1. Owned(call[c]) <=> Owned(call[c])'
      BY <1>2, <1>6 DEF Owned, postVars, callVars
    <3>2. QED
      BY <1>2, <1>6, <3>1 DEF CancelIsKept, PlacingInv
  <2>2. stage'[c] # "unsent" /\ answer'[c] \in {0, 201, 500}
    BY <1>6
  <2>3. QED
    BY <1>2, <1>3, <1>6, <2>1, <2>2, QuietCancelStep
<1>7. CASE AnswerCancel(c)
  <2>1. /\ stage' = [stage EXCEPT ![c] = "over"] /\ answer' = [answer EXCEPT ![c] = 201]
        /\ stage[c] = "done"
    BY <1>7 DEF AnswerCancel, Created
  <2>2. stage'[c] = "over" /\ answer'[c] = 201
    BY <1>1, <2>1 DEF PlacingInv, Shapes
  <2>3. OnlyCall(c) /\ call'[c] = call[c]
    <3>1. "over" \in Stages /\ 201 \in Answers
      BY <1>1
    <3>2. QED
      BY <1>5, <2>1, <3>1
  <2>4. QED
    BY <1>6, <2>1, <2>2, <2>3
<1>8. CASE LoseCall(c)
  <2>1. PICK s \in Stages : /\ stage' = [stage EXCEPT ![c] = s]
                            /\ s = "over" \/ (s = "open" /\ stage[c] = "open")
    BY <1>1, <1>8, RequestType DEF LoseCall, Goes
  <2>2. answer' = [answer EXCEPT ![c] = 500]
    BY <1>8, GrpcAnswers DEF LoseCall
  <2>3. stage'[c] = s /\ answer'[c] = 500
    BY <1>1, <2>1, <2>2 DEF PlacingInv, Shapes
  <2>4. OnlyCall(c) /\ call'[c] = call[c]
    <3>1. s \in Stages /\ 500 \in Answers
      BY <1>1, <2>1
    <3>2. QED
      BY <1>5, <2>1, <2>2, <3>1
  <2>5. QED
    BY <1>6, <2>1, <2>3, <2>4
<1>9. QED
  BY <1>7, <1>8
(***************************************************************************)
(* The theorems.                                                           *)
(***************************************************************************)

LEMMA PlacingInitially == Init => PlacingInv
<1> SUFFICES ASSUME Init PROVE PlacingInv
  OBVIOUS
<1>1. MessagingTypeOK /\ OrchestratorTypeOK /\ SoFar
  BY DEF Init, MessagingInit, OrchestratorInit, MessagingTypeOK, OrchestratorTypeOK,
         SoFar, Sagas, Errors
<1>2. Shapes
  BY DEF Init, GatewayInit, Shapes, Stages, Answers
<1>3. Orders \subseteq Requests /\ CancelCalls \subseteq Requests
  BY DEF Requests
<1>4. ASSUME NEW o \in Orders PROVE PostIsKept(o)
  BY <1>3 DEF Init, OrchestratorInit, GatewayInit, PostIsKept
<1>5. ASSUME NEW c \in CancelCalls PROVE CancelIsKept(c)
  BY <1>3 DEF Init, GatewayInit, CancelIsKept
<1>6. CancelledIsAsked
  BY DEF Init, OrchestratorInit, CancelledIsAsked
<1>7. QED
  BY <1>1, <1>2, <1>4, <1>5, <1>6 DEF PlacingInv

LEMMA AskingKeeps ==
    ASSUME PlacingInv, CustomersAsk
    PROVE  PlacingInv'
<1>1. CASE \E o \in Orders : Post(o)
  BY <1>1, PostKeeps
<1>2. CASE \E c \in CancelCalls : \E r \in Calls[c] :
             \/ CancelUnsigned(c, r) \/ CancelNotFound(c, r) \/ CancelTooLate(c, r)
             \/ CancelAgain(c, r) \/ BeginCancel(c, r)
  BY <1>2, RefusalsKeep, BeginCancelKeeps
<1>3. QED
  BY <1>1, <1>2 DEF CustomersAsk

LEMMA RelayingKeeps ==
    ASSUME PlacingInv, GatewayWorks
    PROVE  PlacingInv'
<1>1. ASSUME NEW o \in Orders,
             GetDrops(o) \/ NoSuchDrop(o) \/ Place(o) \/ TotalTooLarge(o) \/ AnswerPlaced(o)
      PROVE  PlacingInv'
  BY <1>1, GetDropsKeeps, ThrowingKeeps, PlaceKeeps, AnswerPlacedKeeps
<1>2. ASSUME NEW c \in CancelCalls, FinishCancel(c) \/ AnswerCancel(c)
      PROVE  PlacingInv'
  BY <1>2, FinishCancelKeeps, EndCancelKeeps
<1>3. QED
  BY <1>1, <1>2 DEF GatewayWorks

LEMMA TroubleKeeps ==
    ASSUME PlacingInv, Trouble
    PROVE  PlacingInv'
<1>1. CASE KitchenFails /\ UNCHANGED << orchestratorVars, gatewayVars >>
  BY <1>1, CookingKeeps
<1>2. CASE \E q \in Requests : LoseCall(q)
  BY <1>2, LosePostKeeps, EndCancelKeeps DEF Requests
<1>3. QED
  BY <1>1, <1>2 DEF Trouble

LEMMA PlacingKept == PlacingInv /\ [Next]_vars => PlacingInv'
<1> SUFFICES ASSUME PlacingInv, [Next]_vars PROVE PlacingInv'
  OBVIOUS
<1>1. CASE Asking
  BY <1>1, AskingKeeps DEF Asking
<1>2. CASE Relaying
  BY <1>2, RelayingKeeps DEF Relaying
<1>3. CASE \E o \in Orders : Orchestrating(o)
  BY <1>3, OrchestratingKeeps
<1>4. CASE ReadingLate
  BY <1>4, ReadingKeeps
<1>5. CASE Cooking
  BY <1>5, CookingKeeps DEF Cooking
<1>6. CASE Trouble
  BY <1>6, TroubleKeeps
<1>7. CASE UNCHANGED vars
  <2>1. MessagingTypeOK' /\ OrchestratorTypeOK' /\ SoFar' /\ KeepsOrders /\ MarksNone
    BY <1>7 DEF vars, msgVars, orchestratorVars, PlacingInv, MessagingTypeOK,
                OrchestratorTypeOK, SoFar, KeepsOrders, MarksNone
  <2>2. QED
    BY <1>7, <2>1, ServicesKeep DEF vars
<1>8. QED
  BY <1>1, <1>2, <1>3, <1>4, <1>5, <1>6, <1>7 DEF Next

(* The requests, the orders and the announcements agree at every moment.   *)
THEOREM PlacingInvHolds == Spec => []PlacingInv
  BY PlacingInitially, PlacingKept, PTL DEF Spec

(* An order's lines are those that were asked for, priced.                  *)
LEMMA QuoteLines ==
    ASSUME NEW o \in Orders, body[o] \in Bodies[o]
    PROVE  /\ Len(Quote(o)) = Len(body[o].lines)
           /\ DOMAIN Quote(o) = DOMAIN body[o].lines
           /\ \A i \in DOMAIN Quote(o) :
                 /\ Quote(o)[i].drop = body[o].lines[i].drop
                 /\ Quote(o)[i].qty = body[o].lines[i].qty
                 /\ Quote(o)[i].unitPriceCents = PortionPrice(Quote(o)[i].drop)
<1>1. PICK S : body[o].lines \in Seq(S)
  BY GatewayAssumption
<1>2. DOMAIN body[o].lines = 1..Len(body[o].lines) /\ Len(body[o].lines) \in Nat
  BY <1>1
<1>3. DOMAIN Quote(o) = 1..Len(body[o].lines)
  BY <1>2 DEF Quote
<1>4. \A i \in DOMAIN Quote(o) :
         Quote(o)[i] = [ drop |-> body[o].lines[i].drop, qty |-> body[o].lines[i].qty,
                         unitPriceCents |-> PortionPrice(body[o].lines[i].drop) ]
  BY DEF Quote
<1>5. Len(Quote(o)) = Len(body[o].lines)
  <2>1. PICK n \in Nat : n = Len(body[o].lines)
    BY <1>2
  <2>2. PICK T : T = {Quote(o)[i] : i \in 1..n}
    OBVIOUS
  <2>3. Quote(o) = [i \in 1..n |-> Quote(o)[i]]
    BY <1>2, <2>1 DEF Quote
  <2>4. Quote(o) \in Seq(T)
    BY <2>2, <2>3
  <2>5. Len(Quote(o)) \in Nat /\ 1..Len(Quote(o)) = 1..n
    BY <1>3, <2>1, <2>4
  <2>6. QED
    BY <2>1, <2>5
<1>6. ASSUME NEW i \in DOMAIN Quote(o)
      PROVE  /\ Quote(o)[i].drop = body[o].lines[i].drop
             /\ Quote(o)[i].qty = body[o].lines[i].qty
             /\ Quote(o)[i].unitPriceCents = PortionPrice(Quote(o)[i].drop)
  <2>1. PICK line : line = Quote(o)[i]
    OBVIOUS
  <2>2. line = [ drop |-> body[o].lines[i].drop, qty |-> body[o].lines[i].qty,
                 unitPriceCents |-> PortionPrice(body[o].lines[i].drop) ]
    BY <1>4, <2>1
  <2>3. /\ line.drop = body[o].lines[i].drop /\ line.qty = body[o].lines[i].qty
        /\ line.unitPriceCents = PortionPrice(body[o].lines[i].drop)
    BY <2>2
  <2>4. QED
    BY <2>1, <2>3
<1>7. QED
  BY <1>2, <1>3, <1>5, <1>6

(* Whatever is asked, priced, lost or raced with: an order is what its     *)
(* customer asked for, at the kitchen's prices, and its total adds up.     *)
THEOREM OrdersAsAsked == Spec => []OrdersAreAsked
<1>1. ASSUME PlacingInv, NEW o \in Orders, order[o] # "NONE"
      PROVE  LET v == OrderView(o) IN
             /\ Acceptable(body[o]) /\ v.customer = body[o].user
             /\ Len(v.lines) = Len(body[o].lines)
             /\ \A i \in DOMAIN v.lines :
                   /\ v.lines[i].drop = body[o].lines[i].drop
                   /\ v.lines[i].qty = body[o].lines[i].qty
                   /\ v.lines[i].unitPriceCents = PortionPrice(v.lines[i].drop)
             /\ v.totalCents = TotalCents(v.lines)
             /\ v.status \in ShownStatuses
  <2>1. Acceptable(body[o]) /\ Written(o)
    BY <1>1 DEF PlacingInv, PostIsKept
  <2>2. body[o] \in Bodies[o]
    BY <1>1 DEF PlacingInv, PostIsKept
  <2>3. order[o] \in ShownStatuses
    BY <1>1 DEF PlacingInv, OrchestratorTypeOK, ShownStatuses
  <2>4. /\ OrderView(o).customer = body[o].user /\ OrderView(o).lines = Quote(o)
        /\ OrderView(o).totalCents = TotalCents(Quote(o))
        /\ OrderView(o).status = order[o]
    BY <2>1 DEF OrderView, Written
  <2>5. QED
    BY <2>1, <2>2, <2>3, <2>4, QuoteLines
<1>2. PlacingInv => OrdersAreAsked
  BY <1>1 DEF OrdersAreAsked
<1>3. QED
  BY <1>2, PlacingInvHolds, PTL

(* Whatever is lost or raced with: a customer's answer agrees with what    *)
(* became of the order, and only its customer has it cancelled.            *)
THEOREM AnswersStayTrue == Spec => []AnswersAreTrue
<1>1. ASSUME PlacingInv, NEW o \in Orders
      PROVE  /\ answer[o] = 201 => OrderView(o) \in ListOrders(body[o].user)
             /\ answer[o] \in 400..499 => order[o] = "NONE"
             /\ saga[o].lastError = "CANCELLED_BY_CUSTOMER" =>
                   \E c \in CancelCalls :
                       /\ call[c] = [user |-> row[o].customer, order |-> o]
                       /\ answer[c] \in {0, 201, 500}
  <2>1. PostIsKept(o)
    BY <1>1 DEF PlacingInv
  <2>2. answer[o] = 201 => OrderView(o) \in ListOrders(body[o].user)
    BY <2>1 DEF PostIsKept, ListOrders, Written
  <2>3. QED
    BY <1>1, <2>1, <2>2 DEF PostIsKept, PlacingInv, CancelledIsAsked, IsAsked
<1>2. ASSUME PlacingInv, NEW c \in CancelCalls, answer[c] = 201
      PROVE  "OrderCancelled" \in notices[call[c].order]
  BY <1>2 DEF PlacingInv, CancelIsKept
<1>3. PlacingInv => AnswersAreTrue
  BY <1>1, <1>2 DEF AnswersAreTrue
<1>4. QED
  BY <1>3, PlacingInvHolds, PTL

(***************************************************************************)
(* The kitchen's transactions: the rows a transaction has changed are its  *)
(* own to the end, so what it took is still there when it commits, and it   *)
(* is what the lines behind it ask for.                                     *)
(***************************************************************************)

LineType == [drop : Drops, qty : Nat \ {0}]

(* What the i-th line of order o asks of drop d.                            *)
Asks(o, d) ==
    [i \in DOMAIN Lines[o] |-> IF Lines[o][i].drop = d THEN Lines[o][i].qty ELSE 0]

(* The lines a transaction still has to go through are lines of its order,  *)
(* each once (p says which), and it took what the others ask for.           *)
Others(o, p) == DOMAIN Lines[o] \ {p[i] : i \in DOMAIN p}

LinesLeft(w, p) ==
    LET o == w.msg.order IN
    /\ p \in Injection(DOMAIN w.todo, DOMAIN Lines[o])
    /\ \A i \in DOMAIN w.todo : w.todo[i] = Lines[o][p[i]]
    /\ \A d \in Drops : w.took[d] = SumOf(Asks(o, d), Others(o, p))

(* A transaction is at a command, and what it took of each drop the row     *)
(* still has; it took nothing if it is not open.                            *)
OpenWork(w) ==
    /\ w.msg \in sent /\ w.msg.kind = "command"
    /\ \/ /\ w.msg.step = "ReservePortions"
          /\ \A d \in Drops : w.took[d] <= available[d]
       \/ /\ w.msg.step = "ReleasePortions" /\ reservation[w.msg.order] # "NONE"
          /\ \A d \in Drops : w.took[d] <= reserved[d]
    /\ w.todo \in Seq(LineType)
    /\ \E p \in [DOMAIN w.todo -> DOMAIN Lines[w.msg.order]] : LinesLeft(w, p)

ShortWork(w) ==
    /\ w.msg \in sent /\ w.msg.kind = "command" /\ w.msg.step = "ReservePortions"
    /\ w.todo = << >> /\ w.took = Nothing

WorkKept(w) ==
    /\ w = [msg |-> w.msg, at |-> w.at, todo |-> w.todo, took |-> w.took]
    /\ w.took \in [Drops -> Nat]
    /\ \/ w.at = "idle" /\ w = Idle
       \/ w.at = "open" /\ OpenWork(w)
       \/ w.at = "short" /\ ShortWork(w)

(* No two transactions have changed the same row.                           *)
Exclusive ==
    \A g, h \in Handlers : \A d \in Drops :
        g # h => work[g].took[d] = 0 \/ work[h].took[d] = 0

(* An order is reserved once, for its one command; and a reply in the inbox *)
(* or on its way is the kitchen's.                                          *)
ReservedOnce ==
    /\ \A m \in sent : IF m.kind = "command"
                       THEN m.step = "ReservePortions" => m.from = 0
                       ELSE m.step = "ReservePortions"
    /\ \A o \in Orders : reservation[o] # "NONE" => Command("ReservePortions", o, 0) \in inbox

RowsTyped ==
    /\ available \in [Drops -> Nat]
    /\ reserved \in [Drops -> Nat]
    /\ reservation \in [Orders -> {"NONE", "HELD", "RELEASED"}]
    /\ unacked \subseteq sent /\ faults \in 0..MaxFaults

ReservingInv ==
    /\ RowsTyped
    /\ work = [h \in Handlers |-> work[h]]
    /\ \A h \in Handlers : WorkKept(work[h])
    /\ Exclusive
    /\ ReservedOnce

(* The lines of an order are finitely many, and ask for natural numbers.    *)
LEMMA LinesType ==
    ASSUME NEW o \in Orders
    PROVE  /\ IsFiniteSet(DOMAIN Lines[o])
           /\ Lines[o] \in Seq(LineType)
           /\ \A i \in DOMAIN Lines[o] : Lines[o][i] \in LineType
           /\ \A d \in Drops : \A i \in DOMAIN Lines[o] :
                 Asks(o, d)[i] \in Nat /\ Asks(o, d)[i] \in Int
<1>1. Lines[o] \in Seq(LineType)
  BY ReservingAssumption DEF LineType
<1>2. DOMAIN Lines[o] = 1..Len(Lines[o]) /\ Len(Lines[o]) \in Nat
  BY <1>1
<1>3. IsFiniteSet(DOMAIN Lines[o])
  BY <1>2, FS_Interval
<1>4. \A i \in DOMAIN Lines[o] : Lines[o][i] \in LineType
  BY <1>1
<1>5. QED
  BY <1>1, <1>3, <1>4 DEF Asks, LineType

(* All the lines, and one more of some of them.                             *)
LEMMA AsksSums ==
    ASSUME NEW o \in Orders, NEW d \in Drops, NEW S \in SUBSET DOMAIN Lines[o]
    PROVE  /\ SumOf(Asks(o, d), S) \in Nat
           /\ SumOf(Asks(o, d), S) <= SumOf(Asks(o, d), DOMAIN Lines[o])
           /\ SumOf(Asks(o, d), DOMAIN Lines[o]) \in Nat
           /\ \A i \in DOMAIN Lines[o] \ S :
                 SumOf(Asks(o, d), S \cup {i}) = Asks(o, d)[i] + SumOf(Asks(o, d), S)
<1>1. PICK f : f = Asks(o, d)
  OBVIOUS
<1>2. PICK T : T = DOMAIN Lines[o]
  OBVIOUS
<1>3. IsFiniteSet(T) /\ S \in SUBSET T /\ \A i \in T : f[i] \in Nat /\ f[i] \in Int
  BY <1>1, <1>2, LinesType
<1>4. IsFiniteSet(S)
  BY <1>3, FS_Subset
<1>5. SumOf(f, S) \in Nat /\ SumOf(f, T) \in Nat /\ SumOf(f, S) <= SumOf(f, T)
  BY <1>3, <1>4, SumNat, SumPart
<1>6. \A i \in T \ S : SumOf(f, S \cup {i}) = f[i] + SumOf(f, S)
  BY <1>3, <1>4, SumAdd
<1>7. QED
  BY <1>1, <1>2, <1>5, <1>6

(* A transaction that has gone through its lines took what they ask for,    *)
(* and one that has not took no more than that.                             *)
LEMMA TookLines ==
    ASSUME NEW w, w.msg.order \in Orders,
           NEW p, LinesLeft(w, p), NEW d \in Drops
    PROVE  /\ w.todo = << >> =>
                 w.took[d] = SumOf(Asks(w.msg.order, d), DOMAIN Lines[w.msg.order])
           /\ \A i \in DOMAIN w.todo : w.todo[i].drop = d =>
                 w.took[d] + w.todo[i].qty
                    <= SumOf(Asks(w.msg.order, d), DOMAIN Lines[w.msg.order])
<1>1. PICK o \in Orders : o = w.msg.order
  OBVIOUS
<1>2. /\ p \in [DOMAIN w.todo -> DOMAIN Lines[o]]
      /\ \A i \in DOMAIN w.todo : w.todo[i] = Lines[o][p[i]]
      /\ w.took[d] = SumOf(Asks(o, d), Others(o, p))
  BY <1>1 DEF LinesLeft, Injection
<1>3. Others(o, p) \in SUBSET DOMAIN Lines[o]
  BY DEF Others
<1>4. ASSUME w.todo = << >>
      PROVE  w.took[d] = SumOf(Asks(o, d), DOMAIN Lines[o])
  <2>1. Others(o, p) = DOMAIN Lines[o]
    BY <1>2, <1>4 DEF Others
  <2>2. QED
    BY <1>2, <2>1
<1>5. ASSUME NEW i \in DOMAIN w.todo, w.todo[i].drop = d
      PROVE  w.took[d] + w.todo[i].qty <= SumOf(Asks(o, d), DOMAIN Lines[o])
  <2>1. p[i] \in DOMAIN Lines[o] \ Others(o, p)
    BY <1>2, <1>5 DEF Others
  <2>2. PICK S \in SUBSET DOMAIN Lines[o] : S = Others(o, p)
    BY <1>3
  <2>3. PICK j \in DOMAIN Lines[o] \ S : j = p[i]
    BY <2>1, <2>2
  <2>4. Asks(o, d)[j] = w.todo[i].qty /\ Asks(o, d)[j] \in Nat
    BY <1>2, <1>5, <2>3, LinesType DEF Asks
  <2>5. SumOf(Asks(o, d), S \cup {j}) = Asks(o, d)[j] + SumOf(Asks(o, d), S)
    BY AsksSums
  <2>6. S \cup {j} \in SUBSET DOMAIN Lines[o]
    OBVIOUS
  <2>7. SumOf(Asks(o, d), S \cup {j}) <= SumOf(Asks(o, d), DOMAIN Lines[o])
    BY <2>6, AsksSums
  <2>8. SumOf(Asks(o, d), S) \in Nat /\ w.took[d] = SumOf(Asks(o, d), S)
    BY <1>2, <2>2, AsksSums
  <2>9. QED
    BY <2>4, <2>5, <2>7, <2>8
<1>6. QED
  BY <1>1, <1>4, <1>5

(* What is left when the first line is done, and what is then behind.        *)
Shift(p, n) == [i \in 1..(n - 1) |-> p[i + 1]]

OneToOne(p, n) == \A i, j \in 1..n : p[i] = p[j] => i = j

OneBehind(o, p, q, n) ==
    /\ q \in [1..(n - 1) -> DOMAIN Lines[o]]
    /\ \A i \in 1..(n - 1) : q[i] = p[i + 1]
    /\ OneToOne(q, n - 1)
    /\ p[1] \in DOMAIN Lines[o] \ Others(o, p)
    /\ Others(o, q) = Others(o, p) \cup {p[1]}

LEMMA Behind ==
    ASSUME NEW n \in Nat \ {0}, NEW o, NEW p \in [1..n -> DOMAIN Lines[o]], OneToOne(p, n)
    PROVE  OneBehind(o, p, Shift(p, n), n)
<1>0. PICK q : q = Shift(p, n)
  OBVIOUS
<1> DEFINE S == DOMAIN Lines[o]
<1> HIDE DEF S
<1>1. 1 \in 1..n /\ \A j \in 1..(n - 1) : j + 1 \in 1..n /\ j + 1 # 1
  OBVIOUS
<1>2. \A i \in 1..n : i # 1 => i - 1 \in 1..(n - 1) /\ (i - 1) + 1 = i
  OBVIOUS
<1>3. q \in [1..(n - 1) -> S] /\ \A i \in 1..(n - 1) : q[i] = p[i + 1]
  <2>1. p \in [1..n -> S]
    BY DEF S
  <2>2. QED
    BY <1>0, <1>1, <2>1 DEF Shift
<1>4. ASSUME NEW i \in 1..(n - 1), NEW j \in 1..(n - 1), q[i] = q[j]
      PROVE  i = j
  <2>1. p[i + 1] = p[j + 1]
    BY <1>3, <1>4
  <2>2. i + 1 = j + 1
    BY <1>1, <2>1 DEF OneToOne
  <2>3. QED
    BY <2>2
<1>5. \A j \in 1..(n - 1) : q[j] # p[1]
  BY <1>1, <1>3 DEF OneToOne
<1>6. \A i \in 1..n : p[i] = p[1] \/ p[i] \in {q[j] : j \in 1..(n - 1)}
  <2>1. ASSUME NEW i \in 1..n, i # 1
        PROVE  p[i] \in {q[j] : j \in 1..(n - 1)}
    <3>1. q[i - 1] = p[i]
      BY <1>2, <1>3, <2>1
    <3>2. QED
      BY <1>2, <2>1, <3>1
  <2>2. QED
    BY <2>1
<1>7. \A j \in 1..(n - 1) : q[j] \in {p[i] : i \in 1..n}
  BY <1>1, <1>3
<1>8. p[1] \in S /\ p[1] \in {p[i] : i \in 1..n} /\ p[1] \notin {q[j] : j \in 1..(n - 1)}
  <2>1. p \in [1..n -> S]
    BY DEF S
  <2>2. QED
    BY <1>1, <1>5, <2>1
<1>9. S \ {q[i] : i \in 1..(n - 1)} = (S \ {p[i] : i \in 1..n}) \cup {p[1]}
  BY <1>6, <1>7, <1>8
<1>10. /\ Others(o, p) = S \ {p[i] : i \in 1..n}
       /\ Others(o, q) = S \ {q[i] : i \in 1..(n - 1)}
  <2>1. DOMAIN p = 1..n /\ DOMAIN q = 1..(n - 1)
    BY <1>3
  <2>2. QED
    BY <2>1 DEF Others, S
<1>11. OneToOne(q, n - 1)
  BY <1>4 DEF OneToOne
<1>12. p[1] \in S \ Others(o, p) /\ Others(o, q) = Others(o, p) \cup {p[1]}
  BY <1>8, <1>9, <1>10
<1>13. QED
  BY <1>0, <1>3, <1>11, <1>12 DEF OneBehind, S

(* The update of a line moves it from the lines that are left to those      *)
(* behind.                                                                  *)
LEMMA UpdateLines ==
    ASSUME NEW o \in Orders, NEW w, NEW v, w.msg.order = o, v.msg.order = o,
           w.todo \in Seq(LineType), w.todo # << >>, v.todo = Tail(w.todo),
           \A d \in Drops :
              /\ w.took[d] \in Nat
              /\ v.took[d] = IF d = Head(w.todo).drop
                             THEN w.took[d] + Head(w.todo).qty ELSE w.took[d],
           NEW p, LinesLeft(w, p)
    PROVE  \E q \in [DOMAIN v.todo -> DOMAIN Lines[o]] : LinesLeft(v, q)
<1>1. PICK todo \in Seq(LineType) : todo = w.todo /\ todo # << >>
  OBVIOUS
<1>2. PICK x \in LineType : x = Head(todo) /\ x = todo[1]
  BY <1>1
<1>3. x.drop \in Drops /\ x.qty \in Nat
  BY DEF LineType
<1>4. \A d \in Drops :
         w.took[d] \in Nat /\ v.took[d] = IF d = x.drop THEN w.took[d] + x.qty ELSE w.took[d]
  BY <1>1, <1>2
<1>5. PICK n \in Nat : n = Len(todo) /\ n >= 1 /\ DOMAIN todo = 1..n
  BY <1>1
<1>6. /\ v.todo = Tail(todo) /\ DOMAIN v.todo = 1..(n - 1)
      /\ \A i \in 1..(n - 1) : v.todo[i] = todo[i + 1]
  BY <1>1, <1>5
<1>7. /\ p \in [1..n -> DOMAIN Lines[o]]
      /\ \A i, j \in 1..n : p[i] = p[j] => i = j
      /\ \A i \in 1..n : todo[i] = Lines[o][p[i]]
      /\ \A d \in Drops : w.took[d] = SumOf(Asks(o, d), Others(o, p))
  BY <1>1, <1>5 DEF LinesLeft, Injection, IsInjective
<1>8. PICK S : S = DOMAIN Lines[o]
  OBVIOUS
<1>9. PICK q \in [1..(n - 1) -> S] :
          /\ \A i \in 1..(n - 1) : q[i] = p[i + 1]
          /\ \A i, j \in 1..(n - 1) : q[i] = q[j] => i = j
          /\ p[1] \in S \ Others(o, p)
          /\ Others(o, q) = Others(o, p) \cup {p[1]}
  <2>1. n \in Nat \ {0} /\ p \in [1..n -> DOMAIN Lines[o]] /\ OneToOne(p, n)
    BY <1>5, <1>7 DEF OneToOne
  <2>2. PICK q : OneBehind(o, p, q, n)
    BY <2>1, Behind
  <2>3. QED
    BY <1>8, <2>2 DEF OneBehind, OneToOne
<1>10. \A d \in Drops : v.took[d] = SumOf(Asks(o, d), Others(o, q))
  <2>1. ASSUME NEW d \in Drops
        PROVE  v.took[d] = SumOf(Asks(o, d), Others(o, q))
    <3>1. PICK T \in SUBSET DOMAIN Lines[o] : T = Others(o, p)
      BY DEF Others
    <3>2. PICK k \in DOMAIN Lines[o] \ T : k = p[1]
      BY <1>8, <1>9, <3>1
    <3>3. SumOf(Asks(o, d), T \cup {k}) = Asks(o, d)[k] + SumOf(Asks(o, d), T)
      BY AsksSums
    <3>4. Lines[o][k] = x
      BY <1>2, <1>5, <1>7, <3>2
    <3>5. Asks(o, d)[k] = IF x.drop = d THEN x.qty ELSE 0
      BY <3>4 DEF Asks
    <3>6. w.took[d] = SumOf(Asks(o, d), T) /\ w.took[d] \in Nat
      <4>1. w.took[d] = SumOf(Asks(o, d), Others(o, p))
        BY DEF LinesLeft
      <4>2. w.took[d] \in Nat
        BY <1>4
      <4>3. QED
        BY <3>1, <4>1, <4>2
    <3>7. Others(o, q) = T \cup {k}
      BY <1>9, <3>1, <3>2
    <3>8. SumOf(Asks(o, d), Others(o, q)) = Asks(o, d)[k] + w.took[d]
      BY <3>3, <3>6, <3>7
    <3>9. QED
      BY <1>3, <1>4, <3>5, <3>6, <3>8
  <2>2. QED
    BY <2>1
<1>11. q \in [DOMAIN v.todo -> DOMAIN Lines[o]]
  BY <1>6, <1>8
<1>12. \A i, j \in DOMAIN v.todo : q[i] = q[j] => i = j
  BY <1>6, <1>9
<1>13. \A i \in DOMAIN v.todo : v.todo[i] = Lines[o][q[i]]
  <2>1. ASSUME NEW i \in 1..(n - 1) PROVE v.todo[i] = Lines[o][q[i]]
    <3>1. PICK j \in 1..n : j = i + 1
      BY <1>5
    <3>2. v.todo[i] = todo[j] /\ q[i] = p[j]
      BY <1>6, <1>9, <3>1
    <3>3. QED
      BY <1>7, <3>2
  <2>2. QED
    BY <1>6, <2>1
<1>14. LinesLeft(v, q)
  BY <1>10, <1>11, <1>12, <1>13 DEF LinesLeft, Injection, IsInjective
<1>15. QED
  BY <1>11, <1>14

(* A handler's record is right while what it has locked stays on its row.   *)
LEMMA WorkStable ==
    ASSUME NEW w, WorkKept(w), sent \subseteq sent',
           w.msg \in sent => w.msg.order \in Orders,
           \A o \in Orders : reservation[o] # "NONE" => reservation'[o] # "NONE",
           \A d \in Drops :
              /\ w.took[d] <= available[d] => w.took[d] <= available'[d]
              /\ w.took[d] <= reserved[d] => w.took[d] <= reserved'[d]
    PROVE  WorkKept(w)'
<1>1. w.at = "idle" /\ w = Idle => WorkKept(w)'
  BY DEF WorkKept
<1>2. ASSUME OpenWork(w) PROVE OpenWork(w)'
  BY <1>2 DEF OpenWork
<1>3. ASSUME ShortWork(w) PROVE ShortWork(w)'
  BY <1>3 DEF ShortWork
<1>4. QED
  BY <1>1, <1>2, <1>3 DEF WorkKept

(* A step of one handler, as the others see it.                             *)
LEMMA HandlerStep ==
    ASSUME ReservingInv, MessagingTypeOK, sent \subseteq sent',
           RowsTyped', ReservedOnce',
           NEW h \in Handlers, NEW v, WorkKept(v)', work' = [work EXCEPT ![h] = v],
           \A o \in Orders : reservation[o] # "NONE" => reservation'[o] # "NONE",
           \A g \in Handlers \ {h} : \A d \in Drops :
              /\ v.took[d] = 0 \/ work[g].took[d] = 0
              /\ work[g].took[d] <= available[d] => work[g].took[d] <= available'[d]
              /\ work[g].took[d] <= reserved[d] => work[g].took[d] <= reserved'[d]
    PROVE  ReservingInv'
<1>1. work' = [g \in Handlers |-> work'[g]]
  BY DEF ReservingInv
<1>2. work'[h] = v /\ \A g \in Handlers \ {h} : work'[g] = work[g]
  BY DEF ReservingInv
<1>3. \A m \in sent : m.order \in Orders
  BY DEF MessagingTypeOK, Messages
<1>4. ASSUME NEW g \in Handlers PROVE WorkKept(work[g])'
  <2>1. PICK w : w = work'[g]
    OBVIOUS
  <2>2. WorkKept(w)'
    <3>1. CASE g = h
      BY <1>2, <2>1, <3>1
    <3>2. CASE g # h
      <4>1. w = work[g] /\ WorkKept(work[g])
        BY <1>2, <2>1, <3>2 DEF ReservingInv
      <4>2. WorkKept(w)
        BY <4>1
      <4>3. \A d \in Drops :
               /\ w.took[d] <= available[d] => w.took[d] <= available'[d]
               /\ w.took[d] <= reserved[d] => w.took[d] <= reserved'[d]
        BY <3>2, <4>1
      <4>4. w.msg \in sent => w.msg.order \in Orders
        BY <1>3
      <4>5. QED
        BY <4>2, <4>3, <4>4, WorkStable
    <3>3. QED
      BY <3>1, <3>2
  <2>3. QED
    BY <2>1, <2>2 DEF WorkKept, OpenWork, ShortWork
<1>5. Exclusive'
  BY <1>2 DEF ReservingInv, Exclusive
<1>6. QED
  BY <1>1, <1>4, <1>5 DEF ReservingInv

(* A transaction that ends without writing has changed nothing.             *)
LEMMA IdleStep ==
    ASSUME ReservingInv, MessagingTypeOK, sent \subseteq sent',
           RowsTyped', ReservedOnce', UNCHANGED rowVars,
           NEW h \in Handlers, Leave(h)
    PROVE  ReservingInv'
<1>1. PICK v : v = Idle
  OBVIOUS
<1>2. \A d \in Drops : v.took[d] = 0
  BY <1>1 DEF Idle, Nothing
<1>3. WorkKept(v)'
  BY <1>1 DEF WorkKept, Idle, Nothing
<1>4. work' = [work EXCEPT ![h] = v]
  BY <1>1 DEF Leave
<1>5. /\ \A o \in Orders : reservation[o] # "NONE" => reservation'[o] # "NONE"
      /\ \A g \in Handlers \ {h} : \A d \in Drops :
            /\ v.took[d] = 0 \/ work[g].took[d] = 0
            /\ work[g].took[d] <= available[d] => work[g].took[d] <= available'[d]
            /\ work[g].took[d] <= reserved[d] => work[g].took[d] <= reserved'[d]
  BY <1>2 DEF rowVars
<1>6. QED
  BY <1>3, <1>4, <1>5, HandlerStep
(* The kitchen answers its reservations, and what it reserves is reserved   *)
(* for the command it consumes.                                             *)
LEMMA AnswerKeepsOnce ==
    ASSUME ReservedOnce, MessagingTypeOK, NEW m, NEW out, Consume(m, out),
           \A r \in out : r.kind # "command" /\ r.step = "ReservePortions",
           \A o \in Orders : reservation'[o] # "NONE" =>
              \/ reservation[o] # "NONE"
              \/ m.kind = "command" /\ m.step = "ReservePortions" /\ m.order = o
    PROVE  ReservedOnce'
<1>1. m \in sent /\ m \in Messages /\ inbox' = inbox \cup {m} /\ sent' = sent \cup out
  BY DEF Consume, Pending, MessagingTypeOK
<1>2. \A r \in sent' : IF r.kind = "command"
                       THEN r.step = "ReservePortions" => r.from = 0
                       ELSE r.step = "ReservePortions"
  BY <1>1 DEF ReservedOnce
<1>3. ASSUME NEW o \in Orders, reservation'[o] # "NONE"
      PROVE  Command("ReservePortions", o, 0) \in inbox'
  <2>1. CASE reservation[o] # "NONE"
    BY <1>1, <2>1 DEF ReservedOnce
  <2>2. CASE m.kind = "command" /\ m.step = "ReservePortions" /\ m.order = o
    <3>1. m.from = 0
      BY <1>1, <2>2 DEF ReservedOnce
    <3>2. m = Command("ReservePortions", o, 0)
      BY <1>1, <2>2, <3>1 DEF Messages, Command
    <3>3. QED
      BY <1>1, <3>2
  <2>3. QED
    BY <1>3, <2>1, <2>2
<1>4. QED
  BY <1>2, <1>3 DEF ReservedOnce, Command

(* Only placeOrder asks for portions, and it does so once.                  *)
LEMMA SendingKeepsOnce ==
    ASSUME ReservedOnce, UNCHANGED reservation, inbox \subseteq inbox',
           \A r \in sent' \ sent :
              r.kind = "command" /\ (r.step = "ReservePortions" => r.from = 0)
    PROVE  ReservedOnce'
BY DEF ReservedOnce, Command

(* A compensation asks for no portions.                                     *)
LEMMA UndoSends ==
    ASSUME NEW t, NEW resources \in SUBSET Resources, NEW r \in Undo(t, resources)
    PROVE  r.kind = "command" /\ r.step # "ReservePortions"
<1>1. PICK x \in resources \cap t.acquired :
         r = Command(CASE x = "assignment"  -> "UnassignCourier"
                       [] x = "payment"     -> "VoidPayment"
                       [] x = "reservation" -> "ReleasePortions",
                     t.msg.order, t.msg.from)
  BY DEF Undo
<1>2. x \in {"reservation", "payment", "assignment"}
  BY DEF Resources
<1>3. QED
  BY <1>1, <1>2 DEF Command

LEMMA CancelKeepsOnce ==
    ASSUME ReservedOnce, UNCHANGED reservation, NEW t, CommitCancel(t)
    PROVE  ReservedOnce' /\ sent \subseteq sent'
<1>1. PICK out : out = Undo(t, {"payment", "reservation"})
  OBVIOUS
<1>2. sent' = sent \cup out /\ inbox' = inbox
  BY <1>1 DEF CommitCancel
<1>3. \A r \in out : r.kind = "command" /\ r.step # "ReservePortions"
  BY <1>1, UndoSends DEF Resources
<1>4. QED
  BY <1>2, <1>3, SendingKeepsOnce

LEMMA OrchestratorKeepsOnce ==
    ASSUME ReservedOnce, UNCHANGED reservation, NEW o \in Orders,
           OrchestratorHandles(o) \/ PlaceOrder(o)
    PROVE  ReservedOnce' /\ sent \subseteq sent'
<1>1. ASSUME NEW out, \A r \in out : r.kind = "command" /\ (r.step = "ReservePortions" => r.from = 0),
             sent' = sent \cup out, inbox \subseteq inbox'
      PROVE  ReservedOnce' /\ sent \subseteq sent'
  BY <1>1, SendingKeepsOnce
<1>2. ASSUME UNCHANGED msgVars PROVE ReservedOnce' /\ sent \subseteq sent'
  BY <1>2, SendingKeepsOnce DEF msgVars
<1>3. ASSUME NEW m, Receive(m) PROVE ReservedOnce' /\ sent \subseteq sent'
  BY <1>2, <1>3 DEF Receive, Begin, msgVars
<1>4. ASSUME PlaceOrder(o) PROVE ReservedOnce' /\ sent \subseteq sent'
  <2>1. PICK out : out = {Command("ReservePortions", o, 0)}
    OBVIOUS
  <2>2. \A r \in out : r.kind = "command" /\ r.from = 0
    BY <2>1 DEF Command
  <2>3. sent' = sent \cup out /\ inbox' = inbox
    BY <1>4, <2>1 DEF PlaceOrder
  <2>4. QED
    BY <1>1, <2>2, <2>3
<1>5. ASSUME NEW t, NEW out, CommitMessage(t, out),
             \A r \in out : r.kind = "command" /\ r.step # "ReservePortions"
      PROVE  ReservedOnce' /\ sent \subseteq sent'
  BY <1>1, <1>5 DEF CommitMessage, Consume
<1>6. ASSUME NEW t, NEW step, step # "ReservePortions", NEW r \in Sends(t, step)
      PROVE  r.kind = "command" /\ r.step # "ReservePortions"
  BY <1>6 DEF Sends, Command
<1>7. ASSUME NEW t, CommitReply(t) PROVE ReservedOnce' /\ sent \subseteq sent'
  <2>1. \/ CommitMessage(t, {})
        \/ CommitMessage(t, Undo(t, Resources))
        \/ \E step \in {"AuthorizePayment", "AcceptOrder", "AssignCourier", "CapturePayment"} :
              CommitMessage(t, Sends(t, step))
    BY <1>7 DEF CommitReply, PortionsReserved, PaymentAuthorized, OrderAccepted,
          CourierAssigned, PaymentCaptured, Reject, Compensate, IgnoreReply,
          OnDelivered, IgnoreDelivered
  <2>2. CASE CommitMessage(t, {})
    <3>1. PICK out : out = {}
      OBVIOUS
    <3>2. CommitMessage(t, out) /\ \A r \in out : FALSE
      BY <2>2, <3>1
    <3>3. QED
      BY <1>5, <3>2
  <2>3. CASE CommitMessage(t, Undo(t, Resources))
    <3>1. PICK out : out = Undo(t, Resources)
      OBVIOUS
    <3>2. CommitMessage(t, out) /\ \A r \in out : r.kind = "command" /\ r.step # "ReservePortions"
      BY <2>3, <3>1, UndoSends
    <3>3. QED
      BY <1>5, <3>2
  <2>4. CASE \E step \in {"AuthorizePayment", "AcceptOrder", "AssignCourier", "CapturePayment"} :
                CommitMessage(t, Sends(t, step))
    <3>1. PICK step \in {"AuthorizePayment", "AcceptOrder", "AssignCourier", "CapturePayment"} :
             CommitMessage(t, Sends(t, step))
      BY <2>4
    <3>2. \A r \in Sends(t, step) : r.kind = "command" /\ r.step # "ReservePortions"
      BY <1>6
    <3>3. QED
      BY <1>5, <3>1, <3>2
  <2>5. QED
    BY <2>1, <2>2, <2>3, <2>4
<1>8. QED
  BY <1>3, <1>4, <1>7 DEF OrchestratorHandles
(* A transaction that has just begun has all the lines of its order before *)
(* it, in some order, and took nothing.                                     *)
LEMMA BeginLines ==
    ASSUME NEW m, m.order \in Orders, NEW todo \in Orderings(Lines[m.order]),
           NEW w, w = [msg |-> m, at |-> "open", todo |-> todo, took |-> Nothing]
    PROVE  /\ todo \in Seq(LineType)
           /\ \E p \in [DOMAIN w.todo -> DOMAIN Lines[m.order]] : LinesLeft(w, p)
<1>1. PICK o \in Orders : o = m.order
  OBVIOUS
<1>2. PICK n \in Nat : DOMAIN Lines[o] = 1..n
  <2>1. Lines[o] \in Seq(LineType)
    BY LinesType
  <2>2. QED
    BY <2>1
<1>3. PICK p \in Bijection(1..n, 1..n) : todo = [i \in 1..n |-> Lines[o][p[i]]]
  BY <1>1, <1>2 DEF Orderings
<1>4. /\ p \in [1..n -> 1..n] /\ \A y \in 1..n : \E i \in 1..n : p[i] = y
      /\ p \in Injection(1..n, 1..n)
  BY <1>3 DEF Bijection, Surjection, Injection
<1>5. DOMAIN todo = 1..n /\ \A i \in 1..n : todo[i] = Lines[o][p[i]]
  BY <1>3
<1>6. ASSUME NEW i \in 1..n PROVE todo[i] \in LineType
  <2>1. p[i] \in DOMAIN Lines[o]
    BY <1>2, <1>4
  <2>2. Lines[o][p[i]] \in LineType
    BY <2>1, LinesType
  <2>3. QED
    BY <1>5, <2>2
<1>7. todo \in Seq(LineType)
  <2>1. PICK T : T = LineType
    OBVIOUS
  <2>2. \A i \in 1..n : Lines[o][p[i]] \in T
    BY <1>5, <1>6, <2>1
  <2>3. [i \in 1..n |-> Lines[o][p[i]]] \in Seq(T)
    BY <2>2
  <2>4. QED
    BY <1>3, <2>1, <2>3
<1>8. w.todo = todo /\ w.msg.order = o /\ w.took = Nothing
  BY <1>1
<1>9. Others(o, p) = {}
  <2>1. DOMAIN p = 1..n
    BY <1>4
  <2>2. QED
    BY <1>2, <1>4, <2>1 DEF Others
<1>10. ASSUME NEW d \in Drops PROVE Nothing[d] = SumOf(Asks(o, d), Others(o, p))
  <2>1. SumOf(Asks(o, d), {}) = 0
    BY SumEmpty
  <2>2. QED
    BY <1>9, <2>1 DEF Nothing
<1>11. LinesLeft(w, p)
  BY <1>2, <1>4, <1>5, <1>8, <1>10 DEF LinesLeft
<1>12. QED
  BY <1>1, <1>2, <1>4, <1>5, <1>7, <1>8, <1>11

LEMMA DeliverKeeps ==
    ASSUME ReservingInv, MessagingTypeOK, NEW h \in Handlers, NEW m \in sent, Deliver(h, m)
    PROVE  ReservingInv'
<1>1. m.order \in Orders /\ m.kind = "command"
  BY DEF MessagingTypeOK, Messages, Deliver, Arrives
<1>2. PICK todo \in Orderings(Lines[m.order]) :
         /\ \/ m.step = "ReservePortions"
            \/ m.step = "ReleasePortions" /\ reservation[m.order] = "HELD"
         /\ work' = [work EXCEPT ![h] =
                        [msg |-> m, at |-> "open", todo |-> todo, took |-> Nothing]]
  BY DEF Deliver, Arrives
<1>3. PICK v : v = [msg |-> m, at |-> "open", todo |-> todo, took |-> Nothing]
  OBVIOUS
<1>4. /\ todo \in Seq(LineType)
      /\ \E p \in [DOMAIN v.todo -> DOMAIN Lines[m.order]] : LinesLeft(v, p)
  BY <1>1, <1>3, BeginLines
<1>5. /\ v.msg = m /\ v.at = "open" /\ v.todo = todo /\ v.took = Nothing
      /\ \A d \in Drops : v.took[d] = 0
      /\ v.took \in [Drops -> Nat]
      /\ v = [msg |-> v.msg, at |-> v.at, todo |-> v.todo, took |-> v.took]
  BY <1>3 DEF Nothing
<1>6. UNCHANGED << msgVars, rowVars, faults >> /\ unacked' = unacked \cup {m}
  BY DEF Deliver
<1>7. OpenWork(v)'
  BY <1>1, <1>2, <1>4, <1>5, <1>6 DEF OpenWork, msgVars, rowVars, ReservingInv, RowsTyped
<1>8. WorkKept(v)'
  BY <1>5, <1>7 DEF WorkKept
<1>9. RowsTyped' /\ ReservedOnce' /\ sent \subseteq sent'
  BY <1>6 DEF ReservingInv, RowsTyped, ReservedOnce, rowVars, msgVars
<1>10. work' = [work EXCEPT ![h] = v]
  BY <1>2, <1>3
<1>11. /\ \A o \in Orders : reservation[o] # "NONE" => reservation'[o] # "NONE"
       /\ \A g \in Handlers \ {h} : \A d \in Drops :
             /\ v.took[d] = 0 \/ work[g].took[d] = 0
             /\ work[g].took[d] <= available[d] => work[g].took[d] <= available'[d]
             /\ work[g].took[d] <= reserved[d] => work[g].took[d] <= reserved'[d]
  BY <1>5, <1>6 DEF rowVars
<1>12. QED
  BY <1>8, <1>9, <1>10, <1>11, HandlerStep

(* A line is updated when its row is not locked and has the portions.       *)
LEMMA UpdateKeeps ==
    ASSUME ReservingInv, MessagingTypeOK, NEW h \in Handlers,
           work[h].at = "open", work[h].todo # << >>, ~Locked(h), Update(h),
           \/ work[h].msg.step = "ReservePortions" /\ Sum(h) <= available[Line(h).drop]
           \/ work[h].msg.step = "ReleasePortions" /\ Sum(h) <= reserved[Line(h).drop],
           UNCHANGED << msgVars, rowVars, unacked, faults >>
    PROVE  ReservingInv'
<1>1. PICK w : w = work[h]
  OBVIOUS
<1>2. PICK m : m = w.msg
  OBVIOUS
<1>3. PICK todo : todo = w.todo
  OBVIOUS
<1>4. PICK took : took = w.took
  OBVIOUS
<1>5. WorkKept(w) /\ w.at = "open"
  BY <1>1 DEF ReservingInv
<1>6. /\ todo \in Seq(LineType) /\ took \in [Drops -> Nat] /\ todo # << >>
      /\ w = [msg |-> m, at |-> "open", todo |-> todo, took |-> took]
      /\ m \in sent /\ m.kind = "command"
      /\ \/ /\ m.step = "ReservePortions" /\ \A d \in Drops : took[d] <= available[d]
         \/ /\ m.step = "ReleasePortions" /\ reservation[m.order] # "NONE"
            /\ \A d \in Drops : took[d] <= reserved[d]
      /\ \E p \in [DOMAIN w.todo -> DOMAIN Lines[m.order]] : LinesLeft(w, p)
  BY <1>1, <1>2, <1>3, <1>4, <1>5 DEF WorkKept, OpenWork
<1>7. m.order \in Orders
  BY <1>6 DEF MessagingTypeOK, Messages
<1>8. PICK p \in [DOMAIN w.todo -> DOMAIN Lines[m.order]] : LinesLeft(w, p)
  BY <1>6
<1>9. PICK x : x = Head(todo)
  OBVIOUS
<1>10. x \in LineType /\ x.drop \in Drops /\ x.qty \in Nat
  <2>1. x \in LineType
    BY <1>6, <1>9
  <2>2. QED
    BY <2>1 DEF LineType
<1>11. PICK new : new = [took EXCEPT ![x.drop] = @ + x.qty]
  OBVIOUS
<1>12. /\ new \in [Drops -> Nat]
       /\ \A d \in Drops : new[d] = IF d = x.drop THEN took[d] + x.qty ELSE took[d]
  <2>1. took[x.drop] + x.qty \in Nat
    BY <1>6, <1>10
  <2>2. QED
    BY <1>6, <1>10, <1>11, <2>1
<1>13. PICK v : v = [msg |-> m, at |-> "open", todo |-> Tail(todo), took |-> new]
  OBVIOUS
<1>14. Line(h) = x /\ Sum(h) = took[x.drop] + x.qty
  BY <1>1, <1>3, <1>4, <1>9 DEF Line, Sum
<1>15. /\ Tail(todo) \in Seq(LineType)
       /\ \E q \in [DOMAIN v.todo -> DOMAIN Lines[m.order]] : LinesLeft(v, q)
  <2>1. PICK o \in Orders : o = m.order
    BY <1>7
  <2>2. w.msg.order = o /\ v.msg.order = o /\ v.todo = Tail(w.todo) /\ v.took = new
    BY <1>2, <1>3, <1>13, <2>1
  <2>3. w.todo \in Seq(LineType) /\ w.todo # << >>
    BY <1>3, <1>6
  <2>4. \A d \in Drops :
           /\ w.took[d] \in Nat
           /\ v.took[d] = IF d = Head(w.todo).drop
                          THEN w.took[d] + Head(w.todo).qty ELSE w.took[d]
    BY <1>3, <1>4, <1>6, <1>9, <1>12, <2>2
  <2>5. \E q \in [DOMAIN v.todo -> DOMAIN Lines[o]] : LinesLeft(v, q)
    BY <1>8, <2>2, <2>3, <2>4, UpdateLines
  <2>6. QED
    BY <1>3, <2>1, <2>3, <2>5
<1>16. \/ /\ m.step = "ReservePortions" /\ \A d \in Drops : new[d] <= available[d]
       \/ /\ m.step = "ReleasePortions" /\ reservation[m.order] # "NONE"
          /\ \A d \in Drops : new[d] <= reserved[d]
  BY <1>1, <1>2, <1>6, <1>12, <1>14
<1>17. /\ v.msg = m /\ v.at = "open" /\ v.todo = Tail(todo) /\ v.took = new
       /\ v = [msg |-> v.msg, at |-> v.at, todo |-> v.todo, took |-> v.took]
  BY <1>13
<1>18. OpenWork(v)'
  BY <1>6, <1>15, <1>16, <1>17 DEF OpenWork, msgVars, rowVars
<1>19. WorkKept(v)'
  BY <1>12, <1>17, <1>18 DEF WorkKept
<1>20. ASSUME NEW g \in Handlers \ {h}, NEW d \in Drops
       PROVE  /\ v.took[d] = 0 \/ work[g].took[d] = 0
              /\ work[g].took[d] <= available[d] => work[g].took[d] <= available'[d]
              /\ work[g].took[d] <= reserved[d] => work[g].took[d] <= reserved'[d]
  <2>1. work[g].took[d] \in Nat
    BY DEF ReservingInv, WorkKept
  <2>2. CASE d = x.drop
    <3>1. ~(work[g].took[d] > 0)
      BY <1>14, <2>2 DEF Locked, Locks
    <3>2. QED
      BY <2>1, <3>1 DEF rowVars
  <2>3. CASE d # x.drop
    <3>1. v.took[d] = work[h].took[d]
      BY <1>1, <1>4, <1>12, <1>17, <2>3
    <3>2. QED
      BY <3>1 DEF rowVars, ReservingInv, Exclusive
  <2>4. QED
    BY <2>2, <2>3
<1>21. \A o \in Orders : reservation[o] # "NONE" => reservation'[o] # "NONE"
  BY DEF rowVars
<1>22. work' = [work EXCEPT ![h] = v]
  <2>1. w.took[Line(h).drop] + Line(h).qty = took[x.drop] + x.qty
    BY <1>1, <1>4, <1>14
  <2>2. [w EXCEPT !.took = new, !.todo = Tail(todo)] = v
    <3>1. w = [msg |-> m, at |-> "open", todo |-> todo, took |-> took]
      BY <1>6
    <3>2. PICK u : u = [w EXCEPT !.took = new]
      OBVIOUS
    <3>3. u = [msg |-> m, at |-> "open", todo |-> todo, took |-> new]
      BY <3>1, <3>2
    <3>4. PICK rest : rest = Tail(todo)
      OBVIOUS
    <3>5. v = [msg |-> m, at |-> "open", todo |-> rest, took |-> new]
      BY <1>13, <3>4
    <3>6. [u EXCEPT !.todo = rest] = v
      BY <3>3, <3>5
    <3>7. QED
      BY <3>2, <3>4, <3>6
  <2>3. [work EXCEPT ![h].took[Line(h).drop] = @ + Line(h).qty, ![h].todo = Tail(@)]
           = [work EXCEPT ![h] = [w EXCEPT !.took = new, !.todo = Tail(todo)]]
    BY <1>1, <1>3, <1>4, <1>11, <1>14 DEF ReservingInv
  <2>4. QED
    BY <2>2, <2>3 DEF Update
<1>23. RowsTyped' /\ ReservedOnce' /\ sent \subseteq sent'
  BY DEF ReservingInv, RowsTyped, ReservedOnce, rowVars, msgVars
<1>24. QED
  BY <1>19, <1>20, <1>21, <1>22, <1>23, HandlerStep
LEMMA ShortKeeps ==
    ASSUME ReservingInv, MessagingTypeOK, NEW h \in Handlers, ShortLine(h)
    PROVE  ReservingInv'
<1>1. PICK v : v = [Idle EXCEPT !.msg = work[h].msg, !.at = "short"]
  OBVIOUS
<1>2. v = [msg |-> work[h].msg, at |-> "short", todo |-> << >>, took |-> Nothing]
  BY <1>1 DEF Idle
<1>3. /\ v.msg = work[h].msg /\ v.at = "short" /\ v.todo = << >> /\ v.took = Nothing
      /\ v = [msg |-> v.msg, at |-> v.at, todo |-> v.todo, took |-> v.took]
      /\ v.took \in [Drops -> Nat] /\ \A d \in Drops : v.took[d] = 0
  BY <1>2 DEF Nothing
<1>4. UNCHANGED << msgVars, rowVars, unacked, faults >> /\ work' = [work EXCEPT ![h] = v]
  BY <1>1 DEF ShortLine
<1>5. OpenWork(work[h]) /\ work[h].msg.step = "ReservePortions"
  BY DEF ReservingInv, WorkKept, ShortLine, IsAt
<1>6. ShortWork(v)'
  BY <1>3, <1>4, <1>5 DEF OpenWork, ShortWork, msgVars
<1>7. WorkKept(v)'
  BY <1>3, <1>6 DEF WorkKept
<1>8. RowsTyped' /\ ReservedOnce' /\ sent \subseteq sent'
  BY <1>4 DEF ReservingInv, RowsTyped, ReservedOnce, rowVars, msgVars
<1>9. /\ \A o \in Orders : reservation[o] # "NONE" => reservation'[o] # "NONE"
      /\ \A g \in Handlers \ {h} : \A d \in Drops :
            /\ v.took[d] = 0 \/ work[g].took[d] = 0
            /\ work[g].took[d] <= available[d] => work[g].took[d] <= available'[d]
            /\ work[g].took[d] <= reserved[d] => work[g].took[d] <= reserved'[d]
  BY <1>3, <1>4 DEF rowVars
<1>10. QED
  BY <1>4, <1>7, <1>8, <1>9, HandlerStep

(* A commit moves what the transaction took between the two columns: the    *)
(* rows others have changed are not among those it moves.                   *)
LEMMA CommitKeeps ==
    ASSUME ReservingInv, MessagingTypeOK, NEW h \in Handlers, work[h].at = "open", Leave(h),
           \/ /\ available' = [d \in Drops |-> available[d] - work[h].took[d]]
              /\ reserved' = [d \in Drops |-> reserved[d] + work[h].took[d]]
              /\ work[h].msg.step = "ReservePortions"
           \/ /\ available' = [d \in Drops |-> available[d] + work[h].took[d]]
              /\ reserved' = [d \in Drops |-> reserved[d] - work[h].took[d]]
              /\ work[h].msg.step = "ReleasePortions",
           NEW status \in {"HELD", "RELEASED"},
           reservation' = [reservation EXCEPT ![work[h].msg.order] = status],
           sent \subseteq sent', unacked' \subseteq unacked, UNCHANGED faults,
           ReservedOnce'
    PROVE  ReservingInv'
<1>1. /\ available \in [Drops -> Nat] /\ reserved \in [Drops -> Nat]
      /\ reservation \in [Orders -> {"NONE", "HELD", "RELEASED"}]
  BY DEF ReservingInv, RowsTyped
<1>2. OpenWork(work[h]) /\ work[h].took \in [Drops -> Nat]
  BY DEF ReservingInv, WorkKept
<1>3. \A g \in Handlers : work[g].took \in [Drops -> Nat]
  BY DEF ReservingInv, WorkKept
<1>4. ASSUME NEW d \in Drops
      PROVE  /\ available'[d] \in Nat /\ reserved'[d] \in Nat
             /\ work[h].took[d] = 0 => available'[d] = available[d] /\ reserved'[d] = reserved[d]
  <2>1. PICK k \in Nat : k = work[h].took[d]
    BY <1>2
  <2>2. available[d] \in Nat /\ reserved[d] \in Nat
    BY <1>1
  <2>3. CASE work[h].msg.step = "ReservePortions"
    <3>1. k <= available[d]
      BY <1>2, <2>1, <2>3 DEF OpenWork
    <3>2. available'[d] = available[d] - k /\ reserved'[d] = reserved[d] + k
      BY <2>1, <2>3
    <3>3. QED
      BY <2>1, <2>2, <3>1, <3>2
  <2>4. CASE work[h].msg.step = "ReleasePortions"
    <3>1. k <= reserved[d]
      BY <1>2, <2>1, <2>4 DEF OpenWork
    <3>2. available'[d] = available[d] + k /\ reserved'[d] = reserved[d] - k
      BY <2>1, <2>4
    <3>3. QED
      BY <2>1, <2>2, <3>1, <3>2
  <2>5. QED
    BY <1>2, <2>3, <2>4 DEF OpenWork
<1>5. available' \in [Drops -> Nat] /\ reserved' \in [Drops -> Nat]
  <2>1. /\ available' = [d \in Drops |-> available'[d]]
        /\ reserved' = [d \in Drops |-> reserved'[d]]
    OBVIOUS
  <2>2. QED
    BY <1>4, <2>1
<1>6. /\ reservation' \in [Orders -> {"NONE", "HELD", "RELEASED"}]
      /\ \A o \in Orders : reservation[o] # "NONE" => reservation'[o] # "NONE"
  BY <1>1
<1>7. RowsTyped'
  BY <1>5, <1>6 DEF RowsTyped, ReservingInv
<1>8. PICK v : v = Idle
  OBVIOUS
<1>9. \A d \in Drops : v.took[d] = 0
  BY <1>8 DEF Idle, Nothing
<1>10. WorkKept(v)'
  BY <1>8 DEF WorkKept, Idle, Nothing
<1>11. work' = [work EXCEPT ![h] = v]
  BY <1>8 DEF Leave
<1>12. ASSUME NEW g \in Handlers \ {h}, NEW d \in Drops
       PROVE  /\ v.took[d] = 0 \/ work[g].took[d] = 0
              /\ work[g].took[d] <= available[d] => work[g].took[d] <= available'[d]
              /\ work[g].took[d] <= reserved[d] => work[g].took[d] <= reserved'[d]
  <2>1. CASE work[h].took[d] = 0
    BY <1>4, <1>9, <2>1
  <2>2. CASE work[g].took[d] = 0
    BY <1>4, <1>9, <2>2
  <2>3. QED
    BY <2>1, <2>2 DEF ReservingInv, Exclusive
<1>13. QED
  BY <1>6, <1>7, <1>10, <1>11, <1>12, HandlerStep

(* The commit of a reservation, and the commit of a release.                *)
LEMMA CommitReserveKeeps ==
    ASSUME ReservingInv, MessagingTypeOK, NEW h \in Handlers, CommitReserve(h)
    PROVE  ReservingInv'
<1>1. PICK m : m = work[h].msg
  OBVIOUS
<1>2. /\ work[h].at = "open" /\ m.step = "ReservePortions" /\ Leave(h)
      /\ available' = [d \in Drops |-> available[d] - work[h].took[d]]
      /\ reserved' = [d \in Drops |-> reserved[d] + work[h].took[d]]
      /\ reservation' = [reservation EXCEPT ![work[h].msg.order] = "HELD"]
      /\ unacked' \subseteq unacked /\ faults' = faults
  BY <1>1 DEF CommitReserve, IsAt
<1>3. m \in sent /\ m.kind = "command"
  BY <1>1, <1>2 DEF ReservingInv, WorkKept, OpenWork
<1>4. PICK out : out = {Reply(m, "ok")}
  OBVIOUS
<1>5. Consume(m, out)
  BY <1>1, <1>4 DEF CommitReserve
<1>6. \A r \in out : r.kind # "command" /\ r.step = "ReservePortions"
  <2>1. m \in Messages
    BY <1>3 DEF MessagingTypeOK
  <2>2. QED
    BY <1>2, <1>3, <1>4, <2>1 DEF Reply, Messages
<1>7. \A o \in Orders : reservation'[o] # "NONE" =>
         \/ reservation[o] # "NONE"
         \/ m.kind = "command" /\ m.step = "ReservePortions" /\ m.order = o
  BY <1>1, <1>2, <1>3 DEF ReservingInv, RowsTyped
<1>8. ReservedOnce'
  BY <1>5, <1>6, <1>7, AnswerKeepsOnce DEF ReservingInv
<1>9. sent \subseteq sent'
  BY <1>5 DEF Consume
<1>10. QED
  BY <1>1, <1>2, <1>8, <1>9, CommitKeeps

LEMMA CommitReleaseKeeps ==
    ASSUME ReservingInv, MessagingTypeOK, NEW h \in Handlers, CommitRelease(h)
    PROVE  ReservingInv'
<1>1. PICK m : m = work[h].msg
  OBVIOUS
<1>2. /\ work[h].at = "open" /\ m.step = "ReleasePortions" /\ Leave(h)
      /\ available' = [d \in Drops |-> available[d] + work[h].took[d]]
      /\ reserved' = [d \in Drops |-> reserved[d] - work[h].took[d]]
      /\ reservation' = [reservation EXCEPT ![work[h].msg.order] = "RELEASED"]
      /\ unacked' \subseteq unacked /\ faults' = faults
  BY <1>1 DEF CommitRelease, IsAt
<1>3. reservation[m.order] # "NONE"
  BY <1>1, <1>2 DEF ReservingInv, WorkKept, OpenWork
<1>4. PICK out : out = {}
  OBVIOUS
<1>5. Consume(m, out) /\ \A r \in out : r.kind # "command" /\ r.step = "ReservePortions"
  BY <1>1, <1>4 DEF CommitRelease
<1>6. \A o \in Orders : reservation'[o] # "NONE" =>
         \/ reservation[o] # "NONE"
         \/ m.kind = "command" /\ m.step = "ReservePortions" /\ m.order = o
  BY <1>1, <1>2, <1>3 DEF ReservingInv, RowsTyped
<1>7. ReservedOnce'
  BY <1>5, <1>6, AnswerKeepsOnce DEF ReservingInv
<1>8. sent \subseteq sent'
  BY <1>5 DEF Consume
<1>9. QED
  BY <1>1, <1>2, <1>7, <1>8, CommitKeeps
(* A step that changes no row and no record, whatever it acknowledges or    *)
(* writes to the outbox.                                                    *)
LEMMA QuietKitchen ==
    ASSUME ReservingInv, MessagingTypeOK, sent \subseteq sent',
           UNCHANGED << rowVars, work >>, unacked' \subseteq unacked,
           faults' \in 0..MaxFaults, ReservedOnce'
    PROVE  ReservingInv'
<1>1. RowsTyped'
  BY DEF ReservingInv, RowsTyped, rowVars
<1>2. \A m \in sent : m.order \in Orders
  BY DEF MessagingTypeOK, Messages
<1>3. ASSUME NEW h \in Handlers PROVE WorkKept(work[h])'
  <2>1. PICK w : w = work[h] /\ w = work'[h]
    OBVIOUS
  <2>2. WorkKept(w)
    BY <2>1 DEF ReservingInv
  <2>3. w.msg \in sent => w.msg.order \in Orders
    BY <1>2
  <2>4. /\ \A o \in Orders : reservation[o] # "NONE" => reservation'[o] # "NONE"
        /\ \A d \in Drops :
              /\ w.took[d] <= available[d] => w.took[d] <= available'[d]
              /\ w.took[d] <= reserved[d] => w.took[d] <= reserved'[d]
    BY DEF rowVars
  <2>5. WorkKept(w)'
    BY <2>2, <2>3, <2>4, WorkStable
  <2>6. QED
    BY <2>1, <2>5 DEF WorkKept, OpenWork, ShortWork
<1>4. Exclusive' /\ work' = [h \in Handlers |-> work'[h]]
  BY DEF ReservingInv, Exclusive
<1>5. QED
  BY <1>1, <1>3, <1>4 DEF ReservingInv

LEMMA HandleKeeps ==
    ASSUME ReservingInv, MessagingTypeOK, NEW h \in Handlers, Handle(h)
    PROVE  ReservingInv'
<1>1. ASSUME NEW m \in sent, Deliver(h, m) PROVE ReservingInv'
  BY <1>1, DeliverKeeps
<1>2. CASE TakeLine(h)
  BY <1>2, UpdateKeeps DEF TakeLine, Enough, IsAt
<1>3. CASE ShortLine(h)
  BY <1>3, ShortKeeps
<1>4. CASE CommitReserve(h)
  BY <1>4, CommitReserveKeeps
<1>5. CASE AnswerSoldOut(h)
  <2>1. PICK m : m = work[h].msg
    OBVIOUS
  <2>2. PICK out : out = {Reply(m, "failed")}
    OBVIOUS
  <2>3. m \in sent /\ m.kind = "command" /\ m.step = "ReservePortions"
    BY <1>5, <2>1 DEF AnswerSoldOut, IsAt, ReservingInv, WorkKept, ShortWork
  <2>4. Consume(m, out)
    BY <1>5, <2>1, <2>2 DEF AnswerSoldOut
  <2>5. \A r \in out : r.kind # "command" /\ r.step = "ReservePortions"
    <3>1. m \in Messages
      BY <2>3 DEF MessagingTypeOK
    <3>2. QED
      BY <2>2, <2>3, <3>1 DEF Reply, Messages
  <2>6. UNCHANGED << rowVars, faults >> /\ unacked' \subseteq unacked /\ Leave(h)
    BY <1>5 DEF AnswerSoldOut
  <2>7. ReservedOnce' /\ sent \subseteq sent'
    <3>1. \A o \in Orders : reservation'[o] # "NONE" =>
             \/ reservation[o] # "NONE"
             \/ m.kind = "command" /\ m.step = "ReservePortions" /\ m.order = o
      BY <2>6 DEF rowVars
    <3>2. ReservedOnce'
      BY <2>4, <2>5, <3>1, AnswerKeepsOnce DEF ReservingInv
    <3>3. QED
      BY <2>4, <3>2 DEF Consume
  <2>8. RowsTyped'
    BY <2>6, <2>7 DEF ReservingInv, RowsTyped, rowVars
  <2>9. QED
    BY <2>6, <2>7, <2>8, IdleStep
<1>6. CASE RestoreLine(h)
  BY <1>6, UpdateKeeps DEF RestoreLine, IsAt
<1>7. CASE CommitRelease(h)
  BY <1>7, CommitReleaseKeeps
<1>8. CASE LoseRace(h) \/ RestoreTooMuch(h)
  <2>1. Leave(h) /\ UNCHANGED << msgVars, rowVars, unacked, faults >>
    BY <1>8 DEF LoseRace, RestoreTooMuch, Throw
  <2>2. RowsTyped' /\ ReservedOnce' /\ sent \subseteq sent'
    BY <2>1 DEF ReservingInv, RowsTyped, ReservedOnce, rowVars, msgVars
  <2>3. QED
    BY <2>1, <2>2, IdleStep
<1>9. QED
  BY <1>1, <1>2, <1>3, <1>4, <1>5, <1>6, <1>7, <1>8 DEF Handle

LEMMA KitchenKeeps ==
    ASSUME ReservingInv, MessagingTypeOK, KitchenWorks \/ KitchenFails
    PROVE  ReservingInv'
<1>1. ASSUME NEW m \in sent, NothingToRelease(m) PROVE ReservingInv'
  <2>1. PICK out : out = {}
    OBVIOUS
  <2>2. Consume(m, out) /\ UNCHANGED reservingVars
    BY <1>1, <2>1 DEF NothingToRelease
  <2>3. \A r \in out : r.kind # "command" /\ r.step = "ReservePortions"
    BY <2>1
  <2>4. \A o \in Orders : reservation'[o] # "NONE" => reservation[o] # "NONE"
    BY <2>2 DEF reservingVars, rowVars
  <2>5. ReservedOnce'
    BY <2>2, <2>3, <2>4, AnswerKeepsOnce DEF ReservingInv
  <2>6. sent \subseteq sent' /\ faults' \in 0..MaxFaults
    BY <2>2 DEF Consume, reservingVars, ReservingInv, RowsTyped
  <2>7. QED
    BY <2>2, <2>5, <2>6, QuietKitchen DEF reservingVars
<1>2. ASSUME NEW h \in Handlers, Leave(h), UNCHANGED << msgVars, rowVars, unacked >>,
             faults' \in 0..MaxFaults
      PROVE  ReservingInv'
  <2>1. RowsTyped' /\ ReservedOnce' /\ sent \subseteq sent'
    BY <1>2 DEF ReservingInv, RowsTyped, ReservedOnce, rowVars, msgVars
  <2>2. QED
    BY <1>2, <2>1, IdleStep
<1>3. CASE Abort
  <2>1. PICK h \in Handlers : Leave(h) /\ UNCHANGED << msgVars, rowVars, unacked, faults >>
    BY <1>3 DEF Abort
  <2>2. faults' \in 0..MaxFaults
    BY <2>1 DEF ReservingInv, RowsTyped
  <2>3. QED
    BY <1>2, <2>1, <2>2
<1>4. Fault => faults' \in 0..MaxFaults
  BY ReservingAssumption DEF Fault, ReservingInv, RowsTyped
<1>5. ASSUME NEW h \in Handlers, Fail(h) PROVE ReservingInv'
  BY <1>2, <1>4, <1>5 DEF Fail, Throw
<1>6. CASE Reconnect
  <2>1. UNCHANGED << msgVars, rowVars >> /\ unacked' = {} /\ faults' \in 0..MaxFaults
    BY <1>4, <1>6 DEF Reconnect
  <2>2. ReservedOnce' /\ sent \subseteq sent' /\ RowsTyped'
    BY <2>1 DEF ReservingInv, RowsTyped, ReservedOnce, rowVars, msgVars
  <2>3. CASE work' = work
    BY <2>1, <2>2, <2>3, QuietKitchen
  <2>4. CASE work' = [h \in Handlers |-> Idle]
    <3>1. \A h \in Handlers : work'[h] = Idle
      BY <2>4
    <3>2. \A h \in Handlers : WorkKept(work[h])'
      BY <3>1 DEF WorkKept, Idle, Nothing
    <3>3. Exclusive' /\ work' = [h \in Handlers |-> work'[h]]
      BY <2>4, <3>1 DEF Exclusive, Idle, Nothing
    <3>4. QED
      BY <2>2, <3>2, <3>3 DEF ReservingInv
  <2>5. QED
    BY <1>6, <2>3, <2>4 DEF Reconnect
<1>7. QED
  BY <1>1, <1>3, <1>5, <1>6, HandleKeeps DEF KitchenWorks, KitchenFails

(* The rest of the system writes to the outbox, and no row of the kitchen.  *)
LEMMA OthersKeep ==
    ASSUME ReservingInv, MessagingTypeOK, UNCHANGED << rowVars, work, unacked >>,
           faults' \in 0..MaxFaults, NEW o \in Orders,
           OrchestratorHandles(o) \/ PlaceOrder(o)
    PROVE  ReservingInv'
<1>1. ReservedOnce' /\ sent \subseteq sent'
  BY OrchestratorKeepsOnce DEF rowVars, ReservingInv
<1>2. QED
  BY <1>1, QuietKitchen

LEMMA QuietStep ==
    ASSUME ReservingInv, MessagingTypeOK, UNCHANGED << msgVars, rowVars, work, unacked >>,
           faults' \in 0..MaxFaults
    PROVE  ReservingInv'
<1>1. ReservedOnce' /\ sent \subseteq sent'
  BY DEF ReservingInv, ReservedOnce, msgVars, rowVars
<1>2. QED
  BY <1>1, QuietKitchen

LEMMA RelayingKeepsRows ==
    ASSUME ReservingInv, MessagingTypeOK, Relaying
    PROVE  ReservingInv'
<1>1. /\ UNCHANGED << rowVars, work, unacked >> /\ faults' \in 0..MaxFaults
  BY DEF Relaying, reservingVars, ReservingInv, RowsTyped
<1>2. CASE UNCHANGED msgVars
  BY <1>1, <1>2, QuietStep
<1>3. ASSUME NEW o \in Orders, Place(o) PROVE ReservingInv'
  <2>1. PlaceOrder(o)
    BY <1>3 DEF Place
  <2>2. QED
    BY <1>1, <2>1, OthersKeep
<1>4. ASSUME NEW c \in CancelCalls, FinishCancel(c) PROVE ReservingInv'
  <2>1. PICK t \in otx : CommitCancel(t)
    BY <1>4 DEF FinishCancel, TransactionOf
  <2>2. ReservedOnce' /\ sent \subseteq sent'
    BY <1>1, <2>1, CancelKeepsOnce DEF ReservingInv, rowVars
  <2>3. QED
    BY <1>1, <2>2, QuietKitchen
<1>5. QED
  BY <1>2, <1>3, <1>4 DEF Relaying, GatewayWorks, GetDrops, NoSuchDrop, TotalTooLarge,
     AnswerPlaced, AnswerCancel

LEMMA ReservingKept ==
    ASSUME ReservingInv, MessagingTypeOK, [Next]_vars
    PROVE  ReservingInv'
<1>1. RowsTyped
  BY DEF ReservingInv
<1>2. CASE UNCHANGED vars
  <2>1. UNCHANGED << msgVars, rowVars, work, unacked, faults >>
    BY <1>2 DEF vars, reservingVars
  <2>2. QED
    BY <1>1, <2>1, QuietStep DEF RowsTyped
<1>3. CASE Asking
  <2>1. UNCHANGED << rowVars, work, unacked, faults >>
    BY <1>3 DEF Asking, reservingVars
  <2>2. UNCHANGED msgVars
    BY <1>3 DEF Asking, CustomersAsk, Post, CancelUnsigned, CancelNotFound,
       CancelTooLate, CancelAgain, BeginCancel, Ask
  <2>3. QED
    BY <1>1, <2>1, <2>2, QuietStep DEF RowsTyped
<1>4. CASE Relaying
  BY <1>4, RelayingKeepsRows
<1>5. ASSUME NEW o \in Orders, Orchestrating(o) PROVE ReservingInv'
  <2>1. OrchestratorHandles(o) /\ UNCHANGED << rowVars, work, unacked, faults >>
    BY <1>5 DEF Orchestrating, reservingVars
  <2>2. QED
    BY <1>1, <2>1, OthersKeep DEF RowsTyped
<1>6. CASE ReadingLate
  <2>1. UNCHANGED << msgVars, rowVars, work, unacked, faults >>
    BY <1>6 DEF ReadingLate, ReadSaga, msgVars, reservingVars
  <2>2. QED
    BY <1>1, <2>1, QuietStep DEF RowsTyped
<1>7. CASE Cooking
  BY <1>7, KitchenKeeps DEF Cooking
<1>8. CASE Trouble
  <2>1. CASE KitchenFails
    BY <2>1, KitchenKeeps
  <2>2. ASSUME NEW q \in Requests, Fault, LoseCall(q), UNCHANGED << rowVars, work, unacked >>
        PROVE  ReservingInv'
    <3>1. faults' \in 0..MaxFaults
      BY <1>1, <2>2, ReservingAssumption DEF Fault, RowsTyped
    <3>2. QED
      BY <2>2, <3>1, QuietStep DEF LoseCall
  <2>3. QED
    BY <1>8, <2>1, <2>2 DEF Trouble
<1>9. QED
  BY <1>2, <1>3, <1>4, <1>5, <1>6, <1>7, <1>8 DEF Next

(* Whatever interleaves, fails or is delivered again: the portions a        *)
(* transaction has taken are those its lines ask for and the rows still     *)
(* have, no other transaction has changed them, and an order is reserved    *)
(* for its one command.                                                     *)
THEOREM ReservingInvHolds == Spec => []ReservingInv
<1>1. Init => ReservingInv
  <2> SUFFICES ASSUME Init PROVE ReservingInv
    OBVIOUS
  <2>1. sent = {} /\ inbox = {} /\ ReservingInit
    BY DEF Init, MessagingInit
  <2>2. RowsTyped
    BY <2>1, ReservingAssumption DEF ReservingInit, RowsTyped, Nothing
  <2>3. ReservedOnce
    BY <2>1 DEF ReservingInit, ReservedOnce
  <2>4. \A h \in Handlers : work[h] = Idle
    BY <2>1 DEF ReservingInit
  <2>5. \A h \in Handlers : WorkKept(work[h])
    BY <2>4 DEF WorkKept, Idle, Nothing
  <2>6. Exclusive
    BY <2>4 DEF Exclusive, Idle, Nothing
  <2>7. QED
    BY <2>1, <2>2, <2>3, <2>5, <2>6 DEF ReservingInv, ReservingInit
<1>2. MessagingTypeOK /\ ReservingInv /\ [Next]_vars => ReservingInv'
  BY ReservingKept
<1>3. PlacingInv => MessagingTypeOK
  BY DEF PlacingInv
<1>4. QED
  BY <1>1, <1>2, <1>3, PlacingInvHolds, PTL DEF Spec

(***************************************************************************)
(* The total of an order, and the types of what a request leaves.          *)
(***************************************************************************)

(* The total is the sum of what the lines cost.                             *)
LEMMA TotalIs ==
    ASSUME NEW lines, IsFiniteSet(DOMAIN lines),
           NEW f, f = [i \in DOMAIN lines |-> lines[i].qty * lines[i].unitPriceCents],
           \A i \in DOMAIN lines : f[i] \in Int
    PROVE  TotalCents(lines) = SumOf(f, DOMAIN lines)
<1>1. PICK T : T = DOMAIN lines
  OBVIOUS
<1>2. \A s \in SUBSET T : s # {} =>
         f[Pick(s)] = lines[Pick(s)].qty * lines[Pick(s)].unitPriceCents
  BY <1>1, PickIn
<1>3. \E h : IsSum(h, f, T)
  BY <1>1, SumExists
<1>4. \E h : h = [s \in SUBSET T |->
                    IF s = {} THEN 0
                    ELSE LET x == CHOOSE x \in s : TRUE
                         IN  lines[x].qty * lines[x].unitPriceCents + h[s \ {x}]]
  <2>1. PICK h : h = [s \in SUBSET T |-> IF s = {} THEN 0 ELSE f[Pick(s)] + h[s \ {Pick(s)}]]
    BY <1>3 DEF IsSum
  <2>2. h = [s \in SUBSET T |->
               IF s = {} THEN 0
               ELSE lines[Pick(s)].qty * lines[Pick(s)].unitPriceCents + h[s \ {Pick(s)}]]
    BY <1>2, <2>1
  <2>3. QED
    BY <2>2 DEF Pick
<1>5. \E h : /\ h = [s \in SUBSET T |->
                       IF s = {} THEN 0
                       ELSE LET x == CHOOSE x \in s : TRUE
                            IN  lines[x].qty * lines[x].unitPriceCents + h[s \ {x}]]
             /\ TotalCents(lines) = h[T]
  <2>1. \E h : h = [s \in SUBSET DOMAIN lines |->
                      IF s = {} THEN 0
                      ELSE LET x == CHOOSE x \in s : TRUE
                           IN  lines[x].qty * lines[x].unitPriceCents + h[s \ {x}]]
    BY <1>1, <1>4
  <2>2. \E h : /\ h = [s \in SUBSET DOMAIN lines |->
                         IF s = {} THEN 0
                         ELSE LET x == CHOOSE x \in s : TRUE
                              IN  lines[x].qty * lines[x].unitPriceCents + h[s \ {x}]]
               /\ TotalCents(lines) = h[DOMAIN lines]
    BY <2>1 DEF TotalCents, MapThenSumSet, MapThenFoldSet
  <2>3. QED
    BY <1>1, <2>2
<1>6. PICK h : /\ h = [s \in SUBSET T |->
                         IF s = {} THEN 0
                         ELSE lines[Pick(s)].qty * lines[Pick(s)].unitPriceCents
                              + h[s \ {Pick(s)}]]
               /\ TotalCents(lines) = h[T]
  BY <1>5 DEF Pick
<1>7. IsSum(h, f, T)
  <2>1. h = [s \in SUBSET T |-> IF s = {} THEN 0 ELSE f[Pick(s)] + h[s \ {Pick(s)}]]
    BY <1>2, <1>6
  <2>2. QED
    BY <2>1 DEF IsSum
<1>8. PICK g : IsSum(g, f, T) /\ SumOf(f, T) = g[T]
  BY <1>1, SumIs
<1>9. h[T] = g[T]
  <2>1. T \in SUBSET (T \cap T) /\ IsFiniteSet(T)
    BY <1>1
  <2>2. QED
    BY <1>7, <1>8, <2>1, SumsAgree
<1>10. QED
  BY <1>1, <1>6, <1>8, <1>9

(* The prices of the kitchen are natural numbers.                           *)
LEMMA PriceType ==
    ASSUME NEW d \in DOMAIN Dishes
    PROVE  PortionPrice(d) \in Nat
<1>1. Dishes[d] \in Seq(Nat)
  BY GatewayAssumption
<1>2. PICK T : T = DOMAIN Dishes[d]
  OBVIOUS
<1>3. PICK f : f = Dishes[d]
  OBVIOUS
<1>4. IsFiniteSet(T) /\ \A i \in T : f[i] \in Nat
  <2>1. T = 1..Len(f) /\ Len(f) \in Nat
    BY <1>1, <1>2, <1>3
  <2>2. QED
    <3>1. f \in Seq(Nat)
      BY <1>1, <1>3
    <3>2. \A i \in T : f[i] \in Nat
      BY <2>1, <3>1
    <3>3. IsFiniteSet(T)
      BY <2>1, FS_Interval
    <3>4. QED
      BY <3>2, <3>3
<1>5. SumOf(f, T) \in Nat
  BY <1>4, SumNat
<1>6. QED
  BY <1>2, <1>3, <1>5 DEF PortionPrice, SumOf

(* A valid request for drops the kitchen has costs a natural number.        *)
LEMMA TotalType ==
    ASSUME NEW o \in Orders, body[o] \in Bodies[o], Valid(body[o]), KnownDrops(o)
    PROVE  TotalCents(Quote(o)) \in Nat
<1>1. PICK lines : lines = Quote(o)
  OBVIOUS
<1>2. /\ DOMAIN lines = DOMAIN body[o].lines
      /\ \A i \in DOMAIN lines :
            /\ lines[i].drop = body[o].lines[i].drop
            /\ lines[i].qty = body[o].lines[i].qty
            /\ lines[i].unitPriceCents = PortionPrice(lines[i].drop)
  BY <1>1, QuoteLines
<1>3. IsFiniteSet(DOMAIN lines)
  <2>1. PICK S : body[o].lines \in Seq(S)
    BY GatewayAssumption
  <2>2. DOMAIN lines = 1..Len(body[o].lines) /\ Len(body[o].lines) \in Nat
    BY <1>2, <2>1
  <2>3. QED
    BY <2>2, FS_Interval
<1>4. PICK f : f = [i \in DOMAIN lines |-> lines[i].qty * lines[i].unitPriceCents]
  OBVIOUS
<1>5. ASSUME NEW i \in DOMAIN lines PROVE f[i] \in Nat
  <2>1. lines[i].qty \in Nat
    <3>1. \A j \in DOMAIN body[o].lines : body[o].lines[j].qty \in Int
      BY GatewayAssumption
    <3>2. \A j \in DOMAIN body[o].lines : body[o].lines[j].qty >= 1
      BY DEF Valid
    <3>3. \A k \in Int : k >= 1 => k \in Nat
      OBVIOUS
    <3>4. QED
      BY <1>2, <3>1, <3>2, <3>3
  <2>2. lines[i].unitPriceCents \in Nat
    BY <1>2, PriceType DEF KnownDrops
  <2>3. PICK a \in Nat, b \in Nat : a = lines[i].qty /\ b = lines[i].unitPriceCents
    BY <2>1, <2>2
  <2>4. a * b \in Nat
    OBVIOUS
  <2>5. QED
    BY <1>4, <2>3, <2>4
<1>6. TotalCents(lines) = SumOf(f, DOMAIN lines)
  <2>1. \A i \in DOMAIN lines : f[i] \in Int
    BY <1>5
  <2>2. QED
    BY <1>3, <1>4, <2>1, TotalIs
<1>7. SumOf(f, DOMAIN lines) \in Nat
  BY <1>3, <1>5, SumNat
<1>8. QED
  BY <1>1, <1>6, <1>7

(* Requests that are not sent have left nothing, and totals fit.            *)
GatewayInv ==
    /\ \A o \in Orders :
          /\ stage[o] = "unsent" => body[o] = NoBody
          /\ row[o].totalCents \in 0..MaxCents
    /\ \A c \in CancelCalls :
          /\ stage[c] = "unsent" => call[c] = NoBody
          /\ asked[c] \in Nat

LEMMA RequestMoves ==
    ASSUME PlacingInv, GatewayInv,
           NEW q \in Requests, NEW s, s # "unsent", stage' = [stage EXCEPT ![q] = s],
           \A o \in Orders \ {q} : body'[o] = body[o],
           \A c \in CancelCalls \ {q} : call'[c] = call[c],
           \A o \in Orders : row'[o].totalCents \in 0..MaxCents,
           \A c \in CancelCalls : asked'[c] \in Nat
    PROVE  GatewayInv'
<1>1. stage'[q] = s /\ \A r \in Requests \ {q} : stage'[r] = stage[r]
  BY DEF PlacingInv, Shapes
<1>2. \A o \in Orders : stage'[o] = "unsent" => body'[o] = NoBody
  BY <1>1 DEF GatewayInv, Requests
<1>3. \A c \in CancelCalls : stage'[c] = "unsent" => call'[c] = NoBody
  BY <1>1 DEF GatewayInv, Requests
<1>4. QED
  BY <1>2, <1>3 DEF GatewayInv

LEMMA RequestStays ==
    ASSUME PlacingInv, GatewayInv,
           NEW q \in Requests, NEW s, s # "unsent", stage' = [stage EXCEPT ![q] = s],
           UNCHANGED << postVars, callVars >>
    PROVE  GatewayInv'
BY RequestMoves DEF GatewayInv, postVars, callVars

LEMMA AskingKeepsRequests ==
    ASSUME PlacingInv, OrchestratorTypeOK', GatewayInv, CustomersAsk
    PROVE  GatewayInv'
<1>1. ASSUME NEW o \in Orders, Post(o) PROVE GatewayInv'
  <2>1. PICK b \in Bodies[o] :
           /\ body' = [body EXCEPT ![o] = b]
           /\ \/ Refuse(o, b.user, Valid(b))
              \/ Signed(b.user) /\ Valid(b) /\ Goes(o, "pricing") /\ UNCHANGED answer
    BY <1>1 DEF Post
  <2>2. PICK s \in {"pricing", "over"} : stage' = [stage EXCEPT ![o] = s]
    BY <2>1 DEF Refuse, Throws, Goes
  <2>3. \A p \in Orders \ {o} : body'[p] = body[p]
    BY <2>1 DEF PlacingInv, Shapes
  <2>4. UNCHANGED << row, callVars >> /\ o \in Requests /\ s # "unsent"
    BY <1>1 DEF Post, Requests
  <2>5. QED
    BY <2>2, <2>3, <2>4, RequestMoves DEF GatewayInv, callVars
<1>2. ASSUME NEW c \in CancelCalls, NEW r \in Calls[c], Ask(c, r),
             NEW s, s # "unsent", stage' = [stage EXCEPT ![c] = s],
             \A d \in CancelCalls : asked'[d] \in Nat
      PROVE  GatewayInv'
  <2>1. UNCHANGED postVars /\ \A d \in CancelCalls \ {c} : call'[d] = call[d]
    BY <1>2 DEF Ask, PlacingInv, Shapes
  <2>2. \A o \in Orders : o # c /\ body'[o] = body[o] /\ row'[o].totalCents \in 0..MaxCents
    BY <2>1, GatewayAssumption DEF postVars, GatewayInv
  <2>3. c \in Requests
    BY DEF Requests
  <2>4. QED
    BY <1>2, <2>1, <2>2, <2>3, RequestMoves
<1>3. ASSUME NEW c \in CancelCalls, NEW r \in Calls[c], Ask(c, r), UNCHANGED asked,
             stage' = [stage EXCEPT ![c] = "over"]
      PROVE  GatewayInv'
  BY <1>2, <1>3 DEF GatewayInv
<1>4. ASSUME NEW c \in CancelCalls, NEW r \in Calls[c], BeginCancel(c, r) PROVE GatewayInv'
  <2>1. /\ Ask(c, r) /\ asked' = [asked EXCEPT ![c] = cancels'[r.order]]
        /\ stage' = [stage EXCEPT ![c] = "open"]
    BY <1>4 DEF BeginCancel, Goes
  <2>2. cancels'[r.order] \in Nat
    BY CallType DEF OrchestratorTypeOK
  <2>3. \A d \in CancelCalls : asked'[d] \in Nat
    BY <2>1, <2>2 DEF GatewayInv, PlacingInv, Shapes
  <2>4. QED
    BY <1>2, <2>1, <2>3
<1>5. ASSUME NEW c \in CancelCalls, NEW r \in Calls[c],
             CancelUnsigned(c, r) \/ CancelNotFound(c, r) \/ CancelTooLate(c, r) \/ CancelAgain(c, r)
      PROVE  GatewayInv'
  <2>1. /\ Ask(c, r) /\ UNCHANGED asked /\ stage' = [stage EXCEPT ![c] = "over"]
    BY <1>5 DEF CancelUnsigned, CancelNotFound, CancelTooLate, CancelAgain, Refused, Throws, Created
  <2>2. QED
    BY <1>3, <2>1
<1>6. QED
  BY <1>1, <1>4, <1>5 DEF CustomersAsk

LEMMA RelayingKeepsRequests ==
    ASSUME PlacingInv, GatewayInv, GatewayWorks
    PROVE  GatewayInv'
<1>1. ASSUME NEW o \in Orders,
             GetDrops(o) \/ NoSuchDrop(o) \/ TotalTooLarge(o) \/ AnswerPlaced(o)
      PROVE  GatewayInv'
  <2>1. PICK s \in {"open", "over"} : stage' = [stage EXCEPT ![o] = s]
    BY <1>1 DEF GetDrops, NoSuchDrop, TotalTooLarge, AnswerPlaced, Goes, Throws, Created
  <2>2. UNCHANGED << postVars, callVars >>
    BY <1>1 DEF GetDrops, NoSuchDrop, TotalTooLarge, AnswerPlaced
  <2>3. o \in Requests /\ s # "unsent"
    BY DEF Requests
  <2>4. QED
    BY <2>1, <2>2, <2>3, RequestStays
<1>2. ASSUME NEW o \in Orders, Place(o) PROVE GatewayInv'
  <2>1. /\ stage[o] = "open" /\ TotalCents(Quote(o)) <= MaxCents
        /\ row' = [row EXCEPT ![o] =
                     [ customer |-> body[o].user, lines |-> Quote(o),
                       totalCents |-> TotalCents(Quote(o)) ]]
        /\ stage' = [stage EXCEPT ![o] = "done"]
        /\ UNCHANGED << body, callVars >>
    BY <1>2 DEF Place, Goes
  <2>2. body[o] \in Bodies[o] /\ Valid(body[o]) /\ KnownDrops(o)
    BY <2>1 DEF PlacingInv, PostIsKept
  <2>3. PICK k \in Nat : k = TotalCents(Quote(o))
    BY <2>2, TotalType
  <2>4. k \in 0..MaxCents
    BY <2>1, <2>3, GatewayAssumption
  <2>5. \A p \in Orders : row'[p].totalCents \in 0..MaxCents
    BY <2>1, <2>3, <2>4 DEF GatewayInv, PlacingInv, Shapes
  <2>6. o \in Requests /\ "done" # "unsent"
    BY DEF Requests
  <2>7. QED
    BY <2>1, <2>5, <2>6, RequestMoves DEF GatewayInv, callVars
<1>3. ASSUME NEW c \in CancelCalls, FinishCancel(c) \/ AnswerCancel(c) PROVE GatewayInv'
  <2>1. PICK s \in {"done", "over"} : stage' = [stage EXCEPT ![c] = s]
    BY <1>3 DEF FinishCancel, AnswerCancel, Goes, Created
  <2>2. UNCHANGED << postVars, callVars >> /\ c \in Requests /\ s # "unsent"
    BY <1>3 DEF FinishCancel, AnswerCancel, Requests
  <2>3. QED
    BY <2>1, <2>2, RequestStays
<1>4. QED
  BY <1>1, <1>2, <1>3 DEF GatewayWorks

LEMMA GatewayKept ==
    ASSUME PlacingInv, PlacingInv', GatewayInv, [Next]_vars
    PROVE  GatewayInv'
<1>1. CASE UNCHANGED gatewayVars
  BY <1>1 DEF gatewayVars, postVars, callVars, GatewayInv
<1>2. CASE Asking
  BY <1>2, AskingKeepsRequests DEF Asking, PlacingInv
<1>3. CASE Relaying
  BY <1>3, RelayingKeepsRequests DEF Relaying
<1>4. ASSUME NEW q \in Requests, LoseCall(q) PROVE GatewayInv'
  <2>1. UNCHANGED << postVars, callVars >>
    BY <1>4 DEF LoseCall
  <2>2. CASE Goes(q, "over")
    BY <2>1, <2>2, RequestStays DEF Goes
  <2>3. CASE UNCHANGED stage
    BY <2>1, <2>3 DEF postVars, callVars, GatewayInv
  <2>4. QED
    BY <1>4, <2>2, <2>3 DEF LoseCall
<1>5. QED
  BY <1>1, <1>2, <1>3, <1>4 DEF Next, vars, Orchestrating, ReadingLate, Cooking, Trouble

(* Whatever is asked, lost, handled again or rolled back, every variable    *)
(* holds what its column, message or request may hold: no total overflows   *)
(* its column, and no counter of the kitchen goes below zero.               *)
THEOREM PlacingTypes == Spec => []PlacingTypeOK
<1>1. Init => GatewayInv
  BY GatewayAssumption DEF Init, GatewayInit, GatewayInv, NoRow
<1>2. PlacingInv /\ PlacingInv' /\ GatewayInv /\ [Next]_vars => GatewayInv'
  BY GatewayKept
<1>3. PlacingInv /\ GatewayInv => GatewayTypeOK
  <2> SUFFICES ASSUME PlacingInv, GatewayInv PROVE GatewayTypeOK
    OBVIOUS
  <2>1. \A o \in Orders : body[o] \in Bodies[o] \cup {NoBody} /\ row[o].totalCents \in 0..MaxCents
    BY DEF PlacingInv, PostIsKept, GatewayInv
  <2>2. \A c \in CancelCalls : call[c] \in Calls[c] \cup {NoBody}
    BY DEF PlacingInv, CancelIsKept, GatewayInv
  <2>3. asked \in [CancelCalls -> Nat]
    BY DEF PlacingInv, Shapes, GatewayInv
  <2>4. QED
    BY <2>1, <2>2, <2>3 DEF GatewayTypeOK, PlacingInv, Shapes, Answers
<1>4. MessagingTypeOK /\ ReservingInv => ReservingTypeOK
  <2> SUFFICES ASSUME MessagingTypeOK, ReservingInv PROVE ReservingTypeOK
    OBVIOUS
  <2>1. ASSUME NEW h \in Handlers PROVE Work(h)
    <3>1. CASE work[h] = Idle
      BY <3>1 DEF Work, Idle, Nothing
    <3>2. CASE work[h].at = "open" /\ OpenWork(work[h])
      <4>1. work[h].msg \in Messages
        BY <3>2 DEF OpenWork, MessagingTypeOK
      <4>2. \A i \in DOMAIN work[h].todo : work[h].todo[i].drop \in Drops
        <5>1. work[h].todo \in Seq(LineType)
          BY <3>2 DEF OpenWork
        <5>2. \A i \in DOMAIN work[h].todo : work[h].todo[i] \in LineType
          BY <5>1
        <5>3. QED
          BY <5>2 DEF LineType
      <4>3. QED
        BY <3>2, <4>1, <4>2 DEF Work, ReservingInv, WorkKept
    <3>3. CASE work[h].at = "short" /\ ShortWork(work[h])
      BY <3>3 DEF Work, ReservingInv, WorkKept, ShortWork, MessagingTypeOK
    <3>4. QED
      BY <3>1, <3>2, <3>3 DEF ReservingInv, WorkKept
  <2>2. DOMAIN work = Handlers
    BY DEF ReservingInv
  <2>3. QED
    BY <2>1, <2>2 DEF ReservingTypeOK, ReservingInv, RowsTyped
<1>5. PlacingInv => MessagingTypeOK /\ OrchestratorTypeOK
  BY DEF PlacingInv
<1>6. Spec => []GatewayInv
  BY <1>1, <1>2, PlacingInvHolds, PTL DEF Spec
<1>7. MessagingTypeOK /\ OrchestratorTypeOK /\ GatewayTypeOK /\ ReservingTypeOK => PlacingTypeOK
  BY DEF PlacingTypeOK
<1>8. QED
  BY <1>3, <1>4, <1>5, <1>6, <1>7, PlacingInvHolds, ReservingInvHolds, PTL

(***************************************************************************)
(* The kitchen of whole transactions.                                      *)
(***************************************************************************)

(* What an order asks of a drop is what its lines ask for.                  *)
LEMMA AskedIs ==
    ASSUME NEW o \in Orders, NEW d \in Drops
    PROVE  AskedOf(o, d) = SumOf(Asks(o, d), DOMAIN Lines[o])
<1>1. PICK f : f = Asks(o, d)
  OBVIOUS
<1>2. PICK T : T = {i \in DOMAIN Lines[o] : Lines[o][i].drop = d}
  OBVIOUS
<1>3. IsFiniteSet(DOMAIN Lines[o]) /\ \A i \in DOMAIN Lines[o] : f[i] \in Int
  BY <1>1, LinesType
<1>4. T \in SUBSET DOMAIN Lines[o] /\ IsFiniteSet(T) /\ \A i \in T : f[i] \in Int
  BY <1>2, <1>3, FS_Subset
<1>5. \A i \in T : f[i] = Lines[o][i].qty
  BY <1>1, <1>2 DEF Asks
<1>6. \A s \in SUBSET T : s # {} => f[Pick(s)] = Lines[o][Pick(s)].qty
  BY <1>5, PickIn
<1>7. \E h : h = [s \in SUBSET T |->
                    IF s = {} THEN 0
                    ELSE LET x == CHOOSE x \in s : TRUE IN Lines[o][x].qty + h[s \ {x}]]
  <2>1. \E h : IsSum(h, f, T)
    BY <1>4, SumExists
  <2>2. PICK h : h = [s \in SUBSET T |-> IF s = {} THEN 0 ELSE f[Pick(s)] + h[s \ {Pick(s)}]]
    BY <2>1 DEF IsSum
  <2>3. h = [s \in SUBSET T |->
               IF s = {} THEN 0 ELSE Lines[o][Pick(s)].qty + h[s \ {Pick(s)}]]
    BY <1>6, <2>2
  <2>4. QED
    BY <2>3 DEF Pick
<1>8. PICK h : /\ h = [s \in SUBSET T |->
                         IF s = {} THEN 0
                         ELSE LET x == CHOOSE x \in s : TRUE IN Lines[o][x].qty + h[s \ {x}]]
               /\ AskedOf(o, d) = h[T]
  <2> DEFINE L == {i \in DOMAIN Lines[o] : Lines[o][i].drop = d}
  <2>1. \E h : h = [s \in SUBSET L |->
                      IF s = {} THEN 0
                      ELSE LET x == CHOOSE x \in s : TRUE IN Lines[o][x].qty + h[s \ {x}]]
    BY <1>2, <1>7
  <2>2. \E h : /\ h = [s \in SUBSET L |->
                         IF s = {} THEN 0
                         ELSE LET x == CHOOSE x \in s : TRUE IN Lines[o][x].qty + h[s \ {x}]]
               /\ AskedOf(o, d) = h[L]
    BY <2>1 DEF AskedOf, MapThenSumSet, MapThenFoldSet
  <2>3. QED
    BY <1>2, <2>2
<1>9. IsSum(h, f, T)
  <2>1. h = [s \in SUBSET T |->
               IF s = {} THEN 0 ELSE Lines[o][Pick(s)].qty + h[s \ {Pick(s)}]]
    BY <1>8 DEF Pick
  <2>2. h = [s \in SUBSET T |-> IF s = {} THEN 0 ELSE f[Pick(s)] + h[s \ {Pick(s)}]]
    BY <1>6, <2>1
  <2>3. QED
    BY <2>2 DEF IsSum
<1>10. PICK g : IsSum(g, f, T) /\ SumOf(f, T) = g[T]
  BY <1>4, SumIs
<1>11. h[T] = g[T]
  <2>1. T \in SUBSET (T \cap T)
    OBVIOUS
  <2>2. QED
    BY <1>4, <1>9, <1>10, <2>1, SumsAgree
<1>12. \A i \in DOMAIN Lines[o] \ T : f[i] = 0
  BY <1>1, <1>2 DEF Asks
<1>13. SumOf(f, T) = SumOf(f, DOMAIN Lines[o])
  <2>1. PICK S : S = DOMAIN Lines[o]
    OBVIOUS
  <2>2. IsFiniteSet(S) /\ (\A x \in S : f[x] \in Int) /\ T \in SUBSET S /\ \A x \in S \ T : f[x] = 0
    BY <1>3, <1>4, <1>12, <2>1
  <2>3. SumOf(f, T) = SumOf(f, S)
    BY <2>2, SumZeros
  <2>4. QED
    BY <2>1, <2>3
<1>14. QED
  BY <1>1, <1>8, <1>10, <1>11, <1>13

(* What a transaction that is through with its lines took is what its order *)
(* asks for, and a line that comes up short shows that it is not there.     *)
LEMMA TookAsked ==
    ASSUME NEW w, w.msg.order \in Orders, NEW p, LinesLeft(w, p), NEW d \in Drops
    PROVE  /\ AskedOf(w.msg.order, d) \in Nat
           /\ w.todo = << >> => w.took[d] = AskedOf(w.msg.order, d)
           /\ \A i \in DOMAIN w.todo : w.todo[i].drop = d =>
                 w.took[d] + w.todo[i].qty <= AskedOf(w.msg.order, d)
<1>1. PICK o \in Orders : o = w.msg.order
  OBVIOUS
<1>2. AskedOf(o, d) = SumOf(Asks(o, d), DOMAIN Lines[o])
  BY AskedIs
<1>3. SumOf(Asks(o, d), DOMAIN Lines[o]) \in Nat
  BY AsksSums
<1>4. QED
  BY <1>1, <1>2, <1>3, TookLines

AtomicNext == (\E o \in Orders : Atomic!KitchenHandles(o)) \/ Forgets
Seen == << rowVars, ComeUpShort, Releasing, Consumed >>

LEMMA HandledIs ==
    ASSUME NEW at, NEW step, NEW m
    PROVE  m \in HandledAs(at, step) <=>
              /\ m \notin inbox
              /\ \E g \in Handlers :
                    work[g].at = at /\ work[g].msg.step = step /\ work[g].msg = m
BY DEF HandledAs, IsAt

AtStep(w, at, step) == w.at = at /\ w.msg.step = step

(* How a step of one handler changes the set of messages that are handled   *)
(* in some state, when no message is consumed.                              *)
HandlerMoves(h, w, v) ==
    /\ w = work[h]
    /\ work' = [work EXCEPT ![h] = v]
    /\ inbox' = inbox

LEMMA HandledMoves ==
    ASSUME ReservingInv, NEW h \in Handlers, NEW w, NEW v, HandlerMoves(h, w, v),
           NEW at, NEW step, NEW m
    PROVE  /\ m \in HandledAs(at, step)' <=>
                 /\ m \notin inbox
                 /\ \/ AtStep(v, at, step) /\ v.msg = m
                    \/ \E g \in Handlers \ {h} : AtStep(work[g], at, step) /\ work[g].msg = m
           /\ m \in HandledAs(at, step) <=>
                 /\ m \notin inbox
                 /\ \/ AtStep(w, at, step) /\ w.msg = m
                    \/ \E g \in Handlers \ {h} : AtStep(work[g], at, step) /\ work[g].msg = m
<1>1. /\ w = work[h] /\ work'[h] = v /\ inbox' = inbox
      /\ \A g \in Handlers \ {h} : work'[g] = work[g]
  BY DEF ReservingInv, HandlerMoves
<1>2. m \in HandledAs(at, step) <=>
         /\ m \notin inbox
         /\ \E g \in Handlers : work[g].at = at /\ work[g].msg.step = step /\ work[g].msg = m
  BY HandledIs
<1>3. m \in HandledAs(at, step)' <=>
         /\ m \notin inbox'
         /\ \E g \in Handlers : work'[g].at = at /\ work'[g].msg.step = step /\ work'[g].msg = m
  BY DEF HandledAs, IsAt
<1>4. (\E g \in Handlers : work'[g].at = at /\ work'[g].msg.step = step /\ work'[g].msg = m)
         <=> \/ AtStep(v, at, step) /\ v.msg = m
             \/ \E g \in Handlers \ {h} : AtStep(work[g], at, step) /\ work[g].msg = m
  BY <1>1 DEF AtStep
<1>5. (\E g \in Handlers : work[g].at = at /\ work[g].msg.step = step /\ work[g].msg = m)
         <=> \/ AtStep(w, at, step) /\ w.msg = m
             \/ \E g \in Handlers \ {h} : AtStep(work[g], at, step) /\ work[g].msg = m
  BY <1>1 DEF AtStep
<1>6. QED
  BY <1>1, <1>2, <1>3, <1>4, <1>5

LEMMA HandledStays ==
    ASSUME ReservingInv, NEW h \in Handlers, NEW w, NEW v, HandlerMoves(h, w, v),
           NEW at, NEW step,
           AtStep(v, at, step) => AtStep(w, at, step) /\ w.msg = v.msg,
           AtStep(w, at, step) => AtStep(v, at, step) \/ w.msg \in inbox
    PROVE  HandledAs(at, step)' = HandledAs(at, step)
<1>1. ASSUME NEW m PROVE m \in HandledAs(at, step)' <=> m \in HandledAs(at, step)
  <2>1. /\ m \in HandledAs(at, step)' <=>
              /\ m \notin inbox
              /\ \/ AtStep(v, at, step) /\ v.msg = m
                 \/ \E g \in Handlers \ {h} : AtStep(work[g], at, step) /\ work[g].msg = m
        /\ m \in HandledAs(at, step) <=>
              /\ m \notin inbox
              /\ \/ AtStep(w, at, step) /\ w.msg = m
                 \/ \E g \in Handlers \ {h} : AtStep(work[g], at, step) /\ work[g].msg = m
    BY HandledMoves
  <2>2. QED
    BY <2>1
<1>2. QED
  BY <1>1

LEMMA HandledJoins ==
    ASSUME ReservingInv, NEW h \in Handlers, NEW w, NEW v, HandlerMoves(h, w, v),
           NEW at, NEW step, ~AtStep(w, at, step), AtStep(v, at, step)
    PROVE  HandledAs(at, step)' = (HandledAs(at, step) \cup {v.msg}) \ inbox
<1>1. ASSUME NEW m
      PROVE  m \in HandledAs(at, step)' <=> m \in (HandledAs(at, step) \cup {v.msg}) \ inbox
  <2>1. /\ m \in HandledAs(at, step)' <=>
              /\ m \notin inbox
              /\ \/ AtStep(v, at, step) /\ v.msg = m
                 \/ \E g \in Handlers \ {h} : AtStep(work[g], at, step) /\ work[g].msg = m
        /\ m \in HandledAs(at, step) <=>
              /\ m \notin inbox
              /\ \/ AtStep(w, at, step) /\ w.msg = m
                 \/ \E g \in Handlers \ {h} : AtStep(work[g], at, step) /\ work[g].msg = m
    BY HandledMoves
  <2>2. QED
    BY <2>1
<1>2. QED
  BY <1>1

LEMMA HandledLeaves ==
    ASSUME ReservingInv, NEW h \in Handlers, NEW w, NEW v, HandlerMoves(h, w, v),
           NEW at, NEW step, ~AtStep(v, at, step)
    PROVE  HandledAs(at, step)' \subseteq HandledAs(at, step)
<1>1. ASSUME NEW m, m \in HandledAs(at, step)'
      PROVE  m \in HandledAs(at, step)
  <2>1. m \notin inbox /\ \E g \in Handlers \ {h} : AtStep(work[g], at, step) /\ work[g].msg = m
    BY <1>1, HandledMoves
  <2>2. QED
    BY <2>1, HandledMoves
<1>2. QED
  BY <1>1

(* A handler that stays where it is, or whose message has been consumed     *)
(* before, is not seen; nor is one that begins or leaves a reservation.     *)
LEMMA Unseen ==
    ASSUME ReservingInv, NEW h \in Handlers, NEW w, NEW v, HandlerMoves(h, w, v),
           UNCHANGED rowVars,
           AtStep(v, "short", "ReservePortions") => AtStep(w, "short", "ReservePortions") /\ w.msg = v.msg,
           AtStep(w, "short", "ReservePortions") =>
              AtStep(v, "short", "ReservePortions") \/ w.msg \in inbox,
           AtStep(v, "open", "ReleasePortions") => AtStep(w, "open", "ReleasePortions") /\ w.msg = v.msg,
           AtStep(w, "open", "ReleasePortions") =>
              AtStep(v, "open", "ReleasePortions") \/ w.msg \in inbox
    PROVE  UNCHANGED Seen
<1>1. HandledAs("short", "ReservePortions")' = HandledAs("short", "ReservePortions")
  BY HandledStays
<1>2. HandledAs("open", "ReleasePortions")' = HandledAs("open", "ReleasePortions")
  BY HandledStays
<1>3. Consumed' = Consumed
  BY DEF HandlerMoves, Consumed, IsForKitchen
<1>4. QED
  BY <1>1, <1>2, <1>3 DEF Seen, ComeUpShort, Releasing

(* A handler that gives up forgets what it has found out.                   *)
LEMMA LeavingForgets ==
    ASSUME ReservingInv, NEW h \in Handlers, Leave(h), UNCHANGED << inbox, rowVars >>
    PROVE  Forgets
<1>1. PICK v, w : v = Idle /\ w = work[h]
  OBVIOUS
<1>2. HandlerMoves(h, w, v)
  BY <1>1 DEF Leave, HandlerMoves
<1>3. ~AtStep(v, "short", "ReservePortions") /\ ~AtStep(v, "open", "ReleasePortions")
  BY <1>1 DEF AtStep, Idle
<1>4. HandledAs("short", "ReservePortions")' \subseteq HandledAs("short", "ReservePortions")
  BY <1>2, <1>3, HandledLeaves
<1>5. HandledAs("open", "ReleasePortions")' \subseteq HandledAs("open", "ReleasePortions")
  BY <1>2, <1>3, HandledLeaves
<1>6. Consumed' = Consumed
  BY DEF Consumed, IsForKitchen
<1>7. QED
  BY <1>4, <1>5, <1>6 DEF Forgets, ComeUpShort, Releasing

(* The rest of the system consumes no command.                              *)
LEMMA UnseenOutside ==
    ASSUME ReservingInv, UNCHANGED << rowVars, work >>,
           NEW done, inbox' = inbox \cup done, \A m \in done : m.kind # "command"
    PROVE  UNCHANGED Seen
<1>1. Consumed' = Consumed
  BY DEF Consumed, IsForKitchen
<1>2. \A g \in Handlers : work[g].at \in {"open", "short"} => work[g].msg \notin done
  BY DEF ReservingInv, WorkKept, OpenWork, ShortWork
<1>3. ASSUME NEW at \in {"open", "short"}, NEW step
      PROVE  HandledAs(at, step)' = HandledAs(at, step)
  <2>1. ASSUME NEW m PROVE m \in HandledAs(at, step)' <=> m \in HandledAs(at, step)
    <3>1. m \in HandledAs(at, step) <=>
             /\ m \notin inbox
             /\ \E g \in Handlers :
                   work[g].at = at /\ work[g].msg.step = step /\ work[g].msg = m
      BY HandledIs
    <3>2. m \in HandledAs(at, step)' <=>
             /\ m \notin inbox'
             /\ \E g \in Handlers :
                   work'[g].at = at /\ work'[g].msg.step = step /\ work'[g].msg = m
      BY DEF HandledAs, IsAt
    <3>3. QED
      BY <1>2, <3>1, <3>2
  <2>2. QED
    BY <2>1
<1>4. QED
  BY <1>1, <1>3 DEF Seen, ComeUpShort, Releasing

(* A delivered release has found something to release.                      *)
LEMMA DeliverIsSeen ==
    ASSUME ReservingInv, MessagingTypeOK, NEW h \in Handlers, NEW m \in sent, Deliver(h, m)
    PROVE  AtomicNext \/ UNCHANGED Seen
<1>1. PICK todo :
         /\ \/ m.step = "ReservePortions"
            \/ m.step = "ReleasePortions" /\ reservation[m.order] = "HELD"
         /\ work' = [work EXCEPT ![h] =
                        [msg |-> m, at |-> "open", todo |-> todo, took |-> Nothing]]
  BY DEF Deliver, Arrives
<1>2. PICK v : v = [msg |-> m, at |-> "open", todo |-> todo, took |-> Nothing]
  OBVIOUS
<1>3. v.msg = m /\ v.at = "open" /\ work' = [work EXCEPT ![h] = v]
  BY <1>1, <1>2
<1>4. PICK w : w = work[h]
  OBVIOUS
<1>5. w.at = "idle" /\ UNCHANGED << msgVars, rowVars >> /\ m \in sent \ inbox /\ m.kind = "command"
  BY <1>4 DEF Deliver, Arrives, Pending
<1>6. ~AtStep(w, "short", "ReservePortions") /\ ~AtStep(w, "open", "ReleasePortions")
  BY <1>5 DEF AtStep
<1>7. ~AtStep(v, "short", "ReservePortions")
  BY <1>3 DEF AtStep
<1>8. CASE m.step = "ReservePortions"
  <2>1. ~AtStep(v, "open", "ReleasePortions")
    BY <1>3, <1>8 DEF AtStep
  <2>2. UNCHANGED << inbox, rowVars >>
    BY <1>5 DEF msgVars
  <2>3. UNCHANGED Seen
    BY <1>3, <1>4, <1>6, <1>7, <2>1, <2>2, Unseen DEF HandlerMoves
  <2>4. QED
    BY <2>3
<1>9. CASE m.step = "ReleasePortions" /\ reservation[m.order] = "HELD"
  <2>1. HandlerMoves(h, w, v) /\ inbox' = inbox
    BY <1>3, <1>4, <1>5 DEF HandlerMoves, msgVars
  <2>2. AtStep(v, "open", "ReleasePortions")
    BY <1>3, <1>9 DEF AtStep
  <2>3. HandledAs("short", "ReservePortions")' = HandledAs("short", "ReservePortions")
    BY <1>6, <1>7, <2>1, HandledStays
  <2>4. HandledAs("open", "ReleasePortions")' =
           (HandledAs("open", "ReleasePortions") \cup {v.msg}) \ inbox
    BY <1>6, <2>1, <2>2, HandledJoins
  <2>5. m \notin inbox
    BY <1>5
  <2>6. ComeUpShort' = ComeUpShort
    BY <2>3 DEF ComeUpShort
  <2>7. Releasing' = Releasing \cup {m}
    <3>1. HandledAs("open", "ReleasePortions") \cap inbox = {}
      BY DEF HandledAs
    <3>2. QED
      BY <1>3, <2>4, <2>5, <3>1 DEF Releasing
  <2>8. m.order \in Orders
    BY DEF MessagingTypeOK, Messages
  <2>9. Atomic!BeginRelease(m)
    BY <1>5, <1>9, <2>6, <2>7
       DEF Atomic!BeginRelease, Atomic!Arrives, Atomic!Pending, Atomic!msgVars, msgVars, rowVars
  <2>10. m \in Atomic!SentFor(m.order)
    BY DEF Atomic!SentFor
  <2>11. Atomic!KitchenHandles(m.order)
    BY <2>9, <2>10 DEF Atomic!KitchenHandles
  <2>12. QED
    BY <2>8, <2>11 DEF AtomicNext
<1>10. QED
  BY <1>1, <1>8, <1>9

(* An updated line is no change that is seen: the transaction has yet to    *)
(* commit.                                                                  *)
LEMMA UpdateUnseen ==
    ASSUME ReservingInv, NEW h \in Handlers, Update(h), work[h].at = "open",
           UNCHANGED << msgVars, rowVars >>
    PROVE  UNCHANGED Seen
<1>1. PICK w : w = work[h] /\ w.at = "open"
  OBVIOUS
<1>2. w = [msg |-> w.msg, at |-> w.at, todo |-> w.todo, took |-> w.took]
  BY <1>1 DEF ReservingInv, WorkKept
<1>3. PICK rest : rest = Tail(w.todo)
  OBVIOUS
<1>4. PICK new : new = [w.took EXCEPT ![Line(h).drop] = @ + Line(h).qty]
  OBVIOUS
<1>5. PICK v : v = [msg |-> w.msg, at |-> w.at, todo |-> rest, took |-> new]
  OBVIOUS
<1>6. work' = [work EXCEPT ![h] = v]
  <2>1. work' = [work EXCEPT ![h] = [[w EXCEPT !.took = new] EXCEPT !.todo = rest]]
    BY <1>1, <1>3, <1>4 DEF Update
  <2>2. [w EXCEPT !.took = new] = [msg |-> w.msg, at |-> w.at, todo |-> w.todo, took |-> new]
    BY <1>2
  <2>3. PICK y : y = [msg |-> w.msg, at |-> w.at, todo |-> w.todo, took |-> new]
    OBVIOUS
  <2>4. [y EXCEPT !.todo = rest] = v
    BY <1>5, <2>3
  <2>5. QED
    BY <2>1, <2>2, <2>3, <2>4
<1>7. v.msg = w.msg /\ v.at = w.at
  BY <1>5
<1>8. UNCHANGED << inbox, rowVars >>
  BY DEF msgVars
<1>9. /\ AtStep(v, "short", "ReservePortions") =>
            AtStep(w, "short", "ReservePortions") /\ w.msg = v.msg
      /\ AtStep(w, "short", "ReservePortions") =>
            AtStep(v, "short", "ReservePortions") \/ w.msg \in inbox
      /\ AtStep(v, "open", "ReleasePortions") =>
            AtStep(w, "open", "ReleasePortions") /\ w.msg = v.msg
      /\ AtStep(w, "open", "ReleasePortions") =>
            AtStep(v, "open", "ReleasePortions") \/ w.msg \in inbox
  BY <1>7 DEF AtStep
<1>10. HandlerMoves(h, w, v)
  BY <1>1, <1>6, <1>8 DEF HandlerMoves
<1>11. QED
  BY <1>8, <1>9, <1>10, Unseen

(* What is consumed is handled no more.                                     *)
LEMMA ConsumedIsLeft ==
    ASSUME NEW m, inbox' = inbox \cup {m},
           \A g \in Handlers : work'[g] = work[g] \/ (work[g].msg = m /\ work'[g].at = "idle")
    PROVE  /\ ComeUpShort' = ComeUpShort \ {m}
           /\ Releasing' = Releasing \ {m}
           /\ m.step = "ReservePortions" => Releasing' = Releasing
           /\ m.step = "ReleasePortions" => ComeUpShort' = ComeUpShort
<1>1. ASSUME NEW at \in {"open", "short"}, NEW step
      PROVE  HandledAs(at, step)' = HandledAs(at, step) \ {m}
  <2>1. ASSUME NEW x PROVE x \in HandledAs(at, step)' <=> x \in HandledAs(at, step) /\ x # m
    <3>1. x \in HandledAs(at, step) <=>
             /\ x \notin inbox
             /\ \E g \in Handlers :
                   work[g].at = at /\ work[g].msg.step = step /\ work[g].msg = x
      BY HandledIs
    <3>2. x \in HandledAs(at, step)' <=>
             /\ x \notin inbox'
             /\ \E g \in Handlers :
                   work'[g].at = at /\ work'[g].msg.step = step /\ work'[g].msg = x
      BY DEF HandledAs, IsAt
    <3>3. QED
      BY <3>1, <3>2
  <2>2. QED
    BY <2>1
<1>2. /\ \A x \in ComeUpShort : x.step = "ReservePortions"
      /\ \A x \in Releasing : x.step = "ReleasePortions"
  BY DEF ComeUpShort, Releasing, HandledAs, IsAt
<1>3. /\ ComeUpShort' = ComeUpShort \ {m}
      /\ Releasing' = Releasing \ {m}
  BY <1>1 DEF ComeUpShort, Releasing
<1>4. QED
  BY <1>2, <1>3

(* A transaction is at a command to the kitchen, about an order.            *)
LEMMA AtCommand ==
    ASSUME ReservingInv, MessagingTypeOK, NEW h \in Handlers, work[h].at # "idle",
           NEW m, m = work[h].msg
    PROVE  /\ m \in sent /\ m \in Messages /\ m.kind = "command" /\ m.order \in Orders
           /\ m \in Atomic!SentFor(m.order)
           /\ m.step = "ReservePortions" => m = Command("ReservePortions", m.order, 0)
<1>1. m \in sent /\ m.kind = "command"
  BY DEF ReservingInv, WorkKept, OpenWork, ShortWork
<1>2. m \in Messages /\ m.order \in Orders
  BY <1>1 DEF MessagingTypeOK, Messages
<1>3. m \in Atomic!SentFor(m.order)
  BY <1>1 DEF Atomic!SentFor
<1>4. m.step = "ReservePortions" => m.from = 0
  BY <1>1 DEF ReservingInv, ReservedOnce
<1>5. m = [kind |-> m.kind, step |-> m.step, order |-> m.order, from |-> m.from]
  BY <1>2 DEF Messages
<1>6. QED
  BY <1>1, <1>2, <1>3, <1>4, <1>5 DEF Command

(* What a handler that leaves with its message consumes.                    *)
LEMMA CommitIsLeft ==
    ASSUME ReservingInv, NEW h \in Handlers, NEW m, m = work[h].msg, Leave(h),
           inbox' = inbox \cup {m}
    PROVE  /\ ComeUpShort' = ComeUpShort \ {m}
           /\ Releasing' = Releasing \ {m}
           /\ m.step = "ReservePortions" => Releasing' = Releasing
           /\ m.step = "ReleasePortions" => ComeUpShort' = ComeUpShort
<1>1. work'[h] = Idle /\ \A g \in Handlers \ {h} : work'[g] = work[g]
  BY DEF Leave, ReservingInv
<1>2. \A g \in Handlers : work'[g] = work[g] \/ (work[g].msg = m /\ work'[g].at = "idle")
  BY <1>1 DEF Idle
<1>3. QED
  BY <1>2, ConsumedIsLeft

(* An open transaction that is through with its lines took what its order   *)
(* asks for, and the rows have it.                                          *)
LEMMA OpenTook ==
    ASSUME ReservingInv, MessagingTypeOK, NEW h \in Handlers, work[h].at = "open",
           work[h].todo = << >>, NEW d \in Drops
    PROVE  /\ Portions[work[h].msg.order][d] = work[h].took[d]
           /\ work[h].msg.step = "ReservePortions" => work[h].took[d] <= available[d]
           /\ work[h].msg.step = "ReleasePortions" => work[h].took[d] <= reserved[d]
<1>1. PICK w : w = work[h]
  OBVIOUS
<1>2. OpenWork(w)
  BY <1>1 DEF ReservingInv, WorkKept
<1>3. w.msg.order \in Orders
  BY <1>2 DEF OpenWork, MessagingTypeOK, Messages
<1>4. PICK p : LinesLeft(w, p)
  BY <1>2 DEF OpenWork
<1>5. w.took[d] = AskedOf(w.msg.order, d)
  BY <1>1, <1>3, <1>4, TookAsked
<1>6. Portions[w.msg.order][d] = AskedOf(w.msg.order, d)
  BY <1>3 DEF Portions
<1>7. QED
  BY <1>1, <1>2, <1>5, <1>6 DEF OpenWork

(* The commit of a reservation is Kitchen's step: all of the order's lines. *)
LEMMA CommitReserveIsSeen ==
    ASSUME ReservingInv, MessagingTypeOK, NEW h \in Handlers, CommitReserve(h)
    PROVE  AtomicNext
<1>1. PICK m : m = work[h].msg
  OBVIOUS
<1>2. /\ work[h].at = "open" /\ work[h].todo = << >> /\ m.step = "ReservePortions"
      /\ Consume(m, {Reply(m, "ok")}) /\ Leave(h)
      /\ available' = [d \in Drops |-> available[d] - work[h].took[d]]
      /\ reserved' = [d \in Drops |-> reserved[d] + work[h].took[d]]
      /\ reservation' = [reservation EXCEPT ![m.order] = "HELD"]
  BY <1>1 DEF CommitReserve, IsAt
<1>3. /\ m \in sent /\ m.kind = "command" /\ m.order \in Orders
      /\ m \in Atomic!SentFor(m.order)
      /\ m = Command("ReservePortions", m.order, 0)
  BY <1>1, <1>2, AtCommand
<1>4. m \notin inbox /\ inbox' = inbox \cup {m} /\ sent' = sent \cup {Reply(m, "ok")}
  BY <1>2 DEF Consume, Pending
<1>5. reservation[m.order] = "NONE"
  BY <1>3, <1>4 DEF ReservingInv, ReservedOnce
<1>6. \A d \in Drops :
         Portions[m.order][d] = work[h].took[d] /\ work[h].took[d] <= available[d]
  BY <1>1, <1>2, OpenTook
<1>7. ComeUpShort' = ComeUpShort \ {m} /\ Releasing' = Releasing
  BY <1>1, <1>2, <1>4, CommitIsLeft
<1>8. /\ available' = [d \in Drops |-> available[d] - Portions[m.order][d]]
      /\ reserved' = [d \in Drops |-> reserved[d] + Portions[m.order][d]]
  BY <1>2, <1>6
<1>9. Atomic!Arrives(m, "ReservePortions")
  BY <1>2, <1>3, <1>4 DEF Atomic!Arrives, Atomic!Pending
<1>10. Atomic!Fits(m.order)
  BY <1>6 DEF Atomic!Fits
<1>11. Atomic!Consume(m, {Atomic!Reply(m, "ok")})
  BY <1>3, <1>4 DEF Atomic!Consume, Atomic!Pending, Atomic!Reply, Reply
<1>12. Atomic!ReservePortions(m)
  BY <1>2, <1>5, <1>7, <1>8, <1>9, <1>10, <1>11 DEF Atomic!ReservePortions
<1>13. QED
  BY <1>3, <1>12 DEF AtomicNext, Atomic!KitchenHandles

(* A line that finds too few portions shows that the order does not fit.    *)
LEMMA ShortLineIsSeen ==
    ASSUME ReservingInv, MessagingTypeOK, NEW h \in Handlers, ShortLine(h)
    PROVE  AtomicNext \/ UNCHANGED Seen
<1>1. PICK w : w = work[h] /\ w.at = "open"
  BY DEF ShortLine, IsAt
<1>2. PICK m : m = w.msg /\ m.step = "ReservePortions"
  BY <1>1 DEF ShortLine, IsAt
<1>3. PICK v : v = [Idle EXCEPT !.msg = m, !.at = "short"]
  OBVIOUS
<1>4. v.msg = m /\ v.at = "short"
  BY <1>3 DEF Idle
<1>5. /\ work' = [work EXCEPT ![h] = v] /\ w = work[h]
      /\ UNCHANGED << msgVars, rowVars >> /\ UNCHANGED << inbox, rowVars >>
  BY <1>1, <1>2, <1>3 DEF ShortLine, msgVars
<1>6. /\ m \in sent /\ m.kind = "command" /\ m.order \in Orders
      /\ m \in Atomic!SentFor(m.order)
  BY <1>1, <1>2, AtCommand
<1>7. ~AtStep(v, "open", "ReleasePortions") /\ ~AtStep(w, "open", "ReleasePortions")
  BY <1>1, <1>2, <1>4 DEF AtStep
<1>8. ~AtStep(w, "short", "ReservePortions") /\ AtStep(v, "short", "ReservePortions")
  BY <1>1, <1>2, <1>4 DEF AtStep
<1>9. HandlerMoves(h, w, v)
  BY <1>5 DEF HandlerMoves
<1>10. HandledAs("open", "ReleasePortions")' = HandledAs("open", "ReleasePortions")
  BY <1>7, <1>9, HandledStays
<1>11. HandledAs("short", "ReservePortions")' =
          (HandledAs("short", "ReservePortions") \cup {v.msg}) \ inbox
  BY <1>8, <1>9, HandledJoins
<1>12. Releasing' = Releasing
  BY <1>10 DEF Releasing
<1>13. \A x \in ComeUpShort : x \notin inbox
  BY DEF ComeUpShort, HandledAs
<1>14. Consumed' = Consumed
  BY <1>5 DEF Consumed, IsForKitchen
<1>15. CASE m \in inbox
  <2>1. ComeUpShort' = ComeUpShort
    BY <1>4, <1>5, <1>11, <1>13, <1>15 DEF ComeUpShort
  <2>2. QED
    BY <1>5, <1>12, <1>14, <2>1 DEF Seen
<1>16. CASE m \notin inbox
  <2>1. ComeUpShort' = ComeUpShort \cup {m}
    BY <1>4, <1>5, <1>11, <1>13, <1>16 DEF ComeUpShort
  <2>2. ~Atomic!Fits(m.order)
    <3>1. OpenWork(w)
      BY <1>1 DEF ReservingInv, WorkKept
    <3>2. PICK p : LinesLeft(w, p)
      BY <3>1 DEF OpenWork
    <3>3. w.todo \in Seq(LineType) /\ w.todo # << >> /\ ~Enough(h)
      BY <1>1, <3>1 DEF OpenWork, ShortLine
    <3>4. PICK x : x = Head(w.todo)
      OBVIOUS
    <3>5. x \in LineType /\ 1 \in DOMAIN w.todo /\ w.todo[1] = x
      BY <3>3, <3>4
    <3>6. PICK d \in Drops : d = x.drop /\ x.qty \in Nat
      BY <3>5 DEF LineType
    <3>7. w.took[d] + x.qty <= AskedOf(m.order, d)
      BY <1>2, <1>6, <3>2, <3>5, <3>6, TookAsked
    <3>8. ~(w.took[d] + x.qty <= available[d])
      BY <1>1, <3>3, <3>4, <3>6 DEF Enough, Sum, Line
    <3>9. w.took[d] \in Nat /\ available[d] \in Nat /\ AskedOf(m.order, d) \in Nat
      BY <1>1, <1>2, <1>6, <3>2, TookAsked DEF ReservingInv, WorkKept, RowsTyped
    <3>10. Portions[m.order][d] = AskedOf(m.order, d)
      BY <1>6 DEF Portions
    <3>11. ~(Portions[m.order][d] <= available[d])
      BY <3>6, <3>7, <3>8, <3>9, <3>10
    <3>12. QED
      BY <3>11 DEF Atomic!Fits
  <2>3. Atomic!Arrives(m, "ReservePortions")
    BY <1>2, <1>6, <1>16 DEF Atomic!Arrives, Atomic!Pending
  <2>4. Atomic!ComesUpShort(m)
    BY <1>5, <1>12, <2>1, <2>2, <2>3
       DEF Atomic!ComesUpShort, Atomic!msgVars, msgVars, rowVars
  <2>5. QED
    BY <1>6, <2>4 DEF AtomicNext, Atomic!KitchenHandles
<1>17. QED
  BY <1>15, <1>16

(* The failed reply of an order that came up short.                         *)
LEMMA AnswerIsSeen ==
    ASSUME ReservingInv, MessagingTypeOK, NEW h \in Handlers, AnswerSoldOut(h)
    PROVE  AtomicNext
<1>1. PICK m : m = work[h].msg
  OBVIOUS
<1>2. /\ work[h].at = "short" /\ m.step = "ReservePortions"
      /\ Consume(m, {Reply(m, "failed")}) /\ Leave(h) /\ UNCHANGED rowVars
  BY <1>1 DEF AnswerSoldOut, IsAt
<1>3. /\ m \in sent /\ m.kind = "command" /\ m.order \in Orders
      /\ m \in Atomic!SentFor(m.order)
  BY <1>1, <1>2, AtCommand
<1>4. m \notin inbox /\ inbox' = inbox \cup {m} /\ sent' = sent \cup {Reply(m, "failed")}
  BY <1>2 DEF Consume, Pending
<1>5. ComeUpShort' = ComeUpShort \ {m} /\ Releasing' = Releasing
  BY <1>1, <1>2, <1>4, CommitIsLeft
<1>6. m \in ComeUpShort
  BY <1>1, <1>2, <1>4, HandledIs DEF ComeUpShort
<1>7. Atomic!Arrives(m, "ReservePortions")
  BY <1>2, <1>3, <1>4 DEF Atomic!Arrives, Atomic!Pending
<1>8. Atomic!Consume(m, {Atomic!Reply(m, "failed")})
  BY <1>3, <1>4 DEF Atomic!Consume, Atomic!Pending, Atomic!Reply, Reply
<1>9. Atomic!SoldOut(m)
  BY <1>2, <1>5, <1>6, <1>7, <1>8 DEF Atomic!SoldOut, rowVars
<1>10. QED
  BY <1>3, <1>9 DEF AtomicNext, Atomic!KitchenHandles

(* A release restores all of what its order asks for.                       *)
LEMMA CommitReleaseIsSeen ==
    ASSUME ReservingInv, MessagingTypeOK, NEW h \in Handlers, CommitRelease(h)
    PROVE  AtomicNext
<1>1. PICK m : m = work[h].msg
  OBVIOUS
<1>2. /\ work[h].at = "open" /\ work[h].todo = << >> /\ m.step = "ReleasePortions"
      /\ Consume(m, {}) /\ Leave(h)
      /\ available' = [d \in Drops |-> available[d] + work[h].took[d]]
      /\ reserved' = [d \in Drops |-> reserved[d] - work[h].took[d]]
      /\ reservation' = [reservation EXCEPT ![m.order] = "RELEASED"]
  BY <1>1 DEF CommitRelease, IsAt
<1>3. /\ m \in sent /\ m.kind = "command" /\ m.order \in Orders
      /\ m \in Atomic!SentFor(m.order)
  BY <1>1, <1>2, AtCommand
<1>4. m \notin inbox /\ inbox' = inbox \cup {m} /\ sent' = sent
  BY <1>2 DEF Consume, Pending
<1>5. \A d \in Drops :
         Portions[m.order][d] = work[h].took[d] /\ work[h].took[d] <= reserved[d]
  BY <1>1, <1>2, OpenTook
<1>6. ComeUpShort' = ComeUpShort /\ Releasing' = Releasing \ {m}
  BY <1>1, <1>2, <1>4, CommitIsLeft
<1>7. m \in Releasing
  BY <1>1, <1>2, <1>4, HandledIs DEF Releasing
<1>8. m \notin Atomic!Sweeps
  BY <1>3 DEF Atomic!Sweeps, Atomic!SweepOf
<1>9. /\ available' = [d \in Drops |-> available[d] + Portions[m.order][d]]
      /\ reserved' = [d \in Drops |-> reserved[d] - Portions[m.order][d]]
  BY <1>2, <1>5
<1>10. Atomic!Restorable(m.order)
  BY <1>5 DEF Atomic!Restorable
<1>11. Atomic!Restore(m.order)
  BY <1>2, <1>9, <1>10 DEF Atomic!Restore
<1>12. Atomic!Consume(m, {})
  BY <1>3, <1>4 DEF Atomic!Consume, Atomic!Pending
<1>13. Atomic!CommitRelease(m)
  BY <1>6, <1>7, <1>8, <1>11, <1>12 DEF Atomic!CommitRelease
<1>14. QED
  BY <1>3, <1>13 DEF AtomicNext, Atomic!KitchenHandles

LEMMA NothingIsSeen ==
    ASSUME ReservingInv, MessagingTypeOK, NEW m \in sent, NothingToRelease(m)
    PROVE  AtomicNext
<1>1. /\ m \in sent \ inbox /\ m.kind = "command" /\ m.step = "ReleasePortions"
      /\ reservation[m.order] # "HELD" /\ Consume(m, {}) /\ UNCHANGED << rowVars, work >>
  BY DEF NothingToRelease, Arrives, Pending, reservingVars
<1>2. m.order \in Orders
  BY DEF MessagingTypeOK, Messages
<1>3. reservation[m.order] \in {"NONE", "RELEASED"}
  BY <1>1, <1>2 DEF ReservingInv, RowsTyped
<1>4. inbox' = inbox \cup {m} /\ sent' = sent
  BY <1>1 DEF Consume
<1>5. ComeUpShort' = ComeUpShort /\ Releasing' = Releasing \ {m}
  BY <1>1, <1>4, ConsumedIsLeft
<1>6. Atomic!Arrives(m, "ReleasePortions")
  BY <1>1 DEF Atomic!Arrives, Atomic!Pending
<1>7. Atomic!Consume(m, {})
  BY <1>1, <1>4 DEF Atomic!Consume, Atomic!Pending
<1>8. Atomic!NothingToRelease(m)
  BY <1>1, <1>3, <1>5, <1>6, <1>7 DEF Atomic!NothingToRelease, rowVars
<1>9. m \in Atomic!SentFor(m.order)
  BY DEF Atomic!SentFor
<1>10. QED
  BY <1>2, <1>8, <1>9 DEF AtomicNext, Atomic!KitchenHandles

LEMMA HandlerIsSeen ==
    ASSUME ReservingInv, MessagingTypeOK, NEW h \in Handlers, Handle(h)
    PROVE  AtomicNext \/ UNCHANGED Seen
<1>1. ASSUME NEW m \in sent, Deliver(h, m) PROVE AtomicNext \/ UNCHANGED Seen
  BY <1>1, DeliverIsSeen
<1>2. CASE TakeLine(h)
  BY <1>2, UpdateUnseen DEF TakeLine, IsAt
<1>3. CASE RestoreLine(h)
  BY <1>3, UpdateUnseen DEF RestoreLine, IsAt
<1>4. CASE ShortLine(h)
  BY <1>4, ShortLineIsSeen
<1>5. CASE CommitReserve(h)
  BY <1>5, CommitReserveIsSeen
<1>6. CASE AnswerSoldOut(h)
  BY <1>6, AnswerIsSeen
<1>7. CASE CommitRelease(h)
  BY <1>7, CommitReleaseIsSeen
<1>8. CASE LoseRace(h) \/ RestoreTooMuch(h)
  <2>1. Leave(h) /\ UNCHANGED << inbox, rowVars >>
    BY <1>8 DEF LoseRace, RestoreTooMuch, Throw, msgVars
  <2>2. QED
    BY <2>1, LeavingForgets DEF AtomicNext
<1>9. QED
  BY <1>1, <1>2, <1>3, <1>4, <1>5, <1>6, <1>7, <1>8 DEF Handle

LEMMA FailureIsSeen ==
    ASSUME ReservingInv, MessagingTypeOK, KitchenFails
    PROVE  AtomicNext \/ UNCHANGED Seen
<1>1. ASSUME NEW h \in Handlers, Fail(h) PROVE AtomicNext
  <2>1. Leave(h) /\ UNCHANGED << inbox, rowVars >>
    BY <1>1 DEF Fail, Throw, msgVars
  <2>2. QED
    BY <2>1, LeavingForgets DEF AtomicNext
<1>2. CASE Reconnect
  <2>1. UNCHANGED << msgVars, rowVars >> /\ work' \in {work, [h \in Handlers |-> Idle]}
    BY <1>2 DEF Reconnect
  <2>2. CASE work' = work
    <3>1. PICK done : done = {}
      OBVIOUS
    <3>2. inbox' = inbox \cup done /\ \A m \in done : m.kind # "command"
      BY <2>1, <3>1 DEF msgVars
    <3>3. UNCHANGED << rowVars, work >>
      BY <2>1, <2>2
    <3>4. QED
      BY <3>2, <3>3, UnseenOutside
  <2>3. CASE work' = [h \in Handlers |-> Idle]
    <3>1. \A h \in Handlers : work'[h].at = "idle"
      BY <2>3 DEF Idle
    <3>2. ComeUpShort' = {} /\ Releasing' = {}
      BY <3>1 DEF ComeUpShort, Releasing, HandledAs, IsAt
    <3>3. Consumed' = Consumed
      BY <2>1 DEF Consumed, IsForKitchen, msgVars
    <3>4. QED
      BY <2>1, <3>2, <3>3 DEF AtomicNext, Forgets
  <2>4. QED
    BY <2>1, <2>2, <2>3
<1>3. QED
  BY <1>1, <1>2 DEF KitchenFails, AtomicNext

LEMMA KitchenIsSeen ==
    ASSUME ReservingInv, MessagingTypeOK, KitchenWorks
    PROVE  AtomicNext \/ UNCHANGED Seen
<1>1. CASE Abort
  <2>1. PICK h \in Handlers : Leave(h) /\ UNCHANGED << inbox, rowVars >>
    BY <1>1 DEF Abort, msgVars
  <2>2. QED
    BY <2>1, LeavingForgets DEF AtomicNext
<1>2. QED
  BY <1>1, HandlerIsSeen, NothingIsSeen DEF KitchenWorks

(* What the orchestrator consumes is a reply or an event.                   *)
LEMMA OrchestratorUnseen ==
    ASSUME ReservingInv, UNCHANGED << rowVars, work >>,
           NEW o \in Orders, OrchestratorHandles(o)
    PROVE  UNCHANGED Seen
<1>1. ASSUME UNCHANGED inbox PROVE UNCHANGED Seen
  <2>1. PICK done : done = {}
    OBVIOUS
  <2>2. inbox' = inbox \cup done /\ \A m \in done : m.kind # "command"
    BY <1>1, <2>1
  <2>3. QED
    BY <2>2, UnseenOutside
<1>2. ASSUME NEW m, Receive(m) PROVE UNCHANGED Seen
  BY <1>1, <1>2 DEF Receive, Begin
<1>3. ASSUME NEW t, CommitReply(t) PROVE UNCHANGED Seen
  <2>1. PICK out : CommitMessage(t, out)
    BY <1>3 DEF CommitReply, PortionsReserved, PaymentAuthorized, OrderAccepted,
          CourierAssigned, PaymentCaptured, Reject, Compensate, IgnoreReply,
          OnDelivered, IgnoreDelivered
  <2>2. t.msg.kind # "command"
    BY <1>3 DEF CommitReply, PortionsReserved, PaymentAuthorized, OrderAccepted,
          CourierAssigned, PaymentCaptured, Reject, Compensate, IgnoreReply,
          OnDelivered, IgnoreDelivered, IsReply
  <2>3. PICK done : done = {t.msg}
    OBVIOUS
  <2>4. inbox' = inbox \cup done /\ \A m \in done : m.kind # "command"
    BY <2>1, <2>2, <2>3 DEF CommitMessage, Consume
  <2>5. QED
    BY <2>4, UnseenOutside
<1>4. QED
  BY <1>2, <1>3 DEF OrchestratorHandles

LEMMA InboxUnseen ==
    ASSUME ReservingInv, UNCHANGED << rowVars, work, inbox >>
    PROVE  UNCHANGED Seen
<1>1. PICK done : done = {}
  OBVIOUS
<1>2. inbox' = inbox \cup done /\ \A m \in done : m.kind # "command"
  BY <1>1
<1>3. QED
  BY <1>2, UnseenOutside

LEMMA StepIsSeen ==
    ASSUME ReservingInv, MessagingTypeOK, [Next]_vars
    PROVE  AtomicNext \/ UNCHANGED Seen
<1>1. CASE UNCHANGED vars
  BY <1>1, InboxUnseen DEF vars, msgVars, reservingVars
<1>2. CASE Asking
  <2>1. UNCHANGED << rowVars, work >>
    BY <1>2 DEF Asking, reservingVars
  <2>2. UNCHANGED inbox
    BY <1>2 DEF Asking, CustomersAsk, Post, CancelUnsigned, CancelNotFound,
       CancelTooLate, CancelAgain, BeginCancel, Ask, msgVars
  <2>3. QED
    BY <2>1, <2>2, InboxUnseen
<1>3. CASE Relaying
  <2>1. UNCHANGED << rowVars, work >>
    BY <1>3 DEF Relaying, reservingVars
  <2>2. ASSUME NEW o \in Orders, Place(o) PROVE UNCHANGED inbox
    BY <2>2 DEF Place, PlaceOrder
  <2>3. ASSUME NEW c \in CancelCalls, FinishCancel(c) PROVE UNCHANGED inbox
    BY <2>3 DEF FinishCancel, CommitCancel
  <2>4. UNCHANGED msgVars => UNCHANGED inbox
    BY DEF msgVars
  <2>5. UNCHANGED inbox
    BY <1>3, <2>2, <2>3, <2>4 DEF Relaying, GatewayWorks, GetDrops, NoSuchDrop,
       TotalTooLarge, AnswerPlaced, AnswerCancel
  <2>6. QED
    BY <2>1, <2>5, InboxUnseen
<1>4. ASSUME NEW o \in Orders, Orchestrating(o) PROVE UNCHANGED Seen
  <2>1. OrchestratorHandles(o) /\ UNCHANGED << rowVars, work >>
    BY <1>4 DEF Orchestrating, reservingVars
  <2>2. QED
    BY <2>1, OrchestratorUnseen
<1>5. CASE ReadingLate
  BY <1>5, InboxUnseen DEF ReadingLate, ReadSaga, reservingVars
<1>6. CASE Cooking
  BY <1>6, KitchenIsSeen DEF Cooking
<1>7. CASE Trouble
  <2>1. CASE KitchenFails
    BY <2>1, FailureIsSeen
  <2>2. ASSUME NEW q \in Requests, LoseCall(q), UNCHANGED << rowVars, work >>
        PROVE  UNCHANGED Seen
    <3>1. UNCHANGED inbox
      BY <2>2 DEF LoseCall, msgVars
    <3>2. QED
      BY <2>2, <3>1, InboxUnseen
  <2>3. QED
    BY <1>7, <2>1, <2>2 DEF Trouble
<1>8. QED
  BY <1>1, <1>2, <1>3, <1>4, <1>5, <1>6, <1>7 DEF Next

(* The kitchen of statements, row locks, rollbacks and redeliveries does    *)
(* what the kitchen of atomic steps does: every commit takes or restores    *)
(* all of an order's lines at once, on the counters as they are then, and   *)
(* an order is refused only after a moment at which it did not fit.         *)
THEOREM KitchenIsAtomic == Spec => AtomicKitchen
<1>1. Init => Atomic!KitchenInit
  <2> SUFFICES ASSUME Init PROVE Atomic!KitchenInit
    OBVIOUS
  <2>1. ReservingInit
    BY DEF Init
  <2>2. \A h \in Handlers : work[h].at = "idle"
    BY <2>1 DEF ReservingInit, Idle
  <2>3. ComeUpShort = {} /\ Releasing = {}
    BY <2>2 DEF ComeUpShort, Releasing, HandledAs, IsAt
  <2>4. QED
    BY <2>1, <2>3 DEF ReservingInit, Nothing, Atomic!KitchenInit
<1>2. MessagingTypeOK /\ ReservingInv /\ [Next]_vars => AtomicNext \/ UNCHANGED Seen
  BY StepIsSeen
<1>3. PlacingInv => MessagingTypeOK
  BY DEF PlacingInv
<1>4. Spec => Atomic!KitchenInit /\ [][AtomicNext]_Seen
  BY <1>1, <1>2, <1>3, PlacingInvHolds, ReservingInvHolds, PTL DEF Spec
<1>5. QED
  BY <1>4 DEF AtomicKitchen, AtomicNext, Seen

(***************************************************************************)
(* The portions on the shelf.                                              *)
(***************************************************************************)

(* A release is sent by a cancel request that was let in, and no reply but *)
(* the one to the reservation is ever read.                                 *)
ReleasesAsked ==
    /\ \A t \in otx : IF t.msg.kind = "request"
                      THEN t.msg.from \in 1..cancels[t.msg.order]
                      ELSE t.msg \in sent /\ t.msg.kind # "command"
    /\ \A m \in sent : m.kind = "command" /\ m.step = "ReleasePortions" =>
          m.from \in 1..cancels[m.order]

(* What is released was released by a message that is consumed.             *)
ReleaseConsumed ==
    \A o \in Orders : reservation[o] = "RELEASED" =>
        \E m \in Consumed : m.step = "ReleasePortions" /\ m.order = o

OrderAsks(d) == [o \in Orders |-> AskedOf(o, d)]
HeldOrders == {o \in Orders : reservation[o] = "HELD"}

(* While no order is cancelled twice, what is on sale and what is held add  *)
(* up to the batch.                                                         *)
AddsUp ==
    (\A o \in Orders : cancels[o] <= 1) =>
        \A d \in Drops : Total[d] = available[d] + SumOf(OrderAsks(d), HeldOrders)

ShelfInv == ReleasesAsked /\ ReleaseConsumed /\ AddsUp

LEMMA AskedType ==
    ASSUME NEW o \in Orders, NEW d \in Drops
    PROVE  AskedOf(o, d) \in Nat
BY AskedIs, AsksSums

(* An order more or less among those whose portions are added.              *)
LEMMA HeldMoves ==
    ASSUME NEW d \in Drops, NEW T \in SUBSET Orders, NEW o \in Orders
    PROVE  /\ SumOf(OrderAsks(d), T) \in Nat
           /\ o \notin T =>
                 SumOf(OrderAsks(d), T \cup {o}) = AskedOf(o, d) + SumOf(OrderAsks(d), T)
           /\ o \in T =>
                 SumOf(OrderAsks(d), T) = AskedOf(o, d) + SumOf(OrderAsks(d), T \ {o})
<1> DEFINE f == OrderAsks(d)
<1>1. \A x \in Orders : f[x] = AskedOf(x, d) /\ f[x] \in Nat /\ f[x] \in Int
  BY AskedType DEF OrderAsks
<1>2. IsFiniteSet(T) /\ IsFiniteSet(T \ {o})
  BY PlacingAssumption, FS_Subset
<1> HIDE DEF f
<1>3. SumOf(f, T) \in Nat
  BY <1>1, <1>2, SumNat
<1>4. ASSUME o \notin T
      PROVE  SumOf(f, T \cup {o}) = AskedOf(o, d) + SumOf(f, T)
  <2>1. \A y \in T \cup {o} : f[y] \in Int
    BY <1>1
  <2>2. SumOf(f, T \cup {o}) = f[o] + SumOf(f, T)
    BY <1>2, <1>4, <2>1, SumAdd
  <2>3. QED
    BY <1>1, <2>2
<1>5. ASSUME o \in T
      PROVE  SumOf(f, T) = AskedOf(o, d) + SumOf(f, T \ {o})
  <2> DEFINE U == T \ {o}
  <2>1. o \notin U /\ T = U \cup {o} /\ \A y \in U \cup {o} : f[y] \in Int
    BY <1>1, <1>5
  <2>2. IsFiniteSet(U)
    BY <1>2
  <2> HIDE DEF U
  <2>3. SumOf(f, U \cup {o}) = f[o] + SumOf(f, U)
    BY <2>1, <2>2, SumAdd
  <2>4. QED
    BY <1>1, <2>1, <2>3 DEF U
<1>6. QED
  BY <1>3, <1>4, <1>5 DEF f

(* What the shelf's property adds is such a sum.                            *)
LEMMA HeldOnShelf ==
    ASSUME NEW v, v.id \in Drops
    PROVE  MapThenSumSet(LAMBDA o : AskedOf(o, v.id), {o \in Orders : reservation[o] = "HELD"})
              = SumOf(OrderAsks(v.id), HeldOrders)
<1>1. PICK f : f = OrderAsks(v.id)
  OBVIOUS
<1>2. PICK T : T = {o \in Orders : reservation[o] = "HELD"}
  OBVIOUS
<1>3. T \in SUBSET Orders /\ IsFiniteSet(T)
  BY <1>2, PlacingAssumption, FS_Subset
<1>4. \A o \in T : f[o] = AskedOf(o, v.id) /\ f[o] \in Int
  <2>1. ASSUME NEW o \in T PROVE f[o] = AskedOf(o, v.id) /\ f[o] \in Int
    <3>1. o \in Orders
      BY <1>3
    <3>2. f[o] = AskedOf(o, v.id)
      BY <1>1, <3>1 DEF OrderAsks
    <3>3. AskedOf(o, v.id) \in Nat
      BY <3>1, AskedType
    <3>4. QED
      BY <3>2, <3>3
  <2>2. QED
    BY <2>1
<1>5. \A s \in SUBSET T : s # {} => f[Pick(s)] = AskedOf(Pick(s), v.id)
  BY <1>4, PickIn
<1>6. \E h : h = [s \in SUBSET T |->
                    IF s = {} THEN 0
                    ELSE LET x == CHOOSE x \in s : TRUE IN AskedOf(x, v.id) + h[s \ {x}]]
  <2>1. \E h : IsSum(h, f, T)
    BY <1>3, <1>4, SumExists
  <2>2. PICK h : h = [s \in SUBSET T |-> IF s = {} THEN 0 ELSE f[Pick(s)] + h[s \ {Pick(s)}]]
    BY <2>1 DEF IsSum
  <2>3. h = [s \in SUBSET T |->
               IF s = {} THEN 0 ELSE AskedOf(Pick(s), v.id) + h[s \ {Pick(s)}]]
    BY <1>5, <2>2
  <2>4. QED
    BY <2>3 DEF Pick
<1>7. PICK h : /\ h = [s \in SUBSET T |->
                         IF s = {} THEN 0
                         ELSE LET x == CHOOSE x \in s : TRUE IN AskedOf(x, v.id) + h[s \ {x}]]
               /\ MapThenSumSet(LAMBDA o : AskedOf(o, v.id),
                                {o \in Orders : reservation[o] = "HELD"}) = h[T]
  <2> DEFINE L == {o \in Orders : reservation[o] = "HELD"}
  <2>1. \E h : h = [s \in SUBSET L |->
                      IF s = {} THEN 0
                      ELSE LET x == CHOOSE x \in s : TRUE IN AskedOf(x, v.id) + h[s \ {x}]]
    BY <1>2, <1>6
  <2>2. \E h : /\ h = [s \in SUBSET L |->
                         IF s = {} THEN 0
                         ELSE LET x == CHOOSE x \in s : TRUE IN AskedOf(x, v.id) + h[s \ {x}]]
               /\ MapThenSumSet(LAMBDA o : AskedOf(o, v.id),
                                {o \in Orders : reservation[o] = "HELD"}) = h[L]
    BY <2>1 DEF MapThenSumSet, MapThenFoldSet
  <2>3. QED
    BY <1>2, <2>2
<1>8. IsSum(h, f, T)
  <2>1. h = [s \in SUBSET T |->
               IF s = {} THEN 0 ELSE AskedOf(Pick(s), v.id) + h[s \ {Pick(s)}]]
    BY <1>7 DEF Pick
  <2>2. h = [s \in SUBSET T |-> IF s = {} THEN 0 ELSE f[Pick(s)] + h[s \ {Pick(s)}]]
    BY <1>5, <2>1
  <2>3. QED
    BY <2>2 DEF IsSum
<1>9. PICK g : IsSum(g, f, T) /\ SumOf(f, T) = g[T]
  BY <1>3, <1>4, SumIs
<1>10. h[T] = g[T]
  <2>1. T \in SUBSET (T \cap T)
    OBVIOUS
  <2>2. QED
    BY <1>3, <1>8, <1>9, <2>1, SumsAgree
<1>11. QED
  BY <1>1, <1>2, <1>7, <1>9, <1>10 DEF HeldOrders

(* What a step can do to the rows: nothing, or a commit of Kitchen's.       *)
LEMMA RowsMove ==
    ASSUME ReservingInv, MessagingTypeOK, RowsTyped', [Next]_vars
    PROVE  /\ Consumed \subseteq Consumed'
           /\ \/ UNCHANGED rowVars
              \/ \E m \in sent \ inbox :
                    /\ m.order \in Orders /\ reservation[m.order] = "NONE"
                    /\ available' = [d \in Drops |-> available[d] - AskedOf(m.order, d)]
                    /\ reservation' = [reservation EXCEPT ![m.order] = "HELD"]
              \/ \E m \in sent \ inbox :
                    /\ m.kind = "command" /\ m.step = "ReleasePortions"
                    /\ m.order \in Orders /\ reservation[m.order] # "NONE"
                    /\ m \in Consumed'
                    /\ available' = [d \in Drops |-> available[d] + AskedOf(m.order, d)]
                    /\ reservation' = [reservation EXCEPT ![m.order] = "RELEASED"]
<1>1. AtomicNext \/ UNCHANGED Seen
  BY StepIsSeen
<1>2. CASE UNCHANGED Seen \/ Forgets
  BY <1>2 DEF Seen, Forgets
<1>3. ASSUME NEW m, m \in sent, Atomic!Consume(m, {}) \/ \E r : Atomic!Consume(m, {r})
      PROVE  m \notin inbox /\ inbox' = inbox \cup {m} /\ Consumed \subseteq Consumed'
  BY <1>3 DEF Atomic!Consume, Atomic!Pending, Consumed
<1>4. ASSUME NEW o \in Orders, Atomic!KitchenHandles(o), ~UNCHANGED Seen, ~Forgets
      PROVE  /\ Consumed \subseteq Consumed'
             /\ \/ UNCHANGED rowVars
                \/ \E m \in sent \ inbox :
                      /\ m.order \in Orders /\ reservation[m.order] = "NONE"
                      /\ available' = [d \in Drops |-> available[d] - AskedOf(m.order, d)]
                      /\ reservation' = [reservation EXCEPT ![m.order] = "HELD"]
                \/ \E m \in sent \ inbox :
                      /\ m.kind = "command" /\ m.step = "ReleasePortions"
                      /\ m.order \in Orders /\ reservation[m.order] # "NONE"
                      /\ m \in Consumed'
                      /\ available' = [d \in Drops |-> available[d] + AskedOf(m.order, d)]
                      /\ reservation' = [reservation EXCEPT ![m.order] = "RELEASED"]
  <2>1. PICK m \in Atomic!SentFor(o) :
           \/ Atomic!ReservePortions(m) \/ Atomic!ComesUpShort(m) \/ Atomic!SoldOut(m)
           \/ Atomic!AcceptOrder(m) \/ Atomic!BeginRelease(m)
           \/ Atomic!NothingToRelease(m) \/ Atomic!CommitRelease(m)
    BY <1>4 DEF Atomic!KitchenHandles
  <2>2. m \in sent /\ m.order = o
    BY DEF Atomic!SentFor
  <2>3. \A d \in Drops : Portions[o][d] = AskedOf(o, d)
    BY DEF Portions
  <2>4. CASE Atomic!ReservePortions(m)
    <3>1. /\ reservation[o] = "NONE"
          /\ available' = [d \in Drops |-> available[d] - AskedOf(o, d)]
          /\ reservation' = [reservation EXCEPT ![o] = "HELD"]
          /\ \E r : Atomic!Consume(m, {r})
      BY <2>2, <2>3, <2>4 DEF Atomic!ReservePortions
    <3>2. QED
      BY <1>3, <2>2, <3>1
  <2>5. CASE Atomic!ComesUpShort(m) \/ Atomic!BeginRelease(m)
    BY <2>5 DEF Atomic!ComesUpShort, Atomic!BeginRelease, Atomic!msgVars, rowVars, Consumed,
       IsForKitchen
  <2>6. CASE Atomic!SoldOut(m)
    <3>1. UNCHANGED rowVars /\ \E r : Atomic!Consume(m, {r})
      BY <2>6 DEF Atomic!SoldOut, rowVars
    <3>2. QED
      BY <1>3, <2>2, <3>1
  <2>7. CASE Atomic!AcceptOrder(m)
    <3>1. reservation'[o] = "CONFIRMED"
      BY <2>2, <2>7 DEF Atomic!AcceptOrder, ReservingInv, RowsTyped
    <3>2. QED
      BY <3>1 DEF RowsTyped
  <2>8. CASE Atomic!NothingToRelease(m)
    <3>1. UNCHANGED rowVars /\ Atomic!Consume(m, {})
      BY <2>8 DEF Atomic!NothingToRelease, rowVars
    <3>2. QED
      BY <1>3, <2>2, <3>1
  <2>9. CASE Atomic!CommitRelease(m)
    <3>1. /\ m \in Releasing /\ Atomic!Consume(m, {})
          /\ available' = [d \in Drops |-> available[d] + AskedOf(o, d)]
          /\ reservation' = [reservation EXCEPT ![o] = "RELEASED"]
      BY <2>2, <2>3, <2>9 DEF Atomic!CommitRelease, Atomic!Restore
    <3>2. PICK h \in Handlers :
             work[h].at = "open" /\ work[h].msg.step = "ReleasePortions" /\ work[h].msg = m
      BY <3>1, HandledIs DEF Releasing
    <3>3. m.kind = "command" /\ m.step = "ReleasePortions" /\ reservation[o] # "NONE"
      BY <2>2, <3>2 DEF ReservingInv, WorkKept, OpenWork
    <3>4. m \in Consumed'
      BY <1>3, <2>2, <3>1, <3>3 DEF Consumed, IsForKitchen
    <3>5. QED
      BY <1>3, <2>2, <3>1, <3>3, <3>4
  <2>10. QED
    BY <2>1, <2>4, <2>5, <2>6, <2>7, <2>8, <2>9
<1>5. QED
  BY <1>1, <1>2, <1>4 DEF AtomicNext

(* What the shelf's sum makes of it: a reservation is added, or released    *)
(* once, since a second release would need a second cancellation.           *)
LEMMA AddsUpKept ==
    ASSUME ReservingInv, MessagingTypeOK, OrchestratorTypeOK, ShelfInv, RowsTyped',
           [Next]_vars,
           (\A o \in Orders : cancels'[o] <= 1) => \A o \in Orders : cancels[o] <= 1
    PROVE  ReleaseConsumed' /\ AddsUp'
<1>1. /\ reservation \in [Orders -> {"NONE", "HELD", "RELEASED"}]
      /\ available \in [Drops -> Nat]
  BY DEF ReservingInv, RowsTyped
<1>2. /\ Consumed \subseteq Consumed'
      /\ \/ UNCHANGED rowVars
         \/ \E m \in sent \ inbox :
               /\ m.order \in Orders /\ reservation[m.order] = "NONE"
               /\ available' = [d \in Drops |-> available[d] - AskedOf(m.order, d)]
               /\ reservation' = [reservation EXCEPT ![m.order] = "HELD"]
         \/ \E m \in sent \ inbox :
               /\ m.kind = "command" /\ m.step = "ReleasePortions"
               /\ m.order \in Orders /\ reservation[m.order] # "NONE"
               /\ m \in Consumed'
               /\ available' = [d \in Drops |-> available[d] + AskedOf(m.order, d)]
               /\ reservation' = [reservation EXCEPT ![m.order] = "RELEASED"]
  BY RowsMove
<1>3. ReleaseConsumed'
  <2>1. ASSUME NEW o \in Orders, reservation'[o] = "RELEASED"
        PROVE  \E m \in Consumed' : m.step = "ReleasePortions" /\ m.order = o
    <3>1. CASE reservation[o] = "RELEASED"
      BY <1>2, <3>1 DEF ShelfInv, ReleaseConsumed
    <3>2. CASE reservation[o] # "RELEASED"
      BY <1>1, <1>2, <2>1, <3>2 DEF rowVars
    <3>3. QED
      BY <3>1, <3>2
  <2>2. QED
    BY <2>1 DEF ReleaseConsumed
<1>4. PICK T \in SUBSET Orders : T = HeldOrders
  BY DEF HeldOrders
<1>5. PICK U \in SUBSET Orders : U = {o \in Orders : reservation'[o] = "HELD"}
  OBVIOUS
<1>6. ASSUME \A o \in Orders : cancels'[o] <= 1, NEW d \in Drops
      PROVE  Total[d] = available'[d] + SumOf(OrderAsks(d), U)
  <2>1. Total[d] = available[d] + SumOf(OrderAsks(d), T)
    BY <1>4, <1>6 DEF ShelfInv, AddsUp
  <2>2. \A o \in Orders : cancels[o] <= 1
    BY <1>6
  <2>3. CASE UNCHANGED rowVars
    <3>1. U = T
      BY <1>4, <1>5, <2>3 DEF HeldOrders, rowVars
    <3>2. QED
      BY <2>1, <2>3, <3>1 DEF rowVars
  <2>4. ASSUME NEW m \in sent \ inbox, m.order \in Orders, reservation[m.order] = "NONE",
               available' = [e \in Drops |-> available[e] - AskedOf(m.order, e)],
               reservation' = [reservation EXCEPT ![m.order] = "HELD"]
        PROVE  Total[d] = available'[d] + SumOf(OrderAsks(d), U)
    <3>1. PICK o \in Orders : o = m.order
      BY <2>4
    <3>2. o \notin T /\ U = T \cup {o}
      BY <1>1, <1>4, <1>5, <2>4, <3>1 DEF HeldOrders
    <3>3. /\ SumOf(OrderAsks(d), T \cup {o}) = AskedOf(o, d) + SumOf(OrderAsks(d), T)
          /\ SumOf(OrderAsks(d), T) \in Nat
      BY <3>2, HeldMoves
    <3>4. AskedOf(o, d) \in Nat /\ available'[d] = available[d] - AskedOf(o, d)
      BY <2>4, <3>1, AskedType
    <3>5. available[d] \in Nat
      BY <1>1
    <3>6. QED
      BY <2>1, <3>2, <3>3, <3>4, <3>5
  <2>5. ASSUME NEW m \in sent \ inbox, m.kind = "command", m.step = "ReleasePortions",
               m.order \in Orders, reservation[m.order] # "NONE",
               available' = [e \in Drops |-> available[e] + AskedOf(m.order, e)],
               reservation' = [reservation EXCEPT ![m.order] = "RELEASED"]
        PROVE  Total[d] = available'[d] + SumOf(OrderAsks(d), U)
    <3>1. PICK o \in Orders : o = m.order
      BY <2>5
    <3>2. reservation[o] # "RELEASED"
      <4>1. SUFFICES ASSUME reservation[o] = "RELEASED" PROVE FALSE
        OBVIOUS
      <4>2. PICK n \in Consumed : n.step = "ReleasePortions" /\ n.order = o
        BY <4>1 DEF ShelfInv, ReleaseConsumed
      <4>3. n \in inbox /\ n \in sent /\ n.kind = "command"
        BY DEF Consumed, IsForKitchen, MessagingTypeOK
      <4>4. m.from \in 1..cancels[o] /\ n.from \in 1..cancels[o]
        BY <2>5, <3>1, <4>2, <4>3 DEF ShelfInv, ReleasesAsked
      <4>5. m.from = 1 /\ n.from = 1
        <5>1. PICK k \in Nat : k = cancels[o] /\ k <= 1
          BY <2>2 DEF OrchestratorTypeOK
        <5>2. m.from \in 1..k /\ n.from \in 1..k
          BY <4>4, <5>1
        <5>3. QED
          BY <5>1, <5>2
      <4>6. m \in Messages /\ n \in Messages
        BY <4>3 DEF MessagingTypeOK
      <4>7. /\ m = [kind |-> m.kind, step |-> m.step, order |-> m.order, from |-> m.from]
            /\ n = [kind |-> n.kind, step |-> n.step, order |-> n.order, from |-> n.from]
        BY <4>6 DEF Messages
      <4>8. m = n
        BY <2>5, <3>1, <4>2, <4>3, <4>5, <4>7
      <4>9. QED
        BY <4>3, <4>8
    <3>3. o \in T /\ U = T \ {o}
      BY <1>1, <1>4, <1>5, <2>5, <3>1, <3>2 DEF HeldOrders
    <3>4. SumOf(OrderAsks(d), T) = AskedOf(o, d) + SumOf(OrderAsks(d), T \ {o})
      BY <3>3, HeldMoves
    <3>5. SumOf(OrderAsks(d), T \ {o}) \in Nat
      <4>1. PICK V \in SUBSET Orders : V = T \ {o}
        OBVIOUS
      <4>2. SumOf(OrderAsks(d), V) \in Nat
        BY HeldMoves
      <4>3. QED
        BY <4>1, <4>2
    <3>6. AskedOf(o, d) \in Nat /\ available'[d] = available[d] + AskedOf(o, d)
      BY <2>5, <3>1, AskedType
    <3>7. available[d] \in Nat
      BY <1>1
    <3>8. QED
      BY <2>1, <3>3, <3>4, <3>5, <3>6, <3>7
  <2>6. QED
    BY <1>2, <2>3, <2>4, <2>5
<1>7. AddsUp'
  <2>1. HeldOrders' = U
    BY <1>5 DEF HeldOrders
  <2>2. ASSUME \A o \in Orders : cancels'[o] <= 1, NEW d \in Drops
        PROVE  (Total[d] = available[d] + SumOf(OrderAsks(d), HeldOrders))'
    BY <1>6, <2>1, <2>2
  <2>3. QED
    BY <2>2 DEF AddsUp
<1>8. QED
  BY <1>3, <1>7

(* Cancel requests are counted, and stay below their count.                 *)
LEMMA AskedStep ==
    ASSUME OrchestratorTypeOK, MessagingTypeOK, ReleasesAsked,
           \A o \in Orders : cancels'[o] \in Nat /\ cancels[o] <= cancels'[o],
           sent \subseteq sent',
           \A t \in otx' :
              \/ \E u \in otx : t.msg = u.msg
              \/ IF t.msg.kind = "request"
                 THEN t.msg.from \in 1..cancels'[t.msg.order]
                 ELSE t.msg \in sent /\ t.msg.kind # "command",
           \A r \in sent' \ sent : r.kind = "command" /\ r.step = "ReleasePortions" =>
              r.from \in 1..cancels'[r.order]
    PROVE  /\ ReleasesAsked'
           /\ (\A o \in Orders : cancels'[o] <= 1) => \A o \in Orders : cancels[o] <= 1
<1>1. \A o \in Orders : cancels[o] \in Nat
  BY DEF OrchestratorTypeOK
<1>2. \A o \in Orders : \A k \in 1..cancels[o] : k \in 1..cancels'[o]
  BY <1>1
<1>3. /\ \A m \in sent : m.order \in Orders
      /\ \A t \in otx : t.msg.kind = "request" => t.msg.order \in Orders
  BY DEF MessagingTypeOK, Messages, OrchestratorTypeOK, OrderTransactions, CancelRequests
<1>4. ASSUME NEW t \in otx'
      PROVE  IF t.msg.kind = "request"
             THEN t.msg.from \in 1..cancels'[t.msg.order]
             ELSE t.msg \in sent' /\ t.msg.kind # "command"
  <2>1. CASE \E u \in otx : t.msg = u.msg
    BY <1>2, <1>3, <2>1 DEF ReleasesAsked
  <2>2. QED
    BY <2>1
<1>5. ASSUME NEW m \in sent', m.kind = "command", m.step = "ReleasePortions"
      PROVE  m.from \in 1..cancels'[m.order]
  BY <1>2, <1>3, <1>5 DEF ReleasesAsked
<1>6. \A o \in Orders : cancels'[o] <= 1 => cancels[o] <= 1
  BY <1>1
<1>7. QED
  BY <1>4, <1>5, <1>6 DEF ReleasesAsked

(* A step that starts no transaction of the order service and sends only    *)
(* replies.                                                                 *)
LEMMA RepliesOnly ==
    ASSUME OrchestratorTypeOK, MessagingTypeOK, ReleasesAsked, UNCHANGED << cancels, otx >>,
           sent \subseteq sent',
           \A r \in sent' \ sent : r.kind # "command" \/ r.step # "ReleasePortions"
    PROVE  /\ ReleasesAsked'
           /\ (\A o \in Orders : cancels'[o] <= 1) => \A o \in Orders : cancels[o] <= 1
<1>1. \A o \in Orders : cancels'[o] \in Nat /\ cancels[o] <= cancels'[o]
  BY DEF OrchestratorTypeOK
<1>2. QED
  BY <1>1, AskedStep

LEMMA KitchenAsksNothing ==
    ASSUME OrchestratorTypeOK, MessagingTypeOK, ReservingInv, ReleasesAsked,
           UNCHANGED orchestratorVars, KitchenWorks \/ KitchenFails
    PROVE  /\ ReleasesAsked'
           /\ (\A o \in Orders : cancels'[o] <= 1) => \A o \in Orders : cancels[o] <= 1
<1>1. UNCHANGED << cancels, otx >>
  BY DEF orchestratorVars
<1>2. ASSUME UNCHANGED msgVars
      PROVE  sent \subseteq sent' /\ \A r \in sent' \ sent : r.kind # "command"
  BY <1>2 DEF msgVars
<1>3. ASSUME NEW m, NEW status, status # "command", Consume(m, {Reply(m, status)})
      PROVE  sent \subseteq sent' /\ \A r \in sent' \ sent : r.kind # "command"
  <2>1. m \in Messages
    BY <1>3 DEF Consume, Pending, MessagingTypeOK
  <2>2. Reply(m, status).kind = status
    BY <2>1 DEF Reply, Messages
  <2>3. QED
    BY <1>3, <2>2 DEF Consume
<1>4. ASSUME NEW m, Consume(m, {})
      PROVE  sent \subseteq sent' /\ \A r \in sent' \ sent : r.kind # "command"
  BY <1>4 DEF Consume
<1>5. ASSUME NEW h \in Handlers, Handle(h)
      PROVE  sent \subseteq sent' /\ \A r \in sent' \ sent : r.kind # "command"
  <2>1. CASE CommitReserve(h) \/ AnswerSoldOut(h)
    BY <1>3, <2>1 DEF CommitReserve, AnswerSoldOut
  <2>2. CASE CommitRelease(h)
    BY <1>4, <2>2 DEF CommitRelease
  <2>3. CASE ~(CommitReserve(h) \/ AnswerSoldOut(h) \/ CommitRelease(h))
    BY <1>2, <1>5, <2>3 DEF Handle, Deliver, TakeLine, ShortLine, RestoreLine, LoseRace,
       RestoreTooMuch, Throw
  <2>4. QED
    BY <2>1, <2>2, <2>3
<1>6. CASE KitchenWorks
  <2>1. sent \subseteq sent' /\ \A r \in sent' \ sent : r.kind # "command"
    BY <1>2, <1>4, <1>5, <1>6 DEF KitchenWorks, Abort, NothingToRelease
  <2>2. QED
    BY <1>1, <2>1, RepliesOnly
<1>7. CASE KitchenFails
  <2>1. UNCHANGED msgVars
    BY <1>7 DEF KitchenFails, Reconnect, Fail, Throw
  <2>2. QED
    BY <1>1, <1>2, <2>1, RepliesOnly
<1>8. QED
  BY <1>6, <1>7

(* What the order service sends for a message asks for no release: in this  *)
(* system it is answered for reservations only.                             *)
LEMMA RepliesAskNothing ==
    ASSUME OrchestratorTypeOK, MessagingTypeOK, ReservingInv, ReleasesAsked,
           NEW o \in Orders, OrchestratorHandles(o)
    PROVE  /\ ReleasesAsked'
           /\ (\A p \in Orders : cancels'[p] <= 1) => \A p \in Orders : cancels[p] <= 1
<1>1. \A p \in Orders : cancels[p] \in Nat
  BY DEF OrchestratorTypeOK
<1>2. CASE \E m \in SentFor(o) : Receive(m)
  <2>1. PICK m \in sent : Receive(m)
    BY <1>2 DEF SentFor
  <2>2. m.kind # "command" /\ m.kind # "request"
    BY <2>1 DEF Receive, MessagingTypeOK, Messages
  <2>3. /\ otx' = otx \cup {[ msg |-> m, status |-> order[m.order],
                              acquired |-> saga[m.order].acquired ]}
        /\ sent' = sent /\ cancels' = cancels
    BY <2>1 DEF Receive, Begin
  <2>4. \A t \in otx' : t \in otx \/ t.msg = m
    BY <2>3
  <2>5. \A t \in otx' :
           \/ \E u \in otx : t.msg = u.msg
           \/ IF t.msg.kind = "request"
              THEN t.msg.from \in 1..cancels'[t.msg.order]
              ELSE t.msg \in sent /\ t.msg.kind # "command"
    BY <2>2, <2>4
  <2>6. QED
    BY <1>1, <2>3, <2>5, AskedStep
<1>3. CASE \E t \in otx : t.msg.order = o /\ CommitReply(t)
  <2>1. PICK t \in otx : CommitReply(t)
    BY <1>3
  <2>2. t.msg.kind = "failed" => t.msg.step = "ReservePortions"
    BY DEF ReleasesAsked, ReservingInv, ReservedOnce
  <2>3. PICK out : CommitMessage(t, out) /\ \A r \in out : r.step # "ReleasePortions"
    <3>1. CASE CommitMessage(t, {})
      <4>1. PICK out : out = {}
        OBVIOUS
      <4>2. QED
        BY <3>1, <4>1
    <3>2. ASSUME NEW step \in {"AuthorizePayment", "AcceptOrder", "AssignCourier", "CapturePayment"},
                 CommitMessage(t, Sends(t, step))
          PROVE  \E out : CommitMessage(t, out) /\ \A r \in out : r.step # "ReleasePortions"
      BY <3>2 DEF Sends, Command
    <3>3. \/ CommitMessage(t, {})
          \/ \E step \in {"AuthorizePayment", "AcceptOrder", "AssignCourier", "CapturePayment"} :
                CommitMessage(t, Sends(t, step))
      BY <2>1, <2>2 DEF CommitReply, PortionsReserved, PaymentAuthorized, OrderAccepted,
            CourierAssigned, PaymentCaptured, Reject, Compensate, IgnoreReply,
            OnDelivered, IgnoreDelivered
    <3>4. QED
      BY <3>1, <3>2, <3>3
  <2>4. /\ otx' \subseteq otx /\ sent' = sent \cup out /\ cancels' = cancels
    BY <2>3 DEF CommitMessage, Consume
  <2>5. \A u \in otx' : \E v \in otx : u.msg = v.msg
    BY <2>4
  <2>6. QED
    BY <1>1, <2>3, <2>4, <2>5, AskedStep
<1>4. QED
  BY <1>2, <1>3 DEF OrchestratorHandles

(* A cancellation asks for the release of its own order.                    *)
LEMMA CancelAsks ==
    ASSUME OrchestratorTypeOK, MessagingTypeOK, ReleasesAsked, NEW t, CommitCancel(t)
    PROVE  /\ ReleasesAsked'
           /\ (\A p \in Orders : cancels'[p] <= 1) => \A p \in Orders : cancels[p] <= 1
<1>1. \A p \in Orders : cancels[p] \in Nat
  BY DEF OrchestratorTypeOK
<1>2. /\ t \in otx /\ t.msg.kind = "request" /\ otx' \subseteq otx /\ cancels' = cancels
      /\ sent' = sent \cup Undo(t, {"payment", "reservation"})
  BY DEF CommitCancel
<1>3. t.msg.from \in 1..cancels[t.msg.order]
  BY <1>2 DEF ReleasesAsked
<1>4. \A r \in Undo(t, {"payment", "reservation"}) :
         r.from = t.msg.from /\ r.order = t.msg.order
  BY DEF Undo, Command
<1>5. \A r \in sent' \ sent : r.from \in 1..cancels'[r.order]
  BY <1>2, <1>3, <1>4
<1>6. \A u \in otx' : \E v \in otx : u.msg = v.msg
  BY <1>2
<1>7. QED
  BY <1>1, <1>2, <1>5, <1>6, AskedStep

(* A request that is let in is counted.                                     *)
LEMMA BeginAsks ==
    ASSUME OrchestratorTypeOK, MessagingTypeOK, ReleasesAsked,
           NEW o \in Orders, RequestCancel(o)
    PROVE  /\ ReleasesAsked'
           /\ (\A p \in Orders : cancels'[p] <= 1) => \A p \in Orders : cancels[p] <= 1
<1>1. cancels \in [Orders -> Nat]
  BY DEF OrchestratorTypeOK
<1>2. PICK k \in Nat : k = cancels[o]
  BY <1>1
<1>3. cancels' = [cancels EXCEPT ![o] = k + 1]
  BY <1>2 DEF RequestCancel
<1>4. /\ cancels'[o] = k + 1
      /\ \A p \in Orders : cancels'[p] \in Nat /\ cancels[p] <= cancels'[p]
  BY <1>1, <1>2, <1>3
<1>5. PICK m : m = CancelRequest(o, k + 1)
  OBVIOUS
<1>6. m.kind = "request" /\ m.order = o /\ m.from = k + 1
  BY <1>5 DEF CancelRequest
<1>7. sent' = sent /\ \A t \in otx' : t \in otx \/ t.msg = m
  BY <1>2, <1>5 DEF RequestCancel, Begin
<1>8. m.from \in 1..cancels'[m.order]
  BY <1>4, <1>6
<1>9. \A t \in otx' :
         \/ \E u \in otx : t.msg = u.msg
         \/ IF t.msg.kind = "request"
            THEN t.msg.from \in 1..cancels'[t.msg.order]
            ELSE t.msg \in sent /\ t.msg.kind # "command"
  BY <1>6, <1>7, <1>8
<1>10. QED
  BY <1>4, <1>7, <1>9, AskedStep

LEMMA AskedKept ==
    ASSUME OrchestratorTypeOK, MessagingTypeOK, ReservingInv, ReleasesAsked, [Next]_vars
    PROVE  /\ ReleasesAsked'
           /\ (\A p \in Orders : cancels'[p] <= 1) => \A p \in Orders : cancels[p] <= 1
<1>1. ASSUME UNCHANGED << sent, cancels, otx >>
      PROVE  /\ ReleasesAsked'
             /\ (\A p \in Orders : cancels'[p] <= 1) => \A p \in Orders : cancels[p] <= 1
  BY <1>1, RepliesOnly
<1>2. CASE UNCHANGED vars
  BY <1>1, <1>2 DEF vars, msgVars, orchestratorVars
<1>3. CASE Asking
  <2>1. ASSUME NEW c \in CancelCalls, NEW r \in Calls[c], BeginCancel(c, r)
        PROVE  r.order \in Orders /\ RequestCancel(r.order)
    BY <2>1, CallType DEF BeginCancel
  <2>2. \/ UNCHANGED << sent, cancels, otx >>
        \/ \E o \in Orders : RequestCancel(o)
    BY <1>3, <2>1 DEF Asking, CustomersAsk, Post, CancelUnsigned, CancelNotFound,
       CancelTooLate, CancelAgain, Ask, Refused, msgVars, orchestratorVars
  <2>3. QED
    BY <1>1, <2>2, BeginAsks
<1>4. CASE Relaying
  <2>1. ASSUME NEW o \in Orders, Place(o)
        PROVE  /\ ReleasesAsked'
               /\ (\A p \in Orders : cancels'[p] <= 1) => \A p \in Orders : cancels[p] <= 1
    <3>1. UNCHANGED << cancels, otx >> /\ sent' = sent \cup {Command("ReservePortions", o, 0)}
      BY <2>1 DEF Place, PlaceOrder
    <3>2. sent \subseteq sent' /\ \A r \in sent' \ sent : r.step # "ReleasePortions"
      BY <3>1 DEF Command
    <3>3. QED
      BY <3>1, <3>2, RepliesOnly
  <2>2. \/ UNCHANGED << sent, cancels, otx >>
        \/ \E o \in Orders : Place(o)
        \/ \E t \in otx : CommitCancel(t)
    BY <1>4 DEF Relaying, GatewayWorks, GetDrops, NoSuchDrop, TotalTooLarge, AnswerPlaced,
       AnswerCancel, FinishCancel, TransactionOf, msgVars, orchestratorVars
  <2>3. QED
    BY <1>1, <2>1, <2>2, CancelAsks
<1>5. ASSUME NEW o \in Orders, Orchestrating(o)
      PROVE  /\ ReleasesAsked'
             /\ (\A p \in Orders : cancels'[p] <= 1) => \A p \in Orders : cancels[p] <= 1
  BY <1>5, RepliesAskNothing DEF Orchestrating
<1>6. CASE ReadingLate
  <2>1. PICK t \in otx : ReadSaga(t)
    BY <1>6 DEF ReadingLate
  <2>2. [t EXCEPT !.acquired = saga[t.msg.order].acquired].msg = t.msg
    BY DEF OrchestratorTypeOK, OrderTransactions
  <2>3. sent' = sent /\ cancels' = cancels /\ \A u \in otx' : \E v \in otx : u.msg = v.msg
    BY <2>1, <2>2 DEF ReadSaga
  <2>4. \A p \in Orders : cancels[p] \in Nat
    BY DEF OrchestratorTypeOK
  <2>5. QED
    BY <2>3, <2>4, AskedStep
<1>7. CASE Cooking
  BY <1>7, KitchenAsksNothing DEF Cooking
<1>8. CASE Trouble
  <2>1. CASE KitchenFails /\ UNCHANGED orchestratorVars
    BY <2>1, KitchenAsksNothing
  <2>2. ASSUME NEW q \in Requests, LoseCall(q)
        PROVE  /\ ReleasesAsked'
               /\ (\A p \in Orders : cancels'[p] <= 1) => \A p \in Orders : cancels[p] <= 1
    <3>1. sent' = sent /\ cancels' = cancels /\ otx' \subseteq otx
      BY <2>2 DEF LoseCall, msgVars
    <3>2. \A u \in otx' : \E v \in otx : u.msg = v.msg
      BY <3>1
    <3>3. \A p \in Orders : cancels[p] \in Nat
      BY DEF OrchestratorTypeOK
    <3>4. QED
      BY <3>1, <3>2, <3>3, AskedStep
  <2>3. QED
    BY <1>8, <2>1, <2>2 DEF Trouble
<1>9. QED
  BY <1>2, <1>3, <1>4, <1>5, <1>6, <1>7, <1>8 DEF Next

(* Whatever the transactions of the kitchen do to each other: while no      *)
(* order is cancelled twice, what a customer sees on sale is the batch but  *)
(* for the portions that are held.                                          *)
THEOREM ShelfStaysExact == Spec => []ShelfIsExact
<1>1. Init => ShelfInv
  <2> SUFFICES ASSUME Init PROVE ShelfInv
    OBVIOUS
  <2>1. sent = {} /\ otx = {} /\ ReservingInit
    BY DEF Init, MessagingInit, OrchestratorInit
  <2>2. ReleasesAsked /\ ReleaseConsumed
    BY <2>1 DEF ReleasesAsked, ReleaseConsumed, ReservingInit
  <2>3. HeldOrders = {} /\ available = Total
    BY <2>1 DEF HeldOrders, ReservingInit
  <2>4. \A d \in Drops : SumOf(OrderAsks(d), {}) = 0 /\ Total[d] \in Nat
    BY SumEmpty, ReservingAssumption
  <2>5. AddsUp
    BY <2>3, <2>4 DEF AddsUp
  <2>6. QED
    BY <2>2, <2>5 DEF ShelfInv
<1>2. /\ MessagingTypeOK /\ OrchestratorTypeOK /\ ReservingInv /\ ReservingInv' /\ ShelfInv
      /\ [Next]_vars
      => ShelfInv'
  <2> SUFFICES ASSUME MessagingTypeOK, OrchestratorTypeOK, ReservingInv, ReservingInv',
                      ShelfInv, [Next]_vars
               PROVE  ShelfInv'
    OBVIOUS
  <2>1. ReleasesAsked /\ RowsTyped'
    BY DEF ShelfInv, ReservingInv
  <2>2. /\ ReleasesAsked'
        /\ (\A o \in Orders : cancels'[o] <= 1) => \A o \in Orders : cancels[o] <= 1
    BY <2>1, AskedKept
  <2>3. ReleaseConsumed' /\ AddsUp'
    BY <2>1, <2>2, AddsUpKept
  <2>4. QED
    BY <2>2, <2>3 DEF ShelfInv
<1>3. PlacingInv => MessagingTypeOK /\ OrchestratorTypeOK
  BY DEF PlacingInv
<1>4. ShelfInv => ShelfIsExact
  <2> SUFFICES ASSUME ShelfInv, \A o \in Orders : cancels[o] <= 1, NEW v \in Shelf
               PROVE  v.totalPortions = v.available +
                         MapThenSumSet(LAMBDA o : AskedOf(o, v.id),
                                       {o \in Orders : reservation[o] = "HELD"})
    BY DEF ShelfIsExact
  <2>1. v.id \in Drops /\ v.totalPortions = Total[v.id] /\ v.available = available[v.id]
    BY DEF Shelf, DropView
  <2>2. Total[v.id] = available[v.id] + SumOf(OrderAsks(v.id), HeldOrders)
    BY <2>1 DEF ShelfInv, AddsUp
  <2>3. MapThenSumSet(LAMBDA o : AskedOf(o, v.id), {o \in Orders : reservation[o] = "HELD"})
           = SumOf(OrderAsks(v.id), HeldOrders)
    BY <2>1, HeldOnShelf
  <2>4. QED
    BY <2>1, <2>2, <2>3
<1>5. QED
  BY <1>1, <1>2, <1>3, <1>4, PlacingInvHolds, ReservingInvHolds, PTL DEF Spec
(***************************************************************************)
(* No placed order stalls.                                                 *)
(***************************************************************************)

(* The kitchen's handlers answer the reservations they consume.             *)
LEMMA KitchenPursues ==
    ASSUME MessagingTypeOK, ReservingInv, PursuitInv, UNCHANGED << order, otx >>,
           KitchenWorks \/ KitchenFails
    PROVE  PursuitInv'
<1>1. ASSUME UNCHANGED msgVars PROVE PursuitInv'
  BY <1>1, StillPursued DEF msgVars
<1>2. ASSUME NEW m, m.kind = "command", m.step = "ReleasePortions", Consume(m, {})
      PROVE  PursuitInv'
  <2>1. sent' = sent /\ inbox' = inbox \cup {m}
    BY <1>2 DEF Consume
  <2>2. QED
    BY <1>2, <2>1, AsidePursues DEF Compensations
<1>3. ASSUME NEW h \in Handlers, Handle(h)
      PROVE  PursuitInv'
  <2>1. work[h].at # "idle" => work[h].msg.kind = "command"
    BY DEF ReservingInv, WorkKept, OpenWork, ShortWork
  <2>2. CASE CommitReserve(h)
    <3>1. work[h].at = "open" /\ Consume(work[h].msg, {Reply(work[h].msg, "ok")})
      BY <2>2 DEF CommitReserve, IsAt
    <3>2. QED
      BY <2>1, <3>1, AnswerPursues
  <2>3. CASE AnswerSoldOut(h)
    <3>1. work[h].at = "short" /\ Consume(work[h].msg, {Reply(work[h].msg, "failed")})
      BY <2>3 DEF AnswerSoldOut, IsAt
    <3>2. QED
      BY <2>1, <3>1, AnswerPursues
  <2>4. CASE CommitRelease(h)
    <3>1. /\ work[h].at = "open" /\ work[h].msg.step = "ReleasePortions"
          /\ Consume(work[h].msg, {})
      BY <2>4 DEF CommitRelease, IsAt
    <3>2. QED
      BY <1>2, <2>1, <3>1
  <2>5. CASE ~(CommitReserve(h) \/ AnswerSoldOut(h) \/ CommitRelease(h))
    <3>1. UNCHANGED msgVars
      BY <1>3, <2>5 DEF Handle, Deliver, TakeLine, ShortLine, RestoreLine, LoseRace,
         RestoreTooMuch, Throw
    <3>2. QED
      BY <1>1, <3>1
  <2>6. QED
    BY <2>2, <2>3, <2>4, <2>5
<1>4. CASE \E m \in sent : NothingToRelease(m)
  BY <1>2, <1>4 DEF NothingToRelease, Arrives
<1>5. CASE Abort \/ KitchenFails
  BY <1>1, <1>5 DEF Abort, KitchenFails, Reconnect, Fail, Throw
<1>6. QED
  BY <1>3, <1>4, <1>5 DEF KitchenWorks

(* The gateway's calls place and cancel orders, and are lost.               *)
LEMMA GatewayPursues ==
    ASSUME MessagingTypeOK, OrchestratorTypeOK, PursuitInv,
           CustomersAsk \/ GatewayWorks \/ \E q \in Requests : LoseCall(q)
    PROVE  PursuitInv'
<1>1. ASSUME UNCHANGED << msgVars, order >>, otx' \subseteq otx PROVE PursuitInv'
  BY <1>1, StillPursued DEF msgVars
<1>2. CASE CustomersAsk
  <2>1. \/ UNCHANGED << msgVars, order, otx >>
        \/ \E o : RequestCancel(o)
    BY <1>2 DEF CustomersAsk, Post, CancelUnsigned, CancelNotFound, CancelTooLate, CancelAgain,
       BeginCancel, Ask, Refused, orchestratorVars
  <2>2. CASE \E o : RequestCancel(o)
    BY <2>2, RequestPursues
  <2>3. QED
    BY <1>1, <2>1, <2>2
<1>3. CASE GatewayWorks
  <2>1. \/ UNCHANGED << msgVars, order, otx >>
        \/ \E o \in Orders : PlaceOrder(o)
        \/ \E t : CommitCancel(t)
    BY <1>3 DEF GatewayWorks, GetDrops, NoSuchDrop, Place, TotalTooLarge, AnswerPlaced,
       AnswerCancel, FinishCancel, orchestratorVars
  <2>2. CASE \E o \in Orders : PlaceOrder(o)
    BY <2>2, PlacePursues
  <2>3. CASE \E t : CommitCancel(t)
    BY <2>3, CancelPursues
  <2>4. QED
    BY <1>1, <2>1, <2>2, <2>3
<1>4. CASE \E q \in Requests : LoseCall(q)
  BY <1>1, <1>4 DEF LoseCall
<1>5. QED
  BY <1>2, <1>3, <1>4

(* A placed order has its reservation, or the kitchen's answer to it, under *)
(* way, whatever the kitchen's transactions and the customers' calls do to *)
(* each other: the safety half of PlacedIsDecided, for any orders, calls,   *)
(* handlers and faults.                                                     *)
THEOREM PlacedNeverStalls == Spec => []NeverStalls
<1>1. Init => PursuitInv
  BY NothingPursued DEF Init
<1>2. MessagingTypeOK /\ OrchestratorTypeOK /\ ReservingInv /\ PursuitInv /\ [Next]_vars
      => PursuitInv'
  <2> SUFFICES ASSUME MessagingTypeOK, OrchestratorTypeOK, ReservingInv, PursuitInv, [Next]_vars
               PROVE  PursuitInv'
    OBVIOUS
  <2>1. CASE Asking \/ Relaying
    BY <2>1, GatewayPursues DEF Asking, Relaying
  <2>2. CASE \E o \in Orders : Orchestrating(o)
    BY <2>2, HandlingPursues DEF Orchestrating
  <2>3. CASE ReadingLate
    BY <2>3, ReadPursues DEF ReadingLate
  <2>4. CASE Cooking
    BY <2>4, KitchenPursues DEF Cooking, orchestratorVars
  <2>5. CASE Trouble
    <3>1. CASE KitchenFails /\ UNCHANGED orchestratorVars
      BY <3>1, KitchenPursues DEF orchestratorVars
    <3>2. CASE \E q \in Requests : LoseCall(q)
      BY <3>2, GatewayPursues
    <3>3. QED
      BY <2>5, <3>1, <3>2 DEF Trouble
  <2>6. CASE UNCHANGED vars
    BY <2>6, StillPursued DEF vars, msgVars, orchestratorVars
  <2>7. QED
    BY <2>1, <2>2, <2>3, <2>4, <2>5, <2>6 DEF Next
<1>3. PlacingInv => MessagingTypeOK /\ OrchestratorTypeOK
  BY DEF PlacingInv
<1>4. QED
  BY <1>1, <1>2, <1>3, PlacingInvHolds, ReservingInvHolds, PursuitSuffices, PTL DEF Spec
=============================================================================
