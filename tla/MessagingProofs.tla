--------------------------- MODULE MessagingProofs --------------------------
(***************************************************************************)
(* Messaging is a channel that never handles a message twice and never     *)
(* loses one, for every number of messages and handlers, every batch size  *)
(* and any number of faults.                                                *)
(***************************************************************************)
EXTENDS Messaging, FiniteSetTheorems, TLAPS

(* Recording an outcome keeps the table's type and writes m's counter only. *)
LEMMA Recorded ==
    ASSUME outcomes \in [Msgs -> [Outcome -> Nat]], NEW m \in Msgs, NEW s \in Outcome,
           outcomes' = [outcomes EXCEPT ![m][s] = @ + 1]
    PROVE  /\ outcomes' \in [Msgs -> [Outcome -> Nat]]
           /\ outcomes'[m]["ok"] + outcomes'[m]["failed"]
                = outcomes[m]["ok"] + outcomes[m]["failed"] + 1
           /\ \A n \in Msgs \ {m} : outcomes'[n] = outcomes[n]
<1>1. outcomes'[m] = [outcomes[m] EXCEPT ![s] = @ + 1]
  OBVIOUS
<1>2. outcomes'[m] \in [Outcome -> Nat]
  BY <1>1
<1>3. \A n \in Msgs \ {m} : outcomes'[n] = outcomes[n]
  OBVIOUS
<1>4. outcomes'[m]["ok"] + outcomes'[m]["failed"]
        = outcomes[m]["ok"] + outcomes[m]["failed"] + 1
  <2>1. outcomes[m]["ok"] \in Nat /\ outcomes[m]["failed"] \in Nat
    BY DEF Outcome
  <2>2. CASE s = "ok"
    BY <1>1, <2>1, <2>2 DEF Outcome
  <2>3. CASE s = "failed"
    BY <1>1, <2>1, <2>3 DEF Outcome
  <2>q. QED  BY <2>2, <2>3 DEF Outcome
<1>5. outcomes' \in [Msgs -> [Outcome -> Nat]]
  BY <1>1, <1>2
<1>q. QED  BY <1>3, <1>4, <1>5

(* Reconnecting returns to the queue what the handlers had in hand.         *)
LEMMA Requeued ==
    ASSUME TypeOK, Reconnect
    PROVE  /\ queue' \in [Msgs -> Nat]
           /\ \A m \in Msgs : queue'[m] > 0 <=> OnItsWay(m)
<1>1. SUFFICES ASSUME NEW m \in Msgs
               PROVE  queue'[m] \in Nat /\ (queue'[m] > 0 <=> OnItsWay(m))
  BY DEF Reconnect
<1> DEFINE Mine == {h \in Handlers : handler[h].msg = m}
<1>2. IsFiniteSet(Mine)
  BY MessagingAssumption, FS_Subset
<1>3. Cardinality(Mine) \in Nat /\ (Cardinality(Mine) = 0 <=> Mine = {})
  BY <1>2, FS_CardinalityType, FS_EmptySet
<1>4. queue'[m] = queue[m] + Cardinality(Mine) /\ queue[m] \in Nat
  BY DEF Reconnect, TypeOK
<1>5. OnItsWay(m) <=> queue[m] > 0 \/ Mine # {}
  BY DEF OnItsWay
<1> HIDE DEF Mine
<1>q. QED  BY <1>3, <1>4, <1>5
-----------------------------------------------------------------------------
LEMMA InitInv == Init => MessagingInv
<1> SUFFICES ASSUME Init PROVE MessagingInv
  OBVIOUS
<1>1. TypeOK
  BY MessagingAssumption DEF Init, TypeOK, Idle, Outcome
<1>2. UnderWayWasWritten /\ AckedWasHandled
  BY DEF Init, UnderWayWasWritten, AckedWasHandled, At, Idle
<1>3. NotLost /\ PublishedNotLost
  BY DEF Init, NotLost, PublishedNotLost
<1>4. OneOutcome
  <2>1. \A m \in Msgs : outcomes[m]["ok"] = 0 /\ outcomes[m]["failed"] = 0
    BY DEF Init, Outcome
  <2>q. QED  BY <2>1 DEF Init, OneOutcome
<1>q. QED  BY <1>1, <1>2, <1>3, <1>4 DEF MessagingInv

(* The steps of the relay.                                                  *)
LEMMA RelayKeepsInv ==
    ASSUME MessagingInv,
           \/ \E m \in Msgs : Write(m) \/ Publish(m)
           \/ StartTick \/ EndTick \/ PublishFails \/ RelayCrash
    PROVE  MessagingInv'
<1> USE DEF MessagingInv, TypeOK, relayVars, consumerVars
<1>1. ASSUME NEW m \in Msgs, Write(m)
      PROVE  MessagingInv'
  BY <1>1 DEF Write, UnderWayWasWritten, NotLost, PublishedNotLost,
     AckedWasHandled, OneOutcome, Written, OnItsWay, At
<1>2. ASSUME NEW m \in Msgs, Publish(m)
      PROVE  MessagingInv'
  BY <1>2 DEF Publish, UnderWayWasWritten, NotLost, PublishedNotLost,
     AckedWasHandled, OneOutcome, Written, OnItsWay, At
<1>3. CASE StartTick
  BY <1>3 DEF StartTick, Unpublished, UnderWayWasWritten, NotLost,
     PublishedNotLost, AckedWasHandled, OneOutcome, Written, OnItsWay, At
<1>4. CASE EndTick
  <2>1. \A m \in Msgs : OnItsWay(m)' <=> OnItsWay(m)
    BY <1>4 DEF EndTick, OnItsWay
  <2>2. TypeOK' /\ UnderWayWasWritten'
    BY <1>4 DEF EndTick, UnderWayWasWritten, Written
  <2>3. NotLost' /\ PublishedNotLost'
    BY <1>4, <2>1 DEF EndTick, NotLost, PublishedNotLost
  <2>4. AckedWasHandled' /\ OneOutcome'
    BY <1>4 DEF EndTick, AckedWasHandled, OneOutcome, At
  <2>q. QED  BY <2>2, <2>3, <2>4
<1>5. CASE PublishFails
  <2>1. \A m \in Msgs : OnItsWay(m)' <=> OnItsWay(m)
    BY <1>5 DEF PublishFails, OnItsWay
  <2>2. TypeOK'
    BY <1>5 DEF PublishFails, Fault
  <2>3. UnderWayWasWritten' /\ NotLost' /\ PublishedNotLost'
    BY <1>5, <2>1 DEF PublishFails, UnderWayWasWritten, Written, NotLost, PublishedNotLost
  <2>4. AckedWasHandled' /\ OneOutcome'
    BY <1>5 DEF PublishFails, AckedWasHandled, OneOutcome, At
  <2>q. QED  BY <2>2, <2>3, <2>4
<1>6. CASE RelayCrash
  <2>1. \A m \in Msgs : OnItsWay(m)' <=> OnItsWay(m)
    BY <1>6 DEF RelayCrash, OnItsWay
  <2>2. TypeOK'
    <3>1. /\ faults' = faults + 1
          /\ ticking' = FALSE /\ batch' = {} /\ published' = {}
          /\ UNCHANGED << outbox, queue, consumerVars >>
      BY <1>6 DEF RelayCrash, Fault
    <3>2. faults' \in Nat
      BY <3>1
    <3>q. QED  BY <3>1, <3>2
  <2>3. UnderWayWasWritten' /\ NotLost' /\ PublishedNotLost'
    BY <1>6, <2>1 DEF RelayCrash, UnderWayWasWritten, Written, NotLost, PublishedNotLost
  <2>4. AckedWasHandled' /\ OneOutcome'
    BY <1>6 DEF RelayCrash, AckedWasHandled, OneOutcome, At
  <2>q. QED  BY <2>2, <2>3, <2>4
<1>q. QED  BY <1>1, <1>2, <1>3, <1>4, <1>5, <1>6

(* A handler that goes on with its message: the type of its entry.          *)
LEMMA Advanced ==
    ASSUME TypeOK, NEW h \in Handlers, NEW p \in Progress,
           handler[h] # Idle, Advance(h, p)
    PROVE  /\ handler' \in [Handlers -> [msg : Msgs, at : Progress] \cup {Idle}]
           /\ handler[h].msg \in Msgs
           /\ handler'[h].msg = handler[h].msg /\ handler'[h].at = p
           /\ handler'[h] # Idle
           /\ \A k \in Handlers \ {h} : handler'[k] = handler[k]
BY DEF TypeOK, Advance, Idle, Progress

(* A handler that is somewhere in its work has a message.                   *)
LEMMA AtWork ==
    ASSUME TypeOK, NEW h \in Handlers, handler[h].at \in Progress
    PROVE  handler[h] # Idle
BY DEF Idle, Progress

(* A handler's step without a commit: what it holds stays with it.          *)
LEMMA GoingOnKeepsInv ==
    ASSUME MessagingInv, NEW h \in Handlers,
           LookUp(h) \/ Refuse(h) \/ LoseRace(h) \/ Throw(h)
    PROVE  MessagingInv'
<1>1. handler[h].at \in Progress
  BY DEF LookUp, Refuse, LoseRace, Throw, At, Progress
<1>2. handler[h] # Idle
  BY <1>1, AtWork DEF MessagingInv
<1>3. PICK p \in Progress :
         /\ Advance(h, p)
         /\ p = "handled" => handler[h].msg \in inbox
  BY DEF LookUp, Refuse, LoseRace, Throw, Progress
<1>4. /\ UNCHANGED << outbox, relayVars, queue, inbox, outcomes >>
      /\ faults' \in Nat
  BY DEF LookUp, Refuse, LoseRace, Throw, Fault, MessagingInv, TypeOK
<1>5. /\ handler' \in [Handlers -> [msg : Msgs, at : Progress] \cup {Idle}]
      /\ handler'[h].msg = handler[h].msg /\ handler'[h].at = p
      /\ \A k \in Handlers \ {h} : handler'[k] = handler[k]
  BY <1>2, <1>3, Advanced DEF MessagingInv
<1>6. TypeOK'
  BY <1>4, <1>5 DEF MessagingInv, TypeOK, relayVars
<1>7. \A m \in Msgs : OnItsWay(m)' <=> OnItsWay(m)
  BY <1>4, <1>5 DEF OnItsWay
<1>8. AckedWasHandled'
  BY <1>3, <1>4, <1>5 DEF MessagingInv, AckedWasHandled, At
<1>9. UnderWayWasWritten'
  BY <1>2, <1>4, <1>5 DEF MessagingInv, UnderWayWasWritten, Written, relayVars
<1>10. NotLost' /\ PublishedNotLost'
  BY <1>4, <1>7 DEF MessagingInv, TypeOK, NotLost, PublishedNotLost, relayVars
<1>11. OneOutcome'
  BY <1>4 DEF MessagingInv, OneOutcome
<1>q. QED  BY <1>6, <1>8, <1>9, <1>10, <1>11 DEF MessagingInv

(* A commit, of the work or of its refusal: one inbox row and one outcome.  *)
LEMMA CommitKeepsInv ==
    ASSUME MessagingInv, NEW h \in Handlers, Commit(h) \/ CommitRefusal(h)
    PROVE  MessagingInv'
<1> DEFINE m == handler[h].msg
<1>1. handler[h] # Idle
  BY AtWork DEF Commit, CommitRefusal, At, Progress, MessagingInv
<1>2. PICK s \in Outcome : Record(h, s)
  BY DEF Commit, CommitRefusal, Outcome
<1>3. Advance(h, "handled") /\ UNCHANGED << outbox, relayVars, queue, faults >>
  BY DEF Commit, CommitRefusal
<1>4. /\ handler' \in [Handlers -> [msg : Msgs, at : Progress] \cup {Idle}]
      /\ m \in Msgs
      /\ handler'[h].msg = m /\ handler'[h].at = "handled"
      /\ \A k \in Handlers \ {h} : handler'[k] = handler[k]
  BY <1>1, <1>3, Advanced DEF MessagingInv, Progress
<1>5. /\ m \notin inbox /\ inbox' = inbox \cup {m}
      /\ outcomes' = [outcomes EXCEPT ![m][s] = @ + 1]
  BY <1>2 DEF Record
<1>6. /\ outcomes' \in [Msgs -> [Outcome -> Nat]]
      /\ outcomes'[m]["ok"] + outcomes'[m]["failed"]
           = outcomes[m]["ok"] + outcomes[m]["failed"] + 1
      /\ \A n \in Msgs \ {m} : outcomes'[n] = outcomes[n]
  <2> HIDE DEF m
  <2>q. QED  BY <1>4, <1>5, Recorded DEF MessagingInv, TypeOK
<1>7. TypeOK'
  BY <1>3, <1>4, <1>5, <1>6 DEF MessagingInv, TypeOK, relayVars
<1>8. \A n \in Msgs : OnItsWay(n)' <=> OnItsWay(n)
  BY <1>3, <1>4 DEF OnItsWay
<1>9. AckedWasHandled'
  BY <1>4, <1>5 DEF MessagingInv, AckedWasHandled, At
<1>10. UnderWayWasWritten'
  BY <1>1, <1>3, <1>4 DEF MessagingInv, UnderWayWasWritten, Written, relayVars
<1>11. NotLost' /\ PublishedNotLost'
  BY <1>3, <1>5, <1>8 DEF MessagingInv, TypeOK, NotLost, PublishedNotLost, relayVars
<1>12. OneOutcome'
  BY <1>4, <1>5, <1>6 DEF MessagingInv, OneOutcome
<1>q. QED  BY <1>7, <1>9, <1>10, <1>11, <1>12 DEF MessagingInv

(* The broker's side: a copy goes to a handler, is acked, or comes back.    *)
LEMMA BrokerKeepsInv ==
    ASSUME MessagingInv,
           \/ \E h \in Handlers : Ack(h) \/ \E m \in Msgs : Deliver(h, m)
           \/ Reconnect
    PROVE  MessagingInv'
<1>1. ASSUME NEW h \in Handlers, Ack(h)
      PROVE  MessagingInv'
  <2>1. handler[h].msg \in inbox
    BY <1>1 DEF Ack, MessagingInv, AckedWasHandled
  <2>2. /\ handler' = [handler EXCEPT ![h] = Idle]
        /\ UNCHANGED << outbox, relayVars, queue, inbox, outcomes, faults >>
    BY <1>1 DEF Ack
  <2>3. TypeOK'
    BY <2>2 DEF MessagingInv, TypeOK, relayVars
  <2>4. \A n \in Msgs \ inbox : OnItsWay(n)' <=> OnItsWay(n)
    BY <2>1, <2>2, MessagingAssumption DEF OnItsWay, MessagingInv, TypeOK, Idle
  <2>5. NotLost' /\ PublishedNotLost'
    BY <2>2, <2>4 DEF MessagingInv, TypeOK, NotLost, PublishedNotLost, relayVars
  <2>6. UnderWayWasWritten' /\ AckedWasHandled' /\ OneOutcome'
    BY <2>2 DEF MessagingInv, TypeOK, UnderWayWasWritten, AckedWasHandled,
       OneOutcome, Written, At, Idle, relayVars
  <2>q. QED  BY <2>3, <2>5, <2>6 DEF MessagingInv
<1>2. ASSUME NEW h \in Handlers, NEW m \in Msgs, Deliver(h, m)
      PROVE  MessagingInv'
  <2>1. /\ handler[h] = Idle /\ queue[m] > 0
        /\ queue' = [queue EXCEPT ![m] = @ - 1]
        /\ handler' = [handler EXCEPT ![h] = [msg |-> m, at |-> "received"]]
        /\ UNCHANGED << outbox, relayVars, inbox, outcomes, faults >>
    BY <1>2 DEF Deliver
  <2>2. TypeOK'
    BY <2>1 DEF MessagingInv, TypeOK, relayVars, Progress
  <2>3. \A n \in Msgs : OnItsWay(n) => OnItsWay(n)'
    BY <2>1, MessagingAssumption DEF OnItsWay, MessagingInv, TypeOK, Idle
  <2>4. NotLost' /\ PublishedNotLost'
    BY <2>1, <2>3 DEF MessagingInv, TypeOK, NotLost, PublishedNotLost, relayVars
  <2>5. UnderWayWasWritten'
    BY <2>1 DEF MessagingInv, TypeOK, UnderWayWasWritten, Written, relayVars
  <2>6. AckedWasHandled' /\ OneOutcome'
    BY <2>1 DEF MessagingInv, TypeOK, AckedWasHandled, OneOutcome, At
  <2>q. QED  BY <2>2, <2>4, <2>5, <2>6 DEF MessagingInv
<1>3. CASE Reconnect
  <2>1. /\ handler' = [h \in Handlers |-> Idle]
        /\ UNCHANGED << outbox, relayVars, inbox, outcomes >>
        /\ faults' \in Nat
    BY <1>3 DEF Reconnect, Fault, MessagingInv, TypeOK
  <2>2. /\ queue' \in [Msgs -> Nat]
        /\ \A m \in Msgs : queue'[m] > 0 <=> OnItsWay(m)
    BY <1>3, Requeued DEF MessagingInv
  <2>3. TypeOK'
    BY <2>1, <2>2 DEF MessagingInv, TypeOK, relayVars
  <2>4. NotLost' /\ PublishedNotLost'
    BY <2>1, <2>2 DEF MessagingInv, TypeOK, NotLost, PublishedNotLost,
       OnItsWay, relayVars
  <2>5. \A m \in Msgs : OnItsWay(m) => m \in Written
    BY MessagingAssumption DEF MessagingInv, TypeOK, OnItsWay, UnderWayWasWritten, Idle
  <2>6. UnderWayWasWritten' /\ AckedWasHandled' /\ OneOutcome'
    BY <2>1, <2>2, <2>5 DEF MessagingInv, UnderWayWasWritten, AckedWasHandled,
       OneOutcome, Written, At, Idle, relayVars
  <2>q. QED  BY <2>3, <2>4, <2>6 DEF MessagingInv
<1>q. QED  BY <1>1, <1>2, <1>3

LEMMA StutterKeepsInv ==
    ASSUME MessagingInv, UNCHANGED messagingVars
    PROVE  MessagingInv'
BY DEF MessagingInv, messagingVars, relayVars, consumerVars, TypeOK,
   UnderWayWasWritten, NotLost, PublishedNotLost, AckedWasHandled, OneOutcome,
   Written, OnItsWay, At

LEMMA NextKeepsInv == MessagingInv /\ [Next]_messagingVars => MessagingInv'
<1> SUFFICES ASSUME MessagingInv, [Next]_messagingVars PROVE MessagingInv'
  OBVIOUS
<1>q. QED
  BY RelayKeepsInv, GoingOnKeepsInv, CommitKeepsInv, BrokerKeepsInv,
     StutterKeepsInv DEF Next, Relay, Work

(* Every state of the messaging satisfies the inductive invariant.          *)
THEOREM MessagingInvHolds == Spec => []MessagingInv
BY InitInv, NextKeepsInv, PTL DEF Spec

(* A published row's message was handled or is on its way to a handler,    *)
(* whatever crashes but the broker, and however often: findUnpublished,     *)
(* publish and markPublished on one side, the ack after the commit on the  *)
(* other.                                                                   *)
THEOREM NothingLost == Spec => []NotLost
<1>1. MessagingInv => NotLost
  BY DEF MessagingInv
<1>q. QED  BY <1>1, MessagingInvHolds, PTL
-----------------------------------------------------------------------------
(* A step of the messaging is a step of the channel, or invisible to it.    *)
LEMMA StepIsAChannelStep ==
    ASSUME MessagingInv, [Next]_messagingVars
    PROVE  [Exactly!Next]_(Exactly!channelVars)
<1> USE DEF Exactly!channelVars
<1>1. ASSUME NEW m \in Msgs, Write(m)
      PROVE  Exactly!Send(m)
  BY <1>1 DEF Write, Exactly!Send, Written, consumerVars, MessagingInv, TypeOK
<1>2. ASSUME NEW h \in Handlers, NEW s \in Outcome, Record(h, s),
             handler[h] # Idle, UNCHANGED outbox
      PROVE  Exactly!Handle(handler[h].msg, s) /\ handler[h].msg \in Msgs
  <2>1. handler[h].msg \in Written
    BY <1>2 DEF MessagingInv, UnderWayWasWritten
  <2>q. QED  BY <1>2, <2>1 DEF Record, Exactly!Handle, Written
<1>3. ASSUME NEW h \in Handlers, Commit(h) \/ CommitRefusal(h)
      PROVE  Exactly!Next
  <2>1. handler[h] # Idle
    BY <1>3, AtWork DEF Commit, CommitRefusal, At, Progress, MessagingInv
  <2>2. /\ UNCHANGED outbox
        /\ \E s \in Outcome : Record(h, s)
    BY <1>3 DEF Commit, CommitRefusal, Outcome
  <2>q. QED  BY <1>2, <2>1, <2>2 DEF Exactly!Next, Exactly!Outcome, Outcome
<1>4. ASSUME EndTick
      PROVE  UNCHANGED << Written, inbox, outcomes >>
  BY <1>4 DEF EndTick, Written, consumerVars, MessagingInv, TypeOK, UnderWayWasWritten
<1>5. ASSUME \/ StartTick \/ PublishFails \/ RelayCrash \/ Reconnect
             \/ \E m \in Msgs : Publish(m) \/ \E h \in Handlers : Deliver(h, m)
             \/ \E h \in Handlers : LookUp(h) \/ Refuse(h) \/ Ack(h)
                                      \/ LoseRace(h) \/ Throw(h)
             \/ UNCHANGED messagingVars
      PROVE  UNCHANGED << Written, inbox, outcomes >>
  BY <1>5 DEF StartTick, PublishFails, RelayCrash, Reconnect, Publish, Deliver,
     LookUp, Refuse, Ack, LoseRace, Throw, messagingVars, consumerVars, Written
<1>q. QED
  BY <1>1, <1>3, <1>4, <1>5 DEF Next, Relay, Work, Exactly!Next

(* The outbox, the broker and the inbox implement the abstract channel: a  *)
(* message is handled at most once and with one outcome, in spite of        *)
(* repeated publications, repeated deliveries and concurrent handlers.      *)
THEOREM ImplementsChannel == Spec => HandledOnce
<1>1. Init => Exactly!Init
  BY DEF Init, Exactly!Init, Written, Exactly!Outcome, Outcome
<1>2. MessagingInv /\ [Next]_messagingVars => [Exactly!Next]_(Exactly!channelVars)
  BY StepIsAChannelStep
<1>q. QED
  BY <1>1, <1>2, MessagingInvHolds, PTL DEF Spec, HandledOnce, Exactly!AtMostOnce
=============================================================================
