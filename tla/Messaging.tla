----------------------------- MODULE Messaging ------------------------------
(***************************************************************************)
(* From one service's outbox to another's inbox: the relay that drains the *)
(* outbox to RabbitMQ, the queue, and the consumer's handlers.             *)
(*                                                                         *)
(* Which unpublished rows a tick takes, and in which order it publishes    *)
(* them, is left open: they are sorted by createdAt, but rows of one       *)
(* transaction share theirs, and a row is seen when its transaction        *)
(* commits, so the order promises nothing a consumer could rely on.        *)
(***************************************************************************)
EXTENDS Naturals, FiniteSets

CONSTANTS
    Msgs,               \* the messages the service may send
    Handlers,           \* bound: handlers at work at once (no prefetch limit)
    BatchSize,          \* rows a tick takes
    MaxFaults           \* bound: crashes, failed publishes, errors, reconnects

ASSUME MessagingAssumption ==
    /\ IsFiniteSet(Handlers)
    /\ "none" \notin Msgs
    /\ BatchSize \in Nat \ {0}
    /\ MaxFaults \in Nat

VARIABLES
    outbox,             \* outbox[m]: the row of m
    ticking,            \* a tick of the relay is under way (draining)
    batch,              \* the rows the tick has yet to publish
    published,          \* the rows the tick has published and not yet marked
    queue,              \* queue[m]: copies of m ready in the broker's queue
    handler,            \* handler[h]: the delivery h works on, until it is acked
    inbox,              \* the messages in the consumer's inbox table
    outcomes,           \* outcomes[m][s]: commits of m's handling that ended so
    faults              \* faults so far

relayVars == << ticking, batch, published >>
consumerVars == << handler, inbox, outcomes >>
messagingVars == << outbox, relayVars, queue, consumerVars, faults >>

Outcome == {"ok", "failed"}

(* "received" has looked at nothing yet, "open" found no inbox row, a step *)
(* that "refused" was rolled back, "handled" waits for its ack, and        *)
(* "unacked" is a delivery whose handler threw: nothing touches it until   *)
(* the channel closes.                                                     *)
Progress == {"received", "open", "refused", "handled", "unacked"}
Idle == [msg |-> "none", at |-> "idle"]

TypeOK ==
    /\ outbox \in [Msgs -> {"none", "unpublished", "published"}]
    /\ ticking \in BOOLEAN
    /\ batch \subseteq Msgs /\ published \subseteq Msgs
    /\ queue \in [Msgs -> Nat]
    /\ handler \in [Handlers -> [msg : Msgs, at : Progress] \cup {Idle}]
    /\ inbox \subseteq Msgs
    /\ outcomes \in [Msgs -> [Outcome -> Nat]]
    /\ faults \in Nat

Init ==
    /\ outbox = [m \in Msgs |-> "none"]
    /\ ticking = FALSE /\ batch = {} /\ published = {}
    /\ queue = [m \in Msgs |-> 0]
    /\ handler = [h \in Handlers |-> Idle]
    /\ inbox = {}
    /\ outcomes = [m \in Msgs |-> [s \in Outcome |-> 0]]
    /\ faults = 0

Fault == faults < MaxFaults /\ faults' = faults + 1
-----------------------------------------------------------------------------
(* A transaction of the producing service commits the row.                  *)
Write(m) ==
    /\ outbox[m] = "none"
    /\ outbox' = [outbox EXCEPT ![m] = "unpublished"]
    /\ UNCHANGED << relayVars, queue, consumerVars, faults >>

Unpublished == {m \in Msgs : outbox[m] = "unpublished"}

(* Definitions marked "Fault" are not the code: each is a plausible bug,   *)
(* put in the place of the definition it precedes to see a property fail.  *)

(* Fault: rows are marked as they are taken, not when they are published.   *)
StartTickMarks ==
    /\ ~ticking
    /\ Unpublished # {}
    /\ ticking' = TRUE
    /\ batch' = Unpublished
    /\ outbox' = [m \in Msgs |-> IF m \in Unpublished THEN "published" ELSE outbox[m]]
    /\ UNCHANGED << published, queue, consumerVars, faults >>

(* The relay's interval fires and no tick is under way.                     *)
StartTick ==
    /\ ~ticking
    /\ Unpublished # {}
    /\ ticking' = TRUE
    /\ batch' \in {b \in SUBSET Unpublished :
                     b = Unpublished \/ Cardinality(b) = BatchSize}
    /\ Cardinality(batch') <= BatchSize
    /\ UNCHANGED << outbox, published, queue, consumerVars, faults >>

Publish(m) ==
    /\ m \in batch
    /\ batch' = batch \ {m}
    /\ published' = published \cup {m}
    /\ queue' = [queue EXCEPT ![m] = @ + 1]
    /\ UNCHANGED << outbox, ticking, consumerVars, faults >>

(* Fault: finally marks every pending row, also those it did not get to.    *)
PublishFailsMarksAll ==
    /\ Fault
    /\ batch # {}
    /\ batch' = {}
    /\ published' = published \cup batch
    /\ UNCHANGED << outbox, ticking, queue, consumerVars >>

(* A publish fails: the loop ends, and finally marks what was published.    *)
PublishFails ==
    /\ Fault
    /\ batch # {}
    /\ batch' = {}
    /\ UNCHANGED << outbox, ticking, published, queue, consumerVars >>

EndTick ==
    /\ ticking /\ batch = {}
    /\ outbox' = [m \in Msgs |-> IF m \in published THEN "published" ELSE outbox[m]]
    /\ ticking' = FALSE
    /\ published' = {}
    /\ UNCHANGED << batch, queue, consumerVars, faults >>

(* The producer dies, or the marking fails: nothing is marked, and the next *)
(* ticks publish the rows once more.                                        *)
RelayCrash ==
    /\ Fault
    /\ ticking
    /\ ticking' = FALSE /\ batch' = {} /\ published' = {}
    /\ UNCHANGED << outbox, queue, consumerVars >>
-----------------------------------------------------------------------------
At(h, progress) == handler[h].at = progress
Advance(h, progress) == handler' = [handler EXCEPT ![h].at = progress]

(* RabbitMQ hands a copy to the consumer, which need not be idle.           *)
Deliver(h, m) ==
    /\ handler[h] = Idle
    /\ queue[m] > 0
    /\ queue' = [queue EXCEPT ![m] = @ - 1]
    /\ handler' = [handler EXCEPT ![h] = [msg |-> m, at |-> "received"]]
    /\ UNCHANGED << outbox, relayVars, inbox, outcomes, faults >>

(* consume() looks the message up before it opens its transaction.          *)
LookUp(h) ==
    /\ At(h, "received")
    /\ Advance(h, IF handler[h].msg \in inbox THEN "handled" ELSE "open")
    /\ UNCHANGED << outbox, relayVars, queue, inbox, outcomes, faults >>

(* Fault: the inbox is written by a statement of its own, as InboxGuard     *)
(* would: nothing rejects a second handler.                                 *)
RecordUnguarded(h, s) ==
    LET m == handler[h].msg IN
    /\ inbox' = inbox \cup {m}
    /\ outcomes' = [outcomes EXCEPT ![m][s] = @ + 1]

(* The inbox row's primary key lets only one transaction per message commit.*)
Record(h, s) ==
    LET m == handler[h].msg IN
    /\ m \notin inbox
    /\ inbox' = inbox \cup {m}
    /\ outcomes' = [outcomes EXCEPT ![m][s] = @ + 1]

(* The work, its answer and the inbox row commit together.                  *)
Commit(h) ==
    /\ At(h, "open")
    /\ Record(h, "ok")
    /\ Advance(h, "handled")
    /\ UNCHANGED << outbox, relayVars, queue, faults >>

(* SagaStepFailure: the work is rolled back ...                             *)
Refuse(h) ==
    /\ At(h, "open")
    /\ Advance(h, "refused")
    /\ UNCHANGED << outbox, relayVars, queue, inbox, outcomes, faults >>

(* ... and the failed answer commits in a transaction of its own.           *)
CommitRefusal(h) ==
    /\ At(h, "refused")
    /\ Record(h, "failed")
    /\ Advance(h, "handled")
    /\ UNCHANGED << outbox, relayVars, queue, faults >>

(* Another handler of the same message was first: the insert throws, and so *)
(* does consume(), past the ack.                                            *)
LoseRace(h) ==
    /\ handler[h].at \in {"open", "refused"}
    /\ handler[h].msg \in inbox
    /\ Advance(h, "unacked")
    /\ UNCHANGED << outbox, relayVars, queue, inbox, outcomes, faults >>

(* Any other error throws too: a database that cannot be reached, say.      *)
Throw(h) ==
    /\ Fault
    /\ handler[h].at \in {"received", "open", "refused"}
    /\ Advance(h, "unacked")
    /\ UNCHANGED << outbox, relayVars, queue, inbox, outcomes >>

(* Fault: a delivery is acknowledged as soon as it is received.             *)
AckEarly(h) ==
    /\ handler[h].at \in {"received", "handled"}
    /\ handler' = [handler EXCEPT ![h] = Idle]
    /\ UNCHANGED << outbox, relayVars, queue, inbox, outcomes, faults >>

Ack(h) ==
    /\ At(h, "handled")
    /\ handler' = [handler EXCEPT ![h] = Idle]
    /\ UNCHANGED << outbox, relayVars, queue, inbox, outcomes, faults >>

(* The consumer dies or loses its channel: open transactions are rolled    *)
(* back, and every delivery without an ack goes back to the queue.          *)
Reconnect ==
    /\ Fault
    /\ queue' = [m \in Msgs |-> queue[m] +
                   Cardinality({h \in Handlers : handler[h].msg = m})]
    /\ handler' = [h \in Handlers |-> Idle]
    /\ UNCHANGED << outbox, relayVars, inbox, outcomes >>
-----------------------------------------------------------------------------
Relay == StartTick \/ EndTick \/ \E m \in Msgs : Publish(m)

Work(h) == LookUp(h) \/ Commit(h) \/ Refuse(h) \/ CommitRefusal(h) \/ Ack(h)

Next ==
    \/ \E m \in Msgs : Write(m)
    \/ Relay
    \/ \E h \in Handlers : Work(h) \/ \E m \in Msgs : Deliver(h, m)
    \/ \E h \in Handlers : LoseRace(h) \/ Throw(h)
    \/ PublishFails \/ RelayCrash \/ Reconnect

Spec == Init /\ [][Next]_messagingVars

(* The relay's interval keeps firing, the broker keeps delivering what is  *)
(* in the queue, and the consumer's event loop runs every handler.          *)
FairSpec ==
    /\ Spec
    /\ WF_messagingVars(Relay)
    /\ \A m \in Msgs : WF_messagingVars(\E h \in Handlers : Deliver(h, m))
    /\ \A h \in Handlers : WF_messagingVars(Work(h))
-----------------------------------------------------------------------------
Written == {m \in Msgs : outbox[m] # "none"}

(* No message is lost between the relay's mark and the consumer's commit:  *)
(* a row marked published was handled, or a copy of it is in the queue or  *)
(* in the hands of a handler that has not acked it, whatever crashed but   *)
(* the broker (which keeps no message over a restart: none is published as *)
(* persistent).                                                             *)
OnItsWay(m) == queue[m] > 0 \/ \E h \in Handlers : handler[h].msg = m
NotLost ==
    \A m \in Msgs : outbox[m] = "published" /\ m \notin inbox => OnItsWay(m)

(* The inductive invariant. What is under way was written by a transaction *)
(* that committed; what a tick has published is not lost although it is    *)
(* not marked yet; what a handler may ack was handled; and a message has    *)
(* one outcome if it has an inbox row, and none without.                    *)
UnderWayWasWritten ==
    /\ batch \cup published \subseteq Written
    /\ \A m \in Msgs : queue[m] > 0 => m \in Written
    /\ \A h \in Handlers : handler[h] # Idle => handler[h].msg \in Written
PublishedNotLost == \A m \in published \ inbox : OnItsWay(m)
AckedWasHandled == \A h \in Handlers : At(h, "handled") => handler[h].msg \in inbox
OneOutcome ==
    \A m \in Msgs : outcomes[m]["ok"] + outcomes[m]["failed"]
                       = IF m \in inbox THEN 1 ELSE 0
MessagingInv ==
    /\ TypeOK
    /\ UnderWayWasWritten
    /\ NotLost /\ PublishedNotLost
    /\ AckedWasHandled
    /\ OneOutcome

(* The outbox, the broker and the inbox together are the channel the saga  *)
(* is built on: a message is handled at most once and with one outcome,     *)
(* whatever crashes but the broker ...                                      *)
Exactly == INSTANCE Channel WITH sent <- Written
HandledOnce == Exactly!AtMostOnce

(* ... and, unless its handler met an error and the channel stays open, it *)
(* is handled: no crash and no failed publish keeps it from its handler.    *)
Waits(m) == \E h \in Handlers : handler[h].msg = m /\ At(h, "unacked")
HandledOrWaiting == \A m \in Msgs : m \in Written ~> m \in inbox \/ Waits(m)
=============================================================================
