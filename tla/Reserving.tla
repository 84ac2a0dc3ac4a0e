----------------------------- MODULE Reserving ------------------------------
(***************************************************************************)
(* The kitchen's transactions statement by statement: what Kitchen takes   *)
(* for one step.  reservePortions updates the drops in the order of the    *)
(* order's lines, releasePortions in whatever order the items are read;    *)
(* each update waits for the row lock of another transaction and keeps its *)
(* own to the end.  Transactions that wait for each other are a deadlock,  *)
(* of which Postgres aborts one.                                           *)
(*                                                                         *)
(* The counters are the committed rows.  What a transaction has changed    *)
(* and not committed is in its handler's record, and a drop it changed is  *)
(* locked.  A handler that throws does not acknowledge its message, which  *)
(* is delivered once more only when the channel or the process is gone.    *)
(***************************************************************************)
EXTENDS Contracts, Sequences, FiniteSetsExt

CONSTANTS
    Drops,              \* the drops of the kitchen
    Total,              \* Total[d]: the batch size of drop d
    Lines,              \* Lines[o]: the lines of order o, [drop, qty] each
    MaxHandlers,        \* bound: messages handled at once (no prefetch limit)
    MaxFaults           \* bound: errors, reconnects and crashes

ASSUME ReservingAssumption ==
    /\ Total \in [Drops -> Nat]
    /\ Lines \in [Orders -> Seq([drop : Drops, qty : Nat \ {0}])]
    /\ MaxHandlers \in Nat /\ MaxFaults \in Nat

Handlers == 1..MaxHandlers

VARIABLES
    available,          \* available[d]: drops.available, as committed
    reserved,           \* reserved[d]: drops.reserved, as committed
    reservation,        \* reservation[o]: status of the order's reservation
    work,               \* work[h]: the message handler h is at, and how far
    unacked,            \* delivered on this channel and not acknowledged
    faults              \* faults so far

rowVars == << available, reserved, reservation >>
reservingVars == << rowVars, work, unacked, faults >>

Nothing == [d \in Drops |-> 0]
NoMessage == [kind |-> "none", step |-> "none", order |-> "none", from |-> 0]
Idle == [msg |-> NoMessage, at |-> "idle", todo |-> << >>, took |-> Nothing]

(* A handler's transaction is "open", or was rolled back on a "short" line  *)
(* and its failed reply is still to be written; "todo" are the lines it     *)
(* has not updated yet, "took" the portions it moved.                       *)
Work(h) ==
    /\ work[h].msg \in Messages \cup {NoMessage}
    /\ work[h].at \in {"idle", "open", "short"}
    /\ work[h].took \in [Drops -> Nat]
    /\ \A i \in DOMAIN work[h].todo : work[h].todo[i].drop \in Drops

ReservingTypeOK ==
    /\ available \in [Drops -> Nat]
    /\ reserved \in [Drops -> Nat]
    /\ reservation \in [Orders -> {"NONE", "HELD", "RELEASED"}]
    /\ DOMAIN work = Handlers /\ \A h \in Handlers : Work(h)
    /\ unacked \subseteq sent
    /\ faults \in 0..MaxFaults

ReservingInit ==
    /\ available = Total
    /\ reserved = Nothing
    /\ reservation = [o \in Orders |-> "NONE"]
    /\ work = [h \in Handlers |-> Idle]
    /\ unacked = {}
    /\ faults = 0
-----------------------------------------------------------------------------
IsAt(h, at, step) == work[h].at = at /\ work[h].msg.step = step
Leave(h) == work' = [work EXCEPT ![h] = Idle]

(* The orders in which the items of a reservation may be read.              *)
Orderings(lines) ==
    {[i \in DOMAIN lines |-> lines[p[i]]] : p \in Bijection(DOMAIN lines, DOMAIN lines)}

(* A message comes, is not in the inbox, and the handler's transaction     *)
(* begins; a release has found something to release.  Handlers are alike: *)
(* the first idle one takes it.                                             *)
Deliver(h, m) ==
    /\ work[h].at = "idle" /\ \A g \in Handlers : g < h => work[g].at # "idle"
    /\ m \notin unacked
    /\ \E lines \in Orderings(Lines[m.order]) :
          /\ \/ Arrives(m, "ReservePortions") /\ lines = Lines[m.order]
             \/ Arrives(m, "ReleasePortions") /\ reservation[m.order] = "HELD"
          /\ work' = [work EXCEPT ![h] =
                         [msg |-> m, at |-> "open", todo |-> lines, took |-> Nothing]]
    /\ unacked' = unacked \cup {m}
    /\ UNCHANGED << msgVars, rowVars, faults >>

Line(h) == Head(work[h].todo)
Sum(h) == work[h].took[Line(h).drop] + Line(h).qty
Locks(h, d) == work[h].took[d] > 0

(* Definitions marked "Fault" are not the code: each is a plausible bug,   *)
(* put in the place of the definition it precedes to see a property fail.  *)

(* Fault: the row is read and written without a lock.                       *)
LockedNever(h) == FALSE

(* Another transaction has changed the row of the next line.                *)
Locked(h) == \E g \in Handlers \ {h} : Locks(g, Line(h).drop)

Update(h) ==
    work' = [work EXCEPT ![h].took[Line(h).drop] = @ + Line(h).qty,
                         ![h].todo = Tail(@)]

(* A line of a reservation finds its portions in the committed row ...      *)
Enough(h) == Sum(h) <= available[Line(h).drop]

(* ... and takes them, once the row is not locked.                          *)
TakeLine(h) ==
    /\ IsAt(h, "open", "ReservePortions") /\ work[h].todo # << >>
    /\ Enough(h) /\ ~Locked(h)
    /\ Update(h)
    /\ UNCHANGED << msgVars, rowVars, unacked, faults >>

(* Fault: what the earlier lines took stays taken.                          *)
ShortLineKeepsLines(h) ==
    /\ IsAt(h, "open", "ReservePortions") /\ work[h].todo # << >>
    /\ ~Enough(h)
    /\ available' = [d \in Drops |-> available[d] - work[h].took[d]]
    /\ reserved' = [d \in Drops |-> reserved[d] + work[h].took[d]]
    /\ work' = [work EXCEPT ![h] = [Idle EXCEPT !.msg = work[h].msg, !.at = "short"]]
    /\ UNCHANGED << msgVars, reservation, unacked, faults >>

(* The update of a line matches no row: the transaction is rolled back.     *)
ShortLine(h) ==
    /\ IsAt(h, "open", "ReservePortions") /\ work[h].todo # << >>
    /\ ~Enough(h)
    /\ work' = [work EXCEPT ![h] = [Idle EXCEPT !.msg = work[h].msg, !.at = "short"]]
    /\ UNCHANGED << msgVars, rowVars, unacked, faults >>

(* The reservation and the ok reply commit with the lines ...               *)
CommitReserve(h) ==
    LET m == work[h].msg IN
    /\ IsAt(h, "open", "ReservePortions") /\ work[h].todo = << >>
    /\ Consume(m, {Reply(m, "ok")})
    /\ available' = [d \in Drops |-> available[d] - work[h].took[d]]
    /\ reserved' = [d \in Drops |-> reserved[d] + work[h].took[d]]
    /\ reservation' = [reservation EXCEPT ![m.order] = "HELD"]
    /\ unacked' = unacked \ {m}
    /\ Leave(h)
    /\ UNCHANGED faults

(* Fault: the message of a sold-out order is consumed without an answer.    *)
SaysNothing(h) ==
    /\ IsAt(h, "short", "ReservePortions")
    /\ Consume(work[h].msg, {})
    /\ unacked' = unacked \ {work[h].msg}
    /\ Leave(h)
    /\ UNCHANGED << rowVars, faults >>

(* ... and the failed reply in a transaction of its own.                    *)
AnswerSoldOut(h) ==
    LET m == work[h].msg IN
    /\ IsAt(h, "short", "ReservePortions")
    /\ Consume(m, {Reply(m, "failed")})
    /\ unacked' = unacked \ {m}
    /\ Leave(h)
    /\ UNCHANGED << rowVars, faults >>
-----------------------------------------------------------------------------
(* The CHECK constraint lets a release restore what is reserved.            *)
RestoreLine(h) ==
    /\ IsAt(h, "open", "ReleasePortions") /\ work[h].todo # << >>
    /\ ~Locked(h)
    /\ Sum(h) <= reserved[Line(h).drop]
    /\ Update(h)
    /\ UNCHANGED << msgVars, rowVars, unacked, faults >>

CommitRelease(h) ==
    LET m == work[h].msg IN
    /\ IsAt(h, "open", "ReleasePortions") /\ work[h].todo = << >>
    /\ Consume(m, {})
    /\ available' = [d \in Drops |-> available[d] + work[h].took[d]]
    /\ reserved' = [d \in Drops |-> reserved[d] - work[h].took[d]]
    /\ reservation' = [reservation EXCEPT ![m.order] = "RELEASED"]
    /\ unacked' = unacked \ {m}
    /\ Leave(h)
    /\ UNCHANGED faults

NothingToRelease(m) ==
    /\ Arrives(m, "ReleasePortions")
    /\ m \notin unacked
    /\ reservation[m.order] # "HELD"
    /\ Consume(m, {})
    /\ UNCHANGED reservingVars
-----------------------------------------------------------------------------
(* A handler throws, its transaction is rolled back, nothing is acked.      *)
Throw(h) ==
    /\ Leave(h)
    /\ UNCHANGED << msgVars, rowVars, unacked >>

(* The other handler of a redelivered message was first: the inbox has its  *)
(* row already.                                                             *)
LoseRace(h) ==
    /\ work[h].at # "idle" /\ work[h].todo = << >>
    /\ work[h].msg \in inbox
    /\ Throw(h)
    /\ UNCHANGED faults

(* The CHECK constraint rejects an update: more would come back than is     *)
(* reserved.                                                                *)
RestoreTooMuch(h) ==
    /\ IsAt(h, "open", "ReleasePortions") /\ work[h].todo # << >>
    /\ ~Locked(h)
    /\ Sum(h) > reserved[Line(h).drop]
    /\ Throw(h)
    /\ UNCHANGED faults

WaitsFor(h) ==
    {g \in Handlers \ {h} :
        /\ work[h].at = "open" /\ work[h].todo # << >>
        /\ work[h].msg.step = "ReservePortions" => Enough(h)
        /\ Locks(g, Line(h).drop)}

(* Each waits for one of them, and is waited for by one of them.            *)
Deadlocked(S) ==
    /\ S # {}
    /\ \A h \in S : WaitsFor(h) \cap S # {} /\ \E g \in S : h \in WaitsFor(g)

(* Postgres notices the deadlock and aborts one of the transactions.        *)
Abort ==
    /\ \E S \in SUBSET Handlers : Deadlocked(S) /\ \E h \in S : Leave(h)
    /\ UNCHANGED << msgVars, rowVars, unacked, faults >>

Fault == faults < MaxFaults /\ faults' = faults + 1

(* Any other error: a statement fails, Prisma closes a transaction that     *)
(* waited too long.                                                         *)
Fail(h) == Fault /\ work[h].at # "idle" /\ Throw(h)

(* The channel closes, and the handlers go on; or the kitchen dies.         *)
Reconnect ==
    /\ Fault
    /\ unacked # {}
    /\ unacked' = {}
    /\ work' \in {work, [h \in Handlers |-> Idle]}
    /\ UNCHANGED << msgVars, rowVars >>
-----------------------------------------------------------------------------
Handle(h) ==
    \/ \E m \in sent : Deliver(h, m)
    \/ TakeLine(h) \/ ShortLine(h) \/ CommitReserve(h) \/ AnswerSoldOut(h)
    \/ RestoreLine(h) \/ CommitRelease(h)
    \/ LoseRace(h) \/ RestoreTooMuch(h)

KitchenWorks ==
    \/ \E h \in Handlers : Handle(h)
    \/ \E m \in sent : NothingToRelease(m)
    \/ Abort

KitchenFails == Reconnect \/ \E h \in Handlers : Fail(h)
=============================================================================
