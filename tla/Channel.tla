------------------------------ MODULE Channel -------------------------------
(***************************************************************************)
(* What the messaging of two services promises the saga, and Contracts     *)
(* takes for granted: a message that was sent is handled at most once, at  *)
(* any time after it was sent and in any order, with one outcome.          *)
(***************************************************************************)
EXTENDS Naturals

CONSTANT Msgs           \* the messages one service sends to another

VARIABLES
    sent,               \* the messages sent
    inbox,              \* the messages whose handling has committed
    outcomes            \* outcomes[m][s]: commits of m's handler that ended so

Outcome == {"ok", "failed"}

Init ==
    /\ sent = {}
    /\ inbox = {}
    /\ outcomes = [m \in Msgs |-> [s \in Outcome |-> 0]]

Send(m) ==
    /\ m \notin sent
    /\ sent' = sent \cup {m}
    /\ UNCHANGED << inbox, outcomes >>

Handle(m, s) ==
    /\ m \in sent \ inbox
    /\ inbox' = inbox \cup {m}
    /\ outcomes' = [outcomes EXCEPT ![m][s] = @ + 1]
    /\ UNCHANGED sent

Next == \E m \in Msgs : Send(m) \/ \E s \in Outcome : Handle(m, s)

channelVars == << sent, inbox, outcomes >>

(* Never twice, and never with two outcomes.                                *)
AtMostOnce == Init /\ [][Next]_channelVars
=============================================================================
