----------------------------- MODULE MCPlacing ------------------------------
(* An instance of placing and reserving for TLC.                            *)
EXTENDS Placing

CONSTANTS o1, o2, d1, d2, unknown, c1, c2, u1, u2

Line1(d) == [drop |-> d, qty |-> 1]

(* Two orders of a portion of each drop, in opposite orders; one fits.      *)
OppositeLines == [o \in Orders |->
    IF o = o1 THEN << Line1(d1), Line1(d2) >> ELSE << Line1(d2), Line1(d1) >>]

Batch21 == [d \in Drops |-> IF d = d1 THEN 2 ELSE 1]

(* The second drop has two dishes; a portion of each is 3 cents.            *)
Menu == [d \in Drops |-> IF d = d1 THEN << 1 >> ELSE << 1, 1 >>]
Cents3 == 3

(* The first order may be asked for in every wrong way.                     *)
SomeBodies == [o \in Orders |->
    IF o = o2 THEN {[user |-> u2, lines |-> OppositeLines[o2]]}
    ELSE {[user |-> u1, lines |-> OppositeLines[o1]],
          [user |-> Anonymous, lines |-> OppositeLines[o1]],
          [user |-> u1, lines |-> << >>],
          [user |-> Anonymous, lines |-> << [drop |-> d1, qty |-> 0] >>],
          [user |-> u1, lines |-> << Line1(d1), Line1(unknown) >>],
          [user |-> u1, lines |-> << [drop |-> d2, qty |-> Cents3 + 1] >>]}]

(* The first order may be cancelled twice, or by somebody it is not of.     *)
SomeCalls == [c \in CancelCalls |->
    IF c = c1 THEN {[user |-> u1, order |-> o1]}
    ELSE {[user |-> u, order |-> o1] : u \in {u1, u2, Anonymous}}]

TwoCancels == [o \in Orders |-> 2]
=============================================================================
