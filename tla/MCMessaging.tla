---------------------------- MODULE MCMessaging -----------------------------
(* An instance of the messaging for TLC.                                    *)
EXTENDS Messaging

CONSTANTS m1, m2, h1, h2
=============================================================================
