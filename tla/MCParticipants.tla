--------------------------- MODULE MCParticipants ---------------------------
(* An instance of the participants under any caller for TLC.                *)
EXTENDS Participants, TLC

CONSTANTS o1, o2

(* A second authorization and a second void; what only one command can do  *)
(* is sent once.                                                            *)
AnyCalls ==
    {"AuthorizePayment", "VoidPayment"} \X {0, 1}
        \cup {"CapturePayment", "RefundPayment",
              "AssignCourier", "UnassignCourier"} \X {0}
=============================================================================
