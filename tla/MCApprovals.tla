---------------------------- MODULE MCApprovals ----------------------------
(* Instances of Approvals for TLC: the operations its clients use.          *)
EXTENDS Approvals

DecideOps   == {"approve", "reject"}
HireOps     == {"approve", "pause", "resume"}

=============================================================================
