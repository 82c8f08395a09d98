----------------------------- MODULE MCIssueRuns -----------------------------
(* Instances of IssueRuns for TLC.                                           *)
EXTENDS IssueRuns, MCHeartbeatRuns
=============================================================================
