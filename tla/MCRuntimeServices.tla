------------------------- MODULE MCRuntimeServices -------------------------
EXTENDS RuntimeServices, TLC

CONSTANTS r1, r2, r3, web

(* A preview server shared by all runs; the first run wants an ephemeral     *)
(* service beside it.                                                        *)
OneMore == r1 :> <<web, NoKey>> @@ r2 :> <<web>> @@ r3 :> <<web>>
Shared == r1 :> <<web>> @@ r2 :> <<web>> @@ r3 :> <<web>>

TwoRuns == r1 :> <<web, NoKey>> @@ r2 :> <<web>>

StopsWhenIdle == web :> "idle_timeout"
StopsAtOnce == web :> "on_run_finish"
=============================================================================
