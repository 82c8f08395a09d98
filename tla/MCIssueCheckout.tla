-------------------------- MODULE MCIssueCheckout --------------------------
EXTENDS IssueCheckout, TLC

CONSTANTS a1, a2, r1, r2, r3

MCAgentOf == (r1 :> a1) @@ (r2 :> a1) @@ (r3 :> a1)
Symmetry == Permutations({r2, r3})
MCAbout == {r2, r3}
MCExpected == {{"todo", "in_progress"}}
MCPatches == {[NoPatch EXCEPT !.status = "done"],
              [NoPatch EXCEPT !.agent = a2]}
=============================================================================
