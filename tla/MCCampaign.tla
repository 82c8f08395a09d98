----------------------------- MODULE MCCampaign -----------------------------
EXTENDS Campaign

CONSTANT ghost

MCRetries == [s \in Step |-> IF s = 1 THEN 1 ELSE 0]
MCPlans == [Step -> SUBSET (Step \union {ghost})]
=============================================================================
