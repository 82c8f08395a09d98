---------------------------- MODULE MCPlanWatch ----------------------------
EXTENDS PlanWatch, TLC

CONSTANTS p1, p2, loop, request, v1, v2
=============================================================================
