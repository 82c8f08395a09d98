-------------------------- MODULE MCGatewayClient --------------------------
EXTENDS GatewayClient, TLC

CONSTANTS c1, c2, k1, k2, k3, r1, r2
=============================================================================
