--------------------------- MODULE MCGatewayRoutes ---------------------------
(* Two Gateways; the user logs in on g1, then on g2 (or on g1 again).      *)
EXTENDS GatewayRoutes

CONSTANTS g1, g2

MCPlacements == {<<g1, g1>>, <<g1, g2>>}
============================================================
