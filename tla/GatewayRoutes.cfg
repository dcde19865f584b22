SPECIFICATION FairSpec
CONSTANTS
  g1 = g1
  g2 = g2
  Gateways = {g1, g2}
  Placements <- MCPlacements
  MaxConns = 2
  MaxDisruptions = 1
PROPERTIES ServedRouteKept StaleConnectionsClose RetriesResume
CHECK_DEADLOCK FALSE
