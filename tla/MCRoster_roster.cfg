CONSTANTS
  Agents = {a1}
  Handsets = {h1, h2}
  Codes = {k1}
  Dashboards = {b1}
  Requests = {r1, r2}
  Statuses = {"offline", "available"}
  MaxVersion = 3
  MaxFaults = 1
SPECIFICATION RosterRunSpec
CHECK_DEADLOCK FALSE
INVARIANTS LoneChangeIsShown OnlineIsPaired
PROPERTIES CodesAreSpent DashboardsReconnect
