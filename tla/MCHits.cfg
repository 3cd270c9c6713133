CONSTANTS
  Parts = {"sight"}
  None = None
  c1 = c1
  c2 = c2
  Callers = {c1, c2}
  Wanted <- MCWanted
  Pages <- MCPages
  Endpoints <- MCEndpoints
  MaxCalls = 3
  MaxEvents = 2
  MaxFaults = 2
SPECIFICATION Spec
INVARIANT HitsLogical
CHECK_DEADLOCK FALSE
