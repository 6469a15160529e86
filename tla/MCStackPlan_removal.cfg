CONSTANTS
  c1 = c1
  c2 = c2
  c3 = c3
  r1 = r1
  u1 = u1
  Comp <- MCComp
  Removed <- MCRemoved
  Unconfigured <- MCUnconfigured
  Required <- MCRequired
  PrevDependents <- MCPrevDependents
  PrevState <- MCPrevState
  Unexpanded = {}
  PlanModes = {"normal", "destroy"}
SPECIFICATION Spec
CHECK_DEADLOCK FALSE
INVARIANT RemovalDeferral
