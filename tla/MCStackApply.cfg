CONSTANTS
  c1 = c1
  c2 = c2
  c3 = c3
  c4 = c4
  r1 = r1
  u1 = u1
  Comp <- MCComp
  Removed <- MCRemoved
  Unconfigured <- MCUnconfigured
  Required <- MCRequired
  PrevDependents <- MCPrevDependents
  PrevState <- MCPrevState
  Unexpanded = {}
  PlanModes = {"normal", "destroy", "refresh"}
SPECIFICATION Spec2
CHECK_DEADLOCK FALSE
INVARIANT ApplyTypeOK
INVARIANT RequiredDeferralMonotone
PROPERTY PlanningTerminates
PROPERTY CreateAfterRequired
PROPERTY ApplyTerminates
