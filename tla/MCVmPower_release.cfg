\* The documented release rule of a request that fails before dispatch.
SPECIFICATION Spec
CONSTANTS
  o1 = o1 o2 = o2 v1 = v1 r1 = r1 r2 = r2 w1 = w1 p1 = p1
  Ops <- OneOp
  Vms <- OneVm
  Requests = {r1}
  VmOf <- OnV1
  OpOf <- OneRequest
  Kind <- OneStart
  Free = Free
  Runners = {w1}
  Operators = {p1}
  MaxAttempts = 2
  MaxCrashes = 1
  MaxStalls = 1
PROPERTIES
  ReleaseNeedsNoRecovery
