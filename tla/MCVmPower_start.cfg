\* One VM Start handed between its request, the runner and an operator, a thread of which may
\* die; the second recovery attempt is the last.  Fairness as LiveSpec states it.
SPECIFICATION LiveSpec
CONSTANTS
  o1 = o1 o2 = o2 v1 = v1 r1 = r1 r2 = r2 w1 = w1 p1 = p1
  Ops <- OneOp
  Vms <- OneVm
  Requests = {r1}
  VmOf <- OnV1
  OpOf <- OneRequest
  Kind <- OneStart
  Free = Free
  Runners = {w1}
  Operators = {p1}
  MaxAttempts = 2
  MaxCrashes = 1
  MaxStalls = 0
INVARIANTS
  UncertainStaysOpen
PROPERTIES
  ClosedIsFinal
  JobToldAtCompletion
  RecoveryWorkEnds
  LockIsFreedOrHandedOver
