\* One creation that boots its VM, with a runner, an operator and one fault, fairly scheduled.
SPECIFICATION LiveSpec
CONSTANTS
  o1 = o1 o2 = o2 r1 = r1 r2 = r2 v1 = v1 w1 = w1 p1 = p1
  Free = Free
  Ops <- OneOp
  Vms <- OneVm
  VmOf <- OneTarget
  Requests = {r1}
  Runners = {w1}
  Operators = {p1}
  Boot = {o1}
  MaxAttempts = 2
  MaxObserves = 1
  MaxFaults = 1
CHECK_DEADLOCK FALSE
INVARIANTS
  CreationInv
PROPERTIES
  CreationComesToRest
