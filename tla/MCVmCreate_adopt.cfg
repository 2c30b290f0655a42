\* Two requests of one creation, nothing fails: the second takes over the lock of the first.
SPECIFICATION Spec
CONSTANTS
  o1 = o1 o2 = o2 r1 = r1 r2 = r2 v1 = v1 w1 = w1 p1 = p1
  Free = Free
  Ops <- OneOp
  Vms <- OneVm
  VmOf <- OneTarget
  Requests = {r1, r2}
  Runners = {w1}
  Operators = {}
  Boot = {}
  MaxAttempts = 2
  MaxObserves = 0
  MaxFaults = 0
CHECK_DEADLOCK FALSE
INVARIANTS
  UnfinishedKeepsLock
