\* Two requests that repeat one creation or compete for its VM id, and one fault.
SPECIFICATION Spec
CONSTANTS
  o1 = o1 o2 = o2 r1 = r1 r2 = r2 v1 = v1 w1 = w1 p1 = p1
  Free = Free
  Ops <- TwoOps
  Vms <- OneVm
  VmOf <- SameTarget
  Requests = {r1, r2}
  Runners = {w1}
  Operators = {}
  Boot = {}
  MaxAttempts = 2
  MaxObserves = 0
  MaxFaults = 1
CHECK_DEADLOCK FALSE
SYMMETRY Interchangeable
INVARIANTS
  EachStepOnce
  EffectUnderLock
PROPERTIES
  ClosedIsFinal
