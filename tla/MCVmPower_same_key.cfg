\* Two requests with one idempotency key: replays, and the closing of a dead request's failure.
SPECIFICATION Spec
CONSTANTS
  o1 = o1 o2 = o2 v1 = v1 r1 = r1 r2 = r2 w1 = w1 p1 = p1
  Ops <- OneOp
  Vms <- OneVm
  Requests = {r1, r2}
  VmOf <- OnV1
  OpOf <- SameKey
  Kind <- OneStart
  Free = Free
  Runners = {w1}
  Operators = {}
  MaxAttempts = 1
  MaxCrashes = 1
  MaxStalls = 1
INVARIANTS
  IInv
  AtMostOnePost
PROPERTIES
  ImplementsTargetMutation
