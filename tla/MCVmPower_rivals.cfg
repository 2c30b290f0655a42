\* A Start and a Shutdown that want the same VM; live leases may expire.
SPECIFICATION Spec
CONSTANTS
  o1 = o1 o2 = o2 v1 = v1 r1 = r1 r2 = r2 w1 = w1 p1 = p1
  Ops <- TwoOps
  Vms <- OneVm
  Requests = {r1, r2}
  VmOf <- BothOnV1
  OpOf <- Rivals
  Kind <- StartAndShutdown
  Free = Free
  Runners = {w1}
  Operators = {}
  MaxAttempts = 1
  MaxCrashes = 1
  MaxStalls = 1
INVARIANTS
  EffectUnderLock
  TerminalOutcomeIsTrue
  NoEffectClaimIsTrue
