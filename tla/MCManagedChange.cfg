\* Two requests for any of five changes, the recovery runner, two faults.
SPECIFICATION Spec
CONSTANTS
  clone = clone restore = restore write = write build = build bridge = bridge
  r1 = r1 r2 = r2 w1 = w1
  Free = Free
  Ops <- AllOps
  Locks <- Resources
  Config = 0
  Scope <- Scopes
  Kind <- Kinds5
  Requests = {r1, r2}
  Runners = {}
  Operators = {w1}
  MaxAttempts = 2
  MaxClaims = 3
  MaxFaults = 2
SYMMETRY Interchangeable
CHECK_DEADLOCK FALSE
INVARIANTS
  IInv
  SentAtMostOnce
  StagesBuildOnSuccess
  EffectUnderLocks
  HostChangeAlone
  OutcomeIsProven
  NoCircularWait
PROPERTIES
  UnansweredStaysOpen
  ClosedIsFinal
