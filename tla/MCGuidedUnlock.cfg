\* A user, the runner as whom an operator also observes, two plans for one VM; one mishap.
SPECIFICATION LiveSpec
CONSTANTS
  Ops = {o1, o2}
  Users = {u1}
  Runners = {w1}
  Operators = {w1}
  Watched = {o1}
  Free = Free
  MaxAttempts = 2
  MaxFaults = 1
CHECK_DEADLOCK FALSE
INVARIANTS
  UnlockInv
PROPERTIES
  LockLeavesAtClose
  AttestationIsKept
  ClosedIsFinal
  InstructionEnds
