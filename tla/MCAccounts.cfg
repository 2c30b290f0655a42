\* The only administrator is demoted while two others are promoted; three changes at once.
SPECIFICATION Spec
CONSTANTS
  None = None
  Users = {u1, u2, u3}
  Admins = {u2}
  Txs = {t1, t2, t3}
  Logins = {}
SYMMETRY Interchangeable
CHECK_DEADLOCK FALSE
INVARIANT AnAdminRemains
