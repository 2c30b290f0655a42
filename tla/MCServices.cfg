\* Each service on its own small instance.  Attempts and jobs, and requests, calls
\* and transactions, are two of each; one process dispatches mutations and serves the
\* requests; three VMs on two nodes; one change of Proxmox by others between a review
\* and its dispatch, two between the review of a change and its proof,
\* two edits of a node's network beside ours, three keys for a ledger of two.
SPECIFICATION Spec
CONSTANTS
  None = None
  Attempts = {a1, a2}
  Requests = {r1, r2}
  Procs = {p1}
  Api = p1
  Env = Env
  Jobs = {a1, a2}
  Calls = {r1, r2}
  Vmids = {100, 101}
  Asked = {None}
  Templates = {t1, t2}
  Vms = {v1, v2, v3}
  Nodes = {n1, n2}
  Store = Store
  Bridge = Bridge
  MaxChosen = 2
  Users = {u1, u2}
  Admins = {u1, u2}
  Txs = {r1, r2}
  Logins = {s1}
  Installers = {i1, i2}
  Setups = {a1, a2}
  Writers = {r1, r2}
  Ids = {d1, d2}
  Keys = {a1, a2, d1}
  Limit = 2
  MaxDrifts = 2
  MaxFaults = 1
  MaxChanges = 1
  MaxShown = 2
  MaxEdits = 2
  MaxClaims = 3
  MaxVersion = 4
SYMMETRY Interchangeable
CHECK_DEADLOCK FALSE
INVARIANTS
  EvidenceInv
  PlanningInv
  CredentialInv
  TokenInv
  AuthorityInv
  BridgeInv
  AccountsInv
  RequestsInForce
PROPERTIES
  LedgerIsKept
  InstallationIsKept
