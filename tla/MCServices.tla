----------------------------- MODULE MCServices -----------------------------
(***************************************************************************)
(* The services around the operations, checked side by side.  None reads   *)
(* another's state, so a behaviour of this module is a behaviour of one of *)
(* them: the initial state chooses it, and its variables are x1 to x10.    *)
(*   "evidence"      VmEvidence: what a change accepts as proof            *)
(*   "planning"      CreatePlanning: review and admission of VM Create     *)
(*   "registration"  Registration: tokens and the connection's credential  *)
(*   "authority"     Authority: selections, roles, admission, transport    *)
(*   "accounts"      Accounts: administrators and sessions                 *)
(*   "bridge"        HostBridge: a bridge of a node others edit too        *)
(*   "ledger"        ObserveLedger: the keys of observe requests           *)
(*   "installation"  Installation: the marker and the first account        *)
(***************************************************************************)
EXTENDS Naturals, TLC

CONSTANTS Attempts, Requests, Procs, Api, Env, None,           \* Registration
          Jobs, Calls, Vmids, Templates, Asked,                \* CreatePlanning
          Vms, Nodes, Store, Bridge, MaxChosen,                \* Authority
          Users, Admins, Txs, Logins,                          \* Accounts
          Installers, Setups, Writers, Ids,                    \* Installation
          Keys, Limit,                                         \* ObserveLedger
          MaxDrifts, MaxFaults, MaxChanges, MaxShown, MaxEdits, MaxClaims, MaxVersion  \* bounds

\* Accounts: an administrator to begin with.
ASSUME AccountsAssumption == Admins \cap Users # {}

\* Installation, Authority, HostBridge and ObserveLedger: None is nobody and nothing; an operation has a
\* version, its recovery row is claimed.
ASSUME NoneAssumption ==
  /\ None \notin Installers /\ None \notin Vms
  /\ None \notin {"running", "ok", "failed", "stage", "reload"}
  /\ None \notin [id : Ids, state : {"initializing", "schema_ready", "ready"}]
ASSUME BoundsAssumption ==
  MaxVersion \in Nat \ {0} /\ MaxClaims \in Nat \ {0} /\ MaxDrifts \in Nat /\ MaxFaults \in Nat /\ MaxEdits \in Nat

\* CreatePlanning: VMIDs are numbers, of which Proxmox proposes the least free; a draft asks for one or leaves
\* it to Proxmox; a cluster to create in has a template.
ASSUME PlanningAssumption ==
  /\ Vmids \subseteq Nat /\ Asked \subseteq Vmids \cup {None}
  /\ None \notin Jobs /\ Templates # {}

VARIABLES part, x1, x2, x3, x4, x5, x6, x7, x8, x9, x10

Evidence == INSTANCE VmEvidence WITH kind <- x1, world <- x2, before <- x3, phase <- x4, drifts <- x5, maker <- x6
Planning == INSTANCE CreatePlanning WITH
  world <- x1, snapshot <- x2, shown <- x3, op <- x4, request <- x5, lock <- x6, call <- x7, sent <- x8, changes <- x9
Credentials == INSTANCE Registration WITH
  conn <- x1, att <- x2, token <- x3, posts <- x4, work <- x5, pin <- x6, ctx <- x7, req <- x8, faults <- x9
Powers == INSTANCE Authority WITH intent <- x1, work <- x2, sent <- x3
People == INSTANCE Accounts WITH role <- x1, enabled <- x2, tx <- x3, login <- x4, req <- x5, late <- x6
Network == INSTANCE HostBridge WITH net <- x1, review <- x2, op <- x3, rec <- x4, act <- x5, history <- x6
Observing == INSTANCE ObserveLedger WITH version <- x1, rec <- x2, call <- x3, asked <- x4
Setup == INSTANCE Installation WITH
  foreign <- x1, marker <- x2, migrated <- x3, seeded <- x4, history <- x5, advisory <- x6, inst <- x7, setup <- x8,
  users <- x9, inserting <- x10

vars == <<part, x1, x2, x3, x4, x5, x6, x7, x8, x9, x10>>

Init ==
  \/ part = "evidence" /\ Evidence!Init /\ x7 = None /\ x8 = None /\ x9 = None /\ x10 = None
  \/ part = "planning" /\ Planning!Init /\ x10 = None
  \/ part = "registration" /\ Credentials!Init /\ x10 = None
  \/ /\ part = "authority" /\ Powers!Init
     /\ x4 = None /\ x5 = None /\ x6 = None /\ x7 = None /\ x8 = None /\ x9 = None /\ x10 = None
  \/ part = "accounts" /\ People!Init /\ x7 = None /\ x8 = None /\ x9 = None /\ x10 = None
  \/ part = "bridge" /\ Network!Init /\ x7 = None /\ x8 = None /\ x9 = None /\ x10 = None
  \/ /\ part = "ledger" /\ Observing!Init
     /\ x5 = None /\ x6 = None /\ x7 = None /\ x8 = None /\ x9 = None /\ x10 = None
  \/ part = "installation" /\ Setup!Init

Next ==
  /\ UNCHANGED part
  /\ \/ part = "evidence" /\ Evidence!Next /\ UNCHANGED <<x7, x8, x9, x10>>
     \/ part = "planning" /\ Planning!Next /\ UNCHANGED x10
     \/ part = "registration" /\ Credentials!Next /\ UNCHANGED x10
     \/ part = "authority" /\ Powers!Next /\ UNCHANGED <<x4, x5, x6, x7, x8, x9, x10>>
     \/ part = "accounts" /\ People!Next /\ UNCHANGED <<x7, x8, x9, x10>>
     \/ part = "bridge" /\ Network!Next /\ UNCHANGED <<x7, x8, x9, x10>>
     \/ part = "ledger" /\ Observing!Next /\ UNCHANGED <<x5, x6, x7, x8, x9, x10>>
     \/ part = "installation" /\ Setup!Next

Spec == Init /\ [][Next]_vars

\* Attempts and jobs are the same model values, requests and calls and transactions too.
Interchangeable == {f @@ g : f \in Permutations(Attempts), g \in Permutations(Requests)}

-----------------------------------------------------------------------------
(* The properties, stated and explained in the module of each part. *)

\* A success of a change is proven by what Proxmox shows, and a clean one is recognised.
EvidenceInv == part = "evidence" => Evidence!EvidenceInv

\* A creation is dispatched as reviewed, once per VMID, replayed, and refused only for a cause.
PlanningInv == part = "planning" => Planning!PlanningInv

\* Unfinished mutations keep the credential they were admitted with, and it lives.
CredentialInv == part = "registration" => Credentials!CredentialInv
\* Every token issued is accounted for.
TokenInv == part = "registration" => Credentials!TokenInv

\* What is admitted on its locks may be sent, is granted, and spares what exists.
AuthorityInv == part = "authority" => Powers!AuthorityInv

\* A node is reloaded once at most, with what was reviewed and nothing left behind.
BridgeInv == part = "bridge" => Network!BridgeInv

\* Each observe key is recorded once, to stay, and a refused one costs nothing.
LedgerIsKept ==
  /\ [](part = "ledger" => Observing!LedgerInv)
  /\ [][part = "ledger" => Observing!LedgerStep]_vars

\* Somebody is left to administer, until two promotions have outrun the guard.
AccountsInv == part = "accounts" => People!AccountsInv
\* Requests are served, and administrators' changes made, as the accounts allowed since they came.
RequestsInForce == part = "accounts" => People!RequestsInForce

\* The marker of an installation is true, only advances, and ends with its founder.
InstallationIsKept ==
  /\ [](part = "installation" => Setup!InstallationInv)
  /\ [][part = "installation" => Setup!MarkerStep]_vars
=============================================================================
