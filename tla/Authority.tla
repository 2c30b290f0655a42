------------------------------ MODULE Authority ------------------------------
(***************************************************************************)
(* What a registered connection lets Gjallar do.  Four tables, kept apart  *)
(* in the code, must agree: what a registration may select, the roles that *)
(* are granted for it, the targets a mutation is admitted on, and the      *)
(* requests the transport lets through.  A review asks Proxmox for the     *)
(* privileges an operation needs before anything is recorded.              *)
(***************************************************************************)
EXTENDS Naturals, FiniteSets

CONSTANTS Vms, Nodes,
          Store, Bridge,  \* the one storage and the one bridge of every list
          None,
          MaxChosen       \* features submitted beside reading, and lists a VM is in

VARIABLES intent,  \* the registration in force
          work,    \* an operation that holds its target locks
          sent     \* what became of its request

vars == <<intent, work, sent>>

Features == {"power", "compute", "create", "disk", "network", "clone", "delete", "console", "template",
             "image_build", "image_cleanup", "backup", "restore", "migrate", "host_storage", "host_network"}
VmLists == {"vmids", "template_vmids", "create_vmids", "clone_vmids", "image_vmids", "restore_vmids"}
StoreLists == {"storages", "backup_storages", "restore_storages", "image_cleanup_storages", "host_storages"}
OtherLists == StoreLists \cup {"nodes", "bridges", "host_bridges"}

\* The lists a form fills in for some features.
ListsOf(fs) ==
  {"nodes", "storages", "bridges"}
    \cup (IF fs \cap {"backup", "restore"} # {} THEN {"backup_storages"} ELSE {})
    \cup (IF "restore" \in fs THEN {"restore_storages"} ELSE {})
    \cup (IF "image_cleanup" \in fs THEN {"image_cleanup_storages"} ELSE {})
    \cup (IF "host_storage" \in fs THEN {"host_storages"} ELSE {})
    \cup (IF "host_network" \in fs THEN {"host_bridges"} ELSE {})

Full(list) == CASE list = "nodes" -> Nodes
                [] list \in {"bridges", "host_bridges"} -> {Bridge}
                [] OTHER -> {Store}

VmListsOf(fs) ==
  {"vmids"} \cup (IF "create" \in fs THEN {"template_vmids", "create_vmids"} ELSE {})
            \cup (IF "clone" \in fs THEN {"clone_vmids"} ELSE {})
            \cup (IF "image_build" \in fs THEN {"image_vmids"} ELSE {})
            \cup (IF "restore" \in fs THEN {"restore_vmids"} ELSE {})

Chosen == {fs \in SUBSET Features : Cardinality(fs) <= MaxChosen}
UpTo(n, lists) == {ls \in SUBSET lists : Cardinality(ls) <= n}
Scoped(fs, of, but) == [features : {fs}, cluster : {FALSE}, of : of, but : but]

\* What is submitted: a few features beside reading; a VM in any list or in some that go with
\* them; or else one list of another kind forgotten or superfluous; or the whole cluster.
Intents ==
  UNION {Scoped(fs, [Vms -> UpTo(MaxChosen, VmListsOf(fs)) \cup UpTo(1, VmLists)], {None})
         \cup Scoped(fs, [Vms -> UpTo(1, VmListsOf(fs))], OtherLists)
         \cup [features : {fs}, cluster : {TRUE}, of : [Vms -> {{}}], but : {None}] : fs \in Chosen}

\* request_scope: a cluster connection has every target a request names in every list.
In(i, v, list) == i.cluster \/ list \in i.of[v]
Vm(i, list) == {v \in Vms : In(i, v, list)}
List(i, list) ==
  IF i.cluster \/ (list \in ListsOf(i.features)) # (i.but = list) THEN Full(list) ELSE {}
TwoNodes(i) == \E m, n \in List(i, "nodes") : m # n

-----------------------------------------------------------------------------
(* RegistrationIntent.creation_scope *)

Disjoint(i, list, others) == \A v \in Vms : list \in i.of[v] => i.of[v] \cap others = {}
Present(i, vms, lists) == (\A l \in vms : Vm(i, l) # {}) /\ (\A l \in lists : List(i, l) # {})
Absent(i, vms, lists) == (\A l \in vms : Vm(i, l) = {}) /\ (\A l \in lists : List(i, l) = {})

\* VMs that are to be made are not VMs that exist, nor what another feature is to make.
Separate(i) ==
  /\ "restore" \in i.features => Disjoint(i, "restore_vmids", VmLists \ {"restore_vmids"})
  /\ "image_build" \in i.features =>
       Disjoint(i, "image_vmids", VmLists \ {"image_vmids", "restore_vmids"})
  /\ "clone" \in i.features => Disjoint(i, "clone_vmids", {"vmids", "template_vmids", "create_vmids"})
  /\ "create" \in i.features => Disjoint(i, "create_vmids", {"vmids", "template_vmids"})

Valid(i) ==
  \/ i.cluster
  \/ /\ Separate(i) /\ List(i, "nodes") # {}
     /\ ("host_network" \in i.features) = (List(i, "host_bridges") # {})
     /\ ("host_storage" \in i.features) = (List(i, "host_storages") # {})
     /\ "migrate" \in i.features =>
          TwoNodes(i) /\ Present(i, {"vmids"}, {"storages", "bridges"})
     /\ IF i.features \cap {"backup", "restore"} # {}
        THEN Present(i, {"vmids"}, {"backup_storages", "storages"})
        ELSE Absent(i, {}, {"backup_storages"})
     /\ IF "restore" \in i.features
        THEN Present(i, {"restore_vmids"}, {"restore_storages", "storages", "bridges"})
        ELSE Absent(i, {"restore_vmids"}, {"restore_storages"})
     /\ IF "image_cleanup" \in i.features
        THEN Present(i, {"vmids"}, {"image_cleanup_storages", "storages"})
        ELSE Absent(i, {}, {"image_cleanup_storages"})
     /\ IF "image_build" \in i.features
        THEN Present(i, {"image_vmids"}, {"storages", "bridges"})
        ELSE Absent(i, {"image_vmids"}, {})
     /\ IF "clone" \in i.features
        THEN Present(i, {"vmids", "clone_vmids"}, {"storages", "bridges"})
        ELSE Absent(i, {"clone_vmids"}, {})
     /\ "network" \in i.features => List(i, "bridges") # {}
     /\ "template" \in i.features => Present(i, {"vmids"}, {"storages"})
     /\ i.features \cap {"delete", "disk"} # {} => List(i, "storages") # {}
     /\ IF "create" \in i.features
        THEN Present(i, {"template_vmids", "create_vmids"}, {"storages", "bridges"})
        ELSE Absent(i, {"create_vmids", "template_vmids"}, {})

-----------------------------------------------------------------------------
(* planning.py: the roles of each feature and the paths they are granted at. *)

RolePrivileges ==
  [HostNetwork |-> {"Sys.Modify"}, HostStorage |-> {"Datastore.Allocate"},
   VmMigrate |-> {"VM.Migrate", "VM.Config.Disk"},
   VmRestore |-> {"VM.Allocate", "VM.Audit", "VM.Config.Disk", "VM.PowerMgmt", "VM.GuestAgent.Audit"},
   VmBackup |-> {"VM.Backup"}, ImageCleanup |-> {"VM.Allocate", "VM.Audit"},
   ImageCleanupStorage |-> {"Datastore.Allocate"},
   ImageBuild |-> {"VM.Allocate", "VM.Audit", "VM.Config.CPU", "VM.Config.Memory", "VM.Config.HWType",
                   "VM.Config.Options", "VM.Config.Disk", "VM.Config.Network"},
   ImageUpload |-> {"Datastore.AllocateTemplate"}, NodeRead |-> {"Sys.Audit"},
   VmRead |-> {"VM.Audit", "VM.GuestAgent.Audit"},
   VmPower |-> {"VM.Audit", "VM.GuestAgent.Audit", "VM.PowerMgmt"},
   VmCompute |-> {"VM.Config.CPU", "VM.Config.Memory"}, VmConsole |-> {"VM.Console"},
   VmTemplate |-> {"VM.Allocate", "VM.Config.Disk"}, VmDelete |-> {"VM.Allocate"},
   VmDeleteStorage |-> {"Datastore.Allocate"}, VmClone |-> {"VM.Audit", "VM.Clone", "VM.Config.Disk"},
   VmCloneTarget |-> {"VM.Allocate", "VM.Audit", "VM.Config.Disk"},
   VmNetwork |-> {"VM.Config.Network"}, VmDisk |-> {"VM.Config.Disk"},
   StorageRead |-> {"Datastore.Audit"}, BridgeRead |-> {"SDN.Audit"},
   TemplateClone |-> {"VM.Audit", "VM.Clone"},
   VmCreate |-> {"VM.Allocate", "VM.Audit", "VM.Config.CPU", "VM.Config.Memory", "VM.Config.Disk",
                 "VM.Config.Network", "VM.Config.Options", "VM.Config.Cloudinit", "VM.GuestAgent.Audit",
                 "VM.GuestAgent.Unrestricted", "VM.PowerMgmt"},
   StorageAllocate |-> {"Datastore.AllocateSpace"}, BridgeUse |-> {"SDN.Use"}]

ClusterRoles ==
  [read |-> {"NodeRead", "VmRead", "StorageRead", "BridgeRead"}, power |-> {"VmPower"},
   compute |-> {"VmCompute"}, console |-> {"VmConsole"}, template |-> {"VmTemplate"},
   delete |-> {"VmDelete", "VmDeleteStorage"}, disk |-> {"VmDisk", "StorageAllocate"},
   network |-> {"VmNetwork", "BridgeUse"},
   clone |-> {"VmClone", "VmCloneTarget", "StorageAllocate", "BridgeUse"},
   create |-> {"TemplateClone", "VmCreate", "StorageAllocate", "BridgeUse"},
   backup |-> {"VmBackup", "StorageAllocate"},
   restore |-> {"VmBackup", "VmRestore", "StorageAllocate", "BridgeUse"},
   migrate |-> {"VmMigrate", "BridgeUse"},
   image_build |-> {"ImageBuild", "ImageUpload", "StorageAllocate", "BridgeUse"},
   image_cleanup |-> {"ImageCleanup", "ImageCleanupStorage"},
   host_storage |-> {"HostStorage"}, host_network |-> {"HostNetwork"}]

\* acl_plan: what a feature grants on the VMs, the storages of a list.
VmGrants ==
  {<<"read", "vmids", "VmRead">>, <<"power", "vmids", "VmPower">>, <<"migrate", "vmids", "VmMigrate">>,
   <<"compute", "vmids", "VmCompute">>, <<"network", "vmids", "VmNetwork">>,
   <<"disk", "vmids", "VmDisk">>, <<"backup", "vmids", "VmBackup">>, <<"restore", "vmids", "VmBackup">>,
   <<"restore", "restore_vmids", "VmRestore">>, <<"image_cleanup", "vmids", "ImageCleanup">>,
   <<"image_build", "image_vmids", "ImageBuild">>, <<"template", "vmids", "VmTemplate">>,
   <<"console", "vmids", "VmConsole">>, <<"delete", "vmids", "VmDelete">>, <<"clone", "vmids", "VmClone">>,
   <<"clone", "clone_vmids", "VmCloneTarget">>, <<"create", "template_vmids", "TemplateClone">>,
   <<"create", "create_vmids", "VmCreate">>}

StoreGrants ==
  {<<"read", "storages", "StorageRead">>, <<"host_storage", "host_storages", "StorageRead">>,
   <<"disk", "storages", "StorageAllocate">>, <<"backup", "backup_storages", "StorageAllocate">>,
   <<"restore", "backup_storages", "StorageAllocate">>, <<"restore", "restore_storages", "StorageAllocate">>,
   <<"image_cleanup", "image_cleanup_storages", "ImageCleanupStorage">>,
   <<"image_build", "storages", "ImageUpload">>, <<"image_build", "storages", "StorageAllocate">>,
   <<"delete", "storages", "VmDeleteStorage">>, <<"clone", "storages", "StorageAllocate">>,
   <<"create", "storages", "StorageAllocate">>}

Privileges(roles) == UNION {RolePrivileges[r] : r \in roles}
ForCluster(i) == UNION {ClusterRoles[f] : f \in i.features \cup {"read"}}

OnVm(i, v) ==
  Privileges(IF i.cluster THEN ForCluster(i)
             ELSE {g[3] : g \in {g \in VmGrants : g[1] \in i.features \cup {"read"} /\ In(i, v, g[2])}})

OnStore(i) ==
  Privileges(IF i.cluster THEN ForCluster(i)
             ELSE {g[3] : g \in {g \in StoreGrants : /\ g[1] \in i.features \cup {"read"}
                                                     /\ List(i, g[2]) # {}}})

OnBridge(i) ==
  Privileges(IF i.cluster THEN ForCluster(i)
             ELSE IF List(i, "bridges") = {} THEN {}
             ELSE {"BridgeRead"} \cup
                  IF i.features \cap {"migrate", "network", "restore", "image_build", "clone", "create"} = {}
                  THEN {} ELSE {"BridgeUse"})

OnNode(i) ==
  Privileges(IF i.cluster THEN ForCluster(i)
             ELSE {"NodeRead"} \cup IF "host_network" \in i.features THEN {"HostNetwork"} ELSE {})

-----------------------------------------------------------------------------
(* What the review of an operation asks of the token: on the VM, on a second *)
(* VM, on the storage, on the bridge, on the node.                           *)

Asks(vm, new, store, bridge, node) ==
  [vm |-> vm, new |-> new, store |-> store, bridge |-> bridge, node |-> node]

Needs ==
  [power |-> Asks({"VM.PowerMgmt"}, {}, {}, {}, {}),
   compute |-> Asks({"VM.Audit", "VM.Config.CPU", "VM.Config.Memory"}, {}, {}, {}, {}),
   network |-> Asks({"VM.Audit", "VM.Config.Network"}, {}, {}, {"SDN.Use"}, {}),
   disk |-> Asks({"VM.Audit", "VM.Config.Disk"}, {}, {"Datastore.Audit", "Datastore.AllocateSpace"}, {}, {}),
   clone |-> Asks({"VM.Audit", "VM.Clone", "VM.Config.Disk"}, {"VM.Audit", "VM.Allocate", "VM.Config.Disk"},
                  {"Datastore.Audit", "Datastore.AllocateSpace"}, {"SDN.Use"}, {}),
   delete |-> Asks({"VM.Audit", "VM.Allocate"}, {}, {"Datastore.Audit", "Datastore.Allocate"}, {}, {}),
   template |-> Asks({"VM.Audit", "VM.Allocate", "VM.Config.Disk"}, {}, {"Datastore.Audit"}, {}, {}),
   image_build |-> Asks(RolePrivileges.ImageBuild, {},
                        {"Datastore.Audit", "Datastore.AllocateTemplate", "Datastore.AllocateSpace"},
                        {"SDN.Use"}, {}),
   image_cleanup |-> Asks({"VM.Audit", "VM.Allocate"}, {}, {"Datastore.Audit", "Datastore.Allocate"}, {}, {}),
   backup |-> Asks({"VM.Audit", "VM.Backup"}, {}, {"Datastore.Audit", "Datastore.AllocateSpace"}, {},
                   {"Sys.Audit"}),
   restore |-> Asks({"VM.Audit", "VM.Backup"}, RolePrivileges.VmRestore,
                    {"Datastore.Audit", "Datastore.AllocateSpace"}, {"SDN.Use"}, {"Sys.Audit"}),
   migrate |-> Asks({"VM.Audit", "VM.Migrate", "VM.Config.Disk"}, {}, {"Datastore.Audit"}, {"SDN.Use"},
                   {"Sys.Audit"}),
   console |-> Asks({"VM.Console"}, {}, {}, {}, {})]

Kinds == DOMAIN Needs
TwoVms == {"clone", "restore"}

Reviewed(i, k, v, w) ==
  /\ Needs[k].vm \subseteq OnVm(i, v)
  /\ w # None => Needs[k].new \subseteq OnVm(i, w)
  /\ Needs[k].store \subseteq OnStore(i) /\ Needs[k].bridge \subseteq OnBridge(i)
  /\ Needs[k].node \subseteq OnNode(i)
  /\ k = "migrate" => TwoNodes(i)

-----------------------------------------------------------------------------
(* admit_mutation and console_selection: under the locks, on each VM. *)

Made(i, v, feature, list) == feature \in i.features /\ ~i.cluster /\ In(i, v, list)

\* Wrong: any change is admitted on a VM that was created.
AdmittedWhenMade(i, k, v) ==
  k \in i.features /\ (i.cluster \/ In(i, v, "vmids") \/ In(i, v, "create_vmids"))

Admitted(i, k, v) ==
  LET created == Made(i, v, "create", "create_vmids")
      restored == Made(i, v, "restore", "restore_vmids")
  IN /\ k \in i.features \/ (k = "power" /\ (created \/ restored))
     /\ \/ i.cluster
        \/ /\ k = "image_build" /\ In(i, v, "image_vmids")
        \/ /\ k # "image_build" /\ In(i, v, "vmids")
        \/ /\ k \in {"power", "compute", "disk", "network", "delete"} /\ In(i, v, "create_vmids")
        \/ /\ k = "power" /\ restored
        \/ /\ k = "restore" /\ In(i, v, "restore_vmids")
        \/ /\ k = "clone" /\ In(i, v, "clone_vmids")

-----------------------------------------------------------------------------
(* ManagedRequests.request: the request that changes something, let through. *)

Some(i, lists) == \A l \in lists : List(i, l) # {}

NetworkAllowed(i, v) == (In(i, v, "vmids") \/ In(i, v, "create_vmids")) /\ Some(i, {"bridges"})
CloneAllowed(i, v, w) == In(i, v, "vmids") /\ In(i, w, "clone_vmids") /\ Some(i, {"storages"})
BuildAllowed(i, v) == In(i, v, "image_vmids") /\ Some(i, {"storages", "bridges"})
CleanupAllowed(i, v) == In(i, v, "vmids") /\ Some(i, {"image_cleanup_storages"})
MigrateAllowed(i, v) == In(i, v, "vmids") /\ TwoNodes(i)
BackupAllowed(i, v) == In(i, v, "vmids") /\ Some(i, {"backup_storages"})
RestoreAllowed(i, v, w) ==
  In(i, v, "vmids") /\ In(i, w, "restore_vmids") /\ Some(i, {"restore_storages", "backup_storages", "bridges"})

\* What a request may touch of a creation: its own VM is started by it too.
CreateAllowed(i, v) == "create" \in i.features /\ In(i, v, "create_vmids")
RestorePower(i, v) == "restore" \in i.features /\ In(i, v, "restore_vmids")

Passes(i, k, v, w) ==
  LET existing == In(i, v, "vmids") \/ In(i, v, "create_vmids")
  IN \/ /\ k = "power"
        /\ (existing /\ k \in i.features) \/ CreateAllowed(i, v) \/ RestorePower(i, v)
     \/ /\ k \in i.features
        /\ \/ k \in {"compute", "disk", "delete"} /\ existing
           \/ k \in {"template", "console"} /\ In(i, v, "vmids")
           \/ k = "network" /\ NetworkAllowed(i, v)
           \/ k = "clone" /\ CloneAllowed(i, v, w)
           \/ k = "image_build" /\ BuildAllowed(i, v)
           \/ k = "image_cleanup" /\ CleanupAllowed(i, v)
           \/ k = "migrate" /\ MigrateAllowed(i, v)
           \/ k = "backup" /\ BackupAllowed(i, v)
           \/ k = "restore" /\ RestoreAllowed(i, v, w)

-----------------------------------------------------------------------------

Others(k) == IF k \in TwoVms THEN Vms ELSE {None}

Init == intent = None /\ work = None /\ sent = "no"

\* plan: what is not valid is refused and leaves nothing.
Register ==
  /\ intent = None /\ \E i \in Intents : Valid(i) /\ intent' = i
  /\ UNCHANGED <<work, sent>>

\* A review, then the locks of every VM the operation touches.
Admit(k, v, w) ==
  /\ intent # None /\ work = None /\ v # w
  /\ Reviewed(intent, k, v, w)
  /\ Admitted(intent, k, v) /\ (w # None => Admitted(intent, k, w))
  /\ work' = [kind |-> k, vm |-> v, new |-> w]
  /\ UNCHANGED <<intent, sent>>

Send ==
  /\ work # None /\ sent = "no"
  /\ sent' = IF Passes(intent, work.kind, work.vm, work.new) THEN "sent" ELSE "refused"
  /\ UNCHANGED <<intent, work>>

Next == Register \/ Send \/ \E k \in Kinds, v \in Vms : \E w \in Others(k) : Admit(k, v, w)

Spec == Init /\ [][Next]_vars

-----------------------------------------------------------------------------
(* Properties. *)

Exists(v) == ~intent.cluster /\ (In(intent, v, "vmids") \/ In(intent, v, "template_vmids"))

\* An operation that holds its locks is not stopped by Gjallar's own transport, where nobody
\* could tell whether its request was sent.  A second VM that existed when the connection was
\* registered is refused by the review.
AdmittedIsSent ==
  sent = "refused" => work.new # None /\ Exists(work.new)

\* What the transport lets through Proxmox lets through: a feature that could be selected is
\* granted all it needs on each target it works on.
PassesIsGranted ==
  intent # None =>
    \A k \in Kinds, v \in Vms : \A w \in Others(k) :
      v # w /\ Passes(intent, k, v, w) => Reviewed(intent, k, v, w)

\* A template that is not listed as a VM of its own is never changed, and nothing is made in
\* the place of a VM that exists.
ExistingIsSpared ==
  intent # None =>
    \A k \in Kinds, v \in Vms : \A w \in Others(k) :
      v # w /\ Passes(intent, k, v, w) =>
        /\ Exists(v) => In(intent, v, "vmids")
        /\ k = "image_build" => ~Exists(v)
        /\ w # None => ~Exists(w)

\* The four tables of selection, grant, admission and transport agree.
AuthorityInv == AdmittedIsSent /\ PassesIsGranted /\ ExistingIsSpared

-----------------------------------------------------------------------------
(* The inductive invariant. *)

\* Work was reviewed and admitted under the selection in force, and stopped only by its transport.
WorkSound(k, v, w) ==
  /\ Reviewed(intent, k, v, w)
  /\ Admitted(intent, k, v) /\ (w # None => Admitted(intent, k, w))
  /\ sent = "refused" => ~Passes(intent, k, v, w)

IInv ==
  /\ intent # None => Valid(intent)
  /\ sent # "no" => work # None
  /\ work # None =>
       /\ intent # None
       /\ \E k \in Kinds, v \in Vms : \E w \in Others(k) :
            work = [kind |-> k, vm |-> v, new |-> w] /\ v # w /\ WorkSound(k, v, w)

=============================================================================
