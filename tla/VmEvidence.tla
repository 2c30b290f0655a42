----------------------------- MODULE VmEvidence -----------------------------
(***************************************************************************)
(* What each kind of managed VM change reviews, sends, and accepts as      *)
(* proof of success, while somebody else administers the same cluster.     *)
(*                                                                         *)
(* A behaviour is one change: it is reviewed, reviewed again under its     *)
(* locks, sent once, executed by Proxmox wholly or in part, and verified.  *)
(* An outsider may change one thing of the cluster between any two steps   *)
(* (Gjallar's locks bind only Gjallar).  ManagedChange has the threads, the     *)
(* crashes and the records; here it is the evidence that matters.          *)
(***************************************************************************)
EXTENDS Naturals

CONSTANT MaxDrifts  \* bound: changes made by outsiders

Kinds == {"disk", "compute", "network", "clone", "delete", "migrate", "backup", "restore",
          "template", "cleanup"}

VARIABLES kind, world, before, phase, drifts, maker

vars == <<kind, world, before, phase, drifts, maker>>

(* The VM of a change (src), the VM it creates (dst), a disk of src, an unattached volume of
   the same VM id, the backup the change must keep (its content) and the one it makes, and
   the destination node or host network it depends on (1: as it must be).  hw stands for every option without a field of its own; 1 and 2 are
   the present and the requested value of whatever the change is about. *)

Vm == [power : {"running", "stopped"}, form : {"vm", "template"}, settled : BOOLEAN,
       auto : BOOLEAN, guarded : BOOLEAN, name : 1..2, hw : 1..2, cores : 1..2, net : 1..3,
       size : 1..2, actual : 1..2, mac : 1..3, node : 1..2, marker : {"none", "ours"}]
Absent == [power |-> "absent"]

Worlds == [src : Vm \cup {Absent}, dst : Vm \cup {Absent}, disk : BOOLEAN, stray : BOOLEAN,
           kept : 0..2, made : BOOLEAN, env : 1..2]

TypeOK ==
  /\ kind \in Kinds /\ world \in Worlds /\ before \in Worlds
  /\ phase \in {"reviewed", "admitted", "sent", "task_ok", "task_failed", "succeeded",
                "paused", "blocked"}
  /\ drifts \in 0..MaxDrifts /\ maker \in {"nobody", "us", "outsider"}

-----------------------------------------------------------------------------
(* Reading a VM: what the identity functions refuse. *)

Settled(v) == v # Absent /\ v.power = "stopped" /\ v.settled
Plain(v) == Settled(v) /\ v.form = "vm"
Sized(v) == v.size = v.actual

DiskReadable(v) == Plain(v) /\ Sized(v)
ComputeReadable(v) == Plain(v)
NetworkReadable(w) == Plain(w.src) /\ w.env = 1
CloneReadable(v) == Plain(v) /\ ~v.auto /\ Sized(v)
DeleteReadable(v) == Plain(v) /\ ~v.guarded
MigrateReadable(v) == Plain(v) /\ ~v.auto /\ ~v.guarded /\ Sized(v)
SourceReadable(v) == Plain(v) /\ ~v.guarded
TemplateReadable(v, form) == Settled(v) /\ v.form = form /\ ~v.guarded

\* PVE's digest covers the configuration, and neither the power state nor the volume itself.
Digest(v) == IF v = Absent THEN v ELSE [v EXCEPT !.power = "stopped", !.actual = v.size]

(* The reviews, on the live cluster: they refuse a new VM id in use, a deletion whose owned disk
   cannot be found, a migration without a ready destination, a restore without its archive, and
   the clean-up of a template that an image build of ours did not make. *)

CloneReviewable(w) == CloneReadable(w.src) /\ w.dst = Absent
DeleteReviewable(w) == DeleteReadable(w.src) /\ w.disk
MigrateReviewable(w) == MigrateReadable(w.src) /\ w.src.node = 1 /\ w.env = 1
RestoreReviewable(w) == SourceReadable(w.src) /\ w.dst = Absent /\ w.kept # 0
CleanupReviewable(w) == TemplateReadable(w.src, "template") /\ w.src.marker = "ours" /\ w.disk

Reviewable(k, w) ==
  CASE k = "disk" -> DiskReadable(w.src)
    [] k = "compute" -> ComputeReadable(w.src)
    [] k = "network" -> NetworkReadable(w)
    [] k = "clone" -> CloneReviewable(w)
    [] k = "delete" -> DeleteReviewable(w)
    [] k = "migrate" -> MigrateReviewable(w)
    [] k = "backup" -> SourceReadable(w.src)
    [] k = "restore" -> RestoreReviewable(w)
    [] k = "template" -> TemplateReadable(w.src, "vm")
    [] k = "cleanup" -> CleanupReviewable(w)

(* check_expected: the request names the digest, and the resources beside the VM, that were
   shown to the user. *)

DeletionExpected(w, b) == w.stray = b.stray
ArchiveExpected(w, b) == w.kept = b.kept
DestinationExpected(w, b) == w.env = b.env

Expected(k, w, b) ==
  /\ Digest(w.src) = Digest(b.src)
  /\ k \in {"delete", "cleanup"} => DeletionExpected(w, b)
  /\ k \in {"backup", "restore"} => ArchiveExpected(w, b)
  /\ k = "migrate" => DestinationExpected(w, b)

-----------------------------------------------------------------------------
(* Executing a change (Proxmox). *)

\* The writes of these kinds carry the reviewed digest, and PVE compares it.
Conditional == {"disk", "compute", "network"}

Copy(v, mac, net, name) ==
  [v EXCEPT !.mac = mac, !.net = net, !.name = name, !.marker = "ours", !.power = "stopped",
            !.settled = TRUE, !.auto = FALSE, !.guarded = FALSE, !.form = "vm", !.actual = v.size]

Effect(k, w) ==
  CASE k = "disk" -> [w EXCEPT !.src.size = 2, !.src.actual = 2]
    [] k = "compute" -> [w EXCEPT !.src.cores = 2]
    [] k = "network" -> [w EXCEPT !.src.net = 2]
    [] k = "clone" -> [w EXCEPT !.dst = Copy(w.src, 2, w.src.net, 2)]
    [] k \in {"delete", "cleanup"} -> [w EXCEPT !.src = Absent, !.disk = FALSE]
    [] k = "migrate" -> [w EXCEPT !.src.node = 2]
    [] k = "backup" -> [w EXCEPT !.made = TRUE]
    [] k = "restore" -> [w EXCEPT !.dst = [Copy(before.src, 3, 3, 2) EXCEPT !.hw = w.kept]]
    [] k = "template" -> [w EXCEPT !.src.form = "template"]

\* A task that claims success and left something undone: the configuration is gone but the
\* disk remains, the volume differs from its configuration, or nothing changed at all.
Residue(k, w) ==
  {w} \cup
  CASE k \in {"delete", "cleanup"} -> {[w EXCEPT !.src = Absent]}
    [] k = "disk" -> {[w EXCEPT !.src.size = 2]}
    [] k \in {"clone", "restore"} -> {[Effect(k, w) EXCEPT !.dst.actual = 3 - @]}
    [] OTHER -> {}

-----------------------------------------------------------------------------
(* What counts as proof. *)

DiskMatches(w, b) == DiskReadable(w.src) /\ w.src.name = b.src.name /\ w.src.size = 2

ComputeMatches(w, b) == ComputeReadable(w.src) /\ w.src.name = b.src.name /\ w.src.cores = 2

NetworkMatches(w, b) ==
  NetworkReadable(w) /\ w.src.name = b.src.name /\ w.src.net = 2 /\ w.src.mac = b.src.mac

CloneMatches(w, b) ==
  /\ CloneReadable(w.src) /\ w.src = b.src
  /\ CloneReadable(w.dst) /\ w.dst.name = 2 /\ w.dst.marker = "ours"
  /\ w.dst.size = b.src.size /\ w.dst.cores = b.src.cores /\ w.dst.net = b.src.net
  /\ w.dst.mac # b.src.mac

\* Wrong: the absence of the VM proves that its disk is gone and the other volume is not.
DeletionOfConfig(w, b) == w.src = Absent

\* The VM id is unused, the owned disk is gone, and every other volume is as reviewed.
DeletionMatches(w, b) == w.src = Absent /\ ~w.disk /\ (b.stray => w.stray)

\* Everything but the digest is compared, and the destination as it was reviewed.
MigrateMatches(w, b) ==
  /\ w.src # Absent /\ w.src.node = 2
  /\ MigrateReadable(w.src)
  /\ w.src = [b.src EXCEPT !.node = 2]
  /\ w.env = b.env

BackupMatches(w, b) ==
  /\ SourceReadable(w.src) /\ Digest(w.src) = Digest(b.src)
  /\ w.made /\ w.kept = b.kept

RestoreMatches(w, b) ==
  /\ SourceReadable(w.src) /\ Digest(w.src) = Digest(b.src)
  /\ w.kept = b.kept
  /\ SourceReadable(w.dst) /\ ~w.dst.auto /\ w.dst.name = 2 /\ w.dst.marker = "ours"
  /\ w.dst.hw = b.kept /\ w.dst.mac = 3 /\ w.dst.net = 3 /\ w.dst.actual = b.src.size

\* The fingerprint is of the configuration without digest, template flag and root volume.
TemplateMatches(w, b) ==
  /\ TemplateReadable(w.src, "template")
  /\ Digest(w.src) = [Digest(b.src) EXCEPT !.form = "template"]
  /\ w.src.actual = b.src.actual

Matches(k, w, b) ==
  CASE k = "disk" -> DiskMatches(w, b)
    [] k = "compute" -> ComputeMatches(w, b)
    [] k = "network" -> NetworkMatches(w, b)
    [] k = "clone" -> CloneMatches(w, b)
    [] k \in {"delete", "cleanup"} -> DeletionMatches(w, b)
    [] k = "migrate" -> MigrateMatches(w, b)
    [] k = "backup" -> BackupMatches(w, b)
    [] k = "restore" -> RestoreMatches(w, b)
    [] k = "template" -> TemplateMatches(w, b)

-----------------------------------------------------------------------------

Start(k) ==
  LET v == [power |-> "stopped", form |-> IF k = "cleanup" THEN "template" ELSE "vm",
            settled |-> TRUE, auto |-> FALSE, guarded |-> FALSE, name |-> 1, hw |-> 1,
            cores |-> 1, net |-> 1, size |-> 1, actual |-> 1, mac |-> 1, node |-> 1,
            marker |-> IF k = "cleanup" THEN "ours" ELSE "none"]
  IN [src |-> v, dst |-> Absent, disk |-> TRUE, stray |-> TRUE, kept |-> 1, made |-> FALSE,
      env |-> 1]

Init ==
  /\ kind \in Kinds
  /\ world = Start(kind) /\ before = world
  /\ phase = "reviewed" /\ drifts = 0 /\ maker = "nobody"

\* One field of one VM; a marker is written by nobody but Gjallar.
Touched(v) ==
  {[v EXCEPT !.power = IF @ = "stopped" THEN "running" ELSE "stopped"],
   [v EXCEPT !.settled = ~@], [v EXCEPT !.auto = ~@], [v EXCEPT !.guarded = ~@],
   [v EXCEPT !.hw = 3 - @], [v EXCEPT !.cores = 3 - @], [v EXCEPT !.net = 2],
   [v EXCEPT !.name = 3 - @], [v EXCEPT !.mac = 2], [v EXCEPT !.size = 2, !.actual = 2]}

Outsider ==
  /\ drifts < MaxDrifts /\ drifts' = drifts + 1
  /\ phase \notin {"succeeded", "paused", "blocked"}
  /\ \/ /\ world.src # Absent /\ \E v \in Touched(world.src) : world' = [world EXCEPT !.src = v]
        /\ UNCHANGED maker
     \/ /\ world.dst # Absent
        /\ \E v \in Touched(world.dst) \cup {Absent} : world' = [world EXCEPT !.dst = v]
        /\ UNCHANGED maker
     \/ /\ world.dst = Absent
        /\ world' = [world EXCEPT !.dst = [Copy(Start(kind).src, 2, 1, 2) EXCEPT !.marker = "none"]]
        /\ maker' = "outsider"
     \/ /\ \E w \in {[world EXCEPT !.stray = ~@], [world EXCEPT !.kept = 0],
                     [world EXCEPT !.env = 2]} : world' = w
        /\ UNCHANGED maker
  /\ UNCHANGED <<kind, before, phase>>

\* The second review, under the locks.
Recheck ==
  /\ phase = "reviewed"
  /\ phase' = IF Reviewable(kind, world) /\ Expected(kind, world, before) THEN "admitted" ELSE "blocked"
  /\ UNCHANGED <<kind, world, before, drifts, maker>>

Send ==
  /\ phase = "admitted"
  /\ phase' = IF kind \in Conditional /\ Digest(world.src) # Digest(before.src) THEN "paused" ELSE "sent"
  /\ UNCHANGED <<kind, world, before, drifts, maker>>

\* PVE creates no VM over an existing one, and none from a source that is gone.
Execute ==
  /\ phase = "sent"
  /\ \/ /\ world.src # Absent
        /\ kind \in {"clone", "restore"} => world.dst = Absent
        /\ kind = "restore" => world.kept # 0
        /\ world' \in {Effect(kind, world)} \cup Residue(kind, world)
        /\ maker' = IF world'.dst # world.dst THEN "us" ELSE maker
        /\ phase' \in {"task_ok"} \cup IF world' = Effect(kind, world) THEN {} ELSE {"task_failed"}
     \/ phase' = "task_failed" /\ UNCHANGED <<world, maker>>
  /\ UNCHANGED <<kind, before, drifts>>

Verify ==
  /\ phase \in {"task_ok", "task_failed"}
  /\ phase' = IF phase = "task_ok" /\ Matches(kind, world, before) THEN "succeeded" ELSE "paused"
  /\ UNCHANGED <<kind, world, before, drifts, maker>>

Next == Outsider \/ Recheck \/ Send \/ Execute \/ Verify

Spec == Init /\ [][Next]_vars

-----------------------------------------------------------------------------
(* Properties. *)

\* What the review screens promise to leave alone is as reviewed whenever success is
\* reported: the source of a copy, the archive and source of a backup or restore, the guest
\* settings of a migrated or converted VM, the volumes a deletion does not own.
PromisesAreKept ==
  phase = "succeeded" =>
    /\ kind \in {"clone", "backup", "restore"} => Digest(world.src) = Digest(before.src)
    /\ kind \in {"backup", "restore"} => world.kept = before.kept
    /\ kind = "migrate" => world.src.hw = before.src.hw /\ world.src.cores = before.src.cores
    /\ kind = "template" => world.src.hw = before.src.hw /\ world.src.net = before.src.net
    /\ kind \in {"delete", "cleanup"} => (before.stray => world.stray)
    /\ kind = "network" => world.src.mac = before.src.mac

\* Success is never reported over something half done: the disk of a deleted VM is gone, a
\* resized or created volume has the size its configuration claims.
NothingHalfDone ==
  phase = "succeeded" =>
    /\ kind \in {"delete", "cleanup"} => ~world.disk
    /\ kind = "disk" => world.src.actual = 2
    /\ kind \in {"clone", "restore"} => world.dst.actual = before.src.size

\* The VM a successful clone or restore points to was made by it, not by an outsider who took
\* the VM id in between.
CreatedByUs == phase = "succeeded" /\ kind \in {"clone", "restore"} => maker = "us"

\* A change nobody interfered with and that Proxmox completed is recognised as a success:
\* evidence demands nothing that the change itself, or PVE, alters.
CleanChangeSucceeds ==
  phase = "paused" /\ drifts = 0 => world # Effect(kind, before)

\* A recorded success tells the truth about Proxmox: the review's promises kept, nothing half
\* done, the VM one of ours; and an undisturbed success is recognised.
EvidenceInv == TypeOK /\ PromisesAreKept /\ NothingHalfDone /\ CreatedByUs /\ CleanChangeSucceeds

\* Why: while nobody interferes the cluster is as reviewed until the change runs, and a VM with
\* our marker was made by us.
Undisturbed ==
  drifts = 0 => /\ phase \in {"reviewed", "admitted", "sent"} => world = before
                /\ phase = "task_failed" => world # Effect(kind, before)
Marked == world.dst # Absent /\ world.dst.marker = "ours" => maker = "us"
IInv == EvidenceInv /\ before = Start(kind) /\ Undisturbed /\ Marked

=============================================================================
