# Gjallar: a verification development

Gjallar is a FastAPI service that changes a Proxmox cluster on behalf of operators: it starts,
stops, creates, clones, migrates and configures VMs and the networks and storages of nodes. Proxmox
calls and the PostgreSQL database are not one transaction, answers get lost, processes die, several
actors (requests, a background runner, operators, processes) work on the same rows, and other
administrators work on the same cluster. These modules model that coordination, model-check it with
TLC and prove the core of it with TLAPS.

Paths below are relative to `src/backend/app/` unless they start with `project-docs/`.

## 1. The system

| Component | State | Operations | Talks to | What makes it correct |
|---|---|---|---|---|
| Operation state machine and store (`operations/core`) | `operations` row (status, version, details), checksum-linked events | create, transition, two conditional transitions, append in a caller's transaction | every workflow | only allowed transitions; a version moves with every event; terminal means decided |
| Target locks (`operations/locks`) | `operation_locks`: one open row per VM, or the one of the host configuration | acquire, current, release, admission of several | workflows, recovery commits | one open lock per target across action types; released only when nothing can act any more |
| Recovery store (`operations/recovery/infrastructure`) | `operation_recovery_items`: status, lease token, generation and expiry, attempts, observe keys | prepare_and_claim, claim_operation, claim_due, heartbeat, commit_observation | workflows, runner, operators | only the lease holder commits; status, item and locks move together |
| VM Start / VM Shutdown (`operations/vm_start`, `operations/vm_shutdown`) | the request thread, the Jobs row | about twenty durable steps around one POST | all of the above, Proxmox | at most one POST; the VM stays locked while the effect is uncertain; the outcome is true |
| Recovery runner and operator observe (`operations/recovery/application.py`) | the observer thread | claim, validate, observe task and VM, commit | all of the above | observation only; never revives closed work; always ends; a key is answered once |
| Jobs projection (`jobs/runs.py`, `recovery/infrastructure/job_projection.py`) | `job_runs` | overwrite | workflows, recovery | tells the outcome when the operation closes |
| Configuration and task changes (`operations/vm_config`, `vm_disk`, `vm_clone`, `vm_delete`, `vm_migrate`, `vm_restore`, `vm_backup`, image build and cleanup, `vm_admission.py`) | the same tables, one or two locks | review, admit, dispatch, bind the task, verify or pause | Proxmox tasks | admission is atomic and does not deadlock; each stage is sent once; success rests on evidence |
| Guided unlock (`operations/guided_qm`) | plan, bundle expiry, attestation | plan, attest, verify, expire | an operator's shell | a late attestation is never lost; expiry never assumes that nothing ran |
| VM Create (`vm_create`, `operations/vm_create`) | plan, approval, request row, checkpoints | plan, review, approve, execute, recover | Proxmox, the inventory | the approved plan only; no step twice; success needs evidence |
| Host network and storage (`operations/host_network`, `host_storage`, `host_config`) | the configuration lock of the cluster, the pending configuration of a node | review, stage, inspect, reload, verify | Proxmox nodes | excludes VM mutations; applies nobody else's edits |
| Registration (`setup_integration`) | attempts, connection, encrypted credentials, a credential per process | login, plan, confirm, verify, activate, cancel, revoke | Proxmox | one credential for what is under way; no token is left behind |
| Scope, roles and transport (`setup_integration`, `proxmox/authority.py`) | the registered selection | select, grant, admit, filter | every mutation | what is admitted is granted and passes the transport |
| Accounts (`auth`) | users, sessions | login, roles, disable, reset | every route | an administrator remains; a request acts as an account in force |
| Installation (`installation`) | marker, schema, first account | init-schema, setup-admin | PostgreSQL | idempotent across crashes and lost locks |
| Inventory, insights, monitoring, backups, console, frontend | caches at most | read | Proxmox | read-only |

`PROJECT.json` lists every component with its files and status, and under `hazards` what is hard to
test in this code, each at its line, with the properties that answer it.

The hard behaviours are: threads that interleave at every transaction; a process death at any
point; a POST whose answer is lost and whose task starts late; a lease that expires under a live
holder; a replay of a request that died; row locks taken one by one; a statement whose snapshot is
older than the rows it waited for; caches and pinned credentials; guests, nodes and VMs that others
change between a review and its proof.

## 2. The modules

| Module | Models |
|---|---|
| `OperationCore` | the statuses and transitions of `operations/core/domain.py` |
| `Coordination` | the durable tables of the power workflows and their stores; every operator is one database transaction or its guard |
| `VmPower` | the two power workflows, the runner, the operators, Proxmox, time and crashes; extends `Coordination` |
| `TargetMutation` | the abstract promise: one operation holds a VM, sends at most once, and gives the VM up only before anything was sent or after the outcome is settled |
| `VmPowerInvariant` | an inductive invariant of `VmPower`, in six layers |
| `VmPowerSafe`, `VmPowerTruth` | its TLAPS proofs: the first three layers; the last three |
| `VmPowerRefinement` | the TLAPS proof that `VmPower` implements `TargetMutation` |
| `Ledger` | the tables of the changes that are admitted in one transaction: operation, recovery work and all locks appear together |
| `ManagedChange` | every other change of a VM and the changes of a node: admission lock by lock, dispatch, binding of the answer, stages, verification, the recovery handler; extends `Ledger` |
| `ManagedChangeInvariant` | an inductive invariant of `ManagedChange`, in two layers |
| `ManagedChangeProofs` | its TLAPS proofs |
| `VmEvidence` | what each kind of VM change reviews, sends and accepts as proof, while an outsider changes the cluster |
| `VmCreate` | the four mutations of a creation between their checkpoints, their recovery and the request row |
| `VmCreateInvariant`, `VmCreateProofs` | an inductive invariant of `VmCreate`, and its TLAPS proofs |
| `CreatePlanning` | plan, review, approval and admission of a creation up to its clone |
| `GuidedUnlock` | the unlock a human runs: plan, instruction, attestation, expiry, verification |
| `GuidedUnlockInvariant`, `GuidedUnlockProofs` | an inductive invariant of `GuidedUnlock`, and its TLAPS proofs |
| `HostBridge` | one change of a bridge of a node whose pending configuration others edit and reload too |
| `Registration` | registration attempts, the connection's credential, revocation, and the processes that keep to a credential |
| `Authority` | selection, granted roles, admission and transport filter of one registration |
| `ObserveLedger` | the keys of observe requests of one recovery item, at its limit |
| `Accounts` | roles, sessions and the row locks of demotions at READ COMMITTED |
| `Installation` | the marker, the schema and the first account |
| `MCVmPower`, `MCManagedChange`, `MCVmCreate`, `MCGuidedUnlock`, `MCAccounts` | values for the runs |
| `MCServices` | eight services that share no state side by side; the initial state chooses one |
| `ServicesProofs`, `CredentialProofs` | TLAPS proofs about the services of `MCServices`, the second about `Registration`; their inductive invariants (`IInv`) are in their own modules |

### The power workflows (`Coordination`, `VmPower`)

*Tables.* `op[o]` is the Operation row, `rec[o]` the recovery row, `lock[v]` the open lock row of a
VM, `job[o]` the Jobs row. An operation is identified by its idempotency key, as in the code, where
the operation id is derived from it. A lock row is named by the request that inserted it, because
each request inserts at most one. The event checksum is represented by the version it moves with:
every fence in the code compares both. `gen` stands for lease token and generation; the attempt
count moves only where the generation moves, so it is the generation too. `phase` has two values:
`pre_dispatch`, and everything recorded from the dispatch checkpoint on. `marker` is the "terminal
without effect" marker with the lock it names; `barred` is a `last_error_code` that
`recovery_error_semantics` calls ineligible. A lock that is `reconciliation_required` is still open
and is not told apart from an active one.

*Threads.* `req[r].pc` names the next step of a request, one step per transaction or Proxmox call.
Steps up to `commitDispatch` are before the dispatch checkpoint (`UnsentPcs`), the others after it
(`SentPcs`). `seen`, `version` and `saw` are what the thread read earlier and still acts on: that a
reading may be stale by then is the point of most properties. `obs[w]` is the same for the runner
and for an operator's observe call. The API is stateless between calls, but an operator whose
request is on record may repeat it with the same key (`registered`, `repeat`).

*Twins.* VM Start and VM Shutdown were written as twins. One set of actions models both, `Kind`
tells them apart where they differ (the verdict on a failed task; the second Job write before the
registration), and the map of `PROJECT.json` points to one twin or the other.

*Reads.* A thread that reads the Job and the operation one after the other reads them in one step
when no interleaving in between can lead anywhere new: the later steps check again under the lock
or under a version fence. The recovery handler reads the operation (`load`) and the lock (`bind`)
in separate steps, because its decision really uses both readings.

*Failures.* `RequestCrashes` and `ObserverCrashes` kill a thread anywhere between two steps; they
also stand for an unexpected exception after the dispatch, which ends the request with the lock
retained. Before the dispatch such an exception releases the lock and leaves the operation planned
(`AbandonUnsent`); no document promises anything about that operation, and a repeat goes on with it.
`LeaseExpires` needs no live holder, or spends one of `MaxStalls`: a thread that stopped renewing
for the lease's 60 seconds. Proxmox (`TaskStarts`, `TaskEnds`, `PowerChanges`) is external: a POST
starts its task, is rejected, or is answered by a timeout after which the task may start at any
time.

### The managed changes (`Ledger`, `ManagedChange`, `VmEvidence`, `HostBridge`)

`TaskChangeService`, `ConfigChangeService`, `StorageService`, `BridgeService` and
`ImageBuildService` share one skeleton, and `ManagedChange` is that skeleton. `Kind[o]` says how
many requests the change sends and whether their answer is a task (`Calls`). `op[o].sent` counts the
requests recorded as about to be sent (`mutation_dispatched`, `reload_dispatched`, `build_stage`),
`op[o].bound` those whose answer is recorded; `effect[o]` is the sequence of what reached Proxmox.
`Scope[o]` is the set of lock rows. A VM admission inserts its rows one at a time (`vm_admission.py`
locks them in a sorted order, under a lock of the connection row, the `gate`); rows that are not
committed are in `th[t].held`. Since two admissions may want the same two VMs, this is where a
deadlock would be. A host admission reads and writes under the gate in one step.

What the skeleton takes as a verdict ("the observation proves success") is opened in `VmEvidence`:
per kind, what a VM, its disks, its archive and its node look like at the review, at the review
under the locks, and at the end, with `drifts` of outsiders between any two steps and with partial
execution at Proxmox. `HostBridge` does the same for the pending configuration of a node, where the
danger is to reload an edit of someone else; a text difference is abstracted to which part differs.

### VM Create (`CreatePlanning`, `VmCreate`)

`CreatePlanning` ends where `VmCreate` begins. In it a plan is a calculation over `snapshot`, an
inventory of up to a few seconds ago, `shown` is what operators were shown, and `Arm` is the part of
an execution between two awaits of one event loop. The last check before the clone (`Validate`) has
four ends: what was reviewed still holds; it has changed; it could not be seen, because the inventory
is not read whole, a heartbeat, a record or the client fails, and the creation closes as failed all
the same; or even that closure could not be recorded, and the creation stays unresolved under its
lock. An inventory that is read in part (`whole`) shows as a red risk of whatever plan is calculated
from it. `VmCreate` has the request thread from admission
on, one step per checkpoint or call, `rec[o].phase` and the recorded task, the compatibility row
(`req[o]`, written outside the lease), the handler and its projections.

### Guided unlock (`GuidedUnlock`)

`plan_unlock` is several transactions, `attest` holds no lease, expiry is a decision of the handler
from what it observes. `ran[o]` is whether and when the human ran the command, which the code cannot
know. Versions are represented by `fresh` (nobody wrote since the thread's read), leases by their
holder.

### Registration, scope, accounts, installation, observe keys

`Registration` has attempts, requests with their optimistic versions (`fresh`), the token at
Proxmox, the connection row, processes that pin the credential they first used, and admitted work. A
login or a plan is kept in memory before its attempt advances, so it may stay there when the advance
is refused. `Authority` compares four tables that are kept apart in the code. `Accounts` models the
two statements of the administrator guard as PostgreSQL executes them: the set of rows to lock is of
the statement's snapshot, the count is of its own. A request arrives, finds its session, reads its
account and is served as who it found, each in a step of its own; a guarded change may be asked for
by such a request (`by`) or by the command line, and `req[s].rows` records what the account has been
since the request came. `late` are the accounts promoted while guarded changes were under way.
`Installation` has the advisory lock that a process can lose while it goes on. `ObserveLedger` has
the calls that work out the ledger they will write long before they write it.

## 3. What is checked

| Run | Instance | Shows |
|---|---|---|
| `start` | one VM Start, the runner, an operator who may repeat the request; a crash, two attempts | an operation with an open outcome has its exact lock and open recovery work; completed recovery is final and told to the Job; recovery ends and the lock is released or handed to an operator |
| `same_key` | two requests with one key, the runner; a crash, a stall | at most one POST; the inductive invariant; the refinement of `TargetMutation` |
| `rivals` | a Start and a Shutdown of one VM, the runner; a crash, a stall | a mutation that may still act is under its own operation's lock; no terminal status contradicts Proxmox; nothing called "without effect" was sent |
| `change` | two requests for any two of a clone, a restore, a VM write, an image build, a bridge change, or twice the same; an observer; two faults | each stage once and on success only; no effect outside all its locks; a host change is alone; admissions never wait in a circle; a change without an answer stays open; closing is final; the inductive invariant, in which locks follow the work |
| `create_boot` | one creation with boot, the runner, an operator, one fault | `CreationInv`: what failure and success mean at Proxmox; every creation comes to rest |
| `create_repeat` | two requests that repeat one creation or want one VM id, the runner, one fault | no mutation twice; the id locked while one may act; closing is final |
| `guided` | two plans for one VM, a user, the runner, one mishap | `UnlockInv`: a command run in time is not written off, success is observed, the handoff holds the lock; attestations are kept; the lock leaves only at a close; an instruction ends |
| `services` | eight services, each on its own small instance | `EvidenceInv`, `PlanningInv`, `CredentialInv`, `TokenInv`, `AuthorityInv`, `BridgeInv`, `AccountsInv`, `RequestsInForce`, `LedgerIsKept`, `InstallationIsKept` |
| `release`, `job`, `create_adopt`, `admins` | see the findings | a violation each |

An invariant whose name ends in `Inv` is the type invariant of its module and the safety properties
defined and explained above it, each with a name of its own: TLC evaluates one conjunction, and a
violation is traced to its part by checking the parts one by one.

*Bounds.* Two operations on one VM, or two requests on one operation, are the smallest instances in
which two actors compete for a row; a third competitor only repeats one of the roles (holder, rival,
observer), and the proofs make the same point for any number. One crash and one stall are enough for
each "holder dies or stalls, somebody takes over" story to happen at every step; two attempts give a
last one that differs from the first (the code's default is five). `MaxCrashes`, `MaxStalls`,
`MaxAttempts`, `MaxClaims` and `MaxFaults` bound the generations and so the state space. `same_key`
and `rivals` have one attempt and no operator to stay small; `start` has no stall for the same
reason. In `change` the five operations are one of each skeleton, and their scopes overlap in both
VMs, in one, and in the node: a circle of waiting needs two changes over two locks. `change` and
`guided` let one thread be the runner and the operator, who differ in the claims they may make.
`MaxDrifts` (evidence) and `MaxEdits` (bridge) are two: a change that is undone again, or one before
and one after the proof's first reading. `MaxChanges` and `MaxShown` (planning) are one change of
the cluster, or one incomplete reading of it, and two reviews of drafts that take the VMID Proxmox
proposes (`Asked`): that is the one that moves between a review, its execution and its replay, while
a draft that names its VMID is in the model and the proofs, and not in this run. `Limit` (observe
keys) is two with three keys, so that the third meets a full ledger (the code's limit is 64),
`MaxVersion` four operation versions. `MaxChosen` (scope) is two features beside reading and two
lists per VM: the pairs in which one grant could serve another's request. Accounts are two in
`services`, with one session and two guarded changes. Promotions are not bounded: the guard is
outrun there too, and `AccountsInv` promises nothing of the administrators from then on. `admins`
shows what can follow: one administrator, two more accounts and three changes.

*Deadlock* is checked in the runs of `VmPower`. It cannot be reported there, because a guest may
always change power; that threads do not block each other is what the liveness properties say. The
other models come to rest when every request has been answered and every bound is spent, and
switch the check off. Circular waiting is an invariant of its own there (`NoCircularWait`), and rest
with unfinished work is excluded by the liveness properties of `create_boot` and `guided`.

*Fairness* (`Fairness` in `VmPower` and `VmCreate`, `LiveSpec` in `GuidedUnlock`). Threads run on
(they are ordinary Python threads without waits on each other). The runner polls: it is weakly fair
where it exists, and in `GuidedUnlock` strongly fair, because work that is due may be taken and
returned by an operator's call between two polls and is due again after each. The runner is disabled
by default (`project-docs/architecture.md:134`); without it an operator's observe call does its work,
and no progress is claimed for operators. A lease that nobody renews expires, an instruction reaches
its time, a started Proxmox task ends. In `VmCreate` a request that was accepted starts its task.
Elsewhere nothing is assumed of a late POST, of a live holder's lease, of operators or users, and a
crash is never required or excluded.

### Findings

* `ReleaseNeedsNoRecovery` (run `release`): `project-docs/architecture.md:132` promises that a
  request which fails before dispatch releases its lock only after checking that no recovery item
  exists. The code checks it when the client or the registration fails, but neither in the precheck
  block nor in the `finally` clause of an unexpected exception. An operator's observe call may have
  registered recovery in between; recovery then pauses on a binding that can never match again.
* `ClosedJobIsTerminal` (run `job`): `job_projection.py` keeps "the operator-visible compatibility
  projection aligned before unlock", but the foreground's Job writes are not fenced by the lease, and
  a delayed one puts the Job of a closed operation back to `running`.
* `UnfinishedKeepsLock` (run `create_adopt`): a repeat of a creation adopts "only the provable
  no-item/no-request post-acquire crash window" (`vm_create/application.py:615`), but a live request
  that has acquired its lock and not yet prepared its recovery looks the same. The repeat's work is
  left without a lock when the first request fails and releases it.
* `AnAdminRemains` (run `admins`): the guard of the last administrator locks the administrators its
  snapshot saw; accounts promoted while it waits are not locked. Two demotions whose rows do not
  overlap leave no administrator, which `auth/users.py:60` says cannot happen. `AccountsInv` says what
  does hold: an administrator remains until two promotions have been committed while guarded changes
  were under way (`Outrun`).

## 4. What is proved

### The power workflows

The theorems hold for every value of the constants that satisfies `CoordinationAssumption` and
`VmPowerAssumption`: the maps `VmOf`, `OpOf` and `Kind` are total, `Free` is no request, the sets of
runners and operators are disjoint, at least one attempt. Sets may be infinite.

| Theorem | States |
|---|---|
| `VmPowerSafe!TypeCorrect` | `Spec => []TypeOK` |
| `VmPowerSafe!CompletionCloses` | `Spec => []CompletedIsClosed` |
| `VmPowerSafe!CompletionIsFinal` | `Spec => ClosedIsFinal`, an action property |
| `VmPowerSafe!MutationIsSentOnce` | `Spec => []AtMostOnePost` |
| `VmPowerSafe!UncertaintyStaysOpen` | `Spec => []UncertainStaysOpen` |
| `VmPowerTruth!OutcomeIsTrue` | `Spec => []TerminalOutcomeIsTrue` |
| `VmPowerTruth!EffectIsLocked` | `Spec => []EffectUnderLock` |
| `VmPowerTruth!NoEffectIsTrue` | `Spec => []NoEffectClaimIsTrue` |
| `VmPowerTruth!InvariantHolds` | `Spec => []IInv` |
| `VmPowerTruth!JobIsTold` | `Spec => JobToldAtCompletion`, an action property |
| `VmPowerRefinement!SystemImplementsPromise` | `Spec => ImplementsTargetMutation`, which is `Spec => Abstract!Spec` |

The safety properties are not inductive: a thread about to commit may hold a stale reading.
`VmPowerInvariant!IInv` adds what the code relies on, in six layers over `TypeOK`, each inductive
once the ones before it hold:

* `Closed`: a lock row that is open, recorded or remembered was inserted by a request that never
  inserts another, so a released lock never comes back; completed work names a released lock of a
  decided operation; a thread that decides has drawn a verdict.
* `Shape`: a version that still matches proves that the status is the one that was read.
* `Safe`: a request before its dispatch still holds its own lock unless recovery has completed the
  operation, and nobody else records a dispatch under that lock; the phase `dispatched` stays with
  the lock it was recorded under; what was never dispatched was never sent; what an observer saw of
  a finished task is still so.
* `Truth`: what a request saw of its task is still so when it decides.
* `Claims`: a claim of no effect is made of an operation that no thread can dispatch any more, or,
  where only the Job makes it (which no lease fences), while every request on its way to a dispatch
  either finds the operation decided or holds a Job without the claim. Two such requests meet only
  after recovery has completed the operation (`TwoUnsent`).
* `Told`: what was sent keeps its exact lock and its recorded dispatch until its recovery completes,
  and the recovery row names the lock of the request that dispatched. So the request about to finish
  is the only one past a dispatch, and although no lease fences the Job, nobody writes over it between
  its recording and the completion; and an operator whose reading still holds registers recovery only
  of what was never sent. `JobToldAtCompletion` is read off a step of this layer.

Each layer is proved the same way. What a transaction does to the tables is one predicate
(`RowsStep`, `TablesStep`, `OutcomesStep`; `MovesStep`, `JobStep` and `PostStep` for `Claims`;
`TraceStep` and `WritersStep` for `Told`) with one lemma per transaction (acquire, release, claim,
commit, POST, ...); what a step does to the thread that takes it is another (`RequestsMove`,
`RequestsArrive`, `RequestsTell`, `RequestsClaim`, `RequestsTold`, and the same for observers). One
lemma shows that the two keep the layer for every thread that stands still, and one lemma per
process, with a step per action, shows that each action satisfies both. `EffectUnderLock` then
follows from `Safe` and `Truth`: a task that may still act has an operation whose outcome is open,
and that one holds its lock.

The refinement needs `SafeInv` only. Every step touches at most one operation and the lock of its VM
(`Single`); `FateFacts` reads the abstract fate off the status and the sends; and `SingleImplements`
names the abstract step: taking the lock is `Grant` (a free VM has no sent, unsettled operation),
the POST is `Send`, a terminal status is `Settle`, a release is `GiveUp`, and a commit that closes an
unsent operation and releases its lock is `SettleAndGiveUp`. That no commit both settles a sent
operation and releases its VM is where the invariant is needed.

### The managed changes

The theorems hold for every value of the constants that satisfies `ManagedChangeAssumption`: any
operations, kinds and scopes with the configuration lock in the scope of host changes only, any
requests, runners and operators, any bounds.

| Theorem | States |
|---|---|
| `ManagedChangeProofs!TypeCorrect` | `Spec => []TypeOK` |
| `ManagedChangeProofs!LocksAndWorkAreOne` | `Spec => []LocksFollowWork` |
| `ManagedChangeProofs!NoDeadlockInAdmission` | `Spec => []NoCircularWait` |
| `ManagedChangeProofs!EachRequestOnce` | `Spec => []SentAtMostOnce` |
| `ManagedChangeProofs!StagesFollowSuccess` | `Spec => []StagesBuildOnSuccess` |
| `ManagedChangeProofs!EffectsAreLocked` | `Spec => []EffectUnderLocks` |
| `ManagedChangeProofs!HostChangesAlone` | `Spec => []HostChangeAlone` |
| `ManagedChangeProofs!OutcomesAreProven` | `Spec => []OutcomeIsProven` |
| `ManagedChangeProofs!UnansweredIsNobodys` | `Spec => UnansweredStaysOpen`, an action property |
| `ManagedChangeProofs!ClosingIsFinal` | `Spec => ClosedIsFinal`, an action property |
| `ManagedChangeProofs!InvariantHolds` | `Spec => []IInv` |

`ManagedChangeInvariant!IInv` has two layers over `TypeOK`.

* `LocksInv`: an admission that has uncommitted rows holds the gate, so there is one at a time, and
  the rows it is about to commit are free; from the commit on the scope of an operation is locked by
  it exactly while its recovery work is unfinished; while the configuration lock is taken no other
  work is unfinished. Circular waiting is impossible because of the gate, not because of the sorted
  order of the rows: the proof never uses that order.
* `SendsInv`: of an operation's requests at most one is recorded as about to be sent and unanswered,
  those before it ended well, and what a thread carries (`row`) agrees with the operation where it
  acts on it; one thread at most sends or awaits an answer. A row's version fence and the lease fence
  are what makes the second true.

`LocksKept` and `Grows` are the frames of the two layers (what a step may do to locks and work, and
to requests and their answers); `OneSender` and `Closing` are the two facts in which threads meet.
The action properties follow from the invariant and the frame of a step.

### VM Create

The theorems hold for every value of the constants that satisfies `VmCreateAssumption`: any set of
operations that is not empty, any VM id for each, any requests, runners and operators, and `Free` a
value of none of them.

| Theorem | States |
|---|---|
| `VmCreateProofs!CreationIsSound` | `Spec => []IInv` |
| `VmCreateProofs!TypeCorrect` | `Spec => []TypeOK` |
| `VmCreateProofs!MutationsAreSentOnce` | `Spec => []EachStepOnce` |
| `VmCreateProofs!ActingIsLocked` | `Spec => []EffectUnderLock` |
| `VmCreateProofs!RecordsAreTrue` | `Spec => []CreationInv` |
| `VmCreateProofs!ClosingIsFinal` | `Spec => ClosedIsFinal`, an action property |

`VmCreateInvariant!IInv` says of an operation what its rows, its request row, its mutations and its
VM tell of each other, of a thread what the place it has reached tells of its operation, and of two
threads of one operation that they never hold the same authority. There are two authorities. A
request dispatches only under the lock it inserted itself and on the row of an approved operation,
and no operation is approved twice, so that one request at most ever sends. A thread writes to the
recovery work only with its latest generation. The frames `TurnKept`, `OrdinaryKept`, `SendKept`,
`CloseKept`, `PrepareAndClaimKept` and `EnvironmentKept` say what a step of each sort may change, and
that the invariant then stands for every other thread; one lemma per action shows which frame it is.

The proof attempt corrected a property. The request row of a success may say `failed`: the last word of
a request before its first mutation (`_record_pre_dispatch_failure_projections`,
`vm_create/application.py:811`) is written without asking for the lease, so that a request which was
overtaken can write it late. `SuccessIsWhole` states what does hold.

### Guided unlock

The theorems hold for any plans, users, threads, VM history and bounds (`GuidedAssumption`).

| Theorem | States |
|---|---|
| `GuidedUnlockProofs!UnlockIsSound` | `Spec => []IInv` |
| `GuidedUnlockProofs!EndsAreTrue` | `Spec => []UnlockInv` |
| `GuidedUnlockProofs!LockLeavesWithTheEnd` | `Spec => LockLeavesAtClose`, an action property |
| `GuidedUnlockProofs!AttestationsAreKept` | `Spec => AttestationIsKept`, an action property |
| `GuidedUnlockProofs!ClosingIsFinal` | `Spec => ClosedIsFinal`, an action property |

A thread acts on what it has read. Three things protect it, and they are the three parts of
`GuidedUnlockInvariant!ThreadSound`: the version it compares (as long as nobody wrote the operation,
the status is the one that led the thread here), the lease (a lock seen under the lease stays), and
facts that only time makes and nothing unmakes: an expiry, a command that was run, a VM seen without
its configuration lock. `MoveKept`, `WorldKept` and `CommitKept` are the frames of a step that moves
its thread, of a step of the world, and of a commit. The invariant also has to remember that a lock
may be put back by somebody else after a command removed it (`relocked`).

### The services

`ServicesProofs` and `CredentialProofs` are about `MCServices`; a lemma is about one service alone.

| Theorem | States |
|---|---|
| `ServicesProofs!SomebodyAdministers` | `Spec => []AccountsInv` |
| `ServicesProofs!RequestsAreInForce` | `Spec => []RequestsInForce` |
| `ServicesProofs!TheMarkerIsKept` | `Spec => InstallationIsKept`, an action property |
| `ServicesProofs!TheLedgerIsKept` | `Spec => LedgerIsKept`, an action property |
| `ServicesProofs!SuccessIsProven` | `Spec => []EvidenceInv` |
| `ServicesProofs!TablesAgree` | `Spec => []AuthorityInv` |
| `ServicesProofs!ReloadedOnceAsReviewed` | `Spec => []BridgeInv` |
| `ServicesProofs!CreationsAreAsReviewed` | `Spec => []PlanningInv` |
| `CredentialProofs!WorkKeepsItsCredential` | `Spec => []CredentialInv` |
| `CredentialProofs!EveryTokenIsAccountedFor` | `Spec => []TokenInv` |

* *Accounts.* For any accounts, of which one at least starts as an administrator
  (`AccountsAssumption`), any number of changes at once and any number of promotions. Administrators who
  are not promoted late only ever leave, so those there are were in every snapshot, and whoever has
  locked has locked them all (`Guards`, `LocksDiffer`). Two transactions can then have locked together
  only when every administrator left was promoted late, and a single such one is nobody's to write
  away, since each change has counted another administrator beside its own account. Two late promotions
  end the argument and the property, as run `admins` shows; the count starts anew when no guarded
  change is under way. For a request, `rows` holds what its account is at any time since it
  came, whatever was revoked, disabled or demoted between its two reads (`Follows`), so what it read is
  among it; a login that is disabled between its two transactions opens a session that no request gets
  anything from.
* *Installation.* Whoever holds the advisory lock finds its own marker still initialising, and
  `setup-admin` runs alone while no account is on its way; what was lost with the lock only repeats what
  is there.
* *Observe keys.* Leases are told apart by their generation. The ledger a call has worked out is the
  one on record plus its own entry as long as the version it read is the version there is, and after
  that as long as its lease lives.
* *Evidence.* While nobody interferes the cluster is as it was reviewed, and every kind of change,
  when it is done, has the evidence its verification asks for (`CleanChange`); a VM with the marker was
  made by this change. What a success says follows from what each verification compares, for any
  number of outsiders' changes at any time (`MatchIsTrue`).
* *Registration.* For any attempts, requests, processes, restarts, repeats and bad answers of Proxmox.
  A request that writes an attempt compares the version it read, so that where a request stands tells the
  phase of its attempt as long as nobody wrote it (`RequestSound`); what is done on a stale reading is
  true for good: a token that was deleted or never made does not come back. One request at most stands
  between `provisioning` and the answer of the POST that makes the token. Activating a candidate, replacing
  and revoking the active credential all need that nothing is unfinished, and a mutation is admitted only
  while admission is open with the connection's credential; so unfinished work implies that its credential
  is the active one and lives. The conjunct that an attempt in `import` or `stageImport` is one of the
  import mode was found missing by the proof: TLC's bounds never let an automatic attempt get that far.
* *Scope and roles.* For any VMs and nodes and any choice of features (`MaxChosen` may be any number).
  `RolesFor` names, for every operation, the roles whose privileges its request asks for, and the proof
  shows that admission grants them: a feature that admits an operation puts its roles on every resource
  the locks name. A new VM never is one that existed, because `creation_scope` is refused otherwise, and
  clone and backup privileges fall on the listed templates and VMs alone. Here the proof attempt
  corrected the model: a migration reviews two nodes and asks `Sys.Audit` of both.
* *Bridges.* For any number of edits by others, claims and faults. Where the request or the observer
  stands tells what is on its way to Proxmox; the lease a commit compares is one of generations, so a
  stale thread writes nothing. What a reload makes active is what the review saw, or somebody edited the
  node afterwards; what was never sent shows nowhere, so a closed operation without effect leaves nothing
  pending.
* *Planning.* For any jobs, calls and changes of the cluster. The operation and the request row tell
  one story of one acknowledged plan (`op` and `request` never disagree on the plan or the VMID), a
  VMID is locked by the creation under way, and a job's clone is recorded once. A plan is a function
  of what its reading of the cluster showed, guest agents aside, so a creation that is refused as
  changed had a cause: a VM, the template or the address changed since the reading of the review. A
  creation that fails for what could not be read or reached is not told as changed, and nothing is
  said of its cause. `PlanningAssumption` says what Proxmox gives: VMIDs are numbers, of which it
  proposes the least free one, and there is a template to clone.

### Only model-checked

Every safety and action property the passing runs check is a theorem. Liveness under fairness is out of
the prover's reach and stays with TLC: `RecoveryWorkEnds` and `LockIsFreedOrHandedOver` (`VmPower`),
`CreationComesToRest` (`VmCreate`), `InstructionEnds` (`GuidedUnlock`).

## 5. What is not modelled

The components marked `not_modelled` in `PROJECT.json`, with the reasons: insights and placement,
reports and streams, the HTTP API, the schema, the frontend, the client's upgrade journal, the
download of an image. Within the modelled components:

* *Power workflows.* Failing database reads other than those of a handler (a crash has the same
  effect); workflows wired without a recovery store, which production never does; artifacts'
  contents; redaction.
* *Managed changes.* The wording of reviews and the limits of their inputs; in `HostBridge` one
  operation, with failing reads of the late comparison as a nondeterministic choice.
* *VM Create.* Drafts as files, artifacts, the preflight of drafts, several API processes in
  `CreatePlanning` (one event loop is what makes `Arm` atomic) and crashes there; `VmCreate` has them.
* *Registration* is checked with one process that dispatches mutations; the code pins one credential
  per process, and each process is like it. The proof is for any number of processes.
* *Authority.* The admission of host operations, the request of VM Create's own template clone, role
  inheritance for `/storage` inside Proxmox, and a second listed VM that is deleted meanwhile.
* *Accounts.* Hashing; session expiry other than as a revocation; who asks for promotions, password
  resets and revocations, which any administrator's request or the command line does.

## 6. Plan

1. Power workflows, `TargetMutation`, the proofs of their invariant and of the refinement: done.
2. Managed changes and the proof of their invariant: done.
3. VM Create, its planning, guided unlock and the services: modelled and proved.
4. Every safety and action property of the passing runs proved: done.
5. The client's upgrade journal, and the pure rules of `insights` against reference definitions.
