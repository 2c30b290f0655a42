------------------------------ MODULE VmPower ------------------------------
(***************************************************************************)
(* VM Start and VM Shutdown: the foreground workflows                      *)
(* (operations/vm_start/workflow.py, operations/vm_shutdown/workflow.py),  *)
(* the background recovery runner with its two handlers, and the           *)
(* operator's one-shot observation (operations/recovery/application.py),   *)
(* interleaved at every database transaction and every Proxmox call.       *)
(*                                                                         *)
(* A request is one pass of a foreground workflow; requests with the same  *)
(* idempotency key share an operation.  An observer is the runner (it      *)
(* loops) or an operator's observe call (it runs once).  Proxmox itself is *)
(* external: a POST may start a task, be rejected, or be answered by a     *)
(* timeout that says nothing.                                              *)
(***************************************************************************)
EXTENDS Coordination

CONSTANTS Kind,         \* operation id -> "vm_start" | "vm_shutdown"
          Runners,      \* background recovery runners
          Operators,    \* operator-triggered observations
          MaxAttempts,  \* recovery attempts after which the item is paused
          MaxCrashes,   \* bound: threads that die between two steps
          MaxStalls     \* bound: leases that expire under a live holder

Observers == Runners \cup Operators

ASSUME VmPowerAssumption ==
  /\ Kind \in [Ops -> {"vm_start", "vm_shutdown"}]
  /\ Runners \cap Operators = {}
  /\ MaxAttempts \in Nat \ {0} /\ MaxCrashes \in Nat /\ MaxStalls \in Nat

VARIABLES task,     \* task[o]: the Proxmox task of o
          vm,       \* vm[v]: the power state of a VM
          posts,    \* posts[o]: how many times the mutation of o was sent
          req,      \* req[r]: the foreground threads
          obs,      \* obs[w]: the observers
          crashes, stalls

coordination == <<op, rec, lock, job>>
proxmox == <<task, vm, posts>>
bounds == <<crashes, stalls>>
vars == <<op, rec, lock, job, task, vm, posts, req, obs, crashes, stalls>>

\* The power state a completed operation leaves, and the one its precheck demands.
PowerStates == {"running", "stopped"}
Target(o) == IF Kind[o] = "vm_start" THEN "running" ELSE "stopped"

TaskStates == {"none", "inflight", "running", "ok", "failed"}
TaskOpen(o) == task[o] \in {"inflight", "running"}

\* Steps before the dispatch checkpoint, with the target lock held.
UnsentPcs == {"recheck", "recordPrecheck", "precheck", "block", "blockJob", "client",
              "recordStart", "claim", "failJob", "failTransition", "commitDispatch", "release"}
SentPcs == {"post", "ambiguous", "commitRejected", "commitRunning", "recordPoll", "poll", "look",
            "commitVerifying", "artifact", "verdict", "reconcile", "reconcileJob",
            "commitTerminal", "terminalJob", "handoff", "finish"}
RequestPcs == {"start", "prepare", "acquire", "busy", "conflict", "closeClaim", "closeCommit",
               "done", "crashed"} \cup UnsentPcs \cup SentPcs
ObserverPcs == {"idle", "prepare", "claim", "request", "registered", "repeat", "load", "bind", "closeUnsent", "project",
                "pauseMissing", "pauseBinding", "observeTask", "observeVm", "retry", "correlate",
                "succeed", "fail", "mismatch", "excepted", "done"}

\* What a thread last saw of the task, or the verdict it drew from it.
Sightings == {"none", "ok", "failed", "unknown", "succeeded", "reconcile"}

\* A thread's place, lease generation, the lock and version it read, and what it saw.
Threads == [pc : RequestPcs, gen : Nat, seen : LockIds, version : Nat, saw : Sightings]
ObserverRows == [pc : ObserverPcs, o : Ops, gen : Nat, status : OperationStatuses \cup {"none"},
                 version : Nat, seen : LockIds, next : ObserverPcs, saw : Sightings]

TypeOK ==
  /\ CoordinationTypeOK
  /\ task \in [Ops -> TaskStates]
  /\ vm \in [Vms -> PowerStates]
  /\ posts \in [Ops -> Nat]
  /\ req \in [Requests -> Threads]
  /\ obs \in [Observers -> ObserverRows]
  /\ crashes \in Nat /\ stalls \in Nat

\* Threads that hold nothing but their place.
Thread(pc) == [pc |-> pc, gen |-> 0, seen |-> Free, version |-> 0, saw |-> "none"]
Observer(pc) == [pc |-> pc, o |-> CHOOSE o \in Ops : TRUE, gen |-> 0, status |-> "none",
                 version |-> 0, seen |-> Free, next |-> "idle", saw |-> "none"]

Init ==
  /\ CoordinationInit
  /\ task = [o \in Ops |-> "none"]
  /\ vm \in [Vms -> PowerStates]
  /\ posts = [o \in Ops |-> 0]
  /\ req = [r \in Requests |-> Thread("start")]
  /\ obs = [w \in Observers |-> Observer("idle")]
  /\ crashes = 0 /\ stalls = 0

-----------------------------------------------------------------------------
(* The foreground workflow, up to the dispatch checkpoint. *)

At(r, pc) == req[r].pc = pc
Goto(r, pc) ==
  req' = [req EXCEPT ![r] = IF pc \in {"done", "crashed"} THEN Thread(pc) ELSE [@ EXCEPT !.pc = pc]]
Stay == UNCHANGED <<proxmox, obs, bounds>>

\* Wrong: the Job alone decides that a failure can still be closed.
ReplayOfAnyFailure(o) == job[o] = "failed_no_effect"

\* _is_recoverable_pre_dispatch_terminal_replay
RecoverableReplay(o) == op[o].status = "planned" /\ job[o] = "failed_no_effect"

\* The Job of an earlier request answers this one, unless its failure can still be closed.
LookupJob(r) ==
  /\ At(r, "start")
  /\ LET o == OpOf[r] IN
       Goto(r, IF job[o] # "none" /\ ~RecoverableReplay(o) THEN "done" ELSE "prepare")
  /\ UNCHANGED coordination /\ Stay

PrepareOperation(r) ==
  /\ At(r, "prepare")
  /\ CreateOperation(OpOf[r])
  /\ Goto(r, IF op'[OpOf[r]].status = "planned" THEN "acquire" ELSE "done")
  /\ UNCHANGED <<rec, lock, job>> /\ Stay

AcquireTarget(r) ==
  /\ At(r, "acquire")
  /\ Acquire(r)
  /\ Goto(r, "recheck")
  /\ UNCHANGED <<op, rec, job>> /\ Stay

\* The lock is taken, or admission refuses the mutation and names no lock.
TargetLockBusy(r) ==
  /\ At(r, "acquire")
  /\ \E l \in {lock[VmOf[OpOf[r]]], Free} :
       req' = [req EXCEPT ![r].pc = "busy", ![r].seen = l]
  /\ UNCHANGED coordination /\ Stay

\* What a busy request does after rereading the Job and the operation.
ResolveBusy(r) ==
  /\ At(r, "busy")
  /\ LET o == OpOf[r]
         own == req[r].seen # Free /\ OpOf[req[r].seen] = o
         next == IF job[o] # "none" /\ ~RecoverableReplay(o) THEN "done"
                 ELSE IF ~own THEN "conflict"
                 ELSE IF job[o] # "none" THEN "closeClaim" ELSE "done"
     IN IF next = "done" THEN Goto(r, next)
        ELSE req' = [req EXCEPT ![r].pc = next, ![r].version = op[o].version,
                                ![r].saw = IF job[o] = "none" THEN "none" ELSE "failed"]
  /\ UNCHANGED coordination /\ Stay

RecordConflict(r) ==
  /\ At(r, "conflict")
  /\ CloseOnConflict(OpOf[r], req[r].seen, IF req[r].saw = "none" THEN "blocked" ELSE "failed")
  /\ Goto(r, "done")
  /\ UNCHANGED <<rec, lock, job>> /\ Stay

\* "Only the state read while owning this lock can authorize" the dispatch.
RecheckUnderLock(r) ==
  /\ At(r, "recheck")
  /\ LET o == OpOf[r]
         next == IF job[o] # "none"
                 THEN IF RecoverableReplay(o) THEN "closeClaim" ELSE "release"
                 ELSE IF op[o].status = "planned" THEN "recordPrecheck" ELSE "release"
     IN IF next = "closeClaim"
        THEN req' = [req EXCEPT ![r].pc = next, ![r].version = op[o].version, ![r].seen = r]
        ELSE Goto(r, next)
  /\ UNCHANGED coordination /\ Stay

\* An unconditional overwrite of the Jobs row (record_job_run_in_session).
RecordJob(r, status) == job' = [job EXCEPT ![OpOf[r]] = status]

RecordPrecheck(r) ==
  /\ At(r, "recordPrecheck")
  /\ RecordJob(r, "running")
  /\ Goto(r, "precheck")
  /\ UNCHANGED <<op, rec, lock>> /\ Stay

\* The VM must be in the other power state; identity or context may also mismatch.
Precheck(r) ==
  /\ At(r, "precheck")
  /\ \/ vm[VmOf[OpOf[r]]] # Target(OpOf[r]) /\ Goto(r, "client")
     \/ Goto(r, "block")
  /\ UNCHANGED coordination /\ Stay

\* An unexpected exception here leaves the operation planned and gives the lock back.
AbandonUnsent(r) ==
  /\ req[r].pc \in {"recheck", "recordPrecheck", "precheck", "client", "recordStart"}
  /\ Goto(r, "release")
  /\ UNCHANGED coordination /\ Stay

\* _raise_precheck_block: a plain transition, not fenced by the recovery row.
BlockOperation(r) ==
  /\ At(r, "block")
  /\ \/ CloseUnsent(OpOf[r], "blocked", r) /\ Goto(r, "blockJob")
     \/ op[OpOf[r]].status # "planned" /\ Goto(r, "done") /\ UNCHANGED op
  /\ UNCHANGED <<rec, lock, job>> /\ Stay

RecordBlocked(r) ==
  /\ At(r, "blockJob")
  /\ RecordJob(r, "blocked")
  /\ Goto(r, "release")
  /\ UNCHANGED <<op, rec, lock>> /\ Stay

\* VM Shutdown goes straight to the recovery registration.
OpenMutationClient(r) ==
  /\ At(r, "client")
  /\ \/ Goto(r, IF Kind[OpOf[r]] = "vm_start" THEN "recordStart" ELSE "claim")
     \/ Goto(r, "failJob")
  /\ UNCHANGED coordination /\ Stay

RecordStart(r) ==
  /\ At(r, "recordStart")
  /\ RecordJob(r, "running")
  /\ Goto(r, "claim")
  /\ UNCHANGED <<op, rec, lock>> /\ Stay

RegisterRecovery(r) ==
  /\ At(r, "claim")
  /\ \/ /\ PrepareAndClaim(OpOf[r], r, FALSE)
        /\ req' = [req EXCEPT ![r].pc = "commitDispatch", ![r].gen = rec'[OpOf[r]].gen]
     \/ Goto(r, "failJob") /\ UNCHANGED rec
  /\ UNCHANGED <<op, lock, job>> /\ Stay

RecordUnsentFailure(r) ==
  /\ At(r, "failJob")
  /\ RecordJob(r, "failed_no_effect")
  /\ Goto(r, "failTransition")
  /\ UNCHANGED <<op, rec, lock>> /\ Stay

CloseUnsentFailure(r) ==
  /\ At(r, "failTransition")
  /\ IF MayCloseFailure(OpOf[r], r)
     THEN CloseUnsent(OpOf[r], "failed", r) /\ Goto(r, "release")
     ELSE Goto(r, "done") /\ UNCHANGED op
  /\ UNCHANGED <<rec, lock, job>> /\ Stay

\* release_target in the finally clause.
ReleaseTarget(r) ==
  /\ At(r, "release")
  /\ Release(r)
  /\ Goto(r, "done")
  /\ UNCHANGED <<op, rec, job>> /\ Stay

(* _close_replayed_pre_dispatch_failure: a replay closes the planned operation of a
   request that recorded a failure without effect and then died. *)

ClaimReplay(r) ==
  /\ At(r, "closeClaim")
  /\ LET o == OpOf[r] IN
       \/ /\ op[o].version = req[r].version
          /\ PrepareAndClaim(o, req[r].seen, FALSE)
          /\ req' = [req EXCEPT ![r].pc = "closeCommit", ![r].gen = rec'[o].gen]
       \/ ~(op[o].version = req[r].version /\ Claimable(o)) /\ Goto(r, "done") /\ UNCHANGED rec
  /\ UNCHANGED <<op, lock, job>> /\ Stay

CommitReplay(r) ==
  /\ At(r, "closeCommit")
  /\ LET o == OpOf[r] IN
       \/ /\ op[o].version = req[r].version
          /\ Commit(o, req[r].gen, {"planned"}, "failed", Ended(o, "completed", FALSE), TRUE)
       \/ /\ ~(op[o].version = req[r].version
               /\ MayCommit(o, req[r].gen, {"planned"}, "failed", TRUE))
          /\ UNCHANGED <<op, rec, lock>>
  /\ Goto(r, "done")
  /\ UNCHANGED job /\ Stay

-----------------------------------------------------------------------------
(* The foreground workflow, from the dispatch checkpoint on. *)

\* A commit of the lease holder, or the error that ends it with the lock retained.
CommitOrStop(r, from, to, item, release, next) ==
  LET o == OpOf[r] IN
    \/ Commit(o, req[r].gen, from, to, item, release) /\ Goto(r, next)
    \/ ~MayCommit(o, req[r].gen, from, to, release) /\ Goto(r, "done") /\ UNCHANGED <<op, rec, lock>>

\* The last durable step before the POST also binds the lock the request holds.
CommitDispatching(r) ==
  /\ At(r, "commitDispatch")
  /\ LET o == OpOf[r] IN
       IF ExactLock(o) /\ rec[o].lockId = r
       THEN CommitOrStop(r, {"planned"}, "dispatching",
                         [Kept(o) EXCEPT !.phase = "dispatched"], FALSE, "post")
       ELSE Goto(r, "done") /\ UNCHANGED <<op, rec, lock>>
  /\ UNCHANGED job /\ Stay

\* Wrong: a lost answer is retried.
PostUntilAnswered(r) ==
  /\ At(r, "post")
  /\ LET o == OpOf[r] IN
       /\ posts' = [posts EXCEPT ![o] = @ + 1]
       /\ \/ task' = [task EXCEPT ![o] = "running"] /\ Goto(r, "commitRunning")
          \/ task' = task /\ Goto(r, "commitRejected")
          \/ task' = [task EXCEPT ![o] = "inflight"] /\ Goto(r, "post")
  /\ UNCHANGED <<coordination, vm, obs, bounds>>

\* Wrong: a lost answer is recorded as a failure without effect.
PostAnsweredOrFailed(r) ==
  /\ At(r, "post")
  /\ LET o == OpOf[r] IN
       /\ posts' = [posts EXCEPT ![o] = @ + 1]
       /\ \/ task' = [task EXCEPT ![o] = "running"] /\ Goto(r, "commitRunning")
          \/ task' = [task EXCEPT ![o] = "inflight"] /\ Goto(r, "failJob")
  /\ UNCHANGED <<coordination, vm, obs, bounds>>

\* start_vm / shutdown_vm.  A client error rejects it, a lost answer leaves it ambiguous.
PostMutation(r) ==
  /\ At(r, "post")
  /\ LET o == OpOf[r] IN
       /\ posts' = [posts EXCEPT ![o] = @ + 1]
       /\ \/ task' = [task EXCEPT ![o] = "running"] /\ Goto(r, "commitRunning")
          \/ task' = task /\ Goto(r, "commitRejected")
          \/ /\ \E t \in {"none", "inflight", "running"} : task' = [task EXCEPT ![o] = t]
             /\ Goto(r, "ambiguous")
  /\ UNCHANGED <<coordination, vm, obs, bounds>>

CommitRejected(r) ==
  /\ At(r, "commitRejected")
  /\ LET o == OpOf[r] IN
       \/ /\ Commit(o, req[r].gen, {"dispatching"}, "failed", Kept(o), FALSE)
          /\ req' = [req EXCEPT ![r].pc = "terminalJob", ![r].saw = "failed"]
       \/ /\ ~MayCommit(o, req[r].gen, {"dispatching"}, "failed", FALSE)
          /\ Goto(r, "done") /\ UNCHANGED <<op, rec, lock>>
  /\ UNCHANGED job /\ Stay

CommitRunning(r) ==
  /\ At(r, "commitRunning")
  /\ LET o == OpOf[r] IN
       \/ /\ MayCommit(o, req[r].gen, {"dispatching"}, "running", FALSE)
          /\ op' = [op EXCEPT ![o] = [Moved(@, "running") EXCEPT !.upid = TRUE]]
          /\ rec' = [rec EXCEPT ![o] = [Kept(o) EXCEPT !.upid = TRUE]]
          /\ lock' = lock
          /\ Goto(r, "recordPoll")
       \/ /\ ~MayCommit(o, req[r].gen, {"dispatching"}, "running", FALSE)
          /\ Goto(r, "done") /\ UNCHANGED <<op, rec, lock>>
  /\ UNCHANGED job /\ Stay

\* Not fenced by the lease.
RecordPoll(r) ==
  /\ At(r, "recordPoll")
  /\ RecordJob(r, "running")
  /\ Goto(r, "poll")
  /\ UNCHANGED <<op, rec, lock>> /\ Stay

\* wait_for_task heartbeats the lease: a lost lease ends the request.
PollTask(r) ==
  /\ At(r, "poll")
  /\ LET o == OpOf[r] IN
       \/ /\ LeaseOwned(o, req[r].gen)
          /\ \E t \in {"unknown"} \cup ({task[o]} \cap {"ok", "failed"}) :
               req' = [req EXCEPT ![r].pc = "look", ![r].saw = t]
       \/ ~LeaseOwned(o, req[r].gen) /\ Goto(r, "done")
  /\ UNCHANGED coordination /\ Stay

\* Wrong: the power state alone decides.
VerdictOfPower(o, t, state) == IF state = Target(o) THEN "succeeded" ELSE "reconcile"

\* The verdict of a task sighting and a power state; a failed start may be settled,
\* a failed shutdown never is.
Verdict(o, t, state) ==
  CASE t = "ok" /\ state = Target(o) -> "succeeded"
    [] t = "failed" /\ Kind[o] = "vm_start" /\ state = "stopped" -> "failed"
    [] OTHER -> "reconcile"

ReadVmStatus(r) ==
  /\ At(r, "look")
  /\ \E state \in {vm[VmOf[OpOf[r]]], "unknown"} :
       req' = [req EXCEPT ![r].pc = "commitVerifying",
                          ![r].saw = Verdict(OpOf[r], @, state)]
  /\ UNCHANGED coordination /\ Stay

CommitVerifying(r) ==
  /\ At(r, "commitVerifying")
  /\ CommitOrStop(r, {"running"}, "verifying", Kept(OpOf[r]), FALSE, "artifact")
  /\ UNCHANGED job /\ Stay

\* The observed-after artifact; its failure hands the operation to recovery.
WriteArtifact(r) ==
  /\ req[r].pc \in {"artifact", "ambiguous"}
  /\ \/ Goto(r, IF At(r, "ambiguous") \/ req[r].saw = "reconcile"
                THEN "reconcile" ELSE "commitTerminal")
     \/ Goto(r, "handoff")
  /\ UNCHANGED coordination /\ Stay

\* _record_reconciliation_required: without a task reference only an operator goes on.
RequireReconciliation(r) ==
  /\ At(r, "reconcile")
  /\ LET o == OpOf[r] IN
       IF ExactLock(o)
       THEN CommitOrStop(r, {"dispatching", "running", "verifying"}, "needs_reconciliation",
                         Ended(o, IF op[o].upid THEN "retry_wait" ELSE "paused", FALSE),
                         FALSE, "reconcileJob")
       ELSE Goto(r, "done") /\ UNCHANGED <<op, rec, lock>>
  /\ UNCHANGED job /\ Stay

\* Not fenced: the lease was given up by the commit before.
RecordReconciliation(r) ==
  /\ At(r, "reconcileJob")
  /\ RecordJob(r, "needs_reconciliation")
  /\ Goto(r, "done")
  /\ UNCHANGED <<op, rec, lock>> /\ Stay

CommitTerminal(r) ==
  /\ At(r, "commitTerminal")
  /\ CommitOrStop(r, {"verifying"}, req[r].saw, Kept(OpOf[r]), FALSE, "terminalJob")
  /\ UNCHANGED job /\ Stay

\* Wrong: a Job that cannot be written is ignored.
RecordTerminalOrNot(r) ==
  /\ At(r, "terminalJob")
  /\ \/ RecordJob(r, IF req[r].saw = "succeeded" THEN "completed" ELSE "failed")
     \/ UNCHANGED job
  /\ Goto(r, "finish")
  /\ UNCHANGED <<op, rec, lock>> /\ Stay

\* Not fenced; a Job that cannot be written leaves the projection to recovery.
RecordTerminal(r) ==
  /\ At(r, "terminalJob")
  /\ \/ RecordJob(r, IF req[r].saw = "succeeded" THEN "completed" ELSE "failed")
        /\ Goto(r, "finish")
     \/ Goto(r, "handoff") /\ UNCHANGED job
  /\ UNCHANGED <<op, rec, lock>> /\ Stay

\* _persistence_failure_handoff, for the artifact and for the terminal Job.
HandOff(r) ==
  /\ At(r, "handoff")
  /\ LET o == OpOf[r]
         settled == op[o].status \in {"succeeded", "failed"}
     IN IF settled \/ ExactLock(o)
        THEN CommitOrStop(r, {"dispatching", "verifying", "succeeded", "failed"},
                          IF settled THEN op[o].status ELSE "needs_reconciliation",
                          IF settled \/ op[o].upid THEN Ended(o, "retry_wait", FALSE)
                                                   ELSE Ended(o, "paused", TRUE),
                          FALSE, "done")
        ELSE Goto(r, "done") /\ UNCHANGED <<op, rec, lock>>
  /\ UNCHANGED job /\ Stay

\* Wrong: the recovery is closed and the lock stays.
FinishAndKeepLock(r) ==
  /\ At(r, "finish")
  /\ CommitOrStop(r, {req[r].saw}, req[r].saw, Ended(OpOf[r], "completed", FALSE), FALSE, "done")
  /\ UNCHANGED job /\ Stay

\* The projection is recorded: close the recovery and release the lock together.
FinishTerminal(r) ==
  /\ At(r, "finish")
  /\ CommitOrStop(r, {req[r].saw}, req[r].saw, Ended(OpOf[r], "completed", FALSE), TRUE, "done")
  /\ UNCHANGED job /\ Stay

-----------------------------------------------------------------------------
(* Claiming recovery work. *)

ObserverAt(w, pc) == obs[w].pc = pc
Advance(w, pc) == obs' = [obs EXCEPT ![w].pc = pc]
Hold == UNCHANGED <<proxmox, req, bounds>>

HandlerPcs == {"load", "bind", "closeUnsent", "project", "pauseMissing", "pauseBinding",
               "observeTask", "observeVm", "retry", "correlate", "succeed", "fail", "mismatch",
               "excepted"}

\* The runner looks for more work; an operator whose request is on record may repeat it.
Rest(w) == obs' = [obs EXCEPT ![w] =
  IF w \in Runners THEN Observer("idle")
  ELSE IF @.pc \in HandlerPcs \cup {"repeat"} THEN [Observer("registered") EXCEPT !.o = obs[w].o]
  ELSE Observer("done")]

\* OperationRecoveryRunner.run_once
ClaimDueWork(w) ==
  /\ w \in Runners /\ ObserverAt(w, "idle")
  /\ \E o \in Ops :
       /\ ClaimDue(o)
       /\ obs' = [obs EXCEPT ![w].pc = "load", ![w].o = o, ![w].gen = rec'[o].gen]
  /\ UNCHANGED <<op, lock, job>> /\ Hold

\* A terminal status whose marker, still the last event, proves nothing was sent.
ProvenUnsent(o) == op[o].status \in {"failed", "blocked"} /\ op[o].marker # Free

\* OperationRecoveryCoordinator.observe reads the operation, the item and the lock.
RequestObservation(w) ==
  /\ w \in Operators /\ ObserverAt(w, "idle")
  /\ \E o \in Ops :
       LET l == lock[VmOf[o]]
           preparable == /\ op[o].status \in {"planned", "dispatching"} \/ ProvenUnsent(o)
                         /\ ~op[o].upid
                         /\ LockedBy(o)
                         /\ ProvenUnsent(o) => op[o].marker = l
       IN /\ op[o].status # "none"
          /\ IF rec[o].status # "none" THEN ~rec[o].barred ELSE preparable
          /\ obs' = [obs EXCEPT ![w].pc = IF rec[o].status = "none" THEN "prepare" ELSE "claim",
                                ![w].o = o, ![w].status = op[o].status,
                                ![w].version = op[o].version, ![w].seen = l]
  /\ UNCHANGED coordination /\ Hold

\* _same_observe_request: the key is on record and the lease it won has expired.
RepeatObservation(w) ==
  /\ ObserverAt(w, "registered")
  /\ LET o == obs[w].o IN
       /\ rec[o].status = "leased" /\ ~rec[o].live
       /\ obs' = [obs EXCEPT ![w].pc = "repeat", ![w].version = op[o].version]
  /\ UNCHANGED coordination /\ Hold

\* _prepare_pre_dispatch_item, or claim_operation, fenced by the version that was read.
ClaimObservation(w) ==
  /\ obs[w].pc \in {"prepare", "claim", "repeat"}
  /\ LET o == obs[w].o
         current == op[o].version = obs[w].version
     IN \/ /\ current
           /\ IF ObserverAt(w, "prepare")
              THEN PrepareAndClaim(o, obs[w].seen, obs[w].status \in {"failed", "blocked"})
              ELSE ClaimOperation(o)
           /\ obs' = [obs EXCEPT ![w].pc = IF @ = "repeat" THEN "load" ELSE "request",
                                 ![w].gen = rec'[o].gen]
        \/ ~(current /\ Claimable(o)) /\ Rest(w) /\ UNCHANGED rec
  /\ UNCHANGED <<op, lock, job>> /\ Hold

\* The request event; a conflict here answers the operator and leaves the lease to expire.
RecordRequest(w) ==
  /\ ObserverAt(w, "request")
  /\ LET o == obs[w].o
         st == obs[w].status
     IN \/ /\ op[o].version = obs[w].version
           /\ Commit(o, obs[w].gen, {st}, st, Kept(o), FALSE)
           /\ obs' = [obs EXCEPT ![w] = [Observer("load") EXCEPT !.o = o, !.gen = obs[w].gen]]
        \/ /\ ~(op[o].version = obs[w].version /\ MayCommit(o, obs[w].gen, {st}, st, FALSE))
           /\ Rest(w) /\ UNCHANGED <<op, rec, lock>>
  /\ UNCHANGED job /\ Hold

-----------------------------------------------------------------------------
(* The recovery handlers: they read, and never send a mutation. *)

\* run_claimed: a lost lease ends the handler wherever it stands.
LeaseLost(w) ==
  /\ obs[w].pc \in HandlerPcs /\ ~LeaseOwned(obs[w].o, obs[w].gen)
  /\ Rest(w)
  /\ UNCHANGED coordination /\ Hold

Handling(w, pc) == ObserverAt(w, pc) /\ LeaseOwned(obs[w].o, obs[w].gen)

\* Wrong: without a task reference nothing was sent, whatever the recorded phase.
CourseWithoutPhase(o) ==
  IF ~rec[o].upid /\ ~op[o].upid /\ op[o].status \in {"planned", "dispatching"}
  THEN "closeUnsent"
  ELSE IF op[o].status \in {"succeeded", "failed"} THEN "project"
  ELSE IF ~rec[o].upid THEN "pauseMissing" ELSE "observeTask"

\* What the handler will do once the binding is validated, from the operation it read.
Course(o) ==
  IF rec[o].phase = "pre_dispatch" /\ ~rec[o].upid /\ ~op[o].upid
     /\ (op[o].status \in {"planned", "dispatching"}
         \/ (ProvenUnsent(o) /\ rec[o].marker /\ rec[o].lockId = op[o].marker))
  THEN "closeUnsent"
  ELSE IF op[o].status \in {"succeeded", "failed"} THEN "project"
  ELSE IF ~rec[o].upid THEN "pauseMissing" ELSE "observeTask"

\* The read may fail, and the mismatch of the two task references is a binding failure.
LoadOperation(w) ==
  /\ Handling(w, "load")
  /\ \/ LET o == obs[w].o IN
          obs' = [obs EXCEPT ![w].pc = "bind", ![w].status = op[o].status,
                             ![w].next = IF op[o].upid = rec[o].upid THEN Course(o) ELSE "pauseBinding"]
     \/ Advance(w, "excepted")
  /\ UNCHANGED coordination /\ Hold

\* _validate_recovery_binding reads the lock after the operation.
ValidateBinding(w) ==
  /\ Handling(w, "bind")
  /\ Advance(w, IF ExactLock(obs[w].o) THEN obs[w].next ELSE "pauseBinding")
  /\ UNCHANGED coordination /\ Hold

\* A handler's commit of the status it read, or the exception run_claimed absorbs.
HandlerCommit(w, to, item, release) ==
  Commit(obs[w].o, obs[w].gen, {obs[w].status}, to, item, release)
HandlerConflict(w, to, release) ==
  /\ ~MayCommit(obs[w].o, obs[w].gen, {obs[w].status}, to, release)
  /\ Advance(w, "excepted")
  /\ UNCHANGED <<op, rec, lock>>

Reconciled(w) ==
  IF obs[w].status \in {"dispatching", "running", "verifying"}
  THEN "needs_reconciliation" ELSE obs[w].status

PauseBindingFailure(w) ==
  /\ Handling(w, "pauseBinding")
  /\ LET to == Reconciled(w) IN
       \/ HandlerCommit(w, to, Ended(obs[w].o, "paused", TRUE), FALSE) /\ Rest(w)
       \/ HandlerConflict(w, to, FALSE)
  /\ UNCHANGED job /\ Hold

PauseMissingTask(w) ==
  /\ Handling(w, "pauseMissing")
  /\ LET to == Reconciled(w) IN
       \/ /\ to = "needs_reconciliation" => ExactLock(obs[w].o)
          /\ HandlerCommit(w, to, Ended(obs[w].o, "paused", TRUE), FALSE)
          /\ Rest(w)
       \/ HandlerConflict(w, to, FALSE)
  /\ UNCHANGED job /\ Hold

\* _complete_pre_dispatch: close the operation, project its Job and unlock, in one transaction.
CompleteUnsent(w) ==
  /\ Handling(w, "closeUnsent")
  /\ LET o == obs[w].o
         to == IF obs[w].status \in {"failed", "blocked"} THEN obs[w].status ELSE "failed"
     IN \/ /\ HandlerCommit(w, to, Ended(o, "completed", FALSE), TRUE)
           /\ job' = [job EXCEPT ![o] = to]
           /\ Rest(w)
        \/ HandlerConflict(w, to, TRUE) /\ UNCHANGED job
  /\ Hold

\* _complete_terminal_projection: the projector raises when the Job is missing.
CompleteProjection(w) ==
  /\ Handling(w, "project")
  /\ LET o == obs[w].o
         st == obs[w].status
     IN \/ /\ job[o] # "none"
           /\ HandlerCommit(w, st, Ended(o, "completed", FALSE), TRUE)
           /\ job' = [job EXCEPT ![o] = IF st = "succeeded" THEN "completed" ELSE "failed"]
           /\ Rest(w)
        \/ /\ job[o] = "none" \/ ~MayCommit(o, obs[w].gen, {st}, st, TRUE)
           /\ Advance(w, "excepted") /\ UNCHANGED coordination
  /\ Hold

\* get_task_status: still open, settled, or unavailable.
ObserveTask(w) ==
  /\ Handling(w, "observeTask")
  /\ \/ task[obs[w].o] \in {"ok", "failed"}
        /\ obs' = [obs EXCEPT ![w].pc = "observeVm", ![w].saw = task[obs[w].o]]
     \/ task[obs[w].o] \notin {"ok", "failed"} /\ Advance(w, "retry")
     \/ Advance(w, "excepted")
  /\ UNCHANGED coordination /\ Hold

ObserveVm(w) ==
  /\ Handling(w, "observeVm")
  /\ \/ LET o == obs[w].o
            verdict == Verdict(o, obs[w].saw, vm[VmOf[o]])
        IN Advance(w, CASE verdict = "succeeded" ->
                            IF obs[w].status = "verifying" THEN "succeed" ELSE "correlate"
                        [] verdict = "failed" -> "fail"
                        [] OTHER -> "mismatch")
     \/ Advance(w, "excepted")
  /\ UNCHANGED coordination /\ Hold

AttemptsSpent(o) == rec[o].gen >= MaxAttempts

\* Wrong: exhausted work counts as done.
RetryOrDone(o) == IF AttemptsSpent(o) THEN "completed" ELSE "retry_wait"

RetryStatus(o) == IF AttemptsSpent(o) THEN "paused" ELSE "retry_wait"

RetryTask(w) ==
  /\ Handling(w, "retry")
  /\ LET o == obs[w].o IN
       \/ HandlerCommit(w, obs[w].status, Ended(o, RetryStatus(o), FALSE), FALSE) /\ Rest(w)
       \/ HandlerConflict(w, obs[w].status, FALSE)
  /\ UNCHANGED job /\ Hold

\* _advance_to_verifying: one commit per status on the way.
AdvanceToVerifying(w) ==
  /\ Handling(w, "correlate")
  /\ LET to == IF obs[w].status = "dispatching" THEN "running" ELSE "verifying" IN
       \/ /\ HandlerCommit(w, to, Kept(obs[w].o), FALSE)
          /\ obs' = [obs EXCEPT ![w].pc = IF to = "verifying" THEN "succeed" ELSE "correlate",
                                ![w].status = to]
       \/ HandlerConflict(w, to, FALSE)
  /\ UNCHANGED job /\ Hold

RecordOutcome(w) ==
  /\ obs[w].pc \in {"succeed", "fail"} /\ LeaseOwned(obs[w].o, obs[w].gen)
  /\ LET to == IF ObserverAt(w, "succeed") THEN "succeeded" ELSE "failed" IN
       \/ /\ HandlerCommit(w, to, Kept(obs[w].o), FALSE)
          /\ obs' = [obs EXCEPT ![w].pc = "project", ![w].status = to]
       \/ HandlerConflict(w, to, FALSE)
  /\ UNCHANGED job /\ Hold

PauseMismatch(w) ==
  /\ Handling(w, "mismatch")
  /\ LET o == obs[w].o IN
       \/ /\ obs[w].status # "needs_reconciliation" => ExactLock(o)
          /\ HandlerCommit(w, "needs_reconciliation", Ended(o, "paused", FALSE), FALSE)
          /\ Rest(w)
       \/ HandlerConflict(w, "needs_reconciliation", FALSE)
  /\ UNCHANGED job /\ Hold

\* run_claimed's own commit expects no status.
AbsorbException(w) ==
  /\ Handling(w, "excepted")
  /\ LET o == obs[w].o IN
       Commit(o, obs[w].gen, {op[o].status}, op[o].status, Ended(o, RetryStatus(o), FALSE), FALSE)
  /\ Rest(w)
  /\ UNCHANGED job /\ Hold

-----------------------------------------------------------------------------
(* Proxmox, time and failures. *)

\* A request Proxmox received, though its answer was lost, may start its task late.
TaskStarts(o) ==
  /\ task[o] = "inflight" /\ task' = [task EXCEPT ![o] = "running"]
  /\ UNCHANGED <<coordination, vm, posts, req, obs, bounds>>

TaskEnds(o) ==
  /\ task[o] = "running"
  /\ \/ task' = [task EXCEPT ![o] = "ok"] /\ vm' = [vm EXCEPT ![VmOf[o]] = Target(o)]
     \/ task' = [task EXCEPT ![o] = "failed"] /\ vm' = vm
  /\ UNCHANGED <<coordination, posts, req, obs, bounds>>

\* A guest shuts down by itself, or someone powers the VM outside Gjallar.
PowerChanges(v) ==
  /\ vm' = [vm EXCEPT ![v] = IF @ = "running" THEN "stopped" ELSE "running"]
  /\ UNCHANGED <<coordination, task, posts, req, obs, bounds>>

\* A thread still works under the current lease of o.
HolderActive(o) ==
  \/ \E r \in Requests : OpOf[r] = o /\ req[r].gen = rec[o].gen
  \/ \E w \in Observers : obs[w].o = o /\ obs[w].gen = rec[o].gen

LeaseExpires(o) ==
  /\ rec[o].status = "leased" /\ rec[o].live
  /\ rec' = [rec EXCEPT ![o].live = FALSE]
  /\ IF HolderActive(o) THEN stalls < MaxStalls /\ stalls' = stalls + 1 ELSE stalls' = stalls
  /\ UNCHANGED <<op, lock, job, proxmox, req, obs, crashes>>

\* The thread dies, or an exception past the last handler ends it with the lock retained.
RequestCrashes(r) ==
  /\ req[r].pc \notin {"start", "done", "crashed"}
  /\ crashes < MaxCrashes /\ crashes' = crashes + 1
  /\ Goto(r, "crashed")
  /\ UNCHANGED <<coordination, proxmox, obs, stalls>>

ObserverCrashes(w) ==
  /\ obs[w].pc \notin {"idle", "registered", "done"}
  /\ crashes < MaxCrashes /\ crashes' = crashes + 1
  /\ Rest(w)
  /\ UNCHANGED <<coordination, proxmox, req, stalls>>

-----------------------------------------------------------------------------

RequestStep(r) ==
  \/ LookupJob(r) \/ PrepareOperation(r) \/ AcquireTarget(r) \/ TargetLockBusy(r)
  \/ ResolveBusy(r) \/ RecordConflict(r) \/ RecheckUnderLock(r) \/ RecordPrecheck(r)
  \/ Precheck(r) \/ AbandonUnsent(r) \/ BlockOperation(r) \/ RecordBlocked(r)
  \/ OpenMutationClient(r) \/ RecordStart(r) \/ RegisterRecovery(r) \/ RecordUnsentFailure(r)
  \/ CloseUnsentFailure(r) \/ ReleaseTarget(r) \/ ClaimReplay(r) \/ CommitReplay(r)
  \/ CommitDispatching(r) \/ PostMutation(r) \/ CommitRejected(r) \/ CommitRunning(r)
  \/ RecordPoll(r) \/ PollTask(r) \/ ReadVmStatus(r) \/ CommitVerifying(r) \/ WriteArtifact(r)
  \/ RequireReconciliation(r) \/ RecordReconciliation(r) \/ CommitTerminal(r)
  \/ RecordTerminal(r) \/ HandOff(r) \/ FinishTerminal(r)

ObserverStep(w) ==
  \/ ClaimObservation(w) \/ RecordRequest(w) \/ LeaseLost(w) \/ LoadOperation(w)
  \/ ValidateBinding(w) \/ PauseBindingFailure(w) \/ PauseMissingTask(w) \/ CompleteUnsent(w)
  \/ CompleteProjection(w) \/ ObserveTask(w) \/ ObserveVm(w) \/ RetryTask(w)
  \/ AdvanceToVerifying(w) \/ RecordOutcome(w) \/ PauseMismatch(w) \/ AbsorbException(w)

ProxmoxStep ==
  \/ \E o \in Ops : TaskStarts(o) \/ TaskEnds(o)
  \/ \E v \in Vms : PowerChanges(v)

Next ==
  \/ \E r \in Requests : RequestStep(r) \/ RequestCrashes(r)
  \/ \E w \in Observers :
       \/ ClaimDueWork(w) \/ RequestObservation(w) \/ RepeatObservation(w)
       \/ ObserverStep(w) \/ ObserverCrashes(w)
  \/ ProxmoxStep
  \/ \E o \in Ops : LeaseExpires(o)

Spec == Init /\ [][Next]_vars

\* Threads run, an abandoned lease expires, the enabled runner polls, a started task ends.
\* Nothing is assumed of operators, of late requests, or of a live holder's lease.
Fairness ==
  /\ \A r \in Requests : WF_vars(RequestStep(r))
  /\ \A w \in Observers : WF_vars(ObserverStep(w))
  /\ \A w \in Runners : WF_vars(ClaimDueWork(w))
  /\ \A o \in Ops : WF_vars(~HolderActive(o) /\ LeaseExpires(o)) /\ WF_vars(TaskEnds(o))

LiveSpec == Spec /\ Fairness

-----------------------------------------------------------------------------
(* Properties. *)

Uncertain == {"dispatching", "running", "verifying", "needs_reconciliation"}
Open == {"leased", "retry_wait", "paused"}

\* A mutation is sent to Proxmox at most once, whatever is retried, replayed or recovered.
AtMostOnePost == \A o \in Ops : posts[o] <= 1

\* While a mutation may still act on a VM, that VM is locked by its own operation: nobody
\* else can be admitted to it.
EffectUnderLock == \A o \in Ops : TaskOpen(o) => LockedBy(o)

\* A terminal status never contradicts Proxmox: success means the task finished, failure
\* and block mean that it never ran, or ran and failed.
TerminalOutcomeIsTrue ==
  \A o \in Ops :
    /\ op[o].status = "succeeded" => task[o] = "ok"
    /\ op[o].status \in {"failed", "blocked"} => task[o] \in {"none", "failed"}

\* Until its outcome is known an operation keeps its exact lock and unfinished recovery work:
\* no error path drops one of them.
UncertainStaysOpen ==
  \A o \in Ops : op[o].status \in Uncertain => ExactLock(o) /\ rec[o].status \in Open

\* What the records call "without effect" (the terminal marker, and the Jobs a later request
\* may close on) was never sent.
NoEffectClaimIsTrue ==
  \A o \in Ops :
    op[o].marker # Free \/ job[o] \in {"failed_no_effect", "blocked"} => posts[o] = 0

\* Completed recovery work means a decided operation whose lock is gone.
CompletedIsClosed ==
  \A o \in Ops : rec[o].status = "completed" =>
    op[o].status \in TerminalStatuses /\ lock[VmOf[o]] # rec[o].lockId

\* Once recovery work is completed, no late thread moves the operation or the work again.
ClosedIsFinal ==
  [][\A o \in Ops : rec[o].status = "completed" => op'[o] = op[o] /\ rec'[o] = rec[o]]_vars

\* At the moment the recovery of a dispatched operation completes, and its lock goes with it,
\* the Job the operator sees tells the outcome.
JobToldAtCompletion ==
  [][\A o \in Ops :
       posts[o] > 0 /\ rec[o].status # "completed" /\ rec'[o].status = "completed" =>
         job'[o] = IF op'[o].status = "succeeded" THEN "completed" ELSE "failed"]_vars

\* The system implements what TargetMutation promises.
Fate(o) == IF op[o].status \in TerminalStatuses THEN "settled"
           ELSE IF posts[o] > 0 THEN "sent" ELSE "unsent"
Abstract == INSTANCE TargetMutation WITH
  Nobody <- Free,
  holder <- [v \in Vms |-> IF lock[v] = Free THEN Free ELSE OpOf[lock[v]]],
  fate <- [o \in Ops |-> Fate(o)]
ImplementsTargetMutation == Abstract!Spec

\* Recovery work never stays in progress for ever: it is completed, or handed to an operator.
RecoveryWorkEnds ==
  \A o \in Ops : rec[o].status \in {"leased", "retry_wait"} ~> rec[o].status \in {"completed", "paused"}

\* A VM does not stay locked by a working system: the lock is released, or an operator is
\* needed because recovery paused, or because the request died before it registered any.
LockIsFreedOrHandedOver ==
  \A o \in Ops : LockedBy(o) ~>
    \/ ~LockedBy(o)
    \/ rec[o].status = "paused"
    \/ rec[o].status = "none" /\ \A r \in Requests : OpOf[r] = o => req[r].pc \in {"start", "done", "crashed"}

\* project-docs/architecture.md, section 7: a request that fails before dispatch releases its
\* lock only when no recovery item exists; recovery somebody has taken over is left alone.
ReleaseNeedsNoRecovery ==
  [][\A o \in Ops : LockedBy(o) /\ ~LockedBy(o)' => rec[o].status = "none" \/ rec'[o].status = "completed"]_vars

\* job_projection.py: the operator-visible Job stays aligned with the closed operation.
ClosedJobIsTerminal ==
  \A o \in Ops : rec[o].status = "completed" => job[o] \notin {"running", "needs_reconciliation"}

=============================================================================
