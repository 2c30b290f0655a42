------------------------------ MODULE VmCreate ------------------------------
(***************************************************************************)
(* VM Create: one approved operation that sends up to four mutations       *)
(* (clone, resize, config, start) to Proxmox, each between two durable     *)
(* checkpoints of its recovery session, and the handler that observes what *)
(* an interrupted creation left behind (vm_create/application.py,          *)
(* vm_create/proxmox_runner.py, operations/vm_create/).                    *)
(*                                                                         *)
(*   op[o]    status and version (every event, also of a refused repeat,   *)
(*            adds one);                                                   *)
(*   rec[o]   recovery row: work status, lease, and of its details the     *)
(*            phase ("pre" before the clone, "rejected" after a clear 4xx,  *)
(*            "sent" otherwise), the recorded task, result_success, lock;  *)
(*   lock[v]  the open target lock, named by the request that inserted it; *)
(*   req[o]   the compatibility request row, written outside the lease.    *)
(*                                                                         *)
(* Checkpoints that only describe the road to a pause belong to the pause. *)
(***************************************************************************)
EXTENDS Naturals, FiniteSets, OperationCore

CONSTANTS Ops, Vms, VmOf, Requests, Runners, Operators,
          Boot,           \* the operations with power policy boot_and_verify
          Free,           \* no lock, no VM
          MaxAttempts, MaxObserves, MaxFaults

Observers == Runners \cup Operators
Threads == Requests \cup Observers
Steps == {"clone", "resize", "config", "start"}
TaskSteps == {"clone", "start"}

ASSUME VmCreateAssumption ==
  /\ Ops # {} /\ VmOf \in [Ops -> Vms] /\ Boot \subseteq Ops
  /\ Requests \cap Observers = {} /\ Free \notin Threads \cup Ops
  /\ {MaxAttempts, MaxObserves, MaxFaults} \subseteq Nat

VARIABLES op, rec, lock, req,
          sent,    \* sent[o][s]: how often mutation s of o was sent
          effect,  \* effect[o][s]: what became of it at Proxmox
          vm,      \* vm[v]: the operation whose VM exists under the id
          th, observes,
          faults   \* crashes, live leases that ran out, VMs deleted by hand

ledger == <<op, rec, lock>>
proxmox == <<sent, effect, vm>>
bounds == <<observes, faults>>
vars == <<ledger, req, proxmox, th, bounds>>

OpRows == [status : OperationStatuses \cup {"none"}, version : Nat]
RecRows == [status : {"none", "leased", "retry_wait", "paused", "completed"}, gen : Nat,
            live : BOOLEAN, phase : {"none", "pre", "rejected", "sent"},
            task : {"none"} \cup TaskSteps, success : BOOLEAN, lockId : Requests \cup {Free}]
RequestStatuses == {"none", "running", "failed", "unresolved", "completed"}
Effects == {"none", "inflight", "running", "ok", "failed"}
Pcs == {"prepare_operation", "approve", "existing", "acquire", "adopt", "prepare", "release",
        "record", "dispatch", "arm", "validate", "no_effect", "close_unsent",
        "mark", "send", "answered", "wait", "clone_rejected", "tell_rejected", "close_rejected",
        "post_check", "record_running", "record_verifying", "succeed",
        "interrupted", "unconfirmed", "tell_unconfirmed", "done",
        "idle", "look", "claim_unprepared", "load", "observe", "unsent", "rejected",
        "adopt_result", "adopt_verifying", "close_absent", "bad_binding", "pause", "retry"}

TypeOK ==
  /\ op \in [Ops -> OpRows] /\ rec \in [Ops -> RecRows]
  /\ lock \in [Vms -> Requests \cup {Free}] /\ req \in [Ops -> RequestStatuses]
  /\ sent \in [Ops -> [Steps -> Nat]] /\ effect \in [Ops -> [Steps -> Effects]]
  /\ vm \in [Vms -> Ops \cup {Free}]
  /\ th \in [Threads -> [pc : Pcs, o : Ops, gen : Nat, row : OpRows, step : Steps,
                         lockId : Requests \cup {Free}]]

NoOp == [status |-> "none", version |-> 0]
Fresh(pc) == [pc |-> pc, gen |-> 0, row |-> NoOp, step |-> "clone", lockId |-> Free,
                 o |-> CHOOSE o \in Ops : TRUE]
Rest(t) == IF t \in Requests THEN [Fresh("done") EXCEPT !.o = th[t].o] ELSE Fresh("idle")

Init ==
  /\ op = [o \in Ops |-> NoOp] /\ req = [o \in Ops |-> "none"]
  /\ rec = [o \in Ops |-> [status |-> "none", gen |-> 0, live |-> FALSE, phase |-> "none",
                           task |-> "none", success |-> FALSE, lockId |-> Free]]
  /\ lock = [v \in Vms |-> Free] /\ vm = [v \in Vms |-> Free]
  /\ sent = [o \in Ops |-> [s \in Steps |-> 0]]
  /\ effect = [o \in Ops |-> [s \in Steps |-> "none"]]
  /\ th = [t \in Threads |-> Fresh(IF t \in Requests THEN "prepare_operation" ELSE "idle")]
  /\ observes = 0 /\ faults = 0

At(t, pc) == th[t].pc = pc
Moved(t, pc) == IF pc = "rest" THEN Rest(t) ELSE [th[t] EXCEPT !.pc = pc]
Goto(t, pc) == th' = [th EXCEPT ![t] = Moved(t, pc)]
Keep == UNCHANGED <<proxmox, bounds>>

Event(o, to) == op' = [op EXCEPT ![o] = [status |-> to, version |-> @.version + 1]]
LockedBy(o) == lock[VmOf[o]] # Free /\ th[lock[VmOf[o]]].o = o
Busy == {"dispatching", "running", "verifying", "needs_reconciliation"}

-----------------------------------------------------------------------------
(* Plan, approval and the guards of execute_proxmox_create. *)

\* A red plan is created blocked and never approved.
PrepareOperation(t) ==
  /\ At(t, "prepare_operation")
  /\ \E o \in Ops :
       /\ IF op[o].status = "none" THEN \E s \in {"awaiting_approval", "blocked"} : Event(o, s)
          ELSE UNCHANGED op
       /\ th' = [th EXCEPT ![t] = [Moved(t, "approve") EXCEPT !.o = o]]
  /\ UNCHANGED <<rec, lock, req>> /\ Keep

\* A refused decision is an event as well.
Approve(t) ==
  /\ At(t, "approve")
  /\ LET o == th[t].o IN
       \/ /\ op[o].status = "awaiting_approval" /\ Event(o, "approved")
          /\ th' = [th EXCEPT ![t] = [Moved(t, "existing") EXCEPT !.row = op'[o]]]
       \/ /\ op[o].status \in Busy \cup {"approved", "succeeded"} /\ UNCHANGED op
          /\ th' = [th EXCEPT ![t] = [Moved(t, "existing") EXCEPT !.row = op[o]]]
       \/ /\ op[o].status \in {"awaiting_approval", "blocked"}
          /\ Event(o, op[o].status) /\ Goto(t, "rest")
       \/ op[o].status = "failed" /\ UNCHANGED op /\ Goto(t, "rest")
  /\ UNCHANGED <<rec, lock, req>> /\ Keep

\* The row of another creation blocks its VM only while that creation is unfinished.
VmTaken(o) ==
  \E p \in Ops \ {o} : VmOf[p] = VmOf[o] /\ req[p] \in {"running", "unresolved"}
                       /\ op[p].status \in Busy

\* A known request is answered; the refusal or replay is appended to the operation.
CheckExisting(t) ==
  /\ At(t, "existing")
  /\ LET o == th[t].o IN
       IF req[o] # "none" \/ VmTaken(o) THEN Event(o, op[o].status) /\ Goto(t, "rest")
       ELSE Goto(t, "acquire") /\ UNCHANGED op
  /\ UNCHANGED <<rec, lock, req>> /\ Keep

\* _recover_owned_pre_dispatch_lock_if_safe: approved, no request row, no recovery row.
MayAdopt(t) ==
  LET o == th[t].o IN
    th[t].row.status = "approved" /\ req[o] = "none" /\ rec[o].status = "none" /\ LockedBy(o)

Acquire(t) ==
  /\ At(t, "acquire")
  /\ LET o == th[t].o  v == VmOf[o] IN
       \/ /\ lock[v] = Free
          /\ lock' = [lock EXCEPT ![v] = t] /\ UNCHANGED op
          /\ th' = [th EXCEPT ![t] = [Moved(t, "prepare") EXCEPT !.lockId = t]]
       \/ /\ lock[v] # Free /\ MayAdopt(t) /\ UNCHANGED <<op, lock>>
          /\ th' = [th EXCEPT ![t] = [Moved(t, "adopt") EXCEPT !.lockId = lock[v]]]
       \/ /\ lock[v] # Free /\ ~MayAdopt(t) /\ UNCHANGED lock
          /\ Event(o, op[o].status) /\ Goto(t, "rest")
  /\ UNCHANGED <<rec, req>> /\ Keep

\* Wrong: a session is prepared over completed work, whatever the operation is by now.
PrepareOver(t) ==
  /\ rec[th[t].o].status \in {"none", "completed"}
  /\ rec' = [rec EXCEPT ![th[t].o] = [@ EXCEPT !.status = "leased", !.gen = @ + 1, !.live = TRUE,
                                        !.phase = "pre", !.lockId = th[t].lockId]]

\* prepare_and_claim, fenced by the operation row the caller has read.
PrepareAndClaim(t) ==
  LET o == th[t].o IN
    /\ op[o] = th[t].row
    /\ rec[o].status # "completed" /\ ~(rec[o].status = "leased" /\ rec[o].live)
    /\ rec' = [rec EXCEPT ![o] = [rec[o] EXCEPT !.status = "leased", !.gen = rec[o].gen + 1,
                                     !.live = TRUE, !.phase = "pre", !.lockId = th[t].lockId]]

\* The finally clause gives the lock back when there is no session.
PrepareSession(t) ==
  /\ th[t].pc \in {"prepare", "adopt"}
  /\ \/ /\ PrepareAndClaim(t)
        /\ LET next == IF At(t, "prepare") THEN "record" ELSE "no_effect" IN
             th' = [th EXCEPT ![t] = [Moved(t, next) EXCEPT !.gen = rec'[th[t].o].gen]]
     \/ Goto(t, IF At(t, "prepare") THEN "release" ELSE "rest") /\ UNCHANGED rec
  /\ UNCHANGED <<op, lock, req>> /\ Keep

ReleaseOwn(t) ==
  /\ At(t, "release")
  /\ LET v == VmOf[th[t].o] IN lock' = IF lock[v] = t THEN [lock EXCEPT ![v] = Free] ELSE lock
  /\ Goto(t, "rest")
  /\ UNCHANGED <<op, rec, req>> /\ Keep

-----------------------------------------------------------------------------
(* The recovery session: every checkpoint is one commit_observation. *)

LeaseOwned(t) ==
  rec[th[t].o].status = "leased" /\ rec[th[t].o].live /\ rec[th[t].o].gen = th[t].gen
ExactLock(o) == rec[o].lockId # Free /\ lock[VmOf[o]] = rec[o].lockId

\* The lease, the row last read, the transition; the exact lock where it matters.
MayCommit(t, to, exact) ==
  LET o == th[t].o IN
    /\ LeaseOwned(t) /\ op[o] = th[t].row
    /\ MayTransition(op[o].status, to)
    /\ exact => ExactLock(o)

\* What a checkpoint leaves in the recovery row.
Ended(t, status) == [rec[th[t].o] EXCEPT !.status = status, !.live = FALSE]

Checkpoint(t, to, item, release, next) ==
  LET o == th[t].o IN
    /\ MayCommit(t, to, release \/ (to = "needs_reconciliation" /\ op[o].status # to))
    /\ Event(o, to)
    /\ rec' = [rec EXCEPT ![o] = item]
    /\ lock' = IF release THEN [lock EXCEPT ![VmOf[o]] = Free] ELSE lock
    /\ th' = [th EXCEPT ![t] = IF next = "rest" THEN Rest(t)
                               ELSE [Moved(t, next) EXCEPT !.row = op'[o]]]

\* A commit of the request; a lost fence or a database error raises instead.
Commit(t, to, item, release, next, raised) ==
  Checkpoint(t, to, item, release, next) \/ (Goto(t, raised) /\ UNCHANGED ledger)

Status(t) == th[t].row.status

-----------------------------------------------------------------------------
(* Before the first mutation. *)

RecordRunning(t) ==
  /\ At(t, "record")
  /\ \/ req' = [req EXCEPT ![th[t].o] = "running"] /\ Goto(t, "dispatch")
     \/ UNCHANGED req /\ Goto(t, "no_effect")
  /\ UNCHANGED ledger /\ Keep

\* An ordinary transition: the lease is not asked.
DispatchPrepared(t) ==
  /\ At(t, "dispatch")
  /\ LET o == th[t].o IN
       \/ /\ op[o].status = "approved" /\ Event(o, "dispatching")
          /\ th' = [th EXCEPT ![t] = [Moved(t, "arm") EXCEPT !.row = op'[o]]]
       \/ UNCHANGED op /\ Goto(t, "no_effect")
  /\ UNCHANGED <<rec, lock, req>> /\ Keep

Arm(t) ==
  /\ At(t, "arm")
  /\ Commit(t, Status(t), rec[th[t].o], FALSE, "validate", "no_effect")
  /\ UNCHANGED req /\ Keep

\* Two heartbeats and a fresh review: the id must still be unused.
ValidateFresh(t) ==
  /\ At(t, "validate")
  /\ \/ LeaseOwned(t) /\ vm[VmOf[th[t].o]] = Free /\ Goto(t, "mark")
     \/ Goto(t, "no_effect")
  /\ UNCHANGED <<ledger, req>> /\ Keep

\* Request and Job are told first; if that fails the work waits for recovery.
RecordNoEffect(t) ==
  /\ At(t, "no_effect")
  /\ \/ /\ req' = [req EXCEPT ![th[t].o] = "failed"]
        /\ Goto(t, "close_unsent") /\ UNCHANGED ledger
     \/ Commit(t, Status(t), Ended(t, "retry_wait"), FALSE, "rest", "rest") /\ UNCHANGED req
  /\ Keep

UnsentStatus(status) ==
  CASE status = "approved" -> "blocked" [] status = "dispatching" -> "failed" [] OTHER -> status

CloseUnsent(t) ==
  /\ At(t, "close_unsent")
  /\ Commit(t, UnsentStatus(Status(t)), Ended(t, "completed"), TRUE, "rest", "rest")
  /\ UNCHANGED req /\ Keep

-----------------------------------------------------------------------------
(* run_proxmox_create. *)

\* Before each mutation.  Until the clone is marked nothing was sent.
Mark(t) ==
  /\ At(t, "mark")
  /\ Commit(t, Status(t), [rec[th[t].o] EXCEPT !.phase = "sent"], FALSE, "send",
            IF th[t].step = "clone" THEN "no_effect" ELSE "interrupted")
  /\ UNCHANGED req /\ Keep

Landed(s) == IF s \in TaskSteps THEN "running" ELSE "ok"
VmAfter(o, s, e) == IF s = "clone" /\ e = "running" THEN [vm EXCEPT ![VmOf[o]] = o] ELSE vm

\* A clone needs an unused id, the rest the VM.
Possible(o, s) == vm[VmOf[o]] = IF s = "clone" THEN Free ELSE o

Sends(t) ==
  /\ At(t, "send")
  /\ sent' = [sent EXCEPT ![th[t].o][th[t].step] = @ + 1]
  /\ UNCHANGED <<ledger, req, bounds>>

\* An answer with the task reference (clone, start).
SendAnswered(t) ==
  LET o == th[t].o  s == th[t].step IN
    /\ Sends(t) /\ Possible(o, s)
    /\ effect' = [effect EXCEPT ![o][s] = Landed(s)] /\ vm' = VmAfter(o, s, Landed(s))
    /\ Goto(t, "answered")

\* Wrong: a mutation without an answer is sent again.
SendAgain(s) == "send"

\* Wrong: every error of the clone counts as a refusal.
AnyErrorRefuses(s) == IF s = "clone" THEN "clone_rejected" ELSE "unconfirmed"

LostAnswer(s) == "unconfirmed"

\* Neither an error nor an answer without reference says what happened.
SendLost(t) ==
  LET o == th[t].o  s == th[t].step IN
    /\ Sends(t)
    /\ \E e \in {"none"} \cup (IF Possible(o, s) THEN {"inflight", Landed(s)} ELSE {}) :
         effect' = [effect EXCEPT ![o][s] = e] /\ vm' = VmAfter(o, s, e)
    /\ Goto(t, LostAnswer(s))

\* A 4xx answer to the clone, and only to the clone, proves that nothing happened.
SendRejected(t) ==
  /\ Sends(t) /\ th[t].step = "clone"
  /\ UNCHANGED <<effect, vm>> /\ Goto(t, "clone_rejected")

\* The disk is resized if it is smaller; a stopped VM is started under boot_and_verify.
AfterStep(o, s) ==
  CASE s = "clone" -> {"resize", "config", "unconfirmed"}
    [] s = "resize" -> {"config"}
    [] s = "config" -> {"post_check"} \cup (IF o \in Boot THEN {"start"} ELSE {})
    [] s = "start" -> {"post_check"}

Continue(t, n) ==
  IF n \in Steps THEN [Moved(t, "mark") EXCEPT !.step = n] ELSE Moved(t, n)

\* The acknowledgement of a synchronous mutation, or the task reference.
RecordAnswer(t) ==
  /\ At(t, "answered")
  /\ LET o == th[t].o  s == th[t].step IN
       IF s \in TaskSteps
       THEN Commit(t, Status(t), [rec[o] EXCEPT !.task = s], FALSE, "wait", "interrupted")
       ELSE \E n \in AfterStep(o, s) :
              \/ /\ MayCommit(t, Status(t), FALSE) /\ Event(o, Status(t))
                 /\ th' = [th EXCEPT ![t] = [Continue(t, n) EXCEPT !.row = op'[o]]]
                 /\ UNCHANGED <<rec, lock>>
              \/ Goto(t, "interrupted") /\ UNCHANGED ledger
  /\ UNCHANGED req /\ Keep

\* Polling heartbeats the lease; the end of the task is one more checkpoint.
WaitForTask(t) ==
  /\ At(t, "wait")
  /\ LET o == th[t].o  s == th[t].step IN
       \/ /\ effect[o][s] = "ok" /\ MayCommit(t, Status(t), FALSE) /\ Event(o, Status(t))
          /\ \E n \in AfterStep(o, s) :
               th' = [th EXCEPT ![t] = [Continue(t, n) EXCEPT !.row = op'[o]]]
       \/ \E pc \in {"unconfirmed", "interrupted"} : Goto(t, pc) /\ UNCHANGED op
  /\ UNCHANGED <<rec, lock, req>> /\ Keep

\* Post-check and readiness: the observation is stored with the recovery row.
PostCheck(t) ==
  /\ At(t, "post_check")
  /\ LET o == th[t].o IN
       \/ /\ vm[VmOf[o]] = o
          /\ Commit(t, Status(t), [rec[o] EXCEPT !.success = TRUE], FALSE, "record_running",
                    "interrupted")
       \/ Goto(t, "unconfirmed") /\ UNCHANGED ledger
  /\ UNCHANGED req /\ Keep

-----------------------------------------------------------------------------
(* The ends of a creation. *)

RecordCloneRejected(t) ==
  /\ At(t, "clone_rejected")
  /\ Commit(t, Status(t), [rec[th[t].o] EXCEPT !.phase = "rejected"], FALSE, "tell_rejected",
            "interrupted")
  /\ UNCHANGED req /\ Keep

TellRejected(t) ==
  /\ At(t, "tell_rejected")
  /\ \/ /\ req' = [req EXCEPT ![th[t].o] = "failed"]
        /\ Goto(t, "close_rejected") /\ UNCHANGED ledger
     \/ Commit(t, Status(t), Ended(t, "retry_wait"), FALSE, "rest", "rest") /\ UNCHANGED req
  /\ Keep

CloseRejected(t) ==
  /\ At(t, "close_rejected")
  /\ \/ Commit(t, "failed", Ended(t, "completed"), TRUE, "rest", "rest")
     \/ Commit(t, Status(t), Ended(t, "retry_wait"), FALSE, "rest", "rest")
  /\ UNCHANGED req /\ Keep

\* record_success_observed: running, then verifying.
RecordObserved(t) ==
  /\ \/ /\ At(t, "record_running")
        /\ Commit(t, "running", rec[th[t].o], FALSE, "record_verifying", "interrupted")
     \/ /\ At(t, "record_verifying")
        /\ Commit(t, "verifying", rec[th[t].o], FALSE, "succeed", "interrupted")
  /\ UNCHANGED req /\ Keep

\* complete_success projects request, Job and artifact in the closing transaction;
\* if it fails the verified result waits for recovery.
Succeed(t) ==
  /\ At(t, "succeed")
  /\ \/ /\ Checkpoint(t, "succeeded", Ended(t, "completed"), TRUE, "rest")
        /\ req' = [req EXCEPT ![th[t].o] = "completed"]
     \/ Commit(t, Status(t), Ended(t, "retry_wait"), FALSE, "rest", "rest") /\ UNCHANGED req
  /\ Keep

PauseStatus(status) ==
  IF status \in {"dispatching", "running", "verifying"} THEN "needs_reconciliation" ELSE status

\* After an exception, or a result that proves neither success nor absence.
PauseForReconciliation(t) ==
  /\ th[t].pc \in {"interrupted", "unconfirmed"}
  /\ Commit(t, PauseStatus(Status(t)), Ended(t, "paused"), FALSE,
            IF At(t, "unconfirmed") THEN "tell_unconfirmed" ELSE "rest", "rest")
  /\ UNCHANGED req /\ Keep

\* Outside the lease, after the pause.
TellUnconfirmed(t) ==
  /\ At(t, "tell_unconfirmed")
  /\ req' \in {req, [req EXCEPT ![th[t].o] = "unresolved"]}
  /\ Goto(t, "rest")
  /\ UNCHANGED ledger /\ Keep

-----------------------------------------------------------------------------
(* Recovery: the runner and the operator's observe. *)

\* Wrong: nobody takes over a lease whose holder is gone.
ClaimRetries(t, o) ==
  /\ At(t, "idle") /\ rec[o].status = "retry_wait" /\ UNCHANGED observes
  /\ rec' = [rec EXCEPT ![o].status = "leased", ![o].live = TRUE, ![o].gen = @ + 1]
  /\ th' = [th EXCEPT ![t] = [Fresh("load") EXCEPT !.o = o, !.gen = rec'[o].gen]]
  /\ UNCHANGED <<op, lock, req, proxmox, faults>>

ClaimWork(t, o) ==
  /\ At(t, "idle")
  /\ \/ rec[o].status = "retry_wait" \/ (rec[o].status = "leased" /\ ~rec[o].live)
     \/ t \in Operators /\ rec[o].status = "paused"
  /\ t \in Operators => observes < MaxObserves
  /\ observes' = IF t \in Operators THEN observes + 1 ELSE observes
  /\ rec' = [rec EXCEPT ![o].status = "leased", ![o].live = TRUE, ![o].gen = @ + 1]
  /\ th' = [th EXCEPT ![t] = [Fresh("load") EXCEPT !.o = o, !.gen = rec'[o].gen]]
  /\ UNCHANGED <<op, lock, req, proxmox, faults>>

\* observe of an approved operation with its exact lock and no recovery row yet.
LookUnprepared(t, o) ==
  /\ At(t, "idle") /\ t \in Operators /\ observes < MaxObserves
  /\ op[o].status = "approved" /\ rec[o].status = "none" /\ LockedBy(o)
  /\ observes' = observes + 1
  /\ th' = [th EXCEPT ![t] = [Fresh("claim_unprepared") EXCEPT
                                !.o = o, !.row = op[o], !.lockId = lock[VmOf[o]]]]
  /\ UNCHANGED <<ledger, req, proxmox, faults>>

ClaimUnprepared(t) ==
  /\ At(t, "claim_unprepared")
  /\ \/ /\ PrepareAndClaim(t)
        /\ th' = [th EXCEPT ![t] = [Moved(t, "load") EXCEPT !.gen = rec'[th[t].o].gen]]
     \/ Goto(t, "rest") /\ UNCHANGED rec
  /\ UNCHANGED <<op, lock, req>> /\ Keep

\* The order of the branches of handle.  Its branch for a closed operation is never taken: what
\* closes an operation also completes its recovery work, in the same commit.
HandlerBranch(o) ==
  CASE ~ExactLock(o) -> "bad_binding"
    [] ExactLock(o) /\ rec[o].phase = "pre" -> "unsent"
    [] ExactLock(o) /\ rec[o].phase = "rejected" -> "rejected"
    [] ExactLock(o) /\ rec[o].phase = "sent" ->
         IF rec[o].success THEN "adopt_result" ELSE "observe"

Handle(t) ==
  /\ At(t, "load")
  /\ LET o == th[t].o IN
       th' = [th EXCEPT ![t] = [Moved(t, HandlerBranch(o)) EXCEPT !.row = op[o]]]
  /\ UNCHANGED <<ledger, req>> /\ Keep

\* An observer's commit; what it raises is absorbed by run_claimed (AbsorbException).
Observed(t, to, item, release, next) == Checkpoint(t, to, item, release, next)

Told(o, s) == [req EXCEPT ![o] = IF @ = "none" THEN @ ELSE s]

\* The projection shares the closing transaction.
RecoverUnsent(t) ==
  /\ At(t, "unsent")
  /\ LET o == th[t].o IN
       IF Status(t) \in {"approved", "dispatching", "failed", "blocked"}
       THEN /\ Observed(t, UnsentStatus(Status(t)), Ended(t, "completed"), TRUE, "rest")
            /\ req' = Told(o, "failed")
       ELSE Goto(t, "pause") /\ UNCHANGED <<ledger, req>>
  /\ Keep

RecoverRejected(t) ==
  /\ At(t, "rejected")
  /\ LET o == th[t].o IN
       IF Status(t) \in {"dispatching", "failed"}
       THEN /\ Observed(t, "failed", Ended(t, "completed"), TRUE, "rest")
            /\ req' = Told(o, "failed")
       ELSE Goto(t, "pause") /\ UNCHANGED <<ledger, req>>
  /\ Keep

\* The stored observation is believed only if the VM still looks the same.
AdoptResult(t) ==
  /\ At(t, "adopt_result")
  /\ LET o == th[t].o IN
       \/ Goto(t, "retry") /\ UNCHANGED ledger
       \/ Goto(t, "pause") /\ UNCHANGED ledger
       \/ /\ vm[VmOf[o]] = o /\ Status(t) = "verifying"
          /\ Goto(t, "adopt_verifying") /\ UNCHANGED ledger
       \/ /\ vm[VmOf[o]] = o /\ Status(t) = "dispatching"
          /\ Observed(t, "running", rec[o], FALSE, "adopt_result")
       \/ /\ vm[VmOf[o]] = o /\ Status(t) \in {"running", "needs_reconciliation"}
          /\ Observed(t, "verifying", rec[o], FALSE, "adopt_verifying")
  /\ UNCHANGED req /\ Keep

AdoptSucceeded(t) ==
  /\ At(t, "adopt_verifying")
  /\ \/ /\ Observed(t, "succeeded", Ended(t, "completed"), TRUE, "rest")
        /\ req' = Told(th[t].o, "completed")
     \/ Goto(t, "retry") /\ UNCHANGED <<ledger, req>>
  /\ Keep

\* Wrong: a failed task is enough, wherever the VM is.
GoneAfter(o) == effect[o][rec[o].task] = "failed"

\* The recorded task ended badly and Proxmox answers 404 for the VM.
ProvenAbsent(o) == effect[o][rec[o].task] = "failed" /\ vm[VmOf[o]] # o

\* _observe_without_replay.
Observe(t) ==
  /\ At(t, "observe")
  /\ LET o == th[t].o IN
       IF rec[o].task = "none" THEN \E pc \in {"retry", "pause"} : Goto(t, pc)
       ELSE \/ Goto(t, "retry")
            \/ effect[o][rec[o].task] = "ok" /\ Goto(t, "pause")
            \/ effect[o][rec[o].task] = "failed"
               /\ Goto(t, IF ProvenAbsent(o) THEN "close_absent" ELSE "pause")
  /\ UNCHANGED <<ledger, req>> /\ Keep

CloseAbsent(t) ==
  /\ At(t, "close_absent")
  /\ IF Status(t) \in Busy \cup {"failed"}
     THEN /\ Observed(t, "failed", Ended(t, "completed"), TRUE, "rest")
          /\ req' = Told(th[t].o, "failed")
     ELSE Goto(t, "pause") /\ UNCHANGED <<ledger, req>>
  /\ Keep

\* A binding mismatch is paused without asking for the lock.
PauseWork(t) ==
  /\ th[t].pc \in {"pause", "bad_binding"}
  /\ LET o == th[t].o  to == PauseStatus(Status(t)) IN
       /\ MayCommit(t, to, At(t, "pause") /\ op[o].status # to)
       /\ Event(o, to) /\ rec' = [rec EXCEPT ![o] = Ended(t, "paused")] /\ UNCHANGED lock
       /\ Goto(t, "rest")
  /\ UNCHANGED req /\ Keep

RetryStatus(o) == IF rec[o].gen >= MaxAttempts THEN "paused" ELSE "retry_wait"

RetryLater(t) ==
  /\ At(t, "retry")
  /\ Observed(t, Status(t), Ended(t, RetryStatus(th[t].o)), FALSE, "rest")
  /\ UNCHANGED req /\ Keep

HandlerPcs == {"load", "observe", "unsent", "rejected", "adopt_result",
               "adopt_verifying", "close_absent", "bad_binding", "pause", "retry"}

\* run_claimed: whatever is raised is retried, a lost lease is not.
AbsorbException(t) ==
  /\ t \in Observers /\ th[t].pc \in HandlerPcs
  /\ LET o == th[t].o IN
       IF LeaseOwned(t)
       THEN Event(o, op[o].status) /\ rec' = [rec EXCEPT ![o] = Ended(t, RetryStatus(o))]
       ELSE UNCHANGED <<op, rec>>
  /\ Goto(t, "rest")
  /\ UNCHANGED <<lock, req>> /\ Keep

-----------------------------------------------------------------------------
(* Proxmox, outsiders, time and failures. *)

EffectStarts(o, s) ==
  /\ effect[o][s] = "inflight"
  /\ LET e == IF Possible(o, s) THEN Landed(s) ELSE "none" IN
       effect' = [effect EXCEPT ![o][s] = e] /\ vm' = VmAfter(o, s, e)
  /\ UNCHANGED <<ledger, req, sent, th, bounds>>

\* A failed clone may leave its VM behind.
TaskEnds(o, s) ==
  /\ effect[o][s] = "running"
  /\ \/ effect' = [effect EXCEPT ![o][s] = "ok"] /\ UNCHANGED vm
     \/ /\ effect' = [effect EXCEPT ![o][s] = "failed"]
        /\ vm' \in {vm} \cup (IF s = "clone" THEN {[vm EXCEPT ![VmOf[o]] = Free]} ELSE {})
  /\ UNCHANGED <<ledger, req, sent, th, bounds>>

\* Somebody deletes an idle VM at Proxmox.
OutsiderDeletes(v) ==
  /\ vm[v] # Free /\ faults < MaxFaults /\ faults' = faults + 1
  /\ \A s \in Steps : effect[vm[v]][s] # "running"
  /\ vm' = [vm EXCEPT ![v] = Free]
  /\ UNCHANGED <<ledger, req, sent, effect, th, observes>>

HolderActive(o) == \E t \in Threads : th[t].o = o /\ th[t].gen = rec[o].gen

LeaseExpires(o) ==
  /\ rec[o].status = "leased" /\ rec[o].live
  /\ rec' = [rec EXCEPT ![o].live = FALSE]
  /\ IF HolderActive(o) THEN faults < MaxFaults /\ faults' = faults + 1 ELSE faults' = faults
  /\ UNCHANGED <<op, lock, req, proxmox, th, observes>>

Crash(t) ==
  /\ th[t].pc \notin {"done", "idle", "prepare_operation"}
  /\ faults < MaxFaults /\ faults' = faults + 1
  /\ Goto(t, "rest")
  /\ UNCHANGED <<ledger, req, proxmox, observes>>

RequestStep(t) ==
  \/ PrepareOperation(t) \/ Approve(t) \/ CheckExisting(t) \/ Acquire(t) \/ PrepareSession(t)
  \/ ReleaseOwn(t) \/ RecordRunning(t) \/ DispatchPrepared(t) \/ Arm(t) \/ ValidateFresh(t)
  \/ RecordNoEffect(t) \/ CloseUnsent(t) \/ Mark(t) \/ SendAnswered(t) \/ SendLost(t)
  \/ SendRejected(t) \/ RecordAnswer(t) \/ WaitForTask(t) \/ PostCheck(t)
  \/ RecordCloneRejected(t) \/ TellRejected(t) \/ CloseRejected(t) \/ RecordObserved(t)
  \/ Succeed(t) \/ PauseForReconciliation(t) \/ TellUnconfirmed(t)

HandlerStep(t) ==
  \/ ClaimUnprepared(t) \/ Handle(t) \/ RecoverUnsent(t) \/ RecoverRejected(t)
  \/ AdoptResult(t) \/ AdoptSucceeded(t) \/ Observe(t)
  \/ CloseAbsent(t) \/ PauseWork(t) \/ RetryLater(t) \/ AbsorbException(t)

ObserverStep(t) == HandlerStep(t) \/ \E o \in Ops : ClaimWork(t, o) \/ LookUnprepared(t, o)

Next ==
  \/ \E t \in Requests : RequestStep(t)
  \/ \E t \in Observers : ObserverStep(t)
  \/ \E t \in Threads : Crash(t)
  \/ \E o \in Ops, s \in Steps : EffectStarts(o, s) \/ TaskEnds(o, s)
  \/ \E v \in Vms : OutsiderDeletes(v)
  \/ \E o \in Ops : LeaseExpires(o)

Spec == Init /\ [][Next]_vars

-----------------------------------------------------------------------------
(* Properties. *)

\* No mutation of a creation is ever sent twice: not by a repeat of the request, not after a
\* crash, and recovery sends none.
EachStepOnce == \A o \in Ops, s \in Steps : sent[o][s] <= 1

\* A mutation is sent only after every mutation sent before it is known to have succeeded.
StepsBuildOnSuccess ==
  \A o \in Ops :
    LET Done(s) == effect[o][s] = "ok" IN
      /\ sent[o]["resize"] > 0 => Done("clone")
      /\ sent[o]["config"] > 0 => Done("clone") /\ (sent[o]["resize"] > 0 => Done("resize"))
      /\ sent[o]["start"] > 0 => Done("config")

MayStillAct(o) == \E s \in Steps : effect[o][s] \in {"inflight", "running"}

\* As long as a mutation may still act on the id, the id is locked by its creation.
EffectUnderLock == \A o \in Ops : MayStillAct(o) => LockedBy(o)

\* A creation closed as blocked or failed leaves no VM, and none can still appear.
FailureLeavesNothing ==
  \A o \in Ops :
    rec[o].status = "completed" /\ op[o].status \in {"blocked", "failed"} =>
      ~MayStillAct(o) /\ vm[VmOf[o]] # o

\* Every mutation sent was carried out; a resize or a start may not have been needed.
Whole(o) == \A s \in Steps : effect[o][s] = "ok" \/ (sent[o][s] = 0 /\ s \in {"resize", "start"})

\* Success means that every mutation sent was carried out.  The request row, which replays are
\* answered from, says completed of nothing else and never running or unresolved of a success;
\* it may say failed of one, because the last word of a request before its first mutation
\* (RecordNoEffect) is written without asking for the lease.
SuccessIsWhole ==
  \A o \in Ops :
    /\ op[o].status = "succeeded" => Whole(o) /\ req[o] \in {"completed", "failed"}
    /\ req[o] = "completed" => op[o].status = "succeeded"

\* What is recorded of a creation is true of its VM, at every step and at its end.
CreationInv == TypeOK /\ StepsBuildOnSuccess /\ FailureLeavesNothing /\ SuccessIsWhole

\* A closed creation stays closed: no late request, replay or observer moves it again.
ClosedIsFinal ==
  [][\A o \in Ops : rec[o].status = "completed" =>
       op'[o].status = op[o].status /\ rec'[o] = rec[o]]_vars

\* "Adopt only the provable no-item/no-request post-acquire crash window": a lock is taken
\* over from a request that is gone, so work in progress always has its lock.
UnfinishedKeepsLock ==
  \A o \in Ops : rec[o].status \in {"leased", "retry_wait", "paused"} => ExactLock(o)

\* A creation under way, and what became of it: closed, or left to an operator's decision.
AtRest(o) == rec[o].status \in {"none", "paused", "completed"}

Fairness ==
  /\ \A t \in Requests : WF_vars(RequestStep(t))
  /\ \A t \in Runners : WF_vars(ObserverStep(t))
  /\ \A t \in Operators : WF_vars(HandlerStep(t))
  /\ \A o \in Ops : WF_vars(LeaseExpires(o))
  /\ \A o \in Ops, s \in Steps : WF_vars(EffectStarts(o, s)) /\ WF_vars(TaskEnds(o, s))

LiveSpec == Spec /\ Fairness

\* Every started creation comes to rest, through crashes, lost leases and endless polling.
CreationComesToRest == \A o \in Ops : [](rec[o].status = "leased" => <>AtRest(o))

=============================================================================
