---------------------------- MODULE GuidedUnlock ----------------------------
(***************************************************************************)
(* Guided qm unlock: the service plans the removal of a VM's config lock,  *)
(* shows the command to an operator for a few minutes, and never runs it.  *)
(* Calls of plan_unlock, attest and verify by several users, and the       *)
(* recovery of an operation by the runner or by an operator's observation, *)
(* work on the same operations; all of them want one VM.                   *)
(*                                                                         *)
(* An operation's version and checksum are only ever compared with what a  *)
(* thread read before, so a thread carries "fresh" (nobody wrote the       *)
(* operation since its read) instead, and a lease names its holder instead *)
(* of a token.  plan_unlock acquires the VM lock after it has claimed the  *)
(* recovery work, in transactions of their own; attestation is no holder   *)
(* of the lease at all.  The lock and the clock are read with the commit   *)
(* they decide where the commit itself would refuse an outdated reading.   *)
(***************************************************************************)
EXTENDS Naturals, FiniteSets, OperationCore

CONSTANTS Ops,          \* planned unlocks of the VM (= idempotency keys)
          Users,        \* concurrent calls of the API
          Runners, Operators,
          Watched,      \* bound: the operations an operator observes
          Free,         \* no lock owner
          MaxAttempts,  \* observations after which the work is paused
          MaxFaults     \* bound: crashes, exceptions, leases that expire under their holder, and changes
                        \* of the VM by somebody else

Observers == Runners \cup Operators
Threads == Users \cup Observers

ASSUME GuidedAssumption ==
  /\ Users \cap Observers = {} /\ Free \notin Threads
  /\ Free \notin Ops
  /\ MaxAttempts \in Nat \ {0} /\ MaxFaults \in Nat

VARIABLES op, rec,
          lock,     \* the VM lock: owner, and "active" or "reconciliation_required"
          expired,  \* expired[o]: the clock has passed expires_at
          vm,       \* "held": the config lock that was planned for and no active task;
                    \* "none": no config lock and no active task; "other": anything else
          shown,    \* shown[o]: the command was displayed as active to somebody
          ran,      \* ran[o]: whether it was run, and in time
          relocked, \* somebody else changed the VM after its config lock was gone
          th, faults

ledger == <<op, rec, lock>>
world == <<expired, vm, shown, ran, relocked>>
vars == <<op, rec, lock, expired, vm, shown, ran, relocked, th, faults>>

Attested == {"awaiting_verification", "verifying", "needs_reconciliation"}
CommitPcs == {"bind", "noLock", "dropBlocked", "expiryUnknown", "dirty", "expiryClear", "ineligible",
              "stillActive", "unattested", "lateOnly", "lockGone", "verifying", "unverified",
              "mismatch", "confirm"}
MarkPcs == {"lateNote", "reopen", "attest"}
Pcs == {"idle", "clear", "survey", "create", "prepare", "acquire", "observe", "same", "changed",
        "overdue", "expiring", "verify", "inspect", "recover", "relock"} \cup CommitPcs \cup MarkPcs

TypeOK ==
  /\ op \in [Ops -> [status : OperationStatuses \cup {"none"}, att : {"no", "yes", "late"},
                     bound : BOOLEAN]]
  /\ rec \in [Ops -> [status : {"none", "leased", "retry_wait", "paused", "completed"},
                      holder : Threads \cup {Free}, live : BOOLEAN, tries : 0..MaxAttempts]]
  /\ lock \in [owner : Ops \cup {Free}, active : BOOLEAN]
  /\ vm \in {"none", "held", "other"}
  /\ expired \in [Ops -> BOOLEAN] /\ shown \in [Ops -> BOOLEAN]
  /\ ran \in [Ops -> {"no", "inTime", "late"}] /\ relocked \in BOOLEAN
  /\ th \in [Threads -> [pc : Pcs, o : Ops \cup {Free}, goal : Ops \cup {Free}, fresh : BOOLEAN,
                         leased : BOOLEAN, seen : OperationStatuses \cup {"none"}]]
  /\ faults \in 0..MaxFaults

Idle == [pc |-> "idle", o |-> Free, goal |-> Free, fresh |-> FALSE,
         leased |-> FALSE, seen |-> "none"]
NoLock == [owner |-> Free, active |-> FALSE]

Init ==
  /\ op = [o \in Ops |-> [status |-> "none", att |-> "no", bound |-> FALSE]]
  /\ rec = [o \in Ops |-> [status |-> "none", holder |-> Free, live |-> FALSE, tries |-> 0]]
  /\ lock = NoLock
  /\ expired = [o \in Ops |-> FALSE]
  /\ vm = "held"
  /\ shown = [o \in Ops |-> FALSE] /\ ran = [o \in Ops |-> "no"] /\ relocked = FALSE
  /\ th = [t \in Threads |-> Idle]
  /\ faults = 0

At(t, pc) == th[t].pc = pc
Go(t, pc) == IF pc = "idle" THEN Idle ELSE [th[t] EXCEPT !.pc = pc]
Goto(t, pc) == th' = [th EXCEPT ![t] = Go(t, pc)]
ReadOp(t, o, pc) ==
  th' = [th EXCEPT ![t] = IF pc = "idle" THEN Idle
                          ELSE [@ EXCEPT !.pc = pc, !.o = o, !.fresh = TRUE]]

ReadFor(t, o, pc) ==
  th' = [th EXCEPT ![t] = [@ EXCEPT !.pc = pc, !.o = o, !.fresh = TRUE, !.seen = op[o].status]]

\* A write to o by t, which reads it back and goes to pc; every other reader is outdated.
Write(t, o, row, pc) ==
  /\ op' = [op EXCEPT ![o] = row]
  /\ th' = [u \in Threads |->
       IF u = t THEN IF pc = "idle" THEN Idle
                     ELSE [th[t] EXCEPT !.pc = pc, !.fresh = TRUE]
       ELSE IF th[u].o = o THEN [th[u] EXCEPT !.fresh = FALSE] ELSE th[u]]

Own(o) == lock.owner = o
HoldsLease(t) ==
  LET r == rec[th[t].o] IN th[t].leased /\ r.status = "leased" /\ r.live /\ r.holder = t

\* Wrong: the version that was read is not compared.
CommitOverAnything(t, status, work, release) ==
  LET o == th[t].o IN
    /\ HoldsLease(t)
    /\ release \/ (status = "needs_reconciliation" /\ op[o].status # status) => Own(o) /\ op[o].bound

\* commit_observation: lease, version, transition; a release and a reconciliation need the
\* exact, bound lock, and a reconciliation takes its instruction authority away.
MayCommit(t, status, work, release) ==
  LET o == th[t].o IN
    /\ HoldsLease(t) /\ th[t].fresh
    /\ MayTransition(op[o].status, status)
    /\ release \/ (status = "needs_reconciliation" /\ op[o].status # status) => Own(o) /\ op[o].bound

RetryStatus(o) == IF rec[o].tries >= MaxAttempts THEN "paused" ELSE "retry_wait"

\* run_claimed absorbs what a recovery handler raises; a user's call just fails.
Absorbed(t) ==
  LET o == th[t].o IN
    /\ Write(t, o, op[o], "idle")
    /\ rec' = [rec EXCEPT ![o].status = RetryStatus(o), ![o].live = FALSE, ![o].holder = Free]
    /\ UNCHANGED lock
Failed(t) ==
  IF t \in Observers /\ HoldsLease(t) THEN Absorbed(t) ELSE Goto(t, "idle") /\ UNCHANGED ledger

CommitTo(t, status, work, release, pc) ==
  LET o == th[t].o IN
    IF MayCommit(t, status, work, release)
    THEN /\ Write(t, o, [op[o] EXCEPT !.status = status], pc)
         /\ rec' = [rec EXCEPT ![o].status = work, ![o].live = (work = "leased"),
                               ![o].holder = IF work = "leased" THEN @ ELSE Free]
         /\ lock' = IF release THEN NoLock
                    ELSE IF status = "needs_reconciliation" /\ op[o].status # status
                         THEN [lock EXCEPT !.active = FALSE] ELSE lock
    ELSE Failed(t)
Commit(t, pc, status, work, release) ==
  At(t, pc) /\ CommitTo(t, status, work, release, "idle") /\ UNCHANGED <<world, faults>>

Local == UNCHANGED <<ledger, world, faults>>

-----------------------------------------------------------------------------
(* plan_unlock. *)

\* A planned operation is finished, a waiting one expired if its time has come.
Plan(t, o) ==
  /\ At(t, "idle") /\ t \in Users
  /\ op[o].status \in {"none", "planned"} \/ (op[o].status = "awaiting_operator" /\ expired[o])
  /\ th' = [th EXCEPT ![t] =
       [pc |-> CASE op[o].status = "none" -> "clear"
                 [] op[o].status = "planned" -> "prepare"
                 [] op[o].status = "awaiting_operator" -> "overdue",
        o |-> o, goal |-> o, fresh |-> TRUE, leased |-> FALSE, seen |-> "none"]]
  /\ Local

\* _release_releasable_target_lock expires the owner's overdue instruction first; a lock that
\* is there then is busy.
Clear(t) ==
  /\ At(t, "clear")
  /\ LET p == lock.owner IN
       CASE p = Free -> th' = [th EXCEPT ![t].pc = "survey", ![t].o = th[t].goal, ![t].leased = FALSE]
         [] p \in Ops /\ op[p].status = "awaiting_operator" /\ expired[p] -> ReadOp(t, p, "overdue")
         [] OTHER -> Goto(t, "idle")
  /\ Local

Survey(t) ==
  /\ At(t, "survey")
  /\ Goto(t, IF vm = "held" THEN "create" ELSE "idle")
  /\ Local

CreatePlan(t) ==
  /\ At(t, "create")
  /\ LET o == th[t].o IN
       IF op[o].status = "none"
       THEN Write(t, o, [op[o] EXCEPT !.status = "planned"], "prepare")
       ELSE ReadOp(t, o, IF op[o].status = "planned" THEN "prepare" ELSE "idle") /\ UNCHANGED op
  /\ UNCHANGED <<rec, lock, world, faults>>

Attempt(n) == IF n < MaxAttempts THEN n + 1 ELSE n
\* Wrong: work that is done can be claimed once more.
ClaimableAgain(o) ==
  rec[o].status \in {"paused", "retry_wait", "completed"} \/ (rec[o].status = "leased" /\ ~rec[o].live)

Claimable(o) == rec[o].status \in {"paused", "retry_wait"} \/ (rec[o].status = "leased" /\ ~rec[o].live)
Claimed(o, t) ==
  rec' = [rec EXCEPT ![o] = [status |-> "leased", holder |-> t, live |-> TRUE, tries |-> Attempt(@.tries)]]

\* _prepare_or_claim_recovery, against the version that was read.
TakeLease(t, pc) ==
  LET o == th[t].o IN
    IF th[t].fresh /\ (Claimable(o) \/ (rec[o].status = "none" /\ pc = "acquire"))
    THEN Claimed(o, t) /\ th' = [th EXCEPT ![t].pc = pc, ![t].leased = TRUE]
    ELSE Goto(t, "idle") /\ UNCHANGED rec
PrepareRecovery(t) ==
  At(t, "prepare") /\ TakeLease(t, "acquire") /\ UNCHANGED <<op, lock, world, faults>>

\* current, then acquire; a busy lock is read again: it may be the operation's own.
AcquireLock(t) ==
  /\ At(t, "acquire")
  /\ LET o == th[t].o IN
       IF lock.owner = Free
       THEN lock' = [owner |-> o, active |-> TRUE] /\ Goto(t, "bind")
       ELSE Goto(t, IF Own(o) THEN "bind" ELSE "noLock") /\ UNCHANGED lock
  /\ UNCHANGED <<op, rec, world, faults>>

CloseWithoutLock(t) == Commit(t, "noLock", "blocked", "completed", FALSE)

\* The lock that was found or acquired is recorded in operation and recovery work, once.
BindLock(t) ==
  /\ At(t, "bind")
  /\ LET o == th[t].o IN
       IF op[o].bound THEN Goto(t, "observe") /\ UNCHANGED ledger
       ELSE IF MayCommit(t, "planned", "leased", FALSE) /\ lock = [owner |-> o, active |-> TRUE]
       THEN Write(t, o, [op[o] EXCEPT !.bound = TRUE], "observe") /\ UNCHANGED <<rec, lock>>
       ELSE Failed(t)
  /\ UNCHANGED <<world, faults>>

ObserveBeforeHandoff(t) ==
  /\ At(t, "observe")
  /\ \E pc \in {"dropBlocked", IF vm = "held" THEN "same" ELSE "changed"} : Goto(t, pc)
  /\ Local

DropUnissued(t) == Commit(t, "dropBlocked", "blocked", "completed", TRUE)

\* The lock, then the observed state, then the clock.
Handoff(t) ==
  /\ th[t].pc \in {"same", "changed"}
  /\ LET o == th[t].o IN
       CASE ~Own(o) -> CommitTo(t, "blocked", "paused", FALSE, "idle")
         [] Own(o) /\ At(t, "changed") -> CommitTo(t, "blocked", "completed", TRUE, "idle")
         [] Own(o) /\ At(t, "same") /\ expired[o] -> CommitTo(t, "expired", "completed", TRUE, "idle")
         [] OTHER -> CommitTo(t, "awaiting_operator", "retry_wait", FALSE, "idle")
  /\ UNCHANGED <<world, faults>>

-----------------------------------------------------------------------------
(* Expiry of an instruction nobody attested. *)

\* An overdue owner was in the way of another plan, which goes on.
Onward(t) == IF th[t].goal \in {Free, th[t].o} THEN "idle" ELSE "clear"

\* _expire_waiting_operation: the lock, then the lease.
ExpireOverdue(t) ==
  /\ At(t, "overdue")
  /\ LET o == th[t].o IN
       \/ Own(o) /\ TakeLease(t, "expiring") /\ UNCHANGED op
       \/ /\ ~Own(o) /\ UNCHANGED rec
          /\ IF op[o].status = "awaiting_operator"
             THEN Write(t, o, [op[o] EXCEPT !.status = "needs_reconciliation"], Onward(t))
             ELSE Goto(t, "idle") /\ UNCHANGED op
  /\ UNCHANGED <<lock, world, faults>>

\* Wrong: the clock alone decides.
ExpireByClock(t) ==
  /\ At(t, "expiring")
  /\ \E pc \in {"expiryUnknown", "expiryClear"} : Goto(t, pc)
  /\ Local

\* Only the original config lock and no active task show that the command was not run.
ObserveAtExpiry(t) ==
  /\ At(t, "expiring")
  /\ \E pc \in {"expiryUnknown", IF vm = "held" THEN "expiryClear" ELSE "dirty"} : Goto(t, pc)
  /\ Local

\* Wrong: what cannot be concluded from the VM releases the lock too.
CommitExpiryAndRelease(t) ==
  /\ th[t].pc \in {"expiryUnknown", "dirty", "expiryClear"}
  /\ CommitTo(t, IF At(t, "expiryClear") THEN "expired" ELSE "needs_reconciliation",
              "completed", TRUE, Onward(t))
  /\ UNCHANGED <<world, faults>>

CommitExpiry(t) ==
  /\ th[t].pc \in {"expiryUnknown", "dirty", "expiryClear"}
  /\ LET o == th[t].o
         exhausted == rec[o].tries >= MaxAttempts
     IN CASE At(t, "expiryClear") /\ Own(o) -> CommitTo(t, "expired", "completed", TRUE, Onward(t))
          [] At(t, "dirty") \/ (At(t, "expiryUnknown") /\ exhausted)
               \/ (At(t, "expiryClear") /\ ~Own(o)) -> CommitTo(t, "needs_reconciliation", "paused", FALSE, Onward(t))
          [] OTHER -> CommitTo(t, op[o].status, "retry_wait", FALSE, Onward(t))
  /\ UNCHANGED <<world, faults>>

-----------------------------------------------------------------------------
(* attest and verify. *)

\* The status that is read decides what the attestation may do; most are replays.
Attest(t, o) ==
  /\ At(t, "idle") /\ t \in Users
  /\ \/ op[o].status = "needs_reconciliation" /\ op[o].att = "no" /\ ReadFor(t, o, "lateNote")
     \/ op[o].status = "expired" /\ ReadFor(t, o, "reopen")
     \/ op[o].status = "awaiting_operator" /\ ReadFor(t, o, "attest")
  /\ Local

\* OR.transition: the expected status is all that is compared.
Transition(t, status, att) ==
  LET o == th[t].o IN
    IF op[o].status = th[t].seen
    THEN Write(t, o, [op[o] EXCEPT !.status = status, !.att = att], "idle")
    ELSE Goto(t, "idle") /\ UNCHANGED op

\* Wrong: an attestation is judged by the clock only.
MarkByClock(t) ==
  /\ th[t].pc \in MarkPcs
  /\ IF At(t, "attest") /\ ~expired[th[t].o] THEN Transition(t, "awaiting_verification", "yes")
     ELSE Transition(t, "needs_reconciliation", "late")
  /\ UNCHANGED <<rec, lock, world, faults>>

\* In time only under the active lock and before the expiry; a lost lock attests nothing.
Mark(t) ==
  /\ th[t].pc \in MarkPcs
  /\ LET o == th[t].o IN
       CASE At(t, "attest") /\ ~Own(o) -> Transition(t, "needs_reconciliation", op[o].att)
         [] At(t, "attest") /\ Own(o) /\ lock.active /\ ~expired[o] ->
              Transition(t, "awaiting_verification", "yes")
         [] OTHER -> Transition(t, "needs_reconciliation", "late")
  /\ UNCHANGED <<rec, lock, world, faults>>

Verify(t, o) ==
  /\ At(t, "idle") /\ t \in Users
  /\ op[o].att # "no" /\ op[o].status \in Attested /\ ReadFor(t, o, "verify")
  /\ Local

\* Verification by a user needs the lock to be active still, and the lease.
JudgeVerification(t) ==
  /\ At(t, "verify")
  /\ CASE Own(th[t].o) /\ lock.active -> TakeLease(t, "verifying") /\ UNCHANGED op
       [] ~(Own(th[t].o) /\ lock.active) /\ th[t].seen # "needs_reconciliation" ->
            Transition(t, "needs_reconciliation", op[th[t].o].att) /\ UNCHANGED rec
       [] OTHER -> Goto(t, "idle") /\ UNCHANGED <<op, rec>>
  /\ UNCHANGED <<lock, world, faults>>

StartVerification(t) ==
  /\ At(t, "verifying")
  /\ IF op[th[t].o].status = "verifying" THEN Goto(t, "inspect") /\ UNCHANGED ledger
     ELSE CommitTo(t, "verifying", "leased", FALSE, "inspect")
  /\ UNCHANGED <<world, faults>>

Inspect(t) ==
  /\ At(t, "inspect")
  /\ \E pc \in {"unverified", IF vm = "none" THEN "confirm" ELSE "mismatch"} :
       Goto(t, pc)
  /\ Local

CommitVerification(t) ==
  \/ Own(th[t].o) /\ Commit(t, "confirm", "succeeded", "completed", TRUE)
  \/ ~Own(th[t].o) /\ Commit(t, "confirm", "needs_reconciliation", "paused", FALSE)
  \/ Commit(t, "mismatch", "needs_reconciliation", "paused", FALSE)
  \/ Commit(t, "unverified", "needs_reconciliation",
            RetryStatus(th[t].o), FALSE)

-----------------------------------------------------------------------------
(* Recovery. *)

\* Wrong: an instruction that waits is nobody's work.
DueLease(o) == rec[o].status = "leased" /\ ~rec[o].live

Due(o) ==
  \/ rec[o].status = "retry_wait" /\ (op[o].status = "awaiting_operator" => expired[o])
  \/ rec[o].status = "leased" /\ ~rec[o].live

Recovering(o) == [Idle EXCEPT !.pc = "recover", !.o = o, !.leased = TRUE]

\* The runner takes due work; an operator's observation also paused work, and the missing
\* work of a plan that was never claimed.
ClaimWork(t, o) ==
  /\ At(t, "idle")
  /\ \/ t \in Runners /\ Due(o)
     \/ t \in Operators /\ o \in Watched /\ (Claimable(o) \/ (rec[o].status = "none" /\ op[o].status = "planned"))
  /\ Claimed(o, t)
  /\ th' = [th EXCEPT ![t] = Recovering(o)]
  /\ UNCHANGED <<op, lock, world, faults>>

Verifiable(row) == row.att = "yes" \/ (row.att = "late" /\ row.status # "needs_reconciliation")

\* recover reads the operation and the lock.
Recover(t) ==
  /\ At(t, "recover")
  /\ LET o == th[t].o
         row == op[o]
     IN ReadOp(t, o,
          CASE row.status = "planned" -> "relock"
            [] row.status = "awaiting_operator" ->
                 IF ~expired[o] THEN "stillActive" ELSE IF Own(o) THEN "expiring" ELSE "dirty"
            [] row.status \in Attested /\ row.att = "no" -> "unattested"
            [] row.status \in Attested /\ row.att # "no" /\ ~Verifiable(row) -> "lateOnly"
            [] row.status \in Attested /\ Verifiable(row) ->
                 IF Own(o) /\ lock.active THEN "verifying" ELSE "lockGone"
            [] OTHER -> "ineligible")
  /\ Local

\* The lock of a plan may still be taken by the planner it is recovered from.
RecheckLock(t) ==
  /\ At(t, "relock")
  /\ Goto(t, IF Own(th[t].o) THEN "bind" ELSE "noLock")
  /\ Local

\* What recovery cannot decide.
Defer(t) ==
  \/ Commit(t, "stillActive", op[th[t].o].status, "retry_wait", FALSE)
  \/ \E pc \in {"unattested", "lateOnly", "ineligible"} :
       Commit(t, pc, op[th[t].o].status, "paused", FALSE)
  \/ Commit(t, "lockGone", "needs_reconciliation", "paused", FALSE)

AbsorbException(t) ==
  /\ t \in Observers /\ ~At(t, "idle") /\ HoldsLease(t)
  /\ faults < MaxFaults /\ faults' = faults + 1
  /\ Absorbed(t)
  /\ UNCHANGED world

-----------------------------------------------------------------------------
(* The operator at the console, the VM, time and failures. *)

\* _instruction_state: the command is displayed as one to run.
ShowInstruction(o) ==
  /\ op[o].status = "awaiting_operator" /\ ~expired[o] /\ Own(o) /\ lock.active
  /\ ~shown[o] /\ shown' = [shown EXCEPT ![o] = TRUE]
  /\ UNCHANGED <<ledger, expired, vm, ran, relocked, th, faults>>

\* Somebody who saw it runs it, possibly too late; qm unlock removes whatever lock there is.
RunCommand(o) ==
  /\ shown[o] /\ ran[o] = "no"
  /\ ran' = [ran EXCEPT ![o] = IF expired[o] THEN "late" ELSE "inTime"]
  /\ vm' \in IF vm = "other" THEN {"none", "other"} ELSE {"none"}
  /\ UNCHANGED <<ledger, expired, shown, relocked, th, faults>>

\* Somebody else locks or unlocks the VM; its tasks come and go.
VmDrifts ==
  /\ faults < MaxFaults /\ faults' = faults + 1
  /\ vm' \in {"none", "held", "other"} \ {vm}
  /\ relocked' = (relocked \/ vm = "none" \/ (vm' = "held" /\ \E o \in Ops : ran[o] # "no"))
  /\ UNCHANGED <<ledger, expired, shown, ran, th>>

Expire(o) ==
  /\ op[o].status \notin {"none", "blocked", "succeeded"} /\ ~expired[o]
  /\ expired' = [expired EXCEPT ![o] = TRUE]
  /\ UNCHANGED <<ledger, vm, shown, ran, relocked, th, faults>>

HolderActive(o) == rec[o].holder # Free /\ th[rec[o].holder].leased /\ th[rec[o].holder].o = o

LeaseExpires(o) ==
  /\ rec[o].status = "leased" /\ rec[o].live
  /\ rec' = [rec EXCEPT ![o].live = FALSE]
  /\ IF HolderActive(o) THEN faults < MaxFaults /\ faults' = faults + 1 ELSE faults' = faults
  /\ UNCHANGED <<op, lock, world, th>>

Crash(t) ==
  /\ ~At(t, "idle")
  /\ faults < MaxFaults /\ faults' = faults + 1
  /\ Goto(t, "idle")
  /\ UNCHANGED <<ledger, world>>

\* Every continuation of a thread that is not idle.
Proceed(t) ==
  \/ Clear(t) \/ Survey(t) \/ CreatePlan(t) \/ PrepareRecovery(t) \/ AcquireLock(t)
  \/ CloseWithoutLock(t) \/ BindLock(t) \/ ObserveBeforeHandoff(t) \/ DropUnissued(t) \/ Handoff(t)
  \/ ExpireOverdue(t) \/ ObserveAtExpiry(t) \/ CommitExpiry(t) \/ Mark(t) \/ JudgeVerification(t)
  \/ StartVerification(t) \/ Inspect(t) \/ CommitVerification(t)
  \/ Recover(t) \/ RecheckLock(t) \/ Defer(t) \/ AbsorbException(t)

Next ==
  \/ \E t \in Threads : Proceed(t) \/ Crash(t)
  \/ \E t \in Users, o \in Ops : Plan(t, o) \/ Attest(t, o) \/ Verify(t, o)
  \/ \E t \in Observers, o \in Ops : ClaimWork(t, o)
  \/ \E o \in Ops : ShowInstruction(o) \/ RunCommand(o) \/ Expire(o) \/ LeaseExpires(o)
  \/ VmDrifts

Spec == Init /\ [][Next]_vars

\* The clock runs; the runner and the calls it competes with go on.  No user has to call.
LiveSpec ==
  /\ Spec
  /\ \A t \in Threads : WF_vars(Proceed(t))
  /\ \A t \in Runners, o \in Ops : SF_vars(Due(o) /\ ClaimWork(t, o))
  /\ \A o \in Ops : WF_vars(Expire(o)) /\ WF_vars(LeaseExpires(o))

-----------------------------------------------------------------------------
(* Properties. *)

\* A command that was run while its instruction was valid is never written off as expired:
\* expiry is concluded from the VM, not from the clock.  (A config lock that somebody set
\* again in between looks as if it had never been removed.)
RunInTimeIsNotExpired ==
  \A o \in Ops : op[o].status = "expired" => ran[o] # "inTime" \/ relocked

\* An instruction that is out, or attested, or being verified holds the VM lock.
HandoffHoldsLock ==
  \A o \in Ops :
    op[o].status \in {"awaiting_operator", "awaiting_verification", "verifying"} => Own(o)

\* Success is an attestation and a VM without the lock, never one of the two.
SuccessIsObserved ==
  \A o \in Ops : op[o].status = "succeeded" => op[o].att # "no" /\ (vm = "none" \/ relocked)

\* A plan that was blocked never showed its command.
BlockedWasNeverShown == \A o \in Ops : op[o].status = "blocked" => ~shown[o]

\* From the moment the command was shown, the lock leaves the operation only with its
\* success or with its observed expiry; a reconciliation keeps it.
LockLeavesAtClose ==
  [][\A o \in Ops : shown[o] /\ Own(o) /\ ~Own(o)' => op'[o].status \in {"succeeded", "expired"}]_vars

\* An attestation is never lost: a concurrent expiry or a stale planner cannot close the
\* operation over it.
AttestationIsKept ==
  [][\A o \in Ops : op[o].att # "no" =>
       op'[o].att = op[o].att /\ (op[o].status # op'[o].status => op'[o].status \notin {"expired", "blocked"})]_vars

\* Closing is final, but for the late attestation that reopens an expired operation.
ClosedIsFinal ==
  [][\A o \in Ops : rec[o].status = "completed" =>
       /\ rec'[o] = rec[o]
       /\ op'[o] # op[o] => op[o].status = "expired" /\ op'[o].att = "late"]_vars

\* Nobody has to attest for an instruction to end: it expires, or its recovery is paused for
\* an operator to see.
InstructionEnds ==
  \A o \in Ops : op[o].status = "awaiting_operator" ~>
                    (op[o].status # "awaiting_operator" \/ rec[o].status = "paused")

\* How an instruction may end agrees with what the operator did and what became of the VM.
UnlockInv ==
  TypeOK /\ RunInTimeIsNotExpired /\ HandoffHoldsLock /\ SuccessIsObserved /\ BlockedWasNeverShown

=============================================================================
