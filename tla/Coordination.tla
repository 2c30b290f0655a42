---------------------------- MODULE Coordination ----------------------------
(***************************************************************************)
(* The durable coordination tables every managed mutation shares, and the  *)
(* transactions of their stores:                                           *)
(*                                                                         *)
(*   op[o]    the Operation row: canonical status, version, whether it     *)
(*            carries the Proxmox task reference, and the target lock named *)
(*            by its "terminal, no effect" marker (Free: no marker);       *)
(*   rec[o]   the recovery row: work status, lease generation (its attempt *)
(*            count always moves with it), whether the lease is still      *)
(*            live, the recorded phase, target lock and task reference;    *)
(*   lock[v]  the open target lock of a VM (Free: none is open).  A lock   *)
(*            row is named by the request that inserted it;                *)
(*   job[o]   the status of the compatibility Jobs row.                    *)
(*                                                                         *)
(* Each operator below is one database transaction, or the guard of one.   *)
(***************************************************************************)
EXTENDS Naturals, OperationCore

CONSTANTS Ops,       \* operation ids (= idempotency keys)
          Vms,       \* Proxmox VM locators
          Requests,  \* API requests; each inserts at most one lock row
          VmOf,      \* the VM an operation targets
          OpOf,      \* the operation a request's idempotency key names
          Free       \* no lock

ASSUME CoordinationAssumption ==
  /\ VmOf \in [Ops -> Vms]
  /\ OpOf \in [Requests -> Ops]
  /\ Ops # {} /\ Free \notin Requests

VARIABLES op, rec, lock, job

LockIds == Requests \cup {Free}
RecoveryStatuses == {"none", "leased", "retry_wait", "paused", "completed"}
Jobs == {"none", "running", "failed_no_effect", "failed", "blocked", "completed",
         "needs_reconciliation"}

\* "none" in a status column: the row does not exist yet.
OpRows == [status : OperationStatuses \cup {"none"}, version : Nat, upid : BOOLEAN,
           marker : LockIds]
RecRows == [status : RecoveryStatuses, gen : Nat, live : BOOLEAN,
            phase : {"pre_dispatch", "dispatched"}, lockId : LockIds, upid : BOOLEAN,
            marker : BOOLEAN, barred : BOOLEAN]

CoordinationTypeOK ==
  /\ op \in [Ops -> OpRows]
  /\ rec \in [Ops -> RecRows]
  /\ lock \in [Vms -> LockIds]
  /\ job \in [Ops -> Jobs]

CoordinationInit ==
  /\ op = [o \in Ops |-> [status |-> "none", version |-> 0, upid |-> FALSE, marker |-> Free]]
  /\ rec = [o \in Ops |-> [status |-> "none", gen |-> 0, live |-> FALSE,
                           phase |-> "pre_dispatch", lockId |-> Free, upid |-> FALSE,
                           marker |-> FALSE, barred |-> FALSE]]
  /\ lock = [v \in Vms |-> Free]
  /\ job = [o \in Ops |-> "none"]

-----------------------------------------------------------------------------
(* The Operation store. *)

\* A status the store may write, with the version bump of append_in_session.
Moved(row, to) == [row EXCEPT !.status = to, !.version = row.version + 1]

\* create: idempotent on the operation id.
CreateOperation(o) ==
  op' = IF op[o].status = "none" THEN [op EXCEPT ![o] = Moved(@, "planned")] ELSE op

\* transition of a planned row to a terminal status that carries the no-effect marker.
CloseUnsent(o, to, l) ==
  /\ op[o].status = "planned"
  /\ op' = [op EXCEPT ![o] = [Moved(@, to) EXCEPT !.marker = l]]

\* transition_for_target_lock_conflict: only while that exact foreign lock is still open.
ForeignLockHeld(o, l) == l # Free /\ lock[VmOf[o]] = l /\ OpOf[l] # o
CloseOnConflict(o, l, to) ==
  op' = IF op[o].status = "planned" /\ ForeignLockHeld(o, l)
        THEN [op EXCEPT ![o] = Moved(@, to)] ELSE op

\* transition_pre_dispatch_failure: TRUE only if no recovery has taken over closure.
MayCloseFailure(o, l) ==
  op[o].status = "planned" /\ rec[o].status = "none" /\ lock[VmOf[o]] = l

-----------------------------------------------------------------------------
(* The target-lock store. *)

Acquire(r) == lock[VmOf[OpOf[r]]] = Free /\ lock' = [lock EXCEPT ![VmOf[OpOf[r]]] = r]

\* release names the lock row: it closes nothing once that row is closed.
Release(r) ==
  lock' = IF lock[VmOf[OpOf[r]]] = r THEN [lock EXCEPT ![VmOf[OpOf[r]]] = Free] ELSE lock

LockedBy(o) == lock[VmOf[o]] # Free /\ OpOf[lock[VmOf[o]]] = o

-----------------------------------------------------------------------------
(* The recovery store. *)

\* _locked_owned_row: status, token, generation and expiry.
LeaseOwned(o, g) == rec[o].status = "leased" /\ rec[o].live /\ rec[o].gen = g

\* Wrong: completed work can be claimed again.
ClaimableAgain(o) == ~(rec[o].status = "leased" /\ rec[o].live)

\* A claim meets neither a live lease nor completed work (RecoveryLeaseBusy).
Claimable(o) == rec[o].status # "completed" /\ ~(rec[o].status = "leased" /\ rec[o].live)

Leased(row) == [row EXCEPT !.status = "leased", !.live = TRUE, !.gen = row.gen + 1]

\* prepare_and_claim: creates the row, or merges the spec's details into the old one.
Prepared(row, l, marked) ==
  [row EXCEPT !.phase = "pre_dispatch", !.lockId = l, !.marker = row.marker \/ marked]
PrepareAndClaim(o, l, marked) ==
  /\ Claimable(o)
  /\ rec' = [rec EXCEPT ![o] = Leased(Prepared(rec[o], l, marked))]

\* claim_operation: an existing row only, paused ones included.
ClaimOperation(o) ==
  rec[o].status # "none" /\ Claimable(o) /\ rec' = [rec EXCEPT ![o] = Leased(rec[o])]

\* Wrong: nobody takes over a lease its holder lost.
ClaimWaiting(o) == rec[o].status = "retry_wait" /\ rec' = [rec EXCEPT ![o] = Leased(rec[o])]

\* claim_due: work waiting to be retried, or whose lease has expired.
ClaimDue(o) ==
  /\ rec[o].status = "retry_wait" \/ (rec[o].status = "leased" /\ ~rec[o].live)
  /\ rec' = [rec EXCEPT ![o] = Leased(rec[o])]

\* _exact_target_locks finds the one open lock the recovery details name.
ExactLock(o) == rec[o].lockId # Free /\ LockedBy(o) /\ lock[VmOf[o]] = rec[o].lockId

\* What commit_observation leaves in the recovery row; any status but "leased" ends the lease.
Kept(o) == [rec[o] EXCEPT !.barred = FALSE]
Ended(o, status, barred) == [rec[o] EXCEPT !.status = status, !.live = FALSE, !.barred = barred]

\* commit_observation's guards: the lease fence, the expected statuses, the transition
\* and the exact lock of a release.  (A move to needs_reconciliation also needs the exact
\* lock, except when a binding failure is paused: its callers say so.)
MayCommit(o, g, from, to, release) ==
  /\ LeaseOwned(o, g)
  /\ op[o].status \in from
  /\ MayTransition(op[o].status, to)
  /\ release => ExactLock(o)

\* commit_observation: event, status, recovery row and lock in one transaction.
Commit(o, g, from, to, item, release) ==
  /\ MayCommit(o, g, from, to, release)
  /\ op' = [op EXCEPT ![o] = Moved(@, to)]
  /\ rec' = [rec EXCEPT ![o] = item]
  /\ lock' = IF release THEN [lock EXCEPT ![VmOf[o]] = Free] ELSE lock

=============================================================================
