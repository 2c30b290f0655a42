---------------------------- MODULE VmPowerSafe ----------------------------
(***************************************************************************)
(* The inductive invariant of VmPower, first part: types, completed work,  *)
(* fences, locks and phases, for every number of operations, VMs,          *)
(* requests, runners and operators.                                        *)
(***************************************************************************)
EXTENDS VmPowerInvariant, TLAPS

USE CoordinationAssumption, VmPowerAssumption

-----------------------------------------------------------------------------
(***************************************************************************)
(* The type invariant of VmPower, proved for every set of operations, VMs, *)
(* requests, runners and operators and for every bound.  The first part    *)
(* types the rows the transactions write; then there is one lemma per      *)
(* process, with one step per action.                                      *)
(***************************************************************************)

(* Rows. *)

\* append_in_session writes the new status and bumps the version; nothing else moves.
LEMMA MovedType ==
  ASSUME NEW row \in OpRows, NEW to \in OperationStatuses \cup {"none"}
  PROVE  /\ Moved(row, to) \in OpRows
         /\ Moved(row, to).status = to
         /\ Moved(row, to).version = row.version + 1
         /\ Moved(row, to).upid = row.upid
         /\ Moved(row, to).marker = row.marker
  <1>1. /\ Moved(row, to).status = to /\ Moved(row, to).version = row.version + 1
        /\ Moved(row, to).upid = row.upid /\ Moved(row, to).marker = row.marker
    BY DEF Moved, OpRows
  <1> DEFINE n == row.version + 1
  <1>2. n \in Nat
    BY DEF OpRows
  <1> HIDE DEF n
  <1>3. [row EXCEPT !.status = to, !.version = n] \in OpRows
    BY <1>2 DEF OpRows
  <1> QED BY <1>1, <1>3 DEF n, Moved

\* The no-effect marker and the task reference are written with the status.
LEMMA MarkedType ==
  ASSUME NEW row \in OpRows
  PROVE  /\ \A l \in LockIds : [row EXCEPT !.marker = l] \in OpRows
         /\ [row EXCEPT !.upid = TRUE] \in OpRows
  BY DEF OpRows

\* A claim changes the status, the lease and the generation only.
LEMMA LeasedType ==
  ASSUME NEW row \in RecRows
  PROVE  /\ Leased(row) \in RecRows
         /\ Leased(row).status = "leased" /\ Leased(row).gen = row.gen + 1
         /\ Leased(row).phase = row.phase /\ Leased(row).lockId = row.lockId
  <1> DEFINE n == row.gen + 1
  <1>1. n \in Nat /\ "leased" \in RecoveryStatuses
    BY DEF RecRows, RecoveryStatuses
  <1>2. Leased(row) = [row EXCEPT !.status = "leased", !.live = TRUE, !.gen = n]
    BY DEF Leased
  <1> HIDE DEF n
  <1>3. [row EXCEPT !.status = "leased", !.live = TRUE, !.gen = n] \in RecRows
    BY <1>1 DEF RecRows
  <1>4. /\ Leased(row).status = "leased" /\ Leased(row).gen = n
        /\ Leased(row).phase = row.phase /\ Leased(row).lockId = row.lockId
    BY <1>2 DEF RecRows
  <1> QED BY <1>2, <1>3, <1>4 DEF n

\* The recovery rows a commit may leave behind.
LEMMA ItemType ==
  ASSUME NEW row \in RecRows
  PROVE  /\ [row EXCEPT !.barred = FALSE] \in RecRows
         /\ [row EXCEPT !.phase = "dispatched"] \in RecRows
         /\ [row EXCEPT !.upid = TRUE] \in RecRows
         /\ [row EXCEPT !.live = FALSE] \in RecRows
         /\ \A l \in LockIds, m \in BOOLEAN :
              [row EXCEPT !.phase = "pre_dispatch", !.lockId = l, !.marker = m] \in RecRows
         /\ \A s \in RecoveryStatuses, b \in BOOLEAN :
              [row EXCEPT !.status = s, !.live = FALSE, !.barred = b] \in RecRows
  BY DEF RecRows

\* The rows of a typed state, and the recovery rows built from them.
LEMMA RowTypes ==
  ASSUME TypeOK, NEW o \in Ops
  PROVE  /\ op[o] \in OpRows /\ op[o].version \in Nat
         /\ op[o].status \in OperationStatuses \cup {"none"}
         /\ rec[o] \in RecRows /\ rec[o].gen \in Nat
         /\ VmOf[o] \in Vms /\ lock[VmOf[o]] \in LockIds
         /\ Kept(o) \in RecRows
         /\ [Kept(o) EXCEPT !.phase = "dispatched"] \in RecRows
         /\ [Kept(o) EXCEPT !.upid = TRUE] \in RecRows
         /\ \A s \in RecoveryStatuses, b \in BOOLEAN : Ended(o, s, b) \in RecRows
  <1>1. op[o] \in OpRows /\ rec[o] \in RecRows /\ VmOf[o] \in Vms /\ lock[VmOf[o]] \in LockIds
    BY DEF TypeOK, CoordinationTypeOK
  <1>2. op[o].version \in Nat /\ op[o].status \in OperationStatuses \cup {"none"} /\ rec[o].gen \in Nat
    BY <1>1 DEF OpRows, RecRows
  <1>3. Kept(o) \in RecRows
    BY <1>1, ItemType DEF Kept
  <1>4. [Kept(o) EXCEPT !.phase = "dispatched"] \in RecRows /\ [Kept(o) EXCEPT !.upid = TRUE] \in RecRows
    BY <1>3, ItemType
  <1>5. \A s \in RecoveryStatuses, b \in BOOLEAN : Ended(o, s, b) \in RecRows
    BY <1>1, ItemType DEF Ended
  <1> QED BY <1>1, <1>2, <1>3, <1>4, <1>5

-----------------------------------------------------------------------------
(* Transactions. *)

\* commit_observation leaves typed tables, whatever it commits.
LEMMA CommitType ==
  ASSUME TypeOK, NEW o \in Ops, NEW g, NEW from, NEW to \in OperationStatuses \cup {"none"},
         NEW item \in RecRows, NEW release, Commit(o, g, from, to, item, release)
  PROVE  op' \in [Ops -> OpRows] /\ rec' \in [Ops -> RecRows] /\ lock' \in [Vms -> LockIds]
  <1>1. Moved(op[o], to) \in OpRows
    BY RowTypes, MovedType
  <1>2. op' \in [Ops -> OpRows]
    BY <1>1 DEF Commit, TypeOK, CoordinationTypeOK
  <1>3. rec' \in [Ops -> RecRows]
    BY DEF Commit, TypeOK, CoordinationTypeOK
  <1>4. lock' \in [Vms -> LockIds]
    BY DEF Commit, TypeOK, CoordinationTypeOK, LockIds
  <1> QED BY <1>2, <1>3, <1>4

\* A terminal transition that carries the no-effect marker leaves a typed Operation table.
LEMMA CloseUnsentType ==
  ASSUME TypeOK, NEW o \in Ops, NEW to \in OperationStatuses, NEW l \in LockIds,
         CloseUnsent(o, to, l)
  PROVE  op' \in [Ops -> OpRows]
  <1>1. [Moved(op[o], to) EXCEPT !.marker = l] \in OpRows
    BY RowTypes, MovedType, MarkedType
  <1> QED BY <1>1 DEF CloseUnsent, TypeOK, CoordinationTypeOK

\* The three claims leave a typed table and a natural generation.
LEMMA ClaimType ==
  ASSUME TypeOK, NEW o \in Ops,
         \/ ClaimOperation(o) \/ ClaimDue(o)
         \/ \E l \in LockIds, m \in BOOLEAN : PrepareAndClaim(o, l, m)
  PROVE  rec' \in [Ops -> RecRows] /\ rec'[o].gen \in Nat
  <1>1. rec \in [Ops -> RecRows] /\ rec[o] \in RecRows /\ rec[o].marker \in BOOLEAN
    BY DEF TypeOK, CoordinationTypeOK, RecRows
  <1>2. \E row \in RecRows : rec' = [rec EXCEPT ![o] = Leased(row)]
    <2>1. CASE ClaimOperation(o) \/ ClaimDue(o)
      BY <2>1, <1>1 DEF ClaimOperation, ClaimDue
    <2>2. CASE \E l \in LockIds, m \in BOOLEAN : PrepareAndClaim(o, l, m)
      <3>1. PICK l \in LockIds, m \in BOOLEAN : PrepareAndClaim(o, l, m)
        BY <2>2
      <3>2. (rec[o].marker \/ m) \in BOOLEAN
        BY <1>1
      <3>3. Prepared(rec[o], l, m) \in RecRows
        BY <1>1, <3>2, ItemType DEF Prepared
      <3>4. rec' = [rec EXCEPT ![o] = Leased(Prepared(rec[o], l, m))]
        BY <3>1 DEF PrepareAndClaim
      <3> QED BY <3>3, <3>4
    <2> QED BY <2>1, <2>2
  <1>3. PICK row \in RecRows : rec' = [rec EXCEPT ![o] = Leased(row)]
    BY <1>2
  <1>4. Leased(row) \in RecRows /\ Leased(row).gen \in Nat
    BY LeasedType DEF RecRows
  <1> QED BY <1>1, <1>3, <1>4

\* acquire and release leave a typed lock table.
LEMMA LockStepType ==
  ASSUME TypeOK, NEW r \in Requests, Acquire(r) \/ Release(r)
  PROVE  lock' \in [Vms -> LockIds]
  BY DEF Acquire, Release, TypeOK, CoordinationTypeOK, LockIds

-----------------------------------------------------------------------------
(* The foreground threads. *)

\* A request that moves, and what it may remember on the way, stays a thread.
LEMMA ThreadUpdate ==
  ASSUME NEW t \in Threads, NEW pc \in RequestPcs
  PROVE  /\ \A n \in Nat, s \in Sightings : [t EXCEPT !.pc = pc, !.version = n, !.saw = s] \in Threads
         /\ \A n \in Nat, l \in LockIds : [t EXCEPT !.pc = pc, !.version = n, !.seen = l] \in Threads
         /\ \A l \in LockIds : [t EXCEPT !.pc = pc, !.seen = l] \in Threads
         /\ \A s \in Sightings : [t EXCEPT !.pc = pc, !.saw = s] \in Threads
         /\ \A n \in Nat : [t EXCEPT !.pc = pc, !.gen = n] \in Threads
         /\ [t EXCEPT !.pc = pc] \in Threads
  BY DEF Threads

\* Going to a place keeps every request a thread; one that ends forgets what it read.
LEMMA GotoType ==
  ASSUME TypeOK, NEW r \in Requests, NEW pc \in RequestPcs, Goto(r, pc)
  PROVE  req' \in [Requests -> Threads]
  <1>1. Thread(pc) \in Threads
    BY DEF Thread, Threads, LockIds, Sightings
  <1>2. [req[r] EXCEPT !.pc = pc] \in Threads
    BY ThreadUpdate DEF TypeOK
  <1> QED BY <1>1, <1>2 DEF Goto, TypeOK

\* The places of a request, for the steps that name them.
LEMMA RequestPlaces ==
  /\ {"start", "prepare", "acquire", "busy", "conflict", "closeClaim", "closeCommit", "done",
      "crashed"} \subseteq RequestPcs
  /\ UnsentPcs \subseteq RequestPcs /\ SentPcs \subseteq RequestPcs
  BY DEF RequestPcs

\* The statuses the workflows write are Operation statuses.
LEMMA StatusNames ==
  /\ {"planned", "dispatching", "running", "verifying", "succeeded", "failed", "blocked",
      "needs_reconciliation"} \subseteq OperationStatuses
  /\ "none" \notin OperationStatuses
  /\ {"none", "leased", "retry_wait", "paused", "completed"} = RecoveryStatuses
  BY DEF OperationStatuses, RecoveryStatuses

\* A step of a request leaves the observers, Proxmox and the bounds alone.
LEMMA RequestFrame ==
  ASSUME TypeOK, op' \in [Ops -> OpRows], rec' \in [Ops -> RecRows], lock' \in [Vms -> LockIds],
         job' \in [Ops -> Jobs], req' \in [Requests -> Threads], Stay
  PROVE  TypeOK'
  BY DEF TypeOK, CoordinationTypeOK, Stay, proxmox, bounds

\* A fenced commit of a request, or the conflict that ends it, leaves typed tables.
LEMMA CommitOrStopType ==
  ASSUME TypeOK, NEW r \in Requests, NEW from, NEW to \in OperationStatuses \cup {"none"}, NEW item \in RecRows,
         NEW release, NEW next \in RequestPcs, CommitOrStop(r, from, to, item, release, next)
  PROVE  /\ op' \in [Ops -> OpRows] /\ rec' \in [Ops -> RecRows] /\ lock' \in [Vms -> LockIds]
         /\ req' \in [Requests -> Threads]
  <1>1. OpOf[r] \in Ops /\ "done" \in RequestPcs
    BY RequestPlaces
  <1>2. CASE Commit(OpOf[r], req[r].gen, from, to, item, release) /\ Goto(r, next)
    BY <1>1, <1>2, CommitType, GotoType
  <1>3. CASE Goto(r, "done") /\ UNCHANGED <<op, rec, lock>>
    BY <1>1, <1>3, GotoType DEF TypeOK, CoordinationTypeOK
  <1> QED BY <1>2, <1>3 DEF CommitOrStop

\* Steps before the dispatch checkpoint.
LEMMA UnsentType ==
  ASSUME TypeOK, NEW r \in Requests,
         \/ LookupJob(r) \/ PrepareOperation(r) \/ AcquireTarget(r) \/ TargetLockBusy(r)
         \/ ResolveBusy(r) \/ RecordConflict(r) \/ RecheckUnderLock(r) \/ RecordPrecheck(r)
         \/ Precheck(r) \/ AbandonUnsent(r) \/ BlockOperation(r) \/ RecordBlocked(r)
         \/ OpenMutationClient(r) \/ RecordStart(r) \/ RegisterRecovery(r)
         \/ RecordUnsentFailure(r) \/ CloseUnsentFailure(r) \/ ReleaseTarget(r)
         \/ ClaimReplay(r) \/ CommitReplay(r)
  PROVE  TypeOK'
  <1> DEFINE o == OpOf[r]
  <1>1. /\ o \in Ops /\ req[r] \in Threads /\ req[r].seen \in LockIds /\ r \in LockIds
        /\ op[o].version \in Nat /\ req \in [Requests -> Threads]
        /\ op \in [Ops -> OpRows] /\ rec \in [Ops -> RecRows] /\ lock \in [Vms -> LockIds]
        /\ job \in [Ops -> Jobs]
    BY RowTypes DEF TypeOK, CoordinationTypeOK, LockIds, Threads
  <1>2. \A status \in Jobs : RecordJob(r, status) => job' \in [Ops -> Jobs]
    BY <1>1 DEF RecordJob
  <1> USE RequestPlaces, StatusNames
  <1>3. CASE LookupJob(r)
    BY <1>1, <1>3, GotoType, RequestFrame DEF LookupJob, coordination
  <1>4. CASE PrepareOperation(r)
    <2>1. op' \in [Ops -> OpRows]
      BY <1>1, <1>4, MovedType DEF PrepareOperation, CreateOperation
    <2>2. req' \in [Requests -> Threads]
      BY <1>4, GotoType DEF PrepareOperation
    <2> QED BY <1>1, <1>4, <2>1, <2>2, RequestFrame DEF PrepareOperation
  <1>5. CASE AcquireTarget(r)
    BY <1>1, <1>5, LockStepType, GotoType, RequestFrame DEF AcquireTarget, UnsentPcs
  <1>6. CASE TargetLockBusy(r)
    <2>1. PICK l \in {lock[VmOf[o]], Free} : req' = [req EXCEPT ![r].pc = "busy", ![r].seen = l]
      BY <1>6 DEF TargetLockBusy
    <2>2. l \in LockIds
      BY <1>1, <2>1, RowTypes DEF LockIds
    <2>3. [req[r] EXCEPT !.pc = "busy", !.seen = l] \in Threads
      BY <1>1, <2>2, ThreadUpdate
    <2>4. req' \in [Requests -> Threads]
      BY <1>1, <2>1, <2>3
    <2> QED BY <1>1, <1>6, <2>4, RequestFrame DEF TargetLockBusy, coordination
  <1>7. CASE ResolveBusy(r)
    <2> DEFINE s == IF job[o] = "none" THEN "none" ELSE "failed"
    <2>1. s \in Sightings
      BY DEF Sightings
    <2>2. \/ Goto(r, "done")
          \/ \E pc \in {"conflict", "closeClaim"} :
               req' = [req EXCEPT ![r].pc = pc, ![r].version = op[o].version, ![r].saw = s]
      BY <1>7 DEF ResolveBusy
    <2> HIDE DEF s
    <2>3. \A pc \in {"conflict", "closeClaim"} :
            [req[r] EXCEPT !.pc = pc, !.version = op[o].version, !.saw = s] \in Threads
      BY <1>1, <2>1, ThreadUpdate
    <2>4. ASSUME NEW pc \in {"conflict", "closeClaim"},
                 req' = [req EXCEPT ![r].pc = pc, ![r].version = op[o].version, ![r].saw = s]
          PROVE  req' \in [Requests -> Threads]
      BY <1>1, <2>3, <2>4
    <2>5. req' \in [Requests -> Threads]
      BY <2>2, <2>4, GotoType
    <2> QED BY <1>1, <1>7, <2>5, RequestFrame DEF ResolveBusy, coordination
  <1>8. CASE RecordConflict(r)
    <2>1. op' \in [Ops -> OpRows]
      BY <1>1, <1>8, MovedType DEF RecordConflict, CloseOnConflict
    <2> QED BY <1>1, <1>8, <2>1, GotoType, RequestFrame DEF RecordConflict
  <1>9. CASE RecheckUnderLock(r)
    <2>1. \/ \E pc \in {"release", "recordPrecheck"} : Goto(r, pc)
          \/ req' = [req EXCEPT ![r].pc = "closeClaim", ![r].version = op[o].version, ![r].seen = r]
      BY <1>9 DEF RecheckUnderLock
    <2>2. [req[r] EXCEPT !.pc = "closeClaim", !.version = op[o].version, !.seen = r] \in Threads
      BY <1>1, ThreadUpdate
    <2>3. req' = [req EXCEPT ![r].pc = "closeClaim", ![r].version = op[o].version, ![r].seen = r]
          => req' \in [Requests -> Threads]
      BY <1>1, <2>2
    <2>4. req' \in [Requests -> Threads]
      BY <2>1, <2>3, GotoType DEF UnsentPcs
    <2> QED BY <1>1, <1>9, <2>4, RequestFrame DEF RecheckUnderLock, coordination
  <1>10. CASE RecordPrecheck(r) \/ RecordStart(r) \/ RecordBlocked(r) \/ RecordUnsentFailure(r)
    <2>1. job' \in [Ops -> Jobs]
      BY <1>2, <1>10 DEF RecordPrecheck, RecordStart, RecordBlocked, RecordUnsentFailure, Jobs
    <2>2. req' \in [Requests -> Threads]
      BY <1>10, GotoType DEF RecordPrecheck, RecordStart, RecordBlocked, RecordUnsentFailure, UnsentPcs
    <2> QED BY <1>1, <1>10, <2>1, <2>2, RequestFrame
            DEF RecordPrecheck, RecordStart, RecordBlocked, RecordUnsentFailure
  <1>11. CASE Precheck(r) \/ AbandonUnsent(r) \/ OpenMutationClient(r)
    <2>1. req' \in [Requests -> Threads]
      BY <1>11, GotoType DEF Precheck, AbandonUnsent, OpenMutationClient, UnsentPcs
    <2> QED BY <1>1, <1>11, <2>1, RequestFrame DEF Precheck, AbandonUnsent, OpenMutationClient, coordination
  <1>12. CASE BlockOperation(r)
    BY <1>1, <1>12, CloseUnsentType, GotoType, RequestFrame DEF BlockOperation, UnsentPcs
  <1>13. CASE RegisterRecovery(r)
    <2>1. CASE PrepareAndClaim(o, r, FALSE)
               /\ req' = [req EXCEPT ![r].pc = "commitDispatch", ![r].gen = rec'[o].gen]
      <3>1. rec' \in [Ops -> RecRows] /\ rec'[o].gen \in Nat
        BY <1>1, <2>1, ClaimType
      <3>2. [req[r] EXCEPT !.pc = "commitDispatch", !.gen = rec'[o].gen] \in Threads
        BY <1>1, <3>1, ThreadUpdate DEF UnsentPcs
      <3>3. req' \in [Requests -> Threads]
        BY <1>1, <2>1, <3>2
      <3> QED BY <1>1, <1>13, <3>1, <3>3, RequestFrame DEF RegisterRecovery
    <2>2. CASE Goto(r, "failJob") /\ UNCHANGED rec
      BY <1>1, <1>13, <2>2, GotoType, RequestFrame DEF RegisterRecovery, UnsentPcs
    <2> QED BY <1>13, <2>1, <2>2 DEF RegisterRecovery
  <1>14. CASE CloseUnsentFailure(r)
    BY <1>1, <1>14, CloseUnsentType, GotoType, RequestFrame DEF CloseUnsentFailure, UnsentPcs
  <1>15. CASE ReleaseTarget(r)
    BY <1>1, <1>15, LockStepType, GotoType, RequestFrame DEF ReleaseTarget
  <1>16. CASE ClaimReplay(r)
    <2>1. CASE PrepareAndClaim(o, req[r].seen, FALSE)
               /\ req' = [req EXCEPT ![r].pc = "closeCommit", ![r].gen = rec'[o].gen]
      <3>1. rec' \in [Ops -> RecRows] /\ rec'[o].gen \in Nat
        BY <1>1, <2>1, ClaimType
      <3>2. [req[r] EXCEPT !.pc = "closeCommit", !.gen = rec'[o].gen] \in Threads
        BY <1>1, <3>1, ThreadUpdate
      <3>3. req' \in [Requests -> Threads]
        BY <1>1, <2>1, <3>2
      <3> QED BY <1>1, <1>16, <3>1, <3>3, RequestFrame DEF ClaimReplay
    <2>2. CASE Goto(r, "done") /\ UNCHANGED rec
      BY <1>1, <1>16, <2>2, GotoType, RequestFrame DEF ClaimReplay
    <2> QED BY <1>16, <2>1, <2>2 DEF ClaimReplay
  <1>17. CASE CommitReplay(r)
    <2>1. Ended(o, "completed", FALSE) \in RecRows
      BY <1>1, RowTypes
    <2>2. op' \in [Ops -> OpRows] /\ rec' \in [Ops -> RecRows] /\ lock' \in [Vms -> LockIds]
      BY <1>1, <1>17, <2>1, CommitType DEF CommitReplay
    <2> QED BY <1>1, <1>17, <2>2, GotoType, RequestFrame DEF CommitReplay
  <1> QED BY <1>3, <1>4, <1>5, <1>6, <1>7, <1>8, <1>9, <1>10, <1>11, <1>12, <1>13, <1>14, <1>15,
             <1>16, <1>17

\* Steps from the dispatch checkpoint on.
LEMMA SentType ==
  ASSUME TypeOK, NEW r \in Requests,
         \/ CommitDispatching(r) \/ PostMutation(r) \/ CommitRejected(r) \/ CommitRunning(r)
         \/ RecordPoll(r) \/ PollTask(r) \/ ReadVmStatus(r) \/ CommitVerifying(r)
         \/ WriteArtifact(r) \/ RequireReconciliation(r) \/ RecordReconciliation(r)
         \/ CommitTerminal(r) \/ RecordTerminal(r) \/ HandOff(r) \/ FinishTerminal(r)
  PROVE  TypeOK'
  <1> DEFINE o == OpOf[r]
  <1>1. /\ o \in Ops /\ req[r] \in Threads /\ req[r].saw \in Sightings
        /\ req \in [Requests -> Threads] /\ task \in [Ops -> TaskStates] /\ posts \in [Ops -> Nat]
        /\ op \in [Ops -> OpRows] /\ rec \in [Ops -> RecRows] /\ lock \in [Vms -> LockIds]
        /\ job \in [Ops -> Jobs] /\ op[o] \in OpRows
    BY DEF TypeOK, CoordinationTypeOK, Threads
  <1>2. /\ Kept(o) \in RecRows
        /\ [Kept(o) EXCEPT !.phase = "dispatched"] \in RecRows
        /\ [Kept(o) EXCEPT !.upid = TRUE] \in RecRows
        /\ \A s \in RecoveryStatuses, b \in BOOLEAN : Ended(o, s, b) \in RecRows
    BY <1>1, RowTypes
  <1>3. ASSUME NEW status \in Jobs, RecordJob(r, status)
        PROVE  job' \in [Ops -> Jobs]
    BY <1>1, <1>3 DEF RecordJob
  <1> USE RequestPlaces, StatusNames
  <1>4. CASE CommitDispatching(r)
    <2>1. CASE CommitOrStop(r, {"planned"}, "dispatching", [Kept(o) EXCEPT !.phase = "dispatched"],
                            FALSE, "post")
      BY <1>1, <1>2, <1>4, <2>1, CommitOrStopType, RequestFrame DEF CommitDispatching, SentPcs
    <2>2. CASE Goto(r, "done") /\ UNCHANGED <<op, rec, lock>>
      BY <1>1, <1>4, <2>2, GotoType, RequestFrame DEF CommitDispatching
    <2> QED BY <1>4, <2>1, <2>2 DEF CommitDispatching
  <1>5. CASE PostMutation(r)
    <2>1. posts' \in [Ops -> Nat]
      BY <1>1, <1>5 DEF PostMutation
    <2>2. task' \in [Ops -> TaskStates]
      BY <1>1, <1>5 DEF PostMutation, TaskStates
    <2>3. req' \in [Requests -> Threads]
      BY <1>5, GotoType DEF PostMutation, SentPcs
    <2> QED BY <1>5, <2>1, <2>2, <2>3 DEF PostMutation, TypeOK, CoordinationTypeOK, coordination, bounds
  <1>6. CASE CommitRejected(r)
    <2>1. CASE /\ Commit(o, req[r].gen, {"dispatching"}, "failed", Kept(o), FALSE)
               /\ req' = [req EXCEPT ![r].pc = "terminalJob", ![r].saw = "failed"]
      <3>1. [req[r] EXCEPT !.pc = "terminalJob", !.saw = "failed"] \in Threads
        BY <1>1, ThreadUpdate DEF SentPcs, Sightings
      <3>2. req' \in [Requests -> Threads]
        BY <1>1, <2>1, <3>1
      <3>3. op' \in [Ops -> OpRows] /\ rec' \in [Ops -> RecRows] /\ lock' \in [Vms -> LockIds]
        BY <1>1, <1>2, <2>1, CommitType
      <3> QED BY <1>1, <1>6, <3>2, <3>3, RequestFrame DEF CommitRejected
    <2>2. CASE Goto(r, "done") /\ UNCHANGED <<op, rec, lock>>
      BY <1>1, <1>6, <2>2, GotoType, RequestFrame DEF CommitRejected
    <2> QED BY <1>6, <2>1, <2>2 DEF CommitRejected
  <1>7. CASE CommitRunning(r)
    <2> DEFINE row == [Moved(op[o], "running") EXCEPT !.upid = TRUE]
               item == [Kept(o) EXCEPT !.upid = TRUE]
    <2>1. row \in OpRows /\ item \in RecRows
      BY <1>1, <1>2, MovedType, MarkedType
    <2>2. op' \in [Ops -> OpRows] /\ rec' \in [Ops -> RecRows] /\ lock' \in [Vms -> LockIds]
      <3>1. \/ UNCHANGED <<op, rec, lock>>
            \/ /\ op' = [op EXCEPT ![o] = row]
               /\ rec' = [rec EXCEPT ![o] = item]
               /\ lock' = lock
        BY <1>1, <1>7 DEF CommitRunning
      <3> HIDE DEF row, item
      <3> QED BY <1>1, <2>1, <3>1
    <2> QED BY <1>1, <1>7, <2>2, GotoType, RequestFrame DEF CommitRunning, SentPcs
  <1>8. CASE RecordPoll(r) \/ RecordReconciliation(r) \/ RecordTerminal(r)
    <2>1. job' \in [Ops -> Jobs]
      BY <1>1, <1>3, <1>8 DEF RecordPoll, RecordReconciliation, RecordTerminal, Jobs
    <2>2. req' \in [Requests -> Threads]
      BY <1>8, GotoType DEF RecordPoll, RecordReconciliation, RecordTerminal, SentPcs
    <2> QED BY <1>1, <1>8, <2>1, <2>2, RequestFrame DEF RecordPoll, RecordReconciliation, RecordTerminal
  <1>9. CASE PollTask(r)
    <2>1. Goto(r, "done") \/ \E s \in Sightings : req' = [req EXCEPT ![r].pc = "look", ![r].saw = s]
      BY <1>9 DEF PollTask, Sightings
    <2>2. \A s \in Sightings : [req[r] EXCEPT !.pc = "look", !.saw = s] \in Threads
      BY <1>1, ThreadUpdate DEF SentPcs
    <2>3. ASSUME NEW s \in Sightings, req' = [req EXCEPT ![r].pc = "look", ![r].saw = s]
          PROVE  req' \in [Requests -> Threads]
      BY <1>1, <2>2, <2>3
    <2>4. req' \in [Requests -> Threads]
      BY <2>1, <2>3, GotoType
    <2> QED BY <1>1, <1>9, <2>4, RequestFrame DEF PollTask, coordination
  <1>10. CASE ReadVmStatus(r)
    <2>1. PICK s \in Sightings : req' = [req EXCEPT ![r].pc = "commitVerifying", ![r].saw = s]
      BY <1>10 DEF ReadVmStatus, Verdict, Sightings
    <2>2. [req[r] EXCEPT !.pc = "commitVerifying", !.saw = s] \in Threads
      BY <1>1, ThreadUpdate DEF SentPcs
    <2>3. req' \in [Requests -> Threads]
      BY <1>1, <2>1, <2>2
    <2> QED BY <1>1, <1>10, <2>3, RequestFrame DEF ReadVmStatus, coordination
  <1>11. CASE CommitVerifying(r)
    BY <1>1, <1>2, <1>11, CommitOrStopType, RequestFrame DEF CommitVerifying, SentPcs
  <1>12. CASE WriteArtifact(r)
    <2>1. req' \in [Requests -> Threads]
      BY <1>12, GotoType DEF WriteArtifact, SentPcs
    <2> QED BY <1>1, <1>12, <2>1, RequestFrame DEF WriteArtifact, coordination
  <1>13. CASE RequireReconciliation(r)
    <2>1. CASE \E s \in RecoveryStatuses :
                 CommitOrStop(r, {"dispatching", "running", "verifying"}, "needs_reconciliation",
                              Ended(o, s, FALSE), FALSE, "reconcileJob")
      BY <1>1, <1>2, <1>13, <2>1, CommitOrStopType, RequestFrame DEF RequireReconciliation, SentPcs
    <2>2. CASE Goto(r, "done") /\ UNCHANGED <<op, rec, lock>>
      BY <1>1, <1>13, <2>2, GotoType, RequestFrame DEF RequireReconciliation
    <2> QED BY <1>13, <2>1, <2>2 DEF RequireReconciliation
  <1>14. CASE CommitTerminal(r)
    <2>1. CASE Goto(r, "done") /\ UNCHANGED <<op, rec, lock>>
      BY <1>1, <1>14, <2>1, GotoType, RequestFrame DEF CommitTerminal
    <2>2. CASE MayTransition("verifying", req[r].saw)
      <3>1. req[r].saw \in OperationStatuses
        BY <2>2 DEF MayTransition, AllowedTransitions
      <3> QED BY <1>1, <1>2, <1>14, <3>1, CommitOrStopType, RequestFrame DEF CommitTerminal, SentPcs
    <2> QED BY <1>14, <2>1, <2>2 DEF CommitTerminal, CommitOrStop, Commit, MayCommit
  <1>15. CASE HandOff(r)
    <2> DEFINE to == IF op[o].status \in {"succeeded", "failed"} THEN op[o].status ELSE "needs_reconciliation"
    <2>1. CASE \E s \in {"retry_wait", "paused"}, b \in BOOLEAN :
                 CommitOrStop(r, {"dispatching", "verifying", "succeeded", "failed"}, to,
                              Ended(o, s, b), FALSE, "done")
      <3>1. to \in OperationStatuses
        OBVIOUS
      <3> HIDE DEF to
      <3> QED BY <1>1, <1>2, <1>15, <2>1, <3>1, CommitOrStopType, RequestFrame DEF HandOff
    <2>2. CASE Goto(r, "done") /\ UNCHANGED <<op, rec, lock>>
      BY <1>1, <1>15, <2>2, GotoType, RequestFrame DEF HandOff
    <2> QED BY <1>15, <2>1, <2>2 DEF HandOff
  <1>16. CASE FinishTerminal(r)
    <2>1. CASE Goto(r, "done") /\ UNCHANGED <<op, rec, lock>>
      BY <1>1, <1>16, <2>1, GotoType, RequestFrame DEF FinishTerminal
    <2>2. CASE op[o].status = req[r].saw
      <3>1. req[r].saw \in OperationStatuses \cup {"none"}
        BY <1>1, <2>2, RowTypes
      <3> QED BY <1>1, <1>2, <1>16, <3>1, CommitOrStopType, RequestFrame DEF FinishTerminal
    <2> QED BY <1>16, <2>1, <2>2 DEF FinishTerminal, CommitOrStop, Commit, MayCommit
  <1> QED BY <1>4, <1>5, <1>6, <1>7, <1>8, <1>9, <1>10, <1>11, <1>12, <1>13, <1>14, <1>15, <1>16

-----------------------------------------------------------------------------
(* The observers. *)

\* An observer that moves, and what it may remember on the way, stays an observer.
LEMMA ObserverUpdate ==
  ASSUME NEW t \in ObserverRows, NEW pc \in ObserverPcs
  PROVE  /\ [t EXCEPT !.pc = pc] \in ObserverRows
         /\ \A n \in Nat : [t EXCEPT !.pc = pc, !.gen = n] \in ObserverRows
         /\ \A o \in Ops, n \in Nat : [t EXCEPT !.pc = pc, !.o = o, !.gen = n] \in ObserverRows
         /\ \A s \in Sightings : [t EXCEPT !.pc = pc, !.saw = s] \in ObserverRows
         /\ \A s \in OperationStatuses \cup {"none"} : [t EXCEPT !.pc = pc, !.status = s] \in ObserverRows
  BY DEF ObserverRows

\* Every place an observer goes to is a place of ObserverPcs.
LEMMA ObserverPlaces ==
  {"idle", "prepare", "claim", "request", "registered", "repeat", "load", "bind", "closeUnsent", "project",
   "pauseMissing", "pauseBinding", "observeTask", "observeVm", "retry", "correlate",
   "succeed", "fail", "mismatch", "excepted", "done"} = ObserverPcs
  BY DEF ObserverPcs

\* An observer that holds nothing is one, with or without an operation and a lease.
LEMMA FreshObserver ==
  ASSUME NEW pc \in ObserverPcs
  PROVE  /\ Observer(pc) \in ObserverRows
         /\ \A o \in Ops : [Observer(pc) EXCEPT !.o = o] \in ObserverRows
         /\ \A o \in Ops, n \in Nat : [Observer(pc) EXCEPT !.o = o, !.gen = n] \in ObserverRows
  <1>1. (CHOOSE o \in Ops : TRUE) \in Ops
    BY DEF CoordinationAssumption
  <1>2. Observer(pc) \in ObserverRows
    BY <1>1, ObserverPlaces DEF Observer, ObserverRows, LockIds, Sightings
  <1> QED BY <1>2 DEF ObserverRows

\* Giving up a claim leaves every observer typed.
LEMMA RestType ==
  ASSUME TypeOK, NEW w \in Observers, Rest(w)
  PROVE  obs' \in [Observers -> ObserverRows]
  <1>1. obs \in [Observers -> ObserverRows] /\ obs[w].o \in Ops
    BY DEF TypeOK, ObserverRows
  <1>2. PICK row \in ObserverRows : obs' = [obs EXCEPT ![w] = row]
    BY <1>1, FreshObserver, ObserverPlaces DEF Rest
  <1> QED BY <1>1, <1>2

\* Moving on to another place leaves every observer typed.
LEMMA AdvanceType ==
  ASSUME TypeOK, NEW w \in Observers, NEW pc \in ObserverPcs, Advance(w, pc)
  PROVE  obs' \in [Observers -> ObserverRows]
  <1>1. [obs[w] EXCEPT !.pc = pc] \in ObserverRows
    BY ObserverUpdate DEF TypeOK
  <1> QED BY <1>1 DEF Advance, TypeOK

\* A step of an observer leaves the requests, Proxmox and the bounds alone.
LEMMA ObserverFrame ==
  ASSUME TypeOK, op' \in [Ops -> OpRows], rec' \in [Ops -> RecRows], lock' \in [Vms -> LockIds],
         job' \in [Ops -> Jobs], obs' \in [Observers -> ObserverRows], Hold
  PROVE  TypeOK'
  BY DEF TypeOK, CoordinationTypeOK, Hold, proxmox, bounds

\* Claiming, and losing a claim.
LEMMA ClaimingType ==
  ASSUME TypeOK, NEW w \in Observers,
         \/ ClaimDueWork(w) \/ RequestObservation(w) \/ RepeatObservation(w)
         \/ ClaimObservation(w) \/ RecordRequest(w) \/ LeaseLost(w) \/ ObserverCrashes(w)
  PROVE  TypeOK'
  <1>1. /\ obs \in [Observers -> ObserverRows] /\ obs[w] \in ObserverRows
        /\ obs[w].o \in Ops /\ obs[w].gen \in Nat /\ obs[w].seen \in LockIds
        /\ obs[w].status \in OperationStatuses \cup {"none"}
        /\ op \in [Ops -> OpRows] /\ rec \in [Ops -> RecRows] /\ lock \in [Vms -> LockIds]
        /\ job \in [Ops -> Jobs]
    BY DEF TypeOK, CoordinationTypeOK, ObserverRows
  <1> USE ObserverPlaces
  <1>2. CASE ClaimDueWork(w)
    <2>1. PICK o \in Ops : ClaimDue(o)
                           /\ obs' = [obs EXCEPT ![w].pc = "load", ![w].o = o, ![w].gen = rec'[o].gen]
      BY <1>2 DEF ClaimDueWork
    <2>2. rec' \in [Ops -> RecRows] /\ rec'[o].gen \in Nat
      BY <2>1, ClaimType
    <2>3. [obs[w] EXCEPT !.pc = "load", !.o = o, !.gen = rec'[o].gen] \in ObserverRows
      BY <1>1, <2>2, ObserverUpdate
    <2>4. obs' \in [Observers -> ObserverRows]
      BY <1>1, <2>1, <2>3
    <2> QED BY <1>1, <1>2, <2>2, <2>4, ObserverFrame DEF ClaimDueWork
  <1>3. CASE RequestObservation(w)
    <2>1. PICK o \in Ops, pc \in {"prepare", "claim"} :
            obs' = [obs EXCEPT ![w].pc = pc, ![w].o = o, ![w].status = op[o].status,
                               ![w].version = op[o].version, ![w].seen = lock[VmOf[o]]]
      BY <1>3 DEF RequestObservation
    <2>2. [obs[w] EXCEPT !.pc = pc, !.o = o, !.status = op[o].status, !.version = op[o].version,
                         !.seen = lock[VmOf[o]]] \in ObserverRows
      <3>1. /\ pc \in ObserverPcs /\ op[o].status \in OperationStatuses \cup {"none"}
            /\ op[o].version \in Nat /\ lock[VmOf[o]] \in LockIds
        BY RowTypes
      <3> QED BY <1>1, <3>1 DEF ObserverRows
    <2>3. obs' \in [Observers -> ObserverRows]
      BY <1>1, <2>1, <2>2
    <2> QED BY <1>1, <1>3, <2>3, ObserverFrame DEF RequestObservation, coordination
  <1>8. CASE RepeatObservation(w)
    <2>1. op[obs[w].o].version \in Nat
      BY <1>1, RowTypes
    <2>2. [obs[w] EXCEPT !.pc = "repeat", !.version = op[obs[w].o].version] \in ObserverRows
      BY <1>1, <2>1 DEF ObserverRows
    <2>3. obs' \in [Observers -> ObserverRows]
      BY <1>1, <1>8, <2>2 DEF RepeatObservation
    <2> QED BY <1>1, <1>8, <2>3, ObserverFrame DEF RepeatObservation, coordination
  <1>4. CASE ClaimObservation(w)
    <2> DEFINE o == obs[w].o
    <2>1. ASSUME NEW pc \in {"load", "request"},
                 \/ PrepareAndClaim(o, obs[w].seen, obs[w].status \in {"failed", "blocked"})
                 \/ ClaimOperation(o),
                 obs' = [obs EXCEPT ![w].pc = pc, ![w].gen = rec'[o].gen]
          PROVE  TypeOK'
      <3>1. (\E l \in LockIds, m \in BOOLEAN : PrepareAndClaim(o, l, m)) \/ ClaimOperation(o)
        <4> DEFINE m == obs[w].status \in {"failed", "blocked"}
        <4>1. m \in BOOLEAN
          OBVIOUS
        <4>2. PrepareAndClaim(o, obs[w].seen, m) \/ ClaimOperation(o)
          BY <2>1
        <4> HIDE DEF m
        <4> QED BY <1>1, <4>1, <4>2
      <3>2. rec' \in [Ops -> RecRows] /\ rec'[o].gen \in Nat
        BY <1>1, <2>1, <3>1, ClaimType
      <3>3. [obs[w] EXCEPT !.pc = pc, !.gen = rec'[o].gen] \in ObserverRows
        BY <1>1, <3>2, ObserverUpdate
      <3>4. obs' \in [Observers -> ObserverRows]
        BY <1>1, <2>1, <3>3
      <3> QED BY <1>1, <1>4, <3>2, <3>4, ObserverFrame DEF ClaimObservation
    <2>2. CASE Rest(w) /\ UNCHANGED rec
      BY <1>1, <1>4, <2>2, RestType, ObserverFrame DEF ClaimObservation
    <2>3. CASE \E pc \in {"load", "request"} :
                 /\ \/ PrepareAndClaim(o, obs[w].seen, obs[w].status \in {"failed", "blocked"})
                    \/ ClaimOperation(o)
                 /\ obs' = [obs EXCEPT ![w].pc = pc, ![w].gen = rec'[o].gen]
      BY <2>1, <2>3
    <2> QED BY <1>4, <2>2, <2>3 DEF ClaimObservation
  <1>5. CASE RecordRequest(w)
    <2> DEFINE o == obs[w].o
               st == obs[w].status
    <2>1. CASE /\ Commit(o, obs[w].gen, {st}, st, Kept(o), FALSE)
               /\ obs' = [obs EXCEPT ![w] = [Observer("load") EXCEPT !.o = o, !.gen = obs[w].gen]]
      <3>1. [Observer("load") EXCEPT !.o = o, !.gen = obs[w].gen] \in ObserverRows
        BY <1>1, FreshObserver
      <3>2. obs' \in [Observers -> ObserverRows]
        BY <1>1, <2>1, <3>1
      <3>3. op' \in [Ops -> OpRows] /\ rec' \in [Ops -> RecRows] /\ lock' \in [Vms -> LockIds]
        BY <1>1, <2>1, RowTypes, CommitType
      <3> QED BY <1>1, <1>5, <3>2, <3>3, ObserverFrame DEF RecordRequest
    <2>2. CASE Rest(w) /\ UNCHANGED <<op, rec, lock>>
      BY <1>1, <1>5, <2>2, RestType, ObserverFrame DEF RecordRequest
    <2> QED BY <1>5, <2>1, <2>2 DEF RecordRequest
  <1>6. CASE LeaseLost(w)
    BY <1>1, <1>6, RestType, ObserverFrame DEF LeaseLost, coordination
  <1>7. CASE ObserverCrashes(w)
    BY <1>7, RestType DEF ObserverCrashes, TypeOK, CoordinationTypeOK, coordination, proxmox
  <1> QED BY <1>2, <1>3, <1>4, <1>5, <1>6, <1>7, <1>8

\* The handlers.
LEMMA HandlerType ==
  ASSUME TypeOK, NEW w \in Observers,
         \/ LoadOperation(w) \/ ValidateBinding(w) \/ PauseBindingFailure(w) \/ PauseMissingTask(w)
         \/ CompleteUnsent(w) \/ CompleteProjection(w) \/ ObserveTask(w) \/ ObserveVm(w)
         \/ RetryTask(w) \/ AdvanceToVerifying(w) \/ RecordOutcome(w) \/ PauseMismatch(w)
         \/ AbsorbException(w)
  PROVE  TypeOK'
  <1> DEFINE o == obs[w].o
             st == obs[w].status
  <1>1. /\ obs \in [Observers -> ObserverRows] /\ obs[w] \in ObserverRows
        /\ o \in Ops /\ obs[w].next \in ObserverPcs
        /\ st \in OperationStatuses \cup {"none"}
        /\ op[o].status \in OperationStatuses \cup {"none"}
        /\ op \in [Ops -> OpRows] /\ rec \in [Ops -> RecRows] /\ lock \in [Vms -> LockIds]
        /\ job \in [Ops -> Jobs]
    BY RowTypes DEF TypeOK, CoordinationTypeOK, ObserverRows
  <1>2. /\ Kept(o) \in RecRows
        /\ \A s \in RecoveryStatuses, b \in BOOLEAN : Ended(o, s, b) \in RecRows
    BY <1>1, RowTypes
  <1>3. /\ Reconciled(w) \in OperationStatuses \cup {"none"}
        /\ RetryStatus(o) \in RecoveryStatuses
    BY <1>1, StatusNames DEF Reconciled, RetryStatus
  <1> USE ObserverPlaces, StatusNames
  \* What a handler's commit, or the exception of a failed one, leaves typed.
  <1>4. ASSUME NEW to \in OperationStatuses \cup {"none"}, NEW item \in RecRows, NEW release,
               HandlerCommit(w, to, item, release)
        PROVE  op' \in [Ops -> OpRows] /\ rec' \in [Ops -> RecRows] /\ lock' \in [Vms -> LockIds]
    BY <1>1, <1>4, CommitType DEF HandlerCommit
  <1>5. ASSUME NEW to, NEW release, HandlerConflict(w, to, release), job' = job, Hold
        PROVE  TypeOK'
    BY <1>1, <1>5, AdvanceType, ObserverFrame DEF HandlerConflict
  <1>6. ASSUME NEW to \in OperationStatuses \cup {"none"}, NEW s \in RecoveryStatuses,
               NEW b \in BOOLEAN, NEW release, HandlerCommit(w, to, Ended(o, s, b), release),
               job' \in [Ops -> Jobs], Rest(w), Hold
        PROVE  TypeOK'
    BY <1>1, <1>2, <1>4, <1>6, RestType, ObserverFrame
  <1>7. CASE LoadOperation(w)
    <2>1. CASE \E next \in ObserverPcs :
                 obs' = [obs EXCEPT ![w].pc = "bind", ![w].status = op[o].status, ![w].next = next]
      <3>1. PICK next \in ObserverPcs :
              obs' = [obs EXCEPT ![w].pc = "bind", ![w].status = op[o].status, ![w].next = next]
        BY <2>1
      <3>2. "bind" \in ObserverPcs
        OBVIOUS
      <3>3. [obs[w] EXCEPT !.pc = "bind", !.status = op[o].status, !.next = next] \in ObserverRows
        BY <1>1, <3>2 DEF ObserverRows
      <3>4. obs' \in [Observers -> ObserverRows]
        BY <1>1, <3>1, <3>3
      <3> QED BY <1>1, <1>7, <3>4, ObserverFrame DEF LoadOperation, coordination
    <2>2. CASE Advance(w, "excepted")
      BY <1>1, <1>7, <2>2, AdvanceType, ObserverFrame DEF LoadOperation, coordination
    <2> QED BY <1>7, <2>1, <2>2 DEF LoadOperation, Course
  <1>8. CASE ValidateBinding(w)
    BY <1>1, <1>8, AdvanceType, ObserverFrame DEF ValidateBinding, coordination
  <1>9. CASE PauseBindingFailure(w)
    BY <1>1, <1>3, <1>5, <1>6, <1>9 DEF PauseBindingFailure
  <1>10. CASE PauseMissingTask(w)
    BY <1>1, <1>3, <1>5, <1>6, <1>10 DEF PauseMissingTask
  <1>11. CASE CompleteUnsent(w)
    <2>1. PICK to \in {"failed", "blocked"} :
            \/ /\ HandlerCommit(w, to, Ended(o, "completed", FALSE), TRUE)
               /\ job' = [job EXCEPT ![o] = to] /\ Rest(w)
            \/ HandlerConflict(w, to, TRUE) /\ UNCHANGED job
      BY <1>11 DEF CompleteUnsent
    <2>2. [job EXCEPT ![o] = to] \in [Ops -> Jobs]
      BY <1>1 DEF Jobs
    <2>3. Hold /\ to \in OperationStatuses \cup {"none"}
      BY <1>11 DEF CompleteUnsent
    <2> QED BY <1>1, <1>5, <1>6, <2>1, <2>2, <2>3
  <1>12. CASE CompleteProjection(w)
    <2>1. \/ /\ HandlerCommit(w, st, Ended(o, "completed", FALSE), TRUE)
             /\ \E s \in {"completed", "failed"} : job' = [job EXCEPT ![o] = s]
             /\ Rest(w)
          \/ Advance(w, "excepted") /\ UNCHANGED coordination
      BY <1>12 DEF CompleteProjection
    <2>2. \A s \in {"completed", "failed"} : [job EXCEPT ![o] = s] \in [Ops -> Jobs]
      BY <1>1 DEF Jobs
    <2>3. Hold
      BY <1>12 DEF CompleteProjection
    <2>4. CASE Advance(w, "excepted") /\ UNCHANGED coordination
      BY <1>1, <2>3, <2>4, AdvanceType, ObserverFrame DEF coordination
    <2> QED BY <1>1, <1>6, <2>1, <2>2, <2>3, <2>4
  <1>13. CASE ObserveTask(w)
    <2>1. CASE task[o] \in {"ok", "failed"}
               /\ obs' = [obs EXCEPT ![w].pc = "observeVm", ![w].saw = task[o]]
      <3>1. [obs[w] EXCEPT !.pc = "observeVm", !.saw = task[o]] \in ObserverRows
        BY <1>1, <2>1, ObserverUpdate DEF Sightings
      <3>2. obs' \in [Observers -> ObserverRows]
        BY <1>1, <2>1, <3>1
      <3> QED BY <1>1, <1>13, <3>2, ObserverFrame DEF ObserveTask, coordination
    <2>2. CASE Advance(w, "retry") \/ Advance(w, "excepted")
      BY <1>1, <1>13, <2>2, AdvanceType, ObserverFrame DEF ObserveTask, coordination
    <2> QED BY <1>13, <2>1, <2>2 DEF ObserveTask
  <1>14. CASE ObserveVm(w)
    <2>1. PICK pc \in ObserverPcs : Advance(w, pc)
      BY <1>14 DEF ObserveVm
    <2> QED BY <1>1, <1>14, <2>1, AdvanceType, ObserverFrame DEF ObserveVm, coordination
  <1>15. CASE RetryTask(w)
    BY <1>1, <1>3, <1>5, <1>6, <1>15 DEF RetryTask
  <1>16. CASE AdvanceToVerifying(w)
    <2>1. PICK to \in {"running", "verifying"}, pc \in {"succeed", "correlate"} :
            \/ /\ HandlerCommit(w, to, Kept(o), FALSE)
               /\ obs' = [obs EXCEPT ![w].pc = pc, ![w].status = to]
            \/ HandlerConflict(w, to, FALSE)
      BY <1>16 DEF AdvanceToVerifying
    <2>2. [obs[w] EXCEPT !.pc = pc, !.status = to] \in ObserverRows
      <3>1. pc \in ObserverPcs /\ to \in OperationStatuses \cup {"none"}
        OBVIOUS
      <3> QED BY <1>1, <3>1 DEF ObserverRows
    <2>3. Hold /\ job' = job
      BY <1>16 DEF AdvanceToVerifying
    <2>4. CASE HandlerCommit(w, to, Kept(o), FALSE)
               /\ obs' = [obs EXCEPT ![w].pc = pc, ![w].status = to]
      <3>1. obs' \in [Observers -> ObserverRows]
        BY <1>1, <2>2, <2>4
      <3> QED BY <1>1, <1>2, <1>4, <2>3, <2>4, <3>1, ObserverFrame
    <2> QED BY <1>5, <2>1, <2>3, <2>4
  <1>17. CASE RecordOutcome(w)
    <2>1. PICK to \in {"succeeded", "failed"} :
            \/ /\ HandlerCommit(w, to, Kept(o), FALSE)
               /\ obs' = [obs EXCEPT ![w].pc = "project", ![w].status = to]
            \/ HandlerConflict(w, to, FALSE)
      BY <1>17 DEF RecordOutcome
    <2>2. [obs[w] EXCEPT !.pc = "project", !.status = to] \in ObserverRows
      BY <1>1, ObserverUpdate
    <2>3. Hold /\ job' = job
      BY <1>17 DEF RecordOutcome
    <2>4. CASE HandlerCommit(w, to, Kept(o), FALSE)
               /\ obs' = [obs EXCEPT ![w].pc = "project", ![w].status = to]
      <3>1. obs' \in [Observers -> ObserverRows]
        BY <1>1, <2>2, <2>4
      <3> QED BY <1>1, <1>2, <1>4, <2>3, <2>4, <3>1, ObserverFrame
    <2> QED BY <1>5, <2>1, <2>3, <2>4
  <1>18. CASE PauseMismatch(w)
    BY <1>1, <1>5, <1>6, <1>18 DEF PauseMismatch
  <1>19. CASE AbsorbException(w)
    <2>1. Commit(o, obs[w].gen, {op[o].status}, op[o].status, Ended(o, RetryStatus(o), FALSE), FALSE)
      BY <1>19 DEF AbsorbException
    <2>2. op' \in [Ops -> OpRows] /\ rec' \in [Ops -> RecRows] /\ lock' \in [Vms -> LockIds]
      BY <1>1, <1>2, <1>3, <2>1, CommitType
    <2> QED BY <1>1, <1>19, <2>2, RestType, ObserverFrame DEF AbsorbException
  <1> QED BY <1>7, <1>8, <1>9, <1>10, <1>11, <1>12, <1>13, <1>14, <1>15, <1>16, <1>17, <1>18, <1>19

-----------------------------------------------------------------------------
(* The specification. *)

\* The empty database and the idle threads are typed.
LEMMA InitType == Init => TypeOK
  <1> SUFFICES ASSUME Init PROVE TypeOK
    OBVIOUS
  <1>1. CoordinationTypeOK
    BY DEF Init, CoordinationInit, CoordinationTypeOK, OpRows, RecRows, LockIds, Jobs,
           RecoveryStatuses
  <1>2. Thread("start") \in Threads
    BY RequestPlaces DEF Thread, Threads, LockIds, Sightings
  <1>3. Observer("idle") \in ObserverRows
    BY FreshObserver, ObserverPlaces
  <1> QED BY <1>1, <1>2, <1>3 DEF Init, TypeOK, TaskStates

\* Proxmox, time and failures.
LEMMA EnvironmentType ==
  ASSUME TypeOK,
         \/ ProxmoxStep
         \/ \E o \in Ops : LeaseExpires(o)
         \/ \E r \in Requests : RequestCrashes(r)
  PROVE  TypeOK'
  <1>1. /\ op \in [Ops -> OpRows] /\ rec \in [Ops -> RecRows] /\ lock \in [Vms -> LockIds]
        /\ job \in [Ops -> Jobs] /\ task \in [Ops -> TaskStates] /\ vm \in [Vms -> PowerStates]
    BY DEF TypeOK, CoordinationTypeOK
  <1>2. CASE \E o \in Ops : TaskStarts(o)
    <2>1. task' \in [Ops -> TaskStates]
      BY <1>1, <1>2 DEF TaskStarts, TaskStates
    <2> QED BY <1>2, <2>1 DEF TaskStarts, TypeOK, CoordinationTypeOK, coordination, bounds
  <1>3. CASE \E o \in Ops : TaskEnds(o)
    <2>1. task' \in [Ops -> TaskStates]
      BY <1>1, <1>3 DEF TaskEnds, TaskStates
    <2>2. vm' \in [Vms -> PowerStates]
      BY <1>1, <1>3 DEF TaskEnds, PowerStates, Target
    <2> QED BY <1>3, <2>1, <2>2 DEF TaskEnds, TypeOK, CoordinationTypeOK, coordination, bounds
  <1>4. CASE \E v \in Vms : PowerChanges(v)
    <2>1. vm' \in [Vms -> PowerStates]
      BY <1>1, <1>4 DEF PowerChanges, PowerStates
    <2> QED BY <1>4, <2>1 DEF PowerChanges, TypeOK, CoordinationTypeOK, coordination, bounds
  <1>5. CASE \E o \in Ops : LeaseExpires(o)
    <2>1. PICK o \in Ops : LeaseExpires(o)
      BY <1>5
    <2>2. [rec[o] EXCEPT !.live = FALSE] \in RecRows
      BY <1>1, ItemType
    <2>3. rec' \in [Ops -> RecRows]
      BY <1>1, <2>1, <2>2 DEF LeaseExpires
    <2>4. stalls' \in Nat
      BY <2>1 DEF LeaseExpires, TypeOK
    <2> QED BY <2>1, <2>3, <2>4 DEF LeaseExpires, TypeOK, CoordinationTypeOK, proxmox
  <1>6. CASE \E r \in Requests : RequestCrashes(r)
    BY <1>6, GotoType, RequestPlaces
       DEF RequestCrashes, TypeOK, CoordinationTypeOK, coordination, proxmox
  <1> QED BY <1>2, <1>3, <1>4, <1>5, <1>6 DEF ProxmoxStep

\* Every step of a thread, of Proxmox or of the clock keeps the state typed.
LEMMA TypeStep == TypeOK /\ [Next]_vars => TypeOK'
  <1> SUFFICES ASSUME TypeOK, [Next]_vars PROVE TypeOK'
    OBVIOUS
  <1>1. ASSUME NEW r \in Requests, RequestStep(r) PROVE TypeOK'
    BY <1>1, UnsentType, SentType DEF RequestStep
  <1>2. ASSUME NEW w \in Observers, ClaimDueWork(w) \/ RequestObservation(w) \/ RepeatObservation(w)
                                    \/ ObserverStep(w) \/ ObserverCrashes(w)
        PROVE  TypeOK'
    BY <1>2, ClaimingType, HandlerType DEF ObserverStep
  <1>3. CASE UNCHANGED vars
    BY <1>3 DEF vars, TypeOK, CoordinationTypeOK
  <1> QED BY <1>1, <1>2, <1>3, EnvironmentType DEF Next

\* Every reachable state is typed, whatever the constants are: in particular no operation ever
\* takes a status outside OperationStatuses, and no lock row is held by anything but a request.
THEOREM TypeCorrect == Spec => []TypeOK
  <1> QED BY InitType, TypeStep, PTL DEF Spec

-----------------------------------------------------------------------------
(***************************************************************************)
(* Completed recovery work is closed and stays closed, proved for every    *)
(* number of operations, VMs, requests, runners and operators.             *)
(*                                                                         *)
(* The argument separates what a step does to the durable rows from what   *)
(* it does to the threads: RowsStep and ThreadsStep say what every step    *)
(* has in common, ClosedKept shows that this keeps the layer Closed, and   *)
(* one lemma per process shows that its steps are of that form.            *)
(***************************************************************************)

ClosedInv == TypeOK /\ Closed

-----------------------------------------------------------------------------
(* What every step has in common. *)

\* Completed work and its operation do not move.
CompletedStays ==
  \A o \in Ops : rec[o].status = "completed" => op'[o] = op[o] /\ rec'[o] = rec[o]

\* Work is completed with the release of the exact lock and a decided operation.
CompletesClosed ==
  \A o \in Ops : rec[o].status # "completed" /\ rec'[o].status = "completed" =>
    /\ op'[o].status \in TerminalStatuses
    /\ rec'[o].lockId # Free /\ lock'[VmOf[o]] = Free

\* A lock closes, or a request inserts its row; recovery rows name inserted locks.
LocksMove ==
  /\ \A v \in Vms : \/ lock'[v] \in {Free, lock[v]}
                    \/ lock'[v] \in Requests /\ ~Begun(lock'[v]) /\ Begun(lock[v])'
  /\ \A o \in Ops : rec'[o].lockId = rec[o].lockId \/ Known(rec'[o].lockId)

RowsStep == CompletedStays /\ CompletesClosed /\ LocksMove

\* A request does not go back, and remembers inserted locks.
RequestsMove ==
  \A r \in Requests :
    /\ Begun(r) => Begun(r)'
    /\ req'[r].seen = req[r].seen \/ Known(req'[r].seen)
    /\ RequestVerdict(r)'

ObserversMove ==
  \A w \in Observers :
    /\ obs'[w].seen = obs[w].seen \/ Known(obs'[w].seen)
    /\ ObserverVerdict(w)'

\* Rows and threads that move like this keep completed work closed: a lock that is inserted
\* later cannot be the one the completed work names.
LEMMA ClosedKept ==
  ASSUME ClosedInv, TypeOK', RowsStep, RequestsMove, ObserversMove
  PROVE  ClosedInv'
  <1>0. TypeOK /\ TypeOK'
    BY DEF ClosedInv
  <1>1. /\ \A v \in Vms : lock[v] \in LockIds /\ lock'[v] \in LockIds
        /\ \A o \in Ops : VmOf[o] \in Vms /\ rec[o].lockId \in LockIds /\ rec'[o].lockId \in LockIds
        /\ \A r \in Requests : req[r].seen \in LockIds /\ req'[r].seen \in LockIds
        /\ \A w \in Observers : obs[w].seen \in LockIds /\ obs'[w].seen \in LockIds
    BY <1>0 DEF TypeOK, CoordinationTypeOK, RecRows, Threads, ObserverRows
  <1>2. ASSUME NEW l \in LockIds, Known(l)
        PROVE  Known(l)'
    BY <1>2 DEF RequestsMove, Known, LockIds
  <1>3. LocksKnown'
    <2>1. \A v \in Vms : Known(lock[v])'
      <3> SUFFICES ASSUME NEW v \in Vms PROVE Known(lock[v])'
        OBVIOUS
      <3>1. CASE lock'[v] \in {Free, lock[v]}
        <4>1. Known(lock'[v])
          BY <3>1 DEF ClosedInv, Closed, LocksKnown, Known
        <4> QED BY <1>1, <4>1 DEF RequestsMove, Known, LockIds
      <3>2. CASE lock'[v] \in Requests /\ Begun(lock[v])'
        BY <3>2 DEF Known
      <3> QED BY <3>1, <3>2 DEF RowsStep, LocksMove
    <2>2. \A o \in Ops : Known(rec[o].lockId)'
      <3> SUFFICES ASSUME NEW o \in Ops PROVE Known(rec[o].lockId)'
        OBVIOUS
      <3>1. Known(rec'[o].lockId)
        BY DEF ClosedInv, Closed, LocksKnown, RowsStep, LocksMove
      <3> QED BY <1>1, <3>1 DEF RequestsMove, Known, LockIds
    <2>3. \A r \in Requests : Known(req[r].seen)'
      <3> SUFFICES ASSUME NEW r \in Requests PROVE Known(req[r].seen)'
        OBVIOUS
      <3>1. Known(req'[r].seen)
        BY DEF ClosedInv, Closed, LocksKnown, RequestsMove
      <3> QED BY <1>1, <3>1 DEF RequestsMove, Known, LockIds
    <2>4. \A w \in Observers : Known(obs[w].seen)'
      <3> SUFFICES ASSUME NEW w \in Observers PROVE Known(obs[w].seen)'
        OBVIOUS
      <3>1. Known(obs'[w].seen)
        BY DEF ClosedInv, Closed, LocksKnown, ObserversMove
      <3> QED BY <1>1, <3>1 DEF RequestsMove, Known, LockIds
    <2> QED BY <2>1, <2>2, <2>3, <2>4 DEF LocksKnown
  <1>4. \A o \in Ops : CompletedClosed(o)'
    <2> SUFFICES ASSUME NEW o \in Ops, rec'[o].status = "completed"
                 PROVE  /\ op'[o].status \in TerminalStatuses
                        /\ rec'[o].lockId # Free /\ lock'[VmOf[o]] # rec'[o].lockId
      BY DEF CompletedClosed
    <2>1. CASE rec[o].status = "completed"
      <3>1. op'[o] = op[o] /\ rec'[o] = rec[o] /\ CompletedClosed(o) /\ Known(rec[o].lockId)
        BY <2>1 DEF ClosedInv, Closed, LocksKnown, RowsStep, CompletedStays
      <3>2. Begun(rec[o].lockId)
        BY <2>1, <3>1 DEF CompletedClosed, Known
      <3> QED BY <1>1, <2>1, <3>1, <3>2 DEF CompletedClosed, RowsStep, LocksMove
    <2>2. CASE rec[o].status # "completed"
      BY <2>2 DEF RowsStep, CompletesClosed
    <2> QED BY <2>1, <2>2
  <1> QED BY <1>3, <1>4 DEF ClosedInv, Closed, RequestsMove, ObserversMove

-----------------------------------------------------------------------------
(* The transactions move the rows like this. *)

\* The rows of a state that satisfies the invariant.
LEMMA ClosedRows ==
  ASSUME ClosedInv
  PROVE  /\ TypeOK /\ op \in [Ops -> OpRows] /\ rec \in [Ops -> RecRows] /\ lock \in [Vms -> LockIds]
         /\ req \in [Requests -> Threads] /\ obs \in [Observers -> ObserverRows]
         /\ \A o \in Ops : rec[o].status = "completed" => op[o].status \in TerminalStatuses
  BY DEF ClosedInv, TypeOK, CoordinationTypeOK, Closed, CompletedClosed

\* A step that writes no row.
LEMMA RowsRest ==
  ASSUME UNCHANGED <<op, rec, lock>>
  PROVE  RowsStep
  BY DEF RowsStep, CompletedStays, CompletesClosed, LocksMove

\* A plain transition writes an undecided operation only.
LEMMA RowsOperation ==
  ASSUME ClosedInv, NEW o \in Ops, NEW row,
         op' = op \/ (op' = [op EXCEPT ![o] = row] /\ op[o].status \in {"none", "planned"}),
         UNCHANGED <<rec, lock>>
  PROVE  RowsStep
  <1>1. op[o].status \in {"none", "planned"} => rec[o].status # "completed"
    BY ClosedRows DEF TerminalStatuses
  <1>2. CompletedStays
    BY <1>1, ClosedRows DEF CompletedStays
  <1> QED BY <1>2 DEF RowsStep, CompletesClosed, LocksMove

\* A lock is inserted by the request that begins with it.
LEMMA RowsAcquire ==
  ASSUME ClosedInv, NEW r \in Requests, Acquire(r), ~Begun(r), Begun(r)', UNCHANGED <<op, rec>>
  PROVE  RowsStep
  BY ClosedRows DEF Acquire, RowsStep, CompletedStays, CompletesClosed, LocksMove

\* Releasing closes a lock and writes nothing else.
LEMMA RowsRelease ==
  ASSUME ClosedInv, NEW r \in Requests, Release(r), UNCHANGED <<op, rec>>
  PROVE  RowsStep
  BY ClosedRows DEF Release, RowsStep, CompletedStays, CompletesClosed, LocksMove

\* A claim meets no completed work, and records an inserted lock.
LEMMA RowsClaim ==
  ASSUME ClosedInv, NEW o \in Ops, UNCHANGED <<op, lock>>,
         \/ ClaimOperation(o) \/ ClaimDue(o)
         \/ \E l \in LockIds, m \in BOOLEAN : Known(l) /\ PrepareAndClaim(o, l, m)
  PROVE  RowsStep
  <1>1. rec \in [Ops -> RecRows] /\ rec[o] \in RecRows /\ rec[o].marker \in BOOLEAN
    BY ClosedRows DEF RecRows
  <1>2. /\ rec[o].status # "completed"
        /\ \E row \in RecRows : /\ rec' = [rec EXCEPT ![o] = Leased(row)]
                                /\ row.lockId = rec[o].lockId \/ Known(row.lockId)
    <2>1. CASE ClaimOperation(o) \/ ClaimDue(o)
      BY <2>1, <1>1 DEF ClaimOperation, ClaimDue, Claimable
    <2>2. CASE \E l \in LockIds, m \in BOOLEAN : Known(l) /\ PrepareAndClaim(o, l, m)
      <3>1. PICK l \in LockIds, m \in BOOLEAN : Known(l) /\ PrepareAndClaim(o, l, m)
        BY <2>2
      <3> DEFINE n == rec[o].marker \/ m
      <3>2. n \in BOOLEAN
        BY <1>1
      <3>3. Prepared(rec[o], l, m) = [rec[o] EXCEPT !.phase = "pre_dispatch", !.lockId = l, !.marker = n]
        BY DEF Prepared
      <3> HIDE DEF n
      <3>4. Prepared(rec[o], l, m) \in RecRows /\ Prepared(rec[o], l, m).lockId = l
        BY <1>1, <3>2, <3>3 DEF RecRows
      <3> QED BY <3>1, <3>4 DEF PrepareAndClaim, Claimable
    <2> QED BY <2>1, <2>2
  <1>3. PICK row \in RecRows : /\ rec' = [rec EXCEPT ![o] = Leased(row)]
                               /\ row.lockId = rec[o].lockId \/ Known(row.lockId)
    BY <1>2
  <1>4. Leased(row).status = "leased" /\ Leased(row).lockId = row.lockId
    BY LeasedType
  <1> QED BY <1>1, <1>2, <1>3, <1>4 DEF RowsStep, CompletedStays, CompletesClosed, LocksMove

\* commit_observation: only the holder of a lease commits, so the work is not completed; it
\* completes with the release of the lock it names.
LEMMA RowsCommit ==
  ASSUME ClosedInv, NEW o \in Ops, NEW g, NEW from, NEW to \in OperationStatuses \cup {"none"},
         NEW item \in RecRows, NEW release \in BOOLEAN,
         MayCommit(o, g, from, to, release),
         \E row : op' = [op EXCEPT ![o] = row] /\ row.status = to,
         rec' = [rec EXCEPT ![o] = item],
         lock' = IF release THEN [lock EXCEPT ![VmOf[o]] = Free] ELSE lock,
         item.lockId = rec[o].lockId,
         item.status = "completed" => release /\ to \in TerminalStatuses
  PROVE  RowsStep
  <1>1. rec[o].status # "completed" /\ (release => rec[o].lockId # Free)
    BY DEF MayCommit, LeaseOwned, ExactLock
  <1>2. PICK row : op' = [op EXCEPT ![o] = row] /\ row.status = to
    OBVIOUS
  <1>3. CompletedStays
    BY <1>1, <1>2, ClosedRows DEF CompletedStays
  <1>4. CompletesClosed
    BY <1>1, <1>2, ClosedRows DEF CompletesClosed
  <1>5. LocksMove
    BY ClosedRows DEF LocksMove
  <1> QED BY <1>3, <1>4, <1>5 DEF RowsStep

\* The rows a commit writes keep the recorded lock, and only "completed" completes.
LEMMA ItemLock ==
  ASSUME ClosedInv, NEW o \in Ops
  PROVE  /\ Kept(o).lockId = rec[o].lockId /\ Kept(o).status = rec[o].status
         /\ [Kept(o) EXCEPT !.phase = "dispatched"].lockId = rec[o].lockId
         /\ [Kept(o) EXCEPT !.phase = "dispatched"].status = rec[o].status
         /\ [Kept(o) EXCEPT !.upid = TRUE].lockId = rec[o].lockId
         /\ [Kept(o) EXCEPT !.upid = TRUE].status = rec[o].status
         /\ \A s \in RecoveryStatuses, b \in BOOLEAN :
              Ended(o, s, b).lockId = rec[o].lockId /\ Ended(o, s, b).status = s
  <1>1. rec[o] \in RecRows
    BY ClosedRows
  <1> QED BY <1>1 DEF Kept, Ended, RecRows

\* A commit after which the work goes on or waits.
LEMMA RowsCommitOpen ==
  ASSUME ClosedInv, NEW o \in Ops, NEW g, NEW from, NEW to \in OperationStatuses \cup {"none"},
         NEW item, Commit(o, g, from, to, item, FALSE),
         \/ item \in {Kept(o), [Kept(o) EXCEPT !.phase = "dispatched"]}
         \/ \E s \in {"retry_wait", "paused"}, b \in BOOLEAN : item = Ended(o, s, b)
  PROVE  RowsStep
  <1>1. item \in RecRows /\ item.lockId = rec[o].lockId /\ item.status # "completed"
    <2>1. rec[o].status = "leased"
      BY DEF Commit, MayCommit, LeaseOwned
    <2>2. /\ Kept(o) \in RecRows /\ [Kept(o) EXCEPT !.phase = "dispatched"] \in RecRows
          /\ \A s \in RecoveryStatuses, b \in BOOLEAN : Ended(o, s, b) \in RecRows
      BY ClosedRows, RowTypes
    <2>3. CASE item \in {Kept(o), [Kept(o) EXCEPT !.phase = "dispatched"]}
      BY <2>1, <2>2, <2>3, ItemLock
    <2>4. CASE \E s \in {"retry_wait", "paused"}, b \in BOOLEAN : item = Ended(o, s, b)
      <3>1. PICK s \in {"retry_wait", "paused"}, b \in BOOLEAN : item = Ended(o, s, b)
        BY <2>4
      <3>2. s \in RecoveryStatuses /\ s # "completed"
        BY DEF RecoveryStatuses
      <3>3. Ended(o, s, b).lockId = rec[o].lockId /\ Ended(o, s, b).status = s
        BY <3>2, ItemLock
      <3> QED BY <2>2, <3>1, <3>2, <3>3
    <2> QED BY <2>3, <2>4
  <1>2. Moved(op[o], to).status = to
    BY ClosedRows, MovedType
  <1>3. \E row : op' = [op EXCEPT ![o] = row] /\ row.status = to
    BY <1>2 DEF Commit
  <1>4. MayCommit(o, g, from, to, FALSE) /\ rec' = [rec EXCEPT ![o] = item] /\ lock' = lock
    BY DEF Commit
  <1> QED BY <1>1, <1>3, <1>4, RowsCommit

\* Completing work: with the release of its lock, and a terminal status.
LEMMA RowsCommitCompleted ==
  ASSUME ClosedInv, NEW o \in Ops, NEW g, NEW from, NEW to \in TerminalStatuses,
         Commit(o, g, from, to, Ended(o, "completed", FALSE), TRUE)
  PROVE  RowsStep
  <1> DEFINE item == Ended(o, "completed", FALSE)
  <1>1. item \in RecRows /\ item.lockId = rec[o].lockId
    BY ClosedRows, RowTypes, ItemLock, StatusNames
  <1>2. to \in OperationStatuses \cup {"none"}
    BY DEF TerminalStatuses, OperationStatuses
  <1>3. Moved(op[o], to).status = to
    BY <1>2, ClosedRows, MovedType
  <1>4. \E row : op' = [op EXCEPT ![o] = row] /\ row.status = to
    BY <1>3 DEF Commit
  <1>5. MayCommit(o, g, from, to, TRUE) /\ rec' = [rec EXCEPT ![o] = item]
        /\ lock' = [lock EXCEPT ![VmOf[o]] = Free]
    BY DEF Commit
  <1> HIDE DEF item
  <1> QED BY <1>1, <1>2, <1>4, <1>5, RowsCommit

-----------------------------------------------------------------------------
(* The threads move like this. *)

\* Threads that stand still.
LEMMA ThreadsRest ==
  ASSUME ClosedInv
  PROVE  /\ req' = req => RequestsMove
         /\ obs' = obs => ObserversMove
  <1>1. ASSUME req' = req PROVE RequestsMove
    BY <1>1 DEF ClosedInv, Closed, RequestsMove, RequestVerdict, Begun
  <1>2. ASSUME obs' = obs PROVE ObserversMove
    BY <1>2 DEF ClosedInv, Closed, ObserversMove, ObserverVerdict, ObserverAt
  <1> QED BY <1>1, <1>2

\* One request moves on, with a verdict where it needs one.
LEMMA RequestMoves ==
  ASSUME ClosedInv, NEW r \in Requests, NEW t, req' = [req EXCEPT ![r] = t],
         Begun(r) => t.pc \notin {"start", "prepare", "acquire"},
         t.seen = req[r].seen \/ Known(t.seen),
         t.pc \in {"commitVerifying", "artifact"} => t.saw \in {"succeeded", "failed", "reconcile"},
         t.pc \in {"commitTerminal", "terminalJob", "finish"} => t.saw \in {"succeeded", "failed"}
  PROVE  RequestsMove
  BY ClosedRows DEF ClosedInv, Closed, RequestsMove, RequestVerdict, Begun

\* A request that goes on keeps what it read; one that ends forgets it.
LEMMA GotoMoves ==
  ASSUME ClosedInv, NEW r \in Requests, NEW pc \in RequestPcs, Goto(r, pc),
         Begun(r) => pc \notin {"start", "prepare", "acquire"},
         pc = "artifact" => req[r].saw \in {"succeeded", "failed", "reconcile"},
         pc \in {"commitTerminal", "terminalJob", "finish"} => req[r].saw \in {"succeeded", "failed"},
         pc # "commitVerifying"
  PROVE  RequestsMove
  <1>1. CASE pc \in {"done", "crashed"}
    <2>1. req' = [req EXCEPT ![r] = Thread(pc)]
      BY <1>1 DEF Goto
    <2>2. Thread(pc).pc = pc /\ Thread(pc).seen = Free
      BY DEF Thread
    <2>3. Known(Thread(pc).seen)
      BY <2>2 DEF Known
    <2> QED BY <1>1, <2>1, <2>2, <2>3, RequestMoves
  <1>2. CASE pc \notin {"done", "crashed"}
    <2> DEFINE t == [req[r] EXCEPT !.pc = pc]
    <2>1. req' = [req EXCEPT ![r] = t]
      BY <1>2 DEF Goto
    <2>2. t.pc = pc /\ t.seen = req[r].seen /\ t.saw = req[r].saw
      BY ClosedRows DEF Threads
    <2> HIDE DEF t
    <2> QED BY <2>1, <2>2, RequestMoves
  <1> QED BY <1>1, <1>2

\* One observer moves on.
LEMMA ObserverMoves ==
  ASSUME ClosedInv, NEW w \in Observers, NEW t, obs' = [obs EXCEPT ![w] = t],
         t.seen = obs[w].seen \/ Known(t.seen),
         t.pc = "bind" =>
           /\ t.next \in {"closeUnsent", "project", "pauseMissing", "pauseBinding", "observeTask"}
           /\ t.next = "project" => t.status \in {"succeeded", "failed"},
         t.pc = "project" => t.status \in {"succeeded", "failed"}
  PROVE  ObserversMove
  BY ClosedRows DEF ClosedInv, Closed, ObserversMove, ObserverVerdict, ObserverAt

\* An observer that gives up holds nothing.
LEMMA RestMoves ==
  ASSUME ClosedInv, NEW w \in Observers, Rest(w)
  PROVE  ObserversMove
  <1>1. \A pc \in {"idle", "registered", "done"} :
          /\ Observer(pc).pc = pc /\ Observer(pc).seen = Free
          /\ \A o \in Ops : /\ [Observer(pc) EXCEPT !.o = o].pc = pc
                            /\ [Observer(pc) EXCEPT !.o = o].seen = Free
    BY DEF Observer
  <1>2. obs[w].o \in Ops
    BY ClosedRows DEF ObserverRows
  <1>3. \E t : obs' = [obs EXCEPT ![w] = t] /\ t.seen = Free /\ t.pc \in {"idle", "registered", "done"}
    BY <1>1, <1>2, ClosedRows DEF Rest
  <1>4. Known(Free)
    BY DEF Known
  <1> QED BY <1>3, <1>4, ObserverMoves

\* An observer that goes on to a place where it needs no verdict.
LEMMA AdvanceMoves ==
  ASSUME ClosedInv, NEW w \in Observers, NEW pc \in ObserverPcs, Advance(w, pc), pc # "bind",
         pc = "project" => obs[w].status \in {"succeeded", "failed"}
  PROVE  ObserversMove
  <1> DEFINE t == [obs[w] EXCEPT !.pc = pc]
  <1>1. obs' = [obs EXCEPT ![w] = t]
    BY DEF Advance
  <1>2. t.pc = pc /\ t.seen = obs[w].seen /\ t.status = obs[w].status
    BY ClosedRows DEF ObserverRows
  <1> HIDE DEF t
  <1> QED BY <1>1, <1>2, ObserverMoves

-----------------------------------------------------------------------------
(* The foreground threads. *)

\* Steps before the dispatch checkpoint.
LEMMA UnsentMoves ==
  ASSUME ClosedInv, NEW r \in Requests,
         \/ LookupJob(r) \/ PrepareOperation(r) \/ AcquireTarget(r) \/ TargetLockBusy(r)
         \/ ResolveBusy(r) \/ RecordConflict(r) \/ RecheckUnderLock(r) \/ RecordPrecheck(r)
         \/ Precheck(r) \/ AbandonUnsent(r) \/ BlockOperation(r) \/ RecordBlocked(r)
         \/ OpenMutationClient(r) \/ RecordStart(r) \/ RegisterRecovery(r)
         \/ RecordUnsentFailure(r) \/ CloseUnsentFailure(r) \/ ReleaseTarget(r)
         \/ ClaimReplay(r) \/ CommitReplay(r)
  PROVE  RowsStep /\ RequestsMove
  <1> DEFINE o == OpOf[r]
  <1>1. o \in Ops /\ req[r] \in Threads /\ r \in LockIds /\ r # Free /\ req[r].seen \in LockIds
    BY ClosedRows DEF LockIds, Threads
  <1>2. Known(req[r].seen) /\ Known(lock[VmOf[o]]) /\ Known(Free)
    BY <1>1 DEF ClosedInv, Closed, LocksKnown, Known
  <1>3. \A pc \in {"conflict", "closeClaim", "closeCommit", "done", "busy"} \cup UnsentPcs :
          /\ pc \in RequestPcs /\ pc \notin {"start", "prepare", "acquire"}
          /\ pc \notin {"commitVerifying", "artifact", "commitTerminal", "terminalJob", "finish"}
    BY DEF RequestPcs, UnsentPcs
  \* A request that goes to one of these places moves as it should.
  <1>4. ASSUME NEW pc \in {"conflict", "closeClaim", "closeCommit", "done", "busy"} \cup UnsentPcs,
               Goto(r, pc)
        PROVE  RequestsMove
    BY <1>3, <1>4, GotoMoves
  <1>5. CASE LookupJob(r)
    <2>1. ~Begun(r) /\ UNCHANGED <<op, rec, lock>>
      BY <1>5 DEF LookupJob, Begun, At, coordination
    <2>2. Goto(r, "prepare") \/ Goto(r, "done")
      BY <1>5 DEF LookupJob
    <2>3. "prepare" \in RequestPcs
      BY DEF RequestPcs
    <2> QED BY <1>4, <2>1, <2>2, <2>3, RowsRest, GotoMoves
  <1>6. CASE PrepareOperation(r)
    <2>1. ~Begun(r) /\ UNCHANGED <<rec, lock>>
      BY <1>6 DEF PrepareOperation, Begun, At
    <2>2. Goto(r, "acquire") \/ Goto(r, "done")
      BY <1>6 DEF PrepareOperation
    <2>3. "acquire" \in RequestPcs
      BY DEF RequestPcs
    <2>4. op' = op \/ (op' = [op EXCEPT ![o] = Moved(op[o], "planned")] /\ op[o].status = "none")
      BY <1>6 DEF PrepareOperation, CreateOperation
    <2> QED BY <1>1, <1>4, <2>1, <2>2, <2>3, <2>4, RowsOperation, GotoMoves
  <1>7. CASE AcquireTarget(r)
    <2>1. ~Begun(r) /\ Acquire(r) /\ Goto(r, "recheck") /\ UNCHANGED <<op, rec>>
      BY <1>7 DEF AcquireTarget, Begun, At
    <2>2. Begun(r)'
      BY <2>1, ClosedRows DEF Goto, Begun, Threads
    <2> QED BY <1>4, <2>1, <2>2, RowsAcquire DEF UnsentPcs
  <1>8. CASE TargetLockBusy(r)
    <2>1. PICK l \in {lock[VmOf[o]], Free} : req' = [req EXCEPT ![r].pc = "busy", ![r].seen = l]
      BY <1>8 DEF TargetLockBusy
    <2> DEFINE t == [req[r] EXCEPT !.pc = "busy", !.seen = l]
    <2>2. req' = [req EXCEPT ![r] = t] /\ t.pc = "busy" /\ t.seen = l
      BY <1>1, <2>1 DEF Threads
    <2> HIDE DEF t
    <2>3. RequestsMove
      BY <1>2, <2>1, <2>2, RequestMoves
    <2> QED BY <1>8, <2>3, RowsRest DEF TargetLockBusy, coordination
  <1>9. CASE ResolveBusy(r)
    <2>1. CASE Goto(r, "done")
      BY <1>4, <1>9, <2>1, RowsRest DEF ResolveBusy, coordination
    <2>2. CASE \E pc \in {"conflict", "closeClaim"}, s \in {"none", "failed"} :
                 req' = [req EXCEPT ![r].pc = pc, ![r].version = op[o].version, ![r].saw = s]
      <3>1. PICK pc \in {"conflict", "closeClaim"}, s \in {"none", "failed"} :
              req' = [req EXCEPT ![r].pc = pc, ![r].version = op[o].version, ![r].saw = s]
        BY <2>2
      <3> DEFINE t == [req[r] EXCEPT !.pc = pc, !.version = op[o].version, !.saw = s]
      <3>2. req' = [req EXCEPT ![r] = t] /\ t.pc = pc /\ t.seen = req[r].seen
        BY <1>1, <3>1 DEF Threads
      <3> HIDE DEF t
      <3>3. RequestsMove
        BY <3>2, RequestMoves
      <3> QED BY <1>9, <3>3, RowsRest DEF ResolveBusy, coordination
    <2> QED BY <1>9, <2>1, <2>2 DEF ResolveBusy
  <1>10. CASE RecordConflict(r)
    <2>1. \E row : op' = op \/ (op' = [op EXCEPT ![o] = row] /\ op[o].status = "planned")
      BY <1>10 DEF RecordConflict, CloseOnConflict
    <2> QED BY <1>1, <1>4, <1>10, <2>1, RowsOperation DEF RecordConflict
  <1>11. CASE RecheckUnderLock(r)
    <2>1. CASE \E pc \in {"release", "recordPrecheck"} : Goto(r, pc)
      BY <1>4, <1>11, <2>1, RowsRest DEF RecheckUnderLock, coordination, UnsentPcs
    <2>2. CASE req' = [req EXCEPT ![r].pc = "closeClaim", ![r].version = op[o].version, ![r].seen = r]
      <3> DEFINE t == [req[r] EXCEPT !.pc = "closeClaim", !.version = op[o].version, !.seen = r]
      <3>1. req' = [req EXCEPT ![r] = t] /\ t.pc = "closeClaim" /\ t.seen = r
        BY <1>1, <2>2 DEF Threads
      <3>2. Known(r)
        BY <1>11 DEF RecheckUnderLock, At, Known, Begun
      <3> HIDE DEF t
      <3>3. RequestsMove
        BY <3>1, <3>2, RequestMoves
      <3> QED BY <1>11, <3>3, RowsRest DEF RecheckUnderLock, coordination
    <2> QED BY <1>11, <2>1, <2>2 DEF RecheckUnderLock
  <1>12. CASE \/ RecordPrecheck(r) \/ RecordStart(r) \/ RecordBlocked(r) \/ RecordUnsentFailure(r)
              \/ Precheck(r) \/ AbandonUnsent(r) \/ OpenMutationClient(r)
    <2>1. PICK pc \in UnsentPcs : Goto(r, pc)
      BY <1>12 DEF RecordPrecheck, RecordStart, RecordBlocked, RecordUnsentFailure, Precheck,
                   AbandonUnsent, OpenMutationClient, UnsentPcs
    <2>2. UNCHANGED <<op, rec, lock>>
      BY <1>12 DEF RecordPrecheck, RecordStart, RecordBlocked, RecordUnsentFailure, Precheck,
                   AbandonUnsent, OpenMutationClient, coordination
    <2> QED BY <1>4, <2>1, <2>2, RowsRest
  <1>13. CASE BlockOperation(r) \/ CloseUnsentFailure(r)
    <2>1. \E row : op' = op \/ (op' = [op EXCEPT ![o] = row] /\ op[o].status = "planned")
      BY <1>13 DEF BlockOperation, CloseUnsentFailure, CloseUnsent
    <2>2. \E pc \in {"blockJob", "release", "done"} : Goto(r, pc)
      BY <1>13 DEF BlockOperation, CloseUnsentFailure
    <2>3. UNCHANGED <<rec, lock>>
      BY <1>13 DEF BlockOperation, CloseUnsentFailure
    <2> QED BY <1>1, <1>4, <2>1, <2>2, <2>3, RowsOperation DEF UnsentPcs
  <1>14. CASE RegisterRecovery(r)
    <2>1. CASE PrepareAndClaim(o, r, FALSE)
               /\ req' = [req EXCEPT ![r].pc = "commitDispatch", ![r].gen = rec'[o].gen]
      <3> DEFINE t == [req[r] EXCEPT !.pc = "commitDispatch", !.gen = rec'[o].gen]
      <3>1. req' = [req EXCEPT ![r] = t] /\ t.pc = "commitDispatch" /\ t.seen = req[r].seen
        BY <1>1, <2>1 DEF Threads
      <3>2. Known(r)
        BY <1>14 DEF RegisterRecovery, At, Known, Begun
      <3>3. \E l \in LockIds, m \in BOOLEAN : Known(l) /\ PrepareAndClaim(o, l, m)
        BY <1>1, <2>1, <3>2
      <3> HIDE DEF t
      <3>4. RequestsMove
        BY <3>1, RequestMoves
      <3> QED BY <1>1, <1>14, <3>3, <3>4, RowsClaim DEF RegisterRecovery
    <2>2. CASE Goto(r, "failJob") /\ UNCHANGED rec
      BY <1>4, <1>14, <2>2, RowsRest DEF RegisterRecovery, UnsentPcs
    <2> QED BY <1>14, <2>1, <2>2 DEF RegisterRecovery
  <1>15. CASE ReleaseTarget(r)
    BY <1>4, <1>15, RowsRelease DEF ReleaseTarget
  <1>16. CASE ClaimReplay(r)
    <2>1. CASE PrepareAndClaim(o, req[r].seen, FALSE)
               /\ req' = [req EXCEPT ![r].pc = "closeCommit", ![r].gen = rec'[o].gen]
      <3> DEFINE t == [req[r] EXCEPT !.pc = "closeCommit", !.gen = rec'[o].gen]
      <3>1. req' = [req EXCEPT ![r] = t] /\ t.pc = "closeCommit" /\ t.seen = req[r].seen
        BY <1>1, <2>1 DEF Threads
      <3>2. \E l \in LockIds, m \in BOOLEAN : Known(l) /\ PrepareAndClaim(o, l, m)
        BY <1>1, <1>2, <2>1
      <3> HIDE DEF t
      <3>3. RequestsMove
        BY <3>1, RequestMoves
      <3> QED BY <1>1, <1>16, <3>2, <3>3, RowsClaim DEF ClaimReplay
    <2>2. CASE Goto(r, "done") /\ UNCHANGED rec
      BY <1>4, <1>16, <2>2, RowsRest DEF ClaimReplay
    <2> QED BY <1>16, <2>1, <2>2 DEF ClaimReplay
  <1>17. CASE CommitReplay(r)
    <2>1. CASE Commit(o, req[r].gen, {"planned"}, "failed", Ended(o, "completed", FALSE), TRUE)
      <3>1. "failed" \in TerminalStatuses
        BY DEF TerminalStatuses
      <3> QED BY <1>1, <1>4, <1>17, <2>1, <3>1, RowsCommitCompleted DEF CommitReplay
    <2>2. CASE UNCHANGED <<op, rec, lock>>
      BY <1>4, <1>17, <2>2, RowsRest DEF CommitReplay
    <2> QED BY <1>17, <2>1, <2>2 DEF CommitReplay
  <1> QED BY <1>5, <1>6, <1>7, <1>8, <1>9, <1>10, <1>11, <1>12, <1>13, <1>14, <1>15, <1>16, <1>17

\* A fenced commit of a request that leaves the work open, or the conflict that ends it.
LEMMA CommitOrStopMoves ==
  ASSUME ClosedInv, NEW r \in Requests, NEW from, NEW to \in OperationStatuses \cup {"none"}, NEW item,
         NEW next \in {"post", "artifact", "reconcileJob", "terminalJob", "done"},
         CommitOrStop(r, from, to, item, FALSE, next),
         \/ item \in {Kept(OpOf[r]), [Kept(OpOf[r]) EXCEPT !.phase = "dispatched"]}
         \/ \E s \in {"retry_wait", "paused"}, b \in BOOLEAN : item = Ended(OpOf[r], s, b),
         next = "artifact" => req[r].saw \in {"succeeded", "failed", "reconcile"},
         next = "terminalJob" => req[r].saw \in {"succeeded", "failed"}
  PROVE  RowsStep /\ RequestsMove
  <1>1. OpOf[r] \in Ops /\ next \in RequestPcs /\ "done" \in RequestPcs
    BY DEF RequestPcs, SentPcs
  <1>2. CASE Commit(OpOf[r], req[r].gen, from, to, item, FALSE) /\ Goto(r, next)
    BY <1>1, <1>2, RowsCommitOpen, GotoMoves
  <1>3. CASE Goto(r, "done") /\ UNCHANGED <<op, rec, lock>>
    BY <1>1, <1>3, RowsRest, GotoMoves
  <1> QED BY <1>2, <1>3 DEF CommitOrStop

\* Steps from the dispatch checkpoint on.
LEMMA SentMoves ==
  ASSUME ClosedInv, NEW r \in Requests,
         \/ CommitDispatching(r) \/ PostMutation(r) \/ CommitRejected(r) \/ CommitRunning(r)
         \/ RecordPoll(r) \/ PollTask(r) \/ ReadVmStatus(r) \/ CommitVerifying(r)
         \/ WriteArtifact(r) \/ RequireReconciliation(r) \/ RecordReconciliation(r)
         \/ CommitTerminal(r) \/ RecordTerminal(r) \/ HandOff(r) \/ FinishTerminal(r)
  PROVE  RowsStep /\ RequestsMove
  <1> DEFINE o == OpOf[r]
  <1>1. o \in Ops /\ req[r] \in Threads /\ RequestVerdict(r)
    BY ClosedRows DEF ClosedInv, Closed
  <1>2. \A pc \in SentPcs \cup {"done"} : pc \in RequestPcs /\ pc \notin {"start", "prepare", "acquire"}
    BY DEF RequestPcs, SentPcs
  \* A request that goes to one of these places needs no verdict.
  <1>3. ASSUME NEW pc \in {"commitRejected", "commitRunning", "ambiguous", "recordPoll", "poll",
                           "reconcile", "handoff", "done"},
               Goto(r, pc)
        PROVE  RequestsMove
    BY <1>2, <1>3, GotoMoves DEF SentPcs
  <1> USE StatusNames
  <1>4. CASE CommitDispatching(r)
    <2>1. CASE CommitOrStop(r, {"planned"}, "dispatching", [Kept(o) EXCEPT !.phase = "dispatched"],
                            FALSE, "post")
      BY <2>1, CommitOrStopMoves
    <2>2. CASE Goto(r, "done") /\ UNCHANGED <<op, rec, lock>>
      BY <1>3, <2>2, RowsRest
    <2> QED BY <1>4, <2>1, <2>2 DEF CommitDispatching
  <1>5. CASE PostMutation(r)
    BY <1>3, <1>5, RowsRest DEF PostMutation, coordination
  <1>6. CASE CommitRejected(r)
    <2>1. CASE /\ Commit(o, req[r].gen, {"dispatching"}, "failed", Kept(o), FALSE)
               /\ req' = [req EXCEPT ![r].pc = "terminalJob", ![r].saw = "failed"]
      <3> DEFINE t == [req[r] EXCEPT !.pc = "terminalJob", !.saw = "failed"]
      <3>1. req' = [req EXCEPT ![r] = t] /\ t.pc = "terminalJob" /\ t.seen = req[r].seen /\ t.saw = "failed"
        BY <1>1, <2>1 DEF Threads
      <3> HIDE DEF t
      <3>2. RequestsMove
        BY <3>1, RequestMoves
      <3> QED BY <1>1, <2>1, <3>2, RowsCommitOpen
    <2>2. CASE Goto(r, "done") /\ UNCHANGED <<op, rec, lock>>
      BY <1>3, <2>2, RowsRest
    <2> QED BY <1>6, <2>1, <2>2 DEF CommitRejected
  <1>7. CASE CommitRunning(r)
    <2>1. CASE UNCHANGED <<op, rec, lock>>
      BY <1>3, <1>7, <2>1, RowsRest DEF CommitRunning
    <2>2. CASE /\ MayCommit(o, req[r].gen, {"dispatching"}, "running", FALSE)
               /\ op' = [op EXCEPT ![o] = [Moved(op[o], "running") EXCEPT !.upid = TRUE]]
               /\ rec' = [rec EXCEPT ![o] = [Kept(o) EXCEPT !.upid = TRUE]]
               /\ lock' = lock
      <3> DEFINE row == [Moved(op[o], "running") EXCEPT !.upid = TRUE]
                 item == [Kept(o) EXCEPT !.upid = TRUE]
      <3>1. Moved(op[o], "running") \in OpRows /\ Moved(op[o], "running").status = "running"
        BY <1>1, ClosedRows, MovedType
      <3>2. row.status = "running"
        BY <3>1 DEF OpRows
      <3>3. rec[o].status = "leased"
        BY <2>2 DEF MayCommit, LeaseOwned
      <3>4. item \in RecRows /\ item.lockId = rec[o].lockId /\ item.status # "completed"
        <4>1. item.lockId = rec[o].lockId /\ item.status = rec[o].status
          BY <1>1, ItemLock
        <4>2. item \in RecRows
          BY <1>1, ClosedRows, RowTypes
        <4> HIDE DEF item
        <4> QED BY <3>3, <4>1, <4>2
      <3>5. op' = [op EXCEPT ![o] = row] /\ rec' = [rec EXCEPT ![o] = item]
        BY <2>2
      <3> HIDE DEF row, item
      <3>6. \E x : op' = [op EXCEPT ![o] = x] /\ x.status = "running"
        BY <3>2, <3>5
      <3>7. RowsStep
        BY <1>1, <2>2, <3>4, <3>5, <3>6, RowsCommit
      <3> QED BY <1>3, <1>7, <3>7 DEF CommitRunning
    <2> QED BY <1>7, <2>1, <2>2 DEF CommitRunning
  <1>8. CASE RecordPoll(r) \/ RecordReconciliation(r)
    BY <1>3, <1>8, RowsRest DEF RecordPoll, RecordReconciliation
  <1>9. CASE PollTask(r)
    <2>1. CASE Goto(r, "done")
      BY <1>3, <1>9, <2>1, RowsRest DEF PollTask, coordination
    <2>2. CASE \E s : req' = [req EXCEPT ![r].pc = "look", ![r].saw = s]
      <3>1. PICK s : req' = [req EXCEPT ![r].pc = "look", ![r].saw = s]
        BY <2>2
      <3> DEFINE t == [req[r] EXCEPT !.pc = "look", !.saw = s]
      <3>2. req' = [req EXCEPT ![r] = t] /\ t.pc = "look" /\ t.seen = req[r].seen
        BY <1>1, <3>1 DEF Threads
      <3> HIDE DEF t
      <3>3. RequestsMove
        BY <3>2, RequestMoves
      <3> QED BY <1>9, <3>3, RowsRest DEF PollTask, coordination
    <2> QED BY <1>9, <2>1, <2>2 DEF PollTask
  <1>10. CASE ReadVmStatus(r)
    <2>1. PICK s \in {"succeeded", "failed", "reconcile"} :
            req' = [req EXCEPT ![r].pc = "commitVerifying", ![r].saw = s]
      BY <1>10 DEF ReadVmStatus, Verdict
    <2> DEFINE t == [req[r] EXCEPT !.pc = "commitVerifying", !.saw = s]
    <2>2. req' = [req EXCEPT ![r] = t] /\ t.pc = "commitVerifying" /\ t.seen = req[r].seen /\ t.saw = s
      BY <1>1, <2>1 DEF Threads
    <2> HIDE DEF t
    <2>3. RequestsMove
      BY <2>2, RequestMoves
    <2> QED BY <1>10, <2>3, RowsRest DEF ReadVmStatus, coordination
  <1>11. CASE CommitVerifying(r)
    <2>1. req[r].saw \in {"succeeded", "failed", "reconcile"}
      BY <1>1, <1>11 DEF CommitVerifying, At, RequestVerdict
    <2> QED BY <1>11, <2>1, CommitOrStopMoves DEF CommitVerifying
  <1>12. CASE WriteArtifact(r)
    <2>1. \/ \E pc \in {"reconcile", "handoff"} : Goto(r, pc)
          \/ Goto(r, "commitTerminal") /\ req[r].saw \in {"succeeded", "failed"}
      BY <1>1, <1>12 DEF WriteArtifact, At, RequestVerdict
    <2>2. RequestsMove
      BY <1>2, <1>3, <2>1, GotoMoves DEF SentPcs
    <2> QED BY <1>12, <2>2, RowsRest DEF WriteArtifact, coordination
  <1>13. CASE RequireReconciliation(r)
    <2>1. CASE \E s \in {"retry_wait", "paused"} :
                 CommitOrStop(r, {"dispatching", "running", "verifying"}, "needs_reconciliation",
                              Ended(o, s, FALSE), FALSE, "reconcileJob")
      <3>1. PICK s \in {"retry_wait", "paused"} :
              CommitOrStop(r, {"dispatching", "running", "verifying"}, "needs_reconciliation",
                           Ended(o, s, FALSE), FALSE, "reconcileJob")
        BY <2>1
      <3> DEFINE item == Ended(o, s, FALSE)
      <3>2. \E x \in {"retry_wait", "paused"}, b \in BOOLEAN : item = Ended(o, x, b)
        OBVIOUS
      <3> HIDE DEF item
      <3> QED BY <3>1, <3>2, CommitOrStopMoves DEF item
    <2>2. CASE Goto(r, "done") /\ UNCHANGED <<op, rec, lock>>
      BY <1>3, <2>2, RowsRest
    <2> QED BY <1>13, <2>1, <2>2 DEF RequireReconciliation
  <1>14. CASE CommitTerminal(r)
    <2>1. req[r].saw \in {"succeeded", "failed"}
      BY <1>1, <1>14 DEF CommitTerminal, At, RequestVerdict
    <2> QED BY <1>14, <2>1, CommitOrStopMoves DEF CommitTerminal
  <1>15. CASE RecordTerminal(r)
    <2>1. req[r].saw \in {"succeeded", "failed"}
      BY <1>1, <1>15 DEF RecordTerminal, At, RequestVerdict
    <2>2. Goto(r, "finish") \/ Goto(r, "handoff")
      BY <1>15 DEF RecordTerminal
    <2>3. RequestsMove
      BY <1>2, <1>3, <2>1, <2>2, GotoMoves DEF SentPcs
    <2> QED BY <1>15, <2>3, RowsRest DEF RecordTerminal
  <1>16. CASE HandOff(r)
    <2> DEFINE to == IF op[o].status \in {"succeeded", "failed"} THEN op[o].status ELSE "needs_reconciliation"
    <2>1. CASE \E s \in {"retry_wait", "paused"}, b \in BOOLEAN :
                 CommitOrStop(r, {"dispatching", "verifying", "succeeded", "failed"}, to,
                              Ended(o, s, b), FALSE, "done")
      <3>1. to \in OperationStatuses \cup {"none"}
        OBVIOUS
      <3> HIDE DEF to
      <3>2. PICK s \in {"retry_wait", "paused"}, b \in BOOLEAN :
              CommitOrStop(r, {"dispatching", "verifying", "succeeded", "failed"}, to,
                           Ended(o, s, b), FALSE, "done")
        BY <2>1
      <3> DEFINE item == Ended(o, s, b)
      <3>3. \E x \in {"retry_wait", "paused"}, y \in BOOLEAN : item = Ended(o, x, y)
        OBVIOUS
      <3> HIDE DEF item
      <3> QED BY <3>1, <3>2, <3>3, CommitOrStopMoves DEF item
    <2>2. CASE Goto(r, "done") /\ UNCHANGED <<op, rec, lock>>
      BY <1>3, <2>2, RowsRest
    <2> QED BY <1>16, <2>1, <2>2 DEF HandOff
  <1>17. CASE FinishTerminal(r)
    <2>1. req[r].saw \in {"succeeded", "failed"}
      BY <1>1, <1>17 DEF FinishTerminal, At, RequestVerdict
    <2>2. CASE Commit(o, req[r].gen, {req[r].saw}, req[r].saw, Ended(o, "completed", FALSE), TRUE)
               /\ Goto(r, "done")
      <3>1. req[r].saw \in TerminalStatuses
        BY <2>1 DEF TerminalStatuses
      <3>2. RowsStep
        BY <1>1, <2>2, <3>1, RowsCommitCompleted
      <3> QED BY <1>3, <2>2, <3>2
    <2>3. CASE Goto(r, "done") /\ UNCHANGED <<op, rec, lock>>
      BY <1>3, <2>3, RowsRest
    <2> QED BY <1>17, <2>2, <2>3 DEF FinishTerminal, CommitOrStop
  <1> QED BY <1>4, <1>5, <1>6, <1>7, <1>8, <1>9, <1>10, <1>11, <1>12, <1>13, <1>14, <1>15, <1>16, <1>17

-----------------------------------------------------------------------------
(* The observers. *)

\* Claiming, and losing a claim.
LEMMA ClaimingMoves ==
  ASSUME ClosedInv, NEW w \in Observers,
         \/ ClaimDueWork(w) \/ RequestObservation(w) \/ RepeatObservation(w)
         \/ ClaimObservation(w) \/ RecordRequest(w) \/ LeaseLost(w) \/ ObserverCrashes(w)
  PROVE  RowsStep /\ ObserversMove
  <1>1. /\ obs[w] \in ObserverRows /\ obs[w].o \in Ops /\ obs[w].seen \in LockIds
        /\ obs[w].status \in OperationStatuses \cup {"none"}
        /\ Known(obs[w].seen) /\ Known(Free)
        /\ \A o \in Ops : Known(lock[VmOf[o]])
    BY ClosedRows DEF ObserverRows, ClosedInv, Closed, LocksKnown, Known
  <1>2. CASE ClaimDueWork(w)
    <2>1. PICK o \in Ops : ClaimDue(o)
                           /\ obs' = [obs EXCEPT ![w].pc = "load", ![w].o = o, ![w].gen = rec'[o].gen]
      BY <1>2 DEF ClaimDueWork
    <2> DEFINE t == [obs[w] EXCEPT !.pc = "load", !.o = o, !.gen = rec'[o].gen]
    <2>2. obs' = [obs EXCEPT ![w] = t] /\ t.pc = "load" /\ t.seen = obs[w].seen
      BY <1>1, <2>1 DEF ObserverRows
    <2> HIDE DEF t
    <2>3. ObserversMove
      BY <2>2, ObserverMoves
    <2> QED BY <1>2, <2>1, <2>3, RowsClaim DEF ClaimDueWork
  <1>3. CASE RequestObservation(w)
    <2>1. PICK o \in Ops, pc \in {"prepare", "claim"} :
            obs' = [obs EXCEPT ![w].pc = pc, ![w].o = o, ![w].status = op[o].status,
                               ![w].version = op[o].version, ![w].seen = lock[VmOf[o]]]
      BY <1>3 DEF RequestObservation
    <2> DEFINE t == [obs[w] EXCEPT !.pc = pc, !.o = o, !.status = op[o].status,
                                   !.version = op[o].version, !.seen = lock[VmOf[o]]]
    <2>2. obs' = [obs EXCEPT ![w] = t] /\ t.pc = pc /\ t.seen = lock[VmOf[o]]
      BY <1>1, <2>1 DEF ObserverRows
    <2> HIDE DEF t
    <2>3. ObserversMove
      BY <1>1, <2>2, ObserverMoves
    <2> QED BY <1>3, <2>3, RowsRest DEF RequestObservation, coordination
  <1>4. CASE RepeatObservation(w)
    <2> DEFINE t == [obs[w] EXCEPT !.pc = "repeat", !.version = op[obs[w].o].version]
    <2>1. obs' = [obs EXCEPT ![w] = t] /\ t.pc = "repeat" /\ t.seen = obs[w].seen
      BY <1>1, <1>4 DEF RepeatObservation, ObserverRows
    <2> HIDE DEF t
    <2>2. ObserversMove
      BY <2>1, ObserverMoves
    <2> QED BY <1>4, <2>2, RowsRest DEF RepeatObservation, coordination
  <1>5. CASE ClaimObservation(w)
    <2> DEFINE o == obs[w].o
    <2>1. CASE Rest(w) /\ UNCHANGED rec
      BY <1>5, <2>1, RestMoves, RowsRest DEF ClaimObservation
    <2>2. CASE /\ PrepareAndClaim(o, obs[w].seen, obs[w].status \in {"failed", "blocked"})
                  \/ ClaimOperation(o)
               /\ \E pc \in {"load", "request"} : obs' = [obs EXCEPT ![w].pc = pc, ![w].gen = rec'[o].gen]
      <3>1. PICK pc \in {"load", "request"} : obs' = [obs EXCEPT ![w].pc = pc, ![w].gen = rec'[o].gen]
        BY <2>2
      <3> DEFINE t == [obs[w] EXCEPT !.pc = pc, !.gen = rec'[o].gen]
      <3>2. obs' = [obs EXCEPT ![w] = t] /\ t.pc = pc /\ t.seen = obs[w].seen
        BY <1>1, <3>1 DEF ObserverRows
      <3> HIDE DEF t
      <3>3. ObserversMove
        BY <3>2, ObserverMoves
      <3>4. (\E l \in LockIds, m \in BOOLEAN : Known(l) /\ PrepareAndClaim(o, l, m)) \/ ClaimOperation(o)
        <4> DEFINE m == obs[w].status \in {"failed", "blocked"}
        <4>1. m \in BOOLEAN
          OBVIOUS
        <4>2. PrepareAndClaim(o, obs[w].seen, m) \/ ClaimOperation(o)
          BY <2>2
        <4> HIDE DEF m
        <4> QED BY <1>1, <4>1, <4>2
      <3> QED BY <1>1, <1>5, <3>3, <3>4, RowsClaim DEF ClaimObservation
    <2> QED BY <1>5, <2>1, <2>2 DEF ClaimObservation
  <1>6. CASE RecordRequest(w)
    <2> DEFINE o == obs[w].o
               st == obs[w].status
    <2>1. CASE /\ Commit(o, obs[w].gen, {st}, st, Kept(o), FALSE)
               /\ obs' = [obs EXCEPT ![w] = [Observer("load") EXCEPT !.o = o, !.gen = obs[w].gen]]
      <3> DEFINE t == [Observer("load") EXCEPT !.o = o, !.gen = obs[w].gen]
      <3>1. obs' = [obs EXCEPT ![w] = t] /\ t.pc = "load" /\ t.seen = Free
        BY <2>1 DEF Observer
      <3> HIDE DEF t
      <3>2. ObserversMove
        BY <1>1, <3>1, ObserverMoves
      <3>3. RowsStep
        BY <1>1, <2>1, RowsCommitOpen
      <3> QED BY <3>2, <3>3
    <2>2. CASE Rest(w) /\ UNCHANGED <<op, rec, lock>>
      BY <2>2, RestMoves, RowsRest
    <2> QED BY <1>6, <2>1, <2>2 DEF RecordRequest
  <1>7. CASE LeaseLost(w)
    BY <1>7, RestMoves, RowsRest DEF LeaseLost, coordination
  <1>8. CASE ObserverCrashes(w)
    BY <1>8, RestMoves, RowsRest DEF ObserverCrashes, coordination
  <1> QED BY <1>2, <1>3, <1>4, <1>5, <1>6, <1>7, <1>8

\* What an observer that reads or decides still remembers.
LEMMA ObserverFields ==
  ASSUME NEW t \in ObserverRows, NEW pc, NEW x, NEW y
  PROVE  /\ [t EXCEPT !.pc = pc, !.saw = x].pc = pc
         /\ [t EXCEPT !.pc = pc, !.saw = x].seen = t.seen
         /\ [t EXCEPT !.pc = pc, !.status = x].pc = pc
         /\ [t EXCEPT !.pc = pc, !.status = x].seen = t.seen
         /\ [t EXCEPT !.pc = pc, !.status = x].status = x
         /\ [t EXCEPT !.pc = pc, !.status = x, !.next = y].pc = pc
         /\ [t EXCEPT !.pc = pc, !.status = x, !.next = y].seen = t.seen
         /\ [t EXCEPT !.pc = pc, !.status = x, !.next = y].status = x
         /\ [t EXCEPT !.pc = pc, !.status = x, !.next = y].next = y
  BY DEF ObserverRows

\* The handlers.
LEMMA HandlerMoves ==
  ASSUME ClosedInv, NEW w \in Observers,
         \/ LoadOperation(w) \/ ValidateBinding(w) \/ PauseBindingFailure(w) \/ PauseMissingTask(w)
         \/ CompleteUnsent(w) \/ CompleteProjection(w) \/ ObserveTask(w) \/ ObserveVm(w)
         \/ RetryTask(w) \/ AdvanceToVerifying(w) \/ RecordOutcome(w) \/ PauseMismatch(w)
         \/ AbsorbException(w)
  PROVE  RowsStep /\ ObserversMove
  <1> DEFINE o == obs[w].o
             st == obs[w].status
  <1>1. /\ obs[w] \in ObserverRows /\ o \in Ops /\ ObserverVerdict(w)
        /\ st \in OperationStatuses \cup {"none"}
        /\ op[o].status \in OperationStatuses \cup {"none"}
    BY ClosedRows, RowTypes DEF ObserverRows, ClosedInv, Closed
  <1>2. /\ Reconciled(w) \in OperationStatuses \cup {"none"}
        /\ RetryStatus(o) \in {"retry_wait", "paused"}
    BY <1>1, StatusNames DEF Reconciled, RetryStatus
  <1> USE ObserverPlaces
  \* A handler's commit that leaves the work open.
  <1>3. ASSUME NEW to \in OperationStatuses \cup {"none"}, NEW item, HandlerCommit(w, to, item, FALSE),
               \/ item = Kept(o)
               \/ \E s \in {"retry_wait", "paused"}, b \in BOOLEAN : item = Ended(o, s, b)
        PROVE  RowsStep
    BY <1>1, <1>3, RowsCommitOpen DEF HandlerCommit
  \* The exception of a commit that failed.
  <1>4. ASSUME NEW to, NEW release, HandlerConflict(w, to, release)
        PROVE  RowsStep /\ ObserversMove
    BY <1>4, RowsRest, AdvanceMoves DEF HandlerConflict
  <1>5. ASSUME NEW to \in OperationStatuses \cup {"none"}, NEW s \in {"retry_wait", "paused"},
               NEW b \in BOOLEAN, HandlerCommit(w, to, Ended(o, s, b), FALSE), Rest(w)
        PROVE  RowsStep /\ ObserversMove
    <2> DEFINE item == Ended(o, s, b)
    <2>1. HandlerCommit(w, to, item, FALSE)
          /\ \E x \in {"retry_wait", "paused"}, y \in BOOLEAN : item = Ended(o, x, y)
      BY <1>5
    <2> HIDE DEF item
    <2> QED BY <1>3, <1>5, <2>1, RestMoves
  <1>6. CASE LoadOperation(w)
    <2>1. CASE Advance(w, "excepted")
      BY <1>6, <2>1, RowsRest, AdvanceMoves DEF LoadOperation, coordination
    <2>2. CASE obs' = [obs EXCEPT ![w].pc = "bind", ![w].status = op[o].status,
                         ![w].next = IF op[o].upid = rec[o].upid THEN Course(o) ELSE "pauseBinding"]
      <3> DEFINE next == IF op[o].upid = rec[o].upid THEN Course(o) ELSE "pauseBinding"
      <3>1. /\ next \in {"closeUnsent", "project", "pauseMissing", "pauseBinding", "observeTask"}
            /\ next = "project" => op[o].status \in {"succeeded", "failed"}
        BY DEF Course
      <3> HIDE DEF next
      <3> DEFINE t == [obs[w] EXCEPT !.pc = "bind", !.status = op[o].status, !.next = next]
      <3>2. obs' = [obs EXCEPT ![w] = t]
        BY <2>2 DEF next
      <3>3. t.pc = "bind" /\ t.seen = obs[w].seen /\ t.next = next /\ t.status = op[o].status
        BY <1>1, ObserverFields
      <3> HIDE DEF t
      <3>4. ObserversMove
        BY <3>1, <3>2, <3>3, ObserverMoves
      <3> QED BY <1>6, <3>4, RowsRest DEF LoadOperation, coordination
    <2> QED BY <1>6, <2>1, <2>2 DEF LoadOperation
  <1>7. CASE ValidateBinding(w)
    <2>1. obs[w].next \in {"closeUnsent", "project", "pauseMissing", "pauseBinding", "observeTask"}
          /\ (obs[w].next = "project" => st \in {"succeeded", "failed"})
      BY <1>1, <1>7 DEF ValidateBinding, Handling, ObserverVerdict
    <2>2. \E pc \in {"closeUnsent", "project", "pauseMissing", "pauseBinding", "observeTask"} :
            Advance(w, pc) /\ (pc = "project" => st \in {"succeeded", "failed"})
      BY <1>7, <2>1 DEF ValidateBinding
    <2>3. ObserversMove
      BY <2>2, AdvanceMoves
    <2> QED BY <1>7, <2>3, RowsRest DEF ValidateBinding, coordination
  <1>8. CASE PauseBindingFailure(w)
    BY <1>2, <1>4, <1>5, <1>8 DEF PauseBindingFailure
  <1>9. CASE PauseMissingTask(w)
    BY <1>2, <1>4, <1>5, <1>9 DEF PauseMissingTask
  <1>10. CASE CompleteUnsent(w)
    <2>1. PICK to \in {"failed", "blocked"} :
            \/ HandlerCommit(w, to, Ended(o, "completed", FALSE), TRUE) /\ Rest(w)
            \/ HandlerConflict(w, to, TRUE)
      BY <1>10 DEF CompleteUnsent
    <2>2. to \in TerminalStatuses
      BY DEF TerminalStatuses
    <2>3. CASE HandlerCommit(w, to, Ended(o, "completed", FALSE), TRUE) /\ Rest(w)
      BY <1>1, <2>2, <2>3, RowsCommitCompleted, RestMoves DEF HandlerCommit
    <2> QED BY <1>4, <2>1, <2>3
  <1>11. CASE CompleteProjection(w)
    <2>1. st \in TerminalStatuses
      BY <1>1, <1>11 DEF CompleteProjection, Handling, ObserverVerdict, TerminalStatuses
    <2>2. CASE HandlerCommit(w, st, Ended(o, "completed", FALSE), TRUE) /\ Rest(w)
      BY <1>1, <2>1, <2>2, RowsCommitCompleted, RestMoves DEF HandlerCommit
    <2>3. CASE Advance(w, "excepted") /\ UNCHANGED coordination
      BY <2>3, RowsRest, AdvanceMoves DEF coordination
    <2> QED BY <1>11, <2>2, <2>3 DEF CompleteProjection
  <1>12. CASE ObserveTask(w)
    <2>1. CASE obs' = [obs EXCEPT ![w].pc = "observeVm", ![w].saw = task[o]]
      <3> DEFINE t == [obs[w] EXCEPT !.pc = "observeVm", !.saw = task[o]]
      <3>1. obs' = [obs EXCEPT ![w] = t]
        BY <2>1
      <3>2. t.pc = "observeVm" /\ t.seen = obs[w].seen
        BY <1>1, ObserverFields
      <3> HIDE DEF t
      <3>3. ObserversMove
        BY <3>1, <3>2, ObserverMoves
      <3> QED BY <1>12, <3>3, RowsRest DEF ObserveTask, coordination
    <2>2. CASE Advance(w, "retry") \/ Advance(w, "excepted")
      BY <1>12, <2>2, RowsRest, AdvanceMoves DEF ObserveTask, coordination
    <2> QED BY <1>12, <2>1, <2>2 DEF ObserveTask
  <1>13. CASE ObserveVm(w)
    <2>1. PICK pc \in {"succeed", "correlate", "fail", "mismatch", "excepted"} : Advance(w, pc)
      BY <1>13 DEF ObserveVm
    <2> QED BY <1>13, <2>1, RowsRest, AdvanceMoves DEF ObserveVm, coordination
  <1>14. CASE RetryTask(w)
    BY <1>1, <1>2, <1>4, <1>5, <1>14 DEF RetryTask
  <1>15. CASE AdvanceToVerifying(w) \/ RecordOutcome(w)
    <2>1. PICK to \in {"running", "verifying", "succeeded", "failed"},
               pc \in {"succeed", "correlate", "project"} :
            /\ \/ /\ HandlerCommit(w, to, Kept(o), FALSE)
                  /\ obs' = [obs EXCEPT ![w].pc = pc, ![w].status = to]
               \/ HandlerConflict(w, to, FALSE)
            /\ pc = "project" => to \in {"succeeded", "failed"}
      BY <1>15 DEF AdvanceToVerifying, RecordOutcome
    <2>2. to \in OperationStatuses \cup {"none"}
      BY StatusNames
    <2>3. CASE HandlerCommit(w, to, Kept(o), FALSE)
               /\ obs' = [obs EXCEPT ![w].pc = pc, ![w].status = to]
      <3> DEFINE t == [obs[w] EXCEPT !.pc = pc, !.status = to]
      <3>1. obs' = [obs EXCEPT ![w] = t]
        BY <2>3
      <3>2. t.pc = pc /\ t.seen = obs[w].seen /\ t.status = to
        BY <1>1, ObserverFields
      <3> HIDE DEF t
      <3>3. ObserversMove
        BY <2>1, <3>1, <3>2, ObserverMoves
      <3> QED BY <1>3, <2>2, <2>3, <3>3
    <2> QED BY <1>4, <2>1, <2>3
  <1>16. CASE PauseMismatch(w)
    BY <1>4, <1>5, <1>16, StatusNames DEF PauseMismatch
  <1>17. CASE AbsorbException(w)
    <2> DEFINE item == Ended(o, RetryStatus(o), FALSE)
    <2>1. Commit(o, obs[w].gen, {op[o].status}, op[o].status, item, FALSE)
      BY <1>17 DEF AbsorbException
    <2>2. \E x \in {"retry_wait", "paused"}, y \in BOOLEAN : item = Ended(o, x, y)
      BY <1>2
    <2> HIDE DEF item
    <2>3. RowsStep
      BY <1>1, <2>1, <2>2, RowsCommitOpen
    <2> QED BY <1>17, <2>3, RestMoves DEF AbsorbException
  <1> QED BY <1>6, <1>7, <1>8, <1>9, <1>10, <1>11, <1>12, <1>13, <1>14, <1>15, <1>16, <1>17

-----------------------------------------------------------------------------
(* The specification. *)

\* The empty database and the idle threads.
LEMMA ClosedInit == Init => ClosedInv
  <1> SUFFICES ASSUME Init PROVE ClosedInv
    OBVIOUS
  <1>1. TypeOK
    BY InitType
  <1>2. /\ \A v \in Vms : lock[v] = Free
        /\ \A o \in Ops : rec[o].lockId = Free /\ rec[o].status = "none"
        /\ \A r \in Requests : req[r].pc = "start" /\ req[r].seen = Free
        /\ \A w \in Observers : obs[w].pc = "idle" /\ obs[w].seen = Free
    BY DEF Init, CoordinationInit, Thread, Observer
  <1>3. LocksKnown
    BY <1>2 DEF LocksKnown, Known
  <1>4. Closed
    BY <1>2, <1>3 DEF Closed, CompletedClosed, RequestVerdict, ObserverVerdict, ObserverAt
  <1> QED BY <1>1, <1>4 DEF ClosedInv

\* Every step moves rows and threads in the way that keeps completed work closed.
LEMMA NextMoves ==
  ASSUME ClosedInv, [Next]_vars
  PROVE  RowsStep /\ RequestsMove /\ ObserversMove
  <1>1. ASSUME NEW r \in Requests, RequestStep(r)
        PROVE  RowsStep /\ RequestsMove /\ ObserversMove
    <2>1. RowsStep /\ RequestsMove
      BY <1>1, UnsentMoves, SentMoves DEF RequestStep
    <2>2. obs' = obs
      BY <1>1 DEF RequestStep, Stay, LookupJob, PrepareOperation, AcquireTarget, TargetLockBusy,
         ResolveBusy, RecordConflict, RecheckUnderLock, RecordPrecheck, Precheck, AbandonUnsent,
         BlockOperation, RecordBlocked, OpenMutationClient, RecordStart, RegisterRecovery,
         RecordUnsentFailure, CloseUnsentFailure, ReleaseTarget, ClaimReplay, CommitReplay,
         CommitDispatching, PostMutation, CommitRejected, CommitRunning, RecordPoll, PollTask,
         ReadVmStatus, CommitVerifying, WriteArtifact, RequireReconciliation,
         RecordReconciliation, CommitTerminal, RecordTerminal, HandOff, FinishTerminal
    <2> QED BY <2>1, <2>2, ThreadsRest
  <1>2. ASSUME NEW w \in Observers,
               ClaimDueWork(w) \/ RequestObservation(w) \/ RepeatObservation(w)
               \/ ObserverStep(w) \/ ObserverCrashes(w)
        PROVE  RowsStep /\ RequestsMove /\ ObserversMove
    <2>1. RowsStep /\ ObserversMove
      BY <1>2, ClaimingMoves, HandlerMoves DEF ObserverStep
    <2>2. req' = req
      BY <1>2 DEF ObserverStep, Hold, ClaimDueWork, RequestObservation, RepeatObservation,
         ObserverCrashes, ClaimObservation, RecordRequest, LeaseLost, LoadOperation,
         ValidateBinding, PauseBindingFailure, PauseMissingTask, CompleteUnsent,
         CompleteProjection, ObserveTask, ObserveVm, RetryTask, AdvanceToVerifying,
         RecordOutcome, PauseMismatch, AbsorbException
    <2> QED BY <2>1, <2>2, ThreadsRest
  <1>3. ASSUME NEW r \in Requests, RequestCrashes(r)
        PROVE  RowsStep /\ RequestsMove /\ ObserversMove
    <2>1. Goto(r, "crashed") /\ "crashed" \in RequestPcs /\ UNCHANGED <<op, rec, lock, obs>>
      BY <1>3 DEF RequestCrashes, RequestPcs, coordination
    <2> QED BY <2>1, RowsRest, GotoMoves, ThreadsRest
  <1>4. CASE ProxmoxStep \/ UNCHANGED vars
    <2>1. UNCHANGED <<op, rec, lock, req, obs>>
      BY <1>4 DEF ProxmoxStep, TaskStarts, TaskEnds, PowerChanges, coordination, vars
    <2> QED BY <2>1, RowsRest, ThreadsRest
  <1>5. ASSUME NEW o \in Ops, LeaseExpires(o)
        PROVE  RowsStep /\ RequestsMove /\ ObserversMove
    <2>1. /\ rec[o].status = "leased" /\ UNCHANGED <<op, lock, req, obs>>
          /\ rec' = [rec EXCEPT ![o].live = FALSE]
      BY <1>5 DEF LeaseExpires
    <2> DEFINE item == [rec[o] EXCEPT !.live = FALSE]
    <2>2. rec' = [rec EXCEPT ![o] = item] /\ item.status = "leased" /\ item.lockId = rec[o].lockId
      BY <2>1, ClosedRows DEF RecRows
    <2> HIDE DEF item
    <2>3. RowsStep
      BY <2>1, <2>2, ClosedRows DEF RowsStep, CompletedStays, CompletesClosed, LocksMove
    <2> QED BY <2>1, <2>3, ThreadsRest
  <1> QED BY <1>1, <1>2, <1>3, <1>4, <1>5 DEF Next

\* The inductive step.
LEMMA ClosedStep == ClosedInv /\ [Next]_vars => ClosedInv'
  <1> SUFFICES ASSUME ClosedInv, [Next]_vars PROVE ClosedInv'
    OBVIOUS
  <1>1. TypeOK'
    BY TypeStep DEF ClosedInv
  <1> QED BY <1>1, NextMoves, ClosedKept

\* The invariant of every reachable state.
LEMMA ClosedAlways == Spec => []ClosedInv
  <1> QED BY ClosedInit, ClosedStep, PTL DEF Spec

\* Completed recovery work belongs to a decided operation, and the lock it names is closed for
\* good: whoever commits the completion, and whatever request locks the VM afterwards.
THEOREM CompletionCloses == Spec => []CompletedIsClosed
  <1>1. ClosedInv => CompletedIsClosed
    BY DEF ClosedInv, Closed, CompletedClosed, CompletedIsClosed
  <1> QED BY <1>1, ClosedAlways, PTL

\* No late thread, with whatever stale reading or lost lease, moves an operation or its recovery
\* work again once that work is completed.
THEOREM CompletionIsFinal == Spec => ClosedIsFinal
  <1>1. ClosedInv /\ [Next]_vars =>
          [\A o \in Ops : rec[o].status = "completed" => op'[o] = op[o] /\ rec'[o] = rec[o]]_vars
    BY NextMoves DEF RowsStep, CompletedStays
  <1> QED BY <1>1, ClosedAlways, PTL DEF Spec, ClosedIsFinal

-----------------------------------------------------------------------------
(***************************************************************************)
(* At most one POST, and no error path that drops the lock or the recovery *)
(* work of a dispatched operation, proved for every number of operations,  *)
(* VMs, requests, runners and operators.                                   *)
(*                                                                         *)
(* As in the layer before, what a step does to the tables is separated from   *)
(* what it does to the thread that takes it.  TablesStep is what the       *)
(* transactions have in common: operations stay safe, and so does every    *)
(* thread that stands still.                                               *)
(***************************************************************************)

SafeInv == ClosedInv /\ Shape /\ Safe

-----------------------------------------------------------------------------
(* What every step has in common. *)

\* An operation's row moves with its version, to a status in use.
OpMoves ==
  \A o \in Ops : \/ op'[o] = op[o]
                 \/ op'[o].version = op[o].version + 1 /\ op'[o].status \in StatusesInUse

\* What a finished task came to is final.
TaskFinal == \A o \in Ops : task[o] \in {"ok", "failed"} => task'[o] = task[o]

OperationsSafe == \A o \in Ops : OperationSafe(o)
RequestsKeep == \A q \in Requests : req'[q] = req[q] => RequestSafe(q)'
TablesStep == OpMoves /\ TaskFinal /\ OperationsSafe' /\ RequestsKeep

\* A thread stands still, or is safe where it arrives.
RequestsArrive == \A q \in Requests : req'[q] = req[q] \/ (RequestSafe(q)' /\ RequestShape(q)')
ObserversArrive == \A w \in Observers : obs'[w] = obs[w] \/ (ObserverSafe(w)' /\ ObserverShape(w)')

\* The rows of a state that satisfies the invariant, with what the provers need of them.
LEMMA SafeRows ==
  ASSUME SafeInv
  PROVE  /\ ClosedInv /\ TypeOK
         /\ op \in [Ops -> OpRows] /\ rec \in [Ops -> RecRows] /\ lock \in [Vms -> LockIds]
         /\ req \in [Requests -> Threads] /\ obs \in [Observers -> ObserverRows]
         /\ task \in [Ops -> TaskStates] /\ posts \in [Ops -> Nat]
         /\ \A o \in Ops : OperationSafe(o) /\ StatusInUse(o) /\ op[o].version \in Nat
         /\ \A r \in Requests : RequestSafe(r) /\ RequestShape(r) /\ req[r].version \in Nat /\ OpOf[r] \in Ops
         /\ \A w \in Observers : ObserverSafe(w) /\ ObserverShape(w) /\ obs[w].version \in Nat /\ obs[w].o \in Ops
  BY ClosedRows DEF SafeInv, Shape, Safe, TypeOK, OpRows, Threads, ObserverRows

\* Fences: a reading whose version still matches is still true, and a finished task that was
\* seen is still what was seen.
LEMMA SafeKept ==
  ASSUME SafeInv, ClosedInv', TablesStep, RequestsArrive, ObserversArrive
  PROVE  SafeInv'
  <1>1. \A o \in Ops : StatusInUse(o)'
    BY SafeRows DEF StatusInUse, TablesStep, OpMoves
  <1>2. ASSUME NEW r \in Requests
        PROVE  RequestSafe(r)' /\ RequestShape(r)'
    <2>1. CASE req'[r] = req[r]
      <3>1. RequestSafe(r)'
        BY <2>1 DEF TablesStep, RequestsKeep
      <3>2. RequestShape(r)'
        BY <2>1, SafeRows DEF RequestShape, At, TablesStep, OpMoves
      <3> QED BY <3>1, <3>2
    <2> QED BY <2>1 DEF RequestsArrive
  <1>3. ASSUME NEW w \in Observers
        PROVE  ObserverSafe(w)' /\ ObserverShape(w)'
    <2>1. CASE obs'[w] = obs[w]
      <3>1. ObserverSafe(w)'
        BY <2>1, SafeRows DEF ObserverSafe, ObserverAt, TablesStep, TaskFinal
      <3>2. ObserverShape(w)'
        <4>1. /\ obs[w].o \in Ops /\ obs[w].version \in Nat /\ op[obs[w].o].version \in Nat
              /\ ObserverShape(w)
          BY SafeRows
        <4>2. \/ op'[obs[w].o] = op[obs[w].o]
              \/ op'[obs[w].o].version = op[obs[w].o].version + 1
          BY <4>1 DEF TablesStep, OpMoves
        <4> QED BY <2>1, <4>1, <4>2 DEF ObserverShape, ObserverAt
      <3> QED BY <3>1, <3>2
    <2> QED BY <2>1 DEF ObserversArrive
  <1> QED BY <1>1, <1>2, <1>3 DEF SafeInv, Shape, Safe, TablesStep, OperationsSafe

-----------------------------------------------------------------------------
(* The transactions. *)

\* A step that writes none of the tables.
LEMMA TablesRest ==
  ASSUME SafeInv, UNCHANGED <<op, rec, lock, task, posts>>
  PROVE  TablesStep
  <1>1. OpMoves /\ TaskFinal
    BY DEF OpMoves, TaskFinal
  <1>2. OperationsSafe'
    BY SafeRows DEF OperationsSafe, OperationSafe, ExactLock, LockedBy
  <1>3. RequestsKeep
    BY SafeRows DEF RequestsKeep, RequestSafe, At
  <1> QED BY <1>1, <1>2, <1>3 DEF TablesStep

\* A plain transition of an operation that was never dispatched.
LEMMA TablesOperation ==
  ASSUME SafeInv, NEW o \in Ops, NEW row, UNCHANGED <<rec, lock, task, posts>>,
         \/ op' = op
         \/ /\ op' = [op EXCEPT ![o] = row] /\ row.version = op[o].version + 1
            /\ \/ op[o].status = "none" /\ row.status = "planned"
               \/ op[o].status = "planned" /\ row.status \in {"failed", "blocked"}
  PROVE  TablesStep
  <1>1. OpMoves /\ TaskFinal
    BY SafeRows DEF OpMoves, TaskFinal, StatusesInUse
  <1>2. OperationsSafe'
    BY SafeRows DEF OperationsSafe, OperationSafe, ExactLock, LockedBy, Uncertain
  <1>3. RequestsKeep
    BY SafeRows DEF RequestsKeep, RequestSafe, At, Uncertain
  <1> QED BY <1>1, <1>2, <1>3 DEF TablesStep

\* A lock is free when it is acquired: it was nobody's exact lock.
LEMMA TablesAcquire ==
  ASSUME SafeInv, NEW r \in Requests, Acquire(r), UNCHANGED <<op, rec, task, posts>>
  PROVE  TablesStep
  <1>1. OpMoves /\ TaskFinal
    BY DEF OpMoves, TaskFinal
  <1>2. OperationsSafe'
    BY SafeRows DEF Acquire, OperationsSafe, OperationSafe, ExactLock, LockedBy
  <1>3. RequestsKeep
    BY SafeRows DEF Acquire, RequestsKeep, RequestSafe, At
  <1> QED BY <1>1, <1>2, <1>3 DEF TablesStep

\* A request releases before its dispatch: nothing was dispatched under its lock.
LEMMA TablesRelease ==
  ASSUME SafeInv, NEW r \in Requests, At(r, "release"), Release(r), ~At(r, "release")',
         UNCHANGED <<op, rec, task, posts>>
  PROVE  TablesStep
  <1>1. OpMoves /\ TaskFinal
    BY DEF OpMoves, TaskFinal
  <1>2. ~(rec[OpOf[r]].phase = "dispatched" /\ rec[OpOf[r]].lockId = r)
    BY SafeRows DEF RequestSafe, At, UnsentPcs
  <1>3. OperationsSafe'
    BY <1>2, SafeRows DEF Release, OperationsSafe, OperationSafe, ExactLock, LockedBy
  <1>4. RequestsKeep
    BY SafeRows DEF Release, RequestsKeep, RequestSafe, At
  <1> QED BY <1>1, <1>3, <1>4 DEF TablesStep

\* A claim of an existing row leaves its phase and lock; a prepared one is of an operation that
\* is not dispatched.
LEMMA TablesClaim ==
  ASSUME SafeInv, NEW o \in Ops, UNCHANGED <<op, lock, task, posts>>, op[o].status # "none",
         \/ ClaimOperation(o) \/ ClaimDue(o)
         \/ \E l \in LockIds, m \in BOOLEAN : PrepareAndClaim(o, l, m) /\ op[o].status \notin Uncertain
  PROVE  TablesStep
  <1>1. OpMoves /\ TaskFinal
    BY DEF OpMoves, TaskFinal
  <1>2. rec \in [Ops -> RecRows] /\ rec[o] \in RecRows /\ rec[o].marker \in BOOLEAN
    BY SafeRows DEF RecRows
  <1>3. /\ rec[o].status # "completed"
        /\ \E row \in RecRows : /\ rec' = [rec EXCEPT ![o] = Leased(row)]
                                /\ \/ row = rec[o]
                                   \/ row.phase = "pre_dispatch" /\ op[o].status \notin Uncertain
    <2>1. CASE ClaimOperation(o) \/ ClaimDue(o)
      BY <2>1, <1>2 DEF ClaimOperation, ClaimDue, Claimable
    <2>2. CASE \E l \in LockIds, m \in BOOLEAN : PrepareAndClaim(o, l, m) /\ op[o].status \notin Uncertain
      <3>1. PICK l \in LockIds, m \in BOOLEAN : PrepareAndClaim(o, l, m) /\ op[o].status \notin Uncertain
        BY <2>2
      <3> DEFINE n == rec[o].marker \/ m
      <3>2. n \in BOOLEAN
        BY <1>2
      <3>3. Prepared(rec[o], l, m) = [rec[o] EXCEPT !.phase = "pre_dispatch", !.lockId = l, !.marker = n]
        BY DEF Prepared
      <3> HIDE DEF n
      <3>4. Prepared(rec[o], l, m) \in RecRows /\ Prepared(rec[o], l, m).phase = "pre_dispatch"
        BY <1>2, <3>2, <3>3 DEF RecRows
      <3> QED BY <3>1, <3>4 DEF PrepareAndClaim, Claimable
    <2> QED BY <2>1, <2>2
  <1>4. PICK row \in RecRows : /\ rec' = [rec EXCEPT ![o] = Leased(row)]
                               /\ \/ row = rec[o]
                                  \/ row.phase = "pre_dispatch" /\ op[o].status \notin Uncertain
    BY <1>3
  <1>5. /\ Leased(row).status = "leased" /\ Leased(row).lockId = row.lockId
        /\ Leased(row).phase = row.phase
    BY LeasedType
  <1>6. OperationsSafe'
    BY <1>2, <1>4, <1>5, SafeRows DEF OperationsSafe, OperationSafe, ExactLock, LockedBy, Open
  <1>7. RequestsKeep
    BY <1>2, <1>3, <1>4, <1>5, SafeRows DEF RequestsKeep, RequestSafe, At
  <1> QED BY <1>1, <1>6, <1>7 DEF TablesStep

\* Only a planned operation is dispatched; the outcome of another becomes open only if it was.
LEMMA TransitionsInUse ==
  ASSUME NEW from \in StatusesInUse \ {"none"}, NEW to, MayTransition(from, to)
  PROVE  /\ to \in Uncertain => from \in Uncertain \/ (from = "planned" /\ to = "dispatching")
         /\ to = "planned" => from = "planned"
         /\ to # "none"
  <1>1. CASE from = "planned"
    BY <1>1 DEF MayTransition, AllowedTransitions, OperationStatuses, Uncertain
  <1>2. CASE from \in {"succeeded", "failed", "blocked"}
    BY <1>2 DEF MayTransition, AllowedTransitions, OperationStatuses, Uncertain
  <1>3. CASE from \in {"dispatching", "running"}
    BY <1>3 DEF MayTransition, AllowedTransitions, OperationStatuses, Uncertain
  <1>4. CASE from \in {"verifying", "needs_reconciliation"}
    BY <1>4 DEF MayTransition, AllowedTransitions, OperationStatuses, Uncertain
  <1> QED BY <1>1, <1>2, <1>3, <1>4 DEF StatusesInUse, Uncertain

\* commit_observation: the phase and the lock stay, work ends only with the release of the lock
\* of a settled operation, and an open outcome is settled only by what Proxmox answered.
LEMMA TablesCommit ==
  ASSUME SafeInv, NEW o \in Ops, NEW g, NEW from, NEW to \in StatusesInUse, NEW item \in RecRows,
         NEW release \in BOOLEAN, MayCommit(o, g, from, to, release),
         \E row : op' = [op EXCEPT ![o] = row] /\ row.status = to /\ row.version = op[o].version + 1,
         rec' = [rec EXCEPT ![o] = item],
         lock' = IF release THEN [lock EXCEPT ![VmOf[o]] = Free] ELSE lock,
         UNCHANGED <<task, posts>>,
         item.phase = rec[o].phase, item.lockId = rec[o].lockId,
         IF release THEN item.status = "completed" /\ to \notin Uncertain ELSE item.status \in Open,
         to = "dispatching" => op[o].status = "dispatching",
         to \in Uncertain \/ op[o].status \notin Uncertain \/ posts[o] = 1 \/ task[o] # "none"
  PROVE  TablesStep
  <1>1. PICK row : op' = [op EXCEPT ![o] = row] /\ row.status = to /\ row.version = op[o].version + 1
    OBVIOUS
  <1>2. /\ rec[o].status = "leased" /\ MayTransition(op[o].status, to)
        /\ release => ExactLock(o)
    BY DEF MayCommit, LeaseOwned
  <1>3. op[o].status \in StatusesInUse \ {"none"}
    BY <1>2, SafeRows DEF OperationSafe, StatusInUse
  <1>4. /\ to \in Uncertain => op[o].status \in Uncertain
        /\ to = "planned" => op[o].status = "planned"
        /\ to # "none"
    BY <1>2, <1>3, TransitionsInUse DEF Uncertain
  <1>5. OpMoves /\ TaskFinal
    BY <1>1, SafeRows DEF OpMoves, TaskFinal
  <1>6. OperationsSafe'
    <2> SUFFICES ASSUME NEW p \in Ops PROVE OperationSafe(p)'
      BY DEF OperationsSafe
    <2>1. OperationSafe(p) /\ OperationSafe(o) /\ VmOf[p] \in Vms /\ VmOf[o] \in Vms
      BY SafeRows
    <2>2. CASE p = o
      <3>1. op'[o].status = to /\ rec'[o] = item
        BY <1>1, SafeRows
      <3>2. CASE to \in Uncertain
        <4>1. ~release /\ lock' = lock
          BY <3>2
        <4>2. ExactLock(o) /\ rec[o].phase = "dispatched"
          BY <1>4, <2>1, <3>2 DEF OperationSafe
        <4> QED BY <1>4, <2>1, <2>2, <3>1, <3>2, <4>1, <4>2
                DEF OperationSafe, ExactLock, LockedBy, Uncertain
      <3>3. CASE to \notin Uncertain
        BY <1>4, <2>1, <2>2, <3>1, <3>3 DEF OperationSafe
      <3> QED BY <3>2, <3>3
    <2>3. CASE p # o
      <3>1. op'[p] = op[p] /\ rec'[p] = rec[p]
        BY <1>1, <2>3, SafeRows
      <3>2. ExactLock(p) => lock'[VmOf[p]] = lock[VmOf[p]]
        BY <1>2, <2>1, <2>3, SafeRows DEF ExactLock, LockedBy
      <3> QED BY <2>1, <3>1, <3>2 DEF OperationSafe, ExactLock, LockedBy
    <2> QED BY <2>2, <2>3
  <1>7. RequestsKeep
    <2> SUFFICES ASSUME NEW q \in Requests, req'[q] = req[q] PROVE RequestSafe(q)'
      BY DEF RequestsKeep
    <2>1. RequestSafe(q) /\ OpOf[q] \in Ops /\ VmOf[OpOf[q]] \in Vms /\ VmOf[o] \in Vms /\ q # Free
      BY SafeRows
    <2>2. CASE OpOf[q] = o
      <3>1. op'[o].status = to /\ rec'[o] = item
        BY <1>1, SafeRows
      <3>2. req[q].pc \in UnsentPcs => lock'[VmOf[o]] = q \/ rec'[o].status = "completed"
        BY <1>2, <2>1, <2>2, <3>1 DEF RequestSafe
      <3>3. At(q, "post") => to \in Uncertain
        BY <2>1, <2>2 DEF RequestSafe
      <3> QED BY <1>4, <2>1, <2>2, <3>1, <3>2, <3>3 DEF RequestSafe, At
    <2>3. CASE OpOf[q] # o
      <3>1. op'[OpOf[q]] = op[OpOf[q]] /\ rec'[OpOf[q]] = rec[OpOf[q]]
        BY <1>1, <2>1, <2>3, SafeRows
      <3>2. lock[VmOf[OpOf[q]]] = q => lock'[VmOf[OpOf[q]]] = q
        BY <1>2, <2>1, <2>3, SafeRows DEF ExactLock, LockedBy
      <3> QED BY <2>1, <3>1, <3>2 DEF RequestSafe, At
    <2> QED BY <2>2, <2>3
  <1> QED BY <1>5, <1>6, <1>7 DEF TablesStep

\* The fields a commit's recovery row keeps.
LEMMA ItemPhase ==
  ASSUME SafeInv, NEW o \in Ops
  PROVE  /\ Kept(o).phase = rec[o].phase
         /\ [Kept(o) EXCEPT !.phase = "dispatched"].phase = "dispatched"
         /\ [Kept(o) EXCEPT !.upid = TRUE].phase = rec[o].phase
         /\ \A s \in RecoveryStatuses, b \in BOOLEAN : Ended(o, s, b).phase = rec[o].phase
  <1>1. rec[o] \in RecRows
    BY SafeRows
  <1> QED BY <1>1 DEF Kept, Ended, RecRows

\* A commit after which the work goes on or waits.
LEMMA TablesCommitOpen ==
  ASSUME SafeInv, NEW o \in Ops, NEW g, NEW from, NEW to \in StatusesInUse, NEW item,
         Commit(o, g, from, to, item, FALSE), UNCHANGED <<task, posts>>,
         \/ item = Kept(o)
         \/ \E s \in {"retry_wait", "paused"}, b \in BOOLEAN : item = Ended(o, s, b),
         to = "dispatching" => op[o].status = "dispatching",
         to \in Uncertain \/ op[o].status \notin Uncertain \/ posts[o] = 1 \/ task[o] # "none"
  PROVE  TablesStep
  <1>1. rec[o].status = "leased"
    BY DEF Commit, MayCommit, LeaseOwned
  <1>2. /\ item \in RecRows /\ item.phase = rec[o].phase /\ item.lockId = rec[o].lockId
        /\ item.status \in Open
    <2>1. CASE item = Kept(o)
      <3>1. /\ Kept(o) \in RecRows /\ Kept(o).phase = rec[o].phase /\ Kept(o).lockId = rec[o].lockId
            /\ Kept(o).status = rec[o].status
        BY SafeRows, RowTypes, ItemLock, ItemPhase
      <3>2. rec[o].status \in Open
        BY <1>1 DEF Open
      <3> QED BY <2>1, <3>1, <3>2
    <2>2. CASE \E s \in {"retry_wait", "paused"}, b \in BOOLEAN : item = Ended(o, s, b)
      <3>1. PICK s \in {"retry_wait", "paused"}, b \in BOOLEAN : item = Ended(o, s, b)
        BY <2>2
      <3>2. s \in RecoveryStatuses /\ s \in Open
        BY DEF RecoveryStatuses, Open
      <3>3. Ended(o, s, b) \in RecRows
        BY <3>2, SafeRows, RowTypes
      <3>4. Ended(o, s, b).lockId = rec[o].lockId /\ Ended(o, s, b).status = s
        BY <3>2, SafeRows, ItemLock
      <3>5. Ended(o, s, b).phase = rec[o].phase
        BY <3>2, ItemPhase
      <3> QED BY <3>1, <3>2, <3>3, <3>4, <3>5
    <2> QED BY <2>1, <2>2
  <1>3. to \in OperationStatuses \cup {"none"}
    BY DEF StatusesInUse, Uncertain, OperationStatuses
  <1>4. Moved(op[o], to).status = to /\ Moved(op[o], to).version = op[o].version + 1
    BY <1>3, SafeRows, MovedType
  <1>5. \E row : op' = [op EXCEPT ![o] = row] /\ row.status = to /\ row.version = op[o].version + 1
    BY <1>4 DEF Commit
  <1>6. MayCommit(o, g, from, to, FALSE) /\ rec' = [rec EXCEPT ![o] = item] /\ lock' = lock
    BY DEF Commit
  <1> QED BY <1>2, <1>5, <1>6, TablesCommit

\* Completing work: the operation was settled before, or is settled by this commit.
LEMMA TablesCommitCompleted ==
  ASSUME SafeInv, NEW o \in Ops, NEW g, NEW from, NEW to \in TerminalStatuses \cap StatusesInUse,
         Commit(o, g, from, to, Ended(o, "completed", FALSE), TRUE), UNCHANGED <<task, posts>>,
         op[o].status \notin Uncertain
  PROVE  TablesStep
  <1> DEFINE item == Ended(o, "completed", FALSE)
  <1>1. /\ item \in RecRows /\ item.phase = rec[o].phase /\ item.lockId = rec[o].lockId
        /\ item.status = "completed"
    BY SafeRows, RowTypes, ItemLock, ItemPhase, StatusNames
  <1>2. to \in OperationStatuses \cup {"none"} /\ to \notin Uncertain /\ to # "dispatching"
    BY DEF TerminalStatuses, OperationStatuses, Uncertain
  <1>3. Moved(op[o], to).status = to /\ Moved(op[o], to).version = op[o].version + 1
    BY <1>2, SafeRows, MovedType
  <1>4. \E row : op' = [op EXCEPT ![o] = row] /\ row.status = to /\ row.version = op[o].version + 1
    BY <1>3 DEF Commit
  <1>5. MayCommit(o, g, from, to, TRUE) /\ rec' = [rec EXCEPT ![o] = item]
        /\ lock' = [lock EXCEPT ![VmOf[o]] = Free]
    BY DEF Commit
  <1> HIDE DEF item
  <1> QED BY <1>1, <1>2, <1>4, <1>5, TablesCommit

\* The dispatch checkpoint records the phase under the exact lock of the request.
LEMMA TablesDispatch ==
  ASSUME SafeInv, NEW r \in Requests, At(r, "commitDispatch"), ~At(r, "commitDispatch")',
         ExactLock(OpOf[r]), rec[OpOf[r]].lockId = r,
         Commit(OpOf[r], req[r].gen, {"planned"}, "dispatching",
                [Kept(OpOf[r]) EXCEPT !.phase = "dispatched"], FALSE),
         UNCHANGED <<task, posts>>
  PROVE  TablesStep
  <1> DEFINE o == OpOf[r]
             item == [Kept(o) EXCEPT !.phase = "dispatched"]
             row == Moved(op[o], "dispatching")
  <1>1. o \in Ops /\ rec[o].status = "leased" /\ op[o].status = "planned"
    BY SafeRows DEF Commit, MayCommit, LeaseOwned
  <1>2. /\ item.phase = "dispatched" /\ item.lockId = r /\ item.status = "leased"
    BY <1>1, SafeRows, ItemLock, ItemPhase
  <1>3. row.status = "dispatching" /\ row.version = op[o].version + 1
    BY <1>1, SafeRows, MovedType, StatusNames
  <1>4. op' = [op EXCEPT ![o] = row] /\ rec' = [rec EXCEPT ![o] = item] /\ lock' = lock
    BY DEF Commit
  <1> HIDE DEF item, row
  <1>5. OpMoves /\ TaskFinal
    BY <1>3, <1>4, SafeRows DEF OpMoves, TaskFinal, StatusesInUse, Uncertain
  <1>6. OperationsSafe'
    BY <1>1, <1>2, <1>3, <1>4, SafeRows
       DEF OperationsSafe, OperationSafe, ExactLock, LockedBy, Open
  <1>7. RequestsKeep
    BY <1>1, <1>2, <1>3, <1>4, SafeRows DEF RequestsKeep, RequestSafe, At, Uncertain
  <1> QED BY <1>5, <1>6, <1>7 DEF TablesStep

\* What Goto makes of a request.
LEMMA GotoRow ==
  ASSUME SafeInv, NEW r \in Requests, NEW pc, Goto(r, pc)
  PROVE  \E t : req' = [req EXCEPT ![r] = t] /\ t.pc = pc
  <1>1. Thread(pc).pc = pc
    BY DEF Thread
  <1>2. [req[r] EXCEPT !.pc = pc].pc = pc
    BY SafeRows DEF Threads
  <1> QED BY <1>1, <1>2 DEF Goto

\* The POST: nothing was sent before, and nobody else is about to send.
LEMMA TablesPost ==
  ASSUME SafeInv, NEW r \in Requests, PostMutation(r)
  PROVE  TablesStep
  <1> DEFINE o == OpOf[r]
  <1>1. /\ o \in Ops /\ op[o].status \in Uncertain /\ rec[o].lockId = r
        /\ posts[o] = 0 /\ task[o] = "none" /\ At(r, "post")
    BY SafeRows DEF PostMutation, RequestSafe, At
  <1>2. UNCHANGED <<op, rec, lock>> /\ posts' = [posts EXCEPT ![o] = posts[o] + 1]
    BY DEF PostMutation, coordination
  <1>3. \E t \in {"none", "inflight", "running"} : task' = [task EXCEPT ![o] = t]
    <2>1. task = [task EXCEPT ![o] = "none"]
      BY <1>1, SafeRows
    <2> QED BY <2>1 DEF PostMutation
  <1>4. OpMoves /\ TaskFinal
    BY <1>1, <1>2, <1>3, SafeRows DEF OpMoves, TaskFinal
  <1>5. OperationsSafe'
    BY <1>1, <1>2, <1>3, SafeRows DEF OperationsSafe, OperationSafe, ExactLock, LockedBy, Uncertain
  <1>6. RequestsKeep
    <2>1. ~At(r, "post")'
      <3>1. PICK pc \in {"commitRunning", "commitRejected", "ambiguous"} : Goto(r, pc)
        BY DEF PostMutation
      <3>2. req'[r].pc = pc
        BY <3>1, GotoRow, SafeRows
      <3> QED BY <3>2 DEF At
    <2> SUFFICES ASSUME NEW q \in Requests, req'[q] = req[q] PROVE RequestSafe(q)'
      BY DEF RequestsKeep
    <2>2. RequestSafe(q) /\ q # r
      BY <1>1, <2>1, SafeRows DEF At
    <2>3. CASE OpOf[q] = o
      <3>1. req[q].pc \notin SentPcs
        BY <1>1, <2>2, <2>3, SafeRows DEF RequestSafe, At
      <3> QED BY <1>2, <2>2, <2>3, <3>1 DEF RequestSafe, At, SentPcs
    <2>4. CASE OpOf[q] # o
      BY <1>1, <1>2, <1>3, <2>2, <2>4, SafeRows DEF RequestSafe, At
    <2> QED BY <2>3, <2>4
  <1> QED BY <1>4, <1>5, <1>6 DEF TablesStep

\* A task starts or ends only after it was sent.
LEMMA TablesTask ==
  ASSUME SafeInv, NEW o \in Ops, TaskStarts(o) \/ TaskEnds(o)
  PROVE  TablesStep
  <1>0. PICK t \in {"running", "ok", "failed"} :
          task[o] \in {"inflight", "running"} /\ task' = [task EXCEPT ![o] = t]
    BY DEF TaskStarts, TaskEnds
  <1>1. UNCHANGED <<op, rec, lock, posts, req>>
    BY DEF TaskStarts, TaskEnds, coordination
  <1>2. OpMoves /\ TaskFinal
    BY <1>0, <1>1, SafeRows DEF OpMoves, TaskFinal
  <1>3. OperationsSafe'
    BY <1>0, <1>1, SafeRows DEF OperationsSafe, OperationSafe, ExactLock, LockedBy
  <1>4. RequestsKeep
    BY <1>0, <1>1, SafeRows DEF RequestsKeep, RequestSafe, At
  <1> QED BY <1>2, <1>3, <1>4 DEF TablesStep

\* An expired lease is still open work, with the same phase and lock.
LEMMA TablesExpire ==
  ASSUME SafeInv, NEW o \in Ops, rec[o].status = "leased", rec' = [rec EXCEPT ![o].live = FALSE],
         UNCHANGED <<op, lock, task, posts>>
  PROVE  TablesStep
  <1> DEFINE item == [rec[o] EXCEPT !.live = FALSE]
  <1>1. /\ rec' = [rec EXCEPT ![o] = item] /\ item.status = "leased"
        /\ item.phase = rec[o].phase /\ item.lockId = rec[o].lockId
    BY SafeRows DEF RecRows
  <1> HIDE DEF item
  <1>2. OpMoves /\ TaskFinal
    BY DEF OpMoves, TaskFinal
  <1>3. OperationsSafe'
    BY <1>1, SafeRows DEF OperationsSafe, OperationSafe, ExactLock, LockedBy, Open
  <1>4. RequestsKeep
    BY <1>1, SafeRows DEF RequestsKeep, RequestSafe, At
  <1> QED BY <1>2, <1>3, <1>4 DEF TablesStep

-----------------------------------------------------------------------------
(* The threads. *)

\* Places a request is bound to nothing at.
FreePcs == {"busy", "conflict", "closeCommit", "done", "crashed"}

\* One request moves: the others stand still.
LEMMA OneArrives ==
  ASSUME SafeInv, NEW r \in Requests, NEW t, req' = [req EXCEPT ![r] = t],
         RequestSafe(r)' /\ RequestShape(r)'
  PROVE  RequestsArrive
  BY SafeRows DEF RequestsArrive

\* Going to a place that binds the request to nothing.
LEMMA ArriveFree ==
  ASSUME SafeInv, NEW r \in Requests, NEW t, req' = [req EXCEPT ![r] = t], t.pc \in FreePcs
  PROVE  RequestsArrive
  <1>1. req'[r].pc \in FreePcs
    BY SafeRows
  <1>2. RequestSafe(r)' /\ RequestShape(r)'
    BY <1>1 DEF RequestSafe, RequestShape, At, FreePcs, UnsentPcs, SentPcs
  <1> QED BY <1>2, OneArrives

\* Going on before the dispatch, under the same lock and recovery row.
LEMMA ArriveUnsent ==
  ASSUME SafeInv, NEW r \in Requests, NEW t, req' = [req EXCEPT ![r] = t],
         t.pc \in UnsentPcs, req[r].pc \in UnsentPcs,
         UNCHANGED <<rec, lock>>, op'[OpOf[r]].status # "none"
  PROVE  RequestsArrive
  <1>1. req'[r].pc \in UnsentPcs
    BY SafeRows
  <1>2. RequestSafe(r)' /\ RequestShape(r)'
    BY <1>1, SafeRows DEF RequestSafe, RequestShape, At, UnsentPcs, SentPcs
  <1> QED BY <1>2, OneArrives

\* Going on after the POST.
LEMMA ArriveSent ==
  ASSUME SafeInv, NEW r \in Requests, NEW t, req' = [req EXCEPT ![r] = t],
         t.pc \in SentPcs \ {"post", "commitRejected"}, req[r].pc \in SentPcs \ {"post"},
         UNCHANGED posts
  PROVE  RequestsArrive
  <1>1. req'[r].pc \in SentPcs \ {"post", "commitRejected"}
    BY SafeRows
  <1>2. RequestSafe(r)' /\ RequestShape(r)'
    BY <1>1, SafeRows DEF RequestSafe, RequestShape, At, UnsentPcs, SentPcs
  <1> QED BY <1>2, OneArrives

\* The row a closing transition writes.
LEMMA CloseUnsentRow ==
  ASSUME SafeInv, NEW o \in Ops, NEW to \in {"failed", "blocked"}, NEW l \in LockIds, CloseUnsent(o, to, l)
  PROVE  /\ op[o].status = "planned"
         /\ \E row : /\ op' = [op EXCEPT ![o] = row] /\ row.version = op[o].version + 1
                     /\ row.status = to
  <1> DEFINE row == [Moved(op[o], to) EXCEPT !.marker = l]
  <1>0. to \in OperationStatuses \cup {"none"} /\ op[o] \in OpRows
    BY SafeRows DEF OperationStatuses
  <1>1. Moved(op[o], to) \in OpRows
    BY <1>0, MovedType
  <1>2. Moved(op[o], to).status = to /\ Moved(op[o], to).version = op[o].version + 1
    BY <1>0, MovedType
  <1>3. row.status = to /\ row.version = op[o].version + 1
    BY <1>1, <1>2 DEF OpRows
  <1>4. op[o].status = "planned" /\ op' = [op EXCEPT ![o] = row]
    BY DEF CloseUnsent
  <1> HIDE DEF row
  <1> QED BY <1>3, <1>4

\* Steps before the dispatch checkpoint.
LEMMA UnsentSafe ==
  ASSUME SafeInv, NEW r \in Requests,
         \/ LookupJob(r) \/ PrepareOperation(r) \/ AcquireTarget(r) \/ TargetLockBusy(r)
         \/ ResolveBusy(r) \/ RecordConflict(r) \/ RecheckUnderLock(r) \/ RecordPrecheck(r)
         \/ Precheck(r) \/ AbandonUnsent(r) \/ BlockOperation(r) \/ RecordBlocked(r)
         \/ OpenMutationClient(r) \/ RecordStart(r) \/ RegisterRecovery(r)
         \/ RecordUnsentFailure(r) \/ CloseUnsentFailure(r) \/ ReleaseTarget(r)
         \/ ClaimReplay(r) \/ CommitReplay(r)
  PROVE  TablesStep /\ RequestsArrive
  <1> DEFINE o == OpOf[r]
  <1>1. /\ o \in Ops /\ req[r] \in Threads /\ r \in LockIds /\ req[r].seen \in LockIds /\ r # Free
        /\ RequestSafe(r) /\ RequestShape(r) /\ OperationSafe(o) /\ VmOf[o] \in Vms
    BY SafeRows DEF LockIds, Threads
  <1>2. UNCHANGED <<task, posts>>
    BY DEF Stay, proxmox, LookupJob, PrepareOperation, AcquireTarget, TargetLockBusy,
       ResolveBusy, RecordConflict, RecheckUnderLock, RecordPrecheck, Precheck, AbandonUnsent,
       BlockOperation, RecordBlocked, OpenMutationClient, RecordStart, RegisterRecovery,
       RecordUnsentFailure, CloseUnsentFailure, ReleaseTarget, ClaimReplay, CommitReplay
  \* A request that goes to its end, or on before the dispatch with nothing else changed.
  <1>3. ASSUME NEW pc \in FreePcs, Goto(r, pc) PROVE RequestsArrive
    BY <1>3, GotoRow, ArriveFree
  <1>4. ASSUME NEW pc \in UnsentPcs, Goto(r, pc), req[r].pc \in UnsentPcs,
               UNCHANGED <<rec, lock>>, op'[o].status # "none"
        PROVE  RequestsArrive
    BY <1>4, GotoRow, ArriveUnsent
  <1>5. req[r].pc \in UnsentPcs => op[o].status # "none"
    BY <1>1 DEF RequestSafe
  <1>6. CASE LookupJob(r)
    <2>1. UNCHANGED <<op, rec, lock>> /\ At(r, "start")
      BY <1>6 DEF LookupJob, coordination
    <2>2. CASE Goto(r, "prepare")
      <3>1. PICK t : req' = [req EXCEPT ![r] = t] /\ t.pc = "prepare"
        BY <2>2, GotoRow
      <3>2. req'[r].pc = "prepare"
        BY <3>1, SafeRows
      <3>3. RequestSafe(r)' /\ RequestShape(r)'
        BY <1>1, <2>1, <3>2 DEF RequestSafe, RequestShape, At, UnsentPcs, SentPcs
      <3> QED BY <1>2, <2>1, <3>1, <3>3, TablesRest, OneArrives
    <2>3. CASE Goto(r, "done")
      BY <1>2, <1>3, <2>1, <2>3, TablesRest DEF FreePcs
    <2> QED BY <1>6, <2>2, <2>3 DEF LookupJob
  <1>7. CASE PrepareOperation(r)
    <2> DEFINE row == Moved(op[o], "planned")
    <2>1. /\ At(r, "prepare") /\ UNCHANGED <<rec, lock>>
          /\ op' = op \/ (op' = [op EXCEPT ![o] = row] /\ op[o].status = "none")
      BY <1>7 DEF PrepareOperation, CreateOperation
    <2>2. row.status = "planned" /\ row.version = op[o].version + 1
      BY <1>1, SafeRows, MovedType, StatusNames
    <2> HIDE DEF row
    <2>3. TablesStep
      BY <1>1, <1>2, <2>1, <2>2, TablesOperation
    <2>4. CASE Goto(r, "acquire") /\ op'[o].status = "planned"
      <3>1. PICK t : req' = [req EXCEPT ![r] = t] /\ t.pc = "acquire"
        BY <2>4, GotoRow
      <3>2. req'[r].pc = "acquire"
        BY <3>1, SafeRows
      <3>3. RequestSafe(r)' /\ RequestShape(r)'
        BY <1>1, <2>1, <2>4, <3>2 DEF RequestSafe, RequestShape, At, UnsentPcs, SentPcs
      <3> QED BY <2>3, <3>1, <3>3, OneArrives
    <2>5. CASE Goto(r, "done")
      BY <1>3, <2>3, <2>5 DEF FreePcs
    <2> QED BY <1>7, <2>4, <2>5 DEF PrepareOperation
  <1>8. CASE AcquireTarget(r)
    <2>1. At(r, "acquire") /\ Acquire(r) /\ Goto(r, "recheck") /\ UNCHANGED <<op, rec>>
      BY <1>8 DEF AcquireTarget
    <2>2. PICK t : req' = [req EXCEPT ![r] = t] /\ t.pc = "recheck"
      BY <2>1, GotoRow
    <2>3. req'[r].pc = "recheck" /\ lock'[VmOf[o]] = r
      BY <1>1, <2>1, <2>2, SafeRows DEF Acquire
    <2>4. RequestSafe(r)' /\ RequestShape(r)'
      BY <1>1, <2>1, <2>3 DEF RequestSafe, RequestShape, At, UnsentPcs, SentPcs
    <2> QED BY <1>2, <2>1, <2>2, <2>4, TablesAcquire, OneArrives
  <1>9. CASE TargetLockBusy(r)
    <2>1. \E l : req' = [req EXCEPT ![r] = [req[r] EXCEPT !.pc = "busy", !.seen = l]]
      BY <1>9 DEF TargetLockBusy
    <2>2. \A l : [req[r] EXCEPT !.pc = "busy", !.seen = l].pc = "busy"
      BY <1>1 DEF Threads
    <2>3. RequestsArrive
      BY <2>1, <2>2, ArriveFree DEF FreePcs
    <2> QED BY <1>2, <1>9, <2>3, TablesRest DEF TargetLockBusy, coordination
  \* The version fence of a replay is read from a planned operation.
  <1>10. ASSUME NEW t, req' = [req EXCEPT ![r] = t], t.pc = "closeClaim", t.version = op[o].version,
                op[o].status = "planned", op' = op
         PROVE  RequestsArrive
    <2>1. req'[r].pc = "closeClaim" /\ req'[r].version = op[o].version
      BY <1>10, SafeRows
    <2>2. RequestSafe(r)'
      BY <2>1 DEF RequestSafe, At, UnsentPcs, SentPcs
    <2>3. RequestShape(r)'
      BY <1>1, <1>10, <2>1, SafeRows DEF RequestShape
    <2> QED BY <1>10, <2>2, <2>3, OneArrives
  <1>11. CASE ResolveBusy(r)
    <2>1. UNCHANGED <<op, rec, lock>>
      BY <1>11 DEF ResolveBusy, coordination
    <2>2. CASE Goto(r, "done")
      BY <1>2, <1>3, <2>1, <2>2, TablesRest DEF FreePcs
    <2>3. CASE \E pc \in {"conflict", "closeClaim"}, s \in {"none", "failed"} :
                 /\ req' = [req EXCEPT ![r].pc = pc, ![r].version = op[o].version, ![r].saw = s]
                 /\ pc = "closeClaim" => op[o].status = "planned"
      <3>1. PICK pc \in {"conflict", "closeClaim"}, s \in {"none", "failed"} :
              /\ req' = [req EXCEPT ![r].pc = pc, ![r].version = op[o].version, ![r].saw = s]
              /\ pc = "closeClaim" => op[o].status = "planned"
        BY <2>3
      <3> DEFINE t == [req[r] EXCEPT !.pc = pc, !.version = op[o].version, !.saw = s]
      <3>2. req' = [req EXCEPT ![r] = t] /\ t.pc = pc /\ t.version = op[o].version
        BY <1>1, <3>1 DEF Threads
      <3> HIDE DEF t
      <3>3. RequestsArrive
        BY <1>10, <2>1, <3>1, <3>2, ArriveFree DEF FreePcs
      <3> QED BY <1>2, <2>1, <3>3, TablesRest
    <2> QED BY <1>11, <2>2, <2>3 DEF ResolveBusy, RecoverableReplay
  <1>12. CASE RecordConflict(r)
    <2>1. /\ Goto(r, "done") /\ UNCHANGED <<rec, lock>>
          /\ \/ op' = op
             \/ \E to \in {"failed", "blocked"} :
                  op' = [op EXCEPT ![o] = Moved(op[o], to)] /\ op[o].status = "planned"
      BY <1>12 DEF RecordConflict, CloseOnConflict
    <2>2. \A to \in {"failed", "blocked"} :
            Moved(op[o], to).status = to /\ Moved(op[o], to).version = op[o].version + 1
      <3> TAKE to \in {"failed", "blocked"}
      <3>1. to \in OperationStatuses \cup {"none"} /\ op[o] \in OpRows
        BY <1>1, SafeRows DEF OperationStatuses
      <3> QED BY <3>1, MovedType
    <2>3. TablesStep
      BY <1>1, <1>2, <2>1, <2>2, TablesOperation
    <2> QED BY <1>3, <2>1, <2>3 DEF FreePcs
  <1>13. CASE RecheckUnderLock(r)
    <2>1. UNCHANGED <<op, rec, lock>> /\ req[r].pc \in UnsentPcs
      BY <1>13 DEF RecheckUnderLock, coordination, At, UnsentPcs
    <2>2. CASE \E pc \in {"release", "recordPrecheck"} : Goto(r, pc)
      BY <1>2, <1>4, <1>5, <2>1, <2>2, TablesRest DEF UnsentPcs
    <2>3. CASE /\ req' = [req EXCEPT ![r].pc = "closeClaim", ![r].version = op[o].version, ![r].seen = r]
               /\ op[o].status = "planned"
      <3> DEFINE t == [req[r] EXCEPT !.pc = "closeClaim", !.version = op[o].version, !.seen = r]
      <3>1. req' = [req EXCEPT ![r] = t] /\ t.pc = "closeClaim" /\ t.version = op[o].version
        BY <1>1, <2>3 DEF Threads
      <3> HIDE DEF t
      <3> QED BY <1>2, <1>10, <2>1, <2>3, <3>1, TablesRest
    <2> QED BY <1>13, <2>2, <2>3 DEF RecheckUnderLock, RecoverableReplay
  <1>14. CASE \/ RecordPrecheck(r) \/ RecordStart(r) \/ RecordBlocked(r) \/ RecordUnsentFailure(r)
              \/ Precheck(r) \/ AbandonUnsent(r) \/ OpenMutationClient(r)
    <2>1. PICK pc \in UnsentPcs : Goto(r, pc)
      BY <1>14 DEF RecordPrecheck, RecordStart, RecordBlocked, RecordUnsentFailure, Precheck,
                   AbandonUnsent, OpenMutationClient, UnsentPcs
    <2>2. UNCHANGED <<op, rec, lock>> /\ req[r].pc \in UnsentPcs
      BY <1>14 DEF RecordPrecheck, RecordStart, RecordBlocked, RecordUnsentFailure, Precheck,
                   AbandonUnsent, OpenMutationClient, coordination, At, UnsentPcs
    <2> QED BY <1>2, <1>4, <1>5, <2>1, <2>2, TablesRest
  <1>15. CASE BlockOperation(r) \/ CloseUnsentFailure(r)
    <2>1. UNCHANGED <<rec, lock>> /\ req[r].pc \in UnsentPcs
      BY <1>15 DEF BlockOperation, CloseUnsentFailure, At, UnsentPcs
    <2>2. CASE \E to \in {"failed", "blocked"}, pc \in {"blockJob", "release"} :
                 CloseUnsent(o, to, r) /\ Goto(r, pc)
      <3>1. PICK to \in {"failed", "blocked"}, pc \in {"blockJob", "release"} :
              CloseUnsent(o, to, r) /\ Goto(r, pc)
        BY <2>2
      <3>2. PICK row : /\ op[o].status = "planned" /\ op' = [op EXCEPT ![o] = row]
                       /\ row.version = op[o].version + 1 /\ row.status = to
        BY <1>1, <3>1, CloseUnsentRow
      <3>3. TablesStep
        BY <1>1, <1>2, <2>1, <3>2, TablesOperation
      <3>4. op'[o].status # "none"
        BY <1>1, <3>2, SafeRows
      <3> QED BY <1>4, <2>1, <3>1, <3>3, <3>4 DEF UnsentPcs
    <2>3. CASE Goto(r, "done") /\ op' = op
      BY <1>2, <1>3, <2>1, <2>3, TablesRest DEF FreePcs
    <2> QED BY <1>15, <2>2, <2>3 DEF BlockOperation, CloseUnsentFailure
  <1>16. CASE RegisterRecovery(r)
    <2>1. /\ UNCHANGED <<op, lock>> /\ req[r].pc \in UnsentPcs
          /\ At(r, "claim")
      BY <1>16 DEF RegisterRecovery, At, UnsentPcs
    <2>2. CASE PrepareAndClaim(o, r, FALSE)
               /\ req' = [req EXCEPT ![r].pc = "commitDispatch", ![r].gen = rec'[o].gen]
      <3>1. lock[VmOf[o]] = r
        BY <1>1, <2>1, <2>2 DEF RequestSafe, PrepareAndClaim, Claimable
      <3>2. op[o].status \notin Uncertain
        BY <1>1, <2>1, <3>1 DEF RequestSafe, OperationSafe, ExactLock
      <3>3. \E l \in LockIds, m \in BOOLEAN : PrepareAndClaim(o, l, m) /\ op[o].status \notin Uncertain
        BY <1>1, <2>2, <3>2
      <3>4. TablesStep
        BY <1>1, <1>2, <1>5, <2>1, <3>3, TablesClaim
      <3>5. rec'[o].phase = "pre_dispatch"
        <4>1. rec[o] \in RecRows /\ Prepared(rec[o], r, FALSE).phase = "pre_dispatch"
          BY <1>1, SafeRows DEF Prepared, RecRows
        <4>2. Prepared(rec[o], r, FALSE) \in RecRows
          <5> DEFINE n == rec[o].marker \/ FALSE
          <5>1. n \in BOOLEAN
            BY <4>1 DEF RecRows
          <5>2. Prepared(rec[o], r, FALSE) = [rec[o] EXCEPT !.phase = "pre_dispatch", !.lockId = r, !.marker = n]
            BY DEF Prepared
          <5> HIDE DEF n
          <5>3. r \in LockIds
            BY DEF LockIds
          <5> QED BY <4>1, <5>1, <5>2, <5>3 DEF RecRows
        <4>3. Leased(Prepared(rec[o], r, FALSE)).phase = "pre_dispatch"
          BY <4>1, <4>2, LeasedType
        <4> QED BY <1>1, <2>2, <4>3, SafeRows DEF PrepareAndClaim
      <3> DEFINE t == [req[r] EXCEPT !.pc = "commitDispatch", !.gen = rec'[o].gen]
      <3>6. req' = [req EXCEPT ![r] = t] /\ t.pc = "commitDispatch"
        BY <1>1, <2>2 DEF Threads
      <3> HIDE DEF t
      <3>7. req'[r].pc = "commitDispatch"
        BY <3>6, SafeRows
      <3>8. RequestSafe(r)' /\ RequestShape(r)'
        BY <1>5, <2>1, <3>1, <3>5, <3>7 DEF RequestSafe, RequestShape, At, UnsentPcs, SentPcs
      <3> QED BY <3>4, <3>6, <3>8, OneArrives
    <2>3. CASE Goto(r, "failJob") /\ UNCHANGED rec
      BY <1>2, <1>4, <1>5, <2>1, <2>3, TablesRest DEF UnsentPcs
    <2> QED BY <1>16, <2>2, <2>3 DEF RegisterRecovery
  <1>17. CASE ReleaseTarget(r)
    <2>1. At(r, "release") /\ Release(r) /\ Goto(r, "done") /\ UNCHANGED <<op, rec>>
      BY <1>17 DEF ReleaseTarget
    <2>2. ~At(r, "release")'
      BY <2>1, GotoRow, SafeRows DEF At
    <2> QED BY <1>2, <1>3, <2>1, <2>2, TablesRelease DEF FreePcs
  <1>18. CASE ClaimReplay(r)
    <2>1. UNCHANGED <<op, lock>> /\ At(r, "closeClaim")
      BY <1>18 DEF ClaimReplay
    <2>2. CASE /\ op[o].version = req[r].version
               /\ PrepareAndClaim(o, req[r].seen, FALSE)
               /\ req' = [req EXCEPT ![r].pc = "closeCommit", ![r].gen = rec'[o].gen]
      <3>1. op[o].status = "planned"
        BY <1>1, <2>1, <2>2 DEF RequestShape
      <3>2. op[o].status # "none" /\ op[o].status \notin Uncertain
        BY <3>1 DEF Uncertain
      <3>3. \E l \in LockIds, m \in BOOLEAN : PrepareAndClaim(o, l, m) /\ op[o].status \notin Uncertain
        BY <1>1, <2>2, <3>2
      <3>4. TablesStep
        BY <1>1, <1>2, <2>1, <3>2, <3>3, TablesClaim
      <3> DEFINE t == [req[r] EXCEPT !.pc = "closeCommit", !.gen = rec'[o].gen]
      <3>5. req' = [req EXCEPT ![r] = t] /\ t.pc = "closeCommit"
        BY <1>1, <2>2 DEF Threads
      <3> HIDE DEF t
      <3> QED BY <3>4, <3>5, ArriveFree DEF FreePcs
    <2>3. CASE Goto(r, "done") /\ UNCHANGED rec
      BY <1>2, <1>3, <2>1, <2>3, TablesRest DEF FreePcs
    <2> QED BY <1>18, <2>2, <2>3 DEF ClaimReplay
  <1>19. CASE CommitReplay(r)
    <2>1. RequestsArrive
      BY <1>3, <1>19 DEF CommitReplay, FreePcs
    <2>2. CASE Commit(o, req[r].gen, {"planned"}, "failed", Ended(o, "completed", FALSE), TRUE)
      <3>1. "failed" \in TerminalStatuses \cap StatusesInUse
        BY DEF TerminalStatuses, StatusesInUse
      <3>2. op[o].status \notin Uncertain
        BY <2>2 DEF Commit, MayCommit, Uncertain
      <3> QED BY <1>1, <1>2, <2>1, <2>2, <3>1, <3>2, TablesCommitCompleted
    <2>3. CASE UNCHANGED <<op, rec, lock>>
      BY <1>2, <2>1, <2>3, TablesRest
    <2> QED BY <1>19, <2>2, <2>3 DEF CommitReplay
  <1> QED BY <1>6, <1>7, <1>8, <1>9, <1>11, <1>12, <1>13, <1>14, <1>15, <1>16, <1>17, <1>18, <1>19

-----------------------------------------------------------------------------
(* The foreground workflow, from the dispatch checkpoint on. *)

\* A request past its POST goes on, or ends.
LEMMA GotoSent ==
  ASSUME SafeInv, NEW r \in Requests, NEW pc \in (SentPcs \ {"post", "commitRejected"}) \cup {"done"},
         Goto(r, pc), req[r].pc \in SentPcs \ {"post"}, UNCHANGED posts
  PROVE  RequestsArrive
  <1>1. PICK t : req' = [req EXCEPT ![r] = t] /\ t.pc = pc
    BY GotoRow
  <1>2. CASE pc = "done"
    BY <1>1, <1>2, ArriveFree DEF FreePcs
  <1>3. CASE pc \in SentPcs \ {"post", "commitRejected"}
    BY <1>1, <1>3, ArriveSent
  <1> QED BY <1>2, <1>3

\* The commit of a request whose mutation was sent: the outcome may be settled now.
LEMMA CommitOrStopSafe ==
  ASSUME SafeInv, NEW r \in Requests, NEW from, NEW to \in StatusesInUse \ {"dispatching"}, NEW item,
         NEW next \in (SentPcs \ {"post", "commitRejected"}) \cup {"done"},
         CommitOrStop(r, from, to, item, FALSE, next),
         \/ item = Kept(OpOf[r])
         \/ \E s \in {"retry_wait", "paused"}, b \in BOOLEAN : item = Ended(OpOf[r], s, b),
         req[r].pc \in SentPcs \ {"post"}, UNCHANGED <<task, posts>>
  PROVE  TablesStep /\ RequestsArrive
  <1>1. OpOf[r] \in Ops /\ posts[OpOf[r]] = 1
    BY SafeRows DEF RequestSafe
  <1>2. CASE Commit(OpOf[r], req[r].gen, from, to, item, FALSE) /\ Goto(r, next)
    <2>1. RequestsArrive
      BY <1>2, GotoSent
    <2>2. TablesStep
      BY <1>1, <1>2, TablesCommitOpen
    <2> QED BY <2>1, <2>2
  <1>3. CASE Goto(r, "done") /\ UNCHANGED <<op, rec, lock>>
    <2>1. RequestsArrive
      BY <1>3, GotoSent
    <2>2. TablesStep
      BY <1>3, TablesRest
    <2> QED BY <2>1, <2>2
  <1> QED BY <1>2, <1>3 DEF CommitOrStop

\* The dispatch checkpoint: the request may send now, and nothing was sent before.
LEMMA DispatchSafe ==
  ASSUME SafeInv, NEW r \in Requests, CommitDispatching(r)
  PROVE  TablesStep /\ RequestsArrive
  <1> DEFINE o == OpOf[r]
  <1>1. o \in Ops /\ At(r, "commitDispatch") /\ UNCHANGED <<task, posts>>
    BY SafeRows DEF CommitDispatching, Stay, proxmox
  <1>2. CASE Goto(r, "done") /\ UNCHANGED <<op, rec, lock>>
    <2>1. PICK t : req' = [req EXCEPT ![r] = t] /\ t.pc = "done"
      BY <1>2, GotoRow
    <2> QED BY <1>1, <1>2, <2>1, TablesRest, ArriveFree DEF FreePcs
  <1>3. CASE /\ ExactLock(o) /\ rec[o].lockId = r
             /\ Commit(o, req[r].gen, {"planned"}, "dispatching",
                       [Kept(o) EXCEPT !.phase = "dispatched"], FALSE)
             /\ Goto(r, "post")
    <2>1. PICK t : req' = [req EXCEPT ![r] = t] /\ t.pc = "post"
      BY <1>3, GotoRow
    <2>2. req'[r].pc = "post"
      BY <2>1, SafeRows
    <2>3. TablesStep
      BY <1>1, <1>3, <2>2, TablesDispatch DEF At
    <2>4. op'[o].status = "dispatching"
      <3>1. Moved(op[o], "dispatching").status = "dispatching"
        BY <1>1, SafeRows, MovedType, StatusNames
      <3> QED BY <1>1, <1>3, <3>1, SafeRows DEF Commit
    <2>5. rec'[o].lockId = r
      <3>1. [Kept(o) EXCEPT !.phase = "dispatched"].lockId = rec[o].lockId
        BY <1>1, SafeRows, ItemLock
      <3> QED BY <1>1, <1>3, <3>1, SafeRows DEF Commit
    <2>6. posts[o] = 0 /\ task[o] = "none"
      BY <1>1, <1>3, SafeRows DEF OperationSafe, Commit, MayCommit
    <2>7. RequestSafe(r)' /\ RequestShape(r)'
      BY <1>1, <2>2, <2>4, <2>5, <2>6
         DEF RequestSafe, RequestShape, At, UnsentPcs, SentPcs, Uncertain
    <2> QED BY <2>1, <2>3, <2>7, OneArrives
  <1> QED BY <1>2, <1>3 DEF CommitDispatching, CommitOrStop

\* The POST: it was sent once now; rejected, it started nothing.
LEMMA PostSafe ==
  ASSUME SafeInv, NEW r \in Requests, PostMutation(r)
  PROVE  TablesStep /\ RequestsArrive
  <1> DEFINE o == OpOf[r]
  <1>1. o \in Ops /\ posts[o] = 0 /\ task[o] = "none" /\ posts' = [posts EXCEPT ![o] = posts[o] + 1]
    BY SafeRows DEF PostMutation, RequestSafe, At
  <1>2. posts'[o] = 1
    BY <1>1, SafeRows
  <1>3. PICK pc \in {"commitRunning", "commitRejected", "ambiguous"} :
          Goto(r, pc) /\ (pc = "commitRejected" => task' = task)
    BY DEF PostMutation
  <1>4. PICK t : req' = [req EXCEPT ![r] = t] /\ t.pc = pc
    BY <1>3, GotoRow
  <1>5. req'[r].pc = pc
    BY <1>4, SafeRows
  <1>6. RequestSafe(r)' /\ RequestShape(r)'
    BY <1>1, <1>2, <1>3, <1>5 DEF RequestSafe, RequestShape, At, UnsentPcs, SentPcs
  <1>7. RequestsArrive
    BY <1>4, <1>6, OneArrives
  <1> QED BY <1>7, TablesPost

\* The task reference is recorded together with the running status.
LEMMA RunningSafe ==
  ASSUME SafeInv, NEW r \in Requests, CommitRunning(r)
  PROVE  TablesStep /\ RequestsArrive
  <1> DEFINE o == OpOf[r]
             row == [Moved(op[o], "running") EXCEPT !.upid = TRUE]
             item == [Kept(o) EXCEPT !.upid = TRUE]
  <1>1. o \in Ops /\ At(r, "commitRunning") /\ UNCHANGED <<task, posts>>
    BY SafeRows DEF CommitRunning, Stay, proxmox
  <1>2. posts[o] = 1 /\ req[r].pc \in SentPcs \ {"post"}
    BY <1>1, SafeRows DEF RequestSafe, At, SentPcs
  <1>3. RequestsArrive
    <2>1. \E pc \in {"recordPoll", "done"} : Goto(r, pc)
      BY DEF CommitRunning
    <2> QED BY <1>1, <1>2, <2>1, GotoSent DEF SentPcs
  <1>4. CASE UNCHANGED <<op, rec, lock>>
    BY <1>1, <1>3, <1>4, TablesRest
  <1>5. CASE /\ MayCommit(o, req[r].gen, {"dispatching"}, "running", FALSE)
             /\ op' = [op EXCEPT ![o] = row] /\ rec' = [rec EXCEPT ![o] = item] /\ lock' = lock
    <2>1. Moved(op[o], "running") \in OpRows /\ Moved(op[o], "running").status = "running"
          /\ Moved(op[o], "running").version = op[o].version + 1
      BY <1>1, SafeRows, MovedType, StatusNames
    <2>2. row.status = "running" /\ row.version = op[o].version + 1
      BY <2>1 DEF OpRows
    <2>3. rec[o].status = "leased"
      BY <1>5 DEF MayCommit, LeaseOwned
    <2>4. item.lockId = rec[o].lockId /\ item.status = rec[o].status
      BY <1>1, SafeRows, ItemLock
    <2>5. item.phase = rec[o].phase
      BY <1>1, ItemPhase
    <2>6. item \in RecRows
      BY <1>1, SafeRows, RowTypes
    <2>7. "running" \in StatusesInUse /\ "running" \in Uncertain /\ "leased" \in Open
      BY DEF StatusesInUse, Uncertain, Open
    <2> HIDE DEF row, item
    <2>8. \E x : op' = [op EXCEPT ![o] = x] /\ x.status = "running" /\ x.version = op[o].version + 1
      BY <1>5, <2>2
    <2>9. item.status \in Open
      BY <2>3, <2>4, <2>7
    <2>10. TablesStep
      BY <1>1, <1>5, <2>4, <2>5, <2>6, <2>7, <2>8, <2>9, TablesCommit
    <2> QED BY <1>3, <2>10
  <1> QED BY <1>4, <1>5 DEF CommitRunning

\* Steps after the POST: none of them sends again.
LEMMA SentSafe ==
  ASSUME SafeInv, NEW r \in Requests,
         \/ CommitRejected(r) \/ RecordPoll(r) \/ PollTask(r) \/ ReadVmStatus(r)
         \/ CommitVerifying(r) \/ WriteArtifact(r) \/ RequireReconciliation(r)
         \/ RecordReconciliation(r) \/ CommitTerminal(r) \/ RecordTerminal(r) \/ HandOff(r)
         \/ FinishTerminal(r)
  PROVE  TablesStep /\ RequestsArrive
  <1> DEFINE o == OpOf[r]
  <1>1. o \in Ops /\ req[r] \in Threads /\ RequestVerdict(r)
    BY SafeRows, ClosedRows DEF ClosedInv, Closed
  <1>2. UNCHANGED <<task, posts>>
    BY DEF Stay, proxmox, CommitRejected, RecordPoll, PollTask, ReadVmStatus, CommitVerifying,
           WriteArtifact, RequireReconciliation, RecordReconciliation, CommitTerminal,
           RecordTerminal, HandOff, FinishTerminal
  <1>3. req[r].pc \in SentPcs \ {"post"} /\ posts[o] = 1
    <2>1. req[r].pc \in SentPcs \ {"post"}
      BY DEF At, SentPcs, CommitRejected, RecordPoll, PollTask, ReadVmStatus, CommitVerifying,
             WriteArtifact, RequireReconciliation, RecordReconciliation, CommitTerminal,
             RecordTerminal, HandOff, FinishTerminal
    <2> QED BY <2>1, SafeRows DEF RequestSafe
  <1>4. \A pc \in {"ambiguous", "recordPoll", "poll", "look", "commitVerifying", "artifact",
                   "reconcile", "reconcileJob", "commitTerminal", "terminalJob", "handoff", "finish"} :
          pc \in SentPcs \ {"post", "commitRejected"}
    BY DEF SentPcs
  <1>5. {"succeeded", "failed", "needs_reconciliation", "verifying"} \subseteq StatusesInUse \ {"dispatching"}
    BY DEF StatusesInUse, Uncertain
  <1>6. CASE CommitRejected(r)
    <2>1. CASE /\ Commit(o, req[r].gen, {"dispatching"}, "failed", Kept(o), FALSE)
               /\ req' = [req EXCEPT ![r].pc = "terminalJob", ![r].saw = "failed"]
      <3> DEFINE t == [req[r] EXCEPT !.pc = "terminalJob", !.saw = "failed"]
      <3>1. req' = [req EXCEPT ![r] = t] /\ t.pc = "terminalJob"
        BY <1>1, <2>1 DEF Threads
      <3> HIDE DEF t
      <3>2. RequestsArrive
        BY <1>2, <1>3, <1>4, <3>1, ArriveSent
      <3>3. TablesStep
        BY <1>1, <1>2, <1>3, <1>5, <2>1, TablesCommitOpen
      <3> QED BY <3>2, <3>3
    <2>2. CASE Goto(r, "done") /\ UNCHANGED <<op, rec, lock>>
      BY <1>2, <1>3, <2>2, TablesRest, GotoSent
    <2> QED BY <1>6, <2>1, <2>2 DEF CommitRejected
  <1>7. CASE RecordPoll(r) \/ RecordReconciliation(r) \/ WriteArtifact(r) \/ RecordTerminal(r)
    <2>1. \E pc \in {"poll", "reconcile", "commitTerminal", "handoff", "finish", "done"} : Goto(r, pc)
      BY <1>7 DEF RecordPoll, RecordReconciliation, WriteArtifact, RecordTerminal
    <2>2. UNCHANGED <<op, rec, lock>>
      BY <1>7 DEF RecordPoll, RecordReconciliation, WriteArtifact, RecordTerminal, coordination
    <2>3. RequestsArrive
      BY <1>2, <1>3, <1>4, <2>1, GotoSent
    <2> QED BY <1>2, <2>2, <2>3, TablesRest
  <1>8. CASE PollTask(r) \/ ReadVmStatus(r)
    <2>1. UNCHANGED <<op, rec, lock>>
      BY <1>8 DEF PollTask, ReadVmStatus, coordination
    <2>2. CASE Goto(r, "done")
      BY <1>2, <1>3, <2>1, <2>2, TablesRest, GotoSent
    <2>3. CASE \E pc \in {"look", "commitVerifying"} : \E s : req' = [req EXCEPT ![r].pc = pc, ![r].saw = s]
      <3>1. PICK pc \in {"look", "commitVerifying"} : \E s : req' = [req EXCEPT ![r].pc = pc, ![r].saw = s]
        BY <2>3
      <3>2. PICK s : req' = [req EXCEPT ![r].pc = pc, ![r].saw = s]
        BY <3>1
      <3> DEFINE t == [req[r] EXCEPT !.pc = pc, !.saw = s]
      <3>3. req' = [req EXCEPT ![r] = t] /\ t.pc = pc
        BY <1>1, <3>2 DEF Threads
      <3> HIDE DEF t
      <3>4. RequestsArrive
        BY <1>2, <1>3, <1>4, <3>3, ArriveSent
      <3> QED BY <1>2, <2>1, <3>4, TablesRest
    <2> QED BY <1>8, <2>2, <2>3 DEF PollTask, ReadVmStatus
  <1>9. CASE CommitVerifying(r)
    BY <1>2, <1>3, <1>4, <1>5, <1>9, CommitOrStopSafe DEF CommitVerifying
  <1>10. CASE RequireReconciliation(r)
    <2>1. CASE \E s \in {"retry_wait", "paused"} :
                 CommitOrStop(r, {"dispatching", "running", "verifying"}, "needs_reconciliation",
                              Ended(o, s, FALSE), FALSE, "reconcileJob")
      <3>1. PICK s \in {"retry_wait", "paused"} :
              CommitOrStop(r, {"dispatching", "running", "verifying"}, "needs_reconciliation",
                           Ended(o, s, FALSE), FALSE, "reconcileJob")
        BY <2>1
      <3> DEFINE item == Ended(o, s, FALSE)
      <3>2. \E x \in {"retry_wait", "paused"}, b \in BOOLEAN : item = Ended(o, x, b)
        OBVIOUS
      <3> HIDE DEF item
      <3> QED BY <1>2, <1>3, <1>4, <1>5, <3>1, <3>2, CommitOrStopSafe DEF item
    <2>2. CASE Goto(r, "done") /\ UNCHANGED <<op, rec, lock>>
      BY <1>2, <1>3, <2>2, TablesRest, GotoSent
    <2> QED BY <1>10, <2>1, <2>2 DEF RequireReconciliation
  <1>11. CASE CommitTerminal(r)
    <2>1. req[r].saw \in {"succeeded", "failed"}
      BY <1>1, <1>11 DEF CommitTerminal, At, RequestVerdict
    <2> QED BY <1>2, <1>3, <1>4, <1>5, <1>11, <2>1, CommitOrStopSafe DEF CommitTerminal
  <1>12. CASE HandOff(r)
    <2> DEFINE to == IF op[o].status \in {"succeeded", "failed"} THEN op[o].status ELSE "needs_reconciliation"
    <2>1. CASE \E s \in {"retry_wait", "paused"}, b \in BOOLEAN :
                 CommitOrStop(r, {"dispatching", "verifying", "succeeded", "failed"}, to,
                              Ended(o, s, b), FALSE, "done")
      <3>1. to \in StatusesInUse \ {"dispatching"}
        BY <1>5
      <3> HIDE DEF to
      <3>2. PICK s \in {"retry_wait", "paused"}, b \in BOOLEAN :
              CommitOrStop(r, {"dispatching", "verifying", "succeeded", "failed"}, to,
                           Ended(o, s, b), FALSE, "done")
        BY <2>1
      <3> DEFINE item == Ended(o, s, b)
      <3>3. \E x \in {"retry_wait", "paused"}, y \in BOOLEAN : item = Ended(o, x, y)
        OBVIOUS
      <3> HIDE DEF item
      <3> QED BY <1>2, <1>3, <3>1, <3>2, <3>3, CommitOrStopSafe DEF item
    <2>2. CASE Goto(r, "done") /\ UNCHANGED <<op, rec, lock>>
      BY <1>2, <1>3, <2>2, TablesRest, GotoSent
    <2> QED BY <1>12, <2>1, <2>2 DEF HandOff
  <1>13. CASE FinishTerminal(r)
    <2>1. req[r].saw \in {"succeeded", "failed"}
      BY <1>1, <1>13 DEF FinishTerminal, At, RequestVerdict
    <2>2. CASE Commit(o, req[r].gen, {req[r].saw}, req[r].saw, Ended(o, "completed", FALSE), TRUE)
               /\ Goto(r, "done")
      <3>1. req[r].saw \in TerminalStatuses \cap StatusesInUse
        BY <1>5, <2>1 DEF TerminalStatuses
      <3>2. op[o].status \notin Uncertain
        BY <2>1, <2>2 DEF Commit, MayCommit, Uncertain
      <3>3. TablesStep
        BY <1>1, <1>2, <2>2, <3>1, <3>2, TablesCommitCompleted
      <3> QED BY <1>2, <1>3, <2>2, <3>3, GotoSent
    <2>3. CASE Goto(r, "done") /\ UNCHANGED <<op, rec, lock>>
      BY <1>2, <1>3, <2>3, TablesRest, GotoSent
    <2> QED BY <1>13, <2>2, <2>3 DEF FinishTerminal, CommitOrStop
  <1> QED BY <1>6, <1>7, <1>8, <1>9, <1>10, <1>11, <1>12, <1>13

-----------------------------------------------------------------------------
(* The observers. *)

\* Places where an observer relies on nothing it saw.
FreeObserverPcs == ObserverPcs \ {"prepare", "bind", "closeUnsent", "observeVm", "correlate", "succeed", "fail"}

\* One observer moves: the others stand still.
LEMMA ObserverArrives ==
  ASSUME SafeInv, NEW w \in Observers, NEW t, obs' = [obs EXCEPT ![w] = t],
         \/ t.pc \in FreeObserverPcs
         \/ ObserverSafe(w)' /\ ObserverShape(w)'
  PROVE  ObserversArrive
  <1>1. obs'[w] = t
    BY SafeRows
  <1>2. CASE t.pc \in FreeObserverPcs
    BY <1>1, <1>2, SafeRows DEF ObserversArrive, ObserverSafe, ObserverShape, ObserverAt, FreeObserverPcs
  <1>3. CASE ObserverSafe(w)' /\ ObserverShape(w)'
    BY <1>3, SafeRows DEF ObserversArrive
  <1> QED BY <1>2, <1>3

\* An observer that gives up relies on nothing.
LEMMA RestSafe ==
  ASSUME SafeInv, NEW w \in Observers, Rest(w)
  PROVE  ObserversArrive
  <1>1. \A pc \in {"idle", "registered", "done"} :
          Observer(pc).pc = pc /\ \A o \in Ops : [Observer(pc) EXCEPT !.o = o].pc = pc
    BY DEF Observer
  <1>2. \E t : obs' = [obs EXCEPT ![w] = t] /\ t.pc \in {"idle", "registered", "done"}
    BY <1>1, SafeRows DEF Rest
  <1> QED BY <1>2, ObserverArrives DEF FreeObserverPcs, ObserverPcs

\* What an observer that only moves still remembers.
LEMMA AdvanceRow ==
  ASSUME SafeInv, NEW w \in Observers, NEW pc, Advance(w, pc)
  PROVE  \E t : /\ obs' = [obs EXCEPT ![w] = t] /\ obs'[w] = t
                /\ t.pc = pc /\ t.o = obs[w].o /\ t.status = obs[w].status
                /\ t.saw = obs[w].saw
  <1> DEFINE t == [obs[w] EXCEPT !.pc = pc]
  <1>1. t.pc = pc /\ t.o = obs[w].o /\ t.status = obs[w].status /\ t.saw = obs[w].saw
    BY SafeRows DEF ObserverRows
  <1>2. obs' = [obs EXCEPT ![w] = t]
    BY DEF Advance
  <1> HIDE DEF t
  <1>3. obs'[w] = t
    BY <1>2, SafeRows
  <1> QED BY <1>1, <1>2, <1>3

\* Moving to a place where it relies on nothing.
LEMMA AdvanceFree ==
  ASSUME SafeInv, NEW w \in Observers, NEW pc \in FreeObserverPcs, Advance(w, pc)
  PROVE  ObserversArrive
  BY AdvanceRow, ObserverArrives

\* A commit that repeats the status, moves it on among the open ones, or settles a task that
\* Proxmox reported.
LEMMA ObserverCommit ==
  ASSUME SafeInv, NEW o \in Ops, NEW g, NEW from, NEW to, NEW item,
         Commit(o, g, from, to, item, FALSE), UNCHANGED <<task, posts>>,
         \/ item = Kept(o)
         \/ \E s \in {"retry_wait", "paused"}, b \in BOOLEAN : item = Ended(o, s, b),
         \/ to = op[o].status
         \/ to \in Uncertain \ {"dispatching"}
         \/ to \in {"succeeded", "failed"} /\ task[o] # "none"
  PROVE  TablesStep
  <1>1. to \in StatusesInUse
    BY SafeRows DEF StatusInUse, StatusesInUse
  <1>2. to = "dispatching" => op[o].status = "dispatching"
    OBVIOUS
  <1>3. to \in Uncertain \/ op[o].status \notin Uncertain \/ posts[o] = 1 \/ task[o] # "none"
    OBVIOUS
  <1> QED BY <1>1, <1>2, <1>3, TablesCommitOpen

\* Claiming, and losing a claim.
LEMMA ClaimingSafe ==
  ASSUME SafeInv, NEW w \in Observers,
         \/ ClaimDueWork(w) \/ RequestObservation(w) \/ RepeatObservation(w)
         \/ ClaimObservation(w) \/ RecordRequest(w) \/ LeaseLost(w) \/ ObserverCrashes(w)
  PROVE  TablesStep /\ ObserversArrive
  <1>1. /\ obs[w] \in ObserverRows /\ obs[w].o \in Ops /\ obs[w].seen \in LockIds
        /\ ObserverSafe(w) /\ ObserverShape(w)
    BY SafeRows DEF ObserverRows
  <1>2. UNCHANGED <<task, posts>>
    BY DEF Hold, proxmox, ClaimDueWork, RequestObservation, RepeatObservation, ClaimObservation,
           RecordRequest, LeaseLost, ObserverCrashes
  <1>3. \A pc \in {"load", "claim", "request", "repeat"} : pc \in FreeObserverPcs
    BY DEF FreeObserverPcs, ObserverPcs
  <1>4. CASE ClaimDueWork(w)
    <2>1. PICK o \in Ops : ClaimDue(o)
                           /\ obs' = [obs EXCEPT ![w].pc = "load", ![w].o = o, ![w].gen = rec'[o].gen]
      BY <1>4 DEF ClaimDueWork
    <2> DEFINE t == [obs[w] EXCEPT !.pc = "load", !.o = o, !.gen = rec'[o].gen]
    <2>2. obs' = [obs EXCEPT ![w] = t] /\ t.pc = "load"
      BY <1>1, <2>1 DEF ObserverRows
    <2> HIDE DEF t
    <2>3. ObserversArrive
      BY <1>3, <2>2, ObserverArrives
    <2>4. op[o].status # "none"
      BY <2>1, SafeRows DEF ClaimDue, OperationSafe
    <2>5. UNCHANGED <<op, lock>>
      BY <1>4 DEF ClaimDueWork
    <2>6. TablesStep
      BY <1>2, <2>1, <2>4, <2>5, TablesClaim
    <2> QED BY <2>3, <2>6
  <1>5. CASE RequestObservation(w)
    <2>1. PICK o \in Ops, pc \in {"prepare", "claim"} :
            /\ obs' = [obs EXCEPT ![w].pc = pc, ![w].o = o, ![w].status = op[o].status,
                                  ![w].version = op[o].version, ![w].seen = lock[VmOf[o]]]
            /\ pc = "prepare" => /\ rec[o].status = "none"
                                 /\ op[o].status \in {"planned", "dispatching", "failed", "blocked"}
      BY <1>5 DEF RequestObservation, ProvenUnsent
    <2> DEFINE t == [obs[w] EXCEPT !.pc = pc, !.o = o, !.status = op[o].status,
                                   !.version = op[o].version, !.seen = lock[VmOf[o]]]
    <2>2. /\ obs' = [obs EXCEPT ![w] = t] /\ t.pc = pc /\ t.o = o /\ t.status = op[o].status
          /\ t.version = op[o].version
      BY <1>1, <2>1 DEF ObserverRows
    <2> HIDE DEF t
    <2>3. obs'[w] = t
      BY <2>2, SafeRows
    <2>4. UNCHANGED <<op, rec, lock>>
      BY <1>5 DEF RequestObservation, coordination
    <2>5. CASE pc = "claim"
      BY <1>2, <1>3, <2>2, <2>4, <2>5, ObserverArrives, TablesRest
    <2>6. CASE pc = "prepare"
      <3>1. op[o].status \in {"planned", "failed", "blocked"}
        BY <2>1, <2>6, SafeRows DEF OperationSafe, Uncertain, Open
      <3>2. ObserverSafe(w)'
        BY <2>2, <2>3, <2>6, <3>1 DEF ObserverSafe, ObserverAt
      <3>3. ObserverShape(w)'
        BY <2>2, <2>3, <2>4, SafeRows DEF ObserverShape, ObserverAt
      <3> QED BY <1>2, <2>2, <2>4, <3>2, <3>3, ObserverArrives, TablesRest
    <2> QED BY <2>5, <2>6
  <1>6. CASE RepeatObservation(w)
    <2> DEFINE t == [obs[w] EXCEPT !.pc = "repeat", !.version = op[obs[w].o].version]
    <2>1. obs' = [obs EXCEPT ![w] = t] /\ t.pc = "repeat"
      BY <1>1, <1>6 DEF RepeatObservation, ObserverRows
    <2> HIDE DEF t
    <2>2. ObserversArrive
      BY <1>3, <2>1, ObserverArrives
    <2> QED BY <1>2, <1>6, <2>2, TablesRest DEF RepeatObservation, coordination
  <1>7. CASE ClaimObservation(w)
    <2> DEFINE o == obs[w].o
    <2>1. UNCHANGED <<op, lock>>
      BY <1>7 DEF ClaimObservation
    <2>2. CASE Rest(w) /\ UNCHANGED rec
      BY <1>2, <2>1, <2>2, RestSafe, TablesRest
    <2>3. CASE /\ op[o].version = obs[w].version
               /\ \/ /\ ObserverAt(w, "prepare")
                     /\ PrepareAndClaim(o, obs[w].seen, obs[w].status \in {"failed", "blocked"})
                  \/ ClaimOperation(o)
               /\ \E pc \in {"load", "request"} : obs' = [obs EXCEPT ![w].pc = pc, ![w].gen = rec'[o].gen]
      <3>1. PICK pc \in {"load", "request"} : obs' = [obs EXCEPT ![w].pc = pc, ![w].gen = rec'[o].gen]
        BY <2>3
      <3> DEFINE t == [obs[w] EXCEPT !.pc = pc, !.gen = rec'[o].gen]
      <3>2. obs' = [obs EXCEPT ![w] = t] /\ t.pc = pc
        BY <1>1, <3>1 DEF ObserverRows
      <3> HIDE DEF t
      <3>3. ObserversArrive
        BY <1>3, <3>2, ObserverArrives
      <3>4. CASE ClaimOperation(o)
        <4>1. op[o].status # "none"
          BY <1>1, <3>4, SafeRows DEF ClaimOperation, OperationSafe
        <4> QED BY <1>1, <1>2, <2>1, <3>3, <3>4, <4>1, TablesClaim
      <3>5. CASE /\ ObserverAt(w, "prepare")
                 /\ PrepareAndClaim(o, obs[w].seen, obs[w].status \in {"failed", "blocked"})
        <4> DEFINE m == obs[w].status \in {"failed", "blocked"}
        <4>1. m \in BOOLEAN /\ PrepareAndClaim(o, obs[w].seen, m)
          BY <3>5
        <4> HIDE DEF m
        <4>2. op[o].status \in {"planned", "failed", "blocked"}
          BY <1>1, <2>3, <3>5 DEF ObserverSafe, ObserverShape
        <4>3. op[o].status # "none" /\ op[o].status \notin Uncertain
          BY <4>2 DEF Uncertain
        <4>4. \E l \in LockIds, b \in BOOLEAN : PrepareAndClaim(o, l, b) /\ op[o].status \notin Uncertain
          BY <1>1, <4>1, <4>3
        <4> QED BY <1>1, <1>2, <2>1, <3>3, <4>3, <4>4, TablesClaim
      <3> QED BY <2>3, <3>4, <3>5
    <2> QED BY <1>7, <2>2, <2>3 DEF ClaimObservation
  <1>8. CASE RecordRequest(w)
    <2> DEFINE o == obs[w].o
               st == obs[w].status
    <2>1. CASE /\ Commit(o, obs[w].gen, {st}, st, Kept(o), FALSE)
               /\ obs' = [obs EXCEPT ![w] = [Observer("load") EXCEPT !.o = o, !.gen = obs[w].gen]]
      <3> DEFINE t == [Observer("load") EXCEPT !.o = o, !.gen = obs[w].gen]
      <3>1. obs' = [obs EXCEPT ![w] = t] /\ t.pc = "load"
        BY <2>1 DEF Observer
      <3> HIDE DEF t
      <3>2. ObserversArrive
        BY <1>3, <3>1, ObserverArrives
      <3>3. st = op[o].status
        BY <2>1 DEF Commit, MayCommit
      <3>4. TablesStep
        BY <1>1, <1>2, <2>1, <3>3, ObserverCommit
      <3> QED BY <3>2, <3>4
    <2>2. CASE Rest(w) /\ UNCHANGED <<op, rec, lock>>
      BY <1>2, <2>2, RestSafe, TablesRest
    <2> QED BY <1>8, <2>1, <2>2 DEF RecordRequest
  <1>9. CASE LeaseLost(w) \/ ObserverCrashes(w)
    BY <1>2, <1>9, RestSafe, TablesRest DEF LeaseLost, ObserverCrashes, coordination
  <1> QED BY <1>4, <1>5, <1>6, <1>7, <1>8, <1>9

\* The handlers: they act on the status they read, and on finished tasks only.
LEMMA HandlerSafe ==
  ASSUME SafeInv, NEW w \in Observers,
         \/ LoadOperation(w) \/ ValidateBinding(w) \/ PauseBindingFailure(w) \/ PauseMissingTask(w)
         \/ CompleteUnsent(w) \/ CompleteProjection(w) \/ ObserveTask(w) \/ ObserveVm(w)
         \/ RetryTask(w) \/ AdvanceToVerifying(w) \/ RecordOutcome(w) \/ PauseMismatch(w)
         \/ AbsorbException(w)
  PROVE  TablesStep /\ ObserversArrive
  <1> DEFINE o == obs[w].o
             st == obs[w].status
  <1>1. /\ obs[w] \in ObserverRows /\ o \in Ops /\ ObserverSafe(w) /\ ObserverVerdict(w)
        /\ OperationSafe(o)
    BY SafeRows, ClosedRows DEF ClosedInv, Closed
  <1>2. UNCHANGED <<task, posts>>
    BY DEF Hold, proxmox, LoadOperation, ValidateBinding, PauseBindingFailure, PauseMissingTask,
           CompleteUnsent, CompleteProjection, ObserveTask, ObserveVm, RetryTask,
           AdvanceToVerifying, RecordOutcome, PauseMismatch, AbsorbException
  <1>3. {"project", "pauseMissing", "pauseBinding", "observeTask", "retry", "mismatch", "excepted"}
          \subseteq FreeObserverPcs
    BY DEF FreeObserverPcs, ObserverPcs
  \* The exception of a commit that failed.
  <1>4. ASSUME NEW to, NEW release, HandlerConflict(w, to, release)
        PROVE  TablesStep /\ ObserversArrive
    BY <1>2, <1>3, <1>4, TablesRest, AdvanceFree DEF HandlerConflict
  \* A commit that ends the lease and leaves the work open.
  <1>5. ASSUME NEW to, to = st \/ to \in Uncertain \ {"dispatching"}, NEW s \in {"retry_wait", "paused"},
               NEW b \in BOOLEAN, HandlerCommit(w, to, Ended(o, s, b), FALSE), Rest(w)
        PROVE  TablesStep /\ ObserversArrive
    <2> DEFINE item == Ended(o, s, b)
    <2>1. Commit(o, obs[w].gen, {st}, to, item, FALSE) /\ op[o].status = st
          /\ \E x \in {"retry_wait", "paused"}, y \in BOOLEAN : item = Ended(o, x, y)
      BY <1>5 DEF HandlerCommit, Commit, MayCommit
    <2> HIDE DEF item
    <2>2. TablesStep
      BY <1>1, <1>2, <1>5, <2>1, ObserverCommit
    <2> QED BY <1>5, <2>2, RestSafe
  <1>6. /\ Reconciled(w) = st \/ Reconciled(w) \in Uncertain \ {"dispatching"}
        /\ RetryStatus(o) \in {"retry_wait", "paused"}
    BY DEF Reconciled, RetryStatus, Uncertain
  <1>7. CASE LoadOperation(w)
    <2>1. UNCHANGED <<op, rec, lock>>
      BY <1>7 DEF LoadOperation, coordination
    <2>2. CASE Advance(w, "excepted")
      BY <1>2, <1>3, <2>1, <2>2, TablesRest, AdvanceFree
    <2>3. CASE obs' = [obs EXCEPT ![w].pc = "bind", ![w].status = op[o].status,
                         ![w].next = IF op[o].upid = rec[o].upid THEN Course(o) ELSE "pauseBinding"]
      <3> DEFINE next == IF op[o].upid = rec[o].upid THEN Course(o) ELSE "pauseBinding"
      <3>1. next = "closeUnsent" => op[o].status \in {"planned", "failed", "blocked"}
        <4>1. next = "closeUnsent" => /\ rec[o].phase = "pre_dispatch"
                                      /\ op[o].status \in {"planned", "dispatching", "failed", "blocked"}
          BY DEF Course, ProvenUnsent
        <4> QED BY <1>1, <4>1 DEF OperationSafe, Uncertain
      <3> HIDE DEF next
      <3> DEFINE t == [obs[w] EXCEPT !.pc = "bind", !.status = op[o].status, !.next = next]
      <3>2. obs' = [obs EXCEPT ![w] = t]
        BY <2>3 DEF next
      <3>3. t.pc = "bind" /\ t.next = next /\ t.status = op[o].status
        BY <1>1, ObserverFields
      <3> HIDE DEF t
      <3>4. obs'[w] = t
        BY <3>2, SafeRows
      <3>5. ObserverSafe(w)' /\ ObserverShape(w)'
        BY <3>1, <3>3, <3>4 DEF ObserverSafe, ObserverShape, ObserverAt
      <3>6. ObserversArrive
        BY <3>2, <3>5, ObserverArrives
      <3> QED BY <1>2, <2>1, <3>6, TablesRest
    <2> QED BY <1>7, <2>2, <2>3 DEF LoadOperation
  <1>8. CASE ValidateBinding(w)
    <2>1. UNCHANGED <<op, rec, lock>> /\ ObserverAt(w, "bind")
      BY <1>8 DEF ValidateBinding, Handling, coordination
    <2>2. PICK pc \in {"closeUnsent", "project", "pauseMissing", "pauseBinding", "observeTask"} :
            Advance(w, pc) /\ (pc = "closeUnsent" => obs[w].next = "closeUnsent")
      BY <1>1, <1>8, <2>1 DEF ValidateBinding, ObserverVerdict
    <2>3. CASE pc = "closeUnsent"
      <3>1. st \in {"planned", "failed", "blocked"}
        BY <1>1, <2>1, <2>2, <2>3 DEF ObserverSafe
      <3>2. PICK t : /\ obs' = [obs EXCEPT ![w] = t] /\ obs'[w] = t
                     /\ t.pc = pc /\ t.o = o /\ t.status = st
        BY <2>2, AdvanceRow
      <3>3. ObserverSafe(w)' /\ ObserverShape(w)'
        BY <2>3, <3>1, <3>2 DEF ObserverSafe, ObserverShape, ObserverAt
      <3>4. ObserversArrive
        BY <3>2, <3>3, ObserverArrives
      <3> QED BY <1>2, <2>1, <3>4, TablesRest
    <2>4. CASE pc # "closeUnsent"
      BY <1>2, <1>3, <2>1, <2>2, <2>4, TablesRest, AdvanceFree
    <2> QED BY <2>3, <2>4
  <1>9. CASE PauseBindingFailure(w)
    BY <1>4, <1>5, <1>6, <1>9 DEF PauseBindingFailure
  <1>10. CASE PauseMissingTask(w)
    BY <1>4, <1>5, <1>6, <1>10 DEF PauseMissingTask
  <1>11. CASE CompleteUnsent(w)
    <2>1. st \in {"planned", "failed", "blocked"}
      BY <1>1, <1>11 DEF CompleteUnsent, Handling, ObserverSafe
    <2>2. PICK to \in {"failed", "blocked"} :
            \/ HandlerCommit(w, to, Ended(o, "completed", FALSE), TRUE) /\ Rest(w)
            \/ HandlerConflict(w, to, TRUE)
      BY <1>11 DEF CompleteUnsent
    <2>3. to \in TerminalStatuses \cap StatusesInUse
      BY DEF TerminalStatuses, StatusesInUse
    <2>4. CASE HandlerCommit(w, to, Ended(o, "completed", FALSE), TRUE) /\ Rest(w)
      <3>1. op[o].status \notin Uncertain
        BY <2>1, <2>4 DEF HandlerCommit, Commit, MayCommit, Uncertain
      <3>2. TablesStep
        BY <1>1, <1>2, <2>3, <2>4, <3>1, TablesCommitCompleted DEF HandlerCommit
      <3> QED BY <2>4, <3>2, RestSafe
    <2> QED BY <1>4, <2>2, <2>4
  <1>12. CASE CompleteProjection(w)
    <2>1. st \in {"succeeded", "failed"}
      BY <1>1, <1>12 DEF CompleteProjection, Handling, ObserverVerdict
    <2>2. CASE HandlerCommit(w, st, Ended(o, "completed", FALSE), TRUE) /\ Rest(w)
      <3>1. op[o].status \notin Uncertain
        BY <2>1, <2>2 DEF HandlerCommit, Commit, MayCommit, Uncertain
      <3>2. st \in TerminalStatuses \cap StatusesInUse
        BY <2>1 DEF TerminalStatuses, StatusesInUse
      <3>3. TablesStep
        BY <1>1, <1>2, <2>2, <3>1, <3>2, TablesCommitCompleted DEF HandlerCommit
      <3> QED BY <2>2, <3>3, RestSafe
    <2>3. CASE Advance(w, "excepted") /\ UNCHANGED coordination
      BY <1>2, <1>3, <2>3, TablesRest, AdvanceFree DEF coordination
    <2> QED BY <1>12, <2>2, <2>3 DEF CompleteProjection
  <1>13. CASE ObserveTask(w)
    <2>1. UNCHANGED <<op, rec, lock>>
      BY <1>13 DEF ObserveTask, coordination
    <2>2. CASE task[o] \in {"ok", "failed"} /\ obs' = [obs EXCEPT ![w].pc = "observeVm", ![w].saw = task[o]]
      <3> DEFINE t == [obs[w] EXCEPT !.pc = "observeVm", !.saw = task[o]]
      <3>1. obs' = [obs EXCEPT ![w] = t]
        BY <2>2
      <3>2. t.pc = "observeVm" /\ t.saw = task[o] /\ t.o = o
        BY <1>1 DEF ObserverRows
      <3> HIDE DEF t
      <3>3. obs'[w] = t
        BY <3>1, SafeRows
      <3>4. ObserverSafe(w)' /\ ObserverShape(w)'
        BY <1>2, <2>2, <3>2, <3>3 DEF ObserverSafe, ObserverShape, ObserverAt
      <3>5. ObserversArrive
        BY <3>1, <3>4, ObserverArrives
      <3> QED BY <1>2, <2>1, <3>5, TablesRest
    <2>3. CASE Advance(w, "retry") \/ Advance(w, "excepted")
      BY <1>2, <1>3, <2>1, <2>3, TablesRest, AdvanceFree
    <2> QED BY <1>13, <2>2, <2>3 DEF ObserveTask
  <1>14. CASE ObserveVm(w)
    <2>1. UNCHANGED <<op, rec, lock>> /\ ObserverAt(w, "observeVm")
      BY <1>14 DEF ObserveVm, Handling, coordination
    <2>2. obs[w].saw = task[o]
      BY <1>1, <2>1 DEF ObserverSafe
    <2>3. PICK pc \in {"succeed", "correlate", "fail", "mismatch", "excepted"} :
            /\ Advance(w, pc)
            /\ pc \in {"succeed", "correlate"} => obs[w].saw = "ok"
            /\ pc = "fail" => obs[w].saw = "failed"
      BY <1>14 DEF ObserveVm, Verdict
    <2>4. PICK t : obs' = [obs EXCEPT ![w] = t] /\ obs'[w] = t /\ t.pc = pc /\ t.o = o
      BY <2>3, AdvanceRow
    <2>5. CASE pc \in {"mismatch", "excepted"}
      BY <1>2, <1>3, <2>1, <2>3, <2>5, TablesRest, AdvanceFree
    <2>6. CASE pc \in {"succeed", "correlate", "fail"}
      <3>1. ObserverSafe(w)' /\ ObserverShape(w)'
        BY <1>2, <2>2, <2>3, <2>4, <2>6 DEF ObserverSafe, ObserverShape, ObserverAt
      <3>2. ObserversArrive
        BY <2>4, <3>1, ObserverArrives
      <3> QED BY <1>2, <2>1, <3>2, TablesRest
    <2> QED BY <2>5, <2>6
  <1>15. CASE RetryTask(w)
    BY <1>4, <1>5, <1>6, <1>15 DEF RetryTask
  <1>16. CASE AdvanceToVerifying(w)
    <2>1. task[o] = "ok"
      BY <1>1, <1>16 DEF AdvanceToVerifying, Handling, ObserverSafe, ObserverAt
    <2>2. PICK to \in {"running", "verifying"}, pc \in {"succeed", "correlate"} :
            \/ /\ HandlerCommit(w, to, Kept(o), FALSE)
               /\ obs' = [obs EXCEPT ![w].pc = pc, ![w].status = to]
            \/ HandlerConflict(w, to, FALSE)
      BY <1>16 DEF AdvanceToVerifying
    <2>3. CASE HandlerCommit(w, to, Kept(o), FALSE)
               /\ obs' = [obs EXCEPT ![w].pc = pc, ![w].status = to]
      <3> DEFINE t == [obs[w] EXCEPT !.pc = pc, !.status = to]
      <3>1. obs' = [obs EXCEPT ![w] = t]
        BY <2>3
      <3>2. t.pc = pc /\ t.o = o
        BY <1>1 DEF ObserverRows
      <3> HIDE DEF t
      <3>3. obs'[w] = t
        BY <3>1, SafeRows
      <3>4. ObserverSafe(w)' /\ ObserverShape(w)'
        BY <1>2, <2>1, <3>2, <3>3 DEF ObserverSafe, ObserverShape, ObserverAt
      <3>5. ObserversArrive
        BY <3>1, <3>4, ObserverArrives
      <3>6. to \in Uncertain \ {"dispatching"}
        BY DEF Uncertain
      <3>7. TablesStep
        BY <1>1, <1>2, <2>3, <3>6, ObserverCommit DEF HandlerCommit
      <3> QED BY <3>5, <3>7
    <2> QED BY <1>4, <2>2, <2>3
  <1>17. CASE RecordOutcome(w)
    <2>1. task[o] # "none"
      BY <1>1, <1>17 DEF RecordOutcome, ObserverSafe, ObserverAt
    <2>2. PICK to \in {"succeeded", "failed"} :
            \/ /\ HandlerCommit(w, to, Kept(o), FALSE)
               /\ obs' = [obs EXCEPT ![w].pc = "project", ![w].status = to]
            \/ HandlerConflict(w, to, FALSE)
      BY <1>17 DEF RecordOutcome
    <2>3. CASE HandlerCommit(w, to, Kept(o), FALSE)
               /\ obs' = [obs EXCEPT ![w].pc = "project", ![w].status = to]
      <3> DEFINE t == [obs[w] EXCEPT !.pc = "project", !.status = to]
      <3>1. obs' = [obs EXCEPT ![w] = t]
        BY <2>3
      <3>2. t.pc = "project"
        BY <1>1, ObserverFields
      <3> HIDE DEF t
      <3>3. ObserversArrive
        BY <1>3, <3>1, <3>2, ObserverArrives
      <3>4. TablesStep
        BY <1>1, <1>2, <2>1, <2>3, ObserverCommit DEF HandlerCommit
      <3> QED BY <3>3, <3>4
    <2> QED BY <1>4, <2>2, <2>3
  <1>18. CASE PauseMismatch(w)
    <2>1. "needs_reconciliation" \in Uncertain \ {"dispatching"}
      BY DEF Uncertain
    <2> QED BY <1>4, <1>5, <1>18, <2>1 DEF PauseMismatch
  <1>19. CASE AbsorbException(w)
    <2> DEFINE item == Ended(o, RetryStatus(o), FALSE)
    <2>1. Commit(o, obs[w].gen, {op[o].status}, op[o].status, item, FALSE) /\ Rest(w)
      BY <1>19 DEF AbsorbException
    <2>2. \E x \in {"retry_wait", "paused"}, y \in BOOLEAN : item = Ended(o, x, y)
      BY <1>6
    <2> HIDE DEF item
    <2>3. TablesStep
      BY <1>1, <1>2, <2>1, <2>2, ObserverCommit
    <2> QED BY <2>1, <2>3, RestSafe
  <1> QED BY <1>7, <1>8, <1>9, <1>10, <1>11, <1>12, <1>13, <1>14, <1>15, <1>16, <1>17, <1>18, <1>19

-----------------------------------------------------------------------------
(* The specification. *)

\* Initially nothing was sent, dispatched or seen.
LEMMA SafeInit == Init => SafeInv
  <1> SUFFICES ASSUME Init PROVE SafeInv
    OBVIOUS
  <1>1. ClosedInv
    BY ClosedInit
  <1>2. /\ \A o \in Ops : /\ op[o].status = "none" /\ rec[o].status = "none"
                          /\ rec[o].phase = "pre_dispatch" /\ task[o] = "none" /\ posts[o] = 0
        /\ \A r \in Requests : req[r].pc = "start"
        /\ \A w \in Observers : obs[w].pc = "idle"
    BY DEF Init, CoordinationInit, Thread, Observer
  <1>3. \A o \in Ops : OperationSafe(o) /\ StatusInUse(o)
    BY <1>2 DEF OperationSafe, StatusInUse, StatusesInUse, Uncertain
  <1>4. \A r \in Requests : RequestSafe(r) /\ RequestShape(r)
    BY <1>2 DEF RequestSafe, RequestShape, At, UnsentPcs, SentPcs
  <1>5. \A w \in Observers : ObserverSafe(w) /\ ObserverShape(w)
    BY <1>2 DEF ObserverSafe, ObserverShape, ObserverAt
  <1> QED BY <1>1, <1>3, <1>4, <1>5 DEF SafeInv, Shape, Safe

\* Every step keeps the operations safe, and brings its thread to a place where it is.
LEMMA NextSafe ==
  ASSUME SafeInv, [Next]_vars
  PROVE  TablesStep /\ RequestsArrive /\ ObserversArrive
  <1>1. ASSUME req' = req PROVE RequestsArrive
    BY <1>1 DEF RequestsArrive
  <1>2. ASSUME obs' = obs PROVE ObserversArrive
    BY <1>2 DEF ObserversArrive
  <1>3. ASSUME NEW r \in Requests, RequestStep(r)
        PROVE  TablesStep /\ RequestsArrive /\ ObserversArrive
    <2>1. TablesStep /\ RequestsArrive
      BY <1>3, UnsentSafe, DispatchSafe, PostSafe, RunningSafe, SentSafe DEF RequestStep
    <2>2. obs' = obs
      BY <1>3 DEF RequestStep, Stay, LookupJob, PrepareOperation, AcquireTarget, TargetLockBusy,
         ResolveBusy, RecordConflict, RecheckUnderLock, RecordPrecheck, Precheck, AbandonUnsent,
         BlockOperation, RecordBlocked, OpenMutationClient, RecordStart, RegisterRecovery,
         RecordUnsentFailure, CloseUnsentFailure, ReleaseTarget, ClaimReplay, CommitReplay,
         CommitDispatching, PostMutation, CommitRejected, CommitRunning, RecordPoll, PollTask,
         ReadVmStatus, CommitVerifying, WriteArtifact, RequireReconciliation,
         RecordReconciliation, CommitTerminal, RecordTerminal, HandOff, FinishTerminal
    <2> QED BY <1>2, <2>1, <2>2
  <1>4. ASSUME NEW w \in Observers,
               ClaimDueWork(w) \/ RequestObservation(w) \/ RepeatObservation(w)
               \/ ObserverStep(w) \/ ObserverCrashes(w)
        PROVE  TablesStep /\ RequestsArrive /\ ObserversArrive
    <2>1. TablesStep /\ ObserversArrive
      BY <1>4, ClaimingSafe, HandlerSafe DEF ObserverStep
    <2>2. req' = req
      BY <1>4 DEF ObserverStep, Hold, ClaimDueWork, RequestObservation, RepeatObservation,
         ObserverCrashes, ClaimObservation, RecordRequest, LeaseLost, LoadOperation,
         ValidateBinding, PauseBindingFailure, PauseMissingTask, CompleteUnsent,
         CompleteProjection, ObserveTask, ObserveVm, RetryTask, AdvanceToVerifying,
         RecordOutcome, PauseMismatch, AbsorbException
    <2> QED BY <1>1, <2>1, <2>2
  <1>5. ASSUME NEW r \in Requests, RequestCrashes(r)
        PROVE  TablesStep /\ RequestsArrive /\ ObserversArrive
    <2>1. Goto(r, "crashed") /\ UNCHANGED <<op, rec, lock, task, posts, obs>>
      BY <1>5 DEF RequestCrashes, coordination, proxmox
    <2>2. PICK t : req' = [req EXCEPT ![r] = t] /\ t.pc = "crashed"
      BY <2>1, GotoRow
    <2>3. RequestsArrive
      BY <2>2, ArriveFree DEF FreePcs
    <2> QED BY <1>2, <2>1, <2>3, TablesRest
  <1>6. CASE ProxmoxStep
    <2>1. UNCHANGED <<op, rec, lock, posts, req, obs>>
      BY <1>6 DEF ProxmoxStep, TaskStarts, TaskEnds, PowerChanges, coordination
    <2>2. CASE \E o \in Ops : TaskStarts(o) \/ TaskEnds(o)
      <3>1. TablesStep
        BY <2>2, TablesTask
      <3> QED BY <1>1, <1>2, <2>1, <3>1
    <2>3. CASE \E v \in Vms : PowerChanges(v)
      <3>1. task' = task
        BY <2>3 DEF PowerChanges
      <3>2. TablesStep
        BY <2>1, <3>1, TablesRest
      <3> QED BY <1>1, <1>2, <2>1, <3>2
    <2> QED BY <1>6, <2>2, <2>3 DEF ProxmoxStep
  <1>7. CASE UNCHANGED vars
    BY <1>1, <1>2, <1>7, TablesRest DEF vars
  <1>8. ASSUME NEW o \in Ops, LeaseExpires(o)
        PROVE  TablesStep /\ RequestsArrive /\ ObserversArrive
    <2>1. /\ rec[o].status = "leased" /\ rec' = [rec EXCEPT ![o].live = FALSE]
          /\ UNCHANGED <<op, lock, task, posts, req, obs>>
      BY <1>8 DEF LeaseExpires, proxmox
    <2>2. TablesStep
      BY <2>1, TablesExpire
    <2> QED BY <1>1, <1>2, <2>1, <2>2
  <1> QED BY <1>3, <1>4, <1>5, <1>6, <1>7, <1>8 DEF Next

\* The inductive step.
LEMMA SafeStep == SafeInv /\ [Next]_vars => SafeInv'
  <1> SUFFICES ASSUME SafeInv, [Next]_vars PROVE SafeInv'
    OBVIOUS
  <1>1. ClosedInv'
    BY ClosedStep DEF SafeInv
  <1> QED BY <1>1, NextSafe, SafeKept

\* The invariant of every reachable state.
LEMMA SafeAlways == Spec => []SafeInv
  <1> QED BY SafeInit, SafeStep, PTL DEF Spec

\* However often a request is repeated, replayed, taken over by recovery or observed by an
\* operator, its mutation is sent to Proxmox at most once.
THEOREM MutationIsSentOnce == Spec => []AtMostOnePost
  <1>1. SafeInv => AtMostOnePost
    BY DEF SafeInv, Safe, OperationSafe, AtMostOnePost
  <1> QED BY <1>1, SafeAlways, PTL

\* No error path, crash or takeover loses the lock or the recovery work of an operation whose
\* outcome is unknown.
THEOREM UncertaintyStaysOpen == Spec => []UncertainStaysOpen
  <1>1. SafeInv => UncertainStaysOpen
    BY DEF SafeInv, Safe, OperationSafe, UncertainStaysOpen
  <1> QED BY <1>1, SafeAlways, PTL

=============================================================================
