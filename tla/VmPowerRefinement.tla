-------------------------- MODULE VmPowerRefinement --------------------------
(***************************************************************************)
(* VmPower implements TargetMutation, proved for every number of           *)
(* operations, VMs, requests, runners and operators.                       *)
(*                                                                         *)
(* Every step of VmPower touches one operation at most, and the lock of    *)
(* its VM: Single(o) says how.  Of such a step the safety invariant tells  *)
(* which step of the abstract specification it is, or that it is none.     *)
(***************************************************************************)
EXTENDS VmPowerSafe

USE CoordinationAssumption, VmPowerAssumption

\* The status, the sends and the lock of one operation move; nothing else of any operation does.
Advances(s, t) == t = s \/ (s = "none" /\ t = "planned") \/ (s # "none" /\ MayTransition(s, t))
Sends(o) ==
  /\ op[o].status \in Uncertain /\ posts[o] = 0 /\ posts'[o] = 1
  /\ op'[o] = op[o] /\ lock' = lock
Takes(o) ==
  /\ lock[VmOf[o]] = Free /\ op'[o] = op[o]
  /\ \E r \in Requests : OpOf[r] = o /\ lock' = [lock EXCEPT ![VmOf[o]] = r]
Frees(o) ==
  LockedBy(o) /\ op[o].status \notin Uncertain /\ lock' = [lock EXCEPT ![VmOf[o]] = Free]
Single(o) ==
  /\ \A p \in Ops \ {o} : op'[p] = op[p] /\ posts'[p] = posts[p]
  /\ Advances(op[o].status, op'[o].status)
  /\ posts'[o] = posts[o] \/ Sends(o)
  /\ lock' = lock \/ Takes(o) \/ Frees(o)

\* A step that touches no operation, no send and no lock.
Idle == UNCHANGED <<op, lock, posts>>

RefinementStep == Idle \/ \E o \in Ops : Single(o)

-----------------------------------------------------------------------------
(* From such a step to the abstract one. *)

\* A settled operation stays as it is.
LEMMA SettledIsFinal ==
  ASSUME NEW from \in {"succeeded", "failed", "blocked"}, NEW to, MayTransition(from, to)
  PROVE  to = from
  BY DEF MayTransition, AllowedTransitions, OperationStatuses

\* The fate of an operation, by its status and its sends.
Settled == {"succeeded", "failed", "blocked"}
FateFacts(o) ==
  /\ op[o].status \in {"none", "planned"} \cup Uncertain \cup Settled
  /\ op[o].status \in {"none", "planned"} => Fate(o) = "unsent" /\ posts[o] = 0
  /\ op[o].status \in Uncertain => /\ LockedBy(o)
                                   /\ Fate(o) = IF posts[o] = 0 THEN "unsent" ELSE "sent"
  /\ op[o].status \in Settled => Fate(o) = "settled"
FatesKnown == \A o \in Ops : FateFacts(o)

\* The invariant fixes the fate of every operation.
LEMMA FateCases == SafeInv => FatesKnown
  <1> SUFFICES ASSUME SafeInv, NEW o \in Ops PROVE FateFacts(o)
    BY DEF FatesKnown
  <1>1. OperationSafe(o) /\ StatusInUse(o) /\ posts[o] \in Nat
    BY SafeRows
  <1>2. op[o].status \in {"none", "planned"} \cup Uncertain => op[o].status \notin TerminalStatuses
    BY DEF Uncertain, TerminalStatuses
  <1>3. Settled \subseteq TerminalStatuses
    BY DEF Settled, TerminalStatuses
  <1>4. op[o].status \in {"none", "planned"} => Fate(o) = "unsent" /\ posts[o] = 0
    BY <1>1, <1>2 DEF OperationSafe, Fate
  <1>5. op[o].status \in Uncertain => /\ LockedBy(o)
                                      /\ Fate(o) = IF posts[o] = 0 THEN "unsent" ELSE "sent"
    BY <1>1, <1>2 DEF OperationSafe, ExactLock, Fate
  <1>6. op[o].status \in Settled => Fate(o) = "settled"
    BY <1>3 DEF Fate
  <1> QED BY <1>1, <1>4, <1>5, <1>6 DEF FateFacts, StatusInUse, StatusesInUse, Settled

\* What becomes of the fate of the operation a step touches.
LEMMA FateMoves ==
  ASSUME SafeInv, FatesKnown', NEW o \in Ops, Single(o)
  PROVE  \/ Fate(o)' = Fate(o)
         \/ Fate(o)' = "settled" /\ Fate(o) # "settled" /\ (Fate(o) = "sent" => LockedBy(o))
         \/ Fate(o)' = "sent" /\ Fate(o) = "unsent" /\ LockedBy(o) /\ lock' = lock
  <1> DEFINE s == op[o].status
             t == op'[o].status
  <1>1. FateFacts(o)
    BY FateCases DEF FatesKnown
  <1>2. FateFacts(o)'
    BY DEF FatesKnown
  <1>3. Advances(s, t)
    BY DEF Single
  <1>4. CASE Sends(o)
    BY <1>1, <1>2, <1>4 DEF Sends, FateFacts
  <1>5. CASE posts'[o] = posts[o]
    <2>1. CASE s = t
      BY <1>1, <1>2, <1>5, <2>1 DEF FateFacts
    <2>2. CASE s # t /\ s \in {"none", "planned"}
      <3>1. posts[o] = 0 /\ Fate(o) = "unsent"
        BY <1>1, <2>2 DEF FateFacts
      <3> QED BY <1>2, <1>5, <3>1 DEF FateFacts
    <2>3. CASE s # t /\ s \in Uncertain
      <3>1. MayTransition(s, t) /\ s \in StatusesInUse \ {"none"}
        BY <1>3, <2>3 DEF Advances, StatusesInUse, Uncertain
      <3>2. t \notin {"none", "planned"}
        BY <2>3, <3>1, TransitionsInUse DEF Uncertain
      <3>3. t \in Uncertain \cup Settled
        BY <1>2, <3>2 DEF FateFacts
      <3>4. LockedBy(o) /\ Fate(o) = IF posts[o] = 0 THEN "unsent" ELSE "sent"
        BY <1>1, <2>3 DEF FateFacts
      <3> QED BY <1>2, <1>5, <3>3, <3>4 DEF FateFacts
    <2>4. CASE s # t /\ s \in Settled
      <3>1. MayTransition(s, t)
        BY <1>3, <2>4 DEF Advances, Settled
      <3> QED BY <2>4, <3>1, SettledIsFinal DEF Settled
    <2> QED BY <1>1, <2>1, <2>2, <2>3, <2>4 DEF FateFacts
  <1> QED BY <1>4, <1>5 DEF Single

\* The rest of the operations keep their fate.
LEMMA OthersKeep ==
  ASSUME NEW o \in Ops, Single(o), NEW p \in Ops, p # o
  PROVE  Fate(p)' = Fate(p)
  BY DEF Single, Fate

\* The holder and the fates, as functions.
Holder == [v \in Vms |-> IF lock[v] = Free THEN Free ELSE OpOf[lock[v]]]
Fates == [o \in Ops |-> Fate(o)]

\* A step that touches one operation is a step of TargetMutation, or none.
LEMMA SingleImplements ==
  ASSUME SafeInv, FatesKnown', NEW o \in Ops, Single(o)
  PROVE  [Abstract!Next]_(Abstract!vars)
  <1>1. /\ lock \in [Vms -> LockIds] /\ OpOf \in [Requests -> Ops] /\ VmOf[o] \in Vms
        /\ FateFacts(o)
    BY FateCases, SafeRows DEF FatesKnown
  <1>2. \A p \in Ops : p # o => Fate(p)' = Fate(p)
    BY OthersKeep
  <1>3. \/ Fate(o)' = Fate(o)
        \/ Fate(o)' = "settled" /\ Fate(o) # "settled" /\ (Fate(o) = "sent" => LockedBy(o))
        \/ Fate(o)' = "sent" /\ Fate(o) = "unsent" /\ LockedBy(o) /\ lock' = lock
    BY FateMoves
  <1>4. LockedBy(o) => Holder[VmOf[o]] = o
    BY <1>1 DEF LockedBy, Holder
  \* The fates after the step.
  <1>5. Fate(o)' = Fate(o) => Fates' = Fates
    BY <1>2 DEF Fates
  <1>6. Fates' = [Fates EXCEPT ![o] = Fate(o)']
    BY <1>2 DEF Fates
  <1>7. Fates[o] = Fate(o)
    BY DEF Fates
  <1>8. CASE lock' = lock
    <2>1. Holder' = Holder
      BY <1>8 DEF Holder
    <2>2. CASE Fate(o)' = Fate(o)
      BY <1>5, <2>1, <2>2 DEF Abstract!vars, Holder, Fates
    <2>3. CASE Fate(o)' = "settled" /\ Fate(o) # "settled" /\ (Fate(o) = "sent" => LockedBy(o))
      <3>1. Abstract!Settle(o)
        BY <1>4, <1>6, <1>7, <2>1, <2>3 DEF Abstract!Settle, Abstract!Holds, Holder, Fates
      <3> QED BY <3>1 DEF Abstract!Next
    <2>4. CASE Fate(o)' = "sent" /\ Fate(o) = "unsent" /\ LockedBy(o)
      <3>1. Abstract!Send(o)
        BY <1>4, <1>6, <1>7, <2>1, <2>4 DEF Abstract!Send, Abstract!Holds, Holder, Fates
      <3> QED BY <3>1 DEF Abstract!Next
    <2> QED BY <1>3, <2>2, <2>3, <2>4
  <1>9. CASE Takes(o)
    <2>1. PICK r \in Requests : OpOf[r] = o /\ lock' = [lock EXCEPT ![VmOf[o]] = r]
      BY <1>9 DEF Takes
    <2>2. Holder[VmOf[o]] = Free /\ Holder' = [Holder EXCEPT ![VmOf[o]] = o]
      BY <1>1, <1>9, <2>1 DEF Takes, Holder
    <2>3. posts'[o] = posts[o]
      BY <1>1, <1>9, <2>1 DEF Single, Sends, Takes
    <2>4. Fate(o)' = Fate(o) /\ Fate(o) # "sent"
      <3>1. Fate(o)' = Fate(o)
        BY <1>9, <2>3 DEF Takes, Fate
      <3>2. ~LockedBy(o)
        BY <1>9 DEF Takes, LockedBy
      <3> QED BY <1>1, <3>1, <3>2 DEF FateFacts
    <2>5. Abstract!Grant(o)
      BY <1>5, <1>7, <2>2, <2>4 DEF Abstract!Grant, Holder, Fates
    <2> QED BY <2>5 DEF Abstract!Next
  <1>10. CASE Frees(o)
    <2>1. Holder[VmOf[o]] = o /\ Holder' = [Holder EXCEPT ![VmOf[o]] = Free]
      BY <1>1, <1>4, <1>10 DEF Frees, Holder
    <2>2. Fate(o) # "sent"
      BY <1>1, <1>10 DEF Frees, FateFacts
    <2>3. lock' # lock
      BY <1>1, <1>10 DEF Frees, LockedBy
    <2>4. CASE Fate(o)' = Fate(o)
      <3>1. Abstract!GiveUp(o)
        BY <1>5, <1>7, <2>1, <2>2, <2>4 DEF Abstract!GiveUp, Abstract!Holds, Holder, Fates
      <3> QED BY <3>1 DEF Abstract!Next
    <2>5. CASE Fate(o)' = "settled" /\ Fate(o) # "settled"
      <3>1. Fate(o) = "unsent"
        BY <2>2, <2>5 DEF Fate
      <3>2. Abstract!SettleAndGiveUp(o)
        BY <1>6, <1>7, <2>1, <2>5, <3>1 DEF Abstract!SettleAndGiveUp, Abstract!Holds, Holder, Fates
      <3> QED BY <3>2 DEF Abstract!Next
    <2> QED BY <1>3, <2>3, <2>4, <2>5
  <1> QED BY <1>8, <1>9, <1>10 DEF Single

\* A step that touches none is a stutter.
LEMMA IdleImplements ==
  ASSUME Idle
  PROVE  UNCHANGED Abstract!vars
  BY DEF Idle, Abstract!vars, Fate

-----------------------------------------------------------------------------
(* The transactions. *)

\* A step that writes one operation's row.
LEMMA SingleRow ==
  ASSUME SafeInv, NEW o \in Ops, NEW row, op' = [op EXCEPT ![o] = row],
         Advances(op[o].status, row.status), UNCHANGED <<lock, posts>>
  PROVE  RefinementStep
  <1>1. Single(o)
    BY SafeRows DEF Single
  <1> QED BY <1>1 DEF RefinementStep

\* A fenced commit; what releases a lock is not about an open outcome.
LEMMA SingleCommit ==
  ASSUME SafeInv, NEW o \in Ops, NEW g, NEW from, NEW to \in OperationStatuses \cup {"none"},
         NEW item, NEW release \in BOOLEAN, Commit(o, g, from, to, item, release), posts' = posts,
         release => op[o].status \notin Uncertain
  PROVE  RefinementStep
  <1> DEFINE row == Moved(op[o], to)
  <1>1. row.status = to
    BY SafeRows, MovedType
  <1>2. /\ op' = [op EXCEPT ![o] = row] /\ MayCommit(o, g, from, to, release)
        /\ lock' = IF release THEN [lock EXCEPT ![VmOf[o]] = Free] ELSE lock
    BY DEF Commit
  <1> HIDE DEF row
  <1>3. op'[o] = row
    BY <1>2, SafeRows
  <1>4. op[o].status # "none" /\ MayTransition(op[o].status, to)
    BY <1>2, SafeRows DEF MayCommit, LeaseOwned, OperationSafe
  <1>5. Advances(op[o].status, op'[o].status)
    BY <1>1, <1>3, <1>4 DEF Advances
  <1>6. lock' = lock \/ Frees(o)
    BY <1>2 DEF MayCommit, ExactLock, Frees
  <1>7. Single(o)
    BY <1>2, <1>5, <1>6, SafeRows DEF Single
  <1> QED BY <1>7 DEF RefinementStep

\* The closing of a planned operation, with its marker or without.
LEMMA SingleClosed ==
  ASSUME SafeInv, NEW o \in Ops, op[o].status = "planned", NEW to \in {"failed", "blocked"},
         \/ op' = [op EXCEPT ![o] = Moved(op[o], to)]
         \/ \E l \in LockIds : op' = [op EXCEPT ![o] = [Moved(op[o], to) EXCEPT !.marker = l]],
         UNCHANGED <<lock, posts>>
  PROVE  RefinementStep
  <1>1. to \in OperationStatuses \cup {"none"} /\ op[o] \in OpRows
    BY SafeRows DEF OperationStatuses
  <1>2. Moved(op[o], to) \in OpRows /\ Moved(op[o], to).status = to
    BY <1>1, MovedType
  <1>3. \A l \in LockIds : [Moved(op[o], to) EXCEPT !.marker = l].status = to
    BY <1>2 DEF OpRows
  <1>4. PICK row : op' = [op EXCEPT ![o] = row] /\ row.status = to
    BY <1>2, <1>3
  <1>5. MayTransition("planned", to)
    BY DEF MayTransition, AllowedTransitions, OperationStatuses
  <1>6. Advances(op[o].status, row.status)
    BY <1>4, <1>5 DEF Advances
  <1> QED BY <1>4, <1>6, SingleRow

-----------------------------------------------------------------------------
(* The foreground workflow. *)

\* Before the dispatch a request takes its VM, closes what was not sent, and gives the VM back.
LEMMA UnsentImplements ==
  ASSUME SafeInv, NEW r \in Requests,
         \/ LookupJob(r) \/ PrepareOperation(r) \/ AcquireTarget(r) \/ TargetLockBusy(r)
         \/ ResolveBusy(r) \/ RecordConflict(r) \/ RecheckUnderLock(r) \/ RecordPrecheck(r)
         \/ Precheck(r) \/ AbandonUnsent(r) \/ BlockOperation(r) \/ RecordBlocked(r)
         \/ OpenMutationClient(r) \/ RecordStart(r) \/ RegisterRecovery(r)
         \/ RecordUnsentFailure(r) \/ CloseUnsentFailure(r) \/ ReleaseTarget(r)
         \/ ClaimReplay(r) \/ CommitReplay(r)
  PROVE  RefinementStep
  <1> DEFINE o == OpOf[r]
  <1>1. /\ o \in Ops /\ op[o] \in OpRows /\ r \in LockIds /\ RequestSafe(r) /\ OperationSafe(o)
    BY SafeRows DEF LockIds
  <1>2. posts' = posts
    BY DEF Stay, proxmox, LookupJob, PrepareOperation, AcquireTarget, TargetLockBusy,
       ResolveBusy, RecordConflict, RecheckUnderLock, RecordPrecheck, Precheck, AbandonUnsent,
       BlockOperation, RecordBlocked, OpenMutationClient, RecordStart, RegisterRecovery,
       RecordUnsentFailure, CloseUnsentFailure, ReleaseTarget, ClaimReplay, CommitReplay
  <1>3. ASSUME UNCHANGED <<op, lock>> PROVE RefinementStep
    BY <1>2, <1>3 DEF RefinementStep, Idle
  <1>4. CASE \/ LookupJob(r) \/ TargetLockBusy(r) \/ ResolveBusy(r) \/ RecheckUnderLock(r)
             \/ RecordPrecheck(r) \/ Precheck(r) \/ AbandonUnsent(r) \/ RecordBlocked(r)
             \/ OpenMutationClient(r) \/ RecordStart(r) \/ RegisterRecovery(r)
             \/ RecordUnsentFailure(r) \/ ClaimReplay(r)
    <2>1. UNCHANGED <<op, lock>>
      BY <1>4 DEF LookupJob, TargetLockBusy, ResolveBusy, RecheckUnderLock, RecordPrecheck, Precheck,
         AbandonUnsent, RecordBlocked, OpenMutationClient, RecordStart, RegisterRecovery,
         RecordUnsentFailure, ClaimReplay, coordination
    <2> QED BY <1>3, <2>1
  <1>5. CASE PrepareOperation(r)
    <2> DEFINE row == Moved(op[o], "planned")
    <2>1. lock' = lock /\ (op' = op \/ (op' = [op EXCEPT ![o] = row] /\ op[o].status = "none"))
      BY <1>5 DEF PrepareOperation, CreateOperation
    <2>2. row.status = "planned"
      BY <1>1, MovedType, StatusNames
    <2> HIDE DEF row
    <2>3. op[o].status = "none" => Advances(op[o].status, row.status)
      BY <2>2 DEF Advances
    <2> QED BY <1>1, <1>2, <1>3, <2>1, <2>3, SingleRow
  <1>6. CASE AcquireTarget(r)
    <2>1. Acquire(r) /\ op' = op
      BY <1>6 DEF AcquireTarget
    <2>2. Takes(o)
      BY <2>1 DEF Acquire, Takes
    <2>3. Single(o)
      BY <1>2, <2>1, <2>2 DEF Single, Advances
    <2> QED BY <1>1, <2>3 DEF RefinementStep
  <1>7. CASE RecordConflict(r)
    <2>1. /\ lock' = lock
          /\ \/ op' = op
             \/ \E to \in {"failed", "blocked"} :
                  op' = [op EXCEPT ![o] = Moved(op[o], to)] /\ op[o].status = "planned"
      BY <1>7 DEF RecordConflict, CloseOnConflict
    <2> QED BY <1>1, <1>2, <1>3, <2>1, SingleClosed
  <1>8. CASE BlockOperation(r) \/ CloseUnsentFailure(r)
    <2>1. lock' = lock /\ (op' = op \/ \E to \in {"failed", "blocked"} : CloseUnsent(o, to, r))
      BY <1>8 DEF BlockOperation, CloseUnsentFailure
    <2> QED BY <1>1, <1>2, <1>3, <2>1, SingleClosed DEF CloseUnsent
  <1>9. CASE ReleaseTarget(r)
    <2>1. At(r, "release") /\ Release(r) /\ op' = op
      BY <1>9 DEF ReleaseTarget
    <2>2. CASE lock[VmOf[o]] = r
      <3>1. op[o].status \notin Uncertain
        BY <1>1, <2>1, <2>2 DEF RequestSafe, OperationSafe, ExactLock, At, UnsentPcs
      <3>2. Frees(o)
        BY <1>1, <2>1, <2>2, <3>1 DEF Release, Frees, LockedBy
      <3>3. Single(o)
        BY <1>2, <2>1, <3>2 DEF Single, Advances
      <3> QED BY <1>1, <3>3 DEF RefinementStep
    <2>3. CASE lock[VmOf[o]] # r
      BY <1>3, <2>1, <2>3 DEF Release
    <2> QED BY <2>2, <2>3
  <1>10. CASE CommitReplay(r)
    <2>1. \/ UNCHANGED <<op, lock>>
          \/ Commit(o, req[r].gen, {"planned"}, "failed", Ended(o, "completed", FALSE), TRUE)
      BY <1>10 DEF CommitReplay
    <2>2. Commit(o, req[r].gen, {"planned"}, "failed", Ended(o, "completed", FALSE), TRUE) =>
            op[o].status \notin Uncertain
      BY DEF Commit, MayCommit, Uncertain
    <2> QED BY <1>1, <1>2, <1>3, <2>1, <2>2, StatusNames, SingleCommit
  <1> QED BY <1>4, <1>5, <1>6, <1>7, <1>8, <1>9, <1>10

\* A request's fenced commit, or the conflict that ends it.
LEMMA CommitOrStopImplements ==
  ASSUME SafeInv, NEW r \in Requests, posts' = posts, NEW from, NEW to \in OperationStatuses \cup {"none"},
         NEW item, NEW release \in BOOLEAN, NEW next, CommitOrStop(r, from, to, item, release, next),
         release /\ op[OpOf[r]].status \in from => op[OpOf[r]].status \notin Uncertain
  PROVE  RefinementStep
  <1>1. OpOf[r] \in Ops
    BY SafeRows
  <1>2. CASE Commit(OpOf[r], req[r].gen, from, to, item, release)
    <2>1. op[OpOf[r]].status \in from
      BY <1>2 DEF Commit, MayCommit
    <2> QED BY <1>1, <1>2, <2>1, SingleCommit
  <1>3. CASE UNCHANGED <<op, rec, lock>>
    BY <1>3 DEF RefinementStep, Idle
  <1> QED BY <1>2, <1>3 DEF CommitOrStop

\* From the checkpoint on, up to the commit that completes the work of a settled operation.
LEMMA SentImplements ==
  ASSUME SafeInv, NEW r \in Requests,
         \/ CommitDispatching(r) \/ CommitRejected(r) \/ CommitRunning(r)
         \/ RecordPoll(r) \/ PollTask(r) \/ ReadVmStatus(r) \/ CommitVerifying(r)
         \/ WriteArtifact(r) \/ RequireReconciliation(r) \/ RecordReconciliation(r)
         \/ CommitTerminal(r) \/ RecordTerminal(r) \/ HandOff(r) \/ FinishTerminal(r)
  PROVE  RefinementStep
  <1> DEFINE o == OpOf[r]
  <1>1. o \in Ops /\ op[o] \in OpRows /\ RequestVerdict(r)
    BY SafeRows DEF ClosedInv, Closed
  <1>2. posts' = posts
    BY DEF Stay, proxmox, CommitDispatching, CommitRejected, CommitRunning, RecordPoll, PollTask,
       ReadVmStatus, CommitVerifying, WriteArtifact, RequireReconciliation, RecordReconciliation,
       CommitTerminal, RecordTerminal, HandOff, FinishTerminal
  <1>3. ASSUME UNCHANGED <<op, lock>> PROVE RefinementStep
    BY <1>2, <1>3 DEF RefinementStep, Idle
  <1>4. {"dispatching", "running", "verifying", "succeeded", "failed", "needs_reconciliation"}
          \subseteq OperationStatuses \cup {"none"}
    BY StatusNames
  <1>5. CASE \/ RecordPoll(r) \/ PollTask(r) \/ ReadVmStatus(r) \/ WriteArtifact(r)
             \/ RecordReconciliation(r) \/ RecordTerminal(r)
    <2>1. UNCHANGED <<op, lock>>
      BY <1>5 DEF RecordPoll, PollTask, ReadVmStatus, WriteArtifact, RecordReconciliation,
         RecordTerminal, coordination
    <2> QED BY <1>3, <2>1
  \* The commits that keep the lock.
  <1>6. ASSUME NEW to \in OperationStatuses \cup {"none"},
               \/ UNCHANGED <<op, lock>>
               \/ \E from, item, next : CommitOrStop(r, from, to, item, FALSE, next)
        PROVE  RefinementStep
    <2>1. CASE \E from, item, next : CommitOrStop(r, from, to, item, FALSE, next)
      BY <1>2, <2>1, CommitOrStopImplements
    <2> QED BY <1>3, <1>6, <2>1
  <1>7. CASE CommitDispatching(r) \/ CommitVerifying(r) \/ RequireReconciliation(r)
    <2>1. \E to \in {"dispatching", "verifying", "needs_reconciliation"} :
            \/ UNCHANGED <<op, lock>>
            \/ \E from, item, next : CommitOrStop(r, from, to, item, FALSE, next)
      <3>1. CASE CommitDispatching(r)
        <4>1. \/ UNCHANGED <<op, lock>>
              \/ \E from, item, next : CommitOrStop(r, from, "dispatching", item, FALSE, next)
          BY <3>1 DEF CommitDispatching
        <4> QED BY <4>1
      <3>2. CASE CommitVerifying(r)
        <4>1. \E from, item, next : CommitOrStop(r, from, "verifying", item, FALSE, next)
          BY <3>2 DEF CommitVerifying
        <4> QED BY <4>1
      <3>3. CASE RequireReconciliation(r)
        <4>1. \/ UNCHANGED <<op, lock>>
              \/ \E from, item, next : CommitOrStop(r, from, "needs_reconciliation", item, FALSE, next)
          BY <3>3 DEF RequireReconciliation
        <4> QED BY <4>1
      <3> QED BY <1>7, <3>1, <3>2, <3>3
    <2>2. PICK to \in {"dispatching", "verifying", "needs_reconciliation"} :
            \/ UNCHANGED <<op, lock>>
            \/ \E from, item, next : CommitOrStop(r, from, to, item, FALSE, next)
      BY <2>1
    <2>3. to \in OperationStatuses \cup {"none"}
      BY <1>4
    <2> QED BY <1>6, <2>2, <2>3
  <1>8. CASE CommitRejected(r)
    <2>1. \/ UNCHANGED <<op, lock>>
          \/ Commit(o, req[r].gen, {"dispatching"}, "failed", Kept(o), FALSE)
      BY <1>8 DEF CommitRejected
    <2> QED BY <1>1, <1>2, <1>3, <1>4, <2>1, SingleCommit
  <1>9. CASE CommitRunning(r)
    <2> DEFINE row == [Moved(op[o], "running") EXCEPT !.upid = TRUE]
    <2>1. /\ lock' = lock
          /\ \/ op' = op
             \/ /\ op' = [op EXCEPT ![o] = row]
                /\ op[o].status = "dispatching" /\ MayTransition(op[o].status, "running")
      BY <1>9 DEF CommitRunning, MayCommit
    <2>2. Moved(op[o], "running") \in OpRows /\ Moved(op[o], "running").status = "running"
      BY <1>1, <1>4, MovedType
    <2>3. row.status = "running"
      BY <2>2 DEF OpRows
    <2> HIDE DEF row
    <2>4. CASE op' = [op EXCEPT ![o] = row] /\ op[o].status = "dispatching"
               /\ MayTransition(op[o].status, "running")
      <3>1. Advances(op[o].status, row.status)
        BY <2>3, <2>4 DEF Advances
      <3> QED BY <1>1, <1>2, <2>1, <2>4, <3>1, SingleRow
    <2> QED BY <1>3, <2>1, <2>4
  <1>10. CASE CommitTerminal(r)
    <2>1. req[r].saw \in {"succeeded", "failed"}
      BY <1>1, <1>10 DEF CommitTerminal, At, RequestVerdict
    <2>2. \E from, item, next : CommitOrStop(r, from, req[r].saw, item, FALSE, next)
      BY <1>10 DEF CommitTerminal
    <2>3. req[r].saw \in OperationStatuses \cup {"none"}
      BY <1>4, <2>1
    <2> QED BY <1>6, <2>2, <2>3
  <1>11. CASE HandOff(r)
    <2> DEFINE to == IF op[o].status \in {"succeeded", "failed"} THEN op[o].status ELSE "needs_reconciliation"
    <2>1. to \in OperationStatuses \cup {"none"}
      BY <1>4
    <2>2. \/ UNCHANGED <<op, lock>>
          \/ \E from, item, next : CommitOrStop(r, from, to, item, FALSE, next)
      BY <1>11 DEF HandOff
    <2> HIDE DEF to
    <2> QED BY <1>6, <2>1, <2>2
  \* The one that gives the VM up finds the operation settled.
  <1>12. CASE FinishTerminal(r)
    <2>1. req[r].saw \in {"succeeded", "failed"}
      BY <1>1, <1>12 DEF FinishTerminal, At, RequestVerdict
    <2>2. op[o].status \in {req[r].saw} => op[o].status \notin Uncertain
      BY <2>1 DEF Uncertain
    <2>3. CommitOrStop(r, {req[r].saw}, req[r].saw, Ended(o, "completed", FALSE), TRUE, "done")
      BY <1>12 DEF FinishTerminal
    <2> QED BY <1>2, <1>4, <2>1, <2>2, <2>3, CommitOrStopImplements
  <1> QED BY <1>5, <1>7, <1>8, <1>9, <1>10, <1>11, <1>12

\* The POST is the abstract send.
LEMMA PostImplements ==
  ASSUME SafeInv, NEW r \in Requests, PostMutation(r)
  PROVE  RefinementStep
  <1> DEFINE o == OpOf[r]
  <1>1. /\ o \in Ops /\ op[o].status \in Uncertain /\ posts[o] = 0 /\ UNCHANGED <<op, lock>>
    BY SafeRows DEF PostMutation, RequestSafe, At, coordination
  <1>2. posts' = [posts EXCEPT ![o] = posts[o] + 1]
    BY DEF PostMutation
  <1>3. Sends(o)
    BY <1>1, <1>2, SafeRows DEF Sends
  <1>4. Single(o)
    BY <1>1, <1>2, <1>3, SafeRows DEF Single, Advances
  <1> QED BY <1>1, <1>4 DEF RefinementStep

-----------------------------------------------------------------------------
(* The observers. *)

\* An observer settles what Proxmox decided, and gives the VM up with the work it completes.
LEMMA ObserverImplements ==
  ASSUME SafeInv, NEW w \in Observers,
         \/ ClaimDueWork(w) \/ RequestObservation(w) \/ RepeatObservation(w)
         \/ ObserverStep(w) \/ ObserverCrashes(w)
  PROVE  RefinementStep
  <1> DEFINE o == obs[w].o
             st == obs[w].status
  <1>1. o \in Ops /\ op[o] \in OpRows /\ ObserverSafe(w) /\ ObserverVerdict(w) /\ st \in OperationStatuses \cup {"none"}
    BY SafeRows DEF ClosedInv, Closed, ObserverRows
  <1>2. posts' = posts
    BY DEF ObserverStep, Hold, proxmox, ClaimDueWork, RequestObservation, RepeatObservation,
       ObserverCrashes, ClaimObservation, RecordRequest, LeaseLost, LoadOperation,
       ValidateBinding, PauseBindingFailure, PauseMissingTask, CompleteUnsent,
       CompleteProjection, ObserveTask, ObserveVm, RetryTask, AdvanceToVerifying,
       RecordOutcome, PauseMismatch, AbsorbException
  <1>3. ASSUME UNCHANGED <<op, lock>> PROVE RefinementStep
    BY <1>2, <1>3 DEF RefinementStep, Idle
  \* The commits that keep the lock.
  <1>4. ASSUME NEW to \in OperationStatuses \cup {"none"},
               \E g, from, item : Commit(o, g, from, to, item, FALSE)
        PROVE  RefinementStep
    BY <1>1, <1>2, <1>4, SingleCommit
  <1>5. CASE \/ ClaimDueWork(w) \/ RequestObservation(w) \/ RepeatObservation(w)
             \/ ObserverCrashes(w) \/ ClaimObservation(w) \/ LeaseLost(w) \/ LoadOperation(w)
             \/ ValidateBinding(w) \/ ObserveTask(w) \/ ObserveVm(w)
    <2>1. UNCHANGED <<op, lock>>
      BY <1>5 DEF ClaimDueWork, RequestObservation, RepeatObservation, ObserverCrashes,
         ClaimObservation, LeaseLost, LoadOperation, ValidateBinding, ObserveTask, ObserveVm,
         coordination
    <2> QED BY <1>3, <2>1
  <1>6. CASE RecordRequest(w)
    <2>1. UNCHANGED <<op, lock>> \/ \E g, from, item : Commit(o, g, from, st, item, FALSE)
      BY <1>6 DEF RecordRequest
    <2> QED BY <1>1, <1>3, <1>4, <2>1
  <1>7. CASE \/ PauseBindingFailure(w) \/ PauseMissingTask(w) \/ RetryTask(w) \/ AdvanceToVerifying(w)
             \/ PauseMismatch(w) \/ RecordOutcome(w)
    <2>1. \/ UNCHANGED <<op, lock>>
          \/ \E x \in {st, "running", "verifying", "needs_reconciliation", "succeeded", "failed"} :
               \E item : HandlerCommit(w, x, item, FALSE)
      BY <1>7 DEF PauseBindingFailure, PauseMissingTask, RetryTask, AdvanceToVerifying, PauseMismatch,
         RecordOutcome, HandlerConflict, Reconciled
    <2>2. ASSUME NEW x \in {st, "running", "verifying", "needs_reconciliation", "succeeded", "failed"},
                 NEW item, HandlerCommit(w, x, item, FALSE)
          PROVE  RefinementStep
      <3>1. x \in OperationStatuses \cup {"none"}
        BY <1>1, StatusNames
      <3>2. \E g, from, i : Commit(o, g, from, x, i, FALSE)
        BY <2>2 DEF HandlerCommit
      <3> QED BY <1>4, <3>1, <3>2
    <2> QED BY <1>3, <2>1, <2>2
  <1>8. CASE AbsorbException(w)
    <2>1. \E g, from, item : Commit(o, g, from, op[o].status, item, FALSE)
      BY <1>8 DEF AbsorbException
    <2>2. op[o].status \in OperationStatuses \cup {"none"}
      BY <1>1 DEF OpRows
    <2> QED BY <1>4, <2>1, <2>2
  \* The commits that give the VM up find an operation that is not dispatched, or settled.
  <1>9. ASSUME NEW to \in OperationStatuses \cup {"none"}, st \notin Uncertain,
               \E item : HandlerCommit(w, to, item, TRUE)
        PROVE  RefinementStep
    <2>1. PICK item : Commit(o, obs[w].gen, {st}, to, item, TRUE)
      BY <1>9 DEF HandlerCommit
    <2>2. op[o].status = st
      BY <2>1 DEF Commit, MayCommit
    <2> QED BY <1>1, <1>2, <1>9, <2>1, <2>2, SingleCommit
  <1>10. CASE CompleteUnsent(w)
    <2> DEFINE to == IF st \in {"failed", "blocked"} THEN st ELSE "failed"
    <2>1. st \in {"planned", "failed", "blocked"}
      BY <1>1, <1>10 DEF CompleteUnsent, Handling, ObserverSafe
    <2>2. UNCHANGED <<op, lock>> \/ \E item : HandlerCommit(w, to, item, TRUE)
      BY <1>10 DEF CompleteUnsent, HandlerConflict
    <2>3. to \in OperationStatuses \cup {"none"} /\ st \notin Uncertain
      BY <2>1, StatusNames DEF Uncertain
    <2> HIDE DEF to
    <2> QED BY <1>3, <1>9, <2>2, <2>3
  <1>11. CASE CompleteProjection(w)
    <2>1. st \in {"succeeded", "failed"}
      BY <1>1, <1>11 DEF CompleteProjection, Handling, ObserverVerdict, ObserverAt
    <2>2. UNCHANGED <<op, lock>> \/ \E item : HandlerCommit(w, st, item, TRUE)
      BY <1>11 DEF CompleteProjection, coordination
    <2>3. st \notin Uncertain
      BY <2>1 DEF Uncertain
    <2> QED BY <1>1, <1>3, <1>9, <2>2, <2>3
  <1> QED BY <1>5, <1>6, <1>7, <1>8, <1>10, <1>11 DEF ObserverStep

-----------------------------------------------------------------------------
(* The specification. *)

\* Every step is one of the two kinds.
LEMMA NextRefines ==
  ASSUME SafeInv, [Next]_vars
  PROVE  RefinementStep
  <1>1. ASSUME NEW r \in Requests, RequestStep(r) PROVE RefinementStep
    BY <1>1, UnsentImplements, PostImplements, SentImplements DEF RequestStep
  <1>2. ASSUME NEW w \in Observers,
               ClaimDueWork(w) \/ RequestObservation(w) \/ RepeatObservation(w)
               \/ ObserverStep(w) \/ ObserverCrashes(w)
        PROVE RefinementStep
    BY <1>2, ObserverImplements
  <1>3. ASSUME NEW r \in Requests, RequestCrashes(r) PROVE Idle
    BY <1>3 DEF RequestCrashes, coordination, proxmox, Idle
  <1>4. ASSUME NEW o \in Ops, LeaseExpires(o) PROVE Idle
    BY <1>4 DEF LeaseExpires, proxmox, Idle
  <1>5. CASE ProxmoxStep
    BY <1>5 DEF ProxmoxStep, TaskStarts, TaskEnds, PowerChanges, coordination, RefinementStep, Idle
  <1>6. CASE UNCHANGED vars
    BY <1>6 DEF vars, RefinementStep, Idle
  <1> QED BY <1>1, <1>2, <1>3, <1>4, <1>5, <1>6 DEF Next, RefinementStep

\* A step of VmPower is a step of TargetMutation, or none.
LEMMA StepImplements == SafeInv /\ FatesKnown' /\ [Next]_vars => [Abstract!Next]_(Abstract!vars)
  <1> SUFFICES ASSUME SafeInv, FatesKnown', [Next]_vars PROVE [Abstract!Next]_(Abstract!vars)
    OBVIOUS
  <1>1. CASE Idle
    BY <1>1, IdleImplements
  <1>2. CASE \E o \in Ops : Single(o)
    BY <1>2, SingleImplements
  <1> QED BY <1>1, <1>2, NextRefines DEF RefinementStep

\* Initially nobody holds a VM and nothing was sent.
LEMMA InitImplements == Init => Abstract!Init
  <1> SUFFICES ASSUME Init PROVE Abstract!Init
    OBVIOUS
  <1>1. \A o \in Ops : Fate(o) = "unsent"
    BY DEF Init, CoordinationInit, Fate, TerminalStatuses
  <1> QED BY <1>1 DEF Init, CoordinationInit, Abstract!Init

\* The whole system keeps the promise of TargetMutation: one operation at a time holds a VM, a
\* mutation is sent at most once and by the holder, and the VM is given up only before anything
\* was sent or once the outcome is settled, across leases, Jobs, threads, crashes and recovery.
THEOREM SystemImplementsPromise == Spec => ImplementsTargetMutation
  <1>1. Spec => []FatesKnown
    BY SafeAlways, FateCases, PTL
  <1> QED BY <1>1, SafeAlways, InitImplements, StepImplements, PTL
          DEF Spec, ImplementsTargetMutation, Abstract!Spec

=============================================================================
