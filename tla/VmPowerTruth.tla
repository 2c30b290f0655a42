--------------------------- MODULE VmPowerTruth ---------------------------
(***************************************************************************)
(* The inductive invariant of VmPower, second part: outcomes, claims of no *)
(* effect and what the Job tells, for every number of operations, VMs,     *)
(* requests, runners and operators.                                        *)
(***************************************************************************)
EXTENDS VmPowerSafe

USE CoordinationAssumption, VmPowerAssumption

-----------------------------------------------------------------------------
(***************************************************************************)
(* What Gjallar records as the outcome of a mutation is what Proxmox did,  *)
(* and a mutation that may still act on a VM acts under its own lock,      *)
(* proved for every number of operations, VMs, requests, runners and       *)
(* operators.                                                              *)
(*                                                                         *)
(* A status is written by one step and the task it speaks of moves in      *)
(* another: OutcomesStep is what every writer of a status guarantees, and  *)
(* TasksStep what every step of Proxmox does.                              *)
(***************************************************************************)

TruthInv == SafeInv /\ Truth

\* A status that says no more than Proxmox does.
Tells(o, s) ==
  /\ s = "succeeded" => task[o] = "ok"
  /\ s \in {"failed", "blocked"} => task[o] \in {"none", "failed"}

OutcomesStep == \A o \in Ops : Tells(o, op'[o].status)
TasksStep == \A o \in Ops : task'[o] = task[o] \/ op'[o].status \in Uncertain

\* Places where a request remembers what it saw of its task.
TellingPcs == {"look", "commitVerifying", "artifact", "commitTerminal"}
RequestsTell == \A q \in Requests : req'[q] = req[q] \/ RequestTruth(q)'

\* The invariant, with what the provers need of it.
LEMMA TruthRows ==
  ASSUME TruthInv
  PROVE  /\ SafeInv
         /\ \A o \in Ops : Tells(o, op[o].status)
         /\ \A r \in Requests : RequestTruth(r)
  BY DEF TruthInv, Truth, TerminalOutcomeIsTrue, Tells

\* A finished task is final, so what a request saw of it stays true.
LEMMA TruthKept ==
  ASSUME TruthInv, SafeInv', TaskFinal, OutcomesStep, TasksStep, RequestsTell
  PROVE  TruthInv'
  <1>1. TerminalOutcomeIsTrue'
    BY DEF OutcomesStep, TasksStep, Tells, TerminalOutcomeIsTrue, Uncertain
  <1>2. ASSUME NEW q \in Requests PROVE RequestTruth(q)'
    <2>1. RequestTruth(q) /\ OpOf[q] \in Ops
      BY TruthRows, SafeRows
    <2>2. CASE req'[q] = req[q]
      BY <2>1, <2>2 DEF RequestTruth, At, TaskFinal
    <2> QED BY <2>2 DEF RequestsTell
  <1> QED BY <1>1, <1>2 DEF TruthInv, Truth

\* Statuses that cannot be wrong: the one on record, one that leaves the outcome open, and the
\* failure or block of an operation that was never dispatched.
LEMMA TellsCases ==
  ASSUME TruthInv, NEW o \in Ops, NEW s,
         \/ s = op[o].status
         \/ s \in Uncertain \cup {"planned"}
         \/ op[o].status \in {"none", "planned"} /\ s # "succeeded"
  PROVE  Tells(o, s)
  <1>1. CASE s = op[o].status
    BY <1>1, TruthRows
  <1>2. CASE s \in Uncertain \cup {"planned"}
    BY <1>2 DEF Tells, Uncertain
  <1>3. CASE op[o].status \in {"none", "planned"} /\ s # "succeeded"
    <2>1. task[o] = "none"
      BY <1>3, TruthRows, SafeRows DEF OperationSafe
    <2> QED BY <1>3, <2>1 DEF Tells
  <1> QED BY <1>1, <1>2, <1>3

\* A step that writes no operation.
LEMMA OutcomesRest ==
  ASSUME TruthInv, op' = op
  PROVE  OutcomesStep
  BY TruthRows DEF OutcomesStep

\* A step that writes one.
LEMMA OutcomesRow ==
  ASSUME TruthInv, NEW o \in Ops, NEW row, op' = [op EXCEPT ![o] = row], Tells(o, row.status)
  PROVE  OutcomesStep
  BY TruthRows, SafeRows DEF OutcomesStep

\* A fenced commit.
LEMMA OutcomesCommit ==
  ASSUME TruthInv, NEW o \in Ops, NEW g, NEW from, NEW to \in OperationStatuses \cup {"none"},
         NEW item, NEW release, Commit(o, g, from, to, item, release), Tells(o, to)
  PROVE  OutcomesStep
  <1> DEFINE row == Moved(op[o], to)
  <1>1. row.status = to
    BY TruthRows, SafeRows, MovedType
  <1>2. op' = [op EXCEPT ![o] = row]
    BY DEF Commit
  <1> HIDE DEF row
  <1> QED BY <1>1, <1>2, OutcomesRow

\* A request that goes where it remembers nothing of its task.
LEMMA TellsElsewhere ==
  ASSUME TruthInv, NEW r \in Requests, NEW t, req' = [req EXCEPT ![r] = t], t.pc \notin TellingPcs
  PROVE  RequestsTell
  <1>1. req'[r] = t
    BY TruthRows, SafeRows
  <1> QED BY <1>1, TruthRows, SafeRows DEF RequestsTell, RequestTruth, At, TellingPcs

\* The same, when it only moves.
LEMMA GotoElsewhere ==
  ASSUME TruthInv, NEW r \in Requests, NEW pc, Goto(r, pc), pc \notin TellingPcs
  PROVE  RequestsTell
  BY TruthRows, GotoRow, TellsElsewhere

\* What a request that reads still remembers.
LEMMA ThreadFields ==
  ASSUME NEW t \in Threads, NEW pc, NEW x, NEW y
  PROVE  /\ [t EXCEPT !.pc = pc, !.seen = x].pc = pc
         /\ [t EXCEPT !.pc = pc, !.gen = x].pc = pc
         /\ [t EXCEPT !.pc = pc, !.saw = x].pc = pc
         /\ [t EXCEPT !.pc = pc, !.saw = x].saw = x
         /\ [t EXCEPT !.pc = pc, !.version = x, !.saw = y].pc = pc
         /\ [t EXCEPT !.pc = pc, !.version = x, !.seen = y].pc = pc
  BY DEF Threads

-----------------------------------------------------------------------------
(* The foreground workflow. *)

\* Before the dispatch: what is closed there was never sent.
LEMMA UnsentTells ==
  ASSUME TruthInv, NEW r \in Requests,
         \/ LookupJob(r) \/ PrepareOperation(r) \/ AcquireTarget(r) \/ TargetLockBusy(r)
         \/ ResolveBusy(r) \/ RecordConflict(r) \/ RecheckUnderLock(r) \/ RecordPrecheck(r)
         \/ Precheck(r) \/ AbandonUnsent(r) \/ BlockOperation(r) \/ RecordBlocked(r)
         \/ OpenMutationClient(r) \/ RecordStart(r) \/ RegisterRecovery(r)
         \/ RecordUnsentFailure(r) \/ CloseUnsentFailure(r) \/ ReleaseTarget(r)
         \/ ClaimReplay(r) \/ CommitReplay(r)
  PROVE  OutcomesStep /\ task' = task /\ RequestsTell
  <1> DEFINE o == OpOf[r]
  <1>1. o \in Ops /\ req[r] \in Threads /\ op[o] \in OpRows
    BY TruthRows, SafeRows
  <1>2. task' = task
    BY DEF Stay, proxmox, LookupJob, PrepareOperation, AcquireTarget, TargetLockBusy,
       ResolveBusy, RecordConflict, RecheckUnderLock, RecordPrecheck, Precheck, AbandonUnsent,
       BlockOperation, RecordBlocked, OpenMutationClient, RecordStart, RegisterRecovery,
       RecordUnsentFailure, CloseUnsentFailure, ReleaseTarget, ClaimReplay, CommitReplay
  <1>3. {"planned", "failed", "blocked"} \subseteq OperationStatuses \cup {"none"}
    BY DEF OperationStatuses
  <1>4. CASE PrepareOperation(r)
    <2> DEFINE row == Moved(op[o], "planned")
    <2>1. op' = op \/ (op' = [op EXCEPT ![o] = row] /\ op[o].status = "none")
      BY <1>4 DEF PrepareOperation, CreateOperation
    <2>2. row.status = "planned"
      BY <1>1, <1>3, MovedType
    <2> HIDE DEF row
    <2>3. Tells(o, "planned")
      BY DEF Tells
    <2>4. OutcomesStep
      BY <1>1, <2>1, <2>2, <2>3, OutcomesRest, OutcomesRow
    <2>5. RequestsTell
      BY <1>4, GotoElsewhere DEF PrepareOperation, TellingPcs
    <2> QED BY <1>2, <2>4, <2>5
  <1>5. CASE RecordConflict(r)
    <2>1. /\ Goto(r, "done")
          /\ \/ op' = op
             \/ \E to \in {"failed", "blocked"} :
                  op' = [op EXCEPT ![o] = Moved(op[o], to)] /\ op[o].status = "planned"
      BY <1>5 DEF RecordConflict, CloseOnConflict
    <2>2. ASSUME \E to \in {"failed", "blocked"} :
                   op' = [op EXCEPT ![o] = Moved(op[o], to)] /\ op[o].status = "planned"
          PROVE  OutcomesStep
      <3>1. PICK to \in {"failed", "blocked"} :
              op' = [op EXCEPT ![o] = Moved(op[o], to)] /\ op[o].status = "planned"
        BY <2>2
      <3> DEFINE row == Moved(op[o], to)
      <3>2. op' = [op EXCEPT ![o] = row] /\ row.status = to
        BY <1>1, <1>3, <3>1, MovedType
      <3> HIDE DEF row
      <3>3. Tells(o, to)
        BY <1>1, <3>1, TellsCases
      <3> QED BY <1>1, <3>2, <3>3, OutcomesRow
    <2>3. OutcomesStep
      BY <2>1, <2>2, OutcomesRest
    <2>4. RequestsTell
      BY <2>1, GotoElsewhere DEF TellingPcs
    <2> QED BY <1>2, <2>3, <2>4
  <1>6. CASE BlockOperation(r) \/ CloseUnsentFailure(r)
    <2>1. PICK pc \in {"blockJob", "release", "done"} :
            /\ Goto(r, pc)
            /\ op' = op \/ \E to \in {"failed", "blocked"} : CloseUnsent(o, to, r)
      BY <1>6 DEF BlockOperation, CloseUnsentFailure
    <2>2. ASSUME \E to \in {"failed", "blocked"} : CloseUnsent(o, to, r)
          PROVE  OutcomesStep
      <3>1. PICK to \in {"failed", "blocked"} : CloseUnsent(o, to, r)
        BY <2>2
      <3>2. r \in LockIds
        BY DEF LockIds
      <3>3. SafeInv
        BY TruthRows
      <3>4. PICK row : /\ op[o].status = "planned" /\ op' = [op EXCEPT ![o] = row]
                       /\ row.status = to
        BY <1>1, <3>1, <3>2, <3>3, CloseUnsentRow
      <3>5. Tells(o, to)
        BY <1>1, <3>4, TellsCases
      <3> QED BY <1>1, <3>4, <3>5, OutcomesRow
    <2>3. OutcomesStep
      BY <2>1, <2>2, OutcomesRest
    <2>4. RequestsTell
      BY <2>1, GotoElsewhere DEF TellingPcs
    <2> QED BY <1>2, <2>3, <2>4
  <1>7. CASE CommitReplay(r)
    <2>1. ASSUME Commit(o, req[r].gen, {"planned"}, "failed", Ended(o, "completed", FALSE), TRUE)
          PROVE  OutcomesStep
      <3>1. op[o].status = "planned"
        BY <2>1 DEF Commit, MayCommit
      <3>2. Tells(o, "failed")
        BY <1>1, <3>1, TellsCases
      <3> QED BY <1>1, <1>3, <2>1, <3>2, OutcomesCommit
    <2>2. OutcomesStep
      BY <1>7, <2>1, OutcomesRest DEF CommitReplay
    <2>3. RequestsTell
      BY <1>7, GotoElsewhere DEF CommitReplay, TellingPcs
    <2> QED BY <1>2, <2>2, <2>3
  \* The others write no operation.
  <1>8. CASE \/ LookupJob(r) \/ AcquireTarget(r) \/ RecordPrecheck(r) \/ Precheck(r)
             \/ AbandonUnsent(r) \/ RecordBlocked(r) \/ OpenMutationClient(r) \/ RecordStart(r)
             \/ RecordUnsentFailure(r) \/ ReleaseTarget(r)
    <2>1. op' = op
      BY <1>8 DEF LookupJob, AcquireTarget, RecordPrecheck, Precheck, AbandonUnsent, RecordBlocked,
         OpenMutationClient, RecordStart, RecordUnsentFailure, ReleaseTarget, coordination
    <2>2. \E pc \in {"prepare", "recheck", "precheck", "client", "block", "release", "recordStart",
                     "claim", "failJob", "failTransition", "done"} : Goto(r, pc)
      BY <1>8 DEF LookupJob, AcquireTarget, RecordPrecheck, Precheck, AbandonUnsent, RecordBlocked,
         OpenMutationClient, RecordStart, RecordUnsentFailure, ReleaseTarget
    <2>3. RequestsTell
      BY <2>2, GotoElsewhere DEF TellingPcs
    <2> QED BY <1>2, <2>1, <2>3, OutcomesRest
  <1>9. CASE \/ TargetLockBusy(r) \/ ResolveBusy(r) \/ RecheckUnderLock(r) \/ RegisterRecovery(r)
             \/ ClaimReplay(r)
    <2>1. op' = op
      BY <1>9 DEF TargetLockBusy, ResolveBusy, RecheckUnderLock, RegisterRecovery, ClaimReplay, coordination
    <2>2. ASSUME NEW t, req' = [req EXCEPT ![r] = t],
                 t.pc \in {"busy", "closeClaim", "closeCommit", "commitDispatch", "conflict"}
          PROVE  RequestsTell
      BY <2>2, TellsElsewhere DEF TellingPcs
    <2>3. ASSUME NEW pc \in {"conflict", "release", "recordPrecheck", "failJob", "done"}, Goto(r, pc)
          PROVE  RequestsTell
      BY <2>3, GotoElsewhere DEF TellingPcs
    <2>4. CASE TargetLockBusy(r)
      <3>1. PICK l : req' = [req EXCEPT ![r] = [req[r] EXCEPT !.pc = "busy", !.seen = l]]
        BY <2>4 DEF TargetLockBusy
      <3>2. [req[r] EXCEPT !.pc = "busy", !.seen = l].pc = "busy"
        BY <1>1, ThreadFields
      <3>3. RequestsTell
        BY <2>2, <3>1, <3>2
      <3> QED BY <1>2, <2>1, <3>3, OutcomesRest
    <2>5. CASE ResolveBusy(r)
      <3>1. \/ Goto(r, "done")
            \/ \E pc \in {"conflict", "closeClaim"}, s \in {"none", "failed"} :
                 req' = [req EXCEPT ![r] = [req[r] EXCEPT !.pc = pc, !.version = op[o].version, !.saw = s]]
        BY <2>5 DEF ResolveBusy
      <3>2. ASSUME NEW pc \in {"conflict", "closeClaim"}, NEW s \in {"none", "failed"},
                   req' = [req EXCEPT ![r] = [req[r] EXCEPT !.pc = pc, !.version = op[o].version, !.saw = s]]
            PROVE  RequestsTell
        <4>1. [req[r] EXCEPT !.pc = pc, !.version = op[o].version, !.saw = s].pc = pc
          BY <1>1, ThreadFields
        <4> QED BY <2>2, <3>2, <4>1
      <3>3. RequestsTell
        BY <2>3, <3>1, <3>2
      <3> QED BY <1>2, <2>1, <3>3, OutcomesRest
    <2>6. CASE RecheckUnderLock(r)
      <3>1. \/ Goto(r, "release") \/ Goto(r, "recordPrecheck")
            \/ req' = [req EXCEPT ![r] = [req[r] EXCEPT !.pc = "closeClaim", !.version = op[o].version,
                                                        !.seen = r]]
        BY <2>6 DEF RecheckUnderLock
      <3>2. [req[r] EXCEPT !.pc = "closeClaim", !.version = op[o].version, !.seen = r].pc = "closeClaim"
        BY <1>1, ThreadFields
      <3>3. RequestsTell
        BY <2>2, <2>3, <3>1, <3>2
      <3> QED BY <1>2, <2>1, <3>3, OutcomesRest
    <2>7. CASE RegisterRecovery(r) \/ ClaimReplay(r)
      <3>1. \/ Goto(r, "failJob") \/ Goto(r, "done")
            \/ req' = [req EXCEPT ![r] = [req[r] EXCEPT !.pc = "commitDispatch", !.gen = rec'[o].gen]]
            \/ req' = [req EXCEPT ![r] = [req[r] EXCEPT !.pc = "closeCommit", !.gen = rec'[o].gen]]
        BY <2>7 DEF RegisterRecovery, ClaimReplay
      <3>2. \A pc \in {"commitDispatch", "closeCommit"} :
              [req[r] EXCEPT !.pc = pc, !.gen = rec'[o].gen].pc = pc
        BY <1>1, ThreadFields
      <3>3. RequestsTell
        BY <2>2, <2>3, <3>1, <3>2
      <3> QED BY <1>2, <2>1, <3>3, OutcomesRest
    <2> QED BY <1>9, <2>4, <2>5, <2>6, <2>7
  <1> QED BY <1>4, <1>5, <1>6, <1>7, <1>8, <1>9

\* A request's fenced commit, or the conflict that ends it.
LEMMA CommitOrStopTells ==
  ASSUME TruthInv, NEW r \in Requests, NEW from, NEW to \in OperationStatuses \cup {"none"}, NEW item,
         NEW release, NEW next, CommitOrStop(r, from, to, item, release, next),
         op[OpOf[r]].status \in from /\ MayTransition(op[OpOf[r]].status, to) => Tells(OpOf[r], to)
  PROVE  OutcomesStep /\ (Goto(r, next) \/ Goto(r, "done"))
  <1>1. OpOf[r] \in Ops
    BY TruthRows, SafeRows
  <1>2. CASE Commit(OpOf[r], req[r].gen, from, to, item, release) /\ Goto(r, next)
    <2>1. Tells(OpOf[r], to)
      BY <1>2 DEF Commit, MayCommit
    <2> QED BY <1>1, <1>2, <2>1, OutcomesCommit
  <1>3. CASE Goto(r, "done") /\ UNCHANGED <<op, rec, lock>>
    BY <1>3, OutcomesRest
  <1> QED BY <1>2, <1>3 DEF CommitOrStop

\* From the checkpoint on: a settled outcome is what the request saw of its task, or the
\* rejection of a mutation that started nothing.
LEMMA SentTells ==
  ASSUME TruthInv, NEW r \in Requests,
         \/ CommitDispatching(r) \/ CommitRejected(r) \/ CommitRunning(r)
         \/ RecordPoll(r) \/ PollTask(r) \/ ReadVmStatus(r) \/ CommitVerifying(r)
         \/ WriteArtifact(r) \/ RequireReconciliation(r) \/ RecordReconciliation(r)
         \/ CommitTerminal(r) \/ RecordTerminal(r) \/ HandOff(r) \/ FinishTerminal(r)
  PROVE  OutcomesStep /\ task' = task /\ RequestsTell
  <1> DEFINE o == OpOf[r]
  <1>1. /\ SafeInv /\ o \in Ops /\ req[r] \in Threads /\ op[o] \in OpRows
        /\ RequestSafe(r) /\ RequestTruth(r) /\ RequestVerdict(r)
    BY TruthRows, SafeRows, ClosedRows DEF ClosedInv, Closed
  <1>2. task' = task
    BY DEF Stay, proxmox, CommitDispatching, CommitRejected, CommitRunning, RecordPoll, PollTask,
       ReadVmStatus, CommitVerifying, WriteArtifact, RequireReconciliation, RecordReconciliation,
       CommitTerminal, RecordTerminal, HandOff, FinishTerminal
  <1>3. {"dispatching", "running", "verifying", "succeeded", "failed", "needs_reconciliation"}
          \subseteq OperationStatuses \cup {"none"}
    BY DEF OperationStatuses
  <1>4. \A s \in {"dispatching", "running", "verifying", "needs_reconciliation"} : Tells(o, s)
    BY DEF Tells
  <1>5. ASSUME NEW pc \in {"post", "terminalJob", "recordPoll", "poll", "reconcile", "handoff",
                           "reconcileJob", "finish", "done"},
               Goto(r, pc)
        PROVE  RequestsTell
    BY <1>5, GotoElsewhere DEF TellingPcs
  \* A request that keeps what it saw on its way to the decision.
  <1>6. ASSUME NEW pc \in {"artifact", "commitTerminal"}, Goto(r, pc),
               req[r].pc \in {"commitVerifying", "artifact"}
        PROVE  RequestsTell
    <2> DEFINE t == [req[r] EXCEPT !.pc = pc]
    <2>1. req' = [req EXCEPT ![r] = t]
      BY <1>6 DEF Goto
    <2>2. t.pc = pc /\ t.saw = req[r].saw
      BY <1>1 DEF Threads
    <2> HIDE DEF t
    <2>3. req'[r] = t
      BY <1>1, <2>1, SafeRows
    <2>4. RequestTruth(r)'
      BY <1>1, <1>2, <1>6, <2>2, <2>3 DEF RequestTruth, At
    <2> QED BY <1>1, <2>1, <2>4, SafeRows DEF RequestsTell
  <1>7. CASE CommitDispatching(r)
    <2>1. CASE CommitOrStop(r, {"planned"}, "dispatching", [Kept(o) EXCEPT !.phase = "dispatched"],
                            FALSE, "post")
      <3>1. OutcomesStep /\ (Goto(r, "post") \/ Goto(r, "done"))
        BY <1>3, <1>4, <2>1, CommitOrStopTells
      <3> QED BY <1>2, <1>5, <3>1
    <2>2. CASE Goto(r, "done") /\ UNCHANGED <<op, rec, lock>>
      BY <1>2, <1>5, <2>2, OutcomesRest
    <2> QED BY <1>7, <2>1, <2>2 DEF CommitDispatching
  <1>8. CASE CommitRejected(r)
    <2>1. CASE /\ Commit(o, req[r].gen, {"dispatching"}, "failed", Kept(o), FALSE)
               /\ req' = [req EXCEPT ![r].pc = "terminalJob", ![r].saw = "failed"]
      <3> DEFINE t == [req[r] EXCEPT !.pc = "terminalJob", !.saw = "failed"]
      <3>1. req' = [req EXCEPT ![r] = t]
        BY <2>1
      <3>2. t.pc = "terminalJob"
        BY <1>1, ThreadFields
      <3> HIDE DEF t
      <3>3. RequestsTell
        BY <3>1, <3>2, TellsElsewhere DEF TellingPcs
      <3>4. Tells(o, "failed")
        BY <1>1, <1>8 DEF CommitRejected, RequestSafe, Tells
      <3>5. OutcomesStep
        BY <1>1, <1>3, <2>1, <3>4, OutcomesCommit
      <3> QED BY <1>2, <3>3, <3>5
    <2>2. CASE Goto(r, "done") /\ UNCHANGED <<op, rec, lock>>
      BY <1>2, <1>5, <2>2, OutcomesRest
    <2> QED BY <1>8, <2>1, <2>2 DEF CommitRejected
  <1>9. CASE CommitRunning(r)
    <2> DEFINE row == [Moved(op[o], "running") EXCEPT !.upid = TRUE]
    <2>1. op' = op \/ op' = [op EXCEPT ![o] = row]
      BY <1>9 DEF CommitRunning
    <2>2. Moved(op[o], "running") \in OpRows /\ Moved(op[o], "running").status = "running"
      BY <1>1, <1>3, MovedType
    <2>3. row.status = "running"
      BY <2>2 DEF OpRows
    <2> HIDE DEF row
    <2>4. OutcomesStep
      BY <1>1, <1>4, <2>1, <2>3, OutcomesRest, OutcomesRow
    <2>5. \E pc \in {"recordPoll", "done"} : Goto(r, pc)
      BY <1>9 DEF CommitRunning
    <2> QED BY <1>2, <1>5, <2>4, <2>5
  <1>10. CASE RecordPoll(r) \/ RecordReconciliation(r) \/ RecordTerminal(r)
    <2>1. op' = op /\ \E pc \in {"poll", "finish", "handoff", "done"} : Goto(r, pc)
      BY <1>10 DEF RecordPoll, RecordReconciliation, RecordTerminal
    <2> QED BY <1>2, <1>5, <2>1, OutcomesRest
  <1>11. CASE PollTask(r)
    <2>1. op' = op
      BY <1>11 DEF PollTask, coordination
    <2>2. CASE Goto(r, "done")
      BY <1>2, <1>5, <2>1, <2>2, OutcomesRest
    <2>3. CASE \E x \in {"unknown"} \cup ({task[o]} \cap {"ok", "failed"}) :
                 req' = [req EXCEPT ![r].pc = "look", ![r].saw = x]
      <3>1. PICK x \in {"unknown"} \cup ({task[o]} \cap {"ok", "failed"}) :
              req' = [req EXCEPT ![r].pc = "look", ![r].saw = x]
        BY <2>3
      <3> DEFINE t == [req[r] EXCEPT !.pc = "look", !.saw = x]
      <3>2. req' = [req EXCEPT ![r] = t]
        BY <3>1
      <3>3. t.pc = "look" /\ t.saw = x
        BY <1>1, ThreadFields
      <3> HIDE DEF t
      <3>4. req'[r] = t
        BY <1>1, <3>2, SafeRows
      <3>5. RequestTruth(r)'
        BY <1>2, <3>3, <3>4 DEF RequestTruth, At
      <3>6. RequestsTell
        BY <1>1, <3>2, <3>5, SafeRows DEF RequestsTell
      <3> QED BY <1>2, <2>1, <3>6, OutcomesRest
    <2> QED BY <1>11, <2>2, <2>3 DEF PollTask
  <1>12. CASE ReadVmStatus(r)
    <2>1. op' = op /\ At(r, "look")
      BY <1>12 DEF ReadVmStatus, coordination
    <2>2. PICK x : /\ req' = [req EXCEPT ![r] = [req[r] EXCEPT !.pc = "commitVerifying", !.saw = x]]
                   /\ x = "succeeded" => req[r].saw = "ok"
                   /\ x = "failed" => req[r].saw = "failed"
      <3>1. PICK state \in {vm[VmOf[o]], "unknown"} :
              req' = [req EXCEPT ![r] = [req[r] EXCEPT !.pc = "commitVerifying",
                                                       !.saw = Verdict(o, req[r].saw, state)]]
        BY <1>12 DEF ReadVmStatus
      <3>2. /\ Verdict(o, req[r].saw, state) = "succeeded" => req[r].saw = "ok"
            /\ Verdict(o, req[r].saw, state) = "failed" => req[r].saw = "failed"
        BY DEF Verdict
      <3> QED BY <3>1, <3>2
    <2> DEFINE t == [req[r] EXCEPT !.pc = "commitVerifying", !.saw = x]
    <2>3. req' = [req EXCEPT ![r] = t]
      BY <2>2
    <2>4. t.pc = "commitVerifying" /\ t.saw = x
      BY <1>1, ThreadFields
    <2> HIDE DEF t
    <2>5. req'[r] = t
      BY <1>1, <2>3, SafeRows
    <2>6. RequestTruth(r)'
      BY <1>1, <1>2, <2>1, <2>2, <2>4, <2>5 DEF RequestTruth, At
    <2>7. RequestsTell
      BY <1>1, <2>3, <2>6, SafeRows DEF RequestsTell
    <2> QED BY <1>2, <2>1, <2>7, OutcomesRest
  <1>13. CASE CommitVerifying(r)
    <2>1. OutcomesStep /\ (Goto(r, "artifact") \/ Goto(r, "done"))
      BY <1>3, <1>4, <1>13, CommitOrStopTells DEF CommitVerifying
    <2>2. req[r].pc = "commitVerifying"
      BY <1>13 DEF CommitVerifying, At
    <2> QED BY <1>2, <1>5, <1>6, <2>1, <2>2
  <1>14. CASE WriteArtifact(r)
    <2>1. op' = op
      BY <1>14 DEF WriteArtifact, coordination
    <2>2. \/ \E pc \in {"reconcile", "handoff"} : Goto(r, pc)
          \/ Goto(r, "commitTerminal") /\ req[r].pc = "artifact"
      BY <1>14 DEF WriteArtifact, At
    <2> QED BY <1>2, <1>5, <1>6, <2>1, <2>2, OutcomesRest
  <1>15. CASE RequireReconciliation(r)
    <2>1. CASE \E item : CommitOrStop(r, {"dispatching", "running", "verifying"},
                                      "needs_reconciliation", item, FALSE, "reconcileJob")
      <3>1. OutcomesStep /\ (Goto(r, "reconcileJob") \/ Goto(r, "done"))
        BY <1>3, <1>4, <2>1, CommitOrStopTells
      <3> QED BY <1>2, <1>5, <3>1
    <2>2. CASE Goto(r, "done") /\ UNCHANGED <<op, rec, lock>>
      BY <1>2, <1>5, <2>2, OutcomesRest
    <2> QED BY <1>15, <2>1, <2>2 DEF RequireReconciliation
  <1>16. CASE CommitTerminal(r)
    <2>1. req[r].saw \in {"succeeded", "failed"} /\ At(r, "commitTerminal")
      BY <1>1, <1>16 DEF CommitTerminal, At, RequestVerdict
    <2>2. Tells(o, req[r].saw)
      BY <1>1, <2>1 DEF RequestTruth, Tells, At
    <2>3. OutcomesStep /\ (Goto(r, "terminalJob") \/ Goto(r, "done"))
      BY <1>3, <1>16, <2>1, <2>2, CommitOrStopTells DEF CommitTerminal
    <2> QED BY <1>2, <1>5, <2>3
  <1>17. CASE HandOff(r)
    <2> DEFINE to == IF op[o].status \in {"succeeded", "failed"} THEN op[o].status ELSE "needs_reconciliation"
    <2>1. to \in OperationStatuses \cup {"none"} /\ Tells(o, to)
      BY <1>1, <1>3, <1>4, TruthRows
    <2>2. CASE \E item : CommitOrStop(r, {"dispatching", "verifying", "succeeded", "failed"}, to,
                                      item, FALSE, "done")
      <3> HIDE DEF to
      <3>1. OutcomesStep /\ Goto(r, "done")
        BY <2>1, <2>2, CommitOrStopTells
      <3> QED BY <1>2, <1>5, <3>1
    <2>3. CASE Goto(r, "done") /\ UNCHANGED <<op, rec, lock>>
      BY <1>2, <1>5, <2>3, OutcomesRest
    <2> QED BY <1>17, <2>2, <2>3 DEF HandOff
  <1>18. CASE FinishTerminal(r)
    <2>1. req[r].saw \in {"succeeded", "failed"}
      BY <1>1, <1>18 DEF FinishTerminal, At, RequestVerdict
    <2>2. op[o].status \in {req[r].saw} => Tells(o, req[r].saw)
      BY <1>1, TruthRows
    <2>3. OutcomesStep /\ Goto(r, "done")
      BY <1>3, <1>18, <2>1, <2>2, CommitOrStopTells DEF FinishTerminal
    <2> QED BY <1>2, <1>5, <2>3
  <1> QED BY <1>7, <1>8, <1>9, <1>10, <1>11, <1>12, <1>13, <1>14, <1>15, <1>16, <1>17, <1>18

\* The POST acts on an operation whose outcome is open.
LEMMA PostTells ==
  ASSUME TruthInv, NEW r \in Requests, PostMutation(r)
  PROVE  OutcomesStep /\ TasksStep /\ RequestsTell
  <1> DEFINE o == OpOf[r]
  <1>1. /\ SafeInv /\ o \in Ops /\ op[o].status \in Uncertain /\ op' = op
    BY TruthRows, SafeRows DEF PostMutation, RequestSafe, At, coordination
  <1>2. \A p \in Ops : task'[p] = task[p] \/ p = o
    BY <1>1, SafeRows DEF PostMutation
  <1>3. TasksStep
    BY <1>1, <1>2 DEF TasksStep
  <1>4. \E pc \in {"commitRunning", "commitRejected", "ambiguous"} : Goto(r, pc)
    BY DEF PostMutation
  <1>5. RequestsTell
    BY <1>4, GotoElsewhere DEF TellingPcs
  <1> QED BY <1>1, <1>3, <1>5, OutcomesRest

-----------------------------------------------------------------------------
(* The observers. *)

\* An observer repeats the status it read, leaves the outcome open, settles what Proxmox
\* reported, or closes what was never dispatched.
LEMMA ObserverTells ==
  ASSUME TruthInv, NEW w \in Observers,
         \/ ClaimDueWork(w) \/ RequestObservation(w) \/ RepeatObservation(w)
         \/ ObserverStep(w) \/ ObserverCrashes(w)
  PROVE  OutcomesStep /\ task' = task
  <1> DEFINE o == obs[w].o
             st == obs[w].status
  <1>1. SafeInv /\ o \in Ops /\ ObserverSafe(w)
    BY TruthRows, SafeRows
  <1>2. task' = task
    BY DEF ObserverStep, Hold, proxmox, ClaimDueWork, RequestObservation, RepeatObservation,
       ObserverCrashes, ClaimObservation, RecordRequest, LeaseLost, LoadOperation,
       ValidateBinding, PauseBindingFailure, PauseMissingTask, CompleteUnsent,
       CompleteProjection, ObserveTask, ObserveVm, RetryTask, AdvanceToVerifying,
       RecordOutcome, PauseMismatch, AbsorbException
  <1>3. ASSUME NEW g, NEW from, NEW to, NEW item, NEW release, Commit(o, g, from, to, item, release),
               \/ to = op[o].status
               \/ Tells(o, to) /\ to \in Uncertain \cup {"succeeded", "failed", "blocked"}
        PROVE  OutcomesStep
    <2>1. Tells(o, to)
      BY <1>1, <1>3, TruthRows
    <2>2. to \in OperationStatuses \cup {"none"}
      BY <1>1, <1>3, SafeRows DEF OpRows, OperationStatuses, Uncertain
    <2> QED BY <1>1, <1>3, <2>1, <2>2, OutcomesCommit
  <1>4. ASSUME NEW to, NEW item, NEW release, HandlerCommit(w, to, item, release),
               \/ to = st
               \/ Tells(o, to) /\ to \in Uncertain \cup {"succeeded", "failed", "blocked"}
        PROVE  OutcomesStep
    <2>1. op[o].status = st /\ Commit(o, obs[w].gen, {st}, to, item, release)
      BY <1>4 DEF HandlerCommit, Commit, MayCommit
    <2> QED BY <1>3, <1>4, <2>1
  <1>5. \A s \in Uncertain : Tells(o, s)
    BY DEF Tells, Uncertain
  <1>6. CASE \/ ClaimDueWork(w) \/ RequestObservation(w) \/ RepeatObservation(w)
             \/ ObserverCrashes(w) \/ ClaimObservation(w) \/ LeaseLost(w) \/ LoadOperation(w)
             \/ ValidateBinding(w) \/ ObserveTask(w) \/ ObserveVm(w)
    <2>1. op' = op
      BY <1>6 DEF ClaimDueWork, RequestObservation, RepeatObservation, ObserverCrashes,
         ClaimObservation, LeaseLost, LoadOperation, ValidateBinding, ObserveTask, ObserveVm,
         coordination
    <2> QED BY <1>2, <2>1, OutcomesRest
  <1>7. CASE RecordRequest(w)
    <2>1. op' = op \/ Commit(o, obs[w].gen, {st}, st, Kept(o), FALSE)
      BY <1>7 DEF RecordRequest
    <2>2. Commit(o, obs[w].gen, {st}, st, Kept(o), FALSE) => st = op[o].status
      BY DEF Commit, MayCommit
    <2> QED BY <1>2, <1>3, <2>1, <2>2, OutcomesRest
  <1>8. CASE PauseBindingFailure(w) \/ PauseMissingTask(w)
    <2>1. Reconciled(w) = st \/ Reconciled(w) \in Uncertain
      BY DEF Reconciled, Uncertain
    <2>2. op' = op \/ \E item : HandlerCommit(w, Reconciled(w), item, FALSE)
      BY <1>8 DEF PauseBindingFailure, PauseMissingTask, HandlerConflict
    <2> QED BY <1>2, <1>4, <1>5, <2>1, <2>2, OutcomesRest
  <1>9. CASE CompleteUnsent(w)
    <2> DEFINE to == IF st \in {"failed", "blocked"} THEN st ELSE "failed"
    <2>1. st \in {"planned", "failed", "blocked"}
      BY <1>1, <1>9 DEF CompleteUnsent, Handling, ObserverSafe
    <2>2. op' = op \/ HandlerCommit(w, to, Ended(o, "completed", FALSE), TRUE)
      BY <1>9 DEF CompleteUnsent, HandlerConflict
    <2>3. CASE HandlerCommit(w, to, Ended(o, "completed", FALSE), TRUE)
      <3>1. op[o].status = st
        BY <2>3 DEF HandlerCommit, Commit, MayCommit
      <3>2. to = st \/ (op[o].status = "planned" /\ to = "failed")
        BY <2>1, <3>1
      <3> HIDE DEF to
      <3>3. to = st \/ (Tells(o, to) /\ to = "failed")
        BY <1>1, <3>2, TellsCases
      <3> QED BY <1>2, <1>4, <2>3, <3>3
    <2> QED BY <1>2, <2>2, <2>3, OutcomesRest
  <1>10. CASE CompleteProjection(w) \/ RetryTask(w)
    <2>1. op' = op \/ \E item, release : HandlerCommit(w, st, item, release)
      BY <1>10 DEF CompleteProjection, RetryTask, HandlerConflict, coordination
    <2> QED BY <1>2, <1>4, <2>1, OutcomesRest
  <1>11. CASE AdvanceToVerifying(w) \/ PauseMismatch(w)
    <2>1. op' = op \/ \E to \in Uncertain : \E item : HandlerCommit(w, to, item, FALSE)
      BY <1>11 DEF AdvanceToVerifying, PauseMismatch, HandlerConflict, Uncertain
    <2> QED BY <1>2, <1>4, <1>5, <2>1, OutcomesRest
  <1>12. CASE RecordOutcome(w)
    <2>1. \/ op' = op
          \/ ObserverAt(w, "succeed") /\ HandlerCommit(w, "succeeded", Kept(o), FALSE)
          \/ ObserverAt(w, "fail") /\ HandlerCommit(w, "failed", Kept(o), FALSE)
      BY <1>12 DEF RecordOutcome, HandlerConflict, ObserverAt
    <2>2. /\ ObserverAt(w, "succeed") => Tells(o, "succeeded")
          /\ ObserverAt(w, "fail") => Tells(o, "failed")
      BY <1>1 DEF ObserverSafe, ObserverAt, Tells
    <2> QED BY <1>2, <1>4, <2>1, <2>2, OutcomesRest
  <1>13. CASE AbsorbException(w)
    <2>1. \E item : Commit(o, obs[w].gen, {op[o].status}, op[o].status, item, FALSE)
      BY <1>13 DEF AbsorbException
    <2> QED BY <1>2, <1>3, <2>1
  <1> QED BY <1>6, <1>7, <1>8, <1>9, <1>10, <1>11, <1>12, <1>13 DEF ObserverStep

-----------------------------------------------------------------------------
(* The specification. *)

\* A task that is still open belongs to an operation whose outcome is open.
LEMMA OpenTaskUncertain ==
  ASSUME TruthInv, NEW o \in Ops, TaskOpen(o)
  PROVE  op[o].status \in Uncertain
  <1>1. OperationSafe(o) /\ StatusInUse(o) /\ Tells(o, op[o].status)
    BY TruthRows, SafeRows
  <1> QED BY <1>1 DEF OperationSafe, StatusInUse, StatusesInUse, Tells, TaskOpen, Uncertain

\* Initially no operation exists.
LEMMA TruthInit == Init => TruthInv
  <1> SUFFICES ASSUME Init PROVE TruthInv
    OBVIOUS
  <1>1. /\ \A o \in Ops : op[o].status = "none"
        /\ \A r \in Requests : req[r].pc = "start"
    BY DEF Init, CoordinationInit, Thread
  <1>2. Truth
    BY <1>1 DEF Truth, TerminalOutcomeIsTrue, RequestTruth, At
  <1> QED BY <1>2, SafeInit DEF TruthInv

\* Every step writes true outcomes, and moves the tasks of open operations only.
LEMMA NextTells ==
  ASSUME TruthInv, [Next]_vars
  PROVE  OutcomesStep /\ TasksStep /\ RequestsTell
  <1>1. ASSUME task' = task PROVE TasksStep
    BY <1>1 DEF TasksStep
  <1>2. ASSUME req' = req PROVE RequestsTell
    BY <1>2 DEF RequestsTell
  <1>3. ASSUME NEW r \in Requests, RequestStep(r)
        PROVE  OutcomesStep /\ TasksStep /\ RequestsTell
    BY <1>1, <1>3, UnsentTells, PostTells, SentTells DEF RequestStep
  <1>4. ASSUME NEW w \in Observers,
               ClaimDueWork(w) \/ RequestObservation(w) \/ RepeatObservation(w)
               \/ ObserverStep(w) \/ ObserverCrashes(w)
        PROVE  OutcomesStep /\ TasksStep /\ RequestsTell
    <2>1. OutcomesStep /\ task' = task
      BY <1>4, ObserverTells
    <2>2. req' = req
      BY <1>4 DEF ObserverStep, Hold, ClaimDueWork, RequestObservation, RepeatObservation,
         ObserverCrashes, ClaimObservation, RecordRequest, LeaseLost, LoadOperation,
         ValidateBinding, PauseBindingFailure, PauseMissingTask, CompleteUnsent,
         CompleteProjection, ObserveTask, ObserveVm, RetryTask, AdvanceToVerifying,
         RecordOutcome, PauseMismatch, AbsorbException
    <2> QED BY <1>1, <1>2, <2>1, <2>2
  <1>5. ASSUME NEW r \in Requests, RequestCrashes(r)
        PROVE  OutcomesStep /\ TasksStep /\ RequestsTell
    <2>1. Goto(r, "crashed") /\ op' = op /\ task' = task
      BY <1>5 DEF RequestCrashes, coordination, proxmox
    <2>2. RequestsTell
      BY <2>1, GotoElsewhere DEF TellingPcs
    <2> QED BY <1>1, <2>1, <2>2, OutcomesRest
  <1>6. CASE ProxmoxStep
    <2>1. op' = op /\ req' = req
      BY <1>6 DEF ProxmoxStep, TaskStarts, TaskEnds, PowerChanges, coordination
    <2>2. CASE \E o \in Ops : TaskStarts(o) \/ TaskEnds(o)
      <3>1. PICK o \in Ops : TaskStarts(o) \/ TaskEnds(o)
        BY <2>2
      <3>2. op[o].status \in Uncertain
        BY <3>1, OpenTaskUncertain DEF TaskStarts, TaskEnds, TaskOpen
      <3>3. \A p \in Ops : task'[p] = task[p] \/ p = o
        BY <3>1, TruthRows, SafeRows DEF TaskStarts, TaskEnds
      <3>4. TasksStep
        BY <2>1, <3>2, <3>3 DEF TasksStep
      <3> QED BY <1>2, <2>1, <3>4, OutcomesRest
    <2>3. CASE \E v \in Vms : PowerChanges(v)
      <3>1. task' = task
        BY <2>3 DEF PowerChanges
      <3> QED BY <1>1, <1>2, <2>1, <3>1, OutcomesRest
    <2> QED BY <1>6, <2>2, <2>3 DEF ProxmoxStep
  <1>7. CASE UNCHANGED vars
    BY <1>1, <1>2, <1>7, OutcomesRest DEF vars
  <1>8. ASSUME NEW o \in Ops, LeaseExpires(o)
        PROVE  OutcomesStep /\ TasksStep /\ RequestsTell
    BY <1>1, <1>2, <1>8, OutcomesRest DEF LeaseExpires, proxmox
  <1> QED BY <1>3, <1>4, <1>5, <1>6, <1>7, <1>8 DEF Next

\* The inductive step.
LEMMA TruthStep == TruthInv /\ [Next]_vars => TruthInv'
  <1> SUFFICES ASSUME TruthInv, [Next]_vars PROVE TruthInv'
    OBVIOUS
  <1>1. SafeInv
    BY TruthRows
  <1>2. SafeInv'
    BY <1>1, SafeStep
  <1>3. TaskFinal
    BY <1>1, NextSafe DEF TablesStep
  <1> QED BY <1>2, <1>3, NextTells, TruthKept

\* The invariant of every reachable state.
LEMMA TruthAlways == Spec => []TruthInv
  <1> QED BY TruthInit, TruthStep, PTL DEF Spec

\* Success is recorded only of a task that finished, failure and block only of one that failed
\* or never ran: by the request, by the runner or after an operator's observation.
THEOREM OutcomeIsTrue == Spec => []TerminalOutcomeIsTrue
  <1>1. TruthInv => TerminalOutcomeIsTrue
    BY DEF TruthInv, Truth
  <1> QED BY <1>1, TruthAlways, PTL

\* While Proxmox may still act for an operation, its VM is locked by it: no error path, crash or
\* takeover admits a second mutation beside it.
THEOREM EffectIsLocked == Spec => []EffectUnderLock
  <1>1. TruthInv => EffectUnderLock
    <2> SUFFICES ASSUME TruthInv, NEW o \in Ops, TaskOpen(o) PROVE LockedBy(o)
      BY DEF EffectUnderLock
    <2>1. op[o].status \in Uncertain
      BY OpenTaskUncertain
    <2> QED BY <2>1, TruthRows, SafeRows DEF OperationSafe, ExactLock
  <1> QED BY <1>1, TruthAlways, PTL

-----------------------------------------------------------------------------
(***************************************************************************)
(* What the records call "without effect" was never sent, proved for every *)
(* number of operations, VMs, requests, runners and operators.             *)
(*                                                                         *)
(* The claim is made twice, in two transactions: first in the Job, which   *)
(* no lease fences, then in the operation's row.  Between them another     *)
(* request may take the lock and go on to its own dispatch, so the proof   *)
(* follows three columns at once (MovesStep, JobStep, PostStep) and what   *)
(* the thread that writes them has read.                                   *)
(***************************************************************************)

ClaimInv == TruthInv /\ Claims

-----------------------------------------------------------------------------
(* What every step has in common. *)

\* A row dispatches under a Job without a claim, a closed status is final, and a marker is
\* written with the closing of a planned operation.
Moves(o, row) ==
  /\ row.status \in Uncertain => op[o].status \in Uncertain \/ job[o] # "failed_no_effect"
  /\ row.status = "planned" => op[o].status \in {"none", "planned"}
  /\ row.status = "blocked" => op[o].status \in {"planned", "blocked"}
  /\ op[o].status \in {"failed", "blocked"} => row.status = op[o].status
  /\ \/ row.marker = op[o].marker
     \/ op[o].status = "planned" /\ row.status \in {"failed", "blocked"}
MovesStep == \A o \in Ops : Moves(o, op'[o])

\* A Job claims no effect after the row was blocked, or by a request that failed unsent.
JobMoves(o, s) ==
  \/ s = job[o]
  \/ s \notin {"failed_no_effect", "blocked"}
  \/ s = "blocked" /\ op'[o].status = "blocked"
  \/ /\ s = "failed_no_effect" /\ op'[o] = op[o] /\ posts'[o] = posts[o]
     /\ \E r \in Requests : OpOf[r] = o /\ At(r, "failJob")
JobStep == \A o \in Ops : JobMoves(o, job'[o])

\* Only a dispatched operation is sent.
PostStep ==
  \A o \in Ops : \/ posts'[o] = posts[o]
                 \/ op[o].status \in Uncertain /\ op'[o] = op[o] /\ job'[o] = job[o]

RequestsClaim == \A q \in Requests : req'[q] = req[q] \/ RequestClaims(q)'
ClaimsStep == MovesStep /\ JobStep /\ PostStep /\ RequestsClaim

\* Places where a request is bound by Claims.
ClaimingPcs == SendingPcs \cup {"failJob", "blockJob"}

\* The invariant, with what the provers need of it.
LEMMA ClaimRows ==
  ASSUME ClaimInv
  PROVE  /\ TruthInv /\ SafeInv /\ ClosedInv
         /\ op \in [Ops -> OpRows] /\ job \in [Ops -> Jobs] /\ posts \in [Ops -> Nat]
         /\ req \in [Requests -> Threads]
         /\ \A o \in Ops : OperationClaims(o) /\ OperationSafe(o)
         /\ \A r \in Requests : RequestClaims(r) /\ RequestSafe(r) /\ OpOf[r] \in Ops
         /\ \A w \in Observers : obs[w].o \in Ops
  BY TruthRows, SafeRows DEF ClaimInv, Claims, TypeOK, CoordinationTypeOK

\* A request before its dispatch works on an operation that is not dispatched: whoever
\* dispatches needs the lock, and recovery would have closed the operation.
LEMMA UnsentCertain ==
  ASSUME SafeInv, NEW r \in Requests, req[r].pc \in UnsentPcs
  PROVE  op[OpOf[r]].status \notin Uncertain \cup {"none"}
  <1>1. OperationSafe(OpOf[r]) /\ RequestSafe(r)
    BY SafeRows
  <1> QED BY <1>1 DEF OperationSafe, RequestSafe, ExactLock, Open, Uncertain

\* Two requests before their dispatch share an operation only after recovery closed it.
LEMMA TwoUnsent ==
  ASSUME SafeInv, NEW r \in Requests, NEW q \in Requests, q # r, OpOf[q] = OpOf[r],
         req[r].pc \in UnsentPcs, req[q].pc \in UnsentPcs
  PROVE  op[OpOf[r]].status # "planned"
  <1>1. RequestSafe(q) /\ RequestSafe(r) /\ OpOf[r] \in Ops /\ ClosedInv
    BY SafeRows
  <1>2. rec[OpOf[r]].status = "completed"
    BY <1>1 DEF RequestSafe
  <1> QED BY <1>1, <1>2, ClosedRows DEF TerminalStatuses

\* The layer is kept by every step of that kind.
LEMMA ClaimsKept ==
  ASSUME ClaimInv, TruthInv', ClaimsStep
  PROVE  ClaimInv'
  <1>1. ASSUME NEW o \in Ops PROVE OperationClaims(o)'
    <2>1. /\ OperationClaims(o) /\ OperationSafe(o)
          /\ Moves(o, op'[o]) /\ JobMoves(o, job'[o])
          /\ \/ posts'[o] = posts[o]
             \/ op[o].status \in Uncertain /\ op'[o] = op[o] /\ job'[o] = job[o]
      BY <1>1, ClaimRows DEF ClaimsStep, MovesStep, JobStep, PostStep
    <2>2. op[o].status \in Uncertain => op[o].status \notin {"none", "planned", "failed", "blocked"}
      BY DEF Uncertain
    <2>3. op'[o].marker # Free => op'[o].status \in {"failed", "blocked"} /\ posts'[o] = 0
      BY <2>1, <2>2 DEF OperationClaims, OperationSafe, Moves
    <2>4. op'[o].status = "blocked" => posts'[o] = 0
      BY <2>1, <2>2 DEF OperationClaims, OperationSafe, Moves
    <2>5. job'[o] = "blocked" => op'[o].status = "blocked"
      BY <2>1 DEF OperationClaims, JobMoves, Moves
    <2>6. ASSUME job'[o] = "failed_no_effect"
          PROVE  posts'[o] = 0 /\ op'[o].status \notin Uncertain
      <3>1. CASE job[o] = "failed_no_effect"
        BY <2>1, <3>1 DEF OperationClaims, Moves
      <3>2. CASE job[o] # "failed_no_effect"
        <4>1. PICK r \in Requests : OpOf[r] = o /\ At(r, "failJob")
          BY <2>1, <2>6, <3>2 DEF JobMoves
        <4>2. op'[o] = op[o] /\ posts'[o] = posts[o]
          BY <2>1, <2>6, <3>2 DEF JobMoves
        <4>3. RequestClaims(r) /\ SafeInv /\ req[r].pc \in UnsentPcs
          BY <4>1, ClaimRows DEF At, UnsentPcs
        <4> QED BY <4>1, <4>2, <4>3, UnsentCertain DEF RequestClaims, At
      <3> QED BY <3>1, <3>2
    <2> QED BY <2>3, <2>4, <2>5, <2>6 DEF OperationClaims
  <1>2. ASSUME NEW q \in Requests, req'[q] = req[q] PROVE RequestClaims(q)'
    <2> DEFINE o == OpOf[q]
    <2>1. /\ o \in Ops /\ SafeInv /\ RequestClaims(q)
          /\ Moves(o, op'[o]) /\ JobMoves(o, job'[o])
          /\ \/ posts'[o] = posts[o]
             \/ op[o].status \in Uncertain /\ op'[o] = op[o] /\ job'[o] = job[o]
      BY ClaimRows DEF ClaimsStep, MovesStep, JobStep, PostStep
    <2>2. req[q].pc \in SendingPcs \cup {"failJob"} => req[q].pc \in UnsentPcs
      BY DEF SendingPcs, UnsentPcs
    <2>3. req[q].pc \in SendingPcs \cup {"failJob"} => posts'[o] = 0
      BY <2>1, <2>2, UnsentCertain DEF RequestClaims
    <2>4. ASSUME req[q].pc \in SendingPcs, job'[o] = "failed_no_effect", op'[o].status = "planned"
          PROVE  FALSE
      <3>1. op[o].status = "planned"
        BY <2>1, <2>2, <2>4, UnsentCertain DEF Moves
      <3>2. job[o] # "failed_no_effect"
        BY <2>1, <2>4, <3>1 DEF RequestClaims
      <3>3. PICK r \in Requests : OpOf[r] = o /\ At(r, "failJob")
        BY <2>1, <2>4, <3>2 DEF JobMoves
      <3>4. q # r /\ req[r].pc \in UnsentPcs
        BY <2>4, <3>3 DEF At, SendingPcs, UnsentPcs
      <3> QED BY <2>1, <2>2, <2>4, <3>1, <3>3, <3>4, TwoUnsent
    <2>5. At(q, "blockJob") => op'[o].status = "blocked"
      BY <2>1 DEF RequestClaims, Moves
    <2> QED BY <1>2, <2>3, <2>4, <2>5 DEF RequestClaims, At
  <1> QED BY <1>1, <1>2 DEF ClaimInv, Claims, ClaimsStep, RequestsClaim

-----------------------------------------------------------------------------
(* The transactions. *)

\* A step that writes no operation.
LEMMA MovesRest ==
  ASSUME ClaimInv, op' = op
  PROVE  MovesStep
  BY DEF MovesStep, Moves

\* A step that writes one.
LEMMA MovesRow ==
  ASSUME ClaimInv, NEW o \in Ops, NEW row, op' = [op EXCEPT ![o] = row], Moves(o, row)
  PROVE  MovesStep
  BY ClaimRows DEF MovesStep, Moves

\* Failure and block are final; only a planned operation is blocked.
LEMMA ClosedTransitions ==
  ASSUME NEW from \in StatusesInUse \ {"none"}, NEW to, MayTransition(from, to)
  PROVE  /\ from \in {"failed", "blocked"} => to = from
         /\ to = "blocked" => from \in {"planned", "blocked"}
  <1>1. CASE from = "planned"
    BY <1>1 DEF MayTransition, AllowedTransitions, OperationStatuses
  <1>2. CASE from \in {"succeeded", "failed", "blocked"}
    BY <1>2 DEF MayTransition, AllowedTransitions, OperationStatuses
  <1>3. CASE from \in {"dispatching", "running"}
    BY <1>3 DEF MayTransition, AllowedTransitions, OperationStatuses
  <1>4. CASE from \in {"verifying", "needs_reconciliation"}
    BY <1>4 DEF MayTransition, AllowedTransitions, OperationStatuses
  <1> QED BY <1>1, <1>2, <1>3, <1>4 DEF StatusesInUse, Uncertain

\* A row written under the guards of a commit; a dispatch needs a Job without a claim.
LEMMA MovesMayCommit ==
  ASSUME ClaimInv, NEW o \in Ops, NEW g, NEW from, NEW to, NEW release,
         MayCommit(o, g, from, to, release),
         to = "dispatching" => op[o].status = "dispatching" \/ job[o] # "failed_no_effect",
         NEW row, row.status = to, row.marker = op[o].marker
  PROVE  Moves(o, row)
  <1>1. SafeInv
    BY ClaimRows
  <1>2. MayTransition(op[o].status, to) /\ op[o].status \in StatusesInUse \ {"none"}
    BY <1>1, SafeRows DEF MayCommit, LeaseOwned, OperationSafe, StatusInUse
  <1>3. /\ to \in Uncertain => op[o].status \in Uncertain \/ (op[o].status = "planned" /\ to = "dispatching")
        /\ to = "planned" => op[o].status = "planned"
    BY <1>2, TransitionsInUse
  <1>4. /\ op[o].status \in {"failed", "blocked"} => to = op[o].status
        /\ to = "blocked" => op[o].status \in {"planned", "blocked"}
    BY <1>2, ClosedTransitions
  <1>5. "dispatching" \in Uncertain
    BY DEF Uncertain
  <1> QED BY <1>3, <1>4, <1>5 DEF Moves

\* A fenced commit.
LEMMA MovesCommit ==
  ASSUME ClaimInv, NEW o \in Ops, NEW g, NEW from, NEW to \in OperationStatuses \cup {"none"},
         NEW item, NEW release, Commit(o, g, from, to, item, release),
         to = "dispatching" => op[o].status = "dispatching" \/ job[o] # "failed_no_effect"
  PROVE  MovesStep /\ op'[o].status = to
  <1> DEFINE row == Moved(op[o], to)
  <1>1. row.status = to /\ row.marker = op[o].marker
    BY ClaimRows, MovedType
  <1>2. op' = [op EXCEPT ![o] = row] /\ MayCommit(o, g, from, to, release)
    BY DEF Commit
  <1> HIDE DEF row
  <1>3. Moves(o, row)
    BY <1>1, <1>2, MovesMayCommit
  <1> QED BY <1>1, <1>2, <1>3, MovesRow, ClaimRows

\* The closing of a planned operation, with its marker or without.
LEMMA MovesClosed ==
  ASSUME ClaimInv, NEW o \in Ops, op[o].status = "planned", NEW to \in {"failed", "blocked"},
         \/ op' = [op EXCEPT ![o] = Moved(op[o], to)]
         \/ \E l \in LockIds : op' = [op EXCEPT ![o] = [Moved(op[o], to) EXCEPT !.marker = l]]
  PROVE  MovesStep /\ op'[o].status = to
  <1>1. to \in OperationStatuses \cup {"none"} /\ op[o] \in OpRows
    BY ClaimRows DEF OperationStatuses
  <1>2. Moved(op[o], to) \in OpRows /\ Moved(op[o], to).status = to
    BY <1>1, MovedType
  <1>3. \A l \in LockIds : [Moved(op[o], to) EXCEPT !.marker = l].status = to
    BY <1>2 DEF OpRows
  <1>4. \E row : op' = [op EXCEPT ![o] = row] /\ row.status = to
    BY <1>2, <1>3
  <1>5. PICK row : op' = [op EXCEPT ![o] = row] /\ row.status = to
    BY <1>4
  <1>6. Moves(o, row)
    BY <1>5 DEF Moves, Uncertain
  <1> QED BY <1>5, <1>6, MovesRow, ClaimRows

\* A Job written with an admissible status.
LEMMA JobRow ==
  ASSUME ClaimInv, NEW o \in Ops, NEW s, job' = [job EXCEPT ![o] = s], JobMoves(o, s)
  PROVE  JobStep
  BY ClaimRows DEF JobStep, JobMoves

\* A step that writes no Job.
LEMMA JobRest ==
  ASSUME job' = job
  PROVE  JobStep
  BY DEF JobStep, JobMoves

\* A step that sends nothing.
LEMMA PostRest ==
  ASSUME posts' = posts
  PROVE  PostStep
  BY DEF PostStep

-----------------------------------------------------------------------------
(* The threads. *)

\* A request that goes where Claims bind it to nothing.
LEMMA ClaimsElsewhere ==
  ASSUME ClaimInv, NEW r \in Requests, NEW t, req' = [req EXCEPT ![r] = t], t.pc \notin ClaimingPcs
  PROVE  RequestsClaim
  <1>1. req'[r] = t
    BY ClaimRows
  <1>2. RequestClaims(r)'
    BY <1>1 DEF RequestClaims, At, ClaimingPcs
  <1> QED BY <1>2, ClaimRows DEF RequestsClaim

\* The same, when it only moves.
LEMMA GotoUnclaimed ==
  ASSUME ClaimInv, NEW r \in Requests, NEW pc, Goto(r, pc), pc \notin ClaimingPcs
  PROVE  RequestsClaim
  BY ClaimRows, GotoRow, ClaimsElsewhere

\* A request that goes on towards its dispatch, or gives it up.
LEMMA ClaimsOnward ==
  ASSUME ClaimInv, NEW r \in Requests, NEW t, req' = [req EXCEPT ![r] = t],
         t.pc \in SendingPcs \cup {"failJob"}, req[r].pc \in SendingPcs,
         op' = op, posts' = posts, job'[OpOf[r]] \in {job[OpOf[r]], "running"}
  PROVE  RequestsClaim
  <1>1. req'[r] = t /\ RequestClaims(r)
    BY ClaimRows
  <1>2. "blockJob" \notin SendingPcs \cup {"failJob"}
    BY DEF SendingPcs
  <1>3. RequestClaims(r)'
    BY <1>1, <1>2 DEF RequestClaims, At
  <1> QED BY <1>3, ClaimRows DEF RequestsClaim

-----------------------------------------------------------------------------
(* The foreground workflow. *)

\* Before the dispatch: a request claims no effect only of what it did not send, and goes on
\* only under a Job that makes no such claim.
LEMMA UnsentClaims ==
  ASSUME ClaimInv, NEW r \in Requests,
         \/ LookupJob(r) \/ PrepareOperation(r) \/ AcquireTarget(r) \/ TargetLockBusy(r)
         \/ ResolveBusy(r) \/ RecordConflict(r) \/ RecheckUnderLock(r) \/ RecordPrecheck(r)
         \/ Precheck(r) \/ AbandonUnsent(r) \/ BlockOperation(r) \/ RecordBlocked(r)
         \/ OpenMutationClient(r) \/ RecordStart(r) \/ RegisterRecovery(r)
         \/ RecordUnsentFailure(r) \/ CloseUnsentFailure(r) \/ ReleaseTarget(r)
         \/ ClaimReplay(r) \/ CommitReplay(r)
  PROVE  ClaimsStep
  <1> DEFINE o == OpOf[r]
  <1>1. /\ o \in Ops /\ req[r] \in Threads /\ op[o] \in OpRows /\ r \in LockIds
        /\ RequestClaims(r) /\ RequestSafe(r) /\ OperationSafe(o)
    BY ClaimRows DEF LockIds
  <1>2. posts' = posts
    BY DEF Stay, proxmox, LookupJob, PrepareOperation, AcquireTarget, TargetLockBusy,
       ResolveBusy, RecordConflict, RecheckUnderLock, RecordPrecheck, Precheck, AbandonUnsent,
       BlockOperation, RecordBlocked, OpenMutationClient, RecordStart, RegisterRecovery,
       RecordUnsentFailure, CloseUnsentFailure, ReleaseTarget, ClaimReplay, CommitReplay
  <1>3. ASSUME MovesStep, JobStep, RequestsClaim PROVE ClaimsStep
    BY <1>2, <1>3, PostRest DEF ClaimsStep
  \* A request that goes where it is bound to nothing.
  <1>4. ASSUME NEW pc \in {"prepare", "acquire", "recheck", "conflict", "release", "block",
                           "failTransition", "done"},
               Goto(r, pc)
        PROVE  RequestsClaim
    BY <1>4, GotoUnclaimed DEF ClaimingPcs, SendingPcs
  <1>5. ASSUME NEW t, req' = [req EXCEPT ![r] = t], t.pc \in {"busy", "conflict", "closeClaim", "closeCommit"}
        PROVE  RequestsClaim
    BY <1>5, ClaimsElsewhere DEF ClaimingPcs, SendingPcs
  \* A request that goes on.
  <1>6. ASSUME NEW pc \in {"precheck", "client", "recordStart", "claim", "failJob"}, Goto(r, pc),
               req[r].pc \in SendingPcs, op' = op, job'[o] \in {job[o], "running"}
        PROVE  RequestsClaim
    <2>1. PICK t : req' = [req EXCEPT ![r] = t] /\ t.pc = pc
      BY <1>6, ClaimRows, GotoRow
    <2>2. t.pc \in SendingPcs \cup {"failJob"}
      BY <2>1 DEF SendingPcs
    <2> QED BY <1>2, <1>6, <2>1, <2>2, ClaimsOnward
  <1>7. CASE LookupJob(r) \/ AcquireTarget(r) \/ AbandonUnsent(r) \/ ReleaseTarget(r)
    <2>1. op' = op /\ job' = job
      BY <1>7 DEF LookupJob, AcquireTarget, AbandonUnsent, ReleaseTarget, coordination
    <2>2. \E pc \in {"prepare", "recheck", "release", "done"} : Goto(r, pc)
      BY <1>7 DEF LookupJob, AcquireTarget, AbandonUnsent, ReleaseTarget
    <2> QED BY <1>3, <1>4, <2>1, <2>2, MovesRest, JobRest
  <1>8. CASE PrepareOperation(r)
    <2> DEFINE row == Moved(op[o], "planned")
    <2>1. /\ job' = job /\ \E pc \in {"acquire", "done"} : Goto(r, pc)
          /\ op' = op \/ (op' = [op EXCEPT ![o] = row] /\ op[o].status = "none")
      BY <1>8 DEF PrepareOperation, CreateOperation
    <2>2. row.status = "planned" /\ row.marker = op[o].marker
      BY <1>1, MovedType, StatusNames
    <2> HIDE DEF row
    <2>3. op[o].status = "none" => Moves(o, row)
      BY <2>2 DEF Moves, Uncertain
    <2>4. MovesStep
      BY <1>1, <2>1, <2>3, MovesRest, MovesRow
    <2> QED BY <1>3, <1>4, <2>1, <2>4, JobRest
  <1>9. CASE TargetLockBusy(r)
    <2>1. op' = op /\ job' = job
      BY <1>9 DEF TargetLockBusy, coordination
    <2>2. PICK l : req' = [req EXCEPT ![r] = [req[r] EXCEPT !.pc = "busy", !.seen = l]]
      BY <1>9 DEF TargetLockBusy
    <2>3. [req[r] EXCEPT !.pc = "busy", !.seen = l].pc = "busy"
      BY <1>1, ThreadFields
    <2>4. RequestsClaim
      BY <1>5, <2>2, <2>3
    <2> QED BY <1>3, <2>1, <2>4, MovesRest, JobRest
  <1>10. CASE ResolveBusy(r)
    <2>1. op' = op /\ job' = job
      BY <1>10 DEF ResolveBusy, coordination
    <2>2. \/ Goto(r, "done")
          \/ \E pc \in {"conflict", "closeClaim"}, s \in {"none", "failed"} :
               req' = [req EXCEPT ![r] = [req[r] EXCEPT !.pc = pc, !.version = op[o].version, !.saw = s]]
      BY <1>10 DEF ResolveBusy
    <2>3. ASSUME NEW pc \in {"conflict", "closeClaim"}, NEW s \in {"none", "failed"},
                 req' = [req EXCEPT ![r] = [req[r] EXCEPT !.pc = pc, !.version = op[o].version, !.saw = s]]
          PROVE  RequestsClaim
      <3>1. [req[r] EXCEPT !.pc = pc, !.version = op[o].version, !.saw = s].pc = pc
        BY <1>1, ThreadFields
      <3> QED BY <1>5, <2>3, <3>1
    <2>4. RequestsClaim
      BY <1>4, <2>2, <2>3
    <2> QED BY <1>3, <2>1, <2>4, MovesRest, JobRest
  <1>11. CASE RecordConflict(r)
    <2>1. /\ Goto(r, "done") /\ job' = job
          /\ \/ op' = op
             \/ \E to \in {"failed", "blocked"} :
                  op' = [op EXCEPT ![o] = Moved(op[o], to)] /\ op[o].status = "planned"
      BY <1>11 DEF RecordConflict, CloseOnConflict
    <2>2. MovesStep
      BY <1>1, <2>1, MovesRest, MovesClosed
    <2> QED BY <1>3, <1>4, <2>1, <2>2, JobRest
  <1>12. CASE RecheckUnderLock(r)
    <2>1. op' = op /\ job' = job
      BY <1>12 DEF RecheckUnderLock, coordination
    <2>2. \/ Goto(r, "release")
          \/ Goto(r, "recordPrecheck") /\ job[o] = "none" /\ op[o].status = "planned"
          \/ req' = [req EXCEPT ![r] = [req[r] EXCEPT !.pc = "closeClaim", !.version = op[o].version,
                                                      !.seen = r]]
      BY <1>12 DEF RecheckUnderLock
    \* What authorizes the dispatch: no Job, and an operation that was never sent.
    <2>3. CASE Goto(r, "recordPrecheck") /\ job[o] = "none" /\ op[o].status = "planned"
      <3>1. PICK t : req' = [req EXCEPT ![r] = t] /\ t.pc = "recordPrecheck"
        BY <2>3, ClaimRows, GotoRow
      <3>2. req'[r].pc = "recordPrecheck" /\ posts[o] = 0
        BY <1>1, <2>3, <3>1, ClaimRows DEF OperationSafe
      <3>3. RequestClaims(r)'
        BY <1>2, <2>1, <2>3, <3>2 DEF RequestClaims, At
      <3>4. RequestsClaim
        BY <3>1, <3>3, ClaimRows DEF RequestsClaim
      <3> QED BY <1>3, <2>1, <3>4, MovesRest, JobRest
    <2>4. [req[r] EXCEPT !.pc = "closeClaim", !.version = op[o].version, !.seen = r].pc = "closeClaim"
      BY <1>1, ThreadFields
    <2> QED BY <1>3, <1>4, <1>5, <2>1, <2>2, <2>3, <2>4, MovesRest, JobRest
  <1>13. CASE RecordPrecheck(r) \/ RecordStart(r)
    <2>1. op' = op /\ job' = [job EXCEPT ![o] = "running"] /\ req[r].pc \in SendingPcs
      BY <1>13 DEF RecordPrecheck, RecordStart, RecordJob, At, SendingPcs
    <2>2. JobStep
      BY <1>1, <2>1, JobRow DEF JobMoves
    <2>3. job'[o] = "running"
      BY <1>1, <2>1, ClaimRows
    <2>4. \E pc \in {"precheck", "claim"} : Goto(r, pc)
      BY <1>13 DEF RecordPrecheck, RecordStart
    <2>5. RequestsClaim
      BY <1>6, <2>1, <2>3, <2>4
    <2> QED BY <1>3, <2>1, <2>2, <2>5, MovesRest
  <1>14. CASE Precheck(r) \/ OpenMutationClient(r)
    <2>1. op' = op /\ job' = job /\ req[r].pc \in SendingPcs
      BY <1>14 DEF Precheck, OpenMutationClient, coordination, At, SendingPcs
    <2>2. \/ Goto(r, "block")
          \/ \E pc \in {"client", "recordStart", "claim", "failJob"} : Goto(r, pc)
      BY <1>14 DEF Precheck, OpenMutationClient
    <2>3. RequestsClaim
      BY <1>4, <1>6, <2>1, <2>2
    <2> QED BY <1>3, <2>1, <2>3, MovesRest, JobRest
  <1>15. CASE BlockOperation(r)
    <2>1. job' = job
      BY <1>15 DEF BlockOperation
    <2>2. CASE CloseUnsent(o, "blocked", r) /\ Goto(r, "blockJob")
      <3>1. MovesStep /\ op'[o].status = "blocked"
        BY <1>1, <2>2, MovesClosed DEF CloseUnsent
      <3>2. PICK t : req' = [req EXCEPT ![r] = t] /\ t.pc = "blockJob"
        BY <2>2, ClaimRows, GotoRow
      <3>3. req'[r].pc = "blockJob"
        BY <3>2, ClaimRows
      <3>4. RequestClaims(r)'
        BY <3>1, <3>3 DEF RequestClaims, At, SendingPcs
      <3>5. RequestsClaim
        BY <3>2, <3>4, ClaimRows DEF RequestsClaim
      <3> QED BY <1>3, <2>1, <3>1, <3>5, JobRest
    <2>3. CASE Goto(r, "done") /\ op' = op
      BY <1>3, <1>4, <2>1, <2>3, MovesRest, JobRest
    <2> QED BY <1>15, <2>2, <2>3 DEF BlockOperation
  <1>16. CASE RecordBlocked(r)
    <2>1. /\ op' = op /\ job' = [job EXCEPT ![o] = "blocked"] /\ At(r, "blockJob") /\ Goto(r, "release")
      BY <1>16 DEF RecordBlocked, RecordJob
    <2>2. op'[o].status = "blocked"
      BY <1>1, <2>1 DEF RequestClaims
    <2>3. JobStep
      BY <1>1, <2>1, <2>2, JobRow DEF JobMoves
    <2> QED BY <1>3, <1>4, <2>1, <2>3, MovesRest
  <1>17. CASE RegisterRecovery(r)
    <2>1. op' = op /\ job' = job /\ req[r].pc \in SendingPcs
      BY <1>17 DEF RegisterRecovery, At, SendingPcs
    <2>2. CASE req' = [req EXCEPT ![r] = [req[r] EXCEPT !.pc = "commitDispatch", !.gen = rec'[o].gen]]
      <3>1. [req[r] EXCEPT !.pc = "commitDispatch", !.gen = rec'[o].gen].pc \in SendingPcs \cup {"failJob"}
        BY <1>1, ThreadFields DEF SendingPcs
      <3>2. RequestsClaim
        BY <1>2, <2>1, <2>2, <3>1, ClaimsOnward
      <3> QED BY <1>3, <2>1, <3>2, MovesRest, JobRest
    <2>3. CASE Goto(r, "failJob")
      BY <1>3, <1>6, <2>1, <2>3, MovesRest, JobRest
    <2> QED BY <1>17, <2>2, <2>3 DEF RegisterRecovery
  \* The claim itself: made where Claims say that nothing was sent.
  <1>18. CASE RecordUnsentFailure(r)
    <2>1. /\ op' = op /\ job' = [job EXCEPT ![o] = "failed_no_effect"]
          /\ At(r, "failJob") /\ Goto(r, "failTransition")
      BY <1>18 DEF RecordUnsentFailure, RecordJob
    <2>2. JobStep
      BY <1>1, <1>2, <2>1, JobRow DEF JobMoves
    <2> QED BY <1>3, <1>4, <2>1, <2>2, MovesRest
  <1>19. CASE CloseUnsentFailure(r)
    <2>1. /\ job' = job /\ \E pc \in {"release", "done"} : Goto(r, pc)
          /\ op' = op \/ CloseUnsent(o, "failed", r)
      BY <1>19 DEF CloseUnsentFailure
    <2>2. CloseUnsent(o, "failed", r) => MovesStep
      BY <1>1, MovesClosed DEF CloseUnsent
    <2> QED BY <1>3, <1>4, <2>1, <2>2, MovesRest, JobRest
  <1>20. CASE ClaimReplay(r)
    <2>1. op' = op /\ job' = job
      BY <1>20 DEF ClaimReplay
    <2>2. \/ Goto(r, "done")
          \/ req' = [req EXCEPT ![r] = [req[r] EXCEPT !.pc = "closeCommit", !.gen = rec'[o].gen]]
      BY <1>20 DEF ClaimReplay
    <2>3. [req[r] EXCEPT !.pc = "closeCommit", !.gen = rec'[o].gen].pc = "closeCommit"
      BY <1>1, ThreadFields
    <2>4. RequestsClaim
      BY <1>4, <1>5, <2>2, <2>3
    <2> QED BY <1>3, <2>1, <2>4, MovesRest, JobRest
  <1>21. CASE CommitReplay(r)
    <2>1. job' = job /\ Goto(r, "done")
      BY <1>21 DEF CommitReplay
    <2>2. op' = op \/ Commit(o, req[r].gen, {"planned"}, "failed", Ended(o, "completed", FALSE), TRUE)
      BY <1>21 DEF CommitReplay
    <2>3. "failed" \in OperationStatuses \cup {"none"}
      BY DEF OperationStatuses
    <2>4. MovesStep
      BY <1>1, <2>2, <2>3, MovesRest, MovesCommit
    <2> QED BY <1>3, <1>4, <2>1, <2>4, JobRest
  <1> QED BY <1>7, <1>8, <1>9, <1>10, <1>11, <1>12, <1>13, <1>14, <1>15, <1>16, <1>17, <1>18,
             <1>19, <1>20, <1>21

\* A request's fenced commit, or the conflict that ends it.
LEMMA CommitOrStopClaims ==
  ASSUME ClaimInv, NEW r \in Requests, NEW from, NEW to \in OperationStatuses \cup {"none"}, NEW item,
         NEW release, NEW next, CommitOrStop(r, from, to, item, release, next),
         op[OpOf[r]].status \in from /\ to = "dispatching" =>
           op[OpOf[r]].status = "dispatching" \/ job[OpOf[r]] # "failed_no_effect"
  PROVE  MovesStep /\ (Goto(r, next) \/ Goto(r, "done"))
  <1>1. OpOf[r] \in Ops
    BY ClaimRows
  <1>2. CASE Commit(OpOf[r], req[r].gen, from, to, item, release) /\ Goto(r, next)
    <2>1. op[OpOf[r]].status \in from
      BY <1>2 DEF Commit, MayCommit
    <2> QED BY <1>1, <1>2, <2>1, MovesCommit
  <1>3. CASE Goto(r, "done") /\ UNCHANGED <<op, rec, lock>>
    BY <1>3, MovesRest
  <1> QED BY <1>2, <1>3 DEF CommitOrStop

\* From the checkpoint on: the dispatch is of an operation whose Job claims nothing, and no
\* later step of the request makes such a claim.
LEMMA SentClaims ==
  ASSUME ClaimInv, NEW r \in Requests,
         \/ CommitDispatching(r) \/ CommitRejected(r) \/ CommitRunning(r)
         \/ RecordPoll(r) \/ PollTask(r) \/ ReadVmStatus(r) \/ CommitVerifying(r)
         \/ WriteArtifact(r) \/ RequireReconciliation(r) \/ RecordReconciliation(r)
         \/ CommitTerminal(r) \/ RecordTerminal(r) \/ HandOff(r) \/ FinishTerminal(r)
  PROVE  ClaimsStep
  <1> DEFINE o == OpOf[r]
  <1>1. /\ o \in Ops /\ req[r] \in Threads /\ op[o] \in OpRows /\ RequestClaims(r) /\ RequestVerdict(r)
    BY ClaimRows DEF ClosedInv, Closed
  <1>2. posts' = posts
    BY DEF Stay, proxmox, CommitDispatching, CommitRejected, CommitRunning, RecordPoll, PollTask,
       ReadVmStatus, CommitVerifying, WriteArtifact, RequireReconciliation, RecordReconciliation,
       CommitTerminal, RecordTerminal, HandOff, FinishTerminal
  <1>3. ASSUME MovesStep, JobStep, RequestsClaim PROVE ClaimsStep
    BY <1>2, <1>3, PostRest DEF ClaimsStep
  <1>4. ASSUME NEW pc \in {"post", "terminalJob", "recordPoll", "poll", "reconcile", "handoff",
                           "artifact", "commitTerminal", "reconcileJob", "finish", "done"},
               Goto(r, pc)
        PROVE  RequestsClaim
    BY <1>4, GotoUnclaimed DEF ClaimingPcs, SendingPcs
  <1>5. ASSUME NEW t, req' = [req EXCEPT ![r] = t], t.pc \in {"terminalJob", "look", "commitVerifying"}
        PROVE  RequestsClaim
    BY <1>5, ClaimsElsewhere DEF ClaimingPcs, SendingPcs
  <1>6. {"dispatching", "running", "verifying", "succeeded", "failed", "needs_reconciliation"}
          \subseteq OperationStatuses \cup {"none"}
    BY DEF OperationStatuses
  <1>7. CASE CommitDispatching(r)
    <2>1. job' = job /\ At(r, "commitDispatch")
      BY <1>7 DEF CommitDispatching
    <2>2. op[o].status \in {"planned"} => job[o] # "failed_no_effect"
      BY <1>1, <2>1 DEF RequestClaims, At, SendingPcs
    <2>3. CASE CommitOrStop(r, {"planned"}, "dispatching", [Kept(o) EXCEPT !.phase = "dispatched"],
                            FALSE, "post")
      <3>1. MovesStep /\ (Goto(r, "post") \/ Goto(r, "done"))
        BY <1>6, <2>2, <2>3, CommitOrStopClaims
      <3> QED BY <1>3, <1>4, <2>1, <3>1, JobRest
    <2>4. CASE Goto(r, "done") /\ UNCHANGED <<op, rec, lock>>
      BY <1>3, <1>4, <2>1, <2>4, MovesRest, JobRest
    <2> QED BY <1>7, <2>3, <2>4 DEF CommitDispatching
  <1>8. CASE CommitRejected(r)
    <2>1. job' = job
      BY <1>8 DEF CommitRejected
    <2>2. CASE /\ Commit(o, req[r].gen, {"dispatching"}, "failed", Kept(o), FALSE)
               /\ req' = [req EXCEPT ![r].pc = "terminalJob", ![r].saw = "failed"]
      <3> DEFINE t == [req[r] EXCEPT !.pc = "terminalJob", !.saw = "failed"]
      <3>1. req' = [req EXCEPT ![r] = t]
        BY <2>2
      <3>2. t.pc = "terminalJob"
        BY <1>1, ThreadFields
      <3> HIDE DEF t
      <3>3. RequestsClaim
        BY <1>5, <3>1, <3>2
      <3>4. MovesStep
        BY <1>1, <1>6, <2>2, MovesCommit
      <3> QED BY <1>3, <2>1, <3>3, <3>4, JobRest
    <2>3. CASE Goto(r, "done") /\ UNCHANGED <<op, rec, lock>>
      BY <1>3, <1>4, <2>1, <2>3, MovesRest, JobRest
    <2> QED BY <1>8, <2>2, <2>3 DEF CommitRejected
  <1>9. CASE CommitRunning(r)
    <2> DEFINE row == [Moved(op[o], "running") EXCEPT !.upid = TRUE]
    <2>1. /\ job' = job /\ \E pc \in {"recordPoll", "done"} : Goto(r, pc)
          /\ \/ op' = op
             \/ /\ op' = [op EXCEPT ![o] = row]
                /\ MayCommit(o, req[r].gen, {"dispatching"}, "running", FALSE)
      BY <1>9 DEF CommitRunning
    <2>2. /\ Moved(op[o], "running") \in OpRows /\ Moved(op[o], "running").status = "running"
          /\ Moved(op[o], "running").marker = op[o].marker
      BY <1>1, <1>6, MovedType
    <2>3. row.status = "running" /\ row.marker = op[o].marker
      BY <2>2 DEF OpRows
    <2> HIDE DEF row
    <2>4. MayCommit(o, req[r].gen, {"dispatching"}, "running", FALSE) => Moves(o, row)
      BY <1>1, <2>3, MovesMayCommit
    <2>5. MovesStep
      BY <1>1, <2>1, <2>4, MovesRest, MovesRow
    <2> QED BY <1>3, <1>4, <2>1, <2>5, JobRest
  <1>10. CASE RecordPoll(r) \/ RecordReconciliation(r) \/ RecordTerminal(r)
    <2>1. /\ op' = op /\ \E pc \in {"poll", "finish", "handoff", "done"} : Goto(r, pc)
          /\ job' = job \/ \E s \in {"running", "needs_reconciliation", "completed", "failed"} :
                             job' = [job EXCEPT ![o] = s]
      BY <1>10 DEF RecordPoll, RecordReconciliation, RecordTerminal, RecordJob
    <2>2. \A s \in {"running", "needs_reconciliation", "completed", "failed"} : JobMoves(o, s)
      BY DEF JobMoves
    <2>3. JobStep
      BY <1>1, <2>1, <2>2, JobRow, JobRest
    <2> QED BY <1>3, <1>4, <2>1, <2>3, MovesRest
  <1>11. CASE PollTask(r)
    <2>1. op' = op /\ job' = job
      BY <1>11 DEF PollTask, coordination
    <2>2. \/ Goto(r, "done")
          \/ \E x : req' = [req EXCEPT ![r] = [req[r] EXCEPT !.pc = "look", !.saw = x]]
      BY <1>11 DEF PollTask
    <2>3. \A x : [req[r] EXCEPT !.pc = "look", !.saw = x].pc = "look"
      BY <1>1, ThreadFields
    <2>4. RequestsClaim
      BY <1>4, <1>5, <2>2, <2>3
    <2> QED BY <1>3, <2>1, <2>4, MovesRest, JobRest
  <1>12. CASE ReadVmStatus(r)
    <2>1. op' = op /\ job' = job
      BY <1>12 DEF ReadVmStatus, coordination
    <2>2. \E x : req' = [req EXCEPT ![r] = [req[r] EXCEPT !.pc = "commitVerifying", !.saw = x]]
      BY <1>12 DEF ReadVmStatus
    <2>3. \A x : [req[r] EXCEPT !.pc = "commitVerifying", !.saw = x].pc = "commitVerifying"
      BY <1>1, ThreadFields
    <2>4. RequestsClaim
      BY <1>5, <2>2, <2>3
    <2> QED BY <1>3, <2>1, <2>4, MovesRest, JobRest
  <1>13. CASE WriteArtifact(r)
    <2>1. op' = op /\ job' = job /\ \E pc \in {"reconcile", "handoff", "commitTerminal"} : Goto(r, pc)
      BY <1>13 DEF WriteArtifact, coordination
    <2> QED BY <1>3, <1>4, <2>1, MovesRest, JobRest
  \* The commits that dispatch nothing.
  <1>14. CASE CommitVerifying(r) \/ CommitTerminal(r) \/ FinishTerminal(r)
    <2>1. /\ job' = job
          /\ \E from, to, item, release, next :
               /\ CommitOrStop(r, from, to, item, release, next)
               /\ to \in {"verifying", req[r].saw} /\ next \in {"artifact", "terminalJob", "done"}
               /\ to = req[r].saw => req[r].pc \in {"commitTerminal", "finish"}
      <3>1. CASE CommitVerifying(r)
        <4>1. req[r].saw # "verifying"
          BY <1>1 DEF Threads, Sightings
        <4> QED BY <3>1, <4>1 DEF CommitVerifying
      <3>2. CASE CommitTerminal(r)
        BY <3>2 DEF CommitTerminal, At
      <3>3. CASE FinishTerminal(r)
        BY <3>3 DEF FinishTerminal, At
      <3> QED BY <1>14, <3>1, <3>2, <3>3
    <2>2. PICK from, to, item, release, next :
               /\ CommitOrStop(r, from, to, item, release, next)
               /\ to \in {"verifying", req[r].saw} /\ next \in {"artifact", "terminalJob", "done"}
               /\ to = req[r].saw => req[r].pc \in {"commitTerminal", "finish"}
      BY <2>1
    <2>3. to \in {"verifying", "succeeded", "failed"}
      BY <1>1, <2>2 DEF RequestVerdict
    <2>4. MovesStep /\ (Goto(r, next) \/ Goto(r, "done"))
      BY <1>6, <2>2, <2>3, CommitOrStopClaims
    <2>5. RequestsClaim
      BY <1>4, <2>2, <2>4
    <2> QED BY <1>3, <2>1, <2>4, <2>5, JobRest
  <1>15. ASSUME job' = job, NEW to \in {"succeeded", "failed", "needs_reconciliation"},
                NEW next \in {"reconcileJob", "done"},
                \/ \E from, item : CommitOrStop(r, from, to, item, FALSE, next)
                \/ Goto(r, "done") /\ UNCHANGED <<op, rec, lock>>
         PROVE  ClaimsStep
    <2>1. CASE \E from, item : CommitOrStop(r, from, to, item, FALSE, next)
      <3>1. to \in OperationStatuses \cup {"none"} /\ to # "dispatching"
        BY <1>6
      <3>2. MovesStep /\ (Goto(r, next) \/ Goto(r, "done"))
        BY <2>1, <3>1, CommitOrStopClaims
      <3>3. RequestsClaim
        BY <1>4, <1>15, <3>2
      <3> QED BY <1>3, <1>15, <3>2, <3>3, JobRest
    <2>2. CASE Goto(r, "done") /\ UNCHANGED <<op, rec, lock>>
      BY <1>3, <1>4, <1>15, <2>2, MovesRest, JobRest
    <2> QED BY <1>15, <2>1, <2>2
  <1>16. CASE RequireReconciliation(r)
    <2>1. /\ job' = job
          /\ \/ \E from, item : CommitOrStop(r, from, "needs_reconciliation", item, FALSE, "reconcileJob")
             \/ Goto(r, "done") /\ UNCHANGED <<op, rec, lock>>
      BY <1>16 DEF RequireReconciliation
    <2> QED BY <1>15, <2>1
  <1>17. CASE HandOff(r)
    <2> DEFINE to == IF op[o].status \in {"succeeded", "failed"} THEN op[o].status ELSE "needs_reconciliation"
    <2>1. to \in {"succeeded", "failed", "needs_reconciliation"}
      OBVIOUS
    <2>2. /\ job' = job
          /\ \/ \E from, item : CommitOrStop(r, from, to, item, FALSE, "done")
             \/ Goto(r, "done") /\ UNCHANGED <<op, rec, lock>>
      BY <1>17 DEF HandOff
    <2> HIDE DEF to
    <2> QED BY <1>15, <2>1, <2>2
  <1> QED BY <1>7, <1>8, <1>9, <1>10, <1>11, <1>12, <1>13, <1>14, <1>16, <1>17

\* The POST is sent for a dispatched operation, of which no record claims otherwise.
LEMMA PostClaims ==
  ASSUME ClaimInv, NEW r \in Requests, PostMutation(r)
  PROVE  ClaimsStep
  <1> DEFINE o == OpOf[r]
  <1>1. /\ o \in Ops /\ op[o].status \in Uncertain /\ op' = op /\ job' = job
    BY ClaimRows DEF PostMutation, RequestSafe, At, coordination
  <1>2. \A p \in Ops : posts'[p] = posts[p] \/ p = o
    BY <1>1, ClaimRows DEF PostMutation
  <1>3. PostStep
    BY <1>1, <1>2 DEF PostStep
  <1>4. \E pc \in {"commitRunning", "commitRejected", "ambiguous"} : Goto(r, pc)
    BY DEF PostMutation
  <1>5. RequestsClaim
    BY <1>4, GotoUnclaimed DEF ClaimingPcs, SendingPcs
  <1> QED BY <1>1, <1>3, <1>5, MovesRest, JobRest DEF ClaimsStep

-----------------------------------------------------------------------------
(* The observers. *)

\* An observer dispatches nothing, and repeats in the Job what it closed in the row.
LEMMA ObserverClaims ==
  ASSUME ClaimInv, NEW w \in Observers,
         \/ ClaimDueWork(w) \/ RequestObservation(w) \/ RepeatObservation(w)
         \/ ObserverStep(w) \/ ObserverCrashes(w)
  PROVE  ClaimsStep
  <1> DEFINE o == obs[w].o
             st == obs[w].status
  <1>1. SafeInv /\ o \in Ops /\ ObserverSafe(w) /\ ClosedInv
    BY ClaimRows, SafeRows
  <1>2. posts' = posts /\ req' = req
    BY DEF ObserverStep, Hold, proxmox, ClaimDueWork, RequestObservation, RepeatObservation,
       ObserverCrashes, ClaimObservation, RecordRequest, LeaseLost, LoadOperation,
       ValidateBinding, PauseBindingFailure, PauseMissingTask, CompleteUnsent,
       CompleteProjection, ObserveTask, ObserveVm, RetryTask, AdvanceToVerifying,
       RecordOutcome, PauseMismatch, AbsorbException
  <1>3. ASSUME MovesStep, JobStep PROVE ClaimsStep
    BY <1>2, <1>3, PostRest DEF ClaimsStep, RequestsClaim
  <1>4. ASSUME NEW g, NEW from, NEW to, NEW item, NEW release, Commit(o, g, from, to, item, release),
               to = op[o].status \/ to \in {"running", "verifying", "needs_reconciliation",
                                            "succeeded", "failed", "blocked"}
        PROVE  MovesStep /\ op'[o].status = to
    <2>1. to \in OperationStatuses \cup {"none"}
      BY <1>1, <1>4, SafeRows DEF OpRows, OperationStatuses
    <2> QED BY <1>1, <1>4, <2>1, MovesCommit
  <1>5. ASSUME NEW to, NEW item, NEW release, HandlerCommit(w, to, item, release),
               to = st \/ to \in {"running", "verifying", "needs_reconciliation",
                                  "succeeded", "failed", "blocked"}
        PROVE  MovesStep /\ op'[o].status = to
    <2>1. op[o].status = st /\ Commit(o, obs[w].gen, {st}, to, item, release)
      BY <1>5 DEF HandlerCommit, Commit, MayCommit
    <2> QED BY <1>4, <1>5, <2>1
  <1>6. CASE \/ ClaimDueWork(w) \/ RequestObservation(w) \/ RepeatObservation(w)
             \/ ObserverCrashes(w) \/ ClaimObservation(w) \/ LeaseLost(w) \/ LoadOperation(w)
             \/ ValidateBinding(w) \/ ObserveTask(w) \/ ObserveVm(w)
    <2>1. op' = op /\ job' = job
      BY <1>6 DEF ClaimDueWork, RequestObservation, RepeatObservation, ObserverCrashes,
         ClaimObservation, LeaseLost, LoadOperation, ValidateBinding, ObserveTask, ObserveVm,
         coordination
    <2> QED BY <1>3, <2>1, MovesRest, JobRest
  <1>7. CASE RecordRequest(w)
    <2>1. job' = job /\ (op' = op \/ Commit(o, obs[w].gen, {st}, st, Kept(o), FALSE))
      BY <1>7 DEF RecordRequest
    <2>2. Commit(o, obs[w].gen, {st}, st, Kept(o), FALSE) => st = op[o].status
      BY DEF Commit, MayCommit
    <2> QED BY <1>3, <1>4, <2>1, <2>2, MovesRest, JobRest
  <1>8. CASE PauseBindingFailure(w) \/ PauseMissingTask(w)
    <2>1. Reconciled(w) = st \/ Reconciled(w) = "needs_reconciliation"
      BY DEF Reconciled
    <2>2. job' = job /\ (op' = op \/ \E item : HandlerCommit(w, Reconciled(w), item, FALSE))
      BY <1>8 DEF PauseBindingFailure, PauseMissingTask, HandlerConflict
    <2> QED BY <1>3, <1>5, <2>1, <2>2, MovesRest, JobRest
  <1>9. CASE CompleteUnsent(w)
    <2> DEFINE to == IF st \in {"failed", "blocked"} THEN st ELSE "failed"
    <2>1. \/ op' = op /\ job' = job
          \/ /\ HandlerCommit(w, to, Ended(o, "completed", FALSE), TRUE)
             /\ job' = [job EXCEPT ![o] = to]
      BY <1>9 DEF CompleteUnsent, HandlerConflict
    <2>2. to \in {"failed", "blocked"}
      OBVIOUS
    <2> HIDE DEF to
    <2>3. CASE HandlerCommit(w, to, Ended(o, "completed", FALSE), TRUE) /\ job' = [job EXCEPT ![o] = to]
      <3>1. MovesStep /\ op'[o].status = to
        BY <1>5, <2>2, <2>3
      <3>2. JobMoves(o, to)
        BY <2>2, <3>1 DEF JobMoves
      <3> QED BY <1>1, <1>3, <2>3, <3>1, <3>2, JobRow
    <2> QED BY <1>3, <2>1, <2>3, MovesRest, JobRest
  <1>10. CASE CompleteProjection(w)
    <2>1. \/ op' = op /\ job' = job
          \/ /\ HandlerCommit(w, st, Ended(o, "completed", FALSE), TRUE)
             /\ \E s \in {"completed", "failed"} : job' = [job EXCEPT ![o] = s]
      BY <1>10 DEF CompleteProjection, coordination
    <2>2. \A s \in {"completed", "failed"} : JobMoves(o, s)
      BY DEF JobMoves
    <2>3. JobStep
      BY <1>1, <2>1, <2>2, JobRow, JobRest
    <2>4. MovesStep
      BY <1>5, <2>1, MovesRest
    <2> QED BY <1>3, <2>3, <2>4
  <1>11. CASE \/ RetryTask(w) \/ AdvanceToVerifying(w) \/ PauseMismatch(w) \/ RecordOutcome(w)
    <2>1. /\ job' = job
          /\ \/ op' = op
             \/ \E to \in {st, "running", "verifying", "needs_reconciliation", "succeeded", "failed"} :
                  \E item : HandlerCommit(w, to, item, FALSE)
      BY <1>11 DEF RetryTask, AdvanceToVerifying, PauseMismatch, RecordOutcome, HandlerConflict
    <2>2. MovesStep
      BY <1>5, <2>1, MovesRest
    <2> QED BY <1>3, <2>1, <2>2, JobRest
  <1>12. CASE AbsorbException(w)
    <2>1. job' = job /\ \E item : Commit(o, obs[w].gen, {op[o].status}, op[o].status, item, FALSE)
      BY <1>12 DEF AbsorbException
    <2> QED BY <1>3, <1>4, <2>1, JobRest
  <1> QED BY <1>6, <1>7, <1>8, <1>9, <1>10, <1>11, <1>12 DEF ObserverStep

-----------------------------------------------------------------------------
(* The specification. *)

\* Initially nothing is claimed.
LEMMA ClaimInit == Init => ClaimInv
  <1> SUFFICES ASSUME Init PROVE ClaimInv
    OBVIOUS
  <1>1. /\ \A o \in Ops : op[o].status = "none" /\ op[o].marker = Free /\ job[o] = "none"
        /\ \A r \in Requests : req[r].pc = "start"
    BY DEF Init, CoordinationInit, Thread
  <1>2. Claims
    BY <1>1 DEF Claims, OperationClaims, RequestClaims, At, SendingPcs
  <1> QED BY <1>2, TruthInit DEF ClaimInv

\* Every step claims only what it may.
LEMMA NextClaims ==
  ASSUME ClaimInv, [Next]_vars
  PROVE  ClaimsStep
  <1>1. ASSUME UNCHANGED <<op, job, posts>>, RequestsClaim PROVE ClaimsStep
    BY <1>1, MovesRest, JobRest, PostRest DEF ClaimsStep
  <1>2. req' = req => RequestsClaim
    BY DEF RequestsClaim
  <1>3. ASSUME NEW r \in Requests, RequestStep(r) PROVE ClaimsStep
    BY <1>3, UnsentClaims, PostClaims, SentClaims DEF RequestStep
  <1>4. ASSUME NEW w \in Observers,
               ClaimDueWork(w) \/ RequestObservation(w) \/ RepeatObservation(w)
               \/ ObserverStep(w) \/ ObserverCrashes(w)
        PROVE  ClaimsStep
    BY <1>4, ObserverClaims
  <1>5. ASSUME NEW r \in Requests, RequestCrashes(r) PROVE ClaimsStep
    <2>1. Goto(r, "crashed") /\ UNCHANGED <<op, job, posts>>
      BY <1>5 DEF RequestCrashes, coordination, proxmox
    <2>2. RequestsClaim
      BY <2>1, GotoUnclaimed DEF ClaimingPcs, SendingPcs
    <2> QED BY <1>1, <2>1, <2>2
  <1>6. CASE ProxmoxStep
    <2>1. UNCHANGED <<op, job, posts, req>>
      BY <1>6 DEF ProxmoxStep, TaskStarts, TaskEnds, PowerChanges, coordination
    <2> QED BY <1>1, <1>2, <2>1
  <1>7. ASSUME NEW o \in Ops, LeaseExpires(o) PROVE ClaimsStep
    <2>1. UNCHANGED <<op, job, posts, req>>
      BY <1>7 DEF LeaseExpires, proxmox
    <2> QED BY <1>1, <1>2, <2>1
  <1>8. CASE UNCHANGED vars
    BY <1>1, <1>2, <1>8 DEF vars
  <1> QED BY <1>3, <1>4, <1>5, <1>6, <1>7, <1>8 DEF Next

\* The inductive step.
LEMMA ClaimStep == ClaimInv /\ [Next]_vars => ClaimInv'
  <1> SUFFICES ASSUME ClaimInv, [Next]_vars PROVE ClaimInv'
    OBVIOUS
  <1>1. TruthInv'
    BY TruthStep DEF ClaimInv
  <1> QED BY <1>1, NextClaims, ClaimsKept

\* The invariant of every reachable state.
LEMMA ClaimAlways == Spec => []ClaimInv
  <1> QED BY ClaimInit, ClaimStep, PTL DEF Spec

\* What a marker or a Job calls "without effect" was never sent: not by the request that says
\* so, nor by another that took the lock in between.
THEOREM NoEffectIsTrue == Spec => []NoEffectClaimIsTrue
  <1>1. ClaimInv => NoEffectClaimIsTrue
    BY DEF ClaimInv, Claims, OperationClaims, NoEffectClaimIsTrue
  <1> QED BY <1>1, ClaimAlways, PTL

-----------------------------------------------------------------------------
(***************************************************************************)
(* When the recovery of a sent operation completes, the Job tells what it  *)
(* came to, proved for every number of operations, VMs, requests, runners  *)
(* and operators.  Together with the layers before it, this proves IInv.   *)
(*                                                                         *)
(* No lease fences the Job.  What keeps another request from writing over  *)
(* it between the recording of the outcome and the completion is that its  *)
(* recovery row goes on naming the lock of the one request that dispatched *)
(* it: TraceStep says that the row and the lock stay as they are.          *)
(***************************************************************************)
ToldInv == ClaimInv /\ Told

-----------------------------------------------------------------------------
(* What every step has in common. *)

\* An operation that was dispatched, or sent.
Launched(o) == posts[o] > 0 \/ op[o].status \in Uncertain

\* Its recovery row keeps the lock and the phase, a lock leaves only when the work completes, and
\* then the Job tells the outcome.
RecordsKeep ==
  \A o \in Ops : Launched(o) => rec'[o].lockId = rec[o].lockId /\ rec'[o].phase = rec[o].phase
LocksKeep ==
  \A o \in Ops : posts[o] > 0 /\ rec[o].status # "completed" /\ rec'[o].status # "completed" =>
    lock'[VmOf[o]] = lock[VmOf[o]]
CompletionsTold ==
  \A o \in Ops : posts[o] > 0 /\ rec[o].status # "completed" /\ rec'[o].status = "completed" =>
    job'[o] = Telling(op'[o].status)
TraceStep == RecordsKeep /\ LocksKeep /\ CompletionsTold

\* The send moves no row.
SendStep ==
  \A o \in Ops : posts'[o] = posts[o] \/ (op[o].status \in Uncertain /\ rec' = rec /\ lock' = lock)

\* A Job is written by a request on its way that is not about to finish, or with the completion.
WritingPcs == (UnsentPcs \cup SentPcs) \ {"finish"}
WritersStep ==
  \A o \in Ops : \/ job'[o] = job[o]
                 \/ rec'[o].status = "completed"
                 \/ \E r \in Requests : OpOf[r] = o /\ req[r].pc \in WritingPcs

RequestsTold == \A q \in Requests : req'[q] = req[q] \/ RequestTold(q)'
ObserversTold == \A w \in Observers : obs'[w] = obs[w] \/ ObserverTold(w)'
ToldStep == TraceStep /\ SendStep /\ WritersStep /\ RequestsTold /\ ObserversTold

\* The invariant, with what the provers need of it.
LEMMA ToldRows ==
  ASSUME ToldInv
  PROVE  /\ ClaimInv /\ SafeInv /\ ClosedInv
         /\ op \in [Ops -> OpRows] /\ rec \in [Ops -> RecRows] /\ lock \in [Vms -> LockIds]
         /\ job \in [Ops -> Jobs] /\ posts \in [Ops -> Nat]
         /\ req \in [Requests -> Threads] /\ obs \in [Observers -> ObserverRows]
         /\ \A o \in Ops : OperationTold(o) /\ OperationSafe(o) /\ VmOf[o] \in Vms /\ posts[o] \in Nat
         /\ \A r \in Requests : RequestTold(r) /\ RequestSafe(r) /\ OpOf[r] \in Ops
         /\ \A w \in Observers : ObserverTold(w) /\ ObserverShape(w) /\ ObserverSafe(w) /\ obs[w].o \in Ops
  BY ClaimRows, SafeRows, CoordinationAssumption DEF ToldInv, Told

\* What a request past its dispatch checkpoint works on was launched.
LEMMA SentLaunched ==
  ASSUME ToldInv, NEW r \in Requests, req[r].pc \in SentPcs
  PROVE  Launched(OpOf[r]) /\ (~At(r, "post") => posts[OpOf[r]] = 1)
  BY ToldRows DEF RequestSafe, Launched, At, SentPcs

\* Who writes the Job of a sent operation is the request that sent it.
LEMMA WriterSent ==
  ASSUME ToldInv, NEW r \in Requests, NEW q \in Requests, OpOf[q] = OpOf[r],
         posts[OpOf[r]] > 0, rec[OpOf[r]].status # "completed",
         req[r].pc \in SentPcs, req[q].pc \in UnsentPcs \cup SentPcs
  PROVE  q = r
  <1>1. rec[OpOf[r]].lockId = r /\ OperationTold(OpOf[r]) /\ RequestSafe(q) /\ RequestTold(q)
    BY ToldRows DEF RequestTold
  <1> QED BY <1>1 DEF OperationTold, ExactLock, RequestSafe, RequestTold

\* The layer is kept by every step of that kind.
LEMMA ToldKept ==
  ASSUME ToldInv, ClaimInv', [Next]_vars, ToldStep
  PROVE  ToldInv'
  <1>1. /\ RowsStep /\ OpMoves /\ PostStep /\ ClaimInv
        /\ \A o \in Ops : posts'[o] \in Nat /\ posts[o] \in Nat
    <2>1. ClosedInv /\ SafeInv /\ ClaimInv
      BY ToldRows
    <2>2. RowsStep /\ OpMoves /\ PostStep
      BY <2>1, NextMoves, NextSafe, NextClaims DEF TablesStep, ClaimsStep
    <2>3. posts \in [Ops -> Nat] /\ posts' \in [Ops -> Nat]
      BY <2>1 DEF ClaimInv, TruthInv, SafeInv, ClosedInv, TypeOK
    <2> QED BY <2>1, <2>2, <2>3
  <1>2. \A o \in Ops : rec'[o].status # "completed" => rec[o].status # "completed"
    BY <1>1 DEF RowsStep, CompletedStays
  <1>3. ASSUME NEW o \in Ops PROVE OperationTold(o)'
    <2> SUFFICES ASSUME posts'[o] > 0, rec'[o].status # "completed"
                 PROVE  /\ rec'[o].lockId # Free /\ rec'[o].phase = "dispatched"
                        /\ lock'[VmOf[o]] = rec'[o].lockId /\ lock'[VmOf[o]] # Free
                        /\ OpOf[lock'[VmOf[o]]] = o
      BY DEF OperationTold, ExactLock, LockedBy
    <2>1. rec[o].status # "completed"
      BY <1>2
    <2>2. CASE posts'[o] = posts[o]
      <3>1. ExactLock(o) /\ rec[o].phase = "dispatched" /\ Launched(o)
        BY <2>1, <2>2, ToldRows DEF OperationTold, Launched
      <3>2. /\ rec'[o].lockId = rec[o].lockId /\ rec'[o].phase = rec[o].phase
            /\ lock'[VmOf[o]] = lock[VmOf[o]]
        BY <2>1, <2>2, <3>1 DEF ToldStep, TraceStep, RecordsKeep, LocksKeep
      <3> QED BY <3>1, <3>2 DEF ExactLock, LockedBy
    <2>3. CASE op[o].status \in Uncertain /\ rec' = rec /\ lock' = lock
      BY <2>3, ToldRows DEF OperationSafe, ExactLock, LockedBy
    <2> QED BY <2>2, <2>3 DEF ToldStep, SendStep
  <1>4. ASSUME NEW q \in Requests, req'[q] = req[q] PROVE RequestTold(q)'
    <2> DEFINE o == OpOf[q]
    <2>1. o \in Ops /\ RequestTold(q)
      BY ToldRows
    <2>2. req[q].pc \in SentPcs => rec'[o].lockId = q
      BY <2>1, SentLaunched DEF RequestTold, ToldStep, TraceStep, RecordsKeep
    <2>3. ASSUME At(q, "finish"), rec'[o].status # "completed"
          PROVE  job'[o] = Telling(req[q].saw)
      <3>1. req[q].pc \in SentPcs /\ rec[o].status # "completed" /\ posts[o] > 0
        BY <1>2, <2>1, <2>3, SentLaunched DEF At, SentPcs
      <3>2. \A r \in Requests : OpOf[r] = o => req[r].pc \notin WritingPcs
        BY <2>3, <3>1, WriterSent DEF At, WritingPcs
      <3>3. job'[o] = job[o]
        BY <2>1, <2>3, <3>2 DEF ToldStep, WritersStep
      <3> QED BY <2>1, <2>3, <3>1, <3>3 DEF RequestTold
    <2> QED BY <1>4, <2>2, <2>3 DEF RequestTold, At
  <1>5. ASSUME NEW w \in Observers, obs'[w] = obs[w] PROVE ObserverTold(w)'
    <2> DEFINE o == obs[w].o
    <2> SUFFICES ASSUME ObserverAt(w, "prepare"), obs[w].version = op'[o].version
                 PROVE  posts'[o] = 0
      BY <1>5 DEF ObserverTold, ObserverAt
    <2>1. o \in Ops /\ ObserverShape(w) /\ ObserverTold(w) /\ ObserverSafe(w)
      BY ToldRows
    <2>2. obs[w].version \in Nat /\ op[o].version \in Nat
      BY <2>1, ToldRows, SafeRows
    <2>3. op'[o] = op[o]
      BY <1>1, <2>1, <2>2 DEF OpMoves, ObserverShape
    <2>4. op[o].status \in {"planned", "failed", "blocked"} /\ posts[o] = 0
      BY <2>1, <2>3 DEF ObserverShape, ObserverTold, ObserverSafe
    <2>5. op[o].status \notin Uncertain
      BY <2>4 DEF Uncertain
    <2> QED BY <1>1, <2>1, <2>4, <2>5 DEF PostStep
  <1> QED BY <1>3, <1>4, <1>5 DEF ToldInv, Told, ToldStep, RequestsTold, ObserversTold

-----------------------------------------------------------------------------
(* The transactions. *)

\* A step that writes neither recovery rows nor locks.
LEMMA TraceRest ==
  ASSUME rec' = rec, lock' = lock
  PROVE  TraceStep
  BY DEF TraceStep, RecordsKeep, LocksKeep, CompletionsTold

\* A lock that is free was nobody's exact lock.
LEMMA TraceAcquire ==
  ASSUME ToldInv, NEW r \in Requests, Acquire(r), rec' = rec
  PROVE  TraceStep
  <1>1. LocksKeep
    BY ToldRows DEF LocksKeep, Acquire, OperationTold, ExactLock, LockedBy
  <1> QED BY <1>1 DEF TraceStep, RecordsKeep, CompletionsTold

\* A request that releases its lock dispatched nothing under it.
LEMMA TraceRelease ==
  ASSUME ToldInv, NEW r \in Requests, At(r, "release"), Release(r), rec' = rec
  PROVE  TraceStep
  <1>1. ~(rec[OpOf[r]].phase = "dispatched" /\ rec[OpOf[r]].lockId = r)
    BY ToldRows DEF RequestSafe, At, UnsentPcs
  <1>2. LocksKeep
    BY <1>1, ToldRows DEF LocksKeep, Release, OperationTold, ExactLock, LockedBy
  <1> QED BY <1>2 DEF TraceStep, RecordsKeep, CompletionsTold

\* A recovery row that goes on, with its lock and its phase where it was launched.
LEMMA TraceRow ==
  ASSUME ToldInv, NEW o \in Ops, NEW row, rec' = [rec EXCEPT ![o] = row], lock' = lock,
         row.status # "completed",
         Launched(o) => row.lockId = rec[o].lockId /\ row.phase = rec[o].phase
  PROVE  TraceStep
  BY ToldRows DEF TraceStep, RecordsKeep, LocksKeep, CompletionsTold

\* A claim of an existing row, or one that registers recovery of what was not launched.
LEMMA TraceClaim ==
  ASSUME ToldInv, NEW o \in Ops, lock' = lock,
         \/ ClaimOperation(o) \/ ClaimDue(o)
         \/ \E l \in LockIds, m \in BOOLEAN : PrepareAndClaim(o, l, m) /\ ~Launched(o)
  PROVE  TraceStep
  <1>1. rec[o] \in RecRows /\ rec[o].marker \in BOOLEAN
    BY ToldRows DEF RecRows
  <1>2. CASE ClaimOperation(o) \/ ClaimDue(o)
    <2> DEFINE row == Leased(rec[o])
    <2>1. row.status # "completed" /\ row.lockId = rec[o].lockId /\ row.phase = rec[o].phase
      BY <1>1, LeasedType
    <2>2. rec' = [rec EXCEPT ![o] = row]
      BY <1>2 DEF ClaimOperation, ClaimDue
    <2> HIDE DEF row
    <2> QED BY <2>1, <2>2, TraceRow
  <1>3. CASE \E l \in LockIds, m \in BOOLEAN : PrepareAndClaim(o, l, m) /\ ~Launched(o)
    <2>1. PICK l \in LockIds, m \in BOOLEAN : PrepareAndClaim(o, l, m) /\ ~Launched(o)
      BY <1>3
    <2> DEFINE n == rec[o].marker \/ m
               z == Prepared(rec[o], l, m)
               row == Leased(z)
    <2>2. n \in BOOLEAN /\ z = [rec[o] EXCEPT !.phase = "pre_dispatch", !.lockId = l, !.marker = n]
      BY <1>1 DEF Prepared
    <2> HIDE DEF n, z
    <2>3. z \in RecRows
      BY <1>1, <2>2 DEF RecRows
    <2>4. row.status # "completed"
      BY <2>3, LeasedType
    <2>5. rec' = [rec EXCEPT ![o] = row]
      BY <2>1 DEF PrepareAndClaim, z
    <2> HIDE DEF row
    <2> QED BY <2>1, <2>4, <2>5, TraceRow
  <1> QED BY <1>2, <1>3

\* The rows a commit leaves, unless it completes the work.
GoesOn(o, item) ==
  /\ item.status # "completed"
  /\ item.lockId = rec[o].lockId /\ item.phase = rec[o].phase

\* Every row of a commit but the completing one goes on.
LEMMA ItemsGoOn ==
  ASSUME ToldInv, NEW o \in Ops, rec[o].status = "leased"
  PROVE  /\ GoesOn(o, Kept(o)) /\ GoesOn(o, [Kept(o) EXCEPT !.upid = TRUE])
         /\ \A s \in {"retry_wait", "paused"}, b \in BOOLEAN : GoesOn(o, Ended(o, s, b))
  <1>1. \A s \in {"retry_wait", "paused"} : s \in RecoveryStatuses /\ s # "completed"
    BY DEF RecoveryStatuses
  <1> QED BY <1>1, ToldRows, ItemLock, ItemPhase DEF GoesOn

\* commit_observation, of work that goes on.
LEMMA TraceCommit ==
  ASSUME ToldInv, NEW o \in Ops, NEW g, NEW from, NEW to, NEW item,
         Commit(o, g, from, to, item, FALSE), GoesOn(o, item)
  PROVE  TraceStep
  BY TraceRow DEF Commit, GoesOn

\* commit_observation, of work that completes and releases its lock: no other operation holds it.
LEMMA TraceCompleted ==
  ASSUME ToldInv, NEW o \in Ops, NEW g, NEW from, NEW to \in OperationStatuses \cup {"none"},
         Commit(o, g, from, to, Ended(o, "completed", FALSE), TRUE),
         posts[o] > 0 => job'[o] = Telling(to)
  PROVE  TraceStep /\ rec'[o].status = "completed"
  <1> DEFINE item == Ended(o, "completed", FALSE)
             row == Moved(op[o], to)
  <1>1. item.status = "completed" /\ item.lockId = rec[o].lockId /\ item.phase = rec[o].phase
    BY ToldRows, ItemLock, ItemPhase, StatusNames
  <1>2. row.status = to
    BY ToldRows, MovedType
  <1>3. /\ rec' = [rec EXCEPT ![o] = item] /\ op' = [op EXCEPT ![o] = row]
        /\ lock' = [lock EXCEPT ![VmOf[o]] = Free] /\ LockedBy(o)
    BY DEF Commit, MayCommit, ExactLock
  <1> HIDE DEF item, row
  <1>4. /\ rec'[o] = item /\ op'[o] = row
        /\ \A p \in Ops : p # o => rec'[p] = rec[p]
    BY <1>3, ToldRows
  <1>5. LocksKeep
    BY <1>1, <1>3, <1>4, ToldRows DEF LocksKeep, OperationTold, ExactLock, LockedBy
  <1>6. RecordsKeep
    BY <1>1, <1>4 DEF RecordsKeep
  <1>7. CompletionsTold
    BY <1>1, <1>2, <1>4 DEF CompletionsTold
  <1> QED BY <1>1, <1>4, <1>5, <1>6, <1>7 DEF TraceStep

\* A Job row written by a request on its way.
LEMMA WritersRow ==
  ASSUME ToldInv, NEW r \in Requests, req[r].pc \in WritingPcs, NEW s,
         job' = [job EXCEPT ![OpOf[r]] = s]
  PROVE  WritersStep
  BY ToldRows DEF WritersStep

\* A step that writes no Job.
LEMMA WritersRest ==
  ASSUME job' = job
  PROVE  WritersStep
  BY DEF WritersStep

\* A step that sends nothing.
LEMMA SendRest ==
  ASSUME posts' = posts
  PROVE  SendStep
  BY DEF SendStep

-----------------------------------------------------------------------------
(* The threads. *)

\* A request that is not past its dispatch checkpoint.
LEMMA ToldUnsent ==
  ASSUME ToldInv, NEW r \in Requests, NEW t, req' = [req EXCEPT ![r] = t], t.pc \notin SentPcs
  PROVE  RequestsTold
  <1>1. req'[r] = t
    BY ToldRows
  <1>2. RequestTold(r)'
    BY <1>1 DEF RequestTold, At, SentPcs
  <1> QED BY <1>2, ToldRows DEF RequestsTold

\* One that goes on beyond it, under the lock its recovery row names.
LEMMA ToldSent ==
  ASSUME ToldInv, NEW r \in Requests, NEW t, req' = [req EXCEPT ![r] = t], req[r].pc \in SentPcs,
         t.pc # "finish", RecordsKeep
  PROVE  RequestsTold
  <1>1. req'[r] = t
    BY ToldRows
  <1>2. rec'[OpOf[r]].lockId = r
    BY ToldRows, SentLaunched DEF RequestTold, RecordsKeep
  <1>3. RequestTold(r)'
    BY <1>1, <1>2 DEF RequestTold, At
  <1> QED BY <1>3, ToldRows DEF RequestsTold

\* The same two, when the request only moves.
LEMMA GotoUnsent ==
  ASSUME ToldInv, NEW r \in Requests, NEW pc, Goto(r, pc), pc \notin SentPcs
  PROVE  RequestsTold
  BY ToldRows, GotoRow, ToldUnsent

\* Beyond the checkpoint.
LEMMA GotoBeyond ==
  ASSUME ToldInv, NEW r \in Requests, NEW pc, Goto(r, pc), pc # "finish",
         req[r].pc \in SentPcs, RecordsKeep
  PROVE  RequestsTold
  BY ToldRows, GotoRow, ToldSent

-----------------------------------------------------------------------------
(* The foreground workflow. *)

\* Before the dispatch a request registers recovery of what was not launched, and writes the Job
\* of an operation that nobody has sent, or whose recovery is completed.
LEMMA UnsentTold ==
  ASSUME ToldInv, NEW r \in Requests,
         \/ LookupJob(r) \/ PrepareOperation(r) \/ AcquireTarget(r) \/ TargetLockBusy(r)
         \/ ResolveBusy(r) \/ RecordConflict(r) \/ RecheckUnderLock(r) \/ RecordPrecheck(r)
         \/ Precheck(r) \/ AbandonUnsent(r) \/ BlockOperation(r) \/ RecordBlocked(r)
         \/ OpenMutationClient(r) \/ RecordStart(r) \/ RegisterRecovery(r)
         \/ RecordUnsentFailure(r) \/ CloseUnsentFailure(r) \/ ReleaseTarget(r)
         \/ ClaimReplay(r) \/ CommitReplay(r)
  PROVE  ToldStep
  <1> DEFINE o == OpOf[r]
  <1>1. /\ o \in Ops /\ req[r] \in Threads /\ r \in LockIds /\ SafeInv /\ ClaimInv
        /\ RequestSafe(r) /\ OperationSafe(o)
    BY ToldRows DEF LockIds
  <1>2. posts' = posts /\ obs' = obs
    BY DEF Stay, proxmox, LookupJob, PrepareOperation, AcquireTarget, TargetLockBusy,
       ResolveBusy, RecordConflict, RecheckUnderLock, RecordPrecheck, Precheck, AbandonUnsent,
       BlockOperation, RecordBlocked, OpenMutationClient, RecordStart, RegisterRecovery,
       RecordUnsentFailure, CloseUnsentFailure, ReleaseTarget, ClaimReplay, CommitReplay
  <1>3. ASSUME TraceStep, WritersStep, RequestsTold PROVE ToldStep
    BY <1>2, <1>3, SendRest DEF ToldStep, ObserversTold
  <1>4. ASSUME NEW pc \in {"prepare", "acquire", "recheck", "conflict", "recordPrecheck", "precheck",
                           "block", "blockJob", "client", "recordStart", "claim", "failJob",
                           "failTransition", "release", "done"},
               Goto(r, pc)
        PROVE  RequestsTold
    BY <1>4, GotoUnsent DEF SentPcs
  <1>5. ASSUME NEW t, req' = [req EXCEPT ![r] = t],
               t.pc \in {"busy", "conflict", "closeClaim", "commitDispatch", "closeCommit"}
        PROVE  RequestsTold
    BY <1>5, ToldUnsent DEF SentPcs
  <1>6. CASE \/ LookupJob(r) \/ PrepareOperation(r) \/ RecordConflict(r) \/ Precheck(r)
             \/ AbandonUnsent(r) \/ BlockOperation(r) \/ OpenMutationClient(r) \/ CloseUnsentFailure(r)
    <2>1. rec' = rec /\ lock' = lock /\ job' = job
      BY <1>6 DEF LookupJob, PrepareOperation, RecordConflict, Precheck, AbandonUnsent,
         BlockOperation, OpenMutationClient, CloseUnsentFailure, coordination
    <2>2. \E pc \in {"prepare", "acquire", "client", "block", "blockJob", "recordStart", "claim",
                     "failJob", "release", "done"} : Goto(r, pc)
      BY <1>6 DEF LookupJob, PrepareOperation, RecordConflict, Precheck, AbandonUnsent,
         BlockOperation, OpenMutationClient, CloseUnsentFailure
    <2> QED BY <1>3, <1>4, <2>1, <2>2, TraceRest, WritersRest
  <1>7. CASE TargetLockBusy(r) \/ ResolveBusy(r) \/ RecheckUnderLock(r)
    <2>1. rec' = rec /\ lock' = lock /\ job' = job
      BY <1>7 DEF TargetLockBusy, ResolveBusy, RecheckUnderLock, coordination
    <2>2. ASSUME TargetLockBusy(r) PROVE RequestsTold
      <3>1. PICK l : req' = [req EXCEPT ![r] = [req[r] EXCEPT !.pc = "busy", !.seen = l]]
        BY <2>2 DEF TargetLockBusy
      <3>2. [req[r] EXCEPT !.pc = "busy", !.seen = l].pc = "busy"
        BY <1>1, ThreadFields
      <3> QED BY <1>5, <3>1, <3>2
    <2>3. ASSUME ResolveBusy(r) PROVE RequestsTold
      <3>1. \/ Goto(r, "done")
            \/ \E pc \in {"conflict", "closeClaim"}, s \in {"none", "failed"} :
                 req' = [req EXCEPT ![r] = [req[r] EXCEPT !.pc = pc, !.version = op[o].version, !.saw = s]]
        BY <2>3 DEF ResolveBusy
      <3>2. ASSUME NEW pc \in {"conflict", "closeClaim"}, NEW s \in {"none", "failed"},
                   req' = [req EXCEPT ![r] = [req[r] EXCEPT !.pc = pc, !.version = op[o].version, !.saw = s]]
            PROVE  RequestsTold
        <4>1. [req[r] EXCEPT !.pc = pc, !.version = op[o].version, !.saw = s].pc = pc
          BY <1>1, ThreadFields
        <4> QED BY <1>5, <3>2, <4>1
      <3> QED BY <1>4, <3>1, <3>2
    <2>4. ASSUME RecheckUnderLock(r) PROVE RequestsTold
      <3>1. \/ Goto(r, "release") \/ Goto(r, "recordPrecheck")
            \/ req' = [req EXCEPT ![r] = [req[r] EXCEPT !.pc = "closeClaim", !.version = op[o].version,
                                                        !.seen = r]]
        BY <2>4 DEF RecheckUnderLock
      <3>2. [req[r] EXCEPT !.pc = "closeClaim", !.version = op[o].version, !.seen = r].pc = "closeClaim"
        BY <1>1, ThreadFields
      <3> QED BY <1>4, <1>5, <3>1, <3>2
    <2>5. RequestsTold
      BY <1>7, <2>2, <2>3, <2>4
    <2> QED BY <1>3, <2>1, <2>5, TraceRest, WritersRest
  <1>8. CASE AcquireTarget(r)
    <2>1. Acquire(r) /\ Goto(r, "recheck") /\ rec' = rec /\ job' = job
      BY <1>8 DEF AcquireTarget
    <2> QED BY <1>3, <1>4, <2>1, TraceAcquire, WritersRest
  <1>9. CASE ReleaseTarget(r)
    <2>1. At(r, "release") /\ Release(r) /\ Goto(r, "done") /\ rec' = rec /\ job' = job
      BY <1>9 DEF ReleaseTarget
    <2> QED BY <1>3, <1>4, <2>1, TraceRelease, WritersRest
  <1>10. CASE RecordPrecheck(r) \/ RecordBlocked(r) \/ RecordStart(r) \/ RecordUnsentFailure(r)
    <2>1. /\ rec' = rec /\ lock' = lock /\ \E s : job' = [job EXCEPT ![o] = s]
          /\ \E pc \in {"precheck", "release", "claim", "failTransition"} : Goto(r, pc)
          /\ req[r].pc \in {"recordPrecheck", "blockJob", "recordStart", "failJob"}
      BY <1>10 DEF RecordPrecheck, RecordBlocked, RecordStart, RecordUnsentFailure, RecordJob, At
    <2>2. req[r].pc \in WritingPcs
      BY <2>1 DEF WritingPcs, UnsentPcs
    <2> QED BY <1>3, <1>4, <2>1, <2>2, TraceRest, WritersRow
  \* Registering recovery: of what no request has sent, and none is about to.
  <1>11. CASE RegisterRecovery(r)
    <2>1. lock' = lock /\ job' = job /\ At(r, "claim")
      BY <1>11 DEF RegisterRecovery
    <2>2. ~Launched(o)
      <3>1. posts[o] = 0
        BY <1>1, <2>1, ClaimRows DEF RequestClaims, At, SendingPcs
      <3>2. op[o].status \notin Uncertain
        BY <1>1, <2>1, UnsentCertain DEF At, UnsentPcs
      <3> QED BY <3>1, <3>2 DEF Launched
    <2>3. CASE /\ PrepareAndClaim(o, r, FALSE)
               /\ req' = [req EXCEPT ![r] = [req[r] EXCEPT !.pc = "commitDispatch", !.gen = rec'[o].gen]]
      <3>1. TraceStep
        BY <1>1, <2>1, <2>2, <2>3, TraceClaim
      <3>2. [req[r] EXCEPT !.pc = "commitDispatch", !.gen = rec'[o].gen].pc = "commitDispatch"
        BY <1>1, ThreadFields
      <3>3. RequestsTold
        BY <1>5, <2>3, <3>2
      <3> QED BY <1>3, <2>1, <3>1, <3>3, WritersRest
    <2>4. CASE Goto(r, "failJob") /\ UNCHANGED rec
      BY <1>3, <1>4, <2>1, <2>4, TraceRest, WritersRest
    <2> QED BY <1>11, <2>3, <2>4 DEF RegisterRecovery
  <1>12. CASE ClaimReplay(r)
    <2>1. lock' = lock /\ job' = job /\ At(r, "closeClaim")
      BY <1>12 DEF ClaimReplay
    <2>2. CASE /\ op[o].version = req[r].version
               /\ PrepareAndClaim(o, req[r].seen, FALSE)
               /\ req' = [req EXCEPT ![r] = [req[r] EXCEPT !.pc = "closeCommit", !.gen = rec'[o].gen]]
      <3>1. op[o].status = "planned" /\ req[r].seen \in LockIds
        BY <1>1, <2>1, <2>2, SafeRows DEF RequestShape, Threads
      <3>2. ~Launched(o)
        BY <1>1, <3>1 DEF Launched, OperationSafe, Uncertain
      <3>3. TraceStep
        BY <1>1, <2>1, <2>2, <3>1, <3>2, TraceClaim
      <3>4. [req[r] EXCEPT !.pc = "closeCommit", !.gen = rec'[o].gen].pc = "closeCommit"
        BY <1>1, ThreadFields
      <3>5. RequestsTold
        BY <1>5, <2>2, <3>4
      <3> QED BY <1>3, <2>1, <3>3, <3>5, WritersRest
    <2>3. CASE Goto(r, "done") /\ UNCHANGED rec
      BY <1>3, <1>4, <2>1, <2>3, TraceRest, WritersRest
    <2> QED BY <1>12, <2>2, <2>3 DEF ClaimReplay
  <1>13. CASE CommitReplay(r)
    <2>1. job' = job /\ Goto(r, "done")
      BY <1>13 DEF CommitReplay
    <2>2. CASE Commit(o, req[r].gen, {"planned"}, "failed", Ended(o, "completed", FALSE), TRUE)
      <3>1. op[o].status = "planned" /\ "failed" \in OperationStatuses \cup {"none"}
        BY <2>2, StatusNames DEF Commit, MayCommit
      <3>2. ~(posts[o] > 0)
        BY <1>1, <3>1 DEF OperationSafe
      <3>3. TraceStep
        BY <1>1, <2>2, <3>1, <3>2, TraceCompleted
      <3> QED BY <1>3, <1>4, <2>1, <3>3, WritersRest
    <2>3. CASE rec' = rec /\ lock' = lock
      BY <1>3, <1>4, <2>1, <2>3, TraceRest, WritersRest
    <2> QED BY <1>13, <2>2, <2>3 DEF CommitReplay
  <1> QED BY <1>6, <1>7, <1>8, <1>9, <1>10, <1>11, <1>12, <1>13

\* A request's fenced commit of work that goes on, or the conflict that ends it.
LEMMA CommitOrStopTold ==
  ASSUME ToldInv, NEW r \in Requests, NEW from, NEW to, NEW item, NEW next,
         CommitOrStop(r, from, to, item, FALSE, next),
         rec[OpOf[r]].status = "leased" => GoesOn(OpOf[r], item)
  PROVE  TraceStep /\ (Goto(r, next) \/ Goto(r, "done"))
  <1>1. OpOf[r] \in Ops
    BY ToldRows
  <1>2. CASE Commit(OpOf[r], req[r].gen, from, to, item, FALSE) /\ Goto(r, next)
    <2>1. rec[OpOf[r]].status = "leased"
      BY <1>2 DEF Commit, MayCommit, LeaseOwned
    <2> QED BY <1>1, <1>2, <2>1, TraceCommit
  <1>3. CASE Goto(r, "done") /\ UNCHANGED <<op, rec, lock>>
    BY <1>3, TraceRest
  <1> QED BY <1>2, <1>3 DEF CommitOrStop

\* The checkpoint binds the recovery row to the request's own lock, for as long as it acts.
LEMMA DispatchTold ==
  ASSUME ToldInv, NEW r \in Requests, CommitDispatching(r)
  PROVE  ToldStep
  <1> DEFINE o == OpOf[r]
             item == [Kept(o) EXCEPT !.phase = "dispatched"]
  <1>1. /\ o \in Ops /\ SafeInv /\ OperationSafe(o) /\ posts' = posts /\ obs' = obs /\ job' = job
    BY ToldRows DEF CommitDispatching, Stay, proxmox
  <1>2. ASSUME TraceStep, RequestsTold PROVE ToldStep
    BY <1>1, <1>2, SendRest, WritersRest DEF ToldStep, ObserversTold
  <1>3. CASE /\ Commit(o, req[r].gen, {"planned"}, "dispatching", item, FALSE)
             /\ Goto(r, "post") /\ rec[o].lockId = r
    <2>1. /\ op[o].status = "planned" /\ rec[o].status = "leased" /\ lock' = lock
          /\ rec' = [rec EXCEPT ![o] = item]
      BY <1>3 DEF Commit, MayCommit, LeaseOwned
    <2>2. ~Launched(o)
      BY <1>1, <2>1 DEF Launched, OperationSafe, Uncertain
    <2>3. item.status # "completed" /\ item.lockId = r
      BY <1>1, <1>3, <2>1, ToldRows, ItemLock
    <2> HIDE DEF item
    <2>4. TraceStep
      BY <1>1, <2>1, <2>2, <2>3, TraceRow
    <2>5. PICK t : req' = [req EXCEPT ![r] = t] /\ t.pc = "post"
      BY <1>1, <1>3, GotoRow
    <2>6. req'[r] = t /\ rec'[o].lockId = r
      BY <1>1, <2>1, <2>3, <2>5, ToldRows
    <2>7. RequestTold(r)'
      BY <2>5, <2>6 DEF RequestTold, At
    <2>8. RequestsTold
      BY <2>5, <2>7, ToldRows DEF RequestsTold
    <2> QED BY <1>2, <2>4, <2>8
  <1>4. CASE Goto(r, "done") /\ UNCHANGED <<op, rec, lock>>
    BY <1>2, <1>4, TraceRest, GotoUnsent DEF SentPcs
  <1> QED BY <1>3, <1>4 DEF CommitDispatching, CommitOrStop

\* The POST, on a dispatch that is on record.
LEMMA PostTold ==
  ASSUME ToldInv, NEW r \in Requests, PostMutation(r)
  PROVE  ToldStep
  <1> DEFINE o == OpOf[r]
  <1>1. /\ o \in Ops /\ op[o].status \in Uncertain /\ At(r, "post")
        /\ UNCHANGED <<rec, lock, job, obs>>
    BY ToldRows DEF PostMutation, RequestSafe, At, coordination
  <1>2. \A p \in Ops : posts'[p] = posts[p] \/ p = o
    BY <1>1, ToldRows DEF PostMutation
  <1>3. SendStep
    BY <1>1, <1>2 DEF SendStep
  <1>4. TraceStep /\ WritersStep
    BY <1>1, TraceRest, WritersRest
  <1>5. \E pc \in {"commitRunning", "commitRejected", "ambiguous"} : Goto(r, pc)
    BY DEF PostMutation
  <1>6. req[r].pc \in SentPcs
    BY <1>1 DEF At, SentPcs
  <1>7. RequestsTold
    BY <1>4, <1>5, <1>6, GotoBeyond DEF TraceStep
  <1> QED BY <1>1, <1>3, <1>4, <1>7 DEF ToldStep, ObserversTold

\* From the checkpoint on: the request's own row goes on naming its lock, and the work completes
\* only under the Job that tells what the request saw.
LEMMA SentTold ==
  ASSUME ToldInv, NEW r \in Requests,
         \/ CommitRejected(r) \/ CommitRunning(r)
         \/ RecordPoll(r) \/ PollTask(r) \/ ReadVmStatus(r) \/ CommitVerifying(r)
         \/ WriteArtifact(r) \/ RequireReconciliation(r) \/ RecordReconciliation(r)
         \/ CommitTerminal(r) \/ RecordTerminal(r) \/ HandOff(r) \/ FinishTerminal(r)
  PROVE  ToldStep
  <1> DEFINE o == OpOf[r]
  <1>1. /\ o \in Ops /\ req[r] \in Threads /\ SafeInv /\ rec[o] \in RecRows /\ RequestVerdict(r)
    BY ToldRows DEF ClosedInv, Closed
  <1>2. posts' = posts /\ obs' = obs
    BY DEF Stay, proxmox, CommitRejected, CommitRunning, RecordPoll, PollTask,
       ReadVmStatus, CommitVerifying, WriteArtifact, RequireReconciliation, RecordReconciliation,
       CommitTerminal, RecordTerminal, HandOff, FinishTerminal
  <1>3. ASSUME TraceStep, WritersStep, RequestsTold PROVE ToldStep
    BY <1>2, <1>3, SendRest DEF ToldStep, ObserversTold
  <1>4. req[r].pc \in SentPcs
    BY DEF SentPcs, At, CommitRejected, CommitRunning, RecordPoll, PollTask,
       ReadVmStatus, CommitVerifying, WriteArtifact, RequireReconciliation, RecordReconciliation,
       CommitTerminal, RecordTerminal, HandOff, FinishTerminal
  <1>5. ASSUME NEW pc, Goto(r, pc), pc # "finish", TraceStep
        PROVE  RequestsTold
    BY <1>4, <1>5, GotoBeyond DEF TraceStep
  <1>6. ASSUME NEW t, req' = [req EXCEPT ![r] = t], t.pc # "finish", TraceStep
        PROVE  RequestsTold
    BY <1>4, <1>6, ToldSent DEF TraceStep
  <1>7. /\ rec[o].status = "leased" => GoesOn(o, Kept(o)) /\ GoesOn(o, [Kept(o) EXCEPT !.upid = TRUE])
        /\ rec[o].status = "leased" =>
             \A s \in {"retry_wait", "paused"}, b \in BOOLEAN : GoesOn(o, Ended(o, s, b))
    BY <1>1, ItemsGoOn
  \* The fenced commits of work that goes on, and the conflict that ends the request.
  <1>8. ASSUME job' = job, Goto(r, "done"), UNCHANGED <<op, rec, lock>>
        PROVE  ToldStep
    <2>1. TraceStep
      BY <1>8, TraceRest
    <2> QED BY <1>3, <1>5, <1>8, <2>1, WritersRest
  <1>9. ASSUME job' = job, NEW next, next # "finish", NEW from, NEW to, NEW item,
               CommitOrStop(r, from, to, item, FALSE, next),
               rec[o].status = "leased" => GoesOn(o, item)
        PROVE  ToldStep
    <2>1. TraceStep /\ (Goto(r, next) \/ Goto(r, "done"))
      BY <1>9, CommitOrStopTold
    <2>2. RequestsTold
      BY <1>5, <1>9, <2>1
    <2> QED BY <1>3, <1>9, <2>1, <2>2, WritersRest
  <1>10. CASE CommitRejected(r)
    <2>1. job' = job
      BY <1>10 DEF CommitRejected
    <2>2. CASE /\ Commit(o, req[r].gen, {"dispatching"}, "failed", Kept(o), FALSE)
               /\ req' = [req EXCEPT ![r] = [req[r] EXCEPT !.pc = "terminalJob", !.saw = "failed"]]
      <3>1. rec[o].status = "leased"
        BY <2>2 DEF Commit, MayCommit, LeaseOwned
      <3>2. GoesOn(o, Kept(o))
        BY <1>7, <3>1
      <3>3. TraceStep
        BY <1>1, <2>2, <3>2, TraceCommit
      <3>4. [req[r] EXCEPT !.pc = "terminalJob", !.saw = "failed"].pc = "terminalJob"
        BY <1>1, ThreadFields
      <3>5. RequestsTold
        BY <1>6, <2>2, <3>3, <3>4
      <3> QED BY <1>3, <2>1, <3>3, <3>5, WritersRest
    <2>3. CASE Goto(r, "done") /\ UNCHANGED <<op, rec, lock>>
      BY <1>8, <2>1, <2>3
    <2> QED BY <1>10, <2>2, <2>3 DEF CommitRejected
  <1>11. CASE CommitRunning(r)
    <2> DEFINE item == [Kept(o) EXCEPT !.upid = TRUE]
    <2>1. job' = job
      BY <1>11 DEF CommitRunning
    <2>2. CASE /\ MayCommit(o, req[r].gen, {"dispatching"}, "running", FALSE)
               /\ rec' = [rec EXCEPT ![o] = item] /\ lock' = lock /\ Goto(r, "recordPoll")
      <3>1. rec[o].status = "leased"
        BY <2>2 DEF MayCommit, LeaseOwned
      <3>2. GoesOn(o, item)
        BY <1>7, <3>1
      <3> HIDE DEF item
      <3>3. TraceStep
        BY <1>1, <2>2, <3>2, TraceRow DEF GoesOn
      <3> QED BY <1>3, <1>5, <2>1, <2>2, <3>3, WritersRest
    <2>3. CASE Goto(r, "done") /\ UNCHANGED <<op, rec, lock>>
      BY <1>8, <2>1, <2>3
    <2> QED BY <1>11, <2>2, <2>3 DEF CommitRunning
  <1>12. CASE PollTask(r) \/ ReadVmStatus(r) \/ WriteArtifact(r)
    <2>1. rec' = rec /\ lock' = lock /\ job' = job
      BY <1>12 DEF PollTask, ReadVmStatus, WriteArtifact, coordination
    <2>2. \/ \E pc \in {"reconcile", "commitTerminal", "handoff", "done"} : Goto(r, pc)
          \/ \E pc \in {"look", "commitVerifying"} : \E x :
               req' = [req EXCEPT ![r] = [req[r] EXCEPT !.pc = pc, !.saw = x]]
      <3>1. CASE PollTask(r)
        <4>1. \/ Goto(r, "done")
              \/ \E x : req' = [req EXCEPT ![r] = [req[r] EXCEPT !.pc = "look", !.saw = x]]
          BY <3>1 DEF PollTask
        <4> QED BY <4>1
      <3>2. CASE ReadVmStatus(r)
        <4>1. \E x : req' = [req EXCEPT ![r] = [req[r] EXCEPT !.pc = "commitVerifying", !.saw = x]]
          BY <3>2 DEF ReadVmStatus
        <4> QED BY <4>1
      <3>3. CASE WriteArtifact(r)
        BY <3>3 DEF WriteArtifact
      <3> QED BY <1>12, <3>1, <3>2, <3>3
    <2>3. TraceStep
      BY <2>1, TraceRest
    <2>4. ASSUME NEW pc \in {"look", "commitVerifying"}, NEW x,
                 req' = [req EXCEPT ![r] = [req[r] EXCEPT !.pc = pc, !.saw = x]]
          PROVE  RequestsTold
      <3>1. [req[r] EXCEPT !.pc = pc, !.saw = x].pc = pc
        BY <1>1, ThreadFields
      <3> QED BY <1>6, <2>3, <2>4, <3>1
    <2>5. RequestsTold
      BY <1>5, <2>2, <2>3, <2>4
    <2> QED BY <1>3, <2>1, <2>3, <2>5, WritersRest
  <1>13. CASE RecordPoll(r) \/ RecordReconciliation(r)
    <2>1. /\ rec' = rec /\ lock' = lock /\ \E s : job' = [job EXCEPT ![o] = s]
          /\ \E pc \in {"poll", "done"} : Goto(r, pc)
          /\ req[r].pc \in {"recordPoll", "reconcileJob"}
      BY <1>13 DEF RecordPoll, RecordReconciliation, RecordJob, At
    <2>2. req[r].pc \in WritingPcs
      BY <2>1 DEF WritingPcs, SentPcs
    <2> QED BY <1>3, <1>5, <2>1, <2>2, TraceRest, WritersRow
  \* The Job that tells the outcome, or the handoff.
  <1>14. CASE RecordTerminal(r)
    <2>1. /\ rec' = rec /\ lock' = lock /\ req[r].pc \in WritingPcs
          /\ \/ job' = [job EXCEPT ![o] = Telling(req[r].saw)] /\ Goto(r, "finish")
             \/ job' = job /\ Goto(r, "handoff")
      BY <1>14 DEF RecordTerminal, RecordJob, Telling, At, WritingPcs, SentPcs
    <2>2. TraceStep
      BY <2>1, TraceRest
    <2>3. CASE job' = [job EXCEPT ![o] = Telling(req[r].saw)] /\ Goto(r, "finish")
      <3>1. req' = [req EXCEPT ![r] = [req[r] EXCEPT !.pc = "finish"]]
        BY <2>3 DEF Goto
      <3>2. [req[r] EXCEPT !.pc = "finish"].saw = req[r].saw
        BY <1>1 DEF Threads
      <3>3. req'[r].saw = req[r].saw
        BY <3>1, <3>2, ToldRows
      <3>4. rec'[o].lockId = r /\ job'[o] = Telling(req[r].saw)
        BY <1>1, <1>4, <2>1, <2>3, ToldRows DEF RequestTold
      <3>5. RequestTold(r)'
        BY <3>3, <3>4 DEF RequestTold
      <3>6. RequestsTold
        BY <3>1, <3>5, ToldRows DEF RequestsTold
      <3> QED BY <1>3, <2>1, <2>2, <2>3, <3>6, WritersRow
    <2>4. CASE job' = job /\ Goto(r, "handoff")
      BY <1>3, <1>5, <2>2, <2>4, WritersRest
    <2> QED BY <2>1, <2>3, <2>4
  <1>15. CASE CommitVerifying(r) \/ CommitTerminal(r)
    <2>1. job' = job
      BY <1>15 DEF CommitVerifying, CommitTerminal
    <2>2. \E next \in {"artifact", "terminalJob"} : \E from, to :
             CommitOrStop(r, from, to, Kept(o), FALSE, next)
      BY <1>15 DEF CommitVerifying, CommitTerminal
    <2> QED BY <1>7, <1>9, <2>1, <2>2
  <1>16. CASE RequireReconciliation(r)
    <2>1. job' = job
      BY <1>16 DEF RequireReconciliation
    <2>2. \/ Goto(r, "done") /\ UNCHANGED <<op, rec, lock>>
          \/ \E s \in {"retry_wait", "paused"} : \E from, to :
               CommitOrStop(r, from, to, Ended(o, s, FALSE), FALSE, "reconcileJob")
      BY <1>16 DEF RequireReconciliation
    <2>3. ASSUME NEW s \in {"retry_wait", "paused"}, NEW from, NEW to,
                 CommitOrStop(r, from, to, Ended(o, s, FALSE), FALSE, "reconcileJob")
          PROVE  ToldStep
      <3>1. rec[o].status = "leased" => GoesOn(o, Ended(o, s, FALSE))
        BY <1>7
      <3> QED BY <1>9, <2>1, <2>3, <3>1
    <2> QED BY <1>8, <2>1, <2>2, <2>3
  <1>17. CASE HandOff(r)
    <2>1. job' = job
      BY <1>17 DEF HandOff
    <2>2. \/ Goto(r, "done") /\ UNCHANGED <<op, rec, lock>>
          \/ \E s \in {"retry_wait", "paused"}, b \in BOOLEAN : \E from, to :
               CommitOrStop(r, from, to, Ended(o, s, b), FALSE, "done")
      BY <1>17 DEF HandOff
    <2>3. ASSUME NEW s \in {"retry_wait", "paused"}, NEW b \in BOOLEAN, NEW from, NEW to,
                 CommitOrStop(r, from, to, Ended(o, s, b), FALSE, "done")
          PROVE  ToldStep
      <3>1. rec[o].status = "leased" => GoesOn(o, Ended(o, s, b))
        BY <1>7
      <3> QED BY <1>9, <2>1, <2>3, <3>1
    <2> QED BY <1>8, <2>1, <2>2, <2>3
  \* The completion.
  <1>18. CASE FinishTerminal(r)
    <2>1. /\ job' = job /\ At(r, "finish")
          /\ CommitOrStop(r, {req[r].saw}, req[r].saw, Ended(o, "completed", FALSE), TRUE, "done")
      BY <1>18 DEF FinishTerminal
    <2>2. CASE /\ Commit(o, req[r].gen, {req[r].saw}, req[r].saw, Ended(o, "completed", FALSE), TRUE)
               /\ Goto(r, "done")
      <3>1. req[r].saw \in OperationStatuses \cup {"none"}
        BY <1>1, <2>1 DEF RequestVerdict, At, OperationStatuses
      <3>2. rec[o].status # "completed"
        BY <2>2 DEF Commit, MayCommit, LeaseOwned
      <3>3. job'[o] = Telling(req[r].saw)
        BY <2>1, <3>2, ToldRows DEF RequestTold
      <3>4. TraceStep
        BY <1>1, <2>2, <3>1, <3>3, TraceCompleted
      <3> QED BY <1>3, <1>5, <2>1, <2>2, <3>4, WritersRest
    <2>3. CASE Goto(r, "done") /\ UNCHANGED <<op, rec, lock>>
      BY <1>8, <2>1, <2>3
    <2> QED BY <2>1, <2>2, <2>3 DEF CommitOrStop
  <1> QED BY <1>10, <1>11, <1>12, <1>13, <1>14, <1>15, <1>16, <1>17, <1>18

-----------------------------------------------------------------------------
(* The observers. *)

\* An observer that is not about to register recovery.
LEMMA ObserverElsewhere ==
  ASSUME ToldInv, NEW w \in Observers, NEW t, obs' = [obs EXCEPT ![w] = t], t.pc # "prepare"
  PROVE  ObserversTold
  <1>1. obs'[w] = t
    BY ToldRows
  <1> QED BY <1>1, ToldRows DEF ObserversTold, ObserverTold, ObserverAt

\* An observer that gives up.
LEMMA RestTold ==
  ASSUME ToldInv, NEW w \in Observers, Rest(w)
  PROVE  ObserversTold
  <1>1. \A pc \in {"idle", "registered", "done"} :
          Observer(pc).pc = pc /\ \A o \in Ops : [Observer(pc) EXCEPT !.o = o].pc = pc
    BY DEF Observer
  <1>2. \E t : obs' = [obs EXCEPT ![w] = t] /\ t.pc \in {"idle", "registered", "done"}
    BY <1>1, ToldRows DEF Rest
  <1> QED BY <1>2, ObserverElsewhere

\* An observer that only moves.
LEMMA AdvanceTold ==
  ASSUME ToldInv, NEW w \in Observers, NEW pc, pc # "prepare", Advance(w, pc)
  PROVE  ObserversTold
  BY ToldRows, AdvanceRow, ObserverElsewhere

\* The claims: recovery of what was launched is claimed as it was recorded, and registered only
\* of an operation that was never sent.
LEMMA ClaimingTold ==
  ASSUME ToldInv, NEW w \in Observers,
         \/ ClaimDueWork(w) \/ RequestObservation(w) \/ RepeatObservation(w)
         \/ ClaimObservation(w) \/ RecordRequest(w) \/ LeaseLost(w) \/ ObserverCrashes(w)
  PROVE  ToldStep
  <1>1. /\ obs[w] \in ObserverRows /\ obs[w].o \in Ops /\ obs[w].seen \in LockIds
        /\ ObserverTold(w) /\ ObserverShape(w) /\ ObserverSafe(w) /\ SafeInv /\ ClaimInv
    BY ToldRows DEF ObserverRows
  <1>2. posts' = posts /\ req' = req /\ job' = job
    BY DEF Hold, proxmox, coordination, ClaimDueWork, RequestObservation, RepeatObservation, ClaimObservation,
           RecordRequest, LeaseLost, ObserverCrashes
  <1>3. ASSUME TraceStep, ObserversTold PROVE ToldStep
    BY <1>2, <1>3, SendRest, WritersRest DEF ToldStep, RequestsTold
  <1>4. CASE ClaimDueWork(w)
    <2>1. PICK o \in Ops : ClaimDue(o)
                           /\ obs' = [obs EXCEPT ![w].pc = "load", ![w].o = o, ![w].gen = rec'[o].gen]
      BY <1>4 DEF ClaimDueWork
    <2> DEFINE t == [obs[w] EXCEPT !.pc = "load", !.o = o, !.gen = rec'[o].gen]
    <2>2. obs' = [obs EXCEPT ![w] = t] /\ t.pc = "load" /\ lock' = lock
      BY <1>1, <1>4, <2>1 DEF ObserverRows, ClaimDueWork
    <2> HIDE DEF t
    <2> QED BY <1>3, <2>1, <2>2, TraceClaim, ObserverElsewhere
  \* What the registration will rely on, while the version it reads stays.
  <1>5. CASE RequestObservation(w)
    <2>1. PICK o \in Ops, pc \in {"prepare", "claim"} :
            /\ obs' = [obs EXCEPT ![w].pc = pc, ![w].o = o, ![w].status = op[o].status,
                                  ![w].version = op[o].version, ![w].seen = lock[VmOf[o]]]
            /\ pc = "prepare" => /\ rec[o].status = "none"
                                 /\ op[o].status \in {"planned", "dispatching"} \/ ProvenUnsent(o)
      BY <1>5 DEF RequestObservation
    <2> DEFINE t == [obs[w] EXCEPT !.pc = pc, !.o = o, !.status = op[o].status,
                                   !.version = op[o].version, !.seen = lock[VmOf[o]]]
    <2>2. obs' = [obs EXCEPT ![w] = t] /\ t.pc = pc /\ t.o = o
      BY <1>1, <2>1 DEF ObserverRows
    <2> HIDE DEF t
    <2>3. obs'[w] = t /\ rec' = rec /\ lock' = lock
      BY <1>5, <2>2, ToldRows DEF RequestObservation, coordination
    <2>4. pc = "prepare" => posts[o] = 0
      <3>1. OperationSafe(o) /\ OperationClaims(o)
        BY <1>1, ClaimRows
      <3> QED BY <2>1, <3>1 DEF OperationSafe, OperationClaims, ProvenUnsent, Uncertain, Open
    <2>5. ObserverTold(w)'
      BY <1>2, <2>2, <2>3, <2>4 DEF ObserverTold, ObserverAt
    <2>6. ObserversTold
      BY <2>2, <2>5, ToldRows DEF ObserversTold
    <2> QED BY <1>3, <2>3, <2>6, TraceRest
  <1>6. CASE RepeatObservation(w)
    <2> DEFINE t == [obs[w] EXCEPT !.pc = "repeat", !.version = op[obs[w].o].version]
    <2>1. obs' = [obs EXCEPT ![w] = t] /\ t.pc = "repeat" /\ rec' = rec /\ lock' = lock
      BY <1>1, <1>6 DEF RepeatObservation, ObserverRows, coordination
    <2> HIDE DEF t
    <2> QED BY <1>3, <2>1, ObserverElsewhere, TraceRest
  <1>7. CASE ClaimObservation(w)
    <2> DEFINE o == obs[w].o
    <2>1. lock' = lock
      BY <1>7 DEF ClaimObservation
    <2>2. CASE Rest(w) /\ UNCHANGED rec
      BY <1>3, <2>1, <2>2, RestTold, TraceRest
    <2>3. CASE /\ op[o].version = obs[w].version
               /\ \/ /\ ObserverAt(w, "prepare")
                     /\ PrepareAndClaim(o, obs[w].seen, obs[w].status \in {"failed", "blocked"})
                  \/ ClaimOperation(o)
               /\ \E pc \in {"load", "request"} : obs' = [obs EXCEPT ![w].pc = pc, ![w].gen = rec'[o].gen]
      <3>1. PICK pc \in {"load", "request"} : obs' = [obs EXCEPT ![w].pc = pc, ![w].gen = rec'[o].gen]
        BY <2>3
      <3> DEFINE t == [obs[w] EXCEPT !.pc = pc, !.gen = rec'[o].gen]
      <3>2. obs' = [obs EXCEPT ![w] = t] /\ t.pc = pc
        BY <1>1, <3>1 DEF ObserverRows
      <3> HIDE DEF t
      <3>3. ObserversTold
        BY <3>2, ObserverElsewhere
      <3>4. CASE ClaimOperation(o)
        BY <1>1, <1>3, <2>1, <3>3, <3>4, TraceClaim
      <3>5. CASE /\ ObserverAt(w, "prepare")
                 /\ PrepareAndClaim(o, obs[w].seen, obs[w].status \in {"failed", "blocked"})
        <4> DEFINE m == obs[w].status \in {"failed", "blocked"}
        <4>1. m \in BOOLEAN /\ PrepareAndClaim(o, obs[w].seen, m)
          BY <3>5
        <4> HIDE DEF m
        <4>2. op[o].status \in {"planned", "failed", "blocked"} /\ posts[o] = 0
          BY <1>1, <2>3, <3>5 DEF ObserverSafe, ObserverShape, ObserverTold
        <4>3. ~Launched(o)
          BY <4>2 DEF Launched, Uncertain
        <4>4. TraceStep
          BY <1>1, <2>1, <4>1, <4>3, TraceClaim
        <4> QED BY <1>3, <3>3, <4>4
      <3> QED BY <2>3, <3>4, <3>5
    <2> QED BY <1>7, <2>2, <2>3 DEF ClaimObservation
  <1>8. CASE RecordRequest(w)
    <2> DEFINE o == obs[w].o
               st == obs[w].status
    <2>1. CASE /\ Commit(o, obs[w].gen, {st}, st, Kept(o), FALSE)
               /\ obs' = [obs EXCEPT ![w] = [Observer("load") EXCEPT !.o = o, !.gen = obs[w].gen]]
      <3> DEFINE t == [Observer("load") EXCEPT !.o = o, !.gen = obs[w].gen]
      <3>1. obs' = [obs EXCEPT ![w] = t] /\ t.pc = "load"
        BY <2>1 DEF Observer
      <3> HIDE DEF t
      <3>2. rec[o].status = "leased"
        BY <2>1 DEF Commit, MayCommit, LeaseOwned
      <3>3. GoesOn(o, Kept(o))
        BY <1>1, <3>2, ItemsGoOn
      <3>4. TraceStep
        BY <1>1, <2>1, <3>3, TraceCommit
      <3> QED BY <1>3, <3>1, <3>4, ObserverElsewhere
    <2>2. CASE Rest(w) /\ UNCHANGED <<op, rec, lock>>
      BY <1>3, <2>2, RestTold, TraceRest
    <2> QED BY <1>8, <2>1, <2>2 DEF RecordRequest
  <1>9. CASE LeaseLost(w) \/ ObserverCrashes(w)
    BY <1>3, <1>9, RestTold, TraceRest DEF LeaseLost, ObserverCrashes, coordination
  <1> QED BY <1>4, <1>5, <1>6, <1>7, <1>8, <1>9

\* The handlers: the two that complete the work write the Job in the same transaction.
LEMMA HandlerTold ==
  ASSUME ToldInv, NEW w \in Observers,
         \/ LoadOperation(w) \/ ValidateBinding(w) \/ PauseBindingFailure(w) \/ PauseMissingTask(w)
         \/ CompleteUnsent(w) \/ CompleteProjection(w) \/ ObserveTask(w) \/ ObserveVm(w)
         \/ RetryTask(w) \/ AdvanceToVerifying(w) \/ RecordOutcome(w) \/ PauseMismatch(w)
         \/ AbsorbException(w)
  PROVE  ToldStep
  <1> DEFINE o == obs[w].o
             st == obs[w].status
  <1>1. /\ obs[w] \in ObserverRows /\ o \in Ops /\ ObserverSafe(w) /\ ObserverVerdict(w)
        /\ SafeInv /\ ClaimInv
    BY ToldRows DEF ClosedInv, Closed
  <1>2. posts' = posts /\ req' = req
    BY DEF Hold, proxmox, LoadOperation, ValidateBinding, PauseBindingFailure, PauseMissingTask,
       CompleteUnsent, CompleteProjection, ObserveTask, ObserveVm, RetryTask,
       AdvanceToVerifying, RecordOutcome, PauseMismatch, AbsorbException
  <1>3. ASSUME TraceStep, WritersStep, ObserversTold PROVE ToldStep
    BY <1>2, <1>3, SendRest DEF ToldStep, RequestsTold
  <1>4. rec[o].status = "leased" =>
          /\ GoesOn(o, Kept(o))
          /\ \A s \in {"retry_wait", "paused"}, b \in BOOLEAN : GoesOn(o, Ended(o, s, b))
    BY <1>1, ItemsGoOn
  \* The commits of work that goes on, and the exception of one that failed.
  <1>5. ASSUME job' = job, ObserversTold, NEW g, NEW from, NEW to, NEW item,
               Commit(o, g, from, to, item, FALSE), rec[o].status = "leased" => GoesOn(o, item)
        PROVE  ToldStep
    <2>1. rec[o].status = "leased"
      BY <1>5 DEF Commit, MayCommit, LeaseOwned
    <2>2. TraceStep
      BY <1>1, <1>5, <2>1, TraceCommit
    <2> QED BY <1>3, <1>5, <2>2, WritersRest
  <1>6. ASSUME job' = job, NEW to, NEW release, HandlerConflict(w, to, release)
        PROVE  ToldStep
    <2>1. TraceStep /\ ObserversTold
      BY <1>6, TraceRest, AdvanceTold DEF HandlerConflict
    <2> QED BY <1>3, <1>6, <2>1, WritersRest
  <1>7. ASSUME job' = job, NEW to, NEW s \in {"retry_wait", "paused"}, NEW b \in BOOLEAN,
               HandlerCommit(w, to, Ended(o, s, b), FALSE), Rest(w)
        PROVE  ToldStep
    <2>1. rec[o].status = "leased" => GoesOn(o, Ended(o, s, b))
      BY <1>4
    <2>2. Commit(o, obs[w].gen, {st}, to, Ended(o, s, b), FALSE) /\ ObserversTold
      BY <1>7, RestTold DEF HandlerCommit
    <2> QED BY <1>5, <1>7, <2>1, <2>2
  <1>8. CASE LoadOperation(w) \/ ValidateBinding(w) \/ ObserveTask(w) \/ ObserveVm(w)
    <2>1. rec' = rec /\ lock' = lock /\ job' = job
      BY <1>8 DEF LoadOperation, ValidateBinding, ObserveTask, ObserveVm, coordination
    <2>2. ObserversTold
      <3>1. CASE LoadOperation(w)
        <4> DEFINE next == IF op[o].upid = rec[o].upid THEN Course(o) ELSE "pauseBinding"
                   t == [obs[w] EXCEPT !.pc = "bind", !.status = op[o].status, !.next = next]
        <4>1. Advance(w, "excepted") \/ obs' = [obs EXCEPT ![w] = t]
          BY <3>1 DEF LoadOperation
        <4>2. t.pc = "bind"
          BY <1>1, ObserverFields
        <4> HIDE DEF t
        <4> QED BY <4>1, <4>2, AdvanceTold, ObserverElsewhere
      <3>2. CASE ValidateBinding(w)
        <4>1. \E pc : pc # "prepare" /\ Advance(w, pc)
          BY <1>1, <3>2 DEF ValidateBinding, Handling, ObserverVerdict
        <4> QED BY <4>1, AdvanceTold
      <3>3. CASE ObserveTask(w)
        <4>1. \/ \E pc \in {"retry", "excepted"} : Advance(w, pc)
              \/ \E x : obs' = [obs EXCEPT ![w] = [obs[w] EXCEPT !.pc = "observeVm", !.saw = x]]
          BY <3>3 DEF ObserveTask
        <4>2. \A x : [obs[w] EXCEPT !.pc = "observeVm", !.saw = x].pc = "observeVm"
          BY <1>1, ObserverFields
        <4> QED BY <4>1, <4>2, AdvanceTold, ObserverElsewhere
      <3>4. CASE ObserveVm(w)
        <4>1. \E pc \in {"succeed", "correlate", "fail", "mismatch", "excepted"} : Advance(w, pc)
          BY <3>4 DEF ObserveVm
        <4> QED BY <4>1, AdvanceTold
      <3> QED BY <1>8, <3>1, <3>2, <3>3, <3>4
    <2> QED BY <1>3, <2>1, <2>2, TraceRest, WritersRest
  <1>9. CASE PauseBindingFailure(w) \/ PauseMissingTask(w) \/ PauseMismatch(w) \/ RetryTask(w)
    <2>1. job' = job
      BY <1>9 DEF PauseBindingFailure, PauseMissingTask, PauseMismatch, RetryTask
    <2>2. CASE PauseBindingFailure(w) \/ PauseMissingTask(w)
      <3>1. \/ HandlerConflict(w, Reconciled(w), FALSE)
            \/ HandlerCommit(w, Reconciled(w), Ended(o, "paused", TRUE), FALSE) /\ Rest(w)
        BY <2>2 DEF PauseBindingFailure, PauseMissingTask
      <3> QED BY <1>6, <1>7, <2>1, <3>1
    <2>3. CASE PauseMismatch(w)
      <3>1. \/ HandlerConflict(w, "needs_reconciliation", FALSE)
            \/ HandlerCommit(w, "needs_reconciliation", Ended(o, "paused", FALSE), FALSE) /\ Rest(w)
        BY <2>3 DEF PauseMismatch
      <3> QED BY <1>6, <1>7, <2>1, <3>1
    <2>4. CASE RetryTask(w)
      <3>1. /\ RetryStatus(o) \in {"retry_wait", "paused"}
            /\ \/ HandlerConflict(w, st, FALSE)
               \/ HandlerCommit(w, st, Ended(o, RetryStatus(o), FALSE), FALSE) /\ Rest(w)
        BY <2>4 DEF RetryTask, RetryStatus
      <3> QED BY <1>6, <1>7, <2>1, <3>1
    <2> QED BY <1>9, <2>2, <2>3, <2>4
  <1>10. CASE AdvanceToVerifying(w) \/ RecordOutcome(w)
    <2>1. job' = job
      BY <1>10 DEF AdvanceToVerifying, RecordOutcome
    <2> DEFINE Settles(to, pc) ==
                 /\ HandlerCommit(w, to, Kept(o), FALSE)
                 /\ obs' = [obs EXCEPT ![w] = [obs[w] EXCEPT !.pc = pc, !.status = to]]
    <2>2. \E to : \/ HandlerConflict(w, to, FALSE)
                  \/ \E pc \in {"succeed", "correlate", "project"} : Settles(to, pc)
      <3>1. CASE AdvanceToVerifying(w)
        <4> DEFINE to == IF st = "dispatching" THEN "running" ELSE "verifying"
                   pc == IF to = "verifying" THEN "succeed" ELSE "correlate"
        <4>1. HandlerConflict(w, to, FALSE) \/ Settles(to, pc)
          BY <3>1 DEF AdvanceToVerifying
        <4>2. pc \in {"succeed", "correlate", "project"}
          OBVIOUS
        <4> HIDE DEF to, pc, Settles
        <4> QED BY <4>1, <4>2
      <3>2. CASE RecordOutcome(w)
        <4> DEFINE to == IF ObserverAt(w, "succeed") THEN "succeeded" ELSE "failed"
        <4>1. HandlerConflict(w, to, FALSE) \/ Settles(to, "project")
          BY <3>2 DEF RecordOutcome
        <4> HIDE DEF to, Settles
        <4> QED BY <4>1
      <3> QED BY <1>10, <3>1, <3>2
    <2>3. ASSUME NEW to, NEW pc \in {"succeed", "correlate", "project"},
                 HandlerCommit(w, to, Kept(o), FALSE),
                 obs' = [obs EXCEPT ![w] = [obs[w] EXCEPT !.pc = pc, !.status = to]]
          PROVE  ToldStep
      <3>1. [obs[w] EXCEPT !.pc = pc, !.status = to].pc = pc
        BY <1>1, ObserverFields
      <3>2. ObserversTold
        BY <2>3, <3>1, ObserverElsewhere
      <3>3. Commit(o, obs[w].gen, {st}, to, Kept(o), FALSE)
        BY <2>3 DEF HandlerCommit
      <3> QED BY <1>4, <1>5, <2>1, <3>2, <3>3
    <2> QED BY <1>6, <2>1, <2>2, <2>3
  <1>11. CASE AbsorbException(w)
    <2>1. /\ job' = job /\ Rest(w)
          /\ \E s \in {"retry_wait", "paused"} :
               Commit(o, obs[w].gen, {op[o].status}, op[o].status, Ended(o, s, FALSE), FALSE)
      BY <1>11 DEF AbsorbException, RetryStatus
    <2>2. PICK s \in {"retry_wait", "paused"} :
            Commit(o, obs[w].gen, {op[o].status}, op[o].status, Ended(o, s, FALSE), FALSE)
      BY <2>1
    <2>3. rec[o].status = "leased" => GoesOn(o, Ended(o, s, FALSE))
      BY <1>4
    <2>4. ObserversTold
      BY <2>1, RestTold
    <2> QED BY <1>5, <2>1, <2>2, <2>3, <2>4
  \* What was closed without effect was sent by nobody, unless it was rejected.
  <1>12. CASE CompleteUnsent(w)
    <2> DEFINE to == IF st \in {"failed", "blocked"} THEN st ELSE "failed"
    <2>1. \/ HandlerConflict(w, to, TRUE) /\ job' = job
          \/ /\ HandlerCommit(w, to, Ended(o, "completed", FALSE), TRUE)
             /\ job' = [job EXCEPT ![o] = to] /\ Rest(w)
      BY <1>12 DEF CompleteUnsent
    <2>2. CASE /\ HandlerCommit(w, to, Ended(o, "completed", FALSE), TRUE)
               /\ job' = [job EXCEPT ![o] = to] /\ Rest(w)
      <3>1. Commit(o, obs[w].gen, {st}, to, Ended(o, "completed", FALSE), TRUE) /\ op[o].status = st
        BY <2>2 DEF HandlerCommit, Commit, MayCommit
      <3>2. st \in {"planned", "failed", "blocked"}
        BY <1>1, <1>12 DEF CompleteUnsent, Handling, ObserverSafe
      <3>3. OperationSafe(o) /\ OperationClaims(o)
        BY <1>1, ClaimRows
      <3>4. posts[o] > 0 => st = "failed"
        BY <3>1, <3>2, <3>3 DEF OperationSafe, OperationClaims
      <3>5. posts[o] > 0 => job'[o] = Telling(to)
        BY <1>1, <2>2, <3>4, ToldRows DEF Telling
      <3>6. to \in OperationStatuses \cup {"none"}
        BY DEF OperationStatuses
      <3> HIDE DEF to
      <3>7. TraceStep /\ rec'[o].status = "completed"
        BY <1>1, <3>1, <3>5, <3>6, TraceCompleted
      <3>8. WritersStep
        BY <1>1, <2>2, <3>7, ToldRows DEF WritersStep
      <3> QED BY <1>3, <2>2, <3>7, <3>8, RestTold
    <2> HIDE DEF to
    <2> QED BY <1>6, <2>1, <2>2
  <1>13. CASE CompleteProjection(w)
    <2>1. \/ Advance(w, "excepted") /\ rec' = rec /\ lock' = lock /\ job' = job
          \/ /\ HandlerCommit(w, st, Ended(o, "completed", FALSE), TRUE)
             /\ job' = [job EXCEPT ![o] = Telling(st)] /\ Rest(w)
      BY <1>13 DEF CompleteProjection, coordination, Telling
    <2>2. CASE /\ HandlerCommit(w, st, Ended(o, "completed", FALSE), TRUE)
               /\ job' = [job EXCEPT ![o] = Telling(st)] /\ Rest(w)
      <3>1. Commit(o, obs[w].gen, {st}, st, Ended(o, "completed", FALSE), TRUE)
        BY <2>2 DEF HandlerCommit
      <3>2. st \in OperationStatuses \cup {"none"} /\ job'[o] = Telling(st)
        BY <1>1, <2>2, ToldRows DEF ObserverRows
      <3>3. TraceStep /\ rec'[o].status = "completed"
        BY <1>1, <3>1, <3>2, TraceCompleted
      <3>4. WritersStep
        BY <1>1, <2>2, <3>3, ToldRows DEF WritersStep
      <3> QED BY <1>3, <2>2, <3>3, <3>4, RestTold
    <2>3. CASE Advance(w, "excepted") /\ rec' = rec /\ lock' = lock /\ job' = job
      BY <1>3, <2>3, AdvanceTold, TraceRest, WritersRest
    <2> QED BY <2>1, <2>2, <2>3
  <1> QED BY <1>8, <1>9, <1>10, <1>11, <1>12, <1>13

-----------------------------------------------------------------------------
(* The specification. *)

\* Initially nothing was sent.
LEMMA ToldInit == Init => ToldInv
  <1> SUFFICES ASSUME Init PROVE ToldInv
    OBVIOUS
  <1>1. /\ \A o \in Ops : ~(posts[o] > 0)
        /\ \A r \in Requests : req[r].pc = "start"
        /\ \A w \in Observers : obs[w].pc = "idle"
    BY DEF Init, CoordinationInit, Thread, Observer
  <1>2. Told
    BY <1>1 DEF Told, OperationTold, RequestTold, ObserverTold, At, ObserverAt, SentPcs
  <1> QED BY <1>2, ClaimInit DEF ToldInv

\* Every step is of that kind.
LEMMA NextTold ==
  ASSUME ToldInv, [Next]_vars
  PROVE  ToldStep
  <1>1. ASSUME TraceStep, UNCHANGED <<job, posts>>, RequestsTold, ObserversTold PROVE ToldStep
    BY <1>1, SendRest, WritersRest DEF ToldStep
  <1>2. (req' = req => RequestsTold) /\ (obs' = obs => ObserversTold)
    BY DEF RequestsTold, ObserversTold
  <1>3. ASSUME NEW r \in Requests, RequestStep(r) PROVE ToldStep
    BY <1>3, UnsentTold, DispatchTold, PostTold, SentTold DEF RequestStep
  <1>4. ASSUME NEW w \in Observers,
               ClaimDueWork(w) \/ RequestObservation(w) \/ RepeatObservation(w)
               \/ ObserverStep(w) \/ ObserverCrashes(w)
        PROVE  ToldStep
    BY <1>4, ClaimingTold, HandlerTold DEF ObserverStep
  <1>5. ASSUME NEW r \in Requests, RequestCrashes(r) PROVE ToldStep
    <2>1. Goto(r, "crashed") /\ UNCHANGED <<rec, lock, job, posts, obs>>
      BY <1>5 DEF RequestCrashes, coordination, proxmox
    <2>2. RequestsTold
      BY <2>1, GotoUnsent DEF SentPcs
    <2> QED BY <1>1, <1>2, <2>1, <2>2, TraceRest
  <1>6. CASE ProxmoxStep
    <2>1. UNCHANGED <<rec, lock, job, posts, req, obs>>
      BY <1>6 DEF ProxmoxStep, TaskStarts, TaskEnds, PowerChanges, coordination
    <2> QED BY <1>1, <1>2, <2>1, TraceRest
  <1>7. ASSUME NEW o \in Ops, LeaseExpires(o) PROVE ToldStep
    <2> DEFINE row == [rec[o] EXCEPT !.live = FALSE]
    <2>1. rec[o].status = "leased" /\ rec' = [rec EXCEPT ![o] = row] /\ UNCHANGED <<lock, job, posts, req, obs>>
      BY <1>7 DEF LeaseExpires, proxmox
    <2>2. row.status = rec[o].status /\ row.lockId = rec[o].lockId /\ row.phase = rec[o].phase
      BY ToldRows DEF RecRows
    <2> HIDE DEF row
    <2> QED BY <1>1, <1>2, <2>1, <2>2, TraceRow
  <1>8. CASE UNCHANGED vars
    <2>1. UNCHANGED <<rec, lock, job, posts, req, obs>>
      BY <1>8 DEF vars
    <2> QED BY <1>1, <1>2, <2>1, TraceRest
  <1> QED BY <1>3, <1>4, <1>5, <1>6, <1>7, <1>8 DEF Next

\* The inductive step.
LEMMA ToldInductive == ToldInv /\ [Next]_vars => ToldInv'
  <1> SUFFICES ASSUME ToldInv, [Next]_vars PROVE ToldInv'
    OBVIOUS
  <1>1. ClaimInv'
    BY ClaimStep DEF ToldInv
  <1> QED BY <1>1, NextTold, ToldKept

\* The invariant of every reachable state.
LEMMA ToldAlways == Spec => []ToldInv
  <1> QED BY ToldInit, ToldInductive, PTL DEF Spec

\* The whole invariant the runs check is an invariant of the specification.
THEOREM InvariantHolds == Spec => []IInv
  <1>1. ToldInv => IInv
    BY DEF ToldInv, ClaimInv, TruthInv, SafeInv, ClosedInv, IInv
  <1> QED BY <1>1, ToldAlways, PTL

\* When the recovery of a sent operation completes, the Job the operator sees tells its outcome:
\* no replay and no rival writes over it between its recording and the release of the lock.
THEOREM JobIsTold == Spec => JobToldAtCompletion
  <1>1. ToldInv /\ [Next]_vars =>
          [\A o \in Ops :
             posts[o] > 0 /\ rec[o].status # "completed" /\ rec'[o].status = "completed" =>
               job'[o] = IF op'[o].status = "succeeded" THEN "completed" ELSE "failed"]_vars
    BY NextTold DEF ToldStep, TraceStep, CompletionsTold, Telling
  <1> QED BY <1>1, ToldAlways, PTL DEF Spec, JobToldAtCompletion

=============================================================================
