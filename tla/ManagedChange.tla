---------------------------- MODULE ManagedChange ----------------------------
(***************************************************************************)
(* The managed changes that are admitted in one transaction and observed   *)
(* by one recovery handler:                                                *)
(*                                                                         *)
(*   "task"    one asynchronous request (TaskChangeService: disk, clone,   *)
(*             delete, migrate, restore, backup, template, image cleanup); *)
(*   "sync"    one synchronous request (ConfigChangeService: compute and   *)
(*             network; StorageService);                                   *)
(*   "bridge"  BridgeService: a synchronous staging, then a reload task;   *)
(*   "build"   ImageBuildService: the upload, create and template tasks.   *)
(*                                                                         *)
(* A request is one call of execute; requests with one idempotency key     *)
(* share an operation.  A VM admission is modelled lock by lock, because   *)
(* two changes may want the same two VMs; a host admission holds the gate  *)
(* from its first read.  A handler's check of its locks and stages has no  *)
(* failing branch here: LocksFollowWork and StagesBuildOnSuccess say that  *)
(* what it looks for is there.                                             *)
(***************************************************************************)
EXTENDS Ledger, Sequences

CONSTANTS Requests,
          Kind,           \* operation -> "task" | "sync" | "bridge" | "build"
          Config,         \* the configuration lock of the cluster
          Runners, Operators,
          MaxAttempts,    \* attempts after which a raising handler pauses the work
          MaxClaims,      \* bound: claims of one recovery item
          MaxFaults       \* bound: crashes, and leases that expire under their holder

Observers == Runners \cup Operators
Threads == Requests \cup Observers
Kinds == {"task", "sync", "bridge", "build"}

ASSUME ManagedChangeAssumption ==
  /\ Kind \in [Ops -> Kinds]
  /\ Config \in Locks
  /\ \A o \in Ops : Config \in Scope[o] => Scope[o] = {Config}
  /\ Requests \cap Observers = {} /\ Free \notin Threads
  /\ MaxAttempts \in Nat \ {0} /\ MaxClaims \in Nat /\ MaxFaults \in Nat

VARIABLES effect,  \* effect[o]: the requests Proxmox was sent, and what became of each
          gate,    \* holder of the mutation admission lock of the connection
          th,      \* the threads
          faults

ledger == <<op, rec, lock>>
vars == <<op, rec, lock, effect, gate, th, faults>>

Calls(o) == CASE Kind[o] = "task" -> <<"task">>
              [] Kind[o] = "sync" -> <<"sync">>
              [] Kind[o] = "bridge" -> <<"sync", "task">>
              [] Kind[o] = "build" -> <<"task", "task", "task">>
IsHost(o) == Config \in Scope[o]

EffectStates == {"lost", "inflight", "running", "ok", "failed"}
Effects == [call : Nat, state : EffectStates]
Pcs == {"start", "review", "admit", "insert", "create", "recheck", "dispatch", "post", "bind",
        "wait", "complete", "staged", "checkpoint", "restage", "done",
        "idle", "load", "verify", "observe", "pause", "unavailable", "block", "verifying", "succeed"}
HandlerPcs == {"load", "verify", "observe", "pause", "unavailable", "block", "verifying", "succeed"}

ThreadRows == [pc : Pcs, o : Ops \cup {Free}, gen : Nat, row : OpRows, held : SUBSET Locks]

TypeOK ==
  /\ LedgerTypeOK
  /\ effect \in [Ops -> Seq(Effects)]
  /\ gate \in Requests \cup {Free}
  /\ th \in [Threads -> ThreadRows]
  /\ faults \in 0..MaxFaults

Fresh(pc) == [pc |-> pc, o |-> Free, gen |-> 0, row |-> NoRow, held |-> {}]
Rest(t) == Fresh(IF t \in Requests THEN "done" ELSE "idle")

Init ==
  /\ LedgerInit
  /\ effect = [o \in Ops |-> <<>>]
  /\ gate = Free
  /\ th = [t \in Threads |-> Fresh(IF t \in Requests THEN "start" ELSE "idle")]
  /\ faults = 0

At(t, pc) == th[t].pc = pc
Goto(t, pc) == th' = [th EXCEPT ![t] = IF pc = "rest" THEN Rest(t) ELSE [@ EXCEPT !.pc = pc]]
World == UNCHANGED <<effect, faults>>

-----------------------------------------------------------------------------
(* Lookup, review and admission. *)

\* A recorded operation answers the request; nothing is written yet otherwise.
LookUp(t, o) ==
  /\ At(t, "start")
  /\ th' = [th EXCEPT ![t] = IF op[o].status # "none" THEN Rest(t)
                             ELSE [@ EXCEPT !.pc = "review", !.o = o]]
  /\ UNCHANGED <<ledger, gate>> /\ World

\* The reads and the expected digest, name and volume of the request; any may fail.
Review(t) ==
  /\ At(t, "review")
  /\ \E pc \in {"admit", "rest"} : Goto(t, pc)
  /\ UNCHANGED <<ledger, gate>> /\ World

\* prepare looks the operation up again before it asks for a lock.
EnterAdmission(t) ==
  /\ At(t, "admit") /\ ~IsHost(th[t].o)
  /\ Goto(t, IF op[th[t].o].status # "none" THEN "rest" ELSE "insert")
  /\ UNCHANGED <<ledger, gate>> /\ World

Missing(t) == Scope[th[t].o] \ th[t].held
\* Rows are inserted in one order.
NextLock(t) == {l \in Missing(t) : \A k \in Missing(t) : l <= k}
Uncommitted(t, l) == \E u \in Requests \ {t} : l \in th[u].held
HoldToo(t, l) ==
  th' = [th EXCEPT ![t].held = @ \cup {l},
                   ![t].pc = IF Missing(t) = {l} THEN "create" ELSE "insert"]

\* Wrong: locks are inserted as the request names them, without the connection's gate.
InsertAnyLock(t) ==
  /\ At(t, "insert")
  /\ \E l \in Missing(t) :
       \/ lock[l] = Free /\ ~Uncommitted(t, l) /\ HoldToo(t, l)
       \/ lock[l] # Free /\ Goto(t, "rest")
  /\ UNCHANGED <<ledger, gate>> /\ World

\* acquire: an open lock is busy and rolls the transaction back; otherwise admit_mutation
\* takes the gate (until the end of the transaction), a configuration lock is busy too, and
\* the row is inserted.
InsertLock(t) ==
  /\ At(t, "insert")
  /\ \E l \in NextLock(t) :
       \/ /\ lock[l] = Free /\ lock[Config] = Free /\ gate \in {Free, t} /\ ~Uncommitted(t, l)
          /\ gate' = t /\ HoldToo(t, l)
       \/ /\ lock[l] # Free \/ (gate \in {Free, t} /\ lock[Config] # Free)
          /\ Goto(t, "rest") /\ gate' = IF gate = t THEN Free ELSE gate
  /\ UNCHANGED ledger /\ World

Begin(t) ==
  /\ Admitted(th[t].o, "planned")
  /\ th' = [th EXCEPT ![t] = [@ EXCEPT !.pc = "recheck", !.held = {}, !.gen = 1,
                                       !.row = op'[th[t].o]]]

\* Wrong: the operation is not looked up again under the locks.
CreateUnchecked(t) ==
  /\ At(t, "create")
  /\ Begin(t)
  /\ gate' = Free /\ World

\* "A competing request can finish between the first lookup and lock acquisition."
CreateChange(t) ==
  /\ At(t, "create")
  /\ IF op[th[t].o].status = "none" THEN Begin(t) ELSE Goto(t, "rest") /\ UNCHANGED ledger
  /\ gate' = Free /\ World

\* Wrong: only another host change makes the configuration busy.
AdmitHostBesideVms(t) ==
  /\ At(t, "admit") /\ IsHost(th[t].o) /\ gate = Free
  /\ IF op[th[t].o].status = "none" /\ lock[Config] = Free
     THEN Begin(t) ELSE Goto(t, "rest") /\ UNCHANGED ledger
  /\ UNCHANGED gate /\ World

\* A host change is admitted under the gate, when no lock of the cluster is open.
AdmitHost(t) ==
  /\ At(t, "admit") /\ IsHost(th[t].o) /\ gate = Free
  /\ IF op[th[t].o].status = "none" /\ \A l \in Locks : lock[l] = Free
     THEN Begin(t) ELSE Goto(t, "rest") /\ UNCHANGED ledger
  /\ UNCHANGED gate /\ World

-----------------------------------------------------------------------------
(* Dispatch, stage by stage. *)

\* The reviewed reads are repeated under the locks.
Recheck(t) ==
  /\ At(t, "recheck")
  /\ \E pc \in {"dispatch", "block"} : Goto(t, pc)
  /\ UNCHANGED <<ledger, gate>> /\ World

\* A commit by the holder of the lease, which then reads its own write; a lost lease
\* ends the thread and leaves everything to recovery.
Commit(t, row, work, release, next) ==
  LET o == th[t].o IN
    \/ /\ Move(o, th[t].gen, th[t].row, row, work, release)
       /\ th' = [th EXCEPT ![t] = IF next = "rest" THEN Rest(t)
                                  ELSE [@ EXCEPT !.pc = next, !.row = op'[o]]]
    \/ /\ ~MayMove(o, th[t].gen, th[t].row, row, release)
       /\ th' = [th EXCEPT ![t] = Rest(t)] /\ UNCHANGED ledger

\* Also the handler's closing of a change that was admitted and never sent.
BlockUnsent(t) ==
  /\ At(t, "block")
  /\ Commit(t, [th[t].row EXCEPT !.status = "blocked"], "completed", TRUE, "rest")
  /\ UNCHANGED gate /\ World

CommitDispatching(t) ==
  /\ At(t, "dispatch")
  /\ Commit(t, [th[t].row EXCEPT !.status = IF @ = "planned" THEN "dispatching" ELSE @,
                                 !.sent = @ + 1], "leased", FALSE, "post")
  /\ UNCHANGED gate /\ World

Call(t) == Calls(th[t].o)[th[t].row.sent]
Last(t) == th[t].row.sent = Len(Calls(th[t].o))

\* An answer without the exact task reference counts as no answer.
Post(t) ==
  /\ At(t, "post")
  /\ LET landed == IF Call(t) = "sync" THEN "ok" ELSE "running"
         Sent(e) == effect' = [effect EXCEPT ![th[t].o] =
                                 Append(@, [call |-> th[t].row.sent, state |-> e])]
     IN \/ Sent(landed) /\ Goto(t, "bind")
        \/ (\E e \in {"lost", "inflight", landed} : Sent(e)) /\ Goto(t, "pause")
  /\ UNCHANGED <<ledger, gate, faults>>

\* The task reference, or the acknowledgement of a synchronous request.
BindAnswer(t) ==
  /\ At(t, "bind")
  /\ Commit(t, [th[t].row EXCEPT !.status = IF Call(t) = "sync" /\ ~Last(t) THEN @ ELSE "running",
                                 !.bound = @ + 1], "leased", FALSE,
            IF Call(t) = "task" THEN "wait" ELSE IF Last(t) THEN "observe" ELSE "staged")
  /\ UNCHANGED gate /\ World

\* What effect[o] says of the last request of o.
LatestEffect(o) == effect[o][Len(effect[o])].state

\* Wrong: the end of a task is taken for its success.
WaitForEnd(t) ==
  /\ At(t, "wait")
  /\ \/ /\ Owns(th[t].o, th[t].gen) /\ LatestEffect(th[t].o) \in {"ok", "failed"}
        /\ Goto(t, IF Kind[th[t].o] = "build" THEN "complete" ELSE "observe")
     \/ Goto(t, IF Owns(th[t].o, th[t].gen) THEN "pause" ELSE "rest")
  /\ UNCHANGED <<ledger, gate>> /\ World

\* Waiting heartbeats: a lost lease raises out of execute.
WaitForTask(t) ==
  /\ At(t, "wait")
  /\ \/ /\ Owns(th[t].o, th[t].gen) /\ LatestEffect(th[t].o) = "ok"
        /\ Goto(t, IF Kind[th[t].o] = "build" THEN "complete" ELSE "observe")
     \/ Goto(t, IF Owns(th[t].o, th[t].gen) THEN "pause" ELSE "rest")
  /\ UNCHANGED <<ledger, gate>> /\ World

\* The completion of a build stage is recorded before the next one, or verify, begins.
CommitComplete(t) ==
  /\ At(t, "complete")
  /\ Commit(t, th[t].row, "leased", FALSE, IF Last(t) THEN "verify" ELSE "staged")
  /\ UNCHANGED gate /\ World

\* What the stage left is read and recorded, then read again right before the next request.
ObserveStage(t) ==
  /\ th[t].pc \in {"staged", "restage"}
  /\ \E pc \in {IF At(t, "staged") THEN "checkpoint" ELSE "dispatch", "pause"} : Goto(t, pc)
  /\ UNCHANGED <<ledger, gate>> /\ World

CommitStage(t) ==
  /\ At(t, "checkpoint")
  /\ Commit(t, th[t].row, "leased", FALSE, "restage")
  /\ UNCHANGED gate /\ World

-----------------------------------------------------------------------------
(* Verification, by the request or by recovery; observation only. *)

\* Wrong: a request without an answer is judged by the state it left.
ReadAnyTask(t) ==
  /\ At(t, "verify")
  /\ Goto(t, IF \E i \in DOMAIN effect[th[t].o] : effect[th[t].o][i].state # "ok" THEN "pause" ELSE "observe")
  /\ UNCHANGED <<ledger, gate>> /\ World

\* Without an answer there is nothing to ask for; a running task is asked again later; a
\* stage that ended well is no permission to send the next one.
ReadTask(t) ==
  /\ At(t, "verify")
  /\ LET o == th[t].o
         row == th[t].row
         answered == row.bound = row.sent
         whole == row.bound = Len(Calls(o))
         task == Calls(o)[row.sent] = "task"
     IN \/ Goto(t, "pause") /\ UNCHANGED ledger
        \/ /\ answered /\ whole /\ (task => LatestEffect(o) = "ok")
           /\ Goto(t, "observe") /\ UNCHANGED ledger
        \/ /\ answered /\ task /\ LatestEffect(o) = "running"
           /\ Commit(t, row, "retry_wait", FALSE, "rest")
  /\ UNCHANGED gate /\ World

\* The target may match, also by somebody else's hand, or not be readable, or differ.
ObserveResult(t) ==
  /\ At(t, "observe")
  /\ \E pc \in {IF th[t].row.status = "verifying" THEN "succeed" ELSE "verifying", "pause"} : Goto(t, pc)
  /\ UNCHANGED <<ledger, gate>> /\ World

CommitVerifying(t) ==
  /\ At(t, "verifying")
  /\ Commit(t, [th[t].row EXCEPT !.status = "verifying"], "leased", FALSE, "succeed")
  /\ UNCHANGED gate /\ World

CommitSucceeded(t) ==
  /\ At(t, "succeed")
  /\ Commit(t, [th[t].row EXCEPT !.status = "succeeded"], "completed", TRUE, "rest")
  /\ UNCHANGED gate /\ World

\* Wrong: an unconfirmed change gives its locks back.
PauseAndUnlock(t) ==
  /\ At(t, "pause")
  /\ Commit(t, [th[t].row EXCEPT !.status = "needs_reconciliation"], "paused", TRUE, "rest")
  /\ UNCHANGED gate /\ World

\* The locks stay.
Pause(t) ==
  /\ At(t, "pause")
  /\ Commit(t, [th[t].row EXCEPT !.status = "needs_reconciliation"], "paused", FALSE, "rest")
  /\ UNCHANGED gate /\ World

-----------------------------------------------------------------------------
(* Recovery. *)

\* The runner takes due work; an operator may also resume paused work.
ClaimWork(t, o) ==
  /\ At(t, "idle") /\ rec[o].gen < MaxClaims
  /\ Due(o) \/ (t \in Operators /\ rec[o].status = "paused")
  /\ Claim(o)
  /\ th' = [th EXCEPT ![t] = [Fresh("load") EXCEPT !.o = o, !.gen = rec'[o].gen]]
  /\ UNCHANGED <<op, lock, gate>> /\ World

Unsent(row) == row.status = "planned" /\ row.sent = 0

Handle(t) ==
  /\ At(t, "load")
  /\ LET row == op[th[t].o] IN
       \E pc \in IF Unsent(row) THEN {"block"} ELSE {"verify", "unavailable"} :
         th' = [th EXCEPT ![t].pc = pc, ![t].row = row]
  /\ UNCHANGED <<ledger, gate>> /\ World

\* The service cannot be built (no connection): only the work is paused.
PauseUnavailable(t) ==
  /\ At(t, "unavailable")
  /\ Commit(t, th[t].row, "paused", FALSE, "rest")
  /\ UNCHANGED gate /\ World

RetryStatus(o) == IF rec[o].gen >= MaxAttempts THEN "paused" ELSE "retry_wait"

\* run_claimed absorbs what a handler raises.
AbsorbException(t) ==
  /\ t \in Observers /\ th[t].pc \in HandlerPcs
  /\ LET o == th[t].o IN Move(o, th[t].gen, op[o], op[o], RetryStatus(o), FALSE)
  /\ Goto(t, "rest")
  /\ UNCHANGED gate /\ World

-----------------------------------------------------------------------------
(* Proxmox, time and failures. *)

Becomes(o, i, e) ==
  /\ effect' = [effect EXCEPT ![o][i].state = e]
  /\ UNCHANGED <<ledger, gate, th, faults>>

EffectStarts(o) ==
  \E i \in DOMAIN effect[o] :
    /\ effect[o][i].state = "inflight"
    /\ Becomes(o, i, IF Calls(o)[effect[o][i].call] = "sync" THEN "ok" ELSE "running")

TaskEnds(o) ==
  \E i \in DOMAIN effect[o], e \in {"ok", "failed"} :
    effect[o][i].state = "running" /\ Becomes(o, i, e)

HolderActive(o) == \E t \in Threads : th[t].o = o /\ th[t].gen = rec[o].gen

LeaseExpires(o) ==
  /\ rec[o].status = "leased" /\ rec[o].live
  /\ rec' = [rec EXCEPT ![o].live = FALSE]
  /\ IF HolderActive(o) THEN faults < MaxFaults /\ faults' = faults + 1 ELSE faults' = faults
  /\ UNCHANGED <<op, lock, effect, gate, th>>

\* The database rolls back what the thread had not committed.
Crash(t) ==
  /\ th[t].pc \notin {"start", "done", "idle"}
  /\ faults < MaxFaults /\ faults' = faults + 1
  /\ Goto(t, "rest") /\ gate' = IF gate = t THEN Free ELSE gate
  /\ UNCHANGED <<ledger, effect>>

RequestStep(t) ==
  \/ \E o \in Ops : LookUp(t, o)
  \/ Review(t) \/ EnterAdmission(t) \/ InsertLock(t) \/ CreateChange(t) \/ AdmitHost(t)
  \/ Recheck(t) \/ CommitDispatching(t) \/ Post(t) \/ BindAnswer(t) \/ WaitForTask(t)
  \/ CommitComplete(t) \/ ObserveStage(t) \/ CommitStage(t)

HolderStep(t) ==
  \/ BlockUnsent(t) \/ ReadTask(t) \/ ObserveResult(t) \/ CommitVerifying(t)
  \/ CommitSucceeded(t) \/ Pause(t)

Next ==
  \/ \E t \in Requests : RequestStep(t)
  \/ \E t \in Threads : HolderStep(t) \/ Crash(t)
  \/ \E t \in Observers :
       Handle(t) \/ PauseUnavailable(t) \/ AbsorbException(t) \/ \E o \in Ops : ClaimWork(t, o)
  \/ \E o \in Ops : EffectStarts(o) \/ TaskEnds(o) \/ LeaseExpires(o)

Spec == Init /\ [][Next]_vars

-----------------------------------------------------------------------------
(* Properties. *)

Acting(o) == \E i \in DOMAIN effect[o] : effect[o][i].state \in {"inflight", "running"}

\* execute, replays and recovery together send each request of an operation at most once.
SentAtMostOnce ==
  \A o \in Ops : \A i, j \in DOMAIN effect[o] : effect[o][i].call = effect[o][j].call => i = j

\* The stages of a bridge change or an image build follow each other: a stage is sent only
\* after the one before it was, and succeeded.
StagesBuildOnSuccess ==
  \A o \in Ops : \A i \in DOMAIN effect[o] :
    effect[o][i].call > 1 =>
      \E j \in DOMAIN effect[o] : effect[o][j] = [call |-> effect[o][i].call - 1, state |-> "ok"]

\* While a request may still act on Proxmox, everything it concerns (for a clone or restore
\* the source VM too) is locked by its own operation.
EffectUnderLocks == \A o \in Ops : Acting(o) => HoldsScope(o)

\* The configuration of a node is changed, and half changed, only while no managed change of
\* a VM is under way.
HostChangeAlone ==
  \A o \in Ops : IsHost(o) /\ lock[Config] = o =>
    \A p \in Ops \ {o} : ~Acting(p) /\ rec[p].status \in {"none", "completed"}

\* Success is recorded only of an operation whose requests all finished well; "blocked" only
\* of one that sent none.
OutcomeIsProven ==
  \A o \in Ops :
    /\ op[o].status = "succeeded" =>
         \A k \in 1..Len(Calls(o)) :
           \E i \in DOMAIN effect[o] : effect[o][i] = [call |-> k, state |-> "ok"]
    /\ op[o].status = "blocked" => effect[o] = <<>>

\* Locks and recovery work are one: unfinished work holds its whole scope, and an open lock
\* always has unfinished work behind it.  Half a pair never survives an admission, a commit
\* or a crash.
LocksFollowWork ==
  \A o \in Ops :
    IF rec[o].status \in {"none", "completed"}
    THEN \A l \in Locks : lock[l] # o
    ELSE HoldsScope(o)

\* An admission all of whose missing locks are uncommitted in another one.
WaitsFor(t, u) ==
  At(t, "insert") /\ \A l \in Missing(t) : lock[l] = Free /\ l \in th[u].held
\* Two admissions over the same VMs never wait for each other's uncommitted lock rows.
NoCircularWait == \A t, u \in Requests : ~(WaitsFor(t, u) /\ WaitsFor(u, t))

\* A request that was sent and whose answer was never recorded is nobody's to close: no
\* step, of a request or of recovery, takes its operation to a terminal status or frees its
\* locks.
UnansweredStaysOpen ==
  [][\A o \in Ops : Len(effect[o]) > op[o].bound =>
       op'[o].status \notin TerminalStatuses /\ (HoldsScope(o) => HoldsScope(o)')]_vars

\* Closing is final: neither a late thread nor a replay moves a closed change.
ClosedIsFinal ==
  [][\A o \in Ops : rec[o].status = "completed" => op'[o] = op[o] /\ rec'[o] = rec[o]]_vars

=============================================================================
