-------------------------- MODULE VmPowerInvariant --------------------------
(***************************************************************************)
(* An inductive invariant of VmPower.  It says why a target lock protects  *)
(* a mutation: who may still dispatch, what the recorded phase proves, and *)
(* which of a thread's readings stay true while it acts on them.           *)
(*                                                                         *)
(* It comes in six layers, each inductive once the ones before it hold:    *)
(* Closed (completed recovery), Shape (what the threads' readings prove),  *)
(* Safe (locks, phases and sends), Truth (outcomes), Claims (what is said  *)
(* to have had no effect), Told (what the Job says at the completion).     *)
(***************************************************************************)
EXTENDS VmPower

StatusesInUse == {"none", "planned", "succeeded", "failed", "blocked"} \cup Uncertain

-----------------------------------------------------------------------------
(* Closed. *)

\* A request that has inserted its lock row, or given up before it: it never inserts one again.
Begun(r) == req[r].pc \notin {"start", "prepare", "acquire"}
Known(l) == l # Free => Begun(l)

\* Every lock row that is open, recorded or remembered was really inserted.
LocksKnown ==
  /\ \A v \in Vms : Known(lock[v])
  /\ \A o \in Ops : Known(rec[o].lockId)
  /\ \A r \in Requests : Known(req[r].seen)
  /\ \A w \in Observers : Known(obs[w].seen)

\* Completed recovery work names a lock row, which is closed, of a decided operation.
CompletedClosed(o) ==
  rec[o].status = "completed" =>
    op[o].status \in TerminalStatuses /\ rec[o].lockId # Free /\ lock[VmOf[o]] # rec[o].lockId

\* A request that decides has drawn a verdict, and only a decided operation is projected.
RequestVerdict(r) ==
  /\ req[r].pc \in {"commitVerifying", "artifact"} => req[r].saw \in {"succeeded", "failed", "reconcile"}
  /\ req[r].pc \in {"commitTerminal", "terminalJob", "finish"} => req[r].saw \in {"succeeded", "failed"}
ObserverVerdict(w) ==
  /\ ObserverAt(w, "bind") =>
       /\ obs[w].next \in {"closeUnsent", "project", "pauseMissing", "pauseBinding", "observeTask"}
       /\ obs[w].next = "project" => obs[w].status \in {"succeeded", "failed"}
  /\ ObserverAt(w, "project") => obs[w].status \in {"succeeded", "failed"}

Closed == /\ LocksKnown
          /\ \A o \in Ops : CompletedClosed(o)
          /\ \A r \in Requests : RequestVerdict(r)
          /\ \A w \in Observers : ObserverVerdict(w)

-----------------------------------------------------------------------------
(* Shape. *)

\* Start and Shutdown use these statuses only.
StatusInUse(o) == op[o].status \in StatusesInUse

\* A version fence that still holds proves that the status is the one that was read.
RequestShape(r) ==
  At(r, "closeClaim") =>
    /\ req[r].version <= op[OpOf[r]].version
    /\ req[r].version = op[OpOf[r]].version => op[OpOf[r]].status = "planned"

\* The same fence for an operator's claim.
ObserverShape(w) ==
  ObserverAt(w, "prepare") =>
    /\ obs[w].version <= op[obs[w].o].version
    /\ obs[w].version = op[obs[w].o].version => op[obs[w].o].status = obs[w].status

Shape == /\ \A o \in Ops : StatusInUse(o)
         /\ \A r \in Requests : RequestShape(r)
         /\ \A w \in Observers : ObserverShape(w)

-----------------------------------------------------------------------------
(* Safe. *)

\* A dispatched operation whose outcome is open has its exact lock, open recovery work, and
\* the phase "dispatched" on record; one that was never dispatched was never sent.  Recovery
\* is registered for existing operations.
OperationSafe(o) ==
  /\ op[o].status = "none" => rec[o].status = "none"
  /\ op[o].status \in Uncertain =>
       ExactLock(o) /\ rec[o].status \in Open /\ rec[o].phase = "dispatched"
  /\ op[o].status \in {"none", "planned"} => posts[o] = 0 /\ task[o] = "none"
  /\ posts[o] <= 1

\* A request before its dispatch still holds its lock unless recovery closed the operation,
\* and nobody else records a dispatch under that lock.  About to send, nothing was sent yet;
\* past the POST one was, and a rejected one started nothing.
RequestSafe(r) ==
  LET o == OpOf[r] IN
    /\ req[r].pc \in {"acquire"} \cup UnsentPcs => op[o].status # "none"
    /\ req[r].pc \in UnsentPcs => lock[VmOf[o]] = r \/ rec[o].status = "completed"
    /\ req[r].pc \in {"start", "prepare", "acquire"} \cup UnsentPcs =>
         ~(rec[o].phase = "dispatched" /\ rec[o].lockId = r)
    /\ At(r, "post") => /\ op[o].status \in Uncertain /\ rec[o].lockId = r
                        /\ posts[o] = 0 /\ task[o] = "none"
    /\ req[r].pc \in SentPcs \ {"post"} => posts[o] = 1
    /\ At(r, "commitRejected") => task[o] = "none"

\* What an observer saw of a finished task stays true; it prepares or closes only what was
\* not dispatched.
ObserverSafe(w) ==
  /\ ObserverAt(w, "observeVm") => obs[w].saw = task[obs[w].o] /\ obs[w].saw \in {"ok", "failed"}
  /\ obs[w].pc \in {"correlate", "succeed"} => task[obs[w].o] = "ok"
  /\ ObserverAt(w, "fail") => task[obs[w].o] = "failed"
  /\ ObserverAt(w, "prepare") => obs[w].status \in {"planned", "failed", "blocked"}
  /\ ObserverAt(w, "closeUnsent") \/ (ObserverAt(w, "bind") /\ obs[w].next = "closeUnsent") =>
       obs[w].status \in {"planned", "failed", "blocked"}

Safe == /\ \A o \in Ops : OperationSafe(o)
        /\ \A r \in Requests : RequestSafe(r)
        /\ \A w \in Observers : ObserverSafe(w)

-----------------------------------------------------------------------------
(* Truth. *)

\* A finished task never changes, so what a request saw of it is still true when it decides.
RequestTruth(r) ==
  /\ At(r, "look") =>
       req[r].saw = "unknown" \/ (req[r].saw \in {"ok", "failed"} /\ req[r].saw = task[OpOf[r]])
  /\ req[r].pc \in {"commitVerifying", "artifact", "commitTerminal"} =>
       /\ req[r].saw = "succeeded" => task[OpOf[r]] = "ok"
       /\ req[r].saw = "failed" => task[OpOf[r]] = "failed"

Truth == TerminalOutcomeIsTrue /\ \A r \in Requests : RequestTruth(r)

-----------------------------------------------------------------------------
(* Claims. *)

\* The steps of a request from the check under its lock to its dispatch checkpoint.
SendingPcs == {"recordPrecheck", "precheck", "client", "recordStart", "claim", "commitDispatch"}

\* A claim that nothing was sent is made of operations that no thread can dispatch any more,
\* or, where only the Job makes it, before a dispatch that will see it.
OperationClaims(o) ==
  /\ op[o].marker # Free => op[o].status \in {"failed", "blocked"} /\ posts[o] = 0
  /\ op[o].status = "blocked" => posts[o] = 0
  /\ job[o] = "blocked" => op[o].status = "blocked"
  /\ job[o] = "failed_no_effect" => posts[o] = 0 /\ op[o].status \notin Uncertain

\* A request that may still dispatch goes on only under a Job without such a claim.
RequestClaims(r) ==
  LET o == OpOf[r] IN
    /\ req[r].pc \in SendingPcs \cup {"failJob"} => posts[o] = 0
    /\ req[r].pc \in SendingPcs => job[o] # "failed_no_effect" \/ op[o].status # "planned"
    /\ At(r, "blockJob") => op[o].status = "blocked"

Claims == /\ \A o \in Ops : OperationClaims(o)
          /\ \A r \in Requests : RequestClaims(r)

-----------------------------------------------------------------------------
(* Told. *)

\* The Job that tells the outcome a request saw or an operation came to.
Telling(outcome) == IF outcome = "succeeded" THEN "completed" ELSE "failed"

\* What was sent keeps its exact lock and its recorded dispatch until its recovery completes.
OperationTold(o) ==
  posts[o] > 0 /\ rec[o].status # "completed" => ExactLock(o) /\ rec[o].phase = "dispatched"

\* The recovery row names the lock of the request that dispatched; when that one is about to finish,
\* nobody has written over the Job it recorded.
RequestTold(r) ==
  LET o == OpOf[r] IN
    /\ req[r].pc \in SentPcs => rec[o].lockId = r
    /\ At(r, "finish") /\ rec[o].status # "completed" => job[o] = Telling(req[r].saw)

\* An operator who is about to register recovery, and whose reading still holds, does it of what
\* was never sent.
ObserverTold(w) ==
  ObserverAt(w, "prepare") /\ obs[w].version = op[obs[w].o].version => posts[obs[w].o] = 0

Told == /\ \A o \in Ops : OperationTold(o)
        /\ \A r \in Requests : RequestTold(r)
        /\ \A w \in Observers : ObserverTold(w)

IInv == TypeOK /\ Closed /\ Shape /\ Safe /\ Truth /\ Claims /\ Told

=============================================================================
