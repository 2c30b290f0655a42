----------------------- MODULE ManagedChangeInvariant -----------------------
(***************************************************************************)
(* An inductive invariant of ManagedChange, in two layers.                 *)
(*                                                                         *)
(* LocksInv: an admission holds the gate for as long as it has uncommitted *)
(* lock rows, the rows it is about to commit are free, and from then on    *)
(* locks, operation and recovery work agree.                               *)
(*                                                                         *)
(* SendsInv: the requests of an operation were sent one after the other,   *)
(* each after the answer to the one before was recorded, and whatever a    *)
(* thread has read of them is still true when it acts on it.               *)
(***************************************************************************)
EXTENDS ManagedChange

Asleep == {"start", "done", "idle"}
Early == Asleep \cup {"review", "admit", "insert", "create", "load"}

-----------------------------------------------------------------------------
(* Locks. *)

ThreadWorks(t) == th[t].pc \notin Asleep => th[t].o \in Ops

\* An admission with uncommitted rows holds the gate; the rows are free, and no host change
\* is open.
Admitting(t) ==
  /\ th[t].pc \in {"insert", "create"} => ~IsHost(th[t].o)
  /\ At(t, "insert") => Missing(t) # {}
  /\ At(t, "create") => th[t].held = Scope[th[t].o]
  /\ th[t].held # {} =>
       /\ th[t].pc \in {"insert", "create"} /\ gate = t /\ lock[Config] = Free
       /\ \A l \in th[t].held : l \in Scope[th[t].o] /\ lock[l] = Free

\* Operation and recovery work appear together.
Recorded(o) == op[o].status = "none" <=> rec[o].status = "none"

Finished(o) == rec[o].status \in {"none", "completed"}

\* While a host change is open there is no other unfinished work.
HostAlone == \A o, p \in Ops : o # p /\ lock[Config] = o => Finished(p)

LocksInv ==
  /\ TypeOK
  /\ \A t \in Threads : ThreadWorks(t)
  /\ \A t \in Requests : Admitting(t)
  /\ \A o \in Ops : Recorded(o)
  /\ LocksFollowWork
  /\ HostAlone

-----------------------------------------------------------------------------
(* Requests sent. *)

\* A request that reached Proxmox; a synchronous one is done with its answer.
Landed(o, k) ==
  /\ k \in DOMAIN effect[o]
  /\ effect[o][k].state \in {"running", "ok", "failed"}
  /\ Calls(o)[k] = "sync" => effect[o][k].state = "ok"

Succeeded(o, k) == k \in DOMAIN effect[o] /\ effect[o][k].state = "ok"

\* Every request was sent, answered and ended well.
AllSucceeded(o) ==
  /\ op[o].bound = Len(Calls(o)) /\ Len(effect[o]) = Len(Calls(o))
  /\ \A k \in DOMAIN effect[o] : effect[o][k].state = "ok"

\* At most one request is recorded as about to be sent and unanswered; those before it are done.
OperationSends(o) ==
  /\ op[o].bound <= op[o].sent /\ op[o].sent <= op[o].bound + 1
  /\ op[o].bound <= Len(effect[o]) /\ Len(effect[o]) <= op[o].sent
  /\ op[o].sent <= Len(Calls(o))
  /\ \A k \in DOMAIN effect[o] :
       /\ effect[o][k].call = k
       /\ k < op[o].sent => effect[o][k].state = "ok"
       /\ k <= op[o].bound => Landed(o, k)

\* Work is completed with success or before anything was sent, and only then.
OperationEnds(o) ==
  /\ op[o].status \in {"none", "planned", "blocked"} => op[o].sent = 0
  /\ op[o].status = "succeeded" => AllSucceeded(o)
  /\ op[o].status \in TerminalStatuses => op[o].status \in {"succeeded", "blocked"}
  /\ op[o].status \in {"succeeded", "blocked"} <=> rec[o].status = "completed"

\* A stage that was answered, and ended well; more are to come.
StageDone(t) ==
  LET row == th[t].row IN row.bound = row.sent /\ row.sent > 0 /\ Succeeded(th[t].o, row.sent)

ThreadSends(t) ==
  LET o == th[t].o
      row == th[t].row
      n == Len(Calls(o))
  IN /\ th[t].pc \notin Early => row.sent <= op[o].sent /\ row.bound <= op[o].bound
     /\ th[t].pc \in {"recheck", "block"} => row.status = "planned" /\ row.sent = 0 /\ row.bound = 0
     /\ At(t, "dispatch") => row.sent = row.bound /\ row.sent < n /\ (row.sent = 0 \/ StageDone(t))
     /\ th[t].pc \in {"post", "bind"} => row.sent = op[o].sent /\ row.sent = op[o].bound + 1 /\ row.bound = op[o].bound
     /\ At(t, "post") => Len(effect[o]) = op[o].bound
     /\ At(t, "bind") => Landed(o, row.sent)
     /\ At(t, "wait") =>
          /\ row.bound = row.sent /\ row.sent > 0 /\ row.sent <= Len(effect[o])
          /\ Kind[o] # "build" => row.sent = n
     /\ At(t, "complete") => StageDone(t)
     /\ th[t].pc \in {"staged", "checkpoint", "restage"} => StageDone(t) /\ row.sent < n
     /\ th[t].pc \in {"observe", "verifying", "succeed"} => AllSucceeded(o)

\* Nobody else sends, or awaits the answer, meanwhile.
Sending(t, o) == th[t].pc \in {"post", "bind"} /\ th[t].o = o
OneSender == \A t, u \in Threads : \A o \in Ops : Sending(t, o) /\ Sending(u, o) => t = u

SendsInv ==
  /\ \A o \in Ops : OperationSends(o) /\ OperationEnds(o)
  /\ \A t \in Threads : ThreadSends(t)
  /\ OneSender

IInv == LocksInv /\ SendsInv

=============================================================================
