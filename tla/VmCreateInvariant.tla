-------------------------- MODULE VmCreateInvariant --------------------------
(***************************************************************************)
(* An inductive invariant of VmCreate.  It says of every operation what    *)
(* its rows, its request row, its mutations and its VM tell of each other  *)
(* (OperationSound), of every thread what the place it has reached tells   *)
(* of its operation (ThreadSound), and of two threads of one operation     *)
(* that they never act on the same authority (Exclusive).                  *)
(*                                                                         *)
(* Two authorities are told apart.  To dispatch, a request needs the lock  *)
(* it inserted itself and the row of an approved operation, and no         *)
(* operation is approved twice: one request at most ever sends.  To write  *)
(* to the recovery work, a thread needs its latest generation.             *)
(***************************************************************************)
EXTENDS VmCreate

Undecided == {"none", "awaiting_approval", "approved"}
Decided == {"blocked", "failed", "succeeded"}
StatusesInUse == Undecided \cup Busy \cup Decided

\* Places of a request that has not yet used its lock, or gives it back unused.
BeforeSession == {"prepare_operation", "approve", "existing", "acquire", "adopt", "prepare",
                  "release"}

\* Places of the one request that dispatched the operation, and of what it may do.
Unsent == {"arm", "validate"}
Sending == Unsent \cup {"mark", "send", "answered", "wait", "clone_rejected"}
Succeeding == {"record_running", "record_verifying", "succeed"}
DispatchedPcs == Sending \cup Succeeding
                 \cup {"tell_rejected", "close_rejected", "post_check", "interrupted",
                       "unconfirmed", "tell_unconfirmed"}
ClosingUnsent == {"no_effect", "close_unsent"}

\* A request that gave up before its first mutation may be the one that dispatched, or one that
\* adopted the lock of an approved operation; its row tells.
Dispatched(t) ==
  th[t].pc \in DispatchedPcs \/ (th[t].pc \in ClosingUnsent /\ Status(t) = "dispatching")

-----------------------------------------------------------------------------
(* Operations. *)

NothingSent(o) == \A s \in Steps : sent[o][s] = 0
NoEffect(o) == \A s \in Steps : effect[o][s] = "none"
StepBuilds(o) ==
  LET Done(s) == effect[o][s] = "ok" IN
    /\ sent[o]["resize"] > 0 => Done("clone")
    /\ sent[o]["config"] > 0 => Done("clone") /\ (sent[o]["resize"] > 0 => Done("resize"))
    /\ sent[o]["start"] > 0 => Done("config")

\* Recovery work exists from the first session on, and ends with the operation's decision; only
\* a red plan is decided without any.
RowsAgree(o) ==
  /\ op[o].status \in StatusesInUse
  /\ rec[o].status = "none" => rec[o].phase = "none"
  /\ op[o].status \in {"none", "awaiting_approval"} => rec[o].status = "none"
  /\ rec[o].status # "none" => rec[o].gen > 0
  /\ rec[o].status = "completed" => op[o].status \in Decided
  /\ op[o].status \in Decided =>
       rec[o].status = "completed" \/ (rec[o].status = "none" /\ op[o].status = "blocked")
  /\ op[o].status \in Undecided => rec[o].phase \in {"none", "pre"}

\* The lock that recovery work names was inserted by a request of the same operation; a
\* dispatched operation has one, and its request will not give it back unused.
LockKnown(o) ==
  /\ rec[o].lockId # Free => /\ rec[o].phase # "none" /\ th[rec[o].lockId].o = o
                             /\ th[rec[o].lockId].pc # "prepare_operation"
  /\ op[o].status \in Busy => LockedBy(o) /\ th[lock[VmOf[o]]].pc \notin BeforeSession

\* Each mutation at most once, in order, on success; an effect is of a mutation that was sent.
MutationsInOrder(o) ==
  /\ \A s \in Steps : sent[o][s] <= 1 /\ (sent[o][s] = 0 => effect[o][s] = "none")
  /\ StepBuilds(o)
  /\ rec[o].phase \in {"none", "pre"} => NothingSent(o)
  /\ rec[o].phase = "rejected" => NoEffect(o)
  /\ vm[VmOf[o]] = o => effect[o]["clone"] \in {"running", "ok", "failed"}

\* What is recorded of the outcome is so.
OutcomeTrue(o) ==
  /\ rec[o].success => Whole(o)
  /\ op[o].status = "succeeded" => rec[o].success /\ req[o] \in {"completed", "failed"}
  /\ req[o] = "completed" => op[o].status = "succeeded"
  /\ op[o].status \in Busy \cup {"succeeded"} => req[o] # "none"
  /\ rec[o].status = "completed" /\ op[o].status \in {"blocked", "failed"} =>
       (\A s \in Steps : effect[o][s] \notin {"inflight", "running"}) /\ vm[VmOf[o]] # o

OperationSound(o) ==
  RowsAgree(o) /\ LockKnown(o) /\ MutationsInOrder(o) /\ OutcomeTrue(o)

-----------------------------------------------------------------------------
(* Threads. *)

\* The status a thread has read, by the place it has reached; the clone comes first.
RowRead(t) ==
  /\ th[t].pc \in (BeforeSession \ {"release"}) \cup Unsent \cup {"record", "dispatch"} =>
       th[t].step = "clone"
  /\ At(t, "existing") => Status(t) \in Busy \cup {"approved", "succeeded"}
  /\ th[t].pc \in {"acquire", "adopt", "prepare", "claim_unprepared", "record", "dispatch"} =>
       Status(t) = "approved"
  /\ th[t].pc \in ClosingUnsent => Status(t) \in {"approved", "dispatching"}
  /\ th[t].pc \in Sending \cup {"tell_rejected", "close_rejected", "post_check", "record_running",
                                "unconfirmed"} => Status(t) = "dispatching"
  /\ At(t, "record_verifying") => Status(t) = "running"
  /\ At(t, "succeed") => Status(t) = "verifying"
  /\ At(t, "interrupted") => Status(t) \in {"dispatching", "running", "verifying"}

\* What a thread carries with it: a generation of the recovery work, a lock of its operation.
Remembers(t) ==
  /\ th[t].gen <= rec[th[t].o].gen
  /\ th[t].lockId # Free => /\ th[th[t].lockId].o = th[t].o
                            /\ th[th[t].lockId].pc # "prepare_operation"
  /\ At(t, "prepare_operation") => th[t].gen = 0 /\ th[t].lockId = Free

\* The authority of a thread: the lock it holds until recovery completes the work, the approved
\* operation it may dispatch, the operation it dispatched.
Authorised(t) ==
  LET o == th[t].o IN
    /\ th[t].pc \in {"prepare", "record", "dispatch"} =>
         lock[VmOf[o]] = t \/ rec[o].status = "completed"
    /\ th[t].pc \in {"record", "dispatch"} => op[o].status \in {"approved", "blocked", "failed"}
    /\ Dispatched(t) => op[o].status \notin Undecided

\* Who finds or makes an operation dispatched finds a request row.
RequestKnown(t) ==
  /\ At(t, "existing") /\ Status(t) # "approved" => req[th[t].o] # "none"
  /\ At(t, "dispatch") => req[th[t].o] # "none"

Later(s) == CASE s = "clone" -> {"resize", "config", "start"} [] s = "resize" -> {"config", "start"}
              [] s = "config" -> {"start"} [] s = "start" -> {}

\* What was sent before mutation s ended well, and nothing after it was sent.
InTurn(o, s) ==
  /\ s # "clone" => effect[o]["clone"] = "ok"
  /\ s \in {"config", "start"} => (sent[o]["resize"] > 0 => effect[o]["resize"] = "ok")
  /\ s = "start" => effect[o]["config"] = "ok"
  /\ \A n \in Later(s) : sent[o][n] = 0

\* Where the one request that sends stands between its mutations.
SendsInTurn(t) ==
  LET o == th[t].o  s == th[t].step IN
    /\ th[t].pc \in Unsent \/ (th[t].pc \in ClosingUnsent /\ Dispatched(t)) => NothingSent(o)
    /\ th[t].pc \in {"mark", "send"} => InTurn(o, s) /\ sent[o][s] = 0
    /\ th[t].pc \in {"answered", "wait"} => InTurn(o, s)
    /\ At(t, "answered") /\ s \notin TaskSteps => effect[o][s] = "ok"
    /\ At(t, "send") => /\ rec[o].phase = "sent"
                        /\ ~(rec[o].status = "completed" /\ op[o].status \in {"blocked", "failed"})
    /\ th[t].pc \in Sending => rec[o].phase # "rejected"
    /\ At(t, "clone_rejected") => NoEffect(o)
    /\ th[t].pc \in {"tell_rejected", "close_rejected"} => rec[o].phase = "rejected"
    /\ th[t].pc \in Sending \cup {"post_check", "unconfirmed", "tell_unconfirmed"} => ~rec[o].success
    /\ At(t, "post_check") => Whole(o)
    /\ th[t].pc \in Succeeding => rec[o].success

\* What a handler saw is still so when it closes the operation.
SawTruly(t) ==
  LET o == th[t].o IN
    /\ At(t, "unsent") /\ th[t].gen = rec[o].gen => rec[o].phase = "pre"
    /\ At(t, "rejected") => rec[o].phase = "rejected"
    /\ th[t].pc \in {"adopt_result", "adopt_verifying"} => rec[o].success
    /\ At(t, "close_absent") =>
         /\ vm[VmOf[o]] # o
         /\ \E s \in TaskSteps : effect[o][s] = "failed"

PlaceSound(t) == RowRead(t) /\ Authorised(t) /\ RequestKnown(t) /\ SendsInTurn(t) /\ SawTruly(t)
ThreadSound(t) == Remembers(t) /\ PlaceSound(t)

\* Two threads of one operation.
Exclusive(t, u) ==
  th[t].o = th[u].o =>
    /\ ~(Dispatched(t) /\ Dispatched(u))
    /\ th[t].gen = th[u].gen => th[t].gen = 0 \/ th[t].gen < rec[th[t].o].gen

\* An open lock names a request that has chosen its operation.
LockNamed(v) == lock[v] # Free => th[lock[v]].pc # "prepare_operation"

Sound ==
  /\ \A o \in Ops : OperationSound(o)
  /\ \A t \in Threads : ThreadSound(t)
  /\ \A t, u \in Threads : t # u => Exclusive(t, u)
  /\ \A v \in Vms : LockNamed(v)

IInv == TypeOK /\ Sound

=============================================================================
