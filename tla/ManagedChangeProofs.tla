------------------------ MODULE ManagedChangeProofs ------------------------
(***************************************************************************)
(* The inductive invariant of ManagedChange, for every set of operations,  *)
(* scopes, requests, runners and operators: admission and locks first, then *)
(* the requests.                                                           *)
(***************************************************************************)
EXTENDS ManagedChangeInvariant, SequenceTheorems, TLAPS

USE LedgerAssumption, ManagedChangeAssumption

-----------------------------------------------------------------------------
(***************************************************************************)
(* Admission and locks of the managed changes, proved for every set of     *)
(* operations, scopes, requests, runners and operators: types, locks that  *)
(* follow the work, host changes that are alone, and no circular wait.     *)
(*                                                                         *)
(* Almost every step moves one thread out of any admission and opens no    *)
(* lock; LocksKept is what follows from that.  The steps of an admission   *)
(* are then the only ones that need an argument about the gate.            *)
(***************************************************************************)

(* Types and rows. *)

\* A typed state, row by row.
LEMMA Rows ==
  ASSUME TypeOK
  PROVE  /\ \A o \in Ops : /\ op[o] \in OpRows /\ rec[o] \in RecRows
                           /\ effect[o] \in Seq(Effects)
         /\ \A l \in Locks : lock[l] \in Ops \cup {Free}
         /\ \A t \in Threads : /\ th[t] \in ThreadRows /\ th[t].pc \in Pcs
                               /\ th[t].o \in Ops \cup {Free} /\ th[t].gen \in Nat
                               /\ th[t].row \in OpRows /\ th[t].held \subseteq Locks
  BY DEF TypeOK, LedgerTypeOK, ThreadRows

\* A transition never forgets an operation.
LEMMA TransitionKnown ==
  ASSUME NEW from \in OperationStatuses, NEW to, MayTransition(from, to)
  PROVE  to \in OperationStatuses
  BY DEF MayTransition, AllowedTransitions, OperationStatuses, TerminalStatuses

\* Rows of rest.
LEMMA FreshType ==
  ASSUME NEW pc \in Pcs
  PROVE  Fresh(pc) \in ThreadRows /\ Fresh(pc).pc = pc /\ Fresh(pc).held = {}
  <1>1. NoRow \in OpRows
    BY DEF NoRow, OpRows
  <1>2. Fresh(pc) \in ThreadRows
    BY <1>1 DEF Fresh, ThreadRows
  <1> QED BY <1>2 DEF Fresh

\* A thread that comes to rest has a row of its type and holds no gate.
LEMMA RestType ==
  ASSUME NEW t \in Threads
  PROVE  Rest(t) \in ThreadRows /\ Rest(t).pc \in Asleep /\ Rest(t).held = {}
  <1>1. {"done", "idle"} \subseteq Pcs /\ {"done", "idle"} \subseteq Asleep
    BY DEF Pcs, Asleep
  <1> QED BY <1>1, FreshType DEF Rest

\* A thread that goes somewhere keeps the rest of its row.
LEMMA GotoType ==
  ASSUME TypeOK, NEW t \in Threads, NEW pc \in Pcs, Goto(t, pc), pc # "rest"
  PROVE  /\ th' \in [Threads -> ThreadRows]
         /\ th'[t].pc = pc /\ th'[t].o = th[t].o /\ th'[t].held = th[t].held
         /\ th'[t].row = th[t].row
         /\ \A u \in Threads \ {t} : th'[u] = th[u]
  <1>1. th' = [th EXCEPT ![t] = [@ EXCEPT !.pc = pc]]
    BY DEF Goto
  <1>2. th[t] \in ThreadRows /\ th \in [Threads -> ThreadRows]
    BY DEF TypeOK
  <1>3. [th[t] EXCEPT !.pc = pc] \in ThreadRows
    BY <1>2 DEF ThreadRows
  <1> QED BY <1>1, <1>2, <1>3 DEF ThreadRows

\* Going to rest moves that thread alone.
LEMMA GotoRest ==
  ASSUME TypeOK, NEW t \in Threads, Goto(t, "rest")
  PROVE  /\ th' \in [Threads -> ThreadRows]
         /\ th'[t].pc \in Asleep /\ th'[t].held = {}
         /\ \A u \in Threads \ {t} : th'[u] = th[u]
  <1>1. th' = [th EXCEPT ![t] = Rest(t)]
    BY DEF Goto
  <1> QED BY <1>1, RestType DEF TypeOK

-----------------------------------------------------------------------------
(* What almost every step has in common. *)

Tables ==
  /\ LedgerTypeOK'
  /\ \A o \in Ops : Recorded(o)'
  /\ LocksFollowWork'
  /\ HostAlone'
  /\ \A l \in Locks : lock[l] = Free => lock'[l] = Free

\* Thread t moves, and is not in an admission afterwards.
Leaves(t) ==
  /\ th' \in [Threads -> ThreadRows]
  /\ \A u \in Threads \ {t} : th'[u] = th[u]
  /\ th'[t].pc \notin Asleep => th'[t].o \in Ops
  /\ t \in Requests => th'[t].pc \notin {"insert", "create"} /\ th'[t].held = {}

Typed == effect' \in [Ops -> Seq(Effects)] /\ faults' \in 0..MaxFaults

\* An admission goes on while others move, if the free locks stay free and the gate stays its own.
LEMMA AdmittingKept ==
  ASSUME NEW u \in Requests, Admitting(u), th'[u] = th[u],
         \A l \in Locks : lock[l] = Free => lock'[l] = Free,
         th[u].held \subseteq Locks, gate = u => gate' = u
  PROVE  Admitting(u)'
  BY DEF Admitting, At, IsHost, Missing

\* A thread that only leaves, and at most opens its gate, keeps the locks' invariant.
LEMMA LocksKept ==
  ASSUME LocksInv, Tables, Typed, NEW t \in Threads, Leaves(t),
         gate' = gate \/ (gate = t /\ gate' = Free)
  PROVE  LocksInv'
  <1>1. TypeOK /\ Requests \subseteq Threads
    BY DEF LocksInv, Threads
  <1>2. TypeOK'
    BY <1>1 DEF TypeOK, Tables, Typed, Leaves
  <1>3. ASSUME NEW u \in Threads PROVE ThreadWorks(u)'
    <2>1. CASE u = t
      BY <2>1 DEF Leaves, ThreadWorks
    <2>2. CASE u # t
      BY <2>2 DEF Leaves, ThreadWorks, LocksInv
    <2> QED BY <2>1, <2>2
  <1>4. ASSUME NEW u \in Requests PROVE Admitting(u)'
    <2>1. CASE u = t
      BY <2>1 DEF Leaves, Admitting, At
    <2>2. CASE u # t
      <3>1. u \in Threads /\ th'[u] = th[u] /\ th[u].held \subseteq Locks
        BY <1>1, <2>2, Rows DEF Leaves
      <3>2. gate = u => gate' = u
        BY <2>2
      <3> QED BY <3>1, <3>2, AdmittingKept DEF LocksInv, Tables
    <2> QED BY <2>1, <2>2
  <1> QED BY <1>2, <1>3, <1>4 DEF LocksInv, Tables

\* A step that leaves the ledger alone keeps its tables.
LEMMA TablesRest ==
  ASSUME LocksInv, UNCHANGED ledger
  PROVE  Tables
  BY DEF LocksInv, Tables, ledger, TypeOK, LedgerTypeOK, Recorded, LocksFollowWork, HostAlone,
         HoldsScope, Finished

-----------------------------------------------------------------------------
(* Transactions. *)

\* A fenced commit completes the work with the release of its locks, or keeps both.
LEMMA MoveTables ==
  ASSUME LocksInv, NEW o \in Ops, NEW g, NEW seen, NEW row \in OpRows,
         NEW work \in WorkStatuses \ {"none"}, NEW release \in BOOLEAN,
         release <=> work = "completed",
         Move(o, g, seen, row, work, release)
  PROVE  Tables
  <1>1. /\ rec[o].status = "leased" /\ op[o] = seen /\ op[o] \in OpRows /\ rec[o] \in RecRows
        /\ op \in [Ops -> OpRows] /\ rec \in [Ops -> RecRows] /\ lock \in [Locks -> Ops \cup {Free}]
    BY DEF Move, MayMove, Owns, LocksInv, TypeOK, LedgerTypeOK
  <1>2. op[o].status # "none"
    BY <1>1 DEF LocksInv, Recorded
  <1>3. row.status # "none"
    <2>1. op[o].status \in OperationStatuses
      BY <1>1, <1>2 DEF OpRows
    <2>2. row.status \in OperationStatuses
      BY <1>1, <2>1, TransitionKnown DEF Move, MayMove
    <2> QED BY <2>2 DEF OperationStatuses, TerminalStatuses
  <1>4. Bumped(row) \in OpRows /\ Bumped(row).status = row.status
    <2> DEFINE n == row.version + 1
    <2>1. n \in Nat
      BY DEF OpRows
    <2>2. Bumped(row) = [row EXCEPT !.version = n]
      BY DEF Bumped
    <2> HIDE DEF n
    <2> QED BY <2>1, <2>2 DEF OpRows
  <1>5. /\ op' \in [Ops -> OpRows] /\ op'[o].status = row.status
        /\ \A p \in Ops \ {o} : op'[p] = op[p]
    BY <1>1, <1>4 DEF Move
  <1>6. /\ rec' \in [Ops -> RecRows] /\ rec'[o].status = work
        /\ \A p \in Ops \ {o} : rec'[p] = rec[p]
    BY <1>1 DEF Move, RecRows
  <1>7. HoldsScope(o) /\ Scope[o] # {} /\ Scope[o] \subseteq Locks
    BY <1>1 DEF LocksInv, LocksFollowWork
  <1>8. lock' \in [Locks -> Ops \cup {Free}]
    BY <1>1 DEF Move, Unlocked
  <1>9. \A l \in Locks : lock[l] # o => lock'[l] = lock[l]
    BY <1>1 DEF Move, Unlocked
  <1>10. IF release THEN \A l \in Locks : lock[l] = o => lock'[l] = Free ELSE lock' = lock
    BY <1>1 DEF Move, Unlocked
  <1>11. \A p \in Ops : Recorded(p)'
    <2>1. Recorded(o)'
      BY <1>3, <1>5, <1>6 DEF Recorded
    <2>2. \A p \in Ops \ {o} : Recorded(p)'
      BY <1>5, <1>6 DEF Recorded, LocksInv
    <2> QED BY <2>1, <2>2
  <1>12. LocksFollowWork'
    <2> SUFFICES ASSUME NEW p \in Ops
                 PROVE  (IF rec[p].status \in {"none", "completed"}
                         THEN \A l \in Locks : lock[l] # p ELSE HoldsScope(p))'
      BY DEF LocksFollowWork
    <2>1. CASE p = o
      <3>1. CASE release
        BY <1>6, <1>9, <1>10, <2>1, <3>1
      <3>2. CASE ~release
        BY <1>6, <1>7, <1>10, <2>1, <3>2 DEF HoldsScope
      <3> QED BY <3>1, <3>2
    <2>2. CASE p # o
      <3>1. rec'[p] = rec[p] /\ Scope[p] \subseteq Locks
        BY <1>6, <2>2
      <3>2. \A l \in Locks : lock'[l] = p <=> lock[l] = p
        BY <1>9, <1>10, <2>2
      <3>3. IF rec[p].status \in {"none", "completed"} THEN \A l \in Locks : lock[l] # p ELSE HoldsScope(p)
        BY DEF LocksInv, LocksFollowWork
      <3> QED BY <3>1, <3>2, <3>3 DEF HoldsScope
    <2> QED BY <2>1, <2>2
  <1>13. HostAlone'
    <2> SUFFICES ASSUME NEW p \in Ops, NEW q \in Ops, p # q, lock'[Config] = p
                 PROVE  Finished(q)'
      BY DEF HostAlone
    <2>1. lock[Config] = p
      BY <1>9, <1>10
    <2>2. Finished(q)
      BY <2>1 DEF LocksInv, HostAlone
    <2>3. q # o
      BY <1>1, <2>2 DEF Finished
    <2> QED BY <1>6, <2>2, <2>3 DEF Finished
  <1>14. \A l \in Locks : lock[l] = Free => lock'[l] = Free
    BY <1>9
  <1> QED BY <1>5, <1>6, <1>8, <1>11, <1>12, <1>13, <1>14 DEF Tables, LedgerTypeOK

\* The thread that commits goes on or rests; the one that lost its lease rests.
LEMMA CommitLocks ==
  ASSUME LocksInv, NEW t \in Threads, th[t].o \in Ops, NEW row \in OpRows,
         NEW work \in WorkStatuses \ {"none"}, NEW release \in BOOLEAN,
         release <=> work = "completed",
         NEW next \in (Pcs \ {"insert", "create"}) \cup {"rest"},
         t \in Requests => th[t].held = {},
         Commit(t, row, work, release, next)
  PROVE  Tables /\ Leaves(t)
  <1> DEFINE o == th[t].o
  <1>1. CASE /\ Move(o, th[t].gen, th[t].row, row, work, release)
             /\ th' = [th EXCEPT ![t] = IF next = "rest" THEN Rest(t)
                                        ELSE [@ EXCEPT !.pc = next, !.row = op'[o]]]
    <2>1. Tables
      BY <1>1, MoveTables
    <2>2. op'[o] \in OpRows /\ th \in [Threads -> ThreadRows] /\ th[t] \in ThreadRows
      BY <2>1 DEF Tables, LedgerTypeOK, LocksInv, TypeOK
    <2>3. CASE next = "rest"
      BY <1>1, <2>1, <2>2, <2>3, RestType DEF Leaves, Asleep
    <2>4. CASE next # "rest"
      <3> DEFINE x == [th[t] EXCEPT !.pc = next, !.row = op'[o]]
      <3>1. next \in Pcs \ {"insert", "create"}
        BY <2>4
      <3>2. x \in ThreadRows /\ x.pc = next /\ x.o = o /\ (t \in Requests => x.held = {})
        BY <2>2, <3>1 DEF ThreadRows
      <3>3. th' = [th EXCEPT ![t] = x]
        BY <1>1, <2>4
      <3> HIDE DEF x
      <3> QED BY <2>1, <2>2, <3>1, <3>2, <3>3 DEF Leaves
    <2> QED BY <2>3, <2>4
  <1>2. CASE th' = [th EXCEPT ![t] = Rest(t)] /\ UNCHANGED ledger
    BY <1>2, RestType, TablesRest DEF Leaves, LocksInv, TypeOK, Asleep
  <1> QED BY <1>1, <1>2 DEF Commit

-----------------------------------------------------------------------------
(* Steps of the threads. *)

\* Outside an admission a thread has no uncommitted rows; awake, it has an operation.
LEMMA ThreadFacts ==
  ASSUME LocksInv, NEW t \in Threads
  PROVE  /\ th[t].pc \notin Asleep => th[t].o \in Ops
         /\ t \in Requests /\ th[t].pc \notin {"insert", "create"} => th[t].held = {}
         /\ gate = t /\ t \notin Requests => FALSE
         /\ TypeOK
  BY DEF LocksInv, ThreadWorks, Admitting, TypeOK, Threads

\* A thread that is awake and not in an admission goes on, or rests.
LEMMA GotoLeaves ==
  ASSUME LocksInv, NEW t \in Threads, th[t].pc \notin Asleep \cup {"insert", "create"},
         NEW pc \in (Pcs \ {"insert", "create"}) \cup {"rest"}, Goto(t, pc)
  PROVE  Leaves(t)
  <1>1. CASE pc = "rest"
    BY <1>1, ThreadFacts, GotoRest DEF Leaves, Asleep
  <1>2. CASE pc # "rest"
    BY <1>2, ThreadFacts, GotoType DEF Leaves
  <1> QED BY <1>1, <1>2

\* A thread that rests leaves an admission too.
LEMMA RestLeaves ==
  ASSUME LocksInv, NEW t \in Threads, Goto(t, "rest")
  PROVE  Leaves(t)
  BY ThreadFacts, GotoRest DEF Leaves, Asleep

\* A step that leaves the world alone keeps its types.
LEMMA TypedRest ==
  ASSUME LocksInv, World
  PROVE  Typed
  BY DEF LocksInv, TypeOK, World, Typed

\* Steps that only move a thread.
LEMMA MovesKeep ==
  ASSUME LocksInv, NEW t \in Threads,
         \/ (t \in Requests /\ (Review(t) \/ Recheck(t) \/ WaitForTask(t) \/ ObserveStage(t)))
         \/ ObserveResult(t)
  PROVE  LocksInv'
  <1>1. \E pc \in (Pcs \ {"insert", "create"}) \cup {"rest"} : Goto(t, pc)
    BY DEF Review, Recheck, WaitForTask, ObserveStage, ObserveResult, Pcs
  <1>2. th[t].pc \notin Asleep \cup {"insert", "create"} /\ UNCHANGED <<ledger, gate>> /\ World
    BY DEF Review, Recheck, WaitForTask, ObserveStage, ObserveResult, At, Asleep
  <1>3. Leaves(t)
    BY <1>1, <1>2, GotoLeaves
  <1> QED BY <1>2, <1>3, TypedRest, TablesRest, LocksKept

\* The rows the commits write.
LEMMA CommitRows ==
  ASSUME NEW row \in OpRows
  PROVE  /\ \A s \in OperationStatuses : [row EXCEPT !.status = s] \in OpRows
         /\ \A s \in OperationStatuses \cup {"none"} :
              /\ [row EXCEPT !.status = s, !.sent = row.sent + 1] \in OpRows
              /\ [row EXCEPT !.status = s, !.bound = row.bound + 1] \in OpRows
  <1>1. row.sent + 1 \in Nat /\ row.bound + 1 \in Nat
    BY DEF OpRows
  <1> DEFINE m == row.sent + 1
             n == row.bound + 1
  <1>2. m \in Nat /\ n \in Nat
    BY <1>1
  <1> HIDE DEF m, n
  <1>3. /\ \A s \in OperationStatuses : [row EXCEPT !.status = s] \in OpRows
        /\ \A s \in OperationStatuses \cup {"none"} :
             /\ [row EXCEPT !.status = s, !.sent = m] \in OpRows
             /\ [row EXCEPT !.status = s, !.bound = n] \in OpRows
    BY <1>2 DEF OpRows
  <1> QED BY <1>3 DEF m, n

\* Steps that commit.
LEMMA CommitsKeep ==
  ASSUME LocksInv, NEW t \in Threads,
         \/ CommitDispatching(t) \/ BindAnswer(t) \/ CommitComplete(t) \/ CommitStage(t)
         \/ BlockUnsent(t) \/ CommitVerifying(t) \/ CommitSucceeded(t) \/ Pause(t)
         \/ PauseUnavailable(t)
  PROVE  LocksInv'
  <1> DEFINE row == th[t].row
  <1>1. /\ th[t].pc \notin Asleep \cup {"insert", "create"}
        /\ gate' = gate /\ World
    BY DEF CommitDispatching, BindAnswer, CommitComplete, CommitStage, BlockUnsent,
       CommitVerifying, CommitSucceeded, Pause, PauseUnavailable, At, Asleep
  <1>2. /\ th[t].o \in Ops /\ row \in OpRows /\ row.status \in OperationStatuses \cup {"none"}
        /\ t \in Requests => th[t].held = {}
    BY <1>1, ThreadFacts, Rows DEF OpRows
  <1>3. \E x \in OpRows, w \in WorkStatuses \ {"none"}, r \in BOOLEAN,
           next \in (Pcs \ {"insert", "create"}) \cup {"rest"} :
          (r <=> w = "completed") /\ Commit(t, x, w, r, next)
    <2>1. CASE CommitDispatching(t)
      <3>1. [row EXCEPT !.status = IF row.status = "planned" THEN "dispatching" ELSE row.status,
                        !.sent = row.sent + 1] \in OpRows
        BY <1>2, CommitRows DEF OperationStatuses
      <3> QED BY <2>1, <3>1 DEF CommitDispatching, WorkStatuses, Pcs
    <2>2. CASE BindAnswer(t)
      <3>1. [row EXCEPT !.status = IF Call(t) = "sync" /\ ~Last(t) THEN row.status ELSE "running",
                        !.bound = row.bound + 1] \in OpRows
        BY <1>2, CommitRows DEF OperationStatuses
      <3>2. (IF Call(t) = "task" THEN "wait" ELSE IF Last(t) THEN "observe" ELSE "staged")
              \in Pcs \ {"insert", "create"}
        BY DEF Pcs
      <3> QED BY <2>2, <3>1, <3>2 DEF BindAnswer, WorkStatuses
    <2>3. CASE CommitComplete(t)
      <3>1. (IF Last(t) THEN "verify" ELSE "staged") \in Pcs \ {"insert", "create"}
        BY DEF Pcs
      <3> QED BY <1>2, <2>3, <3>1 DEF CommitComplete, WorkStatuses
    <2>4. CASE CommitStage(t) \/ PauseUnavailable(t)
      BY <1>2, <2>4 DEF CommitStage, PauseUnavailable, WorkStatuses, Pcs
    <2>5. CASE BlockUnsent(t)
      <3>1. [row EXCEPT !.status = "blocked"] \in OpRows
        BY <1>2, CommitRows DEF OperationStatuses, TerminalStatuses
      <3> QED BY <2>5, <3>1 DEF BlockUnsent, WorkStatuses
    <2>6. CASE CommitVerifying(t)
      <3>1. [row EXCEPT !.status = "verifying"] \in OpRows
        BY <1>2, CommitRows DEF OperationStatuses
      <3> QED BY <2>6, <3>1 DEF CommitVerifying, WorkStatuses, Pcs
    <2>7. CASE CommitSucceeded(t)
      <3>1. [row EXCEPT !.status = "succeeded"] \in OpRows
        BY <1>2, CommitRows DEF OperationStatuses, TerminalStatuses
      <3> QED BY <2>7, <3>1 DEF CommitSucceeded, WorkStatuses
    <2>8. CASE Pause(t)
      <3>1. [row EXCEPT !.status = "needs_reconciliation"] \in OpRows
        BY <1>2, CommitRows DEF OperationStatuses
      <3> QED BY <2>8, <3>1 DEF Pause, WorkStatuses
    <2> QED BY <2>1, <2>2, <2>3, <2>4, <2>5, <2>6, <2>7, <2>8
  <1>4. Tables /\ Leaves(t)
    BY <1>2, <1>3, CommitLocks
  <1> QED BY <1>1, <1>4, TypedRest, LocksKept

-----------------------------------------------------------------------------
(* Steps that touch the thread tables or the effects. *)

\* The first lookup.
LEMMA LookUpKeeps ==
  ASSUME LocksInv, NEW t \in Requests, NEW o \in Ops, LookUp(t, o)
  PROVE  LocksInv'
  <1>1. t \in Threads /\ UNCHANGED <<ledger, gate>> /\ World
    BY DEF LookUp, Threads
  <1>2. CASE th' = [th EXCEPT ![t] = Rest(t)]
    <2>1. Goto(t, "rest")
      BY <1>2 DEF Goto
    <2> QED BY <1>1, <2>1, RestLeaves, TypedRest, TablesRest, LocksKept
  <1>3. CASE th' = [th EXCEPT ![t] = [@ EXCEPT !.pc = "review", !.o = o]]
    <2> DEFINE x == [th[t] EXCEPT !.pc = "review", !.o = o]
    <2>1. th \in [Threads -> ThreadRows] /\ th[t] \in ThreadRows /\ th[t].held = {}
      BY <1>1, ThreadFacts DEF TypeOK, LookUp, At
    <2>2. x \in ThreadRows /\ x.pc = "review" /\ x.o = o /\ x.held = {}
      BY <2>1 DEF ThreadRows, Pcs
    <2>3. th' = [th EXCEPT ![t] = x]
      BY <1>3
    <2> HIDE DEF x
    <2>4. Leaves(t)
      BY <1>1, <2>1, <2>2, <2>3 DEF Leaves
    <2> QED BY <1>1, <2>4, TypedRest, TablesRest, LocksKept
  <1> QED BY <1>2, <1>3 DEF LookUp

\* A request sent is appended to the requests of its operation.
LEMMA PostKeeps ==
  ASSUME LocksInv, NEW t \in Requests, Post(t)
  PROVE  LocksInv'
  <1> DEFINE o == th[t].o
  <1>1. /\ t \in Threads /\ UNCHANGED <<ledger, gate, faults>>
        /\ th[t].pc \notin Asleep \cup {"insert", "create"}
    BY DEF Post, Threads, At, Asleep
  <1>2. o \in Ops /\ TypeOK /\ th[t].row.sent \in Nat
    BY <1>1, ThreadFacts, Rows DEF OpRows
  <1>3. PICK e \in EffectStates : effect' = [effect EXCEPT ![o] = Append(@, [call |-> th[t].row.sent, state |-> e])]
    BY DEF Post, EffectStates
  <1>4. Typed
    <2>1. [call |-> th[t].row.sent, state |-> e] \in Effects /\ effect[o] \in Seq(Effects)
      BY <1>2 DEF Effects, TypeOK
    <2> DEFINE s == Append(effect[o], [call |-> th[t].row.sent, state |-> e])
    <2>2. s \in Seq(Effects)
      BY <2>1
    <2> HIDE DEF s
    <2>3. effect' = [effect EXCEPT ![o] = s]
      BY <1>3 DEF s
    <2> QED BY <1>1, <1>2, <2>2, <2>3 DEF TypeOK, Typed
  <1>5. \E pc \in Pcs \ {"insert", "create"} : Goto(t, pc)
    BY DEF Post, Pcs
  <1>6. Leaves(t)
    BY <1>1, <1>5, GotoLeaves
  <1> QED BY <1>1, <1>4, <1>6, TablesRest, LocksKept DEF ledger

\* A running task is left for later; anything else only moves the thread.
LEMMA ReadTaskKeeps ==
  ASSUME LocksInv, NEW t \in Threads, ReadTask(t)
  PROVE  LocksInv'
  <1>1. th[t].pc \notin Asleep \cup {"insert", "create"} /\ gate' = gate /\ World
    BY DEF ReadTask, At, Asleep
  <1>2. CASE \E pc \in {"pause", "observe"} : Goto(t, pc) /\ UNCHANGED ledger
    <2>1. Leaves(t)
      BY <1>1, <1>2, GotoLeaves DEF Pcs
    <2> QED BY <1>1, <1>2, <2>1, TypedRest, TablesRest, LocksKept
  <1>3. CASE Commit(t, th[t].row, "retry_wait", FALSE, "rest")
    <2>1. th[t].o \in Ops /\ th[t].row \in OpRows /\ (t \in Requests => th[t].held = {})
      BY <1>1, ThreadFacts, Rows
    <2>2. Tables /\ Leaves(t)
      BY <1>3, <2>1, CommitLocks DEF WorkStatuses
    <2> QED BY <1>1, <2>2, TypedRest, LocksKept
  <1> QED BY <1>2, <1>3 DEF ReadTask

\* The handler starts from the operation it reads.
LEMMA HandleKeeps ==
  ASSUME LocksInv, NEW t \in Observers, Handle(t)
  PROVE  LocksInv'
  <1>1. /\ t \in Threads /\ t \notin Requests /\ UNCHANGED <<ledger, gate>> /\ World
        /\ th[t].pc \notin Asleep
    BY DEF Handle, Threads, At, Asleep
  <1>2. th[t].o \in Ops /\ TypeOK
    BY <1>1, ThreadFacts
  <1>3. op[th[t].o] \in OpRows /\ th[t] \in ThreadRows /\ th \in [Threads -> ThreadRows]
    BY <1>1, <1>2, Rows DEF TypeOK
  <1>4. PICK pc \in {"block", "verify", "unavailable"} :
          th' = [th EXCEPT ![t].pc = pc, ![t].row = op[th[t].o]]
    BY DEF Handle
  <1> DEFINE x == [th[t] EXCEPT !.pc = pc, !.row = op[th[t].o]]
  <1>5. x \in ThreadRows /\ x.o = th[t].o
    BY <1>3 DEF ThreadRows, Pcs
  <1>6. th' = [th EXCEPT ![t] = x]
    BY <1>1, <1>3, <1>4
  <1> HIDE DEF x
  <1>7. Leaves(t)
    BY <1>1, <1>2, <1>3, <1>5, <1>6 DEF Leaves
  <1> QED BY <1>1, <1>7, TypedRest, TablesRest, LocksKept

\* A crash ends the thread, and its uncommitted rows with it.
LEMMA CrashKeeps ==
  ASSUME LocksInv, NEW t \in Threads, Crash(t)
  PROVE  LocksInv'
  <1>1. Leaves(t) /\ Tables
    BY RestLeaves, TablesRest DEF Crash
  <1>2. Typed
    BY DEF Crash, Typed, LocksInv, TypeOK
  <1> QED BY <1>1, <1>2, LocksKept DEF Crash

-----------------------------------------------------------------------------
(* Admission. *)

\* One thread holds the gate; without it nobody has uncommitted rows.
LEMMA OnlyTheGate ==
  ASSUME LocksInv, NEW t \in Requests, gate \in {Free, t}
  PROVE  \A u \in Requests \ {t} : th[u].held = {}
  BY DEF LocksInv, Admitting, Threads

\* A second lookup that found an operation, or found the locks busy, ends the admission.
LEMMA EndsKeep ==
  ASSUME LocksInv, NEW t \in Requests, Goto(t, "rest"), UNCHANGED ledger, World,
         gate' = gate \/ (gate = t /\ gate' = Free)
  PROVE  LocksInv'
  <1>1. t \in Threads
    BY DEF Threads
  <1> QED BY <1>1, RestLeaves, TypedRest, TablesRest, LocksKept

\* Entering admission keeps the locks' invariant.
LEMMA EnterAdmissionKeeps ==
  ASSUME LocksInv, NEW t \in Requests, EnterAdmission(t)
  PROVE  LocksInv'
  <1>1. /\ t \in Threads /\ UNCHANGED <<ledger, gate>> /\ World /\ At(t, "admit")
        /\ ~IsHost(th[t].o)
    BY DEF EnterAdmission, Threads
  <1>2. CASE Goto(t, "rest")
    BY <1>1, <1>2, EndsKeep
  <1>3. CASE Goto(t, "insert")
    <2>1. /\ th[t].held = {} /\ th[t].o \in Ops /\ TypeOK
      BY <1>1, ThreadFacts DEF At, Asleep
    <2>2. /\ th' \in [Threads -> ThreadRows] /\ th'[t].pc = "insert" /\ th'[t].o = th[t].o
          /\ th'[t].held = {} /\ \A u \in Threads \ {t} : th'[u] = th[u]
      BY <1>1, <1>3, <2>1, GotoType DEF Pcs
    <2>3. Tables /\ Typed
      BY <1>1, TablesRest, TypedRest
    <2>4. Admitting(t)'
      BY <1>1, <2>1, <2>2 DEF Admitting, At, IsHost, Missing
    <2>5. ASSUME NEW u \in Requests \ {t} PROVE Admitting(u)'
      <3>1. u \in Threads /\ th'[u] = th[u] /\ th[u].held \subseteq Locks
        BY <2>1, <2>2, Rows DEF Threads
      <3> QED BY <1>1, <2>3, <3>1, AdmittingKept DEF LocksInv, Tables
    <2>6. \A u \in Threads : ThreadWorks(u)'
      BY <2>1, <2>2 DEF LocksInv, ThreadWorks
    <2>7. TypeOK'
      BY <1>1, <2>1, <2>2, <2>3 DEF TypeOK, Typed, Tables
    <2> QED BY <2>3, <2>4, <2>5, <2>6, <2>7 DEF LocksInv, Tables
  <1> QED BY <1>2, <1>3 DEF EnterAdmission

\* A lock row is inserted under the gate, while the lock and the configuration are free.
LEMMA InsertLockKeeps ==
  ASSUME LocksInv, NEW t \in Requests, InsertLock(t)
  PROVE  LocksInv'
  <1>1. t \in Threads /\ UNCHANGED ledger /\ World /\ At(t, "insert")
    BY DEF InsertLock, Threads
  <1>2. PICK l \in NextLock(t) :
          \/ /\ lock[l] = Free /\ lock[Config] = Free /\ gate \in {Free, t}
             /\ gate' = t /\ HoldToo(t, l)
          \/ Goto(t, "rest") /\ gate' = IF gate = t THEN Free ELSE gate
    BY DEF InsertLock
  <1>3. CASE Goto(t, "rest") /\ gate' = IF gate = t THEN Free ELSE gate
    BY <1>1, <1>3, EndsKeep
  <1>4. CASE /\ lock[l] = Free /\ lock[Config] = Free /\ gate \in {Free, t}
             /\ gate' = t /\ HoldToo(t, l)
    <2>1. /\ th[t].o \in Ops /\ TypeOK /\ ~IsHost(th[t].o) /\ l \in Missing(t)
          /\ l \in Scope[th[t].o] /\ th[t].held \subseteq Scope[th[t].o]
          /\ \A k \in th[t].held : lock[k] = Free
      BY <1>1, <1>2, ThreadFacts DEF At, Asleep, LocksInv, Admitting, NextLock, Missing
    <2>2. Scope[th[t].o] \subseteq Locks /\ th[t] \in ThreadRows /\ th \in [Threads -> ThreadRows]
      BY <1>1, <2>1 DEF TypeOK
    <2> DEFINE next == IF Missing(t) = {l} THEN "create" ELSE "insert"
               x == [th[t] EXCEPT !.held = th[t].held \cup {l}, !.pc = next]
    <2>3. x \in ThreadRows /\ x.pc = next /\ x.held = th[t].held \cup {l} /\ x.o = th[t].o
      <3>1. next \in Pcs /\ th[t].held \cup {l} \in SUBSET Locks
        BY <2>1, <2>2 DEF Pcs, ThreadRows
      <3> QED BY <2>2, <3>1 DEF ThreadRows
    <2>4. th' = [th EXCEPT ![t] = x]
      BY <1>1, <1>4, <2>2 DEF HoldToo
    <2> HIDE DEF x
    <2>5. /\ th' \in [Threads -> ThreadRows] /\ th'[t] = x
          /\ \A u \in Threads \ {t} : th'[u] = th[u]
      BY <1>1, <2>2, <2>3, <2>4
    <2>6. Tables /\ Typed /\ lock' = lock
      BY <1>1, TablesRest, TypedRest DEF ledger
    <2>7. Admitting(t)'
      <3>1. /\ x.pc \in {"insert", "create"} /\ gate' = t /\ lock'[Config] = Free
            /\ \A k \in x.held : k \in Scope[x.o] /\ lock'[k] = Free
        BY <1>4, <2>1, <2>3, <2>6
      <3>2. x.pc = "create" => x.held = Scope[x.o]
        BY <2>1, <2>3 DEF Missing
      <3>3. x.pc = "insert" => Scope[x.o] \ x.held # {}
        BY <2>1, <2>3 DEF Missing
      <3> QED BY <2>1, <2>3, <2>5, <3>1, <3>2, <3>3 DEF Admitting, At, IsHost, Missing
    <2>8. ASSUME NEW u \in Requests \ {t} PROVE Admitting(u)'
      <3>1. th[u].held = {} /\ u \in Threads /\ th'[u] = th[u]
        BY <1>4, <2>5, OnlyTheGate DEF Threads
      <3> QED BY <3>1 DEF LocksInv, Admitting, At, IsHost, Missing
    <2>9. \A u \in Threads : ThreadWorks(u)'
      BY <2>1, <2>3, <2>5 DEF LocksInv, ThreadWorks
    <2>10. TypeOK'
      BY <1>4, <2>1, <2>5, <2>6 DEF TypeOK, Typed, Tables
    <2> QED BY <2>6, <2>7, <2>8, <2>9, <2>10 DEF LocksInv, Tables
  <1> QED BY <1>2, <1>3, <1>4

\* The admission transaction commits: its locks were free, nobody else has uncommitted rows,
\* and a host change finds every lock free.
LEMMA BeginKeeps ==
  ASSUME LocksInv, NEW t \in Requests, th[t].o \in Ops, Begin(t), World,
         gate \in {Free, t}, gate' \in {Free, gate}, gate = t => gate' = Free,
         lock[Config] = Free, \A l \in Scope[th[t].o] : lock[l] = Free,
         IsHost(th[t].o) => \A l \in Locks : lock[l] = Free
  PROVE  LocksInv'
  <1> DEFINE o == th[t].o
  <1>1. /\ t \in Threads /\ TypeOK /\ o \in Ops /\ th[t] \in ThreadRows
        /\ op \in [Ops -> OpRows] /\ rec \in [Ops -> RecRows] /\ lock \in [Locks -> Ops \cup {Free}]
    BY DEF Threads, LocksInv, TypeOK, LedgerTypeOK
  <1>2. /\ op' \in [Ops -> OpRows] /\ op'[o].status = "planned"
        /\ \A p \in Ops \ {o} : op'[p] = op[p]
    <2>1. [NoRow EXCEPT !.status = "planned", !.version = 1] \in OpRows
      BY DEF NoRow, OpRows, OperationStatuses
    <2> QED BY <1>1, <2>1 DEF Begin, Admitted, NoRow
  <1>3. /\ rec' \in [Ops -> RecRows] /\ rec'[o].status = "leased"
        /\ \A p \in Ops \ {o} : rec'[p] = rec[p]
    <2>1. [status |-> "leased", gen |-> 1, live |-> TRUE] \in RecRows
      BY DEF RecRows, WorkStatuses
    <2> QED BY <1>1, <2>1 DEF Begin, Admitted
  <1>4. lock' = [l \in Locks |-> IF l \in Scope[o] THEN o ELSE lock[l]]
    BY DEF Begin, Admitted
  <1>5. lock' \in [Locks -> Ops \cup {Free}] /\ Scope[o] \subseteq Locks
    BY <1>1, <1>4
  <1>6. /\ th' \in [Threads -> ThreadRows] /\ th'[t].pc = "recheck" /\ th'[t].held = {}
        /\ th'[t].o = o /\ \A u \in Threads \ {t} : th'[u] = th[u]
    <2> DEFINE x == [th[t] EXCEPT !.pc = "recheck", !.held = {}, !.gen = 1, !.row = op'[o]]
    <2>1. x \in ThreadRows /\ x.pc = "recheck" /\ x.held = {} /\ x.o = o
      BY <1>1, <1>2 DEF ThreadRows, Pcs
    <2>2. th' = [th EXCEPT ![t] = x]
      BY DEF Begin
    <2> HIDE DEF x
    <2> QED BY <1>1, <2>1, <2>2 DEF TypeOK
  <1>7. TypeOK'
    BY <1>1, <1>2, <1>3, <1>5, <1>6, TypedRest DEF TypeOK, LedgerTypeOK, Typed
  <1>8. \A u \in Threads : ThreadWorks(u)'
    BY <1>1, <1>6 DEF LocksInv, ThreadWorks
  <1>9. ASSUME NEW u \in Requests PROVE Admitting(u)'
    <2>1. CASE u = t
      BY <1>6, <2>1 DEF Admitting, At
    <2>2. CASE u # t
      <3>1. th[u].held = {} /\ th'[u] = th[u]
        BY <1>6, <2>2, OnlyTheGate DEF Threads
      <3> QED BY <3>1 DEF LocksInv, Admitting, At, IsHost, Missing
    <2> QED BY <2>1, <2>2
  <1>10. ASSUME NEW p \in Ops PROVE Recorded(p)'
    <2>1. CASE p = o
      BY <1>2, <1>3, <2>1 DEF Recorded
    <2>2. CASE p # o
      BY <1>2, <1>3, <2>2 DEF Recorded, LocksInv
    <2> QED BY <2>1, <2>2
  <1>11. LocksFollowWork'
    <2> SUFFICES ASSUME NEW p \in Ops
                 PROVE  (IF rec[p].status \in {"none", "completed"}
                         THEN \A l \in Locks : lock[l] # p ELSE HoldsScope(p))'
      BY DEF LocksFollowWork
    <2>1. CASE p = o
      BY <1>3, <1>4, <1>5, <2>1 DEF HoldsScope
    <2>2. CASE p # o
      <3>1. rec'[p] = rec[p] /\ Scope[p] \subseteq Locks /\ p # Free
        BY <1>3, <2>2
      <3>2. \A l \in Locks : lock'[l] = p <=> lock[l] = p
        BY <1>4, <2>2, <3>1
      <3>3. IF rec[p].status \in {"none", "completed"} THEN \A l \in Locks : lock[l] # p ELSE HoldsScope(p)
        BY DEF LocksInv, LocksFollowWork
      <3> QED BY <3>1, <3>2, <3>3 DEF HoldsScope
    <2> QED BY <2>1, <2>2
  <1>12. HostAlone'
    <2> SUFFICES ASSUME NEW p \in Ops, NEW q \in Ops, p # q, lock'[Config] = p
                 PROVE  Finished(q)'
      BY DEF HostAlone
    <2>1. p = o /\ IsHost(o)
      BY <1>4 DEF IsHost
    <2>2. rec'[q] = rec[q] /\ Scope[q] \subseteq Locks /\ Scope[q] # {} /\ q # Free
      BY <1>3, <2>1
    <2>3. \A l \in Locks : lock[l] = Free
      BY <2>1
    <2>4. ~HoldsScope(q)
      BY <2>2, <2>3 DEF HoldsScope
    <2>5. Finished(q)
      BY <2>4 DEF Finished, LocksInv, LocksFollowWork
    <2> QED BY <2>2, <2>5 DEF Finished
  <1> QED BY <1>7, <1>8, <1>9, <1>10, <1>11, <1>12 DEF LocksInv

\* Creating a change with its lock keeps the locks' invariant.
LEMMA CreateChangeKeeps ==
  ASSUME LocksInv, NEW t \in Requests, CreateChange(t)
  PROVE  LocksInv'
  <1>1. /\ t \in Threads /\ World /\ At(t, "create") /\ gate' = Free /\ th[t].o \in Ops
    BY ThreadFacts DEF CreateChange, Threads, At, Asleep
  <1>2. /\ th[t].held = Scope[th[t].o] /\ Scope[th[t].o] # {} /\ gate = t /\ lock[Config] = Free
        /\ ~IsHost(th[t].o) /\ \A l \in Scope[th[t].o] : lock[l] = Free
    BY <1>1 DEF LocksInv, Admitting, At
  <1>3. CASE Begin(t)
    BY <1>1, <1>2, <1>3, BeginKeeps
  <1>4. CASE Goto(t, "rest") /\ UNCHANGED ledger
    BY <1>1, <1>2, <1>4, EndsKeep
  <1> QED BY <1>3, <1>4 DEF CreateChange

\* Admitting a host operation keeps the locks' invariant.
LEMMA AdmitHostKeeps ==
  ASSUME LocksInv, NEW t \in Requests, AdmitHost(t)
  PROVE  LocksInv'
  <1>1. /\ t \in Threads /\ World /\ At(t, "admit") /\ gate = Free /\ gate' = gate /\ th[t].o \in Ops
    BY ThreadFacts DEF AdmitHost, Threads, At, Asleep
  <1>2. CASE Begin(t) /\ \A l \in Locks : lock[l] = Free
    <2>1. t # Free
      BY <1>1
    <2> QED BY <1>1, <1>2, <2>1, BeginKeeps
  <1>3. CASE Goto(t, "rest") /\ UNCHANGED ledger
    BY <1>1, <1>3, EndsKeep
  <1> QED BY <1>2, <1>3 DEF AdmitHost

-----------------------------------------------------------------------------
(* Recovery, Proxmox and time. *)

\* Unfinished work whose lease changes hands, or ends, keeps its locks.
LEMMA LeaseTables ==
  ASSUME LocksInv, NEW o \in Ops, ~Finished(o), NEW x \in RecRows,
         x.status \notin {"none", "completed"},
         rec' = [rec EXCEPT ![o] = x], UNCHANGED <<op, lock>>
  PROVE  Tables
  <1>1. /\ rec \in [Ops -> RecRows] /\ LedgerTypeOK
    BY DEF LocksInv, TypeOK, LedgerTypeOK
  <1>2. /\ rec' \in [Ops -> RecRows] /\ rec'[o] = x /\ \A p \in Ops \ {o} : rec'[p] = rec[p]
    BY <1>1
  <1>3. \A p \in Ops : Finished(p)' <=> Finished(p)
    BY <1>2 DEF Finished
  <1>4. \A p \in Ops : Recorded(p)'
    BY <1>2 DEF Recorded, LocksInv, Finished
  <1>5. LocksFollowWork'
    BY <1>3 DEF LocksInv, LocksFollowWork, Finished, HoldsScope
  <1>6. HostAlone'
    BY <1>3 DEF LocksInv, HostAlone
  <1> QED BY <1>1, <1>2, <1>4, <1>5, <1>6 DEF Tables, LedgerTypeOK

\* Claiming recovery work keeps the locks' invariant.
LEMMA ClaimWorkKeeps ==
  ASSUME LocksInv, NEW t \in Observers, NEW o \in Ops, ClaimWork(t, o)
  PROVE  LocksInv'
  <1>1. /\ t \in Threads /\ t \notin Requests /\ UNCHANGED <<op, lock, gate>> /\ World
        /\ Due(o) \/ rec[o].status = "paused"
    BY DEF ClaimWork, Threads
  <1>2. /\ rec[o] \in RecRows /\ rec[o].gen \in Nat /\ rec \in [Ops -> RecRows]
        /\ th \in [Threads -> ThreadRows]
    BY DEF LocksInv, TypeOK, LedgerTypeOK, RecRows
  <1> DEFINE g == rec[o].gen + 1
             x == [rec[o] EXCEPT !.status = "leased", !.gen = g, !.live = TRUE]
  <1>3. g \in Nat
    BY <1>2
  <1>4. rec' = [rec EXCEPT ![o] = x]
    BY <1>2 DEF ClaimWork, Claim
  <1> HIDE DEF g
  <1>5. x \in RecRows /\ x.status = "leased" /\ x.gen = g
    BY <1>2, <1>3 DEF RecRows, WorkStatuses
  <1>6. ~Finished(o)
    BY <1>1 DEF Finished, Due
  <1> HIDE DEF x
  <1>7. Tables
    BY <1>1, <1>4, <1>5, <1>6, LeaseTables
  <1>8. rec'[o].gen = g
    BY <1>2, <1>4, <1>5
  <1> DEFINE y == [Fresh("load") EXCEPT !.o = o, !.gen = g]
  <1>9. y \in ThreadRows /\ y.pc = "load" /\ y.o = o
    <2>1. Fresh("load") \in ThreadRows /\ Fresh("load").pc = "load"
      BY FreshType DEF Pcs
    <2> QED BY <1>3, <2>1 DEF ThreadRows
  <1>10. th' = [th EXCEPT ![t] = y]
    BY <1>8 DEF ClaimWork
  <1> HIDE DEF y
  <1>11. Leaves(t)
    BY <1>1, <1>2, <1>9, <1>10 DEF Leaves
  <1> QED BY <1>1, <1>7, <1>11, TypedRest, LocksKept

\* What a handler raises leaves operation and locks alone.
LEMMA AbsorbExceptionKeeps ==
  ASSUME LocksInv, NEW t \in Observers, AbsorbException(t)
  PROVE  LocksInv'
  <1>1. /\ t \in Threads /\ UNCHANGED gate /\ World /\ Goto(t, "rest") /\ th[t].pc \notin Asleep
    BY DEF AbsorbException, Threads, HandlerPcs, Asleep
  <1>2. th[t].o \in Ops /\ op[th[t].o] \in OpRows
    BY <1>1, ThreadFacts, Rows
  <1>3. RetryStatus(th[t].o) \in WorkStatuses \ {"none", "completed"}
    BY DEF RetryStatus, WorkStatuses
  <1>4. Tables
    BY <1>2, <1>3, MoveTables DEF AbsorbException
  <1> QED BY <1>1, <1>4, RestLeaves, TypedRest, LocksKept

\* A step of Proxmox or of time moves no thread.
LEMMA OutsideKeeps ==
  ASSUME LocksInv, Tables, Typed, UNCHANGED <<gate, th>>
  PROVE  LocksInv'
  <1>1. TypeOK'
    BY DEF LocksInv, TypeOK, Tables, Typed
  <1>2. \A t \in Threads : ThreadWorks(t)'
    BY DEF LocksInv, ThreadWorks
  <1>3. ASSUME NEW u \in Requests PROVE Admitting(u)'
    <2>1. u \in Threads /\ th[u].held \subseteq Locks
      BY Rows DEF LocksInv, Threads
    <2> QED BY <2>1, AdmittingKept DEF LocksInv, Tables
  <1> QED BY <1>1, <1>2, <1>3 DEF LocksInv, Tables

\* An effect that runs its course keeps the locks' invariant.
LEMMA BecomesKeeps ==
  ASSUME LocksInv, NEW o \in Ops, NEW i \in DOMAIN effect[o], NEW e \in EffectStates,
         Becomes(o, i, e)
  PROVE  LocksInv'
  <1>1. /\ effect[o] \in Seq(Effects) /\ effect \in [Ops -> Seq(Effects)] /\ effect[o][i] \in Effects
        /\ faults \in 0..MaxFaults
    BY DEF LocksInv, TypeOK
  <1> DEFINE x == [effect[o][i] EXCEPT !.state = e]
             s == [effect[o] EXCEPT ![i] = x]
  <1>2. x \in Effects
    BY <1>1 DEF Effects
  <1>3. effect' = [effect EXCEPT ![o] = s]
    BY <1>1 DEF Becomes
  <1> HIDE DEF x
  <1>4. s \in Seq(Effects)
    BY <1>1, <1>2, ExceptSeq
  <1> HIDE DEF s
  <1>5. Typed
    BY <1>1, <1>3, <1>4 DEF Becomes, Typed
  <1> QED BY <1>5, TablesRest, OutsideKeeps DEF Becomes

\* A lease that expires keeps the locks' invariant.
LEMMA LeaseExpiresKeeps ==
  ASSUME LocksInv, NEW o \in Ops, LeaseExpires(o)
  PROVE  LocksInv'
  <1>1. /\ rec[o] \in RecRows /\ rec[o].status = "leased" /\ rec \in [Ops -> RecRows]
    BY DEF LocksInv, TypeOK, LedgerTypeOK, LeaseExpires
  <1> DEFINE x == [rec[o] EXCEPT !.live = FALSE]
  <1>2. x \in RecRows /\ x.status = "leased"
    BY <1>1 DEF RecRows
  <1>3. rec' = [rec EXCEPT ![o] = x]
    BY <1>1 DEF LeaseExpires
  <1> HIDE DEF x
  <1>4. Tables
    BY <1>1, <1>2, <1>3, LeaseTables DEF LeaseExpires, Finished
  <1>5. Typed
    BY DEF LeaseExpires, Typed, LocksInv, TypeOK
  <1> QED BY <1>4, <1>5, OutsideKeeps DEF LeaseExpires

-----------------------------------------------------------------------------
(* The invariant and what it says. *)

\* Initially the locks' invariant holds.
LEMMA LocksStart == Init => LocksInv
  <1> SUFFICES ASSUME Init PROVE LocksInv
    OBVIOUS
  <1> DEFINE pc(t) == IF t \in Requests THEN "start" ELSE "idle"
  <1>1. \A t \in Threads : /\ th[t] = Fresh(pc(t)) /\ Fresh(pc(t)) \in ThreadRows
                           /\ th[t].pc \in Asleep /\ th[t].held = {}
    BY FreshType DEF Init, Pcs, Asleep
  <1>2. TypeOK
    <2>1. th \in [Threads -> ThreadRows]
      BY <1>1 DEF Init
    <2>2. LedgerTypeOK
      BY DEF Init, LedgerInit, LedgerTypeOK, NoRow, OpRows, RecRows, WorkStatuses
    <2> QED BY <2>1, <2>2 DEF Init, TypeOK
  <1>3. \A t \in Requests : Admitting(t)
    BY <1>1 DEF Admitting, At, Asleep, Threads
  <1>4. \A o \in Ops : op[o].status = "none" /\ rec[o].status = "none" /\ \A l \in Locks : lock[l] # o
    BY DEF Init, LedgerInit, NoRow
  <1>5. LocksFollowWork /\ HostAlone
    BY <1>4 DEF LocksFollowWork, HostAlone, Finished
  <1> QED BY <1>1, <1>2, <1>3, <1>4, <1>5 DEF LocksInv, ThreadWorks, Recorded

\* Every step keeps the locks' invariant.
LEMMA LocksStep == LocksInv /\ [Next]_vars => LocksInv'
  <1> SUFFICES ASSUME LocksInv, [Next]_vars PROVE LocksInv'
    OBVIOUS
  <1>1. ASSUME NEW t \in Requests, RequestStep(t) PROVE LocksInv'
    <2>1. t \in Threads
      BY DEF Threads
    <2> QED BY <1>1, <2>1, LookUpKeeps, MovesKeep, EnterAdmissionKeeps, InsertLockKeeps,
               CreateChangeKeeps, AdmitHostKeeps, CommitsKeep, PostKeeps DEF RequestStep
  <1>2. ASSUME NEW t \in Threads, HolderStep(t) PROVE LocksInv'
    BY <1>2, CommitsKeep, ReadTaskKeeps, MovesKeep DEF HolderStep
  <1>3. ASSUME NEW t \in Threads, Crash(t) PROVE LocksInv'
    BY <1>3, CrashKeeps
  <1>4. ASSUME NEW t \in Observers,
               Handle(t) \/ PauseUnavailable(t) \/ AbsorbException(t) \/ \E o \in Ops : ClaimWork(t, o)
        PROVE  LocksInv'
    BY <1>4, HandleKeeps, CommitsKeep, AbsorbExceptionKeeps, ClaimWorkKeeps DEF Threads
  <1>5. ASSUME NEW o \in Ops, EffectStarts(o) \/ TaskEnds(o) \/ LeaseExpires(o) PROVE LocksInv'
    <2>1. {"ok", "failed", "running"} \subseteq EffectStates
      BY DEF EffectStates
    <2>2. CASE EffectStarts(o)
      BY <2>1, <2>2, BecomesKeeps DEF EffectStarts
    <2>3. CASE TaskEnds(o)
      BY <2>1, <2>3, BecomesKeeps DEF TaskEnds
    <2> QED BY <1>5, <2>2, <2>3, LeaseExpiresKeeps
  <1>6. CASE UNCHANGED vars
    <2>1. Typed
      BY <1>6 DEF vars, Typed, LocksInv, TypeOK
    <2> QED BY <1>6, <2>1, TablesRest, OutsideKeeps DEF vars, ledger
  <1> QED BY <1>1, <1>2, <1>3, <1>4, <1>5, <1>6 DEF Next

\* The locks and the admissions of every reachable state agree with the work.
THEOREM LocksInvariant == Spec => []LocksInv
  BY LocksStart, LocksStep, PTL DEF Spec

\* Every variable keeps its type.
THEOREM TypeCorrect == Spec => []TypeOK
  <1>1. LocksInv => TypeOK
    BY DEF LocksInv
  <1> QED BY <1>1, LocksInvariant, PTL

\* Unfinished work holds all its locks and an open lock has unfinished work, whatever the
\* threads of execute, recovery and the operator do, and wherever they are interrupted.
THEOREM LocksAndWorkAreOne == Spec => []LocksFollowWork
  <1>1. LocksInv => LocksFollowWork
    BY DEF LocksInv
  <1> QED BY <1>1, LocksInvariant, PTL

\* Two admissions of clone, restore or migrate style never wait for each other.
THEOREM NoDeadlockInAdmission == Spec => []NoCircularWait
  <1>1. ASSUME LocksInv, NEW t \in Requests, NEW u \in Requests, WaitsFor(t, u), WaitsFor(u, t)
        PROVE  FALSE
    <2>1. Admitting(t) /\ Admitting(u)
      BY <1>1 DEF LocksInv
    <2>2. th[t].held # {} /\ th[u].held # {}
      <3>1. Missing(t) # {} /\ Missing(u) # {}
        BY <1>1, <2>1 DEF WaitsFor, Admitting
      <3>2. (\A l \in Missing(t) : l \in th[u].held) /\ (\A l \in Missing(u) : l \in th[t].held)
        BY <1>1 DEF WaitsFor
      <3> QED BY <3>1, <3>2
    <2>3. t = u
      BY <2>1, <2>2 DEF Admitting
    <2>4. \A l \in Missing(t) : l \in th[t].held
      BY <1>1, <2>3 DEF WaitsFor
    <2> QED BY <1>1, <2>1, <2>4 DEF WaitsFor, Admitting, Missing
  <1>2. LocksInv => NoCircularWait
    BY <1>1 DEF NoCircularWait
  <1> QED BY <1>2, LocksInvariant, PTL

-----------------------------------------------------------------------------
(***************************************************************************)
(* The requests of the managed changes, proved for every set of            *)
(* operations, scopes, requests, runners and operators: none is sent       *)
(* twice, a stage follows the success of the one before, what may still    *)
(* act is locked, and an outcome is what became of the requests.           *)
(*                                                                         *)
(* A step changes the requests of one operation at most, and only adds to  *)
(* what is known of them (Grows).  What another thread read therefore      *)
(* stays true; only a thread about to send, or to record an answer, needs  *)
(* the operation to stand still, and there is one of those at most.        *)
(***************************************************************************)

(* Frames. *)

\* The calls of a change: at least one, each synchronous or a task.
LEMMA CallsFacts ==
  ASSUME NEW o \in Ops
  PROVE  /\ Len(Calls(o)) \in Nat \ {0}
         /\ \A k \in 1..Len(Calls(o)) : Calls(o)[k] \in {"sync", "task"}
         /\ Kind[o] # "build" =>
              \A k \in 1..Len(Calls(o)) : Calls(o)[k] = "task" => k = Len(Calls(o))
  <1>1. Kind[o] \in Kinds
    OBVIOUS
  <1> DEFINE Good(c) == /\ Len(c) \in Nat \ {0} /\ \A k \in 1..Len(c) : c[k] \in {"sync", "task"}
                        /\ Kind[o] # "build" => \A k \in 1..Len(c) : c[k] = "task" => k = Len(c)
  <1>2. CASE Kind[o] = "task"
    <2>1. Calls(o) = <<"task">>
      BY <1>2 DEF Calls
    <2> QED BY <2>1
  <1>3. CASE Kind[o] = "sync"
    <2>1. Calls(o) = <<"sync">>
      BY <1>3 DEF Calls
    <2> QED BY <2>1
  <1>4. CASE Kind[o] = "bridge"
    <2>1. Calls(o) = <<"sync", "task">>
      BY <1>4 DEF Calls
    <2> QED BY <2>1
  <1>5. CASE Kind[o] = "build"
    <2>1. Calls(o) = <<"task", "task", "task">>
      BY <1>5 DEF Calls
    <2> QED BY <1>5, <2>1
  <1> QED BY <1>1, <1>2, <1>3, <1>4, <1>5 DEF Kinds

\* What is known of the requests of o only grows.
Grows(o) ==
  /\ op[o].sent <= op'[o].sent /\ op[o].bound <= op'[o].bound
  /\ Len(effect[o]) <= Len(effect'[o])
  /\ \A k \in Nat : (Landed(o, k) => Landed(o, k)') /\ (Succeeded(o, k) => Succeeded(o, k)')
  /\ AllSucceeded(o) => AllSucceeded(o)'

\* Nothing is sent or answered.
Still(o) ==
  /\ op'[o].sent = op[o].sent /\ op'[o].bound = op[o].bound
  /\ effect'[o] = effect[o]

\* An operation left still grows, trivially.
LEMMA StillGrows ==
  ASSUME LocksInv, NEW o \in Ops, Still(o)
  PROVE  Grows(o)
  <1>1. op[o].sent \in Nat /\ op[o].bound \in Nat /\ Len(effect[o]) \in Nat
    BY Rows DEF LocksInv, OpRows
  <1> QED BY <1>1 DEF Still, Grows, Landed, Succeeded, AllSucceeded

\* What an operation has sent is as it was when the step leaves it still.
LEMMA StillSends ==
  ASSUME NEW o \in Ops, Still(o), OperationSends(o)
  PROVE  OperationSends(o)'
  BY DEF Still, OperationSends, Landed

\* What a thread has read of an operation that grows is still true.
LEMMA ThreadKept ==
  ASSUME LocksInv, NEW u \in Threads, ThreadSends(u), th'[u] = th[u],
         LocksInv',
         \A o \in Ops : Grows(o),
         \A o \in Ops : Sending(u, o) =>
           /\ op'[o].sent = op[o].sent /\ op'[o].bound = op[o].bound
           /\ Len(effect'[o]) = Len(effect[o])
  PROVE  ThreadSends(u)'
  <1>1. CASE th[u].pc \in Asleep
    BY <1>1 DEF ThreadSends, Asleep, Early, At
  <1>2. CASE th[u].pc \notin Asleep
    <2>0. PICK o \in Ops : th[u].o = o
      BY <1>2, ThreadFacts
    <2> DEFINE row == th[u].row
    <2>1. /\ o \in Ops /\ row.sent \in Nat /\ row.bound \in Nat
          /\ op[o].sent \in Nat /\ op[o].bound \in Nat /\ Len(effect[o]) \in Nat
      BY <1>2, ThreadFacts, Rows DEF OpRows
    <2>2. /\ op'[o].sent \in Nat /\ op'[o].bound \in Nat /\ Len(effect'[o]) \in Nat
      BY <2>1 DEF LocksInv, TypeOK, LedgerTypeOK, OpRows
    <2>3. Grows(o)
      BY <2>1
    <2>4. CASE th[u].pc \in {"post", "bind"}
      <3>1. /\ op'[o].sent = op[o].sent /\ op'[o].bound = op[o].bound
            /\ Len(effect'[o]) = Len(effect[o])
        BY <2>0, <2>4 DEF Sending
      <3>2. At(u, "bind") => Landed(o, row.sent)'
        BY <2>0, <2>1, <2>3 DEF Grows, ThreadSends
      <3>3. /\ th'[u].row.sent = op'[o].sent /\ th'[u].row.sent = op'[o].bound + 1
            /\ th'[u].row.bound = op'[o].bound /\ (At(u, "post") => Len(effect'[o]) = op'[o].bound)
        BY <2>0, <2>4, <3>1 DEF ThreadSends
      <3> QED BY <2>0, <2>1, <2>2, <2>4, <3>2, <3>3 DEF ThreadSends, At, Early, Landed
    <2>5. CASE th[u].pc \notin {"post", "bind"}
      <3>1. StageDone(u) => StageDone(u)'
        BY <2>0, <2>1, <2>3 DEF Grows, StageDone, Succeeded
      <3>2. AllSucceeded(o) => AllSucceeded(o)'
        BY <2>3 DEF Grows
      <3>3. th'[u].pc \in {"observe", "verifying", "succeed"} => AllSucceeded(o)'
        BY <2>0, <3>2 DEF ThreadSends, AllSucceeded
      <3>4. th'[u].pc \notin Early => row.sent <= op'[o].sent /\ row.bound <= op'[o].bound
        BY <2>0, <2>1, <2>2, <2>3 DEF Grows, ThreadSends
      <3>5. At(u, "wait") => row.sent <= Len(effect'[o])
        BY <2>0, <2>1, <2>2, <2>3 DEF Grows, ThreadSends
      <3> QED BY <2>0, <2>5, <3>1, <3>3, <3>4, <3>5 DEF ThreadSends, At
    <2> QED BY <2>4, <2>5
  <1> QED BY <1>1, <1>2

\* What every step of a thread owes to the invariant.
LEMMA SendsKept ==
  ASSUME LocksInv, SendsInv, LocksInv', NEW t \in Threads,
         \A u \in Threads \ {t} : th'[u] = th[u],
         \A o \in Ops : Grows(o) /\ OperationSends(o)' /\ OperationEnds(o)',
         \A u \in Threads \ {t}, o \in Ops : Sending(u, o) => Still(o) /\ ~Sending(t, o)',
         ThreadSends(t)'
  PROVE  SendsInv'
  <1>1. ASSUME NEW u \in Threads PROVE ThreadSends(u)'
    <2>1. CASE u = t
      BY <2>1
    <2>2. CASE u # t
      <3>1. ThreadSends(u) /\ th'[u] = th[u]
        BY <2>2 DEF SendsInv
      <3>2. \A o \in Ops : Sending(u, o) =>
              /\ op'[o].sent = op[o].sent /\ op'[o].bound = op[o].bound
              /\ Len(effect'[o]) = Len(effect[o])
        BY <2>2 DEF Still
      <3> QED BY <3>1, <3>2, ThreadKept
    <2> QED BY <2>1, <2>2
  <1>2. OneSender'
    <2> SUFFICES ASSUME NEW u \in Threads, NEW v \in Threads, NEW o \in Ops,
                        Sending(u, o)', Sending(v, o)', u # v
                 PROVE  FALSE
      BY DEF OneSender
    <2>1. ASSUME NEW w \in Threads \ {t}, Sending(w, o)' PROVE Sending(w, o) /\ ~Sending(t, o)'
      BY <2>1 DEF Sending
    <2> QED BY <2>1 DEF SendsInv, OneSender
  <1> QED BY <1>1, <1>2 DEF SendsInv

\* Steps that send nothing, record nothing and close nothing.
LEMMA QuietSends ==
  ASSUME LocksInv, SendsInv, LocksInv', NEW t \in Threads,
         \A u \in Threads \ {t} : th'[u] = th[u],
         UNCHANGED <<op, effect>>, \A o \in Ops : OperationEnds(o)',
         th'[t].pc \notin {"post", "bind"}, ThreadSends(t)'
  PROVE  SendsInv'
  <1>1. \A o \in Ops : Still(o)
    BY DEF Still
  <1>2. \A o \in Ops : Grows(o) /\ OperationSends(o)'
    BY <1>1, StillGrows, StillSends DEF SendsInv
  <1>3. \A o \in Ops : ~Sending(t, o)'
    BY DEF Sending
  <1> QED BY <1>1, <1>2, <1>3, SendsKept

\* The same for a step that also leaves the recovery work alone.
LEMMA ReadingSends ==
  ASSUME LocksInv, SendsInv, LocksInv', NEW t \in Threads,
         \A u \in Threads \ {t} : th'[u] = th[u],
         UNCHANGED <<op, rec, effect>>, th'[t].pc \notin {"post", "bind"}, ThreadSends(t)'
  PROVE  SendsInv'
  <1>1. \A o \in Ops : OperationEnds(o)'
    BY DEF SendsInv, OperationEnds, AllSucceeded
  <1> QED BY <1>1, QuietSends

\* A thread that rests, or is at a point where it has read nothing yet.
LEMMA EarlySends ==
  ASSUME LocksInv, SendsInv, LocksInv', NEW t \in Threads,
         \A u \in Threads \ {t} : th'[u] = th[u],
         UNCHANGED <<op, rec, effect>>, th'[t].pc \in Early
  PROVE  SendsInv'
  <1>1. ThreadSends(t)' /\ th'[t].pc \notin {"post", "bind"}
    BY DEF ThreadSends, Early, Asleep, At
  <1> QED BY <1>1, ReadingSends

-----------------------------------------------------------------------------
(* Commits. *)

\* A commit that was not fenced off: the thread had read the row it replaces.
Committed(t, o, row, work, next) ==
  /\ op[o] = th[t].row /\ op[o].status \notin {"none", "succeeded", "blocked"}
  /\ op'[o].status = row.status /\ op'[o].sent = row.sent /\ op'[o].bound = row.bound
  /\ rec'[o].status = work
  /\ \A p \in Ops \ {o} : op'[p] = op[p] /\ rec'[p] = rec[p]
  /\ \A u \in Threads \ {t} : th'[u] = th[u]
  /\ IF next = "rest" THEN th'[t].pc \in Asleep
     ELSE th'[t].pc = next /\ th'[t].o = o /\ th'[t].row = op'[o]

\* A commit either loses its race and the thread rests, or writes the row and moves on.
LEMMA CommitOutcome ==
  ASSUME LocksInv, SendsInv, NEW t \in Threads, NEW o \in Ops, th[t].o = o, NEW row \in OpRows,
         NEW work, NEW release, NEW next, Commit(t, row, work, release, next)
  PROVE  \/ Goto(t, "rest") /\ UNCHANGED ledger
         \/ Committed(t, o, row, work, next)
  <1>1. CASE /\ Move(o, th[t].gen, th[t].row, row, work, release)
             /\ th' = [th EXCEPT ![t] = IF next = "rest" THEN Rest(t)
                                        ELSE [@ EXCEPT !.pc = next, !.row = op'[o]]]
    <2>1. /\ op[o] = th[t].row /\ rec[o].status = "leased"
          /\ op \in [Ops -> OpRows] /\ rec \in [Ops -> RecRows] /\ th[t] \in ThreadRows
          /\ th \in [Threads -> ThreadRows]
      BY <1>1 DEF Move, MayMove, Owns, LocksInv, TypeOK, LedgerTypeOK
    <2>2. op[o].status \notin {"none", "succeeded", "blocked"}
      BY <2>1 DEF LocksInv, Recorded, SendsInv, OperationEnds
    <2>3. /\ Bumped(row).status = row.status /\ Bumped(row).sent = row.sent
          /\ Bumped(row).bound = row.bound
      BY DEF Bumped, OpRows
    <2>4. /\ op'[o] = Bumped(row) /\ \A p \in Ops \ {o} : op'[p] = op[p]
      BY <1>1, <2>1 DEF Move
    <2>5. /\ rec'[o].status = work /\ \A p \in Ops \ {o} : rec'[p] = rec[p]
      BY <1>1, <2>1 DEF Move, RecRows
    <2>6. /\ \A u \in Threads \ {t} : th'[u] = th[u]
          /\ IF next = "rest" THEN th'[t].pc \in Asleep
             ELSE th'[t].pc = next /\ th'[t].o = o /\ th'[t].row = op'[o]
      BY <1>1, <2>1, RestType DEF ThreadRows
    <2> QED BY <2>1, <2>2, <2>3, <2>4, <2>5, <2>6 DEF Committed
  <1>2. CASE th' = [th EXCEPT ![t] = Rest(t)] /\ UNCHANGED ledger
    BY <1>2 DEF Goto
  <1> QED BY <1>1, <1>2 DEF Commit

\* A thread that rests leaves the requests alone.
LEMMA RestSends ==
  ASSUME LocksInv, SendsInv, LocksInv', NEW t \in Threads, Goto(t, "rest"),
         UNCHANGED <<op, rec, effect>>
  PROVE  SendsInv'
  BY GotoRest, EarlySends DEF LocksInv, Early

\* A commit that records no request and no answer.
LEMMA CommittedSends ==
  ASSUME LocksInv, SendsInv, LocksInv', NEW t \in Threads, NEW o \in Ops, NEW row \in OpRows,
         NEW work, NEW next, next \notin {"post", "bind"}, Committed(t, o, row, work, next),
         effect' = effect, row.sent = op[o].sent, row.bound = op[o].bound,
         row.status = op[o].status \/ row.status \in {"needs_reconciliation", "verifying", "succeeded", "blocked"},
         row.status \in {"succeeded", "blocked"} <=> work = "completed",
         row.status = "blocked" => op[o].sent = 0,
         row.status = "succeeded" => AllSucceeded(o),
         next # "rest" => ThreadSends(t)'
  PROVE  SendsInv'
  <1>1. \A p \in Ops : Still(p)
    BY DEF Committed, Still
  <1>2. \A p \in Ops : Grows(p) /\ OperationSends(p)'
    BY <1>1, StillGrows, StillSends DEF SendsInv
  <1>3. ASSUME NEW p \in Ops PROVE OperationEnds(p)'
    <2>1. CASE p = o
      <3>1. OperationEnds(o) /\ (AllSucceeded(o) <=> AllSucceeded(o)')
        BY <1>1 DEF SendsInv, AllSucceeded, Still
      <3>2. /\ op[o].status \notin {"none", "succeeded", "blocked"}
            /\ op'[o].status = row.status /\ op'[o].sent = op[o].sent /\ rec'[o].status = work
        BY DEF Committed
      <3> QED BY <2>1, <3>1, <3>2 DEF OperationEnds, TerminalStatuses
    <2>2. CASE p # o
      BY <2>2 DEF Committed, OperationEnds, SendsInv, AllSucceeded
    <2> QED BY <2>1, <2>2
  <1>4. th'[t].pc \notin {"post", "bind"} /\ ThreadSends(t)'
    BY DEF Committed, ThreadSends, Early, Asleep, At
  <1>5. \A p \in Ops : ~Sending(t, p)'
    BY <1>4 DEF Sending
  <1>6. \A u \in Threads \ {t} : th'[u] = th[u]
    BY DEF Committed
  <1> QED BY <1>1, <1>2, <1>3, <1>4, <1>5, <1>6, SendsKept

\* What is known when a thread is about to act.
LEMMA Awake ==
  ASSUME LocksInv, SendsInv, NEW t \in Threads, th[t].pc \notin Asleep
  PROVE  /\ th[t].o \in Ops /\ th[t].row \in OpRows
         /\ th[t].row.sent \in Nat /\ th[t].row.bound \in Nat
         /\ th[t].row.status \in OperationStatuses \cup {"none"}
         /\ op[th[t].o].sent \in Nat /\ op[th[t].o].bound \in Nat
         /\ effect[th[t].o] \in Seq(Effects) /\ Len(effect[th[t].o]) \in Nat
         /\ ThreadSends(t) /\ OperationSends(th[t].o) /\ OperationEnds(th[t].o)
  BY ThreadFacts, Rows DEF SendsInv, OpRows

\* A row that is written with another status.
LEMMA StatusRow ==
  ASSUME NEW row \in OpRows, NEW x \in OperationStatuses
  PROVE  /\ [row EXCEPT !.status = x] \in OpRows
         /\ [row EXCEPT !.status = x].status = x
         /\ [row EXCEPT !.status = x].sent = row.sent
         /\ [row EXCEPT !.status = x].bound = row.bound
  BY DEF OpRows

\* Commits that only write a status.
LEMMA StatusCommits ==
  ASSUME LocksInv, SendsInv, LocksInv', NEW t \in Threads,
         \/ BlockUnsent(t) \/ CommitVerifying(t) \/ CommitSucceeded(t) \/ Pause(t)
  PROVE  SendsInv'
  <1>1. th[t].pc \notin Asleep /\ effect' = effect
    BY DEF BlockUnsent, CommitVerifying, CommitSucceeded, Pause, At, Asleep, World
  <1>2. PICK o \in Ops : th[t].o = o
    BY <1>1, Awake
  <1>r. PICK row \in OpRows : th[t].row = row
    BY <1>1, Awake
  <1> DEFINE With(x) == [row EXCEPT !.status = x]
  <1>3. /\ ThreadSends(t)
        /\ \A x \in {"blocked", "verifying", "succeeded", "needs_reconciliation"} :
             /\ With(x) \in OpRows
             /\ With(x).status = x /\ With(x).sent = row.sent /\ With(x).bound = row.bound
    <2>1. {"blocked", "verifying", "succeeded", "needs_reconciliation"} \subseteq OperationStatuses
      BY DEF OperationStatuses
    <2> QED BY <1>1, <2>1, Awake, StatusRow
  <1>4. CASE Goto(t, "rest") /\ UNCHANGED ledger
    BY <1>1, <1>4, RestSends DEF ledger
  <1>w. /\ BlockUnsent(t) => Commit(t, With("blocked"), "completed", TRUE, "rest")
        /\ CommitSucceeded(t) => Commit(t, With("succeeded"), "completed", TRUE, "rest")
        /\ Pause(t) => Commit(t, With("needs_reconciliation"), "paused", FALSE, "rest")
        /\ CommitVerifying(t) => Commit(t, With("verifying"), "leased", FALSE, "succeed")
    BY <1>r DEF BlockUnsent, CommitSucceeded, Pause, CommitVerifying
  <1> HIDE DEF With
  <1>5. ASSUME NEW x \in {"blocked", "succeeded"},
               Committed(t, o, With(x), "completed", "rest"),
               x = "blocked" => row.sent = 0, x = "succeeded" => AllSucceeded(o)
        PROVE  SendsInv'
    <2>1. op[o] = row
      BY <1>r, <1>5 DEF Committed
    <2> QED BY <1>1, <1>3, <1>5, <2>1, CommittedSends
  <1>6. CASE BlockUnsent(t)
    <2>1. row.sent = 0
      BY <1>r, <1>3, <1>6 DEF BlockUnsent, ThreadSends, At
    <2>2. \/ Committed(t, o, With("blocked"), "completed", "rest")
          \/ Goto(t, "rest") /\ UNCHANGED ledger
      BY <1>2, <1>3, <1>w, <1>6, CommitOutcome
    <2> QED BY <1>4, <1>5, <2>1, <2>2
  <1>7. CASE CommitSucceeded(t)
    <2>1. AllSucceeded(o)
      BY <1>2, <1>3, <1>7 DEF CommitSucceeded, ThreadSends, At
    <2>2. \/ Committed(t, o, With("succeeded"), "completed", "rest")
          \/ Goto(t, "rest") /\ UNCHANGED ledger
      BY <1>2, <1>3, <1>w, <1>7, CommitOutcome
    <2> QED BY <1>4, <1>5, <2>1, <2>2
  <1>8. CASE Pause(t)
    <2>1. CASE Committed(t, o, With("needs_reconciliation"), "paused", "rest")
      <3>1. op[o] = row
        BY <1>r, <2>1 DEF Committed
      <3> QED BY <1>1, <1>3, <2>1, <3>1, CommittedSends
    <2>2. \/ Committed(t, o, With("needs_reconciliation"), "paused", "rest")
          \/ Goto(t, "rest") /\ UNCHANGED ledger
      BY <1>2, <1>3, <1>w, <1>8, CommitOutcome
    <2> QED BY <1>4, <2>1, <2>2
  <1>9. CASE CommitVerifying(t)
    <2>1. CASE Committed(t, o, With("verifying"), "leased", "succeed")
      <3>1. op[o] = row
        BY <1>r, <2>1 DEF Committed
      <3>2. AllSucceeded(o)
        BY <1>2, <1>3, <1>9 DEF CommitVerifying, ThreadSends, At
      <3>3. ThreadSends(t)'
        <4>1. /\ th'[t].pc = "succeed" /\ th'[t].o = o /\ th'[t].row.sent = op'[o].sent
              /\ th'[t].row.bound = op'[o].bound
          BY <2>1 DEF Committed
        <4>2. AllSucceeded(o)'
          <5>1. op'[o].bound = op[o].bound
            BY <1>3, <2>1, <3>1 DEF Committed
          <5> QED BY <1>1, <3>2, <5>1 DEF AllSucceeded
        <4>3. op'[o].sent \in Nat /\ op'[o].bound \in Nat
          BY DEF LocksInv, TypeOK, LedgerTypeOK, OpRows
        <4> QED BY <4>1, <4>2, <4>3 DEF ThreadSends, At, AllSucceeded
      <3> QED BY <1>1, <1>3, <2>1, <3>1, <3>3, CommittedSends
    <2>2. \/ Committed(t, o, With("verifying"), "leased", "succeed")
          \/ Goto(t, "rest") /\ UNCHANGED ledger
      BY <1>2, <1>3, <1>w, <1>9, CommitOutcome
    <2> QED BY <1>4, <2>1, <2>2
  <1> QED BY <1>6, <1>7, <1>8, <1>9

\* Commits that keep the row: an event, or only the recovery work.
LEMMA RowCommits ==
  ASSUME LocksInv, SendsInv, LocksInv', NEW t \in Threads,
         \/ CommitComplete(t) \/ CommitStage(t) \/ PauseUnavailable(t)
         \/ /\ At(t, "verify") /\ World
            /\ Commit(t, th[t].row, "retry_wait", FALSE, "rest")
  PROVE  SendsInv'
  <1>1. th[t].pc \notin Asleep \cup Early /\ effect' = effect
    BY DEF CommitComplete, CommitStage, PauseUnavailable, At, Asleep, Early, World
  <1>2. PICK o \in Ops : th[t].o = o
    BY <1>1, Awake
  <1>3. PICK row \in OpRows : th[t].row = row
    BY <1>1, Awake
  <1>4. ThreadSends(t) /\ OperationSends(o) /\ row.sent \in Nat /\ row.bound \in Nat
    BY <1>1, <1>2, <1>3, Awake
  <1>5. CASE Goto(t, "rest") /\ UNCHANGED ledger
    BY <1>1, <1>5, RestSends DEF ledger
  <1>6. ASSUME NEW work \in {"leased", "paused", "retry_wait"},
               NEW next \in {"verify", "staged", "restage", "rest"},
               Commit(t, row, work, FALSE, next),
               next \in {"staged", "restage"} => StageDone(t) /\ row.sent < Len(Calls(o))
        PROVE  SendsInv'
    <2>1. CASE Committed(t, o, row, work, next)
      <3>1. /\ op[o] = row /\ op'[o].sent = row.sent /\ op'[o].bound = row.bound
            /\ row.status \notin {"succeeded", "blocked"}
        BY <1>3, <2>1 DEF Committed
      <3>2. ASSUME next # "rest" PROVE ThreadSends(t)'
        <4>1. /\ th'[t].pc = next /\ th'[t].o = o /\ th'[t].row.sent = row.sent
              /\ th'[t].row.bound = row.bound
          BY <2>1, <3>1, <3>2 DEF Committed
        <4>2. StageDone(t) => StageDone(t)'
          BY <1>1, <1>2, <1>3, <4>1 DEF StageDone, Succeeded
        <4>3. row.sent <= op'[o].sent /\ row.bound <= op'[o].bound
          BY <1>4, <3>1
        <4>4. next \in {"verify", "staged", "restage"}
          BY <3>2
        <4> QED BY <1>2, <1>6, <4>1, <4>2, <4>3, <4>4 DEF ThreadSends, At
      <3> QED BY <1>1, <1>6, <2>1, <3>1, <3>2, CommittedSends
    <2>2. \/ Committed(t, o, row, work, next)
          \/ Goto(t, "rest") /\ UNCHANGED ledger
      BY <1>2, <1>6, CommitOutcome
    <2> QED BY <1>5, <2>1, <2>2
  <1>7. CASE CommitComplete(t)
    <2>1. StageDone(t) /\ row.sent <= Len(Calls(o))
      <3>1. row.sent <= op[o].sent /\ StageDone(t)
        BY <1>1, <1>2, <1>3, <1>4, <1>7 DEF ThreadSends, CommitComplete, At
      <3>2. op[o].sent <= Len(Calls(o)) /\ op[o].sent \in Nat /\ Len(Calls(o)) \in Nat
        BY <1>4, CallsFacts, Rows DEF OperationSends, LocksInv, OpRows
      <3> QED BY <1>4, <3>1, <3>2
    <2>2. Len(Calls(o)) \in Nat
      BY CallsFacts
    <2> DEFINE next == IF Last(t) THEN "verify" ELSE "staged"
    <2>3. Commit(t, row, "leased", FALSE, next)
      BY <1>3, <1>7 DEF CommitComplete
    <2>4. next = "staged" => row.sent < Len(Calls(o))
      BY <1>2, <1>3, <1>4, <2>1, <2>2 DEF Last
    <2>5. next \in {"verify", "staged"}
      OBVIOUS
    <2> HIDE DEF next
    <2> QED BY <1>6, <2>1, <2>3, <2>4, <2>5
  <1>8. CASE CommitStage(t)
    <2>1. StageDone(t) /\ row.sent < Len(Calls(o))
      BY <1>2, <1>3, <1>4, <1>8 DEF ThreadSends, CommitStage, At
    <2>2. Commit(t, row, "leased", FALSE, "restage")
      BY <1>3, <1>8 DEF CommitStage
    <2> QED BY <1>6, <2>1, <2>2
  <1>9. CASE PauseUnavailable(t)
    BY <1>3, <1>6, <1>9 DEF PauseUnavailable
  <1>10. CASE Commit(t, th[t].row, "retry_wait", FALSE, "rest")
    BY <1>3, <1>6, <1>10
  <1> QED BY <1>7, <1>8, <1>9, <1>10

\* The send is recorded: nobody else was waiting to send or to record an answer.
LEMMA DispatchingSends ==
  ASSUME LocksInv, SendsInv, LocksInv', NEW t \in Threads, CommitDispatching(t)
  PROVE  SendsInv'
  <1>1. th[t].pc = "dispatch" /\ th[t].pc \notin Asleep /\ effect' = effect
    BY DEF CommitDispatching, At, Asleep, World
  <1>2. PICK o \in Ops : th[t].o = o
    BY <1>1, Awake
  <1>3. PICK row \in OpRows : th[t].row = row
    BY <1>1, Awake
  <1>4. /\ ThreadSends(t) /\ OperationSends(o) /\ OperationEnds(o)
        /\ row.sent \in Nat /\ row.bound \in Nat /\ row.status \in OperationStatuses \cup {"none"}
        /\ Len(effect[o]) \in Nat /\ effect[o] \in Seq(Effects)
    BY <1>1, <1>2, <1>3, Awake
  <1> DEFINE n == row.sent + 1
             status == IF row.status = "planned" THEN "dispatching" ELSE row.status
             next == [row EXCEPT !.status = status, !.sent = n]
  <1>5. /\ next \in OpRows /\ next.status = status /\ next.sent = n /\ next.bound = row.bound
        /\ n \in Nat
    <2>1. n \in Nat /\ status \in OperationStatuses \cup {"none"}
      BY <1>4 DEF OperationStatuses
    <2> HIDE DEF n, status
    <2> QED BY <2>1 DEF OpRows
  <1>6. Commit(t, next, "leased", FALSE, "post")
    BY <1>3 DEF CommitDispatching
  <1> HIDE DEF next
  <1>7. CASE Goto(t, "rest") /\ UNCHANGED ledger
    BY <1>1, <1>7, RestSends DEF ledger
  <1>8. CASE Committed(t, o, next, "leased", "post")
    <2>1. /\ op[o] = row /\ op'[o].status = status /\ op'[o].sent = n /\ op'[o].bound = row.bound
          /\ row.status \notin {"none", "succeeded", "blocked"} /\ rec'[o].status = "leased"
          /\ \A p \in Ops \ {o} : op'[p] = op[p] /\ rec'[p] = rec[p]
          /\ \A u \in Threads \ {t} : th'[u] = th[u]
          /\ th'[t].pc = "post" /\ th'[t].o = o /\ th'[t].row = op'[o]
      BY <1>3, <1>5, <1>8 DEF Committed
    <2>2. /\ row.sent = row.bound /\ row.sent < Len(Calls(o))
          /\ row.sent = 0 \/ Succeeded(o, row.sent)
      BY <1>1, <1>2, <1>3, <1>4 DEF ThreadSends, StageDone, At
    <2>3. Len(effect[o]) = row.sent
      BY <1>4, <2>1, <2>2 DEF OperationSends
    <2>4. OperationSends(o)'
      <3>1. \A k \in DOMAIN effect[o] : k < n => effect[o][k].state = "ok"
        BY <1>4, <2>1, <2>2, <2>3 DEF OperationSends, Succeeded
      <3>2. \A k \in DOMAIN effect[o] : effect[o][k].call = k /\ (k <= row.bound => Landed(o, k)')
        BY <1>1, <1>4, <2>1 DEF OperationSends, Landed
      <3>3. n <= Len(Calls(o)) /\ Len(Calls(o)) \in Nat
        BY <1>4, <2>2, CallsFacts
      <3> QED BY <1>1, <1>4, <2>1, <2>2, <2>3, <3>1, <3>2, <3>3 DEF OperationSends
    <2>5. OperationEnds(o)'
      BY <1>4, <2>1 DEF OperationEnds, TerminalStatuses
    <2>6. \A p \in Ops \ {o} : Still(p)
      BY <1>1, <2>1 DEF Still
    <2>7. Grows(o)
      BY <1>1, <1>4, <2>1 DEF Grows, Landed, Succeeded, AllSucceeded
    <2>8. ASSUME NEW p \in Ops PROVE Grows(p) /\ OperationSends(p)' /\ OperationEnds(p)'
      <3>1. CASE p = o
        BY <2>4, <2>5, <2>7, <3>1
      <3>2. CASE p # o
        <4>1. OperationSends(p) /\ OperationEnds(p) /\ Still(p)
          BY <2>6, <3>2 DEF SendsInv
        <4> QED BY <1>1, <2>1, <3>2, <4>1, StillGrows, StillSends DEF OperationEnds, AllSucceeded
      <3> QED BY <3>1, <3>2
    <2>9. ASSUME NEW u \in Threads \ {t}, NEW p \in Ops, Sending(u, p)
          PROVE  Still(p) /\ ~Sending(t, p)'
      <3>1. ThreadSends(u) /\ th[u].o = p
        BY <2>9 DEF SendsInv, Sending
      <3>2. p # o
        BY <1>4, <2>1, <2>2, <2>9, <3>1 DEF ThreadSends, Sending
      <3> QED BY <2>1, <2>6, <3>2 DEF Sending
    <2>10. ThreadSends(t)'
      BY <1>1, <1>4, <2>1, <2>2, <2>3 DEF ThreadSends, At
    <2> QED BY <2>1, <2>8, <2>9, <2>10, SendsKept
  <1> QED BY <1>2, <1>5, <1>6, <1>7, <1>8, CommitOutcome

\* The answer is recorded by the one thread that awaits it.
LEMMA BindAnswerSends ==
  ASSUME LocksInv, SendsInv, LocksInv', NEW t \in Threads, BindAnswer(t)
  PROVE  SendsInv'
  <1>1. th[t].pc = "bind" /\ th[t].pc \notin Asleep /\ effect' = effect
    BY DEF BindAnswer, At, Asleep, World
  <1>2. PICK o \in Ops : th[t].o = o
    BY <1>1, Awake
  <1>3. PICK row \in OpRows : th[t].row = row
    BY <1>1, Awake
  <1>4. /\ ThreadSends(t) /\ OperationSends(o) /\ OperationEnds(o)
        /\ row.sent \in Nat /\ row.bound \in Nat /\ row.status \in OperationStatuses \cup {"none"}
        /\ Len(effect[o]) \in Nat /\ effect[o] \in Seq(Effects) /\ Sending(t, o)
    BY <1>1, <1>2, <1>3, Awake DEF Sending
  <1> DEFINE call == Calls(o)[row.sent]
             last == row.sent = Len(Calls(o))
             n == row.bound + 1
             status == IF call = "sync" /\ ~last THEN row.status ELSE "running"
             next == [row EXCEPT !.status = status, !.bound = n]
             then == IF call = "task" THEN "wait" ELSE IF last THEN "observe" ELSE "staged"
  <1>5. /\ next \in OpRows /\ next.status = status /\ next.sent = row.sent /\ next.bound = n
        /\ n \in Nat
    <2>1. n \in Nat /\ status \in OperationStatuses \cup {"none"}
      BY <1>4 DEF OperationStatuses
    <2> HIDE DEF n, status
    <2> QED BY <2>1 DEF OpRows
  <1>6. Commit(t, next, "leased", FALSE, then)
    BY <1>2, <1>3 DEF BindAnswer, Call, Last
  <1> HIDE DEF next
  <1>7. CASE Goto(t, "rest") /\ UNCHANGED ledger
    BY <1>1, <1>7, RestSends DEF ledger
  <1>8. CASE Committed(t, o, next, "leased", then)
    <2>1. /\ op[o] = row /\ op'[o].status = status /\ op'[o].sent = row.sent /\ op'[o].bound = n
          /\ row.status \notin {"none", "succeeded", "blocked"} /\ rec'[o].status = "leased"
          /\ \A p \in Ops \ {o} : op'[p] = op[p] /\ rec'[p] = rec[p]
          /\ \A u \in Threads \ {t} : th'[u] = th[u]
          /\ th'[t].pc = then /\ th'[t].o = o /\ th'[t].row = op'[o]
      BY <1>3, <1>5, <1>8 DEF Committed
    <2>2. row.sent = n /\ Landed(o, row.sent)
      BY <1>1, <1>2, <1>3, <1>4, <2>1 DEF ThreadSends, At
    <2>3. row.sent \in DOMAIN effect[o] /\ Len(effect[o]) = row.sent /\ row.sent > 0
      BY <1>4, <2>1, <2>2 DEF OperationSends, Landed
    <2>4. OperationSends(o)'
      <3>1. \A k \in DOMAIN effect[o] : k <= n => Landed(o, k)'
        BY <1>1, <1>4, <2>1, <2>2 DEF OperationSends, Landed
      <3> QED BY <1>1, <1>4, <2>1, <2>2, <2>3, <3>1 DEF OperationSends
    <2>5. OperationEnds(o)'
      BY <1>4, <2>1, <2>2, <2>3 DEF OperationEnds, TerminalStatuses
    <2>6. \A p \in Ops \ {o} : Still(p)
      BY <1>1, <2>1 DEF Still
    <2>7. Grows(o)
      <3>1. ~AllSucceeded(o)
        BY <1>4, <2>1, <2>2, CallsFacts DEF AllSucceeded, OperationSends
      <3> QED BY <1>1, <1>4, <2>1, <3>1 DEF Grows, Landed, Succeeded
    <2>8. ASSUME NEW p \in Ops PROVE Grows(p) /\ OperationSends(p)' /\ OperationEnds(p)'
      <3>1. CASE p = o
        BY <2>4, <2>5, <2>7, <3>1
      <3>2. CASE p # o
        <4>1. OperationSends(p) /\ OperationEnds(p) /\ Still(p)
          BY <2>6, <3>2 DEF SendsInv
        <4> QED BY <1>1, <2>1, <3>2, <4>1, StillGrows, StillSends DEF OperationEnds, AllSucceeded
      <3> QED BY <3>1, <3>2
    <2>9. then \notin {"post", "bind"}
      OBVIOUS
    <2>10. ASSUME NEW u \in Threads \ {t}, NEW p \in Ops, Sending(u, p)
           PROVE  Still(p) /\ ~Sending(t, p)'
      <3>1. p # o
        BY <1>4, <2>10 DEF SendsInv, OneSender
      <3> QED BY <2>1, <2>6, <2>9, <3>1 DEF Sending
    <2>11. ThreadSends(t)'
      <3>1. \A k \in DOMAIN effect[o] : k < row.sent => effect[o][k].state = "ok"
        BY <1>4, <2>1 DEF OperationSends
      <3>2. call \in {"sync", "task"} /\ Len(Calls(o)) \in Nat /\ row.sent <= Len(Calls(o))
        <4>1. Len(Calls(o)) \in Nat /\ row.sent <= Len(Calls(o))
          BY <1>4, <2>1, CallsFacts DEF OperationSends
        <4> QED BY <1>4, <2>3, <4>1, CallsFacts
      <3>3. CASE call = "task"
        <4>1. Kind[o] # "build" => row.sent = Len(Calls(o))
          BY <1>4, <2>3, <3>2, <3>3, CallsFacts
        <4> QED BY <1>1, <1>4, <2>1, <2>2, <2>3, <3>3, <4>1 DEF ThreadSends, At
      <3>4. CASE call = "sync"
        <4>1. effect[o][row.sent].state = "ok"
          BY <2>2, <3>4 DEF Landed
        <4>2. CASE last
          <5>1. AllSucceeded(o)'
            BY <1>1, <1>4, <2>1, <2>2, <2>3, <3>1, <4>1, <4>2 DEF AllSucceeded
          <5> QED BY <1>1, <1>4, <2>1, <2>2, <2>3, <3>4, <4>2, <5>1 DEF ThreadSends, At, AllSucceeded
        <4>3. CASE ~last
          <5>1. row.sent < Len(Calls(o))
            BY <1>4, <3>2, <4>3
          <5> QED BY <1>1, <1>4, <2>1, <2>2, <2>3, <3>4, <4>1, <4>3, <5>1
                  DEF ThreadSends, At, StageDone, Succeeded
        <4> QED BY <4>2, <4>3
      <3> QED BY <3>2, <3>3, <3>4
    <2> QED BY <2>1, <2>8, <2>10, <2>11, SendsKept
  <1> QED BY <1>2, <1>5, <1>6, <1>7, <1>8, CommitOutcome

-----------------------------------------------------------------------------
(* Sending. *)

\* The one thread that recorded the send sends, after all before it was answered.
LEMMA PostSends ==
  ASSUME LocksInv, SendsInv, LocksInv', NEW t \in Threads, Post(t)
  PROVE  SendsInv'
  <1>1. th[t].pc = "post" /\ th[t].pc \notin Asleep /\ UNCHANGED <<op, rec>>
    BY DEF Post, At, Asleep, ledger
  <1>2. PICK o \in Ops : th[t].o = o
    BY <1>1, Awake
  <1>3. PICK row \in OpRows : th[t].row = row
    BY <1>1, Awake
  <1>4. /\ ThreadSends(t) /\ OperationSends(o) /\ OperationEnds(o)
        /\ row.sent \in Nat /\ op[o].sent \in Nat /\ op[o].bound \in Nat
        /\ Len(effect[o]) \in Nat /\ effect[o] \in Seq(Effects) /\ Sending(t, o)
    BY <1>1, <1>2, <1>3, Awake DEF Sending
  <1> DEFINE landed == IF Calls(o)[row.sent] = "sync" THEN "ok" ELSE "running"
  <1>5. PICK e \in EffectStates, pc \in {"bind", "pause"} :
          /\ effect' = [effect EXCEPT ![o] = Append(@, [call |-> row.sent, state |-> e])]
          /\ Goto(t, pc) /\ (pc = "bind" => e = landed)
    <2>1. landed \in EffectStates /\ {"lost", "inflight", landed} \subseteq EffectStates
      BY DEF EffectStates
    <2> QED BY <1>2, <1>3, <2>1 DEF Post, Call
  <1>6. /\ \A u \in Threads \ {t} : th'[u] = th[u]
        /\ th'[t].pc = pc /\ th'[t].o = o /\ th'[t].row = row
    BY <1>2, <1>3, <1>5, GotoType DEF LocksInv, Pcs
  <1>7. /\ row.sent = op[o].sent /\ row.sent = op[o].bound + 1 /\ Len(effect[o]) = op[o].bound
        /\ row.bound = op[o].bound
    BY <1>1, <1>2, <1>3, <1>4 DEF ThreadSends, At
  <1> DEFINE x == [call |-> row.sent, state |-> e]
             s == Append(effect[o], x)
  <1>8. x \in Effects /\ x.call = row.sent /\ x.state = e
    BY <1>4 DEF Effects
  <1> HIDE DEF x
  <1>9. /\ s \in Seq(Effects) /\ Len(s) = row.sent
        /\ \A k \in 1..op[o].bound : s[k] = effect[o][k]
        /\ s[row.sent] = x
    BY <1>4, <1>7, <1>8, AppendProperties
  <1>10. effect'[o] = s /\ \A p \in Ops \ {o} : effect'[p] = effect[p]
    BY <1>5 DEF LocksInv, TypeOK, x
  <1> HIDE DEF s
  <1>11. OperationSends(o)'
    <2>1. \A k \in 1..row.sent : k \in 1..op[o].bound \/ k = row.sent
      BY <1>4, <1>7
    <2>2. \A k \in 1..row.sent : s[k].call = k /\ (k < row.sent => s[k].state = "ok")
      <3>1. \A k \in 1..op[o].bound : effect[o][k].call = k /\ effect[o][k].state = "ok"
        <4>1. DOMAIN effect[o] = 1..op[o].bound /\ op[o].sent = op[o].bound + 1
          BY <1>4, <1>7
        <4>2. \A k \in 1..op[o].bound : k < op[o].sent
          BY <1>4, <4>1
        <4>3. \A k \in DOMAIN effect[o] : effect[o][k].call = k /\ (k < op[o].sent => effect[o][k].state = "ok")
          BY <1>4 DEF OperationSends
        <4> QED BY <4>1, <4>2, <4>3
      <3> SUFFICES ASSUME NEW k \in 1..row.sent
                   PROVE  s[k].call = k /\ (k < row.sent => s[k].state = "ok")
        OBVIOUS
      <3>2. CASE k \in 1..op[o].bound
        BY <1>9, <3>1, <3>2
      <3>3. CASE k = row.sent
        BY <1>4, <1>8, <1>9, <3>3
      <3> QED BY <2>1, <3>2, <3>3
    <2>3. \A k \in 1..op[o].bound : Landed(o, k)'
      <3> SUFFICES ASSUME NEW k \in 1..op[o].bound PROVE Landed(o, k)'
        OBVIOUS
      <3>1. Landed(o, k)
        BY <1>4, <1>7 DEF OperationSends
      <3>2. k \in 1..row.sent
        BY <1>4, <1>7
      <3> QED BY <1>9, <1>10, <3>1, <3>2 DEF Landed
    <2>4. DOMAIN s = 1..row.sent
      BY <1>9
    <2>5. \A k \in 1..row.sent : k <= op[o].bound => k \in 1..op[o].bound
      BY <1>4
    <2> QED BY <1>1, <1>4, <1>7, <1>9, <1>10, <2>2, <2>3, <2>4, <2>5 DEF OperationSends
  <1>12. ~AllSucceeded(o)
    BY <1>4, <1>7, CallsFacts DEF AllSucceeded, OperationSends
  <1>13. OperationEnds(o)'
    BY <1>1, <1>4, <1>12 DEF OperationEnds, TerminalStatuses
  <1>14. Grows(o)
    <2>1. ASSUME NEW k \in Nat, k \in DOMAIN effect[o]
          PROVE  k \in DOMAIN effect'[o] /\ effect'[o][k] = effect[o][k]
      BY <1>4, <1>7, <1>9, <1>10, <2>1
    <2> QED BY <1>1, <1>4, <1>7, <1>9, <1>10, <1>12, <2>1 DEF Grows, Landed, Succeeded
  <1>15. \A p \in Ops \ {o} : Still(p)
    BY <1>1, <1>10 DEF Still
  <1>16. ASSUME NEW p \in Ops PROVE Grows(p) /\ OperationSends(p)' /\ OperationEnds(p)'
    <2>1. CASE p = o
      BY <1>11, <1>13, <1>14, <2>1
    <2>2. CASE p # o
      <3>1. OperationSends(p) /\ OperationEnds(p) /\ Still(p)
        BY <1>15, <2>2 DEF SendsInv
      <3> QED BY <1>1, <1>10, <2>2, <3>1, StillGrows, StillSends DEF OperationEnds, AllSucceeded
    <2> QED BY <2>1, <2>2
  <1>17. ASSUME NEW u \in Threads \ {t}, NEW p \in Ops, Sending(u, p)
         PROVE  Still(p) /\ ~Sending(t, p)'
    <2>1. p # o
      BY <1>4, <1>17 DEF SendsInv, OneSender
    <2> QED BY <1>6, <1>15, <2>1 DEF Sending
  <1>18. ThreadSends(t)'
    <2>1. pc = "bind" => Landed(o, row.sent)'
      <3> SUFFICES ASSUME pc = "bind" PROVE Landed(o, row.sent)'
        OBVIOUS
      <3>1. effect'[o][row.sent].state = landed
        BY <1>5, <1>8, <1>9, <1>10
      <3>2. row.sent \in DOMAIN effect'[o]
        BY <1>4, <1>7, <1>9, <1>10
      <3> QED BY <3>1, <3>2 DEF Landed
    <2> QED BY <1>1, <1>4, <1>6, <1>7, <2>1 DEF ThreadSends, At, Landed
  <1> QED BY <1>6, <1>16, <1>17, <1>18, SendsKept

-----------------------------------------------------------------------------
(* Steps that read. *)

\* A thread that goes on from what it has read to a point that asks for no more.
LEMMA MovingSends ==
  ASSUME LocksInv, SendsInv, LocksInv', NEW t \in Threads, NEW o \in Ops, th[t].o = o,
         NEW pc \in Pcs, pc \notin {"rest", "post", "bind"}, Goto(t, pc),
         UNCHANGED <<op, rec, effect>>, ThreadSends(t), th[t].pc \notin Early,
         pc \in {"recheck", "block"} =>
           th[t].row.status = "planned" /\ th[t].row.sent = 0 /\ th[t].row.bound = 0,
         pc = "dispatch" => /\ th[t].row.sent = th[t].row.bound /\ th[t].row.sent < Len(Calls(o))
                            /\ th[t].row.sent = 0 \/ StageDone(t),
         pc # "wait",
         pc \in {"complete", "staged", "checkpoint", "restage"} => StageDone(t),
         pc \in {"staged", "checkpoint", "restage"} => th[t].row.sent < Len(Calls(o)),
         pc \in {"observe", "verifying", "succeed"} => AllSucceeded(o)
  PROVE  SendsInv'
  <1>1. /\ th'[t].pc = pc /\ th'[t].o = o /\ th'[t].row = th[t].row
        /\ \A u \in Threads \ {t} : th'[u] = th[u]
    BY GotoType DEF LocksInv
  <1>2. StageDone(t) => StageDone(t)'
    BY <1>1 DEF StageDone, Succeeded
  <1>3. AllSucceeded(o) => AllSucceeded(th[t].o)'
    BY <1>1 DEF AllSucceeded
  <1>4. ThreadSends(t)'
    BY <1>1, <1>2, <1>3 DEF ThreadSends, At
  <1> QED BY <1>1, <1>4, ReadingSends

\* What the latest request ended as, every request before it having ended well.
LEMMA LatestIsLast ==
  ASSUME LocksInv, NEW o \in Ops, OperationSends(o), NEW k \in Nat \ {0}, k <= Len(effect[o]),
         k <= op[o].bound, LatestEffect(o) = "ok"
  PROVE  Succeeded(o, k) /\ (k = Len(Calls(o)) => AllSucceeded(o))
  <1>1. /\ effect[o] \in Seq(Effects) /\ Len(effect[o]) \in Nat /\ op[o].sent \in Nat
        /\ op[o].bound \in Nat /\ Len(Calls(o)) \in Nat
    BY Rows, CallsFacts DEF LocksInv, OpRows
  <1>2. ASSUME NEW i \in DOMAIN effect[o] PROVE effect[o][i].state = "ok"
    <2>1. CASE i = Len(effect[o])
      BY <2>1 DEF LatestEffect
    <2>2. CASE i < Len(effect[o])
      BY <1>1, <2>2 DEF OperationSends
    <2> QED BY <1>1, <2>1, <2>2
  <1>3. k = Len(Calls(o)) => Len(effect[o]) = Len(Calls(o)) /\ op[o].bound = Len(Calls(o))
    BY <1>1 DEF OperationSends
  <1> QED BY <1>1, <1>2, <1>3 DEF Succeeded, AllSucceeded

\* A step that only reads and moves on keeps the sends' invariant.
LEMMA MovesSend ==
  ASSUME LocksInv, SendsInv, LocksInv', NEW t \in Threads,
         Recheck(t) \/ WaitForTask(t) \/ ObserveStage(t) \/ ObserveResult(t)
  PROVE  SendsInv'
  <1>1. /\ th[t].pc \in Pcs \ Early /\ th[t].pc \notin Asleep /\ UNCHANGED <<op, rec, effect>>
    BY DEF Recheck, WaitForTask, ObserveStage, ObserveResult, At, Early, Asleep, Pcs, World, ledger
  <1>2. PICK o \in Ops : th[t].o = o
    BY <1>1, Awake
  <1>3. PICK row \in OpRows : th[t].row = row
    BY <1>1, Awake
  <1>4. /\ ThreadSends(t) /\ OperationSends(o) /\ row.sent \in Nat /\ op[o].sent \in Nat
        /\ Len(Calls(o)) \in Nat \ {0} /\ Len(effect[o]) \in Nat
    BY <1>1, <1>2, <1>3, Awake, CallsFacts
  <1>5. CASE Recheck(t)
    <2>1. row.status = "planned" /\ row.sent = 0 /\ row.bound = 0
      BY <1>3, <1>4, <1>5 DEF ThreadSends, Recheck, At
    <2>2. PICK pc \in {"dispatch", "block"} : Goto(t, pc)
      BY <1>5 DEF Recheck
    <2>3. 0 < Len(Calls(o))
      BY <1>4
    <2> QED BY <1>1, <1>2, <1>3, <1>4, <2>1, <2>2, <2>3, MovingSends DEF Pcs
  <1>6. CASE WaitForTask(t)
    <2>1. /\ row.bound = row.sent /\ row.sent > 0 /\ row.sent <= Len(effect[o])
          /\ row.sent <= op[o].bound
          /\ Kind[o] # "build" => row.sent = Len(Calls(o))
      BY <1>1, <1>2, <1>3, <1>4, <1>6 DEF ThreadSends, WaitForTask, At
    <2>2. CASE /\ LatestEffect(o) = "ok"
               /\ Goto(t, IF Kind[o] = "build" THEN "complete" ELSE "observe")
      <3>1. Succeeded(o, row.sent) /\ (row.sent = Len(Calls(o)) => AllSucceeded(o))
        BY <1>4, <2>1, <2>2, LatestIsLast
      <3>2. StageDone(t)
        BY <1>2, <1>3, <2>1, <3>1 DEF StageDone
      <3>3. CASE Kind[o] = "build"
        BY <1>1, <1>2, <1>4, <2>2, <3>2, <3>3, MovingSends DEF Pcs
      <3>4. CASE Kind[o] # "build"
        BY <1>1, <1>2, <1>4, <2>1, <2>2, <3>1, <3>4, MovingSends DEF Pcs
      <3> QED BY <3>3, <3>4
    <2>3. CASE Goto(t, "pause")
      BY <1>1, <1>2, <1>4, <2>3, MovingSends DEF Pcs
    <2>4. CASE Goto(t, "rest")
      BY <1>1, <2>4, RestSends
    <2> QED BY <1>2, <1>6, <2>2, <2>3, <2>4 DEF WaitForTask
  <1>7. CASE ObserveStage(t)
    <2>1. StageDone(t) /\ row.sent < Len(Calls(o)) /\ row.sent = row.bound
      BY <1>2, <1>3, <1>4, <1>7 DEF ThreadSends, ObserveStage, At, StageDone
    <2>2. PICK pc \in {"checkpoint", "dispatch", "pause"} : Goto(t, pc)
      BY <1>7 DEF ObserveStage
    <2> QED BY <1>1, <1>2, <1>3, <1>4, <2>1, <2>2, MovingSends DEF Pcs
  <1>8. CASE ObserveResult(t)
    <2>1. AllSucceeded(o)
      BY <1>2, <1>4, <1>8 DEF ThreadSends, ObserveResult, At
    <2>2. PICK pc \in {"succeed", "verifying", "pause"} : Goto(t, pc)
      BY <1>8 DEF ObserveResult
    <2> QED BY <1>1, <1>2, <1>4, <2>1, <2>2, MovingSends DEF Pcs
  <1> QED BY <1>5, <1>6, <1>7, <1>8

\* The handler only takes an answered, finished change for done.
LEMMA ReadTaskSends ==
  ASSUME LocksInv, SendsInv, LocksInv', NEW t \in Threads, ReadTask(t)
  PROVE  SendsInv'
  <1>1. th[t].pc = "verify" /\ th[t].pc \notin Asleep \cup Early /\ World
    BY DEF ReadTask, At, Asleep, Early
  <1>2. PICK o \in Ops : th[t].o = o
    BY <1>1, Awake
  <1>3. PICK row \in OpRows : th[t].row = row
    BY <1>1, Awake
  <1>4. /\ ThreadSends(t) /\ OperationSends(o) /\ row.sent \in Nat /\ op[o].sent \in Nat
        /\ row.bound \in Nat /\ op[o].bound \in Nat
        /\ Len(Calls(o)) \in Nat \ {0} /\ Len(effect[o]) \in Nat /\ effect[o] \in Seq(Effects)
    BY <1>1, <1>2, <1>3, Awake, CallsFacts
  <1> DEFINE n == Len(Calls(o))
  <1>5. CASE Goto(t, "pause") /\ UNCHANGED ledger
    BY <1>1, <1>2, <1>4, <1>5, MovingSends DEF Pcs, World, ledger
  <1>6. CASE /\ row.bound = row.sent /\ row.bound = n
             /\ Calls(o)[row.sent] = "task" => LatestEffect(o) = "ok"
             /\ Goto(t, "observe") /\ UNCHANGED ledger
    <2>1. /\ row.sent <= op[o].sent /\ row.bound <= op[o].bound
      BY <1>1, <1>2, <1>3, <1>4 DEF ThreadSends
    <2>2. op[o].bound = n /\ op[o].sent = n /\ Len(effect[o]) = n
      BY <1>4, <1>6, <2>1 DEF OperationSends
    <2>3. LatestEffect(o) = "ok"
      <3>1. CASE Calls(o)[n] = "sync"
        <4>1. Landed(o, n)
          BY <1>4, <2>2 DEF OperationSends
        <4> QED BY <2>2, <3>1, <4>1 DEF Landed, LatestEffect
      <3>2. CASE Calls(o)[n] = "task"
        BY <1>6, <3>2
      <3>3. Calls(o)[n] \in {"sync", "task"}
        BY <1>4, CallsFacts
      <3> QED BY <3>1, <3>2, <3>3
    <2>4. AllSucceeded(o)
      BY <1>4, <2>2, <2>3, LatestIsLast
    <2> QED BY <1>1, <1>2, <1>4, <1>6, <2>4, MovingSends DEF Pcs, World, ledger
  <1>7. CASE Commit(t, th[t].row, "retry_wait", FALSE, "rest")
    BY <1>1, <1>7, RowCommits DEF At
  <1> QED BY <1>2, <1>3, <1>5, <1>6, <1>7 DEF ReadTask

-----------------------------------------------------------------------------
(* Admission, recovery, Proxmox and time. *)

\* Steps to a point where a thread has read nothing yet.
LEMMA EarlySteps ==
  ASSUME LocksInv, SendsInv, LocksInv', NEW t \in Threads,
         \/ (\E o \in Ops : LookUp(t, o)) \/ Review(t) \/ EnterAdmission(t) \/ InsertLock(t)
         \/ Crash(t)
  PROVE  SendsInv'
  <1>1. UNCHANGED <<op, rec, effect>> /\ TypeOK
    BY DEF LookUp, Review, EnterAdmission, InsertLock, Crash, World, ledger, LocksInv
  <1>2. CASE Goto(t, "rest")
    BY <1>1, <1>2, RestSends
  <1>3. CASE \E pc \in {"admit", "insert"} : Goto(t, pc)
    <2>1. PICK pc \in {"admit", "insert"} : Goto(t, pc)
      BY <1>3
    <2>2. th'[t].pc \in Early /\ \A u \in Threads \ {t} : th'[u] = th[u]
      BY <1>1, <2>1, GotoType DEF Pcs, Early
    <2> QED BY <1>1, <2>2, EarlySends
  <1>4. ASSUME NEW x \in ThreadRows, x.pc \in Early, th' = [th EXCEPT ![t] = x] PROVE SendsInv'
    <2>1. th'[t] = x /\ \A u \in Threads \ {t} : th'[u] = th[u]
      BY <1>1, <1>4 DEF TypeOK
    <2> QED BY <1>1, <1>4, <2>1, EarlySends
  <1>5. ASSUME NEW o \in Ops, LookUp(t, o) PROVE SendsInv'
    <2>1. CASE th' = [th EXCEPT ![t] = Rest(t)]
      BY <1>2, <2>1 DEF Goto
    <2>2. CASE th' = [th EXCEPT ![t] = [@ EXCEPT !.pc = "review", !.o = o]]
      <3> DEFINE x == [th[t] EXCEPT !.pc = "review", !.o = o]
      <3>1. th[t] \in ThreadRows
        BY <1>1 DEF TypeOK
      <3>2. x \in ThreadRows /\ x.pc \in Early
        BY <3>1 DEF ThreadRows, Pcs, Early
      <3>3. th' = [th EXCEPT ![t] = x]
        BY <2>2
      <3> HIDE DEF x
      <3> QED BY <1>4, <3>2, <3>3
    <2> QED BY <1>5, <2>1, <2>2 DEF LookUp
  <1>6. CASE Review(t) \/ EnterAdmission(t) \/ Crash(t)
    BY <1>2, <1>3, <1>6 DEF Review, EnterAdmission, Crash
  <1>7. ASSUME InsertLock(t), NEW l, HoldToo(t, l) PROVE SendsInv'
    <2> DEFINE pc == IF Missing(t) = {l} THEN "create" ELSE "insert"
               x == [th[t] EXCEPT !.held = th[t].held \cup {l}, !.pc = pc]
    <2>1. th[t] \in ThreadRows /\ th \in [Threads -> ThreadRows]
      BY <1>1 DEF TypeOK
    <2>2. th' = [th EXCEPT ![t] = x]
      BY <1>7, <2>1 DEF HoldToo
    <2>3. x.pc \in Early
      BY <2>1 DEF ThreadRows, Early
    <2> HIDE DEF x
    <2>4. th'[t] = x /\ \A u \in Threads \ {t} : th'[u] = th[u]
      BY <2>1, <2>2
    <2> QED BY <1>1, <2>3, <2>4, EarlySends
  <1>8. CASE InsertLock(t)
    BY <1>2, <1>7, <1>8 DEF InsertLock
  <1> QED BY <1>5, <1>6, <1>8

\* An admitted operation has sent nothing.
LEMMA BeginSends ==
  ASSUME LocksInv, SendsInv, LocksInv', NEW t \in Threads, th[t].o \in Ops,
         op[th[t].o].status = "none", Begin(t), World
  PROVE  SendsInv'
  <1>1. PICK o \in Ops : th[t].o = o
    OBVIOUS
  <1>2. /\ op \in [Ops -> OpRows] /\ rec \in [Ops -> RecRows] /\ th \in [Threads -> ThreadRows]
        /\ th[t] \in ThreadRows /\ op[o].sent \in Nat /\ op[o].bound \in Nat
        /\ effect[o] \in Seq(Effects) /\ Len(effect[o]) \in Nat
    <2>1. TypeOK
      BY DEF LocksInv
    <2>2. op[o] \in OpRows /\ effect[o] \in Seq(Effects)
      BY <2>1, Rows
    <2>3. Len(effect[o]) \in Nat
      BY <2>2
    <2> QED BY <2>1, <2>2, <2>3 DEF TypeOK, LedgerTypeOK, OpRows
  <1>3. OperationSends(o) /\ OperationEnds(o) /\ op[o].status = "none" /\ effect' = effect
    BY <1>1 DEF SendsInv, World
  <1>4. op[o].sent = 0 /\ op[o].bound = 0 /\ Len(effect[o]) = 0
    BY <1>2, <1>3 DEF OperationSends, OperationEnds
  <1>5. /\ op'[o].status = "planned" /\ op'[o].sent = 0 /\ op'[o].bound = 0
        /\ rec'[o].status = "leased"
        /\ \A p \in Ops \ {o} : op'[p] = op[p] /\ rec'[p] = rec[p]
    BY <1>1, <1>2 DEF Begin, Admitted, NoRow
  <1>6. /\ th'[t].pc = "recheck" /\ th'[t].o = o /\ th'[t].row = op'[o]
        /\ \A u \in Threads \ {t} : th'[u] = th[u]
    BY <1>1, <1>2 DEF Begin, ThreadRows
  <1>7. \A p \in Ops : Still(p)
    BY <1>3, <1>4, <1>5 DEF Still
  <1>8. ASSUME NEW p \in Ops PROVE Grows(p) /\ OperationSends(p)' /\ OperationEnds(p)'
    <2>1. Grows(p) /\ OperationSends(p)'
      BY <1>7, StillGrows, StillSends DEF SendsInv
    <2>2. OperationEnds(p)'
      <3>1. CASE p = o
        BY <1>5, <3>1 DEF OperationEnds, TerminalStatuses
      <3>2. CASE p # o
        BY <1>3, <1>5, <3>2 DEF OperationEnds, SendsInv, AllSucceeded
      <3> QED BY <3>1, <3>2
    <2> QED BY <2>1, <2>2
  <1>9. ThreadSends(t)'
    BY <1>5, <1>6 DEF ThreadSends, At
  <1>10. \A p \in Ops : ~Sending(t, p)'
    BY <1>6 DEF Sending
  <1> QED BY <1>6, <1>7, <1>8, <1>9, <1>10, SendsKept

\* Admission keeps the sends' invariant.
LEMMA AdmissionsSend ==
  ASSUME LocksInv, SendsInv, LocksInv', NEW t \in Threads, CreateChange(t) \/ AdmitHost(t)
  PROVE  SendsInv'
  <1>1. th[t].o \in Ops /\ World
    BY ThreadFacts DEF CreateChange, AdmitHost, At, Asleep
  <1>2. CASE op[th[t].o].status = "none" /\ Begin(t)
    BY <1>1, <1>2, BeginSends
  <1>3. CASE Goto(t, "rest") /\ UNCHANGED ledger
    BY <1>1, <1>3, RestSends DEF World, ledger
  <1> QED BY <1>2, <1>3 DEF CreateChange, AdmitHost

\* A claim, an expired lease or an absorbed exception changes recovery work that stays open.
LEMMA OpenWorkEnds ==
  ASSUME SendsInv, NEW o \in Ops, rec[o].status # "completed", rec'[o].status # "completed",
         op'[o].status = op[o].status, op'[o].sent = op[o].sent, op'[o].bound = op[o].bound,
         effect' = effect,
         \A p \in Ops \ {o} : op'[p] = op[p] /\ rec'[p] = rec[p]
  PROVE  \A p \in Ops : OperationEnds(p)'
  <1> SUFFICES ASSUME NEW p \in Ops PROVE OperationEnds(p)'
    OBVIOUS
  <1>1. OperationEnds(p) /\ (AllSucceeded(p) <=> AllSucceeded(p)')
    <2>1. op'[p].bound = op[p].bound
      OBVIOUS
    <2> QED BY <2>1 DEF SendsInv, AllSucceeded
  <1>2. CASE p = o
    BY <1>1, <1>2 DEF OperationEnds
  <1>3. CASE p # o
    BY <1>1, <1>3 DEF OperationEnds
  <1> QED BY <1>2, <1>3

\* Claiming recovery work keeps the sends' invariant.
LEMMA ClaimWorkSends ==
  ASSUME LocksInv, SendsInv, LocksInv', NEW t \in Threads, NEW o \in Ops, ClaimWork(t, o)
  PROVE  SendsInv'
  <1>1. /\ UNCHANGED <<op, effect>> /\ rec[o].status # "completed"
        /\ rec \in [Ops -> RecRows] /\ th \in [Threads -> ThreadRows]
    BY DEF ClaimWork, World, Due, LocksInv, TypeOK, LedgerTypeOK
  <1>2. rec'[o].status = "leased" /\ \A p \in Ops \ {o} : rec'[p] = rec[p]
    BY <1>1 DEF ClaimWork, Claim, RecRows
  <1>3. \A p \in Ops : OperationEnds(p)'
    BY <1>1, <1>2, OpenWorkEnds
  <1>4. th'[t].pc = "load" /\ \A u \in Threads \ {t} : th'[u] = th[u]
    <2> DEFINE x == [Fresh("load") EXCEPT !.o = o, !.gen = rec'[o].gen]
    <2>1. th' = [th EXCEPT ![t] = x]
      BY DEF ClaimWork
    <2>2. x.pc = "load"
      BY DEF Fresh
    <2> HIDE DEF x
    <2> QED BY <1>1, <2>1, <2>2
  <1>5. ThreadSends(t)'
    BY <1>4 DEF ThreadSends, Early, At
  <1> QED BY <1>1, <1>3, <1>4, <1>5, QuietSends

\* A handler that loads its row keeps the sends' invariant.
LEMMA HandleSends ==
  ASSUME LocksInv, SendsInv, LocksInv', NEW t \in Threads, Handle(t)
  PROVE  SendsInv'
  <1>1. th[t].pc = "load" /\ th[t].pc \notin Asleep /\ UNCHANGED <<op, rec, effect>>
    BY DEF Handle, At, Asleep, World, ledger
  <1>2. PICK o \in Ops : th[t].o = o
    BY <1>1, Awake
  <1>3. /\ OperationSends(o) /\ op[o].sent \in Nat /\ op[o].bound \in Nat
        /\ th \in [Threads -> ThreadRows] /\ th[t] \in ThreadRows
    BY <1>1, <1>2, Awake DEF LocksInv, TypeOK
  <1>4. PICK pc \in {"block", "verify", "unavailable"} :
          /\ th' = [th EXCEPT ![t].pc = pc, ![t].row = op[o]]
          /\ pc = "block" => Unsent(op[o])
    BY <1>2 DEF Handle
  <1>5. /\ th'[t].pc = pc /\ th'[t].o = o /\ th'[t].row = op'[o]
        /\ \A u \in Threads \ {t} : th'[u] = th[u]
    BY <1>1, <1>2, <1>3, <1>4 DEF ThreadRows
  <1>6. pc = "block" => op[o].status = "planned" /\ op[o].sent = 0 /\ op[o].bound = 0
    BY <1>3, <1>4 DEF Unsent, OperationSends
  <1>7. ThreadSends(t)'
    BY <1>1, <1>3, <1>5, <1>6 DEF ThreadSends, At
  <1> QED BY <1>1, <1>5, <1>7, ReadingSends

\* A handler that fails keeps the sends' invariant.
LEMMA AbsorbExceptionSends ==
  ASSUME LocksInv, SendsInv, LocksInv', NEW t \in Threads, AbsorbException(t)
  PROVE  SendsInv'
  <1>1. th[t].pc \notin Asleep /\ effect' = effect /\ TypeOK
    BY DEF AbsorbException, HandlerPcs, Asleep, World, LocksInv
  <1>2. PICK o \in Ops : th[t].o = o
    BY <1>1, Awake
  <1>3. /\ op[o] \in OpRows /\ op \in [Ops -> OpRows] /\ rec \in [Ops -> RecRows]
        /\ rec[o].status = "leased"
        /\ op' = [op EXCEPT ![o] = Bumped(op[o])]
        /\ rec' = [rec EXCEPT ![o].status = RetryStatus(o), ![o].live = (RetryStatus(o) = "leased")]
    BY <1>1, <1>2 DEF AbsorbException, Move, MayMove, Owns, TypeOK, LedgerTypeOK
  <1>4. /\ op'[o].status = op[o].status /\ op'[o].sent = op[o].sent /\ op'[o].bound = op[o].bound
        /\ rec'[o].status # "completed"
        /\ \A p \in Ops \ {o} : op'[p] = op[p] /\ rec'[p] = rec[p]
    BY <1>3 DEF Bumped, OpRows, RecRows, RetryStatus
  <1>5. \A p \in Ops : Still(p)
    BY <1>1, <1>4 DEF Still
  <1>6. \A p \in Ops : Grows(p) /\ OperationSends(p)' /\ OperationEnds(p)'
    <2>1. \A p \in Ops : OperationEnds(p)'
      BY <1>1, <1>3, <1>4, OpenWorkEnds
    <2> QED BY <1>5, <2>1, StillGrows, StillSends DEF SendsInv
  <1>7. th'[t].pc \in Asleep /\ \A u \in Threads \ {t} : th'[u] = th[u]
    BY <1>1, GotoRest DEF AbsorbException
  <1>8. ThreadSends(t)' /\ \A p \in Ops : ~Sending(t, p)'
    BY <1>7 DEF ThreadSends, Early, Asleep, At, Sending
  <1> QED BY <1>5, <1>6, <1>7, <1>8, SendsKept

\* Proxmox starts and ends what was sent; a request whose success was taken for granted had
\* ended before.
LEMMA BecomesSends ==
  ASSUME LocksInv, SendsInv, LocksInv', NEW o \in Ops, NEW i \in DOMAIN effect[o],
         NEW e \in EffectStates, Becomes(o, i, e),
         \/ effect[o][i].state = "inflight"
         \/ effect[o][i].state = "running" /\ e \in {"ok", "failed"}
  PROVE  SendsInv'
  <1>1. /\ UNCHANGED <<op, rec, th>> /\ effect' = [effect EXCEPT ![o][i].state = e]
        /\ effect \in [Ops -> Seq(Effects)] /\ effect[o] \in Seq(Effects) /\ effect[o][i] \in Effects
        /\ OperationSends(o) /\ OperationEnds(o)
    BY DEF Becomes, LocksInv, TypeOK, ledger, SendsInv
  <1> DEFINE x == [effect[o][i] EXCEPT !.state = e]
             s == [effect[o] EXCEPT ![i] = x]
  <1>2. x \in Effects /\ x.call = effect[o][i].call /\ x.state = e
    BY <1>1 DEF Effects
  <1>3. effect'[o] = s /\ \A p \in Ops \ {o} : effect'[p] = effect[p]
    BY <1>1
  <1> HIDE DEF x
  <1>4. /\ Len(s) = Len(effect[o]) /\ DOMAIN s = DOMAIN effect[o] /\ s[i] = x
        /\ \A k \in DOMAIN effect[o] \ {i} : s[k] = effect[o][k]
    BY <1>1
  <1> HIDE DEF s
  <1>5. \A k \in DOMAIN effect[o] : effect[o][k].state = "ok" => k # i
    OBVIOUS
  <1>6. \A k \in Nat : Landed(o, k) => Landed(o, k)'
    BY <1>2, <1>3, <1>4 DEF Landed
  <1>7. OperationSends(o)'
    BY <1>1, <1>2, <1>3, <1>4, <1>5, <1>6 DEF OperationSends
  <1>8. ~AllSucceeded(o)
    BY DEF AllSucceeded
  <1>9. OperationEnds(o)'
    BY <1>1, <1>8 DEF OperationEnds
  <1>10. op[o].sent \in Nat /\ op[o].bound \in Nat /\ Len(effect[o]) \in Nat
    BY <1>1, Rows DEF LocksInv, OpRows
  <1>11. Grows(o)
    BY <1>1, <1>3, <1>4, <1>5, <1>6, <1>8, <1>10 DEF Grows, Succeeded
  <1>12. ASSUME NEW p \in Ops PROVE Grows(p) /\ OperationSends(p)' /\ OperationEnds(p)'
    <2>1. CASE p = o
      BY <1>7, <1>9, <1>11, <2>1
    <2>2. CASE p # o
      <3>1. Still(p) /\ OperationSends(p) /\ OperationEnds(p)
        BY <1>1, <1>3, <2>2 DEF Still, SendsInv
      <3> QED BY <1>1, <1>3, <2>2, <3>1, StillGrows, StillSends DEF OperationEnds, AllSucceeded
    <2> QED BY <2>1, <2>2
  <1>13. ASSUME NEW u \in Threads PROVE ThreadSends(u)'
    <2>1. \A p \in Ops : /\ op'[p].sent = op[p].sent /\ op'[p].bound = op[p].bound
                         /\ Len(effect'[p]) = Len(effect[p])
      BY <1>1, <1>3, <1>4
    <2> QED BY <1>1, <1>12, <2>1, ThreadKept DEF SendsInv
  <1>14. OneSender'
    BY <1>1 DEF OneSender, Sending, SendsInv
  <1> QED BY <1>12, <1>13, <1>14 DEF SendsInv

\* Nothing but recovery work, or nothing at all, changes.
LEMMA StillSteps ==
  ASSUME LocksInv, SendsInv, LocksInv', UNCHANGED <<op, effect, th>>,
         \A o \in Ops : OperationEnds(o)'
  PROVE  SendsInv'
  <1>1. \A p \in Ops : Grows(p) /\ OperationSends(p)' /\ Still(p)
    BY StillGrows, StillSends DEF SendsInv, Still
  <1>2. \A u \in Threads : ThreadSends(u)'
    BY <1>1, ThreadKept DEF SendsInv
  <1>3. OneSender'
    BY DEF OneSender, Sending, SendsInv
  <1> QED BY <1>1, <1>2, <1>3 DEF SendsInv

\* A lease that expires keeps the sends' invariant.
LEMMA LeaseExpiresSends ==
  ASSUME LocksInv, SendsInv, LocksInv', NEW o \in Ops, LeaseExpires(o)
  PROVE  SendsInv'
  <1>1. /\ UNCHANGED <<op, effect, th>> /\ rec[o].status = "leased" /\ rec \in [Ops -> RecRows]
    BY DEF LeaseExpires, LocksInv, TypeOK, LedgerTypeOK
  <1>2. rec'[o].status = "leased" /\ \A p \in Ops \ {o} : rec'[p] = rec[p]
    BY <1>1 DEF LeaseExpires, RecRows
  <1>3. \A p \in Ops : OperationEnds(p)'
    BY <1>1, <1>2, OpenWorkEnds
  <1> QED BY <1>1, <1>3, StillSteps

-----------------------------------------------------------------------------
(* The invariant and what it says. *)

\* Initially the sends' invariant holds.
LEMMA SendsStart == Init => SendsInv
  <1> SUFFICES ASSUME Init PROVE SendsInv
    OBVIOUS
  <1>1. \A t \in Threads : th[t].pc \in Asleep
    BY DEF Init, Fresh, Asleep
  <1>2. \A o \in Ops : /\ op[o] = NoRow /\ rec[o].status = "none" /\ effect[o] = <<>>
                       /\ Len(effect[o]) = 0 /\ DOMAIN effect[o] = {}
    BY DEF Init, LedgerInit
  <1>3. \A o \in Ops : OperationSends(o) /\ OperationEnds(o)
    BY <1>2, CallsFacts DEF OperationSends, OperationEnds, NoRow, TerminalStatuses
  <1>4. \A t \in Threads : ThreadSends(t)
    BY <1>1 DEF ThreadSends, Early, Asleep, At
  <1>5. OneSender
    BY <1>1 DEF OneSender, Sending, Asleep
  <1> QED BY <1>3, <1>4, <1>5 DEF SendsInv

\* Every step keeps the sends' invariant.
LEMMA SendsStep == LocksInv /\ LocksInv' /\ SendsInv /\ [Next]_vars => SendsInv'
  <1> SUFFICES ASSUME LocksInv, LocksInv', SendsInv, [Next]_vars PROVE SendsInv'
    OBVIOUS
  <1>1. ASSUME NEW t \in Threads, RequestStep(t) PROVE SendsInv'
    BY <1>1, EarlySteps, AdmissionsSend, MovesSend, DispatchingSends, PostSends, BindAnswerSends,
       RowCommits DEF RequestStep
  <1>2. ASSUME NEW t \in Threads, HolderStep(t) \/ Crash(t) PROVE SendsInv'
    BY <1>2, StatusCommits, ReadTaskSends, MovesSend, EarlySteps DEF HolderStep
  <1>3. ASSUME NEW t \in Threads,
               Handle(t) \/ PauseUnavailable(t) \/ AbsorbException(t) \/ \E o \in Ops : ClaimWork(t, o)
        PROVE  SendsInv'
    BY <1>3, HandleSends, RowCommits, AbsorbExceptionSends, ClaimWorkSends
  <1>4. ASSUME NEW o \in Ops, EffectStarts(o) \/ TaskEnds(o) \/ LeaseExpires(o) PROVE SendsInv'
    <2>1. {"ok", "failed", "running"} \subseteq EffectStates
      BY DEF EffectStates
    <2>2. CASE EffectStarts(o)
      <3>1. PICK i \in DOMAIN effect[o], e \in {"ok", "running"} :
              effect[o][i].state = "inflight" /\ Becomes(o, i, e)
        BY <2>2 DEF EffectStarts
      <3> QED BY <2>1, <3>1, BecomesSends
    <2>3. CASE TaskEnds(o)
      BY <2>1, <2>3, BecomesSends DEF TaskEnds
    <2> QED BY <1>4, <2>2, <2>3, LeaseExpiresSends
  <1>5. CASE UNCHANGED vars
    <2>1. \A o \in Ops : OperationEnds(o)'
      BY <1>5 DEF vars, SendsInv, OperationEnds, AllSucceeded
    <2> QED BY <1>5, <2>1, StillSteps DEF vars
  <1> QED BY <1>1, <1>2, <1>3, <1>4, <1>5 DEF Next, Threads

\* The locks and the requests of every reachable state.
THEOREM InvariantHolds == Spec => []IInv
  <1>1. Init => IInv
    BY LocksStart, SendsStart DEF IInv
  <1>2. IInv /\ [Next]_vars => IInv'
    BY LocksStep, SendsStep DEF IInv
  <1> QED BY <1>1, <1>2, PTL DEF Spec

\* No request of an operation is sent to Proxmox twice, by execute, a replay or recovery.
THEOREM EachRequestOnce == Spec => []SentAtMostOnce
  <1>1. IInv => SentAtMostOnce
    BY DEF IInv, SendsInv, OperationSends, SentAtMostOnce
  <1> QED BY <1>1, InvariantHolds, PTL

\* The reload of a bridge change and the stages of an image build follow the success of the
\* request before them.
THEOREM StagesFollowSuccess == Spec => []StagesBuildOnSuccess
  <1>1. ASSUME IInv, NEW o \in Ops, NEW i \in DOMAIN effect[o], effect[o][i].call > 1
        PROVE  \E j \in DOMAIN effect[o] :
                 effect[o][j] = [call |-> effect[o][i].call - 1, state |-> "ok"]
    <2>1. /\ OperationSends(o) /\ effect[o] \in Seq(Effects) /\ op[o].sent \in Nat
          /\ Len(effect[o]) \in Nat
      <3>1. TypeOK /\ OperationSends(o)
        BY <1>1 DEF IInv, LocksInv, SendsInv
      <3> QED BY <3>1, Rows DEF OpRows
    <2>2. effect[o][i].call = i /\ i \in 1..Len(effect[o]) /\ i > 1
      BY <1>1, <2>1 DEF OperationSends
    <2>3. i - 1 \in DOMAIN effect[o] /\ i - 1 < op[o].sent
      BY <2>1, <2>2 DEF OperationSends
    <2>4. effect[o][i - 1].call = i - 1 /\ effect[o][i - 1].state = "ok"
      BY <2>1, <2>3 DEF OperationSends
    <2>5. effect[o][i - 1] = [call |-> i - 1, state |-> "ok"]
      <3>1. effect[o][i - 1] \in Effects
        BY <2>1, <2>3
      <3> QED BY <2>4, <3>1 DEF Effects
    <2> QED BY <2>2, <2>3, <2>5
  <1>2. IInv => StagesBuildOnSuccess
    BY <1>1 DEF StagesBuildOnSuccess
  <1> QED BY <1>2, InvariantHolds, PTL

\* Work is completed only when nothing it sent can still act.
LEMMA ActingIsOpen ==
  ASSUME IInv, NEW o \in Ops, Acting(o)
  PROVE  rec[o].status \notin {"none", "completed"}
  <1>1. PICK i \in DOMAIN effect[o] : effect[o][i].state \in {"inflight", "running"}
    BY DEF Acting
  <1>2. ~AllSucceeded(o)
    BY <1>1 DEF AllSucceeded
  <1>3. OperationSends(o) /\ OperationEnds(o) /\ Recorded(o) /\ TypeOK
    BY DEF IInv, SendsInv, LocksInv
  <1>4. effect[o] \in Seq(Effects) /\ op[o].sent \in Nat /\ op[o].bound \in Nat
    BY <1>3, Rows DEF OpRows
  <1>5. op[o].sent # 0
    BY <1>1, <1>3, <1>4 DEF OperationSends
  <1> QED BY <1>2, <1>3, <1>5 DEF OperationEnds, Recorded

\* While a request may still act, all it concerns is locked by its own operation.
THEOREM EffectsAreLocked == Spec => []EffectUnderLocks
  <1>1. IInv => EffectUnderLocks
    BY ActingIsOpen DEF IInv, LocksInv, LocksFollowWork, EffectUnderLocks
  <1> QED BY <1>1, InvariantHolds, PTL

\* A host change is alone: no other managed change of the cluster is under way, or can still
\* act.
THEOREM HostChangesAlone == Spec => []HostChangeAlone
  <1>1. ASSUME IInv, NEW o \in Ops, lock[Config] = o, NEW p \in Ops \ {o}
        PROVE  ~Acting(p) /\ rec[p].status \in {"none", "completed"}
    <2>1. Finished(p)
      BY <1>1 DEF IInv, LocksInv, HostAlone
    <2> QED BY <1>1, <2>1, ActingIsOpen DEF Finished
  <1>2. IInv => HostChangeAlone
    BY <1>1 DEF HostChangeAlone
  <1> QED BY <1>2, InvariantHolds, PTL

\* A success is recorded only of an operation whose requests all ended well, a block only of
\* one that sent none.
THEOREM OutcomesAreProven == Spec => []OutcomeIsProven
  <1>1. ASSUME IInv, NEW o \in Ops, op[o].status = "succeeded", NEW k \in 1..Len(Calls(o))
        PROVE  effect[o][k] = [call |-> k, state |-> "ok"] /\ k \in DOMAIN effect[o]
    <2>1. OperationSends(o) /\ AllSucceeded(o) /\ TypeOK
      BY <1>1 DEF IInv, SendsInv, LocksInv, OperationEnds
    <2>2. effect[o] \in Seq(Effects)
      BY <2>1, Rows
    <2>3. k \in DOMAIN effect[o] /\ effect[o][k] \in Effects
      BY <2>1, <2>2 DEF AllSucceeded
    <2> QED BY <2>1, <2>3 DEF AllSucceeded, OperationSends, Effects
  <1>2. ASSUME IInv, NEW o \in Ops, op[o].status = "blocked" PROVE effect[o] = <<>>
    <2>1. OperationSends(o) /\ op[o].sent = 0 /\ TypeOK
      BY <1>2 DEF IInv, SendsInv, LocksInv, OperationEnds
    <2>2. effect[o] \in Seq(Effects) /\ op[o].bound \in Nat
      BY <2>1, Rows DEF OpRows
    <2>3. Len(effect[o]) = 0
      BY <2>1, <2>2 DEF OperationSends
    <2> QED BY <2>2, <2>3
  <1>3. IInv => OutcomeIsProven
    BY <1>1, <1>2 DEF OutcomeIsProven
  <1> QED BY <1>3, InvariantHolds, PTL

-----------------------------------------------------------------------------
(* Closing. *)

\* Work is not forgotten, stays as it was closed, and is not closed by a step that sends or
\* records an answer.
Closing(o) ==
  /\ rec'[o].status = "none" => rec[o].status = "none"
  /\ rec[o].status = "completed" => op'[o] = op[o] /\ rec'[o] = rec[o]
  /\ rec'[o].status = "completed" /\ rec[o].status # "completed" => Still(o)

\* A commit never reopens closed recovery work, and closes it only on an operation left still.
LEMMA CommitCloses ==
  ASSUME IInv, NEW t \in Threads, th[t].o \in Ops, NEW row \in OpRows,
         NEW work \in WorkStatuses \ {"none"}, NEW release, NEW next,
         Commit(t, row, work, release, next), effect' = effect,
         work = "completed" => row.sent = th[t].row.sent /\ row.bound = th[t].row.bound,
         NEW o \in Ops
  PROVE  Closing(o)
  <1>1. PICK p \in Ops : th[t].o = p
    OBVIOUS
  <1>2. CASE UNCHANGED ledger
    BY <1>2 DEF Closing, ledger
  <1>3. CASE Committed(t, p, row, work, next)
    <2>1. CASE o = p
      <3>1. rec[o].status # "completed"
        BY <1>3, <2>1 DEF Committed, IInv, SendsInv, OperationEnds
      <3>2. /\ rec'[o].status = work /\ work # "none"
            /\ work = "completed" => op'[o].sent = op[o].sent /\ op'[o].bound = op[o].bound
        BY <1>3, <2>1 DEF Committed
      <3> QED BY <3>1, <3>2 DEF Closing, Still
    <2>2. CASE o # p
      BY <1>3, <2>2 DEF Committed, Closing
    <2> QED BY <2>1, <2>2
  <1> QED BY <1>1, <1>2, <1>3, CommitOutcome DEF IInv

\* The commits of the threads.
LEMMA CommitsClose ==
  ASSUME IInv, NEW t \in Threads, NEW o \in Ops,
         \/ CommitDispatching(t) \/ BindAnswer(t) \/ CommitComplete(t) \/ CommitStage(t)
         \/ BlockUnsent(t) \/ CommitVerifying(t) \/ CommitSucceeded(t) \/ Pause(t)
         \/ PauseUnavailable(t) \/ ReadTask(t)
  PROVE  Closing(o)
  <1>1. /\ th[t].pc \notin Asleep /\ effect' = effect
    BY DEF CommitDispatching, BindAnswer, CommitComplete, CommitStage, BlockUnsent,
       CommitVerifying, CommitSucceeded, Pause, PauseUnavailable, ReadTask, At, Asleep, World
  <1>2. th[t].o \in Ops
    BY <1>1, Awake DEF IInv
  <1>3. PICK row \in OpRows : th[t].row = row
    BY <1>1, Awake DEF IInv
  <1>4. row.status \in OperationStatuses \cup {"none"}
    BY DEF OpRows
  <1>5. CASE ReadTask(t) /\ UNCHANGED ledger
    BY <1>5 DEF Closing, ledger
  <1>6. CASE \/ CommitComplete(t) \/ CommitStage(t) \/ PauseUnavailable(t)
             \/ Commit(t, row, "retry_wait", FALSE, "rest")
    <2>1. \E work \in WorkStatuses \ {"none", "completed"} :
            \E pc \in {"verify", "staged", "restage", "rest"} : Commit(t, row, work, FALSE, pc)
      BY <1>3, <1>6 DEF CommitComplete, CommitStage, PauseUnavailable, WorkStatuses
    <2> QED BY <1>1, <1>2, <2>1, CommitCloses
  <1>7. CASE CommitDispatching(t)
    <2>1. [row EXCEPT !.status = IF row.status = "planned" THEN "dispatching" ELSE row.status,
                      !.sent = row.sent + 1] \in OpRows
      BY <1>4, CommitRows DEF OperationStatuses
    <2> QED BY <1>1, <1>2, <1>3, <1>7, <2>1, CommitCloses DEF CommitDispatching, WorkStatuses
  <1>8. CASE BindAnswer(t)
    <2>1. [row EXCEPT !.status = IF Call(t) = "sync" /\ ~Last(t) THEN row.status ELSE "running",
                      !.bound = row.bound + 1] \in OpRows
      BY <1>4, CommitRows DEF OperationStatuses
    <2> QED BY <1>1, <1>2, <1>3, <1>8, <2>1, CommitCloses DEF BindAnswer, WorkStatuses
  <1>9. CASE BlockUnsent(t) \/ CommitVerifying(t) \/ CommitSucceeded(t) \/ Pause(t)
    <2>1. PICK x \in {"blocked", "verifying", "succeeded", "needs_reconciliation"},
               work \in WorkStatuses \ {"none"}, release \in BOOLEAN, next \in {"rest", "succeed"} :
            Commit(t, [row EXCEPT !.status = x], work, release, next)
      BY <1>3, <1>9 DEF BlockUnsent, CommitVerifying, CommitSucceeded, Pause, WorkStatuses
    <2>2. x \in OperationStatuses
      BY DEF OperationStatuses
    <2> DEFINE y == [row EXCEPT !.status = x]
    <2>3. y \in OpRows /\ y.sent = row.sent /\ y.bound = row.bound
      BY <2>2, StatusRow
    <2> HIDE DEF y
    <2> QED BY <1>1, <1>2, <1>3, <2>1, <2>3, CommitCloses DEF y
  <1> QED BY <1>3, <1>5, <1>6, <1>7, <1>8, <1>9 DEF ReadTask

\* So does every step.
LEMMA EveryStepCloses ==
  ASSUME IInv, [Next]_vars, NEW o \in Ops
  PROVE  Closing(o)
  <1>1. CASE UNCHANGED <<op, rec>>
    BY <1>1 DEF Closing
  <1>2. op \in [Ops -> OpRows] /\ rec \in [Ops -> RecRows] /\ Recorded(o)
    BY DEF IInv, LocksInv, TypeOK, LedgerTypeOK
  <1>3. ASSUME NEW p \in Ops, rec[p].status # "completed",
               rec'[p].status \notin {"none", "completed"},
               \A q \in Ops \ {p} : op'[q] = op[q] /\ rec'[q] = rec[q]
        PROVE  Closing(o)
    BY <1>3 DEF Closing
  <1>4. ASSUME NEW t \in Threads, CreateChange(t) \/ AdmitHost(t) PROVE Closing(o)
    <2>1. th[t].o \in Ops
      BY <1>4, ThreadFacts DEF CreateChange, AdmitHost, At, Asleep, IInv
    <2>2. PICK p \in Ops : th[t].o = p
      BY <2>1
    <2>3. CASE op[p].status = "none" /\ Admitted(p, "planned")
      <3>1. rec[p].status = "none"
        BY <2>3 DEF IInv, LocksInv, Recorded
      <3>2. rec'[p].status = "leased" /\ \A q \in Ops \ {p} : op'[q] = op[q] /\ rec'[q] = rec[q]
        BY <1>2, <2>3 DEF Admitted
      <3> QED BY <1>3, <3>1, <3>2
    <2> QED BY <1>1, <1>4, <2>2, <2>3 DEF CreateChange, AdmitHost, Begin, ledger
  <1>5. ASSUME NEW t \in Threads, NEW p \in Ops, ClaimWork(t, p) PROVE Closing(o)
    <2>1. /\ rec[p].status # "completed" /\ rec'[p].status = "leased"
          /\ \A q \in Ops \ {p} : op'[q] = op[q] /\ rec'[q] = rec[q]
      BY <1>2, <1>5 DEF ClaimWork, Claim, Due, RecRows
    <2> QED BY <1>3, <2>1
  <1>6. ASSUME NEW t \in Threads, AbsorbException(t) PROVE Closing(o)
    <2>1. PICK p \in Ops : th[t].o = p
      BY <1>6, ThreadFacts DEF AbsorbException, HandlerPcs, Asleep, IInv
    <2>2. /\ rec[p].status = "leased" /\ rec'[p].status = RetryStatus(p)
          /\ \A q \in Ops \ {p} : op'[q] = op[q] /\ rec'[q] = rec[q]
      BY <1>2, <1>6, <2>1 DEF AbsorbException, Move, MayMove, Owns, RecRows
    <2> QED BY <1>3, <2>2 DEF RetryStatus
  <1>7. ASSUME NEW p \in Ops, LeaseExpires(p) PROVE Closing(o)
    <2>1. /\ rec[p].status = "leased" /\ rec'[p].status = "leased"
          /\ \A q \in Ops \ {p} : op'[q] = op[q] /\ rec'[q] = rec[q]
      BY <1>2, <1>7 DEF LeaseExpires, RecRows
    <2> QED BY <1>3, <2>1
  <1>8. ASSUME NEW t \in Threads,
               \/ (\E p \in Ops : LookUp(t, p)) \/ Review(t) \/ EnterAdmission(t) \/ InsertLock(t)
               \/ Recheck(t) \/ Post(t) \/ WaitForTask(t) \/ ObserveStage(t) \/ ObserveResult(t)
               \/ Crash(t) \/ Handle(t)
        PROVE  Closing(o)
    BY <1>1, <1>8 DEF LookUp, Review, EnterAdmission, InsertLock, Recheck, Post, WaitForTask,
       ObserveStage, ObserveResult, Crash, Handle, ledger
  <1>9. ASSUME NEW t \in Threads, RequestStep(t) PROVE Closing(o)
    BY <1>4, <1>8, <1>9, CommitsClose DEF RequestStep
  <1>10. ASSUME NEW t \in Threads, HolderStep(t) PROVE Closing(o)
    BY <1>8, <1>10, CommitsClose DEF HolderStep
  <1>11. ASSUME NEW p \in Ops, EffectStarts(p) \/ TaskEnds(p) PROVE Closing(o)
    BY <1>1, <1>11 DEF EffectStarts, TaskEnds, Becomes, ledger
  <1>12. CASE UNCHANGED vars
    BY <1>1, <1>12 DEF vars
  <1>13. ASSUME NEW t \in Threads,
                Handle(t) \/ PauseUnavailable(t) \/ AbsorbException(t) \/ \E p \in Ops : ClaimWork(t, p)
         PROVE  Closing(o)
    BY <1>5, <1>6, <1>8, <1>13, CommitsClose
  <1> QED BY <1>7, <1>8, <1>9, <1>10, <1>11, <1>12, <1>13 DEF Next, Threads

\* Neither a late thread, a replay nor recovery moves a closed change.
THEOREM ClosingIsFinal == Spec => ClosedIsFinal
  <1>1. IInv /\ [Next]_vars =>
          [\A o \in Ops : rec[o].status = "completed" => op'[o] = op[o] /\ rec'[o] = rec[o]]_vars
    BY EveryStepCloses DEF Closing
  <1> QED BY <1>1, InvariantHolds, PTL DEF Spec, ClosedIsFinal

\* A request without a recorded answer keeps its operation open and its locks held.
THEOREM UnansweredIsNobodys == Spec => UnansweredStaysOpen
  <1>1. ASSUME IInv, IInv', [Next]_vars, NEW o \in Ops, Len(effect[o]) > op[o].bound
        PROVE  op'[o].status \notin TerminalStatuses /\ HoldsScope(o)'
    <2>1. Closing(o)
      BY <1>1, EveryStepCloses
    <2>2. /\ OperationSends(o) /\ OperationEnds(o) /\ Recorded(o) /\ TypeOK
          /\ OperationSends(o)' /\ OperationEnds(o)' /\ Recorded(o)' /\ LocksFollowWork'
      BY <1>1 DEF IInv, SendsInv, LocksInv
    <2>3. op[o].sent \in Nat /\ op[o].bound \in Nat /\ Len(effect[o]) \in Nat
      <3>1. op[o] \in OpRows /\ effect[o] \in Seq(Effects)
        BY <2>2, Rows
      <3> QED BY <3>1 DEF OpRows
    <2>4. op[o].sent # 0 /\ op[o].bound # Len(effect[o])
      BY <1>1, <2>2, <2>3 DEF OperationSends
    <2>5. rec[o].status \notin {"none", "completed"}
      BY <2>2, <2>4 DEF OperationEnds, Recorded, AllSucceeded
    <2>6. rec'[o].status # "completed"
      <3> SUFFICES ASSUME rec'[o].status = "completed" PROVE FALSE
        OBVIOUS
      <3>1. Still(o)
        BY <2>1, <2>5 DEF Closing
      <3> QED BY <2>2, <2>4, <3>1 DEF Still, OperationEnds, AllSucceeded
    <2>7. rec'[o].status # "none"
      BY <2>1, <2>5 DEF Closing
    <2> QED BY <2>2, <2>6, <2>7 DEF OperationEnds, LocksFollowWork
  <1>2. IInv /\ IInv' /\ [Next]_vars =>
          [\A o \in Ops : Len(effect[o]) > op[o].bound =>
             op'[o].status \notin TerminalStatuses /\ (HoldsScope(o) => HoldsScope(o)')]_vars
    BY <1>1
  <1> QED BY <1>2, InvariantHolds, PTL DEF Spec, UnansweredStaysOpen

=============================================================================
