------------------------- MODULE GuidedUnlockProofs -------------------------
(***************************************************************************)
(* IInv is an invariant of GuidedUnlock, for any number of plans, calls    *)
(* and observers; with it, what a step may never do: the lock leaves a     *)
(* shown instruction only when it closes, an attestation is kept, and an   *)
(* end is final.  Every step concerns one thread and one operation, or the *)
(* VM and the clock: StepKept, MoveKept and WorldKept say what is left to  *)
(* show for each kind, and CommitKept does it for the commits.             *)
(***************************************************************************)
EXTENDS GuidedUnlockInvariant, TLAPS

OpRows == [status : OperationStatuses \cup {"none"}, att : {"no", "yes", "late"}, bound : BOOLEAN]
RecRows == [status : {"none", "leased", "retry_wait", "paused", "completed"},
            holder : Threads \cup {Free}, live : BOOLEAN, tries : 0..MaxAttempts]
LockRows == [owner : Ops \cup {Free}, active : BOOLEAN]
ThreadRows == [pc : Pcs, o : Ops \cup {Free}, goal : Ops \cup {Free}, fresh : BOOLEAN,
               leased : BOOLEAN, seen : OperationStatuses \cup {"none"}]

\* What the invariant says of one operation.
Sound(o) ==
  /\ Agreed(o)
  /\ op[o].status = "expired" => ran[o] # "inTime" \/ relocked
  /\ op[o].status \in {"awaiting_operator", "awaiting_verification", "verifying"} => Own(o)
  /\ op[o].status = "succeeded" => op[o].att # "no" /\ (vm = "none" \/ relocked)
  /\ op[o].status = "blocked" => ~shown[o]

\* What a step may do to one operation.
Orderly(o) ==
  /\ shown[o] /\ Own(o) /\ ~Own(o)' => op'[o].status \in {"succeeded", "expired"}
  /\ op[o].att # "no" =>
       op'[o].att = op[o].att /\ (op[o].status # op'[o].status => op'[o].status \notin {"expired", "blocked"})
  /\ rec[o].status = "completed" =>
       /\ rec'[o] = rec[o]
       /\ op'[o] # op[o] => op[o].status = "expired" /\ op'[o].att = "late"

Kept == IInv' /\ \A o \in Ops : Orderly(o)

-----------------------------------------------------------------------------
(* The invariant, by operation and by thread. *)

\* The invariant is the types, the operations' part and the threads' part.
LEMMA Parts == IInv <=> TypeOK /\ (\A o \in Ops : Sound(o)) /\ (\A t \in Threads : ThreadSound(t))
  BY DEF IInv, UnlockInv, RunInTimeIsNotExpired, HandoffHoldsLock, SuccessIsObserved,
         BlockedWasNeverShown, Sound

\* The same of the next state.
LEMMA PartsNext ==
  ASSUME TypeOK', \A o \in Ops : Sound(o)', \A t \in Threads : ThreadSound(t)'
  PROVE  IInv'
  BY DEF IInv, UnlockInv, RunInTimeIsNotExpired, HandoffHoldsLock, SuccessIsObserved,
         BlockedWasNeverShown, Sound

\* The types, row by row.
LEMMA Rows ==
  ASSUME IInv
  PROVE  /\ op \in [Ops -> OpRows] /\ rec \in [Ops -> RecRows] /\ lock \in LockRows
         /\ th \in [Threads -> ThreadRows]
         /\ \A o \in Ops : op[o] \in OpRows /\ rec[o] \in RecRows /\ Sound(o)
         /\ \A t \in Threads : th[t] \in ThreadRows /\ ThreadSound(t)
  <1>1. TypeOK /\ (\A o \in Ops : Sound(o)) /\ (\A t \in Threads : ThreadSound(t))
    BY Parts
  <1>2. /\ op \in [Ops -> OpRows] /\ rec \in [Ops -> RecRows] /\ lock \in LockRows
        /\ th \in [Threads -> ThreadRows]
    BY <1>1 DEF TypeOK, OpRows, RecRows, LockRows, ThreadRows
  <1> QED BY <1>1, <1>2

\* What is left to show of the types when only the ledger and the threads change.
LEMMA Typed ==
  ASSUME IInv, UNCHANGED world, faults' \in 0..MaxFaults, op' \in [Ops -> OpRows],
         rec' \in [Ops -> RecRows], lock' \in LockRows, th' \in [Threads -> ThreadRows]
  PROVE  TypeOK'
  <1>1. TypeOK
    BY DEF IInv, UnlockInv
  <1> QED BY <1>1 DEF TypeOK, world, OpRows, RecRows, LockRows, ThreadRows

\* A row that is put into the ledger has its type there.
LEMMA Put ==
  ASSUME NEW S, NEW T, NEW f \in [S -> T], NEW s \in S, NEW y \in T
  PROVE  [f EXCEPT ![s] = y] \in [S -> T]
  OBVIOUS

-----------------------------------------------------------------------------
(* Steps of one thread on one operation. *)

\* An operation the step is not about.
Untouched(p) == op'[p] = op[p] /\ rec'[p] = rec[p] /\ (Own(p) => Own(p)')

\* A thread that does not step while o is stepped on: a write outdates what it read.
Stands(u, o) ==
  /\ th'[u].pc = th[u].pc /\ th'[u].o = th[u].o /\ th'[u].goal = th[u].goal
  /\ th'[u].seen = th[u].seen /\ th'[u].leased = th[u].leased
  /\ th'[u].fresh => th[u].fresh /\ (th[u].o = o => op'[o] = op[o])

\* Nor does it gain a lease, or lose a lock that it holds a lease for.
Bystander(u, o) ==
  /\ Stands(u, o)
  /\ th[u].o \in Ops /\ HoldsLease(u)' => HoldsLease(u)
  /\ HoldsLease(u) /\ th[u].o = o /\ Own(o) => Own(o)'

\* A bystander's reading and memory stay good.
LEMMA BystanderKept ==
  ASSUME IInv, NEW o \in Ops, NEW u \in Threads, Bystander(u, o), UNCHANGED world,
         \A p \in Ops \ {o} : Untouched(p), NotedLate(o) => NotedLate(o)'
  PROVE  ThreadSound(u)'
  <1>1. ThreadSound(u)
    BY Rows
  <1>2. CASE At(u, "idle")
    <2>1. th'[u].pc = "idle"
      BY <1>2 DEF Bystander, Stands, At
    <2> QED BY <2>1 DEF ThreadSound, Works, RowRead, Remembered, At, Planning, Expiring, Inspecting
  <1>3. CASE ~At(u, "idle")
    <2>1. PICK p \in Ops : p = th[u].o
      BY <1>1, <1>3 DEF ThreadSound, Works
    <2>2. th'[u].pc = th[u].pc /\ th'[u].o = p /\ th'[u].goal = th[u].goal /\ th'[u].seen = th[u].seen
      BY <2>1 DEF Bystander, Stands
    <2>3. Works(u)'
      BY <1>1, <2>1, <2>2 DEF ThreadSound, Works, At
    <2>4. th'[u].fresh => th[u].fresh /\ op'[p] = op[p]
      BY <2>1 DEF Bystander, Stands, Untouched
    <2>5. RowRead(u)'
      BY <1>1, <2>1, <2>2, <2>4 DEF ThreadSound, RowRead, At
    <2>6. NotedLate(p) => NotedLate(p)'
      BY <2>1 DEF NotedLate, Untouched
    <2>7. HoldsLease(u)' => HoldsLease(u) /\ (Own(p) => Own(p)')
      BY <2>1 DEF Bystander, Untouched
    <2>8. Remembered(u)'
      <3>1. Remembered(u)
        BY <1>1 DEF ThreadSound
      <3> QED BY <3>1, <2>1, <2>2, <2>6, <2>7 DEF Remembered, Removed, world, At
    <2> QED BY <2>3, <2>5, <2>8 DEF ThreadSound
  <1> QED BY <1>2, <1>3

\* A step on o: what is left to show is about o and the thread that steps.
LEMMA StepKept ==
  ASSUME IInv, TypeOK', NEW o \in Ops, UNCHANGED world, \A p \in Ops \ {o} : Untouched(p),
         \A u \in Threads : Bystander(u, o) \/ ThreadSound(u)',
         NotedLate(o) => NotedLate(o)', Sound(o)', Orderly(o)
  PROVE  Kept
  <1>1. ASSUME NEW p \in Ops \ {o}
        PROVE  Sound(p)' /\ Orderly(p)
    <2>1. Untouched(p) /\ Sound(p)
      BY <1>1, Rows
    <2> QED BY <2>1 DEF Sound, Agreed, Orderly, Untouched, world
  <1>2. ASSUME NEW u \in Threads
        PROVE  ThreadSound(u)'
    BY <1>2, BystanderKept
  <1>3. IInv'
    <2>1. (\A p \in Ops : Sound(p)') /\ (\A u \in Threads : ThreadSound(u)')
      BY <1>1, <1>2
    <2> QED BY <2>1, PartsNext
  <1> QED BY <1>1, <1>3 DEF Kept

\* A step that only moves its thread.
LEMMA MoveKept ==
  ASSUME IInv, NEW t \in Threads, NEW y \in ThreadRows, th' = [th EXCEPT ![t] = y],
         UNCHANGED <<ledger, world>>, faults' \in 0..MaxFaults, ThreadSound(t)'
  PROVE  Kept
  <1>1. th' \in [Threads -> ThreadRows]
    BY Rows, Put
  <1>2. TypeOK'
    BY <1>1, Rows, Typed DEF ledger
  <1>3. ASSUME NEW o \in Ops
        PROVE  Sound(o)' /\ Orderly(o)
    BY Rows DEF Sound, Agreed, Orderly, Own, ledger, world
  <1>4. ASSUME NEW u \in Threads
        PROVE  ThreadSound(u)'
    <2>1. CASE u # t
      <3>1. th'[u] = th[u] /\ ThreadSound(u)
        BY <2>1, Rows
      <3> QED BY <3>1 DEF ThreadSound, Works, RowRead, Remembered, NotedLate, Removed, HoldsLease,
                          Own, At, ledger, world
    <2> QED BY <2>1
  <1> QED BY <1>2, <1>3, <1>4, PartsNext DEF Kept

-----------------------------------------------------------------------------
(* Moves: the ledger and the world stay. *)

\* Goto leaves the thread a row, in the place it names.
LEMMA Gone ==
  ASSUME IInv, NEW t \in Threads, NEW pc \in Pcs, pc # "idle", Goto(t, pc)
  PROVE  /\ th' = [th EXCEPT ![t] = [th[t] EXCEPT !.pc = pc]]
         /\ [th[t] EXCEPT !.pc = pc] \in ThreadRows
         /\ th'[t].pc = pc /\ th'[t].o = th[t].o /\ th'[t].goal = th[t].goal
         /\ th'[t].fresh = th[t].fresh /\ th'[t].leased = th[t].leased /\ th'[t].seen = th[t].seen
  <1>1. th \in [Threads -> ThreadRows] /\ th[t] \in ThreadRows
    BY Rows
  <1>2. th' = [th EXCEPT ![t] = [th[t] EXCEPT !.pc = pc]]
    BY DEF Goto, Go
  <1> QED BY <1>1, <1>2 DEF ThreadRows

\* A thread that is idle has nothing to be sound about.
LEMMA IdleSound ==
  ASSUME NEW t \in Threads, th'[t] = Idle
  PROVE  ThreadSound(t)'
  BY DEF ThreadSound, Works, RowRead, Remembered, At, Idle, Planning, Expiring, Inspecting

\* A thread between two calls is a thread.
LEMMA IdleRow == Idle \in ThreadRows
  BY DEF Idle, ThreadRows, Pcs

\* A thread that stops keeps everything.
LEMMA StopKept ==
  ASSUME IInv, NEW t \in Threads, Goto(t, "idle"), UNCHANGED <<ledger, world>>,
         faults' \in 0..MaxFaults
  PROVE  Kept
  <1>1. th' = [th EXCEPT ![t] = Idle] /\ th'[t] = Idle
    <2>1. th' = [th EXCEPT ![t] = Idle]
      BY DEF Goto, Go
    <2> QED BY <2>1, Rows
  <1> QED BY <1>1, IdleRow, IdleSound, MoveKept

\* The bound on faults.
LEMMA Bound ==
  ASSUME IInv
  PROVE  faults \in 0..MaxFaults /\ MaxFaults \in Nat /\ MaxAttempts \in Nat \ {0}
  BY GuidedAssumption DEF IInv, UnlockInv, TypeOK

\* A thread moves on and stays sound where it arrives.
LEMMA GotoKept ==
  ASSUME IInv, NEW t \in Threads, NEW pc \in Pcs, Goto(t, pc), UNCHANGED <<ledger, world, faults>>,
         pc # "idle" => ThreadSound(t)'
  PROVE  Kept
  <1>1. CASE pc = "idle"
    BY <1>1, StopKept, Bound
  <1>2. CASE pc # "idle"
    BY <1>2, Gone, MoveKept, Bound
  <1> QED BY <1>1, <1>2

\* A thread that reads o arrives with what it read.
LEMMA ReadOpKept ==
  ASSUME IInv, NEW t \in Threads, NEW o \in Ops, NEW pc \in Pcs, ReadOp(t, o, pc),
         UNCHANGED <<ledger, world, faults>>,
         pc # "idle" =>
           /\ pc \notin {"clear", "survey", "lateNote", "reopen", "attest", "verify", "expiryClear", "confirm"}
           /\ pc \in Planning => op[o].status = "planned"
           /\ pc \in Expiring => op[o].status = "awaiting_operator" /\ expired[o]
           /\ pc \in Inspecting => op[o].status = "verifying"
           /\ pc = "verifying" => op[o].att # "no" /\ Own(o)
  PROVE  Kept
  <1>1. CASE pc = "idle"
    <2>1. Goto(t, "idle")
      BY <1>1 DEF ReadOp, Goto, Go
    <2> QED BY <2>1, StopKept, Bound
  <1>2. CASE pc # "idle"
    <2> DEFINE y == [th[t] EXCEPT !.pc = pc, !.o = o, !.fresh = TRUE]
    <2>1. th \in [Threads -> ThreadRows] /\ th[t] \in ThreadRows
      BY Rows
    <2>2. y \in ThreadRows /\ y.pc = pc /\ y.o = o
      BY <2>1 DEF ThreadRows
    <2>3. th' = [th EXCEPT ![t] = y]
      BY <1>2 DEF ReadOp
    <2>4. th'[t] = y
      BY <2>1, <2>3
    <2> HIDE DEF y
    <2>5. Works(t)' /\ RowRead(t)'
      BY <1>2, <2>2, <2>4 DEF Works, RowRead, At, ledger
    <2>6. Remembered(t)'
      BY <1>2, <2>2, <2>4 DEF Remembered, At, ledger, world, Expiring, Own
    <2> QED BY <2>2, <2>3, <2>5, <2>6, MoveKept, Bound DEF ThreadSound
  <1> QED BY <1>1, <1>2

\* The same for a thread that will compare the status it saw.
LEMMA ReadForKept ==
  ASSUME IInv, NEW t \in Threads, NEW o \in Ops, NEW pc \in MarkPcs \cup {"verify"}, ReadFor(t, o, pc),
         UNCHANGED <<ledger, world, faults>>,
         pc = "lateNote" => op[o].status = "needs_reconciliation" /\ NotedLate(o),
         pc = "reopen" => op[o].status = "expired",
         pc = "attest" => op[o].status = "awaiting_operator",
         pc = "verify" => op[o].status \in Attested /\ op[o].att # "no"
  PROVE  Kept
  <1> DEFINE y == [th[t] EXCEPT !.pc = pc, !.o = o, !.fresh = TRUE, !.seen = op[o].status]
  <1>1. th \in [Threads -> ThreadRows] /\ th[t] \in ThreadRows /\ op[o] \in OpRows
    BY Rows
  <1>2. y \in ThreadRows /\ y.pc = pc /\ y.o = o /\ y.seen = op[o].status
    BY <1>1 DEF ThreadRows, OpRows, Pcs, MarkPcs
  <1>3. th' = [th EXCEPT ![t] = y]
    BY DEF ReadFor
  <1>4. th'[t] = y
    BY <1>1, <1>3
  <1> HIDE DEF y
  <1>5. Works(t)' /\ RowRead(t)'
    BY <1>2, <1>4 DEF Works, RowRead, At, ledger, MarkPcs, Planning, Expiring, Inspecting
  <1>6. Remembered(t)'
    BY <1>2, <1>4 DEF Remembered, At, ledger, world, MarkPcs, NotedLate
  <1> QED BY <1>2, <1>3, <1>5, <1>6, MoveKept, Bound DEF ThreadSound

\* A call to plan: for an operation that waits overdue, the clock was read.
LEMMA PlanKept ==
  ASSUME IInv, NEW t \in Users, NEW o \in Ops, Plan(t, o)
  PROVE  Kept
  <1> DEFINE pc == CASE op[o].status = "none" -> "clear"
                     [] op[o].status = "planned" -> "prepare"
                     [] op[o].status = "awaiting_operator" -> "overdue"
  <1> DEFINE y == [pc |-> pc, o |-> o, goal |-> o, fresh |-> TRUE, leased |-> FALSE, seen |-> "none"]
  <1>1. t \in Threads /\ th \in [Threads -> ThreadRows]
    BY Rows DEF Threads
  <1>2. /\ pc = "clear" \/ (pc = "prepare" /\ op[o].status = "planned")
                        \/ (pc = "overdue" /\ op[o].status = "awaiting_operator")
        /\ pc = "overdue" => expired[o]
    BY DEF Plan
  <1>3. th' = [th EXCEPT ![t] = y]
    BY DEF Plan
  <1> HIDE DEF pc
  <1>4. y \in ThreadRows /\ y.pc = pc /\ y.o = o /\ y.goal = o
    BY <1>2 DEF ThreadRows, Pcs
  <1>5. th'[t] = y
    BY <1>1, <1>3
  <1> HIDE DEF y
  <1>6. UNCHANGED <<ledger, world, faults>>
    BY DEF Plan, Local
  <1>7. Works(t)' /\ RowRead(t)'
    BY <1>2, <1>4, <1>5, <1>6 DEF Works, RowRead, At, ledger, Planning, Expiring, Inspecting
  <1>8. Remembered(t)'
    BY <1>2, <1>4, <1>5, <1>6 DEF Remembered, At, world
  <1> QED BY <1>1, <1>3, <1>4, <1>6, <1>7, <1>8, MoveKept, Bound DEF ThreadSound

\* The lock is read: the owner in the way is overdue, or the lock is busy.
LEMMA ClearKept ==
  ASSUME IInv, NEW t \in Threads, Clear(t)
  PROVE  Kept
  <1>1. At(t, "clear") /\ UNCHANGED <<ledger, world, faults>>
    BY DEF Clear, Local
  <1>2. th \in [Threads -> ThreadRows] /\ th[t] \in ThreadRows /\ th[t].goal \in Ops /\ lock.owner \in Ops \cup {Free}
    BY <1>1, Rows DEF ThreadSound, Works, At, LockRows
  <1>3. CASE lock.owner = Free /\ th' = [th EXCEPT ![t].pc = "survey", ![t].o = th[t].goal, ![t].leased = FALSE]
    <2> DEFINE y == [th[t] EXCEPT !.pc = "survey", !.o = th[t].goal, !.leased = FALSE]
    <2>1. y \in ThreadRows /\ y.pc = "survey" /\ y.o \in Ops /\ y.goal \in Ops
      BY <1>2 DEF ThreadRows, Pcs
    <2>2. th' = [th EXCEPT ![t] = y] /\ th'[t] = y
      <3>1. th' = [th EXCEPT ![t] = y]
        BY <1>2, <1>3
      <3> QED BY <3>1, <1>2
    <2> HIDE DEF y
    <2>3. ThreadSound(t)'
      BY <2>1, <2>2 DEF ThreadSound, Works, RowRead, Remembered, At, Planning, Expiring, Inspecting
    <2> QED BY <1>1, <2>1, <2>2, <2>3, MoveKept, Bound
  <1>4. CASE \E p \in Ops : op[p].status = "awaiting_operator" /\ expired[p] /\ ReadOp(t, p, "overdue")
    <2>1. /\ "overdue" \in Pcs /\ "overdue" \notin Planning \cup Inspecting
          /\ "overdue" \notin {"clear", "survey", "lateNote", "reopen", "attest", "verify",
                               "expiryClear", "confirm", "verifying"}
      BY DEF Pcs, Planning, Inspecting
    <2> QED BY <1>1, <1>4, <2>1, ReadOpKept
  <1>5. CASE Goto(t, "idle")
    BY <1>1, <1>5, StopKept, Bound
  <1> QED BY <1>2, <1>3, <1>4, <1>5, GuidedAssumption DEF Clear

\* The VM is surveyed: a plan is created, or there is nothing to unlock.
LEMMA SurveyKept ==
  ASSUME IInv, NEW t \in Threads, Survey(t)
  PROVE  Kept
  <1>1. UNCHANGED <<ledger, world, faults>> /\ ThreadSound(t) /\ th[t].pc = "survey"
    BY Rows DEF Survey, Local, At
  <1>2. CASE Goto(t, "idle")
    BY <1>1, <1>2, StopKept, Bound
  <1>3. CASE Goto(t, "create")
    <2>1. th'[t].pc = "create" /\ th'[t].o = th[t].o /\ "create" \in Pcs
      BY <1>3, Gone DEF Pcs
    <2>2. ThreadSound(t)'
      BY <1>1, <2>1 DEF ThreadSound, Works, RowRead, Remembered, At, Planning, Expiring, Inspecting
    <2> QED BY <1>1, <1>3, <2>1, <2>2, GotoKept
  <1> QED BY <1>2, <1>3 DEF Survey

\* From one place to the next while the status that was read stands; the next place remembers
\* nothing.
LEMMA OnKept ==
  ASSUME IInv, NEW t \in Threads, NEW pc \in Pcs, Goto(t, pc), UNCHANGED <<ledger, world, faults>>,
         ~At(t, "idle"),
         \/ th[t].pc \in Planning /\ pc \in Planning
         \/ At(t, "expiring") /\ pc \in {"expiryUnknown", "dirty"}
         \/ th[t].pc \in Inspecting /\ pc \in {"unverified", "mismatch"}
  PROVE  Kept
  <1>1. ThreadSound(t)
    BY Rows
  <1>2. pc # "idle"
    BY DEF Planning
  <1>3. th'[t].pc = pc /\ th'[t].o = th[t].o /\ th'[t].fresh = th[t].fresh
    BY <1>2, Gone
  <1>4. Works(t)' /\ RowRead(t)'
    BY <1>1, <1>3 DEF ThreadSound, Works, RowRead, At, ledger, Planning, Expiring, Inspecting
  <1>5. Remembered(t)'
    BY <1>3 DEF Remembered, At, Planning
  <1> QED BY <1>4, <1>5, GotoKept DEF ThreadSound

\* The state of the VM decides whether the planned instruction is still the right one.
LEMMA ObserveBeforeHandoffKept ==
  ASSUME IInv, NEW t \in Threads, ObserveBeforeHandoff(t)
  PROVE  Kept
  <1>1. PICK pc \in {"dropBlocked", "same", "changed"} : Goto(t, pc)
    BY DEF ObserveBeforeHandoff
  <1>2. UNCHANGED <<ledger, world, faults>> /\ th[t].pc \in Planning /\ pc \in Planning /\ ~At(t, "idle")
    BY <1>1 DEF ObserveBeforeHandoff, Local, At, Planning
  <1>3. pc \in Pcs
    BY <1>1 DEF Pcs, CommitPcs
  <1> QED BY <1>1, <1>2, <1>3, OnKept

\* The lock is there at expiry: the command was not run in time, or the lock was set again.
LEMMA ObserveAtExpiryKept ==
  ASSUME IInv, NEW t \in Threads, ObserveAtExpiry(t)
  PROVE  Kept
  <1>1. UNCHANGED <<ledger, world, faults>> /\ th[t].pc = "expiring" /\ ~At(t, "idle") /\ ThreadSound(t)
    BY Rows DEF ObserveAtExpiry, Local, At
  <1>2. PICK pc \in {"expiryUnknown", "expiryClear", "dirty"} :
          Goto(t, pc) /\ (pc = "expiryClear" => vm = "held")
    BY DEF ObserveAtExpiry
  <1>3. pc \in Pcs
    BY <1>2 DEF Pcs, CommitPcs
  <1>4. CASE pc # "expiryClear"
    BY <1>1, <1>2, <1>3, <1>4, OnKept DEF At
  <1>5. CASE pc = "expiryClear"
    <2>1. th'[t].pc = pc /\ th'[t].o = th[t].o /\ th'[t].fresh = th[t].fresh /\ th[t].o \in Ops
      BY <1>1, <1>2, <1>3, <1>5, Gone DEF ThreadSound, Works, At
    <2>2. Works(t)' /\ RowRead(t)'
      BY <1>1, <1>5, <2>1 DEF ThreadSound, Works, RowRead, At, ledger, Planning, Expiring, Inspecting
    <2>3. PICK o \in Ops : o = th[t].o
      BY <2>1
    <2>4. expired[o] /\ (ran[o] # "inTime" \/ relocked)
      <3>1. Sound(o)
        BY Rows
      <3>2. expired[o]
        BY <1>1, <2>3 DEF ThreadSound, Remembered
      <3> QED BY <1>2, <1>5, <3>1, <3>2 DEF Sound, Agreed
    <2>5. Remembered(t)'
      BY <1>1, <1>5, <2>1, <2>3, <2>4 DEF Remembered, At, world
    <2> QED BY <1>1, <1>2, <1>3, <2>2, <2>5, GotoKept DEF ThreadSound
  <1> QED BY <1>4, <1>5

\* An attestation begins with the status that it will compare.
LEMMA AttestKept ==
  ASSUME IInv, NEW t \in Users, NEW o \in Ops, Attest(t, o)
  PROVE  Kept
  <1>1. t \in Threads /\ UNCHANGED <<ledger, world, faults>> /\ Sound(o)
    BY Rows DEF Threads, Attest, Local
  <1>2. CASE op[o].status = "needs_reconciliation" /\ op[o].att = "no" /\ ReadFor(t, o, "lateNote")
    <2>1. NotedLate(o)
      BY <1>1, <1>2 DEF NotedLate, Sound, Agreed
    <2> QED BY <1>1, <1>2, <2>1, ReadForKept DEF MarkPcs
  <1>3. CASE op[o].status = "expired" /\ ReadFor(t, o, "reopen")
    BY <1>1, <1>3, ReadForKept DEF MarkPcs
  <1>4. CASE op[o].status = "awaiting_operator" /\ ReadFor(t, o, "attest")
    BY <1>1, <1>4, ReadForKept DEF MarkPcs
  <1> QED BY <1>2, <1>3, <1>4 DEF Attest

\* So does a verification.
LEMMA VerifyKept ==
  ASSUME IInv, NEW t \in Users, NEW o \in Ops, Verify(t, o)
  PROVE  Kept
  <1>1. t \in Threads /\ UNCHANGED <<ledger, world, faults>>
    BY DEF Threads, Verify, Local
  <1> QED BY <1>1, ReadForKept DEF Verify, MarkPcs

\* Only a VM without the lock confirms.
LEMMA InspectKept ==
  ASSUME IInv, NEW t \in Threads, Inspect(t)
  PROVE  Kept
  <1>1. UNCHANGED <<ledger, world, faults>> /\ th[t].pc = "inspect" /\ ~At(t, "idle") /\ ThreadSound(t)
    BY Rows DEF Inspect, Local, At
  <1>2. PICK pc \in {"unverified", "mismatch", "confirm"} :
          Goto(t, pc) /\ (pc = "confirm" => vm = "none")
    BY DEF Inspect
  <1>3. pc \in Pcs
    BY <1>2 DEF Pcs, CommitPcs
  <1>4. CASE pc # "confirm"
    BY <1>1, <1>2, <1>3, <1>4, OnKept DEF Inspecting
  <1>5. CASE pc = "confirm"
    <2>1. th'[t].pc = pc /\ th'[t].o = th[t].o /\ th'[t].fresh = th[t].fresh /\ th[t].o \in Ops
      BY <1>1, <1>2, <1>3, <1>5, Gone DEF ThreadSound, Works, At
    <2>2. Works(t)' /\ RowRead(t)'
      BY <1>1, <1>5, <2>1 DEF ThreadSound, Works, RowRead, At, ledger, Planning, Expiring, Inspecting
    <2>3. Remembered(t)'
      BY <1>1, <1>2, <1>5, <2>1 DEF Remembered, Removed, At, world
    <2> QED BY <1>1, <1>2, <1>3, <2>2, <2>3, GotoKept DEF ThreadSound
  <1> QED BY <1>4, <1>5

\* Recovery reads the operation, and judges by what it reads.
LEMMA RecoverKept ==
  ASSUME IInv, NEW t \in Threads, Recover(t)
  PROVE  Kept
  <1>1. UNCHANGED <<ledger, world, faults>> /\ th[t].pc = "recover" /\ ThreadSound(t)
    BY Rows DEF Recover, Local, At
  <1>2. PICK o \in Ops : o = th[t].o
    BY <1>1 DEF ThreadSound, Works, At
  <1>3. PICK pc \in {"relock", "stillActive", "expiring", "dirty", "unattested", "lateOnly", "verifying",
                     "lockGone", "ineligible"} :
          /\ ReadOp(t, o, pc)
          /\ pc = "relock" => op[o].status = "planned"
          /\ pc = "expiring" => op[o].status = "awaiting_operator" /\ expired[o]
          /\ pc = "verifying" => op[o].att # "no" /\ Own(o)
    <2>1. CASE op[o].status = "planned"
      BY <1>2, <2>1 DEF Recover, Attested
    <2>2. CASE op[o].status = "awaiting_operator"
      <3>1. op[o].status \notin Attested \cup {"planned"}
        BY <2>2 DEF Attested
      <3>2. CASE expired[o] /\ Own(o)
        BY <1>2, <2>2, <3>1, <3>2 DEF Recover
      <3>3. CASE expired[o] /\ ~Own(o)
        BY <1>2, <2>2, <3>1, <3>3 DEF Recover
      <3>4. CASE ~expired[o]
        BY <1>2, <2>2, <3>1, <3>4 DEF Recover
      <3> QED BY <3>2, <3>3, <3>4
    <2>3. CASE op[o].status \in Attested
      <3>1. op[o].status \notin {"planned", "awaiting_operator"}
        BY <2>3 DEF Attested
      <3>2. CASE op[o].att = "no"
        <4>1. ~Verifiable(op[o])
          BY <3>2 DEF Verifiable
        <4> QED BY <1>2, <2>3, <3>1, <3>2, <4>1 DEF Recover
      <3>3. CASE op[o].att # "no" /\ ~Verifiable(op[o])
        BY <1>2, <2>3, <3>1, <3>3 DEF Recover
      <3>4. CASE op[o].att # "no" /\ Verifiable(op[o])
        BY <1>2, <2>3, <3>1, <3>4 DEF Recover
      <3> QED BY <3>2, <3>3, <3>4
    <2>4. CASE op[o].status \notin Attested \cup {"planned", "awaiting_operator"}
      BY <1>2, <2>4 DEF Recover
    <2> QED BY <2>1, <2>2, <2>3, <2>4
  <1>4. pc \in Pcs
    BY <1>3 DEF Pcs, CommitPcs
  <1>5. /\ pc \notin {"idle", "clear", "survey", "lateNote", "reopen", "attest", "verify", "expiryClear", "confirm"}
        /\ pc \in Planning => pc = "relock"
        /\ pc \in Expiring => pc = "expiring"
        /\ pc \notin Inspecting
    BY <1>3 DEF Planning, Expiring, Inspecting
  <1> QED BY <1>1, <1>3, <1>4, <1>5, ReadOpKept

\* The lock of a plan is read once more.
LEMMA RecheckLockKept ==
  ASSUME IInv, NEW t \in Threads, RecheckLock(t)
  PROVE  Kept
  <1>1. PICK pc \in {"bind", "noLock"} : Goto(t, pc)
    BY DEF RecheckLock
  <1>2. pc \in Pcs /\ pc \in Planning
    BY <1>1 DEF Pcs, CommitPcs, Planning
  <1>3. UNCHANGED <<ledger, world, faults>> /\ th[t].pc \in Planning /\ ~At(t, "idle")
    BY DEF RecheckLock, Local, At, Planning
  <1> QED BY <1>1, <1>2, <1>3, OnKept

\* A crash forgets what its thread was about, and nothing else.
LEMMA CrashKept ==
  ASSUME IInv, NEW t \in Threads, Crash(t)
  PROVE  Kept
  <1>1. faults' \in 0..MaxFaults
    BY Bound DEF Crash
  <1> QED BY <1>1, StopKept DEF Crash

-----------------------------------------------------------------------------
(* The VM and the clock. *)

\* A step of the world takes nothing back: what is over stays over.
LEMMA WorldKept ==
  ASSUME IInv, UNCHANGED <<ledger, th>>, TypeOK',
         \A o \in Ops : /\ expired[o] => expired'[o]
                        /\ expired[o] /\ (ran[o] # "inTime" \/ relocked) => ran'[o] # "inTime" \/ relocked'
                        /\ Sound(o)',
         Removed => Removed'
  PROVE  Kept
  <1>1. \A o \in Ops : Orderly(o)
    BY DEF Orderly, Own, ledger
  <1>2. ASSUME NEW t \in Threads
        PROVE  ThreadSound(t)'
    <2>1. ThreadSound(t)
      BY Rows
    <2>2. Works(t)' /\ RowRead(t)'
      BY <2>1 DEF ThreadSound, Works, RowRead, At, ledger
    <2>3. Remembered(t)'
      <3>1. CASE At(t, "idle")
        BY <3>1 DEF Remembered, At
      <3>2. CASE ~At(t, "idle")
        <4>1. PICK o \in Ops : o = th[t].o
          BY <2>1, <3>2 DEF ThreadSound, Works
        <4>2. At(t, "expiryClear") => expired[o]
          BY <2>1, <4>1 DEF ThreadSound, Remembered, At
        <4> QED BY <2>1, <4>1, <4>2 DEF ThreadSound, Remembered, NotedLate, HoldsLease, Own, At, ledger
      <3> QED BY <3>1, <3>2
    <2> QED BY <2>2, <2>3 DEF ThreadSound
  <1> QED BY <1>1, <1>2, PartsNext DEF Kept

\* The types of the world.
LEMMA WorldTyped ==
  ASSUME IInv
  PROVE  /\ vm \in {"none", "held", "other"} /\ expired \in [Ops -> BOOLEAN] /\ shown \in [Ops -> BOOLEAN]
         /\ ran \in [Ops -> {"no", "inTime", "late"}] /\ relocked \in BOOLEAN
  BY DEF IInv, UnlockInv, TypeOK

\* The command is shown to somebody.
LEMMA ShowKept ==
  ASSUME IInv, NEW p \in Ops, ShowInstruction(p)
  PROVE  Kept
  <1>1. /\ op[p].status = "awaiting_operator" /\ shown' = [shown EXCEPT ![p] = TRUE]
        /\ UNCHANGED <<ledger, th, expired, vm, ran, relocked, faults>>
    BY DEF ShowInstruction
  <1>2. TypeOK'
    BY <1>1 DEF IInv, UnlockInv, TypeOK, ledger
  <1>3. ASSUME NEW o \in Ops
        PROVE  Sound(o)'
    <2>1. Sound(o) /\ (shown'[o] # shown[o] => o = p)
      BY <1>1, Rows, WorldTyped
    <2>2. shown[o] => shown'[o]
      BY <1>1, WorldTyped
    <2> QED BY <1>1, <2>1, <2>2 DEF Sound, Agreed, Own, ledger, Unshown
  <1> QED BY <1>1, <1>2, <1>3, WorldKept DEF Removed

\* Whoever saw the command runs it.
LEMMA RunKept ==
  ASSUME IInv, NEW p \in Ops, RunCommand(p)
  PROVE  Kept
  <1>1. /\ shown[p] /\ ran[p] = "no" /\ vm' \in {"none", "other"} /\ (vm = "none" => vm' = "none")
        /\ ran' = [ran EXCEPT ![p] = IF expired[p] THEN "late" ELSE "inTime"]
        /\ UNCHANGED <<ledger, th, expired, shown, relocked, faults>>
    BY DEF RunCommand
  <1>2. TypeOK'
    BY <1>1 DEF IInv, UnlockInv, TypeOK, ledger
  <1>3. /\ \A o \in Ops \ {p} : ran'[o] = ran[o]
        /\ expired[p] => ran'[p] = "late"
    BY <1>1, WorldTyped
  <1>4. ASSUME NEW o \in Ops
        PROVE  /\ Sound(o)'
               /\ expired[o] /\ (ran[o] # "inTime" \/ relocked) => ran'[o] # "inTime" \/ relocked'
    <2>1. Sound(o)
      BY Rows
    <2>2. expired[o] /\ (ran[o] # "inTime" \/ relocked) => ran'[o] # "inTime" \/ relocked'
      BY <1>1, <1>3
    <2>3. ~shown[o] => ran'[o] = "no"
      BY <1>1, <1>3, <2>1 DEF Sound, Agreed
    <2> QED BY <1>1, <2>1, <2>2, <2>3 DEF Sound, Agreed, Own, ledger
  <1> QED BY <1>1, <1>2, <1>4, WorldKept DEF Removed

\* Somebody else changes the VM: a lock that comes back is one that was set again.
LEMMA DriftKept ==
  ASSUME IInv, VmDrifts
  PROVE  Kept
  <1>1. /\ vm' \in {"none", "held", "other"} /\ UNCHANGED <<ledger, th, expired, shown, ran>>
        /\ faults < MaxFaults /\ faults' = faults + 1
        /\ relocked' = (relocked \/ vm = "none" \/ (vm' = "held" /\ \E o \in Ops : ran[o] # "no"))
    BY DEF VmDrifts
  <1>2. TypeOK'
    <2>1. faults' \in 0..MaxFaults
      BY <1>1, Bound
    <2>2. relocked' \in BOOLEAN
      BY <1>1
    <2> QED BY <1>1, <2>1, <2>2 DEF IInv, UnlockInv, TypeOK, ledger
  <1>3. (relocked => relocked') /\ (vm = "none" => relocked')
    BY <1>1
  <1>4. ASSUME NEW o \in Ops
        PROVE  Sound(o)'
    <2>1. Sound(o) /\ (ran[o] # "no" => vm' # "held" \/ relocked')
      BY <1>1, Rows
    <2> QED BY <1>1, <1>3, <2>1 DEF Sound, Agreed, Own, ledger
  <1> QED BY <1>1, <1>2, <1>3, <1>4, WorldKept DEF Removed

\* The time of an instruction comes.
LEMMA ExpireKept ==
  ASSUME IInv, NEW p \in Ops, Expire(p)
  PROVE  Kept
  <1>1. /\ expired' = [expired EXCEPT ![p] = TRUE]
        /\ UNCHANGED <<ledger, th, vm, shown, ran, relocked, faults>>
    BY DEF Expire
  <1>2. TypeOK'
    BY <1>1 DEF IInv, UnlockInv, TypeOK, ledger
  <1>3. \A o \in Ops : expired[o] => expired'[o]
    BY <1>1, WorldTyped
  <1>4. ASSUME NEW o \in Ops
        PROVE  Sound(o)'
    BY <1>1, <1>3, Rows DEF Sound, Agreed, Own, ledger
  <1> QED BY <1>1, <1>2, <1>3, <1>4, WorldKept DEF Removed

-----------------------------------------------------------------------------
(* Leases and locks. *)

\* The lease of o goes to t, or to nobody, or stays; and its lock goes only under t's lease.
Leases(t, o) ==
  /\ \/ rec'[o] = rec[o]
     \/ rec'[o].status # "leased" \/ ~rec'[o].live
     \/ rec'[o].holder = t
  /\ Own(o) /\ ~Own(o)' => HoldsLease(t) /\ th[t].o = o

\* Then the others are bystanders.
LEMMA Bystanders ==
  ASSUME IInv, NEW t \in Threads, NEW o \in Ops, NEW u \in Threads \ {t}, Leases(t, o),
         Stands(u, o), \A p \in Ops \ {o} : Untouched(p)
  PROVE  Bystander(u, o)
  <1>1. ASSUME th[u].o \in Ops, HoldsLease(u)'
        PROVE  HoldsLease(u)
    <2>1. CASE th[u].o = o
      BY <1>1, <2>1 DEF HoldsLease, Leases, Stands
    <2>2. CASE th[u].o # o
      <3>1. Untouched(th[u].o)
        BY <1>1, <2>2
      <3> QED BY <1>1, <3>1 DEF HoldsLease, Stands, Untouched
    <2> QED BY <2>1, <2>2
  <1>2. ASSUME HoldsLease(u), th[u].o = o, Own(o), ~Own(o)'
        PROVE  FALSE
    <2>1. rec[o].holder = t /\ rec[o].holder = u
      BY <1>2 DEF HoldsLease, Leases
    <2> QED BY <2>1
  <1> QED BY <1>1, <1>2 DEF Bystander

\* A step of t on o.
LEMMA ThreadStepKept ==
  ASSUME IInv, NEW t \in Threads, NEW o \in Ops, TypeOK', UNCHANGED world, Leases(t, o),
         \A p \in Ops \ {o} : Untouched(p), \A u \in Threads \ {t} : Stands(u, o),
         NotedLate(o) => NotedLate(o)', Sound(o)', Orderly(o), ThreadSound(t)'
  PROVE  Kept
  <1>1. ASSUME NEW u \in Threads
        PROVE  Bystander(u, o) \/ ThreadSound(u)'
    <2>1. CASE u = t
      BY <2>1
    <2>2. CASE u # t
      BY <2>2, Bystanders
    <2> QED BY <2>1, <2>2
  <1> QED BY <1>1, StepKept

\* A claim takes work that is not finished.
LEMMA ClaimedWork ==
  ASSUME IInv, NEW t \in Threads, NEW o \in Ops, Claimed(o, t), UNCHANGED <<op, lock, world>>,
         Claimable(o) \/ rec[o].status = "none" \/ Due(o)
  PROVE  /\ rec' \in [Ops -> RecRows] /\ Leases(t, o) /\ (\A p \in Ops \ {o} : Untouched(p))
         /\ Sound(o)' /\ Orderly(o) /\ (NotedLate(o) => NotedLate(o)')
  <1>1. rec \in [Ops -> RecRows] /\ rec[o] \in RecRows /\ Sound(o)
    BY Rows
  <1>2. rec[o].status # "completed"
    BY DEF Claimable, Due
  <1> DEFINE r == [status |-> "leased", holder |-> t, live |-> TRUE, tries |-> Attempt(rec[o].tries)]
  <1>3. Attempt(rec[o].tries) \in 0..MaxAttempts
    BY <1>1, Bound DEF RecRows, Attempt
  <1>4. r \in RecRows /\ r.status = "leased" /\ r.holder = t
    BY <1>3 DEF RecRows
  <1>5. rec' = [rec EXCEPT ![o] = r]
    BY DEF Claimed
  <1> HIDE DEF r
  <1>6. rec' \in [Ops -> RecRows] /\ rec'[o] = r /\ \A p \in Ops \ {o} : rec'[p] = rec[p]
    BY <1>1, <1>4, <1>5
  <1>7. Leases(t, o) /\ \A p \in Ops \ {o} : Untouched(p)
    BY <1>4, <1>6 DEF Leases, Untouched, Own
  <1>8. Sound(o)' /\ Orderly(o)
    BY <1>1, <1>2, <1>4, <1>6 DEF Sound, Agreed, Orderly, Own, world
  <1>9. NotedLate(o) => NotedLate(o)'
    BY <1>4, <1>6 DEF NotedLate
  <1> QED BY <1>6, <1>7, <1>8, <1>9

\* The lease is taken against the operation as it was read.
LEMMA TakeLeaseKept ==
  ASSUME IInv, NEW t \in Threads, NEW pc \in {"acquire", "expiring", "verifying"}, TakeLease(t, pc),
         UNCHANGED <<op, lock, world, faults>>, ~At(t, "idle"),
         pc = "acquire" => At(t, "prepare"),
         pc = "expiring" => At(t, "overdue"),
         pc = "verifying" => At(t, "verify") /\ Own(th[t].o)
  PROVE  Kept
  <1>1. PICK o \in Ops : o = th[t].o
    BY Rows DEF ThreadSound, Works
  <1>2. th \in [Threads -> ThreadRows] /\ th[t] \in ThreadRows /\ ThreadSound(t)
    BY Rows
  <1>3. CASE Goto(t, "idle") /\ UNCHANGED rec
    BY <1>3, StopKept, Bound DEF ledger
  <1>4. CASE /\ th[t].fresh /\ (Claimable(o) \/ rec[o].status = "none") /\ Claimed(o, t)
             /\ th' = [th EXCEPT ![t].pc = pc, ![t].leased = TRUE]
    <2> DEFINE y == [th[t] EXCEPT !.pc = pc, !.leased = TRUE]
    <2>1. y \in ThreadRows /\ y.pc = pc /\ y.o = o /\ y.fresh
      BY <1>1, <1>2, <1>4 DEF ThreadRows, Pcs, CommitPcs
    <2>2. th' = [th EXCEPT ![t] = y]
      BY <1>2, <1>4
    <2>3. th'[t] = y /\ th' \in [Threads -> ThreadRows]
      BY <1>2, <2>1, <2>2
    <2> HIDE DEF y
    <2>4. \A u \in Threads \ {t} : Stands(u, o)
      BY <1>2, <2>2 DEF Stands
    <2>5. /\ rec' \in [Ops -> RecRows] /\ Leases(t, o) /\ (\A p \in Ops \ {o} : Untouched(p))
          /\ Sound(o)' /\ Orderly(o) /\ (NotedLate(o) => NotedLate(o)')
      BY <1>4, ClaimedWork
    <2>6. TypeOK'
      BY <2>3, <2>5, Rows, Typed, Bound
    <2>7. /\ pc = "acquire" => op[o].status = "planned"
          /\ pc = "expiring" => op[o].status = "awaiting_operator" /\ expired[o]
          /\ pc = "verifying" => op[o].att # "no"
      BY <1>1, <1>2, <1>4 DEF ThreadSound, RowRead, Remembered, At, Planning, Expiring
    <2>8. Works(t)' /\ RowRead(t)'
      BY <1>1, <2>1, <2>3, <2>7 DEF Works, RowRead, At, Planning, Expiring, Inspecting
    <2>9. Remembered(t)'
      BY <1>1, <2>1, <2>3, <2>7 DEF Remembered, At, world, Own
    <2> QED BY <2>4, <2>5, <2>6, <2>8, <2>9, ThreadStepKept DEF ThreadSound
  <1> QED BY <1>1, <1>3, <1>4 DEF TakeLease

\* The planner prepares or claims the recovery work.
LEMMA PrepareRecoveryKept ==
  ASSUME IInv, NEW t \in Threads, PrepareRecovery(t)
  PROVE  Kept
  <1>1. At(t, "prepare") /\ ~At(t, "idle") /\ TakeLease(t, "acquire") /\ UNCHANGED <<op, lock, world, faults>>
    BY DEF PrepareRecovery, At
  <1> QED BY <1>1, TakeLeaseKept

\* The runner or an operator takes the work.
LEMMA ClaimWorkKept ==
  ASSUME IInv, NEW t \in Observers, NEW o \in Ops, ClaimWork(t, o)
  PROVE  Kept
  <1>1. /\ t \in Threads /\ Claimed(o, t) /\ UNCHANGED <<op, lock, world, faults>>
        /\ th' = [th EXCEPT ![t] = Recovering(o)] /\ (Claimable(o) \/ rec[o].status = "none" \/ Due(o))
    BY DEF ClaimWork, Threads
  <1>2. th \in [Threads -> ThreadRows]
    BY Rows
  <1>3. PICK y \in ThreadRows : y = Recovering(o) /\ y.pc = "recover" /\ y.o = o
    <2>1. Idle \in ThreadRows /\ "recover" \in Pcs
      BY IdleRow DEF Pcs
    <2>2. Recovering(o) \in ThreadRows /\ Recovering(o).pc = "recover" /\ Recovering(o).o = o
      BY <2>1 DEF Recovering, ThreadRows
    <2> QED BY <2>2
  <1>4. th'[t] = y /\ th' \in [Threads -> ThreadRows] /\ \A u \in Threads \ {t} : Stands(u, o)
    BY <1>1, <1>2, <1>3 DEF Stands
  <1>5. /\ rec' \in [Ops -> RecRows] /\ Leases(t, o) /\ (\A p \in Ops \ {o} : Untouched(p))
        /\ Sound(o)' /\ Orderly(o) /\ (NotedLate(o) => NotedLate(o)')
    BY <1>1, ClaimedWork
  <1>6. TypeOK'
    BY <1>1, <1>4, <1>5, Rows, Typed, Bound
  <1>7. ThreadSound(t)'
    BY <1>3, <1>4 DEF ThreadSound, Works, RowRead, Remembered, At, Planning, Expiring, Inspecting
  <1> QED BY <1>1, <1>4, <1>5, <1>6, <1>7, ThreadStepKept

\* A lease runs out: what its holder knew under it no longer matters.
LEMMA LeaseExpiresKept ==
  ASSUME IInv, NEW o \in Ops, LeaseExpires(o)
  PROVE  Kept
  <1>1. /\ rec[o].status = "leased" /\ rec' = [rec EXCEPT ![o].live = FALSE]
        /\ UNCHANGED <<op, lock, world, th>>
    BY DEF LeaseExpires
  <1>2. rec \in [Ops -> RecRows] /\ rec[o] \in RecRows /\ Sound(o)
    BY Rows
  <1>3. PICK r \in RecRows : r = [rec[o] EXCEPT !.live = FALSE] /\ r.status = "leased" /\ ~r.live
    <2> DEFINE z == [rec[o] EXCEPT !.live = FALSE]
    <2>1. z \in RecRows /\ z.status = "leased" /\ ~z.live
      BY <1>1, <1>2 DEF RecRows
    <2> QED BY <2>1
  <1>4. /\ rec' \in [Ops -> RecRows] /\ rec'[o] = r /\ \A p \in Ops \ {o} : rec'[p] = rec[p]
    BY <1>1, <1>2, <1>3
  <1>5. faults' \in 0..MaxFaults
    BY Bound DEF LeaseExpires
  <1>6. TypeOK'
    BY <1>1, <1>4, <1>5, Rows, Typed
  <1>7. \A p \in Ops \ {o} : Untouched(p)
    BY <1>1, <1>4 DEF Untouched, Own
  <1>8. Sound(o)' /\ Orderly(o) /\ (NotedLate(o) => NotedLate(o)')
    BY <1>1, <1>2, <1>3, <1>4 DEF Sound, Agreed, Orderly, NotedLate, Own, world
  <1>9. ASSUME NEW u \in Threads
        PROVE  Bystander(u, o)
    <2>1. Stands(u, o) /\ (Own(o) => Own(o)')
      BY <1>1 DEF Stands, Own
    <2>2. th[u].o \in Ops /\ HoldsLease(u)' => HoldsLease(u)
      <3>1. CASE th[u].o = o
        BY <1>1, <1>3, <1>4, <3>1 DEF HoldsLease
      <3>2. CASE th[u].o # o
        BY <1>1, <1>4, <3>2 DEF HoldsLease
      <3> QED BY <3>1, <3>2
    <2> QED BY <2>1, <2>2 DEF Bystander
  <1> QED BY <1>1, <1>6, <1>7, <1>8, <1>9, StepKept

\* The lock is free and taken, or it is read.
LEMMA AcquireLockKept ==
  ASSUME IInv, NEW t \in Threads, AcquireLock(t)
  PROVE  Kept
  <1>1. th[t].pc = "acquire" /\ ~At(t, "idle") /\ UNCHANGED <<op, rec, world, faults>> /\ ThreadSound(t)
    BY Rows DEF AcquireLock, At
  <1>2. PICK o \in Ops : o = th[t].o
    BY <1>1 DEF ThreadSound, Works
  <1>3. CASE UNCHANGED lock /\ \E pc \in {"bind", "noLock"} : Goto(t, pc)
    <2>1. PICK pc \in {"bind", "noLock"} : Goto(t, pc)
      BY <1>3
    <2>2. pc \in Pcs /\ pc \in Planning /\ th[t].pc \in Planning
      BY <1>1 DEF Pcs, CommitPcs, Planning
    <2> QED BY <1>1, <1>3, <2>1, <2>2, OnKept DEF ledger
  <1>4. CASE lock.owner = Free /\ lock' = [owner |-> o, active |-> TRUE] /\ Goto(t, "bind")
    <2>1. "bind" \in Pcs /\ "bind" # "idle"
      BY DEF Pcs, CommitPcs
    <2>2. /\ th' \in [Threads -> ThreadRows]
          /\ th'[t].pc = "bind" /\ th'[t].o = o /\ th'[t].fresh = th[t].fresh
          /\ \A u \in Threads \ {t} : th'[u] = th[u]
      <3>1. /\ th' = [th EXCEPT ![t] = [th[t] EXCEPT !.pc = "bind"]]
            /\ [th[t] EXCEPT !.pc = "bind"] \in ThreadRows /\ th \in [Threads -> ThreadRows]
            /\ th'[t].pc = "bind" /\ th'[t].o = o /\ th'[t].fresh = th[t].fresh
        BY <1>2, <1>4, <2>1, Gone, Rows
      <3> QED BY <3>1
    <2>3. lock' \in LockRows /\ Own(o)' /\ \A p \in Ops : ~Own(p)
      BY <1>4, GuidedAssumption DEF LockRows, Own
    <2>4. TypeOK'
      BY <1>1, <2>2, <2>3, Rows, Typed, Bound
    <2>5. (\A p \in Ops \ {o} : Untouched(p)) /\ Leases(t, o)
      BY <1>1, <2>3 DEF Untouched, Leases
    <2>6. \A u \in Threads \ {t} : Stands(u, o)
      BY <1>1, <2>2 DEF Stands
    <2>7. Sound(o)' /\ Orderly(o) /\ (NotedLate(o) => NotedLate(o)')
      BY <1>1, <2>3, Rows DEF Sound, Agreed, Orderly, NotedLate, world
    <2>8. Works(t)' /\ RowRead(t)' /\ Remembered(t)'
      BY <1>1, <1>2, <2>2 DEF ThreadSound, Works, RowRead, Remembered, At, Planning, Expiring, Inspecting
    <2> QED BY <1>1, <2>4, <2>5, <2>6, <2>7, <2>8, ThreadStepKept DEF ThreadSound
  <1> QED BY <1>2, <1>3, <1>4 DEF AcquireLock

-----------------------------------------------------------------------------
(* Writes to an operation. *)

\* A write puts the row, and outdates what every other thread has read of the operation.
LEMMA Written ==
  ASSUME IInv, NEW t \in Threads, NEW o \in Ops, th[t].o = o, NEW row \in OpRows, NEW pc \in Pcs,
         Write(t, o, row, pc)
  PROVE  /\ op' \in [Ops -> OpRows] /\ op'[o] = row /\ (\A p \in Ops \ {o} : op'[p] = op[p])
         /\ th' \in [Threads -> ThreadRows] /\ (\A u \in Threads \ {t} : Stands(u, o))
         /\ pc = "idle" => th'[t] = Idle
         /\ pc # "idle" => /\ th'[t].pc = pc /\ th'[t].o = o /\ th'[t].goal = th[t].goal
                           /\ th'[t].leased = th[t].leased
  <1>1. op \in [Ops -> OpRows] /\ th \in [Threads -> ThreadRows] /\ th[t] \in ThreadRows
    BY Rows
  <1>2. op' \in [Ops -> OpRows] /\ op'[o] = row /\ (\A p \in Ops \ {o} : op'[p] = op[p])
    BY <1>1 DEF Write
  <1>3. PICK y \in ThreadRows :
          /\ y = IF pc = "idle" THEN Idle ELSE [th[t] EXCEPT !.pc = pc, !.fresh = TRUE]
          /\ pc # "idle" => y.pc = pc /\ y.o = o /\ y.goal = th[t].goal /\ y.leased = th[t].leased
    <2> DEFINE z == [th[t] EXCEPT !.pc = pc, !.fresh = TRUE]
    <2>1. z \in ThreadRows /\ z.pc = pc /\ z.o = o /\ z.goal = th[t].goal /\ z.leased = th[t].leased
      BY <1>1 DEF ThreadRows
    <2> HIDE DEF z
    <2>2. CASE pc = "idle"
      BY <2>2, IdleRow
    <2>3. CASE pc # "idle"
      BY <2>1, <2>3 DEF z
    <2> QED BY <2>2, <2>3
  <1>4. th' = [u \in Threads |-> IF u = t THEN y
                                 ELSE IF th[u].o = o THEN [th[u] EXCEPT !.fresh = FALSE] ELSE th[u]]
    BY <1>3 DEF Write
  <1>5. th'[t] = y
    BY <1>4
  <1>6. ASSUME NEW u \in Threads \ {t}
        PROVE  Stands(u, o) /\ th'[u] \in ThreadRows
    <2>1. th[u] \in ThreadRows
      BY <1>1
    <2>2. CASE th[u].o = o
      <3> DEFINE z == [th[u] EXCEPT !.fresh = FALSE]
      <3>1. /\ z \in ThreadRows /\ z.pc = th[u].pc /\ z.o = th[u].o /\ z.goal = th[u].goal
            /\ z.seen = th[u].seen /\ z.leased = th[u].leased /\ ~z.fresh
        BY <2>1 DEF ThreadRows
      <3>2. th'[u] = z
        BY <1>4, <2>2
      <3> HIDE DEF z
      <3> QED BY <3>1, <3>2 DEF Stands
    <2>3. CASE th[u].o # o
      <3>1. th'[u] = th[u]
        BY <1>4, <2>3
      <3> QED BY <2>1, <2>3, <3>1 DEF Stands
    <2> QED BY <2>2, <2>3
  <1>7. th' \in [Threads -> ThreadRows]
    BY <1>4, <1>5, <1>6
  <1> QED BY <1>2, <1>3, <1>5, <1>6, <1>7

\* A place where nothing is remembered of an operation.
Plain == {"idle", "clear"}

\* A write of one row that leaves its thread in such a place.
LEMMA WriteKept ==
  ASSUME IInv, NEW t \in Threads, NEW o \in Ops, th[t].o = o, NEW row \in OpRows, NEW pc \in Pcs,
         Write(t, o, row, pc), UNCHANGED <<world, faults>>,
         rec' \in [Ops -> RecRows], \A p \in Ops \ {o} : rec'[p] = rec[p] /\ (Own(p) => Own(p)'),
         lock' \in LockRows, Leases(t, o),
         NotedLate(o) => NotedLate(o)', Sound(o)', Orderly(o),
         \/ pc = "idle" \/ (pc = "clear" /\ th[t].goal \in Ops)
         \/ pc \in Planning /\ row.status = "planned"
         \/ pc = "inspect" /\ row.status = "verifying"
  PROVE  Kept
  <1>1. /\ op' \in [Ops -> OpRows] /\ op'[o] = row /\ (\A p \in Ops \ {o} : op'[p] = op[p])
        /\ th' \in [Threads -> ThreadRows] /\ (\A u \in Threads \ {t} : Stands(u, o))
        /\ pc = "idle" => th'[t] = Idle
        /\ pc # "idle" => th'[t].pc = pc /\ th'[t].o = o /\ th'[t].goal = th[t].goal
    BY Written
  <1>2. TypeOK'
    BY <1>1, Typed, Bound
  <1>3. \A p \in Ops \ {o} : Untouched(p)
    BY <1>1 DEF Untouched
  <1>4. ThreadSound(t)'
    <2>1. CASE pc = "idle"
      BY <1>1, <2>1, IdleSound
    <2>2. CASE pc # "idle"
      <3>1. th'[t].pc = pc /\ th'[t].o = o /\ th'[t].goal = th[t].goal /\ op'[o].status = row.status
        BY <1>1, <2>2
      <3>2. CASE pc = "clear" /\ th[t].goal \in Ops
        BY <3>1, <3>2 DEF ThreadSound, Works, RowRead, Remembered, At, Planning, Expiring, Inspecting
      <3>3. CASE pc \in Planning /\ row.status = "planned"
        BY <3>1, <3>3 DEF ThreadSound, Works, RowRead, Remembered, At, Planning, Expiring, Inspecting
      <3>4. CASE pc = "inspect" /\ row.status = "verifying"
        BY <3>1, <3>4 DEF ThreadSound, Works, RowRead, Remembered, At, Planning, Expiring, Inspecting
      <3> QED BY <2>2, <3>2, <3>3, <3>4
    <2> QED BY <2>1, <2>2
  <1> QED BY <1>1, <1>2, <1>3, <1>4, ThreadStepKept

\* The plan is created, or another call created it.
LEMMA CreatePlanKept ==
  ASSUME IInv, NEW t \in Threads, CreatePlan(t)
  PROVE  Kept
  <1>1. th[t].pc = "create" /\ ~At(t, "idle") /\ UNCHANGED <<rec, lock, world, faults>>
    BY DEF CreatePlan, At
  <1>2. PICK o \in Ops : o = th[t].o
    BY <1>1, Rows DEF ThreadSound, Works
  <1>3. op[o] \in OpRows /\ Sound(o) /\ rec \in [Ops -> RecRows] /\ lock \in LockRows
    BY Rows
  <1>4. CASE op[o].status = "none" /\ Write(t, o, [op[o] EXCEPT !.status = "planned"], "prepare")
    <2> DEFINE row == [op[o] EXCEPT !.status = "planned"]
    <2>1. row \in OpRows /\ row.status = "planned" /\ row.att = op[o].att
      BY <1>3 DEF OpRows, OperationStatuses
    <2>2. Write(t, o, row, "prepare") /\ "prepare" \in Pcs /\ "prepare" \in Planning
      BY <1>4 DEF Pcs, Planning
    <2> HIDE DEF row
    <2>3. op'[o] = row
      BY <1>2, <2>1, <2>2, Written
    <2>4. Sound(o)' /\ Orderly(o) /\ ~NotedLate(o)
      BY <1>1, <1>3, <1>4, <2>1, <2>3
         DEF Sound, Agreed, Orderly, NotedLate, Own, world, Unattested, Unshown
    <2>5. /\ Leases(t, o) /\ (\A p \in Ops \ {o} : rec'[p] = rec[p] /\ (Own(p) => Own(p)'))
          /\ rec' \in [Ops -> RecRows] /\ lock' \in LockRows
      BY <1>1, <1>3 DEF Leases, Own
    <2> QED BY <1>1, <1>2, <2>1, <2>2, <2>4, <2>5, WriteKept
  <1>5. CASE UNCHANGED op /\ \E pc \in {"prepare", "idle"} :
               ReadOp(t, o, pc) /\ (pc = "prepare" => op[o].status = "planned")
    <2>1. PICK pc \in {"prepare", "idle"} : ReadOp(t, o, pc) /\ (pc = "prepare" => op[o].status = "planned")
      BY <1>5
    <2>2. pc \in Pcs /\ pc \notin Expiring /\ pc \notin Inspecting
      BY DEF Pcs, Expiring, Inspecting
    <2> QED BY <1>1, <1>5, <2>1, <2>2, ReadOpKept DEF ledger
  <1>6. op[o].status # "none" => UNCHANGED op /\ ReadOp(t, o, IF op[o].status = "planned" THEN "prepare" ELSE "idle")
    BY <1>2 DEF CreatePlan
  <1>7. op[o].status = "none" => Write(t, o, [op[o] EXCEPT !.status = "planned"], "prepare")
    BY <1>2 DEF CreatePlan
  <1>8. CASE op[o].status = "planned"
    BY <1>5, <1>6, <1>8
  <1>9. CASE op[o].status \notin {"none", "planned"}
    BY <1>5, <1>6, <1>9
  <1> QED BY <1>4, <1>7, <1>8, <1>9

\* What a transition that compares nothing but the status may write.
Notes(o, status, att) ==
  /\ att \in {"no", "yes", "late"} /\ (op[o].att # "no" => att = op[o].att)
  /\ \/ status = "needs_reconciliation" /\ (NotedLate(o) => att # "yes")
     \/ status = "awaiting_verification" /\ att = "yes" /\ Own(o) /\ op[o].status = "awaiting_operator"
  /\ rec[o].status = "completed" => op[o].status = "expired" /\ status = "needs_reconciliation" /\ att = "late"

\* A transition keeps everything if the status it compares justifies what it writes.
LEMMA TransitionKept ==
  ASSUME IInv, NEW t \in Threads, NEW o \in Ops, th[t].o = o, NEW status, NEW att,
         Transition(t, status, att), UNCHANGED <<rec, lock, world, faults>>,
         op[o].status = th[t].seen => Notes(o, status, att)
  PROVE  Kept
  <1>1. op[o] \in OpRows /\ Sound(o) /\ rec \in [Ops -> RecRows] /\ lock \in LockRows
    BY Rows
  <1>2. CASE op[o].status # th[t].seen
    <2>1. Goto(t, "idle") /\ UNCHANGED op
      BY <1>2 DEF Transition
    <2> QED BY <2>1, StopKept, Bound DEF ledger
  <1>3. CASE op[o].status = th[t].seen
    <2>1. Notes(o, status, att) /\ Write(t, o, [op[o] EXCEPT !.status = status, !.att = att], "idle")
      BY <1>3 DEF Transition
    <2>2. status \in {"needs_reconciliation", "awaiting_verification"} /\ att \in {"no", "yes", "late"}
      BY <2>1 DEF Notes
    <2> DEFINE row == [op[o] EXCEPT !.status = status, !.att = att]
    <2>3. row \in OpRows /\ row.status = status /\ row.att = att
      BY <1>1, <2>2 DEF OpRows, OperationStatuses
    <2>4. Write(t, o, row, "idle") /\ "idle" \in Pcs
      BY <2>1 DEF Pcs
    <2> HIDE DEF row
    <2>5. op'[o] = row
      BY <2>3, <2>4, Written
    <2>6. Sound(o)'
      BY <1>1, <2>1, <2>2, <2>3, <2>5 DEF Sound, Agreed, Notes, Own, world, Unattested, Unshown
    <2>7. Orderly(o)
      BY <2>1, <2>2, <2>3, <2>5 DEF Orderly, Notes, Own
    <2>8. NotedLate(o) => NotedLate(o)'
      BY <2>1, <2>3, <2>5 DEF NotedLate, Notes
    <2>9. /\ Leases(t, o) /\ (\A p \in Ops \ {o} : rec'[p] = rec[p] /\ (Own(p) => Own(p)'))
          /\ rec' \in [Ops -> RecRows] /\ lock' \in LockRows
      BY <1>1 DEF Leases, Own
    <2> QED BY <2>3, <2>4, <2>6, <2>7, <2>8, <2>9, WriteKept
  <1> QED BY <1>2, <1>3

\* An attestation is marked, in time or late.
LEMMA MarkKept ==
  ASSUME IInv, NEW t \in Threads, Mark(t)
  PROVE  Kept
  <1>1. /\ th[t].pc \in {"lateNote", "reopen", "attest"} /\ ~At(t, "idle")
        /\ UNCHANGED <<rec, lock, world, faults>>
    BY DEF Mark, MarkPcs, At
  <1>2. PICK o \in Ops : o = th[t].o
    BY <1>1, Rows DEF ThreadSound, Works
  <1>3. Sound(o) /\ Remembered(t) /\ op[o] \in OpRows
    BY Rows DEF ThreadSound
  <1>4. CASE At(t, "attest") /\ ~Own(o)
    <2>1. Transition(t, "needs_reconciliation", op[o].att)
      BY <1>2, <1>4 DEF Mark
    <2>2. op[o].status # th[t].seen
      BY <1>2, <1>3, <1>4 DEF Remembered, Sound
    <2> QED BY <1>1, <1>2, <2>1, <2>2, TransitionKept
  <1>5. CASE At(t, "attest") /\ Own(o) /\ lock.active /\ ~expired[o]
    <2>1. Transition(t, "awaiting_verification", "yes")
      BY <1>2, <1>5 DEF Mark
    <2>2. op[o].status = th[t].seen => Notes(o, "awaiting_verification", "yes")
      BY <1>2, <1>3, <1>5 DEF Remembered, Sound, Agreed, Notes, Unattested
    <2> QED BY <1>1, <1>2, <2>1, <2>2, TransitionKept
  <1>6. CASE ~(At(t, "attest") /\ (~Own(o) \/ (lock.active /\ ~expired[o])))
    <2>1. Transition(t, "needs_reconciliation", "late")
      BY <1>2, <1>6 DEF Mark
    <2>2. op[o].status = th[t].seen => Notes(o, "needs_reconciliation", "late")
      <3>1. CASE At(t, "lateNote")
        BY <1>2, <1>3, <3>1 DEF Remembered, NotedLate, Notes, OpRows
      <3>2. CASE At(t, "reopen")
        BY <1>2, <1>3, <3>2 DEF Remembered, Sound, Agreed, Notes, Unattested
      <3>3. CASE At(t, "attest")
        BY <1>2, <1>3, <3>3 DEF Remembered, Sound, Agreed, Notes, Unattested
      <3> QED BY <1>1, <3>1, <3>2, <3>3 DEF At
    <2> QED BY <1>1, <1>2, <2>1, <2>2, TransitionKept
  <1> QED BY <1>4, <1>5, <1>6

\* A verification takes the lease, or hands the operation to reconciliation.
LEMMA JudgeVerificationKept ==
  ASSUME IInv, NEW t \in Threads, JudgeVerification(t)
  PROVE  Kept
  <1>1. th[t].pc = "verify" /\ At(t, "verify") /\ ~At(t, "idle") /\ UNCHANGED <<lock, world, faults>>
    BY DEF JudgeVerification, At
  <1>2. PICK o \in Ops : o = th[t].o
    BY <1>1, Rows DEF ThreadSound, Works
  <1>3. Sound(o) /\ th[t].seen \in Attested /\ op[o] \in OpRows
    BY <1>1, Rows DEF ThreadSound, Remembered, At
  <1>4. CASE Own(o) /\ TakeLease(t, "verifying") /\ UNCHANGED op
    BY <1>1, <1>2, <1>4, TakeLeaseKept
  <1>5. CASE /\ th[t].seen # "needs_reconciliation" /\ Transition(t, "needs_reconciliation", op[o].att)
             /\ UNCHANGED rec
    <2>1. op[o].status = th[t].seen => Notes(o, "needs_reconciliation", op[o].att)
      BY <1>3, <1>5 DEF Sound, Agreed, Notes, NotedLate, OpRows, Attested
    <2> QED BY <1>1, <1>2, <1>5, <2>1, TransitionKept
  <1>6. CASE Goto(t, "idle") /\ UNCHANGED <<op, rec>>
    BY <1>1, <1>6, StopKept, Bound DEF ledger
  <1> QED BY <1>2, <1>4, <1>5, <1>6 DEF JudgeVerification

-----------------------------------------------------------------------------
(* Commits under a lease. *)

\* A holder of the lease, whose lock is o's.
LEMMA OneHolder ==
  ASSUME NEW t \in Threads, NEW o \in Ops, th[t].o = o, HoldsLease(t)
  PROVE  rec[o].status = "leased" /\ rec[o].holder = t
  BY DEF HoldsLease

\* What a handler raises is absorbed: the work waits or is paused.
LEMMA AbsorbedKept ==
  ASSUME IInv, NEW t \in Threads, ~At(t, "idle"), HoldsLease(t), Absorbed(t), UNCHANGED world,
         faults' \in 0..MaxFaults
  PROVE  Kept
  <1>1. PICK o \in Ops : o = th[t].o
    BY Rows DEF ThreadSound, Works
  <1>2. /\ Write(t, o, op[o], "idle") /\ UNCHANGED lock
        /\ rec' = [rec EXCEPT ![o].status = RetryStatus(o), ![o].live = FALSE, ![o].holder = Free]
    BY <1>1 DEF Absorbed
  <1>3. op[o] \in OpRows /\ rec \in [Ops -> RecRows] /\ rec[o] \in RecRows /\ lock \in LockRows /\ Sound(o)
    BY Rows
  <1>4. PICK r \in RecRows : /\ r = [rec[o] EXCEPT !.status = RetryStatus(o), !.live = FALSE, !.holder = Free]
                             /\ r.status \in {"paused", "retry_wait"}
    <2> DEFINE z == [rec[o] EXCEPT !.status = RetryStatus(o), !.live = FALSE, !.holder = Free]
    <2>1. z \in RecRows /\ z.status \in {"paused", "retry_wait"}
      BY <1>3 DEF RecRows, RetryStatus
    <2> QED BY <2>1
  <1>5. rec' = [rec EXCEPT ![o] = r]
    BY <1>2, <1>3, <1>4
  <1>6. rec' \in [Ops -> RecRows] /\ rec'[o] = r /\ (\A p \in Ops \ {o} : rec'[p] = rec[p])
    BY <1>3, <1>5
  <1>7. "idle" \in Pcs
    BY DEF Pcs
  <1>8. /\ op' \in [Ops -> OpRows] /\ op'[o] = op[o] /\ (\A p \in Ops \ {o} : op'[p] = op[p])
        /\ th' \in [Threads -> ThreadRows] /\ (\A u \in Threads \ {t} : Stands(u, o)) /\ th'[t] = Idle
    BY <1>1, <1>2, <1>3, <1>7, Written
  <1>9. rec[o].status = "leased"
    BY <1>1, OneHolder
  <1>10. TypeOK'
    BY <1>2, <1>3, <1>6, <1>8, Typed
  <1>11. Leases(t, o) /\ \A p \in Ops \ {o} : Untouched(p)
    BY <1>2, <1>4, <1>6, <1>8 DEF Leases, Untouched, Own
  <1>12. Sound(o)' /\ Orderly(o) /\ (NotedLate(o) => NotedLate(o)')
    BY <1>2, <1>3, <1>4, <1>6, <1>8, <1>9 DEF Sound, Agreed, Orderly, NotedLate, Own, world
  <1>13. ThreadSound(t)'
    BY <1>8, IdleSound
  <1> QED BY <1>8, <1>10, <1>11, <1>12, <1>13, ThreadStepKept

\* Whether a handler's failure is absorbed or a call's is answered.
LEMMA FailedKept ==
  ASSUME IInv, NEW t \in Threads, ~At(t, "idle"), Failed(t), UNCHANGED <<world, faults>>
  PROVE  Kept
  <1>1. CASE t \in Observers /\ HoldsLease(t)
    BY <1>1, AbsorbedKept, Bound DEF Failed
  <1>2. CASE ~(t \in Observers /\ HoldsLease(t))
    BY <1>2, StopKept, Bound DEF Failed
  <1> QED BY <1>1, <1>2

\* What a commit may write of an operation that nobody wrote since it was read.
Admits(o, status, work, release) ==
  \/ status = op[o].status /\ work # "completed" /\ ~release
  \/ status = "needs_reconciliation" /\ work # "completed" /\ ~release
  \/ status = "blocked" /\ op[o].status = "planned"
  \/ status = "expired" /\ op[o].status = "planned" /\ expired[o]
  \/ /\ status = "expired" /\ op[o].status = "awaiting_operator"
     /\ expired[o] /\ (ran[o] # "inTime" \/ relocked)
  \/ status = "awaiting_operator" /\ op[o].status = "planned" /\ Own(o) /\ work # "completed" /\ ~release
  \/ status = "verifying" /\ op[o].att # "no" /\ Own(o) /\ work # "completed" /\ ~release
  \/ status = "succeeded" /\ op[o].status = "verifying" /\ Removed

\* The row, the work and the lock that a commit leaves.
Commits(t, o, status, work, release) ==
  /\ HoldsLease(t) /\ Admits(o, status, work, release) /\ (release => Own(o))
  /\ op'[o].status = status /\ op'[o].att = op[o].att
  /\ rec'[o].status = work
  /\ \A p \in Ops : Own(p)' <=> Own(p) /\ ~release

\* They agree again.
LEMMA CommitSound ==
  ASSUME IInv, NEW t \in Threads, NEW o \in Ops, th[t].o = o, NEW status, NEW work, NEW release \in BOOLEAN,
         Commits(t, o, status, work, release), UNCHANGED world
  PROVE  Sound(o)' /\ Orderly(o) /\ (NotedLate(o) => NotedLate(o)')
  <1>1. Sound(o) /\ rec[o].status = "leased"
    BY Rows, OneHolder DEF Commits
  <1>2. ~shown[o] => ran[o] = "no"
    BY <1>1 DEF Sound, Agreed
  <1>3. /\ op'[o].status = status /\ op'[o].att = op[o].att /\ rec'[o].status = work
        /\ Own(o)' <=> Own(o) /\ ~release
    BY DEF Commits
  <1>4. CASE status = op[o].status /\ work # "completed" /\ ~release
    BY <1>1, <1>3, <1>4 DEF Sound, Agreed, Orderly, NotedLate, world
  <1>5. CASE status = "needs_reconciliation" /\ work # "completed" /\ ~release
    BY <1>1, <1>3, <1>5 DEF Sound, Agreed, Orderly, NotedLate, world, Unattested, Unshown
  <1>6. CASE status = "blocked" /\ op[o].status = "planned"
    BY <1>1, <1>3, <1>6 DEF Sound, Agreed, Orderly, NotedLate, world, Unattested, Unshown
  <1>7. CASE status = "expired" /\ op[o].status = "planned" /\ expired[o]
    BY <1>1, <1>2, <1>3, <1>7 DEF Sound, Agreed, Orderly, NotedLate, world, Unattested, Unshown
  <1>8. CASE /\ status = "expired" /\ op[o].status = "awaiting_operator"
             /\ expired[o] /\ (ran[o] # "inTime" \/ relocked)
    BY <1>1, <1>3, <1>8 DEF Sound, Agreed, Orderly, NotedLate, world, Unattested, Unshown
  <1>9. CASE status = "awaiting_operator" /\ op[o].status = "planned" /\ Own(o) /\ work # "completed" /\ ~release
    BY <1>1, <1>3, <1>9 DEF Sound, Agreed, Orderly, NotedLate, world, Unattested, Unshown
  <1>10. CASE status = "verifying" /\ op[o].att # "no" /\ Own(o) /\ work # "completed" /\ ~release
    BY <1>1, <1>3, <1>10 DEF Sound, Agreed, Orderly, NotedLate, world, Unattested, Unshown
  <1>11. CASE status = "succeeded" /\ op[o].status = "verifying" /\ Removed
    BY <1>1, <1>3, <1>11 DEF Sound, Agreed, Orderly, NotedLate, Removed, world, Unattested, Unshown
  <1> QED BY <1>4, <1>5, <1>6, <1>7, <1>8, <1>9, <1>10, <1>11 DEF Commits, Admits

\* A commit keeps everything if what was read, and is still so, admits what it writes.
LEMMA CommitKept ==
  ASSUME IInv, NEW t \in Threads, NEW o \in Ops, th[t].o = o, NEW status \in OperationStatuses \cup {"none"},
         NEW work \in {"leased", "retry_wait", "paused", "completed"}, NEW release \in BOOLEAN, NEW pc \in Pcs,
         ~At(t, "idle"), CommitTo(t, status, work, release, pc), UNCHANGED <<world, faults>>,
         pc = "idle" \/ (pc = "clear" /\ th[t].goal \in Ops) \/ (pc = "inspect" /\ status = "verifying"),
         th[t].fresh => Admits(o, status, work, release)
  PROVE  Kept
  <1>1. CASE ~MayCommit(t, status, work, release)
    BY <1>1, FailedKept DEF CommitTo
  <1>2. CASE MayCommit(t, status, work, release)
    <2>1. HoldsLease(t) /\ Admits(o, status, work, release) /\ (release => Own(o))
      BY <1>2 DEF MayCommit
    <2>2. /\ Write(t, o, [op[o] EXCEPT !.status = status], pc)
          /\ rec' = [rec EXCEPT ![o].status = work, ![o].live = (work = "leased"),
                                ![o].holder = IF work = "leased" THEN @ ELSE Free]
          /\ lock' = IF release THEN NoLock
                     ELSE IF status = "needs_reconciliation" /\ op[o].status # status
                          THEN [lock EXCEPT !.active = FALSE] ELSE lock
      BY <1>2 DEF CommitTo
    <2>3. op[o] \in OpRows /\ rec \in [Ops -> RecRows] /\ rec[o] \in RecRows /\ lock \in LockRows
      BY Rows
    <2>4. PICK row \in OpRows : row = [op[o] EXCEPT !.status = status] /\ row.status = status /\ row.att = op[o].att
      <3> DEFINE z == [op[o] EXCEPT !.status = status]
      <3>1. z \in OpRows /\ z.status = status /\ z.att = op[o].att
        BY <2>3 DEF OpRows
      <3> QED BY <3>1
    <2>5. PICK h \in Threads \cup {Free} :
            h = IF work = "leased" THEN rec[o].holder ELSE Free
      BY <2>3 DEF RecRows
    <2>6. PICK r \in RecRows : /\ r = [rec[o] EXCEPT !.status = work, !.live = (work = "leased"), !.holder = h]
                               /\ r.status = work /\ (work = "leased" => r.holder = rec[o].holder)
      <3> DEFINE z == [rec[o] EXCEPT !.status = work, !.live = (work = "leased"), !.holder = h]
      <3>1. z \in RecRows /\ z.status = work /\ z.holder = h
        BY <2>3 DEF RecRows
      <3> QED BY <2>5, <3>1
    <2>7. rec' = [rec EXCEPT ![o] = r]
      BY <2>2, <2>3, <2>5, <2>6
    <2>8. rec' \in [Ops -> RecRows] /\ rec'[o] = r /\ (\A p \in Ops \ {o} : rec'[p] = rec[p])
      BY <2>3, <2>7
    <2>9. lock' \in LockRows /\ \A p \in Ops : Own(p)' <=> Own(p) /\ ~release
      <3>1. CASE release
        BY <2>2, <3>1, GuidedAssumption DEF NoLock, LockRows, Own
      <3>2. CASE ~release
        BY <2>2, <2>3, <3>2 DEF LockRows, Own
      <3> QED BY <3>1, <3>2
    <2>10. Write(t, o, row, pc)
      BY <2>2, <2>4
    <2>11. op'[o] = row
      BY <2>10, Written
    <2>12. Commits(t, o, status, work, release)
      BY <2>1, <2>4, <2>6, <2>8, <2>9, <2>11 DEF Commits
    <2>13. Sound(o)' /\ Orderly(o) /\ (NotedLate(o) => NotedLate(o)')
      BY <2>12, CommitSound
    <2>14. Leases(t, o) /\ \A p \in Ops \ {o} : Own(p) => Own(p)'
      <3>1. rec[o].holder = t
        BY <2>1, OneHolder
      <3>2. \A p \in Ops \ {o} : Own(p) => ~release
        BY <2>1 DEF Own
      <3> QED BY <2>1, <2>6, <2>8, <2>9, <3>1, <3>2 DEF Leases
    <2>15. \/ pc = "idle" \/ (pc = "clear" /\ th[t].goal \in Ops)
           \/ pc = "inspect" /\ row.status = "verifying"
      BY <2>4
    <2> QED BY <2>8, <2>9, <2>10, <2>13, <2>14, <2>15, WriteKept
  <1> QED BY <1>1, <1>2

\* A commit that ends its thread's work, or its detour.
LEMMA EndKept ==
  ASSUME IInv, NEW t \in Threads, ~At(t, "idle"), NEW status \in OperationStatuses \cup {"none"},
         NEW work \in {"leased", "retry_wait", "paused", "completed"}, NEW release \in BOOLEAN,
         NEW pc \in {"idle", "clear"}, CommitTo(t, status, work, release, pc), UNCHANGED <<world, faults>>,
         pc = "clear" => pc = Onward(t),
         th[t].fresh => Admits(th[t].o, status, work, release)
  PROVE  Kept
  <1>1. th[t].o \in Ops /\ th[t] \in ThreadRows /\ pc \in Pcs
    BY Rows DEF ThreadSound, Works, Pcs
  <1>2. pc = "clear" => th[t].goal \in Ops
    BY <1>1 DEF Onward, ThreadRows
  <1> QED BY <1>1, <1>2, CommitKept

\* A plan that found the VM lock taken is closed.
LEMMA CloseWithoutLockKept ==
  ASSUME IInv, NEW t \in Threads, CloseWithoutLock(t)
  PROVE  Kept
  <1>1. /\ th[t].pc = "noLock" /\ ~At(t, "idle") /\ UNCHANGED <<world, faults>>
        /\ CommitTo(t, "blocked", "completed", FALSE, "idle") /\ ThreadSound(t)
    BY Rows DEF CloseWithoutLock, Commit, At
  <1>2. th[t].fresh => Admits(th[t].o, "blocked", "completed", FALSE)
    BY <1>1 DEF ThreadSound, RowRead, Planning, Admits
  <1> QED BY <1>1, <1>2, EndKept DEF OperationStatuses

\* An instruction that was not issued is dropped, and its lock released.
LEMMA DropUnissuedKept ==
  ASSUME IInv, NEW t \in Threads, DropUnissued(t)
  PROVE  Kept
  <1>1. /\ th[t].pc = "dropBlocked" /\ ~At(t, "idle") /\ UNCHANGED <<world, faults>>
        /\ CommitTo(t, "blocked", "completed", TRUE, "idle") /\ ThreadSound(t)
    BY Rows DEF DropUnissued, Commit, At
  <1>2. th[t].fresh => Admits(th[t].o, "blocked", "completed", TRUE)
    BY <1>1 DEF ThreadSound, RowRead, Planning, Admits
  <1> QED BY <1>1, <1>2, EndKept DEF OperationStatuses

\* The lock is bound to the plan.
LEMMA BindLockKept ==
  ASSUME IInv, NEW t \in Threads, BindLock(t)
  PROVE  Kept
  <1>1. th[t].pc = "bind" /\ ~At(t, "idle") /\ UNCHANGED <<world, faults>> /\ ThreadSound(t)
    BY Rows DEF BindLock, At
  <1>2. PICK o \in Ops : o = th[t].o
    BY <1>1 DEF ThreadSound, Works
  <1>3. op[o] \in OpRows /\ rec \in [Ops -> RecRows] /\ lock \in LockRows /\ Sound(o)
    BY Rows
  <1>4. "observe" \in Pcs /\ "observe" \in Planning /\ th[t].pc \in Planning
    BY <1>1 DEF Pcs, Planning
  <1>5. CASE Goto(t, "observe") /\ UNCHANGED ledger
    BY <1>1, <1>4, <1>5, OnKept
  <1>6. CASE Failed(t)
    BY <1>1, <1>6, FailedKept
  <1>7. CASE /\ MayCommit(t, "planned", "leased", FALSE) /\ UNCHANGED <<rec, lock>>
             /\ Write(t, o, [op[o] EXCEPT !.bound = TRUE], "observe")
    <2> DEFINE row == [op[o] EXCEPT !.bound = TRUE]
    <2>1. row \in OpRows /\ row.status = op[o].status /\ row.att = op[o].att
      BY <1>3 DEF OpRows
    <2>2. Write(t, o, row, "observe")
      BY <1>7
    <2> HIDE DEF row
    <2>3. op'[o] = row
      BY <1>2, <1>4, <2>1, <2>2, Written
    <2>4. op[o].status = "planned" /\ rec[o].status = "leased"
      BY <1>1, <1>2, <1>4, <1>7, OneHolder DEF MayCommit, ThreadSound, RowRead
    <2>5. Sound(o)' /\ Orderly(o) /\ (NotedLate(o) => NotedLate(o)')
      BY <1>1, <1>3, <1>7, <2>1, <2>3, <2>4 DEF Sound, Agreed, Orderly, NotedLate, Own, world
    <2>6. /\ Leases(t, o) /\ (\A p \in Ops \ {o} : rec'[p] = rec[p] /\ (Own(p) => Own(p)'))
          /\ rec' \in [Ops -> RecRows] /\ lock' \in LockRows
      BY <1>3, <1>7 DEF Leases, Own
    <2> QED BY <1>1, <1>2, <1>4, <2>1, <2>2, <2>4, <2>5, <2>6, WriteKept
  <1> QED BY <1>2, <1>5, <1>6, <1>7 DEF BindLock

\* The instruction is handed off under the lock, while the VM is as planned, in time.
LEMMA HandoffKept ==
  ASSUME IInv, NEW t \in Threads, Handoff(t)
  PROVE  Kept
  <1>1. th[t].pc \in {"same", "changed"} /\ ~At(t, "idle") /\ UNCHANGED <<world, faults>> /\ ThreadSound(t)
    BY Rows DEF Handoff, At
  <1>2. PICK o \in Ops : o = th[t].o
    BY <1>1 DEF ThreadSound, Works
  <1>3. th[t].fresh => op[o].status = "planned"
    BY <1>1, <1>2 DEF ThreadSound, RowRead, Planning
  <1>4. CASE ~Own(o)
    <2>1. CommitTo(t, "blocked", "paused", FALSE, "idle")
      BY <1>2, <1>4 DEF Handoff
    <2>2. th[t].fresh => Admits(th[t].o, "blocked", "paused", FALSE)
      BY <1>2, <1>3 DEF Admits
    <2> QED BY <1>1, <2>1, <2>2, EndKept DEF OperationStatuses
  <1>5. CASE Own(o) /\ At(t, "changed")
    <2>1. CommitTo(t, "blocked", "completed", TRUE, "idle")
      BY <1>2, <1>5 DEF Handoff, At
    <2>2. th[t].fresh => Admits(th[t].o, "blocked", "completed", TRUE)
      BY <1>2, <1>3 DEF Admits
    <2> QED BY <1>1, <2>1, <2>2, EndKept DEF OperationStatuses
  <1>6. CASE Own(o) /\ At(t, "same") /\ expired[o]
    <2>1. CommitTo(t, "expired", "completed", TRUE, "idle")
      BY <1>2, <1>6 DEF Handoff, At
    <2>2. th[t].fresh => Admits(th[t].o, "expired", "completed", TRUE)
      BY <1>2, <1>3, <1>6 DEF Admits
    <2> QED BY <1>1, <2>1, <2>2, EndKept DEF OperationStatuses
  <1>7. CASE Own(o) /\ At(t, "same") /\ ~expired[o]
    <2>1. CommitTo(t, "awaiting_operator", "retry_wait", FALSE, "idle")
      BY <1>2, <1>7 DEF Handoff, At
    <2>2. th[t].fresh => Admits(th[t].o, "awaiting_operator", "retry_wait", FALSE)
      BY <1>2, <1>3, <1>7 DEF Admits
    <2> QED BY <1>1, <2>1, <2>2, EndKept DEF OperationStatuses
  <1> QED BY <1>1, <1>4, <1>5, <1>6, <1>7 DEF At

\* An instruction that is out holds its lock: its expiry begins with the lease.
LEMMA ExpireOverdueKept ==
  ASSUME IInv, NEW t \in Threads, ExpireOverdue(t)
  PROVE  Kept
  <1>1. At(t, "overdue") /\ ~At(t, "idle") /\ UNCHANGED <<lock, world, faults>> /\ ThreadSound(t)
    BY Rows DEF ExpireOverdue, At
  <1>2. PICK o \in Ops : o = th[t].o
    BY <1>1 DEF ThreadSound, Works
  <1>3. CASE TakeLease(t, "expiring") /\ UNCHANGED op
    BY <1>1, <1>3, TakeLeaseKept
  <1>4. CASE ~Own(o) /\ UNCHANGED rec
    <2>1. op[o].status # "awaiting_operator"
      BY <1>4, Rows DEF Sound
    <2>2. Goto(t, "idle") /\ UNCHANGED op
      BY <1>2, <1>4, <2>1 DEF ExpireOverdue
    <2> QED BY <1>1, <1>4, <2>2, StopKept, Bound DEF ledger
  <1> QED BY <1>2, <1>3, <1>4 DEF ExpireOverdue

\* Only the observed lock lets an instruction expire.
LEMMA CommitExpiryKept ==
  ASSUME IInv, NEW t \in Threads, CommitExpiry(t)
  PROVE  Kept
  <1>1. /\ th[t].pc \in {"expiryUnknown", "dirty", "expiryClear"} /\ ~At(t, "idle")
        /\ UNCHANGED <<world, faults>> /\ ThreadSound(t)
    BY Rows DEF CommitExpiry, At
  <1>2. PICK o \in Ops : o = th[t].o
    BY <1>1 DEF ThreadSound, Works
  <1>3. op[o].status \in OperationStatuses \cup {"none"} /\ Onward(t) \in {"idle", "clear"}
    BY Rows DEF OpRows, Onward
  <1>4. CASE At(t, "expiryClear") /\ Own(o)
    <2>1. CommitTo(t, "expired", "completed", TRUE, Onward(t))
      BY <1>2, <1>4 DEF CommitExpiry, At
    <2>2. th[t].fresh => Admits(th[t].o, "expired", "completed", TRUE)
      <3>1. th[t].fresh => op[o].status = "awaiting_operator"
        BY <1>1, <1>2, <1>4 DEF ThreadSound, RowRead, At, Expiring
      <3>2. expired[o] /\ (ran[o] # "inTime" \/ relocked)
        BY <1>1, <1>2, <1>4 DEF ThreadSound, Remembered, At
      <3> QED BY <1>2, <3>1, <3>2 DEF Admits
    <2> QED BY <1>1, <1>3, <2>1, <2>2, EndKept DEF OperationStatuses
  <1>5. CASE CommitTo(t, "needs_reconciliation", "paused", FALSE, Onward(t))
    <2>1. Admits(th[t].o, "needs_reconciliation", "paused", FALSE)
      BY DEF Admits
    <2> QED BY <1>1, <1>3, <1>5, <2>1, EndKept DEF OperationStatuses
  <1>6. CASE CommitTo(t, op[o].status, "retry_wait", FALSE, Onward(t))
    <2>1. Admits(th[t].o, op[o].status, "retry_wait", FALSE)
      BY <1>2 DEF Admits
    <2> QED BY <1>1, <1>3, <1>6, <2>1, EndKept
  <1>7. CASE ~(At(t, "expiryClear") /\ Own(o))
    <2>1. \/ CommitTo(t, "needs_reconciliation", "paused", FALSE, Onward(t))
          \/ CommitTo(t, op[o].status, "retry_wait", FALSE, Onward(t))
      <3>1. CASE At(t, "dirty") \/ (At(t, "expiryUnknown") /\ rec[o].tries >= MaxAttempts)
                   \/ (At(t, "expiryClear") /\ ~Own(o))
        BY <1>2, <1>7, <3>1 DEF CommitExpiry
      <3>2. CASE ~(At(t, "dirty") \/ (At(t, "expiryUnknown") /\ rec[o].tries >= MaxAttempts)
                   \/ (At(t, "expiryClear") /\ ~Own(o)))
        BY <1>2, <1>7, <3>2 DEF CommitExpiry
      <3> QED BY <3>1, <3>2
    <2> QED BY <1>5, <1>6, <2>1
  <1> QED BY <1>4, <1>7

\* A verification starts under the lock that was seen with the lease.
LEMMA StartVerificationKept ==
  ASSUME IInv, NEW t \in Threads, StartVerification(t)
  PROVE  Kept
  <1>1. th[t].pc = "verifying" /\ At(t, "verifying") /\ ~At(t, "idle") /\ UNCHANGED <<world, faults>> /\ ThreadSound(t)
    BY Rows DEF StartVerification, At
  <1>2. PICK o \in Ops : o = th[t].o
    BY <1>1 DEF ThreadSound, Works
  <1>3. "inspect" \in Pcs /\ "inspect" # "idle"
    BY DEF Pcs
  <1>4. CASE op[o].status = "verifying"
    <2>1. Goto(t, "inspect") /\ UNCHANGED ledger
      BY <1>2, <1>4 DEF StartVerification
    <2>2. th'[t].pc = "inspect" /\ th'[t].o = o
      BY <1>2, <1>3, <2>1, Gone
    <2>3. Works(t)' /\ RowRead(t)' /\ Remembered(t)'
      BY <1>4, <2>1, <2>2 DEF Works, RowRead, Remembered, At, ledger, Planning, Expiring, Inspecting
    <2> QED BY <1>1, <1>3, <2>1, <2>3, GotoKept DEF ThreadSound
  <1>5. CASE op[o].status # "verifying"
    <2>1. CommitTo(t, "verifying", "leased", FALSE, "inspect")
      BY <1>2, <1>5 DEF StartVerification
    <2>2. CASE HoldsLease(t)
      <3>1. th[t].fresh => Admits(o, "verifying", "leased", FALSE)
        BY <1>1, <1>2, <2>2 DEF ThreadSound, RowRead, Remembered, Admits
      <3> QED BY <1>1, <1>2, <1>3, <2>1, <3>1, CommitKept DEF OperationStatuses
    <2>3. CASE ~HoldsLease(t)
      <3>1. Failed(t)
        BY <2>1, <2>3 DEF CommitTo, MayCommit
      <3> QED BY <1>1, <3>1, FailedKept
    <2> QED BY <2>2, <2>3
  <1> QED BY <1>4, <1>5

\* Success is committed by a thread that saw the VM without the lock.
LEMMA CommitVerificationKept ==
  ASSUME IInv, NEW t \in Threads, CommitVerification(t)
  PROVE  Kept
  <1>1. /\ th[t].pc \in {"confirm", "mismatch", "unverified"} /\ ~At(t, "idle")
        /\ UNCHANGED <<world, faults>> /\ ThreadSound(t)
    BY Rows DEF CommitVerification, Commit, At
  <1>2. CASE At(t, "confirm") /\ CommitTo(t, "succeeded", "completed", TRUE, "idle")
    <2>1. th[t].fresh => Admits(th[t].o, "succeeded", "completed", TRUE)
      BY <1>1, <1>2 DEF ThreadSound, RowRead, Remembered, Inspecting, At, Admits
    <2> QED BY <1>1, <1>2, <2>1, EndKept DEF OperationStatuses
  <1>3. CASE \E work \in {"paused", "retry_wait"} : CommitTo(t, "needs_reconciliation", work, FALSE, "idle")
    <2>1. PICK work \in {"paused", "retry_wait"} : CommitTo(t, "needs_reconciliation", work, FALSE, "idle")
      BY <1>3
    <2>2. Admits(th[t].o, "needs_reconciliation", work, FALSE)
      BY <2>1 DEF Admits
    <2> QED BY <1>1, <2>1, <2>2, EndKept DEF OperationStatuses
  <1>4. RetryStatus(th[t].o) \in {"paused", "retry_wait"}
    BY DEF RetryStatus
  <1> QED BY <1>2, <1>3, <1>4 DEF CommitVerification, Commit

\* What recovery cannot decide waits.
LEMMA DeferKept ==
  ASSUME IInv, NEW t \in Threads, Defer(t)
  PROVE  Kept
  <1>1. ~At(t, "idle") /\ UNCHANGED <<world, faults>> /\ ThreadSound(t)
    BY Rows DEF Defer, Commit, At
  <1>2. PICK o \in Ops : o = th[t].o
    BY <1>1 DEF ThreadSound, Works
  <1>3. op[o].status \in OperationStatuses \cup {"none"}
    BY Rows DEF OpRows
  <1>4. CASE \E work \in {"paused", "retry_wait"} : CommitTo(t, op[o].status, work, FALSE, "idle")
    <2>1. PICK work \in {"paused", "retry_wait"} : CommitTo(t, op[o].status, work, FALSE, "idle")
      BY <1>4
    <2>2. Admits(th[t].o, op[o].status, work, FALSE)
      BY <1>2, <2>1 DEF Admits
    <2> QED BY <1>1, <1>3, <2>1, <2>2, EndKept
  <1>5. CASE CommitTo(t, "needs_reconciliation", "paused", FALSE, "idle")
    <2>1. Admits(th[t].o, "needs_reconciliation", "paused", FALSE)
      BY DEF Admits
    <2> QED BY <1>1, <1>5, <2>1, EndKept DEF OperationStatuses
  <1> QED BY <1>2, <1>4, <1>5 DEF Defer, Commit

\* So does work whose handler raised.
LEMMA AbsorbExceptionKept ==
  ASSUME IInv, NEW t \in Threads, AbsorbException(t)
  PROVE  Kept
  <1>1. faults' \in 0..MaxFaults
    BY Bound DEF AbsorbException
  <1> QED BY <1>1, AbsorbedKept DEF AbsorbException

-----------------------------------------------------------------------------
(* Theorems. *)

\* Every step keeps the invariant, and treats every operation orderly.
LEMMA NextKept ==
  ASSUME IInv, [Next]_vars
  PROVE  Kept
  <1>1. ASSUME NEW t \in Threads, Proceed(t)
        PROVE  Kept
    BY <1>1, ClearKept, SurveyKept, CreatePlanKept, PrepareRecoveryKept, AcquireLockKept,
       CloseWithoutLockKept, BindLockKept, ObserveBeforeHandoffKept, DropUnissuedKept, HandoffKept,
       ExpireOverdueKept, ObserveAtExpiryKept, CommitExpiryKept, MarkKept, JudgeVerificationKept,
       StartVerificationKept, InspectKept, CommitVerificationKept, RecoverKept, RecheckLockKept,
       DeferKept, AbsorbExceptionKept
       DEF Proceed
  <1>2. CASE UNCHANGED vars
    <2>1. \A o \in Ops : Orderly(o)
      BY <1>2 DEF Orderly, Own, vars
    <2>2. IInv'
      BY <1>2 DEF vars, IInv, UnlockInv, TypeOK, RunInTimeIsNotExpired, HandoffHoldsLock,
                  SuccessIsObserved, BlockedWasNeverShown, Agreed, ThreadSound, Works, RowRead,
                  Remembered, NotedLate, Removed, HoldsLease, Own, At
    <2> QED BY <2>1, <2>2 DEF Kept
  <1>3. CASE \E t \in Threads : Crash(t)
    BY <1>3, CrashKept
  <1>4. CASE \E t \in Users, o \in Ops : Plan(t, o) \/ Attest(t, o) \/ Verify(t, o)
    BY <1>4, PlanKept, AttestKept, VerifyKept
  <1>5. CASE \E t \in Observers, o \in Ops : ClaimWork(t, o)
    BY <1>5, ClaimWorkKept
  <1>6. CASE \E o \in Ops : ShowInstruction(o) \/ RunCommand(o) \/ Expire(o) \/ LeaseExpires(o)
    BY <1>6, ShowKept, RunKept, ExpireKept, LeaseExpiresKept
  <1> QED BY <1>1, <1>2, <1>3, <1>4, <1>5, <1>6, DriftKept DEF Next

\* Nothing is planned, shown or locked at first.
LEMMA StartsSound ==
  ASSUME Init
  PROVE  IInv
  <1>1. TypeOK
    <2>1. op \in [Ops -> OpRows]
      BY DEF Init, OpRows
    <2>2. rec \in [Ops -> RecRows]
      BY GuidedAssumption DEF Init, RecRows
    <2>3. th \in [Threads -> ThreadRows]
      BY IdleRow DEF Init
    <2>5. lock \in LockRows
      <3>1. NoLock.owner = Free /\ NoLock.active = FALSE /\ NoLock = [owner |-> NoLock.owner, active |-> NoLock.active]
        BY DEF NoLock
      <3>2. NoLock \in LockRows
        BY <3>1 DEF LockRows
      <3> QED BY <3>2 DEF Init
    <2>4. /\ vm \in {"none", "held", "other"} /\ expired \in [Ops -> BOOLEAN] /\ shown \in [Ops -> BOOLEAN]
          /\ ran \in [Ops -> {"no", "inTime", "late"}] /\ relocked \in BOOLEAN /\ faults \in 0..MaxFaults
      <3>1. 0 \in 0..MaxFaults
        BY GuidedAssumption
      <3>2. expired \in [Ops -> BOOLEAN] /\ shown \in [Ops -> BOOLEAN] /\ ran \in [Ops -> {"no", "inTime", "late"}]
        BY DEF Init
      <3>3. vm = "held" /\ relocked = FALSE /\ faults = 0
        BY DEF Init
      <3> QED BY <3>1, <3>2, <3>3
    <2> QED BY <2>1, <2>2, <2>3, <2>4, <2>5 DEF TypeOK, OpRows, RecRows, ThreadRows, LockRows
  <1>2. ASSUME NEW o \in Ops
        PROVE  Sound(o)
    BY DEF Init, Sound, Agreed
  <1>3. ASSUME NEW t \in Threads
        PROVE  ThreadSound(t)
    <2>1. th[t] = Idle
      BY DEF Init
    <2> QED BY <2>1 DEF ThreadSound, Works, RowRead, Remembered, At, Idle, Planning, Expiring, Inspecting
  <1> QED BY <1>1, <1>2, <1>3, Parts

\* Whatever calls, recoveries, crashes and changes of the VM interleave, the invariant holds.
THEOREM UnlockIsSound == Spec => []IInv
  <1>1. Init => IInv
    BY StartsSound
  <1>2. IInv /\ [Next]_vars => IInv'
    BY NextKept DEF Kept
  <1> QED BY <1>1, <1>2, PTL DEF Spec

\* How an instruction may end agrees with what the operator did and what became of the VM: one
\* that was run in time is not written off as expired, one that is out holds the VM lock, and
\* success is an attestation and a VM without the config lock.
THEOREM EndsAreTrue == Spec => []UnlockInv
  <1>1. IInv => UnlockInv
    BY DEF IInv
  <1> QED BY <1>1, UnlockIsSound, PTL

\* The lock of an instruction that was shown leaves it with its success or observed expiry.
THEOREM LockLeavesWithTheEnd == Spec => LockLeavesAtClose
  <1>1. IInv /\ [Next]_vars =>
          [\A o \in Ops : shown[o] /\ Own(o) /\ ~Own(o)' => op'[o].status \in {"succeeded", "expired"}]_vars
    BY NextKept DEF Kept, Orderly
  <1> QED BY <1>1, UnlockIsSound, PTL DEF Spec, LockLeavesAtClose

\* No concurrent expiry, and no stale planner, closes an operation over an attestation.
THEOREM AttestationsAreKept == Spec => AttestationIsKept
  <1>1. IInv /\ [Next]_vars =>
          [\A o \in Ops : op[o].att # "no" =>
             op'[o].att = op[o].att /\ (op[o].status # op'[o].status => op'[o].status \notin {"expired", "blocked"})]_vars
    BY NextKept DEF Kept, Orderly
  <1> QED BY <1>1, UnlockIsSound, PTL DEF Spec, AttestationIsKept

\* What is closed stays closed, but for a late attestation of an expired instruction.
THEOREM ClosingIsFinal == Spec => ClosedIsFinal
  <1>1. IInv /\ [Next]_vars =>
          [\A o \in Ops : rec[o].status = "completed" =>
             /\ rec'[o] = rec[o]
             /\ op'[o] # op[o] => op[o].status = "expired" /\ op'[o].att = "late"]_vars
    BY NextKept DEF Kept, Orderly
  <1> QED BY <1>1, UnlockIsSound, PTL DEF Spec, ClosedIsFinal

=============================================================================
