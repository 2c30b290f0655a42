---------------------------- MODULE VmCreateProofs ----------------------------
(***************************************************************************)
(* The creations of VMs, proved for every set of operations, VMs,          *)
(* requests, runners and operators and for every bound: no mutation is     *)
(* sent twice, what may still act is locked, the rows tell the truth, and  *)
(* closing is final.                                                       *)
(*                                                                         *)
(* A step of a thread writes the rows of one operation and the lock of its *)
(* VM (Writes).  TurnKept says what such a step owes to everybody else     *)
(* (Advance, LockMoves, Pairs) and what it must show of the operation and  *)
(* of itself.  Most steps change little (OrdinaryKept); the others         *)
(* prepare, dispatch, send or close.                                       *)
(***************************************************************************)
EXTENDS VmCreateInvariant, TLAPS

USE VmCreateAssumption

-----------------------------------------------------------------------------
(* Steps of a thread. *)

ThreadRows == [pc : Pcs, o : Ops, gen : Nat, row : OpRows, step : Steps,
               lockId : Requests \cup {Free}]

\* The rows a step of thread t writes for operation o.
Writes(t, o, row, item, l, q, y) ==
  /\ op' = [op EXCEPT ![o] = row] /\ rec' = [rec EXCEPT ![o] = item]
  /\ lock' = [lock EXCEPT ![VmOf[o]] = l] /\ req' = [req EXCEPT ![o] = q]
  /\ th' = [th EXCEPT ![t] = y]

\* What Proxmox has of the operation may change with it.
Acts(o) ==
  /\ sent' \in [Ops -> [Steps -> Nat]] /\ effect' \in [Ops -> [Steps -> Effects]]
  /\ vm' \in [Vms -> Ops \cup {Free}]
  /\ \A p \in Ops \ {o} : sent'[p] = sent[p] /\ effect'[p] = effect[p]
  /\ \A v \in Vms \ {VmOf[o]} : vm'[v] = vm[v]
  /\ vm'[VmOf[o]] \in {vm[VmOf[o]], o, Free}

\* A thread keeps its operation once it has one, and does not return to its beginning.
Onward(t) ==
  t \in Requests =>
    /\ th'[t].pc # "prepare_operation"
    /\ th[t].pc # "prepare_operation" => th'[t].o = th[t].o
    /\ th'[t].pc \in BeforeSession => th[t].pc \in BeforeSession

\* A lock is taken when it is free, given back unused by the request that inserted it, or
\* released by the commit that completes the work it is named by.
LockMoves(t, o) ==
  LET v == VmOf[o] IN
    \/ lock'[v] = lock[v]
    \/ lock[v] = Free /\ lock'[v] = t /\ t \in Requests
    \/ lock'[v] = Free /\ lock[v] = t /\ th[t].o = o /\ At(t, "release")
    \/ lock'[v] = Free /\ ExactLock(o) /\ rec'[o].status = "completed"

\* What the other threads of the operation may rely on.
Advance(t, o) ==
  /\ req[o] # "none" => req'[o] # "none"
  /\ rec[o].gen <= rec'[o].gen
  /\ rec[o].status = "completed" => rec'[o].status = "completed"
  /\ op[o].status \notin Undecided => op'[o].status \notin Undecided
  /\ op[o].status \in {"approved", "blocked", "failed"} =>
       \/ op'[o].status \in {"approved", "blocked", "failed"}
       \/ At(t, "dispatch") /\ th[t].o = o /\ op[o].status = "approved"
  /\ rec[o].success => rec'[o].success
  /\ rec'[o].success => rec[o].success \/ (Dispatched(t) /\ th[t].o = o)
  /\ \/ rec'[o].phase = rec[o].phase
     \/ th[t].o = o /\ Dispatched(t) /\ LeaseOwned(t) /\ rec[o].phase # "rejected"
     \/ op[o].status \in Undecided /\ rec'[o].phase = "pre"
  /\ \/ sent'[o] = sent[o] /\ effect'[o] = effect[o] /\ vm'[VmOf[o]] \in {vm[VmOf[o]], Free}
     \/ /\ th[t].o = o /\ At(t, "send")
        /\ \A s \in Steps \ {th[t].step} : sent'[o][s] = sent[o][s] /\ effect'[o][s] = effect[o][s]
        /\ th[t].step # "clone" => vm'[VmOf[o]] \in {vm[VmOf[o]], Free}
  /\ rec'[o].status = "completed" /\ op'[o].status \in {"blocked", "failed"} =>
       \/ rec[o].status = "completed" /\ op[o].status \in {"blocked", "failed"}
       \/ \A u \in Threads \ {t} : th[u].o = o => ~At(u, "send")

\* A thread dispatches alone; a generation is kept, given up, or new.
Pairs(t, o) ==
  /\ Dispatched(t)' =>
       \/ Dispatched(t) /\ th'[t].o = th[t].o
       \/ \A u \in Threads \ {t} : th[u].o = th'[t].o => ~Dispatched(u)
  /\ \/ th'[t].gen = 0
     \/ th'[t].gen = th[t].gen /\ th'[t].o = th[t].o
     \/ th'[t].o = o /\ th'[t].gen = rec'[o].gen /\ rec'[o].gen > rec[o].gen

\* The rows of a state that satisfies the invariant.
LEMMA Rows ==
  ASSUME IInv
  PROVE  /\ op \in [Ops -> OpRows] /\ rec \in [Ops -> RecRows] /\ req \in [Ops -> RequestStatuses]
         /\ lock \in [Vms -> Requests \cup {Free}] /\ vm \in [Vms -> Ops \cup {Free}]
         /\ sent \in [Ops -> [Steps -> Nat]] /\ effect \in [Ops -> [Steps -> Effects]]
         /\ th \in [Threads -> ThreadRows]
         /\ \A o \in Ops : op[o] \in OpRows /\ rec[o] \in RecRows /\ req[o] \in RequestStatuses
                           /\ VmOf[o] \in Vms /\ OperationSound(o)
         /\ \A t \in Threads : th[t] \in ThreadRows /\ ThreadSound(t)
         /\ \A t, u \in Threads : t # u => Exclusive(t, u)
         /\ \A v \in Vms : lock[v] \in Requests \cup {Free} /\ LockNamed(v)
  BY DEF IInv, TypeOK, Sound, ThreadRows

\* A row that a step leaves alone is written with itself.
LEMMA Unwritten ==
  ASSUME IInv, NEW o \in Ops
  PROVE  /\ op = [op EXCEPT ![o] = op[o]] /\ rec = [rec EXCEPT ![o] = rec[o]]
         /\ lock = [lock EXCEPT ![VmOf[o]] = lock[VmOf[o]]] /\ req = [req EXCEPT ![o] = req[o]]
  BY Rows

\* What is written is what is read afterwards, and everything else stays.
LEMMA Written ==
  ASSUME IInv, NEW t \in Threads, NEW o \in Ops, NEW row \in OpRows, NEW item \in RecRows,
         NEW l \in Requests \cup {Free}, NEW q \in RequestStatuses, NEW y \in ThreadRows,
         Writes(t, o, row, item, l, q, y)
  PROVE  /\ op'[o] = row /\ rec'[o] = item /\ lock'[VmOf[o]] = l /\ req'[o] = q /\ th'[t] = y
         /\ \A p \in Ops \ {o} : op'[p] = op[p] /\ rec'[p] = rec[p] /\ req'[p] = req[p]
         /\ \A v \in Vms \ {VmOf[o]} : lock'[v] = lock[v]
         /\ \A u \in Threads \ {t} : th'[u] = th[u]
         /\ op' \in [Ops -> OpRows] /\ rec' \in [Ops -> RecRows] /\ req' \in [Ops -> RequestStatuses]
         /\ lock' \in [Vms -> Requests \cup {Free}] /\ th' \in [Threads -> ThreadRows]
  BY Rows DEF Writes

\* Another operation is as it was, also if it wants the same VM.
LEMMA OtherOperation ==
  ASSUME IInv, NEW t \in Threads, NEW o \in Ops, NEW row \in OpRows, NEW item \in RecRows,
         NEW l \in Requests \cup {Free}, NEW q \in RequestStatuses, NEW y \in ThreadRows,
         Writes(t, o, row, item, l, q, y), Acts(o), Onward(t), LockMoves(t, o),
         NEW p \in Ops \ {o}
  PROVE  OperationSound(p)'
  <1>1. /\ op'[p] = op[p] /\ rec'[p] = rec[p] /\ req'[p] = req[p]
        /\ sent'[p] = sent[p] /\ effect'[p] = effect[p]
    <2>1. op'[p] = op[p] /\ rec'[p] = rec[p] /\ req'[p] = req[p]
      BY Written
    <2>2. sent'[p] = sent[p] /\ effect'[p] = effect[p]
      BY DEF Acts
    <2> QED BY <2>1, <2>2
  <1>2. vm'[VmOf[p]] = p => vm[VmOf[p]] = p
    BY Rows DEF Acts
  <1>3. \A r \in Requests : th[r].pc # "prepare_operation" =>
          /\ th'[r].o = th[r].o /\ th'[r].pc # "prepare_operation"
          /\ th'[r].pc \in BeforeSession => th[r].pc \in BeforeSession
    <2>1. \A u \in Threads \ {t} : th'[u] = th[u]
      BY Written
    <2> QED BY <2>1 DEF Onward, Threads
  <1>4. LockKnown(p)'
    <2>0. Free \notin Requests
      BY DEF Threads
    <2>1. OperationSound(p) /\ OperationSound(o) /\ LockNamed(VmOf[p]) /\ VmOf[p] \in Vms
          /\ VmOf[o] \in Vms /\ rec[p] \in RecRows /\ rec[o] \in RecRows
          /\ lock[VmOf[p]] \in Requests \cup {Free} /\ th[t] \in ThreadRows
      BY Rows
    <2>2. rec[p].lockId # Free => /\ th'[rec[p].lockId].o = p
                                  /\ th'[rec[p].lockId].pc # "prepare_operation"
      BY <2>1, <1>3 DEF OperationSound, LockKnown, RecRows
    <2>3. ASSUME op[p].status \in Busy
          PROVE  LockedBy(p)' /\ th'[lock'[VmOf[p]]].pc \notin BeforeSession
      <3>1. /\ lock[VmOf[p]] \in Requests /\ th[lock[VmOf[p]]].o = p
            /\ th[lock[VmOf[p]]].pc \notin BeforeSession
        BY <2>1, <2>3 DEF OperationSound, LockKnown, LockedBy
      <3>2. lock'[VmOf[p]] = lock[VmOf[p]]
        <4>1. CASE VmOf[p] # VmOf[o]
          BY <4>1, <2>1, Written
        <4>2. CASE VmOf[p] = VmOf[o]
          BY <4>2, <2>0, <2>1, <3>1 DEF LockMoves, ExactLock, OperationSound, LockKnown, At, BeforeSession
        <4> QED BY <4>1, <4>2
      <3> QED BY <3>1, <3>2, <2>0, <1>3 DEF LockedBy, BeforeSession
    <2> QED BY <1>1, <2>1, <2>2, <2>3 DEF LockKnown, OperationSound
  <1> QED BY <1>1, <1>2, <1>4, Rows
       DEF OperationSound, RowsAgree, MutationsInOrder, OutcomeTrue, StepBuilds, NothingSent,
           NoEffect, Whole

\* A thread of the same operation that does not move finds what it relies on.
LEMMA OtherThread ==
  ASSUME IInv, NEW t \in Threads, NEW o \in Ops, NEW row \in OpRows, NEW item \in RecRows,
         NEW l \in Requests \cup {Free}, NEW q \in RequestStatuses, NEW y \in ThreadRows,
         Writes(t, o, row, item, l, q, y), Acts(o), Onward(t), LockMoves(t, o), Advance(t, o),
         OperationSound(o)',
         NEW u \in Threads \ {t}
  PROVE  ThreadSound(u)'
  <1> DEFINE p == th[u].o
  <1>1. /\ th'[u] = th[u] /\ p \in Ops /\ ThreadSound(u) /\ OperationSound(p) /\ OperationSound(o)
        /\ th[u] \in ThreadRows /\ th[t] \in ThreadRows /\ VmOf[p] \in Vms /\ VmOf[o] \in Vms
        /\ Exclusive(t, u) /\ rec[o] \in RecRows /\ rec'[o] \in RecRows
    <2>1. /\ th'[u] = th[u] /\ rec' \in [Ops -> RecRows]
      BY Written
    <2> QED BY <2>1, Rows DEF ThreadRows
  <1>2. RowRead(u)' /\ (Dispatched(u)' <=> Dispatched(u))
    BY <1>1 DEF ThreadSound, PlaceSound, RowRead, At, Status, Dispatched
  <1>3. \A r \in Requests : th[r].pc # "prepare_operation" =>
          th'[r].o = th[r].o /\ th'[r].pc # "prepare_operation"
    <2>1. \A w \in Threads \ {t} : th'[w] = th[w]
      BY Written
    <2> QED BY <2>1 DEF Onward, Threads
  <1>4. p # o => /\ op'[p] = op[p] /\ rec'[p] = rec[p] /\ req'[p] = req[p]
                 /\ sent'[p] = sent[p] /\ effect'[p] = effect[p]
    <2>1. \A x \in Ops \ {o} : op'[x] = op[x] /\ rec'[x] = rec[x] /\ req'[x] = req[x]
      BY Written
    <2> QED BY <2>1, <1>1 DEF Acts
  <1>5. th[u].lockId # Free => th'[th[u].lockId].o = p /\ th'[th[u].lockId].pc # "prepare_operation"
    BY <1>1, <1>3 DEF ThreadSound, Remembers, ThreadRows
  <1>6. lock[VmOf[p]] = u => lock'[VmOf[p]] = u \/ (p = o /\ rec'[p].status = "completed")
    <2>1. Free # u /\ t # u
      BY DEF Threads
    <2>3. CASE VmOf[p] # VmOf[o]
      BY <2>3, <1>1, Written
    <2>4. CASE VmOf[p] = VmOf[o]
      BY <2>4, <2>1, <1>1 DEF LockMoves, ExactLock, OperationSound, LockKnown
    <2> QED BY <2>3, <2>4
  <1>7. vm'[VmOf[p]] = p /\ vm[VmOf[p]] # p =>
          p = o /\ th[t].o = o /\ At(t, "send") /\ th[t].step = "clone"
    BY <1>1, Rows DEF Acts, Advance
  <1>8. CASE p # o
    <2>0. Remembers(u)'
      BY <1>1, <1>4, <1>5, <1>8 DEF ThreadSound, Remembers, At
    <2>1. Authorised(u)' /\ RequestKnown(u)'
      BY <1>1, <1>2, <1>4, <1>6, <1>8 DEF ThreadSound, PlaceSound, Authorised, RequestKnown, At, Status
    <2>2. SendsInTurn(u)'
      BY <1>1, <1>2, <1>4, <1>8
         DEF ThreadSound, PlaceSound, SendsInTurn, At, Status, NothingSent, NoEffect, InTurn, Whole
    <2>3. SawTruly(u)'
      BY <1>1, <1>4, <1>7, <1>8 DEF ThreadSound, PlaceSound, SawTruly, At
    <2> QED BY <1>2, <2>0, <2>1, <2>2, <2>3 DEF ThreadSound, PlaceSound
  <1>9. CASE p = o
    <2>0. Remembers(u)'
      <3>1. th'[u].gen <= rec'[o].gen
        BY <1>1, <1>9 DEF ThreadSound, Remembers, Advance, ThreadRows, RecRows
      <3> QED BY <1>1, <1>5, <1>9, <3>1 DEF ThreadSound, Remembers, At
    <2>1. th[t].o = o => /\ ~(Dispatched(t) /\ Dispatched(u))
                         /\ LeaseOwned(t) => th[t].gen # th[u].gen
      BY <1>1, <1>9 DEF Exclusive, LeaseOwned, OperationSound, RowsAgree, RecRows, ThreadRows
    <2>2. th[t].o = o /\ At(t, "send") => ~Dispatched(u)
      BY <2>1 DEF Dispatched, DispatchedPcs, Sending, At
    <2>3. Authorised(u)'
      <3>2. th[u].pc \in {"prepare", "record", "dispatch"} =>
              lock'[VmOf[o]] = u \/ rec'[o].status = "completed"
        BY <1>1, <1>6, <1>9 DEF ThreadSound, PlaceSound, Authorised, Advance
      <3>3. th[u].pc \in {"record", "dispatch"} => op'[o].status \in {"approved", "blocked", "failed"}
        <4>1. CASE op'[o].status \in {"approved", "blocked", "failed"}
          BY <4>1
        <4>2. CASE At(t, "dispatch") /\ th[t].o = o /\ op[o].status = "approved"
          <5>1. rec[o].status # "completed"
            BY <1>1, <4>2 DEF OperationSound, RowsAgree, Decided
          <5>2. lock[VmOf[o]] = t
            BY <4>2, <5>1, Rows DEF ThreadSound, PlaceSound, Authorised, At
          <5>3. th[u].pc \in {"record", "dispatch"} => lock[VmOf[o]] = u
            BY <1>1, <1>9, <5>1 DEF ThreadSound, PlaceSound, Authorised
          <5> QED BY <5>2, <5>3
        <4> QED BY <1>1, <1>9, <4>1, <4>2 DEF ThreadSound, PlaceSound, Authorised, Advance
      <3>4. Dispatched(u) => op'[o].status \notin Undecided
        BY <1>1, <1>9 DEF ThreadSound, PlaceSound, Authorised, Advance
      <3> QED BY <1>1, <1>2, <1>9, <3>2, <3>3, <3>4 DEF Authorised
    <2>4. RequestKnown(u)'
      BY <1>1, <1>9 DEF ThreadSound, PlaceSound, RequestKnown, At, Status, Advance
    <2>5. Dispatched(u) => /\ rec'[o].phase = rec[o].phase /\ sent'[o] = sent[o]
                           /\ effect'[o] = effect[o] /\ rec'[o].success = rec[o].success
      BY <1>1, <1>9, <2>1, <2>2 DEF ThreadSound, PlaceSound, Authorised, Advance, RecRows
    <2>6. SendsInTurn(u)'
      <3>1. ~Dispatched(u) => th[u].pc \notin DispatchedPcs /\ ~Dispatched(u)'
        BY <1>2 DEF Dispatched
      <3>2. At(u, "send") =>
              ~(rec'[o].status = "completed" /\ op'[o].status \in {"blocked", "failed"})
        BY <1>1, <1>9 DEF ThreadSound, PlaceSound, SendsInTurn, Advance, At
      <3>3. ASSUME ~Dispatched(u)
            PROVE  SendsInTurn(u)'
        BY <1>1, <3>1, <3>3
           DEF SendsInTurn, DispatchedPcs, Sending, Unsent, Succeeding, At
      <3>4. ASSUME Dispatched(u)
            PROVE  SendsInTurn(u)'
        BY <1>1, <1>2, <1>9, <2>5, <3>2, <3>4
           DEF ThreadSound, PlaceSound, SendsInTurn, At, NothingSent, NoEffect, InTurn, Whole
      <3> QED BY <3>3, <3>4
    <2>7. SawTruly(u)'
      <3>1. At(u, "unsent") /\ th[u].gen = rec'[o].gen => rec'[o].phase = "pre"
        BY <1>1, <1>9, <2>1
           DEF ThreadSound, PlaceSound, Remembers, SawTruly, Advance, LeaseOwned, RecRows, ThreadRows
      <3>2. At(u, "rejected") => rec'[o].phase = "rejected"
        BY <1>1, <1>9 DEF ThreadSound, PlaceSound, SawTruly, Advance, OperationSound, RowsAgree
      <3>3. th[u].pc \in {"adopt_result", "adopt_verifying"} => rec'[o].success
        BY <1>1, <1>9 DEF ThreadSound, PlaceSound, SawTruly, Advance
      <3>4. ASSUME At(u, "close_absent")
            PROVE  vm'[VmOf[o]] # o /\ \E s \in TaskSteps : effect'[o][s] = "failed"
        <4>1. vm[VmOf[o]] # o /\ \E s \in TaskSteps : effect[o][s] = "failed"
          BY <1>1, <1>9, <3>4 DEF ThreadSound, PlaceSound, SawTruly
        <4>2. CASE th[t].o = o /\ At(t, "send")
          <5>1. /\ sent[o][th[t].step] = 0 /\ effect[o][th[t].step] = "none"
                /\ InTurn(o, th[t].step) /\ th[t].step \in Steps
            BY <1>1, <4>2, Rows
               DEF ThreadSound, PlaceSound, SendsInTurn, At, OperationSound, MutationsInOrder, ThreadRows
          <5>2. \A s \in TaskSteps : effect[o][s] # "failed"
            BY <5>1, <1>1 DEF InTurn, TaskSteps, Steps, OperationSound, MutationsInOrder, Later
          <5> QED BY <4>1, <5>2
        <4>3. CASE ~(th[t].o = o /\ At(t, "send"))
          BY <1>7, <1>9, <4>1, <4>3 DEF Advance
        <4> QED BY <4>2, <4>3
      <3> QED BY <1>1, <1>9, <3>1, <3>2, <3>3, <3>4 DEF SawTruly, At
    <2> QED BY <1>2, <2>0, <2>3, <2>4, <2>6, <2>7 DEF ThreadSound, PlaceSound
  <1> QED BY <1>8, <1>9

\* A step that keeps to its frame, and leaves its operation and itself sound, keeps everything.
LEMMA TurnKept ==
  ASSUME IInv, NEW t \in Threads, NEW o \in Ops, NEW row \in OpRows, NEW item \in RecRows,
         NEW l \in Requests \cup {Free}, NEW q \in RequestStatuses, NEW y \in ThreadRows,
         Writes(t, o, row, item, l, q, y), Acts(o), Onward(t), LockMoves(t, o), Advance(t, o),
         Pairs(t, o), OperationSound(o)', ThreadSound(t)'
  PROVE  IInv'
  <1>1. TypeOK'
    BY Written DEF TypeOK, Acts, ThreadRows
  <1>2. \A p \in Ops : OperationSound(p)'
    <2>1. \A p \in Ops \ {o} : OperationSound(p)'
      BY OtherOperation
    <2> QED BY <2>1
  <1>3. \A u \in Threads : ThreadSound(u)'
    <2>1. \A u \in Threads \ {t} : ThreadSound(u)'
      BY OtherThread
    <2> QED BY <2>1
  <1>4. /\ \A u \in Threads \ {t} : th'[u] = th[u] /\ (Dispatched(u)' <=> Dispatched(u))
        /\ \A p \in Ops : rec[p].gen <= rec'[p].gen /\ rec[p].gen \in Nat /\ rec'[p].gen \in Nat
        /\ \A u \in Threads : th[u] \in ThreadRows /\ th[u].o \in Ops /\ th'[u].o \in Ops
                              /\ th[u].gen <= rec[th[u].o].gen /\ th[u].gen \in Nat /\ th'[u].gen \in Nat
    <2>1. /\ \A u \in Threads \ {t} : th'[u] = th[u]
          /\ \A p \in Ops \ {o} : rec'[p] = rec[p]
          /\ rec' \in [Ops -> RecRows] /\ th' \in [Threads -> ThreadRows]
      BY Written
    <2>2. \A u \in Threads \ {t} : Dispatched(u)' <=> Dispatched(u)
      BY <2>1 DEF Dispatched, Status
    <2>3. \A p \in Ops : rec[p].gen \in Nat /\ rec'[p].gen \in Nat
      BY <2>1, Rows DEF RecRows
    <2>4. \A p \in Ops : rec[p].gen <= rec'[p].gen
      BY <2>1, <2>3 DEF Advance
    <2>5. \A u \in Threads : /\ th[u] \in ThreadRows /\ th[u].o \in Ops /\ th'[u].o \in Ops
                             /\ th[u].gen \in Nat /\ th'[u].gen \in Nat
      BY <2>1, Rows DEF ThreadRows
    <2>6. \A u \in Threads : th[u].gen <= rec[th[u].o].gen
      BY Rows DEF ThreadSound, Remembers
    <2> QED BY <2>1, <2>2, <2>3, <2>4, <2>5, <2>6
  <1>5. ASSUME NEW u \in Threads \ {t}
        PROVE  Exclusive(t, u)' /\ Exclusive(u, t)'
    <2>1. Exclusive(t, u)
      BY Rows
    <2>2. SUFFICES ASSUME th'[t].o = th'[u].o
                   PROVE  /\ ~(Dispatched(t)' /\ Dispatched(u)')
                          /\ th'[t].gen = th'[u].gen =>
                               th'[t].gen = 0 \/ th'[t].gen < rec'[th'[t].o].gen
      BY DEF Exclusive
    <2>3. ~(Dispatched(t)' /\ Dispatched(u)')
      BY <2>1, <2>2, <1>4 DEF Exclusive, Pairs
    <2>4. ASSUME th'[t].gen = th'[u].gen
          PROVE  th'[t].gen = 0 \/ th'[t].gen < rec'[th'[t].o].gen
      <3>1. CASE th'[t].gen = th[t].gen /\ th'[t].o = th[t].o
        BY <3>1, <2>1, <2>2, <2>4, <1>4 DEF Exclusive
      <3>2. CASE th'[t].o = o /\ th'[t].gen = rec'[o].gen /\ rec'[o].gen > rec[o].gen
        BY <3>2, <2>2, <2>4, <1>4
      <3> QED BY <3>1, <3>2 DEF Pairs
    <2> QED BY <2>3, <2>4
  <1>6. \A u, w \in Threads : u # w => Exclusive(u, w)'
    <2>1. ASSUME NEW u \in Threads \ {t}, NEW w \in Threads \ {t}, u # w
          PROVE  Exclusive(u, w)'
      <3>1. Exclusive(u, w)
        BY <2>1, Rows
      <3> QED BY <3>1, <1>4 DEF Exclusive
    <2> QED BY <1>5, <2>1
  <1>7. \A v \in Vms : LockNamed(v)'
    <2>1. /\ \A u \in Threads \ {t} : th'[u] = th[u]
          /\ \A v \in Vms \ {VmOf[o]} : lock'[v] = lock[v]
      BY Written
    <2>2. \A r \in Requests : th[r].pc # "prepare_operation" => th'[r].pc # "prepare_operation"
      BY <2>1 DEF Onward, Threads
    <2>3. t \in Requests => th'[t].pc # "prepare_operation"
      BY DEF Onward
    <2>4. \A v \in Vms : /\ lock[v] \in Requests \cup {Free} /\ LockNamed(v)
                         /\ lock'[v] \in {lock[v], Free} \/ (lock'[v] = t /\ t \in Requests)
      BY <2>1, Rows DEF LockMoves
    <2> QED BY <2>2, <2>3, <2>4 DEF LockNamed
  <1> QED BY <1>1, <1>2, <1>3, <1>6, <1>7 DEF IInv, Sound

-----------------------------------------------------------------------------
(* Ordinary steps: they dispatch, send and close nothing. *)

Open == {"leased", "retry_wait", "paused"}

StatusMoves(from, to) ==
  \/ to = from
  \/ from \in Busy /\ to \in Busy
  \/ from = "none" /\ to \in {"awaiting_approval", "blocked"}
  \/ from = "awaiting_approval" /\ to = "approved"

\* The recovery row keeps what it says of the mutations.
Continues(item, o) ==
  /\ item.phase = rec[o].phase /\ item.success = rec[o].success /\ item.lockId = rec[o].lockId
  /\ item.gen >= rec[o].gen
  /\ item.status = rec[o].status \/ {item.status, rec[o].status} \subseteq Open

\* The request row is told of no success, and of a success nothing but a failure.
Tells(q, o) ==
  q = req[o] \/ (q \in {"running", "failed", "unresolved"} /\ (op[o].status = "succeeded" => q = "failed"))

\* A lock is at most taken, or given back unused.
LockInHand(l, t, o) ==
  LET v == VmOf[o] IN
    \/ l = lock[v]
    \/ lock[v] = Free /\ l = t /\ t \in Requests
    \/ l = Free /\ lock[v] = t /\ th[t].o = o /\ At(t, "release") /\ t \in Requests

\* An ordinary step of a thread needs an argument about that thread only.
LEMMA OrdinaryKept ==
  ASSUME IInv, NEW t \in Threads, NEW o \in Ops, NEW row \in OpRows, NEW item \in RecRows,
         NEW l \in Requests \cup {Free}, NEW q \in RequestStatuses, NEW y \in ThreadRows,
         Writes(t, o, row, item, l, q, y), UNCHANGED proxmox, Onward(t),
         StatusMoves(op[o].status, row.status), Continues(item, o), Tells(q, o),
         LockInHand(l, t, o), Pairs(t, o), ThreadSound(t)'
  PROVE  IInv'
  <1>1. /\ op'[o] = row /\ rec'[o] = item /\ lock'[VmOf[o]] = l /\ req'[o] = q /\ th'[t] = y
        /\ \A u \in Threads \ {t} : th'[u] = th[u]
    BY Written
  <1>2. /\ OperationSound(o) /\ rec[o] \in RecRows /\ op[o] \in OpRows /\ LockNamed(VmOf[o])
        /\ lock[VmOf[o]] \in Requests \cup {Free} /\ VmOf[o] \in Vms
    BY Rows
  <1>3. Acts(o)
    BY Rows DEF Acts, proxmox
  <1>4. LockMoves(t, o)
    BY <1>1 DEF LockMoves, LockInHand
  <1>5. /\ op[o].status \notin Undecided => row.status \notin Undecided
        /\ row.status \in StatusesInUse
        /\ row.status \in Busy <=> op[o].status \in Busy
        /\ row.status = "succeeded" <=> op[o].status = "succeeded"
        /\ op[o].status \in {"approved", "blocked", "failed"} => row.status = op[o].status
    BY <1>2 DEF StatusMoves, Undecided, Decided, Busy, StatusesInUse, OperationSound, RowsAgree
  <1>6. /\ item.status = "none" <=> rec[o].status = "none"
        /\ item.status = "completed" <=> rec[o].status = "completed"
    BY DEF Continues, Open
  <1>7. rec[o].status = "completed" /\ row.status \in {"blocked", "failed"} =>
          op[o].status \in {"blocked", "failed"}
    BY <1>2, <1>5 DEF OperationSound, RowsAgree, Decided
  <1>8. Advance(t, o)
    BY <1>1, <1>2, <1>5, <1>6, <1>7 DEF Advance, Continues, Tells, proxmox, RecRows
  <1>9. RowsAgree(o)'
    BY <1>1, <1>2, <1>6
       DEF OperationSound, RowsAgree, StatusMoves, Continues, Undecided, Decided, Busy,
           StatusesInUse, RecRows
  <1>10. LockKnown(o)'
    <2>0. Free \notin Requests
      BY DEF Threads
    <2>1. \A r \in Requests : th[r].pc # "prepare_operation" =>
            /\ th'[r].o = th[r].o /\ th'[r].pc # "prepare_operation"
            /\ th'[r].pc \in BeforeSession => th[r].pc \in BeforeSession
      BY <1>1 DEF Onward, Threads
    <2>2. item.lockId # Free => /\ item.phase # "none" /\ th'[item.lockId].o = o
                                /\ th'[item.lockId].pc # "prepare_operation"
      BY <1>2, <2>1 DEF Continues, OperationSound, LockKnown, RecRows
    <2>3. ASSUME op[o].status \in Busy
          PROVE  /\ l # Free /\ th'[l].o = o /\ th'[l].pc \notin BeforeSession
      <3>1. /\ lock[VmOf[o]] \in Requests /\ th[lock[VmOf[o]]].o = o
            /\ th[lock[VmOf[o]]].pc \notin BeforeSession
        BY <1>2, <2>3 DEF OperationSound, LockKnown, LockedBy
      <3>2. l = lock[VmOf[o]]
        BY <2>0, <3>1 DEF LockInHand, At, BeforeSession
      <3> QED BY <2>0, <2>1, <3>1, <3>2 DEF BeforeSession
    <2> QED BY <1>1, <1>5, <2>2, <2>3 DEF LockKnown, LockedBy
  <1>11. MutationsInOrder(o)'
    BY <1>1, <1>2 DEF OperationSound, MutationsInOrder, Continues, proxmox, StepBuilds, NothingSent, NoEffect
  <1>12. OutcomeTrue(o)'
    BY <1>1, <1>2, <1>5, <1>6, <1>7
       DEF OperationSound, OutcomeTrue, Continues, Tells, proxmox, Whole
  <1> QED BY <1>3, <1>4, <1>8, <1>9, <1>10, <1>11, <1>12, TurnKept DEF OperationSound

\* A thread that ends, or rests, is sound and holds nothing.
LEMMA Resting ==
  ASSUME IInv, NEW t \in Threads, th' = [th EXCEPT ![t] = Rest(t)], rec' \in [Ops -> RecRows]
  PROVE  /\ Rest(t) \in ThreadRows /\ ThreadSound(t)' /\ Onward(t)
         /\ \A o \in Ops : Pairs(t, o)
  <1>1. th[t] \in ThreadRows /\ th \in [Threads -> ThreadRows]
    BY Rows
  <1>2. (CHOOSE o \in Ops : TRUE) \in Ops
    BY <1>1 DEF ThreadRows
  <1>3. /\ Rest(t) \in ThreadRows /\ Rest(t).pc \in {"done", "idle"} /\ Rest(t).gen = 0
        /\ Rest(t).lockId = Free /\ Rest(t).row.status = "none"
        /\ t \in Requests => Rest(t).o = th[t].o
    BY <1>1, <1>2 DEF Rest, Fresh, ThreadRows, NoOp, OpRows, Pcs, Steps
  <1>4. th'[t] = Rest(t)
    BY <1>1
  <1>5. ~Dispatched(t)'
    BY <1>3, <1>4 DEF Dispatched, DispatchedPcs, Sending, Unsent, Succeeding, ClosingUnsent
  <1>6. \A o \in Ops : Pairs(t, o)
    BY <1>3, <1>4, <1>5 DEF Pairs
  <1>7. Onward(t)
    BY <1>3, <1>4 DEF Onward, BeforeSession
  <1>8. ThreadSound(t)'
    <2>1. RowRead(t)' /\ RequestKnown(t)' /\ SawTruly(t)' /\ SendsInTurn(t)'
      BY <1>3, <1>4
         DEF RowRead, RequestKnown, SawTruly, SendsInTurn, At, Status, ClosingUnsent, Sending, Unsent,
             Succeeding, BeforeSession
    <2>2. Authorised(t)' /\ Remembers(t)'
      <3>1. rec'[th'[t].o].gen \in Nat
        BY <1>3, <1>4 DEF ThreadRows, RecRows
      <3> QED BY <1>3, <1>4, <1>5, <3>1 DEF Authorised, Remembers, At
    <2> QED BY <2>1, <2>2 DEF ThreadSound, PlaceSound
  <1> QED BY <1>3, <1>6, <1>7, <1>8

\* An ordinary last step needs no argument about the thread.
LEMMA RestKept ==
  ASSUME IInv, NEW t \in Threads, NEW o \in Ops, NEW row \in OpRows, NEW item \in RecRows,
         NEW l \in Requests \cup {Free}, NEW q \in RequestStatuses,
         Writes(t, o, row, item, l, q, Rest(t)), UNCHANGED proxmox,
         StatusMoves(op[o].status, row.status), Continues(item, o), Tells(q, o),
         LockInHand(l, t, o)
  PROVE  IInv'
  <1>1. th' = [th EXCEPT ![t] = Rest(t)] /\ rec' \in [Ops -> RecRows]
    BY Rows DEF Writes
  <1>2. /\ Rest(t) \in ThreadRows /\ ThreadSound(t)' /\ Onward(t) /\ Pairs(t, o)
    BY <1>1, Resting
  <1> QED BY <1>2, OrdinaryKept

\* A step that goes on with the same generation.
LEMMA GoesOn ==
  ASSUME IInv, NEW t \in Threads, NEW o \in Ops, th[t].o = o, th'[t].o = o,
         th'[t].gen = th[t].gen, Dispatched(t)' => Dispatched(t),
         th'[t].pc # "prepare_operation", th'[t].pc \in BeforeSession => th[t].pc \in BeforeSession
  PROVE  Onward(t) /\ Pairs(t, o)
  BY DEF Onward, Pairs

\* What a thread carries on with is still its own.
LEMMA Remembering ==
  ASSUME IInv, NEW t \in Threads, NEW o \in Ops, th[t].o = o, th'[t].o = o,
         th'[t].gen = th[t].gen, th'[t].lockId = th[t].lockId, th'[t].pc # "prepare_operation",
         \A u \in Threads \ {t} : th'[u] = th[u],
         rec'[o] \in RecRows, rec[o].gen <= rec'[o].gen
  PROVE  Remembers(t)'
  <1>1. /\ Remembers(t) /\ th[t] \in ThreadRows /\ rec[o] \in RecRows
    BY Rows DEF ThreadSound
  <1>2. th'[t].gen <= rec'[o].gen
    BY <1>1 DEF Remembers, ThreadRows, RecRows
  <1>3. th[t].lockId # Free =>
          th'[th[t].lockId].o = o /\ th'[th[t].lockId].pc # "prepare_operation"
    BY <1>1 DEF Remembers, ThreadRows, Threads
  <1> QED BY <1>2, <1>3 DEF Remembers, At

\* The operation's row after an event.
NextRow(o, to) == [status |-> to, version |-> op[o].version + 1]

\* An event leaves the row one version on, in the status it names, and the other rows alone.
LEMMA Evented ==
  ASSUME IInv, NEW o \in Ops, NEW to \in OperationStatuses \cup {"none"}
  PROVE  /\ NextRow(o, to) \in OpRows /\ NextRow(o, to).status = to
         /\ Event(o, to) => op' = [op EXCEPT ![o] = NextRow(o, to)]
  BY Rows DEF Event, NextRow, OpRows

\* A thread that only moves on, after an event at most, needs only to be sound where it arrives.
LEMMA MoveKept ==
  ASSUME IInv, NEW t \in Threads, NEW y \in ThreadRows, th' = [th EXCEPT ![t] = y],
         op' = op \/ Event(th[t].o, op[th[t].o].status),
         UNCHANGED <<rec, lock, req, proxmox>>,
         y.o = th[t].o, y.gen = th[t].gen, y.lockId = th[t].lockId,
         Dispatched(t)' => Dispatched(t),
         y.pc # "prepare_operation", y.pc \in BeforeSession => th[t].pc \in BeforeSession,
         PlaceSound(t)'
  PROVE  IInv'
  <1> DEFINE o == th[t].o
  <1>1. /\ o \in Ops /\ op[o] \in OpRows /\ rec[o] \in RecRows /\ req[o] \in RequestStatuses
        /\ VmOf[o] \in Vms /\ lock[VmOf[o]] \in Requests \cup {Free} /\ th'[t] = y
    BY Rows DEF ThreadRows
  <1>2. PICK row \in OpRows : row.status = op[o].status /\ op' = [op EXCEPT ![o] = row]
    <2>1. CASE op' = op
      BY <2>1, <1>1, Unwritten
    <2>2. CASE Event(o, op[o].status)
      <3>1. op[o].status \in OperationStatuses \cup {"none"}
        BY <1>1 DEF OpRows
      <3> QED BY <2>2, <3>1, <1>1, Evented
    <2> QED BY <2>1, <2>2
  <1>3. Writes(t, o, row, rec[o], lock[VmOf[o]], req[o], y)
    BY <1>1, <1>2, Unwritten DEF Writes
  <1>4. Onward(t) /\ Pairs(t, o)
    BY <1>1, GoesOn
  <1>5. StatusMoves(op[o].status, row.status) /\ Continues(rec[o], o) /\ Tells(req[o], o)
        /\ LockInHand(lock[VmOf[o]], t, o)
    BY <1>1, <1>2 DEF StatusMoves, Continues, Tells, LockInHand, RecRows
  <1>6. ThreadSound(t)'
    <2>1. rec'[o] = rec[o] /\ \A u \in Threads \ {t} : th'[u] = th[u]
      BY <1>1, <1>3, Written
    <2> QED BY <1>1, <2>1, Remembering DEF ThreadSound, RecRows
  <1> QED BY <1>1, <1>2, <1>3, <1>4, <1>5, <1>6, OrdinaryKept

-----------------------------------------------------------------------------
(* The steps of a request up to its session. *)

\* A row with another place, row or lock is a row.
LEMMA MovedRow ==
  ASSUME IInv, NEW t \in Threads, NEW pc \in Pcs
  PROVE  /\ Rest(t) \in ThreadRows /\ th[t] \in ThreadRows /\ th[t].o \in Ops
         /\ th' = [th EXCEPT ![t] = Rest(t)] => th'[t] = Rest(t)
         /\ pc # "rest" => /\ Moved(t, pc) \in ThreadRows /\ Moved(t, pc).pc = pc
                           /\ Moved(t, pc).o = th[t].o /\ Moved(t, pc).gen = th[t].gen
                           /\ Moved(t, pc).row = th[t].row /\ Moved(t, pc).step = th[t].step
                           /\ Moved(t, pc).lockId = th[t].lockId
  <1>1. th[t] \in ThreadRows /\ th \in [Threads -> ThreadRows]
    BY Rows
  <1>2. (CHOOSE o \in Ops : TRUE) \in Ops
    BY <1>1 DEF ThreadRows
  <1>3. Rest(t) \in ThreadRows
    BY <1>1, <1>2 DEF Rest, Fresh, ThreadRows, NoOp, OpRows, Pcs, Steps
  <1> QED BY <1>1, <1>3 DEF Moved, ThreadRows

\* A step that only ends the turn of a thread, after an event at most.
LEMMA EndKept ==
  ASSUME IInv, NEW t \in Threads, Goto(t, "rest"),
         op' = op \/ Event(th[t].o, op[th[t].o].status),
         UNCHANGED <<rec, lock, req, proxmox>>
  PROVE  IInv'
  <1> DEFINE o == th[t].o
  <1>1. /\ o \in Ops /\ op[o] \in OpRows /\ rec[o] \in RecRows /\ req[o] \in RequestStatuses
        /\ VmOf[o] \in Vms /\ lock[VmOf[o]] \in Requests \cup {Free}
    BY Rows DEF ThreadRows
  <1>2. PICK row \in OpRows : row.status = op[o].status /\ op' = [op EXCEPT ![o] = row]
    BY <1>1, Unwritten, Evented DEF OpRows
  <1>3. Writes(t, o, row, rec[o], lock[VmOf[o]], req[o], Rest(t))
    BY <1>1, <1>2, Unwritten DEF Writes, Goto, Moved
  <1>4. StatusMoves(op[o].status, row.status) /\ Continues(rec[o], o) /\ Tells(req[o], o)
        /\ LockInHand(lock[VmOf[o]], t, o)
    BY <1>1, <1>2 DEF StatusMoves, Continues, Tells, LockInHand, RecRows
  <1> QED BY <1>1, <1>2, <1>3, <1>4, RestKept

\* The first event of an operation.
LEMMA PrepareOperationKept ==
  ASSUME IInv, NEW t \in Requests, PrepareOperation(t)
  PROVE  IInv'
  <1>1. PICK o \in Ops :
          /\ IF op[o].status = "none" THEN \E s \in {"awaiting_approval", "blocked"} : Event(o, s)
             ELSE UNCHANGED op
          /\ th' = [th EXCEPT ![t] = [Moved(t, "approve") EXCEPT !.o = o]]
    BY DEF PrepareOperation
  <1>2. /\ t \in Threads /\ "approve" \in Pcs /\ th[t].pc = "prepare_operation" /\ th[t].gen = 0
        /\ th[t].lockId = Free /\ th[t].step = "clone"
    BY Rows
       DEF Threads, Pcs, PrepareOperation, At, ThreadSound, PlaceSound, Remembers, RowRead, BeforeSession
  <1>3. PICK y \in ThreadRows : /\ th' = [th EXCEPT ![t] = y]
                               /\ y.pc = "approve" /\ y.o = o /\ y.gen = 0 /\ y.lockId = Free
                               /\ y.step = "clone"
    <2> DEFINE z == [Moved(t, "approve") EXCEPT !.o = o]
    <2>1. /\ z \in ThreadRows /\ z.pc = "approve" /\ z.o = o /\ z.gen = 0 /\ z.lockId = Free
          /\ z.step = "clone"
      BY <1>2, MovedRow DEF ThreadRows
    <2>2. th' = [th EXCEPT ![t] = z]
      BY <1>1
    <2> HIDE DEF z
    <2> QED BY <2>1, <2>2
  <1>4. /\ op[o] \in OpRows /\ rec[o] \in RecRows /\ req[o] \in RequestStatuses
        /\ VmOf[o] \in Vms /\ lock[VmOf[o]] \in Requests \cup {Free}
    BY Rows
  <1>5. PICK row \in OpRows : /\ StatusMoves(op[o].status, row.status)
                              /\ op' = [op EXCEPT ![o] = row]
    <2>1. ASSUME NEW s \in {"awaiting_approval", "blocked"}, op[o].status = "none", Event(o, s)
          PROVE  \E row \in OpRows : /\ StatusMoves(op[o].status, row.status)
                                     /\ op' = [op EXCEPT ![o] = row]
      <3>1. s \in OperationStatuses
        BY DEF OperationStatuses
      <3> QED BY <2>1, <3>1, Evented DEF StatusMoves
    <2>2. UNCHANGED op => op' = [op EXCEPT ![o] = op[o]] /\ StatusMoves(op[o].status, op[o].status)
      BY Unwritten DEF StatusMoves
    <2> QED BY <1>1, <1>4, <2>1, <2>2
  <1>6. Writes(t, o, row, rec[o], lock[VmOf[o]], req[o], y)
    BY <1>3, <1>4, <1>5, Unwritten DEF Writes, PrepareOperation
  <1>7. th'[t] = y /\ rec'[o] \in RecRows
    BY <1>2, <1>3, <1>4, Rows DEF PrepareOperation
  <1>8. ~Dispatched(t)' /\ Onward(t)
    BY <1>2, <1>3, <1>7
       DEF Dispatched, DispatchedPcs, Sending, Unsent, Succeeding, ClosingUnsent, Onward, BeforeSession
  <1>9. ThreadSound(t)'
    BY <1>3, <1>7, <1>8
       DEF ThreadSound, PlaceSound, Remembers, RowRead, Authorised, RequestKnown, SendsInTurn,
           SawTruly, At, Status, ClosingUnsent, Sending, Unsent, Succeeding, RecRows
  <1>10. Continues(rec[o], o) /\ Tells(req[o], o) /\ LockInHand(lock[VmOf[o]], t, o)
    BY <1>4 DEF Continues, Tells, LockInHand, RecRows
  <1>11. Pairs(t, o) /\ UNCHANGED proxmox
    BY <1>3, <1>7, <1>8 DEF Pairs, PrepareOperation, Keep
  <1> QED BY <1>2, <1>3, <1>4, <1>5, <1>6, <1>8, <1>9, <1>10, <1>11, OrdinaryKept

\* A step that only moves a thread to another place.
LEMMA GotoKept ==
  ASSUME IInv, NEW t \in Threads, NEW pc \in Pcs \ {"rest", "prepare_operation"}, Goto(t, pc),
         op' = op \/ Event(th[t].o, op[th[t].o].status),
         UNCHANGED <<rec, lock, req, proxmox>>,
         pc \in BeforeSession => th[t].pc \in BeforeSession,
         Dispatched(t)' => Dispatched(t), PlaceSound(t)'
  PROVE  IInv'
  <1>1. th' = [th EXCEPT ![t] = Moved(t, pc)]
    BY DEF Goto
  <1>2. /\ Moved(t, pc) \in ThreadRows /\ Moved(t, pc).pc = pc
        /\ Moved(t, pc).o = th[t].o /\ Moved(t, pc).gen = th[t].gen
        /\ Moved(t, pc).lockId = th[t].lockId
    BY MovedRow
  <1> QED BY <1>1, <1>2, MoveKept

\* The row of a thread after Goto.
LEMMA Gone ==
  ASSUME IInv, NEW t \in Threads, NEW pc \in Pcs \ {"rest"}, Goto(t, pc)
  PROVE  /\ th'[t] = Moved(t, pc) /\ th'[t].pc = pc /\ th'[t].o = th[t].o /\ th'[t].gen = th[t].gen
         /\ th'[t].row = th[t].row /\ th'[t].step = th[t].step /\ th'[t].lockId = th[t].lockId
  BY MovedRow, Rows DEF Goto

\* What the places up to the session tell, and those of a handler that decides nothing.
Plain == {"release", "load", "observe", "bad_binding", "pause", "retry"}

\* Such a place tells nothing.
LEMMA PlainPlace ==
  ASSUME NEW t, th'[t].pc \in Plain
  PROVE  PlaceSound(t)' /\ ~Dispatched(t)'
  BY DEF Plain, PlaceSound, RowRead, Authorised, RequestKnown, SendsInTurn, SawTruly, At, Status,
         Dispatched, DispatchedPcs, ClosingUnsent, Sending, Unsent, Succeeding, BeforeSession

\* Approval: the row becomes approved, or is found approved or later.
LEMMA ApproveKept ==
  ASSUME IInv, NEW t \in Requests, Approve(t)
  PROVE  IInv'
  <1> DEFINE o == th[t].o
  <1>1. /\ t \in Threads /\ "existing" \in Pcs /\ th[t].pc = "approve" /\ th[t].step = "clone"
        /\ op[o] \in OpRows /\ o \in Ops /\ OperationSound(o)
    BY Rows, MovedRow DEF Threads, Pcs, Approve, At, ThreadSound, PlaceSound, RowRead, BeforeSession
  <1>3. UNCHANGED <<rec, lock, req, proxmox>>
    BY DEF Approve, Keep
  <1>4. ASSUME NEW row \in OpRows, op' = [op EXCEPT ![o] = row],
               th' = [th EXCEPT ![t] = [Moved(t, "existing") EXCEPT !.row = row]],
               \/ op[o].status = "awaiting_approval" /\ row.status = "approved"
               \/ row.status = op[o].status /\ row.status \in Busy \cup {"approved", "succeeded"}
        PROVE  IInv'
    <2>1. /\ rec[o] \in RecRows /\ req[o] \in RequestStatuses
          /\ VmOf[o] \in Vms /\ lock[VmOf[o]] \in Requests \cup {Free}
      BY <1>1, Rows
    <2>0. PICK y \in ThreadRows : /\ th' = [th EXCEPT ![t] = y] /\ y.pc = "existing" /\ y.o = o
                                 /\ y.gen = th[t].gen /\ y.lockId = th[t].lockId
                                 /\ y.row = row /\ y.step = "clone"
      <3> DEFINE z == [Moved(t, "existing") EXCEPT !.row = row]
      <3>1. /\ z \in ThreadRows /\ z.pc = "existing" /\ z.o = o /\ z.gen = th[t].gen
            /\ z.lockId = th[t].lockId /\ z.row = row /\ z.step = "clone"
        BY <1>1, MovedRow DEF ThreadRows
      <3>2. th' = [th EXCEPT ![t] = z]
        BY <1>4
      <3> HIDE DEF z
      <3> QED BY <3>1, <3>2
    <2>2. Writes(t, o, row, rec[o], lock[VmOf[o]], req[o], y)
      BY <1>1, <1>3, <1>4, <2>0, Unwritten DEF Writes
    <2>3. th'[t] = y /\ rec'[o] = rec[o] /\ req'[o] = req[o] /\ \A u \in Threads \ {t} : th'[u] = th[u]
      BY <1>1, <1>3, <2>0, Rows
    <2>4. ~Dispatched(t)' /\ Onward(t) /\ Pairs(t, o)
      BY <1>1, <2>0, <2>3, <1>4, GoesOn
         DEF Dispatched, DispatchedPcs, Sending, Unsent, Succeeding, ClosingUnsent, BeforeSession
    <2>5. req[o] # "none" \/ row.status = "approved"
      BY <1>1, <1>4 DEF OperationSound, OutcomeTrue
    <2>6. PlaceSound(t)'
      BY <2>0, <1>4, <2>3, <2>4, <2>5
         DEF PlaceSound, RowRead, Authorised, RequestKnown, SendsInTurn, SawTruly, At, Status,
             ClosingUnsent, Sending, Unsent, Succeeding
    <2>7. Remembers(t)'
      BY <1>1, <2>0, <1>4, <2>1, <2>3, Remembering DEF RecRows
    <2>8. /\ StatusMoves(op[o].status, row.status) /\ Continues(rec[o], o) /\ Tells(req[o], o)
          /\ LockInHand(lock[VmOf[o]], t, o)
      BY <1>4, <2>1 DEF StatusMoves, Continues, Tells, LockInHand, RecRows
    <2> QED BY <1>1, <1>3, <1>4, <2>0, <2>1, <2>2, <2>4, <2>6, <2>7, <2>8, OrdinaryKept DEF ThreadSound
  <1>5. CASE /\ op[o].status = "awaiting_approval" /\ Event(o, "approved")
             /\ th' = [th EXCEPT ![t] = [Moved(t, "existing") EXCEPT !.row = op'[o]]]
    <2>1. "approved" \in OperationStatuses
      BY DEF OperationStatuses
    <2>2. /\ op' = [op EXCEPT ![o] = NextRow(o, "approved")] /\ NextRow(o, "approved") \in OpRows
          /\ NextRow(o, "approved").status = "approved"
      BY <1>1, <1>5, <2>1, Evented
    <2>3. op'[o] = NextRow(o, "approved")
      BY <2>2, <1>1, Rows
    <2> QED BY <1>4, <1>5, <2>2, <2>3
  <1>6. CASE /\ op[o].status \in Busy \cup {"approved", "succeeded"} /\ UNCHANGED op
             /\ th' = [th EXCEPT ![t] = [Moved(t, "existing") EXCEPT !.row = op[o]]]
    BY <1>1, <1>4, <1>6, Unwritten
  <1>7. CASE /\ op[o].status \in {"awaiting_approval", "blocked"}
             /\ Event(o, op[o].status) /\ Goto(t, "rest")
    BY <1>1, <1>3, <1>7, EndKept
  <1>8. CASE op[o].status = "failed" /\ UNCHANGED op /\ Goto(t, "rest")
    BY <1>1, <1>3, <1>8, EndKept
  <1> QED BY <1>5, <1>6, <1>7, <1>8 DEF Approve

\* A thread with another place and another row, generation or lock.
LEMMA Remade ==
  ASSUME IInv, NEW t \in Threads, NEW pc \in Pcs, NEW row \in OpRows, NEW gen \in Nat,
         NEW k \in Requests \cup {Free}
  PROVE  /\ \E y \in ThreadRows : /\ [Moved(t, pc) EXCEPT !.row = row] = y
                                  /\ y.pc = pc /\ y.o = th[t].o /\ y.gen = th[t].gen /\ y.row = row
                                  /\ y.step = th[t].step /\ y.lockId = th[t].lockId
         /\ \E y \in ThreadRows : /\ [Moved(t, pc) EXCEPT !.gen = gen] = y
                                  /\ y.pc = pc /\ y.o = th[t].o /\ y.gen = gen /\ y.row = th[t].row
                                  /\ y.step = th[t].step /\ y.lockId = th[t].lockId
         /\ \E y \in ThreadRows : /\ [Moved(t, pc) EXCEPT !.lockId = k] = y
                                  /\ y.pc = pc /\ y.o = th[t].o /\ y.gen = th[t].gen
                                  /\ y.row = th[t].row /\ y.step = th[t].step /\ y.lockId = k
  <1>0. pc # "rest"
    BY DEF Pcs
  <1>1. /\ Moved(t, pc) \in ThreadRows /\ Moved(t, pc).pc = pc
        /\ Moved(t, pc).o = th[t].o /\ Moved(t, pc).gen = th[t].gen
        /\ Moved(t, pc).row = th[t].row /\ Moved(t, pc).step = th[t].step
        /\ Moved(t, pc).lockId = th[t].lockId
    BY <1>0, MovedRow
  <1>2. \E y \in ThreadRows : /\ [Moved(t, pc) EXCEPT !.row = row] = y
                              /\ y.pc = pc /\ y.o = th[t].o /\ y.gen = th[t].gen /\ y.row = row
                              /\ y.step = th[t].step /\ y.lockId = th[t].lockId
    <2> DEFINE z == [Moved(t, pc) EXCEPT !.row = row]
    <2>1. /\ z \in ThreadRows /\ z.pc = pc /\ z.o = th[t].o /\ z.gen = th[t].gen /\ z.row = row
          /\ z.step = th[t].step /\ z.lockId = th[t].lockId
      BY <1>1 DEF ThreadRows
    <2> HIDE DEF z
    <2>2. \E y \in ThreadRows : /\ z = y
                                /\ y.pc = pc /\ y.o = th[t].o /\ y.gen = th[t].gen /\ y.row = row
                                /\ y.step = th[t].step /\ y.lockId = th[t].lockId
      BY <2>1
    <2> QED BY <2>2 DEF z
  <1>3. \E y \in ThreadRows : /\ [Moved(t, pc) EXCEPT !.gen = gen] = y
                              /\ y.pc = pc /\ y.o = th[t].o /\ y.gen = gen /\ y.row = th[t].row
                              /\ y.step = th[t].step /\ y.lockId = th[t].lockId
    <2> DEFINE z == [Moved(t, pc) EXCEPT !.gen = gen]
    <2>1. /\ z \in ThreadRows /\ z.pc = pc /\ z.o = th[t].o /\ z.gen = gen /\ z.row = th[t].row
          /\ z.step = th[t].step /\ z.lockId = th[t].lockId
      BY <1>1 DEF ThreadRows
    <2> HIDE DEF z
    <2>2. \E y \in ThreadRows : /\ z = y
                                /\ y.pc = pc /\ y.o = th[t].o /\ y.gen = gen /\ y.row = th[t].row
                                /\ y.step = th[t].step /\ y.lockId = th[t].lockId
      BY <2>1
    <2> QED BY <2>2 DEF z
  <1>4. \E y \in ThreadRows : /\ [Moved(t, pc) EXCEPT !.lockId = k] = y
                              /\ y.pc = pc /\ y.o = th[t].o /\ y.gen = th[t].gen
                              /\ y.row = th[t].row /\ y.step = th[t].step /\ y.lockId = k
    <2> DEFINE z == [Moved(t, pc) EXCEPT !.lockId = k]
    <2>1. /\ z \in ThreadRows /\ z.pc = pc /\ z.o = th[t].o /\ z.gen = th[t].gen
          /\ z.row = th[t].row /\ z.step = th[t].step /\ z.lockId = k
      BY <1>1 DEF ThreadRows
    <2> HIDE DEF z
    <2>2. \E y \in ThreadRows : /\ z = y
                                /\ y.pc = pc /\ y.o = th[t].o /\ y.gen = th[t].gen
                                /\ y.row = th[t].row /\ y.step = th[t].step /\ y.lockId = k
      BY <2>1
    <2> QED BY <2>2 DEF z
  <1> QED BY <1>2, <1>3, <1>4

\* An ordinary step of a thread that goes on with what it carries.
LEMMA StepKept ==
  ASSUME IInv, NEW t \in Threads, NEW o \in Ops, NEW row \in OpRows, NEW item \in RecRows,
         NEW l \in Requests \cup {Free}, NEW q \in RequestStatuses, NEW y \in ThreadRows,
         Writes(t, o, row, item, l, q, y), UNCHANGED proxmox, th[t].o = o,
         y.o = o, y.gen = th[t].gen, y.lockId = th[t].lockId,
         Dispatched(t)' => Dispatched(t),
         y.pc # "prepare_operation", y.pc \in BeforeSession => th[t].pc \in BeforeSession,
         StatusMoves(op[o].status, row.status), Continues(item, o), Tells(q, o),
         LockInHand(l, t, o), PlaceSound(t)'
  PROVE  IInv'
  <1>1. th'[t] = y /\ rec'[o] = item /\ \A u \in Threads \ {t} : th'[u] = th[u]
    BY Rows DEF Writes
  <1>2. Onward(t) /\ Pairs(t, o)
    BY <1>1, GoesOn
  <1>3. rec[o].gen <= item.gen
    BY Rows DEF Continues, RecRows
  <1>4. ThreadSound(t)'
    BY <1>1, <1>3, Remembering DEF ThreadSound
  <1> QED BY <1>2, <1>4, OrdinaryKept

-----------------------------------------------------------------------------
(* Checkpoints. *)

\* What a checkpoint requires and writes that keeps the lock.
LEMMA Committed ==
  ASSUME IInv, NEW t \in Threads, NEW to \in OperationStatuses \cup {"none"}, NEW item \in RecRows,
         NEW next, Checkpoint(t, to, item, FALSE, next)
  PROVE  LET o == th[t].o IN
         /\ o \in Ops /\ LeaseOwned(t) /\ op[o] = th[t].row /\ MayTransition(Status(t), to)
         /\ to = "needs_reconciliation" /\ Status(t) # to => ExactLock(o)
         /\ op' = [op EXCEPT ![o] = NextRow(o, to)] /\ op'[o] = NextRow(o, to)
         /\ rec' = [rec EXCEPT ![o] = item] /\ rec'[o] = item
         /\ lock' = [lock EXCEPT ![VmOf[o]] = lock[VmOf[o]]]
         /\ next = "rest" => th' = [th EXCEPT ![t] = Rest(t)]
  <1> DEFINE o == th[t].o
  <1>1. /\ o \in Ops /\ op[o] \in OpRows /\ rec[o] \in RecRows /\ VmOf[o] \in Vms
        /\ NextRow(o, to) \in OpRows
    BY Rows, Evented DEF ThreadRows
  <1>2. /\ LeaseOwned(t) /\ op[o] = th[t].row /\ MayTransition(Status(t), to)
        /\ to = "needs_reconciliation" /\ Status(t) # to => ExactLock(o)
    BY DEF Checkpoint, MayCommit, Status
  <1>3. op' = [op EXCEPT ![o] = NextRow(o, to)] /\ rec' = [rec EXCEPT ![o] = item]
    BY <1>1, Evented DEF Checkpoint
  <1>4. op'[o] = NextRow(o, to) /\ rec'[o] = item
    BY <1>1, <1>3, Rows
  <1>5. lock' = [lock EXCEPT ![VmOf[o]] = lock[VmOf[o]]]
    BY <1>1, Unwritten DEF Checkpoint
  <1>6. next = "rest" => th' = [th EXCEPT ![t] = Rest(t)]
    BY DEF Checkpoint
  <1> QED BY <1>1, <1>2, <1>3, <1>4, <1>5, <1>6

\* Thread t goes on at a place with a row it has read or written.
Reaches(t, pc, row) ==
  /\ th' = [th EXCEPT ![t] = th'[t]] /\ th'[t] \in ThreadRows
  /\ th'[t].pc = pc /\ th'[t].o = th[t].o /\ th'[t].gen = th[t].gen /\ th'[t].row = row
  /\ th'[t].step = th[t].step /\ th'[t].lockId = th[t].lockId

\* The thread after such a checkpoint.
LEMMA Arrived ==
  ASSUME IInv, NEW t \in Threads, NEW to \in OperationStatuses \cup {"none"}, NEW item \in RecRows,
         NEW next \in Pcs, Checkpoint(t, to, item, FALSE, next)
  PROVE  Reaches(t, next, NextRow(th[t].o, to))
  <1> DEFINE o == th[t].o
  <1>0. next # "rest"
    BY DEF Pcs
  <1>1. /\ o \in Ops /\ NextRow(o, to) \in OpRows
    BY Rows, Evented DEF ThreadRows
  <1>2. th' = [th EXCEPT ![t] = [Moved(t, next) EXCEPT !.row = NextRow(o, to)]]
    BY <1>0, Committed DEF Checkpoint
  <1>3. PICK y \in ThreadRows : /\ [Moved(t, next) EXCEPT !.row = NextRow(o, to)] = y
                                /\ y.pc = next /\ y.o = o /\ y.gen = th[t].gen
                                /\ y.row = NextRow(o, to)
                                /\ y.step = th[t].step /\ y.lockId = th[t].lockId
    BY <1>1, Remade, 0 \in Nat, Free \in Requests \cup {Free}
  <1>4. th' = [th EXCEPT ![t] = y]
    BY <1>2, <1>3
  <1>5. th'[t] = y
    BY <1>4, Rows
  <1> QED BY <1>3, <1>4, <1>5 DEF Reaches

\* An ordinary checkpoint on the way.
LEMMA CommitKept ==
  ASSUME IInv, NEW t \in Threads, NEW to \in OperationStatuses \cup {"none"}, NEW item \in RecRows,
         NEW next \in Pcs, next \notin BeforeSession,
         Checkpoint(t, to, item, FALSE, next), UNCHANGED <<req, proxmox>>,
         StatusMoves(Status(t), to), Continues(item, th[t].o),
         Dispatched(t)' => Dispatched(t), PlaceSound(t)'
  PROVE  IInv'
  <1> DEFINE o == th[t].o
  <1>1. /\ o \in Ops /\ op[o] = th[t].row
        /\ op' = [op EXCEPT ![o] = NextRow(o, to)] /\ rec' = [rec EXCEPT ![o] = item]
        /\ lock' = [lock EXCEPT ![VmOf[o]] = lock[VmOf[o]]]
    BY Committed
  <1>2. /\ th' = [th EXCEPT ![t] = th'[t]] /\ th'[t] \in ThreadRows
        /\ th'[t].pc = next /\ th'[t].o = o /\ th'[t].gen = th[t].gen
        /\ th'[t].lockId = th[t].lockId
    <2>1. Reaches(t, next, NextRow(th[t].o, to))
      BY Arrived
    <2> QED BY <2>1 DEF Reaches
  <1>3. /\ NextRow(o, to) \in OpRows /\ NextRow(o, to).status = to
        /\ req[o] \in RequestStatuses /\ lock[VmOf[o]] \in Requests \cup {Free}
    BY <1>1, Rows, Evented
  <1>4. Writes(t, o, NextRow(o, to), item, lock[VmOf[o]], req[o], th'[t])
    BY <1>1, <1>2, Unwritten DEF Writes
  <1>5. Tells(req[o], o) /\ LockInHand(lock[VmOf[o]], t, o)
    BY DEF Tells, LockInHand
  <1>6. th'[t].pc # "prepare_operation" /\ th'[t].pc \notin BeforeSession
    BY <1>2 DEF BeforeSession
  <1>7. StatusMoves(op[o].status, NextRow(o, to).status)
    BY <1>1, <1>3 DEF Status
  <1> QED BY <1>1, <1>2, <1>3, <1>4, <1>5, <1>6, <1>7, StepKept

\* An ordinary checkpoint at the end of a turn.
LEMMA LastCommitKept ==
  ASSUME IInv, NEW t \in Threads, NEW to \in OperationStatuses \cup {"none"}, NEW item \in RecRows,
         Checkpoint(t, to, item, FALSE, "rest"), UNCHANGED <<req, proxmox>>,
         StatusMoves(Status(t), to), Continues(item, th[t].o)
  PROVE  IInv'
  <1> DEFINE o == th[t].o
  <1>1. /\ o \in Ops /\ op[o] = th[t].row
        /\ op' = [op EXCEPT ![o] = NextRow(o, to)] /\ rec' = [rec EXCEPT ![o] = item]
        /\ lock' = [lock EXCEPT ![VmOf[o]] = lock[VmOf[o]]]
        /\ th' = [th EXCEPT ![t] = Rest(t)]
    BY Committed
  <1>3. /\ NextRow(o, to) \in OpRows /\ NextRow(o, to).status = to
        /\ req[o] \in RequestStatuses /\ lock[VmOf[o]] \in Requests \cup {Free}
    BY <1>1, Rows, Evented
  <1>4. Writes(t, o, NextRow(o, to), item, lock[VmOf[o]], req[o], Rest(t))
    BY <1>1, Unwritten DEF Writes
  <1>5. Tells(req[o], o) /\ LockInHand(lock[VmOf[o]], t, o)
    BY DEF Tells, LockInHand
  <1>7. StatusMoves(op[o].status, NextRow(o, to).status)
    BY <1>1, <1>3 DEF Status
  <1> QED BY <1>1, <1>3, <1>4, <1>5, <1>7, RestKept

\* A turn that ends without closing the work leaves it as it is.
LEMMA Leaving ==
  ASSUME IInv, NEW t \in Threads, LeaseOwned(t), NEW status \in {"retry_wait", "paused"}
  PROVE  Ended(t, status) \in RecRows /\ Continues(Ended(t, status), th[t].o)
  <1>1. th[t].o \in Ops /\ rec[th[t].o] \in RecRows
    BY Rows DEF ThreadRows
  <1>2. /\ Ended(t, status) \in RecRows /\ Ended(t, status).status = status
        /\ Ended(t, status).phase = rec[th[t].o].phase /\ Ended(t, status).gen = rec[th[t].o].gen
        /\ Ended(t, status).success = rec[th[t].o].success
        /\ Ended(t, status).lockId = rec[th[t].o].lockId
    BY <1>1 DEF Ended, RecRows
  <1>3. rec[th[t].o].status = "leased" /\ rec[th[t].o].gen \in Nat
    BY <1>1 DEF LeaseOwned, RecRows
  <1> QED BY <1>2, <1>3 DEF Continues, Open

\* A turn that ends with the status it has read.
LEMMA LeaveKept ==
  ASSUME IInv, NEW t \in Threads, NEW status \in {"retry_wait", "paused"},
         NEW to \in {Status(t)} \cup Busy, to = Status(t) \/ Status(t) \in Busy,
         Checkpoint(t, to, Ended(t, status), FALSE, "rest"), UNCHANGED <<req, proxmox>>
  PROVE  IInv'
  <1>1. LeaseOwned(t)
    BY DEF Checkpoint, MayCommit
  <1>2. Ended(t, status) \in RecRows /\ Continues(Ended(t, status), th[t].o)
    BY <1>1, Leaving
  <1>3. to \in OperationStatuses \cup {"none"}
    BY Rows DEF Status, ThreadRows, OpRows, Busy, OperationStatuses
  <1>4. StatusMoves(Status(t), to)
    BY DEF StatusMoves
  <1> QED BY <1>2, <1>3, <1>4, LastCommitKept

-----------------------------------------------------------------------------
(* The steps of a request up to its session, continued. *)

\* A request goes on only if the operation has no request row, so it is approved.
LEMMA CheckExistingKept ==
  ASSUME IInv, NEW t \in Requests, CheckExisting(t)
  PROVE  IInv'
  <1> DEFINE o == th[t].o
  <1>1. /\ t \in Threads /\ th[t].pc = "existing" /\ th[t].step = "clone" /\ o \in Ops
        /\ UNCHANGED <<rec, lock, req, proxmox>>
    BY Rows, MovedRow
       DEF Threads, CheckExisting, At, ThreadSound, PlaceSound, RowRead, BeforeSession, Keep, ThreadRows
  <1>2. CASE Event(o, op[o].status) /\ Goto(t, "rest")
    BY <1>1, <1>2, EndKept
  <1>3. CASE req[o] = "none" /\ Goto(t, "acquire") /\ UNCHANGED op
    <2>1. "acquire" \in Pcs \ {"rest", "prepare_operation"}
      BY DEF Pcs
    <2>2. /\ th'[t].pc = "acquire" /\ th'[t].row = th[t].row /\ th'[t].step = th[t].step
          /\ th'[t].o = o
      BY <1>1, <1>3, <2>1, Gone
    <2>3. Status(t) = "approved"
      BY <1>1, <1>3, Rows DEF ThreadSound, PlaceSound, RequestKnown, RowRead, At
    <2>4. PlaceSound(t)' /\ ~Dispatched(t)'
      BY <1>1, <2>2, <2>3
         DEF PlaceSound, RowRead, Authorised, RequestKnown, SendsInTurn, SawTruly, At, Status,
             Dispatched, DispatchedPcs, ClosingUnsent, Sending, Unsent, Succeeding
    <2> QED BY <1>1, <1>3, <2>1, <2>4, GotoKept DEF BeforeSession
  <1> QED BY <1>2, <1>3 DEF CheckExisting

\* The lock is taken, taken over, or refused.
LEMMA AcquireKept ==
  ASSUME IInv, NEW t \in Requests, Acquire(t)
  PROVE  IInv'
  <1> DEFINE o == th[t].o
  <1> DEFINE v == VmOf[o]
  <1>1. /\ t \in Threads /\ th[t].pc = "acquire" /\ th[t].step = "clone" /\ o \in Ops
        /\ Status(t) = "approved" /\ v \in Vms /\ lock[v] \in Requests \cup {Free}
        /\ op[o] \in OpRows /\ rec[o] \in RecRows /\ req[o] \in RequestStatuses
        /\ th[t] \in ThreadRows /\ LockNamed(v) /\ Remembers(t)
    BY Rows DEF Threads, Acquire, At, ThreadSound, PlaceSound, RowRead, BeforeSession, ThreadRows
  <1>2. UNCHANGED <<rec, req, proxmox>>
    BY DEF Acquire, Keep
  <1>3. ASSUME NEW pc \in {"prepare", "adopt"}, NEW k \in Requests, NEW l \in Requests \cup {Free},
               UNCHANGED op, lock' = [lock EXCEPT ![v] = l], LockInHand(l, t, o),
               th[k].o = o, th[k].pc # "prepare_operation", pc = "prepare" => l = t,
               th' = [th EXCEPT ![t] = [Moved(t, pc) EXCEPT !.lockId = k]]
        PROVE  IInv'
    <2>1. pc \in Pcs
      BY DEF Pcs
    <2>2. PICK y \in ThreadRows : /\ [Moved(t, pc) EXCEPT !.lockId = k] = y
                                  /\ y.pc = pc /\ y.o = th[t].o /\ y.gen = th[t].gen
                                  /\ y.row = th[t].row /\ y.step = th[t].step /\ y.lockId = k
      BY <1>1, <2>1, Remade, 0 \in Nat, k \in Requests \cup {Free}
    <2>3. Writes(t, o, op[o], rec[o], l, req[o], y)
      BY <1>1, <1>2, <1>3, <2>2, Unwritten DEF Writes
    <2>4. th'[t] = y /\ lock'[v] = l /\ \A u \in Threads \ {t} : th'[u] = th[u]
      BY <1>1, <1>3, <2>2, Rows
    <2>5. ~Dispatched(t)' /\ Onward(t) /\ Pairs(t, o)
      BY <1>1, <2>2, <2>4, GoesOn
         DEF Dispatched, DispatchedPcs, Sending, Unsent, Succeeding, ClosingUnsent, BeforeSession
    <2>6. PlaceSound(t)'
      BY <1>1, <1>2, <1>3, <2>2, <2>4, <2>5
         DEF PlaceSound, RowRead, Authorised, RequestKnown, SendsInTurn, SawTruly, At, Status,
             ClosingUnsent, Sending, Unsent, Succeeding
    <2>7. Remembers(t)'
      <3>1. th'[k].o = o /\ th'[k].pc # "prepare_operation"
        BY <1>3, <2>2, <2>4 DEF Threads
      <3> QED BY <1>1, <1>2, <2>2, <2>4, <3>1 DEF Remembers, At
    <2>8. StatusMoves(op[o].status, op[o].status) /\ Continues(rec[o], o) /\ Tells(req[o], o)
      BY <1>1 DEF StatusMoves, Continues, Tells, RecRows
    <2> QED BY <1>1, <1>2, <1>3, <2>3, <2>5, <2>6, <2>7, <2>8, OrdinaryKept DEF ThreadSound
  <1>4. CASE /\ lock[v] = Free /\ lock' = [lock EXCEPT ![v] = t] /\ UNCHANGED op
             /\ th' = [th EXCEPT ![t] = [Moved(t, "prepare") EXCEPT !.lockId = t]]
    <2>1. LockInHand(t, t, o)
      BY <1>4 DEF LockInHand
    <2> QED BY <1>1, <1>3, <1>4, <2>1
  <1>5. CASE /\ lock[v] # Free /\ MayAdopt(t) /\ UNCHANGED <<op, lock>>
             /\ th' = [th EXCEPT ![t] = [Moved(t, "adopt") EXCEPT !.lockId = lock[v]]]
    <2>1. /\ lock[v] \in Requests /\ th[lock[v]].o = o /\ th[lock[v]].pc # "prepare_operation"
      BY <1>1, <1>5 DEF MayAdopt, LockedBy, LockNamed
    <2>2. LockInHand(lock[v], t, o) /\ lock' = [lock EXCEPT ![v] = lock[v]]
      BY <1>1, <1>5, Unwritten DEF LockInHand
    <2> QED BY <1>1, <1>3, <1>5, <2>1, <2>2
  <1>6. CASE UNCHANGED lock /\ Event(o, op[o].status) /\ Goto(t, "rest")
    BY <1>1, <1>2, <1>6, EndKept
  <1> QED BY <1>4, <1>5, <1>6 DEF Acquire

\* A request without a session gives its own lock back.
LEMMA ReleaseOwnKept ==
  ASSUME IInv, NEW t \in Requests, ReleaseOwn(t)
  PROVE  IInv'
  <1> DEFINE o == th[t].o
  <1> DEFINE v == VmOf[o]
  <1> DEFINE l == IF lock[v] = t THEN Free ELSE lock[v]
  <1>1. /\ t \in Threads /\ At(t, "release") /\ o \in Ops /\ v \in Vms
        /\ lock[v] \in Requests \cup {Free}
        /\ op[o] \in OpRows /\ rec[o] \in RecRows /\ req[o] \in RequestStatuses
    BY Rows DEF Threads, ReleaseOwn, ThreadRows
  <1>2. UNCHANGED <<op, rec, req, proxmox>> /\ th' = [th EXCEPT ![t] = Rest(t)]
    BY DEF ReleaseOwn, Keep, Goto, Moved
  <1>3. l \in Requests \cup {Free} /\ lock' = [lock EXCEPT ![v] = l]
    BY <1>1, Unwritten DEF ReleaseOwn
  <1>4. LockInHand(l, t, o)
    BY <1>1 DEF LockInHand
  <1> HIDE DEF l
  <1>5. Writes(t, o, op[o], rec[o], l, req[o], Rest(t))
    BY <1>1, <1>2, <1>3, Unwritten DEF Writes
  <1>6. StatusMoves(op[o].status, op[o].status) /\ Continues(rec[o], o) /\ Tells(req[o], o)
    BY <1>1 DEF StatusMoves, Continues, Tells, RecRows
  <1> QED BY <1>1, <1>2, <1>3, <1>4, <1>5, <1>6, RestKept

\* What the preparation of a session writes.
Prepares(t, item) ==
  LET o == th[t].o IN
    /\ item \in RecRows /\ rec' = [rec EXCEPT ![o] = item] /\ rec'[o] = item
    /\ item.status = "leased" /\ item.gen \in Nat /\ rec[o].gen \in Nat /\ item.gen = rec[o].gen + 1
    /\ item.phase = "pre" /\ item.lockId = th[t].lockId /\ item.success = rec[o].success

\* Preparing a session opens the next generation of the operation, in the phase before a dispatch.
LEMMA Prepared ==
  ASSUME IInv, NEW t \in Threads, PrepareAndClaim(t)
  PROVE  Prepares(t, rec'[th[t].o])
  <1> DEFINE o == th[t].o
  <1> DEFINE z == [rec[o] EXCEPT !.status = "leased", !.gen = rec[o].gen + 1, !.live = TRUE,
                                 !.phase = "pre", !.lockId = th[t].lockId]
  <1>1. /\ o \in Ops /\ rec[o] \in RecRows /\ rec[o].gen \in Nat
        /\ th[t].lockId \in Requests \cup {Free}
    BY Rows DEF ThreadRows, RecRows
  <1>2. rec' = [rec EXCEPT ![o] = z]
    BY DEF PrepareAndClaim
  <1>3. z \in RecRows
    <2>1. rec[o].gen + 1 \in Nat
      BY <1>1
    <2> DEFINE n == rec[o].gen + 1
    <2>2. n \in Nat
      BY <2>1
    <2> HIDE DEF n
    <2>3. [rec[o] EXCEPT !.status = "leased", !.gen = n, !.live = TRUE,
                         !.phase = "pre", !.lockId = th[t].lockId] \in RecRows
      BY <1>1, <2>2 DEF RecRows
    <2> QED BY <2>3 DEF n
  <1>4. /\ z.status = "leased" /\ z.gen = rec[o].gen + 1
        /\ z.phase = "pre" /\ z.lockId = th[t].lockId /\ z.success = rec[o].success
    BY <1>1 DEF RecRows
  <1> HIDE DEF z
  <1>5. rec'[o] = z
    BY <1>1, <1>2, Rows
  <1>6. rec' = [rec EXCEPT ![o] = rec'[o]]
    BY <1>2, <1>5
  <1>7. /\ rec'[o] \in RecRows /\ rec'[o].status = "leased" /\ rec'[o].gen \in Nat
        /\ rec'[o].gen = rec[o].gen + 1
        /\ rec'[o].phase = "pre" /\ rec'[o].lockId = th[t].lockId /\ rec'[o].success = rec[o].success
    BY <1>1, <1>3, <1>4, <1>5
  <1> QED BY <1>1, <1>6, <1>7 DEF Prepares

\* Thread t goes on at a place with a new generation.
Claims(t, pc) ==
  /\ th' = [th EXCEPT ![t] = th'[t]] /\ th'[t] \in ThreadRows
  /\ th'[t].pc = pc /\ th'[t].o = th[t].o /\ th'[t].gen = rec'[th[t].o].gen
  /\ th'[t].row = th[t].row /\ th'[t].step = th[t].step /\ th'[t].lockId = th[t].lockId

\* A thread that prepared a session holds the generation it opened.
LEMMA ClaimedRow ==
  ASSUME IInv, NEW t \in Threads, PrepareAndClaim(t), NEW pc \in Pcs,
         th' = [th EXCEPT ![t] = [Moved(t, pc) EXCEPT !.gen = rec'[th[t].o].gen]]
  PROVE  Claims(t, pc)
  <1> DEFINE gen == rec'[th[t].o].gen
  <1>1. gen \in Nat
    BY Prepared DEF Prepares
  <1>2. /\ Moved(t, pc) \in ThreadRows /\ Moved(t, pc).pc = pc
        /\ Moved(t, pc).o = th[t].o /\ Moved(t, pc).row = th[t].row
        /\ Moved(t, pc).step = th[t].step /\ Moved(t, pc).lockId = th[t].lockId
    <2>1. pc # "rest"
      BY DEF Pcs
    <2> QED BY <2>1, MovedRow
  <1> HIDE DEF gen
  <1> DEFINE z == [Moved(t, pc) EXCEPT !.gen = gen]
  <1>3. /\ z \in ThreadRows /\ z.pc = pc /\ z.o = th[t].o /\ z.gen = gen
        /\ z.row = th[t].row /\ z.step = th[t].step /\ z.lockId = th[t].lockId
    BY <1>1, <1>2 DEF ThreadRows
  <1>4. th' = [th EXCEPT ![t] = z]
    BY DEF gen
  <1> HIDE DEF z
  <1>5. th'[t] = z
    BY <1>4, Rows
  <1>6. th' = [th EXCEPT ![t] = th'[t]]
    BY <1>4, <1>5
  <1> QED BY <1>3, <1>5, <1>6 DEF Claims, gen

\* A session is prepared on the row of an approved operation, of which nothing was sent.
LEMMA PrepareAndClaimKept ==
  ASSUME IInv, NEW t \in Threads, PrepareAndClaim(t), UNCHANGED <<op, lock, req, proxmox>>,
         NEW pc \in {"record", "no_effect", "load"},
         Claims(t, pc), Status(t) = "approved", pc = "record" => At(t, "prepare"),
         pc \in {"record", "no_effect"} => th[t].step = "clone",
         ~Dispatched(t), ~At(t, "prepare_operation")
  PROVE  IInv'
  <1>15. PICK o \in Ops : o = th[t].o
    BY Rows DEF ThreadRows
  <1> DEFINE v == VmOf[o]
  <1>1. /\ o \in Ops /\ v \in Vms /\ lock[v] \in Requests \cup {Free}
        /\ op[o] \in OpRows /\ rec[o] \in RecRows /\ req[o] \in RequestStatuses
        /\ th[t] \in ThreadRows /\ Remembers(t) /\ PlaceSound(t) /\ OperationSound(o)
    BY <1>15, Rows DEF ThreadRows, ThreadSound
  <1>2. op[o] = th[t].row /\ op[o].status = "approved" /\ rec[o].status # "completed"
    BY <1>15 DEF PrepareAndClaim, Status
  <1>3. PICK item \in RecRows : item = rec'[o]
    BY <1>15, Prepared DEF Prepares
  <1>4. /\ rec' = [rec EXCEPT ![o] = item] /\ rec'[o] = item
        /\ item.status = "leased" /\ item.phase = "pre" /\ item.lockId = th[t].lockId
        /\ item.success = rec[o].success
        /\ item.gen \in Nat /\ rec[o].gen \in Nat /\ item.gen > rec[o].gen /\ item.gen > 0
    <2>1. Prepares(t, rec'[o])
      BY <1>15, Prepared
    <2> QED BY <2>1, <1>3, <1>15 DEF Prepares
  <1>0. PICK y \in ThreadRows : y = th'[t]
    BY DEF Claims
  <1>5. /\ y.pc = pc /\ y.o = o /\ y.gen = item.gen
        /\ y.row = th[t].row /\ y.step = th[t].step /\ y.lockId = th[t].lockId
    BY <1>15, <1>0, <1>4 DEF Claims
  <1>6. th' = [th EXCEPT ![t] = y] /\ th'[t] = y /\ \A u \in Threads \ {t} : th'[u] = th[u]
    <2>1. th' = [th EXCEPT ![t] = y]
      BY <1>0 DEF Claims
    <2> QED BY <1>15, <1>0, <2>1, Rows
  <1>7. Writes(t, o, op[o], item, lock[v], req[o], y)
    BY <1>15, <1>1, <1>4, <1>6, Unwritten DEF Writes
  <1>8. /\ op'[o] = op[o] /\ lock'[v] = lock[v] /\ req'[o] = req[o] /\ sent'[o] = sent[o]
        /\ effect'[o] = effect[o] /\ vm'[v] = vm[v]
    BY DEF proxmox
  <1>9. Acts(o) /\ LockMoves(t, o) /\ Onward(t)
    BY <1>15, <1>5, <1>6, <1>8, Rows DEF Acts, proxmox, LockMoves, Onward, BeforeSession, At
  <1>10. ~Dispatched(t)'
    BY <1>15, <1>2, <1>5, <1>6
       DEF Dispatched, Status, DispatchedPcs, Sending, Unsent, Succeeding, ClosingUnsent
  <1>11. Advance(t, o) /\ Pairs(t, o)
    BY <1>15, <1>2, <1>3, <1>4, <1>5, <1>6, <1>8, <1>10 DEF Advance, Pairs, Undecided
  <1>12. OperationSound(o)'
    <2>1. RowsAgree(o)'
      BY <1>15, <1>1, <1>2, <1>3, <1>4, <1>8
         DEF OperationSound, RowsAgree, Undecided, Decided, Busy, StatusesInUse
    <2>2. LockKnown(o)'
      <3>1. th[t].lockId # Free =>
              th'[th[t].lockId].o = o /\ th'[th[t].lockId].pc # "prepare_operation"
        BY <1>15, <1>1, <1>5, <1>6 DEF Remembers, ThreadRows, Threads
      <3> QED BY <1>15, <1>2, <1>3, <1>4, <1>8, <3>1 DEF LockKnown, Busy
    <2>3. MutationsInOrder(o)'
      BY <1>15, <1>1, <1>2, <1>3, <1>4, <1>8
         DEF OperationSound, RowsAgree, MutationsInOrder, StepBuilds, NothingSent, NoEffect, Undecided
    <2>4. OutcomeTrue(o)'
      BY <1>15, <1>1, <1>2, <1>3, <1>4, <1>8 DEF OperationSound, OutcomeTrue, Whole, Busy
    <2> QED BY <2>1, <2>2, <2>3, <2>4 DEF OperationSound
  <1>13. ThreadSound(t)'
    <2>1. Remembers(t)'
      <3>1. th[t].lockId # Free =>
              th'[th[t].lockId].o = o /\ th'[th[t].lockId].pc # "prepare_operation"
        BY <1>15, <1>1, <1>5, <1>6 DEF Remembers, ThreadRows, Threads
      <3> QED BY <1>15, <1>4, <1>5, <1>6, <3>1 DEF Remembers, At
    <2>2. At(t, "prepare") => lock[v] = t
      BY <1>15, <1>1, <1>2 DEF PlaceSound, Authorised, At
    <2>3. PlaceSound(t)'
      BY <1>15, <1>2, <1>4, <1>5, <1>6, <1>8, <1>10, <2>2
         DEF PlaceSound, RowRead, Authorised, RequestKnown, SendsInTurn, SawTruly, At, Status,
             ClosingUnsent, Sending, Unsent, Succeeding, BeforeSession
    <2> QED BY <2>1, <2>3 DEF ThreadSound
  <1> QED BY <1>15, <1>0, <1>1, <1>3, <1>7, <1>9, <1>11, <1>12, <1>13, TurnKept

\* A request with a lock prepares its session, or gives up.
LEMMA PrepareSessionKept ==
  ASSUME IInv, NEW t \in Requests, PrepareSession(t)
  PROVE  IInv'
  <1>1. /\ t \in Threads /\ th[t].pc \in {"prepare", "adopt"} /\ UNCHANGED <<op, lock, req, proxmox>>
        /\ Status(t) = "approved" /\ th[t].step = "clone"
    BY Rows DEF Threads, PrepareSession, Keep, ThreadSound, PlaceSound, RowRead, BeforeSession
  <1>2. ~Dispatched(t) /\ ~At(t, "prepare_operation")
    BY <1>1 DEF Dispatched, DispatchedPcs, Sending, Unsent, Succeeding, ClosingUnsent, At
  <1>3. CASE PrepareAndClaim(t) /\
             th' = [th EXCEPT ![t] = [Moved(t, IF At(t, "prepare") THEN "record" ELSE "no_effect")
                                        EXCEPT !.gen = rec'[th[t].o].gen]]
    <2>1. PICK pc \in {"record", "no_effect"} :
            /\ pc = "record" => At(t, "prepare")
            /\ th' = [th EXCEPT ![t] = [Moved(t, pc) EXCEPT !.gen = rec'[th[t].o].gen]]
      BY <1>3
    <2>2. pc \in Pcs
      BY DEF Pcs
    <2> QED BY <1>1, <1>2, <1>3, <2>1, <2>2, ClaimedRow, PrepareAndClaimKept
  <1>4. CASE Goto(t, IF At(t, "prepare") THEN "release" ELSE "rest") /\ UNCHANGED rec
    <2>1. CASE Goto(t, "rest")
      BY <1>1, <1>4, <2>1, EndKept
    <2>2. CASE At(t, "prepare") /\ Goto(t, "release")
      <3>1. "release" \in Pcs \ {"rest", "prepare_operation"}
        BY DEF Pcs
      <3>2. th'[t].pc = "release"
        BY <1>1, <2>2, <3>1, Gone
      <3>3. PlaceSound(t)' /\ ~Dispatched(t)'
        BY <3>2, PlainPlace DEF Plain
      <3> QED BY <1>1, <1>4, <2>2, <3>1, <3>3, GotoKept DEF BeforeSession
    <2> QED BY <1>4, <2>1, <2>2
  <1> QED BY <1>1, <1>3, <1>4 DEF PrepareSession

\* So does an operator who found an approved operation with its lock and no session.
LEMMA ClaimUnpreparedKept ==
  ASSUME IInv, NEW t \in Observers, ClaimUnprepared(t)
  PROVE  IInv'
  <1>1. /\ t \in Threads /\ th[t].pc = "claim_unprepared" /\ UNCHANGED <<op, lock, req, proxmox>>
        /\ Status(t) = "approved"
    BY Rows DEF Threads, ClaimUnprepared, Keep, ThreadSound, PlaceSound, RowRead, At
  <1>2. ~Dispatched(t) /\ ~At(t, "prepare_operation") /\ ~At(t, "prepare")
    BY <1>1 DEF Dispatched, DispatchedPcs, Sending, Unsent, Succeeding, ClosingUnsent, At
  <1>3. CASE PrepareAndClaim(t) /\
             th' = [th EXCEPT ![t] = [Moved(t, "load") EXCEPT !.gen = rec'[th[t].o].gen]]
    <2>1. "load" \in Pcs
      BY DEF Pcs
    <2> QED BY <1>1, <1>2, <1>3, <2>1, ClaimedRow, PrepareAndClaimKept
  <1>4. CASE Goto(t, "rest") /\ UNCHANGED rec
    BY <1>1, <1>4, EndKept
  <1> QED BY <1>3, <1>4 DEF ClaimUnprepared

-----------------------------------------------------------------------------
(* The steps of a request between its session and its first mutation. *)

\* A checkpoint passed on the way, as its thread sees it.
Passed(t, to, item, next) ==
  LET o == th[t].o IN
    /\ o \in Ops /\ LeaseOwned(t) /\ op[o].status = Status(t) /\ MayTransition(Status(t), to)
    /\ th'[t].pc = next /\ th'[t].o = o /\ th'[t].row.status = to /\ th'[t].step = th[t].step
    /\ th'[t].gen = th[t].gen /\ op'[o].status = to /\ rec'[o] = item

\* A checkpoint that passes leaves the thread with the row it wrote and the operation in its status.
LEMMA Passing ==
  ASSUME IInv, NEW t \in Threads, NEW to \in OperationStatuses \cup {"none"}, NEW item \in RecRows,
         NEW next \in Pcs, Checkpoint(t, to, item, FALSE, next)
  PROVE  Passed(t, to, item, next)
  <1> DEFINE o == th[t].o
  <1>1. /\ o \in Ops /\ LeaseOwned(t) /\ op[o] = th[t].row /\ MayTransition(Status(t), to)
        /\ op'[o] = NextRow(o, to) /\ rec'[o] = item
    BY Committed
  <1>2. Reaches(t, next, NextRow(o, to))
    BY Arrived
  <1>3. NextRow(o, to).status = to
    BY <1>1, Evented
  <1> QED BY <1>1, <1>2, <1>3 DEF Passed, Reaches, Status

\* The row a thread has read is a row.
LEMMA StatusRead ==
  ASSUME IInv, NEW t \in Threads
  PROVE  Status(t) \in OperationStatuses \cup {"none"} /\ th[t].o \in Ops /\ rec[th[t].o] \in RecRows
  BY Rows DEF Status, ThreadRows, OpRows

\* A checkpoint on the way that changes nothing but the operation's version.
LEMMA PassKept ==
  ASSUME IInv, NEW t \in Threads, NEW next \in Pcs, next \notin BeforeSession,
         Checkpoint(t, Status(t), rec[th[t].o], FALSE, next), UNCHANGED <<req, proxmox>>,
         Dispatched(t)' => Dispatched(t), PlaceSound(t)'
  PROVE  IInv'
  <1>1. Status(t) \in OperationStatuses \cup {"none"} /\ rec[th[t].o] \in RecRows
    BY StatusRead
  <1>2. StatusMoves(Status(t), Status(t)) /\ Continues(rec[th[t].o], th[t].o)
    BY <1>1 DEF StatusMoves, Continues, RecRows
  <1> QED BY <1>1, <1>2, CommitKept

\* The request row is written on the way.
LEMMA TellKept ==
  ASSUME IInv, NEW t \in Threads, NEW pc \in Pcs, pc \notin BeforeSession, Goto(t, pc),
         NEW q \in RequestStatuses, Tells(q, th[t].o), req' = [req EXCEPT ![th[t].o] = q],
         UNCHANGED <<ledger, proxmox>>, Dispatched(t)' => Dispatched(t), PlaceSound(t)'
  PROVE  IInv'
  <1>0. pc # "rest" /\ pc # "prepare_operation"
    BY DEF Pcs, BeforeSession
  <1>1. PICK o \in Ops : o = th[t].o
    BY Rows DEF ThreadRows
  <1>2. PICK y \in ThreadRows : y = Moved(t, pc)
    BY <1>0, MovedRow
  <1>3. /\ y.pc = pc /\ y.o = o /\ y.gen = th[t].gen /\ y.lockId = th[t].lockId
    BY <1>0, <1>1, <1>2, MovedRow
  <1>4. /\ op[o] \in OpRows /\ rec[o] \in RecRows /\ VmOf[o] \in Vms
        /\ lock[VmOf[o]] \in Requests \cup {Free}
    BY Rows
  <1>5. th' = [th EXCEPT ![t] = y]
    BY <1>2 DEF Goto
  <1>6. Writes(t, o, op[o], rec[o], lock[VmOf[o]], q, y)
    BY <1>1, <1>5, Unwritten DEF Writes, ledger
  <1>7. /\ StatusMoves(op[o].status, op[o].status) /\ Continues(rec[o], o) /\ Tells(q, o)
        /\ LockInHand(lock[VmOf[o]], t, o)
    BY <1>1, <1>4 DEF StatusMoves, Continues, LockInHand, RecRows
  <1> QED BY <1>0, <1>1, <1>3, <1>4, <1>6, <1>7, StepKept

\* A request that gives up before its first mutation has sent nothing.
LEMMA GivingUp ==
  ASSUME IInv, NEW t \in Threads, Goto(t, "no_effect"), UNCHANGED <<op, rec, proxmox>>,
         Status(t) \in {"approved", "dispatching"},
         Status(t) = "dispatching" => Dispatched(t) /\ NothingSent(th[t].o)
  PROVE  PlaceSound(t)' /\ (Dispatched(t)' => Dispatched(t))
  <1>1. "no_effect" \in Pcs \ {"rest"}
    BY DEF Pcs
  <1>2. /\ th'[t].pc = "no_effect" /\ th'[t].o = th[t].o /\ th'[t].row = th[t].row
        /\ th'[t].step = th[t].step
    BY <1>1, Gone
  <1>3. Dispatched(t)' => Dispatched(t) /\ NothingSent(th[t].o)
    BY <1>2 DEF Dispatched, DispatchedPcs, Sending, Unsent, Succeeding, ClosingUnsent, Status
  <1>4. Authorised(t) /\ th[t] \in ThreadRows
    BY Rows DEF ThreadSound, PlaceSound
  <1>5. RowRead(t)' /\ Authorised(t)'
    BY <1>2, <1>3, <1>4
       DEF RowRead, Authorised, At, Status, ClosingUnsent, Sending, Unsent, BeforeSession
  <1>6. RequestKnown(t)' /\ SendsInTurn(t)' /\ SawTruly(t)'
    BY <1>2, <1>3
       DEF RequestKnown, SendsInTurn, SawTruly, At, Status, ClosingUnsent, Sending, Unsent,
           Succeeding, NothingSent, proxmox
  <1> QED BY <1>3, <1>5, <1>6 DEF PlaceSound

\* A request that gives up before its first call goes to close without an effect: nothing was sent.
LEMMA GivingUpKept ==
  ASSUME IInv, NEW t \in Threads, Goto(t, "no_effect"), UNCHANGED <<ledger, req, proxmox>>,
         Status(t) \in {"approved", "dispatching"},
         Status(t) = "dispatching" => Dispatched(t) /\ NothingSent(th[t].o)
  PROVE  IInv'
  <1>1. "no_effect" \in Pcs \ {"rest", "prepare_operation"} /\ "no_effect" \notin BeforeSession
    BY DEF Pcs, BeforeSession
  <1>2. PlaceSound(t)' /\ (Dispatched(t)' => Dispatched(t))
    BY GivingUp DEF ledger
  <1> QED BY <1>1, <1>2, GotoKept DEF ledger

\* The request row exists from here on.
LEMMA RecordRunningKept ==
  ASSUME IInv, NEW t \in Requests, RecordRunning(t)
  PROVE  IInv'
  <1>1. /\ t \in Threads /\ th[t].pc = "record" /\ th[t].step = "clone" /\ Status(t) = "approved"
        /\ UNCHANGED <<ledger, proxmox>> /\ th[t].o \in Ops /\ Authorised(t)
    BY Rows DEF Threads, RecordRunning, At, ThreadSound, PlaceSound, RowRead, Keep, ThreadRows
  <1>2. CASE req' = [req EXCEPT ![th[t].o] = "running"] /\ Goto(t, "dispatch")
    <2>1. "dispatch" \in Pcs \ {"rest"} /\ "dispatch" \notin BeforeSession
      BY DEF Pcs, BeforeSession
    <2>2. /\ th'[t].pc = "dispatch" /\ th'[t].o = th[t].o /\ th'[t].row = th[t].row
          /\ th'[t].step = "clone"
      BY <1>1, <1>2, <2>1, Gone
    <2>3. Tells("running", th[t].o) /\ "running" \in RequestStatuses
      BY <1>1 DEF Tells, Authorised, RequestStatuses
    <2>4. req'[th[t].o] = "running"
      BY <1>1, <1>2, Rows
    <2>5. PlaceSound(t)' /\ ~Dispatched(t)'
      BY <1>1, <2>2, <2>4
         DEF PlaceSound, RowRead, Authorised, RequestKnown, SendsInTurn, SawTruly, At, Status,
             Dispatched, DispatchedPcs, ClosingUnsent, Sending, Unsent, Succeeding, ledger
    <2> QED BY <1>1, <1>2, <2>1, <2>3, <2>5, TellKept
  <1>3. CASE UNCHANGED req /\ Goto(t, "no_effect")
    BY <1>1, <1>3, GivingUpKept
  <1> QED BY <1>2, <1>3 DEF RecordRunning

\* What the one request knows that dispatched the operation.
LEMMA Dispatcher ==
  ASSUME IInv, NEW t \in Threads, Dispatched(t)
  PROVE  /\ op[th[t].o].status \notin Undecided /\ t \in Threads /\ th[t].o \in Ops
         /\ \A u \in Threads \ {t} : th[u].o = th[t].o => ~Dispatched(u) /\ ~At(u, "send")
  <1>1. /\ th[t].o \in Ops /\ Authorised(t) /\ \A u \in Threads \ {t} : Exclusive(t, u)
    BY Rows DEF ThreadSound, PlaceSound, ThreadRows
  <1>2. \A u \in Threads : At(u, "send") => Dispatched(u)
    BY DEF At, Dispatched, DispatchedPcs, Sending
  <1> QED BY <1>1, <1>2 DEF Authorised, Exclusive

\* Before the clone is marked the request arms its session and reviews the plan afresh.
LEMMA ArmKept ==
  ASSUME IInv, NEW t \in Requests, Arm(t)
  PROVE  IInv'
  <1>1. /\ t \in Threads /\ th[t].pc = "arm" /\ th[t].step = "clone" /\ Status(t) = "dispatching"
        /\ UNCHANGED <<req, proxmox>> /\ th[t].o \in Ops /\ PlaceSound(t)
        /\ rec[th[t].o] \in RecRows
    BY Rows
       DEF Threads, Arm, At, ThreadSound, PlaceSound, RowRead, Keep, ThreadRows, Unsent, Sending
  <1>2. Dispatched(t) /\ NothingSent(th[t].o) /\ rec[th[t].o].phase # "rejected" /\ ~rec[th[t].o].success
    BY <1>1 DEF Dispatched, DispatchedPcs, Sending, Unsent, PlaceSound, SendsInTurn, At
  <1>3. CASE Checkpoint(t, Status(t), rec[th[t].o], FALSE, "validate")
    <2>1. "validate" \in Pcs /\ "validate" \notin BeforeSession /\ "dispatching" \in OperationStatuses
      BY DEF Pcs, BeforeSession, OperationStatuses
    <2>2. Passed(t, Status(t), rec[th[t].o], "validate")
      BY <1>1, <1>3, <2>1, Passing
    <2>3. PlaceSound(t)'
      BY <1>1, <1>2, <2>2
         DEF Passed, PlaceSound, RowRead, Authorised, RequestKnown, SendsInTurn, SawTruly, At, Status,
             ClosingUnsent, Sending, Unsent, Succeeding, NothingSent, proxmox, Undecided
    <2> QED BY <1>1, <1>2, <1>3, <2>1, <2>3, PassKept
  <1>4. CASE Goto(t, "no_effect") /\ UNCHANGED ledger
    BY <1>1, <1>2, <1>4, GivingUpKept
  <1> QED BY <1>3, <1>4 DEF Arm, Commit

\* The fresh read before the clone lets the request dispatch, or sends it to close unsent.
LEMMA ValidateFreshKept ==
  ASSUME IInv, NEW t \in Requests, ValidateFresh(t)
  PROVE  IInv'
  <1>1. /\ t \in Threads /\ th[t].pc = "validate" /\ th[t].step = "clone" /\ Status(t) = "dispatching"
        /\ UNCHANGED <<ledger, req, proxmox>> /\ th[t].o \in Ops /\ PlaceSound(t)
    BY Rows
       DEF Threads, ValidateFresh, At, ThreadSound, PlaceSound, RowRead, Keep, ThreadRows, Unsent, Sending
  <1>2. /\ Dispatched(t) /\ NothingSent(th[t].o) /\ rec[th[t].o].phase # "rejected"
        /\ ~rec[th[t].o].success /\ op[th[t].o].status \notin Undecided
    BY <1>1 DEF Dispatched, DispatchedPcs, Sending, Unsent, PlaceSound, SendsInTurn, Authorised, At
  <1>3. CASE Goto(t, "mark")
    <2>1. "mark" \in Pcs \ {"rest", "prepare_operation"} /\ "mark" \notin BeforeSession
      BY DEF Pcs, BeforeSession
    <2>2. /\ th'[t].pc = "mark" /\ th'[t].o = th[t].o /\ th'[t].row = th[t].row
          /\ th'[t].step = "clone"
      BY <1>1, <1>3, <2>1, Gone
    <2>3. PlaceSound(t)'
      BY <1>1, <1>2, <2>2
         DEF PlaceSound, RowRead, Authorised, RequestKnown, SendsInTurn, SawTruly, At, Status,
             ClosingUnsent, Sending, Unsent, Succeeding, NothingSent, proxmox, ledger, InTurn, Later,
             Steps
    <2> QED BY <1>1, <1>2, <1>3, <2>1, <2>3, GotoKept DEF ledger
  <1>4. CASE Goto(t, "no_effect")
    BY <1>1, <1>2, <1>4, GivingUpKept
  <1> QED BY <1>3, <1>4 DEF ValidateFresh

\* A checkpoint that hands the work over, on the row as it was read.
LEMMA HandOverKept ==
  ASSUME IInv, NEW t \in Threads, NEW status \in {"retry_wait", "paused"},
         Commit(t, Status(t), Ended(t, status), FALSE, "rest", "rest"), UNCHANGED <<req, proxmox>>
  PROVE  IInv'
  <1>1. CASE Checkpoint(t, Status(t), Ended(t, status), FALSE, "rest")
    <2>1. Status(t) \in {Status(t)} \cup Busy
      OBVIOUS
    <2> QED BY <1>1, <2>1, LeaveKept
  <1>2. CASE Goto(t, "rest") /\ UNCHANGED ledger
    BY <1>2, EndKept DEF ledger
  <1> QED BY <1>1, <1>2 DEF Commit

\* The request row says "failed" before an unsent operation is closed, or the write is lost.
LEMMA RecordNoEffectKept ==
  ASSUME IInv, NEW t \in Requests, RecordNoEffect(t)
  PROVE  IInv'
  <1>1. /\ t \in Threads /\ th[t].pc = "no_effect" /\ Status(t) \in {"approved", "dispatching"}
        /\ UNCHANGED proxmox /\ th[t].o \in Ops /\ PlaceSound(t)
    BY Rows
       DEF Threads, RecordNoEffect, At, ThreadSound, PlaceSound, RowRead, Keep, ThreadRows, ClosingUnsent
  <1>2. CASE req' = [req EXCEPT ![th[t].o] = "failed"] /\ Goto(t, "close_unsent") /\ UNCHANGED ledger
    <2>1. "close_unsent" \in Pcs \ {"rest"} /\ "close_unsent" \notin BeforeSession
      BY DEF Pcs, BeforeSession
    <2>2. /\ th'[t].pc = "close_unsent" /\ th'[t].o = th[t].o /\ th'[t].row = th[t].row
      BY <1>1, <1>2, <2>1, Gone
    <2>3. Tells("failed", th[t].o) /\ "failed" \in RequestStatuses
      BY DEF Tells, RequestStatuses
    <2>4. Dispatched(t)' => Dispatched(t)
      BY <1>1, <2>2
         DEF Dispatched, DispatchedPcs, Sending, Unsent, Succeeding, ClosingUnsent, Status
    <2>5. PlaceSound(t)'
      BY <1>1, <1>2, <2>2, <2>4
         DEF PlaceSound, RowRead, Authorised, RequestKnown, SendsInTurn, SawTruly, At, Status,
             ClosingUnsent, Sending, Unsent, Succeeding, ledger, proxmox, NothingSent, BeforeSession
    <2> QED BY <1>1, <1>2, <2>1, <2>3, <2>4, <2>5, TellKept
  <1>3. CASE Commit(t, Status(t), Ended(t, "retry_wait"), FALSE, "rest", "rest") /\ UNCHANGED req
    BY <1>1, <1>3, HandOverKept
  <1> QED BY <1>2, <1>3 DEF RecordNoEffect

\* The operation is dispatched by the holder of its lock, and by nobody else.
LEMMA DispatchPreparedKept ==
  ASSUME IInv, NEW t \in Requests, DispatchPrepared(t)
  PROVE  IInv'
  <1>0. PICK o \in Ops : o = th[t].o
    BY Rows DEF ThreadRows, Threads
  <1> DEFINE v == VmOf[o]
  <1>1. /\ t \in Threads /\ th[t].pc = "dispatch" /\ th[t].step = "clone" /\ Status(t) = "approved"
        /\ UNCHANGED <<rec, lock, req, proxmox>> /\ PlaceSound(t) /\ Remembers(t)
        /\ th[t] \in ThreadRows
    BY Rows DEF Threads, DispatchPrepared, At, ThreadSound, PlaceSound, RowRead, Keep
  <1>2. CASE /\ op[o].status = "approved" /\ Event(o, "dispatching")
             /\ th' = [th EXCEPT ![t] = [Moved(t, "arm") EXCEPT !.row = op'[o]]]
    <2>1. /\ v \in Vms /\ lock[v] \in Requests \cup {Free} /\ op[o] \in OpRows /\ rec[o] \in RecRows
          /\ req[o] \in RequestStatuses /\ OperationSound(o)
      BY Rows
    <2>2. PICK row \in OpRows : /\ row = NextRow(o, "dispatching") /\ row.status = "dispatching"
                                /\ op' = [op EXCEPT ![o] = row]
      <3>1. "dispatching" \in OperationStatuses \cup {"none"}
        BY DEF OperationStatuses
      <3>2. op' = [op EXCEPT ![o] = NextRow(o, "dispatching")]
        BY <1>2, <3>1, Evented
      <3> QED BY <3>1, <3>2, Evented
    <2>3. op'[o] = row
      BY <2>2, Rows
    <2>4. "arm" \in Pcs
      BY DEF Pcs
    <2>5. PICK y \in ThreadRows : /\ [Moved(t, "arm") EXCEPT !.row = row] = y
                                  /\ y.pc = "arm" /\ y.o = th[t].o /\ y.gen = th[t].gen /\ y.row = row
                                  /\ y.step = th[t].step /\ y.lockId = th[t].lockId
      BY <1>1, <2>4, Remade, 0 \in Nat, Free \in Requests \cup {Free}
    <2>6. th' = [th EXCEPT ![t] = y]
      BY <1>2, <2>3, <2>5
    <2>7. th'[t] = y /\ \A u \in Threads \ {t} : th'[u] = th[u]
      BY <1>1, <2>6, Rows
    <2>8. Writes(t, o, row, rec[o], lock[v], req[o], y)
      BY <1>1, <2>2, <2>6, Unwritten DEF Writes
    <2>9. /\ rec'[o] = rec[o] /\ lock'[v] = lock[v] /\ req'[o] = req[o] /\ sent'[o] = sent[o]
          /\ effect'[o] = effect[o] /\ vm'[v] = vm[v]
      BY <1>1 DEF proxmox
    <2>10. rec[o].status # "completed" /\ NothingSent(o) /\ rec[o].phase # "rejected"
      BY <1>2, <2>1 DEF OperationSound, RowsAgree, MutationsInOrder, Undecided, Decided
    <2>11. lock[v] = t /\ req[o] # "none"
      BY <1>0, <1>1, <2>10 DEF PlaceSound, Authorised, RequestKnown, At
    <2>12. ~rec[o].success
      BY <2>1, <2>10
         DEF OperationSound, OutcomeTrue, Whole, NothingSent, MutationsInOrder, Steps
    <2>13. \A u \in Threads \ {t} : th[u].o = o => ~Dispatched(u)
      BY <1>2, Rows DEF ThreadSound, PlaceSound, Authorised, Undecided
    <2>14. Acts(o) /\ LockMoves(t, o) /\ Onward(t)
      BY <1>0, <1>1, <2>1, <2>5, <2>7, <2>9, Rows DEF Acts, proxmox, LockMoves, Onward, BeforeSession
    <2>15. Advance(t, o) /\ Pairs(t, o)
      <3>1. Pairs(t, o)
        BY <1>0, <2>5, <2>7, <2>13 DEF Pairs
      <3>2. /\ op'[o].status = "dispatching" /\ op[o].status = "approved" /\ At(t, "dispatch")
            /\ rec[o].gen <= rec'[o].gen
        BY <1>1, <1>2, <2>1, <2>2, <2>3, <2>9 DEF At, RecRows
      <3>3. Advance(t, o)
        BY <1>0, <2>9, <3>2 DEF Advance, Undecided
      <3> QED BY <3>1, <3>3
    <2>16. OperationSound(o)'
      <3>1. RowsAgree(o)'
        BY <1>2, <2>1, <2>2, <2>3, <2>9, <2>10
           DEF OperationSound, RowsAgree, Undecided, Decided, Busy, StatusesInUse
      <3>2. LockKnown(o)'
        <4>1. rec[o].lockId # Free =>
                th'[rec[o].lockId].o = o /\ th'[rec[o].lockId].pc # "prepare_operation"
          BY <1>0, <2>1, <2>5, <2>7 DEF OperationSound, LockKnown, RecRows, Threads
        <4>2. t # Free
          BY <1>1
        <4> QED BY <1>0, <2>1, <2>5, <2>7, <2>9, <2>11, <4>1, <4>2
             DEF OperationSound, LockKnown, LockedBy, BeforeSession
      <3>3. MutationsInOrder(o)'
        BY <2>1, <2>9
           DEF OperationSound, MutationsInOrder, StepBuilds, NothingSent, NoEffect
      <3>4. OutcomeTrue(o)'
        BY <1>2, <2>1, <2>2, <2>3, <2>9, <2>10, <2>11
           DEF OperationSound, OutcomeTrue, Whole
      <3> QED BY <3>1, <3>2, <3>3, <3>4 DEF OperationSound
    <2>17. ThreadSound(t)'
      <3>1. Remembers(t)'
        BY <1>0, <1>1, <2>1, <2>5, <2>7, <2>9, Remembering DEF RecRows
      <3>2. PlaceSound(t)'
        BY <1>0, <1>1, <2>2, <2>3, <2>5, <2>7, <2>9, <2>10, <2>12
           DEF PlaceSound, RowRead, Authorised, RequestKnown, SendsInTurn, SawTruly, At, Status,
               ClosingUnsent, Sending, Unsent, Succeeding, NothingSent, Undecided
      <3> QED BY <3>1, <3>2 DEF ThreadSound
    <2> QED BY <1>1, <2>1, <2>8, <2>14, <2>15, <2>16, <2>17, TurnKept
  <1>3. CASE UNCHANGED op /\ Goto(t, "no_effect")
    BY <1>1, <1>3, GivingUpKept DEF ledger
  <1> QED BY <1>0, <1>2, <1>3 DEF DispatchPrepared

-----------------------------------------------------------------------------
(* The mutations. *)

\* What the recovery row says of the mutations may change with a checkpoint of the dispatcher.
Restates(item, o) ==
  /\ item.status = rec[o].status /\ item.gen = rec[o].gen /\ item.lockId = rec[o].lockId
  /\ item.phase \in {"rejected", "sent"} /\ (rec[o].success => item.success)
  /\ item.phase = "rejected" => NoEffect(o)
  /\ item.success => Whole(o)

\* A checkpoint that restates what is known of a dispatched operation keeps the invariant.
LEMMA RestateKept ==
  ASSUME IInv, NEW t \in Threads, NEW item \in RecRows, NEW next \in Pcs, next \notin BeforeSession,
         Checkpoint(t, Status(t), item, FALSE, next), UNCHANGED <<req, proxmox>>,
         Dispatched(t), Status(t) = "dispatching", rec[th[t].o].phase # "rejected",
         Restates(item, th[t].o), PlaceSound(t)'
  PROVE  IInv'
  <1>0. PICK o \in Ops : o = th[t].o
    BY Rows DEF ThreadRows
  <1> DEFINE v == VmOf[o]
  <1>1. /\ v \in Vms /\ lock[v] \in Requests \cup {Free} /\ op[o] \in OpRows /\ rec[o] \in RecRows
        /\ req[o] \in RequestStatuses /\ OperationSound(o) /\ th[t] \in ThreadRows
        /\ "dispatching" \in OperationStatuses
    BY Rows DEF OperationStatuses
  <1>2. /\ LeaseOwned(t) /\ op[o] = th[t].row /\ op' = [op EXCEPT ![o] = NextRow(o, Status(t))]
        /\ rec' = [rec EXCEPT ![o] = item] /\ rec'[o] = item
        /\ lock' = [lock EXCEPT ![v] = lock[v]] /\ op'[o] = NextRow(o, Status(t))
    <2>1. Status(t) \in OperationStatuses \cup {"none"}
      BY <1>1
    <2>2. /\ LeaseOwned(t) /\ op[th[t].o] = th[t].row
          /\ op' = [op EXCEPT ![th[t].o] = NextRow(th[t].o, Status(t))]
          /\ rec' = [rec EXCEPT ![th[t].o] = item] /\ rec'[th[t].o] = item
          /\ lock' = [lock EXCEPT ![VmOf[th[t].o]] = lock[VmOf[th[t].o]]]
          /\ op'[th[t].o] = NextRow(th[t].o, Status(t))
      BY <2>1, Committed
    <2> QED BY <1>0, <2>2
  <1>3. PICK row \in OpRows : row = NextRow(o, Status(t)) /\ row.status = "dispatching"
    BY <1>1, Evented
  <1>4. op'[o] = row /\ op[o].status = "dispatching"
    BY <1>2, <1>3 DEF Status
  <1>5. Reaches(t, next, NextRow(o, Status(t)))
    BY <1>0, <1>1, Arrived
  <1>6. PICK y \in ThreadRows : y = th'[t]
    BY <1>5 DEF Reaches
  <1>7. /\ y.pc = next /\ y.o = o /\ y.gen = th[t].gen /\ y.lockId = th[t].lockId
    BY <1>0, <1>5, <1>6 DEF Reaches
  <1>8. th' = [th EXCEPT ![t] = y]
    BY <1>5, <1>6 DEF Reaches
  <1>9. \A u \in Threads \ {t} : th'[u] = th[u]
    BY <1>8, Rows
  <1>10. Writes(t, o, row, item, lock[v], req[o], y)
    BY <1>2, <1>3, <1>8, Unwritten DEF Writes
  <1>11. /\ lock'[v] = lock[v] /\ req'[o] = req[o] /\ sent'[o] = sent[o]
         /\ effect'[o] = effect[o] /\ vm'[v] = vm[v]
    BY <1>1, <1>2, Rows DEF proxmox
  <1>12. Onward(t) /\ Pairs(t, o)
    <2>1. y.pc # "prepare_operation"
      BY <1>7 DEF BeforeSession
    <2> QED BY <1>0, <1>6, <1>7, <2>1, GoesOn
  <1>13. Acts(o) /\ LockMoves(t, o)
    BY <1>11, Rows DEF Acts, proxmox, LockMoves
  <1>14. Advance(t, o)
    BY <1>0, <1>1, <1>2, <1>3, <1>4, <1>11 DEF Advance, Restates, Undecided, RecRows
  <1>15. OperationSound(o)'
    <2>0. rec[o].status = "leased"
      BY <1>0, <1>2 DEF LeaseOwned
    <2>1. RowsAgree(o)'
      BY <1>0, <1>1, <1>2, <1>3, <1>4, <2>0
         DEF OperationSound, RowsAgree, Restates, Undecided, Decided, Busy, StatusesInUse
    <2>2. LockKnown(o)'
      <3>1. \A r \in Requests : th[r].pc # "prepare_operation" =>
              /\ th'[r].o = th[r].o /\ th'[r].pc # "prepare_operation"
              /\ th'[r].pc \in BeforeSession => th[r].pc \in BeforeSession
        BY <1>9, <1>12 DEF Onward, Threads
      <3>2. item.lockId # Free => /\ item.phase # "none" /\ th'[item.lockId].o = o
                                  /\ th'[item.lockId].pc # "prepare_operation"
        BY <1>0, <1>1, <3>1 DEF Restates, OperationSound, LockKnown, RecRows
      <3>3. /\ lock[v] \in Requests /\ th[lock[v]].o = o /\ th[lock[v]].pc \notin BeforeSession
        BY <1>1, <1>4 DEF OperationSound, LockKnown, LockedBy, Busy
      <3>4. Free \notin Requests
        BY DEF Threads
      <3> QED BY <1>2, <1>11, <3>1, <3>2, <3>3, <3>4 DEF LockKnown, LockedBy, BeforeSession
    <2>3. MutationsInOrder(o)'
      BY <1>0, <1>1, <1>2, <1>11
         DEF OperationSound, MutationsInOrder, Restates, StepBuilds, NothingSent, NoEffect
    <2>4. OutcomeTrue(o)'
      BY <1>0, <1>1, <1>2, <1>3, <1>4, <1>11, <2>0
         DEF OperationSound, OutcomeTrue, Restates, Whole, Busy
    <2> QED BY <2>1, <2>2, <2>3, <2>4 DEF OperationSound
  <1>16. ThreadSound(t)'
    <2>1. rec[o].gen <= item.gen /\ y.pc # "prepare_operation"
      BY <1>0, <1>1, <1>7 DEF Restates, RecRows, BeforeSession
    <2>2. Remembers(t)'
      BY <1>0, <1>2, <1>6, <1>7, <1>9, <2>1, Remembering
    <2> QED BY <2>2 DEF ThreadSound
  <1> QED BY <1>1, <1>10, <1>12, <1>13, <1>14, <1>15, <1>16, TurnKept

\* A place of the dispatcher where it only knows what it has dispatched.
LEMMA InterruptedPlace ==
  ASSUME IInv, NEW t \in Threads, Dispatched(t), th'[t].o = th[t].o, op'[th[t].o].status \notin Undecided,
         rec'[th[t].o].success = rec[th[t].o].success,
         \/ At(t, "interrupted")' /\ Status(t)' \in {"dispatching", "running", "verifying"}
         \/ At(t, "unconfirmed")' /\ Status(t)' = "dispatching" /\ ~rec[th[t].o].success
         \/ At(t, "tell_unconfirmed")' /\ ~rec[th[t].o].success
  PROVE  PlaceSound(t)' /\ (Dispatched(t)' => Dispatched(t))
  BY DEF PlaceSound, RowRead, Authorised, RequestKnown, SendsInTurn, SawTruly, At, Status,
         ClosingUnsent, Sending, Unsent, Succeeding, BeforeSession

\* A dispatcher that lost its fence, or does not know what happened, goes to its pause.
LEMMA InterruptKept ==
  ASSUME IInv, NEW t \in Threads, Dispatched(t), UNCHANGED <<ledger, req, proxmox>>,
         NEW pc \in {"interrupted", "unconfirmed"}, Goto(t, pc),
         Status(t) \in {"dispatching", "running", "verifying"},
         pc = "unconfirmed" => Status(t) = "dispatching" /\ ~rec[th[t].o].success
  PROVE  IInv'
  <1>1. pc \in Pcs \ {"rest", "prepare_operation"} /\ pc \notin BeforeSession
    BY DEF Pcs, BeforeSession
  <1>2. th'[t].pc = pc /\ th'[t].o = th[t].o /\ th'[t].row = th[t].row
    BY <1>1, Gone
  <1>3. op[th[t].o].status \notin Undecided
    BY Dispatcher
  <1>4. PlaceSound(t)' /\ (Dispatched(t)' => Dispatched(t))
    BY <1>2, <1>3, InterruptedPlace DEF ledger, At, Status
  <1> QED BY <1>1, <1>4, GotoKept DEF ledger

\* The mark of a mutation: from here on it may have been sent.
LEMMA MarkKept ==
  ASSUME IInv, NEW t \in Requests, Mark(t)
  PROVE  IInv'
  <1>0. PICK o \in Ops : o = th[t].o
    BY Rows DEF ThreadRows, Threads
  <1>1. /\ t \in Threads /\ th[t].pc = "mark" /\ Status(t) = "dispatching"
        /\ UNCHANGED <<req, proxmox>> /\ PlaceSound(t) /\ rec[o] \in RecRows /\ th[t].step \in Steps
        /\ OperationSound(o)
    BY Rows DEF Threads, Mark, At, ThreadSound, PlaceSound, RowRead, Keep, ThreadRows, Sending
  <1>2. /\ Dispatched(t) /\ InTurn(o, th[t].step) /\ sent[o][th[t].step] = 0
        /\ rec[o].phase # "rejected" /\ ~rec[o].success /\ op[o].status \notin Undecided
    BY <1>0, <1>1 DEF Dispatched, DispatchedPcs, Sending, PlaceSound, SendsInTurn, Authorised, At
  <1>3. CASE Checkpoint(t, Status(t), [rec[o] EXCEPT !.phase = "sent"], FALSE, "send")
    <2>1. "send" \in Pcs /\ "send" \notin BeforeSession /\ "dispatching" \in OperationStatuses \cup {"none"}
      BY DEF Pcs, BeforeSession, OperationStatuses
    <2>2. PICK item \in RecRows : item = [rec[o] EXCEPT !.phase = "sent"]
      BY <1>1 DEF RecRows
    <2>3. /\ item.phase = "sent" /\ item.status = rec[o].status /\ item.gen = rec[o].gen
          /\ item.lockId = rec[o].lockId /\ item.success = rec[o].success
      BY <1>1, <2>2 DEF RecRows
    <2>4. Checkpoint(t, Status(t), item, FALSE, "send")
      BY <1>3, <2>2
    <2>5. Passed(t, Status(t), item, "send")
      BY <1>1, <2>1, <2>4, Passing
    <2>6. Restates(item, th[t].o)
      BY <1>0, <1>1, <1>2, <2>3 DEF Restates
    <2>7. rec[o].status = "leased"
      BY <1>0, <2>5 DEF Passed, LeaseOwned
    <2>8. PlaceSound(t)'
      BY <1>0, <1>1, <1>2, <2>3, <2>5, <2>7
         DEF Passed, PlaceSound, RowRead, Authorised, RequestKnown, SendsInTurn, SawTruly, At, Status,
             ClosingUnsent, Sending, Unsent, Succeeding, InTurn, proxmox, BeforeSession
    <2> QED BY <1>0, <1>1, <1>2, <2>1, <2>4, <2>6, <2>8, RestateKept
  <1>4. CASE Goto(t, "no_effect") /\ th[t].step = "clone" /\ UNCHANGED ledger
    <2>1. NothingSent(th[t].o)
      BY <1>0, <1>2, <1>4 DEF NothingSent, InTurn, Later, Steps
    <2> QED BY <1>1, <1>2, <1>4, <2>1, GivingUpKept
  <1>5. CASE Goto(t, "interrupted") /\ UNCHANGED ledger
    BY <1>1, <1>2, <1>5, InterruptKept
  <1> QED BY <1>0, <1>3, <1>4, <1>5 DEF Mark, Commit

\* A refusal of the clone is recorded: it had no effect.
LEMMA RecordCloneRejectedKept ==
  ASSUME IInv, NEW t \in Requests, RecordCloneRejected(t)
  PROVE  IInv'
  <1>0. PICK o \in Ops : o = th[t].o
    BY Rows DEF ThreadRows, Threads
  <1>1. /\ t \in Threads /\ th[t].pc = "clone_rejected" /\ Status(t) = "dispatching"
        /\ UNCHANGED <<req, proxmox>> /\ PlaceSound(t) /\ rec[o] \in RecRows
        /\ OperationSound(o)
    BY Rows DEF Threads, RecordCloneRejected, At, ThreadSound, PlaceSound, RowRead, Keep, Sending
  <1>2. /\ Dispatched(t) /\ NoEffect(o)
        /\ rec[o].phase # "rejected" /\ ~rec[o].success /\ op[o].status \notin Undecided
    BY <1>0, <1>1 DEF Dispatched, DispatchedPcs, Sending, PlaceSound, SendsInTurn, Authorised, At
  <1>3. CASE Checkpoint(t, Status(t), [rec[o] EXCEPT !.phase = "rejected"], FALSE, "tell_rejected")
    <2>1. "tell_rejected" \in Pcs /\ "tell_rejected" \notin BeforeSession
          /\ "dispatching" \in OperationStatuses \cup {"none"}
      BY DEF Pcs, BeforeSession, OperationStatuses
    <2>2. PICK item \in RecRows : item = [rec[o] EXCEPT !.phase = "rejected"]
      BY <1>1 DEF RecRows
    <2>3. /\ item.phase = "rejected" /\ item.status = rec[o].status /\ item.gen = rec[o].gen
          /\ item.lockId = rec[o].lockId /\ item.success = rec[o].success
      BY <1>1, <2>2 DEF RecRows
    <2>4. Checkpoint(t, Status(t), item, FALSE, "tell_rejected")
      BY <1>3, <2>2
    <2>5. Passed(t, Status(t), item, "tell_rejected")
      BY <1>1, <2>1, <2>4, Passing
    <2>6. Restates(item, th[t].o)
      BY <1>0, <1>1, <1>2, <2>3 DEF Restates
    <2>8. PlaceSound(t)'
      BY <1>0, <1>1, <1>2, <2>3, <2>5
         DEF Passed, PlaceSound, RowRead, Authorised, RequestKnown, SendsInTurn, SawTruly, At, Status,
             ClosingUnsent, Sending, Unsent, Succeeding, proxmox, BeforeSession
    <2> QED BY <1>0, <1>1, <1>2, <2>1, <2>4, <2>6, <2>8, RestateKept
  <1>5. CASE Goto(t, "interrupted") /\ UNCHANGED ledger
    BY <1>1, <1>2, <1>5, InterruptKept
  <1> QED BY <1>0, <1>3, <1>5 DEF RecordCloneRejected, Commit

\* The post-check: the VM is there after every mutation sent was carried out.
LEMMA PostCheckKept ==
  ASSUME IInv, NEW t \in Requests, PostCheck(t)
  PROVE  IInv'
  <1>0. PICK o \in Ops : o = th[t].o
    BY Rows DEF ThreadRows, Threads
  <1>1. /\ t \in Threads /\ th[t].pc = "post_check" /\ Status(t) = "dispatching"
        /\ UNCHANGED <<req, proxmox>> /\ PlaceSound(t) /\ rec[o] \in RecRows
        /\ OperationSound(o)
    BY Rows DEF Threads, PostCheck, At, ThreadSound, PlaceSound, RowRead, Keep, Sending
  <1>2. /\ Dispatched(t) /\ Whole(o) /\ ~rec[o].success /\ op[o].status \notin Undecided
    BY <1>0, <1>1 DEF Dispatched, DispatchedPcs, PlaceSound, SendsInTurn, Authorised, At
  <1>3. rec[o].phase = "sent"
    <2>1. effect[o]["clone"] = "ok" /\ sent[o]["clone"] # 0
      BY <1>1, <1>2 DEF Whole, Steps, OperationSound, MutationsInOrder
    <2> QED BY <1>1, <2>1 DEF OperationSound, MutationsInOrder, NothingSent, NoEffect, Steps, RecRows
  <1>4. CASE Checkpoint(t, Status(t), [rec[o] EXCEPT !.success = TRUE], FALSE, "record_running")
    <2>1. "record_running" \in Pcs /\ "record_running" \notin BeforeSession
          /\ "dispatching" \in OperationStatuses \cup {"none"}
      BY DEF Pcs, BeforeSession, OperationStatuses
    <2>2. PICK item \in RecRows : item = [rec[o] EXCEPT !.success = TRUE]
      BY <1>1 DEF RecRows
    <2>3. /\ item.phase = rec[o].phase /\ item.status = rec[o].status /\ item.gen = rec[o].gen
          /\ item.lockId = rec[o].lockId /\ item.success
      BY <1>1, <2>2 DEF RecRows
    <2>4. Checkpoint(t, Status(t), item, FALSE, "record_running")
      BY <1>4, <2>2
    <2>5. Passed(t, Status(t), item, "record_running")
      BY <1>1, <2>1, <2>4, Passing
    <2>6. Restates(item, th[t].o)
      BY <1>0, <1>1, <1>2, <1>3, <2>3 DEF Restates
    <2>8. PlaceSound(t)'
      BY <1>0, <1>1, <1>2, <2>3, <2>5
         DEF Passed, PlaceSound, RowRead, Authorised, RequestKnown, SendsInTurn, SawTruly, At, Status,
             ClosingUnsent, Sending, Unsent, Succeeding, proxmox, BeforeSession
    <2> QED BY <1>0, <1>1, <1>2, <1>3, <2>1, <2>4, <2>6, <2>8, RestateKept
  <1>5. CASE Goto(t, "interrupted") /\ UNCHANGED ledger
    BY <1>1, <1>2, <1>5, InterruptKept
  <1>6. CASE Goto(t, "unconfirmed") /\ UNCHANGED ledger
    BY <1>0, <1>1, <1>2, <1>6, InterruptKept
  <1> QED BY <1>0, <1>4, <1>5, <1>6 DEF PostCheck, Commit

\* Of the effects, that of mutation s of operation o is now e.
Affected(o, s, e) ==
  /\ effect' \in [Ops -> [Steps -> Effects]] /\ effect'[o][s] = e
  /\ \A p \in Ops \ {o} : effect'[p] = effect[p]
  /\ \A n \in Steps \ {s} : effect'[o][n] = effect[o][n]

\* An answer to a synchronous mutation means that it was carried out, a refusal that it was not.
Tidings(t, e, pc) ==
  /\ pc = "answered" => (th[t].step \notin TaskSteps => e = "ok")
  /\ pc = "clone_rejected" => th[t].step = "clone" /\ e = "none"

\* A mutation is sent for the first time; what becomes of it is of no other.
LEMMA SendKept ==
  ASSUME IInv, NEW t \in Requests, At(t, "send"), Sends(t), NEW e \in Effects,
         NEW pc \in {"answered", "unconfirmed", "clone_rejected"}, Goto(t, pc),
         Affected(th[t].o, th[t].step, e),
         \/ vm' = vm
         \/ th[t].step = "clone" /\ e = "running" /\ vm' = [vm EXCEPT ![VmOf[th[t].o]] = th[t].o],
         Tidings(t, e, pc)
  PROVE  IInv'
  <1>0. PICK o \in Ops : o = th[t].o
    BY Rows DEF ThreadRows, Threads
  <1>00. PICK s \in Steps : s = th[t].step
    BY Rows DEF ThreadRows, Threads
  <1> DEFINE v == VmOf[o]
  <1>1. /\ t \in Threads /\ th[t].pc = "send" /\ Status(t) = "dispatching"
        /\ PlaceSound(t) /\ rec[o] \in RecRows /\ op[o] \in OpRows /\ req[o] \in RequestStatuses
        /\ v \in Vms /\ lock[v] \in Requests \cup {Free} /\ vm[v] \in Ops \cup {Free}
        /\ OperationSound(o) /\ sent[o] \in [Steps -> Nat] /\ effect[o] \in [Steps -> Effects]
        /\ UNCHANGED <<ledger, req>>
    BY Rows DEF Threads, At, ThreadSound, PlaceSound, RowRead, Sending, Sends
  <1>2. /\ Dispatched(t) /\ InTurn(o, s) /\ sent[o][s] = 0 /\ rec[o].phase = "sent" /\ ~rec[o].success
        /\ op[o].status \notin Undecided
        /\ ~(rec[o].status = "completed" /\ op[o].status \in {"blocked", "failed"})
    BY <1>0, <1>00, <1>1 DEF Dispatched, DispatchedPcs, Sending, PlaceSound, SendsInTurn, Authorised, At
  <1>3. effect[o][s] = "none" /\ (s = "clone" => vm[v] # o)
    BY <1>1, <1>2 DEF OperationSound, MutationsInOrder
  <1>4. /\ sent' \in [Ops -> [Steps -> Nat]] /\ sent'[o][s] = 1
        /\ \A p \in Ops \ {o} : sent'[p] = sent[p]
        /\ \A n \in Steps \ {s} : sent'[o][n] = sent[o][n]
    <2>1. sent' = [sent EXCEPT ![o] = [sent[o] EXCEPT ![s] = sent[o][s] + 1]]
      BY <1>0, <1>00 DEF Sends
    <2>2. sent[o][s] + 1 = 1
      BY <1>2
    <2>3. sent' = [sent EXCEPT ![o] = [sent[o] EXCEPT ![s] = 1]]
      BY <2>1, <2>2
    <2>4. [sent[o] EXCEPT ![s] = 1] \in [Steps -> Nat]
      BY <1>1
    <2> QED BY <1>1, <2>3, <2>4, Rows
  <1>5. /\ effect' \in [Ops -> [Steps -> Effects]] /\ effect'[o][s] = e
        /\ \A p \in Ops \ {o} : effect'[p] = effect[p]
        /\ \A n \in Steps \ {s} : effect'[o][n] = effect[o][n]
    BY <1>0, <1>00 DEF Affected
  <1>6. /\ vm' \in [Vms -> Ops \cup {Free}] /\ \A w \in Vms \ {v} : vm'[w] = vm[w]
        /\ vm'[v] = vm[v] \/ (s = "clone" /\ e = "running" /\ vm'[v] = o)
    BY <1>0, <1>00, <1>1, Rows
  <1>7. PICK y \in ThreadRows : y = Moved(t, pc)
    BY <1>1, MovedRow DEF Pcs
  <1>8. /\ y.pc = pc /\ y.o = o /\ y.gen = th[t].gen /\ y.lockId = th[t].lockId
        /\ y.row = th[t].row /\ y.step = s
    BY <1>0, <1>00, <1>1, <1>7, MovedRow DEF Pcs
  <1>9. th' = [th EXCEPT ![t] = y] /\ th'[t] = y /\ \A u \in Threads \ {t} : th'[u] = th[u]
    <2>1. th' = [th EXCEPT ![t] = y]
      BY <1>7 DEF Goto
    <2> QED BY <1>1, <2>1, Rows
  <1>10. Writes(t, o, op[o], rec[o], lock[v], req[o], y)
    BY <1>1, <1>9, Unwritten DEF Writes, ledger
  <1>11. op'[o] = op[o] /\ rec'[o] = rec[o] /\ lock'[v] = lock[v] /\ req'[o] = req[o]
    BY <1>1 DEF ledger
  <1>12. Acts(o) /\ LockMoves(t, o)
    BY <1>1, <1>4, <1>5, <1>6, <1>11 DEF Acts, LockMoves
  <1>13. Onward(t) /\ Pairs(t, o)
    <2>1. y.pc # "prepare_operation" /\ y.pc \notin BeforeSession
      BY <1>8 DEF BeforeSession
    <2> QED BY <1>0, <1>1, <1>2, <1>8, <1>9, <2>1, GoesOn
  <1>14. Advance(t, o)
    <2>1. rec[o].gen \in Nat
      BY <1>1 DEF RecRows
    <2> QED BY <1>0, <1>00, <1>1, <1>2, <1>4, <1>5, <1>6, <1>11, <2>1 DEF Advance, At
  <1>15. OperationSound(o)'
    <2>1. RowsAgree(o)'
      BY <1>1, <1>11 DEF OperationSound, RowsAgree
    <2>2. LockKnown(o)'
      <3>1. \A r \in Requests : th[r].pc # "prepare_operation" =>
              /\ th'[r].o = th[r].o /\ th'[r].pc # "prepare_operation"
              /\ th'[r].pc \in BeforeSession => th[r].pc \in BeforeSession
        BY <1>9, <1>13 DEF Onward, Threads
      <3>2. rec[o].lockId # Free => /\ rec[o].phase # "none" /\ th'[rec[o].lockId].o = o
                                    /\ th'[rec[o].lockId].pc # "prepare_operation"
        BY <1>1, <3>1 DEF OperationSound, LockKnown, RecRows
      <3>3. op[o].status \in Busy =>
              lock[v] \in Requests /\ th[lock[v]].o = o /\ th[lock[v]].pc \notin BeforeSession
        BY <1>1 DEF OperationSound, LockKnown, LockedBy
      <3>4. Free \notin Requests
        BY DEF Threads
      <3> QED BY <1>11, <3>1, <3>2, <3>3, <3>4 DEF LockKnown, LockedBy, BeforeSession
    <2>3. MutationsInOrder(o)'
      <3>1. \A n \in Steps : sent'[o][n] <= 1 /\ (sent'[o][n] = 0 => effect'[o][n] = "none")
        BY <1>1, <1>4, <1>5 DEF OperationSound, MutationsInOrder
      <3>2. \A n \in Steps : effect[o][n] = "ok" => effect'[o][n] = "ok"
        BY <1>3, <1>5
      <3>3. StepBuilds(o)'
        BY <1>1, <1>2, <1>4, <3>2
           DEF OperationSound, MutationsInOrder, StepBuilds, InTurn, Steps, Later
      <3>4. vm'[v] = o => effect'[o]["clone"] \in {"running", "ok", "failed"}
        BY <1>1, <1>3, <1>5, <1>6 DEF OperationSound, MutationsInOrder, Steps
      <3> QED BY <1>2, <1>11, <3>1, <3>3, <3>4 DEF MutationsInOrder
    <2>4. OutcomeTrue(o)'
      BY <1>1, <1>2, <1>11 DEF OperationSound, OutcomeTrue
    <2> QED BY <2>1, <2>2, <2>3, <2>4 DEF OperationSound
  <1>16. ThreadSound(t)'
    <2>1. rec[o].gen <= rec[o].gen /\ y.pc # "prepare_operation"
      BY <1>1, <1>8 DEF RecRows
    <2>2. Remembers(t)'
      BY <1>0, <1>1, <1>8, <1>9, <1>11, <2>1, Remembering
    <2>3. \A n \in Steps : effect[o][n] = "ok" => effect'[o][n] = "ok"
      BY <1>3, <1>5
    <2>4. InTurn(o, s)'
      BY <1>2, <1>4, <2>3 DEF InTurn, Later, Steps
    <2>5. pc = "clone_rejected" => NoEffect(o)'
      <3>1. SUFFICES ASSUME pc = "clone_rejected"
                     PROVE  \A n \in Steps : effect'[o][n] = "none"
        BY DEF NoEffect
      <3>2. s = "clone" /\ e = "none"
        BY <1>00, <3>1 DEF Tidings
      <3>3. \A n \in Steps \ {s} : sent[o][n] = 0
        BY <1>2, <3>2 DEF InTurn, Later, Steps
      <3> QED BY <1>1, <1>5, <3>2, <3>3 DEF OperationSound, MutationsInOrder
    <2>6. pc = "answered" => (s \notin TaskSteps => effect'[o][s] = "ok")
      BY <1>00, <1>5 DEF Tidings
    <2>7. PlaceSound(t)'
      BY <1>1, <1>2, <1>8, <1>9, <1>11, <2>4, <2>5, <2>6
         DEF PlaceSound, RowRead, Authorised, RequestKnown, SendsInTurn, SawTruly, At, Status,
             ClosingUnsent, Sending, Unsent, Succeeding, BeforeSession
    <2> QED BY <2>2, <2>7 DEF ThreadSound
  <1> QED BY <1>1, <1>10, <1>12, <1>13, <1>14, <1>15, <1>16, TurnKept

\* What is written of the effect of one mutation.
LEMMA EffectWritten ==
  ASSUME IInv, NEW o \in Ops, NEW s \in Steps, NEW e \in Effects,
         effect' = [effect EXCEPT ![o][s] = e]
  PROVE  Affected(o, s, e)
  <1>1. effect' = [effect EXCEPT ![o] = [effect[o] EXCEPT ![s] = e]]
    OBVIOUS
  <1>2. effect[o] \in [Steps -> Effects] /\ effect \in [Ops -> [Steps -> Effects]]
    BY Rows
  <1>3. [effect[o] EXCEPT ![s] = e] \in [Steps -> Effects]
    BY <1>2
  <1> QED BY <1>1, <1>2, <1>3 DEF Affected

\* An answer with the task reference, or the answer of a synchronous mutation.
LEMMA SendAnsweredKept ==
  ASSUME IInv, NEW t \in Requests, SendAnswered(t)
  PROVE  IInv'
  <1> DEFINE e == Landed(th[t].step)
  <1>1. At(t, "send") /\ Sends(t) /\ Goto(t, "answered") /\ th[t].o \in Ops /\ th[t].step \in Steps
    BY Rows DEF SendAnswered, Sends, ThreadRows, Threads
  <1>2. PICK f \in Effects : f = e
    BY DEF Landed, Effects
  <1>3. effect' = [effect EXCEPT ![th[t].o][th[t].step] = f]
    BY <1>2 DEF SendAnswered
  <1>4. Affected(th[t].o, th[t].step, f)
    BY <1>1, <1>3, EffectWritten
  <1>5. \/ vm' = vm
        \/ th[t].step = "clone" /\ f = "running" /\ vm' = [vm EXCEPT ![VmOf[th[t].o]] = th[t].o]
    BY <1>2 DEF SendAnswered, VmAfter
  <1>6. Tidings(t, f, "answered")
    BY <1>2 DEF Landed, Tidings
  <1> QED BY <1>1, <1>4, <1>5, <1>6, SendKept

\* Without an answer the mutation may have any fate, or none.
LEMMA SendLostKept ==
  ASSUME IInv, NEW t \in Requests, SendLost(t)
  PROVE  IInv'
  <1> DEFINE o == th[t].o
  <1> DEFINE s == th[t].step
  <1>1. At(t, "send") /\ Sends(t) /\ Goto(t, "unconfirmed") /\ o \in Ops /\ s \in Steps
    BY Rows DEF SendLost, LostAnswer, Sends, ThreadRows, Threads
  <1>2. PICK f \in {"none"} \cup (IF Possible(o, s) THEN {"inflight", Landed(s)} ELSE {}) :
          effect' = [effect EXCEPT ![o][s] = f] /\ vm' = VmAfter(o, s, f)
    BY DEF SendLost
  <1>3. f \in Effects
    BY <1>2 DEF Landed, Effects
  <1>4. Affected(th[t].o, th[t].step, f)
    BY <1>1, <1>2, <1>3, EffectWritten
  <1>5. \/ vm' = vm
        \/ s = "clone" /\ f = "running" /\ vm' = [vm EXCEPT ![VmOf[o]] = o]
    BY <1>2 DEF VmAfter
  <1>6. Tidings(t, f, "unconfirmed")
    BY DEF Tidings
  <1> QED BY <1>1, <1>3, <1>4, <1>5, <1>6, SendKept

\* A refused clone has no effect.
LEMMA SendRejectedKept ==
  ASSUME IInv, NEW t \in Requests, SendRejected(t)
  PROVE  IInv'
  <1> DEFINE o == th[t].o
  <1>1. /\ At(t, "send") /\ Sends(t) /\ Goto(t, "clone_rejected") /\ o \in Ops
        /\ th[t].step = "clone" /\ UNCHANGED <<effect, vm>> /\ "clone" \in Steps
        /\ effect \in [Ops -> [Steps -> Effects]] /\ "none" \in Effects
    BY Rows DEF SendRejected, Sends, ThreadRows, Threads, Steps, Effects
  <1>2. sent[o]["clone"] = 0
    BY <1>1, Rows DEF ThreadSound, PlaceSound, SendsInTurn, At, Threads
  <1>3. effect[o]["clone"] = "none"
    BY <1>1, <1>2, Rows DEF OperationSound, MutationsInOrder
  <1>4. PICK f \in Effects : f = "none"
    BY <1>1
  <1>5. Affected(th[t].o, th[t].step, f)
    BY <1>1, <1>3, <1>4 DEF Affected
  <1>6. vm' = vm /\ Tidings(t, f, "clone_rejected")
    BY <1>1, <1>4 DEF Tidings
  <1> QED BY <1>1, <1>4, <1>5, <1>6, SendKept

\* After a mutation that ended well comes a mutation that is due, or the end.
LEMMA NextStep ==
  ASSUME IInv, NEW o \in Ops, NEW s \in Steps, InTurn(o, s), effect[o][s] = "ok",
         NEW n \in AfterStep(o, s)
  PROVE  /\ n \in Steps \cup {"post_check", "unconfirmed"}
         /\ n \in Steps => InTurn(o, n) /\ sent[o][n] = 0
         /\ n = "post_check" => Whole(o)
  <1>1. \A m \in Steps : sent[o][m] \in Nat
    BY Rows
  <1>2. \A m \in Later(s) : sent[o][m] = 0
    BY DEF InTurn
  <1>3. CASE s = "clone"
    BY <1>1, <1>2, <1>3 DEF AfterStep, Steps, InTurn, Later
  <1>4. CASE s = "resize"
    BY <1>1, <1>2, <1>4 DEF AfterStep, Steps, InTurn, Later
  <1>5. CASE s = "config"
    BY <1>1, <1>2, <1>5 DEF AfterStep, Steps, InTurn, Later, Whole
  <1>6. CASE s = "start"
    BY <1>1, <1>2, <1>6 DEF AfterStep, Steps, InTurn, Later, Whole
  <1> QED BY <1>3, <1>4, <1>5, <1>6 DEF Steps

\* The dispatcher goes on with what is due after a mutation that ended well.
Proceeds(t, n) ==
  /\ MayCommit(t, Status(t), FALSE) /\ Event(th[t].o, Status(t))
  /\ th' = [th EXCEPT ![t] = [Continue(t, n) EXCEPT !.row = op'[th[t].o]]]
  /\ UNCHANGED <<rec, lock>>

\* A request goes on to the next step only after the effect of the last one is known.
LEMMA ProceedsKept ==
  ASSUME IInv, NEW t \in Requests, th[t].pc \in {"answered", "wait"},
         effect[th[t].o][th[t].step] = "ok", NEW n \in AfterStep(th[t].o, th[t].step),
         Proceeds(t, n), UNCHANGED <<req, proxmox>>
  PROVE  IInv'
  <1>0. PICK o \in Ops : o = th[t].o
    BY Rows DEF ThreadRows, Threads
  <1>00. PICK s \in Steps : s = th[t].step
    BY Rows DEF ThreadRows, Threads
  <1>1. /\ t \in Threads /\ Status(t) = "dispatching" /\ PlaceSound(t) /\ th[t] \in ThreadRows
        /\ UNCHANGED <<rec, lock>> /\ Event(o, "dispatching") /\ op[o].status = "dispatching"
    BY <1>0, Rows
       DEF Threads, ThreadSound, PlaceSound, RowRead, Proceeds, MayCommit, Sending, Status
  <1>2. /\ Dispatched(t) /\ InTurn(o, s) /\ rec[o].phase # "rejected" /\ ~rec[o].success
    BY <1>0, <1>00, <1>1 DEF Dispatched, DispatchedPcs, Sending, PlaceSound, SendsInTurn, At
  <1>3. /\ n \in Steps \cup {"post_check", "unconfirmed"}
        /\ n \in Steps => InTurn(o, n) /\ sent[o][n] = 0
        /\ n = "post_check" => Whole(o)
    BY <1>0, <1>00, <1>2, NextStep
  <1>4. PICK row \in OpRows : /\ row = NextRow(o, "dispatching") /\ row.status = "dispatching"
                              /\ op' = [op EXCEPT ![o] = row]
    <2>1. "dispatching" \in OperationStatuses \cup {"none"}
      BY DEF OperationStatuses
    <2>2. op' = [op EXCEPT ![o] = NextRow(o, "dispatching")]
      BY <1>1, <2>1, Evented
    <2> QED BY <2>1, <2>2, Evented
  <1>5. op'[o] = row
    BY <1>4, Rows
  <1> DEFINE pc == IF n \in Steps THEN "mark" ELSE n
  <1> DEFINE step == IF n \in Steps THEN n ELSE s
  <1>6. PICK y \in ThreadRows : /\ th' = [th EXCEPT ![t] = y]
                                /\ y.pc = pc /\ y.o = o /\ y.gen = th[t].gen /\ y.row = row
                                /\ y.step = step /\ y.lockId = th[t].lockId
    <2>1. "mark" \in Pcs /\ (n \notin Steps => n \in Pcs)
      BY <1>3 DEF Pcs, Steps
    <2>2. CASE n \in Steps
      <3>0. PICK x \in ThreadRows : /\ x = Moved(t, "mark") /\ x.pc = "mark" /\ x.o = o
                                    /\ x.gen = th[t].gen /\ x.lockId = th[t].lockId
        BY <1>0, <1>1, <2>1, MovedRow
      <3> DEFINE z == [[x EXCEPT !.step = n] EXCEPT !.row = row]
      <3>1. /\ z \in ThreadRows /\ z.pc = "mark" /\ z.o = o /\ z.gen = th[t].gen /\ z.row = row
            /\ z.step = n /\ z.lockId = th[t].lockId
        BY <2>2, <3>0 DEF ThreadRows
      <3>2. th' = [th EXCEPT ![t] = z]
        BY <1>0, <1>5, <2>2, <3>0 DEF Proceeds, Continue
      <3> HIDE DEF z
      <3> QED BY <2>2, <3>1, <3>2
    <2>3. CASE n \notin Steps
      <3>0. n # "rest"
        BY <1>3, <2>3
      <3> DEFINE z == [Moved(t, n) EXCEPT !.row = row]
      <3>1. /\ z \in ThreadRows /\ z.pc = n /\ z.o = o /\ z.gen = th[t].gen /\ z.row = row
            /\ z.step = s /\ z.lockId = th[t].lockId
        BY <1>0, <1>00, <1>1, <2>1, <2>3, <3>0, MovedRow DEF ThreadRows
      <3>2. th' = [th EXCEPT ![t] = z]
        BY <1>0, <1>5, <2>3 DEF Proceeds, Continue
      <3> HIDE DEF z
      <3> QED BY <2>3, <3>1, <3>2
    <2> QED BY <2>2, <2>3
  <1>7. th'[t] = y /\ rec'[o] = rec[o]
    BY <1>1, <1>6, Rows
  <1>8. pc \in {"mark", "post_check", "unconfirmed"} /\ (pc = "mark" => step = n /\ n \in Steps)
        /\ (pc = "post_check" => n = "post_check")
    BY <1>3 DEF Steps
  <1> HIDE DEF pc, step
  <1>9. Dispatched(t)' => Dispatched(t)
    BY <1>2
  <1>10. PlaceSound(t)'
    BY <1>2, <1>3, <1>4, <1>5, <1>6, <1>7, <1>8
       DEF PlaceSound, RowRead, Authorised, RequestKnown, SendsInTurn, SawTruly, At, Status,
           ClosingUnsent, Sending, Unsent, Succeeding, InTurn, Whole, proxmox, BeforeSession, Undecided
  <1>11. /\ y.pc # "prepare_operation" /\ y.pc \notin BeforeSession
         /\ Event(th[t].o, op[th[t].o].status)
    BY <1>0, <1>1, <1>6, <1>8 DEF BeforeSession
  <1> QED BY <1>0, <1>1, <1>6, <1>9, <1>10, <1>11, MoveKept

\* The answer of a mutation is recorded; a task is waited for.
LEMMA RecordAnswerKept ==
  ASSUME IInv, NEW t \in Requests, RecordAnswer(t)
  PROVE  IInv'
  <1>0. PICK o \in Ops : o = th[t].o
    BY Rows DEF ThreadRows, Threads
  <1>00. PICK s \in Steps : s = th[t].step
    BY Rows DEF ThreadRows, Threads
  <1>1. /\ t \in Threads /\ th[t].pc = "answered" /\ Status(t) = "dispatching" /\ PlaceSound(t)
        /\ UNCHANGED <<req, proxmox>> /\ rec[o] \in RecRows
    BY Rows DEF Threads, RecordAnswer, At, ThreadSound, PlaceSound, RowRead, Sending, Keep
  <1>2. /\ Dispatched(t) /\ InTurn(o, s) /\ rec[o].phase # "rejected" /\ ~rec[o].success
        /\ op[o].status \notin Undecided /\ (s \notin TaskSteps => effect[o][s] = "ok")
    BY <1>0, <1>00, <1>1 DEF Dispatched, DispatchedPcs, Sending, PlaceSound, SendsInTurn, Authorised, At
  <1>3. CASE s \in TaskSteps /\ Checkpoint(t, Status(t), [rec[o] EXCEPT !.task = s], FALSE, "wait")
    <2>1. "wait" \in Pcs /\ "wait" \notin BeforeSession
          /\ "dispatching" \in OperationStatuses \cup {"none"}
      BY DEF Pcs, BeforeSession, OperationStatuses
    <2>2. PICK item \in RecRows : item = [rec[o] EXCEPT !.task = s]
      BY <1>1, <1>3 DEF RecRows
    <2>3. /\ item.phase = rec[o].phase /\ item.status = rec[o].status /\ item.gen = rec[o].gen
          /\ item.lockId = rec[o].lockId /\ item.success = rec[o].success
      BY <1>1, <2>2 DEF RecRows
    <2>4. Checkpoint(t, Status(t), item, FALSE, "wait")
      BY <1>3, <2>2
    <2>5. Passed(t, Status(t), item, "wait")
      BY <1>1, <2>1, <2>4, Passing
    <2>6. StatusMoves(Status(t), Status(t)) /\ Continues(item, th[t].o)
      BY <1>0, <1>1, <2>3 DEF StatusMoves, Continues, RecRows
    <2>8. PlaceSound(t)'
      BY <1>0, <1>00, <1>1, <1>2, <2>3, <2>5
         DEF Passed, PlaceSound, RowRead, Authorised, RequestKnown, SendsInTurn, SawTruly, At, Status,
             ClosingUnsent, Sending, Unsent, Succeeding, InTurn, proxmox, BeforeSession, Undecided
    <2>9. Dispatched(t)' => Dispatched(t)
      BY <1>2
    <2> QED BY <1>1, <2>1, <2>2, <2>4, <2>6, <2>8, <2>9, CommitKept
  <1>4. CASE Goto(t, "interrupted") /\ UNCHANGED ledger
    BY <1>1, <1>2, <1>4, InterruptKept
  <1>5. ASSUME s \notin TaskSteps, NEW n \in AfterStep(o, s), Proceeds(t, n)
        PROVE  IInv'
    BY <1>0, <1>00, <1>1, <1>2, <1>5, ProceedsKept
  <1> QED BY <1>0, <1>00, <1>3, <1>4, <1>5 DEF RecordAnswer, Commit, Proceeds

\* The end of the task, or of the wait.
LEMMA WaitForTaskKept ==
  ASSUME IInv, NEW t \in Requests, WaitForTask(t)
  PROVE  IInv'
  <1>1. /\ t \in Threads /\ th[t].pc = "wait" /\ Status(t) = "dispatching" /\ PlaceSound(t)
        /\ UNCHANGED <<rec, lock, req, proxmox>>
    BY Rows DEF Threads, WaitForTask, At, ThreadSound, PlaceSound, RowRead, Sending, Keep
  <1>2. Dispatched(t) /\ ~rec[th[t].o].success
    BY <1>1 DEF Dispatched, DispatchedPcs, Sending, PlaceSound, SendsInTurn
  <1>3. ASSUME effect[th[t].o][th[t].step] = "ok", NEW n \in AfterStep(th[t].o, th[t].step),
               Proceeds(t, n)
        PROVE  IInv'
    BY <1>1, <1>3, ProceedsKept
  <1>4. ASSUME NEW pc \in {"unconfirmed", "interrupted"}, Goto(t, pc), UNCHANGED op
        PROVE  IInv'
    BY <1>1, <1>2, <1>4, InterruptKept DEF ledger
  <1> QED BY <1>1, <1>3, <1>4 DEF WaitForTask, Proceeds

-----------------------------------------------------------------------------
(* The ends of a creation that close nothing. *)

\* The request row learns of the refusal.
LEMMA TellRejectedKept ==
  ASSUME IInv, NEW t \in Requests, TellRejected(t)
  PROVE  IInv'
  <1>1. /\ t \in Threads /\ th[t].pc = "tell_rejected" /\ Status(t) = "dispatching"
        /\ UNCHANGED proxmox /\ PlaceSound(t)
    BY Rows DEF Threads, TellRejected, At, ThreadSound, PlaceSound, RowRead, Keep
  <1>2. Dispatched(t) /\ rec[th[t].o].phase = "rejected" /\ op[th[t].o].status \notin Undecided
    BY <1>1 DEF Dispatched, DispatchedPcs, PlaceSound, SendsInTurn, Authorised
  <1>3. CASE /\ req' = [req EXCEPT ![th[t].o] = "failed"]
             /\ Goto(t, "close_rejected") /\ UNCHANGED ledger
    <2>1. "close_rejected" \in Pcs \ {"rest"} /\ "close_rejected" \notin BeforeSession
      BY DEF Pcs, BeforeSession
    <2>2. th'[t].pc = "close_rejected" /\ th'[t].o = th[t].o /\ th'[t].row = th[t].row
      BY <1>1, <1>3, <2>1, Gone
    <2>3. Tells("failed", th[t].o) /\ "failed" \in RequestStatuses
      BY DEF Tells, RequestStatuses
    <2>5. PlaceSound(t)'
      BY <1>1, <1>2, <1>3, <2>2
         DEF PlaceSound, RowRead, Authorised, RequestKnown, SendsInTurn, SawTruly, At, Status,
             ClosingUnsent, Sending, Unsent, Succeeding, ledger, BeforeSession
    <2> QED BY <1>1, <1>2, <1>3, <2>1, <2>3, <2>5, TellKept
  <1>4. CASE Commit(t, Status(t), Ended(t, "retry_wait"), FALSE, "rest", "rest") /\ UNCHANGED req
    BY <1>1, <1>4, HandOverKept
  <1> QED BY <1>3, <1>4 DEF TellRejected

\* The success is recorded: the operation runs, then it is verified.
LEMMA RecordObservedKept ==
  ASSUME IInv, NEW t \in Requests, RecordObserved(t)
  PROVE  IInv'
  <1>1. /\ t \in Threads /\ th[t].pc \in {"record_running", "record_verifying"} /\ PlaceSound(t)
        /\ UNCHANGED <<req, proxmox>> /\ rec[th[t].o] \in RecRows /\ th[t].o \in Ops
    BY Rows DEF Threads, RecordObserved, At, ThreadSound, Keep, ThreadRows
  <1>2. /\ Dispatched(t) /\ rec[th[t].o].success /\ op[th[t].o].status \notin Undecided
        /\ At(t, "record_running") => Status(t) = "dispatching"
        /\ At(t, "record_verifying") => Status(t) = "running"
    BY <1>1 DEF Dispatched, DispatchedPcs, Succeeding, PlaceSound, SendsInTurn, Authorised, RowRead, At
  <1>3. Continues(rec[th[t].o], th[t].o)
    BY <1>1 DEF Continues, RecRows
  <1>4. CASE At(t, "record_running") /\
             Checkpoint(t, "running", rec[th[t].o], FALSE, "record_verifying")
    <2>1. "record_verifying" \in Pcs /\ "record_verifying" \notin BeforeSession
          /\ "running" \in OperationStatuses \cup {"none"}
      BY DEF Pcs, BeforeSession, OperationStatuses
    <2>2. Passed(t, "running", rec[th[t].o], "record_verifying")
      BY <1>1, <1>4, <2>1, Passing
    <2>3. PlaceSound(t)'
      BY <1>2, <2>2
         DEF Passed, PlaceSound, RowRead, Authorised, RequestKnown, SendsInTurn, SawTruly, At, Status,
             ClosingUnsent, Sending, Unsent, Succeeding, BeforeSession, Undecided
    <2>4. StatusMoves(Status(t), "running")
      BY <1>2, <1>4 DEF StatusMoves, Busy
    <2> QED BY <1>1, <1>2, <1>3, <1>4, <2>1, <2>3, <2>4, CommitKept
  <1>5. CASE At(t, "record_verifying") /\ Checkpoint(t, "verifying", rec[th[t].o], FALSE, "succeed")
    <2>1. "succeed" \in Pcs /\ "succeed" \notin BeforeSession
          /\ "verifying" \in OperationStatuses \cup {"none"}
      BY DEF Pcs, BeforeSession, OperationStatuses
    <2>2. Passed(t, "verifying", rec[th[t].o], "succeed")
      BY <1>1, <1>5, <2>1, Passing
    <2>3. PlaceSound(t)'
      BY <1>2, <2>2
         DEF Passed, PlaceSound, RowRead, Authorised, RequestKnown, SendsInTurn, SawTruly, At, Status,
             ClosingUnsent, Sending, Unsent, Succeeding, BeforeSession, Undecided
    <2>4. StatusMoves(Status(t), "verifying")
      BY <1>2, <1>5 DEF StatusMoves, Busy
    <2> QED BY <1>1, <1>2, <1>3, <1>5, <2>1, <2>3, <2>4, CommitKept
  <1>6. CASE Goto(t, "interrupted") /\ UNCHANGED ledger
    <2>1. Status(t) \in {"dispatching", "running", "verifying"}
      BY <1>1, <1>2 DEF At
    <2> QED BY <1>1, <1>2, <1>6, <2>1, InterruptKept
  <1> QED BY <1>4, <1>5, <1>6 DEF RecordObserved, Commit

\* The request pauses the work; a result without proof is told afterwards.
LEMMA PauseForReconciliationKept ==
  ASSUME IInv, NEW t \in Requests, PauseForReconciliation(t)
  PROVE  IInv'
  <1>1. /\ t \in Threads /\ th[t].pc \in {"interrupted", "unconfirmed"} /\ PlaceSound(t)
        /\ UNCHANGED <<req, proxmox>> /\ th[t].o \in Ops
    BY Rows DEF Threads, PauseForReconciliation, ThreadSound, Keep, ThreadRows
  <1>2. /\ Dispatched(t) /\ Status(t) \in {"dispatching", "running", "verifying"}
        /\ At(t, "unconfirmed") => ~rec[th[t].o].success
    BY <1>1 DEF Dispatched, DispatchedPcs, PlaceSound, SendsInTurn, RowRead, At
  <1>3. PauseStatus(Status(t)) = "needs_reconciliation"
    BY <1>2 DEF PauseStatus
  <1>4. "needs_reconciliation" \in Busy /\ Status(t) \in Busy
    BY <1>2 DEF Busy
  <1>5. CASE Checkpoint(t, "needs_reconciliation", Ended(t, "paused"), FALSE, "rest")
    BY <1>1, <1>4, <1>5, LeaveKept
  <1>6. CASE /\ At(t, "unconfirmed")
             /\ Checkpoint(t, "needs_reconciliation", Ended(t, "paused"), FALSE, "tell_unconfirmed")
    <2>1. /\ "tell_unconfirmed" \in Pcs /\ "tell_unconfirmed" \notin BeforeSession
          /\ "needs_reconciliation" \in OperationStatuses \cup {"none"}
      BY DEF Pcs, BeforeSession, OperationStatuses
    <2>2. LeaseOwned(t)
      BY <1>6 DEF Checkpoint, MayCommit
    <2>3. PICK item \in RecRows : item = Ended(t, "paused") /\ Continues(item, th[t].o)
      BY <1>1, <2>2, Leaving
    <2>4. Checkpoint(t, "needs_reconciliation", item, FALSE, "tell_unconfirmed")
      BY <1>6, <2>3
    <2>5. Passed(t, "needs_reconciliation", item, "tell_unconfirmed")
      BY <1>1, <2>1, <2>4, Passing
    <2>6. PlaceSound(t)' /\ (Dispatched(t)' => Dispatched(t))
      <3>1. /\ th'[t].o = th[t].o /\ At(t, "tell_unconfirmed")'
            /\ op'[th[t].o].status \notin Undecided
            /\ rec'[th[t].o].success = rec[th[t].o].success
        BY <2>3, <2>5 DEF Passed, At, Undecided, Continues
      <3> QED BY <1>1, <1>2, <1>6, <3>1, InterruptedPlace
    <2>7. StatusMoves(Status(t), "needs_reconciliation")
      BY <1>4 DEF StatusMoves
    <2> QED BY <1>1, <2>1, <2>3, <2>4, <2>6, <2>7, CommitKept
  <1>7. CASE Goto(t, "rest") /\ UNCHANGED ledger
    BY <1>1, <1>7, EndKept DEF ledger
  <1> QED BY <1>3, <1>5, <1>6, <1>7 DEF PauseForReconciliation, Commit

\* Nothing is told of a success here: the request that tells has found none.
LEMMA TellUnconfirmedKept ==
  ASSUME IInv, NEW t \in Requests, TellUnconfirmed(t)
  PROVE  IInv'
  <1>0. PICK o \in Ops : o = th[t].o
    BY Rows DEF ThreadRows, Threads
  <1>1. /\ t \in Threads /\ th[t].pc = "tell_unconfirmed" /\ PlaceSound(t)
        /\ UNCHANGED <<ledger, proxmox>> /\ op[o] \in OpRows /\ rec[o] \in RecRows
        /\ req[o] \in RequestStatuses /\ lock[VmOf[o]] \in Requests \cup {Free} /\ OperationSound(o)
    BY Rows DEF Threads, TellUnconfirmed, At, ThreadSound, Keep
  <1>2. op[o].status # "succeeded"
    BY <1>0, <1>1 DEF PlaceSound, SendsInTurn, OperationSound, OutcomeTrue, At
  <1>3. PICK q \in RequestStatuses : Tells(q, o) /\ req' = [req EXCEPT ![o] = q]
    <2>1. "unresolved" \in RequestStatuses /\ Tells("unresolved", o) /\ Tells(req[o], o)
      BY <1>2 DEF RequestStatuses, Tells
    <2> QED BY <1>0, <1>1, <2>1, Unwritten DEF TellUnconfirmed
  <1>4. Writes(t, o, op[o], rec[o], lock[VmOf[o]], q, Rest(t))
    BY <1>1, <1>3, Unwritten DEF Writes, ledger, TellUnconfirmed, Goto, Moved
  <1>5. /\ StatusMoves(op[o].status, op[o].status) /\ Continues(rec[o], o)
        /\ LockInHand(lock[VmOf[o]], t, o)
    BY <1>1 DEF StatusMoves, Continues, LockInHand, RecRows
  <1> QED BY <1>1, <1>3, <1>4, <1>5, RestKept

-----------------------------------------------------------------------------
(* The steps that close a creation. *)

\* The closing checkpoint completes the work and releases the lock it names.
Closes(t, to, q) ==
  /\ Checkpoint(t, to, Ended(t, "completed"), TRUE, "rest")
  /\ req' = [req EXCEPT ![th[t].o] = q] /\ UNCHANGED proxmox

\* What it has found.
LEMMA Closing ==
  ASSUME IInv, NEW t \in Threads, NEW to, NEW q, Closes(t, to, q)
  PROVE  /\ LeaseOwned(t) /\ op[th[t].o] = th[t].row /\ op[th[t].o].status = Status(t)
         /\ ExactLock(th[t].o) /\ op[th[t].o].status \notin Decided
  <1>1. LeaseOwned(t) /\ op[th[t].o] = th[t].row /\ ExactLock(th[t].o)
    BY DEF Closes, Checkpoint, MayCommit
  <1>2. th[t].o \in Ops /\ OperationSound(th[t].o)
    BY Rows DEF ThreadRows
  <1> QED BY <1>1, <1>2 DEF Status, LeaseOwned, OperationSound, RowsAgree

\* Nothing of the operation can still act, and its VM is not there.
Spent(o) == (\A s \in Steps : effect[o][s] \notin {"inflight", "running"}) /\ vm[VmOf[o]] # o

\* A success is whole and told; a failure leaves nothing, and nobody about to send.
Justified(t, to, q) ==
  LET o == th[t].o IN
    \/ to = "succeeded" /\ rec[o].success /\ q = "completed" /\ op[o].status \in Busy
    \/ /\ to \in {"blocked", "failed"} /\ q \in {req[o], "failed"} /\ Spent(o)
       /\ \A u \in Threads \ {t} : th[u].o = o => ~At(u, "send")

\* A close that is justified by what was sent, and releases the lock with the last write, keeps it.
LEMMA CloseKept ==
  ASSUME IInv, NEW t \in Threads, NEW to, NEW q \in RequestStatuses,
         Closes(t, to, q), Justified(t, to, q)
  PROVE  IInv'
  <1>0. PICK o \in Ops : o = th[t].o
    BY Rows DEF ThreadRows
  <1> DEFINE v == VmOf[o]
  <1>1. /\ v \in Vms /\ lock[v] \in Requests \cup {Free} /\ op[o] \in OpRows /\ rec[o] \in RecRows
        /\ req[o] \in RequestStatuses /\ OperationSound(o) /\ rec[o].gen \in Nat
    BY Rows DEF RecRows
  <1>2. /\ LeaseOwned(t) /\ ExactLock(o) /\ op[o].status \notin Decided /\ rec[o].status = "leased"
    BY <1>0, Closing DEF LeaseOwned
  <1>3. to \in Decided /\ to \in OperationStatuses
    BY DEF Justified, Decided, OperationStatuses
  <1>4. PICK row \in OpRows : row.status = to /\ op' = [op EXCEPT ![o] = row]
    <2>1. Event(o, to)
      BY <1>0 DEF Closes, Checkpoint
    <2> QED BY <1>3, <2>1, Evented
  <1>5. PICK item \in RecRows : /\ item.status = "completed" /\ item.gen = rec[o].gen
                                /\ item.phase = rec[o].phase /\ item.success = rec[o].success
                                /\ item.lockId = rec[o].lockId /\ rec' = [rec EXCEPT ![o] = item]
    <2> DEFINE z == [rec[o] EXCEPT !.status = "completed", !.live = FALSE]
    <2>1. /\ z \in RecRows /\ z.status = "completed" /\ z.gen = rec[o].gen
          /\ z.phase = rec[o].phase /\ z.success = rec[o].success /\ z.lockId = rec[o].lockId
      BY <1>1 DEF RecRows
    <2>2. rec' = [rec EXCEPT ![o] = z]
      BY <1>0 DEF Closes, Checkpoint, Ended
    <2> HIDE DEF z
    <2> QED BY <2>1, <2>2
  <1>6. /\ lock' = [lock EXCEPT ![v] = Free] /\ req' = [req EXCEPT ![o] = q]
        /\ th' = [th EXCEPT ![t] = Rest(t)]
    BY <1>0 DEF Closes, Checkpoint
  <1>7. Writes(t, o, row, item, Free, q, Rest(t))
    BY <1>4, <1>5, <1>6 DEF Writes
  <1>8. /\ op'[o] = row /\ rec'[o] = item /\ lock'[v] = Free /\ req'[o] = q
        /\ sent'[o] = sent[o] /\ effect'[o] = effect[o] /\ vm'[v] = vm[v]
        /\ \A u \in Threads \ {t} : th'[u] = th[u]
    BY <1>1, <1>4, <1>5, <1>6, Rows DEF Closes, proxmox
  <1>9. rec' \in [Ops -> RecRows]
    BY <1>5, Rows
  <1>10. /\ Rest(t) \in ThreadRows /\ ThreadSound(t)' /\ Onward(t) /\ Pairs(t, o)
    BY <1>6, <1>9, Resting
  <1>11. Acts(o) /\ LockMoves(t, o)
    BY <1>2, <1>5, <1>8, Rows DEF Acts, proxmox, LockMoves, Closes
  <1>12. Advance(t, o)
    BY <1>0, <1>1, <1>2, <1>3, <1>4, <1>5, <1>8
       DEF Advance, Justified, Undecided, Decided, Busy
  <1>13. OperationSound(o)'
    <2>1. RowsAgree(o)'
      BY <1>1, <1>2, <1>3, <1>4, <1>5, <1>8
         DEF OperationSound, RowsAgree, Undecided, Decided, Busy, StatusesInUse
    <2>2. LockKnown(o)'
      <3>1. rec[o].lockId # Free => /\ rec[o].phase # "none" /\ th'[rec[o].lockId].o = o
                                    /\ th'[rec[o].lockId].pc # "prepare_operation"
        BY <1>1, <1>8, <1>10 DEF OperationSound, LockKnown, RecRows, Onward, Threads
      <3> QED BY <1>3, <1>4, <1>5, <1>8, <3>1 DEF LockKnown, Decided, Busy
    <2>3. MutationsInOrder(o)'
      BY <1>1, <1>5, <1>8 DEF OperationSound, MutationsInOrder, StepBuilds, NothingSent, NoEffect
    <2>4. OutcomeTrue(o)'
      BY <1>0, <1>1, <1>2, <1>3, <1>4, <1>5, <1>8
         DEF OperationSound, OutcomeTrue, Justified, Spent, Whole, Busy, Decided
    <2> QED BY <2>1, <2>2, <2>3, <2>4 DEF OperationSound
  <1> QED BY <1>1, <1>7, <1>10, <1>11, <1>12, <1>13, TurnKept

\* Of an operation of which nothing was sent, nothing is left.
LEMMA NothingLeft ==
  ASSUME IInv, NEW o \in Ops, NothingSent(o) \/ NoEffect(o)
  PROVE  Spent(o)
  <1>1. NoEffect(o) /\ OperationSound(o)
    BY Rows DEF OperationSound, MutationsInOrder, NothingSent, NoEffect
  <1> QED BY <1>1 DEF OperationSound, MutationsInOrder, NoEffect, Spent, Steps

\* A request about to send has marked its mutation.
LEMMA Sender ==
  ASSUME IInv, NEW u \in Threads, At(u, "send")
  PROVE  /\ rec[th[u].o].phase = "sent" /\ InTurn(th[u].o, th[u].step)
         /\ sent[th[u].o][th[u].step] = 0 /\ th[u].step \in Steps /\ Dispatched(u)
         /\ op[th[u].o].status \notin Undecided
  <1>1. PlaceSound(u) /\ th[u] \in ThreadRows
    BY Rows DEF ThreadSound
  <1>2. Dispatched(u)
    BY DEF At, Dispatched, DispatchedPcs, Sending
  <1> QED BY <1>1, <1>2 DEF PlaceSound, SendsInTurn, Authorised, At, ThreadRows

\* The request closes an operation of which it has sent nothing.
LEMMA CloseUnsentKept ==
  ASSUME IInv, NEW t \in Requests, CloseUnsent(t)
  PROVE  IInv'
  <1>0. PICK o \in Ops : o = th[t].o
    BY Rows DEF ThreadRows, Threads
  <1>1. /\ t \in Threads /\ th[t].pc = "close_unsent" /\ PlaceSound(t) /\ UNCHANGED <<req, proxmox>>
        /\ req[o] \in RequestStatuses /\ OperationSound(o)
        /\ Status(t) \in {"approved", "dispatching"}
    BY Rows DEF Threads, CloseUnsent, At, ThreadSound, PlaceSound, RowRead, ClosingUnsent, Keep
  <1>2. CASE Checkpoint(t, UnsentStatus(Status(t)), Ended(t, "completed"), TRUE, "rest")
    <2>1. PICK to : to = UnsentStatus(Status(t))
      OBVIOUS
    <2>2. to \in {"blocked", "failed"}
      BY <1>1, <2>1 DEF UnsentStatus
    <2>3. Closes(t, to, req[o])
      BY <1>0, <1>1, <1>2, <2>1, Unwritten DEF Closes
    <2>4. op[o].status = Status(t)
      BY <1>0, <1>1, <2>3, Closing
    <2>5. CASE Status(t) = "approved"
      <3>1. op[o].status \in Undecided
        BY <2>4, <2>5 DEF Undecided
      <3>2. NothingSent(o)
        BY <1>1, <3>1 DEF OperationSound, RowsAgree, MutationsInOrder
      <3>3. \A u \in Threads \ {t} : th[u].o = o => ~At(u, "send")
        BY <3>1, Sender
      <3>4. Justified(t, to, req[o])
        BY <1>0, <2>2, <3>2, <3>3, NothingLeft DEF Justified
      <3> QED BY <1>1, <2>3, <3>4, CloseKept
    <2>6. CASE Status(t) = "dispatching"
      <3>1. Dispatched(t)
        BY <1>1, <2>6 DEF Dispatched, ClosingUnsent
      <3>2. NothingSent(o)
        BY <1>0, <1>1, <3>1 DEF PlaceSound, SendsInTurn, ClosingUnsent
      <3>3. \A u \in Threads \ {t} : th[u].o = o => ~At(u, "send")
        BY <1>0, <1>1, <3>1, Dispatcher
      <3>4. Justified(t, to, req[o])
        BY <1>0, <2>2, <3>2, <3>3, NothingLeft DEF Justified
      <3> QED BY <1>1, <2>3, <3>4, CloseKept
    <2> QED BY <1>1, <2>5, <2>6
  <1>3. CASE Goto(t, "rest") /\ UNCHANGED ledger
    BY <1>1, <1>3, EndKept DEF ledger
  <1> QED BY <1>0, <1>2, <1>3 DEF CloseUnsent, Commit

\* The request closes an operation whose clone was refused.
LEMMA CloseRejectedKept ==
  ASSUME IInv, NEW t \in Requests, CloseRejected(t)
  PROVE  IInv'
  <1>0. PICK o \in Ops : o = th[t].o
    BY Rows DEF ThreadRows, Threads
  <1>1. /\ t \in Threads /\ th[t].pc = "close_rejected" /\ PlaceSound(t)
        /\ UNCHANGED <<req, proxmox>> /\ req[o] \in RequestStatuses /\ OperationSound(o)
    BY Rows DEF Threads, CloseRejected, At, ThreadSound, Keep
  <1>2. CASE Checkpoint(t, "failed", Ended(t, "completed"), TRUE, "rest")
    <2>1. Closes(t, "failed", req[o])
      BY <1>0, <1>1, <1>2, Unwritten DEF Closes
    <2>2. rec[o].phase = "rejected"
      BY <1>0, <1>1 DEF PlaceSound, SendsInTurn
    <2>3. NoEffect(o)
      BY <1>1, <2>2 DEF OperationSound, MutationsInOrder
    <2>4. \A u \in Threads \ {t} : th[u].o = o => ~At(u, "send")
      BY <2>2, Sender
    <2>5. Justified(t, "failed", req[o])
      BY <1>0, <2>3, <2>4, NothingLeft DEF Justified
    <2> QED BY <1>1, <2>1, <2>5, CloseKept
  <1>3. CASE Commit(t, Status(t), Ended(t, "retry_wait"), FALSE, "rest", "rest")
    BY <1>1, <1>3, HandOverKept
  <1>4. CASE Goto(t, "rest") /\ UNCHANGED ledger
    BY <1>1, <1>4, EndKept DEF ledger
  <1> QED BY <1>0, <1>2, <1>3, <1>4 DEF CloseRejected, Commit

\* The request closes the operation it has verified, or leaves that to recovery.
LEMMA SucceedKept ==
  ASSUME IInv, NEW t \in Requests, Succeed(t)
  PROVE  IInv'
  <1>0. PICK o \in Ops : o = th[t].o
    BY Rows DEF ThreadRows, Threads
  <1>1. /\ t \in Threads /\ th[t].pc = "succeed" /\ Status(t) = "verifying" /\ PlaceSound(t)
        /\ UNCHANGED proxmox
    BY Rows DEF Threads, Succeed, At, ThreadSound, PlaceSound, RowRead, Keep
  <1>2. CASE /\ Checkpoint(t, "succeeded", Ended(t, "completed"), TRUE, "rest")
             /\ req' = [req EXCEPT ![th[t].o] = "completed"]
    <2>1. Closes(t, "succeeded", "completed") /\ "completed" \in RequestStatuses
      BY <1>1, <1>2 DEF Closes, RequestStatuses
    <2>2. op[o].status = "verifying"
      BY <1>0, <1>1, <2>1, Closing
    <2>3. rec[o].success
      BY <1>0, <1>1 DEF PlaceSound, SendsInTurn, Succeeding
    <2>4. Justified(t, "succeeded", "completed")
      BY <1>0, <2>2, <2>3 DEF Justified, Busy
    <2> QED BY <1>1, <2>1, <2>4, CloseKept
  <1>3. CASE Commit(t, Status(t), Ended(t, "retry_wait"), FALSE, "rest", "rest") /\ UNCHANGED req
    BY <1>1, <1>3, HandOverKept
  <1> QED BY <1>2, <1>3 DEF Succeed

-----------------------------------------------------------------------------
(* The observers. *)

\* A handler that takes another turn at a place that tells nothing.
LEMMA DivertKept ==
  ASSUME IInv, NEW t \in Threads, NEW pc \in {"retry", "pause"}, Goto(t, pc),
         UNCHANGED <<ledger, req, proxmox>>
  PROVE  IInv'
  <1>1. pc \in Pcs \ {"rest", "prepare_operation"} /\ pc \notin BeforeSession /\ pc \in Plain
    BY DEF Pcs, BeforeSession, Plain
  <1>2. th'[t].pc = pc
    BY <1>1, Gone
  <1>3. PlaceSound(t)' /\ ~Dispatched(t)'
    BY <1>1, <1>2, PlainPlace
  <1> QED BY <1>1, <1>3, GotoKept DEF ledger

\* Recovery takes the work over with a new generation.
LEMMA ClaimWorkKept ==
  ASSUME IInv, NEW t \in Observers, NEW o \in Ops, ClaimWork(t, o)
  PROVE  IInv'
  <1>1. /\ t \in Threads /\ t \notin Requests /\ UNCHANGED <<op, lock, req, proxmox>>
        /\ rec[o].status \in {"retry_wait", "leased", "paused"}
    BY DEF Threads, ClaimWork
  <1>2. /\ op[o] \in OpRows /\ rec[o] \in RecRows /\ req[o] \in RequestStatuses
        /\ VmOf[o] \in Vms /\ lock[VmOf[o]] \in Requests \cup {Free} /\ rec[o].gen \in Nat
        /\ th \in [Threads -> ThreadRows] /\ th[t] \in ThreadRows
    BY <1>1, Rows DEF RecRows
  <1>3. PICK n \in Nat : n = rec[o].gen + 1
    BY <1>2
  <1>4. PICK item \in RecRows : /\ item.status = "leased" /\ item.gen = n
                                /\ item.phase = rec[o].phase /\ item.success = rec[o].success
                                /\ item.lockId = rec[o].lockId /\ rec' = [rec EXCEPT ![o] = item]
    <2> DEFINE z == [rec[o] EXCEPT !.status = "leased", !.live = TRUE, !.gen = n]
    <2>1. /\ z \in RecRows /\ z.status = "leased" /\ z.gen = n
          /\ z.phase = rec[o].phase /\ z.success = rec[o].success /\ z.lockId = rec[o].lockId
      BY <1>2 DEF RecRows
    <2>2. rec' = [rec EXCEPT ![o] = z]
      BY <1>2, <1>3 DEF ClaimWork, RecRows
    <2> HIDE DEF z
    <2> QED BY <2>1, <2>2
  <1>5. rec'[o] = item
    BY <1>4, Rows
  <1>6. PICK y \in ThreadRows : /\ y.pc = "load" /\ y.o = o /\ y.gen = n /\ y.lockId = Free
                                /\ th' = [th EXCEPT ![t] = y]
    <2> DEFINE z == [Fresh("load") EXCEPT !.o = o, !.gen = n]
    <2>1. (CHOOSE x \in Ops : TRUE) \in Ops
      OBVIOUS
    <2>2. z \in ThreadRows /\ z.pc = "load" /\ z.o = o /\ z.gen = n /\ z.lockId = Free
      BY <2>1 DEF Fresh, ThreadRows, NoOp, OpRows, Pcs, Steps
    <2>3. th' = [th EXCEPT ![t] = z]
      BY <1>4, <1>5 DEF ClaimWork
    <2> HIDE DEF z
    <2> QED BY <2>2, <2>3
  <1>7. th'[t] = y
    BY <1>1, <1>2, <1>6
  <1>8. PlaceSound(t)' /\ ~Dispatched(t)'
    BY <1>6, <1>7, PlainPlace DEF Plain
  <1>9. ThreadSound(t)'
    BY <1>4, <1>5, <1>6, <1>7, <1>8 DEF ThreadSound, Remembers, At
  <1>10. Writes(t, o, op[o], item, lock[VmOf[o]], req[o], y)
    BY <1>1, <1>2, <1>4, <1>6, Unwritten DEF Writes
  <1>11. Onward(t)
    BY <1>1 DEF Onward
  <1>12. Pairs(t, o)
    BY <1>2, <1>3, <1>4, <1>5, <1>6, <1>7, <1>8 DEF Pairs
  <1>13. /\ StatusMoves(op[o].status, op[o].status) /\ Continues(item, o) /\ Tells(req[o], o)
         /\ LockInHand(lock[VmOf[o]], t, o)
    BY <1>1, <1>2, <1>3, <1>4 DEF StatusMoves, Continues, Tells, LockInHand, Open
  <1> QED BY <1>1, <1>2, <1>9, <1>10, <1>11, <1>12, <1>13, OrdinaryKept

\* An operator finds an approved operation, its lock and no session.
LEMMA LookUnpreparedKept ==
  ASSUME IInv, NEW t \in Observers, NEW o \in Ops, LookUnprepared(t, o)
  PROVE  IInv'
  <1>1. /\ t \in Threads /\ t \notin Requests /\ UNCHANGED <<ledger, req, proxmox>>
        /\ op[o].status = "approved" /\ LockedBy(o)
    BY DEF Threads, LookUnprepared
  <1>2. /\ op[o] \in OpRows /\ rec[o] \in RecRows /\ req[o] \in RequestStatuses
        /\ VmOf[o] \in Vms /\ lock[VmOf[o]] \in Requests \cup {Free} /\ LockNamed(VmOf[o])
        /\ th \in [Threads -> ThreadRows] /\ th[t] \in ThreadRows
    BY <1>1, Rows
  <1>3. PICK k \in Requests : k = lock[VmOf[o]] /\ th[k].o = o /\ th[k].pc # "prepare_operation"
    BY <1>1, <1>2 DEF LockedBy, LockNamed
  <1>4. PICK y \in ThreadRows : /\ y.pc = "claim_unprepared" /\ y.o = o /\ y.gen = 0 /\ y.lockId = k
                                /\ y.row = op[o] /\ th' = [th EXCEPT ![t] = y]
    <2> DEFINE z == [Fresh("claim_unprepared") EXCEPT !.o = o, !.row = op[o], !.lockId = k]
    <2>1. (CHOOSE x \in Ops : TRUE) \in Ops
      OBVIOUS
    <2>2. z \in ThreadRows /\ z.pc = "claim_unprepared" /\ z.o = o /\ z.gen = 0 /\ z.lockId = k
          /\ z.row = op[o]
      BY <1>2, <2>1 DEF Fresh, ThreadRows, NoOp, OpRows, Pcs, Steps
    <2>3. th' = [th EXCEPT ![t] = z]
      BY <1>3 DEF LookUnprepared
    <2> HIDE DEF z
    <2> QED BY <2>2, <2>3
  <1>5. th'[t] = y /\ \A u \in Threads \ {t} : th'[u] = th[u]
    BY <1>1, <1>2, <1>4
  <1>6. ~Dispatched(t)'
    BY <1>4, <1>5 DEF Dispatched, DispatchedPcs, Sending, Unsent, Succeeding, ClosingUnsent
  <1>7. PlaceSound(t)'
    BY <1>1, <1>4, <1>5, <1>6
       DEF PlaceSound, RowRead, Authorised, RequestKnown, SendsInTurn, SawTruly, At, Status,
           ClosingUnsent, Sending, Unsent, Succeeding, BeforeSession
  <1>8. Remembers(t)'
    <2>1. rec'[o].gen \in Nat
      BY <1>1, <1>2 DEF ledger, RecRows
    <2>2. th'[k].o = o /\ th'[k].pc # "prepare_operation"
      BY <1>1, <1>3, <1>5 DEF Threads
    <2> QED BY <1>4, <1>5, <2>1, <2>2 DEF Remembers, At
  <1>9. Writes(t, o, op[o], rec[o], lock[VmOf[o]], req[o], y)
    BY <1>1, <1>2, <1>4, Unwritten DEF Writes, ledger
  <1>10. Onward(t) /\ Pairs(t, o)
    BY <1>1, <1>4, <1>5, <1>6 DEF Onward, Pairs
  <1>11. /\ StatusMoves(op[o].status, op[o].status) /\ Continues(rec[o], o) /\ Tells(req[o], o)
         /\ LockInHand(lock[VmOf[o]], t, o)
    BY <1>2 DEF StatusMoves, Continues, Tells, LockInHand, RecRows
  <1> QED BY <1>1, <1>2, <1>7, <1>8, <1>9, <1>10, <1>11, OrdinaryKept DEF ThreadSound

\* The handler reads the row and takes the branch that the recovery row tells.
LEMMA HandleKept ==
  ASSUME IInv, NEW t \in Observers, Handle(t)
  PROVE  IInv'
  <1>0. PICK o \in Ops : o = th[t].o
    BY Rows DEF ThreadRows, Threads
  <1>1. /\ t \in Threads /\ UNCHANGED <<ledger, req, proxmox>> /\ op[o] \in OpRows
        /\ rec[o] \in RecRows /\ OperationSound(o) /\ th \in [Threads -> ThreadRows]
    BY Rows DEF Threads, Handle, Keep
  <1>2. ExactLock(o) => rec[o].phase # "none"
    BY <1>1 DEF ExactLock, OperationSound, LockKnown
  <1>3. PICK pc \in {"bad_binding", "unsent", "rejected", "adopt_result", "observe"} :
          /\ pc = HandlerBranch(o)
          /\ pc = "unsent" => rec[o].phase = "pre"
          /\ pc = "rejected" => rec[o].phase = "rejected"
          /\ pc = "adopt_result" => rec[o].success
    BY <1>1, <1>2 DEF HandlerBranch, RecRows
  <1>4. pc \in Pcs \ {"rest", "prepare_operation"} /\ pc \notin BeforeSession
    BY DEF Pcs, BeforeSession
  <1>40. pc \in Pcs /\ op[o] \in OpRows
    BY <1>1, <1>4
  <1>5. PICK y \in ThreadRows : /\ [Moved(t, pc) EXCEPT !.row = op[o]] = y
                                /\ y.pc = pc /\ y.o = th[t].o /\ y.gen = th[t].gen /\ y.row = op[o]
                                /\ y.step = th[t].step /\ y.lockId = th[t].lockId
    <2>1. PICK row \in OpRows : row = op[o]
      BY <1>40
    <2>2. \E y \in ThreadRows : /\ [Moved(t, pc) EXCEPT !.row = row] = y
                                /\ y.pc = pc /\ y.o = th[t].o /\ y.gen = th[t].gen /\ y.row = row
                                /\ y.step = th[t].step /\ y.lockId = th[t].lockId
      BY <1>1, <1>40, Remade, 0 \in Nat, Free \in Requests \cup {Free}
    <2> QED BY <2>1, <2>2
  <1>6. th' = [th EXCEPT ![t] = y]
    BY <1>0, <1>3, <1>5 DEF Handle
  <1>7. th'[t] = y
    BY <1>1, <1>6
  <1>8. PlaceSound(t)' /\ ~Dispatched(t)'
    BY <1>0, <1>1, <1>3, <1>5, <1>7
       DEF PlaceSound, RowRead, Authorised, RequestKnown, SendsInTurn, SawTruly, At, Status,
           Dispatched, DispatchedPcs, ClosingUnsent, Sending, Unsent, Succeeding, BeforeSession, ledger
  <1> QED BY <1>1, <1>4, <1>5, <1>6, <1>8, MoveKept DEF ledger

\* What the projection of a closing observer writes.
LEMMA Telling ==
  ASSUME IInv, NEW o \in Ops, NEW s \in RequestStatuses, req' = Told(o, s)
  PROVE  \E q \in RequestStatuses : /\ req' = [req EXCEPT ![o] = q]
                                    /\ q = IF req[o] = "none" THEN req[o] ELSE s
  BY Rows DEF Told

\* An observer closes what a lost request never sent.
LEMMA RecoverUnsentKept ==
  ASSUME IInv, NEW t \in Observers, RecoverUnsent(t)
  PROVE  IInv'
  <1>0. PICK o \in Ops : o = th[t].o
    BY Rows DEF ThreadRows, Threads
  <1>1. /\ t \in Threads /\ At(t, "unsent") /\ PlaceSound(t) /\ UNCHANGED proxmox /\ OperationSound(o)
    BY Rows DEF Threads, RecoverUnsent, ThreadSound, Keep
  <1>2. CASE /\ Status(t) \in {"approved", "dispatching", "failed", "blocked"}
             /\ Checkpoint(t, UnsentStatus(Status(t)), Ended(t, "completed"), TRUE, "rest")
             /\ req' = Told(o, "failed")
    <2>1. PICK to : to = UnsentStatus(Status(t))
      OBVIOUS
    <2>2. to \in {"blocked", "failed"}
      BY <1>2, <2>1 DEF UnsentStatus
    <2>3. "failed" \in RequestStatuses
      BY DEF RequestStatuses
    <2>4. PICK q \in RequestStatuses : /\ req' = [req EXCEPT ![o] = q]
                                       /\ q = IF req[o] = "none" THEN req[o] ELSE "failed"
      BY <1>2, <2>3, Telling
    <2>5. Closes(t, to, q)
      BY <1>0, <1>1, <1>2, <2>1, <2>4 DEF Closes
    <2>6. LeaseOwned(t)
      BY <1>1, <2>5, Closing
    <2>7. rec[o].phase = "pre"
      BY <1>0, <1>1, <2>6 DEF LeaseOwned, PlaceSound, SawTruly
    <2>8. NothingSent(o)
      BY <1>1, <2>7 DEF OperationSound, MutationsInOrder
    <2>9. \A u \in Threads \ {t} : th[u].o = o => ~At(u, "send")
      BY <2>7, Sender
    <2>10. Justified(t, to, q)
      BY <1>0, <2>2, <2>4, <2>8, <2>9, NothingLeft DEF Justified
    <2> QED BY <1>1, <2>5, <2>10, CloseKept
  <1>3. CASE Goto(t, "pause") /\ UNCHANGED <<ledger, req>>
    BY <1>1, <1>3, DivertKept
  <1> QED BY <1>0, <1>2, <1>3 DEF RecoverUnsent, Observed

\* An observer closes what Proxmox refused.
LEMMA RecoverRejectedKept ==
  ASSUME IInv, NEW t \in Observers, RecoverRejected(t)
  PROVE  IInv'
  <1>0. PICK o \in Ops : o = th[t].o
    BY Rows DEF ThreadRows, Threads
  <1>1. /\ t \in Threads /\ At(t, "rejected") /\ PlaceSound(t) /\ UNCHANGED proxmox
        /\ OperationSound(o)
    BY Rows DEF Threads, RecoverRejected, ThreadSound, Keep
  <1>2. CASE /\ Checkpoint(t, "failed", Ended(t, "completed"), TRUE, "rest")
             /\ req' = Told(o, "failed")
    <2>3. "failed" \in RequestStatuses
      BY DEF RequestStatuses
    <2>4. PICK q \in RequestStatuses : /\ req' = [req EXCEPT ![o] = q]
                                       /\ q = IF req[o] = "none" THEN req[o] ELSE "failed"
      BY <1>2, <2>3, Telling
    <2>5. Closes(t, "failed", q)
      BY <1>0, <1>1, <1>2, <2>4 DEF Closes
    <2>7. rec[o].phase = "rejected"
      BY <1>0, <1>1 DEF PlaceSound, SawTruly
    <2>8. NoEffect(o)
      BY <1>1, <2>7 DEF OperationSound, MutationsInOrder
    <2>9. \A u \in Threads \ {t} : th[u].o = o => ~At(u, "send")
      BY <2>7, Sender
    <2>10. Justified(t, "failed", q)
      BY <1>0, <2>4, <2>8, <2>9, NothingLeft DEF Justified
    <2> QED BY <1>1, <2>5, <2>10, CloseKept
  <1>3. CASE Goto(t, "pause") /\ UNCHANGED <<ledger, req>>
    BY <1>1, <1>3, DivertKept
  <1> QED BY <1>0, <1>2, <1>3 DEF RecoverRejected, Observed

\* A stored success is confirmed once more, status by status.
LEMMA AdoptResultKept ==
  ASSUME IInv, NEW t \in Observers, AdoptResult(t)
  PROVE  IInv'
  <1>1. /\ t \in Threads /\ th[t].pc = "adopt_result" /\ PlaceSound(t)
        /\ UNCHANGED <<req, proxmox>> /\ rec[th[t].o] \in RecRows /\ th[t].o \in Ops
    BY Rows DEF Threads, AdoptResult, At, ThreadSound, Keep, ThreadRows
  <1>2. rec[th[t].o].success
    BY <1>1 DEF PlaceSound, SawTruly
  <1>3. Continues(rec[th[t].o], th[t].o)
    BY <1>1 DEF Continues, RecRows
  <1>4. ASSUME th'[t].pc \in {"adopt_result", "adopt_verifying"}, th'[t].o = th[t].o,
               rec'[th[t].o] = rec[th[t].o]
        PROVE  PlaceSound(t)' /\ ~Dispatched(t)'
    BY <1>2, <1>4
       DEF PlaceSound, RowRead, Authorised, RequestKnown, SendsInTurn, SawTruly, At, Status,
           Dispatched, DispatchedPcs, ClosingUnsent, Sending, Unsent, Succeeding, BeforeSession
  <1>5. ASSUME NEW pc \in {"retry", "pause"}, Goto(t, pc), UNCHANGED ledger
        PROVE  IInv'
    BY <1>1, <1>5, DivertKept
  <1>6. CASE Goto(t, "adopt_verifying") /\ UNCHANGED ledger
    <2>1. /\ "adopt_verifying" \in Pcs \ {"rest", "prepare_operation"}
          /\ "adopt_verifying" \notin BeforeSession
      BY DEF Pcs, BeforeSession
    <2>2. th'[t].pc = "adopt_verifying" /\ th'[t].o = th[t].o
      BY <1>1, <1>6, <2>1, Gone
    <2>3. PlaceSound(t)' /\ ~Dispatched(t)'
      BY <1>4, <1>6, <2>2 DEF ledger
    <2> QED BY <1>1, <1>6, <2>1, <2>3, GotoKept DEF ledger
  <1>7. ASSUME NEW to \in {"running", "verifying"}, NEW next \in {"adopt_result", "adopt_verifying"},
               Status(t) \in {"dispatching", "running", "needs_reconciliation"},
               Checkpoint(t, to, rec[th[t].o], FALSE, next)
        PROVE  IInv'
    <2>1. /\ next \in Pcs /\ next \notin BeforeSession /\ to \in OperationStatuses \cup {"none"}
      BY DEF Pcs, BeforeSession, OperationStatuses
    <2>2. Passed(t, to, rec[th[t].o], next)
      BY <1>1, <1>7, <2>1, Passing
    <2>3. PlaceSound(t)' /\ ~Dispatched(t)'
      BY <1>4, <2>2 DEF Passed
    <2>4. StatusMoves(Status(t), to)
      BY <1>7 DEF StatusMoves, Busy
    <2> QED BY <1>1, <1>3, <1>7, <2>1, <2>3, <2>4, CommitKept
  <1>8. CASE Status(t) = "dispatching" /\ Checkpoint(t, "running", rec[th[t].o], FALSE, "adopt_result")
    BY <1>7, <1>8
  <1>9. CASE /\ Status(t) \in {"running", "needs_reconciliation"}
             /\ Checkpoint(t, "verifying", rec[th[t].o], FALSE, "adopt_verifying")
    BY <1>7, <1>9
  <1> QED BY <1>5, <1>6, <1>8, <1>9 DEF AdoptResult, Observed

\* An observer closes the success it has confirmed.
LEMMA AdoptSucceededKept ==
  ASSUME IInv, NEW t \in Observers, AdoptSucceeded(t)
  PROVE  IInv'
  <1>0. PICK o \in Ops : o = th[t].o
    BY Rows DEF ThreadRows, Threads
  <1>1. /\ t \in Threads /\ th[t].pc = "adopt_verifying" /\ PlaceSound(t) /\ UNCHANGED proxmox
        /\ OperationSound(o) /\ op[o] \in OpRows
    BY Rows DEF Threads, AdoptSucceeded, At, ThreadSound, Keep
  <1>2. CASE /\ Checkpoint(t, "succeeded", Ended(t, "completed"), TRUE, "rest")
             /\ req' = Told(th[t].o, "completed")
    <2>1. rec[o].success
      BY <1>0, <1>1 DEF PlaceSound, SawTruly
    <2>2. "completed" \in RequestStatuses
      BY DEF RequestStatuses
    <2>3. PICK q \in RequestStatuses : /\ req' = [req EXCEPT ![o] = q]
                                       /\ q = IF req[o] = "none" THEN req[o] ELSE "completed"
      BY <1>0, <1>2, <2>2, Telling
    <2>4. Closes(t, "succeeded", q)
      BY <1>0, <1>1, <1>2, <2>3 DEF Closes
    <2>5. op[o].status \notin Decided
      BY <1>0, <1>1, <2>4, Closing
    <2>6. op[o].status \notin Undecided
      <3>1. Whole(o)
        BY <1>1, <2>1 DEF OperationSound, OutcomeTrue
      <3>2. sent[o]["clone"] # 0
        BY <1>1, <3>1 DEF Whole, Steps, OperationSound, MutationsInOrder
      <3>3. ~NothingSent(o)
        BY <3>2 DEF NothingSent, Steps
      <3> QED BY <1>1, <3>3 DEF OperationSound, RowsAgree, MutationsInOrder
    <2>7. op[o].status \in Busy
      BY <1>1, <2>5, <2>6 DEF OperationSound, RowsAgree, StatusesInUse
    <2>8. q = "completed"
      BY <1>1, <2>3, <2>7 DEF OperationSound, OutcomeTrue
    <2>9. Justified(t, "succeeded", q)
      BY <1>0, <2>1, <2>7, <2>8 DEF Justified
    <2> QED BY <1>1, <2>4, <2>9, CloseKept
  <1>3. CASE Goto(t, "retry") /\ UNCHANGED <<ledger, req>>
    BY <1>1, <1>3, DivertKept
  <1> QED BY <1>2, <1>3 DEF AdoptSucceeded, Observed

\* An observer without a stored success asks for the recorded task.
LEMMA ObserveKept ==
  ASSUME IInv, NEW t \in Observers, Observe(t)
  PROVE  IInv'
  <1>0. PICK o \in Ops : o = th[t].o
    BY Rows DEF ThreadRows, Threads
  <1>1. /\ t \in Threads /\ th[t].pc = "observe" /\ UNCHANGED <<ledger, req, proxmox>>
        /\ rec[o] \in RecRows
    BY Rows DEF Threads, Observe, At, Keep
  <1>2. ASSUME NEW pc \in {"retry", "pause"}, Goto(t, pc)
        PROVE  IInv'
    BY <1>1, <1>2, DivertKept
  <1>3. CASE rec[o].task # "none" /\ ProvenAbsent(o) /\ Goto(t, "close_absent")
    <2>1. /\ "close_absent" \in Pcs \ {"rest", "prepare_operation"}
          /\ "close_absent" \notin BeforeSession
      BY DEF Pcs, BeforeSession
    <2>2. th'[t].pc = "close_absent" /\ th'[t].o = o
      BY <1>0, <1>1, <1>3, <2>1, Gone
    <2>3. vm[VmOf[o]] # o /\ \E s \in TaskSteps : effect[o][s] = "failed"
      BY <1>1, <1>3 DEF ProvenAbsent, RecRows
    <2>4. PlaceSound(t)' /\ ~Dispatched(t)'
      BY <1>1, <2>2, <2>3
         DEF PlaceSound, RowRead, Authorised, RequestKnown, SendsInTurn, SawTruly, At, Status,
             Dispatched, DispatchedPcs, ClosingUnsent, Sending, Unsent, Succeeding, BeforeSession,
             proxmox
    <2> QED BY <1>1, <1>3, <2>1, <2>4, GotoKept DEF ledger
  <1> QED BY <1>0, <1>2, <1>3 DEF Observe

\* Whose clone or start failed, nothing of it can still act.
LEMMA FailedTask ==
  ASSUME IInv, NEW o \in Ops, NEW s \in TaskSteps, effect[o][s] = "failed"
  PROVE  /\ \A n \in Steps : effect[o][n] \notin {"inflight", "running"}
         /\ \A u \in Threads : th[u].o = o => ~At(u, "send")
  <1>1. /\ MutationsInOrder(o) /\ \A n \in Steps : sent[o][n] \in Nat
        /\ s \in {"clone", "start"} /\ sent[o][s] # 0
    BY Rows DEF OperationSound, MutationsInOrder, TaskSteps, Steps
  <1>2. \A n \in Steps : effect[o][n] \notin {"inflight", "running"}
    <2>1. \A n \in Steps : effect[o][n] # "none" => sent[o][n] > 0
      BY <1>1 DEF MutationsInOrder
    <2>2. StepBuilds(o)
      BY <1>1 DEF MutationsInOrder
    <2> QED BY <1>1, <2>1, <2>2 DEF StepBuilds, Steps
  <1>3. ASSUME NEW u \in Threads, th[u].o = o, At(u, "send")
        PROVE  FALSE
    <2>1. PICK n \in Steps : InTurn(o, n) /\ sent[o][n] = 0
      BY <1>3, Sender
    <2> QED BY <1>1, <2>1 DEF InTurn, Later, Steps
  <1> QED BY <1>2, <1>3

\* An observer closes the operation whose VM is proven absent.
LEMMA CloseAbsentKept ==
  ASSUME IInv, NEW t \in Observers, CloseAbsent(t)
  PROVE  IInv'
  <1>0. PICK o \in Ops : o = th[t].o
    BY Rows DEF ThreadRows, Threads
  <1>1. /\ t \in Threads /\ th[t].pc = "close_absent" /\ PlaceSound(t) /\ UNCHANGED proxmox
    BY Rows DEF Threads, CloseAbsent, At, ThreadSound, Keep
  <1>2. CASE /\ Checkpoint(t, "failed", Ended(t, "completed"), TRUE, "rest")
             /\ req' = Told(th[t].o, "failed")
    <2>1. "failed" \in RequestStatuses
      BY DEF RequestStatuses
    <2>2. PICK q \in RequestStatuses : /\ req' = [req EXCEPT ![o] = q]
                                       /\ q = IF req[o] = "none" THEN req[o] ELSE "failed"
      BY <1>0, <1>2, <2>1, Telling
    <2>3. Closes(t, "failed", q)
      BY <1>0, <1>1, <1>2, <2>2 DEF Closes
    <2>4. vm[VmOf[o]] # o /\ \E s \in TaskSteps : effect[o][s] = "failed"
      BY <1>0, <1>1 DEF PlaceSound, SawTruly, At
    <2>5. Spent(o) /\ \A u \in Threads \ {t} : th[u].o = o => ~At(u, "send")
      BY <2>4, FailedTask DEF Spent
    <2>6. Justified(t, "failed", q)
      BY <1>0, <2>2, <2>5 DEF Justified
    <2> QED BY <1>1, <2>3, <2>6, CloseKept
  <1>3. CASE Goto(t, "pause") /\ UNCHANGED <<ledger, req>>
    BY <1>1, <1>3, DivertKept
  <1> QED BY <1>2, <1>3 DEF CloseAbsent, Observed

\* A turn that ends with the lease, and with the work left open.
LEMMA LeaveWith ==
  ASSUME IInv, NEW t \in Threads, LeaseOwned(t), NEW status \in {"retry_wait", "paused"},
         NEW to, to = op[th[t].o].status \/ (to = "needs_reconciliation" /\ op[th[t].o].status \in Busy),
         Event(th[t].o, to), rec' = [rec EXCEPT ![th[t].o] = Ended(t, status)], Goto(t, "rest"),
         UNCHANGED <<lock, req, proxmox>>
  PROVE  IInv'
  <1>0. PICK o \in Ops : o = th[t].o
    BY Rows DEF ThreadRows
  <1>1. /\ op[o] \in OpRows /\ req[o] \in RequestStatuses /\ lock[VmOf[o]] \in Requests \cup {Free}
    BY Rows
  <1>2. PICK item \in RecRows : item = Ended(t, status) /\ Continues(item, o)
    BY <1>0, Leaving
  <1>3. to \in OperationStatuses \cup {"none"} /\ StatusMoves(op[o].status, to)
    BY <1>0, <1>1 DEF OpRows, StatusMoves, Busy, OperationStatuses
  <1>4. PICK row \in OpRows : row.status = to /\ op' = [op EXCEPT ![o] = row]
    BY <1>0, <1>3, Evented
  <1>5. Writes(t, o, row, item, lock[VmOf[o]], req[o], Rest(t))
    BY <1>0, <1>1, <1>2, <1>4, Unwritten DEF Writes, Goto, Moved
  <1>6. Tells(req[o], o) /\ LockInHand(lock[VmOf[o]], t, o)
    BY DEF Tells, LockInHand
  <1> QED BY <1>1, <1>2, <1>3, <1>4, <1>5, <1>6, RestKept

\* The handler leaves the work to an operator.
LEMMA PauseWorkKept ==
  ASSUME IInv, NEW t \in Observers, PauseWork(t)
  PROVE  IInv'
  <1>1. t \in Threads /\ UNCHANGED <<lock, req, proxmox>> /\ Goto(t, "rest")
    BY DEF Threads, PauseWork, Keep
  <1>2. PICK to : to = PauseStatus(Status(t))
    OBVIOUS
  <1>3. /\ LeaseOwned(t) /\ op[th[t].o] = th[t].row /\ Event(th[t].o, to)
        /\ rec' = [rec EXCEPT ![th[t].o] = Ended(t, "paused")]
    BY <1>2 DEF PauseWork, MayCommit
  <1>4. to = op[th[t].o].status \/ (to = "needs_reconciliation" /\ op[th[t].o].status \in Busy)
    BY <1>2, <1>3 DEF PauseStatus, Status, Busy
  <1> QED BY <1>1, <1>3, <1>4, LeaveWith

\* The handler leaves the work to a later turn.
LEMMA RetryLaterKept ==
  ASSUME IInv, NEW t \in Observers, RetryLater(t)
  PROVE  IInv'
  <1>1. t \in Threads /\ UNCHANGED <<req, proxmox>>
    BY DEF Threads, RetryLater, Keep
  <1>2. PICK status \in {"retry_wait", "paused"} : status = RetryStatus(th[t].o)
    BY DEF RetryStatus
  <1>3. Checkpoint(t, Status(t), Ended(t, status), FALSE, "rest")
    BY <1>2 DEF RetryLater, Observed
  <1>4. Status(t) \in {Status(t)} \cup Busy
    OBVIOUS
  <1> QED BY <1>1, <1>3, <1>4, LeaveKept

\* So does the frame around the handler with whatever was raised.
LEMMA AbsorbExceptionKept ==
  ASSUME IInv, NEW t \in Observers, AbsorbException(t)
  PROVE  IInv'
  <1>1. t \in Threads /\ UNCHANGED <<lock, req, proxmox>> /\ Goto(t, "rest")
    BY DEF Threads, AbsorbException, Keep
  <1>2. PICK status \in {"retry_wait", "paused"} : status = RetryStatus(th[t].o)
    BY DEF RetryStatus
  <1>3. CASE LeaseOwned(t)
    <2>1. /\ Event(th[t].o, op[th[t].o].status)
          /\ rec' = [rec EXCEPT ![th[t].o] = Ended(t, status)]
      BY <1>2, <1>3 DEF AbsorbException
    <2> QED BY <1>1, <1>3, <2>1, LeaveWith
  <1>4. CASE ~LeaseOwned(t)
    <2>1. UNCHANGED <<op, rec>>
      BY <1>4 DEF AbsorbException
    <2> QED BY <1>1, <2>1, EndKept
  <1> QED BY <1>3, <1>4

\* A crash forgets the thread; what it has written stays.
LEMMA CrashKept ==
  ASSUME IInv, NEW t \in Threads, Crash(t)
  PROVE  IInv'
  BY EndKept DEF Crash, ledger

-----------------------------------------------------------------------------
(* Proxmox, outsiders and time. *)

\* What ended stays as it ended, what runs does not vanish, and a VM appears by its clone alone.
Fates ==
  /\ \A p \in Ops, s \in Steps :
       /\ effect[p][s] \in {"none", "ok", "failed"} => effect'[p][s] = effect[p][s]
       /\ effect[p][s] = "running" => effect'[p][s] \in {"running", "ok", "failed"}
  /\ \A p \in Ops : vm'[VmOf[p]] = p =>
       vm[VmOf[p]] = p \/ (effect[p]["clone"] = "inflight" /\ effect'[p]["clone"] = "running")

\* Time changes nothing in a recovery row but whether its lease is live.
Alike ==
  \A p \in Ops : /\ rec'[p].status = rec[p].status /\ rec'[p].gen = rec[p].gen
                 /\ rec'[p].phase = rec[p].phase /\ rec'[p].success = rec[p].success
                 /\ rec'[p].lockId = rec[p].lockId

\* A step of the environment keeps what the rows and the threads say.
LEMMA EnvironmentKept ==
  ASSUME IInv, UNCHANGED <<op, lock, req, sent, th>>, rec' \in [Ops -> RecRows], Alike,
         effect' \in [Ops -> [Steps -> Effects]], vm' \in [Vms -> Ops \cup {Free}], Fates
  PROVE  IInv'
  <1>1. TypeOK'
    BY Rows DEF TypeOK, ThreadRows
  <1>2. \A o \in Ops, s \in Steps : effect[o][s] \in Effects /\ effect'[o][s] \in Effects
    BY Rows
  <1>3. ASSUME NEW o \in Ops
        PROVE  OperationSound(o)'
    <2>1. OperationSound(o) /\ rec[o] \in RecRows
      BY Rows
    <2>2. RowsAgree(o)' /\ LockKnown(o)'
      BY <2>1 DEF OperationSound, RowsAgree, LockKnown, LockedBy, Alike
    <2>3. MutationsInOrder(o)'
      <3>1. StepBuilds(o)'
        BY <2>1 DEF OperationSound, MutationsInOrder, StepBuilds, Fates, Steps
      <3>2. \A s \in Steps : sent'[o][s] <= 1 /\ (sent'[o][s] = 0 => effect'[o][s] = "none")
        BY <2>1 DEF OperationSound, MutationsInOrder, Fates
      <3>3. vm'[VmOf[o]] = o => effect'[o]["clone"] \in {"running", "ok", "failed"}
        BY <2>1 DEF OperationSound, MutationsInOrder, Fates, Steps
      <3> QED BY <2>1, <3>1, <3>2, <3>3
           DEF OperationSound, MutationsInOrder, NothingSent, NoEffect, Fates, Alike
    <2>4. OutcomeTrue(o)'
      <3>1. Whole(o) => Whole(o)'
        BY DEF Whole, Fates
      <3>2. Spent(o) => Spent(o)'
        BY <1>2 DEF Spent, Fates, Effects, Steps
      <3> QED BY <2>1, <3>1, <3>2 DEF OperationSound, OutcomeTrue, Alike, Spent
    <2> QED BY <2>2, <2>3, <2>4 DEF OperationSound
  <1>4. ASSUME NEW t \in Threads
        PROVE  ThreadSound(t)'
    <2>1. ThreadSound(t) /\ th[t].o \in Ops /\ th[t].step \in Steps /\ MutationsInOrder(th[t].o)
      BY Rows DEF ThreadRows, OperationSound
    <2>2. Remembers(t)' /\ RowRead(t)' /\ Authorised(t)' /\ RequestKnown(t)'
      BY <2>1
         DEF ThreadSound, PlaceSound, Remembers, RowRead, Authorised, RequestKnown, At, Status,
             Dispatched, Alike
    <2>3. SendsInTurn(t)'
      <3>1. PICK o \in Ops : o = th[t].o
        BY <2>1
      <3>2. PICK s \in Steps : s = th[t].step
        BY <2>1
      <3>3. /\ InTurn(o, s) => InTurn(o, s)'
            /\ Whole(o) => Whole(o)'
            /\ NoEffect(o) => NoEffect(o)'
            /\ effect[o][s] = "ok" => effect'[o][s] = "ok"
        BY DEF InTurn, Whole, NoEffect, Fates, Steps
      <3>4. Dispatched(t)' <=> Dispatched(t)
        BY DEF Dispatched, Status
      <3>5. SendsInTurn(t)
        BY <2>1 DEF ThreadSound, PlaceSound
      <3> QED BY <3>1, <3>2, <3>3, <3>4, <3>5 DEF SendsInTurn, At, Status, NothingSent, Alike
    <2>4. SawTruly(t)'
      <3>1. PICK o \in Ops : o = th[t].o
        BY <2>1
      <3>2. At(t, "close_absent") =>
              vm[VmOf[o]] # o /\ \E s \in TaskSteps : effect[o][s] = "failed"
        BY <2>1, <3>1 DEF ThreadSound, PlaceSound, SawTruly
      <3>3. At(t, "close_absent") =>
              vm'[VmOf[o]] # o /\ \E s \in TaskSteps : effect'[o][s] = "failed"
        BY <3>2, FailedTask DEF Fates, TaskSteps, Steps
      <3> QED BY <2>1, <3>1, <3>3 DEF ThreadSound, PlaceSound, SawTruly, At, Alike
    <2> QED BY <2>2, <2>3, <2>4 DEF ThreadSound, PlaceSound
  <1>5. \A t, u \in Threads : t # u => Exclusive(t, u)'
    <2>1. \A t \in Threads : (Dispatched(t)' <=> Dispatched(t)) /\ th[t].o \in Ops
      BY Rows DEF Dispatched, Status, ThreadRows
    <2> QED BY <2>1, Rows DEF Exclusive, Alike
  <1>6. \A v \in Vms : LockNamed(v)'
    BY Rows DEF LockNamed
  <1> QED BY <1>1, <1>3, <1>4, <1>5, <1>6 DEF IInv, Sound

\* A row of the recovery store is like itself.
LEMMA Unaltered ==
  ASSUME IInv, UNCHANGED rec
  PROVE  rec' \in [Ops -> RecRows] /\ Alike
  BY Rows DEF Alike

\* A mutation sent without an answer starts late, or turns out to be impossible.
LEMMA EffectStartsKept ==
  ASSUME IInv, NEW o \in Ops, NEW s \in Steps, EffectStarts(o, s)
  PROVE  IInv'
  <1>1. UNCHANGED <<op, lock, req, sent, th>> /\ UNCHANGED rec /\ effect[o][s] = "inflight"
    BY DEF EffectStarts, ledger
  <1>2. PICK e \in Effects : /\ effect' = [effect EXCEPT ![o][s] = e] /\ vm' = VmAfter(o, s, e)
    <2>1. PICK e : e = IF Possible(o, s) THEN Landed(s) ELSE "none"
      OBVIOUS
    <2>2. e \in Effects
      BY <2>1 DEF Landed, Effects
    <2> QED BY <2>1, <2>2 DEF EffectStarts
  <1>3. Affected(o, s, e)
    BY <1>2, EffectWritten
  <1>4. /\ vm' \in [Vms -> Ops \cup {Free}]
        /\ \A p \in Ops : vm'[VmOf[p]] = p => vm[VmOf[p]] = p \/ (p = o /\ s = "clone" /\ e = "running")
    BY <1>2, Rows DEF VmAfter
  <1>5. Fates
    BY <1>1, <1>3, <1>4 DEF Fates, Affected
  <1>6. effect' \in [Ops -> [Steps -> Effects]]
    BY <1>3 DEF Affected
  <1> QED BY <1>1, <1>4, <1>5, <1>6, Unaltered, EnvironmentKept

\* A task ends well or badly; a failed clone may take its VM with it.
LEMMA TaskEndsKept ==
  ASSUME IInv, NEW o \in Ops, NEW s \in Steps, TaskEnds(o, s)
  PROVE  IInv'
  <1>1. UNCHANGED <<op, lock, req, sent, th>> /\ UNCHANGED rec /\ effect[o][s] = "running"
    BY DEF TaskEnds, ledger
  <1>2. PICK e \in {"ok", "failed"} : effect' = [effect EXCEPT ![o][s] = e]
    BY DEF TaskEnds
  <1>3. Affected(o, s, e)
    BY <1>2, EffectWritten DEF Effects
  <1>4. /\ vm' \in [Vms -> Ops \cup {Free}]
        /\ \A p \in Ops : vm'[VmOf[p]] = p => vm[VmOf[p]] = p
    <2>1. vm' \in {vm, [vm EXCEPT ![VmOf[o]] = Free]}
      BY DEF TaskEnds
    <2> QED BY <2>1, Rows DEF Threads
  <1>5. Fates
    BY <1>1, <1>3, <1>4 DEF Fates, Affected
  <1>6. effect' \in [Ops -> [Steps -> Effects]]
    BY <1>3 DEF Affected
  <1> QED BY <1>1, <1>4, <1>5, <1>6, Unaltered, EnvironmentKept

\* Somebody deletes a VM.
LEMMA OutsiderDeletesKept ==
  ASSUME IInv, NEW v \in Vms, OutsiderDeletes(v)
  PROVE  IInv'
  <1>1. UNCHANGED <<op, lock, req, sent, th>> /\ UNCHANGED rec /\ UNCHANGED effect
    BY DEF OutsiderDeletes, ledger
  <1>2. vm' \in [Vms -> Ops \cup {Free}] /\ \A p \in Ops : vm'[VmOf[p]] = p => vm[VmOf[p]] = p
    BY Rows DEF OutsiderDeletes
  <1>3. Fates /\ effect' \in [Ops -> [Steps -> Effects]]
    BY <1>1, <1>2, Rows DEF Fates
  <1> QED BY <1>1, <1>2, <1>3, Unaltered, EnvironmentKept

\* A lease runs out.
LEMMA LeaseExpiresKept ==
  ASSUME IInv, NEW o \in Ops, LeaseExpires(o)
  PROVE  IInv'
  <1>1. UNCHANGED <<op, lock, req, sent, th>> /\ UNCHANGED <<effect, vm>>
    BY DEF LeaseExpires, proxmox
  <1>2. rec[o] \in RecRows /\ rec \in [Ops -> RecRows]
    BY Rows
  <1>3. PICK item \in RecRows : /\ rec' = [rec EXCEPT ![o] = item]
                                /\ item.status = rec[o].status /\ item.gen = rec[o].gen
                                /\ item.phase = rec[o].phase /\ item.success = rec[o].success
                                /\ item.lockId = rec[o].lockId
    <2> DEFINE z == [rec[o] EXCEPT !.live = FALSE]
    <2>1. /\ z \in RecRows /\ z.status = rec[o].status /\ z.gen = rec[o].gen
          /\ z.phase = rec[o].phase /\ z.success = rec[o].success /\ z.lockId = rec[o].lockId
      BY <1>2 DEF RecRows
    <2>2. rec' = [rec EXCEPT ![o] = z]
      BY DEF LeaseExpires
    <2> HIDE DEF z
    <2> QED BY <2>1, <2>2
  <1>4. rec' \in [Ops -> RecRows] /\ Alike
    BY <1>2, <1>3 DEF Alike
  <1>5. /\ Fates /\ effect' \in [Ops -> [Steps -> Effects]] /\ vm' \in [Vms -> Ops \cup {Free}]
    BY <1>1, Rows DEF Fates
  <1> QED BY <1>1, <1>4, <1>5, EnvironmentKept

-----------------------------------------------------------------------------
(* Theorems. *)

\* The initial states satisfy the invariant: nothing is recorded, locked or sent.
LEMMA StartsSound ==
  ASSUME Init
  PROVE  IInv
  <1>1. PICK x \in Ops : x = CHOOSE y \in Ops : TRUE
    OBVIOUS
  <1>2. /\ \A t \in Threads : th[t] = Fresh(IF t \in Requests THEN "prepare_operation" ELSE "idle")
        /\ \A o \in Ops : /\ op[o] = NoOp /\ req[o] = "none" /\ rec[o].status = "none"
                          /\ rec[o].gen = 0 /\ rec[o].phase = "none" /\ ~rec[o].success
                          /\ rec[o].lockId = Free /\ vm[VmOf[o]] = Free
                          /\ \A s \in Steps : sent[o][s] = 0 /\ effect[o][s] = "none"
        /\ \A v \in Vms : lock[v] = Free
    BY DEF Init
  <1>3. TypeOK
    <2>0. NoOp \in OpRows
      BY DEF NoOp, OpRows
    <2>1. ASSUME NEW t \in Threads
          PROVE  th[t] \in ThreadRows
      <3>1. PICK pc \in {"prepare_operation", "idle"} : th[t] = Fresh(pc)
        BY <1>2
      <3>2. /\ "prepare_operation" \in Pcs /\ "idle" \in Pcs /\ "clone" \in Steps
            /\ 0 \in Nat /\ Free \in Requests \cup {Free}
        BY DEF Pcs, Steps
      <3>3. th[t] = [pc |-> pc, gen |-> 0, row |-> NoOp, step |-> "clone", lockId |-> Free, o |-> x]
        BY <1>1, <3>1 DEF Fresh
      <3> QED BY <2>0, <3>2, <3>3 DEF ThreadRows
    <2>2. th \in [Threads -> ThreadRows]
      BY <2>1 DEF Init
    <2> QED BY <2>0, <2>2
         DEF Init, TypeOK, ThreadRows, RecRows, RequestStatuses, Effects
  <1>4. ASSUME NEW o \in Ops
        PROVE  OperationSound(o)
    <2>1. op[o].status = "none"
      BY <1>2 DEF NoOp
    <2>2. RowsAgree(o) /\ LockKnown(o)
      BY <1>2, <2>1
         DEF RowsAgree, LockKnown, StatusesInUse, Undecided, Decided, Busy
    <2>3. MutationsInOrder(o) /\ OutcomeTrue(o)
      BY <1>2, <2>1
         DEF MutationsInOrder, OutcomeTrue, StepBuilds, NothingSent, NoEffect, Steps, Busy, Threads
    <2> QED BY <2>2, <2>3 DEF OperationSound
  <1>5. ASSUME NEW t \in Threads
        PROVE  /\ th[t].pc \in {"prepare_operation", "idle"} /\ th[t].gen = 0 /\ th[t].lockId = Free
               /\ th[t].step = "clone" /\ th[t].o \in Ops
    <2>1. PICK pc \in {"prepare_operation", "idle"} : th[t] = Fresh(pc)
      BY <1>2
    <2>2. th[t] = [pc |-> pc, gen |-> 0, row |-> NoOp, step |-> "clone", lockId |-> Free, o |-> x]
      BY <1>1, <2>1 DEF Fresh
    <2> QED BY <2>2
  <1>6. ASSUME NEW t \in Threads
        PROVE  ThreadSound(t)
    <2>1. ~Dispatched(t)
      BY <1>5 DEF Dispatched, DispatchedPcs, Sending, Unsent, Succeeding, ClosingUnsent
    <2> QED BY <1>2, <1>5, <2>1
         DEF ThreadSound, PlaceSound, Remembers, RowRead, Authorised, RequestKnown, SendsInTurn,
             SawTruly, At, ClosingUnsent, Sending, Unsent, Succeeding
  <1>7. \A t, u \in Threads : t # u => Exclusive(t, u)
    BY <1>5 DEF Exclusive, Dispatched, DispatchedPcs, Sending, Unsent, Succeeding, ClosingUnsent
  <1>8. \A v \in Vms : LockNamed(v)
    BY <1>2 DEF LockNamed
  <1> QED BY <1>3, <1>4, <1>6, <1>7, <1>8 DEF IInv, Sound

\* Every step keeps the invariant.
LEMMA StepsKeep ==
  ASSUME IInv, [Next]_vars
  PROVE  IInv'
  <1>1. ASSUME NEW t \in Requests, RequestStep(t)
        PROVE  IInv'
    BY <1>1, PrepareOperationKept, ApproveKept, CheckExistingKept, AcquireKept, PrepareSessionKept,
       ReleaseOwnKept, RecordRunningKept, DispatchPreparedKept, ArmKept, ValidateFreshKept,
       RecordNoEffectKept, CloseUnsentKept, MarkKept, SendAnsweredKept, SendLostKept,
       SendRejectedKept, RecordAnswerKept, WaitForTaskKept, PostCheckKept, RecordCloneRejectedKept,
       TellRejectedKept, CloseRejectedKept, RecordObservedKept, SucceedKept,
       PauseForReconciliationKept, TellUnconfirmedKept
       DEF RequestStep
  <1>2. ASSUME NEW t \in Observers, ObserverStep(t)
        PROVE  IInv'
    BY <1>2, ClaimUnpreparedKept, HandleKept, RecoverUnsentKept, RecoverRejectedKept,
       AdoptResultKept, AdoptSucceededKept, ObserveKept, CloseAbsentKept, PauseWorkKept,
       RetryLaterKept, AbsorbExceptionKept, ClaimWorkKept, LookUnpreparedKept
       DEF ObserverStep, HandlerStep
  <1>3. ASSUME NEW t \in Threads, Crash(t)
        PROVE  IInv'
    BY <1>3, CrashKept
  <1>4. ASSUME NEW o \in Ops, NEW s \in Steps, EffectStarts(o, s) \/ TaskEnds(o, s)
        PROVE  IInv'
    BY <1>4, EffectStartsKept, TaskEndsKept
  <1>5. ASSUME NEW v \in Vms, OutsiderDeletes(v)
        PROVE  IInv'
    BY <1>5, OutsiderDeletesKept
  <1>6. ASSUME NEW o \in Ops, LeaseExpires(o)
        PROVE  IInv'
    BY <1>6, LeaseExpiresKept
  <1>7. CASE UNCHANGED vars
    <2>1. UNCHANGED <<op, lock, req, sent, th>> /\ UNCHANGED rec /\ UNCHANGED <<effect, vm>>
      BY <1>7 DEF vars, ledger, proxmox
    <2>2. /\ Fates /\ effect' \in [Ops -> [Steps -> Effects]] /\ vm' \in [Vms -> Ops \cup {Free}]
      BY <2>1, Rows DEF Fates
    <2> QED BY <2>1, <2>2, Unaltered, EnvironmentKept
  <1> QED BY <1>1, <1>2, <1>3, <1>4, <1>5, <1>6, <1>7 DEF Next

\* The rows of operations and of threads, and what two threads owe to each other, agree in every
\* state a creation can reach: whatever requests, observers, crashes, lost leases and lost answers
\* interleave.
THEOREM CreationIsSound == Spec => []IInv
  <1>1. Init => IInv
    BY StartsSound
  <1>2. IInv /\ [Next]_vars => IInv'
    BY StepsKeep
  <1> QED BY <1>1, <1>2, PTL DEF Spec

\* Every variable keeps its type.
THEOREM TypeCorrect == Spec => []TypeOK
  <1>1. IInv => TypeOK
    BY DEF IInv
  <1> QED BY <1>1, CreationIsSound, PTL

\* No mutation is sent twice: a repeat of the request, a retry and a recovery find the operation
\* dispatched (execute_proxmox_create, run_proxmox_create).
THEOREM MutationsAreSentOnce == Spec => []EachStepOnce
  <1>1. IInv => EachStepOnce
    BY Rows DEF OperationSound, MutationsInOrder, EachStepOnce
  <1> QED BY <1>1, CreationIsSound, PTL

\* Of an operation that may still act at Proxmox the target lock is held, whoever is gone.
THEOREM ActingIsLocked == Spec => []EffectUnderLock
  <1>1. ASSUME IInv
        PROVE  EffectUnderLock
    <2>1. SUFFICES ASSUME NEW o \in Ops, MayStillAct(o)
                   PROVE  LockedBy(o)
      BY DEF EffectUnderLock
    <2>2. OperationSound(o)
      BY <1>1, Rows
    <2>3. PICK s \in Steps : effect[o][s] \in {"inflight", "running"}
      BY <2>1 DEF MayStillAct
    <2>4. sent[o][s] # 0
      BY <2>2, <2>3 DEF OperationSound, MutationsInOrder
    <2>5. ~NothingSent(o) /\ ~Whole(o)
      BY <2>3, <2>4 DEF NothingSent, Whole
    <2>6. rec[o].phase \notin {"none", "pre"} /\ ~rec[o].success
      BY <2>2, <2>5 DEF OperationSound, MutationsInOrder, OutcomeTrue
    <2>7. op[o].status \notin Undecided
      BY <2>2, <2>6 DEF OperationSound, RowsAgree
    <2>8. op[o].status \notin Decided
      BY <2>2, <2>3, <2>6 DEF OperationSound, RowsAgree, OutcomeTrue, Decided
    <2>9. op[o].status \in Busy
      BY <2>2, <2>7, <2>8 DEF OperationSound, RowsAgree, StatusesInUse
    <2> QED BY <2>2, <2>9 DEF OperationSound, LockKnown
  <1> QED BY <1>1, CreationIsSound, PTL

\* What is recorded of a creation is true of its VM: mutations build on success, a closed failure
\* leaves nothing behind, and success is whole (complete_success, _observe_without_replay).
THEOREM RecordsAreTrue == Spec => []CreationInv
  <1>1. ASSUME IInv
        PROVE  CreationInv
    <2>1. StepsBuildOnSuccess
      BY <1>1, Rows DEF OperationSound, MutationsInOrder, StepBuilds, StepsBuildOnSuccess
    <2>2. FailureLeavesNothing
      BY <1>1, Rows DEF OperationSound, OutcomeTrue, FailureLeavesNothing, MayStillAct
    <2>3. SuccessIsWhole
      BY <1>1, Rows DEF OperationSound, OutcomeTrue, SuccessIsWhole
    <2> QED BY <1>1, <2>1, <2>2, <2>3 DEF CreationInv, IInv
  <1> QED BY <1>1, CreationIsSound, PTL

-----------------------------------------------------------------------------
(* Closing is final. *)

\* Operation o is closed, and stays as it is.
Closed(o) == rec[o].status = "completed" /\ op[o].status \in Decided
Stays(o) == op'[o].status = op[o].status /\ rec'[o] = rec[o]

\* Completed work belongs to a decided operation.
LEMMA ClosedWork ==
  ASSUME IInv, NEW o \in Ops, rec[o].status = "completed"
  PROVE  Closed(o)
  BY Rows DEF Closed, OperationSound, RowsAgree

\* An event without a transition is no transition of any operation.
LEMMA EventStays ==
  ASSUME IInv, NEW o \in Ops, NEW p \in Ops, Event(p, op[p].status)
  PROVE  op'[o].status = op[o].status
  BY Rows DEF Event

\* An event of another operation neither.
LEMMA OtherEventStays ==
  ASSUME IInv, NEW o \in Ops, NEW p \in Ops, p # o, NEW to, Event(p, to)
  PROVE  op'[o].status = op[o].status
  BY Rows DEF Event

\* The row of an operation that a step leaves alone.
LEMMA OtherRowStays ==
  ASSUME IInv, NEW o \in Ops, NEW p \in Ops, p # o, NEW item, rec' = [rec EXCEPT ![p] = item]
  PROVE  rec'[o] = rec[o]
  BY Rows

\* No lease is owned on completed work.
LEMMA NoLease ==
  ASSUME IInv, NEW o \in Ops, Closed(o), NEW t \in Threads, LeaseOwned(t)
  PROVE  th[t].o # o /\ th[t].o \in Ops
  BY Rows DEF Closed, LeaseOwned, ThreadRows

\* So no checkpoint touches it.
LEMMA CheckpointStays ==
  ASSUME IInv, NEW o \in Ops, Closed(o), NEW t \in Threads, NEW to, NEW item, NEW release, NEW next,
         Checkpoint(t, to, item, release, next)
  PROVE  Stays(o)
  <1>1. LeaseOwned(t) /\ Event(th[t].o, to) /\ rec' = [rec EXCEPT ![th[t].o] = item]
    BY DEF Checkpoint, MayCommit
  <1>2. th[t].o # o /\ th[t].o \in Ops
    BY <1>1, NoLease
  <1> QED BY <1>1, <1>2, OtherEventStays, OtherRowStays DEF Stays

\* No commit of any thread changes an operation that is closed.
LEMMA CommitStays ==
  ASSUME IInv, NEW o \in Ops, Closed(o), NEW t \in Threads, NEW to, NEW item, NEW release, NEW next,
         NEW raised, Commit(t, to, item, release, next, raised)
  PROVE  Stays(o)
  BY CheckpointStays DEF Commit, Stays, ledger

\* A session is not prepared over it.
LEMMA PrepareStays ==
  ASSUME IInv, NEW o \in Ops, Closed(o), NEW t \in Threads, PrepareAndClaim(t)
  PROVE  rec'[o] = rec[o]
  <1>1. PICK p \in Ops : p = th[t].o
    BY Rows DEF ThreadRows
  <1>2. p # o
    BY <1>1 DEF PrepareAndClaim, Closed
  <1>3. \E item : rec' = [rec EXCEPT ![p] = item]
    BY <1>1 DEF PrepareAndClaim
  <1> QED BY <1>1, <1>2, <1>3, OtherRowStays

\* The steps of a request.
LEMMA RequestStays ==
  ASSUME IInv, NEW o \in Ops, Closed(o), NEW t \in Requests, RequestStep(t)
  PROVE  Stays(o)
  <1>0. t \in Threads /\ th[t].o \in Ops
    BY Rows DEF Threads, ThreadRows
  <1>1. CASE UNCHANGED <<op, rec>>
    BY <1>1 DEF Stays
  <1>2. ASSUME NEW to, NEW item, NEW release, NEW next, NEW raised,
               Commit(t, to, item, release, next, raised)
        PROVE  Stays(o)
    BY <1>0, <1>2, CommitStays
  <1>3. ASSUME NEW p \in Ops, Event(p, op[p].status), UNCHANGED rec
        PROVE  Stays(o)
    BY <1>3, EventStays DEF Stays
  <1>4. ASSUME NEW p \in Ops, NEW to, op[p].status \notin Decided, Event(p, to), UNCHANGED rec
        PROVE  Stays(o)
    BY <1>4, OtherEventStays DEF Stays, Closed
  <1>5. CASE PrepareOperation(t)
    <2>1. PICK p \in Ops :
            IF op[p].status = "none" THEN \E s \in {"awaiting_approval", "blocked"} : Event(p, s)
            ELSE UNCHANGED op
      BY <1>5 DEF PrepareOperation
    <2>2. UNCHANGED rec
      BY <1>5 DEF PrepareOperation
    <2>3. "none" \notin Decided
      BY DEF Decided
    <2> QED BY <1>1, <1>4, <2>1, <2>2, <2>3
  <1>6. CASE Approve(t)
    <2>1. UNCHANGED rec /\ "awaiting_approval" \notin Decided
      BY <1>6 DEF Approve, Decided
    <2>2. \/ UNCHANGED op
          \/ Event(th[t].o, op[th[t].o].status)
          \/ op[th[t].o].status = "awaiting_approval" /\ Event(th[t].o, "approved")
      BY <1>6 DEF Approve
    <2> QED BY <1>0, <1>1, <1>3, <1>4, <2>1, <2>2
  <1>7. CASE CheckExisting(t) \/ Acquire(t)
    BY <1>0, <1>1, <1>3, <1>7 DEF CheckExisting, Acquire
  <1>8. CASE PrepareSession(t)
    BY <1>0, <1>8, PrepareStays DEF PrepareSession, Stays
  <1>9. CASE DispatchPrepared(t)
    <2>1. UNCHANGED rec /\ "approved" \notin Decided
      BY <1>9 DEF DispatchPrepared, Decided
    <2>2. UNCHANGED op \/ (op[th[t].o].status = "approved" /\ Event(th[t].o, "dispatching"))
      BY <1>9 DEF DispatchPrepared
    <2> QED BY <1>0, <1>1, <1>4, <2>1, <2>2
  <1>10. CASE \/ ReleaseOwn(t) \/ RecordRunning(t) \/ ValidateFresh(t) \/ SendAnswered(t)
              \/ SendLost(t) \/ SendRejected(t) \/ TellUnconfirmed(t)
    BY <1>1, <1>10
       DEF ReleaseOwn, RecordRunning, ValidateFresh, SendAnswered, SendLost, SendRejected,
           TellUnconfirmed, Sends, ledger
  <1>11. CASE \/ Arm(t) \/ RecordNoEffect(t) \/ CloseUnsent(t) \/ Mark(t) \/ PostCheck(t)
              \/ RecordCloneRejected(t) \/ TellRejected(t) \/ CloseRejected(t)
              \/ RecordObserved(t) \/ PauseForReconciliation(t)
    <2>1. UNCHANGED ledger => Stays(o)
      BY <1>1 DEF ledger
    <2> QED BY <1>2, <1>11, <2>1
         DEF Arm, RecordNoEffect, CloseUnsent, Mark, PostCheck, RecordCloneRejected, TellRejected,
             CloseRejected, RecordObserved, PauseForReconciliation
  <1>12. CASE Succeed(t)
    <2>1. Checkpoint(t, "succeeded", Ended(t, "completed"), TRUE, "rest") => Stays(o)
      BY <1>0, CheckpointStays
    <2> QED BY <1>2, <1>12, <2>1 DEF Succeed
  <1>13. CASE RecordAnswer(t) \/ WaitForTask(t)
    <2>1. \/ UNCHANGED <<op, rec>>
          \/ \E item : Commit(t, Status(t), item, FALSE, "wait", "interrupted")
          \/ MayCommit(t, Status(t), FALSE) /\ Event(th[t].o, Status(t)) /\ UNCHANGED rec
      BY <1>13 DEF RecordAnswer, WaitForTask, ledger
    <2>2. MayCommit(t, Status(t), FALSE) => Status(t) = op[th[t].o].status
      BY DEF MayCommit, Status
    <2> QED BY <1>0, <1>1, <1>2, <1>3, <2>1, <2>2
  <1> QED BY <1>5, <1>6, <1>7, <1>8, <1>9, <1>10, <1>11, <1>12, <1>13 DEF RequestStep

\* The steps of an observer.
LEMMA ObserverStays ==
  ASSUME IInv, NEW o \in Ops, Closed(o), NEW t \in Observers, ObserverStep(t)
  PROVE  Stays(o)
  <1>0. t \in Threads /\ th[t].o \in Ops
    BY Rows DEF Threads, ThreadRows
  <1>1. CASE UNCHANGED <<op, rec>>
    BY <1>1 DEF Stays
  <1>2. ASSUME NEW to, NEW item, NEW release, NEW next, Checkpoint(t, to, item, release, next)
        PROVE  Stays(o)
    BY <1>0, <1>2, CheckpointStays
  <1>3. CASE ClaimUnprepared(t)
    BY <1>0, <1>3, PrepareStays DEF ClaimUnprepared, Stays
  <1>4. CASE \/ Handle(t) \/ RecoverUnsent(t) \/ RecoverRejected(t) \/ AdoptResult(t)
             \/ AdoptSucceeded(t) \/ Observe(t) \/ CloseAbsent(t) \/ RetryLater(t)
    BY <1>1, <1>2, <1>4
       DEF Handle, RecoverUnsent, RecoverRejected, AdoptResult, AdoptSucceeded, Observe, CloseAbsent,
           RetryLater, Observed, ledger
  <1>5. ASSUME NEW to, NEW item, LeaseOwned(t), Event(th[t].o, to),
               rec' = [rec EXCEPT ![th[t].o] = item]
        PROVE  Stays(o)
    <2>1. th[t].o # o
      BY <1>0, <1>5, NoLease
    <2> QED BY <1>0, <1>5, <2>1, OtherEventStays, OtherRowStays DEF Stays
  <1>6. CASE PauseWork(t)
    <2>1. /\ LeaseOwned(t) /\ Event(th[t].o, PauseStatus(Status(t)))
          /\ rec' = [rec EXCEPT ![th[t].o] = Ended(t, "paused")]
      BY <1>6 DEF PauseWork, MayCommit
    <2> QED BY <1>5, <2>1
  <1>7. CASE AbsorbException(t)
    <2>1. \/ UNCHANGED <<op, rec>>
          \/ /\ LeaseOwned(t) /\ Event(th[t].o, op[th[t].o].status)
             /\ rec' = [rec EXCEPT ![th[t].o] = Ended(t, RetryStatus(th[t].o))]
      BY <1>7 DEF AbsorbException
    <2> QED BY <1>1, <1>5, <2>1
  <1>8. ASSUME NEW p \in Ops, ClaimWork(t, p)
        PROVE  Stays(o)
    <2>1. p # o
      BY <1>8 DEF ClaimWork, Closed
    <2>2. UNCHANGED op /\ rec'[o] = rec[o]
      BY <1>8, <2>1, Rows DEF ClaimWork
    <2> QED BY <2>2 DEF Stays
  <1>9. ASSUME NEW p \in Ops, LookUnprepared(t, p)
        PROVE  Stays(o)
    BY <1>1, <1>9 DEF LookUnprepared, ledger
  <1> QED BY <1>3, <1>4, <1>6, <1>7, <1>8, <1>9 DEF ObserverStep, HandlerStep

\* A closed creation stays closed: no late request, replay, observer, crash or expiry moves its
\* operation or its recovery row again (commit_observation, prepare_and_claim).
THEOREM ClosingIsFinal == Spec => ClosedIsFinal
  <1>1. ASSUME IInv, [Next]_vars, NEW o \in Ops, rec[o].status = "completed"
        PROVE  Stays(o)
    <2>1. Closed(o)
      BY <1>1, ClosedWork
    <2>2. CASE \E t \in Requests : RequestStep(t)
      BY <1>1, <2>1, <2>2, RequestStays
    <2>3. CASE \E t \in Observers : ObserverStep(t)
      BY <1>1, <2>1, <2>3, ObserverStays
    <2>4. CASE UNCHANGED <<op, rec>>
      BY <2>4 DEF Stays
    <2>5. ASSUME NEW p \in Ops, LeaseExpires(p)
          PROVE  Stays(o)
      <3>1. p # o
        BY <2>1, <2>5 DEF LeaseExpires, Closed
      <3>2. UNCHANGED op /\ rec'[o] = rec[o]
        BY <1>1, <2>5, <3>1, Rows DEF LeaseExpires
      <3> QED BY <3>2 DEF Stays
    <2>6. CASE \E t \in Threads : Crash(t)
      BY <2>4, <2>6 DEF Crash, ledger
    <2>7. CASE \E p \in Ops, s \in Steps : EffectStarts(p, s) \/ TaskEnds(p, s)
      BY <2>4, <2>7 DEF EffectStarts, TaskEnds, ledger
    <2>8. CASE \E v \in Vms : OutsiderDeletes(v)
      BY <2>4, <2>8 DEF OutsiderDeletes, ledger
    <2>9. CASE UNCHANGED vars
      BY <2>4, <2>9 DEF vars, ledger
    <2> QED BY <1>1, <2>2, <2>3, <2>5, <2>6, <2>7, <2>8, <2>9 DEF Next
  <1>2. IInv /\ [Next]_vars =>
          [\A o \in Ops : rec[o].status = "completed" =>
             op'[o].status = op[o].status /\ rec'[o] = rec[o]]_vars
    BY <1>1 DEF Stays
  <1> QED BY <1>2, CreationIsSound, PTL DEF Spec, ClosedIsFinal

=============================================================================
