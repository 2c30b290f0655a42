------------------------------- MODULE Ledger -------------------------------
(***************************************************************************)
(* The durable ledger of the managed changes that are admitted in a single *)
(* transaction: operation, recovery work and target locks appear together  *)
(* and from then on move together, under one lease.                        *)
(*                                                                         *)
(*   op[o]    status, version, how many of its requests were recorded as   *)
(*            about to be sent (mutation_dispatched, reload_dispatched,    *)
(*            build_stage) and of how many the answer was recorded (the    *)
(*            task reference, or the acknowledgement);                     *)
(*   rec[o]   work status, lease generation and whether the lease lives;   *)
(*   lock[l]  the operation that owns the open lock of a resource.         *)
(*                                                                         *)
(* A change may need several locks (Scope): vm_clone and vm_restore take   *)
(* that of the source and that of the new VM, a host change the            *)
(* configuration lock of the cluster.                                      *)
(***************************************************************************)
EXTENDS Naturals, FiniteSets, OperationCore

CONSTANTS Ops,    \* operations (= idempotency keys)
          Locks,  \* lockable resources, numbered as vmids are
          Scope,  \* the resources an operation locks
          Free    \* no owner

ASSUME LedgerAssumption ==
  /\ Locks \subseteq Nat
  /\ Scope \in [Ops -> (SUBSET Locks) \ {{}}]
  /\ Free \notin Ops

VARIABLES op, rec, lock

WorkStatuses == {"none", "leased", "retry_wait", "paused", "completed"}
OpRows == [status : OperationStatuses \cup {"none"}, version : Nat, sent : Nat, bound : Nat]
RecRows == [status : WorkStatuses, gen : Nat, live : BOOLEAN]

LedgerTypeOK ==
  /\ op \in [Ops -> OpRows]
  /\ rec \in [Ops -> RecRows]
  /\ lock \in [Locks -> Ops \cup {Free}]

NoRow == [status |-> "none", version |-> 0, sent |-> 0, bound |-> 0]

LedgerInit ==
  /\ op = [o \in Ops |-> NoRow]
  /\ rec = [o \in Ops |-> [status |-> "none", gen |-> 0, live |-> FALSE]]
  /\ lock = [l \in Locks |-> Free]

HoldsScope(o) == \A l \in Scope[o] : lock[l] = o

\* The end of an admission transaction: locks, operation and claimed recovery work.
Admitted(o, status) ==
  /\ op' = [op EXCEPT ![o] = [NoRow EXCEPT !.status = status, !.version = 1]]
  /\ rec' = [rec EXCEPT ![o] = [status |-> "leased", gen |-> 1, live |-> TRUE]]
  /\ lock' = [l \in Locks |-> IF l \in Scope[o] THEN o ELSE lock[l]]

Owns(o, g) == rec[o].status = "leased" /\ rec[o].live /\ rec[o].gen = g

Unlocked(o) == [l \in Locks |-> IF lock[l] = o THEN Free ELSE lock[l]]

\* commit_observation: the lease, the expected row, the transition, the exact locks.
MayMove(o, g, seen, row, release) ==
  /\ Owns(o, g)
  /\ op[o] = seen
  /\ MayTransition(seen.status, row.status)
  /\ release \/ (row.status = "needs_reconciliation" /\ seen.status # row.status) => HoldsScope(o)

Bumped(row) == [row EXCEPT !.version = @ + 1]

\* Event, status, details, recovery work and locks in one transaction.
Move(o, g, seen, row, work, release) ==
  /\ MayMove(o, g, seen, row, release)
  /\ op' = [op EXCEPT ![o] = Bumped(row)]
  /\ rec' = [rec EXCEPT ![o].status = work, ![o].live = (work = "leased")]
  /\ lock' = IF release THEN Unlocked(o) ELSE lock

Due(o) == rec[o].status = "retry_wait" \/ (rec[o].status = "leased" /\ ~rec[o].live)
Claim(o) == rec' = [rec EXCEPT ![o].status = "leased", ![o].gen = @ + 1, ![o].live = TRUE]

=============================================================================
