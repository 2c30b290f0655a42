--------------------------- MODULE TargetMutation ---------------------------
(***************************************************************************)
(* What the coordination promises of every managed VM mutation, with no    *)
(* word about leases, Jobs or threads (project-docs/architecture.md,       *)
(* section 7): one operation at a time holds a VM; a mutation is sent at   *)
(* most once and only by the holder; and the VM is given up only before    *)
(* anything was sent, or once the outcome has been settled.                *)
(***************************************************************************)
CONSTANTS Ops, Vms, VmOf, Nobody

VARIABLES holder,   \* holder[v]: the operation that owns the VM
          fate      \* fate[o]: "unsent", "sent" (its effect is uncertain) or "settled"

vars == <<holder, fate>>

Init ==
  /\ holder = [v \in Vms |-> Nobody]
  /\ fate = [o \in Ops |-> "unsent"]

Holds(o) == holder[VmOf[o]] = o

\* A replay of a settled operation may take the VM again, only to give it back.
Grant(o) ==
  /\ holder[VmOf[o]] = Nobody /\ fate[o] # "sent"
  /\ holder' = [holder EXCEPT ![VmOf[o]] = o]
  /\ UNCHANGED fate

Send(o) ==
  /\ Holds(o) /\ fate[o] = "unsent"
  /\ fate' = [fate EXCEPT ![o] = "sent"]
  /\ UNCHANGED holder

\* From "unsent": closed without effect.  An operation the holder of the VM excluded is
\* closed without ever holding it.
Settle(o) ==
  /\ fate[o] = "sent" => Holds(o)
  /\ fate[o] # "settled" /\ fate' = [fate EXCEPT ![o] = "settled"]
  /\ UNCHANGED holder

GiveUp(o) ==
  /\ Holds(o) /\ fate[o] # "sent"
  /\ holder' = [holder EXCEPT ![VmOf[o]] = Nobody]
  /\ UNCHANGED fate

\* The transaction that closes an unsent operation may release its VM as well.
SettleAndGiveUp(o) ==
  /\ Holds(o) /\ fate[o] = "unsent"
  /\ fate' = [fate EXCEPT ![o] = "settled"]
  /\ holder' = [holder EXCEPT ![VmOf[o]] = Nobody]

Next == \E o \in Ops : Grant(o) \/ Send(o) \/ Settle(o) \/ GiveUp(o) \/ SettleAndGiveUp(o)

Spec == Init /\ [][Next]_vars

=============================================================================
