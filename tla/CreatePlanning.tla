---------------------------- MODULE CreatePlanning ----------------------------
(***************************************************************************)
(* Planning, review and admission of VM Create.  A plan is calculated from *)
(* an inventory that may be some seconds old; the operator reviews it; the *)
(* execution recalculates it twice, once to compare with the review and    *)
(* once more from a fresh inventory just before the clone is sent.  What   *)
(* happens from the clone on is module VmCreate; here the request runs     *)
(* between two awaits of one event loop, which makes Arm one step.         *)
(***************************************************************************)
EXTENDS Naturals, FiniteSets

CONSTANTS Jobs, Vmids, Templates, Calls, None,
          Asked,      \* the VMIDs drafts ask for, None for Proxmox's next one
          MaxChanges, \* bound: changes of Proxmox by others, and incomplete readings of it
          MaxShown    \* bound: plans under review

VARIABLES world,     \* what Proxmox would answer now
          snapshot,  \* the cached inventory
          shown,     \* plans an operator was shown
          op,        \* operation of a job: status and the plan whose digest it carries
          request,   \* the creation request of a job: status and stored plan
          lock,      \* durable lock of a VMID
          call,      \* executions in progress
          sent,      \* clones sent, with what was true then
          changes

vars == <<world, snapshot, shown, op, request, lock, call, sent, changes>>

Free == CHOOSE v \in Vmids \ world.vms : \A w \in Vmids \ world.vms : v <= w

\* The VMID of a draft: the one asked for, or Proxmox's next one.
DraftVmid(asked) == IF asked # None THEN asked ELSE Free

\* Target checks: node, storage, bridge, name and VMID; the VMID stands for them.
TargetRisks(v, inv) == IF v \in inv.vms THEN {"vmid_collision"} ELSE {}

\* Sources that could not be read; of guest agents this is a warning only.
SourceRisks(inv) ==
  (IF inv.guests THEN {} ELSE {"guest_agent_incomplete"}) \cup (IF inv.whole THEN {} ELSE {"inventory_incomplete"})

\* A static address is in use or its use is unverified; both are risks.
AddressRisks(answers) == {IF answers THEN "static_ip_unavailable" ELSE "static_ip_usage_unverified"}

Risks(v, inv) == TargetRisks(v, inv) \cup SourceRisks(inv) \cup AddressRisks(world.answers)

\* The selected template with what it is reviewed to hold.
TemplateOf(inv) == inv.template

Red == {"vmid_collision", "static_ip_unavailable", "inventory_incomplete"}
Level(risks) == IF risks \cap Red # {} THEN "red" ELSE IF risks # {} THEN "yellow" ELSE "green"

\* Guest agents come and go; their failures stay outside the exact plan.
Listed(risks) == risks \ {"guest_agent_incomplete"}

\* The plan of a draft: configuration, risk level and listed risks.
PlanOf(j, v, inv) ==
  [job |-> j, vmid |-> v, template |-> TemplateOf(inv), level |-> Level(Risks(v, inv)),
   risks |-> Listed(Risks(v, inv))]

Plans == [job : Jobs, vmid : Vmids, template : Templates, level : {"red", "yellow", "green"},
          risks : SUBSET (Red \cup {"static_ip_usage_unverified"})]

NoCall == [pc |-> "idle", job |-> None, asked |-> None, plan |-> None, seen |-> None, ack |-> FALSE,
           after |-> FALSE, out |-> None, facts |-> None]

\* What the operator's plan was calculated from.
Facts == [inv |-> snapshot, answers |-> world.answers]

Init ==
  LET t == CHOOSE x \in Templates : TRUE IN
    /\ world = [vms |-> {}, template |-> t, guests |-> TRUE, answers |-> FALSE]
    /\ snapshot = [vms |-> {}, template |-> t, guests |-> TRUE, whole |-> TRUE]
    /\ shown = {} /\ sent = {} /\ changes = 0
    /\ op = [j \in Jobs |-> [status |-> "none", plan |-> None]]
    /\ request = [j \in Jobs |-> [status |-> "none", plan |-> None]]
    /\ lock = [v \in Vmids |-> None]
    /\ call = [c \in Calls |-> NoCall]

\* Wrong: a changed plan takes the operation over.
SamePlanNever(j, plan) == TRUE
\* The operation's intent and plan digest never change.
SamePlan(j, plan) == op[j].status = "none" \/ op[j].plan = plan

Prepared(j, plan) ==
  IF op[j].status # "none" THEN op[j]
  ELSE [status |-> IF plan.level = "red" THEN "blocked" ELSE "awaiting_approval", plan |-> plan]

\* Red never passes, yellow only acknowledged.
Gate(level, ack) == level = "green" \/ (level = "yellow" /\ ack)

\* The review's identity is the plan's.
Passes(plan, seen, ack) == seen = plan /\ Gate(plan.level, ack)

\* Approval of a prepared operation: it opens once, and later repeats do not reopen it.
Approved(o) == IF o.status = "awaiting_approval" THEN [o EXCEPT !.status = "approved"] ELSE o
MayApprove(o) == o.status \in {"awaiting_approval", "approved", "dispatching", "running", "succeeded",
                               "needs_reconciliation"}

\* The reviews a caller can name: plans of the job it was shown.
Reviews(j) == {s \in shown : s.job = j}

\* An operator asks for the plan and is shown it.
PlanDraft(j, asked) ==
  /\ asked # None \/ world.vms # Vmids
  /\ LET plan == PlanOf(j, DraftVmid(asked), snapshot) IN
       /\ SamePlan(j, plan)
       /\ op' = [op EXCEPT ![j] = Prepared(j, plan)]
       /\ Cardinality(shown \cup {plan}) <= MaxShown
       /\ shown' = shown \cup {plan}
  /\ UNCHANGED <<world, snapshot, request, lock, call, sent, changes>>

\* An operator approves a plan, or has it previewed, ahead of its execution.
ApproveDraft(j, asked, seen, ack) ==
  /\ asked # None \/ world.vms # Vmids
  /\ LET plan == PlanOf(j, DraftVmid(asked), snapshot)
         o == Prepared(j, plan)
     IN /\ SamePlan(j, plan)
        /\ op' = [op EXCEPT ![j] = IF Passes(plan, seen, ack) THEN Approved(o) ELSE o]
  /\ UNCHANGED <<world, snapshot, shown, request, lock, call, sent, changes>>

Completed(j) == request[j].status = "completed"

\* A created VM collides with itself, so a replay compares configuration only.
ReplayMatches(j, plan) ==
  plan.vmid = request[j].plan.vmid /\ plan.template = request[j].plan.template

\* The plan of an execution, calculated in a worker thread.
Build(c, j, asked, seen, ack) ==
  /\ call[c].pc = "idle"
  /\ LET v == IF asked = None /\ Completed(j) THEN request[j].plan.vmid ELSE DraftVmid(asked)
         plan == PlanOf(j, v, snapshot)
         kept == IF Completed(j) THEN request[j].plan ELSE plan
     IN call' = [call EXCEPT ![c] =
          [pc |-> IF Completed(j) /\ ~ReplayMatches(j, plan) THEN "done" ELSE "built",
           job |-> j, asked |-> asked, plan |-> kept, seen |-> seen, ack |-> ack, after |-> Completed(j),
           out |-> IF Completed(j) /\ ~ReplayMatches(j, plan) THEN "conflict" ELSE None, facts |-> Facts]]
  /\ UNCHANGED <<world, snapshot, shown, op, request, lock, sent, changes>>

Execute(c) ==
  \E j \in Jobs, asked \in Asked :
    /\ asked # None \/ world.vms # Vmids \/ Completed(j)
    /\ \E seen \in Reviews(j), ack \in BOOLEAN : Build(c, j, asked, seen, ack)

End(c, out) ==
  call' = [call EXCEPT ![c] = IF @.after THEN [@ EXCEPT !.pc = "done", !.out = out]
                              ELSE [NoCall EXCEPT !.pc = "done", !.out = out]]

\* Another request that owns the VMID: running or unresolved.
TargetTaken(j, v) ==
  \E k \in Jobs \ {j} : request[k].status = "running" /\ request[k].plan.vmid = v

MayTake(j, v) == ~TargetTaken(j, v) /\ lock[v] = None

\* Approval gate, idempotency, target guard, lock and running request, up to the next await.
Arm(c) ==
  LET j == call[c].job
      plan == call[c].plan
      o == Prepared(j, plan)
      pass == Passes(plan, call[c].seen, call[c].ack)
  IN
  /\ call[c].pc = "built"
  /\ \/ ~SamePlan(j, plan) /\ End(c, "conflict") /\ UNCHANGED <<op, request, lock>>
     \/ /\ SamePlan(j, plan) /\ ~pass
        /\ op' = [op EXCEPT ![j] = o] /\ End(c, "gated") /\ UNCHANGED <<request, lock>>
     \/ /\ SamePlan(j, plan) /\ pass /\ ~MayApprove(o)
        /\ End(c, "conflict") /\ UNCHANGED <<op, request, lock>>
     \/ /\ SamePlan(j, plan) /\ pass /\ MayApprove(o)
        /\ \/ Completed(j) /\ End(c, "replayed") /\ UNCHANGED <<op, request, lock>>
           \/ /\ request[j].status = "running" \/ (request[j].status = "none" /\ ~MayTake(j, plan.vmid))
              /\ op' = [op EXCEPT ![j] = Approved(o)] /\ End(c, "blocked") /\ UNCHANGED <<request, lock>>
           \/ /\ request[j].status = "none" /\ MayTake(j, plan.vmid)
              /\ lock' = [lock EXCEPT ![plan.vmid] = j]
              /\ request' = [request EXCEPT ![j] = [status |-> "running", plan |-> plan]]
              /\ op' = [op EXCEPT ![j] = [Approved(o) EXCEPT !.status = "dispatching"]]
              /\ call' = [call EXCEPT ![c].pc = "armed", ![c].asked = None]
  /\ UNCHANGED <<world, snapshot, shown, sent, changes>>

\* The inventory a dispatch is validated against is read for it, all of it but guest agents.
FreshInventory == [vms |-> world.vms, template |-> world.template, guests |-> world.guests, whole |-> TRUE]

\* Wrong: the cached inventory is good enough.
ValidCached(j, plan) ==
  LET again == PlanOf(j, plan.vmid, snapshot) IN again.level # "red" /\ again = plan
\* Nothing the review showed has changed, for the approved VMID.
Valid(j, plan) ==
  LET again == PlanOf(j, plan.vmid, FreshInventory) IN again.level # "red" /\ again = plan

\* A failure before the clone closes operation, request and lock.
CloseUnsent(c, out, facts) ==
  LET j == call[c].job IN
  /\ call' = [call EXCEPT ![c] = [NoCall EXCEPT !.pc = "done", !.out = out, !.facts = facts]]
  /\ op' = [op EXCEPT ![j].status = "failed"]
  /\ request' = [request EXCEPT ![j].status = "failed"]
  /\ lock' = [lock EXCEPT ![call[c].plan.vmid] = None]

\* What was reviewed holds, or has changed, or could not be seen: the inventory is not read whole,
\* a record, a heartbeat or the client fails.  That the creation failed may then not be recorded
\* either, and it stays unresolved for its recovery.
Validate(c) ==
  LET j == call[c].job
      plan == call[c].plan
  IN
  /\ call[c].pc = "armed"
  /\ \/ /\ Valid(j, plan)
        /\ call' = [call EXCEPT ![c].pc = "valid", ![c].facts = None]
        /\ sent' = sent \cup {[job |-> j, plan |-> plan, seen |-> call[c].seen, ack |-> call[c].ack,
                               now |-> Listed(Risks(plan.vmid, FreshInventory)),
                               template |-> world.template]}
        /\ UNCHANGED <<op, request, lock>>
     \/ /\ ~Valid(j, plan)
        /\ CloseUnsent(c, "changed",
             [was |-> call[c].facts, inv |-> FreshInventory, answers |-> world.answers])
        /\ UNCHANGED sent
     \/ CloseUnsent(c, "unavailable", None) /\ UNCHANGED sent
     \/ End(c, "unknown") /\ UNCHANGED <<op, request, lock, sent>>
  /\ UNCHANGED <<world, snapshot, shown, changes>>

\* Proxmox makes the clone, or refuses a VMID that was taken meanwhile.
Clone(c) ==
  LET j == call[c].job
      v == call[c].plan.vmid
  IN
  /\ call[c].pc = "valid"
  /\ \/ /\ v \notin world.vms
        /\ world' = [world EXCEPT !.vms = @ \cup {v}]
        /\ op' = [op EXCEPT ![j].status = "running"]
        /\ call' = [call EXCEPT ![c].pc = "created"]
        /\ UNCHANGED <<request, lock>>
     \/ /\ v \in world.vms
        /\ op' = [op EXCEPT ![j].status = "failed"]
        /\ request' = [request EXCEPT ![j].status = "failed"]
        /\ lock' = [lock EXCEPT ![v] = None]
        /\ End(c, "refused") /\ UNCHANGED world
  /\ UNCHANGED <<snapshot, shown, sent, changes>>

\* The rest of the creation, to its verified end or to reconciliation.
Complete(c) ==
  LET j == call[c].job IN
  /\ call[c].pc = "created"
  /\ \/ /\ op' = [op EXCEPT ![j].status = "succeeded"]
        /\ request' = [request EXCEPT ![j].status = "completed"]
        /\ lock' = [lock EXCEPT ![call[c].plan.vmid] = None]
        /\ End(c, "created")
     \/ /\ op' = [op EXCEPT ![j].status = "needs_reconciliation"]
        /\ End(c, "unknown") /\ UNCHANGED <<request, lock>>
  /\ UNCHANGED <<world, snapshot, shown, sent, changes>>

\* A finished call makes room for the next.
Return(c) ==
  /\ call[c].pc = "done" /\ call' = [call EXCEPT ![c] = NoCall]
  /\ UNCHANGED <<world, snapshot, shown, op, request, lock, sent, changes>>

\* Others create and delete VMs, replace the template, use the address.
Change ==
  /\ changes < MaxChanges /\ changes' = changes + 1
  /\ \/ \E v \in Vmids :
          world' = [world EXCEPT !.vms = IF v \in @ THEN @ \ {v} ELSE @ \cup {v}]
     \/ \E t \in Templates \ {world.template} : world' = [world EXCEPT !.template = t]
     \/ world' = [world EXCEPT !.guests = ~@]
     \/ world' = [world EXCEPT !.answers = ~@]
  /\ UNCHANGED <<snapshot, shown, op, request, lock, call, sent>>

\* The inventory cache expires.  Requests are turned away while it is incomplete, but one that has
\* passed may meet the next reading, whose template is then what could be read of it.
Refresh ==
  /\ \/ snapshot' = FreshInventory /\ UNCHANGED changes
     \/ /\ changes < MaxChanges /\ changes' = changes + 1
        /\ \E t \in Templates : snapshot' = [FreshInventory EXCEPT !.template = t, !.whole = FALSE]
  /\ UNCHANGED <<world, shown, op, request, lock, call, sent>>

Next ==
  \/ \E j \in Jobs, asked \in Asked :
       \/ PlanDraft(j, asked)
       \/ \E seen \in Reviews(j), ack \in BOOLEAN : ApproveDraft(j, asked, seen, ack)
  \/ \E c \in Calls : Execute(c) \/ Arm(c) \/ Validate(c) \/ Clone(c) \/ Complete(c) \/ Return(c)
  \/ Change \/ Refresh

Spec == Init /\ [][Next]_vars

-----------------------------------------------------------------------------
Inventories == [vms : SUBSET Vmids, template : Templates, guests : BOOLEAN, whole : BOOLEAN]
Readings == [inv : Inventories, answers : BOOLEAN]

TypeOK ==
  /\ world \in [vms : SUBSET Vmids, template : Templates, guests : BOOLEAN, answers : BOOLEAN]
  /\ snapshot \in Inventories /\ shown \subseteq Plans
  /\ op \in [Jobs -> [status : {"none", "blocked", "awaiting_approval", "approved", "dispatching", "running",
                                "failed", "succeeded", "needs_reconciliation"}, plan : Plans \cup {None}]]
  /\ request \in [Jobs -> [status : {"none", "running", "failed", "completed"}, plan : Plans \cup {None}]]
  /\ lock \in [Vmids -> Jobs \cup {None}]
  /\ call \in [Calls -> [pc : {"idle", "built", "armed", "valid", "created", "done"}, job : Jobs \cup {None},
                         asked : Asked \cup {None}, plan : Plans \cup {None}, seen : Plans \cup {None},
                         ack : BOOLEAN, after : BOOLEAN,
                         out : {None, "conflict", "gated", "replayed", "blocked", "changed", "unavailable", "refused",
                                "created", "unknown"},
                         facts : {None} \cup Readings \cup [was : Readings, inv : Inventories, answers : BOOLEAN]]]
  /\ \A s \in sent : s.job \in Jobs /\ s.plan \in Plans

\* Every clone sent is the plan an operator was shown and, as every plan has
\* some risk, acknowledged; at its fresh validation the VMID was free and the
\* template and the risks were those of the review, however old the inventory
\* of the plan was (_validate_fresh_create_state).
DispatchIsReviewed ==
  \A s \in sent :
    /\ s.seen = s.plan /\ s.plan \in shown /\ s.ack /\ s.plan = op[s.job].plan
    /\ s.now = s.plan.risks /\ s.now \cap Red = {} /\ s.template = s.plan.template

\* Two creations are never under way for one VMID: the request table and the
\* target lock keep the second out until the first is resolved, and one job
\* sends one clone (_existing_vm_create_result_if_blocked).
OneCreationPerVmid ==
  /\ \A c, d \in Calls :
       (c # d /\ {call[c].pc, call[d].pc} \subseteq {"armed", "valid", "created"})
         => call[c].plan.vmid # call[d].plan.vmid
  /\ \A j, k \in Jobs :
       (j # k /\ {op[j].status, op[k].status} \subseteq {"dispatching", "running", "needs_reconciliation"})
         => op[j].plan.vmid # op[k].plan.vmid
  /\ \A s, t \in sent : s.job = t.job => s = t

\* A completed creation repeated with the same review is answered with its
\* result although its VM now collides with itself and its address may answer
\* (_build_execution_plan: only observational risk is excluded).
CompletedIsReplayed ==
  \A c \in Calls :
    LET a == call[c] IN
    (a.pc = "done" /\ a.after /\ a.out # "replayed")
      => \/ a.facts.inv.template # request[a.job].plan.template
         \/ a.asked \notin {None, request[a.job].plan.vmid}
         \/ a.seen # request[a.job].plan \/ ~a.ack

\* A creation is refused as changed (PROXMOX_CREATE_STATE_CHANGED) only because
\* something the review showed has changed: guest agents that stop or start
\* answering are no such reason (_risk_summary leaves them out), nor is an
\* inventory that could not be read, which is told as what it is.
RefusedForCause ==
  \A c \in Calls :
    (call[c].pc = "done" /\ call[c].out = "changed")
      => LET f == call[c].facts IN
         \/ f.was.inv.vms # f.inv.vms \/ f.was.inv.template # f.inv.template
         \/ f.was.answers # f.answers

\* What is sent, how often, and what is refused: a creation is dispatched as it was reviewed,
\* once per VMID, replayed when it is done, and refused as changed only when it is.
PlanningInv ==
  TypeOK /\ DispatchIsReviewed /\ OneCreationPerVmid /\ CompletedIsReplayed /\ RefusedForCause

-----------------------------------------------------------------------------
(* The inductive invariant. *)

\* The plan a reading gives: guest agents show in none.
Calculated(j, v, reading) ==
  [job |-> j, vmid |-> v, template |-> reading.inv.template,
   level |-> IF v \in reading.inv.vms \/ reading.answers \/ ~reading.inv.whole THEN "red" ELSE "yellow",
   risks |-> (IF v \in reading.inv.vms THEN {"vmid_collision"} ELSE {})
              \cup (IF reading.inv.whole THEN {} ELSE {"inventory_incomplete"})
              \cup AddressRisks(reading.answers)]

Early == {"none", "blocked", "awaiting_approval", "approved"}
Active == {"armed", "valid", "created"}

\* An operation and its request tell the same story, of one plan that was acknowledged.
OpSound(j) ==
  /\ op[j].status # "none" => op[j].plan \in Plans
  /\ request[j].status = "none" <=> op[j].status \in Early
  /\ request[j].status = "running" <=> op[j].status \in {"dispatching", "running", "needs_reconciliation"}
  /\ request[j].status = "completed" <=> op[j].status = "succeeded"
  /\ request[j].status # "none" => request[j].plan = op[j].plan /\ op[j].plan.level = "yellow"

\* A VMID is locked by the creation that is under way for it.
LocksSound ==
  \A v \in Vmids, j \in Jobs :
    lock[v] = j <=> (request[j].status = "running" /\ request[j].plan.vmid = v)

\* What an execution tells by where it stands.
CallSound(a) ==
  /\ a.pc \in {"built"} \cup Active => a.job \in Jobs /\ a.plan \in Plans
  /\ a.pc \in {"built", "armed"} => a.seen \in shown
  /\ a.pc \in {"built", "armed"} /\ ~a.after =>
       a.facts \in Readings /\ a.plan = Calculated(a.job, a.plan.vmid, a.facts)
  /\ a.pc = "built" /\ a.after => Completed(a.job) /\ a.plan = request[a.job].plan
  /\ a.pc \in Active =>
       /\ ~a.after /\ request[a.job].plan = a.plan
       /\ op[a.job].status = IF a.pc = "created" THEN "running" ELSE "dispatching"
  /\ a.pc = "armed" => a.seen = a.plan /\ a.ack /\ \A s \in sent : s.job # a.job
  /\ a.pc = "done" /\ a.after => a.job \in Jobs /\ Completed(a.job)

\* One execution at most goes on with a creation, which is sent once.
OneAtATime ==
  /\ \A c, d \in Calls : (c # d /\ {call[c].pc, call[d].pc} \subseteq Active) => call[c].job # call[d].job
  /\ \A s \in sent : request[s.job].status # "none"
  /\ \A s, t \in sent : s.job = t.job => s = t

IInv ==
  /\ TypeOK /\ DispatchIsReviewed /\ CompletedIsReplayed /\ RefusedForCause /\ LocksSound /\ OneAtATime
  /\ \A j \in Jobs : OpSound(j)
  /\ \A c \in Calls : CallSound(call[c])

=============================================================================
