----------------------------- MODULE HostBridge -----------------------------
(***************************************************************************)
(* One change of a Linux bridge of a node.  Proxmox keeps a pending copy   *)
(* of the node's network configuration and reloads all of it at once, for  *)
(* whoever edited it: the lock of Gjallar does not hold others back.  The  *)
(* change is staged, looked at twice, reloaded and looked at again.        *)
(* Recovery only looks.  Admission, rival operations and the locks of VM   *)
(* changes are in ManagedChange; here there is one operation, and others   *)
(* who edit, revert and reload the same configuration.                     *)
(***************************************************************************)
EXTENDS Naturals

CONSTANTS None,
          MaxEdits,  \* bound: steps of others
          MaxClaims  \* bound: times the recovery row is claimed

VARIABLES net,      \* the node: live and pending configuration, task, request on its way
          review,   \* the configuration the operator reviewed
          op,       \* the operation with its details and its lock
          rec,      \* its recovery row
          act,      \* the request and the recovery handler
          history   \* edits of others, reloads sent and what they applied

vars == <<net, review, op, rec, act, history>>

Actors == {"request", "handler"}

\* What may change of a bridge (autostart, VLANs) and what must not (ports, method, MTU).
Bridges == [set : {"before", "wanted", "foreign"}, kept : {"own", "foreign"}]
Configs == [bridge : Bridges \cup {None}, others : {"before", "foreign"}]

RequestPcs == {"review", "recheck", "stage", "ack", "lookStaged", "verified", "lookLatest",
               "reload", "bind"}
VerifyPcs == {"task", "look", "verifying", "succeed", "pause", "retry"}

TypeOK ==
  /\ net \in [live : Configs, pending : Configs \cup {None}, sending : {None, "stage", "reload"},
              task : {None, "running", "ok", "failed"}]
  /\ review \in Configs
  /\ op \in [status : {"none", "planned", "dispatching", "running", "verifying", "succeeded", "blocked",
                       "needs_reconciliation"},
             acked : BOOLEAN, reloading : BOOLEAN, bound : BOOLEAN,
             staged : {None, "own", "foreign"}, locked : BOOLEAN]
  /\ rec \in [status : {"none", "leased", "retry_wait", "paused", "completed"}, gen : 0..MaxClaims]
  /\ act \in [Actors -> [pc : {"idle", "load", "close"} \cup RequestPcs \cup VerifyPcs,
                         gen : 0..MaxClaims, staged : {None, "own", "foreign"}]]
  /\ history \in [edits : 0..MaxEdits, unseen : BOOLEAN, reloads : Nat, final : Configs \cup {None},
                  applied : SUBSET [from : Configs, to : Configs, unseen : BOOLEAN]]

\* Proxmox answers with the pending copy, if there is one, and with its difference to the live one.
Rows == IF net.pending = None THEN net.live ELSE net.pending
Changes == net.pending # None /\ net.pending # net.live

\* The bridge and everything else are as reviewed, but for what was asked for.
Matches(c) ==
  /\ c.bridge # None /\ c.bridge.set = "wanted"
  /\ review.bridge # None => c.bridge.kept = review.bridge.kept
  /\ c.others = review.others

\* Wrong: the fingerprints decide, whatever the difference says.
DiffAllowedAny(from, to) == TRUE
\* assert_pending_diff: only directives of the bridge that may change differ.
DiffAllowed(from, to) ==
  /\ from.others = to.others
  /\ IF from.bridge = None THEN review.bridge = None /\ to.bridge.kept = "own"
     ELSE from.bridge.kept = to.bridge.kept

StagedAsReviewed == Matches(Rows) /\ Changes /\ DiffAllowed(net.live, Rows)

\* After the reload nothing may wait.
AppliedAsReviewed == Matches(Rows) /\ ~Changes

-----------------------------------------------------------------------------
Init ==
  /\ \E b \in {None, [set |-> "before", kept |-> "own"]} :
       /\ review = [bridge |-> b, others |-> "before"]
       /\ net = [live |-> review, pending |-> None, sending |-> None, task |-> None]
  /\ op = [status |-> "none", acked |-> FALSE, reloading |-> FALSE, bound |-> FALSE,
           staged |-> None, locked |-> FALSE]
  /\ rec = [status |-> "none", gen |-> 0]
  /\ act = [a \in Actors |-> [pc |-> IF a = "request" THEN "review" ELSE "idle", gen |-> 0, staged |-> None]]
  /\ history = [edits |-> 0, unseen |-> FALSE, reloads |-> 0, applied |-> {}, final |-> None]

At(a, pc) == act[a].pc = pc
Goto(a, pc) == act' = [act EXCEPT ![a].pc = pc]

\* Every commit is fenced by the lease; whoever lost it stops.
Commit(a, o, status, next) ==
  \/ /\ rec.status = "leased" /\ rec.gen = act[a].gen
     /\ op' = o /\ rec' = [rec EXCEPT !.status = status] /\ Goto(a, next)
  \/ /\ ~(rec.status = "leased" /\ rec.gen = act[a].gen)
     /\ Goto(a, "idle") /\ UNCHANGED <<op, rec>>

\* pause: the lock stays.
ToReconcile(o) == [o EXCEPT !.status = "needs_reconciliation"]

Closed(status) == [op EXCEPT !.status = status, !.locked = FALSE]

-----------------------------------------------------------------------------
(* execute *)

\* The reviewed configuration, with nothing pending, admits the operation.
Admit ==
  /\ At("request", "review")
  /\ Rows = review /\ ~Changes
  /\ op' = [op EXCEPT !.status = "planned", !.locked = TRUE]
  /\ rec' = [status |-> "leased", gen |-> 1]
  /\ act' = [act EXCEPT !["request"].pc = "recheck", !["request"].gen = 1]
  /\ UNCHANGED <<net, review, history>>

\* The second review, under the lock.
Recheck ==
  /\ At("request", "recheck")
  /\ \/ Rows = review /\ ~Changes /\ Commit("request", [op EXCEPT !.status = "dispatching"], "leased", "stage")
     \/ Commit("request", Closed("blocked"), "completed", "idle")
  /\ UNCHANGED <<net, review, history>>

\* Proxmox refuses to create a bridge that exists or to update one that does not.
MayStage == (Rows.bridge = None) = (review.bridge = None)
Staged == [Rows EXCEPT !.bridge = IF @ = None THEN [set |-> "wanted", kept |-> "own"]
                                  ELSE [@ EXCEPT !.set = "wanted"]]

\* The answer may be lost, before or after the request was, or the request be late.
Stage ==
  /\ At("request", "stage")
  /\ \/ MayStage /\ net' = [net EXCEPT !.pending = Staged] /\ \E pc \in {"ack", "pause"} : Goto("request", pc)
     \/ net' = [net EXCEPT !.sending = "stage"] /\ Goto("request", "pause")
     \/ UNCHANGED net /\ Goto("request", "pause")
  /\ UNCHANGED <<review, op, rec, history>>

Acknowledge ==
  /\ At("request", "ack")
  /\ Commit("request", [op EXCEPT !.acked = TRUE], "leased", "lookStaged")
  /\ UNCHANGED <<net, review, history>>

\* Any observation may fail too, or miss an active bridge.
LookStaged ==
  /\ At("request", "lookStaged")
  /\ \/ /\ StagedAsReviewed
        /\ act' = [act EXCEPT !["request"].pc = "verified", !["request"].staged = Rows.bridge.kept]
     \/ Goto("request", "pause")
  /\ UNCHANGED <<net, review, op, rec, history>>

CommitVerified ==
  /\ At("request", "verified")
  /\ Commit("request", [op EXCEPT !.staged = act["request"].staged], "leased", "lookLatest")
  /\ UNCHANGED <<net, review, history>>

\* Wrong: the observation before the checkpoint is used again.
LatestFromBefore == act["request"].staged # None
\* "Reobserve after committing the checkpoint; no pending data is cached across dispatch."
Latest == StagedAsReviewed /\ Rows.bridge.kept = act["request"].staged

LookLatest ==
  /\ At("request", "lookLatest")
  /\ \/ /\ Latest
        /\ Goto("request", "reload")
        /\ history' = [history EXCEPT !.unseen = FALSE]
     \/ Goto("request", "pause") /\ UNCHANGED history
  /\ UNCHANGED <<net, review, op, rec>>

CommitReload(a) ==
  /\ At(a, "reload") /\ ~op.reloading
  /\ Commit(a, [op EXCEPT !.reloading = TRUE], "leased", "reload")
  /\ UNCHANGED <<net, review, history>>

Reload(a) ==
  /\ At(a, "reload") /\ op.reloading
  /\ history' = [history EXCEPT !.reloads = @ + 1]
  /\ \/ net' = [net EXCEPT !.task = "running"] /\ \E pc \in {"bind", "pause"} : Goto(a, pc)
     \/ net' = [net EXCEPT !.sending = "reload"] /\ Goto(a, "pause")
     \/ UNCHANGED net /\ Goto(a, "pause")
  /\ UNCHANGED <<review, op, rec>>

BindTask ==
  /\ At("request", "bind")
  /\ Commit("request", [op EXCEPT !.status = "running", !.bound = TRUE], "leased", "task")
  /\ UNCHANGED <<net, review, history>>

-----------------------------------------------------------------------------
(* verify, shared by the request and the recovery handler *)

\* wait_for_task of the request, one query of the handler.
ReadTask(a) ==
  /\ At(a, "task")
  /\ \/ net.task = "ok" /\ Goto(a, "look")
     \/ net.task = "running" /\ a = "handler" /\ Goto(a, "retry")
     \/ Goto(a, "pause")
  /\ UNCHANGED <<net, review, op, rec, history>>

Look(a) ==
  /\ At(a, "look")
  /\ \/ /\ AppliedAsReviewed /\ Rows.bridge.kept = op.staged
        /\ history' = [history EXCEPT !.final = net.live]
        /\ Goto(a, IF op.status = "verifying" THEN "succeed" ELSE "verifying")
     \/ Goto(a, "pause") /\ UNCHANGED history
  /\ UNCHANGED <<net, review, op, rec>>

CommitVerifying(a) ==
  /\ At(a, "verifying")
  /\ Commit(a, [op EXCEPT !.status = "verifying"], "leased", "succeed")
  /\ UNCHANGED <<net, review, history>>

CommitSuccess(a) ==
  /\ At(a, "succeed")
  /\ Commit(a, Closed("succeeded"), "completed", "idle")
  /\ UNCHANGED <<net, review, history>>

Pause(a) ==
  /\ At(a, "pause")
  /\ Commit(a, ToReconcile(op), "paused", "idle")
  /\ UNCHANGED <<net, review, history>>

Retry(a) ==
  /\ At(a, "retry")
  /\ Commit(a, op, "retry_wait", "idle")
  /\ UNCHANGED <<net, review, history>>

-----------------------------------------------------------------------------
(* HostConfigurationRecoveryHandler *)

\* Due work, a lease that ran out, or a paused item an operator has observed again.
Claim ==
  /\ At("handler", "idle")
  /\ rec.status \in {"leased", "retry_wait", "paused"} /\ rec.gen < MaxClaims
  /\ rec' = [status |-> "leased", gen |-> rec.gen + 1]
  /\ act' = [act EXCEPT !["handler"].pc = "load", !["handler"].gen = rec.gen + 1]
  /\ UNCHANGED <<net, review, op, history>>

\* "A saved stage is useful evidence, but is never permission to dispatch reload."
NextOfUnbound == "pause"

Load ==
  /\ At("handler", "load")
  /\ Goto("handler", IF op.status = "planned" THEN "close"
                     ELSE IF op.acked /\ op.reloading /\ op.bound THEN "task" ELSE NextOfUnbound)
  /\ UNCHANGED <<net, review, op, rec, history>>

\* Interrupted before its dispatch.
CloseUnsent ==
  /\ At("handler", "close")
  /\ Commit("handler", Closed("blocked"), "completed", "idle")
  /\ UNCHANGED <<net, review, history>>

\* A process dies, or the database fails it.
Crash(a) ==
  /\ act[a].pc \notin {"idle", "review"}
  /\ Goto(a, "idle")
  /\ UNCHANGED <<net, review, op, rec, history>>

-----------------------------------------------------------------------------
(* Proxmox and those who administer it directly *)

\* A request that was late arrives.
Arrives ==
  /\ net.sending # None
  /\ net' = [net EXCEPT !.sending = None,
               !.pending = IF net.sending = "stage" /\ MayStage THEN Staged ELSE @,
               !.task = IF net.sending = "reload" THEN "running" ELSE @]
  /\ UNCHANGED <<review, op, rec, act, history>>

Applied == [net EXCEPT !.live = Rows, !.pending = None]

\* The reload applies whatever is pending when its task runs; it may fail before or after.
TaskEnds ==
  /\ net.task = "running"
  /\ \/ /\ \E end \in {"ok", "failed"} : net' = [Applied EXCEPT !.task = end]
        /\ history' = [history EXCEPT !.applied = IF net.pending = None THEN @
             ELSE @ \cup {[from |-> net.live, to |-> net.pending, unseen |-> history.unseen]}]
     \/ net' = [net EXCEPT !.task = "failed"] /\ UNCHANGED history
  /\ UNCHANGED <<review, op, rec, act>>

\* What another editor makes of a configuration.
Edited(c) ==
  {[c EXCEPT !.others = "foreign"], [c EXCEPT !.others = "before"], [c EXCEPT !.bridge = None]}
  \cup {[c EXCEPT !.bridge = b] : b \in {x \in Bridges : x.set # "wanted" \/ (c.bridge # None /\ c.bridge.set = x.set)}}

Edit ==
  /\ history.edits < MaxEdits
  /\ history' = [history EXCEPT !.edits = @ + 1, !.unseen = TRUE]
  /\ \/ \E c \in Edited(Rows) : c # Rows /\ net' = [net EXCEPT !.pending = c]
     \/ net.pending # None /\ net' = [net EXCEPT !.pending = None]
     \/ net.pending # None /\ net' = Applied
  /\ UNCHANGED <<review, op, rec, act>>

Next ==
  \/ Admit \/ Recheck \/ Stage \/ Acknowledge \/ LookStaged \/ CommitVerified \/ LookLatest
  \/ BindTask
  \/ \E a \in Actors : CommitReload(a) \/ Reload(a) \/ ReadTask(a) \/ Look(a) \/ CommitVerifying(a) \/ CommitSuccess(a) \/ Pause(a)
                       \/ Retry(a) \/ Crash(a)
  \/ Claim \/ Load \/ CloseUnsent
  \/ Arrives \/ TaskEnds \/ Edit

Spec == Init /\ [][Next]_vars

-----------------------------------------------------------------------------
(* Properties. *)

\* Our reload brings in nothing but what was reviewed, unless somebody edited after the last
\* look: edits of others that were pending before it are never applied with ours.
OnlyOursIsApplied ==
  \A x \in history.applied :
    \/ x.unseen
    \/ /\ x.to.others = x.from.others /\ x.to.bridge # None /\ x.to.bridge.set = "wanted"
       /\ x.to.bridge.kept = IF x.from.bridge = None THEN "own" ELSE x.from.bridge.kept

\* An interrupted or unanswered reload is not sent again, not by recovery either.
ReloadedAtMostOnce == history.reloads <= 1

\* Nothing of ours waits in the node's pending configuration, or is still on its way there,
\* once the lock is given back: the next reload of the node would apply it.
NothingOfOursIsLeft ==
  op.status # "none" /\ ~op.locked =>
    /\ net.sending = None /\ net.task # "running"
    /\ Rows.bridge # None /\ Rows.bridge.set = "wanted" => op.status = "succeeded"

\* Success is recorded of a reload that ended well, after the node was seen with the
\* configuration of the review, the asked change in it and applied.
SuccessIsReviewed ==
  op.status = "succeeded" =>
    /\ net.task = "ok"
    /\ history.final.others = review.others
    /\ history.final.bridge # None /\ history.final.bridge.set = "wanted"
    /\ review.bridge # None => history.final.bridge.kept = review.bridge.kept

\* One reload at most, of what was reviewed, recorded as it ended, with nothing left behind.
BridgeInv ==
  TypeOK /\ OnlyOursIsApplied /\ ReloadedAtMostOnce /\ NothingOfOursIsLeft /\ SuccessIsReviewed

-----------------------------------------------------------------------------
(* The inductive invariant. *)

Unsent == {"none", "planned", "blocked"}
UnloadedPcs == {"review", "recheck", "stage", "ack", "lookStaged", "verified", "lookLatest", "reload"}
BoundPcs == {"task", "look", "verifying", "succeed"}
SeenPcs == {"verifying", "succeed"}

\* A lease is one of generations: the request has the first, the handler a later one.
LeaseSound ==
  /\ act["request"].pc = "review" => act["request"].gen = 0 /\ rec.gen = 0 /\ rec.status = "none"
  /\ act["request"].pc # "review" => act["request"].gen = 1 /\ rec.gen >= 1 /\ rec.status # "none"
  /\ act["handler"].pc # "idle" => act["handler"].gen \in 2..rec.gen
  /\ act["handler"].pc = "load" => rec.status = "leased" /\ act["handler"].gen = rec.gen

\* The lock is there from the admission to the end, which the recovery row tells.
EndSound ==
  /\ act["request"].pc = "review" <=> op.status = "none"
  /\ op.locked <=> rec.status \notin {"none", "completed"}
  /\ rec.status = "completed" <=> op.status \in {"blocked", "succeeded"}
  /\ op.status = "succeeded" => net.task = "ok" /\ Matches(history.final)

\* What is unsent shows nowhere.
NotWanted(c) == c.bridge # None => c.bridge.set # "wanted"
UnsentSound ==
  op.status \in Unsent =>
    /\ NotWanted(net.live) /\ (net.pending # None => NotWanted(net.pending))
    /\ net.sending = None /\ net.task = None /\ ~op.bound
    /\ act["request"].pc \in {"review", "recheck", "idle"}

\* One stage and one reload: where the request stands tells what is on its way.
SendingSound ==
  /\ act["request"].pc \in UnloadedPcs =>
       net.sending = None /\ net.task = None /\ history.reloads = 0
  /\ history.reloads <= 1
  /\ act["request"].pc \in {"review", "recheck", "stage"} => ~op.acked
  /\ net.sending = "stage" => ~op.acked /\ net.task = None
  /\ net.sending # None => act["request"].pc \in {"pause", "idle"} /\ ~op.bound
  /\ net.task # None => net.sending = None
  /\ op.bound => net.sending = None /\ act["request"].pc \notin UnloadedPcs

\* What a thread tells by where it stands.
ActorSound(a) ==
  /\ act[a].pc \in BoundPcs => op.bound
  /\ act[a].pc \in {"look", "verifying", "succeed"} => net.task = "ok"
  /\ act[a].pc \in SeenPcs => Matches(history.final)
  /\ act[a].pc \in BoundPcs \cup {"pause", "retry"} => op.status \notin Unsent

\* A thread about to give the operation up knows that nothing was sent, if it still has the lease.
GivingUp(a) == act[a].pc \in {"recheck", "close"} /\ rec.status = "leased" /\ rec.gen = act[a].gen

\* What is reloaded is what was seen last.
ReloadSound ==
  act["request"].pc = "reload" \/ net.sending = "reload" \/ net.task = "running" =>
    history.unseen \/ StagedAsReviewed

IInv ==
  /\ TypeOK /\ OnlyOursIsApplied /\ LeaseSound /\ EndSound /\ UnsentSound /\ SendingSound /\ ReloadSound
  /\ act["handler"].pc \in {"idle", "load", "close", "pause", "retry"} \cup BoundPcs
  /\ act["request"].pc \notin {"load", "close", "retry"}
  /\ \A a \in Actors : ActorSound(a) /\ (GivingUp(a) => op.status = "planned")

=============================================================================
