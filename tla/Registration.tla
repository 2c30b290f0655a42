---------------------------- MODULE Registration ----------------------------
(***************************************************************************)
(* The registration of a Proxmox token: an attempt issues a token (or      *)
(* imports the one of the environment), verifies it and activates it as    *)
(* the connection's credential; a token that was issued can be revoked.    *)
(* Mutations of VMs are admitted under the same connection lock, and a     *)
(* process keeps to the credential it used first.                          *)
(*                                                                         *)
(* Every advance compares the attempt's version with the one its request   *)
(* read, so a request carries "fresh".  The connection's version and its   *)
(* active revision change together, and one stands for both.  Steps that   *)
(* read, call Proxmox and advance once (login, mfa, plan, cancel) are one  *)
(* action: the advance refuses what was read before another one.  Only the *)
(* login in memory is renewed before the advance, and stays renewed then.  *)
(***************************************************************************)
EXTENDS Naturals, OperationCore

CONSTANTS Attempts, Requests,
          Procs,     \* processes that dispatch mutations; the first serves the requests
          Api,
          Env,       \* the credential of the environment
          None,
          MaxFaults  \* bound: lost answers, restarts, expired logins

VARIABLES conn,      \* active revision, admission
          att,       \* attempts with their operations and credentials
          token,     \* token[a] at Proxmox: "none", "sent", "there", "deleted"
          posts,     \* posts[a]: requests sent to issue it
          work,      \* work[p]: an unfinished mutation process p dispatches
          pin,       \* the credential process p keeps to
          ctx,       \* ctx[a]: login in the memory of the serving process
          req, faults

vars == <<conn, att, token, posts, work, pin, ctx, req, faults>>
proxmox == <<token, posts>>
process == <<work, pin, ctx>>

Early == {"prepared", "mfa_required", "authenticated", "planned"}
Phases == Early \cup {"none", "token_dispatching", "import_staging", "secret_staged", "acl_applying",
                      "verifying", "verified", "active", "cancelled", "revocation_pending", "revoked"}
Pcs == {"idle", "mark", "post", "stage", "acl", "grant", "tested", "verify", "judge", "conclude",
        "activate", "import", "stageImport", "begin", "delete", "absent", "finish"}

TypeOK ==
  /\ conn \in [rev : Attempts \cup {Env}, open : BOOLEAN]
  /\ att \in [Attempts -> [mode : {"issue", "import"}, phase : Phases, resolved : BOOLEAN,
                           base : Attempts \cup {Env}, op : OperationStatuses, revoking : BOOLEAN,
                           cred : {"none", "pending", "active", "retiring", "revoked"},
                           granted : BOOLEAN]]
  /\ token \in [Attempts -> {"none", "sent", "there", "deleted"}]
  /\ posts \in [Attempts -> Nat]
  /\ work \in [Procs -> BOOLEAN] /\ pin \in [Procs -> Attempts \cup {Env, None}]
  /\ ctx \in [Attempts -> {"none", "challenge", "ready", "planned"}]
  /\ req \in [Requests -> [pc : Pcs, a : Attempts \cup {None}, fresh : BOOLEAN, then : BOOLEAN]]
  /\ faults \in 0..MaxFaults

Idle == [pc |-> "idle", a |-> None, fresh |-> FALSE, then |-> FALSE]

Init ==
  /\ conn = [rev |-> Env, open |-> TRUE]
  /\ att = [a \in Attempts |-> [mode |-> "issue", phase |-> "none", resolved |-> FALSE, base |-> Env,
                                op |-> "draft", revoking |-> FALSE, cred |-> "none", granted |-> FALSE]]
  /\ token = [a \in Attempts |-> "none"] /\ posts = [a \in Attempts |-> 0]
  /\ work = [p \in Procs |-> FALSE] /\ pin = [p \in Procs |-> None]
  /\ ctx = [a \in Attempts |-> "none"]
  /\ req = [r \in Requests |-> Idle]
  /\ faults = 0

At(r, pc) == req[r].pc = pc
Goto(r, pc) == req' = [req EXCEPT ![r] = IF pc = "idle" THEN Idle ELSE [@ EXCEPT !.pc = pc]]
Begin(r, a, pc, then) == req' = [req EXCEPT ![r] = [pc |-> pc, a |-> a, fresh |-> TRUE, then |-> then]]
Fails(r) == Goto(r, "idle") /\ UNCHANGED <<conn, att>>

\* The attempt is written; what other requests read of it is outdated.
Written(a, row) ==
  att' = [att EXCEPT ![a] = row]
Outdate(a) == [q \in Requests |-> IF req[q].a = a THEN [req[q] EXCEPT !.fresh = FALSE] ELSE req[q]]
Save(r, a, row, pc) ==
  /\ att' = [att EXCEPT ![a] = row]
  /\ req' = [Outdate(a) EXCEPT ![r] = IF pc = "idle" THEN Idle
                                      ELSE [req[r] EXCEPT !.pc = pc, !.fresh = TRUE]]
SaveAlone(a, row) == Written(a, row) /\ req' = Outdate(a)

\* advance: the version that was read, an attempt that is not resolved, a legal transition.
Advance(r, phase, op, pc) ==
  LET a == req[r].a IN
    IF req[r].fresh /\ ~att[a].resolved /\ MayTransition(att[a].op, op)
    THEN Save(r, a, [att[a] EXCEPT !.phase = phase, !.op = op], pc)
    ELSE Goto(r, "idle") /\ UNCHANGED att

\* has_unfinished_coordination: other operations, locks and recovery work that is not finished.
Unfinished(a) ==
  \/ \E p \in Procs : work[p]
  \/ \E b \in Attempts : att[b].phase # "none" /\
       ((b # a /\ att[b].op \notin TerminalStatuses) \/ att[b].revoking)

PinAgrees(p) == pin[p] \in {None, conn.rev}

-----------------------------------------------------------------------------
(* An attempt until its plan is confirmed. *)

Prepare(a, mode) ==
  /\ att[a].phase = "none"
  /\ \A b \in Attempts : att[b].phase # "none" => att[b].resolved
  /\ SaveAlone(a, [att[a] EXCEPT !.mode = mode, !.phase = "prepared", !.base = conn.rev, !.op = "planned"])
  /\ UNCHANGED <<conn, proxmox, process, faults>>

\* A login renews the context, and forgets the plan it was shown, before the attempt advances.  The
\* attempt stays as it is when it is past its early phases or another request came first: a login
\* may come back to an attempt that was closed meanwhile.
Login(a) ==
  /\ att[a].mode = "issue" /\ att[a].phase # "none"
  /\ \E challenge \in BOOLEAN :
       /\ ctx' = [ctx EXCEPT ![a] = IF challenge THEN "challenge" ELSE "ready"]
       /\ \/ /\ att[a].phase \in Early
             /\ SaveAlone(a, [att[a] EXCEPT !.phase = IF challenge THEN "mfa_required" ELSE "authenticated"])
          \/ UNCHANGED <<att, req>>
  /\ UNCHANGED <<conn, proxmox, work, pin, faults>>

Mfa(a) ==
  /\ ctx[a] = "challenge"
  /\ ctx' = [ctx EXCEPT ![a] = "ready"]
  /\ \/ att[a].phase = "mfa_required" /\ SaveAlone(a, [att[a] EXCEPT !.phase = "authenticated"])
     \/ UNCHANGED <<att, req>>
  /\ UNCHANGED <<conn, proxmox, work, pin, faults>>

\* A plan is kept with the login before the attempt advances, too.
Plan(a) ==
  /\ \/ /\ att[a].mode = "issue" /\ att[a].phase # "none"
        /\ ctx[a] \in {"ready", "planned"} /\ ctx' = [ctx EXCEPT ![a] = "planned"]
        /\ \/ /\ att[a].phase \in {"authenticated", "planned"}
              /\ SaveAlone(a, [att[a] EXCEPT !.phase = "planned"])
           \/ UNCHANGED <<att, req>>
     \/ /\ att[a].mode = "import" /\ att[a].phase \in {"prepared", "planned"} /\ UNCHANGED ctx
        /\ SaveAlone(a, [att[a] EXCEPT !.phase = "planned"])
  /\ UNCHANGED <<conn, proxmox, work, pin, faults>>

\* Wrong: an attempt can be cancelled until it is verified.
CancelIssued(a) ==
  /\ att[a].phase \in Early \cup {"token_dispatching"}
  /\ SaveAlone(a, [att[a] EXCEPT !.phase = "cancelled", !.resolved = TRUE, !.op = "cancelled"])
  /\ ctx' = [ctx EXCEPT ![a] = "none"]
  /\ UNCHANGED <<conn, proxmox, work, pin, faults>>

Cancel(a) ==
  /\ att[a].phase \in Early
  /\ SaveAlone(a, [att[a] EXCEPT !.phase = "cancelled", !.resolved = TRUE, !.op = "cancelled"])
  /\ ctx' = [ctx EXCEPT ![a] = "none"]
  /\ UNCHANGED <<conn, proxmox, work, pin, faults>>

-----------------------------------------------------------------------------
(* confirm: the token is issued once. *)

\* The plan shown last is confirmed, and no token of that name exists.
Confirm(r, a) ==
  /\ At(r, "idle") /\ att[a].phase = "planned" /\ ctx[a] = "planned" /\ token[a] # "there"
  /\ Begin(r, a, "mark", FALSE)
  /\ UNCHANGED <<conn, att, proxmox, process, faults>>

MarkDispatching(r) ==
  /\ At(r, "mark") /\ Advance(r, "token_dispatching", "dispatching", "post")
  /\ UNCHANGED <<conn, proxmox, process, faults>>

\* The answer may be lost, or the request may reach Proxmox later, or never.
PostToken(r) ==
  /\ At(r, "post")
  /\ LET a == req[r].a IN
       /\ posts' = [posts EXCEPT ![a] = @ + 1]
       /\ \/ token' = [token EXCEPT ![a] = "there"] /\ Goto(r, "stage") /\ UNCHANGED faults
          \/ /\ faults < MaxFaults /\ faults' = faults + 1 /\ Goto(r, "idle")
             /\ token' \in {[token EXCEPT ![a] = t] : t \in {"there", "sent"}}
  /\ UNCHANGED <<conn, att, process>>

TokenLands(a) ==
  /\ token[a] = "sent" /\ token' = [token EXCEPT ![a] = "there"]
  /\ UNCHANGED <<conn, att, posts, process, req, faults>>

\* stage_secret: the secret is kept as a pending revision.
StageSecret(r) ==
  /\ At(r, "stage")
  /\ LET a == req[r].a IN
       IF req[r].fresh /\ att[a].phase = "token_dispatching" /\ att[a].cred = "none"
       THEN Save(r, a, [att[a] EXCEPT !.phase = "secret_staged", !.op = "running", !.cred = "pending"], "acl")
       ELSE Goto(r, "idle") /\ UNCHANGED att
  /\ UNCHANGED <<conn, proxmox, process, faults>>

MarkAcl(r) ==
  /\ At(r, "acl") /\ Advance(r, "acl_applying", att[req[r].a].op, "grant")
  /\ UNCHANGED <<conn, proxmox, process, faults>>

\* Roles and ACLs; the login that expired on the way or any failure ends the request.
Grant(r) ==
  /\ At(r, "grant")
  /\ \/ /\ ctx[req[r].a] \in {"ready", "planned"}
        /\ att' = [att EXCEPT ![req[r].a].granted = TRUE]
        /\ Goto(r, "tested")
     \/ Goto(r, "idle") /\ UNCHANGED att
  /\ UNCHANGED <<conn, proxmox, process, faults>>

MarkVerifying(r) ==
  /\ At(r, "tested") /\ Advance(r, "verifying", "verifying", "verify")
  /\ UNCHANGED <<conn, proxmox, process, faults>>

-----------------------------------------------------------------------------
(* verify and activate. *)

Verify(r, a, then) ==
  /\ At(r, "idle")
  /\ att[a].phase \in {"secret_staged", "acl_applying", "verifying", "verified"}
  /\ Begin(r, a, "verify", then)
  /\ UNCHANGED <<conn, att, proxmox, process, faults>>

\* The token answers with every permission of the plan, or the request fails.
TestToken(r) ==
  /\ At(r, "verify")
  /\ LET a == req[r].a IN
       \/ /\ att[a].cred = "pending" /\ (att[a].mode = "issue" => token[a] = "there" /\ att[a].granted)
          /\ Goto(r, IF att[a].phase \in {"secret_staged", "acl_applying"} THEN "judge" ELSE "conclude")
       \/ Goto(r, "idle")
  /\ UNCHANGED <<conn, att, proxmox, process, faults>>

ConcludeVerification(r) ==
  /\ \/ At(r, "judge") /\ Advance(r, "verifying", "verifying", "conclude")
     \/ /\ At(r, "conclude")
        /\ Advance(r, "verified", att[req[r].a].op, IF req[r].then THEN "activate" ELSE "idle")
  /\ UNCHANGED <<conn, proxmox, process, faults>>

\* Wrong: the connection is switched under unfinished work.
ActivateAnyway(r) ==
  /\ At(r, "activate")
  /\ LET a == req[r].a IN
       IF req[r].fresh /\ att[a].phase = "verified" /\ att[a].base = conn.rev
          /\ att[a].cred = "pending" /\ PinAgrees(Api)
       THEN /\ att' = [b \in Attempts |->
                 IF b = a THEN [att[a] EXCEPT !.cred = "active", !.phase = "active", !.op = "succeeded",
                                              !.resolved = TRUE]
                 ELSE IF b = conn.rev /\ att[b].cred = "active" THEN [att[b] EXCEPT !.cred = "retiring"]
                 ELSE att[b]]
            /\ conn' = [rev |-> a, open |-> TRUE]
            /\ pin' = [pin EXCEPT ![Api] = conn.rev]
            /\ ctx' = [ctx EXCEPT ![a] = "none"]
            /\ req' = [Outdate(a) EXCEPT ![r] = Idle]
       ELSE Fails(r) /\ UNCHANGED <<pin, ctx>>
  /\ UNCHANGED <<proxmox, work, faults>>

\* repository.activate, under the connection lock: nothing unfinished, the connection the
\* attempt was prepared for.  The serving process keeps to the old credential and must restart.
Activate(r) ==
  /\ At(r, "activate")
  /\ LET a == req[r].a IN
       IF req[r].fresh /\ att[a].phase = "verified" /\ att[a].base = conn.rev /\ ~Unfinished(a)
          /\ att[a].cred = "pending" /\ PinAgrees(Api)
       THEN /\ att' = [b \in Attempts |->
                 IF b = a THEN [att[a] EXCEPT !.cred = "active", !.phase = "active", !.op = "succeeded",
                                              !.resolved = TRUE]
                 ELSE IF b = conn.rev /\ att[b].cred = "active" THEN [att[b] EXCEPT !.cred = "retiring"]
                 ELSE att[b]]
            /\ conn' = [rev |-> a, open |-> TRUE]
            /\ pin' = [pin EXCEPT ![Api] = conn.rev]
            /\ ctx' = [ctx EXCEPT ![a] = "none"]
            /\ req' = [Outdate(a) EXCEPT ![r] = Idle]
       ELSE Fails(r) /\ UNCHANGED <<pin, ctx>>
  /\ UNCHANGED <<proxmox, work, faults>>

\* import_env: the token of the environment is verified before it is staged.
Import(r, a) ==
  /\ At(r, "idle") /\ att[a].mode = "import" /\ att[a].phase \in {"planned", "import_staging"}
  /\ Begin(r, a, "import", FALSE)
  /\ UNCHANGED <<conn, att, proxmox, process, faults>>

MarkImport(r) ==
  /\ At(r, "import")
  /\ IF att[req[r].a].phase = "import_staging" THEN Goto(r, "stageImport") /\ UNCHANGED att
     ELSE Advance(r, "import_staging", "dispatching", "stageImport")
  /\ UNCHANGED <<conn, proxmox, process, faults>>

StageImported(r) ==
  /\ At(r, "stageImport")
  /\ LET a == req[r].a IN
       IF req[r].fresh /\ att[a].phase = "import_staging" /\ att[a].cred = "none"
       THEN Save(r, a, [att[a] EXCEPT !.phase = "secret_staged", !.op = "running", !.cred = "pending"], "judge")
       ELSE Goto(r, "idle") /\ UNCHANGED att
  /\ UNCHANGED <<conn, proxmox, process, faults>>

-----------------------------------------------------------------------------
(* revoke. *)

\* The attempt's own token must be seen; a request that is pending only waits for its absence.
Revoke(r, a) ==
  /\ At(r, "idle") /\ att[a].mode = "issue" /\ ctx[a] \in {"ready", "planned"}
  /\ \/ att[a].phase = "revocation_pending" /\ token[a] # "there" /\ Begin(r, a, "finish", FALSE)
     \/ att[a].phase # "revocation_pending" /\ token[a] = "there" /\ Begin(r, a, "begin", FALSE)
  /\ UNCHANGED <<conn, att, proxmox, process, faults>>

\* begin_revoke: the active credential needs everything finished, and closes admission.
BeginRevoke(r) ==
  /\ At(r, "begin")
  /\ LET a == req[r].a
         active == att[a].cred # "none" /\ conn.rev = a
     IN IF /\ req[r].fresh /\ att[a].phase \notin Early \cup {"cancelled", "revoked", "revocation_pending"}
           /\ active => ~Unfinished(a)
        THEN /\ Save(r, a, [att[a] EXCEPT !.phase = "revocation_pending", !.revoking = TRUE], "delete")
             /\ conn' = [conn EXCEPT !.open = @ /\ ~active]
        ELSE Fails(r)
  /\ UNCHANGED <<proxmox, process, faults>>

DeleteToken(r) ==
  /\ At(r, "delete")
  /\ \/ token' = [token EXCEPT ![req[r].a] = "deleted"] /\ Goto(r, "absent") /\ UNCHANGED faults
     \/ /\ faults < MaxFaults /\ faults' = faults + 1 /\ Goto(r, "idle")
        /\ token' \in {token, [token EXCEPT ![req[r].a] = "deleted"]}
  /\ UNCHANGED <<conn, att, posts, process>>

ConfirmAbsence(r) ==
  /\ At(r, "absent")
  /\ Goto(r, IF token[req[r].a] = "there" THEN "idle" ELSE "finish")
  /\ UNCHANGED <<conn, att, proxmox, process, faults>>

\* finish_revoke: both operations are closed with the attempt.
FinishRevoke(r) ==
  /\ At(r, "finish")
  /\ LET a == req[r].a
         op == IF att[a].op = "succeeded" THEN "succeeded" ELSE "failed"
     IN IF req[r].fresh /\ att[a].phase = "revocation_pending" /\ MayTransition(att[a].op, op)
        THEN /\ Save(r, a, [att[a] EXCEPT !.phase = "revoked", !.resolved = TRUE, !.op = op,
                               !.revoking = FALSE, !.cred = IF @ = "none" THEN @ ELSE "revoked"], "idle")
             /\ ctx' = [ctx EXCEPT ![a] = "none"]
        ELSE Goto(r, "idle") /\ UNCHANGED <<att, ctx>>
  /\ UNCHANGED <<conn, proxmox, work, pin, faults>>

-----------------------------------------------------------------------------
(* Mutations, restarts, expiry of a login. *)

\* Wrong: a process that uses another credential still admits mutations.
AdmitStale(p) ==
  /\ ~work[p] /\ conn.open
  /\ conn.rev # Env => att[conn.rev].cred = "active"
  /\ work' = [work EXCEPT ![p] = TRUE]
  /\ pin' = [pin EXCEPT ![p] = IF @ = None THEN conn.rev ELSE @]
  /\ UNCHANGED <<conn, att, proxmox, ctx, req, faults>>

\* admit_mutation, with the lock of its target taken in the same transaction.
AdmitMutation(p) ==
  /\ ~work[p] /\ PinAgrees(p) /\ conn.open
  /\ conn.rev # Env => att[conn.rev].cred = "active"
  /\ work' = [work EXCEPT ![p] = TRUE] /\ pin' = [pin EXCEPT ![p] = conn.rev]
  /\ UNCHANGED <<conn, att, proxmox, ctx, req, faults>>

FinishWork(p) ==
  /\ work[p] /\ PinAgrees(p)
  /\ work' = [work EXCEPT ![p] = FALSE] /\ pin' = [pin EXCEPT ![p] = conn.rev]
  /\ UNCHANGED <<conn, att, proxmox, ctx, req, faults>>

\* A restart loses the pin, and the logins and requests of the serving process; a restart
\* after a switch is what the operator is asked for.
Restart(p) ==
  /\ pin[p] # None
  /\ IF PinAgrees(p) THEN faults < MaxFaults /\ faults' = faults + 1 ELSE UNCHANGED faults
  /\ pin' = [pin EXCEPT ![p] = None]
  /\ IF p = Api THEN ctx' = [a \in Attempts |-> "none"] /\ req' = [r \in Requests |-> Idle]
     ELSE UNCHANGED <<ctx, req>>
  /\ UNCHANGED <<conn, att, proxmox, work>>

LoginExpires(a) ==
  /\ ctx[a] # "none" /\ faults < MaxFaults /\ faults' = faults + 1
  /\ ctx' = [ctx EXCEPT ![a] = "none"]
  /\ UNCHANGED <<conn, att, proxmox, work, pin, req>>

Proceed(r) ==
  \/ MarkDispatching(r) \/ PostToken(r) \/ StageSecret(r) \/ MarkAcl(r) \/ Grant(r) \/ MarkVerifying(r)
  \/ TestToken(r) \/ ConcludeVerification(r) \/ Activate(r) \/ MarkImport(r) \/ StageImported(r)
  \/ BeginRevoke(r) \/ DeleteToken(r) \/ ConfirmAbsence(r) \/ FinishRevoke(r)

Next ==
  \/ \E a \in Attempts, mode \in {"issue", "import"} : Prepare(a, mode)
  \/ \E a \in Attempts : Login(a) \/ Mfa(a) \/ Plan(a) \/ Cancel(a) \/ TokenLands(a) \/ LoginExpires(a)
  \/ \E r \in Requests, a \in Attempts :
       \/ Confirm(r, a) \/ Import(r, a) \/ Revoke(r, a)
       \/ \E then \in BOOLEAN : Verify(r, a, then)
  \/ \E r \in Requests : Proceed(r)
  \/ \E p \in Procs : AdmitMutation(p) \/ FinishWork(p) \/ Restart(p)

Spec == Init /\ [][Next]_vars

-----------------------------------------------------------------------------
(* Properties. *)

\* Unfinished mutations are never left with another credential than the connection's: a
\* switch waits for them, and a process that keeps to an old credential starts none.
WorkKeepsCredential ==
  \A p \in Procs : work[p] => PinAgrees(p) /\ (conn.rev # Env => att[conn.rev].cred = "active")

\* While mutations are admitted, the token they would use has not been revoked.
AdmittedTokenLives ==
  conn.open /\ conn.rev # Env /\ att[conn.rev].mode = "issue" => token[conn.rev] = "there"

\* The durable marker comes first: however many confirmations race or are repeated, one
\* request is sent.
IssuedOnce == \A a \in Attempts : posts[a] <= 1

\* An attempt that was cancelled or revoked leaves no token behind, nor one on its way.
NoOrphanToken ==
  \A a \in Attempts : att[a].phase \in {"cancelled", "revoked"} => token[a] \notin {"there", "sent"}

\* A closed attempt leaves no operation open that would block every later switch.
ClosedDoesNotBlock ==
  \A a \in Attempts :
    att[a].phase # "none" =>
      /\ att[a].resolved <=> att[a].op \in TerminalStatuses
      /\ att[a].revoking <=> att[a].phase = "revocation_pending"

\* Admission, activation and revocation exclude each other: work keeps the credential it was
\* admitted with, that credential lives, and a closed attempt keeps nobody out.
CredentialInv == TypeOK /\ WorkKeepsCredential /\ AdmittedTokenLives /\ ClosedDoesNotBlock

\* Every token issued is accounted for, whichever confirmation, cancellation or crash comes
\* between the request and its answer: there is one at most, and none that nobody knows of.
TokenInv == IssuedOnce /\ NoOrphanToken

-----------------------------------------------------------------------------
(* Why.  A request that advances has read the attempt's last version, and the place it has    *)
(* reached tells the phase; what else it acts on, a token seen or deleted, never comes back.  *)

Unresolved == Early \cup {"none", "token_dispatching", "import_staging", "secret_staged", "acl_applying",
                         "verifying", "verified"}
Closing == {"revocation_pending", "revoked"}

\* The plan's permissions were granted to a token that exists.
Usable(a) == att[a].mode = "issue" => token[a] = "there" /\ att[a].granted

RowSound(row) ==
  /\ row.resolved <=> row.op \in TerminalStatuses
  /\ row.revoking <=> row.phase = "revocation_pending"
  /\ row.phase \in Unresolved => ~row.resolved
  /\ row.phase \in {"active", "cancelled", "revoked"} => row.resolved

TokenSound(a) ==
  /\ posts[a] \in {0, 1} /\ (posts[a] = 0 <=> token[a] = "none")
  /\ att[a].phase \in Early \cup {"none", "cancelled"} => token[a] = "none"
  /\ att[a].phase \in {"verified", "active"} => Usable(a)
  /\ att[a].phase = "revocation_pending" => token[a] \in {"there", "deleted"}
  /\ att[a].phase = "revoked" => token[a] = "deleted"

\* The phase of the version a request has read.
PhasesAt(pc) ==
  CASE pc = "mark" -> {"planned"}
    [] pc \in {"post", "stage"} -> {"token_dispatching"}
    [] pc = "acl" -> {"secret_staged"}
    [] pc \in {"grant", "tested"} -> {"acl_applying"}
    [] pc = "verify" -> {"secret_staged", "acl_applying", "verifying", "verified"}
    [] pc = "judge" -> {"secret_staged", "acl_applying"}
    [] pc = "conclude" -> {"verifying", "verified"}
    [] pc = "activate" -> {"verified"}
    [] pc = "import" -> {"planned", "import_staging"}
    [] pc = "stageImport" -> {"import_staging"}
    [] OTHER -> Phases

RequestSound(r) ==
  LET a == req[r].a IN
    ~At(r, "idle") =>
      /\ a \in Attempts /\ att[a].phase # "none"
      /\ req[r].fresh => att[a].phase \in PhasesAt(req[r].pc)
      /\ At(r, "post") => req[r].fresh /\ token[a] = "none"
      /\ At(r, "stage") => token[a] # "none"
      /\ req[r].pc \in {"judge", "conclude"} /\ req[r].fresh => Usable(a)
      /\ req[r].pc \in {"import", "stageImport"} => att[a].mode = "import"
      /\ At(r, "begin") => token[a] \in {"there", "deleted"}
      /\ req[r].pc \in {"delete", "absent"} => att[a].phase \in Closing /\ token[a] \in {"there", "deleted"}
      /\ At(r, "finish") => token[a] = "deleted"

OneSends == \A r, q \in Requests : At(r, "post") /\ At(q, "post") /\ req[r].a = req[q].a => r = q

\* The connection's credential is in use, or being given up with nothing admitted.
ConnectionSound ==
  /\ conn.rev # Env =>
       /\ att[conn.rev].phase \in {"active"} \cup Closing /\ att[conn.rev].cred \in {"active", "revoked"}
       /\ conn.open => att[conn.rev].phase = "active" /\ att[conn.rev].cred = "active"
  /\ \A p \in Procs : work[p] => conn.open /\ PinAgrees(p)

IInv ==
  /\ TypeOK
  /\ \A a \in Attempts : RowSound(att[a]) /\ TokenSound(a)
  /\ \A r \in Requests : RequestSound(r)
  /\ OneSends /\ ConnectionSound

=============================================================================
