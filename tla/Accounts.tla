------------------------------ MODULE Accounts ------------------------------
(***************************************************************************)
(* Local accounts and their sessions.  Demotions and disablements are      *)
(* transactions of several statements: they lock the rows of the enabled   *)
(* administrators (SELECT ... FOR UPDATE), count them, and write.  The     *)
(* database is PostgreSQL at its default level, READ COMMITTED: the rows   *)
(* to lock are those of the statement's snapshot, what no longer qualifies *)
(* after waiting is left out, and the count is a statement of its own.     *)
(* Every other change is one row of one transaction, hence one action.     *)
(* A request reads its session, then its account, and is served with the   *)
(* account as it was read: others write both rows meanwhile.               *)
(***************************************************************************)
EXTENDS Naturals, FiniteSets

CONSTANTS Users,
          Admins,      \* enabled administrators at first
          Txs,         \* guarded transactions: of requests and of the command line
          Logins, None

VARIABLES role, enabled,
          tx,     \* tx[t]: statement, account, rows of the snapshot, rows locked, request
          login,  \* login[s]: a login and the session it opens
          req,    \* req[s]: the request under way with that session
          late    \* accounts promoted while guarded changes were under way

vars == <<role, enabled, tx, login, req, late>>

Rows == [role : {"viewer", "admin"}, enabled : BOOLEAN]
RequestRows == [pc : {"none", "arrived", "found", "served"}, open : BOOLEAN,  \* open: when it came
                rows : SUBSET Rows,           \* what the account has been since it came
                actor : Rows \cup {None}]     \* the account as it was read

TypeOK ==
  /\ role \in [Users -> {"viewer", "admin"}] /\ enabled \in [Users -> BOOLEAN]
  /\ tx \in [Txs -> [pc : {"idle", "guard", "decide", "write"}, user : Users \cup {None},
                     disable : BOOLEAN, seen : SUBSET Users, held : SUBSET Users,
                     by : Logins \cup {None}]]
  /\ login \in [Logins -> [user : Users \cup {None}, pc : {"none", "authenticated", "open", "revoked"}]]
  /\ req \in [Logins -> RequestRows]
  /\ late \in SUBSET Users

Idle == [pc |-> "idle", user |-> None, disable |-> FALSE, seen |-> {}, held |-> {}, by |-> None]
Quiet == [pc |-> "none", open |-> FALSE, rows |-> {}, actor |-> None]

Init ==
  /\ role = [u \in Users |-> IF u \in Admins THEN "admin" ELSE "viewer"]
  /\ enabled = [u \in Users |-> TRUE]
  /\ tx = [t \in Txs |-> Idle]
  /\ login = [s \in Logins |-> [user |-> None, pc |-> "none"]]
  /\ req = [s \in Logins |-> Quiet]
  /\ late = {}

EnabledAdmins == {u \in Users : role[u] = "admin" /\ enabled[u]}
Locked(t) == UNION {tx[x].held : x \in Txs \ {t}}
AdminRow == [role |-> "admin", enabled |-> TRUE]

\* Two promotions have been committed while guarded changes were under way.
Outrun == \E u, v \in late : u # v
\* With no guarded change under way promotions start to be counted anew.
Settled(txs) == IF Outrun \/ \E t \in Txs : txs[t].pc # "idle" THEN late ELSE {}

\* The requests of account u under way have now met it with this row.
Seen(u, r, e) ==
  [s \in Logins |-> IF req[s].pc # "none" /\ login[s].user = u
                    THEN [req[s] EXCEPT !.rows = @ \cup {[role |-> r, enabled |-> e]}] ELSE req[s]]

-----------------------------------------------------------------------------
(* set_user_role to a lower role, and disable_user. *)

\* The command line asks nobody; a request needs an administrator's actor (require_admin).
MayAsk(by) ==
  by # None => /\ req[by].pc = "served" /\ req[by].actor.role = "admin"
               /\ \A t \in Txs : tx[t].by # by

BeginGuarded(t, u, disable, by) ==
  /\ tx[t].pc = "idle" /\ MayAsk(by)
  /\ tx' = [tx EXCEPT ![t] = [pc |-> "guard", user |-> u, disable |-> disable,
                              seen |-> EnabledAdmins, held |-> {}, by |-> by]]
  /\ UNCHANGED <<role, enabled, login, req, late>>

\* Wrong: the administrators are read without their locks.
ReadGuard(t) ==
  /\ tx[t].pc = "guard" /\ tx' = [tx EXCEPT ![t].pc = "decide", ![t].seen = {}]
  /\ UNCHANGED <<role, enabled, login, req, late>>

\* _serialize_enabled_admin_guard: wait for every row, keep those that still qualify.
LockGuard(t) ==
  /\ tx[t].pc = "guard" /\ tx[t].seen \cap Locked(t) = {}
  /\ tx' = [tx EXCEPT ![t].pc = "decide", ![t].held = tx[t].seen \cap EnabledAdmins, ![t].seen = {}]
  /\ UNCHANGED <<role, enabled, login, req, late>>

\* Wrong: any enabled administrator may go.
DecideAlways(t) ==
  /\ tx[t].pc = "decide" /\ tx' = [tx EXCEPT ![t].pc = "write"]
  /\ UNCHANGED <<role, enabled, login, req, late>>

\* _ensure_not_last_enabled_admin
Decide(t) ==
  /\ tx[t].pc = "decide"
  /\ tx' = [tx EXCEPT ![t] = IF tx[t].user \in EnabledAdmins /\ Cardinality(EnabledAdmins) <= 1
                             THEN Idle ELSE [@ EXCEPT !.pc = "write"]]
  /\ late' = Settled(tx') /\ UNCHANGED <<role, enabled, login, req>>

Revoked(u) == [s \in Logins |-> IF login[s].user = u /\ login[s].pc = "open"
                                THEN [login[s] EXCEPT !.pc = "revoked"] ELSE login[s]]

\* The row is written once nobody else holds it; the commit gives the locks back.
WriteGuarded(t) ==
  /\ tx[t].pc = "write" /\ tx[t].user \notin Locked(t)
  /\ IF tx[t].disable
     THEN /\ enabled' = [enabled EXCEPT ![tx[t].user] = FALSE] /\ login' = Revoked(tx[t].user)
          /\ UNCHANGED role
     ELSE role' = [role EXCEPT ![tx[t].user] = "viewer"] /\ UNCHANGED <<enabled, login>>
  /\ req' = Seen(tx[t].user, role'[tx[t].user], enabled'[tx[t].user])
  /\ tx' = [tx EXCEPT ![t] = Idle] /\ late' = Settled(tx')

\* A deadlock that the database ends, a lost connection, a crash.
Rollback(t) ==
  /\ tx[t].pc # "idle" /\ tx' = [tx EXCEPT ![t] = Idle] /\ late' = Settled(tx')
  /\ UNCHANGED <<role, enabled, login, req>>

-----------------------------------------------------------------------------
(* Unguarded changes. *)

\* set_user_role to administrator takes no guard, nor does the creation of an administrator.
Promote(u) ==
  /\ role[u] = "viewer" /\ u \notin Locked(None)
  /\ role' = [role EXCEPT ![u] = "admin"]
  /\ late' = IF ~Outrun /\ \E t \in Txs : tx[t].pc # "idle" THEN late \cup {u} ELSE late
  /\ req' = Seen(u, "admin", enabled[u])
  /\ UNCHANGED <<enabled, tx, login>>

ResetPassword(u) ==
  /\ login' = Revoked(u) /\ UNCHANGED <<role, enabled, tx, req, late>>

\* change_own_password reads the account again, and keeps the session it is asked in.
ChangeOwnPassword(s) ==
  /\ req[s].pc = "served"
  /\ enabled[login[s].user]
  /\ login' = [Revoked(login[s].user) EXCEPT ![s] = login[s]]
  /\ UNCHANGED <<role, enabled, tx, req, late>>

-----------------------------------------------------------------------------
(* A login is two transactions: authenticate_user, create_session. *)

Authenticate(s, u) ==
  /\ login[s].pc = "none" /\ enabled[u]
  /\ login' = [login EXCEPT ![s] = [user |-> u, pc |-> "authenticated"]]
  /\ UNCHANGED <<role, enabled, tx, req, late>>

CreateSession(s) ==
  /\ login[s].pc = "authenticated" /\ login' = [login EXCEPT ![s].pc = "open"]
  /\ UNCHANGED <<role, enabled, tx, req, late>>

-----------------------------------------------------------------------------
(* A request: actor_for_session_token reads twice, the handler runs as who it found. *)

Arrive(s) ==
  /\ login[s].pc \in {"open", "revoked"} /\ req[s].pc = "none"
  /\ req' = [req EXCEPT ![s] = [pc |-> "arrived", open |-> login[s].pc = "open", actor |-> None,
        rows |-> {[role |-> role[login[s].user], enabled |-> enabled[login[s].user]]}]]
  /\ UNCHANGED <<role, enabled, tx, login, late>>

FindSession(s) ==
  /\ req[s].pc = "arrived"
  /\ req' = [req EXCEPT ![s] = IF login[s].pc = "open" THEN [@ EXCEPT !.pc = "found"] ELSE Quiet]
  /\ UNCHANGED <<role, enabled, tx, login, late>>

\* Wrong: disabling an account is trusted to have revoked its sessions.
ReadAnyActor(s) ==
  /\ req[s].pc = "found"
  /\ req' = [req EXCEPT ![s].pc = "served",
        ![s].actor = [role |-> role[login[s].user], enabled |-> enabled[login[s].user]]]
  /\ UNCHANGED <<role, enabled, tx, login, late>>

\* A disabled account loses the session it comes with.
ReadActor(s) ==
  /\ req[s].pc = "found"
  /\ IF enabled[login[s].user]
     THEN /\ req' = [req EXCEPT ![s].pc = "served",
                ![s].actor = [role |-> role[login[s].user], enabled |-> TRUE]]
          /\ UNCHANGED login
     ELSE req' = [req EXCEPT ![s] = Quiet] /\ login' = [login EXCEPT ![s].pc = "revoked"]
  /\ UNCHANGED <<role, enabled, tx, late>>

Answer(s) ==
  /\ req[s].pc = "served" /\ \A t \in Txs : tx[t].by # s
  /\ req' = [req EXCEPT ![s] = Quiet] /\ UNCHANGED <<role, enabled, tx, login, late>>

\* logout, revoke_session_by_id, and the end of its time
RevokeSession(s) ==
  /\ login[s].pc = "open" /\ login' = [login EXCEPT ![s].pc = "revoked"]
  /\ UNCHANGED <<role, enabled, tx, req, late>>

Next ==
  \/ \E t \in Txs : \/ LockGuard(t) \/ Decide(t) \/ WriteGuarded(t) \/ Rollback(t)
                    \/ \E u \in Users, disable \in BOOLEAN, by \in Logins \cup {None} :
                         BeginGuarded(t, u, disable, by)
  \/ \E u \in Users : Promote(u) \/ ResetPassword(u)
  \/ \E s \in Logins : \/ CreateSession(s) \/ Arrive(s) \/ FindSession(s) \/ ReadActor(s) \/ Answer(s)
                       \/ ChangeOwnPassword(s) \/ RevokeSession(s)
                       \/ \E u \in Users : Authenticate(s, u)

Spec == Init /\ [][Next]_vars

-----------------------------------------------------------------------------
(* Properties. *)

\* users.py:60 "Raised when an account operation would remove the last enabled admin":
\* whatever runs at once, someone is left to administer.
AnAdminRemains == EnabledAdmins # {}

\* That holds until two promotions have been committed while guarded changes were under way.
AccountsInv == TypeOK /\ (Outrun \/ AnAdminRemains)

\* Why it does.  Administrators who are not promoted late only ever leave: those there are
\* were in every snapshot, and whoever has locked has locked them, so that two who have are
\* there only when there are none.  A change that is about to be written leaves another
\* administrator, or its account is none.
Guards(t) ==
  /\ tx[t].pc = "guard" => EnabledAdmins \ late \subseteq tx[t].seen
  /\ tx[t].pc \in {"decide", "write"} => EnabledAdmins \ late \subseteq tx[t].held
  /\ tx[t].pc \in {"idle", "guard"} => tx[t].held = {}
  /\ tx[t].pc = "write" => EnabledAdmins # {tx[t].user}

LocksDiffer == \A t, u \in Txs : t # u => tx[t].held \cap tx[u].held = {}

IInv ==
  /\ TypeOK
  /\ \A t \in Txs : tx[t].pc # "idle" => tx[t].user \in Users
  /\ \A s \in Logins : login[s].pc # "none" => login[s].user \in Users
  /\ Outrun \/ (AnAdminRemains /\ LocksDiffer /\ \A t \in Txs : Guards(t))

\* A request is served only if its session was open when it came, and as an account that has
\* been enabled, and had the role it is served with, since it came: whatever is revoked,
\* disabled or demoted between its two reads or between two statements of a login.  What an
\* administrator's request still changes after that, an administrator has asked for.
ServedInForce(s) ==
  req[s].pc = "served" => req[s].open /\ req[s].actor \in req[s].rows /\ req[s].actor.enabled

AskedInForce(t) ==
  tx[t].by # None => req[tx[t].by].pc = "served" /\ AdminRow \in req[tx[t].by].rows

RequestsInForce == (\A s \in Logins : ServedInForce(s)) /\ (\A t \in Txs : AskedInForce(t))

\* Why that holds: the rows of a request hold what the account is, and a session that is
\* found open was open.
Follows(s) ==
  /\ req[s].pc # "none" =>
       /\ login[s].pc \in {"open", "revoked"}
       /\ [role |-> role[login[s].user], enabled |-> enabled[login[s].user]] \in req[s].rows
  /\ req[s].pc = "arrived" => (login[s].pc = "open" => req[s].open)
  /\ req[s].pc = "found" => req[s].open

RInv == RequestsInForce /\ \A s \in Logins : Follows(s)

=============================================================================
