---------------------------- MODULE Installation ----------------------------
(***************************************************************************)
(* The first start of a managed installation: a marker in an empty         *)
(* database, the schema and its profiles, then the first administrator.    *)
(* `init-schema' keeps an advisory lock on the connection it writes the    *)
(* marker with; migrations and profiles go through connections of their    *)
(* own, so that a process that has lost its lock goes on with them.        *)
(* `setup-admin' is one transaction that has locked the table of users     *)
(* against every INSERT.                                                   *)
(***************************************************************************)
EXTENDS Naturals, FiniteSets, Sequences

CONSTANTS Installers,  \* processes that run `init-schema'
          Setups,      \* processes that run `setup-admin'
          Writers,     \* transactions that insert another account
          Ids,         \* identities the processes may be configured with
          None

VARIABLES foreign,    \* the database held tables of somebody else at first
          marker,     \* the row of gjallar_installation
          migrated, seeded, history,
          advisory,   \* the process whose connection holds the advisory lock
          inst, setup,
          users,      \* committed accounts, in order
          inserting   \* writers whose account is not committed

vars == <<foreign, marker, migrated, seeded, history, advisory, inst, setup, users, inserting>>
schema == <<foreign, marker, migrated, seeded, history, advisory, inst>>
people == <<setup, users, inserting>>

States == {"initializing", "schema_ready", "ready"}

TypeOK ==
  /\ foreign \in BOOLEAN /\ migrated \in BOOLEAN /\ seeded \in BOOLEAN /\ history \in BOOLEAN
  /\ marker \in [id : Ids, state : States] \cup {None}
  /\ advisory \in Installers \cup {None}
  /\ inst \in [Installers -> [pc : {"idle", "mark", "migrate", "seed", "finish"}, id : Ids]]
  /\ setup \in [Setups -> [pc : {"idle", "check", "insert"}, id : Ids]]
  /\ users \in Seq({"founder", "other"}) /\ inserting \subseteq Writers

Init ==
  /\ foreign \in BOOLEAN
  /\ migrated \in {FALSE, foreign}  \* a manual deployment
  /\ marker = None /\ seeded = FALSE /\ history = FALSE /\ advisory = None
  /\ inst \in [Installers -> [pc : {"idle"}, id : Ids]]
  /\ setup \in [Setups -> [pc : {"idle"}, id : Ids]]
  /\ users = <<>> /\ inserting = {}

-----------------------------------------------------------------------------
(* initialize_schema *)

Go(i, pc) == inst' = [inst EXCEPT ![i].pc = pc]
Unlocked(i) == advisory' = IF advisory = i THEN None ELSE advisory

Start(i) ==
  /\ inst[i].pc = "idle" /\ advisory = None
  /\ advisory' = i /\ Go(i, "mark")
  /\ UNCHANGED <<foreign, marker, migrated, seeded, history, people>>

Mark(i) ==
  /\ inst[i].pc = "mark" /\ advisory = i
  /\ \/ /\ marker = None /\ ~foreign
        /\ marker' = [id |-> inst[i].id, state |-> "initializing"]
        /\ Go(i, "migrate") /\ UNCHANGED advisory
     \/ /\ marker # None /\ marker.id = inst[i].id /\ marker.state = "initializing"
        /\ Go(i, "migrate") /\ UNCHANGED <<marker, advisory>>
     \/ /\ IF marker = None THEN foreign
           ELSE marker.id # inst[i].id \/ marker.state # "initializing"
        /\ Go(i, "idle") /\ Unlocked(i) /\ UNCHANGED marker
  /\ UNCHANGED <<foreign, migrated, seeded, history, people>>

\* All revisions in one transaction of another connection; nothing to do at the head.
Migrate(i) ==
  /\ inst[i].pc = "migrate" /\ migrated' = TRUE /\ Go(i, "seed")
  /\ UNCHANGED <<foreign, marker, seeded, history, advisory, people>>

\* Only an empty table gets the profiles.
Seed(i) ==
  /\ inst[i].pc = "seed" /\ seeded' = TRUE /\ Go(i, "finish")
  /\ UNCHANGED <<foreign, marker, migrated, history, advisory, people>>

\* The update needs the connection that holds the lock.
Finish(i) ==
  /\ inst[i].pc = "finish"
  /\ marker' = IF advisory = i THEN [marker EXCEPT !.state = "schema_ready"] ELSE marker
  /\ Go(i, "idle") /\ Unlocked(i)
  /\ UNCHANGED <<foreign, migrated, seeded, history, people>>

\* A crash, or an error of the database.
Abort(i) ==
  /\ inst[i].pc # "idle" /\ Go(i, "idle") /\ Unlocked(i)
  /\ UNCHANGED <<foreign, marker, migrated, seeded, history, people>>

\* The connection is lost, the process is not.
LoseConnection(i) ==
  /\ advisory = i /\ advisory' = None
  /\ UNCHANGED <<foreign, marker, migrated, seeded, history, inst, people>>

-----------------------------------------------------------------------------
(* setup_admin *)

SetGo(s, pc) == setup' = [setup EXCEPT ![s].pc = pc]
TableLocked == \E s \in Setups : setup[s].pc # "idle"

\* Wrong: the table is not locked, a SELECT sees committed accounts only.
LockUsersNot(s) ==
  /\ migrated /\ setup[s].pc = "idle" /\ ~TableLocked
  /\ SetGo(s, "check") /\ UNCHANGED <<schema, users, inserting>>

\* LOCK TABLE users IN EXCLUSIVE MODE waits for every INSERT that is not committed.
LockUsers(s) ==
  /\ migrated /\ setup[s].pc = "idle" /\ ~TableLocked /\ inserting = {}
  /\ SetGo(s, "check") /\ UNCHANGED <<schema, users, inserting>>

CheckFresh(s) ==
  /\ setup[s].pc = "check"
  /\ SetGo(s, IF marker # None /\ marker.id = setup[s].id /\ marker.state = "schema_ready"
                 /\ ~history /\ users = <<>> THEN "insert" ELSE "idle")
  /\ UNCHANGED <<schema, users, inserting>>

\* The account, its audit event and the marker are one commit.
InsertFounder(s) ==
  /\ setup[s].pc = "insert"
  /\ users' = Append(users, "founder") /\ marker' = [marker EXCEPT !.state = "ready"]
  /\ SetGo(s, "idle")
  /\ UNCHANGED <<foreign, migrated, seeded, history, advisory, inst, inserting>>

AbortSetup(s) ==
  /\ setup[s].pc # "idle" /\ SetGo(s, "idle") /\ UNCHANGED <<schema, users, inserting>>

-----------------------------------------------------------------------------
(* create_user and bootstrap_admin_from_env, and work that leaves history. *)

InsertUser(w) ==
  /\ migrated /\ w \notin inserting
  /\ Len(users) < Cardinality(Writers)  \* the bound on accounts
  /\ \A s \in Setups : setup[s].pc = "idle"
  /\ inserting' = inserting \cup {w} /\ UNCHANGED <<schema, setup, users>>

CommitUser(w) ==
  /\ w \in inserting /\ inserting' = inserting \ {w} /\ users' = Append(users, "other")
  /\ UNCHANGED <<schema, setup>>

Work ==
  /\ migrated /\ ~history /\ history' = TRUE
  /\ UNCHANGED <<foreign, marker, migrated, seeded, advisory, inst, people>>

Next ==
  \/ \E i \in Installers : Start(i) \/ Mark(i) \/ Migrate(i) \/ Seed(i) \/ Finish(i)
                           \/ Abort(i) \/ LoseConnection(i)
  \/ \E s \in Setups : LockUsers(s) \/ CheckFresh(s) \/ InsertFounder(s) \/ AbortSetup(s)
  \/ \E w \in Writers : InsertUser(w) \/ CommitUser(w)
  \/ Work

Spec == Init /\ [][Next]_vars

-----------------------------------------------------------------------------
(* Properties. *)

\* "Blocks every users INSERT, including existing admin APIs/legacy CLI": the account that
\* makes an installation ready is the first of all, and there is one of its kind.
FounderFirst ==
  /\ marker # None => (marker.state = "ready" => users # <<>> /\ users[1] = "founder")
  /\ \A n \in DOMAIN users : users[n] = "founder" => n = 1

\* A marker is never put on somebody else's tables, and says ready only of a whole schema.
MarkerIsTrue ==
  marker # None => /\ ~foreign
                   /\ marker.state \in {"schema_ready", "ready"} => migrated /\ seeded

\* A ready installation is never initialised again, whoever started before it was ready and
\* lost its lock since, and its identity never changes.
MarkerStep ==
  marker' # marker /\ marker # None =>
    /\ marker'.id = marker.id
    /\ marker.state # "ready"
    /\ marker.state = "schema_ready" => marker'.state = "ready"

\* The marker of an installation is true when it is written, stays, and ends with its founder.
InstallationInv == TypeOK /\ FounderFirst /\ MarkerIsTrue
\* Why: whoever still has the lock has a marker that is being initialised; whoever has locked
\* the accounts is alone, with no account on its way, and once it has checked there is none.
Installs(i) ==
  /\ inst[i].pc \in {"seed", "finish"} => migrated
  /\ inst[i].pc = "finish" => seeded
  /\ advisory = i /\ inst[i].pc \in {"migrate", "seed", "finish"} =>
       marker # None /\ marker.state = "initializing"
Founds(s) ==
  /\ setup[s].pc # "idle" => inserting = {} /\ \A r \in Setups \ {s} : setup[r].pc = "idle"
  /\ setup[s].pc = "insert" => marker # None /\ marker.state = "schema_ready" /\ users = <<>>
IInv == InstallationInv /\ (\A i \in Installers : Installs(i)) /\ \A s \in Setups : Founds(s)

InstallationIsKept == []InstallationInv /\ [][MarkerStep]_vars

=============================================================================
