--------------------------- MODULE ServicesProofs ---------------------------
(***************************************************************************)
(* Theorems about the services around the operations.  They are stated of  *)
(* MCServices, in which each service is one part; the lemmas are about the *)
(* service alone (its steps are Prefix!Next), and a service keeps the      *)
(* names of its own module behind its prefix.  Its variables, as           *)
(* MCServices names them:                                                  *)
(*                                                                         *)
(*   People     x1 role, x2 enabled, x3 tx, x4 login, x5 req, x6 late      *)
(*   Setup      x1 foreign, x2 marker, x3 migrated, x4 seeded,             *)
(*              x5 history, x6 advisory, x7 inst, x8 setup, x9 users,      *)
(*              x10 inserting                                              *)
(*   Observing  x1 version, x2 rec, x3 call, x4 asked                      *)
(*   Evidence   x1 kind, x2 world, x3 before, x4 phase, x5 drifts,         *)
(*              x6 maker                                                   *)
(*   Powers     x1 intent, x2 work, x3 sent                                *)
(*   Network    x1 net, x2 review, x3 op, x4 rec, x5 act, x6 history       *)
(*   Planning   x1 world, x2 snapshot, x3 shown, x4 op, x5 request, x6 lock,*)
(*              x7 call, x8 sent, x9 changes                               *)
(***************************************************************************)
EXTENDS MCServices, Sequences, FiniteSetTheorems, TLAPS

-----------------------------------------------------------------------------
(* Accounts. *)

Roles == {"viewer", "admin"}
TxRows == [pc : {"idle", "guard", "decide", "write"}, user : Users \cup {None}, disable : BOOLEAN,
           seen : SUBSET Users, held : SUBSET Users, by : Logins \cup {None}]
LoginRows == [user : Users \cup {None}, pc : {"none", "authenticated", "open", "revoked"}]

\* An account as a request meets it.
RowOf(u) == [role |-> x1[u], enabled |-> x2[u]]

\* The types of the accounts, and what the guard of the administrators rests on.
Typed ==
  /\ x1 \in [Users -> Roles] /\ x2 \in [Users -> BOOLEAN]
  /\ x3 \in [Txs -> TxRows] /\ x4 \in [Logins -> LoginRows] /\ x5 \in [Logins -> People!RequestRows]
  /\ x6 \in SUBSET Users
  /\ \A t \in Txs : x3[t].pc # "idle" => x3[t].user \in Users
  /\ \A s \in Logins : x4[s].pc # "none" => x4[s].user \in Users

Guarded == People!EnabledAdmins # {} /\ People!LocksDiffer /\ \A t \in Txs : People!Guards(t)

\* The invariant of the accounts in these words.
LEMMA AccountRows == People!IInv <=> Typed /\ (People!Outrun \/ Guarded)
  BY DEF People!IInv, People!TypeOK, People!AnAdminRemains, Typed, Guarded, TxRows, LoginRows, Roles

\* The rows one by one.
LEMMA RowTypes ==
  ASSUME Typed
  PROVE  /\ \A u \in Users : x1[u] \in Roles /\ x2[u] \in BOOLEAN /\ RowOf(u) \in People!Rows
         /\ \A t \in Txs : x3[t] \in TxRows
         /\ \A s \in Logins : x4[s] \in LoginRows /\ x5[s] \in People!RequestRows
  BY DEF Typed, RowOf, People!Rows, Roles

\* A transaction that is over holds nothing and was asked for by nobody.
LEMMA IdleTx ==
  /\ People!Idle \in TxRows /\ People!Idle.pc = "idle" /\ People!Idle.held = {} /\ People!Idle.by = None
  BY DEF People!Idle, TxRows

\* A request that is over.
LEMMA QuietRequest == People!Quiet \in People!RequestRows /\ People!Quiet.pc = "none"
  BY DEF People!Quiet, People!RequestRows

\* Sessions are revoked.
LEMMA RevokedRows ==
  ASSUME Typed, NEW u
  PROVE  /\ People!Revoked(u) \in [Logins -> LoginRows]
         /\ \A s \in Logins : /\ People!Revoked(u)[s].user = x4[s].user
                              /\ \/ People!Revoked(u)[s].pc = x4[s].pc
                                 \/ x4[s].pc = "open" /\ People!Revoked(u)[s].pc = "revoked"
  <1>1. ASSUME NEW s \in Logins
        PROVE  /\ x4[s] \in LoginRows
               /\ [x4[s] EXCEPT !.pc = "revoked"] \in LoginRows
               /\ [x4[s] EXCEPT !.pc = "revoked"].user = x4[s].user
               /\ [x4[s] EXCEPT !.pc = "revoked"].pc = "revoked"
    BY RowTypes DEF LoginRows
  <1> QED BY <1>1 DEF People!Revoked

\* The requests of an account meet it with a new row.
LEMMA SeenRows ==
  ASSUME Typed, NEW u, NEW r \in Roles, NEW e \in BOOLEAN, NEW f, f = People!Seen(u, r, e)
  PROVE  /\ f \in [Logins -> People!RequestRows]
         /\ \A s \in Logins :
              /\ f[s].pc = x5[s].pc /\ f[s].open = x5[s].open /\ f[s].actor = x5[s].actor
              /\ x5[s].rows \subseteq f[s].rows
              /\ x5[s].pc # "none" /\ x4[s].user = u => [role |-> r, enabled |-> e] \in f[s].rows
  <1> DEFINE row == [role |-> r, enabled |-> e]
  <1>1. row \in People!Rows
    BY DEF People!Rows, Roles
  <1> HIDE DEF row
  <1>2. ASSUME NEW s \in Logins
        PROVE  LET q == [x5[s] EXCEPT !.rows = @ \cup {row}] IN
               /\ x5[s] \in People!RequestRows /\ q \in People!RequestRows
               /\ q.pc = x5[s].pc /\ q.open = x5[s].open /\ q.actor = x5[s].actor
               /\ q.rows = x5[s].rows \cup {row}
    BY <1>1, RowTypes DEF People!RequestRows
  <1>3. f =
          [s \in Logins |-> IF x5[s].pc # "none" /\ x4[s].user = u
                            THEN [x5[s] EXCEPT !.rows = @ \cup {row}] ELSE x5[s]]
    BY DEF People!Seen, row
  <1> QED BY <1>2, <1>3 DEF row

\* The requests f have met account u with a row, and are as they were but for it.
Meets(f, u, r, e) ==
  \A s \in Logins :
    /\ f[s].pc = x5[s].pc /\ f[s].open = x5[s].open /\ f[s].actor = x5[s].actor
    /\ x5[s].rows \subseteq f[s].rows
    /\ x5[s].pc # "none" /\ x4[s].user = u => [role |-> r, enabled |-> e] \in f[s].rows

\* So they are when they have met it.
LEMMA SeenMeets ==
  ASSUME Typed, NEW u, NEW r \in Roles, NEW e \in BOOLEAN, NEW f, f = People!Seen(u, r, e)
  PROVE  Meets(f, u, r, e)
  <1>1. \A s \in Logins :
          /\ f[s].pc = x5[s].pc /\ f[s].open = x5[s].open /\ f[s].actor = x5[s].actor
          /\ x5[s].rows \subseteq f[s].rows
          /\ x5[s].pc # "none" /\ x4[s].user = u => [role |-> r, enabled |-> e] \in f[s].rows
    BY SeenRows
  <1> QED BY <1>1 DEF Meets

\* While promotions are counted.
LEMMA LateTyped ==
  ASSUME Typed, x6' = x6 \/ x6' = People!Settled(x3')
  PROVE  /\ x6' \in SUBSET Users
         /\ People!Outrun => People!Outrun'
         /\ x6' = x6 \/ \A t \in Txs : x3'[t].pc = "idle"
  BY DEF Typed, People!Settled, People!Outrun

-----------------------------------------------------------------------------
(* Accounts: the last administrator. *)

\* Nobody changes: the accounts' part of the invariant is that of the transactions.
LEMMA SameAdmins ==
  ASSUME UNCHANGED <<x1, x2>>
  PROVE  People!EnabledAdmins' = People!EnabledAdmins
  BY DEF People!EnabledAdmins

\* Of two changes that have locked, one has locked every administrator there is that was not
\* promoted late: the other, none.
LEMMA OneLocksAll ==
  ASSUME Guarded, NEW t \in Txs, NEW u \in Txs, t # u,
         x3[t].pc \in {"decide", "write"}, x3[u].pc \in {"decide", "write"}
  PROVE  People!EnabledAdmins \subseteq x6
  <1>1. /\ People!EnabledAdmins \ x6 \subseteq x3[t].held
        /\ People!EnabledAdmins \ x6 \subseteq x3[u].held
        /\ x3[t].held \cap x3[u].held = {}
    BY DEF Guarded, People!Guards, People!LocksDiffer
  <1> QED BY <1>1

\* A step of one guarded transaction that changes no account.
LEMMA TxKept ==
  ASSUME Typed, NEW t \in Txs, NEW y \in TxRows, x3' = [x3 EXCEPT ![t] = y],
         y.pc # "idle" => y.user \in Users,
         UNCHANGED <<x1, x2, x4, x5>>, x6' = x6 \/ x6' = People!Settled(x3'),
         Guarded /\ x6' = x6 => People!Guards(t)',
         y.pc = "idle" => y.held = {},
         Guarded => \A u \in Txs \ {t} : y.held \cap x3[u].held = {}
  PROVE  Typed' /\ (People!Outrun => People!Outrun') /\ (Guarded => Guarded')
  <1>1. x3' \in [Txs -> TxRows] /\ x3'[t] = y /\ \A u \in Txs \ {t} : x3'[u] = x3[u]
    BY DEF Typed
  <1>2. People!EnabledAdmins' = People!EnabledAdmins
    BY SameAdmins
  <1>3. Typed'
    BY <1>1, LateTyped DEF Typed
  <1>4. ASSUME Guarded, NEW u \in Txs
        PROVE  People!Guards(u)'
    <2>1. CASE x6' # x6
      <3>1. x3'[u].pc = "idle"
        BY <2>1, LateTyped
      <3>2. x3'[u].held = {}
        BY <1>1, <1>4, <3>1 DEF Guarded, People!Guards
      <3> QED BY <3>1, <3>2 DEF People!Guards
    <2>2. CASE x6' = x6 /\ u # t
      <3>1. x3'[u] = x3[u] /\ People!Guards(u)
        BY <1>1, <1>4, <2>2 DEF Guarded
      <3> QED BY <1>2, <2>2, <3>1 DEF People!Guards
    <2>3. CASE x6' = x6 /\ u = t
      BY <1>4, <2>3
    <2> QED BY <2>1, <2>2, <2>3
  <1>5. ASSUME Guarded
        PROVE  People!LocksDiffer'
    <2>1. ASSUME NEW u \in Txs, NEW v \in Txs, u # v
          PROVE  x3'[u].held \cap x3'[v].held = {}
      <3>1. CASE u = t
        BY <1>1, <1>5, <2>1, <3>1
      <3>2. CASE v = t
        BY <1>1, <1>5, <2>1, <3>2
      <3>3. CASE u # t /\ v # t
        BY <1>1, <1>5, <2>1, <3>3 DEF Guarded, People!LocksDiffer
      <3> QED BY <3>1, <3>2, <3>3
    <2> QED BY <2>1 DEF People!LocksDiffer
  <1>6. Guarded => Guarded'
    BY <1>2, <1>4, <1>5 DEF Guarded
  <1> QED BY <1>3, <1>6, LateTyped

\* A snapshot is taken.
LEMMA BeginKept ==
  ASSUME Typed, NEW t \in Txs, NEW u \in Users, NEW disable \in BOOLEAN, NEW by \in Logins \cup {None},
         People!BeginGuarded(t, u, disable, by)
  PROVE  Typed' /\ (People!Outrun => People!Outrun') /\ (Guarded => Guarded')
  <1> DEFINE y == [pc |-> "guard", user |-> u, disable |-> disable,
                   seen |-> People!EnabledAdmins, held |-> {}, by |-> by]
  <1>1. y \in TxRows /\ y.pc = "guard" /\ y.user = u /\ y.seen = People!EnabledAdmins /\ y.held = {}
    BY DEF TxRows, People!EnabledAdmins
  <1>2. x3' = [x3 EXCEPT ![t] = y] /\ UNCHANGED <<x1, x2, x4, x5, x6>>
    BY DEF People!BeginGuarded
  <1> HIDE DEF y
  <1>3. x3'[t] = y
    BY <1>2 DEF Typed
  <1>4. People!Guards(t)'
    BY <1>1, <1>2, <1>3, SameAdmins DEF People!Guards
  <1> QED BY <1>1, <1>2, <1>4, TxKept

\* The rows are locked once nobody else holds one: none of those that are left is missing.
LEMMA LockKept ==
  ASSUME Typed, NEW t \in Txs, People!LockGuard(t)
  PROVE  Typed' /\ (People!Outrun => People!Outrun') /\ (Guarded => Guarded')
  <1> DEFINE held == x3[t].seen \cap People!EnabledAdmins
  <1> DEFINE y == [x3[t] EXCEPT !.pc = "decide", !.held = held, !.seen = {}]
  <1>1. x3[t] \in TxRows /\ x3[t].pc = "guard" /\ x3[t].user \in Users
    BY DEF Typed, People!LockGuard
  <1>2. y \in TxRows /\ y.pc = "decide" /\ y.user = x3[t].user /\ y.held = held
    BY <1>1 DEF TxRows
  <1>3. x3' = [x3 EXCEPT ![t] = y] /\ UNCHANGED <<x1, x2, x4, x5, x6>>
    BY DEF People!LockGuard, Typed
  <1> HIDE DEF y
  <1>4. x3'[t] = y
    BY <1>3 DEF Typed
  <1>5. Guarded => People!Guards(t)'
    BY <1>1, <1>2, <1>3, <1>4, SameAdmins DEF People!Guards, Guarded
  <1>6. ASSUME NEW u \in Txs \ {t}
        PROVE  y.held \cap x3[u].held = {}
    <2>1. x3[u].held \subseteq People!Locked(t)
      BY DEF People!Locked
    <2>2. x3[t].seen \cap People!Locked(t) = {}
      BY DEF People!LockGuard
    <2> QED BY <1>2, <2>1, <2>2
  <1> QED BY <1>1, <1>2, <1>3, <1>5, <1>6, TxKept

\* The accounts count with the Cardinality of their own instance of FiniteSets.
LEMMA SameCount == \A S : People!Cardinality(S) = Cardinality(S)
  BY DEF People!Cardinality, Cardinality

\* A transaction gives up: refused, rolled back or lost.
LEMMA IdleKept ==
  ASSUME Typed, NEW t \in Txs, x3' = [x3 EXCEPT ![t] = People!Idle],
         UNCHANGED <<x1, x2, x4, x5>>, x6' = People!Settled(x3')
  PROVE  Typed' /\ (People!Outrun => People!Outrun') /\ (Guarded => Guarded')
  <1>1. x3'[t] = People!Idle
    BY DEF Typed
  <1>2. People!Guards(t)'
    BY <1>1, IdleTx DEF People!Guards
  <1> QED BY <1>2, IdleTx, TxKept

\* The last enabled administrator is counted, and stays.
LEMMA DecideKept ==
  ASSUME Typed, NEW t \in Txs, People!Decide(t)
  PROVE  Typed' /\ (People!Outrun => People!Outrun') /\ (Guarded => Guarded')
  <1>1. /\ x3[t] \in TxRows /\ x3[t].pc = "decide" /\ x3[t].user \in Users
        /\ UNCHANGED <<x1, x2, x4, x5>> /\ x6' = People!Settled(x3')
    BY DEF Typed, People!Decide
  <1>2. CASE x3' = [x3 EXCEPT ![t] = People!Idle]
    BY <1>1, <1>2, IdleKept
  <1>3. CASE /\ ~(x3[t].user \in People!EnabledAdmins /\ Cardinality(People!EnabledAdmins) <= 1)
             /\ x3' = [x3 EXCEPT ![t] = [x3[t] EXCEPT !.pc = "write"]]
    <2> DEFINE y == [x3[t] EXCEPT !.pc = "write"]
    <2>1. y \in TxRows /\ y.pc = "write" /\ y.user = x3[t].user /\ y.held = x3[t].held
      BY <1>1 DEF TxRows
    <2>2. x3'[t] = y
      BY <1>3 DEF Typed
    <2>6. x3' = [x3 EXCEPT ![t] = y]
      BY <1>3
    <2> HIDE DEF y
    <2>3. People!EnabledAdmins # {x3[t].user}
      <3>1. Cardinality({x3[t].user}) = 1
        BY FS_Singleton
      <3> QED BY <1>3, <3>1
    <2>4. Guarded /\ x6' = x6 => People!Guards(t)'
      BY <1>1, <2>1, <2>2, <2>3, SameAdmins DEF People!Guards, Guarded
    <2>5. Guarded => \A u \in Txs \ {t} : y.held \cap x3[u].held = {}
      BY <2>1 DEF Guarded, People!LocksDiffer
    <2> QED BY <1>1, <2>1, <2>4, <2>5, <2>6, TxKept
  <1> QED BY <1>2, <1>3, SameCount DEF People!Decide, Typed

\* What a write does.
LEMMA Written ==
  ASSUME Typed, NEW t \in Txs, People!WriteGuarded(t)
  PROVE  LET u == x3[t].user IN
         /\ u \in Users /\ x3[t].pc = "write" /\ x3' = [x3 EXCEPT ![t] = People!Idle]
         /\ x1' \in [Users -> Roles] /\ x2' \in [Users -> BOOLEAN] /\ x4' \in [Logins -> LoginRows]
         /\ x5' = People!Seen(u, x1'[u], x2'[u]) /\ x6' = People!Settled(x3')
         /\ People!EnabledAdmins' = People!EnabledAdmins \ {u}
         /\ \A v \in Users \ {u} : x1'[v] = x1[v] /\ x2'[v] = x2[v]
         /\ x4' = x4 \/ x4' = People!Revoked(u)
         /\ \A s \in Logins : x4'[s].pc # "none" => x4'[s].user \in Users
  <1> DEFINE u == x3[t].user
  <1>1. /\ x3[t].pc = "write" /\ u \in Users /\ x3' = [x3 EXCEPT ![t] = People!Idle]
        /\ x5' = People!Seen(u, x1'[u], x2'[u]) /\ x6' = People!Settled(x3')
    BY DEF People!WriteGuarded, Typed
  <1>2. \/ x2' = [x2 EXCEPT ![u] = FALSE] /\ x4' = People!Revoked(u) /\ x1' = x1
        \/ x1' = [x1 EXCEPT ![u] = "viewer"] /\ x2' = x2 /\ x4' = x4
    BY DEF People!WriteGuarded
  <1> HIDE DEF u
  <1>3. /\ x1' \in [Users -> Roles] /\ x2' \in [Users -> BOOLEAN] /\ x4' \in [Logins -> LoginRows]
        /\ \A v \in Users \ {u} : x1'[v] = x1[v] /\ x2'[v] = x2[v]
    BY <1>1, <1>2, RevokedRows DEF Typed, Roles
  <1>4. People!EnabledAdmins' = People!EnabledAdmins \ {u}
    <2>1. CASE x2' = [x2 EXCEPT ![u] = FALSE] /\ x1' = x1
      BY <1>1, <2>1 DEF People!EnabledAdmins, Typed
    <2>2. CASE x1' = [x1 EXCEPT ![u] = "viewer"] /\ x2' = x2
      BY <1>1, <2>2 DEF People!EnabledAdmins, Typed
    <2> QED BY <1>2, <2>1, <2>2
  <1>5. \A s \in Logins : x4'[s].pc # "none" => x4'[s].user \in Users
    BY <1>2, RevokedRows DEF Typed
  <1> QED BY <1>1, <1>2, <1>3, <1>4, <1>5 DEF u

\* An administrator may go: another is left, and whoever is about to write still leaves one.
LEMMA WriteKept ==
  ASSUME Typed, NEW t \in Txs, People!WriteGuarded(t)
  PROVE  Typed' /\ (People!Outrun => People!Outrun') /\ (Guarded /\ ~People!Outrun => Guarded')
  <1> DEFINE u == x3[t].user
  <1>1. /\ u \in Users /\ x3[t].pc = "write" /\ x3' = [x3 EXCEPT ![t] = People!Idle]
        /\ x1' \in [Users -> Roles] /\ x2' \in [Users -> BOOLEAN] /\ x4' \in [Logins -> LoginRows]
        /\ x5' = People!Seen(u, x1'[u], x2'[u]) /\ x6' = People!Settled(x3')
        /\ People!EnabledAdmins' = People!EnabledAdmins \ {u}
        /\ \A s \in Logins : x4'[s].pc # "none" => x4'[s].user \in Users
    BY Written
  <1> HIDE DEF u
  <1>2. x3' \in [Txs -> TxRows] /\ x3'[t] = People!Idle /\ \A v \in Txs \ {t} : x3'[v] = x3[v]
    BY <1>1, IdleTx DEF Typed
  <1>3. x5' \in [Logins -> People!RequestRows]
    BY <1>1, SeenRows
  <1>4. Typed'
    BY <1>1, <1>2, <1>3, LateTyped, IdleTx DEF Typed
  <1>5. ASSUME Guarded, ~People!Outrun
        PROVE  Guarded'
    <2>1. People!EnabledAdmins # {u} /\ People!EnabledAdmins # {}
      BY <1>1, <1>5 DEF Guarded, People!Guards, u
    <2>2. People!EnabledAdmins' # {}
      BY <1>1, <2>1
    <2>3. ASSUME NEW v \in Txs
          PROVE  People!Guards(v)'
      <3>1. CASE v = t
        BY <1>2, <3>1, IdleTx DEF People!Guards
      <3>2. CASE v # t /\ x6' = x6
        <4>1. x3'[v] = x3[v] /\ People!Guards(v)
          BY <1>2, <1>5, <3>2 DEF Guarded
        <4>2. ASSUME x3[v].pc = "write"
              PROVE  People!EnabledAdmins' # {x3[v].user}
          <5>1. People!EnabledAdmins \subseteq x6
            BY <1>1, <1>5, <3>2, <4>2, OneLocksAll
          <5>2. People!EnabledAdmins # {x3[v].user}
            BY <4>1, <4>2 DEF People!Guards
          <5>3. \A p, q \in People!EnabledAdmins : p = q
            BY <1>5, <5>1 DEF People!Outrun
          <5> QED BY <1>1, <2>1, <5>2, <5>3
        <4> QED BY <1>1, <3>2, <4>1, <4>2 DEF People!Guards
      <3>3. CASE v # t /\ x6' # x6
        <4>1. x3'[v].pc = "idle" /\ x3'[v] = x3[v] /\ People!Guards(v)
          BY <1>1, <1>2, <1>5, <3>3, LateTyped DEF Guarded
        <4> QED BY <4>1 DEF People!Guards
      <3> QED BY <3>1, <3>2, <3>3
    <2>4. People!LocksDiffer'
      <3>1. ASSUME NEW v \in Txs, NEW w \in Txs, v # w
            PROVE  x3'[v].held \cap x3'[w].held = {}
        <4>1. CASE v = t \/ w = t
          BY <1>2, <3>1, <4>1, IdleTx
        <4>2. CASE v # t /\ w # t
          BY <1>2, <1>5, <3>1, <4>2 DEF Guarded, People!LocksDiffer
        <4> QED BY <4>1, <4>2
      <3> QED BY <3>1 DEF People!LocksDiffer
    <2> QED BY <2>2, <2>3, <2>4 DEF Guarded
  <1> QED BY <1>1, <1>4, <1>5, LateTyped

\* A promotion adds an administrator that nobody's locks need to cover: it comes between guarded
\* changes, or is late.
LEMMA PromoteKept ==
  ASSUME Typed, NEW u \in Users, People!Promote(u)
  PROVE  /\ Typed' /\ (People!Outrun => People!Outrun')
         /\ Guarded => Guarded' \/ People!Outrun'
  <1>1. /\ x1' = [x1 EXCEPT ![u] = "admin"] /\ x5' = People!Seen(u, "admin", x2[u])
        /\ UNCHANGED <<x2, x3, x4>>
        /\ x6' = x6 \/ x6' = x6 \cup {u}
        /\ x6' = x6 /\ ~People!Outrun => \A t \in Txs : u \in x6 \/ x3[t].pc = "idle"
        /\ People!Outrun => x6' = x6
    BY DEF People!Promote
  <1>2. x1' \in [Users -> Roles] /\ x5' \in [Logins -> People!RequestRows]
    BY <1>1, SeenRows, RowTypes DEF Typed, Roles
  <1>3. Typed'
    BY <1>1, <1>2 DEF Typed
  <1>4. People!Outrun => People!Outrun'
    BY <1>1 DEF People!Outrun
  <1>5. ASSUME Guarded, ~People!Outrun
        PROVE  Guarded'
    <2>1. /\ People!EnabledAdmins \subseteq People!EnabledAdmins'
          /\ People!EnabledAdmins' \subseteq People!EnabledAdmins \cup {u}
      BY <1>1 DEF People!EnabledAdmins, Typed
    <2>2. ASSUME NEW t \in Txs, x3[t].pc # "idle"
          PROVE  People!EnabledAdmins' \ x6' \subseteq People!EnabledAdmins \ x6
      BY <1>1, <1>5, <2>1, <2>2
    <2>3. ASSUME NEW t \in Txs
          PROVE  People!Guards(t)'
      <3>1. x3'[t] = x3[t] /\ People!Guards(t) /\ People!EnabledAdmins # {}
        BY <1>1, <1>5 DEF Guarded
      <3>2. People!EnabledAdmins # {x3[t].user} => People!EnabledAdmins' # {x3[t].user}
        BY <2>1, <3>1
      <3> QED BY <2>2, <3>1, <3>2 DEF People!Guards
    <2>4. People!EnabledAdmins' # {} /\ People!LocksDiffer'
      BY <1>1, <1>5, <2>1 DEF Guarded, People!LocksDiffer
    <2> QED BY <2>3, <2>4 DEF Guarded
  <1> QED BY <1>3, <1>4, <1>5

\* Logins, sessions and requests concern no administrator.
LEMMA LoginKept ==
  ASSUME Typed, UNCHANGED <<x1, x2, x3, x6>>, x4' \in [Logins -> LoginRows],
         x5' \in [Logins -> People!RequestRows],
         \A s \in Logins : x4'[s].pc # "none" => x4'[s].user \in Users
  PROVE  Typed' /\ (People!Outrun => People!Outrun') /\ (Guarded => Guarded')
  <1>1. Typed'
    BY DEF Typed
  <1>2. People!EnabledAdmins' = People!EnabledAdmins /\ (People!Outrun => People!Outrun')
    BY SameAdmins DEF People!Outrun
  <1>3. ASSUME Guarded
        PROVE  Guarded'
    <2>1. ASSUME NEW t \in Txs
          PROVE  People!Guards(t)'
      <3>1. x3'[t] = x3[t] /\ People!Guards(t)
        BY <1>3 DEF Guarded
      <3> QED BY <1>2, <3>1 DEF People!Guards
    <2>2. People!LocksDiffer'
      BY <1>3 DEF Guarded, People!LocksDiffer
    <2> QED BY <1>2, <1>3, <2>1, <2>2 DEF Guarded
  <1> QED BY <1>1, <1>2, <1>3

\* What a step of a login, a session or a request changes: nothing but its own row, or the open
\* sessions of an account.
LEMMA SessionRows ==
  ASSUME Typed, People!RInv, NEW s \in Logins,
         \/ People!CreateSession(s) \/ People!ChangeOwnPassword(s) \/ People!RevokeSession(s)
         \/ People!Arrive(s) \/ People!FindSession(s) \/ People!ReadActor(s) \/ People!Answer(s)
         \/ \E u \in Users : People!Authenticate(s, u)
  PROVE  /\ UNCHANGED <<x1, x2, x3, x6>>
         /\ x4' \in [Logins -> LoginRows] /\ x5' \in [Logins -> People!RequestRows]
         /\ \A r \in Logins : x4'[r].pc # "none" => x4'[r].user \in Users
  <1>1. /\ x4[s] \in LoginRows /\ x5[s] \in People!RequestRows
        /\ \A p \in {"open", "revoked"} : [x4[s] EXCEPT !.pc = p] \in LoginRows
    BY RowTypes DEF LoginRows
  <1>2. CASE People!CreateSession(s) \/ People!RevokeSession(s)
    <2>1. PICK p \in {"open", "revoked"} : x4' = [x4 EXCEPT ![s] = [x4[s] EXCEPT !.pc = p]]
      BY <1>2 DEF People!CreateSession, People!RevokeSession, Typed
    <2>2. x4[s].user \in Users
      BY <1>2 DEF People!CreateSession, People!RevokeSession, Typed
    <2>3. [x4[s] EXCEPT !.pc = p].user = x4[s].user
      BY <1>1 DEF LoginRows
    <2> QED BY <1>1, <1>2, <2>1, <2>2, <2>3 DEF People!CreateSession, People!RevokeSession, Typed
  <1>3. CASE People!ChangeOwnPassword(s)
    BY <1>1, <1>3, RevokedRows DEF People!ChangeOwnPassword, Typed
  <1>4. ASSUME NEW u \in Users, People!Authenticate(s, u)
        PROVE  /\ UNCHANGED <<x1, x2, x3, x6>> /\ x4' \in [Logins -> LoginRows]
               /\ x5' \in [Logins -> People!RequestRows]
               /\ \A r \in Logins : x4'[r].pc # "none" => x4'[r].user \in Users
    <2>1. [user |-> u, pc |-> "authenticated"] \in LoginRows
      BY DEF LoginRows
    <2> QED BY <1>4, <2>1 DEF People!Authenticate, Typed
  <1>5. CASE People!Arrive(s)
    <2> DEFINE q == [pc |-> "arrived", open |-> x4[s].pc = "open", actor |-> None,
                     rows |-> {[role |-> x1[x4[s].user], enabled |-> x2[x4[s].user]]}]
    <2>1. x4[s].user \in Users
      BY <1>5 DEF People!Arrive, Typed
    <2>2. q \in People!RequestRows
      BY <2>1, RowTypes DEF People!RequestRows, RowOf
    <2>3. x5' = [x5 EXCEPT ![s] = q] /\ UNCHANGED <<x1, x2, x3, x4, x6>>
      BY <1>5 DEF People!Arrive
    <2> HIDE DEF q
    <2> QED BY <2>2, <2>3 DEF Typed
  <1>6. CASE People!FindSession(s)
    <2>1. [x5[s] EXCEPT !.pc = "found"] \in People!RequestRows
      BY <1>1 DEF People!RequestRows
    <2> QED BY <1>6, <2>1, QuietRequest DEF People!FindSession, Typed
  <1>7. CASE People!Answer(s)
    BY <1>7, QuietRequest DEF People!Answer, Typed
  <1>8. CASE People!ReadActor(s) /\ x4[s].user \in Users
    <2> DEFINE q == [x5[s] EXCEPT !.pc = "served", !.actor = [role |-> x1[x4[s].user], enabled |-> TRUE]]
    <2>1. [role |-> x1[x4[s].user], enabled |-> TRUE] \in People!Rows
      BY <1>8, RowTypes DEF People!Rows, Roles
    <2>2. q \in People!RequestRows
      BY <1>1, <2>1 DEF People!RequestRows
    <2>3. UNCHANGED <<x1, x2, x3, x6>>
      BY <1>8 DEF People!ReadActor
    <2>4. \/ x5' = [x5 EXCEPT ![s] = q] /\ x4' = x4
          \/ x5' = [x5 EXCEPT ![s] = People!Quiet] /\ x4' = [x4 EXCEPT ![s] = [x4[s] EXCEPT !.pc = "revoked"]]
      BY <1>8 DEF People!ReadActor, Typed
    <2> HIDE DEF q
    <2>5. [x4[s] EXCEPT !.pc = "revoked"].user = x4[s].user
      BY <1>1 DEF LoginRows
    <2> QED BY <1>1, <1>8, <2>2, <2>3, <2>4, <2>5, QuietRequest DEF Typed
  <1>9. x5[s].pc = "found" => x4[s].user \in Users
    BY DEF People!RInv, People!Follows, Typed
  <1>10. People!ReadActor(s) => x5[s].pc = "found"
    BY DEF People!ReadActor
  <1> QED BY <1>2, <1>3, <1>4, <1>5, <1>6, <1>7, <1>8, <1>9, <1>10

-----------------------------------------------------------------------------
(* Accounts: requests. *)

\* What is known of one session and its request.
Fits(s) == People!ServedInForce(s) /\ People!Follows(s)

\* The invariant of the requests in these words.
LEMMA RInvRows == People!RInv <=> (\A s \in Logins : Fits(s)) /\ (\A t \in Txs : People!AskedInForce(t))
  BY DEF People!RInv, People!RequestsInForce, Fits

\* A session nobody but the others touch: it may be revoked, its account may change, and then its
\* request has met it.
LEMMA FitsKept ==
  ASSUME NEW s \in Logins, Fits(s), x4'[s].user = x4[s].user,
         x4'[s].pc = x4[s].pc \/ (x4[s].pc = "open" /\ x4'[s].pc = "revoked"),
         x5'[s].pc = x5[s].pc, x5'[s].open = x5[s].open, x5'[s].actor = x5[s].actor,
         x5[s].rows \subseteq x5'[s].rows,
         x5[s].pc # "none" => RowOf(x4[s].user)' \in x5'[s].rows \/ UNCHANGED RowOf(x4[s].user)
  PROVE  Fits(s)'
  <1>1. x5[s].pc # "none" => RowOf(x4[s].user)' \in x5'[s].rows
    BY DEF Fits, People!Follows, RowOf
  <1>2. RowOf(x4[s].user)' = [role |-> x1'[x4'[s].user], enabled |-> x2'[x4'[s].user]]
    BY DEF RowOf
  <1>3. People!ServedInForce(s)'
    BY DEF Fits, People!ServedInForce
  <1>4. People!Follows(s)'
    BY <1>1, <1>2 DEF Fits, People!Follows
  <1> QED BY <1>3, <1>4 DEF Fits

\* A change that was asked for in force stays so while its request is served.
LEMMA AskedKept ==
  ASSUME Typed, NEW t \in Txs, People!AskedInForce(t), x3'[t].by \in {None, x3[t].by},
         \A s \in Logins : x5[s].pc = "served" =>
            (x5'[s].pc = "served" /\ x5[s].rows \subseteq x5'[s].rows) \/ x3[t].by # s
  PROVE  People!AskedInForce(t)'
  <1>1. x3[t].by \in Logins \cup {None}
    BY RowTypes DEF TxRows
  <1> QED BY <1>1 DEF People!AskedInForce, People!AdminRow

\* The steps of a guarded transaction up to its write.
LEMMA TxAsked ==
  ASSUME Typed, People!RInv, NEW t \in Txs,
         \/ People!LockGuard(t) \/ People!Decide(t) \/ People!Rollback(t)
  PROVE  People!RInv'
  <1>1. UNCHANGED <<x1, x2, x4, x5>>
    BY DEF People!LockGuard, People!Decide, People!Rollback
  <1>2. x3[t] \in TxRows /\ \A u \in Txs \ {t} : x3'[u] = x3[u]
    BY RowTypes DEF Typed, People!LockGuard, People!Decide, People!Rollback
  <1>3. x3'[t].by \in {None, x3[t].by}
    <2>1. CASE People!LockGuard(t)
      <3>1. x3'[t] = [x3[t] EXCEPT !.pc = "decide", !.held = x3[t].seen \cap People!EnabledAdmins, !.seen = {}]
        BY <2>1 DEF People!LockGuard, Typed
      <3> QED BY <1>2, <3>1 DEF TxRows
    <2>2. CASE People!Decide(t)
      <3>1. x3'[t] = People!Idle \/ x3'[t] = [x3[t] EXCEPT !.pc = "write"]
        BY <2>2 DEF People!Decide, Typed
      <3> QED BY <1>2, <3>1, IdleTx DEF TxRows
    <2>3. CASE People!Rollback(t)
      <3>1. x3'[t] = People!Idle
        BY <2>3 DEF People!Rollback, Typed
      <3> QED BY <3>1, IdleTx
    <2> QED BY <2>1, <2>2, <2>3
  <1>4. \A u \in Txs : People!AskedInForce(u)'
    BY <1>1, <1>2, <1>3, RInvRows, AskedKept
  <1>5. \A s \in Logins : Fits(s)'
    BY <1>1, RInvRows, FitsKept DEF RowOf
  <1> QED BY <1>4, <1>5, RInvRows DEF People!RInv, People!RequestsInForce, Fits

\* Whoever asks for a guarded change is served as an administrator that was in force.
LEMMA BeginAsked ==
  ASSUME Typed, People!RInv, NEW t \in Txs, NEW u \in Users, NEW disable \in BOOLEAN,
         NEW by \in Logins \cup {None}, People!BeginGuarded(t, u, disable, by)
  PROVE  People!RInv'
  <1>1. UNCHANGED <<x1, x2, x4, x5>> /\ People!MayAsk(by)
    BY DEF People!BeginGuarded
  <1>2. x3'[t].by = by /\ \A v \in Txs \ {t} : x3'[v] = x3[v]
    BY DEF Typed, People!BeginGuarded
  <1>3. ASSUME by # None
        PROVE  x5[by].pc = "served" /\ People!AdminRow \in x5[by].rows
    <2>1. by \in Logins /\ x5[by].pc = "served" /\ x5[by].actor.role = "admin"
      BY <1>1, <1>3 DEF People!MayAsk
    <2>2. x5[by].actor \in x5[by].rows /\ x5[by].actor.enabled /\ x5[by].rows \subseteq People!Rows
      BY <2>1, RInvRows, RowTypes DEF Fits, People!ServedInForce, People!RequestRows
    <2>3. x5[by].actor = People!AdminRow
      BY <2>1, <2>2 DEF People!Rows, People!AdminRow
    <2> QED BY <2>1, <2>2, <2>3
  <1>4. People!AskedInForce(t)'
    BY <1>1, <1>2, <1>3 DEF People!AskedInForce, People!AdminRow
  <1>5. \A v \in Txs \ {t} : People!AskedInForce(v)'
    BY <1>1, <1>2, RInvRows, AskedKept
  <1>6. \A s \in Logins : Fits(s)'
    BY <1>1, RInvRows, FitsKept DEF RowOf
  <1> QED BY <1>4, <1>5, <1>6, RInvRows DEF People!RInv, People!RequestsInForce, Fits

\* An account changes: its requests have met it.
LEMMA MetKept ==
  ASSUME Typed, People!RInv, NEW u \in Users,
         x1' \in [Users -> Roles], x2' \in [Users -> BOOLEAN],
         \A v \in Users \ {u} : x1'[v] = x1[v] /\ x2'[v] = x2[v],
         x5' = People!Seen(u, x1'[u], x2'[u]), x4' = x4 \/ x4' = People!Revoked(u),
         \A t \in Txs : x3'[t].by \in {None, x3[t].by}
  PROVE  People!RInv'
  <1>1. PICK role \in Roles, enabled \in BOOLEAN : role = x1'[u] /\ enabled = x2'[u]
    OBVIOUS
  <1>2. \A s \in Logins :
              /\ x5'[s].pc = x5[s].pc /\ x5'[s].open = x5[s].open /\ x5'[s].actor = x5[s].actor
              /\ x5[s].rows \subseteq x5'[s].rows
              /\ x5[s].pc # "none" /\ x4[s].user = u => [role |-> x1'[u], enabled |-> x2'[u]] \in x5'[s].rows
    <2> DEFINE f == x5'
    <2>1. f = People!Seen(u, role, enabled)
      BY <1>1
    <2> HIDE DEF f
    <2>2. Meets(f, u, role, enabled)
      BY <2>1, SeenMeets
    <2>3. Meets(f, u, x1'[u], x2'[u])
      BY <1>1, <2>2
    <2> QED BY <2>3 DEF f, Meets
  <1>3. \A t \in Txs : People!AskedInForce(t)'
    BY <1>2, RInvRows, AskedKept
  <1>4. ASSUME NEW s \in Logins
        PROVE  Fits(s)'
    <2>1. Fits(s) /\ (x5[s].pc # "none" => x4[s].user \in Users)
      BY RInvRows DEF Fits, People!Follows, Typed
    <2>2. /\ x4'[s].user = x4[s].user
          /\ x4'[s].pc = x4[s].pc \/ (x4[s].pc = "open" /\ x4'[s].pc = "revoked")
      BY RevokedRows
    <2>3. ASSUME x5[s].pc # "none"
          PROVE  RowOf(x4[s].user)' \in x5'[s].rows \/ UNCHANGED RowOf(x4[s].user)
      <3>1. RowOf(x4[s].user)' = [role |-> x1'[x4[s].user], enabled |-> x2'[x4[s].user]]
        BY RevokedRows DEF RowOf
      <3>2. CASE x4[s].user = u
        BY <1>2, <2>3, <3>1, <3>2
      <3>3. CASE x4[s].user # u
        BY <2>1, <2>3, <3>1, <3>3 DEF RowOf
      <3> QED BY <3>2, <3>3
    <2> QED BY <1>2, <2>1, <2>2, <2>3, FitsKept
  <1> QED BY <1>3, <1>4, RInvRows DEF People!RInv, People!RequestsInForce, Fits

\* A guarded change is written, or an account promoted.
LEMMA WriteAsked ==
  ASSUME Typed, People!RInv,
         \/ \E t \in Txs : People!WriteGuarded(t)
         \/ \E u \in Users : People!Promote(u)
  PROVE  People!RInv'
  <1>1. ASSUME NEW t \in Txs, People!WriteGuarded(t)
        PROVE  People!RInv'
    <2> DEFINE u == x3[t].user
    <2>1. /\ u \in Users /\ x3' = [x3 EXCEPT ![t] = People!Idle]
          /\ x1' \in [Users -> Roles] /\ x2' \in [Users -> BOOLEAN]
          /\ x5' = People!Seen(u, x1'[u], x2'[u])
          /\ \A v \in Users \ {u} : x1'[v] = x1[v] /\ x2'[v] = x2[v]
          /\ x4' = x4 \/ x4' = People!Revoked(u)
      BY <1>1, Written
    <2> HIDE DEF u
    <2>2. \A v \in Txs : x3'[v].by \in {None, x3[v].by}
      BY <2>1, IdleTx DEF Typed
    <2> QED BY <2>1, <2>2, MetKept
  <1>2. ASSUME NEW u \in Users, People!Promote(u)
        PROVE  People!RInv'
    <2>1. /\ x1' = [x1 EXCEPT ![u] = "admin"] /\ x5' = People!Seen(u, "admin", x2[u])
          /\ UNCHANGED <<x2, x3, x4>>
      BY <1>2 DEF People!Promote
    <2>2. /\ x1' \in [Users -> Roles] /\ x1'[u] = "admin" /\ x2' \in [Users -> BOOLEAN]
          /\ \A v \in Users \ {u} : x1'[v] = x1[v] /\ x2'[v] = x2[v]
      BY <2>1 DEF Typed, Roles
    <2>3. x5' = People!Seen(u, x1'[u], x2'[u])
      BY <2>1, <2>2
    <2> QED BY <2>1, <2>2, <2>3, MetKept
  <1> QED BY <1>1, <1>2

\* Sessions are opened, and revoked.
LEMMA LoginAsked ==
  ASSUME Typed, People!RInv,
         \/ \E u \in Users : People!ResetPassword(u)
         \/ \E s \in Logins : \/ People!CreateSession(s) \/ People!ChangeOwnPassword(s)
                              \/ People!RevokeSession(s) \/ \E u \in Users : People!Authenticate(s, u)
  PROVE  People!RInv'
  <1>1. UNCHANGED <<x1, x2, x3, x5>>
    BY DEF People!ResetPassword, People!CreateSession, People!ChangeOwnPassword, People!RevokeSession,
           People!Authenticate
  <1>2. \A t \in Txs : People!AskedInForce(t)'
    BY <1>1, RInvRows, AskedKept
  <1>3. ASSUME NEW s \in Logins
        PROVE  Fits(s)'
    <2>1. CASE /\ x4'[s].user = x4[s].user
               /\ x4'[s].pc = x4[s].pc \/ (x4[s].pc = "open" /\ x4'[s].pc = "revoked")
      BY <1>1, <2>1, RInvRows, FitsKept DEF RowOf
    <2>2. CASE x5[s].pc = "none"
      BY <1>1, <2>2 DEF Fits, People!ServedInForce, People!Follows
    <2>3. ASSUME NEW u \in Users, People!ResetPassword(u)
          PROVE  Fits(s)'
      <3>1. x4' = People!Revoked(u)
        BY <2>3 DEF People!ResetPassword
      <3> QED BY <2>1, <3>1, RevokedRows
    <2>4. ASSUME NEW r \in Logins,
                 People!CreateSession(r) \/ \E u \in Users : People!Authenticate(r, u)
          PROVE  Fits(s)'
      <3>1. x4[r].pc \in {"none", "authenticated"} /\ (s # r => x4'[s] = x4[s])
        BY <2>4 DEF People!CreateSession, People!Authenticate, Typed
      <3>2. CASE s = r
        <4>1. x5[s].pc = "none"
          BY <3>1, <3>2, RInvRows DEF Fits, People!Follows
        <4> QED BY <2>2, <4>1
      <3>3. CASE s # r
        BY <2>1, <3>1, <3>3
      <3> QED BY <3>2, <3>3
    <2>5. ASSUME NEW r \in Logins, People!RevokeSession(r)
          PROVE  Fits(s)'
      <3>1. x4' = [x4 EXCEPT ![r].pc = "revoked"] /\ x4[r].pc = "open" /\ x4[r] \in LoginRows
        BY <2>5, RowTypes DEF People!RevokeSession
      <3>2. [x4[r] EXCEPT !.pc = "revoked"].user = x4[r].user /\ [x4[r] EXCEPT !.pc = "revoked"].pc = "revoked"
        BY <3>1 DEF LoginRows
      <3> QED BY <2>1, <3>1, <3>2 DEF Typed
    <2>6. ASSUME NEW r \in Logins, People!ChangeOwnPassword(r)
          PROVE  Fits(s)'
      <3>1. x4' = [People!Revoked(x4[r].user) EXCEPT ![r] = x4[r]]
        BY <2>6 DEF People!ChangeOwnPassword
      <3> QED BY <2>1, <3>1, RevokedRows DEF Typed
    <2> QED BY <2>3, <2>4, <2>5, <2>6
  <1> QED BY <1>2, <1>3, RInvRows DEF People!RInv, People!RequestsInForce, Fits

\* A request goes on: it comes with an open session or none, and is served as what it read.
LEMMA RequestAsked ==
  ASSUME Typed, People!RInv, NEW s \in Logins,
         People!Arrive(s) \/ People!FindSession(s) \/ People!ReadActor(s) \/ People!Answer(s)
  PROVE  People!RInv'
  <1>1. /\ UNCHANGED <<x1, x2, x3>>
        /\ \A r \in Logins \ {s} : x4'[r] = x4[r] /\ x5'[r] = x5[r]
    BY DEF People!Arrive, People!FindSession, People!ReadActor, People!Answer, Typed
  <1>2. \A r \in Logins \ {s} : Fits(r)'
    BY <1>1, RInvRows, FitsKept DEF RowOf
  <1>3. Fits(s) /\ x4[s] \in LoginRows /\ x5[s] \in People!RequestRows
    BY RInvRows, RowTypes
  <1>4. x5[s].pc = "served" => People!Answer(s)
    BY DEF People!Arrive, People!FindSession, People!ReadActor
  <1>5. ASSUME NEW t \in Txs
        PROVE  People!AskedInForce(t)'
    <2>1. \A r \in Logins : x5[r].pc = "served" =>
             (x5'[r].pc = "served" /\ x5[r].rows \subseteq x5'[r].rows) \/ x3[t].by # r
      BY <1>1, <1>4 DEF People!Answer
    <2> QED BY <1>1, <2>1, RInvRows, AskedKept
  <1>6. ASSUME x5'[s] = People!Quiet
        PROVE  Fits(s)'
    BY <1>6, QuietRequest DEF Fits, People!ServedInForce, People!Follows
  <1>7. ASSUME People!Arrive(s)
        PROVE  Fits(s)'
    <2>1. /\ x5'[s] = [pc |-> "arrived", open |-> x4[s].pc = "open", actor |-> None,
                       rows |-> {[role |-> x1[x4[s].user], enabled |-> x2[x4[s].user]]}]
          /\ x4[s].pc \in {"open", "revoked"} /\ x4' = x4
      BY <1>7 DEF People!Arrive, Typed
    <2>2. /\ x5'[s].pc = "arrived"
          /\ x5'[s].rows = {[role |-> x1[x4[s].user], enabled |-> x2[x4[s].user]]}
      BY <2>1
    <2>3. ASSUME x4[s].pc = "open"
          PROVE  x5'[s].open
      <3>1. (x4[s].pc = "open") = TRUE
        BY <2>3
      <3>2. x5'[s] = [pc |-> "arrived", open |-> TRUE, actor |-> None,
                      rows |-> {[role |-> x1[x4[s].user], enabled |-> x2[x4[s].user]]}]
        BY <2>1, <3>1, Zenon
      <3> QED BY <3>2
    <2> QED BY <1>1, <2>1, <2>2, <2>3 DEF Fits, People!ServedInForce, People!Follows
  <1>8. ASSUME People!FindSession(s) /\ x4[s].pc = "open"
        PROVE  Fits(s)'
    <2>1. x5'[s] = [x5[s] EXCEPT !.pc = "found"] /\ x4' = x4 /\ x5[s].pc = "arrived"
      BY <1>8 DEF People!FindSession, Typed
    <2>2. x5'[s].pc = "found" /\ x5'[s].open = x5[s].open /\ x5'[s].rows = x5[s].rows
      BY <1>3, <2>1 DEF People!RequestRows
    <2> QED BY <1>1, <1>3, <1>8, <2>1, <2>2 DEF Fits, People!ServedInForce, People!Follows
  <1>9. ASSUME People!ReadActor(s) /\ x2[x4[s].user]
        PROVE  Fits(s)'
    <2> DEFINE a == [role |-> x1[x4[s].user], enabled |-> TRUE]
    <2>1. x5'[s] = [x5[s] EXCEPT !.pc = "served", !.actor = a] /\ x4' = x4 /\ x5[s].pc = "found"
      BY <1>9 DEF People!ReadActor, Typed
    <2>2. x4[s].user \in Users
      BY <1>3, <2>1 DEF Fits, People!Follows, Typed
    <2>3. a = RowOf(x4[s].user) /\ a.enabled
      BY <1>9, <2>2 DEF RowOf, Typed
    <2>4. a \in x5[s].rows /\ x5[s].open /\ x4[s].pc \in {"open", "revoked"}
      BY <1>3, <2>1, <2>3 DEF Fits, People!Follows, RowOf
    <2>5. a = [role |-> x1'[x4'[s].user], enabled |-> x2'[x4'[s].user]]
      BY <1>1, <2>1, <2>3 DEF RowOf
    <2> HIDE DEF a
    <2>6. x5'[s].pc = "served" /\ x5'[s].open = x5[s].open /\ x5'[s].rows = x5[s].rows /\ x5'[s].actor = a
      BY <1>3, <2>1 DEF People!RequestRows
    <2> QED BY <1>1, <2>1, <2>3, <2>4, <2>5, <2>6 DEF Fits, People!ServedInForce, People!Follows
  <1>10. Fits(s)'
    BY <1>6, <1>7, <1>8, <1>9 DEF People!FindSession, People!ReadActor, People!Answer, Typed
  <1> QED BY <1>2, <1>5, <1>10, RInvRows DEF People!RInv, People!RequestsInForce, Fits

-----------------------------------------------------------------------------
(* Accounts: every step. *)

\* What is kept of the administrators by every step.
Kept == Typed' /\ (People!Outrun => People!Outrun') /\ (Guarded /\ ~People!Outrun => Guarded' \/ People!Outrun')

\* Every step keeps it, whoever makes it.
LEMMA AccountsKept ==
  ASSUME Typed, People!RInv, People!Next
  PROVE  Kept /\ People!RInv'
  <1>1. ASSUME NEW t \in Txs, People!LockGuard(t) \/ People!Decide(t) \/ People!Rollback(t)
        PROVE  Kept /\ People!RInv'
    <2>1. People!Rollback(t) => Kept
      BY IdleKept DEF People!Rollback, Kept
    <2> QED BY <1>1, <2>1, LockKept, DecideKept, TxAsked DEF Kept
  <1>2. ASSUME NEW t \in Txs, People!WriteGuarded(t)
        PROVE  Kept /\ People!RInv'
    BY <1>2, WriteKept, WriteAsked DEF Kept
  <1>3. ASSUME NEW t \in Txs, NEW u \in Users, NEW disable \in BOOLEAN, NEW by \in Logins \cup {None},
               People!BeginGuarded(t, u, disable, by)
        PROVE  Kept /\ People!RInv'
    BY <1>3, BeginKept, BeginAsked DEF Kept
  <1>4. ASSUME NEW u \in Users, People!Promote(u)
        PROVE  Kept /\ People!RInv'
    BY <1>4, PromoteKept, WriteAsked DEF Kept
  <1>5. ASSUME NEW u \in Users, People!ResetPassword(u)
        PROVE  Kept /\ People!RInv'
    <2>1. UNCHANGED <<x1, x2, x3, x5, x6>> /\ x4' = People!Revoked(u)
      BY <1>5 DEF People!ResetPassword
    <2>2. x4' \in [Logins -> LoginRows] /\ \A s \in Logins : x4'[s].pc # "none" => x4'[s].user \in Users
      BY <2>1, RevokedRows DEF Typed
    <2>3. x5' \in [Logins -> People!RequestRows]
      BY <2>1 DEF Typed
    <2> QED BY <1>5, <2>1, <2>2, <2>3, LoginKept, LoginAsked DEF Kept
  <1>6. ASSUME NEW s \in Logins,
               \/ People!CreateSession(s) \/ People!ChangeOwnPassword(s) \/ People!RevokeSession(s)
               \/ People!Arrive(s) \/ People!FindSession(s) \/ People!ReadActor(s) \/ People!Answer(s)
               \/ \E u \in Users : People!Authenticate(s, u)
        PROVE  Kept /\ People!RInv'
    <2>1. Kept
      BY <1>6, SessionRows, LoginKept DEF Kept
    <2> QED BY <1>6, <2>1, LoginAsked, RequestAsked
  <1> QED BY <1>1, <1>2, <1>3, <1>4, <1>5, <1>6 DEF People!Next

\* A step of the accounts keeps both invariants.
LEMMA PeopleStep ==
  ASSUME People!IInv, People!RInv, People!Next
  PROVE  People!IInv' /\ People!RInv'
  <1>1. Typed /\ (People!Outrun \/ Guarded)
    BY AccountRows
  <1>2. Typed' /\ (People!Outrun' \/ Guarded') /\ People!RInv'
    BY <1>1, AccountsKept DEF Kept
  <1>3. (Typed /\ (People!Outrun \/ Guarded))' => People!IInv'
    BY DEF People!IInv, People!TypeOK, People!AnAdminRemains, Typed, Guarded, TxRows, LoginRows, Roles
  <1> QED BY <1>2, <1>3

\* What no step of the accounts changes, in MCServices' words.
LEMMA PeopleStutter ==
  ASSUME People!IInv, People!RInv, UNCHANGED <<x1, x2, x3, x4, x5, x6>>
  PROVE  People!IInv' /\ People!RInv'
  BY DEF People!IInv, People!TypeOK, People!AnAdminRemains, People!EnabledAdmins, People!Outrun,
         People!LocksDiffer, People!Guards, People!RInv, People!RequestsInForce, People!ServedInForce,
         People!AskedInForce, People!AdminRow, People!Follows

\* The first administrators.
LEMMA PeopleInit ==
  ASSUME People!Init
  PROVE  People!IInv /\ People!RInv
  <1>1. /\ x1 = [u \in Users |-> IF u \in Admins THEN "admin" ELSE "viewer"]
        /\ x2 = [u \in Users |-> TRUE] /\ x3 = [t \in Txs |-> People!Idle]
        /\ x4 = [s \in Logins |-> [user |-> None, pc |-> "none"]]
        /\ x5 = [s \in Logins |-> People!Quiet] /\ x6 = {}
    BY DEF People!Init
  <1>2. x3 \in [Txs -> TxRows] /\ \A t \in Txs : x3[t].pc = "idle" /\ x3[t].held = {} /\ x3[t].by = None
    BY <1>1, IdleTx
  <1>3. x5 \in [Logins -> People!RequestRows] /\ \A s \in Logins : x5[s].pc = "none"
    BY <1>1, QuietRequest
  <1>4. x4 \in [Logins -> LoginRows] /\ \A s \in Logins : x4[s].pc = "none"
    BY <1>1 DEF LoginRows
  <1>5. Typed
    BY <1>1, <1>2, <1>3, <1>4 DEF Typed, Roles
  <1>6. People!EnabledAdmins # {}
    BY <1>1, AccountsAssumption DEF People!EnabledAdmins
  <1>7. People!LocksDiffer /\ \A t \in Txs : People!Guards(t)
    BY <1>2 DEF People!LocksDiffer, People!Guards
  <1>8. People!RInv
    BY <1>2, <1>3 DEF People!RInv, People!RequestsInForce, People!ServedInForce, People!AskedInForce,
                      People!Follows
  <1> QED BY <1>5, <1>6, <1>7, <1>8, AccountRows DEF Guarded

\* Both invariants of the accounts, in every state of a behaviour of theirs.
LEMMA AccountsAlways == Spec => [](part = "accounts" => People!IInv /\ People!RInv)
  <1> DEFINE Sound == part = "accounts" => People!IInv /\ People!RInv
  <1>1. Init => Sound
    BY PeopleInit DEF Init
  <1>2. ASSUME Sound, [Next]_vars
        PROVE  Sound'
    <2>1. CASE part # "accounts"
      BY <1>2, <2>1 DEF Next, vars
    <2>2. CASE part = "accounts" /\ Next
      <3>1. People!Next
        BY <2>2 DEF Next
      <3> QED BY <1>2, <2>2, <3>1, PeopleStep
    <2>3. CASE part = "accounts" /\ UNCHANGED vars
      <3>1. UNCHANGED <<x1, x2, x3, x4, x5, x6>>
        BY <2>3 DEF vars
      <3> QED BY <1>2, <2>3, <3>1, PeopleStutter
    <2> QED BY <1>2, <2>1, <2>2, <2>3
  <1> QED BY <1>1, <1>2, PTL DEF Spec

\* users.py:60: however many accounts are promoted and changes overlap, someone is left to
\* administer, until two promotions have been committed while guarded changes were under way.
THEOREM SomebodyAdministers == Spec => []AccountsInv
  <1>1. (part = "accounts" => People!IInv /\ People!RInv) => AccountsInv
    BY DEF AccountsInv, People!AccountsInv, People!IInv
  <1> QED BY <1>1, AccountsAlways, PTL

\* sessions.py:159: whatever is revoked, disabled, demoted or promoted between the two reads of a
\* request and between the statements of a login, a request is served only with a session that
\* was open when it came, and as the enabled account and with the role it has had since; and an
\* administrator's change under way was asked for by such a request.
THEOREM RequestsAreInForce == Spec => []RequestsInForce
  <1>1. (part = "accounts" => People!IInv /\ People!RInv) => RequestsInForce
    BY DEF RequestsInForce, People!RInv
  <1> QED BY <1>1, AccountsAlways, PTL

-----------------------------------------------------------------------------
(* Installation. *)

Markers == [id : Ids, state : {"initializing", "schema_ready", "ready"}]
InstPcs == {"idle", "mark", "migrate", "seed", "finish"}
InstRows == [pc : InstPcs, id : Ids]
SetupRows == [pc : {"idle", "check", "insert"}, id : Ids]

\* The types of an installation, and what is known of each process.
LEMMA InstallationRows ==
  ASSUME Setup!IInv
  PROVE  /\ x1 \in BOOLEAN /\ x2 \in Markers \cup {None} /\ x3 \in BOOLEAN /\ x4 \in BOOLEAN
         /\ x5 \in BOOLEAN /\ x6 \in Installers \cup {None}
         /\ x7 \in [Installers -> InstRows] /\ \A i \in Installers : x7[i] \in InstRows /\ Setup!Installs(i)
         /\ x8 \in [Setups -> SetupRows] /\ \A s \in Setups : x8[s] \in SetupRows /\ Setup!Founds(s)
         /\ x9 \in Seq({"founder", "other"}) /\ x10 \subseteq Writers
         /\ Setup!FounderFirst /\ Setup!MarkerIsTrue
  <1>1. /\ Setup!TypeOK /\ Setup!FounderFirst /\ Setup!MarkerIsTrue
        /\ \A i \in Installers : Setup!Installs(i)
        /\ \A s \in Setups : Setup!Founds(s)
    BY DEF Setup!IInv, Setup!InstallationInv
  <1>2. x7 \in [Installers -> InstRows] /\ x8 \in [Setups -> SetupRows]
    BY <1>1 DEF Setup!TypeOK, InstRows, InstPcs, SetupRows
  <1>3. x2 \in Markers \cup {None}
    BY <1>1 DEF Setup!TypeOK, Setup!States, Markers
  <1>4. /\ x1 \in BOOLEAN /\ x3 \in BOOLEAN /\ x4 \in BOOLEAN /\ x5 \in BOOLEAN
        /\ x6 \in Installers \cup {None} /\ x9 \in Seq({"founder", "other"}) /\ x10 \subseteq Writers
    BY <1>1 DEF Setup!TypeOK
  <1> QED BY <1>1, <1>2, <1>3, <1>4

\* The invariant, put together again.
LEMMA InstallationNext ==
  ASSUME x1' \in BOOLEAN, x2' \in Markers \cup {None}, x3' \in BOOLEAN, x4' \in BOOLEAN,
         x5' \in BOOLEAN, x6' \in Installers \cup {None}, x7' \in [Installers -> InstRows],
         x8' \in [Setups -> SetupRows], x9' \in Seq({"founder", "other"}), x10' \subseteq Writers,
         Setup!FounderFirst', Setup!MarkerIsTrue',
         \A i \in Installers : Setup!Installs(i)', \A s \in Setups : Setup!Founds(s)'
  PROVE  Setup!IInv'
  <1>1. Setup!TypeOK'
    BY DEF Setup!TypeOK, Setup!States, Markers, InstRows, InstPcs, SetupRows
  <1> QED BY <1>1 DEF Setup!IInv, Setup!InstallationInv

\* A step of one installer: only a marker that is being initialised changes, and no other
\* installer gets the lock.
LEMMA InstallerKept ==
  ASSUME Setup!IInv, NEW i \in Installers, NEW p \in InstPcs, x7' = [x7 EXCEPT ![i].pc = p],
         UNCHANGED <<x1, x5, x8, x9, x10>>, x2' \in Markers \cup {None}, x3' \in BOOLEAN,
         x4' \in BOOLEAN, x6' \in Installers \cup {None}, x3 => x3', x4 => x4',
         Setup!MarkerIsTrue', Setup!Installs(i)',
         \A j \in Installers \ {i} : x6' = j => x6 = j /\ x2' = x2,
         x2' # x2 => x2'.state # "ready" /\ (x2 = None \/ x2.state = "initializing")
  PROVE  Setup!IInv'
  <1>1. /\ x7' \in [Installers -> InstRows] /\ \A j \in Installers \ {i} : x7'[j] = x7[j]
    <2>1. [x7[i] EXCEPT !.pc = p] \in InstRows /\ x7' = [x7 EXCEPT ![i] = [x7[i] EXCEPT !.pc = p]]
      BY InstallationRows DEF InstRows
    <2> QED BY <2>1, InstallationRows
  <1>2. ASSUME NEW j \in Installers
        PROVE  Setup!Installs(j)'
    <2>1. CASE j # i
      <3>1. x7'[j] = x7[j] /\ Setup!Installs(j)
        BY <1>1, <2>1, InstallationRows
      <3> QED BY <2>1, <3>1 DEF Setup!Installs
    <2> QED BY <2>1
  <1>3. Setup!FounderFirst'
    BY InstallationRows DEF Setup!FounderFirst
  <1>4. ASSUME NEW s \in Setups
        PROVE  Setup!Founds(s)'
    <2>1. Setup!Founds(s)
      BY InstallationRows
    <2> QED BY <2>1 DEF Setup!Founds
  <1> QED BY <1>1, <1>2, <1>3, <1>4, InstallationRows, InstallationNext

\* A row of an installer that moves on, and the lock it may give back.
LEMMA InstallerMoves ==
  ASSUME Setup!IInv, NEW i \in Installers, NEW p \in InstPcs, Setup!Go(i, p)
  PROVE  x7' = [x7 EXCEPT ![i].pc = p] /\ x7'[i].pc = p
  <1>1. x7' = [x7 EXCEPT ![i].pc = p]
    BY DEF Setup!Go
  <1>2. x7[i] \in InstRows /\ x7' = [x7 EXCEPT ![i] = [x7[i] EXCEPT !.pc = p]]
    BY <1>1, InstallationRows
  <1> QED BY <1>1, <1>2, InstallationRows DEF InstRows

\* The steps of an installer that leave the marker.
LEMMA QuietInstallerKept ==
  ASSUME Setup!IInv, NEW i \in Installers,
         \/ Setup!Start(i) \/ Setup!Migrate(i) \/ Setup!Seed(i) \/ Setup!Abort(i)
         \/ Setup!LoseConnection(i)
  PROVE  Setup!IInv' /\ x2' = x2
  <1>1. x7[i] \in InstRows /\ Setup!Installs(i) /\ Setup!MarkerIsTrue /\ i # None
    BY InstallationRows, NoneAssumption
  <1>2. x7[i].pc \in InstPcs
    BY <1>1 DEF InstRows
  <1>3. CASE Setup!Start(i)
    <2>1. /\ Setup!Go(i, "mark") /\ x6 = None /\ x6' = i
          /\ UNCHANGED <<x1, x2, x3, x4, x5, x8, x9, x10>>
      BY <1>3 DEF Setup!Start, Setup!people
    <2>2. x7' = [x7 EXCEPT ![i].pc = "mark"] /\ x7'[i].pc = "mark"
      BY <2>1, InstallerMoves DEF InstPcs
    <2>3. Setup!Installs(i)' /\ Setup!MarkerIsTrue'
      BY <1>1, <2>1, <2>2 DEF Setup!Installs, Setup!MarkerIsTrue
    <2> QED BY <1>1, <2>1, <2>2, <2>3, InstallationRows, InstallerKept DEF InstPcs
  <1>4. CASE Setup!Migrate(i)
    <2>1. /\ Setup!Go(i, "seed") /\ x3' = TRUE /\ x7[i].pc = "migrate"
          /\ UNCHANGED <<x1, x2, x4, x5, x6, x8, x9, x10>>
      BY <1>4 DEF Setup!Migrate, Setup!people
    <2>2. x7' = [x7 EXCEPT ![i].pc = "seed"] /\ x7'[i].pc = "seed"
      BY <2>1, InstallerMoves DEF InstPcs
    <2>3. Setup!Installs(i)' /\ Setup!MarkerIsTrue'
      BY <1>1, <2>1, <2>2 DEF Setup!Installs, Setup!MarkerIsTrue
    <2> QED BY <1>1, <2>1, <2>2, <2>3, InstallationRows, InstallerKept DEF InstPcs
  <1>5. CASE Setup!Seed(i)
    <2>1. /\ Setup!Go(i, "finish") /\ x4' = TRUE /\ x7[i].pc = "seed"
          /\ UNCHANGED <<x1, x2, x3, x5, x6, x8, x9, x10>>
      BY <1>5 DEF Setup!Seed, Setup!people
    <2>2. x7' = [x7 EXCEPT ![i].pc = "finish"] /\ x7'[i].pc = "finish"
      BY <2>1, InstallerMoves DEF InstPcs
    <2>3. Setup!Installs(i)' /\ Setup!MarkerIsTrue'
      BY <1>1, <2>1, <2>2 DEF Setup!Installs, Setup!MarkerIsTrue
    <2> QED BY <1>1, <2>1, <2>2, <2>3, InstallationRows, InstallerKept DEF InstPcs
  <1>6. CASE Setup!Abort(i)
    <2>1. /\ Setup!Go(i, "idle") /\ x6' \in {x6, None}
          /\ UNCHANGED <<x1, x2, x3, x4, x5, x8, x9, x10>>
      BY <1>6 DEF Setup!Abort, Setup!Unlocked, Setup!people
    <2>2. x7' = [x7 EXCEPT ![i].pc = "idle"] /\ x7'[i].pc = "idle"
      BY <2>1, InstallerMoves DEF InstPcs
    <2>3. Setup!Installs(i)' /\ Setup!MarkerIsTrue'
      BY <1>1, <2>1, <2>2 DEF Setup!Installs, Setup!MarkerIsTrue
    <2> QED BY <1>1, <2>1, <2>2, <2>3, InstallationRows, InstallerKept, NoneAssumption DEF InstPcs
  <1>7. CASE Setup!LoseConnection(i)
    <2>1. x6' = None /\ UNCHANGED <<x1, x2, x3, x4, x5, x7, x8, x9, x10>>
      BY <1>7 DEF Setup!LoseConnection, Setup!people
    <2>2. x7' = [x7 EXCEPT ![i].pc = x7[i].pc]
      BY <1>1, <2>1, InstallationRows DEF InstRows
    <2>3. Setup!Installs(i)' /\ Setup!MarkerIsTrue'
      BY <1>1, <2>1 DEF Setup!Installs, Setup!MarkerIsTrue
    <2> QED BY <1>1, <1>2, <2>1, <2>2, <2>3, InstallationRows, InstallerKept, NoneAssumption
  <1> QED BY <1>3, <1>4, <1>5, <1>6, <1>7

\* A marker is put into an empty database, or that of an interrupted start goes on.
LEMMA MarkKept ==
  ASSUME Setup!IInv, NEW i \in Installers, Setup!Mark(i)
  PROVE  Setup!IInv' /\ (x2' # x2 => x2 = None)
  <1>1. /\ x7[i] \in InstRows /\ Setup!Installs(i) /\ Setup!MarkerIsTrue /\ i # None
        /\ x6 = i /\ UNCHANGED <<x1, x3, x4, x5, x8, x9, x10>>
    BY InstallationRows, NoneAssumption DEF Setup!Mark, Setup!people
  <1>2. CASE x2 = None /\ ~x1 /\ x2' = [id |-> x7[i].id, state |-> "initializing"]
             /\ Setup!Go(i, "migrate") /\ x6' = x6
    <2>1. x2' \in Markers /\ x2'.state = "initializing" /\ x2' # None
      BY <1>1, <1>2, NoneAssumption DEF Markers, InstRows
    <2>2. x7' = [x7 EXCEPT ![i].pc = "migrate"] /\ x7'[i].pc = "migrate"
      BY <1>2, InstallerMoves DEF InstPcs
    <2>3. Setup!Installs(i)' /\ Setup!MarkerIsTrue'
      BY <1>1, <1>2, <2>1, <2>2 DEF Setup!Installs, Setup!MarkerIsTrue
    <2>4. \A j \in Installers \ {i} : x6' # j
      BY <1>1, <1>2
    <2> QED BY <1>1, <1>2, <2>1, <2>2, <2>3, <2>4, InstallationRows, InstallerKept DEF InstPcs
  <1>3. CASE x2 # None /\ x2.state = "initializing" /\ x2' = x2 /\ x6' = x6 /\ Setup!Go(i, "migrate")
    <2>1. x7' = [x7 EXCEPT ![i].pc = "migrate"] /\ x7'[i].pc = "migrate"
      BY <1>3, InstallerMoves DEF InstPcs
    <2>2. Setup!Installs(i)' /\ Setup!MarkerIsTrue'
      BY <1>1, <1>3, <2>1 DEF Setup!Installs, Setup!MarkerIsTrue
    <2> QED BY <1>1, <1>3, <2>1, <2>2, InstallationRows, InstallerKept DEF InstPcs
  <1>4. CASE x2' = x2 /\ Setup!Go(i, "idle") /\ Setup!Unlocked(i)
    <2>1. x6' = None
      BY <1>1, <1>4 DEF Setup!Unlocked
    <2>2. x7' = [x7 EXCEPT ![i].pc = "idle"] /\ x7'[i].pc = "idle"
      BY <1>4, InstallerMoves DEF InstPcs
    <2>3. Setup!Installs(i)' /\ Setup!MarkerIsTrue'
      BY <1>1, <1>4, <2>1, <2>2 DEF Setup!Installs, Setup!MarkerIsTrue
    <2> QED BY <1>1, <1>4, <2>1, <2>2, <2>3, InstallationRows, InstallerKept, NoneAssumption DEF InstPcs
  <1> QED BY <1>2, <1>3, <1>4 DEF Setup!Mark

\* Only the connection that has the lock declares the schema ready: nobody has been there since.
LEMMA FinishKept ==
  ASSUME Setup!IInv, NEW i \in Installers, Setup!Finish(i)
  PROVE  Setup!IInv' /\ (x2' # x2 => x2.state = "initializing" /\ x2'.id = x2.id)
  <1>1. /\ x7[i] \in InstRows /\ Setup!Installs(i) /\ Setup!MarkerIsTrue /\ i # None
        /\ x7[i].pc = "finish" /\ Setup!Go(i, "idle") /\ Setup!Unlocked(i)
        /\ UNCHANGED <<x1, x3, x4, x5, x8, x9, x10>>
    BY InstallationRows, NoneAssumption DEF Setup!Finish, Setup!people
  <1>2. x7' = [x7 EXCEPT ![i].pc = "idle"] /\ x7'[i].pc = "idle"
    BY <1>1, InstallerMoves DEF InstPcs
  <1>3. CASE x6 = i
    <2>1. /\ x2 # None /\ x2 \in Markers /\ x2.state = "initializing" /\ x3 /\ x4
      BY <1>1, <1>3, InstallationRows DEF Setup!Installs
    <2>2. x2' = [x2 EXCEPT !.state = "schema_ready"] /\ x6' = None
      BY <1>1, <1>3 DEF Setup!Finish, Setup!Unlocked
    <2>3. x2' \in Markers /\ x2'.state = "schema_ready" /\ x2'.id = x2.id /\ x2' # None
      BY <2>1, <2>2, NoneAssumption DEF Markers
    <2>4. Setup!Installs(i)' /\ Setup!MarkerIsTrue'
      BY <1>1, <1>2, <2>1, <2>2, <2>3 DEF Setup!Installs, Setup!MarkerIsTrue
    <2> QED BY <1>1, <1>2, <2>1, <2>2, <2>3, <2>4, InstallationRows, InstallerKept, NoneAssumption DEF InstPcs
  <1>4. CASE x6 # i
    <2>1. x2' = x2 /\ x6' = x6
      BY <1>1, <1>4 DEF Setup!Finish, Setup!Unlocked
    <2>2. Setup!Installs(i)' /\ Setup!MarkerIsTrue'
      BY <1>1, <1>2, <2>1 DEF Setup!Installs, Setup!MarkerIsTrue
    <2> QED BY <1>1, <1>2, <2>1, <2>2, InstallationRows, InstallerKept DEF InstPcs
  <1> QED BY <1>3, <1>4

\* A setup that locks, checks, or gives up.
LEMMA SetupKept ==
  ASSUME Setup!IInv, NEW s \in Setups, NEW p \in {"idle", "check", "insert"},
         x8' = [x8 EXCEPT ![s].pc = p], UNCHANGED <<x1, x2, x3, x4, x5, x6, x7, x9, x10>>,
         p # "idle" => x10 = {} /\ \A r \in Setups \ {s} : x8[r].pc = "idle",
         p = "insert" => x2 # None /\ x2.state = "schema_ready" /\ x9 = <<>>
  PROVE  Setup!IInv'
  <1>1. /\ x8' \in [Setups -> SetupRows] /\ x8'[s].pc = p /\ \A r \in Setups \ {s} : x8'[r] = x8[r]
    <2>1. /\ [x8[s] EXCEPT !.pc = p] \in SetupRows /\ [x8[s] EXCEPT !.pc = p].pc = p
          /\ x8' = [x8 EXCEPT ![s] = [x8[s] EXCEPT !.pc = p]]
      BY InstallationRows DEF SetupRows
    <2> QED BY <2>1, InstallationRows
  <1>2. ASSUME NEW r \in Setups
        PROVE  Setup!Founds(r)'
    <2>1. CASE r = s
      BY <1>1, <2>1 DEF Setup!Founds
    <2>2. CASE r # s
      <3>1. x8'[r] = x8[r] /\ Setup!Founds(r)
        BY <1>1, <2>2, InstallationRows
      <3>2. x8[r].pc # "idle" => p = "idle"
        BY <2>2
      <3> QED BY <1>1, <3>1, <3>2 DEF Setup!Founds
    <2> QED BY <2>1, <2>2
  <1>3. \A i \in Installers : Setup!Installs(i)'
    BY InstallationRows DEF Setup!Installs
  <1>4. Setup!FounderFirst' /\ Setup!MarkerIsTrue'
    BY InstallationRows DEF Setup!FounderFirst, Setup!MarkerIsTrue
  <1> QED BY <1>1, <1>2, <1>3, <1>4, InstallationRows, InstallationNext

\* The steps of setup-admin before its commit.
LEMMA SettingKept ==
  ASSUME Setup!IInv, NEW s \in Setups, Setup!LockUsers(s) \/ Setup!CheckFresh(s) \/ Setup!AbortSetup(s)
  PROVE  Setup!IInv' /\ x2' = x2
  <1>1. UNCHANGED <<x1, x2, x3, x4, x5, x6, x7, x9, x10>>
    BY DEF Setup!LockUsers, Setup!CheckFresh, Setup!AbortSetup, Setup!schema
  <1>2. CASE Setup!LockUsers(s)
    <2>1. /\ x8' = [x8 EXCEPT ![s].pc = "check"] /\ x10 = {}
          /\ \A r \in Setups : x8[r].pc = "idle"
      BY <1>2 DEF Setup!LockUsers, Setup!SetGo, Setup!TableLocked
    <2> QED BY <1>1, <2>1, SetupKept
  <1>3. CASE Setup!CheckFresh(s)
    <2>1. x8[s].pc = "check" /\ Setup!Founds(s)
      BY <1>3, InstallationRows DEF Setup!CheckFresh
    <2>2. x10 = {} /\ \A r \in Setups \ {s} : x8[r].pc = "idle"
      BY <2>1 DEF Setup!Founds
    <2>3. \/ x8' = [x8 EXCEPT ![s].pc = "idle"]
          \/ /\ x8' = [x8 EXCEPT ![s].pc = "insert"]
             /\ x2 # None /\ x2.state = "schema_ready" /\ x9 = <<>>
      BY <1>3 DEF Setup!CheckFresh, Setup!SetGo
    <2> QED BY <1>1, <2>2, <2>3, SetupKept
  <1>4. CASE Setup!AbortSetup(s)
    <2>1. x8' = [x8 EXCEPT ![s].pc = "idle"]
      BY <1>4 DEF Setup!AbortSetup, Setup!SetGo
    <2> QED BY <1>1, <2>1, SetupKept
  <1> QED BY <1>1, <1>2, <1>3, <1>4

\* The founder is the first account, and the marker says so in the same commit.
LEMMA FounderKept ==
  ASSUME Setup!IInv, NEW s \in Setups, Setup!InsertFounder(s)
  PROVE  Setup!IInv' /\ x2 # None /\ x2.state = "schema_ready" /\ x2'.id = x2.id /\ x2'.state = "ready"
  <1>1. /\ x8[s].pc = "insert" /\ Setup!Founds(s) /\ x9' = Append(x9, "founder")
        /\ x2' = [x2 EXCEPT !.state = "ready"] /\ x8' = [x8 EXCEPT ![s].pc = "idle"]
        /\ UNCHANGED <<x1, x3, x4, x5, x6, x7, x10>>
    BY InstallationRows DEF Setup!InsertFounder, Setup!SetGo
  <1>2. /\ x2 # None /\ x2 \in Markers /\ x2.state = "schema_ready" /\ x9 = <<>>
        /\ \A r \in Setups \ {s} : x8[r].pc = "idle"
    BY <1>1, InstallationRows DEF Setup!Founds
  <1>3. x2' \in Markers /\ x2'.state = "ready" /\ x2'.id = x2.id /\ x2' # None
    BY <1>1, <1>2, NoneAssumption DEF Markers
  <1>4. x9' = <<"founder">>
    BY <1>1, <1>2
  <1>5. x8' \in [Setups -> SetupRows] /\ \A r \in Setups : x8'[r].pc = "idle"
    <2>1. /\ [x8[s] EXCEPT !.pc = "idle"] \in SetupRows /\ [x8[s] EXCEPT !.pc = "idle"].pc = "idle"
          /\ x8' = [x8 EXCEPT ![s] = [x8[s] EXCEPT !.pc = "idle"]]
      BY <1>1, InstallationRows DEF SetupRows
    <2> QED BY <1>2, <2>1, InstallationRows
  <1>6. \A r \in Setups : Setup!Founds(r)'
    BY <1>5 DEF Setup!Founds
  <1>7. \A i \in Installers : Setup!Installs(i)'
    BY <1>1, <1>2, InstallationRows DEF Setup!Installs
  <1>8. Setup!FounderFirst'
    BY <1>3, <1>4 DEF Setup!FounderFirst
  <1>9. Setup!MarkerIsTrue'
    <2>1. ~x1 /\ x3 /\ x4
      BY <1>2, InstallationRows DEF Setup!MarkerIsTrue
    <2> QED BY <1>1, <2>1 DEF Setup!MarkerIsTrue
  <1>10. x9' \in Seq({"founder", "other"})
    BY <1>4
  <1> QED BY <1>1, <1>2, <1>3, <1>5, <1>6, <1>7, <1>8, <1>9, <1>10, InstallationRows, InstallationNext

\* Other accounts and other work.
LEMMA OthersKept ==
  ASSUME Setup!IInv, Setup!Work \/ \E w \in Writers : Setup!InsertUser(w) \/ Setup!CommitUser(w)
  PROVE  Setup!IInv' /\ x2' = x2
  <1>1. UNCHANGED <<x1, x2, x3, x4, x6, x7, x8>>
    BY DEF Setup!Work, Setup!InsertUser, Setup!CommitUser, Setup!schema, Setup!people
  <1>2. /\ \A i \in Installers : Setup!Installs(i)' 
        /\ Setup!MarkerIsTrue'
    BY <1>1, InstallationRows DEF Setup!Installs, Setup!MarkerIsTrue
  <1>3. CASE Setup!Work
    <2>1. x5' \in BOOLEAN /\ UNCHANGED <<x9, x10>>
      BY <1>3 DEF Setup!Work, Setup!people
    <2>2. Setup!FounderFirst' /\ \A s \in Setups : Setup!Founds(s)'
      BY <1>1, <2>1, InstallationRows DEF Setup!FounderFirst, Setup!Founds
    <2> QED BY <1>1, <1>2, <2>1, <2>2, InstallationRows, InstallationNext
  <1>4. ASSUME NEW w \in Writers, Setup!InsertUser(w)
        PROVE  Setup!IInv'
    <2>1. x10' \subseteq Writers /\ UNCHANGED <<x5, x9>> /\ \A s \in Setups : x8[s].pc = "idle"
      BY <1>4, InstallationRows DEF Setup!InsertUser, Setup!schema
    <2>2. Setup!FounderFirst' /\ \A s \in Setups : Setup!Founds(s)'
      BY <1>1, <2>1, InstallationRows DEF Setup!FounderFirst, Setup!Founds
    <2> QED BY <1>1, <1>2, <2>1, <2>2, InstallationRows, InstallationNext
  <1>5. ASSUME NEW w \in Writers, Setup!CommitUser(w)
        PROVE  Setup!IInv'
    <2>1. x10' \subseteq Writers /\ x10 # {} /\ x5' = x5 /\ x9' = Append(x9, "other")
      BY <1>5, InstallationRows DEF Setup!CommitUser, Setup!schema
    <2>2. ASSUME NEW s \in Setups
          PROVE  Setup!Founds(s)'
      <3>1. x8[s].pc = "idle"
        BY <2>1, InstallationRows DEF Setup!Founds
      <3> QED BY <1>1, <3>1 DEF Setup!Founds
    <2>3. /\ x9' \in Seq({"founder", "other"}) /\ x9' # <<>> /\ DOMAIN x9' = 1..Len(x9) + 1
          /\ \A n \in DOMAIN x9 : x9'[n] = x9[n]
          /\ x9'[Len(x9) + 1] = "other"
      BY <2>1, InstallationRows
    <2>4. Setup!FounderFirst'
      <3>1. Setup!FounderFirst /\ DOMAIN x9 = 1..Len(x9) /\ Len(x9) \in Nat
        BY InstallationRows
      <3>2. x9 # <<>> => 1 \in DOMAIN x9
        BY <3>1, InstallationRows
      <3> QED BY <1>1, <2>3, <3>1, <3>2 DEF Setup!FounderFirst
    <2> QED BY <1>1, <1>2, <2>1, <2>2, <2>3, <2>4, InstallationRows, InstallationNext
  <1> QED BY <1>1, <1>3, <1>4, <1>5

\* Every step of an installation.
LEMMA InstallationStep ==
  ASSUME Setup!IInv, Setup!Next
  PROVE  Setup!IInv' /\ Setup!MarkerStep
  <1>1. ASSUME NEW i \in Installers,
               \/ Setup!Start(i) \/ Setup!Mark(i) \/ Setup!Migrate(i) \/ Setup!Seed(i) \/ Setup!Finish(i)
               \/ Setup!Abort(i) \/ Setup!LoseConnection(i)
        PROVE  Setup!IInv' /\ Setup!MarkerStep
    BY <1>1, QuietInstallerKept, MarkKept, FinishKept DEF Setup!MarkerStep
  <1>2. ASSUME NEW s \in Setups,
               Setup!LockUsers(s) \/ Setup!CheckFresh(s) \/ Setup!InsertFounder(s) \/ Setup!AbortSetup(s)
        PROVE  Setup!IInv' /\ Setup!MarkerStep
    BY <1>2, SettingKept, FounderKept DEF Setup!MarkerStep
  <1>3. ASSUME Setup!Work \/ \E w \in Writers : Setup!InsertUser(w) \/ Setup!CommitUser(w)
        PROVE  Setup!IInv' /\ Setup!MarkerStep
    BY <1>3, OthersKept DEF Setup!MarkerStep
  <1> QED BY <1>1, <1>2, <1>3 DEF Setup!Next

\* Nothing happens to an installation.
LEMMA InstallationStutter ==
  ASSUME Setup!IInv, UNCHANGED <<x1, x2, x3, x4, x5, x6, x7, x8, x9, x10>>
  PROVE  Setup!IInv' /\ Setup!MarkerStep
  <1>1. /\ \A i \in Installers : Setup!Installs(i)'
        /\ \A s \in Setups : Setup!Founds(s)'
        /\ Setup!FounderFirst' /\ Setup!MarkerIsTrue'
    BY InstallationRows DEF Setup!Installs, Setup!Founds, Setup!FounderFirst, Setup!MarkerIsTrue
  <1> QED BY <1>1, InstallationRows, InstallationNext DEF Setup!MarkerStep

\* An empty database, or one of somebody else.
LEMMA InstallationInit ==
  ASSUME Setup!Init
  PROVE  Setup!IInv
  <1>1. /\ x1 \in BOOLEAN /\ x3 \in {FALSE, x1} /\ x2 = None /\ x4 = FALSE /\ x5 = FALSE /\ x6 = None
        /\ x7 \in [Installers -> [pc : {"idle"}, id : Ids]]
        /\ x8 \in [Setups -> [pc : {"idle"}, id : Ids]] /\ x9 = <<>> /\ x10 = {}
    BY DEF Setup!Init
  <1>2. x7 \in [Installers -> InstRows] /\ \A i \in Installers : x7[i].pc = "idle"
    BY <1>1 DEF InstRows, InstPcs
  <1>3. x8 \in [Setups -> SetupRows] /\ \A s \in Setups : x8[s].pc = "idle"
    BY <1>1 DEF SetupRows
  <1>4. Setup!TypeOK
    <2>1. x3 \in BOOLEAN /\ x4 \in BOOLEAN /\ x5 \in BOOLEAN
      BY <1>1
    <2>2. x9 \in Seq({"founder", "other"})
      BY <1>1
    <2> QED BY <1>1, <1>2, <1>3, <2>1, <2>2 DEF Setup!TypeOK, InstRows, InstPcs, SetupRows
  <1>5. Setup!FounderFirst /\ Setup!MarkerIsTrue
    BY <1>1 DEF Setup!FounderFirst, Setup!MarkerIsTrue
  <1>6. \A i \in Installers : Setup!Installs(i)
    BY <1>2 DEF Setup!Installs
  <1>7. \A s \in Setups : Setup!Founds(s)
    BY <1>3 DEF Setup!Founds
  <1> QED BY <1>4, <1>5, <1>6, <1>7 DEF Setup!IInv, Setup!InstallationInv

\* installation.py: the marker of an installation is never put on somebody else's tables, says
\* ready only of a whole schema whose first account is the founder, and only advances, whichever
\* processes start, lose their lock, crash, or insert accounts meanwhile.
THEOREM TheMarkerIsKept == Spec => InstallationIsKept
  <1> DEFINE Sound == part = "installation" => Setup!IInv
  <1> DEFINE Step == part = "installation" => Setup!MarkerStep
  <1>1. Init => Sound
    BY InstallationInit DEF Init
  <1>2. ASSUME Sound, [Next]_vars
        PROVE  Sound' /\ Step
    <2>1. CASE part # "installation"
      BY <1>2, <2>1 DEF Next, vars
    <2>2. CASE part = "installation" /\ Next
      <3>1. Setup!Next
        BY <2>2 DEF Next
      <3> QED BY <1>2, <2>2, <3>1, InstallationStep
    <2>3. CASE part = "installation" /\ UNCHANGED vars
      <3>1. UNCHANGED <<x1, x2, x3, x4, x5, x6, x7, x8, x9, x10>>
        BY <2>3 DEF vars
      <3> QED BY <1>2, <2>3, <3>1, InstallationStutter
    <2> QED BY <1>2, <2>1, <2>2, <2>3
  <1>3. Sound => (part = "installation" => Setup!InstallationInv)
    BY DEF Setup!IInv
  <1> QED BY <1>1, <1>2, <1>3, PTL DEF Spec, InstallationIsKept

-----------------------------------------------------------------------------
(* The ledger of observe requests. *)

LedgerPcs == {"idle", "item", "reclaim", "prepare", "claim", "record", "observe"}
ItemRows == [status : {"none", "leased", "waiting", "completed"}, live : BOOLEAN, gen : Nat,
             ledger : SUBSET Observing!Entries]
CallRows == [pc : LedgerPcs, key : Keys \cup {None}, fence : 0..MaxVersion, seen : 0..MaxVersion,
             ledger : SUBSET Observing!Entries, gen : Nat]

\* The types of a ledger, and what is known of each call.
LEMMA LedgerRows ==
  ASSUME Observing!IInv
  PROVE  /\ x1 \in 1..MaxVersion /\ x1 \in Nat /\ x2 \in ItemRows /\ x2.gen \in 0..MaxClaims
         /\ x3 \in [Calls -> CallRows] /\ \A c \in Calls : x3[c] \in CallRows /\ Observing!Works(c)
         /\ x4 \in [Keys -> Nat] /\ \A k \in Keys : x4[k] <= 1
         /\ \A k \in Keys : ~Observing!Recorded(k) => x4[k] = 0
  <1>1. /\ Observing!TypeOK /\ Observing!AskedOnce /\ Observing!Rows
        /\ \A c \in Calls : Observing!Works(c)
        /\ \A k \in Keys : ~Observing!Recorded(k) => x4[k] = 0
    BY DEF Observing!IInv, Observing!LedgerInv
  <1>2. x2 \in ItemRows /\ x3 \in [Calls -> CallRows]
    BY <1>1 DEF Observing!Rows, ItemRows, CallRows, LedgerPcs
  <1>3. x1 \in 1..MaxVersion /\ x1 \in Nat /\ x2.gen \in 0..MaxClaims /\ x4 \in [Keys -> Nat]
    BY <1>1, BoundsAssumption DEF Observing!TypeOK
  <1> QED BY <1>1, <1>2, <1>3 DEF Observing!AskedOnce

\* The invariant, put together again.
LEMMA LedgerNext ==
  ASSUME x1' \in 1..MaxVersion, x2' \in ItemRows, x2'.gen \in 0..MaxClaims,
         x3' \in [Calls -> CallRows], x4' \in [Keys -> Nat], \A k \in Keys : x4'[k] <= 1,
         \A k \in Keys : ~Observing!Recorded(k)' => x4'[k] = 0,
         \A c \in Calls : Observing!Works(c)'
  PROVE  Observing!IInv'
  <1>1. Observing!Rows'
    BY DEF Observing!Rows, ItemRows, CallRows, LedgerPcs
  <1>2. /\ x2'.status \in {"none", "leased", "waiting", "completed"} /\ x2'.live \in BOOLEAN
        /\ x2'.ledger \subseteq Observing!Entries
    BY DEF ItemRows
  <1>3. ASSUME NEW c \in Calls
        PROVE  /\ x3'[c].pc \in LedgerPcs /\ x3'[c].key \in Keys \cup {None}
               /\ x3'[c].ledger \subseteq Observing!Entries
    <2>1. x3'[c] \in CallRows
      BY <1>3
    <2> QED BY <2>1 DEF CallRows
  <1>4. Observing!TypeOK'
    BY <1>2, <1>3 DEF Observing!TypeOK, LedgerPcs
  <1>5. Observing!RefusalCostsNothing'
    BY DEF Observing!RefusalCostsNothing, Observing!Works, Observing!Foreseen, Observing!Possible
  <1> QED BY <1>1, <1>4, <1>5 DEF Observing!IInv, Observing!LedgerInv, Observing!AskedOnce

\* Calls that have taken a lease, one each.
Holds(c) == Observing!At(c, "record") \/ Observing!At(c, "observe")

\* What a call that does not move goes on to know: without an event no ledger is written, and
\* none while its lease lives.
LEMMA OtherCall ==
  ASSUME Observing!IInv, NEW d \in Calls, x3'[d] = x3[d], x1' \in Nat, x1 <= x1',
         x2'.gen \in Nat, x2.gen <= x2'.gen,
         Observing!At(d, "record") /\ Observing!Owns(d)' => Observing!Owns(d),
         \/ x2'.ledger = x2.ledger
         \/ x1 < x1' /\ ~(Observing!At(d, "record") /\ Observing!Owns(d)'),
         Holds(d) => \A e \in Calls \ {d} : Holds(e)' => x3'[e].gen # x3[d].gen
  PROVE  Observing!Works(d)'
  <1>1. /\ x3[d] \in CallRows /\ Observing!Works(d) /\ x1 \in Nat /\ x2.gen \in Nat
    BY LedgerRows DEF ItemRows
  <1>2. /\ x3[d].fence \in Nat /\ x3[d].gen \in Nat
    BY <1>1, BoundsAssumption DEF CallRows
  <1>3. /\ x3'[d].fence <= x1' /\ x3'[d].gen <= x2'.gen
        /\ (~Observing!At(d, "idle") => x3[d].key \in Keys /\ x3[d].fence # 0)
    BY <1>1, <1>2 DEF Observing!Works
  <1>4. x1' = x3[d].fence => x1 = x3[d].fence /\ x2'.ledger = x2.ledger
    BY <1>1, <1>2 DEF Observing!Works
  <1>5. x2'.ledger = x2.ledger =>
          /\ Observing!Possible(d)' = Observing!Possible(d)
          /\ Observing!Foreseen(d)' = Observing!Foreseen(d)
    BY DEF Observing!Possible, Observing!Foreseen, Observing!Recorded, Observing!Entry
  <1>6. Observing!At(d, "prepare") /\ x1' = x3[d].fence => Observing!Possible(d)'
    BY <1>1, <1>4, <1>5 DEF Observing!Works, Observing!Unmoved
  <1>7. Observing!At(d, "claim") /\ x1' = x3[d].fence => Observing!Foreseen(d)'
    BY <1>1, <1>4, <1>5 DEF Observing!Works, Observing!Unmoved
  <1>8. Observing!At(d, "record") /\ Observing!Owns(d)' => Observing!Foreseen(d)'
    BY <1>1, <1>5 DEF Observing!Works
  <1> QED BY <1>3, <1>6, <1>7, <1>8 DEF Observing!Works, Observing!Unmoved, Observing!At, Holds

\* Only the calls' own rows change.
LEMMA CallKept ==
  ASSUME Observing!IInv, NEW c \in Calls, NEW y \in CallRows, x3' = [x3 EXCEPT ![c] = y],
         UNCHANGED <<x1, x2, x4>>, Observing!Works(c)',
         y.pc \in {"record", "observe"} => Holds(c) /\ y.gen = x3[c].gen
  PROVE  Observing!IInv'
  <1>1. x3' \in [Calls -> CallRows] /\ x3'[c] = y /\ \A d \in Calls \ {c} : x3'[d] = x3[d]
    BY LedgerRows
  <1>2. ASSUME NEW d \in Calls, d # c
        PROVE  Observing!Works(d)'
    <2>1. Observing!Works(d) /\ x3'[d] = x3[d] /\ x1 \in Nat /\ x2.gen \in Nat
      BY <1>1, <1>2, LedgerRows DEF ItemRows
    <2>2. Observing!Owns(d)' = Observing!Owns(d)
      BY <2>1 DEF Observing!Owns, Observing!Live
    <2>3. ASSUME Holds(d), NEW e \in Calls \ {d}, Holds(e)'
          PROVE  x3'[e].gen # x3[d].gen
      <3>1. \A f \in Calls \ {d} : Holds(f) => x3[f].gen # x3[d].gen
        BY <2>1, <2>3 DEF Observing!Works, Holds
      <3>2. CASE e = c
        BY <1>1, <1>2, <2>3, <3>1, <3>2 DEF Holds, Observing!At
      <3>3. CASE e # c
        BY <1>1, <2>3, <3>1, <3>3 DEF Holds, Observing!At
      <3> QED BY <3>2, <3>3
    <2> QED BY <2>1, <2>2, <2>3, OtherCall
  <1>3. \A k \in Keys : Observing!Recorded(k)' = Observing!Recorded(k)
    BY DEF Observing!Recorded
  <1> QED BY <1>1, <1>2, <1>3, LedgerRows, LedgerNext

\* A call that is answered, or never was, knows nothing.
LEMMA IdleCall ==
  ASSUME Observing!IInv, NEW c \in Calls, x3'[c] = Observing!Idle, x1' \in Nat, x2'.gen \in Nat
  PROVE  Observing!Idle \in CallRows /\ Observing!Idle.pc = "idle" /\ Observing!Works(c)'
  <1>1. /\ Observing!Idle \in CallRows /\ Observing!Idle.pc = "idle" /\ Observing!Idle.fence = 0
        /\ Observing!Idle.gen = 0
    BY BoundsAssumption DEF Observing!Idle, CallRows, LedgerPcs
  <1> HIDE DEF CallRows
  <1>2. /\ x3'[c].pc = "idle" /\ x3'[c].fence <= x1' /\ x3'[c].gen <= x2'.gen
    BY <1>1
  <1> QED BY <1>1, <1>2 DEF Observing!Works, Observing!At

\* A call is answered, and nothing else happens.
LEMMA AnswerKept ==
  ASSUME Observing!IInv, NEW c \in Calls, Observing!Answer(c), UNCHANGED <<x1, x2, x4>>
  PROVE  Observing!IInv'
  <1>1. x3' = [x3 EXCEPT ![c] = Observing!Idle] /\ x3'[c] = Observing!Idle
    BY LedgerRows DEF Observing!Answer
  <1>2. x1' \in Nat /\ x2'.gen \in Nat
    BY LedgerRows DEF ItemRows
  <1>3. Observing!Idle \in CallRows /\ Observing!Idle.pc = "idle" /\ Observing!Works(c)'
    BY <1>1, <1>2, IdleCall
  <1> QED BY <1>1, <1>3, CallKept

\* A request is read.
LEMMA AskKept ==
  ASSUME Observing!IInv, NEW c \in Calls, NEW k \in Keys, NEW v \in 1..MaxVersion, Observing!Ask(c, k, v)
  PROVE  Observing!IInv'
  <1> DEFINE y == [Observing!Idle EXCEPT !.pc = "item", !.key = k, !.fence = v, !.seen = x1]
  <1>1. /\ y \in CallRows /\ y.pc = "item" /\ y.key = k /\ y.fence = v /\ y.gen = 0
    <2>1. v \in 0..MaxVersion /\ x1 \in 0..MaxVersion
      BY LedgerRows, BoundsAssumption
    <2>2. Observing!Idle \in CallRows /\ Observing!Idle.gen = 0
      BY BoundsAssumption DEF Observing!Idle, CallRows, LedgerPcs
    <2> QED BY <2>1, <2>2 DEF CallRows, LedgerPcs
  <1>2. x3' = [x3 EXCEPT ![c] = y] /\ UNCHANGED <<x1, x2, x4>> /\ v <= x1
    BY DEF Observing!Ask
  <1> HIDE DEF y
  <1>3. x3'[c] = y
    BY <1>2, LedgerRows
  <1>4. Observing!Works(c)'
    <2>1. v # 0 /\ x1 \in Nat /\ x2.gen \in Nat
      BY LedgerRows, BoundsAssumption DEF ItemRows
    <2> QED BY <1>1, <1>2, <1>3, <2>1 DEF Observing!Works, Observing!At
  <1> QED BY <1>1, <1>2, <1>4, CallKept

\* The item is read: a new key with room for it, a repeated one, or an answer.
LEMMA ReadItemKept ==
  ASSUME Observing!IInv, NEW c \in Calls, Observing!ReadItem(c)
  PROVE  Observing!IInv'
  <1>1. /\ UNCHANGED <<x1, x2, x4>> /\ x3[c].pc = "item" /\ x3[c] \in CallRows /\ Observing!Works(c)
    BY LedgerRows DEF Observing!ReadItem, Observing!At
  <1>2. x3[c].key \in Keys /\ x3[c].fence # 0 /\ x3[c].fence <= x1 /\ x3[c].gen <= x2.gen
    BY <1>1 DEF Observing!Works, Observing!At
  <1>3. CASE Observing!Answer(c)
    BY <1>1, <1>3, AnswerKept
  <1>4. CASE Observing!Go(c, "reclaim")
    <2> DEFINE y == [x3[c] EXCEPT !.pc = "reclaim"]
    <2>1. /\ y \in CallRows /\ y.pc = "reclaim" /\ y.key = x3[c].key /\ y.fence = x3[c].fence
          /\ y.gen = x3[c].gen
      BY <1>1 DEF CallRows, LedgerPcs
    <2>2. x3' = [x3 EXCEPT ![c] = y] /\ x3'[c] = y
      BY <1>4, LedgerRows DEF Observing!Go
    <2> HIDE DEF y
    <2>3. Observing!Works(c)'
      BY <1>1, <1>2, <2>1, <2>2 DEF Observing!Works, Observing!At
    <2> QED BY <1>1, <2>1, <2>2, <2>3, CallKept
  <1>5. CASE Observing!First(c)
    <2>1. /\ ~Observing!Recorded(x3[c].key) /\ Observing!Cardinality(x2.ledger) < Limit
          /\ Observing!Possible(c)
      BY <1>5 DEF Observing!First, Observing!Possible
    <2>2. PICK p \in {"prepare", "claim"} :
            x3' = [x3 EXCEPT ![c].pc = p, ![c].ledger = x2.ledger \cup {Observing!Entry(c)}]
      BY <1>5 DEF Observing!First
    <2> DEFINE y == [x3[c] EXCEPT !.pc = p, !.ledger = x2.ledger \cup {Observing!Entry(c)}]
    <2>3. Observing!Entry(c) \in Observing!Entries /\ x2.ledger \subseteq Observing!Entries
      <3>1. x3[c].fence \in 1..MaxVersion
        BY <1>1, <1>2, BoundsAssumption DEF CallRows
      <3> QED BY <1>2, <3>1, LedgerRows DEF Observing!Entry, Observing!Entries, ItemRows
    <2>4. /\ y \in CallRows /\ y.pc = p /\ y.key = x3[c].key /\ y.fence = x3[c].fence
          /\ y.gen = x3[c].gen /\ y.ledger = x2.ledger \cup {Observing!Entry(c)}
      BY <1>1, <2>3 DEF CallRows, LedgerPcs
    <2>5. x3' = [x3 EXCEPT ![c] = y] /\ x3'[c] = y
      BY <2>2, LedgerRows
    <2> HIDE DEF y
    <2>6. Observing!Entry(c)' = Observing!Entry(c) /\ Observing!Possible(c)'
      BY <1>1, <2>1, <2>4, <2>5 DEF Observing!Entry, Observing!Possible, Observing!Recorded
    <2>7. Observing!Foreseen(c)'
      BY <1>1, <2>4, <2>5, <2>6 DEF Observing!Foreseen
    <2>8. Observing!Works(c)'
      BY <1>1, <1>2, <2>4, <2>5, <2>6, <2>7 DEF Observing!Works, Observing!At
    <2> QED BY <1>1, <2>4, <2>5, <2>8, CallKept
  <1> QED BY <1>3, <1>4, <1>5 DEF Observing!ReadItem, Observing!Repeated

\* A lease is taken: whoever had one has it no longer, and no call worked with the new one.
LEMMA LeaseKept ==
  ASSUME Observing!IInv, NEW c \in Calls, NEW p \in {"record", "observe"},
         NEW ledger \in SUBSET Observing!Entries, Observing!Lease(c, p, ledger),
         Observing!Claimable, UNCHANGED <<x1, x4>>, ~Observing!At(c, "idle"),
         p = "record" => Observing!Possible(c) /\ ledger = x2.ledger \cup {Observing!Entry(c)}
  PROVE  Observing!IInv'
  <1> DEFINE y == [x3[c] EXCEPT !.pc = p, !.gen = x2.gen + 1, !.ledger = ledger]
  <1>1. /\ x3[c] \in CallRows /\ Observing!Works(c) /\ x1 \in Nat /\ x2.gen \in 0..MaxClaims
        /\ x2 \in ItemRows /\ x2.gen < MaxClaims
    BY LedgerRows DEF Observing!Claimable
  <1>2. x2.gen \in Nat /\ x2.gen + 1 \in Nat /\ x2.gen + 1 \in 0..MaxClaims
    BY <1>1, BoundsAssumption
  <1>3. /\ x2' \in ItemRows /\ x2'.gen = x2.gen + 1 /\ x2'.ledger = x2.ledger
    BY <1>1, <1>2 DEF Observing!Lease, ItemRows
  <1>4. /\ y \in CallRows /\ y.pc = p /\ y.key = x3[c].key /\ y.fence = x3[c].fence
        /\ y.gen = x2.gen + 1 /\ y.ledger = ledger
    BY <1>1, <1>2 DEF CallRows, LedgerPcs
  <1>5. x3' = [x3 EXCEPT ![c] = y]
    BY LedgerRows DEF Observing!Lease
  <1> HIDE DEF y
  <1>6. x3' \in [Calls -> CallRows] /\ x3'[c] = y /\ \A d \in Calls \ {c} : x3'[d] = x3[d]
    BY <1>4, <1>5, LedgerRows
  <1>7. ASSUME NEW d \in Calls, d # c
        PROVE  /\ x3[d].gen # x2.gen + 1 /\ x3'[d] = x3[d] /\ Observing!Works(d)
    <2>1. x3[d] \in CallRows /\ Observing!Works(d)
      BY LedgerRows
    <2>2. x3[d].gen \in Nat /\ x3[d].gen <= x2.gen
      BY <2>1 DEF CallRows, Observing!Works
    <2> QED BY <1>2, <1>6, <1>7, <2>1, <2>2
  <1>8. ASSUME NEW d \in Calls, d # c
        PROVE  Observing!Works(d)'
    <2>1. /\ x3[d].gen # x2.gen + 1 /\ x3'[d] = x3[d] /\ Observing!Works(d)
      BY <1>7, <1>8
    <2>2. ~Observing!Owns(d)'
      BY <1>3, <2>1 DEF Observing!Owns
    <2>3. ASSUME Holds(d), NEW e \in Calls \ {d}, Holds(e)'
          PROVE  x3'[e].gen # x3[d].gen
      <3>1. CASE e = c
        BY <1>4, <1>6, <2>1, <3>1
      <3>2. CASE e # c
        <4>1. x3'[e] = x3[e] /\ Holds(e)
          BY <1>6, <2>3, <3>2 DEF Holds, Observing!At
        <4> QED BY <2>1, <2>3, <4>1 DEF Observing!Works, Holds
      <3> QED BY <3>1, <3>2
    <2>4. x2'.gen \in Nat /\ x2.gen <= x2'.gen
      BY <1>2, <1>3
    <2> QED BY <1>1, <1>3, <2>1, <2>2, <2>3, <2>4, OtherCall
  <1>9. Observing!Works(c)'
    <2>1. x3[c].key \in Keys /\ x3[c].fence # 0 /\ x3[c].fence <= x1
      BY <1>1 DEF Observing!Works
    <2>2. p = "record" => Observing!Foreseen(c)'
      BY <1>3, <1>4, <1>6 DEF Observing!Foreseen, Observing!Possible, Observing!Recorded, Observing!Entry
    <2>3. \A d \in Calls \ {c} : x3'[d].gen # x3'[c].gen
      BY <1>4, <1>6, <1>7
    <2>4. x3'[c].gen <= x2'.gen
      BY <1>2, <1>3, <1>4, <1>6
    <2> QED BY <1>4, <1>6, <2>1, <2>2, <2>3, <2>4 DEF Observing!Works, Observing!At
  <1>10. \A k \in Keys : Observing!Recorded(k)' = Observing!Recorded(k)
    BY <1>3 DEF Observing!Recorded
  <1> QED BY <1>2, <1>3, <1>6, <1>8, <1>9, <1>10, LedgerRows, LedgerNext

\* A claim for the version that was shown, of an item with the ledger that was read.
LEMMA ClaimKept ==
  ASSUME Observing!IInv, NEW c \in Calls,
         Observing!Claim(c) \/ Observing!Prepare(c) \/ Observing!Reclaim(c)
  PROVE  Observing!IInv' /\ x2'.ledger = x2.ledger
  <1>1. /\ UNCHANGED <<x1, x4>> /\ x3[c] \in CallRows /\ Observing!Works(c)
        /\ x3[c].pc \in {"claim", "prepare", "reclaim"} /\ ~Observing!At(c, "idle")
    BY LedgerRows DEF Observing!Claim, Observing!Prepare, Observing!Reclaim, Observing!At
  <1>2. CASE Observing!Answer(c) /\ x2' = x2
    BY <1>1, <1>2, AnswerKept
  <1>3. x3[c].ledger \in SUBSET Observing!Entries
    BY <1>1 DEF CallRows
  <1>4. x2.ledger \cup {Observing!Entry(c)} \in SUBSET Observing!Entries
    <2>1. x3[c].key \in Keys /\ x3[c].fence # 0
      BY <1>1 DEF Observing!Works
    <2>2. x3[c].fence \in 1..MaxVersion
      BY <1>1, <2>1, BoundsAssumption DEF CallRows
    <2>3. Observing!Entry(c) \in Observing!Entries
      BY <2>1, <2>2 DEF Observing!Entry, Observing!Entries
    <2> QED BY <2>3, LedgerRows DEF ItemRows
  <1>5. ASSUME NEW p, NEW ledger, Observing!Lease(c, p, ledger)
        PROVE  x2'.ledger = x2.ledger
    BY <1>5, LedgerRows DEF Observing!Lease, ItemRows
  <1>6. CASE Observing!Claim(c) /\ Observing!Lease(c, "record", x3[c].ledger)
             /\ Observing!Unmoved(x3[c].fence) /\ Observing!Claimable
    <2>1. Observing!Foreseen(c)
      BY <1>1, <1>6 DEF Observing!Claim, Observing!Works
    <2> QED BY <1>1, <1>3, <1>5, <1>6, <2>1, LeaseKept DEF Observing!Foreseen
  <1>7. CASE Observing!Prepare(c) /\ Observing!Lease(c, "record", x2.ledger \cup {Observing!Entry(c)})
             /\ Observing!Unmoved(x3[c].fence) /\ Observing!Claimable
    <2>1. Observing!Possible(c)
      BY <1>1, <1>7 DEF Observing!Prepare, Observing!Works
    <2> QED BY <1>1, <1>4, <1>5, <1>7, <2>1, LeaseKept
  <1>8. CASE Observing!Lease(c, "observe", {}) /\ Observing!Claimable
    BY <1>1, <1>5, <1>8, LeaseKept
  <1> QED BY <1>2, <1>6, <1>7, <1>8 DEF Observing!Claim, Observing!Prepare, Observing!Reclaim

\* The item changes hands, or the operation moves on, without a call and without a ledger.
LEMMA ItemKept ==
  ASSUME Observing!IInv, UNCHANGED <<x3, x4>>, x1' \in 1..MaxVersion, x1 <= x1',
         x2' \in ItemRows, x2'.gen \in 0..MaxClaims, x2.gen <= x2'.gen, x2'.ledger = x2.ledger,
         \A c \in Calls : Observing!Owns(c)' => Observing!Owns(c)
  PROVE  Observing!IInv'
  <1>1. ASSUME NEW d \in Calls
        PROVE  Observing!Works(d)'
    <2>1. Observing!Works(d) /\ x3'[d] = x3[d] /\ x1' \in Nat /\ x2'.gen \in Nat
      BY LedgerRows, BoundsAssumption
    <2>2. Holds(d) => \A e \in Calls \ {d} : Holds(e)' => x3'[e].gen # x3[d].gen
      BY <2>1 DEF Observing!Works, Holds, Observing!At
    <2> QED BY <2>1, <2>2, OtherCall
  <1>2. \A k \in Keys : Observing!Recorded(k)' = Observing!Recorded(k)
    BY DEF Observing!Recorded
  <1> QED BY <1>1, <1>2, LedgerRows, LedgerNext

\* Leases that expire, and what others do to the operation and the item.
LEMMA OutsideKept ==
  ASSUME Observing!IInv, Observing!LeaseExpires \/ Observing!Others \/ Observing!Runner
  PROVE  Observing!IInv' /\ x2'.ledger = x2.ledger
  <1>1. /\ UNCHANGED <<x3, x4>> /\ x1 \in 1..MaxVersion /\ x2 \in ItemRows /\ x2.gen \in 0..MaxClaims
        /\ x2.gen \in Nat
    BY LedgerRows DEF Observing!LeaseExpires, Observing!Others, Observing!Runner, ItemRows
  <1>2. CASE x1' = x1 /\ x2' = [x2 EXCEPT !.live = FALSE]
    <2>1. x2' \in ItemRows /\ x2'.gen = x2.gen /\ x2'.ledger = x2.ledger /\ ~x2'.live
      BY <1>1, <1>2 DEF ItemRows
    <2>2. \A c \in Calls : ~Observing!Owns(c)'
      BY <2>1 DEF Observing!Owns, Observing!Live
    <2> QED BY <1>1, <1>2, <2>1, <2>2, ItemKept
  <1>3. CASE x1' = x1 /\ x2.gen < MaxClaims
             /\ x2' = [x2 EXCEPT !.status = "leased", !.live = TRUE, !.gen = x2.gen + 1]
    <2>1. x2.gen + 1 \in Nat /\ x2.gen + 1 \in 0..MaxClaims /\ x2.gen <= x2.gen + 1
      BY <1>1, <1>3, BoundsAssumption
    <2>2. x2' \in ItemRows /\ x2'.gen = x2.gen + 1 /\ x2'.ledger = x2.ledger
      BY <1>1, <1>3, <2>1 DEF ItemRows
    <2>3. ASSUME NEW c \in Calls
          PROVE  ~Observing!Owns(c)'
      <3>1. x3[c] \in CallRows /\ Observing!Works(c)
        BY LedgerRows
      <3>2. x3[c].gen \in Nat /\ x3[c].gen <= x2.gen
        BY <3>1 DEF CallRows, Observing!Works
      <3> QED BY <1>1, <2>2, <3>2 DEF Observing!Owns
    <2> QED BY <1>1, <1>3, <2>1, <2>2, <2>3, ItemKept
  <1>4. CASE x1 < MaxVersion /\ x1' = x1 + 1 /\ x2' = x2
    <2>1. x1' \in 1..MaxVersion /\ x1 <= x1'
      BY <1>1, <1>4, BoundsAssumption
    <2>2. \A c \in Calls : Observing!Owns(c)' => Observing!Owns(c)
      BY <1>1, <1>4 DEF Observing!Owns, Observing!Live
    <2> QED BY <1>1, <1>4, <2>1, <2>2, ItemKept
  <1>5. ASSUME NEW status \in {"waiting", "completed"}, Observing!Conclude(status)
        PROVE  Observing!IInv' /\ x2'.ledger = x2.ledger
    <2>1. x1' \in 1..MaxVersion /\ x1 <= x1'
      BY <1>1, <1>5, BoundsAssumption DEF Observing!Conclude
    <2>2. x2' \in ItemRows /\ x2'.gen = x2.gen /\ x2'.ledger = x2.ledger /\ ~x2'.live
      BY <1>1, <1>5 DEF Observing!Conclude, ItemRows
    <2>3. \A c \in Calls : ~Observing!Owns(c)'
      BY <2>2 DEF Observing!Owns, Observing!Live
    <2> QED BY <1>1, <2>1, <2>2, <2>3, ItemKept
  <1>6. CASE Observing!LeaseExpires
    BY <1>2, <1>6 DEF Observing!LeaseExpires
  <1>7. CASE Observing!Others
    <2>1. x2'.ledger = x2.ledger
      BY <1>1, <1>7 DEF Observing!Others, ItemRows
    <2> QED BY <1>3, <1>4, <1>7, <2>1 DEF Observing!Others
  <1>8. CASE Observing!Runner
    <2>1. CASE \E status \in {"waiting", "completed"} : Observing!Conclude(status)
      BY <1>5, <2>1
    <2>2. CASE /\ x1' = x1 /\ x2.gen < MaxClaims
               /\ x2' = [x2 EXCEPT !.status = "leased", !.live = TRUE, !.gen = x2.gen + 1]
      <3>1. x2'.ledger = x2.ledger
        BY <1>1, <2>2 DEF ItemRows
      <3> QED BY <1>3, <2>2, <3>1
    <2> QED BY <1>8, <2>1, <2>2 DEF Observing!Runner, Observing!Claimable
  <1> QED BY <1>2, <1>6, <1>7, <1>8 DEF Observing!LeaseExpires

\* The request is recorded: under its lease the ledger is still the one it was worked out from.
LEMMA RecordKept ==
  ASSUME Observing!IInv, NEW c \in Calls, Observing!Record(c)
  PROVE  Observing!IInv' /\ x2.ledger \subseteq x2'.ledger
  <1>1. /\ x3[c].pc = "record" /\ x3[c] \in CallRows /\ Observing!Works(c) /\ x1 < MaxVersion
        /\ x1 \in 1..MaxVersion /\ x1 \in Nat /\ x2 \in ItemRows /\ x2.gen \in 0..MaxClaims
        /\ x2.gen \in Nat /\ x3[c].gen \in Nat
    BY LedgerRows DEF Observing!Record, Observing!At, CallRows, ItemRows
  <1>2. CASE Observing!Answer(c) /\ UNCHANGED <<x1, x2, x4>>
    BY <1>2, AnswerKept
  <1>3. CASE /\ Observing!Owns(c) /\ x2' = [x2 EXCEPT !.ledger = x3[c].ledger] /\ x1' = x1 + 1
             /\ x4' = [x4 EXCEPT ![x3[c].key] = x4[x3[c].key] + 1] /\ Observing!Go(c, "observe")
    <2> DEFINE k == x3[c].key
    <2>1. Observing!Foreseen(c) /\ Observing!Possible(c) /\ k \in Keys /\ x3[c].fence # 0
          /\ x3[c].fence <= x1 /\ x3[c].fence \in Nat
      BY <1>1, <1>3, BoundsAssumption DEF Observing!Works, Observing!At, Observing!Foreseen, CallRows
    <2>2. x3[c].ledger \in SUBSET Observing!Entries /\ x3[c].ledger = x2.ledger \cup {Observing!Entry(c)}
      BY <1>1, <2>1 DEF CallRows, Observing!Foreseen
    <2>3. /\ x2' \in ItemRows /\ x2'.gen = x2.gen /\ x2'.ledger = x3[c].ledger
          /\ x2'.status = x2.status /\ x2'.live = x2.live
      BY <1>1, <1>3, <2>2 DEF ItemRows
    <2> DEFINE y == [x3[c] EXCEPT !.pc = "observe"]
    <2>4. /\ y \in CallRows /\ y.pc = "observe" /\ y.key = k /\ y.fence = x3[c].fence
          /\ y.gen = x3[c].gen
      BY <1>1 DEF CallRows, LedgerPcs
    <2>5. x3' = [x3 EXCEPT ![c] = y]
      BY <1>3 DEF Observing!Go
    <2> HIDE DEF y
    <2>6. x3' \in [Calls -> CallRows] /\ x3'[c] = y /\ \A d \in Calls \ {c} : x3'[d] = x3[d]
      BY <2>4, <2>5, LedgerRows
    <2>7. x1' \in 1..MaxVersion /\ x1' \in Nat /\ x1 < x1' /\ x1 <= x1'
      BY <1>1, <1>3, BoundsAssumption
    <2>8. x2.gen = x3[c].gen
      BY <1>3 DEF Observing!Owns
    <2>9. \A d \in Calls \ {c} : Holds(d) => x3[d].gen # x3[c].gen
      BY <1>1 DEF Observing!Works, Holds, Observing!At
    <2>10. ASSUME NEW d \in Calls, d # c
           PROVE  Observing!Works(d)'
      <3>1. Observing!Works(d) /\ x3'[d] = x3[d]
        BY <2>6, <2>10, LedgerRows
      <3>2. ~(Observing!At(d, "record") /\ Observing!Owns(d)')
        BY <2>3, <2>8, <2>9, <2>10, <3>1 DEF Observing!Owns, Holds
      <3>3. ASSUME Holds(d), NEW e \in Calls \ {d}, Holds(e)'
            PROVE  x3'[e].gen # x3[d].gen
        <4>1. CASE e = c
          BY <2>4, <2>6, <2>9, <2>10, <3>3, <4>1
        <4>2. CASE e # c
          <5>1. x3'[e] = x3[e] /\ Holds(e)
            BY <2>6, <3>3, <4>2 DEF Holds, Observing!At
          <5> QED BY <3>1, <3>3, <5>1 DEF Observing!Works, Holds
        <4> QED BY <4>1, <4>2
      <3> QED BY <1>1, <2>3, <2>7, <3>1, <3>2, <3>3, OtherCall
    <2>11. Observing!Works(c)'
      <3>1. \A d \in Calls \ {c} : Holds(d)' => x3'[d].gen # x3'[c].gen
        BY <2>4, <2>6, <2>9 DEF Holds, Observing!At
      <3>2. x3'[c].fence <= x1' /\ x3'[c].gen <= x2'.gen
        BY <1>1, <2>1, <2>3, <2>4, <2>6, <2>7, <2>8
      <3> QED BY <2>1, <2>4, <2>6, <3>1, <3>2 DEF Observing!Works, Observing!At, Holds
    <2>12. x4[k] = 0 /\ x4' \in [Keys -> Nat] /\ x4'[k] = 1 /\ \A j \in Keys \ {k} : x4'[j] = x4[j]
      <3>1. x4[k] = 0
        BY <2>1, LedgerRows DEF Observing!Possible
      <3>2. x4' = [x4 EXCEPT ![k] = x4[k] + 1]
        BY <1>3
      <3> HIDE DEF k
      <3> QED BY <2>1, <3>1, <3>2, LedgerRows
    <2>13. ASSUME NEW j \in Keys
           PROVE  x4'[j] <= 1 /\ (~Observing!Recorded(j)' => x4'[j] = 0)
      <3>1. CASE j = k
        <4>1. Observing!Entry(c) \in x2'.ledger /\ Observing!Entry(c).key = k
          BY <2>2, <2>3 DEF Observing!Entry
        <4>2. Observing!Recorded(j)'
          BY <3>1, <4>1 DEF Observing!Recorded
        <4> HIDE DEF k
        <4> QED BY <2>12, <3>1, <4>2
      <3>2. CASE j # k
        <4>1. x4'[j] = x4[j]
          BY <2>12, <3>2
        <4>2. Observing!Recorded(j) => Observing!Recorded(j)'
          BY <2>2, <2>3 DEF Observing!Recorded
        <4> QED BY <4>1, <4>2, LedgerRows
      <3> QED BY <3>1, <3>2
    <2>14. x2'.gen \in 0..MaxClaims
      BY <1>1, <2>3
    <2> QED BY <2>2, <2>3, <2>6, <2>7, <2>10, <2>11, <2>12, <2>13, <2>14, LedgerNext
  <1> QED BY <1>2, <1>3, LedgerRows DEF Observing!Record

\* The observation ends, and with it the lease; or somebody else has it.
LEMMA ObserveKept ==
  ASSUME Observing!IInv, NEW c \in Calls, Observing!Observe(c)
  PROVE  Observing!IInv' /\ x2'.ledger = x2.ledger
  <1>1. /\ Observing!Answer(c) /\ x4' = x4 /\ x1 \in 1..MaxVersion /\ x1 \in Nat /\ x2 \in ItemRows
        /\ x2.gen \in 0..MaxClaims /\ x2.gen \in Nat
    BY LedgerRows DEF Observing!Observe, ItemRows
  <1>2. CASE UNCHANGED <<x1, x2>>
    BY <1>1, <1>2, AnswerKept
  <1>3. ASSUME NEW status \in {"waiting", "completed"}, Observing!Conclude(status)
        PROVE  Observing!IInv' /\ x2'.ledger = x2.ledger
    <2>1. x1' \in 1..MaxVersion /\ x1' \in Nat /\ x1 <= x1'
      BY <1>1, <1>3, BoundsAssumption DEF Observing!Conclude
    <2>2. x2' \in ItemRows /\ x2'.gen = x2.gen /\ x2'.ledger = x2.ledger /\ ~x2'.live
      BY <1>1, <1>3 DEF Observing!Conclude, ItemRows
    <2>3. x3' = [x3 EXCEPT ![c] = Observing!Idle] /\ x3'[c] = Observing!Idle
      BY <1>1, LedgerRows DEF Observing!Answer
    <2>4. Observing!Idle \in CallRows /\ Observing!Idle.pc = "idle" /\ Observing!Works(c)'
      BY <1>1, <2>1, <2>2, <2>3, IdleCall
    <2>5. x3' \in [Calls -> CallRows] /\ \A d \in Calls \ {c} : x3'[d] = x3[d]
      BY <2>3, <2>4, LedgerRows
    <2>6. ASSUME NEW d \in Calls, d # c
          PROVE  Observing!Works(d)'
      <3>1. Observing!Works(d) /\ x3'[d] = x3[d]
        BY <2>5, <2>6, LedgerRows
      <3>2. ~Observing!Owns(d)'
        BY <2>2 DEF Observing!Owns, Observing!Live
      <3>3. ASSUME Holds(d), NEW e \in Calls \ {d}, Holds(e)'
            PROVE  x3'[e].gen # x3[d].gen
        <4>1. e # c
          BY <2>3, <2>4, <3>3 DEF Holds, Observing!At
        <4>2. x3'[e] = x3[e] /\ Holds(e)
          BY <2>5, <3>3, <4>1 DEF Holds, Observing!At
        <4> QED BY <3>1, <3>3, <4>2 DEF Observing!Works, Holds
      <3> QED BY <1>1, <2>1, <2>2, <3>1, <3>2, <3>3, OtherCall
    <2>7. \A k \in Keys : Observing!Recorded(k)' = Observing!Recorded(k)
      BY <2>2 DEF Observing!Recorded
    <2> QED BY <1>1, <2>1, <2>2, <2>4, <2>5, <2>6, <2>7, LedgerRows, LedgerNext
  <1> QED BY <1>2, <1>3 DEF Observing!Observe

\* Every step of the ledger.
LEMMA LedgerStepKept ==
  ASSUME Observing!IInv, Observing!Next
  PROVE  Observing!IInv' /\ Observing!LedgerStep
  <1>1. ASSUME NEW c \in Calls,
               \/ Observing!ReadItem(c) \/ Observing!Crash(c)
               \/ \E k \in Keys, v \in 1..MaxVersion : Observing!Ask(c, k, v)
        PROVE  Observing!IInv' /\ Observing!LedgerStep
    <2>1. x2' = x2
      BY <1>1 DEF Observing!ReadItem, Observing!Crash, Observing!Ask
    <2>2. Observing!Crash(c) => Observing!IInv'
      BY AnswerKept DEF Observing!Crash
    <2> QED BY <1>1, <2>1, <2>2, ReadItemKept, AskKept DEF Observing!LedgerStep
  <1>2. ASSUME NEW c \in Calls,
               \/ Observing!Claim(c) \/ Observing!Prepare(c) \/ Observing!Reclaim(c)
               \/ Observing!Record(c) \/ Observing!Observe(c)
        PROVE  Observing!IInv' /\ Observing!LedgerStep
    BY <1>2, ClaimKept, RecordKept, ObserveKept DEF Observing!LedgerStep
  <1>3. ASSUME Observing!LeaseExpires \/ Observing!Others \/ Observing!Runner
        PROVE  Observing!IInv' /\ Observing!LedgerStep
    BY <1>3, OutsideKept DEF Observing!LedgerStep
  <1> QED BY <1>1, <1>2, <1>3 DEF Observing!Next

\* Nothing happens to the ledger.
LEMMA LedgerStutter ==
  ASSUME Observing!IInv, UNCHANGED <<x1, x2, x3, x4>>
  PROVE  Observing!IInv' /\ Observing!LedgerStep
  <1>1. /\ x1' \in 1..MaxVersion /\ x1 <= x1' /\ x2' \in ItemRows /\ x2'.gen \in 0..MaxClaims
        /\ x2.gen <= x2'.gen
    BY LedgerRows, BoundsAssumption DEF ItemRows
  <1>2. \A c \in Calls : Observing!Owns(c)' = Observing!Owns(c)
    BY DEF Observing!Owns, Observing!Live
  <1> QED BY <1>1, <1>2, ItemKept DEF Observing!LedgerStep

\* No request yet.
LEMMA LedgerInit ==
  ASSUME Observing!Init
  PROVE  Observing!IInv
  <1>1. /\ x1 = 1 /\ x4 = [k \in Keys |-> 0] /\ x3 = [c \in Calls |-> Observing!Idle]
        /\ x2 = [status |-> "none", live |-> FALSE, gen |-> 0, ledger |-> {}]
    BY DEF Observing!Init
  <1>2. /\ Observing!Idle \in CallRows /\ Observing!Idle.pc = "idle" /\ Observing!Idle.fence = 0
        /\ Observing!Idle.gen = 0
    BY BoundsAssumption DEF Observing!Idle, CallRows, LedgerPcs
  <1>3. /\ x1 \in 1..MaxVersion /\ x2 \in ItemRows /\ x2.gen \in 0..MaxClaims /\ x2.gen = 0
    BY <1>1, BoundsAssumption DEF ItemRows
  <1>4. x4 \in [Keys -> Nat] /\ \A k \in Keys : x4[k] = 0
    BY <1>1
  <1>5. x3 \in [Calls -> CallRows] /\ \A c \in Calls : x3[c] = Observing!Idle
    BY <1>1, <1>2
  <1>6. ASSUME NEW c \in Calls
        PROVE  /\ Observing!Works(c) /\ x3[c].pc \in LedgerPcs /\ x3[c].key \in Keys \cup {None}
               /\ x3[c].ledger \subseteq Observing!Entries /\ ~Observing!At(c, "record")
    <2>1. x3[c].pc = "idle" /\ x3[c].fence = 0 /\ x3[c].gen = 0 /\ x3[c] \in CallRows
      BY <1>2, <1>5
    <2>2. Observing!Works(c) /\ ~Observing!At(c, "record")
      BY <1>1, <1>3, <2>1 DEF Observing!Works, Observing!At
    <2> QED BY <2>1, <2>2 DEF CallRows
  <1>7. Observing!Rows
    BY <1>3, <1>5 DEF Observing!Rows, ItemRows, CallRows, LedgerPcs
  <1>8. x2.status \in {"none", "leased", "waiting", "completed"} /\ x2.live \in BOOLEAN
        /\ x2.ledger \subseteq Observing!Entries
    BY <1>3 DEF ItemRows
  <1>9. Observing!TypeOK
    BY <1>3, <1>4, <1>6, <1>8 DEF Observing!TypeOK, LedgerPcs
  <1>10. Observing!RefusalCostsNothing /\ Observing!AskedOnce
    BY <1>4, <1>6 DEF Observing!RefusalCostsNothing, Observing!AskedOnce
  <1> QED BY <1>4, <1>6, <1>7, <1>9, <1>10 DEF Observing!IInv, Observing!LedgerInv

\* recovery/observe: each observe key is recorded once, to stay, with its first version, and a
\* refused request takes no lease, however many calls, runners and foreground writers race.
THEOREM TheLedgerIsKept == Spec => LedgerIsKept
  <1> DEFINE Sound == part = "ledger" => Observing!IInv
  <1> DEFINE Step == part = "ledger" => Observing!LedgerStep
  <1>1. Init => Sound
    BY LedgerInit DEF Init
  <1>2. ASSUME Sound, [Next]_vars
        PROVE  Sound' /\ Step
    <2>1. CASE part # "ledger"
      BY <1>2, <2>1 DEF Next, vars
    <2>2. CASE part = "ledger" /\ Next
      <3>1. Observing!Next
        BY <2>2 DEF Next
      <3> QED BY <1>2, <2>2, <3>1, LedgerStepKept
    <2>3. CASE part = "ledger" /\ UNCHANGED vars
      <3>1. UNCHANGED <<x1, x2, x3, x4>>
        BY <2>3 DEF vars
      <3> QED BY <1>2, <2>3, <3>1, LedgerStutter
    <2> QED BY <1>2, <2>1, <2>2, <2>3
  <1>3. Sound => (part = "ledger" => Observing!LedgerInv)
    BY DEF Observing!IInv
  <1> QED BY <1>1, <1>2, <1>3, PTL DEF Spec, LedgerIsKept

-----------------------------------------------------------------------------
(* The evidence of a change. *)

Phases == {"reviewed", "admitted", "sent", "task_ok", "task_failed", "succeeded", "paused", "blocked"}
Cluster == [src : Evidence!Vm \cup {Evidence!Absent}, dst : Evidence!Vm \cup {Evidence!Absent}, disk : BOOLEAN,
            stray : BOOLEAN, kept : 0..2, made : BOOLEAN, env : 1..2]

\* A VM that is there is none that is absent.
LEMMA VmIsThere ==
  ASSUME NEW v \in Evidence!Vm
  PROVE  v # Evidence!Absent
  <1>1. v.power \in {"running", "stopped"}
    BY DEF Evidence!Vm
  <1>2. Evidence!Absent.power = "absent"
    BY DEF Evidence!Absent
  <1> QED BY <1>1, <1>2

\* The types of a change.
LEMMA EvidenceRows ==
  ASSUME Evidence!IInv
  PROVE  /\ x1 \in Evidence!Kinds /\ x2 \in Cluster /\ x3 = Evidence!Start(x1) /\ x4 \in Phases
         /\ x3 \in Cluster
         /\ x5 \in 0..MaxDrifts /\ x5 \in Nat /\ x6 \in {"nobody", "us", "outsider"}
         /\ Evidence!Undisturbed /\ Evidence!Marked
  <1>1. Evidence!TypeOK /\ x3 = Evidence!Start(x1) /\ Evidence!Undisturbed /\ Evidence!Marked
    BY DEF Evidence!IInv, Evidence!EvidenceInv
  <1>2. /\ x1 \in Evidence!Kinds /\ x2 \in Cluster /\ x3 \in Cluster /\ x4 \in Phases
        /\ x5 \in 0..MaxDrifts /\ x6 \in {"nobody", "us", "outsider"}
    BY <1>1 DEF Evidence!TypeOK, Evidence!Worlds, Cluster, Phases
  <1> QED BY <1>1, <1>2, BoundsAssumption

\* The invariant of a change that is not over.
LEMMA EvidenceNext ==
  ASSUME Evidence!IInv, UNCHANGED <<x1, x3>>, x2' \in Cluster, x4' \in Phases \ {"succeeded", "paused"},
         x5' \in 0..MaxDrifts, x6' \in {"nobody", "us", "outsider"}, Evidence!Undisturbed', Evidence!Marked'
  PROVE  Evidence!IInv'
  <1>1. Evidence!TypeOK'
    BY EvidenceRows DEF Evidence!TypeOK, Evidence!Worlds, Cluster, Phases
  <1>2. /\ Evidence!PromisesAreKept' /\ Evidence!NothingHalfDone' /\ Evidence!CreatedByUs'
        /\ Evidence!CleanChangeSucceeds'
    BY DEF Evidence!PromisesAreKept, Evidence!NothingHalfDone, Evidence!CreatedByUs, Evidence!CleanChangeSucceeds
  <1>3. x3' = Evidence!Start(x1)'
    BY EvidenceRows DEF Evidence!Start, Evidence!Absent
  <1> QED BY <1>1, <1>2, <1>3 DEF Evidence!IInv, Evidence!EvidenceInv

\* Another VM in the place of the changed one.
LEMMA WithSrc ==
  ASSUME NEW w \in Cluster, NEW v \in Evidence!Vm \cup {Evidence!Absent},
         NEW e, e = [w EXCEPT !.src = v]
  PROVE  /\ e \in Cluster /\ e.src = v /\ e.dst = w.dst /\ e.disk = w.disk
         /\ e.stray = w.stray /\ e.kept = w.kept /\ e.env = w.env
  BY DEF Cluster

\* Another VM in the place of the one to be made.
LEMMA WithDst ==
  ASSUME NEW w \in Cluster, NEW v \in Evidence!Vm \cup {Evidence!Absent},
         NEW e, e = [w EXCEPT !.dst = v]
  PROVE  /\ e \in Cluster /\ e.src = w.src /\ e.dst = v /\ e.disk = w.disk
         /\ e.stray = w.stray /\ e.kept = w.kept /\ e.env = w.env
  BY DEF Cluster

\* A VM deleted with its disk.
LEMMA WithoutSrc ==
  ASSUME NEW w \in Cluster, NEW e, e = [w EXCEPT !.src = Evidence!Absent, !.disk = FALSE]
  PROVE  /\ e \in Cluster /\ e.src = Evidence!Absent /\ e.dst = w.dst /\ e.disk = FALSE
         /\ e.stray = w.stray /\ e.kept = w.kept /\ e.env = w.env
  BY DEF Cluster

\* What a change does, kind by kind.
LEMMA EffectOf ==
  ASSUME NEW w \in Cluster
  PROVE  /\ Evidence!Effect("disk", w) = [w EXCEPT !.src = [w.src EXCEPT !.size = 2, !.actual = 2]]
         /\ Evidence!Effect("compute", w) = [w EXCEPT !.src = [w.src EXCEPT !.cores = 2]]
         /\ Evidence!Effect("network", w) = [w EXCEPT !.src = [w.src EXCEPT !.net = 2]]
         /\ Evidence!Effect("clone", w) = [w EXCEPT !.dst = Evidence!Copy(w.src, 2, w.src.net, 2)]
         /\ Evidence!Effect("delete", w) = [w EXCEPT !.src = Evidence!Absent, !.disk = FALSE]
         /\ Evidence!Effect("cleanup", w) = [w EXCEPT !.src = Evidence!Absent, !.disk = FALSE]
         /\ Evidence!Effect("migrate", w) = [w EXCEPT !.src = [w.src EXCEPT !.node = 2]]
         /\ Evidence!Effect("backup", w) = [w EXCEPT !.made = TRUE]
         /\ Evidence!Effect("restore", w)
              = [w EXCEPT !.dst = [Evidence!Copy(x3.src, 3, 3, 2) EXCEPT !.hw = w.kept]]
         /\ Evidence!Effect("template", w) = [w EXCEPT !.src = [w.src EXCEPT !.form = "template"]]
  <1>1. Evidence!Effect("disk", w) = [w EXCEPT !.src.size = 2, !.src.actual = 2]
    BY DEF Evidence!Effect
  <1>2. Evidence!Effect("disk", w) = [w EXCEPT !.src = [w.src EXCEPT !.size = 2, !.actual = 2]]
    BY <1>1 DEF Cluster
  <1>3. /\ Evidence!Effect("compute", w) = [w EXCEPT !.src = [w.src EXCEPT !.cores = 2]]
        /\ Evidence!Effect("network", w) = [w EXCEPT !.src = [w.src EXCEPT !.net = 2]]
        /\ Evidence!Effect("migrate", w) = [w EXCEPT !.src = [w.src EXCEPT !.node = 2]]
        /\ Evidence!Effect("template", w) = [w EXCEPT !.src = [w.src EXCEPT !.form = "template"]]
    BY DEF Evidence!Effect
  <1>4. /\ Evidence!Effect("clone", w) = [w EXCEPT !.dst = Evidence!Copy(w.src, 2, w.src.net, 2)]
        /\ Evidence!Effect("restore", w)
              = [w EXCEPT !.dst = [Evidence!Copy(x3.src, 3, 3, 2) EXCEPT !.hw = w.kept]]
    BY DEF Evidence!Effect
  <1>5. /\ Evidence!Effect("delete", w) = [w EXCEPT !.src = Evidence!Absent, !.disk = FALSE]
        /\ Evidence!Effect("cleanup", w) = [w EXCEPT !.src = Evidence!Absent, !.disk = FALSE]
        /\ Evidence!Effect("backup", w) = [w EXCEPT !.made = TRUE]
    BY DEF Evidence!Effect
  <1> QED BY <1>2, <1>3, <1>4, <1>5

\* A clone is a VM of ours, of the size its configuration claims.
LEMMA CloneOf ==
  ASSUME NEW v \in Evidence!Vm, NEW c, c = Evidence!Copy(v, 2, v.net, 2)
  PROVE  /\ c \in Evidence!Vm /\ c.mac = 2 /\ c.net = v.net /\ c.name = 2 /\ c.marker = "ours"
         /\ c.power = "stopped" /\ c.settled = TRUE /\ c.auto = FALSE /\ c.guarded = FALSE
         /\ c.form = "vm" /\ c.actual = v.size /\ c.size = v.size /\ c.cores = v.cores /\ c.hw = v.hw
  <1> DEFINE e == [v EXCEPT !.mac = 2]
             f == [e EXCEPT !.net = v.net]
             a == [f EXCEPT !.name = 2]
             b == [a EXCEPT !.marker = "ours", !.power = "stopped", !.form = "vm"]
             d == [b EXCEPT !.settled = TRUE, !.auto = FALSE, !.guarded = FALSE]
  <1>1. c = [d EXCEPT !.actual = v.size]
    BY DEF Evidence!Copy, Evidence!Vm
  <1>2. e \in Evidence!Vm /\ e.size = v.size
    BY DEF Evidence!Vm
  <1>3. f = [e EXCEPT !.net = v.net] /\ v.net \in 1..3
    BY DEF Evidence!Vm
  <1> HIDE DEF e, f
  <1>4. f \in Evidence!Vm /\ f.size = v.size
    BY <1>2, <1>3 DEF Evidence!Vm
  <1>5. a \in Evidence!Vm /\ a.size = v.size
    BY <1>4 DEF Evidence!Vm
  <1> HIDE DEF a
  <1>6. b \in Evidence!Vm /\ b.size = v.size
    BY <1>5 DEF Evidence!Vm
  <1> HIDE DEF b
  <1>7. d \in Evidence!Vm
    BY <1>6 DEF Evidence!Vm
  <1>8. v.size \in 1..2
    BY DEF Evidence!Vm
  <1> HIDE DEF d
  <1>9. c \in Evidence!Vm
    BY <1>1, <1>7, <1>8 DEF Evidence!Vm
  <1>10. /\ c.mac = 2 /\ c.net = v.net /\ c.name = 2 /\ c.marker = "ours"
        /\ c.power = "stopped" /\ c.settled = TRUE /\ c.auto = FALSE /\ c.guarded = FALSE
    BY DEF Evidence!Copy, Evidence!Vm
  <1>11. c.form = "vm" /\ c.actual = v.size /\ c.size = v.size /\ c.cores = v.cores /\ c.hw = v.hw
    BY DEF Evidence!Copy, Evidence!Vm
  <1> QED BY <1>9, <1>10, <1>11

\* So is a restored VM.
LEMMA RestoredOf ==
  ASSUME NEW v \in Evidence!Vm, NEW c, c = Evidence!Copy(v, 3, 3, 2)
  PROVE  /\ c \in Evidence!Vm /\ c.mac = 3 /\ c.net = 3 /\ c.name = 2 /\ c.marker = "ours"
         /\ c.power = "stopped" /\ c.settled = TRUE /\ c.auto = FALSE /\ c.guarded = FALSE
         /\ c.form = "vm" /\ c.actual = v.size /\ c.size = v.size /\ c.cores = v.cores /\ c.hw = v.hw
  <1> DEFINE e == [v EXCEPT !.mac = 3]
             f == [e EXCEPT !.net = 3]
             a == [f EXCEPT !.name = 2]
             b == [a EXCEPT !.marker = "ours", !.power = "stopped", !.form = "vm"]
             d == [b EXCEPT !.settled = TRUE, !.auto = FALSE, !.guarded = FALSE]
  <1>1. c = [d EXCEPT !.actual = v.size]
    BY DEF Evidence!Copy, Evidence!Vm
  <1>2. e \in Evidence!Vm /\ e.size = v.size
    BY DEF Evidence!Vm
  <1>3. f = [e EXCEPT !.net = 3] /\ v.net \in 1..3
    BY DEF Evidence!Vm
  <1> HIDE DEF e, f
  <1>4. f \in Evidence!Vm /\ f.size = v.size
    BY <1>2, <1>3 DEF Evidence!Vm
  <1>5. a \in Evidence!Vm /\ a.size = v.size
    BY <1>4 DEF Evidence!Vm
  <1> HIDE DEF a
  <1>6. b \in Evidence!Vm /\ b.size = v.size
    BY <1>5 DEF Evidence!Vm
  <1> HIDE DEF b
  <1>7. d \in Evidence!Vm
    BY <1>6 DEF Evidence!Vm
  <1>8. v.size \in 1..2
    BY DEF Evidence!Vm
  <1> HIDE DEF d
  <1>9. c \in Evidence!Vm
    BY <1>1, <1>7, <1>8 DEF Evidence!Vm
  <1>10. /\ c.mac = 3 /\ c.net = 3 /\ c.name = 2 /\ c.marker = "ours"
        /\ c.power = "stopped" /\ c.settled = TRUE /\ c.auto = FALSE /\ c.guarded = FALSE
    BY DEF Evidence!Copy, Evidence!Vm
  <1>11. c.form = "vm" /\ c.actual = v.size /\ c.size = v.size /\ c.cores = v.cores /\ c.hw = v.hw
    BY DEF Evidence!Copy, Evidence!Vm
  <1> QED BY <1>9, <1>10, <1>11

\* A VM whose disk is resized.
LEMMA Resized ==
  ASSUME NEW v \in Evidence!Vm
  PROVE  LET u == [v EXCEPT !.size = 2, !.actual = 2] IN
         /\ u \in Evidence!Vm /\ u.size = 2 /\ u.actual = 2 /\ u.marker = v.marker /\ u.power = v.power
         /\ u.settled = v.settled /\ u.form = v.form /\ u.name = v.name
  <1> DEFINE s == [v EXCEPT !.size = 2]
  <1>1. /\ s \in Evidence!Vm /\ s.size = 2 /\ s.marker = v.marker /\ s.power = v.power
        /\ s.settled = v.settled /\ s.form = v.form /\ s.name = v.name
    BY DEF Evidence!Vm
  <1>2. [v EXCEPT !.size = 2, !.actual = 2] = [s EXCEPT !.actual = 2]
    OBVIOUS
  <1> HIDE DEF s
  <1>3. [s EXCEPT !.actual = 2] \in Evidence!Vm
    BY <1>1 DEF Evidence!Vm
  <1>4. LET u == [s EXCEPT !.actual = 2] IN
        /\ u.size = 2 /\ u.actual = 2 /\ u.marker = v.marker /\ u.power = v.power
        /\ u.settled = v.settled /\ u.form = v.form /\ u.name = v.name
    BY <1>1 DEF Evidence!Vm
  <1> QED BY <1>2, <1>3, <1>4

\* What is reviewed at first.
LEMMA StartOf ==
  ASSUME NEW k \in Evidence!Kinds
  PROVE  LET s == Evidence!Start(k) IN
         /\ s \in Cluster /\ s.src \in Evidence!Vm /\ s.dst = Evidence!Absent /\ s.disk = TRUE /\ s.stray = TRUE
         /\ s.kept = 1 /\ s.made = FALSE /\ s.env = 1
         /\ s.src.power = "stopped" /\ s.src.settled = TRUE /\ s.src.auto = FALSE /\ s.src.guarded = FALSE
         /\ s.src.name = 1 /\ s.src.hw = 1 /\ s.src.cores = 1 /\ s.src.net = 1 /\ s.src.size = 1
         /\ s.src.actual = 1 /\ s.src.mac = 1 /\ s.src.node = 1
         /\ s.src.form = (IF k = "cleanup" THEN "template" ELSE "vm")
         /\ s.src.marker = (IF k = "cleanup" THEN "ours" ELSE "none")
  <1> DEFINE v == [power |-> "stopped", form |-> IF k = "cleanup" THEN "template" ELSE "vm",
                   settled |-> TRUE, auto |-> FALSE, guarded |-> FALSE, name |-> 1, hw |-> 1,
                   cores |-> 1, net |-> 1, size |-> 1, actual |-> 1, mac |-> 1, node |-> 1,
                   marker |-> IF k = "cleanup" THEN "ours" ELSE "none"]
  <1>1. v \in Evidence!Vm
    BY DEF Evidence!Vm
  <1>2. Evidence!Start(k) = [src |-> v, dst |-> Evidence!Absent, disk |-> TRUE, stray |-> TRUE, kept |-> 1,
                             made |-> FALSE, env |-> 1]
    BY DEF Evidence!Start
  <1>3. Evidence!Start(k) \in Cluster
    BY <1>1, <1>2 DEF Cluster
  <1> QED BY <1>1, <1>2, <1>3

\* An outsider changes one field of a VM, and never a marker.
LEMMA TouchedOf ==
  ASSUME NEW v \in Evidence!Vm, NEW u \in Evidence!Touched(v)
  PROVE  u \in Evidence!Vm /\ u.marker = v.marker
  <1>1. CASE u = [v EXCEPT !.power = IF v.power = "stopped" THEN "running" ELSE "stopped"]
    BY <1>1 DEF Evidence!Vm
  <1>2. CASE \/ u = [v EXCEPT !.settled = ~v.settled] \/ u = [v EXCEPT !.auto = ~v.auto]
             \/ u = [v EXCEPT !.guarded = ~v.guarded]
    <2>1. \E b \in BOOLEAN :
            \/ u = [v EXCEPT !.settled = b] \/ u = [v EXCEPT !.auto = b] \/ u = [v EXCEPT !.guarded = b]
      BY <1>2
    <2> QED BY <2>1 DEF Evidence!Vm
  <1>3. CASE \/ u = [v EXCEPT !.hw = 3 - v.hw] \/ u = [v EXCEPT !.cores = 3 - v.cores]
             \/ u = [v EXCEPT !.name = 3 - v.name]
    <2>1. 3 - v.hw \in 1..2 /\ 3 - v.cores \in 1..2 /\ 3 - v.name \in 1..2
      BY DEF Evidence!Vm
    <2> QED BY <1>3, <2>1 DEF Evidence!Vm
  <1>4. CASE u = [v EXCEPT !.net = 2] \/ u = [v EXCEPT !.mac = 2]
    BY <1>4 DEF Evidence!Vm
  <1>5. CASE u = [v EXCEPT !.size = 2, !.actual = 2]
    BY <1>5, Resized
  <1> QED BY <1>1, <1>2, <1>3, <1>4, <1>5 DEF Evidence!Touched

\* What Proxmox makes of a change is a cluster again, in which only a copy makes a VM.
LEMMA EffectTyped ==
  ASSUME Evidence!IInv, NEW w \in Cluster, w.src \in Evidence!Vm, NEW k \in Evidence!Kinds,
         k = "restore" => w.kept # 0
  PROVE  /\ Evidence!Effect(k, w) \in Cluster
         /\ IF k \in {"clone", "restore"} THEN Evidence!Effect(k, w).dst \in Evidence!Vm
            ELSE Evidence!Effect(k, w).dst = w.dst
  <1>1. x3.src \in Evidence!Vm
    BY EvidenceRows, StartOf
  <1>2. CASE k = "disk"
    <2> DEFINE v == [w.src EXCEPT !.size = 2, !.actual = 2]
    <2>1. v \in Evidence!Vm
      BY Resized
    <2>2. Evidence!Effect(k, w) = [w EXCEPT !.src = v]
      BY <1>2, EffectOf
    <2> HIDE DEF v
    <2> QED BY <1>2, <2>1, <2>2, WithSrc
  <1>3. CASE k = "compute"
    <2> DEFINE v == [w.src EXCEPT !.cores = 2]
    <2>1. v \in Evidence!Vm
      BY DEF Evidence!Vm
    <2>2. Evidence!Effect(k, w) = [w EXCEPT !.src = v]
      BY <1>3, EffectOf
    <2> HIDE DEF v
    <2> QED BY <1>3, <2>1, <2>2, WithSrc
  <1>4. CASE k = "network"
    <2> DEFINE v == [w.src EXCEPT !.net = 2]
    <2>1. v \in Evidence!Vm
      BY DEF Evidence!Vm
    <2>2. Evidence!Effect(k, w) = [w EXCEPT !.src = v]
      BY <1>4, EffectOf
    <2> HIDE DEF v
    <2> QED BY <1>4, <2>1, <2>2, WithSrc
  <1>5. CASE k = "clone"
    <2> DEFINE v == Evidence!Copy(w.src, 2, w.src.net, 2)
    <2>1. v \in Evidence!Vm
      BY CloneOf
    <2>2. Evidence!Effect(k, w) = [w EXCEPT !.dst = v]
      BY <1>5, EffectOf
    <2> HIDE DEF v
    <2> QED BY <1>5, <2>1, <2>2, WithDst
  <1>6. CASE k \in {"delete", "cleanup"}
    <2>1. Evidence!Effect(k, w) = [w EXCEPT !.src = Evidence!Absent, !.disk = FALSE]
      BY <1>6, EffectOf
    <2> QED BY <1>6, <2>1, WithoutSrc
  <1>7. CASE k = "migrate"
    <2> DEFINE v == [w.src EXCEPT !.node = 2]
    <2>1. v \in Evidence!Vm
      BY DEF Evidence!Vm
    <2>2. Evidence!Effect(k, w) = [w EXCEPT !.src = v]
      BY <1>7, EffectOf
    <2> HIDE DEF v
    <2> QED BY <1>7, <2>1, <2>2, WithSrc
  <1>8. CASE k = "backup"
    <2>1. Evidence!Effect(k, w) = [w EXCEPT !.made = TRUE]
      BY <1>8, EffectOf
    <2> QED BY <1>8, <2>1 DEF Cluster
  <1>9. CASE k = "restore"
    <2>1. Evidence!Copy(x3.src, 3, 3, 2) \in Evidence!Vm
      BY <1>1, RestoredOf
    <2>2. w.kept \in 1..2
      BY <1>9 DEF Cluster
    <2> DEFINE v == [Evidence!Copy(x3.src, 3, 3, 2) EXCEPT !.hw = w.kept]
    <2>3. v \in Evidence!Vm
      BY <2>1, <2>2 DEF Evidence!Vm
    <2>4. Evidence!Effect(k, w) = [w EXCEPT !.dst = v]
      BY <1>9, EffectOf
    <2> HIDE DEF v
    <2> QED BY <1>9, <2>3, <2>4, WithDst
  <1>10. CASE k = "template"
    <2> DEFINE v == [w.src EXCEPT !.form = "template"]
    <2>1. v \in Evidence!Vm
      BY DEF Evidence!Vm
    <2>2. Evidence!Effect(k, w) = [w EXCEPT !.src = v]
      BY <1>10, EffectOf
    <2> HIDE DEF v
    <2> QED BY <1>10, <2>1, <2>2, WithSrc
  <1> QED BY <1>2, <1>3, <1>4, <1>5, <1>6, <1>7, <1>8, <1>9, <1>10 DEF Evidence!Kinds

\* What a task leaves undone, kind by kind.
LEMMA ResidueOf ==
  ASSUME NEW w, NEW k, NEW r \in Evidence!Residue(k, w)
  PROVE  \/ r = w
         \/ k \in {"delete", "cleanup"} /\ r = [w EXCEPT !.src = Evidence!Absent]
         \/ k = "disk" /\ r = [w EXCEPT !.src.size = 2]
         \/ k \in {"clone", "restore"}
            /\ r = [Evidence!Effect(k, w) EXCEPT !.dst.actual = 3 - Evidence!Effect(k, w).dst.actual]
  BY DEF Evidence!Residue

\* What is left undone is a cluster too.
LEMMA ResidueTyped ==
  ASSUME Evidence!IInv, NEW w \in Cluster, w.src \in Evidence!Vm, NEW k \in Evidence!Kinds,
         k = "restore" => w.kept # 0, NEW r \in Evidence!Residue(k, w)
  PROVE  r \in Cluster
  <1>1. CASE r = w
    BY <1>1
  <1>2. CASE r = [w EXCEPT !.src = Evidence!Absent]
    BY <1>2, WithSrc
  <1>3. CASE r = [w EXCEPT !.src.size = 2]
    <2>1. [w.src EXCEPT !.size = 2] \in Evidence!Vm
      BY DEF Evidence!Vm
    <2> QED BY <1>3, <2>1 DEF Cluster
  <1>4. CASE k \in {"clone", "restore"}
             /\ r = [Evidence!Effect(k, w) EXCEPT !.dst.actual = 3 - Evidence!Effect(k, w).dst.actual]
    <2> DEFINE e == Evidence!Effect(k, w)
    <2>1. e \in Cluster /\ e.dst \in Evidence!Vm
      BY <1>4, EffectTyped
    <2>2. r = [e EXCEPT !.dst = [e.dst EXCEPT !.actual = 3 - e.dst.actual]]
      BY <1>4, <2>1 DEF Cluster
    <2> HIDE DEF e
    <2>3. [e.dst EXCEPT !.actual = 3 - e.dst.actual] \in Evidence!Vm
      BY <2>1 DEF Evidence!Vm
    <2> QED BY <2>1, <2>2, <2>3 DEF Cluster
  <1> QED BY <1>1, <1>2, <1>3, <1>4, ResidueOf

\* Of a cluster as reviewed, a change is recognised when it is done, and makes a difference.
LEMMA CleanChange ==
  ASSUME Evidence!IInv
  PROVE  /\ Evidence!Effect(x1, x3) # x3
         /\ Evidence!Matches(x1, Evidence!Effect(x1, x3), x3)
  <1> DEFINE e == Evidence!Effect(x1, x3)
  <1>1. x1 \in Evidence!Kinds /\ x3 = Evidence!Start(x1) /\ x3 \in Cluster /\ x3.src \in Evidence!Vm
    BY EvidenceRows, StartOf
  <1>2. /\ x3.dst = Evidence!Absent /\ x3.disk = TRUE /\ x3.stray = TRUE
        /\ x3.kept = 1 /\ x3.made = FALSE /\ x3.env = 1
        /\ x3.src.power = "stopped" /\ x3.src.settled = TRUE /\ x3.src.auto = FALSE /\ x3.src.guarded = FALSE
        /\ x3.src.name = 1 /\ x3.src.hw = 1 /\ x3.src.cores = 1 /\ x3.src.net = 1 /\ x3.src.size = 1
        /\ x3.src.actual = 1 /\ x3.src.mac = 1 /\ x3.src.node = 1
        /\ x3.src.form = (IF x1 = "cleanup" THEN "template" ELSE "vm")
        /\ x3.src # Evidence!Absent
    BY <1>1, StartOf, VmIsThere
  <1>3. CASE x1 = "disk"
    <2> DEFINE v == [x3.src EXCEPT !.size = 2, !.actual = 2]
    <2>1. v \in Evidence!Vm /\ v.size = 2 /\ v.actual = 2 /\ v.power = "stopped" /\ v.settled = TRUE
          /\ v.form = "vm" /\ v.name = 1
      BY <1>1, <1>2, <1>3, Resized
    <2>2. e = [x3 EXCEPT !.src = v]
      BY <1>1, <1>3, EffectOf
    <2> HIDE DEF e, v
    <2>3. e.src = v
      BY <1>1, <1>3, <2>1, <2>2, WithSrc
    <2>4. e # x3
      BY <1>2, <2>1, <2>3
    <2>5. Evidence!DiskMatches(e, x3)
      BY <1>2, <2>1, <2>3, VmIsThere
         DEF Evidence!DiskMatches, Evidence!DiskReadable, Evidence!Plain, Evidence!Settled, Evidence!Sized
    <2> QED BY <1>3, <2>4, <2>5 DEF Evidence!Matches, e
  <1>4. CASE x1 = "compute"
    <2> DEFINE v == [x3.src EXCEPT !.cores = 2]
    <2>1. v \in Evidence!Vm /\ v.cores = 2 /\ v.power = "stopped" /\ v.settled = TRUE
          /\ v.form = "vm" /\ v.name = 1
      BY <1>1, <1>2, <1>4 DEF Evidence!Vm
    <2>2. e = [x3 EXCEPT !.src = v]
      BY <1>1, <1>4, EffectOf
    <2> HIDE DEF e, v
    <2>3. e.src = v
      BY <1>1, <1>4, <2>1, <2>2, WithSrc
    <2>4. e # x3
      BY <1>2, <2>1, <2>3
    <2>5. Evidence!ComputeMatches(e, x3)
      BY <1>2, <2>1, <2>3, VmIsThere
         DEF Evidence!ComputeMatches, Evidence!ComputeReadable, Evidence!Plain, Evidence!Settled
    <2> QED BY <1>4, <2>4, <2>5 DEF Evidence!Matches, e
  <1>5. CASE x1 = "network"
    <2> DEFINE v == [x3.src EXCEPT !.net = 2]
    <2>1. v \in Evidence!Vm /\ v.net = 2 /\ v.power = "stopped" /\ v.settled = TRUE
          /\ v.form = "vm" /\ v.name = 1 /\ v.mac = 1
      BY <1>1, <1>2, <1>5 DEF Evidence!Vm
    <2>2. e = [x3 EXCEPT !.src = v]
      BY <1>1, <1>5, EffectOf
    <2> HIDE DEF e, v
    <2>3. e.src = v /\ e.env = 1
      BY <1>1, <1>2, <1>5, <2>1, <2>2, WithSrc
    <2>4. e # x3
      BY <1>2, <2>1, <2>3
    <2>5. Evidence!NetworkMatches(e, x3)
      BY <1>2, <2>1, <2>3, VmIsThere
         DEF Evidence!NetworkMatches, Evidence!NetworkReadable, Evidence!Plain, Evidence!Settled
    <2> QED BY <1>5, <2>4, <2>5 DEF Evidence!Matches, e
  <1>6. CASE x1 = "clone"
    <2>1. PICK s : s = x3.src
      OBVIOUS
    <2>2. PICK v : v = Evidence!Copy(s, 2, s.net, 2)
      OBVIOUS
    <2>3. s \in Evidence!Vm
      BY <1>1, <2>1
    <2>4. s.net = 1 /\ s.size = 1 /\ s.cores = 1
      BY <1>1, <1>2, <2>1
    <2>5. v \in Evidence!Vm /\ v.marker = "ours"
      BY <2>2, <2>3, CloneOf
    <2>6. v.mac = 2
      BY <2>2, <2>3, CloneOf
    <2>7. v.net = s.net
      BY <2>2, <2>3, CloneOf
    <2>8. v.name = 2
      BY <2>2, <2>3, CloneOf
    <2>9. v.power = "stopped" /\ v.settled = TRUE /\ v.auto = FALSE /\ v.form = "vm"
      BY <2>2, <2>3, CloneOf
    <2>10. v.actual = s.size
      BY <2>2, <2>3, CloneOf
    <2>11. v.size = s.size
      BY <2>2, <2>3, CloneOf
    <2>12. v.cores = s.cores
      BY <2>2, <2>3, CloneOf
    <2>13. /\ v \in Evidence!Vm /\ v.mac = 2 /\ v.net = 1 /\ v.name = 2 /\ v.marker = "ours"
          /\ v.power = "stopped" /\ v.settled = TRUE /\ v.auto = FALSE
          /\ v.form = "vm" /\ v.actual = 1 /\ v.size = 1 /\ v.cores = 1
      BY <2>5, <2>4, <2>9, <2>10, <2>6, <2>7, <2>8, <2>11, <2>12
    <2>14. e = [x3 EXCEPT !.dst = v]
      BY <1>1, <1>6, <2>1, <2>2, EffectOf
    <2> HIDE DEF e
    <2>15. e.dst = v /\ e.src = x3.src
      BY <1>1, <1>6, <2>13, <2>14, WithDst
    <2>16. e # x3
      BY <1>2, <2>13, <2>15, VmIsThere
    <2>17. Evidence!CloneMatches(e, x3)
      BY <1>2, <1>6, <2>13, <2>15, VmIsThere
         DEF Evidence!CloneMatches, Evidence!CloneReadable, Evidence!Plain, Evidence!Settled, Evidence!Sized
    <2> QED BY <1>6, <2>16, <2>17 DEF Evidence!Matches, e
  <1>7. CASE x1 \in {"delete", "cleanup"}
    <2>1. e = [x3 EXCEPT !.src = Evidence!Absent, !.disk = FALSE]
      BY <1>1, <1>7, EffectOf
    <2> HIDE DEF e
    <2>2. e.src = Evidence!Absent /\ e.disk = FALSE /\ e.stray = TRUE
      BY <1>1, <1>2, <1>7, <2>1, WithoutSrc
    <2>3. e # x3 /\ Evidence!DeletionMatches(e, x3)
      BY <1>2, <2>2 DEF Evidence!DeletionMatches
    <2> QED BY <1>7, <2>3 DEF Evidence!Matches, e
  <1>8. CASE x1 = "migrate"
    <2> DEFINE v == [x3.src EXCEPT !.node = 2]
    <2>1. /\ v \in Evidence!Vm /\ v.node = 2 /\ v.power = "stopped" /\ v.settled = TRUE
          /\ v.form = "vm" /\ v.auto = FALSE /\ v.guarded = FALSE /\ v.size = 1 /\ v.actual = 1
      BY <1>1, <1>2, <1>8 DEF Evidence!Vm
    <2>2. e = [x3 EXCEPT !.src = v]
      BY <1>1, <1>8, EffectOf
    <2>3. v = [x3.src EXCEPT !.node = 2]
      OBVIOUS
    <2> HIDE DEF e, v
    <2>4. e.src = v /\ e.env = 1
      BY <1>1, <1>2, <1>8, <2>1, <2>2, WithSrc
    <2>5. e # x3
      BY <1>2, <2>1, <2>4
    <2>6. Evidence!MigrateReadable(v) /\ v # Evidence!Absent
      BY <2>1, VmIsThere DEF Evidence!MigrateReadable, Evidence!Plain, Evidence!Settled, Evidence!Sized
    <2>7. Evidence!MigrateMatches(e, x3)
      BY <1>2, <2>1, <2>4, <2>3, <2>6 DEF Evidence!MigrateMatches
    <2> QED BY <1>8, <2>5, <2>7 DEF Evidence!Matches, e
  <1>9. CASE x1 = "backup"
    <2>1. e = [x3 EXCEPT !.made = TRUE]
      BY <1>1, <1>9, EffectOf
    <2>2. e.src = x3.src /\ e.made = TRUE /\ e.kept = x3.kept
      BY <1>1, <2>1 DEF Cluster
    <2> HIDE DEF e
    <2>3. Evidence!SourceReadable(x3.src)
      BY <1>2, <1>9 DEF Evidence!SourceReadable, Evidence!Plain, Evidence!Settled
    <2>4. e # x3 /\ Evidence!BackupMatches(e, x3)
      BY <1>2, <2>2, <2>3 DEF Evidence!BackupMatches
    <2> QED BY <1>9, <2>4 DEF Evidence!Matches, e
  <1>10. CASE x1 = "restore"
    <2>1. PICK s : s = x3.src
      OBVIOUS
    <2>2. PICK c : c = Evidence!Copy(s, 3, 3, 2)
      OBVIOUS
    <2> DEFINE v == [c EXCEPT !.hw = x3.kept]
    <2>3. s \in Evidence!Vm
      BY <1>1, <2>1
    <2>4. s.size = 1
      BY <1>1, <1>2, <2>1
    <2>5. c \in Evidence!Vm /\ c.marker = "ours"
      BY <2>2, <2>3, RestoredOf
    <2>6. c.mac = 3
      BY <2>2, <2>3, RestoredOf
    <2>7. c.net = 3
      BY <2>2, <2>3, RestoredOf
    <2>8. c.name = 2
      BY <2>2, <2>3, RestoredOf
    <2>9. c.power = "stopped" /\ c.settled = TRUE /\ c.auto = FALSE /\ c.guarded = FALSE
      BY <2>2, <2>3, RestoredOf
    <2>10. c.form = "vm" /\ c.actual = s.size
      BY <2>2, <2>3, RestoredOf
    <2>11. /\ c \in Evidence!Vm /\ c.mac = 3 /\ c.net = 3 /\ c.name = 2 /\ c.marker = "ours"
          /\ c.power = "stopped" /\ c.settled = TRUE /\ c.auto = FALSE /\ c.guarded = FALSE
          /\ c.form = "vm" /\ c.actual = 1
      BY <2>5, <2>4, <2>9, <2>10, <2>6, <2>7, <2>8
    <2>12. e = [x3 EXCEPT !.dst = v]
      BY <1>1, <1>10, <2>2, <2>1, EffectOf
    <2> HIDE DEF e
    <2>13. /\ v \in Evidence!Vm /\ v.mac = 3 /\ v.net = 3 /\ v.name = 2 /\ v.marker = "ours"
          /\ v.power = "stopped" /\ v.settled = TRUE /\ v.auto = FALSE /\ v.guarded = FALSE
          /\ v.form = "vm" /\ v.actual = 1 /\ v.hw = x3.kept
      BY <1>2, <2>11 DEF Evidence!Vm
    <2> HIDE DEF v
    <2>14. e.dst = v /\ e.src = x3.src /\ e.kept = x3.kept
      BY <1>1, <2>12, <2>13, WithDst
    <2>15. e # x3
      BY <1>2, <2>14, <2>13, VmIsThere
    <2>16. Evidence!SourceReadable(x3.src) /\ Evidence!SourceReadable(v)
      BY <1>2, <1>10, <2>13, VmIsThere DEF Evidence!SourceReadable, Evidence!Plain, Evidence!Settled
    <2>17. Evidence!RestoreMatches(e, x3)
      BY <1>2, <2>13, <2>16, <2>14 DEF Evidence!RestoreMatches
    <2> QED BY <1>10, <2>15, <2>17 DEF Evidence!Matches, e
  <1>11. CASE x1 = "template"
    <2> DEFINE v == [x3.src EXCEPT !.form = "template"]
    <2>1. /\ v \in Evidence!Vm /\ v.form = "template" /\ v.power = "stopped" /\ v.settled = TRUE
          /\ v.guarded = FALSE /\ v.actual = x3.src.actual
      BY <1>1, <1>2 DEF Evidence!Vm
    <2>2. e = [x3 EXCEPT !.src = v]
      BY <1>1, <1>11, EffectOf
    <2>3. Evidence!Digest(v) = [Evidence!Digest(x3.src) EXCEPT !.form = "template"]
      BY <1>1, <1>2, <2>1, VmIsThere DEF Evidence!Digest, Evidence!Vm
    <2> HIDE DEF e, v
    <2>4. e.src = v
      BY <1>1, <1>11, <2>1, <2>2, WithSrc
    <2>5. e # x3
      BY <1>2, <1>11, <2>1, <2>4
    <2>6. Evidence!TemplateMatches(e, x3)
      BY <2>1, <2>4, <2>3, VmIsThere DEF Evidence!TemplateMatches, Evidence!TemplateReadable, Evidence!Settled
    <2> QED BY <1>11, <2>5, <2>6 DEF Evidence!Matches, e
  <1> QED BY <1>1, <1>3, <1>4, <1>5, <1>6, <1>7, <1>8, <1>9, <1>10, <1>11 DEF Evidence!Kinds

\* The effect depends on the reviewed cluster alone.
LEMMA SameEffect ==
  ASSUME UNCHANGED <<x1, x3>>
  PROVE  Evidence!Effect(x1, x3)' = Evidence!Effect(x1, x3)
  BY DEF Evidence!Effect, Evidence!Copy, Evidence!Absent

\* An outsider writes no marker of ours.
LEMMA EvidenceOutsider ==
  ASSUME Evidence!IInv, Evidence!Outsider
  PROVE  Evidence!IInv'
  <1>1. /\ x1 \in Evidence!Kinds /\ x2 \in Cluster /\ x3 \in Cluster /\ x4 \in Phases
        /\ x5 \in 0..MaxDrifts /\ x5 \in Nat /\ x6 \in {"nobody", "us", "outsider"} /\ Evidence!Marked
    BY EvidenceRows
  <1>2. /\ x5 < MaxDrifts /\ x5' = x5 + 1 /\ x4 \notin {"succeeded", "paused", "blocked"}
        /\ UNCHANGED <<x1, x3, x4>>
    BY DEF Evidence!Outsider
  <1>3. x5' \in 0..MaxDrifts /\ x5' # 0 /\ x4' \in Phases \ {"succeeded", "paused"}
    BY <1>1, <1>2, BoundsAssumption DEF Phases
  <1>4. Evidence!Undisturbed'
    BY <1>3 DEF Evidence!Undisturbed
  <1>5. SUFFICES x2' \in Cluster /\ x6' \in {"nobody", "us", "outsider"} /\ Evidence!Marked'
    BY <1>2, <1>3, <1>4, EvidenceNext
  <1>6. CASE /\ x2.src # Evidence!Absent
             /\ \E v \in Evidence!Touched(x2.src) : x2' = [x2 EXCEPT !.src = v]
             /\ UNCHANGED x6
    <2>1. PICK v \in Evidence!Touched(x2.src) : x2' = [x2 EXCEPT !.src = v]
      BY <1>6
    <2>2. x2.src \in Evidence!Vm
      BY <1>1, <1>6 DEF Cluster
    <2>3. v \in Evidence!Vm
      BY <2>2, TouchedOf
    <2>4. x2' \in Cluster /\ x2'.dst = x2.dst
      BY <1>1, <2>1, <2>3, WithSrc
    <2> QED BY <1>1, <1>6, <2>4 DEF Evidence!Marked, Evidence!Absent
  <1>7. CASE /\ x2.dst # Evidence!Absent
             /\ \E v \in Evidence!Touched(x2.dst) \cup {Evidence!Absent} : x2' = [x2 EXCEPT !.dst = v]
             /\ UNCHANGED x6
    <2>1. PICK v \in Evidence!Touched(x2.dst) \cup {Evidence!Absent} : x2' = [x2 EXCEPT !.dst = v]
      BY <1>7
    <2>2. x2.dst \in Evidence!Vm
      BY <1>1, <1>7 DEF Cluster
    <2>3. v \in Evidence!Vm \cup {Evidence!Absent} /\ (v = Evidence!Absent \/ v.marker = x2.dst.marker)
      BY <2>2, TouchedOf
    <2>4. x2' \in Cluster /\ x2'.dst = v
      BY <1>1, <2>1, <2>3, WithDst
    <2> QED BY <1>1, <1>7, <2>3, <2>4 DEF Evidence!Marked, Evidence!Absent
  <1>8. CASE /\ x2.dst = Evidence!Absent
             /\ x2' = [x2 EXCEPT !.dst = [Evidence!Copy(Evidence!Start(x1).src, 2, 1, 2) EXCEPT !.marker = "none"]]
             /\ x6' = "outsider"
    <2>1. PICK s : s = Evidence!Start(x1).src
      OBVIOUS
    <2>2. s \in Evidence!Vm /\ s.net = 1
      BY <1>1, <2>1, StartOf
    <2>3. PICK c : c = Evidence!Copy(s, 2, s.net, 2)
      OBVIOUS
    <2>4. c \in Evidence!Vm
      BY <2>2, <2>3, CloneOf
    <2>5. PICK v : v = [c EXCEPT !.marker = "none"]
      OBVIOUS
    <2>6. v \in Evidence!Vm /\ v.marker = "none"
      BY <2>4, <2>5 DEF Evidence!Vm
    <2>7. x2' = [x2 EXCEPT !.dst = v]
      BY <1>8, <2>1, <2>2, <2>3, <2>5
    <2>8. x2' \in Cluster /\ x2'.dst = v
      BY <1>1, <2>6, <2>7, WithDst
    <2> QED BY <1>8, <2>6, <2>8 DEF Evidence!Marked
  <1>9. CASE /\ \E w \in {[x2 EXCEPT !.stray = ~x2.stray], [x2 EXCEPT !.kept = 0], [x2 EXCEPT !.env = 2]} : x2' = w
             /\ UNCHANGED x6
    <2>1. PICK w \in {[x2 EXCEPT !.stray = ~x2.stray], [x2 EXCEPT !.kept = 0], [x2 EXCEPT !.env = 2]} : x2' = w
      BY <1>9
    <2>2. ASSUME w = [x2 EXCEPT !.stray = ~x2.stray]
          PROVE  w \in Cluster /\ w.dst = x2.dst
      <3>1. PICK s \in BOOLEAN : s = ~x2.stray
        BY <1>1 DEF Cluster
      <3> QED BY <1>1, <2>2, <3>1 DEF Cluster
    <2>3. ASSUME w = [x2 EXCEPT !.kept = 0]
          PROVE  w \in Cluster /\ w.dst = x2.dst
      BY <1>1, <2>3 DEF Cluster
    <2>4. ASSUME w = [x2 EXCEPT !.env = 2]
          PROVE  w \in Cluster /\ w.dst = x2.dst
      BY <1>1, <2>4 DEF Cluster
    <2>5. x2' \in Cluster /\ x2'.dst = x2.dst
      BY <2>1, <2>2, <2>3, <2>4
    <2> QED BY <1>1, <1>9, <2>5 DEF Evidence!Marked, Evidence!Absent
  <1> QED BY <1>6, <1>7, <1>8, <1>9 DEF Evidence!Outsider

\* The second review lets through, or ends, what is as it was.
LEMMA EvidenceRecheck ==
  ASSUME Evidence!IInv, Evidence!Recheck
  PROVE  Evidence!IInv'
  <1>1. /\ x2 \in Cluster /\ x5 \in 0..MaxDrifts /\ x6 \in {"nobody", "us", "outsider"}
        /\ Evidence!Marked /\ Evidence!Undisturbed
    BY EvidenceRows
  <1>2. x4 = "reviewed" /\ x4' \in {"admitted", "blocked"} /\ UNCHANGED <<x1, x2, x3, x5, x6>>
    BY DEF Evidence!Recheck
  <1>3. Evidence!Undisturbed' /\ Evidence!Marked'
    BY <1>1, <1>2 DEF Evidence!Undisturbed, Evidence!Marked, Evidence!Absent
  <1> QED BY <1>1, <1>2, <1>3, EvidenceNext DEF Phases

-----------------------------------------------------------------------------
(* The end of a change. *)

\* What the evidence of each kind says.
LEMMA MatchesOf ==
  ASSUME NEW k \in Evidence!Kinds, NEW w, NEW b, Evidence!Matches(k, w, b)
  PROVE  /\ k = "disk" => Evidence!DiskMatches(w, b)
         /\ k = "compute" => Evidence!ComputeMatches(w, b)
         /\ k = "network" => Evidence!NetworkMatches(w, b)
         /\ k = "clone" => Evidence!CloneMatches(w, b)
         /\ k \in {"delete", "cleanup"} => Evidence!DeletionMatches(w, b)
         /\ k = "migrate" => Evidence!MigrateMatches(w, b)
         /\ k = "backup" => Evidence!BackupMatches(w, b)
         /\ k = "restore" => Evidence!RestoreMatches(w, b)
         /\ k = "template" => Evidence!TemplateMatches(w, b)
  BY DEF Evidence!Matches

\* A converted VM keeps its settings.
LEMMA ConvertedOf ==
  ASSUME NEW v \in Evidence!Vm, NEW u \in Evidence!Vm,
         Evidence!Digest(v) = [Evidence!Digest(u) EXCEPT !.form = "template"]
  PROVE  v.hw = u.hw /\ v.net = u.net
  <1>1. PICK d : d = [v EXCEPT !.power = "stopped", !.actual = v.size]
    OBVIOUS
  <1>2. PICK e : e = [u EXCEPT !.power = "stopped", !.actual = u.size]
    OBVIOUS
  <1>3. d = [e EXCEPT !.form = "template"]
    BY <1>1, <1>2, VmIsThere DEF Evidence!Digest
  <1>4. d.hw = v.hw /\ d.net = v.net
    BY <1>1 DEF Evidence!Vm
  <1>5. /\ e.hw = u.hw /\ e.net = u.net
        /\ [e EXCEPT !.form = "template"].hw = e.hw /\ [e EXCEPT !.form = "template"].net = e.net
    BY <1>2 DEF Evidence!Vm
  <1> QED BY <1>3, <1>4, <1>5

\* A success over evidence is a success.
LEMMA MatchIsTrue ==
  ASSUME Evidence!IInv, Evidence!Matches(x1, x2, x3)
  PROVE  /\ x1 \in {"clone", "backup", "restore"} => Evidence!Digest(x2.src) = Evidence!Digest(x3.src)
         /\ x1 \in {"backup", "restore"} => x2.kept = x3.kept
         /\ x1 = "migrate" => x2.src.hw = x3.src.hw /\ x2.src.cores = x3.src.cores
         /\ x1 = "template" => x2.src.hw = x3.src.hw /\ x2.src.net = x3.src.net
         /\ x1 \in {"delete", "cleanup"} => (x3.stray => x2.stray)
         /\ x1 = "network" => x2.src.mac = x3.src.mac
         /\ x1 \in {"delete", "cleanup"} => ~x2.disk
         /\ x1 = "disk" => x2.src.actual = 2
         /\ x1 \in {"clone", "restore"} => x2.dst.actual = x3.src.size
         /\ x1 \in {"clone", "restore"} => x6 = "us"
  <1>1. x1 \in Evidence!Kinds /\ x2 \in Cluster /\ x3 \in Cluster /\ x3.src \in Evidence!Vm /\ Evidence!Marked
    BY EvidenceRows, StartOf
  <1>2. CASE x1 = "disk"
    <2>1. Evidence!DiskMatches(x2, x3)
      BY <1>1, <1>2, MatchesOf
    <2> QED BY <1>2, <2>1 DEF Evidence!DiskMatches, Evidence!DiskReadable, Evidence!Sized
  <1>3. CASE x1 = "compute"
    BY <1>3
  <1>4. CASE x1 = "network"
    <2>1. Evidence!NetworkMatches(x2, x3)
      BY <1>1, <1>4, MatchesOf
    <2> QED BY <1>4, <2>1 DEF Evidence!NetworkMatches
  <1>5. CASE x1 = "clone"
    <2>1. Evidence!CloneMatches(x2, x3)
      BY <1>1, <1>5, MatchesOf
    <2>2. /\ x2.src = x3.src /\ x2.dst # Evidence!Absent /\ x2.dst.marker = "ours"
          /\ x2.dst.actual = x3.src.size
      BY <2>1
         DEF Evidence!CloneMatches, Evidence!CloneReadable, Evidence!Plain, Evidence!Settled, Evidence!Sized
    <2> QED BY <1>1, <1>5, <2>2 DEF Evidence!Marked
  <1>6. CASE x1 \in {"delete", "cleanup"}
    <2>1. Evidence!DeletionMatches(x2, x3)
      BY <1>1, <1>6, MatchesOf
    <2> QED BY <1>6, <2>1 DEF Evidence!DeletionMatches
  <1>7. CASE x1 = "migrate"
    <2>1. Evidence!MigrateMatches(x2, x3)
      BY <1>1, <1>7, MatchesOf
    <2>2. x2.src = [x3.src EXCEPT !.node = 2]
      BY <2>1 DEF Evidence!MigrateMatches
    <2>3. x2.src.hw = x3.src.hw /\ x2.src.cores = x3.src.cores
      BY <1>1, <2>2 DEF Evidence!Vm
    <2> QED BY <1>7, <2>3
  <1>8. CASE x1 = "backup"
    <2>1. Evidence!BackupMatches(x2, x3)
      BY <1>1, <1>8, MatchesOf
    <2> QED BY <1>8, <2>1 DEF Evidence!BackupMatches
  <1>9. CASE x1 = "restore"
    <2>1. Evidence!RestoreMatches(x2, x3)
      BY <1>1, <1>9, MatchesOf
    <2>2. /\ Evidence!Digest(x2.src) = Evidence!Digest(x3.src) /\ x2.kept = x3.kept
          /\ x2.dst # Evidence!Absent /\ x2.dst.marker = "ours" /\ x2.dst.actual = x3.src.size
      BY <2>1 DEF Evidence!RestoreMatches, Evidence!SourceReadable, Evidence!Plain, Evidence!Settled
    <2> QED BY <1>1, <1>9, <2>2 DEF Evidence!Marked
  <1>10. CASE x1 = "template"
    <2>1. Evidence!TemplateMatches(x2, x3)
      BY <1>1, <1>10, MatchesOf
    <2>2. x2.src \in Evidence!Vm
      BY <1>1, <2>1 DEF Evidence!TemplateMatches, Evidence!TemplateReadable, Evidence!Settled, Cluster
    <2>3. x2.src.hw = x3.src.hw /\ x2.src.net = x3.src.net
      BY <1>1, <2>1, <2>2, ConvertedOf DEF Evidence!TemplateMatches
    <2> QED BY <1>10, <2>3
  <1> QED BY <1>1, <1>2, <1>3, <1>4, <1>5, <1>6, <1>7, <1>8, <1>9, <1>10 DEF Evidence!Kinds

\* The invariant of a change that ends.
LEMMA EvidenceEnds ==
  ASSUME Evidence!IInv, UNCHANGED <<x1, x2, x3, x5, x6>>, x4' \in {"succeeded", "paused"},
         x4' = "succeeded" => Evidence!Matches(x1, x2, x3),
         x4' = "paused" /\ x5 = 0 => x2 # Evidence!Effect(x1, x3)
  PROVE  Evidence!IInv'
  <1>1. /\ x1 \in Evidence!Kinds /\ x2 \in Cluster /\ x3 \in Cluster /\ x3 = Evidence!Start(x1)
        /\ x5 \in 0..MaxDrifts /\ x6 \in {"nobody", "us", "outsider"} /\ Evidence!Marked
    BY EvidenceRows
  <1>2. Evidence!TypeOK'
    BY <1>1 DEF Evidence!TypeOK, Evidence!Worlds, Cluster
  <1>3. Evidence!PromisesAreKept'
    BY MatchIsTrue DEF Evidence!PromisesAreKept, Evidence!Digest, Evidence!Absent
  <1>4. Evidence!NothingHalfDone' /\ Evidence!CreatedByUs'
    BY MatchIsTrue DEF Evidence!NothingHalfDone, Evidence!CreatedByUs
  <1>5. Evidence!CleanChangeSucceeds'
    <2>1. Evidence!Effect(x1, x3)' = Evidence!Effect(x1, x3)
      BY SameEffect
    <2> QED BY <2>1 DEF Evidence!CleanChangeSucceeds
  <1>6. Evidence!Undisturbed' /\ Evidence!Marked'
    BY <1>1 DEF Evidence!Undisturbed, Evidence!Marked, Evidence!Absent
  <1>7. x3' = Evidence!Start(x1)'
    BY <1>1 DEF Evidence!Start, Evidence!Absent
  <1> QED BY <1>2, <1>3, <1>4, <1>5, <1>6, <1>7 DEF Evidence!IInv, Evidence!EvidenceInv

\* The request is sent, or Proxmox refuses it for its digest: then somebody interfered.
LEMMA EvidenceSend ==
  ASSUME Evidence!IInv, Evidence!Send
  PROVE  Evidence!IInv'
  <1>1. /\ x2 \in Cluster /\ x5 \in 0..MaxDrifts /\ x6 \in {"nobody", "us", "outsider"}
        /\ Evidence!Marked /\ Evidence!Undisturbed
    BY EvidenceRows
  <1>2. /\ x4 = "admitted" /\ UNCHANGED <<x1, x2, x3, x5, x6>>
        /\ \/ x4' = "sent"
           \/ x4' = "paused" /\ Evidence!Digest(x2.src) # Evidence!Digest(x3.src)
    BY DEF Evidence!Send
  <1>3. CASE x4' = "sent"
    <2>1. Evidence!Undisturbed' /\ Evidence!Marked'
      BY <1>1, <1>2, <1>3 DEF Evidence!Undisturbed, Evidence!Marked, Evidence!Absent
    <2> QED BY <1>1, <1>2, <1>3, <2>1, EvidenceNext DEF Phases
  <1>4. CASE x4' = "paused" /\ Evidence!Digest(x2.src) # Evidence!Digest(x3.src)
    <2>1. x5 # 0
      BY <1>1, <1>2, <1>4 DEF Evidence!Undisturbed
    <2> QED BY <1>2, <1>4, <2>1, EvidenceEnds
  <1> QED BY <1>2, <1>3, <1>4

\* Proxmox does the change, or something short of it, and a VM made by it is ours.
LEMMA EvidenceExecute ==
  ASSUME Evidence!IInv, Evidence!Execute
  PROVE  Evidence!IInv'
  <1>1. /\ x1 \in Evidence!Kinds /\ x2 \in Cluster /\ x3 \in Cluster
        /\ x5 \in 0..MaxDrifts /\ x6 \in {"nobody", "us", "outsider"}
        /\ Evidence!Marked /\ Evidence!Undisturbed
    BY EvidenceRows
  <1>2. x4 = "sent" /\ UNCHANGED <<x1, x3, x5>> /\ Evidence!Effect(x1, x3)' = Evidence!Effect(x1, x3)
    BY SameEffect DEF Evidence!Execute
  <1>3. x5 = 0 => x2 = x3
    BY <1>1, <1>2 DEF Evidence!Undisturbed
  <1>4. ASSUME x2.src # Evidence!Absent, x1 = "restore" => x2.kept # 0,
               x2' \in {Evidence!Effect(x1, x2)} \cup Evidence!Residue(x1, x2),
               x6' = (IF x2'.dst # x2.dst THEN "us" ELSE x6),
               x4' \in {"task_ok"} \cup IF x2' = Evidence!Effect(x1, x2) THEN {} ELSE {"task_failed"}
        PROVE  Evidence!IInv'
    <2>1. x2.src \in Evidence!Vm
      BY <1>1, <1>4 DEF Cluster
    <2>2. x2' \in Cluster
      <3>1. Evidence!Effect(x1, x2) \in Cluster
        BY <1>1, <1>4, <2>1, EffectTyped
      <3>2. ASSUME NEW r \in Evidence!Residue(x1, x2)
            PROVE  r \in Cluster
        BY <1>1, <1>4, <2>1, ResidueTyped
      <3> QED BY <1>4, <3>1, <3>2
    <2>3. x6' \in {"nobody", "us", "outsider"}
      BY <1>1, <1>4
    <2>4. Evidence!Marked'
      BY <1>1, <1>4 DEF Evidence!Marked, Evidence!Absent
    <2>5. /\ x4' \in Phases \ {"succeeded", "paused"}
          /\ x4' \in {"task_ok", "task_failed"}
          /\ x4' = "task_failed" => x2' # Evidence!Effect(x1, x2)
      BY <1>4 DEF Phases
    <2>6. Evidence!Undisturbed'
      BY <1>2, <1>3, <2>5 DEF Evidence!Undisturbed
    <2> QED BY <1>1, <1>2, <2>2, <2>3, <2>4, <2>5, <2>6, EvidenceNext
  <1>5. ASSUME x4' = "task_failed", UNCHANGED <<x2, x6>>
        PROVE  Evidence!IInv'
    <2>1. Evidence!Undisturbed'
      BY <1>2, <1>3, <1>5, CleanChange DEF Evidence!Undisturbed
    <2>2. Evidence!Marked'
      BY <1>1, <1>5 DEF Evidence!Marked, Evidence!Absent
    <2> QED BY <1>1, <1>2, <1>5, <2>1, <2>2, EvidenceNext DEF Phases
  <1>6. \/ /\ x2.src # Evidence!Absent /\ (x1 = "restore" => x2.kept # 0)
           /\ x2' \in {Evidence!Effect(x1, x2)} \cup Evidence!Residue(x1, x2)
           /\ x6' = (IF x2'.dst # x2.dst THEN "us" ELSE x6)
           /\ x4' \in {"task_ok"} \cup IF x2' = Evidence!Effect(x1, x2) THEN {} ELSE {"task_failed"}
        \/ x4' = "task_failed" /\ UNCHANGED <<x2, x6>>
    BY DEF Evidence!Execute
  <1> QED BY <1>4, <1>5, <1>6

\* What is verified is the evidence; a clean change has it.
LEMMA EvidenceVerify ==
  ASSUME Evidence!IInv, Evidence!Verify
  PROVE  Evidence!IInv'
  <1>1. /\ x4 \in {"task_ok", "task_failed"} /\ UNCHANGED <<x1, x2, x3, x5, x6>>
        /\ \/ x4' = "succeeded" /\ Evidence!Matches(x1, x2, x3)
           \/ x4' = "paused" /\ (x4 = "task_ok" => ~Evidence!Matches(x1, x2, x3))
    BY DEF Evidence!Verify
  <1>2. ASSUME x4' = "paused", x5 = 0
        PROVE  x2 # Evidence!Effect(x1, x3)
    <2>1. CASE x4 = "task_failed"
      BY <1>2, <2>1, EvidenceRows DEF Evidence!Undisturbed
    <2>2. CASE x4 = "task_ok"
      <3>1. ~Evidence!Matches(x1, x2, x3)
        BY <1>1, <1>2, <2>2
      <3> QED BY <3>1, CleanChange
    <2> QED BY <1>1, <2>1, <2>2
  <1> QED BY <1>1, <1>2, EvidenceEnds

\* Each step of a change keeps the invariant.
LEMMA EvidenceStep ==
  ASSUME Evidence!IInv, Evidence!Next
  PROVE  Evidence!IInv'
  BY EvidenceOutsider, EvidenceRecheck, EvidenceSend, EvidenceExecute, EvidenceVerify DEF Evidence!Next

\* So does a step of nobody.
LEMMA EvidenceStutter ==
  ASSUME Evidence!IInv, UNCHANGED <<x1, x2, x3, x4, x5, x6>>
  PROVE  Evidence!IInv'
  <1>1. CASE x4 \notin {"succeeded", "paused"}
    <2>1. Evidence!Effect(x1, x3)' = Evidence!Effect(x1, x3)
      BY SameEffect
    <2>2. Evidence!Undisturbed' /\ Evidence!Marked'
      BY EvidenceRows, <2>1 DEF Evidence!Undisturbed, Evidence!Marked, Evidence!Absent
    <2> QED BY <1>1, <2>2, EvidenceRows, EvidenceNext
  <1>2. CASE x4 \in {"succeeded", "paused"}
    <2>1. Evidence!Effect(x1, x3)' = Evidence!Effect(x1, x3)
      BY SameEffect
    <2>2. /\ Evidence!PromisesAreKept /\ Evidence!NothingHalfDone /\ Evidence!CreatedByUs
          /\ Evidence!CleanChangeSucceeds /\ Evidence!TypeOK
      BY DEF Evidence!IInv, Evidence!EvidenceInv
    <2>3. Evidence!TypeOK'
      BY <2>2 DEF Evidence!TypeOK, Evidence!Worlds, Evidence!Vm, Evidence!Absent, Evidence!Kinds
    <2>4. Evidence!PromisesAreKept'
      BY <2>2 DEF Evidence!PromisesAreKept, Evidence!Digest, Evidence!Absent
    <2>5. Evidence!NothingHalfDone' /\ Evidence!CreatedByUs'
      BY <2>2 DEF Evidence!NothingHalfDone, Evidence!CreatedByUs
    <2>6. Evidence!CleanChangeSucceeds'
      BY <2>1, <2>2 DEF Evidence!CleanChangeSucceeds
    <2>7. Evidence!Undisturbed' /\ Evidence!Marked'
      BY EvidenceRows, <1>2 DEF Evidence!Undisturbed, Evidence!Marked, Evidence!Absent
    <2>8. x3' = Evidence!Start(x1)'
      BY EvidenceRows DEF Evidence!Start, Evidence!Absent
    <2> QED BY <2>3, <2>4, <2>5, <2>6, <2>7, <2>8 DEF Evidence!IInv, Evidence!EvidenceInv
  <1> QED BY <1>1, <1>2

\* A change is reviewed of the cluster as it is, with no VM of its id.
LEMMA EvidenceInit ==
  ASSUME Evidence!Init
  PROVE  Evidence!IInv
  <1>1. x1 \in Evidence!Kinds /\ x2 = Evidence!Start(x1) /\ x3 = x2 /\ x4 = "reviewed" /\ x5 = 0 /\ x6 = "nobody"
    BY DEF Evidence!Init
  <1>2. x2 \in Cluster /\ x2.dst = Evidence!Absent
    BY <1>1, StartOf
  <1>3. Evidence!TypeOK
    BY <1>1, <1>2, BoundsAssumption DEF Evidence!TypeOK, Evidence!Worlds, Cluster
  <1>4. /\ Evidence!PromisesAreKept /\ Evidence!NothingHalfDone /\ Evidence!CreatedByUs
        /\ Evidence!CleanChangeSucceeds
    BY <1>1 DEF Evidence!PromisesAreKept, Evidence!NothingHalfDone, Evidence!CreatedByUs,
                Evidence!CleanChangeSucceeds
  <1>5. Evidence!Undisturbed /\ Evidence!Marked
    BY <1>1, <1>2 DEF Evidence!Undisturbed, Evidence!Marked
  <1> QED BY <1>1, <1>3, <1>4, <1>5 DEF Evidence!IInv, Evidence!EvidenceInv

\* A recorded success of a managed change tells the truth about Proxmox, whatever an outsider
\* changes between any two steps, and a change nobody interfered with is recognised as one
\* (the success evidence of the Vm...Identity and verify functions, kind by kind).
THEOREM SuccessIsProven == Spec => []EvidenceInv
  <1> DEFINE Sound == part = "evidence" => Evidence!IInv
  <1>1. Init => Sound
    BY EvidenceInit DEF Init
  <1>2. ASSUME Sound, [Next]_vars
        PROVE  Sound'
    <2>1. CASE part # "evidence"
      BY <1>2, <2>1 DEF Next, vars
    <2>2. CASE part = "evidence" /\ Next
      <3>1. Evidence!Next
        BY <2>2 DEF Next
      <3> QED BY <1>2, <2>2, <3>1, EvidenceStep
    <2>3. CASE part = "evidence" /\ UNCHANGED vars
      <3>1. UNCHANGED <<x1, x2, x3, x4, x5, x6>>
        BY <2>3 DEF vars
      <3> QED BY <1>2, <2>3, <3>1, EvidenceStutter
    <2> QED BY <1>2, <2>1, <2>2, <2>3
  <1>3. Sound => EvidenceInv
    BY DEF EvidenceInv, Evidence!IInv
  <1> QED BY <1>1, <1>2, <1>3, PTL DEF Spec

-----------------------------------------------------------------------------
(* Authority. *)

\* acl_plan: a role is granted on a VM that a list of its feature names.
LEMMA GrantedOnVm ==
  ASSUME NEW i, NEW v, ~i.cluster, NEW f \in i.features \cup {"read"}, NEW l, Powers!In(i, v, l),
         NEW r, <<f, l, r>> \in Powers!VmGrants
  PROVE  Powers!RolePrivileges[r] \subseteq Powers!OnVm(i, v)
  <1> DEFINE gs == {g \in Powers!VmGrants : g[1] \in i.features \cup {"read"} /\ Powers!In(i, v, g[2])}
  <1>1. <<f, l, r>> \in gs BY Zenon
  <1>2. r \in {g[3] : g \in gs} BY <1>1
  <1>3. Powers!OnVm(i, v) = Powers!Privileges({g[3] : g \in gs}) BY Zenon DEF Powers!OnVm
  <1> HIDE DEF gs
  <1> QED BY <1>2, <1>3 DEF Powers!Privileges

\* And none is there for another reason.
LEMMA OnlyGrantedOnVm ==
  ASSUME NEW i, NEW v, ~i.cluster, NEW p \in Powers!OnVm(i, v)
  PROVE  \E g \in Powers!VmGrants :
           /\ g[1] \in i.features \cup {"read"} /\ Powers!In(i, v, g[2])
           /\ p \in Powers!RolePrivileges[g[3]]
  <1> DEFINE gs == {g \in Powers!VmGrants : g[1] \in i.features \cup {"read"} /\ Powers!In(i, v, g[2])}
  <1>1. Powers!OnVm(i, v) = Powers!Privileges({g[3] : g \in gs}) BY Zenon DEF Powers!OnVm
  <1>2. PICK g \in gs : p \in Powers!RolePrivileges[g[3]] BY <1>1 DEF Powers!Privileges
  <1> QED BY <1>2

\* The same on a storage.
LEMMA GrantedOnStore ==
  ASSUME NEW i, ~i.cluster, NEW f \in i.features \cup {"read"}, NEW l, Powers!List(i, l) # {},
         NEW r, <<f, l, r>> \in Powers!StoreGrants
  PROVE  Powers!RolePrivileges[r] \subseteq Powers!OnStore(i)
  <1> DEFINE gs == {g \in Powers!StoreGrants : g[1] \in i.features \cup {"read"} /\ Powers!List(i, g[2]) # {}}
  <1>1. <<f, l, r>> \in gs BY Zenon
  <1>2. r \in {g[3] : g \in gs} BY <1>1
  <1>3. Powers!OnStore(i) = Powers!Privileges({g[3] : g \in gs}) BY Zenon DEF Powers!OnStore
  <1> HIDE DEF gs
  <1> QED BY <1>2, <1>3 DEF Powers!Privileges

\* In a whole cluster a role is granted everywhere.
LEMMA GrantedInCluster ==
  ASSUME NEW i, i.cluster, NEW f \in i.features \cup {"read"}, NEW r \in Powers!ClusterRoles[f]
  PROVE  /\ \A v : Powers!RolePrivileges[r] \subseteq Powers!OnVm(i, v)
         /\ Powers!RolePrivileges[r] \subseteq Powers!OnStore(i)
         /\ Powers!RolePrivileges[r] \subseteq Powers!OnBridge(i)
         /\ Powers!RolePrivileges[r] \subseteq Powers!OnNode(i)
  <1>1. r \in Powers!ForCluster(i) BY DEF Powers!ForCluster
  <1>2. Powers!RolePrivileges[r] \subseteq Powers!Privileges(Powers!ForCluster(i))
    BY <1>1 DEF Powers!Privileges
  <1>3. /\ \A v : Powers!OnVm(i, v) = Powers!Privileges(Powers!ForCluster(i))
        /\ Powers!OnStore(i) = Powers!Privileges(Powers!ForCluster(i))
        /\ Powers!OnBridge(i) = Powers!Privileges(Powers!ForCluster(i))
        /\ Powers!OnNode(i) = Powers!Privileges(Powers!ForCluster(i))
    BY Zenon DEF Powers!OnVm, Powers!OnStore, Powers!OnBridge, Powers!OnNode
  <1> QED BY <1>2, <1>3

\* A bridge that is listed may be used by the features that connect VMs.
LEMMA GrantedOnBridge ==
  ASSUME NEW i, ~i.cluster, Powers!List(i, "bridges") # {},
         i.features \cap {"migrate", "network", "restore", "image_build", "clone", "create"} # {}
  PROVE  "SDN.Use" \in Powers!OnBridge(i)
  <1>1. Powers!OnBridge(i) = Powers!Privileges({"BridgeRead"} \cup {"BridgeUse"}) BY Zenon DEF Powers!OnBridge
  <1>2. Powers!RolePrivileges["BridgeUse"] = {"SDN.Use"} BY DEF Powers!RolePrivileges
  <1> QED BY <1>1, <1>2 DEF Powers!Privileges

\* Every connection may read the tasks of a node.
LEMMA NodeIsRead == \A i : "Sys.Audit" \in Powers!OnNode(i)
  <1> TAKE i
  <1>1. Powers!RolePrivileges["NodeRead"] = {"Sys.Audit"} BY DEF Powers!RolePrivileges
  <1>2. CASE i.cluster
    <2>1. "NodeRead" \in Powers!ClusterRoles["read"] BY DEF Powers!ClusterRoles
    <2> QED BY <1>1, <1>2, <2>1, GrantedInCluster
  <1>3. CASE ~i.cluster
    <2>1. PICK rs : Powers!OnNode(i) = Powers!Privileges({"NodeRead"} \cup rs)
      BY <1>3, Zenon DEF Powers!OnNode
    <2> QED BY <1>1, <2>1 DEF Powers!Privileges
  <1> QED BY <1>2, <1>3

\* The operations there are.
LEMMA KindsAre ==
  Powers!Kinds = {"power", "compute", "network", "disk", "clone", "delete", "template", "image_build",
           "image_cleanup", "backup", "restore", "migrate", "console"}
  BY DEF Powers!Kinds, Powers!Needs

\* Whatever is on a list of new VMs is there for the feature that makes them, and is on no list of VMs
\* that exist.
LEMMA ListedForFeature ==
  ASSUME NEW i, Powers!Valid(i), ~i.cluster, NEW v \in Vms
  PROVE  /\ Powers!In(i, v, "create_vmids") =>
              "create" \in i.features /\ ~Powers!In(i, v, "vmids") /\ ~Powers!In(i, v, "template_vmids")
         /\ Powers!In(i, v, "clone_vmids") =>
              "clone" \in i.features /\ ~Powers!In(i, v, "vmids") /\ ~Powers!In(i, v, "template_vmids")
                /\ ~Powers!In(i, v, "create_vmids")
         /\ Powers!In(i, v, "restore_vmids") =>
              "restore" \in i.features /\ ~Powers!In(i, v, "vmids") /\ ~Powers!In(i, v, "template_vmids")
         /\ Powers!In(i, v, "image_vmids") =>
              "image_build" \in i.features /\ ~Powers!In(i, v, "vmids") /\ ~Powers!In(i, v, "template_vmids")
  <1>1. Powers!Separate(i) BY DEF Powers!Valid
  <1>2. Powers!In(i, v, "create_vmids") =>
          "create" \in i.features /\ ~Powers!In(i, v, "vmids") /\ ~Powers!In(i, v, "template_vmids")
    <2> HAVE Powers!In(i, v, "create_vmids")
    <2>1. "create" \in i.features BY DEF Powers!Valid, Powers!Absent, Powers!Vm
    <2> QED BY <1>1, <2>1 DEF Powers!Separate, Powers!Disjoint, Powers!In, Powers!VmLists
  <1>3. Powers!In(i, v, "clone_vmids") =>
          "clone" \in i.features /\ ~Powers!In(i, v, "vmids") /\ ~Powers!In(i, v, "template_vmids")
            /\ ~Powers!In(i, v, "create_vmids")
    <2> HAVE Powers!In(i, v, "clone_vmids")
    <2>1. "clone" \in i.features BY DEF Powers!Valid, Powers!Absent, Powers!Vm
    <2> QED BY <1>1, <2>1 DEF Powers!Separate, Powers!Disjoint, Powers!In, Powers!VmLists
  <1>4. Powers!In(i, v, "restore_vmids") =>
          "restore" \in i.features /\ ~Powers!In(i, v, "vmids") /\ ~Powers!In(i, v, "template_vmids")
    <2> HAVE Powers!In(i, v, "restore_vmids")
    <2>1. "restore" \in i.features BY DEF Powers!Valid, Powers!Absent, Powers!Vm
    <2> QED BY <1>1, <2>1 DEF Powers!Separate, Powers!Disjoint, Powers!In, Powers!VmLists
  <1>5. Powers!In(i, v, "image_vmids") =>
          "image_build" \in i.features /\ ~Powers!In(i, v, "vmids") /\ ~Powers!In(i, v, "template_vmids")
    <2> HAVE Powers!In(i, v, "image_vmids")
    <2>1. "image_build" \in i.features BY DEF Powers!Valid, Powers!Absent, Powers!Vm
    <2> QED BY <1>1, <2>1 DEF Powers!Separate, Powers!Disjoint, Powers!In, Powers!VmLists
  <1> QED BY <1>2, <1>3, <1>4, <1>5

\* What is passed on a VM, is passed on one that exists only if that one is listed for it.
LEMMA PassSpares ==
  ASSUME NEW i, Powers!Valid(i), ~i.cluster, NEW k \in Powers!Kinds, NEW v \in Vms,
         NEW w \in Powers!Others(k), Powers!Passes(i, k, v, w)
  PROVE  /\ Powers!In(i, v, "template_vmids") => Powers!In(i, v, "vmids")
         /\ k = "image_build" => ~Powers!In(i, v, "vmids") /\ ~Powers!In(i, v, "template_vmids")
         /\ w # None => ~Powers!In(i, w, "vmids") /\ ~Powers!In(i, w, "template_vmids")
  <1>1. Powers!In(i, v, "vmids") \/ Powers!In(i, v, "create_vmids") \/ Powers!In(i, v, "restore_vmids")
          \/ Powers!In(i, v, "image_vmids")
    BY DEF Powers!Passes, Powers!CreateAllowed, Powers!RestorePower, Powers!NetworkAllowed,
       Powers!CloneAllowed, Powers!BuildAllowed, Powers!CleanupAllowed,
           Powers!MigrateAllowed, Powers!BackupAllowed, Powers!RestoreAllowed
  <1>2. k = "image_build" => Powers!In(i, v, "image_vmids") BY DEF Powers!Passes, Powers!BuildAllowed
  <1>3. w # None => k \in Powers!TwoVms /\ w \in Vms BY DEF Powers!Others
  <1>4. w # None => Powers!In(i, w, "clone_vmids") \/ Powers!In(i, w, "restore_vmids")
    BY <1>3 DEF Powers!TwoVms, Powers!Passes, Powers!CloneAllowed, Powers!RestoreAllowed
  <1> QED BY <1>1, <1>2, <1>3, <1>4, ListedForFeature

\* Roles that suffice for an operation; power is managed under three.
RolesFor ==
  [power |-> Powers!Asks({}, {}, {}, {}, {}),
   compute |-> Powers!Asks({"VmRead", "VmCompute"}, {}, {}, {}, {}),
   network |-> Powers!Asks({"VmRead", "VmNetwork"}, {}, {}, {"BridgeUse"}, {}),
   disk |-> Powers!Asks({"VmRead", "VmDisk"}, {}, {"StorageRead", "StorageAllocate"}, {}, {}),
   clone |->
     Powers!Asks({"VmRead", "VmClone"}, {"VmCloneTarget"}, {"StorageRead", "StorageAllocate"}, {"BridgeUse"},
       {}),
   delete |-> Powers!Asks({"VmRead", "VmDelete"}, {}, {"StorageRead", "VmDeleteStorage"}, {}, {}),
   template |-> Powers!Asks({"VmRead", "VmTemplate"}, {}, {"StorageRead"}, {}, {}),
   image_build |->
     Powers!Asks({"ImageBuild"}, {}, {"StorageRead", "ImageUpload", "StorageAllocate"}, {"BridgeUse"}, {}),
   image_cleanup |-> Powers!Asks({"VmRead", "ImageCleanup"}, {}, {"StorageRead", "ImageCleanupStorage"}, {},
     {}),
   backup |-> Powers!Asks({"VmRead", "VmBackup"}, {}, {"StorageRead", "StorageAllocate"}, {}, {"NodeRead"}),
   restore |->
     Powers!Asks({"VmRead", "VmBackup"}, {"VmRestore"}, {"StorageRead", "StorageAllocate"}, {"BridgeUse"},
          {"NodeRead"}),
   migrate |-> Powers!Asks({"VmRead", "VmMigrate"}, {}, {"StorageRead"}, {"BridgeUse"}, {"NodeRead"}),
   console |-> Powers!Asks({"VmConsole"}, {}, {}, {}, {})]

\* What a set of roles holds.
LEMMA PrivilegesOf ==
  ASSUME NEW rs, NEW P, \A r \in rs : Powers!RolePrivileges[r] \subseteq P
         PROVE Powers!Privileges(rs) \subseteq P
  BY DEF Powers!Privileges

\* They do suffice (the reviews of the ...Client classes against planning.py).
LEMMA RolesSuffice ==
  ASSUME NEW k \in Powers!Kinds
  PROVE  /\ k # "power" => Powers!Needs[k].vm \subseteq Powers!Privileges(RolesFor[k].vm)
         /\ Powers!Needs[k].new \subseteq Powers!Privileges(RolesFor[k].new)
         /\ Powers!Needs[k].store \subseteq Powers!Privileges(RolesFor[k].store)
         /\ Powers!Needs[k].bridge \subseteq Powers!Privileges(RolesFor[k].bridge)
         /\ Powers!Needs[k].node \subseteq Powers!Privileges(RolesFor[k].node)
  <1> USE DEF Powers!Needs, RolesFor, Powers!Asks, Powers!Privileges, Powers!RolePrivileges
  <1>1. CASE k = "power" BY <1>1
  <1>2. CASE k = "compute" BY <1>2
  <1>3. CASE k = "network" BY <1>3
  <1>4. CASE k = "disk" BY <1>4
  <1>5. CASE k = "clone" BY <1>5
  <1>6. CASE k = "delete" BY <1>6
  <1>7. CASE k = "template" BY <1>7
  <1>8. CASE k = "image_build" BY <1>8
  <1>9. CASE k = "image_cleanup" BY <1>9
  <1>10. CASE k = "backup" BY <1>10
  <1>11. CASE k = "restore" BY <1>11
  <1>12. CASE k = "migrate" BY <1>12
  <1>13. CASE k = "console" BY <1>13
  <1> QED BY KindsAre, <1>1, <1>2, <1>3, <1>4, <1>5, <1>6, <1>7, <1>8, <1>9, <1>10, <1>11, <1>12, <1>13

\* So an operation is reviewed whose roles are granted; a role that a creation grants on what it made
\* stands for those on a VM.
LEMMA RolesReviewed ==
  ASSUME NEW i, NEW k \in Powers!Kinds, NEW v, NEW w, k = "migrate" => Powers!TwoNodes(i),
         Powers!Needs[k].vm \subseteq Powers!OnVm(i, v)
           \/ (k # "power" /\ \A r \in RolesFor[k].vm : Powers!RolePrivileges[r] \subseteq Powers!OnVm(i, v)),
         w # None => \A r \in RolesFor[k].new : Powers!RolePrivileges[r] \subseteq Powers!OnVm(i, w),
         \A r \in RolesFor[k].store : Powers!RolePrivileges[r] \subseteq Powers!OnStore(i),
         \A r \in RolesFor[k].bridge : Powers!RolePrivileges[r] \subseteq Powers!OnBridge(i),
         \A r \in RolesFor[k].node : Powers!RolePrivileges[r] \subseteq Powers!OnNode(i)
  PROVE  Powers!Reviewed(i, k, v, w)
  <1>1. Powers!Needs[k].vm \subseteq Powers!OnVm(i, v) BY RolesSuffice, PrivilegesOf, Zenon
  <1>2. w # None => Powers!Needs[k].new \subseteq Powers!OnVm(i, w) BY RolesSuffice, PrivilegesOf, Zenon
  <1>3. Powers!Needs[k].store \subseteq Powers!OnStore(i) BY RolesSuffice, PrivilegesOf, Zenon
  <1>4. Powers!Needs[k].bridge \subseteq Powers!OnBridge(i) BY RolesSuffice, PrivilegesOf, Zenon
  <1>5. Powers!Needs[k].node \subseteq Powers!OnNode(i) BY RolesSuffice, PrivilegesOf, Zenon
  <1> QED BY <1>1, <1>2, <1>3, <1>4, <1>5 DEF Powers!Reviewed

\* What passes on a VM that is listed or that a creation or a restore made has its privileges on it.
LEMMA PassedVm ==
  ASSUME NEW i, Powers!Valid(i), ~i.cluster, NEW k \in Powers!Kinds, NEW v \in Vms,
         NEW w \in Powers!Others(k), Powers!Passes(i, k, v, w)
  PROVE  Powers!Needs[k].vm \subseteq Powers!OnVm(i, v)
         \/ (k # "power" /\ \A r \in RolesFor[k].vm : Powers!RolePrivileges[r] \subseteq Powers!OnVm(i, v))
  <1>1. CASE Powers!In(i, v, "create_vmids") /\ k \in {"power", "compute", "network", "disk", "delete"}
    <2>1. "create" \in i.features BY <1>1, ListedForFeature
    <2>2. <<"create", "create_vmids", "VmCreate">> \in Powers!VmGrants BY Zenon DEF Powers!VmGrants
    <2>3. Powers!RolePrivileges["VmCreate"] \subseteq Powers!OnVm(i, v) BY <1>1, <2>1, <2>2, GrantedOnVm
    <2>4. Powers!Needs[k].vm \subseteq Powers!RolePrivileges["VmCreate"]
      <3> USE DEF Powers!Needs, Powers!Asks, Powers!RolePrivileges
      <3>1. CASE k = "power" BY <3>1
      <3>2. CASE k = "compute" BY <3>2
      <3>3. CASE k = "network" BY <3>3
      <3>4. CASE k = "disk" BY <3>4
      <3>5. CASE k = "delete" BY <3>5
      <3> QED BY <1>1, <3>1, <3>2, <3>3, <3>4, <3>5
    <2> QED BY <2>3, <2>4
  <1>2. CASE k = "power" /\ Powers!RestorePower(i, v)
    <2>1. Powers!RolePrivileges["VmRestore"] \subseteq Powers!OnVm(i, v)
      BY <1>2, GrantedOnVm, <<"restore", "restore_vmids", "VmRestore">> \in Powers!VmGrants
         DEF Powers!VmGrants, Powers!RestorePower
    <2>2. Powers!Needs[k].vm \subseteq Powers!RolePrivileges["VmRestore"]
      BY <1>2 DEF Powers!Needs, Powers!Asks, Powers!RolePrivileges
    <2> QED BY <2>1, <2>2
  <1>3. CASE k = "power" /\ k \in i.features /\ Powers!In(i, v, "vmids")
    <2>1. Powers!RolePrivileges["VmPower"] \subseteq Powers!OnVm(i, v)
      BY <1>3, GrantedOnVm, <<"power", "vmids", "VmPower">> \in Powers!VmGrants DEF Powers!VmGrants
    <2>2. Powers!Needs[k].vm \subseteq Powers!RolePrivileges["VmPower"]
      BY <1>3 DEF Powers!Needs, Powers!Asks, Powers!RolePrivileges
    <2> QED BY <2>1, <2>2
  <1>4. CASE k = "image_build"
    <2>1. k \in i.features /\ Powers!In(i, v, "image_vmids") BY <1>4 DEF Powers!Passes, Powers!BuildAllowed
    <2>2. Powers!RolePrivileges["ImageBuild"] \subseteq Powers!OnVm(i, v)
      BY <1>4, <2>1, GrantedOnVm, <<"image_build", "image_vmids", "ImageBuild">> \in Powers!VmGrants
         DEF Powers!VmGrants
    <2>3. RolesFor[k].vm = {"ImageBuild"} BY <1>4 DEF RolesFor, Powers!Asks
    <2> QED BY <1>4, <2>2, <2>3
  <1>5. CASE k \notin {"power", "image_build"} /\ k \in i.features /\ Powers!In(i, v, "vmids")
    <2>1. \A r : <<k, "vmids", r>> \in Powers!VmGrants => Powers!RolePrivileges[r] \subseteq Powers!OnVm(i, v)
      BY <1>5, GrantedOnVm
    <2>2. Powers!RolePrivileges["VmRead"] \subseteq Powers!OnVm(i, v)
      BY <1>5, GrantedOnVm, <<"read", "vmids", "VmRead">> \in Powers!VmGrants DEF Powers!VmGrants
    <2>3. \A r \in RolesFor[k].vm : r = "VmRead" \/ <<k, "vmids", r>> \in Powers!VmGrants
      <3> USE DEF RolesFor, Powers!Asks, Powers!VmGrants
      <3>1. CASE k = "compute" BY <3>1
      <3>2. CASE k = "network" BY <3>2
      <3>3. CASE k = "disk" BY <3>3
      <3>4. CASE k = "clone" BY <3>4
      <3>5. CASE k = "delete" BY <3>5
      <3>6. CASE k = "template" BY <3>6
      <3>7. CASE k = "image_cleanup" BY <3>7
      <3>8. CASE k = "backup" BY <3>8
      <3>9. CASE k = "restore" BY <3>9
      <3>10. CASE k = "migrate" BY <3>10
      <3>11. CASE k = "console" BY <3>11
      <3> QED BY <1>5, KindsAre, <3>1, <3>2, <3>3, <3>4, <3>5, <3>6, <3>7, <3>8, <3>9, <3>10, <3>11
    <2> QED BY <1>5, <2>1, <2>2, <2>3
  <1> QED
    BY <1>1, <1>2, <1>3, <1>4, <1>5 DEF Powers!Passes, Powers!CreateAllowed, Powers!NetworkAllowed,
       Powers!CloneAllowed, Powers!CleanupAllowed,
       Powers!MigrateAllowed, Powers!BackupAllowed, Powers!RestoreAllowed

\* The same of the VM that is made.
LEMMA PassedNew ==
  ASSUME NEW i, ~i.cluster, NEW k \in Powers!Kinds, NEW v \in Vms, NEW w \in Powers!Others(k),
         Powers!Passes(i, k, v, w), w # None
  PROVE  \A r \in RolesFor[k].new : Powers!RolePrivileges[r] \subseteq Powers!OnVm(i, w)
  <1>1. CASE k = "clone"
    <2>1. "clone" \in i.features /\ Powers!In(i, w, "clone_vmids")
      BY <1>1 DEF Powers!Passes, Powers!CloneAllowed
    <2>2. Powers!RolePrivileges["VmCloneTarget"] \subseteq Powers!OnVm(i, w)
      BY <2>1, GrantedOnVm, <<"clone", "clone_vmids", "VmCloneTarget">> \in Powers!VmGrants
         DEF Powers!VmGrants
    <2> QED BY <1>1, <2>2 DEF RolesFor, Powers!Asks
  <1>2. CASE k = "restore"
    <2>1. "restore" \in i.features /\ Powers!In(i, w, "restore_vmids")
      BY <1>2 DEF Powers!Passes, Powers!RestoreAllowed
    <2>2. Powers!RolePrivileges["VmRestore"] \subseteq Powers!OnVm(i, w)
      BY <2>1, GrantedOnVm, <<"restore", "restore_vmids", "VmRestore">> \in Powers!VmGrants
         DEF Powers!VmGrants
    <2> QED BY <1>2, <2>2 DEF RolesFor, Powers!Asks
  <1>3. k \in {"clone", "restore"} BY DEF Powers!Others, Powers!TwoVms
  <1> QED BY <1>1, <1>2, <1>3

\* A selection lists the storages and bridges its operations work on.
LEMMA PassedStore ==
  ASSUME NEW i, Powers!Valid(i), ~i.cluster, NEW k \in Powers!Kinds, k = "power" \/ k \in i.features
  PROVE  \A r \in RolesFor[k].store : Powers!RolePrivileges[r] \subseteq Powers!OnStore(i)
  <1>1. \A f \in i.features \cup {"read"} : \A l, r : <<f, l, r>> \in Powers!StoreGrants
          /\ Powers!List(i, l) # {} =>
          Powers!RolePrivileges[r] \subseteq Powers!OnStore(i)
    BY GrantedOnStore
  <1>2. <<"read", "storages", "StorageRead">> \in Powers!StoreGrants BY DEF Powers!StoreGrants
  <1>3. Powers!List(i, "storages") # {} => Powers!RolePrivileges["StorageRead"] \subseteq Powers!OnStore(i)
    BY <1>1, <1>2
  <1>4. \A r \in RolesFor[k].store :
          \/ r = "StorageRead" /\ Powers!List(i, "storages") # {}
          \/ k \in i.features /\ \E l : <<k, l, r>> \in Powers!StoreGrants /\ Powers!List(i, l) # {}
    <2> USE DEF Powers!Valid, Powers!Present, RolesFor, Powers!Asks, Powers!StoreGrants
    <2>1. CASE k = "power" BY <2>1
    <2>2. CASE k = "compute" BY <2>2
    <2>3. CASE k = "network" BY <2>3
    <2>4. CASE k = "disk" BY <2>4
    <2>5. CASE k = "clone" BY <2>5
    <2>6. CASE k = "delete" BY <2>6
    <2>7. CASE k = "template" BY <2>7
    <2>8. CASE k = "image_build" BY <2>8
    <2>9. CASE k = "image_cleanup" BY <2>9
    <2>10. CASE k = "backup" BY <2>10
    <2>11. CASE k = "restore" BY <2>11
    <2>12. CASE k = "migrate" BY <2>12
    <2>13. CASE k = "console" BY <2>13
    <2> QED BY KindsAre, <2>1, <2>2, <2>3, <2>4, <2>5, <2>6, <2>7, <2>8, <2>9, <2>10, <2>11, <2>12, <2>13
  <1> QED BY <1>1, <1>3, <1>4

\* On a bridge.
LEMMA PassedBridge ==
  ASSUME NEW i, Powers!Valid(i), ~i.cluster, NEW k \in Powers!Kinds, k = "power" \/ k \in i.features
  PROVE  \A r \in RolesFor[k].bridge : Powers!RolePrivileges[r] \subseteq Powers!OnBridge(i)
  <1>1. CASE k \in {"migrate", "network", "restore", "image_build", "clone"}
    <2>1. Powers!List(i, "bridges") # {} BY <1>1 DEF Powers!Valid, Powers!Present
    <2>2. "SDN.Use" \in Powers!OnBridge(i) BY <1>1, <2>1, GrantedOnBridge
    <2>3. Powers!RolePrivileges["BridgeUse"] = {"SDN.Use"} BY DEF Powers!RolePrivileges
    <2>4. RolesFor[k].bridge = {"BridgeUse"}
      <3> USE DEF RolesFor, Powers!Asks
      <3>1. CASE k = "migrate" BY <3>1
      <3>2. CASE k = "network" BY <3>2
      <3>3. CASE k = "restore" BY <3>3
      <3>4. CASE k = "image_build" BY <3>4
      <3>5. CASE k = "clone" BY <3>5
      <3> QED BY <1>1, <3>1, <3>2, <3>3, <3>4, <3>5
    <2> QED BY <2>2, <2>3, <2>4
  <1>2. CASE k \notin {"migrate", "network", "restore", "image_build", "clone"}
    <2>1. RolesFor[k].bridge = {}
      <3> USE DEF RolesFor, Powers!Asks
      <3>1. CASE k = "power" BY <3>1
      <3>2. CASE k = "compute" BY <3>2
      <3>3. CASE k = "disk" BY <3>3
      <3>4. CASE k = "delete" BY <3>4
      <3>5. CASE k = "template" BY <3>5
      <3>6. CASE k = "image_cleanup" BY <3>6
      <3>7. CASE k = "backup" BY <3>7
      <3>8. CASE k = "console" BY <3>8
      <3> QED BY <1>2, KindsAre, <3>1, <3>2, <3>3, <3>4, <3>5, <3>6, <3>7, <3>8
    <2> QED BY <2>1
  <1> QED BY <1>1, <1>2

\* On a node.
LEMMA PassedNode ==
  ASSUME NEW i, NEW k \in Powers!Kinds
         PROVE \A r \in RolesFor[k].node : Powers!RolePrivileges[r] \subseteq Powers!OnNode(i)
  <1>1. Powers!RolePrivileges["NodeRead"] = {"Sys.Audit"} BY DEF Powers!RolePrivileges
  <1>2. RolesFor[k].node \subseteq {"NodeRead"}
    <2> USE DEF RolesFor, Powers!Asks
    <2>1. CASE k = "power" BY <2>1
    <2>2. CASE k = "compute" BY <2>2
    <2>3. CASE k = "network" BY <2>3
    <2>4. CASE k = "disk" BY <2>4
    <2>5. CASE k = "clone" BY <2>5
    <2>6. CASE k = "delete" BY <2>6
    <2>7. CASE k = "template" BY <2>7
    <2>8. CASE k = "image_build" BY <2>8
    <2>9. CASE k = "image_cleanup" BY <2>9
    <2>10. CASE k = "backup" BY <2>10
    <2>11. CASE k = "restore" BY <2>11
    <2>12. CASE k = "migrate" BY <2>12
    <2>13. CASE k = "console" BY <2>13
    <2> QED BY KindsAre, <2>1, <2>2, <2>3, <2>4, <2>5, <2>6, <2>7, <2>8, <2>9, <2>10, <2>11, <2>12, <2>13
  <1> QED BY <1>1, <1>2, NodeIsRead

\* A whole cluster: what passes has every role that its feature stands for.
LEMMA ClusterReviewed ==
  ASSUME NEW i, i.cluster, NEW k \in Powers!Kinds, NEW v, NEW w, Powers!Passes(i, k, v, w)
  PROVE  Powers!Reviewed(i, k, v, w)
  <1> DEFINE P == Powers!Privileges(Powers!ForCluster(i))
  <1>1. /\ \A u : Powers!OnVm(i, u) = P /\ Powers!OnStore(i) = P
        /\ Powers!OnBridge(i) = P /\ Powers!OnNode(i) = P
    BY Zenon DEF Powers!OnVm, Powers!OnStore, Powers!OnBridge, Powers!OnNode
  <1>2. \A f \in i.features \cup {"read"} : \A r \in Powers!ClusterRoles[f] :
          Powers!RolePrivileges[r] \subseteq P
    BY <1>1, GrantedInCluster
  <1>3. k = "migrate" => Powers!TwoNodes(i) BY DEF Powers!Passes, Powers!MigrateAllowed
  <1> HIDE DEF P
  <1>4. CASE k = "power"
    <2>1. \E f \in i.features : f \in {"power", "create", "restore"}
      BY <1>4 DEF Powers!Passes, Powers!CreateAllowed, Powers!RestorePower
    <2>2. "VM.PowerMgmt" \in P
      <3>1. CASE "power" \in i.features
        BY <1>2, <3>1, "VmPower" \in Powers!ClusterRoles["power"] DEF Powers!ClusterRoles,
           Powers!RolePrivileges
      <3>2. CASE "create" \in i.features
        BY <1>2, <3>2, "VmCreate" \in Powers!ClusterRoles["create"] DEF Powers!ClusterRoles,
           Powers!RolePrivileges
      <3>3. CASE "restore" \in i.features
        BY <1>2, <3>3, "VmRestore" \in Powers!ClusterRoles["restore"] DEF Powers!ClusterRoles,
           Powers!RolePrivileges
      <3> QED BY <2>1, <3>1, <3>2, <3>3
    <2>3. Powers!Needs[k] = Powers!Asks({"VM.PowerMgmt"}, {}, {}, {}, {}) BY <1>4 DEF Powers!Needs
    <2> QED BY <1>1, <1>4, <2>2, <2>3 DEF Powers!Reviewed, Powers!Asks
  <1>5. CASE k # "power"
    <2>1. k \in i.features BY <1>5 DEF Powers!Passes
    <2>2. \A r \in Powers!ClusterRoles[k] \cup Powers!ClusterRoles["read"] :
            Powers!RolePrivileges[r] \subseteq P
      BY <1>2, <2>1
    <2>3. RolesFor[k].vm \cup RolesFor[k].new \cup RolesFor[k].store
            \cup RolesFor[k].bridge \cup RolesFor[k].node
          \subseteq Powers!ClusterRoles[k] \cup Powers!ClusterRoles["read"]
    <3> USE DEF RolesFor, Powers!Asks, Powers!ClusterRoles
    <3>1. CASE k = "compute" BY <3>1
      <3>2. CASE k = "network" BY <3>2
      <3>3. CASE k = "disk" BY <3>3
      <3>4. CASE k = "clone" BY <3>4
      <3>5. CASE k = "delete" BY <3>5
      <3>6. CASE k = "template" BY <3>6
      <3>7. CASE k = "image_build" BY <3>7
      <3>8. CASE k = "image_cleanup" BY <3>8
      <3>9. CASE k = "backup" BY <3>9
      <3>10. CASE k = "restore" BY <3>10
      <3>11. CASE k = "migrate" BY <3>11
      <3>12. CASE k = "console" BY <3>12
      <3> QED BY <1>5, KindsAre, <3>1, <3>2, <3>3, <3>4, <3>5, <3>6, <3>7, <3>8, <3>9, <3>10, <3>11, <3>12
    <2> QED BY <1>1, <1>3, <1>5, <2>2, <2>3, RolesReviewed
  <1> QED BY <1>4, <1>5

\* What the transport lets through Proxmox lets through.
LEMMA PassedIsReviewed ==
  ASSUME NEW i, Powers!Valid(i), NEW k \in Powers!Kinds, NEW v \in Vms, NEW w \in Powers!Others(k),
         Powers!Passes(i, k, v, w)
  PROVE  Powers!Reviewed(i, k, v, w)
  <1>1. CASE ~i.cluster
    <2>1. k = "power" \/ k \in i.features BY DEF Powers!Passes
    <2>2. k = "migrate" => Powers!TwoNodes(i) BY DEF Powers!Passes, Powers!MigrateAllowed
    <2> QED BY <1>1, <2>1, <2>2, PassedVm, PassedNew, PassedStore, PassedBridge, PassedNode, RolesReviewed
  <1> QED BY <1>1, ClusterReviewed

\* Who may clone a VM may do so because the VM itself is listed, or is a template.
LEMMA CloneIsListed ==
  ASSUME NEW i, Powers!Valid(i), ~i.cluster, NEW v \in Vms, "VM.Clone" \in Powers!OnVm(i, v)
  PROVE  Powers!In(i, v, "vmids") \/ Powers!In(i, v, "template_vmids")
  <1>1. \A g \in Powers!VmGrants : "VM.Clone" \in Powers!RolePrivileges[g[3]]
          => g[2] \in {"vmids", "template_vmids"}
    BY DEF Powers!VmGrants, Powers!RolePrivileges
  <1> QED BY <1>1, OnlyGrantedOnVm

\* And who may back it up, because it is listed.
LEMMA BackupIsListed ==
  ASSUME NEW i, Powers!Valid(i), ~i.cluster, NEW v \in Vms, "VM.Backup" \in Powers!OnVm(i, v)
  PROVE  Powers!In(i, v, "vmids")
  <1>1. \A g \in Powers!VmGrants : "VM.Backup" \in Powers!RolePrivileges[g[3]] => g[2] \in {"vmids"}
    BY DEF Powers!VmGrants, Powers!RolePrivileges
  <1> QED BY <1>1, OnlyGrantedOnVm

\* An operation that was reviewed and admitted passes, unless the second VM is one that exists.
LEMMA AdmittedPasses ==
  ASSUME NEW i, Powers!Valid(i), NEW k \in Powers!Kinds, NEW v \in Vms, NEW w \in Powers!Others(k),
         Powers!Reviewed(i, k, v, w),
         Powers!Admitted(i, k, v), w # None => Powers!Admitted(i, k, w)
  PROVE  Powers!Passes(i, k, v, w) \/ (w # None /\ ~i.cluster /\ Powers!In(i, w, "vmids"))
  <1>1. CASE i.cluster
    <2>1. \A u, l : Powers!In(i, u, l) BY <1>1 DEF Powers!In
    <2>2. \A l : l # "nodes" => Powers!List(i, l) # {} BY <1>1 DEF Powers!List, Powers!Full
    <2>3. k \in i.features BY <1>1 DEF Powers!Admitted, Powers!Made
    <2>4. k = "migrate" => Powers!TwoNodes(i) BY DEF Powers!Reviewed
    <2> QED
      BY <2>1, <2>2, <2>3, <2>4, KindsAre DEF Powers!Passes, Powers!NetworkAllowed, Powers!CloneAllowed,
         Powers!BuildAllowed, Powers!CleanupAllowed,
         Powers!MigrateAllowed, Powers!BackupAllowed, Powers!RestoreAllowed, Powers!Some
  <1>2. CASE ~i.cluster /\ k = "power"
    BY <1>2, ListedForFeature DEF Powers!Admitted, Powers!Made, Powers!Passes, Powers!CreateAllowed,
       Powers!RestorePower
  <1>3. CASE ~i.cluster /\ k = "clone"
    <2>1. "VM.Clone" \in Powers!OnVm(i, v) BY <1>3 DEF Powers!Reviewed, Powers!Needs, Powers!Asks
    <2>2. k \in i.features /\ Powers!In(i, v, "vmids")
      BY <1>3, <2>1, CloneIsListed, ListedForFeature DEF Powers!Admitted, Powers!Made
    <2>3. Powers!List(i, "storages") # {} BY <1>3, <2>2 DEF Powers!Valid, Powers!Present
    <2>4. w # None BY <1>3, NoneAssumption DEF Powers!Others, Powers!TwoVms
    <2>5. Powers!In(i, w, "vmids") \/ Powers!In(i, w, "clone_vmids") BY <1>3, <2>4 DEF Powers!Admitted
    <2> QED BY <1>3, <2>2, <2>3, <2>4, <2>5 DEF Powers!Passes, Powers!CloneAllowed, Powers!Some
  <1>4. CASE ~i.cluster /\ k = "restore"
    <2>1. "VM.Backup" \in Powers!OnVm(i, v) BY <1>4 DEF Powers!Reviewed, Powers!Needs, Powers!Asks
    <2>2. k \in i.features /\ Powers!In(i, v, "vmids")
      BY <1>4, <2>1, BackupIsListed DEF Powers!Admitted, Powers!Made
    <2>3. /\ Powers!List(i, "restore_storages") # {} /\ Powers!List(i, "backup_storages") # {}
            /\ Powers!List(i, "bridges") # {}
      BY <1>4, <2>2 DEF Powers!Valid, Powers!Present
    <2>4. w # None BY <1>4, NoneAssumption DEF Powers!Others, Powers!TwoVms
    <2>5. Powers!In(i, w, "vmids") \/ Powers!In(i, w, "restore_vmids") BY <1>4, <2>4 DEF Powers!Admitted
    <2> QED BY <1>4, <2>2, <2>3, <2>4, <2>5 DEF Powers!Passes, Powers!RestoreAllowed, Powers!Some
  <1>5. CASE ~i.cluster /\ k \notin {"power", "clone", "restore"}
    <2>1. k \in i.features BY <1>5 DEF Powers!Admitted
    <2>2. \/ Powers!In(i, v, IF k = "image_build" THEN "image_vmids" ELSE "vmids")
          \/ k \in {"compute", "disk", "network", "delete"} /\ Powers!In(i, v, "create_vmids")
      BY <1>5 DEF Powers!Admitted
    <2>3. /\ k \in {"network", "image_build"} => Powers!List(i, "bridges") # {}
          /\ k = "image_build" => Powers!List(i, "storages") # {}
          /\ k = "image_cleanup" => Powers!List(i, "image_cleanup_storages") # {}
          /\ k = "backup" => Powers!List(i, "backup_storages") # {}
      BY <1>5, <2>1 DEF Powers!Valid, Powers!Present
    <2>4. k = "migrate" => Powers!TwoNodes(i) BY DEF Powers!Reviewed
    <2> QED
      BY <1>5, <2>1, <2>2, <2>3, <2>4, KindsAre DEF Powers!Passes, Powers!NetworkAllowed, Powers!BuildAllowed,
         Powers!CleanupAllowed,
         Powers!MigrateAllowed, Powers!BackupAllowed, Powers!Some
  <1> QED BY <1>1, <1>2, <1>3, <1>4, <1>5

\* The invariant starts true.
LEMMA PowersInit == Powers!Init => Powers!IInv
  BY DEF Powers!Init, Powers!IInv

\* Every step keeps it, and so does none.
LEMMA PowersStep == ASSUME Powers!IInv, Powers!Next PROVE Powers!IInv'
  <1>1. CASE Powers!Register
    BY <1>1 DEF Powers!Register, Powers!IInv
  <1>2. CASE Powers!Send
    BY <1>2 DEF Powers!Send, Powers!IInv, Powers!WorkSound
  <1>3. ASSUME NEW k \in Powers!Kinds, NEW v \in Vms, NEW w \in Powers!Others(k), Powers!Admit(k, v, w)
          PROVE Powers!IInv'
    BY <1>3 DEF Powers!Admit, Powers!IInv, Powers!WorkSound
  <1> QED BY <1>1, <1>2, <1>3 DEF Powers!Next

\* A step of another part, or none.
LEMMA PowersStutter == ASSUME Powers!IInv, UNCHANGED <<x1, x2, x3>> PROVE Powers!IInv'
  BY DEF Powers!IInv, Powers!WorkSound

\* The invariant is what the tables say of every selection that is valid.
LEMMA PowersHold == ASSUME Powers!IInv PROVE Powers!AuthorityInv
  <1>1. Powers!AdmittedIsSent
    BY AdmittedPasses DEF Powers!IInv, Powers!WorkSound, Powers!AdmittedIsSent, Powers!Exists
  <1>2. Powers!PassesIsGranted BY PassedIsReviewed DEF Powers!IInv, Powers!PassesIsGranted
  <1>3. Powers!ExistingIsSpared
    <2>1. ASSUME x1 # None, NEW k \in Powers!Kinds, NEW v \in Vms, NEW w \in Powers!Others(k),
            Powers!Passes(x1, k, v, w)
          PROVE /\ Powers!Exists(v) => Powers!In(x1, v, "vmids")
                /\ k = "image_build" => ~Powers!Exists(v)
                /\ w # None => ~Powers!Exists(w)
      BY <2>1, PassSpares DEF Powers!IInv, Powers!Exists
    <2> QED BY <2>1 DEF Powers!ExistingIsSpared
  <1> QED BY <1>1, <1>2, <1>3 DEF Powers!AuthorityInv

\* The four tables agree for every selection that a form may submit and creation_scope accepts, of any
\* features, VMs and nodes: an operation that holds its locks is sent, what is sent is granted, and no VM
\* that exists is changed or replaced unless it was meant (planning.py, runtime.py, contracts.py).
THEOREM TablesAgree == Spec => []AuthorityInv
  <1> DEFINE Sound == part = "authority" => Powers!IInv
  <1>1. Init => Sound
    BY PowersInit DEF Init
  <1>2. ASSUME Sound, [Next]_vars
        PROVE  Sound'
    <2>1. CASE part # "authority"
      BY <1>2, <2>1 DEF Next, vars
    <2>2. CASE part = "authority" /\ Next
      <3>1. Powers!Next
        BY <2>2 DEF Next
      <3> QED BY <1>2, <2>2, <3>1, PowersStep DEF Next
    <2>3. CASE part = "authority" /\ UNCHANGED vars
      <3>1. UNCHANGED <<x1, x2, x3>>
        BY <2>3 DEF vars
      <3> QED BY <1>2, <2>3, <3>1, PowersStutter DEF vars
    <2> QED BY <1>2, <2>1, <2>2, <2>3
  <1>3. Sound => AuthorityInv
    BY PowersHold DEF AuthorityInv
  <1> QED BY <1>1, <1>2, <1>3, PTL DEF Spec

-----------------------------------------------------------------------------
(* One change of a bridge. *)

HandlerPcs == {"idle", "load", "close", "pause", "retry"} \cup Network!BoundPcs
HoldsLease(a) == x4.status = "leased" /\ x4.gen = x5[a].gen
Ops == [status : {"none", "planned", "dispatching", "running", "verifying", "succeeded", "blocked",
                  "needs_reconciliation"},
        acked : BOOLEAN, reloading : BOOLEAN, bound : BOOLEAN, staged : {None, "own", "foreign"},
          locked : BOOLEAN]

\* What thread a has to know to stand at pc when the operation is o.
MayStand(a, pc, o) ==
  /\ x5[a].pc # "review" /\ pc \notin {"review", "load"}
  /\ (a = "handler" /\ x5[a].pc = "idle") => pc = "idle"
  /\ a = "handler" => pc \in HandlerPcs
  /\ a = "request" => pc \in Network!RequestPcs \cup Network!BoundPcs \cup {"idle", "pause"}
  /\ pc \in Network!UnloadedPcs => x5[a].pc \in Network!UnloadedPcs /\ (pc = "reload" => x5[a].pc = "reload")
  /\ pc \in {"recheck", "stage"} => ~o.acked
  /\ pc \in Network!BoundPcs => o.bound
  /\ pc \in {"look", "verifying", "succeed"} => x1.task = "ok"
  /\ pc \in Network!SeenPcs => Network!Matches(x6.final)
  /\ pc \in Network!BoundPcs \cup {"pause", "retry"} => o.status \notin Network!Unsent
  /\ (a = "request" /\ o.status \in Network!Unsent) => pc \in {"recheck", "idle"}
  /\ (a = "request" /\ x1.sending # None) => pc \in {"pause", "idle"}

\* Thread a comes to pc with the generation it had.
Threads == [pc : {"idle", "load", "close"} \cup Network!RequestPcs \cup Network!VerifyPcs, gen : 0..MaxClaims,
            staged : {None, "own", "foreign"}]
Arrived(a, pc) ==
  /\ x5' \in [Network!Actors -> Threads] /\ x5'[a].pc = pc /\ x5'[a].gen = x5[a].gen
  /\ \A b \in Network!Actors : b # a => x5'[b] = x5[b]

\* Nothing else happens.
Moves(a, pc) == Arrived(a, pc) /\ UNCHANGED <<x1, x2, x3, x4, x6>>

\* Where it goes.
LEMMA GotoRows ==
  ASSUME Network!TypeOK, NEW a \in Network!Actors, NEW pc,
         pc \in {"idle", "load", "close"} \cup Network!RequestPcs \cup Network!VerifyPcs,
         Network!Goto(a, pc)
  PROVE  Arrived(a, pc)
  BY DEF Network!TypeOK, Network!Goto, Arrived, Threads

\* A thread that goes where it may stand.
LEMMA BridgeMoveKept ==
  ASSUME Network!IInv, NEW a \in Network!Actors, NEW pc, Moves(a, pc), MayStand(a, pc, x3),
         pc \in {"recheck", "close"} /\ HoldsLease(a) => x3.status = "planned"
  PROVE  Network!IInv'
  <1>1. /\ x5'[a].pc = pc /\ x5'[a].gen = x5[a].gen
        /\ \A b \in Network!Actors : b # a => x5'[b] = x5[b]
    BY DEF Moves, Arrived
  <1>2. UNCHANGED <<x1, x2, x3, x4, x6>> BY DEF Moves
  <1>3. Network!TypeOK'
    <2>1. x5' \in [Network!Actors -> Threads] BY DEF Moves, Arrived
    <2> QED BY <1>2, <2>1 DEF Network!IInv, Network!TypeOK, Threads
  <1>4. Network!OnlyOursIsApplied' BY <1>2 DEF Network!IInv, Network!OnlyOursIsApplied
  <1>5. Network!LeaseSound' BY <1>1, <1>2 DEF Network!IInv, Network!LeaseSound, MayStand, Network!Actors
  <1>6. Network!EndSound'
    BY <1>1, <1>2 DEF Network!IInv, Network!EndSound, MayStand, Network!Actors, Network!Matches
  <1>7. Network!UnsentSound'
    BY <1>1, <1>2 DEF Network!IInv, Network!UnsentSound, MayStand, Network!Actors, Network!NotWanted
  <1>8. Network!SendingSound' BY <1>1, <1>2 DEF Network!IInv, Network!SendingSound, MayStand, Network!Actors
  <1>9. Network!ReloadSound'
    BY <1>1, <1>2 DEF Network!IInv, Network!ReloadSound, MayStand, Network!Actors, Network!UnloadedPcs,
       Network!StagedAsReviewed, Network!Matches, Network!Changes, Network!Rows, Network!DiffAllowed
  <1>10. /\ x5'["handler"].pc \in HandlerPcs /\ x5'["request"].pc \notin {"load", "close", "retry"}
    BY <1>1 DEF Network!IInv, MayStand, Network!Actors, HandlerPcs, Network!RequestPcs, Network!BoundPcs
  <1>11. \A b \in Network!Actors : Network!ActorSound(b)'
    BY <1>1, <1>2 DEF Network!IInv, Network!ActorSound, MayStand, Network!Matches
  <1>12. \A b \in Network!Actors : Network!GivingUp(b)' => (x3.status = "planned")'
    BY <1>1, <1>2 DEF Network!IInv, Network!GivingUp, HoldsLease
  <1> QED BY <1>3, <1>4, <1>5, <1>6, <1>7, <1>8, <1>9, <1>10, <1>11, <1>12 DEF Network!IInv, HandlerPcs

\* A commit of thread a: the operation becomes o, the recovery row status.
Commits(a, o, status, pc) ==
  /\ x5[a].pc # "idle" /\ HoldsLease(a) /\ Arrived(a, pc) /\ x3' = o /\ x4' = [x4 EXCEPT !.status = status]
  /\ UNCHANGED <<x1, x2, x6>>

MayCommit(o, status) ==
  /\ o \in Ops /\ o.status # "none" /\ status \in {"leased", "retry_wait", "paused", "completed"}
  /\ o.locked <=> status # "completed"
  /\ status = "completed" <=> o.status \in {"blocked", "succeeded"}
  /\ o.status = "succeeded" => x1.task = "ok" /\ Network!Matches(x6.final)
  /\ o.status \in Network!Unsent => x3.status \in Network!Unsent /\ ~o.bound
  /\ x1.sending = "stage" => ~o.acked
  /\ o.acked => x3.acked \/ x5["request"].pc = "ack"
  /\ x3.bound => o.bound
  /\ o.bound => x1.sending = None

\* A commit of what may be, by a thread that goes where it may stand and gives nothing up from there.
LEMMA CommitKept ==
  ASSUME Network!IInv, NEW a \in Network!Actors, NEW o, NEW status, NEW pc, Commits(a, o, status, pc),
         MayCommit(o, status),
         MayStand(a, pc, o), pc \notin {"recheck", "close"}, o.bound
           => x5'["request"].pc \notin Network!UnloadedPcs
  PROVE  Network!IInv'
  <1>1. /\ x5'[a].pc = pc /\ x5'[a].gen = x5[a].gen
        /\ \A b \in Network!Actors : b # a => x5'[b] = x5[b]
    BY DEF Commits, Arrived
  <1>2. /\ UNCHANGED <<x1, x2, x6>> /\ x3' = o /\ x4'.status = status /\ x4'.gen = x4.gen
    BY DEF Commits, Network!IInv, Network!TypeOK
  <1>3. Network!TypeOK'
    <2>1. x5' \in [Network!Actors -> Threads] BY DEF Commits, Arrived
    <2>2. x4' \in [status : {"none", "leased", "retry_wait", "paused", "completed"}, gen : 0..MaxClaims]
      BY DEF Commits, MayCommit, Network!IInv, Network!TypeOK
    <2> QED BY <1>2, <2>1, <2>2 DEF Network!IInv, Network!TypeOK, MayCommit, Ops, Threads
  <1>4. Network!OnlyOursIsApplied' BY <1>2 DEF Network!IInv, Network!OnlyOursIsApplied
  <1>5. Network!LeaseSound'
    BY <1>1, <1>2 DEF Network!IInv, Network!LeaseSound, MayStand, MayCommit, Commits, HoldsLease,
       Network!Actors
  <1>6. Network!EndSound'
    BY <1>1, <1>2 DEF Network!IInv, Network!EndSound, Network!LeaseSound, MayStand, MayCommit, Commits,
       HoldsLease, Network!Actors, Network!Matches
  <1>7. Network!UnsentSound'
    BY <1>1, <1>2 DEF Network!IInv, Network!UnsentSound, MayStand, MayCommit, Network!Actors,
       Network!NotWanted
  <1>8. Network!SendingSound'
    BY <1>1, <1>2 DEF Network!IInv, Network!SendingSound, MayStand, MayCommit, Network!Actors
  <1>9. Network!ReloadSound'
    BY <1>1, <1>2 DEF Network!IInv, Network!ReloadSound, MayStand, Network!Actors, Network!UnloadedPcs,
       Network!StagedAsReviewed, Network!Matches, Network!Changes, Network!Rows, Network!DiffAllowed
  <1>10. /\ x5'["handler"].pc \in HandlerPcs /\ x5'["request"].pc \notin {"load", "close", "retry"}
    BY <1>1 DEF Network!IInv, MayStand, Network!Actors, HandlerPcs, Network!RequestPcs, Network!BoundPcs
  <1>11. \A b \in Network!Actors : Network!ActorSound(b)'
    BY <1>1, <1>2 DEF Network!IInv, Network!ActorSound, MayStand, MayCommit, Network!Matches
  <1>12. \A b \in Network!Actors : Network!GivingUp(b)' => (x3.status = "planned")'
    <2>1. \A b \in Network!Actors : (b # a /\ x5[b].pc \in {"recheck", "close"}) => x5[b].gen # x5[a].gen
      BY DEF Network!IInv, Network!LeaseSound, MayStand, Commits, HoldsLease, Network!Actors, HandlerPcs
    <2> QED BY <1>1, <1>2, <2>1 DEF Network!GivingUp, Commits, HoldsLease
  <1> QED BY <1>3, <1>4, <1>5, <1>6, <1>7, <1>8, <1>9, <1>10, <1>11, <1>12 DEF Network!IInv, HandlerPcs

\* A thread whose lease is lost stops.
LEMMA LostKept ==
  ASSUME Network!IInv, NEW a \in Network!Actors, x5[a].pc # "review", Moves(a, "idle") PROVE Network!IInv'
  <1>1. MayStand(a, "idle", x3)
    BY DEF MayStand, Network!Actors, HandlerPcs, Network!UnloadedPcs, Network!BoundPcs, Network!SeenPcs
  <1> QED BY <1>1, BridgeMoveKept

\* A commit happens or stops its thread.
LEMMA CommitOrLost ==
  ASSUME Network!IInv, NEW a \in Network!Actors, x5[a].pc \notin {"review", "idle"}, NEW o, NEW status,
         NEW pc,
         Network!Commit(a, o, status, pc), UNCHANGED <<x1, x2, x6>>,
         HoldsLease(a) => MayCommit(o, status) /\ MayStand(a, pc, o) /\ pc \notin {"recheck", "close"}
                     /\ (o.bound => pc \notin Network!UnloadedPcs /\ (a = "handler"
                        => x5["request"].pc \notin Network!UnloadedPcs))
  PROVE  Network!IInv'
  <1>1. CASE HoldsLease(a)
    <2>1. pc \in {"idle", "load", "close"} \cup Network!RequestPcs \cup Network!VerifyPcs
      BY <1>1 DEF MayStand, Network!Actors, HandlerPcs, Network!BoundPcs, Network!VerifyPcs
    <2>2. Commits(a, o, status, pc)
      BY <1>1, <2>1, GotoRows DEF Network!Commit, Commits, HoldsLease, Network!IInv
    <2>3. o.bound => x5'["request"].pc \notin Network!UnloadedPcs
      BY <1>1, <2>2 DEF Commits, Arrived, Network!Actors
    <2> QED BY <1>1, <2>2, <2>3, CommitKept
  <1>2. CASE ~HoldsLease(a)
    <2>1. Moves(a, "idle") BY <1>2, GotoRows DEF Network!Commit, Moves, HoldsLease, Network!IInv
    <2> QED BY <2>1, LostKept
  <1> QED BY <1>1, <1>2

\* Rechecked.
LEMMA RecheckKept ==
  ASSUME Network!IInv, Network!Recheck
  PROVE  Network!IInv'
  <1>1. HoldsLease("request") => x3.status = "planned" /\ x3.locked /\ x4.status = "leased"
    BY DEF Network!Recheck, Network!At, Network!IInv, Network!GivingUp, HoldsLease, Network!Actors,
       Network!EndSound
  <1>2. Network!At("request", "recheck") /\ UNCHANGED <<x1, x2, x6>> BY DEF Network!Recheck
  <1>3. x1.sending = None /\ x1.task = None /\ ~x3.bound /\ ~x3.acked
    BY <1>2 DEF Network!IInv, Network!At, Network!SendingSound, Network!UnloadedPcs
  <1>4. CASE Network!Commit("request", [x3 EXCEPT !.status = "dispatching"], "leased", "stage")
    <2>1. x3 \in Ops BY DEF Network!IInv, Network!TypeOK, Ops
    <2>2. HoldsLease("request") => MayCommit([x3 EXCEPT !.status = "dispatching"], "leased")
      BY <1>1, <1>3, <2>1, BoundsAssumption, NoneAssumption DEF MayCommit, Ops, Network!Unsent
    <2>3. MayStand("request", "stage", [x3 EXCEPT !.status = "dispatching"])
      BY <1>2, <1>3, <2>1 DEF MayStand, Network!At, Network!RequestPcs, Network!UnloadedPcs, Network!BoundPcs,
         Network!SeenPcs, Network!Unsent, Ops
    <2> QED BY <1>2, <1>3, <1>4, <2>1, <2>2, <2>3, CommitOrLost DEF Network!At, Network!Actors, Ops
  <1>5. CASE Network!Commit("request", Network!Closed("blocked"), "completed", "idle")
    <2>1. x3 \in Ops BY DEF Network!IInv, Network!TypeOK, Ops
    <2>2. HoldsLease("request") => MayCommit(Network!Closed("blocked"), "completed")
      BY <1>1, <1>3, <2>1, BoundsAssumption, NoneAssumption DEF MayCommit, Ops, Network!Unsent, Network!Closed
    <2>3. MayStand("request", "idle", Network!Closed("blocked"))
      BY <1>2, <1>3, <2>1 DEF MayStand, Network!At, Network!UnloadedPcs, Network!BoundPcs, Network!SeenPcs,
         Network!Unsent, Ops, Network!Closed
    <2> QED
      BY <1>2, <1>3, <1>5, <2>1, <2>2, <2>3, CommitOrLost DEF Network!At, Network!Actors, Ops, Network!Closed
  <1> QED BY <1>4, <1>5 DEF Network!Recheck

\* The stage is acknowledged to the request that sent it.
LEMMA AcknowledgeKept ==
  ASSUME Network!IInv, Network!Acknowledge
  PROVE  Network!IInv'
  <1>1. x3 \in Ops BY DEF Network!IInv, Network!TypeOK, Ops
  <1>2. x5["request"].pc = "ack" /\ x1.sending = None /\ ~x3.bound /\ x3.status \notin Network!Unsent
    BY DEF Network!Acknowledge, Network!IInv, Network!At, Network!Actors, Network!SendingSound,
       Network!UnsentSound, Network!UnloadedPcs
  <1>3. HoldsLease("request") => MayCommit([x3 EXCEPT !.acked = TRUE], "leased")
    BY <1>1, <1>2, BoundsAssumption, NoneAssumption DEF MayCommit, Ops, Network!Unsent, Network!Acknowledge,
       Network!IInv, Network!EndSound, Network!SendingSound, HoldsLease
  <1>4. MayStand("request", "lookStaged", [x3 EXCEPT !.acked = TRUE])
    BY <1>1, <1>2 DEF MayStand, Network!Actors, Network!RequestPcs, HandlerPcs, Network!UnloadedPcs,
       Network!BoundPcs, Network!SeenPcs, Network!Unsent, Ops
  <1> QED
    BY <1>1, <1>2, <1>3, <1>4, CommitOrLost DEF Network!Acknowledge, Network!At, Network!Actors, Ops,
       Network!UnloadedPcs, Network!SendingSound, Network!IInv

\* The stage is saved as seen.
LEMMA CommitVerifiedKept ==
  ASSUME Network!IInv, Network!CommitVerified
  PROVE  Network!IInv'
  <1>1. x3 \in Ops BY DEF Network!IInv, Network!TypeOK, Ops
  <1>2. x5["request"].pc = "verified" /\ x1.sending = None /\ ~x3.bound /\ x3.status \notin Network!Unsent
        /\ x5["request"].staged \in {None, "own", "foreign"}
    BY DEF Network!CommitVerified, Network!TypeOK, Network!IInv, Network!At, Network!Actors,
       Network!SendingSound, Network!UnsentSound, Network!UnloadedPcs
  <1>3. HoldsLease("request") => MayCommit([x3 EXCEPT !.staged = x5["request"].staged], "leased")
    BY <1>1, <1>2, BoundsAssumption, NoneAssumption DEF MayCommit, Ops, Network!Unsent,
       Network!CommitVerified, Network!IInv, Network!EndSound, Network!SendingSound, HoldsLease
  <1>4. MayStand("request", "lookLatest", [x3 EXCEPT !.staged = x5["request"].staged])
    BY <1>1, <1>2 DEF MayStand, Network!Actors, Network!RequestPcs, HandlerPcs, Network!UnloadedPcs,
       Network!BoundPcs, Network!SeenPcs, Network!Unsent, Ops
  <1> QED
    BY <1>1, <1>2, <1>3, <1>4, CommitOrLost DEF Network!CommitVerified, Network!At, Network!Actors, Ops,
       Network!UnloadedPcs, Network!SendingSound, Network!IInv

\* The task of the reload is saved.
LEMMA BindTaskKept ==
  ASSUME Network!IInv, Network!BindTask
  PROVE  Network!IInv'
  <1>1. x3 \in Ops BY DEF Network!IInv, Network!TypeOK, Ops
  <1>2. x5["request"].pc = "bind" /\ x1.sending = None /\ x3.status \notin Network!Unsent
    BY DEF Network!BindTask, Network!IInv, Network!At, Network!Actors, Network!SendingSound,
       Network!UnsentSound, Network!UnloadedPcs
  <1>3. HoldsLease("request") => MayCommit([x3 EXCEPT !.status = "running", !.bound = TRUE], "leased")
    BY <1>1, <1>2, BoundsAssumption, NoneAssumption DEF MayCommit, Ops, Network!Unsent, Network!BindTask,
       Network!IInv, Network!EndSound, Network!SendingSound, HoldsLease
  <1>4. MayStand("request", "task", [x3 EXCEPT !.status = "running", !.bound = TRUE])
    BY <1>1, <1>2 DEF MayStand, Network!Actors, Network!RequestPcs, HandlerPcs, Network!UnloadedPcs,
       Network!BoundPcs, Network!SeenPcs, Network!Unsent, Ops
  <1> QED
    BY <1>1, <1>2, <1>3, <1>4, CommitOrLost DEF Network!BindTask, Network!At, Network!Actors, Ops,
       Network!UnloadedPcs, Network!SendingSound, Network!IInv

\* The intent to reload is saved before it is sent.
LEMMA CommitReloadKept ==
  ASSUME Network!IInv, NEW a \in Network!Actors, Network!CommitReload(a)
  PROVE  Network!IInv'
  <1>1. x3 \in Ops BY DEF Network!IInv, Network!TypeOK, Ops
  <1>2. a = "request" /\ x5["request"].pc = "reload" /\ x1.sending = None /\ ~x3.bound
          /\ x3.status \notin Network!Unsent
    BY DEF Network!CommitReload, Network!BoundPcs, Network!IInv, Network!At, Network!Actors,
       Network!SendingSound, Network!UnsentSound, Network!UnloadedPcs
  <1>3. HoldsLease(a) => MayCommit([x3 EXCEPT !.reloading = TRUE], "leased")
    BY <1>1, <1>2, BoundsAssumption, NoneAssumption DEF MayCommit, Ops, Network!Unsent, Network!CommitReload,
       Network!IInv, Network!EndSound, Network!SendingSound, HoldsLease
  <1>4. MayStand(a, "reload", [x3 EXCEPT !.reloading = TRUE])
    BY <1>1, <1>2 DEF MayStand, Network!Actors, Network!RequestPcs, HandlerPcs, Network!UnloadedPcs,
       Network!BoundPcs, Network!SeenPcs, Network!Unsent, Ops
  <1> QED
    BY <1>1, <1>2, <1>3, <1>4, CommitOrLost DEF Network!CommitReload, Network!At, Network!Actors, Ops,
       Network!UnloadedPcs, Network!SendingSound, Network!IInv

\* The verification is saved.
LEMMA CommitVerifyingKept ==
  ASSUME Network!IInv, NEW a \in Network!Actors, Network!CommitVerifying(a)
  PROVE  Network!IInv'
  <1>1. x3 \in Ops BY DEF Network!IInv, Network!TypeOK, Ops
  <1>2. x5[a].pc = "verifying" /\ x3.bound /\ x1.sending = None /\ x5["request"].pc \notin Network!UnloadedPcs
        /\ x1.task = "ok" /\ Network!Matches(x6.final)
    BY DEF Network!CommitVerifying, Network!ActorSound, Network!BoundPcs, Network!SeenPcs, Network!IInv,
       Network!At, Network!Actors, Network!SendingSound, Network!UnsentSound, Network!UnloadedPcs
  <1>3. HoldsLease(a) => MayCommit([x3 EXCEPT !.status = "verifying"], "leased")
    BY <1>1, <1>2, BoundsAssumption, NoneAssumption DEF MayCommit, Ops, Network!Unsent,
       Network!CommitVerifying, Network!IInv, Network!EndSound, Network!SendingSound, HoldsLease
  <1>4. MayStand(a, "succeed", [x3 EXCEPT !.status = "verifying"])
    BY <1>1, <1>2 DEF MayStand, Network!Actors, Network!RequestPcs, HandlerPcs, Network!UnloadedPcs,
       Network!BoundPcs, Network!SeenPcs, Network!Unsent, Ops
  <1> QED
    BY <1>1, <1>2, <1>3, <1>4, CommitOrLost DEF Network!CommitVerifying, Network!At, Network!Actors, Ops,
       Network!UnloadedPcs, Network!SendingSound, Network!IInv

\* The success closes the operation.
LEMMA CommitSuccessKept ==
  ASSUME Network!IInv, NEW a \in Network!Actors, Network!CommitSuccess(a)
  PROVE  Network!IInv'
  <1>1. x3 \in Ops BY DEF Network!IInv, Network!TypeOK, Ops
  <1>2. x5[a].pc = "succeed" /\ x3.bound /\ x1.sending = None /\ x5["request"].pc \notin Network!UnloadedPcs
        /\ x1.task = "ok" /\ Network!Matches(x6.final)
    BY DEF Network!CommitSuccess, Network!ActorSound, Network!BoundPcs, Network!SeenPcs, Network!IInv,
       Network!At, Network!Actors, Network!SendingSound, Network!UnsentSound, Network!UnloadedPcs
  <1>3. HoldsLease(a) => MayCommit(Network!Closed("succeeded"), "completed")
    BY <1>1, <1>2, BoundsAssumption, NoneAssumption DEF MayCommit, Ops, Network!Unsent, Network!CommitSuccess,
       Network!Closed, Network!IInv, Network!EndSound, Network!SendingSound, HoldsLease
  <1>4. MayStand(a, "idle", Network!Closed("succeeded"))
    BY <1>1, <1>2 DEF MayStand, Network!Actors, Network!RequestPcs, HandlerPcs, Network!UnloadedPcs,
       Network!BoundPcs, Network!SeenPcs, Network!Unsent, Ops, Network!Closed
  <1> QED
    BY <1>1, <1>2, <1>3, <1>4, CommitOrLost DEF Network!CommitSuccess, Network!At, Network!Actors, Ops,
       Network!UnloadedPcs, Network!SendingSound, Network!IInv, Network!Closed

\* An operator has to look.
LEMMA PauseKept ==
  ASSUME Network!IInv, NEW a \in Network!Actors, Network!Pause(a)
  PROVE  Network!IInv'
  <1>1. x3 \in Ops BY DEF Network!IInv, Network!TypeOK, Ops
  <1>2. x5[a].pc = "pause" /\ x3.status \notin Network!Unsent
    BY DEF Network!Pause, Network!ActorSound, Network!IInv, Network!At, Network!Actors, Network!SendingSound,
       Network!UnsentSound, Network!UnloadedPcs
  <1>3. HoldsLease(a) => MayCommit(Network!ToReconcile(x3), "paused")
    BY <1>1, <1>2, BoundsAssumption, NoneAssumption DEF MayCommit, Ops, Network!Unsent, Network!Pause,
       Network!ToReconcile, Network!IInv, Network!EndSound, Network!SendingSound, HoldsLease
  <1>4. MayStand(a, "idle", Network!ToReconcile(x3))
    BY <1>1, <1>2 DEF MayStand, Network!Actors, Network!RequestPcs, HandlerPcs, Network!UnloadedPcs,
       Network!BoundPcs, Network!SeenPcs, Network!Unsent, Ops, Network!ToReconcile
  <1> QED
    BY <1>1, <1>2, <1>3, <1>4, CommitOrLost DEF Network!Pause, Network!At, Network!Actors, Ops,
       Network!UnloadedPcs, Network!SendingSound, Network!IInv, Network!ToReconcile

\* The handler comes back to a task that runs.
LEMMA RetryKept ==
  ASSUME Network!IInv, NEW a \in Network!Actors, Network!Retry(a)
  PROVE  Network!IInv'
  <1>1. x3 \in Ops BY DEF Network!IInv, Network!TypeOK, Ops
  <1>2. a = "handler" /\ x5[a].pc = "retry" /\ x3.status \notin Network!Unsent
    BY DEF Network!Retry, Network!ActorSound, Network!IInv, Network!At, Network!Actors, Network!SendingSound,
       Network!UnsentSound, Network!UnloadedPcs
  <1>3. HoldsLease(a) => MayCommit(x3, "retry_wait")
    BY <1>1, <1>2, BoundsAssumption, NoneAssumption DEF MayCommit, Ops, Network!Unsent, Network!Retry,
       Network!IInv, Network!EndSound, Network!SendingSound, HoldsLease
  <1>4. MayStand(a, "idle", x3)
    BY <1>1, <1>2 DEF MayStand, Network!Actors, Network!RequestPcs, HandlerPcs, Network!UnloadedPcs,
       Network!BoundPcs, Network!SeenPcs, Network!Unsent, Ops
  <1> QED
    BY <1>1, <1>2, <1>3, <1>4, CommitOrLost DEF Network!Retry, Network!At, Network!Actors, Ops,
       Network!UnloadedPcs, Network!SendingSound, Network!IInv

\* What was never sent is closed.
LEMMA CloseUnsentKept ==
  ASSUME Network!IInv, Network!CloseUnsent
  PROVE  Network!IInv'
  <1>1. x3 \in Ops BY DEF Network!IInv, Network!TypeOK, Ops
  <1>2. x5["handler"].pc = "close" /\ (HoldsLease("handler") => x3.status = "planned")
        /\ (x3.status = "planned" => ~x3.bound /\ x1.sending = None)
    BY DEF Network!CloseUnsent, HoldsLease, Network!GivingUp, Network!Unsent, Network!IInv, Network!At,
       Network!Actors, Network!SendingSound, Network!UnsentSound, Network!UnloadedPcs
  <1>3. HoldsLease("handler") => MayCommit(Network!Closed("blocked"), "completed")
    BY <1>1, <1>2, BoundsAssumption, NoneAssumption DEF MayCommit, Ops, Network!Unsent, Network!CloseUnsent,
       Network!Closed, Network!IInv, Network!EndSound, Network!SendingSound, HoldsLease
  <1>4. MayStand("handler", "idle", Network!Closed("blocked"))
    BY <1>1, <1>2 DEF MayStand, Network!Actors, Network!RequestPcs, HandlerPcs, Network!UnloadedPcs,
       Network!BoundPcs, Network!SeenPcs, Network!Unsent, Ops, Network!Closed
  <1> QED
    BY <1>1, <1>2, <1>3, <1>4, CommitOrLost DEF Network!CloseUnsent, Network!At, Network!Actors, Ops,
       Network!UnloadedPcs, Network!SendingSound, Network!IInv, Network!Closed

\* The task is read.
LEMMA ReadTaskKept ==
  ASSUME Network!IInv, NEW a \in Network!Actors, Network!ReadTask(a)
  PROVE  Network!IInv'
  <1>1. /\ x5[a].pc = "task" /\ x3.bound /\ x3.status \notin Network!Unsent /\ x1.sending = None
    BY DEF Network!ReadTask, Network!At, Network!IInv, Network!ActorSound, Network!BoundPcs,
       Network!SendingSound
  <1>2. PICK pc \in {"look", "retry", "pause"} :
          Network!Goto(a, pc) /\ (pc = "look" => x1.task = "ok") /\ (pc = "retry" => a = "handler")
    BY DEF Network!ReadTask
  <1>3. Moves(a, pc) BY <1>2, GotoRows DEF Network!IInv, Moves, Network!ReadTask, Network!VerifyPcs
  <1>4. MayStand(a, pc, x3)
    BY <1>1, <1>2 DEF MayStand, HandlerPcs, Network!UnloadedPcs, Network!BoundPcs, Network!SeenPcs
  <1> QED BY <1>2, <1>3, <1>4, BridgeMoveKept

\* A thread ends between two of its steps.
LEMMA CrashKept ==
  ASSUME Network!IInv, NEW a \in Network!Actors, Network!Crash(a)
  PROVE  Network!IInv'
  <1>1. x5[a].pc # "review" /\ Moves(a, "idle") BY GotoRows DEF Network!Crash, Moves, Network!IInv
  <1> QED BY <1>1, LostKept

\* The handler reads the operation.
LEMMA LoadKept ==
  ASSUME Network!IInv, Network!Load
  PROVE  Network!IInv'
  <1>1. /\ x5["handler"].pc = "load" /\ x5["request"].pc # "review"
        /\ x3.status \notin {"none", "blocked", "succeeded"}
    BY DEF Network!Load, Network!At, Network!IInv, Network!EndSound, Network!LeaseSound, Network!Actors
  <1>2. PICK pc \in {"close", "task", "pause"} :
          /\ Network!Goto("handler", pc) /\ (pc = "close" <=> x3.status = "planned")
             /\ (pc = "task" => x3.bound)
    BY DEF Network!Load, Network!NextOfUnbound
  <1>3. Moves("handler", pc)
    BY <1>2, GotoRows DEF Network!IInv, Moves, Network!Load, Network!VerifyPcs, Network!RequestPcs,
       Network!Actors
  <1>4. MayStand("handler", pc, x3)
    BY <1>1, <1>2 DEF MayStand, HandlerPcs, Network!UnloadedPcs, Network!BoundPcs, Network!SeenPcs,
       Network!Unsent
  <1> QED BY <1>2, <1>3, <1>4, BridgeMoveKept DEF Network!Actors

\* What the node answers.
LEMMA RowsTyped ==
  ASSUME Network!TypeOK
  PROVE  Network!Rows \in Network!Configs
  BY DEF Network!TypeOK, Network!Rows, Network!Configs

\* The request looks at what it staged.
LEMMA LookStagedKept ==
  ASSUME Network!IInv, Network!LookStaged
  PROVE  Network!IInv'
  <1>1. /\ x5["request"].pc = "lookStaged" /\ x3.status \notin Network!Unsent /\ x1.sending = None
        /\ UNCHANGED <<x1, x2, x3, x4, x6>>
    BY DEF Network!LookStaged, Network!At, Network!IInv, Network!SendingSound, Network!UnsentSound,
       Network!UnloadedPcs
  <1>2. CASE Network!Goto("request", "pause")
    <2>1. Moves("request", "pause")
      BY <1>1, <1>2, GotoRows DEF Network!IInv, Moves, Network!VerifyPcs, Network!Actors
    <2>2. MayStand("request", "pause", x3)
      BY <1>1 DEF MayStand, Network!UnloadedPcs, Network!BoundPcs, Network!SeenPcs
    <2> QED BY <2>1, <2>2, BridgeMoveKept DEF Network!Actors
  <1>3. CASE /\ Network!StagedAsReviewed
             /\ x5' = [x5 EXCEPT !["request"].pc = "verified", !["request"].staged = Network!Rows.bridge.kept]
    <2>1. Network!Rows.bridge.kept \in {None, "own", "foreign"}
      BY <1>3, RowsTyped DEF Network!IInv, Network!StagedAsReviewed, Network!Matches, Network!Configs,
         Network!Bridges
    <2>2. Arrived("request", "verified")
      <3> DEFINE z == x5["request"]
                 w == [z EXCEPT !.pc = "verified", !.staged = Network!Rows.bridge.kept]
      <3>1. x5 \in [Network!Actors -> Threads] BY DEF Network!IInv, Network!TypeOK, Threads
      <3>2. z \in Threads /\ "request" \in Network!Actors BY <3>1 DEF Network!Actors
      <3>3. x5' = [x5 EXCEPT !["request"] = w] BY <1>3, <3>1, <3>2
      <3> HIDE DEF z
      <3>4. w \in Threads /\ w.pc = "verified" /\ w.gen = z.gen
        BY <2>1, <3>2 DEF Threads, Network!RequestPcs
      <3> HIDE DEF w
      <3>5. x5'["request"] = w /\ \A b \in Network!Actors : b # "request" => x5'[b] = x5[b]
        BY <3>1, <3>2, <3>3
      <3>6. x5' \in [Network!Actors -> Threads] BY <3>1, <3>3, <3>4
      <3> QED BY <3>4, <3>5, <3>6 DEF Arrived, z
    <2>3. MayStand("request", "verified", x3)
      BY <1>1 DEF MayStand, Network!UnloadedPcs, Network!BoundPcs, Network!SeenPcs, Network!RequestPcs
    <2> QED BY <1>1, <2>2, <2>3, BridgeMoveKept DEF Moves, Network!Actors
  <1> QED BY <1>2, <1>3 DEF Network!LookStaged

\* The request looks again, under its lease, before it asks for the reload.
LEMMA LookLatestKept ==
  ASSUME Network!IInv, Network!LookLatest
  PROVE  Network!IInv'
  <1>1. /\ x5["request"].pc = "lookLatest" /\ x3.status \notin Network!Unsent /\ x1.sending = None
          /\ x1.task = None
        /\ UNCHANGED <<x1, x2, x3, x4>>
    BY DEF Network!LookLatest, Network!At, Network!IInv, Network!SendingSound, Network!UnsentSound,
       Network!UnloadedPcs
  <1>2. CASE Network!Goto("request", "pause") /\ UNCHANGED x6
    <2>1. Moves("request", "pause")
      BY <1>1, <1>2, GotoRows DEF Network!IInv, Moves, Network!VerifyPcs, Network!Actors
    <2>2. MayStand("request", "pause", x3)
      BY <1>1 DEF MayStand, Network!UnloadedPcs, Network!BoundPcs, Network!SeenPcs
    <2> QED BY <2>1, <2>2, BridgeMoveKept DEF Network!Actors
  <1>3. CASE Network!Latest /\ Network!Goto("request", "reload") /\ x6' = [x6 EXCEPT !.unseen = FALSE]
    <2>1. Arrived("request", "reload") BY <1>3, GotoRows DEF Network!IInv, Network!RequestPcs, Network!Actors
    <2>2. /\ x5'["request"].pc = "reload" /\ x5'["request"].gen = x5["request"].gen
          /\ x5'["handler"] = x5["handler"]
      BY <2>1 DEF Arrived, Network!Actors
    <2>3. /\ x6'.final = x6.final /\ x6'.applied = x6.applied
          /\ x6'.reloads = x6.reloads
      BY <1>3 DEF Network!IInv, Network!TypeOK
    <2>4. Network!TypeOK'
      <3>1. x6' \in [edits : 0..MaxEdits, unseen : BOOLEAN, reloads : Nat,
              final : Network!Configs \cup {None},
                          applied : SUBSET [from : Network!Configs, to : Network!Configs, unseen : BOOLEAN]]
        BY <1>3 DEF Network!IInv, Network!TypeOK
      <3> QED BY <1>1, <2>1, <3>1 DEF Network!IInv, Network!TypeOK, Arrived, Threads
    <2>5. Network!OnlyOursIsApplied' BY <2>3 DEF Network!IInv, Network!OnlyOursIsApplied
    <2>6. Network!LeaseSound' BY <1>1, <2>2 DEF Network!IInv, Network!LeaseSound
    <2>7. Network!EndSound' BY <1>1, <2>2, <2>3 DEF Network!IInv, Network!EndSound, Network!Matches
    <2>8. Network!UnsentSound' BY <1>1 DEF Network!UnsentSound
    <2>9. Network!SendingSound'
      BY <1>1, <2>2, <2>3 DEF Network!IInv, Network!SendingSound, Network!UnloadedPcs
    <2>10. Network!ReloadSound'
      BY <1>1, <1>3 DEF Network!ReloadSound, Network!Latest, Network!StagedAsReviewed, Network!Rows,
         Network!Changes, Network!Matches, Network!DiffAllowed
    <2>11. \A b \in Network!Actors : Network!ActorSound(b)'
      BY <1>1, <2>2, <2>3 DEF Network!IInv, Network!ActorSound, Network!Actors, Network!BoundPcs,
         Network!SeenPcs, Network!Matches
    <2>12. \A b \in Network!Actors : Network!GivingUp(b)' => (x3.status = "planned")'
      BY <1>1, <2>2 DEF Network!IInv, Network!GivingUp, Network!Actors
    <2> QED
      BY <2>2, <2>4, <2>5, <2>6, <2>7, <2>8, <2>9, <2>10, <2>11, <2>12 DEF Network!IInv
  <1> QED BY <1>2, <1>3 DEF Network!LookLatest

\* The node is seen with the reload in it.
LEMMA LookKept ==
  ASSUME Network!IInv, NEW a \in Network!Actors, Network!Look(a)
  PROVE  Network!IInv'
  <1>1. /\ x5[a].pc = "look" /\ x3.status \notin Network!Unsent /\ x3.bound /\ x1.task = "ok"
          /\ x1.sending = None
        /\ x5["request"].pc \notin Network!UnloadedPcs /\ UNCHANGED <<x1, x2, x3, x4>>
    BY DEF Network!Look, Network!At, Network!IInv, Network!ActorSound, Network!SendingSound, Network!BoundPcs
  <1>2. CASE Network!Goto(a, "pause") /\ UNCHANGED x6
    <2>1. Moves(a, "pause") BY <1>1, <1>2, GotoRows DEF Network!IInv, Moves, Network!VerifyPcs
    <2>2. MayStand(a, "pause", x3)
      BY <1>1 DEF MayStand, Network!UnloadedPcs, Network!BoundPcs, Network!SeenPcs, HandlerPcs
    <2> QED BY <2>1, <2>2, BridgeMoveKept
  <1>3. ASSUME NEW pc \in {"verifying", "succeed"}, Network!AppliedAsReviewed,
               Network!Goto(a, pc), x6' = [x6 EXCEPT !.final = x1.live]
        PROVE  Network!IInv'
    <2>1. Arrived(a, pc) BY <1>3, GotoRows DEF Network!IInv, Network!VerifyPcs
    <2>2. x5'[a].pc = pc /\ x5'[a].gen = x5[a].gen /\ \A b \in Network!Actors : b # a => x5'[b] = x5[b]
      BY <2>1 DEF Arrived
    <2>3. /\ x6'.final = x1.live /\ x6'.applied = x6.applied
          /\ x6'.reloads = x6.reloads /\ x6'.unseen = x6.unseen
      BY <1>3 DEF Network!IInv, Network!TypeOK
    <2>4. Network!TypeOK'
      <3>1. x6' \in [edits : 0..MaxEdits, unseen : BOOLEAN, reloads : Nat,
              final : Network!Configs \cup {None},
                          applied : SUBSET [from : Network!Configs, to : Network!Configs, unseen : BOOLEAN]]
        BY <1>3 DEF Network!IInv, Network!TypeOK
      <3> QED BY <1>1, <2>1, <3>1 DEF Network!IInv, Network!TypeOK, Arrived, Threads
    <2>5. Network!Matches(x1.live) BY <1>3 DEF Network!AppliedAsReviewed, Network!Rows, Network!Changes
    <2>6. Network!Matches(x6.final)' BY <1>1, <2>3, <2>5 DEF Network!Matches
    <2>7. Network!OnlyOursIsApplied' BY <2>3 DEF Network!IInv, Network!OnlyOursIsApplied
    <2>8. Network!LeaseSound' BY <1>1, <2>2 DEF Network!IInv, Network!LeaseSound, Network!Actors
    <2>9. Network!EndSound' BY <1>1, <2>2, <2>6 DEF Network!IInv, Network!EndSound, Network!Actors
    <2>10. Network!UnsentSound' BY <1>1 DEF Network!UnsentSound
    <2>11. Network!SendingSound'
      BY <1>1, <2>2, <2>3 DEF Network!IInv, Network!SendingSound, Network!Actors, Network!UnloadedPcs
    <2>12. Network!ReloadSound'
      BY <1>1, <2>2, <2>3 DEF Network!IInv, Network!ReloadSound, Network!StagedAsReviewed, Network!Rows,
         Network!Changes, Network!Matches, Network!DiffAllowed, Network!UnloadedPcs, Network!Actors
    <2>13. \A b \in Network!Actors : Network!ActorSound(b)'
      BY <1>1, <2>2, <2>6 DEF Network!IInv, Network!ActorSound, Network!Actors, Network!BoundPcs
    <2>14. \A b \in Network!Actors : Network!GivingUp(b)' => (x3.status = "planned")'
      BY <1>1, <2>2 DEF Network!IInv, Network!GivingUp, Network!Actors
    <2>15. /\ x5'["handler"].pc \in {"idle", "load", "close", "pause", "retry"} \cup Network!BoundPcs
           /\ x5'["request"].pc \notin {"load", "close", "retry"}
      BY <2>2 DEF Network!IInv, Network!Actors, Network!BoundPcs
    <2> QED
      BY <2>4, <2>7, <2>8, <2>9, <2>10, <2>11, <2>12, <2>13, <2>14, <2>15 DEF Network!IInv
  <1> QED BY <1>2, <1>3 DEF Network!Look

\* The lock and the operation are as they were, and so is everything but the node and one thread.
LEMMA SendKept ==
  ASSUME Network!IInv, UNCHANGED <<x2, x3, x4>>, x5["request"].pc \in {"stage", "reload"},
         NEW pc \in {"ack", "bind", "pause"}, Network!Goto("request", pc),
         (Network!TypeOK /\ Network!OnlyOursIsApplied /\ Network!SendingSound /\ Network!ReloadSound)',
           x6'.final = x6.final
  PROVE  Network!IInv'
  <1>1. /\ x3.status \notin Network!Unsent /\ ~x3.bound /\ x5["request"].pc # "review"
          /\ x3.status # "succeeded"
    BY BoundsAssumption, NoneAssumption DEF Network!IInv, Network!SendingSound, Network!UnsentSound,
       Network!UnloadedPcs, Network!EndSound
  <1>2. Arrived("request", pc)
    BY GotoRows DEF Network!IInv, Network!VerifyPcs, Network!RequestPcs, Network!Actors
  <1>3. /\ x5'["request"].pc = pc /\ x5'["request"].gen = x5["request"].gen
        /\ x5'["handler"] = x5["handler"]
    BY <1>2 DEF Arrived, Network!Actors
  <1>4. Network!LeaseSound' BY <1>1, <1>3 DEF Network!IInv, Network!LeaseSound
  <1>5. Network!EndSound' BY <1>1, <1>3 DEF Network!IInv, Network!EndSound
  <1>6. Network!UnsentSound' BY <1>1 DEF Network!UnsentSound
  <1>7. Network!ActorSound("request")' BY <1>1, <1>3 DEF Network!ActorSound, Network!BoundPcs, Network!SeenPcs
  <1>8. Network!ActorSound("handler")'
    <2>1. x5["handler"].pc \notin Network!BoundPcs
      BY <1>1 DEF Network!IInv, Network!ActorSound, Network!Actors
    <2> QED
      BY <1>1, <1>3, <2>1 DEF Network!IInv, Network!ActorSound, Network!Actors, Network!BoundPcs,
         Network!SeenPcs
  <1>9. \A b \in Network!Actors : Network!GivingUp(b)' => (x3.status = "planned")'
    BY <1>3 DEF Network!IInv, Network!GivingUp, Network!Actors
  <1> QED BY <1>3, <1>4, <1>5, <1>6, <1>7, <1>8, <1>9 DEF Network!IInv, Network!Actors

\* What is staged of what the node answers.
LEMMA StagedTyped ==
  ASSUME Network!TypeOK
  PROVE  Network!Staged \in Network!Configs
  <1>1. Network!Rows \in Network!Configs BY RowsTyped
  <1> QED BY <1>1, BoundsAssumption, NoneAssumption DEF Network!Staged, Network!Configs, Network!Bridges

\* The change is staged.
LEMMA BridgeStageKept ==
  ASSUME Network!IInv, Network!Stage
  PROVE  Network!IInv'
  <1>1. /\ x5["request"].pc = "stage" /\ x1.sending = None /\ x1.task = None /\ x6.reloads = 0
        /\ ~x3.bound /\ ~x3.acked /\ UNCHANGED <<x2, x3, x4, x6>>
    BY DEF Network!Stage, Network!At, Network!IInv, Network!SendingSound, Network!UnloadedPcs
  <1>2. PICK pc \in {"ack", "pause"} :
          /\ Network!Goto("request", pc)
          /\ \/ x1' = [x1 EXCEPT !.pending = Network!Staged]
             \/ x1' = [x1 EXCEPT !.sending = "stage"] /\ pc = "pause"
             \/ x1' = x1
    BY DEF Network!Stage
  <1>3. Arrived("request", pc)
    BY <1>2, GotoRows DEF Network!IInv, Network!VerifyPcs, Network!RequestPcs, Network!Actors
  <1>4. x5'["request"].pc = pc BY <1>3 DEF Arrived
  <1>5. /\ x1'.task = None
        /\ x1'.sending = None \/ (x1'.sending = "stage" /\ pc = "pause")
    BY <1>1, <1>2 DEF Network!IInv, Network!TypeOK
  <1>6. x1' \in [live : Network!Configs, pending : Network!Configs \cup {None}, sending : {None, "stage",
          "reload"},
                  task : {None, "running", "ok", "failed"}]
    BY <1>2, StagedTyped DEF Network!IInv, Network!TypeOK
  <1>7. Network!TypeOK' BY <1>1, <1>3, <1>6 DEF Network!IInv, Network!TypeOK, Arrived, Threads
  <1>8. Network!OnlyOursIsApplied' BY <1>1 DEF Network!IInv, Network!OnlyOursIsApplied
  <1>9. Network!SendingSound' BY <1>1, <1>4, <1>5 DEF Network!SendingSound, Network!UnloadedPcs
  <1>10. Network!ReloadSound' BY <1>4, <1>5, BoundsAssumption, NoneAssumption DEF Network!ReloadSound
  <1> QED BY <1>1, <1>2, <1>7, <1>8, <1>9, <1>10, SendKept

\* The reload is sent.
LEMMA ReloadKept ==
  ASSUME Network!IInv, NEW a \in Network!Actors, Network!Reload(a)
  PROVE  Network!IInv'
  <1>1. a = "request" BY DEF Network!Reload, Network!At, Network!IInv, Network!Actors, Network!BoundPcs
  <1>2. /\ x5["request"].pc = "reload" /\ x1.sending = None /\ x1.task = None /\ x6.reloads = 0
        /\ ~x3.bound /\ UNCHANGED <<x2, x3, x4>>
    BY <1>1 DEF Network!Reload, Network!At, Network!IInv, Network!SendingSound, Network!UnloadedPcs
  <1>3. x6.unseen \/ Network!StagedAsReviewed BY <1>2 DEF Network!IInv, Network!ReloadSound
  <1>4. /\ x6'.final = x6.final /\ x6'.applied = x6.applied
        /\ x6'.reloads = 1 /\ x6'.unseen = x6.unseen
        /\ x6' \in [edits : 0..MaxEdits, unseen : BOOLEAN, reloads : Nat, final : Network!Configs \cup {None},
                         applied : SUBSET [from : Network!Configs, to : Network!Configs, unseen : BOOLEAN]]
    BY <1>2 DEF Network!Reload, Network!IInv, Network!TypeOK
  <1>5. PICK pc \in {"bind", "pause"} :
          /\ Network!Goto("request", pc)
          /\ \/ x1' = [x1 EXCEPT !.task = "running"]
             \/ x1' = [x1 EXCEPT !.sending = "reload"] /\ pc = "pause"
             \/ x1' = x1 /\ pc = "pause"
    BY <1>1 DEF Network!Reload
  <1>6. Arrived("request", pc)
    BY <1>5, GotoRows DEF Network!IInv, Network!VerifyPcs, Network!RequestPcs, Network!Actors
  <1>7. x5'["request"].pc = pc BY <1>6 DEF Arrived
  <1>8. /\ x1'.live = x1.live /\ x1'.pending = x1.pending
        /\ \/ x1'.task = "running" /\ x1'.sending = None
           \/ x1'.task = None /\ x1'.sending = "reload" /\ pc = "pause"
           \/ x1'.task = None /\ x1'.sending = None /\ pc = "pause"
    BY <1>2, <1>5 DEF Network!IInv, Network!TypeOK
  <1>9. x1' \in [live : Network!Configs, pending : Network!Configs \cup {None}, sending : {None, "stage",
          "reload"},
                  task : {None, "running", "ok", "failed"}]
    BY <1>5 DEF Network!IInv, Network!TypeOK
  <1>10. Network!TypeOK' BY <1>2, <1>4, <1>6, <1>9 DEF Network!IInv, Network!TypeOK, Arrived, Threads
  <1>11. Network!OnlyOursIsApplied' BY <1>4 DEF Network!IInv, Network!OnlyOursIsApplied
  <1>12. Network!SendingSound'
    BY <1>2, <1>4, <1>5, <1>7, <1>8, BoundsAssumption, NoneAssumption DEF Network!SendingSound,
       Network!UnloadedPcs
  <1>13. Network!ReloadSound'
    BY <1>2, <1>3, <1>4, <1>8 DEF Network!ReloadSound, Network!StagedAsReviewed, Network!Rows,
       Network!Changes, Network!Matches, Network!DiffAllowed
  <1> QED BY <1>2, <1>4, <1>5, <1>10, <1>11, <1>12, <1>13, SendKept

\* Somebody's review admits the operation.
LEMMA AdmitKept ==
  ASSUME Network!IInv, Network!Admit
  PROVE  Network!IInv'
  <1>1. /\ x5["request"].pc = "review" /\ x3.status = "none" /\ x4.gen = 0 /\ x4.status = "none"
        /\ x1.sending = None /\ x1.task = None /\ ~x3.bound /\ ~x3.acked /\ x6.reloads = 0
        /\ UNCHANGED <<x1, x2, x6>>
    BY DEF Network!Admit, Network!At, Network!IInv, Network!LeaseSound, Network!EndSound,
       Network!SendingSound, Network!UnsentSound, Network!Unsent, Network!UnloadedPcs
  <1>2. x5["handler"].pc = "idle" BY <1>1 DEF Network!IInv, Network!LeaseSound, Network!TypeOK
  <1>3. x3' = [x3 EXCEPT !.status = "planned", !.locked = TRUE] /\ x4' = [status |-> "leased", gen |-> 1]
    BY DEF Network!Admit
  <1>4. x3'.status = "planned" /\ x3'.locked /\ ~x3'.bound /\ x3'.acked = x3.acked
    BY <1>1, <1>3 DEF Network!IInv, Network!TypeOK
  <1>5. /\ x5'["request"].pc = "recheck" /\ x5'["request"].gen = 1 /\ x5'["handler"] = x5["handler"]
    BY DEF Network!Admit, Network!IInv, Network!TypeOK, Network!Actors
  <1>6. x5' \in [Network!Actors -> Threads]
    <2>1. x5 \in [Network!Actors -> Threads] BY DEF Network!IInv, Network!TypeOK, Threads
    <2>2. 1 \in 0..MaxClaims /\ "recheck" \in Network!RequestPcs
      BY BoundsAssumption, NoneAssumption DEF Network!RequestPcs
    <2> QED BY <2>1, <2>2 DEF Network!Admit, Threads
  <1>7. Network!TypeOK'
    <2>1. x3' \in Ops BY <1>3 DEF Network!IInv, Network!TypeOK, Ops
    <2> QED
      BY <1>1, <1>3, <1>6, <2>1, BoundsAssumption, NoneAssumption DEF Network!IInv, Network!TypeOK, Ops,
         Threads
  <1>8. Network!OnlyOursIsApplied' BY <1>1 DEF Network!IInv, Network!OnlyOursIsApplied
  <1>9. Network!LeaseSound' BY <1>2, <1>3, <1>5 DEF Network!LeaseSound
  <1>10. Network!EndSound' BY <1>3, <1>4, <1>5 DEF Network!EndSound
  <1>11. Network!UnsentSound'
    <2>1. x3.status \in Network!Unsent BY <1>1 DEF Network!Unsent
    <2>2. Network!NotWanted(x1.live) /\ (x1.pending # None => Network!NotWanted(x1.pending))
      BY <2>1 DEF Network!IInv, Network!UnsentSound
    <2>3. (Network!NotWanted(x1.live) /\ (x1.pending # None => Network!NotWanted(x1.pending)))'
      BY <1>1, <2>2 DEF Network!NotWanted
    <2> QED BY <1>1, <1>4, <1>5, <2>3 DEF Network!UnsentSound
  <1>12. Network!SendingSound' BY <1>1, <1>4, <1>5 DEF Network!SendingSound, Network!UnloadedPcs
  <1>13. Network!ReloadSound' BY <1>1, <1>5, BoundsAssumption, NoneAssumption DEF Network!ReloadSound
  <1>14. \A b \in Network!Actors : Network!ActorSound(b)'
    BY <1>2, <1>5 DEF Network!ActorSound, Network!Actors, Network!BoundPcs, Network!SeenPcs
  <1>15. \A b \in Network!Actors : Network!GivingUp(b)' => (x3.status = "planned")' BY <1>4
  <1> QED
    BY <1>2, <1>5, <1>7, <1>8, <1>9, <1>10, <1>11, <1>12, <1>13, <1>14, <1>15 DEF Network!IInv

\* The handler takes the recovery row over: whoever had it lost it.
LEMMA BridgeClaimKept ==
  ASSUME Network!IInv, Network!Claim
  PROVE  Network!IInv'
  <1>1. /\ x5["handler"].pc = "idle" /\ x5["request"].pc # "review" /\ x4.gen < MaxClaims
          /\ x4.gen \in 1..MaxClaims
        /\ x4.status \notin {"none", "completed"} /\ UNCHANGED <<x1, x2, x3, x6>>
    BY BoundsAssumption, NoneAssumption DEF Network!Claim, Network!At, Network!IInv, Network!TypeOK,
       Network!LeaseSound
  <1>2. x4' = [status |-> "leased", gen |-> x4.gen + 1] BY DEF Network!Claim
  <1>3. /\ x5'["handler"].pc = "load" /\ x5'["handler"].gen = x4.gen + 1 /\ x5'["request"] = x5["request"]
    BY <1>1 DEF Network!Claim, Network!IInv, Network!TypeOK, Network!Actors
  <1>4. Network!TypeOK'
    <2>1. x5 \in [Network!Actors -> Threads] BY DEF Network!IInv, Network!TypeOK, Threads
    <2>2. x4.gen + 1 \in 0..MaxClaims BY <1>1, BoundsAssumption, NoneAssumption
    <2>3. x5' \in [Network!Actors -> Threads] BY <2>1, <2>2 DEF Network!Claim, Threads
    <2> QED BY <1>1, <1>2, <2>2, <2>3 DEF Network!IInv, Network!TypeOK, Threads
  <1>5. Network!OnlyOursIsApplied' BY <1>1 DEF Network!IInv, Network!OnlyOursIsApplied
  <1>6. Network!LeaseSound'
    BY <1>1, <1>2, <1>3, BoundsAssumption, NoneAssumption DEF Network!IInv, Network!LeaseSound
  <1>7. Network!EndSound' BY <1>1, <1>2, <1>3 DEF Network!IInv, Network!EndSound, Network!Matches
  <1>8. Network!UnsentSound' BY <1>1, <1>3 DEF Network!IInv, Network!UnsentSound, Network!NotWanted
  <1>9. Network!SendingSound' BY <1>1, <1>3 DEF Network!IInv, Network!SendingSound
  <1>10. Network!ReloadSound'
    BY <1>1, <1>3 DEF Network!IInv, Network!ReloadSound, Network!StagedAsReviewed, Network!Rows,
       Network!Changes, Network!Matches, Network!DiffAllowed
  <1>11. \A b \in Network!Actors : Network!ActorSound(b)'
    BY <1>1, <1>3 DEF Network!IInv, Network!ActorSound, Network!Actors, Network!BoundPcs, Network!SeenPcs,
       Network!Matches
  <1>12. \A b \in Network!Actors : Network!GivingUp(b)' => (x3.status = "planned")'
    BY <1>1, <1>2, <1>3 DEF Network!IInv, Network!GivingUp, Network!Actors, Network!LeaseSound
  <1> QED
    BY <1>3, <1>4, <1>5, <1>6, <1>7, <1>8, <1>9, <1>10, <1>11, <1>12 DEF Network!IInv

Nets == [live : Network!Configs, pending : Network!Configs \cup {None}, sending : {None, "stage", "reload"},
         task : {None, "running", "ok", "failed"}]
Histories == [edits : 0..MaxEdits, unseen : BOOLEAN, reloads : Nat, final : Network!Configs \cup {None},
              applied : SUBSET [from : Network!Configs, to : Network!Configs, unseen : BOOLEAN]]

\* The node or another of its editors moves, not the operation.
NodeMoves ==
  /\ UNCHANGED <<x2, x3, x4, x5>> /\ x1' \in Nets /\ x6' \in Histories
  /\ x6'.final = x6.final /\ x6'.reloads = x6.reloads
  /\ x1'.sending \in {x1.sending, None}
  /\ (x1.sending = None /\ x1.task = None) => x1'.task = None
  /\ x1.task = "ok" => x1'.task = "ok"
  /\ x1'.task # None => x1'.sending = None

\* Nothing of ours appears unless it was sent.
NoneAppears ==
  x3.status \in Network!Unsent => Network!NotWanted(x1'.live)
    /\ (x1'.pending # None => Network!NotWanted(x1'.pending))

\* What happens to the node leaves the operation's part of the invariant.
LEMMA NodeKept ==
  ASSUME Network!IInv, NodeMoves, NoneAppears, (Network!OnlyOursIsApplied /\ Network!ReloadSound)'
  PROVE  Network!IInv'
  <1>1. /\ UNCHANGED <<x2, x3, x4, x5>>
        /\ x6'.final = x6.final /\ x6'.reloads = x6.reloads
        /\ x1'.sending \in {x1.sending, None}
        /\ (x1.sending = None /\ x1.task = None) => x1'.task = None
        /\ x1.task = "ok" => x1'.task = "ok"
        /\ x1'.task # None => x1'.sending = None
    BY DEF NodeMoves
  <1>2. Network!TypeOK' BY DEF NodeMoves, Nets, Histories, Network!IInv, Network!TypeOK
  <1>3. Network!LeaseSound' BY <1>1 DEF Network!IInv, Network!LeaseSound
  <1>4. Network!EndSound' BY <1>1 DEF Network!IInv, Network!EndSound, Network!Matches
  <1>5. Network!UnsentSound'
    <2>1. (x3.status \in Network!Unsent =>
             Network!NotWanted(x1.live) /\ (x1.pending # None => Network!NotWanted(x1.pending)))'
      BY <1>1 DEF NoneAppears, Network!NotWanted
    <2>2. x3.status \in Network!Unsent => /\ x1'.sending = None /\ x1'.task = None /\ ~x3.bound
                                 /\ x5["request"].pc \in {"review", "recheck", "idle"}
      BY <1>1 DEF Network!IInv, Network!UnsentSound
    <2> QED BY <1>1, <2>1, <2>2 DEF Network!UnsentSound
  <1>6. Network!SendingSound' BY <1>1, BoundsAssumption, NoneAssumption DEF Network!IInv, Network!SendingSound
  <1>7. \A b \in Network!Actors : Network!ActorSound(b)'
    BY <1>1 DEF Network!IInv, Network!ActorSound, Network!Matches
  <1>8. \A b \in Network!Actors : Network!GivingUp(b)' => (x3.status = "planned")'
    BY <1>1 DEF Network!IInv, Network!GivingUp
  <1> QED BY <1>1, <1>2, <1>3, <1>4, <1>5, <1>6, <1>7, <1>8 DEF Network!IInv

\* A late request arrives.
LEMMA ArrivesKept ==
  ASSUME Network!IInv, Network!Arrives
  PROVE  Network!IInv'
  <1>1. /\ x1.sending \in {"stage", "reload"} /\ x1.task = None /\ x5["request"].pc \in {"pause", "idle"}
        /\ x3.status \notin Network!Unsent /\ UNCHANGED <<x2, x3, x4, x5, x6>>
    BY DEF Network!Arrives, Network!IInv, Network!TypeOK, Network!SendingSound, Network!UnsentSound
  <1>2. /\ x1' \in Nets /\ x1'.sending = None
        /\ x1'.task = IF x1.sending = "reload" THEN "running" ELSE None
        /\ x1'.live = x1.live /\ (x1.sending = "reload" => x1'.pending = x1.pending)
    <2>1. x1 \in Nets /\ Network!Staged \in Network!Configs
      BY StagedTyped DEF Network!IInv, Network!TypeOK, Nets
    <2> QED BY <1>1, <2>1 DEF Network!Arrives, Nets
  <1>3. NodeMoves
    BY <1>1, <1>2, BoundsAssumption, NoneAssumption DEF NodeMoves, Network!IInv, Network!TypeOK, Histories
  <1>4. NoneAppears BY <1>1 DEF NoneAppears
  <1>5. Network!OnlyOursIsApplied' BY <1>1 DEF Network!IInv, Network!OnlyOursIsApplied
  <1>6. Network!ReloadSound'
    <2>1. CASE x1.sending = "reload"
      <3>1. x6.unseen \/ Network!StagedAsReviewed BY <2>1 DEF Network!IInv, Network!ReloadSound
      <3> QED BY <1>1, <1>2, <2>1, <3>1
        DEF Network!ReloadSound, Network!StagedAsReviewed, Network!Rows, Network!Changes, Network!Matches,
          Network!DiffAllowed
    <2>2. CASE x1.sending = "stage"
      BY <1>1, <1>2, <2>2, BoundsAssumption, NoneAssumption DEF Network!ReloadSound
    <2> QED BY <1>1, <2>1, <2>2
  <1> QED BY <1>3, <1>4, <1>5, <1>6, NodeKept

\* What Proxmox applies is what waits.
LEMMA AppliedNode ==
  ASSUME Network!TypeOK, NEW n, n = Network!Applied
  PROVE  n \in Nets /\ n.live = Network!Rows /\ n.pending = None /\ n.sending = x1.sending /\ n.task = x1.task
  <1>1. Network!Rows \in Network!Configs /\ x1 \in Nets BY RowsTyped DEF Network!TypeOK, Nets
  <1> QED BY <1>1 DEF Network!Applied, Nets

\* The task of the reload ends, and may have applied what waited.
LEMMA TaskEndsKept ==
  ASSUME Network!IInv, Network!TaskEnds
  PROVE  Network!IInv'
  <1>1. /\ x1.task = "running" /\ x1.sending = None /\ x5["request"].pc \notin Network!UnloadedPcs
        /\ x3.status \notin Network!Unsent /\ UNCHANGED <<x2, x3, x4, x5>>
        /\ (x6.unseen \/ Network!StagedAsReviewed)
    BY BoundsAssumption, NoneAssumption DEF Network!TaskEnds, Network!IInv, Network!SendingSound,
       Network!UnsentSound, Network!ReloadSound
  <1>2. x1' \in Nets /\ x1'.sending = None /\ x1'.task \in {"ok", "failed"}
    <2>1. CASE x1' = [x1 EXCEPT !.task = "failed"] BY <1>1, <2>1 DEF Network!IInv, Network!TypeOK, Nets
    <2>2. CASE \E end \in {"ok", "failed"} : x1' = [Network!Applied EXCEPT !.task = end]
      <3>1. Network!Applied \in Nets /\ Network!Applied.sending = None BY <1>1, AppliedNode DEF Network!IInv
      <3> QED BY <2>2, <3>1 DEF Nets
    <2> QED BY <2>1, <2>2 DEF Network!TaskEnds
  <1>3. /\ x6' \in Histories /\ x6'.final = x6.final /\ x6'.reloads = x6.reloads
        /\ \/ x6'.applied = x6.applied
           \/ /\ x1.pending # None
              /\ x6'.applied = x6.applied \cup
                   {[from |-> x1.live, to |-> x1.pending, unseen |-> x6.unseen]}
    <2>1. x6 \in Histories BY DEF Network!IInv, Network!TypeOK, Histories
    <2>2. CASE x6' = x6 \/ x1.pending = None BY <2>1, <2>2 DEF Network!TaskEnds, Histories
    <2>3. CASE /\ x1.pending # None
               /\ x6' = [x6 EXCEPT !.applied = @ \cup
                                {[from |-> x1.live, to |-> x1.pending, unseen |-> x6.unseen]}]
      <3>1. x1.live \in Network!Configs /\ x1.pending \in Network!Configs /\ x6.unseen \in BOOLEAN
        BY <2>3 DEF Network!IInv, Network!TypeOK
      <3>2. [from |-> x1.live, to |-> x1.pending, unseen |-> x6.unseen]
              \in [from : Network!Configs, to : Network!Configs, unseen : BOOLEAN]
        BY <3>1
      <3> QED BY <2>1, <2>3, <3>2 DEF Histories
    <2> QED BY <2>2, <2>3 DEF Network!TaskEnds
  <1>4. NodeMoves BY <1>1, <1>2, <1>3, BoundsAssumption, NoneAssumption DEF NodeMoves
  <1>5. NoneAppears BY <1>1 DEF NoneAppears
  <1>6. Network!OnlyOursIsApplied'
    <2>1. ASSUME x1.pending # None, ~x6.unseen
          PROVE  /\ x1.pending.others = x1.live.others
                 /\ x1.pending.bridge # None /\ x1.pending.bridge.set = "wanted"
                 /\ x1.pending.bridge.kept = IF x1.live.bridge = None THEN "own" ELSE x1.live.bridge.kept
      BY <1>1, <2>1 DEF Network!StagedAsReviewed, Network!Rows, Network!Matches, Network!DiffAllowed
    <2> QED BY <1>3, <2>1 DEF Network!IInv, Network!OnlyOursIsApplied
  <1>7. Network!ReloadSound'
    BY <1>1, <1>2, BoundsAssumption, NoneAssumption DEF Network!ReloadSound, Network!UnloadedPcs
  <1> QED BY <1>4, <1>5, <1>6, <1>7, NodeKept

\* What an editor makes of a configuration is one, and shows nothing of ours that was not there.
LEMMA EditedTyped ==
  ASSUME NEW c \in Network!Configs, NEW d \in Network!Edited(c)
  PROVE  d \in Network!Configs /\ (Network!NotWanted(c) => Network!NotWanted(d))
  <1>1. CASE d \in {[c EXCEPT !.others = "foreign"], [c EXCEPT !.others = "before"],
          [c EXCEPT !.bridge = None]}
    BY <1>1 DEF Network!Configs, Network!NotWanted
  <1>2. CASE d \in {[c EXCEPT !.bridge = b] : b \in {x \in Network!Bridges : x.set # "wanted"
                                                       \/ (c.bridge # None /\ c.bridge.set = x.set)}}
    BY <1>2 DEF Network!Configs, Network!NotWanted
  <1> QED BY <1>1, <1>2 DEF Network!Edited

\* Somebody edits, reverts or reloads the node's configuration.
LEMMA EditKept ==
  ASSUME Network!IInv, Network!Edit
  PROVE  Network!IInv'
  <1>1. UNCHANGED <<x2, x3, x4, x5>> BY DEF Network!Edit
  <1>2. /\ x6' \in Histories /\ x6'.final = x6.final /\ x6'.reloads = x6.reloads
        /\ x6'.applied = x6.applied /\ x6'.unseen
    <2>1. x6 \in Histories /\ x6.edits + 1 \in 0..MaxEdits
      BY BoundsAssumption, NoneAssumption DEF Network!Edit, Network!IInv, Network!TypeOK, Histories
    <2> QED BY <2>1 DEF Network!Edit, Histories
  <1> DEFINE Harmless(n) ==
        /\ n \in Nets /\ n.sending = x1.sending /\ n.task = x1.task
        /\ (x3.status \in Network!Unsent => Network!NotWanted(n.live) /\ (n.pending # None
           => Network!NotWanted(n.pending)))
  <1>3. Harmless(x1')
    <2>1. /\ x1 \in Nets /\ Network!Rows \in Network!Configs
          /\ x3.status \in Network!Unsent => Network!NotWanted(x1.live) /\ Network!NotWanted(Network!Rows)
      BY RowsTyped DEF Network!IInv, Network!TypeOK, Nets, Network!UnsentSound, Network!Rows
    <2>2. ASSUME NEW c \in Network!Edited(Network!Rows), x1' = [x1 EXCEPT !.pending = c]
          PROVE  Harmless(x1')
      <3>1. c \in Network!Configs /\ (Network!NotWanted(Network!Rows) => Network!NotWanted(c))
        BY <2>1, EditedTyped
      <3>2. /\ x1' \in Nets /\ x1'.live = x1.live /\ x1'.pending = c
            /\ x1'.sending = x1.sending /\ x1'.task = x1.task
        BY <2>1, <2>2, <3>1 DEF Nets
      <3> QED BY <2>1, <3>1, <3>2
    <2>3. CASE x1' = [x1 EXCEPT !.pending = None]
      <3>1. /\ x1' \in Nets /\ x1'.live = x1.live /\ x1'.pending = None
            /\ x1'.sending = x1.sending /\ x1'.task = x1.task
        BY <2>1, <2>3 DEF Nets
      <3> QED BY <2>1, <3>1
    <2>4. CASE x1' = Network!Applied
      <3>1. /\ x1' \in Nets /\ x1'.live = Network!Rows /\ x1'.pending = None
            /\ x1'.sending = x1.sending /\ x1'.task = x1.task
        BY <2>4, AppliedNode DEF Network!IInv
      <3> QED BY <2>1, <3>1
    <2> QED BY <2>2, <2>3, <2>4 DEF Network!Edit
  <1>4. NodeMoves BY <1>1, <1>2, <1>3 DEF NodeMoves, Network!IInv, Network!SendingSound
  <1>5. NoneAppears BY <1>3 DEF NoneAppears
  <1>6. Network!OnlyOursIsApplied' BY <1>2 DEF Network!IInv, Network!OnlyOursIsApplied
  <1>7. Network!ReloadSound' BY <1>2 DEF Network!ReloadSound
  <1> QED BY <1>4, <1>5, <1>6, <1>7, NodeKept

\* Nothing has happened yet.
LEMMA BridgeInit ==
  ASSUME Network!Init
  PROVE  Network!IInv
  <1>1. /\ x5["request"] = [pc |-> "review", gen |-> 0, staged |-> None]
        /\ x5["handler"] = [pc |-> "idle", gen |-> 0, staged |-> None]
        /\ x5 \in [Network!Actors -> Threads]
    BY BoundsAssumption, NoneAssumption DEF Network!Init, Network!Actors, Threads, Network!RequestPcs
  <1>2. x2 \in Network!Configs /\ Network!NotWanted(x2)
        /\ x1 = [live |-> x2, pending |-> None, sending |-> None, task |-> None]
    BY DEF Network!Init, Network!Configs, Network!Bridges, Network!NotWanted
  <1>3. /\ x3 = [status |-> "none", acked |-> FALSE, reloading |-> FALSE, bound |-> FALSE,
                 staged |-> None, locked |-> FALSE]
        /\ x4 = [status |-> "none", gen |-> 0]
        /\ x6 = [edits |-> 0, unseen |-> FALSE, reloads |-> 0, applied |-> {}, final |-> None]
    BY DEF Network!Init
  <1>4. Network!TypeOK BY <1>1, <1>2, <1>3, BoundsAssumption, NoneAssumption DEF Network!TypeOK, Threads
  <1>5. Network!OnlyOursIsApplied BY <1>3 DEF Network!OnlyOursIsApplied
  <1>6. Network!LeaseSound BY <1>1, <1>3 DEF Network!LeaseSound
  <1>7. Network!EndSound BY <1>1, <1>3 DEF Network!EndSound
  <1>8. Network!UnsentSound BY <1>1, <1>2, <1>3 DEF Network!UnsentSound
  <1>9. Network!SendingSound BY <1>1, <1>2, <1>3, BoundsAssumption, NoneAssumption DEF Network!SendingSound
  <1>10. Network!ReloadSound BY <1>1, <1>2, BoundsAssumption, NoneAssumption DEF Network!ReloadSound
  <1>11. \A a \in Network!Actors : Network!ActorSound(a) /\ ~Network!GivingUp(a)
    BY <1>1 DEF Network!ActorSound, Network!GivingUp, Network!Actors, Network!BoundPcs, Network!SeenPcs
  <1> QED BY <1>1, <1>4, <1>5, <1>6, <1>7, <1>8, <1>9, <1>10, <1>11 DEF Network!IInv

\* Every step.
LEMMA BridgeStep ==
  ASSUME Network!IInv, Network!Next
  PROVE  Network!IInv'
  BY AdmitKept, RecheckKept, BridgeStageKept, AcknowledgeKept, LookStagedKept, CommitVerifiedKept,
     LookLatestKept,
     BindTaskKept, CommitReloadKept, ReloadKept, ReadTaskKept, LookKept, CommitVerifyingKept,
     CommitSuccessKept, PauseKept, RetryKept, CrashKept, BridgeClaimKept, LoadKept, CloseUnsentKept,
       ArrivesKept,
     TaskEndsKept, EditKept
  DEF Network!Next

\* A step of another part, or none.
LEMMA BridgeStutter ==
  ASSUME Network!IInv, UNCHANGED <<x1, x2, x3, x4, x5, x6>>
  PROVE  Network!IInv'
  <1>1. Network!Rows' = Network!Rows /\ Network!TypeOK' /\ Network!OnlyOursIsApplied'
    BY DEF Network!IInv, Network!TypeOK, Network!OnlyOursIsApplied, Network!Rows
  <1>2. Network!LeaseSound' /\ Network!SendingSound'
    BY DEF Network!IInv, Network!LeaseSound, Network!SendingSound
  <1>3. Network!EndSound' /\ (\A b \in Network!Actors : Network!ActorSound(b)')
    BY DEF Network!IInv, Network!EndSound, Network!ActorSound, Network!Matches
  <1>4. Network!UnsentSound' BY DEF Network!IInv, Network!UnsentSound, Network!NotWanted
  <1>5. Network!ReloadSound'
    BY <1>1 DEF Network!IInv, Network!ReloadSound, Network!StagedAsReviewed, Network!Matches, Network!Changes,
       Network!DiffAllowed
  <1>6. \A b \in Network!Actors : Network!GivingUp(b)' => (x3.status = "planned")'
    BY DEF Network!IInv, Network!GivingUp
  <1> QED BY <1>1, <1>2, <1>3, <1>4, <1>5, <1>6 DEF Network!IInv

\* The invariant says what the run checks.
LEMMA BridgeHolds ==
  ASSUME Network!IInv
  PROVE  Network!BridgeInv
  <1>1. Network!TypeOK /\ Network!OnlyOursIsApplied /\ Network!ReloadedAtMostOnce
    BY DEF Network!IInv, Network!ReloadedAtMostOnce, Network!SendingSound
  <1>2. Network!NothingOfOursIsLeft
    <2>1. CASE x3.status \in Network!Unsent
      BY <2>1, BoundsAssumption, NoneAssumption DEF Network!IInv, Network!UnsentSound,
         Network!NothingOfOursIsLeft, Network!NotWanted, Network!Rows
    <2>2. CASE x3.status = "succeeded"
      BY <2>2, BoundsAssumption, NoneAssumption DEF Network!IInv, Network!EndSound, Network!SendingSound,
         Network!NothingOfOursIsLeft
    <2>3. CASE x3.status \notin Network!Unsent /\ x3.status # "succeeded"
      <3>1. x3.locked
        BY <2>3 DEF Network!IInv, Network!EndSound, Network!LeaseSound, Network!Unsent
      <3> QED BY <3>1 DEF Network!NothingOfOursIsLeft
    <2> QED BY <2>1, <2>2, <2>3
  <1>3. Network!SuccessIsReviewed
    BY DEF Network!IInv, Network!EndSound, Network!SuccessIsReviewed, Network!Matches
  <1> QED BY <1>1, <1>2, <1>3 DEF Network!BridgeInv

\* A change of a bridge of a node, of any configuration others edit, revert and reload at any time: the node
\* is reloaded once at most, with what was reviewed unless somebody edited after the last look, success
\* is what was seen applied, and nothing of ours is left on its way (bridge.py, recovery.py).
THEOREM ReloadedOnceAsReviewed == Spec => []BridgeInv
  <1> DEFINE Sound == part = "bridge" => Network!IInv
  <1>1. Init => Sound
    BY BridgeInit DEF Init
  <1>2. ASSUME Sound, [Next]_vars
        PROVE  Sound'
    <2>1. CASE part # "bridge"
      BY <1>2, <2>1 DEF Next, vars
    <2>2. CASE part = "bridge" /\ Next
      <3>1. Network!Next
        BY <2>2 DEF Next
      <3> QED BY <1>2, <2>2, <3>1, BridgeStep DEF Next
    <2>3. CASE part = "bridge" /\ UNCHANGED vars
      <3>1. UNCHANGED <<x1, x2, x3, x4, x5, x6>>
        BY <2>3 DEF vars
      <3> QED BY <1>2, <2>3, <3>1, BridgeStutter DEF vars
    <2> QED BY <1>2, <2>1, <2>2, <2>3
  <1>3. Sound => BridgeInv
    BY BridgeHolds DEF BridgeInv
  <1> QED BY <1>1, <1>2, <1>3, PTL DEF Spec

-----------------------------------------------------------------------------
(* Planning and admission of VM Create. *)

PlanCallRows == [pc : {"idle", "built", "armed", "valid", "created", "done"}, job : Jobs \cup {None},
             asked : Asked \cup {None}, plan : Planning!Plans \cup {None}, seen : Planning!Plans \cup {None},
             ack : BOOLEAN, after : BOOLEAN,
             out : {None, "conflict", "gated", "replayed", "blocked", "changed", "unavailable", "refused",
               "created", "unknown"},
             facts : {None} \cup Planning!Readings \cup [was : Planning!Readings, inv : Planning!Inventories,
               answers : BOOLEAN]]
PlanOpRows == [status : {"none", "blocked", "awaiting_approval", "approved", "dispatching", "running",
  "failed",
                     "succeeded", "needs_reconciliation"}, plan : Planning!Plans \cup {None}]
CreationRows == [status : {"none", "running", "failed", "completed"}, plan : Planning!Plans \cup {None}]

\* The answers of the executions that are done.
ReplayKept(a) ==
  (a.pc = "done" /\ a.after /\ a.out # "replayed") =>
    \/ a.facts.inv.template # x5[a.job].plan.template
    \/ a.asked \notin {None, x5[a.job].plan.vmid}
    \/ a.seen # x5[a.job].plan \/ ~a.ack
CauseKept(a) ==
  (a.pc = "done" /\ a.out = "changed") =>
    \/ a.facts.was.inv.vms # a.facts.inv.vms \/ a.facts.was.inv.template # a.facts.inv.template
    \/ a.facts.was.answers # a.facts.answers

\* The least of the ids that are free.
LEMMA LeastFree ==
  ASSUME NEW S, S \subseteq Nat, S # {}
  PROVE  \E v \in S : \A w \in S : v <= w
  <1>1. IsWellFoundedOn(OpToRel(<,Nat), Nat) BY NatLessThanWellFounded
  <1>2. PICK v \in S : \A w \in S : ~(<<w, v>> \in OpToRel(<,Nat)) BY <1>1, WFMin
  <1>3. \A w \in S : ~(w < v) BY <1>2 DEF OpToRel
  <1> QED BY <1>3

\* A draft has an id.
LEMMA DraftIsVmid ==
  ASSUME Planning!TypeOK, NEW asked \in Asked, asked # None \/ x1.vms # Vmids
  PROVE  Planning!DraftVmid(asked) \in Vmids
  <1>1. CASE asked # None BY <1>1, PlanningAssumption DEF Planning!DraftVmid
  <1>2. CASE asked = None
    <2>1. Vmids \ x1.vms # {} BY <1>2 DEF Planning!TypeOK
    <2>2. \E v \in Vmids \ x1.vms : \A w \in Vmids \ x1.vms : v <= w
      BY <2>1, LeastFree, PlanningAssumption
    <2>3. Planning!Free \in Vmids BY <2>2 DEF Planning!Free
    <2> QED BY <1>2, <2>3 DEF Planning!DraftVmid
  <1> QED BY <1>1, <1>2

\* A plan shows what it was calculated from, but for the guest agents.
LEMMA PlanIsCalculated ==
  ASSUME NEW j, NEW v, NEW inv, inv.guests \in BOOLEAN, inv.whole \in BOOLEAN, x1.answers \in BOOLEAN
  PROVE  Planning!PlanOf(j, v, inv) = Planning!Calculated(j, v, [inv |-> inv, answers |-> x1.answers])
  <1> DEFINE t == Planning!TargetRisks(v, inv)
             a == Planning!AddressRisks(x1.answers)
             h == IF inv.whole THEN {} ELSE {"inventory_incomplete"}
             r == Planning!Risks(v, inv)
  <1>1. r = t \cup Planning!SourceRisks(inv) \cup a BY DEF Planning!Risks
  <1>2. t = IF v \in inv.vms THEN {"vmid_collision"} ELSE {} BY DEF Planning!TargetRisks
  <1>3. a = {IF x1.answers THEN "static_ip_unavailable" ELSE "static_ip_usage_unverified"}
    BY DEF Planning!AddressRisks
  <1>4. Planning!SourceRisks(inv) \in {h, {"guest_agent_incomplete"} \cup h} BY DEF Planning!SourceRisks
  <1>5. Planning!Listed(r) = t \cup h \cup a BY <1>1, <1>2, <1>3, <1>4 DEF Planning!Listed
  <1>6. Planning!Level(r) = IF v \in inv.vms \/ x1.answers \/ ~inv.whole THEN "red" ELSE "yellow"
    <2>1. r \cap Planning!Red # {} <=> (v \in inv.vms \/ x1.answers \/ ~inv.whole)
      BY <1>1, <1>2, <1>3, <1>4 DEF Planning!Red
    <2>2. r # {} BY <1>1, <1>3
    <2> QED BY <2>1, <2>2 DEF Planning!Level
  <1>7. Planning!PlanOf(j, v, inv) = [job |-> j, vmid |-> v, template |-> inv.template,
          level |-> Planning!Level(r), risks |-> Planning!Listed(r)]
    BY DEF Planning!PlanOf, Planning!TemplateOf
  <1> HIDE DEF r, t, a, h
  <1>8. Planning!Listed(r) = (IF v \in inv.vms THEN {"vmid_collision"} ELSE {})
                               \cup (IF inv.whole THEN {} ELSE {"inventory_incomplete"})
                               \cup Planning!AddressRisks(x1.answers)
    BY <1>2, <1>5 DEF a, h
  <1> QED BY <1>6, <1>7, <1>8 DEF Planning!Calculated

\* A calculated plan is one, and never without a risk.
LEMMA CalculatedIsPlan ==
  ASSUME NEW j \in Jobs, NEW v \in Vmids, NEW f \in Planning!Readings
  PROVE  /\ Planning!Calculated(j, v, f) \in Planning!Plans
         /\ Planning!Calculated(j, v, f).level \in {"red", "yellow"}
         /\ Planning!Calculated(j, v, f).level # "red"
            => Planning!Calculated(j, v, f).risks \cap Planning!Red = {}
  <1>1. f.inv.template \in Templates /\ f.inv.vms \subseteq Vmids /\ f.answers \in BOOLEAN
    BY DEF Planning!Readings, Planning!Inventories
  <1>2. Planning!AddressRisks(f.answers) \subseteq {"static_ip_unavailable", "static_ip_usage_unverified"}
    BY <1>1 DEF Planning!AddressRisks
  <1>3. Planning!Calculated(j, v, f).risks \subseteq Planning!Red \cup {"static_ip_usage_unverified"}
    BY <1>2 DEF Planning!Calculated, Planning!Red
  <1>4. Planning!Calculated(j, v, f) \in Planning!Plans
    BY <1>1, <1>3 DEF Planning!Calculated, Planning!Plans
  <1> QED BY <1>1, <1>4 DEF Planning!Calculated, Planning!AddressRisks, Planning!Red

\* What the invariant says of one execution.
ExecutionGood(a) == Planning!CallSound(a) /\ ReplayKept(a) /\ CauseKept(a)

\* The invariant, taken apart and put together again.
LEMMA PlanningRows ==
  ASSUME Planning!IInv
  PROVE  /\ x4 \in [Jobs -> PlanOpRows] /\ x5 \in [Jobs -> CreationRows] /\ x7 \in [Calls -> PlanCallRows]
         /\ \A c \in Calls : ExecutionGood(x7[c])
  <1>1. x4 \in [Jobs -> PlanOpRows] /\ x5 \in [Jobs -> CreationRows] /\ x7 \in [Calls -> PlanCallRows]
    BY DEF Planning!IInv, Planning!TypeOK, PlanOpRows, CreationRows, PlanCallRows
  <1>2. \A c \in Calls : ReplayKept(x7[c]) BY DEF Planning!IInv, Planning!CompletedIsReplayed, ReplayKept
  <1>3. \A c \in Calls : CauseKept(x7[c]) BY DEF Planning!IInv, Planning!RefusedForCause, CauseKept
  <1> QED BY <1>1, <1>2, <1>3 DEF Planning!IInv, ExecutionGood

\* What has to be shown of a step.
LEMMA PlanningNext ==
  ASSUME x1' \in [vms : SUBSET Vmids, template : Templates, guests : BOOLEAN, answers : BOOLEAN],
         x2' \in Planning!Inventories, x3' \subseteq Planning!Plans,
         x4' \in [Jobs -> PlanOpRows], x5' \in [Jobs -> CreationRows], x6' \in [Vmids -> Jobs \cup {None}],
         x7' \in [Calls -> PlanCallRows], \A s \in x8' : s.job \in Jobs /\ s.plan \in Planning!Plans,
         \A c \in Calls : ExecutionGood(x7[c])', \A j \in Jobs : Planning!OpSound(j)',
         (Planning!LocksSound /\ Planning!OneAtATime /\ Planning!DispatchIsReviewed)'
  PROVE  Planning!IInv'
  <1>1. Planning!TypeOK' BY DEF Planning!TypeOK, PlanOpRows, CreationRows, PlanCallRows
  <1>2. Planning!CompletedIsReplayed' BY DEF Planning!CompletedIsReplayed, ExecutionGood, ReplayKept
  <1>3. Planning!RefusedForCause' BY DEF Planning!RefusedForCause, ExecutionGood, CauseKept
  <1> QED BY <1>1, <1>2, <1>3 DEF Planning!IInv, ExecutionGood

\* An execution stays where it is while a creation it has nothing to do with moves on.
Elsewhere(a) ==
  /\ a.pc \in Planning!Active => /\ x4'[a.job] = x4[a.job] /\ x5'[a.job] = x5[a.job]
                        /\ \A s \in x8' : s.job = a.job => s \in x8
  /\ (a.pc \in {"built", "done"} /\ a.after /\ Planning!Completed(a.job)) => x5'[a.job] = x5[a.job]
\* What is said of it stays true.
LEMMA PlanOthersKept ==
  ASSUME Planning!IInv, x3 \subseteq x3', NEW d \in Calls, x7'[d] = x7[d], Elsewhere(x7[d])
  PROVE  ExecutionGood(x7[d])'
  <1>1. ExecutionGood(x7[d]) BY PlanningRows
  <1>2. Planning!CallSound(x7[d])'
    BY <1>1 DEF ExecutionGood, Elsewhere, Planning!CallSound, Planning!Completed, Planning!Active,
       Planning!Calculated, Planning!AddressRisks
  <1>3. ReplayKept(x7[d])' BY <1>1 DEF ExecutionGood, Elsewhere, Planning!CallSound, ReplayKept
  <1>4. CauseKept(x7[d])' BY <1>1 DEF ExecutionGood, CauseKept
  <1> QED BY <1>2, <1>3, <1>4 DEF ExecutionGood

\* Operations change only before anything is requested, and executions that move do not go on to send.
EarlyOps ==
  /\ x4' \in [Jobs -> PlanOpRows]
  /\ \A j \in Jobs :
       \/ x4'[j] = x4[j]
       \/ /\ x5[j].status = "none" /\ x4'[j].status \in Planning!Early
          /\ x4'[j].status # "none" => x4'[j].plan \in Planning!Plans
CallsMove ==
  /\ x7' \in [Calls -> PlanCallRows]
  /\ \A d \in Calls : x7'[d] = x7[d] \/ (x7'[d].pc \notin Planning!Active /\ ExecutionGood(x7[d])')
\* Such a step keeps the invariant.
LEMMA PlanEarlyKept ==
  ASSUME Planning!IInv, EarlyOps, CallsMove, UNCHANGED <<x1, x2, x5, x6, x8>>,
         x3 \subseteq x3', x3' \subseteq Planning!Plans
  PROVE  Planning!IInv'
  <1>1. /\ x4' \in [Jobs -> PlanOpRows] /\ x7' \in [Calls -> PlanCallRows]
        /\ \A j \in Jobs : x4'[j] = x4[j] \/ x5[j].status = "none"
    BY DEF EarlyOps, CallsMove
  <1>2. /\ x4 \in [Jobs -> PlanOpRows] /\ x5 \in [Jobs -> CreationRows] /\ x7 \in [Calls -> PlanCallRows]
        /\ \A c \in Calls : ExecutionGood(x7[c])
    BY PlanningRows
  <1>3. \A j \in Jobs : Planning!OpSound(j)'
    BY <1>2 DEF EarlyOps, Planning!IInv, Planning!OpSound, Planning!Early
  <1>4. \A d \in Calls : ExecutionGood(x7[d])'
    <2>1. ASSUME NEW d \in Calls, x7'[d] = x7[d] PROVE ExecutionGood(x7[d])'
      <3>1. CASE x7[d].pc \in Planning!Active
        <4>1. x7[d].job \in Jobs /\ ~x7[d].after /\ x4[x7[d].job].status \in {"running", "dispatching"}
          BY <1>2, <3>1 DEF ExecutionGood, Planning!CallSound, Planning!Active
        <4>2. x5[x7[d].job].status # "none" BY <4>1 DEF Planning!IInv, Planning!OpSound, Planning!Early
        <4>3. x4'[x7[d].job] = x4[x7[d].job] BY <1>1, <4>1, <4>2
        <4>4. Elsewhere(x7[d]) BY <4>1, <4>3 DEF Elsewhere
        <4> QED BY <2>1, <4>4, PlanOthersKept
      <3>2. CASE x7[d].pc \notin Planning!Active
        <4>1. Elsewhere(x7[d]) BY <3>2 DEF Elsewhere
        <4> QED BY <2>1, <4>1, PlanOthersKept
      <3> QED BY <3>1, <3>2
    <2> QED BY <2>1 DEF CallsMove
  <1>5. Planning!OneAtATime' BY <1>2 DEF CallsMove, Planning!IInv, Planning!OneAtATime
  <1>6. Planning!LocksSound' BY DEF Planning!IInv, Planning!LocksSound
  <1>7. Planning!DispatchIsReviewed'
    <2>1. \A s \in x8 : x4'[s.job] = x4[s.job] BY <1>1 DEF Planning!IInv, Planning!OneAtATime, Planning!TypeOK
    <2> QED BY <2>1 DEF Planning!IInv, Planning!DispatchIsReviewed
  <1> QED BY <1>1, <1>2, <1>3, <1>4, <1>5, <1>6, <1>7, PlanningNext DEF Planning!IInv, Planning!TypeOK

\* What planning makes of an operation.
LEMMA PreparedEarly ==
  ASSUME Planning!IInv, NEW j \in Jobs, NEW plan \in Planning!Plans, Planning!SamePlan(j, plan), NEW o,
         o \in {Planning!Prepared(j, plan), Planning!Approved(Planning!Prepared(j, plan))},
         x4' = [x4 EXCEPT ![j] = o]
  PROVE  EarlyOps
  <1>1. x4 \in [Jobs -> PlanOpRows] /\ Planning!OpSound(j) BY PlanningRows DEF Planning!IInv
  <1>2. CASE x4[j].status = "none"
    <2>1. /\ Planning!Prepared(j, plan) \in PlanOpRows
          /\ Planning!Prepared(j, plan).status \in {"blocked", "awaiting_approval"}
          /\ Planning!Prepared(j, plan).plan = plan
      BY <1>2 DEF Planning!Prepared, PlanOpRows
    <2>2. o \in PlanOpRows /\ o.status \in {"blocked", "awaiting_approval", "approved"} /\ o.plan = plan
      BY <2>1 DEF Planning!Approved, PlanOpRows
    <2>3. x4'[j] = o /\ x4' \in [Jobs -> PlanOpRows] /\ \A k \in Jobs : k # j => x4'[k] = x4[k]
      BY <1>1, <2>2
    <2>4. x5[j].status = "none" BY <1>1, <1>2 DEF Planning!OpSound, Planning!Early
    <2> QED BY <2>2, <2>3, <2>4 DEF EarlyOps, Planning!Early
  <1>3. CASE x4[j].status # "none"
    <2>1. Planning!Prepared(j, plan) = x4[j] BY <1>3 DEF Planning!Prepared
    <2>2. /\ o \in PlanOpRows
          /\ \/ o = x4[j]
             \/ x4[j].status = "awaiting_approval" /\ o.status = "approved" /\ o.plan = x4[j].plan
      BY <1>1, <2>1 DEF Planning!Approved, PlanOpRows
    <2>3. x4'[j] = o /\ x4' \in [Jobs -> PlanOpRows] /\ \A k \in Jobs : k # j => x4'[k] = x4[k]
      BY <1>1, <2>2
    <2>4. x4[j].status = "awaiting_approval" => x5[j].status = "none"
      BY <1>1 DEF Planning!OpSound, Planning!Early
    <2> QED BY <1>1, <1>3, <2>2, <2>3, <2>4 DEF EarlyOps, Planning!Early, Planning!OpSound
  <1> QED BY <1>2, <1>3

\* The plan of a draft over the cached inventory.
LEMMA DraftIsPlan ==
  ASSUME Planning!IInv, NEW j \in Jobs, NEW v \in Vmids
  PROVE  /\ Planning!Facts \in Planning!Readings
         /\ Planning!PlanOf(j, v, x2) = Planning!Calculated(j, v, Planning!Facts)
         /\ Planning!PlanOf(j, v, x2) \in Planning!Plans
  <1>1. Planning!Facts \in Planning!Readings
    BY DEF Planning!IInv, Planning!TypeOK, Planning!Facts, Planning!Readings
  <1>2. Planning!PlanOf(j, v, x2) = Planning!Calculated(j, v, Planning!Facts)
    BY PlanIsCalculated DEF Planning!IInv, Planning!TypeOK, Planning!Facts, Planning!Inventories
  <1> QED BY <1>1, <1>2, CalculatedIsPlan

\* No execution moves.
LEMMA CallsStill ==
  ASSUME Planning!IInv, x7' = x7
  PROVE  CallsMove
  BY PlanningRows DEF CallsMove

\* A plan is shown.
LEMMA PlanDraftKept ==
  ASSUME Planning!IInv, NEW j \in Jobs, NEW asked \in Asked, Planning!PlanDraft(j, asked)
  PROVE  Planning!IInv'
  <1> DEFINE plan == Planning!PlanOf(j, Planning!DraftVmid(asked), x2)
  <1>1. /\ Planning!SamePlan(j, plan) /\ x4' = [x4 EXCEPT ![j] = Planning!Prepared(j, plan)]
        /\ x3' = x3 \cup {plan}
        /\ (asked # None \/ x1.vms # Vmids) /\ UNCHANGED <<x1, x2, x5, x6, x7, x8>>
    BY DEF Planning!PlanDraft
  <1>2. plan \in Planning!Plans BY <1>1, DraftIsVmid, DraftIsPlan DEF Planning!IInv
  <1> HIDE DEF plan
  <1>3. EarlyOps BY <1>1, <1>2, PreparedEarly
  <1>4. x3' \subseteq Planning!Plans BY <1>1, <1>2 DEF Planning!IInv, Planning!TypeOK
  <1> QED BY <1>1, <1>3, <1>4, CallsStill, PlanEarlyKept

\* A plan is approved ahead of its execution.
LEMMA ApproveDraftKept ==
  ASSUME Planning!IInv, NEW j \in Jobs, NEW asked \in Asked, NEW seen, NEW ack,
         Planning!ApproveDraft(j, asked, seen, ack)
  PROVE  Planning!IInv'
  <1> DEFINE plan == Planning!PlanOf(j, Planning!DraftVmid(asked), x2)
             o == IF Planning!Passes(plan, seen, ack) THEN Planning!Approved(Planning!Prepared(j, plan))
               ELSE Planning!Prepared(j, plan)
  <1>1. /\ Planning!SamePlan(j, plan) /\ x4' = [x4 EXCEPT ![j] = o]
        /\ (asked # None \/ x1.vms # Vmids) /\ UNCHANGED <<x1, x2, x3, x5, x6, x7, x8>>
    BY DEF Planning!ApproveDraft
  <1>2. plan \in Planning!Plans BY <1>1, DraftIsVmid, DraftIsPlan DEF Planning!IInv
  <1>3. o \in {Planning!Prepared(j, plan), Planning!Approved(Planning!Prepared(j, plan))} OBVIOUS
  <1> HIDE DEF plan, o
  <1>4. EarlyOps BY <1>1, <1>2, <1>3, PreparedEarly
  <1> QED BY <1>1, <1>4, CallsStill, PlanEarlyKept DEF Planning!IInv, Planning!TypeOK

\* One execution moves, and does not go on to send.
LEMMA CallMoves ==
  ASSUME Planning!IInv, NEW c \in Calls, NEW a \in PlanCallRows, x7' = [x7 EXCEPT ![c] = a],
         a.pc \notin Planning!Active, ExecutionGood(x7[c])'
  PROVE  CallsMove
  <1>1. x7 \in [Calls -> PlanCallRows] BY PlanningRows
  <1>2. x7' \in [Calls -> PlanCallRows] /\ x7'[c] = a /\ \A d \in Calls : d # c => x7'[d] = x7[d]
    BY <1>1
  <1> QED BY <1>2 DEF CallsMove

\* An execution has its plan calculated, or is answered with what is there.
LEMMA BuildKept ==
  ASSUME Planning!IInv, NEW c \in Calls, NEW j \in Jobs, NEW asked \in Asked,
         NEW seen \in Planning!Reviews(j),
         NEW ack \in BOOLEAN, Planning!Build(c, j, asked, seen, ack),
         asked # None \/ x1.vms # Vmids \/ Planning!Completed(j)
  PROVE  Planning!IInv'
  <1> DEFINE v == IF asked = None /\ Planning!Completed(j) THEN x5[j].plan.vmid ELSE Planning!DraftVmid(asked)
             plan == Planning!PlanOf(j, v, x2)
             kept == IF Planning!Completed(j) THEN x5[j].plan ELSE plan
             off == Planning!Completed(j) /\ ~Planning!ReplayMatches(j, plan)
             a == [pc |-> IF off THEN "done" ELSE "built",
                   job |-> j, asked |-> asked, plan |-> kept, seen |-> seen, ack |-> ack,
                     after |-> Planning!Completed(j),
                   out |-> IF off THEN "conflict" ELSE None, facts |-> Planning!Facts]
  <1>1. x7' = [x7 EXCEPT ![c] = a] /\ UNCHANGED <<x1, x2, x3, x4, x5, x6, x8>>
    BY DEF Planning!Build
  <1>2. x5[j].status = "completed" => x5[j].plan \in Planning!Plans
    BY DEF Planning!IInv, Planning!OpSound, Planning!TypeOK
  <1>3. v \in Vmids
    <2>1. CASE asked = None /\ Planning!Completed(j) BY <1>2, <2>1 DEF Planning!Completed, Planning!Plans
    <2>2. CASE ~(asked = None /\ Planning!Completed(j)) BY <2>2, DraftIsVmid DEF Planning!IInv
    <2> QED BY <2>1, <2>2
  <1>4. plan \in Planning!Plans /\ plan = Planning!Calculated(j, v, Planning!Facts)
          /\ Planning!Facts \in Planning!Readings
    BY <1>3, DraftIsPlan
  <1>5. plan.vmid = v /\ plan.template = Planning!Facts.inv.template BY <1>4 DEF Planning!Calculated
  <1>6. kept \in Planning!Plans BY <1>2, <1>4 DEF Planning!Completed
  <1>7. seen \in x3 /\ seen \in Planning!Plans BY DEF Planning!Reviews, Planning!IInv, Planning!TypeOK
  <1>8. off => \/ Planning!Facts.inv.template # x5[j].plan.template
               \/ asked \notin {None, x5[j].plan.vmid}
    <2>1. ASSUME off, Planning!Facts.inv.template = x5[j].plan.template
            PROVE asked \notin {None, x5[j].plan.vmid}
      <3>1. v # x5[j].plan.vmid BY <1>5, <2>1 DEF Planning!ReplayMatches
      <3>2. asked # None /\ v = Planning!DraftVmid(asked) BY <2>1, <3>1
      <3> QED BY <3>1, <3>2 DEF Planning!DraftVmid
    <2> QED BY <2>1
  <1>9. Planning!Completed(j) => kept = x5[j].plan OBVIOUS
  <1>10. ~Planning!Completed(j) => kept = plan /\ kept.vmid = v BY <1>5
  <1>11. off \in BOOLEAN /\ (off => Planning!Completed(j)) /\ Planning!Completed(j) \in BOOLEAN
    BY DEF Planning!Completed
  <1> HIDE DEF v, plan, kept, off
  <1>12. a \in PlanCallRows /\ a.pc \notin Planning!Active
    BY <1>4, <1>6, <1>7, <1>11 DEF PlanCallRows, Planning!Active
  <1>13. /\ a.pc = (IF off THEN "done" ELSE "built") /\ a.job = j /\ a.asked = asked /\ a.plan = kept
         /\ a.seen = seen /\ a.ack = ack /\ a.after = Planning!Completed(j) /\ a.facts = Planning!Facts
         /\ a.out = (IF off THEN "conflict" ELSE None)
    OBVIOUS
  <1> HIDE DEF a
  <1>14. x7'[c] = a BY <1>1, PlanningRows
  <1>15. ExecutionGood(x7[c])'
    <2>1. Planning!CallSound(x7[c])'
      <3>1. ~Planning!Completed(j) => Planning!Facts \in Planning!Readings
              /\ kept = Planning!Calculated(j, kept.vmid, Planning!Facts)
        BY <1>4, <1>10
      <3>2. Planning!Completed(j)' = Planning!Completed(j) /\ x5' = x5 /\ x3' = x3
        BY <1>1 DEF Planning!Completed
      <3>3. (Planning!Calculated(x7[c].job, x7[c].plan.vmid, x7[c].facts))' = Planning!Calculated(j,
              kept.vmid, Planning!Facts)
        BY <1>13, <1>14 DEF Planning!Calculated, Planning!AddressRisks
      <3>4. Planning!Completed(x7[c].job)' = Planning!Completed(j)
        BY <1>13, <1>14, <3>2 DEF Planning!Completed
      <3> QED
        BY <1>6, <1>7, <1>9, <1>11, <1>13, <1>14, <3>1, <3>2, <3>3, <3>4 DEF Planning!CallSound,
           Planning!Active
    <2>2. ReplayKept(x7[c])' BY <1>1, <1>8, <1>13, <1>14 DEF ReplayKept
    <2>3. CauseKept(x7[c])' BY <1>13, <1>14 DEF CauseKept
    <2> QED BY <2>1, <2>2, <2>3 DEF ExecutionGood
  <1>16. CallsMove BY <1>1, <1>12, <1>15, CallMoves
  <1>17. EarlyOps BY <1>1, PlanningRows DEF EarlyOps
  <1> QED BY <1>1, <1>16, <1>17, PlanEarlyKept DEF Planning!IInv, Planning!TypeOK

\* An execution is over.
LEMMA ReturnKept ==
  ASSUME Planning!IInv, NEW c \in Calls, Planning!Return(c)
  PROVE  Planning!IInv'
  <1>1. x7' = [x7 EXCEPT ![c] = Planning!NoCall] /\ UNCHANGED <<x1, x2, x3, x4, x5, x6, x8>>
    BY DEF Planning!Return
  <1>2. Planning!NoCall \in PlanCallRows /\ Planning!NoCall.pc = "idle" BY DEF Planning!NoCall, PlanCallRows
  <1>3. x7'[c] = Planning!NoCall BY <1>1, PlanningRows
  <1>4. ExecutionGood(x7[c])'
    BY <1>2, <1>3 DEF ExecutionGood, Planning!CallSound, ReplayKept, CauseKept, Planning!Active
  <1>5. CallsMove BY <1>1, <1>2, <1>4, CallMoves DEF Planning!Active
  <1>6. EarlyOps BY <1>1, PlanningRows DEF EarlyOps
  <1> QED BY <1>1, <1>5, <1>6, PlanEarlyKept DEF Planning!IInv, Planning!TypeOK

\* How an execution ends.
LEMMA EndRows ==
  ASSUME Planning!IInv, NEW c \in Calls,
         NEW out \in {"conflict", "gated", "replayed", "blocked", "refused", "created", "unknown"},
           Planning!End(c, out)
  PROVE  /\ x7' \in [Calls -> PlanCallRows] /\ \A d \in Calls : d # c => x7'[d] = x7[d]
         /\ x7'[c].pc = "done" /\ x7'[c].out = out /\ x7'[c].after = x7[c].after
         /\ x7[c].after => /\ x7'[c].job = x7[c].job /\ x7'[c].asked = x7[c].asked
                             /\ x7'[c].seen = x7[c].seen /\ x7'[c].ack = x7[c].ack
                             /\ x7'[c].facts = x7[c].facts
  <1> DEFINE a == IF x7[c].after THEN [x7[c] EXCEPT !.pc = "done", !.out = out]
                  ELSE [Planning!NoCall EXCEPT !.pc = "done", !.out = out]
  <1>1. x7 \in [Calls -> PlanCallRows] BY PlanningRows
  <1>2. x7' = [x7 EXCEPT ![c] = a] BY <1>1 DEF Planning!End
  <1>3. CASE x7[c].after
    <2>1. a = [x7[c] EXCEPT !.pc = "done", !.out = out] BY <1>3
    <2>2. /\ a \in PlanCallRows /\ a.pc = "done" /\ a.out = out /\ a.after = x7[c].after
          /\ a.job = x7[c].job /\ a.asked = x7[c].asked /\ a.seen = x7[c].seen /\ a.ack = x7[c].ack
          /\ a.facts = x7[c].facts
      <3> DEFINE z == x7[c]
      <3>1. z \in PlanCallRows BY <1>1
      <3> HIDE DEF z
      <3>2. [z EXCEPT !.pc = "done", !.out = out] \in PlanCallRows BY <3>1 DEF PlanCallRows
      <3>3. /\ [z EXCEPT !.pc = "done", !.out = out].pc = "done"
            /\ [z EXCEPT !.pc = "done", !.out = out].out = out
            /\ \A f \in {"after", "job", "asked", "seen", "ack", "facts"} :
                 [z EXCEPT !.pc = "done", !.out = out][f] = z[f]
        BY <3>1 DEF PlanCallRows
      <3> QED BY <2>1, <3>2, <3>3 DEF z
    <2> HIDE DEF a
    <2> QED BY <1>1, <1>2, <2>2
  <1>4. CASE ~x7[c].after
    <2>1. a = [Planning!NoCall EXCEPT !.pc = "done", !.out = out] BY <1>4
    <2>2. a \in PlanCallRows /\ a.pc = "done" /\ a.out = out /\ a.after = FALSE
      BY <2>1 DEF PlanCallRows, Planning!NoCall
    <2>3. x7[c].after = FALSE BY <1>1, <1>4 DEF PlanCallRows
    <2> HIDE DEF a
    <2> QED BY <1>1, <1>2, <2>2, <2>3
  <1> QED BY <1>3, <1>4

\* What is said of the execution that ends.
LEMMA EndGood ==
  ASSUME Planning!IInv, NEW c \in Calls,
         NEW out \in {"conflict", "gated", "replayed", "blocked", "refused", "created", "unknown"},
           Planning!End(c, out),
         x7[c].after =>
           /\ x7[c].job \in Jobs /\ Planning!Completed(x7[c].job) /\ x5'[x7[c].job] = x5[x7[c].job]
           /\ \/ out = "replayed"
              \/ x7[c].seen # x5[x7[c].job].plan \/ ~x7[c].ack
  PROVE  ExecutionGood(x7[c])'
  <1>1. /\ x7'[c].pc = "done" /\ x7'[c].out = out /\ x7'[c].after = x7[c].after
        /\ x7[c].after => /\ x7'[c].job = x7[c].job /\ x7'[c].asked = x7[c].asked
                            /\ x7'[c].seen = x7[c].seen /\ x7'[c].ack = x7[c].ack
                            /\ x7'[c].facts = x7[c].facts
    BY EndRows
  <1>2. Planning!CallSound(x7[c])' BY <1>1 DEF Planning!CallSound, Planning!Active, Planning!Completed
  <1>3. ReplayKept(x7[c])' BY <1>1 DEF ReplayKept
  <1>4. CauseKept(x7[c])' BY <1>1 DEF CauseKept
  <1> QED BY <1>2, <1>3, <1>4 DEF ExecutionGood

\* An execution takes creation j a step further.
TakesOn(c, j) ==
  /\ x4' \in [Jobs -> PlanOpRows] /\ x5' \in [Jobs -> CreationRows] /\ x6' \in [Vmids -> Jobs \cup {None}]
  /\ x7' \in [Calls -> PlanCallRows]
  /\ x1' \in [vms : SUBSET Vmids, template : Templates, guests : BOOLEAN, answers : BOOLEAN]
  /\ UNCHANGED <<x2, x3>>
  /\ \A k \in Jobs : k # j => x4'[k] = x4[k] /\ x5'[k] = x5[k]
  /\ \A d \in Calls : d # c => x7'[d] = x7[d]
  /\ \A w \in Vmids : w # x5'[j].plan.vmid => x6'[w] = x6[w]
  /\ x5'[j].plan \in Planning!Plans
  /\ x6'[x5'[j].plan.vmid] = IF x5'[j].status = "running" THEN j ELSE None
  /\ x7'[c].pc \in Planning!Active => x7'[c].job = j

\* It may: it is the only one that works on the creation, and the VMID is the creation's or free.
OwnsCreation(c, j) ==
  /\ ~Planning!Completed(j)
  /\ \A d \in Calls : (d # c /\ x7[d].pc \in Planning!Active) => x7[d].job # j
  /\ x5[j].status = "running" => x5[j].plan.vmid = x5'[j].plan.vmid
  /\ \A k \in Jobs : k # j => x6[x5'[j].plan.vmid] # k

SendsCreation(j) ==
  /\ \A s \in x8' : s \in x8 \/ (s.job = j /\ s.plan \in Planning!Plans)
  /\ \A s \in x8' : x5'[s.job].status # "none"
  /\ \A s, t \in x8' : s.job = t.job => s = t
  /\ Planning!DispatchIsReviewed'

\* Such a step keeps the invariant.
LEMMA PlanWorkKept ==
  ASSUME Planning!IInv, NEW c \in Calls, NEW j \in Jobs, TakesOn(c, j), OwnsCreation(c, j), SendsCreation(j),
         Planning!OpSound(j)', ExecutionGood(x7[c])'
  PROVE  Planning!IInv'
  <1>1. \A d \in Calls : ExecutionGood(x7[d])'
    <2>1. ASSUME NEW d \in Calls, d # c PROVE ExecutionGood(x7[d])'
      <3>1. ExecutionGood(x7[d]) BY PlanningRows
      <3>2. Elsewhere(x7[d])
        <4>1. CASE x7[d].pc \in Planning!Active
          <5>1. x7[d].job \in Jobs /\ x7[d].job # j /\ ~x7[d].after
            BY <2>1, <3>1, <4>1 DEF OwnsCreation, ExecutionGood, Planning!CallSound
          <5> QED BY <5>1 DEF TakesOn, Elsewhere, SendsCreation
        <4>2. CASE x7[d].pc \notin Planning!Active
          <5>1. x7[d].after /\ Planning!Completed(x7[d].job) /\ x7[d].job \in Jobs =>
                  x5'[x7[d].job] = x5[x7[d].job]
            BY DEF OwnsCreation, TakesOn
          <5>2. Planning!Completed(x7[d].job) => x7[d].job # j BY DEF OwnsCreation, Planning!Completed
          <5>3. x7[d].pc \in {"built", "done"} /\ x7[d].after => x7[d].job \in Jobs
            BY <3>1 DEF ExecutionGood, Planning!CallSound
          <5> QED BY <4>2, <5>1, <5>2, <5>3 DEF Elsewhere
        <4> QED BY <4>1, <4>2
      <3> QED BY <2>1, <3>2, PlanOthersKept DEF TakesOn
    <2> QED BY <2>1
  <1>2. \A k \in Jobs : Planning!OpSound(k)' BY DEF Planning!IInv, Planning!OpSound, TakesOn
  <1>3. Planning!LocksSound'
    <2> DEFINE v == x5'[j].plan.vmid
    <2>1. v \in Vmids BY DEF TakesOn, Planning!Plans
    <2>2. ASSUME NEW w \in Vmids, NEW k \in Jobs, k # j
          PROVE  x6'[w] = k <=> (x5'[k].status = "running" /\ x5'[k].plan.vmid = w)
      <3>1. x5'[k] = x5[k] BY <2>2 DEF TakesOn
      <3>2. x6[w] = k <=> (x5[k].status = "running" /\ x5[k].plan.vmid = w)
        BY DEF Planning!IInv, Planning!LocksSound
      <3>3. CASE w # v BY <3>1, <3>2, <3>3 DEF TakesOn
      <3>4. CASE w = v
        <4>1. x6[w] # k BY <2>2, <3>4 DEF OwnsCreation
        <4>2. x6'[w] # k BY <2>2, <3>4, PlanningAssumption DEF TakesOn
        <4> QED BY <3>1, <3>2, <4>1, <4>2
      <3> QED BY <3>3, <3>4
    <2>3. ASSUME NEW w \in Vmids
          PROVE  x6'[w] = j <=> (x5'[j].status = "running" /\ v = w)
      <3>1. CASE w = v BY <3>1, PlanningAssumption DEF TakesOn
      <3>2. CASE w # v
        <4>1. x6'[w] = x6[w] BY <3>2 DEF TakesOn
        <4>2. x6[w] = j => x5[j].status = "running" /\ x5[j].plan.vmid = w
          BY DEF Planning!IInv, Planning!LocksSound
        <4> QED BY <3>2, <4>1, <4>2 DEF OwnsCreation
      <3> QED BY <3>1, <3>2
    <2> QED BY <2>2, <2>3 DEF Planning!LocksSound
  <1>4. Planning!OneAtATime'
    <2>1. ASSUME NEW d \in Calls, NEW e \in Calls, d # e, x7'[d].pc \in Planning!Active,
            x7'[e].pc \in Planning!Active
          PROVE  x7'[d].job # x7'[e].job
      BY <2>1 DEF TakesOn, OwnsCreation, Planning!IInv, Planning!OneAtATime
    <2>2. \A d, e \in Calls : (d # e /\ {x7'[d].pc, x7'[e].pc} \subseteq Planning!Active)
            => x7'[d].job # x7'[e].job
      BY <2>1
    <2> QED BY <2>2 DEF Planning!OneAtATime, SendsCreation
  <1>5. \A s \in x8' : s.job \in Jobs /\ s.plan \in Planning!Plans
    BY DEF SendsCreation, Planning!IInv, Planning!TypeOK
  <1>6. x3' \subseteq Planning!Plans /\ x2' \in Planning!Inventories
    BY DEF TakesOn, Planning!IInv, Planning!TypeOK
  <1> QED BY <1>1, <1>2, <1>3, <1>4, <1>5, <1>6, PlanningNext DEF TakesOn, SendsCreation

\* Nothing is sent.
LEMMA NothingSent ==
  ASSUME Planning!IInv, NEW c \in Calls, NEW j \in Jobs, TakesOn(c, j), x8' = x8, x5'[j].status # "none",
         (\A s \in x8 : s.job # j) \/ x4'[j].plan = x4[j].plan
  PROVE  SendsCreation(j)
  <1>1. \A s \in x8 : s.job \in Jobs /\ x5'[s.job].status # "none"
    BY DEF Planning!IInv, Planning!TypeOK, Planning!OneAtATime, TakesOn
  <1>2. \A s \in x8 : x4'[s.job].plan = x4[s.job].plan BY <1>1 DEF TakesOn
  <1>3. x3' = x3 BY DEF TakesOn
  <1>4. Planning!DispatchIsReviewed' BY <1>2, <1>3 DEF Planning!IInv, Planning!DispatchIsReviewed
  <1> QED BY <1>1, <1>4 DEF SendsCreation, Planning!IInv, Planning!OneAtATime

\* What an execution knows when it starts to act.
LEMMA BuiltKnows ==
  ASSUME Planning!IInv, NEW c \in Calls, x7[c].pc = "built"
  PROVE  LET j == x7[c].job
             plan == x7[c].plan
         IN /\ j \in Jobs /\ plan \in Planning!Plans /\ plan.level \in {"red", "yellow"}
            /\ x7[c].seen \in x3
            /\ x7[c].after =>
                 /\ x5[j].status = "completed" /\ x4[j].status = "succeeded"
                 /\ plan = x5[j].plan /\ plan = x4[j].plan /\ plan.level = "yellow"
            /\ ~x7[c].after => x7[c].facts \in Planning!Readings
               /\ plan = Planning!Calculated(j, plan.vmid, x7[c].facts)
  <1> DEFINE j == x7[c].job
             plan == x7[c].plan
  <1>1. Planning!CallSound(x7[c]) BY DEF Planning!IInv
  <1>2. j \in Jobs /\ plan \in Planning!Plans /\ x7[c].seen \in x3 BY <1>1 DEF Planning!CallSound
  <1>3. x7[c].after => x5[j].status = "completed" /\ plan = x5[j].plan
    BY <1>1 DEF Planning!CallSound, Planning!Completed
  <1>4. x7[c].after => x4[j].status = "succeeded" /\ plan = x4[j].plan /\ plan.level = "yellow"
    BY <1>2, <1>3 DEF Planning!IInv, Planning!OpSound
  <1>5. ~x7[c].after => x7[c].facts \in Planning!Readings
          /\ plan = Planning!Calculated(j, plan.vmid, x7[c].facts)
    BY <1>1 DEF Planning!CallSound
  <1>6. plan.vmid \in Vmids BY <1>2 DEF Planning!Plans
  <1>7. plan.level \in {"red", "yellow"} BY <1>2, <1>4, <1>5, <1>6, CalculatedIsPlan
  <1> QED BY <1>2, <1>3, <1>4, <1>5, <1>7

\* The creation is taken: lock, running request and operation in one step.
LEMMA TakeKept ==
  ASSUME Planning!IInv, NEW c \in Calls, x7[c].pc = "built", NEW j, j = x7[c].job, NEW plan,
         plan = x7[c].plan,
         NEW o, o = Planning!Prepared(j, plan),
         Planning!SamePlan(j, plan), Planning!Passes(plan, x7[c].seen, x7[c].ack), Planning!MayApprove(o),
         x5[j].status = "none", Planning!MayTake(j, plan.vmid),
         x6' = [x6 EXCEPT ![plan.vmid] = j],
         x5' = [x5 EXCEPT ![j] = [status |-> "running", plan |-> plan]],
         x4' = [x4 EXCEPT ![j] = [Planning!Approved(o) EXCEPT !.status = "dispatching"]],
         x7' = [x7 EXCEPT ![c].pc = "armed", ![c].asked = None],
         UNCHANGED <<x1, x2, x3, x8>>
  PROVE  Planning!IInv'
  <1>1. /\ j \in Jobs /\ plan \in Planning!Plans /\ plan.level \in {"red", "yellow"} /\ x7[c].seen \in x3
        /\ ~x7[c].after /\ x7[c].facts \in Planning!Readings
        /\ plan = Planning!Calculated(j, plan.vmid, x7[c].facts)
    BY BuiltKnows
  <1>2. plan.vmid \in Vmids /\ x6[plan.vmid] = None /\ plan.level = "yellow" /\ x7[c].seen = plan /\ x7[c].ack
    BY <1>1 DEF Planning!Plans, Planning!MayTake, Planning!Passes, Planning!Gate
  <1>3. x4 \in [Jobs -> PlanOpRows] /\ x5 \in [Jobs -> CreationRows] /\ x7 \in [Calls -> PlanCallRows]
    BY PlanningRows
  <1>4. x4'[j] = [status |-> "dispatching", plan |-> plan]
    <2>1. o \in PlanOpRows /\ o.plan = plan BY <1>1, <1>3 DEF Planning!Prepared, Planning!SamePlan, PlanOpRows
    <2>2. Planning!Approved(o) \in PlanOpRows /\ Planning!Approved(o).plan = plan
      BY <2>1 DEF Planning!Approved, PlanOpRows
    <2>3. [Planning!Approved(o) EXCEPT !.status = "dispatching"] = [status |-> "dispatching", plan |-> plan]
      BY <2>2 DEF PlanOpRows
    <2> QED BY <1>1, <1>3, <2>3
  <1>5. x5'[j] = [status |-> "running", plan |-> plan] BY <1>1, <1>3
  <1>6. /\ x4' \in [Jobs -> PlanOpRows] /\ \A k \in Jobs : k # j => x4'[k] = x4[k]
    <2>1. [Planning!Approved(o) EXCEPT !.status = "dispatching"] \in PlanOpRows
      <3>1. x4'[j] = [Planning!Approved(o) EXCEPT !.status = "dispatching"] BY <1>1, <1>3
      <3> QED BY <1>1, <1>4, <3>1 DEF PlanOpRows
    <2> QED BY <1>1, <1>3, <2>1
  <1>7. /\ x5' \in [Jobs -> CreationRows] /\ \A k \in Jobs : k # j => x5'[k] = x5[k]
    <2>1. [status |-> "running", plan |-> plan] \in CreationRows BY <1>1 DEF CreationRows
    <2> QED BY <1>1, <1>3, <2>1
  <1>8. /\ x6' \in [Vmids -> Jobs \cup {None}] /\ x6'[plan.vmid] = j
        /\ \A w \in Vmids : w # plan.vmid => x6'[w] = x6[w]
    BY <1>1, <1>2 DEF Planning!IInv, Planning!TypeOK
  <1> DEFINE a == [x7[c] EXCEPT !.pc = "armed", !.asked = None]
  <1>9. /\ x7' \in [Calls -> PlanCallRows] /\ \A d \in Calls : d # c => x7'[d] = x7[d]
        /\ x7'[c].pc = "armed" /\ x7'[c].job = j /\ x7'[c].plan = plan /\ x7'[c].seen = x7[c].seen
        /\ x7'[c].ack = x7[c].ack /\ x7'[c].after = x7[c].after /\ x7'[c].facts = x7[c].facts
    <2>1. x7' = [x7 EXCEPT ![c] = a] OBVIOUS
    <2> DEFINE z == x7[c]
    <2>2. z \in PlanCallRows /\ z.job = j /\ z.plan = plan BY <1>3
    <2>3. a = [z EXCEPT !.pc = "armed", !.asked = None] OBVIOUS
    <2> HIDE DEF z
    <2>4. [z EXCEPT !.pc = "armed", !.asked = None] \in PlanCallRows BY <2>2 DEF PlanCallRows
    <2>5. /\ [z EXCEPT !.pc = "armed", !.asked = None].pc = "armed"
          /\ \A f \in {"after", "job", "plan", "seen", "ack", "facts"} :
                [z EXCEPT !.pc = "armed", !.asked = None][f] = z[f]
      BY <2>2 DEF PlanCallRows
    <2>6. /\ a \in PlanCallRows /\ a.pc = "armed" /\ a.job = z.job /\ a.plan = z.plan /\ a.seen = z.seen
          /\ a.ack = z.ack /\ a.after = z.after /\ a.facts = z.facts
      BY <2>3, <2>4, <2>5
    <2> HIDE DEF a
    <2>7. x7'[c] = a BY <1>3, <2>1
    <2> QED BY <1>3, <2>1, <2>2, <2>6, <2>7 DEF z
  <1> HIDE DEF a
  <1>10. TakesOn(c, j)
    <2>1. x1' \in [vms : SUBSET Vmids, template : Templates, guests : BOOLEAN, answers : BOOLEAN]
      BY DEF Planning!IInv, Planning!TypeOK
    <2> QED BY <1>1, <1>5, <1>6, <1>7, <1>8, <1>9, <2>1 DEF TakesOn
  <1>11. OwnsCreation(c, j)
    <2>1. ASSUME NEW d \in Calls, x7[d].pc \in Planning!Active PROVE x7[d].job # j
      <3>1. x7[d].job \in Jobs /\ x4[x7[d].job].status \in {"running", "dispatching"}
        BY <2>1 DEF Planning!IInv, Planning!CallSound, Planning!Active
      <3>2. x5[x7[d].job].status = "running" BY <3>1 DEF Planning!IInv, Planning!OpSound
      <3> QED BY <3>2
    <2> QED BY <1>2, <1>5, <2>1, PlanningAssumption DEF OwnsCreation, Planning!Completed
  <1>12. \A s \in x8 : s.job # j BY DEF Planning!IInv, Planning!OneAtATime
  <1>13. SendsCreation(j)
    <2>1. x5'[j].status # "none" /\ x8' = x8 BY <1>5
    <2> QED BY <1>1, <1>10, <1>12, <2>1, NothingSent
  <1>14. Planning!OpSound(j)' BY <1>1, <1>2, <1>4, <1>5 DEF Planning!OpSound, Planning!Early
  <1>15. ExecutionGood(x7[c])'
    <2>1. (Planning!Calculated(x7[c].job, x7[c].plan.vmid, x7[c].facts))' = Planning!Calculated(j, plan.vmid,
            x7[c].facts)
      BY <1>9 DEF Planning!Calculated, Planning!AddressRisks
    <2>2. Planning!CallSound(x7[c])'
      BY <1>1, <1>2, <1>4, <1>5, <1>9, <1>12, <2>1 DEF Planning!CallSound, Planning!Active
    <2>3. (ReplayKept(x7[c]) /\ CauseKept(x7[c]))' BY <1>9 DEF ReplayKept, CauseKept
    <2> QED BY <2>2, <2>3 DEF ExecutionGood
  <1> QED BY <1>1, <1>10, <1>11, <1>13, <1>14, <1>15, PlanWorkKept

\* An execution acts on its plan: refused, replayed, blocked, or the creation is taken.
LEMMA ArmKept ==
  ASSUME Planning!IInv, NEW c \in Calls, Planning!Arm(c)
  PROVE  Planning!IInv'
  <1> DEFINE j == x7[c].job
             plan == x7[c].plan
             o == Planning!Prepared(j, plan)
             pass == Planning!Passes(plan, x7[c].seen, x7[c].ack)
  <1>1. x7[c].pc = "built" /\ UNCHANGED <<x1, x2, x3, x8>> BY DEF Planning!Arm
  <1>2. /\ j \in Jobs /\ plan \in Planning!Plans /\ plan.level \in {"red", "yellow"}
        /\ x7[c].after =>
             /\ x5[j].status = "completed" /\ x4[j].status = "succeeded"
             /\ plan = x5[j].plan /\ plan = x4[j].plan /\ plan.level = "yellow"
    BY <1>1, BuiltKnows
  <1>3. x7[c].after => Planning!SamePlan(j, plan) /\ Planning!MayApprove(o) /\ Planning!Completed(j)
                         /\ (pass \/ plan # x7[c].seen \/ ~x7[c].ack)
    BY <1>2 DEF Planning!SamePlan, Planning!MayApprove, Planning!Prepared, Planning!Completed,
       Planning!Passes, Planning!Gate
  <1>4. ASSUME NEW out \in {"conflict", "gated", "replayed", "blocked"}, Planning!End(c, out), EarlyOps,
               UNCHANGED <<x5, x6>>,
               x7[c].after => out = "replayed" \/ plan # x7[c].seen \/ ~x7[c].ack
        PROVE  Planning!IInv'
    <2>1. /\ x7' \in [Calls -> PlanCallRows] /\ \A d \in Calls : d # c => x7'[d] = x7[d]
          /\ x7'[c].pc = "done"
      BY <1>4, EndRows
    <2>2. ExecutionGood(x7[c])' BY <1>2, <1>3, <1>4, EndGood
    <2>3. CallsMove BY <2>1, <2>2 DEF CallsMove, Planning!Active
    <2> QED BY <1>1, <1>4, <2>3, PlanEarlyKept DEF Planning!IInv, Planning!TypeOK
  <1>5. x4' = x4 => EarlyOps BY PlanningRows DEF EarlyOps
  <1>6. CASE ~Planning!SamePlan(j, plan) /\ Planning!End(c, "conflict") /\ UNCHANGED <<x4, x5, x6>>
    BY <1>3, <1>4, <1>5, <1>6
  <1>7. CASE Planning!SamePlan(j, plan) /\ ~pass /\ x4' = [x4 EXCEPT ![j] = o] /\ Planning!End(c, "gated")
          /\ UNCHANGED <<x5, x6>>
    <2>1. EarlyOps BY <1>2, <1>7, PreparedEarly
    <2> QED BY <1>3, <1>4, <1>7, <2>1
  <1>8. CASE Planning!SamePlan(j, plan) /\ pass /\ ~Planning!MayApprove(o) /\ Planning!End(c, "conflict")
          /\ UNCHANGED <<x4, x5, x6>>
    BY <1>3, <1>4, <1>5, <1>8
  <1>9. CASE Planning!Completed(j) /\ Planning!End(c, "replayed") /\ UNCHANGED <<x4, x5, x6>>
    BY <1>4, <1>5, <1>9
  <1>10. CASE /\ Planning!SamePlan(j, plan)
              /\ x5[j].status = "running" \/ (x5[j].status = "none" /\ ~Planning!MayTake(j, plan.vmid))
              /\ x4' = [x4 EXCEPT ![j] = Planning!Approved(o)] /\ Planning!End(c, "blocked")
              /\ UNCHANGED <<x5, x6>>
    <2>1. EarlyOps BY <1>2, <1>10, PreparedEarly
    <2>2. ~x7[c].after BY <1>2, <1>10
    <2> QED BY <1>4, <1>10, <2>1, <2>2
  <1>11. CASE /\ Planning!SamePlan(j, plan) /\ pass /\ Planning!MayApprove(o) /\ x5[j].status = "none"
              /\ Planning!MayTake(j, plan.vmid)
              /\ x6' = [x6 EXCEPT ![plan.vmid] = j]
              /\ x5' = [x5 EXCEPT ![j] = [status |-> "running", plan |-> plan]]
              /\ x4' = [x4 EXCEPT ![j] = [Planning!Approved(o) EXCEPT !.status = "dispatching"]]
              /\ x7' = [x7 EXCEPT ![c].pc = "armed", ![c].asked = None]
    BY <1>1, <1>11, TakeKept
  <1> QED BY <1>6, <1>7, <1>8, <1>9, <1>10, <1>11 DEF Planning!Arm


\* An execution has its plan calculated, or is answered with what is there.
LEMMA ExecuteKept ==
  ASSUME Planning!IInv, NEW c \in Calls, Planning!Execute(c)
  PROVE  Planning!IInv'
  <1>1. PICK j \in Jobs, asked \in Asked :
          /\ asked # None \/ x1.vms # Vmids \/ Planning!Completed(j)
          /\ \E seen \in Planning!Reviews(j), ack \in BOOLEAN : Planning!Build(c, j, asked, seen, ack)
    BY DEF Planning!Execute
  <1>2. PICK seen \in Planning!Reviews(j), ack \in BOOLEAN : Planning!Build(c, j, asked, seen, ack) BY <1>1
  <1> QED BY <1>1, <1>2, BuildKept

\* What an execution knows of the creation it works on.
LEMMA ActiveKnows ==
  ASSUME Planning!IInv, NEW c \in Calls, x7[c].pc \in Planning!Active
  PROVE  LET j == x7[c].job
             plan == x7[c].plan
         IN /\ j \in Jobs /\ plan \in Planning!Plans /\ plan.vmid \in Vmids
            /\ plan.level = "yellow" /\ ~x7[c].after
            /\ x5[j].status = "running" /\ x5[j].plan = plan /\ x4[j].plan = plan
            /\ x4[j].status = IF x7[c].pc = "created" THEN "running" ELSE "dispatching"
            /\ x6[plan.vmid] = j
            /\ \A d \in Calls : (d # c /\ x7[d].pc \in Planning!Active) => x7[d].job # j
  <1> DEFINE j == x7[c].job
             plan == x7[c].plan
  <1>1. /\ j \in Jobs /\ plan \in Planning!Plans /\ ~x7[c].after /\ x5[j].plan = plan
        /\ x4[j].status = IF x7[c].pc = "created" THEN "running" ELSE "dispatching"
    BY DEF Planning!IInv, Planning!CallSound
  <1>2. x5[j].status = "running" /\ x4[j].plan = plan /\ plan.level = "yellow"
    BY <1>1 DEF Planning!IInv, Planning!OpSound
  <1>3. plan.vmid \in Vmids BY <1>1 DEF Planning!Plans
  <1>4. x6[plan.vmid] = j BY <1>1, <1>2, <1>3 DEF Planning!IInv, Planning!LocksSound
  <1>5. \A d \in Calls : (d # c /\ x7[d].pc \in Planning!Active) => x7[d].job # j
    BY DEF Planning!IInv, Planning!OneAtATime
  <1> QED BY <1>1, <1>2, <1>3, <1>4, <1>5

\* Operation and request of creation j move together, and the lock with them.
PlanMoves(j, plan, os, rs) ==
  /\ x4' \in [Jobs -> PlanOpRows] /\ \A k \in Jobs : k # j => x4'[k] = x4[k]
  /\ x4'[j].status = os /\ x4'[j].plan = plan
  /\ x5' \in [Jobs -> CreationRows] /\ \A k \in Jobs : k # j => x5'[k] = x5[k]
  /\ x5'[j].status = rs /\ x5'[j].plan = plan
  /\ x6' \in [Vmids -> Jobs \cup {None}] /\ \A w \in Vmids : w # plan.vmid => x6'[w] = x6[w]
  /\ x6'[plan.vmid] = IF rs = "running" THEN j ELSE None
OneMoves(c) ==
  /\ x7' \in [Calls -> PlanCallRows] /\ \A d \in Calls : d # c => x7'[d] = x7[d]
  /\ x7'[c].pc \in Planning!Active => x7'[c].job = x7[c].job
WorldRows == [vms : SUBSET Vmids, template : Templates, guests : BOOLEAN, answers : BOOLEAN]
Pairs == {<<"dispatching", "running">>, <<"running", "running">>, <<"failed", "failed">>,
          <<"succeeded", "completed">>, <<"needs_reconciliation", "running">>}
\* A step with a move keeps the invariant.
LEMMA MovesKept ==
  ASSUME Planning!IInv, NEW c \in Calls, x7[c].pc \in Planning!Active, NEW j, j = x7[c].job, NEW plan,
         plan = x7[c].plan,
         NEW os, NEW rs,
         <<os, rs>> \in Pairs,
         PlanMoves(j, plan, os, rs), OneMoves(c), x1' \in WorldRows,
         UNCHANGED <<x2, x3>>,
         x8' = x8 \/ SendsCreation(j), ExecutionGood(x7[c])'
  PROVE  Planning!IInv'
  <1>1. /\ j \in Jobs /\ plan \in Planning!Plans /\ plan.vmid \in Vmids /\ plan.level = "yellow"
        /\ x5[j].status = "running" /\ x5[j].plan = plan /\ x4[j].plan = plan
        /\ x6[plan.vmid] = j
        /\ \A d \in Calls : (d # c /\ x7[d].pc \in Planning!Active) => x7[d].job # j
    BY ActiveKnows
  <1>2. PlanMoves(j, plan, os, rs) OBVIOUS
  <1>3. TakesOn(c, j)
    <2>1. x7'[c].pc \in Planning!Active => x7'[c].job = j BY DEF OneMoves
    <2> QED BY <1>1, <1>2, <2>1 DEF PlanMoves, OneMoves, TakesOn, WorldRows
  <1>4. OwnsCreation(c, j) BY <1>1, <1>2, PlanningAssumption DEF PlanMoves, OwnsCreation, Planning!Completed
  <1>5. rs # "none" /\ os # "none" BY DEF Pairs
  <1>6. x8' = x8 => SendsCreation(j) BY <1>1, <1>2, <1>3, <1>5, NothingSent DEF PlanMoves
  <1>7. SendsCreation(j) BY <1>6
  <1>8. Planning!OpSound(j)'
    <2>1. x4'[j].status = os /\ x4'[j].plan = plan /\ x5'[j].status = rs /\ x5'[j].plan = plan
      BY <1>2 DEF PlanMoves
    <2> QED BY <1>1, <2>1 DEF Planning!OpSound, Planning!Early, Pairs
  <1> QED BY <1>1, <1>3, <1>4, <1>7, <1>8, PlanWorkKept

\* A status is set.
SetsTo(c, os, rs) ==
  /\ x4' = [x4 EXCEPT ![x7[c].job].status = os]
  /\ IF rs = "running" THEN UNCHANGED <<x5, x6>>
     ELSE /\ x5' = [x5 EXCEPT ![x7[c].job].status = rs]
          /\ x6' = [x6 EXCEPT ![x7[c].plan.vmid] = None]
\* That is a move.
LEMMA StatusSet ==
  ASSUME Planning!IInv, NEW c \in Calls, x7[c].pc \in Planning!Active, NEW os, NEW rs,
         os \in {"running", "failed", "succeeded", "needs_reconciliation"},
           rs \in {"running", "failed", "completed"},
         SetsTo(c, os, rs)
  PROVE  PlanMoves(x7[c].job, x7[c].plan, os, rs)
  <1> DEFINE j == x7[c].job
             plan == x7[c].plan
  <1>1. /\ j \in Jobs /\ plan \in Planning!Plans /\ plan.vmid \in Vmids
        /\ x5[j].status = "running" /\ x5[j].plan = plan /\ x4[j].plan = plan
        /\ x6[plan.vmid] = j
    BY ActiveKnows
  <1>2. x4 \in [Jobs -> PlanOpRows] /\ x5 \in [Jobs -> CreationRows] /\ x6 \in [Vmids -> Jobs \cup {None}]
    BY PlanningRows DEF Planning!IInv, Planning!TypeOK
  <1>3. x4' = [x4 EXCEPT ![j] = [x4[j] EXCEPT !.status = os]] BY <1>1, <1>2 DEF SetsTo
  <1> HIDE DEF j, plan
  <1>4. [x4[j] EXCEPT !.status = os] = [status |-> os, plan |-> plan] BY <1>1, <1>2 DEF PlanOpRows
  <1>5. [status |-> os, plan |-> plan] \in PlanOpRows BY <1>1 DEF PlanOpRows
  <1>6. /\ x4' \in [Jobs -> PlanOpRows] /\ \A k \in Jobs : k # j => x4'[k] = x4[k]
        /\ x4'[j].status = os /\ x4'[j].plan = plan
    <2>1. x4' = [x4 EXCEPT ![j] = [status |-> os, plan |-> plan]] BY <1>3, <1>4
    <2> DEFINE row == [status |-> os, plan |-> plan]
    <2>2. row \in PlanOpRows /\ row.status = os /\ row.plan = plan BY <1>5
    <2>3. x4' = [x4 EXCEPT ![j] = row] BY <2>1
    <2> HIDE DEF row
    <2> QED BY <1>1, <1>2, <2>2, <2>3
  <1>7. CASE rs = "running"
    <2>1. UNCHANGED <<x5, x6>> BY <1>7 DEF SetsTo
    <2> QED BY <1>1, <1>2, <1>6, <1>7, <2>1 DEF PlanMoves, j, plan
  <1>8. CASE rs # "running"
    <2>1. x5' = [x5 EXCEPT ![j] = [@ EXCEPT !.status = rs]] /\ x6' = [x6 EXCEPT ![plan.vmid] = None]
      BY <1>8 DEF SetsTo, j, plan
    <2>2. [x5[j] EXCEPT !.status = rs] = [status |-> rs, plan |-> plan] BY <1>1, <1>2 DEF CreationRows
    <2>3. [status |-> rs, plan |-> plan] \in CreationRows BY <1>1, <1>8 DEF CreationRows
    <2>4. /\ x5' \in [Jobs -> CreationRows] /\ \A k \in Jobs : k # j => x5'[k] = x5[k]
          /\ x5'[j].status = rs /\ x5'[j].plan = plan
      BY <1>1, <1>2, <2>1, <2>2, <2>3
    <2>5. /\ x6' \in [Vmids -> Jobs \cup {None}] /\ \A w \in Vmids : w # plan.vmid => x6'[w] = x6[w]
          /\ x6'[plan.vmid] = None
      BY <1>1, <1>2, <2>1
    <2> QED BY <1>6, <1>8, <2>4, <2>5 DEF PlanMoves, j, plan
  <1> QED BY <1>7, <1>8

\* Where an execution goes on.
LEMMA PcMoves ==
  ASSUME Planning!IInv, NEW c \in Calls, NEW pc \in {"valid", "created"}, x7[c].pc \in Planning!Active,
         NEW a, a \in {[x7[c] EXCEPT !.pc = pc], [x7[c] EXCEPT !.pc = pc, !.facts = None]},
         x7' = [x7 EXCEPT ![c] = a]
  PROVE  OneMoves(c) /\ x7'[c].pc = pc /\ x7'[c].job = x7[c].job /\ x7'[c].plan = x7[c].plan
         /\ x7'[c].after = x7[c].after
  <1> DEFINE z == x7[c]
  <1>1. z \in PlanCallRows /\ x7 \in [Calls -> PlanCallRows] BY PlanningRows
  <1>2. a \in {[z EXCEPT !.pc = pc], [z EXCEPT !.pc = pc, !.facts = None]} OBVIOUS
  <1> HIDE DEF z
  <1>3. a \in PlanCallRows /\ a.pc = pc /\ \A f \in {"job", "plan", "after"} : a[f] = z[f]
    <2>1. CASE a = [z EXCEPT !.pc = pc] BY <1>1, <2>1 DEF PlanCallRows
    <2>2. CASE a = [z EXCEPT !.pc = pc, !.facts = None]
      <3> DEFINE b == [z EXCEPT !.pc = pc, !.facts = None]
      <3>1. b \in PlanCallRows BY <1>1 DEF PlanCallRows
      <3>2. b.pc = pc /\ \A f \in {"job", "plan", "after"} : b[f] = z[f] BY <1>1 DEF PlanCallRows
      <3> QED BY <2>2, <3>1, <3>2
    <2> QED BY <1>2, <2>1, <2>2
  <1>4. a \in PlanCallRows /\ a.pc = pc /\ a.job = z.job /\ a.plan = z.plan /\ a.after = z.after
    BY <1>3
  <1>5. x7'[c] = a /\ x7' \in [Calls -> PlanCallRows] /\ \A d \in Calls : d # c => x7'[d] = x7[d]
    BY <1>1, <1>4
  <1> QED BY <1>4, <1>5 DEF OneMoves, z

\* The creation is dispatched, or refused because the world is not the reviewed one.
LEMMA PlanSendKept ==
  ASSUME Planning!IInv, NEW c \in Calls, x7[c].pc = "armed", NEW j, j = x7[c].job, NEW plan,
         plan = x7[c].plan,
         Planning!Valid(j, plan),
         x7' = [x7 EXCEPT ![c].pc = "valid", ![c].facts = None],
         x8' = x8 \cup {[job |-> j, plan |-> plan, seen |-> x7[c].seen, ack |-> x7[c].ack,
                             now |-> Planning!Listed(Planning!Risks(plan.vmid, Planning!FreshInventory)),
                               template |-> x1.template]},
         UNCHANGED <<x4, x5, x6, x1, x2, x3>>
  PROVE  Planning!IInv'
  <1>1. x7[c].pc \in Planning!Active BY DEF Planning!Active
  <1>2. /\ j \in Jobs /\ plan \in Planning!Plans /\ plan.vmid \in Vmids
        /\ plan.level = "yellow" /\ ~x7[c].after
        /\ x5[j].status = "running" /\ x5[j].plan = plan /\ x4[j].plan = plan
        /\ x4[j].status = "dispatching" /\ x6[plan.vmid] = j
    BY <1>1, ActiveKnows
  <1>3. x7[c].seen = plan /\ plan \in x3 /\ x7[c].ack /\ \A s \in x8 : s.job # j
    BY DEF Planning!IInv, Planning!CallSound
  <1>4. x7' = [x7 EXCEPT ![c] = [x7[c] EXCEPT !.pc = "valid", !.facts = None]] BY PlanningRows
  <1>5. /\ OneMoves(c) /\ x7'[c].pc = "valid" /\ x7'[c].job = j /\ x7'[c].plan = plan
        /\ x7'[c].after = x7[c].after
    BY <1>1, <1>4, PcMoves
  <1>6. x4 \in [Jobs -> PlanOpRows] /\ x5 \in [Jobs -> CreationRows] /\ x6 \in [Vmids -> Jobs \cup {None}]
        /\ x1 \in WorldRows
    BY PlanningRows DEF Planning!IInv, Planning!TypeOK, WorldRows
  <1>7. PlanMoves(j, plan, "dispatching", "running") BY <1>2, <1>6 DEF PlanMoves
  <1> DEFINE s0 == [job |-> j, plan |-> plan, seen |-> x7[c].seen, ack |-> x7[c].ack,
                    now |-> Planning!Listed(Planning!Risks(plan.vmid, Planning!FreshInventory)),
                      template |-> x1.template]
             again == Planning!PlanOf(j, plan.vmid, Planning!FreshInventory)
             reading == [inv |-> Planning!FreshInventory, answers |-> x1.answers]
  <1>8. again = Planning!Calculated(j, plan.vmid, reading) /\ reading \in Planning!Readings
    <2>1. Planning!FreshInventory \in Planning!Inventories /\ Planning!FreshInventory.guests \in BOOLEAN
            /\ Planning!FreshInventory.whole \in BOOLEAN /\ x1.answers \in BOOLEAN
      BY <1>6 DEF Planning!FreshInventory, Planning!Inventories, WorldRows
    <2> QED BY <2>1, PlanIsCalculated DEF Planning!Readings
  <1>9. again = plan BY DEF Planning!Valid
  <1>10. again.risks = Planning!Listed(Planning!Risks(plan.vmid, Planning!FreshInventory))
          /\ again.template = x1.template
    BY DEF Planning!PlanOf, Planning!TemplateOf, Planning!FreshInventory
  <1>11. plan.risks \cap Planning!Red = {} BY <1>2, <1>8, <1>9, CalculatedIsPlan
  <1>12. /\ s0.job = j /\ s0.plan = plan /\ s0.seen = plan /\ s0.ack /\ s0.now = plan.risks
         /\ s0.template = plan.template
    BY <1>3, <1>9, <1>10
  <1>13. x8' = x8 \cup {s0} OBVIOUS
  <1> HIDE DEF s0, again, reading
  <1>14. SendsCreation(j)
    <2>1. Planning!DispatchIsReviewed'
      <3>1. ASSUME NEW s \in x8'
            PROVE  /\ s.seen = s.plan /\ s.plan \in x3 /\ s.ack /\ s.plan = x4[s.job].plan
                   /\ s.now = s.plan.risks /\ s.now \cap Planning!Red = {} /\ s.template = s.plan.template
        <4>1. CASE s \in x8 BY <4>1 DEF Planning!IInv, Planning!DispatchIsReviewed
        <4>2. CASE s = s0 BY <1>2, <1>3, <1>11, <1>12, <4>2
        <4> QED BY <1>13, <4>1, <4>2
      <3> QED BY <3>1 DEF Planning!DispatchIsReviewed
    <2>2. \A s \in x8' : s \in x8 \/ (s.job = j /\ s.plan \in Planning!Plans) BY <1>2, <1>12, <1>13
    <2>3. \A s \in x8' : x5'[s.job].status # "none"
      <3>1. \A s \in x8 : x5[s.job].status # "none" BY DEF Planning!IInv, Planning!OneAtATime
      <3> QED BY <1>2, <1>12, <1>13, <3>1
    <2>4. \A s, t \in x8' : s.job = t.job => s = t
      <3>1. \A s, t \in x8 : s.job = t.job => s = t BY DEF Planning!IInv, Planning!OneAtATime
      <3> QED BY <1>3, <1>12, <1>13, <3>1
    <2> QED BY <2>1, <2>2, <2>3, <2>4 DEF SendsCreation
  <1>15. ExecutionGood(x7[c])'
    <2>1. Planning!CallSound(x7[c])' BY <1>2, <1>5 DEF Planning!CallSound, Planning!Active
    <2> QED BY <1>5, <2>1 DEF ExecutionGood, ReplayKept, CauseKept
  <1>16. x1' \in WorldRows /\ UNCHANGED <<x2, x3>> BY <1>6
  <1>17. <<"dispatching", "running">> \in Pairs BY DEF Pairs
  <1> QED BY <1>1, <1>5, <1>7, <1>14, <1>15, <1>16, <1>17, MovesKept

\* What stands in the way of a dispatch is a change since the plan was calculated.
LEMMA ChangedForCause ==
  ASSUME Planning!IInv, NEW c \in Calls, x7[c].pc = "armed", ~Planning!Valid(x7[c].job, x7[c].plan)
  PROVE  LET f == x7[c].facts IN
         /\ f \in Planning!Readings /\ Planning!FreshInventory \in Planning!Inventories
         /\ x1.answers \in BOOLEAN
         /\ \/ f.inv.vms # Planning!FreshInventory.vms \/ f.inv.template # Planning!FreshInventory.template
            \/ f.answers # x1.answers
  <1> DEFINE j == x7[c].job
             plan == x7[c].plan
             f == x7[c].facts
             reading == [inv |-> Planning!FreshInventory, answers |-> x1.answers]
  <1>1. f \in Planning!Readings /\ plan = Planning!Calculated(j, plan.vmid, f)
    <2>1. Planning!CallSound(x7[c]) BY DEF Planning!IInv
    <2> QED BY <2>1 DEF Planning!CallSound, Planning!Active
  <1>2. Planning!FreshInventory \in Planning!Inventories /\ Planning!FreshInventory.guests \in BOOLEAN
          /\ x1.answers \in BOOLEAN
    BY DEF Planning!IInv, Planning!TypeOK, Planning!FreshInventory, Planning!Inventories
  <1>3. Planning!FreshInventory.whole = TRUE BY DEF Planning!FreshInventory
  <1>4. Planning!FreshInventory.whole \in BOOLEAN BY <1>3
  <1>5. Planning!PlanOf(j, plan.vmid, Planning!FreshInventory) = Planning!Calculated(j, plan.vmid, reading)
    BY <1>2, <1>4, PlanIsCalculated
  <1>6. plan.level = "yellow" BY ActiveKnows DEF Planning!Active
  <1>7. Planning!Calculated(j, plan.vmid, reading) # plan BY <1>5, <1>6 DEF Planning!Valid
  <1>8. f.inv.whole = TRUE
    <2>1. f.inv.whole \in BOOLEAN BY <1>1 DEF Planning!Readings, Planning!Inventories
    <2> QED BY <1>1, <1>6, <2>1 DEF Planning!Calculated
  <1>9. f.inv.vms # Planning!FreshInventory.vms \/ f.inv.template # Planning!FreshInventory.template
          \/ f.answers # x1.answers
    <2>1. ASSUME f.inv.vms = Planning!FreshInventory.vms, f.inv.template = Planning!FreshInventory.template,
            f.answers = x1.answers
          PROVE  Planning!Calculated(j, plan.vmid, reading) = Planning!Calculated(j, plan.vmid, f)
      BY <1>8, <1>3, <2>1 DEF Planning!Calculated
    <2> QED BY <1>1, <1>7, <2>1
  <1> QED BY <1>1, <1>2, <1>9

\* A failure before the clone closes the creation.
LEMMA CloseUnsentGood ==
  ASSUME Planning!IInv, NEW c \in Calls, x7[c].pc \in Planning!Active, NEW out \in {"changed", "unavailable"},
         NEW f \in {None} \cup [was : Planning!Readings, inv : Planning!Inventories, answers : BOOLEAN],
         out = "changed" =>
           \/ f.was.inv.vms # f.inv.vms \/ f.was.inv.template # f.inv.template \/ f.was.answers # f.answers,
         Planning!CloseUnsent(c, out, f), UNCHANGED <<x1, x2, x3, x8>>
  PROVE  Planning!IInv'
  <1> DEFINE j == x7[c].job
             plan == x7[c].plan
             a == [Planning!NoCall EXCEPT !.pc = "done", !.out = out, !.facts = f]
  <1>1. /\ x7' = [x7 EXCEPT ![c] = a] /\ x4' = [x4 EXCEPT ![j].status = "failed"]
        /\ x5' = [x5 EXCEPT ![j].status = "failed"] /\ x6' = [x6 EXCEPT ![plan.vmid] = None]
    BY DEF Planning!CloseUnsent
  <1>2. Planning!NoCall \in PlanCallRows /\ Planning!NoCall.after = FALSE
    BY DEF Planning!NoCall, PlanCallRows
  <1>3. a \in PlanCallRows /\ a.pc = "done" /\ a.after = FALSE /\ a.out = out /\ a.facts = f
    <2> DEFINE z == Planning!NoCall
    <2>1. z \in PlanCallRows /\ z.after = FALSE BY <1>2
    <2> HIDE DEF z
    <2> DEFINE b == [z EXCEPT !.pc = "done", !.out = out, !.facts = f]
    <2>2. b \in PlanCallRows BY <2>1 DEF PlanCallRows
    <2>3. b.pc = "done" /\ b.out = out /\ b.facts = f /\ \A g \in {"after"} : b[g] = z[g]
      BY <2>1 DEF PlanCallRows
    <2>4. a = b BY DEF z
    <2> HIDE DEF a, b
    <2> QED BY <2>1, <2>2, <2>3, <2>4
  <1> HIDE DEF a
  <1>4. x7'[c] = a /\ x7' \in [Calls -> PlanCallRows] /\ \A d \in Calls : d # c => x7'[d] = x7[d]
    BY <1>1, <1>3, PlanningRows
  <1>5. ExecutionGood(x7[c])'
    BY <1>3, <1>4 DEF ExecutionGood, Planning!CallSound, ReplayKept, CauseKept, Planning!Active
  <1>6. OneMoves(c) BY <1>3, <1>4 DEF OneMoves, Planning!Active
  <1>7. <<"failed", "failed">> \in Pairs BY DEF Pairs
  <1>8. PlanMoves(j, plan, "failed", "failed")
    <2>1. SetsTo(c, "failed", "failed") BY <1>1 DEF SetsTo
    <2> QED BY <2>1, StatusSet
  <1>9. x1' \in WorldRows BY DEF Planning!IInv, Planning!TypeOK, WorldRows
  <1> QED BY <1>5, <1>6, <1>7, <1>8, <1>9, MovesKept

\* An execution that was under way comes to its end.
LEMMA EndMoves ==
  ASSUME Planning!IInv, NEW c \in Calls, NEW out \in {"refused", "created", "unknown"},
         x7[c].pc \in Planning!Active, Planning!End(c, out)
  PROVE  OneMoves(c) /\ ExecutionGood(x7[c])'
  <1>1. ~x7[c].after BY ActiveKnows
  <1>2. x7' \in [Calls -> PlanCallRows] /\ x7'[c].pc = "done" /\ \A d \in Calls : d # c => x7'[d] = x7[d]
    BY EndRows
  <1>3. ExecutionGood(x7[c])' BY <1>1, EndGood
  <1> QED BY <1>2, <1>3 DEF OneMoves, Planning!Active

\* A dispatch is validated against an inventory read for it.
LEMMA ValidateKept ==
  ASSUME Planning!IInv, NEW c \in Calls, Planning!Validate(c)
  PROVE  Planning!IInv'
  <1> DEFINE j == x7[c].job
             plan == x7[c].plan
             f == [was |-> x7[c].facts, inv |-> Planning!FreshInventory, answers |-> x1.answers]
  <1>1. x7[c].pc = "armed" /\ x7[c].pc \in Planning!Active /\ UNCHANGED <<x1, x2, x3>>
    BY DEF Planning!Validate, Planning!Active
  <1>2. ASSUME Planning!Valid(j, plan),
               x7' = [x7 EXCEPT ![c].pc = "valid", ![c].facts = None],
               x8' = x8 \cup {[job |-> j, plan |-> plan, seen |-> x7[c].seen, ack |-> x7[c].ack,
                                now |-> Planning!Listed(Planning!Risks(plan.vmid, Planning!FreshInventory)),
                                template |-> x1.template]},
               UNCHANGED <<x4, x5, x6>>
        PROVE  Planning!IInv'
    BY <1>1, <1>2, PlanSendKept
  <1>3. ASSUME ~Planning!Valid(j, plan), Planning!CloseUnsent(c, "changed", f), UNCHANGED x8
        PROVE  Planning!IInv'
    <2>1. /\ x7[c].facts \in Planning!Readings /\ Planning!FreshInventory \in Planning!Inventories
          /\ x1.answers \in BOOLEAN
          /\ \/ x7[c].facts.inv.vms # Planning!FreshInventory.vms
             \/ x7[c].facts.inv.template # Planning!FreshInventory.template
             \/ x7[c].facts.answers # x1.answers
      BY <1>1, <1>3, ChangedForCause
    <2>2. f \in [was : Planning!Readings, inv : Planning!Inventories, answers : BOOLEAN] BY <2>1
    <2>3. f.was = x7[c].facts /\ f.inv = Planning!FreshInventory /\ f.answers = x1.answers OBVIOUS
    <2> HIDE DEF f
    <2> QED BY <1>1, <1>3, <2>1, <2>2, <2>3, CloseUnsentGood
  <1>4. ASSUME Planning!CloseUnsent(c, "unavailable", None), UNCHANGED x8
        PROVE  Planning!IInv'
    BY <1>1, <1>4, CloseUnsentGood
  <1>5. ASSUME Planning!End(c, "unknown"), UNCHANGED <<x4, x5, x6, x8>>
        PROVE  Planning!IInv'
    <2>1. OneMoves(c) /\ ExecutionGood(x7[c])' BY <1>1, <1>5, EndMoves
    <2>2. /\ j \in Jobs /\ plan \in Planning!Plans /\ plan.vmid \in Vmids
          /\ x5[j].status = "running" /\ x5[j].plan = plan /\ x4[j].plan = plan
          /\ x4[j].status = "dispatching" /\ x6[plan.vmid] = j
      BY <1>1, ActiveKnows
    <2>3. x4 \in [Jobs -> PlanOpRows] /\ x5 \in [Jobs -> CreationRows] /\ x6 \in [Vmids -> Jobs \cup {None}]
      BY PlanningRows DEF Planning!IInv, Planning!TypeOK
    <2>4. PlanMoves(j, plan, "dispatching", "running") BY <1>5, <2>2, <2>3 DEF PlanMoves
    <2>5. <<"dispatching", "running">> \in Pairs BY DEF Pairs
    <2>6. x1' \in WorldRows BY <1>1 DEF Planning!IInv, Planning!TypeOK, WorldRows
    <2> QED BY <1>1, <1>5, <2>1, <2>4, <2>5, <2>6, MovesKept
  <1> QED BY <1>2, <1>3, <1>4, <1>5 DEF Planning!Validate

\* The clone is made, or refused.
LEMMA CloneKept ==
  ASSUME Planning!IInv, NEW c \in Calls, Planning!Clone(c)
  PROVE  Planning!IInv'
  <1> DEFINE j == x7[c].job
             plan == x7[c].plan
  <1>1. x7[c].pc = "valid" /\ x7[c].pc \in Planning!Active /\ UNCHANGED <<x2, x3, x8>>
    BY DEF Planning!Clone, Planning!Active
  <1>2. x1 \in WorldRows BY DEF Planning!IInv, Planning!TypeOK, WorldRows
  <1>3. CASE /\ x1' = [x1 EXCEPT !.vms = @ \cup {plan.vmid}] /\ x4' = [x4 EXCEPT ![j].status = "running"]
             /\ x7' = [x7 EXCEPT ![c].pc = "created"] /\ UNCHANGED <<x5, x6>>
    <2>1. plan.vmid \in Vmids BY <1>1, ActiveKnows
    <2>2. x1' \in WorldRows BY <1>2, <1>3, <2>1 DEF WorldRows
    <2>3. x7' = [x7 EXCEPT ![c] = [x7[c] EXCEPT !.pc = "created"]] BY <1>3, PlanningRows
    <2>4. /\ OneMoves(c) /\ x7'[c].pc = "created" /\ x7'[c].job = j /\ x7'[c].plan = plan
          /\ x7'[c].after = x7[c].after
      BY <1>1, <2>3, PcMoves
    <2>5. PlanMoves(j, plan, "running", "running")
      <3>1. SetsTo(c, "running", "running") BY <1>3 DEF SetsTo
      <3> QED BY <1>1, <3>1, StatusSet
    <2>6. <<"running", "running">> \in Pairs BY DEF Pairs
    <2>7. j \in Jobs /\ plan \in Planning!Plans /\ ~x7[c].after BY <1>1, ActiveKnows
    <2>8. ExecutionGood(x7[c])'
      <3>1. (x5[x7[c].job].plan = x7[c].plan /\ x4[x7[c].job].status = "running")'
        BY <2>4, <2>5 DEF PlanMoves
      <3>2. Planning!CallSound(x7[c])' BY <2>4, <2>7, <3>1 DEF Planning!CallSound, Planning!Active
      <3> QED BY <2>4, <3>2 DEF ExecutionGood, ReplayKept, CauseKept
    <2> QED BY <1>1, <2>2, <2>4, <2>5, <2>6, <2>8, MovesKept
  <1>4. CASE /\ x4' = [x4 EXCEPT ![j].status = "failed"] /\ x5' = [x5 EXCEPT ![j].status = "failed"]
             /\ x6' = [x6 EXCEPT ![plan.vmid] = None] /\ Planning!End(c, "refused") /\ UNCHANGED x1
    <2>1. PlanMoves(j, plan, "failed", "failed")
      <3>1. SetsTo(c, "failed", "failed") BY <1>4 DEF SetsTo
      <3> QED BY <1>1, <3>1, StatusSet
    <2>2. OneMoves(c) /\ ExecutionGood(x7[c])' BY <1>1, <1>4, EndMoves
    <2>3. <<"failed", "failed">> \in Pairs BY DEF Pairs
    <2> QED BY <1>1, <1>2, <1>4, <2>1, <2>2, <2>3, MovesKept
  <1> QED BY <1>3, <1>4 DEF Planning!Clone

\* The creation is completed, or left to reconciliation.
LEMMA CompleteKept ==
  ASSUME Planning!IInv, NEW c \in Calls, Planning!Complete(c)
  PROVE  Planning!IInv'
  <1> DEFINE j == x7[c].job
             plan == x7[c].plan
  <1>1. x7[c].pc = "created" /\ x7[c].pc \in Planning!Active /\ UNCHANGED <<x1, x2, x3, x8>>
    BY DEF Planning!Complete, Planning!Active
  <1>2. x1' \in WorldRows BY <1>1 DEF Planning!IInv, Planning!TypeOK, WorldRows
  <1>3. CASE /\ x4' = [x4 EXCEPT ![j].status = "succeeded"] /\ x5' = [x5 EXCEPT ![j].status = "completed"]
             /\ x6' = [x6 EXCEPT ![plan.vmid] = None] /\ Planning!End(c, "created")
    <2>1. PlanMoves(j, plan, "succeeded", "completed")
      <3>1. SetsTo(c, "succeeded", "completed") BY <1>3 DEF SetsTo
      <3> QED BY <1>1, <3>1, StatusSet
    <2>2. OneMoves(c) /\ ExecutionGood(x7[c])' BY <1>1, <1>3, EndMoves
    <2>3. <<"succeeded", "completed">> \in Pairs BY DEF Pairs
    <2> QED BY <1>1, <1>2, <2>1, <2>2, <2>3, MovesKept
  <1>4. CASE /\ x4' = [x4 EXCEPT ![j].status = "needs_reconciliation"] /\ Planning!End(c, "unknown")
             /\ UNCHANGED <<x5, x6>>
    <2>1. PlanMoves(j, plan, "needs_reconciliation", "running")
      <3>1. SetsTo(c, "needs_reconciliation", "running") BY <1>4 DEF SetsTo
      <3> QED BY <1>1, <3>1, StatusSet
    <2>2. OneMoves(c) /\ ExecutionGood(x7[c])' BY <1>1, <1>4, EndMoves
    <2>3. <<"needs_reconciliation", "running">> \in Pairs BY DEF Pairs
    <2> QED BY <1>1, <1>2, <2>1, <2>2, <2>3, MovesKept
  <1> QED BY <1>3, <1>4 DEF Planning!Complete

\* Proxmox and the cache change under the creations.
LEMMA WorldMoves ==
  ASSUME Planning!IInv, x1' \in WorldRows, x2' \in Planning!Inventories, UNCHANGED <<x3, x4, x5, x6, x7, x8>>
  PROVE  Planning!IInv'
  <1>1. x4 \in [Jobs -> PlanOpRows] /\ x5 \in [Jobs -> CreationRows] /\ x7 \in [Calls -> PlanCallRows]
    BY PlanningRows
  <1>2. \A d \in Calls : ExecutionGood(x7[d])'
    <2> TAKE d \in Calls
    <2>1. Elsewhere(x7[d]) BY DEF Elsewhere
    <2> QED BY <2>1, PlanOthersKept
  <1>3. \A j \in Jobs : Planning!OpSound(j)' BY DEF Planning!IInv, Planning!OpSound
  <1>4. (Planning!LocksSound /\ Planning!OneAtATime /\ Planning!DispatchIsReviewed)'
    BY DEF Planning!IInv, Planning!LocksSound, Planning!OneAtATime, Planning!DispatchIsReviewed
  <1>5. x3' \subseteq Planning!Plans /\ x6' \in [Vmids -> Jobs \cup {None}] /\ \A s \in x8' : s.job \in Jobs
          /\ s.plan \in Planning!Plans
    BY DEF Planning!IInv, Planning!TypeOK
  <1>6. x4' \in [Jobs -> PlanOpRows] /\ x5' \in [Jobs -> CreationRows] /\ x7' \in [Calls -> PlanCallRows]
    BY <1>1
  <1> QED BY <1>2, <1>3, <1>4, <1>5, <1>6, PlanningNext DEF WorldRows
\* Others change Proxmox.
LEMMA ChangeKept ==
  ASSUME Planning!IInv, Planning!Change
  PROVE  Planning!IInv'
  <1>1. x1 \in WorldRows /\ x2 \in Planning!Inventories BY DEF Planning!IInv, Planning!TypeOK, WorldRows
  <1>2. UNCHANGED <<x2, x3, x4, x5, x6, x7, x8>> BY DEF Planning!Change
  <1>3. x1' \in WorldRows
    <2>1. ASSUME NEW v \in Vmids, x1' = [x1 EXCEPT !.vms = IF v \in @ THEN @ \ {v} ELSE @ \cup {v}]
          PROVE  x1' \in WorldRows
      BY <1>1, <2>1 DEF WorldRows
    <2>2. ASSUME NEW t \in Templates, x1' = [x1 EXCEPT !.template = t] PROVE x1' \in WorldRows
      BY <1>1, <2>2 DEF WorldRows
    <2>3. CASE x1' = [x1 EXCEPT !.guests = ~@] BY <1>1, <2>3 DEF WorldRows
    <2>4. CASE x1' = [x1 EXCEPT !.answers = ~@] BY <1>1, <2>4 DEF WorldRows
    <2> QED BY <2>1, <2>2, <2>3, <2>4 DEF Planning!Change
  <1> QED BY <1>1, <1>2, <1>3, WorldMoves
\* The cached inventory is read again.
LEMMA RefreshKept ==
  ASSUME Planning!IInv, Planning!Refresh
  PROVE  Planning!IInv'
  <1>1. x1 \in WorldRows BY DEF Planning!IInv, Planning!TypeOK, WorldRows
  <1>2. Planning!FreshInventory \in Planning!Inventories
    BY <1>1 DEF Planning!FreshInventory, WorldRows, Planning!Inventories
  <1>3. ASSUME NEW t \in Templates, x2' = [Planning!FreshInventory EXCEPT !.template = t, !.whole = FALSE]
        PROVE  x2' \in Planning!Inventories
    BY <1>2, <1>3 DEF Planning!Inventories
  <1> QED BY <1>1, <1>2, <1>3, WorldMoves DEF Planning!Refresh

\* Nothing is planned at first.
LEMMA PlanningInit ==
  ASSUME Planning!Init
  PROVE  Planning!IInv
  <1> DEFINE t == CHOOSE x \in Templates : TRUE
  <1>1. t \in Templates BY PlanningAssumption
  <1>2. /\ x1 = [vms |-> {}, template |-> t, guests |-> TRUE, answers |-> FALSE]
        /\ x2 = [vms |-> {}, template |-> t, guests |-> TRUE, whole |-> TRUE]
        /\ x3 = {} /\ x8 = {}
        /\ x4 = [j \in Jobs |-> [status |-> "none", plan |-> None]]
        /\ x5 = [j \in Jobs |-> [status |-> "none", plan |-> None]]
        /\ x6 = [v \in Vmids |-> None] /\ x7 = [c \in Calls |-> Planning!NoCall]
    BY DEF Planning!Init
  <1> HIDE DEF t
  <1>3. Planning!NoCall \in PlanCallRows /\ Planning!NoCall.pc = "idle" BY DEF Planning!NoCall, PlanCallRows
  <1>4. Planning!TypeOK
    <2>1. x1 \in WorldRows /\ x2 \in Planning!Inventories BY <1>1, <1>2 DEF WorldRows, Planning!Inventories
    <2>2. x4 \in [Jobs -> PlanOpRows] /\ x5 \in [Jobs -> CreationRows] /\ x7 \in [Calls -> PlanCallRows]
      BY <1>2, <1>3 DEF PlanOpRows, CreationRows
    <2>3. x6 \in [Vmids -> Jobs \cup {None}] BY <1>2
    <2> QED BY <1>2, <2>1, <2>2, <2>3 DEF Planning!TypeOK, WorldRows, PlanOpRows, CreationRows, PlanCallRows
  <1>5. \A j \in Jobs : Planning!OpSound(j) BY <1>2 DEF Planning!OpSound, Planning!Early
  <1>6. \A c \in Calls : Planning!CallSound(x7[c]) BY <1>2, <1>3 DEF Planning!CallSound, Planning!Active
  <1>7. Planning!LocksSound BY <1>2, PlanningAssumption DEF Planning!LocksSound
  <1>8. Planning!OneAtATime BY <1>2, <1>3 DEF Planning!OneAtATime, Planning!Active
  <1>9. Planning!DispatchIsReviewed BY <1>2 DEF Planning!DispatchIsReviewed
  <1>10. Planning!CompletedIsReplayed /\ Planning!RefusedForCause
    BY <1>2, <1>3 DEF Planning!CompletedIsReplayed, Planning!RefusedForCause
  <1> QED BY <1>4, <1>5, <1>6, <1>7, <1>8, <1>9, <1>10 DEF Planning!IInv

\* Every step keeps it.
LEMMA PlanningStep ==
  ASSUME Planning!IInv, Planning!Next
  PROVE  Planning!IInv'
  <1>1. ASSUME NEW j \in Jobs, NEW asked \in Asked, Planning!PlanDraft(j, asked) PROVE Planning!IInv'
    BY <1>1, PlanDraftKept
  <1>2. ASSUME NEW j \in Jobs, NEW asked \in Asked, NEW seen \in Planning!Reviews(j), NEW ack \in BOOLEAN,
               Planning!ApproveDraft(j, asked, seen, ack)
        PROVE  Planning!IInv'
    BY <1>2, ApproveDraftKept
  <1>3. ASSUME NEW c \in Calls, Planning!Execute(c) PROVE Planning!IInv' BY <1>3, ExecuteKept
  <1>4. ASSUME NEW c \in Calls, Planning!Arm(c) PROVE Planning!IInv' BY <1>4, ArmKept
  <1>5. ASSUME NEW c \in Calls, Planning!Validate(c) PROVE Planning!IInv' BY <1>5, ValidateKept
  <1>6. ASSUME NEW c \in Calls, Planning!Clone(c) PROVE Planning!IInv' BY <1>6, CloneKept
  <1>7. ASSUME NEW c \in Calls, Planning!Complete(c) PROVE Planning!IInv' BY <1>7, CompleteKept
  <1>8. ASSUME NEW c \in Calls, Planning!Return(c) PROVE Planning!IInv' BY <1>8, ReturnKept
  <1> QED BY <1>1, <1>2, <1>3, <1>4, <1>5, <1>6, <1>7, <1>8, ChangeKept, RefreshKept DEF Planning!Next

\* Nothing happens here.
LEMMA PlanningStutter ==
  ASSUME Planning!IInv, UNCHANGED <<x1, x2, x3, x4, x5, x6, x7, x8, x9>>
  PROVE  Planning!IInv'
  <1>1. x1' \in WorldRows /\ x2' \in Planning!Inventories BY DEF Planning!IInv, Planning!TypeOK, WorldRows
  <1> QED BY <1>1, WorldMoves

\* It implies what a creation promises.
LEMMA PlanningHolds ==
  ASSUME Planning!IInv
  PROVE  Planning!PlanningInv
  <1>1. \A c, d \in Calls :
          (c # d /\ {x7[c].pc, x7[d].pc} \subseteq {"armed", "valid", "created"})
            => x7[c].plan.vmid # x7[d].plan.vmid
    <2> SUFFICES ASSUME NEW c \in Calls, NEW d \in Calls, c # d, x7[c].pc \in Planning!Active,
          x7[d].pc \in Planning!Active
        PROVE  x7[c].plan.vmid # x7[d].plan.vmid
      BY DEF Planning!Active
    <2>1. x6[x7[c].plan.vmid] = x7[c].job /\ x6[x7[d].plan.vmid] = x7[d].job BY ActiveKnows
    <2>2. x7[c].job # x7[d].job BY ActiveKnows
    <2> QED BY <2>1, <2>2
  <1>2. \A j, k \in Jobs :
          (j # k /\ {x4[j].status, x4[k].status} \subseteq {"dispatching", "running", "needs_reconciliation"})
            => x4[j].plan.vmid # x4[k].plan.vmid
    <2>1. ASSUME NEW j \in Jobs, x4[j].status \in {"dispatching", "running", "needs_reconciliation"}
          PROVE  x6[x4[j].plan.vmid] = j
      <3>1. x5[j].status = "running" /\ x5[j].plan = x4[j].plan /\ x4[j].plan \in Planning!Plans
        BY <2>1 DEF Planning!IInv, Planning!OpSound
      <3>2. x4[j].plan.vmid \in Vmids BY <3>1 DEF Planning!Plans
      <3> QED BY <3>1, <3>2 DEF Planning!IInv, Planning!LocksSound
    <2> QED BY <2>1
  <1>3. \A s, t \in x8 : s.job = t.job => s = t BY DEF Planning!IInv, Planning!OneAtATime
  <1> QED BY <1>1, <1>2, <1>3 DEF Planning!IInv, Planning!PlanningInv, Planning!OneCreationPerVmid

\* A creation, of any jobs, callers, templates and VMIDs: what is dispatched is the plan that was shown and
\* acknowledged, true of Proxmox when it was validated; a VMID has one creation under way and a job sends one
\* clone; a repeat is replayed; one refused as changed was changed, in more than a guest agent (application.py).
THEOREM CreationsAreAsReviewed == Spec => []PlanningInv
  <1> DEFINE Sound == part = "planning" => Planning!IInv
  <1>1. Init => Sound
    BY PlanningInit DEF Init
  <1>2. ASSUME Sound, [Next]_vars
        PROVE  Sound'
    <2>1. CASE part # "planning"
      BY <1>2, <2>1 DEF Next, vars
    <2>2. CASE part = "planning" /\ Next
      <3>1. Planning!Next
        BY <2>2 DEF Next
      <3> QED BY <1>2, <2>2, <3>1, PlanningStep DEF Next
    <2>3. CASE part = "planning" /\ UNCHANGED vars
      <3>1. UNCHANGED <<x1, x2, x3, x4, x5, x6, x7, x8, x9>>
        BY <2>3 DEF vars
      <3> QED BY <1>2, <2>3, <3>1, PlanningStutter DEF vars
    <2> QED BY <1>2, <2>1, <2>2, <2>3
  <1>3. Sound => PlanningInv
    BY PlanningHolds DEF PlanningInv
  <1> QED BY <1>1, <1>2, <1>3, PTL DEF Spec

=============================================================================
