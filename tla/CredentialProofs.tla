-------------------------- MODULE CredentialProofs --------------------------
(***************************************************************************)
(* Theorems about the registration of Proxmox tokens and the credential of *)
(* the connection: mutations keep the credential they were admitted with,  *)
(* it lives while they are admitted, and every token issued is accounted   *)
(* for.  They are stated of MCServices, in which the registration is one   *)
(* part; the lemmas are about Registration alone (its steps are            *)
(* Credentials!Next), and it keeps the names of its own module behind its  *)
(* prefix.  Its variables, as MCServices names them:                       *)
(*                                                                         *)
(*   x1 conn, x2 att, x3 token, x4 posts, x5 work, x6 pin, x7 ctx, x8 req, *)
(*   x9 faults                                                             *)
(*                                                                         *)
(* The invariant, Credentials!IInv, ties what a request acts on to what    *)
(* there is: the version of the attempt it has read while that is the      *)
(* last, a token that was seen, a token that was deleted.  Each lemma      *)
(* XKept says that operation X preserves it.                               *)
(***************************************************************************)
EXTENDS MCServices, TLAPS

-----------------------------------------------------------------------------
(* Types, and the invariant in parts. *)

AttemptRows ==
  [mode : {"issue", "import"}, phase : Credentials!Phases, resolved : BOOLEAN,
   base : Attempts \cup {Env}, op : Credentials!OperationStatuses, revoking : BOOLEAN,
   cred : {"none", "pending", "active", "retiring", "revoked"}, granted : BOOLEAN]
RequestRows == [pc : Credentials!Pcs, a : Attempts \cup {None}, fresh : BOOLEAN, then : BOOLEAN]

\* What no request acts on: the processes' pins, the logins, the count of faults.
AsideTyped ==
  /\ x6 \in [Procs -> Attempts \cup {Env, None}]
  /\ x7 \in [Attempts -> {"none", "challenge", "ready", "planned"}]
  /\ x9 \in 0..MaxFaults

\* The types of the registration.
LEMMA RegistrationRows ==
  ASSUME Credentials!IInv
  PROVE  /\ x1 \in [rev : Attempts \cup {Env}, open : BOOLEAN]
         /\ x2 \in [Attempts -> AttemptRows]
         /\ x3 \in [Attempts -> {"none", "sent", "there", "deleted"}]
         /\ x4 \in [Attempts -> Nat] /\ x5 \in [Procs -> BOOLEAN]
         /\ x8 \in [Requests -> RequestRows] /\ AsideTyped
         /\ \A a \in Attempts : x2[a] \in AttemptRows /\ Credentials!RowSound(x2[a])
            /\ Credentials!TokenSound(a)
         /\ \A r \in Requests : x8[r] \in RequestRows /\ Credentials!RequestSound(r)
         /\ Credentials!OneSends /\ Credentials!ConnectionSound
  <1>1. Credentials!TypeOK
    BY DEF Credentials!IInv
  <1>2. x2 \in [Attempts -> AttemptRows] /\ x8 \in [Requests -> RequestRows]
    BY <1>1 DEF Credentials!TypeOK, AttemptRows, RequestRows
  <1> QED BY <1>1, <1>2 DEF Credentials!TypeOK, AsideTyped, Credentials!IInv

\* The invariant, put together again.
LEMMA RegistrationNext ==
  ASSUME (x1 \in [rev : Attempts \cup {Env}, open : BOOLEAN])',
         (x2 \in [Attempts -> AttemptRows])',
         (x3 \in [Attempts -> {"none", "sent", "there", "deleted"}])',
         (x4 \in [Attempts -> Nat])', (x5 \in [Procs -> BOOLEAN])',
         (x8 \in [Requests -> RequestRows])', AsideTyped',
         \A a \in Attempts : Credentials!RowSound(x2[a])' /\ Credentials!TokenSound(a)',
         \A r \in Requests : Credentials!RequestSound(r)', Credentials!OneSends', Credentials!ConnectionSound'
  PROVE  Credentials!IInv'
  BY DEF Credentials!IInv, Credentials!TypeOK, AsideTyped, AttemptRows, RequestRows

\* Rows that agree in what the invariant says of an attempt.
Alike(row, w) ==
  /\ row.mode = w.mode /\ row.phase = w.phase /\ row.granted = w.granted
  /\ row.resolved = w.resolved /\ row.op = w.op /\ row.revoking = w.revoking

\* An attempt keeps its parts while what they are about is not written.
LEMMA AttemptStays ==
  ASSUME NEW a \in Attempts, Alike(x2'[a], x2[a]), x3'[a] = x3[a], x4'[a] = x4[a]
  PROVE  /\ Credentials!RowSound(x2[a])' <=> Credentials!RowSound(x2[a])
         /\ Credentials!TokenSound(a)' <=> Credentials!TokenSound(a)
  BY DEF Credentials!RowSound, Credentials!TokenSound, Credentials!Usable, Alike

\* A request nobody moves, about an attempt nobody writes, stays sound.
LEMMA RequestStays ==
  ASSUME NEW r \in Requests, x8'[r] = x8[r], Credentials!RequestSound(r),
         x8[r].pc # "idle" => Alike(x2'[x8[r].a], x2[x8[r].a]) /\ x3'[x8[r].a] = x3[x8[r].a]
  PROVE  Credentials!RequestSound(r)'
  BY DEF Credentials!RequestSound, Credentials!At, Credentials!Usable, Alike

\* An idle request has nothing to be sound about.
LEMMA IdleSound ==
  /\ Credentials!Idle \in RequestRows /\ Credentials!Idle.pc = "idle"
  /\ \A r \in Requests : x8'[r] = Credentials!Idle => Credentials!RequestSound(r)'
  BY DEF Credentials!Idle, RequestRows, Credentials!Pcs, Credentials!RequestSound, Credentials!At

\* The attempt's row is replaced, and the others' readings of it are outdated.
LEMMA SaveKept ==
  ASSUME Credentials!IInv, NEW a \in Attempts, NEW row \in AttemptRows, NEW r,
         x2' \in [Attempts -> AttemptRows], x2'[a] = row,
         \A b \in Attempts \ {a} : Alike(x2'[b], x2[b]), Credentials!RowSound(row),
           Credentials!TokenSound(a)',
         row.phase # "none", x2[a].phase = "token_dispatching" => x3[a] # "none",
         x2[a].phase \in Credentials!Closing => row.phase \in Credentials!Closing,
         x2[a].phase # "none" => row.mode = x2[a].mode,
         x8' \in [Requests -> RequestRows],
         \A q \in Requests : \/ x8'[q] = Credentials!Outdate(a)[q]
                             \/ /\ q = r /\ Credentials!RequestSound(q)'
                                /\ x8'[q].pc = "post" => x8'[q].a = a,
         UNCHANGED <<x3, x4, x5>>, (x1 \in [rev : Attempts \cup {Env}, open : BOOLEAN])',
         AsideTyped', Credentials!ConnectionSound'
  PROVE  Credentials!IInv'
  <1>1. x2'[a] = row /\ \A b \in Attempts \ {a} : Alike(x2'[b], x2[b])
    OBVIOUS
  <1>2. \A b \in Attempts : Credentials!RowSound(x2[b])' /\ Credentials!TokenSound(b)'
    <2>1. ASSUME NEW b \in Attempts, b # a PROVE Credentials!RowSound(x2[b])' /\ Credentials!TokenSound(b)'
      BY <1>1, <2>1, AttemptStays, RegistrationRows
    <2>2. Credentials!RowSound(x2[a])'
      BY <1>1 DEF Credentials!RowSound
    <2> QED BY <2>1, <2>2
  <1>3. ASSUME NEW q \in Requests, x8[q].pc = "post" PROVE x8[q].a # a
    BY <1>3, RegistrationRows DEF Credentials!RequestSound, Credentials!PhasesAt, Credentials!At
  <1>4. ASSUME NEW q \in Requests, x8'[q] = Credentials!Outdate(a)[q]
        PROVE  /\ x8'[q].pc = x8[q].pc /\ x8'[q].a = x8[q].a
               /\ x8[q].a # a => x8'[q] = x8[q]
               /\ x8[q].a = a => x8'[q].fresh = FALSE
    <2>1. x8[q] \in RequestRows
      BY RegistrationRows
    <2> QED BY <1>4, <2>1 DEF Credentials!Outdate, RequestRows
  <1>5. ASSUME NEW q \in Requests, x8'[q] = Credentials!Outdate(a)[q] PROVE Credentials!RequestSound(q)'
    <2>1. x8[q] \in RequestRows /\ Credentials!RequestSound(q)
      BY RegistrationRows
    <2>2. CASE x8[q].pc = "idle"
      BY <1>5, <2>1, <2>2, <1>4 DEF Credentials!RequestSound, Credentials!At
    <2>3. CASE x8[q].pc # "idle" /\ x8[q].a # a
      <3>1. x8'[q] = x8[q] /\ x8[q].a \in Attempts
        BY <1>5, <2>1, <2>3, <1>4 DEF Credentials!RequestSound, Credentials!At
      <3> QED BY <1>1, <2>1, <2>3, <3>1, RequestStays
    <2>4. CASE x8[q].pc # "idle" /\ x8[q].a = a
      <3>1. x8'[q].pc = x8[q].pc /\ x8'[q].a = a /\ x8'[q].fresh = FALSE
        BY <1>5, <2>1, <2>4, <1>4
      <3>2. x8[q].pc # "post"
        BY <1>3, <2>4
      <3> QED BY <1>1, <2>1, <2>4, <3>1, <3>2 DEF Credentials!RequestSound, Credentials!At
    <2> QED BY <2>2, <2>3, <2>4
  <1>6. \A q \in Requests : Credentials!RequestSound(q)'
    BY <1>5
  <1>7. ASSUME NEW q \in Requests, NEW s \in Requests, x8'[q].pc = "post", x8'[s].pc = "post",
               x8'[q].a = x8'[s].a
        PROVE  q = s
    <2>1. ASSUME NEW t \in Requests, t # r, x8'[t].pc = "post"
          PROVE  x8[t].pc = "post" /\ x8[t].a = x8'[t].a /\ x8'[t].a # a
      BY <1>3, <2>1, <1>4, RegistrationRows
    <2>2. ASSUME NEW t \in Requests, x8'[t].pc = "post", x8'[t].a # a
          PROVE  x8[t].pc = "post" /\ x8[t].a = x8'[t].a
      BY <2>2, <1>4, RegistrationRows
    <2>3. CASE x8'[q].a = a
      BY <1>7, <2>1, <2>3
    <2>4. CASE x8'[q].a # a
      BY <1>7, <2>2, <2>4, RegistrationRows DEF Credentials!OneSends, Credentials!At
    <2> QED BY <2>3, <2>4
  <1>8. Credentials!OneSends'
    BY <1>7 DEF Credentials!OneSends, Credentials!At
  <1> QED BY <1>1, <1>2, <1>6, <1>8, RegistrationRows, RegistrationNext

\* A request moves and nothing else does.
LEMMA MoveKept ==
  ASSUME Credentials!IInv, NEW r \in Requests, NEW row \in RequestRows, x8' = [x8 EXCEPT ![r] = row],
         Credentials!RequestSound(r)', row.pc # "post", UNCHANGED <<x1, x2, x3, x4, x5>>,
         AsideTyped', x6' = x6
  PROVE  Credentials!IInv'
  <1>1. x8' \in [Requests -> RequestRows] /\ x8'[r] = row /\ \A q \in Requests \ {r} : x8'[q] = x8[q]
    BY RegistrationRows
  <1>2. \A q \in Requests : Credentials!RequestSound(q)'
    <2>1. ASSUME NEW q \in Requests, q # r PROVE Credentials!RequestSound(q)'
      BY <1>1, <2>1, RequestStays, RegistrationRows DEF Alike
    <2> QED BY <2>1
  <1>3. Credentials!OneSends'
    BY <1>1, RegistrationRows DEF Credentials!OneSends, Credentials!At
  <1>4. \A b \in Attempts : Credentials!RowSound(x2[b])' /\ Credentials!TokenSound(b)'
    BY AttemptStays, RegistrationRows DEF Alike
  <1>5. Credentials!ConnectionSound'
    BY RegistrationRows DEF Credentials!ConnectionSound, Credentials!PinAgrees
  <1> QED BY <1>1, <1>2, <1>3, <1>4, <1>5, RegistrationRows, RegistrationNext

\* The connection is nobody's business but that of its credential.
LEMMA ConnectionStays ==
  ASSUME Credentials!IInv, NEW a \in Attempts, x2' \in [Attempts -> AttemptRows],
         \A b \in Attempts \ {a} : x2'[b] = x2[b], UNCHANGED <<x1, x5, x6>>,
         x2[a].phase \notin Credentials!Closing \cup {"active"}
           \/ (x2'[a].phase = x2[a].phase /\ x2'[a].cred = x2[a].cred)
  PROVE  Credentials!ConnectionSound'
  <1>1. Credentials!ConnectionSound /\ x1.rev \in Attempts \cup {Env}
    BY RegistrationRows
  <1>2. ASSUME x1.rev # Env
        PROVE  x2'[x1.rev].phase = x2[x1.rev].phase /\ x2'[x1.rev].cred = x2[x1.rev].cred
    BY <1>1, <1>2 DEF Credentials!ConnectionSound
  <1> QED BY <1>1, <1>2 DEF Credentials!ConnectionSound, Credentials!PinAgrees

\* A request goes on.
LEMMA Moved ==
  ASSUME Credentials!IInv, NEW r \in Requests, NEW pc \in Credentials!Pcs, Credentials!Goto(r, pc)
  PROVE  \E row \in RequestRows :
           /\ x8' = [x8 EXCEPT ![r] = row] /\ x8'[r] = row /\ row.pc = pc
           /\ pc = "idle" => row = Credentials!Idle
           /\ pc # "idle" => row.a = x8[r].a /\ row.fresh = x8[r].fresh /\ row.then = x8[r].then
  <1>1. x8[r] \in RequestRows /\ x8 \in [Requests -> RequestRows]
    BY RegistrationRows
  <1> DEFINE y == IF pc = "idle" THEN Credentials!Idle ELSE [x8[r] EXCEPT !.pc = pc]
  <1>2. /\ y \in RequestRows /\ y.pc = pc /\ (pc = "idle" => y = Credentials!Idle)
        /\ pc # "idle" => y.a = x8[r].a /\ y.fresh = x8[r].fresh /\ y.then = x8[r].then
    BY <1>1, IdleSound DEF RequestRows
  <1>3. x8' = [x8 EXCEPT ![r] = y]
    BY <1>1 DEF Credentials!Goto
  <1> HIDE DEF y
  <1>4. x8'[r] = y
    BY <1>1, <1>3
  <1>5. y \in RequestRows
    BY <1>2
  <1> WITNESS y \in RequestRows
  <1> QED BY <1>2, <1>3, <1>4

\* A request is given up, or ends.
LEMMA FailKept ==
  ASSUME Credentials!IInv, NEW r \in Requests, Credentials!Goto(r, "idle"),
         UNCHANGED <<x1, x2, x3, x4, x5, x6>>, AsideTyped'
  PROVE  Credentials!IInv'
  <1>1. PICK row \in RequestRows : x8' = [x8 EXCEPT ![r] = row] /\ x8'[r] = row /\ row.pc = "idle"
      /\ row = Credentials!Idle
    BY Moved DEF Credentials!Pcs
  <1> QED BY <1>1, IdleSound, MoveKept

\* Attempt a's row is now row, and nobody else's has changed.
Rewritten(a, row) ==
  /\ x2' \in [Attempts -> AttemptRows] /\ x2'[a] = row
  /\ \A b \in Attempts \ {a} : x2'[b] = x2[b] /\ Alike(x2'[b], x2[b])

\* Request r has gone on to pc, as y, with the version it wrote; the others' is outdated.
Onward(r, a, y, pc) ==
  /\ x8' \in [Requests -> RequestRows] /\ x8'[r] = y
     /\ \A q \in Requests \ {r} : x8'[q] = Credentials!Outdate(a)[q]
  /\ y.pc = pc /\ (pc = "idle" => y = Credentials!Idle) /\ (pc # "idle" => y.a = a /\ y.fresh = TRUE)

\* A request saves its attempt, and nobody else's.
LEMMA SavedRow ==
  ASSUME Credentials!IInv, NEW r \in Requests, NEW a \in Attempts, NEW row \in AttemptRows,
         NEW pc \in Credentials!Pcs, Credentials!Save(r, a, row, pc)
  PROVE  Rewritten(a, row)
  <1>1. x2' = [x2 EXCEPT ![a] = row]
    BY DEF Credentials!Save
  <1> QED BY <1>1, RegistrationRows DEF Alike, Rewritten

\* It goes on with the version it wrote, and outdates what the others read.
LEMMA SavedAt ==
  ASSUME Credentials!IInv, NEW r \in Requests, NEW a, a = x8[r].a, a \in Attempts,
         NEW row \in AttemptRows, NEW pc \in Credentials!Pcs, Credentials!Save(r, a, row, pc)
  PROVE  \E y \in RequestRows : Onward(r, a, y, pc)
  <1>1. x8[r] \in RequestRows /\ \A q \in Requests : x8[q] \in RequestRows
    BY RegistrationRows
  <1>2. Credentials!Outdate(a) \in [Requests -> RequestRows]
    BY <1>1 DEF Credentials!Outdate, RequestRows
  <1> DEFINE w == IF pc = "idle" THEN Credentials!Idle ELSE [x8[r] EXCEPT !.pc = pc, !.fresh = TRUE]
  <1>3. x8' = [Credentials!Outdate(a) EXCEPT ![r] = w]
    BY DEF Credentials!Save
  <1>4. w \in RequestRows /\ w.pc = pc /\ (pc = "idle" => w = Credentials!Idle)
    BY <1>1, IdleSound DEF RequestRows
  <1>5. pc # "idle" => w.a = a /\ w.fresh = TRUE
    BY <1>1 DEF RequestRows
  <1> HIDE DEF w
  <1>6. PICK y \in RequestRows : y = w
    BY <1>4
  <1>7. x8' \in [Requests -> RequestRows] /\ x8'[r] = y
      /\ \A q \in Requests \ {r} : x8'[q] = Credentials!Outdate(a)[q]
    BY <1>2, <1>3, <1>6
  <1>8. Onward(r, a, y, pc)
    BY <1>4, <1>5, <1>6, <1>7 DEF Onward
  <1> QED BY <1>8

\* The attempt's row is saved and the request goes on.
LEMMA SaveStep ==
  ASSUME Credentials!IInv, NEW r \in Requests, NEW a, a = x8[r].a, a \in Attempts,
         NEW row \in AttemptRows, NEW pc \in Credentials!Pcs, Credentials!Save(r, a, row, pc),
         Credentials!RowSound(row), row.phase # "none", row.mode = x2[a].mode,
         x2[a].phase = "token_dispatching" => x3[a] # "none",
         x2[a].phase \in Credentials!Closing => row.phase \in Credentials!Closing,
           row.phase \in Credentials!PhasesAt(pc),
         Credentials!TokenSound(a)', pc \in {"judge", "conclude"} => Credentials!Usable(a)',
         pc = "post" => x3[a] = "none", pc \notin {"stage", "import", "begin", "absent", "finish"},
         pc = "stageImport" => x2[a].mode = "import",
         pc = "delete" => row.phase \in Credentials!Closing /\ x3[a] \in {"there", "deleted"},
         UNCHANGED <<x3, x4, x5>>, (x1 \in [rev : Attempts \cup {Env}, open : BOOLEAN])',
         AsideTyped', Credentials!ConnectionSound'
  PROVE  Credentials!IInv'
  <1>1. Rewritten(a, row)
    BY SavedRow
  <1>2. PICK y \in RequestRows : Onward(r, a, y, pc)
    BY SavedAt
  <1>3. Credentials!RequestSound(r)'
    <2>1. CASE pc = "idle"
      BY <1>2, <2>1, IdleSound DEF Onward
    <2>2. CASE pc # "idle"
      BY <1>1, <1>2, <2>2 DEF Credentials!RequestSound, Credentials!At, Rewritten, Onward
    <2> QED BY <2>1, <2>2
  <1>4. \A q \in Requests : \/ x8'[q] = Credentials!Outdate(a)[q]
                            \/ q = r /\ Credentials!RequestSound(q)' /\ (x8'[q].pc = "post" => x8'[q].a = a)
    BY <1>2, <1>3 DEF Onward
  <1>5. \A b \in Attempts \ {a} : Alike(x2'[b], x2[b])
    BY <1>1 DEF Rewritten
  <1>6. x2' \in [Attempts -> AttemptRows] /\ x2'[a] = row /\ x8' \in [Requests -> RequestRows]
    BY <1>1, <1>2 DEF Rewritten, Onward
  <1> QED BY <1>4, <1>5, <1>6, SaveKept

\* Nobody's request saves the attempt.
LEMMA SavedAlone ==
  ASSUME Credentials!IInv, NEW a \in Attempts, NEW row \in AttemptRows, Credentials!SaveAlone(a, row)
  PROVE  /\ x2' \in [Attempts -> AttemptRows] /\ x2'[a] = row
         /\ \A b \in Attempts \ {a} : x2'[b] = x2[b] /\ Alike(x2'[b], x2[b])
         /\ x8' \in [Requests -> RequestRows] /\ \A q \in Requests : x8'[q] = Credentials!Outdate(a)[q]
  <1>1. \A q \in Requests : x8[q] \in RequestRows
    BY RegistrationRows
  <1>2. Credentials!Outdate(a) \in [Requests -> RequestRows] /\ x8' = Credentials!Outdate(a)
      /\ x2' = [x2 EXCEPT ![a] = row]
    BY <1>1 DEF Credentials!Outdate, RequestRows, Credentials!SaveAlone, Credentials!Written
  <1> QED BY <1>2, RegistrationRows DEF Alike

\* Before a token, an attempt is written by whoever comes.
LEMMA EarlyKept ==
  ASSUME Credentials!IInv, NEW a \in Attempts, NEW row \in AttemptRows, Credentials!SaveAlone(a, row),
         x2[a].phase \in Credentials!Early \cup {"none"}, row.phase \in Credentials!Early \cup {"cancelled"},
         Credentials!RowSound(row), x2[a].phase # "none" => row.mode = x2[a].mode,
         UNCHANGED <<x1, x3, x4, x5, x6>>, AsideTyped'
  PROVE  Credentials!IInv'
  <1>1. /\ x2' \in [Attempts -> AttemptRows] /\ x2'[a] = row
        /\ \A b \in Attempts \ {a} : x2'[b] = x2[b] /\ Alike(x2'[b], x2[b])
        /\ x8' \in [Requests -> RequestRows] /\ \A q \in Requests : x8'[q] = Credentials!Outdate(a)[q]
    BY SavedAlone
  <1>2. x2[a].phase \notin Credentials!Closing \cup {"active", "token_dispatching"} /\ row.phase # "none"
    BY DEF Credentials!Early, Credentials!Closing
  <1>3. Credentials!TokenSound(a) /\ Credentials!TokenSound(a)'
    <2>1. Credentials!TokenSound(a)
      BY RegistrationRows
    <2>2. x3[a] = "none"
      BY <2>1 DEF Credentials!TokenSound
    <2> QED BY <1>1, <2>1, <2>2 DEF Credentials!TokenSound, Credentials!Early
  <1>4. Credentials!ConnectionSound'
    BY <1>1, <1>2, ConnectionStays
  <1>5. (x1 \in [rev : Attempts \cup {Env}, open : BOOLEAN])'
    BY RegistrationRows
  <1> QED BY <1>1, <1>2, <1>3, <1>4, <1>5, SaveKept

-----------------------------------------------------------------------------
(* An attempt until its plan is confirmed. *)

\* What does not concern the requests stays typed.
LEMMA AsideStays ==
  ASSUME Credentials!IInv, UNCHANGED <<x6, x7, x9>>
  PROVE  AsideTyped'
  BY RegistrationRows DEF AsideTyped

\* A login starts, ends or expires.
LEMMA LoginTyped ==
  ASSUME Credentials!IInv, NEW a \in Attempts, NEW l \in {"none", "challenge", "ready", "planned"},
         x7' = [x7 EXCEPT ![a] = l], UNCHANGED <<x6, x9>>
  PROVE  AsideTyped'
  BY RegistrationRows DEF AsideTyped

\* A row that moves to an early phase, or is cancelled.
LEMMA EarlyRow ==
  ASSUME NEW w \in AttemptRows, Credentials!RowSound(w), w.phase \in Credentials!Early,
         NEW phase \in Credentials!Early, NEW row,
         row = [w EXCEPT !.phase = phase]
  PROVE  row \in AttemptRows /\ Credentials!RowSound(row) /\ row.phase = phase /\ row.mode = w.mode
  <1>1. row \in AttemptRows
    BY DEF AttemptRows, Credentials!Phases
  <1>2. /\ row.phase = phase /\ row.mode = w.mode /\ row.op = w.op
        /\ row.resolved = w.resolved /\ row.revoking = w.revoking
    BY DEF AttemptRows
  <1> QED BY <1>1, <1>2 DEF Credentials!RowSound, Credentials!Early, Credentials!Unresolved

\* A new attempt.
LEMMA PrepareKept ==
  ASSUME Credentials!IInv, NEW a \in Attempts, NEW mode \in {"issue", "import"}, Credentials!Prepare(a, mode)
  PROVE  Credentials!IInv'
  <1>1. x2[a] \in AttemptRows /\ Credentials!RowSound(x2[a]) /\ x2[a].phase = "none"
      /\ x1.rev \in Attempts \cup {Env}
    BY RegistrationRows DEF Credentials!Prepare
  <1> DEFINE row == [x2[a] EXCEPT !.mode = mode, !.phase = "prepared", !.base = x1.rev, !.op = "planned"]
  <1>2. row \in AttemptRows
    BY <1>1 DEF AttemptRows, Credentials!Phases, Credentials!Early, Credentials!OperationStatuses
  <1>3. /\ row.phase = "prepared" /\ row.op = "planned"
        /\ row.resolved = x2[a].resolved /\ row.revoking = x2[a].revoking
    BY <1>1 DEF AttemptRows
  <1>4. Credentials!SaveAlone(a, row) /\ UNCHANGED <<x1, x3, x4, x5, x6, x7, x9>>
    BY DEF Credentials!Prepare, Credentials!proxmox, Credentials!process
  <1> HIDE DEF row
  <1>5. Credentials!RowSound(row)
    BY <1>1, <1>3 DEF Credentials!RowSound, Credentials!Unresolved, Credentials!TerminalStatuses
  <1> QED BY <1>1, <1>2, <1>3, <1>4, <1>5, EarlyKept, AsideStays DEF Credentials!Early

\* An early attempt goes on or is left alone.
LEMMA StepEarly ==
  ASSUME Credentials!IInv, NEW a \in Attempts, NEW phase \in Credentials!Early,
         x2[a].phase \in Credentials!Early,
         Credentials!SaveAlone(a, [x2[a] EXCEPT !.phase = phase]),
         UNCHANGED <<x1, x3, x4, x5, x6>>, AsideTyped'
  PROVE  Credentials!IInv'
  <1>1. x2[a] \in AttemptRows /\ Credentials!RowSound(x2[a])
    BY RegistrationRows
  <1>2. PICK row : row = [x2[a] EXCEPT !.phase = phase]
    OBVIOUS
  <1>3. row \in AttemptRows /\ Credentials!RowSound(row) /\ row.phase = phase /\ row.mode = x2[a].mode
    BY <1>1, <1>2, EarlyRow
  <1>4. Credentials!SaveAlone(a, row)
    BY <1>2
  <1> QED BY <1>3, <1>4, EarlyKept

\* Only logins change.
LEMMA AsideKept ==
  ASSUME Credentials!IInv, UNCHANGED <<x1, x2, x3, x4, x5, x6, x8>>, AsideTyped'
  PROVE  Credentials!IInv'
  <1>1. \A r \in Requests : Credentials!RequestSound(r)'
    BY RequestStays, RegistrationRows DEF Alike
  <1>2. \A b \in Attempts : Credentials!RowSound(x2[b])' /\ Credentials!TokenSound(b)'
    BY AttemptStays, RegistrationRows DEF Alike
  <1>3. Credentials!ConnectionSound' /\ Credentials!OneSends'
    BY RegistrationRows DEF Credentials!ConnectionSound, Credentials!PinAgrees, Credentials!OneSends,
       Credentials!At
  <1> QED BY <1>1, <1>2, <1>3, RegistrationRows, RegistrationNext

\* A login renews what the attempt is shown.
LEMMA LoginKept ==
  ASSUME Credentials!IInv, NEW a \in Attempts, Credentials!Login(a)
  PROVE  Credentials!IInv'
  <1>1. PICK challenge \in BOOLEAN :
          /\ x7' = [x7 EXCEPT ![a] = IF challenge THEN "challenge" ELSE "ready"]
          /\ \/ /\ x2[a].phase \in Credentials!Early
                /\ Credentials!SaveAlone(a,
                     [x2[a] EXCEPT !.phase = IF challenge THEN "mfa_required" ELSE "authenticated"])
             \/ UNCHANGED <<x2, x8>>
    BY DEF Credentials!Login
  <1>2. UNCHANGED <<x1, x3, x4, x5, x6, x9>>
    BY DEF Credentials!Login, Credentials!proxmox
  <1>3. PICK l \in {"challenge", "ready"} : l = IF challenge THEN "challenge" ELSE "ready"
    OBVIOUS
  <1>4. AsideTyped'
    BY <1>1, <1>2, <1>3, LoginTyped
  <1>5. PICK phase \in Credentials!Early : phase = IF challenge THEN "mfa_required" ELSE "authenticated"
    BY DEF Credentials!Early
  <1>6. CASE x2[a].phase \in Credentials!Early /\ Credentials!SaveAlone(a, [x2[a] EXCEPT !.phase = phase])
    BY <1>2, <1>4, <1>6, StepEarly
  <1>7. CASE UNCHANGED <<x2, x8>>
    BY <1>2, <1>4, <1>7, AsideKept
  <1> QED BY <1>1, <1>5, <1>6, <1>7

\* The second factor.
LEMMA MfaKept ==
  ASSUME Credentials!IInv, NEW a \in Attempts, Credentials!Mfa(a)
  PROVE  Credentials!IInv'
  <1>1. x7' = [x7 EXCEPT ![a] = "ready"] /\ UNCHANGED <<x1, x3, x4, x5, x6, x9>>
    BY DEF Credentials!Mfa, Credentials!proxmox
  <1>2. AsideTyped'
    BY <1>1, LoginTyped
  <1>3. CASE x2[a].phase = "mfa_required" /\ Credentials!SaveAlone(a, [x2[a] EXCEPT !.phase = "authenticated"])
    BY <1>1, <1>2, <1>3, StepEarly DEF Credentials!Early
  <1>4. CASE UNCHANGED <<x2, x8>>
    BY <1>1, <1>2, <1>4, AsideKept
  <1> QED BY <1>3, <1>4 DEF Credentials!Mfa

\* A plan is shown.
LEMMA PlanKept ==
  ASSUME Credentials!IInv, NEW a \in Attempts, Credentials!Plan(a)
  PROVE  Credentials!IInv'
  <1>1. /\ \/ /\ x2[a].phase \in Credentials!Early
              /\ Credentials!SaveAlone(a, [x2[a] EXCEPT !.phase = "planned"])
           \/ UNCHANGED <<x2, x8>>
        /\ UNCHANGED <<x1, x3, x4, x5, x6, x9>>
    BY DEF Credentials!Plan, Credentials!proxmox, Credentials!Early
  <1>2. AsideTyped'
    BY <1>1, LoginTyped, AsideStays DEF Credentials!Plan
  <1>3. CASE x2[a].phase \in Credentials!Early /\ Credentials!SaveAlone(a, [x2[a] EXCEPT !.phase = "planned"])
    BY <1>1, <1>2, <1>3, StepEarly DEF Credentials!Early
  <1>4. CASE UNCHANGED <<x2, x8>>
    BY <1>1, <1>2, <1>4, AsideKept
  <1> QED BY <1>1, <1>3, <1>4

\* A cancelled attempt is closed, and has sent nothing.
LEMMA CancelKept ==
  ASSUME Credentials!IInv, NEW a \in Attempts, Credentials!Cancel(a)
  PROVE  Credentials!IInv'
  <1>1. /\ x2[a].phase \in Credentials!Early /\ x7' = [x7 EXCEPT ![a] = "none"]
        /\ UNCHANGED <<x1, x3, x4, x5, x6, x9>>
    BY DEF Credentials!Cancel, Credentials!proxmox
  <1>2. AsideTyped'
    BY <1>1, LoginTyped
  <1>3. x2[a] \in AttemptRows /\ Credentials!RowSound(x2[a])
    BY RegistrationRows
  <1> DEFINE row == [x2[a] EXCEPT !.phase = "cancelled", !.resolved = TRUE, !.op = "cancelled"]
  <1>4. row \in AttemptRows
    BY <1>3 DEF AttemptRows, Credentials!Phases, Credentials!OperationStatuses
  <1>5. /\ row.phase = "cancelled" /\ row.op = "cancelled" /\ row.mode = x2[a].mode
        /\ row.resolved = TRUE /\ row.revoking = x2[a].revoking
    BY <1>3 DEF AttemptRows
  <1>6. Credentials!SaveAlone(a, row)
    BY DEF Credentials!Cancel
  <1> HIDE DEF row
  <1>7. Credentials!RowSound(row)
    BY <1>1, <1>3, <1>5 DEF Credentials!RowSound, Credentials!Early, Credentials!Unresolved,
       Credentials!TerminalStatuses
  <1> QED BY <1>1, <1>2, <1>4, <1>5, <1>6, <1>7, EarlyKept

-----------------------------------------------------------------------------
(* A request advances its attempt. *)

\* What a request that is under way is about.
LEMMA UnderWay ==
  ASSUME Credentials!IInv, NEW r \in Requests, ~Credentials!At(r, "idle"), NEW a, a = x8[r].a
  PROVE  /\ a \in Attempts /\ x2[a] \in AttemptRows /\ Credentials!RowSound(x2[a])
            /\ Credentials!TokenSound(a)
         /\ Credentials!RequestSound(r) /\ x8[r] \in RequestRows /\ x2[a].phase # "none"
         /\ x8[r].fresh => x2[a].phase \in Credentials!PhasesAt(x8[r].pc)
  <1>1. Credentials!RequestSound(r) /\ x8[r] \in RequestRows
    BY RegistrationRows
  <1>2. a \in Attempts /\ x2[a].phase # "none"
      /\ (x8[r].fresh => x2[a].phase \in Credentials!PhasesAt(x8[r].pc))
    BY <1>1 DEF Credentials!RequestSound
  <1> QED BY <1>1, <1>2, RegistrationRows

\* The phase of an attempt that advances is written with the version that was read.
LEMMA AdvanceKept ==
  ASSUME Credentials!IInv, NEW r \in Requests, ~Credentials!At(r, "idle"), NEW a, a = x8[r].a,
         NEW phase \in {"token_dispatching", "import_staging", "acl_applying", "verifying", "verified"},
         NEW op \in Credentials!OperationStatuses,
         NEW pc \in {"idle", "post", "grant", "verify", "conclude", "activate", "stageImport"},
         Credentials!Advance(r, phase, op, pc),
         x8[r].fresh =>
           /\ x2[a].phase \in Credentials!Unresolved \ {"token_dispatching"}
           /\ (op = x2[a].op \/ op \notin Credentials!TerminalStatuses)
           /\ phase \in Credentials!PhasesAt(pc)
           /\ phase = "verified" \/ pc = "conclude" => Credentials!Usable(a)
           /\ pc = "post" => x3[a] = "none"
           /\ pc = "stageImport" => x2[a].mode = "import",
         UNCHANGED <<x1, x3, x4, x5, x6>>, AsideTyped'
  PROVE  Credentials!IInv'
  <1>1. /\ a \in Attempts /\ x2[a] \in AttemptRows /\ Credentials!RowSound(x2[a]) /\ Credentials!TokenSound(a)
        /\ Credentials!RequestSound(r) /\ x8[r] \in RequestRows /\ x2[a].phase # "none"
    BY UnderWay
  <1>2. CASE ~(x8[r].fresh /\ ~x2[a].resolved /\ Credentials!MayTransition(x2[a].op, op))
    <2>1. Credentials!Goto(r, "idle") /\ UNCHANGED x2
      BY <1>2 DEF Credentials!Advance
    <2> QED BY <2>1, FailKept
  <1>3. CASE x8[r].fresh /\ ~x2[a].resolved /\ Credentials!MayTransition(x2[a].op, op)
    <2> DEFINE row == [x2[a] EXCEPT !.phase = phase, !.op = op]
    <2>1. Credentials!Save(r, a, row, pc)
      BY <1>3 DEF Credentials!Advance
    <2>2. phase \in Credentials!Phases /\ pc \in Credentials!Pcs
      BY DEF Credentials!Phases, Credentials!Pcs
    <2>3. row \in AttemptRows
      BY <1>1, <2>2 DEF AttemptRows
    <2>4. /\ row \in AttemptRows /\ row.phase = phase /\ row.op = op /\ row.mode = x2[a].mode
          /\ row.granted = x2[a].granted /\ row.resolved = x2[a].resolved /\ row.revoking = x2[a].revoking
          /\ row.cred = x2[a].cred
      BY <1>1, <2>3 DEF AttemptRows
    <2> HIDE DEF row
    <2>5. Rewritten(a, row)
      <3>1. a \in Attempts
        BY <1>1
      <3> QED BY <2>1, <2>2, <2>4, <3>1, SavedRow
    <2>6. x2[a].phase \in Credentials!Unresolved \ {"token_dispatching"}
      BY <1>3
    <2>7. Credentials!RowSound(row)
      <3>1. op \notin Credentials!TerminalStatuses
        BY <1>1, <1>3 DEF Credentials!RowSound
      <3> QED BY <1>1, <1>3, <2>4, <2>6, <3>1 DEF Credentials!RowSound, Credentials!Unresolved,
          Credentials!Early
    <2>8. Credentials!TokenSound(a)'
      <3>1. phase = "verified" => Credentials!Usable(a)
        BY <1>3
      <3> QED BY <1>1, <2>4, <2>5, <3>1 DEF Credentials!TokenSound, Credentials!Usable, Credentials!Early,
          Rewritten
    <2>9. /\ phase \in Credentials!PhasesAt(pc) /\ (pc = "conclude" => Credentials!Usable(a))
             /\ (pc = "post" => x3[a] = "none")
          /\ pc = "stageImport" => x2[a].mode = "import"
      BY <1>3
    <2>10. pc \in {"judge", "conclude"} => Credentials!Usable(a)'
      BY <2>4, <2>5, <2>9 DEF Credentials!Usable, Rewritten
    <2>11. Credentials!ConnectionSound'
      <3>1. x2[a].phase \notin Credentials!Closing \cup {"active"}
        BY <2>6 DEF Credentials!Unresolved, Credentials!Early, Credentials!Closing
      <3> QED BY <1>1, <2>5, <3>1, ConnectionStays DEF Rewritten
    <2>12. /\ x2[a].phase \notin Credentials!Closing \cup {"token_dispatching"} /\ row.phase # "none"
           /\ row.phase \in Credentials!PhasesAt(pc) /\ row.mode = x2[a].mode
      BY <2>4, <2>6, <2>9 DEF Credentials!Unresolved, Credentials!Early, Credentials!Closing
    <2>13. (x1 \in [rev : Attempts \cup {Env}, open : BOOLEAN])'
      BY RegistrationRows
    <2>14. a \in Attempts /\ row \in AttemptRows /\ pc \in Credentials!Pcs
      BY <1>1, <2>2, <2>4
    <2>15. pc \notin {"stage", "import", "begin", "delete", "absent", "finish"}
      OBVIOUS
    <2> QED BY <2>1, <2>7, <2>8, <2>9, <2>10, <2>11, <2>12, <2>13, <2>14, <2>15, SaveStep
  <1> QED BY <1>2, <1>3

\* What has been read where, a line each.
LEMMA Reads ==
  /\ Credentials!PhasesAt("mark") = {"planned"} /\ Credentials!PhasesAt("post") = {"token_dispatching"}
  /\ Credentials!PhasesAt("stage") = {"token_dispatching"} /\ Credentials!PhasesAt("acl") = {"secret_staged"}
  /\ Credentials!PhasesAt("grant") = {"acl_applying"} /\ Credentials!PhasesAt("tested") = {"acl_applying"}
  /\ Credentials!PhasesAt("verify") = {"secret_staged", "acl_applying", "verifying", "verified"}
  /\ Credentials!PhasesAt("judge") = {"secret_staged", "acl_applying"}
  /\ Credentials!PhasesAt("conclude") = {"verifying", "verified"}
     /\ Credentials!PhasesAt("activate") = {"verified"}
  /\ Credentials!PhasesAt("import") = {"planned", "import_staging"}
     /\ Credentials!PhasesAt("stageImport") = {"import_staging"}
  /\ Credentials!PhasesAt("idle") = Credentials!Phases /\ Credentials!PhasesAt("begin") = Credentials!Phases
     /\ Credentials!PhasesAt("delete") = Credentials!Phases
  /\ Credentials!PhasesAt("absent") = Credentials!Phases
     /\ Credentials!PhasesAt("finish") = Credentials!Phases
  BY DEF Credentials!PhasesAt

\* The marker is written before the token is asked for.
LEMMA MarkDispatchingKept ==
  ASSUME Credentials!IInv, NEW r \in Requests, Credentials!MarkDispatching(r)
  PROVE  Credentials!IInv'
  <1>1. /\ Credentials!At(r, "mark") /\ Credentials!Advance(r, "token_dispatching", "dispatching", "post")
        /\ UNCHANGED <<x1, x3, x4, x5, x6, x7, x9>>
    BY DEF Credentials!MarkDispatching, Credentials!proxmox, Credentials!process
  <1>2. AsideTyped' /\ ~Credentials!At(r, "idle") /\ x8[r].pc = "mark"
    BY <1>1, AsideStays DEF Credentials!At
  <1>3. PICK a : a = x8[r].a
    OBVIOUS
  <1>4. Credentials!TokenSound(a) /\ (x8[r].fresh => x2[a].phase = "planned")
    BY <1>2, <1>3, UnderWay, Reads
  <1>5. x8[r].fresh => x2[a].phase \in Credentials!Unresolved \ {"token_dispatching"} /\ x3[a] = "none"
    BY <1>4 DEF Credentials!Unresolved, Credentials!Early, Credentials!TokenSound
  <1>6. "dispatching" \in Credentials!OperationStatuses \ Credentials!TerminalStatuses
    BY DEF Credentials!OperationStatuses, Credentials!TerminalStatuses
  <1> QED BY <1>1, <1>2, <1>3, <1>5, <1>6, Reads, AdvanceKept

\* The ACLs' marker.
LEMMA MarkAclKept ==
  ASSUME Credentials!IInv, NEW r \in Requests, Credentials!MarkAcl(r)
  PROVE  Credentials!IInv'
  <1>1. PICK a : a = x8[r].a
    OBVIOUS
  <1>2. /\ Credentials!At(r, "acl") /\ Credentials!Advance(r, "acl_applying", x2[a].op, "grant")
        /\ UNCHANGED <<x1, x3, x4, x5, x6, x7, x9>>
    BY <1>1 DEF Credentials!MarkAcl, Credentials!proxmox, Credentials!process
  <1>3. AsideTyped' /\ ~Credentials!At(r, "idle") /\ x8[r].pc = "acl"
    BY <1>2, AsideStays DEF Credentials!At
  <1>4. x2[a] \in AttemptRows /\ (x8[r].fresh => x2[a].phase = "secret_staged")
    BY <1>1, <1>3, UnderWay, Reads
  <1>5. x8[r].fresh => x2[a].phase \in Credentials!Unresolved \ {"token_dispatching"}
    BY <1>4 DEF Credentials!Unresolved
  <1>6. x2[a].op \in Credentials!OperationStatuses
    BY <1>4 DEF AttemptRows
  <1> QED BY <1>1, <1>2, <1>3, <1>5, <1>6, Reads, AdvanceKept

\* The verification's marker.
LEMMA MarkVerifyingKept ==
  ASSUME Credentials!IInv, NEW r \in Requests, Credentials!MarkVerifying(r)
  PROVE  Credentials!IInv'
  <1>1. PICK a : a = x8[r].a
    OBVIOUS
  <1>2. /\ Credentials!At(r, "tested") /\ Credentials!Advance(r, "verifying", "verifying", "verify")
        /\ UNCHANGED <<x1, x3, x4, x5, x6, x7, x9>>
    BY DEF Credentials!MarkVerifying, Credentials!proxmox, Credentials!process
  <1>3. AsideTyped' /\ ~Credentials!At(r, "idle") /\ x8[r].pc = "tested"
    BY <1>2, AsideStays DEF Credentials!At
  <1>4. x8[r].fresh => x2[a].phase = "acl_applying"
    BY <1>1, <1>3, UnderWay, Reads
  <1>5. x8[r].fresh => x2[a].phase \in Credentials!Unresolved \ {"token_dispatching"}
    BY <1>4 DEF Credentials!Unresolved
  <1>6. "verifying" \in Credentials!OperationStatuses \ Credentials!TerminalStatuses
    BY DEF Credentials!OperationStatuses, Credentials!TerminalStatuses
  <1> QED BY <1>1, <1>2, <1>3, <1>5, <1>6, Reads, AdvanceKept

\* A verdict is written about what was tested.
LEMMA ConcludeVerificationKept ==
  ASSUME Credentials!IInv, NEW r \in Requests, Credentials!ConcludeVerification(r)
  PROVE  Credentials!IInv'
  <1>1. PICK a : a = x8[r].a
    OBVIOUS
  <1>2. UNCHANGED <<x1, x3, x4, x5, x6, x7, x9>> /\ AsideTyped'
    BY AsideStays DEF Credentials!ConcludeVerification, Credentials!proxmox, Credentials!process
  <1>3. ASSUME x8[r].pc \in {"judge", "conclude"}, x8[r].fresh
        PROVE  Credentials!Usable(a) /\ x2[a].phase \in Credentials!Unresolved \ {"token_dispatching"}
    <2>1. ~Credentials!At(r, "idle")
      BY <1>3 DEF Credentials!At
    <2>2. Credentials!RequestSound(r) /\ x2[a].phase \in Credentials!PhasesAt(x8[r].pc)
      BY <1>1, <1>3, <2>1, UnderWay
    <2>3. Credentials!Usable(a)
      BY <1>1, <1>3, <2>1, <2>2 DEF Credentials!RequestSound
    <2> QED BY <1>3, <2>2, <2>3, Reads DEF Credentials!Unresolved
  <1>4. CASE Credentials!At(r, "judge") /\ Credentials!Advance(r, "verifying", "verifying", "conclude")
    <2>1. ~Credentials!At(r, "idle") /\ x8[r].pc = "judge"
      BY <1>4 DEF Credentials!At
    <2>2. "verifying" \in Credentials!OperationStatuses \ Credentials!TerminalStatuses
      BY DEF Credentials!OperationStatuses, Credentials!TerminalStatuses
    <2>3. x8[r].fresh => Credentials!Usable(a)
        /\ x2[a].phase \in Credentials!Unresolved \ {"token_dispatching"}
      BY <1>3, <2>1
    <2> QED BY <1>1, <1>2, <1>4, <2>1, <2>2, <2>3, Reads, AdvanceKept
  <1>5. CASE Credentials!At(r, "conclude")
      /\ Credentials!Advance(r, "verified", x2[a].op, IF x8[r].then THEN "activate" ELSE "idle")
    <2>1. ~Credentials!At(r, "idle") /\ x8[r].pc = "conclude"
      BY <1>5 DEF Credentials!At
    <2>2. PICK pc \in {"activate", "idle"} : pc = IF x8[r].then THEN "activate" ELSE "idle"
      OBVIOUS
    <2>3. x8[r].fresh => Credentials!Usable(a)
        /\ x2[a].phase \in Credentials!Unresolved \ {"token_dispatching"}
      BY <1>3, <2>1
    <2>4. x2[a].op \in Credentials!OperationStatuses
      BY <1>1, <2>1, UnderWay DEF AttemptRows
    <2>5. Credentials!Advance(r, "verified", x2[a].op, pc)
      BY <1>5, <2>2
    <2>6. "verified" \in Credentials!PhasesAt(pc)
      BY Reads DEF Credentials!Phases
    <2> QED BY <1>1, <1>2, <2>1, <2>3, <2>4, <2>5, <2>6, AdvanceKept
  <1> QED BY <1>1, <1>4, <1>5 DEF Credentials!ConcludeVerification

\* The import's marker.
LEMMA MarkImportKept ==
  ASSUME Credentials!IInv, NEW r \in Requests, Credentials!MarkImport(r)
  PROVE  Credentials!IInv'
  <1>1. PICK a : a = x8[r].a
    OBVIOUS
  <1>2. UNCHANGED <<x1, x3, x4, x5, x6, x7, x9>> /\ AsideTyped' /\ Credentials!At(r, "import")
    BY AsideStays DEF Credentials!MarkImport, Credentials!proxmox, Credentials!process
  <1>3. ~Credentials!At(r, "idle") /\ x8[r].pc = "import"
    BY <1>2 DEF Credentials!At
  <1>4. /\ a \in Attempts /\ Credentials!RequestSound(r) /\ x2[a].phase # "none"
        /\ x8[r].fresh => x2[a].phase \in {"planned", "import_staging"}
    BY <1>1, <1>3, UnderWay, Reads
  <1>5. x2[a].mode = "import"
    BY <1>1, <1>3, <1>4 DEF Credentials!RequestSound
  <1>6. CASE x2[a].phase = "import_staging"
    <2>1. Credentials!Goto(r, "stageImport") /\ x2' = x2
      BY <1>1, <1>6 DEF Credentials!MarkImport
    <2>2. PICK row \in RequestRows :
            /\ x8' = [x8 EXCEPT ![r] = row] /\ x8'[r] = row /\ row.pc = "stageImport"
            /\ row.a = x8[r].a /\ row.fresh = x8[r].fresh
      BY <2>1, Moved DEF Credentials!Pcs
    <2>3. Credentials!RequestSound(r)'
      BY <1>1, <1>2, <1>4, <1>5, <1>6, <2>1, <2>2, Reads DEF Credentials!RequestSound, Credentials!At
    <2> QED BY <1>2, <2>1, <2>2, <2>3, MoveKept
  <1>7. CASE x2[a].phase # "import_staging"
    <2>1. Credentials!Advance(r, "import_staging", "dispatching", "stageImport")
      BY <1>1, <1>7 DEF Credentials!MarkImport
    <2>2. "dispatching" \in Credentials!OperationStatuses \ Credentials!TerminalStatuses
      BY DEF Credentials!OperationStatuses, Credentials!TerminalStatuses
    <2>3. x8[r].fresh => x2[a].phase \in Credentials!Unresolved \ {"token_dispatching"}
      BY <1>4 DEF Credentials!Unresolved, Credentials!Early
    <2> QED BY <1>1, <1>2, <1>3, <1>5, <2>1, <2>2, <2>3, Reads, AdvanceKept
  <1> QED BY <1>6, <1>7

-----------------------------------------------------------------------------
(* The token and its secret. *)

\* A request begins, with the version of the attempt it has just read.
LEMMA BeginKept ==
  ASSUME Credentials!IInv, NEW r \in Requests, NEW a \in Attempts,
         NEW pc \in Credentials!Pcs \ {"idle", "post", "delete", "absent"},
         NEW then \in BOOLEAN, Credentials!Begin(r, a, pc, then), x2[a].phase # "none",
           x2[a].phase \in Credentials!PhasesAt(pc),
         pc \in {"judge", "conclude"} => Credentials!Usable(a), pc = "stage" => x3[a] # "none",
         pc \in {"import", "stageImport"} => x2[a].mode = "import",
         pc = "begin" => x3[a] = "there", pc = "finish" => x3[a] = "deleted",
         UNCHANGED <<x1, x2, x3, x4, x5, x6, x7, x9>>
  PROVE  Credentials!IInv'
  <1> DEFINE row == [pc |-> pc, a |-> a, fresh |-> TRUE, then |-> then]
  <1>1. row \in RequestRows /\ row.pc = pc /\ row.a = a /\ row.fresh = TRUE
    BY DEF RequestRows
  <1>2. x8' = [x8 EXCEPT ![r] = row]
    BY DEF Credentials!Begin
  <1> HIDE DEF row
  <1>3. x8'[r] = row
    BY <1>2, RegistrationRows
  <1>4. pc \in {"judge", "conclude"} => Credentials!Usable(a)'
    BY DEF Credentials!Usable
  <1>5. Credentials!RequestSound(r)'
    BY <1>1, <1>3, <1>4 DEF Credentials!RequestSound, Credentials!At
  <1> QED BY <1>1, <1>2, <1>5, AsideStays, MoveKept

\* The plan that is confirmed has no token.
LEMMA ConfirmKept ==
  ASSUME Credentials!IInv, NEW r \in Requests, NEW a \in Attempts, Credentials!Confirm(r, a)
  PROVE  Credentials!IInv'
  <1>1. /\ x2[a].phase = "planned" /\ Credentials!Begin(r, a, "mark", FALSE)
        /\ UNCHANGED <<x1, x2, x3, x4, x5, x6, x7, x9>>
    BY DEF Credentials!Confirm, Credentials!proxmox, Credentials!process
  <1>2. "mark" \in Credentials!Pcs \ {"idle", "post", "delete", "absent"}
      /\ x2[a].phase \in Credentials!PhasesAt("mark")
    BY <1>1, Reads DEF Credentials!Pcs
  <1> QED BY <1>1, <1>2, BeginKept

\* A verification begins.
LEMMA VerifyKept ==
  ASSUME Credentials!IInv, NEW r \in Requests, NEW a \in Attempts, NEW then \in BOOLEAN,
         Credentials!Verify(r, a, then)
  PROVE  Credentials!IInv'
  <1>1. /\ x2[a].phase \in {"secret_staged", "acl_applying", "verifying", "verified"}
           /\ Credentials!Begin(r, a, "verify", then)
        /\ UNCHANGED <<x1, x2, x3, x4, x5, x6, x7, x9>>
    BY DEF Credentials!Verify, Credentials!proxmox, Credentials!process
  <1>2. "verify" \in Credentials!Pcs \ {"idle", "post", "delete", "absent"}
      /\ x2[a].phase \in Credentials!PhasesAt("verify")
    BY <1>1, Reads DEF Credentials!Pcs
  <1> QED BY <1>1, <1>2, BeginKept

\* An import begins.
LEMMA ImportKept ==
  ASSUME Credentials!IInv, NEW r \in Requests, NEW a \in Attempts, Credentials!Import(r, a)
  PROVE  Credentials!IInv'
  <1>1. /\ x2[a].phase \in {"planned", "import_staging"} /\ x2[a].mode = "import"
           /\ Credentials!Begin(r, a, "import", FALSE)
        /\ UNCHANGED <<x1, x2, x3, x4, x5, x6, x7, x9>>
    BY DEF Credentials!Import, Credentials!proxmox, Credentials!process
  <1>2. "import" \in Credentials!Pcs \ {"idle", "post", "delete", "absent"}
      /\ x2[a].phase \in Credentials!PhasesAt("import")
    BY <1>1, Reads DEF Credentials!Pcs
  <1> QED BY <1>1, <1>2, BeginKept

\* A revocation begins with the token seen, or ends with it gone.
LEMMA RevokeKept ==
  ASSUME Credentials!IInv, NEW r \in Requests, NEW a \in Attempts, Credentials!Revoke(r, a)
  PROVE  Credentials!IInv'
  <1>1. UNCHANGED <<x1, x2, x3, x4, x5, x6, x7, x9>>
    BY DEF Credentials!Revoke, Credentials!proxmox, Credentials!process
  <1>2. Credentials!TokenSound(a) /\ x2[a] \in AttemptRows
    BY RegistrationRows
  <1>3. x2[a].phase \in Credentials!Phases
    BY <1>2 DEF AttemptRows
  <1>4. CASE x2[a].phase = "revocation_pending" /\ x3[a] # "there" /\ Credentials!Begin(r, a, "finish", FALSE)
    <2>1. x3[a] = "deleted"
      BY <1>2, <1>4 DEF Credentials!TokenSound
    <2>2. "finish" \in Credentials!Pcs \ {"idle", "post", "delete", "absent"}
        /\ x2[a].phase \in Credentials!PhasesAt("finish")
      BY <1>3, Reads DEF Credentials!Pcs
    <2> QED BY <1>1, <1>4, <2>1, <2>2, BeginKept
  <1>5. CASE x3[a] = "there" /\ Credentials!Begin(r, a, "begin", FALSE)
    <2>1. x2[a].phase # "none"
      BY <1>2, <1>5 DEF Credentials!TokenSound
    <2>2. "begin" \in Credentials!Pcs \ {"idle", "post", "delete", "absent"}
        /\ x2[a].phase \in Credentials!PhasesAt("begin")
      BY <1>3, Reads DEF Credentials!Pcs
    <2> QED BY <1>1, <1>5, <2>1, <2>2, BeginKept
  <1> QED BY <1>4, <1>5 DEF Credentials!Revoke

\* What was tested is usable.
LEMMA TestTokenKept ==
  ASSUME Credentials!IInv, NEW r \in Requests, Credentials!TestToken(r)
  PROVE  Credentials!IInv'
  <1>1. PICK a : a = x8[r].a
    OBVIOUS
  <1>2. UNCHANGED <<x1, x2, x3, x4, x5, x6, x7, x9>> /\ AsideTyped' /\ Credentials!At(r, "verify")
    BY AsideStays DEF Credentials!TestToken, Credentials!proxmox, Credentials!process
  <1>3. ~Credentials!At(r, "idle") /\ x8[r].pc = "verify"
    BY <1>2 DEF Credentials!At
  <1>4. /\ a \in Attempts /\ x2[a].phase # "none"
        /\ x8[r].fresh => x2[a].phase \in {"secret_staged", "acl_applying", "verifying", "verified"}
    BY <1>1, <1>3, UnderWay, Reads
  <1>5. CASE Credentials!Goto(r, "idle")
    BY <1>2, <1>5, FailKept
  <1>6. CASE /\ x2[a].cred = "pending" /\ (x2[a].mode = "issue" => x3[a] = "there" /\ x2[a].granted)
             /\ Credentials!Goto(r, IF x2[a].phase \in {"secret_staged",
                "acl_applying"} THEN "judge" ELSE "conclude")
    <2>1. PICK pc \in {"judge", "conclude"} :
            pc = IF x2[a].phase \in {"secret_staged", "acl_applying"} THEN "judge" ELSE "conclude"
      OBVIOUS
    <2>2. Credentials!Goto(r, pc) /\ Credentials!Usable(a)'
      BY <1>2, <1>6, <2>1 DEF Credentials!Usable
    <2>3. PICK row \in RequestRows :
            /\ x8' = [x8 EXCEPT ![r] = row] /\ x8'[r] = row /\ row.pc = pc
            /\ row.a = x8[r].a /\ row.fresh = x8[r].fresh
      BY <2>2, Moved DEF Credentials!Pcs
    <2>4. x8[r].fresh => x2[a].phase \in Credentials!PhasesAt(pc)
      BY <1>4, <2>1, Reads
    <2>5. Credentials!RequestSound(r)'
      BY <1>1, <1>2, <1>4, <2>2, <2>3, <2>4 DEF Credentials!RequestSound, Credentials!At
    <2> QED BY <1>2, <2>3, <2>5, MoveKept
  <1> QED BY <1>1, <1>5, <1>6 DEF Credentials!TestToken

\* What was seen to be absent was deleted.
LEMMA ConfirmAbsenceKept ==
  ASSUME Credentials!IInv, NEW r \in Requests, Credentials!ConfirmAbsence(r)
  PROVE  Credentials!IInv'
  <1>1. PICK a : a = x8[r].a
    OBVIOUS
  <1>2. UNCHANGED <<x1, x2, x3, x4, x5, x6, x7, x9>> /\ AsideTyped' /\ Credentials!At(r, "absent")
    BY AsideStays DEF Credentials!ConfirmAbsence, Credentials!proxmox, Credentials!process
  <1>3. ~Credentials!At(r, "idle") /\ x8[r].pc = "absent"
    BY <1>2 DEF Credentials!At
  <1>4. /\ a \in Attempts /\ x2[a] \in AttemptRows /\ Credentials!RequestSound(r) /\ x2[a].phase # "none"
    BY <1>1, <1>3, UnderWay
  <1>5. CASE x3[a] = "there"
    BY <1>1, <1>2, <1>5, FailKept DEF Credentials!ConfirmAbsence
  <1>6. CASE x3[a] # "there"
    <2>1. x3[a] = "deleted"
      BY <1>1, <1>3, <1>4, <1>6 DEF Credentials!RequestSound
    <2>2. Credentials!Goto(r, "finish")
      BY <1>1, <1>6 DEF Credentials!ConfirmAbsence
    <2>3. PICK row \in RequestRows :
            /\ x8' = [x8 EXCEPT ![r] = row] /\ x8'[r] = row /\ row.pc = "finish"
            /\ row.a = x8[r].a /\ row.fresh = x8[r].fresh
      BY <2>2, Moved DEF Credentials!Pcs
    <2>4. x2[a].phase \in Credentials!PhasesAt("finish")
      BY <1>4, Reads DEF AttemptRows
    <2>5. Credentials!RequestSound(r)'
      BY <1>1, <1>2, <1>4, <2>1, <2>3, <2>4 DEF Credentials!RequestSound, Credentials!At
    <2> QED BY <1>2, <2>3, <2>5, MoveKept
  <1> QED BY <1>5, <1>6

\* A row whose secret is kept.
LEMMA StagedRow ==
  ASSUME NEW w \in AttemptRows, Credentials!RowSound(w), w.phase \in {"token_dispatching", "import_staging"},
         NEW row,
         row = [w EXCEPT !.phase = "secret_staged", !.op = "running", !.cred = "pending"]
  PROVE  /\ row \in AttemptRows /\ Credentials!RowSound(row) /\ row.phase = "secret_staged"
            /\ row.mode = w.mode
         /\ row.granted = w.granted
  <1>1. row \in AttemptRows
    BY DEF AttemptRows, Credentials!Phases, Credentials!OperationStatuses
  <1>2. /\ row.phase = "secret_staged" /\ row.mode = w.mode /\ row.granted = w.granted
        /\ row.op = "running" /\ row.resolved = w.resolved /\ row.revoking = w.revoking
    BY DEF AttemptRows
  <1> QED BY <1>1, <1>2 DEF Credentials!RowSound, Credentials!Unresolved, Credentials!TerminalStatuses

\* The secret is kept with the version that was read, of a token that was asked for or is imported.
LEMMA StageKept ==
  ASSUME Credentials!IInv, NEW r \in Requests, NEW a, a = x8[r].a, NEW pc \in {"acl", "judge"},
         Credentials!At(r, IF pc = "acl" THEN "stage" ELSE "stageImport"),
           x2[a].phase \in {"token_dispatching", "import_staging"},
         Credentials!Save(r, a, [x2[a] EXCEPT !.phase = "secret_staged", !.op = "running",
           !.cred = "pending"], pc),
         x2[a].phase = "token_dispatching" => x3[a] # "none",
         pc = "judge" => x2[a].mode = "import",
         UNCHANGED <<x1, x3, x4, x5, x6, x7, x9>>
  PROVE  Credentials!IInv'
  <1>1. ~Credentials!At(r, "idle") /\ AsideTyped'
    BY AsideStays DEF Credentials!At
  <1>2. a \in Attempts /\ x2[a] \in AttemptRows /\ Credentials!RowSound(x2[a]) /\ Credentials!TokenSound(a)
      /\ x8[r].a = a
    BY <1>1, UnderWay
  <1>3. PICK row : row = [x2[a] EXCEPT !.phase = "secret_staged", !.op = "running", !.cred = "pending"]
    OBVIOUS
  <1>4. Credentials!Save(r, a, row, pc) /\ pc \in Credentials!Pcs
    BY <1>3 DEF Credentials!Pcs
  <1>5. /\ row \in AttemptRows /\ Credentials!RowSound(row) /\ row.phase = "secret_staged"
           /\ row.mode = x2[a].mode
        /\ row.granted = x2[a].granted
    BY <1>2, <1>3, StagedRow
  <1>6. Rewritten(a, row)
    BY <1>2, <1>4, <1>5, SavedRow
  <1>7. Credentials!TokenSound(a)'
    BY <1>2, <1>5, <1>6 DEF Credentials!TokenSound, Credentials!Early, Rewritten
  <1>8. pc \in {"judge", "conclude"} => Credentials!Usable(a)'
    BY <1>5, <1>6 DEF Credentials!Usable, Rewritten
  <1>9. x2[a].phase \notin Credentials!Closing \cup {"active"} /\ row.phase \in Credentials!PhasesAt(pc)
      /\ row.phase # "none"
    BY <1>5, Reads DEF Credentials!Closing
  <1>10. Credentials!ConnectionSound'
    BY <1>2, <1>6, <1>9, ConnectionStays DEF Rewritten
  <1>11. (x1 \in [rev : Attempts \cup {Env}, open : BOOLEAN])'
    BY RegistrationRows
  <1>12. pc \notin {"post", "stage", "import", "stageImport", "begin", "delete", "absent", "finish"}
    OBVIOUS
  <1> QED BY <1>1, <1>2, <1>4, <1>5, <1>7, <1>8, <1>9, <1>10, <1>11, <1>12, SaveStep

\* The secret of the token that was issued.
LEMMA StageSecretKept ==
  ASSUME Credentials!IInv, NEW r \in Requests, Credentials!StageSecret(r)
  PROVE  Credentials!IInv'
  <1>1. PICK a : a = x8[r].a
    OBVIOUS
  <1>2. UNCHANGED <<x1, x3, x4, x5, x6, x7, x9>> /\ AsideTyped' /\ Credentials!At(r, "stage")
    BY AsideStays DEF Credentials!StageSecret, Credentials!proxmox, Credentials!process
  <1>3. CASE Credentials!Goto(r, "idle") /\ UNCHANGED x2
    BY <1>2, <1>3, FailKept
  <1>4. CASE /\ x2[a].phase = "token_dispatching"
             /\ Credentials!Save(r, a, [x2[a] EXCEPT !.phase = "secret_staged", !.op = "running",
                !.cred = "pending"], "acl")
    <2>1. x3[a] # "none"
      BY <1>1, <1>2, RegistrationRows DEF Credentials!RequestSound, Credentials!At
    <2> QED BY <1>1, <1>2, <1>4, <2>1, StageKept
  <1> QED BY <1>1, <1>3, <1>4 DEF Credentials!StageSecret

\* The secret of the token that is imported.
LEMMA StageImportedKept ==
  ASSUME Credentials!IInv, NEW r \in Requests, Credentials!StageImported(r)
  PROVE  Credentials!IInv'
  <1>1. PICK a : a = x8[r].a
    OBVIOUS
  <1>2. UNCHANGED <<x1, x3, x4, x5, x6, x7, x9>> /\ AsideTyped' /\ Credentials!At(r, "stageImport")
    BY AsideStays DEF Credentials!StageImported, Credentials!proxmox, Credentials!process
  <1>3. CASE Credentials!Goto(r, "idle") /\ UNCHANGED x2
    BY <1>2, <1>3, FailKept
  <1>4. CASE /\ x2[a].phase = "import_staging"
             /\ Credentials!Save(r, a, [x2[a] EXCEPT !.phase = "secret_staged", !.op = "running",
                !.cred = "pending"], "judge")
    <2>1. x2[a].mode = "import"
      BY <1>1, <1>2, RegistrationRows DEF Credentials!RequestSound, Credentials!At
    <2> QED BY <1>1, <1>2, <1>4, <2>1, StageKept
  <1> QED BY <1>1, <1>3, <1>4 DEF Credentials!StageImported

\* Proxmox's side of a token changes, and no attempt.
LEMMA TokenKept ==
  ASSUME Credentials!IInv, NEW a \in Attempts, NEW t \in {"sent", "there", "deleted"}, NEW n \in Nat,
         x3' = [x3 EXCEPT ![a] = t], x4' = [x4 EXCEPT ![a] = n],
         UNCHANGED <<x1, x2, x5, x6>>, AsideTyped',
         n = 1, x2[a].phase \notin Credentials!Early \cup {"none", "cancelled"},
         x2[a].phase \in {"verified", "active"} => t = "there" \/ x2[a].mode # "issue",
         x2[a].phase = "revocation_pending" => t \in {"there", "deleted"},
         x2[a].phase = "revoked" => t = "deleted",
         x8' \in [Requests -> RequestRows], \A q \in Requests : Credentials!RequestSound(q)',
           Credentials!OneSends'
  PROVE  Credentials!IInv'
  <1>1. x3' \in [Attempts -> {"none", "sent", "there", "deleted"}] /\ x3'[a] = t
    BY RegistrationRows
  <1>2. x4' \in [Attempts -> Nat] /\ x4'[a] = 1
    BY RegistrationRows
  <1>3. \A b \in Attempts \ {a} : x3'[b] = x3[b] /\ x4'[b] = x4[b]
    BY RegistrationRows
  <1>4. Credentials!TokenSound(a) /\ Credentials!TokenSound(a)'
    <2>1. Credentials!TokenSound(a)
      BY RegistrationRows
    <2>2. x2[a].phase \in {"verified", "active"} => Credentials!Usable(a)'
      BY <1>1, <2>1 DEF Credentials!TokenSound, Credentials!Usable
    <2> QED BY <1>1, <1>2, <2>1, <2>2 DEF Credentials!TokenSound
  <1>5. \A b \in Attempts : Credentials!RowSound(x2[b])' /\ Credentials!TokenSound(b)'
    <2>1. ASSUME NEW b \in Attempts, b # a PROVE Credentials!RowSound(x2[b])' /\ Credentials!TokenSound(b)'
      BY <1>3, <2>1, AttemptStays, RegistrationRows DEF Alike
    <2>2. Credentials!RowSound(x2[a])'
      BY RegistrationRows DEF Credentials!RowSound
    <2> QED BY <1>4, <2>1, <2>2
  <1>6. Credentials!ConnectionSound'
    BY RegistrationRows DEF Credentials!ConnectionSound, Credentials!PinAgrees
  <1> QED BY <1>1, <1>2, <1>5, <1>6, RegistrationRows, RegistrationNext

\* A request that is sent finds no token; wherever its answer goes, no second one follows.
LEMMA PostTokenKept ==
  ASSUME Credentials!IInv, NEW r \in Requests, Credentials!PostToken(r)
  PROVE  Credentials!IInv'
  <1>1. PICK a : a = x8[r].a
    OBVIOUS
  <1>2. /\ x4' = [x4 EXCEPT ![a] = @ + 1] /\ UNCHANGED <<x1, x2, x5, x6, x7>> /\ Credentials!At(r, "post")
        /\ \/ x3' = [x3 EXCEPT ![a] = "there"] /\ Credentials!Goto(r, "stage") /\ UNCHANGED x9
           \/ /\ x9 < MaxFaults /\ x9' = x9 + 1 /\ Credentials!Goto(r, "idle")
              /\ x3' \in {[x3 EXCEPT ![a] = t] : t \in {"there", "sent"}}
    BY <1>1 DEF Credentials!PostToken, Credentials!process
  <1>3. ~Credentials!At(r, "idle") /\ x8[r].pc = "post"
    BY <1>2 DEF Credentials!At
  <1>4. a \in Attempts /\ Credentials!TokenSound(a) /\ Credentials!RequestSound(r) /\ x2[a].phase # "none"
    BY <1>1, <1>3, UnderWay
  <1>5. x8[r].fresh /\ x3[a] = "none" /\ x2[a].phase = "token_dispatching"
    BY <1>1, <1>3, <1>4, Reads DEF Credentials!RequestSound, Credentials!At
  <1>6. x4[a] = 0
    BY <1>4, <1>5 DEF Credentials!TokenSound
  <1>7. x4' = [x4 EXCEPT ![a] = 1]
    BY <1>2, <1>4, <1>6, RegistrationRows
  <1>8. AsideTyped'
    <2>1. UNCHANGED x9 \/ (x9 < MaxFaults /\ x9' = x9 + 1)
      BY <1>2
    <2> QED BY <1>2, <2>1, RegistrationRows, BoundsAssumption DEF AsideTyped
  <1>9. PICK t \in {"sent", "there"} : x3' = [x3 EXCEPT ![a] = t]
    BY <1>2
  <1>10. PICK pc \in {"stage", "idle"} : Credentials!Goto(r, pc)
    BY <1>2
  <1>11. PICK row \in RequestRows :
           /\ x8' = [x8 EXCEPT ![r] = row] /\ x8'[r] = row /\ row.pc = pc
           /\ pc = "idle" => row = Credentials!Idle
           /\ pc # "idle" => row.a = x8[r].a /\ row.fresh = x8[r].fresh
    BY <1>10, Moved DEF Credentials!Pcs
  <1>12. /\ x8' \in [Requests -> RequestRows] /\ \A q \in Requests \ {r} : x8'[q] = x8[q]
         /\ x3'[a] = t /\ \A b \in Attempts \ {a} : x3'[b] = x3[b]
    BY <1>4, <1>9, <1>11, RegistrationRows
  <1>13. Credentials!RequestSound(r)'
    <2>1. CASE pc = "idle"
      BY <1>11, <2>1, IdleSound
    <2>2. CASE pc = "stage"
      BY <1>1, <1>2, <1>4, <1>5, <1>11, <1>12, <2>2, Reads DEF Credentials!RequestSound, Credentials!At
    <2> QED BY <2>1, <2>2
  <1>14. ASSUME NEW q \in Requests, q # r PROVE Credentials!RequestSound(q)'
    <2>1. x8'[q] = x8[q] /\ Credentials!RequestSound(q) /\ x8[q] \in RequestRows
      BY <1>12, <1>14, RegistrationRows
    <2>2. CASE x8[q].pc # "idle" /\ x8[q].a = a
      <3>1. x8[q].pc # "post"
        BY <1>1, <1>3, <1>14, <2>2, RegistrationRows DEF Credentials!OneSends, Credentials!At
      <3>2. x8[q].pc \notin {"delete", "absent", "begin", "finish"}
        BY <1>5, <2>1, <2>2 DEF Credentials!RequestSound, Credentials!At, Credentials!Closing
      <3>3. ~(x8[q].pc \in {"judge", "conclude"} /\ x8[q].fresh)
        BY <1>5, <2>1, <2>2, Reads DEF Credentials!RequestSound, Credentials!At
      <3> QED BY <1>2, <1>5, <1>12, <2>1, <2>2, <3>1, <3>2, <3>3 DEF Credentials!RequestSound, Credentials!At
    <2>3. CASE x8[q].pc = "idle" \/ x8[q].a # a
      <3>1. x8[q].pc # "idle" => x8[q].a \in Attempts
        BY <2>1 DEF Credentials!RequestSound, Credentials!At
      <3> QED BY <1>2, <1>12, <2>1, <2>3, <3>1, RequestStays DEF Alike
    <2> QED BY <2>2, <2>3
  <1>15. Credentials!OneSends'
    <2>1. x8'[r].pc # "post"
      BY <1>11
    <2> QED BY <1>12, <2>1, RegistrationRows DEF Credentials!OneSends, Credentials!At
  <1>16. x2[a].phase \notin Credentials!Early \cup {"none", "cancelled", "verified", "active",
      "revocation_pending", "revoked"}
    BY <1>5 DEF Credentials!Early
  <1>17. \A q \in Requests : Credentials!RequestSound(q)'
    BY <1>13, <1>14
  <1> QED BY <1>2, <1>4, <1>7, <1>8, <1>9, <1>12, <1>15, <1>16, <1>17, TokenKept

\* A token that was on its way is there.
LEMMA TokenLandsKept ==
  ASSUME Credentials!IInv, NEW a \in Attempts, Credentials!TokenLands(a)
  PROVE  Credentials!IInv'
  <1>1. x3[a] = "sent" /\ x3' = [x3 EXCEPT ![a] = "there"]
        /\ UNCHANGED <<x1, x2, x4, x5, x6, x7, x8, x9>>
    BY DEF Credentials!TokenLands, Credentials!process
  <1>2. Credentials!TokenSound(a)
    BY RegistrationRows
  <1>3. x4' = [x4 EXCEPT ![a] = 1]
    BY <1>1, <1>2, RegistrationRows DEF Credentials!TokenSound
  <1>4. x2[a].phase \notin Credentials!Early \cup {"none", "cancelled"} /\ x2[a].phase # "revoked"
    BY <1>1, <1>2 DEF Credentials!TokenSound
  <1>5. x3'[a] = "there" /\ \A b \in Attempts \ {a} : x3'[b] = x3[b]
    BY <1>1, RegistrationRows
  <1>6. ASSUME NEW q \in Requests PROVE Credentials!RequestSound(q)'
    <2>1. x8'[q] = x8[q] /\ Credentials!RequestSound(q)
      BY <1>1, RegistrationRows
    <2>2. CASE x8[q].pc # "idle" /\ x8[q].a = a
      <3>1. x8[q].pc \notin {"post", "delete", "absent", "begin", "finish"}
        BY <1>1, <2>1, <2>2 DEF Credentials!RequestSound, Credentials!At
      <3> QED BY <1>1, <1>5, <2>1, <2>2, <3>1 DEF Credentials!RequestSound, Credentials!At, Credentials!Usable
    <2>3. CASE x8[q].pc = "idle" \/ x8[q].a # a
      <3>1. x8[q].pc # "idle" => x8[q].a \in Attempts
        BY <2>1 DEF Credentials!RequestSound, Credentials!At
      <3> QED BY <1>1, <1>5, <2>1, <2>3, <3>1, RequestStays DEF Alike
    <2> QED BY <2>2, <2>3
  <1>7. Credentials!OneSends' /\ x8' \in [Requests -> RequestRows] /\ AsideTyped'
    BY <1>1, RegistrationRows, AsideStays DEF Credentials!OneSends, Credentials!At
  <1> QED BY <1>1, <1>3, <1>4, <1>6, <1>7, TokenKept

\* The token of an attempt that is being given up is deleted, or perhaps.
LEMMA DeleteTokenKept ==
  ASSUME Credentials!IInv, NEW r \in Requests, Credentials!DeleteToken(r)
  PROVE  Credentials!IInv'
  <1>1. PICK a : a = x8[r].a
    OBVIOUS
  <1>2. /\ UNCHANGED <<x1, x2, x4, x5, x6, x7>> /\ Credentials!At(r, "delete")
        /\ \/ x3' = [x3 EXCEPT ![a] = "deleted"] /\ Credentials!Goto(r, "absent") /\ UNCHANGED x9
           \/ /\ x9 < MaxFaults /\ x9' = x9 + 1 /\ Credentials!Goto(r, "idle")
              /\ x3' \in {x3, [x3 EXCEPT ![a] = "deleted"]}
    BY <1>1 DEF Credentials!DeleteToken, Credentials!process
  <1>3. ~Credentials!At(r, "idle") /\ x8[r].pc = "delete"
    BY <1>2 DEF Credentials!At
  <1>4. a \in Attempts /\ Credentials!TokenSound(a) /\ Credentials!RequestSound(r) /\ x2[a].phase # "none"
      /\ x2[a] \in AttemptRows
    BY <1>1, <1>3, UnderWay
  <1>5. x2[a].phase \in Credentials!Closing /\ x3[a] \in {"there", "deleted"}
    BY <1>1, <1>3, <1>4 DEF Credentials!RequestSound
  <1>6. AsideTyped'
    <2>1. UNCHANGED x9 \/ (x9 < MaxFaults /\ x9' = x9 + 1)
      BY <1>2
    <2> QED BY <1>2, <2>1, RegistrationRows, BoundsAssumption DEF AsideTyped
  <1>7. CASE x3' = x3
    <2>1. PICK pc \in {"absent", "idle"} : Credentials!Goto(r, pc)
      BY <1>2
    <2>2. PICK row \in RequestRows :
            /\ x8' = [x8 EXCEPT ![r] = row] /\ x8'[r] = row /\ row.pc = pc
            /\ pc = "idle" => row = Credentials!Idle
            /\ pc # "idle" => row.a = x8[r].a /\ row.fresh = x8[r].fresh
      BY <2>1, Moved DEF Credentials!Pcs
    <2>3. x2[a].phase \in Credentials!PhasesAt("absent")
      BY <1>4, Reads DEF AttemptRows
    <2>4. Credentials!RequestSound(r)'
      <3>1. CASE pc = "idle"
        BY <2>2, <3>1, IdleSound
      <3>2. CASE pc = "absent"
        BY <1>1, <1>2, <1>4, <1>5, <1>7, <2>2, <2>3, <3>2 DEF Credentials!RequestSound, Credentials!At
      <3> QED BY <3>1, <3>2
    <2> QED BY <1>2, <1>6, <1>7, <2>2, <2>4, MoveKept
  <1>8. CASE x3' = [x3 EXCEPT ![a] = "deleted"]
    <2>1. PICK pc \in {"absent", "idle"} : Credentials!Goto(r, pc)
      BY <1>2
    <2>2. PICK row \in RequestRows :
            /\ x8' = [x8 EXCEPT ![r] = row] /\ x8'[r] = row /\ row.pc = pc
            /\ pc = "idle" => row = Credentials!Idle
            /\ pc # "idle" => row.a = x8[r].a /\ row.fresh = x8[r].fresh
      BY <2>1, Moved DEF Credentials!Pcs
    <2>3. /\ x8' \in [Requests -> RequestRows] /\ \A q \in Requests \ {r} : x8'[q] = x8[q]
          /\ x3'[a] = "deleted" /\ \A b \in Attempts \ {a} : x3'[b] = x3[b]
      BY <1>4, <1>8, <2>2, RegistrationRows
    <2>4. x2[a].phase \in Credentials!PhasesAt("absent")
      BY <1>4, Reads DEF AttemptRows
    <2>5. Credentials!RequestSound(r)'
      <3>1. CASE pc = "idle"
        BY <2>2, <3>1, IdleSound
      <3>2. CASE pc = "absent"
        BY <1>1, <1>2, <1>4, <1>5, <2>2, <2>3, <2>4, <3>2 DEF Credentials!RequestSound, Credentials!At
      <3> QED BY <3>1, <3>2
    <2>6. ASSUME NEW q \in Requests, q # r PROVE Credentials!RequestSound(q)'
      <3>1. x8'[q] = x8[q] /\ Credentials!RequestSound(q) /\ x8[q] \in RequestRows
        BY <2>3, <2>6, RegistrationRows
      <3>2. CASE x8[q].pc # "idle" /\ x8[q].a = a
        <4>1. x8[q].pc # "post" /\ ~(x8[q].pc \in {"judge", "conclude"} /\ x8[q].fresh)
          BY <1>5, <3>1, <3>2, Reads DEF Credentials!RequestSound, Credentials!At, Credentials!Closing
        <4> QED BY <1>2, <1>5, <2>3, <3>1, <3>2, <4>1 DEF Credentials!RequestSound, Credentials!At
      <3>3. CASE x8[q].pc = "idle" \/ x8[q].a # a
        <4>1. x8[q].pc # "idle" => x8[q].a \in Attempts
          BY <3>1 DEF Credentials!RequestSound, Credentials!At
        <4> QED BY <1>2, <2>3, <3>1, <3>3, <4>1, RequestStays DEF Alike
      <3> QED BY <3>2, <3>3
    <2>7. Credentials!OneSends'
      <3>1. x8'[r].pc # "post"
        BY <2>2
      <3> QED BY <2>3, <3>1, RegistrationRows DEF Credentials!OneSends, Credentials!At
    <2>8. x2[a].phase \notin Credentials!Early \cup {"none", "cancelled", "verified", "active"}
      BY <1>5 DEF Credentials!Early, Credentials!Closing
    <2>9. x4' = [x4 EXCEPT ![a] = 1]
      BY <1>2, <1>4, <1>5, RegistrationRows DEF Credentials!TokenSound
    <2> QED BY <1>2, <1>4, <1>6, <1>8, <2>3, <2>5, <2>6, <2>7, <2>8, <2>9, TokenKept
  <1> QED BY <1>2, <1>7, <1>8

\* Permissions are granted, to whichever version of the attempt there is.
LEMMA GrantKept ==
  ASSUME Credentials!IInv, NEW r \in Requests, Credentials!Grant(r)
  PROVE  Credentials!IInv'
  <1>1. PICK a : a = x8[r].a
    OBVIOUS
  <1>2. UNCHANGED <<x1, x3, x4, x5, x6, x7, x9>> /\ AsideTyped' /\ Credentials!At(r, "grant")
    BY AsideStays DEF Credentials!Grant, Credentials!proxmox, Credentials!process
  <1>3. ~Credentials!At(r, "idle") /\ x8[r].pc = "grant"
    BY <1>2 DEF Credentials!At
  <1>4. /\ a \in Attempts /\ x2[a] \in AttemptRows /\ Credentials!RequestSound(r) /\ x2[a].phase # "none"
        /\ x8[r].fresh => x2[a].phase \in {"acl_applying"}
    BY <1>1, <1>3, UnderWay, Reads
  <1>5. CASE Credentials!Goto(r, "idle") /\ UNCHANGED x2
    BY <1>2, <1>5, FailKept
  <1>6. CASE x2' = [x2 EXCEPT ![a].granted = TRUE] /\ Credentials!Goto(r, "tested")
    <2> DEFINE w == [x2[a] EXCEPT !.granted = TRUE]
    <2>1. w \in AttemptRows
      BY <1>4 DEF AttemptRows
    <2>2. /\ w.mode = x2[a].mode /\ w.phase = x2[a].phase /\ w.granted = TRUE /\ w.cred = x2[a].cred
          /\ w.resolved = x2[a].resolved /\ w.op = x2[a].op /\ w.revoking = x2[a].revoking
      BY <1>4, <2>1 DEF AttemptRows
    <2>3. x2' = [x2 EXCEPT ![a] = w]
      BY <1>6
    <2> HIDE DEF w
    <2>4. x2' \in [Attempts -> AttemptRows] /\ x2'[a] = w /\ \A b \in Attempts \ {a} : x2'[b] = x2[b]
      BY <1>4, <2>1, <2>3, RegistrationRows
    <2>5. PICK row \in RequestRows :
            /\ x8' = [x8 EXCEPT ![r] = row] /\ x8'[r] = row /\ row.pc = "tested"
            /\ row.a = x8[r].a /\ row.fresh = x8[r].fresh
      BY <1>6, Moved DEF Credentials!Pcs
    <2>6. x8' \in [Requests -> RequestRows] /\ \A q \in Requests \ {r} : x8'[q] = x8[q]
      BY <2>5, RegistrationRows
    <2>7. Credentials!RequestSound(r)'
      BY <1>1, <1>4, <2>2, <2>4, <2>5, Reads DEF Credentials!RequestSound, Credentials!At
    <2>8. ASSUME NEW q \in Requests, q # r PROVE Credentials!RequestSound(q)'
      <3>1. x8'[q] = x8[q] /\ Credentials!RequestSound(q)
        BY <2>6, <2>8, RegistrationRows
      <3>2. CASE x8[q].pc # "idle" /\ x8[q].a = a
        BY <1>2, <2>2, <2>4, <3>1, <3>2 DEF Credentials!RequestSound, Credentials!At, Credentials!Usable
      <3>3. CASE x8[q].pc = "idle" \/ x8[q].a # a
        <4>1. x8[q].pc # "idle" => x8[q].a \in Attempts
          BY <3>1 DEF Credentials!RequestSound, Credentials!At
        <4> QED BY <1>2, <2>4, <3>1, <3>3, <4>1, RequestStays DEF Alike
      <3> QED BY <3>2, <3>3
    <2>9. Credentials!OneSends'
      BY <2>5, <2>6, RegistrationRows DEF Credentials!OneSends, Credentials!At
    <2>10. Credentials!RowSound(x2[a])' /\ Credentials!TokenSound(a)'
      BY <1>2, <1>4, <2>2, <2>4, RegistrationRows DEF Credentials!RowSound, Credentials!TokenSound,
         Credentials!Usable
    <2>11. \A b \in Attempts : Credentials!RowSound(x2[b])' /\ Credentials!TokenSound(b)'
      <3>1. ASSUME NEW b \in Attempts, b # a PROVE Credentials!RowSound(x2[b])' /\ Credentials!TokenSound(b)'
        BY <1>2, <2>4, <3>1, AttemptStays, RegistrationRows DEF Alike
      <3> QED BY <2>10, <3>1
    <2>12. Credentials!ConnectionSound'
      BY <1>2, <1>4, <2>2, <2>4, ConnectionStays
    <2> QED BY <1>2, <2>4, <2>6, <2>7, <2>8, <2>9, <2>11, <2>12, RegistrationRows, RegistrationNext
  <1> QED BY <1>1, <1>5, <1>6 DEF Credentials!Grant

-----------------------------------------------------------------------------
(* The connection. *)

\* Nothing is under way while the connection is switched or given up.
LEMMA NothingUnfinished ==
  ASSUME Credentials!IInv, NEW a, ~Credentials!Unfinished(a)
  PROVE  \A p \in Procs : ~x5[p]
  BY DEF Credentials!Unfinished

\* A switch: the verified attempt's credential is the connection's, and the one before retires.
LEMMA ActivateKept ==
  ASSUME Credentials!IInv, NEW r \in Requests, Credentials!Activate(r)
  PROVE  Credentials!IInv'
  <1>1. PICK a : a = x8[r].a
    OBVIOUS
  <1>2. UNCHANGED <<x3, x4, x5, x9>> /\ Credentials!At(r, "activate")
    BY DEF Credentials!Activate, Credentials!proxmox
  <1>3. ~Credentials!At(r, "idle") /\ x8[r].pc = "activate"
    BY <1>2 DEF Credentials!At
  <1>4. a \in Attempts /\ x2[a] \in AttemptRows /\ Credentials!RowSound(x2[a]) /\ Credentials!TokenSound(a)
      /\ x8[r] \in RequestRows
    BY <1>1, <1>3, UnderWay
  <1>5. CASE Credentials!Fails(r) /\ UNCHANGED <<x6, x7>>
    BY <1>2, <1>5, FailKept, AsideStays DEF Credentials!Fails
  <1>6. CASE /\ x2[a].phase = "verified" /\ ~Credentials!Unfinished(a)
             /\ x2' = [b \in Attempts |->
                  IF b = a THEN [x2[a] EXCEPT !.cred = "active", !.phase = "active", !.op = "succeeded",
                                               !.resolved = TRUE]
                  ELSE IF b = x1.rev /\ x2[b].cred = "active" THEN [x2[b] EXCEPT !.cred = "retiring"]
                  ELSE x2[b]]
             /\ x1' = [rev |-> a, open |-> TRUE]
             /\ x6' = [x6 EXCEPT ![Api] = x1.rev]
             /\ x7' = [x7 EXCEPT ![a] = "none"]
             /\ x8' = [Credentials!Outdate(a) EXCEPT ![r] = Credentials!Idle]
    <2> DEFINE row == [x2[a] EXCEPT !.cred = "active", !.phase = "active", !.op = "succeeded",
        !.resolved = TRUE]
    <2>1. row \in AttemptRows
      BY <1>4 DEF AttemptRows, Credentials!Phases, Credentials!OperationStatuses
    <2>2. /\ row.phase = "active" /\ row.cred = "active" /\ row.op = "succeeded" /\ row.resolved = TRUE
          /\ row.mode = x2[a].mode /\ row.granted = x2[a].granted /\ row.revoking = x2[a].revoking
      BY <1>4, <2>1 DEF AttemptRows
    <2>3. x2'[a] = row
      BY <1>4, <1>6
    <2> HIDE DEF row
    <2>4. ASSUME NEW b \in Attempts \ {a}
          PROVE  x2'[b] \in AttemptRows /\ Alike(x2'[b], x2[b])
      <3>1. x2[b] \in AttemptRows
        BY RegistrationRows
      <3>2. x2'[b] = [x2[b] EXCEPT !.cred = "retiring"] \/ x2'[b] = x2[b]
        BY <1>6, <2>4
      <3>3. CASE x2'[b] = [x2[b] EXCEPT !.cred = "retiring"]
        BY <3>1, <3>3 DEF AttemptRows, Alike
      <3>4. CASE x2'[b] = x2[b]
        BY <3>1, <3>4 DEF Alike
      <3> QED BY <3>2, <3>3, <3>4
    <2>5. x2' \in [Attempts -> AttemptRows]
      <3>1. \A b \in Attempts : x2'[b] \in AttemptRows
        BY <2>1, <2>3, <2>4
      <3>2. x2' = [b \in Attempts |-> x2'[b]]
        BY <1>6
      <3> QED BY <3>1, <3>2
    <2>6. Credentials!RowSound(row)
      BY <1>4, <1>6, <2>2 DEF Credentials!RowSound, Credentials!Unresolved, Credentials!Early,
         Credentials!TerminalStatuses
    <2>7. Credentials!TokenSound(a)'
      BY <1>2, <1>4, <1>6, <2>2, <2>3 DEF Credentials!TokenSound, Credentials!Usable, Credentials!Early
    <2>8. /\ Credentials!Outdate(a) \in [Requests -> RequestRows]
      BY RegistrationRows DEF Credentials!Outdate, RequestRows
    <2>9. /\ x8' \in [Requests -> RequestRows] /\ x8'[r] = Credentials!Idle
          /\ \A q \in Requests \ {r} : x8'[q] = Credentials!Outdate(a)[q]
      BY <1>6, <2>8, IdleSound
    <2>10. \A q \in Requests : \/ x8'[q] = Credentials!Outdate(a)[q]
                               \/ q = r /\ Credentials!RequestSound(q)'
                                  /\ (x8'[q].pc = "post" => x8'[q].a = a)
      BY <2>9, IdleSound
    <2>11. x1'.rev = a /\ x1'.open = TRUE /\ x1' \in [rev : Attempts \cup {Env}, open : BOOLEAN]
      BY <1>4, <1>6
    <2>12. Credentials!ConnectionSound'
      BY <1>2, <1>6, <2>2, <2>3, <2>11, NothingUnfinished DEF Credentials!ConnectionSound
    <2>13. AsideTyped'
      BY <1>2, <1>6, RegistrationRows DEF AsideTyped
    <2>14. /\ row.phase # "none" /\ row.mode = x2[a].mode
           /\ x2[a].phase # "token_dispatching" /\ x2[a].phase \notin Credentials!Closing
      BY <1>6, <2>2 DEF Credentials!Closing
    <2>15. \A b \in Attempts \ {a} : Alike(x2'[b], x2[b])
      BY <2>4
    <2>16. x1' \in [rev : Attempts \cup {Env}, open : BOOLEAN]
      BY <2>11
    <2> QED BY <1>2, <1>4, <2>1, <2>3, <2>5, <2>6, <2>7, <2>9, <2>10, <2>12, <2>13, <2>14, <2>15, <2>16,
        SaveKept
  <1> QED BY <1>1, <1>5, <1>6 DEF Credentials!Activate

\* A revocation closes admission when it is the connection's credential that goes.
LEMMA BeginRevokeKept ==
  ASSUME Credentials!IInv, NEW r \in Requests, Credentials!BeginRevoke(r)
  PROVE  Credentials!IInv'
  <1>1. PICK a : a = x8[r].a
    OBVIOUS
  <1>2. UNCHANGED <<x3, x4, x5, x6, x7, x9>> /\ Credentials!At(r, "begin") /\ AsideTyped'
    BY AsideStays DEF Credentials!BeginRevoke, Credentials!proxmox, Credentials!process
  <1>3. ~Credentials!At(r, "idle") /\ x8[r].pc = "begin"
    BY <1>2 DEF Credentials!At
  <1>4. /\ a \in Attempts /\ x2[a] \in AttemptRows /\ Credentials!RowSound(x2[a])
           /\ Credentials!TokenSound(a) /\ x8[r].a = a
        /\ Credentials!RequestSound(r) /\ x2[a].phase # "none"
    BY <1>1, <1>3, UnderWay
  <1>5. x3[a] \in {"there", "deleted"}
    BY <1>1, <1>3, <1>4 DEF Credentials!RequestSound, Credentials!At
  <1> DEFINE row == [x2[a] EXCEPT !.phase = "revocation_pending", !.revoking = TRUE]
  <1>6. row \in AttemptRows
    BY <1>4 DEF AttemptRows, Credentials!Phases
  <1>7. /\ row.phase = "revocation_pending" /\ row.revoking = TRUE /\ row.cred = x2[a].cred
           /\ row.op = x2[a].op
        /\ row.resolved = x2[a].resolved /\ row.mode = x2[a].mode /\ row.granted = x2[a].granted
    BY <1>4, <1>6 DEF AttemptRows
  <1>8. PICK active \in BOOLEAN : active <=> x2[a].cred # "none" /\ x1.rev = a
    OBVIOUS
  <1>9. \/ Credentials!Fails(r)
        \/ /\ x2[a].phase \notin Credentials!Early \cup {"cancelled", "revoked", "revocation_pending"}
           /\ active => ~Credentials!Unfinished(a)
           /\ Credentials!Save(r, a, row, "delete") /\ x1' = [x1 EXCEPT !.open = @ /\ ~active]
    BY <1>1, <1>8 DEF Credentials!BeginRevoke
  <1> HIDE DEF row
  <1>10. CASE Credentials!Fails(r)
    BY <1>2, <1>10, FailKept DEF Credentials!Fails
  <1>11. CASE /\ x2[a].phase \notin Credentials!Early \cup {"cancelled", "revoked", "revocation_pending"}
              /\ active => ~Credentials!Unfinished(a)
              /\ Credentials!Save(r, a, row, "delete") /\ x1' = [x1 EXCEPT !.open = @ /\ ~active]
    <2>1. PICK pc \in Credentials!Pcs : pc = "delete"
      BY DEF Credentials!Pcs
    <2>2. Credentials!Save(r, a, row, pc)
      BY <1>11, <2>1
    <2>3. Rewritten(a, row)
      BY <1>4, <1>6, <2>2, SavedRow
    <2>4. /\ x2' \in [Attempts -> AttemptRows] /\ x2'[a] = row
          /\ \A b \in Attempts \ {a} : x2'[b] = x2[b]
      BY <2>3 DEF Rewritten
    <2>5. Credentials!RowSound(row)
      BY <1>4, <1>7 DEF Credentials!RowSound, Credentials!Unresolved, Credentials!Early
    <2>6. Credentials!TokenSound(a)'
      BY <1>2, <1>4, <1>5, <1>7, <2>4 DEF Credentials!TokenSound, Credentials!Early
    <2>7. row.phase \in Credentials!PhasesAt(pc) /\ row.phase # "none" /\ row.mode = x2[a].mode
        /\ row.phase \in Credentials!Closing
      BY <1>7, <2>1, Reads DEF Credentials!Closing, Credentials!Phases
    <2>8. pc \notin {"judge", "conclude", "post", "stage", "import", "stageImport", "begin", "absent",
        "finish"}
      BY <2>1
    <2>9. x1 \in [rev : Attempts \cup {Env}, open : BOOLEAN] /\ Credentials!ConnectionSound
      BY RegistrationRows
    <2>10. x1' \in [rev : Attempts \cup {Env}, open : BOOLEAN] /\ x1'.rev = x1.rev
      BY <1>8, <1>11, <2>9
    <2>11. x1'.open = (x1.open /\ ~active)
      BY <1>8, <1>11, <2>9
    <2>12. Credentials!ConnectionSound'
      <3>1. CASE active
        <4>1. \A p \in Procs : ~x5[p]
          BY <1>8, <1>11, <3>1, NothingUnfinished
        <4>2. x1.rev = a /\ x1'.open = FALSE
          BY <1>8, <1>11, <2>11, <3>1
        <4>3. x1.rev # Env => x2[a].cred \in {"active", "revoked"}
          BY <2>9, <4>2 DEF Credentials!ConnectionSound
        <4> QED BY <1>2, <1>7, <2>4, <2>10, <4>1, <4>2, <4>3 DEF Credentials!ConnectionSound,
            Credentials!Closing
      <3>2. CASE ~active
        <4>1. x1'.open = x1.open
          BY <2>9, <2>11, <3>2
        <4>2. x1.rev # Env => x1.rev \in Attempts \ {a}
          BY <1>8, <1>11, <2>9, <3>2 DEF Credentials!ConnectionSound
        <4> QED BY <1>2, <2>4, <2>9, <2>10, <4>1, <4>2 DEF Credentials!ConnectionSound, Credentials!PinAgrees
      <3> QED BY <3>1, <3>2
    <2>13. x3[a] # "none"
      BY <1>5
    <2> QED BY <1>2, <1>4, <1>5, <1>6, <2>2, <2>5, <2>6, <2>7, <2>8, <2>10, <2>12, <2>13, SaveStep
  <1> QED BY <1>9, <1>10, <1>11

\* A revocation ends, and with it what it was of.
LEMMA FinishRevokeKept ==
  ASSUME Credentials!IInv, NEW r \in Requests, Credentials!FinishRevoke(r)
  PROVE  Credentials!IInv'
  <1>1. PICK a : a = x8[r].a
    OBVIOUS
  <1>2. UNCHANGED <<x1, x3, x4, x5, x6, x9>> /\ Credentials!At(r, "finish")
    BY DEF Credentials!FinishRevoke, Credentials!proxmox
  <1>3. ~Credentials!At(r, "idle") /\ x8[r].pc = "finish"
    BY <1>2 DEF Credentials!At
  <1>4. /\ a \in Attempts /\ x2[a] \in AttemptRows /\ Credentials!RowSound(x2[a])
           /\ Credentials!TokenSound(a) /\ x8[r].a = a
        /\ Credentials!RequestSound(r)
    BY <1>1, <1>3, UnderWay
  <1>5. x3[a] = "deleted"
    BY <1>1, <1>3, <1>4 DEF Credentials!RequestSound, Credentials!At
  <1>6. PICK op \in {"succeeded", "failed"} : op = IF x2[a].op = "succeeded" THEN "succeeded" ELSE "failed"
    OBVIOUS
  <1>7. PICK cred \in {"none", "revoked"} : cred = IF x2[a].cred = "none" THEN x2[a].cred ELSE "revoked"
    OBVIOUS
  <1> DEFINE row == [x2[a] EXCEPT !.phase = "revoked", !.resolved = TRUE, !.op = op, !.revoking = FALSE,
                                   !.cred = cred]
  <1>8. row \in AttemptRows
    <2>1. op \in Credentials!OperationStatuses /\ "revoked" \in Credentials!Phases
        /\ cred \in {"none", "pending", "active", "retiring", "revoked"}
      BY DEF Credentials!OperationStatuses, Credentials!Phases
    <2>2. x2[a] \in AttemptRows
      BY <1>4
    <2> QED BY <2>1, <2>2 DEF AttemptRows
  <1>9. /\ row.phase = "revoked" /\ row.revoking = FALSE /\ row.cred = cred /\ row.op = op
        /\ row.resolved = TRUE /\ row.mode = x2[a].mode /\ row.granted = x2[a].granted
    BY <1>4, <1>8 DEF AttemptRows
  <1>10. \/ Credentials!Goto(r, "idle") /\ UNCHANGED <<x2, x7>>
         \/ /\ x2[a].phase = "revocation_pending" /\ Credentials!Save(r, a, row, "idle")
            /\ x7' = [x7 EXCEPT ![a] = "none"]
    BY <1>1, <1>6, <1>7 DEF Credentials!FinishRevoke
  <1> HIDE DEF row
  <1>11. CASE Credentials!Goto(r, "idle") /\ UNCHANGED <<x2, x7>>
    BY <1>2, <1>11, FailKept, AsideStays
  <1>12. CASE /\ x2[a].phase = "revocation_pending" /\ Credentials!Save(r, a, row, "idle")
              /\ x7' = [x7 EXCEPT ![a] = "none"]
    <2>1. PICK pc \in Credentials!Pcs : pc = "idle"
      BY DEF Credentials!Pcs
    <2>2. Credentials!Save(r, a, row, pc)
      BY <1>12, <2>1
    <2>3. Rewritten(a, row)
      BY <1>4, <1>8, <2>2, SavedRow
    <2>4. /\ x2' \in [Attempts -> AttemptRows] /\ x2'[a] = row
          /\ \A b \in Attempts \ {a} : x2'[b] = x2[b]
      BY <2>3 DEF Rewritten
    <2>5. Credentials!RowSound(row)
      BY <1>9 DEF Credentials!RowSound, Credentials!Unresolved, Credentials!Early,
         Credentials!TerminalStatuses
    <2>6. Credentials!TokenSound(a)'
      BY <1>2, <1>4, <1>5, <1>9, <2>4 DEF Credentials!TokenSound, Credentials!Early
    <2>7. row.phase \in Credentials!PhasesAt(pc) /\ row.phase # "none" /\ row.mode = x2[a].mode
        /\ row.phase \in Credentials!Closing
      BY <1>9, <2>1, Reads DEF Credentials!Closing, Credentials!Phases
    <2>8. pc \notin {"judge", "conclude", "post", "stage", "import", "stageImport", "begin", "delete",
        "absent",
                     "finish"}
      BY <2>1
    <2>9. x1 \in [rev : Attempts \cup {Env}, open : BOOLEAN] /\ Credentials!ConnectionSound
      BY RegistrationRows
    <2>10. Credentials!ConnectionSound'
      <3>1. CASE x1.rev = a /\ x1.rev # Env
        <4>1. ~x1.open /\ cred = "revoked"
          BY <1>12, <1>7, <2>9, <3>1 DEF Credentials!ConnectionSound
        <4> QED BY <1>2, <1>9, <2>4, <2>9, <3>1, <4>1 DEF Credentials!ConnectionSound, Credentials!Closing
      <3>2. CASE x1.rev # a \/ x1.rev = Env
        BY <1>2, <2>4, <2>9, <3>2 DEF Credentials!ConnectionSound, Credentials!PinAgrees
      <3> QED BY <3>1, <3>2
    <2>11. AsideTyped'
      BY <1>2, <1>4, <1>12, LoginTyped
    <2>12. x2[a].phase # "token_dispatching"
      BY <1>12
    <2> QED BY <1>2, <1>4, <1>8, <2>2, <2>5, <2>6, <2>7, <2>8, <2>9, <2>10, <2>11, <2>12, SaveStep
  <1> QED BY <1>10, <1>11, <1>12

-----------------------------------------------------------------------------
(* Mutations, restarts, expiry of a login. *)

\* A process begins or ends a mutation, with the credential of the connection.
LEMMA WorkKept ==
  ASSUME Credentials!IInv, NEW p \in Procs, NEW busy \in BOOLEAN, busy => x1.open, Credentials!PinAgrees(p),
         x5' = [x5 EXCEPT ![p] = busy], x6' = [x6 EXCEPT ![p] = x1.rev],
         UNCHANGED <<x1, x2, x3, x4, x7, x8, x9>>
  PROVE  Credentials!IInv'
  <1>1. x5' \in [Procs -> BOOLEAN] /\ x1.rev \in Attempts \cup {Env}
      /\ x6 \in [Procs -> Attempts \cup {Env, None}]
    BY RegistrationRows DEF AsideTyped
  <1>2. \A r \in Requests : Credentials!RequestSound(r)'
    BY RequestStays, RegistrationRows DEF Alike
  <1>3. \A b \in Attempts : Credentials!RowSound(x2[b])' /\ Credentials!TokenSound(b)'
    BY AttemptStays, RegistrationRows DEF Alike
  <1>4. Credentials!OneSends'
    BY RegistrationRows DEF Credentials!OneSends, Credentials!At
  <1>5. ASSUME NEW q \in Procs, x5'[q] PROVE x1.open /\ Credentials!PinAgrees(q)'
    <2>1. CASE q = p
      BY <1>1, <1>5, <2>1, RegistrationRows DEF Credentials!PinAgrees
    <2>2. CASE q # p
      <3>1. x5[q] /\ x6'[q] = x6[q]
        BY <1>1, <1>5, <2>2, RegistrationRows
      <3> QED BY <3>1, RegistrationRows DEF Credentials!ConnectionSound, Credentials!PinAgrees
    <2> QED BY <2>1, <2>2
  <1>6. Credentials!ConnectionSound'
    BY <1>5, RegistrationRows DEF Credentials!ConnectionSound
  <1>7. AsideTyped'
    BY <1>1, RegistrationRows DEF AsideTyped
  <1> QED BY <1>1, <1>2, <1>3, <1>4, <1>6, <1>7, RegistrationRows, RegistrationNext

\* A mutation is admitted.
LEMMA AdmitMutationKept ==
  ASSUME Credentials!IInv, NEW p \in Procs, Credentials!AdmitMutation(p)
  PROVE  Credentials!IInv'
  BY WorkKept DEF Credentials!AdmitMutation, Credentials!proxmox

\* A mutation ends.
LEMMA FinishWorkKept ==
  ASSUME Credentials!IInv, NEW p \in Procs, Credentials!FinishWork(p)
  PROVE  Credentials!IInv'
  BY WorkKept DEF Credentials!FinishWork, Credentials!proxmox

\* A restart forgets the pin; that of the serving process, its requests and logins.
LEMMA RestartKept ==
  ASSUME Credentials!IInv, NEW p \in Procs, Credentials!Restart(p)
  PROVE  Credentials!IInv'
  <1>1. /\ x6' = [x6 EXCEPT ![p] = None] /\ UNCHANGED <<x1, x2, x3, x4, x5>>
        /\ \/ x7' = [a \in Attempts |-> "none"] /\ x8' = [r \in Requests |-> Credentials!Idle]
           \/ UNCHANGED <<x7, x8>>
        /\ UNCHANGED x9 \/ (x9 < MaxFaults /\ x9' = x9 + 1)
    BY DEF Credentials!Restart, Credentials!proxmox
  <1>2. AsideTyped'
    <2>1. x9' \in 0..MaxFaults
      BY <1>1, RegistrationRows, BoundsAssumption DEF AsideTyped
    <2>2. x7' \in [Attempts -> {"none", "challenge", "ready", "planned"}]
      BY <1>1, RegistrationRows DEF AsideTyped
    <2>3. x6' \in [Procs -> Attempts \cup {Env, None}]
      BY <1>1, RegistrationRows DEF AsideTyped
    <2> QED BY <2>1, <2>2, <2>3 DEF AsideTyped
  <1>3. x8' \in [Requests -> RequestRows] /\ \A r \in Requests : x8'[r] = x8[r] \/ x8'[r] = Credentials!Idle
    BY <1>1, IdleSound, RegistrationRows
  <1>4. \A r \in Requests : Credentials!RequestSound(r)'
    BY <1>1, <1>3, IdleSound, RequestStays, RegistrationRows DEF Alike
  <1>5. Credentials!OneSends'
    BY <1>3, IdleSound, RegistrationRows DEF Credentials!OneSends, Credentials!At
  <1>6. \A b \in Attempts : Credentials!RowSound(x2[b])' /\ Credentials!TokenSound(b)'
    BY <1>1, AttemptStays, RegistrationRows DEF Alike
  <1>7. ASSUME NEW q \in Procs, Credentials!PinAgrees(q) PROVE Credentials!PinAgrees(q)'
    <2>1. x6'[q] = x6[q] \/ x6'[q] = None
      BY <1>1, RegistrationRows DEF AsideTyped
    <2> QED BY <1>1, <1>7, <2>1 DEF Credentials!PinAgrees
  <1>8. Credentials!ConnectionSound'
    BY <1>1, <1>7, RegistrationRows DEF Credentials!ConnectionSound
  <1> QED BY <1>1, <1>2, <1>3, <1>4, <1>5, <1>6, <1>8, RegistrationRows, RegistrationNext

\* A login expires.
LEMMA LoginExpiresKept ==
  ASSUME Credentials!IInv, NEW a \in Attempts, Credentials!LoginExpires(a)
  PROVE  Credentials!IInv'
  <1>1. /\ x7' = [x7 EXCEPT ![a] = "none"] /\ x9 < MaxFaults /\ x9' = x9 + 1
        /\ UNCHANGED <<x1, x2, x3, x4, x5, x6, x8>>
    BY DEF Credentials!LoginExpires, Credentials!proxmox
  <1>2. x9' \in 0..MaxFaults
    BY <1>1, RegistrationRows, BoundsAssumption DEF AsideTyped
  <1>3. AsideTyped'
    BY <1>1, <1>2, RegistrationRows DEF AsideTyped
  <1> QED BY <1>1, <1>3, AsideKept

-----------------------------------------------------------------------------
(* The registration as a whole. *)

\* The invariant holds to begin with.
LEMMA RegistrationBegins == Credentials!Init => Credentials!IInv
  <1> SUFFICES ASSUME Credentials!Init PROVE Credentials!IInv
    OBVIOUS
  <1>1. /\ x1.rev = Env /\ x1.open = TRUE
        /\ x1 \in [rev : Attempts \cup {Env}, open : BOOLEAN]
        /\ x3 = [a \in Attempts |-> "none"] /\ x4 = [a \in Attempts |-> 0]
        /\ x5 = [p \in Procs |-> FALSE] /\ x8 = [r \in Requests |-> Credentials!Idle]
    BY DEF Credentials!Init
  <1> DEFINE w == [mode |-> "issue", phase |-> "none", resolved |-> FALSE, base |-> Env,
                   op |-> "draft", revoking |-> FALSE, cred |-> "none", granted |-> FALSE]
  <1>2. w \in AttemptRows /\ Credentials!RowSound(w) /\ w.phase = "none"
    BY DEF AttemptRows, Credentials!RowSound, Credentials!Phases, Credentials!Early, Credentials!Unresolved,
       Credentials!TerminalStatuses, Credentials!OperationStatuses
  <1>3. x2 = [a \in Attempts |-> w]
    BY DEF Credentials!Init
  <1> HIDE DEF w
  <1>4. \A a \in Attempts : x2[a] = w /\ Credentials!RowSound(x2[a]) /\ Credentials!TokenSound(a)
    BY <1>1, <1>2, <1>3 DEF Credentials!TokenSound
  <1>5. \A r \in Requests : x8[r].pc = "idle" /\ Credentials!RequestSound(r)
    BY <1>1, IdleSound DEF Credentials!RequestSound, Credentials!At
  <1>6. Credentials!OneSends /\ Credentials!ConnectionSound
    BY <1>1, <1>5 DEF Credentials!OneSends, Credentials!ConnectionSound, Credentials!At
  <1>7. Credentials!TypeOK
    <2>1. x2 \in [Attempts -> AttemptRows] /\ x8 \in [Requests -> RequestRows]
      BY <1>1, <1>2, <1>3, IdleSound
    <2>2. AsideTyped
      BY BoundsAssumption DEF Credentials!Init, AsideTyped
    <2> QED BY <1>1, <2>1, <2>2 DEF Credentials!TypeOK, AttemptRows, RequestRows, AsideTyped
  <1> QED BY <1>4, <1>5, <1>6, <1>7 DEF Credentials!IInv

\* A request under way keeps the invariant.
LEMMA ProceedKept ==
  ASSUME Credentials!IInv, NEW r \in Requests, Credentials!Proceed(r)
  PROVE  Credentials!IInv'
  BY MarkDispatchingKept, PostTokenKept, StageSecretKept, MarkAclKept, GrantKept, MarkVerifyingKept,
     TestTokenKept, ConcludeVerificationKept, ActivateKept, MarkImportKept, StageImportedKept,
     BeginRevokeKept, DeleteTokenKept, ConfirmAbsenceKept, FinishRevokeKept DEF Credentials!Proceed

\* Every step keeps the invariant.
LEMMA RegistrationStep ==
  ASSUME Credentials!IInv, Credentials!Next
  PROVE  Credentials!IInv'
  <1>1. ASSUME NEW a \in Attempts, NEW mode \in {"issue", "import"}, Credentials!Prepare(a, mode)
      PROVE Credentials!IInv'
    BY <1>1, PrepareKept
  <1>2. ASSUME NEW a \in Attempts,
               Credentials!Login(a) \/ Credentials!Mfa(a) \/ Credentials!Plan(a) \/ Credentials!Cancel(a)
                 \/ Credentials!TokenLands(a) \/ Credentials!LoginExpires(a)
        PROVE  Credentials!IInv'
    BY <1>2, LoginKept, MfaKept, PlanKept, CancelKept, TokenLandsKept, LoginExpiresKept
  <1>3. ASSUME NEW r \in Requests, NEW a \in Attempts,
               \/ Credentials!Confirm(r, a) \/ Credentials!Import(r, a) \/ Credentials!Revoke(r, a)
               \/ \E then \in BOOLEAN : Credentials!Verify(r, a, then)
        PROVE  Credentials!IInv'
    BY <1>3, ConfirmKept, ImportKept, RevokeKept, VerifyKept
  <1>4. ASSUME NEW r \in Requests, Credentials!Proceed(r) PROVE Credentials!IInv'
    BY <1>4, ProceedKept
  <1>5. ASSUME NEW p \in Procs, Credentials!AdmitMutation(p) \/ Credentials!FinishWork(p)
      \/ Credentials!Restart(p) PROVE Credentials!IInv'
    BY <1>5, AdmitMutationKept, FinishWorkKept, RestartKept
  <1> QED BY <1>1, <1>2, <1>3, <1>4, <1>5 DEF Credentials!Next

\* What the invariant says of the connection's credential and of the tokens.
LEMMA RegistrationMeans ==
  ASSUME Credentials!IInv
  PROVE  Credentials!CredentialInv /\ Credentials!TokenInv
  <1>1. Credentials!TypeOK /\ x1.rev \in Attempts \cup {Env} /\ x1.open \in BOOLEAN
    BY RegistrationRows DEF Credentials!IInv
  <1>2. \A a \in Attempts : Credentials!RowSound(x2[a]) /\ Credentials!TokenSound(a) /\ x2[a] \in AttemptRows
    BY RegistrationRows
  <1>3. Credentials!WorkKeepsCredential
    BY RegistrationRows DEF Credentials!WorkKeepsCredential, Credentials!ConnectionSound
  <1>4. Credentials!AdmittedTokenLives
    <2>1. ASSUME x1.open, x1.rev # Env, x2[x1.rev].mode = "issue" PROVE x3[x1.rev] = "there"
      <3>1. x1.rev \in Attempts /\ x2[x1.rev].phase = "active"
        BY <1>1, <2>1, RegistrationRows DEF Credentials!ConnectionSound
      <3> QED BY <1>2, <2>1, <3>1 DEF Credentials!TokenSound, Credentials!Usable
    <2> QED BY <2>1 DEF Credentials!AdmittedTokenLives
  <1>5. Credentials!ClosedDoesNotBlock
    BY <1>2 DEF Credentials!ClosedDoesNotBlock, Credentials!RowSound
  <1>6. Credentials!IssuedOnce
    <2>1. ASSUME NEW a \in Attempts PROVE x4[a] <= 1
      <3>1. x4[a] \in {0, 1}
        BY <1>2 DEF Credentials!TokenSound
      <3> QED BY <3>1
    <2> QED BY <2>1 DEF Credentials!IssuedOnce
  <1>7. Credentials!NoOrphanToken
    BY <1>2 DEF Credentials!NoOrphanToken, Credentials!TokenSound
  <1> QED BY <1>1, <1>3, <1>4, <1>5, <1>6, <1>7 DEF Credentials!CredentialInv, Credentials!TokenInv

\* A step of MCServices is one of the registration, or leaves it alone.
LEMMA CredentialsKept ==
  ASSUME part = "registration" => Credentials!IInv, [Next]_vars
  PROVE  (part = "registration" => Credentials!IInv)'
  <1>1. CASE part # "registration"
    BY <1>1 DEF Next, vars
  <1>2. CASE part = "registration" /\ Next
    <2>1. Credentials!Next
      BY <1>2 DEF Next
    <2> QED BY <1>2, <2>1, RegistrationStep
  <1>3. CASE part = "registration" /\ UNCHANGED vars
    <2>1. UNCHANGED <<x1, x2, x3, x4, x5, x6, x7, x8, x9>>
      BY <1>3 DEF vars
    <2>2. AsideTyped'
      BY <1>3, <2>1, AsideStays
    <2> QED BY <1>3, <2>1, <2>2, AsideKept
  <1> QED BY <1>1, <1>2, <1>3

\* setup_integration/repository.py: an unfinished mutation keeps the credential
\* it was admitted with, that credential lives while mutations are admitted, and a closed attempt
\* leaves nothing open; for any number of attempts, requests and processes, and any restarts.
THEOREM WorkKeepsItsCredential == Spec => []CredentialInv
  <1> DEFINE Sound == part = "registration" => Credentials!IInv
  <1>1. Init => Sound
    BY RegistrationBegins DEF Init
  <1>2. Sound /\ [Next]_vars => Sound'
    BY CredentialsKept
  <1>3. Sound => CredentialInv
    BY RegistrationMeans DEF CredentialInv
  <1> QED BY <1>1, <1>2, <1>3, PTL DEF Spec

\* setup_integration/registration.py: the durable marker comes before the request for a token, so one is
\* sent at most per attempt, and an attempt that was cancelled or revoked leaves none behind.
THEOREM EveryTokenIsAccountedFor == Spec => []TokenInv
  <1> DEFINE Sound == part = "registration" => Credentials!IInv
  <1>1. Init => Sound
    BY RegistrationBegins DEF Init
  <1>2. Sound /\ [Next]_vars => Sound'
    BY CredentialsKept
  <1>3. Sound => TokenInv
    BY RegistrationMeans DEF TokenInv
  <1> QED BY <1>1, <1>2, <1>3, PTL DEF Spec

=============================================================================
