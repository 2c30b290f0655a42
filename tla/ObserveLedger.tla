--------------------------- MODULE ObserveLedger ---------------------------
(***************************************************************************)
(* The ledger of observe requests of one recovery item.  Operators ask for *)
(* an observation with a key of their own and the version of the operation *)
(* they were shown; a key is recorded with the version it was first used   *)
(* with, is answered again when it is repeated, and is never evicted.      *)
(*                                                                         *)
(* A call reads the operation, then the item, and works out the ledger it  *)
(* will write long before it writes it.  What the observation finds is in  *)
(* VmPower; here it only ends.  Foreground requests, the runner and other  *)
(* writers of the operation are Others and Runner.                         *)
(***************************************************************************)
EXTENDS Naturals, FiniteSets

CONSTANTS Keys, Calls, None,
          Limit,       \* entries of a ledger (64 in the code)
          MaxVersion,  \* bound: events of the operation
          MaxClaims    \* bound: leases of the item

VARIABLES version,  \* of the operation; every event adds one
          rec,      \* the recovery item
          call,     \* operators' calls of observe
          asked     \* asked[k]: request events recorded for a key

vars == <<version, rec, call, asked>>

Entries == [key : Keys, fence : 1..MaxVersion]

TypeOK ==
  /\ version \in 1..MaxVersion
  /\ rec.status \in {"none", "leased", "waiting", "completed"} /\ rec.live \in BOOLEAN
  /\ rec.gen \in 0..MaxClaims /\ rec.ledger \subseteq Entries
  /\ \A c \in Calls :
       /\ call[c].pc \in {"idle", "item", "reclaim", "prepare", "claim", "record", "observe"}
       /\ call[c].key \in Keys \cup {None} /\ call[c].ledger \subseteq Entries
  /\ asked \in [Keys -> Nat]

Idle == [pc |-> "idle", key |-> None, fence |-> 0, seen |-> 0, ledger |-> {}, gen |-> 0]

Init ==
  /\ version = 1 /\ asked = [k \in Keys |-> 0]
  /\ rec = [status |-> "none", live |-> FALSE, gen |-> 0, ledger |-> {}]
  /\ call = [c \in Calls |-> Idle]

Recorded(k) == \E e \in rec.ledger : e.key = k
Entry(c) == [key |-> call[c].key, fence |-> call[c].fence]
Live == rec.status = "leased" /\ rec.live
Owns(c) == Live /\ rec.gen = call[c].gen

\* Wrong: any later version will do.
NotBefore(v) == version >= v
\* The operation is still the one the caller was shown.
Unmoved(v) == version = v

At(c, pc) == call[c].pc = pc
Go(c, pc) == call' = [call EXCEPT ![c].pc = pc]
Answer(c) == call' = [call EXCEPT ![c] = Idle]

-----------------------------------------------------------------------------

\* observe: the operation is read first; the caller names a version it was shown.
Ask(c, k, v) ==
  /\ At(c, "idle") /\ v <= version
  /\ call' = [call EXCEPT ![c] = [Idle EXCEPT !.pc = "item", !.key = k, !.fence = v, !.seen = version]]
  /\ UNCHANGED <<version, rec, asked>>

\* A key that is recorded: refused with another fence or while its lease lives, run again
\* when its lease has expired, answered from the item otherwise.
Repeated(c) ==
  /\ Recorded(call[c].key)
  /\ IF Entry(c) \in rec.ledger /\ rec.status = "leased" /\ ~rec.live THEN Go(c, "reclaim") ELSE Answer(c)

\* A new key of a caller who was shown the operation as it was read, if there is room for it.
First(c) ==
  /\ ~Recorded(call[c].key) /\ call[c].seen = call[c].fence /\ Cardinality(rec.ledger) < Limit
  /\ call' = [call EXCEPT ![c].pc = IF rec.status = "none" THEN "prepare" ELSE "claim",
                          ![c].ledger = rec.ledger \cup {Entry(c)}]

\* Any other new key is refused: the operation has moved on, the ledger is full, or the item
\* is not one to observe.
ReadItem(c) ==
  /\ At(c, "item")
  /\ Repeated(c) \/ First(c) \/ (~Recorded(call[c].key) /\ Answer(c))
  /\ UNCHANGED <<version, rec, asked>>

\* A claim takes the item from an expired lease or from none, and not when it is completed.
Claimable == ~Live /\ rec.status # "completed" /\ rec.gen < MaxClaims

Lease(c, pc, ledger) ==
  /\ rec' = [rec EXCEPT !.status = "leased", !.live = TRUE, !.gen = @ + 1]
  /\ call' = [call EXCEPT ![c].pc = pc, ![c].gen = rec.gen + 1, ![c].ledger = ledger]

\* claim_operation of an item that was read, for the version the caller named.
Claim(c) ==
  /\ At(c, "claim")
  /\ IF Unmoved(call[c].fence) /\ Claimable
       THEN Lease(c, "record", call[c].ledger)
       ELSE Answer(c) /\ UNCHANGED rec
  /\ UNCHANGED <<version, asked>>

\* prepare_and_claim where there was no item: the ledger is that of the item it returns.  An
\* operation that is not certainly without effect is refused.
Prepare(c) ==
  /\ At(c, "prepare")
  /\ \/ /\ Unmoved(call[c].fence) /\ Claimable
        /\ Lease(c, "record", rec.ledger \cup {Entry(c)})
     \/ Answer(c) /\ UNCHANGED rec
  /\ UNCHANGED <<version, asked>>

\* claim_operation of a repeated key, for the version that was read just now.
Reclaim(c) ==
  /\ At(c, "reclaim")
  /\ IF Unmoved(call[c].seen) /\ Claimable
       THEN Lease(c, "observe", {})
       ELSE Answer(c) /\ UNCHANGED rec
  /\ UNCHANGED <<version, asked>>

\* commit_observation "operator_recovery_observation_requested": an event and the whole ledger.
Record(c) ==
  /\ At(c, "record") /\ version < MaxVersion
  /\ IF Owns(c) /\ Unmoved(call[c].fence)
       THEN /\ rec' = [rec EXCEPT !.ledger = call[c].ledger]
            /\ version' = version + 1 /\ asked' = [asked EXCEPT ![call[c].key] = @ + 1]
            /\ Go(c, "observe")
       ELSE Answer(c) /\ UNCHANGED <<version, rec, asked>>

\* run_claimed ends with one more event; the work is completed or waits again.
Conclude(status) ==
  /\ version < MaxVersion /\ version' = version + 1
  /\ rec' = [rec EXCEPT !.status = status, !.live = FALSE]

Observe(c) ==
  /\ At(c, "observe")
  /\ IF Owns(c) THEN \E status \in {"waiting", "completed"} : Conclude(status)
                ELSE UNCHANGED <<version, rec>>
  /\ Answer(c) /\ UNCHANGED asked

\* The caller's process dies; what it holds stays until it expires.
Crash(c) ==
  /\ call[c].pc \in {"record", "observe"} /\ Answer(c) /\ UNCHANGED <<version, rec, asked>>

LeaseExpires == Live /\ rec' = [rec EXCEPT !.live = FALSE] /\ UNCHANGED <<version, call, asked>>

\* The foreground prepares its item, and writes its events with or without it.
Others ==
  /\ \/ /\ rec.status = "none" /\ rec.gen < MaxClaims /\ UNCHANGED version
        /\ rec' = [rec EXCEPT !.status = "leased", !.live = TRUE, !.gen = @ + 1]
     \/ version < MaxVersion /\ version' = version + 1 /\ UNCHANGED rec
  /\ UNCHANGED <<call, asked>>

\* The runner claims what is due (claim_due: no version), or somebody who is no caller ends a lease.
Runner ==
  /\ \/ /\ rec.status \in {"waiting", "leased"} /\ Claimable /\ UNCHANGED version
        /\ rec' = [rec EXCEPT !.status = "leased", !.live = TRUE, !.gen = @ + 1]
     \/ Live /\ (\A c \in Calls : ~Owns(c)) /\ \E status \in {"waiting", "completed"} : Conclude(status)
  /\ UNCHANGED <<call, asked>>

Next ==
  \/ \E c \in Calls, k \in Keys, v \in 1..MaxVersion : Ask(c, k, v)
  \/ \E c \in Calls : \/ ReadItem(c) \/ Claim(c) \/ Prepare(c) \/ Reclaim(c)
                      \/ Record(c) \/ Observe(c) \/ Crash(c)
  \/ LeaseExpires \/ Others \/ Runner

Spec == Init /\ [][Next]_vars

-----------------------------------------------------------------------------
(* Properties. *)

\* "A rejected request must not consume a lease, generation, or attempt from the recovery
\* item": whoever has a lease to record a key with finds the key new and room for it.
RefusalCostsNothing ==
  \A c \in Calls :
    At(c, "record") /\ Owns(c) => ~Recorded(call[c].key) /\ Cardinality(rec.ledger) < Limit

\* A key is recorded once, however many calls race with it and wherever one dies.
AskedOnce == \A k \in Keys : asked[k] <= 1

\* No key leaves the ledger, and none changes its fence, although every writer writes a ledger
\* it worked out before it had the lease.
LedgerStep == rec.ledger \subseteq rec'.ledger

\* The ledger is what was asked: each key once, to stay, and a refusal without a trace.
LedgerInv == TypeOK /\ RefusalCostsNothing /\ AskedOnce
\* Why: leases differ, so that only whoever has one writes.  What a call worked out holds while
\* the operation is as the caller was shown it, since no ledger is written without an event;
\* and from there on while its lease lives, since nobody else writes one.
Rows ==
  /\ rec \in [status : {"none", "leased", "waiting", "completed"}, live : BOOLEAN, gen : Nat,
              ledger : SUBSET Entries]
  /\ call \in [Calls -> [pc : {"idle", "item", "reclaim", "prepare", "claim", "record", "observe"},
                         key : Keys \cup {None}, fence : 0..MaxVersion, seen : 0..MaxVersion,
                         ledger : SUBSET Entries, gen : Nat]]
Possible(c) == ~Recorded(call[c].key) /\ Cardinality(rec.ledger) < Limit
Foreseen(c) == Possible(c) /\ call[c].ledger = rec.ledger \cup {Entry(c)}
Works(c) ==
  /\ call[c].fence <= version /\ call[c].gen <= rec.gen
  /\ ~At(c, "idle") => call[c].key \in Keys /\ call[c].fence # 0
  /\ At(c, "prepare") /\ Unmoved(call[c].fence) => Possible(c)
  /\ At(c, "claim") /\ Unmoved(call[c].fence) => Foreseen(c)
  /\ At(c, "record") /\ Owns(c) => Foreseen(c)
  /\ At(c, "record") \/ At(c, "observe") =>
       \A d \in Calls \ {c} : At(d, "record") \/ At(d, "observe") => call[d].gen # call[c].gen
IInv == /\ LedgerInv /\ Rows /\ \A c \in Calls : Works(c)
        /\ \A k \in Keys : ~Recorded(k) => asked[k] = 0

LedgerIsKept == []LedgerInv /\ [][LedgerStep]_vars
=============================================================================
