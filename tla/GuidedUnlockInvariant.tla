------------------------ MODULE GuidedUnlockInvariant ------------------------
(***************************************************************************)
(* An inductive invariant of GuidedUnlock.                                 *)
(*                                                                         *)
(* A thread acts on what it has read; what protects it is the version it   *)
(* compares (RowRead: as long as nobody wrote the operation, its status is *)
(* still the one that led the thread here), the lease (a lock seen under   *)
(* the lease stays), and facts that only time makes, which never change    *)
(* back: an expiry, a command that was run, a VM without its lock.         *)
(***************************************************************************)
EXTENDS GuidedUnlock

\* The plan is still to be handed off.
Planning == {"prepare", "acquire", "bind", "relock", "noLock", "observe", "dropBlocked", "same", "changed"}
\* The instruction is out, and nobody attested.
Expiring == {"overdue", "expiring", "expiryUnknown", "expiryClear"}
Inspecting == {"inspect", "unverified", "mismatch", "confirm"}

\* The statuses in which nothing was attested, or shown.
Unattested == {"none", "planned", "blocked", "awaiting_operator", "expired"}
Unshown == {"none", "planned", "blocked"}

\* The config lock was gone, whatever somebody else did since.
Removed == vm = "none" \/ relocked

\* The status of an operation, its attestation, its command and its recovery work agree.
Agreed(o) ==
  /\ op[o].status \in Unattested => op[o].att = "no"
  /\ op[o].status \in {"verifying", "succeeded"} => op[o].att # "no"
  /\ op[o].status \in Unshown => ~shown[o]
  /\ ~shown[o] => ran[o] = "no"
  /\ ran[o] # "no" => vm # "held" \/ relocked
  /\ op[o].status = "expired" => expired[o]
  /\ rec[o].status = "completed" =>
       \/ op[o].status \in {"blocked", "succeeded", "expired"}
       \/ op[o].status = "needs_reconciliation" /\ op[o].att = "late"

\* What was read of an operation nobody wrote since.
RowRead(t) ==
  LET row == op[th[t].o] IN
    th[t].fresh =>
      /\ th[t].pc \in Planning => row.status = "planned"
      /\ th[t].pc \in Expiring => row.status = "awaiting_operator"
      /\ th[t].pc \in {"verify", "verifying"} => row.att # "no"
      /\ th[t].pc \in Inspecting => row.status = "verifying"

\* A late note is for an operation that is reconciled without an attestation: none that was
\* attested in time, and none that expired.
NotedLate(o) ==
  /\ op[o].status \in {"needs_reconciliation", "verifying", "succeeded"} /\ op[o].att # "yes"
  /\ rec[o].status = "completed" => op[o].status = "succeeded"

\* What is compared by status alone, and what does not change back.
Remembered(t) ==
  LET o == th[t].o IN
    /\ th[t].pc \in {"expiring", "expiryClear", "overdue"} => expired[o]
    /\ At(t, "expiryClear") => ran[o] # "inTime" \/ relocked
    /\ At(t, "confirm") => Removed
    /\ At(t, "verifying") /\ HoldsLease(t) => Own(o)
    /\ At(t, "lateNote") => th[t].seen = "needs_reconciliation" /\ NotedLate(o)
    /\ At(t, "reopen") => th[t].seen = "expired"
    /\ At(t, "attest") => th[t].seen = "awaiting_operator"
    /\ At(t, "verify") => th[t].seen \in Attested

\* A thread that is not idle works on an operation.
Works(t) ==
  /\ ~At(t, "idle") => th[t].o \in Ops
  /\ th[t].pc \in {"clear", "survey"} => th[t].goal \in Ops

ThreadSound(t) == Works(t) /\ RowRead(t) /\ Remembered(t)

IInv ==
  /\ UnlockInv
  /\ \A o \in Ops : Agreed(o)
  /\ \A t \in Threads : ThreadSound(t)

=============================================================================
