------------------------------ MODULE MCVmPower ------------------------------
(* Small instances of VmPower: model values, and the functions a .cfg cannot write. *)
EXTENDS VmPowerInvariant, TLC

CONSTANTS o1, o2, v1, r1, r2, w1, p1

\* Two requests with one idempotency key.
OneOp == {o1}
SameKey == r1 :> o1 @@ r2 :> o1
OneRequest == r1 :> o1
OneVm == {v1}
OneStart == o1 :> "vm_start"
OnV1 == o1 :> v1

\* Two operations that want the same VM.
TwoOps == {o1, o2}
Rivals == r1 :> o1 @@ r2 :> o2
BothOnV1 == o1 :> v1 @@ o2 :> v1
StartAndShutdown == o1 :> "vm_start" @@ o2 :> "vm_shutdown"

=============================================================================
