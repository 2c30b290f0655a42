---------------------------- MODULE MCVmCreate ----------------------------
(* Small instances of VmCreate. *)
EXTENDS VmCreate, TLC

CONSTANTS o1, o2, r1, r2, v1, w1, p1

OneOp == {o1}
OneVm == {v1}
OneTarget == o1 :> v1

\* Two creations of one VM id: requests repeat one of them or compete.
TwoOps == {o1, o2}
SameTarget == o1 :> v1 @@ o2 :> v1

Interchangeable == Permutations({r1, r2})
=============================================================================
