--------------------------- MODULE MCManagedChange ---------------------------
(* A clone of VM 1 to VM 2, a restore over both, a write to VM 2, an image build as VM 2,
   and a bridge change; any two of them, or one twice. *)
EXTENDS ManagedChangeInvariant, TLC

CONSTANTS clone, restore, write, build, bridge, r1, r2, w1

AllOps == {clone, restore, write, build, bridge}
Kinds5 == clone :> "task" @@ restore :> "task" @@ write :> "sync" @@ build :> "build" @@ bridge :> "bridge"
Scopes == clone :> {1, 2} @@ restore :> {1, 2} @@ write :> {2} @@ build :> {2} @@ bridge :> {0}
Resources == {0, 1, 2}
Interchangeable == Permutations({r1, r2}) \cup Permutations({clone, restore})
=============================================================================
