---------------------------- MODULE MCAccounts ----------------------------
(* One administrator, two accounts besides, three guarded changes, no requests. *)
EXTENDS Accounts, TLC

Interchangeable == {f @@ g : f \in Permutations(Users \ Admins), g \in Permutations(Txs)}
=============================================================================
