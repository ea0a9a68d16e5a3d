--------------------------- MODULE MCRepoMutation ---------------------------
(***************************************************************************)
(* RepoMutation for TLC: a bump and the bump of update-outdated on one     *)
(* entry, and an override of another one.                                  *)
(***************************************************************************)
EXTENDS RepoMutation, TLC

CONSTANTS r1, r2, r3, a, b

ThreeTools == (r1 :> "bump") @@ (r2 :> "override") @@ (r3 :> "outdated")
SharedEntry == (r1 :> a) @@ (r2 :> b) @@ (r3 :> a)

=============================================================================
